--------------------------- MODULE MCPodLifecycle ---------------------------
(***************************************************************************)
(* Instances of PodLifecycle for TLC: the sets of commands an operator     *)
(* issues, and the symmetry of the model values.                           *)
(***************************************************************************)
EXTENDS PodRefinement, TLC

Run(onSuccess, onFailure, fresh, fallback) ==
    [kind |-> "run", onSuccess |-> onSuccess, onFailure |-> onFailure,
     fresh |-> fresh, fallback |-> fallback]

Cleanup(mode) == [kind |-> "cleanup", mode |-> mode]
Sweep == [kind |-> "sweep"]

\* One recycled workflow under every failure policy, and its maintenance.
RecycledWorkflow ==
    {Run("recycle", onFailure, fresh, FALSE) :
        onFailure \in {"stop", "delete", "preserve"}, fresh \in BOOLEAN}
      \cup {Cleanup("stop"), Cleanup("delete")}

\* Runs that share a state file, with nobody cleaning up meanwhile.
SharedStateFile ==
    {Run("recycle", "stop", FALSE, FALSE), Run("recycle", "delete", TRUE, FALSE),
     Run("delete", "preserve", FALSE, FALSE)}

\* Runs with a fallback cloud type, one of which always releases its pod, and
\* a bulk cleanup beside them.
WithFallback ==
    {Run("recycle", "delete", FALSE, TRUE), Run("delete", "delete", FALSE, TRUE), Sweep}

\* The minimum configuration of the recycle recipe.
RecipeOnly == {Run("recycle", "stop", FALSE, FALSE)}

\* The default lifecycle policy.
DefaultOnly == {Run("delete", "stop", FALSE, FALSE)}

\* The recycle recipe, with --force-fresh or without.
RecipeAndFresh == {Run("recycle", "stop", fresh, FALSE) : fresh \in BOOLEAN}

\* The recycle recipe, and a bulk cleanup while it runs.
RecipeAndSweep == {Run("recycle", "stop", FALSE, FALSE), Sweep}

\* The state without what no later step and no checked property can read:
\* the locals of an ended invocation, a local that the rest of the invocation
\* overwrites, and the history of a deleted pod.
LiveLocals(i) ==
    IF ~Active(i) THEN <<pc[i]>>
    ELSE <<pc[i], cmd[i], want[i], failed[i], retried[i], listed[i],
           IF At(i, "create") THEN NoPod ELSE held[i],
           IF At(i, "resume_get") THEN seen[i] ELSE NoTriple>>

PodView(p) ==
    IF status[p] = "deleted" THEN <<status[p]>>
    ELSE <<status[p], triple[p], p \in troubled, p \in kept>>

View ==
    <<[i \in Invocations |-> LiveLocals(i)], [p \in Pods |-> PodView(p)],
      stateFile, faults>>

Symmetry ==
    Permutations(Invocations) \cup Permutations(Pods) \cup Permutations(Triples)
=============================================================================
