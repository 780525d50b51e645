--------------------------- MODULE PodRefinement ---------------------------
(***************************************************************************)
(* PodLifecycle implements PodContract: how far an invocation is follows   *)
(* from its place, and a pod is excused when it was left running by the    *)
(* preserve action or when a fault touched it.                             *)
(***************************************************************************)
EXTENDS PodLifecycle

\* An invocation that has a pod, and has not worked on it yet; one that is
\* done with its pod.  A `cleanup` has no pod of its own.
Has(i) == cmd[i].kind = "run" /\ pc[i] \in OwningPlaces
Holding(i) == Has(i) /\ pc[i] \notin {"session", "job", "cleanup"}
IsOver(i) == pc[i] \in {"unlink", "done"}

PhaseOf(i) ==
    IF Has(i) THEN IF Holding(i) THEN "holding" ELSE "working"
    ELSE IF IsOver(i) THEN "over" ELSE "seeking"

PodOf(i) == IF Has(i) THEN held[i] ELSE NoPod

Contract == INSTANCE PodContract WITH
    Clients <- Invocations,
    phase <- [i \in Invocations |-> PhaseOf(i)],
    user <- [i \in Invocations |-> PodOf(i)],
    excused <- troubled \cup kept

\* Every step of an invocation, whatever the others do in between and whatever
\* fails, is a step that the contract allows or leaves what it speaks of alone:
\* provision_pod, try_resume_pod, cleanup_pod and the maintenance commands
\* keep the one promise between them.
HonoursContract == Contract!Spec
=============================================================================
