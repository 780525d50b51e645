---------------------------- MODULE RecycleProofs ----------------------------
(***************************************************************************)
(* The recycle recipe, for every set of invocations, pods, triples and     *)
(* commands: an operator who waits for one invocation to end before the    *)
(* next, and whose runs all have on_success = recycle, finds the pod that  *)
(* still costs something in the state file, unless a call about it failed, *)
(* and no invocation unlinks another's pointer.  --force-fresh, the        *)
(* fallback, every failure policy and every cleanup command may be among   *)
(* the commands.                                                           *)
(*                                                                         *)
(* The inductive invariant says at which places the invocation under way   *)
(* has its pod in the state file, at which it alone knows the pod, and at  *)
(* which the pod of an old pointer no longer matters.  With the count of   *)
(* failures it bounds the pods that failures make the recipe forget.       *)
(***************************************************************************)
EXTENDS PodLifecycleProofs

\* The recipe: one at a time, and only runs that recycle.
Recipe == Serial /\ \A c \in Commands : c.kind = "run" => c.onSuccess = "recycle"

\* Nobody has to find p any more: it is not paid for, or for a known reason.
Settled(p) == status[p] \notin Live \/ p \in troubled \cup kept

\* The pod in hand is the one in the state file.
NamedPlaces ==
    {"resume_get", "resume_drift", "resume_start", "resume_wait", "resume_reap",
     "resume_unlink", "session", "job", "cleanup", "unlink"}

\* Only the invocation knows the pod in hand.
HiddenPlaces == {"force_fresh", "wait", "reap", "write"}

\* What the state file says is about to be replaced.
ReplacingPlaces == {"create", "wait", "reap", "write"}

\* What invocation i and the state file know between them.
KnowsItsPods(i) ==
    /\ pc[i] \in NamedPlaces => Names(stateFile, held[i])
    /\ pc[i] \in {"resume_unlink", "unlink"} => Settled(held[i])
    /\ pc[i] = "force_fresh" /\ held[i] # NoPod => stateFile.file # "pointer"
    /\ pc[i] \in ReplacingPlaces /\ stateFile.file = "pointer" =>
         Settled(stateFile.pod)
    /\ \A p \in Pods :
         \/ Settled(p) \/ Names(stateFile, p)
         \/ pc[i] \in HiddenPlaces /\ held[i] = p

Alone(i) == \A j \in Invocations : Active(j) => j = i

Recycling ==
    /\ \A i \in Invocations :
         /\ pc[i] = "idle" => held[i] = NoPod
         /\ Active(i) => Alone(i) /\ KnowsItsPods(i)
    /\ NoForgottenPod

\* What the other proofs have shown already.
Known == IInv /\ NoSilentLeak /\ Provenance

-----------------------------------------------------------------------------

\* While an invocation is alone, a running pod is its own or excused.
LEMMA RunningIsOwn ==
    ASSUME NoSilentLeak, NEW i \in Invocations, Alone(i), NEW p \in Pods,
           status[p] = "RUNNING"
    PROVE  p \in troubled \cup kept \/ Owns(i, p)
<1>1. \A j \in Invocations : Owns(j, p) => Active(j)
  BY DEF Owns, Active, OwningPlaces
<1> QED BY <1>1 DEF NoSilentLeak, Alone

\* Every step of the invocation under way keeps track of the pods.
LEMMA KnowsStep ==
    ASSUME Known, NEW i \in Invocations, Alone(i), Active(i), KnowsItsPods(i),
           Proceed(i) \/ Crash(i)
    PROVE  KnowsItsPods(i)'
<1> USE DEF Goto, At
<1>0. TypeOK /\ LocalsOK /\ Provenance
  BY DEF Known, IInv
<1>a. \A p \in Pods : status[p] = "RUNNING" => p \in troubled \cup kept \/ Owns(i, p)
  BY RunningIsOwn DEF Known
<1>1. CASE ForceFreshRead(i)
  BY <1>0, <1>a, <1>1, PointerType, PodAssumption
  DEF ForceFreshRead, cloud, history, NoFile, KnowsItsPods, Settled, Names,
      NamedPlaces, HiddenPlaces, ReplacingPlaces, Live, TypeOK, LocalsOK, Provenance,
      PodPlaces, OwningPlaces, RunPlaces, Active, Owns
<1>2. CASE ForceFreshDelete(i)
  BY <1>0, <1>a, <1>2, PointerType, PodAssumption
  DEF ForceFreshDelete, DeleteCall, Call, Fault, NoFault, locals, KnowsItsPods,
      Settled, Names,
      NamedPlaces, HiddenPlaces, ReplacingPlaces, Live, TypeOK, LocalsOK, Provenance,
      PodPlaces, OwningPlaces, RunPlaces, Active, Owns
<1>3. CASE ResumeRead(i)
  BY <1>0, <1>a, <1>3, PointerType, PodAssumption
  DEF ResumeRead, cloud, history, KnowsItsPods, Settled, Names,
      NamedPlaces, HiddenPlaces, ReplacingPlaces, Live, TypeOK, LocalsOK, Provenance,
      PodPlaces, OwningPlaces, RunPlaces, Active, Owns
<1>4. CASE ResumeGet(i)
  BY <1>0, <1>a, <1>4, PointerType, PodAssumption
  DEF ResumeGet, ResumePlace, NotPausedPlace, cloud, locals, history, KnowsItsPods,
      Settled, Names,
      NamedPlaces, HiddenPlaces, ReplacingPlaces, Live, TypeOK, LocalsOK, Provenance,
      PodPlaces, OwningPlaces, RunPlaces, Active, Owns
<1>5. CASE ResumeGetFails(i)
  BY <1>0, <1>a, <1>5, PointerType, PodAssumption
  DEF ResumeGetFails, Fault, NoFault, cloud, locals, KnowsItsPods, Settled, Names,
      NamedPlaces, HiddenPlaces, ReplacingPlaces, Live, TypeOK, LocalsOK, Provenance,
      PodPlaces, OwningPlaces, RunPlaces, Active, Owns
<1>6. CASE ResumeDelete(i)
  BY <1>0, <1>a, <1>6, PointerType, PodAssumption
  DEF ResumeDelete, DeleteCall, Call, Fault, NoFault, locals, KnowsItsPods, Settled,
      Names,
      NamedPlaces, HiddenPlaces, ReplacingPlaces, Live, TypeOK, LocalsOK, Provenance,
      PodPlaces, OwningPlaces, RunPlaces, Active, Owns
<1>7. CASE ResumeUnlink(i)
  BY <1>0, <1>a, <1>7, PointerType, PodAssumption
  DEF ResumeUnlink, cloud, locals, history, NoFile, KnowsItsPods, Settled, Names,
      NamedPlaces, HiddenPlaces, ReplacingPlaces, Live, TypeOK, LocalsOK, Provenance,
      PodPlaces, OwningPlaces, RunPlaces, Active, Owns
<1>8. CASE ResumeStart(i)
  BY <1>0, <1>a, <1>8, PointerType, PodAssumption
  DEF ResumeStart, StartCall, StartedPlace, Startable, Call, Fault, NoFault, locals,
      KnowsItsPods, Settled, Names,
      NamedPlaces, HiddenPlaces, ReplacingPlaces, Live, TypeOK, LocalsOK, Provenance,
      PodPlaces, OwningPlaces, RunPlaces, Active, Owns
<1>9. CASE Create(i)
  BY <1>0, <1>a, <1>9, PointerType, PodAssumption
  DEF Create, CreatedAs, history, KnowsItsPods, Settled, Names,
      NamedPlaces, HiddenPlaces, ReplacingPlaces, Live, TypeOK, LocalsOK, Provenance,
      PodPlaces, OwningPlaces, RunPlaces, Active, Owns
<1>10. CASE CreateUnacknowledged(i)
  BY <1>0, <1>a, <1>10, PointerType, PodAssumption
  DEF CreateUnacknowledged, CreatedAs, Fault, locals, KnowsItsPods, Settled, Names,
      NamedPlaces, HiddenPlaces, ReplacingPlaces, Live, TypeOK, LocalsOK, Provenance,
      PodPlaces, OwningPlaces, RunPlaces, Active, Owns
<1>11. CASE CreateRefused(i)
  BY <1>0, <1>a, <1>11, PointerType, PodAssumption
  DEF CreateRefused, cloud, locals, history, KnowsItsPods, Settled, Names,
      NamedPlaces, HiddenPlaces, ReplacingPlaces, Live, TypeOK, LocalsOK, Provenance,
      PodPlaces, OwningPlaces, RunPlaces, Active, Owns
<1>12. CASE StockOut(i)
  BY <1>0, <1>a, <1>12, PointerType, PodAssumption
  DEF StockOut, cloud, history, KnowsItsPods, Settled, Names,
      NamedPlaces, HiddenPlaces, ReplacingPlaces, Live, TypeOK, LocalsOK, Provenance,
      PodPlaces, OwningPlaces, RunPlaces, Active, Owns
<1>13. CASE PodReady(i)
  BY <1>0, <1>a, <1>13, PointerType, PodAssumption
  DEF PodReady, WaitedPlace, cloud, locals, history, KnowsItsPods, Settled, Names,
      NamedPlaces, HiddenPlaces, ReplacingPlaces, Live, TypeOK, LocalsOK, Provenance,
      PodPlaces, OwningPlaces, RunPlaces, Active, Owns
<1>14. CASE PodNotReady(i)
  BY <1>0, <1>a, <1>14, PointerType, PodAssumption
  DEF PodNotReady, UnreadyPlace, cloud, locals, history, KnowsItsPods, Settled, Names,
      NamedPlaces, HiddenPlaces, ReplacingPlaces, Live, TypeOK, LocalsOK, Provenance,
      PodPlaces, OwningPlaces, RunPlaces, Active, Owns
<1>15. CASE Reap(i)
  BY <1>0, <1>a, <1>15, PointerType, PodAssumption
  DEF Reap, DeleteCall, Call, Fault, NoFault, locals, KnowsItsPods, Settled, Names,
      NamedPlaces, HiddenPlaces, ReplacingPlaces, Live, TypeOK, LocalsOK, Provenance,
      PodPlaces, OwningPlaces, RunPlaces, Active, Owns
<1>16. CASE WriteState(i)
  BY <1>0, <1>a, <1>16, PointerType, PodAssumption
  DEF WriteState, PointerFor, Pointer, cloud, locals, history, KnowsItsPods,
      Settled, Names,
      NamedPlaces, HiddenPlaces, ReplacingPlaces, Live, TypeOK, LocalsOK, Provenance,
      PodPlaces, OwningPlaces, RunPlaces, Active, Owns
<1>17. CASE WriteStateFails(i)
  BY <1>0, <1>a, <1>17, PointerType, PodAssumption
  DEF WriteStateFails, WriteFailedPlace, Torn, Fault, cloud, locals, KnowsItsPods,
      Settled, Names,
      NamedPlaces, HiddenPlaces, ReplacingPlaces, Live, TypeOK, LocalsOK, Provenance,
      PodPlaces, OwningPlaces, RunPlaces, Active, Owns
<1>18. CASE StartSession(i)
  BY <1>0, <1>a, <1>18, PointerType, PodAssumption
  DEF StartSession, cloud, locals, history, KnowsItsPods, Settled, Names,
      NamedPlaces, HiddenPlaces, ReplacingPlaces, Live, TypeOK, LocalsOK, Provenance,
      PodPlaces, OwningPlaces, RunPlaces, Active, Owns
<1>19. CASE StartSessionFails(i)
  BY <1>0, <1>a, <1>19, PointerType, PodAssumption
  DEF StartSessionFails, Fault, cloud, locals, KnowsItsPods, Settled, Names,
      NamedPlaces, HiddenPlaces, ReplacingPlaces, Live, TypeOK, LocalsOK, Provenance,
      PodPlaces, OwningPlaces, RunPlaces, Active, Owns
<1>20. CASE JobSucceeds(i)
  BY <1>0, <1>a, <1>20, PointerType, PodAssumption
  DEF JobSucceeds, cloud, locals, KnowsItsPods, Settled, Names,
      NamedPlaces, HiddenPlaces, ReplacingPlaces, Live, TypeOK, LocalsOK, Provenance,
      PodPlaces, OwningPlaces, RunPlaces, Active, Owns
<1>21. CASE JobFails(i)
  BY <1>0, <1>a, <1>21, PointerType, PodAssumption
  DEF JobFails, cloud, KnowsItsPods, Settled, Names,
      NamedPlaces, HiddenPlaces, ReplacingPlaces, Live, TypeOK, LocalsOK, Provenance,
      PodPlaces, OwningPlaces, RunPlaces, Active, Owns
<1>22. CASE JobInterrupted(i)
  BY <1>0, <1>a, <1>22, PointerType, PodAssumption
  DEF JobInterrupted, Fault, cloud, locals, KnowsItsPods, Settled, Names,
      NamedPlaces, HiddenPlaces, ReplacingPlaces, Live, TypeOK, LocalsOK, Provenance,
      PodPlaces, OwningPlaces, RunPlaces, Active, Owns
<1>23. CASE CleanupPreserve(i)
  BY <1>0, <1>a, <1>23, PointerType, PodAssumption
  DEF CleanupPreserve, cloud, locals, KnowsItsPods, Settled, Names,
      NamedPlaces, HiddenPlaces, ReplacingPlaces, Live, TypeOK, LocalsOK, Provenance,
      PodPlaces, OwningPlaces, RunPlaces, Active, Owns
<1>24. CASE CleanupStop(i)
  BY <1>0, <1>a, <1>24, PointerType, PodAssumption
  DEF CleanupStop, StopCall, Call, Fault, NoFault, locals, KnowsItsPods, Settled, Names,
      NamedPlaces, HiddenPlaces, ReplacingPlaces, Live, TypeOK, LocalsOK, Provenance,
      PodPlaces, OwningPlaces, RunPlaces, Active, Owns
<1>25. CASE CleanupDelete(i)
  BY <1>0, <1>a, <1>25, PointerType, PodAssumption
  DEF CleanupDelete, DeleteCall, Call, Fault, NoFault, locals, KnowsItsPods,
      Settled, Names,
      NamedPlaces, HiddenPlaces, ReplacingPlaces, Live, TypeOK, LocalsOK, Provenance,
      PodPlaces, OwningPlaces, RunPlaces, Active, Owns
<1>26. CASE CleanupUnlink(i)
  BY <1>0, <1>a, <1>26, PointerType, PodAssumption
  DEF CleanupUnlink, cloud, locals, history, NoFile, KnowsItsPods, Settled, Names,
      NamedPlaces, HiddenPlaces, ReplacingPlaces, Live, TypeOK, LocalsOK, Provenance,
      PodPlaces, OwningPlaces, RunPlaces, Active, Owns
<1>27. CASE CleanupRead(i)
  BY <1>0, <1>a, <1>27, PointerType, PodAssumption
  DEF CleanupRead, cloud, history, KnowsItsPods, Settled, Names,
      NamedPlaces, HiddenPlaces, ReplacingPlaces, Live, TypeOK, LocalsOK, Provenance,
      PodPlaces, OwningPlaces, RunPlaces, Active, Owns
<1>28. CASE SweepList(i)
  BY <1>0, <1>a, <1>28, PointerType, PodAssumption
  DEF SweepList, cloud, history, KnowsItsPods, Settled, Names,
      NamedPlaces, HiddenPlaces, ReplacingPlaces, Live, TypeOK, LocalsOK, Provenance,
      PodPlaces, OwningPlaces, RunPlaces, Active, Owns
<1>29. CASE SweepAnswer(i)
  BY <1>0, <1>a, <1>29, PointerType, PodAssumption
  DEF SweepAnswer, cloud, locals, history, KnowsItsPods, Settled, Names,
      NamedPlaces, HiddenPlaces, ReplacingPlaces, Live, TypeOK, LocalsOK, Provenance,
      PodPlaces, OwningPlaces, RunPlaces, Active, Owns
<1>30. CASE SweepDelete(i)
  BY <1>0, <1>a, <1>30, PointerType, PodAssumption
  DEF SweepDelete, DeleteCall, Call, Fault, NoFault, KnowsItsPods, Settled, Names,
      NamedPlaces, HiddenPlaces, ReplacingPlaces, Live, TypeOK, LocalsOK, Provenance,
      PodPlaces, OwningPlaces, RunPlaces, Active, Owns
<1>31. CASE SweepEnds(i)
  BY <1>0, <1>a, <1>31, PointerType, PodAssumption
  DEF SweepEnds, cloud, locals, history, KnowsItsPods, Settled, Names,
      NamedPlaces, HiddenPlaces, ReplacingPlaces, Live, TypeOK, LocalsOK, Provenance,
      PodPlaces, OwningPlaces, RunPlaces, Active, Owns
<1>32. CASE Crash(i)
  BY <1>0, <1>a, <1>32, PointerType, PodAssumption
  DEF Crash, Fault, Torn, Owns, cloud, locals, KnowsItsPods, Settled, Names,
      NamedPlaces, HiddenPlaces, ReplacingPlaces, Live, TypeOK, LocalsOK, Provenance,
      PodPlaces, OwningPlaces, RunPlaces, Active, Owns
<1> QED BY <1>1, <1>2, <1>3, <1>4, <1>5, <1>6, <1>7, <1>8, <1>9, <1>10, <1>11,
    <1>12, <1>13, <1>14, <1>15, <1>16, <1>17, <1>18, <1>19, <1>20, <1>21, <1>22,
    <1>23, <1>24, <1>25, <1>26, <1>27, <1>28, <1>29, <1>30, <1>31, <1>32
  DEF Proceed, FindPod, UsePod, ReleasePod

\* So does an eviction.
LEMMA EvictionStep ==
    ASSUME TypeOK, NEW p \in Pods, PodDies(p)
    PROVE  /\ NoForgottenPod => NoForgottenPod'
           /\ \A i \in Invocations : KnowsItsPods(i) => KnowsItsPods(i)'
<1>1. UNCHANGED <<stateFile, pc, held, kept>>
  BY DEF PodDies, locals
<1>2. \A q \in Pods : Settled(q) => Settled(q)'
  BY DEF PodDies, Fault, Settled, TypeOK, Live
<1>3. NoForgottenPod => NoForgottenPod'
  BY <1>1, <1>2 DEF NoForgottenPod, AllIdle, Active, Settled, Names
<1>4. ASSUME NEW i \in Invocations, KnowsItsPods(i) PROVE KnowsItsPods(i)'
  BY <1>1, <1>2, <1>4, PointerType
  DEF PodDies, Fault, KnowsItsPods, Settled, Names, TypeOK, Live
<1> QED BY <1>3, <1>4

\* An invocation starts when no other is under way, and turns to the state file.
LEMMA StartStep ==
    ASSUME Recipe, TypeOK, NoForgottenPod, NEW i \in Invocations, Start(i),
           held[i] = NoPod
    PROVE  Alone(i)' /\ KnowsItsPods(i)'
<1>1. AllIdle
  BY DEF Start, Recipe, AllIdle
<1>2. PICK c \in Commands : pc' = [pc EXCEPT ![i] = FirstPlace(c)]
  BY DEF Start, Goto
<1>3. FirstPlace(c) \in {"cleanup_read", "sweep_list", "force_fresh", "resume_read"}
  <2>1. c.kind \in {"run", "cleanup", "sweep"}
    BY CommandAssumption DEF RunCommand, CleanupCommand, SweepCommand
  <2> QED BY <2>1 DEF FirstPlace, Recipe
<1>4. Alone(i)'
  BY <1>1, <1>2 DEF Alone, AllIdle, Active, TypeOK
<1>5. UNCHANGED <<status, stateFile, held, troubled, kept>>
  BY DEF Start, cloud, history
<1>6. pc'[i] \in {"cleanup_read", "sweep_list", "force_fresh", "resume_read"}
  BY <1>2, <1>3 DEF TypeOK
<1>7. \A p \in Pods : Settled(p) \/ Names(stateFile, p)
  BY <1>1 DEF NoForgottenPod, Settled
<1>8. KnowsItsPods(i)'
  BY <1>5, <1>6, <1>7
  DEF KnowsItsPods, Settled, NamedPlaces, HiddenPlaces, ReplacingPlaces
<1> QED BY <1>4, <1>8

\* The inductive step.
LEMMA RecyclingStep ==
    ASSUME Recipe
    PROVE  Known /\ Recycling /\ [Next]_vars => Recycling'
<1> SUFFICES ASSUME Known, Recycling, [Next]_vars PROVE Recycling'
  OBVIOUS
<1>0. TypeOK
  BY DEF Known, IInv
<1>1. ASSUME NEW i \in Invocations, Start(i) PROVE Recycling'
  <2>1. pc[i] = "idle" /\ held[i] = NoPod
    BY <1>1 DEF Start, At, Recycling
  <2>2. Alone(i)' /\ KnowsItsPods(i)'
    BY <1>0, <1>1, <2>1, StartStep DEF Recycling
  <2>3. Active(i)' /\ pc'[i] # "idle"
    BY <1>0, <1>1, FirstPlaceType DEF Start, Goto, TypeOK, Active
  <2>4. \A j \in Invocations : pc'[j] = "idle" => held'[j] = NoPod
    BY <1>0, <1>1, <2>3, ActsAlone DEF Acts, Recycling
  <2> QED BY <2>2, <2>3, <2>4 DEF Recycling, Alone, NoForgottenPod, AllIdle
<1>2. ASSUME NEW i \in Invocations, RefuseToStart(i) PROVE Recycling'
  <2>1. pc[i] = "idle" /\ pc'[i] = "done"
    BY <1>0, <1>2 DEF RefuseToStart, At, Goto, TypeOK
  <2>2. \A j \in Invocations : pc'[j] = "idle" => pc[j] = "idle"
    BY <1>0, <1>2, <2>1, ActsAlone DEF Acts
  <2>3. \A j \in Invocations : (Active(j)' <=> Active(j)) /\ (Active(j) => pc'[j] = pc[j])
    BY <1>0, <1>2, <2>1, ActsAlone DEF Acts, Active
  <2>4. UNCHANGED <<status, stateFile, held, troubled, kept>>
    BY <1>2 DEF RefuseToStart, cloud, locals, history
  <2>5. ASSUME NEW j \in Invocations, Active(j) PROVE KnowsItsPods(j)'
    BY <2>3, <2>4, <2>5 DEF Recycling, KnowsItsPods, Settled
  <2> QED BY <2>2, <2>3, <2>4, <2>5 DEF Recycling, Alone, NoForgottenPod, AllIdle
<1>3. ASSUME NEW i \in Invocations, Proceed(i) \/ Crash(i) PROVE Recycling'
  <2>1. Active(i) /\ Alone(i) /\ KnowsItsPods(i) /\ pc'[i] # "idle"
    BY <1>0, <1>3, UnderWay DEF Recycling
  <2>2. KnowsItsPods(i)'
    BY <1>3, <2>1, KnowsStep
  <2>3. \A j \in Invocations : j # i => ~Active(j) /\ ~Active(j)'
    BY <1>0, <1>3, <2>1, ActsAlone DEF Acts, Alone, Active
  <2>4. \A j \in Invocations : pc'[j] = "idle" => held'[j] = NoPod
    BY <1>0, <1>3, <2>1, ActsAlone DEF Acts, Recycling
  <2>5. NoForgottenPod'
    <3>1. AllIdle' => pc'[i] = "done"
      BY <2>1 DEF AllIdle, Active
    <3>2. pc'[i] = "done" => \A p \in Pods : (Settled(p) \/ Names(stateFile, p))'
      BY <2>2 DEF KnowsItsPods, HiddenPlaces
    <3> QED BY <3>1, <3>2 DEF NoForgottenPod, Settled
  <2> QED BY <2>2, <2>3, <2>4, <2>5 DEF Recycling, Alone
<1>4. ASSUME NEW p \in Pods, PodDies(p) PROVE Recycling'
  BY <1>0, <1>4, EvictionStep DEF PodDies, locals, Recycling, Alone, Active
<1>5. CASE UNCHANGED vars
  BY <1>5 DEF vars, Recycling, Alone, Active, KnowsItsPods, Settled, NoForgottenPod,
              AllIdle
<1> QED BY <1>1, <1>2, <1>3, <1>4, <1>5 DEF Next

\* The recipe keeps track of its pods in every reachable state.
LEMMA RecyclingCorrect == ASSUME Recipe PROVE Spec => [](Known /\ Recycling)
<1>1. Init => NoSilentLeak /\ Provenance
  BY DEF Init, NoSilentLeak, Provenance, PodPlaces, OwningPlaces, NoFile
<1>2. Init => Recycling
  BY DEF Init, Recycling, Active, NoForgottenPod, Live
<1>3. Known /\ [Next]_vars => Known'
  BY TypeStep, LeakStep, ProvenanceStep DEF Known
<1>4. Init => Known
  BY <1>1, TypeInit DEF Known
<1>5. Known /\ Recycling /\ [Next]_vars => Recycling'
  BY RecyclingStep
<1> QED BY <1>2, <1>3, <1>4, <1>5, PTL DEF Spec

-----------------------------------------------------------------------------

\* Between the runs of the recipe, a pod that still costs something is the one the
\* state file names, unless it was kept on purpose or a call about it failed:
\* neither drift (try_resume_pod) nor --force-fresh (_force_fresh_delete_stale)
\* leaves a second one behind by itself.  A refused `pod start` or delete does.
THEOREM NothingForgotten == ASSUME Recipe PROVE Spec => []NoForgottenPod
<1>1. Known /\ Recycling => NoForgottenPod
  BY DEF Recycling
<1> QED BY <1>1, RecyclingCorrect, PTL

\* Between the runs of the recipe, one failure has cost one pod at most: losing
\* track of a pod never makes try_resume_pod or provision_pod lose another.
THEOREM LossesBounded == ASSUME Recipe PROVE Spec => []OneLossPerFault
<1>1. TypeOK /\ NoForgottenPod /\ TroubleCounted => OneLossPerFault
  <2> SUFFICES ASSUME TypeOK, NoForgottenPod, TroubleCounted, AllIdle
               PROVE  Cardinality(Forgotten) <= faults
    BY DEF OneLossPerFault
  <2>1. Forgotten \subseteq troubled
    BY DEF Forgotten, NoForgottenPod
  <2> QED BY <2>1, FewTroubled
<1> QED BY <1>1, TypeCorrectness, NothingForgotten, Counted, PTL

\* The places that unlink the state file: all of them have read or kept the
\* pointer they remove (provider.py's unlink calls, orchestrator.py's one).
LEMMA UnlinkStep ==
    ASSUME Known, Recycling, [Next]_vars,
           stateFile.file = "pointer", stateFile' = NoFile
    PROVE  \E i \in Invocations :
             /\ pc'[i] # pc[i] \/ held'[i] # held[i]
             /\ held'[i] = stateFile.pod
<1>1. TypeOK
  BY DEF Known, IInv
<1>2. stateFile' # stateFile
  BY DEF NoFile
<1>3. PICK i \in Invocations : ForceFreshRead(i) \/ ResumeUnlink(i) \/ CleanupUnlink(i)
  BY <1>2
    DEF Next, vars, PodDies, Start, RefuseToStart, Proceed, Crash, FindPod, UsePod,
      ReleasePod, ForceFreshDelete, ResumeRead, ResumeGet, ResumeGetFails,
      ResumeDelete, ResumeStart, Create, CreateUnacknowledged,
      CreateRefused, StockOut, PodReady, PodNotReady, Reap,
      WriteState, PointerFor, Pointer, NoFile, Torn, WriteStateFails,
      StartSession, StartSessionFails,
      JobSucceeds, JobFails, JobInterrupted, CleanupPreserve, CleanupStop,
      CleanupDelete, CleanupRead, SweepList, SweepAnswer, SweepDelete, SweepEnds
<1>4. CASE ForceFreshRead(i)
  <2>1. held[i] = NoPod /\ stateFile.pod \in Pods
    BY <1>1, <1>4, PointerType DEF ForceFreshRead, TypeOK
  <2> QED BY <1>1, <1>4, <2>1, PodAssumption DEF ForceFreshRead, TypeOK
<1>5. CASE ResumeUnlink(i) \/ CleanupUnlink(i)
  <2>1. pc[i] \in {"resume_unlink", "unlink"} /\ held' = held /\ pc'[i] # pc[i]
    BY <1>1, <1>5 DEF ResumeUnlink, CleanupUnlink, At, Goto, locals, TypeOK
  <2>2. Names(stateFile, held[i])
    BY <2>1 DEF Recycling, KnowsItsPods, NamedPlaces, Active
  <2> QED BY <2>1, <2>2 DEF Names
<1> QED BY <1>3, <1>4, <1>5

\* The state file is unlinked only by the invocation whose pod it names, as the
\* recipe runs one invocation at a time.
THEOREM OwnPointerOnly == ASSUME Recipe PROVE Spec => UnlinkOnlyOwnPointer
<1>1. Known /\ Recycling /\ [Next]_vars =>
        [ stateFile.file = "pointer" /\ stateFile' = NoFile =>
            \E i \in Invocations :
               /\ pc'[i] # pc[i] \/ held'[i] # held[i]
               /\ held'[i] = stateFile.pod ]_vars
  BY UnlinkStep
<1> QED BY <1>1, RecyclingCorrect, PTL DEF Spec, UnlinkOnlyOwnPointer
=============================================================================
