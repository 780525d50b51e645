------------------------ MODULE PodLifecycleProofs ------------------------
(***************************************************************************)
(* What holds of PodLifecycle for every set of invocations, pods, triples  *)
(* and commands, for every bound on the faults, and for whatever `pod      *)
(* start` does with a running pod.                                         *)
(*                                                                         *)
(* The type invariant is strengthened with LocalsOK: which locals of an    *)
(* invocation are set at which of its places.  Each safety invariant rests *)
(* on it, and every step lemma has one step per action of Next.            *)
(*                                                                         *)
(* After the invariants about single pods and runs: how many pods failures *)
(* may cost, who may stop a pod at work, and how many steps an invocation  *)
(* has left.                                                               *)
(***************************************************************************)
EXTENDS PodLifecycle, FiniteSetTheorems, TLAPS

\* The places at which an invocation has a pod id in hand.
PodPlaces == OwningPlaces \cup
    {"resume_get", "resume_drift", "resume_start", "resume_unlink", "unlink"}

\* The places that only a `run` reaches.
RunPlaces == (OwningPlaces \ {"cleanup"}) \cup
    {"force_fresh", "resume_read", "resume_get", "resume_drift", "resume_start",
     "resume_unlink", "create"}

LocalsOK ==
    \A i \in Invocations :
        /\ pc[i] \in PodPlaces => held[i] \in Pods
        /\ Active(i) => cmd[i] \in Commands /\ want[i] \in Triples
        /\ pc[i] \in RunPlaces => cmd[i].kind = "run"
        /\ pc[i] = "cleanup_read" => cmd[i].kind = "cleanup"
        /\ pc[i] = "cleanup" => cmd[i].kind \in {"run", "cleanup"}

IInv == TypeOK /\ LocalsOK

-----------------------------------------------------------------------------
(***************************************************************************)
(* The operators the actions are built from.                               *)
(***************************************************************************)

\* What a state file can hold, and what a pointer in it gives back: the pod
\* and the triple that were written (provision_pod, try_resume_pod).
LEMMA PointerType ==
    /\ NoFile \in StateFiles
    /\ Torn \in StateFiles
    /\ \A p \in Pods, t \in Triples : Pointer(p, t) \in StateFiles
    /\ \A f \in StateFiles :
         f.file = "pointer" => f.pod \in Pods /\ f.triple \in Triples
<1>1. NoFile.file # "pointer" /\ Torn.file # "pointer"
  BY DEF NoFile, Torn
<1>2. \A p \in Pods, t \in Triples : Pointer(p, t).pod = p /\ Pointer(p, t).triple = t
  BY DEF Pointer
<1>3. ASSUME NEW f \in StateFiles, f.file = "pointer"
      PROVE  \E p \in Pods, t \in Triples : f = Pointer(p, t)
  BY <1>1, <1>3 DEF StateFiles
<1> QED BY <1>2, <1>3 DEF StateFiles

\* A runpodctl call keeps the types of what it changes, whatever it replies.
LEMMA CallType ==
    ASSUME TypeOK, NEW p \in Pods, NEW from,
           NEW to \in {"absent", "RUNNING", "EXITED", "deleted"}, NEW reply,
           Call(p, from, to, reply)
    PROVE  /\ status' \in [Pods -> {"absent", "RUNNING", "EXITED", "deleted"}]
           /\ triple' \in [Pods -> Triples \cup {NoTriple}]
           /\ troubled' \subseteq Pods
           /\ faults' \in 0 .. MaxFaults
  BY FaultAssumption DEF Call, TypeOK, Fault, NoFault

\* Where an invocation begins is decided by the kind of its command (main).
LEMMA FirstPlaceType ==
    \A c \in Commands :
        /\ FirstPlace(c) \in {"cleanup_read", "sweep_list", "create",
                              "force_fresh", "resume_read"}
        /\ FirstPlace(c) \in RunPlaces => c.kind = "run"
        /\ FirstPlace(c) = "cleanup_read" => c.kind = "cleanup"
<1>1. \A c \in Commands : c.kind \in {"run", "cleanup", "sweep"}
  BY CommandAssumption DEF RunCommand, CleanupCommand, SweepCommand
<1> QED BY <1>1 DEF FirstPlace, RunPlaces, OwningPlaces

-----------------------------------------------------------------------------
(***************************************************************************)
(* The type invariant.                                                     *)
(***************************************************************************)

\* Before the first command is issued, every variable has its type.
LEMMA TypeInit == Init => IInv
  BY TripleAssumption, PodAssumption, FaultAssumption, PointerType
  DEF Init, IInv, TypeOK, LocalsOK, Places, OwningPlaces, PodPlaces, RunPlaces,
      Active

\* Every handler keeps the types, and never works on a pod id it has not read.
LEMMA TypeStep == IInv /\ [Next]_vars => IInv'
<1> SUFFICES ASSUME TypeOK, LocalsOK, [Next]_vars PROVE TypeOK' /\ LocalsOK'
  BY DEF IInv
<1> USE DEF Goto, At
<1>1. ASSUME NEW i \in Invocations, Start(i) PROVE TypeOK' /\ LocalsOK'
  <2>1. PICK c \in Commands, t \in Triples :
            /\ cmd' = [cmd EXCEPT ![i] = c]
            /\ want' = [want EXCEPT ![i] = t]
            /\ pc' = [pc EXCEPT ![i] = FirstPlace(c)]
    BY <1>1 DEF Start
  <2>2. UNCHANGED <<status, triple, stateFile, held, seen, failed, retried,
                    listed, tainted, troubled, kept, faults>>
    BY <1>1 DEF Start, cloud, history
  <2>3. FirstPlace(c) \in Places BY FirstPlaceType DEF Places
  <2>4. FirstPlace(c) \notin PodPlaces
    BY FirstPlaceType DEF PodPlaces, OwningPlaces
  <2>5. TypeOK' BY <2>1, <2>2, <2>3 DEF TypeOK
  <2>6. LocalsOK'
    BY <2>1, <2>2, <2>4, FirstPlaceType DEF TypeOK, LocalsOK, Active
  <2> QED BY <2>5, <2>6
<1>2. ASSUME NEW i \in Invocations, RefuseToStart(i) PROVE TypeOK' /\ LocalsOK'
  <2>1. TypeOK'
    BY <1>2 DEF RefuseToStart, cloud, locals, history, TypeOK, Places,
      OwningPlaces, Active, PodPlaces, LocalsOK
  <2>2. LocalsOK'
    BY <1>2 DEF RefuseToStart, locals, LocalsOK, PodPlaces, RunPlaces,
      OwningPlaces, Active
  <2> QED BY <2>1, <2>2
<1>3. ASSUME NEW i \in Invocations, ForceFreshRead(i) PROVE TypeOK' /\ LocalsOK'
  <2>1. TypeOK'
    BY <1>3, PointerType DEF ForceFreshRead, cloud, history, TypeOK, Places,
      OwningPlaces, Active, PodPlaces, LocalsOK
  <2>2. LocalsOK'
    BY <1>3 DEF ForceFreshRead, TypeOK, LocalsOK, PodPlaces, RunPlaces,
      OwningPlaces, Active
  <2> QED BY <2>1, <2>2
<1>4. ASSUME NEW i \in Invocations, ForceFreshDelete(i) PROVE TypeOK' /\ LocalsOK'
  <2>1. TypeOK'
    BY <1>4, CallType DEF ForceFreshDelete, DeleteCall, locals, Live,
      NoFault, Fault, TypeOK, Places, OwningPlaces, Active, PodPlaces,
      LocalsOK
  <2>2. LocalsOK'
    BY <1>4 DEF ForceFreshDelete, locals, Fault, TypeOK, LocalsOK, Places,
      PodPlaces, RunPlaces, OwningPlaces, Active
  <2> QED BY <2>1, <2>2
<1>5. ASSUME NEW i \in Invocations, ResumeRead(i) PROVE TypeOK' /\ LocalsOK'
  <2>1. TypeOK'
    BY <1>5, PointerType DEF ResumeRead, cloud, history, TypeOK, Places,
      OwningPlaces, Active, PodPlaces, LocalsOK
  <2>2. LocalsOK'
    BY <1>5, PointerType DEF ResumeRead, TypeOK, LocalsOK, PodPlaces,
      RunPlaces, OwningPlaces, Active
  <2> QED BY <2>1, <2>2
<1>6. ASSUME NEW i \in Invocations, ResumeGet(i) PROVE TypeOK' /\ LocalsOK'
  <2>1. TypeOK'
    BY <1>6 DEF ResumeGet, ResumePlace, NotPausedPlace, cloud, locals,
      history, TypeOK, Places, OwningPlaces, Active, PodPlaces, LocalsOK
  <2>2. LocalsOK'
    BY <1>6 DEF ResumeGet, ResumePlace, NotPausedPlace, locals, LocalsOK,
      Places, PodPlaces, RunPlaces, OwningPlaces, Active
  <2> QED BY <2>1, <2>2
<1>7. ASSUME NEW i \in Invocations, ResumeGetFails(i) PROVE TypeOK' /\ LocalsOK'
  <2>1. TypeOK'
    BY <1>7, FaultAssumption DEF ResumeGetFails, Fault, NoFault, cloud,
      locals, TypeOK, Places, OwningPlaces, Active, PodPlaces, LocalsOK
  <2>2. LocalsOK'
    BY <1>7 DEF ResumeGetFails, locals, LocalsOK, Places, PodPlaces,
      RunPlaces, OwningPlaces, Active
  <2> QED BY <2>1, <2>2
<1>8. ASSUME NEW i \in Invocations, ResumeDelete(i) PROVE TypeOK' /\ LocalsOK'
  <2>1. TypeOK'
    BY <1>8, CallType DEF ResumeDelete, DeleteCall, locals, Live, NoFault,
      Fault, TypeOK, Places, OwningPlaces, Active, PodPlaces, LocalsOK
  <2>2. LocalsOK'
    BY <1>8 DEF ResumeDelete, locals, Fault, TypeOK, LocalsOK, Places,
      PodPlaces, RunPlaces, OwningPlaces, Active
  <2> QED BY <2>1, <2>2
<1>9. ASSUME NEW i \in Invocations, ResumeUnlink(i) PROVE TypeOK' /\ LocalsOK'
  <2>1. TypeOK'
    BY <1>9, PointerType DEF ResumeUnlink, cloud, locals, history, TypeOK,
      Places, OwningPlaces, Active, PodPlaces, LocalsOK
  <2>2. LocalsOK'
    BY <1>9 DEF ResumeUnlink, locals, LocalsOK, Places, PodPlaces, RunPlaces,
      OwningPlaces, Active
  <2> QED BY <2>1, <2>2
<1>10. ASSUME NEW i \in Invocations, ResumeStart(i) PROVE TypeOK' /\ LocalsOK'
  <2>1. TypeOK'
    BY <1>10, CallType DEF ResumeStart, StartCall, StartedPlace, locals,
      Startable, NoFault, Fault, Live, TypeOK, Places, OwningPlaces, Active,
      PodPlaces, LocalsOK
  <2>2. LocalsOK'
    BY <1>10 DEF ResumeStart, StartedPlace, locals, NoFault, Fault, Live,
      TypeOK, LocalsOK, Places, PodPlaces, RunPlaces, OwningPlaces, Active
  <2> QED BY <2>1, <2>2
<1>11. ASSUME NEW i \in Invocations, Create(i) PROVE TypeOK' /\ LocalsOK'
  <2>1. TypeOK'
    BY <1>11 DEF Create, CreatedAs, history, TypeOK, Places, OwningPlaces,
      Active, PodPlaces, LocalsOK
  <2>2. LocalsOK'
    BY <1>11 DEF Create, CreatedAs, TypeOK, LocalsOK, RunPlaces,
      OwningPlaces, Active
  <2> QED BY <2>1, <2>2
<1>12. ASSUME NEW i \in Invocations, CreateUnacknowledged(i) PROVE TypeOK' /\ LocalsOK'
  <2>1. TypeOK'
    BY <1>12, FaultAssumption DEF CreateUnacknowledged, CreatedAs, Fault,
      locals, TypeOK, Places, OwningPlaces, Active, PodPlaces, LocalsOK
  <2>2. LocalsOK'
    BY <1>12 DEF CreateUnacknowledged, CreatedAs, locals, LocalsOK,
      PodPlaces, RunPlaces, OwningPlaces, Active
  <2> QED BY <2>1, <2>2
<1>13. ASSUME NEW i \in Invocations, CreateRefused(i) PROVE TypeOK' /\ LocalsOK'
  <2>1. TypeOK'
    BY <1>13 DEF CreateRefused, cloud, locals, history, TypeOK, Places,
      OwningPlaces, Active, PodPlaces, LocalsOK
  <2>2. LocalsOK'
    BY <1>13 DEF CreateRefused, locals, LocalsOK, PodPlaces, RunPlaces,
      OwningPlaces, Active
  <2> QED BY <2>1, <2>2
<1>14. ASSUME NEW i \in Invocations, StockOut(i) PROVE TypeOK' /\ LocalsOK'
  <2>1. TypeOK'
    BY <1>14 DEF StockOut, cloud, history, TypeOK, Places, OwningPlaces,
      Active, PodPlaces, LocalsOK
  <2>2. LocalsOK'
    BY <1>14 DEF StockOut, LocalsOK, PodPlaces, RunPlaces, OwningPlaces,
      Active
  <2> QED BY <2>1, <2>2
<1>15. ASSUME NEW i \in Invocations, PodReady(i) PROVE TypeOK' /\ LocalsOK'
  <2>1. TypeOK'
    BY <1>15 DEF PodReady, WaitedPlace, cloud, locals, history, TypeOK,
      Places, OwningPlaces, Active, PodPlaces, LocalsOK
  <2>2. LocalsOK'
    BY <1>15 DEF PodReady, WaitedPlace, locals, LocalsOK, Places, PodPlaces,
      RunPlaces, OwningPlaces, Active
  <2> QED BY <2>1, <2>2
<1>16. ASSUME NEW i \in Invocations, PodNotReady(i) PROVE TypeOK' /\ LocalsOK'
  <2>1. TypeOK'
    BY <1>16 DEF PodNotReady, UnreadyPlace, cloud, locals, history, TypeOK,
      Places, OwningPlaces, Active, PodPlaces, LocalsOK
  <2>2. LocalsOK'
    BY <1>16 DEF PodNotReady, UnreadyPlace, locals, LocalsOK, Places,
      PodPlaces, RunPlaces, OwningPlaces, Active
  <2> QED BY <2>1, <2>2
<1>17. ASSUME NEW i \in Invocations, Reap(i) PROVE TypeOK' /\ LocalsOK'
  <2>1. TypeOK'
    BY <1>17, CallType DEF Reap, DeleteCall, locals, Live, NoFault, Fault,
      TypeOK, Places, OwningPlaces, Active, PodPlaces, LocalsOK
  <2>2. LocalsOK'
    BY <1>17 DEF Reap, locals, Fault, TypeOK, LocalsOK, Places, PodPlaces,
      RunPlaces, OwningPlaces, Active
  <2> QED BY <2>1, <2>2
<1>18. ASSUME NEW i \in Invocations, WriteState(i) PROVE TypeOK' /\ LocalsOK'
  <2>1. TypeOK'
    BY <1>18, PointerType DEF WriteState, PointerFor, cloud, locals, history,
      TypeOK, Places, OwningPlaces, Active, PodPlaces, LocalsOK
  <2>2. LocalsOK'
    BY <1>18 DEF WriteState, locals, LocalsOK, Places, PodPlaces, RunPlaces,
      OwningPlaces, Active
  <2> QED BY <2>1, <2>2
<1>19. ASSUME NEW i \in Invocations, WriteStateFails(i) PROVE TypeOK' /\ LocalsOK'
  <2>1. TypeOK'
    BY <1>19, PointerType, FaultAssumption DEF WriteStateFails, Fault,
      WriteFailedPlace, cloud, locals, TypeOK, Places, OwningPlaces, Active,
      PodPlaces, LocalsOK
  <2>2. LocalsOK'
    BY <1>19 DEF WriteStateFails, WriteFailedPlace, locals, LocalsOK, Places,
      PodPlaces, RunPlaces, OwningPlaces, Active
  <2> QED BY <2>1, <2>2
<1>20. ASSUME NEW i \in Invocations, StartSession(i) PROVE TypeOK' /\ LocalsOK'
  <2>1. TypeOK'
    BY <1>20 DEF StartSession, cloud, locals, history, TypeOK, Places,
      OwningPlaces, Active, PodPlaces, LocalsOK
  <2>2. LocalsOK'
    BY <1>20 DEF StartSession, locals, LocalsOK, PodPlaces, RunPlaces,
      OwningPlaces, Active
  <2> QED BY <2>1, <2>2
<1>21. ASSUME NEW i \in Invocations, StartSessionFails(i) PROVE TypeOK' /\ LocalsOK'
  <2>1. TypeOK'
    BY <1>21, FaultAssumption DEF StartSessionFails, Fault, cloud, locals,
      TypeOK, Places, OwningPlaces, Active, PodPlaces, LocalsOK
  <2>2. LocalsOK'
    BY <1>21 DEF StartSessionFails, locals, LocalsOK, PodPlaces, RunPlaces,
      OwningPlaces, Active
  <2> QED BY <2>1, <2>2
<1>22. ASSUME NEW i \in Invocations, JobSucceeds(i) PROVE TypeOK' /\ LocalsOK'
  <2>1. TypeOK'
    BY <1>22 DEF JobSucceeds, cloud, locals, TypeOK, Places, OwningPlaces,
      Active, PodPlaces, LocalsOK
  <2>2. LocalsOK'
    BY <1>22 DEF JobSucceeds, locals, LocalsOK, PodPlaces, RunPlaces,
      OwningPlaces, Active
  <2> QED BY <2>1, <2>2
<1>23. ASSUME NEW i \in Invocations, JobFails(i) PROVE TypeOK' /\ LocalsOK'
  <2>1. TypeOK'
    BY <1>23 DEF JobFails, cloud, TypeOK, Places, OwningPlaces, Active,
      PodPlaces, LocalsOK
  <2>2. LocalsOK'
    BY <1>23 DEF JobFails, LocalsOK, PodPlaces, RunPlaces, OwningPlaces,
      Active
  <2> QED BY <2>1, <2>2
<1>24. ASSUME NEW i \in Invocations, JobInterrupted(i) PROVE TypeOK' /\ LocalsOK'
  <2>1. TypeOK'
    BY <1>24, FaultAssumption DEF JobInterrupted, Fault, cloud, locals,
      TypeOK, Places, OwningPlaces, Active, PodPlaces, LocalsOK
  <2>2. LocalsOK'
    BY <1>24 DEF JobInterrupted, locals, LocalsOK, PodPlaces, RunPlaces,
      OwningPlaces, Active
  <2> QED BY <2>1, <2>2
<1>25. ASSUME NEW i \in Invocations, CleanupPreserve(i) PROVE TypeOK' /\ LocalsOK'
  <2>1. TypeOK'
    BY <1>25 DEF CleanupPreserve, cloud, locals, TypeOK, Places,
      OwningPlaces, Active, PodPlaces, LocalsOK
  <2>2. LocalsOK'
    BY <1>25 DEF CleanupPreserve, locals, LocalsOK, PodPlaces, RunPlaces,
      OwningPlaces, Active
  <2> QED BY <2>1, <2>2
<1>26. ASSUME NEW i \in Invocations, CleanupStop(i) PROVE TypeOK' /\ LocalsOK'
  <2>1. TypeOK'
    BY <1>26, CallType DEF CleanupStop, StopCall, locals, Live, NoFault,
      Fault, TypeOK, Places, OwningPlaces, Active, PodPlaces, LocalsOK
  <2>2. LocalsOK'
    BY <1>26 DEF CleanupStop, locals, NoFault, Fault, TypeOK, LocalsOK,
      Places, PodPlaces, RunPlaces, OwningPlaces, Active
  <2> QED BY <2>1, <2>2
<1>27. ASSUME NEW i \in Invocations, CleanupDelete(i) PROVE TypeOK' /\ LocalsOK'
  <2>1. TypeOK'
    BY <1>27, CallType DEF CleanupDelete, DeleteCall, locals, Live, NoFault,
      Fault, TypeOK, Places, OwningPlaces, Active, PodPlaces, LocalsOK
  <2>2. LocalsOK'
    BY <1>27 DEF CleanupDelete, locals, NoFault, Fault, TypeOK, LocalsOK,
      Places, PodPlaces, RunPlaces, OwningPlaces, Active
  <2> QED BY <2>1, <2>2
<1>28. ASSUME NEW i \in Invocations, CleanupUnlink(i) PROVE TypeOK' /\ LocalsOK'
  <2>1. TypeOK'
    BY <1>28, PointerType DEF CleanupUnlink, cloud, locals, history, TypeOK,
      Places, OwningPlaces, Active, PodPlaces, LocalsOK
  <2>2. LocalsOK'
    BY <1>28 DEF CleanupUnlink, locals, LocalsOK, Places, PodPlaces,
      RunPlaces, OwningPlaces, Active
  <2> QED BY <2>1, <2>2
<1>29. ASSUME NEW i \in Invocations, CleanupRead(i) PROVE TypeOK' /\ LocalsOK'
  <2>1. TypeOK'
    BY <1>29, PointerType DEF CleanupRead, cloud, history, TypeOK, Places,
      OwningPlaces, Active, PodPlaces, LocalsOK
  <2>2. LocalsOK'
    BY <1>29, PointerType DEF CleanupRead, TypeOK, LocalsOK, PodPlaces,
      RunPlaces, OwningPlaces, Active
  <2> QED BY <2>1, <2>2
<1>30. ASSUME NEW i \in Invocations, SweepList(i) PROVE TypeOK' /\ LocalsOK'
  <2>1. TypeOK'
    BY <1>30 DEF SweepList, cloud, history, TypeOK, Places, OwningPlaces,
      Active, PodPlaces, LocalsOK
  <2>2. LocalsOK'
    BY <1>30 DEF SweepList, TypeOK, LocalsOK, PodPlaces, RunPlaces,
      OwningPlaces, Active
  <2> QED BY <2>1, <2>2
<1>31. ASSUME NEW i \in Invocations, SweepAnswer(i) PROVE TypeOK' /\ LocalsOK'
  <2>1. TypeOK'
    BY <1>31 DEF SweepAnswer, cloud, locals, history, TypeOK, Places,
      OwningPlaces, Active, PodPlaces, LocalsOK
  <2>2. LocalsOK'
    BY <1>31 DEF SweepAnswer, locals, TypeOK, LocalsOK, PodPlaces, RunPlaces,
      OwningPlaces, Active
  <2> QED BY <2>1, <2>2
<1>32. ASSUME NEW i \in Invocations, SweepDelete(i) PROVE TypeOK' /\ LocalsOK'
  <2>1. PICK p \in listed[i], reply \in Replies :
            /\ Call(p, Live, "deleted", reply)
            /\ listed' = [listed EXCEPT ![i] = @ \ {p}]
    BY <1>32 DEF SweepDelete, DeleteCall
  <2>2. p \in Pods BY DEF TypeOK
  <2>3. TypeOK' BY <1>32, <2>1, <2>2, CallType DEF SweepDelete, TypeOK
  <2>4. LocalsOK' BY <1>32 DEF SweepDelete, TypeOK, LocalsOK, Active
  <2> QED BY <2>3, <2>4
<1>33. ASSUME NEW i \in Invocations, SweepEnds(i) PROVE TypeOK' /\ LocalsOK'
  <2>1. TypeOK'
    BY <1>33 DEF SweepEnds, cloud, locals, history, TypeOK, Places,
      OwningPlaces, Active, PodPlaces, LocalsOK
  <2>2. LocalsOK'
    BY <1>33 DEF SweepEnds, locals, LocalsOK, PodPlaces, RunPlaces,
      OwningPlaces, Active
  <2> QED BY <2>1, <2>2
<1>34. ASSUME NEW i \in Invocations, Crash(i) PROVE TypeOK' /\ LocalsOK'
  <2>1. TypeOK'
    BY <1>34, PointerType, FaultAssumption DEF Crash, Fault, cloud, locals,
      TypeOK, Places, OwningPlaces, Active, PodPlaces, LocalsOK
  <2>2. LocalsOK'
    BY <1>34 DEF Crash, locals, LocalsOK, Places, PodPlaces, RunPlaces,
      OwningPlaces, Active
  <2> QED BY <2>1, <2>2
<1>35. ASSUME NEW p \in Pods, PodDies(p) PROVE TypeOK' /\ LocalsOK'
  BY <1>35, FaultAssumption DEF PodDies, Fault, TypeOK, LocalsOK, Active,
    cloud, locals, history
<1>36. CASE UNCHANGED vars
  <2>1. TypeOK' BY <1>36 DEF vars, TypeOK
  <2>2. LocalsOK' BY <1>36 DEF vars, LocalsOK, Active
  <2> QED BY <2>1, <2>2
<1> QED BY <1>1, <1>2, <1>3, <1>4, <1>5, <1>6, <1>7, <1>8, <1>9, <1>10,
  <1>11, <1>12, <1>13, <1>14, <1>15, <1>16, <1>17, <1>18, <1>19, <1>20,
  <1>21, <1>22, <1>23, <1>24, <1>25, <1>26, <1>27, <1>28, <1>29, <1>30,
  <1>31, <1>32, <1>33, <1>34, <1>35, <1>36 DEF Next, Proceed, FindPod,
  UsePod, ReleasePod
\* The strengthened type invariant holds in every reachable state: wherever the
\* code passes a pod id to runpodctl, it has one.
LEMMA LocalsCorrect == Spec => []IInv
  BY TypeInit, TypeStep, PTL DEF Spec

\* Every variable has its type, in every behaviour of the code.
THEOREM TypeCorrectness == Spec => []TypeOK
<1>1. IInv => TypeOK BY DEF IInv
<1> QED BY LocalsCorrect, <1>1, PTL

-----------------------------------------------------------------------------
(***************************************************************************)
(* No path of the code walks away from a running pod by itself.            *)
(***************************************************************************)

\* A step of a handler that stops owning a running pod has stopped or deleted
\* it, handed it to `preserve`, or met a fault.
LEMMA LeakStep == IInv /\ NoSilentLeak /\ [Next]_vars => NoSilentLeak'
<1> SUFFICES ASSUME TypeOK, LocalsOK, NoSilentLeak, [Next]_vars PROVE NoSilentLeak'
  BY DEF IInv
<1> USE DEF Goto, At
<1>1. ASSUME NEW i \in Invocations, Start(i) PROVE NoSilentLeak'
  BY <1>1 DEF Start, cloud, history, NoSilentLeak, Owns, LocalsOK, PodPlaces,
    RunPlaces, OwningPlaces, Active
<1>2. ASSUME NEW i \in Invocations, RefuseToStart(i) PROVE NoSilentLeak'
  BY <1>2 DEF RefuseToStart, cloud, locals, history, NoSilentLeak, Owns,
    LocalsOK, PodPlaces, RunPlaces, OwningPlaces, Active
<1>3. ASSUME NEW i \in Invocations, ForceFreshRead(i) PROVE NoSilentLeak'
  BY <1>3 DEF ForceFreshRead, cloud, history, NoSilentLeak, Owns, TypeOK,
    LocalsOK, PodPlaces, RunPlaces, OwningPlaces, Active
<1>4. ASSUME NEW i \in Invocations, ForceFreshDelete(i) PROVE NoSilentLeak'
  BY <1>4 DEF ForceFreshDelete, DeleteCall, locals, Call, NoFault, Fault,
    NoSilentLeak, Owns, TypeOK, LocalsOK, PodPlaces, RunPlaces, OwningPlaces,
    Active
<1>5. ASSUME NEW i \in Invocations, ResumeRead(i) PROVE NoSilentLeak'
  BY <1>5 DEF ResumeRead, cloud, history, NoSilentLeak, Owns, TypeOK,
    PodPlaces, RunPlaces, OwningPlaces, Active
<1>6. ASSUME NEW i \in Invocations, ResumeGet(i) PROVE NoSilentLeak'
  BY <1>6 DEF ResumeGet, cloud, locals, history, NoSilentLeak, Owns, TypeOK,
    LocalsOK, PodPlaces, RunPlaces, OwningPlaces, Active
<1>7. ASSUME NEW i \in Invocations, ResumeGetFails(i) PROVE NoSilentLeak'
  BY <1>7 DEF ResumeGetFails, Fault, NoFault, cloud, locals, NoSilentLeak,
    Owns, TypeOK, LocalsOK, PodPlaces, RunPlaces, OwningPlaces, Active
<1>8. ASSUME NEW i \in Invocations, ResumeDelete(i) PROVE NoSilentLeak'
  BY <1>8 DEF ResumeDelete, DeleteCall, locals, Call, Live, NoFault, Fault,
    NoSilentLeak, Owns, TypeOK, LocalsOK, PodPlaces, RunPlaces, OwningPlaces,
    Active
<1>9. ASSUME NEW i \in Invocations, ResumeUnlink(i) PROVE NoSilentLeak'
  BY <1>9 DEF ResumeUnlink, cloud, locals, history, NoSilentLeak, Owns,
    TypeOK, LocalsOK, PodPlaces, RunPlaces, OwningPlaces, Active
<1>10. ASSUME NEW i \in Invocations, ResumeStart(i) PROVE NoSilentLeak'
  BY <1>10 DEF ResumeStart, StartCall, StartedPlace, locals, Call, NoFault,
    Fault, Live, NoSilentLeak, Owns, TypeOK, LocalsOK, PodPlaces, RunPlaces,
    OwningPlaces, Active
<1>11. ASSUME NEW i \in Invocations, Create(i) PROVE NoSilentLeak'
  BY <1>11 DEF Create, CreatedAs, history, NoSilentLeak, Owns, TypeOK,
    LocalsOK, PodPlaces, RunPlaces, OwningPlaces, Active
<1>12. ASSUME NEW i \in Invocations, CreateUnacknowledged(i) PROVE NoSilentLeak'
  BY <1>12 DEF CreateUnacknowledged, CreatedAs, Fault, locals, NoSilentLeak,
    Owns, LocalsOK, PodPlaces, RunPlaces, OwningPlaces, Active
<1>13. ASSUME NEW i \in Invocations, CreateRefused(i) PROVE NoSilentLeak'
  BY <1>13 DEF CreateRefused, cloud, locals, history, NoSilentLeak, Owns,
    LocalsOK, PodPlaces, RunPlaces, OwningPlaces, Active
<1>14. ASSUME NEW i \in Invocations, StockOut(i) PROVE NoSilentLeak'
  BY <1>14 DEF StockOut, cloud, history, NoSilentLeak, Owns, LocalsOK,
    PodPlaces, RunPlaces, OwningPlaces, Active
<1>15. ASSUME NEW i \in Invocations, PodReady(i) PROVE NoSilentLeak'
  BY <1>15 DEF PodReady, WaitedPlace, cloud, locals, history, NoSilentLeak,
    Owns, TypeOK, LocalsOK, PodPlaces, RunPlaces, OwningPlaces, Active
<1>16. ASSUME NEW i \in Invocations, PodNotReady(i) PROVE NoSilentLeak'
  BY <1>16 DEF PodNotReady, UnreadyPlace, cloud, locals, history,
    NoSilentLeak, Owns, TypeOK, LocalsOK, PodPlaces, RunPlaces, OwningPlaces,
    Active
<1>17. ASSUME NEW i \in Invocations, Reap(i) PROVE NoSilentLeak'
  BY <1>17 DEF Reap, DeleteCall, locals, Call, Live, NoFault, Fault,
    NoSilentLeak, Owns, TypeOK, LocalsOK, PodPlaces, RunPlaces, OwningPlaces,
    Active
<1>18. ASSUME NEW i \in Invocations, WriteState(i) PROVE NoSilentLeak'
  BY <1>18 DEF WriteState, cloud, locals, history, NoSilentLeak, Owns,
    TypeOK, LocalsOK, PodPlaces, RunPlaces, OwningPlaces, Active
<1>19. ASSUME NEW i \in Invocations, WriteStateFails(i) PROVE NoSilentLeak'
  BY <1>19 DEF WriteStateFails, Fault, cloud, locals, NoSilentLeak, Owns,
    TypeOK, LocalsOK, PodPlaces, RunPlaces, OwningPlaces, Active
<1>20. ASSUME NEW i \in Invocations, StartSession(i) PROVE NoSilentLeak'
  BY <1>20 DEF StartSession, cloud, locals, history, NoSilentLeak, Owns,
    LocalsOK, PodPlaces, RunPlaces, OwningPlaces, Active
<1>21. ASSUME NEW i \in Invocations, StartSessionFails(i) PROVE NoSilentLeak'
  BY <1>21 DEF StartSessionFails, Fault, cloud, locals, NoSilentLeak, Owns,
    LocalsOK, PodPlaces, RunPlaces, OwningPlaces, Active
<1>22. ASSUME NEW i \in Invocations, JobSucceeds(i) PROVE NoSilentLeak'
  BY <1>22 DEF JobSucceeds, cloud, locals, NoSilentLeak, Owns, PodPlaces,
    RunPlaces, OwningPlaces, Active
<1>23. ASSUME NEW i \in Invocations, JobFails(i) PROVE NoSilentLeak'
  BY <1>23 DEF JobFails, cloud, NoSilentLeak, Owns, RunPlaces, OwningPlaces,
    Active
<1>24. ASSUME NEW i \in Invocations, JobInterrupted(i) PROVE NoSilentLeak'
  BY <1>24 DEF JobInterrupted, Fault, cloud, locals, NoSilentLeak, Owns,
    LocalsOK, PodPlaces, RunPlaces, OwningPlaces, Active
<1>25. ASSUME NEW i \in Invocations, CleanupPreserve(i) PROVE NoSilentLeak'
  BY <1>25 DEF CleanupPreserve, cloud, locals, NoSilentLeak, Owns, LocalsOK,
    PodPlaces, RunPlaces, OwningPlaces, Active
<1>26. ASSUME NEW i \in Invocations, CleanupStop(i) PROVE NoSilentLeak'
  BY <1>26 DEF CleanupStop, StopCall, locals, Call, Live, NoFault, Fault,
    NoSilentLeak, Owns, TypeOK, LocalsOK, PodPlaces, RunPlaces, OwningPlaces,
    Active
<1>27. ASSUME NEW i \in Invocations, CleanupDelete(i) PROVE NoSilentLeak'
  BY <1>27 DEF CleanupDelete, DeleteCall, locals, Call, Live, NoFault, Fault,
    NoSilentLeak, Owns, TypeOK, LocalsOK, PodPlaces, RunPlaces, OwningPlaces,
    Active
<1>28. ASSUME NEW i \in Invocations, CleanupUnlink(i) PROVE NoSilentLeak'
  BY <1>28 DEF CleanupUnlink, cloud, locals, history, NoSilentLeak, Owns,
    TypeOK, LocalsOK, PodPlaces, RunPlaces, OwningPlaces, Active
<1>29. ASSUME NEW i \in Invocations, CleanupRead(i) PROVE NoSilentLeak'
  BY <1>29 DEF CleanupRead, cloud, history, NoSilentLeak, Owns, TypeOK,
    PodPlaces, RunPlaces, OwningPlaces, Active
<1>30. ASSUME NEW i \in Invocations, SweepList(i) PROVE NoSilentLeak'
  BY <1>30 DEF SweepList, cloud, history, NoSilentLeak, Owns, TypeOK,
    PodPlaces, RunPlaces, OwningPlaces, Active
<1>31. ASSUME NEW i \in Invocations, SweepAnswer(i) PROVE NoSilentLeak'
  BY <1>31 DEF SweepAnswer, cloud, locals, history, NoSilentLeak, Owns,
    TypeOK, LocalsOK, PodPlaces, RunPlaces, OwningPlaces, Active
<1>32. ASSUME NEW i \in Invocations, SweepDelete(i) PROVE NoSilentLeak'
  BY <1>32 DEF SweepDelete, DeleteCall, Call, NoFault, Fault, NoSilentLeak,
    Owns, TypeOK, LocalsOK, PodPlaces, RunPlaces, OwningPlaces, Active
<1>33. ASSUME NEW i \in Invocations, SweepEnds(i) PROVE NoSilentLeak'
  BY <1>33 DEF SweepEnds, cloud, locals, history, NoSilentLeak, Owns,
    LocalsOK, PodPlaces, RunPlaces, OwningPlaces, Active
<1>34. ASSUME NEW i \in Invocations, Crash(i) PROVE NoSilentLeak'
  BY <1>34 DEF Crash, Fault, Owns, cloud, locals, NoSilentLeak, TypeOK,
    LocalsOK, PodPlaces, RunPlaces, OwningPlaces, Active
<1>35. ASSUME NEW p \in Pods, PodDies(p) PROVE NoSilentLeak'
  BY <1>35 DEF PodDies, Fault, locals, NoSilentLeak, Owns, PodPlaces,
    RunPlaces, OwningPlaces, Active
<1>36. CASE UNCHANGED vars
  BY <1>36 DEF vars, NoSilentLeak, Owns
<1> QED BY <1>1, <1>2, <1>3, <1>4, <1>5, <1>6, <1>7, <1>8, <1>9, <1>10,
  <1>11, <1>12, <1>13, <1>14, <1>15, <1>16, <1>17, <1>18, <1>19, <1>20,
  <1>21, <1>22, <1>23, <1>24, <1>25, <1>26, <1>27, <1>28, <1>29, <1>30,
  <1>31, <1>32, <1>33, <1>34, <1>35, <1>36 DEF Next, Proceed, FindPod,
  UsePod, ReleasePod
\* A pod that bills at the GPU rate has a run working on it, was left running on
\* purpose, or was touched by a fault (the paths of provision_pod,
\* try_resume_pod and cleanup_pod).
THEOREM NeverSilentLeak == Spec => []NoSilentLeak
<1>1. Init => NoSilentLeak BY DEF Init, NoSilentLeak
<1> QED BY <1>1, LocalsCorrect, LeakStep, PTL DEF Spec

-----------------------------------------------------------------------------
(***************************************************************************)
(* A job runs on the pod its run asked for.                                *)
(***************************************************************************)

\* What the state file and an invocation's locals say of a pod is true of it:
\* no path writes a pointer with another pod's triple, so comparing the record
\* (_detect_recycle_drift) is as good as asking RunPod.
Provenance ==
    /\ stateFile.file = "pointer" =>
         /\ triple[stateFile.pod] = stateFile.triple
         /\ status[stateFile.pod] # "absent"
    /\ \A i \in Invocations :
         /\ pc[i] \in PodPlaces => status[held[i]] # "absent"
         /\ pc[i] \in {"resume_get", "resume_drift", "resume_start"} =>
              triple[held[i]] = seen[i]
         /\ pc[i] = "resume_start" => seen[i] = want[i]
         /\ pc[i] \in OwningPlaces \ {"cleanup"} => triple[held[i]] = want[i]

\* Every handler keeps the records truthful.
LEMMA ProvenanceStep == IInv /\ Provenance /\ [Next]_vars => Provenance'
<1> SUFFICES ASSUME TypeOK, LocalsOK, Provenance, [Next]_vars PROVE Provenance'
  BY DEF IInv
<1> USE DEF Goto, At
<1>1. ASSUME NEW i \in Invocations, Start(i) PROVE Provenance'
  BY <1>1, FirstPlaceType DEF Start, cloud, Provenance, PodPlaces, RunPlaces,
    OwningPlaces, Active, Pointer, NoFile, Torn
<1>2. ASSUME NEW i \in Invocations, RefuseToStart(i) PROVE Provenance'
  BY <1>2 DEF RefuseToStart, cloud, locals, Provenance, PodPlaces, RunPlaces,
    OwningPlaces, Active, Pointer, NoFile, Torn
<1>3. ASSUME NEW i \in Invocations, ForceFreshRead(i) PROVE Provenance'
  BY <1>3 DEF ForceFreshRead, NoFile, cloud, Provenance, TypeOK, PodPlaces,
    RunPlaces, OwningPlaces, Active, Pointer, Torn
<1>4. ASSUME NEW i \in Invocations, ForceFreshDelete(i) PROVE Provenance'
  BY <1>4, PointerType DEF ForceFreshDelete, DeleteCall, locals, Call, Fault,
    Provenance, TypeOK, LocalsOK, PodPlaces, RunPlaces, OwningPlaces, Active,
    Pointer, NoFile, Torn
<1>5. ASSUME NEW i \in Invocations, ResumeRead(i) PROVE Provenance'
  BY <1>5 DEF ResumeRead, cloud, Provenance, TypeOK, PodPlaces, RunPlaces,
    OwningPlaces, Active, Pointer, NoFile, Torn
<1>6. ASSUME NEW i \in Invocations, ResumeGet(i) PROVE Provenance'
  BY <1>6 DEF ResumeGet, ResumePlace, NotPausedPlace, cloud, locals,
    Provenance, TypeOK, LocalsOK, PodPlaces, RunPlaces, OwningPlaces, Active,
    Pointer, NoFile, Torn
<1>7. ASSUME NEW i \in Invocations, ResumeGetFails(i) PROVE Provenance'
  BY <1>7 DEF ResumeGetFails, cloud, locals, Provenance, TypeOK, LocalsOK,
    PodPlaces, RunPlaces, OwningPlaces, Active, Pointer, NoFile, Torn
<1>8. ASSUME NEW i \in Invocations, ResumeDelete(i) PROVE Provenance'
  BY <1>8, PointerType DEF ResumeDelete, DeleteCall, locals, Call, Fault,
    Provenance, TypeOK, LocalsOK, PodPlaces, RunPlaces, OwningPlaces, Active,
    Pointer, NoFile, Torn
<1>9. ASSUME NEW i \in Invocations, ResumeUnlink(i) PROVE Provenance'
  BY <1>9 DEF ResumeUnlink, NoFile, cloud, locals, Provenance, LocalsOK,
    PodPlaces, RunPlaces, OwningPlaces, Active, Pointer, Torn
<1>10. ASSUME NEW i \in Invocations, ResumeStart(i) PROVE Provenance'
  BY <1>10, PointerType DEF ResumeStart, StartCall, locals, Call, NoFault,
    Fault, Live, Provenance, TypeOK, LocalsOK, PodPlaces, RunPlaces,
    OwningPlaces, Active, Pointer, NoFile, Torn
<1>11. ASSUME NEW i \in Invocations, Create(i) PROVE Provenance'
  BY <1>11 DEF Create, CreatedAs, Provenance, TypeOK, PodPlaces, RunPlaces,
    OwningPlaces, Active, Pointer, NoFile, Torn
<1>12. ASSUME NEW i \in Invocations, CreateUnacknowledged(i) PROVE Provenance'
  BY <1>12 DEF CreateUnacknowledged, CreatedAs, locals, Provenance,
    PodPlaces, RunPlaces, OwningPlaces, Active, Pointer, NoFile, Torn
<1>13. ASSUME NEW i \in Invocations, CreateRefused(i) PROVE Provenance'
  BY <1>13 DEF CreateRefused, cloud, locals, Provenance, PodPlaces,
    RunPlaces, OwningPlaces, Active, Pointer, NoFile, Torn
<1>14. ASSUME NEW i \in Invocations, StockOut(i) PROVE Provenance'
  BY <1>14 DEF StockOut, cloud, Provenance, PodPlaces, RunPlaces,
    OwningPlaces, Active, Pointer, NoFile, Torn
<1>15. ASSUME NEW i \in Invocations, PodReady(i) PROVE Provenance'
  BY <1>15 DEF PodReady, WaitedPlace, cloud, locals, Provenance, LocalsOK,
    PodPlaces, RunPlaces, OwningPlaces, Active, Pointer, NoFile, Torn
<1>16. ASSUME NEW i \in Invocations, PodNotReady(i) PROVE Provenance'
  BY <1>16 DEF PodNotReady, UnreadyPlace, cloud, locals, Provenance,
    LocalsOK, PodPlaces, RunPlaces, OwningPlaces, Active, Pointer, NoFile,
    Torn
<1>17. ASSUME NEW i \in Invocations, Reap(i) PROVE Provenance'
  BY <1>17, PointerType DEF Reap, DeleteCall, locals, Call, Fault,
    Provenance, TypeOK, LocalsOK, PodPlaces, RunPlaces, OwningPlaces, Active,
    Pointer, NoFile, Torn
<1>18. ASSUME NEW i \in Invocations, WriteState(i) PROVE Provenance'
  BY <1>18 DEF WriteState, PointerFor, cloud, locals, Pointer, Provenance,
    TypeOK, LocalsOK, PodPlaces, RunPlaces, OwningPlaces, Active, NoFile,
    Torn
<1>19. ASSUME NEW i \in Invocations, WriteStateFails(i) PROVE Provenance'
  BY <1>19 DEF WriteStateFails, Torn, WriteFailedPlace, cloud, locals,
    Provenance, TypeOK, LocalsOK, PodPlaces, RunPlaces, OwningPlaces, Active,
    Pointer, NoFile
<1>20. ASSUME NEW i \in Invocations, StartSession(i) PROVE Provenance'
  BY <1>20 DEF StartSession, cloud, locals, Provenance, PodPlaces, RunPlaces,
    OwningPlaces, Active, Pointer, NoFile, Torn
<1>21. ASSUME NEW i \in Invocations, StartSessionFails(i) PROVE Provenance'
  BY <1>21 DEF StartSessionFails, cloud, locals, Provenance, PodPlaces,
    RunPlaces, OwningPlaces, Active, Pointer, NoFile, Torn
<1>22. ASSUME NEW i \in Invocations, JobSucceeds(i) PROVE Provenance'
  BY <1>22 DEF JobSucceeds, cloud, locals, Provenance, RunPlaces,
    OwningPlaces, Active, Pointer, NoFile, Torn
<1>23. ASSUME NEW i \in Invocations, JobFails(i) PROVE Provenance'
  BY <1>23 DEF JobFails, cloud, Provenance, PodPlaces, OwningPlaces, Active,
    Pointer, NoFile, Torn
<1>24. ASSUME NEW i \in Invocations, JobInterrupted(i) PROVE Provenance'
  BY <1>24 DEF JobInterrupted, cloud, locals, Provenance, PodPlaces,
    RunPlaces, OwningPlaces, Active, Pointer, NoFile, Torn
<1>25. ASSUME NEW i \in Invocations, CleanupPreserve(i) PROVE Provenance'
  BY <1>25 DEF CleanupPreserve, cloud, locals, Provenance, PodPlaces,
    RunPlaces, OwningPlaces, Active, Pointer, NoFile, Torn
<1>26. ASSUME NEW i \in Invocations, CleanupStop(i) PROVE Provenance'
  BY <1>26, PointerType DEF CleanupStop, StopCall, locals, Call, NoFault,
    Fault, Provenance, TypeOK, LocalsOK, PodPlaces, RunPlaces, OwningPlaces,
    Active, Pointer, NoFile, Torn
<1>27. ASSUME NEW i \in Invocations, CleanupDelete(i) PROVE Provenance'
  BY <1>27, PointerType DEF CleanupDelete, DeleteCall, locals, Call, NoFault,
    Fault, Provenance, TypeOK, LocalsOK, PodPlaces, RunPlaces, OwningPlaces,
    Active, Pointer, NoFile, Torn
<1>28. ASSUME NEW i \in Invocations, CleanupUnlink(i) PROVE Provenance'
  BY <1>28 DEF CleanupUnlink, NoFile, cloud, locals, Provenance, LocalsOK,
    PodPlaces, RunPlaces, OwningPlaces, Active, Pointer, Torn
<1>29. ASSUME NEW i \in Invocations, CleanupRead(i) PROVE Provenance'
  BY <1>29 DEF CleanupRead, cloud, Provenance, TypeOK, PodPlaces, RunPlaces,
    OwningPlaces, Active, Pointer, NoFile, Torn
<1>30. ASSUME NEW i \in Invocations, SweepList(i) PROVE Provenance'
  BY <1>30 DEF SweepList, cloud, Provenance, TypeOK, PodPlaces, RunPlaces,
    OwningPlaces, Active, Pointer, NoFile, Torn
<1>31. ASSUME NEW i \in Invocations, SweepAnswer(i) PROVE Provenance'
  BY <1>31 DEF SweepAnswer, cloud, locals, Provenance, TypeOK, PodPlaces,
    RunPlaces, OwningPlaces, Active, Pointer, NoFile, Torn
<1>32. ASSUME NEW i \in Invocations, SweepDelete(i) PROVE Provenance'
  BY <1>32, PointerType DEF SweepDelete, DeleteCall, Call, Provenance,
    TypeOK, LocalsOK, PodPlaces, RunPlaces, OwningPlaces, Active, Pointer,
    NoFile, Torn
<1>33. ASSUME NEW i \in Invocations, SweepEnds(i) PROVE Provenance'
  BY <1>33 DEF SweepEnds, cloud, locals, Provenance, PodPlaces, RunPlaces,
    OwningPlaces, Active, Pointer, NoFile, Torn
<1>34. ASSUME NEW i \in Invocations, Crash(i) PROVE Provenance'
  BY <1>34 DEF Crash, Torn, cloud, locals, Provenance, TypeOK, LocalsOK,
    PodPlaces, RunPlaces, OwningPlaces, Active, Pointer, NoFile
<1>35. ASSUME NEW p \in Pods, PodDies(p) PROVE Provenance'
  BY <1>35 DEF PodDies, locals, Provenance, RunPlaces, OwningPlaces, Active,
    Pointer, NoFile, Torn
<1>36. CASE UNCHANGED vars
  BY <1>36 DEF vars, Provenance
<1> QED BY <1>1, <1>2, <1>3, <1>4, <1>5, <1>6, <1>7, <1>8, <1>9, <1>10,
  <1>11, <1>12, <1>13, <1>14, <1>15, <1>16, <1>17, <1>18, <1>19, <1>20,
  <1>21, <1>22, <1>23, <1>24, <1>25, <1>26, <1>27, <1>28, <1>29, <1>30,
  <1>31, <1>32, <1>33, <1>34, <1>35, <1>36 DEF Next, Proceed, FindPod,
  UsePod, ReleasePod
\* A job only runs on a pod created with the image, GPU and datacenter its run
\* settled on, even on a pod that another invocation created (try_resume_pod).
THEOREM RequestedPod == Spec => []JobRunsOnRequestedPod
<1>1. Init => Provenance
  BY DEF Init, Provenance, NoFile, PodPlaces, OwningPlaces
<1>2. Provenance => JobRunsOnRequestedPod
  BY DEF Provenance, JobRunsOnRequestedPod, OwningPlaces
<1> QED BY <1>1, <1>2, LocalsCorrect, ProvenanceStep, PTL DEF Spec

-----------------------------------------------------------------------------
(***************************************************************************)
(* Two runs never work on one pod.                                         *)
(***************************************************************************)

\* Without a fault, the pod of a run is running until it gives it up, so that
\* no other run can start it.
OwnedStatus ==
    \A i \in Invocations, p \in Pods :
        Owns(i, p) =>
            /\ status[p] # "absent"
            /\ p \in troubled \/ status[p] \in {"RUNNING", "deleted"}

Sharing == OwnedStatus /\ ExclusiveUse

\* `pod start` refuses a running pod, and nobody issues
\* `cleanup --state-file --mode stop`.
NoManualStop ==
    StrictStart /\ \A c \in Commands : c.kind = "cleanup" => c.mode # "stop"

\* The only way to a pod that somebody may own is `pod start`, and an owned pod
\* refuses it.
LEMMA SharingStep == NoManualStop /\ IInv /\ Sharing /\ [Next]_vars => Sharing'
<1> SUFFICES ASSUME NoManualStop, TypeOK, LocalsOK, Sharing, [Next]_vars
             PROVE  Sharing'
  BY DEF IInv
<1> USE DEF Goto, At
<1>1. ASSUME NEW i \in Invocations, Start(i) PROVE Sharing'
  BY <1>1, FirstPlaceType DEF Start, cloud, history, Sharing, OwnedStatus,
    ExclusiveUse, Owns, NoManualStop, TypeOK, LocalsOK, PodPlaces, RunPlaces,
    OwningPlaces, Active
<1>2. ASSUME NEW i \in Invocations, RefuseToStart(i) PROVE Sharing'
  BY <1>2 DEF RefuseToStart, cloud, locals, history, Sharing, OwnedStatus,
    ExclusiveUse, Owns, NoManualStop, TypeOK, LocalsOK, PodPlaces, RunPlaces,
    OwningPlaces, Active
<1>3. ASSUME NEW i \in Invocations, ForceFreshRead(i) PROVE Sharing'
  BY <1>3 DEF ForceFreshRead, cloud, history, Sharing, OwnedStatus,
    ExclusiveUse, Owns, NoManualStop, TypeOK, LocalsOK, PodPlaces, RunPlaces,
    OwningPlaces, Active
<1>4. ASSUME NEW i \in Invocations, ForceFreshDelete(i) PROVE Sharing'
  BY <1>4 DEF ForceFreshDelete, DeleteCall, locals, Call, NoFault, Fault,
    Sharing, OwnedStatus, ExclusiveUse, Owns, NoManualStop, TypeOK, LocalsOK,
    PodPlaces, RunPlaces, OwningPlaces, Active
<1>5. ASSUME NEW i \in Invocations, ResumeRead(i) PROVE Sharing'
  BY <1>5 DEF ResumeRead, cloud, history, Sharing, OwnedStatus, ExclusiveUse,
    Owns, NoManualStop, TypeOK, LocalsOK, PodPlaces, RunPlaces, OwningPlaces,
    Active
<1>6. ASSUME NEW i \in Invocations, ResumeGet(i) PROVE Sharing'
  BY <1>6 DEF ResumeGet, ResumePlace, NotPausedPlace, cloud, locals, history,
    Sharing, OwnedStatus, ExclusiveUse, Owns, NoManualStop, TypeOK, LocalsOK,
    PodPlaces, RunPlaces, OwningPlaces, Active
<1>7. ASSUME NEW i \in Invocations, ResumeGetFails(i) PROVE Sharing'
  BY <1>7 DEF ResumeGetFails, Fault, NoFault, cloud, locals, Sharing,
    OwnedStatus, ExclusiveUse, Owns, NoManualStop, TypeOK, LocalsOK,
    PodPlaces, RunPlaces, OwningPlaces, Active
<1>8. ASSUME NEW i \in Invocations, ResumeDelete(i) PROVE Sharing'
  BY <1>8 DEF ResumeDelete, DeleteCall, locals, Call, NoFault, Fault,
    Sharing, OwnedStatus, ExclusiveUse, Owns, NoManualStop, TypeOK, LocalsOK,
    PodPlaces, RunPlaces, OwningPlaces, Active
<1>9. ASSUME NEW i \in Invocations, ResumeUnlink(i) PROVE Sharing'
  BY <1>9 DEF ResumeUnlink, cloud, locals, history, Sharing, OwnedStatus,
    ExclusiveUse, Owns, NoManualStop, TypeOK, LocalsOK, PodPlaces, RunPlaces,
    OwningPlaces, Active
<1>10. ASSUME NEW i \in Invocations, ResumeStart(i) PROVE Sharing'
  BY <1>10 DEF ResumeStart, StartCall, StartedPlace, locals, Call, Startable,
    NoFault, Fault, Live, Sharing, OwnedStatus, ExclusiveUse, Owns,
    NoManualStop, TypeOK, LocalsOK, PodPlaces, RunPlaces, OwningPlaces,
    Active
<1>11. ASSUME NEW i \in Invocations, Create(i) PROVE Sharing'
  BY <1>11 DEF Create, CreatedAs, history, Sharing, OwnedStatus,
    ExclusiveUse, Owns, NoManualStop, TypeOK, LocalsOK, PodPlaces, RunPlaces,
    OwningPlaces, Active
<1>12. ASSUME NEW i \in Invocations, CreateUnacknowledged(i) PROVE Sharing'
  BY <1>12 DEF CreateUnacknowledged, CreatedAs, Fault, locals, Sharing,
    OwnedStatus, ExclusiveUse, Owns, NoManualStop, TypeOK, LocalsOK,
    PodPlaces, RunPlaces, OwningPlaces, Active
<1>13. ASSUME NEW i \in Invocations, CreateRefused(i) PROVE Sharing'
  BY <1>13 DEF CreateRefused, cloud, locals, history, Sharing, OwnedStatus,
    ExclusiveUse, Owns, NoManualStop, TypeOK, LocalsOK, PodPlaces, RunPlaces,
    OwningPlaces, Active
<1>14. ASSUME NEW i \in Invocations, StockOut(i) PROVE Sharing'
  BY <1>14 DEF StockOut, cloud, history, Sharing, OwnedStatus, ExclusiveUse,
    Owns, NoManualStop, TypeOK, LocalsOK, PodPlaces, RunPlaces, OwningPlaces,
    Active
<1>15. ASSUME NEW i \in Invocations, PodReady(i) PROVE Sharing'
  BY <1>15 DEF PodReady, cloud, locals, history, Sharing, OwnedStatus,
    ExclusiveUse, Owns, NoManualStop, TypeOK, LocalsOK, PodPlaces, RunPlaces,
    OwningPlaces, Active
<1>16. ASSUME NEW i \in Invocations, PodNotReady(i) PROVE Sharing'
  BY <1>16 DEF PodNotReady, cloud, locals, history, Sharing, OwnedStatus,
    ExclusiveUse, Owns, NoManualStop, TypeOK, LocalsOK, PodPlaces, RunPlaces,
    OwningPlaces, Active
<1>17. ASSUME NEW i \in Invocations, Reap(i) PROVE Sharing'
  BY <1>17 DEF Reap, DeleteCall, locals, Call, NoFault, Fault, Sharing,
    OwnedStatus, ExclusiveUse, Owns, NoManualStop, TypeOK, LocalsOK,
    PodPlaces, RunPlaces, OwningPlaces, Active
<1>18. ASSUME NEW i \in Invocations, WriteState(i) PROVE Sharing'
  BY <1>18 DEF WriteState, cloud, locals, history, Sharing, OwnedStatus,
    ExclusiveUse, Owns, NoManualStop, TypeOK, LocalsOK, PodPlaces, RunPlaces,
    OwningPlaces, Active
<1>19. ASSUME NEW i \in Invocations, WriteStateFails(i) PROVE Sharing'
  BY <1>19 DEF WriteStateFails, Fault, cloud, locals, Sharing, OwnedStatus,
    ExclusiveUse, Owns, NoManualStop, TypeOK, LocalsOK, PodPlaces, RunPlaces,
    OwningPlaces, Active
<1>20. ASSUME NEW i \in Invocations, StartSession(i) PROVE Sharing'
  BY <1>20 DEF StartSession, cloud, locals, history, Sharing, OwnedStatus,
    ExclusiveUse, Owns, NoManualStop, TypeOK, LocalsOK, PodPlaces, RunPlaces,
    OwningPlaces, Active
<1>21. ASSUME NEW i \in Invocations, StartSessionFails(i) PROVE Sharing'
  BY <1>21 DEF StartSessionFails, Fault, cloud, locals, Sharing, OwnedStatus,
    ExclusiveUse, Owns, NoManualStop, TypeOK, LocalsOK, PodPlaces, RunPlaces,
    OwningPlaces, Active
<1>22. ASSUME NEW i \in Invocations, JobSucceeds(i) PROVE Sharing'
  BY <1>22 DEF JobSucceeds, cloud, locals, Sharing, OwnedStatus,
    ExclusiveUse, Owns, NoManualStop, TypeOK, LocalsOK, PodPlaces, RunPlaces,
    OwningPlaces, Active
<1>23. ASSUME NEW i \in Invocations, JobFails(i) PROVE Sharing'
  BY <1>23 DEF JobFails, cloud, Sharing, OwnedStatus, ExclusiveUse, Owns,
    TypeOK, LocalsOK, PodPlaces, RunPlaces, OwningPlaces, Active
<1>24. ASSUME NEW i \in Invocations, JobInterrupted(i) PROVE Sharing'
  BY <1>24 DEF JobInterrupted, Fault, cloud, locals, Sharing, OwnedStatus,
    ExclusiveUse, Owns, NoManualStop, TypeOK, LocalsOK, PodPlaces, RunPlaces,
    OwningPlaces, Active
<1>25. ASSUME NEW i \in Invocations, CleanupPreserve(i) PROVE Sharing'
  BY <1>25 DEF CleanupPreserve, cloud, locals, Sharing, OwnedStatus,
    ExclusiveUse, Owns, NoManualStop, TypeOK, LocalsOK, PodPlaces, RunPlaces,
    OwningPlaces, Active
<1>26. ASSUME NEW i \in Invocations, CleanupStop(i) PROVE Sharing'
  <2>1. cmd[i].kind = "run"
    <3>1. cmd[i] \in Commands /\ cmd[i].kind \in {"run", "cleanup"}
      BY <1>26 DEF CleanupStop, LocalsOK, Active
    <3>2. ASSUME cmd[i].kind = "cleanup" PROVE FALSE
      <4>1. cmd[i].mode \in Actions \ {"recycle"}
        BY <3>1, <3>2, CommandAssumption
           DEF RunCommand, CleanupCommand, SweepCommand
      <4>2. cmd[i].mode \in {"stop", "recycle"}
        BY <1>26, <3>2 DEF CleanupStop, CleanupAction
      <4> QED BY <3>1, <3>2, <4>1, <4>2 DEF NoManualStop
    <3> QED BY <3>1, <3>2
  <2> QED BY <1>26, <2>1 DEF CleanupStop, StopCall, locals, Call, NoFault, Fault,
      Sharing, OwnedStatus, ExclusiveUse, Owns, NoManualStop, TypeOK,
      LocalsOK, PodPlaces, RunPlaces, OwningPlaces, Active
<1>27. ASSUME NEW i \in Invocations, CleanupDelete(i) PROVE Sharing'
  BY <1>27 DEF CleanupDelete, DeleteCall, locals, Call, NoFault, Fault,
    Sharing, OwnedStatus, ExclusiveUse, Owns, NoManualStop, TypeOK, LocalsOK,
    PodPlaces, RunPlaces, OwningPlaces, Active
<1>28. ASSUME NEW i \in Invocations, CleanupUnlink(i) PROVE Sharing'
  BY <1>28 DEF CleanupUnlink, cloud, locals, history, Sharing, OwnedStatus,
    ExclusiveUse, Owns, NoManualStop, TypeOK, LocalsOK, PodPlaces, RunPlaces,
    OwningPlaces, Active
<1>29. ASSUME NEW i \in Invocations, CleanupRead(i) PROVE Sharing'
  BY <1>29, PointerType DEF CleanupRead, cloud, history, Sharing,
    OwnedStatus, ExclusiveUse, Owns, TypeOK, LocalsOK, PodPlaces, RunPlaces,
    OwningPlaces, Active
<1>30. ASSUME NEW i \in Invocations, SweepList(i) PROVE Sharing'
  BY <1>30 DEF SweepList, cloud, history, Sharing, OwnedStatus, ExclusiveUse,
    Owns, NoManualStop, TypeOK, LocalsOK, PodPlaces, RunPlaces, OwningPlaces,
    Active
<1>31. ASSUME NEW i \in Invocations, SweepAnswer(i) PROVE Sharing'
  BY <1>31 DEF SweepAnswer, cloud, locals, history, Sharing, OwnedStatus,
    ExclusiveUse, Owns, NoManualStop, TypeOK, LocalsOK, PodPlaces, RunPlaces,
    OwningPlaces, Active
<1>32. ASSUME NEW i \in Invocations, SweepDelete(i) PROVE Sharing'
  BY <1>32 DEF SweepDelete, DeleteCall, Call, NoFault, Fault, Sharing,
    OwnedStatus, ExclusiveUse, Owns, NoManualStop, TypeOK, LocalsOK,
    PodPlaces, RunPlaces, OwningPlaces, Active
<1>33. ASSUME NEW i \in Invocations, SweepEnds(i) PROVE Sharing'
  BY <1>33 DEF SweepEnds, cloud, locals, history, Sharing, OwnedStatus,
    ExclusiveUse, Owns, NoManualStop, TypeOK, LocalsOK, PodPlaces, RunPlaces,
    OwningPlaces, Active
<1>34. ASSUME NEW i \in Invocations, Crash(i) PROVE Sharing'
  BY <1>34 DEF Crash, Fault, Owns, cloud, locals, Sharing, OwnedStatus,
    ExclusiveUse, NoManualStop, TypeOK, LocalsOK, PodPlaces, RunPlaces,
    OwningPlaces, Active
<1>35. ASSUME NEW p \in Pods, PodDies(p) PROVE Sharing'
  BY <1>35 DEF PodDies, Fault, locals, Sharing, OwnedStatus, ExclusiveUse,
    Owns, NoManualStop, TypeOK, LocalsOK, PodPlaces, RunPlaces, OwningPlaces,
    Active
<1>36. CASE UNCHANGED vars
  BY <1>36 DEF vars, Sharing, OwnedStatus, ExclusiveUse, Owns
<1> QED BY <1>1, <1>2, <1>3, <1>4, <1>5, <1>6, <1>7, <1>8, <1>9, <1>10,
  <1>11, <1>12, <1>13, <1>14, <1>15, <1>16, <1>17, <1>18, <1>19, <1>20,
  <1>21, <1>22, <1>23, <1>24, <1>25, <1>26, <1>27, <1>28, <1>29, <1>30,
  <1>31, <1>32, <1>33, <1>34, <1>35, <1>36 DEF Next, Proceed, FindPod,
  UsePod, ReleasePod

\* Runs that share a state file never work on the same pod, although
\* try_resume_pod reads the status before it starts the pod, as long as `pod
\* start` refuses a running pod and nobody stops pods by hand.
THEOREM ExclusiveOwnership == ASSUME NoManualStop PROVE Spec => []ExclusiveUse
<1>1. Init => Sharing
  BY DEF Init, Sharing, OwnedStatus, ExclusiveUse, Owns, OwningPlaces
<1>2. Sharing => ExclusiveUse BY DEF Sharing
<1>3. IInv /\ Sharing /\ [Next]_vars => Sharing' BY SharingStep
<1> QED BY <1>1, <1>2, <1>3, LocalsCorrect, PTL DEF Spec

-----------------------------------------------------------------------------
(***************************************************************************)
(* Facts about single steps that several proofs need.                      *)
(***************************************************************************)

\* A step of invocation i.
Acts(i) == Start(i) \/ RefuseToStart(i) \/ Proceed(i) \/ Crash(i)

\* A step of one invocation leaves the locals of every other alone.
LEMMA ActsAlone ==
    ASSUME TypeOK, NEW i \in Invocations, Acts(i)
    PROVE  \A j \in Invocations \ {i} :
             /\ pc'[j] = pc[j] /\ cmd'[j] = cmd[j] /\ held'[j] = held[j]
             /\ retried'[j] = retried[j] /\ listed'[j] = listed[j]
  BY DEF Acts, TypeOK, Goto, locals, Start, RefuseToStart, Proceed, Crash, FindPod,
      UsePod, ReleasePod, ForceFreshRead, ForceFreshDelete, ResumeRead, ResumeGet,
      ResumeGetFails, ResumeDelete, ResumeUnlink, ResumeStart, Create,
      CreateUnacknowledged, CreatedAs, CreateRefused, StockOut, PodReady,
      PodNotReady, Reap, WriteState, WriteStateFails, StartSession,
      StartSessionFails, JobSucceeds, JobFails, JobInterrupted, CleanupPreserve,
      CleanupStop, CleanupDelete, CleanupUnlink, CleanupRead, SweepList,
      SweepAnswer, SweepDelete, SweepEnds

\* An invocation that takes a step of its own is under way, and stays so or ends.
LEMMA UnderWay ==
    ASSUME TypeOK, NEW i \in Invocations, Proceed(i) \/ Crash(i)
    PROVE  Active(i) /\ pc'[i] # "idle"
  BY DEF TypeOK, Goto, At, locals, Active, Proceed, Crash, FindPod, UsePod,
      ReleasePod, ForceFreshRead, ForceFreshDelete, ResumeRead, ResumeGet,
      ResumeGetFails, ResumePlace, NotPausedPlace, ResumeDelete, ResumeUnlink,
      ResumeStart, StartedPlace, Create, CreateUnacknowledged, CreatedAs,
      CreateRefused, StockOut, PodReady, WaitedPlace, PodNotReady, UnreadyPlace,
      Reap, WriteState, WriteStateFails, WriteFailedPlace, StartSession,
      StartSessionFails, JobSucceeds, JobFails, JobInterrupted, CleanupPreserve,
      CleanupStop, CleanupDelete, CleanupUnlink, CleanupRead, SweepList,
      SweepAnswer, SweepDelete, SweepEnds

-----------------------------------------------------------------------------
(***************************************************************************)
(* Counting the failures.                                                  *)
(***************************************************************************)

\* A step is the failure of one pod at most, or no failure.
OneFault ==
    \/ UNCHANGED <<troubled, faults>>
    \/ /\ faults' = faults + 1
       /\ troubled' = troubled \/ \E p \in Pods : troubled' = troubled \cup {p}

\* A lost or refused call to runpodctl is one failure, of the pod it is about.
LEMMA CallFaults ==
    ASSUME NEW p \in Pods, NEW from, NEW to, NEW reply, Call(p, from, to, reply)
    PROVE  OneFault
  BY DEF Call, Fault, NoFault, OneFault

\* A killed invocation loses the pod it is working on, and no other.
LEMMA CrashFaults ==
    ASSUME TypeOK, NEW i \in Invocations, Crash(i) PROVE OneFault
<1> DEFINE P == {p \in Pods : Owns(i, p) \/ (At(i, "force_fresh") /\ held[i] = p)}
<1>1. P = {} \/ \E p \in Pods : P = {p}
  BY DEF Owns
<1>2. faults' = faults + 1 /\ troubled' = troubled \cup P
  BY DEF Crash, Fault
<1> QED BY <1>1, <1>2 DEF OneFault

\* Every step fails once at most: no failure is excused twice.
LEMMA FaultsAreSingle == IInv /\ [Next]_vars => OneFault
<1> SUFFICES ASSUME TypeOK, LocalsOK, [Next]_vars PROVE OneFault
  BY DEF IInv
<1> USE DEF At
<1>1. ASSUME NEW i \in Invocations, FindPod(i) PROVE OneFault
  <2>1. \A p : p \in Pods => \A from, to, reply : Call(p, from, to, reply) => OneFault
    BY CallFaults
  <2>2. pc[i] \in PodPlaces => held[i] \in Pods
    BY DEF LocalsOK
  <2>3. held[i] # NoPod => held[i] \in Pods
    BY DEF TypeOK
  <2>4. CASE ForceFreshDelete(i) \/ ResumeDelete(i) \/ ResumeStart(i) \/ Reap(i)
    BY <2>1, <2>2, <2>3, <2>4
      DEF ForceFreshDelete, ResumeDelete, ResumeStart, Reap, DeleteCall, StartCall,
          PodPlaces, OwningPlaces
  <2>5. CASE ResumeGetFails(i) \/ CreateUnacknowledged(i) \/ WriteStateFails(i)
    BY <2>2, <2>5
      DEF ResumeGetFails, CreateUnacknowledged, WriteStateFails, Fault, NoFault,
          OneFault, PodPlaces, OwningPlaces
  <2>6. CASE UNCHANGED <<troubled, faults>>
    BY <2>6 DEF OneFault
  <2> QED BY <1>1, <2>4, <2>5, <2>6
    DEF FindPod, ForceFreshRead, ResumeRead, ResumeGet, ResumeUnlink, Create,
        CreateRefused, StockOut, PodReady, PodNotReady, WriteState, history
<1>2. ASSUME NEW i \in Invocations, UsePod(i) PROVE OneFault
  <2>1. pc[i] \in PodPlaces => held[i] \in Pods
    BY DEF LocalsOK
  <2> QED BY <1>2, <2>1
    DEF UsePod, StartSession, StartSessionFails, JobSucceeds, JobFails,
        JobInterrupted, Fault, OneFault, history, PodPlaces, OwningPlaces
<1>3. ASSUME NEW i \in Invocations, ReleasePod(i) PROVE OneFault
  <2>1. \A p : p \in Pods => \A from, to, reply : Call(p, from, to, reply) => OneFault
    BY CallFaults
  <2>2. (pc[i] \in PodPlaces => held[i] \in Pods) /\ listed[i] \subseteq Pods
    BY DEF LocalsOK, TypeOK
  <2>3. CASE CleanupStop(i) \/ CleanupDelete(i) \/ SweepDelete(i)
    BY <2>1, <2>2, <2>3
      DEF CleanupStop, CleanupDelete, SweepDelete, StopCall, DeleteCall, PodPlaces,
          OwningPlaces
  <2>4. CASE UNCHANGED <<troubled, faults>>
    BY <2>4 DEF OneFault
  <2> QED BY <1>3, <2>3, <2>4
    DEF ReleasePod, CleanupPreserve, CleanupUnlink, CleanupRead, SweepList,
        SweepAnswer, SweepEnds, history
<1>4. ASSUME NEW i \in Invocations, Start(i) \/ RefuseToStart(i) PROVE OneFault
  BY <1>4 DEF Start, RefuseToStart, history, OneFault
<1>5. ASSUME NEW p \in Pods, PodDies(p) PROVE OneFault
  BY <1>5 DEF PodDies, Fault, OneFault
<1>6. CASE UNCHANGED vars
  BY <1>6 DEF vars, OneFault
<1> QED BY <1>1, <1>2, <1>3, <1>4, <1>5, <1>6, CrashFaults DEF Next, Proceed

\* Every pod that is excused was paid for with a failure of its own.
TroubleCounted == IsFiniteSet(troubled) /\ Cardinality(troubled) <= faults

\* The count keeps up with every step.
LEMMA CountingStep == IInv /\ TroubleCounted /\ [Next]_vars => TroubleCounted'
<1> SUFFICES ASSUME TypeOK, TroubleCounted, OneFault PROVE TroubleCounted'
  BY FaultsAreSingle DEF IInv
<1>1. faults \in Nat /\ Cardinality(troubled) \in Nat
  BY FS_CardinalityType, FaultAssumption DEF TypeOK, TroubleCounted
<1>2. CASE UNCHANGED <<troubled, faults>>
  BY <1>2 DEF TroubleCounted
<1>3. CASE faults' = faults + 1 /\ troubled' = troubled
  BY <1>1, <1>3 DEF TroubleCounted
<1>4. ASSUME NEW p \in Pods, faults' = faults + 1, troubled' = troubled \cup {p}
      PROVE  TroubleCounted'
  <2>1. /\ IsFiniteSet(troubled \cup {p})
        /\ Cardinality(troubled \cup {p}) <= Cardinality(troubled) + 1
    BY <1>1, FS_AddElement DEF TroubleCounted
  <2>2. Cardinality(troubled \cup {p}) \in Nat
    BY <2>1, FS_CardinalityType
  <2> QED BY <1>1, <1>4, <2>1, <2>2 DEF TroubleCounted
<1> QED BY <1>2, <1>3, <1>4 DEF OneFault

\* The pods that are excused are no more than the failures, in every behaviour.
LEMMA Counted == Spec => []TroubleCounted
<1>1. Init => TroubleCounted
  BY FS_EmptySet DEF Init, TroubleCounted
<1> QED BY <1>1, LocalsCorrect, CountingStep, PTL DEF Spec

\* Nor are the members of any set of excused pods.
LEMMA FewTroubled ==
    ASSUME TypeOK, TroubleCounted, NEW S, S \subseteq troubled
    PROVE  Cardinality(S) <= faults
<1>1. /\ Cardinality(S) <= Cardinality(troubled)
      /\ IsFiniteSet(S)
  BY FS_Subset DEF TroubleCounted
<1>2. Cardinality(S) \in Nat /\ Cardinality(troubled) \in Nat /\ faults \in Nat
  BY <1>1, FS_CardinalityType, FaultAssumption DEF TroubleCounted, TypeOK
<1> QED BY <1>1, <1>2 DEF TroubleCounted

\* One failure costs one pod: the pods that bill for nobody are never more than
\* the calls, files and processes that failed, however the reaping paths of
\* provision_pod, the session of telemetry.py and the cleanups fall together.
THEOREM LeaksBounded == Spec => []OneLeakPerFault
<1>1. TypeOK /\ NoSilentLeak /\ TroubleCounted => OneLeakPerFault
  <2> SUFFICES ASSUME TypeOK, NoSilentLeak, TroubleCounted PROVE OneLeakPerFault
    OBVIOUS
  <2>1. Leaked \subseteq troubled
    BY DEF Leaked, NoSilentLeak
  <2> QED BY <2>1, FewTroubled DEF OneLeakPerFault
<1> QED BY <1>1, TypeCorrectness, NeverSilentLeak, Counted, PTL

-----------------------------------------------------------------------------
(***************************************************************************)
(* Who may stop a pod that a run works on.                                 *)
(***************************************************************************)

\* Invocation j has just had pod p stopped or deleted.
Ends(j, p) ==
    \/ held[j] = p /\ (ForceFreshDelete(j) \/ ResumeDelete(j) \/ Reap(j)
                         \/ CleanupStop(j) \/ CleanupDelete(j))
    \/ p \in listed[j] \ listed'[j] /\ SweepDelete(j)

\* A call changes the pod it is about and no other.
LEMMA CallStops ==
    ASSUME TypeOK, NEW p \in Pods, NEW q \in Pods, NEW from, NEW to, NEW reply,
           Call(q, from, to, reply), status[p] # status'[p]
    PROVE  p = q
  BY DEF Call, TypeOK

\* A pod stops running through its own failure, or through an invocation that has
\* it in hand or on its list.
LEMMA WhoStops ==
    ASSUME IInv, [Next]_vars, NEW p \in Pods,
           status[p] = "RUNNING", status'[p] # "RUNNING"
    PROVE  p \in troubled' \/ \E j \in Invocations : Ends(j, p)
<1> USE DEF IInv
<1>0. \A q \in Pods : \A from, to, reply : Call(q, from, to, reply) => p = q
  BY CallStops
<1>1. CASE \E q \in Pods : PodDies(q)
  BY <1>1 DEF PodDies, Fault, TypeOK
<1>2. ASSUME NEW j \in Invocations,
             Start(j) \/ RefuseToStart(j) \/ UsePod(j) \/ Crash(j)
      PROVE  FALSE
  BY <1>2
    DEF Start, RefuseToStart, UsePod, Crash, StartSession, StartSessionFails,
        JobSucceeds, JobFails, JobInterrupted, cloud
<1>3. ASSUME NEW j \in Invocations, FindPod(j) PROVE Ends(j, p)
  <2>1. pc[j] \in PodPlaces => held[j] \in Pods
    BY DEF LocalsOK
  <2>2. held[j] # NoPod => held[j] \in Pods
    BY DEF TypeOK
  <2>3. CASE ForceFreshDelete(j)
    BY <1>0, <2>2, <2>3 DEF ForceFreshDelete, DeleteCall, Ends
  <2>4. CASE ResumeDelete(j) \/ Reap(j)
    BY <1>0, <2>1, <2>4
      DEF ResumeDelete, Reap, DeleteCall, Ends, At, PodPlaces, OwningPlaces
  <2>5. CASE ResumeStart(j)
    BY <2>1, <2>5 DEF ResumeStart, StartCall, Call, TypeOK, At, PodPlaces
  <2>6. CASE Create(j) \/ CreateUnacknowledged(j)
    BY <2>6 DEF Create, CreateUnacknowledged, CreatedAs, TypeOK
  <2> QED BY <1>3, <2>3, <2>4, <2>5, <2>6
    DEF FindPod, ForceFreshRead, ResumeRead, ResumeGet, ResumeGetFails,
        ResumeUnlink, CreateRefused, StockOut, PodReady, PodNotReady, WriteState,
        WriteStateFails, cloud
<1>4. ASSUME NEW j \in Invocations, ReleasePod(j) PROVE Ends(j, p)
  <2>1. (pc[j] \in PodPlaces => held[j] \in Pods) /\ listed[j] \subseteq Pods
    BY DEF LocalsOK, TypeOK
  <2>2. CASE CleanupStop(j) \/ CleanupDelete(j)
    BY <1>0, <2>1, <2>2
      DEF CleanupStop, CleanupDelete, StopCall, DeleteCall, Ends, At, PodPlaces,
          OwningPlaces
  <2>3. CASE SweepDelete(j)
    <3>1. PICK q \in listed[j], reply \in Replies :
              DeleteCall(q, reply) /\ listed' = [listed EXCEPT ![j] = @ \ {q}]
      BY <2>3 DEF SweepDelete
    <3>2. p = q
      BY <1>0, <2>1, <3>1 DEF DeleteCall
    <3> QED BY <2>3, <3>1, <3>2 DEF Ends, TypeOK
  <2> QED BY <1>4, <2>2, <2>3
    DEF ReleasePod, CleanupPreserve, CleanupUnlink, CleanupRead, SweepList,
        SweepAnswer, SweepEnds, cloud
<1> QED BY <1>1, <1>2, <1>3, <1>4 DEF Next, Proceed, vars

\* An invocation that has the pod in hand, and is not its owner, is one of the
\* losing races that TakesAway names.
LEMMA UndisturbedStep ==
    ASSUME IInv, ExclusiveUse, [Next]_vars, NEW i \in Invocations, NEW p \in Pods,
           Owns(i, p), status[p] = "RUNNING", status'[p] # "RUNNING"
    PROVE  \/ p \in troubled'
           \/ pc'[i] # pc[i]
           \/ \E j \in Invocations \ {i} : TakesAway(j, p)
<1> USE DEF IInv
<1>1. CASE p \in troubled'
  BY <1>1
<1>2. ASSUME NEW j \in Invocations, Ends(j, p)
      PROVE  \/ p \in troubled' \/ pc'[i] # pc[i]
             \/ \E k \in Invocations \ {i} : TakesAway(k, p)
  <2>1. troubled \subseteq troubled'
    BY <1>2
      DEF Ends, ForceFreshDelete, ResumeDelete, Reap, CleanupStop, CleanupDelete,
          SweepDelete, StopCall, DeleteCall, Call, Fault, NoFault
  <2>2. ~SweepDelete(j) => pc'[j] # pc[j]
    BY <1>2
      DEF Ends, ForceFreshDelete, ResumeDelete, Reap, CleanupStop, CleanupDelete,
          Goto, At, TypeOK
  <2>3. CASE SweepDelete(j)
    <3>1. At(j, "sweep_delete") /\ p \in listed[j] /\ listed'[j] # listed[j]
      BY <1>2, <2>3
        DEF Ends, SweepDelete, ForceFreshDelete, ResumeDelete, Reap, CleanupStop,
            CleanupDelete, At
    <3>2. i # j
      BY <3>1 DEF Owns, At, OwningPlaces
    <3> QED BY <3>1, <3>2 DEF TakesAway
  <2>4. CASE ~SweepDelete(j) /\ j # i
    <3>1. held[j] = p
      BY <1>2, <2>4 DEF Ends
    <3>2. CASE pc[j] \in {"force_fresh", "resume_drift"}
      BY <2>2, <2>4, <3>1, <3>2 DEF TakesAway
    <3>3. CASE pc[j] = "cleanup" /\ cmd[j].kind = "cleanup"
      BY <2>2, <2>4, <3>1, <3>3 DEF TakesAway, At
    <3>4. CASE \/ pc[j] \in {"resume_reap", "reap"}
               \/ pc[j] = "cleanup" /\ cmd[j].kind = "run"
      <4>1. Owns(j, p)
        BY <3>1, <3>4 DEF Owns, LocalsOK, RunPlaces, OwningPlaces
      <4> QED BY <2>1, <2>4, <4>1 DEF ExclusiveUse
    <3> QED BY <1>2, <2>4, <3>2, <3>3, <3>4
      DEF Ends, ForceFreshDelete, ResumeDelete, Reap, CleanupStop, CleanupDelete,
          At, LocalsOK
  <2> QED BY <2>2, <2>3, <2>4
<1> QED BY <1>1, <1>2, WhoStops

\* While a run works on its pod, only a failure, its own next step or one of the
\* races that TakesAway names stops the pod: the pointer cleanup, --force-fresh,
\* the sweep and the drift check end no pod in any other way.
THEOREM Undisturbed == ASSUME NoManualStop PROVE Spec => UndisturbedByOtherRuns
<1>1. IInv /\ ExclusiveUse /\ [Next]_vars =>
        [ \A i \in Invocations, p \in Pods :
            Owns(i, p) /\ status[p] = "RUNNING" /\ status'[p] # "RUNNING" =>
               \/ p \in troubled'
               \/ pc'[i] # pc[i]
               \/ \E j \in Invocations \ {i} : TakesAway(j, p) ]_vars
  BY UndisturbedStep
<1> QED BY <1>1, LocalsCorrect, ExclusiveOwnership, PTL
  DEF Spec, UndisturbedByOtherRuns

-----------------------------------------------------------------------------
(***************************************************************************)
(* The steps an invocation has left.                                       *)
(***************************************************************************)

\* The places of `cleanup --all-stopped`, and the one before every command.
Sweeping == {"idle", "sweep_list", "sweep_prompt", "sweep_delete"}
\* The places where one step does not always leave the place.
Looping == {"create", "force_fresh", "sweep_delete"}

\* From a to a place that is nearer the end, even if it may be repeated there.
Onward(a, b) ==
    /\ b \in Places \ Sweeping
    /\ PathLength[b] + (IF b \in Looping THEN 1 ELSE 0) < PathLength[a]

\* provision_pod and try_resume_pod move on, but for the fallback to the other
\* cloud type and the answer of --force-fresh, which stay where they are.
LEMMA FindsOnward ==
    ASSUME TypeOK, NEW i \in Invocations, FindPod(i)
    PROVE  \/ Onward(pc[i], pc'[i])
           \/ StockOut(i)
           \/ ForceFreshRead(i) /\ pc'[i] = pc[i]
<1> USE DEF Onward, PathLength, Sweeping, Looping, Places, OwningPlaces, TypeOK,
    Goto, At
<1>1. CASE ForceFreshRead(i)
  BY <1>1 DEF ForceFreshRead
<1>2. CASE ForceFreshDelete(i) \/ ResumeRead(i) \/ ResumeGetFails(i)
  BY <1>2 DEF ForceFreshDelete, ResumeRead, ResumeGetFails
<1>3. CASE ResumeGet(i)
  BY <1>3 DEF ResumeGet, ResumePlace, NotPausedPlace
<1>4. CASE ResumeDelete(i) \/ ResumeUnlink(i) \/ ResumeStart(i)
  BY <1>4 DEF ResumeDelete, ResumeUnlink, ResumeStart, StartedPlace
<1>5. CASE Create(i) \/ CreateUnacknowledged(i) \/ CreateRefused(i)
  <2>1. pc[i] = "create" /\ pc'[i] \in {"wait", "done"}
    BY <1>5 DEF Create, CreateUnacknowledged, CreatedAs, CreateRefused
  <2> QED BY <2>1
<1>6. CASE PodReady(i) \/ PodNotReady(i) \/ Reap(i)
  BY <1>6 DEF PodReady, WaitedPlace, PodNotReady, UnreadyPlace, Reap
<1>7. CASE WriteState(i) \/ WriteStateFails(i)
  BY <1>7 DEF WriteState, WriteStateFails, WriteFailedPlace
<1> QED BY <1>1, <1>2, <1>3, <1>4, <1>5, <1>6, <1>7 DEF FindPod

\* So do the session and the job ...
LEMMA UsesOnward ==
    ASSUME TypeOK, NEW i \in Invocations, UsePod(i)
    PROVE  Onward(pc[i], pc'[i])
  BY DEF Onward, PathLength, Sweeping, Looping, TypeOK, Goto, At, UsePod, Places,
      OwningPlaces, StartSession, StartSessionFails, JobSucceeds, JobFails,
      JobInterrupted

\* ... and the cleanups, outside the sweep.
LEMMA ReleasesOnward ==
    ASSUME TypeOK, NEW i \in Invocations, ReleasePod(i),
           pc'[i] # pc[i], pc'[i] \notin Sweeping
    PROVE  Onward(pc[i], pc'[i])
  BY DEF Onward, PathLength, Sweeping, Looping, TypeOK, Goto, At, ReleasePod,
      Places, OwningPlaces, CleanupPreserve, CleanupStop, CleanupDelete,
      CleanupUnlink, CleanupRead, SweepList, SweepAnswer, SweepDelete, SweepEnds

\* A command begins before all its steps; a refusal and a crash end it.
LEMMA OthersOnward ==
    ASSUME TypeOK, NEW i \in Invocations,
           Start(i) \/ RefuseToStart(i) \/ Crash(i), pc'[i] \notin Sweeping
    PROVE  Onward(pc[i], pc'[i])
  BY FirstPlaceType
    DEF Onward, PathLength, Sweeping, Looping, TypeOK, Goto, At, Places,
        OwningPlaces, Active, Start, RefuseToStart, Crash

\* What the sweep lists is finite when the pods of the account are.
LEMMA ListsAreFinite ==
    ASSUME IsFiniteSet(Pods), NEW S, S \subseteq Pods
    PROVE  IsFiniteSet(S) /\ Cardinality(S) \in 0 .. Cardinality(Pods)
  BY FS_Subset, FS_CardinalityType

\* The steps that are left before a step ...
LEMMA StepsBefore ==
    ASSUME IsFiniteSet(Pods), TypeOK, NEW i \in Invocations
    PROVE  /\ StepsLeft(i) \in Nat
           /\ StepsLeft(i) >= PathLength[pc[i]]
<1>1. PathLength[pc[i]] \in Nat
  BY DEF TypeOK, PathLength, Places, OwningPlaces
<1>2. Cardinality(listed[i]) \in Nat /\ Cardinality(Pods) \in Nat
  BY ListsAreFinite, FS_CardinalityType DEF TypeOK
<1> QED BY <1>1, <1>2 DEF StepsLeft, At, Sweeping, Looping

\* ... and after it, away from the sweep.
LEMMA StepsAfter ==
    ASSUME IsFiniteSet(Pods), TypeOK', NEW i \in Invocations
    PROVE  /\ StepsLeft(i)' \in Nat
           /\ pc'[i] \notin Sweeping =>
                StepsLeft(i)' <= PathLength[pc'[i]]
                                   + (IF pc'[i] \in Looping THEN 1 ELSE 0)
<1>1. PathLength[pc'[i]] \in Nat
  BY DEF TypeOK, PathLength, Places, OwningPlaces
<1>2. Cardinality(listed'[i]) \in Nat /\ Cardinality(Pods) \in Nat
  BY ListsAreFinite, FS_CardinalityType DEF TypeOK
<1> QED BY <1>1, <1>2 DEF StepsLeft, At, Sweeping, Looping

\* A step that moves on has fewer steps left.
LEMMA OnwardCloser ==
    ASSUME IsFiniteSet(Pods), TypeOK, TypeOK', NEW i \in Invocations,
           Onward(pc[i], pc'[i])
    PROVE  StepsLeft(i)' < StepsLeft(i)
<1>1. StepsLeft(i) \in Nat /\ StepsLeft(i) >= PathLength[pc[i]]
  BY StepsBefore
<1>2. /\ StepsLeft(i)' \in Nat
      /\ StepsLeft(i)' <= PathLength[pc'[i]] + (IF pc'[i] \in Looping THEN 1 ELSE 0)
  BY StepsAfter DEF Onward
<1>3. PathLength[pc[i]] \in Nat /\ PathLength[pc'[i]] \in Nat
  BY DEF TypeOK, PathLength, Places, OwningPlaces
<1> QED BY <1>1, <1>2, <1>3 DEF Onward

\* So has a turn of a loop: a retry spends the only fallback, --force-fresh reads
\* the pointer once, and the sweep deletes a pod from its list.
LEMMA LoopsCloser ==
    ASSUME IsFiniteSet(Pods), TypeOK, NEW i \in Invocations,
           \/ StockOut(i)
           \/ ForceFreshRead(i) /\ pc'[i] = pc[i]
           \/ SweepDelete(i)
    PROVE  StepsLeft(i)' < StepsLeft(i)
<1>1. CASE StockOut(i)
  BY <1>1 DEF StockOut, CanFallBack, StepsLeft, At, PathLength, TypeOK
<1>2. CASE ForceFreshRead(i) /\ pc'[i] = pc[i]
  <2>1. stateFile.file = "pointer"
    BY <1>2 DEF ForceFreshRead, Goto, At, TypeOK
  <2>2. held[i] = NoPod /\ held'[i] \in Pods /\ pc[i] = "force_fresh"
    BY <1>2, <2>1, PointerType DEF ForceFreshRead, At, TypeOK
  <2> QED BY <1>2, <2>2, PodAssumption DEF StepsLeft, At, PathLength
<1>3. CASE SweepDelete(i)
  <2>1. PICK p \in listed[i] : listed'[i] = listed[i] \ {p}
    BY <1>3 DEF SweepDelete, TypeOK
  <2>2. /\ Cardinality(listed'[i]) = Cardinality(listed[i]) - 1
        /\ Cardinality(listed[i]) \in Nat
    BY <2>1, ListsAreFinite, FS_RemoveElement DEF TypeOK
  <2>3. pc[i] = "sweep_delete" /\ pc'[i] = "sweep_delete"
    BY <1>3 DEF SweepDelete, At
  <2> QED BY <2>2, <2>3 DEF StepsLeft, At, PathLength
<1> QED BY <1>1, <1>2, <1>3

\* So has a step into the sweep, whose list is no longer than the account's.
LEMMA SweepsCloser ==
    ASSUME IsFiniteSet(Pods), TypeOK, TypeOK', NEW i \in Invocations,
           Start(i) \/ SweepList(i) \/ SweepAnswer(i),
           pc'[i] \in Sweeping
    PROVE  StepsLeft(i)' < StepsLeft(i)
<1>1. Cardinality(Pods) \in Nat /\ Cardinality(listed'[i]) \in 0 .. Cardinality(Pods)
  BY ListsAreFinite, FS_CardinalityType DEF TypeOK
<1>2. \/ pc[i] = "idle" /\ pc'[i] = "sweep_list"
      \/ pc[i] = "sweep_list" /\ pc'[i] = "sweep_prompt"
      \/ pc[i] = "sweep_prompt" /\ pc'[i] = "sweep_delete"
  BY FirstPlaceType DEF Start, SweepList, SweepAnswer, Goto, At, Sweeping, TypeOK
<1> QED BY <1>1, <1>2 DEF StepsLeft, At, PathLength

\* Every step of an invocation has fewer steps left.
LEMMA ActsCloser ==
    ASSUME IsFiniteSet(Pods), TypeOK, TypeOK', NEW i \in Invocations, Acts(i)
    PROVE  StepsLeft(i)' < StepsLeft(i)
<1>1. CASE Onward(pc[i], pc'[i])
  BY <1>1, OnwardCloser
<1>2. CASE StockOut(i) \/ (ForceFreshRead(i) /\ pc'[i] = pc[i]) \/ SweepDelete(i)
  BY <1>2, LoopsCloser
<1>3. CASE pc'[i] \in Sweeping /\ (Start(i) \/ SweepList(i) \/ SweepAnswer(i))
  BY <1>3, SweepsCloser
<1>4. CASE FindPod(i)
  BY <1>1, <1>2, <1>4, FindsOnward
<1>5. CASE UsePod(i)
  BY <1>1, <1>5, UsesOnward
<1>6. CASE ReleasePod(i)
  <2>1. pc'[i] = pc[i] => SweepDelete(i)
    BY <1>6
      DEF ReleasePod, CleanupPreserve, CleanupStop, CleanupDelete, CleanupUnlink,
          CleanupRead, SweepList, SweepAnswer, SweepEnds, Goto, At, TypeOK
  <2>2. pc'[i] \in Sweeping => SweepList(i) \/ SweepAnswer(i) \/ SweepDelete(i)
    BY <1>6
      DEF ReleasePod, CleanupPreserve, CleanupStop, CleanupDelete, CleanupUnlink,
          CleanupRead, SweepEnds, Goto, At, TypeOK, Sweeping
  <2> QED BY <1>1, <1>2, <1>3, <1>6, <2>1, <2>2, ReleasesOnward
<1>7. CASE Start(i) \/ RefuseToStart(i) \/ Crash(i)
  <2>1. pc'[i] \in Sweeping => Start(i)
    BY <1>7 DEF RefuseToStart, Crash, Goto, Sweeping, TypeOK
  <2> QED BY <1>1, <1>3, <1>7, <2>1, OthersOnward
<1> QED BY <1>4, <1>5, <1>6, <1>7 DEF Acts, Proceed

\* No command starts over or waits for another: a step of an invocation leaves it
\* fewer steps, and a step of anything else leaves it no more.  That a command
\* ends follows as soon as its own steps are taken.
THEOREM BoundedSteps == ASSUME IsFiniteSet(Pods) PROVE Spec => EndsInBoundedSteps
<1> DEFINE Closer(i) ==
      /\ StepsLeft(i)' \in 0 .. StepsLeft(i)
      /\ Start(i) \/ RefuseToStart(i) \/ Proceed(i) \/ Crash(i) =>
           StepsLeft(i)' < StepsLeft(i)
<1>1. ASSUME IInv, IInv', [Next]_vars, NEW i \in Invocations PROVE Closer(i)
  <2>1. StepsLeft(i) \in Nat /\ StepsLeft(i)' \in Nat
    <3>1. TypeOK /\ TypeOK'
      BY <1>1 DEF IInv
    <3> QED BY <3>1, StepsBefore, StepsAfter
  <2>2. Acts(i) => StepsLeft(i)' < StepsLeft(i)
    BY <1>1, ActsCloser DEF IInv
  <2>3. ~Acts(i) => StepsLeft(i)' = StepsLeft(i)
    <3>1. ~Acts(i) => /\ pc'[i] = pc[i] /\ held'[i] = held[i]
                      /\ retried'[i] = retried[i] /\ listed'[i] = listed[i]
      BY <1>1, ActsAlone DEF Next, Acts, PodDies, locals, vars, IInv
    <3> QED BY <3>1 DEF StepsLeft, At
  <2> QED BY <2>1, <2>2, <2>3 DEF Acts
<1>2. IInv /\ IInv' /\ [Next]_vars => [\A i \in Invocations : Closer(i)]_vars
  BY <1>1
<1> QED BY <1>2, LocalsCorrect, PTL DEF Spec, EndsInBoundedSteps

-----------------------------------------------------------------------------
(***************************************************************************)
(* A run that deletes its pod.                                             *)
(***************************************************************************)

\* A run that deletes its pod on success (the default) and on failure.
Deletes(i) ==
    cmd[i].kind = "run" /\ cmd[i].onSuccess = "delete" /\ cmd[i].onFailure = "delete"

\* The pod no longer costs anything, or a failure excuses it.
Gone(p) == status[p] = "deleted" \/ p \in troubled

\* Where such a run never goes: it does not recycle, so it has no pointer.
OffPath ==
    {"force_fresh", "resume_read", "resume_get", "resume_drift", "resume_start",
     "resume_wait", "resume_reap", "resume_unlink", "cleanup_read", "sweep_list",
     "sweep_prompt", "sweep_delete"}

\* Such a run has created the pod in its hand, and has deleted it once past cleanup.
DeletesSoFar(i) ==
    /\ pc[i] = "idle" => held[i] = NoPod
    /\ Deletes(i) =>
         /\ pc[i] \notin OffPath
         /\ pc[i] = "create" => held[i] = NoPod
         /\ pc[i] \in OwningPlaces => status[held[i]] # "absent"
         /\ pc[i] \in {"unlink", "done"} /\ held[i] \in Pods => Gone(held[i])

\* Stopping, starting or deleting a pod neither revives nor uncreates any.
LEMMA CallLeaves ==
    ASSUME TypeOK, NEW p \in Pods, NEW from, NEW to, NEW reply,
           "absent" \notin from, "deleted" \notin from, to # "absent",
           Call(p, from, to, reply)
    PROVE  /\ \A q \in Pods : Gone(q) => Gone(q)'
           /\ \A q \in Pods : status[q] # "absent" => status'[q] # "absent"
  BY DEF Call, Fault, NoFault, Gone, TypeOK

\* A pod that is gone stays gone, whatever any invocation does, and a pod that
\* exists never becomes one that does not.
LEMMA GoneForGood ==
    ASSUME IInv, [Next]_vars, NEW p \in Pods
    PROVE  (Gone(p) => Gone(p)') /\ (status[p] # "absent" => status'[p] # "absent")
<1> USE DEF IInv
<1> DEFINE Fine == /\ Gone(p) => Gone(p)'
                   /\ status[p] # "absent" => status'[p] # "absent"
<1>0. ASSUME NEW q \in Pods, NEW from \in {Live, Startable},
             NEW to \in {"EXITED", "RUNNING", "deleted"}, NEW reply,
             Call(q, from, to, reply)
      PROVE  Fine
  <2>1. "absent" \notin from /\ "deleted" \notin from /\ to # "absent"
    BY DEF Live, Startable
  <2> QED BY <1>0, <2>1, CallLeaves
<1>1. CASE \E q \in Pods : PodDies(q)
  BY <1>1 DEF PodDies, Fault, Gone, TypeOK
<1>2. CASE UNCHANGED status /\ troubled \subseteq troubled'
  BY <1>2 DEF Gone
<1>3. ASSUME NEW j \in Invocations,
             Start(j) \/ RefuseToStart(j) \/ UsePod(j) \/ Crash(j)
      PROVE  Fine
  <2>1. UNCHANGED status /\ troubled \subseteq troubled'
    BY <1>3
      DEF Start, RefuseToStart, UsePod, Crash, StartSession, StartSessionFails,
          JobSucceeds, JobFails, JobInterrupted, cloud, Fault, history
  <2> QED BY <1>2, <2>1
<1>4. ASSUME NEW j \in Invocations, FindPod(j) PROVE Fine
  <2>1. pc[j] \in PodPlaces => held[j] \in Pods
    BY DEF LocalsOK
  <2>2. held[j] # NoPod => held[j] \in Pods
    BY DEF TypeOK
  <2>3. CASE ForceFreshDelete(j) \/ ResumeDelete(j) \/ Reap(j) \/ ResumeStart(j)
    BY <1>0, <2>1, <2>2, <2>3
      DEF ForceFreshDelete, ResumeDelete, Reap, ResumeStart, DeleteCall, StartCall,
          At, PodPlaces, OwningPlaces
  <2>4. CASE Create(j) \/ CreateUnacknowledged(j)
    <3>1. PICK q \in Pods :
              status[q] = "absent" /\ status' = [status EXCEPT ![q] = "RUNNING"]
      BY <2>4 DEF Create, CreateUnacknowledged, CreatedAs
    <3>2. troubled \subseteq troubled'
      BY <2>4 DEF Create, CreateUnacknowledged, Fault, history
    <3> QED BY <3>1, <3>2 DEF Gone, TypeOK
  <2>5. CASE UNCHANGED status /\ troubled \subseteq troubled'
    BY <1>2, <2>5
  <2> QED BY <1>4, <2>3, <2>4, <2>5
    DEF FindPod, ForceFreshRead, ResumeRead, ResumeGet, ResumeGetFails,
        ResumeUnlink, CreateRefused, StockOut, PodReady, PodNotReady, WriteState,
        WriteStateFails, cloud, Fault, NoFault, history
<1>5. ASSUME NEW j \in Invocations, ReleasePod(j) PROVE Fine
  <2>1. (pc[j] \in PodPlaces => held[j] \in Pods) /\ listed[j] \subseteq Pods
    BY DEF LocalsOK, TypeOK
  <2>2. CASE CleanupStop(j) \/ CleanupDelete(j) \/ SweepDelete(j)
    BY <1>0, <2>1, <2>2
      DEF CleanupStop, CleanupDelete, SweepDelete, StopCall, DeleteCall, At,
          PodPlaces, OwningPlaces
  <2>3. CASE UNCHANGED status /\ troubled \subseteq troubled'
    BY <1>2, <2>3
  <2> QED BY <1>5, <2>2, <2>3
    DEF ReleasePod, CleanupPreserve, CleanupUnlink, CleanupRead, SweepList,
        SweepAnswer, SweepEnds, cloud, history
<1> QED BY <1>1, <1>2, <1>3, <1>4, <1>5 DEF Next, Proceed, vars

\* A delete leaves the pod gone or its failure recorded.
LEMMA DeleteGone ==
    ASSUME TypeOK, NEW p \in Pods, NEW reply, DeleteCall(p, reply), status[p] # "absent"
    PROVE  Gone(p)'
  BY DEF DeleteCall, Call, Fault, NoFault, Gone, Live, TypeOK

\* The run's own steps ...
LEMMA DeletesStep ==
    ASSUME IInv, IInv', NEW i \in Invocations, DeletesSoFar(i), Acts(i), [Next]_vars
    PROVE  DeletesSoFar(i)'
<1> USE DEF IInv, Goto, At
<1>0. \A p \in Pods : /\ Gone(p) => Gone(p)'
                      /\ status[p] # "absent" => status'[p] # "absent"
  BY GoneForGood
<1>1. pc'[i] # "idle"
  BY UnderWay, FirstPlaceType DEF Acts, TypeOK, Start, RefuseToStart
<1> SUFFICES ASSUME Deletes(i)'
             PROVE  /\ pc'[i] \notin OffPath
                    /\ pc'[i] = "create" => held'[i] = NoPod
                    /\ pc'[i] \in OwningPlaces => status'[held'[i]] # "absent"
                    /\ pc'[i] \in {"unlink", "done"} /\ held'[i] \in Pods =>
                         Gone(held[i])'
  BY <1>1 DEF DeletesSoFar, Gone
<1> USE DEF OffPath, OwningPlaces
<1>2. CASE Start(i)
  <2>1. PICK c \in Commands : cmd'[i] = c /\ pc'[i] = FirstPlace(c)
    BY <1>2 DEF Start, TypeOK
  <2>2. pc'[i] = "create"
    BY <2>1 DEF FirstPlace, Deletes
  <2> QED BY <1>2, <2>2 DEF Start, DeletesSoFar
<1>3. CASE RefuseToStart(i)
  BY <1>3, PodAssumption DEF RefuseToStart, locals, DeletesSoFar, TypeOK
<1>4. ASSUME Proceed(i) \/ Crash(i) PROVE cmd'[i] = cmd[i]
  BY <1>4
    DEF locals, Crash, Proceed, FindPod, UsePod, ReleasePod, ForceFreshRead,
        ForceFreshDelete, ResumeRead, ResumeGet, ResumeGetFails, ResumeDelete,
        ResumeUnlink, ResumeStart, Create, CreateUnacknowledged, CreateRefused,
        StockOut, PodReady, PodNotReady, Reap, WriteState, WriteStateFails,
        StartSession, StartSessionFails, JobSucceeds, JobFails, JobInterrupted,
        CleanupPreserve, CleanupStop, CleanupDelete, CleanupUnlink, CleanupRead,
        SweepList, SweepAnswer, SweepDelete, SweepEnds
<1>5. ASSUME Proceed(i) \/ Crash(i)
      PROVE  /\ Deletes(i)
             /\ pc[i] \notin OffPath
             /\ pc[i] = "create" => held[i] = NoPod
             /\ pc[i] \in OwningPlaces => status[held[i]] # "absent"
             /\ pc[i] \in {"unlink", "done"} /\ held[i] \in Pods => Gone(held[i])
             /\ pc[i] \in OwningPlaces \cup {"unlink"} => held[i] \in Pods
  BY <1>4, <1>5 DEF Deletes, DeletesSoFar, LocalsOK, PodPlaces
<1>6. CASE FindPod(i)
  <2> USE <1>5, <1>6
  <2>1. CASE Create(i)
    BY <2>1 DEF Create, CreatedAs, TypeOK
  <2>2. CASE CreateUnacknowledged(i) \/ CreateRefused(i) \/ StockOut(i)
    <3>1. pc'[i] \in {"create", "done"} /\ held'[i] = held[i] /\ pc[i] = "create"
      BY <2>2
        DEF CreateUnacknowledged, CreatedAs, CreateRefused, StockOut, locals, TypeOK
    <3> QED BY <3>1, PodAssumption DEF Proceed
  <2>3. CASE PodReady(i) \/ PodNotReady(i) \/ WriteState(i) \/ WriteStateFails(i)
    BY <1>0, <2>3
      DEF PodReady, WaitedPlace, PodNotReady, UnreadyPlace, WriteState,
          WriteStateFails, WriteFailedPlace, Fault, locals, TypeOK, Gone, Proceed
  <2>4. CASE Reap(i)
    BY <2>4, DeleteGone DEF Reap, locals, TypeOK, Proceed
  <2> QED BY <2>1, <2>2, <2>3, <2>4
    DEF Proceed, FindPod, ForceFreshRead, ForceFreshDelete, ResumeRead, ResumeGet,
        ResumeGetFails, ResumeDelete, ResumeUnlink, ResumeStart
<1>7. CASE UsePod(i)
  BY <1>0, <1>5, <1>7
    DEF Proceed, UsePod, StartSession, StartSessionFails, JobSucceeds, JobFails,
        JobInterrupted, Fault, locals, TypeOK, Gone
<1>8. CASE ReleasePod(i)
  <2> USE <1>5, <1>8
  <2>1. CASE CleanupDelete(i)
    BY <2>1, DeleteGone DEF CleanupDelete, locals, TypeOK, Proceed
  <2>2. CASE CleanupUnlink(i)
    BY <1>0, <2>2 DEF CleanupUnlink, locals, TypeOK, Proceed
  <2>3. pc[i] = "cleanup" => CleanupAction(i) = "delete"
    BY DEF Proceed, CleanupAction, Deletes
  <2> QED BY <2>1, <2>2, <2>3
    DEF Proceed, ReleasePod, CleanupPreserve, CleanupStop, CleanupRead, SweepList,
        SweepAnswer, SweepDelete, SweepEnds
<1>9. CASE Crash(i)
  BY <1>0, <1>5, <1>9, PodAssumption
    DEF Crash, Active, Fault, Owns, Deletes, locals, TypeOK, Gone, Places
<1> QED BY <1>2, <1>3, <1>6, <1>7, <1>8, <1>9 DEF Acts, Proceed

\* ... and those of everything else.
LEMMA OthersDelete ==
    ASSUME IInv, NEW i \in Invocations, DeletesSoFar(i), ~Acts(i), [Next]_vars
    PROVE  DeletesSoFar(i)'
<1>1. pc'[i] = pc[i] /\ held'[i] = held[i] /\ cmd'[i] = cmd[i]
  BY ActsAlone DEF IInv, Next, Acts, PodDies, locals, vars
<1>2. \A p \in Pods : /\ Gone(p) => Gone(p)'
                      /\ status[p] # "absent" => status'[p] # "absent"
  BY GoneForGood
<1>3. pc[i] \in OwningPlaces => held[i] \in Pods
  BY DEF IInv, LocalsOK, PodPlaces
<1> QED BY <1>1, <1>2, <1>3 DEF DeletesSoFar, Deletes, Gone

\* A run whose policies delete has its pod deleted when it ends, unless a call, a
\* file or the process failed: no exit of provision_pod, of the session, of
\* run_job or of its finally block leaves it behind.
THEOREM DeletionDone == Spec => []DeletedByTheEnd
<1> DEFINE Sound == \A i \in Invocations : DeletesSoFar(i)
<1>1. Init => Sound
  BY DEF Init, DeletesSoFar, Deletes, NoCommand
<1>2. IInv /\ IInv' /\ Sound /\ [Next]_vars => Sound'
  BY DeletesStep, OthersDelete
<1>3. Sound => DeletedByTheEnd
  BY DEF DeletesSoFar, DeletedByTheEnd, Deletes, Gone, At
<1> QED BY <1>1, <1>2, <1>3, LocalsCorrect, PTL DEF Spec
=============================================================================
