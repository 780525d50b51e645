------------------------ MODULE PodRefinementProofs ------------------------
(***************************************************************************)
(* PodLifecycle implements PodContract, for every instance: its initial    *)
(* states are the contract's, and each of its steps is a step of the       *)
(* contract or changes nothing the contract speaks of.                     *)
(*                                                                         *)
(* IInv of PodLifecycleProofs is all the proof needs of the reachable      *)
(* states: which locals an invocation has set at which place.              *)
(***************************************************************************)
EXTENDS PodRefinement, PodLifecycleProofs

Phase == [i \in Invocations |-> PhaseOf(i)]
User == [i \in Invocations |-> PodOf(i)]
Excused == troubled \cup kept

\* What an action of invocation i leaves of the others.
Only(i) ==
    \A j \in Invocations \ {i} :
        pc'[j] = pc[j] /\ cmd'[j] = cmd[j] /\ held'[j] = held[j]

\* The step of an invocation moves no other one in the contract either.
LEMMA OthersStay ==
    ASSUME NEW i \in Invocations, Only(i)
    PROVE  /\ Phase' = [Phase EXCEPT ![i] = PhaseOf(i)']
           /\ User' = [User EXCEPT ![i] = PodOf(i)']
  BY DEF Phase, User, Only, PhaseOf, PodOf, Has, Holding, IsOver

\* A step that changes neither the phase nor the pod of the invocation that
\* takes it, nor a pod's status or excuse, is a stutter of the contract.
LEMMA Stutters ==
    ASSUME NEW i \in Invocations, Only(i),
           PhaseOf(i)' = PhaseOf(i), PodOf(i)' = PodOf(i),
           UNCHANGED <<status, Excused>>
    PROVE  UNCHANGED Contract!vars
<1>1. UNCHANGED <<Phase, User>>
  BY OthersStay DEF Phase, User
<1> QED BY <1>1 DEF Contract!vars, Phase, User, Excused

\* The steps of the contract, one by one, from the state PodLifecycle keeps.
\* An invocation that never had a pod ends.
LEMMA Quits ==
    ASSUME NEW i \in Invocations, Only(i),
           PhaseOf(i) = "seeking", PhaseOf(i)' = "over", PodOf(i)' = PodOf(i),
           UNCHANGED <<status, Excused>>
    PROVE  Contract!Next
<1>1. Phase[i] = "seeking" /\ Phase' = [Phase EXCEPT ![i] = "over"] /\ User' = User
  BY OthersStay DEF Phase, User
<1>2. Contract!Quit(i)
  BY <1>1 DEF Contract!Quit, Phase, User, Excused
<1> QED BY <1>2 DEF Contract!Next

\* The pod of an invocation is ready to be worked on (write_text of the pointer,
\* or a resumed pod that came up).
LEMMA Works ==
    ASSUME NEW i \in Invocations, Only(i),
           PhaseOf(i) = "holding", PhaseOf(i)' = "working", PodOf(i)' = PodOf(i),
           UNCHANGED <<status, Excused>>
    PROVE  Contract!Next
<1>1. Phase[i] = "holding" /\ Phase' = [Phase EXCEPT ![i] = "working"] /\ User' = User
  BY OthersStay DEF Phase, User
<1>2. Contract!Work(i)
  BY <1>1 DEF Contract!Work, Phase, User, Excused
<1> QED BY <1>2 DEF Contract!Next

\* An invocation comes by a pod: `pod create`, or `pod start` that said so.
LEMMA Acquires ==
    ASSUME NEW i \in Invocations, Only(i), NEW p \in Pods,
           PhaseOf(i) = "seeking", PhaseOf(i)' = "holding", PodOf(i)' = p,
           status[p] # "deleted", StrictStart => status[p] # "RUNNING",
           status' = [status EXCEPT ![p] = "RUNNING"],
           Excused' \in {Excused, Excused \ {p}}
    PROVE  Contract!Next
<1>1. /\ Phase[i] = "seeking" /\ Phase' = [Phase EXCEPT ![i] = "holding"]
      /\ User' = [User EXCEPT ![i] = p]
  BY OthersStay DEF Phase
<1>2. Contract!Acquire(i, p)
  BY <1>1 DEF Contract!Acquire, Contract!Moves, Phase, User, Excused
<1> QED BY <1>2 DEF Contract!Next

\* An invocation without a pod of its own touches one: drift, --force-fresh, the
\* cleanup commands, and calls whose reply was lost.
LEMMA Meddles ==
    ASSUME NEW i \in Invocations, Only(i), NEW p \in Pods,
           PhaseOf(i) = "seeking", PhaseOf(i)' \in {"seeking", "over"},
           PodOf(i)' = PodOf(i),
           \/ Contract!LetGo(p, {"EXITED", "deleted"})
           \/ /\ status[p] \in {"absent", "EXITED"}
              /\ status' = [status EXCEPT ![p] = "RUNNING"]
              /\ Excused' = Excused \cup {p}
    PROVE  Contract!Next
<1>1. /\ Phase[i] = "seeking" /\ Phase' = [Phase EXCEPT ![i] = PhaseOf(i)']
      /\ User' = User
  BY OthersStay DEF Phase, User
<1>2. Contract!Meddle(i, p)
  BY <1>1 DEF Contract!Meddle, Phase, User, Excused
<1> QED BY <1>2 DEF Contract!Next

\* A pod that did not become ready, or whose pointer was not written, is left.
LEMMA GivesUp ==
    ASSUME NEW i \in Invocations, Only(i),
           PhaseOf(i) = "holding", PhaseOf(i)' \in {"seeking", "over"},
           PodOf(i)' = NoPod,
           Contract!LetGo(PodOf(i), {"deleted"})
    PROVE  Contract!Next
<1>1. /\ Phase[i] = "holding" /\ Phase' = [Phase EXCEPT ![i] = PhaseOf(i)']
      /\ User' = [User EXCEPT ![i] = NoPod] /\ User[i] = PodOf(i)
  BY OthersStay DEF Phase, User
<1>2. Contract!GiveUp(i)
  BY <1>1 DEF Contract!GiveUp, Contract!Moves, Phase, User
<1> QED BY <1>2 DEF Contract!Next

\* A run lets go of the pod it worked on (cleanup_pod).
LEMMA Finishes ==
    ASSUME NEW i \in Invocations, Only(i),
           PhaseOf(i) = "working", PhaseOf(i)' = "over",
           PodOf(i)' = NoPod,
           Contract!LetGo(PodOf(i), {"EXITED", "deleted"})
    PROVE  Contract!Next
<1>1. /\ Phase[i] = "working" /\ Phase' = [Phase EXCEPT ![i] = "over"]
      /\ User' = [User EXCEPT ![i] = NoPod] /\ User[i] = PodOf(i)
  BY OthersStay DEF Phase, User
<1>2. Contract!Finish(i)
  BY <1>1 DEF Contract!Finish, Contract!Moves, Phase, User
<1> QED BY <1>2 DEF Contract!Next
\* Steps that let a pod go with a call of runpodctl: stopped, deleted, or with
\* an excuse if it still runs.
LEMMA CallLetsGo ==
    ASSUME TypeOK, NEW p \in Pods, NEW to \in {"EXITED", "deleted"}, NEW reply,
           Call(p, Live, to, reply), UNCHANGED kept
    PROVE  \A ends : to \in ends => Contract!LetGo(p, ends)
<1> SUFFICES ASSUME NEW ends, to \in ends PROVE Contract!LetGo(p, ends)
  OBVIOUS
<1>1. \/ UNCHANGED status
      \/ status[p] \in Live /\ \E s \in ends : status' = [status EXCEPT ![p] = s]
  BY DEF Call
<1>2. Excused' \in {Excused, Excused \cup {p}}
  BY DEF Call, Excused, Fault, NoFault
<1>3. status'[p] = "RUNNING" => p \in Excused'
  BY DEF Call, Excused, Fault, NoFault, Live, TypeOK
<1> QED BY <1>1, <1>2, <1>3 DEF Contract!LetGo, Contract!Live, Live, Excused

\* Initially every client looks for a pod and nobody has one.
LEMMA InitMaps == Init => Contract!Init
  BY DEF Init, Contract!Init, PhaseOf, PodOf, Has, Holding, IsOver,
    OwningPlaces,
    NoCommand

\* Every step of every invocation, and RunPod's own, is one of the contract.
LEMMA StepMaps == IInv /\ [Next]_vars => [Contract!Next]_(Contract!vars)
<1> SUFFICES ASSUME TypeOK, LocalsOK, [Next]_vars
             PROVE  Contract!Next \/ UNCHANGED Contract!vars
  BY DEF IInv
<1> USE DEF Goto, At, PhaseOf, PodOf, Has, Holding, IsOver, OwningPlaces
<1>1. ASSUME NEW i \in Invocations, Start(i)
      PROVE  Contract!Next \/ UNCHANGED Contract!vars
  <2>1. PICK c \in Commands, t \in Triples :
            /\ cmd' = [cmd EXCEPT ![i] = c]
            /\ pc' = [pc EXCEPT ![i] = FirstPlace(c)]
    BY <1>1 DEF Start
  <2>2. UNCHANGED <<status, held, troubled, kept>> /\ pc[i] = "idle"
    BY <1>1 DEF Start, cloud, history
  <2>3. Only(i) BY <2>1, <2>2 DEF Only, TypeOK
  <2> QED
    BY <2>1, <2>2, <2>3, FirstPlaceType, Stutters DEF Excused, TypeOK,
      LocalsOK, RunPlaces, PodPlaces
<1>2. ASSUME NEW i \in Invocations, RefuseToStart(i)
      PROVE  Contract!Next \/ UNCHANGED Contract!vars
  <2>1. Only(i) BY <1>2 DEF RefuseToStart, cloud, locals, history, Only, TypeOK
  <2> QED
    BY <1>2, <2>1, Quits DEF RefuseToStart, cloud, locals, history, Excused,
      TypeOK, LocalsOK, RunPlaces, PodPlaces
<1>3. ASSUME NEW i \in Invocations, ForceFreshRead(i)
      PROVE  Contract!Next \/ UNCHANGED Contract!vars
  <2>1. Only(i) BY <1>3 DEF ForceFreshRead, cloud, history, Only, TypeOK
  <2> QED
    BY <1>3, <2>1, Stutters DEF ForceFreshRead, cloud, history, Excused,
      TypeOK, LocalsOK, RunPlaces, PodPlaces
<1>4. ASSUME NEW i \in Invocations, ForceFreshDelete(i)
      PROVE  Contract!Next \/ UNCHANGED Contract!vars
  <2>1. Only(i) BY <1>4 DEF ForceFreshDelete, locals, Only, TypeOK
  <2>2. PICK reply \in Replies : Call(held[i], Live, "deleted", reply)
    BY <1>4 DEF ForceFreshDelete, DeleteCall
  <2>3. held[i] \in Pods /\ held' = held /\ cmd' = cmd /\ kept' = kept
    BY <1>4 DEF ForceFreshDelete, locals, TypeOK, LocalsOK, RunPlaces, PodPlaces
  <2>4. Contract!LetGo(held[i], {"EXITED", "deleted"}) BY <2>2, <2>3, CallLetsGo
  <2> QED
    BY <1>4, <2>1, <2>3, <2>4, Meddles DEF ForceFreshDelete, TypeOK, LocalsOK,
      RunPlaces, PodPlaces
<1>5. ASSUME NEW i \in Invocations, ResumeRead(i)
      PROVE  Contract!Next \/ UNCHANGED Contract!vars
  <2>1. Only(i) BY <1>5 DEF ResumeRead, cloud, history, Only, TypeOK
  <2> QED
    BY <1>5, <2>1, Stutters DEF ResumeRead, cloud, history, Excused, TypeOK,
      LocalsOK, RunPlaces, PodPlaces
<1>6. ASSUME NEW i \in Invocations, ResumeGet(i)
      PROVE  Contract!Next \/ UNCHANGED Contract!vars
  <2>1. Only(i)
    BY <1>6 DEF ResumeGet, cloud, locals, history, ResumePlace,
      NotPausedPlace, Only, TypeOK
  <2> QED
    BY <1>6, <2>1, Stutters DEF ResumeGet, cloud, locals, history,
      ResumePlace, NotPausedPlace, Excused, TypeOK, LocalsOK, RunPlaces,
      PodPlaces
<1>7. ASSUME NEW i \in Invocations, ResumeGetFails(i)
      PROVE  Contract!Next \/ UNCHANGED Contract!vars
  <2>1. Only(i) BY <1>7 DEF ResumeGetFails, locals, Only, TypeOK
  <2>2. held[i] \in Pods
    BY <1>7 DEF ResumeGetFails, TypeOK, LocalsOK, RunPlaces, PodPlaces
  <2>3. Contract!LetGo(held[i], {"EXITED", "deleted"})
    BY <1>7, <2>2 DEF ResumeGetFails, Fault, NoFault, Live, cloud,
      Contract!LetGo, Contract!Live, Excused
  <2> QED
    BY <1>7, <2>1, <2>2, <2>3, Meddles DEF ResumeGetFails, cloud, locals,
      TypeOK, LocalsOK, RunPlaces, PodPlaces
<1>8. ASSUME NEW i \in Invocations, ResumeDelete(i)
      PROVE  Contract!Next \/ UNCHANGED Contract!vars
  <2>1. Only(i) BY <1>8 DEF ResumeDelete, locals, Only, TypeOK
  <2>2. PICK reply \in Replies : Call(held[i], Live, "deleted", reply)
    BY <1>8 DEF ResumeDelete, DeleteCall
  <2>3. held[i] \in Pods /\ held' = held /\ cmd' = cmd /\ kept' = kept
    BY <1>8 DEF ResumeDelete, locals, TypeOK, LocalsOK, RunPlaces, PodPlaces
  <2>4. CASE pc[i] = "resume_drift"
    <3>1. Contract!LetGo(held[i], {"EXITED", "deleted"})
      BY <2>2, <2>3, CallLetsGo
    <3> QED
      BY <1>8, <2>1, <2>3, <2>4, <3>1, Meddles DEF ResumeDelete, TypeOK,
        LocalsOK, RunPlaces, PodPlaces
  <2>5. CASE pc[i] = "resume_reap"
    <3>1. Contract!LetGo(held[i], {"deleted"}) BY <2>2, <2>3, CallLetsGo
    <3> QED
      BY <1>8, <2>1, <2>3, <2>5, <3>1, GivesUp DEF ResumeDelete, TypeOK,
        LocalsOK, RunPlaces, PodPlaces
  <2> QED BY <1>8, <2>4, <2>5 DEF ResumeDelete
<1>9. ASSUME NEW i \in Invocations, ResumeUnlink(i)
      PROVE  Contract!Next \/ UNCHANGED Contract!vars
  <2>1. Only(i) BY <1>9 DEF ResumeUnlink, cloud, locals, history, Only, TypeOK
  <2> QED
    BY <1>9, <2>1, Stutters DEF ResumeUnlink, cloud, locals, history, Excused,
      TypeOK, LocalsOK, RunPlaces, PodPlaces
<1>10. ASSUME NEW i \in Invocations, ResumeStart(i)
      PROVE  Contract!Next \/ UNCHANGED Contract!vars
  <2>1. Only(i) BY <1>10 DEF ResumeStart, locals, Only, TypeOK
  <2>2. PICK reply \in Replies :
            /\ Call(held[i], Startable, "RUNNING", reply)
            /\ pc' = [pc EXCEPT ![i] = StartedPlace(reply)]
            /\ kept' = IF reply = "refused" THEN kept ELSE kept \ {held[i]}
    BY <1>10 DEF ResumeStart, StartCall
  <2>3. /\ held[i] \in Pods /\ held' = held /\ cmd' = cmd
        /\ pc[i] = "resume_start" /\ cmd[i].kind = "run"
    BY <1>10 DEF ResumeStart, locals, TypeOK, LocalsOK, RunPlaces, PodPlaces
  <2>4. CASE reply = "ok"
    <3>1. /\ status[held[i]] \in Startable
          /\ status' = [status EXCEPT ![held[i]] = "RUNNING"]
      BY <2>2, <2>4 DEF Call
    <3>2. pc'[i] = "resume_wait" BY <2>2, <2>3, <2>4 DEF StartedPlace, TypeOK
    <3>3. Excused' \in {Excused, Excused \ {held[i]}}
      BY <2>2, <2>4 DEF Call, NoFault, Excused
    <3>4. status[held[i]] # "deleted" /\ (StrictStart => status[held[i]] # "RUNNING")
      BY <3>1 DEF Startable, Live
    <3> QED BY <2>1, <2>3, <3>1, <3>2, <3>3, <3>4, Acquires
  <2>5. CASE reply # "ok"
    <3>1. pc'[i] = "create" BY <2>2, <2>3, <2>5 DEF StartedPlace, TypeOK
    <3>2. CASE UNCHANGED <<status, Excused>>
      BY <2>1, <2>3, <3>1, <3>2, Stutters
    <3>3. CASE Excused' = Excused \cup {held[i]}
      <4>1. \/ Contract!LetGo(held[i], {"EXITED", "deleted"})
            \/ /\ status[held[i]] \in {"absent", "EXITED"}
               /\ status' = [status EXCEPT ![held[i]] = "RUNNING"]
               /\ Excused' = Excused \cup {held[i]}
        BY <2>2, <2>3, <3>3 DEF Call, Startable, Live, TypeOK, Contract!LetGo,
          Excused
      <4> QED BY <2>1, <2>3, <3>1, <4>1, Meddles
    <3> QED BY <2>2, <2>5, <3>2, <3>3 DEF Call, Fault, NoFault, Excused, Replies
  <2> QED BY <2>4, <2>5
<1>11. ASSUME NEW i \in Invocations, Create(i)
      PROVE  Contract!Next \/ UNCHANGED Contract!vars
  <2>1. PICK p \in Pods :
            /\ CreatedAs(i, p, "wait")
            /\ held' = [held EXCEPT ![i] = p]
    BY <1>11 DEF Create
  <2>2. Only(i) BY <1>11, <2>1 DEF Create, CreatedAs, history, Only, TypeOK
  <2> QED
    BY <1>11, <2>1, <2>2, Acquires DEF Create, CreatedAs, history, Excused,
      TypeOK, LocalsOK, RunPlaces, PodPlaces
<1>12. ASSUME NEW i \in Invocations, CreateUnacknowledged(i)
      PROVE  Contract!Next \/ UNCHANGED Contract!vars
  <2>1. PICK p \in Pods : CreatedAs(i, p, "done") /\ Fault({p})
    BY <1>12 DEF CreateUnacknowledged
  <2>2. Only(i)
    BY <1>12, <2>1 DEF CreateUnacknowledged, CreatedAs, locals, Only, TypeOK
  <2>3. Excused' = Excused \cup {p}
    BY <1>12, <2>1 DEF CreateUnacknowledged, Fault, Excused
  <2> QED
    BY <1>12, <2>1, <2>2, <2>3, Meddles
    DEF CreateUnacknowledged, CreatedAs, locals, TypeOK, LocalsOK, RunPlaces, PodPlaces
<1>13. ASSUME NEW i \in Invocations, CreateRefused(i)
      PROVE  Contract!Next \/ UNCHANGED Contract!vars
  <2>1. Only(i) BY <1>13 DEF CreateRefused, cloud, locals, history, Only, TypeOK
  <2> QED
    BY <1>13, <2>1, Quits DEF CreateRefused, cloud, locals, history, Excused,
      TypeOK, LocalsOK, RunPlaces, PodPlaces
<1>14. ASSUME NEW i \in Invocations, StockOut(i)
      PROVE  Contract!Next \/ UNCHANGED Contract!vars
  <2>1. Only(i) BY <1>14 DEF StockOut, cloud, history, Only, TypeOK
  <2> QED
    BY <1>14, <2>1, Stutters DEF StockOut, cloud, history, Excused, TypeOK,
      LocalsOK, RunPlaces, PodPlaces
<1>15. ASSUME NEW i \in Invocations, PodReady(i)
      PROVE  Contract!Next \/ UNCHANGED Contract!vars
  <2>1. Only(i) BY <1>15 DEF PodReady, cloud, locals, history, Only, TypeOK
  <2>2. CASE pc[i] = "wait"
    BY <1>15, <2>1, <2>2, Stutters DEF PodReady, WaitedPlace, cloud, locals,
      history, Excused, TypeOK, LocalsOK, RunPlaces, PodPlaces
  <2>3. CASE pc[i] = "resume_wait"
    BY <1>15, <2>1, <2>3, Works DEF PodReady, WaitedPlace, cloud, locals,
      history, Excused, TypeOK, LocalsOK, RunPlaces, PodPlaces
  <2> QED BY <1>15, <2>2, <2>3 DEF PodReady
<1>16. ASSUME NEW i \in Invocations, PodNotReady(i)
      PROVE  Contract!Next \/ UNCHANGED Contract!vars
  <2>1. Only(i)
    BY <1>16 DEF PodNotReady, cloud, locals, history, UnreadyPlace, Only, TypeOK
  <2> QED
    BY <1>16, <2>1, Stutters DEF PodNotReady, cloud, locals, history,
      UnreadyPlace, Excused, TypeOK, LocalsOK, RunPlaces, PodPlaces
<1>17. ASSUME NEW i \in Invocations, Reap(i)
      PROVE  Contract!Next \/ UNCHANGED Contract!vars
  <2>1. Only(i) BY <1>17 DEF Reap, locals, Only, TypeOK
  <2>2. PICK reply \in Replies : Call(held[i], Live, "deleted", reply)
    BY <1>17 DEF Reap, DeleteCall
  <2>3. held[i] \in Pods /\ held' = held /\ cmd' = cmd /\ kept' = kept
    BY <1>17 DEF Reap, locals, TypeOK, LocalsOK, RunPlaces, PodPlaces
  <2>4. Contract!LetGo(held[i], {"deleted"}) BY <2>2, <2>3, CallLetsGo
  <2> QED
    BY <1>17, <2>1, <2>3, <2>4, GivesUp DEF Reap, TypeOK, LocalsOK, RunPlaces,
      PodPlaces
<1>18. ASSUME NEW i \in Invocations, WriteState(i)
      PROVE  Contract!Next \/ UNCHANGED Contract!vars
  <2>1. Only(i) BY <1>18 DEF WriteState, cloud, locals, history, Only, TypeOK
  <2> QED
    BY <1>18, <2>1, Works DEF WriteState, cloud, locals, history, Excused,
      TypeOK, LocalsOK, RunPlaces, PodPlaces
<1>19. ASSUME NEW i \in Invocations, WriteStateFails(i)
      PROVE  Contract!Next \/ UNCHANGED Contract!vars
  <2>1. Only(i) BY <1>19 DEF WriteStateFails, cloud, locals, Only, TypeOK
  <2>2. Contract!LetGo(held[i], {"deleted"})
    BY <1>19 DEF WriteStateFails, Fault, cloud, Contract!LetGo, Excused
  <2> QED
    BY <1>19, <2>1, <2>2, GivesUp DEF WriteStateFails, cloud, locals,
      WriteFailedPlace, TypeOK, LocalsOK, RunPlaces, PodPlaces
<1>20. ASSUME NEW i \in Invocations, StartSession(i)
      PROVE  Contract!Next \/ UNCHANGED Contract!vars
  <2>1. Only(i) BY <1>20 DEF StartSession, cloud, locals, history, Only, TypeOK
  <2> QED
    BY <1>20, <2>1, Stutters DEF StartSession, cloud, locals, history,
      Excused, TypeOK, LocalsOK, RunPlaces, PodPlaces
<1>21. ASSUME NEW i \in Invocations, StartSessionFails(i)
      PROVE  Contract!Next \/ UNCHANGED Contract!vars
  <2>1. Only(i) BY <1>21 DEF StartSessionFails, cloud, locals, Only, TypeOK
  <2>2. Contract!LetGo(held[i], {"EXITED", "deleted"})
    BY <1>21 DEF StartSessionFails, Fault, cloud, Contract!LetGo, Excused
  <2> QED
    BY <1>21, <2>1, <2>2, Finishes DEF StartSessionFails, cloud, locals,
      TypeOK, LocalsOK, RunPlaces, PodPlaces
<1>22. ASSUME NEW i \in Invocations, JobSucceeds(i)
      PROVE  Contract!Next \/ UNCHANGED Contract!vars
  <2>1. Only(i) BY <1>22 DEF JobSucceeds, cloud, locals, Only, TypeOK
  <2> QED
    BY <1>22, <2>1, Stutters DEF JobSucceeds, cloud, locals, Excused, TypeOK,
      LocalsOK, RunPlaces, PodPlaces
<1>23. ASSUME NEW i \in Invocations, JobFails(i)
      PROVE  Contract!Next \/ UNCHANGED Contract!vars
  <2>1. Only(i) BY <1>23 DEF JobFails, cloud, Only, TypeOK
  <2> QED
    BY <1>23, <2>1, Stutters DEF JobFails, cloud, Excused, TypeOK, LocalsOK,
      RunPlaces, PodPlaces
<1>24. ASSUME NEW i \in Invocations, JobInterrupted(i)
      PROVE  Contract!Next \/ UNCHANGED Contract!vars
  <2>1. Only(i) BY <1>24 DEF JobInterrupted, Fault, cloud, locals, Only, TypeOK
  <2> QED
    BY <1>24, <2>1, Stutters DEF JobInterrupted, Fault, cloud, locals,
      Excused, TypeOK, LocalsOK, RunPlaces, PodPlaces
<1>25. ASSUME NEW i \in Invocations, CleanupPreserve(i)
      PROVE  Contract!Next \/ UNCHANGED Contract!vars
  <2>1. Only(i) BY <1>25 DEF CleanupPreserve, cloud, locals, Only, TypeOK
  <2>2. CASE cmd[i].kind = "run"
    <3>1. Contract!LetGo(held[i], {"EXITED", "deleted"})
      BY <1>25, <2>2 DEF CleanupPreserve, cloud, Contract!LetGo, Excused
    <3> QED
      BY <1>25, <2>1, <2>2, <3>1, Finishes DEF CleanupPreserve, cloud, locals,
        TypeOK, LocalsOK, RunPlaces, PodPlaces
  <2>3. CASE cmd[i].kind # "run"
    BY <1>25, <2>1, <2>3, Quits DEF CleanupPreserve, cloud, locals, Excused,
      TypeOK, LocalsOK, RunPlaces, PodPlaces
  <2> QED BY <2>2, <2>3
<1>26. ASSUME NEW i \in Invocations, CleanupStop(i)
      PROVE  Contract!Next \/ UNCHANGED Contract!vars
  <2>1. Only(i) BY <1>26 DEF CleanupStop, locals, Only, TypeOK
  <2>2. PICK reply \in Replies : Call(held[i], Live, "EXITED", reply)
    BY <1>26 DEF CleanupStop, StopCall
  <2>3. held[i] \in Pods /\ held' = held /\ cmd' = cmd /\ kept' = kept
    BY <1>26 DEF CleanupStop, locals, TypeOK, LocalsOK, RunPlaces, PodPlaces
  <2>4. Contract!LetGo(held[i], {"EXITED", "deleted"}) BY <2>2, <2>3, CallLetsGo
  <2>5. pc[i] = "cleanup" /\ pc'[i] \in {"unlink", "done"}
    BY <1>26 DEF CleanupStop, TypeOK
  <2>6. CASE cmd[i].kind = "run"
    BY <2>1, <2>3, <2>4, <2>5, <2>6, Finishes
  <2>7. CASE cmd[i].kind # "run"
    BY <2>1, <2>3, <2>4, <2>5, <2>7, Meddles
  <2> QED BY <2>6, <2>7
<1>27. ASSUME NEW i \in Invocations, CleanupDelete(i)
      PROVE  Contract!Next \/ UNCHANGED Contract!vars
  <2>1. Only(i) BY <1>27 DEF CleanupDelete, locals, Only, TypeOK
  <2>2. PICK reply \in Replies : Call(held[i], Live, "deleted", reply)
    BY <1>27 DEF CleanupDelete, DeleteCall
  <2>3. held[i] \in Pods /\ held' = held /\ cmd' = cmd /\ kept' = kept
    BY <1>27 DEF CleanupDelete, locals, TypeOK, LocalsOK, RunPlaces, PodPlaces
  <2>4. Contract!LetGo(held[i], {"EXITED", "deleted"}) BY <2>2, <2>3, CallLetsGo
  <2>5. pc[i] = "cleanup" /\ pc'[i] \in {"unlink", "done"}
    BY <1>27 DEF CleanupDelete, TypeOK
  <2>6. CASE cmd[i].kind = "run"
    BY <2>1, <2>3, <2>4, <2>5, <2>6, Finishes
  <2>7. CASE cmd[i].kind # "run"
    BY <2>1, <2>3, <2>4, <2>5, <2>7, Meddles
  <2> QED BY <2>6, <2>7
<1>28. ASSUME NEW i \in Invocations, CleanupUnlink(i)
      PROVE  Contract!Next \/ UNCHANGED Contract!vars
  <2>1. Only(i) BY <1>28 DEF CleanupUnlink, cloud, locals, history, Only, TypeOK
  <2> QED
    BY <1>28, <2>1, Stutters DEF CleanupUnlink, cloud, locals, history,
      Excused, TypeOK, LocalsOK, RunPlaces, PodPlaces
<1>29. ASSUME NEW i \in Invocations, CleanupRead(i)
      PROVE  Contract!Next \/ UNCHANGED Contract!vars
  <2>1. Only(i) BY <1>29 DEF CleanupRead, cloud, history, Only, TypeOK
  <2>2. CASE pc'[i] = "done"
    BY <1>29, <2>1, <2>2, Quits DEF CleanupRead, cloud, history, Excused,
      TypeOK, LocalsOK, RunPlaces, PodPlaces
  <2>3. CASE pc'[i] # "done"
    BY <1>29, <2>1, <2>3, Stutters DEF CleanupRead, cloud, history, Excused,
      TypeOK, LocalsOK, RunPlaces, PodPlaces
  <2> QED BY <2>2, <2>3
<1>30. ASSUME NEW i \in Invocations, SweepList(i)
      PROVE  Contract!Next \/ UNCHANGED Contract!vars
  <2>1. Only(i) BY <1>30 DEF SweepList, cloud, history, Only, TypeOK
  <2>2. CASE pc'[i] = "done"
    BY <1>30, <2>1, <2>2, Quits DEF SweepList, cloud, history, Excused,
      TypeOK, LocalsOK, RunPlaces, PodPlaces
  <2>3. CASE pc'[i] # "done"
    BY <1>30, <2>1, <2>3, Stutters DEF SweepList, cloud, history, Excused,
      TypeOK, LocalsOK, RunPlaces, PodPlaces
  <2> QED BY <2>2, <2>3
<1>31. ASSUME NEW i \in Invocations, SweepAnswer(i)
      PROVE  Contract!Next \/ UNCHANGED Contract!vars
  <2>1. Only(i) BY <1>31 DEF SweepAnswer, cloud, locals, history, Only, TypeOK
  <2>2. CASE pc'[i] = "done"
    BY <1>31, <2>1, <2>2, Quits DEF SweepAnswer, cloud, locals, history,
      Excused, TypeOK, LocalsOK, RunPlaces, PodPlaces
  <2>3. CASE pc'[i] # "done"
    BY <1>31, <2>1, <2>3, Stutters DEF SweepAnswer, cloud, locals, history,
      Excused, TypeOK, LocalsOK, RunPlaces, PodPlaces
  <2> QED BY <2>2, <2>3
<1>32. ASSUME NEW i \in Invocations, SweepDelete(i)
      PROVE  Contract!Next \/ UNCHANGED Contract!vars
  <2>1. Only(i) BY <1>32 DEF SweepDelete, Only, TypeOK
  <2>2. PICK p \in listed[i], reply \in Replies : Call(p, Live, "deleted", reply)
    BY <1>32 DEF SweepDelete, DeleteCall
  <2>3. p \in Pods /\ UNCHANGED <<pc, cmd, held, kept>> /\ pc[i] = "sweep_delete"
    BY <1>32, <2>2 DEF SweepDelete, TypeOK
  <2>4. Contract!LetGo(p, {"EXITED", "deleted"}) BY <2>2, <2>3, CallLetsGo
  <2> QED BY <2>1, <2>3, <2>4, Meddles
<1>33. ASSUME NEW i \in Invocations, SweepEnds(i)
      PROVE  Contract!Next \/ UNCHANGED Contract!vars
  <2>1. Only(i) BY <1>33 DEF SweepEnds, cloud, locals, history, Only, TypeOK
  <2> QED
    BY <1>33, <2>1, Quits DEF SweepEnds, cloud, locals, history, Excused,
      TypeOK, LocalsOK, RunPlaces, PodPlaces
<1>34. ASSUME NEW i \in Invocations, Crash(i)
      PROVE  Contract!Next \/ UNCHANGED Contract!vars
  <2>1. Only(i) BY <1>34 DEF Crash, locals, Only, TypeOK
  <2>2. /\ UNCHANGED <<status, cmd, held, kept>> /\ pc'[i] = "done"
        /\ troubled' = troubled \cup
             {p \in Pods : Owns(i, p) \/ (pc[i] = "force_fresh" /\ held[i] = p)}
    BY <1>34 DEF Crash, Fault, cloud, locals, TypeOK
  <2>3. CASE Has(i)
    <3>1. held[i] \in Pods BY <2>3 DEF LocalsOK, PodPlaces
    <3>2. troubled' = troubled \cup {held[i]} BY <2>2, <2>3, <3>1 DEF Owns
    <3>3. \A ends : Contract!LetGo(held[i], ends)
      BY <2>2, <3>1, <3>2 DEF Contract!LetGo, Excused
    <3> QED BY <2>1, <2>2, <2>3, <3>3, GivesUp, Finishes
  <2>4. CASE ~Has(i) /\ pc[i] = "force_fresh" /\ held[i] \in Pods
    <3>1. troubled' = troubled \cup {held[i]} BY <2>2, <2>4 DEF Owns
    <3>2. Contract!LetGo(held[i], {"EXITED", "deleted"})
      BY <2>2, <2>4, <3>1 DEF Contract!LetGo, Excused
    <3> QED BY <2>1, <2>2, <2>4, <3>2, Meddles
  <2>5. CASE ~Has(i) /\ ~(pc[i] = "force_fresh" /\ held[i] \in Pods)
    <3>1. UNCHANGED Excused BY <2>2, <2>5 DEF Owns, Excused
    <3>2. pc[i] # "done" BY <1>34 DEF Crash, Active
    <3> QED BY <2>1, <2>2, <2>5, <3>1, <3>2, Quits, Stutters
  <2> QED BY <2>3, <2>4, <2>5
<1>35. ASSUME NEW p \in Pods, PodDies(p)
      PROVE  Contract!Next \/ UNCHANGED Contract!vars
  <2>1. Contract!Evict(p)
    BY <1>35 DEF PodDies, Fault, locals, Contract!Evict, Excused
  <2> QED BY <2>1 DEF Contract!Next
<1>36. CASE UNCHANGED vars
  BY <1>36 DEF vars, Contract!vars
<1> QED
  BY <1>1, <1>2, <1>3, <1>4, <1>5, <1>6, <1>7, <1>8, <1>9, <1>10, <1>11,
    <1>12, <1>13, <1>14, <1>15, <1>16, <1>17, <1>18, <1>19, <1>20, <1>21,
    <1>22, <1>23, <1>24, <1>25, <1>26, <1>27, <1>28, <1>29, <1>30, <1>31,
    <1>32, <1>33, <1>34, <1>35, <1>36
  DEF Next, Proceed, FindPod, UsePod, ReleasePod

\* What the invocations do to the pods of an account, together and whatever
\* fails, is what PodContract allows (run_job, the cleanup commands).
THEOREM Refinement == Spec => HonoursContract
  BY InitMaps, StepMaps, LocalsCorrect, PTL DEF Spec, HonoursContract,
    Contract!Spec

\* What PodContractProofs shows of the contract, for the invocations.
Inherited == INSTANCE PodContractProofs WITH
    Clients <- Invocations,
    phase <- [i \in Invocations |-> PhaseOf(i)],
    user <- [i \in Invocations |-> PodOf(i)],
    excused <- troubled \cup kept

\* What the contract rules out, no invocation does: no pod that was deleted comes
\* back, a run that has let go of its pod works no more (the finally block of
\* run_job is the last to touch it), and between provision_pod and cleanup_pod
\* a run never exchanges its pod for another.
THEOREM NothingTakenBack == Spec => Contract!Irrevocable
<1>1. Inherited!ClientAssumption
  BY PodAssumption, SwitchAssumption DEF Inherited!ClientAssumption
<1>2. Inherited!Spec => Inherited!Irrevocable
  BY <1>1, Inherited!NothingUndone
<1>3. Contract!Init => Inherited!Init
  BY DEF Contract!Init, Inherited!Init
<1>4. Contract!Next <=> Inherited!Next
  BY DEF Contract!Next, Contract!Work, Contract!GiveUp, Contract!Finish,
         Contract!Quit, Contract!Acquire, Contract!Meddle, Contract!Evict,
         Contract!LetGo, Contract!Moves, Contract!Live,
         Inherited!Next, Inherited!Work, Inherited!GiveUp, Inherited!Finish,
         Inherited!Quit, Inherited!Acquire, Inherited!Meddle, Inherited!Evict,
         Inherited!LetGo, Inherited!Moves, Inherited!Live
<1>5. Contract!vars = Inherited!vars
  BY DEF Contract!vars, Inherited!vars
<1> QED BY <1>2, <1>3, <1>4, <1>5, Refinement, PTL
  DEF HonoursContract, Contract!Spec, Inherited!Spec, Contract!Irrevocable,
      Inherited!Irrevocable, Contract!vars, Inherited!vars
=============================================================================
