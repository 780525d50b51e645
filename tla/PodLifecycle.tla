---------------------------- MODULE PodLifecycle ----------------------------
(***************************************************************************)
(* The pods that invocations of the runpod-deploy command line create,     *)
(* resume, stop and delete, and the state file through which one           *)
(* invocation finds the pod of an earlier one.                             *)
(*                                                                         *)
(* Every invocation is a process.  One step is one runpodctl call, or the  *)
(* file accesses and the computation between two such calls; the steps of  *)
(* different invocations interleave, because nothing in the code locks the *)
(* state file or a pod.  The state file is the one path that all the       *)
(* modelled invocations resolve to (resolved_state_file).                  *)
(***************************************************************************)
EXTENDS Naturals, FiniteSets

CONSTANTS
    Invocations,  \* invocations of the command line, each issued at most once
    Pods,         \* pod ids RunPod can hand out
    Triples,      \* <<image, gpu_id, datacenter_id>> a run can ask for
    NoPod,        \* "no pod id in hand"
    NoTriple,     \* "no triple"
    Commands,     \* the commands the operator issues
    Serial,       \* TRUE: the operator waits for one invocation to end
    StrictStart,  \* TRUE: `runpodctl pod start` refuses a RUNNING pod
    MaxFaults     \* bound on the injected faults

Actions == {"preserve", "stop", "delete", "recycle"}

RunCommand ==
    [kind : {"run"}, onSuccess : Actions, onFailure : Actions \ {"recycle"},
     fresh : BOOLEAN, fallback : BOOLEAN]
CleanupCommand == [kind : {"cleanup"}, mode : Actions \ {"recycle"}]
SweepCommand == [kind : {"sweep"}]
NoCommand == [kind |-> "none"]

ASSUME PodAssumption == NoPod \notin Pods
ASSUME TripleAssumption == NoTriple \notin Triples
ASSUME CommandAssumption ==
    Commands \subseteq RunCommand \cup CleanupCommand \cup SweepCommand
ASSUME SwitchAssumption == Serial \in BOOLEAN /\ StrictStart \in BOOLEAN
ASSUME FaultAssumption == MaxFaults \in Nat

VARIABLES
    \* RunPod's side
    status,     \* what `runpodctl pod get` would report of each pod
    triple,     \* the image, GPU and datacenter the pod was created with
    \* the operator's disk
    stateFile,  \* the state file: absent, unreadable, or a pointer to a pod
    \* each invocation
    pc,         \* the next call or file access
    cmd,        \* the command it was issued with
    want,       \* the triple its spec and its GPU selection settled on
    held,       \* its pod_id local: the pod it reads about or works on
    seen,       \* the triple recorded in the state file it read
    failed,     \* run_job's `failed`
    retried,    \* the fallback cloud type was already tried
    listed,     \* bulk cleanup: the EXITED pods still to delete
    \* history, read by the properties only
    tainted,    \* pods whose last job failed or was interrupted
    troubled,   \* pods that a fault has touched
    kept,       \* pods left running by the preserve action, not started since
    faults      \* number of faults so far

cloud == <<status, triple>>
locals == <<cmd, want, held, seen, failed, retried, listed>>
history == <<tainted, troubled, kept, faults>>
vars == <<status, triple, stateFile, pc, cmd, want, held, seen, failed,
          retried, listed, tainted, troubled, kept, faults>>

NoFile == [file |-> "absent"]
Torn == [file |-> "unreadable"]
Pointer(p, t) == [file |-> "pointer", pod |-> p, triple |-> t]
Names(f, p) == f.file = "pointer" /\ f.pod = p
StateFiles == {NoFile, Torn} \cup {Pointer(p, t) : p \in Pods, t \in Triples}

\* The places of an invocation that has a pod of its own: it created the pod
\* or started it, and has not yet issued the call that gives it up.
OwningPlaces == {"wait", "reap", "write", "session", "job", "cleanup",
                 "resume_wait", "resume_reap"}
Places == OwningPlaces \cup
    {"idle", "force_fresh", "resume_read", "resume_get", "resume_drift",
     "resume_start", "resume_unlink", "create", "unlink", "cleanup_read",
     "sweep_list", "sweep_prompt", "sweep_delete", "done"}

Init ==
    /\ status = [p \in Pods |-> "absent"]
    /\ triple = [p \in Pods |-> NoTriple]
    /\ stateFile = NoFile
    /\ pc = [i \in Invocations |-> "idle"]
    /\ cmd = [i \in Invocations |-> NoCommand]
    /\ want = [i \in Invocations |-> NoTriple]
    /\ held = [i \in Invocations |-> NoPod]
    /\ seen = [i \in Invocations |-> NoTriple]
    /\ failed = [i \in Invocations |-> FALSE]
    /\ retried = [i \in Invocations |-> FALSE]
    /\ listed = [i \in Invocations |-> {}]
    /\ tainted = {} /\ troubled = {} /\ kept = {} /\ faults = 0

-----------------------------------------------------------------------------
(***************************************************************************)
(* RunPod, reached through the runpodctl program.                          *)
(***************************************************************************)

Goto(i, place) == pc' = [pc EXCEPT ![i] = place]
At(i, place) == pc[i] = place

\* A fault touches the pods of P.
Fault(P) ==
    /\ faults < MaxFaults
    /\ faults' = faults + 1
    /\ troubled' = troubled \cup P

NoFault == UNCHANGED <<troubled, faults>>

\* `runpodctl pod <verb> p`, which moves p from a status of `from` to `to`.
\* "ok": done and said so.  "refused": not done, non-zero exit; a fault only
\* if p was in a status to which the verb applies.  "lost": done, non-zero exit.
Call(p, from, to, reply) ==
    /\ UNCHANGED triple
    /\ \/ /\ reply = "ok"
          /\ status[p] \in from
          /\ status' = [status EXCEPT ![p] = to]
          /\ NoFault
       \/ /\ reply = "refused"
          /\ UNCHANGED status
          /\ IF status[p] \in from THEN Fault({p}) ELSE NoFault
       \/ /\ reply = "lost"
          /\ status[p] \in from
          /\ status' = [status EXCEPT ![p] = to]
          /\ Fault({p})

Replies == {"ok", "refused", "lost"}
Live == {"RUNNING", "EXITED"}
Startable == IF StrictStart THEN {"EXITED"} ELSE Live

DeleteCall(p, reply) == Call(p, Live, "deleted", reply)
StopCall(p, reply) == Call(p, Live, "EXITED", reply)
StartCall(p, reply) == Call(p, Startable, "RUNNING", reply)

\* RunPod evicts a running pod (spot preemption, host failure).
PodDies(p) ==
    /\ status[p] = "RUNNING"
    /\ status' = [status EXCEPT ![p] = "EXITED"]
    /\ Fault({p})
    /\ UNCHANGED <<triple, stateFile, pc, locals, tainted, kept>>

-----------------------------------------------------------------------------
(***************************************************************************)
(* `runpod-deploy run`: from the command line to a pod.                    *)
(***************************************************************************)

Active(i) == pc[i] \notin {"idle", "done"}

\* run_job up to line 110: the spec is loaded, the run takes a GPU and a
\* datacenter, and turns to the state file only under on_success = recycle.
FirstPlace(c) ==
    CASE c.kind = "cleanup" -> "cleanup_read"
      [] c.kind = "sweep" -> "sweep_list"
      [] c.kind = "run" -> IF c.onSuccess # "recycle" THEN "create"
                           ELSE IF c.fresh THEN "force_fresh" ELSE "resume_read"

Start(i) ==
    /\ At(i, "idle")
    /\ Serial => \A j \in Invocations : ~Active(j)
    /\ \E c \in Commands, t \in Triples :
         /\ cmd' = [cmd EXCEPT ![i] = c]
         /\ want' = [want EXCEPT ![i] = t]
         /\ Goto(i, FirstPlace(c))
    /\ UNCHANGED <<cloud, stateFile, held, seen, failed, retried, listed, history>>

\* A bad path, an over-budget spec or no GPU in stock: the run ends before
\* it has a pod.
RefuseToStart(i) ==
    /\ At(i, "idle")
    /\ Goto(i, "done")
    /\ UNCHANGED <<cloud, stateFile, locals, history>>

\* _force_fresh_delete_stale: the pointer is read and unlinked, then the pod
\* it names is deleted, whatever its status.
ForceFreshRead(i) ==
    /\ At(i, "force_fresh") /\ held[i] = NoPod
    /\ stateFile' = NoFile
    /\ IF stateFile.file = "pointer"
         THEN /\ held' = [held EXCEPT ![i] = stateFile.pod]
              /\ UNCHANGED pc
         ELSE Goto(i, "create") /\ UNCHANGED held
    /\ UNCHANGED <<cloud, cmd, want, seen, failed, retried, listed, history>>

ForceFreshDelete(i) ==
    /\ At(i, "force_fresh") /\ held[i] # NoPod
    /\ \E reply \in Replies : DeleteCall(held[i], reply)
    /\ Goto(i, "create")
    /\ UNCHANGED <<stateFile, locals, tainted, kept>>

(***************************************************************************)
(* try_resume_pod.                                                         *)
(***************************************************************************)

\* No usable pointer: create a pod.  Otherwise keep what it says.
ResumeRead(i) ==
    /\ At(i, "resume_read")
    /\ IF stateFile.file = "pointer"
         THEN /\ held' = [held EXCEPT ![i] = stateFile.pod]
              /\ seen' = [seen EXCEPT ![i] = stateFile.triple]
              /\ Goto(i, "resume_get")
         ELSE Goto(i, "create") /\ UNCHANGED <<held, seen>>
    /\ UNCHANGED <<cloud, stateFile, cmd, want, failed, retried, listed, history>>

ResumePlaceNoDriftCheck(i) == "resume_start"
ResumePlaceLeavesDrifted(i) == IF seen[i] = want[i] THEN "resume_start" ELSE "create"

\* _detect_recycle_drift.
ResumePlace(i) == IF seen[i] = want[i] THEN "resume_start" ELSE "resume_drift"

NotPausedPlacePolls == "resume_read"

NotPausedPlace == "create"

\* `pod get`: only a pod that reports EXITED is resumed or deleted.
ResumeGet(i) ==
    /\ At(i, "resume_get")
    /\ Goto(i, IF status[held[i]] = "EXITED" THEN ResumePlace(i) ELSE NotPausedPlace)
    /\ UNCHANGED <<cloud, stateFile, locals, history>>

\* `pod get` exits non-zero or prints no JSON object: the pod is forgotten.
ResumeGetFails(i) ==
    /\ At(i, "resume_get")
    /\ IF status[held[i]] \in Live THEN Fault({held[i]}) ELSE NoFault
    /\ Goto(i, "create")
    /\ UNCHANGED <<cloud, stateFile, locals, tainted, kept>>

\* The stale pod is deleted and the pointer goes, whatever the reply.
ResumeDelete(i) ==
    /\ pc[i] \in {"resume_drift", "resume_reap"}
    /\ \E reply \in Replies : DeleteCall(held[i], reply)
    /\ Goto(i, "resume_unlink")
    /\ UNCHANGED <<stateFile, locals, tainted, kept>>

ResumeUnlink(i) ==
    /\ At(i, "resume_unlink")
    /\ stateFile' = NoFile
    /\ Goto(i, "create")
    /\ UNCHANGED <<cloud, locals, history>>

StartedPlaceUnchecked(reply) == "resume_wait"

StartedPlace(reply) == IF reply = "ok" THEN "resume_wait" ELSE "create"

ResumeStart(i) ==
    /\ At(i, "resume_start")
    /\ \E reply \in Replies :
         /\ StartCall(held[i], reply)
         /\ Goto(i, StartedPlace(reply))
         /\ kept' = IF reply = "refused" THEN kept ELSE kept \ {held[i]}
    /\ UNCHANGED <<stateFile, locals, tainted>>

(***************************************************************************)
(* provision_pod, and the one retry of _provision_with_optional_fallback.  *)
(***************************************************************************)

CreatedAs(i, p, place) ==
    /\ status[p] = "absent"
    /\ status' = [status EXCEPT ![p] = "RUNNING"]
    /\ triple' = [triple EXCEPT ![p] = want[i]]
    /\ Goto(i, place)

Create(i) ==
    /\ At(i, "create")
    /\ \E p \in Pods :
         /\ CreatedAs(i, p, "wait")
         /\ held' = [held EXCEPT ![i] = p]
    /\ UNCHANGED <<stateFile, cmd, want, seen, failed, retried, listed, history>>

\* The pod exists, but the reply is an error, is not JSON or has no id.
CreateUnacknowledged(i) ==
    /\ At(i, "create")
    /\ \E p \in Pods : CreatedAs(i, p, "done") /\ Fault({p})
    /\ UNCHANGED <<stateFile, locals, tainted, kept>>

CreateRefused(i) ==
    /\ At(i, "create")
    /\ Goto(i, "done")
    /\ UNCHANGED <<cloud, stateFile, locals, history>>

CanFallBack(i) == cmd[i].fallback /\ ~retried[i]

StockOut(i) ==
    /\ At(i, "create") /\ CanFallBack(i)
    /\ retried' = [retried EXCEPT ![i] = TRUE]
    /\ UNCHANGED <<cloud, stateFile, pc, cmd, want, held, seen, failed, listed, history>>

WaitedPlace(i) == IF At(i, "wait") THEN "write" ELSE "session"

\* _wait_for_pod_ready: the pod is RUNNING and has published its ssh address...
PodReady(i) ==
    /\ pc[i] \in {"wait", "resume_wait"}
    /\ status[held[i]] = "RUNNING"
    /\ Goto(i, WaitedPlace(i))
    /\ UNCHANGED <<cloud, stateFile, locals, history>>

UnreadyPlaceNoReap(i) == IF At(i, "wait") THEN "done" ELSE "resume_reap"

UnreadyPlace(i) == IF At(i, "wait") THEN "reap" ELSE "resume_reap"

\* ... or it does not in time, or `pod get` fails: the pod is to be deleted.
PodNotReady(i) ==
    /\ pc[i] \in {"wait", "resume_wait"}
    /\ Goto(i, UnreadyPlace(i))
    /\ UNCHANGED <<cloud, stateFile, locals, history>>

Reap(i) ==
    /\ At(i, "reap")
    /\ \E reply \in Replies : DeleteCall(held[i], reply)
    /\ Goto(i, "done")
    /\ UNCHANGED <<stateFile, locals, tainted, kept>>

PointerToSeen(i) == Pointer(held[i], seen[i])

PointerFor(i) == Pointer(held[i], want[i])

WriteState(i) ==
    /\ At(i, "write")
    /\ stateFile' = PointerFor(i)
    /\ Goto(i, "session")
    /\ UNCHANGED <<cloud, locals, history>>

WriteFailedPlaceIgnored == "session"

WriteFailedPlace == "done"

\* mkdir or write_text raises: the run ends before run_job's try block.
WriteStateFails(i) ==
    /\ At(i, "write")
    /\ stateFile' \in {stateFile, Torn}
    /\ Fault({held[i]})
    /\ Goto(i, WriteFailedPlace)
    /\ UNCHANGED <<cloud, locals, tainted, kept>>

(***************************************************************************)
(* run_job from the telemetry session to the end of its finally block.     *)
(***************************************************************************)

\* start_session and the events emitted before the try block.
StartSession(i) ==
    /\ At(i, "session")
    /\ Goto(i, "job")
    /\ UNCHANGED <<cloud, stateFile, locals, history>>

\* Creating the events directory raises: nothing after it runs.
StartSessionFails(i) ==
    /\ At(i, "session")
    /\ Fault({held[i]})
    /\ Goto(i, "done")
    /\ UNCHANGED <<cloud, stateFile, locals, tainted, kept>>

\* The try block ends: normally, by an Exception, or by a BaseException that
\* `except Exception` does not catch, which leaves `failed` FALSE.
JobSucceeds(i) ==
    /\ At(i, "job") /\ status[held[i]] = "RUNNING"
    /\ tainted' = tainted \ {held[i]}
    /\ Goto(i, "cleanup")
    /\ UNCHANGED <<cloud, stateFile, locals, troubled, kept, faults>>

JobFails(i) ==
    /\ At(i, "job")
    /\ failed' = [failed EXCEPT ![i] = TRUE]
    /\ tainted' = tainted \cup {held[i]}
    /\ Goto(i, "cleanup")
    /\ UNCHANGED <<cloud, stateFile, cmd, want, held, seen, retried, listed,
                   troubled, kept, faults>>

JobInterrupted(i) ==
    /\ At(i, "job")
    /\ Fault({})
    /\ tainted' = tainted \cup {held[i]}
    /\ Goto(i, "cleanup")
    /\ UNCHANGED <<cloud, stateFile, locals, kept>>

(***************************************************************************)
(* cleanup_pod, for a run and for `runpod-deploy cleanup --state-file`.    *)
(***************************************************************************)

CleanupAction(i) ==
    IF cmd[i].kind = "cleanup" THEN cmd[i].mode
    ELSE IF failed[i] THEN cmd[i].onFailure ELSE cmd[i].onSuccess

CleanupPreserve(i) ==
    /\ At(i, "cleanup") /\ CleanupAction(i) = "preserve"
    /\ kept' = IF cmd[i].kind = "run" THEN kept \cup {held[i]} ELSE kept
    /\ Goto(i, "done")
    /\ UNCHANGED <<cloud, stateFile, locals, tainted, troubled, faults>>

CleanupStop(i) ==
    /\ At(i, "cleanup") /\ CleanupAction(i) \in {"stop", "recycle"}
    /\ \E reply \in Replies : StopCall(held[i], reply)
    /\ Goto(i, "done")
    /\ UNCHANGED <<stateFile, locals, tainted, kept>>

CleanupDelete(i) ==
    /\ At(i, "cleanup") /\ CleanupAction(i) = "delete"
    /\ \E reply \in Replies :
         /\ DeleteCall(held[i], reply)
         /\ Goto(i, IF reply = "ok" THEN "unlink" ELSE "done")
    /\ UNCHANGED <<stateFile, locals, tainted, kept>>

CleanupUnlink(i) ==
    /\ At(i, "unlink")
    /\ stateFile' = NoFile
    /\ Goto(i, "done")
    /\ UNCHANGED <<cloud, locals, history>>

\* _cleanup_single.
CleanupRead(i) ==
    /\ At(i, "cleanup_read")
    /\ IF stateFile.file = "pointer"
         THEN held' = [held EXCEPT ![i] = stateFile.pod] /\ Goto(i, "cleanup")
         ELSE Goto(i, "done") /\ UNCHANGED held
    /\ UNCHANGED <<cloud, stateFile, cmd, want, seen, failed, retried, listed, history>>

\* _cleanup_all_stopped: list, ask, then delete what was listed, one by one.
\* With nothing listed, or when `pod list` fails, it ends at once.
SweepList(i) ==
    /\ At(i, "sweep_list")
    /\ \/ /\ listed' = [listed EXCEPT ![i] = {p \in Pods : status[p] = "EXITED"}]
          /\ \E p \in Pods : status[p] = "EXITED"
          /\ Goto(i, "sweep_prompt")
       \/ Goto(i, "done") /\ UNCHANGED listed
    /\ UNCHANGED <<cloud, stateFile, cmd, want, held, seen, failed, retried, history>>

SweepAnswer(i) ==
    /\ At(i, "sweep_prompt")
    /\ \/ Goto(i, "sweep_delete")
       \/ Goto(i, "done")
    /\ UNCHANGED <<cloud, stateFile, locals, history>>

SweepDelete(i) ==
    /\ At(i, "sweep_delete")
    /\ \E p \in listed[i], reply \in Replies :
         /\ DeleteCall(p, reply)
         /\ listed' = [listed EXCEPT ![i] = @ \ {p}]
    /\ UNCHANGED <<stateFile, pc, cmd, want, held, seen, failed, retried, tainted, kept>>

SweepEnds(i) ==
    /\ At(i, "sweep_delete") /\ listed[i] = {}
    /\ Goto(i, "done")
    /\ UNCHANGED <<cloud, stateFile, locals, history>>

-----------------------------------------------------------------------------

Owns(i, p) == cmd[i].kind = "run" /\ pc[i] \in OwningPlaces /\ held[i] = p

\* SIGKILL, a lost machine, or an interrupt outside the try block.
Crash(i) ==
    /\ Active(i)
    /\ Fault({p \in Pods : Owns(i, p) \/ (At(i, "force_fresh") /\ held[i] = p)})
    /\ stateFile' \in {stateFile} \cup IF At(i, "write") THEN {Torn} ELSE {}
    /\ Goto(i, "done")
    /\ UNCHANGED <<cloud, locals, tainted, kept>>

FindPod(i) ==
    \/ ForceFreshRead(i) \/ ForceFreshDelete(i)
    \/ ResumeRead(i) \/ ResumeGet(i) \/ ResumeGetFails(i) \/ ResumeDelete(i)
    \/ ResumeUnlink(i) \/ ResumeStart(i)
    \/ Create(i) \/ CreateUnacknowledged(i) \/ CreateRefused(i) \/ StockOut(i)
    \/ PodReady(i) \/ PodNotReady(i) \/ Reap(i)
    \/ WriteState(i) \/ WriteStateFails(i)

UsePod(i) ==
    \/ StartSession(i) \/ StartSessionFails(i)
    \/ JobSucceeds(i) \/ JobFails(i) \/ JobInterrupted(i)

ReleasePod(i) ==
    \/ CleanupPreserve(i) \/ CleanupStop(i) \/ CleanupDelete(i) \/ CleanupUnlink(i)
    \/ CleanupRead(i)
    \/ SweepList(i) \/ SweepAnswer(i) \/ SweepDelete(i) \/ SweepEnds(i)

Proceed(i) == FindPod(i) \/ UsePod(i) \/ ReleasePod(i)

Next ==
    \/ \E i \in Invocations : Start(i) \/ RefuseToStart(i) \/ Proceed(i) \/ Crash(i)
    \/ \E p \in Pods : PodDies(p)

Spec == Init /\ [][Next]_vars

\* The steps that the program takes by itself: all but the operator's answer to
\* the prompt of `cleanup --all-stopped`, for which it waits as long as it takes.
Unattended(i) == Proceed(i) /\ ~At(i, "sweep_prompt")

\* Every call of the code returns or raises (ssh and the job monitor have
\* deadlines), so an invocation that can take a step by itself takes one.
Fairness == \A i \in Invocations : WF_vars(Unattended(i))

FairSpec == Spec /\ Fairness
-----------------------------------------------------------------------------
(***************************************************************************)
(* What the code should guarantee.                                         *)
(***************************************************************************)

\* Every variable has its type.
TypeOK ==
    /\ status \in [Pods -> {"absent", "RUNNING", "EXITED", "deleted"}]
    /\ triple \in [Pods -> Triples \cup {NoTriple}]
    /\ stateFile \in StateFiles
    /\ pc \in [Invocations -> Places]
    /\ cmd \in [Invocations -> Commands \cup {NoCommand}]
    /\ want \in [Invocations -> Triples \cup {NoTriple}]
    /\ held \in [Invocations -> Pods \cup {NoPod}]
    /\ seen \in [Invocations -> Triples \cup {NoTriple}]
    /\ failed \in [Invocations -> BOOLEAN]
    /\ retried \in [Invocations -> BOOLEAN]
    /\ listed \in [Invocations -> SUBSET Pods]
    /\ tainted \subseteq Pods
    /\ troubled \subseteq Pods
    /\ kept \subseteq Pods
    /\ faults \in 0 .. MaxFaults

\* A job only runs on a pod that was created with the image, GPU and
\* datacenter the run settled on, even when it resumed a pod that another
\* invocation created: the drift check compares what the state file recorded,
\* not what the pod is.
JobRunsOnRequestedPod ==
    \A i \in Invocations :
        pc[i] \in {"session", "job"} => triple[held[i]] = want[i]

\* A pod that bills at the GPU rate has a run working on it, was left running
\* on purpose, or was touched by a fault: no path of the code walks away from
\* a running pod by itself.
NoSilentLeak ==
    \A p \in Pods :
        status[p] = "RUNNING" =>
            \/ p \in troubled \cup kept
            \/ \E i \in Invocations : Owns(i, p)

\* The pods that bill for nobody, without having been left running on purpose.
Leaked ==
    {p \in Pods : /\ status[p] = "RUNNING" /\ p \notin kept
                  /\ \A i \in Invocations : ~Owns(i, p)}

\* One failure costs one pod: however failures, retries and invocations fall
\* together, no more pods bill for nobody than calls, files or processes failed.
OneLeakPerFault == Cardinality(Leaked) <= faults

AllIdle == \A i \in Invocations : ~Active(i)

\* Between the runs of a recycled workflow, a pod that still costs something is
\* the one the state file names, was kept on purpose, or is one about which a
\* call failed: drift and --force-fresh leave no second pod behind by
\* themselves.  The code does forget a pod when it could not delete it for drift,
\* and one whose `pod start` was refused, which stays paused while the next
\* pod's pointer replaces its own.
NoForgottenPod ==
    AllIdle =>
        \A p \in Pods :
            status[p] \in Live => Names(stateFile, p) \/ p \in troubled \cup kept

\* The pods that cost something and that the state file does not lead to.
Forgotten ==
    {p \in Pods : status[p] \in Live /\ ~Names(stateFile, p) /\ p \notin kept}

\* Between the runs of a recycled workflow, one failure has cost one pod at
\* most: losing track of a pod never makes the code lose another.  Each refused
\* `pod start` is a failure of its own, so a row of them costs a row of pods.
OneLossPerFault == AllIdle => Cardinality(Forgotten) <= faults

\* As long as invocations do not overlap, the state file is unlinked only by the
\* one whose pod it names: after a failed write, a drift, a cleanup by hand or a
\* delete that was refused, what is unlinked is never the record of another pod.
\* (Runs that overlap on one state file do unlink each other's pointers.)
UnlinkOnlyOwnPointer ==
    [][ stateFile.file = "pointer" /\ stateFile' = NoFile =>
          \E i \in Invocations :
             /\ pc'[i] # pc[i] \/ held'[i] # held[i]
             /\ held'[i] = stateFile.pod ]_vars

\* Two runs that share a state file never work on the same pod, although the
\* status is read before the pod is started, provided `pod start` refuses a
\* running pod, nobody stops pods by hand, and no fault touches the pod.
ExclusiveUse ==
    \A i, j \in Invocations, p \in Pods :
        i # j /\ Owns(i, p) /\ Owns(j, p) => p \in troubled

\* The steps at which invocation j stops or deletes a pod without asking
\* whether a run works on it.
TakesAway(j, p) ==
    /\ pc'[j] # pc[j] \/ listed'[j] # listed[j]
    /\ \/ held[j] = p /\ pc[j] \in {"force_fresh", "resume_drift"}
       \/ held[j] = p /\ At(j, "cleanup") /\ cmd[j].kind = "cleanup"
       \/ At(j, "sweep_delete") /\ p \in listed[j]

\* A pod that a run works on goes on running until the run itself gives it up,
\* a fault touches it, or one of the commands that do not ask takes it away:
\* no other run's clean-up, reaping or resume ever hits it.
UndisturbedByOtherRuns ==
    [][ \A i \in Invocations, p \in Pods :
          Owns(i, p) /\ status[p] = "RUNNING" /\ status'[p] # "RUNNING" =>
             \/ p \in troubled'
             \/ pc'[i] # pc[i]
             \/ \E j \in Invocations \ {i} : TakesAway(j, p) ]_vars

\* The longest way from each place to the end of the invocation, not counting
\* what StepsLeft adds for the loops.
PathLength ==
    [done |-> 0, unlink |-> 1, reap |-> 1, sweep_delete |-> 1, cleanup |-> 2,
     sweep_prompt |-> 2, job |-> 3, cleanup_read |-> 3, sweep_list |-> 3,
     session |-> 4, write |-> 5, wait |-> 6, create |-> 7, resume_unlink |-> 9,
     force_fresh |-> 9, resume_drift |-> 10, resume_reap |-> 10,
     resume_wait |-> 11, resume_start |-> 12, resume_get |-> 13,
     resume_read |-> 14, idle |-> 15]

\* How many steps invocation i can still take, at most.
StepsLeft(i) ==
    PathLength[pc[i]]
      + (IF At(i, "create") /\ ~retried[i] THEN 1 ELSE 0)
      + (IF At(i, "force_fresh") /\ held[i] = NoPod THEN 1 ELSE 0)
      + (IF At(i, "sweep_delete") THEN Cardinality(listed[i])
         ELSE IF pc[i] \in {"idle", "sweep_list", "sweep_prompt"}
              THEN Cardinality(Pods) ELSE 0)

\* An invocation takes at most 15 + |Pods| steps: each takes it closer to its
\* end, whatever fails, and nothing the others do takes it back.  The fallback
\* is tried once, and a resume that fails falls through to one creation.
EndsInBoundedSteps ==
    [][ \A i \in Invocations :
          /\ StepsLeft(i)' \in 0 .. StepsLeft(i)
          /\ Start(i) \/ RefuseToStart(i) \/ Proceed(i) \/ Crash(i) =>
               StepsLeft(i)' < StepsLeft(i) ]_vars

\* Every invocation ends, whatever fails: the fallback is tried once, a resume
\* that fails falls through to one creation.  Only the operator can keep one
\* waiting, at the prompt of `cleanup --all-stopped`.
EveryInvocationEnds ==
    \A i \in Invocations : Active(i) ~> At(i, "done") \/ At(i, "sweep_prompt")

\* The pod of a run that deletes on success and on failure is deleted in the
\* end, whichever way the run goes, unless a fault touches the pod.
DeletedInTheEnd ==
    \A i \in Invocations, p \in Pods :
        (Owns(i, p) /\ cmd[i].onSuccess = "delete" /\ cmd[i].onFailure = "delete")
            ~> (status[p] = "deleted" \/ p \in troubled)

\* A run that deletes on success and on failure has deleted its pod by the time
\* it ends, or a fault has touched the pod: there is no way out of the run that
\* skips the deletion, and nothing brings the pod back.
DeletedByTheEnd ==
    \A i \in Invocations :
        /\ At(i, "done") /\ cmd[i].kind = "run" /\ held[i] \in Pods
        /\ cmd[i].onSuccess = "delete" /\ cmd[i].onFailure = "delete"
        => status[held[i]] = "deleted" \/ held[i] \in troubled

(***************************************************************************)
(* What the documentation says and the code does not guarantee.            *)
(***************************************************************************)

\* config.py:351-353: recycling is success-path only, "because failed pods
\* have potentially corrupted state", so no run resumes a pod whose last job
\* failed.
FailedPodNotResumed ==
    \A i \in Invocations : At(i, "resume_wait") => held[i] \notin tainted

\* provider.py:729-730: after "stop" the "state file is preserved so the
\* operator can release the pod by name later".
StoppedPodStaysNamed ==
    AllIdle =>
        \A p \in Pods :
            status[p] = "EXITED" /\ p \notin troubled => Names(stateFile, p)

\* orchestrator.py:308 and the help of --force-fresh: it deletes the paused
\* pod the state file references.
ForceFreshDeletesPausedPods ==
    [][ \A i \in Invocations, p \in Pods :
          At(i, "force_fresh") /\ status[p] # status'[p] /\ status'[p] = "deleted"
              /\ held[i] = p /\ pc'[i] = "create"
            => status[p] = "EXITED" ]_vars

\* cli.py:1096-1099, cli.py:1083: `cleanup --all-stopped` deletes every EXITED
\* pod, so a pod it deletes is EXITED; the list is as old as the operator's
\* answer to the prompt.
SweepDeletesStoppedPods ==
    [][ \A i \in Invocations, p \in Pods :
          At(i, "sweep_delete") /\ p \in listed[i] \ listed'[i] /\ status'[p] # status[p]
            => status[p] = "EXITED" ]_vars
=============================================================================
