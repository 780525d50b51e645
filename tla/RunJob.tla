------------------------------- MODULE RunJob -------------------------------
(***************************************************************************)
(* One run on a pod it already has: the try / except / finally block of    *)
(* run_job, the script and the log on the pod, and the telemetry sampler   *)
(* thread.                                                                 *)
(*                                                                         *)
(* Three actors take steps: the orchestrator, whose every remote command   *)
(* may raise; the script on the pod, which goes on whether or not anybody  *)
(* watches it; and the sampler.  A resumed pod starts with the log and the *)
(* outputs of the run before.  Ctrl-C may reach the orchestrator anywhere  *)
(* in the block.                                                           *)
(***************************************************************************)
EXTENDS Naturals, FiniteSets

CONSTANTS
    Artifacts,      \* labels of the declared artifacts
    Required,       \* those with `required: true`
    OnSuccess,      \* lifecycle.on_success
    OnFailure,      \* lifecycle.on_failure
    SshAttempts,    \* attempts of _wait_for_sshd (7 in the code)
    LogProbes,      \* probes for the remote log (20 in the code)
    Polls,          \* log polls that fit in budget.timeout_sec
    MaxInterrupts,  \* bound on Ctrl-C
    MaxRows         \* bound on the rows sampled before the stop

ASSUME ArtifactAssumption == Required \subseteq Artifacts
ASSUME PolicyAssumption ==
    /\ OnSuccess \in {"preserve", "stop", "delete", "recycle"}
    /\ OnFailure \in {"preserve", "stop", "delete"}
ASSUME BoundAssumption ==
    /\ SshAttempts \in Nat \ {0} /\ LogProbes \in Nat \ {0} /\ Polls \in Nat
    /\ MaxInterrupts \in Nat /\ MaxRows \in Nat

VARIABLES
    \* on the pod
    script,      \* the run script: "never" sent, "launched", "running", "ended"
    logLines,    \* the markers in the log, or NoLog
    outputs,     \* which run wrote the remote side of each artifact
    \* run_job
    pc,          \* what the orchestrator does next
    tries,       \* iterations of the loop it is in
    failed,      \* run_job's `failed`
    runStarted,  \* run_job's `run_started`
    todo,        \* _pull_artifacts_and_log: artifacts still to pull
    found,       \* _pull_artifacts_and_log: its `results`
    results,     \* run_job's `artifact_results`
    interrupts,  \* number of Ctrl-C so far
    \* the sampler thread
    sampler,     \* "off", "sampling" a row, or "waiting" for the interval
    stopEvent,   \* _stop_event is set
    rows,        \* rows written before the event was set
    lateRows,    \* rows written after it was set
    \* what the run leaves behind
    pulled,      \* which run wrote the local copy of each artifact
    action,      \* the lifecycle action taken on the pod
    manifest     \* the pull manifest

podVars == <<script, logLines, outputs>>
flags == <<failed, runStarted>>
pullVars == <<todo, found, results, pulled>>
samplerVars == <<sampler, stopEvent, rows, lateRows>>
endVars == <<action, manifest>>
vars == <<script, logLines, outputs, pc, tries, failed, runStarted, todo, found,
          results, interrupts, sampler, stopEvent, rows, lateRows, pulled, action,
          manifest>>

Origins == {"none", "earlier", "this"}
Markers == {"done", "fail"}
NoLog == {"no log"}
Statuses == {"none", "success", "failed"}
Manifests == [failed : BOOLEAN, results : [Artifacts -> Statuses]]
NoManifest == [failed |-> FALSE]
Everywhere(x) == [a \in Artifacts |-> x]

\* The phases of the try block before the launch, in order.
Following == [capture_start |-> "setup", setup |-> "secrets", secrets |-> "push",
              push |-> "preflight", preflight |-> "create_script",
              create_script |-> "clear_log", clear_log |-> "launch"]
Prelude == DOMAIN Following
TryPlaces == Prelude \cup {"connect", "launch", "probe", "start_sampling", "monitor",
                           "sleep", "stop_sampling", "capture_end", "pull"}
ExceptPlaces == {"except", "except_pull", "except_capture_end"}
FinallyPlaces == {"cleanup", "write_manifest"}
Over == pc \in FinallyPlaces \cup {"end"}

Init ==
    /\ script = "never"
    /\ \/ logLines = NoLog /\ outputs = Everywhere("none")
       \/ logLines \in SUBSET Markers /\ outputs = Everywhere("earlier")
    /\ pc = "connect" /\ tries = 0 /\ failed = FALSE /\ runStarted = FALSE
    /\ todo = {} /\ found = Everywhere("none") /\ results = Everywhere("none")
    /\ interrupts = 0
    /\ sampler = "off" /\ stopEvent = FALSE /\ rows = 0 /\ lateRows = 0
    /\ pulled = Everywhere("none") /\ action = "none" /\ manifest = NoManifest

-----------------------------------------------------------------------------
(***************************************************************************)
(* The script on the pod.                                                  *)
(***************************************************************************)

LocalUnchanged ==
    UNCHANGED <<pc, tries, flags, pullVars, interrupts, samplerVars, endVars>>

\* The remote shell truncates the log and starts the script, some time after
\* `ssh -f` has returned.
ScriptBegins ==
    /\ script = "launched"
    /\ script' = "running"
    /\ logLines' = {}
    /\ UNCHANGED outputs /\ LocalUnchanged

ScriptWrites(a) ==
    /\ script = "running"
    /\ outputs' = [outputs EXCEPT ![a] = "this"]
    /\ UNCHANGED <<script, logLines>> /\ LocalUnchanged

\* The success marker is the script's last line, after its required outputs.
ScriptSucceeds ==
    /\ script = "running"
    /\ \A a \in Required : outputs[a] = "this"
    /\ script' = "ended"
    /\ logLines' = logLines \cup {"done"}
    /\ UNCHANGED outputs /\ LocalUnchanged

\* A failure marker, which need not end the script; or the script dies.
ScriptFails ==
    /\ script = "running"
    /\ \/ logLines' = logLines \cup {"fail"} /\ UNCHANGED script
       \/ script' = "ended" /\ UNCHANGED logLines
    /\ UNCHANGED outputs /\ LocalUnchanged

-----------------------------------------------------------------------------
(***************************************************************************)
(* The try block.                                                          *)
(***************************************************************************)

Goto(place) == pc' = place

\* An Exception leaves the try block: the handler sets `failed` first.
Raise == failed' = TRUE /\ Goto("except") /\ UNCHANGED runStarted

Remote == UNCHANGED <<pullVars, interrupts, samplerVars, endVars>>

\* _wait_for_sshd.
Connect ==
    /\ pc = "connect"
    /\ \/ Goto("capture_start") /\ UNCHANGED <<tries, flags>>
       \/ tries + 1 < SshAttempts /\ tries' = tries + 1 /\ UNCHANGED <<pc, flags>>
       \/ tries + 1 = SshAttempts /\ Raise /\ UNCHANGED tries
    /\ UNCHANGED podVars /\ Remote

ClearedLogKept == logLines

\* What `rm -f` leaves of the log.
ClearedLog == NoLog

\* capture_start, setup, secrets, staging, preflight, and the first two
\* commands of _launch_remote_job.  All but capture_start may raise.
DoPhase ==
    /\ pc \in Prelude
    /\ Goto(Following[pc])
    /\ logLines' = IF pc = "clear_log" THEN ClearedLog ELSE logLines
    /\ tries' = 0
    /\ UNCHANGED <<script, outputs, flags>> /\ Remote

PhaseRaises ==
    /\ pc \in Prelude \ {"capture_start"}
    /\ Raise
    /\ UNCHANGED <<podVars, tries>> /\ Remote

\* ssh_exec_detached returns; or it fails or times out, and the command may
\* or may not have reached the pod.
Launch ==
    /\ pc = "launch"
    /\ \/ script' = "launched" /\ Goto("probe") /\ UNCHANGED flags
       \/ script' \in {"never", "launched"} /\ Raise
    /\ UNCHANGED <<logLines, outputs, tries>> /\ Remote

\* `test -f` the log; ssh may fail although the log is there, or time out.
ProbeLog ==
    /\ pc = "probe"
    /\ \/ /\ logLines # NoLog
          /\ runStarted' = TRUE
          /\ Goto("start_sampling")
          /\ UNCHANGED <<tries, failed>>
       \/ tries + 1 < LogProbes /\ tries' = tries + 1 /\ UNCHANGED <<pc, flags>>
       \/ Raise /\ UNCHANGED tries
    /\ UNCHANGED podVars /\ Remote

StartSampling ==
    /\ pc = "start_sampling"
    /\ sampler' = "sampling" /\ stopEvent' = FALSE
    /\ tries' = 0
    /\ Goto("monitor")
    /\ UNCHANGED <<podVars, flags, pullVars, interrupts, rows, lateRows, endVars>>

\* One poll of _monitor_remote_log: the success marker is looked for first, in
\* the whole log.  A poll whose ssh fails prints nothing and is not checked, so
\* the loop goes on whatever the log holds; one that times out ends the run, as
\* a failure marker does.
Poll ==
    /\ pc = "monitor" /\ tries < Polls
    /\ \/ "done" \in logLines /\ Goto("stop_sampling") /\ UNCHANGED <<tries, flags>>
       \/ Goto("sleep") /\ UNCHANGED <<tries, flags>>
       \/ Raise /\ UNCHANGED tries
    /\ UNCHANGED podVars /\ Remote

TimeSpentForgotten == tries

\* What a poll and the sleep after it take from the budget.
TimeSpent == tries + 1

Sleep ==
    /\ pc = "sleep"
    /\ tries' = TimeSpent
    /\ Goto("monitor")
    /\ UNCHANGED <<podVars, flags>> /\ Remote

\* TimeoutError: the budget is used up.
MonitorTimesOut ==
    /\ pc = "monitor" /\ tries = Polls
    /\ Raise
    /\ UNCHANGED <<podVars, tries>> /\ Remote

\* stop_sampling sets the event and joins for at most ten seconds: the thread
\* may outlive it.
SetStopEvent == stopEvent' = (stopEvent \/ sampler # "off")

StopSampling ==
    /\ pc = "stop_sampling"
    /\ SetStopEvent
    /\ Goto("capture_end")
    /\ UNCHANGED <<podVars, tries, flags, pullVars, interrupts, sampler, rows,
                   lateRows, endVars>>

BeginPull == todo' = Artifacts /\ found' = Everywhere("none")

CaptureEnd ==
    /\ pc = "capture_end"
    /\ BeginPull
    /\ Goto("pull")
    /\ UNCHANGED <<podVars, tries, flags, results, pulled, interrupts, samplerVars, endVars>>

-----------------------------------------------------------------------------
(***************************************************************************)
(* _pull_artifacts_and_log, from the try block and from the handler.       *)
(***************************************************************************)

Pulling == pc \in {"pull", "except_pull"}

PullSucceeds(a) ==
    /\ Pulling /\ a \in todo /\ outputs[a] # "none"
    /\ pulled' = [pulled EXCEPT ![a] = outputs[a]]
    /\ found' = [found EXCEPT ![a] = "success"]
    /\ todo' = todo \ {a}
    /\ UNCHANGED <<podVars, pc, tries, flags, results, interrupts, samplerVars, endVars>>

MustHaveEvenIfFailed(a) == a \in Required

MustHaveIfFailed(a) == a \in Required /\ failed

\* `required = artifact.required and not failed`.
MustHave(a) == a \in Required /\ ~failed

\* rsync_pull raises and the artifact can be missed: on to the next.
PullSkips(a) ==
    /\ Pulling /\ a \in todo /\ ~MustHave(a)
    /\ found' = [found EXCEPT ![a] = "failed"]
    /\ todo' = todo \ {a}
    /\ UNCHANGED <<podVars, pc, tries, flags, results, pulled, interrupts,
                   samplerVars, endVars>>

\* rsync_pull raises and the artifact is required: the results are lost.  The
\* handler's own pull suppresses what it raises.
PullRaises(a) ==
    /\ Pulling /\ a \in todo /\ MustHave(a)
    /\ IF pc = "pull" THEN Raise ELSE Goto("except_capture_end") /\ UNCHANGED flags
    /\ UNCHANGED <<podVars, tries, pullVars, interrupts, samplerVars, endVars>>

PullEnds ==
    /\ Pulling /\ todo = {}
    /\ results' = found
    /\ Goto(IF pc = "pull" THEN "cleanup" ELSE "except_capture_end")
    /\ UNCHANGED <<podVars, tries, flags, todo, found, pulled, interrupts,
                   samplerVars, endVars>>

-----------------------------------------------------------------------------
(***************************************************************************)
(* The except and finally blocks.                                          *)
(***************************************************************************)

StopNothing == UNCHANGED stopEvent

StopInHandler == SetStopEvent

HandleException ==
    /\ pc = "except"
    /\ StopInHandler
    /\ BeginPull
    /\ Goto(IF runStarted THEN "except_pull" ELSE "cleanup")
    /\ UNCHANGED <<podVars, tries, flags, results, pulled, interrupts, sampler, rows,
                   lateRows, endVars>>

HandlerCapturesEnd ==
    /\ pc = "except_capture_end"
    /\ Goto("cleanup")
    /\ UNCHANGED <<podVars, tries, flags>> /\ Remote

PolicyNotRead == "preserve"

Policy == IF failed THEN OnFailure ELSE OnSuccess

\* cleanup_pod returns; or it raises (no runpodctl, unlink fails), and the rest
\* of the finally block is skipped.
Cleanup ==
    /\ pc = "cleanup"
    /\ action' = Policy
    /\ Goto("write_manifest") \/ Goto("end")
    /\ UNCHANGED <<podVars, tries, flags, pullVars, interrupts, samplerVars, manifest>>

\* write_pull_manifest, whose failure is suppressed.
WriteManifest ==
    /\ pc = "write_manifest"
    /\ manifest' \in {NoManifest, [failed |-> failed, results |-> results]}
    /\ Goto("end")
    /\ UNCHANGED <<podVars, tries, flags, pullVars, interrupts, samplerVars, action>>

\* Ctrl-C is no Exception: neither the handler nor `suppress` catches it.  In
\* the finally block it abandons the rest of the block.
Interrupt ==
    /\ pc # "end" /\ interrupts < MaxInterrupts
    /\ interrupts' = interrupts + 1
    /\ Goto(IF pc \in FinallyPlaces THEN "end" ELSE "cleanup")
    /\ action' \in {action} \cup IF pc = "cleanup" THEN {Policy} ELSE {}
    /\ UNCHANGED <<podVars, tries, flags, pullVars, samplerVars, manifest>>

-----------------------------------------------------------------------------
(***************************************************************************)
(* The sampler thread, which dies with the process.                        *)
(***************************************************************************)

MainUnchanged ==
    UNCHANGED <<podVars, pc, tries, flags, pullVars, interrupts, stopEvent, endVars>>

SampleRow ==
    /\ sampler = "sampling" /\ pc # "end"
    /\ sampler' = "waiting"
    /\ IF stopEvent THEN lateRows' = lateRows + 1 /\ UNCHANGED rows
       ELSE rows < MaxRows /\ rows' = rows + 1 /\ UNCHANGED lateRows
    /\ MainUnchanged

AfterWaitIgnoringEvent == "sampling"

\* Event.wait returns TRUE at once, or FALSE after the interval.
AfterWait == IF stopEvent THEN "off" ELSE "sampling"

WaitForInterval ==
    /\ sampler = "waiting" /\ pc # "end"
    /\ sampler' = AfterWait
    /\ UNCHANGED <<rows, lateRows>> /\ MainUnchanged

\* The metrics directory cannot be created: the thread ends.
SamplerDies ==
    /\ sampler = "sampling" /\ rows + lateRows = 0 /\ pc # "end"
    /\ sampler' = "off"
    /\ UNCHANGED <<rows, lateRows>> /\ MainUnchanged

-----------------------------------------------------------------------------

Script ==
    \/ ScriptBegins \/ ScriptSucceeds \/ ScriptFails
    \/ \E a \in Artifacts : ScriptWrites(a)

Orchestrator ==
    \/ Connect \/ DoPhase \/ PhaseRaises \/ Launch \/ ProbeLog \/ StartSampling
    \/ Poll \/ Sleep \/ MonitorTimesOut \/ StopSampling \/ CaptureEnd
    \/ \E a \in Artifacts : PullSucceeds(a) \/ PullSkips(a) \/ PullRaises(a)
    \/ PullEnds \/ HandleException \/ HandlerCapturesEnd \/ Cleanup \/ WriteManifest

Sampler == SampleRow \/ WaitForInterval \/ SamplerDies

Next == Script \/ Orchestrator \/ Interrupt \/ Sampler

Spec == Init /\ [][Next]_vars

\* Every remote command has a timeout and every loop a bound.
FairSpec == Spec /\ WF_vars(Orchestrator)

-----------------------------------------------------------------------------
(***************************************************************************)
(* What the code should guarantee.                                         *)
(***************************************************************************)

\* Every variable has its type.
TypeOK ==
    /\ script \in {"never", "launched", "running", "ended"}
    /\ logLines \in (SUBSET Markers) \cup {NoLog}
    /\ outputs \in [Artifacts -> Origins]
    /\ pc \in TryPlaces \cup ExceptPlaces \cup FinallyPlaces \cup {"end"}
    /\ tries \in Nat
    /\ failed \in BOOLEAN /\ runStarted \in BOOLEAN
    /\ todo \subseteq Artifacts
    /\ found \in [Artifacts -> Statuses] /\ results \in [Artifacts -> Statuses]
    /\ interrupts \in 0 .. MaxInterrupts
    /\ sampler \in {"off", "sampling", "waiting"} /\ stopEvent \in BOOLEAN
    /\ rows \in 0 .. MaxRows /\ lateRows \in Nat
    /\ pulled \in [Artifacts -> Origins]
    /\ action \in {"none", OnSuccess, OnFailure}
    /\ manifest \in Manifests \cup {NoManifest}

\* The success action (by default: delete the pod) is only taken when every
\* required artifact is on the local disk as this run wrote it, even on a
\* resumed pod that still holds the log, the success marker and the outputs of
\* the run before.
SuccessActionMeansResults ==
    action = OnSuccess /\ interrupts = 0 => \A a \in Required : pulled[a] = "this"

\* Whatever went wrong after the script was seen to start, the manifest has an
\* outcome for every artifact, and what it calls a success is on disk.
ManifestCoversArtifacts ==
    manifest # NoManifest /\ runStarted /\ interrupts = 0 =>
        \A a \in Artifacts :
            /\ manifest.results[a] # "none"
            /\ manifest.results[a] = "success" => pulled[a] # "none"

\* The pod is not given up under a sampler that has not been told to stop.
SamplerToldToStop == Over /\ sampler # "off" => stopEvent \/ interrupts > 0

\* A sampler abandoned by stop_sampling adds at most one row to the metrics.
AtMostOneLateRow == lateRows <= 1

\* The longest way from each place to the end of run_job, not counting what
\* StepsLeft adds for the loops.  A poll and its sleep are one turn of a loop.
PathLength ==
    [end |-> 0, write_manifest |-> 1, cleanup |-> 2, except_capture_end |-> 3,
     except_pull |-> 4, except |-> 5, pull |-> 6, capture_end |-> 7,
     stop_sampling |-> 8, sleep |-> 8, monitor |-> 9, start_sampling |-> 10,
     probe |-> 10, launch |-> 11, clear_log |-> 12, create_script |-> 13,
     preflight |-> 14, push |-> 15, secrets |-> 16, setup |-> 17,
     capture_start |-> 18, connect |-> 18]

BeforeProbe == Prelude \cup {"connect", "launch"}
BeforeMonitor == BeforeProbe \cup {"probe", "start_sampling"}
BeforePull == BeforeMonitor \cup {"monitor", "sleep", "stop_sampling", "capture_end"}

ConnectsLeft == IF pc = "connect" THEN SshAttempts - tries ELSE 0

ProbesLeft ==
    IF pc \in BeforeProbe THEN LogProbes
    ELSE IF pc = "probe" THEN LogProbes - tries ELSE 0

PollsLeft ==
    IF pc \in BeforeMonitor THEN Polls
    ELSE IF pc \in {"monitor", "sleep"} THEN Polls - tries ELSE 0

\* The handler pulls a second time what the try block pulled.
PullsLeft ==
    (IF pc \in BeforePull THEN Cardinality(Artifacts)
     ELSE IF pc \in {"pull", "except_pull"} THEN Cardinality(todo) ELSE 0)
      + (IF pc \in BeforePull \cup {"pull", "except"} THEN Cardinality(Artifacts) ELSE 0)

\* How many steps the orchestrator can still take, at most.
StepsLeft == PathLength[pc] + ConnectsLeft + ProbesLeft + 2 * PollsLeft + PullsLeft

\* run_job takes a number of steps that its bounds fix beforehand: each remote
\* command, answered or not, takes it closer to the end of its finally block,
\* no loop starts over, and neither the script nor the sampler keeps it longer.
EndsInBoundedSteps ==
    [][ /\ StepsLeft' \in 0 .. StepsLeft
        /\ Orchestrator \/ Interrupt => StepsLeft' < StepsLeft ]_vars

\* Whatever the pod, the script and the sampler do, the run ends.
RunEnds == <>(pc = "end")

(***************************************************************************)
(* What the documentation says and the code does not guarantee.            *)
(***************************************************************************)

\* lifecycle.md:403-405 and the warning at orchestrator.py:187: when the pulls
\* are skipped, "the run script never executed".
SkippedPullMeansNeverRan ==
    Over /\ failed /\ ~runStarted => script = "never"

\* forensics-then-cleanup.md:143-145: failed runs "write the manifest before
\* the delete".
ManifestBeforeDelete ==
    action = "delete" /\ failed => manifest # NoManifest
=============================================================================
