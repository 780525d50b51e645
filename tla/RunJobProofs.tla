---------------------------- MODULE RunJobProofs ----------------------------
(***************************************************************************)
(* What holds of RunJob for every set of artifacts, every policy and every *)
(* bound.  The invariants follow the order of the try block: what a place  *)
(* of run_job may rely on, as long as nobody interrupted the run.  At the  *)
(* end: that the steps it has left are bounded, and become fewer.          *)
(***************************************************************************)
EXTENDS RunJob, FiniteSetTheorems, TLAPS

BeforeLaunch == Prelude \cup {"connect"}
BeforeSampling == BeforeLaunch \cup {"launch", "probe", "start_sampling"}
Watching == {"launch", "probe", "start_sampling", "monitor", "sleep"}
AfterSuccess == {"stop_sampling", "capture_end", "pull"}

\* A running script has its own log; until the launch there is no script.
ScriptSound ==
    /\ script = "running" => logLines \in SUBSET Markers
    /\ pc \in BeforeLaunch => script = "never"

AllWritten == \A a \in Required : outputs[a] = "this"
AllPulled == \A a \in Required : pulled[a] = "this"

\* From the launch on, a success marker in the log is this run's.
MarkerSound ==
    /\ pc \in Watching /\ "done" \in logLines => AllWritten
    /\ pc \in AfterSuccess => AllWritten

\* `failed` says where in run_job the run is.
FailedSound ==
    /\ pc \in TryPlaces => ~failed
    /\ pc \in ExceptPlaces => failed

\* The required artifacts are pulled on the way to the success action.
PulledSound ==
    /\ pc = "pull" => \A a \in Required \ todo : pulled[a] = "this"
    /\ interrupts = 0 /\ pc \in FinallyPlaces \cup {"end"} /\ ~failed => AllPulled

\* The action waits for the finally block, and is the policy's.
ActionSound ==
    /\ pc \notin {"write_manifest", "end"} => action = "none"
    /\ action \in {"none", Policy}

\* What the pull has found so far, and what run_job keeps of it.
FoundSound ==
    pc \in {"pull", "except_pull"} =>
        \A a \in Artifacts \ todo :
            found[a] # "none" /\ (found[a] = "success" => pulled[a] # "none")

ResultsSound ==
    interrupts = 0 /\ runStarted /\ pc \in {"except_capture_end"} \cup FinallyPlaces \cup {"end"} =>
        \A a \in Artifacts :
            results[a] # "none" /\ (results[a] = "success" => pulled[a] # "none")

ManifestSound ==
    manifest # NoManifest => pc = "end" /\ manifest.results = results

\* The sampler is off until it is started, and told to stop before the end.
SamplerSound ==
    /\ pc \in BeforeSampling => sampler = "off" /\ ~stopEvent
    /\ pc \in {"capture_end", "pull", "except_pull", "except_capture_end"}
              \cup FinallyPlaces \cup {"end"} =>
         sampler = "off" \/ stopEvent \/ interrupts > 0

\* Once the event is set, a sample that is still being taken is the last.
LateSound ==
    /\ ~stopEvent => lateRows = 0
    /\ stopEvent /\ sampler = "sampling" => lateRows = 0
    /\ lateRows <= 1

Inv ==
    /\ TypeOK /\ ScriptSound /\ MarkerSound /\ FailedSound /\ PulledSound /\ ActionSound
    /\ FoundSound /\ ResultsSound /\ ManifestSound /\ SamplerSound /\ LateSound

-----------------------------------------------------------------------------

\* The phases before the launch, and their order.
LEMMA PreludeOrder ==
    /\ Prelude = {"capture_start", "setup", "secrets", "push", "preflight", "create_script",
                  "clear_log"}
    /\ \A p \in Prelude : Following[p] \in Prelude \cup {"launch"}
    /\ \A p \in Prelude : Following[p] = "launch" <=> p = "clear_log"
  BY DEF Prelude, Following

\* Nothing has happened yet; the log and the outputs may be an earlier run's.
LEMMA Initially == Init => Inv
<1> SUFFICES ASSUME Init PROVE Inv OBVIOUS
<1>1. TypeOK
  <2>1. logLines \in (SUBSET Markers) \cup {NoLog}
    BY DEF Init
  <2>2. /\ outputs \in [Artifacts -> Origins] /\ pulled \in [Artifacts -> Origins]
        /\ found \in [Artifacts -> Statuses] /\ results \in [Artifacts -> Statuses]
    BY DEF Init, Everywhere, Origins, Statuses
  <2>3. /\ script = "never" /\ pc = "connect" /\ tries = 0 /\ failed = FALSE
        /\ runStarted = FALSE /\ todo = {} /\ interrupts = 0 /\ sampler = "off"
        /\ stopEvent = FALSE /\ rows = 0 /\ lateRows = 0 /\ action = "none"
        /\ manifest = NoManifest
    BY DEF Init
  <2>4. tries \in Nat /\ lateRows \in Nat /\ interrupts \in 0 .. MaxInterrupts
        /\ rows \in 0 .. MaxRows
    BY <2>3, BoundAssumption
  <2>5. failed \in BOOLEAN /\ runStarted \in BOOLEAN /\ stopEvent \in BOOLEAN
    BY <2>3
  <2> QED BY <2>1, <2>2, <2>3, <2>4, <2>5 DEF TypeOK, TryPlaces
<1>2. ScriptSound /\ MarkerSound /\ FailedSound /\ PulledSound /\ ActionSound
  BY PreludeOrder
  DEF Init, ScriptSound, MarkerSound, FailedSound, PulledSound, ActionSound,
      BeforeLaunch,
      Watching, AfterSuccess, ExceptPlaces, FinallyPlaces
<1>3. FoundSound /\ ResultsSound /\ ManifestSound /\ SamplerSound /\ LateSound
  BY DEF Init, FoundSound, ResultsSound, ManifestSound, SamplerSound, LateSound,
      FinallyPlaces
<1> QED BY <1>1, <1>2, <1>3 DEF Inv

\* The script may write, succeed or fail at any time, whatever run_job does: the
\* success marker comes after the required outputs.
LEMMA ScriptKeepsInv == Inv /\ Script => Inv'
<1> SUFFICES ASSUME Inv, Script PROVE Inv' OBVIOUS
<1> USE DEF Inv
<1>1. LocalUnchanged
  BY DEF Script, ScriptBegins, ScriptWrites, ScriptSucceeds, ScriptFails
<1>2. /\ script' \in {"running", "ended"} /\ script \in {"launched", "running"}
      /\ script' = "ended" => script = "running"
  BY DEF Script, ScriptBegins, ScriptWrites, ScriptSucceeds, ScriptFails
<1>3. logLines' \in SUBSET Markers
  <2>1. CASE ScriptBegins
    BY <2>1 DEF ScriptBegins
  <2>2. CASE ~ScriptBegins
    BY <2>2 DEF Script, ScriptWrites, ScriptSucceeds, ScriptFails, ScriptSound, Markers
  <2> QED BY <2>1, <2>2
<1>4. /\ outputs' \in [Artifacts -> Origins]
      /\ \A a \in Artifacts : outputs[a] = "this" => outputs'[a] = "this"
  BY DEF Script, ScriptBegins, ScriptWrites, ScriptSucceeds, ScriptFails, TypeOK,
      Origins
<1>5. "done" \in logLines' => "done" \in logLines \/ AllWritten'
  BY DEF Script, ScriptBegins, ScriptWrites, ScriptSucceeds, ScriptFails, AllWritten
<1>6. TypeOK'
  BY <1>1, <1>2, <1>3, <1>4
  DEF LocalUnchanged, flags, pullVars, samplerVars, endVars, TypeOK
<1>7. ScriptSound'
  BY <1>1, <1>2, <1>3 DEF LocalUnchanged, ScriptSound
<1>8. MarkerSound'
  <2>1. AllWritten => AllWritten'
    BY <1>4, ArtifactAssumption DEF AllWritten
  <2> QED BY <1>1, <1>5, <2>1 DEF LocalUnchanged, MarkerSound
<1>9. FailedSound' /\ PulledSound' /\ ActionSound' /\ FoundSound' /\ ResultsSound'
      /\ ManifestSound' /\ SamplerSound' /\ LateSound'
  BY <1>1
    DEF LocalUnchanged, flags, pullVars, samplerVars, endVars, FailedSound,
        PulledSound,
     AllPulled, ActionSound, Policy, FoundSound, ResultsSound, ManifestSound,
     SamplerSound, LateSound
<1> QED BY <1>6, <1>7, <1>8, <1>9

\* The sampler: at most one row after the event is set.
LEMMA SamplerKeepsInv == Inv /\ Sampler => Inv'
<1> SUFFICES ASSUME Inv, Sampler PROVE Inv' OBVIOUS
<1> USE DEF Inv
<1>1. MainUnchanged /\ sampler \in {"sampling", "waiting"}
  BY DEF Sampler, SampleRow, WaitForInterval, SamplerDies
<1>2. rows \in 0 .. MaxRows /\ lateRows \in Nat /\ MaxRows \in Nat
  BY BoundAssumption DEF TypeOK
<1>3. /\ sampler' \in {"off", "sampling", "waiting"}
      /\ sampler' = "sampling" => sampler = "waiting" /\ ~stopEvent
      /\ \/ stopEvent /\ sampler = "sampling" /\ lateRows' = lateRows + 1 /\ rows' = rows
            /\ sampler' = "waiting"
         \/ ~stopEvent /\ rows < MaxRows /\ rows' = rows + 1 /\ lateRows' = lateRows
         \/ rows' = rows /\ lateRows' = lateRows
  BY DEF Sampler, SampleRow, WaitForInterval, SamplerDies, AfterWait
<1>4. rows' \in 0 .. MaxRows /\ lateRows' \in Nat
  BY <1>2, <1>3
<1>5. TypeOK'
  BY <1>1, <1>3, <1>4 DEF MainUnchanged, podVars, flags, pullVars, endVars, TypeOK
<1>6. LateSound'
  <2>1. stopEvent' = stopEvent
    BY <1>1 DEF MainUnchanged
  <2>2. stopEvent /\ sampler = "sampling" => lateRows = 0
    BY DEF LateSound
  <2>3. lateRows' <= 1
    BY <1>2, <1>3, <2>2 DEF LateSound
  <2> QED BY <1>3, <2>1, <2>3 DEF LateSound
<1>7. SamplerSound'
  BY <1>1, <1>3 DEF MainUnchanged, SamplerSound
<1>8. ScriptSound' /\ MarkerSound' /\ FailedSound' /\ PulledSound' /\ ActionSound' /\ FoundSound'
      /\ ResultsSound' /\ ManifestSound'
  BY <1>1
    DEF MainUnchanged, podVars, flags, pullVars, endVars, ScriptSound, MarkerSound,
     AllWritten, FailedSound, PulledSound, AllPulled, ActionSound, Policy, FoundSound,
     ResultsSound, ManifestSound
<1> QED BY <1>5, <1>6, <1>7, <1>8

-----------------------------------------------------------------------------

\* The steps of the try block up to the success marker.
Ahead == Connect \/ DoPhase \/ PhaseRaises \/ Launch \/ ProbeLog \/ Poll \/ Sleep \/ MonitorTimesOut

\* Where they lead, and what they do on the pod.
LEMMA AheadMoves ==
    ASSUME Inv, Ahead
    PROVE  /\ pc \in Prelude \cup {"connect", "launch", "probe", "monitor", "sleep"}
           /\ \/ Raise
              \/ pc' \in TryPlaces \ {"capture_end", "pull"} /\ failed' = failed
           /\ runStarted' \in BOOLEAN /\ tries' \in Nat
           /\ pc \in BeforeSampling \/ pc' \notin BeforeSampling
           /\ Remote /\ outputs' = outputs
<1> USE PreludeOrder DEF TryPlaces, BeforeSampling, BeforeLaunch, Goto
<1>0. tries \in Nat /\ runStarted \in BOOLEAN
  BY DEF Inv, TypeOK
<1>1. CASE Connect
  BY <1>0, <1>1 DEF Connect, Raise, podVars, flags
<1>2. CASE DoPhase
  BY <1>0, <1>2 DEF DoPhase, Raise, flags
<1>3. CASE PhaseRaises
  BY <1>0, <1>3 DEF PhaseRaises, Raise, podVars
<1>4. CASE Launch
  BY <1>0, <1>4 DEF Launch, Raise, flags
<1>5. CASE ProbeLog
  <2>1. /\ runStarted' = TRUE \/ UNCHANGED runStarted
        /\ tries' = tries + 1 \/ tries' = tries
    BY <1>5 DEF ProbeLog, Raise, flags
  <2>2. /\ pc = "probe" /\ Remote /\ UNCHANGED podVars
        /\ Raise \/ (pc' \in {"probe", "start_sampling"} /\ failed' = failed)
    BY <1>5 DEF ProbeLog, flags
  <2>3. tries' \in Nat
    BY <1>0, <2>1
  <2>4. runStarted' \in BOOLEAN
    BY <1>0, <2>1
  <2> QED BY <2>2, <2>3, <2>4 DEF Raise, podVars
<1>6. CASE Poll
  BY <1>0, <1>6 DEF Poll, Raise, podVars, flags
<1>7. CASE Sleep
  BY <1>0, <1>7 DEF Sleep, Raise, TimeSpent, podVars, flags
<1>8. CASE MonitorTimesOut
  BY <1>0, <1>8 DEF MonitorTimesOut, Raise, podVars
<1> QED BY <1>1, <1>2, <1>3, <1>4, <1>5, <1>6, <1>7, <1>8 DEF Ahead

\* Up to the success marker, the log is the script's own from the launch on.
LEMMA AheadKeepsInv == Inv /\ Ahead => Inv'
<1> SUFFICES ASSUME Inv, Ahead PROVE Inv' OBVIOUS
<1> USE DEF Inv
<1>0. /\ pc \in Prelude \cup {"connect", "launch", "probe", "monitor", "sleep"}
      /\ Raise \/ (pc' \in TryPlaces \ {"capture_end", "pull"} /\ failed' = failed)
      /\ runStarted' \in BOOLEAN /\ tries' \in Nat
      /\ pc \in BeforeSampling \/ pc' \notin BeforeSampling
      /\ Remote /\ outputs' = outputs
  BY AheadMoves
<1>1. UNCHANGED <<todo, found, results, pulled, interrupts, sampler, stopEvent, rows, lateRows,
                  action, manifest>>
  BY <1>0 DEF Remote, pullVars, samplerVars, endVars
<1>2. /\ pc \in TryPlaces \ {"stop_sampling", "capture_end", "pull"}
      /\ pc' \in TryPlaces \cup {"except"} /\ pc' \notin {"capture_end", "pull"}
      /\ ~failed
  BY <1>0, PreludeOrder DEF Raise, Goto, TryPlaces, ExceptPlaces, FailedSound
<1>3. /\ script' \in {script, "never", "launched"} /\ logLines' \in {logLines, NoLog}
      /\ script' # script => pc = "launch"
      /\ logLines' # logLines => pc = "clear_log"
  BY PreludeOrder
  DEF Ahead, Connect, DoPhase, PhaseRaises, Launch, ProbeLog, Poll, Sleep,
      MonitorTimesOut,
      podVars, ClearedLog
<1>4. TypeOK'
  <2>1. failed' \in BOOLEAN
    BY <1>0 DEF Raise, TypeOK
  <2>2. /\ script' \in {"never", "launched", "running", "ended"}
        /\ logLines' \in (SUBSET Markers) \cup {NoLog}
    BY <1>3 DEF TypeOK
  <2> QED BY <1>0, <1>1, <1>2, <2>1, <2>2 DEF TypeOK, ExceptPlaces
<1>5. ScriptSound'
  <2>1. script' = "running" => logLines' \in SUBSET Markers
    BY <1>3, PreludeOrder DEF ScriptSound, BeforeLaunch
  <2>2. pc' \in BeforeLaunch => pc \in BeforeLaunch
    BY PreludeOrder
    DEF Ahead, Connect, DoPhase, PhaseRaises, Launch, ProbeLog, Poll, Sleep,
        MonitorTimesOut,
        Raise, Goto, BeforeLaunch
  <2>3. pc \in BeforeLaunch => pc # "launch"
    BY PreludeOrder DEF BeforeLaunch
  <2> QED BY <1>3, <2>1, <2>2, <2>3 DEF ScriptSound
<1>6. MarkerSound'
  <2>1. "done" \notin NoLog
    BY DEF NoLog
  <2>2. pc' \in Watching => pc \in Watching \/ (pc = "clear_log" /\ logLines' = NoLog)
    BY PreludeOrder
    DEF Ahead, Connect, DoPhase, PhaseRaises, Launch, ProbeLog, Poll, Sleep,
        MonitorTimesOut,
        Raise, Goto, Watching, ClearedLog
  <2>3. pc' = "stop_sampling" => pc = "monitor" /\ "done" \in logLines
    BY PreludeOrder
    DEF Ahead, Connect, DoPhase, PhaseRaises, Launch, ProbeLog, Poll, Sleep,
        MonitorTimesOut,
        Raise, Goto
  <2> QED BY <1>0, <1>2, <1>3, <2>1, <2>2, <2>3
        DEF MarkerSound, AllWritten, AfterSuccess, Watching
<1>7. FailedSound'
  <2>1. CASE Raise
    BY <2>1, PreludeOrder DEF Raise, Goto, FailedSound, TryPlaces, ExceptPlaces
  <2>2. CASE pc' \in TryPlaces /\ failed' = failed
    BY <1>2, <2>2, PreludeOrder DEF FailedSound, TryPlaces, ExceptPlaces
  <2> QED BY <1>0, <2>1, <2>2
<1>8. PulledSound' /\ FoundSound' /\ ResultsSound'
  BY <1>2, PreludeOrder
  DEF PulledSound, FoundSound, ResultsSound, TryPlaces, FinallyPlaces
<1>9. ActionSound' /\ ManifestSound'
  BY <1>1, <1>2, PreludeOrder DEF ActionSound, ManifestSound, TryPlaces
<1>10. SamplerSound' /\ LateSound'
  BY <1>0, <1>1, <1>2, PreludeOrder
    DEF SamplerSound, LateSound, TryPlaces, FinallyPlaces
<1> QED BY <1>4, <1>5, <1>6, <1>7, <1>8, <1>9, <1>10
-----------------------------------------------------------------------------

\* The sampler is started once, while the event has never been set.
LEMMA StartSamplingKeepsInv == Inv /\ StartSampling => Inv'
<1> SUFFICES ASSUME Inv, StartSampling PROVE Inv' OBVIOUS
<1> USE DEF Inv
<1>1. /\ pc = "start_sampling" /\ pc' = "monitor" /\ sampler' = "sampling"
      /\ stopEvent' = FALSE /\ tries' = 0
      /\ UNCHANGED <<script, logLines, outputs, failed, runStarted, todo, found, results,
                     pulled, interrupts, rows, lateRows, action, manifest>>
  BY DEF StartSampling, Goto, podVars, flags, pullVars, endVars
<1>2. lateRows = 0
  BY <1>1 DEF SamplerSound, LateSound, BeforeSampling
<1>3. TypeOK'
  <2>1. stopEvent' \in BOOLEAN
    BY <1>1
  <2>2. tries' \in Nat
    BY <1>1
  <2> QED BY <1>1, <2>1, <2>2 DEF TypeOK, TryPlaces
<1>4. ScriptSound' /\ MarkerSound' /\ FailedSound'
  BY <1>1, PreludeOrder
  DEF ScriptSound, MarkerSound, AllWritten, FailedSound, BeforeLaunch, Watching,
      AfterSuccess,
      TryPlaces, ExceptPlaces
<1>5. PulledSound' /\ ActionSound' /\ FoundSound' /\ ResultsSound' /\ ManifestSound'
  BY <1>1
  DEF PulledSound, ActionSound, FoundSound, ResultsSound, ManifestSound, FinallyPlaces
<1>6. SamplerSound'
  BY <1>1, PreludeOrder DEF SamplerSound, BeforeSampling, BeforeLaunch, FinallyPlaces
<1>7. LateSound'
  BY <1>1, <1>2 DEF LateSound
<1> QED BY <1>3, <1>4, <1>5, <1>6, <1>7

\* What SetStopEvent leaves behind.
LEMMA EventSet ==
    ASSUME Inv, SetStopEvent, UNCHANGED <<sampler, lateRows>>
    PROVE  /\ stopEvent' \in BOOLEAN /\ (sampler' = "off" \/ stopEvent')
           /\ LateSound'
<1>1. stopEvent' \in BOOLEAN
  BY DEF SetStopEvent
<1>2. sampler' = "off" \/ stopEvent'
  BY DEF SetStopEvent
<1>3. LateSound'
  <2>1. ~stopEvent' => ~stopEvent
    BY DEF SetStopEvent
  <2>2. ~stopEvent => lateRows = 0
    BY DEF Inv, LateSound
  <2>3. stopEvent /\ sampler = "sampling" => lateRows = 0
    BY DEF Inv, LateSound
  <2>4. lateRows' <= 1 /\ lateRows' = lateRows /\ sampler' = sampler
    BY DEF Inv, LateSound
  <2>5. ~stopEvent' => lateRows' = 0
    BY <2>1, <2>2, <2>4
  <2>6. stopEvent' /\ sampler' = "sampling" => lateRows' = 0
    BY <2>2, <2>3, <2>4
  <2> QED BY <2>4, <2>5, <2>6 DEF LateSound
<1> QED BY <1>1, <1>2, <1>3

\* The success path stops the sampler before it pulls.
LEMMA StopSamplingKeepsInv == Inv /\ StopSampling => Inv'
<1> SUFFICES ASSUME Inv, StopSampling PROVE Inv' OBVIOUS
<1> USE DEF Inv
<1>1. /\ pc = "stop_sampling" /\ pc' = "capture_end" /\ SetStopEvent
      /\ UNCHANGED <<script, logLines, outputs, tries, failed, runStarted, todo, found, results,
                     pulled, interrupts, sampler, rows, lateRows, action, manifest>>
  BY DEF StopSampling, Goto, podVars, flags, pullVars, endVars
<1>2. stopEvent' \in BOOLEAN /\ (sampler' = "off" \/ stopEvent') /\ LateSound'
  BY <1>1, EventSet
<1>3. TypeOK'
  BY <1>1, <1>2 DEF TypeOK, TryPlaces
<1>4. ScriptSound' /\ MarkerSound' /\ FailedSound'
  BY <1>1, PreludeOrder
  DEF ScriptSound, MarkerSound, AllWritten, FailedSound, BeforeLaunch, Watching,
      AfterSuccess,
      TryPlaces, ExceptPlaces
<1>5. PulledSound' /\ ActionSound' /\ FoundSound' /\ ResultsSound' /\ ManifestSound'
  BY <1>1
  DEF PulledSound, ActionSound, FoundSound, ResultsSound, ManifestSound, FinallyPlaces
<1>6. SamplerSound'
  BY <1>1, <1>2, PreludeOrder DEF SamplerSound, BeforeSampling, BeforeLaunch
<1> QED BY <1>2, <1>3, <1>4, <1>5, <1>6

\* The pull begins with nothing found.
LEMMA CaptureEndKeepsInv == Inv /\ CaptureEnd => Inv'
<1> SUFFICES ASSUME Inv, CaptureEnd PROVE Inv' OBVIOUS
<1> USE DEF Inv
<1>1. /\ pc = "capture_end" /\ pc' = "pull"
      /\ todo' = Artifacts /\ found' = [a \in Artifacts |-> "none"]
      /\ UNCHANGED <<script, logLines, outputs, tries, failed, runStarted, results, pulled,
                     interrupts, sampler, stopEvent, rows, lateRows, action, manifest>>
  BY DEF CaptureEnd, BeginPull, Everywhere, Goto, podVars, flags, samplerVars, endVars
<1>2. TypeOK'
  BY <1>1 DEF TypeOK, TryPlaces, Statuses
<1>3. ScriptSound' /\ MarkerSound' /\ FailedSound'
  BY <1>1, PreludeOrder
  DEF ScriptSound, MarkerSound, AllWritten, FailedSound, BeforeLaunch, Watching,
      AfterSuccess,
      TryPlaces, ExceptPlaces
<1>4. PulledSound' /\ FoundSound'
  BY <1>1, ArtifactAssumption DEF PulledSound, FoundSound, FinallyPlaces
<1>5. ActionSound' /\ ResultsSound' /\ ManifestSound'
  BY <1>1 DEF ActionSound, ResultsSound, ManifestSound, FinallyPlaces
<1>6. SamplerSound' /\ LateSound'
  BY <1>1, PreludeOrder DEF SamplerSound, LateSound, BeforeSampling, BeforeLaunch
<1> QED BY <1>2, <1>3, <1>4, <1>5, <1>6

-----------------------------------------------------------------------------

\* A pull leaves the pod, the sampler and the end of the run alone.
PullFrame ==
    UNCHANGED <<script, logLines, outputs, tries, runStarted, interrupts, sampler,
                stopEvent, rows, lateRows, action, manifest>>

\* One artifact of a pull: it is on disk as the pod has it, or it could be
\* missed.
LEMMA PullStepKeepsInv ==
    ASSUME Inv, NEW a \in Artifacts, PullSucceeds(a) \/ PullSkips(a)
    PROVE  Inv'
<1> USE DEF Inv
<1>1. /\ pc \in {"pull", "except_pull"} /\ pc' = pc /\ a \in todo /\ todo' = todo \ {a}
      /\ PullFrame /\ UNCHANGED <<failed, results>>
      /\ \/ /\ outputs[a] # "none" /\ pulled' = [pulled EXCEPT ![a] = outputs[a]]
            /\ found' = [found EXCEPT ![a] = "success"]
         \/ ~MustHave(a) /\ pulled' = pulled /\ found' = [found EXCEPT ![a] = "failed"]
  BY DEF PullSucceeds, PullSkips, Pulling, PullFrame, podVars, flags, samplerVars,
      endVars
<1>2. outputs[a] \in Origins /\ pulled \in [Artifacts -> Origins] /\ found \in [Artifacts -> Statuses]
  BY DEF TypeOK
<1>3. /\ pulled' \in [Artifacts -> Origins] /\ found' \in [Artifacts -> Statuses]
      /\ \A b \in Artifacts \ {a} : pulled'[b] = pulled[b] /\ found'[b] = found[b]
      /\ \/ outputs[a] # "none" /\ pulled'[a] = outputs[a] /\ found'[a] = "success"
         \/ ~MustHave(a) /\ pulled'[a] = pulled[a] /\ found'[a] = "failed"
  BY <1>1, <1>2 DEF Statuses
<1>4. TypeOK'
  BY <1>1, <1>3 DEF PullFrame, TypeOK
<1>5. ScriptSound' /\ MarkerSound' /\ FailedSound'
  BY <1>1 DEF PullFrame, ScriptSound, MarkerSound, AllWritten, FailedSound
<1>6. PulledSound'
  <2>1. ASSUME pc = "pull", NEW b \in Required \ todo'
        PROVE  pulled'[b] = "this"
    <3>1. b \in Artifacts /\ outputs[b] = "this" /\ ~failed
      BY <2>1, ArtifactAssumption
        DEF MarkerSound, AllWritten, AfterSuccess, FailedSound, TryPlaces
    <3>2. CASE b = a
      BY <1>3, <2>1, <3>1, <3>2 DEF MustHave
    <3>3. CASE b # a
      BY <1>1, <1>3, <2>1, <3>1, <3>3 DEF PulledSound
    <3> QED BY <3>2, <3>3
  <2> QED BY <1>1, <2>1 DEF PulledSound, FinallyPlaces
<1>7. FoundSound'
  BY <1>1, <1>3 DEF FoundSound
<1>8. ActionSound' /\ ResultsSound' /\ ManifestSound'
  BY <1>1 DEF PullFrame, ActionSound, Policy, ResultsSound, ManifestSound, FinallyPlaces
<1>9. SamplerSound' /\ LateSound'
  BY <1>1 DEF PullFrame, SamplerSound, LateSound
<1> QED BY <1>4, <1>5, <1>6, <1>7, <1>8, <1>9

\* A required artifact cannot be had: only from the try block.
LEMMA PullRaisesKeepsInv ==
    ASSUME Inv, NEW a \in Artifacts, PullRaises(a)
    PROVE  Inv'
<1> USE DEF Inv
<1>1. pc = "pull"
  BY DEF PullRaises, Pulling, MustHave, FailedSound, ExceptPlaces
<1>2. pc' = "except" /\ failed' = TRUE /\ PullFrame /\ UNCHANGED <<todo, found, results, pulled>>
  BY <1>1
    DEF PullRaises, Raise, Goto, PullFrame, podVars, pullVars, samplerVars, endVars
<1>3. TypeOK'
  BY <1>2 DEF PullFrame, TypeOK, ExceptPlaces
<1>4. ScriptSound' /\ MarkerSound' /\ FailedSound'
  BY <1>2, PreludeOrder
  DEF PullFrame, ScriptSound, MarkerSound, FailedSound, BeforeLaunch, Watching,
      AfterSuccess,
      TryPlaces
<1>5. PulledSound' /\ FoundSound' /\ ResultsSound'
  BY <1>2 DEF PulledSound, FoundSound, ResultsSound, FinallyPlaces
<1>6. ActionSound' /\ ManifestSound'
  BY <1>1, <1>2 DEF PullFrame, ActionSound, ManifestSound
<1>7. SamplerSound' /\ LateSound'
  BY <1>2, PreludeOrder
  DEF PullFrame, SamplerSound, LateSound, BeforeSampling, BeforeLaunch, FinallyPlaces
<1> QED BY <1>3, <1>4, <1>5, <1>6, <1>7

\* run_job keeps what the pull has found.
LEMMA PullEndsKeepsInv == Inv /\ PullEnds => Inv'
<1> SUFFICES ASSUME Inv, PullEnds PROVE Inv' OBVIOUS
<1> USE DEF Inv
<1>1. /\ pc \in {"pull", "except_pull"} /\ todo = {} /\ results' = found
      /\ pc' = IF pc = "pull" THEN "cleanup" ELSE "except_capture_end"
      /\ PullFrame /\ UNCHANGED <<failed, todo, found, pulled>>
  BY DEF PullEnds, Pulling, Goto, PullFrame, podVars, flags, samplerVars, endVars
<1>2. TypeOK'
  BY <1>1 DEF PullFrame, TypeOK, ExceptPlaces, FinallyPlaces
<1>3. ScriptSound' /\ MarkerSound' /\ FailedSound'
  BY <1>1, PreludeOrder
  DEF PullFrame, ScriptSound, MarkerSound, FailedSound, BeforeLaunch, Watching,
      AfterSuccess,
      TryPlaces, ExceptPlaces
<1>4. PulledSound' /\ FoundSound' /\ ResultsSound'
  BY <1>1 DEF PullFrame, PulledSound, AllPulled, FoundSound, ResultsSound, FinallyPlaces
<1>5. ActionSound' /\ ManifestSound'
  BY <1>1 DEF PullFrame, ActionSound, ManifestSound
<1>6. SamplerSound' /\ LateSound'
  BY <1>1, PreludeOrder
  DEF PullFrame, SamplerSound, LateSound, BeforeSampling, BeforeLaunch, FinallyPlaces
<1> QED BY <1>2, <1>3, <1>4, <1>5, <1>6
-----------------------------------------------------------------------------

\* The handler stops the sampler, and pulls when the script was seen to start.
LEMMA HandleExceptionKeepsInv == Inv /\ HandleException => Inv'
<1> SUFFICES ASSUME Inv, HandleException PROVE Inv' OBVIOUS
<1> USE DEF Inv
<1>1. /\ pc = "except" /\ SetStopEvent
      /\ pc' = IF runStarted THEN "except_pull" ELSE "cleanup"
      /\ todo' = Artifacts /\ found' = [a \in Artifacts |-> "none"]
      /\ UNCHANGED <<script, logLines, outputs, tries, failed, runStarted, results, pulled,
                     interrupts, sampler, rows, lateRows, action, manifest>>
  BY DEF HandleException, StopInHandler, BeginPull, Everywhere, Goto, podVars,
      flags, endVars
<1>2. stopEvent' \in BOOLEAN /\ (sampler' = "off" \/ stopEvent') /\ LateSound'
  BY <1>1, EventSet
<1>3. TypeOK'
  BY <1>1, <1>2 DEF TypeOK, ExceptPlaces, FinallyPlaces, Statuses
<1>4. failed /\ pc' \in {"except_pull", "cleanup"} /\ (pc' = "cleanup" => ~runStarted)
  BY <1>1 DEF FailedSound, ExceptPlaces
<1>5. ScriptSound' /\ MarkerSound' /\ FailedSound'
  BY <1>1, <1>4, PreludeOrder
  DEF ScriptSound, MarkerSound, FailedSound, BeforeLaunch, Watching, AfterSuccess,
      TryPlaces
<1>6. PulledSound' /\ FoundSound' /\ ResultsSound'
  BY <1>1, <1>4 DEF PulledSound, FoundSound, ResultsSound, FinallyPlaces
<1>7. ActionSound' /\ ManifestSound'
  BY <1>1, <1>4 DEF ActionSound, Policy, ManifestSound
<1>8. SamplerSound'
  BY <1>2, <1>4, PreludeOrder DEF SamplerSound, BeforeSampling, BeforeLaunch
<1> QED BY <1>2, <1>3, <1>5, <1>6, <1>7, <1>8

\* The handler's last command.
LEMMA HandlerCapturesEndKeepsInv == Inv /\ HandlerCapturesEnd => Inv'
<1> SUFFICES ASSUME Inv, HandlerCapturesEnd PROVE Inv' OBVIOUS
<1> USE DEF Inv
<1>1. /\ pc = "except_capture_end" /\ pc' = "cleanup"
      /\ UNCHANGED <<script, logLines, outputs, tries, failed, runStarted, todo, found, results,
                     pulled, interrupts, sampler, stopEvent, rows, lateRows, action, manifest>>
  BY DEF HandlerCapturesEnd, Remote, Goto, podVars, flags, pullVars, samplerVars,
      endVars
<1>2. TypeOK'
  BY <1>1 DEF TypeOK, FinallyPlaces
<1>3. failed
  BY <1>1 DEF FailedSound, ExceptPlaces
<1>4. ScriptSound' /\ MarkerSound' /\ FailedSound'
  BY <1>1, PreludeOrder
  DEF ScriptSound, MarkerSound, FailedSound, BeforeLaunch, Watching, AfterSuccess,
      TryPlaces,
      ExceptPlaces
<1>5. PulledSound' /\ FoundSound' /\ ResultsSound'
  BY <1>1, <1>3 DEF PulledSound, FoundSound, ResultsSound, FinallyPlaces
<1>6. ActionSound' /\ ManifestSound'
  BY <1>1 DEF ActionSound, ManifestSound
<1>7. SamplerSound' /\ LateSound'
  BY <1>1, PreludeOrder
  DEF SamplerSound, LateSound, BeforeSampling, BeforeLaunch, FinallyPlaces
<1> QED BY <1>2, <1>4, <1>5, <1>6, <1>7

\* The finally block: the policy's action, and then the manifest.
LEMMA FinallyKeepsInv == Inv /\ (Cleanup \/ WriteManifest) => Inv'
<1> SUFFICES ASSUME Inv, Cleanup \/ WriteManifest PROVE Inv' OBVIOUS
<1> USE DEF Inv
<1>1. /\ pc \in FinallyPlaces /\ pc' \in {"write_manifest", "end"}
      /\ \/ pc = "cleanup" /\ action' = Policy /\ manifest' = manifest
         \/ /\ pc = "write_manifest" /\ pc' = "end" /\ action' = action
            /\ manifest' \in {NoManifest, [failed |-> failed, results |-> results]}
      /\ UNCHANGED <<script, logLines, outputs, tries, failed, runStarted, todo, found, results,
                     pulled, interrupts, sampler, stopEvent, rows, lateRows>>
  BY DEF Cleanup, WriteManifest, FinallyPlaces, Goto, podVars, flags, pullVars,
      samplerVars
<1>2. pc' \notin TryPlaces /\ pc' \notin ExceptPlaces
  BY <1>1, PreludeOrder DEF TryPlaces, ExceptPlaces
<1>3. TypeOK'
  <2>1. action' \in {"none", OnSuccess, OnFailure}
    BY <1>1 DEF TypeOK, Policy
  <2>2. [failed |-> failed, results |-> results] \in Manifests
    BY DEF TypeOK, Manifests
  <2>3. manifest' \in Manifests \cup {NoManifest}
    BY <1>1, <2>2 DEF TypeOK
  <2> QED BY <1>1, <2>1, <2>3 DEF TypeOK, FinallyPlaces
<1>4. ScriptSound' /\ MarkerSound' /\ FailedSound'
  BY <1>1, <1>2, PreludeOrder
  DEF ScriptSound, MarkerSound, FailedSound, BeforeLaunch, Watching, AfterSuccess
<1>5. PulledSound' /\ FoundSound' /\ ResultsSound'
  BY <1>1 DEF PulledSound, AllPulled, FoundSound, ResultsSound, FinallyPlaces
<1>6. ActionSound'
  BY <1>1 DEF ActionSound, Policy
<1>7. ManifestSound'
  BY <1>1 DEF ManifestSound, FinallyPlaces
<1>8. SamplerSound' /\ LateSound'
  BY <1>1, PreludeOrder
  DEF SamplerSound, LateSound, BeforeSampling, BeforeLaunch, FinallyPlaces
<1> QED BY <1>3, <1>4, <1>5, <1>6, <1>7, <1>8

\* Ctrl-C goes to the finally block or out of it.
LEMMA InterruptKeepsInv == Inv /\ Interrupt => Inv'
<1> SUFFICES ASSUME Inv, Interrupt PROVE Inv' OBVIOUS
<1> USE DEF Inv
<1>1. /\ pc # "end"
      /\ pc' = IF pc \in FinallyPlaces THEN "end" ELSE "cleanup"
      /\ action' = action \/ (pc = "cleanup" /\ action' = Policy)
      /\ UNCHANGED <<script, logLines, outputs, tries, failed, runStarted, todo, found, results,
                     pulled, sampler, stopEvent, rows, lateRows, manifest>>
  BY DEF Interrupt, Goto, podVars, flags, pullVars, samplerVars
<1>2. interrupts' \in 1 .. MaxInterrupts
  BY BoundAssumption DEF Interrupt, TypeOK
<1>3. pc' \in {"cleanup", "end"} /\ pc' \notin TryPlaces /\ pc' \notin ExceptPlaces
  BY <1>1, PreludeOrder DEF TryPlaces, ExceptPlaces
<1>4. TypeOK'
  <2>1. action' \in {"none", OnSuccess, OnFailure}
    BY <1>1 DEF TypeOK, Policy
  <2>2. interrupts' \in 0 .. MaxInterrupts
    BY <1>2
  <2> QED BY <1>1, <1>3, <2>1, <2>2 DEF TypeOK, FinallyPlaces
<1>5. ScriptSound' /\ MarkerSound' /\ FailedSound'
  BY <1>1, <1>3, PreludeOrder
  DEF ScriptSound, MarkerSound, FailedSound, BeforeLaunch, Watching, AfterSuccess
<1>6. PulledSound' /\ FoundSound' /\ ResultsSound'
  BY <1>2, <1>3 DEF PulledSound, FoundSound, ResultsSound
<1>7. ActionSound'
  BY <1>1, <1>3 DEF ActionSound, Policy, FinallyPlaces
<1>8. ManifestSound'
  BY <1>1 DEF ManifestSound
<1>9. SamplerSound' /\ LateSound'
  BY <1>1, <1>2, <1>3, PreludeOrder
  DEF SamplerSound, LateSound, BeforeSampling, BeforeLaunch
<1> QED BY <1>4, <1>5, <1>6, <1>7, <1>8, <1>9

-----------------------------------------------------------------------------

\* A step in which nothing happens.
LEMMA StutterKeepsInv == Inv /\ UNCHANGED vars => Inv'
  BY DEF vars, Inv, TypeOK, ScriptSound, MarkerSound, AllWritten, FailedSound,
      PulledSound,
     AllPulled, ActionSound, Policy, FoundSound, ResultsSound, ManifestSound,
     SamplerSound,
     LateSound

LEMMA StepKeepsInv == Inv /\ [Next]_vars => Inv'
<1> SUFFICES ASSUME Inv, [Next]_vars PROVE Inv' OBVIOUS
<1>1. CASE Orchestrator
  BY <1>1, AheadKeepsInv, StartSamplingKeepsInv, StopSamplingKeepsInv,
      CaptureEndKeepsInv,
     PullStepKeepsInv, PullRaisesKeepsInv, PullEndsKeepsInv, HandleExceptionKeepsInv,
     HandlerCapturesEndKeepsInv, FinallyKeepsInv
  DEF Orchestrator, Ahead
<1> QED BY <1>1, ScriptKeepsInv, SamplerKeepsInv, InterruptKeepsInv, StutterKeepsInv
  DEF Next

THEOREM Invariance == Spec => []Inv
  BY Initially, StepKeepsInv, PTL DEF Spec

\* Every variable of RunJob keeps its type, for every set of artifacts, every
\* policy and every bound.
THEOREM TypeCorrectness == Spec => []TypeOK
<1>1. Inv => TypeOK
  BY DEF Inv
<1> QED BY <1>1, Invariance, PTL

\* run_job takes the success action only with this run's required artifacts on
\* disk, whatever an earlier run left on the pod.  When both outcomes take the
\* same action, the action says nothing.
THEOREM SuccessMeansResults ==
    ASSUME OnSuccess # OnFailure
    PROVE  Spec => []SuccessActionMeansResults
<1>1. Inv => SuccessActionMeansResults
  <2> SUFFICES ASSUME Inv, action = OnSuccess, interrupts = 0 PROVE AllPulled
    BY DEF SuccessActionMeansResults, AllPulled
  <2>1. action # "none"
    BY PolicyAssumption
  <2>2. pc \in {"write_manifest", "end"} /\ action = Policy
    BY <2>1 DEF Inv, ActionSound
  <2>3. ~failed
    BY <2>2 DEF Policy
  <2> QED BY <2>2, <2>3 DEF Inv, PulledSound, FinallyPlaces
<1> QED BY <1>1, Invariance, PTL

\* The manifest accounts for every artifact once the script was seen to start,
\* whichever pull raised, in the try block or in the handler.
THEOREM ManifestCovers == Spec => []ManifestCoversArtifacts
<1>1. Inv => ManifestCoversArtifacts
  BY DEF Inv, ManifestSound, ResultsSound, ManifestCoversArtifacts
<1> QED BY <1>1, Invariance, PTL

\* cleanup_pod never finds a sampler that was not told to stop, unless somebody
\* interrupted the run.
THEOREM SamplerTold == Spec => []SamplerToldToStop
<1>1. Inv => SamplerToldToStop
  BY DEF Inv, SamplerSound, SamplerToldToStop, Over
<1> QED BY <1>1, Invariance, PTL

\* A sampler that outlives the ten-second join writes one row more at most.
THEOREM LateRowsBounded == Spec => []AtMostOneLateRow
<1>1. Inv => AtMostOneLateRow
  BY DEF Inv, LateSound, AtMostOneLateRow
<1> QED BY <1>1, Invariance, PTL

-----------------------------------------------------------------------------
(***************************************************************************)
(* The steps a run has left.                                               *)
(***************************************************************************)

\* How often the loops of run_job have gone round at each of their places.
TriesSound ==
    /\ pc = "connect" => tries < SshAttempts
    /\ pc = "launch" => tries = 0
    /\ pc = "probe" => tries < LogProbes
    /\ pc = "monitor" => tries <= Polls
    /\ pc = "sleep" => tries < Polls

\* run_job goes on, by a statement or by Ctrl-C.
Moves == Orchestrator \/ Interrupt

\* The script and the sampler leave run_job where it is.
LEMMA OthersLeave == (Script \/ Sampler) => UNCHANGED <<pc, tries, todo>>
  BY DEF Script, ScriptBegins, ScriptWrites, ScriptSucceeds, ScriptFails,
      LocalUnchanged,
    Sampler, SampleRow, WaitForInterval, SamplerDies, MainUnchanged, pullVars

\* The counter of each loop is the loop's own: no loop inherits another's count.
LEMMA TriesStep == TypeOK /\ TriesSound /\ [Next]_vars => TriesSound'
<1> SUFFICES ASSUME TypeOK, TriesSound, [Next]_vars PROVE TriesSound'
  OBVIOUS
<1>0. tries \in Nat /\ SshAttempts \in Nat \ {0} /\ LogProbes \in Nat \ {0} /\ Polls \in Nat
  BY BoundAssumption DEF TypeOK
<1> USE DEF TriesSound, Goto, Raise, flags
<1>1. CASE Connect
  BY <1>0, <1>1 DEF Connect
<1>2. CASE DoPhase
  BY <1>0, <1>2, PreludeOrder DEF DoPhase
<1>3. CASE \/ PhaseRaises \/ MonitorTimesOut \/ HandleException
           \/ HandlerCapturesEnd \/ Cleanup \/ WriteManifest \/ Interrupt
  BY <1>3
    DEF PhaseRaises, MonitorTimesOut, HandleException, HandlerCapturesEnd, Cleanup,
        WriteManifest, Interrupt, FinallyPlaces
<1>4. CASE Launch
  BY <1>0, <1>4 DEF Launch
<1>5. CASE ProbeLog
  BY <1>0, <1>5 DEF ProbeLog
<1>6. CASE StartSampling
  BY <1>0, <1>6 DEF StartSampling
<1>7. CASE Poll
  BY <1>0, <1>7 DEF Poll
<1>8. CASE Sleep
  BY <1>0, <1>8 DEF Sleep, TimeSpent
<1>9. CASE StopSampling \/ CaptureEnd \/ PullEnds
  BY <1>9 DEF StopSampling, CaptureEnd, PullEnds
<1>10. ASSUME NEW a \in Artifacts, PullSucceeds(a) \/ PullSkips(a) \/ PullRaises(a) PROVE TriesSound'
  BY <1>10 DEF PullSucceeds, PullSkips, PullRaises, Pulling
<1>11. CASE UNCHANGED <<pc, tries, todo>>
  BY <1>11
<1> QED BY <1>1, <1>2, <1>3, <1>4, <1>5, <1>6, <1>7, <1>8, <1>9, <1>10, <1>11,
     OthersLeave
  DEF Next, Orchestrator, vars

\* So the loops keep within their bounds in every behaviour.
LEMMA TriesCorrect == Spec => []TriesSound
<1>1. Init => TriesSound
  BY BoundAssumption DEF Init, TriesSound
<1> QED BY <1>1, TypeCorrectness, TriesStep, PTL DEF Spec

\* What run_job still has to do, as numbers.
LEMMA Numbers ==
    ASSUME TypeOK, TriesSound, IsFiniteSet(Artifacts)
    PROVE  /\ PathLength[pc] \in Nat /\ ConnectsLeft \in Nat /\ ProbesLeft \in Nat
           /\ PollsLeft \in Nat /\ PullsLeft \in Nat
           /\ Cardinality(Artifacts) \in Nat /\ Cardinality(todo) \in Nat
           /\ Cardinality(todo) <= Cardinality(Artifacts)
<1>1. tries \in Nat /\ SshAttempts \in Nat /\ LogProbes \in Nat /\ Polls \in Nat
  BY BoundAssumption DEF TypeOK
<1>2. /\ Cardinality(Artifacts) \in Nat /\ Cardinality(todo) \in Nat
      /\ Cardinality(todo) <= Cardinality(Artifacts)
  BY FS_Subset, FS_CardinalityType DEF TypeOK
<1>3. PathLength[pc] \in Nat
  BY PreludeOrder DEF TypeOK, PathLength, TryPlaces, ExceptPlaces, FinallyPlaces
<1>4. ConnectsLeft \in Nat /\ ProbesLeft \in Nat
  BY <1>1 DEF ConnectsLeft, ProbesLeft, TriesSound
<1>5. PollsLeft \in Nat
  BY <1>1 DEF PollsLeft, TriesSound
<1>6. PullsLeft \in Nat
  BY <1>2 DEF PullsLeft
<1> QED BY <1>2, <1>3, <1>4, <1>5, <1>6

\* An exception skips what is left of the try block.
LEMMA RaiseCloser ==
    ASSUME TypeOK, TriesSound, IsFiniteSet(Artifacts),
           pc \in BeforePull \cup {"pull"}, pc' = "except"
    PROVE  StepsLeft' \in Nat /\ StepsLeft' < StepsLeft
<1>1. StepsLeft' = 5 + Cardinality(Artifacts)
  <2>1. /\ ConnectsLeft' = 0 /\ ProbesLeft' = 0 /\ PollsLeft' = 0
        /\ PullsLeft' = 0 + Cardinality(Artifacts) /\ PathLength[pc'] = 5
    BY PreludeOrder
      DEF ConnectsLeft, ProbesLeft, PollsLeft, PullsLeft, PathLength, BeforePull,
      BeforeMonitor, BeforeProbe
  <2> QED BY <2>1, Numbers DEF StepsLeft
<1>2. PathLength[pc] > 5 /\ PullsLeft >= Cardinality(Artifacts)
  <2>1. PathLength[pc] > 5
    BY PreludeOrder DEF PathLength, BeforePull, BeforeMonitor, BeforeProbe
  <2>2. PullsLeft >= Cardinality(Artifacts)
    BY Numbers DEF PullsLeft
  <2> QED BY <2>1, <2>2
<1> QED BY <1>1, <1>2, Numbers DEF StepsLeft

\* Every step of run_job has fewer steps left, one case per action.
LEMMA MovesCloser ==
    ASSUME TypeOK, TriesSound, IsFiniteSet(Artifacts), Moves
    PROVE  StepsLeft' \in Nat /\ StepsLeft' < StepsLeft
<1> DEFINE A == Cardinality(Artifacts)
<1> DEFINE Closer == StepsLeft' \in Nat /\ StepsLeft' < StepsLeft
<1>0. /\ tries \in Nat /\ SshAttempts \in Nat /\ LogProbes \in Nat /\ Polls \in Nat
      /\ A \in Nat /\ Cardinality(todo) \in Nat
  BY Numbers, BoundAssumption DEF TypeOK
<1> HIDE DEF A
<1> USE PreludeOrder DEF Goto, TriesSound
<1>r. CASE pc \in BeforePull \cup {"pull"} /\ pc' = "except"
  BY <1>r, RaiseCloser
<1> USE DEF A, StepsLeft, ConnectsLeft, ProbesLeft, PollsLeft, PullsLeft, PathLength,
            BeforePull, BeforeMonitor, BeforeProbe
<1>1. CASE Connect /\ pc' # "except"
  BY <1>0, <1>1 DEF Connect, Raise
<1>2. CASE DoPhase
  BY <1>0, <1>2 DEF DoPhase, Following
<1>3. CASE Launch /\ pc' # "except"
  BY <1>0, <1>3 DEF Launch, Raise
<1>4. CASE ProbeLog /\ pc' # "except"
  BY <1>0, <1>4 DEF ProbeLog, Raise
<1>5. CASE StartSampling
  BY <1>0, <1>5 DEF StartSampling
<1>6. CASE Poll /\ pc' # "except"
  BY <1>0, <1>6 DEF Poll, Raise
<1>7. CASE Sleep
  BY <1>0, <1>7 DEF Sleep, TimeSpent
<1>8. CASE StopSampling
  BY <1>0, <1>8 DEF StopSampling
<1>9. CASE CaptureEnd
  BY <1>0, <1>9 DEF CaptureEnd, BeginPull
<1>10. ASSUME NEW a \in Artifacts, PullSucceeds(a) \/ PullSkips(a) PROVE Closer
  <2>1. IsFiniteSet(todo)
    BY FS_Subset DEF TypeOK
  <2>2. Cardinality(todo') = Cardinality(todo) - 1
    BY <1>10, <2>1, FS_RemoveElement DEF PullSucceeds, PullSkips
  <2>3. Cardinality(todo') \in Nat
    BY <1>10, <2>1, FS_RemoveElement, FS_CardinalityType DEF PullSucceeds, PullSkips
  <2>4. pc' = pc /\ tries' = tries /\ pc \in {"pull", "except_pull"}
    BY <1>10 DEF PullSucceeds, PullSkips, Pulling
  <2> QED BY <1>0, <2>2, <2>3, <2>4
<1>11. CASE (\E a \in Artifacts : PullRaises(a)) /\ pc # "pull"
  BY <1>0, <1>11 DEF PullRaises, Pulling
<1>12. CASE PullEnds
  BY <1>0, <1>12 DEF PullEnds, Pulling
<1>13. CASE HandleException
  BY <1>0, <1>13 DEF HandleException, BeginPull
<1>14. CASE HandlerCapturesEnd \/ Cleanup \/ WriteManifest
  BY <1>0, <1>14 DEF HandlerCapturesEnd, Cleanup, WriteManifest
<1>15. CASE Interrupt
  <2>1. PathLength[pc] > PathLength[pc'] /\ pc' \in {"cleanup", "end"}
    BY <1>15 DEF Interrupt, TypeOK, TryPlaces, ExceptPlaces, FinallyPlaces
  <2>2. StepsLeft' = PathLength[pc'] /\ PathLength[pc'] \in Nat
    BY <2>1
  <2> QED BY <2>1, <2>2, Numbers
<1> HIDE DEF A, StepsLeft, ConnectsLeft, ProbesLeft, PollsLeft, PullsLeft, PathLength
<1> QED
  BY <1>r, <1>1, <1>2, <1>3, <1>4, <1>5, <1>6, <1>7, <1>8, <1>9, <1>10, <1>11,
      <1>12, <1>13, <1>14, <1>15
  DEF Moves, Orchestrator, PhaseRaises, MonitorTimesOut, Raise, Connect, Launch,
      ProbeLog,
      Poll, PullRaises

\* What is left is a number.
LEMMA StepsCount ==
    ASSUME TypeOK, TriesSound, IsFiniteSet(Artifacts)
    PROVE  StepsLeft \in Nat
BY Numbers DEF StepsLeft

\* Any step is one of run_job or leaves it where it is ...
LEMMA MovesOrStays == [Next]_vars => Moves \/ UNCHANGED <<pc, tries, todo>>
BY OthersLeave DEF Next, Moves, vars

\* ... and as far from its end as it was.
LEMMA StaysAsFar ==
    ASSUME UNCHANGED <<pc, tries, todo>>
    PROVE  StepsLeft' = StepsLeft
BY DEF StepsLeft, ConnectsLeft, ProbesLeft, PollsLeft, PullsLeft

\* run_job takes a number of steps that its bounds fix beforehand, whatever the
\* pod, the script, the sampler and Ctrl-C do: no loop starts over and no handler
\* goes back.  That the run ends follows as soon as its steps are taken.
THEOREM BoundedSteps ==
    ASSUME IsFiniteSet(Artifacts)
    PROVE  Spec => EndsInBoundedSteps
<1> DEFINE Fewer == /\ StepsLeft' \in 0 .. StepsLeft
                    /\ Orchestrator \/ Interrupt => StepsLeft' < StepsLeft
<1>1. TypeOK /\ TriesSound /\ [Next]_vars => [Fewer]_vars
  <2> SUFFICES ASSUME TypeOK, TriesSound, [Next]_vars, vars' # vars PROVE Fewer
    OBVIOUS
  <2>1. StepsLeft \in Nat
    BY StepsCount
  <2>2. CASE Moves
    <3>1. StepsLeft' \in Nat /\ StepsLeft' < StepsLeft
      BY <2>2, MovesCloser
    <3>2. StepsLeft' \in 0 .. StepsLeft
      BY <2>1, <3>1
    <3> QED BY <3>1, <3>2
  <2>3. CASE ~Moves
    <3>1. StepsLeft' = StepsLeft
      BY <2>3, MovesOrStays, StaysAsFar
    <3>2. StepsLeft' \in 0 .. StepsLeft
      BY <2>1, <3>1
    <3> QED BY <2>3, <3>2 DEF Moves
  <2> QED BY <2>2, <2>3
<1> QED BY <1>1, TypeCorrectness, TriesCorrect, PTL DEF Spec, EndsInBoundedSteps
=============================================================================
