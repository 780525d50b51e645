------------------------ MODULE JobRefinementProofs ------------------------
(***************************************************************************)
(* RunJob implements JobContract, for every set of artifacts, every policy *)
(* and every bound.  Each step of RunJob is sorted by what the contract    *)
(* can see of it; then each sort is a step of the contract or none.  What  *)
(* the contract amounts to is proved of it and so holds of RunJob.         *)
(***************************************************************************)
EXTENDS JobRefinement, RunJobProofs

\* What is here of this run is also on the pod, and nobody has interrupted a job
\* that is still at work.
Fresh == \A a \in Artifacts : pulled[a] = "this" => outputs[a] = "this"
Quiet == Working => interrupts = 0

JobInv == Inv /\ Fresh /\ Quiet

\* The sorts of steps.
SameRecord == UNCHANGED <<interrupts, action, manifest>>

WorksOn ==
    /\ SameRecord /\ pulled' = pulled
    /\ \/ UNCHANGED <<pc, failed>>
       \/ Working /\ Working'

Fetches(a) ==
    /\ SameRecord /\ UNCHANGED <<pc, failed, outputs>>
    /\ Working
    /\ pulled' = [pulled EXCEPT ![a] = outputs[a]]

ComesToAnEnd ==
    /\ SameRecord /\ UNCHANGED <<pulled, failed>>
    /\ Working /\ pc' = "cleanup"
    /\ failed \/ Required \subseteq Fetched

-----------------------------------------------------------------------------

\* The places of the work, and those that are none of it.
LEMMA Places ==
    /\ Working <=> pc \in TryPlaces \cup ExceptPlaces
    /\ TryPlaces \cup ExceptPlaces =
         {"capture_start", "setup", "secrets", "push", "preflight", "create_script",
          "clear_log", "connect", "launch", "probe", "start_sampling", "monitor", "sleep",
          "stop_sampling", "capture_end", "pull", "except", "except_pull",
          "except_capture_end"}
  BY PreludeOrder DEF Working, TryPlaces, ExceptPlaces

\* What the orchestrator does on the way to the end of its work.
LEMMA OrchestratorSorts ==
    ASSUME Inv, Orchestrator, ~Cleanup, ~WriteManifest
    PROVE  WorksOn \/ (\E a \in Artifacts : Fetches(a)) \/ ComesToAnEnd
<1> USE Places
<1>1. CASE Ahead
  <2>1. /\ pc \in Prelude \cup {"connect", "launch", "probe", "monitor", "sleep"}
        /\ pc' = "except" \/ pc' \in TryPlaces
        /\ Remote
    BY <1>1, AheadMoves DEF Raise, Goto
  <2>2. Working /\ Working'
    BY <2>1, PreludeOrder DEF Working, TryPlaces, ExceptPlaces
  <2> QED BY <2>1, <2>2 DEF Remote, WorksOn, SameRecord, pullVars, endVars
<1>2. CASE StartSampling \/ StopSampling \/ CaptureEnd
  <2>1. pc \in {"start_sampling", "stop_sampling", "capture_end"}
    BY <1>2 DEF StartSampling, StopSampling, CaptureEnd
  <2>2. pc' \in {"monitor", "capture_end", "pull"}
    BY <1>2 DEF StartSampling, StopSampling, CaptureEnd, Goto
  <2>3. SameRecord /\ pulled' = pulled
    BY <1>2 DEF StartSampling, StopSampling, CaptureEnd, SameRecord, pullVars, endVars
  <2> QED BY <2>1, <2>2, <2>3 DEF WorksOn, Working
<1>3. ASSUME NEW a \in Artifacts, PullSucceeds(a) PROVE Fetches(a)
  BY <1>3 DEF PullSucceeds, Pulling, Fetches, SameRecord, podVars, flags, endVars
<1>4. ASSUME NEW a \in Artifacts, PullSkips(a) PROVE WorksOn
  BY <1>4 DEF PullSkips, WorksOn, SameRecord, flags, endVars
<1>5. ASSUME NEW a \in Artifacts, PullRaises(a) PROVE WorksOn
  <2>1. pc \in {"pull", "except_pull"} /\ pc' \in {"except", "except_capture_end"}
    BY <1>5 DEF PullRaises, Pulling, Raise, Goto
  <2>2. SameRecord /\ pulled' = pulled
    BY <1>5 DEF PullRaises, SameRecord, pullVars, endVars
  <2> QED BY <2>1, <2>2 DEF WorksOn, Working
<1>6. CASE PullEnds
  <2>1. /\ pc \in {"pull", "except_pull"} /\ todo = {}
        /\ pc' = IF pc = "pull" THEN "cleanup" ELSE "except_capture_end"
        /\ SameRecord /\ UNCHANGED <<pulled, failed>>
    BY <1>6 DEF PullEnds, Pulling, Goto, SameRecord, flags, endVars
  <2>2. CASE pc = "pull"
    <3>1. Required \subseteq Fetched
      BY <2>1, <2>2, ArtifactAssumption DEF Inv, PulledSound, Fetched
    <3> QED BY <2>1, <2>2, <3>1 DEF ComesToAnEnd
  <2>3. CASE pc = "except_pull"
    BY <2>1, <2>3 DEF WorksOn, Working
  <2> QED BY <2>1, <2>2, <2>3
<1>7. CASE HandleException \/ HandlerCapturesEnd
  <2>1. /\ pc \in {"except", "except_capture_end"} /\ pc' \in {"except_pull", "cleanup"}
        /\ SameRecord /\ UNCHANGED <<pulled, failed>>
    BY <1>7 DEF HandleException, HandlerCapturesEnd, Goto, Remote, SameRecord, flags, pullVars,
                endVars
  <2>2. failed
    BY <2>1 DEF Inv, FailedSound, ExceptPlaces
  <2> QED BY <2>1, <2>2 DEF WorksOn, ComesToAnEnd, Working
<1> QED BY <1>1, <1>2, <1>3, <1>4, <1>5, <1>6, <1>7 DEF Orchestrator, Ahead

\* The script and the sampler do nothing the contract can see, and only the
\* script writes the outputs.
LEMMA OthersSort == (Script \/ Sampler) => WorksOn
<1>1. Script => LocalUnchanged
  BY DEF Script, ScriptBegins, ScriptWrites, ScriptSucceeds, ScriptFails
<1>2. Sampler => MainUnchanged
  BY DEF Sampler, SampleRow, WaitForInterval, SamplerDies
<1> QED BY <1>1, <1>2
        DEF LocalUnchanged, MainUnchanged, WorksOn, SameRecord, flags, pullVars, endVars

\* Outputs only become this run's.
LEMMA OutputsGrow ==
    ASSUME Inv, [Next]_vars
    PROVE  \A a \in Artifacts : outputs[a] = "this" => outputs'[a] = "this"
<1>1. CASE Script
  BY <1>1 DEF Script, ScriptBegins, ScriptWrites, ScriptSucceeds, ScriptFails, Inv, TypeOK
<1>2. CASE Orchestrator
  <2>1. CASE Ahead
    BY <2>1, AheadMoves
  <2>2. CASE ~Ahead
    BY <1>2, <2>2
    DEF Orchestrator, Ahead, StartSampling, StopSampling, CaptureEnd, PullSucceeds, PullSkips,
        PullRaises, PullEnds, HandleException, HandlerCapturesEnd, Cleanup, WriteManifest, podVars
  <2> QED BY <2>1, <2>2
<1>3. CASE Interrupt \/ Sampler \/ UNCHANGED vars
  BY <1>3 DEF Interrupt, Sampler, SampleRow, WaitForInterval, SamplerDies, MainUnchanged,
              podVars, vars
<1> QED BY <1>1, <1>2, <1>3 DEF Next

-----------------------------------------------------------------------------

\* Every step is of one sort, the end of the run's or Ctrl-C.
LEMMA Sorts ==
    ASSUME Inv, [Next]_vars
    PROVE  \/ WorksOn \/ (\E a \in Artifacts : Fetches(a)) \/ ComesToAnEnd
           \/ Cleanup \/ WriteManifest \/ Interrupt
<1>1. UNCHANGED vars => WorksOn
  BY DEF vars, WorksOn, SameRecord
<1> QED BY <1>1, OrchestratorSorts, OthersSort DEF Next

LEMMA JobInvStep == JobInv /\ [Next]_vars => JobInv'
<1> SUFFICES ASSUME JobInv, [Next]_vars PROVE Fresh' /\ Quiet'
  BY StepKeepsInv DEF JobInv
<1> USE Places DEF JobInv
<1>0. \A a \in Artifacts : outputs[a] = "this" => outputs'[a] = "this"
  BY OutputsGrow
<1>1. CASE WorksOn
  BY <1>0, <1>1 DEF WorksOn, SameRecord, Fresh, Quiet, Working
<1>2. ASSUME NEW a \in Artifacts, Fetches(a) PROVE Fresh' /\ Quiet'
  <2>1. \A b \in Artifacts : pulled'[b] \in {pulled[b], outputs[b]}
    BY <1>2 DEF Fetches, Inv, TypeOK
  <2> QED BY <1>2, <2>1 DEF Fetches, SameRecord, Fresh, Quiet, Working
<1>3. CASE ComesToAnEnd
  BY <1>0, <1>3 DEF ComesToAnEnd, Fresh, Quiet, Working
<1>4. CASE Cleanup \/ WriteManifest \/ Interrupt
  <2>1. pulled' = pulled
    BY <1>4 DEF Cleanup, WriteManifest, Interrupt, pullVars
  <2>2. pc' \in {"cleanup", "write_manifest", "end"}
    BY <1>4 DEF Cleanup, WriteManifest, Interrupt, Goto
  <2> QED BY <1>0, <2>1, <2>2 DEF Fresh, Quiet, Working
<1> QED BY <1>1, <1>2, <1>3, <1>4, Sorts

\* RunJob starts where the contract does.
LEMMA JobBegins == Init => JobInv /\ Job!Init
<1> SUFFICES ASSUME Init PROVE JobInv /\ Job!Init
  OBVIOUS
<1>1. /\ pc = "connect" /\ interrupts = 0 /\ failed = FALSE /\ action = "none"
      /\ manifest = NoManifest
      /\ \A a \in Artifacts : pulled[a] = "none"
  BY DEF Init, Everywhere
<1>2. Working
  BY <1>1, Places
<1>3. JobInv
  BY <1>1, Initially DEF JobInv, Fresh, Quiet
<1>4. Fetched = {}
  BY <1>1 DEF Fetched
<1> QED BY <1>1, <1>2, <1>3, <1>4 DEF Job!Init, StageOf, VerdictOf, ReportOf

\* Every step of RunJob is one of the contract, or does nothing it can see.
LEMMA JobSteps == JobInv /\ [Next]_vars => [Job!Next]_(Job!vars)
<1> SUFFICES ASSUME JobInv, [Next]_vars PROVE Job!Next \/ UNCHANGED Job!vars
  OBVIOUS
<1> USE Places DEF JobInv
<1>1. CASE WorksOn
  <2>1. Working' <=> Working
    BY <1>1 DEF WorksOn, Working
  <2>2. StageOf' = StageOf /\ VerdictOf' = VerdictOf
    BY <1>1, <2>1 DEF WorksOn, SameRecord, StageOf, VerdictOf, Says
  <2>3. Fetched' = Fetched /\ ReportOf' = ReportOf /\ action' = action
    BY <1>1 DEF WorksOn, SameRecord, Fetched, ReportOf, Says
  <2> QED BY <2>2, <2>3 DEF Job!vars
<1>2. ASSUME NEW a \in Artifacts, Fetches(a) PROVE Job!Next \/ UNCHANGED Job!vars
  <2>1. StageOf' = StageOf /\ VerdictOf' = VerdictOf /\ ReportOf' = ReportOf /\ action' = action
    BY <1>2 DEF Fetches, SameRecord, StageOf, VerdictOf, ReportOf, Says, Working
  <2>2. StageOf = "working"
    BY <1>2 DEF Fetches, StageOf
  <2>3. /\ pulled'[a] = outputs[a]
        /\ \A b \in Artifacts \ {a} : pulled'[b] = pulled[b]
    BY <1>2 DEF Fetches, Inv, TypeOK
  <2>4. CASE outputs[a] = "this"
    <3>1. Fetched' = Fetched \cup {a}
      BY <2>3, <2>4 DEF Fetched
    <3> QED BY <2>1, <2>2, <3>1 DEF Job!Next, Job!Fetch
  <2>5. CASE outputs[a] # "this"
    <3>1. pulled[a] # "this"
      BY <2>5 DEF Fresh
    <3>2. Fetched' = Fetched
      BY <2>3, <2>5, <3>1 DEF Fetched
    <3> QED BY <2>1, <3>2 DEF Job!vars
  <2> QED BY <2>4, <2>5
<1>3. CASE ComesToAnEnd
  <2>1. /\ StageOf = "working" /\ StageOf' = "releasing"
        /\ Fetched' = Fetched /\ ReportOf' = ReportOf /\ action' = action
    BY <1>3 DEF ComesToAnEnd, SameRecord, StageOf, Fetched, ReportOf, Says, Working
  <2>2. VerdictOf' = Says(failed)
    BY <1>3 DEF ComesToAnEnd, SameRecord, VerdictOf, Quiet, Says, Working
  <2>3. CASE failed
    BY <2>1, <2>2, <2>3 DEF Job!Next, Job!Fail, Job!Ends, Says
  <2>4. CASE ~failed
    <3>1. Required \subseteq Fetched
      BY <1>3, <2>4 DEF ComesToAnEnd
    <3> QED BY <2>1, <2>2, <2>4, <3>1 DEF Job!Next, Job!Succeed, Job!Ends, Says
  <2> QED BY <2>3, <2>4
<1>4. Policy \in Job!ActionsFor[VerdictOf] \/ Working
  BY DEF Policy, VerdictOf, Says, Job!ActionsFor
<1>5. CASE Cleanup
  <2>1. /\ StageOf = "releasing" /\ StageOf' \in {"recording", "over"}
        /\ VerdictOf' = VerdictOf /\ Fetched' = Fetched /\ ReportOf' = ReportOf
    BY <1>5 DEF Cleanup, Goto, StageOf, VerdictOf, Fetched, ReportOf, Says, Working, flags,
                pullVars
  <2>2. action' = Policy /\ ~Working
    BY <1>5 DEF Cleanup
  <2> QED BY <1>4, <2>1, <2>2 DEF Job!Next, Job!Release
<1>6. CASE WriteManifest
  <2>1. /\ StageOf = "recording" /\ StageOf' = "over"
        /\ VerdictOf' = VerdictOf /\ Fetched' = Fetched /\ action' = action
    BY <1>6 DEF WriteManifest, Goto, StageOf, VerdictOf, Fetched, Says, Working, flags, pullVars
  <2>2. ReportOf' \in {"none", Says(failed)}
    BY <1>6 DEF WriteManifest, ReportOf, Says
  <2>3. Says(failed) \in Job!ReportsFor[VerdictOf]
    BY <1>6 DEF WriteManifest, Says, VerdictOf, Working, Job!ReportsFor
  <2> QED BY <2>1, <2>2, <2>3 DEF Job!Next, Job!Record
<1>7. CASE Interrupt
  <2>1. /\ Fetched' = Fetched /\ ReportOf' = ReportOf /\ failed' = failed
        /\ interrupts' > 0 /\ pc # "end"
        /\ pc' = IF pc \in FinallyPlaces THEN "end" ELSE "cleanup"
        /\ action' = action \/ (pc = "cleanup" /\ action' = Policy)
    <3>1. interrupts' > 0
      BY <1>7, BoundAssumption DEF Interrupt, Inv, TypeOK
    <3> QED BY <1>7, <3>1 DEF Interrupt, Goto, Fetched, ReportOf, Says, flags, pullVars
  <2>2. VerdictOf' = "interrupted"
    BY <2>1 DEF VerdictOf, Working, FinallyPlaces
  <2>3. CASE Working
    <3>1. StageOf = "working" /\ StageOf' = "releasing" /\ action' = action
      BY <2>1, <2>3 DEF StageOf, Working, FinallyPlaces
    <3> QED BY <2>1, <2>2, <3>1 DEF Job!Next, Job!Interrupt, Job!Ends
  <2>4. CASE ~Working
    <3>1. pc \in FinallyPlaces
      BY <2>1, <2>4 DEF Inv, TypeOK
    <3>2. /\ StageOf \in {"releasing", "recording"} /\ StageOf' = "over"
          /\ action' = action \/ (StageOf = "releasing" /\ action' = Policy)
      BY <2>1, <2>4, <3>1 DEF StageOf, Working, FinallyPlaces
    <3> QED BY <1>4, <2>1, <2>2, <2>4, <3>2 DEF Job!Next, Job!Interrupt
  <2> QED BY <2>3, <2>4
<1> QED BY <1>1, <1>2, <1>3, <1>5, <1>6, <1>7, Sorts

\* run_job keeps JobContract, wherever it raises or is interrupted, whatever log
\* and outputs an earlier run left on the pod.
THEOREM JobRefines == Spec => HonoursJobContract
<1>1. Spec => []JobInv
  BY JobBegins, JobInvStep, PTL DEF Spec
<1> QED BY <1>1, JobBegins, JobSteps, PTL DEF Spec, Job!Spec, HonoursJobContract

-----------------------------------------------------------------------------

\* At which stages of the contract what has been settled.
SettledByStage ==
    LET told == /\ action \in Job!ActionsFor[VerdictOf]
                /\ ReportOf \in {"none"} \cup Job!ReportsFor[VerdictOf]
    IN  /\ VerdictOf \in {"none", "success", "failure", "interrupted"}
        /\ VerdictOf = "success" => Required \subseteq Fetched
        /\ StageOf = "working" <=> VerdictOf = "none"
        /\ StageOf \in {"working", "releasing"} => action = "none"
        /\ StageOf \in {"working", "releasing", "recording"} => ReportOf = "none"
        /\ StageOf = "recording" => action \in Job!ActionsFor[VerdictOf]
        /\ StageOf = "over" /\ ReportOf # "none" => told

\* Every step of the contract settles only what was open.
LEMMA SettlesInOrder ==
    SettledByStage /\ [Job!Next]_(Job!vars) => SettledByStage'
<1> SUFFICES ASSUME SettledByStage, [Job!Next]_(Job!vars) PROVE SettledByStage'
  OBVIOUS
<1> USE DEF SettledByStage, Job!ActionsFor, Job!ReportsFor
<1>1. ASSUME NEW a \in Artifacts, Job!Fetch(a) PROVE SettledByStage'
  BY <1>1 DEF Job!Fetch
<1>2. CASE Job!Succeed
  BY <1>2 DEF Job!Succeed, Job!Ends
<1>3. CASE Job!Fail
  BY <1>3 DEF Job!Fail, Job!Ends
<1>4. CASE Job!Release
  BY <1>4 DEF Job!Release
<1>5. CASE Job!Record
  BY <1>5 DEF Job!Record
<1>6. CASE Job!Interrupt
  BY <1>6 DEF Job!Interrupt, Job!Ends
<1>7. CASE UNCHANGED Job!vars
  BY <1>7 DEF Job!vars
<1> QED BY <1>1, <1>2, <1>3, <1>4, <1>5, <1>6, <1>7 DEF Job!Next

\* So in every behaviour of the contract.
LEMMA SettledCorrect == Job!Spec => []SettledByStage
<1>1. Job!Init => SettledByStage
  BY DEF Job!Init, SettledByStage
<1> QED BY <1>1, SettlesInOrder, PTL DEF Job!Spec

\* The manifest and the pod never contradict each other, whatever raised in
\* run_job: uninterrupted, the pod meets the policy of the verdict that the
\* manifest states, and with a success the required artifacts are there.
THEOREM TellsOneStory == Spec => []Job!OneStory
<1>1. SettledByStage => Job!OneStory
  BY DEF SettledByStage, Job!OneStory, StageOf, VerdictOf, Says, Job!ActionsFor,
    Job!ReportsFor
<1> QED BY <1>1, JobRefines, SettledCorrect, PTL DEF HonoursJobContract

\* Neither the handler nor the finally block of run_job takes back what was
\* settled before: a verdict, the pod's fate, the manifest, or a result fetched.
THEOREM TellsItOnce == Spec => Job!ToldOnce
<1> DEFINE Once ==
      /\ Fetched \subseteq Fetched'
      /\ VerdictOf # "none" => VerdictOf' \in {VerdictOf, "interrupted"}
      /\ action # "none" => action' = action
      /\ ReportOf # "none" => ReportOf' = ReportOf
<1>1. SettledByStage /\ [Job!Next]_(Job!vars) => [Once]_(Job!vars)
  <2> SUFFICES ASSUME SettledByStage, Job!Next PROVE Once
    OBVIOUS
  <2> USE DEF SettledByStage
  <2>1. ASSUME NEW a \in Artifacts, Job!Fetch(a) PROVE Once
    BY <2>1 DEF Job!Fetch
  <2>2. CASE Job!Succeed \/ Job!Fail
    BY <2>2 DEF Job!Succeed, Job!Fail, Job!Ends
  <2>3. CASE Job!Release \/ Job!Record
    BY <2>3 DEF Job!Release, Job!Record
  <2>4. CASE Job!Interrupt
    BY <2>4 DEF Job!Interrupt, Job!Ends
  <2> QED BY <2>1, <2>2, <2>3, <2>4 DEF Job!Next
<1> QED BY <1>1, JobRefines, SettledCorrect, PTL
  DEF HonoursJobContract, Job!Spec, Job!ToldOnce
=============================================================================
