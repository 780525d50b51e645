# runpod-deploy in TLA+

`runpod-deploy` takes a YAML file that describes one GPU job, creates a pod on
RunPod (or resumes a paused one), stages the code, launches the job, watches
its log, pulls the artifacts and gives the pod up again. This directory holds
TLA+ modules translated from its source, the TLC runs that check them on small
instances, and proofs that TLAPS checks for every instance.

Paths below are relative to `src/src/runpod_deploy/`.

## 1. The system

Everything happens inside one invocation of the command line: a Python process
with one main thread and, during a job, one sampler thread. Invocations share
three things and lock none of them: the pods of the RunPod account (through the
`runpodctl` program), the *state file* (`~/.runpod-deploy-current` unless the
config names another) and the price cache.

| component | state it keeps | operations |
|---|---|---|
| pod lifecycle: `provider.py`, parts of `orchestrator.py` and `cli.py` | pods on RunPod; the state file `{pod_id, gpu_id, image, datacenter_id}` | `provision_pod`, `_wait_for_pod_ready`, `try_resume_pod`, `_force_fresh_delete_stale`, `_provision_with_optional_fallback`, `cleanup_pod` (preserve, stop, delete, recycle), `cleanup --state-file`, `cleanup --all-stopped` |
| run orchestration: `orchestrator.py` | `failed`, `run_started`, `artifact_results`; on the pod: script, log, outputs | `run_job` and its phases: ssh, setup, secrets, push, preflight, launch, monitor, pull, handler, cleanup, manifest |
| telemetry: `telemetry.py` | sampler thread, stop event, `events.jsonl`, `metrics.jsonl` | `emit_event`, `capture_start`, `start_sampling`, `stop_sampling`, `capture_end` |
| selection: `provider.py`, `orchestrator.py` | none beyond one call | `select_gpu_across_datacenters`, `resolve_volume`, `_resolve_effective_fallback_cloud_type` |
| stock preflight: `preflight.py` | none | `check_gpu_availability`, `report_gpu_inventory`, scans, image-registry probe |
| prices: `pricing.py` | `prices.json`, a cache with a time to live | `fetch_gpu_prices`, `select_price_for_pod` |
| configuration: `config.py`, `_config_parsers.py` | immutable specs, template variables | `load_job_spec`, `build_job_context`, `render` |
| transport: `transport.py` | none | `ssh_exec`, `ssh_exec_detached`, `rsync_push`, `rsync_pull` |
| manifest: `manifest.py` | the pull manifest | `write_pull_manifest` |
| command line: `cli.py`; readers: `forensics.py`; `metadata.py` | none | `run`, `cleanup`, and read-only commands |

How they interact: the command line calls `run_job`; `run_job` asks selection
for a triple (image, GPU, datacenter), the pod lifecycle for a pod, then drives
the job through transport while the telemetry thread samples over its own ssh
connections, and ends with `cleanup_pod` and the manifest. What an invocation
leaves behind for the next one is the state file and the pods.

What is hard in it:

* *Leaks.* A pod bills until somebody stops or deletes it. Between `pod create`
  and the state file, between the pod and the `try` block, after a lost reply or
  a kill, who still knows the pod?
* *Stale reads.* `pod get` then `pod start`; list, prompt, delete; a pointer read
  and used two calls later; drift judged from a record and not from the pod.
* *Reuse.* A resumed pod carries the log, the success marker and the outputs of
  the run before.
* *Failure order.* Which of handler, cleanup and manifest still run after which
  exception, and what a Ctrl-C skips.
* *Concurrency.* The script goes on whether or not anybody watches; the sampler
  may outlive its join; the timeout races the success marker.

`PROJECT.json` lists every hazard at its line, with the property that watches
it or the reason that none does.

## 2. The modules

| module | what it is |
|---|---|
| `PodLifecycle` | invocations, pods and the state file, call by call |
| `PodContract`, `PodRefinement` | what invocations promise about pods; the mapping under which PodLifecycle implements it |
| `RunJob` | one run on its pod, with the script and the sampler |
| `JobContract`, `JobRefinement` | what a run promises about its job; the mapping under which RunJob implements it |
| `GpuSelection` | preflight, walk, volume, creation on two cloud types |
| `PriceCache`, `RunFiles`, `Workstation` | the price cache; run directories and their readers; both on one machine |
| `MCPodLifecycle`, `MCWorkstation` | commands, symmetry and view of the pod runs; view of the workstation run |
| `*Proofs` | the theorems of section 4 |

### PodLifecycle (with MCPodLifecycle)

Invocations as processes over RunPod's pods and one state file. `pc[i]` is the
next runpodctl call or file access of invocation `i`, so the steps of different
invocations interleave wherever the code can be descheduled between two calls.

| in the model | in the code |
|---|---|
| `status`, `triple` | what `pod get` reports of a pod, and what it was created with |
| `stateFile` | the state file: absent, unreadable (a write torn by a crash), or a pointer |
| `want`, `held`, `seen` | the triple of this run; the `pod_id` in hand; the triple recorded in the file |
| `Start`, `RefuseToStart` | `_cmd_run` / `_cmd_cleanup` up to the first call |
| `ForceFreshRead`, `ForceFreshDelete` | `_force_fresh_delete_stale` |
| `ResumeRead` ... `ResumeUnlink`, `ResumeStart` | `try_resume_pod`, call by call |
| `Create`, `CreateUnacknowledged`, `CreateRefused`, `StockOut` | `provision_pod` and the fallback retry |
| `PodReady`, `PodNotReady`, `Reap` | `_wait_for_pod_ready` and the orphan delete |
| `WriteState`, `WriteStateFails` | the state file write |
| `StartSession`, `StartSessionFails` | `run_job` between the pod and the `try` |
| `JobSucceeds`, `JobFails`, `JobInterrupted` | how the `try` block ends |
| `Cleanup*`, `Sweep*` | `cleanup_pod`, `cleanup --state-file`, `cleanup --all-stopped` |
| `PodDies`, `Crash`, lost and refused replies | the environment |

Abstractions, each on purpose:

* A step is one runpodctl call, or the file accesses between two calls. A state
  file write is one step for other processes; a crash inside it leaves `Torn`.
* A runpodctl call is answered "ok", "refused" (nothing happened) or "lost"
  (it happened, the exit status says otherwise).
* Refusals of legal requests, lost replies, torn writes, evictions and crashes
  are *faults*. They are counted (`MaxFaults`), and the pod they touch is
  remembered in `troubled`, so that a property can say "unless something outside
  the code went wrong with this very pod".
* The triple a run wants is a free choice: GPU selection reads stock and prices
  that change between runs, so the same config may want another triple.
* The prompt of `cleanup --all-stopped` waits for the operator, who may never
  answer.
* The poll loop of `_wait_for_pod_ready` is one choice, ready or not: not ready
  may happen to any pod, whatever its status.
* Not in it: `--dry-run`, state files of the format before recycling, and
  read-only commands.

`MCPodLifecycle` names the sets of commands the runs use, a symmetry (pods,
invocations and triples are interchangeable) and a `View` that drops what no
later step and no checked property reads: locals of ended invocations, locals
about to be overwritten, the history of deleted pods, and `tainted`, which only
`FailedPodNotResumed` reads (its run uses no view).

### PodContract and PodRefinement

`PodContract` forgets the state file and the calls: a client *seeks* a pod,
*holds* one, *works* once and is *over*; whoever lets a pod go sees it stopped
or deleted, or the pod is *excused* (kept on purpose, or touched by a fault).
`PodRefinement` maps `PodLifecycle` to it: the phase of an invocation and the
pod it answers for follow from its place, and the excused pods are `kept \cup
troubled`. `HonoursContract` says that every step of every invocation is a step
of the contract or changes nothing it speaks of.

### RunJob

The `try / except / finally` of `run_job` on a pod it has. Three actors: the
orchestrator (`Orchestrator`), the script on the pod (`Script`) and the sampler
thread (`Sampler`); `Interrupt` is Ctrl-C at any point of the block. A remote
command may raise; the detached launch may raise although the script starts;
the log of a run before may still be there (`Init` starts from a fresh or a
resumed pod). Loops are counted in `tries`: ssh attempts, log probes, polls of
the log (a poll and the sleep after it take one unit of the budget). A poll whose ssh
fails raises nothing (`check=False`): it sees an empty log, and the loop sleeps
and goes on whether the log holds a marker or not.
The setup, secrets, push and preflight phases are one step each, since their
parts can only succeed or raise. The script's contract, that it prints the
success marker last, after its required outputs, is an assumption about the
job (`ScriptSucceeds`) and marked external.

The metrics file has no module of its own; its rows are counted. Step markers,
which are only reported, and the pull of the remote log, whose failure is only
logged, are left out.

### JobContract and JobRefinement

`JobContract` is a job without phases, handler or remote commands: it works, it
comes to one verdict (success, failure, interrupted), the pod is released as the
verdict says, and a record may be written. Only a job whose required artifacts
have been fetched is a success. This is what `PodLifecycle` takes a job for: its
`JobSucceeds`, `JobFails` and `JobInterrupted` are the three verdicts, and its
`Cleanup*` actions the release. `JobRefinement` maps RunJob to it: the try block
and the handler are all work, an artifact is fetched when the local copy is this
run's, the verdict is `failed` as the finally block finds it. What
the contract amounts to is stated in it: `OneStory` (verdict, pod and record
agree, and a success has its results) and `ToldOnce` (none of them is ever
replaced, and nothing fetched is lost).

### GpuSelection

Three things in a row. First, if the user asks, the preflight of `validate
--check-availability` or `gpu-inventory` (`AskDatacenter`,
`DatacenterNotFound`, `Report`): one listing per datacenter, with the stock free
to change between two of them (`StockChanges`; `steady` remembers whether it
did). Then `select_gpu_across_datacenters` as a walk (`SkipDatacenter`,
`SkipOutOfStock`, `SkipTooExpensive`, `Take`, `DatacenterExhausted`, `NoMatch`)
over one snapshot, for a `run` or an `estimate`, which ends there. Then volume,
creation, and the retry on another cloud type. A datacenter is its position in
`pod.datacenters`, a GPU its position in `pod.gpu_order`. `Init` chooses the
listing, the stock (out, a tier the preflight knows, a tier it does not) and the
options; `BeginRun` and `BeginEstimate` choose prices (0 is "unknown") and cap
(0 is "none"). `run --gpu-id --datacenter-id` is `BeginOverride`: it names both
itself, makes no walk and compares no price with the cap.

### PriceCache, RunFiles and Workstation

Processes of one operator that share files and the clock, and no lock.

* `PriceCache` is `fetch_gpu_prices` step by step: read the cache unless
  `--no-price-cache` was given, judge its age, ask RunPod, stamp, open (which
  empties the file) and write. A request may fail, which the code catches, or
  break in a way it does not (`RequestRaises`). Two writers may leave one text
  with the tail of another: such a file, like an empty one, does not parse. A
  catalogue is represented by the time at which RunPod gave it; which of its
  fields is taken is an input of `GpuSelection`.
* `RunFiles` is what runs leave under `artifacts/runpod`: a directory named by
  the second of the start, so two runs may share it; events appended one write
  at a time; a manifest written in place. Readers (`ls-runs`, with `--limit` and
  without, `manifest-summary --root`, `compare-runs`) list directories first and
  load each manifest later, beside runs that write and die. The limit counts
  directories and not rows. `before` keeps which runs had saved their manifests
  when a listing began, wherever they lie, so that completeness is judged by the
  runs and not by what the listing found.
* `Workstation` composes them over one clock: a price-capped run asks for prices
  between its start and its first event.

Abstractions: an event is one write on a file opened for appending. It may fail,
which is logged and no more, and leave nothing or the beginning of a line; the
next write into that directory, maybe another run's, is then glued to the torn
line, and a reader skips both as one malformed line. The clock moves in whole
units of the TTL and of the directory names; `Lag` bounds the time a process
takes between RunPod's answer and the file, which no code enforces and
`PricesAreRecent` states openly.

`MCWorkstation` has a `View` that drops what no later step reads and no checked
property can still turn on: the cache once nobody will ask for prices, the events
once the last is written, manifests, verdicts and rows once the last reader has
ended. The truth of the invariants is part of the view, so a state that violates
one is never taken for one that does not; action properties are checked on every
step, whatever the view.

## 3. The runs

Deadlock checking is off in every run: an invocation that is done stops, and so
does the system.

| run | instance | shows |
|---|---|---|
| `pod_serial` | 4 invocations one at a time, 3 pods, 2 triples, 2 faults, `pod start` lenient | `TypeOK`, `NoSilentLeak`, `NoForgottenPod`, `OneLossPerFault`, `UnlinkOnlyOwnPointer`, `HonoursContract` of one recycled workflow under every failure policy, with `--force-fresh` and manual cleanup |
| `pod_shared` | 3 interleaved runs, 3 pods, 2 triples, 1 fault, `pod start` strict | `ExclusiveUse`, `JobRunsOnRequestedPod`, `NoSilentLeak`, `OneLeakPerFault`, `UndisturbedByOtherRuns`, `HonoursContract` on a shared state file |
| `pod_liveness` | 2 interleaved invocations, 2 pods, 1 fault, fair | `EveryInvocationEnds`, `DeletedInTheEnd`, and what they rest on: `EndsInBoundedSteps`, `DeletedByTheEnd` |
| `runjob` | 2 artifacts, one required, 2 attempts, 2 probes, 2 polls, 1 interrupt, 2 rows, fair | `SuccessActionMeansResults`, `ManifestCoversArtifacts`, `SamplerToldToStop`, `AtMostOneLateRow`, `HonoursJobContract`, `RunEnds`, `EndsInBoundedSteps`, `TypeOK` |
| `gpu_selection` | 2 datacenters, 2 GPUs, prices and cap up to 2 | `TakesFirstAdmissible`, `TrailTellsTheWalk`, `OverCapOnlyAfterFallback`, `VolumeReachable`, `PreflightKeepsItsWord`, `StockOutIsNoFalseAlarm`, `TypeOK` |
| `workstation` | 2 runs, one price-capped, a forced fetcher, a reader, TTL 1, lag 1, clock up to 3, 1 fault, 2 events | `PricesAreRecent`, `NoPricesIsNeverCached`, `EventsKept`, `ListingIsComplete`, `RowsAreTrue`, `TypeOK` |

Why the bounds are enough to be interesting: a recycled workflow needs one run
to leave a pod, a second to resume, drift from or replace it, and a third to
meet what the second left, with a cleanup between; two triples make drift. Two
pods are needed for a pointer to name the wrong one, the third for a run that
creates after a failed resume. Two faults let one failure meet another. In
`RunJob` a loop of two has a first and a last iteration, which is where the code
differs. In `GpuSelection`, prices and caps of 0 to 2 give unknown, below, equal
and above. In `Workstation`, a TTL and a lag of 1 with a clock up to 3 have a cached
catalogue that is fresh, just young enough and too old, and one written late; a run may start at 0 or
1, so two runs share a directory or do not; the two fetchers write the cache
over each other, and one fault tears it. Two events in one file are enough for a
wrong order, for two runs that interleave, and for a torn line with another
glued to it.

Six more runs refute a sentence of the documentation; TLC shows each with a
short behaviour, and `PROJECT.json` quotes the sentence:

| run | the sentence | what the code does |
|---|---|---|
| `pod_failed_resumed` | recycling is success-path only, failed pods may be corrupted | a failed pod that was stopped is resumed by the next recycle run |
| `pod_pointer_lost` | after `stop` the state file is preserved so the pod can be released later | the next run of the config overwrites it |
| `pod_force_fresh` | `--force-fresh` deletes the paused pod the file references | it deletes that pod whatever it is doing |
| `pod_sweep_in_use` | `--all-stopped` releases every EXITED pod | it deletes what was EXITED before the prompt, also if it runs now |
| `runjob_skipped_pull` | pulls are skipped when the script never executed | they are skipped too when the launch or the probe failed and the script runs |
| `runjob_manifest_late` | failed runs write the manifest before the delete | the pod is deleted first |

Two more divergences came up at a property that holds, because it says what the
code does where the documentation says more:

* `TrailTellsTheWalk`: a `datacenter_failover` event about a price is emitted
  although the walk stays in that datacenter and may take another GPU there;
  `dc_failover_audit.sh` and a recipe read every event as a change of datacenter.
* `StockOutIsNoFalseAlarm`: `preflight.py` counts three words as stock, the walk
  every word that is not known to mean none. With another word a stock-out report
  is followed by a run that gets a GPU, which the docstring of `any_stocked`
  rules out.

### Assumptions the runs make

* *Fairness.* `PodLifecycle` assumes weak fairness of each invocation's own
  steps but the answer to the prompt of `--all-stopped` (`Unattended`), which is
  the operator's and may never come; it assumes none of crashes or evictions. Ssh and rsync
  commands have timeouts, loops have bounds. `runpodctl` calls have no timeout in
  the code; that they return is an assumption. `EveryInvocationEnds` therefore
  says: ended, or waiting at that prompt. `RunJob` assumes weak fairness of the
  orchestrator only: the script and the sampler may stop for ever.
* *Strict start.* Whether `runpodctl pod start` refuses a RUNNING pod is not
  known from this repository. `StrictStart` makes it a parameter. `ExclusiveUse`,
  and `UndisturbedByOtherRuns` which rests on it, need it; the other properties
  of `PodLifecycle` are proved without it.
* *A steady stock.* The preflight lists the datacenters one by one, and the run
  lists them again. `PreflightKeepsItsWord` and `StockOutIsNoFalseAlarm` speak of
  a stock that did not change since the first of these calls; the first of them
  also needs a run without a price cap, the second excepts a stock word that
  `preflight.py` does not know.
* *Nobody stops pods by hand.* `cleanup --mode stop` on a pod in use would make
  it EXITED and resumable, so `ExclusiveUse` and `UndisturbedByOtherRuns` exclude
  that command.
* *No overlap.* `NoForgottenPod`, `OneLossPerFault` and `UnlinkOnlyOwnPointer` are
  about invocations that do not overlap (`Serial`), as the recycle recipe
  prescribes with its state file per config. Runs that overlap on one state file,
  the default one included, do unlink and overwrite each other's pointers.
* *What `NoForgottenPod` excuses.* A pod the state file does not name may have
  been kept on purpose, or a call about it failed. The second is not harmless: a
  refused `pod start` leaves the paused pod behind, and a refused delete of a
  drifted pod too. `OneLossPerFault` counts these, one pod for each failure; a
  workflow whose resumes go on failing goes on losing pods.

## 4. What is proved

All constants are arbitrary: any sets of invocations, pods and artifacts, any
number of datacenters, prices, processes and events, any bound on faults.

`PodLifecycleProofs`:

* `TypeCorrectness`: `Spec => []TypeOK`. The inductive invariant is `TypeOK`
  with `LocalsOK`, which says what an invocation holds at which place: without
  it, `held[i]` could be `NoPod` where a call needs a pod.
* `NeverSilentLeak`: `Spec => []NoSilentLeak`. One step lemma; every action that
  gives a pod up either stops or deletes it, keeps it, or meets a fault.
* `RequestedPod`: `Spec => []JobRunsOnRequestedPod`, through `Provenance`: the
  triple in the state file, and the one an invocation has read, are those the
  named pod was created with, and a pod on its way to a job has the wanted one.
* `ExclusiveOwnership`: `ASSUME NoManualStop PROVE Spec => []ExclusiveUse`,
  where `NoManualStop` says that `StrictStart` holds and no command is
  `cleanup --state-file --mode stop`. Through `Sharing`: an owned pod is RUNNING
  (or was deleted under its run) unless a fault touched it, so a strict
  `pod start` cannot hand it to a second run.
* `Undisturbed`: `ASSUME NoManualStop PROVE Spec => UndisturbedByOtherRuns`.
  While a run works on its pod, the pod goes on running until the run takes its
  own next step, a fault touches the pod, or a command that does not ask takes it
  away. `TakesAway` names these: `--force-fresh` and the drift check, which delete
  what a pointer named, the pointer cleanup, and the sweep. The proof lists who
  can stop a pod at all; that the clean-up and the reaping of another run are not
  among them is `ExclusiveUse`.
* `LeaksBounded`: `Spec => []OneLeakPerFault`. `NoSilentLeak` excuses a pod that a
  fault touched; this says what the excuse may cost. Every step that adds to
  `troubled` is one failure and adds one pod (`TroubleCounted`), and a leaked pod
  is in `troubled`, so there are never more leaked pods than failures, although
  `Pods` itself may be infinite.
* `BoundedSteps`: `ASSUME IsFiniteSet(Pods) PROVE Spec => EndsInBoundedSteps`.
  `StepsLeft` is a measure that every step of an invocation decreases and no other
  step increases. The pods are finite because `--all-stopped` deletes what one
  `pod list` returned, a finite list. That an invocation takes its steps is
  fairness; that it has at most 15 + |Pods| of them to take is proved.
* `DeletionDone`: `Spec => []DeletedByTheEnd`, through `DeletesSoFar` (a run that
  deletes on success and on failure has ordered the deletion by the time it lets
  its pod go) and `GoneForGood` (no call brings a deleted pod back).

`RecycleProofs`, under `Recipe` (invocations do not overlap, and every run has
`on_success: recycle`; force-fresh, fallback, failure policy and cleanup commands
are free):

* `NothingForgotten`: `Spec => []NoForgottenPod`, and `OwnPointerOnly`:
  `Spec => UnlinkOnlyOwnPointer`. `NoForgottenPod` speaks of the moments between
  invocations and is not inductive. The strengthening, `KnowsItsPods`, says of
  each place of the invocation under way whether its pod is the one in the state
  file, whether it alone knows the pod (between `pod create` and the write), or
  whether the pod of the old pointer no longer matters (it is about to be
  replaced). It stands on `NoSilentLeak` and `Provenance`. The recipe
  is needed: with the default policy a stopped pod is forgotten
  (`pod_pointer_lost`). What is proved is that no pod is forgotten by drift,
  force-fresh, fallback or cleanup as such; a pod about which a call failed may be.
* `LossesBounded`: `Spec => []OneLossPerFault`, from `NothingForgotten` and the
  count of `LeaksBounded`: one failure costs a workflow one pod at most.

`PodRefinementProofs` and `PodContractProofs`:

* `Refinement`: `Spec => HonoursContract`: initial states map to the contract's,
  and every step of PodLifecycle to a step of it or a stutter. One lemma for each
  kind of contract step, then one case for each action.
* `NothingUnaccounted` and `NothingUndone`, of the contract alone, and hence of
  whatever implements it: a running pod has a client that answers for it or an
  excuse; deletions are final, and a client works at most once, on the pod it
  acquired: work leads only to the end, and nothing leads back from there.
* `NothingTakenBack`: `Spec => Contract!Irrevocable`, which is `NothingUndone`
  read through the refinement: a theorem about the contract, proved once, becomes
  one about PodLifecycle by `Refinement` and an instance of `PodContractProofs`.

`RunJobProofs` (`TypeCorrectness`, `SuccessMeansResults`, `ManifestCovers`,
`SamplerTold`, `LateRowsBounded`): one inductive invariant `Inv`, with a part for
each thing a place in the try block may rely on: from the launch on a success
marker is this run's (`MarkerSound`), what a pull has found and what it has left
to do (`FoundSound`, `PulledSound`), when the event is set (`SamplerSound`,
`LateSound`). `SuccessMeansResults` assumes `OnSuccess # OnFailure`: where both
policies are the same, the action says nothing of the outcome. `BoundedSteps`
(`ASSUME IsFiniteSet(Artifacts)`, which a config file's list is) proves
`EndsInBoundedSteps`: the attempts, probes and polls left, the pulls left of the
try block and of the handler, and the way to the end add up to a number that
every step of `run_job` decreases, polls whose ssh fails included. It needs that a loop's counter has not passed
its bound (`TriesSound`).

`JobRefinementProofs` (`JobRefines`): `Spec => HonoursJobContract`, without that
assumption, since the contract speaks of the verdict. On top of `Inv` it needs
`Fresh` (what was fetched from this run is also on the pod as this run's, so a
second pull cannot replace it by an older one) and `Quiet` (a job still at work
has not been interrupted). Two consequences come with it, both proved of the
contract and carried over: `TellsOneStory` (`Spec => []Job!OneStory`) and
`TellsItOnce` (`Spec => Job!ToldOnce`). They rest on `SettledByStage`, which says
of each stage of the contract what is settled by then.

`GpuSelectionProofs` (`SelectionTypes`, `FirstAdmissible`, `TrailIsTrue`,
`CapKeptWithoutFallback`, `VolumeAlwaysReachable`, `PreflightIsRight`,
`StockOutIsRight`): one inductive invariant `Inv`, whose part `Progress` says
that everything before the walk's position is inadmissible, and whose part
`Sightings` says what a steady preflight has seen of the datacenters it passed.
`TrailIsTrue` proves both directions, that every event is right and that none is
missing, and their order. `CapKeptWithoutFallback` leaves two ways above the cap,
the fallback and the override, and no third.

`WorkstationProofs` (`TypeCorrectness`, `NoPricesNeverCached`, `PricesRecent`,
`EventsAreKept`, `ListingComplete`, `RowsTrue`): `CacheInv` relates what the file
holds to the clock (given before it was stamped, and not long before);
`FilesInv` says whose lines and whose manifest a directory holds, and that nobody
touches the manifest of a run that has its directory to itself. `EventsAreKept`
(two events lost for each failed write at most, and no order ever broken) needs
that a file with a torn end has one loss still to come (`LossBounded`);
`ListingComplete`, for a listing of everything and for `--limit 1`, that every
directory with a manifest file has a run that started in its second (`DirsHaveRuns`).

Only model-checked: the liveness properties (`EveryInvocationEnds`,
`DeletedInTheEnd`, `RunEnds`), since the prover does not do fairness; and the six
refutations, which a proof could not show anyway. Of the liveness properties
only the step from "it is fair" to "it is taken" is left to TLC: that there are
finitely many steps to take (`EndsInBoundedSteps`), and that the pod is deleted
once they are taken (`DeletedByTheEnd`), is proved. Every other property of a
passing run is stated by a theorem.

## 5. What is not modelled

* Parsers, dataclass validation, argument parsing, argv construction, rendering
  of tables, logs and templates: pure functions of their input, without a state
  that two steps could disagree on. What they decide enters the models as
  CONSTANTS, commands or options.
* The preflight's scans (pyproject, staged files, the rsync-exclude matcher) and
  the image-registry probe: they read and warn, and nothing later decides on them.
* Step markers, the pull of the remote log, and deploy metadata: only recorded.
* The `events` command and its filters, `logs`, `ls-stale`, `capture-env` and
  `manifest-summary` of one file: they read and print.
* The text of shell commands. A run that hits a shell syntax error in the status
  command (`failure_markers: []`) is listed as a hazard and outside the model.
* Money and time: the budget is a number of polls, and it starts with the monitor.
* The package facade, the maintenance scripts and the examples: not part of the
  program's behaviour.

Faults the code has no answer to (a lost reply of `pod create`, a kill before the
state file is written) are steps of the models. The properties about single pods
say "unless a fault touched this pod"; `OneLeakPerFault` and `OneLossPerFault`
only bound what those faults cost together. So the hazards where the code does
lose the pod have no property in `PROJECT.json`, only the reason: an event file
that cannot be created, a lost reply of `pod create` or `pod start`, a kill
before the state file is written, a refused delete of a drifted pod. Nor have
those where the code promises nothing: the deletion of a drifted pod that another
run may have started; the unlinking of another run's pointer; a hanging
`runpodctl`, which needs the timeout the code lacks; what a Ctrl-C and a
best-effort pull leave after a failed run; an exception that `fetch_gpu_prices`
does not catch; and numbers and strings the models abstract from.

## 6. What would come next

1. Step markers: which of them a poll of the log's last 80 lines may miss, and in
   which order their events appear.
2. Several configs that share the default state file, as a recipe of its own,
   beside per-config state files as the remedy.
3. Pure operators checked against references over bounded inputs: template
   rendering in two passes, the rsync-exclude matcher, image references.
4. A timed model of the budget, from the pod's creation on.
