--------------------------- MODULE JobRefinement ---------------------------
(***************************************************************************)
(* RunJob implements JobContract: the try block and the handler are all    *)
(* work, the finally block releases the pod and records the run.           *)
(***************************************************************************)
EXTENDS RunJob

Working == pc \in TryPlaces \cup ExceptPlaces

StageOf ==
    IF Working THEN "working"
    ELSE IF pc = "cleanup" THEN "releasing"
    ELSE IF pc = "write_manifest" THEN "recording" ELSE "over"

Says(bad) == IF bad THEN "failure" ELSE "success"

VerdictOf ==
    IF Working THEN "none" ELSE IF interrupts > 0 THEN "interrupted" ELSE Says(failed)

Fetched == {a \in Artifacts : pulled[a] = "this"}

ReportOf == IF manifest = NoManifest THEN "none" ELSE Says(manifest.failed)

Job == INSTANCE JobContract WITH
    stage <- StageOf,
    verdict <- VerdictOf,
    fetched <- Fetched,
    report <- ReportOf

\* Whatever raises in run_job, and wherever, the job comes to one verdict, which
\* its action and its manifest follow: a success has every required artifact on
\* disk as this run wrote it, a failure never takes the success action, no
\* result that was fetched is overwritten by an earlier run's, and the pod is
\* released exactly once, after the verdict.
HonoursJobContract == Job!Spec
=============================================================================
