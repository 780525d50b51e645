------------------------------ MODULE RunFiles ------------------------------
(***************************************************************************)
(* What runs leave under artifacts/runpod and what the commands that look  *)
(* back make of it.  A run directory is named by the second in which its   *)
(* run started, so runs of one project may share it: their events go to    *)
(* one events.jsonl, and each writes the one pull manifest in place.  The  *)
(* readers take no lock and run beside the runs.                           *)
(***************************************************************************)
EXTENDS PriceCache, Sequences

CONSTANTS
    Runs,       \* invocations of `run`
    Capped,     \* those with --max-gpu-price, which ask for prices first
    Readers,    \* invocations of ls-runs, manifest-summary --root, compare-runs
    MaxEvents,  \* bound on the events of all runs together
    LastStart   \* bound on the time at which a run starts

ASSUME RunAssumption ==
    Capped \subseteq Runs /\ MaxEvents \in Nat /\ LastStart \in Times

Seconds == 0 .. LastStart   \* the clock ticks in seconds, and names directories

VARIABLES
    place,      \* where each run is
    dirOf,      \* ctx.run_dir of each run
    emitted,    \* number of events each run has written
    outcome,    \* run_job's `failed`, once it is settled
    events,     \* events.jsonl in each directory
    manifests,  \* the pull manifest in each directory
    reading,    \* where each reader is
    todo,       \* directories a reader has found and not read yet
    rows,       \* what it has read of the others
    before      \* kept for ListingIsComplete only: the runs that had saved their
                \* manifests when it began

runVars == <<place, dirOf, emitted, outcome>>
diskVars == <<events, manifests>>
readerVars == <<reading, todo, rows, before>>

Places == {"idle", "pricing", "running", "saving", "saved", "over"}
Lines == [run : Runs, n : Nat \ {0}]
Torn == [kind |-> "torn"]    \* the beginning of a line, not ended
EventLines == {Torn, Garbage} \cup [kind : {"whole"}, value : Lines]
Manifests == [run : Runs, failed : BOOLEAN]
ManifestFiles == {Absent, Empty, Garbage} \cup {Whole(m) : m \in Manifests}
Rows == [dir : Seconds, run : Runs, failed : BOOLEAN]

\* The events that the runs of a directory emitted.
EmittedIn(d) ==
    UNION {{[run |-> r, n |-> k] : k \in 1 .. emitted[r]} : r \in {q \in Runs : dirOf[q] = d}}

FilesInit ==
    /\ place = [r \in Runs |-> "idle"]
    /\ dirOf = [r \in Runs |-> 0]
    /\ emitted = [r \in Runs |-> 0]
    /\ outcome = [r \in Runs |-> FALSE]
    /\ events = [d \in Seconds |-> <<>>]
    /\ manifests = [d \in Seconds |-> Absent]
    /\ reading = [l \in Readers |-> "idle"]
    /\ todo = [l \in Readers |-> {}]
    /\ rows = [l \in Readers |-> {}]
    /\ before = [l \in Readers |-> {}]

-----------------------------------------------------------------------------
(***************************************************************************)
(* A run.                                                                  *)
(***************************************************************************)

PlaceIs(r, s) == place[r] = s
Goes(r, s) == place' = [place EXCEPT ![r] = s]
SameElsewhere == UNCHANGED <<now, cacheVars, readerVars>>
NoFault == UNCHANGED faults

\* build_job_context names the directory; the prices come after it.
StartRun(r) ==
    /\ PlaceIs(r, "idle") /\ now <= LastStart
    /\ dirOf' = [dirOf EXCEPT ![r] = now]
    /\ Goes(r, IF r \in Capped THEN "pricing" ELSE "running")
    /\ UNCHANGED <<emitted, outcome, diskVars>> /\ NoFault /\ SameElsewhere

\* fetch_gpu_prices returned: the walk finds a GPU, or the run ends here.  One
\* that raises or is killed ends the run as well.
PricesCome(r) ==
    /\ PlaceIs(r, "pricing") /\ At(r, "returned")
    /\ \E s \in {"running", "over"} : Goes(r, s)
    /\ UNCHANGED <<dirOf, emitted, outcome, diskVars>> /\ NoFault /\ SameElsewhere

ReplaceLines(file, line) == <<line>>

\* The file ends in the middle of a line.
Unended(file) == file # <<>> /\ file[Len(file)] = Torn

\* open("a") and one write: what comes after a torn line becomes part of it, and
\* load_events skips the two as one malformed line.
AddLine(file, line) ==
    IF Unended(file)
      THEN [file EXCEPT ![Len(file)] = IF line = Torn THEN Torn ELSE Garbage]
      ELSE Append(file, line)

NextLine(r) == [run |-> r, n |-> emitted[r] + 1]

\* emit_event.  A write that fails is logged and no more; a full disk may have
\* taken the beginning of the line.
EmitEvent(r) ==
    /\ PlaceIs(r, "running")
    /\ Cardinality(UNION {EmittedIn(d) : d \in Seconds}) < MaxEvents
    /\ emitted' = [emitted EXCEPT ![r] = @ + 1]
    /\ \/ events' = [events EXCEPT ![dirOf[r]] = AddLine(@, Whole(NextLine(r)))] /\ NoFault
       \/ events' = [events EXCEPT ![dirOf[r]] = AddLine(@, Torn)] /\ Fault
       \/ UNCHANGED events /\ Fault
    /\ UNCHANGED <<place, dirOf, outcome, manifests>> /\ SameElsewhere

\* The try block is over, and write_pull_manifest opens its file, which empties
\* it; or cannot, which run_job suppresses.
OpenManifest(r) ==
    /\ PlaceIs(r, "running")
    /\ \/ /\ manifests' = [manifests EXCEPT ![dirOf[r]] = Empty]
          /\ \E b \in BOOLEAN : outcome' = [outcome EXCEPT ![r] = b]
          /\ Goes(r, "saving") /\ NoFault
       \/ Fault /\ Goes(r, "over") /\ UNCHANGED <<manifests, outcome>>
    /\ UNCHANGED <<dirOf, emitted, events>> /\ SameElsewhere

ManifestAlwaysFine(r) == [run |-> r, failed |-> FALSE]

\* build_pull_manifest.
ManifestOf(r) == [run |-> r, failed |-> outcome[r]]

WriteManifest(r) ==
    /\ PlaceIs(r, "saving")
    /\ \/ /\ \E m \in Overwritten(manifests[dirOf[r]], Whole(ManifestOf(r))) :
               manifests' = [manifests EXCEPT ![dirOf[r]] = m]
          /\ Goes(r, "saved") /\ NoFault
       \/ /\ manifests' = [manifests EXCEPT ![dirOf[r]] = Garbage]
          /\ Goes(r, "over") /\ Fault
    /\ UNCHANGED <<dirOf, emitted, outcome, events>> /\ SameElsewhere

\* The run is killed, or an exception takes it past its manifest.
KillRun(r) ==
    /\ place[r] \in {"running", "saving"} /\ Fault
    /\ Goes(r, "over")
    /\ UNCHANGED <<dirOf, emitted, outcome, diskVars>> /\ SameElsewhere

RunStep(r) ==
    \/ StartRun(r) \/ PricesCome(r) \/ EmitEvent(r)
    \/ OpenManifest(r) \/ WriteManifest(r) \/ KillRun(r)

-----------------------------------------------------------------------------
(***************************************************************************)
(* The commands that look back.                                            *)
(***************************************************************************)

\* walk_run_dirs: a run directory is one with a manifest file, whatever it
\* holds.
WalkRunDirs == {d \in Seconds : manifests[d] # Absent}

\* The last n of them.
Last(dirs, n) == {d \in dirs : Cardinality({e \in dirs : e >= d}) <= n}

SameDisk == UNCHANGED <<now, faults, cacheVars, runVars, diskVars>>

\* ls-runs and manifest-summary --root look at the directories first; ls-runs
\* --limit goes on with the last of them.
Look(l) ==
    /\ reading[l] = "idle"
    /\ \E mode \in {"listing", "limited"} :
         /\ reading' = [reading EXCEPT ![l] = mode]
         /\ todo' = [todo EXCEPT ![l] =
              IF mode = "limited" THEN Last(WalkRunDirs, 1) ELSE WalkRunDirs]
    /\ before' = [before EXCEPT ![l] = {r \in Runs : PlaceIs(r, "saved")}]
    /\ UNCHANGED rows /\ SameDisk

\* compare-runs is given the directories of two runs.
Compare(l) ==
    /\ reading[l] = "idle"
    /\ reading' = [reading EXCEPT ![l] = "comparing"]
    /\ \E q, r \in Runs :
         /\ ~PlaceIs(q, "idle") /\ ~PlaceIs(r, "idle")
         /\ todo' = [todo EXCEPT ![l] = {dirOf[q], dirOf[r]}]
    /\ UNCHANGED <<rows, before>> /\ SameDisk

\* load_manifest of one directory.
RowsOf(d) ==
    IF Parses(manifests[d])
      THEN {[dir |-> d, run |-> manifests[d].value.run,
             failed |-> manifests[d].value.failed]}
      ELSE {}

EndsListing(l, d) == IF RowsOf(d) = {} THEN {} ELSE todo[l] \ {d}

\* `continue`: a directory that cannot be read is skipped.
StillToRead(l, d) == todo[l] \ {d}

\* Directories are read in the order of their names.
Load(l, d) ==
    /\ d \in todo[l] /\ \A e \in todo[l] : d <= e
    /\ rows' = [rows EXCEPT ![l] = @ \cup RowsOf(d)]
    /\ todo' = [todo EXCEPT ![l] = StillToRead(l, d)]
    /\ UNCHANGED <<reading, before>> /\ SameDisk

ReaderStep(l) == Look(l) \/ Compare(l) \/ \E d \in Seconds : Load(l, d)

-----------------------------------------------------------------------------

FilesTypeOK ==
    /\ place \in [Runs -> Places]
    /\ dirOf \in [Runs -> Seconds]
    /\ emitted \in [Runs -> Nat]
    /\ outcome \in [Runs -> BOOLEAN]
    /\ events \in [Seconds -> Seq(EventLines)]
    /\ manifests \in [Seconds -> ManifestFiles]
    /\ reading \in [Readers -> {"idle", "listing", "limited", "comparing"}]
    /\ todo \in [Readers -> SUBSET Seconds]
    /\ rows \in [Readers -> SUBSET Rows]
    /\ before \in [Readers -> SUBSET Runs]

\* What load_events makes of the file of a directory.
Loaded(d) == {events[d][k].value : k \in {j \in 1 .. Len(events[d]) : Parses(events[d][j])}}

\* The events that a reader misses in a directory.
Missing(d) == EmittedIn(d) \ Loaded(d)

InOrder(file) ==
    \A j, k \in 1 .. Len(file) :
        j < k /\ Parses(file[j]) /\ Parses(file[k]) /\ file[j].value.run = file[k].value.run
            => file[j].value.n < file[k].value.n

\* Runs that share a directory lose none of each other's events but by a write
\* that fails, and such a write costs at most two: its own event and the one that
\* is written next into that directory, maybe another run's.  Each run's events
\* stay in the order in which it emitted them, and none is there twice.
EventsKept ==
    \A d \in Seconds : Cardinality(Missing(d)) <= 2 * faults /\ InOrder(events[d])

\* A run that no other run shares its directory with.
Alone(r) == \A q \in Runs \ {r} : PlaceIs(q, "idle") \/ dirOf[q] # dirOf[r]

\* No run has started in a later second.
Newest(r) == \A q \in Runs : PlaceIs(q, "idle") \/ dirOf[q] <= dirOf[r]

\* A listing shows every run that had saved its manifest when the listing
\* began, wherever it lies and whatever torn files and dead runs lie beside it, as
\* long as the run had its directory to itself.  With --limit 1 this is promised
\* of the newest run only: the limit counts directories, so a later one whose run
\* is still writing or died takes the place of a row.
ListingIsComplete ==
    \A l \in Readers : reading[l] \in {"listing", "limited"} /\ todo[l] = {} =>
        \A r \in before[l] :
            Alone(r) /\ (reading[l] = "limited" => Newest(r)) =>
                \E row \in rows[l] : row.run = r

\* What a reader shows is a manifest that some run wrote as a whole, in the
\* run's own directory and with the run's own verdict: a failed run never
\* appears as a success, not even when two runs wrote over each other.
RowsAreTrue ==
    \A l \in Readers : \A row \in rows[l] :
        /\ dirOf[row.run] = row.dir
        /\ outcome[row.run] = row.failed
        /\ PlaceIs(row.run, "saved")
=============================================================================
