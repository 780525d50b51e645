------------------------- MODULE WorkstationProofs -------------------------
(***************************************************************************)
(* What holds of Workstation for any number of processes, any TTL and any  *)
(* clock: the inductive invariant of the price cache relates what the file *)
(* holds to the clock; the one of the run files says whose lines and whose *)
(* manifest each directory holds.                                          *)
(***************************************************************************)
EXTENDS Workstation, FiniteSetTheorems, TLAPS

\* A catalogue in the file was given before it was stamped, and not long
\* before.
FileSound ==
    cache.kind = "whole" =>
        /\ cache.value.prices \in Times /\ cache.value.stamp \in Times
        /\ cache.value.prices <= cache.value.stamp
        /\ cache.value.stamp <= cache.value.prices + Lag
        /\ cache.value.stamp <= now

\* A process that is about to write holds a catalogue no older than Lag.
HoldersSound ==
    \A f \in Fetchers :
        /\ stage[f] \in {"answered", "writing"} =>
             prices[f] \in Times /\ prices[f] <= now /\ now <= prices[f] + Lag
        /\ stage[f] = "writing" => prices[f] <= stamp[f] /\ stamp[f] <= now

CacheInv == CacheTypeOK /\ FileSound /\ HoldersSound /\ NoPricesIsNeverCached

\* A directory holds only lines of its own runs, up to what they emitted.
LinesSound ==
    \A d \in Seconds : \A k \in 1 .. Len(events[d]) : Parses(events[d][k]) =>
        LET line == events[d][k].value
        IN  /\ ~PlaceIs(line.run, "idle") /\ dirOf[line.run] = d
            /\ line.n <= emitted[line.run]

\* A torn line at the end of a file has cost one event and may cost another.
LossBounded ==
    \A d \in Seconds :
        /\ IsFiniteSet(Missing(d))
        /\ Cardinality(Missing(d)) + (IF Unended(events[d]) THEN 1 ELSE 0) <= 2 * faults

EventsOrdered == \A d \in Seconds : InOrder(events[d])

\* A run that has not started has emitted nothing.
IdleSound == \A r \in Runs : PlaceIs(r, "idle") => emitted[r] = 0

\* A manifest that parses is the one of a run that saved it there.
ManifestsSound ==
    \A d \in Seconds : manifests[d].kind = "whole" =>
        LET m == manifests[d].value
        IN  m.run \in Runs /\ PlaceIs(m.run, "saved") /\ dirOf[m.run] = d
            /\ outcome[m.run] = m.failed

\* Nobody touches the manifest of a run that is alone in its directory.
AloneSound ==
    \A r \in Runs : Alone(r) =>
        /\ PlaceIs(r, "saving") => manifests[dirOf[r]].kind = "empty"
        /\ PlaceIs(r, "saved") =>
             manifests[dirOf[r]].kind = "whole" /\ manifests[dirOf[r]].value.run = r

\* A directory with a manifest file is that of a run.
DirsHaveRuns ==
    \A d \in Seconds : manifests[d] # Absent =>
        \E r \in Runs : ~PlaceIs(r, "idle") /\ dirOf[r] = d

\* What ListingIsComplete promises reader `l` of run `r`.
Promised(l, r) ==
    /\ reading[l] \in {"listing", "limited"}
    /\ Alone(r) /\ (reading[l] = "limited" => Newest(r))

\* A reader has read what it found, or is still going to.
ReadersSound ==
    \A l \in Readers : \A r \in before[l] :
        /\ PlaceIs(r, "saved")
        /\ Promised(l, r) => dirOf[r] \in todo[l] \/ \E row \in rows[l] : row.run = r

FilesInv ==
    /\ FilesTypeOK /\ LinesSound /\ EventsOrdered /\ IdleSound /\ LossBounded
    /\ ManifestsSound /\ AloneSound /\ DirsHaveRuns /\ ReadersSound /\ RowsAreTrue

\* Failures are counted.
FaultsCounted == faults \in Nat /\ faults' \in Nat /\ faults <= faults'

-----------------------------------------------------------------------------

\* A catalogue is not the empty one.
LEMMA NoPricesIsNoTime == \A t \in Times : t # NoPrices /\ t \in Int
  BY TimeAssumption DEF Times, NoPrices

\* What a whole file holds, and what kinds of file there are.
LEMMA FileKinds ==
    /\ \A x : Whole(x).kind = "whole" /\ Whole(x).value = x
    /\ Absent.kind # "whole" /\ Empty.kind # "whole" /\ Garbage.kind # "whole"
    /\ {Absent, Empty, Garbage} \subseteq CacheFiles
    /\ \A e \in Entries : Whole(e) \in CacheFiles
  BY DEF Whole, Absent, Empty, Garbage, CacheFiles

\* What a write leaves is what was written or does not parse.
LEMMA WriteLeaves ==
    ASSUME NEW old, NEW new, NEW left \in Overwritten(old, new)
    PROVE  left = new \/ left = Garbage
  BY DEF Overwritten

\* At first there is no cache.
LEMMA CacheInitially == CacheInit => CacheInv
  BY FileKinds, TimeAssumption
  DEF CacheInit, CacheInv, CacheTypeOK, FileSound, HoldersSound,
      NoPricesIsNeverCached, Times, Stages, Catalogues, At

\* fetch_gpu_prices, step by step.
LEMMA FetchKeepsCache ==
    ASSUME CacheInv, NEW f \in Fetchers, FetchStep(f)
    PROVE  CacheInv'
<1> USE DEF At, Becomes, Fault, Asks, Stages, Catalogues
<1>0. /\ CacheTypeOK /\ FileSound /\ HoldersSound /\ NoPricesIsNeverCached
      /\ TTL \in Nat /\ Lag \in Nat /\ MaxTime \in Nat /\ MaxFaults \in Nat
  BY TimeAssumption DEF CacheInv
<1>1. CASE Fetch(f)
  BY <1>0, <1>1 DEF Fetch, CacheInv, CacheTypeOK, FileSound, HoldersSound, NoPricesIsNeverCached
<1>2. CASE ReadCache(f)
  <2>1. CASE Parses(cache) /\ ~Expired(cache.value)
    <3>1. cache.value.prices \in Times /\ cache.value.prices # NoPrices
      BY <1>0, <2>1, NoPricesIsNoTime DEF Parses, FileSound
    <3>2. Returns(f, cache.value.prices) /\ UNCHANGED <<now, faults, cache, asked>>
      BY <1>2, <2>1 DEF ReadCache
    <3> QED BY <1>0, <3>1, <3>2
          DEF Returns, CacheInv, CacheTypeOK, FileSound, HoldersSound, NoPricesIsNeverCached, Times
  <2>2. CASE ~(Parses(cache) /\ ~Expired(cache.value))
    BY <1>0, <1>2, <2>2
    DEF ReadCache, CacheInv, CacheTypeOK, FileSound, HoldersSound, NoPricesIsNeverCached
  <2> QED BY <2>1, <2>2
<1>3. CASE AskInVain(f)
  BY <1>0, <1>3 DEF AskInVain, Returns, CacheInv, CacheTypeOK, FileSound,
     HoldersSound, NoPricesIsNeverCached, Times
<1>4. CASE RequestRaises(f)
  BY <1>0, <1>4 DEF RequestRaises, CacheInv, CacheTypeOK, FileSound,
     HoldersSound, NoPricesIsNeverCached
<1>5. CASE Answer(f)
  BY <1>0, <1>5, NoPricesIsNoTime
  DEF Answer, WorthKeeping, Returns, CacheInv, CacheTypeOK, FileSound,
      HoldersSound, NoPricesIsNeverCached, Times
<1>6. CASE OpenCache(f)
  BY <1>0, <1>6, FileKinds, NoPricesIsNoTime
  DEF OpenCache, Returns, CacheInv, CacheTypeOK, FileSound,
      HoldersSound, NoPricesIsNeverCached, Times
<1>7. CASE WriteCache(f)
  <2>1. PayloadOf(f) \in Entries /\ prices[f] \in Times /\ prices[f] # NoPrices
    BY <1>0, <1>7, NoPricesIsNoTime
    DEF WriteCache, PayloadOf, Entries, CacheTypeOK, HoldersSound
  <2>2. cache' \in {cache, Garbage, Whole(PayloadOf(f))}
    BY <1>7, WriteLeaves DEF WriteCache
  <2>3. cache' \in CacheFiles
    BY <1>0, <2>1, <2>2, FileKinds DEF CacheTypeOK
  <2>4. now' = now
    BY <1>7 DEF WriteCache
  <2>5. FileSound'
    <3>1. CASE cache' = cache
      BY <1>0, <3>1, <2>4 DEF FileSound
    <3>2. CASE cache' = Garbage
      BY <3>2, FileKinds DEF FileSound
    <3>3. CASE cache' = Whole(PayloadOf(f))
      <4>1. cache'.value = [stamp |-> stamp[f], prices |-> prices[f]]
        BY <3>3, FileKinds DEF PayloadOf
      <4> QED BY <1>0, <1>7, <2>4, <4>1
            DEF FileSound, HoldersSound, CacheTypeOK, WriteCache, Times
    <3> QED BY <2>2, <3>1, <3>2, <3>3
  <2>6. CacheTypeOK' /\ HoldersSound' /\ NoPricesIsNeverCached'
    BY <1>0, <1>7, <2>1, <2>3
    DEF WriteCache, Returns, CacheTypeOK, HoldersSound, NoPricesIsNeverCached, Times
  <2> QED BY <2>5, <2>6 DEF CacheInv
<1>8. CASE KillFetch(f)
  BY <1>0, <1>8 DEF KillFetch, CacheInv, CacheTypeOK, FileSound, HoldersSound, NoPricesIsNeverCached
<1> QED BY <1>1, <1>2, <1>3, <1>4, <1>5, <1>6, <1>7, <1>8 DEF FetchStep

\* The clock does not outrun a process that is about to write.
LEMMA TickKeepsCache == CacheInv /\ Tick => CacheInv'
<1> SUFFICES ASSUME CacheInv, Tick PROVE CacheInv' OBVIOUS
<1>1. /\ CacheTypeOK /\ FileSound /\ HoldersSound /\ NoPricesIsNeverCached
      /\ Lag \in Nat /\ MaxTime \in Nat
  BY TimeAssumption DEF CacheInv
<1>2. now' = now + 1 /\ now + 1 \in Times /\ UNCHANGED <<faults, cacheVars>>
  BY <1>1 DEF Tick, CacheTypeOK, Times
<1>3. CacheTypeOK' /\ NoPricesIsNeverCached'
  BY <1>1, <1>2 DEF cacheVars, CacheTypeOK, NoPricesIsNeverCached, At
<1>4. FileSound'
  BY <1>1, <1>2 DEF cacheVars, FileSound, CacheTypeOK, Times
<1>5. HoldersSound'
  BY <1>1, <1>2 DEF Tick, cacheVars, HoldersSound, CacheTypeOK, Times
<1> QED BY <1>3, <1>4, <1>5 DEF CacheInv

-----------------------------------------------------------------------------
(***************************************************************************)
(* The run files.                                                          *)
(***************************************************************************)

\* What EmittedIn and Loaded collect.
LEMMA EmittedMembers ==
    ASSUME NEW d, NEW e
    PROVE  e \in EmittedIn(d) <=>
             \E r \in Runs : \E k \in 1 .. emitted[r] : dirOf[r] = d /\ e = [run |-> r, n |-> k]
  BY DEF EmittedIn

LEMMA LoadedMembers ==
    ASSUME NEW d, NEW e
    PROVE  e \in Loaded(d) <=>
             \E k \in 1 .. Len(events[d]) : Parses(events[d][k]) /\ e = events[d][k].value
  BY DEF Loaded

\* One element more, or fewer.
LEMMA OneMore ==
    ASSUME NEW S, IsFiniteSet(S), NEW e, NEW T, T \subseteq S \cup {e}
    PROVE  /\ IsFiniteSet(T) /\ Cardinality(T) \in Nat /\ Cardinality(S) \in Nat
           /\ Cardinality(T) <= Cardinality(S) + 1
           /\ T \subseteq S => Cardinality(T) <= Cardinality(S)
<1>1. IsFiniteSet(S \cup {e}) /\ Cardinality(S \cup {e}) <= Cardinality(S) + 1
      /\ Cardinality(S) \in Nat /\ Cardinality(S \cup {e}) \in Nat
  BY FS_AddElement, FS_CardinalityType
<1>2. IsFiniteSet(T) /\ Cardinality(T) <= Cardinality(S \cup {e})
  BY <1>1, FS_Subset
<1>3. Cardinality(T) \in Nat /\ (T \subseteq S => Cardinality(T) <= Cardinality(S))
  BY <1>2, FS_Subset, FS_CardinalityType
<1> QED BY <1>1, <1>2, <1>3

\* At first there are no directories.
LEMMA FilesInitially == CacheInit /\ FilesInit => FilesInv
<1> SUFFICES ASSUME FilesInit, faults = 0 PROVE FilesInv BY DEF CacheInit
<1>1. 0 \in Seconds
  BY RunAssumption, TimeAssumption DEF Seconds, Times
<1>2. FilesTypeOK
  BY <1>1, RunAssumption DEF FilesInit, FilesTypeOK, Places, ManifestFiles
<1>3. \A d \in Seconds :
        manifests[d].kind # "whole" /\ manifests[d] = Absent /\ events[d] = <<>>
  BY FileKinds DEF FilesInit
<1>4. LinesSound /\ EventsOrdered /\ IdleSound
  BY <1>3, RunAssumption DEF FilesInit, LinesSound, EventsOrdered, InOrder, IdleSound
<1>5. LossBounded
  <2> SUFFICES ASSUME NEW d \in Seconds
               PROVE  /\ IsFiniteSet(Missing(d))
                      /\ Cardinality(Missing(d)) + (IF Unended(events[d]) THEN 1 ELSE 0) <= 0
    BY DEF LossBounded
  <2>1. ~Unended(events[d])
    BY <1>3 DEF Unended
  <2>2. Missing(d) = {}
    BY EmittedMembers, RunAssumption DEF FilesInit, Missing
  <2> QED BY <2>1, <2>2, FS_EmptySet
<1>6. ManifestsSound /\ AloneSound /\ DirsHaveRuns /\ ReadersSound /\ RowsAreTrue
  BY <1>3 DEF FilesInit, ManifestsSound, AloneSound, DirsHaveRuns, ReadersSound,
              RowsAreTrue, PlaceIs
<1> QED BY <1>2, <1>4, <1>5, <1>6 DEF FilesInv

\* A failure that writes nothing makes no more events missing.
LEMMA LossUndisturbed ==
    ASSUME LossBounded, FaultsCounted, events' = events,
           \A d \in Seconds : EmittedIn(d)' = EmittedIn(d)
    PROVE  LossBounded'
<1> SUFFICES ASSUME NEW d \in Seconds
             PROVE  /\ IsFiniteSet(Missing(d)')
                    /\ Cardinality(Missing(d)') + (IF Unended(events'[d]) THEN 1 ELSE 0)
                         <= 2 * faults'
  BY DEF LossBounded
<1>1. Missing(d)' = Missing(d)
  BY DEF Missing, Loaded
<1>2. /\ IsFiniteSet(Missing(d)) /\ Cardinality(Missing(d)) \in Nat
      /\ Cardinality(Missing(d)) + (IF Unended(events[d]) THEN 1 ELSE 0) <= 2 * faults
  BY FS_CardinalityType DEF LossBounded
<1> QED BY <1>1, <1>2 DEF FaultsCounted

\* A step that leaves the runs, the disk and the readers alone.
LEMMA FilesUnchanged ==
    ASSUME FilesInv, FaultsCounted, UNCHANGED <<runVars, diskVars, readerVars>>
    PROVE  FilesInv'
<1> USE DEF FilesInv, runVars, diskVars, readerVars, PlaceIs, Alone, Newest
<1>1. FilesTypeOK'
  BY DEF FilesTypeOK
<1>2. LinesSound' /\ EventsOrdered' /\ IdleSound'
  BY DEF LinesSound, EventsOrdered, InOrder, IdleSound
<1>3. LossBounded'
  BY LossUndisturbed DEF EmittedIn
<1>4. ManifestsSound' /\ AloneSound' /\ DirsHaveRuns'
  BY DEF ManifestsSound, AloneSound, DirsHaveRuns
<1>5. ReadersSound' /\ RowsAreTrue'
  BY DEF ReadersSound, Promised, RowsAreTrue
<1> QED BY <1>1, <1>2, <1>3, <1>4, <1>5

\* A step of a run that has not ended yet: it changes nothing of the other runs,
\* and no manifest but the one in its own directory.
MovesOnly(q) ==
    /\ \A x \in Runs \ {q} :
         /\ place'[x] = place[x] /\ dirOf'[x] = dirOf[x]
         /\ emitted'[x] = emitted[x] /\ outcome'[x] = outcome[x]
    /\ ~PlaceIs(q, "saved") /\ place'[q] # "idle"
    /\ PlaceIs(q, "idle") \/ dirOf'[q] = dirOf[q]
    /\ UNCHANGED readerVars
    /\ \A d \in Seconds \ {dirOf'[q]} : manifests'[d] = manifests[d]

\* A run only joins others in a directory: it may stop being alone in its own,
\* but does not become so.
LEMMA AloneBefore ==
    ASSUME NEW r \in Runs, NEW q \in Runs, MovesOnly(q), ~PlaceIs(r, "idle"),
           Alone(r)'
    PROVE  /\ Alone(r)
           /\ r # q => dirOf[r] # dirOf'[q]
<1>1. dirOf'[r] = dirOf[r]
  BY DEF MovesOnly
<1>2. \A x \in Runs \ {r} : place'[x] = "idle" \/ dirOf'[x] # dirOf[r]
  BY <1>1 DEF Alone, PlaceIs
<1>3. ASSUME NEW x \in Runs \ {r} PROVE PlaceIs(x, "idle") \/ dirOf[x] # dirOf[r]
  BY <1>2 DEF MovesOnly, PlaceIs
<1> QED BY <1>2, <1>3 DEF Alone, MovesOnly

\* What readers know of runs that are over stays so.
LEMMA ReadersUndisturbed ==
    ASSUME FilesInv, NEW q \in Runs, MovesOnly(q)
    PROVE  ReadersSound' /\ RowsAreTrue'
<1> USE DEF FilesInv, MovesOnly, readerVars, PlaceIs
<1>1. RowsAreTrue'
  <2> SUFFICES ASSUME NEW l \in Readers, NEW row \in rows[l]
               PROVE  /\ dirOf'[row.run] = row.dir
                      /\ outcome'[row.run] = row.failed
                      /\ place'[row.run] = "saved"
    BY DEF RowsAreTrue
  <2>1. row.run \in Runs
    BY DEF FilesTypeOK, Rows
  <2> QED BY <2>1 DEF RowsAreTrue
<1>2. ReadersSound'
  <2> SUFFICES ASSUME NEW l \in Readers, NEW r \in before[l]
               PROVE  /\ place'[r] = "saved"
                      /\ Promised(l, r)' =>
                           dirOf'[r] \in todo[l] \/ \E row \in rows[l] : row.run = r
    BY DEF ReadersSound
  <2>1. r \in Runs /\ PlaceIs(r, "saved")
    BY DEF FilesTypeOK, ReadersSound
  <2>2. r # q /\ place'[r] = "saved" /\ dirOf'[r] = dirOf[r]
    BY <2>1
  <2>3. Alone(r)' => Alone(r)
    BY <2>1, AloneBefore
  <2>4. ASSUME Newest(r)' PROVE Newest(r)
    <3>1. ASSUME NEW x \in Runs \ {q} PROVE place[x] = "idle" \/ dirOf[x] <= dirOf[r]
      BY <2>2, <2>4 DEF Newest
    <3>2. place[q] = "idle" \/ dirOf[q] <= dirOf[r]
      BY <2>2, <2>4 DEF Newest
    <3> QED BY <3>1, <3>2 DEF Newest
  <2>5. Promised(l, r)' => Promised(l, r)
    BY <2>3, <2>4 DEF Promised
  <2> QED BY <2>2, <2>5 DEF ReadersSound
<1> QED BY <1>1, <1>2

\* A step of a run leaves manifest files in directories of runs only.
LEMMA DirsUndisturbed ==
    ASSUME FilesInv, NEW q \in Runs, MovesOnly(q)
    PROVE  DirsHaveRuns'
<1> SUFFICES ASSUME NEW d \in Seconds, manifests'[d] # Absent
             PROVE  \E r \in Runs : place'[r] # "idle" /\ dirOf'[r] = d
  BY DEF DirsHaveRuns, PlaceIs
<1>1. CASE d = dirOf'[q]
  BY <1>1 DEF MovesOnly
<1>2. CASE d # dirOf'[q]
  <2>1. PICK r \in Runs : ~PlaceIs(r, "idle") /\ dirOf[r] = d
    BY <1>2 DEF MovesOnly, FilesInv, DirsHaveRuns
  <2>2. r # q
    BY <1>2, <2>1 DEF MovesOnly
  <2> QED BY <2>1, <2>2 DEF MovesOnly, PlaceIs
<1> QED BY <1>1, <1>2

\* The manifests after a step of run q, when the one in q's directory is as it
\* was, does not parse, or is q's own.
LEMMA ManifestsUndisturbed ==
    ASSUME FilesInv, NEW q \in Runs, MovesOnly(q), dirOf'[q] \in Seconds,
           LET file == manifests'[dirOf'[q]]
           IN  \/ file = manifests[dirOf'[q]]
               \/ file.kind # "whole"
               \/ /\ file = Whole(ManifestOf(q))
                  /\ place'[q] = "saved" /\ outcome'[q] = outcome[q]
    PROVE  ManifestsSound'
<1> SUFFICES ASSUME NEW d \in Seconds, manifests'[d].kind = "whole"
             PROVE  LET m == manifests'[d].value
                    IN  /\ m.run \in Runs /\ place'[m.run] = "saved"
                        /\ dirOf'[m.run] = d /\ outcome'[m.run] = m.failed
  BY DEF ManifestsSound, PlaceIs
<1>1. CASE manifests'[d] = manifests[d]
  <2> DEFINE m == manifests[d].value
  <2>1. m.run \in Runs /\ place[m.run] = "saved" /\ dirOf[m.run] = d /\ outcome[m.run] = m.failed
    BY <1>1 DEF FilesInv, ManifestsSound, PlaceIs
  <2>2. m.run # q
    BY <2>1 DEF MovesOnly, PlaceIs
  <2> QED BY <1>1, <2>1, <2>2 DEF MovesOnly
<1>2. CASE d = dirOf'[q] /\ manifests'[d] = Whole(ManifestOf(q)) /\ place'[q] = "saved"
           /\ outcome'[q] = outcome[q]
  BY <1>2, FileKinds DEF ManifestOf
<1> QED BY <1>1, <1>2 DEF MovesOnly

\* The other runs' manifests are safe while they are alone, so only q's own
\* counts.
LEMMA AloneUndisturbed ==
    ASSUME FilesInv, NEW q \in Runs, MovesOnly(q), dirOf'[q] \in Seconds,
           Alone(q)' =>
               LET file == manifests'[dirOf'[q]]
               IN  /\ place'[q] = "saving" => file.kind = "empty"
                   /\ place'[q] = "saved" => file.kind = "whole" /\ file.value.run = q
    PROVE  AloneSound'
<1> SUFFICES ASSUME NEW r \in Runs, Alone(r)', place'[r] \in {"saving", "saved"}, r # q
             PROVE  LET file == manifests'[dirOf'[r]]
                    IN  /\ place'[r] = "saving" => file.kind = "empty"
                        /\ place'[r] = "saved" => file.kind = "whole" /\ file.value.run = r
  BY DEF AloneSound, PlaceIs
<1>1. place'[r] = place[r] /\ dirOf'[r] = dirOf[r] /\ dirOf[r] \in Seconds
  BY DEF MovesOnly, FilesInv, FilesTypeOK
<1>2. Alone(r) /\ dirOf[r] # dirOf'[q]
  BY <1>1, AloneBefore DEF PlaceIs
<1>3. manifests'[dirOf[r]] = manifests[dirOf[r]]
  BY <1>1, <1>2 DEF MovesOnly
<1> QED BY <1>1, <1>2, <1>3 DEF FilesInv, AloneSound, PlaceIs

\* A file of events is a sequence of lines, and one that parses is of a run.
LEMMA LineTypes ==
    ASSUME FilesTypeOK, NEW d \in Seconds
    PROVE  /\ events[d] \in Seq(EventLines) /\ Len(events[d]) \in Nat
           /\ \A k \in 1 .. Len(events[d]) : Parses(events[d][k]) =>
                events[d][k].value.run \in Runs /\ events[d][k].value.n \in Nat
<1>1. events[d] \in Seq(EventLines)
  BY DEF FilesTypeOK
<1>2. ASSUME NEW e \in EventLines, Parses(e) PROVE e.value.run \in Runs /\ e.value.n \in Nat
  BY <1>2 DEF EventLines, Lines, Parses, Torn, Garbage
<1>3. ASSUME NEW k \in 1 .. Len(events[d]) PROVE events[d][k] \in EventLines
  BY <1>1
<1> QED BY <1>1, <1>2, <1>3

\* A run starts, and finds its directory as it is.
LEMMA StartKeepsFiles ==
    ASSUME FilesInv, FaultsCounted, now \in Times, NEW q \in Runs, StartRun(q)
    PROVE  FilesInv'
<1> USE DEF SameElsewhere, PlaceIs, Goes
<1>1. now \in Seconds /\ dirOf'[q] = now
  BY RunAssumption, TimeAssumption DEF StartRun, Seconds, Times, FilesInv, FilesTypeOK
<1>2. MovesOnly(q)
  BY DEF StartRun, MovesOnly, FilesInv, FilesTypeOK, diskVars
<1>3. FilesTypeOK'
  BY <1>1 DEF StartRun, FilesInv, FilesTypeOK, Places, diskVars, readerVars
<1>4. /\ emitted' = emitted /\ emitted[q] = 0 /\ events' = events /\ manifests' = manifests
      /\ outcome' = outcome
  BY DEF StartRun, diskVars, FilesInv, IdleSound
<1>5. ASSUME NEW r \in Runs \ {q}
      PROVE  place'[r] = place[r] /\ dirOf'[r] = dirOf[r] /\ emitted'[r] = emitted[r]
  BY <1>2 DEF MovesOnly
<1>6. LossBounded'
  <2>1. ASSUME NEW d \in Seconds PROVE EmittedIn(d)' = EmittedIn(d)
    <3>1. ASSUME NEW e PROVE e \in EmittedIn(d)' <=> e \in EmittedIn(d)
      <4>1. e \in EmittedIn(d)' <=>
              \E r \in Runs : \E k \in 1 .. emitted'[r] : dirOf'[r] = d /\ e = [run |-> r, n |-> k]
        BY DEF EmittedIn
      <4>2. \A r \in Runs : \A k \in 1 .. emitted[r] : r # q
        BY <1>4
      <4> QED BY <1>4, <1>5, <4>1, <4>2, EmittedMembers
    <3> QED BY <3>1
  <2> QED BY <1>4, <2>1, LossUndisturbed DEF FilesInv
<1>7. LinesSound' /\ EventsOrdered'
  <2>1. ASSUME NEW d \in Seconds, NEW k \in 1 .. Len(events[d]), Parses(events[d][k])
        PROVE  events[d][k].value.run # q /\ events[d][k].value.run \in Runs
    BY <2>1, LineTypes DEF StartRun, FilesInv, LinesSound
  <2> QED BY <1>4, <1>5, <2>1 DEF FilesInv, LinesSound, EventsOrdered, InOrder, Parses
<1>8. IdleSound'
  BY <1>2, <1>4 DEF FilesInv, IdleSound, MovesOnly
<1>9. ManifestsSound'
  BY <1>1, <1>2, <1>4, ManifestsUndisturbed
<1>10. AloneSound'
  BY <1>1, <1>2, AloneUndisturbed DEF StartRun, FilesInv, FilesTypeOK
<1> QED BY <1>2, <1>3, <1>6, <1>7, <1>8, <1>9, <1>10, DirsUndisturbed, ReadersUndisturbed
        DEF FilesInv

\* A step that neither starts a run nor adds to its events keeps what is known
\* of events.
LEMMA EventsUndisturbed ==
    ASSUME FilesInv, FaultsCounted, NEW q \in Runs, MovesOnly(q), ~PlaceIs(q, "idle"),
           UNCHANGED <<emitted, events, dirOf>>
    PROVE  LinesSound' /\ EventsOrdered' /\ IdleSound' /\ LossBounded'
<1>1. LossBounded' /\ EventsOrdered'
  <2>1. \A d \in Seconds : EmittedIn(d)' = EmittedIn(d)
    BY DEF EmittedIn
  <2> QED BY <2>1, LossUndisturbed DEF FilesInv, EventsOrdered, InOrder
<1>2. LinesSound'
  <2>1. ASSUME NEW d \in Seconds, NEW k \in 1 .. Len(events[d]), Parses(events[d][k])
        PROVE  events[d][k].value.run \in Runs
    BY <2>1, LineTypes DEF FilesInv
  <2>2. \A r \in Runs : ~PlaceIs(r, "idle") => ~PlaceIs(r, "idle")'
    BY DEF MovesOnly, PlaceIs
  <2> QED BY <2>1, <2>2 DEF FilesInv, LinesSound, Parses
<1>3. IdleSound'
  BY DEF FilesInv, IdleSound, MovesOnly, PlaceIs
<1> QED BY <1>1, <1>2, <1>3

\* A run goes on after the prices, or ends.
LEMMA RestKeepsFiles ==
    ASSUME FilesInv, FaultsCounted, NEW q \in Runs, PricesCome(q) \/ KillRun(q)
    PROVE  FilesInv'
<1> USE DEF SameElsewhere, PlaceIs, Goes
<1>1. /\ MovesOnly(q) /\ dirOf'[q] \in Seconds /\ place[q] # "idle"
      /\ UNCHANGED <<dirOf, emitted, outcome, events, manifests>>
      /\ place'[q] \notin {"saving", "saved"}
  BY DEF PricesCome, KillRun, MovesOnly, FilesInv, FilesTypeOK, diskVars
<1>2. FilesTypeOK'
  BY <1>1 DEF PricesCome, KillRun, FilesInv, FilesTypeOK, Places, diskVars, readerVars
<1> QED BY <1>1, <1>2, EventsUndisturbed, ManifestsUndisturbed, AloneUndisturbed,
           DirsUndisturbed, ReadersUndisturbed DEF FilesInv

\* A run opens or writes its manifest.
LEMMA ManifestKeepsFiles ==
    ASSUME FilesInv, FaultsCounted, NEW q \in Runs, OpenManifest(q) \/ WriteManifest(q)
    PROVE  FilesInv'
<1> USE DEF SameElsewhere, PlaceIs, Goes
<1>1. /\ MovesOnly(q) /\ dirOf'[q] \in Seconds /\ dirOf' = dirOf /\ place[q] # "idle"
      /\ UNCHANGED <<dirOf, emitted, events>>
  BY DEF OpenManifest, WriteManifest, MovesOnly, FilesInv, FilesTypeOK
<1> DEFINE file == manifests'[dirOf'[q]]
           old == manifests[dirOf[q]]
<1>2. CASE OpenManifest(q)
  <2>1. FilesTypeOK'
    <3>1. /\ place' \in [Runs -> Places] /\ dirOf' \in [Runs -> Seconds]
          /\ emitted' \in [Runs -> Nat] /\ outcome' \in [Runs -> BOOLEAN]
      <4>1. \/ UNCHANGED outcome
            \/ \E b \in BOOLEAN : outcome' = [outcome EXCEPT ![q] = b]
        BY <1>2 DEF OpenManifest
      <4>2. \E s \in Places : place' = [place EXCEPT ![q] = s]
        BY <1>2 DEF OpenManifest, Places
      <4> QED BY <1>1, <4>1, <4>2 DEF FilesInv, FilesTypeOK
    <3>2. manifests' \in [Seconds -> ManifestFiles]
      BY <1>2 DEF OpenManifest, FilesInv, FilesTypeOK, ManifestFiles
    <3>3. UNCHANGED <<events, readerVars>>
      BY <1>2 DEF OpenManifest
    <3> QED BY <3>1, <3>2, <3>3 DEF readerVars, FilesInv, FilesTypeOK
  <2>2. \/ file = Empty /\ place'[q] = "saving"
        \/ file = old /\ place'[q] = "over"
    <3>1. dirOf[q] \in Seconds /\ dirOf' = dirOf
          /\ manifests \in [Seconds -> ManifestFiles] /\ place \in [Runs -> Places]
      BY <1>2 DEF OpenManifest, FilesInv, FilesTypeOK
    <3> QED BY <1>2, <3>1 DEF OpenManifest
  <2>3. Empty.kind = "empty"
    BY DEF Empty
  <2> QED BY <1>1, <2>1, <2>2, <2>3, EventsUndisturbed, ManifestsUndisturbed, AloneUndisturbed,
             DirsUndisturbed, ReadersUndisturbed DEF FilesInv
<1>3. CASE WriteManifest(q)
  <2>1. ManifestOf(q) \in Manifests
    BY DEF ManifestOf, Manifests, FilesInv, FilesTypeOK
  <2>2. \/ file \in Overwritten(old, Whole(ManifestOf(q))) /\ place'[q] = "saved"
        \/ file = Garbage /\ place'[q] = "over"
    <3>1. dirOf[q] \in Seconds /\ dirOf' = dirOf
          /\ manifests \in [Seconds -> ManifestFiles] /\ place \in [Runs -> Places]
      BY <1>3 DEF WriteManifest, FilesInv, FilesTypeOK
    <3> HIDE DEF PlaceIs
    <3> QED BY <1>3, <3>1 DEF WriteManifest
  <2>3. \/ file = Garbage
        \/ file = Whole(ManifestOf(q)) /\ place'[q] = "saved"
    BY <2>2, WriteLeaves
  <2>4. FilesTypeOK'
    <3>1. manifests' = [manifests EXCEPT ![dirOf[q]] = file]
      BY <1>1, <1>3 DEF WriteManifest, FilesInv, FilesTypeOK
    <3>2. file \in ManifestFiles
      BY <2>1, <2>3 DEF ManifestFiles
    <3> QED BY <1>1, <1>3, <3>1, <3>2
          DEF WriteManifest, FilesInv, FilesTypeOK, Places, readerVars
  <2>5. ManifestsSound'
    BY <1>1, <1>3, <2>3, FileKinds, ManifestsUndisturbed DEF WriteManifest
  <2>6. AloneSound'
    <3>1. ASSUME Alone(q)', place'[q] = "saved"
          PROVE  file.kind = "whole" /\ file.value.run = q
      <4>1. old.kind = "empty"
        BY <1>1, <1>3, <3>1, AloneBefore DEF WriteManifest, FilesInv, AloneSound
      <4>2. file = Whole(ManifestOf(q))
        BY <2>2, <3>1, <4>1 DEF Overwritten
      <4> QED BY <4>2, FileKinds DEF ManifestOf
    <3> QED BY <1>1, <2>2, <3>1, AloneUndisturbed
  <2> QED BY <1>1, <2>4, <2>5, <2>6, EventsUndisturbed, DirsUndisturbed, ReadersUndisturbed
          DEF FilesInv
<1> QED BY <1>2, <1>3

\* What a write makes of a file: the line comes at the end, or spoils the torn one
\* that is there.
Written(file, line, new) ==
    /\ new \in Seq(EventLines)
    /\ \/ /\ ~Unended(file) /\ Len(new) = Len(file) + 1 /\ new[Len(file) + 1] = line
          /\ \A k \in 1 .. Len(file) : new[k] = file[k]
       \/ /\ Unended(file) /\ Len(new) = Len(file) /\ Len(file) \in 1 .. Len(file)
          /\ ~Parses(new[Len(file)]) /\ ~Parses(file[Len(file)])
          /\ \A k \in 1 .. Len(file) - 1 : new[k] = file[k]
    /\ Parses(line) => ~Unended(new)

LEMMA AddedLine ==
    ASSUME NEW file \in Seq(EventLines), NEW line \in EventLines
    PROVE  Written(file, line, AddLine(file, line))
<1> DEFINE new == AddLine(file, line)
<1>1. Torn \in EventLines /\ Garbage \in EventLines /\ Torn # Garbage
      /\ ~Parses(Torn) /\ ~Parses(Garbage)
  BY DEF EventLines, Torn, Garbage, Parses
<1>2. CASE ~Unended(file)
  <2>1. new = Append(file, line)
    BY <1>2 DEF AddLine
  <2>2. /\ new \in Seq(EventLines) /\ Len(new) = Len(file) + 1 /\ new[Len(file) + 1] = line
        /\ \A k \in 1 .. Len(file) : new[k] = file[k]
    BY <2>1
  <2>3. Parses(line) => ~Unended(new)
    BY <1>1, <2>2 DEF Unended
  <2> QED BY <1>2, <2>2, <2>3 DEF Written
<1>3. CASE Unended(file)
  <2>1. Len(file) \in 1 .. Len(file) /\ Len(file) \in Nat /\ file[Len(file)] = Torn
    BY <1>3 DEF Unended
  <2>2. PICK x \in {Torn, Garbage} : new = [file EXCEPT ![Len(file)] = x]
                                   /\ (Parses(line) => x = Garbage)
    BY <1>1, <1>3 DEF AddLine
  <2>3. /\ new \in Seq(EventLines) /\ Len(new) = Len(file) /\ new[Len(file)] = x
        /\ \A k \in 1 .. Len(file) - 1 : new[k] = file[k]
    BY <1>1, <2>1, <2>2
  <2>4. Parses(line) => ~Unended(new)
    BY <1>1, <2>2, <2>3 DEF Unended
  <2> QED BY <1>1, <1>3, <2>1, <2>2, <2>3, <2>4 DEF Written
<1> QED BY <1>2, <1>3

\* A run adds its next event at the end of its file, or fails to.
LEMMA EmitKeepsFiles ==
    ASSUME FilesInv, FaultsCounted, NEW q \in Runs, EmitEvent(q)
    PROVE  FilesInv'
<1> USE DEF SameElsewhere, PlaceIs
<1> DEFINE D == dirOf[q]
           line == NextLine(q)
           old == events[D]
           new == events'[D]
<1>1. /\ FilesTypeOK /\ D \in Seconds /\ emitted[q] \in Nat /\ place[q] = "running"
      /\ old \in Seq(EventLines) /\ Len(old) \in Nat
      /\ UNCHANGED <<place, dirOf, outcome, manifests, readerVars>>
  BY LineTypes DEF EmitEvent, FilesInv, FilesTypeOK
<1>2. /\ emitted' \in [Runs -> Nat]
      /\ emitted'[q] = emitted[q] + 1 /\ \A r \in Runs \ {q} : emitted'[r] = emitted[r]
  BY <1>1 DEF EmitEvent, FilesTypeOK
<1>3. /\ line = [run |-> q, n |-> emitted[q] + 1] /\ line.run = q /\ line.n = emitted[q] + 1
      /\ Whole(line) \in EventLines /\ Torn \in EventLines
      /\ Parses(Whole(line)) /\ Whole(line).value = line /\ ~Parses(Torn)
  BY <1>1 DEF NextLine, EventLines, Lines, Whole, Torn, Parses
<1>4. \/ new = AddLine(old, Whole(line)) /\ faults' = faults
      \/ new = AddLine(old, Torn) /\ faults' = faults + 1
      \/ new = old /\ faults' = faults + 1
  BY <1>1 DEF EmitEvent, FilesTypeOK, NoFault, Fault
<1>5. new \in Seq(EventLines) /\ Len(new) \in Nat
      /\ \/ Written(old, Whole(line), new) /\ faults' = faults
         \/ Written(old, Torn, new) /\ faults' = faults + 1
         \/ new = old /\ faults' = faults + 1
  <2>1. \/ Written(old, Whole(line), new) /\ faults' = faults
        \/ Written(old, Torn, new) /\ faults' = faults + 1
        \/ new = old /\ faults' = faults + 1
    BY <1>1, <1>3, <1>4, AddedLine
  <2>2. new \in Seq(EventLines)
    BY <1>1, <2>1 DEF Written
  <2> QED BY <2>1, <2>2
<1>6. /\ events' \in [Seconds -> Seq(EventLines)]
      /\ \A d \in Seconds \ {D} : events'[d] = events[d]
  <2>1. \E x : events' = [events EXCEPT ![D] = x]
    <3>1. CASE events' = events
      BY <1>1, <3>1 DEF FilesTypeOK
    <3>2. CASE events' # events
      BY <3>2 DEF EmitEvent
    <3> QED BY <3>1, <3>2
  <2> QED BY <1>1, <1>5, <2>1 DEF FilesTypeOK
\* The lines that parse are the old ones, and the new one at the end if it was
\* written after whole lines.
<1>7. /\ Len(new) \in {Len(old), Len(old) + 1}
      /\ \A k \in 1 .. Len(new) : Parses(new[k]) =>
           \/ k \in 1 .. Len(old) /\ new[k] = old[k]
           \/ k = Len(old) + 1 /\ new[k].value = line
      /\ \A k \in 1 .. Len(old) : Parses(old[k]) => k \in 1 .. Len(new) /\ new[k] = old[k]
  <2>1. CASE new = old
    BY <1>1, <2>1
  <2>2. ASSUME NEW x \in {Whole(line), Torn}, Written(old, x, new), Unended(old)
        PROVE  /\ Len(new) = Len(old)
               /\ \A k \in 1 .. Len(old) :
                    (Parses(new[k]) \/ Parses(old[k])) => new[k] = old[k]
    BY <1>1, <2>2 DEF Written
  <2>3. ASSUME NEW x \in {Whole(line), Torn}, Written(old, x, new), ~Unended(old)
        PROVE  /\ Len(new) = Len(old) + 1 /\ (Parses(new[Len(old) + 1]) => new[Len(old) + 1].value = line)
               /\ \A k \in 1 .. Len(old) : new[k] = old[k]
    BY <1>1, <1>3, <2>3 DEF Written
  <2> QED BY <1>1, <1>5, <2>1, <2>2, <2>3
<1>8. MovesOnly(q)
  BY <1>1, <1>2 DEF MovesOnly
<1>9. FilesTypeOK'
  BY <1>1, <1>2, <1>6 DEF FilesTypeOK, readerVars
<1>10. LinesSound'
  <2> SUFFICES ASSUME NEW d \in Seconds, NEW k \in 1 .. Len(events'[d]), Parses(events'[d][k])
               PROVE  LET e == events'[d][k].value
                      IN  place[e.run] # "idle" /\ dirOf[e.run] = d /\ e.n <= emitted'[e.run]
    BY <1>1 DEF LinesSound, Parses
  <2>1. CASE d = D /\ k = Len(old) + 1 /\ new[k].value = line
    BY <1>1, <1>2, <1>3, <2>1
  <2>2. CASE k \in 1 .. Len(events[d]) /\ events'[d][k] = events[d][k]
    <3>1. Parses(events[d][k]) /\ events[d][k].value.run \in Runs /\ events[d][k].value.n \in Nat
      BY <1>1, <2>2, LineTypes
    <3>2. emitted[events[d][k].value.run] <= emitted'[events[d][k].value.run]
          /\ emitted[events[d][k].value.run] \in Nat /\ emitted'[events[d][k].value.run] \in Nat
      <4>1. \A r \in Runs : emitted[r] <= emitted'[r] /\ emitted[r] \in Nat /\ emitted'[r] \in Nat
        <5>1. emitted \in [Runs -> Nat]
          BY <1>1 DEF FilesTypeOK
        <5>2. \A r \in Runs : emitted[r] \in Nat /\ emitted'[r] \in Nat
          BY <1>2, <5>1
        <5>3. ASSUME NEW r \in Runs PROVE emitted[r] <= emitted'[r]
          <6>1. CASE r = q
            BY <1>2, <5>2, <6>1
          <6>2. CASE r # q
            BY <1>2, <5>2, <6>2
          <6> QED BY <6>1, <6>2
        <5> QED BY <5>2, <5>3
      <4> QED BY <3>1, <4>1
    <3> QED BY <1>1, <2>2, <3>1, <3>2 DEF FilesInv, LinesSound
  <2> QED BY <1>6, <1>7, <2>1, <2>2
<1>11. EventsOrdered'
  <2> SUFFICES ASSUME NEW d \in Seconds,
                      NEW j \in 1 .. Len(events'[d]), NEW k \in 1 .. Len(events'[d]), j < k,
                      Parses(events'[d][j]), Parses(events'[d][k]),
                      events'[d][j].value.run = events'[d][k].value.run
               PROVE  events'[d][j].value.n < events'[d][k].value.n
    BY DEF EventsOrdered, InOrder, Parses
  <2>1. CASE d = D /\ k = Len(old) + 1 /\ new[k].value = line
    <3>1. j \in 1 .. Len(old) /\ new[j] = old[j]
      BY <1>1, <1>7, <2>1
    <3>2. old[j].value.run = q /\ old[j].value.n \in Nat /\ old[j].value.n <= emitted[q]
      BY <1>1, <1>3, <2>1, <3>1, LineTypes DEF FilesInv, LinesSound
    <3> QED BY <1>1, <1>3, <2>1, <3>1, <3>2
  <2>2. CASE /\ k \in 1 .. Len(events[d]) /\ events'[d][k] = events[d][k]
             /\ j \in 1 .. Len(events[d]) /\ events'[d][j] = events[d][j]
    BY <2>2 DEF FilesInv, EventsOrdered, InOrder
  <2>3. CASE d # D
    BY <1>6, <2>2, <2>3
  <2>4. CASE d = D
    <3>1. \/ k \in 1 .. Len(old) /\ new[k] = old[k]
          \/ k = Len(old) + 1 /\ new[k].value = line
      BY <1>7, <2>4
    <3>2. CASE k \in 1 .. Len(old) /\ new[k] = old[k]
      <4>1. j \in 1 .. Len(old)
        BY <1>1, <1>5, <2>4, <3>2
      <4>2. new[j] = old[j]
        BY <1>1, <1>7, <2>4, <4>1
      <4> QED BY <2>2, <2>4, <3>2, <4>1, <4>2
    <3> QED BY <2>1, <2>4, <3>1, <3>2
  <2> QED BY <2>3, <2>4
<1>12. LossBounded'
  <2> SUFFICES ASSUME NEW d \in Seconds
               PROVE  /\ IsFiniteSet(Missing(d)')
                      /\ Cardinality(Missing(d)') + (IF Unended(events'[d]) THEN 1 ELSE 0)
                           <= 2 * faults'
    BY DEF LossBounded
  <2>1. /\ IsFiniteSet(Missing(d)) /\ Cardinality(Missing(d)) \in Nat
        /\ Cardinality(Missing(d)) + (IF Unended(events[d]) THEN 1 ELSE 0) <= 2 * faults
    BY FS_CardinalityType DEF FilesInv, LossBounded
  <2>2. ASSUME NEW e, e \in EmittedIn(d)' PROVE e \in EmittedIn(d) \/ (d = D /\ e = line)
    <3>0. PICK r \in Runs : \E k \in 1 .. emitted'[r] : dirOf[r] = d /\ e = [run |-> r, n |-> k]
      BY <1>1, <2>2 DEF EmittedIn
    <3>1. PICK k \in 1 .. emitted'[r] : dirOf[r] = d /\ e = [run |-> r, n |-> k]
      BY <3>0
    <3>2. k \in 1 .. emitted[r] \/ (r = q /\ k = emitted[q] + 1)
      BY <1>1, <1>2, <3>1
    <3> QED BY <1>3, <3>1, <3>2, EmittedMembers
  <2>3. ASSUME NEW e, e \in Loaded(d) PROVE e \in Loaded(d)'
    <3>1. PICK k \in 1 .. Len(events[d]) : Parses(events[d][k]) /\ e = events[d][k].value
      BY <2>3, LoadedMembers
    <3>2. k \in 1 .. Len(events'[d]) /\ events'[d][k] = events[d][k]
      BY <1>6, <1>7, <3>1
    <3> QED BY <3>1, <3>2 DEF Loaded, Parses
  <2>4. Missing(d)' \subseteq Missing(d) \cup {line}
    BY <2>2, <2>3 DEF Missing
  <2>5. /\ IsFiniteSet(Missing(d)') /\ Cardinality(Missing(d)') \in Nat
        /\ Cardinality(Missing(d)') <= Cardinality(Missing(d)) + 1
        /\ Missing(d)' \subseteq Missing(d) => Cardinality(Missing(d)') <= Cardinality(Missing(d))
    BY <2>1, <2>4, OneMore
  <2>6. CASE d # D
    <3>1. Missing(d)' \subseteq Missing(d)
      BY <2>2, <2>3, <2>6 DEF Missing
    <3>2. events'[d] = events[d]
      BY <1>6, <2>6
    <3> QED BY <2>1, <2>5, <3>1, <3>2 DEF FaultsCounted
  <2>7. CASE d = D /\ Written(old, Whole(line), new) /\ faults' = faults
    <3>1. ~Unended(new)
      BY <1>3, <2>7 DEF Written
    <3>2. CASE Unended(old)
      BY <2>1, <2>5, <2>7, <3>1, <3>2 DEF FaultsCounted
    <3>3. CASE ~Unended(old)
      <4>1. Len(old) + 1 \in 1 .. Len(new) /\ new[Len(old) + 1] = Whole(line)
        BY <1>1, <2>7, <3>3 DEF Written
      <4>2. line \in Loaded(d)'
        BY <1>3, <2>7, <4>1 DEF Loaded, Parses
      <4>3. Missing(d)' \subseteq Missing(d)
        BY <2>4, <4>2 DEF Missing
      <4> QED BY <2>1, <2>5, <2>7, <3>1, <3>3, <4>3 DEF FaultsCounted
    <3> QED BY <3>2, <3>3
  <2>8. CASE faults' = faults + 1
    BY <2>1, <2>5, <2>8 DEF FaultsCounted
  <2> QED BY <1>5, <2>6, <2>7, <2>8
<1>13. IdleSound'
  BY <1>1, <1>2 DEF FilesInv, IdleSound
<1>14. ManifestsSound'
  BY <1>1, <1>8, ManifestsUndisturbed
<1>15. AloneSound'
  BY <1>1, <1>8, AloneUndisturbed
<1> QED BY <1>8, <1>9, <1>10, <1>11, <1>12, <1>13, <1>14, <1>15, DirsUndisturbed,
           ReadersUndisturbed DEF FilesInv

\* No step of a run hurts what is on the disk or what a reader holds.
LEMMA RunKeepsFiles ==
    ASSUME FilesInv, FaultsCounted, now \in Times, NEW q \in Runs, RunStep(q)
    PROVE  FilesInv'
  BY StartKeepsFiles, RestKeepsFiles, EmitKeepsFiles, ManifestKeepsFiles DEF RunStep

-----------------------------------------------------------------------------

\* What a reader makes of one directory is the manifest of a run that saved it
\* there.
LEMMA RowsSound ==
    ASSUME FilesInv, NEW d \in Seconds, NEW row \in RowsOf(d)
    PROVE  /\ row \in Rows /\ dirOf[row.run] = row.dir
           /\ outcome[row.run] = row.failed /\ PlaceIs(row.run, "saved")
<1> DEFINE m == manifests[d].value
<1>1. manifests[d].kind = "whole" /\ row = [dir |-> d, run |-> m.run, failed |-> m.failed]
  BY DEF RowsOf, Parses
<1>2. /\ m.run \in Runs /\ PlaceIs(m.run, "saved") /\ dirOf[m.run] = d
      /\ outcome[m.run] = m.failed
  BY <1>1 DEF FilesInv, ManifestsSound
<1>3. m.failed \in BOOLEAN
  BY <1>2 DEF FilesInv, FilesTypeOK
<1> QED BY <1>1, <1>2, <1>3 DEF Rows

\* What holds of runs and the disk does not depend on the readers.
LEMMA DiskUndisturbed ==
    ASSUME FilesInv, FaultsCounted, SameDisk
    PROVE  /\ LinesSound' /\ EventsOrdered' /\ IdleSound' /\ LossBounded'
           /\ ManifestsSound' /\ AloneSound' /\ DirsHaveRuns'
<1> USE DEF SameDisk, runVars, diskVars, FilesInv, PlaceIs, Alone
<1>1. LinesSound' /\ EventsOrdered' /\ IdleSound'
  BY DEF LinesSound, EventsOrdered, InOrder, IdleSound
<1>2. LossBounded'
  BY LossUndisturbed DEF EmittedIn
<1>3. ManifestsSound' /\ AloneSound' /\ DirsHaveRuns'
  BY DEF ManifestsSound, AloneSound, DirsHaveRuns
<1> QED BY <1>1, <1>2, <1>3

\* The newest directory is that of the newest run.
LEMMA NewestIsLast ==
    ASSUME FilesInv, NEW r \in Runs, Newest(r), dirOf[r] \in WalkRunDirs
    PROVE  dirOf[r] \in Last(WalkRunDirs, 1)
<1>1. ASSUME NEW e \in WalkRunDirs, e >= dirOf[r] PROVE e = dirOf[r]
  <2>1. PICK q \in Runs : ~PlaceIs(q, "idle") /\ dirOf[q] = e
    BY DEF WalkRunDirs, FilesInv, DirsHaveRuns
  <2>2. e <= dirOf[r]
    BY <2>1 DEF Newest
  <2>3. e \in Int /\ dirOf[r] \in Int
    BY RunAssumption, TimeAssumption DEF WalkRunDirs, Seconds, Times
  <2> QED BY <1>1, <2>2, <2>3
<1>2. dirOf[r] >= dirOf[r]
  BY RunAssumption, TimeAssumption DEF WalkRunDirs, Seconds, Times
<1>3. {e \in WalkRunDirs : e >= dirOf[r]} = {dirOf[r]}
  BY <1>1, <1>2
<1>4. Cardinality({dirOf[r]}) = 1
  BY FS_Singleton
<1> QED BY <1>3, <1>4 DEF Last

\* A reader of past runs.
LEMMA ReaderKeepsFiles ==
    ASSUME FilesInv, FaultsCounted, NEW l \in Readers, ReaderStep(l)
    PROVE  FilesInv'
<1> USE DEF PlaceIs
<1>0. /\ FilesTypeOK /\ ReadersSound /\ RowsAreTrue /\ SameDisk
      /\ UNCHANGED <<place, dirOf, emitted, outcome, events, manifests>>
  BY DEF FilesInv, ReaderStep, Look, Compare, Load, SameDisk, runVars, diskVars
<1>1. ASSUME FilesTypeOK', ReadersSound', RowsAreTrue'
      PROVE  FilesInv'
  BY <1>0, <1>1, DiskUndisturbed DEF FilesInv
<1>2. \A r \in Runs : (Alone(r)' <=> Alone(r)) /\ (Newest(r)' <=> Newest(r))
  BY <1>0 DEF Alone, Newest
<1>3. CASE Look(l)
  <2>1. /\ todo' \in [Readers -> SUBSET Seconds]
        /\ \A x \in Readers \ {l} : todo'[x] = todo[x]
    <3>1. PICK dirs \in {WalkRunDirs, Last(WalkRunDirs, 1)} : todo' = [todo EXCEPT ![l] = dirs]
      BY <1>3 DEF Look
    <3>2. dirs \in SUBSET Seconds
      BY DEF WalkRunDirs, Last
    <3> QED BY <1>0, <3>1, <3>2 DEF FilesTypeOK
  <2>2. /\ before' = [before EXCEPT ![l] = {r \in Runs : place[r] = "saved"}]
        /\ rows' = rows
        /\ \/ reading' = [reading EXCEPT ![l] = "listing"] /\ todo'[l] = WalkRunDirs
           \/ reading' = [reading EXCEPT ![l] = "limited"] /\ todo'[l] = Last(WalkRunDirs, 1)
    BY <1>0, <1>3 DEF Look, FilesTypeOK
  <2>3. FilesTypeOK'
    <3>1. reading' \in [Readers -> {"idle", "listing", "limited", "comparing"}]
      BY <1>0, <2>2 DEF FilesTypeOK
    <3>2. before' \in [Readers -> SUBSET Runs]
      <4>1. before \in [Readers -> SUBSET Runs]
        BY <1>0 DEF FilesTypeOK
      <4> QED BY <2>2, <4>1
    <3> QED BY <1>0, <2>1, <2>2, <3>1, <3>2 DEF FilesTypeOK
  <2>4. RowsAreTrue'
    BY <1>0, <2>2 DEF RowsAreTrue
  <2>5. ReadersSound'
    <3> SUFFICES ASSUME NEW x \in Readers, NEW r \in before'[x]
                 PROVE  /\ place[r] = "saved"
                        /\ Promised(x, r)' =>
                             dirOf[r] \in todo'[x] \/ \E row \in rows[x] : row.run = r
      BY <1>0, <2>2 DEF ReadersSound
    <3>1. CASE x = l
      <4>1. r \in Runs /\ place[r] = "saved"
        BY <1>0, <2>2, <3>1 DEF FilesTypeOK
      <4>2. ASSUME Alone(r) PROVE dirOf[r] \in WalkRunDirs
        BY <1>0, <4>1, <4>2 DEF FilesInv, AloneSound, FilesTypeOK, WalkRunDirs, Absent
      <4>3. CASE reading'[l] = "listing" /\ todo'[l] = WalkRunDirs
        BY <1>2, <3>1, <4>1, <4>2, <4>3 DEF Promised
      <4>4. CASE reading'[l] = "limited" /\ todo'[l] = Last(WalkRunDirs, 1)
        BY <1>2, <3>1, <4>1, <4>2, <4>4, NewestIsLast DEF Promised
      <4> QED BY <1>0, <2>2, <4>3, <4>4 DEF FilesTypeOK
    <3>2. CASE x # l
      <4>1. r \in before[x] /\ r \in Runs /\ reading'[x] = reading[x]
        BY <1>0, <2>2, <3>2 DEF FilesTypeOK
      <4>2. Promised(x, r)' => Promised(x, r)
        BY <1>2, <4>1 DEF Promised
      <4> QED BY <1>0, <2>1, <3>2, <4>1, <4>2 DEF ReadersSound
    <3> QED BY <3>1, <3>2
  <2> QED BY <1>1, <2>3, <2>4, <2>5
<1>4. CASE Compare(l)
  <2>1. /\ todo' \in [Readers -> SUBSET Seconds]
        /\ \A x \in Readers \ {l} : todo'[x] = todo[x]
    BY <1>0, <1>4 DEF Compare, FilesTypeOK
  <2>2. reading' = [reading EXCEPT ![l] = "comparing"] /\ rows' = rows /\ before' = before
    BY <1>4 DEF Compare
  <2>3. FilesTypeOK'
    BY <1>0, <2>1, <2>2 DEF FilesTypeOK
  <2>4. RowsAreTrue'
    BY <1>0, <2>2 DEF RowsAreTrue
  <2>5. ReadersSound'
    <3> SUFFICES ASSUME NEW x \in Readers, NEW r \in before[x]
                 PROVE  /\ place[r] = "saved"
                        /\ Promised(x, r)' =>
                             dirOf[r] \in todo'[x] \/ \E row \in rows[x] : row.run = r
      BY <1>0, <2>2 DEF ReadersSound
    <3>1. r \in Runs /\ place[r] = "saved"
      BY <1>0 DEF FilesTypeOK, ReadersSound
    <3>2. Promised(x, r)' => x # l /\ Promised(x, r)
      BY <1>0, <1>2, <2>2, <3>1 DEF FilesTypeOK, Promised
    <3> QED BY <1>0, <2>1, <3>1, <3>2 DEF ReadersSound
  <2> QED BY <1>1, <2>3, <2>4, <2>5
<1>5. ASSUME NEW d \in Seconds, Load(l, d)
      PROVE  FilesInv'
  <2>1. /\ rows' = [rows EXCEPT ![l] = @ \cup RowsOf(d)]
        /\ todo' = [todo EXCEPT ![l] = @ \ {d}]
        /\ reading' = reading /\ before' = before
    BY <1>5 DEF Load, StillToRead
  <2>2. RowsOf(d) \subseteq Rows
    BY RowsSound
  <2>3. FilesTypeOK'
    BY <1>0, <2>1, <2>2 DEF FilesTypeOK
  <2>4. RowsAreTrue'
    BY <1>0, <2>1, RowsSound DEF RowsAreTrue, FilesTypeOK
  <2>5. ReadersSound'
    <3> SUFFICES ASSUME NEW x \in Readers, NEW r \in before[x]
                 PROVE  /\ place[r] = "saved"
                        /\ Promised(x, r)' =>
                             dirOf[r] \in todo'[x] \/ \E row \in rows'[x] : row.run = r
      BY <1>0, <2>1 DEF ReadersSound
    <3>1. /\ r \in Runs /\ place[r] = "saved"
          /\ Promised(x, r) =>
               dirOf[r] \in todo[x] \/ \E row \in rows[x] : row.run = r
      BY <1>0 DEF FilesTypeOK, ReadersSound
    <3>2. rows[x] \subseteq rows'[x]
      BY <1>0, <2>1 DEF FilesTypeOK
    <3>3. dirOf[r] \in todo[x] => dirOf[r] \in todo'[x] \/ (x = l /\ dirOf[r] = d)
      BY <1>0, <2>1 DEF FilesTypeOK
    <3>4. ASSUME x = l, dirOf[r] = d, Alone(r)
          PROVE  \E row \in rows'[x] : row.run = r
      <4>1. manifests[d].kind = "whole" /\ manifests[d].value.run = r
        BY <3>1, <3>4 DEF FilesInv, AloneSound
      <4>2. \E row \in RowsOf(d) : row.run = r
        BY <4>1 DEF RowsOf, Parses
      <4>3. RowsOf(d) \subseteq rows'[l]
        BY <1>0, <2>1 DEF FilesTypeOK
      <4> QED BY <3>4, <4>2, <4>3
    <3>5. Promised(x, r)' => Promised(x, r) /\ Alone(r)
      BY <1>2, <2>1, <3>1 DEF Promised
    <3> QED BY <3>1, <3>2, <3>3, <3>4, <3>5
  <2> QED BY <1>1, <2>3, <2>4, <2>5
<1> QED BY <1>3, <1>4, <1>5 DEF ReaderStep

-----------------------------------------------------------------------------
(***************************************************************************)
(* The whole machine.                                                      *)
(***************************************************************************)

Inv == CacheInv /\ FilesInv

LEMMA Initially == Init => Inv
  BY CacheInitially, FilesInitially DEF Init, Inv

\* A process that does not ask for prices touches no part of the cache, and
\* fails within the bound if at all.
LEMMA CacheUnchanged ==
    ASSUME CacheInv, UNCHANGED <<now, cacheVars>>, Fault \/ UNCHANGED faults
    PROVE  CacheInv'
<1>1. faults' \in 0 .. MaxFaults
  BY TimeAssumption DEF CacheInv, CacheTypeOK, Fault
<1> QED BY <1>1
      DEF cacheVars, CacheInv, CacheTypeOK, FileSound, HoldersSound, NoPricesIsNeverCached, At

LEMMA StepKeepsInv == Inv /\ [Next]_vars => Inv'
<1> SUFFICES ASSUME Inv, [Next]_vars PROVE Inv' OBVIOUS
<1>1. CacheInv /\ FilesInv /\ now \in Times
  BY DEF Inv, CacheInv, CacheTypeOK
<1>0. ASSUME Fault \/ UNCHANGED faults PROVE FaultsCounted
  BY <1>0, <1>1, TimeAssumption DEF CacheInv, CacheTypeOK, Fault, FaultsCounted
<1>2. ASSUME NEW f \in Fetchers, FetchStep(f), UNCHANGED <<runVars, diskVars, readerVars>>
      PROVE  Inv'
  <2>1. Fault \/ UNCHANGED faults
    BY <1>2 DEF FetchStep, Fetch, ReadCache, AskInVain, RequestRaises, Answer, OpenCache,
                WriteCache, KillFetch
  <2> QED BY <1>0, <1>1, <1>2, <2>1, FetchKeepsCache, FilesUnchanged DEF Inv
<1>3. CASE Tick /\ UNCHANGED <<runVars, diskVars, readerVars>>
  <2>1. UNCHANGED faults
    BY <1>3 DEF Tick
  <2> QED BY <1>0, <1>1, <1>3, <2>1, TickKeepsCache, FilesUnchanged DEF Inv
<1>4. ASSUME NEW r \in Runs, RunStep(r)
      PROVE  Inv'
  <2>1. UNCHANGED <<now, cacheVars>> /\ (Fault \/ UNCHANGED faults)
    BY <1>4 DEF RunStep, StartRun, PricesCome, EmitEvent, OpenManifest, WriteManifest,
                KillRun, SameElsewhere, NoFault
  <2> QED BY <1>0, <1>1, <1>4, <2>1, CacheUnchanged, RunKeepsFiles DEF Inv
<1>5. ASSUME NEW l \in Readers, ReaderStep(l)
      PROVE  Inv'
  <2>1. UNCHANGED <<now, faults, cacheVars>>
    BY <1>5 DEF ReaderStep, Look, Compare, Load, SameDisk
  <2> QED BY <1>0, <1>1, <1>5, <2>1, CacheUnchanged, ReaderKeepsFiles DEF Inv
<1>6. CASE UNCHANGED vars
  BY <1>0, <1>1, <1>6, CacheUnchanged, FilesUnchanged DEF vars, Inv
<1> QED BY <1>2, <1>3, <1>4, <1>5, <1>6 DEF Next

THEOREM Invariance == Spec => []Inv
  BY Initially, StepKeepsInv, PTL DEF Spec

\* Every variable keeps its type: in particular the events of a directory stay
\* events of runs, and each file is whole or known to be broken.
THEOREM TypeCorrectness == Spec => []TypeOK
<1>1. Inv => TypeOK
  BY DEF Inv, CacheInv, FilesInv, TypeOK
<1> QED BY <1>1, Invariance, PTL

\* fetch_gpu_prices never hands out an empty catalogue it did not get by
\* asking, for any number of processes that share the cache file.
THEOREM NoPricesNeverCached == Spec => []NoPricesIsNeverCached
<1>1. Inv => NoPricesIsNeverCached
  BY DEF Inv, CacheInv
<1> QED BY <1>1, Invariance, PTL

\* The prices a command gets are no older than the cache may keep them and the
\* slowest writer needs: _read_cache's age test is enough, although the stamp
\* is taken after the answer and the file is replaced in place.
THEOREM PricesRecent == Spec => PricesAreRecent
<1> DEFINE Recent ==
      \A f \in Fetchers :
          ~At(f, "returned") /\ At(f, "returned")' /\ prices'[f] # NoPrices =>
              now - prices'[f] \in 0 .. TTL + Lag
<1>1. Inv /\ [Next]_vars => [Recent]_<<now, cacheVars>>
  <2> SUFFICES ASSUME Inv, Next, NEW f \in Fetchers, ~At(f, "returned"), At(f, "returned")',
                      prices'[f] # NoPrices
               PROVE  now - prices'[f] \in 0 .. TTL + Lag
    BY DEF vars, cacheVars
  <2> USE DEF At, Becomes
  <2>1. /\ CacheTypeOK /\ FileSound /\ HoldersSound /\ TTL \in Nat /\ Lag \in Nat /\ now \in Int
    BY TimeAssumption DEF Inv, CacheInv, CacheTypeOK, Times
  <2>2. PICK g \in Fetchers : FetchStep(g)
    BY DEF Next, Tick, RunStep, StartRun, PricesCome, EmitEvent, OpenManifest, WriteManifest,
           KillRun, ReaderStep, Look, Compare, Load, SameElsewhere, SameDisk, cacheVars
  <2>3. \/ ReadCache(f) /\ Parses(cache) /\ ~Expired(cache.value)
             /\ prices'[f] = cache.value.prices
        \/ stage[f] \in {"answered", "writing"} /\ prices'[f] = prices[f]
    BY <2>1, <2>2
    DEF FetchStep, Fetch, ReadCache, AskInVain, RequestRaises, Answer, OpenCache, WriteCache,
        KillFetch, Returns, WorthKeeping, CacheTypeOK
  <2>4. CASE stage[f] \in {"answered", "writing"} /\ prices'[f] = prices[f]
    BY <2>1, <2>4 DEF HoldersSound, Times
  <2>5. CASE Parses(cache) /\ ~Expired(cache.value) /\ prices'[f] = cache.value.prices
    BY <2>1, <2>5 DEF Parses, Expired, FileSound, Times
  <2> QED BY <2>3, <2>4, <2>5
<1> QED BY <1>1, Invariance, PTL DEF Spec, PricesAreRecent

\* Runs that share a directory keep each other's events, in the order in which
\* each emitted them; a write that fails costs at most two.  A torn line at the
\* end of a file is a second loss waiting to happen, which LossBounded counts.
THEOREM EventsAreKept == Spec => []EventsKept
<1>1. Inv => EventsKept
  <2> SUFFICES ASSUME Inv, NEW d \in Seconds
               PROVE  Cardinality(Missing(d)) <= 2 * faults
    BY DEF Inv, FilesInv, EventsOrdered, EventsKept
  <2>1. /\ IsFiniteSet(Missing(d)) /\ Cardinality(Missing(d)) \in Nat
        /\ Cardinality(Missing(d)) + (IF Unended(events[d]) THEN 1 ELSE 0) <= 2 * faults
    BY FS_CardinalityType DEF Inv, FilesInv, LossBounded
  <2>2. faults \in Nat
    BY TimeAssumption DEF Inv, CacheInv, CacheTypeOK
  <2> QED BY <2>1, <2>2
<1> QED BY <1>1, Invariance, PTL

\* ls-runs and manifest-summary --root show every run that had saved its
\* manifest in a directory of its own, however many torn ones they skip; with
\* --limit 1, the newest run if it had.
THEOREM ListingComplete == Spec => []ListingIsComplete
<1>1. Inv => ListingIsComplete
  BY DEF Inv, FilesInv, ReadersSound, Promised, ListingIsComplete
<1> QED BY <1>1, Invariance, PTL

\* No reader shows a run another verdict, or another directory, than its own.
THEOREM RowsTrue == Spec => []RowsAreTrue
<1>1. Inv => RowsAreTrue
  BY DEF Inv, FilesInv
<1> QED BY <1>1, Invariance, PTL
=============================================================================
