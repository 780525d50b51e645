--------------------------- MODULE MCWorkstation ---------------------------
(***************************************************************************)
(* The state of Workstation without what no later step and no checked      *)
(* property reads any more.                                                *)
(***************************************************************************)
EXTENDS Workstation

MayStart(r) == PlaceIs(r, "idle") /\ now <= LastStart

MayAsk(f) ==
    /\ stage[f] \notin {"returned", "raised", "killed"}
    /\ f \in Runs => MayStart(f) \/ PlaceIs(f, "pricing")

MayEmit ==
    /\ \E r \in Runs : MayStart(r) \/ place[r] \in {"pricing", "running"}
    /\ Cardinality(UNION {EmittedIn(d) : d \in Seconds}) < MaxEvents

IsReading(l) == reading[l] = "idle" \/ todo[l] # {}

Over == "over"

\* The price cache, until the last process that asks for prices has ended.
CacheView ==
    <<IF \E f \in Fetchers : MayAsk(f) THEN cache ELSE Over,
      [f \in Fetchers |->
          IF MayAsk(f) THEN <<stage[f], prices[f], stamp[f]>> ELSE <<stage[f]>>]>>

\* The clock, until nothing is left that looks at it.
ClockView ==
    IF \E p \in Runs \cup Fetchers : (p \in Runs /\ MayStart(p)) \/ (p \in Fetchers /\ MayAsk(p))
      THEN now ELSE MaxTime

\* Events, until the last one is written; manifests and verdicts, until the last
\* reader has ended.
DiskView ==
    <<IF MayEmit THEN <<events, emitted>> ELSE <<Over>>,
      IF \E l \in Readers : IsReading(l) THEN <<manifests, outcome>> ELSE <<Over>>>>

ReaderView(l) == IF IsReading(l) THEN <<reading[l], todo[l], rows[l], before[l]>> ELSE <<Over>>

\* The invariants are part of it: a state that violates one is never taken for one
\* that does not.
View ==
    <<ClockView, faults, CacheView, place, dirOf, DiskView,
      [l \in Readers |-> ReaderView(l)],
      NoPricesIsNeverCached, EventsKept, ListingIsComplete, RowsAreTrue>>
=============================================================================
