------------------------ MODULE GpuSelectionProofs ------------------------
(***************************************************************************)
(* What holds of GpuSelection for every number of datacenters and GPUs and *)
(* for all prices.  The inductive invariant says how far the walk has      *)
(* come: whatever is before the GPU it looks at was not admissible.  And   *)
(* it says what the preflight has seen, as long as the stock is steady.    *)
(***************************************************************************)
EXTENDS GpuSelection, SequenceTheorems, TLAPS

\* Nothing before the walk's place is admissible.
WalkedPast ==
    \A d \in Datacenters, g \in Gpus :
        Before(d, g, dc, gpu) => ~Admissible(d, g)

\* What the preflight has asked, and what that tells of a stock that has not
\* changed since.
Sightings ==
    /\ \A d \in Datacenters : d < scan => d \in listed
    /\ steady => (found <=> \E d \in Datacenters : d < scan /\ StockedIn(d))
    /\ verdict = "stocked" => found
    /\ verdict = "stock-out" => ~found /\ scan = NumDatacenters + 1
    /\ pc = "preflight" => verdict = "none"
    /\ scan = 1 => steady

\* The places after a GPU was taken, by the walk or by the overrides.
Taken == {"estimated", "volume", "create", "retry", "created", "raised"}

\* What each stage has established.
Progress ==
    /\ pc \in {"preflight", "idle"} => dc = 1 /\ gpu = 1 /\ command = "none"
    /\ command = "override" => pc \in Taken
    /\ pc # "no match" /\ command # "override" => WalkedPast
    /\ pc = "no match" => \A d \in Datacenters, g \in Gpus : ~Admissible(d, g)
    /\ pc \in Taken => dc \in Datacenters /\ gpu \in Gpus
    /\ Chosen => Admissible(dc, gpu)
    /\ pc \in {"create", "retry", "created"} /\ options.storage = "network_volume" =>
         volume = dc
    /\ pc = "retry" => EffectiveFallback # NoCloud
    /\ pc = "created" =>
         \/ podCloud = options.cloud /\ podPrice = prices[gpu]
         \/ podCloud = EffectiveFallback /\ EffectiveFallback # NoCloud

Inv == TypeOK /\ Sightings /\ Progress

-----------------------------------------------------------------------------

\* A fallback cloud type that survives _resolve_effective_fallback_cloud_type is
\* another cloud type, and is never used with a network volume.
LEMMA FallbackIsOther ==
    ASSUME options \in Options, EffectiveFallback # NoCloud
    PROVE  /\ EffectiveFallback \in Clouds \ {options.cloud}
           /\ options.storage # "network_volume"
  BY DEF EffectiveFallback, Options, Clouds, NoCloud

\* The walk starts before every GPU, with every variable of its type.
LEMMA Initially == Init => Inv
<1> SUFFICES ASSUME Init PROVE TypeOK /\ Sightings /\ Progress BY DEF Inv
<1>1. TypeOK
  <2>1. None \in Amounts /\ 1 \in 1 .. NumDatacenters + 1 /\ 1 \in 1 .. NumGpus + 1
    BY SizeAssumption DEF None, Amounts
  <2>2. prices \in [Gpus -> Amounts] /\ cap \in Amounts /\ podPrice \in Amounts
    BY <2>1 DEF Init
  <2>3. found \in BOOLEAN /\ steady \in BOOLEAN
    BY DEF Init
  <2>4. trail \in Seq(Events)
    BY DEF Init
  <2> QED BY <2>1, <2>2, <2>3, <2>4 DEF Init, TypeOK, Places
<1>2. Sightings
  BY SizeAssumption DEF Init, Sightings, Datacenters
<1>3. Progress
  <2>1. WalkedPast
    BY SizeAssumption DEF Init, WalkedPast, Before, Datacenters, Gpus
  <2> QED BY <2>1 DEF Init, Progress, Chosen, Taken
<1> QED BY <1>1, <1>2, <1>3

\* The places of the walk: positions in the two lists, and one past their ends.
LEMMA Positions ==
    /\ 1 \in Datacenters /\ 1 \in Gpus
    /\ \A d \in Datacenters :
         /\ d \in 1 .. NumDatacenters + 1 /\ d + 1 \in 1 .. NumDatacenters + 1
         /\ d < NumDatacenters => d + 1 \in Datacenters
         /\ d < NumDatacenters <=> d # NumDatacenters
    /\ \A g \in Gpus : g \in 1 .. NumGpus + 1 /\ g + 1 \in 1 .. NumGpus + 1
  BY SizeAssumption DEF Datacenters, Gpus

\* What on_failover adds to the buffered events (_buffer_failover).
LEMMA FailoverAppends ==
    ASSUME TypeOK, dc \in Datacenters, NEW why \in {"no match", "price"},
           NEW g \in Gpus \cup {None}, OnFailover(why, g)
    PROVE  \E e \in Events :
             /\ e = [from |-> dc, to |-> IF dc = NumDatacenters THEN None ELSE dc + 1,
                     why |-> why, about |-> g]
             /\ trail' = Append(trail, e)
             /\ trail' \in Seq(Events)
<1>1. NextDatacenter(dc) \in Datacenters \cup {None}
  BY Positions DEF NextDatacenter
<1>2. NextDatacenter(dc) = IF dc = NumDatacenters THEN None ELSE dc + 1
  BY Positions DEF NextDatacenter
<1> DEFINE e == [from |-> dc, to |-> NextDatacenter(dc), why |-> why, about |-> g]
<1>3. e \in Events
  BY <1>1 DEF Events
<1>4. trail' = Append(trail, e)
  BY DEF OnFailover
<1>5. trail' \in Seq(Events)
  BY <1>3, <1>4, AppendProperties DEF TypeOK
<1> QED BY <1>2, <1>3, <1>4, <1>5

\* Each step of the walk and of the provisioning keeps the types.
LEMMA TypeStep == Inv /\ [Next]_vars => TypeOK'
<1> SUFFICES ASSUME TypeOK, Progress, [Next]_vars PROVE TypeOK' BY DEF Inv
<1> USE DEF inputs, flags, preflight, walk, pod, Goto, Places
<1>1. CASE SkipDatacenter
  BY <1>1, FailoverAppends, Positions
  DEF SkipDatacenter, UnlistedReport, LeaveDatacenter, TypeOK, Gpus
<1>2. CASE SkipOutOfStock
  BY <1>2, Positions DEF SkipOutOfStock, Visiting, TypeOK
<1>3. CASE SkipTooExpensive
  BY <1>3, FailoverAppends, Positions DEF SkipTooExpensive, Visiting, TypeOK
<1>4. CASE Take
  BY <1>4 DEF Take, TypeOK
<1>5. CASE DatacenterExhausted
  BY <1>5, FailoverAppends, Positions DEF DatacenterExhausted, LeaveDatacenter, TypeOK
<1>6. CASE NoMatch
  BY <1>6 DEF NoMatch, TypeOK
<1>7. CASE ResolveVolume
  BY <1>7 DEF ResolveVolume, TypeOK
<1>8. CASE VolumeNotFound
  BY <1>8 DEF VolumeNotFound, TypeOK
<1>9. CASE CreatePod
  BY <1>9 DEF CreatePod, TypeOK, Progress, Taken, Options
<1>10. CASE StockOut
  BY <1>10 DEF StockOut, TypeOK
<1>11. CASE CreateRefused
  BY <1>11 DEF CreateRefused, TypeOK
<1>12. CASE RetryCreate
  BY <1>12, FallbackIsOther DEF RetryCreate, TypeOK, Progress
<1>13. CASE BeginRun \/ BeginEstimate
  <2>1. cap' \in Amounts
    BY <1>13, SizeAssumption DEF BeginRun, BeginEstimate, Amounts, None
  <2> QED BY <1>13, <2>1 DEF BeginRun, BeginEstimate, ReadListingAndPrices, TypeOK
<1>19. CASE BeginOverride
  <2>1. prices' \in [Gpus -> Amounts]
    <3>1. PICK price \in Amounts : prices' = [prices EXCEPT ![gpu'] = price]
      BY <1>19 DEF BeginOverride
    <3> QED BY <3>1 DEF TypeOK
  <2> QED BY <1>19, <2>1, Positions DEF BeginOverride, TypeOK
<1>14. CASE AskDatacenter
  <2>1. scan \in Datacenters /\ found' \in BOOLEAN
    BY <1>14 DEF AskDatacenter, TypeOK, AnyAvailable, StockedIn, Available
  <2> QED BY <1>14, <2>1, Positions DEF AskDatacenter, TypeOK
<1>15. CASE DatacenterNotFound
  BY <1>15 DEF DatacenterNotFound, TypeOK
<1>16. CASE Report
  BY <1>16 DEF Report, TypeOK
<1>17. CASE StockChanges
  <2>1. stock' \in [Datacenters -> [Gpus -> Stocks]]
    <3>1. PICK d \in listed, g \in Gpus, s \in Stocks :
            stock' = [stock EXCEPT ![d][g] = s]
      BY <1>17 DEF StockChanges
    <3>2. d \in Datacenters /\ stock[d] \in [Gpus -> Stocks]
      BY <3>1 DEF TypeOK
    <3> QED BY <3>1, <3>2 DEF TypeOK
  <2> QED BY <1>17, <2>1 DEF StockChanges, TypeOK
<1>18. CASE UNCHANGED vars
  BY <1>18 DEF vars, TypeOK
<1> QED BY <1>1, <1>2, <1>3, <1>4, <1>5, <1>6, <1>7, <1>8, <1>9, <1>10, <1>11,
           <1>12, <1>13, <1>14, <1>15, <1>16, <1>17, <1>18, <1>19
        DEF Next, Preflight, Walk, Provision

\* What the preflight has seen stays so until the stock changes.
LEMMA SightingStep == Inv /\ [Next]_vars => Sightings'
<1> SUFFICES ASSUME TypeOK, Sightings, [Next]_vars PROVE Sightings' BY DEF Inv
<1>1. CASE AskDatacenter
  <2>1. scan \in Datacenters /\ scan' = scan + 1 /\ UNCHANGED <<listed, stock, steady, pc>>
    BY <1>1 DEF AskDatacenter, TypeOK
  <2>2. \A d \in Datacenters : d < scan' <=> d < scan \/ d = scan
    BY <2>1, SizeAssumption DEF Datacenters
  <2>3. \A d : StockedIn(d)' <=> StockedIn(d)
    BY <2>1 DEF StockedIn, Available
  <2>4. found' <=> found \/ StockedIn(scan)
    BY <1>1 DEF AskDatacenter, AnyAvailable
  <2>5. verdict' = "none" /\ scan \in listed /\ scan' # 1
    BY <1>1, <2>1, SizeAssumption DEF AskDatacenter, Sightings, Datacenters
  <2> QED BY <2>1, <2>2, <2>3, <2>4, <2>5 DEF Sightings
<1>2. CASE DatacenterNotFound
  BY <1>2 DEF DatacenterNotFound, Goto, flags, Sightings, StockedIn, Available
<1>3. CASE Report
  BY <1>3 DEF Report, Goto, flags, Sightings, StockedIn, Available
<1>4. CASE StockChanges
  BY <1>4 DEF StockChanges, flags, Sightings
<1>5. CASE UNCHANGED <<listed, stock, scan, found, verdict, steady>>
           /\ (pc' = "preflight" => pc = "preflight")
  BY <1>5 DEF Sightings, StockedIn, Available
<1>6. CASE Walk
  BY <1>5, <1>6
  DEF Walk, BeginRun, BeginEstimate, BeginOverride, ReadListingAndPrices,
      SkipDatacenter, SkipOutOfStock, SkipTooExpensive, Take, DatacenterExhausted,
      NoMatch, LeaveDatacenter, Goto, inputs, preflight
<1>7. CASE Provision
  BY <1>5, <1>7
  DEF Provision, ResolveVolume, VolumeNotFound, CreatePod, StockOut, CreateRefused,
      RetryCreate, Goto, inputs, preflight
<1>8. CASE UNCHANGED vars
  BY <1>5, <1>8 DEF vars, inputs, preflight
<1> QED BY <1>1, <1>2, <1>3, <1>4, <1>6, <1>7, <1>8 DEF Next, Preflight

\* What lies before the next place is what lies before this one, and this one.
LEMMA BeforeNext ==
    \A d, e \in 1 .. NumDatacenters + 1, g, h \in 1 .. NumGpus + 1 :
        /\ Before(d, g, e, h + 1) => Before(d, g, e, h) \/ (d = e /\ g = h)
        /\ Before(d, g, e + 1, 1) => Before(d, g, e, h) \/ d = e
  BY SizeAssumption DEF Before

\* Neither the preflight nor the start of a walk moves it.
LEMMA StartStep == Inv /\ (Preflight \/ BeginRun \/ BeginEstimate) => Progress'
<1> SUFFICES ASSUME TypeOK, Progress, Preflight \/ BeginRun \/ BeginEstimate
             PROVE  Progress'
  BY DEF Inv
<1>1. pc \in {"preflight", "idle"} /\ UNCHANGED <<dc, gpu>>
  BY DEF Preflight, AskDatacenter, DatacenterNotFound, Report, StockChanges,
         BeginRun, BeginEstimate, ReadListingAndPrices, walk
<1>2. pc' \in {"preflight", "idle", "walk"}
  BY <1>1 DEF Preflight, AskDatacenter, DatacenterNotFound, Report, StockChanges,
         BeginRun, BeginEstimate, ReadListingAndPrices, Goto
<1>3. dc' = 1 /\ gpu' = 1
  BY <1>1 DEF Progress
<1>4. WalkedPast'
  BY <1>3, SizeAssumption DEF WalkedPast, Before, Datacenters, Gpus
<1>5. command' # "override" /\ (pc' \in {"preflight", "idle"} => command' = "none")
  BY <1>1 DEF Progress, Preflight, AskDatacenter, DatacenterNotFound, Report,
         StockChanges, BeginRun, BeginEstimate, ReadListingAndPrices, flags, Goto
<1> QED BY <1>2, <1>3, <1>4, <1>5 DEF Progress, Chosen, Taken

\* The overrides name a datacenter and a GPU, and nobody has walked.
LEMMA OverrideStep == Inv /\ BeginOverride => Progress'
  BY DEF Inv, BeginOverride, Goto, Progress, Chosen, Taken

\* A step of the walk only passes GPUs that are not admissible.
LEMMA WalkStep == Inv /\ Walk => Progress'
<1> SUFFICES ASSUME TypeOK, Progress, Walk, ~BeginRun, ~BeginEstimate, ~BeginOverride
             PROVE  Progress'
  BY StartStep, OverrideStep DEF Inv
<1> USE DEF Goto, Taken
<1>0. pc = "walk" /\ command # "override" /\ UNCHANGED command /\ WalkedPast
  BY DEF Walk, SkipDatacenter, SkipOutOfStock, SkipTooExpensive, Take,
         DatacenterExhausted, NoMatch, LeaveDatacenter, Visiting, inputs, flags,
         Progress
<1>1. \A d \in Datacenters, g \in Gpus :
        d \in 1 .. NumDatacenters + 1 /\ g \in 1 .. NumGpus + 1
  BY Positions
<1>2. UNCHANGED <<listed, stock, prices, cap>>
  BY DEF Walk, SkipDatacenter, SkipOutOfStock, SkipTooExpensive, Take,
         DatacenterExhausted, NoMatch, LeaveDatacenter, inputs, flags
<1>3. \A d, g : Admissible(d, g)' <=> Admissible(d, g)
  BY <1>2 DEF Admissible
<1>4. CASE SkipDatacenter
  <2>1. dc \in Datacenters \ listed /\ dc' = dc + 1 /\ gpu' = 1
    BY <1>4 DEF SkipDatacenter, LeaveDatacenter
  <2>2. \A g : ~Admissible(dc, g)
    BY <2>1 DEF Admissible
  <2>3. gpu \in 1 .. NumGpus + 1 /\ dc \in 1 .. NumDatacenters + 1
    BY DEF TypeOK
  <2>4. WalkedPast'
    BY <1>0, <1>1, <1>3, <2>1, <2>2, <2>3, BeforeNext DEF WalkedPast
  <2> QED BY <1>0, <1>4, <2>4 DEF SkipDatacenter, LeaveDatacenter, Progress, Chosen
<1>5. CASE SkipOutOfStock
  <2>1. WalkedPast'
    BY <1>0, <1>1, <1>3, <1>5, BeforeNext
    DEF SkipOutOfStock, Visiting, TypeOK, WalkedPast, Admissible
  <2> QED BY <1>0, <1>5, <2>1 DEF SkipOutOfStock, Visiting, Progress, Chosen
<1>6. CASE SkipTooExpensive
  <2>1. ~Admissible(dc, gpu)
    BY <1>6 DEF SkipTooExpensive, TooExpensive, Admissible
  <2>2. WalkedPast'
    BY <1>0, <1>1, <1>3, <1>6, <2>1, BeforeNext
    DEF SkipTooExpensive, Visiting, TypeOK, WalkedPast
  <2> QED BY <1>0, <1>6, <2>2 DEF SkipTooExpensive, Visiting, Progress, Chosen
<1>7. CASE Take
  <2>1. Admissible(dc, gpu)
    <3>1. gpu \in Gpus /\ dc \in listed /\ stock[dc][gpu] # "out" /\ ~TooExpensive
      BY <1>7 DEF Take, Visiting
    <3>2. prices[gpu] \in Amounts /\ cap \in Amounts
      BY <3>1 DEF TypeOK
    <3>3. prices[gpu] \in Nat /\ cap \in Nat
      BY <3>2, SizeAssumption DEF Amounts
    <3> QED BY <3>1, <3>3 DEF TooExpensive, Admissible, None
  <2>2. WalkedPast'
    BY <1>0, <1>3, <1>7 DEF Take, WalkedPast
  <2>3. dc \in Datacenters /\ gpu \in Gpus
    BY <1>7 DEF Take, Visiting, TypeOK
  <2>4. UNCHANGED <<dc, gpu>> /\ pc' \in {"volume", "estimated"}
    BY <1>7 DEF Take
  <2>5. Admissible(dc, gpu)'
    BY <1>3, <2>1, <2>4
  <2> QED BY <1>0, <2>2, <2>3, <2>4, <2>5 DEF Progress, Chosen
<1>8. CASE DatacenterExhausted
  <2>1. dc \in Datacenters /\ gpu = NumGpus + 1 /\ dc' = dc + 1 /\ gpu' = 1
    BY <1>8 DEF DatacenterExhausted, LeaveDatacenter, TypeOK
  <2>2. ASSUME NEW d \in Datacenters, NEW g \in Gpus, Before(d, g, dc + 1, 1)
        PROVE  Before(d, g, dc, gpu)
    BY <2>1, <2>2, SizeAssumption DEF Datacenters, Gpus, Before
  <2>4. WalkedPast'
    BY <1>0, <1>3, <2>1, <2>2 DEF WalkedPast
  <2> QED BY <1>0, <1>8, <2>4 DEF DatacenterExhausted, LeaveDatacenter, Progress, Chosen
<1>9. CASE NoMatch
  <2>1. dc = NumDatacenters + 1
    BY <1>9 DEF NoMatch
  <2>2. \A d \in Datacenters, g \in Gpus : Before(d, g, dc, gpu)
    BY <2>1, SizeAssumption DEF Datacenters, Before
  <2>3. \A d \in Datacenters, g \in Gpus : ~Admissible(d, g)'
    BY <1>0, <1>3, <2>2 DEF WalkedPast
  <2> QED BY <1>0, <1>9, <2>3 DEF NoMatch, Progress, Chosen
<1> QED BY <1>4, <1>5, <1>6, <1>7, <1>8, <1>9 DEF Walk

\* From the choice to the pod, the choice stays what it is.
LEMMA ProvisionStep == Inv /\ Provision => Progress'
<1> SUFFICES ASSUME TypeOK, Progress, Provision PROVE Progress' BY DEF Inv
<1> USE DEF inputs, flags, pod, Goto, Progress, WalkedPast, Admissible, Chosen,
            EffectiveFallback, Taken
<1>1. CASE ResolveVolume BY <1>1 DEF ResolveVolume, TypeOK, Options
<1>2. CASE VolumeNotFound BY <1>2 DEF VolumeNotFound
<1>3. CASE CreatePod BY <1>3 DEF CreatePod
<1>4. CASE StockOut BY <1>4 DEF StockOut
<1>5. CASE CreateRefused BY <1>5 DEF CreateRefused
<1>6. CASE RetryCreate BY <1>6 DEF RetryCreate
<1> QED BY <1>1, <1>2, <1>3, <1>4, <1>5, <1>6 DEF Provision

\* The inductive invariant holds in every reachable state of the selection.
LEMMA InvCorrect == Spec => []Inv
<1>1. Inv /\ UNCHANGED vars => Progress'
  BY DEF Inv, vars, inputs, flags, walk, pod, Progress, WalkedPast, Admissible,
         Chosen, Taken, EffectiveFallback
<1>2. Inv /\ [Next]_vars => Inv'
  BY <1>1, TypeStep, SightingStep, StartStep, WalkStep, ProvisionStep DEF Inv, Next
<1> QED BY Initially, <1>2, PTL DEF Spec

\* The events reported so far, and their order.
Told(e) == \E k \in 1 .. Len(trail) : trail[k] = e
Ordered == \A j, k \in 1 .. Len(trail) : j < k => Earlier(trail[j], trail[k])

\* One more event that everything told so far precedes.
LEMMA OneMoreEvent ==
    ASSUME TypeOK, NEW e \in Events, trail' = Append(trail, e)
    PROVE  /\ \A f : Told(f)' <=> Told(f) \/ f = e
           /\ Ordered /\ (\A f \in Events : Told(f) => Earlier(f, e)) => Ordered'
<1>1. trail \in Seq(Events)
  BY DEF TypeOK
<1> DEFINE n == Len(trail)
<1>2. n \in Nat /\ \A k \in 1 .. n : trail[k] \in Events
  BY <1>1, LenProperties
<1>3. /\ Len(trail') = n + 1
      /\ \A k \in 1 .. n : trail'[k] = trail[k]
      /\ trail'[n + 1] = e
  BY <1>1, AppendProperties
<1>4. \A k : k \in 1 .. n + 1 <=> k \in 1 .. n \/ k = n + 1
  BY <1>2
<1>5. \A j, k \in 1 .. n + 1 : j < k => j \in 1 .. n
  BY <1>2
<1> HIDE DEF n
<1>6. \A f : Told(f)' <=> Told(f) \/ f = e
  BY <1>3, <1>4 DEF Told, n
<1>7. ASSUME Ordered, \A f \in Events : Told(f) => Earlier(f, e),
             NEW j \in 1 .. n + 1, NEW k \in 1 .. n + 1, j < k
      PROVE  Earlier(trail'[j], trail'[k])
  <2>1. j \in 1 .. n /\ trail'[j] = trail[j]
    BY <1>3, <1>5, <1>7
  <2>2. CASE k \in 1 .. n
    BY <1>3, <1>7, <2>1, <2>2 DEF Ordered, n
  <2>3. CASE k = n + 1
    BY <1>2, <1>3, <1>7, <2>1, <2>3 DEF Told, n
  <2> QED BY <1>4, <2>2, <2>3
<1>8. Ordered /\ (\A f \in Events : Told(f) => Earlier(f, e)) => Ordered'
  <2> SUFFICES ASSUME Ordered, \A f \in Events : Told(f) => Earlier(f, e)
               PROVE  Ordered'
    OBVIOUS
  <2>1. \A j, k \in 1 .. n + 1 : j < k => Earlier(trail'[j], trail'[k])
    BY <1>7
  <2>2. \A f, g : Earlier(f, g)' <=> Earlier(f, g)
    BY DEF Earlier
  <2> QED BY <1>3, <2>1, <2>2 DEF Ordered
<1> QED BY <1>6, <1>8

\* The first place of a walk.
LEMMA NothingBefore ==
    \A d \in Datacenters : ~(d < 1) /\ \A g \in Gpus : ~Before(d, g, 1, 1)
  BY SizeAssumption DEF Before, Datacenters, Gpus

\* Before the first step of a walk there is nothing to report.
LEMMA NothingHappenedYet == dc = 1 /\ gpu = 1 => \A e \in Events : ~Happened(e)
  BY NothingBefore DEF Happened, Events

\* A step of the walk, past d or past g in d, adds what it passed.
LEMMA TrailGrows ==
    ASSUME TypeOK, TrailTellsTheWalk, NEW e \in Events, trail' = Append(trail, e),
           \A f \in Events : Happened(f)' <=> Happened(f) \/ f = e,
           \A f \in Events : Happened(f) => Earlier(f, e)
    PROVE  TrailTellsTheWalk'
<1>1. (\A f \in Events : Told(f) <=> Happened(f)) /\ Ordered
  BY DEF TrailTellsTheWalk, Told, Ordered
<1>2. \A f \in Events : Told(f)' <=> Happened(f)'
  BY <1>1, OneMoreEvent
<1>3. Ordered'
  BY <1>1, OneMoreEvent
<1> QED BY <1>2, <1>3 DEF TrailTellsTheWalk, Told, Ordered

\* Every step of the walk reports what it does, and no other step reports.
LEMMA TrailStep == Inv /\ TrailTellsTheWalk /\ [Next]_vars => TrailTellsTheWalk'
<1> SUFFICES ASSUME TypeOK, Progress, TrailTellsTheWalk, [Next]_vars
             PROVE  TrailTellsTheWalk'
  BY DEF Inv
<1>0. /\ dc \in Nat /\ gpu \in Nat
      /\ \A e \in Events :
           /\ e.from \in Nat /\ e.from \in Datacenters
           /\ e.about \in Gpus => e.about \in Nat /\ e.about <= NumGpus
           /\ e = [from |-> e.from, to |-> e.to, why |-> e.why, about |-> e.about]
  <2>1. dc \in Nat /\ gpu \in Nat
    BY SizeAssumption DEF TypeOK
  <2>2. (\A d \in Datacenters : d \in Nat) /\ \A g \in Gpus : g \in Nat /\ g <= NumGpus
    BY SizeAssumption DEF Datacenters, Gpus
  <2>3. ASSUME NEW e \in Events
        PROVE  /\ e.from \in Datacenters
               /\ e = [from |-> e.from, to |-> e.to, why |-> e.why, about |-> e.about]
    BY DEF Events
  <2> QED BY <2>1, <2>2, <2>3
<1>1. ASSUME UNCHANGED trail, \A e \in Events : Happened(e)' <=> Happened(e)
      PROVE  TrailTellsTheWalk'
  <2>1. \A e, f : Earlier(e, f)' <=> Earlier(e, f)
    BY DEF Earlier
  <2> QED BY <1>1, <2>1 DEF TrailTellsTheWalk
<1>2. CASE UNCHANGED <<trail, dc, gpu, listed, stock, prices, cap, command>>
  BY <1>1, <1>2 DEF Happened, Before, OverCap
<1>3. CASE Preflight \/ BeginRun \/ BeginEstimate \/ BeginOverride
  <2>1. dc = 1 /\ gpu = 1 /\ UNCHANGED trail
    BY <1>3 DEF Progress, Preflight, AskDatacenter, DatacenterNotFound, Report,
       StockChanges, BeginRun, BeginEstimate, ReadListingAndPrices, BeginOverride, walk
  <2>2. command' = "override" \/ (dc' = 1 /\ gpu' = 1)
    <3>1. CASE BeginOverride
      BY <3>1 DEF BeginOverride
    <3>2. CASE Preflight \/ BeginRun \/ BeginEstimate
      BY <2>1, <3>2 DEF Preflight, AskDatacenter, DatacenterNotFound, Report,
         StockChanges, BeginRun, BeginEstimate, ReadListingAndPrices, walk
    <3> QED BY <1>3, <3>1, <3>2
  <2>3. \A e \in Events : ~Happened(e)
    BY <2>1, NothingHappenedYet
  <2>4. \A e \in Events : ~Happened(e)'
    <3>1. CASE command' = "override"
      BY <3>1 DEF Happened
    <3>2. CASE dc' = 1 /\ gpu' = 1
      <4>1. ASSUME NEW e \in Events, Happened(e)' PROVE FALSE
        <5>1. \/ e.from < 1
              \/ e.about \in Gpus /\ Before(e.from, e.about, 1, 1)
          BY <3>2, <4>1 DEF Happened, Before
        <5> QED BY <1>0, <5>1, NothingBefore
      <4> QED BY <4>1
    <3> QED BY <2>2, <3>1, <3>2
  <2> QED BY <1>1, <2>1, <2>3, <2>4
<1>4. CASE SkipOutOfStock
  <2>1. /\ dc \in listed /\ gpu \in Gpus /\ stock[dc][gpu] = "out"
        /\ dc' = dc /\ gpu' = gpu + 1
        /\ UNCHANGED <<trail, listed, stock, prices, cap, command>>
    BY <1>4 DEF SkipOutOfStock, Visiting, inputs, flags
  <2>2. ASSUME NEW e \in Events PROVE Happened(e)' <=> Happened(e)
    <3>1. \A d, g : OverCap(d, g)' <=> OverCap(d, g)
      BY <2>1 DEF OverCap
    <3>2. ~OverCap(dc, gpu)
      BY <2>1 DEF OverCap
    <3>3. e.about \in Gpus =>
            (Before(e.from, e.about, dc, gpu + 1) <=>
               Before(e.from, e.about, dc, gpu) \/ (e.from = dc /\ e.about = gpu))
      BY <1>0 DEF Before
    <3> QED BY <2>1, <3>1, <3>2, <3>3 DEF Happened, Before
  <2> QED BY <1>1, <2>1, <2>2
<1>5. CASE SkipTooExpensive
  <2>1. /\ dc \in Datacenters /\ gpu \in Gpus /\ OverCap(dc, gpu)
        /\ command # "override"
        /\ dc' = dc /\ gpu' = gpu + 1 /\ OnFailover("price", gpu)
        /\ UNCHANGED <<listed, stock, prices, cap, command>>
    BY <1>5 DEF SkipTooExpensive, Visiting, TooExpensive, OverCap, TypeOK, Progress,
                Taken, inputs, flags
  <2>2. PICK e \in Events :
          /\ e = [from |-> dc, to |-> IF dc = NumDatacenters THEN None ELSE dc + 1,
                  why |-> "price", about |-> gpu]
          /\ trail' = Append(trail, e)
    BY <2>1, FailoverAppends
  <2>3. \A d, g : OverCap(d, g)' <=> OverCap(d, g)
    BY <2>1 DEF OverCap
  <2>4. ASSUME NEW f \in Events PROVE Happened(f)' <=> Happened(f) \/ f = e
    <3>1. f.about \in Gpus =>
            (Before(f.from, f.about, dc, gpu + 1) <=>
               Before(f.from, f.about, dc, gpu) \/ (f.from = dc /\ f.about = gpu))
      BY <1>0 DEF Before
    <3>2. f = e <=> /\ f.from = dc /\ f.why = "price" /\ f.about = gpu
                    /\ f.to = IF f.from = NumDatacenters THEN None ELSE f.from + 1
      BY <1>0, <2>2
    <3> QED BY <2>1, <2>3, <3>1, <3>2 DEF Happened, Before
  <2>5. ASSUME NEW f \in Events, Happened(f) PROVE Earlier(f, e)
    BY <1>0, <2>1, <2>2, <2>5 DEF Happened, Before, Earlier
  <2> QED BY <2>2, <2>4, <2>5, TrailGrows
<1>6. CASE SkipDatacenter \/ DatacenterExhausted
  <2>1. /\ dc \in Datacenters /\ command # "override"
        /\ dc' = dc + 1 /\ gpu' = 1 /\ OnFailover("no match", None)
        /\ UNCHANGED <<listed, stock, prices, cap, command>>
        /\ dc \notin listed \/ gpu = NumGpus + 1
    BY <1>6 DEF SkipDatacenter, DatacenterExhausted, UnlistedReport, LeaveDatacenter,
                TypeOK, Progress, Taken, inputs, flags
  <2>2. PICK e \in Events :
          /\ e = [from |-> dc, to |-> IF dc = NumDatacenters THEN None ELSE dc + 1,
                  why |-> "no match", about |-> None]
          /\ trail' = Append(trail, e)
    BY <2>1, FailoverAppends
  <2>3. \A d, g : OverCap(d, g)' <=> OverCap(d, g)
    BY <2>1 DEF OverCap
  <2>4. ASSUME NEW f \in Events PROVE Happened(f)' <=> Happened(f) \/ f = e
    <3>1. f.about \in Gpus /\ OverCap(f.from, f.about) =>
            (Before(f.from, f.about, dc + 1, 1) <=> Before(f.from, f.about, dc, gpu))
      <4>1. f.about \in Gpus => f.about \in 1 .. NumGpus /\ f.about >= 1
        BY SizeAssumption DEF Gpus
      <4>2. NumGpus \in Nat /\ f.from \in Nat /\ dc \in Nat /\ gpu \in Nat
        BY <1>0, SizeAssumption
      <4>3. CASE dc \notin listed
        BY <4>1, <4>2, <4>3 DEF Before, OverCap
      <4>4. CASE gpu = NumGpus + 1
        BY <4>1, <4>2, <4>4 DEF Before
      <4> QED BY <2>1, <4>3, <4>4
    <3>2. f = e <=> /\ f.from = dc /\ f.why = "no match" /\ f.about = None
                    /\ f.to = IF f.from = NumDatacenters THEN None ELSE f.from + 1
      BY <1>0, <2>2
    <3>3. f.from < dc + 1 <=> f.from < dc \/ f.from = dc
      BY <1>0
    <3> QED BY <2>1, <2>3, <3>1, <3>2, <3>3 DEF Happened, Before
  <2>5. ASSUME NEW f \in Events, Happened(f) PROVE Earlier(f, e)
    BY <1>0, <2>1, <2>2, <2>5 DEF Happened, Before, Earlier
  <2> QED BY <2>2, <2>4, <2>5, TrailGrows
<1>7. CASE Take \/ NoMatch \/ Provision \/ UNCHANGED vars
  BY <1>2, <1>7
  DEF Take, NoMatch, Provision, ResolveVolume, VolumeNotFound, CreatePod, StockOut,
      CreateRefused, RetryCreate, vars, inputs, flags, walk, pod
<1> QED BY <1>3, <1>4, <1>5, <1>6, <1>7 DEF Next, Walk

-----------------------------------------------------------------------------

\* Every variable has its type: the index of the walk stays in its lists.
THEOREM SelectionTypes == Spec => []TypeOK
<1>1. Inv => TypeOK BY DEF Inv
<1> QED BY InvCorrect, <1>1, PTL

\* select_gpu_across_datacenters takes the first admissible GPU, datacenters in
\* their order and GPUs in theirs, and raises only when there is none.
THEOREM FirstAdmissible == Spec => []TakesFirstAdmissible
<1>1. Inv => TakesFirstAdmissible
  BY DEF Inv, Progress, WalkedPast, TakesFirstAdmissible, Chosen
<1> QED BY InvCorrect, <1>1, PTL

\* The failover events of select_gpu_across_datacenters are, in order and once
\* each, the datacenters it left and the GPUs that only their price ruled out; an
\* event about a price does not mean that its datacenter was left.
THEOREM TrailIsTrue == Spec => []TrailTellsTheWalk
<1>1. Init => TrailTellsTheWalk
  <2> SUFFICES ASSUME Init PROVE TrailTellsTheWalk OBVIOUS
  <2>1. \A e \in Events : ~Happened(e)
    BY NothingHappenedYet DEF Init
  <2>2. Len(trail) = 0
    BY DEF Init
  <2> QED BY <2>1, <2>2 DEF TrailTellsTheWalk
<1> QED BY <1>1, InvCorrect, TrailStep, PTL DEF Spec

\* A GPU above --max-gpu-price is bought only by the retry on another cloud type
\* (_provision_with_optional_fallback) or under --gpu-id and --datacenter-id.
THEOREM CapKeptWithoutFallback == Spec => []OverCapOnlyAfterFallback
<1>1. Inv => OverCapOnlyAfterFallback
  BY FallbackIsOther DEF Inv, TypeOK, Progress, OverCapOnlyAfterFallback, Chosen, Admissible
<1> QED BY InvCorrect, <1>1, PTL

\* A network volume is mounted from the pod's datacenter (resolve_volume), and
\* its pod is created on the configured cloud type.
THEOREM VolumeAlwaysReachable == Spec => []VolumeReachable
<1>1. Inv => VolumeReachable
  BY FallbackIsOther DEF Inv, TypeOK, Progress, VolumeReachable
<1> QED BY InvCorrect, <1>1, PTL

\* A preflight that found a GPU in stock is right about the walk, unless the stock
\* changed after its first call or the run has a price cap (preflight.py:178).
THEOREM PreflightIsRight == Spec => []PreflightKeepsItsWord
<1>1. Inv => PreflightKeepsItsWord
  BY DEF Inv, Sightings, Progress, PreflightKeepsItsWord, StockedIn, Available, Admissible
<1> QED BY InvCorrect, <1>1, PTL

\* A stock-out report over a steady stock is contradicted only by a stock whose
\* name preflight.py does not know (preflight.py:33-34).
THEOREM StockOutIsRight == Spec => []StockOutIsNoFalseAlarm
<1> SUFFICES ASSUME Inv, verdict = "stock-out", steady, Chosen
             PROVE  stock[dc][gpu] = "limited"
  <2>1. Inv => StockOutIsNoFalseAlarm
    BY DEF StockOutIsNoFalseAlarm
  <2> QED BY InvCorrect, <2>1, PTL
<1>1. dc \in Datacenters /\ gpu \in Gpus /\ stock[dc][gpu] \in {"low", "limited"}
  BY DEF Inv, Progress, TypeOK, Admissible, Stocks, Chosen, Taken
<1>2. ~StockedIn(dc)
  <2>1. dc < scan
    BY <1>1, SizeAssumption DEF Inv, Sightings, Datacenters
  <2> QED BY <1>1, <2>1 DEF Inv, Sightings
<1> QED BY <1>1, <1>2 DEF StockedIn, Available
=============================================================================
