---------------------------- MODULE GpuSelection ----------------------------
(***************************************************************************)
(* How a run settles on a GPU, a datacenter and a cloud type: the walk of  *)
(* select_gpu_across_datacenters over one snapshot of the stock, the       *)
(* network volume that has to be in the datacenter the walk ends in, and   *)
(* the one retry of `pod create` on another cloud type.  `estimate` makes  *)
(* the same walk and stops there; `run --gpu-id --datacenter-id` makes     *)
(* none.                                                                   *)
(*                                                                         *)
(* Before it, the user may have asked for the stock with `validate         *)
(* --check-availability` or `gpu-inventory`.  Those list the datacenters   *)
(* anew for each one they look at, so the stock may change in between.     *)
(*                                                                         *)
(* A datacenter is its position in pod.datacenters, a GPU its position in  *)
(* pod.gpu_order.  What RunPod answers after the walk is chosen when it    *)
(* answers.                                                                *)
(***************************************************************************)
EXTENDS Naturals, Sequences

CONSTANTS
    NumDatacenters,  \* Len(pod.datacenters)
    NumGpus,         \* Len(pod.gpu_order)
    MaxPrice         \* prices and the cap are 1 .. MaxPrice dollars an hour

ASSUME SizeAssumption ==
    NumDatacenters \in Nat \ {0} /\ NumGpus \in Nat \ {0} /\ MaxPrice \in Nat \ {0}

Datacenters == 1 .. NumDatacenters
Gpus == 1 .. NumGpus
Clouds == {"SECURE", "COMMUNITY"}
None == 0          \* no price, no cap, no GPU, no next datacenter, nothing chosen
NoCloud == "none"
Amounts == 0 .. MaxPrice

\* No stock (or the GPU is not listed), a tier that preflight.py knows, and
\* one that it does not.
Stocks == {"out", "low", "limited"}

Options == [cloud : Clouds, fallback : Clouds \cup {NoCloud},
            storage : {"network_volume", "ephemeral"}]

VARIABLES
    \* RunPod, the prices, the flags and the config
    listed,    \* datacenters that runpodctl lists, with a list of GPUs
    stock,     \* the stock of each GPU in each of them
    prices,    \* the price of each GPU on the configured cloud, if known
    cap,       \* --max-gpu-price, if given
    options,   \* pod.cloud_type, --fallback-cloud-type and storage.mode
    command,   \* `run`, a run with both overrides, or `estimate`
    \* the preflight
    scan,      \* the datacenter it asks about next
    found,     \* any_available
    verdict,   \* what it told the user
    steady,    \* the stock has not changed since its first call
    \* the walk
    pc,        \* what happens next
    dc,        \* the datacenter the walk is in, or the override
    gpu,       \* the GPU it looks at next, or the override
    trail,     \* the datacenter_failover events, in order
    \* the pod
    volume,    \* datacenter of the network volume
    podCloud,  \* cloud type of the pod
    podPrice   \* what the pod costs there, if the price is known

flags == <<prices, cap, options, command>>
preflight == <<scan, found, verdict, steady>>
inputs == <<listed, stock, flags, preflight>>
walk == <<dc, gpu, trail>>
pod == <<volume, podCloud, podPrice>>
vars == <<inputs, pc, walk, pod>>

Init ==
    /\ listed \in SUBSET Datacenters
    /\ stock \in [Datacenters -> [Gpus -> Stocks]]
    /\ \A d \in Datacenters \ listed, g \in Gpus : stock[d][g] = "out"
    /\ prices = [g \in Gpus |-> None] /\ cap = None /\ command = "none"
    /\ options \in Options
    /\ pc \in {"preflight", "idle"}
    /\ scan = 1 /\ found = FALSE /\ verdict = "none" /\ steady = TRUE
    /\ dc = 1 /\ gpu = 1 /\ trail = <<>>
    /\ volume = None /\ podCloud = NoCloud /\ podPrice = None

Goto(place) == pc' = place

-----------------------------------------------------------------------------
(***************************************************************************)
(* preflight.py: one call of runpodctl for each datacenter.                *)
(***************************************************************************)

AvailableIfListed(d, g) == d \in listed

\* _AVAILABLE_STOCK.
Available(d, g) == stock[d][g] = "low"

\* _check_one_datacenter, and any_stocked of one DatacenterInventory.
StockedIn(d) == \E g \in Gpus : Available(d, g)

FoundInTheLast == StockedIn(scan)

AnyAvailable == found \/ StockedIn(scan)

AskDatacenter ==
    /\ pc = "preflight" /\ scan \in listed
    /\ found' = AnyAvailable
    /\ scan' = scan + 1
    /\ UNCHANGED <<listed, stock, flags, verdict, steady, pc, walk, pod>>

\* fetch_datacenter_payload raises, and so does a gpuAvailability that is no list.
DatacenterNotFound ==
    /\ pc = "preflight" /\ scan \in Datacenters \ listed
    /\ verdict' = "raised"
    /\ Goto("idle")
    /\ UNCHANGED <<listed, stock, flags, scan, found, steady, walk, pod>>

\* `validate` passes or raises, `gpu-inventory` exits with 0 or 3.
Report ==
    /\ pc = "preflight" /\ scan = NumDatacenters + 1
    /\ verdict' = IF found THEN "stocked" ELSE "stock-out"
    /\ Goto("idle")
    /\ UNCHANGED <<listed, stock, flags, scan, found, steady, walk, pod>>

\* Somebody rents or frees a GPU, after the first call and before the walk.
StockChanges ==
    /\ pc \in {"preflight", "idle"} /\ scan # 1
    /\ \E d \in listed, g \in Gpus, s \in Stocks :
         s # stock[d][g] /\ stock' = [stock EXCEPT ![d][g] = s]
    /\ steady' = FALSE
    /\ UNCHANGED <<listed, flags, scan, found, verdict, pc, walk, pod>>

Preflight == AskDatacenter \/ DatacenterNotFound \/ Report \/ StockChanges

-----------------------------------------------------------------------------
(***************************************************************************)
(* The walk: one listing, the prices of the day, and                       *)
(* select_gpu_across_datacenters.                                          *)
(***************************************************************************)

ReadListingAndPrices ==
    /\ pc = "idle"
    /\ prices' \in [Gpus -> Amounts]
    /\ Goto("walk")
    /\ UNCHANGED <<listed, stock, options, preflight, walk, pod>>

\* `run`, with --max-gpu-price or without.
BeginRun == command' = "run" /\ cap' \in Amounts /\ ReadListingAndPrices

\* `estimate` knows no cap.
BeginEstimate == command' = "estimate" /\ cap' = None /\ ReadListingAndPrices

\* `run --gpu-id --datacenter-id`: no listing is read, no price compared with the
\* cap.  What RunPod asks for the GPU, nobody has looked at.
BeginOverride ==
    /\ pc = "idle"
    /\ command' = "override" /\ cap' \in Amounts
    /\ dc' \in Datacenters /\ gpu' \in Gpus
    /\ \E price \in Amounts : prices' = [prices EXCEPT ![gpu'] = price]
    /\ Goto("volume")
    /\ UNCHANGED <<listed, stock, options, preflight, trail, pod>>

NextDatacenterUnchecked(d) == d + 1

\* The next datacenter of the config, if there is one.
NextDatacenter(d) == IF d < NumDatacenters THEN d + 1 ELSE None

\* A datacenter_failover event; only a reason about a price names a GPU.
Events == [from : Datacenters, to : Datacenters \cup {None},
           why : {"no match", "price"}, about : Gpus \cup {None}]

\* on_failover is called with the datacenter, the next one and a reason.
OnFailover(why, g) ==
    trail' = Append(trail, [from |-> dc, to |-> NextDatacenter(dc),
                            why |-> why, about |-> g])

LeaveDatacenter ==
    /\ dc' = dc + 1
    /\ gpu' = 1
    /\ UNCHANGED <<inputs, pc, pod>>

UnlistedUnreported == UNCHANGED trail

UnlistedReport == OnFailover("no match", None)

\* Not in the list, or its gpuAvailability is no list.
SkipDatacenter ==
    /\ pc = "walk" /\ dc \in Datacenters \ listed
    /\ UnlistedReport
    /\ LeaveDatacenter

Visiting == pc = "walk" /\ dc \in listed /\ gpu \in Gpus

TooExpensiveAtCap == cap # None /\ prices[gpu] # None /\ prices[gpu] >= cap
TooExpensiveByFirst == cap # None /\ prices[1] # None /\ prices[1] > cap

\* Only a price that is known can be over the cap.
TooExpensive == cap # None /\ prices[gpu] # None /\ prices[gpu] > cap

SkipOutOfStock ==
    /\ Visiting /\ stock[dc][gpu] = "out"
    /\ gpu' = gpu + 1
    /\ UNCHANGED <<inputs, pc, dc, trail, pod>>

\* Reported like a datacenter that is left, although the walk stays in it.
SkipTooExpensive ==
    /\ Visiting /\ stock[dc][gpu] # "out" /\ TooExpensive
    /\ OnFailover("price", gpu)
    /\ gpu' = gpu + 1
    /\ UNCHANGED <<inputs, pc, dc, pod>>

Take ==
    /\ Visiting /\ stock[dc][gpu] # "out" /\ ~TooExpensive
    /\ Goto(IF command = "estimate" THEN "estimated" ELSE "volume")
    /\ UNCHANGED <<inputs, dc, gpu, trail, pod>>

DatacenterExhausted ==
    /\ pc = "walk" /\ dc \in listed /\ gpu = NumGpus + 1
    /\ OnFailover("no match", None)
    /\ LeaveDatacenter

\* RuntimeError: no configured GPU available across the datacenters.
NoMatch ==
    /\ pc = "walk" /\ dc = NumDatacenters + 1
    /\ Goto("no match")
    /\ UNCHANGED <<inputs, dc, gpu, trail, pod>>

-----------------------------------------------------------------------------
(***************************************************************************)
(* From the choice to a pod.                                               *)
(***************************************************************************)

\* _resolve_volume_id: the first volume of that name has to be in the
\* datacenter that was chosen.
ResolveVolume ==
    /\ pc = "volume"
    /\ IF options.storage = "ephemeral"
         THEN Goto("create") /\ UNCHANGED volume
         ELSE \E d \in Datacenters :
                /\ volume' = d
                /\ Goto(IF d = dc THEN "create" ELSE "raised")
    /\ UNCHANGED <<inputs, dc, gpu, trail, podCloud, podPrice>>

VolumeNotFound ==
    /\ pc = "volume" /\ options.storage = "network_volume"
    /\ Goto("raised")
    /\ UNCHANGED <<inputs, dc, gpu, trail, pod>>

CreatePod ==
    /\ pc = "create"
    /\ podCloud' = options.cloud
    /\ podPrice' = prices[gpu]
    /\ Goto("created")
    /\ UNCHANGED <<inputs, dc, gpu, trail, volume>>

FallbackWhatever == options.fallback

\* _resolve_effective_fallback_cloud_type.
EffectiveFallback ==
    IF options.storage = "network_volume" \/ options.fallback = options.cloud
      THEN NoCloud ELSE options.fallback

\* "machine does not have the resources": one retry on the other cloud type,
\* for the GPU and the datacenter already chosen, at that cloud's price.
StockOut ==
    /\ pc = "create"
    /\ Goto(IF EffectiveFallback = NoCloud THEN "raised" ELSE "retry")
    /\ UNCHANGED <<inputs, dc, gpu, trail, pod>>

\* Any other error of `pod create`.
CreateRefused ==
    /\ pc = "create"
    /\ Goto("raised")
    /\ UNCHANGED <<inputs, dc, gpu, trail, pod>>

RetryCreate ==
    /\ pc = "retry"
    /\ \/ /\ podCloud' = EffectiveFallback
          /\ podPrice' \in Amounts
          /\ Goto("created")
       \/ Goto("raised") /\ UNCHANGED <<podCloud, podPrice>>
    /\ UNCHANGED <<inputs, dc, gpu, trail, volume>>

Walk ==
    \/ BeginRun \/ BeginEstimate \/ BeginOverride
    \/ SkipDatacenter \/ SkipOutOfStock \/ SkipTooExpensive \/ Take
    \/ DatacenterExhausted \/ NoMatch

Provision ==
    \/ ResolveVolume \/ VolumeNotFound
    \/ CreatePod \/ StockOut \/ CreateRefused \/ RetryCreate

Next == Preflight \/ Walk \/ Provision

Spec == Init /\ [][Next]_vars

-----------------------------------------------------------------------------
(***************************************************************************)
(* What the code should guarantee.                                         *)
(***************************************************************************)

Places == {"preflight", "idle", "walk", "no match", "estimated", "volume",
           "create", "retry", "created", "raised"}

\* There was a walk, and it took a GPU.
Chosen ==
    /\ command # "override"
    /\ pc \in {"estimated", "volume", "create", "retry", "created", "raised"}

\* Every variable has its type.
TypeOK ==
    /\ listed \subseteq Datacenters
    /\ stock \in [Datacenters -> [Gpus -> Stocks]]
    /\ prices \in [Gpus -> Amounts] /\ cap \in Amounts /\ options \in Options
    /\ command \in {"none", "run", "override", "estimate"}
    /\ scan \in 1 .. NumDatacenters + 1 /\ found \in BOOLEAN /\ steady \in BOOLEAN
    /\ verdict \in {"none", "raised", "stocked", "stock-out"}
    /\ pc \in Places
    /\ dc \in 1 .. NumDatacenters + 1 /\ gpu \in 1 .. NumGpus + 1
    /\ trail \in Seq(Events)
    /\ volume \in Datacenters \cup {None}
    /\ podCloud \in Clouds \cup {NoCloud}
    /\ podPrice \in Amounts

\* A GPU that a run may take: listed, with some stock, and not known to cost
\* more than the cap.
Admissible(d, g) ==
    d \in listed /\ stock[d][g] # "out" /\ ~(cap # None /\ prices[g] > cap)

Before(d, g, e, h) == d < e \/ (d = e /\ g < h)

\* The walk takes the first admissible GPU, datacenters in their order and
\* GPUs in theirs, and gives up only when there is none.
TakesFirstAdmissible ==
    /\ Chosen => /\ Admissible(dc, gpu)
                 /\ \A d \in Datacenters, g \in Gpus :
                      Before(d, g, dc, gpu) => ~Admissible(d, g)
    /\ pc = "no match" => \A d \in Datacenters, g \in Gpus : ~Admissible(d, g)

\* In stock, but known to cost more than the cap.
OverCap(d, g) ==
    d \in listed /\ stock[d][g] # "out" /\ cap # None /\ prices[g] > cap

\* What an event means when it is right: the walk has left its datacenter, or
\* has passed over its GPU there for its price alone.
Happened(e) ==
    /\ command # "override"
    /\ e.to = IF e.from = NumDatacenters THEN None ELSE e.from + 1
    /\ \/ e.why = "no match" /\ e.about = None /\ e.from < dc
       \/ /\ e.why = "price" /\ e.about \in Gpus
          /\ Before(e.from, e.about, dc, gpu) /\ OverCap(e.from, e.about)

Earlier(e, f) ==
    \/ e.from < f.from
    \/ e.from = f.from /\ e.why = "price" /\ (f.why = "no match" \/ e.about < f.about)

\* The failover events tell the whole walk and nothing else, each thing once and
\* in the order of the walk: an event without a price for each datacenter that was
\* left, and one for each GPU that only its price ruled out.  The datacenter an
\* event names as the next is the next of the config.  Only of an event without a
\* price is it true that the walk goes on there: after a price it stays where it
\* is, and may take another GPU of the datacenter it reports as failed.
TrailTellsTheWalk ==
    /\ \A e \in Events : (\E k \in 1 .. Len(trail) : trail[k] = e) <=> Happened(e)
    /\ \A j, k \in 1 .. Len(trail) : j < k => Earlier(trail[j], trail[k])

\* A GPU above --max-gpu-price is bought in two ways only: by the retry on another
\* cloud type, since the cap is compared with the price on the configured cloud,
\* and with --gpu-id and --datacenter-id, when it is compared with no price.
OverCapOnlyAfterFallback ==
    pc = "created" /\ cap # None /\ podPrice > cap =>
        podCloud # options.cloud \/ command = "override"

\* A network volume is mounted from the pod's own datacenter, and never on a
\* cloud type the job was not configured for.
VolumeReachable ==
    options.storage = "network_volume" =>
        /\ pc # "retry"
        /\ pc = "created" => volume = dc /\ podCloud = options.cloud

\* A preflight that found a GPU in stock is right about the run, unless the
\* stock changed after its first call or the run has a price cap.
PreflightKeepsItsWord ==
    verdict = "stocked" /\ steady /\ cap = None => pc # "no match"

\* And one that found none, over a stock that did not change, is wrong about a
\* walk in one case only: RunPod names the stock with a word that preflight.py does
\* not know (_AVAILABLE_STOCK) and that provider.py does not know to mean "none".
\* Then the run gets a GPU, although InventoryReport.any_stocked promises that it
\* would "exhaust failover and fail with a stock-out diagnostic".
StockOutIsNoFalseAlarm ==
    verdict = "stock-out" /\ steady /\ Chosen => stock[dc][gpu] = "limited"
=============================================================================
