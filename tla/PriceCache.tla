----------------------------- MODULE PriceCache -----------------------------
(***************************************************************************)
(* The price catalogue on the operator's disk: fetch_gpu_prices as run,    *)
(* estimate, gpu-list and gpu-prices call it, each a process of its own,   *)
(* with one cache file between them.                                       *)
(*                                                                         *)
(* The file is replaced in place: opening it for writing empties it, and   *)
(* what a second writer leaves may be the tail of a longer first one.  A   *)
(* catalogue is represented by the time RunPod gave it.                    *)
(***************************************************************************)
EXTENDS Integers, FiniteSets

CONSTANTS
    Fetchers,   \* processes that ask for prices
    Forced,     \* those with --no-price-cache
    TTL,        \* cache_ttl_sec
    Lag,        \* what a process needs at most from an answer to the file
    MaxTime,    \* bound on the clock
    MaxFaults   \* bound on failures: requests, writes, killed processes

ASSUME ForcedAssumption == Forced \subseteq Fetchers
ASSUME TimeAssumption ==
    TTL \in Nat /\ Lag \in Nat /\ MaxTime \in Nat /\ MaxFaults \in Nat

Times == 0 .. MaxTime

VARIABLES
    now,      \* the clock
    faults,   \* number of failures so far
    cache,    \* prices.json
    stage,    \* where each process is in fetch_gpu_prices
    prices,   \* the catalogue each process holds
    stamp,    \* `fetched_at` of the payload each process is writing
    asked     \* the process sent a request, or has no API key

cacheVars == <<cache, stage, prices, stamp, asked>>

NoPrices == -1                       \* {}
Catalogues == Times \cup {NoPrices}

\* What a file that is written in place may hold.
Absent == [kind |-> "absent"]
Empty == [kind |-> "empty"]
Garbage == [kind |-> "garbage"]
Whole(x) == [kind |-> "whole", value |-> x]

\* Path.write_text on a file that was emptied before: it holds what is
\* written, or what is written and the end of something longer.
Overwritten(old, new) ==
    IF old.kind \in {"whole", "garbage"} THEN {new, Garbage} ELSE {new}

\* json.loads of the file: an emptied one and a mixed one do not parse.
Parses(file) == file.kind = "whole"

Entries == [stamp : Times, prices : Catalogues]
CacheFiles == {Absent, Empty, Garbage} \cup {Whole(e) : e \in Entries}

Stages == {"idle", "read", "ask", "answered", "writing", "returned", "raised", "killed"}

CacheInit ==
    /\ now = 0 /\ faults = 0 /\ cache = Absent
    /\ stage = [f \in Fetchers |-> "idle"]
    /\ prices = [f \in Fetchers |-> NoPrices]
    /\ stamp = [f \in Fetchers |-> 0]
    /\ asked = [f \in Fetchers |-> FALSE]

-----------------------------------------------------------------------------

At(f, s) == stage[f] = s
Becomes(f, s) == stage' = [stage EXCEPT ![f] = s]
Fault == faults < MaxFaults /\ faults' = faults + 1
Asks(f) == asked' = [asked EXCEPT ![f] = TRUE]

\* fetch_gpu_prices returns `c`.
Returns(f, c) ==
    /\ Becomes(f, "returned")
    /\ prices' = [prices EXCEPT ![f] = c]
    /\ stamp' = [stamp EXCEPT ![f] = 0]

\* --no-price-cache goes to RunPod at once.
Fetch(f) ==
    /\ At(f, "idle")
    /\ Becomes(f, IF f \in Forced THEN "ask" ELSE "read")
    /\ UNCHANGED <<now, faults, cache, prices, stamp, asked>>

ExpiredNever(entry) == entry.stamp - now > TTL

\* `time.time() - fetched_at > ttl_sec`.
Expired(entry) == now - entry.stamp > TTL

\* _read_cache: only a file that parses and is young enough counts.
ReadCache(f) ==
    /\ At(f, "read")
    /\ IF Parses(cache) /\ ~Expired(cache.value)
         THEN Returns(f, cache.value.prices)
         ELSE Becomes(f, "ask") /\ UNCHANGED <<prices, stamp>>
    /\ UNCHANGED <<now, faults, cache, asked>>

\* No API key; the request fails, or its answer is not what the query asks for.
AskInVain(f) ==
    /\ At(f, "ask") /\ Fault
    /\ Asks(f)
    /\ Returns(f, NoPrices)
    /\ UNCHANGED <<now, cache>>

\* A connection that breaks or times out after the request was sent is no
\* URLError: _post_graphql does not catch it.
RequestRaises(f) ==
    /\ At(f, "ask") /\ Fault
    /\ Asks(f)
    /\ Becomes(f, "raised")
    /\ UNCHANGED <<now, cache, prices, stamp>>

KeepAlways(c) == TRUE

\* `if prices`: a catalogue without a GPU is not written.
WorthKeeping(c) == c # NoPrices

\* RunPod answers, with prices or with an empty list.
Answer(f) ==
    /\ At(f, "ask")
    /\ Asks(f)
    /\ \E c \in {now, NoPrices} :
         IF WorthKeeping(c)
           THEN /\ prices' = [prices EXCEPT ![f] = c]
                /\ Becomes(f, "answered")
                /\ UNCHANGED stamp
           ELSE Returns(f, c)
    /\ UNCHANGED <<now, faults, cache>>

\* _write_cache: the payload takes its stamp, and the file is emptied; or the
\* directory or the file cannot be had.
OpenCache(f) ==
    /\ At(f, "answered")
    /\ \/ /\ stamp' = [stamp EXCEPT ![f] = now]
          /\ cache' = Empty
          /\ Becomes(f, "writing")
          /\ UNCHANGED <<prices, faults>>
       \/ Fault /\ Returns(f, prices[f]) /\ UNCHANGED cache
    /\ UNCHANGED <<now, asked>>

PayloadWithExpiry(f) == [stamp |-> stamp[f] + TTL, prices |-> prices[f]]

PayloadOf(f) == [stamp |-> stamp[f], prices |-> prices[f]]

\* The text is written; or none or part of it, when the disk is full.
WriteCache(f) ==
    /\ At(f, "writing")
    /\ \/ /\ cache' \in Overwritten(cache, Whole(PayloadOf(f)))
          /\ UNCHANGED faults
       \/ cache' \in {cache, Garbage} /\ Fault
    /\ Returns(f, prices[f])
    /\ UNCHANGED <<now, asked>>

\* The process is killed before fetch_gpu_prices returns.
KillFetch(f) ==
    /\ stage[f] \in {"read", "ask", "answered", "writing"} /\ Fault
    /\ Becomes(f, "killed")
    /\ UNCHANGED <<now, cache, prices, stamp, asked>>

FetchStep(f) ==
    \/ Fetch(f) \/ ReadCache(f) \/ AskInVain(f) \/ RequestRaises(f) \/ Answer(f)
    \/ OpenCache(f) \/ WriteCache(f) \/ KillFetch(f)

\* Time passes, but no process takes longer than Lag from an answer to the
\* file.
Tick ==
    /\ now < MaxTime
    /\ \A f \in Fetchers :
         stage[f] \in {"answered", "writing"} => now - prices[f] < Lag
    /\ now' = now + 1
    /\ UNCHANGED <<faults, cacheVars>>

-----------------------------------------------------------------------------

CacheTypeOK ==
    /\ now \in Times /\ faults \in 0 .. MaxFaults
    /\ cache \in CacheFiles
    /\ stage \in [Fetchers -> Stages]
    /\ prices \in [Fetchers -> Catalogues]
    /\ stamp \in [Fetchers -> Times]
    /\ asked \in [Fetchers -> BOOLEAN]

\* When a command gets prices, RunPod gave them no longer ago than the cache
\* may keep them and a process may take from an answer to the file (Lag), whoever
\* asked for them, and however the processes share it.
PricesAreRecent ==
    [][ \A f \in Fetchers :
          ~At(f, "returned") /\ At(f, "returned")' /\ prices'[f] # NoPrices =>
              now - prices'[f] \in 0 .. TTL + Lag ]_<<now, cacheVars>>

\* A command that ends up without prices, and so without a working price cap,
\* has asked RunPod itself: no failure and no torn file is ever remembered as
\* an empty catalogue.
NoPricesIsNeverCached ==
    \A f \in Fetchers : At(f, "returned") /\ prices[f] = NoPrices => asked[f]
=============================================================================
