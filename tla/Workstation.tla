---------------------------- MODULE Workstation ----------------------------
(***************************************************************************)
(* One operator's machine: runs that ask for prices before they start,     *)
(* other commands that ask for prices, and readers of past runs, all of    *)
(* them processes that share nothing but files and the clock.              *)
(***************************************************************************)
EXTENDS RunFiles

ASSUME FetcherAssumption == Capped \subseteq Fetchers

vars == <<now, faults, cacheVars, runVars, diskVars, readerVars>>

Init == CacheInit /\ FilesInit

\* A run asks for prices between its start and its first event; the others
\* ask whenever they like.
MayFetch(f) == f \in Runs => place[f] = "pricing"

Next ==
    \/ \E f \in Fetchers :
         MayFetch(f) /\ FetchStep(f) /\ UNCHANGED <<runVars, diskVars, readerVars>>
    \/ Tick /\ UNCHANGED <<runVars, diskVars, readerVars>>
    \/ \E r \in Runs : RunStep(r)
    \/ \E l \in Readers : ReaderStep(l)

Spec == Init /\ [][Next]_vars

-----------------------------------------------------------------------------

\* Every variable has its type.
TypeOK == CacheTypeOK /\ FilesTypeOK
=============================================================================
