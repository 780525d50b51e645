---------------------------- MODULE PodContract ----------------------------
(***************************************************************************)
(* What the command line promises about pods, seen from the RunPod account *)
(* and without the state file: a client finds a pod, works on it once and  *)
(* lets it go, and whoever lets a pod go either sees it stopped or         *)
(* deleted, or has an excuse for leaving it running.                       *)
(***************************************************************************)

CONSTANTS
    Clients,     \* invocations of the command line
    Pods,        \* pod ids
    NoPod,       \* "no pod"
    StrictStart  \* TRUE: a running pod cannot be started

\* What the constants have to satisfy, in whatever implements the contract.
ClientAssumption == NoPod \notin Pods /\ StrictStart \in BOOLEAN

VARIABLES
    status,   \* what RunPod reports of each pod
    phase,    \* how far each client is
    user,     \* the pod each client answers for
    excused   \* pods that may run with nobody answering for them

vars == <<status, phase, user, excused>>

Phases == {"seeking", "holding", "working", "over"}
Live == {"RUNNING", "EXITED"}

Init ==
    /\ status = [p \in Pods |-> "absent"]
    /\ phase = [c \in Clients |-> "seeking"]
    /\ user = [c \in Clients |-> NoPod]
    /\ excused = {}

\* c moves on, and answers for pod p from now on.
Moves(c, to, p) ==
    /\ phase' = [phase EXCEPT ![c] = to]
    /\ user' = [user EXCEPT ![c] = p]

\* A new pod, or a paused one, becomes c's.
Acquire(c, p) ==
    /\ phase[c] = "seeking"
    /\ status[p] # "deleted"
    /\ StrictStart => status[p] # "RUNNING"
    /\ status' = [status EXCEPT ![p] = "RUNNING"]
    /\ excused' \in {excused, excused \ {p}}
    /\ Moves(c, "holding", p)

\* The pod is ready: the one time that c works.
Work(c) ==
    /\ phase[c] = "holding"
    /\ phase' = [phase EXCEPT ![c] = "working"]
    /\ UNCHANGED <<status, user, excused>>

\* A live pod p ends up in one of `ends`, or is excused if it still runs.
LetGo(p, ends) ==
    /\ \/ UNCHANGED status
       \/ status[p] \in Live /\ \E s \in ends : status' = [status EXCEPT ![p] = s]
    /\ excused' \in {excused, excused \cup {p}}
    /\ status'[p] = "RUNNING" => p \in excused'

\* A pod that c never worked on is deleted, and c may look for another.
GiveUp(c) ==
    /\ phase[c] = "holding"
    /\ LetGo(user[c], {"deleted"})
    /\ \E to \in {"seeking", "over"} : Moves(c, to, NoPod)

\* A pod that c worked on is stopped or deleted.
Finish(c) ==
    /\ phase[c] = "working"
    /\ LetGo(user[c], {"EXITED", "deleted"})
    /\ Moves(c, "over", NoPod)

\* A client without a pod ends.
Quit(c) ==
    /\ phase[c] = "seeking"
    /\ phase' = [phase EXCEPT ![c] = "over"]
    /\ UNCHANGED <<status, user, excused>>

\* A client without a pod stops or deletes one that is not its own, or sets
\* one running and never learns of it.
Meddle(c, p) ==
    /\ phase[c] = "seeking"
    /\ \/ LetGo(p, {"EXITED", "deleted"})
       \/ /\ status[p] \in {"absent", "EXITED"}
          /\ status' = [status EXCEPT ![p] = "RUNNING"]
          /\ excused' = excused \cup {p}
    /\ \E to \in {"seeking", "over"} : phase' = [phase EXCEPT ![c] = to]
    /\ UNCHANGED user

\* RunPod stops a pod.
Evict(p) ==
    /\ status[p] = "RUNNING"
    /\ status' = [status EXCEPT ![p] = "EXITED"]
    /\ excused' = excused \cup {p}
    /\ UNCHANGED <<phase, user>>

Next ==
    \/ \E c \in Clients :
         \/ Work(c) \/ GiveUp(c) \/ Finish(c) \/ Quit(c)
         \/ \E p \in Pods : Acquire(c, p) \/ Meddle(c, p)
    \/ \E p \in Pods : Evict(p)

Spec == Init /\ [][Next]_vars

-----------------------------------------------------------------------------
(***************************************************************************)
(* What the contract amounts to.                                           *)
(***************************************************************************)

\* Every variable has its type.
TypeOK ==
    /\ status \in [Pods -> {"absent", "RUNNING", "EXITED", "deleted"}]
    /\ phase \in [Clients -> Phases]
    /\ user \in [Clients -> Pods \cup {NoPod}]
    /\ excused \subseteq Pods
    /\ \A c \in Clients : phase[c] \in {"holding", "working"} <=> user[c] # NoPod

\* No pod bills without a client that answers for it or an excuse.
Accounted ==
    \A p \in Pods :
        status[p] = "RUNNING" => p \in excused \/ \E c \in Clients : user[c] = p

\* A deleted pod stays deleted.  A client works at most once: work leads only
\* to the end, and nothing leads back from there.  And it works on the pod it
\* acquired: it never swaps pods under its job.
Irrevocable ==
    [][ /\ \A p \in Pods : status[p] = "deleted" => status'[p] = "deleted"
        /\ \A c \in Clients :
             /\ phase[c] = "working" => phase'[c] \in {"working", "over"}
             /\ phase[c] = "over" => phase'[c] = "over"
        /\ \A c \in Clients :
             phase[c] # "seeking" => user'[c] \in {user[c], NoPod} ]_vars
=============================================================================
