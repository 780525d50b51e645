---------------------------- MODULE JobContract ----------------------------
(***************************************************************************)
(* What run_job promises whoever gives it a pod, without its phases, its   *)
(* remote commands and its handler: the job comes to one verdict, and the  *)
(* verdict alone decides what becomes of the pod and what the record says. *)
(* Only a job whose required artifacts have been fetched is a success.     *)
(*                                                                         *)
(* PodLifecycle takes a job for one of the three verdicts and a cleanup.   *)
(***************************************************************************)

CONSTANTS
    Artifacts,   \* labels of the declared artifacts
    Required,    \* those a success must have
    OnSuccess,   \* what becomes of the pod after a success
    OnFailure    \* and after a failure

VARIABLES
    stage,    \* "working", "releasing" the pod, "recording", or "over"
    verdict,  \* how the job ended, once it has
    fetched,  \* the artifacts of this job on the local disk
    action,   \* what became of the pod
    report    \* what the record says

vars == <<stage, verdict, fetched, action, report>>

\* An interrupted job may have come either way.
ActionsFor == [success |-> {OnSuccess}, failure |-> {OnFailure},
               interrupted |-> {OnSuccess, OnFailure}]
ReportsFor == [success |-> {"success"}, failure |-> {"failure"},
               interrupted |-> {"success", "failure"}]

Init ==
    /\ stage = "working" /\ verdict = "none" /\ fetched = {}
    /\ action = "none" /\ report = "none"

\* Nothing that was fetched is lost again.
Fetch(a) ==
    /\ stage = "working"
    /\ fetched' = fetched \cup {a}
    /\ UNCHANGED <<stage, verdict, action, report>>

Ends(v) ==
    /\ stage = "working" /\ stage' = "releasing"
    /\ verdict' = v
    /\ UNCHANGED <<fetched, action, report>>

Succeed == Required \subseteq fetched /\ Ends("success")
Fail == Ends("failure")

\* What comes after the pod may be lost.
Release ==
    /\ stage = "releasing" /\ stage' \in {"recording", "over"}
    /\ action' \in ActionsFor[verdict]
    /\ UNCHANGED <<verdict, fetched, report>>

\* The record may be lost; what there is of it tells the truth.
Record ==
    /\ stage = "recording" /\ stage' = "over"
    /\ report' \in {"none"} \cup ReportsFor[verdict]
    /\ UNCHANGED <<verdict, fetched, action>>

\* While it works, an interrupt leaves the pod to be released; after that, it
\* may cost the rest.
Interrupt ==
    \/ Ends("interrupted")
    \/ /\ stage \in {"releasing", "recording"} /\ stage' = "over"
       /\ verdict' = "interrupted"
       /\ \/ UNCHANGED action
          \/ stage = "releasing" /\ action' \in ActionsFor[verdict]
       /\ UNCHANGED <<fetched, report>>

Next ==
    \/ \E a \in Artifacts : Fetch(a)
    \/ Succeed \/ Fail \/ Release \/ Record \/ Interrupt

Spec == Init /\ [][Next]_vars

-----------------------------------------------------------------------------
(***************************************************************************)
(* What the contract amounts to.                                           *)
(***************************************************************************)

\* What became of the pod and what the record says tell one story, and the story
\* of a success is true.
OneStory ==
    /\ verdict = "success" => Required \subseteq fetched
    /\ report # "none" =>
         action \in ActionsFor[verdict] /\ report \in ReportsFor[verdict]

\* It is told once: nothing fetched is lost, and neither the verdict nor the
\* pod's fate nor the record is ever replaced; an interrupt leaves the rest open.
ToldOnce ==
    [][ /\ fetched \subseteq fetched'
        /\ verdict # "none" => verdict' \in {verdict, "interrupted"}
        /\ action # "none" => action' = action
        /\ report # "none" => report' = report ]_vars
=============================================================================
