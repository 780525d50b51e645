------------------------- MODULE PodContractProofs -------------------------
(***************************************************************************)
(* What every implementation of PodContract inherits.                      *)
(***************************************************************************)
EXTENDS PodContract, TLAPS

\* Every step keeps the types, and who has a pod in which phase.
LEMMA TypeStep == ClientAssumption /\ TypeOK /\ [Next]_vars => TypeOK'
<1> SUFFICES ASSUME ClientAssumption, TypeOK, [Next]_vars PROVE TypeOK'
  OBVIOUS
<1> USE DEF ClientAssumption, TypeOK, Phases, Live
<1>1. ASSUME NEW c \in Clients, NEW p \in Pods, Acquire(c, p) PROVE TypeOK'
  BY <1>1 DEF Acquire, Moves
<1>2. ASSUME NEW c \in Clients, Work(c) PROVE TypeOK'
  BY <1>2 DEF Work
<1>3. ASSUME NEW c \in Clients, GiveUp(c) PROVE TypeOK'
  BY <1>3 DEF GiveUp, LetGo, Moves
<1>4. ASSUME NEW c \in Clients, Finish(c) PROVE TypeOK'
  BY <1>4 DEF Finish, LetGo, Moves
<1>5. ASSUME NEW c \in Clients, Quit(c) PROVE TypeOK'
  BY <1>5 DEF Quit
<1>6. ASSUME NEW c \in Clients, NEW p \in Pods, Meddle(c, p) PROVE TypeOK'
  BY <1>6 DEF Meddle, LetGo
<1>7. ASSUME NEW p \in Pods, Evict(p) PROVE TypeOK'
  BY <1>7 DEF Evict
<1>8. CASE UNCHANGED vars
  BY <1>8 DEF vars
<1> QED BY <1>1, <1>2, <1>3, <1>4, <1>5, <1>6, <1>7, <1>8 DEF Next

\* The type invariant of the contract: a client has a pod exactly while it
\* holds it or works on it.
THEOREM ContractTypes == ASSUME ClientAssumption PROVE Spec => []TypeOK
<1>1. Init => TypeOK
  BY DEF ClientAssumption, Init, TypeOK, Phases
<1> QED BY <1>1, TypeStep, PTL DEF Spec

\* No step leaves a running pod to nobody.
LEMMA AccountedStep ==
    ClientAssumption /\ TypeOK /\ Accounted /\ [Next]_vars => Accounted'
<1> SUFFICES ASSUME ClientAssumption, TypeOK, Accounted, [Next]_vars PROVE Accounted'
  OBVIOUS
<1> USE DEF ClientAssumption, TypeOK, Accounted
<1>1. ASSUME NEW c \in Clients, NEW p \in Pods, Acquire(c, p) PROVE Accounted'
  BY <1>1 DEF Acquire, Moves
<1>2. ASSUME NEW c \in Clients, Work(c) PROVE Accounted'
  BY <1>2 DEF Work
<1>3. ASSUME NEW c \in Clients, GiveUp(c) PROVE Accounted'
  BY <1>3 DEF GiveUp, LetGo, Moves
<1>4. ASSUME NEW c \in Clients, Finish(c) PROVE Accounted'
  BY <1>4 DEF Finish, LetGo, Moves
<1>5. ASSUME NEW c \in Clients, Quit(c) PROVE Accounted'
  BY <1>5 DEF Quit
<1>6. ASSUME NEW c \in Clients, NEW p \in Pods, Meddle(c, p) PROVE Accounted'
  BY <1>6 DEF Meddle, LetGo
<1>7. ASSUME NEW p \in Pods, Evict(p) PROVE Accounted'
  BY <1>7 DEF Evict
<1>8. CASE UNCHANGED vars
  BY <1>8 DEF vars
<1> QED BY <1>1, <1>2, <1>3, <1>4, <1>5, <1>6, <1>7, <1>8 DEF Next

\* Under the contract no pod bills without a client that answers for it or an
\* excuse, however many clients meddle with it.
THEOREM NothingUnaccounted == ASSUME ClientAssumption PROVE Spec => []Accounted
<1>1. Init => Accounted
  BY DEF Init, Accounted
<1> QED BY <1>1, ContractTypes, AccountedStep, PTL DEF Spec

\* Under the contract a deletion is final; a client that has begun to work can
\* only end, and stays at its end, so it works at most once; and it works on the
\* pod it acquired.
THEOREM NothingUndone == ASSUME ClientAssumption PROVE Spec => Irrevocable
<1> DEFINE Act ==
      /\ \A p \in Pods : status[p] = "deleted" => status'[p] = "deleted"
      /\ \A c \in Clients :
           /\ phase[c] = "working" => phase'[c] \in {"working", "over"}
           /\ phase[c] = "over" => phase'[c] = "over"
      /\ \A c \in Clients :
           phase[c] # "seeking" => user'[c] \in {user[c], NoPod}
<1>1. TypeOK /\ [Next]_vars => [Act]_vars
  <2> SUFFICES ASSUME TypeOK, [Next]_vars PROVE Act \/ UNCHANGED vars
    OBVIOUS
  <2> USE DEF ClientAssumption, TypeOK, Live
  <2>1. ASSUME NEW c \in Clients, NEW p \in Pods, Acquire(c, p) PROVE Act
    BY <2>1 DEF Acquire, Moves
  <2>2. ASSUME NEW c \in Clients, Work(c) PROVE Act
    BY <2>2 DEF Work
  <2>3. ASSUME NEW c \in Clients, GiveUp(c) PROVE Act
    BY <2>3 DEF GiveUp, LetGo, Moves
  <2>4. ASSUME NEW c \in Clients, Finish(c) PROVE Act
    BY <2>4 DEF Finish, LetGo, Moves
  <2>5. ASSUME NEW c \in Clients, Quit(c) PROVE Act
    BY <2>5 DEF Quit
  <2>6. ASSUME NEW c \in Clients, NEW p \in Pods, Meddle(c, p) PROVE Act
    BY <2>6 DEF Meddle, LetGo
  <2>7. ASSUME NEW p \in Pods, Evict(p) PROVE Act
    BY <2>7 DEF Evict
  <2> QED BY <2>1, <2>2, <2>3, <2>4, <2>5, <2>6, <2>7 DEF Next
<1> QED BY <1>1, ContractTypes, PTL DEF Spec, Irrevocable
=============================================================================
