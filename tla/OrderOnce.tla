------------------------------ MODULE OrderOnce ------------------------------
(***************************************************************************)
(* What the command layer promises the human who sends a command: it is    *)
(* applied at most once, an order id is never submitted for two commands,  *)
(* and "accepted" is only ever said of a command that was applied.         *)
(* Delivery, the ledger, restarts and lost acks do not appear here.        *)
(***************************************************************************)
EXTENDS Naturals, Sequences

CONSTANTS Command, Creating, CoidOf

VARIABLES
    applied,  \* the commands applied so far, in order
    answer    \* what the human has been told about each command

Taken(c) ==
    \E i \in DOMAIN applied :
        \/ applied[i] = c
        \/ {applied[i], c} \subseteq Creating /\ CoidOf[applied[i]] = CoidOf[c]

Init == applied = <<>> /\ answer = [c \in Command |-> "pending"]

Apply(c) ==
    /\ ~Taken(c)
    /\ applied' = Append(applied, c)
    /\ UNCHANGED answer

Accept(c) ==
    /\ \E i \in DOMAIN applied : applied[i] = c
    /\ answer' = [answer EXCEPT ![c] = "accepted"]
    /\ UNCHANGED applied

\* A rejection promises nothing about the order: see NoFalseReject.
Reject(c) ==
    /\ answer' = [answer EXCEPT ![c] = "rejected"]
    /\ UNCHANGED applied

Next == \E c \in Command : Apply(c) \/ Accept(c) \/ Reject(c)

Spec == Init /\ [][Next]_<<applied, answer>>
=============================================================================
