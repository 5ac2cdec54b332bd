---------------------------- MODULE DecisionLedger -----------------------------
(***************************************************************************)
(* What the decision boundary promises to whoever reads its evidence       *)
(* (docs/PROTOCOL.md, request/terminal pairing): requests are opened once   *)
(* each, and terminal rows close them in the order they were opened.  Only  *)
(* a row that the store refuses leaves a request without one.               *)
(***************************************************************************)
EXTENDS Integers, Sequences

CONSTANTS Ids, TerminalKinds

VARIABLES
    opened,   \* the request ids, in order of acceptance
    closed,   \* the terminal rows, in the order in which they were stored
    lost      \* how many rows the store has refused

vars == <<opened, closed, lost>>

Init == opened = <<>> /\ closed = <<>> /\ lost = 0

\* A request is opened under an id never used before.
Open ==
    \E id \in Ids :
        /\ \A i \in DOMAIN opened : opened[i] # id
        /\ opened' = Append(opened, id)

\* Where a request stands among those opened.
Place(requests, id) == CHOOSE i \in DOMAIN requests : requests[i] = id

\* Some terminals are added.  They close the open requests in turn, and pass
\* over a request only when a row was lost.
Close ==
    /\ Len(closed) <= Len(closed')
    /\ SubSeq(closed', 1, Len(closed)) = closed
    /\ \A n \in DOMAIN closed' :
         /\ closed'[n].kind \in TerminalKinds
         /\ \E i \in n..(n + lost') : i \in DOMAIN opened' /\ opened'[i] = closed'[n].id
    /\ \A m, n \in DOMAIN closed' :
         m < n => Place(opened', closed'[m].id) < Place(opened', closed'[n].id)

\* Opening and closing may fall into one step: a request refused on acceptance.
Next ==
    /\ Open \/ UNCHANGED opened
    /\ Close \/ UNCHANGED closed
    /\ lost' \in {lost, lost + 1}

Spec == Init /\ [][Next]_vars

=============================================================================
