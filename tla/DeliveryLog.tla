----------------------------- MODULE DeliveryLog -----------------------------
(***************************************************************************)
(* What the delivery of a room promises its readers, whatever the sockets, *)
(* queues, restarts and bounded histories in between: the events of an     *)
(* audience form one log that only grows, and a reader goes through it one *)
(* event at a time.  It starts again from a snapshot, either at the place  *)
(* it had reached or afresh; a fresh start may leave out lifecycle events, *)
(* whose state the snapshot shows, and leaves out other events only if it  *)
(* says so.                                                                *)
(***************************************************************************)
EXTENDS Integers, Sequences

CONSTANTS Readers, Audiences, Lifecycle, AudienceOf, Nothing

VARIABLES
    log,    \* of each audience: the events committed, in order
    place,  \* of each reader: how far it has read
    shown,  \* of each reader: the last event it was shown
    told    \* of each reader: whether its last start said that history is missing

vars == <<log, place, shown, told>>

Init ==
    /\ log = [a \in Audiences |-> <<>>]
    /\ place = [r \in Readers |-> 0]
    /\ shown = [r \in Readers |-> Nothing]
    /\ told = [r \in Readers |-> FALSE]

(* One transaction: every audience may get events of its own. *)
Commit ==
    /\ \A a \in Audiences :
          /\ Len(log[a]) <= Len(log'[a])
          /\ SubSeq(log'[a], 1, Len(log[a])) = log[a]
    /\ UNCHANGED <<place, shown, told>>

Read(r) ==
    /\ place[r] < Len(log[AudienceOf[r]])
    /\ place' = [place EXCEPT ![r] = @ + 1]
    /\ shown' = [shown EXCEPT ![r] = log[AudienceOf[r]][place[r] + 1]]
    /\ UNCHANGED <<log, told>>

(* The reader gives up its place, to ask for a fresh start. *)
Forget(r) ==
    /\ place' = [place EXCEPT ![r] = 0]
    /\ UNCHANGED <<log, shown, told>>

(* A snapshot: at the same place, or at p with what is left out accounted for. *)
Start(r) ==
    \E p \in 0..Len(log[AudienceOf[r]]), gap \in BOOLEAN :
        /\ \/ p = place[r] /\ ~gap
           \/ gap
           \/ \A i \in 1..p : log[AudienceOf[r]][i] \in Lifecycle
        /\ place' = [place EXCEPT ![r] = p]
        /\ told' = [told EXCEPT ![r] = gap]
        /\ UNCHANGED <<log, shown>>

Next == Commit \/ \E r \in Readers : Read(r) \/ Forget(r) \/ Start(r)

Spec == Init /\ [][Next]_vars
=============================================================================
