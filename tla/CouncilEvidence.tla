---------------------------- MODULE CouncilEvidence ----------------------------
(***************************************************************************)
(* environments/cipher_council/evidence.py: what the offline verifier      *)
(* recomputes from the transcript of one council.cipher@2 run.  A row is   *)
(*   [kind |-> "role", actor, role],                                       *)
(*   [kind |-> "round", round],                                            *)
(*   [kind |-> "request", id, seen], with the council messages shown,      *)
(*   [kind |-> "terminal", id],                                            *)
(*   [kind |-> "consumed", id, choice], or                                 *)
(*   [kind |-> "message", entry, to]: a private event of a message.        *)
(* A request id is [round, stage, actor] and a round <<mission, attempt>>; *)
(* the position of a row in the transcript is its seq.  The text of        *)
(* messages and the shape of the action schema are left out.               *)
(***************************************************************************)
EXTENDS Naturals, Sequences, FiniteSets

\* The elements of s at the places I, in their order.
Nth(I, n) == CHOOSE i \in I : Cardinality({j \in I : j <= i}) = n
Picked(s, I) == [n \in 1..Cardinality(I) |-> s[Nth(I, n)]]

\* What an observation shows: nothing without "cipher_council_messages", else
\* the one sequence that field holds.
NoMessages == {}
Messages(seen) == CHOOSE s \in seen : TRUE

RowsOf(rows, kind) == {i \in DOMAIN rows : rows[i].kind = kind}

CiphersIn(rows) == {rows[i].actor : i \in {j \in RowsOf(rows, "role") : rows[j].role = "cipher"}}
RoundsIn(rows)  == {rows[i].round : i \in RowsOf(rows, "round")}

\* The agent_request rows that ask a cipher for a strategy message.
StrategyRequests(rows) ==
    {i \in RowsOf(rows, "request") : rows[i].id.stage = "cipher_council"}

TerminalsOf(rows, id) == {i \in RowsOf(rows, "terminal") : rows[i].id = id}
ConsumedOf(rows, id)  == {i \in RowsOf(rows, "consumed") : rows[i].id = id}

MessageIsFor(row, id) ==
    row.entry.round = id.round /\ row.entry.actor = id.actor
MessagesOf(rows, id) == {i \in RowsOf(rows, "message") : MessageIsFor(rows[i], id)}

RolesVerify(rows, players, ciphers) ==
    /\ Cardinality(RowsOf(rows, "role")) = players
    /\ Cardinality({rows[i].actor : i \in RowsOf(rows, "role")}) = players
    /\ Cardinality(CiphersIn(rows)) = ciphers
    /\ CiphersIn(rows) # {}

\* The messages delivered before the row at i, in their order.
DeliveredBefore(rows, i) ==
    LET before == Picked(rows, {j \in RowsOf(rows, "message") : j < i})
    IN [j \in DOMAIN before |-> before[j].entry]

IsSuffix(s, t) == Len(s) <= Len(t) /\ SubSeq(t, Len(t) - Len(s) + 1, Len(t)) = s

\* No message reaches the Council; a cipher sees what was delivered to it
\* before its request and, when asked for a message, none of the same round.
IsolationVerifies(rows) ==
    LET ciphers == CiphersIn(rows) IN
    \A i \in RowsOf(rows, "request") :
        LET id == rows[i].id
            seen == Messages(rows[i].seen)
        IN IF id.actor \notin ciphers
           THEN rows[i].seen = NoMessages
           ELSE /\ rows[i].seen # NoMessages
                /\ id.stage = "cipher_council" =>
                       \A j \in DOMAIN seen : seen[j].round # id.round
                /\ IsSuffix(seen, DeliveredBefore(rows, i))

\* Every eligible round asks every cipher once, and each request ends once.
RequestsVerify(rows) ==
    LET ciphers == CiphersIn(rows)
        eligible == IF Cardinality(ciphers) >= 2 THEN RoundsIn(rows) ELSE {}
        asked(r) == {i \in StrategyRequests(rows) : rows[i].id.round = r}
    IN /\ Cardinality(RoundsIn(rows)) = Cardinality(RowsOf(rows, "round"))
       /\ {rows[i].id.round : i \in StrategyRequests(rows)} = eligible
       /\ \A r \in eligible :
            /\ {rows[i].id.actor : i \in asked(r)} = ciphers
            /\ Cardinality(asked(r)) = Cardinality(ciphers)
       /\ \A i \in StrategyRequests(rows) : Cardinality(TerminalsOf(rows, rows[i].id)) = 1

\* A message goes to the ciphers, once per actor and round, after the barrier
\* of its round, and because the environment consumed it.
DeliveryVerifies(rows) ==
    \A m \in RowsOf(rows, "message") :
        LET entry == rows[m].entry
            id    == [round |-> entry.round, stage |-> "cipher_council", actor |-> entry.actor]
        IN /\ rows[m].to = CiphersIn(rows)
           /\ \E i \in StrategyRequests(rows) : rows[i].id = id
           /\ Cardinality(MessagesOf(rows, id)) = 1
           /\ \A i \in StrategyRequests(rows) :
                rows[i].id.round = entry.round =>
                    \A t \in TerminalsOf(rows, rows[i].id) : t < m
           /\ Cardinality(ConsumedOf(rows, id)) = 1
           /\ \A c \in ConsumedOf(rows, id) : rows[c].choice = "message"

\* A consumed strategy action has its message, a skip has none.
ActionsVerify(rows) ==
    \A i \in StrategyRequests(rows) :
        LET id == rows[i].id
        IN /\ Cardinality(ConsumedOf(rows, id)) <= 1
           /\ ConsumedOf(rows, id) = {} => MessagesOf(rows, id) = {}
           /\ \A c \in ConsumedOf(rows, id) :
                \/ rows[c].choice = "message" /\ MessagesOf(rows, id) # {}
                \/ rows[c].choice = "skip" /\ MessagesOf(rows, id) = {}

\* The summary metrics are those of the transcript.
MetricsVerify(rows, metrics) ==
    LET requests == Cardinality(StrategyRequests(rows))
        messages == Cardinality(RowsOf(rows, "message"))
    IN /\ messages <= requests
       /\ metrics = [rounds   |-> IF Cardinality(CiphersIn(rows)) >= 2
                                  THEN Cardinality(RoundsIn(rows)) ELSE 0,
                     requests |-> requests,
                     messages |-> messages,
                     absent   |-> requests - messages]

RowsVerify(rows, metrics, players, ciphers) ==
    /\ RolesVerify(rows, players, ciphers)
    /\ IsolationVerifies(rows)
    /\ RequestsVerify(rows)
    /\ DeliveryVerifies(rows)
    /\ ActionsVerify(rows)
    /\ MetricsVerify(rows, metrics)

=============================================================================
