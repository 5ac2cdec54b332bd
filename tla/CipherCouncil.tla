----------------------------- MODULE CipherCouncil -----------------------------
(***************************************************************************)
(* environments/cipher_council/plugin.py: one run of the council, from the *)
(* first round to its outcome, with the tool actors that are asked         *)
(* (harness/core_llm_actor.py) and the evidence rows the run leaves.       *)
(*                                                                         *)
(* `stage` is what the environment asks for and `asked` the actors whose   *)
(* `_decide` has not ended: one of them in the public stages, all ciphers  *)
(* or the whole team in the two stages that gather.  An actor takes        *)
(* several model responses to submit a choice; the decision runtime        *)
(* (harness/decision_runtime.py) lets the environment consume it if it is  *)
(* legal, and holds back the terminal row of a request until all requests  *)
(* it accepted before have theirs.  An agent that raises                   *)
(* something the environment does not expect ends the run at once, and its *)
(* siblings answer when they are ready.                                    *)
(***************************************************************************)
EXTENDS CouncilEvidence

CONSTANTS
    Order,               \* actor_ids: the actors, in their order
    Ciphers,             \* the actors that are dealt the role "cipher"
    ProposerOrder,       \* the order in which they propose
    MissionSizes,        \* config.mission_sizes
    VictoryTarget,       \* config.victory_target
    MaxProposals,        \* config.max_proposals_per_mission
    HistoryLimit,        \* _CIPHER_COUNCIL_HISTORY_ENTRY_LIMIT
    MaxAttempts,         \* max_response_attempts of an actor
    MemoryLimit,         \* memory_entry_limit of an actor
    Setups               \* which replies a run explores, see May

Actors == {Order[i] : i \in DOMAIN Order}
Players == Len(Order)

ASSUME CouncilAssumption ==
    /\ Order \in Seq(Actors) /\ Players >= 5 /\ Cardinality(Actors) = Players
    /\ Ciphers \subseteq Actors /\ Ciphers # {} /\ Ciphers # Actors
    /\ ProposerOrder \in Seq(Actors) /\ Len(ProposerOrder) = Players
    /\ {ProposerOrder[i] : i \in DOMAIN ProposerOrder} = Actors
    /\ MissionSizes \in Seq(2..Players)
    /\ VictoryTarget \in 1..Len(MissionSizes)
    /\ MaxProposals \in 1..10
    /\ HistoryLimit \in Nat \ {0} /\ MemoryLimit \in Nat \ {0} /\ MaxAttempts \in 1..16

ASSUME SetupsAssumption ==
    \A s \in Setups : s.strategic \in BOOLEAN /\ s.teams \subseteq SUBSET Actors

CouncilStages == {"cipher_council", "deliberation", "nomination", "vote", "mission_commitment"}
\* What a reply can come to: a choice by its name, arguments that violate the
\* schema, a response of the wrong shape, a failed provider or a deadline, and
\* an exception that is not an AgentDecisionError.
Replies == {"message", "speak", "team", "approve", "reject", "support", "sabotage", "skip",
            "illegal", "rejected", "failure", "broken"}

VARIABLES
    setup,      \* the setup of this run
    status,     \* "running", "over", "broken" or "failed"
    stage,      \* the stage, or "round" before a round starts
    mission, attempt,
    turn,       \* the index in Order of the actor whose turn it is
    asked,      \* actors with an open request
    held,       \* actors whose request has ended and whose terminal row waits
    chosen,     \* what the environment got from each actor in this stage
    team,       \* the nominated team
    approvals,  \* who approved it
    history,    \* _cipher_council_history
    count,      \* the counters of the session
    score,      \* missions won by each faction
    verdict,    \* winner and reason of the outcome
    tries,      \* response attempts of each actor in its current turn
    memory,     \* _CoreActorMemory: the request and choice of own turns
    transcript  \* the evidence rows

schedule == <<mission, attempt, turn, team, approvals, score, verdict, history>>
councilVars == <<setup, status, stage, asked, held, chosen, count, tries, memory, transcript, schedule>>

NoChoice == [name |-> "none", members |-> {}]
Choice(name) == [name |-> name, members |-> {}]
NoOutcome == [winner |-> "none", reason |-> "none"]

\* enable_cipher_council, and a faction to coordinate.
Strategic == setup.strategic /\ Cardinality(Ciphers) >= 2

RoundKey == IF stage = "mission_commitment" THEN <<mission, 0>> ELSE <<mission, attempt>>
RequestId(st, round, a) == [round |-> round, stage |-> st, actor |-> a]
IdOf(a) == RequestId(stage, RoundKey, a)
Proposer == ProposerOrder[((count.proposals - 1) % Players) + 1]

\* The actors of A, in the order of all.  (A team is asked in the order it was
\* nominated in; no property tells the orders of a team's rows apart.)
InOrder(A) == Picked(Order, {i \in DOMAIN Order : Order[i] \in A})

\* The last n entries of s.
LastOf(s, n) == IF Len(s) <= n THEN s ELSE SubSeq(s, Len(s) - n + 1, Len(s))

\* Mutant: the history is part of every observation.
SeenByAll(a, h) == IF setup.strategic THEN {h} ELSE NoMessages
\* _observation: the council messages an actor is shown.
Seen(a, h) == IF a \in Ciphers /\ setup.strategic THEN {h} ELSE NoMessages

\* `_decide` of the actors A, up to their first await: the request rows.
Requests(st, round, A, h) ==
    LET as == InOrder(A)
    IN [i \in DOMAIN as |-> [kind |-> "request", id |-> RequestId(st, round, as[i]),
                             seen |-> Seen(as[i], h)]]

\* The environment asks A for stage st; `before` is what it emitted first.
Ask(st, round, A, h, before) ==
    /\ stage' = st
    /\ asked' = A
    /\ chosen' = [a \in Actors |-> NoChoice]
    /\ tries' = [a \in Actors |-> IF a \in A THEN 1 ELSE 0]
    /\ transcript' = transcript \o before \o Requests(st, round, A, h)
    /\ turn' = IF st \in {"deliberation", "vote"}
               THEN CHOOSE i \in DOMAIN Order : {Order[i]} = A ELSE 0
    /\ UNCHANGED held

RoleRows == [i \in DOMAIN Order |->
    [kind |-> "role", actor |-> Order[i],
     role |-> IF Order[i] \in Ciphers THEN "cipher" ELSE "council"]]

ZeroCounts == [proposals |-> 0, missions |-> 0, decisions |-> 0, failures |-> 0, skips |-> 0,
               rounds |-> 0, requests |-> 0, messages |-> 0, absent |-> 0]

\* The session after initialize.
CouncilInit ==
    /\ setup \in Setups
    /\ status = "running" /\ stage = "round" /\ mission = 1 /\ attempt = 1 /\ turn = 0
    /\ asked = {} /\ held = {} /\ chosen = [a \in Actors |-> NoChoice]
    /\ team = {} /\ approvals = {} /\ history = <<>>
    /\ count = ZeroCounts
    /\ score = [council |-> 0, cipher |-> 0] /\ verdict = NoOutcome
    /\ tries = [a \in Actors |-> 0] /\ memory = [a \in Actors |-> <<>>]
    /\ transcript = RoleRows

-----------------------------------------------------------------------------
\* One turn of an actor.

May(a, reply) == reply \in (IF a \in setup.free THEN setup.may ELSE setup.usual)[stage]

SkipAllowed == stage \in {"cipher_council", "deliberation", "vote"}

\* The options an environment advertises in a stage to an actor.
Options(a) ==
    CASE stage = "cipher_council" -> {Choice("message")}
      [] stage = "deliberation"   -> {Choice("speak")}
      [] stage = "nomination"     -> {[name |-> "team", members |-> T] : T \in
                                       {S \in setup.teams : Cardinality(S) = MissionSizes[mission]}}
      [] stage = "vote"           -> {Choice("approve"), Choice("reject")}
      [] OTHER -> IF a \in Ciphers THEN {Choice("support"), Choice("sabotage")}
                                   ELSE {Choice("support")}

\* What a well-formed terminal call can submit: an option, with arguments the
\* actor does not validate, or a skip if that tool was offered.
Submittable(a) ==
    {c \in Options(a) \cup {Choice("illegal")} \cup (IF SkipAllowed THEN {Choice("skip")} ELSE {}) :
        May(a, c.name)}

\* validate_decision_envelope.
IsLegal(a, c) == c \in Options(a) \/ (SkipAllowed /\ c.name = "skip")

Remembered(a, c) ==
    LastOf(Append(memory[a], [id |-> IdOf(a), choice |-> c.name]), MemoryLimit)

TerminalRow(a) == [kind |-> "terminal", id |-> IdOf(a)]
ConsumedRow(a, c) ==
    [kind |-> "consumed", id |-> IdOf(a), choice |-> c.name, members |-> c.members]

\* The requests of a stage are accepted in the order of the actors, which for
\* a team stands for any order of its nomination.
AcceptedBefore(b, c) == \E i, j \in DOMAIN Order : i < j /\ Order[i] = b /\ Order[j] = c

\* _emit_terminal_trace: the requests whose terminal rows can be written when
\* that of `a` ends, which are those no open request was accepted before, and
\* the rows.
Released(a) ==
    {b \in held \cup {a} : \A c \in asked \ {a} : AcceptedBefore(b, c)}
ReleasedRows(a) ==
    LET as == InOrder(Released(a))
    IN [i \in DOMAIN as |-> TerminalRow(as[i])]

\* The request of `a` ends; `after` is what is recorded in the same step.
RequestEnds(a, after) ==
    /\ asked' = asked \ {a}
    /\ held' = (held \cup {a}) \ Released(a)
    /\ transcript' = transcript \o ReleasedRows(a) \o after

\* A response that is not one well-formed terminal call is tried again.
ResponseRejected(a) ==
    /\ May(a, "rejected") /\ tries[a] < MaxAttempts
    /\ tries' = [tries EXCEPT ![a] = @ + 1]
    /\ UNCHANGED <<setup, status, stage, asked, held, chosen, count, memory, transcript,
                   schedule>>

\* `_decide` takes an AgentDecisionError for an absent choice: the provider
\* failed, the attempts or the deadline ran out.
Unanswered(a) ==
    /\ RequestEnds(a, <<>>)
    /\ count' = [count EXCEPT !.failures = @ + 1]
    /\ UNCHANGED <<setup, status, stage, chosen, tries, schedule>>

TurnFails(a) ==
    /\ May(a, "failure") \/ (May(a, "rejected") /\ tries[a] = MaxAttempts)
    /\ Unanswered(a)
    /\ UNCHANGED memory

\* The actor remembers what it submits; the runtime rejects what is illegal.
SubmitsIllegal(a, c) ==
    /\ ~IsLegal(a, c)
    /\ memory' = [memory EXCEPT ![a] = Remembered(a, c)]
    /\ Unanswered(a)

\* The environment consumes a legal choice; a skip is no choice.
Submits(a, c) ==
    /\ IsLegal(a, c)
    /\ RequestEnds(a, <<ConsumedRow(a, c)>>)
    /\ chosen' = [chosen EXCEPT ![a] = IF c.name = "skip" THEN NoChoice ELSE c]
    /\ count' = [count EXCEPT !.decisions = @ + 1, !.skips = @ + (IF c.name = "skip" THEN 1 ELSE 0)]
    /\ memory' = [memory EXCEPT ![a] = Remembered(a, c)]
    /\ UNCHANGED <<setup, status, stage, tries, schedule>>

\* Any other exception leaves `_decide`, and gather, and ends the run.
Breaks(a) ==
    /\ May(a, "broken")
    /\ RequestEnds(a, <<>>)
    /\ status' = IF status = "running" THEN "broken" ELSE status
    /\ UNCHANGED <<setup, stage, chosen, count, tries, memory, schedule>>
-----------------------------------------------------------------------------
\* The coroutine `run`, each time what it awaited has ended.

Continues(st) == status = "running" /\ stage = st /\ asked = {}

AskFirst(st, before) == Ask(st, <<mission, attempt>>, {Order[1]}, history, before)
AskNext(st) == Ask(st, <<mission, attempt>>, {Order[turn + 1]}, history, <<>>)

\* A round starts: its proposer, and the strategy council of the ciphers.
StartRound ==
    /\ Continues("round")
    /\ LET round == <<mission, attempt>>
           start == <<[kind |-> "round", round |-> round]>>
           proposed == [count EXCEPT !.proposals = @ + 1]
       IN IF Strategic
          THEN /\ Ask("cipher_council", round, Ciphers, history, start)
               /\ count' = [proposed EXCEPT !.rounds = @ + 1,
                                            !.requests = @ + Cardinality(Ciphers)]
          ELSE AskFirst("deliberation", start) /\ count' = proposed
    /\ team' = {} /\ approvals' = {}
    /\ UNCHANGED <<setup, status, mission, attempt, score, verdict, history, memory>>

\* Mutant: a cipher that gave no message is not counted.
AbsentNotCounted(sent) == 0
Absent(sent) == Cardinality(Ciphers) - sent

\* All ciphers have answered: their messages are appended and emitted.
CouncilDelivers ==
    /\ Continues("cipher_council")
    /\ LET senders == InOrder({a \in Ciphers : chosen[a] # NoChoice})
           entries == [i \in DOMAIN senders |-> [round |-> RoundKey, actor |-> senders[i]]]
           events  == [i \in DOMAIN entries |->
                          [kind |-> "message", entry |-> entries[i], to |-> Ciphers]]
           shown   == LastOf(history \o entries, HistoryLimit)
       IN /\ history' = shown
          /\ count' = [count EXCEPT !.messages = @ + Len(senders),
                                    !.absent = @ + Absent(Len(senders))]
          /\ Ask("deliberation", RoundKey, {Order[1]}, shown, events)
    /\ UNCHANGED <<setup, status, mission, attempt, team, approvals, score, verdict, memory>>

\* A speech was made or is absent; after the last one the proposer nominates.
SpeechEnds ==
    /\ Continues("deliberation")
    /\ IF turn < Players THEN AskNext("deliberation")
       ELSE Ask("nomination", RoundKey, {Proposer}, history, <<>>)
    /\ UNCHANGED <<setup, status, mission, attempt, team, approvals, score, verdict, history,
                   count, memory>>

Accounted ==
    /\ count.messages + count.absent = count.requests
    /\ count.requests = count.rounds * Cardinality(Ciphers)

\* The outcome, whose metrics must agree with each other.
Ends(winner, reason) ==
    /\ status' = IF setup.strategic /\ ~Accounted THEN "failed" ELSE "over"
    /\ verdict' = [winner |-> winner, reason |-> reason]
    /\ UNCHANGED <<setup, stage, mission, attempt, turn, asked, held, chosen, team, approvals,
                   history, tries, memory, transcript>>

\* This proposal came to nothing.
NextAttempt ==
    IF attempt < MaxProposals
    THEN /\ attempt' = attempt + 1 /\ stage' = "round"
         /\ UNCHANGED <<setup, status, mission, turn, asked, held, chosen, team, approvals,
                        history, verdict, tries, memory, transcript>>
    ELSE Ends("none", "proposal_limit_exhausted")

Nominated ==
    /\ Continues("nomination")
    /\ IF chosen[Proposer] = NoChoice
       THEN NextAttempt
       ELSE /\ team' = chosen[Proposer].members
            /\ AskFirst("vote", <<>>)
            /\ UNCHANGED <<setup, status, mission, attempt, approvals, history, verdict, memory>>
    /\ UNCHANGED <<score, count>>

\* Mutant: a half, rounded down, is a majority.
IsApprovedByHalf(yes) == Cardinality(yes) >= Players \div 2
\* A majority is one of all actors, whoever abstained.
IsApproved(yes) == 2 * Cardinality(yes) > Players

VoteEnds ==
    /\ Continues("vote")
    /\ LET yes == IF chosen[Order[turn]].name = "approve" THEN approvals \cup {Order[turn]}
                                                           ELSE approvals
       IN CASE turn < Players ->
                 /\ approvals' = yes /\ AskNext("vote")
                 /\ UNCHANGED <<setup, status, mission, attempt, team, history, verdict, memory>>
            [] turn = Players /\ IsApproved(yes) ->
                 /\ approvals' = yes
                 /\ Ask("mission_commitment", <<mission, 0>>, team, history, <<>>)
                 /\ UNCHANGED <<setup, status, mission, attempt, team, history, verdict, memory>>
            [] OTHER -> NextAttempt
    /\ UNCHANGED <<score, count>>

IsMissing(choices) == \E a \in team : choices[a] = NoChoice

\* All commitments have been answered; one that is missing voids the mission.
MissionEnds ==
    /\ Continues("mission_commitment")
    /\ LET sabotaged == \E a \in team : chosen[a].name = "sabotage"
           won == IF sabotaged THEN [score EXCEPT !.cipher = @ + 1]
                               ELSE [score EXCEPT !.council = @ + 1]
       IN IF IsMissing(chosen)
          THEN Ends("none", "mission_commitment_missing") /\ UNCHANGED <<score, count>>
          ELSE /\ score' = won
               /\ count' = [count EXCEPT !.missions = @ + 1]
               /\ CASE won.council >= VictoryTarget -> Ends("council", "victory_target_reached")
                    [] won.council < VictoryTarget /\ won.cipher >= VictoryTarget ->
                         Ends("cipher", "victory_target_reached")
                    [] OTHER ->
                         IF mission < Len(MissionSizes)
                         THEN /\ mission' = mission + 1 /\ attempt' = 1 /\ stage' = "round"
                              /\ UNCHANGED <<setup, status, turn, asked, held, chosen, team, approvals,
                                             history, verdict, tries, memory, transcript>>
                         ELSE Ends("none", "victory_target_unreached")

Continue == StartRound \/ CouncilDelivers \/ SpeechEnds \/ Nominated \/ VoteEnds \/ MissionEnds

Turn(a) ==
    /\ a \in asked
    /\ \/ ResponseRejected(a) \/ TurnFails(a) \/ Breaks(a)
       \/ \E c \in Submittable(a) : Submits(a, c) \/ SubmitsIllegal(a, c)

CouncilNext == Continue \/ \E a \in Actors : Turn(a)

CouncilSpec == CouncilInit /\ [][CouncilNext]_councilVars

\* The event loop resumes `run` when what it awaits has ended.  No request has
\* to end: there is no decision deadline unless a run asks for one
\* (core_spec.py:56), and `_decide` sets none.
FairCouncilSpec == CouncilSpec /\ WF_councilVars(Continue)
-----------------------------------------------------------------------------
\* Properties.

\* Every part of the state has its shape; a request that is open is of the
\* current stage and its actor has made no more attempts than it may, and a
\* terminal row waits for a request that was accepted before and is open.
CouncilTypeOK ==
    /\ setup \in Setups
    /\ status \in {"running", "over", "broken"}
    /\ stage \in CouncilStages \cup {"round"}
    /\ mission \in DOMAIN MissionSizes /\ attempt \in 1..MaxProposals /\ turn \in 0..Players
    /\ asked \subseteq Actors
    /\ \A a \in Actors : chosen[a].name \in Replies \cup {"none"} /\ chosen[a].members \subseteq Actors
    /\ team \subseteq Actors /\ approvals \subseteq Actors
    /\ Len(history) <= HistoryLimit
    /\ \A a \in Actors : tries[a] \in 0..MaxAttempts /\ Len(memory[a]) <= MemoryLimit
    /\ \A a \in asked \cup held : \E i \in RowsOf(transcript, "request") :
           transcript[i].id = IdOf(a) /\ TerminalsOf(transcript, IdOf(a)) = {}
    /\ held \subseteq Actors \ asked
    /\ \A b \in held : \E a \in asked : AcceptedBefore(a, b)

\* Whatever the ciphers answer, skip, fail or submit against the schema, and in
\* whichever order, a run with the strategy channel that comes to an outcome
\* leaves evidence the offline verifier accepts (evidence.py:94-294): no
\* cipher saw a message of its own round, and the metrics add up.
Metrics == [rounds |-> count.rounds, requests |-> count.requests,
            messages |-> count.messages, absent |-> count.absent]
EvidenceVerifies ==
    status = "over" /\ setup.strategic =>
        RowsVerify(transcript, Metrics, Players, Cardinality(Ciphers))

ConsumedIn(round, st, name) ==
    {i \in RowsOf(transcript, "consumed") :
        LET row == transcript[i]
        IN row.id.round = round /\ row.id.stage = st /\ row.choice = name}
Carried(round) == 2 * Cardinality(ConsumedIn(round, "vote", "approve")) > Players
Proposals(m) == {r \in RoundsIn(transcript) : r[1] = m}
Sent(m) ==
    UNION {transcript[i].members : i \in UNION {ConsumedIn(r, "nomination", "team") :
                                            r \in {q \in Proposals(m) : Carried(q)}}}
Commitments(m) ==
    ConsumedIn(<<m, 0>>, "mission_commitment", "support")
        \cup ConsumedIn(<<m, 0>>, "mission_commitment", "sabotage")
Played(m) ==
    /\ \E r \in Proposals(m) : Carried(r)
    /\ {transcript[i].id.actor : i \in Commitments(m)} = Sent(m)
Sabotaged(m) == ConsumedIn(<<m, 0>>, "mission_commitment", "sabotage") # {}
Lost == {m \in DOMAIN MissionSizes : Played(m) /\ Sabotaged(m)}
Won  == {m \in DOMAIN MissionSizes : Played(m) /\ ~Sabotaged(m)}
OutcomeIsReached ==
    CASE verdict.winner = "council" -> score.council = VictoryTarget
      [] verdict.winner = "cipher"  -> score.cipher = VictoryTarget
      [] verdict.reason = "mission_commitment_missing" ->
           ~Played(mission) /\ \E r \in Proposals(mission) : Carried(r)
      [] verdict.reason = "proposal_limit_exhausted" ->
           /\ Cardinality(Proposals(mission)) = MaxProposals
           /\ \A r \in Proposals(mission) : ~Carried(r)
      [] OTHER -> Won \cup Lost = DOMAIN MissionSizes

\* The outcome is the one the consumed decisions lead to (plugin.py:219-371):
\* a team goes on a mission when more than half of all the actors approved it,
\* however many abstained or failed, a mission is resolved when each member's
\* own commitment was consumed and lost when one of them, a cipher, sabotaged
\* it; a missing decision decides nothing for its actor.
VerdictIsEarned ==
    status = "over" =>
        /\ score = [council |-> Cardinality(Won), cipher |-> Cardinality(Lost)]
        /\ \A m \in DOMAIN MissionSizes :
               /\ Cardinality({r \in Proposals(m) : Carried(r)}) <= 1
               /\ Played(m) => Cardinality(Sent(m)) = MissionSizes[m]
        /\ \A i \in RowsOf(transcript, "consumed") :
               transcript[i].choice = "sabotage" => transcript[i].id.actor \in CiphersIn(transcript)
        /\ OutcomeIsReached

\* An actor that keeps its own turns (core_llm_actor.py:581-634) has stored each
\* of its last turns with what the environment consumed of it, oldest first, and
\* no turn of another actor.  The model is shown the newest of them that fit in
\* 4000 characters (snapshot, core_llm_actor.py:596-607), which is left out.
TurnsOf(a) == {i \in RowsOf(transcript, "consumed") : transcript[i].id.actor = a}
IsHeld(a, p) == \E i \in DOMAIN memory[a] : memory[a][i].id = transcript[p].id
HoldsOwnTurns(a) ==
    LET kept == memory[a] IN
    /\ \A i \in DOMAIN kept :
           /\ kept[i].id.actor = a
           /\ \A p \in ConsumedOf(transcript, kept[i].id) : transcript[p].choice = kept[i].choice
    /\ \A i \in DOMAIN kept, j \in DOMAIN kept :
           \A p \in ConsumedOf(transcript, kept[i].id), q \in ConsumedOf(transcript, kept[j].id) :
               (i < j => p < q) /\ (i = j => p = q)
    /\ \A p \in TurnsOf(a), q \in TurnsOf(a) : IsHeld(a, p) /\ p < q => IsHeld(a, q)
    /\ Len(kept) < MemoryLimit => \A p \in TurnsOf(a) : IsHeld(a, p)
MemoryHoldsOwnTurns == stage = "round" \/ status # "running" => \A a \in Actors : HoldsOwnTurns(a)

\* The evidence and the actors' memories both tell what was consumed.
RecordsAgree == CouncilTypeOK /\ EvidenceVerifies /\ MemoryHoldsOwnTurns

\* Every run comes to an outcome, or ends by the exception of an agent, or else
\* waits forever for a request that stays open: the proposals and attempts are
\* bounded, `run` goes on once the last of the gathered requests has ended, and
\* the counters of the metrics never contradict each other (plugin.py:866-895).
RunEnds ==
    \/ <>(status \in {"over", "broken"})
    \/ \E a \in Actors : <>[](a \in asked)

=============================================================================
