---------------------------- MODULE Orchestrator ----------------------------
(***************************************************************************)
(* GameOrchestratorV2 (src/src/game/orchestrator.py): the schedule of one  *)
(* Werewolf game, from the first night to the analysis, over the rules of  *)
(* WerewolfRules.tla.                                                      *)
(*                                                                         *)
(* A step is one batch of requests with the whole handling of its answers, *)
(* up to the next await of an agent.  Nothing else changes the game        *)
(* meanwhile: the loop is one task, and the only thing another task does   *)
(* to it is to set `aborted`.  A request ends with a legal decision, with  *)
(* a skip where the request allows one, or with an exception: an answer    *)
(* that names an illegal target or skips where it may not is refused by    *)
(* DecisionRuntime, which raises (DecisionRuntime.tla).  Outcomes count in *)
(* the order of the request numbers, which is the order of the seats.      *)
(*                                                                         *)
(* Speeches, memories and traces are left out: of a speaker the schedule   *)
(* only sees whether somebody spoke.  Every player is an AI: a human wolf  *)
(* would only be missing from the council.                                 *)
(***************************************************************************)
EXTENDS WerewolfRules, Integers

CONSTANTS
  Skip, Fail,       \* the two ways to name nobody
  Setups            \* the orchestrators that are looked at, as records:
                    \*   maxFailures, maxNoProgress, maxRounds, maxSpeakRounds
                    \*              the limits of __init__
                    \*   bids       turn_policy is one of the bidding ones
                    \*   timed      the decision timeouts are positive, so that
                    \*              every request has a deadline
                    \*   failing    the kinds of request that may fail (a bound)
                    \*   targets    the seats the agents name (a bound)
                    \*   mayAbort   somebody may set `aborted` (a bound)

\* _run_pk's max_pk_rounds
MaxPkRounds == 2

\* __init__ refuses limits that are not positive.
ASSUME SetupsAssumption ==
  /\ \A s \in Setups :
       /\ {s.maxFailures, s.maxNoProgress, s.maxRounds, s.maxSpeakRounds} \subseteq Nat \ {0}
       /\ {s.bids, s.timed, s.mayAbort} \subseteq BOOLEAN
       /\ s.targets \subseteq Seats
  /\ Skip \notin Seats /\ Fail \notin Seats /\ Skip # Fail

VARIABLES
  setup,        \* the arguments of __init__, which nothing changes
  game,         \* self.state
  stage,        \* where the coroutine is
  scene,        \* whose deaths _process_deaths_and_hunter settles
  left,         \* the speakers still to be asked in this round
  talked,       \* anyone_spoke
  round,        \* round_idx of _run_day
  pkRound,      \* pk_round of _run_voting
  streak,       \* _consecutive_decision_failures, up to MaxFailures
  pending,      \* _termination_pending: its reason
  status,       \* termination_status
  broadcast,    \* the game_ended event sent to the clients
  wins,         \* how many game_ended events the rules have recorded
  aborted,      \* self.aborted
  noProgress,   \* _consecutive_no_progress_rounds
  rounds,       \* the length of _progress_round_history
  roundStart,   \* _round_start_living_ids
  validVote,    \* _round_had_valid_vote
  offered,      \* history: who has been asked for last words
  potions       \* history: the nights in which each potion worked

speech   == <<left, talked, round, pkRound>>
verdict  == <<pending, status, broadcast, wins>>
progress == <<noProgress, rounds, roundStart, validVote>>
history  == <<offered, potions>>
vars == <<setup, game, stage, scene, speech, streak, verdict, aborted, progress, history>>

MaxFailures    == setup.maxFailures
MaxNoProgress  == setup.maxNoProgress
MaxRounds      == setup.maxRounds
MaxSpeakRounds == setup.maxSpeakRounds
BidPolicy      == setup.bids
Failing        == setup.failing
Targets        == setup.targets

\* The stages of a night, in the order of _run_night, and the others.
Stages == {"loop", "see", "guard", "protect", "council", "kill", "save", "poison",
           "dawn", "words", "hunter", "lastwords", "finish",
           "speak", "vote", "pk", "speakpk", "over"}

Init ==
  /\ setup \in Setups
  /\ game = NewGame
  /\ stage = "loop" /\ scene = "night"
  /\ left = 0 /\ talked = FALSE /\ round = 0 /\ pkRound = 0
  /\ streak = 0
  /\ pending = None /\ status = "running" /\ broadcast = None /\ wins = 0
  /\ aborted = FALSE
  /\ noProgress = 0 /\ rounds = 0 /\ roundStart = Seats /\ validVote = FALSE
  /\ offered = {} /\ potions = [save |-> 0, poison |-> 0]

(***************************************************************************)
(* Requests and the failure guard                                          *)
(***************************************************************************)

\* The kinds of request are the code's action kinds, but that the doctor's
\* save is "protect" here.

\* can_skip of the request
CanSkip(kind) ==
  kind \in {"save", "protect", "poison", "hunter_shot", "speak", "last_words"}

Unanswered(kind) ==
  (IF CanSkip(kind) THEN {Skip} ELSE {}) \cup (IF kind \in Failing THEN {Fail} ELSE {})

\* _legal_target_seats, but for the actor's own seat
Legal(kind) ==
  LET living == Living(game)
  IN  CASE kind = "night_kill" -> living \ Wolves
        [] kind = "vote" -> IF game.pk = {} THEN living ELSE living \cap game.pk
        [] kind = "guard" -> living \ {game.lastGuarded}
        [] kind = "save" -> {KillTarget(game)} \ {None}
        [] OTHER -> living

\* The kinds of action that cannot name the actor's own seat
NotOneself(kind) == kind \in {"see", "poison", "hunter_shot", "vote"}

\* The legal targets that are considered: those in Targets, unless that leaves
\* some actor none.
Considered(kind) ==
  LET some == Legal(kind) \cap Targets
  IN  IF Cardinality(some) > (IF NotOneself(kind) THEN 1 ELSE 0)
        THEN some ELSE Legal(kind)

\* How a batch of requests of one kind may end, seat by seat.
Replies(kind, asked) ==
  {r \in [asked -> Considered(kind) \cup Unanswered(kind)] :
     NotOneself(kind) => \A s \in asked : r[s] # s}

Failed(r) == {s \in DOMAIN r : r[s] = Fail}

Named(r) == {s \in DOMAIN r : r[s] \in Seats}

Failures(kind, asked) == SUBSET (IF kind \in Failing THEN asked ELSE {})

\* _record_request_terminal_outcome takes the outcomes in the order of the
\* request numbers, whatever order they came in: the streak at one request of
\* a batch is the run of failures that ends there, which goes on from the
\* streak before the batch when nothing in it has succeeded yet.
StreakAt(b, asked, failed) ==
  LET answered == {t \in asked \ failed : t <= b}
      run == {s \in failed : s <= b /\ \A t \in answered : t < s}
  IN  Cardinality(run) + IF answered = {} THEN streak ELSE 0

\* The streak after a batch.
StreakAfter(asked, failed) ==
  IF asked = {} THEN streak
  ELSE LET last == CHOOSE b \in asked : \A t \in asked : t <= b
           n == StreakAt(last, asked, failed)
       IN  IF n < MaxFailures THEN n ELSE MaxFailures

\* What is pending after a batch: the first reason stays.
Pending(asked, failed) ==
  IF pending = None /\ \E b \in failed : StreakAt(b, asked, failed) >= MaxFailures
    THEN "consecutive_decision_failures" ELSE pending

\* The game ends with a winner or without: _finish_death_resolution and the
\* two branches of _terminate_if_pending, with _emit_game_ended's once guard.
End(g, winner, why) ==
  /\ game' = [g EXCEPT !.phase = "ended", !.winner = winner]
  /\ status' = IF winner = None THEN "incomplete" ELSE "completed"
  /\ wins' = IF winner = None THEN wins ELSE wins + 1
  /\ broadcast' = IF broadcast # None THEN broadcast
                  ELSE [winner |-> winner,
                        reason |-> IF winner = None THEN why ELSE "winner_declared"]
  /\ pending' = None

\* Mutant: a guard ends the game although a side has won.
TerminateUnjudged(g, why) == End(g, None, why)

\* _terminate_if_pending with something pending: a winner takes precedence.
Terminate(g, why) == End(g, CheckWinner(g), why)

\* After a batch: terminate, and leave for `exit`, or go on to `next`.
Continue(g, p, next, exit) ==
  IF p # None
    THEN Terminate(g, p) /\ stage' = exit
    ELSE game' = g /\ stage' = next /\ UNCHANGED verdict

(***************************************************************************)
(* The night                                                               *)
(***************************************************************************)

\* run: play on, or stop because the game is over or aborted.
Loop ==
  /\ stage = "loop" /\ game.phase # "ended" /\ ~aborted
  /\ IF game.phase = "night"
       THEN stage' = "see" /\ UNCHANGED speech
       ELSE /\ stage' = "speak"
            /\ left' = Cardinality(Living(game)) /\ talked' = FALSE
            /\ round' = 0 /\ pkRound' = 0
  /\ UNCHANGED <<game, scene, streak, verdict, aborted, progress, history>>

RunEnds ==
  /\ stage = "loop" /\ (game.phase = "ended" \/ aborted)
  /\ stage' = "over"
  /\ IF game.phase = "ended" THEN UNCHANGED <<game, verdict>>
     ELSE Terminate(game, "aborted")
  /\ UNCHANGED <<scene, speech, streak, aborted, progress, history>>

\* _night_role_actions: one role with one action and at most one player; the
\* stage has the name of the kind of request.
NightRole ==
  [s \in {"see", "guard", "protect"} |->
     CASE s = "see"     -> [role |-> "seer", action |-> "see", next |-> "guard"]
       [] s = "guard"   -> [role |-> "guard", action |-> "guard", next |-> "protect"]
       [] s = "protect" -> [role |-> "doctor", action |-> "save", next |-> "council"]]

\* _submit_safe and _submit_explicit: the rules may still refuse.
Submit(g, actor, action, target) ==
  LET a == [actor |-> actor, action |-> action, target |-> target]
  IN  IF NightActionAccepted(g, a) THEN SubmitNightAction(g, a) ELSE g

SubmitAny(g, action, r) ==
  IF Named(r) = {} THEN g
  ELSE LET s == CHOOSE s \in Named(r) : TRUE IN Submit(g, s, action, r[s])

NightRoleActs ==
  /\ stage \in DOMAIN NightRole
  /\ LET row == NightRole[stage]
         asked == LivingOf(game, row.role)
     IN  \E r \in Replies(stage, asked) :
           /\ streak' = StreakAfter(asked, Failed(r))
           /\ Continue(SubmitAny(game, row.action, r), Pending(asked, Failed(r)),
                       row.next, "loop")
  /\ UNCHANGED <<scene, speech, aborted, progress, history>>

\* The council; _collect_werewolf_kill_proposals returns to the check of
\* _run_night when the guard trips here.
WolvesConfer ==
  /\ stage = "council"
  /\ \E failed \in Failures("wolf_council", LivingOf(game, "werewolf")) :
       LET asked == LivingOf(game, "werewolf") IN
         /\ streak' = StreakAfter(asked, failed)
         /\ Continue(game, Pending(asked, failed), "kill", "loop")
  /\ UNCHANGED <<scene, speech, aborted, progress, history>>

\* The final vote: a seeded choice among the leaders, submitted once, by the
\* first wolf who named the target.
WolvesKill ==
  /\ stage = "kill"
  /\ LET asked == LivingOf(game, "werewolf") IN
     \E r \in Replies("night_kill", asked) :
       LET named == {r[s] : s \in Named(r)}
           Count(t) == Cardinality({s \in Named(r) : r[s] = t})
           top == {t \in named : \A u \in named : Count(u) <= Count(t)}
           First(t) == CHOOSE s \in Named(r) :
                         r[s] = t /\ \A w \in Named(r) : r[w] = t => s <= w
       IN  /\ streak' = StreakAfter(asked, Failed(r))
           /\ \E g \in (IF top = {} THEN {game}
                        ELSE {Submit(game, First(t), "kill", t) : t \in top}) :
                Continue(g, Pending(asked, Failed(r)), "save", "loop")
  /\ UNCHANGED <<scene, speech, aborted, progress, history>>

\* _witch_save_phase: only with the antidote, and only the wolves' victim.
WitchSaves ==
  /\ stage = "save"
  /\ LET asked == IF game.antidote THEN LivingOf(game, "witch") ELSE {} IN
     \E r \in Replies("save", asked) :
       LET g == SubmitAny(game, "save", r) IN
         /\ streak' = StreakAfter(asked, Failed(r))
         /\ Continue(IF g # game THEN SpendAntidote(g) ELSE g,
                     Pending(asked, Failed(r)), "poison", "loop")
  /\ UNCHANGED <<scene, speech, aborted, progress, history>>

\* _witch_poison_phase: only with the poison, and not after a save.
WitchPoisons ==
  /\ stage = "poison"
  /\ LET savers == {a.actor : a \in {b \in game.acts : b.action = "save"}}
         asked == (IF game.poison THEN LivingOf(game, "witch") ELSE {}) \ savers
     IN  \E r \in Replies("poison", asked) :
           LET g == SubmitAny(game, "poison", r) IN
             /\ streak' = StreakAfter(asked, Failed(r))
             /\ Continue(IF g # game THEN SpendPoison(g) ELSE g,
                         Pending(asked, Failed(r)), "dawn", "loop")
  /\ UNCHANGED <<scene, speech, aborted, progress, history>>

\* resolve_night and _queue_last_words_for_night_deaths
Dawn ==
  LET Used(action) ==
        IF \E a \in game.acts : a.action = action /\ RoleOf[a.actor] = "witch"
          THEN 1 ELSE 0
      fresh == Only(NightDeaths(game), {s \in Seats : ~ Queued(game, s)})
  IN  /\ stage = "dawn"
      /\ game' = [ResolveNight(game) EXCEPT !.words = @ \o fresh]
      /\ potions' = [save |-> potions.save + Used("save"),
                     poison |-> potions.poison + Used("poison")]
      /\ stage' = "words" /\ scene' = "night"
      /\ UNCHANGED <<speech, streak, verdict, aborted, progress, offered>>

(***************************************************************************)
(* Deaths: last words, the hunter's shot, the last words of his victim     *)
(***************************************************************************)

\* Mutant: only words that are spoken leave the queue.
LastWordsKeepsUnspoken ==
  /\ stage \in {"words", "lastwords"} /\ game.words # <<>>
  /\ LET s == Head(game.words) IN
     /\ offered' = offered \cup {s}
     /\ \/ /\ game' \in {RecordLastWords(game, s), game}
          /\ streak' = 0 /\ UNCHANGED <<stage, verdict>>
       \/ /\ "last_words" \in Failing
          /\ streak' = StreakAfter({s}, {s})
          /\ Continue(game, Pending({s}, {s}), stage, "finish")
  /\ UNCHANGED <<scene, speech, aborted, progress, potions>>

\* _process_last_words_queue: words that are spoken go through the rules, a
\* silence or a failure just leaves the queue.  When the guard trips, it returns to
\* _process_deaths_and_hunter and from there to the caller, which goes on to
\* _finish_death_resolution: nothing is pending any more.
LastWords ==
  /\ stage \in {"words", "lastwords"} /\ game.words # <<>>
  /\ LET s == Head(game.words)
         dropped == [game EXCEPT !.words = Tail(@)]
     IN
     /\ offered' = offered \cup {s}
     /\ \/ /\ game' \in {RecordLastWords(game, s), dropped}
          /\ streak' = 0 /\ UNCHANGED <<stage, verdict>>
       \/ /\ "last_words" \in Failing
          /\ streak' = StreakAfter({s}, {s})
          /\ Continue(dropped, Pending({s}, {s}), stage, "finish")
  /\ UNCHANGED <<scene, speech, aborted, progress, potions>>

LastWordsDone ==
  /\ stage \in {"words", "lastwords"} /\ game.words = <<>>
  /\ stage' = IF stage = "words" THEN "hunter" ELSE "finish"
  /\ UNCHANGED <<game, scene, speech, streak, verdict, aborted, progress, history>>

\* The hunter's shot: no shot when the request fails, unless the guard trips.
HunterActs ==
  /\ stage = "hunter" /\ game.pendingHunter # <<>>
  /\ LET h == Head(game.pendingHunter) IN
     \E r \in Replies("hunter_shot", {h}) :
       LET t == IF r[h] \in Seats THEN r[h] ELSE None
           p == Pending({h}, Failed(r))
           g == HunterShoot(game, h, t)
       IN  /\ streak' = StreakAfter({h}, Failed(r))
           /\ IF p # None THEN Terminate(game, p) /\ stage' = "finish"
              ELSE /\ game' = IF t = None THEN g ELSE QueueLastWords(g, t)
                   /\ UNCHANGED <<stage, verdict>>
  /\ UNCHANGED <<scene, speech, aborted, progress, history>>

HunterDone ==
  /\ stage = "hunter" /\ game.pendingHunter = <<>>
  /\ stage' = "lastwords"
  /\ UNCHANGED <<game, scene, speech, streak, verdict, aborted, progress, history>>

(***************************************************************************)
(* The day                                                                 *)
(***************************************************************************)

\* Later rounds of a bidding policy ask everybody at once and check the guard
\* after the batch; otherwise each failure is checked as it comes.
Batched == BidPolicy /\ round > 0

Speak ==
  /\ stage = "speak" /\ left > 0
  /\ left' = left - 1
  /\ \/ /\ talked' \in {talked, TRUE}
        /\ streak' = 0 /\ UNCHANGED <<game, stage, verdict>>
     \/ /\ "speak" \in Failing
        /\ talked' = talked
        /\ streak' = StreakAfter({left}, {left})
        /\ LET p == Pending({left}, {left}) IN
           IF Batched
             THEN pending' = p /\ UNCHANGED <<game, stage, status, broadcast, wins>>
             ELSE Continue(game, p, stage, "loop")
  /\ UNCHANGED <<scene, round, pkRound, aborted, progress, history>>

\* The end of a round of speeches: another one, or the vote.
RoundEnds ==
  /\ stage = "speak" /\ left = 0
  /\ IF pending = None /\ talked /\ round + 1 < MaxSpeakRounds
       THEN /\ round' = round + 1 /\ talked' = FALSE
            /\ left' = Cardinality(Living(game))
            /\ UNCHANGED <<game, stage, verdict>>
       ELSE /\ Continue(IF pending = None THEN StartVote(game) ELSE game,
                        pending, "vote", "loop")
            /\ left' = 0 /\ talked' = FALSE /\ round' = 0
  /\ UNCHANGED <<scene, pkRound, streak, aborted, progress, history>>

\* _run_voting up to the deaths: the votes of one round, and their resolution.
CollectVotes ==
  /\ stage = "vote"
  /\ LET asked == Living(game)
         Cast(r) == [s \in Seats |->
                       IF s \notin asked \ Failed(r) THEN None
                       ELSE IF VoteAccepted(game, s, r[s]) THEN r[s] ELSE None]
     IN \E r \in Replies("vote", asked) :
        \E cast \in {[game EXCEPT !.votes = Cast(r)]}, p \in {Pending(asked, Failed(r))} :
        \E g \in {IF p = None THEN ResolveVote(cast) ELSE cast} :
          /\ streak' = StreakAfter(asked, Failed(r))
          /\ validVote' = (validVote \/ Voters(cast) # {})
          /\ Continue(g, p, IF g.pk # {} THEN "pk" ELSE "words", "loop")
  /\ scene' = "vote"
  /\ UNCHANGED <<speech, aborted, noProgress, rounds, roundStart, history>>

\* _run_pk: the tied players speak again, twice at most; then nobody is exiled.
OpenPk ==
  /\ stage = "pk"
  /\ IF pkRound >= MaxPkRounds
       THEN game' = [game EXCEPT !.pk = {}] /\ stage' = "finish" /\ left' = left
       ELSE game' = game /\ stage' = "speakpk" /\ left' = Cardinality(game.pk)
  /\ UNCHANGED <<scene, talked, round, pkRound, streak, verdict, aborted, progress,
                 history>>

SpeakPk ==
  /\ stage = "speakpk" /\ left > 0
  /\ left' = left - 1
  /\ \/ /\ streak' = 0 /\ UNCHANGED <<game, stage, verdict>>
     \/ /\ "speak" \in Failing
        /\ streak' = StreakAfter({left}, {left})
        /\ Continue(game, Pending({left}, {left}), stage, "loop")
  /\ UNCHANGED <<scene, talked, round, pkRound, aborted, progress, history>>

PkEnds ==
  /\ stage = "speakpk" /\ left = 0
  /\ stage' = "vote" /\ pkRound' = pkRound + 1
  /\ UNCHANGED <<game, scene, left, talked, round, streak, verdict, aborted, progress,
                 history>>

(***************************************************************************)
(* The end of a night and of a round                                       *)
(***************************************************************************)

\* _complete_progress_round, once the next night has been set up in g.
CompleteRound(g) ==
  LET progressed == Living(g) # roundStart \/ validVote
      idle == IF progressed THEN 0 ELSE noProgress + 1
      p == IF pending # None THEN pending
           ELSE IF ~progressed /\ idle >= MaxNoProgress
             THEN "consecutive_no_progress_rounds"
           ELSE IF rounds + 1 >= MaxRounds THEN "max_game_rounds"
           ELSE None
  IN  /\ noProgress' = idle /\ rounds' = rounds + 1
      /\ Continue(g, p, "loop", "loop")
      /\ IF p # None THEN UNCHANGED <<roundStart, validVote>>
         ELSE roundStart' = Living(g) /\ validVote' = FALSE

\* The game after the deaths of a scene: day, or the next night.
Advanced ==
  [game EXCEPT !.phase = IF scene = "night" THEN "day" ELSE "night",
               !.day = IF scene = "night" THEN @ ELSE @ + 1,
               !.votes = NoVotes]

\* Mutant: the round of a PK that reached its limit is not recorded.
FinishUnrecorded ==
  /\ stage = "finish"
  /\ IF CheckWinner(game) # None
       THEN /\ End(game, CheckWinner(game), None)
            /\ stage' = "loop" /\ UNCHANGED progress
     ELSE IF scene = "night" \/ pkRound >= MaxPkRounds
       THEN Continue(Advanced, None, "loop", "loop") /\ UNCHANGED progress
     ELSE CompleteRound(Advanced)
  /\ UNCHANGED <<scene, speech, streak, aborted, history>>

\* _finish_death_resolution and _check_winner_and_advance.  The check for
\* something pending right before finds nothing: the loops of the deaths have
\* made it already.
Finish ==
  /\ stage = "finish"
  /\ IF CheckWinner(game) # None
       THEN /\ End(game, CheckWinner(game), None)
            /\ stage' = "loop" /\ UNCHANGED progress
     ELSE IF scene = "night"
       THEN Continue(Advanced, None, "loop", "loop") /\ UNCHANGED progress
     ELSE CompleteRound(Advanced)
  /\ UNCHANGED <<scene, speech, streak, aborted, history>>

\* RoomManager sets `aborted` at any time; the loop looks at it between two
\* phases and nobody else does, so that it may as well be set right then.
Abort ==
  /\ setup.mayAbort /\ ~aborted /\ stage = "loop"
  /\ aborted' = TRUE
  /\ UNCHANGED <<game, stage, scene, speech, streak, verdict, progress, history>>

Plays ==
  \/ Loop \/ RunEnds
  \/ NightRoleActs \/ WolvesConfer \/ WolvesKill \/ WitchSaves \/ WitchPoisons \/ Dawn
  \/ LastWords \/ LastWordsDone \/ HunterActs \/ HunterDone
  \/ Speak \/ RoundEnds \/ CollectVotes \/ OpenPk \/ SpeakPk \/ PkEnds
  \/ Finish

Next == (Plays \/ Abort) /\ UNCHANGED setup

Spec == Init /\ [][Next]_vars

\* Every request with a deadline ends, at the latest then (DecisionRuntime.tla),
\* and the loop is one task: nothing else keeps it from its next step.
FairSpec == Spec /\ WF_vars(setup.timed /\ Plays /\ UNCHANGED setup)

(***************************************************************************)
(* Properties                                                              *)
(***************************************************************************)

Verdicts == {"consecutive_decision_failures", "consecutive_no_progress_rounds",
             "max_game_rounds", "aborted", "winner_declared"}

\* The game_ended events.
Endings == [winner : {"village", "werewolves", None}, reason : Verdicts]

ASSUME NoneAssumption == None \notin {"village", "werewolves"} \cup Verdicts \cup Endings

TypeOK ==
  /\ game \in Games
  /\ stage \in Stages /\ scene \in {"night", "vote"}
  /\ left \in 0 .. Cardinality(Seats) /\ talked \in BOOLEAN
  /\ round \in 0 .. MaxSpeakRounds - 1 /\ pkRound \in 0 .. MaxPkRounds
  /\ streak \in 0 .. MaxFailures
  /\ pending \in Verdicts \cup {None}
  /\ status \in {"running", "completed", "incomplete"}
  /\ broadcast \in Endings \cup {None}
  /\ wins \in Nat
  /\ aborted \in BOOLEAN
  /\ noProgress \in Nat /\ rounds \in 0 .. MaxRounds
  /\ roundStart \subseteq Seats /\ validVote \in BOOLEAN
  /\ offered \subseteq Seats
  /\ potions \in [save : Nat, poison : Nat]

\* The verdict of an ended game is the one the survivors justify: a guard or an
\* abort never hides a side that has won, and nobody wins by a guard.  No phase
\* begins once a side has won, but for the first night, which opens whatever was
\* dealt: a deck may be half wolves, and nothing looks for a winner before a
\* night is over.  And a guard that trips is acted on in the step in which it
\* trips; it stays pending only while speeches of a batch already sent are
\* collected.  (Whether the end then lasts is another matter: GameEndedIsFinal.)
VerdictIsJust ==
  /\ game.phase = "ended" => game.winner = CheckWinner(game)
  /\ stage = "loop" /\ game.phase # "ended" /\ game # NewGame
       => CheckWinner(game) = None
  /\ pending # None => stage = "speak" /\ Batched

\* Before play goes on, everybody who died has been offered last words, once,
\* and every shot that was due is settled; and no night begins before the round
\* before it has been recorded, whatever way its vote ended, so that the limits
\* on rounds count every night.
RoundsAreSettled ==
  /\ TypeOK
  /\ \A i \in 1 .. Len(game.words) :
       /\ game.words[i] \notin Living(game) \cup offered
       /\ \A j \in 1 .. Len(game.words) : game.words[i] = game.words[j] => i = j
  /\ stage = "loop" /\ broadcast = None =>
       offered = Seats \ Living(game) /\ game.pendingHunter = <<>>
  /\ stage = "loop" /\ game.phase = "night" => game.day = rounds + 1

\* What the rules forbid never happens, whatever the agents ask for: nobody dies
\* twice, not by the night, nor the hunter, nor the vote; a shot is due only
\* from a hunter who died otherwise than by poison, which replaces the wolves'
\* reason; the guard never protects one seat on two consecutive nights; and each
\* potion works in one night at most, and is put away then.
RulesAreKept ==
  [][/\ \A s \in Seats : game.died[s] # "alive" => game'.died[s] = game.died[s]
     /\ \A i \in DOMAIN game'.pendingHunter :
          game'.died[game'.pendingHunter[i]] \notin {"alive", "poisoned"}
     /\ game.phase = "night" /\ game'.phase = "day" /\ game'.lastGuarded # None
          => game'.lastGuarded # game.lastGuarded
     /\ game'.phase \in {"day", "voting"} =>
          /\ potions'.save = IF game'.antidote THEN 0 ELSE 1
          /\ potions'.poison = IF game'.poison THEN 0 ELSE 1]_vars

\* Whoever is left and whoever votes, somebody is exiled only with strictly more
\* votes than any other, with more than half of the living if somebody did not
\* vote, and out of the tied candidates if the vote is a PK; and a vote that
\* everybody cast and one player leads does exile.  The cases are the votes of
\* up to four players, looked at once, before the first night.
ExileIsCarried ==
  game = NewGame /\ stage = "loop" =>
    \A living \in {L \in SUBSET Seats : Cardinality(L) \in 2 .. 4} :
    \A pk \in {{}} \cup {c \in SUBSET living : Cardinality(c) \in 2 .. 3} :
    \A cast \in [living -> living \cup {None}] :
      LET g == [NewGame EXCEPT
                  !.phase = "voting", !.pk = pk,
                  !.died = [s \in Seats |-> IF s \in living THEN "alive" ELSE "exiled"],
                  !.votes = [s \in Seats |-> IF s \in living THEN cast[s] ELSE None]]
          legal == \A s \in living : cast[s] # None => VoteAccepted(g, s, cast[s])
          out == living \ Living(ResolveVote(g))
          ahead == {s \in living : \A t \in living \ {s} : VotesFor(g, t) < VotesFor(g, s)}
      IN  legal =>
            /\ \A s \in out :
                 /\ s \in ahead
                 /\ living \subseteq Voters(g) \/ 2 * VotesFor(g, s) > Cardinality(living)
                 /\ pk # {} => s \in pk
            /\ living \subseteq Voters(g) => ahead \subseteq out

\* A game whose requests have deadlines ends, whatever the agents answer.
GameEnds == setup.timed ~> stage = "over"

\* game_ended closes the game: after it, only the analysis follows.
GameEndedIsFinal == broadcast # None => game.phase = "ended"
=============================================================================
