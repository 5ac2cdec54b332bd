--------------------------- MODULE WerewolfRules ---------------------------
(***************************************************************************)
(* RulesEngine and the mutable GameState it works on                       *)
(* (src/src/game/rules.py, src/src/game/models.py).  Each operation of the *)
(* engine is an operator from a game to a game, with a guard of its own    *)
(* where the code raises RulesError: a refused call changes nothing.       *)
(*                                                                         *)
(* Orchestrator.tla makes the calls, in the order the program uses.        *)
(*                                                                         *)
(* Events, names and messages are left out; a night action, a vote and a   *)
(* death are kept as the seats and kinds the rules look at.  The rows of   *)
(* night_actions are a set: the engine only ever counts, filters and       *)
(* replaces them, and a deck holds at most one guard, so that guards[0] is *)
(* the only one.                                                           *)
(***************************************************************************)
EXTENDS Naturals, Sequences, FiniteSets

CONSTANTS
  Seats,      \* the seat numbers of the players
  RoleOf,     \* the role dealt to each seat
  None        \* no seat, no winner, ...

Roles == {"villager", "werewolf", "seer", "doctor", "witch", "guard", "hunter"}

\* CLASSIC_V1_SINGLETON_ROLES
Singletons == {"seer", "doctor", "witch", "guard", "hunter"}

Holders(role) == {s \in Seats : RoleOf[s] = role}

Wolves == Holders("werewolf")

\* create_game takes six to twelve players; the seats are their numbers.
ASSUME SeatsAssumption ==
  /\ Seats \subseteq Nat
  /\ IsFiniteSet(Seats)
  /\ Cardinality(Seats) \in 6 .. 12
  /\ None \notin Seats

\* validate_role_deck: a wolf, somebody who is not one, and single power roles.
ASSUME DeckAssumption ==
  /\ RoleOf \in [Seats -> Roles]
  /\ Wolves # {} /\ Wolves # Seats
  /\ \A role \in Singletons : \A s, t \in Holders(role) : s = t

(***************************************************************************)
(* The game state                                                          *)
(***************************************************************************)

\* died[s] is "alive" or the DeathReason: alive and death_reason always
\* change together in the engine.
Fates == {"alive", "wolf_kill", "poisoned", "exiled", "hunter_shot"}

NightActions == [actor : Seats, action : {"kill", "see", "save", "poison", "guard"},
                 target : Seats]

Games ==
  [phase : {"night", "day", "voting", "ended"},
   day : Nat,
   died : [Seats -> Fates],
   acts : SUBSET NightActions,
   votes : [Seats -> Seats \cup {None}],
   winner : {"village", "werewolves", None},
   antidote : BOOLEAN,
   poison : BOOLEAN,
   lastGuarded : Seats \cup {None},
   pendingHunter : Seq(Seats),
   words : Seq(Seats),
   pk : SUBSET Seats]

NoVotes == [s \in Seats |-> None]

\* GameState's defaults, and deal_roles, which opens the first night.
NewGame ==
  [phase |-> "night", day |-> 1, died |-> [s \in Seats |-> "alive"],
   acts |-> {}, votes |-> NoVotes, winner |-> None,
   antidote |-> TRUE, poison |-> TRUE, lastGuarded |-> None,
   pendingHunter |-> <<>>, words |-> <<>>, pk |-> {}]

Living(g) == {s \in Seats : g.died[s] = "alive"}

LivingOf(g, role) == Living(g) \cap Holders(role)

\* RulesEngine.check_winner
CheckWinner(g) ==
  LET wolves == LivingOf(g, "werewolf")
      village == Living(g) \ wolves
  IN  IF wolves = {} THEN "village"
      ELSE IF Cardinality(wolves) >= Cardinality(village) THEN "werewolves"
      ELSE None

(***************************************************************************)
(* Night                                                                   *)
(***************************************************************************)

\* The table `expected` of submit_night_action
ActionsOf(role) ==
  CASE role = "werewolf" -> {"kill"}
    [] role = "seer"     -> {"see"}
    [] role = "witch"    -> {"save", "poison"}
    [] role = "guard"    -> {"guard"}
    [] role = "doctor"   -> {"save"}
    [] OTHER             -> {}

\* The target is somebody alive, no wolf for a kill, and not the actor for a
\* check or the poison.
TargetAllowed(g, a) ==
  /\ a.target \in Living(g)
  /\ a.action = "kill" => RoleOf[a.target] # "werewolf"
  /\ a.action \in {"see", "poison"} => a.target # a.actor

\* The witch has the potion, and has not used the other one tonight.
PotionAllowed(g, a) ==
  /\ a.action = "save" /\ RoleOf[a.actor] = "witch" => g.antidote
  /\ a.action = "poison" => g.poison
  /\ RoleOf[a.actor] = "witch" =>
       \A b \in g.acts : b.actor = a.actor => b.action = a.action

\* The guard leaves the seat of the night before alone.
GuardAllowed(g, a) == a.action = "guard" => g.lastGuarded # a.target

\* Everything submit_night_action checks before it records the action.
NightActionAccepted(g, a) ==
  /\ g.phase = "night"
  /\ a.actor \in Living(g)
  /\ a.action \in ActionsOf(RoleOf[a.actor])
  /\ TargetAllowed(g, a)
  /\ PotionAllowed(g, a)
  /\ GuardAllowed(g, a)

\* The actor's earlier row of the same kind is replaced.
SubmitNightAction(g, a) ==
  [g EXCEPT !.acts =
     {b \in @ : b.actor # a.actor \/ b.action # a.action} \cup {a}]

\* apply_witch_save and apply_witch_poison with used=True
SpendAntidote(g) == [g EXCEPT !.antidote = FALSE]
SpendPoison(g) == [g EXCEPT !.poison = FALSE]

\* The elements of s that are in S, in their order.  (A recursive function,
\* which can be reasoned about, where SelectSeq cannot.)
Only(s, S) ==
  LET only[n \in 0 .. Len(s)] ==
        IF n = 0 THEN <<>>
        ELSE IF s[n] \in S THEN Append(only[n - 1], s[n]) ELSE only[n - 1]
  IN  only[Len(s)]

TargetsOf(g, action) == {a.target : a \in {b \in g.acts : b.action = action}}

\* The target most wolves name; among equals, the lowest seat.
KillTarget(g) ==
  LET kills == {a \in g.acts : a.action = "kill"}
      Count(t) == Cardinality({a \in kills : a.target = t})
      named == {a.target : a \in kills}
      top == {t \in named : \A u \in named : Count(u) <= Count(t)}
  IN  IF kills = {} THEN None ELSE CHOOSE t \in top : \A u \in top : t <= u

\* The wolves' victim dies unless exactly one of guard and save protects it.
KilledByWolves(g) ==
  LET t == KillTarget(g)
  IN  {s \in {t} \ {None} :
         (s \in TargetsOf(g, "guard")) = (s \in TargetsOf(g, "save"))}

\* Poison comes second, cannot be blocked, and replaces the reason.
NightFate(g) ==
  [s \in Seats |-> IF s \in TargetsOf(g, "poison") THEN "poisoned"
                   ELSE IF s \in KilledByWolves(g) THEN "wolf_kill"
                   ELSE g.died[s]]

\* state.night_deaths: the wolves' victim first, then the poisoned.
NightDeaths(g) ==
  LET first == KilledByWolves(g)
      then == TargetsOf(g, "poison") \ first
      One(S) == IF S = {} THEN <<>> ELSE <<CHOOSE s \in S : TRUE>>
  IN  One(first) \o One(then)

\* Mutant: the wolves' victim shoots, poisoned or not.
HuntersKilled(g) ==
  Only(NightDeaths(g), Holders("hunter") \cap KilledByWolves(g))

\* The dead who are hunters and were not poisoned.
NewHunters(g) ==
  Only(NightDeaths(g), {s \in Holders("hunter") : NightFate(g)[s] # "poisoned"})

ResolveNight(g) ==
  [g EXCEPT
     !.phase = "day",
     !.died = NightFate(g),
     !.pendingHunter = @ \o NewHunters(g),
     !.lastGuarded = IF TargetsOf(g, "guard") = {} THEN None
                     ELSE CHOOSE s \in TargetsOf(g, "guard") : TRUE,
     !.acts = {},
     !.votes = NoVotes]

(***************************************************************************)
(* Last words and the hunter                                               *)
(***************************************************************************)

Queued(g, s) == \E i \in 1 .. Len(g.words) : g.words[i] = s

\* queue_last_words raises when the seat is queued already.
QueueLastWords(g, s) == [g EXCEPT !.words = Append(@, s)]

\* record_last_words drops every row of the seat.
RecordLastWords(g, s) ==
  [g EXCEPT !.words = Only(@, Seats \ {s})]

MayShoot(g, h, target) ==
  /\ RoleOf[h] = "hunter"
  /\ \E i \in 1 .. Len(g.pendingHunter) : g.pendingHunter[i] = h
  /\ target # None => target \in Living(g)

HunterShoot(g, h, target) ==
  LET rest == Only(g.pendingHunter, Seats \ {h})
  IN  IF target = None THEN [g EXCEPT !.pendingHunter = rest]
      ELSE [g EXCEPT
              !.died[target] = "hunter_shot",
              !.pendingHunter =
                 IF RoleOf[target] = "hunter" THEN Append(rest, target) ELSE rest]

(***************************************************************************)
(* The vote                                                                *)
(***************************************************************************)

StartVote(g) == [g EXCEPT !.phase = "voting", !.votes = NoVotes]

VoteAccepted(g, voter, target) ==
  /\ g.phase = "voting"
  /\ {voter, target} \subseteq Living(g)
  /\ voter # target
  /\ g.pk # {} => target \in g.pk

SubmitVote(g, voter, target) == [g EXCEPT !.votes[voter] = target]

Voters(g) == {s \in Seats : g.votes[s] # None}

VotesFor(g, t) == Cardinality({s \in Seats : g.votes[s] = t})

\* The most votes anybody has, and the seats that have them (tied_ids).
TopCount(g) ==
  LET counts == {VotesFor(g, t) : t \in Seats}
  IN  CHOOSE n \in counts : \A m \in counts : m <= n

Leaders(g) ==
  LET top == TopCount(g)
  IN  IF Voters(g) = {} THEN {} ELSE {t \in Seats : VotesFor(g, t) = top}

\* resolve_vote raises on an incomplete vote when require_all is set.
MayResolveVote(g, requireAll) ==
  /\ g.phase = "voting"
  /\ requireAll => Living(g) \subseteq Voters(g) /\ Voters(g) # {}

\* Mutant: exactly half of the living is enough.
UndecidedBelowHalf(g) ==
  \/ Voters(g) = {}
  \/ /\ ~ Living(g) \subseteq Voters(g)
     /\ 2 * TopCount(g) < Cardinality(Living(g))

\* Nobody is exiled when a vote with missing voters has no majority.
Undecided(g) ==
  \/ Voters(g) = {}
  \/ /\ ~ Living(g) \subseteq Voters(g)
     /\ 2 * TopCount(g) <= Cardinality(Living(g))

Exiled(g) == IF Undecided(g) \/ Cardinality(Leaders(g)) # 1 THEN {} ELSE Leaders(g)

\* One leader is exiled; a tie opens a PK, unless it is the tie of the PK.
ResolveVote(g) ==
  LET done == [g EXCEPT !.votes = NoVotes, !.pk = {}]
      leaders == Leaders(g)
      out == CHOOSE t \in leaders : TRUE
  IN  IF Undecided(g) THEN done
      ELSE IF Cardinality(leaders) = 1
        THEN [QueueLastWords(done, out) EXCEPT
                !.died[out] = "exiled",
                !.pendingHunter = IF RoleOf[out] = "hunter" THEN Append(@, out) ELSE @]
      ELSE IF g.pk # leaders THEN [done EXCEPT !.pk = leaders]
      ELSE done
=============================================================================
