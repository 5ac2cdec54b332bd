--------------------------- MODULE MCOrchestrator ---------------------------
(***************************************************************************)
(* Six seats, the least a game takes, and three orchestrators: whole games *)
(* under every limit but that on failures, with aborts; requests of every  *)
(* kind that fail, under a bidding policy; and votes that tie among three  *)
(* and then two candidates up to the limit on PK rounds.                   *)
(***************************************************************************)
EXTENDS Orchestrator

MCSeats == 1 .. 6

MCRoleOf == <<"werewolf", "werewolf", "witch", "hunter", "guard", "villager">>

LimitedGames ==
  [maxFailures |-> 7, maxNoProgress |-> 1, maxRounds |-> 2, maxSpeakRounds |-> 1,
   bids |-> FALSE, timed |-> TRUE, failing |-> {"vote", "last_words", "hunter_shot"},
   targets |-> {2, 4}, mayAbort |-> TRUE]

FailingGames ==
  [maxFailures |-> 2, maxNoProgress |-> 2, maxRounds |-> 1, maxSpeakRounds |-> 2,
   bids |-> TRUE, timed |-> FALSE,
   failing |-> {"guard", "save", "wolf_council", "night_kill", "poison",
                "speak", "vote", "last_words", "hunter_shot"},
   targets |-> {2, 4}, mayAbort |-> FALSE]

TiedGames ==
  [maxFailures |-> 7, maxNoProgress |-> 2, maxRounds |-> 2, maxSpeakRounds |-> 1,
   bids |-> FALSE, timed |-> FALSE, failing |-> {"night_kill"},
   targets |-> {2, 3, 4}, mayAbort |-> FALSE]

MCSetups == {LimitedGames, FailingGames, TiedGames}

\* A guard that trips in the last words of the dead.
LastWordsFail ==
  [maxFailures |-> 1, maxNoProgress |-> 2, maxRounds |-> 1, maxSpeakRounds |-> 2,
   bids |-> TRUE, timed |-> FALSE, failing |-> {"last_words"},
   targets |-> {2, 4}, mayAbort |-> FALSE]

MCLastWordsFail == {LastWordsFail}
=============================================================================
