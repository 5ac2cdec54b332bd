---------------------------- MODULE MCCipherCouncil ----------------------------
(***************************************************************************)
(* CipherCouncil for TLC: five actors, two of them ciphers, missions of two *)
(* members of which two must be won, two proposals each.  A setup says     *)
(* which replies the runs of one question explore.                         *)
(***************************************************************************)
EXTENDS CipherCouncil

MCOrder == <<"c1", "p1", "c2", "p2", "p3">>
MCCiphers == {"c1", "c2"}
MCProposerOrder == <<"p2", "c1", "p1", "c2", "p3">>
MCMissionSizes == <<2, 2, 2>>

Usual == [cipher_council |-> {"message"}, deliberation |-> {"speak"}, nomination |-> {"team"},
          vote |-> {"approve"}, mission_commitment |-> {"support"}]
Everyone == {MCOrder[i] : i \in DOMAIN MCOrder}
\* The actors in `free` may answer as in `may`, the others as in `usual`.
Setup(strategic, usual, free, may, teams) ==
    [strategic |-> strategic, free |-> free, teams |-> teams,
     usual |-> [st \in CouncilStages |-> IF st \in DOMAIN usual THEN usual[st] ELSE Usual[st]],
     may   |-> [st \in CouncilStages |-> IF st \in DOMAIN may THEN may[st] ELSE Usual[st]]]

\* The ciphers' channel: every reply a strategy request can get.
Strategy == Setup(TRUE, Usual, MCCiphers,
    [cipher_council |-> {"message", "skip", "illegal", "failure", "rejected"}], {{"c1", "p1"}})
\* Three actors approve, reject or abstain; the first mission is void.
Voting == Setup(TRUE, [mission_commitment |-> {"failure"}], {"c1", "p1", "p2"},
    [vote |-> {"approve", "reject", "skip"}], {{"p2", "p3"}})
\* A team that a cipher may sabotage, and every reply to a commitment.
Commitment == Setup(TRUE, Usual, {"c1", "p1"},
    [mission_commitment |-> {"support", "sabotage", "illegal", "failure", "broken"}],
    {{"c1", "p1"}, {"p2", "p3"}})
\* Without the channel, and an agent that fails, or breaks the run, in public.
Plain == Setup(FALSE, Usual, {"p2"},
    [deliberation |-> {"speak", "skip", "failure"},
     nomination |-> {"team", "illegal", "rejected"},
     vote |-> {"approve", "broken"}], {{"c1", "p3"}})
\* Proposers that never produce a well-formed call.
Mute == Setup(TRUE, Usual, Everyone, [nomination |-> {"rejected"}], {{"c1", "p3"}})

MCSetups == {Strategy, Voting, Commitment, Plain, Mute}

=============================================================================
