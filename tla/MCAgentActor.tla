----------------------------- MODULE MCAgentActor -----------------------------
(* Model-checking instances of AgentActor. *)
EXTENDS AgentActor

CONSTANTS r1, r2, final, seatA, seatB, seatC, seatD, c1, c2

\* Two requests for an action of the voting phase, and one for a wolf's vote.
MCRequestPhase == [r \in Requests |-> IF r = final THEN "wolf_final_vote" ELSE "voting"]
MCBoardPhase   == [r \in Requests |-> IF r = final THEN "night" ELSE "voting"]

Call(id, k) == [id |-> id, kind |-> k]
MCResponses == {
    <<Call(c1, "cognition")>>,
    <<Call(c2, "unparsed")>>,
    <<Call(c2, "refused"), Call(c1, "read")>>,
    <<Call(c2, "terminal"), Call(c1, "read")>> }

MCKnowledge == { {seatB}, {seatA, seatB} }

MCPatches == { [s \in {seatA} |-> 0], [s \in {seatB, seatC} |-> 2] }
===============================================================================
