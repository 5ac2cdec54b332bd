----------------------------- MODULE MCLLMRouter ------------------------------
\* Small instances of the router.
EXTENDS LLMRouter

CONSTANTS c1, c2, k1, k2, s1

\* The calls have different credentials.
MCKeyOf == [c \in Calls |-> IF c = c2 THEN k2 ELSE k1]
MCScopeOf == [c \in Calls |-> s1]
\* The bound of one call is smaller than what it will use.
MCBudgetOf == [c \in Calls |-> IF c = c2 THEN 1 ELSE 2]
\* Two attempts run at once within a limit of one call or of three tokens, or
\* each call has two attempts and all of them share a limit of two.
MCSetups == {[calls |-> 1, tokens |-> None, retries |-> 1, permits |-> 2],
             [calls |-> None, tokens |-> 3, retries |-> 1, permits |-> 2],
             [calls |-> 2, tokens |-> None, retries |-> 2, permits |-> 1]}
MCUsages == {[tokens |-> 2, known |-> TRUE], NotReported}

=============================================================================
