---------------------------- MODULE ProviderBudget -----------------------------
(***************************************************************************)
(* The provider budget ledger (src/api/limits.py, ProviderBudgetLedger) as *)
(* operators on a ledger value.  Each method holds one lock from its first *)
(* read to its last write, so each is one operator.                        *)
(*                                                                         *)
(* A ledger has the registered scopes and the open reservations.  A        *)
(* reservation is named by the call it was made for, which holds at most   *)
(* one.  Counters of rejections and of unknown usage are left out: nothing *)
(* reads them back.                                                        *)
(***************************************************************************)
EXTENDS Integers, FiniteSets

CONSTANTS
    Scopes,        \* run and room scopes
    Calls,         \* the callers of try_reserve
    None,          \* Python's None: no limit, no bound
    MaxInflight    \* max_inflight_reservations

ASSUME InflightAssumption == MaxInflight \in Nat \ {0}
ASSUME NoneAssumption == None \notin Nat

Limits == Nat \cup {None}

\* A scope's counters, and the ledger.
Accounts == [calls : Nat, tokens : Nat, reservedCalls : Int, reservedTokens : Int,
             closed : BOOLEAN, blocked : BOOLEAN]
Reservations == [scope : Scopes, budget : Limits]

IsLedger(l) ==
    /\ DOMAIN l.scopes \subseteq Scopes
    /\ \A s \in DOMAIN l.scopes : l.scopes[s] \in Accounts
    /\ DOMAIN l.open \subseteq Calls
    /\ \A c \in DOMAIN l.open : l.open[c] \in Reservations

NewAccount == [calls |-> 0, tokens |-> 0, reservedCalls |-> 0, reservedTokens |-> 0,
               closed |-> FALSE, blocked |-> FALSE]

NewLedger == [scopes |-> [s \in {} |-> NewAccount], open |-> [c \in {} |-> None]]

Tokens(budget) == IF budget = None THEN 0 ELSE budget
Within(n, limit) == limit = None \/ n <= limit

\* The account of s: a scope that is not registered starts from nothing.
Account(l, s) == IF s \in DOMAIN l.scopes THEN l.scopes[s] ELSE NewAccount
With(l, s, account) ==
    [l EXCEPT !.scopes = [t \in DOMAIN l.scopes \cup {s} |-> IF t = s THEN account ELSE @[t]]]
Without(l, c) == [l EXCEPT !.open = [d \in DOMAIN l.open \ {c} |-> @[d]]]

\* The scopes _prune_locked may drop; which of them have been idle for
\* closed_scope_ttl_seconds is up to the clock.
Prunable(l) ==
    {s \in DOMAIN l.scopes : l.scopes[s].closed /\ \A c \in DOMAIN l.open : l.open[c].scope # s}

Pruned(l, gone) == [l EXCEPT !.scopes = [s \in DOMAIN l.scopes \ gone |-> @[s]]]

\* Mutant: reservations in flight are not counted against the limit.
AdmitsByUse(l, s, budget, policy) ==
    LET a == Account(l, s)
    IN /\ ~a.closed /\ ~a.blocked
       /\ Cardinality(DOMAIN l.open) < MaxInflight
       /\ Within(a.calls + 1, policy.calls)
       /\ policy.tokens # None =>
            /\ budget # None /\ budget > 0
            /\ a.tokens + a.reservedTokens + budget <= policy.tokens

\* try_reserve grants a reservation of budget tokens in scope s.
Admits(l, s, budget, policy) ==
    LET a == Account(l, s)
    IN /\ ~a.closed /\ ~a.blocked
       /\ Cardinality(DOMAIN l.open) < MaxInflight
       /\ Within(a.calls + a.reservedCalls + 1, policy.calls)
       /\ policy.tokens # None =>
            /\ budget # None /\ budget > 0
            /\ a.tokens + a.reservedTokens + budget <= policy.tokens

Reserve(l, c, s, budget) ==
    LET a == Account(l, s)
        reserved == With(l, s, [a EXCEPT !.reservedCalls = @ + 1,
                                         !.reservedTokens = @ + Tokens(budget)])
    IN [reserved EXCEPT !.open =
          [d \in DOMAIN l.open \cup {c} |->
             IF d = c THEN [scope |-> s, budget |-> budget] ELSE @[d]]]

\* The account of c's reservation once the reservation is taken off it.
Released(l, c) ==
    [l.scopes[l.open[c].scope] EXCEPT !.reservedCalls = @ - 1,
                                      !.reservedTokens = @ - Tokens(l.open[c].budget)]

\* What a provider reported: tokens, and whether both counts were among them.
Usage == [tokens : Nat, known : BOOLEAN]
NotReported == [tokens |-> 0, known |-> FALSE]

\* record: the call is charged, with the tokens that were reported.  Under a
\* token limit a scope is blocked by usage that is not known, or passes the limit.
Record(l, c, usage, policy) ==
    LET a == Released(l, c)
        used == a.tokens + usage.tokens
    IN With(Without(l, c), l.open[c].scope,
            [a EXCEPT !.calls = @ + 1, !.tokens = used,
                      !.blocked = @ \/ (policy.tokens # None /\
                                        (~usage.known \/ used > policy.tokens))])

\* The result of record: the response may be used.
Accepts(l, c, usage, policy) ==
    IF usage.known
    THEN /\ Within(usage.tokens, l.open[c].budget)
         /\ Within(l.scopes[l.open[c].scope].tokens + usage.tokens, policy.tokens)
    ELSE policy.tokens = None

\* cancel: the transport did not start.
Cancel(l, c) == With(Without(l, c), l.open[c].scope, Released(l, c))

\* register_scope and close_scope.
Register(l, s) == With(l, s, Account(l, s))
CloseScope(l, s) == With(l, s, [Account(l, s) EXCEPT !.closed = TRUE])

=============================================================================
