---------------------------- MODULE LLMRouterProofs ----------------------------
(***************************************************************************)
(* Proofs about LLMRouter and the ledger of ProviderBudget, for any finite  *)
(* number of calls, any scopes, limits, attempts and sizes of the cache.    *)
(***************************************************************************)
EXTENDS LLMRouter, TLAPS, FiniteSetTheorems

-----------------------------------------------------------------------------
(* The invariant.                                                           *)

AliveTasks == {c \in Calls : Alive(c)}

\* Where a call stands and what its provider task is doing fit together: a call
\* that waits has none, one that has not begun has no client, and a task that
\* outlives its call is unresolved.
TaskFits(c) ==
    /\ pc[c] \in {"idle", "queued", "backoff"} => task[c] = "none"
    /\ task[c] \in {"none", "created"} => lease[c] = None
    /\ task[c] = "running" => lease[c] # None
    /\ task[c] = "created" /\ ~asked[c] => pc[c] = "attempt"
    /\ Alive(c) => pc[c] \in Attempting \/ c \in unresolved
    /\ pc[c] \in {"idle", "queued"} => attempt[c] = 0
    /\ pc[c] = "backoff" => attempt[c] < setup.retries
    /\ pc[c] \in Attempting => attempt[c] > 0

\* What aclose knows of the tasks that are alive.
CloseFits ==
    /\ closing = "active" => /\ closeTodo \subseteq Calls
                            /\ AliveTasks \subseteq unresolved \cup closeTodo
    /\ closing \notin {"open", "active"} => AliveTasks \subseteq unresolved
    /\ closing = "clean" => AliveTasks = {}

\* Calls and tasks within the semaphore's count.
PermitsHold ==
    /\ Cardinality(Holding) <= setup.permits
    /\ Cardinality(AliveTasks) <= setup.permits

\* A ledger is a record; In: the reservations open in a scope.
IsRecord(l) == l = [scopes |-> l.scopes, open |-> l.open]
In(l, s) == {c \in DOMAIN l.open : l.open[c].scope = s}

\* The account a of a scope with the reservations of the calls in, of which those
\* in sent may have reached their provider; n attempts have.
AccountFits(a, in, policy, n, sent) ==
    /\ a \in Accounts
    /\ a.reservedCalls = Cardinality(in)
    /\ Within(a.calls + a.reservedCalls, policy.calls)
    /\ ~Within(a.tokens, policy.tokens) => a.blocked
    /\ n <= a.calls + Cardinality(in \cap sent)

LedgerFits(l, holders, policy, counts, sent) ==
    /\ IsRecord(l)
    /\ DOMAIN l.scopes \subseteq Scopes
    /\ DOMAIN l.open = holders
    /\ \A c \in holders : /\ l.open[c] \in Reservations
                          /\ l.open[c].scope = ScopeOf[c]
                          /\ ScopeOf[c] \in DOMAIN l.scopes
    /\ \A s \in DOMAIN l.scopes : AccountFits(l.scopes[s], In(l, s), policy, counts[s], sent)

Holders == {c \in Calls : pc[c] \in Attempting}
Sent == {c \in Calls : task[c] \notin {"created", "routerClosed"}}

\* What has begun is charged, or its reservation is still open.
BudgetFits == LedgerFits(ledger, Holders, setup, begun, Sent)

RouterInv ==
    /\ TypeOK
    /\ \A c \in Calls : TaskFits(c)
    /\ CloseFits
    /\ PermitsHold
    /\ ClientsAreKept
    /\ BudgetFits

-----------------------------------------------------------------------------
(* The ledger.                                                              *)

\* The account a with a reservation more.
Reserving(a, budget) ==
    [a EXCEPT !.reservedCalls = @ + 1, !.reservedTokens = @ + Tokens(budget)]

\* The account a with a reservation less, and with it charged.
Unreserving(a, budget) ==
    [a EXCEPT !.reservedCalls = @ - 1, !.reservedTokens = @ - Tokens(budget)]

Charging(a, budget, usage, policy) ==
    LET b == Unreserving(a, budget)
        used == b.tokens + usage.tokens
    IN  [b EXCEPT !.calls = @ + 1, !.tokens = used,
                  !.blocked = @ \/ (policy.tokens # None /\
                                    (~usage.known \/ used > policy.tokens))]

\* Sets of calls and of clients are finite.
LEMMA CallsFinite ==
  ASSUME NEW S \in SUBSET Calls
  PROVE  IsFiniteSet(S) /\ Cardinality(S) \in Nat
BY ClientAssumption, FS_Subset, FS_CardinalityType

\* One call more or less.
LEMMA OneCall ==
  ASSUME NEW S \in SUBSET Calls, NEW c \in Calls
  PROVE  /\ c \notin S => Cardinality(S \cup {c}) = Cardinality(S) + 1
         /\ c \in S => Cardinality(S \ {c}) = Cardinality(S) - 1
         /\ \A T \in SUBSET S : Cardinality(T) <= Cardinality(S)
<1>1. IsFiniteSet(S)
  BY CallsFinite
<1>2. Cardinality(S \cup {c}) = IF c \in S THEN Cardinality(S) ELSE Cardinality(S) + 1
  BY <1>1, FS_AddElement
<1>3. Cardinality(S \ {c}) = IF c \in S THEN Cardinality(S) - 1 ELSE Cardinality(S)
  BY <1>1, FS_RemoveElement
<1>4. \A T \in SUBSET S : Cardinality(T) <= Cardinality(S)
  BY <1>1, FS_Subset
<1> QED BY <1>2, <1>3, <1>4

\* What With changes.
LEMMA WithFields ==
  ASSUME NEW l, IsRecord(l), NEW s, NEW a
  PROVE  /\ IsRecord(With(l, s, a))
         /\ With(l, s, a).open = l.open
         /\ DOMAIN With(l, s, a).scopes = DOMAIN l.scopes \cup {s}
         /\ With(l, s, a).scopes[s] = a
         /\ \A t \in DOMAIN l.scopes \ {s} : With(l, s, a).scopes[t] = l.scopes[t]
<1> DEFINE f == [t \in DOMAIN l.scopes \cup {s} |-> IF t = s THEN a ELSE l.scopes[t]]
<1>1. [l EXCEPT !.scopes = f] = [scopes |-> f, open |-> l.open]
  <2> HIDE DEF f
  <2>1. l = [scopes |-> l.scopes, open |-> l.open]
    BY DEF IsRecord
  <2> DEFINE x == l.scopes
             y == l.open
  <2> HIDE DEF x, y
  <2>2. l = [scopes |-> x, open |-> y]
    BY <2>1 DEF x, y
  <2>3. [l EXCEPT !.scopes = f] = [scopes |-> f, open |-> y]
    BY <2>2
  <2> QED BY <2>3 DEF y
<1>2. With(l, s, a) = [l EXCEPT !.scopes = f]
  BY DEF With
<1>3. With(l, s, a) = [scopes |-> f, open |-> l.open]
  BY <1>1, <1>2
<1> HIDE DEF f
<1>4. IsRecord(With(l, s, a)) /\ With(l, s, a).scopes = f /\ With(l, s, a).open = l.open
  BY <1>3 DEF IsRecord
<1> QED BY <1>4 DEF f

\* What Without changes.
LEMMA WithoutFields ==
  ASSUME NEW l, IsRecord(l), NEW c
  PROVE  /\ IsRecord(Without(l, c))
         /\ Without(l, c).scopes = l.scopes
         /\ DOMAIN Without(l, c).open = DOMAIN l.open \ {c}
         /\ \A d \in DOMAIN l.open \ {c} : Without(l, c).open[d] = l.open[d]
<1> DEFINE f == [d \in DOMAIN l.open \ {c} |-> l.open[d]]
           x == l.scopes
           y == l.open
<1>1. Without(l, c) = [l EXCEPT !.open = f]
  BY DEF Without
<1> HIDE DEF f, x, y
<1>2. l = [scopes |-> x, open |-> y]
  BY DEF IsRecord, x, y
<1>3. Without(l, c) = [scopes |-> x, open |-> f]
  BY <1>1, <1>2
<1>4. IsRecord(Without(l, c)) /\ Without(l, c).scopes = x /\ Without(l, c).open = f
  BY <1>3 DEF IsRecord
<1> QED BY <1>4 DEF f, x

\* What pruning changes.
LEMMA PrunedFields ==
  ASSUME NEW l, IsRecord(l), NEW gone
  PROVE  /\ IsRecord(Pruned(l, gone))
         /\ Pruned(l, gone).open = l.open
         /\ DOMAIN Pruned(l, gone).scopes = DOMAIN l.scopes \ gone
         /\ \A s \in DOMAIN l.scopes \ gone : Pruned(l, gone).scopes[s] = l.scopes[s]
<1> DEFINE f == [s \in DOMAIN l.scopes \ gone |-> l.scopes[s]]
           x == l.scopes
           y == l.open
<1>1. Pruned(l, gone) = [l EXCEPT !.scopes = f]
  BY DEF Pruned
<1> HIDE DEF f, x, y
<1>2. l = [scopes |-> x, open |-> y]
  BY DEF IsRecord, x, y
<1>3. Pruned(l, gone) = [scopes |-> f, open |-> y]
  BY <1>1, <1>2
<1>4. IsRecord(Pruned(l, gone)) /\ Pruned(l, gone).scopes = f /\ Pruned(l, gone).open = y
  BY <1>3 DEF IsRecord
<1> QED BY <1>4 DEF f, y

\* What a reservation changes.
LEMMA ReserveFields ==
  ASSUME NEW l, IsRecord(l), NEW c, NEW s, NEW budget
  PROVE  /\ IsRecord(Reserve(l, c, s, budget))
         /\ DOMAIN Reserve(l, c, s, budget).scopes = DOMAIN l.scopes \cup {s}
         /\ Reserve(l, c, s, budget).scopes[s] = Reserving(Account(l, s), budget)
         /\ \A t \in DOMAIN l.scopes \ {s} : Reserve(l, c, s, budget).scopes[t] = l.scopes[t]
         /\ DOMAIN Reserve(l, c, s, budget).open = DOMAIN l.open \cup {c}
         /\ Reserve(l, c, s, budget).open[c] = [scope |-> s, budget |-> budget]
         /\ \A d \in DOMAIN l.open \ {c} : Reserve(l, c, s, budget).open[d] = l.open[d]
<1> DEFINE more == Reserving(Account(l, s), budget)
           w == With(l, s, more)
           f == [d \in DOMAIN l.open \cup {c} |->
                   IF d = c THEN [scope |-> s, budget |-> budget] ELSE w.open[d]]
           x == w.scopes
           y == w.open
           m == Reserve(l, c, s, budget)
<1>1. m = [w EXCEPT !.open = f]
  BY DEF Reserve, Reserving
<1>2. /\ IsRecord(w) /\ w.open = l.open
      /\ DOMAIN w.scopes = DOMAIN l.scopes \cup {s}
      /\ w.scopes[s] = more
      /\ \A t \in DOMAIN l.scopes \ {s} : w.scopes[t] = l.scopes[t]
  BY WithFields
<1> HIDE DEF f, x, y, w, m
<1>3. w = [scopes |-> x, open |-> y]
  BY <1>2 DEF IsRecord, x, y
<1>4. m = [scopes |-> x, open |-> f]
  BY <1>1, <1>3
<1>5. IsRecord(m) /\ m.scopes = x /\ m.open = f
  BY <1>4 DEF IsRecord
<1>6. /\ DOMAIN f = DOMAIN l.open \cup {c}
      /\ f[c] = [scope |-> s, budget |-> budget]
      /\ \A d \in DOMAIN l.open \ {c} : f[d] = l.open[d]
  BY <1>2 DEF f
<1> QED BY <1>2, <1>5, <1>6 DEF x, m

-----------------------------------------------------------------------------
(* Accounts.                                                                *)

\* A new account, for a scope without reservations.
LEMMA NewAccountFits ==
  ASSUME NEW policy, policy.calls \in Limits, policy.tokens \in Limits, NEW sent
  PROVE  AccountFits(NewAccount, {}, policy, 0, sent)
<1>1. /\ NewAccount.calls = 0 /\ NewAccount.tokens = 0 /\ NewAccount.reservedCalls = 0
      /\ NewAccount \in Accounts
  BY DEF NewAccount, Accounts
<1>2. Cardinality({}) = 0 /\ {} \cap sent = {}
  BY FS_EmptySet
<1> QED BY <1>1, <1>2, NoneAssumption DEF AccountFits, Within, Limits

\* Of the reservations of a scope, those that may have reached their provider can
\* only become more.
LEMMA AccountStays ==
  ASSUME NEW a, NEW in \in SUBSET Calls, NEW policy, NEW n \in Nat, NEW sent, NEW now,
         AccountFits(a, in, policy, n, sent), in \cap sent \subseteq now
  PROVE  AccountFits(a, in, policy, n, now)
<1>1. Cardinality(in \cap sent) <= Cardinality(in \cap now)
  BY CallsFinite, FS_Subset
<1>2. /\ Cardinality(in \cap sent) \in Nat /\ Cardinality(in \cap now) \in Nat
      /\ a.calls \in Nat
  BY CallsFinite DEF AccountFits, Accounts
<1> QED BY <1>1, <1>2 DEF AccountFits

\* An attempt reaches its provider: its reservation is there.
LEMMA AccountBegins ==
  ASSUME NEW a, NEW in \in SUBSET Calls, NEW policy, NEW n \in Nat, NEW sent, NEW now,
         AccountFits(a, in, policy, n, sent), in \cap sent \subseteq now,
         NEW c \in in, c \notin sent, c \in now
  PROVE  AccountFits(a, in, policy, n + 1, now)
<1>1. (in \cap sent) \cup {c} \in SUBSET (in \cap now)
  OBVIOUS
<1>2. Cardinality((in \cap sent) \cup {c}) = Cardinality(in \cap sent) + 1
  BY OneCall
<1>3. Cardinality((in \cap sent) \cup {c}) <= Cardinality(in \cap now)
  BY <1>1, CallsFinite, FS_Subset
<1>4. /\ Cardinality(in \cap sent) \in Nat /\ Cardinality(in \cap now) \in Nat
      /\ a.calls \in Nat
  BY CallsFinite DEF AccountFits, Accounts
<1> QED BY <1>2, <1>3, <1>4 DEF AccountFits

\* A reservation is made: try_reserve has checked the limit.
LEMMA AccountReserves ==
  ASSUME NEW a, NEW in \in SUBSET Calls, NEW policy, NEW n \in Nat, NEW sent, NEW now,
         AccountFits(a, in, policy, n, sent), in \cap sent \subseteq now,
         NEW c \in Calls \ in, NEW budget \in Limits,
         Within(a.calls + a.reservedCalls + 1, policy.calls)
  PROVE  AccountFits(Reserving(a, budget), in \cup {c}, policy, n, now)
<1> DEFINE b == Reserving(a, budget)
<1>1. Tokens(budget) \in Nat
  BY DEF Tokens, Limits
<1>2. a \in Accounts
  BY DEF AccountFits
<1>3. /\ b \in Accounts /\ b.calls = a.calls /\ b.tokens = a.tokens /\ b.blocked = a.blocked
      /\ b.reservedCalls = a.reservedCalls + 1
  <2> DEFINE x == a.reservedCalls + 1
             y == a.reservedTokens + Tokens(budget)
  <2>0. b = [a EXCEPT !.reservedCalls = x, !.reservedTokens = y]
    BY DEF Reserving, Unreserving
  <2>1. x \in Int /\ y \in Int
    BY <1>1, <1>2 DEF Accounts
  <2> HIDE DEF b, x, y
  <2>2. b \in Accounts
    BY <1>2, <2>0, <2>1 DEF Accounts
  <2>3. b.calls = a.calls /\ b.tokens = a.tokens /\ b.blocked = a.blocked /\ b.reservedCalls = x
    BY <1>2, <2>0, <2>1 DEF Accounts
  <2> QED BY <2>2, <2>3 DEF x
<1> HIDE DEF b
<1>4. Cardinality(in \cup {c}) = Cardinality(in) + 1 /\ Cardinality(in) \in Nat
  BY OneCall, CallsFinite
<1>5. Cardinality(in \cap sent) <= Cardinality((in \cup {c}) \cap now)
  BY CallsFinite, FS_Subset
<1>6. /\ Cardinality(in \cap sent) \in Nat /\ Cardinality((in \cup {c}) \cap now) \in Nat
      /\ a.calls \in Nat /\ a.reservedCalls \in Int
  BY <1>2, CallsFinite DEF Accounts
<1>7. AccountFits(b, in \cup {c}, policy, n, now)
  <2>1. b.calls + b.reservedCalls = a.calls + a.reservedCalls + 1
    BY <1>3, <1>6
  <2>2. n <= b.calls + Cardinality((in \cup {c}) \cap now)
    BY <1>3, <1>5, <1>6 DEF AccountFits
  <2> QED BY <1>3, <1>4, <2>1, <2>2 DEF AccountFits
<1> QED BY <1>7 DEF b

\* A reservation is charged.
LEMMA AccountCharges ==
  ASSUME NEW a, NEW in \in SUBSET Calls, NEW policy, NEW n \in Nat, NEW sent, NEW now,
         AccountFits(a, in, policy, n, sent), policy.tokens \in Limits,
         NEW c \in in, (in \ {c}) \cap sent \subseteq now,
         NEW budget \in Limits, NEW usage \in Usage
  PROVE  AccountFits(Charging(a, budget, usage, policy), in \ {c}, policy, n, now)
<1> DEFINE b == Unreserving(a, budget)
           used == b.tokens + usage.tokens
           stop == policy.tokens # None /\ (~usage.known \/ used > policy.tokens)
           d == Charging(a, budget, usage, policy)
<1>1. /\ Tokens(budget) \in Nat /\ usage.tokens \in Nat /\ usage.known \in BOOLEAN
      /\ a \in Accounts
  BY DEF Tokens, Limits, Usage, AccountFits
<1>2. /\ b \in Accounts /\ b.calls = a.calls /\ b.tokens = a.tokens /\ b.blocked = a.blocked
      /\ b.reservedCalls = a.reservedCalls - 1
  <2> DEFINE x == a.reservedCalls - 1
             y == a.reservedTokens - Tokens(budget)
  <2>0. b = [a EXCEPT !.reservedCalls = x, !.reservedTokens = y]
    BY DEF Reserving, Unreserving
  <2>1. x \in Int /\ y \in Int
    BY <1>1 DEF Accounts
  <2> HIDE DEF b, x, y
  <2>2. b \in Accounts
    BY <1>1, <2>0, <2>1 DEF Accounts
  <2>3. b.calls = a.calls /\ b.tokens = a.tokens /\ b.blocked = a.blocked /\ b.reservedCalls = x
    BY <1>1, <2>0, <2>1 DEF Accounts
  <2> QED BY <2>2, <2>3 DEF x
<1> HIDE DEF b
<1>3. used \in Nat /\ a.calls \in Nat /\ a.reservedCalls \in Int
  BY <1>1, <1>2 DEF Accounts
<1> HIDE DEF used
<1>4. /\ d \in Accounts /\ d.calls = a.calls + 1 /\ d.tokens = used
      /\ d.reservedCalls = a.reservedCalls - 1
      /\ stop => d.blocked
  <2>0. d = [b EXCEPT !.calls = @ + 1, !.tokens = used, !.blocked = @ \/ stop]
    BY DEF Charging, b, used
  <2>1. stop \in BOOLEAN
    BY <1>1
  <2> HIDE DEF stop, d
  <2> DEFINE x == b.calls + 1
             z == b.blocked \/ stop
  <2>2. x \in Nat /\ z \in BOOLEAN
    BY <1>2, <1>3, <2>1
  <2>3. d = [b EXCEPT !.calls = x, !.tokens = used, !.blocked = z]
    BY <2>0
  <2> HIDE DEF d, x, z
  <2>4. d \in Accounts
    BY <1>2, <1>3, <2>2, <2>3 DEF Accounts
  <2>5. d.calls = x /\ d.tokens = used /\ d.blocked = z /\ d.reservedCalls = b.reservedCalls
    BY <1>2, <2>3 DEF Accounts
  <2> QED BY <1>2, <2>4, <2>5 DEF x, z
<1> HIDE DEF d
<1>5. Cardinality(in \ {c}) = Cardinality(in) - 1 /\ Cardinality(in) \in Nat
  BY OneCall, CallsFinite
<1>6. Cardinality(in \cap sent) <= Cardinality((in \ {c}) \cap now) + 1
  <2>1. Cardinality((in \cap sent) \ {c}) <= Cardinality((in \ {c}) \cap now)
    <3>1. (in \cap sent) \ {c} \in SUBSET ((in \ {c}) \cap now)
      OBVIOUS
    <3> QED BY <3>1, CallsFinite, FS_Subset
  <2>2. IsFiniteSet(in \cap sent)
    BY CallsFinite
  <2>3. Cardinality((in \cap sent) \ {c}) =
          IF c \in in \cap sent THEN Cardinality(in \cap sent) - 1 ELSE Cardinality(in \cap sent)
    BY <2>2, FS_RemoveElement
  <2>4. /\ Cardinality(in \cap sent) \in Nat /\ Cardinality((in \ {c}) \cap now) \in Nat
    BY CallsFinite
  <2> QED BY <2>1, <2>3, <2>4
<1>7. Cardinality(in \cap sent) \in Nat /\ Cardinality((in \ {c}) \cap now) \in Nat
  BY CallsFinite
<1>8. AccountFits(d, in \ {c}, policy, n, now)
  <2>1. d.calls + d.reservedCalls = a.calls + a.reservedCalls
    BY <1>3, <1>4
  <2>2. n <= d.calls + Cardinality((in \ {c}) \cap now)
    BY <1>3, <1>4, <1>6, <1>7 DEF AccountFits
  <2>3. ~Within(d.tokens, policy.tokens) => d.blocked
    BY <1>3, <1>4 DEF Within, Limits
  <2> QED BY <1>4, <1>5, <2>1, <2>2, <2>3 DEF AccountFits
<1> QED BY <1>8 DEF d

\* A reservation is given back: its attempt never reached the provider.
LEMMA AccountCancels ==
  ASSUME NEW a, NEW in \in SUBSET Calls, NEW policy, NEW n \in Nat, NEW sent, NEW now,
         AccountFits(a, in, policy, n, sent), policy.calls \in Limits,
         NEW c \in in, c \notin sent, in \cap sent \subseteq now,
         NEW budget \in Limits
  PROVE  AccountFits(Unreserving(a, budget), in \ {c}, policy, n, now)
<1> DEFINE b == Unreserving(a, budget)
<1>1. Tokens(budget) \in Nat /\ a \in Accounts
  BY DEF Tokens, Limits, AccountFits
<1>2. /\ b \in Accounts /\ b.calls = a.calls /\ b.tokens = a.tokens /\ b.blocked = a.blocked
      /\ b.reservedCalls = a.reservedCalls - 1
  <2> DEFINE x == a.reservedCalls - 1
             y == a.reservedTokens - Tokens(budget)
  <2>0. b = [a EXCEPT !.reservedCalls = x, !.reservedTokens = y]
    BY DEF Reserving, Unreserving
  <2>1. x \in Int /\ y \in Int
    BY <1>1 DEF Accounts
  <2> HIDE DEF b, x, y
  <2>2. b \in Accounts
    BY <1>1, <2>0, <2>1 DEF Accounts
  <2>3. b.calls = a.calls /\ b.tokens = a.tokens /\ b.blocked = a.blocked /\ b.reservedCalls = x
    BY <1>1, <2>0, <2>1 DEF Accounts
  <2> QED BY <2>2, <2>3 DEF x
<1> HIDE DEF b
<1>3. Cardinality(in \ {c}) = Cardinality(in) - 1 /\ Cardinality(in) \in Nat
  BY OneCall, CallsFinite
<1>4. Cardinality(in \cap sent) <= Cardinality((in \ {c}) \cap now)
  <2>1. in \cap sent \in SUBSET ((in \ {c}) \cap now)
    OBVIOUS
  <2> QED BY <2>1, CallsFinite, FS_Subset
<1>5. /\ Cardinality(in \cap sent) \in Nat /\ Cardinality((in \ {c}) \cap now) \in Nat
      /\ a.calls \in Nat /\ a.reservedCalls \in Int
  BY <1>1, CallsFinite DEF Accounts
<1>6. AccountFits(b, in \ {c}, policy, n, now)
  <2>1. b.calls + b.reservedCalls = (a.calls + a.reservedCalls) - 1
    BY <1>2, <1>5
  <2>2. Within(b.calls + b.reservedCalls, policy.calls)
    BY <1>5, <2>1 DEF AccountFits, Within, Limits
  <2>3. n <= b.calls + Cardinality((in \ {c}) \cap now)
    BY <1>2, <1>4, <1>5 DEF AccountFits
  <2> QED BY <1>2, <1>3, <1>5, <2>2, <2>3 DEF AccountFits
<1> QED BY <1>6 DEF b

-----------------------------------------------------------------------------
(* What each operation on the ledger keeps.                                 *)

IsPolicy(policy) == policy.calls \in Limits /\ policy.tokens \in Limits

\* The reservations of a scope are calls, and they are in a registered scope.
LEMMA InTyped ==
  ASSUME NEW l, NEW holders \in SUBSET Calls, NEW policy, NEW counts, NEW sent,
         LedgerFits(l, holders, policy, counts, sent), NEW s
  PROVE  /\ In(l, s) \in SUBSET holders /\ In(l, s) \in SUBSET Calls
         /\ s \notin DOMAIN l.scopes => In(l, s) = {}
BY DEF LedgerFits, In

\* Attempts may reach their providers.
LEMMA LedgerStays ==
  ASSUME NEW l, NEW holders \in SUBSET Calls, NEW policy, NEW counts \in [Scopes -> Nat],
         NEW sent, NEW now, LedgerFits(l, holders, policy, counts, sent),
         holders \cap sent \subseteq now
  PROVE  LedgerFits(l, holders, policy, counts, now)
<1>1. ASSUME NEW s \in DOMAIN l.scopes
      PROVE  AccountFits(l.scopes[s], In(l, s), policy, counts[s], now)
  <2>1. AccountFits(l.scopes[s], In(l, s), policy, counts[s], sent) /\ counts[s] \in Nat
    BY DEF LedgerFits
  <2>2. In(l, s) \in SUBSET Calls /\ In(l, s) \cap sent \subseteq now
    BY InTyped
  <2> QED BY <2>1, <2>2, AccountStays
<1> QED BY <1>1 DEF LedgerFits

\* A task gets a client: its attempt has a reservation.
LEMMA LedgerBegins ==
  ASSUME NEW l, NEW holders \in SUBSET Calls, NEW policy, NEW counts \in [Scopes -> Nat],
         NEW sent, NEW now, LedgerFits(l, holders, policy, counts, sent),
         holders \cap sent \subseteq now, NEW c \in holders, c \notin sent, c \in now
  PROVE  LedgerFits(l, holders, policy, [counts EXCEPT ![ScopeOf[c]] = @ + 1], now)
<1> DEFINE more == [counts EXCEPT ![ScopeOf[c]] = @ + 1]
<1>1. ScopeOf[c] \in Scopes
  BY RouterAssumption
<1>2. ASSUME NEW s \in DOMAIN l.scopes
      PROVE  AccountFits(l.scopes[s], In(l, s), policy, more[s], now)
  <2>1. /\ AccountFits(l.scopes[s], In(l, s), policy, counts[s], sent) /\ counts[s] \in Nat
        /\ s \in Scopes
    BY DEF LedgerFits
  <2>2. In(l, s) \in SUBSET Calls /\ In(l, s) \cap sent \subseteq now
    BY InTyped
  <2>3. CASE s = ScopeOf[c]
    <3>1. more[s] = counts[s] + 1
      BY <1>1, <2>3
    <3>2. c \in In(l, s)
      BY <2>3 DEF LedgerFits, In
    <3> HIDE DEF more
    <3> QED BY <2>1, <2>2, <3>1, <3>2, AccountBegins
  <2>4. CASE s # ScopeOf[c]
    <3>1. more[s] = counts[s]
      BY <2>1, <2>4
    <3> HIDE DEF more
    <3> QED BY <2>1, <2>2, <3>1, AccountStays
  <2> QED BY <2>3, <2>4
<1> HIDE DEF more
<1>3. LedgerFits(l, holders, policy, more, now)
  BY <1>2 DEF LedgerFits
<1> QED BY <1>3 DEF more

\* Closed scopes without reservations are dropped.
LEMMA LedgerPrunes ==
  ASSUME NEW l, NEW holders \in SUBSET Calls, NEW policy, NEW counts, NEW sent,
         LedgerFits(l, holders, policy, counts, sent), NEW gone \in SUBSET Prunable(l)
  PROVE  /\ LedgerFits(Pruned(l, gone), holders, policy, counts, sent)
         /\ DOMAIN Pruned(l, gone).scopes \subseteq DOMAIN l.scopes
<1> DEFINE m == Pruned(l, gone)
<1>1. IsRecord(l)
  BY DEF LedgerFits
<1>2. /\ IsRecord(m) /\ m.open = l.open /\ DOMAIN m.scopes = DOMAIN l.scopes \ gone
      /\ \A s \in DOMAIN l.scopes \ gone : m.scopes[s] = l.scopes[s]
  BY <1>1, PrunedFields
<1> HIDE DEF m
<1>3. ASSUME NEW c \in holders
      PROVE  /\ m.open[c] \in Reservations
             /\ m.open[c].scope = ScopeOf[c]
             /\ ScopeOf[c] \in DOMAIN m.scopes
  <2>1. /\ l.open[c] \in Reservations /\ l.open[c].scope = ScopeOf[c]
        /\ ScopeOf[c] \in DOMAIN l.scopes /\ c \in DOMAIN l.open
    BY DEF LedgerFits
  <2>2. ScopeOf[c] \notin gone
    BY <2>1 DEF Prunable
  <2> QED BY <1>2, <2>1, <2>2
<1>4. ASSUME NEW s \in DOMAIN m.scopes
      PROVE  AccountFits(m.scopes[s], In(m, s), policy, counts[s], sent)
  BY <1>2 DEF LedgerFits, In
<1>5. DOMAIN m.scopes \subseteq Scopes /\ DOMAIN m.open = holders
  BY <1>2 DEF LedgerFits
<1> QED BY <1>2, <1>3, <1>4, <1>5 DEF LedgerFits, m

\* A reservation is made; the scope is new if it was not registered.
LEMMA LedgerReserves ==
  ASSUME NEW l, NEW holders \in SUBSET Calls, NEW policy, IsPolicy(policy),
         NEW counts \in [Scopes -> Nat], NEW sent, NEW now,
         LedgerFits(l, holders, policy, counts, sent), holders \cap sent \subseteq now,
         NEW c \in Calls \ holders, Admits(l, ScopeOf[c], BudgetOf[c], policy)
  PROVE  LedgerFits(Reserve(l, c, ScopeOf[c], BudgetOf[c]), holders \cup {c}, policy,
                    IF ScopeOf[c] \notin DOMAIN l.scopes
                    THEN [counts EXCEPT ![ScopeOf[c]] = 0] ELSE counts, now)
<1> DEFINE s == ScopeOf[c]
           a == Account(l, s)
           more == Reserving(a, BudgetOf[c])
           m == Reserve(l, c, s, BudgetOf[c])
           k == IF s \notin DOMAIN l.scopes THEN [counts EXCEPT ![s] = 0] ELSE counts
<1>1. s \in Scopes /\ BudgetOf[c] \in Limits
  BY RouterAssumption
<1>2. /\ IsRecord(l) /\ DOMAIN l.scopes \subseteq Scopes /\ DOMAIN l.open = holders
      /\ In(l, s) \in SUBSET Calls /\ c \notin In(l, s)
  BY InTyped DEF LedgerFits
<1>3. /\ IsRecord(m)
      /\ DOMAIN m.scopes = DOMAIN l.scopes \cup {s}
      /\ m.scopes[s] = more
      /\ \A t \in DOMAIN l.scopes \ {s} : m.scopes[t] = l.scopes[t]
      /\ DOMAIN m.open = holders \cup {c}
      /\ m.open[c] = [scope |-> s, budget |-> BudgetOf[c]]
      /\ \A d \in holders \ {c} : m.open[d] = l.open[d]
  <2> HIDE DEF s
  <2>1. /\ IsRecord(m)
        /\ DOMAIN m.scopes = DOMAIN l.scopes \cup {s}
        /\ m.scopes[s] = more
        /\ \A t \in DOMAIN l.scopes \ {s} : m.scopes[t] = l.scopes[t]
        /\ DOMAIN m.open = DOMAIN l.open \cup {c}
        /\ m.open[c] = [scope |-> s, budget |-> BudgetOf[c]]
        /\ \A d \in DOMAIN l.open \ {c} : m.open[d] = l.open[d]
    BY <1>2, ReserveFields
  <2> HIDE DEF m
  <2> QED BY <1>2, <2>1
<1>4. AccountFits(a, In(l, s), policy, k[s], sent) /\ k[s] \in Nat
  <2>1. CASE s \in DOMAIN l.scopes
    BY <1>1, <2>1 DEF LedgerFits, Account
  <2>2. CASE s \notin DOMAIN l.scopes
    <3>1. a = NewAccount /\ k[s] = 0 /\ In(l, s) = {}
      BY <1>1, <2>2, InTyped DEF Account
    <3> QED BY <3>1, NewAccountFits DEF IsPolicy
  <2> QED BY <2>1, <2>2
<1>5. Within(a.calls + a.reservedCalls + 1, policy.calls)
  BY DEF Admits
<1>6. In(l, s) \cap sent \subseteq now
  BY InTyped
<1>7. \A t \in DOMAIN l.scopes \ {s} : k[t] = counts[t]
  BY <1>2
<1> HIDE DEF a, k, m, s
<1>8. AccountFits(more, In(l, s) \cup {c}, policy, k[s], now)
  BY <1>1, <1>2, <1>4, <1>5, <1>6, AccountReserves
<1> HIDE DEF more
<1>9. In(m, s) = In(l, s) \cup {c} /\ \A t \in Scopes \ {s} : In(m, t) = In(l, t)
  BY <1>2, <1>3 DEF In
<1>10. ASSUME NEW t \in DOMAIN m.scopes
       PROVE  AccountFits(m.scopes[t], In(m, t), policy, k[t], now)
  <2>1. CASE t = s
    BY <1>3, <1>8, <1>9, <2>1
  <2>2. CASE t # s
    <3>1. t \in DOMAIN l.scopes /\ t \in Scopes
      BY <1>2, <1>3, <2>2
    <3>2. AccountFits(l.scopes[t], In(l, t), policy, counts[t], sent) /\ counts[t] \in Nat
      BY <3>1 DEF LedgerFits
    <3>3. In(l, t) \in SUBSET Calls /\ In(l, t) \cap sent \subseteq now
      BY InTyped
    <3>4. AccountFits(l.scopes[t], In(l, t), policy, counts[t], now)
      BY <3>2, <3>3, AccountStays
    <3> QED BY <1>3, <1>7, <1>9, <2>2, <3>1, <3>4
  <2> QED BY <2>1, <2>2
<1>11. ASSUME NEW d \in holders \cup {c}
       PROVE  /\ m.open[d] \in Reservations
              /\ m.open[d].scope = ScopeOf[d]
              /\ ScopeOf[d] \in DOMAIN m.scopes
  <2>1. CASE d = c
    BY <1>1, <1>3, <2>1 DEF Reservations, s
  <2>2. CASE d # c
    BY <1>3, <2>2 DEF LedgerFits
  <2> QED BY <2>1, <2>2
<1>12. DOMAIN m.scopes \subseteq Scopes
  BY <1>1, <1>2, <1>3
<1>13. LedgerFits(m, holders \cup {c}, policy, k, now)
  BY <1>3, <1>10, <1>11, <1>12 DEF LedgerFits
<1> QED BY <1>13 DEF m, k, s

\* A reservation is settled, in a way that leaves its account sound.
LEMMA LedgerSettles ==
  ASSUME NEW l, NEW holders \in SUBSET Calls, NEW policy,
         NEW counts \in [Scopes -> Nat], NEW sent, NEW now,
         LedgerFits(l, holders, policy, counts, sent), NEW c \in holders,
         (holders \ {c}) \cap sent \subseteq now,
         NEW b, NEW m, m = With(Without(l, c), l.open[c].scope, b),
         AccountFits(b, In(l, ScopeOf[c]) \ {c}, policy, counts[ScopeOf[c]], now)
  PROVE  LedgerFits(m, holders \ {c}, policy, counts, now)
<1> DEFINE s == ScopeOf[c]
<1>1. /\ IsRecord(l) /\ DOMAIN l.scopes \subseteq Scopes /\ DOMAIN l.open = holders
      /\ l.open[c].scope = s /\ s \in DOMAIN l.scopes
  BY DEF LedgerFits
<1> HIDE DEF s
<1>2. /\ IsRecord(m) /\ DOMAIN m.scopes = DOMAIN l.scopes
      /\ m.scopes[s] = b
      /\ \A t \in DOMAIN l.scopes \ {s} : m.scopes[t] = l.scopes[t]
      /\ DOMAIN m.open = holders \ {c}
      /\ \A d \in holders \ {c} : m.open[d] = l.open[d]
  <2> DEFINE w == Without(l, c)
  <2>1. /\ IsRecord(w) /\ w.scopes = l.scopes /\ DOMAIN w.open = holders \ {c}
        /\ \A d \in holders \ {c} : w.open[d] = l.open[d]
    BY <1>1, WithoutFields
  <2>2. m = With(w, s, b)
    BY <1>1
  <2> HIDE DEF w
  <2>3. /\ IsRecord(m) /\ m.open = w.open /\ DOMAIN m.scopes = DOMAIN w.scopes \cup {s}
        /\ m.scopes[s] = b
        /\ \A t \in DOMAIN w.scopes \ {s} : m.scopes[t] = w.scopes[t]
    BY <2>1, <2>2, WithFields
  <2> QED BY <1>1, <2>1, <2>3
<1>3. In(m, s) = In(l, s) \ {c} /\ \A t \in Scopes \ {s} : In(m, t) = In(l, t) /\ c \notin In(l, t)
  BY <1>1, <1>2 DEF In
<1>4. ASSUME NEW t \in DOMAIN m.scopes
      PROVE  AccountFits(m.scopes[t], In(m, t), policy, counts[t], now)
  <2>1. CASE t = s
    BY <1>2, <1>3, <2>1 DEF s
  <2>2. CASE t # s
    <3>1. t \in DOMAIN l.scopes /\ t \in Scopes
      BY <1>1, <1>2
    <3>2. AccountFits(l.scopes[t], In(l, t), policy, counts[t], sent) /\ counts[t] \in Nat
      BY <3>1 DEF LedgerFits
    <3>3. In(l, t) \in SUBSET Calls /\ In(l, t) \cap sent \subseteq now
      BY <1>3, <2>2, <3>1, InTyped
    <3>4. AccountFits(l.scopes[t], In(l, t), policy, counts[t], now)
      BY <3>2, <3>3, AccountStays
    <3> QED BY <1>2, <1>3, <2>2, <3>1, <3>4
  <2> QED BY <2>1, <2>2
<1>5. ASSUME NEW d \in holders \ {c}
      PROVE  /\ m.open[d] \in Reservations
             /\ m.open[d].scope = ScopeOf[d]
             /\ ScopeOf[d] \in DOMAIN m.scopes
  BY <1>2 DEF LedgerFits
<1> QED BY <1>1, <1>2, <1>4, <1>5 DEF LedgerFits

\* record charges the reservation.
LEMMA LedgerCharges ==
  ASSUME NEW l, NEW holders \in SUBSET Calls, NEW policy, IsPolicy(policy),
         NEW counts \in [Scopes -> Nat], NEW sent, NEW now,
         LedgerFits(l, holders, policy, counts, sent), NEW c \in holders,
         (holders \ {c}) \cap sent \subseteq now, NEW usage \in Usage
  PROVE  LedgerFits(Record(l, c, usage, policy), holders \ {c}, policy, counts, now)
<1> DEFINE s == ScopeOf[c]
           b == Charging(l.scopes[s], l.open[c].budget, usage, policy)
<1>1. /\ l.open[c].scope = s /\ s \in DOMAIN l.scopes /\ s \in Scopes
      /\ l.open[c].budget \in Limits /\ c \in In(l, s) /\ In(l, s) \in SUBSET Calls
      /\ AccountFits(l.scopes[s], In(l, s), policy, counts[s], sent) /\ counts[s] \in Nat
  BY InTyped DEF LedgerFits, Reservations, In
<1>2. Record(l, c, usage, policy) = With(Without(l, c), l.open[c].scope, b)
  BY <1>1 DEF Record, Released, Charging, Unreserving
<1>3. (In(l, s) \ {c}) \cap sent \subseteq now
  BY InTyped
<1> HIDE DEF s
<1>4. AccountFits(b, In(l, s) \ {c}, policy, counts[s], now)
  BY <1>1, <1>3, AccountCharges DEF IsPolicy
<1> HIDE DEF b
<1> QED BY <1>2, <1>4, LedgerSettles DEF s

\* cancel gives it back.
LEMMA LedgerCancels ==
  ASSUME NEW l, NEW holders \in SUBSET Calls, NEW policy, IsPolicy(policy),
         NEW counts \in [Scopes -> Nat], NEW sent, NEW now,
         LedgerFits(l, holders, policy, counts, sent), NEW c \in holders, c \notin sent,
         holders \cap sent \subseteq now
  PROVE  LedgerFits(Cancel(l, c), holders \ {c}, policy, counts, now)
<1> DEFINE s == ScopeOf[c]
           b == Unreserving(l.scopes[s], l.open[c].budget)
<1>1. /\ l.open[c].scope = s /\ s \in DOMAIN l.scopes /\ s \in Scopes
      /\ l.open[c].budget \in Limits /\ c \in In(l, s) /\ In(l, s) \in SUBSET Calls
      /\ AccountFits(l.scopes[s], In(l, s), policy, counts[s], sent) /\ counts[s] \in Nat
  BY InTyped DEF LedgerFits, Reservations, In
<1>2. Cancel(l, c) = With(Without(l, c), l.open[c].scope, b)
  BY <1>1 DEF Cancel, Released, Unreserving
<1>3. In(l, s) \cap sent \subseteq now /\ (holders \ {c}) \cap sent \subseteq now
  BY InTyped
<1> HIDE DEF s
<1>4. AccountFits(b, In(l, s) \ {c}, policy, counts[s], now)
  BY <1>1, <1>3, AccountCancels DEF IsPolicy
<1> HIDE DEF b
<1> QED BY <1>2, <1>3, <1>4, LedgerSettles DEF s

\* A scope is registered or closed.
LEMMA LedgerRegisters ==
  ASSUME NEW l, NEW holders \in SUBSET Calls, NEW policy, IsPolicy(policy),
         NEW counts \in [Scopes -> Nat], NEW sent,
         LedgerFits(l, holders, policy, counts, sent), NEW s \in Scopes, NEW k,
         k = IF s \in DOMAIN l.scopes THEN counts ELSE [counts EXCEPT ![s] = 0],
         NEW m, m \in {Register(l, s), CloseScope(l, s)}
  PROVE  LedgerFits(m, holders, policy, k, sent)
<1> DEFINE a == Account(l, s)
<1>1. AccountFits(a, In(l, s), policy, k[s], sent)
  <2>1. CASE s \in DOMAIN l.scopes
    BY <2>1 DEF LedgerFits, Account
  <2>2. CASE s \notin DOMAIN l.scopes
    <3>1. a = NewAccount /\ k[s] = 0 /\ In(l, s) = {}
      BY <2>2, InTyped DEF Account
    <3> QED BY <3>1, NewAccountFits DEF IsPolicy
  <2> QED BY <2>1, <2>2
<1>2. PICK b \in {a, [a EXCEPT !.closed = TRUE]} : m = With(l, s, b)
  BY DEF Register, CloseScope
<1> HIDE DEF a
<1>3. AccountFits(b, In(l, s), policy, k[s], sent)
  <2>1. a \in Accounts
    BY <1>1 DEF AccountFits
  <2>2. b \in Accounts
    BY <1>2, <2>1 DEF Accounts
  <2>3. /\ b.calls = a.calls /\ b.tokens = a.tokens /\ b.reservedCalls = a.reservedCalls
        /\ b.blocked = a.blocked
    BY <1>2, <2>1 DEF Accounts
  <2> QED BY <1>1, <2>2, <2>3 DEF AccountFits
<1>4. IsRecord(l) /\ DOMAIN l.scopes \subseteq Scopes /\ DOMAIN l.open = holders
  BY DEF LedgerFits
<1>5. /\ IsRecord(m) /\ m.open = l.open /\ DOMAIN m.scopes = DOMAIN l.scopes \cup {s}
      /\ m.scopes[s] = b
      /\ \A t \in DOMAIN l.scopes \ {s} : m.scopes[t] = l.scopes[t]
  BY <1>2, <1>4, WithFields
<1>6. \A t \in DOMAIN l.scopes \ {s} : k[t] = counts[t]
  BY <1>4
<1>7. \A t : In(m, t) = In(l, t)
  BY <1>5 DEF In
<1>8. ASSUME NEW t \in DOMAIN m.scopes
      PROVE  AccountFits(m.scopes[t], In(m, t), policy, k[t], sent)
  <2>1. CASE t = s
    BY <1>3, <1>5, <1>7, <2>1
  <2>2. CASE t # s
    BY <1>5, <1>6, <1>7, <2>2 DEF LedgerFits
  <2> QED BY <2>1, <2>2
<1>9. ASSUME NEW d \in holders
      PROVE  /\ m.open[d] \in Reservations
             /\ m.open[d].scope = ScopeOf[d]
             /\ ScopeOf[d] \in DOMAIN m.scopes
  BY <1>5 DEF LedgerFits
<1> QED BY <1>4, <1>5, <1>8, <1>9 DEF LedgerFits

-----------------------------------------------------------------------------
(* What a step leaves alone.                                                *)

\* A ledger that fits is a ledger.
LEMMA LedgerTyped ==
  ASSUME NEW l, NEW holders \in SUBSET Calls, NEW policy, NEW counts, NEW sent,
         LedgerFits(l, holders, policy, counts, sent)
  PROVE  IsLedger(l)
BY DEF LedgerFits, IsLedger, AccountFits

\* The limits of a router, and the sets of calls.
LEMMA SetupTyped ==
  ASSUME TypeOK
  PROVE  /\ setup.calls \in Limits /\ setup.tokens \in Limits
         /\ IsPolicy(setup)
         /\ setup.permits \in Nat \ {0} /\ setup.retries \in 1 .. MaxAttempts
BY RouterAssumption DEF TypeOK, IsPolicy

\* A call whose task is as before; it may have been cancelled.
LEMMA TaskStays ==
  ASSUME RouterInv, NEW c \in Calls, setup' = setup,
         pc'[c] = pc[c], attempt'[c] = attempt[c], task'[c] = task[c], lease'[c] = lease[c],
         asked[c] => asked'[c], c \in unresolved => c \in unresolved'
  PROVE  TaskFits(c)'
<1>1. TaskFits(c)
  BY DEF RouterInv
<1> QED BY <1>1 DEF TaskFits, Alive

\* No call begins an attempt.
LEMMA PermitsStay ==
  ASSUME RouterInv, setup' = setup, Holding' \subseteq Holding, AliveTasks' \subseteq AliveTasks
  PROVE  PermitsHold'
<1>1. /\ Holding \in SUBSET Calls /\ Holding' \in SUBSET Calls
      /\ AliveTasks \in SUBSET Calls /\ AliveTasks' \in SUBSET Calls
  BY DEF Holding, AliveTasks
<1>2. /\ Cardinality(Holding') <= Cardinality(Holding)
      /\ Cardinality(AliveTasks') <= Cardinality(AliveTasks)
  BY <1>1, CallsFinite, FS_Subset
<1>3. /\ Cardinality(Holding') \in Nat /\ Cardinality(Holding) \in Nat
      /\ Cardinality(AliveTasks') \in Nat /\ Cardinality(AliveTasks) \in Nat
  BY <1>1, CallsFinite
<1>4. setup.permits \in Nat
  BY SetupTyped DEF RouterInv
<1>5. PermitsHold
  BY DEF RouterInv
<1> QED BY <1>2, <1>3, <1>4, <1>5 DEF PermitsHold

\* aclose knows of no task less.
LEMMA CloseStays ==
  ASSUME RouterInv, closing' = closing, closeTodo' = closeTodo,
         AliveTasks' \subseteq AliveTasks, unresolved \cap AliveTasks' \subseteq unresolved'
  PROVE  CloseFits'
<1>1. CloseFits
  BY DEF RouterInv
<1> QED BY <1>1 DEF CloseFits

\* No reservation is made or settled.
LEMMA BudgetStays ==
  ASSUME RouterInv, UNCHANGED <<setup, ledger, begun>>, Holders' = Holders,
         Holders \cap Sent \subseteq Sent'
  PROVE  BudgetFits'
<1>1. BudgetFits /\ Holders \in SUBSET Calls /\ begun \in [Scopes -> Nat]
  BY DEF RouterInv, Holders, TypeOK
<1>2. LedgerFits(ledger, Holders, setup, begun, Sent')
  BY <1>1, LedgerStays DEF BudgetFits
<1> QED BY <1>2 DEF BudgetFits

\* No client in use is closed, and none is opened.
LEMMA ClientsStay ==
  ASSUME RouterInv, lease' = lease,
         \A n \in Clients : client'[n] = client[n]
                            \/ (client[n] \in {"none", "closing", "stuck"}
                                /\ client'[n] \in {"none", "closing", "stuck"}),
         \A c \in Calls : task'[c] = "running" => task[c] = "running",
         closing' = closing \/ closing' \in {"active", "left"}
           \/ closing \notin {"open", "active", "left"}
  PROVE  ClientsAreKept'
<1>1. ClientsAreKept /\ TypeOK
  BY DEF RouterInv
<1>2. Cached' = Cached
  BY DEF Cached
<1>3. ASSUME NEW c \in Calls, task'[c] = "running"
      PROVE  client'[lease'[c]] \in {"cached", "detached"}
  <2>1. task[c] = "running" /\ TaskFits(c) /\ lease[c] \in Clients \cup {None}
    BY <1>1, <1>3 DEF RouterInv, TypeOK
  <2>2. lease[c] \in Clients
    BY <2>1 DEF TaskFits
  <2>3. client[lease[c]] \in {"cached", "detached"}
    BY <1>1, <2>1 DEF ClientsAreKept
  <2> QED BY <2>2, <2>3
<1>4. ASSUME NEW n \in Clients, client'[n] = "detached"
      PROVE  Leases(n)' # {}
  <2>1. client[n] = "detached"
    BY <1>4
  <2>2. Leases(n) # {}
    BY <1>1, <2>1 DEF ClientsAreKept
  <2> QED BY <2>2 DEF Leases
<1>5. closing' # "open" => closing' \in {"active", "left"} \/ Cached' = {}
  BY <1>1, <1>2 DEF ClientsAreKept
<1>6. Cardinality(Cached') <= CacheSize
  BY <1>1, <1>2 DEF ClientsAreKept
<1> QED BY <1>3, <1>4, <1>5, <1>6 DEF ClientsAreKept

\* A task that has ended gives up its lease: its client is closed if nobody else
\* has it and it is not in the map.
LEMMA ClientsReleased ==
  ASSUME RouterInv, NEW c \in Calls, Release(c), Consume(c), closing' = closing
  PROVE  ClientsAreKept' /\ client' \in [Clients -> ClientStates]
<1>1. ClientsAreKept /\ TypeOK
  BY DEF RouterInv
<1>2. /\ lease' = [lease EXCEPT ![c] = None] /\ task' = [task EXCEPT ![c] = "none"]
      /\ client' = [n \in Clients |-> IF n = lease[c] /\ client[n] = "detached" /\ Leases(n) = {c}
                                        THEN "closing" ELSE client[n]]
  BY DEF Release, Consume
<1>3. /\ lease'[c] = None /\ task'[c] = "none"
      /\ \A d \in Calls \ {c} : lease'[d] = lease[d] /\ task'[d] = task[d]
  BY <1>1, <1>2 DEF TypeOK
<1>4. \A n \in Clients : client'[n] = IF n = lease[c] /\ client[n] = "detached" /\ Leases(n) = {c}
                                        THEN "closing" ELSE client[n]
  BY <1>2
<1>5. Cached' = Cached
  BY <1>4 DEF Cached
<1>6. ASSUME NEW d \in Calls, task'[d] = "running"
      PROVE  client'[lease'[d]] \in {"cached", "detached"}
  <2>1. d # c /\ task[d] = "running" /\ lease'[d] = lease[d]
    BY <1>3, <1>6
  <2>2. lease[d] \in Clients
    BY <1>1, <2>1 DEF RouterInv, TypeOK, TaskFits
  <2>3. client[lease[d]] \in {"cached", "detached"}
    BY <1>1, <2>1 DEF ClientsAreKept
  <2>4. d \in Leases(lease[d])
    BY DEF Leases
  <2>5. Leases(lease[d]) # {c}
    BY <2>1, <2>4
  <2> QED BY <1>4, <2>1, <2>2, <2>3, <2>5
<1>7. ASSUME NEW n \in Clients, client'[n] = "detached"
      PROVE  Leases(n)' # {}
  <2>1. client[n] = "detached" /\ ~(n = lease[c] /\ Leases(n) = {c})
    BY <1>4, <1>7
  <2>2. Leases(n) # {}
    BY <1>1, <2>1 DEF ClientsAreKept
  <2>3. PICK d \in Leases(n) : d # c
    <3>1. c \in Leases(n) => n = lease[c]
      BY DEF Leases
    <3> QED BY <2>1, <2>2, <3>1
  <2>4. d \in Calls /\ lease'[d] = n
    BY <1>3, <2>3 DEF Leases
  <2> QED BY <2>4 DEF Leases
<1>8. closing' # "open" => closing' \in {"active", "left"} \/ Cached' = {}
  BY <1>1, <1>5 DEF ClientsAreKept
<1>9. Cardinality(Cached') <= CacheSize
  BY <1>1, <1>5 DEF ClientsAreKept
<1>10. client' \in [Clients -> ClientStates]
  BY <1>1, <1>2 DEF TypeOK, ClientStates
<1> QED BY <1>6, <1>7, <1>8, <1>9, <1>10 DEF ClientsAreKept

\* A reservation is settled: charged, or given back when nothing was sent.
LEMMA BudgetSettles ==
  ASSUME RouterInv, UNCHANGED <<setup, begun>>, NEW c \in Holders, Holders' = Holders \ {c},
         \A d \in Calls \ {c} : task'[d] = task[d],
         NEW usage \in Usage,
         \/ ledger' = Record(ledger, c, usage, setup)
         \/ task[c] = "routerClosed" /\ ledger' = Cancel(ledger, c)
  PROVE  BudgetFits'
<1>1. /\ BudgetFits /\ Holders \in SUBSET Calls /\ begun \in [Scopes -> Nat]
      /\ IsPolicy(setup)
  BY SetupTyped DEF RouterInv, Holders, TypeOK
<1>2. (Holders \ {c}) \cap Sent \subseteq Sent'
  BY DEF Sent
<1>3. CASE ledger' = Record(ledger, c, usage, setup)
  <2>1. LedgerFits(Record(ledger, c, usage, setup), Holders \ {c}, setup, begun, Sent')
    BY <1>1, <1>2, LedgerCharges DEF BudgetFits
  <2> QED BY <1>3, <2>1 DEF BudgetFits
<1>4. CASE task[c] = "routerClosed" /\ ledger' = Cancel(ledger, c)
  <2>1. c \notin Sent /\ Holders \cap Sent \subseteq Sent'
    BY <1>2, <1>4 DEF Sent
  <2>2. LedgerFits(Cancel(ledger, c), Holders \ {c}, setup, begun, Sent')
    BY <1>1, <2>1, LedgerCancels DEF BudgetFits
  <2> QED BY <1>4, <2>2 DEF BudgetFits
<1> QED BY <1>3, <1>4

-----------------------------------------------------------------------------
(* The calls.                                                               *)

\* A call is checked and queues, or fails.
LEMMA StartKeeps ==
  ASSUME RouterInv, NEW c \in Calls, Start(c)
  PROVE  RouterInv'
<1>1. /\ pc[c] = "idle" /\ pc' = [pc EXCEPT ![c] = IF EnsureOpen THEN "queued" ELSE "failed"]
      /\ UNCHANGED <<setup, ledger, attempt, deadline, interrupted, task, asked, lease,
                     unresolved, client, closing, closeTodo, closeFailed, closeCancelled, begun>>
      /\ TypeOK /\ TaskFits(c)
  BY DEF Start, RouterInv, taskVars, closeVars
<1>2. /\ pc'[c] \in {"queued", "failed"} /\ \A d \in Calls \ {c} : pc'[d] = pc[d]
      /\ pc' \in [Calls -> {"idle", "queued", "backoff"} \cup Attempting \cup Over]
  BY <1>1 DEF TypeOK, Over
<1>3. AliveTasks' = AliveTasks /\ Holding' = Holding /\ Holders' = Holders /\ Sent' = Sent
  BY <1>1, <1>2 DEF AliveTasks, Alive, Holding, Holders, Sent, Attempting
<1>4. ASSUME NEW d \in Calls PROVE TaskFits(d)'
  <2>1. CASE d = c
    BY <1>1, <1>2, <2>1 DEF TaskFits, Alive, Attempting
  <2>2. CASE d # c
    BY <1>1, <1>2, <2>2, TaskStays
  <2> QED BY <2>1, <2>2
<1>5. TypeOK'
  BY <1>1, <1>2 DEF TypeOK
<1>6. CloseFits' /\ PermitsHold'
  BY <1>1, <1>3, CloseStays, PermitsStay
<1>7. ClientsAreKept'
  BY <1>1, ClientsStay
<1>8. BudgetFits'
  BY <1>1, <1>3, BudgetStays
<1> QED BY <1>4, <1>5, <1>6, <1>7, <1>8 DEF RouterInv

\* A call gives up before an attempt has begun; scopes may have been dropped.
LEMMA FailsEarly ==
  ASSUME RouterInv, NEW c \in Calls, pc[c] \in {"queued", "backoff"},
         NEW over \in Over, pc' = [pc EXCEPT ![c] = over],
         BudgetFits',
         UNCHANGED <<setup, attempt, deadline, interrupted, taskVars, client, closeVars, begun>>
  PROVE  RouterInv'
<1>1. /\ UNCHANGED <<setup, attempt, deadline, interrupted, task, asked, lease,
                     unresolved, client, closing, closeTodo, closeFailed, closeCancelled, begun>>
      /\ TypeOK /\ TaskFits(c)
  BY DEF RouterInv, taskVars, closeVars
<1>2. /\ pc'[c] = over /\ \A d \in Calls \ {c} : pc'[d] = pc[d]
      /\ pc' \in [Calls -> {"idle", "queued", "backoff"} \cup Attempting \cup Over]
  BY <1>1 DEF TypeOK
<1>3. AliveTasks' = AliveTasks /\ Holding' \subseteq Holding
  BY <1>1, <1>2 DEF AliveTasks, Alive, Holding, Attempting, Over
<1>4. ASSUME NEW d \in Calls PROVE TaskFits(d)'
  <2>1. CASE d = c
    BY <1>1, <1>2, <2>1 DEF TaskFits, Alive, Attempting, Over
  <2>2. CASE d # c
    BY <1>1, <1>2, <2>2, TaskStays
  <2> QED BY <2>1, <2>2
<1>5. TypeOK'
  <2>1. IsLedger(ledger')
    BY LedgerTyped DEF BudgetFits, Holders
  <2> QED BY <1>1, <1>2, <2>1 DEF TypeOK
<1>6. CloseFits' /\ PermitsHold'
  BY <1>1, <1>3, CloseStays, PermitsStay
<1>7. ClientsAreKept'
  BY <1>1, ClientsStay
<1> QED BY <1>4, <1>5, <1>6, <1>7 DEF RouterInv

\* The top of the retry loop: a reservation and a task, or the end of the call.
LEMMA BeginAttemptKeeps ==
  ASSUME RouterInv, NEW c \in Calls, BeginAttempt(c)
  PROVE  RouterInv'
<1>1. /\ pc[c] \in {"queued", "backoff"}
      /\ pc[c] = "queued" => Cardinality(Holding) < setup.permits
      /\ UNCHANGED <<setup, lease, unresolved, client, closing, closeTodo, closeFailed,
                     closeCancelled>>
      /\ TypeOK /\ TaskFits(c) /\ BudgetFits
      /\ Holders \in SUBSET Calls /\ begun \in [Scopes -> Nat] /\ IsPolicy(setup)
  BY SetupTyped DEF BeginAttempt, RouterInv, closeVars, Holders, TypeOK
<1>2. CASE /\ ~EnsureOpen /\ pc' = [pc EXCEPT ![c] = "failed"]
           /\ UNCHANGED <<ledger, attempt, deadline, interrupted, task, asked, begun>>
  <2>1. Holders' = Holders /\ Sent' = Sent
    BY <1>1, <1>2 DEF Holders, Sent, Attempting, TypeOK
  <2>2. BudgetFits'
    BY <1>1, <1>2, <2>1, BudgetStays
  <2> QED BY <1>1, <1>2, <2>2, FailsEarly DEF Over, taskVars, closeVars
<1>3. ASSUME EnsureOpen, NEW gone \in SUBSET Prunable(ledger),
             ~Admits(Pruned(ledger, gone), ScopeOf[c], BudgetOf[c], setup),
             ledger' = Pruned(ledger, gone), pc' = [pc EXCEPT ![c] = "failed"],
             UNCHANGED <<attempt, deadline, interrupted, task, asked, begun>>
      PROVE  RouterInv'
  <2>1. Holders' = Holders /\ Sent' = Sent
    BY <1>1, <1>3 DEF Holders, Sent, Attempting, TypeOK
  <2>2. BudgetFits'
    BY <1>1, <1>3, <2>1, LedgerPrunes DEF BudgetFits
  <2> QED BY <1>1, <1>3, <2>2, FailsEarly DEF Over, taskVars, closeVars
<1>4. ASSUME EnsureOpen, NEW gone \in SUBSET Prunable(ledger),
             Admits(Pruned(ledger, gone), ScopeOf[c], BudgetOf[c], setup),
             ledger' = Reserve(Pruned(ledger, gone), c, ScopeOf[c], BudgetOf[c]),
             pc' = [pc EXCEPT ![c] = "attempt"],
             attempt' = [attempt EXCEPT ![c] = @ + 1],
             deadline' = [deadline EXCEPT ![c] = FALSE],
             interrupted' = [interrupted EXCEPT ![c] = FALSE],
             task' = [task EXCEPT ![c] = "created"],
             asked' = [asked EXCEPT ![c] = FALSE],
             begun' = IF ScopeOf[c] \notin DOMAIN Pruned(ledger, gone).scopes
                      THEN [begun EXCEPT ![ScopeOf[c]] = 0] ELSE begun
      PROVE  RouterInv'
  <2>1. /\ pc'[c] = "attempt" /\ attempt'[c] = attempt[c] + 1
        /\ task'[c] = "created" /\ ~asked'[c]
        /\ \A d \in Calls \ {c} : /\ pc'[d] = pc[d] /\ attempt'[d] = attempt[d]
                                  /\ task'[d] = task[d] /\ asked'[d] = asked[d]
        /\ pc' \in [Calls -> {"idle", "queued", "backoff"} \cup Attempting \cup Over]
        /\ task' \in [Calls -> {"none", "created", "running"} \cup Results]
    BY <1>1, <1>4 DEF TypeOK, Attempting
  <2>2. attempt[c] \in Nat /\ attempt[c] + 1 \in 0 .. MaxAttempts
    <3>1. setup.retries \in 1 .. MaxAttempts /\ attempt[c] \in 0 .. MaxAttempts
      BY <1>1, SetupTyped DEF TypeOK
    <3>2. attempt[c] = 0 \/ attempt[c] < setup.retries
      BY <1>1 DEF TaskFits
    <3> QED BY <3>1, <3>2, RouterAssumption
  <2>3. closing = "open" /\ unresolved = {}
    BY <1>4 DEF EnsureOpen
  <2>4. ASSUME NEW d \in Calls PROVE TaskFits(d)'
    <3>1. CASE d = c
      BY <1>1, <2>1, <2>2, <3>1 DEF TaskFits, Alive, Attempting
    <3>2. CASE d # c
      BY <1>1, <2>1, <3>2, TaskStays
    <3> QED BY <3>1, <3>2
  <2>5. Holding' = Holding \cup {c} /\ Holders' = Holders \cup {c} /\ c \notin Holders
    BY <1>1, <2>1 DEF Holding, Holders, Attempting
  <2>6. PermitsHold'
    <3>1. AliveTasks' \subseteq Holding'
      <4> SUFFICES ASSUME NEW d \in Calls, Alive(d)' PROVE d \in Holding'
        BY DEF AliveTasks
      <4>1. pc'[d] \in Attempting
        BY <1>1, <2>3, <2>4 DEF TaskFits
      <4> QED BY <4>1 DEF Holding
    <3>2. Cardinality(AliveTasks') <= Cardinality(Holding')
      BY <3>1, CallsFinite, FS_Subset DEF Holding
    <3>3. Cardinality(Holding') <= setup.permits
      <4>1. PermitsHold /\ Holding \in SUBSET Calls /\ setup.permits \in Nat
        BY <1>1, SetupTyped DEF RouterInv, Holding
      <4>2. Cardinality(Holding) \in Nat
        BY <4>1, CallsFinite
      <4>3. CASE pc[c] = "queued"
        <5>1. c \notin Holding
          BY <4>3 DEF Holding, Attempting
        <5> QED BY <1>1, <2>5, <4>1, <4>2, <4>3, <5>1, OneCall
      <4>4. CASE pc[c] = "backoff"
        <5>1. Holding' = Holding
          BY <2>5, <4>4 DEF Holding
        <5> QED BY <4>1, <5>1 DEF PermitsHold
      <4> QED BY <1>1, <4>3, <4>4
    <3>4. Cardinality(AliveTasks') \in Nat /\ Cardinality(Holding') \in Nat /\ setup.permits \in Nat
      <4>1. AliveTasks' \in SUBSET Calls /\ Holding' \in SUBSET Calls
        BY DEF AliveTasks, Holding
      <4> QED BY <1>1, <4>1, CallsFinite, SetupTyped
    <3> QED BY <1>1, <3>2, <3>3, <3>4 DEF PermitsHold
  <2>7. CloseFits'
    BY <1>1, <2>3 DEF CloseFits
  <2>8. ClientsAreKept'
    <3>1. \A d \in Calls : task'[d] = "running" => task[d] = "running"
      BY <2>1
    <3> QED BY <1>1, <3>1, ClientsStay
  <2>9. BudgetFits'
    <3> DEFINE l == Pruned(ledger, gone)
    <3>1. LedgerFits(l, Holders, setup, begun, Sent)
      BY <1>1, LedgerPrunes DEF BudgetFits
    <3>2. Holders \cap Sent \subseteq Sent'
      BY <2>1, <2>5 DEF Sent
    <3> HIDE DEF l
    <3>3. LedgerFits(Reserve(l, c, ScopeOf[c], BudgetOf[c]), Holders \cup {c}, setup,
                     IF ScopeOf[c] \notin DOMAIN l.scopes
                     THEN [begun EXCEPT ![ScopeOf[c]] = 0] ELSE begun, Sent')
      BY <1>1, <1>4, <2>5, <3>1, <3>2, LedgerReserves DEF l
    <3> QED BY <1>1, <1>4, <2>5, <3>3 DEF BudgetFits, l
  <2>10. TypeOK'
    <3>1. IsLedger(ledger')
      BY <2>9, LedgerTyped DEF BudgetFits, Holders
    <3>2. attempt' \in [Calls -> 0 .. MaxAttempts]
      BY <1>1, <1>4, <2>2 DEF TypeOK
    <3>3. /\ deadline' \in [Calls -> BOOLEAN] /\ interrupted' \in [Calls -> BOOLEAN]
          /\ asked' \in [Calls -> BOOLEAN] /\ begun' \in [Scopes -> Nat]
      BY <1>1, <1>4 DEF TypeOK
    <3> QED BY <1>1, <2>1, <3>1, <3>2, <3>3 DEF TypeOK
  <2> QED BY <2>4, <2>6, <2>7, <2>8, <2>9, <2>10 DEF RouterInv
<1> QED BY <1>2, <1>3, <1>4 DEF BeginAttempt

\* The task of an attempt is done with, its reservation is settled, and the call
\* ends or backs off.
LEMMA AttemptEnds ==
  ASSUME RouterInv, NEW c \in Calls, pc[c] \in Attempting, ~Alive(c), Release(c), Consume(c),
         NEW next \in Over \cup {"backoff"}, pc' = [pc EXCEPT ![c] = next],
         next = "backoff" => attempt[c] < setup.retries,
         NEW usage \in Usage,
         \/ ledger' = Record(ledger, c, usage, setup)
         \/ task[c] = "routerClosed" /\ ledger' = Cancel(ledger, c),
         deadline' \in [Calls -> BOOLEAN], interrupted' \in [Calls -> BOOLEAN],
         UNCHANGED <<setup, attempt, unresolved, closeVars, begun>>
  PROVE  RouterInv'
<1>1. /\ UNCHANGED <<setup, attempt, unresolved, closing, closeTodo, closeFailed,
                     closeCancelled, begun>>
      /\ TypeOK /\ TaskFits(c)
      /\ task' = [task EXCEPT ![c] = "none"] /\ asked' = [asked EXCEPT ![c] = FALSE]
      /\ lease' = [lease EXCEPT ![c] = None]
  BY DEF RouterInv, closeVars, Consume
<1>2. /\ pc'[c] = next /\ task'[c] = "none" /\ lease'[c] = None
      /\ \A d \in Calls \ {c} : /\ pc'[d] = pc[d] /\ task'[d] = task[d]
                                /\ asked'[d] = asked[d] /\ lease'[d] = lease[d]
      /\ pc' \in [Calls -> {"idle", "queued", "backoff"} \cup Attempting \cup Over]
      /\ task' \in [Calls -> {"none", "created", "running"} \cup Results]
      /\ asked' \in [Calls -> BOOLEAN]
      /\ lease' \in [Calls -> Clients \cup {None}]
  BY <1>1 DEF TypeOK, Over
<1>3. /\ AliveTasks' = AliveTasks /\ Holding' \subseteq Holding
      /\ Holders' = Holders \ {c} /\ c \in Holders
  BY <1>2 DEF AliveTasks, Alive, Holding, Holders, Attempting, Over
<1>4. ASSUME NEW d \in Calls PROVE TaskFits(d)'
  <2>1. CASE d = c
    BY <1>1, <1>2, <2>1 DEF TaskFits, Alive, Attempting, Over
  <2>2. CASE d # c
    BY <1>1, <1>2, <2>2, TaskStays
  <2> QED BY <2>1, <2>2
<1>5. BudgetFits'
  BY <1>1, <1>2, <1>3, BudgetSettles
<1>6. CloseFits' /\ PermitsHold'
  BY <1>1, <1>3, CloseStays, PermitsStay
<1>7. ClientsAreKept' /\ client' \in [Clients -> ClientStates]
  BY <1>1, ClientsReleased
<1>8. TypeOK'
  <2>1. IsLedger(ledger')
    BY <1>5, LedgerTyped DEF BudgetFits, Holders
  <2> QED BY <1>1, <1>2, <1>7, <2>1 DEF TypeOK
<1> QED BY <1>4, <1>5, <1>6, <1>7, <1>8 DEF RouterInv

\* The attempt's result is taken.
LEMMA TakeResultKeeps ==
  ASSUME RouterInv, NEW c \in Calls, TakeResult(c)
  PROVE  RouterInv'
<1>1. /\ pc[c] \in Attempting /\ ~Alive(c) /\ Release(c) /\ Consume(c)
      /\ deadline' \in [Calls -> BOOLEAN] /\ interrupted' \in [Calls -> BOOLEAN]
      /\ UNCHANGED <<setup, attempt, unresolved, closeVars, begun>>
  BY DEF TakeResult, RouterInv, TypeOK, Attempting, Ended, Results, Alive
<1>2. CASE task[c] = "response"
  <2>1. PICK u \in Usages :
          /\ ledger' = Record(ledger, c, u, setup)
          /\ pc' = [pc EXCEPT ![c] = IF Accepts(ledger, c, u, setup) THEN "returned" ELSE "failed"]
    BY <1>2 DEF TakeResult
  <2>2. u \in Usage
    BY RouterAssumption
  <2> DEFINE next == IF Accepts(ledger, c, u, setup) THEN "returned" ELSE "failed"
  <2>3. next \in Over /\ next # "backoff"
    BY DEF Over
  <2>4. pc' = [pc EXCEPT ![c] = next]
    BY <2>1
  <2> HIDE DEF next
  <2> QED BY <1>1, <2>1, <2>2, <2>3, <2>4, AttemptEnds
<1>3. CASE task[c] # "response"
  <2> DEFINE next == IF task[c] = "cancelled" THEN "cancelled"
                     ELSE Failed(c, task[c] = "transient")
  <2>1. pc' = [pc EXCEPT ![c] = next] /\ Settle(c, task[c])
    BY <1>3 DEF TakeResult
  <2>2. next \in Over \cup {"backoff"} /\ (next = "backoff" => attempt[c] < setup.retries)
    BY DEF Over, Failed
  <2>3. /\ \/ ledger' = Record(ledger, c, NotReported, setup)
           \/ task[c] = "routerClosed" /\ ledger' = Cancel(ledger, c)
        /\ NotReported \in Usage
    BY <2>1 DEF Settle, NotReported, Usage
  <2> HIDE DEF next
  <2> QED BY <1>1, <2>1, <2>2, <2>3, AttemptEnds
<1> QED BY <1>2, <1>3

\* A deadline or the caller has the task cancelled, within a grace.
LEMMA GraceBegins ==
  ASSUME RouterInv, NEW c \in Calls, pc[c] = "attempt", Alive(c),
         pc' = [pc EXCEPT ![c] = "grace"], asked' = [asked EXCEPT ![c] = TRUE],
         deadline' \in [Calls -> BOOLEAN],
         UNCHANGED <<setup, ledger, attempt, interrupted, task, lease, unresolved, client,
                     closeVars, begun>>
  PROVE  RouterInv'
<1>1. /\ UNCHANGED <<setup, ledger, attempt, interrupted, task, lease, unresolved, client,
                     closing, closeTodo, closeFailed, closeCancelled, begun>>
      /\ TypeOK /\ TaskFits(c)
  BY DEF RouterInv, closeVars
<1>2. /\ pc'[c] = "grace" /\ asked'[c]
      /\ \A d \in Calls \ {c} : pc'[d] = pc[d] /\ asked'[d] = asked[d]
      /\ pc' \in [Calls -> {"idle", "queued", "backoff"} \cup Attempting \cup Over]
      /\ asked' \in [Calls -> BOOLEAN]
  BY <1>1 DEF TypeOK, Attempting
<1>3. AliveTasks' = AliveTasks /\ Holding' = Holding /\ Holders' = Holders /\ Sent' = Sent
  BY <1>1, <1>2 DEF AliveTasks, Alive, Holding, Holders, Sent, Attempting
<1>4. ASSUME NEW d \in Calls PROVE TaskFits(d)'
  <2>1. CASE d = c
    BY <1>1, <1>2, <2>1 DEF TaskFits, Alive, Attempting
  <2>2. CASE d # c
    BY <1>1, <1>2, <2>2, TaskStays
  <2> QED BY <2>1, <2>2
<1>5. TypeOK'
  BY <1>1, <1>2 DEF TypeOK
<1>6. CloseFits' /\ PermitsHold'
  BY <1>1, <1>3, CloseStays, PermitsStay
<1>7. ClientsAreKept'
  BY <1>1, ClientsStay
<1>8. BudgetFits'
  BY <1>1, <1>3, BudgetStays
<1> QED BY <1>4, <1>5, <1>6, <1>7, <1>8 DEF RouterInv

\* The deadline of an attempt passes.
LEMMA DeadlinePassesKeeps ==
  ASSUME RouterInv, NEW c \in Calls, DeadlinePasses(c)
  PROVE  RouterInv'
<1>1. deadline' \in [Calls -> BOOLEAN]
  BY DEF DeadlinePasses, RouterInv, TypeOK
<1> QED BY <1>1, GraceBegins DEF DeadlinePasses

\* The caller cancels the call.
LEMMA CallerCancelsKeeps ==
  ASSUME RouterInv, NEW c \in Calls, CallerCancels(c)
  PROVE  RouterInv'
<1>0. TypeOK
  BY DEF RouterInv
<1>1. CASE /\ pc[c] \in {"queued", "backoff"}
           /\ pc' = [pc EXCEPT ![c] = "cancelled"]
           /\ UNCHANGED <<setup, ledger, attempt, deadline, interrupted, taskVars, client,
                          closeVars, begun>>
  <2>1. Holders' = Holders /\ Sent' = Sent
    BY <1>0, <1>1 DEF Holders, Sent, Attempting, TypeOK, taskVars
  <2>2. BudgetFits'
    BY <1>1, <2>1, BudgetStays
  <2> QED BY <1>1, <2>2, FailsEarly DEF Over
<1>2. CASE /\ pc[c] = "attempt"
           /\ Alive(c)
           /\ pc' = [pc EXCEPT ![c] = "grace"]
           /\ asked' = [asked EXCEPT ![c] = TRUE]
           /\ UNCHANGED <<setup, ledger, attempt, deadline, interrupted, task, lease,
                          unresolved, client, closeVars, begun>>
  <2>1. deadline' \in [Calls -> BOOLEAN]
    BY <1>0, <1>2 DEF TypeOK
  <2> QED BY <1>2, <2>1, GraceBegins
<1>3. CASE /\ pc[c] = "attempt"
           /\ ~Alive(c)
           /\ Settle(c, "cancelled")
           /\ Release(c)
           /\ pc' = [pc EXCEPT ![c] = "cancelled"]
           /\ Consume(c)
           /\ UNCHANGED <<setup, attempt, deadline, interrupted, unresolved, closeVars, begun>>
  <2>1. ledger' = Record(ledger, c, NotReported, setup) /\ NotReported \in Usage
    BY <1>3 DEF Settle, NotReported, Usage
  <2>2. deadline' \in [Calls -> BOOLEAN] /\ interrupted' \in [Calls -> BOOLEAN]
    BY <1>0, <1>3 DEF TypeOK
  <2> QED BY <1>3, <2>1, <2>2, AttemptEnds DEF Over, Attempting
<1>4. CASE /\ interrupted' = [interrupted EXCEPT ![c] = TRUE]
           /\ UNCHANGED <<setup, ledger, pc, attempt, deadline, taskVars, client, closeVars,
                          begun>>
  <2>1. UNCHANGED <<setup, ledger, pc, attempt, deadline, task, asked, lease, unresolved,
                    client, closing, closeTodo, closeFailed, closeCancelled, begun>>
    BY <1>4 DEF taskVars, closeVars
  <2>2. AliveTasks' = AliveTasks /\ Holding' = Holding /\ Holders' = Holders /\ Sent' = Sent
    BY <2>1 DEF AliveTasks, Alive, Holding, Holders, Sent
  <2>3. TypeOK'
    BY <1>0, <1>4, <2>1 DEF TypeOK
  <2>4. \A d \in Calls : TaskFits(d)'
    BY <2>1, TaskStays
  <2>5. CloseFits' /\ PermitsHold' /\ ClientsAreKept' /\ BudgetFits'
    BY <2>1, <2>2, CloseStays, PermitsStay, ClientsStay, BudgetStays
  <2> QED BY <2>3, <2>4, <2>5 DEF RouterInv
<1> QED BY <1>1, <1>2, <1>3, <1>4 DEF CallerCancels

\* The grace is over, or the task has ended in it.
LEMMA GraceEndsKeeps ==
  ASSUME RouterInv, NEW c \in Calls, GraceEnds(c)
  PROVE  RouterInv'
<1> DEFINE next == IF ~deadline[c] \/ interrupted[c] THEN "cancelled" ELSE Failed(c, ~Alive(c))
<1>1. /\ pc[c] = "grace" /\ pc' = [pc EXCEPT ![c] = next]
      /\ UNCHANGED <<setup, attempt, closing, closeTodo, closeFailed, closeCancelled, begun>>
      /\ TypeOK /\ TaskFits(c)
      /\ deadline' \in [Calls -> BOOLEAN] /\ interrupted' \in [Calls -> BOOLEAN]
      /\ ledger' = Record(ledger, c, NotReported, setup) /\ NotReported \in Usage
  BY DEF GraceEnds, RouterInv, closeVars, TypeOK, Settle, NotReported, Usage
<1>2. /\ next \in Over \cup {"backoff"} /\ (next = "backoff" => attempt[c] < setup.retries)
      /\ Alive(c) => next \in Over
  BY DEF Over, Failed
<1> HIDE DEF next
<1>3. CASE ~Alive(c)
  <2>1. Release(c) /\ Consume(c) /\ unresolved' = unresolved
    BY <1>3 DEF GraceEnds, Track
  <2> QED BY <1>1, <1>2, <1>3, <2>1, AttemptEnds DEF Attempting, closeVars
<1>4. CASE Alive(c)
  <2>1. UNCHANGED <<task, asked, lease, client>> /\ unresolved' = unresolved \cup {c}
    BY <1>4 DEF GraceEnds, Track
  <2>2. /\ pc'[c] = next /\ \A d \in Calls \ {c} : pc'[d] = pc[d]
        /\ pc' \in [Calls -> {"idle", "queued", "backoff"} \cup Attempting \cup Over]
    BY <1>1, <1>2 DEF TypeOK
  <2>3. /\ AliveTasks' = AliveTasks /\ Holding' \subseteq Holding
        /\ Holders' = Holders \ {c} /\ c \in Holders
    BY <1>1, <1>2, <1>4, <2>1, <2>2 DEF AliveTasks, Alive, Holding, Holders, Attempting, Over
  <2>4. ASSUME NEW d \in Calls PROVE TaskFits(d)'
    <3>1. CASE d = c
      BY <1>1, <1>2, <1>4, <2>1, <2>2, <3>1 DEF TaskFits, Alive, Attempting, Over
    <3>2. CASE d # c
      BY <1>1, <2>1, <2>2, <3>2, TaskStays
    <3> QED BY <3>1, <3>2
  <2>5. BudgetFits'
    BY <1>1, <2>1, <2>3, BudgetSettles
  <2>6. CloseFits' /\ PermitsHold' /\ ClientsAreKept'
    BY <1>1, <2>1, <2>3, CloseStays, PermitsStay, ClientsStay
  <2>7. TypeOK'
    <3>1. IsLedger(ledger')
      BY <2>5, LedgerTyped DEF BudgetFits, Holders
    <3> QED BY <1>1, <2>1, <2>2, <3>1 DEF TypeOK
  <2> QED BY <2>4, <2>5, <2>6, <2>7 DEF RouterInv
<1> QED BY <1>3, <1>4

-----------------------------------------------------------------------------
(* Provider tasks, the closes of clients, and scopes.                       *)

\* The clients in the map are finitely many, and so are those left of them.
LEMMA CachedFinite ==
  ASSUME NEW S \in SUBSET Clients
  PROVE  IsFiniteSet(S) /\ Cardinality(S) \in Nat
<1>1. IsFiniteSet(1 .. MaxAttempts)
  BY RouterAssumption, FS_Interval
<1>2. IsFiniteSet(Clients)
  BY <1>1, ClientAssumption, FS_Product DEF Clients
<1> QED BY <1>2, FS_Subset, FS_CardinalityType

\* The task c that begins has no lease, its router is open, and its attempt has
\* a reservation.
LEMMA BeginsFrom ==
  ASSUME RouterInv, NEW c \in Calls, ProviderBegins(c)
  PROVE  /\ TypeOK /\ ClientsAreKept /\ task[c] = "created" /\ pc[c] = "attempt" /\ lease[c] = None
         /\ attempt[c] \in 1 .. MaxAttempts /\ <<c, attempt[c]>> \in Clients
         /\ UNCHANGED <<setup, ledger, pc, attempt, deadline, interrupted, asked, unresolved,
                        closing, closeTodo, closeFailed, closeCancelled>>
<1>1. /\ TypeOK /\ ClientsAreKept /\ TaskFits(c) /\ task[c] = "created" /\ ~asked[c]
      /\ UNCHANGED <<setup, ledger, pc, attempt, deadline, interrupted, asked, unresolved,
                     closing, closeTodo, closeFailed, closeCancelled>>
  BY DEF RouterInv, ProviderBegins, callVars, closeVars
<1>2. pc[c] = "attempt" /\ lease[c] = None /\ attempt[c] > 0
  BY <1>1 DEF TaskFits, Attempting
<1>3. attempt[c] \in 1 .. MaxAttempts
  BY <1>1, <1>2, RouterAssumption DEF TypeOK
<1> QED BY <1>1, <1>2, <1>3 DEF Clients

\* A task that cannot get a client ends.
LEMMA BeginFails ==
  ASSUME RouterInv, NEW c \in Calls, ProviderBegins(c),
         NEW r \in {"routerClosed", "fatal"}, task' = [task EXCEPT ![c] = r],
         UNCHANGED <<lease, begun>>, client' \in [Clients -> ClientStates], ClientsAreKept'
  PROVE  RouterInv'
<1>1. /\ TypeOK /\ pc[c] = "attempt" /\ TaskFits(c)
      /\ UNCHANGED <<setup, ledger, pc, attempt, deadline, interrupted, asked, unresolved,
                     closing, closeTodo, closeFailed, closeCancelled, lease, begun>>
  BY BeginsFrom DEF RouterInv
<1>2. /\ task'[c] = r /\ \A d \in Calls \ {c} : task'[d] = task[d]
      /\ task' \in [Calls -> {"none", "created", "running"} \cup Results]
  BY <1>1 DEF TypeOK, Results
<1>3. /\ AliveTasks' \subseteq AliveTasks /\ Holding' = Holding /\ Holders' = Holders
      /\ Holders \cap Sent \subseteq Sent'
  BY <1>1, <1>2, BeginsFrom DEF AliveTasks, Alive, Holding, Holders, Sent
<1>4. ASSUME NEW d \in Calls PROVE TaskFits(d)'
  <2>1. CASE d = c
    BY <1>1, <1>2, <2>1, BeginsFrom DEF TaskFits, Alive, Attempting
  <2>2. CASE d # c
    BY <1>1, <1>2, <2>2, TaskStays
  <2> QED BY <2>1, <2>2
<1>5. TypeOK'
  BY <1>1, <1>2 DEF TypeOK
<1>6. CloseFits' /\ PermitsHold' /\ BudgetFits'
  BY <1>1, <1>3, CloseStays, PermitsStay, BudgetStays
<1> QED BY <1>4, <1>5, <1>6 DEF RouterInv

\* A task that gets a client runs, and has begun.
LEMMA BeginRuns ==
  ASSUME RouterInv, NEW c \in Calls, ProviderBegins(c), NEW n \in Clients,
         task' = [task EXCEPT ![c] = "running"], lease' = [lease EXCEPT ![c] = n],
         begun' = [begun EXCEPT ![ScopeOf[c]] = @ + 1],
         client' \in [Clients -> ClientStates], ClientsAreKept'
  PROVE  RouterInv'
<1>1. /\ TypeOK /\ pc[c] = "attempt" /\ task[c] = "created" /\ TaskFits(c)
      /\ UNCHANGED <<setup, ledger, pc, attempt, deadline, interrupted, asked, unresolved,
                     closing, closeTodo, closeFailed, closeCancelled>>
  BY BeginsFrom DEF RouterInv
<1>2. /\ task'[c] = "running" /\ lease'[c] = n
      /\ \A d \in Calls \ {c} : task'[d] = task[d] /\ lease'[d] = lease[d]
      /\ task' \in [Calls -> {"none", "created", "running"} \cup Results]
      /\ lease' \in [Calls -> Clients \cup {None}]
  BY <1>1 DEF TypeOK, Results
<1>3. /\ AliveTasks' = AliveTasks /\ Holding' = Holding /\ Holders' = Holders
      /\ Holders \cap Sent \subseteq Sent'
      /\ c \in Holders /\ c \notin Sent /\ c \in Sent'
  BY <1>1, <1>2 DEF AliveTasks, Alive, Holding, Holders, Sent, Attempting
<1>4. ASSUME NEW d \in Calls PROVE TaskFits(d)'
  <2>1. CASE d = c
    <3>1. n # None
      BY ClientAssumption
    <3> QED BY <1>1, <1>2, <2>1, <3>1 DEF TaskFits, Alive, Attempting
  <2>2. CASE d # c
    BY <1>1, <1>2, <2>2, TaskStays
  <2> QED BY <2>1, <2>2
<1>5. begun' \in [Scopes -> Nat]
  <2>1. ScopeOf[c] \in Scopes /\ begun \in [Scopes -> Nat]
    BY <1>1, RouterAssumption DEF TypeOK
  <2>2. begun[ScopeOf[c]] + 1 \in Nat
    BY <2>1
  <2> QED BY <2>1, <2>2
<1>6. TypeOK'
  BY <1>1, <1>2, <1>5 DEF TypeOK
<1>7. CloseFits' /\ PermitsHold'
  BY <1>1, <1>3, CloseStays, PermitsStay
<1>8. BudgetFits'
  <2>1. BudgetFits /\ Holders \in SUBSET Calls /\ begun \in [Scopes -> Nat]
    BY <1>1 DEF RouterInv, Holders, TypeOK
  <2>2. LedgerFits(ledger, Holders, setup, [begun EXCEPT ![ScopeOf[c]] = @ + 1], Sent')
    BY <1>3, <2>1, LedgerBegins DEF BudgetFits
  <2> QED BY <1>1, <1>3, <2>2 DEF BudgetFits
<1> QED BY <1>4, <1>6, <1>7, <1>8 DEF RouterInv

\* What an eviction leaves: only an idle client goes, and there is room if the
\* map is smaller than its bound.
LEMMA EvictedIsIdle ==
  ASSUME RouterInv, NEW evicted \in SUBSET Cached, Evict(evicted)
  PROVE  /\ \A n \in evicted : Leases(n) = {}
         /\ Cardinality(Cached \ evicted) <= CacheSize
<1>1. Cardinality(Cached \ evicted) <= Cardinality(Cached)
  BY CachedFinite, FS_Subset DEF Cached
<1>2. /\ Cardinality(Cached) <= CacheSize /\ Cardinality(Cached) \in Nat /\ CacheSize \in Nat
      /\ Cardinality(Cached \ evicted) \in Nat
  BY CachedFinite, RouterAssumption DEF RouterInv, ClientsAreKept, Cached
<1>3. \A n \in evicted : Leases(n) = {}
  BY DEF Evict
<1> QED BY <1>1, <1>2, <1>3

\* A provider task begins.
LEMMA ProviderBeginsKeeps ==
  ASSUME RouterInv, NEW c \in Calls, ProviderBegins(c)
  PROVE  RouterInv'
<1>1. /\ TypeOK /\ ClientsAreKept /\ task[c] = "created" /\ lease[c] = None
      /\ <<c, attempt[c]>> \in Clients /\ closing' = closing
  BY BeginsFrom
<1>2. CASE ~EnsureOpen
  <2>1. PICK r \in {"routerClosed", "fatal"} :
          task' = [task EXCEPT ![c] = r] /\ UNCHANGED <<client, lease, begun>>
    BY <1>2 DEF ProviderBegins
  <2>2. \A d \in Calls : task'[d] = "running" => task[d] = "running"
    BY <1>1, <2>1 DEF TypeOK
  <2>3. ClientsAreKept'
    BY <1>1, <2>1, <2>2, ClientsStay
  <2> QED BY <1>1, <2>1, <2>3, BeginFails DEF TypeOK
<1>3. CASE EnsureOpen /\ CachedFor(KeyOf[c]) # {}
  <2>1. GetClient(c)
    BY <1>3 DEF ProviderBegins
  <2>2. PICK n \in CachedFor(KeyOf[c]) :
          /\ lease' = [lease EXCEPT ![c] = n] /\ task' = [task EXCEPT ![c] = "running"]
          /\ begun' = [begun EXCEPT ![ScopeOf[c]] = @ + 1] /\ client' = client
    BY <1>3, <2>1 DEF GetClient
  <2>3. n \in Clients /\ client[n] = "cached" /\ Cached' = Cached
    BY <2>2 DEF CachedFor, Cached
  <2>4. /\ lease'[c] = n /\ task'[c] = "running"
        /\ \A d \in Calls \ {c} : lease'[d] = lease[d] /\ task'[d] = task[d]
    BY <1>1, <2>2 DEF TypeOK
  <2>5. ASSUME NEW d \in Calls, task'[d] = "running"
        PROVE  client'[lease'[d]] \in {"cached", "detached"}
    BY <1>1, <2>2, <2>3, <2>4, <2>5 DEF ClientsAreKept
  <2>6. ASSUME NEW m \in Clients, client'[m] = "detached" PROVE Leases(m)' # {}
    <3>1. PICK d \in Calls : lease[d] = m
      BY <1>1, <2>2, <2>6 DEF ClientsAreKept, Leases
    <3>2. d # c
      BY <1>1, <3>1, ClientAssumption
    <3> QED BY <2>4, <3>1, <3>2 DEF Leases
  <2>7. ClientsAreKept'
    BY <1>1, <2>3, <2>5, <2>6 DEF ClientsAreKept
  <2>8. client' \in [Clients -> ClientStates]
    BY <1>1, <2>2 DEF TypeOK
  <2> QED BY <2>2, <2>3, <2>7, <2>8, BeginRuns
<1>4. CASE EnsureOpen /\ CachedFor(KeyOf[c]) = {}
  <2> DEFINE new == <<c, attempt[c]>>
  <2>1. GetClient(c) /\ closing = "open"
    BY <1>4 DEF ProviderBegins, EnsureOpen
  <2>2. PICK evicted \in SUBSET Cached :
          /\ Evict(evicted)
          /\ LET room == Cardinality(Cached \ evicted) < CacheSize
                 kept == [n \in Clients |-> IF n \in evicted THEN "closing" ELSE client[n]]
             IN \/ /\ client' = [kept EXCEPT ![new] = IF room THEN "cached" ELSE "detached"]
                   /\ lease' = [lease EXCEPT ![c] = new]
                   /\ task' = [task EXCEPT ![c] = "running"]
                   /\ begun' = [begun EXCEPT ![ScopeOf[c]] = @ + 1]
                \/ /\ client' = kept
                   /\ task' = [task EXCEPT ![c] = "fatal"]
                   /\ UNCHANGED <<lease, begun>>
    BY <1>4, <2>1 DEF GetClient
  <2> DEFINE room == Cardinality(Cached \ evicted) < CacheSize
             kept == [n \in Clients |-> IF n \in evicted THEN "closing" ELSE client[n]]
  <2>3. /\ \A n \in evicted : Leases(n) = {}
        /\ Cardinality(Cached \ evicted) <= CacheSize
        /\ Cardinality(Cached \ evicted) \in Nat /\ CacheSize \in Nat
        /\ IsFiniteSet(Cached \ evicted)
    BY <2>2, EvictedIsIdle, CachedFinite, RouterAssumption DEF Cached
  <2>4. kept \in [Clients -> ClientStates]
    BY <1>1 DEF TypeOK, ClientStates
  <2>5. \A n \in Clients : kept[n] = IF n \in evicted THEN "closing" ELSE client[n]
    OBVIOUS
  <2>6. CASE /\ client' = kept /\ task' = [task EXCEPT ![c] = "fatal"]
             /\ UNCHANGED <<lease, begun>>
    <3> HIDE DEF kept
    <3>1. \A d \in Calls : task'[d] = "running" => task[d] = "running"
      BY <1>1, <2>6 DEF TypeOK
    <3>2. Cached' = Cached \ evicted
      BY <2>5, <2>6 DEF Cached
    <3>3. ASSUME NEW d \in Calls, task'[d] = "running"
          PROVE  client'[lease'[d]] \in {"cached", "detached"}
      <4>1. client[lease[d]] \in {"cached", "detached"} /\ lease[d] \in Clients
        BY <1>1, <3>1, <3>3 DEF ClientsAreKept, RouterInv, TaskFits, TypeOK
      <4>2. lease[d] \notin evicted
        BY <2>3 DEF Leases
      <4> QED BY <2>5, <2>6, <4>1, <4>2
    <3>4. ASSUME NEW n \in Clients, client'[n] = "detached" PROVE Leases(n)' # {}
      <4>1. Leases(n) # {}
        BY <1>1, <2>5, <2>6, <3>4 DEF ClientsAreKept
      <4> QED BY <2>6, <4>1 DEF Leases
    <3>5. ClientsAreKept'
      BY <1>1, <2>1, <2>3, <3>2, <3>3, <3>4 DEF ClientsAreKept
    <3>6. client' \in [Clients -> ClientStates]
      BY <2>4, <2>6
    <3> QED BY <2>6, <3>5, <3>6, BeginFails
  <2>7. CASE /\ client' = [kept EXCEPT ![new] = IF room THEN "cached" ELSE "detached"]
             /\ lease' = [lease EXCEPT ![c] = new]
             /\ task' = [task EXCEPT ![c] = "running"]
             /\ begun' = [begun EXCEPT ![ScopeOf[c]] = @ + 1]
    <3> DEFINE how == IF room THEN "cached" ELSE "detached"
    <3>1. /\ how \in {"cached", "detached"}
          /\ how = "cached" => Cardinality(Cached \ evicted) + 1 <= CacheSize
      BY <2>3
    <3>2. new \in Clients
      BY <1>1
    <3>3. client' = [kept EXCEPT ![new] = how]
      BY <2>7
    <3> HIDE DEF kept, new, how, room
    <3>4. /\ client'[new] = how
          /\ \A n \in Clients \ {new} : client'[n] = IF n \in evicted THEN "closing" ELSE client[n]
          /\ client' \in [Clients -> ClientStates]
      BY <2>4, <2>5, <3>1, <3>2, <3>3 DEF ClientStates
    <3>5. /\ lease'[c] = new /\ task'[c] = "running"
          /\ \A d \in Calls \ {c} : lease'[d] = lease[d] /\ task'[d] = task[d]
      BY <1>1, <2>7 DEF TypeOK
    <3>6. ASSUME NEW d \in Calls, task'[d] = "running"
          PROVE  client'[lease'[d]] \in {"cached", "detached"}
      <4>1. CASE d = c
        BY <3>1, <3>4, <3>5, <4>1
      <4>2. CASE d # c
        <5>1. /\ task[d] = "running" /\ lease'[d] = lease[d] /\ lease[d] \in Clients
              /\ client[lease[d]] \in {"cached", "detached"}
          BY <1>1, <3>5, <3>6, <4>2 DEF ClientsAreKept, RouterInv, TaskFits, TypeOK
        <5>2. lease[d] \notin evicted
          BY <2>3 DEF Leases
        <5> QED BY <3>1, <3>4, <5>1, <5>2
      <4> QED BY <4>1, <4>2
    <3>7. ASSUME NEW n \in Clients, client'[n] = "detached" PROVE Leases(n)' # {}
      <4>1. CASE n = new
        BY <3>5, <4>1 DEF Leases
      <4>2. CASE n # new
        <5>1. client[n] = "detached"
          BY <3>4, <3>7, <4>2
        <5>2. PICK d \in Calls : lease[d] = n
          BY <1>1, <5>1 DEF ClientsAreKept, Leases
        <5>3. d # c
          BY <1>1, <5>2, ClientAssumption
        <5> QED BY <3>5, <5>2, <5>3 DEF Leases
      <4> QED BY <4>1, <4>2
    <3>8. Cardinality(Cached') <= CacheSize
      <4>1. CASE how = "cached"
        <5>1. Cached' \subseteq (Cached \ evicted) \cup {new}
          BY <3>4 DEF Cached
        <5>2. /\ IsFiniteSet((Cached \ evicted) \cup {new})
              /\ Cardinality((Cached \ evicted) \cup {new}) <= Cardinality(Cached \ evicted) + 1
              /\ Cardinality((Cached \ evicted) \cup {new}) \in Nat
          <6>1. (Cached \ evicted) \cup {new} \in SUBSET Clients
            BY <3>2 DEF Cached
          <6>2. Cardinality((Cached \ evicted) \cup {new})
                  = IF new \in Cached \ evicted THEN Cardinality(Cached \ evicted)
                    ELSE Cardinality(Cached \ evicted) + 1
            BY <2>3, FS_AddElement
          <6> QED BY <2>3, <6>1, <6>2, CachedFinite
        <5>3. Cardinality(Cached') <= Cardinality((Cached \ evicted) \cup {new})
          BY <5>1, <5>2, FS_Subset
        <5>4. Cardinality(Cached') \in Nat
          <6>1. Cached' \in SUBSET Clients
            BY DEF Cached
          <6> QED BY <6>1, CachedFinite
        <5> QED BY <2>3, <3>1, <4>1, <5>2, <5>3, <5>4
      <4>2. CASE how = "detached"
        <5>1. Cached' \subseteq Cached \ evicted
          BY <3>4, <4>2 DEF Cached
        <5>2. Cardinality(Cached') <= Cardinality(Cached \ evicted)
          BY <2>3, <5>1, FS_Subset
        <5>3. Cardinality(Cached') \in Nat
          <6>1. Cached' \in SUBSET Clients
            BY DEF Cached
          <6> QED BY <6>1, CachedFinite
        <5> QED BY <2>3, <5>2, <5>3
      <4> QED BY <3>1, <4>1, <4>2
    <3>9. ClientsAreKept'
      BY <1>1, <2>1, <3>6, <3>7, <3>8 DEF ClientsAreKept
    <3> QED BY <2>7, <3>2, <3>4, <3>9, BeginRuns
  <2> QED BY <2>2, <2>6, <2>7
<1> QED BY <1>2, <1>3, <1>4

\* A provider task ends: its call reads the result, or it is forgotten.
LEMMA ProviderEndsKeeps ==
  ASSUME RouterInv, NEW c \in Calls, ProviderEnds(c)
  PROVE  RouterInv'
<1>1. /\ TypeOK /\ TaskFits(c) /\ Alive(c)
      /\ UNCHANGED <<setup, ledger, pc, attempt, deadline, interrupted, closing, closeTodo,
                     closeFailed, closeCancelled, begun>>
      /\ unresolved' = unresolved \ {c}
  BY DEF RouterInv, ProviderEnds, callVars, closeVars, Alive
<1>2. ASSUME NEW r \in Results \cup {"none"}, r # "routerClosed",
             task' = [task EXCEPT ![c] = r],
             r # "none" => pc[c] \in Attempting /\ UNCHANGED <<asked, lease>>,
             r = "none" => /\ pc[c] \notin Attempting
                           /\ asked' = [asked EXCEPT ![c] = FALSE]
                           /\ lease' = [lease EXCEPT ![c] = None],
             client' \in [Clients -> ClientStates], ClientsAreKept'
      PROVE  RouterInv'
  <2>1. /\ task'[c] = r
        /\ \A d \in Calls \ {c} : /\ task'[d] = task[d] /\ lease'[d] = lease[d]
                                  /\ asked'[d] = asked[d]
        /\ task' \in [Calls -> {"none", "created", "running"} \cup Results]
        /\ lease' \in [Calls -> Clients \cup {None}]
        /\ asked' \in [Calls -> BOOLEAN]
        /\ r = "none" => lease'[c] = None
    BY <1>1, <1>2 DEF TypeOK, Results
  <2>2. r \notin {"created", "running"}
    BY <1>2 DEF Results
  <2>3. /\ AliveTasks' = AliveTasks \ {c} /\ Holding' = Holding /\ Holders' = Holders
        /\ Holders \cap Sent \subseteq Sent'
    BY <1>1, <1>2, <2>1, <2>2 DEF AliveTasks, Alive, Holding, Holders, Sent
  <2>4. ASSUME NEW d \in Calls PROVE TaskFits(d)'
    <3>1. CASE d = c
      BY <1>1, <1>2, <2>1, <2>2, <3>1 DEF TaskFits, Alive, Attempting
    <3>2. CASE d # c
      BY <1>1, <2>1, <3>2, TaskStays
    <3> QED BY <3>1, <3>2
  <2>5. TypeOK'
    BY <1>1, <1>2, <2>1 DEF TypeOK
  <2>6. unresolved \cap AliveTasks' \subseteq unresolved'
    BY <1>1, <2>3
  <2>7. CloseFits' /\ PermitsHold' /\ BudgetFits'
    BY <1>1, <2>3, <2>6, CloseStays, PermitsStay, BudgetStays
  <2> QED BY <1>2, <2>4, <2>5, <2>7 DEF RouterInv
<1>3. CASE pc[c] \in Attempting
  <2>1. PICK r \in {"response", "transient", "fatal", "cancelled"} :
          task' = [task EXCEPT ![c] = r] /\ UNCHANGED <<asked, lease, client>>
    BY <1>3 DEF ProviderEnds
  <2>2. r \in Results /\ r # "routerClosed" /\ r # "none"
    BY <2>1 DEF Results
  <2>3. \A d \in Calls : task'[d] = "running" => task[d] = "running"
    BY <1>1, <2>1 DEF TypeOK
  <2>4. ClientsAreKept' /\ client' \in [Clients -> ClientStates]
    BY <1>1, <2>1, <2>3, ClientsStay DEF TypeOK
  <2> QED BY <1>2, <1>3, <2>1, <2>2, <2>4
<1>4. CASE pc[c] \notin Attempting
  <2>1. Release(c) /\ Consume(c)
    BY <1>4 DEF ProviderEnds
  <2>2. ClientsAreKept' /\ client' \in [Clients -> ClientStates]
    BY <1>1, <2>1, ClientsReleased
  <2>3. /\ task' = [task EXCEPT ![c] = "none"] /\ asked' = [asked EXCEPT ![c] = FALSE]
        /\ lease' = [lease EXCEPT ![c] = None]
    BY <2>1 DEF Consume
  <2> QED BY <1>2, <1>4, <2>2, <2>3
<1> QED BY <1>3, <1>4

\* Nothing of the calls, the tasks and the ledger changes: what is left to see is
\* the clients and aclose.
LEMMA CloseKeeps ==
  ASSUME RouterInv,
         UNCHANGED <<setup, ledger, pc, attempt, deadline, interrupted, task, lease, begun>>,
         asked' \in [Calls -> BOOLEAN], \A c \in Calls : asked[c] => asked'[c],
         unresolved \subseteq unresolved', unresolved' \subseteq Calls,
         client' \in [Clients -> ClientStates],
         closing' \in {"open", "active", "left", "clients", "drain"} \cup Closed,
         closeTodo' \subseteq Calls \cup Clients,
         closeFailed' \in BOOLEAN, closeCancelled' \in BOOLEAN,
         CloseFits', ClientsAreKept'
  PROVE  RouterInv'
<1>1. TypeOK'
  BY DEF RouterInv, TypeOK
<1>2. \A c \in Calls : TaskFits(c)'
  <2> TAKE c \in Calls
  <2> QED BY TaskStays
<1>3. AliveTasks' = AliveTasks /\ Holding' = Holding /\ Holders' = Holders /\ Sent' = Sent
  BY DEF AliveTasks, Alive, Holding, Holders, Sent
<1>4. PermitsHold' /\ BudgetFits'
  BY <1>3, PermitsStay, BudgetStays
<1> QED BY <1>1, <1>2, <1>4 DEF RouterInv

\* The close of a client ends, or outlives its bounds.
LEMMA ClientClosesKeeps ==
  ASSUME RouterInv, NEW n \in Clients, ClientCloses(n)
  PROVE  RouterInv'
<1>1. /\ UNCHANGED <<setup, ledger, pc, attempt, deadline, interrupted, task, asked, lease,
                     unresolved, begun, closing, closeTodo, closeFailed, closeCancelled>>
      /\ TypeOK
  BY DEF ClientCloses, callVars, taskVars, closeVars, RouterInv
<1>2. PICK state \in {"none", "stuck"} : client' = [client EXCEPT ![n] = state]
  BY DEF ClientCloses
<1>3. client[n] \in {"closing", "stuck"}
  BY DEF ClientCloses
<1>4. /\ client' \in [Clients -> ClientStates] /\ client'[n] = state
      /\ \A m \in Clients \ {n} : client'[m] = client[m]
  BY <1>1, <1>2 DEF TypeOK, ClientStates
<1>5. ClientsAreKept'
  BY <1>1, <1>2, <1>3, <1>4, ClientsStay
<1>6. AliveTasks' = AliveTasks
  BY <1>1 DEF AliveTasks, Alive
<1>7. CloseFits'
  BY <1>1, <1>6, CloseStays
<1> QED BY <1>1, <1>4, <1>5, <1>7, CloseKeeps DEF TypeOK

\* A room or a run opens or closes its scope.
LEMMA RegistersKeeps ==
  ASSUME RouterInv, NEW s \in Scopes, NEW closed \in BOOLEAN, Registers(s, closed)
  PROVE  RouterInv'
<1>1. /\ UNCHANGED <<setup, pc, attempt, deadline, interrupted, task, asked, lease,
                     unresolved, client, closing, closeTodo, closeFailed, closeCancelled>>
      /\ TypeOK /\ BudgetFits /\ Holders \in SUBSET Calls /\ begun \in [Scopes -> Nat]
      /\ IsPolicy(setup)
  BY SetupTyped DEF Registers, callVars, taskVars, closeVars, RouterInv, Holders, TypeOK
<1>2. PICK gone \in SUBSET Prunable(ledger) :
        /\ s \in DOMAIN ledger.scopes => gone = {}
        /\ ledger' = IF closed THEN CloseScope(Pruned(ledger, gone), s)
                     ELSE Register(Pruned(ledger, gone), s)
        /\ begun' = IF s \in DOMAIN ledger.scopes THEN begun ELSE [begun EXCEPT ![s] = 0]
  BY DEF Registers
<1> DEFINE l == Pruned(ledger, gone)
<1>3. /\ LedgerFits(l, Holders, setup, begun, Sent)
      /\ DOMAIN l.scopes = DOMAIN ledger.scopes \ gone
  <2>1. LedgerFits(ledger, Holders, setup, begun, Sent)
    BY <1>1 DEF BudgetFits
  <2>2. IsRecord(ledger)
    BY <2>1 DEF LedgerFits
  <2>3. DOMAIN l.scopes = DOMAIN ledger.scopes \ gone
    BY <2>2, PrunedFields
  <2>4. LedgerFits(l, Holders, setup, begun, Sent)
    BY <1>1, <2>1, LedgerPrunes
  <2> QED BY <2>3, <2>4
<1>4. ledger' \in {Register(l, s), CloseScope(l, s)}
  BY <1>2
<1>5. begun' = IF s \in DOMAIN l.scopes THEN begun ELSE [begun EXCEPT ![s] = 0]
  BY <1>2, <1>3
<1> HIDE DEF l
<1>6. LedgerFits(ledger', Holders, setup, begun', Sent)
  <2> DEFINE k == begun'
             m == ledger'
  <2>1. /\ k = IF s \in DOMAIN l.scopes THEN begun ELSE [begun EXCEPT ![s] = 0]
        /\ m \in {Register(l, s), CloseScope(l, s)}
    BY <1>4, <1>5
  <2> HIDE DEF k, m
  <2>2. IsPolicy(setup) /\ Holders \in SUBSET Calls /\ begun \in [Scopes -> Nat]
    BY <1>1
  <2>3. LedgerFits(l, Holders, setup, begun, Sent)
    BY <1>3
  <2>4. LedgerFits(m, Holders, setup, k, Sent)
    BY ONLY <2>1, <2>2, <2>3, LedgerRegisters
  <2> QED BY <2>4 DEF k, m
<1>7. AliveTasks' = AliveTasks /\ Holding' = Holding /\ Holders' = Holders /\ Sent' = Sent
  BY <1>1 DEF AliveTasks, Alive, Holding, Holders, Sent
<1>8. BudgetFits'
  BY <1>1, <1>6, <1>7 DEF BudgetFits
<1>9. TypeOK'
  <2>1. IsLedger(ledger')
    BY <1>1, <1>6, LedgerTyped
  <2>2. begun' \in [Scopes -> Nat]
    BY <1>1, <1>2
  <2> QED BY <1>1, <2>1, <2>2 DEF TypeOK
<1>10. \A c \in Calls : TaskFits(c)'
  BY <1>1, TaskStays
<1>11. CloseFits' /\ PermitsHold' /\ ClientsAreKept'
  BY <1>1, <1>7, CloseStays, PermitsStay, ClientsStay
<1> QED BY <1>8, <1>9, <1>10, <1>11 DEF RouterInv

-----------------------------------------------------------------------------
(* aclose.                                                                  *)

\* How aclose ends: it is clean only if no task is left.
LEMMA CloseEndsFits ==
  ASSUME NEW failed \in BOOLEAN, NEW left, NEW clients, CloseEnds(failed, left, clients)
  PROVE  /\ closing' \in Closed /\ closeTodo' = {} /\ closeFailed' \in BOOLEAN
         /\ closing' = "clean" => left = {}
BY DEF CloseEnds, Closed

\* It waits for the closes under way, or ends.
LEMMA DrainFits ==
  ASSUME NEW failed \in BOOLEAN, NEW left, NEW clients, Drain(failed, left, clients)
  PROVE  /\ closing' \in {"drain"} \cup Closed /\ closeTodo' \subseteq Clients
         /\ closeFailed' \in BOOLEAN
         /\ closing' = "clean" => left = {}
<1>1. CASE {n \in Clients : clients[n] = "closing"} = {}
  BY <1>1, CloseEndsFits DEF Drain
<1>2. CASE {n \in Clients : clients[n] = "closing"} # {}
  BY <1>2 DEF Drain
<1> QED BY <1>1, <1>2

\* Every client that is not leased is closed, and the map is empty.
LEMMA CloseClientsFits ==
  ASSUME RouterInv, NEW failed \in BOOLEAN, NEW left, CloseClients(failed, left),
         UNCHANGED <<task, lease>>
  PROVE  /\ closing' \in {"clients", "drain"} \cup Closed /\ closeTodo' \subseteq Clients
         /\ closeFailed' \in BOOLEAN
         /\ closing' = "clean" => left = {}
         /\ client' \in [Clients -> ClientStates]
         /\ ClientsAreKept'
<1> DEFINE mine == {n \in Clients : Closable(n)}
<1>1. TypeOK /\ ClientsAreKept
  BY DEF RouterInv
<1>2. client' = [n \in Clients |-> IF n \in mine THEN "closing"
                                   ELSE IF client[n] = "cached" THEN "detached" ELSE client[n]]
  BY DEF CloseClients
<1>3. client' \in [Clients -> ClientStates]
  BY <1>1, <1>2 DEF TypeOK, ClientStates
<1>4. \A n \in Clients : client'[n] = IF n \in mine THEN "closing"
                                      ELSE IF client[n] = "cached" THEN "detached" ELSE client[n]
  BY <1>2
<1>5. /\ closing' \in {"clients", "drain"} \cup Closed /\ closeTodo' \subseteq Clients
      /\ closeFailed' \in BOOLEAN
      /\ closing' = "clean" => left = {}
  <2>1. CASE mine = {}
    <3>1. Drain(failed, left, client')
      BY <2>1 DEF CloseClients
    <3> QED BY <3>1, DrainFits
  <2>2. CASE mine # {}
    BY <2>2 DEF CloseClients
  <2> QED BY <2>1, <2>2
<1>6. Cached' = {}
  BY <1>4 DEF Cached, Closable, ClientsAreKept
<1>7. ASSUME NEW c \in Calls, task'[c] = "running"
      PROVE  client'[lease'[c]] \in {"cached", "detached"}
  <2>1. /\ lease[c] \in Clients /\ client[lease[c]] \in {"cached", "detached"}
    BY <1>1, <1>7 DEF ClientsAreKept, RouterInv, TaskFits, TypeOK
  <2>2. lease[c] \notin mine
    BY DEF Closable, Leases
  <2> HIDE DEF mine
  <2> QED BY <1>4, <2>1, <2>2
<1>8. ASSUME NEW n \in Clients, client'[n] = "detached"
      PROVE  Leases(n)' # {}
  <2>1. n \notin mine /\ client[n] \in {"cached", "detached"}
    BY <1>4, <1>8
  <2>2. Leases(n) # {}
    BY <2>1 DEF Closable
  <2> QED BY <2>2 DEF Leases
<1>9. Cardinality(Cached') <= CacheSize
  BY <1>6, FS_EmptySet, RouterAssumption
<1> QED BY <1>3, <1>5, <1>6, <1>7, <1>8, <1>9 DEF ClientsAreKept

\* The unresolved tasks are cancelled once more, and waited for.
LEMMA ReclaimKeeps ==
  ASSUME RouterInv, closing \in {"open", "active"},
         NEW left \in SUBSET Calls, unresolved \subseteq left, AliveTasks \subseteq left,
         Reclaim(left),
         UNCHANGED <<setup, ledger, callVars, task, lease, closeCancelled, begun>>
  PROVE  RouterInv'
<1> DEFINE stuck == {n \in Clients : client[n] = "stuck"}
<1>1. /\ TypeOK /\ ClientsAreKept /\ unresolved' = left
      /\ UNCHANGED <<setup, ledger, pc, attempt, deadline, interrupted, task, lease, begun,
                     closeCancelled>>
  BY DEF RouterInv, callVars, Reclaim
<1>2. AliveTasks' = AliveTasks
  BY <1>1 DEF AliveTasks, Alive
<1>3. CASE left \cup stuck = {}
  <2>1. CloseClients(FALSE, {}) /\ asked' = asked
    BY <1>3 DEF Reclaim
  <2>2. /\ closing' \in {"clients", "drain"} \cup Closed /\ closeTodo' \subseteq Clients
        /\ closeFailed' \in BOOLEAN
        /\ client' \in [Clients -> ClientStates]
        /\ ClientsAreKept'
    BY <1>1, <2>1, CloseClientsFits
  <2>3. CloseFits'
    BY <1>1, <1>2, <1>3, <2>2 DEF CloseFits, Closed
  <2> QED BY <1>1, <2>1, <2>2, <2>3, CloseKeeps DEF TypeOK
<1>4. CASE left \cup stuck # {}
  <2>1. /\ closing' = "left" /\ closeTodo' = left \cup stuck
        /\ asked' = [c \in Calls |-> asked[c] \/ c \in left]
        /\ UNCHANGED <<client, closeFailed>>
    BY <1>4 DEF Reclaim
  <2>2. asked' \in [Calls -> BOOLEAN] /\ \A c \in Calls : asked[c] => asked'[c]
    BY <1>1, <2>1 DEF TypeOK
  <2>3. ClientsAreKept'
    BY <1>1, <2>1, ClientsStay
  <2>4. CloseFits'
    BY <1>1, <1>2, <2>1 DEF CloseFits
  <2>5. closeTodo' \subseteq Calls \cup Clients
    BY <2>1
  <2> HIDE DEF stuck
  <2> QED BY <1>1, <2>1, <2>2, <2>3, <2>4, <2>5, CloseKeeps DEF TypeOK
<1> QED BY <1>3, <1>4

\* aclose begins.
LEMMA CloseBeginsKeeps ==
  ASSUME RouterInv, CloseBegins
  PROVE  RouterInv'
<1> DEFINE active == {c \in Calls : pc[c] \in Attempting /\ Alive(c)}
<1>1. /\ closing = "open" /\ TypeOK
      /\ UNCHANGED <<setup, ledger, callVars, task, lease, closeCancelled, begun>>
      /\ UNCHANGED <<setup, ledger, pc, attempt, deadline, interrupted, task, lease, begun,
                     closeCancelled>>
  BY DEF CloseBegins, RouterInv, callVars
<1>2. AliveTasks \subseteq unresolved \cup active
  BY DEF AliveTasks, RouterInv, TaskFits
<1>3. CASE active = {}
  <2>1. Reclaim(unresolved)
    BY <1>3 DEF CloseBegins
  <2>2. unresolved \in SUBSET Calls /\ AliveTasks \subseteq unresolved
    BY <1>1, <1>2, <1>3 DEF TypeOK
  <2> QED BY <1>1, <2>1, <2>2, ReclaimKeeps
<1>4. CASE active # {}
  <2>1. /\ closing' = "active" /\ closeTodo' = active
        /\ asked' = [c \in Calls |-> asked[c] \/ c \in active]
        /\ UNCHANGED <<unresolved, client, closeFailed>>
    BY <1>4 DEF CloseBegins
  <2>2. asked' \in [Calls -> BOOLEAN] /\ \A c \in Calls : asked[c] => asked'[c]
    BY <1>1, <2>1 DEF TypeOK
  <2>3. active \subseteq Calls
    OBVIOUS
  <2> HIDE DEF active
  <2>4. ClientsAreKept'
    BY <1>1, <2>1, ClientsStay
  <2>5. AliveTasks' = AliveTasks
    BY <1>1 DEF AliveTasks, Alive
  <2>6. CloseFits'
    BY <1>2, <2>1, <2>3, <2>5 DEF CloseFits
  <2> QED BY <1>1, <2>1, <2>2, <2>3, <2>4, <2>6, CloseKeeps DEF TypeOK
<1> QED BY <1>3, <1>4

\* The wait for the active tasks ends: those alive are unresolved.
LEMMA CloseActiveEndsKeeps ==
  ASSUME RouterInv, CloseActiveEnds
  PROVE  RouterInv'
<1> DEFINE left == unresolved \cup {c \in closeTodo : Alive(c)}
<1>1. /\ closing = "active" /\ Reclaim(left)
      /\ UNCHANGED <<setup, ledger, callVars, task, lease, closeCancelled, begun>>
  BY DEF CloseActiveEnds
<1>2. left \in SUBSET Calls /\ AliveTasks \subseteq left /\ unresolved \subseteq left
  BY <1>1 DEF RouterInv, CloseFits, TypeOK, AliveTasks
<1> HIDE DEF left
<1> QED BY <1>1, <1>2, ReclaimKeeps

\* The wait for the unresolved ones ends.
LEMMA CloseLeftEndsKeeps ==
  ASSUME RouterInv, CloseLeftEnds
  PROVE  RouterInv'
<1> DEFINE failed == \/ \E c \in closeTodo \cap Calls : Alive(c)
                     \/ \E n \in closeTodo \cap Clients : client[n] = "stuck"
<1>1. /\ closing = "left" /\ CloseClients(failed, unresolved) /\ failed \in BOOLEAN
      /\ UNCHANGED <<setup, ledger, pc, attempt, deadline, interrupted, task, asked, lease,
                     unresolved, begun, closeCancelled>>
      /\ TypeOK
  BY DEF CloseLeftEnds, callVars, taskVars, RouterInv
<1> HIDE DEF failed
<1>2. /\ closing' \in {"clients", "drain"} \cup Closed /\ closeTodo' \subseteq Clients
      /\ closeFailed' \in BOOLEAN
      /\ closing' = "clean" => unresolved = {}
      /\ client' \in [Clients -> ClientStates]
      /\ ClientsAreKept'
  BY <1>1, CloseClientsFits
<1>3. AliveTasks' = AliveTasks /\ AliveTasks \subseteq unresolved
  BY <1>1 DEF AliveTasks, Alive, RouterInv, CloseFits
<1>4. CloseFits'
  BY <1>1, <1>2, <1>3 DEF CloseFits, Closed
<1> QED BY <1>1, <1>2, <1>4, CloseKeeps DEF TypeOK

\* A wait for closes gives up on some, and those that do not end are unresolved.
LEMMA GivenUpFits ==
  ASSUME RouterInv, closing \in {"clients", "drain"}, UNCHANGED <<task, lease>>,
         NEW stuck \in SUBSET {n \in closeTodo : client[n] = "closing"},
         client' = GivenUp(stuck)
  PROVE  ClientsAreKept' /\ client' \in [Clients -> ClientStates]
<1>1. client' \in [Clients -> ClientStates]
  BY DEF GivenUp, ClientStates, RouterInv, TypeOK
<1>2. \A n \in Clients : client'[n] = IF n \in stuck THEN "stuck"
                                      ELSE IF n \in closeTodo /\ client[n] = "closing" THEN "none"
                                      ELSE client[n]
  BY DEF GivenUp
<1>3. \A n \in Clients : client'[n] = client[n]
                         \/ (client[n] = "closing" /\ client'[n] \in {"none", "stuck"})
  BY <1>2
<1>4. ClientsAreKept'
  BY <1>3, ClientsStay
<1> QED BY <1>1, <1>4

\* The wait for closes ends.
LEMMA CloseClientsEndKeeps ==
  ASSUME RouterInv, CloseClientsEnd
  PROVE  RouterInv'
<1>1. /\ closing \in {"clients", "drain"} /\ TypeOK
      /\ UNCHANGED <<setup, ledger, pc, attempt, deadline, interrupted, task, asked, lease,
                     unresolved, begun, closeCancelled>>
  BY DEF CloseClientsEnd, callVars, taskVars, RouterInv
<1>2. PICK stuck \in SUBSET {n \in closeTodo : client[n] = "closing"}, failed \in BOOLEAN :
        /\ client' = GivenUp(stuck)
        /\ IF closing = "clients"
           THEN Drain(closeFailed \/ failed, unresolved, client')
           ELSE CloseEnds(closeFailed \/ failed, unresolved, client')
  BY DEF CloseClientsEnd
<1>3. ClientsAreKept' /\ client' \in [Clients -> ClientStates]
  BY <1>1, <1>2, GivenUpFits
<1>4. (closeFailed \/ failed) \in BOOLEAN
  BY <1>1 DEF TypeOK
<1>5. /\ closing' \in {"drain"} \cup Closed /\ closeTodo' \subseteq Clients
      /\ closeFailed' \in BOOLEAN
      /\ closing' = "clean" => unresolved = {}
  BY <1>2, <1>4, DrainFits, CloseEndsFits
<1>6. AliveTasks' = AliveTasks /\ AliveTasks \subseteq unresolved
  BY <1>1 DEF AliveTasks, Alive, RouterInv, CloseFits
<1>7. CloseFits'
  BY <1>1, <1>5, <1>6 DEF CloseFits, Closed
<1> QED BY <1>1, <1>3, <1>5, <1>7, CloseKeeps DEF TypeOK

\* aclose is cancelled.
LEMMA CloseCancelledKeeps ==
  ASSUME RouterInv, CloseCancelled
  PROVE  RouterInv'
<1>1. /\ UNCHANGED <<setup, ledger, pc, attempt, deadline, interrupted, task, asked, lease,
                     unresolved, begun, closeFailed>>
      /\ TypeOK
  BY DEF CloseCancelled, callVars, taskVars, RouterInv
<1>2. AliveTasks' = AliveTasks
  BY <1>1 DEF AliveTasks, Alive
<1>3. CASE closeCancelled' = TRUE /\ UNCHANGED <<client, closing, closeTodo>>
  <2>1. CloseFits' /\ ClientsAreKept'
    BY <1>1, <1>2, <1>3, CloseStays, ClientsStay
  <2> QED BY <1>1, <1>3, <2>1, CloseKeeps DEF TypeOK
<1>4. CASE /\ closing \in {"clients", "drain"}
           /\ \E stuck \in SUBSET {n \in closeTodo : client[n] = "closing"} :
                client' = GivenUp(stuck)
           /\ closing' = "cancelled" /\ closeTodo' = {} /\ closeCancelled' = closeCancelled
  <2>1. ClientsAreKept' /\ client' \in [Clients -> ClientStates]
    BY <1>1, <1>4, GivenUpFits
  <2>2. CloseFits'
    BY <1>1, <1>2, <1>4 DEF CloseFits, RouterInv
  <2> QED BY <1>1, <1>4, <2>1, <2>2, CloseKeeps DEF TypeOK, Closed
<1> QED BY <1>1, <1>3, <1>4 DEF CloseCancelled

-----------------------------------------------------------------------------
(* The theorems.                                                            *)

\* It holds at the start.
LEMMA RouterInitially == Init => RouterInv
<1> SUFFICES ASSUME Init PROVE RouterInv
  OBVIOUS
<1>1. setup \in Setups /\ IsPolicy(setup) /\ setup.permits \in Nat \ {0}
  BY RouterAssumption DEF Init, IsPolicy
<1>2. /\ IsRecord(ledger) /\ DOMAIN ledger.scopes = {} /\ DOMAIN ledger.open = {}
  BY DEF Init, NewLedger, IsRecord
<1>3. TypeOK
  <2>1. IsLedger(ledger)
    BY <1>2 DEF IsLedger
  <2>2. client \in [Clients -> ClientStates] /\ begun \in [Scopes -> Nat]
    BY DEF Init, ClientStates
  <2>3. attempt \in [Calls -> 0 .. MaxAttempts]
    BY RouterAssumption DEF Init
  <2> QED BY <2>1, <2>2, <2>3 DEF Init, TypeOK
<1>4. \A c \in Calls : TaskFits(c)
  BY DEF Init, TaskFits, Alive, Attempting
<1>5. CloseFits
  BY DEF Init, CloseFits
<1>6. AliveTasks = {} /\ Holding = {} /\ Holders = {} /\ Cached = {}
  BY DEF Init, AliveTasks, Alive, Holding, Holders, Attempting, Cached
<1>7. PermitsHold
  BY <1>1, <1>6, FS_EmptySet DEF PermitsHold
<1>8. ClientsAreKept
  BY <1>6, FS_EmptySet, RouterAssumption DEF Init, ClientsAreKept
<1>9. BudgetFits
  BY <1>2, <1>6 DEF BudgetFits, LedgerFits
<1> QED BY <1>3, <1>4, <1>5, <1>7, <1>8, <1>9 DEF RouterInv

\* Every step keeps it.
LEMMA RouterStep == RouterInv /\ [Next]_vars => RouterInv'
<1> SUFFICES ASSUME RouterInv, [Next]_vars PROVE RouterInv'
  OBVIOUS
<1>1. ASSUME NEW c \in Calls, Start(c) PROVE RouterInv'
  BY <1>1, StartKeeps
<1>2. ASSUME NEW c \in Calls, BeginAttempt(c) PROVE RouterInv'
  BY <1>2, BeginAttemptKeeps
<1>3. ASSUME NEW c \in Calls, TakeResult(c) PROVE RouterInv'
  BY <1>3, TakeResultKeeps
<1>4. ASSUME NEW c \in Calls, DeadlinePasses(c) PROVE RouterInv'
  BY <1>4, DeadlinePassesKeeps
<1>5. ASSUME NEW c \in Calls, GraceEnds(c) PROVE RouterInv'
  BY <1>5, GraceEndsKeeps
<1>6. ASSUME NEW c \in Calls, CallerCancels(c) PROVE RouterInv'
  BY <1>6, CallerCancelsKeeps
<1>7. ASSUME NEW c \in Calls, ProviderBegins(c) PROVE RouterInv'
  BY <1>7, ProviderBeginsKeeps
<1>8. ASSUME NEW c \in Calls, ProviderEnds(c) PROVE RouterInv'
  BY <1>8, ProviderEndsKeeps
<1>9. ASSUME NEW n \in Clients, ClientCloses(n) PROVE RouterInv'
  BY <1>9, ClientClosesKeeps
<1>10. ASSUME NEW s \in Scopes, RoomOpens(s) PROVE RouterInv'
  BY <1>10, RegistersKeeps DEF RoomOpens
<1>11. ASSUME NEW s \in Scopes, RoomCloses(s) PROVE RouterInv'
  BY <1>11, RegistersKeeps DEF RoomCloses
<1>12. CASE Closes
  BY <1>12, CloseBeginsKeeps, CloseActiveEndsKeeps, CloseLeftEndsKeeps, CloseClientsEndKeeps,
     CloseCancelledKeeps DEF Closes
<1>13. CASE UNCHANGED vars
  <2>1. UNCHANGED <<setup, ledger, pc, attempt, deadline, interrupted, task, asked, lease,
                    unresolved, client, closing, closeTodo, closeFailed, closeCancelled, begun>>
    BY <1>13 DEF vars, callVars, taskVars, closeVars
  <2>2. AliveTasks' = AliveTasks
    BY <2>1 DEF AliveTasks, Alive
  <2>3. CloseFits' /\ ClientsAreKept'
    BY <2>1, <2>2, CloseStays, ClientsStay
  <2>4. TypeOK
    BY DEF RouterInv
  <2> QED BY <2>1, <2>3, <2>4, CloseKeeps DEF TypeOK
<1> QED BY <1>1, <1>2, <1>3, <1>4, <1>5, <1>6, <1>7, <1>8, <1>9, <1>10, <1>11, <1>12, <1>13
        DEF Next, Resume

\* Calls, tasks, clients, reservations and the close of the router stay in step,
\* whatever calls, providers, rooms and the caller of aclose do and in whatever order.
THEOREM RouterCorrect == Spec => []RouterInv
BY RouterInitially, RouterStep, PTL DEF Spec

\* Every scope's reservations are those of the attempts under way, and its used
\* and reserved calls never pass its limit.
THEOREM BudgetsAreKept == Spec => []BudgetIsKept
<1>1. RouterInv => BudgetIsKept
  <2> SUFFICES ASSUME RouterInv PROVE BudgetIsKept
    OBVIOUS
  <2>1. TypeOK /\ LedgerFits(ledger, Holders, setup, begun, Sent)
    BY DEF RouterInv, BudgetFits
  <2>2. \A s \in DOMAIN ledger.scopes :
          AccountFits(ledger.scopes[s], OpenIn(s), setup, begun[s], Sent)
    BY <2>1 DEF LedgerFits, In, OpenIn
  <2>3. ReservationsBalance
    BY <2>1, <2>2 DEF ReservationsBalance, LedgerFits, AccountFits, Holders
  <2>4. LimitsHold
    BY <2>2 DEF LimitsHold, AccountFits
  <2> QED BY <2>1, <2>3, <2>4 DEF BudgetIsKept
<1> QED BY <1>1, RouterCorrect, PTL

\* No attempt that may have reached its provider escapes its scope's budget.
THEOREM TransportsAreCharged == Spec => []TransportIsCharged
<1>1. RouterInv => TransportIsCharged
  <2> SUFFICES ASSUME RouterInv, NEW s \in DOMAIN ledger.scopes
               PROVE  begun[s] <= ledger.scopes[s].calls + ledger.scopes[s].reservedCalls
    BY DEF TransportIsCharged
  <2>1. /\ TypeOK /\ Holders \in SUBSET Calls /\ s \in Scopes
        /\ LedgerFits(ledger, Holders, setup, begun, Sent)
    BY DEF RouterInv, BudgetFits, Holders, LedgerFits
  <2>2. AccountFits(ledger.scopes[s], In(ledger, s), setup, begun[s], Sent)
    BY <2>1 DEF LedgerFits
  <2>3. In(ledger, s) \in SUBSET Calls
    BY <2>1, InTyped
  <2>4. /\ Cardinality(In(ledger, s) \cap Sent) <= Cardinality(In(ledger, s))
        /\ Cardinality(In(ledger, s) \cap Sent) \in Nat /\ Cardinality(In(ledger, s)) \in Nat
    BY <2>3, CallsFinite, FS_Subset
  <2>5. begun[s] \in Nat
    BY <2>1 DEF TypeOK
  <2> QED BY <2>2, <2>4, <2>5 DEF AccountFits, Accounts
<1> QED BY <1>1, RouterCorrect, PTL

\* No client is closed under a task that runs with it, and none is forgotten.
THEOREM ClientsAreSafe == Spec => []ClientsAreKept
<1>1. RouterInv => ClientsAreKept
  BY DEF RouterInv
<1> QED BY <1>1, RouterCorrect, PTL

\* Provider tasks outlive their calls, but never pass the semaphore's count, and
\* a clean close leaves none.
THEOREM TasksAreSeen == Spec => []TasksAreAccountedFor
<1>1. RouterInv => TasksAreAccountedFor
  BY DEF RouterInv, PermitsHold, CloseFits, TasksAreAccountedFor, ConcurrencyIsKept,
         CleanCloseLeavesNoTask, AliveTasks
<1> QED BY <1>1, RouterCorrect, PTL
=============================================================================
