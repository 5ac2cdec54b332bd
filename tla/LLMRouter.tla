------------------------------ MODULE LLMRouter -------------------------------
(***************************************************************************)
(* The provider router (src/llm/router.py) with the budget ledger it books *)
(* every attempt in: concurrent calls of _complete, each trying its        *)
(* provider up to MaxAttempts times under a semaphore; one provider task   *)
(* for each attempt, which leases an SDK client from a bounded cache; and  *)
(* aclose, which reclaims all of it.                                       *)
(*                                                                         *)
(* One action is one stretch of event-loop code between awaits.  Deadlines *)
(* and graces end when they like.  Parsing, wire formats, streams and       *)
(* traces are left out.                                                    *)
(***************************************************************************)
EXTENDS ProviderBudget

CONSTANTS
    Keys,          \* client identities: family, endpoint, base URL, credential
    KeyOf,         \* the identity each call's configuration asks for
    ScopeOf,       \* the budget scope each call is made in
    BudgetOf,      \* _config_token_budget of each call
    Setups,        \* what routers an instance constructs
    Usages,        \* the usage a provider may report in an instance
    MaxAttempts,   \* the largest max_retries of these routers
    CacheSize      \* client_cache_size

ASSUME RouterAssumption ==
    /\ KeyOf \in [Calls -> Keys]
    /\ ScopeOf \in [Calls -> Scopes]
    /\ BudgetOf \in [Calls -> Limits]
    /\ Setups \subseteq [calls : Limits, tokens : Limits,
                         retries : 1..MaxAttempts, permits : Nat \ {0}]
    /\ Usages \subseteq Usage
    /\ MaxAttempts \in Nat \ {0}
    /\ CacheSize \in Nat

\* A client is named by the attempt that constructed it.
Clients == Calls \X (1..MaxAttempts)

ASSUME ClientAssumption == IsFiniteSet(Calls) /\ None \notin Clients

\* "none": not constructed, or closed.  "cached": in the shared map.
\* "detached": known, and not in the map (ephemeral, or left by aclose to its
\* leases).  "closing": its close task runs.  "stuck": the close task outlived
\* its bounds and is unresolved.
ClientStates == {"none", "cached", "detached", "closing", "stuck"}

\* How a provider task ends: a response, a transient or a final error, one of
\* the two errors of _ensure_open, CancelledError.
Results == {"response", "transient", "fatal", "routerClosed", "cancelled"}

VARIABLES
    setup,        \* the limits of budget_policy, max_retries, the semaphore's permits
    ledger,       \* budget_ledger
    pc,           \* where each call stands, or how it ended
    attempt,      \* the number of the call's current attempt
    deadline,     \* the grace follows the attempt's deadline, not a cancellation
    interrupted,  \* the caller cancelled the call in that grace
    task,         \* the provider task of the current attempt
    asked,        \* the provider task has been cancelled
    lease,        \* the client the provider task leases
    unresolved,   \* _unresolved_call_tasks, the provider tasks
    client,       \* what became of each client
    closing,      \* aclose: the stage it is in, or how it ended
    closeTodo,    \* what that stage waits for
    closeFailed,  \* failures is not empty
    closeCancelled,  \* caller_cancelled
    begun         \* history: provider tasks that got a client, in each scope

callVars == <<pc, attempt, deadline, interrupted>>
taskVars == <<task, asked, lease, unresolved>>
closeVars == <<closing, closeTodo, closeFailed, closeCancelled>>
vars == <<setup, ledger, callVars, taskVars, client, closeVars, begun>>

Attempting == {"attempt", "grace"}
Over == {"returned", "failed", "cancelled"}
Ended == Results
Closed == {"clean", "failed", "cancelled"}

TypeOK ==
    /\ setup \in Setups
    /\ IsLedger(ledger)
    /\ pc \in [Calls -> {"idle", "queued", "backoff"} \cup Attempting \cup Over]
    /\ attempt \in [Calls -> 0..MaxAttempts]
    /\ deadline \in [Calls -> BOOLEAN]
    /\ interrupted \in [Calls -> BOOLEAN]
    /\ task \in [Calls -> {"none", "created", "running"} \cup Results]
    /\ asked \in [Calls -> BOOLEAN]
    /\ lease \in [Calls -> Clients \cup {None}]
    /\ unresolved \subseteq Calls
    /\ client \in [Clients -> ClientStates]
    /\ closing \in {"open", "active", "left", "clients", "drain"} \cup Closed
    /\ closeTodo \subseteq Calls \cup Clients
    /\ closeFailed \in BOOLEAN
    /\ closeCancelled \in BOOLEAN
    /\ begun \in [Scopes -> Nat]

Init ==
    /\ setup \in Setups
    /\ ledger = NewLedger
    /\ pc = [c \in Calls |-> "idle"]
    /\ attempt = [c \in Calls |-> 0]
    /\ deadline = [c \in Calls |-> FALSE]
    /\ interrupted = [c \in Calls |-> FALSE]
    /\ task = [c \in Calls |-> "none"]
    /\ asked = [c \in Calls |-> FALSE]
    /\ lease = [c \in Calls |-> None]
    /\ unresolved = {}
    /\ client = [n \in Clients |-> "none"]
    /\ closing = "open"
    /\ closeTodo = {}
    /\ closeFailed = FALSE
    /\ closeCancelled = FALSE
    /\ begun = [s \in Scopes |-> 0]

Alive(c) == task[c] \in {"created", "running"}

\* Mutant: an unresolved task does not pause the router.
EnsureOpenOnly == closing = "open"

\* _ensure_open raises nothing: not closing, and no cleanup is unresolved.
EnsureOpen ==
    /\ closing = "open"
    /\ unresolved = {}
    /\ \A n \in Clients : client[n] # "stuck"

-----------------------------------------------------------------------------
(* Clients.                                                                 *)

Cached == {n \in Clients : client[n] = "cached"}
Leases(n) == {c \in Calls : lease[c] = n}
CachedFor(key) == {n \in Cached : KeyOf[n[1]] = key}

\* Mutant: the oldest client is evicted, idle or not.
EvictAny(evicted) ==
    IF Cardinality(Cached) < CacheSize \/ CacheSize = 0 THEN evicted = {}
    ELSE \E n \in Cached : evicted = {n}

\* The loop of _get_cached_client that makes room: an idle client is taken out
\* of the map, if there is one.  Which is the oldest is up to the clock.
Evict(evicted) ==
    LET idle == {n \in Cached : Leases(n) = {}}
    IN IF Cardinality(Cached) < CacheSize \/ CacheSize = 0 \/ idle = {}
       THEN evicted = {}
       ELSE \E n \in idle : evicted = {n}

\* _release_task_client_leases: the last lease of a client that is not in the
\* map closes it.
Release(c) ==
    client' = [n \in Clients |->
                 IF n = lease[c] /\ client[n] = "detached" /\ Leases(n) = {c}
                 THEN "closing" ELSE client[n]]

\* An ended task is done with: its result is read, or never will be.
Consume(c) ==
    /\ task' = [task EXCEPT ![c] = "none"]
    /\ asked' = [asked EXCEPT ![c] = FALSE]
    /\ lease' = [lease EXCEPT ![c] = None]

\* A provider task that gets a client: the shared one, or a new one, which is
\* cached if there is room and ephemeral if there is not.  The SDK constructor may raise.
GetClient(c) ==
    LET new == <<c, attempt[c]>>
    IN IF CachedFor(KeyOf[c]) # {}
       THEN /\ \E n \in CachedFor(KeyOf[c]) : lease' = [lease EXCEPT ![c] = n]
            /\ task' = [task EXCEPT ![c] = "running"]
            /\ begun' = [begun EXCEPT ![ScopeOf[c]] = @ + 1]
            /\ UNCHANGED client
       ELSE \E evicted \in SUBSET Cached :
              /\ Evict(evicted)
              /\ LET room == Cardinality(Cached \ evicted) < CacheSize
                     kept == [n \in Clients |-> IF n \in evicted THEN "closing" ELSE client[n]]
                 IN \/ /\ client' = [kept EXCEPT ![new] = IF room THEN "cached" ELSE "detached"]
                       /\ lease' = [lease EXCEPT ![c] = new]
                       /\ task' = [task EXCEPT ![c] = "running"]
                       /\ begun' = [begun EXCEPT ![ScopeOf[c]] = @ + 1]
                    \/ /\ client' = kept
                       /\ task' = [task EXCEPT ![c] = "fatal"]
                       /\ UNCHANGED <<lease, begun>>

-----------------------------------------------------------------------------
(* Provider tasks, and the closes of clients.                               *)

\* The task's first step, up to the first await of the adapter.
ProviderBegins(c) ==
    /\ task[c] = "created"
    /\ ~asked[c]
    /\ IF EnsureOpen
       THEN GetClient(c)
       ELSE /\ task' = [task EXCEPT ![c] = IF closing # "open" THEN "routerClosed" ELSE "fatal"]
            /\ UNCHANGED <<client, lease, begun>>
    /\ UNCHANGED <<setup, ledger, callVars, asked, unresolved, closeVars>>

\* The task ends, with CancelledError only if it was cancelled.  Nobody awaits
\* one that was given up: its callbacks release the client and forget it.
ProviderEnds(c) ==
    /\ \/ task[c] = "running"
       \/ task[c] = "created" /\ asked[c]
    /\ IF pc[c] \in Attempting
       THEN /\ \E r \in {"response", "transient", "fatal", "cancelled"} :
                 /\ r = "cancelled" => asked[c]
                 /\ task[c] = "created" => r = "cancelled"
                 /\ task' = [task EXCEPT ![c] = r]
            /\ UNCHANGED <<asked, lease, client>>
       ELSE Release(c) /\ Consume(c)
    /\ unresolved' = unresolved \ {c}
    /\ UNCHANGED <<setup, ledger, callVars, closeVars, begun>>

\* A close ends.  One of _run_scheduled_client_close may instead outlive its
\* bounds, and is unresolved until it ends after all.
ClientCloses(n) ==
    /\ \/ client[n] \in {"closing", "stuck"} /\ client' = [client EXCEPT ![n] = "none"]
       \/ /\ client[n] = "closing"
          /\ ~(closing = "clients" /\ n \in closeTodo)
          /\ client' = [client EXCEPT ![n] = "stuck"]
    /\ UNCHANGED <<setup, ledger, callVars, taskVars, closeVars, begun>>

-----------------------------------------------------------------------------
(* Calls.                                                                   *)

\* _complete checks before it queues for the semaphore.
Start(c) ==
    /\ pc[c] = "idle"
    /\ pc' = [pc EXCEPT ![c] = IF EnsureOpen THEN "queued" ELSE "failed"]
    /\ UNCHANGED <<setup, ledger, attempt, deadline, interrupted, taskVars, client, closeVars, begun>>

\* Mutant: a call that has ended keeps its permit.
HoldingForever == {c \in Calls : pc[c] \notin {"idle", "queued"}}

\* The calls inside "async with" of the semaphore.
Holding == {c \in Calls : pc[c] \in Attempting \cup {"backoff"}}

\* The top of the retry loop, with a permit: reserve, then create the task.
\* Neither error of this stretch is retried.
BeginAttempt(c) ==
    /\ \/ pc[c] = "queued" /\ Cardinality(Holding) < setup.permits
       \/ pc[c] = "backoff"
    /\ \/ /\ ~EnsureOpen
          /\ pc' = [pc EXCEPT ![c] = "failed"]
          /\ UNCHANGED <<ledger, attempt, deadline, interrupted, task, asked, begun>>
       \/ /\ EnsureOpen
          /\ \E gone \in SUBSET Prunable(ledger) :
               LET l == Pruned(ledger, gone)
                   fresh == ScopeOf[c] \notin DOMAIN l.scopes
               IN IF Admits(l, ScopeOf[c], BudgetOf[c], setup)
                  THEN /\ ledger' = Reserve(l, c, ScopeOf[c], BudgetOf[c])
                       /\ pc' = [pc EXCEPT ![c] = "attempt"]
                       /\ attempt' = [attempt EXCEPT ![c] = @ + 1]
                       /\ deadline' = [deadline EXCEPT ![c] = FALSE]
                       /\ interrupted' = [interrupted EXCEPT ![c] = FALSE]
                       /\ task' = [task EXCEPT ![c] = "created"]
                       /\ asked' = [asked EXCEPT ![c] = FALSE]
                       /\ begun' = IF fresh THEN [begun EXCEPT ![ScopeOf[c]] = 0] ELSE begun
                  ELSE /\ ledger' = l
                       /\ pc' = [pc EXCEPT ![c] = "failed"]
                       /\ UNCHANGED <<attempt, deadline, interrupted, task, asked, begun>>
    /\ UNCHANGED <<setup, lease, unresolved, client, closeVars>>

\* Mutant: an attempt that was cancelled gives its reservation back.
SettleUncharged(c, r) ==
    ledger' = IF r \in {"routerClosed", "cancelled"}
              THEN Cancel(ledger, c)
              ELSE Record(ledger, c, NotReported, setup)

\* _finalize_budget_failure of an attempt that failed with r: once the
\* transport was started it is charged, with usage unknown.
Settle(c, r) ==
    ledger' = IF r = "routerClosed"
              THEN Cancel(ledger, c)
              ELSE Record(ledger, c, NotReported, setup)

\* What a failed attempt leads to: a transient error is retried while it can be.
Failed(c, transient) ==
    IF transient /\ attempt[c] < setup.retries THEN "backoff" ELSE "failed"

\* The attempt's task is done: release the client, settle, and end or retry.
TakeResult(c) ==
    /\ pc[c] = "attempt"
    /\ task[c] \in Ended
    /\ Release(c)
    /\ \/ /\ task[c] = "response"
          /\ \E u \in Usages :
               /\ ledger' = Record(ledger, c, u, setup)
               /\ pc' = [pc EXCEPT ![c] =
                           IF Accepts(ledger, c, u, setup) THEN "returned" ELSE "failed"]
       \/ /\ task[c] # "response"
          /\ Settle(c, task[c])
          /\ pc' = [pc EXCEPT ![c] = IF task[c] = "cancelled" THEN "cancelled"
                                     ELSE Failed(c, task[c] = "transient")]
    /\ Consume(c)
    /\ UNCHANGED <<setup, attempt, deadline, interrupted, unresolved, closeVars, begun>>

\* The attempt's wall-clock deadline: the task is cancelled, within a grace.
DeadlinePasses(c) ==
    /\ pc[c] = "attempt"
    /\ Alive(c)
    /\ pc' = [pc EXCEPT ![c] = "grace"]
    /\ deadline' = [deadline EXCEPT ![c] = TRUE]
    /\ asked' = [asked EXCEPT ![c] = TRUE]
    /\ UNCHANGED <<setup, ledger, attempt, interrupted, task, lease, unresolved, client, closeVars, begun>>

\* The caller cancels the call, at each of its awaits.  In the grace the
\* cancellation is noted and the wait goes on.
CallerCancels(c) ==
    \/ /\ pc[c] \in {"queued", "backoff"}
       /\ pc' = [pc EXCEPT ![c] = "cancelled"]
       /\ UNCHANGED <<setup, ledger, attempt, deadline, interrupted, taskVars, client, closeVars, begun>>
    \/ /\ pc[c] = "attempt"
       /\ Alive(c)
       /\ pc' = [pc EXCEPT ![c] = "grace"]
       /\ asked' = [asked EXCEPT ![c] = TRUE]
       /\ UNCHANGED <<setup, ledger, attempt, deadline, interrupted, task, lease, unresolved, client, closeVars, begun>>
    \/ /\ pc[c] = "attempt"
       /\ ~Alive(c)
       /\ Settle(c, "cancelled")
       /\ Release(c)
       /\ pc' = [pc EXCEPT ![c] = "cancelled"]
       /\ Consume(c)
       /\ UNCHANGED <<setup, attempt, deadline, interrupted, unresolved, closeVars, begun>>
    \/ /\ pc[c] = "grace"
       /\ ~interrupted[c]
       /\ interrupted' = [interrupted EXCEPT ![c] = TRUE]
       /\ UNCHANGED <<setup, ledger, pc, attempt, deadline, taskVars, client, closeVars, begun>>

\* _track_unresolved_call
Track(c) == unresolved' = unresolved \cup (IF Alive(c) THEN {c} ELSE {})

\* The grace is over, or the task has ended in it.  A task still running keeps
\* its client until it ends.
GraceEnds(c) ==
    /\ pc[c] = "grace"
    /\ Track(c)
    /\ Settle(c, "cancelled")
    /\ pc' = [pc EXCEPT ![c] =
                IF ~deadline[c] \/ interrupted[c] THEN "cancelled"
                ELSE Failed(c, ~Alive(c))]
    /\ IF Alive(c)
       THEN UNCHANGED <<task, asked, lease, client>>
       ELSE Release(c) /\ Consume(c)
    /\ deadline' = [deadline EXCEPT ![c] = FALSE]
    /\ interrupted' = [interrupted EXCEPT ![c] = FALSE]
    /\ UNCHANGED <<setup, attempt, closeVars, begun>>

-----------------------------------------------------------------------------
(* Rooms and runs open and close their scopes.                              *)

Registers(s, closed) ==
    /\ \E gone \in IF s \in DOMAIN ledger.scopes THEN {{}} ELSE SUBSET Prunable(ledger) :
         LET l == Pruned(ledger, gone)
         IN ledger' = IF closed THEN CloseScope(l, s) ELSE Register(l, s)
    /\ begun' = IF s \in DOMAIN ledger.scopes THEN begun ELSE [begun EXCEPT ![s] = 0]
    /\ UNCHANGED <<setup, callVars, taskVars, client, closeVars>>

RoomOpens(s) == s \notin DOMAIN ledger.scopes /\ Registers(s, FALSE)
RoomCloses(s) == ~Account(ledger, s).closed /\ Registers(s, TRUE)

-----------------------------------------------------------------------------
(* aclose.  The waits for provider tasks put a cancellation off; the waits  *)
(* for the closes of clients do not.                                        *)

\* The end: whatever remains is a failure.
CloseEnds(failed, left, clients) ==
    /\ closing' = IF closeCancelled THEN "cancelled"
                  ELSE IF failed \/ left # {} \/ \E n \in Clients : clients[n] = "stuck"
                  THEN "failed" ELSE "clean"
    /\ closeTodo' = {}
    /\ closeFailed' = failed

\* _drain_scheduled_client_closes: wait for the closes under way, if any.
Drain(failed, left, clients) ==
    LET scheduled == {n \in Clients : clients[n] = "closing"}
    IN IF scheduled = {}
       THEN CloseEnds(failed, left, clients)
       ELSE closing' = "drain" /\ closeTodo' = scheduled /\ closeFailed' = failed

\* The clients aclose may close: those without a lease.
Closable(n) == client[n] \in {"cached", "detached"} /\ Leases(n) = {}

\* The maps are cleared; idle clients are closed, the others left to their leases.
CloseClients(failed, left) ==
    LET mine == {n \in Clients : Closable(n)}
    IN /\ client' = [n \in Clients |->
                       IF n \in mine THEN "closing"
                       ELSE IF client[n] = "cached" THEN "detached" ELSE client[n]]
       /\ IF mine = {}
          THEN Drain(failed, left, client')
          ELSE closing' = "clients" /\ closeTodo' = mine /\ closeFailed' = failed

\* The tasks that are unresolved by now are cancelled once more.
Reclaim(left) ==
    LET stuck == {n \in Clients : client[n] = "stuck"}
    IN /\ unresolved' = left
       /\ IF left \cup stuck = {}
          THEN CloseClients(FALSE, {}) /\ UNCHANGED asked
          ELSE /\ closing' = "left"
               /\ closeTodo' = left \cup stuck
               /\ asked' = [c \in Calls |-> asked[c] \/ c \in left]
               /\ UNCHANGED <<client, closeFailed>>

CloseBegins ==
    /\ closing = "open"
    /\ LET active == {c \in Calls : pc[c] \in Attempting /\ Alive(c)}
       IN IF active = {}
          THEN Reclaim(unresolved)
          ELSE /\ closing' = "active"
               /\ closeTodo' = active
               /\ asked' = [c \in Calls |-> asked[c] \/ c \in active]
               /\ UNCHANGED <<unresolved, client, closeFailed>>
    /\ UNCHANGED <<setup, ledger, callVars, task, lease, closeCancelled, begun>>

\* The grace for the active tasks is over, or they have all ended.
CloseActiveEnds ==
    /\ closing = "active"
    /\ Reclaim(unresolved \cup {c \in closeTodo : Alive(c)})
    /\ UNCHANGED <<setup, ledger, callVars, task, lease, closeCancelled, begun>>

\* The grace for the unresolved ones is over, or they have all ended.
CloseLeftEnds ==
    /\ closing = "left"
    /\ CloseClients(\/ \E c \in closeTodo \cap Calls : Alive(c)
                    \/ \E n \in closeTodo \cap Clients : client[n] = "stuck", unresolved)
    /\ UNCHANGED <<setup, ledger, callVars, taskVars, closeCancelled, begun>>

\* The closes that a wait for them gave up on at its deadline, and cancelled:
\* those that do not end for it are unresolved.
GivenUp(stuck) ==
    [n \in Clients |-> IF n \in stuck THEN "stuck"
                       ELSE IF n \in closeTodo /\ client[n] = "closing" THEN "none" ELSE client[n]]

\* A wait for closes ends when they have, or at its deadline.  A close that was
\* late is a failure, and so is one of aclose's own that raised.
CloseClientsEnd ==
    /\ closing \in {"clients", "drain"}
    /\ \E stuck \in SUBSET {n \in closeTodo : client[n] = "closing"} :
       \E failed \in BOOLEAN :
         LET late == \E n \in closeTodo : client[n] = "closing"
         IN /\ late => failed
            /\ closing = "drain" => failed = late
            /\ client' = GivenUp(stuck)
            /\ IF closing = "clients"
               THEN Drain(closeFailed \/ failed, unresolved, client')
               ELSE CloseEnds(closeFailed \/ failed, unresolved, client')
    /\ UNCHANGED <<setup, ledger, callVars, taskVars, closeCancelled, begun>>

CloseCancelled ==
    \/ /\ closing \in {"active", "left"}
       /\ ~closeCancelled
       /\ closeCancelled' = TRUE
       /\ UNCHANGED <<setup, ledger, callVars, taskVars, client, closing, closeTodo, closeFailed, begun>>
    \/ /\ closing \in {"clients", "drain"}
       /\ \E stuck \in SUBSET {n \in closeTodo : client[n] = "closing"} :
            client' = GivenUp(stuck)
       /\ closing' = "cancelled"
       /\ closeTodo' = {}
       /\ UNCHANGED <<setup, ledger, callVars, taskVars, closeFailed, closeCancelled, begun>>

-----------------------------------------------------------------------------
Resume(c) == BeginAttempt(c) \/ TakeResult(c) \/ DeadlinePasses(c) \/ GraceEnds(c)
Closes == CloseBegins \/ CloseActiveEnds \/ CloseLeftEnds \/ CloseClientsEnd \/ CloseCancelled

Next ==
    \/ \E c \in Calls : \/ Start(c) \/ Resume(c) \/ CallerCancels(c)
                        \/ ProviderBegins(c) \/ ProviderEnds(c)
    \/ \E n \in Clients : ClientCloses(n)
    \/ \E s \in Scopes : RoomOpens(s) \/ RoomCloses(s)
    \/ Closes

Spec == Init /\ [][Next]_vars

\* The event loop resumes a call whose permit, task or timer is ready.
FairSpec == Spec /\ \A c \in Calls : WF_vars(Resume(c))

-----------------------------------------------------------------------------
(* Properties.                                                              *)

OpenIn(s) == {c \in DOMAIN ledger.open : ledger.open[c].scope = s}

\* A reservation is open exactly while its attempt is under way, its scope is
\* then registered (the RuntimeError of _reservation_locked is never raised),
\* and the scopes count the open reservations.
ReservationsBalance ==
    /\ DOMAIN ledger.open = {c \in Calls : pc[c] \in Attempting}
    /\ \A c \in DOMAIN ledger.open : ledger.open[c].scope \in DOMAIN ledger.scopes
    /\ \A s \in DOMAIN ledger.scopes :
         ledger.scopes[s].reservedCalls = Cardinality(OpenIn(s))

\* Used and reserved calls together never pass the limit, and a scope whose
\* tokens have passed theirs is blocked.
LimitsHold ==
    \A s \in DOMAIN ledger.scopes :
      LET a == ledger.scopes[s]
      IN /\ Within(a.calls + a.reservedCalls, setup.calls)
         /\ ~Within(a.tokens, setup.tokens) => a.blocked

\* The budget of every scope, with whatever calls do to it (try_reserve, record).
BudgetIsKept == TypeOK /\ ReservationsBalance /\ LimitsHold

\* Every attempt that may have reached its provider is charged to its scope
\* or still has its reservation, however it ended (_finalize_budget_failure).
TransportIsCharged ==
    \A s \in DOMAIN ledger.scopes :
      begun[s] <= ledger.scopes[s].calls + ledger.scopes[s].reservedCalls

\* No client is closed under a provider task that runs with it, not even under
\* one the router has given up, and none is forgotten: a client outside of the
\* map is leased (_get_cached_client, _release_task_client_leases, aclose).
ClientsAreKept ==
    /\ \A c \in Calls : task[c] = "running" => client[lease[c]] \in {"cached", "detached"}
    /\ \A n \in Clients : client[n] = "detached" => Leases(n) # {}
    /\ closing # "open" => closing \in {"active", "left"} \/ Cached = {}
    /\ Cardinality(Cached) <= CacheSize

\* A call that gives up on a task frees its permit while the task runs on; the
\* pause of _ensure_open keeps the tasks within the semaphore's count all the same.
ConcurrencyIsKept == Cardinality({c \in Calls : Alive(c)}) <= setup.permits

\* A close that reports no failure leaves no provider task behind (aclose).
CleanCloseLeavesNoTask == closing = "clean" => \A c \in Calls : ~Alive(c)

\* Provider tasks outlive the calls that started them, but not unseen.
TasksAreAccountedFor == ConcurrencyIsKept /\ CleanCloseLeavesNoTask

\* Every call that begins also ends, though providers may never answer and
\* tasks may ignore cancellation (_await_provider_attempt).  A call begins once
\* here, so this is to say that again and again none is under way.
CallsEnd == []<>(\A c \in Calls : pc[c] \in {"idle"} \cup Over)

\* aclose, "close every SDK resource": when it returns normally each client
\* that was constructed has been closed.  It does not hold: aclose may return
\* while the client of a call that has just ended is still leased.
CloseClosesClients == closing = "clean" => \A n \in Clients : client[n] = "none"

=============================================================================
