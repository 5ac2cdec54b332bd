------------------------------ MODULE AgentActor ------------------------------
(***************************************************************************)
(* One seat's AgentActor (agent/actor.py) and the AgentSession it runs for *)
(* a request (agent/session.py).  Requests of the seat are served one at a *)
(* time behind a FIFO lock.  A human seat publishes the request and waits  *)
(* for an action of the page; a model seat runs a bounded loop of model    *)
(* turns and tool calls until a terminal tool succeeds.                    *)
(*                                                                         *)
(* One event loop: an action below is the code between two awaits.  Tool   *)
(* handlers are tasks of their own, and may ignore their cancellation.  A  *)
(* caller (DecisionRuntime's deadline, a room that is closed) may cancel   *)
(* the decision wherever it is suspended.                                  *)
(***************************************************************************)
EXTENDS Naturals, Sequences, FiniteSets, PrivateBeliefs, AgentHistory

CONSTANTS
    Requests,          \* the ActionRequests sent to this seat
    NoRequest,
    Kinds,             \* subset of {"human", "model"}: what may hold the seat
    RuntimeOwned,      \* requests with metadata deadline_owner = "decision_runtime"
    RequestPhase,      \* request -> request.phase, chosen by the orchestrator
    BoardPhase,        \* request -> state.phase while that request is open
    MaxInbox,          \* bound: actions waiting in the human queue
    MaxCancels,        \* bound: cancellations of one decision
    Usages,            \* token counts of a response
    Responses,         \* the model's answers: sequences of [id, kind]
    Patches,           \* the belief updates a model writes
    Knowledge,         \* the sets of seats whose role the seat may be shown
    MaxSteps, MaxGenerations, MaxToolCalls, MaxNoProgress, MaxTotalTokens,
    MaxResponseRetries \* AgentSessionLimits

\* A call whose arguments do not parse, one the registry refuses, and calls of
\* a tool that reads, that writes the seat's beliefs, or that ends the decision.
CallKinds == {"unparsed", "refused", "read", "cognition", "terminal"}

ASSUME ActorAssumption ==
    /\ NoRequest \notin Requests
    /\ Kinds \subseteq {"human", "model"}
    /\ RuntimeOwned \subseteq Requests
    /\ Knowledge \subseteq SUBSET Others
    /\ Usages \subseteq Nat
    /\ \A patch \in Patches : DOMAIN patch \subseteq Others /\ patch \in [DOMAIN patch -> 0..2]
    /\ \A response \in Responses :
          /\ response \in Seq(Ids(response))
          /\ \A i \in DOMAIN response : response[i].kind \in CallKinds
    /\ {MaxInbox, MaxCancels, MaxSteps, MaxGenerations, MaxToolCalls, MaxNoProgress,
        MaxTotalTokens, MaxResponseRetries} \subseteq Nat

VARIABLES
    kind,      \* is_human
    queue,     \* requests waiting for _decide_lock, in order
    deciding,  \* the request that holds the lock, or NoRequest
    at,        \* where its decision is suspended
    outcome,   \* request -> how its decide() ended
    cancels,   \* request -> cancellations so far
    asked,     \* current_human_request
    inbox,     \* human_queue: the request each accepted action was meant for
    page,      \* the request the seat's page shows
    answer,    \* request -> the request whose action it was decided by
    refused,   \* requests whose page's action was refused while they were asked
    budget,    \* the session's counters
    calls,     \* tool calls of the response still to run
    progress,  \* turn_had_progress
    seenIds,   \* _seen_call_ids
    history,   \* the session's messages
    terminal,  \* _terminal_submission is set
    result,    \* how session.run ended, while it is being closed
    handlers,  \* handler tasks that are not done: <<request, tool call number>>
    pending,   \* _unresolved_tool_tasks of the running session
    learned,   \* the facts (checked seats) the seat has been shown
    facts,     \* request -> the facts in its observation
    beliefs    \* private_state

seatVars    == <<kind, queue, deciding, at, outcome, cancels>>
humanVars   == <<asked, inbox, page, answer, refused>>
sessionVars == <<budget, calls, progress, seenIds, history, terminal, result>>
toolVars    == <<handlers, pending>>
stateVars   == <<learned, facts, beliefs>>
vars == <<seatVars, humanVars, sessionVars, toolVars, stateVars>>

\* Where a decision is suspended (or, at "head" and "calls", what the loop does next).
Suspended == {"asking", "human", "expiring", "model", "sleep", "tool", "grace",
              "cancelgrace", "closing"}
Places    == Suspended \cup {"idle", "head", "calls"}

FreshBudget == [steps |-> 0, generations |-> 0, retries |-> 0, tokens |-> 0,
                noProgress |-> 0, toolCalls |-> 0]

Init ==
    /\ kind \in Kinds
    /\ queue = <<>> /\ deciding = NoRequest /\ at = "idle"
    /\ outcome = [r \in Requests |-> "new"]
    /\ cancels = [r \in Requests |-> 0]
    /\ asked = NoRequest /\ inbox = <<>> /\ page = NoRequest
    /\ answer = [r \in Requests |-> NoRequest] /\ refused = {}
    /\ budget = FreshBudget /\ calls = <<>> /\ progress = FALSE /\ seenIds = {}
    /\ history = <<>> /\ terminal = FALSE /\ result = "none"
    /\ handlers = {} /\ pending = {}
    /\ learned = {} /\ facts = [r \in Requests |-> {}] /\ beliefs = Uninformed

-------------------------------------------------------------------------------
\* The seat's lock.

\* The orchestrator projects an observation and calls decide(): the request
\* queues for the lock.  The seat may have learned the role of checked seats.
Submit(r) ==
    /\ outcome[r] = "new"
    /\ \E known \in Knowledge :
          /\ learned \subseteq known
          /\ learned' = known
          /\ facts' = [facts EXCEPT ![r] = known]
    /\ outcome' = [outcome EXCEPT ![r] = "waiting"]
    /\ queue' = Append(queue, r)
    /\ UNCHANGED <<kind, deciding, at, cancels, humanVars, sessionVars, toolVars, beliefs>>

\* The decision of r leaves the lock with an outcome.
Leave(r, how) ==
    /\ outcome' = [outcome EXCEPT ![r] = how]
    /\ deciding' = NoRequest
    /\ at' = "idle"

\* _decide_serial: the lock is taken; a request of another seat, of an unknown
\* kind or with another seat's observation is refused before anything starts.
Reject(r) ==
    /\ deciding = NoRequest /\ queue # <<>> /\ r = Head(queue)
    /\ queue' = Tail(queue)
    /\ outcome' = [outcome EXCEPT ![r] = "failed"]
    /\ UNCHANGED <<kind, deciding, at, cancels, humanVars, sessionVars, toolVars, stateVars>>

\* Mutant: the actions that were waiting are kept.
KeptInbox == inbox

\* _clear_human_queue.
ClearedInbox == <<>>

\* _decide_human_request: old actions are dropped, the request is the one
\* asked, and its publication is awaited.
AskHuman(r) ==
    /\ kind = "human"
    /\ deciding = NoRequest /\ queue # <<>> /\ r = Head(queue)
    /\ queue' = Tail(queue)
    /\ deciding' = r
    /\ inbox' = ClearedInbox
    /\ asked' = r
    /\ at' = "asking"
    /\ UNCHANGED <<kind, outcome, cancels, page, answer, refused, sessionVars, toolVars, stateVars>>

\* _decide_with_tool_loop: a session of its own, with fresh budgets.
StartSession(r) ==
    /\ kind = "model"
    /\ deciding = NoRequest /\ queue # <<>> /\ r = Head(queue)
    /\ queue' = Tail(queue)
    /\ deciding' = r
    /\ history' = <<UserMessage>>
    /\ pending' = {}
    /\ at' = "head"
    /\ UNCHANGED <<kind, outcome, cancels, humanVars, budget, calls, progress, seenIds, terminal,
                   result, handlers, stateVars>>

-------------------------------------------------------------------------------
\* The human seat.

\* on_human_request returns: the page shows the request (unless it is gone).
Published(shown) ==
    /\ at = "asking"
    /\ at' = "human"
    /\ page' = IF shown THEN deciding ELSE page
    /\ UNCHANGED <<kind, queue, deciding, outcome, cancels, asked, inbox, answer, refused,
                   sessionVars, toolVars, stateVars>>

\* on_human_request raises: outside the try, the request stays the one asked.
PublishFails ==
    /\ at = "asking"
    /\ Leave(deciding, "failed")
    /\ UNCHANGED <<kind, queue, cancels, humanVars, sessionVars, toolVars, stateVars>>

\* enqueue_human_action with a valid payload for the request asked.
Enqueue ==
    /\ asked # NoRequest /\ Len(inbox) < MaxInbox
    /\ inbox' = Append(inbox, asked)
    /\ UNCHANGED <<seatVars, asked, page, answer, refused, sessionVars, toolVars, stateVars>>

\* The page answers the request it shows with the phase it was told, which
\* Orchestrator._on_human_request set to the board's.  _validate_human_action
\* compares it with the phase of the request.  Either way the page closes it.
PageAnswers ==
    /\ page # NoRequest
    /\ LET valid == asked = page /\ BoardPhase[page] = RequestPhase[page]
       IN  /\ valid => Len(inbox) < MaxInbox
           /\ inbox' = IF valid THEN Append(inbox, asked) ELSE inbox
           /\ refused' = IF asked = page /\ ~valid THEN refused \cup {page} ELSE refused
    /\ page' = NoRequest
    /\ UNCHANGED <<seatVars, asked, answer, sessionVars, toolVars, stateVars>>

\* The queue yields the first action: the request is no longer asked.
TakeAction ==
    /\ at = "human" /\ inbox # <<>>
    /\ answer' = [answer EXCEPT ![deciding] = Head(inbox)]
    /\ inbox' = Tail(inbox)
    /\ asked' = NoRequest
    /\ Leave(deciding, "decision")
    /\ UNCHANGED <<kind, queue, cancels, page, refused, sessionVars, toolVars, stateVars>>

\* The action taken does not map to a decision: its name was accepted without
\* regard to case (_validate_human_action), and is looked up as it was sent.
UnmappedAction ==
    /\ at = "human" /\ inbox # <<>>
    /\ inbox' = Tail(inbox)
    /\ asked' = NoRequest
    /\ Leave(deciding, "failed")
    /\ UNCHANGED <<kind, queue, cancels, page, answer, refused, sessionVars, toolVars, stateVars>>

\* Mutant: it is left to the runtime, which keeps none.
NobodyOwnsDeadline(r) == FALSE

\* Requests whose time limit the actor keeps itself (HUMAN_TIMEOUT).
ActorOwnsDeadline(r) == r \notin RuntimeOwned

\* wait_for expires (requests whose deadline the actor owns): the expiry is
\* published before the finally clears the request.
HumanTimeout ==
    /\ at = "human" /\ ActorOwnsDeadline(deciding)
    /\ at' = "expiring"
    /\ UNCHANGED <<kind, queue, deciding, outcome, cancels, humanVars, sessionVars, toolVars, stateVars>>

Expired ==
    /\ at = "expiring"
    /\ asked' = NoRequest
    /\ page' = IF page = deciding THEN NoRequest ELSE page
    /\ Leave(deciding, "failed")
    /\ UNCHANGED <<kind, queue, cancels, inbox, answer, refused, sessionVars, toolVars, stateVars>>

-------------------------------------------------------------------------------
\* The session loop.

\* Mutant: a handler that outlived its call's grace period is not looked at.
AliveInTime(r) == {h \in handlers \ pending : h[1] = r}

\* The handler tasks of request r that are not done.
Alive(r) == {h \in handlers : h[1] = r}

\* The session of a decision that left the lock.
NoRun ==
    /\ budget' = FreshBudget /\ calls' = <<>> /\ progress' = FALSE /\ seenIds' = {}
    /\ history' = <<>> /\ terminal' = FALSE /\ result' = "none"

\* session.run returned how, and its counters and history are of no more use;
\* aclose has handlers to reclaim or not.
EndRun(how) ==
    IF Alive(deciding) = {}
    THEN Leave(deciding, how) /\ NoRun
    ELSE /\ at' = "closing" /\ result' = how
         /\ budget' = FreshBudget /\ calls' = <<>> /\ progress' = FALSE /\ seenIds' = {}
         /\ history' = <<>> /\ terminal' = FALSE
         /\ UNCHANGED <<outcome, deciding>>

\* _exhausted_budget_code: what blocks another model turn.
BudgetExhausted ==
    \/ budget.steps >= MaxSteps
    \/ budget.noProgress >= MaxNoProgress
    \/ budget.generations >= MaxGenerations
    \/ budget.tokens >= MaxTotalTokens

GiveUp ==
    /\ at = "head" /\ BudgetExhausted
    /\ EndRun("failed")
    /\ UNCHANGED <<kind, queue, cancels, humanVars, toolVars, stateVars>>

\* A step begins and its first model turn is requested.
BeginStep ==
    /\ at = "head" /\ ~BudgetExhausted
    /\ budget' = [budget EXCEPT !.steps = @ + 1, !.generations = @ + 1, !.retries = 0]
    /\ at' = "model"
    /\ UNCHANGED <<kind, queue, deciding, outcome, cancels, humanVars, calls, progress, seenIds,
                   history, terminal, result, toolVars, stateVars>>

\* The turn fails: at its deadline, by an error that is not the response's, or
\* by a bad response with no retry or generation left.
TurnFails ==
    /\ at = "model"
    /\ EndRun("failed")
    /\ UNCHANGED <<kind, queue, cancels, humanVars, toolVars, stateVars>>

\* A bad response is asked for again after a pause.
BadResponse ==
    /\ at = "model"
    /\ budget.retries < MaxResponseRetries /\ budget.generations < MaxGenerations
    /\ budget' = [budget EXCEPT !.retries = @ + 1]
    /\ at' = "sleep"
    /\ UNCHANGED <<kind, queue, deciding, outcome, cancels, humanVars, calls, progress, seenIds,
                   history, terminal, result, toolVars, stateVars>>

RetryTurn ==
    /\ at = "sleep"
    /\ budget' = [budget EXCEPT !.generations = @ + 1]
    /\ at' = "model"
    /\ UNCHANGED <<kind, queue, deciding, outcome, cancels, humanVars, calls, progress, seenIds,
                   history, terminal, result, toolVars, stateVars>>

\* The response has spent the session's tokens: nothing of it is run.
TokensSpent(tokens) ==
    /\ at = "model" /\ budget.tokens + tokens > MaxTotalTokens
    /\ EndRun("failed")
    /\ UNCHANGED <<kind, queue, cancels, humanVars, toolVars, stateVars>>

\* A response without tool calls: the model is told to use a terminal tool.
NoCalls(tokens) ==
    /\ at = "model" /\ budget.tokens + tokens <= MaxTotalTokens
    /\ budget' = [budget EXCEPT !.tokens = @ + tokens, !.noProgress = @ + 1]
    /\ history' = history \o <<AssistantMessage(<<>>), UserMessage>>
    /\ at' = "head"
    /\ UNCHANGED <<kind, queue, deciding, outcome, cancels, humanVars, calls, progress, seenIds,
                   terminal, result, toolVars, stateVars>>

TurnCalls(response, tokens) ==
    /\ at = "model" /\ budget.tokens + tokens <= MaxTotalTokens
    /\ budget' = [budget EXCEPT !.tokens = @ + tokens]
    /\ history' = Append(history, AssistantMessage([i \in DOMAIN response |-> response[i].id]))
    /\ calls' = response
    /\ progress' = FALSE
    /\ at' = "calls"
    /\ UNCHANGED <<kind, queue, deciding, outcome, cancels, humanVars, seenIds, terminal, result,
                   toolVars, stateVars>>

CallsExhausted ==
    /\ at = "calls" /\ calls # <<>> /\ budget.toolCalls >= MaxToolCalls
    /\ EndRun("failed")
    /\ UNCHANGED <<kind, queue, cancels, humanVars, toolVars, stateVars>>

\* A call that reaches no handler: its arguments do not parse, its id was used,
\* or the registry refuses it (unknown tool, invalid or identity arguments, a
\* target that is not legal).
BadCall ==
    LET call == Head(calls) IN
    /\ at = "calls" /\ calls # <<>> /\ budget.toolCalls < MaxToolCalls
    /\ call.kind \in {"unparsed", "refused"} \/ call.id \in seenIds
    /\ budget' = [budget EXCEPT !.toolCalls = @ + 1]
    /\ seenIds' = IF call.kind = "unparsed" THEN seenIds ELSE seenIds \cup {call.id}
    /\ history' = Append(history, ToolMessage(call.id, FALSE))
    /\ calls' = Tail(calls)
    /\ UNCHANGED <<seatVars, humanVars, progress, terminal, result, toolVars, stateVars>>

\* ToolRegistry.execute runs the handler as a task with a time limit.
StartTool ==
    LET call == Head(calls) IN
    /\ at = "calls" /\ calls # <<>> /\ budget.toolCalls < MaxToolCalls
    /\ call.kind \in {"read", "cognition", "terminal"} /\ call.id \notin seenIds
    /\ budget' = [budget EXCEPT !.toolCalls = @ + 1]
    /\ seenIds' = seenIds \cup {call.id}
    /\ handlers' = handlers \cup {<<deciding, budget'.toolCalls>>}
    /\ at' = "tool"
    /\ UNCHANGED <<kind, queue, deciding, outcome, cancels, humanVars, calls, progress, history,
                   terminal, result, pending, stateVars>>

\* The handler of the call that is running.
Current == <<deciding, budget.toolCalls>>

\* A successful terminal call ends the response, whatever calls follow it.
CallsAfter(ok) == IF ok /\ Head(calls).kind = "terminal" THEN <<>> ELSE Tail(calls)

\* The result of the call goes to the history.
ToolResult(ok) ==
    /\ history' = Append(history, ToolMessage(Head(calls).id, ok))
    /\ progress' = (progress \/ ok)
    /\ terminal' = (terminal \/ (ok /\ Head(calls).kind = "terminal"))
    /\ calls' = CallsAfter(ok)
    /\ at' = "calls"
    /\ UNCHANGED <<kind, queue, deciding, outcome, cancels, humanVars, budget, seenIds, result>>

\* A handler that changes no belief returns, or any handler raises: a terminal
\* decision that is missing or not legal is an error too.
ToolReturns(ok) ==
    /\ at = "tool"
    /\ ok => Head(calls).kind # "cognition"
    /\ handlers' = handlers \ {Current}
    /\ ToolResult(ok)
    /\ UNCHANGED <<pending, stateVars>>

\* The handlers of update_private_state and of update_beliefs: the facts that
\* count are those of the request's observation.
Revise(belief) ==
    /\ at = "tool" /\ Head(calls).kind = "cognition"
    /\ beliefs' = belief
    /\ handlers' = handlers \ {Current}
    /\ ToolResult(TRUE)
    /\ UNCHANGED <<pending, learned, facts>>

UpdatePrivateState(patch) == Revise(ModelUpdate(beliefs, patch, facts[deciding]))

UpdateBeliefs(patch) ==
    /\ at = "tool"
    /\ ~Contradicts(patch, facts[deciding])
    /\ Revise(BeliefsUpdate(beliefs, patch, facts[deciding]))

\* The limit passes: the handler is cancelled and given a grace period.
ToolTimesOut ==
    /\ at = "tool"
    /\ at' = "grace"
    /\ UNCHANGED <<kind, queue, deciding, outcome, cancels, humanVars, sessionVars, toolVars, stateVars>>

\* It ends within the grace period, or is left behind; the call failed either way.
ToolGraceEnds ==
    /\ at = "grace"
    /\ \/ handlers' = handlers \ {Current} /\ UNCHANGED pending
       \/ pending' = pending \cup {Current} /\ UNCHANGED handlers
    /\ ToolResult(FALSE)
    /\ UNCHANGED stateVars

\* All calls of the response have results: another step, or the end of the run.
TurnEnds ==
    /\ at = "calls" /\ calls = <<>>
    /\ IF terminal
       THEN EndRun(IF pending # {} THEN "failed" ELSE "decision")
       ELSE /\ budget' = [budget EXCEPT !.noProgress = IF progress THEN 0 ELSE @ + 1]
            /\ at' = "head"
            /\ UNCHANGED <<outcome, deciding, calls, progress, seenIds, history, terminal, result>>
    /\ UNCHANGED <<kind, queue, cancels, humanVars, toolVars, stateVars>>

\* _forget_tool_task.
Forgotten(h) == pending \ {h}

\* A handler that was left behind ends by itself or by its cancellation.
HandlerEnds(h) ==
    /\ h \in handlers
    /\ at \in {"tool", "grace"} => h # Current
    /\ handlers' = handlers \ {h}
    /\ pending' = Forgotten(h)
    /\ UNCHANGED <<seatVars, humanVars, sessionVars, stateVars>>

-------------------------------------------------------------------------------
\* The end of a decision.

\* aclose: every handler it cancelled is done.
CloseClean ==
    /\ at = "closing" /\ Alive(deciding) = {}
    /\ Leave(deciding, result)
    /\ NoRun
    /\ UNCHANGED <<kind, queue, cancels, humanVars, toolVars, stateVars>>

\* The grace period passes and one is not: a failure of its own, which is only
\* logged when the decision was cancelled.
CloseGraceEnds ==
    /\ at = "closing" /\ Alive(deciding) # {}
    /\ Leave(deciding, IF result = "cancelled" THEN "cancelled" ELSE "cleanup")
    /\ NoRun
    /\ UNCHANGED <<kind, queue, cancels, humanVars, toolVars, stateVars>>

\* A cancelled request leaves the lock's queue.
CancelWaiting(r) ==
    /\ outcome[r] = "waiting" /\ deciding # r /\ cancels[r] < MaxCancels
    /\ cancels' = [cancels EXCEPT ![r] = @ + 1]
    /\ \E p \in DOMAIN queue :
          /\ queue[p] = r
          /\ queue' = [i \in 1..(Len(queue) - 1) |-> queue[IF i < p THEN i ELSE i + 1]]
    /\ outcome' = [outcome EXCEPT ![r] = "cancelled"]
    /\ UNCHANGED <<kind, deciding, at, humanVars, sessionVars, toolVars, stateVars>>

CanCancel ==
    /\ deciding # NoRequest /\ at \in Suspended
    /\ cancels[deciding] < MaxCancels

\* A human request is cancelled.  DecisionRuntime publishes the expiry of a
\* request whose deadline it owns.  While the request is being published no
\* finally clears it.
CancelHuman ==
    /\ CanCancel /\ at \in {"asking", "human", "expiring"}
    /\ cancels' = [cancels EXCEPT ![deciding] = @ + 1]
    /\ asked' = IF at = "asking" THEN asked ELSE NoRequest
    /\ page' = IF page = deciding THEN NoRequest ELSE page
    /\ Leave(deciding, "cancelled")
    /\ UNCHANGED <<kind, queue, inbox, answer, refused, sessionVars, toolVars, stateVars>>

\* A model turn, a pause or the closing of a session is cancelled; a
\* cancellation that finds the session closing abandons the wait.
CancelSession ==
    /\ CanCancel /\ at \in {"model", "sleep", "cancelgrace", "closing"}
    /\ cancels' = [cancels EXCEPT ![deciding] = @ + 1]
    /\ IF at = "closing"
       THEN Leave(deciding, "cancelled") /\ NoRun
       ELSE EndRun("cancelled")
    /\ UNCHANGED <<kind, queue, humanVars, toolVars, stateVars>>

\* A tool call is cancelled: its handler is cancelled and given a grace period.
CancelTool ==
    /\ CanCancel /\ at \in {"tool", "grace"}
    /\ cancels' = [cancels EXCEPT ![deciding] = @ + 1]
    /\ at' = "cancelgrace"
    /\ UNCHANGED <<kind, queue, deciding, outcome, humanVars, sessionVars, toolVars, stateVars>>

CancelGraceEnds ==
    /\ at = "cancelgrace"
    /\ pending' = IF Current \in handlers THEN pending \cup {Current} ELSE pending
    /\ EndRun("cancelled")
    /\ UNCHANGED <<kind, queue, cancels, humanVars, handlers, stateVars>>

-------------------------------------------------------------------------------
HumanNext ==
    \/ \E r \in Requests : AskHuman(r)
    \/ \E shown \in BOOLEAN : Published(shown)
    \/ PublishFails \/ Enqueue \/ PageAnswers \/ TakeAction \/ UnmappedAction
    \/ HumanTimeout \/ Expired \/ CancelHuman

SessionNext ==
    \/ \E r \in Requests : StartSession(r)
    \/ GiveUp \/ BeginStep \/ TurnFails \/ BadResponse \/ RetryTurn
    \/ \E tokens \in Usages :
          \/ TokensSpent(tokens) \/ NoCalls(tokens)
          \/ \E response \in Responses : TurnCalls(response, tokens)
    \/ CallsExhausted \/ BadCall \/ StartTool
    \/ \E ok \in BOOLEAN : ToolReturns(ok)
    \/ \E patch \in Patches : UpdatePrivateState(patch) \/ UpdateBeliefs(patch)
    \/ ToolTimesOut \/ ToolGraceEnds \/ TurnEnds
    \/ \E h \in handlers : HandlerEnds(h)
    \/ CloseClean \/ CloseGraceEnds
    \/ CancelSession \/ CancelTool \/ CancelGraceEnds

Next ==
    \/ \E r \in Requests : Submit(r) \/ Reject(r) \/ CancelWaiting(r)
    \/ HumanNext
    \/ SessionNext

Spec == Init /\ [][Next]_vars

\* The event loop runs what is ready; the provider's turn, a tool call, a
\* grace period and a human's wait all end (each has a time limit: the
\* request's deadline, max_tool_time_seconds, the 0.25 s grace, HUMAN_TIMEOUT
\* or the deadline the runtime owns).  Nothing is assumed of a handler that
\* was left behind, of the human, or of cancellations in general.
ServeNext ==
    \/ \E r \in Requests : AskHuman(r) \/ StartSession(r) \/ Reject(r)
    \/ \E shown \in BOOLEAN : Published(shown)
    \/ HumanTimeout \/ Expired
    \/ GiveUp \/ BeginStep \/ TurnFails \/ RetryTurn
    \/ CallsExhausted \/ BadCall \/ StartTool \/ ToolTimesOut \/ ToolGraceEnds \/ TurnEnds
    \/ CloseClean \/ CloseGraceEnds \/ CancelGraceEnds

RuntimeDeadline == at = "human" /\ deciding \in RuntimeOwned /\ CancelHuman

FairSpec == Spec /\ WF_vars(ServeNext) /\ WF_vars(RuntimeDeadline)

-------------------------------------------------------------------------------
TypeOK ==
    /\ kind \in {"human", "model"}
    /\ queue \in Seq(Requests)
    /\ deciding \in Requests \cup {NoRequest}
    /\ at \in Places
    /\ outcome \in [Requests -> {"new", "waiting", "decision", "failed", "cleanup", "cancelled"}]
    /\ cancels \in [Requests -> 0..MaxCancels]
    /\ asked \in Requests \cup {NoRequest} /\ page \in Requests \cup {NoRequest}
    /\ inbox \in Seq(Requests)
    /\ answer \in [Requests -> Requests \cup {NoRequest}]
    /\ refused \subseteq Requests
    /\ handlers \subseteq Requests \X Nat /\ pending \subseteq handlers
    /\ terminal \in BOOLEAN /\ progress \in BOOLEAN
    /\ result \in {"none", "decision", "failed", "cancelled"}
    /\ (at = "idle") = (deciding = NoRequest)

\* A request is decided only by an action that was accepted for it: an action
\* left in the queue by a request that timed out or was cancelled never
\* answers the next one (_clear_human_queue, enqueue_human_action).
HumanAnswersItsRequest ==
    /\ TypeOK
    /\ \A r \in Requests : kind = "human" /\ outcome[r] = "decision" => answer[r] = r

\* A tool handler that is still running belongs to the decision in progress,
\* or to one that was reported as failed to clean up or was cancelled: a
\* decision is never delivered while one of its handlers can still write the
\* seat's state (AgentSession.aclose, AgentToolCleanupFailure).
HasOwner(h) == h[1] = deciding \/ outcome[h[1]] \in {"cleanup", "cancelled"}

\* Whatever was compacted, each model turn is sent a history in which calls
\* and results are paired (_model_history_view).
ModelSeesPairedHistory == at = "model" => Paired(HistoryView(history))

\* No tool is started for a request that has its terminal action, has spent
\* its tokens, or no longer holds the seat.
NoToolAfterTheEnd ==
    [][\A h \in handlers' \ handlers :
          /\ ~terminal /\ budget.tokens <= MaxTotalTokens
          /\ deciding = h[1] /\ outcome[h[1]] = "waiting"]_vars

\* Tools run for a decision in progress, and only for it.
HandlersAreAccountedFor == [](\A h \in handlers : HasOwner(h)) /\ NoToolAfterTheEnd

\* Every update leaves the beliefs in agreement with the facts of its request
\* and with the number of wolves in the game, however many requests were
\* submitted with other facts before and since.
BeliefsFitFacts ==
    [][beliefs' # beliefs => Fits(beliefs', facts[deciding])]_vars

\* Every request that is sent ends, in the order the seat received them.
DecisionsEnd ==
    \A r \in Requests : (outcome[r] = "waiting") ~> (outcome[r] \notin {"new", "waiting"})

\* The action a page sends for the request that is asked is accepted: "The
\* runtime binds the submission to the pending request ID, phase, day, action
\* type and advertised targets" (docs/PROTOCOL.md:601).
PageCanAnswer == refused = {}
===============================================================================
