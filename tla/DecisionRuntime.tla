---------------------------- MODULE DecisionRuntime ----------------------------
(***************************************************************************)
(* The decision boundary of the harness (src/harness/decision_runtime.py): *)
(* concurrent calls of DecisionRuntime.execute, each owning an agent task  *)
(* and, after a deadline, a timeout-hook task.  A call is accepted, its     *)
(* agent decides, a deadline or an external cancellation may interrupt it, *)
(* interrupted tasks get two cancellations within one bounded grace, and   *)
(* the terminal row is committed in acceptance order.                      *)
(*                                                                         *)
(* One action is one uninterrupted run of event-loop code between awaits.  *)
(* Time is a choice: a deadline or a grace may end at any moment.          *)
(***************************************************************************)
EXTENDS Integers, Sequences, FiniteSets

CONSTANTS
    Calls,            \* concurrent or successive calls of execute
    Ids,              \* request_id values
    Deadlined,        \* the calls whose request carries a deadline
    Answers,          \* the ways decide() may end in an instance
    MaxSinkFailures   \* bound: how often the trace callback may raise

ASSUME DeadlinedAssumption == Deadlined \subseteq Calls
ASSUME SinkAssumption == MaxSinkFailures \in Nat

\* What a finished decide() task leaves: an envelope the validator accepts,
\* rejects or chokes on, a value of another type, an error, or CancelledError.
Verdicts == {"accepted", "rejected", "unvalidatable", "wrong_type", "raised", "cancelled"}
ASSUME AnswersAssumption == Answers \subseteq Verdicts

\* "done": finished, and its result consumed (or never to be read).
HookAnswers == {"ok", "raised"}
TaskStates == {"none", "running", "done"} \cup Verdicts \cup HookAnswers
TaskKinds == {"decide", "hook"}

\* The kinds of terminal rows.  "failed", "timeout" and "cleanup" are all
\* agent_response_failed rows: an error, a deadline, a deadline whose cleanup
\* failed (fatal_cleanup_failure).
TerminalKinds == {"accepted", "rejected", "validation_failed", "failed",
                  "timeout", "cleanup", "cancelled"}

\* How a call of execute ends: with the envelope, with a decision error, with
\* CancelledError, or with the exception of the trace callback.
Endings == {"answer", "error", "cancelled", "sink"}

VARIABLES
    pc,            \* where each call stands
    cancels,       \* task.cancel() calls made in the running _cancel_task
    interrupted,   \* the caller cancelled the call while it was waiting
    trouble,       \* cleanup_failures is not empty
    outcome,       \* what execute returned or raised to its caller
    task,          \* the decide and hook task of each call
    unresolved,    \* _unresolved_tasks: tasks that outlived their grace
    accepted,      \* _accepted_request_ids, in order of acceptance
    ticket,        \* _request_trace_sequence of each call's request, 0 for none
    buffer,        \* _terminal_trace_buffer
    next,          \* _next_terminal_trace_sequence
    rows,          \* the rows the trace callback stored
    sinkFailures,  \* how often the trace callback raised
    closing,       \* aclose: "open", "closing" or how it ended
    closeTodo      \* the snapshot of tasks aclose still has to cancel

callVars == <<pc, cancels, interrupted, trouble, outcome>>
taskVars == <<task, unresolved>>
logVars == <<accepted, ticket, buffer, next, rows, sinkFailures>>
closeVars == <<closing, closeTodo>>
vars == <<callVars, taskVars, logVars, closeVars>>

Waiting == {"deciding", "decideGrace", "hooking", "hookGrace"}
Terminals == [seq : Nat, id : Ids, kind : TerminalKinds]
Rows == [kind : TerminalKinds \cup {"request"}, id : Ids]

TypeOK ==
    /\ pc \in [Calls -> {"idle", "refused", "returned"} \cup Waiting]
    /\ cancels \in [Calls -> 0..2]
    /\ interrupted \in [Calls -> BOOLEAN]
    /\ trouble \in [Calls -> BOOLEAN]
    /\ outcome \in [Calls -> {"none"} \cup Endings]
    /\ task \in [Calls -> [TaskKinds -> TaskStates]]
    /\ unresolved \subseteq Calls \X TaskKinds
    /\ accepted \in Seq(Ids)
    /\ ticket \in [Calls -> Nat]
    /\ buffer \subseteq Terminals
    /\ next \in Nat
    /\ rows \in Seq(Rows)
    /\ sinkFailures \in 0..MaxSinkFailures
    /\ closing \in {"open", "closing", "clean", "failed", "cancelled"}
    /\ closeTodo \subseteq Calls \X TaskKinds

Init ==
    /\ pc = [c \in Calls |-> "idle"]
    /\ cancels = [c \in Calls |-> 0]
    /\ interrupted = [c \in Calls |-> FALSE]
    /\ trouble = [c \in Calls |-> FALSE]
    /\ outcome = [c \in Calls |-> "none"]
    /\ task = [c \in Calls |-> [k \in TaskKinds |-> "none"]]
    /\ unresolved = {}
    /\ accepted = <<>>
    /\ ticket = [c \in Calls |-> 0]
    /\ buffer = {}
    /\ next = 1
    /\ rows = <<>>
    /\ sinkFailures = 0
    /\ closing = "open"
    /\ closeTodo = {}

-----------------------------------------------------------------------------
(* Rows.                                                                    *)

Buffered(buf, n) == \E b \in buf : b.seq = n

\* The buffered terminals first..last, as the rows they are stored as.
Batch(buf, first, last) ==
    [i \in 1..(last - first + 1) |->
        LET b == CHOOSE t \in buf : t.seq = first + i - 1
        IN [kind |-> b.kind, id |-> b.id]]

\* last is the first number from first on that has no buffered terminal.
EndOfPrefix(buf, first, last) ==
    /\ ~Buffered(buf, last)
    /\ \A n \in first..(last - 1) : Buffered(buf, n)

\* Mutant: terminals are stored as they come, as if there were no buffer.
CommitAtOnce(base, seq, id, kind) ==
    /\ rows' = Append(base, [kind |-> kind, id |-> id])
    /\ next' = next + 1
    /\ UNCHANGED <<buffer, sinkFailures>>

\* _emit_terminal_trace: buffer the row of request id, then store every
\* terminal that continues the committed prefix.  Each is popped and counted
\* before the callback sees it, so a callback that raises at n loses row n and
\* leaves the rest of the prefix buffered.  base is the log so far.
CommitTerminal(base, seq, id, kind) ==
    LET filled == buffer \cup {[seq |-> seq, id |-> id, kind |-> kind]}
    IN \E last \in next..(Len(accepted') + 1) :
          /\ EndOfPrefix(filled, next, last)
          /\ \/ /\ rows' = base \o Batch(filled, next, last - 1)
                /\ next' = last
                /\ UNCHANGED sinkFailures
             \/ \E lost \in next..(last - 1) :
                  /\ sinkFailures < MaxSinkFailures
                  /\ rows' = base \o Batch(filled, next, lost - 1)
                  /\ next' = lost + 1
                  /\ sinkFailures' = sinkFailures + 1
          /\ buffer' = {b \in filled : b.seq >= next'}

OutcomeOf(kind) ==
    CASE kind = "accepted" -> "answer"
      [] kind = "cancelled" -> "cancelled"
      [] OTHER -> "error"

\* The row is committed first and the answer returned, or the error raised,
\* after it.  A callback that raises on this row, or on a later one that this
\* commit releases, raises through the handler: its exception takes the place
\* of the answer, of the error and of CancelledError alike.
Return(c, kind) ==
    /\ pc' = [pc EXCEPT ![c] = "returned"]
    /\ outcome' = [outcome EXCEPT ![c] =
                     IF sinkFailures' = sinkFailures THEN OutcomeOf(kind) ELSE "sink"]

\* The end of a call that was accepted earlier.
Finish(c, kind) ==
    /\ UNCHANGED <<accepted, ticket>>
    /\ CommitTerminal(rows, ticket[c], accepted[ticket[c]], kind)
    /\ Return(c, kind)

-----------------------------------------------------------------------------
(* execute.                                                                 *)

\* A request_id seen before: execute raises and touches nothing.
ExecuteDuplicate(c, id) ==
    /\ pc[c] = "idle"
    /\ \E i \in DOMAIN accepted : accepted[i] = id
    /\ pc' = [pc EXCEPT ![c] = "refused"]
    /\ outcome' = [outcome EXCEPT ![c] = "error"]
    /\ UNCHANGED <<cancels, interrupted, trouble, taskVars, logVars, closeVars>>

\* Mutant: registration without the check for a known id.
RegisterUnchecked(c, id) ==
    /\ pc[c] = "idle"
    /\ accepted' = Append(accepted, id)
    /\ ticket' = [ticket EXCEPT ![c] = Len(accepted) + 1]

\* Registration, with no await between the check and the insertion.
Register(c, id) ==
    /\ pc[c] = "idle"
    /\ \A i \in DOMAIN accepted : accepted[i] # id
    /\ accepted' = Append(accepted, id)
    /\ ticket' = [ticket EXCEPT ![c] = Len(accepted) + 1]

RequestRow(id) == [kind |-> "request", id |-> id]

\* The callback raises on the agent_request row, outside the try block: the
\* call ends with the request accepted and no terminal of it to come.
ExecuteSinkFails(c, id) ==
    /\ Register(c, id)
    /\ sinkFailures < MaxSinkFailures
    /\ sinkFailures' = sinkFailures + 1
    /\ pc' = [pc EXCEPT ![c] = "returned"]
    /\ outcome' = [outcome EXCEPT ![c] = "sink"]
    /\ UNCHANGED <<cancels, interrupted, trouble, taskVars, buffer, next, rows, closeVars>>

\* Wrong run id, wrong actor, or an actor without an awaitable decide().
ExecuteMisbound(c, id) ==
    /\ Register(c, id)
    /\ CommitTerminal(Append(rows, RequestRow(id)), Len(accepted) + 1, id, "failed")
    /\ Return(c, "failed")
    /\ UNCHANGED <<cancels, interrupted, trouble, taskVars, closeVars>>

\* decide() starts as a task of its own.
ExecuteDecide(c, id) ==
    /\ Register(c, id)
    /\ rows' = Append(rows, RequestRow(id))
    /\ task' = [task EXCEPT ![c]["decide"] = "running"]
    /\ pc' = [pc EXCEPT ![c] = "deciding"]
    /\ UNCHANGED <<cancels, interrupted, trouble, outcome, unresolved, buffer, next,
                   sinkFailures, closeVars>>

\* The deadline has passed before the agent could start: straight to an
\* awaitable timeout hook, or to the terminal when the hook is missing or
\* returns at once (FALSE) or raises (TRUE).
ExecuteExpired(c, id) ==
    /\ c \in Deadlined
    /\ Register(c, id)
    /\ \/ /\ rows' = Append(rows, RequestRow(id))
          /\ task' = [task EXCEPT ![c]["hook"] = "running"]
          /\ pc' = [pc EXCEPT ![c] = "hooking"]
          /\ UNCHANGED <<trouble, outcome, buffer, next, sinkFailures>>
       \/ /\ UNCHANGED task
          /\ \E raised \in BOOLEAN :
               LET kind == IF raised THEN "cleanup" ELSE "timeout" IN
               /\ trouble' = [trouble EXCEPT ![c] = raised]
               /\ CommitTerminal(Append(rows, RequestRow(id)), Len(accepted) + 1, id, kind)
               /\ Return(c, kind)
    /\ UNCHANGED <<cancels, interrupted, unresolved, closeVars>>

-----------------------------------------------------------------------------
(* The tasks, which belong to the agents: a task may finish at any time,    *)
(* with or without a cancellation, or never.  What a task returns once it   *)
(* was cancelled is consumed and dropped (_consume_task_result).            *)

DecideFinishes(c) ==
    /\ task[c]["decide"] = "running"
    /\ \/ /\ pc[c] = "deciding"
          /\ \E v \in Answers : task' = [task EXCEPT ![c]["decide"] = v]
       \/ /\ pc[c] # "deciding"
          /\ task' = [task EXCEPT ![c]["decide"] = "done"]
    /\ unresolved' = unresolved \ {<<c, "decide">>}
    /\ UNCHANGED <<callVars, logVars, closeVars>>

HookFinishes(c) ==
    /\ task[c]["hook"] = "running"
    /\ \/ /\ pc[c] = "hooking"
          /\ \E v \in HookAnswers : task' = [task EXCEPT ![c]["hook"] = v]
       \/ /\ pc[c] # "hooking"
          /\ task' = [task EXCEPT ![c]["hook"] = "done"]
    /\ unresolved' = unresolved \ {<<c, "hook">>}
    /\ UNCHANGED <<callVars, logVars, closeVars>>

-----------------------------------------------------------------------------
(* _invoke_with_deadline, _cancel_task and _notify_agent_timeout.           *)

\* The terminal of a decide() that finished on its own.
VerdictKind(v) ==
    CASE v \in {"accepted", "rejected", "cancelled"} -> v
      [] v = "unvalidatable" -> "validation_failed"
      [] OTHER -> "failed"

\* The waiting call finds its agent task done.
TakeResult(c) ==
    /\ pc[c] = "deciding"
    /\ task[c]["decide"] # "running"
    /\ Finish(c, VerdictKind(task[c]["decide"]))
    /\ task' = [task EXCEPT ![c]["decide"] = "done"]
    /\ UNCHANGED <<cancels, interrupted, trouble, unresolved, closeVars>>

\* asyncio.wait times out with the task not done: first task.cancel().
DeadlinePasses(c) ==
    /\ pc[c] = "deciding"
    /\ c \in Deadlined
    /\ task[c]["decide"] = "running"
    /\ pc' = [pc EXCEPT ![c] = "decideGrace"]
    /\ cancels' = [cancels EXCEPT ![c] = 1]
    /\ UNCHANGED <<interrupted, trouble, outcome, taskVars, logVars, closeVars>>

\* The hook had its own grace and has not answered: first task.cancel().
HookTimesOut(c) ==
    /\ pc[c] = "hooking"
    /\ task[c]["hook"] = "running"
    /\ pc' = [pc EXCEPT ![c] = "hookGrace"]
    /\ cancels' = [cancels EXCEPT ![c] = 1]
    /\ UNCHANGED <<interrupted, trouble, outcome, taskVars, logVars, closeVars>>

\* The task a waiting call waits for.
Awaited(c) == IF pc[c] \in {"deciding", "decideGrace"} THEN "decide" ELSE "hook"

\* The owner cancels the call.  While it waits for a task, the task is reclaimed
\* first (at once when it is done); during a grace the cancellation is noted and
\* the grace goes on.
CallerCancels(c) ==
    /\ pc[c] \in Waiting
    /\ ~interrupted[c]
    /\ interrupted' = [interrupted EXCEPT ![c] = TRUE]
    /\ \/ /\ pc[c] \in {"decideGrace", "hookGrace"}
          /\ UNCHANGED <<pc, cancels, outcome, task, logVars>>
       \/ /\ pc[c] \in {"deciding", "hooking"}
          /\ task[c][Awaited(c)] # "running"
          /\ Finish(c, "cancelled")
          /\ task' = [task EXCEPT ![c][Awaited(c)] = "done"]
          /\ UNCHANGED cancels
       \/ /\ pc[c] \in {"deciding", "hooking"}
          /\ task[c][Awaited(c)] = "running"
          /\ pc' = [pc EXCEPT ![c] = IF pc[c] = "deciding" THEN "decideGrace" ELSE "hookGrace"]
          /\ cancels' = [cancels EXCEPT ![c] = 1]
          /\ UNCHANGED <<outcome, task, logVars>>
    /\ UNCHANGED <<trouble, unresolved, closeVars>>

\* Half of the grace is over and the task still runs.
CancelAgain(c) ==
    /\ pc[c] \in {"decideGrace", "hookGrace"}
    /\ cancels[c] = 1
    /\ task[c][Awaited(c)] = "running"
    /\ cancels' = [cancels EXCEPT ![c] = 2]
    /\ UNCHANGED <<pc, interrupted, trouble, outcome, taskVars, logVars, closeVars>>

\* Mutant: the grace has no bound.
GraceOverWhenDone(c) ==
    /\ pc[c] \in {"decideGrace", "hookGrace"}
    /\ task[c][Awaited(c)] # "running"

\* _cancel_task returns: the task ended, or the whole grace is over.
GraceOver(c) ==
    /\ pc[c] \in {"decideGrace", "hookGrace"}
    /\ task[c][Awaited(c)] = "running" => cancels[c] = 2

\* Mutant: only decide tasks are kept.
TrackDecide(c) ==
    unresolved' = IF pc[c] = "decideGrace" /\ task[c]["decide"] = "running"
                  THEN unresolved \cup {<<c, "decide">>} ELSE unresolved

\* A task that outlived the grace is kept and watched (_track_unresolved).
Track(c) ==
    unresolved' = IF task[c][Awaited(c)] = "running"
                  THEN unresolved \cup {<<c, Awaited(c)>>} ELSE unresolved

\* Mutant: a decision that ends during the grace is still used.
EndDecideGraceLate(c) ==
    /\ pc[c] = "decideGrace"
    /\ GraceOver(c)
    /\ Track(c)
    /\ cancels' = [cancels EXCEPT ![c] = 0]
    /\ \/ task[c]["decide"] = "done" /\ Finish(c, "accepted")
       \/ task[c]["decide"] = "running" /\ Finish(c, "cleanup")
    /\ UNCHANGED <<interrupted, trouble, task, closeVars>>

EndDecideGrace(c) ==
    /\ pc[c] = "decideGrace"
    /\ GraceOver(c)
    /\ Track(c)
    /\ cancels' = [cancels EXCEPT ![c] = 0]
    /\ \/ /\ interrupted[c]
          /\ Finish(c, "cancelled")
          /\ UNCHANGED <<trouble, task>>
       \/ /\ ~interrupted[c]
          /\ \/ /\ task' = [task EXCEPT ![c]["hook"] = "running"]
                /\ pc' = [pc EXCEPT ![c] = "hooking"]
                /\ trouble' = [trouble EXCEPT ![c] = task[c]["decide"] = "running"]
                /\ UNCHANGED <<outcome, logVars>>
             \/ \E raised \in BOOLEAN :
                /\ trouble' = [trouble EXCEPT ![c] = raised \/ task[c]["decide"] = "running"]
                /\ Finish(c, IF trouble'[c] THEN "cleanup" ELSE "timeout")
                /\ UNCHANGED task
    /\ UNCHANGED <<interrupted, closeVars>>

\* The hook answered in time; an error of it makes the cleanup a failed one.
HookAnswered(c) ==
    /\ pc[c] = "hooking"
    /\ task[c]["hook"] # "running"
    /\ trouble' = [trouble EXCEPT ![c] = @ \/ task[c]["hook"] # "ok"]
    /\ Finish(c, IF trouble'[c] THEN "cleanup" ELSE "timeout")
    /\ task' = [task EXCEPT ![c]["hook"] = "done"]
    /\ UNCHANGED <<cancels, interrupted, unresolved, closeVars>>

\* Mutant: a cancellation that comes while the hook is reclaimed is forgotten.
EndHookGraceUncancelled(c) ==
    /\ pc[c] = "hookGrace"
    /\ GraceOver(c)
    /\ Track(c)
    /\ cancels' = [cancels EXCEPT ![c] = 0]
    /\ trouble' = [trouble EXCEPT ![c] = TRUE]
    /\ Finish(c, "cleanup")
    /\ UNCHANGED <<interrupted, task, closeVars>>

\* A hook that had to be cancelled is a failed cleanup whatever it left.
EndHookGrace(c) ==
    /\ pc[c] = "hookGrace"
    /\ GraceOver(c)
    /\ Track(c)
    /\ cancels' = [cancels EXCEPT ![c] = 0]
    /\ trouble' = [trouble EXCEPT ![c] = TRUE]
    /\ Finish(c, IF interrupted[c] THEN "cancelled" ELSE "cleanup")
    /\ UNCHANGED <<interrupted, task, closeVars>>

-----------------------------------------------------------------------------
(* aclose: the tasks unresolved at its start are cancelled one after the    *)
(* other, then the registry is read again.                                  *)

CloseBegins ==
    /\ closing = "open"
    /\ closing' = "closing"
    /\ closeTodo' = unresolved
    /\ UNCHANGED <<callVars, taskVars, logVars>>

CloseCancelsNext ==
    /\ closing = "closing"
    /\ \E t \in closeTodo : closeTodo' = closeTodo \ {t}
    /\ UNCHANGED <<callVars, taskVars, logVars, closing>>

CloseEnds ==
    /\ closing = "closing"
    /\ closeTodo = {}
    /\ closing' = IF unresolved = {} THEN "clean" ELSE "failed"
    /\ UNCHANGED <<callVars, taskVars, logVars, closeTodo>>

\* Cancelled from outside during a grace: aclose still visits every task, and
\* then reports the cancellation whatever is left.
CloseInterrupted ==
    /\ closing = "closing"
    /\ closeTodo # {}
    /\ closing' = "cancelled"
    /\ closeTodo' = {}
    /\ UNCHANGED <<callVars, taskVars, logVars>>

-----------------------------------------------------------------------------
Execute(c, id) ==
    \/ ExecuteDuplicate(c, id)
    \/ ExecuteSinkFails(c, id)
    \/ ExecuteMisbound(c, id)
    \/ ExecuteDecide(c, id)
    \/ ExecuteExpired(c, id)

\* What the event loop owes a waiting call: timers fire, ready calls resume.
Resume(c) ==
    \/ TakeResult(c)
    \/ DeadlinePasses(c)
    \/ CancelAgain(c)
    \/ EndDecideGrace(c)
    \/ HookAnswered(c)
    \/ HookTimesOut(c)
    \/ EndHookGrace(c)

TaskFinishes(c) == DecideFinishes(c) \/ HookFinishes(c)

Close == CloseBegins \/ CloseCancelsNext \/ CloseEnds \/ CloseInterrupted

Next ==
    \/ \E c \in Calls :
         \/ \E id \in Ids : Execute(c, id)
         \/ Resume(c)
         \/ TaskFinishes(c)
         \/ CallerCancels(c)
    \/ Close

Spec == Init /\ [][Next]_vars

\* The event loop runs, timers included; agents, callers and hooks owe nothing.
FairSpec == Spec /\ \A c \in Calls : WF_vars(Resume(c))

-----------------------------------------------------------------------------
(* Properties.                                                              *)

TerminalIndexes == {i \in DOMAIN rows : rows[i].kind # "request"}
TicketOf(id) == CHOOSE i \in DOMAIN accepted : accepted[i] = id

\* The kinds of every terminal, stored or buffered, of call c's request.
KindsOf(c) ==
    IF ticket[c] = 0 THEN {}
    ELSE {rows[i].kind : i \in {j \in TerminalIndexes : rows[j].id = accepted[ticket[c]]}}
         \cup {b.kind : b \in {t \in buffer : t.seq = ticket[c]}}

\* The terminal row of call c's request is in the log.
Stored(c) == ticket[c] # 0 /\ \E i \in TerminalIndexes : rows[i].id = accepted[ticket[c]]

\* One request, one terminal: an id has at most one request row and at most
\* one terminal row, and the terminal never precedes the request.
PairedRows ==
    /\ \A i, j \in DOMAIN rows :
         /\ rows[i].id = rows[j].id
         /\ (rows[i].kind = "request") = (rows[j].kind = "request")
         => i = j
    /\ \A i \in TerminalIndexes :
         \E j \in 1..(i - 1) : rows[j] = [kind |-> "request", id |-> rows[i].id]

\* Whatever the order in which agents answer, terminal rows are stored in the
\* order in which execute accepted the requests.
AcceptanceOrder ==
    \A i, j \in TerminalIndexes : i < j => TicketOf(rows[i].id) < TicketOf(rows[j].id)

\* A cancellation by the owner is never turned into a result or a timeout:
\* whenever it reaches a waiting call (during the decision, a grace or the hook),
\* the only terminal of the request is a cancelled one and the call raises
\* CancelledError.  The one thing that takes its place is the exception of a
\* trace callback that raises while the call commits a row, before `raise`: the
\* owner then gets that exception, and the cancellation is lost to it.
CancellationIsNeverSwallowed ==
    \A c \in Calls :
        interrupted[c] /\ pc[c] = "returned" =>
            /\ KindsOf(c) \subseteq {"cancelled"}
            /\ \/ outcome[c] = "cancelled"
               \/ outcome[c] = "sink" /\ sinkFailures > 0

\* A result that arrives after the deadline or the cancellation is dropped:
\* once a call has left its wait for the decision, no verdict of the agent
\* becomes its terminal.
LateResultsAreDropped ==
    [][\A c \in Calls :
        pc[c] \in {"decideGrace", "hooking", "hookGrace"} /\ pc'[c] = "returned"
            => KindsOf(c)' \subseteq {"timeout", "cleanup", "cancelled"}]_vars

\* A task still running after its call returned is in the registry the run's
\* owner reads, and a call that left one never ends as a mere timeout.
LeftoversAreTracked ==
    \A c \in Calls : \A k \in TaskKinds :
        pc[c] = "returned" /\ task[c][k] = "running" =>
            /\ <<c, k>> \in unresolved
            /\ "timeout" \notin KindsOf(c)

\* aclose returns normally only when no call that has returned has left a task
\* running, those that were abandoned while aclose was at work included.
CleanCloseLeavesNothing ==
    [][closing # "clean" /\ closing' = "clean" =>
        \A c \in Calls : \A k \in TaskKinds :
            pc[c] = "returned" => task[c][k] # "running"]_vars

\* If every request has a deadline, each accepted request gets its terminal row
\* unless the trace callback raises, though agents, hooks and the calls accepted
\* before it may all ignore cancellation.
EveryRequestTerminates ==
    \A c \in Calls : ticket[c] # 0 ~> Stored(c) \/ sinkFailures > 0

\* The contract of the boundary: a log of requests, each closed by one
\* terminal, in order; a callback that raises costs the rows it was not given.
Ledger == INSTANCE DecisionLedger WITH
    opened <- accepted,
    closed <- [i \in 1..Cardinality(TerminalIndexes) |->
                 rows[CHOOSE j \in TerminalIndexes :
                        Cardinality({l \in TerminalIndexes : l <= j}) = i]],
    lost <- sinkFailures

LedgerSpec == Ledger!Spec

=============================================================================
