------------------------------- MODULE CoreRunner -------------------------------
(***************************************************************************)
(* The lifecycle of one environment run (src/harness/core_runner.py): an   *)
(* optional session factory, the session's run, then the two cleanup        *)
(* stages, each a task of its own under a deadline, each exposed to the     *)
(* caller's cancellation and to tasks that ignore cancellation; then the    *)
(* harness rows and the result.                                             *)
(*                                                                         *)
(* One action is one uninterrupted run of _run_environment_lifecycle        *)
(* between awaits.  Every await, those of the evidence sink included, may   *)
(* be cancelled by the caller.                                              *)
(***************************************************************************)
EXTENDS Integers, Sequences, FiniteSets

CONSTANTS
    HasRunTimeout,   \* the run spec sets run_timeout_seconds
    SinkMayFail      \* the evidence sink may raise

ASSUME ConstantsAssumption == HasRunTimeout \in BOOLEAN /\ SinkMayFail \in BOOLEAN

CREATE == "session_create"
RUN == "session_run"
CLOSE == "session_close"
RUNTIME_CLOSE == "decision_runtime_close"
Stages == {CREATE, RUN, CLOSE, RUNTIME_CLOSE}
CleanupStages == {CLOSE, RUNTIME_CLOSE}

\* What the task of a stage may end with.  "value" is a session for CREATE and
\* a clean close for the cleanup stages; RUN returns an outcome.  "error" stands
\* for what is no session or no terminal outcome, too.
Endings(s) ==
    CASE s = CREATE -> {"value", "error", "cancelled"}
      [] s = RUN -> {"completed", "incomplete", "error", "cancelled"}
      [] s \in CleanupStages -> {"value", "error", "cancelled"}
TaskStates == {"none", "running"} \cup UNION {Endings(s) : s \in Stages}

TerminalRows == {"run_completed", "run_incomplete", "run_failed", "run_cancelled"}
RowKinds == TerminalRows \cup {"run_started", "run_cleanup_failed", "agent_bindings_finalized"}
Errors == {"none", "RunTimeout", "RunTaskCleanupTimeout", "EnvironmentError",
           "EnvironmentCleanupError", "AgentBindingDriftError", "EvidenceSinkError"}

VARIABLES
    mode,        \* "factory", or "prepared" with or without its rows "recorded"
    pc,          \* "started", "stage", "grace", or the row about to be written
    at,          \* the stage that is waited for, if any
    cancels,     \* task.cancel() calls of the running _cancel_task
    how,         \* how each stage was interrupted: "none", "deadline", "caller",
                 \* or "both": by the caller in the grace after a deadline
    task,        \* the task of each stage
    leftover,    \* an agent task the session's decision runtime abandoned
    adopted,     \* the runner holds a session
    owned,       \* the tasks given to _track_owned_task
    quarantined, \* the tasks given to the sink or to _QUARANTINED_TASKS
    outcome,     \* what the session returned
    error,       \* error_type
    raising,     \* a CancelledError is on its way out
    cancelled,   \* the cancellation handler ran
    cleanupCancelled,   \* cleanup_cancellation is set
    failures,    \* the stages of cleanup_failures
    rows,        \* the harness rows the sink stored
    result       \* the status returned, or "raised" for CancelledError

ctlVars == <<pc, at, cancels, how>>
taskVars == <<task, leftover>>
ownVars == <<adopted, owned, quarantined>>
verdictVars == <<outcome, error, raising, cancelled, cleanupCancelled, failures>>
endVars == <<mode, rows, result>>
vars == <<ctlVars, taskVars, ownVars, verdictVars, endVars>>

Writing == {"run_started", "handler", "run_cleanup_failed", "drift",
            "agent_bindings_finalized", "final"}

TypeOK ==
    /\ mode \in {"factory", "prepared", "recorded"}
    /\ pc \in Writing \cup {"stage", "grace", "over"}
    /\ at \in Stages \cup {"none"}
    /\ cancels \in 0..2
    /\ how \in [Stages -> {"none", "deadline", "caller", "both"}]
    /\ task \in [Stages -> TaskStates]
    /\ leftover \in {"none", "running", "done"}
    /\ adopted \in BOOLEAN
    /\ owned \subseteq Stages
    /\ quarantined \subseteq Stages \cup {"agent"}
    /\ outcome \in {"none", "completed", "incomplete"}
    /\ error \in Errors
    /\ raising \in BOOLEAN
    /\ cancelled \in BOOLEAN
    /\ cleanupCancelled \in BOOLEAN
    /\ failures \subseteq Stages \cup {"decision_runtime_tasks"}
    /\ rows \in Seq(RowKinds)
    /\ result \in {"none", "raised", "completed", "incomplete", "timed_out", "failed"}

\* A room prepares its run with run_started and agent_bindings_finalized
\* already recorded, and goes straight to the session's run.
Init ==
    /\ mode \in {"factory", "prepared", "recorded"}
    /\ pc = IF mode = "recorded" THEN "stage" ELSE "run_started"
    /\ at = IF mode = "recorded" THEN RUN ELSE "none"
    /\ cancels = 0
    /\ how = [s \in Stages |-> "none"]
    /\ task = [s \in Stages |-> IF mode = "recorded" /\ s = RUN THEN "running" ELSE "none"]
    /\ leftover = "none"
    /\ adopted = (mode # "factory")
    /\ owned = {}
    /\ quarantined = {}
    /\ outcome = "none"
    /\ error = "none"
    /\ raising = FALSE
    /\ cancelled = FALSE
    /\ cleanupCancelled = FALSE
    /\ failures = {}
    /\ rows = IF mode = "recorded" THEN <<"run_started", "agent_bindings_finalized">> ELSE <<>>
    /\ result = "none"

-----------------------------------------------------------------------------
(* Control transfers.                                                       *)

\* _run_stage and _run_cleanup start the task of a stage and wait for it.
Begin(s) ==
    /\ pc' = "stage"
    /\ at' = s
    /\ cancels' = 0
    /\ task' = [task EXCEPT ![s] = "running"]

\* Waiting for nothing but the sink.
Write(p) ==
    /\ pc' = p
    /\ at' = "none"
    /\ cancels' = 0

\* The finally block closes the session the runner holds, then the runtime.
BeginCleanup(session) == Begin(IF session THEN CLOSE ELSE RUNTIME_CLOSE)

Finish(status) ==
    /\ pc' = "over"
    /\ at' = "none"
    /\ cancels' = 0
    /\ result' = status

Status == IF error = "none" THEN outcome
          ELSE IF error = "RunTimeout" THEN "timed_out" ELSE "failed"

\* The first row after the finally block that this run has to write.
AfterFinally ==
    \/ /\ raising \/ cleanupCancelled
       /\ Finish("raised")
    \/ /\ ~raising /\ ~cleanupCancelled
       /\ Write(IF mode = "recorded" THEN "drift" ELSE "agent_bindings_finalized")
       /\ UNCHANGED result

-----------------------------------------------------------------------------
(* The tasks belong to plugins: each may end at any time, cancelled or not, *)
(* or never.                                                                *)

\* DecisionRuntime.aclose fails when an abandoned agent task still runs.  What
\* a cancelled task ends with is consumed unread, a late session excepted.
TaskEnds(s) ==
    /\ task[s] = "running"
    /\ \E e \in IF s = at /\ pc = "stage" THEN Endings(s)
               ELSE IF s = CREATE THEN {"value", "error"} ELSE {"error"} :
         /\ s = RUNTIME_CLOSE /\ e = "value" => leftover # "running"
         /\ task' = [task EXCEPT ![s] = e]
    /\ UNCHANGED <<ctlVars, leftover, ownVars, verdictVars, endVars>>

\* The decision runtime gives up on an agent task while the session runs.
AgentAbandoned ==
    /\ at = RUN
    /\ task[RUN] = "running"
    /\ leftover = "none"
    /\ leftover' = "running"
    /\ UNCHANGED <<ctlVars, task, ownVars, verdictVars, endVars>>

LeftoverEnds ==
    /\ leftover = "running"
    /\ leftover' = "done"
    /\ UNCHANGED <<ctlVars, task, ownVars, verdictVars, endVars>>

-----------------------------------------------------------------------------
(* The try block.                                                           *)

\* A handler is entered, with a cancellation in flight or with an error.
Cancelling ==
    /\ raising' = TRUE
    /\ cancelled' = TRUE
    /\ Write("handler")
    /\ UNCHANGED error

Failing(e) ==
    /\ error' = e
    /\ Write("handler")
    /\ UNCHANGED <<raising, cancelled>>

CreateReturns ==
    /\ pc = "stage" /\ at = CREATE
    /\ task[CREATE] # "running"
    /\ \/ /\ task[CREATE] = "value"
          /\ adopted' = TRUE
          /\ Begin(RUN)
          /\ UNCHANGED <<error, raising, cancelled>>
       \/ /\ task[CREATE] = "error"
          /\ Failing("EnvironmentError")
          /\ UNCHANGED <<adopted, task>>
       \/ /\ task[CREATE] = "cancelled"
          /\ Cancelling
          /\ UNCHANGED <<adopted, task>>
    /\ UNCHANGED <<how, leftover, owned, quarantined, outcome, cleanupCancelled,
                   failures, endVars>>

RunReturns ==
    /\ pc = "stage" /\ at = RUN
    /\ task[RUN] # "running"
    /\ \/ /\ task[RUN] \in {"completed", "incomplete"}
          /\ outcome' = task[RUN]
          /\ BeginCleanup(TRUE)
          /\ UNCHANGED <<error, raising, cancelled>>
       \/ /\ task[RUN] = "error"
          /\ Failing("EnvironmentError")
          /\ UNCHANGED <<outcome, task>>
       \/ /\ task[RUN] = "cancelled"
          /\ Cancelling
          /\ UNCHANGED <<outcome, task>>
    /\ UNCHANGED <<how, leftover, ownVars, cleanupCancelled, failures, endVars>>

-----------------------------------------------------------------------------
(* Deadlines, the caller's cancellation, and the bounded grace of both.      *)

DeadlinePasses ==
    /\ pc = "stage"
    /\ task[at] = "running"
    /\ at \in CleanupStages \/ HasRunTimeout
    /\ pc' = "grace"
    /\ cancels' = 1
    /\ how' = [how EXCEPT ![at] = "deadline"]
    /\ UNCHANGED <<at, taskVars, ownVars, verdictVars, endVars>>

\* A stage that is waited for goes into its grace, which is over at once when
\* the task is done; a grace notes the cancellation and goes on.
CallerCancelsStage ==
    /\ \/ /\ pc = "stage"
          /\ how' = [how EXCEPT ![at] = "caller"]
          /\ cancels' = 1
       \/ /\ pc = "grace"
          /\ how[at] = "deadline"
          /\ how' = [how EXCEPT ![at] = "both"]
          /\ UNCHANGED cancels
    /\ pc' = "grace"
    /\ UNCHANGED <<at, taskVars, ownVars, verdictVars, endVars>>

CancelAgain ==
    /\ pc = "grace"
    /\ cancels = 1
    /\ task[at] = "running"
    /\ cancels' = 2
    /\ UNCHANGED <<pc, at, how, taskVars, ownVars, verdictVars, endVars>>

\* Mutant: the grace has no bound.
GraceOverWhenDone == pc = "grace" /\ task[at] # "running"

GraceOver == pc = "grace" /\ (task[at] = "running" => cancels = 2)

\* A task that ignored both cancellations is tracked.
TrackOwned == owned' = IF task[at] = "running" THEN owned \cup {at} ELSE owned

\* The caller cancelled while the stage was waited for: a session that came out
\* of the factory within the grace is adopted (environment_late_result).
StageCancelled ==
    /\ GraceOver
    /\ at \in {CREATE, RUN}
    /\ how[at] = "caller"
    /\ TrackOwned
    /\ adopted' = (adopted \/ (at = CREATE /\ task[at] = "value"))
    /\ Cancelling
    /\ UNCHANGED <<how, taskVars, quarantined, outcome, cleanupCancelled, failures, endVars>>

\* The caller cancelled in the grace that followed the run deadline: _run_stage
\* raises a fresh CancelledError that carries neither the stage nor the session.
StageCancelledLate ==
    /\ GraceOver
    /\ at \in {CREATE, RUN}
    /\ how[at] = "both"
    /\ TrackOwned
    /\ Cancelling
    /\ UNCHANGED <<how, taskVars, adopted, quarantined, outcome, cleanupCancelled,
                   failures, endVars>>

\* Mutant: a session created within the grace of the run deadline is dropped.
StageTimedOutDropping ==
    /\ GraceOver
    /\ at \in {CREATE, RUN}
    /\ how[at] = "deadline"
    /\ TrackOwned
    /\ failures' = IF task[at] = "running" THEN failures \cup {at} ELSE failures
    /\ Failing(IF task[at] = "running" THEN "RunTaskCleanupTimeout" ELSE "RunTimeout")
    /\ UNCHANGED <<how, taskVars, adopted, quarantined, outcome, cleanupCancelled, endVars>>

\* The run deadline expired.
StageTimedOut ==
    /\ GraceOver
    /\ at \in {CREATE, RUN}
    /\ how[at] = "deadline"
    /\ TrackOwned
    /\ adopted' = (adopted \/ (at = CREATE /\ task[at] = "value"))
    /\ failures' = IF task[at] = "running" THEN failures \cup {at} ELSE failures
    /\ Failing(IF task[at] = "running" THEN "RunTaskCleanupTimeout" ELSE "RunTimeout")
    /\ UNCHANGED <<how, taskVars, quarantined, outcome, cleanupCancelled, endVars>>

-----------------------------------------------------------------------------
(* The finally block.                                                       *)

\* The decision runtime is closed: what still runs is quarantined, and the
\* agent tasks the runtime could not end are one more cleanup failure.
Finalize(failed) ==
    /\ failures' = failed \cup (IF leftover = "running" THEN {"decision_runtime_tasks"} ELSE {})
    /\ quarantined' = {s \in owned' : task[s] = "running"}
                        \cup (IF leftover = "running" THEN {"agent"} ELSE {})
    /\ \/ /\ failures' # {}
          /\ Write("run_cleanup_failed")
          /\ UNCHANGED result
       \/ /\ failures' = {}
          /\ AfterFinally

\* A cleanup stage is over, with or without a failure to record.
NextCleanup(failed) ==
    \/ /\ at = CLOSE
       /\ failures' = failed
       /\ Begin(RUNTIME_CLOSE)
       /\ UNCHANGED <<quarantined, result>>
    \/ /\ at = RUNTIME_CLOSE
       /\ Finalize(failed)
       /\ UNCHANGED task

CleanupReturns ==
    /\ pc = "stage"
    /\ at \in CleanupStages
    /\ task[at] # "running"
    /\ UNCHANGED <<owned, cleanupCancelled>>
    /\ NextCleanup(IF task[at] = "value" THEN failures ELSE failures \cup {at})
    /\ UNCHANGED <<mode, how, leftover, adopted, outcome, error, raising, cancelled, rows>>

\* Mutant: a cancellation in the grace of a cleanup is taken for its timeout.
CleanupInterruptedForgetting ==
    /\ GraceOver
    /\ at \in CleanupStages
    /\ TrackOwned
    /\ cleanupCancelled' = (cleanupCancelled \/ how[at] = "caller")
    /\ NextCleanup(failures \cup {at})
    /\ UNCHANGED <<mode, how, leftover, adopted, outcome, error, raising, cancelled, rows>>

\* A cleanup that had to be cancelled is a failure whatever it left; the first
\* cancellation of the caller is repaid after the last stage.
CleanupInterrupted ==
    /\ GraceOver
    /\ at \in CleanupStages
    /\ TrackOwned
    /\ cleanupCancelled' = (cleanupCancelled \/ how[at] # "deadline")
    /\ NextCleanup(failures \cup {at})
    /\ UNCHANGED <<mode, how, leftover, adopted, outcome, error, raising, cancelled, rows>>

-----------------------------------------------------------------------------
(* The rows.  A full sink may store the row, raise, or be cancelled before   *)
(* or after it stored the row.                                              *)

Sink(row, ok) ==
    \/ ok /\ rows' = Append(rows, row)
    \/ ~ok /\ SinkMayFail /\ UNCHANGED rows

SinkCancelled(row) == rows' \in {rows, Append(rows, row)}

StartedRow ==
    /\ pc = "run_started"
    /\ \/ /\ Sink("run_started", TRUE)
          /\ Begin(IF adopted THEN RUN ELSE CREATE)
          /\ UNCHANGED <<error, raising, cancelled>>
       \/ /\ Sink("run_started", FALSE)
          /\ Failing("EnvironmentError")
          /\ UNCHANGED task
       \/ /\ SinkCancelled("run_started")
          /\ Cancelling
          /\ UNCHANGED task
    /\ UNCHANGED <<mode, how, leftover, ownVars, outcome, cleanupCancelled, failures, result>>

\* Best effort: the cleanup follows whatever the sink does.
HandlerRow ==
    /\ pc = "handler"
    /\ LET row == IF cancelled THEN "run_cancelled" ELSE "run_failed"
       IN \/ /\ \E ok \in BOOLEAN : Sink(row, ok)
             /\ UNCHANGED raising
          \/ /\ SinkCancelled(row)
             /\ raising' = TRUE
    /\ BeginCleanup(adopted)
    /\ UNCHANGED <<mode, how, leftover, ownVars, outcome, error, cancelled, cleanupCancelled,
                   failures, result>>

\* Mutant: a failed cleanup is recorded and the result stays what it was.
CleanupRowOnly ==
    /\ pc = "run_cleanup_failed"
    /\ \/ /\ \E ok \in BOOLEAN : Sink("run_cleanup_failed", ok)
          /\ AfterFinally
       \/ /\ SinkCancelled("run_cleanup_failed")
          /\ Finish("raised")
    /\ UNCHANGED <<mode, how, taskVars, ownVars, verdictVars>>

CleanupRow ==
    /\ pc = "run_cleanup_failed"
    /\ \/ /\ \E ok \in BOOLEAN : Sink("run_cleanup_failed", ok)
          /\ error' = IF cancelled \/ cleanupCancelled THEN error ELSE "EnvironmentCleanupError"
          /\ AfterFinally
       \/ /\ SinkCancelled("run_cleanup_failed")
          /\ UNCHANGED error
          /\ Finish("raised")
    /\ UNCHANGED <<mode, how, taskVars, ownVars, outcome, raising, cancelled,
                   cleanupCancelled, failures>>

\* A run whose bindings were recorded fails when it resolved other actors.
DriftRow ==
    /\ pc = "drift"
    /\ \/ /\ UNCHANGED <<rows, error, result>>
          /\ Write("final")
       \/ /\ \E ok \in BOOLEAN : Sink("run_failed", ok)
          /\ error' = IF error = "none" THEN "AgentBindingDriftError" ELSE error
          /\ Write("final")
          /\ UNCHANGED result
       \/ /\ SinkCancelled("run_failed")
          /\ UNCHANGED error
          /\ Finish("raised")
    /\ UNCHANGED <<mode, how, taskVars, ownVars, outcome, raising, cancelled,
                   cleanupCancelled, failures>>

BindingsRow ==
    /\ pc = "agent_bindings_finalized"
    /\ \/ /\ Sink("agent_bindings_finalized", TRUE)
          /\ Write("final")
          /\ UNCHANGED <<error, result>>
       \/ /\ Sink("agent_bindings_finalized", FALSE)
          /\ error' = IF error = "none" THEN "EvidenceSinkError" ELSE error
          /\ Write("final")
          /\ UNCHANGED result
       \/ /\ SinkCancelled("agent_bindings_finalized")
          /\ UNCHANGED error
          /\ Finish("raised")
    /\ UNCHANGED <<mode, how, taskVars, ownVars, outcome, raising, cancelled,
                   cleanupCancelled, failures>>

\* The terminal row of a run without an error, and the result.
FinalRow ==
    /\ pc = "final"
    /\ LET row == IF outcome = "completed" THEN "run_completed" ELSE "run_incomplete"
       IN \/ /\ error # "none"
             /\ Finish(Status)
             /\ UNCHANGED <<rows, error>>
          \/ /\ error = "none"
             /\ Sink(row, TRUE)
             /\ Finish(outcome)
             /\ UNCHANGED error
          \/ /\ error = "none"
             /\ Sink(row, FALSE)
             /\ error' = "EvidenceSinkError"
             /\ Finish("failed")
          \/ /\ error = "none"
             /\ SinkCancelled(row)
             /\ Finish("raised")
             /\ UNCHANGED error
    /\ UNCHANGED <<mode, how, taskVars, ownVars, outcome, raising, cancelled,
                   cleanupCancelled, failures>>

-----------------------------------------------------------------------------
\* The runner's own steps.
Advance ==
    \/ CreateReturns \/ RunReturns \/ CleanupReturns
    \/ DeadlinePasses \/ CancelAgain
    \/ StageCancelled \/ StageCancelledLate \/ StageTimedOut \/ CleanupInterrupted
    \/ StartedRow \/ HandlerRow \/ CleanupRow \/ DriftRow \/ BindingsRow \/ FinalRow

Next ==
    \/ Advance
    \/ CallerCancelsStage
    \/ \E s \in Stages : TaskEnds(s)
    \/ AgentAbandoned
    \/ LeftoverEnds

Spec == Init /\ [][Next]_vars

\* The runner waits for the evidence sink to take a row, with no time limit
\* (emit_harness); a run that has failed has no row left to write at the end.
AwaitsSink == pc \in Writing /\ ~(pc = "final" /\ error # "none")

\* The runner is scheduled and its timers fire; neither sessions nor the sink
\* owe anything, and the caller need not cancel a run that hangs.
FairSpec == Spec /\ WF_vars(Advance /\ ~AwaitsSink)

-----------------------------------------------------------------------------
(* Properties.                                                              *)

Over == pc = "over"
Terminal(i) == rows[i] \in TerminalRows
Succeeded == result \in {"completed", "incomplete"}

\* A result that says the environment ended is backed by the whole lifecycle:
\* its one terminal row is the last row, every cleanup stage ended cleanly, and
\* no task of the run is left, abandoned or quarantined.
BackedByTheLifecycle ==
    Succeeded =>
        /\ rows[Len(rows)] = (IF result = "completed" THEN "run_completed" ELSE "run_incomplete")
        /\ \A i \in 1..(Len(rows) - 1) : ~Terminal(i)
        /\ task[CLOSE] = "value" /\ task[RUNTIME_CLOSE] = "value"
        /\ \A s \in Stages : task[s] # "running"
        /\ owned = {} /\ quarantined = {}

\* A completed or incomplete row and a failed or cancelled row never meet in
\* one log, and a result that is not a success has no success row.
NoContradictingRows ==
    LET kinds == {rows[i] : i \in DOMAIN rows}
    IN /\ Cardinality(kinds \cap TerminalRows) <= 1
       /\ result \in {"failed", "timed_out"} =>
             kinds \cap {"run_completed", "run_incomplete", "run_cancelled"} = {}

\* Both, for every way a lifecycle goes: what the log and the result say of the
\* run is what became of it.
SuccessIsAttested == TypeOK /\ BackedByTheLifecycle /\ NoContradictingRows

\* No task of a stage survives the lifecycle unseen: one that still runs when
\* CancelledError or the result leaves has been quarantined.
NothingRunsUnowned ==
    Over => \A s \in Stages : task[s] = "running" => s \in quarantined

\* The caller's cancellation, wherever it strikes first, always comes out: a
\* run that was cancelled while it waited for a stage returns no result.
CancellationPropagates ==
    (\E s \in Stages : how[s] \in {"caller", "both"}) /\ Over => result = "raised"

\* A session the runner received is closed, and closed only after its own run
\* was ended or given up; so is a session that the factory returns late, within
\* the grace of a deadline or of a cancellation that came first.
AdoptedSessionIsClosed ==
    Over /\ (adopted \/ (task[CREATE] = "value" /\ how[CREATE] \in {"deadline", "caller"}
                          /\ CREATE \notin owned))
        => /\ task[CLOSE] # "none"
           /\ task[RUN] = "running" => RUN \in owned

\* Neither a task nor a session is left behind without an owner.
NothingIsLeftOpen == NothingRunsUnowned /\ AdoptedSessionIsClosed

\* docs/ARCHITECTURE.md: "If external cancellation arrives while create_session
\* is unwinding and the coroutine returns a session within the cancellation
\* grace period, the runner still adopts and closes that late session".
LateSessionIsClosed ==
    Over /\ task[CREATE] = "value" /\ how[CREATE] \in {"caller", "both"}
         /\ CREATE \notin owned
        => task[CLOSE] # "none"

\* With a run timeout the lifecycle ends, though every task of the plugin may
\* ignore cancellation: nothing but a sink that never takes one row can hold it.
LifecycleEnds == <>Over \/ \E row \in Writing : <>[](AwaitsSink /\ pc = row)

=============================================================================
