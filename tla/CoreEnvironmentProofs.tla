------------------------ MODULE CoreEnvironmentProofs ------------------------
(***************************************************************************)
(* The lifecycle of an environment run and the environment that it runs.   *)
(*                                                                         *)
(* However the tasks of a run end, however often the caller cancels it and *)
(* whatever the sink does: a result is backed by the whole lifecycle, no   *)
(* task and no adopted session is left without an owner, and the caller's  *)
(* cancellation comes out (CoreRunner).                                    *)
(*                                                                         *)
(* Whatever the actors of a council answer, in whichever order: the        *)
(* outcome is the one the consumed decisions lead to, the evidence it      *)
(* leaves is what the verifier accepts, and every actor remembers its own  *)
(* turns (CipherCouncil, CouncilEvidence).                                 *)
(***************************************************************************)
EXTENDS CoreRunner, CipherCouncil, SequenceTheorems, FiniteSetTheorems, TLAPS


TryStages == {CREATE, RUN}
InTry == pc = "run_started" \/ at \in TryStages
\* The finally block is behind the run.
AfterCleanup == pc \in {"run_cleanup_failed", "drift", "agent_bindings_finalized", "final", "over"}
Verdicts == {"drift", "agent_bindings_finalized", "final"}
SuccessRows == {"run_completed", "run_incomplete"}
SuccessRow == IF outcome = "completed" THEN "run_completed" ELSE "run_incomplete"
KeptRows == {rows[i] : i \in DOMAIN rows}

\* A stage is waited for, and interrupted once its grace has begun.
ControlFits ==
    /\ at # "none" <=> pc \in {"stage", "grace"}
    /\ pc = "stage" => how[at] = "none"
    /\ pc = "grace" => how[at] # "none"
    /\ at # "none" => task[at] # "none"
    /\ pc # "over" => result = "none"

\* Nothing has gone wrong while the try block runs, and no cleanup has begun
\* before its handlers are through.
TryIsClean ==
    /\ InTry => error = "none" /\ ~raising /\ ~cancelled /\ failures = {} /\ owned = {}
    /\ InTry \/ pc = "handler" =>
          /\ outcome = "none" /\ ~cleanupCancelled /\ quarantined = {}
          /\ \A s \in CleanupStages : task[s] = "none" /\ how[s] = "none"
          /\ KeptRows \cap TerminalRows = {}
    /\ pc = "run_started" => \A s \in Stages : task[s] = "none" /\ how[s] = "none"
    /\ at = CREATE => ~adopted /\ task[RUN] = "none"
    /\ at = RUN => adopted
    /\ at \in {CREATE, RUN} => \A s \in TryStages : s # at => task[s] # "running" /\ how[s] = "none"

\* A run whose try block is over without an error and without a cancellation
\* has its outcome, and left nothing behind.
OutcomeIsEarned ==
    ~InTry /\ error = "none" /\ ~cancelled =>
        /\ outcome # "none" /\ adopted
        /\ \A s \in TryStages : task[s] # "running" /\ s \notin owned

\* What still runs is waited for or owned, and quarantined in the end.
TasksAreOwned ==
    /\ \A s \in Stages : task[s] = "running" =>
          IF AfterCleanup THEN s \in owned /\ s \in quarantined ELSE s \in owned \/ s = at
    /\ ~AfterCleanup => quarantined = {}
    /\ \A s \in owned : how[s] # "none"
    /\ owned \cap CleanupStages \subseteq failures
    /\ quarantined \subseteq owned \cup {"agent"}
    /\ "agent" \in quarantined => failures # {}

\* The session is closed before the runtime, each cleanly or with a failure.
CleanupIsAccountedFor ==
    /\ (at = RUNTIME_CLOSE \/ AfterCleanup) /\ adopted =>
          task[CLOSE] # "none" /\ (task[CLOSE] = "value" \/ CLOSE \in failures)
    /\ AfterCleanup => task[RUNTIME_CLOSE] = "value" \/ RUNTIME_CLOSE \in failures
    /\ at = CLOSE => task[RUNTIME_CLOSE] = "none" /\ how[RUNTIME_CLOSE] = "none"
    /\ pc \in Verdicts /\ failures # {} => error # "none"

\* A session that came out of the factory in time is held.
SessionIsHeld ==
    at # CREATE /\ task[CREATE] = "value" /\ how[CREATE] \in {"deadline", "caller"}
        /\ CREATE \notin owned => adopted

\* A cancellation of the caller is on its way out.
CancellationIsKept ==
    /\ \A s \in TryStages : how[s] \in {"caller", "both"} /\ at # s => raising
    /\ \A s \in CleanupStages : how[s] \in {"caller", "both"} /\ at # s => cleanupCancelled
    /\ cancelled => raising
    /\ pc \in Verdicts => ~raising /\ ~cleanupCancelled
    /\ Over /\ (raising \/ cleanupCancelled) => result = "raised"

\* The log holds what happened so far.
RowsFit ==
    /\ "run_cancelled" \in KeptRows => cancelled
    /\ "run_failed" \in KeptRows => ~cancelled /\ (error # "none" \/ result = "raised")
    /\ KeptRows \cap SuccessRows # {} =>
          /\ Over /\ error = "none" /\ ~cancelled /\ result \notin {"failed", "timed_out"}
          /\ KeptRows \cap TerminalRows = {SuccessRow}
    /\ result \in {"failed", "timed_out"} => ~cancelled

\* What a success says of the tasks, and of the rows.
TasksAttest ==
    Succeeded => /\ task[CLOSE] = "value" /\ task[RUNTIME_CLOSE] = "value"
                 /\ \A s \in Stages : task[s] # "running"
                 /\ owned = {} /\ quarantined = {}
RowsAttest ==
    Succeeded => /\ rows[Len(rows)] = (IF result = "completed" THEN "run_completed"
                                                             ELSE "run_incomplete")
                 /\ \A i \in 1..(Len(rows) - 1) : ~Terminal(i)

\* The inductive invariant.
CoreInv ==
    /\ TypeOK
    /\ ControlFits
    /\ TryIsClean
    /\ OutcomeIsEarned
    /\ TasksAreOwned
    /\ CleanupIsAccountedFor
    /\ SessionIsHeld
    /\ CancellationIsKept
    /\ RowsFit
    /\ TasksAttest
    /\ RowsAttest

-----------------------------------------------------------------------------
(* The rows.                                                                *)

\* A row that is appended is kept, with those before it.
LEMMA RowAdded ==
    ASSUME rows \in Seq(RowKinds), NEW row \in RowKinds, rows' = Append(rows, row)
    PROVE  /\ rows' \in Seq(RowKinds)
           /\ KeptRows' = KeptRows \cup {row}
BY DEF KeptRows

\* Rows that are not touched stay the rows that are kept.
LEMMA RowsUnchanged == ASSUME UNCHANGED rows PROVE KeptRows' = KeptRows
BY DEF KeptRows

-----------------------------------------------------------------------------
(* The tasks.                                                               *)

\* A task may be running.
LEMMA Running == "running" \in TaskStates
BY DEF TaskStates

\* A stage that begins.
LEMMA BeginFits ==
    ASSUME TypeOK, NEW s \in Stages, Begin(s)
    PROVE  /\ pc' \in Writing \cup {"stage", "grace", "over"} /\ at' \in Stages \cup {"none"}
           /\ cancels' \in 0..2 /\ task' \in [Stages -> TaskStates]
           /\ task'[s] = "running" /\ \A t \in Stages : t # s => task'[t] = task[t]
BY Running DEF TypeOK, Begin

\* A task that ends is nobody's loss.
LEMMA TaskEndsKeeps == ASSUME CoreInv, NEW s \in Stages, TaskEnds(s) PROVE CoreInv'
<1> USE DEF CREATE, RUN, CLOSE, RUNTIME_CLOSE, Stages, CleanupStages, TryStages, InTry, AfterCleanup,
            Verdicts, ctlVars, taskVars, ownVars, verdictVars, endVars, Over, Succeeded
<1> USE RowsUnchanged DEF CoreInv, TaskEnds
<1>1. TypeOK' BY DEF TypeOK, Endings, TaskStates
<1>2. ControlFits' BY DEF ControlFits, TypeOK, Endings
<1>3. TryIsClean' BY DEF ControlFits, TryIsClean, TypeOK, Endings
<1>4. OutcomeIsEarned' BY DEF OutcomeIsEarned, TypeOK, Endings
<1>5. TasksAreOwned' BY DEF ControlFits, TasksAreOwned, TypeOK, Endings
<1>6. CleanupIsAccountedFor' BY DEF ControlFits, CleanupIsAccountedFor, TasksAreOwned, TypeOK, Endings
<1>7. SessionIsHeld' BY DEF SessionIsHeld, TypeOK, TasksAreOwned
<1>8. CancellationIsKept' BY DEF CancellationIsKept
<1>9. RowsFit' BY DEF RowsFit, SuccessRow
<1>10. TasksAttest' BY DEF TasksAttest, TypeOK
<1>11. RowsAttest' BY DEF RowsAttest, Terminal
<1>12. QED BY <1>1, <1>2, <1>3, <1>4, <1>5, <1>6, <1>7, <1>8, <1>9, <1>10, <1>11

\* The decision runtime gives up on an agent task.
LEMMA AgentAbandonedKeeps == ASSUME CoreInv, AgentAbandoned PROVE CoreInv'
<1> USE DEF CREATE, RUN, CLOSE, RUNTIME_CLOSE, Stages, CleanupStages, TryStages, InTry, AfterCleanup,
            Verdicts, ctlVars, taskVars, ownVars, verdictVars, endVars, Over, Succeeded
<1> USE RowsUnchanged DEF CoreInv, AgentAbandoned
<1>1. TypeOK' BY Running DEF TypeOK, ControlFits, Errors, Writing
<1>2. ControlFits' BY DEF ControlFits, TryIsClean, CleanupIsAccountedFor, TypeOK
<1>3. TryIsClean' BY DEF ControlFits, TryIsClean, TypeOK
<1>4. OutcomeIsEarned' BY DEF ControlFits, TryIsClean, OutcomeIsEarned, TypeOK
<1>5. TasksAreOwned' BY DEF ControlFits, TryIsClean, TasksAreOwned, TypeOK
<1>6. CleanupIsAccountedFor' BY DEF ControlFits, TryIsClean, TasksAreOwned, CleanupIsAccountedFor, TypeOK
<1>7. SessionIsHeld' BY DEF TryIsClean, TasksAreOwned, SessionIsHeld, TypeOK
<1>8. CancellationIsKept' BY DEF ControlFits, TryIsClean, CancellationIsKept, TypeOK
<1>9. RowsFit' BY DEF RowsFit, SuccessRow, TryIsClean, ControlFits
<1>10. TasksAttest' BY DEF TasksAttest, ControlFits, TypeOK
<1>11. RowsAttest' BY DEF RowsAttest, Terminal, ControlFits, TypeOK
<1>12. QED BY <1>1, <1>2, <1>3, <1>4, <1>5, <1>6, <1>7, <1>8, <1>9, <1>10, <1>11

\* An abandoned agent task that ends by itself.
LEMMA LeftoverEndsKeeps == ASSUME CoreInv, LeftoverEnds PROVE CoreInv'
<1> USE DEF CREATE, RUN, CLOSE, RUNTIME_CLOSE, Stages, CleanupStages, TryStages, InTry, AfterCleanup,
            Verdicts, ctlVars, taskVars, ownVars, verdictVars, endVars, Over, Succeeded
<1> USE RowsUnchanged DEF CoreInv, LeftoverEnds
<1>1. TypeOK' BY Running DEF TypeOK, ControlFits, Errors, Writing
<1>2. ControlFits' BY DEF ControlFits, TryIsClean, CleanupIsAccountedFor, TypeOK
<1>3. TryIsClean' BY DEF ControlFits, TryIsClean, TypeOK
<1>4. OutcomeIsEarned' BY DEF ControlFits, TryIsClean, OutcomeIsEarned, TypeOK
<1>5. TasksAreOwned' BY DEF ControlFits, TryIsClean, TasksAreOwned, TypeOK
<1>6. CleanupIsAccountedFor' BY DEF ControlFits, TryIsClean, TasksAreOwned, CleanupIsAccountedFor, TypeOK
<1>7. SessionIsHeld' BY DEF TryIsClean, TasksAreOwned, SessionIsHeld, TypeOK
<1>8. CancellationIsKept' BY DEF ControlFits, TryIsClean, CancellationIsKept, TypeOK
<1>9. RowsFit' BY DEF RowsFit, SuccessRow, TryIsClean, ControlFits
<1>10. TasksAttest' BY DEF TasksAttest, ControlFits, TypeOK
<1>11. RowsAttest' BY DEF RowsAttest, Terminal, ControlFits, TypeOK
<1>12. QED BY <1>1, <1>2, <1>3, <1>4, <1>5, <1>6, <1>7, <1>8, <1>9, <1>10, <1>11

\* The deadline of a stage gives its task a grace.
LEMMA DeadlinePassesKeeps == ASSUME CoreInv, DeadlinePasses PROVE CoreInv'
<1> USE DEF CREATE, RUN, CLOSE, RUNTIME_CLOSE, Stages, CleanupStages, TryStages, InTry, AfterCleanup,
            Verdicts, ctlVars, taskVars, ownVars, verdictVars, endVars, Over, Succeeded
<1> USE RowsUnchanged DEF CoreInv, DeadlinePasses
<1>1. TypeOK' BY Running DEF TypeOK, ControlFits, Errors, Writing
<1>2. ControlFits' BY DEF ControlFits, TryIsClean, CleanupIsAccountedFor, TypeOK
<1>3. TryIsClean' BY DEF ControlFits, TryIsClean, TypeOK
<1>4. OutcomeIsEarned' BY DEF ControlFits, TryIsClean, OutcomeIsEarned, TypeOK
<1>5. TasksAreOwned' BY DEF ControlFits, TryIsClean, TasksAreOwned, TypeOK
<1>6. CleanupIsAccountedFor' BY DEF ControlFits, TryIsClean, TasksAreOwned, CleanupIsAccountedFor, TypeOK
<1>7. SessionIsHeld' BY DEF TryIsClean, TasksAreOwned, SessionIsHeld, TypeOK
<1>8. CancellationIsKept' BY DEF ControlFits, TryIsClean, CancellationIsKept, TypeOK
<1>9. RowsFit' BY DEF RowsFit, SuccessRow, TryIsClean, ControlFits
<1>10. TasksAttest' BY DEF TasksAttest, ControlFits, TypeOK
<1>11. RowsAttest' BY DEF RowsAttest, Terminal, ControlFits, TypeOK
<1>12. QED BY <1>1, <1>2, <1>3, <1>4, <1>5, <1>6, <1>7, <1>8, <1>9, <1>10, <1>11

\* A cancellation of the caller is remembered before the stage is cancelled.
LEMMA CallerCancelsStageKeeps == ASSUME CoreInv, CallerCancelsStage PROVE CoreInv'
<1> USE DEF CREATE, RUN, CLOSE, RUNTIME_CLOSE, Stages, CleanupStages, TryStages, InTry, AfterCleanup,
            Verdicts, ctlVars, taskVars, ownVars, verdictVars, endVars, Over, Succeeded
<1> USE RowsUnchanged DEF CoreInv, CallerCancelsStage
<1>1. TypeOK' BY Running DEF TypeOK, ControlFits, Errors, Writing
<1>2. ControlFits' BY DEF ControlFits, TryIsClean, CleanupIsAccountedFor, TypeOK
<1>3. TryIsClean' BY DEF ControlFits, TryIsClean, TypeOK
<1>4. OutcomeIsEarned' BY DEF ControlFits, TryIsClean, OutcomeIsEarned, TypeOK
<1>5. TasksAreOwned' BY DEF ControlFits, TryIsClean, TasksAreOwned, TypeOK
<1>6. CleanupIsAccountedFor' BY DEF ControlFits, TryIsClean, TasksAreOwned, CleanupIsAccountedFor, TypeOK
<1>7. SessionIsHeld' BY DEF TryIsClean, TasksAreOwned, SessionIsHeld, TypeOK
<1>8. CancellationIsKept' BY DEF ControlFits, TryIsClean, CancellationIsKept, TypeOK
<1>9. RowsFit' BY DEF RowsFit, SuccessRow, TryIsClean, ControlFits
<1>10. TasksAttest' BY DEF TasksAttest, ControlFits, TypeOK
<1>11. RowsAttest' BY DEF RowsAttest, Terminal, ControlFits, TypeOK
<1>12. QED BY <1>1, <1>2, <1>3, <1>4, <1>5, <1>6, <1>7, <1>8, <1>9, <1>10, <1>11

\* A further cancellation is remembered as well.
LEMMA CancelAgainKeeps == ASSUME CoreInv, CancelAgain PROVE CoreInv'
<1> USE DEF CREATE, RUN, CLOSE, RUNTIME_CLOSE, Stages, CleanupStages, TryStages, InTry, AfterCleanup,
            Verdicts, ctlVars, taskVars, ownVars, verdictVars, endVars, Over, Succeeded
<1> USE RowsUnchanged DEF CoreInv, CancelAgain
<1>1. TypeOK' BY Running DEF TypeOK, ControlFits, Errors, Writing
<1>2. ControlFits' BY DEF ControlFits, TryIsClean, CleanupIsAccountedFor, TypeOK
<1>3. TryIsClean' BY DEF ControlFits, TryIsClean, TypeOK
<1>4. OutcomeIsEarned' BY DEF ControlFits, TryIsClean, OutcomeIsEarned, TypeOK
<1>5. TasksAreOwned' BY DEF ControlFits, TryIsClean, TasksAreOwned, TypeOK
<1>6. CleanupIsAccountedFor' BY DEF ControlFits, TryIsClean, TasksAreOwned, CleanupIsAccountedFor, TypeOK
<1>7. SessionIsHeld' BY DEF TryIsClean, TasksAreOwned, SessionIsHeld, TypeOK
<1>8. CancellationIsKept' BY DEF ControlFits, TryIsClean, CancellationIsKept, TypeOK
<1>9. RowsFit' BY DEF RowsFit, SuccessRow, TryIsClean, ControlFits
<1>10. TasksAttest' BY DEF TasksAttest, ControlFits, TypeOK
<1>11. RowsAttest' BY DEF RowsAttest, Terminal, ControlFits, TypeOK
<1>12. QED BY <1>1, <1>2, <1>3, <1>4, <1>5, <1>6, <1>7, <1>8, <1>9, <1>10, <1>11

\* What the first awaits of the try block leave of the type.
LEMMA CreateReturnsTyped == ASSUME TypeOK, CreateReturns PROVE TypeOK'
<1>1. /\ pc' \in Writing \cup {"stage", "grace", "over"} /\ at' \in Stages \cup {"none"}
      /\ cancels' \in 0..2 /\ task' \in [Stages -> TaskStates]
  BY BeginFits DEF CreateReturns, Failing, Cancelling, Write, TypeOK, Writing, Stages
<1>2. error' \in Errors /\ adopted' \in BOOLEAN /\ raising' \in BOOLEAN /\ cancelled' \in BOOLEAN
  BY DEF CreateReturns, Failing, Cancelling, TypeOK, Errors
<1>3. QED BY <1>1, <1>2 DEF CreateReturns, TypeOK, endVars

\* What a run returns has its type.
LEMMA RunReturnsTyped == ASSUME TypeOK, RunReturns PROVE TypeOK'
<1>1. /\ pc' \in Writing \cup {"stage", "grace", "over"} /\ at' \in Stages \cup {"none"}
      /\ cancels' \in 0..2 /\ task' \in [Stages -> TaskStates]
  BY BeginFits DEF RunReturns, Failing, Cancelling, Write, TypeOK, Writing, BeginCleanup, Stages
<1>2. /\ error' \in Errors /\ raising' \in BOOLEAN /\ cancelled' \in BOOLEAN
      /\ outcome' \in {"none", "completed", "incomplete"}
  BY DEF RunReturns, Failing, Cancelling, TypeOK, Errors
<1>3. QED BY <1>1, <1>2 DEF RunReturns, TypeOK, endVars, ownVars

\* The session that create returns is held from then on.
LEMMA CreateReturnsKeeps == ASSUME CoreInv, CreateReturns PROVE CoreInv'
<1> USE DEF CREATE, RUN, CLOSE, RUNTIME_CLOSE, Stages, CleanupStages, TryStages, InTry, AfterCleanup,
            Verdicts, ctlVars, taskVars, ownVars, verdictVars, endVars, Over, Succeeded
<1> USE RowsUnchanged DEF CoreInv, CreateReturns, Begin, Write, Failing, Cancelling
<1>1. TypeOK' BY CreateReturnsTyped
<1>2. ControlFits' BY DEF ControlFits, TryIsClean, CleanupIsAccountedFor, TypeOK
<1>3. TryIsClean' BY DEF ControlFits, TryIsClean, TypeOK
<1>4. OutcomeIsEarned' BY DEF ControlFits, TryIsClean, OutcomeIsEarned, TypeOK
<1>5. TasksAreOwned' BY DEF ControlFits, TryIsClean, TasksAreOwned, TypeOK
<1>6. CleanupIsAccountedFor' BY DEF ControlFits, TryIsClean, TasksAreOwned, CleanupIsAccountedFor, TypeOK
<1>7. SessionIsHeld' BY DEF TryIsClean, TasksAreOwned, SessionIsHeld, TypeOK
<1>8. CancellationIsKept' BY DEF ControlFits, TryIsClean, CancellationIsKept, TypeOK
<1>9. RowsFit' BY DEF RowsFit, SuccessRow, TryIsClean, ControlFits
<1>10. TasksAttest' BY DEF TasksAttest, ControlFits, TypeOK
<1>11. RowsAttest' BY DEF RowsAttest, Terminal, ControlFits, TypeOK
<1>12. QED BY <1>1, <1>2, <1>3, <1>4, <1>5, <1>6, <1>7, <1>8, <1>9, <1>10, <1>11

\* A run that returns decides between a result and an error.
LEMMA RunReturnsKeeps == ASSUME CoreInv, RunReturns PROVE CoreInv'
<1> USE DEF CREATE, RUN, CLOSE, RUNTIME_CLOSE, Stages, CleanupStages, TryStages, InTry, AfterCleanup,
            Verdicts, ctlVars, taskVars, ownVars, verdictVars, endVars, Over, Succeeded
<1> USE RowsUnchanged DEF CoreInv, RunReturns, BeginCleanup, Begin, Write, Failing, Cancelling
<1>1. TypeOK' BY RunReturnsTyped
<1>2. ControlFits' BY DEF ControlFits, TryIsClean, CleanupIsAccountedFor, TypeOK
<1>3. TryIsClean' BY DEF ControlFits, TryIsClean, TypeOK
<1>4. OutcomeIsEarned' BY DEF ControlFits, TryIsClean, OutcomeIsEarned, TypeOK
<1>5. TasksAreOwned' BY DEF ControlFits, TryIsClean, TasksAreOwned, TypeOK
<1>6. CleanupIsAccountedFor' BY DEF ControlFits, TryIsClean, TasksAreOwned, CleanupIsAccountedFor, TypeOK
<1>7. SessionIsHeld' BY DEF TryIsClean, TasksAreOwned, SessionIsHeld, TypeOK
<1>8. CancellationIsKept' BY DEF ControlFits, TryIsClean, CancellationIsKept, TypeOK
<1>9. RowsFit' BY DEF RowsFit, SuccessRow, TryIsClean, ControlFits
<1>10. TasksAttest' BY DEF TasksAttest, ControlFits, TypeOK
<1>11. RowsAttest' BY DEF RowsAttest, Terminal, ControlFits, TypeOK
<1>12. QED BY <1>1, <1>2, <1>3, <1>4, <1>5, <1>6, <1>7, <1>8, <1>9, <1>10, <1>11

\* A cancelled stage has ended, and the cancellation is raised again.
LEMMA StageCancelledKeeps == ASSUME CoreInv, StageCancelled PROVE CoreInv'
<1> USE DEF CREATE, RUN, CLOSE, RUNTIME_CLOSE, Stages, CleanupStages, TryStages, InTry, AfterCleanup,
            Verdicts, ctlVars, taskVars, ownVars, verdictVars, endVars, Over, Succeeded
<1> USE RowsUnchanged DEF CoreInv, StageCancelled, GraceOver, TrackOwned, Write, Cancelling
<1>1. TypeOK' BY Running DEF TypeOK, ControlFits, Errors, Writing
<1>2. ControlFits' BY DEF ControlFits, TryIsClean, CleanupIsAccountedFor, TypeOK
<1>3. TryIsClean' BY DEF ControlFits, TryIsClean, TypeOK
<1>4. OutcomeIsEarned' BY DEF ControlFits, TryIsClean, OutcomeIsEarned, TypeOK
<1>5. TasksAreOwned' BY DEF ControlFits, TryIsClean, TasksAreOwned, TypeOK
<1>6. CleanupIsAccountedFor' BY DEF ControlFits, TryIsClean, TasksAreOwned, CleanupIsAccountedFor, TypeOK
<1>7. SessionIsHeld' BY DEF TryIsClean, TasksAreOwned, SessionIsHeld, TypeOK
<1>8. CancellationIsKept' BY DEF ControlFits, TryIsClean, CancellationIsKept, TypeOK
<1>9. RowsFit' BY DEF RowsFit, SuccessRow, TryIsClean, ControlFits
<1>10. TasksAttest' BY DEF TasksAttest, ControlFits, TypeOK
<1>11. RowsAttest' BY DEF RowsAttest, Terminal, ControlFits, TypeOK
<1>12. QED BY <1>1, <1>2, <1>3, <1>4, <1>5, <1>6, <1>7, <1>8, <1>9, <1>10, <1>11

\* A cancellation in the grace of the deadline loses what the stage returned.
LEMMA StageCancelledLateKeeps == ASSUME CoreInv, StageCancelledLate PROVE CoreInv'
<1> USE DEF CREATE, RUN, CLOSE, RUNTIME_CLOSE, Stages, CleanupStages, TryStages, InTry, AfterCleanup,
            Verdicts, ctlVars, taskVars, ownVars, verdictVars, endVars, Over, Succeeded
<1> USE RowsUnchanged DEF CoreInv, StageCancelledLate, GraceOver, TrackOwned, Write, Cancelling
<1>1. TypeOK' BY Running DEF TypeOK, ControlFits, Errors, Writing
<1>2. ControlFits' BY DEF ControlFits, TryIsClean, CleanupIsAccountedFor, TypeOK
<1>3. TryIsClean' BY DEF ControlFits, TryIsClean, TypeOK
<1>4. OutcomeIsEarned' BY DEF ControlFits, TryIsClean, OutcomeIsEarned, TypeOK
<1>5. TasksAreOwned' BY DEF ControlFits, TryIsClean, TasksAreOwned, TypeOK
<1>6. CleanupIsAccountedFor' BY DEF ControlFits, TryIsClean, TasksAreOwned, CleanupIsAccountedFor, TypeOK
<1>7. SessionIsHeld' BY DEF TryIsClean, TasksAreOwned, SessionIsHeld, TypeOK
<1>8. CancellationIsKept' BY DEF ControlFits, TryIsClean, CancellationIsKept, TypeOK
<1>9. RowsFit' BY DEF RowsFit, SuccessRow, TryIsClean, ControlFits
<1>10. TasksAttest' BY DEF TasksAttest, ControlFits, TypeOK
<1>11. RowsAttest' BY DEF RowsAttest, Terminal, ControlFits, TypeOK
<1>12. QED BY <1>1, <1>2, <1>3, <1>4, <1>5, <1>6, <1>7, <1>8, <1>9, <1>10, <1>11

\* The grace of a stage whose deadline has passed is over.
LEMMA StageTimedOutKeeps == ASSUME CoreInv, StageTimedOut PROVE CoreInv'
<1> USE DEF CREATE, RUN, CLOSE, RUNTIME_CLOSE, Stages, CleanupStages, TryStages, InTry, AfterCleanup,
            Verdicts, ctlVars, taskVars, ownVars, verdictVars, endVars, Over, Succeeded
<1> USE RowsUnchanged DEF CoreInv, StageTimedOut, GraceOver, TrackOwned, Write, Failing
<1>1. TypeOK' BY Running DEF TypeOK, ControlFits, Errors, Writing
<1>2. ControlFits' BY DEF ControlFits, TryIsClean, CleanupIsAccountedFor, TypeOK
<1>3. TryIsClean' BY DEF ControlFits, TryIsClean, TypeOK
<1>4. OutcomeIsEarned' BY DEF ControlFits, TryIsClean, OutcomeIsEarned, TypeOK
<1>5. TasksAreOwned' BY DEF ControlFits, TryIsClean, TasksAreOwned, TypeOK
<1>6. CleanupIsAccountedFor' BY DEF ControlFits, TryIsClean, TasksAreOwned, CleanupIsAccountedFor, TypeOK
<1>7. SessionIsHeld' BY DEF TryIsClean, TasksAreOwned, SessionIsHeld, TypeOK
<1>8. CancellationIsKept' BY DEF ControlFits, TryIsClean, CancellationIsKept, TypeOK
<1>9. RowsFit' BY DEF RowsFit, SuccessRow, TryIsClean, ControlFits
<1>10. TasksAttest' BY DEF TasksAttest, ControlFits, TypeOK
<1>11. RowsAttest' BY DEF RowsAttest, Terminal, ControlFits, TypeOK
<1>12. QED BY <1>1, <1>2, <1>3, <1>4, <1>5, <1>6, <1>7, <1>8, <1>9, <1>10, <1>11

\* The session has been closed, or given up.
LEMMA SessionClosedKeeps ==
    ASSUME CoreInv, at = CLOSE, CleanupReturns \/ CleanupInterrupted
    PROVE  CoreInv'
<1> USE DEF CREATE, RUN, CLOSE, RUNTIME_CLOSE, Stages, CleanupStages, TryStages, InTry, AfterCleanup,
            Verdicts, Over, Succeeded
<1> DEFINE clean == pc = "stage" /\ task[CLOSE] # "running" /\ task[CLOSE] = "value"
<1>1. /\ Begin(RUNTIME_CLOSE)
      /\ pc' = "stage" /\ at' = RUNTIME_CLOSE
      /\ UNCHANGED <<mode, how, leftover, adopted, outcome, error, raising, cancelled, rows,
                     quarantined, result>>
  BY DEF CleanupReturns, CleanupInterrupted, NextCleanup, Begin
<1>2. /\ failures' = IF clean THEN failures ELSE failures \cup {CLOSE}
      /\ owned' = IF task[CLOSE] = "running" THEN owned \cup {CLOSE} ELSE owned
      /\ cleanupCancelled' = (cleanupCancelled \/ how[CLOSE] \notin {"none", "deadline"})
      /\ task[CLOSE] = "running" => how[CLOSE] # "none"
  BY DEF CleanupReturns, CleanupInterrupted, NextCleanup, CoreInv, ControlFits, TypeOK, GraceOver, TrackOwned
<1>3. /\ task'[RUNTIME_CLOSE] = "running"
      /\ \A t \in Stages : t # RUNTIME_CLOSE => task'[t] = task[t]
      /\ TypeOK'
  BY <1>1, <1>2, BeginFits DEF CoreInv, TypeOK
<1> HIDE DEF clean
<1> USE <1>1, <1>2, <1>3, RowsUnchanged DEF CoreInv
<1>4. ControlFits' BY DEF ControlFits, CleanupIsAccountedFor
<1>5. TryIsClean' BY DEF ControlFits, TryIsClean
<1>6. OutcomeIsEarned' BY DEF ControlFits, OutcomeIsEarned
<1>7. TasksAreOwned'
  <2>1. /\ \A s \in Stages : task'[s] = "running" =>
              IF AfterCleanup' THEN s \in owned' /\ s \in quarantined' ELSE s \in owned' \/ s = at'
    BY DEF ControlFits, TryIsClean, TasksAreOwned, TypeOK
  <2>2. ~AfterCleanup' => quarantined' = {}
    BY DEF ControlFits, TasksAreOwned
  <2>3. \A s \in owned' : how'[s] # "none"
    BY DEF ControlFits, TasksAreOwned
  <2>4. owned' \cap CleanupStages \subseteq failures'
    BY DEF TasksAreOwned, clean
  <2>5. /\ quarantined' \subseteq owned' \cup {"agent"}
        /\ "agent" \in quarantined' => failures' # {}
    BY DEF ControlFits, TasksAreOwned, TypeOK
  <2>6. QED BY <2>1, <2>2, <2>3, <2>4, <2>5 DEF TasksAreOwned
<1>8. CleanupIsAccountedFor' BY DEF ControlFits, CleanupIsAccountedFor, clean
<1>9. SessionIsHeld' BY DEF SessionIsHeld
<1>10. CancellationIsKept' BY DEF ControlFits, CancellationIsKept, TypeOK
<1>11. RowsFit' BY DEF ControlFits, RowsFit, SuccessRow
<1>12. TasksAttest' /\ RowsAttest' BY DEF ControlFits, TasksAttest, RowsAttest, Terminal
<1>13. QED BY <1>3, <1>4, <1>5, <1>6, <1>7, <1>8, <1>9, <1>10, <1>11, <1>12

\* The runtime has been closed, or given up: what is left is quarantined.
LEMMA RuntimeClosedKeeps ==
    ASSUME CoreInv, at = RUNTIME_CLOSE, CleanupReturns \/ CleanupInterrupted
    PROVE  CoreInv'
<1> USE DEF CREATE, RUN, CLOSE, RUNTIME_CLOSE, Stages, CleanupStages, TryStages, InTry, AfterCleanup,
            Verdicts, Over, Succeeded
<1> DEFINE clean == pc = "stage" /\ task[RUNTIME_CLOSE] = "value"
           given == IF clean THEN failures ELSE failures \cup {RUNTIME_CLOSE}
<1>1. /\ Finalize(given)
      /\ UNCHANGED <<mode, how, leftover, adopted, outcome, error, raising, cancelled, rows, task>>
      /\ owned' = IF task[RUNTIME_CLOSE] = "running" THEN owned \cup {RUNTIME_CLOSE} ELSE owned
      /\ cleanupCancelled' = (cleanupCancelled \/ how[RUNTIME_CLOSE] \notin {"none", "deadline"})
      /\ task[RUNTIME_CLOSE] = "running" => how[RUNTIME_CLOSE] # "none"
  BY DEF CleanupReturns, CleanupInterrupted, NextCleanup, CoreInv, ControlFits, TypeOK, GraceOver, TrackOwned
<1>2. /\ failures' = given \cup (IF leftover = "running" THEN {"decision_runtime_tasks"} ELSE {})
      /\ quarantined' = {s \in owned' : task[s] = "running"}
                            \cup (IF leftover = "running" THEN {"agent"} ELSE {})
      /\ at' = "none" /\ cancels' = 0
      /\ \/ pc' = "run_cleanup_failed" /\ result' = result /\ failures' # {}
         \/ pc' = "over" /\ result' = "raised" /\ failures' = {} /\ (raising' \/ cleanupCancelled')
         \/ /\ pc' \in {"drift", "agent_bindings_finalized"} /\ result' = result
            /\ failures' = {} /\ ~raising' /\ ~cleanupCancelled'
  <2>1. failures' = {} => cleanupCancelled' = cleanupCancelled
    BY <1>1 DEF Finalize, CoreInv, ControlFits, TypeOK
  <2>2. QED BY <1>1, <2>1 DEF Finalize, AfterFinally, Write, Finish
<1> HIDE DEF clean, given
<1> USE <1>1, <1>2, RowsUnchanged DEF CoreInv
<1>3. TypeOK'
  <2>1. /\ owned' \subseteq Stages /\ quarantined' \subseteq Stages \cup {"agent"}
        /\ failures' \subseteq Stages \cup {"decision_runtime_tasks"}
        /\ cleanupCancelled' \in BOOLEAN
    BY DEF TypeOK, given
  <2>2. pc' \in Writing \cup {"stage", "grace", "over"}
    BY DEF Writing
  <2>3. QED BY <2>1, <2>2 DEF TypeOK
<1>4. ControlFits' BY DEF ControlFits
<1>5. TryIsClean' BY DEF ControlFits, TryIsClean
<1>6. OutcomeIsEarned' BY DEF ControlFits, OutcomeIsEarned
<1>7. TasksAreOwned'
  <2>1. /\ \A s \in Stages : task'[s] = "running" =>
              IF AfterCleanup' THEN s \in owned' /\ s \in quarantined' ELSE s \in owned' \/ s = at'
    BY DEF ControlFits, TryIsClean, TasksAreOwned, TypeOK
  <2>2. ~AfterCleanup' => quarantined' = {}
    BY DEF ControlFits, TasksAreOwned
  <2>3. \A s \in owned' : how'[s] # "none"
    BY DEF ControlFits, TasksAreOwned
  <2>4. owned' \cap CleanupStages \subseteq failures'
    BY DEF TasksAreOwned, clean, given
  <2>5. /\ quarantined' \subseteq owned' \cup {"agent"}
        /\ "agent" \in quarantined' => failures' # {}
    BY DEF ControlFits, TasksAreOwned, TypeOK
  <2>6. QED BY <2>1, <2>2, <2>3, <2>4, <2>5 DEF TasksAreOwned
<1>8. CleanupIsAccountedFor' BY DEF ControlFits, CleanupIsAccountedFor, clean, given
<1>9. SessionIsHeld' BY DEF SessionIsHeld
<1>10. CancellationIsKept' BY DEF ControlFits, CancellationIsKept, TypeOK
<1>11. RowsFit' BY DEF ControlFits, RowsFit, SuccessRow
<1>12. TasksAttest' /\ RowsAttest' BY DEF ControlFits, TasksAttest, RowsAttest, Terminal
<1>13. QED BY <1>3, <1>4, <1>5, <1>6, <1>7, <1>8, <1>9, <1>10, <1>11, <1>12

-----------------------------------------------------------------------------
(* The rows that are written.                                               *)

\* A sink stores the row or does not.
LEMMA SinkFits ==
    ASSUME TypeOK, NEW row \in RowKinds,
           (\E ok \in BOOLEAN : Sink(row, ok)) \/ SinkCancelled(row)
    PROVE  rows' \in Seq(RowKinds) /\ KeptRows' \in {KeptRows, KeptRows \cup {row}}
BY RowAdded, RowsUnchanged DEF TypeOK, Sink, SinkCancelled

\* The row before a stage, and what follows when it cannot be written.
LEMMA StartedRowKeeps == ASSUME CoreInv, StartedRow PROVE CoreInv'
<1> USE DEF CREATE, RUN, CLOSE, RUNTIME_CLOSE, Stages, CleanupStages, TryStages, InTry, AfterCleanup,
            Verdicts, Over, Succeeded, taskVars, ownVars, verdictVars
<1> USE DEF CoreInv
<1>1. rows' \in Seq(RowKinds) /\ KeptRows' \in {KeptRows, KeptRows \cup {"run_started"}}
  BY SinkFits DEF StartedRow, RowKinds
<1>2. /\ pc = "run_started" /\ at = "none"
      /\ UNCHANGED <<mode, how, leftover, adopted, owned, quarantined, outcome, cleanupCancelled,
                     failures, result>>
  BY DEF StartedRow, ControlFits
<1>3. CASE Begin(IF adopted THEN RUN ELSE CREATE) /\ UNCHANGED <<error, raising, cancelled>>
  <2> DEFINE s == IF adopted THEN RUN ELSE CREATE
  <2>1. TypeOK' /\ task'[s] = "running" /\ \A t \in Stages : t # s => task'[t] = task[t]
    BY <1>1, <1>2, <1>3, BeginFits DEF TypeOK
  <2>2. pc' = "stage" /\ at' = s
    BY <1>3 DEF Begin
  <2> HIDE DEF s
  <2> USE <1>1, <1>2, <1>3, <2>1, <2>2
  <2>3. ControlFits' BY DEF ControlFits, TryIsClean, s
  <2>4. TryIsClean' BY DEF TryIsClean, TerminalRows, s, TypeOK
  <2>5. OutcomeIsEarned' BY DEF OutcomeIsEarned, s
  <2>6. TasksAreOwned' BY DEF TryIsClean, TasksAreOwned, s
  <2>7. CleanupIsAccountedFor' /\ SessionIsHeld' BY DEF CleanupIsAccountedFor, SessionIsHeld, TryIsClean, s
  <2>8. CancellationIsKept' BY DEF TryIsClean, CancellationIsKept, s
  <2>9. RowsFit' BY DEF TryIsClean, ControlFits, RowsFit, TerminalRows, SuccessRows
  <2>10. TasksAttest' /\ RowsAttest' BY DEF ControlFits, TasksAttest, RowsAttest
  <2>11. QED BY <2>3, <2>4, <2>5, <2>6, <2>7, <2>8, <2>9, <2>10
<1>4. CASE (Failing("EnvironmentError") \/ Cancelling) /\ UNCHANGED task
  <2>1. /\ pc' = "handler" /\ at' = "none" /\ cancels' = 0 /\ task' = task
        /\ \/ error' = "EnvironmentError" /\ raising' = raising /\ cancelled' = cancelled
           \/ raising' = TRUE /\ cancelled' = TRUE /\ error' = error
    BY <1>4 DEF Failing, Cancelling, Write
  <2> USE <1>1, <1>2, <2>1
  <2>2. TypeOK'
    <3>1. error' \in Errors /\ raising' \in BOOLEAN /\ cancelled' \in BOOLEAN BY DEF TypeOK, Errors
    <3>2. pc' \in Writing /\ cancels' \in 0..2 BY DEF Writing
    <3>3. QED BY <3>1, <3>2 DEF TypeOK
  <2>3. ControlFits' BY DEF ControlFits, TryIsClean
  <2>4. TryIsClean' BY DEF TryIsClean, TerminalRows
  <2>5. OutcomeIsEarned' BY DEF OutcomeIsEarned
  <2>6. TasksAreOwned' BY DEF TryIsClean, TasksAreOwned
  <2>7. CleanupIsAccountedFor' /\ SessionIsHeld' BY DEF CleanupIsAccountedFor, SessionIsHeld, TryIsClean
  <2>8. CancellationIsKept' BY DEF TryIsClean, CancellationIsKept
  <2>9. RowsFit' BY DEF TryIsClean, ControlFits, RowsFit, TerminalRows, SuccessRows
  <2>10. TasksAttest' /\ RowsAttest' BY DEF ControlFits, TasksAttest, RowsAttest
  <2>11. QED BY <2>2, <2>3, <2>4, <2>5, <2>6, <2>7, <2>8, <2>9, <2>10
<1>5. QED BY <1>3, <1>4 DEF StartedRow

\* The row of an error, and the way to the cleanup.
LEMMA HandlerRowKeeps == ASSUME CoreInv, HandlerRow PROVE CoreInv'
<1> USE DEF CREATE, RUN, CLOSE, RUNTIME_CLOSE, Stages, CleanupStages, TryStages, InTry, AfterCleanup,
            Verdicts, Over, Succeeded, taskVars, ownVars, verdictVars
<1> USE DEF CoreInv
<1> DEFINE row == IF cancelled THEN "run_cancelled" ELSE "run_failed"
           s == IF adopted THEN CLOSE ELSE RUNTIME_CLOSE
<1>1. rows' \in Seq(RowKinds) /\ KeptRows' \in {KeptRows, KeptRows \cup {row}}
  BY SinkFits DEF HandlerRow, RowKinds, TerminalRows
<1>2. /\ pc = "handler" /\ at = "none" /\ pc' = "stage" /\ at' = s /\ raising' \in {raising, TRUE}
      /\ UNCHANGED <<mode, how, leftover, adopted, owned, quarantined, outcome, error, cancelled,
                     cleanupCancelled, failures, result>>
  BY DEF HandlerRow, ControlFits, BeginCleanup, Begin
<1>3. TypeOK' /\ task'[s] = "running" /\ \A t \in Stages : t # s => task'[t] = task[t]
  <2>1. Begin(s) /\ s \in Stages BY DEF HandlerRow, BeginCleanup
  <2>2. raising' \in BOOLEAN BY <1>2 DEF TypeOK
  <2> HIDE DEF s
  <2>3. QED BY <1>1, <1>2, <2>1, <2>2, BeginFits DEF TypeOK
<1> HIDE DEF row, s
<1> USE <1>1, <1>2, <1>3
<1>4. ControlFits' BY DEF ControlFits, TryIsClean, s
<1>5. TryIsClean' BY DEF TryIsClean, s
<1>6. OutcomeIsEarned' BY DEF OutcomeIsEarned, s
<1>7. TasksAreOwned' BY DEF TasksAreOwned, s
<1>8. CleanupIsAccountedFor' BY DEF CleanupIsAccountedFor, TryIsClean, s
<1>9. SessionIsHeld' BY DEF SessionIsHeld, s
<1>10. CancellationIsKept' BY DEF TryIsClean, CancellationIsKept, s, TypeOK
<1>11. RowsFit' BY DEF TryIsClean, OutcomeIsEarned, ControlFits, RowsFit, TerminalRows, SuccessRows, row
<1>12. TasksAttest' /\ RowsAttest' BY DEF ControlFits, TasksAttest, RowsAttest
<1>13. QED BY <1>3, <1>4, <1>5, <1>6, <1>7, <1>8, <1>9, <1>10, <1>11, <1>12

\* Before the last row only a drift can add a terminal one.
RowsGrow ==
    /\ KeptRows \subseteq KeptRows'
    /\ \A row \in KeptRows' \ KeptRows : row \notin TerminalRows \/ (row = "run_failed" /\ pc = "drift")

\* The rows after the finally block change the error, the rows and the result.
LEMMA VerdictRowKeeps ==
    ASSUME CoreInv, CleanupRow \/ DriftRow \/ BindingsRow, RowsGrow
    PROVE  CoreInv'
<1> USE DEF CREATE, RUN, CLOSE, RUNTIME_CLOSE, Stages, CleanupStages, TryStages, InTry, AfterCleanup,
            Verdicts, Over, Succeeded, taskVars, ownVars, verdictVars
<1> USE DEF CoreInv, RowsGrow
<1>1. /\ pc \in {"run_cleanup_failed", "drift", "agent_bindings_finalized"} /\ at = "none" /\ at' = "none"
      /\ cancels' = 0 /\ pc' \in {"over", "drift", "agent_bindings_finalized", "final"}
      /\ UNCHANGED <<mode, how, task, leftover, adopted, owned, quarantined, outcome, raising,
                     cancelled, cleanupCancelled, failures>>
  BY DEF CleanupRow, DriftRow, BindingsRow, ControlFits, AfterFinally, Write, Finish
<1> DEFINE Lawful ==
             /\ error' \in Errors /\ (error # "none" => error' # "none")
             /\ IF pc' = "over" THEN result' = "raised" ELSE result' = result
             /\ pc' # "over" => /\ ~raising /\ ~cleanupCancelled
                                /\ pc = "run_cleanup_failed" => error' # "none"
                                /\ "run_failed" \in KeptRows' => error' # "none"
<1>2. ASSUME CleanupRow PROVE Lawful /\ rows' \in Seq(RowKinds)
  <2>1. pc = "run_cleanup_failed" /\ "run_failed" \in KeptRows' => error # "none" /\ ~cancelled
    BY <1>2, <1>1 DEF RowsFit, ControlFits, TerminalRows
  <2>2. \/ pc' = "over" /\ result' = "raised" /\ error' = error
        \/ /\ error' = IF cancelled \/ cleanupCancelled THEN error ELSE "EnvironmentCleanupError"
           /\ \/ pc' = "over" /\ result' = "raised"
              \/ ~raising /\ ~cleanupCancelled /\ pc' # "over" /\ result' = result
    BY <1>2 DEF CleanupRow, AfterFinally, Write, Finish
  <2>3. Lawful BY <2>1, <2>2, <1>2 DEF Errors, TypeOK, CleanupRow, CancellationIsKept
  <2>4. rows' \in Seq(RowKinds)
    BY <1>2, SinkFits DEF CleanupRow, RowKinds
  <2>5. QED BY <2>3, <2>4
<1>3. ASSUME DriftRow PROVE Lawful /\ rows' \in Seq(RowKinds)
  <2>1. /\ error' \in {error, IF error = "none" THEN "AgentBindingDriftError" ELSE error}
        /\ \/ pc' = "final" /\ result' = result /\ rows' = rows /\ error' = error
           \/ pc' = "final" /\ result' = result /\ error' # "none"
           \/ pc' = "over" /\ result' = "raised"
    BY <1>3 DEF DriftRow, Write, Finish
  <2>2. Lawful BY <2>1, <1>3, RowsUnchanged DEF Errors, TypeOK, DriftRow, CancellationIsKept, RowsFit, ControlFits
  <2>3. rows' \in Seq(RowKinds)
    BY <1>3, SinkFits DEF DriftRow, RowKinds, TerminalRows, TypeOK
  <2>4. QED BY <2>2, <2>3
<1>4. ASSUME BindingsRow PROVE Lawful /\ rows' \in Seq(RowKinds)
  <2>1. /\ error' \in {error, IF error = "none" THEN "EvidenceSinkError" ELSE error}
        /\ \/ pc' = "final" /\ result' = result
           \/ pc' = "over" /\ result' = "raised"
    BY <1>4 DEF BindingsRow, Write, Finish
  <2>2. Lawful BY <2>1, <1>4 DEF Errors, TypeOK, BindingsRow, CancellationIsKept, RowsFit, ControlFits, TerminalRows
  <2>3. rows' \in Seq(RowKinds)
    BY <1>4, SinkFits DEF BindingsRow, RowKinds
  <2>4. QED BY <2>2, <2>3
<1>5. Lawful /\ rows' \in Seq(RowKinds)
  <2> HIDE DEF Lawful
  <2>1. QED BY <1>2, <1>3, <1>4
<1> USE <1>1, <1>5
<1>6. TypeOK' BY DEF TypeOK, Writing
<1>7. ControlFits' BY DEF ControlFits
<1>8. TryIsClean' BY DEF TryIsClean
<1>9. OutcomeIsEarned' BY DEF OutcomeIsEarned
<1>10. TasksAreOwned' BY DEF TasksAreOwned
<1>11. CleanupIsAccountedFor' /\ SessionIsHeld' BY DEF CleanupIsAccountedFor, SessionIsHeld
<1>12. CancellationIsKept' BY DEF CancellationIsKept
<1>13. RowsFit' BY DEF ControlFits, RowsFit, TerminalRows, SuccessRows, CancellationIsKept
<1>14. TasksAttest' /\ RowsAttest' BY DEF ControlFits, TasksAttest, RowsAttest
<1>15. QED BY <1>6, <1>7, <1>8, <1>9, <1>10, <1>11, <1>12, <1>13, <1>14

\* The last rows, and the end.
LEMMA FinalRowKeeps == ASSUME CoreInv, FinalRow PROVE CoreInv'
<1> USE DEF CREATE, RUN, CLOSE, RUNTIME_CLOSE, Stages, CleanupStages, TryStages, InTry, AfterCleanup,
            Verdicts, Over, Succeeded, taskVars, ownVars, verdictVars
<1> USE DEF CoreInv
<1>1. /\ pc = "final" /\ at = "none" /\ pc' = "over" /\ at' = "none" /\ cancels' = 0
      /\ ~raising /\ ~cleanupCancelled /\ ~cancelled /\ result = "none"
      /\ KeptRows \cap SuccessRows = {} /\ "run_cancelled" \notin KeptRows
      /\ UNCHANGED <<mode, how, task, leftover, adopted, owned, quarantined, outcome, raising,
                     cancelled, cleanupCancelled, failures>>
  BY DEF FinalRow, ControlFits, CancellationIsKept, RowsFit, Finish
<1>2. \/ error # "none" /\ error' = error /\ rows' = rows /\ result' \in {"timed_out", "failed"}
      \/ error = "none" /\ error' = "none" /\ rows' = Append(rows, SuccessRow) /\ result' = outcome
      \/ error = "none" /\ error' = "EvidenceSinkError" /\ rows' = rows /\ result' = "failed"
      \/ /\ error = "none" /\ error' = "none" /\ rows' \in {rows, Append(rows, SuccessRow)}
         /\ result' = "raised"
  BY <1>1 DEF FinalRow, Sink, SinkCancelled, Finish, Status, SuccessRow
<1>3. /\ SuccessRow \in SuccessRows /\ SuccessRow \in RowKinds
      /\ error = "none" => KeptRows \cap TerminalRows = {}
      /\ outcome # "none" => SuccessRow = IF outcome = "completed" THEN "run_completed" ELSE "run_incomplete"
  BY <1>1 DEF SuccessRow, SuccessRows, RowKinds, TerminalRows, RowsFit
<1>4. /\ rows' \in Seq(RowKinds)
      /\ IF rows' = rows THEN KeptRows' = KeptRows ELSE KeptRows' = KeptRows \cup {SuccessRow}
  BY <1>2, <1>3, RowAdded, RowsUnchanged DEF TypeOK
<1>5. error = "none" => /\ outcome \in {"completed", "incomplete"} /\ failures \subseteq failures
                        /\ \A s \in TryStages : task[s] # "running" /\ s \notin owned
                        /\ adopted /\ failures = {}
  BY <1>1 DEF OutcomeIsEarned, CleanupIsAccountedFor, TypeOK
<1>6. TypeOK' BY <1>1, <1>2, <1>4, <1>5 DEF TypeOK, Writing, Errors
<1>7. ControlFits' BY <1>1, <1>2 DEF ControlFits
<1>8. TryIsClean' BY <1>1 DEF TryIsClean
<1>9. OutcomeIsEarned' BY <1>1, <1>2 DEF OutcomeIsEarned
<1>10. TasksAreOwned' BY <1>1 DEF TasksAreOwned
<1>11. CleanupIsAccountedFor' /\ SessionIsHeld' BY <1>1 DEF CleanupIsAccountedFor, SessionIsHeld
<1>12. CancellationIsKept' BY <1>1 DEF CancellationIsKept
<1>13. RowsFit'
  <2>1. SuccessRow' = SuccessRow BY <1>1 DEF SuccessRow
  <2>2. SuccessRow \in TerminalRows BY DEF SuccessRow, TerminalRows
  <2>3. CASE rows' = rows
    BY <1>1, <1>2, <1>4, <2>3 DEF RowsFit
  <2>4. CASE rows' # rows
    BY <1>1, <1>2, <1>3, <1>4, <1>5, <2>1, <2>2, <2>4 DEF RowsFit, SuccessRows
  <2>5. QED BY <2>3, <2>4
<1>14. TasksAttest'
  BY <1>1, <1>2, <1>5 DEF TasksAttest, TasksAreOwned, CleanupIsAccountedFor, TypeOK
<1>15. RowsAttest'
  <2>1. CASE error = "none" /\ rows' = Append(rows, SuccessRow) /\ result' = outcome
    <3>1. Len(rows) \in Nat /\ DOMAIN rows = 1..Len(rows) /\ Len(rows') = Len(rows) + 1
      BY <2>1, <1>3 DEF TypeOK
    <3>2. rows'[Len(rows')] = SuccessRow /\ \A i \in 1..Len(rows) : rows'[i] = rows[i]
      BY <3>1, <2>1, <1>3 DEF TypeOK
    <3>3. \A i \in 1..Len(rows) : rows[i] \notin TerminalRows
      BY <3>1, <1>3, <2>1 DEF KeptRows
    <3>4. QED BY <3>1, <3>2, <3>3, <2>1, <1>3, <1>5 DEF RowsAttest, Terminal
  <2>2. CASE result' \notin {"completed", "incomplete"} BY <2>2 DEF RowsAttest
  <2>3. QED BY <2>1, <2>2, <1>2
<1>16. QED BY <1>6, <1>7, <1>8, <1>9, <1>10, <1>11, <1>12, <1>13, <1>14, <1>15

-----------------------------------------------------------------------------
\* Every step keeps the invariant of the lifecycle.
LEMMA CoreStep == CoreInv /\ [Next]_vars => CoreInv'
<1> SUFFICES ASSUME CoreInv, [Next]_vars PROVE CoreInv'
  OBVIOUS
<1>1. CASE CleanupReturns \/ CleanupInterrupted
  <2>1. at \in CleanupStages BY <1>1 DEF CleanupReturns, CleanupInterrupted
  <2>2. QED BY <1>1, <2>1, SessionClosedKeeps, RuntimeClosedKeeps DEF CleanupStages
<1>2. CASE CleanupRow
  <2>1. /\ pc = "run_cleanup_failed"
        /\ \/ \E ok \in BOOLEAN : Sink("run_cleanup_failed", ok)
           \/ SinkCancelled("run_cleanup_failed")
    BY <1>2 DEF CleanupRow
  <2>2. "run_cleanup_failed" \in RowKinds \ TerminalRows BY DEF RowKinds, TerminalRows
  <2>3. KeptRows' = KeptRows \/ KeptRows' = KeptRows \cup {"run_cleanup_failed"}
    BY <2>1, <2>2, SinkFits DEF CoreInv
  <2>4. RowsGrow BY <2>2, <2>3 DEF RowsGrow
  <2>5. QED BY <1>2, <2>4, VerdictRowKeeps
<1>3. CASE DriftRow
  <2>1. /\ pc = "drift"
        /\ \/ rows' = rows
           \/ \E ok \in BOOLEAN : Sink("run_failed", ok)
           \/ SinkCancelled("run_failed")
    BY <1>3 DEF DriftRow
  <2>2. "run_failed" \in RowKinds BY DEF RowKinds, TerminalRows
  <2>3. KeptRows' = KeptRows \/ KeptRows' = KeptRows \cup {"run_failed"}
    BY <2>1, <2>2, SinkFits, RowsUnchanged DEF CoreInv
  <2>4. RowsGrow BY <2>1, <2>3 DEF RowsGrow
  <2>5. QED BY <1>3, <2>4, VerdictRowKeeps
<1>4. CASE BindingsRow
  <2>1. \/ \E ok \in BOOLEAN : Sink("agent_bindings_finalized", ok)
        \/ SinkCancelled("agent_bindings_finalized")
    BY <1>4 DEF BindingsRow
  <2>2. "agent_bindings_finalized" \in RowKinds \ TerminalRows BY DEF RowKinds, TerminalRows
  <2>3. KeptRows' = KeptRows \/ KeptRows' = KeptRows \cup {"agent_bindings_finalized"}
    BY <2>1, <2>2, SinkFits DEF CoreInv
  <2>4. RowsGrow BY <2>2, <2>3 DEF RowsGrow
  <2>5. QED BY <1>4, <2>4, VerdictRowKeeps
<1>5. CASE UNCHANGED vars
  <2>1. KeptRows' = KeptRows BY <1>5, RowsUnchanged DEF vars, endVars
  <2>2. QED BY <1>5, <2>1
     DEF vars, ctlVars, taskVars, ownVars, verdictVars, endVars, CoreInv, TypeOK, ControlFits,
         TryIsClean, InTry, AfterCleanup, OutcomeIsEarned, TasksAreOwned, CleanupIsAccountedFor,
         SessionIsHeld, CancellationIsKept, RowsFit, SuccessRow, Over, TasksAttest, RowsAttest,
         Succeeded, Terminal
<1>6. QED
  BY <1>1, <1>2, <1>3, <1>4, <1>5, TaskEndsKeeps, AgentAbandonedKeeps, LeftoverEndsKeeps,
     DeadlinePassesKeeps, CallerCancelsStageKeeps, CancelAgainKeeps, CreateReturnsKeeps,
     RunReturnsKeeps, StageCancelledKeeps, StageCancelledLateKeeps, StageTimedOutKeeps,
     StartedRowKeeps, HandlerRowKeeps, FinalRowKeeps
  DEF Next, Advance

\* A lifecycle starts with nothing open.
LEMMA CoreInitially == Init => CoreInv
<1> SUFFICES ASSUME Init PROVE CoreInv
  OBVIOUS
<1> USE DEF Init, CREATE, RUN, CLOSE, RUNTIME_CLOSE, Stages, CleanupStages, TryStages, InTry,
            AfterCleanup, Verdicts, Over, Succeeded
<1>1. rows \in Seq(RowKinds) /\ KeptRows \subseteq {"run_started", "agent_bindings_finalized"}
  <2>1. CASE mode = "recorded"
    <3>1. rows = <<"run_started", "agent_bindings_finalized">> BY <2>1
    <3>2. /\ DOMAIN rows = 1..2 /\ rows[1] = "run_started" /\ rows[2] = "agent_bindings_finalized"
          /\ rows \in Seq({"run_started", "agent_bindings_finalized"})
      <4> HIDE DEF Init
      <4>1. QED BY <3>1
    <3>3. {"run_started", "agent_bindings_finalized"} \subseteq RowKinds BY DEF RowKinds
    <3>4. QED BY <3>2, <3>3 DEF KeptRows
  <2>2. CASE mode # "recorded"
    <3>1. rows = <<>> BY <2>2
    <3>2. QED BY <3>1 DEF RowKinds, KeptRows
  <2>3. QED BY <2>1, <2>2
<1>2. TypeOK
  <2>1. {"none", "running"} \subseteq TaskStates BY DEF TaskStates
  <2>2. task \in [Stages -> TaskStates] BY <2>1
  <2>3. /\ pc \in Writing \cup {"stage", "grace", "over"} /\ at \in Stages \cup {"none"}
        /\ cancels \in 0..2 /\ how \in [Stages -> {"none", "deadline", "caller", "both"}]
    BY DEF Writing
  <2>4. adopted \in BOOLEAN OBVIOUS
  <2>5. QED BY <1>1, <2>2, <2>3, <2>4 DEF TypeOK, Errors
<1>3. ControlFits /\ TryIsClean BY <1>1 DEF ControlFits, TryIsClean, TerminalRows
<1>4. OutcomeIsEarned /\ TasksAreOwned BY DEF OutcomeIsEarned, TasksAreOwned
<1>5. CleanupIsAccountedFor /\ SessionIsHeld BY DEF CleanupIsAccountedFor, SessionIsHeld
<1>6. CancellationIsKept /\ RowsFit BY <1>1 DEF CancellationIsKept, RowsFit, SuccessRows
<1>7. TasksAttest /\ RowsAttest BY DEF TasksAttest, RowsAttest
<1>8. QED BY <1>2, <1>3, <1>4, <1>5, <1>6, <1>7 DEF CoreInv

-----------------------------------------------------------------------------
\* The inductive invariant holds whatever the tasks, the caller and the sink do.
THEOREM CoreCorrect == Spec => []CoreInv
<1>1. QED BY CoreInitially, CoreStep, PTL DEF Spec

\* A result that says the run ended is backed by the whole lifecycle: the rows
\* are its own, both cleanup stages ended cleanly and no task is left; and rows
\* of different outcomes never meet in one log (_run_environment_lifecycle).
THEOREM SuccessIsEarned == Spec => []SuccessIsAttested
<1>1. CoreInv => SuccessIsAttested
  <2> SUFFICES ASSUME CoreInv PROVE SuccessIsAttested
    OBVIOUS
  <2>1. BackedByTheLifecycle BY DEF CoreInv, TasksAttest, RowsAttest, BackedByTheLifecycle
  <2>2. \E row : KeptRows \cap TerminalRows \subseteq {row}
    BY DEF CoreInv, RowsFit, TerminalRows, SuccessRows
  <2>3. Cardinality(KeptRows \cap TerminalRows) <= 1
    <3>1. PICK row : KeptRows \cap TerminalRows \subseteq {row} BY <2>2
    <3>2. IsFiniteSet({row}) /\ Cardinality({row}) = 1 BY FS_Singleton
    <3>3. QED BY <3>1, <3>2, FS_Subset
  <2>4. result \in {"failed", "timed_out"} =>
           KeptRows \cap {"run_completed", "run_incomplete", "run_cancelled"} = {}
    BY DEF CoreInv, RowsFit, SuccessRows
  <2>5. NoContradictingRows BY <2>3, <2>4 DEF NoContradictingRows, KeptRows
  <2>6. QED BY <2>1, <2>5 DEF SuccessIsAttested, CoreInv
<1>2. QED BY <1>1, CoreCorrect, PTL

\* No task of the run and no session it received is left without an owner:
\* tasks that ignore cancellation are quarantined, adopted sessions are closed.
THEOREM NothingStaysOpen == Spec => []NothingIsLeftOpen
<1>1. CoreInv => NothingIsLeftOpen
  <2> SUFFICES ASSUME CoreInv PROVE NothingIsLeftOpen
    OBVIOUS
  <2> USE DEF CoreInv, AfterCleanup, Over, ControlFits, CREATE, RUN, CLOSE, RUNTIME_CLOSE, Stages
  <2>1. NothingRunsUnowned BY DEF NothingRunsUnowned, TasksAreOwned
  <2>2. AdoptedSessionIsClosed
    BY DEF AdoptedSessionIsClosed, TasksAreOwned, CleanupIsAccountedFor, SessionIsHeld
  <2>3. QED BY <2>1, <2>2 DEF NothingIsLeftOpen
<1>2. QED BY <1>1, CoreCorrect, PTL

\* The caller's cancellation is never swallowed, at whichever stage it strikes
\* and whatever was being cleaned up: the lifecycle raises it in the end.
THEOREM CancellationComesOut == Spec => []CancellationPropagates
<1>1. CoreInv => CancellationPropagates
  BY DEF CoreInv, CancellationPropagates, CancellationIsKept, ControlFits, Over, Stages, TryStages,
         CleanupStages, CREATE, RUN, CLOSE, RUNTIME_CLOSE
<1>2. QED BY <1>1, CoreCorrect, PTL

-----------------------------------------------------------------------------
(* The council.                                                             *)

IsRows(s) == s \in Seq({s[i] : i \in DOMAIN s})

This == <<mission, attempt>>
Teams(round) == ConsumedIn(round, "nomination", "team")
Ayes(round) == ConsumedIn(round, "vote", "approve")
Answered == {a \in Actors : chosen[a] # NoChoice}
ChoiceNames == {"none", "message", "speak", "team", "approve", "reject", "support", "sabotage"}

\* The parts of the state have their shape.
CouncilShape ==
    /\ setup \in Setups
    /\ stage \in CouncilStages \cup {"round"}
    /\ mission \in 1..Len(MissionSizes) /\ attempt \in 1..MaxProposals /\ turn \in Nat
    /\ asked \subseteq Actors /\ team \subseteq Actors /\ approvals \subseteq Actors
    /\ chosen \in [Actors -> [name : ChoiceNames, members : SUBSET Actors]]
    /\ DOMAIN count = DOMAIN ZeroCounts /\ count.proposals \in Nat
    /\ stage # "round" => count.proposals > 0
    /\ score \in [council : Nat, cipher : Nat]
    /\ IsRows(transcript)

\* The rounds that were opened: those of the current mission, in their order,
\* and none of a later one.
Opened == IF stage = "round" THEN attempt - 1 ELSE attempt
RoundsFit ==
    /\ \A r \in RoundsIn(transcript) : r[1] \in 1..mission
    /\ Proposals(mission) = {<<mission, k>> : k \in 1..Opened}

\* Nothing is consumed of what is yet to come.
NothingAhead ==
    /\ \A m \in Nat, k \in Nat :
          \/ m > mission \/ (m = mission /\ k > attempt)
          \/ m = mission /\ k = attempt /\ stage \in {"round", "cipher_council", "deliberation"}
          => Teams(<<m, k>>) = {} /\ Ayes(<<m, k>>) = {}
    /\ stage = "nomination" => Ayes(This) = {}
    /\ \A m \in Nat : m > mission \/ (m = mission /\ stage # "mission_commitment")
          => Commitments(m) = {}

\* Who is asked has no choice yet.
AskedHaveNoChoice == asked \cap Answered = {}
\* Nobody approves before the vote.
NoVotesYet == stage \in {"cipher_council", "deliberation", "nomination"} => approvals = {}

\* The team of this round is the one that was consumed.
IsTeam(T) ==
    /\ T \subseteq Actors /\ Cardinality(T) = MissionSizes[mission]
    /\ \E i \in Teams(This) : Teams(This) = {i} /\ transcript[i].members = T
NominationFits ==
    stage = "nomination" =>
        /\ asked \subseteq {Proposer}
        /\ chosen[Proposer] = NoChoice => Teams(This) = {}
        /\ chosen[Proposer] # NoChoice => IsTeam(chosen[Proposer].members)
TeamFits == stage \in {"vote", "mission_commitment"} => IsTeam(team)

\* So far every approval is a consumed vote of its actor.
Approving == approvals \cup {a \in Actors : chosen[a].name = "approve"}
VotesFit ==
    stage = "vote" =>
        /\ turn \in 1..Players /\ asked \subseteq {Order[turn]}
        /\ Answered \subseteq {Order[turn]}
        /\ approvals \subseteq {Order[i] : i \in 1..(turn - 1)}
        /\ Cardinality(Ayes(This)) = Cardinality(Approving)

\* So far every commitment of a member is a consumed one.
CommitmentsFit ==
    stage = "mission_commitment" =>
        /\ Carried(This) /\ asked \subseteq team
        /\ Answered \subseteq team
        /\ \A a \in Answered : chosen[a].name \in {"support", "sabotage"}
        /\ {transcript[i].id.actor : i \in Commitments(mission)} = Answered
        /\ Sabotaged(mission) <=> \E a \in Actors : chosen[a].name = "sabotage"

\* No earlier proposal of the mission was carried.
NoneCarriedBefore == \A k \in 1..(attempt - 1) : ~Carried(<<mission, k>>)

\* Each past mission was played by the one team that was carried.
IsSettled(m) ==
    /\ \E r \in Proposals(m) : {q \in Proposals(m) : Carried(q)} = {r}
    /\ Played(m) /\ Cardinality(Sent(m)) = MissionSizes[m]
PastMissions == 1..(mission - 1)
PastIsSettled == \A m \in PastMissions : IsSettled(m)
ScoreFits ==
    /\ score = [council |-> Cardinality({m \in PastMissions : ~Sabotaged(m)}),
                cipher  |-> Cardinality({m \in PastMissions : Sabotaged(m)})]
    /\ score.council < VictoryTarget /\ score.cipher < VictoryTarget

\* Only a cipher sabotages.
SabotageIsOfCiphers ==
    /\ CiphersIn(transcript) = Ciphers
    /\ \A i \in RowsOf(transcript, "consumed") :
          transcript[i].choice = "sabotage" => transcript[i].id.actor \in Ciphers

\* The facts about the transcript as a whole, and about the stage.
BooksFit ==
    /\ RoundsFit
    /\ NothingAhead
    /\ NoneCarriedBefore
    /\ PastIsSettled
    /\ ScoreFits
    /\ SabotageIsOfCiphers
StageFits ==
    /\ AskedHaveNoChoice
    /\ NoVotesYet
    /\ NominationFits
    /\ TeamFits
    /\ VotesFit
    /\ CommitmentsFit

RunningFits == CouncilShape /\ BooksFit /\ StageFits

\* The inductive invariant of a run.
CouncilInv ==
    /\ status = "running" => RunningFits
    /\ status = "over" => VerdictIsEarned /\ asked = {}
-----------------------------------------------------------------------------
(* The transcript grows.                                                    *)

\* u is s and then t.
Extends(s, t, u) ==
    /\ IsRows(u) /\ Len(u) = Len(s) + Len(t)
    /\ \A i \in 1..Len(s) : u[i] = s[i]
    /\ \A i \in 1..Len(t) : u[Len(s) + i] = t[i]

\* u has the rows of that kind that s has.
SameOf(s, u, kind) ==
    /\ RowsOf(u, kind) = RowsOf(s, kind)
    /\ \A i \in RowsOf(s, kind) : u[i] = s[i]

\* u has the rows of s and those of t of that kind.
RowsAdded(s, t, u, kind) ==
    /\ IsRows(u)
    /\ RowsOf(u, kind) = RowsOf(s, kind) \cup {Len(s) + i : i \in RowsOf(t, kind)}
    /\ \A i \in RowsOf(s, kind) : u[i] = s[i]
    /\ \A i \in RowsOf(t, kind) : u[Len(s) + i] = t[i]

\* A sequence is a function from its positions.
LEMMA RowsAreMapped ==
    ASSUME NEW s, IsRows(s)
    PROVE  Len(s) \in Nat /\ DOMAIN s = 1..Len(s)
BY LenProperties DEF IsRows

\* A function from an initial segment is a sequence.
LEMMA MappedAreRows ==
    ASSUME NEW n \in Nat, NEW s, s = [i \in 1..n |-> s[i]]
    PROVE  IsRows(s) /\ Len(s) = n
<1> DEFINE T == {s[i] : i \in 1..n}
<1>1. DOMAIN s = 1..n
  OBVIOUS
<1>2. s \in [1..n -> T]
  OBVIOUS
<1>3. s \in Seq(T)
  BY <1>2
<1>4. Len(s) = n
  BY <1>1, <1>3, LenProperties
<1> QED BY <1>1, <1>3, <1>4 DEF IsRows

\* Two transcripts put together.
LEMMA RowsConcat ==
    ASSUME NEW s, NEW t, IsRows(s), IsRows(t)
    PROVE  Extends(s, t, s \o t)
<1> DEFINE S == {s[i] : i \in DOMAIN s}
           T == {t[i] : i \in DOMAIN t}
           U == S \cup T
           u == s \o t
<1>1. s \in Seq(U) /\ t \in Seq(U)
  BY DEF IsRows
<1>2. Len(s) \in Nat /\ Len(t) \in Nat
  BY RowsAreMapped
<1> HIDE DEF S, T, U
<1>3. /\ u \in Seq(U) /\ Len(u) = Len(s) + Len(t)
      /\ \A i \in 1..(Len(s) + Len(t)) : u[i] = IF i <= Len(s) THEN s[i] ELSE t[i - Len(s)]
  BY <1>1, ConcatProperties
<1> HIDE DEF u
<1>4. IsRows(u)
  <2>1. Len(u) \in Nat /\ u = [i \in 1..Len(u) |-> u[i]]
    BY <1>3, LenProperties
  <2> QED BY <2>1, MappedAreRows
<1>5. \A i \in 1..Len(s) : u[i] = s[i]
  BY <1>2, <1>3
<1>6. \A i \in 1..Len(t) : u[Len(s) + i] = t[i]
  <2> TAKE i \in 1..Len(t)
  <2> DEFINE m == Len(s) + i
  <2>1. m \in 1..(Len(s) + Len(t)) /\ ~(m <= Len(s)) /\ m - Len(s) = i
    BY <1>2
  <2> HIDE DEF m
  <2>2. u[m] = t[i]
    BY <1>3, <2>1
  <2> QED BY <2>2 DEF m
<1>7. Extends(s, t, u)
  BY <1>3, <1>4, <1>5, <1>6 DEF Extends
<1> QED BY <1>7 DEF u

\* The rows of a kind in two transcripts put together.
LEMMA RowsOfConcat ==
    ASSUME NEW s, NEW t, IsRows(s), IsRows(t), NEW kind
    PROVE  RowsAdded(s, t, s \o t, kind)
<1> DEFINE u == s \o t
<1>1. Extends(s, t, u)
  BY RowsConcat
<1>2. /\ Len(s) \in Nat /\ DOMAIN s = 1..Len(s)
      /\ Len(t) \in Nat /\ DOMAIN t = 1..Len(t)
  BY RowsAreMapped
<1> HIDE DEF u
<1>3. Len(u) = Len(s) + Len(t) /\ DOMAIN u = 1..Len(u)
  BY <1>1, RowsAreMapped DEF Extends
<1>4. (\A i \in 1..Len(s) : u[i] = s[i]) /\ \A i \in 1..Len(t) : u[Len(s) + i] = t[i]
  BY <1>1 DEF Extends
<1>5. \A i \in RowsOf(u, kind) :
          i \in RowsOf(s, kind) \/ \E j \in RowsOf(t, kind) : i = Len(s) + j
  <2> TAKE i \in RowsOf(u, kind)
  <2>1. i \in 1..(Len(s) + Len(t)) /\ u[i].kind = kind
    BY <1>3 DEF RowsOf
  <2>2. CASE i <= Len(s)
    <3>1. i \in 1..Len(s) BY <1>2, <2>1, <2>2
    <3> QED BY <1>2, <1>4, <2>1, <3>1 DEF RowsOf
  <2>3. CASE ~(i <= Len(s))
    <3> DEFINE j == i - Len(s)
    <3>1. j \in 1..Len(t) /\ i = Len(s) + j BY <1>2, <2>1, <2>3
    <3> HIDE DEF j
    <3>2. t[j].kind = kind BY <1>4, <2>1, <3>1
    <3> QED BY <1>2, <3>1, <3>2 DEF RowsOf
  <2> QED BY <2>2, <2>3
<1>6. \A i \in RowsOf(s, kind) : i \in RowsOf(u, kind) /\ u[i] = s[i]
  <2> TAKE i \in RowsOf(s, kind)
  <2>1. i \in 1..Len(s) /\ s[i].kind = kind
    BY <1>2 DEF RowsOf
  <2>2. i \in 1..(Len(s) + Len(t))
    BY <1>2, <2>1
  <2> QED BY <1>3, <1>4, <2>1, <2>2 DEF RowsOf
<1>7. \A i \in RowsOf(t, kind) : Len(s) + i \in RowsOf(u, kind) /\ u[Len(s) + i] = t[i]
  <2> TAKE i \in RowsOf(t, kind)
  <2>1. i \in 1..Len(t) /\ t[i].kind = kind
    BY <1>2 DEF RowsOf
  <2>2. Len(s) + i \in 1..(Len(s) + Len(t))
    BY <1>2, <2>1
  <2>3. u[Len(s) + i] = t[i]
    BY <1>4, <2>1
  <2> QED BY <1>3, <2>1, <2>2, <2>3 DEF RowsOf
<1>8. RowsOf(u, kind) = RowsOf(s, kind) \cup {Len(s) + i : i \in RowsOf(t, kind)}
  BY <1>5, <1>6, <1>7
<1>9. IsRows(u)
  BY <1>1 DEF Extends
<1>10. RowsAdded(s, t, u, kind)
  BY <1>6, <1>7, <1>8, <1>9 DEF RowsAdded
<1> QED BY <1>10 DEF u

\* What is not of a kind leaves the rows of that kind alone.
LEMMA SameOfConcat ==
    ASSUME NEW s, NEW t, IsRows(s), IsRows(t), NEW kind, RowsOf(t, kind) = {}
    PROVE  IsRows(s \o t) /\ SameOf(s, s \o t, kind)
<1> DEFINE u == s \o t
<1>1. RowsAdded(s, t, u, kind)
  BY RowsOfConcat
<1> HIDE DEF u
<1>2. IsRows(u) /\ SameOf(s, u, kind)
  BY <1>1 DEF SameOf, RowsAdded
<1> QED BY <1>2 DEF u

\* The actors in their order are a sequence.
LEMMA OrderedActors ==
    ASSUME NEW A
    PROVE  \E n \in Nat : DOMAIN InOrder(A) = 1..n
<1> DEFINE places == {i \in DOMAIN Order : Order[i] \in A}
           n == Cardinality(places)
<1>1. n \in Nat
  <2>1. DOMAIN Order = 1..Len(Order) /\ Len(Order) \in Nat
    BY CouncilAssumption, LenProperties DEF Players
  <2>2. IsFiniteSet(1..Len(Order))
    BY <2>1, FS_Interval
  <2>3. places \in SUBSET (1..Len(Order))
    BY <2>1
  <2> QED BY <2>2, <2>3, FS_Subset, FS_CardinalityType
<1>2. DOMAIN InOrder(A) = 1..n
  BY DEF InOrder, Picked
<1> QED BY <1>1, <1>2

\* The rows of open requests, and those before them.
LEMMA RequestRows ==
    ASSUME NEW st, NEW round, NEW A, NEW h
    PROVE  /\ IsRows(Requests(st, round, A, h))
           /\ \A kind : kind # "request" => RowsOf(Requests(st, round, A, h), kind) = {}
<1> DEFINE q == Requests(st, round, A, h)
<1>1. PICK n \in Nat : DOMAIN InOrder(A) = 1..n
  BY OrderedActors
<1>2. q = [i \in 1..n |-> q[i]] /\ \A i \in 1..n : q[i].kind = "request"
  BY <1>1 DEF Requests
<1> HIDE DEF q
<1>3. IsRows(q) /\ DOMAIN q = 1..n
  BY <1>2, MappedAreRows
<1> QED BY <1>2, <1>3 DEF RowsOf, q

\* What the environment asks adds requests, and what it emitted before them.
LEMMA AskRows ==
    ASSUME IsRows(transcript), NEW st, NEW round, NEW A, NEW h, NEW before, IsRows(before),
           Ask(st, round, A, h, before), NEW kind, kind # "request", RowsOf(before, kind) = {}
    PROVE  IsRows(transcript') /\ SameOf(transcript, transcript', kind)
<1> DEFINE u == transcript \o before
           q == Requests(st, round, A, h)
<1>1. IsRows(u) /\ SameOf(transcript, u, kind)
  BY SameOfConcat
<1>2. IsRows(q) /\ RowsOf(q, kind) = {}
  BY RequestRows
<1>3. transcript' = u \o q
  BY DEF Ask
<1> HIDE DEF u, q
<1>4. IsRows(u \o q) /\ SameOf(u, u \o q, kind)
  BY <1>1, <1>2, SameOfConcat
<1> QED BY <1>1, <1>3, <1>4 DEF SameOf

\* The same rows are the same.
LEMMA SameIfUnchanged ==
    ASSUME UNCHANGED transcript, NEW kind
    PROVE  SameOf(transcript, transcript', kind)
BY DEF SameOf

\* An empty transcript, and one row.
LEMMA OneRow ==
    ASSUME NEW row
    PROVE  /\ IsRows(<<>>) /\ \A kind : RowsOf(<<>>, kind) = {}
           /\ IsRows(<<row>>) /\ DOMAIN <<row>> = 1..1 /\ <<row>>[1] = row
           /\ \A kind : kind # row.kind => RowsOf(<<row>>, kind) = {}
<1>1. <<>> \in Seq({}) /\ DOMAIN <<>> = {}
  OBVIOUS
<1>2. <<row>> \in Seq({row}) /\ DOMAIN <<row>> = 1..1 /\ <<row>>[1] = row
  OBVIOUS
<1>3. IsRows(<<row>>)
  BY <1>2, <<row>> = [i \in 1..1 |-> <<row>>[i]], MappedAreRows
<1>4. IsRows(<<>>)
  BY <1>1 DEF IsRows
<1> HIDE <1>1, <1>2
<1>5. \A kind : RowsOf(<<>>, kind) = {}
  BY <1>1 DEF RowsOf
<1>6. \A kind : kind # row.kind => RowsOf(<<row>>, kind) = {}
  <2> DEFINE t == <<row>>
  <2>1. DOMAIN t = 1..1 /\ t[1] = row
    BY <1>2
  <2> HIDE DEF t
  <2>2. \A kind : kind # row.kind => RowsOf(t, kind) = {}
    BY <2>1 DEF RowsOf
  <2> QED BY <2>2 DEF t
<1> QED BY <1>2, <1>3, <1>4, <1>5, <1>6

-----------------------------------------------------------------------------
(* What the transcript tells.                                               *)

\* Nothing new was consumed.
LEMMA SameTables ==
    ASSUME SameOf(transcript, transcript', "consumed")
    PROVE  /\ \A r, st, n : ConsumedIn(r, st, n)' = ConsumedIn(r, st, n)
           /\ \A r : Carried(r)' = Carried(r)
           /\ \A r : Teams(r)' = Teams(r)
           /\ \A r : Ayes(r)' = Ayes(r)
           /\ \A m : Commitments(m)' = Commitments(m)
           /\ \A m : Sabotaged(m)' = Sabotaged(m)
<1>1. \A r, st, n : ConsumedIn(r, st, n)' = ConsumedIn(r, st, n)
  BY DEF SameOf, ConsumedIn
<1> QED BY <1>1 DEF Carried, Teams, Ayes, Commitments, Sabotaged

\* The same rounds were opened.
LEMMA SameProposals ==
    ASSUME SameOf(transcript, transcript', "round")
    PROVE  RoundsIn(transcript)' = RoundsIn(transcript) /\ \A m : Proposals(m)' = Proposals(m)
<1>1. RoundsIn(transcript)' = RoundsIn(transcript)
  BY DEF SameOf, RoundsIn
<1> QED BY <1>1 DEF Proposals

\* A mission of which nothing new is told is what it was.
LEMMA SameMission ==
    ASSUME NEW m, Proposals(m)' = Proposals(m),
           \A q \in Proposals(m) : Carried(q)' = Carried(q) /\ Teams(q)' = Teams(q),
           Commitments(m)' = Commitments(m), Sabotaged(m)' = Sabotaged(m),
           \A i \in RowsOf(transcript, "consumed") : transcript'[i] = transcript[i]
    PROVE  /\ Sent(m)' = Sent(m) /\ Played(m)' = Played(m)
           /\ Sabotaged(m)' = Sabotaged(m) /\ IsSettled(m)' = IsSettled(m)
<1> DEFINE played == {q \in Proposals(m) : Carried(q)}
           sent == UNION {Teams(q) : q \in played}
<1>1. played' = played
  OBVIOUS
<1>2. sent' = sent
  <2>1. {Teams(q) : q \in played}' = {Teams(q) : q \in played}
    BY <1>1
  <2> QED BY <2>1
<1>3. sent \subseteq RowsOf(transcript, "consumed") /\ Commitments(m) \subseteq RowsOf(transcript, "consumed")
  BY DEF Teams, Commitments, ConsumedIn
<1>4. Sent(m) = UNION {transcript[i].members : i \in sent}
  BY DEF Sent, Teams
<1>5. Sent(m)' = UNION {transcript'[i].members : i \in sent'}
  BY DEF Sent, Teams
<1>6. Sent(m)' = Sent(m)
  <2> HIDE DEF sent
  <2>1. {transcript'[i].members : i \in sent} = {transcript[i].members : i \in sent}
    BY <1>3
  <2> QED BY <1>2, <1>4, <1>5, <2>1
<1>7. {transcript[i].id.actor : i \in Commitments(m)}' = {transcript[i].id.actor : i \in Commitments(m)}
  BY <1>3
<1>8. Played(m)' = Played(m)
  BY <1>6, <1>7 DEF Played
<1>9. IsSettled(m)' = IsSettled(m)
  BY <1>1, <1>6, <1>8 DEF IsSettled
<1> QED BY <1>6, <1>8, <1>9

\* The stages before the nomination.
TalkStages == {"round", "cipher_council", "deliberation"}

\* Nothing consumed, opened or dealt: the books are kept while the stage moves on.
SameBooks ==
    /\ SameOf(transcript, transcript', "consumed")
    /\ SameOf(transcript, transcript', "round")
    /\ SameOf(transcript, transcript', "role")
MovesOn ==
    /\ UNCHANGED <<mission, attempt, score>>
    /\ Opened' = Opened
    /\ stage' \in TalkStages => stage \in TalkStages
    /\ stage' = "nomination" => Ayes(This) = {}
    /\ stage' # "mission_commitment" => stage # "mission_commitment"

\* The past missions are what they were.
LEMMA PastIsKept ==
    ASSUME SameBooks
    PROVE  \A m : Sabotaged(m)' = Sabotaged(m) /\ IsSettled(m)' = IsSettled(m)
                  /\ Played(m)' = Played(m) /\ Sent(m)' = Sent(m)
<1> TAKE m
<1>1. Proposals(m)' = Proposals(m)
  BY SameProposals DEF SameBooks
<1>2. /\ \A q : Carried(q)' = Carried(q) /\ Teams(q)' = Teams(q)
      /\ Commitments(m)' = Commitments(m) /\ Sabotaged(m)' = Sabotaged(m)
  BY SameTables DEF SameBooks
<1>3. \A i \in RowsOf(transcript, "consumed") : transcript'[i] = transcript[i]
  BY DEF SameBooks, SameOf
<1> QED BY <1>1, <1>2, <1>3, SameMission

\* The roles and the sabotages are those that were told.
LEMMA RolesAreKept ==
    ASSUME SameBooks, SabotageIsOfCiphers
    PROVE  SabotageIsOfCiphers'
<1>1. CiphersIn(transcript)' = CiphersIn(transcript)
  BY DEF SameBooks, SameOf, CiphersIn
<1>2. \A i \in RowsOf(transcript, "consumed")' : transcript'[i] = transcript[i]
  BY DEF SameBooks, SameOf
<1>3. RowsOf(transcript, "consumed")' = RowsOf(transcript, "consumed")
  BY DEF SameBooks, SameOf
<1> QED BY <1>1, <1>2, <1>3 DEF SabotageIsOfCiphers

\* A step of the round that consumes nothing keeps the books.
LEMMA BooksAreKept ==
    ASSUME CouncilShape, BooksFit, SameBooks, MovesOn
    PROVE  BooksFit'
<1>1. mission' = mission /\ attempt' = attempt /\ score' = score /\ Opened' = Opened /\ This' = This
  BY DEF MovesOn, This
<1>2. RoundsFit'
  BY <1>1, SameProposals DEF BooksFit, RoundsFit, SameBooks
<1>3. NothingAhead'
  <2>1. \A m \in Nat, k \in Nat :
            \/ m > mission \/ (m = mission /\ k > attempt)
            \/ m = mission /\ k = attempt /\ stage \in TalkStages
            => Teams(<<m, k>>) = {} /\ Ayes(<<m, k>>) = {}
    BY DEF BooksFit, NothingAhead, TalkStages
  <2>2. \A m \in Nat : m > mission \/ (m = mission /\ stage # "mission_commitment")
            => Commitments(m) = {}
    BY DEF BooksFit, NothingAhead
  <2>3. \A q : Teams(q)' = Teams(q) /\ Ayes(q)' = Ayes(q)
    BY SameTables DEF SameBooks
  <2>4. \A m : Commitments(m)' = Commitments(m)
    BY SameTables DEF SameBooks
  <2>5. \A m \in Nat, k \in Nat :
            \/ m > mission' \/ (m = mission' /\ k > attempt')
            \/ m = mission' /\ k = attempt' /\ stage' \in TalkStages
            => Teams(<<m, k>>)' = {} /\ Ayes(<<m, k>>)' = {}
    BY <1>1, <2>1, <2>3 DEF MovesOn
  <2>6. \A m \in Nat : m > mission' \/ (m = mission' /\ stage' # "mission_commitment")
            => Commitments(m)' = {}
    BY <1>1, <2>2, <2>4 DEF MovesOn
  <2>7. stage' = "nomination" => Ayes(This)' = {}
    <3>1. Ayes(This)' = Ayes(This)
      BY <1>1, SameTables DEF SameBooks, Ayes, This
    <3> QED BY <3>1 DEF MovesOn
  <2> QED BY <2>5, <2>6, <2>7 DEF NothingAhead, TalkStages
<1>4. NoneCarriedBefore'
  BY <1>1, SameTables DEF BooksFit, NoneCarriedBefore, SameBooks
<1>5. PastIsSettled'
  BY <1>1, PastIsKept DEF BooksFit, PastIsSettled, PastMissions
<1>6. ScoreFits'
  <2>1. {m \in PastMissions : Sabotaged(m)}' = {m \in PastMissions : Sabotaged(m)}
    BY <1>1, PastIsKept DEF PastMissions
  <2>2. {m \in PastMissions : ~Sabotaged(m)}' = {m \in PastMissions : ~Sabotaged(m)}
    BY <1>1, PastIsKept DEF PastMissions
  <2> QED BY <1>1, <2>1, <2>2 DEF BooksFit, ScoreFits
<1>7. SabotageIsOfCiphers'
  BY RolesAreKept DEF BooksFit
<1> QED BY <1>2, <1>3, <1>4, <1>5, <1>6, <1>7 DEF BooksFit

-----------------------------------------------------------------------------
(* The actors and what they are asked.                                      *)

\* Players and missions are counted.
LEMMA CouncilCounts ==
    /\ Players \in Nat /\ Players >= 5 /\ DOMAIN Order = 1..Players
    /\ Order \in [1..Players -> Actors]
    /\ \A i \in 1..Players : Order[i] \in Actors
    /\ Actors = {Order[i] : i \in 1..Players}
    /\ IsFiniteSet(Actors) /\ Cardinality(Actors) = Players
    /\ Len(MissionSizes) \in Nat /\ DOMAIN MissionSizes = 1..Len(MissionSizes)
    /\ \A m \in 1..Len(MissionSizes) : MissionSizes[m] \in Nat /\ MissionSizes[m] >= 2
    /\ Len(MissionSizes) >= 1 /\ VictoryTarget \in Nat /\ VictoryTarget > 0
    /\ MaxProposals \in Nat /\ MaxProposals >= 1
<1>1. Players \in Nat /\ Players >= 5 /\ DOMAIN Order = 1..Players /\ Order \in [1..Players -> Actors]
  BY CouncilAssumption, LenProperties DEF Players
<1>2. Actors = {Order[i] : i \in 1..Players}
  BY <1>1 DEF Actors
<1>3. IsFiniteSet(Actors) /\ Cardinality(Actors) = Players
  <2>1. Order \in Surjection(1..Players, Actors)
    BY <1>1, <1>2 DEF Surjection
  <2>2. IsFiniteSet(1..Players)
    BY <1>1, FS_Interval
  <2> QED BY <2>1, <2>2, FS_Surjection, CouncilAssumption
<1>4. Len(MissionSizes) \in Nat /\ DOMAIN MissionSizes = 1..Len(MissionSizes)
  BY CouncilAssumption, LenProperties
<1>5. \A m \in 1..Len(MissionSizes) : MissionSizes[m] \in 2..Players
  BY CouncilAssumption, ElementOfSeq
<1>6. VictoryTarget \in 1..Len(MissionSizes) /\ MaxProposals \in 1..10
  BY CouncilAssumption
<1> QED BY <1>1, <1>2, <1>3, <1>4, <1>5, <1>6

\* So are the current mission and proposal.
LEMMA NowIsCounted == ASSUME CouncilShape PROVE mission \in Nat /\ attempt \in Nat
BY CouncilCounts DEF CouncilShape

\* Every actor has one place in the order.
LEMMA OnePlace ==
    ASSUME NEW i \in 1..Players
    PROVE  /\ \A j \in 1..Players : Order[j] = Order[i] => j = i
           /\ (CHOOSE j \in DOMAIN Order : {Order[j]} = {Order[i]}) = i
<1>1. DOMAIN Order = 1..Players /\ Players \in Nat
  BY CouncilCounts
<1>2. Order \in Surjection(1..Players, Actors)
  BY CouncilCounts DEF Surjection
<1>3. IsFiniteSet(1..Players) /\ Cardinality(1..Players) = Cardinality(Actors)
  <2>1. Players \in Int /\ 1 \in Int /\ Players >= 1
    BY CouncilCounts
  <2>2. IsFiniteSet(1..Players) /\ Cardinality(1..Players) = Players
    BY <2>1, FS_Interval
  <2> QED BY <2>2, CouncilCounts
<1>4. Order \in Injection(1..Players, Actors)
  BY <1>2, <1>3, FS_SurjSameCardinalityImpliesInj
<1>5. \A j \in 1..Players : Order[j] = Order[i] => j = i
  BY <1>4, CouncilCounts DEF Injection, IsInjective
<1>6. \A j \in DOMAIN Order : {Order[j]} = {Order[i]} => j = i
  BY <1>1, <1>5
<1>7. i \in DOMAIN Order
  BY <1>1
<1> QED BY <1>5, <1>6, <1>7

\* The proposer is an actor.
LEMMA ProposerActs ==
    ASSUME count.proposals \in Nat, count.proposals > 0
    PROVE  Proposer \in Actors
<1> DEFINE n == ((count.proposals - 1) % Players) + 1
<1>1. n \in 1..Players
  BY CouncilCounts
<1>2. ProposerOrder \in Seq(Actors) /\ Len(ProposerOrder) = Players
  BY CouncilAssumption
<1> HIDE DEF n
<1>3. ProposerOrder[n] \in Actors
  BY <1>1, <1>2, ElementOfSeq
<1> QED BY <1>3 DEF n, Proposer

\* What is asked in stage st, of the actors A, one at a time in the public ones.
IsAsked(st, A) ==
    /\ st \in CouncilStages /\ A \subseteq Actors
    /\ st \in {"deliberation", "vote"} => \E i \in 1..Players : A = {Order[i]}

KeepsShape ==
    /\ UNCHANGED <<setup, mission, attempt, score>>
    /\ team' \subseteq Actors /\ approvals' \subseteq Actors
    /\ DOMAIN count' = DOMAIN ZeroCounts /\ count'.proposals \in Nat /\ count'.proposals > 0

\* The first actor may be asked.
LEMMA FirstIsAsked ==
    ASSUME NEW st \in CouncilStages
    PROVE  1 \in 1..Players /\ IsAsked(st, {Order[1]})
<1>1. 1 \in 1..Players
  BY CouncilCounts
<1>2. Order[1] \in Actors
  BY <1>1, CouncilCounts
<1> QED BY <1>1, <1>2 DEF IsAsked

\* Nobody who is asked has answered.
LEMMA AskFits ==
    ASSUME CouncilShape, KeepsShape, NEW st, NEW round, NEW A, NEW h, NEW before,
           IsRows(before), IsAsked(st, A), Ask(st, round, A, h, before)
    PROVE  /\ CouncilShape' /\ AskedHaveNoChoice'
           /\ stage' = st /\ asked' = A
           /\ Answered' = {} /\ \A a \in Actors : chosen'[a] = NoChoice
           /\ \A i \in 1..Players : st \in {"deliberation", "vote"} /\ A = {Order[i]} => turn' = i
<1>1. stage' = st /\ asked' = A /\ chosen' = [a \in Actors |-> NoChoice]
  BY DEF Ask
<1>2. \A a \in Actors : chosen'[a] = NoChoice
  BY <1>1
<1>3. Answered' = {}
  BY <1>2 DEF Answered
<1>4. AskedHaveNoChoice'
  BY <1>3 DEF AskedHaveNoChoice
<1>5. \A i \in 1..Players : st \in {"deliberation", "vote"} /\ A = {Order[i]} => turn' = i
  <2> SUFFICES ASSUME NEW i \in 1..Players, st \in {"deliberation", "vote"}, A = {Order[i]}
               PROVE  turn' = i
    OBVIOUS
  <2>1. turn' = CHOOSE j \in DOMAIN Order : {Order[j]} = A
    BY DEF Ask
  <2> QED BY <2>1, OnePlace
<1>6. turn' \in Nat
  <2>1. CASE st \in {"deliberation", "vote"}
    <3>1. PICK i \in 1..Players : A = {Order[i]}
      BY <2>1 DEF IsAsked
    <3>2. turn' = i
      BY <2>1, <3>1, <1>5
    <3> QED BY <3>2, CouncilCounts
  <2>2. CASE st \notin {"deliberation", "vote"}
    BY <2>2 DEF Ask
  <2> QED BY <2>1, <2>2
<1>7. IsRows(transcript')
  <2> DEFINE u == transcript \o before
  <2>1. IsRows(u)
    BY RowsConcat DEF Extends, CouncilShape
  <2>2. transcript' = u \o Requests(st, round, A, h)
    BY DEF Ask
  <2> HIDE DEF u
  <2> QED BY <2>1, <2>2, RequestRows, RowsConcat DEF Extends
<1>8. chosen' \in [Actors -> [name : ChoiceNames, members : SUBSET Actors]]
  <2>1. NoChoice \in [name : ChoiceNames, members : SUBSET Actors]
    BY DEF NoChoice, ChoiceNames
  <2> QED BY <1>1, <2>1
<1>9. CouncilShape'
  BY <1>1, <1>6, <1>7, <1>8 DEF CouncilShape, KeepsShape, IsAsked
<1> QED BY <1>1, <1>2, <1>3, <1>4, <1>5, <1>9

-----------------------------------------------------------------------------
(* The steps of the environment that lead to the nomination.                *)

\* Where no decision is for the environment, its facts are about nothing.
LEMMA TalkFits ==
    ASSUME AskedHaveNoChoice', NoVotesYet', stage' \in TalkStages
    PROVE  StageFits'
BY DEF StageFits, TalkStages, NominationFits, TeamFits, VotesFit, CommitmentsFit

\* A round is opened by its row.
LEMMA RoundOpens ==
    ASSUME IsRows(transcript), NEW st, NEW r, NEW A, NEW h,
           Ask(st, r, A, h, <<[kind |-> "round", round |-> r]>>)
    PROVE  /\ SameOf(transcript, transcript', "consumed")
           /\ SameOf(transcript, transcript', "role")
           /\ RoundsIn(transcript)' = RoundsIn(transcript) \cup {r}
<1> DEFINE row == [kind |-> "round", round |-> r]
           start == <<row>>
           u == transcript \o start
           q == Requests(st, r, A, h)
<1>1. row.kind = "round" /\ row.round = r
  OBVIOUS
<1>2. IsRows(start) /\ DOMAIN start = 1..1 /\ start[1] = row
      /\ \A kind : kind # "round" => RowsOf(start, kind) = {}
  BY <1>1, OneRow
<1>3. Ask(st, r, A, h, start)
  OBVIOUS
<1> HIDE DEF row, start
<1>4. /\ SameOf(transcript, transcript', "consumed")
      /\ SameOf(transcript, transcript', "role")
  BY <1>2, <1>3, AskRows
<1>5. RowsOf(start, "round") = {1}
  BY <1>1, <1>2 DEF RowsOf
<1>6. RowsAdded(transcript, start, u, "round")
  BY <1>2, RowsOfConcat
<1>7. transcript' = u \o q
  BY <1>3 DEF Ask
<1> HIDE DEF u
<1>8. IsRows(q) /\ RowsOf(q, "round") = {}
  BY RequestRows
<1> HIDE DEF q
<1>9. SameOf(u, u \o q, "round")
  BY <1>6, <1>8, SameOfConcat DEF RowsAdded
<1>10. RowsOf(u, "round") = RowsOf(transcript, "round") \cup {Len(transcript) + 1}
       /\ (\A i \in RowsOf(transcript, "round") : u[i] = transcript[i])
       /\ u[Len(transcript) + 1] = row
  BY <1>2, <1>5, <1>6 DEF RowsAdded
<1>11. RoundsIn(u) = RoundsIn(transcript) \cup {r}
  BY <1>1, <1>10 DEF RoundsIn
<1>12. RoundsIn(transcript') = RoundsIn(u)
  BY <1>7, <1>9 DEF SameOf, RoundsIn
<1> QED BY <1>4, <1>11, <1>12

\* A round starts.
LEMMA StartRoundKeeps == ASSUME RunningFits, StartRound PROVE RunningFits'
<1> DEFINE start == <<[kind |-> "round", round |-> This]>>
<1>1. stage = "round" /\ Opened = attempt - 1
  BY DEF StartRound, Continues, Opened
<1>2. CouncilShape /\ BooksFit
  BY DEF RunningFits
<1>3. PICK st, A : /\ Ask(st, This, A, history, start)
                   /\ st \in {"cipher_council", "deliberation"} /\ IsAsked(st, A)
                   /\ count'.proposals = count.proposals + 1 /\ DOMAIN count' = DOMAIN count
  <2>1. CASE Strategic
    <3>1. Ask("cipher_council", This, Ciphers, history, start)
      BY <2>1 DEF StartRound, This
    <3>2. IsAsked("cipher_council", Ciphers)
      BY CouncilAssumption DEF IsAsked, CouncilStages
    <3>3. count'.proposals = count.proposals + 1 /\ DOMAIN count' = DOMAIN count
      BY <1>2, <2>1 DEF StartRound, CouncilShape, ZeroCounts
    <3> QED BY <3>1, <3>2, <3>3
  <2>2. CASE ~Strategic
    <3>1. Ask("deliberation", This, {Order[1]}, history, start)
      BY <2>2 DEF StartRound, AskFirst, This
    <3>2. IsAsked("deliberation", {Order[1]})
      BY FirstIsAsked DEF CouncilStages
    <3>3. count'.proposals = count.proposals + 1 /\ DOMAIN count' = DOMAIN count
      BY <1>2, <2>2 DEF StartRound, CouncilShape, ZeroCounts
    <3> QED BY <3>1, <3>2, <3>3
  <2> QED BY <2>1, <2>2
<1>4. UNCHANGED <<setup, status, mission, attempt, score>> /\ team' = {} /\ approvals' = {}
  BY DEF StartRound
<1>5. IsRows(start) /\ \A kind : kind # "round" => RowsOf(start, kind) = {}
  BY OneRow
<1>6. KeepsShape
  BY <1>2, <1>3, <1>4 DEF KeepsShape, CouncilShape
<1> HIDE DEF start
<1>7. CouncilShape' /\ AskedHaveNoChoice' /\ stage' = st
  BY <1>2, <1>3, <1>5, <1>6, AskFits
<1>8. StageFits'
  BY <1>3, <1>4, <1>7, TalkFits DEF TalkStages, NoVotesYet
<1>9. /\ SameOf(transcript, transcript', "consumed")
      /\ SameOf(transcript, transcript', "role")
      /\ RoundsIn(transcript)' = RoundsIn(transcript) \cup {This}
  BY <1>2, <1>3, RoundOpens DEF CouncilShape, start
<1>10. mission' = mission /\ attempt' = attempt /\ This' = This /\ Opened' = attempt
       /\ mission \in Nat /\ attempt \in Nat /\ attempt >= 1 /\ mission >= 1
  BY <1>2, <1>3, <1>4, <1>7, CouncilCounts DEF This, Opened, CouncilShape
<1>11. RoundsFit'
  <2>1. \A r \in RoundsIn(transcript)' : r[1] \in 1..mission
    BY <1>2, <1>9, <1>10 DEF BooksFit, RoundsFit, This
  <2>2. Proposals(mission)' = Proposals(mission) \cup {<<mission, attempt>>}
    BY <1>9, <1>10 DEF Proposals, This
  <2>3. Proposals(mission)' = {<<mission, k>> : k \in 1..attempt}
    BY <1>1, <1>2, <1>10, <2>2 DEF BooksFit, RoundsFit
  <2> QED BY <1>10, <2>1, <2>3 DEF RoundsFit
<1>12. /\ \A r : Carried(r)' = Carried(r) /\ Teams(r)' = Teams(r) /\ Ayes(r)' = Ayes(r)
       /\ \A m : Commitments(m)' = Commitments(m) /\ Sabotaged(m)' = Sabotaged(m)
  BY <1>9, SameTables
<1>13. NothingAhead'
  <2>1. \A m \in Nat, k \in Nat :
            m > mission \/ (m = mission /\ k > attempt) \/ (m = mission /\ k = attempt)
            => Teams(<<m, k>>) = {} /\ Ayes(<<m, k>>) = {}
    BY <1>1, <1>2 DEF BooksFit, NothingAhead
  <2>2. \A m \in Nat : m > mission \/ m = mission => Commitments(m) = {}
    BY <1>1, <1>2 DEF BooksFit, NothingAhead
  <2>3. stage' # "nomination"
    BY <1>3, <1>7
  <2> QED BY <1>10, <1>12, <2>1, <2>2, <2>3 DEF NothingAhead
<1>14. NoneCarriedBefore'
  BY <1>2, <1>10, <1>12 DEF BooksFit, NoneCarriedBefore
<1>15. \A m \in PastMissions : IsSettled(m)' = IsSettled(m)
  <2> TAKE m \in PastMissions
  <2>1. m # mission
    BY <1>10 DEF PastMissions
  <2>2. Proposals(m)' = Proposals(m)
    BY <1>9, <2>1 DEF Proposals, This
  <2>3. \A i \in RowsOf(transcript, "consumed") : transcript'[i] = transcript[i]
    BY <1>9 DEF SameOf
  <2> QED BY <1>12, <2>2, <2>3, SameMission
<1>16. PastIsSettled'
  BY <1>2, <1>10, <1>15 DEF BooksFit, PastIsSettled, PastMissions
<1>17. ScoreFits'
  <2>1. {m \in PastMissions : Sabotaged(m)}' = {m \in PastMissions : Sabotaged(m)}
    BY <1>10, <1>12 DEF PastMissions
  <2>2. {m \in PastMissions : ~Sabotaged(m)}' = {m \in PastMissions : ~Sabotaged(m)}
    BY <1>10, <1>12 DEF PastMissions
  <2> QED BY <1>2, <1>4, <2>1, <2>2 DEF BooksFit, ScoreFits
<1>18. SabotageIsOfCiphers'
  <2>1. CiphersIn(transcript)' = CiphersIn(transcript)
    BY <1>9 DEF SameOf, CiphersIn
  <2>2. RowsOf(transcript, "consumed")' = RowsOf(transcript, "consumed")
        /\ \A i \in RowsOf(transcript, "consumed") : transcript'[i] = transcript[i]
    BY <1>9 DEF SameOf
  <2> QED BY <1>2, <2>1, <2>2 DEF BooksFit, SabotageIsOfCiphers
<1>19. BooksFit'
  BY <1>11, <1>13, <1>14, <1>16, <1>17, <1>18 DEF BooksFit
<1> QED BY <1>7, <1>8, <1>19 DEF RunningFits

\* The rows that announce messages are of no other kind.
LEMMA MessageRows ==
    ASSUME NEW A, NEW q, q = [i \in DOMAIN InOrder(A) |-> q[i]],
           \A i \in DOMAIN InOrder(A) : q[i].kind = "message"
    PROVE  IsRows(q) /\ \A kind : kind # "message" => RowsOf(q, kind) = {}
<1>1. PICK n \in Nat : DOMAIN InOrder(A) = 1..n
  BY OrderedActors
<1>2. q = [i \in 1..n |-> q[i]] /\ \A i \in 1..n : q[i].kind = "message"
  BY <1>1
<1>3. IsRows(q) /\ DOMAIN q = 1..n
  BY <1>2, MappedAreRows
<1> QED BY <1>2, <1>3 DEF RowsOf

\* The messages of the ciphers are delivered.
LEMMA CouncilDeliversKeeps == ASSUME RunningFits, CouncilDelivers PROVE RunningFits'
<1> DEFINE S == {a \in Ciphers : chosen[a] # NoChoice}
           senders == InOrder(S)
           entries == [i \in DOMAIN senders |-> [round |-> RoundKey, actor |-> senders[i]]]
           events  == [i \in DOMAIN entries |->
                          [kind |-> "message", entry |-> entries[i], to |-> Ciphers]]
           shown   == LastOf(history \o entries, HistoryLimit)
<1>1. CouncilShape /\ BooksFit /\ stage = "cipher_council"
  BY DEF RunningFits, CouncilDelivers, Continues
<1>2. /\ count' = [count EXCEPT !.messages = @ + Len(senders),
                                !.absent = @ + Absent(Len(senders))]
      /\ Ask("deliberation", RoundKey, {Order[1]}, shown, events)
      /\ UNCHANGED <<setup, status, mission, attempt, team, approvals, score>>
  BY DEF CouncilDelivers
<1>3. IsRows(events) /\ \A kind : kind # "message" => RowsOf(events, kind) = {}
  <2>1. events = [i \in DOMAIN InOrder(S) |-> events[i]]
        /\ \A i \in DOMAIN InOrder(S) : events[i].kind = "message"
    OBVIOUS
  <2> HIDE DEF events, entries
  <2> QED BY <2>1, MessageRows
<1> HIDE DEF events, shown, senders
<1>4. IsAsked("deliberation", {Order[1]})
  BY FirstIsAsked DEF CouncilStages
<1>5. KeepsShape
  BY <1>1, <1>2 DEF KeepsShape, CouncilShape, ZeroCounts
<1>6. CouncilShape' /\ AskedHaveNoChoice' /\ stage' = "deliberation"
  BY <1>1, <1>2, <1>3, <1>4, <1>5, AskFits
<1>7. StageFits'
  BY <1>1, <1>2, <1>6, TalkFits DEF TalkStages, NoVotesYet, RunningFits, StageFits
<1>8. SameBooks
  BY <1>1, <1>2, <1>3, AskRows DEF SameBooks, CouncilShape
<1>9. MovesOn
  BY <1>1, <1>2, <1>6 DEF MovesOn, TalkStages, Opened
<1> QED BY <1>1, <1>6, <1>7, <1>8, <1>9, BooksAreKept DEF RunningFits

\* The next of the actors may be asked.
LEMMA NextIsAsked ==
    ASSUME turn \in Nat, turn < Players, NEW st \in CouncilStages
    PROVE  turn + 1 \in 1..Players /\ IsAsked(st, {Order[turn + 1]})
<1>1. turn + 1 \in 1..Players
  BY CouncilCounts
<1>2. Order[turn + 1] \in Actors
  BY <1>1, CouncilCounts
<1> QED BY <1>1, <1>2 DEF IsAsked

\* Requests alone are no news.
LEMMA AskIsNoNews ==
    ASSUME CouncilShape, NEW st, NEW round, NEW A, NEW h, Ask(st, round, A, h, <<>>)
    PROVE  SameBooks
BY OneRow, AskRows DEF SameBooks, CouncilShape

\* The next actor speaks, or the proposer nominates.
LEMMA SpeechEndsKeeps == ASSUME RunningFits, SpeechEnds PROVE RunningFits'
<1>1. CouncilShape /\ BooksFit /\ stage = "deliberation"
  BY DEF RunningFits, SpeechEnds, Continues
<1>0. approvals = {}
  BY <1>1 DEF RunningFits, StageFits, NoVotesYet
<1>2. UNCHANGED <<setup, status, mission, attempt, team, approvals, score, count>>
  BY DEF SpeechEnds
<1>3. KeepsShape
  BY <1>1, <1>2 DEF KeepsShape, CouncilShape
<1>4. IsRows(<<>>)
  BY OneRow
<1>5. CASE turn < Players
  <2>1. Ask("deliberation", This, {Order[turn + 1]}, history, <<>>)
    BY <1>5 DEF SpeechEnds, AskNext, This
  <2>2. IsAsked("deliberation", {Order[turn + 1]})
    BY <1>1, <1>5, NextIsAsked DEF CouncilShape, CouncilStages
  <2>3. CouncilShape' /\ AskedHaveNoChoice' /\ stage' = "deliberation"
    BY <1>1, <1>3, <1>4, <2>1, <2>2, AskFits
  <2>4. StageFits'
    BY <1>0, <1>2, <2>3, TalkFits DEF TalkStages, NoVotesYet
  <2>5. SameBooks
    BY <1>1, <2>1, AskIsNoNews
  <2>6. MovesOn
    BY <1>1, <1>2, <2>3 DEF MovesOn, TalkStages, Opened
  <2> QED BY <1>1, <2>3, <2>4, <2>5, <2>6, BooksAreKept DEF RunningFits
<1>6. CASE ~(turn < Players)
  <2>1. Ask("nomination", RoundKey, {Proposer}, history, <<>>)
    BY <1>6 DEF SpeechEnds
  <2>2. Proposer \in Actors /\ IsAsked("nomination", {Proposer})
    BY <1>1, ProposerActs DEF IsAsked, CouncilStages, CouncilShape
  <2>3. CouncilShape' /\ AskedHaveNoChoice' /\ stage' = "nomination" /\ asked' = {Proposer}
        /\ \A a \in Actors : chosen'[a] = NoChoice
    BY <1>1, <1>3, <1>4, <2>1, <2>2, AskFits
  <2>4. Proposer' = Proposer
    BY <1>2 DEF Proposer
  <2>5. SameBooks
    BY <1>1, <2>1, AskIsNoNews
  <2>6. Teams(This) = {} /\ Ayes(This) = {}
    <3>1. mission \in Nat /\ attempt \in Nat
      BY <1>1, CouncilCounts DEF CouncilShape
    <3> QED BY <1>1, <3>1 DEF BooksFit, NothingAhead, This
  <2>7. MovesOn
    BY <1>1, <1>2, <2>3, <2>6 DEF MovesOn, TalkStages, Opened
  <2>8. Teams(This)' = {}
    BY <1>2, <2>5, <2>6, SameTables DEF SameBooks, This
  <2>9. StageFits'
    BY <1>0, <1>2, <2>2, <2>3, <2>4, <2>8
       DEF StageFits, NoVotesYet, NominationFits, TeamFits, VotesFit, CommitmentsFit
  <2> QED BY <1>1, <2>3, <2>5, <2>7, <2>9, BooksAreKept DEF RunningFits
<1> QED BY <1>5, <1>6

-----------------------------------------------------------------------------
(* The end of a run.                                                        *)

\* What is told of the missions, at any time.
LEMMA MissionTable ==
    ASSUME RunningFits
    PROVE  /\ {r \in Proposals(mission) : Carried(r)} \subseteq {This}
           /\ \A m \in DOMAIN MissionSizes :
                 /\ Cardinality({r \in Proposals(m) : Carried(r)}) <= 1
                 /\ m < mission => Played(m) /\ Cardinality(Sent(m)) = MissionSizes[m]
                 /\ m > mission => ~Played(m)
<1> DEFINE carried(m) == {r \in Proposals(m) : Carried(r)}
<1>1. CouncilShape /\ BooksFit
  BY DEF RunningFits
<1>2. mission \in Nat /\ mission >= 1 /\ attempt \in Nat /\ DOMAIN MissionSizes \subseteq Nat
  BY <1>1, CouncilCounts DEF CouncilShape
<1>3. carried(mission) \subseteq {This}
  <2> SUFFICES ASSUME NEW r \in Proposals(mission), Carried(r) PROVE r = This
    OBVIOUS
  <2>1. PICK k \in 1..Opened : r = <<mission, k>>
    BY <1>1 DEF BooksFit, RoundsFit
  <2>2. k \in 1..(attempt - 1) => ~Carried(r)
    BY <1>1, <2>1 DEF BooksFit, NoneCarriedBefore
  <2>3. k = attempt
    BY <1>2, <2>1, <2>2 DEF Opened
  <2> QED BY <2>1, <2>3 DEF This
<1>4. \A m \in DOMAIN MissionSizes : m > mission => Proposals(m) = {}
  BY <1>1, <1>2 DEF BooksFit, RoundsFit, Proposals
<1>5. \A m \in DOMAIN MissionSizes : m < mission => IsSettled(m)
  BY <1>1, <1>2, CouncilCounts DEF BooksFit, PastIsSettled, PastMissions
<1>6. \A m \in DOMAIN MissionSizes : Cardinality(carried(m)) <= 1
  <2> TAKE m \in DOMAIN MissionSizes
  <2>1. \E x : carried(m) \subseteq {x}
    <3>1. CASE m < mission
      BY <1>5, <3>1 DEF IsSettled
    <3>2. CASE m = mission
      BY <1>3, <3>2
    <3>3. CASE m > mission
      BY <1>4, <3>3
    <3> QED BY <1>2, <3>1, <3>2, <3>3
  <2> HIDE DEF carried
  <2>2. PICK x : carried(m) = {} \/ carried(m) = {x}
    BY <2>1
  <2>3. Cardinality({x}) = 1 /\ Cardinality({}) = 0
    BY FS_Singleton, FS_EmptySet
  <2> QED BY <2>2, <2>3
<1>7. \A m \in DOMAIN MissionSizes : m > mission => ~Played(m)
  BY <1>4 DEF Played
<1>8. \A m \in DOMAIN MissionSizes : m < mission => Played(m) /\ Cardinality(Sent(m)) = MissionSizes[m]
  BY <1>5 DEF IsSettled
<1> QED BY <1>3, <1>6, <1>7, <1>8

\* The past missions that were won, and those that were lost.
PastWon == {m \in PastMissions : ~Sabotaged(m)}
PastLost == {m \in PastMissions : Sabotaged(m)}

\* The current mission adds to them if it was played.
LEMMA MissionsTold ==
    ASSUME RunningFits
    PROVE  /\ PastWon \subseteq 1..(mission - 1) /\ PastLost \subseteq 1..(mission - 1)
           /\ IsFiniteSet(PastWon) /\ IsFiniteSet(PastLost)
           /\ PastWon \cup PastLost = 1..(mission - 1)
           /\ Won = PastWon \cup (IF Played(mission) /\ ~Sabotaged(mission) THEN {mission} ELSE {})
           /\ Lost = PastLost \cup (IF Played(mission) /\ Sabotaged(mission) THEN {mission} ELSE {})
<1>1. /\ mission \in Nat /\ mission >= 1 /\ mission <= Len(MissionSizes) /\ Len(MissionSizes) \in Nat
      /\ DOMAIN MissionSizes = 1..Len(MissionSizes)
  BY CouncilCounts DEF RunningFits, CouncilShape
<1>2. PastWon \subseteq 1..(mission - 1) /\ PastLost \subseteq 1..(mission - 1)
  BY DEF PastWon, PastLost, PastMissions
<1>3. IsFiniteSet(1..(mission - 1))
  BY <1>1, FS_Interval
<1>4. IsFiniteSet(PastWon) /\ IsFiniteSet(PastLost)
  BY <1>2, <1>3, FS_Subset
<1>5. PastWon \cup PastLost = 1..(mission - 1)
  BY DEF PastWon, PastLost, PastMissions
<1>6. \A m \in DOMAIN MissionSizes :
          Played(m) <=> m \in PastMissions \/ (m = mission /\ Played(mission))
  <2> TAKE m \in DOMAIN MissionSizes
  <2>1. (m < mission => Played(m)) /\ (m > mission => ~Played(m))
    BY MissionTable
  <2>2. m \in 1..Len(MissionSizes)
    BY <1>1
  <2>3. m \in PastMissions <=> m < mission
    BY <1>1, <2>2 DEF PastMissions
  <2>4. m < mission \/ m = mission \/ m > mission
    BY <1>1, <2>2
  <2>5. m < mission => ~(m = mission)
    BY <1>1, <2>2
  <2> QED BY <2>1, <2>3, <2>4, <2>5
<1>7. mission \in DOMAIN MissionSizes /\ PastMissions \subseteq DOMAIN MissionSizes
      /\ mission \notin PastMissions
  BY <1>1 DEF PastMissions
<1>8. Won = PastWon \cup (IF Played(mission) /\ ~Sabotaged(mission) THEN {mission} ELSE {})
  BY <1>6, <1>7 DEF Won, PastWon
<1>9. Lost = PastLost \cup (IF Played(mission) /\ Sabotaged(mission) THEN {mission} ELSE {})
  BY <1>6, <1>7 DEF Lost, PastLost
<1> QED BY <1>2, <1>4, <1>5, <1>8, <1>9

\* A run that ends as its decisions lead ends with an earned verdict.
LEMMA EndsEarned ==
    ASSUME RunningFits, UNCHANGED <<transcript, mission, asked>>, asked = {},
           score' = [council |-> Cardinality(Won), cipher |-> Cardinality(Lost)],
           Played(mission) => Cardinality(Sent(mission)) = MissionSizes[mission],
           OutcomeIsReached'
    PROVE  VerdictIsEarned' /\ asked' = {}
<1>0. SameBooks
  BY SameIfUnchanged DEF SameBooks
<1>1. Won' = Won /\ Lost' = Lost /\ \A m : Proposals(m)' = Proposals(m) /\ Played(m)' = Played(m)
                                         /\ Sent(m)' = Sent(m)
  <2>1. \A m : Played(m)' = Played(m) /\ Sent(m)' = Sent(m) /\ Sabotaged(m)' = Sabotaged(m)
    BY <1>0, PastIsKept
  <2>2. \A m : Proposals(m)' = Proposals(m)
    BY <1>0, SameProposals DEF SameBooks
  <2>3. Won' = Won /\ Lost' = Lost
    BY <2>1 DEF Won, Lost
  <2> QED BY <2>1, <2>2, <2>3
<1>2. \A r : Carried(r)' = Carried(r)
  BY <1>0, SameTables DEF SameBooks
<1>3. score' = [council |-> Cardinality(Won'), cipher |-> Cardinality(Lost')]
  BY <1>1
<1>4. mission \in Nat /\ DOMAIN MissionSizes \subseteq Nat
  BY CouncilCounts DEF RunningFits, CouncilShape
<1>5. \A m \in DOMAIN MissionSizes :
          /\ Cardinality({r \in Proposals(m)' : Carried(r)'}) <= 1
          /\ Played(m)' => Cardinality(Sent(m)') = MissionSizes[m]
  <2> TAKE m \in DOMAIN MissionSizes
  <2>1. {r \in Proposals(m)' : Carried(r)'} = {r \in Proposals(m) : Carried(r)}
    BY <1>1, <1>2
  <2>2. m < mission \/ m = mission \/ m > mission
    BY <1>4
  <2> QED BY <1>1, <2>1, <2>2, MissionTable
<1>6. \A i \in RowsOf(transcript', "consumed") :
          transcript'[i].choice = "sabotage" => transcript'[i].id.actor \in CiphersIn(transcript')
  BY DEF RunningFits, BooksFit, SabotageIsOfCiphers
<1> QED BY <1>3, <1>5, <1>6 DEF VerdictIsEarned

\* Nothing was carried in the mission, and its proposals are exhausted.
LEMMA ExhaustedIsEarned ==
    ASSUME RunningFits, stage \in {"nomination", "vote"}, asked = {}, ~Carried(This),
           ~(attempt < MaxProposals), UNCHANGED score, Ends("none", "proposal_limit_exhausted")
    PROVE  VerdictIsEarned' /\ asked' = {}
<1>1. CouncilShape /\ BooksFit
  BY DEF RunningFits
<1>2. UNCHANGED <<transcript, mission, asked>>
      /\ verdict' = [winner |-> "none", reason |-> "proposal_limit_exhausted"]
  BY DEF Ends
<1>3. attempt = MaxProposals /\ Opened = MaxProposals /\ MaxProposals \in Nat
  BY <1>1, CouncilCounts DEF CouncilShape, Opened
<1>4. Proposals(mission) = {<<mission, k>> : k \in 1..MaxProposals}
  BY <1>1, <1>3 DEF BooksFit, RoundsFit
<1>5. Cardinality(Proposals(mission)) = MaxProposals
  <2> DEFINE f == [k \in 1..MaxProposals |-> <<mission, k>>]
  <2>1. f \in Injection(1..MaxProposals, Proposals(mission))
    BY <1>4 DEF Injection, IsInjective
  <2>2. f \in Surjection(1..MaxProposals, Proposals(mission))
    BY <1>4 DEF Surjection
  <2>3. IsFiniteSet(1..MaxProposals) /\ Cardinality(1..MaxProposals) = MaxProposals
    BY <1>3, CouncilCounts, FS_Interval
  <2> QED BY <2>1, <2>2, <2>3, FS_Surjection
<1>6. \A r \in Proposals(mission) : ~Carried(r)
  BY MissionTable
<1>7. ~Played(mission)
  BY <1>6 DEF Played
<1>8. score' = [council |-> Cardinality(Won), cipher |-> Cardinality(Lost)]
  BY <1>1, <1>7, MissionsTold DEF BooksFit, ScoreFits, PastWon, PastLost
<1>9. OutcomeIsReached'
  <2>1. Proposals(mission)' = Proposals(mission) /\ \A r : Carried(r)' = Carried(r)
    BY <1>2 DEF Proposals, Carried, ConsumedIn
  <2> QED BY <1>2, <1>5, <1>6, <2>1 DEF OutcomeIsReached
<1> QED BY <1>2, <1>7, <1>8, <1>9, EndsEarned

-----------------------------------------------------------------------------
(* The nomination and the vote.                                             *)

\* A proposal that came to nothing leads to the next one.
LEMMA NextRoundKeeps ==
    ASSUME RunningFits, stage \in {"nomination", "vote"}, asked = {}, ~Carried(This),
           attempt < MaxProposals, attempt' = attempt + 1, stage' = "round",
           UNCHANGED <<setup, mission, turn, asked, chosen, team, approvals, transcript, score, count>>
    PROVE  RunningFits'
<1>1. CouncilShape /\ BooksFit
  BY DEF RunningFits
<1>2. mission \in Nat /\ attempt \in Nat /\ attempt >= 1
  BY <1>1, CouncilCounts DEF CouncilShape
<1>3. CouncilShape'
  <2>1. attempt' \in 1..MaxProposals
    BY <1>2, CouncilCounts
  <2> QED BY <1>1, <2>1 DEF CouncilShape
<1>4. SameBooks
  BY SameIfUnchanged DEF SameBooks
<1>5. /\ \A r : Carried(r)' = Carried(r) /\ Teams(r)' = Teams(r) /\ Ayes(r)' = Ayes(r)
      /\ \A m : Commitments(m)' = Commitments(m) /\ Sabotaged(m)' = Sabotaged(m)
  BY <1>4, SameTables DEF SameBooks
<1>6. Opened' = Opened
  BY <1>2 DEF Opened
<1>7. RoundsFit'
  BY <1>1, <1>4, <1>6, SameProposals DEF BooksFit, RoundsFit, SameBooks
<1>8. NothingAhead'
  <2>1. \A m \in Nat, k \in Nat : m > mission \/ (m = mission /\ k > attempt)
            => Teams(<<m, k>>) = {} /\ Ayes(<<m, k>>) = {}
    BY <1>1 DEF BooksFit, NothingAhead
  <2>2. \A m \in Nat : m > mission \/ m = mission => Commitments(m) = {}
    BY <1>1 DEF BooksFit, NothingAhead
  <2>3. \A m \in Nat, k \in Nat :
            \/ m > mission' \/ (m = mission' /\ k > attempt')
            \/ m = mission' /\ k = attempt' /\ stage' \in {"round", "cipher_council", "deliberation"}
            => Teams(<<m, k>>)' = {} /\ Ayes(<<m, k>>)' = {}
    <3> SUFFICES ASSUME NEW m \in Nat, NEW k \in Nat,
                        m > mission \/ (m = mission /\ (k > attempt + 1 \/ k = attempt + 1))
                 PROVE  Teams(<<m, k>>)' = {} /\ Ayes(<<m, k>>)' = {}
      OBVIOUS
    <3>1. m > mission \/ (m = mission /\ k > attempt)
      BY <1>2
    <3> QED BY <1>5, <2>1, <3>1
  <2> QED BY <1>5, <2>2, <2>3 DEF NothingAhead
<1>9. NoneCarriedBefore'
  <2> SUFFICES ASSUME NEW k \in 1..attempt PROVE ~Carried(<<mission, k>>)
    BY <1>2, <1>5 DEF NoneCarriedBefore
  <2>1. CASE k = attempt
    BY <2>1 DEF This
  <2>2. CASE k # attempt
    <3>1. k \in 1..(attempt - 1)
      BY <1>2, <2>2
    <3> QED BY <1>1, <3>1 DEF BooksFit, NoneCarriedBefore
  <2> QED BY <2>1, <2>2
<1>10. PastIsSettled'
  BY <1>1, <1>4, PastIsKept DEF BooksFit, PastIsSettled, PastMissions
<1>11. ScoreFits'
  <2>1. {m \in PastMissions : Sabotaged(m)}' = {m \in PastMissions : Sabotaged(m)}
    BY <1>5 DEF PastMissions
  <2>2. {m \in PastMissions : ~Sabotaged(m)}' = {m \in PastMissions : ~Sabotaged(m)}
    BY <1>5 DEF PastMissions
  <2> QED BY <1>1, <2>1, <2>2 DEF BooksFit, ScoreFits
<1>12. SabotageIsOfCiphers'
  BY <1>1, <1>4, RolesAreKept DEF BooksFit
<1>13. StageFits'
  <2>1. AskedHaveNoChoice' /\ NoVotesYet'
    BY DEF AskedHaveNoChoice, NoVotesYet
  <2> QED BY <2>1, TalkFits DEF TalkStages
<1> QED BY <1>3, <1>7, <1>8, <1>9, <1>10, <1>11, <1>12, <1>13 DEF RunningFits, BooksFit

\* So does the step, which may also end the run.
LEMMA NextAttemptKeeps ==
    ASSUME RunningFits, status = "running", stage \in {"nomination", "vote"}, asked = {},
           ~Carried(This), NextAttempt, UNCHANGED <<score, count>>
    PROVE  CouncilInv'
<1>1. CASE attempt < MaxProposals
  <2>1. /\ attempt' = attempt + 1 /\ stage' = "round" /\ status' = "running"
        /\ UNCHANGED <<setup, mission, turn, asked, chosen, team, approvals, transcript>>
    BY <1>1 DEF NextAttempt
  <2>2. RunningFits'
    BY <1>1, <2>1, NextRoundKeeps
  <2> QED BY <2>1, <2>2 DEF CouncilInv
<1>2. CASE ~(attempt < MaxProposals)
  <2>1. Ends("none", "proposal_limit_exhausted")
    BY <1>2 DEF NextAttempt
  <2>2. VerdictIsEarned' /\ asked' = {}
    BY <1>2, <2>1, ExhaustedIsEarned
  <2>3. status' # "running"
    BY <2>1 DEF Ends
  <2> QED BY <2>2, <2>3 DEF CouncilInv
<1> QED BY <1>1, <1>2

\* A round without votes is not carried.
LEMMA NoVotesNotCarried == ASSUME NEW r, Ayes(r) = {} PROVE ~Carried(r)
<1>1. Cardinality(ConsumedIn(r, "vote", "approve")) = 0
  BY FS_EmptySet DEF Ayes
<1> QED BY <1>1, CouncilCounts DEF Carried

\* The team is nominated, or the proposal comes to nothing.
LEMMA NominatedKeeps == ASSUME RunningFits, Nominated PROVE CouncilInv'
<1>1. CouncilShape /\ BooksFit /\ stage = "nomination" /\ asked = {} /\ status = "running"
      /\ UNCHANGED <<score, count>>
  BY DEF RunningFits, Nominated, Continues
<1>2. NominationFits /\ approvals = {}
  BY <1>1 DEF RunningFits, StageFits, NoVotesYet
<1>3. Ayes(This) = {}
  BY <1>1 DEF BooksFit, NothingAhead
<1>4. CASE chosen[Proposer] = NoChoice
  <2>1. NextAttempt
    BY <1>4 DEF Nominated
  <2> QED BY <1>1, <1>3, <2>1, NoVotesNotCarried, NextAttemptKeeps
<1>5. CASE chosen[Proposer] # NoChoice
  <2>1. /\ team' = chosen[Proposer].members /\ Ask("vote", This, {Order[1]}, history, <<>>)
        /\ UNCHANGED <<setup, status, mission, attempt, approvals>>
    BY <1>5 DEF Nominated, AskFirst, This
  <2>2. IsTeam(chosen[Proposer].members)
    BY <1>1, <1>2, <1>5 DEF NominationFits
  <2>3. KeepsShape
    BY <1>1, <1>2, <2>1, <2>2 DEF KeepsShape, CouncilShape, IsTeam
  <2>4. IsRows(<<>>) /\ IsAsked("vote", {Order[1]}) /\ 1 \in 1..Players
    BY OneRow, FirstIsAsked DEF CouncilStages
  <2>5. /\ CouncilShape' /\ AskedHaveNoChoice' /\ stage' = "vote" /\ asked' = {Order[1]}
        /\ Answered' = {} /\ (\A a \in Actors : chosen'[a] = NoChoice) /\ turn' = 1
    BY <1>1, <2>1, <2>3, <2>4, AskFits
  <2>6. SameBooks
    BY <1>1, <2>1, AskIsNoNews
  <2>7. MovesOn
    BY <1>1, <2>1, <2>5 DEF MovesOn, TalkStages, Opened
  <2>8. BooksFit'
    BY <1>1, <2>6, <2>7, BooksAreKept
  <2>9. This' = This /\ Teams(This)' = Teams(This) /\ Ayes(This)' = {}
    BY <1>3, <2>1, <2>6, SameTables DEF SameBooks, This
  <2>10. TeamFits'
    <3>1. \A i \in Teams(This) : transcript'[i] = transcript[i]
      BY <2>6 DEF SameBooks, SameOf, Teams, ConsumedIn
    <3> QED BY <2>1, <2>2, <2>9, <3>1 DEF TeamFits, IsTeam
  <2>11. Approving' = {}
    BY <1>2, <2>1, <2>5 DEF Approving, NoChoice
  <2>12. VotesFit'
    BY <1>2, <2>1, <2>4, <2>5, <2>9, <2>11 DEF VotesFit
  <2>13. StageFits'
    BY <2>5, <2>10, <2>12 DEF StageFits, NoVotesYet, NominationFits, CommitmentsFit
  <2> QED BY <1>1, <2>1, <2>5, <2>8, <2>13 DEF CouncilInv, RunningFits
<1> QED BY <1>4, <1>5

\* Only the actor whose turn it is has a vote that is not counted yet.
LEMMA VotesCounted ==
    ASSUME RunningFits, stage = "vote"
    PROVE  Approving = IF chosen[Order[turn]].name = "approve" THEN approvals \cup {Order[turn]}
                                                               ELSE approvals
<1>1. Answered \subseteq {Order[turn]} /\ turn \in 1..Players
  BY DEF RunningFits, StageFits, VotesFit
<1>2. Order[turn] \in Actors
  BY <1>1, CouncilCounts
<1>3. \A a \in Actors : chosen[a].name = "approve" => a = Order[turn]
  BY <1>1 DEF Answered, NoChoice
<1> QED BY <1>2, <1>3 DEF Approving

\* The next actor votes, the team goes on its mission, or the proposal fails.
LEMMA VoteEndsKeeps == ASSUME RunningFits, VoteEnds PROVE CouncilInv'
<1>1. CouncilShape /\ BooksFit /\ stage = "vote" /\ asked = {} /\ status = "running"
      /\ UNCHANGED <<score, count>>
  BY DEF RunningFits, VoteEnds, Continues
<1>2. VotesFit /\ TeamFits
  BY DEF RunningFits, StageFits
<1>3. turn \in 1..Players /\ turn \in Nat /\ Players \in Nat
  BY <1>1, <1>2, CouncilCounts DEF VotesFit
<1> DEFINE yes == IF chosen[Order[turn]].name = "approve" THEN approvals \cup {Order[turn]}
                                                           ELSE approvals
<1>4. yes = Approving
  BY <1>1, VotesCounted
<1>5. Cardinality(Ayes(This)) = Cardinality(yes) /\ yes \subseteq {Order[i] : i \in 1..turn}
  <2>1. approvals \subseteq {Order[i] : i \in 1..turn} /\ turn \in 1..turn
    BY <1>1, <1>2, <1>3 DEF VotesFit
  <2> QED BY <1>1, <1>2, <1>4, <2>1 DEF VotesFit
<1>6. Carried(This) <=> IsApproved(yes)
  BY <1>5 DEF Carried, IsApproved, Ayes
<1>7. yes \subseteq Actors
  <2>1. \A i \in 1..turn : i \in 1..Players
    BY <1>3
  <2>2. \A i \in 1..turn : Order[i] \in Actors
    BY <2>1, CouncilCounts
  <2> QED BY <1>5, <2>2
<1>8. /\ turn < Players => approvals' = yes /\ AskNext("vote")
            /\ UNCHANGED <<setup, status, mission, attempt, team>>
      /\ turn = Players /\ IsApproved(yes) =>
            /\ approvals' = yes /\ Ask("mission_commitment", <<mission, 0>>, team, history, <<>>)
            /\ UNCHANGED <<setup, status, mission, attempt, team>>
      /\ ~(turn < Players) /\ ~(turn = Players /\ IsApproved(yes)) => NextAttempt
  BY <1>3 DEF VoteEnds
<1> HIDE DEF yes
<1>9. CASE turn < Players
  <2>1. /\ approvals' = yes /\ Ask("vote", This, {Order[turn + 1]}, history, <<>>)
        /\ UNCHANGED <<setup, status, mission, attempt, team>>
    BY <1>8, <1>9 DEF AskNext, This
  <2>2. KeepsShape
    BY <1>1, <1>7, <2>1 DEF KeepsShape, CouncilShape
  <2>3. IsRows(<<>>) /\ IsAsked("vote", {Order[turn + 1]}) /\ turn + 1 \in 1..Players
    BY <1>3, <1>9, OneRow, NextIsAsked DEF CouncilStages
  <2>4. /\ CouncilShape' /\ AskedHaveNoChoice' /\ stage' = "vote" /\ asked' = {Order[turn + 1]}
        /\ Answered' = {} /\ (\A a \in Actors : chosen'[a] = NoChoice) /\ turn' = turn + 1
    BY <1>1, <2>1, <2>2, <2>3, AskFits
  <2>5. SameBooks
    BY <1>1, <2>1, AskIsNoNews
  <2>6. MovesOn
    BY <1>1, <2>1, <2>4 DEF MovesOn, TalkStages, Opened
  <2>7. BooksFit'
    BY <1>1, <2>5, <2>6, BooksAreKept
  <2>8. This' = This /\ Teams(This)' = Teams(This) /\ Ayes(This)' = Ayes(This)
    BY <2>1, <2>5, SameTables DEF SameBooks, This
  <2>9. TeamFits'
    <3>1. \A i \in Teams(This) : transcript'[i] = transcript[i]
      BY <2>5 DEF SameBooks, SameOf, Teams, ConsumedIn
    <3> QED BY <1>1, <1>2, <2>1, <2>8, <3>1 DEF TeamFits, IsTeam
  <2>10. Approving' = yes
    BY <2>1, <2>4 DEF Approving, NoChoice
  <2>11. VotesFit'
    <3>1. 1..(turn' - 1) = 1..turn
      BY <1>3, <2>4
    <3> QED BY <1>5, <2>1, <2>3, <2>4, <2>8, <2>10, <3>1 DEF VotesFit
  <2>12. StageFits'
    BY <2>4, <2>9, <2>11 DEF StageFits, NoVotesYet, NominationFits, CommitmentsFit
  <2> QED BY <1>1, <2>1, <2>4, <2>7, <2>12 DEF CouncilInv, RunningFits
<1>10. CASE turn = Players /\ IsApproved(yes)
  <2>1. /\ approvals' = yes /\ Ask("mission_commitment", <<mission, 0>>, team, history, <<>>)
        /\ UNCHANGED <<setup, status, mission, attempt, team>>
    BY <1>8, <1>10
  <2>2. KeepsShape
    BY <1>1, <1>7, <2>1 DEF KeepsShape, CouncilShape
  <2>3. IsRows(<<>>) /\ IsAsked("mission_commitment", team)
    BY <1>1, OneRow DEF IsAsked, CouncilStages, CouncilShape
  <2>4. /\ CouncilShape' /\ AskedHaveNoChoice' /\ stage' = "mission_commitment" /\ asked' = team
        /\ Answered' = {} /\ (\A a \in Actors : chosen'[a] = NoChoice)
    BY <1>1, <2>1, <2>2, <2>3, AskFits
  <2>5. SameBooks
    BY <1>1, <2>1, AskIsNoNews
  <2>6. MovesOn
    BY <1>1, <2>1, <2>4 DEF MovesOn, TalkStages, Opened
  <2>7. BooksFit'
    BY <1>1, <2>5, <2>6, BooksAreKept
  <2>8. This' = This /\ Teams(This)' = Teams(This) /\ Carried(This)' = Carried(This)
        /\ Commitments(mission)' = Commitments(mission) /\ Sabotaged(mission)' = Sabotaged(mission)
    <3>1. mission' = mission /\ This' = This
      BY <2>1 DEF This
    <3>2. \A m : Commitments(m)' = Commitments(m) /\ Sabotaged(m)' = Sabotaged(m)
      BY <2>5, SameTables DEF SameBooks
    <3>3. Commitments(mission)' = Commitments(mission) /\ Sabotaged(mission)' = Sabotaged(mission)
      BY <3>1, <3>2, <2>5 DEF Commitments, Sabotaged, ConsumedIn, SameBooks, SameOf
    <3>4. Teams(This)' = Teams(This) /\ Carried(This)' = Carried(This)
      BY <3>1, <2>5 DEF Teams, Carried, ConsumedIn, SameBooks, SameOf, This
    <3> QED BY <3>1, <3>3, <3>4
  <2>9. TeamFits'
    <3>1. \A i \in Teams(This) : transcript'[i] = transcript[i]
      BY <2>5 DEF SameBooks, SameOf, Teams, ConsumedIn
    <3> QED BY <1>1, <1>2, <2>1, <2>8, <3>1 DEF TeamFits, IsTeam
  <2>10. Commitments(mission) = {} /\ ~Sabotaged(mission)
    <3>1. mission \in Nat
      BY <1>1, CouncilCounts DEF CouncilShape
    <3>2. Commitments(mission) = {}
      BY <1>1, <3>1 DEF BooksFit, NothingAhead
    <3> QED BY <3>2 DEF Commitments, Sabotaged
  <2>11. CommitmentsFit'
    <3>1. \A a \in Actors : chosen'[a].name # "sabotage"
      BY <2>4 DEF NoChoice
    <3>2. {transcript[i].id.actor : i \in Commitments(mission)}' = {}
      BY <2>8, <2>10
    <3> QED BY <1>6, <1>10, <2>1, <2>4, <2>8, <2>10, <3>1, <3>2 DEF CommitmentsFit
  <2>12. StageFits'
    BY <2>4, <2>9, <2>11 DEF StageFits, NoVotesYet, NominationFits, VotesFit
  <2> QED BY <1>1, <2>1, <2>4, <2>7, <2>12 DEF CouncilInv, RunningFits
<1>11. CASE ~(turn < Players) /\ ~(turn = Players /\ IsApproved(yes))
  <2>1. ~Carried(This)
    BY <1>3, <1>6, <1>11
  <2> QED BY <1>1, <1>8, <1>11, <2>1, NextAttemptKeeps
<1> QED BY <1>9, <1>10, <1>11

-----------------------------------------------------------------------------
(* The missions.                                                            *)

\* Once a team is on its mission, the transcript tells of it and of no other.
LEMMA MissionTeam ==
    ASSUME RunningFits, stage = "mission_commitment"
    PROVE  /\ This \in Proposals(mission) /\ Carried(This)
           /\ {r \in Proposals(mission) : Carried(r)} = {This}
           /\ Sent(mission) = team /\ Cardinality(team) = MissionSizes[mission]
           /\ Played(mission) <=> Answered = team
           /\ Sabotaged(mission) <=> \E a \in Actors : chosen[a].name = "sabotage"
<1>1. CouncilShape /\ BooksFit /\ CommitmentsFit /\ IsTeam(team)
  BY DEF RunningFits, StageFits, TeamFits
<1>2. attempt \in 1..Opened
  BY <1>1, CouncilCounts DEF CouncilShape, Opened
<1>3. This \in Proposals(mission)
  BY <1>1, <1>2 DEF BooksFit, RoundsFit, This
<1>4. {r \in Proposals(mission) : Carried(r)} = {This}
  BY <1>1, <1>3, MissionTable DEF CommitmentsFit
<1>5. PICK i \in Teams(This) : Teams(This) = {i} /\ transcript[i].members = team
  BY <1>1 DEF IsTeam
<1>6. Sent(mission) = team
  <2>1. Sent(mission) = UNION {transcript[j].members : j \in UNION {Teams(r) : r \in {This}}}
    BY <1>4 DEF Sent, Teams
  <2>2. UNION {Teams(r) : r \in {This}} = {i}
    BY <1>5
  <2>3. {transcript[j].members : j \in {i}} = {team}
    BY <1>5
  <2> QED BY <2>1, <2>2, <2>3
<1>7. Played(mission) <=> Answered = team
  BY <1>1, <1>3, <1>6 DEF Played, CommitmentsFit
<1> QED BY <1>1, <1>3, <1>4, <1>6, <1>7 DEF CommitmentsFit, IsTeam

\* A commitment is missing: the mission is void and the run ends.
LEMMA MissingIsEarned ==
    ASSUME RunningFits, stage = "mission_commitment", asked = {}, IsMissing(chosen),
           UNCHANGED score, Ends("none", "mission_commitment_missing")
    PROVE  VerdictIsEarned' /\ asked' = {}
<1>1. UNCHANGED <<transcript, mission, asked>>
      /\ verdict' = [winner |-> "none", reason |-> "mission_commitment_missing"]
  BY DEF Ends
<1>2. Answered # team
  BY DEF IsMissing, Answered
<1>3. ~Played(mission) /\ This \in Proposals(mission) /\ Carried(This)
  BY <1>2, MissionTeam
<1>4. score' = [council |-> Cardinality(Won), cipher |-> Cardinality(Lost)]
  BY <1>3, MissionsTold DEF RunningFits, BooksFit, ScoreFits, PastWon, PastLost
<1>5. OutcomeIsReached'
  <2>1. SameBooks
    BY <1>1, SameIfUnchanged DEF SameBooks
  <2>2. PICK r \in Proposals(mission) : Carried(r)
    BY <1>3
  <2>3. RoundsIn(transcript)' = RoundsIn(transcript) /\ Carried(r)' = Carried(r)
    BY <2>1, SameProposals, SameTables DEF SameBooks
  <2>4. Proposals(mission)' = Proposals(mission)
    BY <1>1, <2>3 DEF Proposals
  <2>5. Played(mission)' = Played(mission)
    <3>1. \A m : Played(m)' = Played(m)
      BY <2>1, PastIsKept
    <3> QED BY <1>1, <3>1
  <2>6. ~Played(mission)' /\ \E q \in Proposals(mission)' : Carried(q)'
    BY <1>3, <2>2, <2>3, <2>4, <2>5
  <2> QED BY <1>1, <2>6 DEF OutcomeIsReached
<1> QED BY <1>1, <1>3, <1>4, <1>5, EndsEarned

\* The score after the commitments of this mission.
ScoreAfter ==
    IF \E a \in team : chosen[a].name = "sabotage" THEN [score EXCEPT !.cipher = @ + 1]
                                                   ELSE [score EXCEPT !.council = @ + 1]

\* It counts the missions that were won and lost, this one among them.
LEMMA MissionScored ==
    ASSUME RunningFits, stage = "mission_commitment", ~IsMissing(chosen)
    PROVE  /\ Played(mission)
           /\ ScoreAfter = [council |-> Cardinality(Won), cipher |-> Cardinality(Lost)]
           /\ ScoreAfter.council \in Nat /\ ScoreAfter.cipher \in Nat
           /\ ScoreAfter.council + ScoreAfter.cipher = score.council + score.cipher + 1
           /\ ScoreAfter.council <= score.council + 1 /\ ScoreAfter.cipher <= score.cipher + 1
           /\ Won = PastWon \cup (IF Sabotaged(mission) THEN {} ELSE {mission})
           /\ Lost = PastLost \cup (IF Sabotaged(mission) THEN {mission} ELSE {})
<1>1. CouncilShape /\ ScoreFits /\ CommitmentsFit
  BY DEF RunningFits, BooksFit, StageFits
<1>2. Answered = team
  <2>1. team \subseteq Answered
    BY <1>1 DEF IsMissing, Answered, CouncilShape
  <2> QED BY <1>1, <2>1 DEF CommitmentsFit
<1>3. Played(mission)
  BY <1>2, MissionTeam
<1>4. Sabotaged(mission) <=> \E a \in team : chosen[a].name = "sabotage"
  <2>1. \A a \in Actors : chosen[a].name = "sabotage" => a \in team
    BY <1>2 DEF Answered, NoChoice
  <2> QED BY <1>1, <2>1, MissionTeam DEF CouncilShape
<1>5. score = [council |-> Cardinality(PastWon), cipher |-> Cardinality(PastLost)]
  BY <1>1 DEF ScoreFits, PastWon, PastLost
<1>6. mission \notin PastWon /\ mission \notin PastLost /\ IsFiniteSet(PastWon) /\ IsFiniteSet(PastLost)
  <2>1. mission \in Nat
    BY <1>1, CouncilCounts DEF CouncilShape
  <2>2. mission \notin 1..(mission - 1)
    BY <2>1
  <2> QED BY <2>2, MissionsTold
<1>7. /\ Cardinality(PastWon) \in Nat /\ Cardinality(PastLost) \in Nat
      /\ Cardinality(PastWon \cup {mission}) = Cardinality(PastWon) + 1
      /\ Cardinality(PastLost \cup {mission}) = Cardinality(PastLost) + 1
  BY <1>6, FS_AddElement, FS_CardinalityType
<1>8. /\ Won = PastWon \cup (IF Sabotaged(mission) THEN {} ELSE {mission})
      /\ Lost = PastLost \cup (IF Sabotaged(mission) THEN {mission} ELSE {})
  BY <1>3, MissionsTold
<1>9. CASE Sabotaged(mission)
  <2>1. ScoreAfter = [council |-> Cardinality(PastWon), cipher |-> Cardinality(PastLost) + 1]
    BY <1>4, <1>5, <1>9 DEF ScoreAfter
  <2>2. Won = PastWon /\ Lost = PastLost \cup {mission}
    BY <1>8, <1>9
  <2> QED BY <1>3, <1>5, <1>7, <1>8, <2>1, <2>2
<1>10. CASE ~Sabotaged(mission)
  <2>1. ScoreAfter = [council |-> Cardinality(PastWon) + 1, cipher |-> Cardinality(PastLost)]
    BY <1>4, <1>5, <1>10 DEF ScoreAfter
  <2>2. Won = PastWon \cup {mission} /\ Lost = PastLost
    BY <1>8, <1>10
  <2> QED BY <1>3, <1>5, <1>7, <1>8, <2>1, <2>2
<1> QED BY <1>9, <1>10

\* A mission that was played can be the last one.
LEMMA PlayedIsEarned ==
    ASSUME RunningFits, stage = "mission_commitment", asked = {}, ~IsMissing(chosen),
           score' = ScoreAfter, NEW winner, NEW reason, Ends(winner, reason),
           \/ /\ winner = "council" /\ reason = "victory_target_reached"
              /\ ScoreAfter.council >= VictoryTarget
           \/ /\ winner = "cipher" /\ reason = "victory_target_reached"
              /\ ScoreAfter.cipher >= VictoryTarget
           \/ /\ winner = "none" /\ reason = "victory_target_unreached"
              /\ mission = Len(MissionSizes)
    PROVE  VerdictIsEarned' /\ asked' = {}
<1>1. UNCHANGED <<transcript, mission, asked>> /\ verdict' = [winner |-> winner, reason |-> reason]
  BY DEF Ends
<1>2. Played(mission) /\ score' = [council |-> Cardinality(Won), cipher |-> Cardinality(Lost)]
  BY MissionScored
<1>3. Cardinality(Sent(mission)) = MissionSizes[mission]
  BY MissionTeam
<1>4. /\ score.council < VictoryTarget /\ score.cipher < VictoryTarget
      /\ score.council \in Nat /\ score.cipher \in Nat /\ VictoryTarget \in Nat
  BY CouncilCounts DEF RunningFits, CouncilShape, BooksFit, ScoreFits
<1>5. /\ ScoreAfter.council \in Nat /\ ScoreAfter.cipher \in Nat
      /\ ScoreAfter.council <= score.council + 1 /\ ScoreAfter.cipher <= score.cipher + 1
  BY MissionScored
<1>6. CASE winner = "council" /\ reason = "victory_target_reached" /\ ScoreAfter.council >= VictoryTarget
  <2>1. score'.council = VictoryTarget
    BY <1>4, <1>5, <1>6
  <2>2. OutcomeIsReached'
    <3>1. verdict'.winner = "council" /\ verdict'.reason = "victory_target_reached"
      BY <1>1, <1>6
    <3> QED BY <2>1, <3>1 DEF OutcomeIsReached
  <2> QED BY <1>1, <1>2, <1>3, <2>2, EndsEarned
<1>7. CASE winner = "cipher" /\ reason = "victory_target_reached" /\ ScoreAfter.cipher >= VictoryTarget
  <2>1. score'.cipher = VictoryTarget
    BY <1>4, <1>5, <1>7
  <2>2. OutcomeIsReached'
    <3>1. verdict'.winner = "cipher" /\ verdict'.reason = "victory_target_reached"
      BY <1>1, <1>7
    <3> QED BY <2>1, <3>1 DEF OutcomeIsReached
  <2> QED BY <1>1, <1>2, <1>3, <2>2, EndsEarned
<1>8. CASE winner = "none" /\ reason = "victory_target_unreached" /\ mission = Len(MissionSizes)
  <2>1. Won \cup Lost = 1..(mission - 1) \cup {mission}
    BY MissionScored, MissionsTold
  <2>2. Won \cup Lost = DOMAIN MissionSizes
    BY <1>8, <2>1, CouncilCounts
  <2>3. SameBooks
    BY <1>1, SameIfUnchanged DEF SameBooks
  <2>4. Won' = Won /\ Lost' = Lost
    BY <2>3, PastIsKept DEF Won, Lost
  <2>5. OutcomeIsReached'
    BY <1>1, <1>8, <2>2, <2>4 DEF OutcomeIsReached
  <2> QED BY <1>1, <1>2, <1>3, <2>5, EndsEarned
<1> QED BY <1>6, <1>7, <1>8

\* A mission that was played leads to the next one.
LEMMA NextMissionKeeps ==
    ASSUME RunningFits, stage = "mission_commitment", asked = {}, ~IsMissing(chosen),
           score' = ScoreAfter, ScoreAfter.council < VictoryTarget, ScoreAfter.cipher < VictoryTarget,
           mission < Len(MissionSizes), mission' = mission + 1, attempt' = 1, stage' = "round",
           DOMAIN count' = DOMAIN count, count'.proposals = count.proposals,
           UNCHANGED <<setup, turn, asked, chosen, team, approvals, transcript>>
    PROVE  RunningFits'
<1>1. CouncilShape /\ BooksFit
  BY DEF RunningFits
<1>2. mission \in Nat /\ mission >= 1 /\ Len(MissionSizes) \in Nat /\ MaxProposals >= 1
      /\ MaxProposals \in Nat
  BY <1>1, CouncilCounts DEF CouncilShape
<1>3. score' = [council |-> Cardinality(Won), cipher |-> Cardinality(Lost)] /\ Played(mission)
      /\ score'.council \in Nat /\ score'.cipher \in Nat
  BY MissionScored
<1>4. CouncilShape'
  <2>1. mission' \in 1..Len(MissionSizes) /\ attempt' \in 1..MaxProposals
    BY <1>2
  <2>2. score' \in [council : Nat, cipher : Nat]
    BY <1>3
  <2> QED BY <1>1, <2>1, <2>2 DEF CouncilShape
<1>5. SameBooks
  BY SameIfUnchanged DEF SameBooks
<1>6. /\ \A r : Carried(r)' = Carried(r) /\ Teams(r)' = Teams(r) /\ Ayes(r)' = Ayes(r)
      /\ \A m : Commitments(m)' = Commitments(m) /\ Sabotaged(m)' = Sabotaged(m)
  BY <1>5, SameTables DEF SameBooks
<1>7. RoundsFit'
  <2>1. RoundsIn(transcript)' = RoundsIn(transcript) /\ \A r \in RoundsIn(transcript) : r[1] \in 1..mission
    BY <1>1, <1>5, SameProposals DEF BooksFit, RoundsFit, SameBooks
  <2>2. Opened' = 0
    BY DEF Opened
  <2>3. \A r \in RoundsIn(transcript) : r[1] # mission + 1 /\ r[1] \in 1..(mission + 1)
    BY <1>2, <2>1
  <2>4. Proposals(mission)' = {}
    BY <2>1, <2>3 DEF Proposals
  <2>5. {<<mission', k>> : k \in 1..Opened'} = {}
    BY <2>2
  <2> QED BY <2>1, <2>3, <2>4, <2>5 DEF RoundsFit
<1>8. NothingAhead'
  <2>1. \A m \in Nat, k \in Nat : m > mission => Teams(<<m, k>>) = {} /\ Ayes(<<m, k>>) = {}
    BY <1>1 DEF BooksFit, NothingAhead
  <2>2. \A m \in Nat : m > mission => Commitments(m) = {}
    BY <1>1 DEF BooksFit, NothingAhead
  <2>3. \A m \in Nat : m > mission + 1 \/ m = mission + 1 => m > mission
    BY <1>2
  <2>4. \A m \in Nat, k \in Nat :
            m > mission' \/ (m = mission' /\ k > attempt') \/ (m = mission' /\ k = attempt')
            => Teams(<<m, k>>)' = {} /\ Ayes(<<m, k>>)' = {}
    BY <1>6, <2>1, <2>3
  <2>5. \A m \in Nat : m > mission' \/ m = mission' => Commitments(m)' = {}
    BY <1>6, <2>2, <2>3
  <2> QED BY <2>4, <2>5 DEF NothingAhead
<1>9. NoneCarriedBefore'
  BY DEF NoneCarriedBefore
<1>10. PastMissions' = PastMissions \cup {mission}
  BY <1>2 DEF PastMissions
<1>11. IsSettled(mission)
  BY <1>3, MissionTeam DEF IsSettled
<1>12. PastIsSettled'
  <2>1. \A m \in PastMissions' : IsSettled(m)
    BY <1>1, <1>10, <1>11 DEF BooksFit, PastIsSettled
  <2>2. \A m : IsSettled(m)' = IsSettled(m)
    BY <1>5, PastIsKept
  <2> QED BY <2>1, <2>2 DEF PastIsSettled
<1>13. ScoreFits'
  <2>1. PastWon' = Won /\ PastLost' = Lost
    BY <1>6, <1>10, MissionScored DEF PastWon, PastLost
  <2> QED BY <1>3, <2>1 DEF ScoreFits, PastWon, PastLost
<1>14. SabotageIsOfCiphers'
  BY <1>1, <1>5, RolesAreKept DEF BooksFit
<1>15. StageFits'
  <2>1. AskedHaveNoChoice' /\ NoVotesYet'
    BY DEF AskedHaveNoChoice, NoVotesYet
  <2> QED BY <2>1, TalkFits DEF TalkStages
<1> QED BY <1>4, <1>7, <1>8, <1>9, <1>12, <1>13, <1>14, <1>15 DEF RunningFits, BooksFit

\* The commitments are in.
LEMMA MissionEndsKeeps == ASSUME RunningFits, MissionEnds PROVE CouncilInv'
<1>1. stage = "mission_commitment" /\ asked = {} /\ status = "running"
  BY DEF MissionEnds, Continues
<1>2. CASE IsMissing(chosen)
  <2>1. Ends("none", "mission_commitment_missing") /\ UNCHANGED score
    BY <1>2 DEF MissionEnds
  <2>2. VerdictIsEarned' /\ asked' = {}
    BY <1>1, <1>2, <2>1, MissingIsEarned
  <2> QED BY <2>1, <2>2 DEF CouncilInv, Ends
<1>3. CASE ~IsMissing(chosen)
  <2>1. score' = ScoreAfter /\ count' = [count EXCEPT !.missions = @ + 1]
    BY <1>3 DEF MissionEnds, ScoreAfter
  <2>2. DOMAIN count' = DOMAIN count /\ count'.proposals = count.proposals
    BY <2>1 DEF RunningFits, CouncilShape, ZeroCounts
  <2>3. CASE ScoreAfter.council >= VictoryTarget
    <3>1. Ends("council", "victory_target_reached")
      BY <1>1, <1>3, <2>3, MissionScored, CouncilCounts DEF MissionEnds, ScoreAfter
    <3>2. VerdictIsEarned' /\ asked' = {}
      BY <1>1, <1>3, <2>1, <2>3, <3>1, PlayedIsEarned
    <3> QED BY <3>1, <3>2 DEF CouncilInv, Ends
  <2>4. CASE ScoreAfter.council < VictoryTarget /\ ScoreAfter.cipher >= VictoryTarget
    <3>1. Ends("cipher", "victory_target_reached")
      BY <1>3, <2>4, MissionScored, CouncilCounts DEF MissionEnds, ScoreAfter
    <3>2. VerdictIsEarned' /\ asked' = {}
      BY <1>1, <1>3, <2>1, <2>4, <3>1, PlayedIsEarned
    <3> QED BY <3>1, <3>2 DEF CouncilInv, Ends
  <2>5. CASE ScoreAfter.council < VictoryTarget /\ ScoreAfter.cipher < VictoryTarget
    <3>0. ~(ScoreAfter.council >= VictoryTarget) /\ ~(ScoreAfter.cipher >= VictoryTarget)
      BY <1>1, <1>3, <2>5, MissionScored, CouncilCounts
    <3>1. /\ mission < Len(MissionSizes) =>
               /\ mission' = mission + 1 /\ attempt' = 1 /\ stage' = "round"
               /\ UNCHANGED <<setup, status, turn, asked, chosen, team, approvals, transcript>>
          /\ ~(mission < Len(MissionSizes)) => Ends("none", "victory_target_unreached")
      BY <1>3, <3>0 DEF MissionEnds, ScoreAfter
    <3>2. CASE mission < Len(MissionSizes)
      <4>1. RunningFits'
        BY <1>1, <1>3, <2>1, <2>2, <2>5, <3>1, <3>2, NextMissionKeeps
      <4> QED BY <1>1, <3>1, <3>2, <4>1 DEF CouncilInv
    <3>3. CASE ~(mission < Len(MissionSizes))
      <4>1. mission = Len(MissionSizes)
        BY <3>3, CouncilCounts DEF RunningFits, CouncilShape
      <4>2. VerdictIsEarned' /\ asked' = {}
        BY <1>1, <1>3, <2>1, <3>1, <3>3, <4>1, PlayedIsEarned
      <4>3. status' # "running"
        BY <3>1, <3>3 DEF Ends
      <4> QED BY <4>2, <4>3 DEF CouncilInv
    <3> QED BY <3>2, <3>3
  <2> QED BY <1>1, <1>3, <2>3, <2>4, <2>5, MissionScored, CouncilCounts
<1> QED BY <1>2, <1>3

-----------------------------------------------------------------------------
(* The turns of the actors.                                                 *)

\* The invariant looks at this part of the state only.
councilPart == <<setup, status, stage, mission, attempt, turn, asked, chosen, team, approvals,
                 count, score, verdict, transcript>>

\* What leaves that part alone keeps the invariant.
LEMMA CouncilStutter == ASSUME CouncilInv, UNCHANGED councilPart PROVE CouncilInv'
<1>1. SameBooks
  BY SameIfUnchanged DEF councilPart, SameBooks
<1>2. /\ \A r : Carried(r)' = Carried(r) /\ Teams(r)' = Teams(r) /\ Ayes(r)' = Ayes(r)
      /\ \A m : Commitments(m)' = Commitments(m)
  BY <1>1, SameTables DEF SameBooks
<1>3. \A m : /\ Proposals(m)' = Proposals(m) /\ Sabotaged(m)' = Sabotaged(m)
             /\ Played(m)' = Played(m) /\ Sent(m)' = Sent(m)
  BY <1>1, PastIsKept, SameProposals DEF SameBooks
<1>4. ASSUME status = "over" PROVE VerdictIsEarned' /\ asked' = {}
  <2>1. Won' = Won /\ Lost' = Lost
    BY <1>3 DEF Won, Lost
  <2>2. OutcomeIsReached' = OutcomeIsReached
    <3>1. Proposals(mission)' = Proposals(mission) /\ Played(mission)' = Played(mission)
      BY <1>3 DEF councilPart
    <3> QED BY <1>2, <2>1, <3>1 DEF councilPart, OutcomeIsReached
  <2>3. VerdictIsEarned' = VerdictIsEarned
    BY <1>2, <1>3, <2>1, <2>2 DEF councilPart, VerdictIsEarned
  <2> QED BY <1>4, <2>3 DEF CouncilInv, councilPart
<1>5. ASSUME status = "running" PROVE RunningFits'
  <2>1. CouncilShape /\ BooksFit /\ StageFits
    BY <1>5 DEF CouncilInv, RunningFits
  <2>2. CouncilShape'
    BY <2>1 DEF councilPart, CouncilShape
  <2>3. MovesOn
    BY <2>1 DEF councilPart, MovesOn, Opened, BooksFit, NothingAhead
  <2>4. BooksFit'
    BY <1>1, <2>1, <2>3, BooksAreKept
  <2>5. Answered' = Answered /\ Approving' = Approving /\ This' = This /\ Proposer' = Proposer
    BY DEF councilPart, Answered, Approving, This, Proposer
  <2>6. /\ Teams(This)' = Teams(This) /\ Ayes(This)' = Ayes(This) /\ Carried(This)' = Carried(This)
        /\ Commitments(mission)' = Commitments(mission) /\ Sabotaged(mission)' = Sabotaged(mission)
    BY DEF councilPart, Teams, Ayes, Carried, Commitments, Sabotaged, ConsumedIn, This
  <2>7. StageFits'
    BY <2>1, <2>5, <2>6 DEF councilPart, StageFits, AskedHaveNoChoice, NoVotesYet, NominationFits,
                            TeamFits, VotesFit, CommitmentsFit, IsTeam
  <2> QED BY <2>2, <2>4, <2>7 DEF RunningFits
<1> QED BY <1>4, <1>5 DEF CouncilInv, councilPart

\* The terminal rows that are written when a request ends.
LEMMA ReleasedAreRows ==
    ASSUME NEW a
    PROVE  /\ IsRows(ReleasedRows(a))
           /\ \A kind : kind # "terminal" => RowsOf(ReleasedRows(a), kind) = {}
<1> DEFINE I == {i \in DOMAIN Order : Order[i] \in Released(a)}
           n == Cardinality(I)
           t == ReleasedRows(a)
<1>1. n \in Nat
  <2>1. DOMAIN Order = 1..Players /\ Players \in Nat
    BY CouncilCounts
  <2>2. I \in SUBSET (1..Players)
    BY <2>1
  <2>3. IsFiniteSet(1..Players)
    BY <2>1, FS_Interval
  <2> QED BY <2>2, <2>3, FS_Subset, FS_CardinalityType
<1>2. DOMAIN InOrder(Released(a)) = 1..n
  BY DEF InOrder, Picked
<1>3. t = [i \in 1..n |-> TerminalRow(InOrder(Released(a))[i])]
  BY <1>2 DEF ReleasedRows
<1> HIDE DEF n, t
<1>4. IsRows(t) /\ DOMAIN t = 1..n /\ \A i \in 1..n : t[i].kind = "terminal"
  <2>1. t = [i \in 1..n |-> t[i]] /\ DOMAIN t = 1..n
    BY <1>3
  <2>2. \A i \in 1..n : t[i].kind = "terminal"
    BY <1>3 DEF TerminalRow
  <2> QED BY <1>1, <2>1, <2>2, MappedAreRows
<1>5. \A kind : kind # "terminal" => RowsOf(t, kind) = {}
  BY <1>4 DEF RowsOf
<1> QED BY <1>4, <1>5 DEF t

\* The transcript with those rows.
Told(a) == transcript \o ReleasedRows(a)

\* They are appended: no row of another kind is added or changed.
LEMMA ReleasedAdded ==
    ASSUME IsRows(transcript), NEW a
    PROVE  /\ IsRows(Told(a)) /\ Len(Told(a)) \in Nat /\ Len(Told(a)) >= Len(transcript)
           /\ \A kind : kind # "terminal" => SameOf(transcript, Told(a), kind)
<1>1. IsRows(ReleasedRows(a)) /\ \A kind : kind # "terminal" => RowsOf(ReleasedRows(a), kind) = {}
  BY ReleasedAreRows
<1>2. Extends(transcript, ReleasedRows(a), Told(a))
  BY <1>1, RowsConcat DEF Told
<1>3. Len(transcript) \in Nat /\ Len(ReleasedRows(a)) \in Nat
  BY <1>1, RowsAreMapped
<1>4. IsRows(Told(a)) /\ Len(Told(a)) = Len(transcript) + Len(ReleasedRows(a))
  BY <1>2 DEF Extends
<1>5. \A kind : kind # "terminal" => SameOf(transcript, Told(a), kind)
  BY <1>1, SameOfConcat DEF Told
<1> QED BY <1>3, <1>4, <1>5

\* A request that ends and leaves nothing else.
LEMMA RowsAtEnd ==
    ASSUME IsRows(transcript), NEW a, RequestEnds(a, <<>>)
    PROVE  transcript' = Told(a)
<1>1. IsRows(Told(a)) /\ transcript' = Told(a) \o <<>>
  BY ReleasedAdded DEF RequestEnds, Told
<1> QED BY <1>1, ConcatEmptySeq DEF IsRows

\* A request that ends without a choice.
LEMMA UnansweredKeeps ==
    ASSUME RunningFits, NEW a \in asked, Unanswered(a)
    PROVE  RunningFits'
<1>1. CouncilShape /\ BooksFit /\ StageFits
  BY DEF RunningFits
<1>2. /\ asked' = asked \ {a} /\ count' = [count EXCEPT !.failures = @ + 1]
      /\ RequestEnds(a, <<>>)
      /\ UNCHANGED <<setup, status, stage, mission, attempt, turn, chosen, team, approvals,
                     score, verdict>>
  BY DEF Unanswered, RequestEnds, schedule
<1>6. SameBooks /\ IsRows(transcript')
  <2>1. transcript' = Told(a)
    BY <1>1, <1>2, RowsAtEnd DEF CouncilShape
  <2>2. IsRows(Told(a)) /\ \A kind : kind # "terminal" => SameOf(transcript, Told(a), kind)
    BY <1>1, ReleasedAdded DEF CouncilShape
  <2> QED BY <2>1, <2>2 DEF SameBooks
<1>7. MovesOn
  BY <1>1, <1>2 DEF MovesOn, Opened, BooksFit, NothingAhead
<1>8. BooksFit'
  BY <1>1, <1>6, <1>7, BooksAreKept
<1>9. CouncilShape'
  BY <1>1, <1>2, <1>6 DEF CouncilShape, ZeroCounts
<1>10. Answered' = Answered /\ Approving' = Approving /\ This' = This /\ Proposer' = Proposer
  BY <1>1, <1>2 DEF Answered, Approving, This, Proposer, CouncilShape, ZeroCounts
<1>11. /\ Teams(This)' = Teams(This) /\ Ayes(This)' = Ayes(This) /\ Carried(This)' = Carried(This)
       /\ Commitments(mission)' = Commitments(mission) /\ Sabotaged(mission)' = Sabotaged(mission)
  BY <1>2, <1>6 DEF Teams, Ayes, Carried, Commitments, Sabotaged, ConsumedIn, This, SameBooks, SameOf
<1>12. /\ \A i \in Teams(This) : transcript'[i] = transcript[i]
       /\ \A i \in Commitments(mission) : transcript'[i] = transcript[i]
  BY <1>6 DEF SameBooks, SameOf, Teams, Commitments, ConsumedIn
<1>13. \A T : IsTeam(T) => IsTeam(T)'
  BY <1>2, <1>11, <1>12 DEF IsTeam
<1>14. CommitmentsFit'
  <2>1. {transcript[i].id.actor : i \in Commitments(mission)}' =
        {transcript[i].id.actor : i \in Commitments(mission)}
    BY <1>11, <1>12
  <2> QED BY <1>1, <1>2, <1>10, <1>11, <2>1 DEF StageFits, CommitmentsFit
<1>15. TeamFits' /\ NominationFits'
  BY <1>1, <1>2, <1>10, <1>11, <1>13 DEF StageFits, TeamFits, NominationFits
<1>16. VotesFit'
  BY <1>1, <1>2, <1>10, <1>11 DEF StageFits, VotesFit
<1>17. AskedHaveNoChoice' /\ NoVotesYet'
  BY <1>1, <1>2, <1>10 DEF StageFits, AskedHaveNoChoice, NoVotesYet
<1> QED BY <1>8, <1>9, <1>14, <1>15, <1>16, <1>17 DEF RunningFits, StageFits

\* The rows of a choice that is consumed.
SubmittedAt(a) == Len(Told(a)) + 1
LEMMA SubmitRows ==
    ASSUME CouncilShape, NEW a, NEW c,
           transcript' = Told(a) \o <<ConsumedRow(a, c)>>
    PROVE  /\ IsRows(transcript')
           /\ SameOf(transcript, transcript', "round") /\ SameOf(transcript, transcript', "role")
           /\ RowsOf(transcript', "consumed") = RowsOf(transcript, "consumed") \cup {SubmittedAt(a)}
           /\ \A i \in RowsOf(transcript, "consumed") : transcript'[i] = transcript[i]
           /\ SubmittedAt(a) \notin RowsOf(transcript, "consumed")
           /\ transcript'[SubmittedAt(a)] = ConsumedRow(a, c)
<1> DEFINE row == ConsumedRow(a, c)
           t == <<row>>
           u == Told(a)
<1>1. row.kind = "consumed"
  BY DEF ConsumedRow
<1>2. IsRows(t) /\ DOMAIN t = 1..1 /\ t[1] = row /\ \A kind : kind # row.kind => RowsOf(t, kind) = {}
  BY OneRow
<1>3. transcript' = u \o t
  OBVIOUS
<1>0. IsRows(transcript)
  BY DEF CouncilShape
<1>4. Len(transcript) \in Nat /\ DOMAIN transcript = 1..Len(transcript)
  BY <1>0, RowsAreMapped
<1>5. /\ IsRows(u) /\ Len(u) \in Nat /\ Len(u) >= Len(transcript)
      /\ \A kind : kind # "terminal" => SameOf(transcript, u, kind)
  BY <1>0, ReleasedAdded
<1> HIDE DEF row, t, u
<1>6. RowsOf(t, "consumed") = {1}
  BY <1>1, <1>2 DEF RowsOf
<1>7. IsRows(transcript') /\ SameOf(u, transcript', "round") /\ SameOf(u, transcript', "role")
  <2>1. \A kind : kind # "consumed" => IsRows(transcript') /\ SameOf(u, transcript', kind)
    BY <1>1, <1>2, <1>3, <1>5, SameOfConcat
  <2> QED BY <2>1
<1>8. SameOf(transcript, transcript', "round") /\ SameOf(transcript, transcript', "role")
  BY <1>5, <1>7 DEF SameOf
<1>9. RowsAdded(u, t, transcript', "consumed")
  BY <1>2, <1>3, <1>5, RowsOfConcat
<1>10. SameOf(transcript, u, "consumed")
  BY <1>5
<1> DEFINE x == Len(u) + 1
<1>11. /\ RowsOf(transcript', "consumed") = RowsOf(transcript, "consumed") \cup {x}
       /\ \A i \in RowsOf(transcript, "consumed") : transcript'[i] = transcript[i]
       /\ transcript'[x] = row
  <2>1. {Len(u) + i : i \in {1}} = {x}
    OBVIOUS
  <2>2. transcript'[Len(u) + 1] = t[1]
    BY <1>6, <1>9 DEF RowsAdded
  <2> QED BY <1>2, <1>6, <1>9, <1>10, <2>1, <2>2 DEF RowsAdded, SameOf
<1>12. x \notin RowsOf(transcript, "consumed")
  BY <1>4, <1>5 DEF RowsOf
<1>13. x = SubmittedAt(a)
  BY DEF SubmittedAt, u
<1> HIDE DEF x
<1> QED BY <1>7, <1>8, <1>11, <1>12, <1>13 DEF row

\* One table gains one row.
LEMMA SubmitTables ==
    ASSUME CouncilShape, NEW a, NEW c,
           transcript' = Told(a) \o <<ConsumedRow(a, c)>>
    PROVE  \A r, st, n : ConsumedIn(r, st, n)' =
               ConsumedIn(r, st, n) \cup
                   (IF r = RoundKey /\ st = stage /\ n = c.name THEN {SubmittedAt(a)} ELSE {})
<1> TAKE r, st, n
<1> DEFINE x == SubmittedAt(a)
           new == transcript'[x]
<1>1. /\ RowsOf(transcript', "consumed") = RowsOf(transcript, "consumed") \cup {x}
      /\ \A i \in RowsOf(transcript, "consumed") : transcript'[i] = transcript[i]
      /\ new = ConsumedRow(a, c)
  BY SubmitRows
<1> HIDE DEF x, new
<1>2. new.id.round = RoundKey /\ new.id.stage = stage /\ new.choice = c.name
  <2>1. ConsumedRow(a, c).id = IdOf(a) /\ ConsumedRow(a, c).choice = c.name
    BY DEF ConsumedRow
  <2>2. IdOf(a).round = RoundKey /\ IdOf(a).stage = stage
    BY DEF IdOf, RequestId
  <2> QED BY <1>1, <2>1, <2>2
<1>3. ConsumedIn(r, st, n)' = {i \in RowsOf(transcript', "consumed") :
          transcript'[i].id.round = r /\ transcript'[i].id.stage = st /\ transcript'[i].choice = n}
  BY DEF ConsumedIn
<1>4. ConsumedIn(r, st, n) = {i \in RowsOf(transcript, "consumed") :
          transcript[i].id.round = r /\ transcript[i].id.stage = st /\ transcript[i].choice = n}
  BY DEF ConsumedIn
<1>5. ConsumedIn(r, st, n)' = ConsumedIn(r, st, n) \cup
          (IF r = RoundKey /\ st = stage /\ n = c.name THEN {x} ELSE {})
  BY <1>1, <1>2, <1>3, <1>4 DEF new
<1> QED BY <1>5 DEF x

\* What a legal choice can be.
LEMMA LegalChoice ==
    ASSUME CouncilShape, NEW a \in Actors, NEW c \in Submittable(a), IsLegal(a, c)
    PROVE  /\ c.name = "skip" =>
                  stage \in {"cipher_council", "deliberation", "vote"}
           /\ c.name # "skip" => c \in [name : ChoiceNames, members : SUBSET Actors] /\ c # NoChoice
           /\ c.name = "sabotage" => a \in Ciphers
           /\ stage = "nomination" =>
                  c.name = "team" /\ Cardinality(c.members) = MissionSizes[mission]
           /\ stage = "vote" => c.name \in {"approve", "reject", "skip"}
           /\ stage = "mission_commitment" => c.name \in {"support", "sabotage"}
<1>1. c \in Options(a) \/ (SkipAllowed /\ c.name = "skip")
  BY DEF IsLegal
<1>2. CASE SkipAllowed /\ c.name = "skip"
  <2>1. stage \in {"cipher_council", "deliberation", "vote"} /\ c.name = "skip"
    BY <1>2 DEF SkipAllowed
  <2> QED BY <2>1
<1>3. CASE c \in Options(a)
  <2>1. CASE stage = "cipher_council"
    BY <1>3, <2>1 DEF Options, Choice, ChoiceNames, NoChoice
  <2>2. CASE stage = "deliberation"
    BY <1>3, <2>2 DEF Options, Choice, ChoiceNames, NoChoice
  <2>3. CASE stage = "nomination"
    <3>1. PICK T \in setup.teams : Cardinality(T) = MissionSizes[mission]
                                   /\ c = [name |-> "team", members |-> T]
      BY <1>3, <2>3 DEF Options
    <3>2. T \subseteq Actors
      BY SetupsAssumption DEF CouncilShape
    <3> QED BY <2>3, <3>1, <3>2 DEF ChoiceNames, NoChoice
  <2>4. CASE stage = "vote"
    BY <1>3, <2>4 DEF Options, Choice, ChoiceNames, NoChoice
  <2>5. CASE stage \notin {"cipher_council", "deliberation", "nomination", "vote"}
    BY <1>3, <2>5 DEF Options, Choice, ChoiceNames, NoChoice
  <2> QED BY <2>1, <2>2, <2>3, <2>4, <2>5
<1> QED BY <1>1, <1>2, <1>3

\* Which tables a choice that is consumed can change.
LEMMA SubmitChanges ==
    ASSUME CouncilShape, NEW a \in Actors, NEW c,
           transcript' = Told(a) \o <<ConsumedRow(a, c)>>
    PROVE  /\ \A m, k : <<m, k>> # This \/ stage # "nomination"
                           => Teams(<<m, k>>)' = Teams(<<m, k>>)
           /\ \A m, k : <<m, k>> # This \/ stage # "vote" \/ c.name # "approve"
                           => Ayes(<<m, k>>)' = Ayes(<<m, k>>) /\ Carried(<<m, k>>)' = Carried(<<m, k>>)
           /\ \A r : r[1] # mission => Teams(r)' = Teams(r) /\ Carried(r)' = Carried(r)
           /\ \A m : m # mission \/ stage # "mission_commitment"
                        => Commitments(m)' = Commitments(m) /\ Sabotaged(m)' = Sabotaged(m)
<1>1. \A r, st, n : r # RoundKey \/ st # stage \/ n # c.name
          => ConsumedIn(r, st, n)' = ConsumedIn(r, st, n)
  <2> TAKE r, st, n
  <2>1. ConsumedIn(r, st, n)' = ConsumedIn(r, st, n) \cup
            (IF r = RoundKey /\ st = stage /\ n = c.name THEN {SubmittedAt(a)} ELSE {})
    BY SubmitTables
  <2> QED BY <2>1
<1>2. RoundKey = IF stage = "mission_commitment" THEN <<mission, 0>> ELSE This
  BY DEF RoundKey, This
<1>3. \A r : r # This \/ stage # "nomination" => Teams(r)' = Teams(r)
  BY <1>1, <1>2 DEF Teams
<1>4. \A r : r # This \/ stage # "vote" \/ c.name # "approve"
          => Ayes(r)' = Ayes(r) /\ Carried(r)' = Carried(r)
  BY <1>1, <1>2 DEF Ayes, Carried
<1>5. \A r : r[1] # mission => r # This
  BY DEF This
<1>6. \A m : m # mission \/ stage # "mission_commitment"
          => Commitments(m)' = Commitments(m) /\ Sabotaged(m)' = Sabotaged(m)
  BY <1>1, <1>2 DEF Commitments, Sabotaged
<1> QED BY <1>3, <1>4, <1>5, <1>6

\* A choice that is consumed keeps the books.
LEMMA SubmitBooks ==
    ASSUME RunningFits, NEW a \in Actors, NEW c \in Submittable(a), Submits(a, c)
    PROVE  BooksFit'
<1>0. CouncilShape /\ BooksFit
  BY DEF RunningFits
<1>1. CouncilShape /\ BooksFit /\ mission \in Nat /\ attempt \in Nat
  BY <1>0, NowIsCounted
<1>2. /\ IsLegal(a, c) /\ transcript' = Told(a) \o <<ConsumedRow(a, c)>>
      /\ UNCHANGED <<setup, stage, mission, attempt, score>>
  BY DEF Submits, RequestEnds, Told, schedule
<1>3. /\ SameOf(transcript, transcript', "round") /\ SameOf(transcript, transcript', "role")
      /\ RowsOf(transcript', "consumed") = RowsOf(transcript, "consumed") \cup {SubmittedAt(a)}
      /\ \A i \in RowsOf(transcript, "consumed") : transcript'[i] = transcript[i]
      /\ transcript'[SubmittedAt(a)] = ConsumedRow(a, c)
  BY <1>1, <1>2, SubmitRows
<1>4. /\ \A m, k : <<m, k>> # This \/ stage # "nomination"
                      => Teams(<<m, k>>)' = Teams(<<m, k>>)
      /\ \A m, k : <<m, k>> # This \/ stage # "vote" \/ c.name # "approve"
                      => Ayes(<<m, k>>)' = Ayes(<<m, k>>) /\ Carried(<<m, k>>)' = Carried(<<m, k>>)
      /\ \A r : r[1] # mission => Teams(r)' = Teams(r) /\ Carried(r)' = Carried(r)
      /\ \A m : m # mission \/ stage # "mission_commitment"
                   => Commitments(m)' = Commitments(m) /\ Sabotaged(m)' = Sabotaged(m)
  BY <1>1, <1>2, SubmitChanges
<1>5. RoundsFit'
  BY <1>1, <1>2, <1>3, SameProposals DEF BooksFit, RoundsFit, Opened
<1>6. NothingAhead'
  <2>1. \A m \in Nat, k \in Nat :
            \/ m > mission \/ (m = mission /\ k > attempt)
            \/ m = mission /\ k = attempt /\ stage \in {"round", "cipher_council", "deliberation"}
            => <<m, k>> # This \/ stage \in {"round", "cipher_council", "deliberation"}
    BY <1>1 DEF This
  <2>2. \A m \in Nat, k \in Nat :
            \/ m > mission \/ (m = mission /\ k > attempt)
            \/ m = mission /\ k = attempt /\ stage \in {"round", "cipher_council", "deliberation"}
            => Teams(<<m, k>>)' = {} /\ Ayes(<<m, k>>)' = {}
    <3> TAKE m \in Nat, k \in Nat
    <3> HAVE \/ m > mission \/ (m = mission /\ k > attempt)
             \/ m = mission /\ k = attempt /\ stage \in {"round", "cipher_council", "deliberation"}
    <3>1. Teams(<<m, k>>) = {} /\ Ayes(<<m, k>>) = {}
      BY <1>1 DEF BooksFit, NothingAhead
    <3>2. <<m, k>> # This \/ stage \in {"round", "cipher_council", "deliberation"}
      BY <2>1
    <3> QED BY <1>4, <3>1, <3>2
  <2>3. \A m \in Nat : m > mission \/ (m = mission /\ stage # "mission_commitment")
            => Commitments(m)' = {}
    BY <1>1, <1>4 DEF BooksFit, NothingAhead
  <2>4. stage = "nomination" => Ayes(This)' = {}
    <3>1. \A m, k : stage = "nomination" => Ayes(<<m, k>>)' = Ayes(<<m, k>>)
      BY <1>4
    <3>2. stage = "nomination" => Ayes(<<mission, attempt>>) = {}
      BY <1>1 DEF BooksFit, NothingAhead, This
    <3> QED BY <1>2, <3>1, <3>2 DEF This
  <2> QED BY <1>2, <2>2, <2>3, <2>4 DEF NothingAhead
<1>7. NoneCarriedBefore'
  <2> SUFFICES ASSUME NEW k \in 1..(attempt - 1) PROVE ~Carried(<<mission, k>>)'
    BY <1>2 DEF NoneCarriedBefore
  <2>1. <<mission, k>> # This
    BY <1>1 DEF This
  <2>2. \A m : <<m, k>> # This => Carried(<<m, k>>)' = Carried(<<m, k>>)
    BY <1>4
  <2>3. \A m : m = mission => ~Carried(<<m, k>>)'
    BY <1>1, <2>1, <2>2 DEF BooksFit, NoneCarriedBefore
  <2> QED BY <1>2, <2>3 DEF Carried, ConsumedIn
<1>8. \A m \in PastMissions : Sabotaged(m)' = Sabotaged(m) /\ IsSettled(m)' = IsSettled(m)
  <2> TAKE m \in PastMissions
  <2>1. m # mission
    BY <1>1 DEF PastMissions
  <2>2. Proposals(m)' = Proposals(m)
    BY <1>3, SameProposals
  <2>3. \A q \in Proposals(m) : Carried(q)' = Carried(q) /\ Teams(q)' = Teams(q)
    BY <1>4, <2>1 DEF Proposals
  <2> QED BY <1>3, <1>4, <2>1, <2>2, <2>3, SameMission
<1>9. PastIsSettled'
  BY <1>1, <1>2, <1>8 DEF BooksFit, PastIsSettled, PastMissions
<1>10. ScoreFits'
  <2>1. {m \in PastMissions : Sabotaged(m)}' = {m \in PastMissions : Sabotaged(m)}
    BY <1>2, <1>8 DEF PastMissions
  <2>2. {m \in PastMissions : ~Sabotaged(m)}' = {m \in PastMissions : ~Sabotaged(m)}
    BY <1>2, <1>8 DEF PastMissions
  <2> QED BY <1>1, <1>2, <2>1, <2>2 DEF BooksFit, ScoreFits
<1>11. SabotageIsOfCiphers'
  <2>1. CiphersIn(transcript)' = CiphersIn(transcript)
    BY <1>3 DEF SameOf, CiphersIn
  <2>2. ConsumedRow(a, c).choice = "sabotage" => ConsumedRow(a, c).id.actor \in Ciphers
    <3>1. ConsumedRow(a, c).choice = c.name /\ ConsumedRow(a, c).id = IdOf(a)
      BY DEF ConsumedRow
    <3>2. IdOf(a).actor = a
      BY DEF IdOf, RequestId
    <3> QED BY <1>1, <1>2, <3>1, <3>2, LegalChoice
  <2> QED BY <1>1, <1>3, <2>1, <2>2 DEF BooksFit, SabotageIsOfCiphers
<1> QED BY <1>5, <1>6, <1>7, <1>9, <1>10, <1>11 DEF BooksFit

\* It fits the stage as well.
LEMMA SubmitFits ==
    ASSUME RunningFits, NEW a \in asked, NEW c \in Submittable(a), Submits(a, c)
    PROVE  CouncilShape' /\ StageFits'
<1>1. CouncilShape /\ BooksFit /\ StageFits
  BY DEF RunningFits
<1>2. a \in Actors /\ mission \in Nat /\ attempt \in Nat
  BY <1>1, NowIsCounted DEF CouncilShape
<1>3. /\ IsLegal(a, c) /\ transcript' = Told(a) \o <<ConsumedRow(a, c)>>
      /\ asked' = asked \ {a}
      /\ chosen' = [chosen EXCEPT ![a] = IF c.name = "skip" THEN NoChoice ELSE c]
      /\ UNCHANGED <<setup, stage, mission, attempt, turn, team, approvals, score>>
  BY DEF Submits, RequestEnds, Told, schedule
<1>4. DOMAIN count' = DOMAIN count /\ count'.proposals = count.proposals
  BY <1>1 DEF Submits, CouncilShape, ZeroCounts
<1> DEFINE got == IF c.name = "skip" THEN NoChoice ELSE c
           x == SubmittedAt(a)
<1>5. got \in [name : ChoiceNames, members : SUBSET Actors] /\ (c.name # "skip" => got = c /\ c # NoChoice)
      /\ (c.name = "skip" => got = NoChoice)
  <2>1. NoChoice \in [name : ChoiceNames, members : SUBSET Actors]
    BY DEF NoChoice, ChoiceNames
  <2> QED BY <1>1, <1>2, <1>3, <2>1, LegalChoice
<1>6. chosen' = [chosen EXCEPT ![a] = got]
  BY <1>3
<1> HIDE DEF got
<1>7. /\ chosen' \in [Actors -> [name : ChoiceNames, members : SUBSET Actors]]
      /\ chosen'[a] = got /\ \A b \in Actors : b # a => chosen'[b] = chosen[b]
  BY <1>1, <1>2, <1>5, <1>6 DEF CouncilShape
<1>8. chosen[a] = NoChoice
  BY <1>1, <1>2 DEF StageFits, AskedHaveNoChoice, Answered
<1>9. Answered' = Answered \cup (IF c.name = "skip" THEN {} ELSE {a})
  BY <1>2, <1>5, <1>7, <1>8 DEF Answered
<1>10. /\ IsRows(transcript')
       /\ RowsOf(transcript', "consumed") = RowsOf(transcript, "consumed") \cup {x}
       /\ \A i \in RowsOf(transcript, "consumed") : transcript'[i] = transcript[i]
       /\ x \notin RowsOf(transcript, "consumed")
       /\ transcript'[x] = ConsumedRow(a, c)
  BY <1>1, <1>3, SubmitRows
<1> HIDE DEF x
<1>11. CouncilShape'
  BY <1>1, <1>3, <1>4, <1>7, <1>10 DEF CouncilShape
<1>12. AskedHaveNoChoice' /\ NoVotesYet'
  BY <1>1, <1>3, <1>9 DEF StageFits, AskedHaveNoChoice, NoVotesYet
<1>13. This' = This /\ Proposer' = Proposer
  BY <1>3, <1>4 DEF This, Proposer
<1>14. \A r, st, n : ConsumedIn(r, st, n)' =
           ConsumedIn(r, st, n) \cup (IF r = RoundKey /\ st = stage /\ n = c.name THEN {x} ELSE {})
  BY <1>1, <1>3, SubmitTables DEF x
<1>15. RoundKey = IF stage = "mission_commitment" THEN <<mission, 0>> ELSE This
  BY DEF RoundKey, This
<1>16. /\ Teams(This)' = Teams(This) \cup
              (IF stage = "nomination" /\ c.name = "team" THEN {x} ELSE {})
       /\ Ayes(This)' = Ayes(This) \cup
              (IF stage = "vote" /\ c.name = "approve" THEN {x} ELSE {})
  BY <1>13, <1>14, <1>15 DEF Teams, Ayes
<1>17. \A T : stage # "nomination" /\ IsTeam(T) => IsTeam(T)'
  <2> TAKE T
  <2> HAVE stage # "nomination" /\ IsTeam(T)
  <2>1. PICK i \in Teams(This) : Teams(This) = {i} /\ transcript[i].members = T
    BY DEF IsTeam
  <2>2. transcript'[i] = transcript[i]
    BY <1>10, <2>1 DEF Teams, ConsumedIn
  <2> QED BY <1>3, <1>16, <2>1, <2>2 DEF IsTeam
<1>18. TeamFits'
  BY <1>1, <1>3, <1>17 DEF StageFits, TeamFits
<1>19. NominationFits'
  <2> SUFFICES ASSUME stage = "nomination" PROVE NominationFits'
    BY <1>3 DEF NominationFits
  <2>1. a = Proposer /\ asked' = {} /\ Teams(This) = {}
    BY <1>1, <1>3, <1>8 DEF StageFits, NominationFits
  <2>2. c.name = "team" /\ c.name # "skip" /\ Cardinality(c.members) = MissionSizes[mission]
    BY <1>1, <1>2, <1>3, LegalChoice
  <2>3. chosen'[Proposer] = c /\ c # NoChoice /\ c.members \subseteq Actors
    BY <1>5, <1>7, <2>1, <2>2
  <2>4. Teams(This)' = {x}
    BY <1>16, <2>1, <2>2
  <2>5. transcript'[x].members = c.members
    BY <1>10 DEF ConsumedRow
  <2>6. IsTeam(c.members)'
    BY <1>3, <2>2, <2>3, <2>4, <2>5 DEF IsTeam
  <2> QED BY <1>13, <2>1, <2>3, <2>6 DEF NominationFits
<1>20. VotesFit'
  <2> SUFFICES ASSUME stage = "vote" PROVE VotesFit'
    BY <1>3 DEF VotesFit
  <2>1. /\ turn \in 1..Players /\ a = Order[turn] /\ Answered \subseteq {Order[turn]}
        /\ approvals \subseteq {Order[i] : i \in 1..(turn - 1)}
        /\ Cardinality(Ayes(This)) = Cardinality(Approving)
    BY <1>1 DEF StageFits, VotesFit
  <2>2. a \notin Approving
    <3>1. \A i \in 1..(turn - 1) : Order[i] # Order[turn]
      <4> TAKE i \in 1..(turn - 1)
      <4>1. Players \in Nat
        BY CouncilCounts
      <4>2. i \in 1..Players /\ i # turn
        BY <2>1, <4>1
      <4> QED BY <2>1, <4>2, OnePlace
    <3> QED BY <1>8, <2>1, <3>1 DEF Approving, NoChoice
  <2>3. Approving' = Approving \cup (IF c.name = "approve" THEN {a} ELSE {})
    BY <1>2, <1>3, <1>5, <1>7, <1>8 DEF Approving, NoChoice
  <2>4. IsFiniteSet(Approving) /\ IsFiniteSet(Ayes(This)) /\ x \notin Ayes(This)
    <3>1. Approving \subseteq Actors
      BY <1>1 DEF Approving, CouncilShape
    <3>2. Ayes(This) \subseteq RowsOf(transcript, "consumed")
      BY DEF Ayes, ConsumedIn
    <3>3. RowsOf(transcript, "consumed") \subseteq 1..Len(transcript) /\ Len(transcript) \in Nat
      BY <1>1, RowsAreMapped DEF RowsOf, CouncilShape
    <3>4. IsFiniteSet(1..Len(transcript))
      BY <3>3, FS_Interval
    <3>5. IsFiniteSet(Approving)
      BY <3>1, CouncilCounts, FS_Subset
    <3>6. IsFiniteSet(Ayes(This))
      BY <3>2, <3>3, <3>4, FS_Subset
    <3> QED BY <1>10, <3>2, <3>5, <3>6
  <2>5. Cardinality(Ayes(This)') = Cardinality(Approving')
    <3>1. CASE c.name = "approve"
      <4>1. Ayes(This)' = Ayes(This) \cup {x} /\ Approving' = Approving \cup {a}
        BY <1>16, <2>3, <3>1
      <4>2. Cardinality(Ayes(This) \cup {x}) = Cardinality(Ayes(This)) + 1
        BY <2>4, FS_AddElement
      <4>3. Cardinality(Approving \cup {a}) = Cardinality(Approving) + 1
        BY <2>2, <2>4, FS_AddElement
      <4> QED BY <2>1, <4>1, <4>2, <4>3
    <3>2. CASE c.name # "approve"
      BY <1>16, <2>1, <2>3, <3>2
    <3> QED BY <3>1, <3>2
  <2> QED BY <1>1, <1>3, <1>9, <2>1, <2>5 DEF StageFits, VotesFit
<1>21. CommitmentsFit'
  <2> SUFFICES ASSUME stage = "mission_commitment" PROVE CommitmentsFit'
    BY <1>3 DEF CommitmentsFit
  <2>1. CommitmentsFit
    BY <1>1 DEF StageFits
  <2>2. c.name \in {"support", "sabotage"} /\ c.name # "skip"
    BY <1>1, <1>2, <1>3, LegalChoice
  <2>3. Answered' = Answered \cup {a} /\ chosen'[a] = c
    BY <1>5, <1>7, <1>9, <2>2
  <2>4. Carried(This)' = Carried(This)
    BY <1>16 DEF Carried, Ayes
  <2>5. Commitments(mission)' = Commitments(mission) \cup {x}
    <3>1. /\ ConsumedIn(<<mission, 0>>, stage, "support")' =
                 ConsumedIn(<<mission, 0>>, stage, "support") \cup (IF c.name = "support" THEN {x} ELSE {})
          /\ ConsumedIn(<<mission, 0>>, stage, "sabotage")' =
                 ConsumedIn(<<mission, 0>>, stage, "sabotage") \cup (IF c.name = "sabotage" THEN {x} ELSE {})
      BY <1>3, <1>14, <1>15
    <3> QED BY <1>3, <2>2, <3>1 DEF Commitments
  <2>6. Sabotaged(mission)' <=> Sabotaged(mission) \/ c.name = "sabotage"
    <3>1. ConsumedIn(<<mission, 0>>, stage, "sabotage")' =
              ConsumedIn(<<mission, 0>>, stage, "sabotage") \cup (IF c.name = "sabotage" THEN {x} ELSE {})
      BY <1>3, <1>14, <1>15
    <3> QED BY <1>3, <3>1 DEF Sabotaged
  <2>7. {transcript[i].id.actor : i \in Commitments(mission)}' =
        {transcript[i].id.actor : i \in Commitments(mission)} \cup {a}
    <3>1. \A i \in Commitments(mission) : transcript'[i] = transcript[i]
      BY <1>10 DEF Commitments, ConsumedIn
    <3>2. transcript'[x].id.actor = a
      BY <1>10 DEF ConsumedRow, IdOf, RequestId
    <3> QED BY <2>5, <3>1, <3>2
  <2>8. (\E b \in Actors : chosen'[b].name = "sabotage") <=>
        (\E b \in Actors : chosen[b].name = "sabotage") \/ c.name = "sabotage"
    BY <1>2, <1>7, <1>8, <2>3 DEF NoChoice
  <2>9. \A b \in Answered' : chosen'[b].name \in {"support", "sabotage"}
    <3>1. Answered \subseteq Actors
      BY DEF Answered
    <3> QED BY <1>7, <2>1, <2>2, <2>3, <3>1 DEF CommitmentsFit
  <2>10. Answered' \subseteq team' /\ asked' \subseteq team'
    BY <1>3, <2>1, <2>3 DEF CommitmentsFit
  <2>11. Carried(This)'
    BY <2>1, <2>4 DEF CommitmentsFit
  <2>12. {transcript[i].id.actor : i \in Commitments(mission)}' = Answered'
    BY <2>1, <2>3, <2>7 DEF CommitmentsFit
  <2>13. Sabotaged(mission)' <=> \E b \in Actors : chosen'[b].name = "sabotage"
    BY <2>1, <2>6, <2>8 DEF CommitmentsFit
  <2> QED BY <2>9, <2>10, <2>11, <2>12, <2>13 DEF CommitmentsFit
<1> QED BY <1>11, <1>12, <1>18, <1>19, <1>20, <1>21 DEF StageFits

\* Whatever an actor answers, the invariant is kept.
LEMMA TurnKeeps == ASSUME CouncilInv, NEW a \in Actors, Turn(a) PROVE CouncilInv'
<1>1. a \in asked
  BY DEF Turn
<1>2. CASE ResponseRejected(a)
  BY <1>2, CouncilStutter DEF ResponseRejected, councilPart, schedule
<1>3. CASE Unanswered(a)
  <2>1. UNCHANGED status
    BY <1>3 DEF Unanswered
  <2>2. CASE status = "running"
    BY <1>1, <1>3, <2>1, <2>2, UnansweredKeeps DEF CouncilInv
  <2>3. CASE status # "running"
    BY <1>1, <2>1, <2>3 DEF CouncilInv
  <2> QED BY <2>2, <2>3
<1>4. CASE Breaks(a)
  <2>1. status' # "running" /\ (status' = "over" => status = "over")
    BY <1>4 DEF Breaks
  <2> QED BY <1>1, <2>1 DEF CouncilInv
<1>5. ASSUME NEW c \in Submittable(a), Submits(a, c) PROVE CouncilInv'
  <2>1. UNCHANGED status
    BY <1>5 DEF Submits
  <2>2. CASE status = "running"
    <3>1. RunningFits
      BY <2>2 DEF CouncilInv
    <3>2. RunningFits'
      BY <1>1, <1>5, <3>1, SubmitBooks, SubmitFits DEF RunningFits
    <3> QED BY <2>1, <2>2, <3>2 DEF CouncilInv
  <2>3. CASE status # "running"
    BY <1>1, <2>1, <2>3 DEF CouncilInv
  <2> QED BY <2>2, <2>3
<1>6. ResponseRejected(a) \/ Unanswered(a) \/ Breaks(a) \/ \E c \in Submittable(a) : Submits(a, c)
  BY DEF Turn, TurnFails, SubmitsIllegal
<1> QED BY <1>2, <1>3, <1>4, <1>5, <1>6

\* So it is by every step.
LEMMA CouncilStep == CouncilInv /\ [CouncilNext]_councilVars => CouncilInv'
<1> SUFFICES ASSUME CouncilInv, [CouncilNext]_councilVars PROVE CouncilInv'
  OBVIOUS
<1>1. CASE Continue
  <2>1. status = "running" /\ RunningFits
    BY <1>1 DEF Continue, StartRound, CouncilDelivers, SpeechEnds, Nominated, VoteEnds, MissionEnds,
                Continues, CouncilInv
  <2>2. CASE StartRound
    <3>1. status' = "running"
      BY <2>1, <2>2 DEF StartRound
    <3> QED BY <2>1, <2>2, <3>1, StartRoundKeeps DEF CouncilInv
  <2>3. CASE CouncilDelivers
    <3>1. status' = "running"
      BY <2>1, <2>3 DEF CouncilDelivers
    <3> QED BY <2>1, <2>3, <3>1, CouncilDeliversKeeps DEF CouncilInv
  <2>4. CASE SpeechEnds
    <3>1. status' = "running"
      BY <2>1, <2>4 DEF SpeechEnds
    <3> QED BY <2>1, <2>4, <3>1, SpeechEndsKeeps DEF CouncilInv
  <2> QED BY <1>1, <2>1, <2>2, <2>3, <2>4, NominatedKeeps, VoteEndsKeeps, MissionEndsKeeps DEF Continue
<1>2. CASE \E a \in Actors : Turn(a)
  BY <1>2, TurnKeeps
<1>3. CASE UNCHANGED councilVars
  BY <1>3, CouncilStutter DEF councilVars, schedule, councilPart
<1> QED BY <1>1, <1>2, <1>3 DEF CouncilNext

\* A run begins with the roles alone.
LEMMA CouncilInitially == CouncilInit => CouncilInv
<1> SUFFICES ASSUME CouncilInit PROVE CouncilInv
  OBVIOUS
<1>1. /\ setup \in Setups /\ status = "running" /\ stage = "round" /\ mission = 1 /\ attempt = 1
      /\ turn = 0 /\ asked = {} /\ chosen = [a \in Actors |-> NoChoice]
      /\ team = {} /\ approvals = {} /\ count = ZeroCounts
      /\ score = [council |-> 0, cipher |-> 0] /\ transcript = RoleRows
  BY DEF CouncilInit
<1>2. DOMAIN Order = 1..Players /\ Players \in Nat /\ \A i \in 1..Players : Order[i] \in Actors
  BY CouncilCounts
<1>3. /\ IsRows(transcript) /\ DOMAIN transcript = 1..Players
      /\ \A i \in 1..Players :
            /\ transcript[i].kind = "role" /\ transcript[i].actor = Order[i]
            /\ transcript[i].role = IF Order[i] \in Ciphers THEN "cipher" ELSE "council"
  <2>1. transcript = [i \in 1..Players |-> transcript[i]] /\ DOMAIN transcript = 1..Players
    BY <1>1, <1>2 DEF RoleRows
  <2>2. \A i \in 1..Players :
            /\ transcript[i].kind = "role" /\ transcript[i].actor = Order[i]
            /\ transcript[i].role = IF Order[i] \in Ciphers THEN "cipher" ELSE "council"
    BY <1>1, <1>2 DEF RoleRows
  <2> QED BY <1>2, <2>1, <2>2, MappedAreRows
<1>4. RowsOf(transcript, "consumed") = {} /\ RowsOf(transcript, "round") = {}
      /\ RowsOf(transcript, "role") = 1..Players
  BY <1>3 DEF RowsOf
<1>5. \A r, st, n : ConsumedIn(r, st, n) = {}
  BY <1>4 DEF ConsumedIn
<1>6. CouncilShape
  <2>1. mission \in 1..Len(MissionSizes) /\ attempt \in 1..MaxProposals
    BY <1>1, CouncilCounts
  <2>2. NoChoice \in [name : ChoiceNames, members : SUBSET Actors]
    BY DEF NoChoice, ChoiceNames
  <2> QED BY <1>1, <1>3, <2>1, <2>2 DEF CouncilShape, ZeroCounts
<1>7. RoundsFit
  BY <1>1, <1>4 DEF RoundsFit, RoundsIn, Proposals, Opened
<1>8. NothingAhead /\ NoneCarriedBefore /\ PastIsSettled
  BY <1>1, <1>5 DEF NothingAhead, Teams, Ayes, Commitments, NoneCarriedBefore, PastIsSettled,
                    PastMissions
<1>9. ScoreFits
  <2>1. PastMissions = {}
    BY <1>1 DEF PastMissions
  <2> QED BY <1>1, <2>1, FS_EmptySet, CouncilCounts DEF ScoreFits
<1>10. SabotageIsOfCiphers
  <2>1. Ciphers \subseteq {Order[i] : i \in 1..Players}
    BY CouncilAssumption, CouncilCounts
  <2>2. CiphersIn(transcript) = {Order[i] : i \in {j \in 1..Players : Order[j] \in Ciphers}}
    <3> DEFINE dealt == {j \in 1..Players : Order[j] \in Ciphers}
    <3>1. {j \in RowsOf(transcript, "role") : transcript[j].role = "cipher"} = dealt
      BY <1>3, <1>4
    <3>2. \A i \in dealt : transcript[i].actor = Order[i]
      BY <1>3
    <3> HIDE DEF dealt
    <3>3. CiphersIn(transcript) = {transcript[i].actor : i \in dealt}
      BY <3>1 DEF CiphersIn
    <3>4. CiphersIn(transcript) = {Order[i] : i \in dealt}
      BY <3>2, <3>3
    <3> QED BY <3>4 DEF dealt
  <2>3. CiphersIn(transcript) = Ciphers
    BY <2>1, <2>2
  <2> QED BY <1>4, <2>3 DEF SabotageIsOfCiphers
<1>11. StageFits
  BY <1>1 DEF StageFits, AskedHaveNoChoice, NoVotesYet, NominationFits, TeamFits, VotesFit, CommitmentsFit
<1> QED BY <1>1, <1>6, <1>7, <1>8, <1>9, <1>10, <1>11 DEF CouncilInv, RunningFits, BooksFit

\* The inductive invariant of a run of the council (plugin.py:219-371): its
\* schedule, the answers it holds and the transcript tell the same story.
THEOREM CouncilCorrect == CouncilSpec => []CouncilInv
BY CouncilInitially, CouncilStep, PTL DEF CouncilSpec

\* The outcome is the one the consumed decisions lead to (plugin.py:219-371),
\* with any number of actors, missions and proposals, in whichever order the
\* actors answer.
THEOREM VerdictsAreEarned == CouncilSpec => []VerdictIsEarned
<1>1. CouncilInv => VerdictIsEarned
  BY DEF CouncilInv, VerdictIsEarned
<1> QED BY <1>1, CouncilCorrect, PTL

-----------------------------------------------------------------------------
(* The records of a council: what its transcript and memories hold.         *)

\* The order of the stages of a round.
StageRank == [round |-> 0, cipher_council |-> 1, deliberation |-> 2, nomination |-> 3, vote |-> 4,
              mission_commitment |-> 5]
Ids == [round : Nat \X Nat, stage : CouncilStages, actor : Actors]

\* A request that may still be made.
ToCome == {Order[i] : i \in (turn + 1)..Players}
IsAhead(id) ==
    \/ id.round[1] > mission
    \/ /\ id.round[1] = mission /\ stage # "mission_commitment"
       /\ \/ id.stage = "mission_commitment"
          \/ id.round[2] > attempt
          \/ id.round[2] = attempt /\ StageRank[id.stage] > StageRank[stage]
          \/ /\ id.round[2] = attempt /\ id.stage = stage
             /\ stage \in {"deliberation", "vote"} /\ id.actor \in ToCome

\* The other parts of the state have their shape, too.
RecordShape ==
    /\ CouncilShape
    /\ status \in {"running", "over", "broken"}
    /\ status = "over" => asked = {} /\ stage # "cipher_council"
    /\ turn <= Players
    /\ IsRows(history) /\ Len(history) <= HistoryLimit
    /\ tries \in [Actors -> 0..MaxAttempts]
    /\ \A a \in Actors : IsRows(memory[a]) /\ Len(memory[a]) <= MemoryLimit
    /\ DOMAIN memory = Actors
    /\ stage = "round" => asked = {}
    /\ stage \in {"deliberation", "vote"} =>
          turn \in 1..Players /\ asked \cup held \subseteq {Order[turn]}
    /\ held \subseteq Actors \ asked
    /\ \A b \in held : \E a \in asked : AcceptedBefore(a, b)

\* A request that has ended has its terminal, or waits for an earlier one.
Ended(id) == TerminalsOf(transcript, id) # {} \/ \E b \in held : id = IdOf(b)

\* Every request ends once, and none that is still to be made has.
TerminalsFit ==
    /\ \A i \in RowsOf(transcript, "terminal") :
          transcript[i].id \in Ids /\ ~IsAhead(transcript[i].id)
    /\ \A i, j \in RowsOf(transcript, "terminal") : transcript[i].id = transcript[j].id => i = j
    /\ \A a \in asked \cup held : TerminalsOf(transcript, IdOf(a)) = {}
RequestsFit ==
    /\ \A a \in asked \cup held :
          \E i \in RowsOf(transcript, "request") : transcript[i].id = IdOf(a)
    /\ \A i \in RowsOf(transcript, "request") :
          Ended(transcript[i].id) \/ \E a \in asked : transcript[i].id = IdOf(a)
    /\ \A i \in RowsOf(transcript, "terminal") :
          \E j \in RowsOf(transcript, "request") : transcript[j].id = transcript[i].id

\* What is consumed, and what an actor has stored, is of a request that ended,
\* whose terminal row may still wait.
ConsumedFit ==
    /\ \A i \in RowsOf(transcript, "consumed") : Ended(transcript[i].id)
    /\ \A i, j \in RowsOf(transcript, "consumed") : transcript[i].id = transcript[j].id => i = j
    /\ \A i \in RowsOf(transcript, "consumed") :
          transcript[i].id.stage = "cipher_council" => transcript[i].choice \in {"message", "skip"}
MemoryFits ==
    \A a \in Actors :
        /\ \A i \in DOMAIN memory[a] : Ended(memory[a][i].id)
        /\ HoldsOwnTurns(a)

\* Every round of the channel asks every cipher once.
RequestsIn(r) == {i \in StrategyRequests(transcript) : transcript[i].id.round = r}
ChannelFits ==
    /\ stage = "cipher_council" => Strategic
    /\ \A i, j \in RowsOf(transcript, "round") : transcript[i].round = transcript[j].round => i = j
    /\ {transcript[i].id.round : i \in StrategyRequests(transcript)} =
           IF Strategic THEN RoundsIn(transcript) ELSE {}
    /\ \A r \in RoundsIn(transcript) : Strategic =>
          /\ {transcript[i].id.actor : i \in RequestsIn(r)} = Ciphers
          /\ Cardinality(RequestsIn(r)) = Cardinality(Ciphers)

\* A message was consumed, and delivered when its round had ended; one that was
\* consumed is delivered but in the round of now.
InChannel(id) == stage = "cipher_council" /\ id.round = This
StrategyId(entry) == RequestId("cipher_council", entry.round, entry.actor)
Spoken(id) == \E i \in ConsumedOf(transcript, id) : transcript[i].choice = "message"
MessagesFit ==
    /\ \A m \in RowsOf(transcript, "message") :
          /\ transcript[m].to = Ciphers /\ Spoken(StrategyId(transcript[m].entry))
          /\ ~InChannel(StrategyId(transcript[m].entry))
          /\ \A i \in RowsOf(transcript, "terminal") :
                transcript[i].id.stage = "cipher_council"
                /\ transcript[i].id.round = transcript[m].entry.round => i < m
    /\ \A m, n \in RowsOf(transcript, "message") :
          StrategyId(transcript[m].entry) = StrategyId(transcript[n].entry) => m = n
    /\ \A i \in RowsOf(transcript, "consumed") :
          transcript[i].id.stage = "cipher_council" /\ transcript[i].choice = "message"
          => InChannel(transcript[i].id) \/ MessagesOf(transcript, transcript[i].id) # {}
    /\ stage = "cipher_council" =>
          \A a \in Ciphers : chosen[a] # NoChoice <=> Spoken(IdOf(a))

\* Observations show what had been delivered.
Delivered == DeliveredBefore(transcript, Len(transcript) + 1)
Observes(i) ==
    LET id == transcript[i].id
        seen == Messages(transcript[i].seen)
    IN IF id.actor \notin Ciphers
       THEN transcript[i].seen = NoMessages
       ELSE /\ transcript[i].seen # NoMessages
            /\ id.stage = "cipher_council" => \A j \in DOMAIN seen : seen[j].round # id.round
            /\ IsSuffix(seen, DeliveredBefore(transcript, i))
SeenFits ==
    /\ IsSuffix(history, Delivered)
    /\ setup.strategic => \A i \in RowsOf(transcript, "request") : Observes(i)

\* The counters count rows.
Open == IF stage = "cipher_council" THEN Cardinality(Ciphers) ELSE 0
CountsFit ==
    /\ count.rounds \in Nat /\ count.requests \in Nat /\ count.messages \in Nat /\ count.absent \in Nat
    /\ count.rounds = IF Strategic THEN Cardinality(RoundsIn(transcript)) ELSE 0
    /\ count.requests = Cardinality(StrategyRequests(transcript))
    /\ count.messages = Cardinality(RowsOf(transcript, "message"))
    /\ count.requests = count.rounds * Cardinality(Ciphers)
    /\ count.messages + count.absent + Open = count.requests
RolesFit ==
    /\ RowsOf(transcript, "role") = 1..Players
    /\ \A i \in 1..Players : transcript[i] = RoleRows[i]

RecordsFit ==
    /\ RecordShape
    /\ TerminalsFit
    /\ RequestsFit
    /\ ConsumedFit
    /\ MemoryFits
    /\ ChannelFits
    /\ MessagesFit
    /\ SeenFits
    /\ CountsFit
    /\ RolesFit

-----------------------------------------------------------------------------
(* Places in their order.                                                   *)

\* How many of the places I come up to i.
RankIn(I, i) == Cardinality({j \in I : j <= i})

\* A place has a rank of its own.
LEMMA RanksDiffer ==
    ASSUME NEW I \in SUBSET Nat, IsFiniteSet(I)
    PROVE  /\ Cardinality(I) \in Nat
           /\ \A i \in I : RankIn(I, i) \in 1..Cardinality(I)
           /\ \A i \in I, k \in I : RankIn(I, i) = RankIn(I, k) => i = k
<1>1. Cardinality(I) \in Nat
  BY FS_CardinalityType
<1>2. \A i \in I : RankIn(I, i) \in 1..Cardinality(I)
  <2> TAKE i \in I
  <2> DEFINE upto == {j \in I : j <= i}
  <2>1. upto \in SUBSET I /\ i \in upto
    OBVIOUS
  <2> HIDE DEF upto
  <2>2. IsFiniteSet(upto) /\ Cardinality(upto) <= Cardinality(I)
    BY <2>1, FS_Subset
  <2>3. Cardinality(upto) \in Nat /\ Cardinality(upto) # 0
    BY <2>1, <2>2, FS_CardinalityType, FS_EmptySet
  <2> QED BY <1>1, <2>2, <2>3 DEF RankIn, upto
<1>3. ASSUME NEW i \in I, NEW k \in I, i < k PROVE RankIn(I, i) # RankIn(I, k)
  <2> DEFINE lower == {j \in I : j <= i}
             upper == {j \in I : j <= k}
  <2>0. i \in Nat /\ k \in Nat /\ I \subseteq Nat
    OBVIOUS
  <2>1. lower \in SUBSET upper /\ k \in upper /\ k \notin lower /\ upper \in SUBSET I
    <3>1. \A j \in I : j \in Nat /\ (j <= i => j <= k)
      BY <1>3, <2>0
    <3>2. k <= k /\ ~(k <= i)
      BY <1>3, <2>0
    <3> QED BY <3>1, <3>2
  <2> HIDE DEF lower, upper
  <2>2. IsFiniteSet(upper)
    BY <2>1, FS_Subset
  <2>3. Cardinality(lower) # Cardinality(upper)
    BY <2>1, <2>2, FS_Subset
  <2> QED BY <2>3 DEF RankIn, lower, upper
<1>4. \A i \in I, k \in I : RankIn(I, i) = RankIn(I, k) => i = k
  <2> TAKE i \in I, k \in I
  <2>1. i \in Nat /\ k \in Nat
    OBVIOUS
  <2>2. i = k \/ i < k \/ k < i
    BY <2>1
  <2> QED BY <1>3, <2>2
<1> QED BY <1>1, <1>2, <1>4

\* Every rank is that of one place.
LEMMA NthHasRank ==
    ASSUME NEW I \in SUBSET Nat, IsFiniteSet(I)
    PROVE  /\ \A n \in 1..Cardinality(I) : Nth(I, n) \in I /\ RankIn(I, Nth(I, n)) = n
           /\ \A i \in I : Nth(I, RankIn(I, i)) = i
<1> DEFINE top == Cardinality(I)
           f == [i \in I |-> RankIn(I, i)]
<1>1. /\ top \in Nat /\ \A i \in I : RankIn(I, i) \in 1..top
      /\ \A i \in I, k \in I : RankIn(I, i) = RankIn(I, k) => i = k
  BY RanksDiffer
<1> HIDE DEF top
<1>2. f \in Injection(I, 1..top)
  BY <1>1 DEF Injection, IsInjective
<1>3. IsFiniteSet(1..top) /\ Cardinality(1..top) = top
  BY <1>1, FS_Interval
<1>4. f \in Surjection(I, 1..top)
  BY <1>2, <1>3, FS_Injection DEF top
<1>5. \A n \in 1..top : \E i \in I : RankIn(I, i) = n
  BY <1>4 DEF Surjection
<1>6. \A n : Nth(I, n) = CHOOSE i \in I : RankIn(I, i) = n
  BY DEF Nth, RankIn
<1>7. \A n \in 1..top : Nth(I, n) \in I /\ RankIn(I, Nth(I, n)) = n
  BY <1>5, <1>6
<1>8. \A i \in I : Nth(I, RankIn(I, i)) = i
  BY <1>1, <1>7
<1> QED BY <1>7, <1>8 DEF top

\* The places J come after the places I.
LEMMA NthOfUnion ==
    ASSUME NEW I \in SUBSET Nat, NEW J \in SUBSET Nat, IsFiniteSet(I), IsFiniteSet(J),
           \A i \in I, j \in J : i < j
    PROVE  /\ IsFiniteSet(I \cup J)
           /\ Cardinality(I \cup J) = Cardinality(I) + Cardinality(J)
           /\ \A n \in 1..Cardinality(I) : Nth(I \cup J, n) = Nth(I, n)
           /\ \A n \in 1..Cardinality(J) : Nth(I \cup J, Cardinality(I) + n) = Nth(J, n)
<1> DEFINE U == I \cup J
<1>0. I \subseteq Nat /\ J \subseteq Nat
  OBVIOUS
<1>1. Cardinality(I) \in Nat /\ Cardinality(J) \in Nat
  BY FS_CardinalityType
<1>2. IsFiniteSet(U) /\ Cardinality(U) = Cardinality(I) + Cardinality(J)
  <2>1. I \cap J = {}
    BY <1>0
  <2>2. Cardinality(I \cap J) = 0
    BY <2>1, FS_EmptySet
  <2>3. IsFiniteSet(I \cup J)
        /\ Cardinality(I \cup J) = Cardinality(I) + Cardinality(J) - Cardinality(I \cap J)
    BY FS_Union
  <2> QED BY <1>1, <2>2, <2>3
<1>3. U \in SUBSET Nat
  OBVIOUS
<1>4. \A n \in 1..Cardinality(I) : Nth(U, n) = Nth(I, n)
  <2> TAKE n \in 1..Cardinality(I)
  <2> DEFINE i == Nth(I, n)
  <2>1. i \in I /\ RankIn(I, i) = n
    BY NthHasRank
  <2> HIDE DEF i
  <2>2. {j \in U : j <= i} = {j \in I : j <= i}
    <3>1. \A j \in J : ~(j <= i)
      <4> TAKE j \in J
      <4>1. i \in Nat /\ j \in Nat /\ i < j
        BY <1>0, <2>1
      <4> QED BY <4>1
    <3> QED BY <3>1
  <2>3. RankIn(U, i) = n /\ i \in U
    BY <2>1, <2>2 DEF RankIn
  <2> HIDE DEF U
  <2>4. Nth(U, RankIn(U, i)) = i
    BY <1>2, <1>3, <2>3, NthHasRank
  <2> QED BY <2>3, <2>4 DEF i
<1>5. \A n \in 1..Cardinality(J) : Nth(U, Cardinality(I) + n) = Nth(J, n)
  <2> TAKE n \in 1..Cardinality(J)
  <2> DEFINE j == Nth(J, n)
             upto == {k \in J : k <= j}
  <2>1. j \in J /\ RankIn(J, j) = n
    BY NthHasRank
  <2> HIDE DEF j
  <2>2. {k \in U : k <= j} = I \cup upto
    <3>1. \A i \in I : i <= j
      <4> TAKE i \in I
      <4>1. i \in Nat /\ j \in Nat /\ i < j
        BY <1>0, <2>1
      <4> QED BY <4>1
    <3> QED BY <3>1
  <2>3. upto \in SUBSET J /\ I \cap upto = {}
    <3>1. \A i \in I : i \notin J
      <4> TAKE i \in I
      <4>1. i \in J => i \in Nat /\ i < i
        BY <1>0
      <4> QED BY <4>1
    <3> QED BY <3>1
  <2>4. Cardinality(upto) = n
    BY <2>1 DEF RankIn
  <2> HIDE DEF upto
  <2>5. IsFiniteSet(upto)
    BY <2>3, FS_Subset
  <2>6. Cardinality(I \cup upto) = Cardinality(I) + n
    <3>1. Cardinality(I \cap upto) = 0
      BY <2>3, FS_EmptySet
    <3>2. Cardinality(I \cup upto) = Cardinality(I) + Cardinality(upto) - Cardinality(I \cap upto)
      BY <2>5, FS_Union
    <3> QED BY <1>1, <2>4, <3>1, <3>2
  <2>7. RankIn(U, j) = Cardinality(I) + n /\ j \in U
    BY <2>1, <2>2, <2>6 DEF RankIn
  <2> HIDE DEF U
  <2>8. Nth(U, RankIn(U, j)) = j
    BY <1>2, <1>3, <2>7, NthHasRank
  <2> QED BY <2>7, <2>8 DEF j
<1> QED BY <1>2, <1>4, <1>5

\* The places of an interval.
LEMMA NthOfInterval ==
    ASSUME NEW low \in Nat, NEW n \in Nat, NEW I, I = (low + 1)..(low + n)
    PROVE  /\ I \in SUBSET Nat /\ IsFiniteSet(I) /\ Cardinality(I) = n
           /\ \A k \in 1..n : Nth(I, k) = low + k
<1>1. I \in SUBSET Nat /\ IsFiniteSet(I) /\ Cardinality(I) = n
  <2>1. low + 1 \in Int /\ low + n \in Int
    OBVIOUS
  <2>2. IsFiniteSet(I) /\ Cardinality(I) = IF low + 1 > low + n THEN 0 ELSE (low + n) - (low + 1) + 1
    BY <2>1, FS_Interval
  <2> QED BY <2>2
<1>2. ASSUME NEW k \in 1..n PROVE Nth(I, k) = low + k
  <2> DEFINE i == low + k
  <2>1. {j \in I : j <= i} = (low + 1)..(low + k) /\ i \in I
    OBVIOUS
  <2>2. Cardinality((low + 1)..(low + k)) = k
    <3>1. low + 1 \in Int /\ low + k \in Int
      OBVIOUS
    <3>2. Cardinality((low + 1)..(low + k)) =
              IF low + 1 > low + k THEN 0 ELSE (low + k) - (low + 1) + 1
      BY <3>1, FS_Interval
    <3> QED BY <3>2
  <2>3. RankIn(I, i) = k
    BY <2>1, <2>2 DEF RankIn
  <2> HIDE DEF i
  <2>4. Nth(I, RankIn(I, i)) = i
    BY <1>1, <2>1, NthHasRank
  <2> QED BY <2>3, <2>4 DEF i
<1> QED BY <1>1, <1>2

\* What was picked of s, and then what u has behind it.
PicksOn(s, I, low, n, u, U) ==
    /\ I \in SUBSET Nat /\ IsFiniteSet(I) /\ low \in Nat /\ n \in Nat
    /\ \A i \in I : i <= low /\ u[i] = s[i]
    /\ U = I \cup ((low + 1)..(low + n))
LEMMA PickedOn ==
    ASSUME NEW s, NEW I, NEW low, NEW n, NEW u, NEW U, PicksOn(s, I, low, n, u, U)
    PROVE  /\ Cardinality(I) \in Nat /\ Cardinality(U) = Cardinality(I) + n /\ IsFiniteSet(U)
           /\ DOMAIN Picked(s, I) = 1..Cardinality(I)
           /\ DOMAIN Picked(u, U) = 1..(Cardinality(I) + n)
           /\ \A k \in 1..Cardinality(I) : Picked(u, U)[k] = Picked(s, I)[k]
           /\ \A k \in 1..n : Picked(u, U)[Cardinality(I) + k] = u[low + k]
<1> DEFINE J == (low + 1)..(low + n)
<1>0. /\ I \in SUBSET Nat /\ IsFiniteSet(I) /\ low \in Nat /\ n \in Nat
      /\ (\A i \in I : i <= low /\ u[i] = s[i]) /\ U = I \cup J
  BY DEF PicksOn
<1>1. J \in SUBSET Nat /\ IsFiniteSet(J) /\ Cardinality(J) = n /\ \A k \in 1..n : Nth(J, k) = low + k
  BY <1>0, NthOfInterval
<1>2. \A i \in I, j \in J : i < j
  BY <1>0
<1> HIDE DEF J
<1>4. /\ IsFiniteSet(U) /\ Cardinality(U) = Cardinality(I) + n
      /\ \A k \in 1..Cardinality(I) : Nth(U, k) = Nth(I, k)
      /\ \A k \in 1..n : Nth(U, Cardinality(I) + k) = low + k
  BY <1>0, <1>1, <1>2, NthOfUnion
<1>5. Cardinality(I) \in Nat /\ \A k \in 1..Cardinality(I) : Nth(I, k) \in I
  BY <1>0, FS_CardinalityType, NthHasRank
<1>6. \A k \in 1..Cardinality(I) : Picked(s, I)[k] = s[Nth(I, k)]
  BY DEF Picked
<1>7. \A k \in 1..(Cardinality(I) + n) : Picked(u, U)[k] = u[Nth(U, k)]
  BY <1>4 DEF Picked
<1>8. \A k \in 1..Cardinality(I) : Picked(u, U)[k] = Picked(s, I)[k]
  <2> TAKE k \in 1..Cardinality(I)
  <2>1. k \in 1..(Cardinality(I) + n)
    BY <1>0, <1>5
  <2>2. Picked(u, U)[k] = u[Nth(I, k)] /\ Nth(I, k) \in I
    BY <1>4, <1>5, <1>7, <2>1
  <2> QED BY <1>0, <1>6, <2>2
<1>9. \A k \in 1..n : Picked(u, U)[Cardinality(I) + k] = u[low + k]
  <2> TAKE k \in 1..n
  <2>1. Cardinality(I) + k \in 1..(Cardinality(I) + n)
    BY <1>0, <1>5
  <2> QED BY <1>4, <1>7, <2>1
<1>10. DOMAIN Picked(s, I) = 1..Cardinality(I) /\ DOMAIN Picked(u, U) = 1..(Cardinality(I) + n)
  BY <1>4 DEF Picked
<1> QED BY <1>4, <1>5, <1>8, <1>9, <1>10

\* The actors of A in their order: each of them once.
LEMMA InOrderIsAll ==
    ASSUME NEW A, A \subseteq Actors
    PROVE  /\ IsFiniteSet(A) /\ Cardinality(A) \in Nat
           /\ IsRows(InOrder(A)) /\ Len(InOrder(A)) = Cardinality(A)
           /\ DOMAIN InOrder(A) = 1..Cardinality(A)
           /\ \A i \in 1..Cardinality(A) : InOrder(A)[i] \in A
           /\ \A i \in 1..Cardinality(A), j \in 1..Cardinality(A) :
                  InOrder(A)[i] = InOrder(A)[j] => i = j
           /\ \A a \in A : \E i \in 1..Cardinality(A) : InOrder(A)[i] = a
<1> DEFINE I == {i \in DOMAIN Order : Order[i] \in A}
           n == Cardinality(I)
           s == InOrder(A)
<1>1. DOMAIN Order = 1..Players /\ Players \in Nat /\ Actors = {Order[i] : i \in 1..Players}
  BY CouncilCounts
<1>2. \A i \in 1..Players, j \in 1..Players : Order[i] = Order[j] => i = j
  BY OnePlace
<1>3. I \in SUBSET Nat /\ I \in SUBSET (1..Players) /\ (\A i \in I : Order[i] \in A)
      /\ \A a \in A : \E i \in I : Order[i] = a
  BY <1>1
<1>4. s = [k \in 1..n |-> Order[Nth(I, k)]]
  BY DEF InOrder, Picked
<1> HIDE DEF I, s
<1>5. IsFiniteSet(I) /\ n \in Nat
  <2>1. IsFiniteSet(1..Players)
    BY <1>1, FS_Interval
  <2> QED BY <1>3, <2>1, FS_Subset, FS_CardinalityType
<1>6. IsFiniteSet(A) /\ Cardinality(A) = n
  <2> DEFINE f == [i \in I |-> Order[i]]
  <2>0. f \in [I -> A] /\ \A i \in I : f[i] = Order[i]
    BY <1>3
  <2>1. f \in Surjection(I, A)
    BY <1>3, <2>0 DEF Surjection
  <2>2. f \in Injection(I, A)
    BY <1>2, <1>3 DEF Injection, IsInjective
  <2> QED BY <1>5, <2>1, <2>2, FS_Surjection
<1>7. /\ \A k \in 1..n : Nth(I, k) \in I /\ RankIn(I, Nth(I, k)) = k
      /\ \A i \in I : Nth(I, RankIn(I, i)) = i /\ RankIn(I, i) \in 1..n
  BY <1>3, <1>5, NthHasRank, RanksDiffer
<1> HIDE DEF n
<1>8. IsRows(s) /\ Len(s) = n /\ DOMAIN s = 1..n
  BY <1>4, <1>5, MappedAreRows
<1>9. \A k \in 1..n : s[k] \in A
  BY <1>3, <1>4, <1>7
<1>10. \A j \in 1..n, k \in 1..n : s[j] = s[k] => j = k
  <2> TAKE j \in 1..n, k \in 1..n
  <2> HAVE s[j] = s[k]
  <2>1. Nth(I, j) \in 1..Players /\ Nth(I, k) \in 1..Players /\ Order[Nth(I, j)] = Order[Nth(I, k)]
    BY <1>3, <1>4, <1>7
  <2>2. Nth(I, j) = Nth(I, k)
    BY <1>2, <2>1
  <2>3. RankIn(I, Nth(I, j)) = j /\ RankIn(I, Nth(I, k)) = k
    BY <1>7
  <2> QED BY <2>2, <2>3
<1>11. \A a \in A : \E k \in 1..n : s[k] = a
  <2> TAKE a \in A
  <2>1. \E i \in I : Order[i] = a
    BY <1>3
  <2>9. PICK i \in I : Order[i] = a
    BY <2>1
  <2>2. RankIn(I, i) \in 1..n /\ s[RankIn(I, i)] = a
    BY <1>4, <1>7, <2>9
  <2> QED BY <2>2
<1>12. /\ IsFiniteSet(A) /\ Cardinality(A) \in Nat
       /\ IsRows(s) /\ Len(s) = Cardinality(A) /\ DOMAIN s = 1..Cardinality(A)
       /\ \A i \in 1..Cardinality(A) : s[i] \in A
       /\ \A i \in 1..Cardinality(A), j \in 1..Cardinality(A) : s[i] = s[j] => i = j
       /\ \A a \in A : \E i \in 1..Cardinality(A) : s[i] = a
  BY <1>5, <1>6, <1>8, <1>9, <1>10, <1>11
<1> QED BY <1>12 DEF s

-----------------------------------------------------------------------------
(* The rows a step adds.                                                    *)

\* The rows of a kind are at places of the transcript.
LEMMA RowPlaces ==
    ASSUME NEW s, IsRows(s), NEW kind
    PROVE  /\ Len(s) \in Nat /\ DOMAIN s = 1..Len(s)
           /\ RowsOf(s, kind) \subseteq 1..Len(s) /\ RowsOf(s, kind) \in SUBSET Nat
           /\ IsFiniteSet(RowsOf(s, kind)) /\ Cardinality(RowsOf(s, kind)) \in Nat
<1>1. Len(s) \in Nat /\ DOMAIN s = 1..Len(s)
  BY RowsAreMapped
<1>2. RowsOf(s, kind) \in SUBSET (1..Len(s))
  BY <1>1 DEF RowsOf
<1>3. IsFiniteSet(1..Len(s))
  BY <1>1, FS_Interval
<1>4. IsFiniteSet(RowsOf(s, kind)) /\ Cardinality(RowsOf(s, kind)) \in Nat
  BY <1>2, <1>3, FS_Subset, FS_CardinalityType
<1> QED BY <1>1, <1>2, <1>4

\* The requests that are made of A, behind the place low.
RequestRow(st, r, a, h) == [kind |-> "request", id |-> RequestId(st, r, a), seen |-> Seen(a, h)]
AskedAt(low, A) == (low + 1)..(low + Cardinality(A))
AskedRows(st, r, A, h, low) ==
    /\ RowsOf(transcript', "request") = RowsOf(transcript, "request") \cup AskedAt(low, A)
    /\ \A i \in RowsOf(transcript, "request") : transcript'[i] = transcript[i]
    /\ \A i \in AskedAt(low, A) : \E a \in A : transcript'[i] = RequestRow(st, r, a, h)
    /\ \A a \in A : \E i \in AskedAt(low, A) : transcript'[i] = RequestRow(st, r, a, h)

\* What asking adds to the transcript.
Before(before) == Len(transcript) + Len(before)
LEMMA AskGrows ==
    ASSUME IsRows(transcript), NEW st, NEW r, NEW A, A \subseteq Actors, NEW h, NEW before,
           IsRows(before), RowsOf(before, "request") = {}, Ask(st, r, A, h, before)
    PROVE  /\ Len(transcript) \in Nat /\ Len(before) \in Nat /\ Cardinality(A) \in Nat
           /\ IsRows(transcript') /\ Len(transcript') = Before(before) + Cardinality(A)
           /\ \A kind : kind # "request" => RowsAdded(transcript, before, transcript', kind)
           /\ AskedRows(st, r, A, h, Before(before))
<1> DEFINE u == transcript \o before
           q == Requests(st, r, A, h)
           n == Cardinality(A)
           low == Before(before)
<1>1. Len(transcript) \in Nat /\ Len(before) \in Nat
  BY RowsAreMapped
<1>2. Extends(transcript, before, u)
  BY RowsConcat
<1>3. /\ n \in Nat /\ DOMAIN InOrder(A) = 1..n
      /\ \A i \in 1..n : InOrder(A)[i] \in A
      /\ \A a \in A : \E i \in 1..n : InOrder(A)[i] = a
  BY InOrderIsAll
<1>4. \A i \in 1..n : q[i] = RequestRow(st, r, InOrder(A)[i], h)
  BY <1>3 DEF Requests, RequestRow
<1>5. q = [i \in 1..n |-> q[i]]
  BY <1>3 DEF Requests
<1>6. transcript' = u \o q
  BY DEF Ask
<1>7. \A kind : RowsAdded(transcript, before, u, kind)
  BY RowsOfConcat
<1>8. \A kind : kind # "request" => RowsOf(q, kind) = {}
  BY RequestRows
<1> HIDE DEF u, q, n
<1>9. IsRows(q) /\ Len(q) = n /\ DOMAIN q = 1..n
  BY <1>3, <1>5, MappedAreRows
<1>10. IsRows(u) /\ Len(u) = low
  BY <1>2 DEF Extends, Before
<1> HIDE DEF low
<1>11. Extends(u, q, transcript')
  BY <1>6, <1>9, <1>10, RowsConcat
<1>12. \A kind : RowsAdded(u, q, transcript', kind)
  BY <1>6, <1>9, <1>10, RowsOfConcat
<1>13. ASSUME NEW kind, kind # "request" PROVE RowsAdded(transcript, before, transcript', kind)
  <2>1. SameOf(u, transcript', kind) /\ IsRows(transcript')
    BY <1>6, <1>8, <1>9, <1>10, <1>13, SameOfConcat
  <2>2. RowsOf(transcript', kind) = RowsOf(u, kind) /\ \A i \in RowsOf(u, kind) : transcript'[i] = u[i]
    BY <2>1 DEF SameOf
  <2>3. RowsAdded(transcript, before, u, kind)
    BY <1>7
  <2>4. RowsOf(transcript', kind) = RowsOf(transcript, kind) \cup {Len(transcript) + i : i \in RowsOf(before, kind)}
    BY <2>2, <2>3 DEF RowsAdded
  <2>5. \A i \in RowsOf(transcript, kind) : transcript'[i] = transcript[i]
    BY <2>2, <2>3 DEF RowsAdded
  <2>6. \A i \in RowsOf(before, kind) : transcript'[Len(transcript) + i] = before[i]
    BY <2>2, <2>3 DEF RowsAdded
  <2> QED BY <2>1, <2>4, <2>5, <2>6 DEF RowsAdded
<1>14. \A i \in 1..n : transcript'[low + i] = RequestRow(st, r, InOrder(A)[i], h)
  BY <1>4, <1>9, <1>10, <1>11 DEF Extends
<1>15. low \in Nat /\ Len(transcript') = low + n
  BY <1>1, <1>9, <1>10, <1>11 DEF Extends, low, Before
<1>16. AskedRows(st, r, A, h, low)
  <2>1. RowsOf(q, "request") = 1..n
    BY <1>4, <1>9 DEF RowsOf, RequestRow
  <2>2. {low + i : i \in 1..n} = AskedAt(low, A)
    <3>1. \A i \in 1..n : low + i \in (low + 1)..(low + n)
      BY <1>3, <1>15
    <3>2. \A j \in (low + 1)..(low + n) : \E i \in 1..n : j = low + i
      <4> TAKE j \in (low + 1)..(low + n)
      <4>1. j - low \in 1..n /\ j = low + (j - low)
        BY <1>3, <1>15
      <4> QED BY <4>1
    <3> QED BY <3>1, <3>2 DEF AskedAt, n
  <2>3. RowsOf(u, "request") = RowsOf(transcript, "request")
        /\ \A i \in RowsOf(transcript, "request") : u[i] = transcript[i]
    <3>1. RowsAdded(transcript, before, u, "request")
      BY <1>7
    <3> QED BY <3>1 DEF RowsAdded
  <2>4. RowsAdded(u, q, transcript', "request")
    BY <1>12
  <2>5. RowsOf(transcript', "request") = RowsOf(transcript, "request") \cup AskedAt(low, A)
    BY <1>10, <2>1, <2>2, <2>3, <2>4 DEF RowsAdded
  <2>6. \A i \in RowsOf(transcript, "request") : transcript'[i] = transcript[i]
    BY <2>3, <2>4 DEF RowsAdded
  <2>7. \A i \in AskedAt(low, A) : \E a \in A : transcript'[i] = RequestRow(st, r, a, h)
    <3> TAKE i \in AskedAt(low, A)
    <3>1. PICK k \in 1..n : i = low + k
      BY <2>2
    <3> QED BY <1>3, <1>14, <3>1
  <2>8. \A a \in A : \E i \in AskedAt(low, A) : transcript'[i] = RequestRow(st, r, a, h)
    <3> TAKE a \in A
    <3>1. PICK k \in 1..n : InOrder(A)[k] = a
      BY <1>3
    <3>2. low + k \in AskedAt(low, A)
      BY <2>2
    <3> QED BY <1>14, <3>1, <3>2
  <2> QED BY <2>5, <2>6, <2>7, <2>8 DEF AskedRows
<1> QED BY <1>1, <1>3, <1>11, <1>13, <1>15, <1>16 DEF Extends, n, low

\* Rows of a kind that are not in what is added are the same.
LEMMA NoneAdded ==
    ASSUME NEW s, NEW t, NEW u, NEW kind, RowsAdded(s, t, u, kind), RowsOf(t, kind) = {}
    PROVE  SameOf(s, u, kind)
BY DEF RowsAdded, SameOf

\* A request that ends adds the terminals of those that are released.
EndedAt(a) == {Len(transcript) + i : i \in DOMAIN ReleasedRows(a)}
EndRows(a) ==
    /\ IsRows(transcript') /\ Len(transcript') >= Len(transcript)
    /\ \A kind \in {"role", "round", "request", "message"} : SameOf(transcript, transcript', kind)
    /\ RowsOf(transcript', "terminal") = RowsOf(transcript, "terminal") \cup EndedAt(a)
    /\ \A i \in RowsOf(transcript, "terminal") : transcript'[i] = transcript[i]
    /\ \A i \in EndedAt(a) : i > Len(transcript)
    /\ \A i \in EndedAt(a) : \E b \in Released(a) : transcript'[i] = TerminalRow(b)
    /\ \A b \in Released(a) : \E i \in EndedAt(a) : transcript'[i] = TerminalRow(b)
    /\ \A i, j \in EndedAt(a) : transcript'[i].id = transcript'[j].id => i = j

\* The rows they become: one for each released request, after all earlier rows.
LEMMA ReleasedAtEnd ==
    ASSUME IsRows(transcript), NEW a, Released(a) \subseteq Actors
    PROVE  /\ RowsOf(Told(a), "terminal") = RowsOf(transcript, "terminal") \cup EndedAt(a)
           /\ \A i \in RowsOf(transcript, "terminal") : Told(a)[i] = transcript[i]
           /\ \A i \in EndedAt(a) : i > Len(transcript)
           /\ \A i \in EndedAt(a) : \E b \in Released(a) : Told(a)[i] = TerminalRow(b)
           /\ \A b \in Released(a) : \E i \in EndedAt(a) : Told(a)[i] = TerminalRow(b)
           /\ \A i, j \in EndedAt(a) : Told(a)[i].id = Told(a)[j].id => i = j
<1> DEFINE R == Released(a)
           n == Cardinality(R)
           s == InOrder(R)
           t == ReleasedRows(a)
           low == Len(transcript)
<1>1. /\ n \in Nat /\ DOMAIN s = 1..n
      /\ \A i \in 1..n : s[i] \in R
      /\ \A i \in 1..n, j \in 1..n : s[i] = s[j] => i = j
      /\ \A b \in R : \E i \in 1..n : s[i] = b
  BY InOrderIsAll
<1>2. IsRows(t) /\ low \in Nat
  BY ReleasedAreRows, RowsAreMapped
<1>3. DOMAIN t = 1..n /\ \A i \in 1..n : t[i] = TerminalRow(s[i])
  BY <1>1 DEF ReleasedRows
<1>4. RowsAdded(transcript, t, Told(a), "terminal")
  BY <1>2, RowsOfConcat DEF Told
<1>5. \A b : TerminalRow(b).kind = "terminal" /\ TerminalRow(b).id.actor = b
  BY DEF TerminalRow, IdOf, RequestId
<1> HIDE DEF R, n, s, t, low
<1>6. RowsOf(t, "terminal") = 1..n
  BY <1>3, <1>5 DEF RowsOf
<1>7. EndedAt(a) = {low + i : i \in 1..n}
  BY <1>3 DEF EndedAt, t, low
<1>8. RowsOf(Told(a), "terminal") = RowsOf(transcript, "terminal") \cup EndedAt(a)
      /\ \A i \in RowsOf(transcript, "terminal") : Told(a)[i] = transcript[i]
  BY <1>4, <1>6, <1>7 DEF RowsAdded, low
<1>9. \A i \in 1..n : Told(a)[low + i] = TerminalRow(s[i])
  BY <1>3, <1>4, <1>6 DEF RowsAdded, low
<1>10. \A i \in EndedAt(a) : i > low
  BY <1>1, <1>2, <1>7
<1>11. \A i \in EndedAt(a) : \E b \in R : Told(a)[i] = TerminalRow(b)
  BY <1>1, <1>7, <1>9
<1>12. \A b \in R : \E i \in EndedAt(a) : Told(a)[i] = TerminalRow(b)
  BY <1>1, <1>7, <1>9
<1>13. ASSUME NEW i \in EndedAt(a), NEW j \in EndedAt(a), Told(a)[i].id = Told(a)[j].id
       PROVE  i = j
  <2>1. PICK k \in 1..n : i = low + k
    BY <1>7
  <2>2. PICK l \in 1..n : j = low + l
    BY <1>7
  <2>3. s[k] = s[l]
    BY <1>5, <1>9, <1>13, <2>1, <2>2
  <2> QED BY <1>1, <2>1, <2>2, <2>3
<1> QED BY <1>8, <1>10, <1>11, <1>12, <1>13 DEF R, low

\* The step of a request that ends adds exactly the released terminals.
LEMMA TerminalAdded ==
    ASSUME IsRows(transcript), NEW a, Released(a) \subseteq Actors, transcript' = Told(a)
    PROVE  EndRows(a) /\ SameOf(transcript, transcript', "consumed")
<1>1. /\ IsRows(Told(a)) /\ Len(Told(a)) >= Len(transcript)
      /\ \A kind : kind # "terminal" => SameOf(transcript, Told(a), kind)
  BY ReleasedAdded
<1>2. "consumed" # "terminal" /\ \A kind \in {"role", "round", "request", "message"} : kind # "terminal"
  OBVIOUS
<1>3. SameOf(transcript, transcript', "consumed")
      /\ \A kind \in {"role", "round", "request", "message"} : SameOf(transcript, transcript', kind)
  BY <1>1, <1>2
<1> QED BY <1>1, <1>3, ReleasedAtEnd DEF EndRows

\* The same with what is consumed.
LEMMA SubmissionAdded ==
    ASSUME CouncilShape, NEW a, NEW c, Released(a) \subseteq Actors,
           transcript' = Told(a) \o <<ConsumedRow(a, c)>>
    PROVE  EndRows(a)
<1> DEFINE row == ConsumedRow(a, c)
           t == <<row>>
           u == Told(a)
<1>1. row.kind = "consumed"
  BY DEF ConsumedRow
<1>2. IsRows(t) /\ \A kind : kind # row.kind => RowsOf(t, kind) = {}
  BY OneRow
<1>3. IsRows(transcript) /\ transcript' = u \o t
  BY DEF CouncilShape
<1>4. /\ IsRows(u) /\ Len(u) \in Nat /\ Len(u) >= Len(transcript)
      /\ \A kind : kind # "terminal" => SameOf(transcript, u, kind)
  BY <1>3, ReleasedAdded
<1>5. /\ RowsOf(u, "terminal") = RowsOf(transcript, "terminal") \cup EndedAt(a)
      /\ \A i \in RowsOf(transcript, "terminal") : u[i] = transcript[i]
      /\ \A i \in EndedAt(a) : i > Len(transcript)
      /\ \A i \in EndedAt(a) : \E b \in Released(a) : u[i] = TerminalRow(b)
      /\ \A b \in Released(a) : \E i \in EndedAt(a) : u[i] = TerminalRow(b)
      /\ \A i, j \in EndedAt(a) : u[i].id = u[j].id => i = j
  BY <1>3, ReleasedAtEnd
<1> HIDE DEF row, t, u
<1>6. \A kind : kind # "consumed" => IsRows(transcript') /\ SameOf(u, transcript', kind)
  BY <1>1, <1>2, <1>3, <1>4, SameOfConcat
<1>7. \A kind \in {"role", "round", "request", "message"} : SameOf(transcript, transcript', kind)
  <2>1. \A kind \in {"role", "round", "request", "message"} : kind # "terminal" /\ kind # "consumed"
    OBVIOUS
  <2> QED BY <1>4, <1>6, <2>1 DEF SameOf
<1>8. RowsOf(transcript', "terminal") = RowsOf(u, "terminal")
      /\ \A i \in RowsOf(u, "terminal") : transcript'[i] = u[i]
  <2>1. SameOf(u, transcript', "terminal")
    BY <1>6
  <2> QED BY <2>1 DEF SameOf
<1>9. Len(transcript') >= Len(transcript) /\ IsRows(transcript')
  <2>1. Extends(u, t, transcript')
    BY <1>2, <1>3, <1>4, RowsConcat
  <2>2. Len(t) \in Nat /\ Len(transcript) \in Nat
    BY <1>2, <1>3, RowsAreMapped
  <2> QED BY <1>4, <2>1, <2>2 DEF Extends
<1>10. /\ \A i \in RowsOf(transcript, "terminal") : transcript'[i] = transcript[i]
       /\ \A i \in EndedAt(a) : transcript'[i] = u[i]
  BY <1>5, <1>8
<1>11. /\ \A i \in EndedAt(a) : \E b \in Released(a) : transcript'[i] = TerminalRow(b)
       /\ \A b \in Released(a) : \E i \in EndedAt(a) : transcript'[i] = TerminalRow(b)
  <2>1. ASSUME NEW i \in EndedAt(a) PROVE \E b \in Released(a) : transcript'[i] = TerminalRow(b)
    <3>1. PICK b \in Released(a) : u[i] = TerminalRow(b)
      BY <1>5
    <3> QED BY <1>10, <3>1
  <2>2. ASSUME NEW b \in Released(a) PROVE \E i \in EndedAt(a) : transcript'[i] = TerminalRow(b)
    <3>1. PICK i \in EndedAt(a) : u[i] = TerminalRow(b)
      BY <1>5
    <3> QED BY <1>10, <3>1
  <2> QED BY <2>1, <2>2
<1>12. \A i, j \in EndedAt(a) : transcript'[i].id = transcript'[j].id => i = j
  <2> TAKE i, j \in EndedAt(a)
  <2>1. transcript'[i].id = u[i].id /\ transcript'[j].id = u[j].id
    BY <1>10
  <2>2. u[i].id = u[j].id => i = j
    BY <1>5
  <2> QED BY <2>1, <2>2
<1>13. RowsOf(transcript', "terminal") = RowsOf(transcript, "terminal") \cup EndedAt(a)
       /\ \A i \in EndedAt(a) : i > Len(transcript)
  BY <1>5, <1>8
<1> HIDE <1>5, <1>8
<1> QED BY <1>7, <1>9, <1>10, <1>11, <1>12, <1>13 DEF EndRows

-----------------------------------------------------------------------------
(* Requests, and what came of them.                                         *)

\* The stages come one after the other.
LEMMA StageRanks ==
    /\ StageRank["round"] = 0 /\ StageRank["cipher_council"] = 1 /\ StageRank["deliberation"] = 2
    /\ StageRank["nomination"] = 3 /\ StageRank["vote"] = 4 /\ StageRank["mission_commitment"] = 5
    /\ \A st \in CouncilStages : StageRank[st] \in 1..5
BY DEF StageRank, CouncilStages

\* A later stage of the round, or a later turn in the stage.
Later ==
    \/ StageRank[stage'] > StageRank[stage]
    \/ stage' = stage /\ stage \in {"deliberation", "vote"} /\ turn' = turn + 1
NewId(a) == RequestId(stage', RoundKey', a)
OnlyBehind == \A id \in Ids : IsAhead(id)' => IsAhead(id)

\* Going on in a round leaves less ahead, and what it comes to was ahead.
LEMMA AheadInRound ==
    ASSUME CouncilShape, mission' = mission, attempt' = attempt, stage # "mission_commitment",
           stage' \in CouncilStages, Later
    PROVE  /\ OnlyBehind
           /\ \A a \in Actors :
                 StageRank[stage'] > StageRank[stage] \/ a \in ToCome => IsAhead(NewId(a))
<1>1. mission \in Nat /\ attempt \in Nat /\ turn \in Nat /\ stage \in CouncilStages \cup {"round"}
  BY NowIsCounted DEF CouncilShape
<1>2. StageRank[stage] \in 0..5 /\ StageRank[stage'] \in 1..5
  BY <1>1, StageRanks
<1>3. ASSUME stage' = stage, turn' = turn + 1 PROVE ToCome' \subseteq ToCome
  BY <1>1, <1>3, CouncilCounts DEF ToCome
<1>4. ASSUME NEW id \in Ids, IsAhead(id)' PROVE IsAhead(id)
  <2>1. id.round[1] \in Nat /\ id.round[2] \in Nat /\ StageRank[id.stage] \in 1..5
    BY StageRanks DEF Ids
  <2>2. CASE id.round[1] > mission
    BY <2>2 DEF IsAhead
  <2>3. CASE /\ id.round[1] = mission /\ stage' # "mission_commitment"
             /\ id.stage = "mission_commitment" \/ id.round[2] > attempt
    BY <2>3 DEF IsAhead
  <2>4. CASE /\ id.round[1] = mission /\ id.round[2] = attempt
             /\ StageRank[id.stage] > StageRank[stage']
    <3>1. StageRank[id.stage] > StageRank[stage]
      BY <1>2, <2>1, <2>4 DEF Later
    <3> QED BY <2>4, <3>1 DEF IsAhead
  <2>5. CASE /\ id.round[1] = mission /\ id.round[2] = attempt /\ id.stage = stage'
             /\ stage' \in {"deliberation", "vote"} /\ id.actor \in ToCome'
    <3>1. CASE StageRank[stage'] > StageRank[stage]
      BY <2>5, <3>1 DEF IsAhead
    <3>2. CASE stage' = stage /\ turn' = turn + 1
      BY <1>3, <2>5, <3>2 DEF IsAhead
    <3> QED BY <3>1, <3>2 DEF Later
  <2> QED BY <1>4, <2>2, <2>3, <2>4, <2>5 DEF IsAhead
<1>5. ASSUME NEW a \in Actors, StageRank[stage'] > StageRank[stage] \/ a \in ToCome
      PROVE  IsAhead(NewId(a))
  <2>1. NewId(a).stage = stage' /\ NewId(a).actor = a /\ NewId(a).round = RoundKey'
    BY DEF NewId, RequestId
  <2>2. CASE stage' = "mission_commitment"
    <3>1. RoundKey' = <<mission, 0>>
      BY <2>2 DEF RoundKey
    <3> QED BY <2>1, <2>2, <3>1 DEF IsAhead
  <2>3. CASE stage' # "mission_commitment"
    <3>1. RoundKey' = <<mission, attempt>>
      BY <2>3 DEF RoundKey
    <3>2. NewId(a).round[1] = mission /\ NewId(a).round[2] = attempt
      BY <2>1, <3>1
    <3>3. CASE StageRank[stage'] > StageRank[stage]
      BY <2>1, <3>2, <3>3 DEF IsAhead
    <3>4. CASE ~(StageRank[stage'] > StageRank[stage])
      BY <1>5, <2>1, <3>2, <3>4 DEF IsAhead, Later
    <3> QED BY <3>3, <3>4
  <2> QED BY <2>2, <2>3
<1> QED BY <1>4, <1>5 DEF OnlyBehind

\* So does the next round.
LEMMA AheadOfRound ==
    ASSUME CouncilShape, stage' = "round",
           \/ mission' = mission /\ attempt' = attempt + 1 /\ stage # "mission_commitment"
           \/ mission' = mission + 1
    PROVE  OnlyBehind
<1>1. mission \in Nat /\ attempt \in Nat
  BY NowIsCounted
<1>2. ASSUME NEW id \in Ids, IsAhead(id)' PROVE IsAhead(id)
  <2>1. id.round[1] \in Nat /\ id.round[2] \in Nat
    BY DEF Ids
  <2>2. CASE mission' = mission + 1
    <3>1. id.round[1] > mission + 1 \/ id.round[1] = mission + 1
      BY <1>2, <2>2 DEF IsAhead
    <3>2. id.round[1] > mission
      BY <1>1, <2>1, <3>1
    <3> QED BY <3>2 DEF IsAhead
  <2>3. CASE mission' = mission /\ attempt' = attempt + 1 /\ stage # "mission_commitment"
    <3>1. CASE id.round[1] > mission \/ id.stage = "mission_commitment"
      BY <1>2, <2>3, <3>1 DEF IsAhead
    <3>2. CASE id.round[1] = mission /\ (id.round[2] > attempt + 1 \/ id.round[2] = attempt + 1)
      <4>1. id.round[2] > attempt
        BY <1>1, <2>1, <3>2
      <4> QED BY <2>3, <3>2, <4>1 DEF IsAhead
    <3> QED BY <1>2, <2>3, <3>1, <3>2 DEF IsAhead
  <2> QED BY <2>2, <2>3
<1> QED BY <1>2 DEF OnlyBehind

\* An open request is of now, and nothing that is ahead.
LEMMA AskedIsNow ==
    ASSUME RecordShape, NEW a \in asked \cup held
    PROVE  /\ a \in Actors /\ stage \in CouncilStages
           /\ IdOf(a) \in Ids /\ ~IsAhead(IdOf(a))
           /\ IdOf(a).stage = stage /\ IdOf(a).round = RoundKey /\ IdOf(a).actor = a
<1>1. CouncilShape /\ a \in Actors /\ stage \in CouncilStages
  BY DEF RecordShape, CouncilShape
<1>2. mission \in Nat /\ attempt \in Nat /\ turn \in Nat
  BY <1>1, NowIsCounted DEF CouncilShape
<1>3. IdOf(a).stage = stage /\ IdOf(a).round = RoundKey /\ IdOf(a).actor = a
  BY DEF IdOf, RequestId
<1>4. RoundKey \in Nat \X Nat /\ RoundKey[1] = mission
      /\ (stage # "mission_commitment" => RoundKey[2] = attempt)
  BY <1>2 DEF RoundKey
<1>5. IdOf(a) \in Ids
  BY <1>1, <1>4 DEF Ids, IdOf, RequestId
<1>6. ~IsAhead(IdOf(a))
  <2>1. ~(mission > mission) /\ ~(attempt > attempt) /\ StageRank[stage] \in 1..5
        /\ ~(StageRank[stage] > StageRank[stage])
    BY <1>1, <1>2, StageRanks
  <2>2. stage \in {"deliberation", "vote"} => a \notin ToCome
    <3> SUFFICES ASSUME stage \in {"deliberation", "vote"}, a \in ToCome PROVE FALSE
      OBVIOUS
    <3>1. turn \in 1..Players /\ a = Order[turn]
      BY DEF RecordShape
    <3>2. PICK i \in (turn + 1)..Players : Order[i] = a
      BY DEF ToCome
    <3>3. turn \in Nat /\ Players \in Nat /\ turn >= 1 /\ i \in (turn + 1)..Players
      BY <1>2, <3>1, <3>2, CouncilCounts
    <3>4. i \in 1..Players /\ i # turn
      BY <3>3
    <3> QED BY <3>1, <3>2, <3>4, OnePlace
  <2> QED BY <1>3, <1>4, <2>1, <2>2 DEF IsAhead
<1> QED BY <1>1, <1>3, <1>5, <1>6

\* The same terminals, choices and messages tell the same of every request.
LEMMA SameRowsTellTheSame ==
    /\ SameOf(transcript, transcript', "terminal") =>
          \A id : TerminalsOf(transcript', id) = TerminalsOf(transcript, id)
    /\ SameOf(transcript, transcript', "consumed") =>
          /\ \A id : ConsumedOf(transcript', id) = ConsumedOf(transcript, id)
          /\ \A id : Spoken(id)' = Spoken(id)
          /\ \A a : TurnsOf(a)' = TurnsOf(a)
    /\ SameOf(transcript, transcript', "message") =>
          \A id : MessagesOf(transcript', id) = MessagesOf(transcript, id)
<1>1. SameOf(transcript, transcript', "terminal") =>
          \A id : TerminalsOf(transcript', id) = TerminalsOf(transcript, id)
  BY DEF SameOf, TerminalsOf
<1>2. ASSUME SameOf(transcript, transcript', "consumed")
      PROVE  /\ \A id : ConsumedOf(transcript', id) = ConsumedOf(transcript, id)
             /\ \A id : Spoken(id)' = Spoken(id)
             /\ \A a : TurnsOf(a)' = TurnsOf(a)
  <2>1. \A id : ConsumedOf(transcript', id) = ConsumedOf(transcript, id)
    BY <1>2 DEF SameOf, ConsumedOf
  <2>2. \A id : \A i \in ConsumedOf(transcript, id) : transcript'[i] = transcript[i]
    BY <1>2 DEF SameOf, ConsumedOf
  <2>3. \A id : Spoken(id)' = Spoken(id)
    BY <2>1, <2>2 DEF Spoken
  <2>4. \A a : TurnsOf(a)' = TurnsOf(a)
    BY <1>2 DEF SameOf, TurnsOf
  <2> QED BY <2>1, <2>3, <2>4
<1>3. SameOf(transcript, transcript', "message") =>
          \A id : MessagesOf(transcript', id) = MessagesOf(transcript, id)
  BY DEF SameOf, MessagesOf, MessageIsFor
<1> QED BY <1>1, <1>2, <1>3

\* The environment asks A in stage st; what it emitted before are rounds and messages.
AsksOn(st, A, h, before) ==
    /\ Ask(st, RoundKey', A, h, before)
    /\ asked = {} /\ held = {} /\ A \subseteq Actors /\ st \in CouncilStages
    /\ IsRows(before)
    /\ \A kind \in {"role", "request", "terminal", "consumed"} : RowsOf(before, kind) = {}
    /\ UNCHANGED <<setup, memory>> /\ h = history'
    /\ OnlyBehind /\ \A a \in A : IsAhead(NewId(a))

\* Asking leaves the rows alone that are neither requests nor emitted before.
LEMMA AskSame ==
    ASSUME CouncilShape, NEW st, NEW A, NEW h, NEW before, AsksOn(st, A, h, before)
    PROVE  /\ IsRows(transcript')
           /\ SameOf(transcript, transcript', "role")
           /\ SameOf(transcript, transcript', "terminal")
           /\ SameOf(transcript, transcript', "consumed")
           /\ AskedRows(st, RoundKey', A, h, Before(before))
           /\ RowsAdded(transcript, before, transcript', "round")
           /\ RowsAdded(transcript, before, transcript', "message")
           /\ Len(transcript) \in Nat /\ Len(before) \in Nat /\ Cardinality(A) \in Nat
           /\ Len(transcript') = Before(before) + Cardinality(A)
           /\ stage' = st /\ asked' = A /\ held = {} /\ held' = {}
<1>1. /\ IsRows(transcript) /\ A \subseteq Actors /\ IsRows(before)
      /\ RowsOf(before, "request") = {} /\ Ask(st, RoundKey', A, h, before)
  BY DEF AsksOn, CouncilShape
<1>2. /\ \A kind : kind # "request" => RowsAdded(transcript, before, transcript', kind)
      /\ AskedRows(st, RoundKey', A, h, Before(before)) /\ IsRows(transcript')
      /\ Len(transcript) \in Nat /\ Len(before) \in Nat /\ Cardinality(A) \in Nat
      /\ Len(transcript') = Before(before) + Cardinality(A)
  BY <1>1, AskGrows
<1>3. \A kind \in {"role", "terminal", "consumed"} : RowsOf(before, kind) = {} /\ kind # "request"
  BY DEF AsksOn
<1>4. \A kind \in {"role", "terminal", "consumed"} : SameOf(transcript, transcript', kind)
  BY <1>2, <1>3, NoneAdded
<1>5. stage' = st /\ asked' = A /\ held = {} /\ held' = {}
  BY <1>1 DEF AsksOn, Ask
<1> QED BY <1>2, <1>4, <1>5

\* New requests are new.
LEMMA AskIdsFit ==
    ASSUME CouncilShape, TerminalsFit, RequestsFit, ConsumedFit, NEW st, NEW A, NEW h, NEW before,
           AsksOn(st, A, h, before)
    PROVE  TerminalsFit' /\ RequestsFit' /\ ConsumedFit'
<1>1. /\ SameOf(transcript, transcript', "terminal") /\ SameOf(transcript, transcript', "consumed")
      /\ AskedRows(st, RoundKey', A, h, Before(before)) /\ stage' = st /\ asked' = A
      /\ held = {} /\ held' = {}
  BY AskSame
<1>2. /\ \A id : TerminalsOf(transcript', id) = TerminalsOf(transcript, id)
      /\ \A id : ConsumedOf(transcript', id) = ConsumedOf(transcript, id)
  BY <1>1, SameRowsTellTheSame
<1>3. RowsOf(transcript', "terminal") = RowsOf(transcript, "terminal")
      /\ \A i \in RowsOf(transcript, "terminal") : transcript'[i] = transcript[i]
  BY <1>1 DEF SameOf
<1>4. RowsOf(transcript', "consumed") = RowsOf(transcript, "consumed")
      /\ \A i \in RowsOf(transcript, "consumed") : transcript'[i] = transcript[i]
  BY <1>1 DEF SameOf
<1>5. /\ \A a : IdOf(a)' = NewId(a) /\ RequestId(st, RoundKey', a) = NewId(a)
      /\ \A id : Ended(id) <=> TerminalsOf(transcript, id) # {}
  BY <1>1 DEF IdOf, NewId, Ended
<1>6. asked = {} /\ OnlyBehind /\ \A a \in A : IsAhead(NewId(a))
  BY DEF AsksOn
<1>7. TerminalsFit'
  <2>1. \A i \in RowsOf(transcript, "terminal") : transcript[i].id \in Ids /\ ~IsAhead(transcript[i].id)
    BY DEF TerminalsFit
  <2>2. \A i \in RowsOf(transcript, "terminal") : ~(IsAhead(transcript[i].id)')
    <3> TAKE i \in RowsOf(transcript, "terminal")
    <3> DEFINE id == transcript[i].id
    <3>1. \A x \in Ids : IsAhead(x)' => IsAhead(x)
      BY <1>6 DEF OnlyBehind
    <3>2. PICK x \in Ids : x = transcript[i].id
      BY <2>1
    <3>3. ~IsAhead(x)
      BY <2>1, <3>2
    <3>4. ~(IsAhead(x)')
      BY <3>1, <3>3
    <3>5. transcript'[i].id = x
      BY <1>3, <3>2
    <3> QED BY <3>4, <3>5
  <2>3. \A a \in A : TerminalsOf(transcript, NewId(a)) = {}
    BY <1>6, <2>1 DEF TerminalsOf
  <2> QED BY <1>1, <1>2, <1>3, <1>5, <2>1, <2>2, <2>3 DEF TerminalsFit
<1>8. RequestsFit'
  <2>1. \A a \in A : \E i \in RowsOf(transcript', "request") : transcript'[i].id = NewId(a)
    <3> TAKE a \in A
    <3>1. PICK i \in AskedAt(Before(before), A) : transcript'[i] = RequestRow(st, RoundKey', a, h)
      BY <1>1 DEF AskedRows
    <3>2. i \in RowsOf(transcript', "request")
      BY <1>1, <3>1 DEF AskedRows
    <3> QED BY <1>5, <3>1, <3>2 DEF RequestRow
  <2>2. \A i \in RowsOf(transcript', "request") :
            \/ TerminalsOf(transcript, transcript'[i].id) # {}
            \/ \E a \in A : transcript'[i].id = NewId(a)
    <3> TAKE i \in RowsOf(transcript', "request")
    <3>1. CASE i \in RowsOf(transcript, "request")
      <4>1. transcript'[i] = transcript[i]
        BY <1>1, <3>1 DEF AskedRows
      <4> QED BY <1>5, <1>6, <3>1, <4>1 DEF RequestsFit
    <3>2. CASE i \in AskedAt(Before(before), A)
      <4>1. PICK a \in A : transcript'[i] = RequestRow(st, RoundKey', a, h)
        BY <1>1, <3>2 DEF AskedRows
      <4> QED BY <1>5, <4>1 DEF RequestRow
    <3> QED BY <1>1, <3>1, <3>2 DEF AskedRows
  <2>3. \A i \in RowsOf(transcript, "terminal") :
            \E j \in RowsOf(transcript', "request") : transcript'[j].id = transcript[i].id
    BY <1>1 DEF RequestsFit, AskedRows
  <2> QED BY <1>1, <1>2, <1>3, <1>5, <2>1, <2>2, <2>3 DEF RequestsFit, Ended
<1>9. ConsumedFit'
  <2>1. \A i \in RowsOf(transcript, "consumed") : TerminalsOf(transcript, transcript[i].id) # {}
    BY <1>5 DEF ConsumedFit
  <2> QED BY <1>2, <1>4, <2>1 DEF ConsumedFit, Ended
<1> QED BY <1>7, <1>8, <1>9

-----------------------------------------------------------------------------
(* What was delivered, and the history that is a part of it.                *)

\* A part of a sequence, element by element.
LEMMA PartOf ==
    ASSUME NEW t, IsRows(t), NEW k \in Nat, k <= Len(t)
    PROVE  LET p == SubSeq(t, k + 1, Len(t)) IN
           /\ IsRows(p) /\ Len(p) = Len(t) - k /\ DOMAIN p = 1..(Len(t) - k)
           /\ \A i \in 1..(Len(t) - k) : p[i] = t[k + i]
<1> DEFINE n == Len(t) - k
           p == SubSeq(t, k + 1, Len(t))
           T == {t[i] : i \in DOMAIN t}
<1>1. t \in Seq(T) /\ Len(t) \in Nat /\ n \in Nat
  BY RowsAreMapped DEF IsRows
<1> HIDE DEF T
<1>2. k + 1 \in 1..(Len(t) + 1) /\ Len(t) \in k..Len(t)
  BY <1>1
<1>3. /\ Len(p) = n
      /\ \A i \in 1..n : p[i] = t[k + i]
      /\ p = [i \in 1..n |-> p[i]]
  BY <1>1, <1>2
<1> HIDE DEF p
<1>4. IsRows(p)
  BY <1>1, <1>3, MappedAreRows
<1> QED BY <1>3, <1>4 DEF p

\* A sequence ends with another one.
LEMMA SuffixPointwise ==
    ASSUME NEW s, NEW t, IsRows(s), IsRows(t)
    PROVE  /\ Len(s) \in Nat /\ Len(t) \in Nat
           /\ IsSuffix(s, t) <=>
                 Len(s) <= Len(t) /\ \A i \in 1..Len(s) : t[Len(t) - Len(s) + i] = s[i]
<1>1. /\ Len(s) \in Nat /\ DOMAIN s = 1..Len(s) /\ Len(t) \in Nat
      /\ s = [i \in 1..Len(s) |-> s[i]]
  BY RowsAreMapped DEF IsRows
<1>2. ASSUME Len(s) <= Len(t)
      PROVE  SubSeq(t, Len(t) - Len(s) + 1, Len(t)) = s
                <=> \A i \in 1..Len(s) : t[Len(t) - Len(s) + i] = s[i]
  <2> DEFINE k == Len(t) - Len(s)
             p == SubSeq(t, k + 1, Len(t))
  <2>1. k \in Nat /\ k <= Len(t) /\ Len(t) - k = Len(s)
    BY <1>1, <1>2
  <2>2. IsRows(p) /\ DOMAIN p = 1..Len(s) /\ \A i \in 1..Len(s) : p[i] = t[k + i]
    BY <2>1, PartOf
  <2>3. p = [i \in 1..Len(s) |-> p[i]]
    BY <2>2 DEF IsRows
  <2> HIDE DEF p
  <2>4. p = s <=> \A i \in 1..Len(s) : t[k + i] = s[i]
    BY <1>1, <2>2, <2>3
  <2> QED BY <2>4 DEF p
<1> QED BY <1>1, <1>2 DEF IsSuffix

\* The last entries of a sequence.
LEMMA LastEntries ==
    ASSUME NEW s, IsRows(s), NEW n \in Nat
    PROVE  /\ IsRows(LastOf(s, n)) /\ Len(LastOf(s, n)) \in Nat
           /\ Len(LastOf(s, n)) = IF Len(s) <= n THEN Len(s) ELSE n
           /\ Len(s) - Len(LastOf(s, n)) \in Nat
           /\ DOMAIN LastOf(s, n) = 1..Len(LastOf(s, n))
           /\ \A i \in 1..Len(LastOf(s, n)) :
                 LastOf(s, n)[i] = s[Len(s) - Len(LastOf(s, n)) + i]
<1>1. Len(s) \in Nat /\ DOMAIN s = 1..Len(s)
  BY RowsAreMapped
<1>2. CASE Len(s) <= n
  <2>1. LastOf(s, n) = s
    BY <1>2 DEF LastOf
  <2>2. Len(s) - Len(s) = 0 /\ \A i \in 1..Len(s) : i = 0 + i
    BY <1>1
  <2>3. \A i \in 1..Len(s) : s[i] = s[Len(s) - Len(s) + i]
    BY <2>2
  <2> QED BY <1>1, <1>2, <2>1, <2>2, <2>3
<1>3. CASE ~(Len(s) <= n)
  <2> DEFINE k == Len(s) - n
             p == SubSeq(s, k + 1, Len(s))
  <2>1. k \in Nat /\ k <= Len(s) /\ Len(s) - k = n
    BY <1>1, <1>3
  <2>2. LastOf(s, n) = p
    BY <1>3 DEF LastOf
  <2>3. /\ IsRows(p) /\ Len(p) = n /\ DOMAIN p = 1..n
        /\ \A i \in 1..n : p[i] = s[k + i]
    BY <2>1, PartOf
  <2> HIDE DEF p
  <2> QED BY <1>3, <2>1, <2>2, <2>3
<1> QED BY <1>2, <1>3

\* What is kept of a suffix that grows is a suffix.
LEMMA SuffixGrows ==
    ASSUME NEW s, NEW d, NEW e, NEW t, IsRows(s), IsRows(d), IsRows(e), IsRows(t),
           IsSuffix(s, d), Len(t) = Len(d) + Len(e),
           \A i \in 1..Len(d) : t[i] = d[i], \A i \in 1..Len(e) : t[Len(d) + i] = e[i],
           NEW n \in Nat
    PROVE  /\ IsRows(LastOf(s \o e, n)) /\ Len(LastOf(s \o e, n)) <= n
           /\ IsSuffix(LastOf(s \o e, n), t)
<1> DEFINE u == s \o e
           l == LastOf(u, n)
<1>1. Extends(s, e, u)
  BY RowsConcat
<1>2. Len(s) \in Nat /\ Len(d) \in Nat /\ Len(e) \in Nat /\ Len(s) <= Len(d)
      /\ \A i \in 1..Len(s) : d[Len(d) - Len(s) + i] = s[i]
  BY SuffixPointwise, RowsAreMapped
<1> HIDE DEF u
<1>3. IsRows(u) /\ Len(u) = Len(s) + Len(e)
      /\ (\A i \in 1..Len(s) : u[i] = s[i]) /\ \A i \in 1..Len(e) : u[Len(s) + i] = e[i]
  BY <1>1 DEF Extends
<1>4. /\ IsRows(l) /\ Len(l) \in Nat
      /\ Len(l) = IF Len(u) <= n THEN Len(u) ELSE n
      /\ Len(u) - Len(l) \in Nat
      /\ \A i \in 1..Len(l) : l[i] = u[Len(u) - Len(l) + i]
  <2>1. IsRows(u)
    BY <1>3
  <2> HIDE <1>1, <1>2, <1>3
  <2> QED BY <2>1, LastEntries
<1> HIDE DEF l
<1>5. Len(l) <= n /\ Len(l) <= Len(u) /\ Len(l) <= Len(t)
  BY <1>2, <1>3, <1>4
<1>6. \A i \in 1..Len(l) : t[Len(t) - Len(l) + i] = l[i]
  <2> TAKE i \in 1..Len(l)
  <2> DEFINE j == Len(u) - Len(l) + i
             k == Len(t) - Len(l) + i
  <2>1. j \in 1..Len(u) /\ l[i] = u[j]
    <3>1. j \in 1..Len(u)
      BY <1>2, <1>3, <1>4, <1>5
    <3> QED BY <1>4, <3>1
  <2>2. k = (Len(d) - Len(s)) + j
    BY <1>2, <1>3, <1>4
  <2> HIDE DEF j, k
  <2>3. CASE j <= Len(s)
    <3>1. j \in 1..Len(s) /\ k \in 1..Len(d)
      BY <1>2, <1>3, <2>1, <2>2, <2>3
    <3>2. u[j] = s[j] /\ t[k] = d[k] /\ d[Len(d) - Len(s) + j] = s[j]
      BY <1>2, <1>3, <3>1
    <3> QED BY <2>1, <2>2, <3>2 DEF k
  <2>4. CASE ~(j <= Len(s))
    <3> DEFINE m == j - Len(s)
    <3>1. m \in 1..Len(e) /\ j = Len(s) + m /\ k = Len(d) + m
      BY <1>2, <1>3, <2>1, <2>2, <2>4
    <3> HIDE DEF m
    <3>2. u[j] = e[m] /\ t[k] = e[m]
      BY <1>3, <3>1
    <3> QED BY <2>1, <3>2 DEF k
  <2> QED BY <2>3, <2>4
<1>7. IsSuffix(l, t)
  BY <1>4, <1>5, <1>6, SuffixPointwise
<1> QED BY <1>4, <1>5, <1>7 DEF l, u

\* What was delivered before a place.
MessagesBefore(s, i) == {j \in RowsOf(s, "message") : j < i}
LEMMA DeliveredRows ==
    ASSUME NEW s, IsRows(s), NEW i
    PROVE  LET d == DeliveredBefore(s, i) IN
           /\ MessagesBefore(s, i) \in SUBSET Nat /\ IsFiniteSet(MessagesBefore(s, i))
           /\ IsRows(d) /\ Len(d) = Cardinality(MessagesBefore(s, i)) /\ Len(d) \in Nat
           /\ DOMAIN d = 1..Len(d)
           /\ \A n \in 1..Len(d) : /\ Nth(MessagesBefore(s, i), n) \in MessagesBefore(s, i)
                                   /\ d[n] = s[Nth(MessagesBefore(s, i), n)].entry
<1> DEFINE I == MessagesBefore(s, i)
           d == DeliveredBefore(s, i)
           n == Cardinality(I)
<1>1. RowsOf(s, "message") \in SUBSET Nat /\ IsFiniteSet(RowsOf(s, "message"))
  BY RowPlaces
<1>2. I \in SUBSET RowsOf(s, "message")
  BY DEF MessagesBefore
<1>3. I \in SUBSET Nat /\ IsFiniteSet(I) /\ n \in Nat
  BY <1>1, <1>2, FS_Subset, FS_CardinalityType
<1>4. Picked(s, I) = [k \in 1..n |-> s[Nth(I, k)]]
  BY DEF Picked
<1>5. d = [k \in DOMAIN Picked(s, I) |-> Picked(s, I)[k].entry]
  BY DEF DeliveredBefore, MessagesBefore
<1> HIDE DEF d, I, n
<1>6. d = [k \in 1..n |-> s[Nth(I, k)].entry]
  BY <1>4, <1>5
<1>7. IsRows(d) /\ Len(d) = n /\ DOMAIN d = 1..n
  BY <1>3, <1>6, MappedAreRows
<1>8. \A k \in 1..n : Nth(I, k) \in I
  BY <1>3, NthHasRank DEF n
<1>9. \A k \in 1..n : d[k] = s[Nth(I, k)].entry
  BY <1>6
<1> QED BY <1>3, <1>7, <1>8, <1>9 DEF d, I, n

\* It is never changed by what comes later.
LEMMA DeliveredKept ==
    ASSUME IsRows(transcript), NEW before, RowsAdded(transcript, before, transcript', "message"),
           IsRows(before), NEW i \in Nat, i <= Len(transcript) + 1
    PROVE  DeliveredBefore(transcript', i) = DeliveredBefore(transcript, i)
<1> DEFINE I == MessagesBefore(transcript, i)
           J == MessagesBefore(transcript', i)
<1>1. IsRows(transcript')
  BY DEF RowsAdded
<1>2. Len(transcript) \in Nat /\ RowsOf(before, "message") \in SUBSET Nat
      /\ \A k \in RowsOf(before, "message") : k >= 1
  BY RowPlaces
<1>3. J = I
  <2>1. \A k \in RowsOf(before, "message") : ~(Len(transcript) + k < i)
    BY <1>2
  <2>2. RowsOf(transcript', "message") =
            RowsOf(transcript, "message") \cup {Len(transcript) + k : k \in RowsOf(before, "message")}
    BY DEF RowsAdded
  <2> QED BY <2>1, <2>2 DEF MessagesBefore
<1>4. I \in SUBSET Nat /\ IsFiniteSet(I) /\ Cardinality(I) \in Nat
  BY DeliveredRows, FS_CardinalityType
<1>5. \A k \in I : transcript'[k] = transcript[k]
  BY DEF RowsAdded, MessagesBefore
<1>6. DeliveredBefore(transcript, i)
          = [k \in DOMAIN Picked(transcript, I) |-> Picked(transcript, I)[k].entry]
  BY DEF DeliveredBefore, MessagesBefore
<1>7. DeliveredBefore(transcript', i)
          = [k \in DOMAIN Picked(transcript', J) |-> Picked(transcript', J)[k].entry]
  BY DEF DeliveredBefore, MessagesBefore
<1> HIDE DEF I, J
<1>8. \A k \in 1..Cardinality(I) : Nth(I, k) \in I
  BY <1>4, NthHasRank
<1>9. Picked(transcript', I) = Picked(transcript, I)
  BY <1>5, <1>8 DEF Picked
<1> QED BY <1>3, <1>6, <1>7, <1>9

\* Later places have what the step delivers behind it.
LEMMA DeliveredGrows ==
    ASSUME IsRows(transcript), NEW before, RowsAdded(transcript, before, transcript', "message"),
           NEW k \in Nat, RowsOf(before, "message") = 1..k,
           NEW i \in Nat, i > Len(transcript) + k
    PROVE  LET d == DeliveredBefore(transcript', i) IN
           /\ IsRows(d) /\ IsRows(Delivered) /\ Len(Delivered) \in Nat /\ Len(d) = Len(Delivered) + k
           /\ \A j \in 1..Len(Delivered) : d[j] = Delivered[j]
           /\ \A j \in 1..k : d[Len(Delivered) + j] = before[j].entry
<1> DEFINE low == Len(transcript)
           I == MessagesBefore(transcript, low + 1)
           U == MessagesBefore(transcript', i)
           d == DeliveredBefore(transcript', i)
<1>1. IsRows(transcript')
  BY DEF RowsAdded
<1>2. low \in Nat /\ RowsOf(transcript, "message") \subseteq 1..low
  BY RowPlaces
<1>3. I = RowsOf(transcript, "message")
  BY <1>2 DEF MessagesBefore
<1>4. I \in SUBSET Nat /\ IsFiniteSet(I) /\ \A j \in I : j <= low
  BY <1>2, <1>3, RowPlaces
<1>5. {low + j : j \in 1..k} = (low + 1)..(low + k)
  <2>1. \A j \in 1..k : low + j \in (low + 1)..(low + k)
    BY <1>2
  <2>2. \A m \in (low + 1)..(low + k) : \E j \in 1..k : m = low + j
    <3> TAKE m \in (low + 1)..(low + k)
    <3>1. m - low \in 1..k /\ m = low + (m - low)
      BY <1>2
    <3> QED BY <3>1
  <2> QED BY <2>1, <2>2
<1>6. RowsOf(transcript', "message") = I \cup ((low + 1)..(low + k))
  BY <1>3, <1>5 DEF RowsAdded
<1>7. U = I \cup ((low + 1)..(low + k))
  <2>1. \A j \in I \cup ((low + 1)..(low + k)) : j < i
    BY <1>2, <1>4
  <2> QED BY <1>6, <2>1 DEF MessagesBefore
<1>8. \A j \in I : transcript'[j] = transcript[j]
  BY <1>3 DEF RowsAdded
<1>9. \A j \in 1..k : transcript'[low + j] = before[j]
  BY DEF RowsAdded
<1>10. /\ IsRows(Delivered) /\ Len(Delivered) = Cardinality(I) /\ Len(Delivered) \in Nat
       /\ DOMAIN Delivered = 1..Len(Delivered)
  BY DeliveredRows DEF Delivered
<1>11. Delivered = [j \in DOMAIN Picked(transcript, I) |-> Picked(transcript, I)[j].entry]
  BY DEF Delivered, DeliveredBefore, MessagesBefore
<1>12. d = [j \in DOMAIN Picked(transcript', U) |-> Picked(transcript', U)[j].entry]
  BY DEF DeliveredBefore, MessagesBefore
<1>13. IsRows(d) /\ Len(d) = Cardinality(U) /\ DOMAIN d = 1..Len(d)
  BY <1>1, DeliveredRows
<1> HIDE DEF I, U, d, low
<1>14. /\ Cardinality(U) = Cardinality(I) + k
       /\ DOMAIN Picked(transcript, I) = 1..Cardinality(I)
       /\ DOMAIN Picked(transcript', U) = 1..(Cardinality(I) + k)
       /\ \A j \in 1..Cardinality(I) : Picked(transcript', U)[j] = Picked(transcript, I)[j]
       /\ \A j \in 1..k : Picked(transcript', U)[Cardinality(I) + j] = transcript'[low + j]
  <2> DEFINE u == transcript'
  <2>1. PicksOn(transcript, I, low, k, u, U)
    BY <1>2, <1>4, <1>7, <1>8 DEF PicksOn
  <2> HIDE DEF u
  <2> HIDE <1>1, <1>2, <1>3, <1>4, <1>5, <1>6, <1>7, <1>8, <1>9, <1>10, <1>11, <1>12, <1>13
  <2>2. /\ Cardinality(U) = Cardinality(I) + k
        /\ DOMAIN Picked(transcript, I) = 1..Cardinality(I)
        /\ DOMAIN Picked(u, U) = 1..(Cardinality(I) + k)
        /\ \A j \in 1..Cardinality(I) : Picked(u, U)[j] = Picked(transcript, I)[j]
        /\ \A j \in 1..k : Picked(u, U)[Cardinality(I) + j] = u[low + j]
    BY <2>1, PickedOn
  <2> QED BY <2>2 DEF u
<1>15. \A j \in 1..Len(Delivered) : d[j] = Delivered[j]
  <2> TAKE j \in 1..Len(Delivered)
  <2>1. j \in 1..Cardinality(I) /\ j \in 1..(Cardinality(I) + k)
    BY <1>10
  <2> QED BY <1>11, <1>12, <1>14, <2>1
<1>16. \A j \in 1..k : d[Len(Delivered) + j] = before[j].entry
  <2> TAKE j \in 1..k
  <2>1. Len(Delivered) + j \in 1..(Cardinality(I) + k)
    BY <1>10
  <2> QED BY <1>9, <1>10, <1>12, <1>14, <2>1
<1> QED BY <1>10, <1>13, <1>14, <1>15, <1>16 DEF d

\* Without a message in the step they have the same.
LEMMA DeliveredSame ==
    ASSUME IsRows(transcript), NEW before, RowsAdded(transcript, before, transcript', "message"),
           RowsOf(before, "message") = {}, NEW i \in Nat, i > Len(transcript)
    PROVE  DeliveredBefore(transcript', i) = Delivered
<1> DEFINE d == DeliveredBefore(transcript', i)
<1>1. Len(transcript) \in Nat /\ IsRows(transcript')
  BY RowsAreMapped DEF RowsAdded
<1>2. RowsOf(before, "message") = 1..0 /\ i > Len(transcript) + 0
  BY <1>1
<1>3. /\ IsRows(d) /\ IsRows(Delivered) /\ Len(Delivered) \in Nat /\ Len(d) = Len(Delivered) + 0
      /\ \A j \in 1..Len(Delivered) : d[j] = Delivered[j]
  BY <1>2, DeliveredGrows
<1> HIDE DEF d
<1>4. Len(d) = Len(Delivered)
  BY <1>3
<1>5. d = [j \in 1..Len(d) |-> d[j]] /\ Delivered = [j \in 1..Len(Delivered) |-> Delivered[j]]
  BY <1>3 DEF IsRows
<1> QED BY <1>3, <1>4, <1>5 DEF d

\* What is delivered was a message.
LEMMA DeliveredAreMessages ==
    ASSUME IsRows(transcript)
    PROVE  /\ IsRows(Delivered) /\ Len(Delivered) \in Nat
           /\ \A j \in 1..Len(Delivered) :
                  \E m \in RowsOf(transcript, "message") : Delivered[j] = transcript[m].entry
<1>1. RowsOf(transcript, "message") \subseteq 1..Len(transcript) /\ Len(transcript) \in Nat
  BY RowPlaces
<1>2. \A j \in 1..Len(Delivered) :
          /\ Nth(MessagesBefore(transcript, Len(transcript) + 1), j)
                 \in MessagesBefore(transcript, Len(transcript) + 1)
          /\ Delivered[j] = transcript[Nth(MessagesBefore(transcript, Len(transcript) + 1), j)].entry
  BY DeliveredRows DEF Delivered
<1>3. MessagesBefore(transcript, Len(transcript) + 1) \subseteq RowsOf(transcript, "message")
  BY DEF MessagesBefore
<1>4. IsRows(Delivered) /\ Len(Delivered) \in Nat
  BY DeliveredRows DEF Delivered
<1> QED BY <1>2, <1>3, <1>4

-----------------------------------------------------------------------------
(* Asking keeps each part.                                                  *)

\* No terminal row waits, or the same ones do.
HoldsNothingNew == held = {} \/ UNCHANGED <<held, stage, schedule>>

\* What an actor holds is as good as before.
LEMMA HoldsKept ==
    ASSUME SameOf(transcript, transcript', "terminal"), SameOf(transcript, transcript', "consumed"),
           UNCHANGED memory, HoldsNothingNew, MemoryFits
    PROVE  MemoryFits'
<1>1. /\ \A id : TerminalsOf(transcript', id) = TerminalsOf(transcript, id)
      /\ \A id : ConsumedOf(transcript', id) = ConsumedOf(transcript, id)
      /\ \A a : TurnsOf(a)' = TurnsOf(a)
  BY SameRowsTellTheSame
<1>2. \A i \in RowsOf(transcript, "consumed") : transcript'[i] = transcript[i]
  BY DEF SameOf
<1>3. ASSUME NEW a \in Actors PROVE HoldsOwnTurns(a)'
  <2> DEFINE kept == memory[a]
  <2>1. HoldsOwnTurns(a) /\ kept' = kept
    BY DEF MemoryFits
  <2>2. \A id : \A p \in ConsumedOf(transcript, id) : transcript'[p] = transcript[p]
    BY <1>2 DEF ConsumedOf
  <2>3. \A p \in TurnsOf(a) : transcript'[p] = transcript[p]
    BY <1>2 DEF TurnsOf
  <2>4. \A p \in TurnsOf(a) : IsHeld(a, p)' = IsHeld(a, p)
    BY <2>3 DEF IsHeld
  <2>5. \A i \in DOMAIN kept :
            /\ kept[i].id.actor = a
            /\ \A p \in ConsumedOf(transcript, kept[i].id) : transcript'[p].choice = kept[i].choice
    BY <2>1, <2>2 DEF HoldsOwnTurns
  <2>6. \A i \in DOMAIN kept, j \in DOMAIN kept :
            \A p \in ConsumedOf(transcript, kept[i].id), q \in ConsumedOf(transcript, kept[j].id) :
                (i < j => p < q) /\ (i = j => p = q)
    BY <2>1 DEF HoldsOwnTurns
  <2>7. /\ \A p \in TurnsOf(a), q \in TurnsOf(a) : IsHeld(a, p)' /\ p < q => IsHeld(a, q)'
        /\ Len(kept) < MemoryLimit => \A p \in TurnsOf(a) : IsHeld(a, p)'
    BY <2>1, <2>4 DEF HoldsOwnTurns
  <2>8. TurnsOf(a)' = TurnsOf(a)
    BY <1>1
  <2> HIDE DEF kept
  <2> QED BY <1>1, <2>1, <2>5, <2>6, <2>7, <2>8 DEF HoldsOwnTurns, kept
<1>4. ASSUME NEW id, Ended(id) PROVE Ended(id)'
  <2>1. UNCHANGED <<held, stage, schedule>> => held' = held /\ \A b : IdOf(b)' = IdOf(b)
    BY DEF schedule, IdOf, RoundKey
  <2> QED BY <1>1, <1>4, <2>1 DEF Ended, HoldsNothingNew
<1>5. ASSUME NEW a \in Actors, NEW i \in DOMAIN memory[a] PROVE Ended(memory[a][i].id)'
  <2>1. PICK x : x = memory[a][i].id
    OBVIOUS
  <2>2. Ended(x)'
    BY <1>4, <2>1 DEF MemoryFits
  <2>3. memory'[a][i].id = x
    BY <2>1
  <2> QED BY <2>2, <2>3
<1> QED BY <1>3, <1>5 DEF MemoryFits

\* The requests to speak in the channel that are added.
LEMMA StrategyGrows ==
    ASSUME CouncilShape, NEW st, NEW A, NEW h, NEW before, AsksOn(st, A, h, before)
    PROVE  LET R == StrategyRequests(transcript)
               J == AskedAt(Before(before), A)
           IN /\ R \in SUBSET (1..Len(transcript)) /\ IsFiniteSet(R)
              /\ \A i \in R : transcript'[i] = transcript[i]
              /\ st # "cipher_council" => StrategyRequests(transcript') = R
              /\ st = "cipher_council" => StrategyRequests(transcript') = R \cup J
              /\ IsFiniteSet(J) /\ Cardinality(J) = Cardinality(A) /\ \A i \in J : i > Len(transcript)
              /\ \A i \in J : \E a \in A : transcript'[i].id = RequestId(st, RoundKey', a)
              /\ \A a \in A : \E i \in J : transcript'[i].id = RequestId(st, RoundKey', a)
<1> DEFINE R == StrategyRequests(transcript)
           low == Before(before)
           J == AskedAt(low, A)
<1>1. /\ AskedRows(st, RoundKey', A, h, low) /\ Len(transcript) \in Nat /\ Len(before) \in Nat
      /\ Cardinality(A) \in Nat /\ low = Len(transcript) + Len(before)
  BY AskSame DEF Before
<1> HIDE DEF low
<1>2. RowsOf(transcript, "request") \subseteq 1..Len(transcript) /\ IsFiniteSet(RowsOf(transcript, "request"))
  BY RowPlaces DEF CouncilShape
<1>3. R = {i \in RowsOf(transcript, "request") : transcript[i].id.stage = "cipher_council"}
  BY DEF StrategyRequests
<1>4. StrategyRequests(transcript') =
          {i \in RowsOf(transcript', "request") : transcript'[i].id.stage = "cipher_council"}
  BY DEF StrategyRequests
<1>5. J = (low + 1)..(low + Cardinality(A)) /\ IsFiniteSet(J) /\ Cardinality(J) = Cardinality(A)
  <2> DEFINE n == Cardinality(A)
  <2>1. low \in Nat /\ n \in Nat /\ J = (low + 1)..(low + n)
    BY <1>1 DEF AskedAt
  <2> HIDE DEF n, J
  <2>2. IsFiniteSet(J) /\ Cardinality(J) = n
    BY <2>1, NthOfInterval
  <2> QED BY <2>1, <2>2 DEF n
<1>6. \A i \in J : i > Len(transcript)
  BY <1>1, <1>5
<1> HIDE DEF R, J
<1>7. R \in SUBSET RowsOf(transcript, "request") /\ R \in SUBSET (1..Len(transcript))
  BY <1>2, <1>3
<1>8. IsFiniteSet(R)
  BY <1>2, <1>7, FS_Subset
<1>9. /\ RowsOf(transcript', "request") = RowsOf(transcript, "request") \cup J
      /\ \A i \in RowsOf(transcript, "request") : transcript'[i] = transcript[i]
      /\ \A i \in J : \E a \in A : transcript'[i] = RequestRow(st, RoundKey', a, h)
      /\ \A a \in A : \E i \in J : transcript'[i] = RequestRow(st, RoundKey', a, h)
  BY <1>1 DEF AskedRows, J
<1>10. /\ \A i \in J : \E a \in A : transcript'[i].id = RequestId(st, RoundKey', a)
       /\ \A a \in A : \E i \in J : transcript'[i].id = RequestId(st, RoundKey', a)
  <2>1. \A a : RequestRow(st, RoundKey', a, h).id = RequestId(st, RoundKey', a)
    BY DEF RequestRow
  <2> QED BY <1>9, <2>1
<1>11. \A i \in J : transcript'[i].id.stage = st
  <2>1. \A a : RequestId(st, RoundKey', a).stage = st
    BY DEF RequestId
  <2> QED BY <1>10, <2>1
<1>12. \A i \in R : transcript'[i] = transcript[i]
  BY <1>7, <1>9
<1>13. st # "cipher_council" => StrategyRequests(transcript') = R
  BY <1>3, <1>4, <1>9, <1>11
<1>14. st = "cipher_council" => StrategyRequests(transcript') = R \cup J
  BY <1>3, <1>4, <1>9, <1>11
<1> QED BY <1>5, <1>6, <1>7, <1>8, <1>10, <1>12, <1>13, <1>14 DEF R, J, low

\* In the other stages the channel has nothing new.
LEMMA ChannelKept ==
    ASSUME CouncilShape, ChannelFits, NEW st, NEW A, NEW h, NEW before, AsksOn(st, A, h, before),
           st # "cipher_council", RowsOf(before, "round") = {}
    PROVE  ChannelFits'
<1>1. stage' = st /\ RowsAdded(transcript, before, transcript', "round") /\ Strategic' = Strategic
  BY AskSame DEF AsksOn, Strategic
<1>2. SameOf(transcript, transcript', "round")
  BY <1>1, NoneAdded
<1>3. RoundsIn(transcript') = RoundsIn(transcript)
  BY <1>2, SameProposals
<1>4. StrategyRequests(transcript') = StrategyRequests(transcript)
      /\ \A i \in StrategyRequests(transcript) : transcript'[i] = transcript[i]
  BY StrategyGrows
<1>5. \A r : RequestsIn(r)' = RequestsIn(r)
  BY <1>4 DEF RequestsIn
<1>6. \A r : {transcript'[i].id.actor : i \in RequestsIn(r)} = {transcript[i].id.actor : i \in RequestsIn(r)}
  BY <1>4 DEF RequestsIn
<1>7. {transcript'[i].id.round : i \in StrategyRequests(transcript)}
          = {transcript[i].id.round : i \in StrategyRequests(transcript)}
  BY <1>4
<1>8. \A i, j \in RowsOf(transcript', "round") : transcript'[i].round = transcript'[j].round => i = j
  BY <1>2 DEF SameOf, ChannelFits
<1>9. \A r : {transcript[i].id.actor : i \in RequestsIn(r)}'
                 = {transcript'[i].id.actor : i \in RequestsIn(r)'}
  OBVIOUS
<1> QED BY <1>1, <1>3, <1>4, <1>5, <1>6, <1>7, <1>8, <1>9 DEF ChannelFits

\* A round opens with its row; in a strategic one every cipher is asked once.
RoundStart == <<[kind |-> "round", round |-> This]>>
OpensRound(st, A, h) ==
    /\ AsksOn(st, A, h, RoundStart)
    /\ stage = "round" /\ This \notin RoundsIn(transcript) /\ RoundKey' = This
    /\ \/ Strategic /\ st = "cipher_council" /\ A = Ciphers
       \/ ~Strategic /\ st = "deliberation"

\* The row of its start is the only new one of a round.
LEMMA RoundIsNew ==
    ASSUME CouncilShape, NEW st, NEW A, NEW h, OpensRound(st, A, h)
    PROVE  /\ RowsOf(RoundStart, "round") = {1} /\ RowsOf(RoundStart, "message") = {} /\ IsRows(RoundStart)
           /\ Len(RoundStart) = 1
           /\ RowsOf(transcript', "round") = RowsOf(transcript, "round") \cup {Len(transcript) + 1}
           /\ \A i \in RowsOf(transcript, "round") : transcript'[i] = transcript[i]
           /\ transcript'[Len(transcript) + 1].round = This
           /\ RoundsIn(transcript') = RoundsIn(transcript) \cup {This}
<1> DEFINE row == [kind |-> "round", round |-> This]
           t == <<row>>
<1>1. row.kind = "round" /\ row.round = This
  OBVIOUS
<1> HIDE DEF row
<1>2. /\ IsRows(t) /\ DOMAIN t = 1..1 /\ t[1] = row
      /\ \A kind : kind # "round" => RowsOf(t, kind) = {}
  BY <1>1, OneRow
<1>3. t = RoundStart
  BY DEF RoundStart, row
<1> HIDE DEF t
<1>4. RowsOf(t, "round") = {1} /\ RowsOf(t, "message") = {}
  <2>1. RowsOf(t, "round") = {1}
    BY <1>1, <1>2 DEF RowsOf
  <2>2. "message" # "round"
    OBVIOUS
  <2> QED BY <1>2, <2>1, <2>2
<1>5. RowsAdded(transcript, t, transcript', "round") /\ IsRows(transcript)
  BY <1>3, AskSame DEF OpensRound, CouncilShape
<1>6. /\ RowsOf(transcript', "round") = RowsOf(transcript, "round") \cup {Len(transcript) + i : i \in {1}}
      /\ \A i \in RowsOf(transcript, "round") : transcript'[i] = transcript[i]
      /\ transcript'[Len(transcript) + 1] = t[1]
  BY <1>4, <1>5 DEF RowsAdded
<1>7. {Len(transcript) + i : i \in {1}} = {Len(transcript) + 1}
  OBVIOUS
<1>8. RoundsIn(transcript') = RoundsIn(transcript) \cup {This}
  BY <1>1, <1>2, <1>6, <1>7 DEF RoundsIn
<1>9. Len(t) = 1
  <2>1. Len(t) \in Nat /\ DOMAIN t = 1..Len(t)
    BY <1>2, RowsAreMapped
  <2>2. 1 \in 1..Len(t) /\ ~(2 \in 1..Len(t))
    BY <1>2, <2>1
  <2> QED BY <2>1, <2>2
<1> QED BY <1>1, <1>2, <1>3, <1>4, <1>6, <1>7, <1>8, <1>9

\* The new round has its requests, and the earlier ones have theirs.
LEMMA ChannelOpens ==
    ASSUME CouncilShape, ChannelFits, NEW st, NEW A, NEW h, OpensRound(st, A, h)
    PROVE  ChannelFits'
<1> DEFINE R == StrategyRequests(transcript)
           J == AskedAt(Before(RoundStart), A)
           new == Len(transcript) + 1
<1>1. AsksOn(st, A, h, RoundStart) /\ This \notin RoundsIn(transcript) /\ RoundKey' = This
      /\ Strategic' = Strategic
  BY DEF OpensRound, AsksOn, Strategic
<1>2. stage' = st
  BY <1>1, AskSame
<1>3. /\ RowsOf(transcript', "round") = RowsOf(transcript, "round") \cup {new}
      /\ \A i \in RowsOf(transcript, "round") : transcript'[i] = transcript[i]
      /\ transcript'[new].round = This
      /\ RoundsIn(transcript') = RoundsIn(transcript) \cup {This}
  BY RoundIsNew
<1>4. /\ R \in SUBSET (1..Len(transcript)) /\ IsFiniteSet(R)
      /\ \A i \in R : transcript'[i] = transcript[i]
      /\ st # "cipher_council" => StrategyRequests(transcript') = R
      /\ st = "cipher_council" => StrategyRequests(transcript') = R \cup J
      /\ IsFiniteSet(J) /\ Cardinality(J) = Cardinality(A) /\ \A i \in J : i > Len(transcript)
      /\ \A i \in J : \E a \in A : transcript'[i].id = RequestId(st, This, a)
      /\ \A a \in A : \E i \in J : transcript'[i].id = RequestId(st, This, a)
  BY <1>1, StrategyGrows
<1> HIDE DEF J, R
<1>5. \A i, j \in RowsOf(transcript', "round") : transcript'[i].round = transcript'[j].round => i = j
  <2>1. \A i \in RowsOf(transcript, "round") : transcript'[i].round \in RoundsIn(transcript)
    BY <1>3 DEF RoundsIn
  <2>2. \A i, j \in RowsOf(transcript, "round") : transcript'[i].round = transcript'[j].round => i = j
    BY <1>3 DEF ChannelFits
  <2> QED BY <1>1, <1>3, <2>1, <2>2
<1>6. CASE ~Strategic
  <2>1. st = "deliberation" /\ StrategyRequests(transcript') = R
    BY <1>4, <1>6 DEF OpensRound
  <2>2. {transcript[i].id.round : i \in R} = {}
    BY <1>6 DEF ChannelFits, R
  <2>3. {transcript'[i].id.round : i \in StrategyRequests(transcript')} = {}
    BY <1>4, <2>1, <2>2
  <2> QED BY <1>1, <1>2, <1>5, <1>6, <2>1, <2>3 DEF ChannelFits
<1>7. CASE Strategic
  <2>1. st = "cipher_council" /\ A = Ciphers /\ StrategyRequests(transcript') = R \cup J
    BY <1>4, <1>7 DEF OpensRound
  <2>2. {transcript[i].id.round : i \in R} = RoundsIn(transcript)
    BY <1>7 DEF ChannelFits, R
  <2>3. /\ \A i \in J : transcript'[i].id.round = This /\ transcript'[i].id.actor \in Ciphers
        /\ \A a \in Ciphers : \E i \in J : transcript'[i].id.actor = a
    <3>1. \A a : RequestId(st, This, a).round = This /\ RequestId(st, This, a).actor = a
      BY DEF RequestId
    <3>2. \A i \in J : \E a \in Ciphers : transcript'[i].id = RequestId(st, This, a)
      BY <1>4, <2>1
    <3>3. \A a \in Ciphers : \E i \in J : transcript'[i].id = RequestId(st, This, a)
      BY <1>4, <2>1
    <3>4. \A i \in J : transcript'[i].id.round = This /\ transcript'[i].id.actor \in Ciphers
      BY <3>1, <3>2
    <3>5. \A a \in Ciphers : \E i \in J : transcript'[i].id.actor = a
      BY <3>1, <3>3
    <3> QED BY <3>4, <3>5
  <2>4. \E i \in J : TRUE
    BY <2>3, CouncilAssumption
  <2>5. {transcript'[i].id.round : i \in R \cup J} = RoundsIn(transcript')
    <3>1. {transcript'[i].id.round : i \in R} = RoundsIn(transcript)
      BY <1>4, <2>2
    <3>2. {transcript'[i].id.round : i \in J} = {This}
      BY <2>3, <2>4
    <3>3. {transcript'[i].id.round : i \in R \cup J} =
              {transcript'[i].id.round : i \in R} \cup {transcript'[i].id.round : i \in J}
      OBVIOUS
    <3> QED BY <1>3, <3>1, <3>2, <3>3
  <2>6. \A r : RequestsIn(r) = {i \in R : transcript[i].id.round = r}
    BY DEF RequestsIn, R
  <2>7. \A r : RequestsIn(r)' = {i \in R \cup J : transcript'[i].id.round = r}
    BY <2>1 DEF RequestsIn
  <2>8. \A r : r = This => RequestsIn(r)' = J
    <3>1. \A i \in R : transcript'[i].id.round # This
      BY <1>1, <1>4, <2>2
    <3>2. ASSUME NEW r, r = This PROVE RequestsIn(r)' = J
      <4>1. RequestsIn(r)' = {i \in R \cup J : transcript'[i].id.round = r}
        BY <2>7
      <4>2. \A i \in R \cup J : transcript'[i].id.round = r <=> i \in J
        BY <2>3, <3>1, <3>2
      <4> QED BY <4>1, <4>2
    <3> QED BY <3>2
  <2>9. \A r \in RoundsIn(transcript) : RequestsIn(r)' = RequestsIn(r)
    <3>1. \A i \in J : transcript'[i].id.round \notin RoundsIn(transcript)
      BY <1>1, <2>3
    <3> QED BY <1>4, <2>6, <2>7, <3>1
  <2>10. ASSUME NEW r \in RoundsIn(transcript')
         PROVE  /\ {transcript'[i].id.actor : i \in RequestsIn(r)'} = Ciphers
                /\ Cardinality(RequestsIn(r)') = Cardinality(Ciphers)
    <3>1. CASE r = This
      <4>1. RequestsIn(r)' = J /\ Cardinality(J) = Cardinality(Ciphers)
        BY <1>4, <2>1, <2>8, <3>1
      <4>2. {transcript'[i].id.actor : i \in J} = Ciphers
        BY <2>3
      <4> QED BY <4>1, <4>2
    <3>2. CASE r \in RoundsIn(transcript)
      <4>1. /\ {transcript[i].id.actor : i \in RequestsIn(r)} = Ciphers
            /\ Cardinality(RequestsIn(r)) = Cardinality(Ciphers)
        BY <1>7, <3>2 DEF ChannelFits
      <4>2. \A i \in RequestsIn(r) : transcript'[i] = transcript[i]
        BY <1>4, <2>6
      <4> QED BY <2>9, <3>2, <4>1, <4>2
    <3> QED BY <1>3, <3>1, <3>2
  <2> QED BY <1>1, <1>2, <1>5, <1>7, <2>1, <2>5, <2>10 DEF ChannelFits
<1> QED BY <1>6, <1>7

\* What was said is of a request that is not ahead.
LEMMA SpokenIsPast ==
    ASSUME held = {}, TerminalsFit, ConsumedFit, NEW id, Spoken(id)
    PROVE  id \in Ids /\ ~IsAhead(id) /\ TerminalsOf(transcript, id) # {}
<1>1. PICK i \in RowsOf(transcript, "consumed") : transcript[i].id = id
  BY DEF Spoken, ConsumedOf
<1>2. TerminalsOf(transcript, id) # {}
  BY <1>1 DEF ConsumedFit, Ended
<1>3. PICK t \in RowsOf(transcript, "terminal") : transcript[t].id = id
  BY <1>2 DEF TerminalsOf
<1> QED BY <1>2, <1>3 DEF TerminalsFit

\* Nothing has been said yet in a round that has not started.
LEMMA RoundIsSilent ==
    ASSUME CouncilShape, held = {}, TerminalsFit, ConsumedFit, stage = "round", NEW id, Spoken(id),
           id.stage = "cipher_council"
    PROVE  id.round # This
<1> SUFFICES ASSUME id.round = This PROVE FALSE
  OBVIOUS
<1>1. id \in Ids /\ ~IsAhead(id)
  BY SpokenIsPast
<1>2. id.round[1] = mission /\ id.round[2] = attempt
  BY DEF This
<1>3. StageRank[id.stage] > StageRank[stage]
  BY StageRanks
<1> QED BY <1>1, <1>2, <1>3 DEF IsAhead

\* No message is added, and the channel is not open.
LEMMA MessagesKept ==
    ASSUME CouncilShape, TerminalsFit, ConsumedFit, MessagesFit,
           NEW st, NEW A, NEW h, NEW before, AsksOn(st, A, h, before),
           RowsOf(before, "message") = {}, stage # "cipher_council",
           st = "cipher_council" => stage = "round" /\ RoundKey' = This /\ This' = This
    PROVE  MessagesFit'
<1>1. /\ SameOf(transcript, transcript', "terminal") /\ SameOf(transcript, transcript', "consumed")
      /\ RowsAdded(transcript, before, transcript', "message") /\ stage' = st /\ held = {}
  BY AskSame
<1>2. SameOf(transcript, transcript', "message")
  BY <1>1, NoneAdded
<1>3. /\ \A id : ConsumedOf(transcript', id) = ConsumedOf(transcript, id)
      /\ \A id : Spoken(id)' = Spoken(id)
      /\ \A id : MessagesOf(transcript', id) = MessagesOf(transcript, id)
  BY <1>1, <1>2, SameRowsTellTheSame
<1>4. /\ RowsOf(transcript', "message") = RowsOf(transcript, "message")
      /\ \A m \in RowsOf(transcript, "message") : transcript'[m] = transcript[m]
      /\ RowsOf(transcript', "terminal") = RowsOf(transcript, "terminal")
      /\ \A i \in RowsOf(transcript, "terminal") : transcript'[i] = transcript[i]
      /\ RowsOf(transcript', "consumed") = RowsOf(transcript, "consumed")
      /\ \A i \in RowsOf(transcript, "consumed") : transcript'[i] = transcript[i]
  BY <1>1, <1>2 DEF SameOf
<1>5. \A entry : StrategyId(entry).stage = "cipher_council" /\ StrategyId(entry).round = entry.round
  BY DEF StrategyId, RequestId
<1>6. ASSUME NEW id, Spoken(id), id.stage = "cipher_council" PROVE ~InChannel(id)'
  <2>1. st = "cipher_council" => id.round # This
    BY <1>1, <1>6, RoundIsSilent
  <2> QED BY <1>1, <2>1 DEF InChannel
<1>7. ASSUME NEW m \in RowsOf(transcript, "message")
      PROVE  /\ transcript'[m].to = Ciphers /\ Spoken(StrategyId(transcript[m].entry))'
             /\ ~InChannel(StrategyId(transcript[m].entry))'
             /\ \A i \in RowsOf(transcript, "terminal") :
                   transcript'[i].id.stage = "cipher_council"
                   /\ transcript'[i].id.round = transcript'[m].entry.round => i < m
  <2>1. PICK id : id = StrategyId(transcript[m].entry)
    OBVIOUS
  <2>2. transcript'[m] = transcript[m] /\ transcript[m].to = Ciphers /\ Spoken(id)
    BY <1>4, <2>1 DEF MessagesFit
  <2>3. id.stage = "cipher_council"
    BY <1>5, <2>1
  <2>4. Spoken(id)' /\ ~InChannel(id)'
    BY <1>3, <1>6, <2>2, <2>3
  <2>5. StrategyId(transcript[m].entry)' = id
    BY <2>1, <2>2 DEF StrategyId
  <2>6. Spoken(StrategyId(transcript[m].entry))' /\ ~InChannel(StrategyId(transcript[m].entry))'
    BY <2>4, <2>5
  <2>7. \A i \in RowsOf(transcript, "terminal") :
            transcript[i].id.stage = "cipher_council"
            /\ transcript[i].id.round = transcript[m].entry.round => i < m
    BY DEF MessagesFit
  <2> QED BY <1>4, <2>2, <2>6, <2>7
<1>8. \A m, n \in RowsOf(transcript, "message") :
          StrategyId(transcript'[m].entry) = StrategyId(transcript'[n].entry) => m = n
  BY <1>4 DEF MessagesFit
<1>9. \A i \in RowsOf(transcript, "consumed") :
          transcript'[i].id.stage = "cipher_council" /\ transcript'[i].choice = "message"
          => MessagesOf(transcript', transcript'[i].id) # {}
  BY <1>3, <1>4 DEF MessagesFit, InChannel
<1>10. st = "cipher_council" =>
           \A a \in Ciphers : chosen'[a] # NoChoice <=> Spoken(IdOf(a))'
  <2> SUFFICES ASSUME st = "cipher_council", NEW a \in Ciphers
               PROVE  chosen'[a] = NoChoice /\ ~Spoken(IdOf(a))'
    OBVIOUS
  <2>1. chosen'[a] = NoChoice
    BY CouncilAssumption DEF AsksOn, Ask
  <2>2. PICK id : id = RequestId("cipher_council", This, a)
    OBVIOUS
  <2>3. id.stage = "cipher_council" /\ id.round = This
    BY <2>2 DEF RequestId
  <2>4. ~Spoken(id)
    BY <1>1, <2>3, RoundIsSilent
  <2>5. IdOf(a)' = id
    BY <1>1, <2>2 DEF IdOf
  <2> QED BY <1>3, <2>1, <2>4, <2>5
<1> QED BY <1>1, <1>4, <1>7, <1>8, <1>9, <1>10 DEF MessagesFit

\* What the ciphers said, as it is delivered.
Senders == {a \in Ciphers : chosen[a] # NoChoice}
Entries == [i \in DOMAIN InOrder(Senders) |-> [round |-> RoundKey, actor |-> InOrder(Senders)[i]]]
Events  == [i \in DOMAIN Entries |-> [kind |-> "message", entry |-> Entries[i], to |-> Ciphers]]
Shown == LastOf(history \o Entries, HistoryLimit)

\* Each sender has one message.
LEMMA EventRows ==
    LET k == Cardinality(Senders) IN
    /\ k \in Nat /\ k <= Cardinality(Ciphers) /\ Cardinality(Ciphers) \in Nat
    /\ IsRows(Entries) /\ Len(Entries) = k /\ IsRows(Events) /\ Len(Events) = k
    /\ RowsOf(Events, "message") = 1..k
    /\ \A kind : kind # "message" => RowsOf(Events, kind) = {}
    /\ \A i \in 1..k : /\ Events[i].entry = Entries[i] /\ Events[i].to = Ciphers
                       /\ Entries[i].round = RoundKey /\ Entries[i].actor \in Senders
    /\ \A i, j \in 1..k : Entries[i].actor = Entries[j].actor => i = j
    /\ \A a \in Senders : \E i \in 1..k : Entries[i].actor = a
<1> DEFINE k == Cardinality(Senders)
           s == InOrder(Senders)
<1>1. Senders \in SUBSET Ciphers /\ Ciphers \subseteq Actors
  BY CouncilAssumption DEF Senders
<1>2. /\ k \in Nat /\ DOMAIN s = 1..k
      /\ \A i \in 1..k : s[i] \in Senders
      /\ \A i \in 1..k, j \in 1..k : s[i] = s[j] => i = j
      /\ \A a \in Senders : \E i \in 1..k : s[i] = a
  BY <1>1, InOrderIsAll
<1>3. k <= Cardinality(Ciphers) /\ Cardinality(Ciphers) \in Nat
  <2>1. IsFiniteSet(Ciphers) /\ Cardinality(Ciphers) \in Nat
    BY <1>1, InOrderIsAll
  <2> QED BY <1>1, <2>1, FS_Subset
<1> HIDE DEF s, k
<1>4. Entries = [i \in 1..k |-> [round |-> RoundKey, actor |-> s[i]]]
  BY <1>2 DEF Entries, s
<1>5. IsRows(Entries) /\ Len(Entries) = k /\ DOMAIN Entries = 1..k
  BY <1>2, <1>4, MappedAreRows
<1>6. Events = [i \in 1..k |-> [kind |-> "message", entry |-> Entries[i], to |-> Ciphers]]
  BY <1>5 DEF Events
<1>7. IsRows(Events) /\ Len(Events) = k /\ DOMAIN Events = 1..k
  BY <1>2, <1>6, MappedAreRows
<1>8. \A i \in 1..k : /\ Entries[i].round = RoundKey /\ Entries[i].actor = s[i]
                      /\ Events[i].kind = "message" /\ Events[i].entry = Entries[i] /\ Events[i].to = Ciphers
  BY <1>4, <1>6
<1>9. RowsOf(Events, "message") = 1..k /\ \A kind : kind # "message" => RowsOf(Events, kind) = {}
  BY <1>7, <1>8 DEF RowsOf
<1> QED BY <1>2, <1>3, <1>5, <1>7, <1>8, <1>9 DEF k

\* Who speaks in the channel is a cipher, in a round that was opened.
LEMMA SpeakersAreCiphers ==
    ASSUME RequestsFit, ChannelFits, ConsumedFit, NEW id, ConsumedOf(transcript, id) # {},
           id.stage = "cipher_council"
    PROVE  id.actor \in Ciphers /\ id.round \in RoundsIn(transcript)
<1>1. PICK i \in RowsOf(transcript, "consumed") : transcript[i].id = id
  BY DEF ConsumedOf
<1>2. Ended(id)
  BY <1>1 DEF ConsumedFit
<1>3. (\E t \in RowsOf(transcript, "terminal") : transcript[t].id = id) \/ \E b \in held : id = IdOf(b)
  BY <1>2 DEF Ended, TerminalsOf
<1>4. PICK j \in RowsOf(transcript, "request") : transcript[j].id = id
  BY <1>3 DEF RequestsFit
<1>5. j \in StrategyRequests(transcript) /\ j \in RequestsIn(id.round)
  BY <1>4 DEF StrategyRequests, RequestsIn
<1>6. id.round \in IF Strategic THEN RoundsIn(transcript) ELSE {}
  BY <1>4, <1>5 DEF ChannelFits
<1>7. Strategic /\ id.round \in RoundsIn(transcript)
  BY <1>6
<1>8. {transcript[i2].id.actor : i2 \in RequestsIn(id.round)} = Ciphers
  BY <1>7 DEF ChannelFits
<1> QED BY <1>4, <1>5, <1>7, <1>8

\* The messages of the round are delivered.
LEMMA MessagesDelivered ==
    ASSUME CouncilShape, TerminalsFit, RequestsFit, ConsumedFit, ChannelFits, MessagesFit,
           stage = "cipher_council", NEW st, NEW A, AsksOn(st, A, Shown, Events), st = "deliberation"
    PROVE  MessagesFit'
<1> DEFINE k == Cardinality(Senders)
           low == Len(transcript)
           old == RowsOf(transcript, "message")
           new == {low + i : i \in 1..k}
           now(a) == RequestId("cipher_council", This, a)
<1>1. /\ SameOf(transcript, transcript', "terminal") /\ SameOf(transcript, transcript', "consumed")
      /\ RowsAdded(transcript, Events, transcript', "message") /\ stage' = st /\ held = {}
  BY AskSame
<1>2. /\ k \in Nat /\ RowsOf(Events, "message") = 1..k
      /\ \A i \in 1..k : /\ Events[i].entry = Entries[i] /\ Events[i].to = Ciphers
                         /\ Entries[i].round = This /\ Entries[i].actor \in Senders
      /\ \A i, j \in 1..k : Entries[i].actor = Entries[j].actor => i = j
      /\ \A a \in Senders : \E i \in 1..k : Entries[i].actor = a
  <2>1. RoundKey = This
    BY DEF RoundKey, This
  <2> QED BY <2>1, EventRows
<1>3. low \in Nat /\ old \subseteq 1..low /\ RowsOf(transcript, "terminal") \subseteq 1..low
  BY RowPlaces DEF CouncilShape
<1> HIDE DEF k, low
<1>4. /\ RowsOf(transcript', "message") = old \cup new
      /\ \A m \in old : transcript'[m] = transcript[m]
      /\ \A i \in 1..k : transcript'[low + i] = Events[i]
  BY <1>1, <1>2 DEF RowsAdded, low
<1> HIDE DEF new, old
<1>5. /\ \A id : Spoken(id)' = Spoken(id)
      /\ RowsOf(transcript', "terminal") = RowsOf(transcript, "terminal")
      /\ \A i \in RowsOf(transcript, "terminal") : transcript'[i] = transcript[i]
      /\ RowsOf(transcript', "consumed") = RowsOf(transcript, "consumed")
      /\ \A i \in RowsOf(transcript, "consumed") : transcript'[i] = transcript[i]
  BY <1>1, SameRowsTellTheSame DEF SameOf
<1>6. \A id : ~InChannel(id)'
  BY <1>1 DEF InChannel
<1>7. /\ \A a : now(a).stage = "cipher_council" /\ now(a).round = This /\ now(a).actor = a
      /\ \A entry : /\ StrategyId(entry).stage = "cipher_council"
                    /\ StrategyId(entry).round = entry.round /\ StrategyId(entry).actor = entry.actor
      /\ \A a \in Senders : Spoken(now(a)) /\ a \in Ciphers
  <2>1. \A a : IdOf(a) = now(a)
    BY DEF IdOf, RoundKey, This
  <2> QED BY <2>1 DEF StrategyId, RequestId, MessagesFit, Senders
<1>8. \A m \in old : /\ transcript[m].entry.round # This /\ transcript[m].to = Ciphers
                     /\ Spoken(StrategyId(transcript[m].entry))
  BY <1>7 DEF MessagesFit, InChannel, old
<1>9. ASSUME NEW i \in 1..k
      PROVE  /\ transcript'[low + i].to = Ciphers /\ transcript'[low + i].entry = Entries[i]
             /\ Spoken(StrategyId(Entries[i]))
             /\ StrategyId(Entries[i]) = now(Entries[i].actor)
  <2>1. transcript'[low + i] = Events[i] /\ Events[i].entry = Entries[i] /\ Events[i].to = Ciphers
    BY <1>2, <1>4
  <2>2. StrategyId(Entries[i]) = now(Entries[i].actor)
    BY <1>2 DEF StrategyId
  <2>3. Spoken(StrategyId(Entries[i]))
    BY <1>2, <1>7, <2>2
  <2> QED BY <2>1, <2>2, <2>3
<1>10. ASSUME NEW m \in old \cup new
       PROVE  /\ transcript'[m].to = Ciphers
              /\ \E id : id = StrategyId(transcript'[m].entry) /\ Spoken(id)
              /\ \A i \in RowsOf(transcript, "terminal") :
                    transcript[i].id.stage = "cipher_council"
                    /\ transcript[i].id.round = transcript'[m].entry.round => i < m
  <2>1. CASE m \in old
    BY <1>4, <1>8, <2>1 DEF MessagesFit, old
  <2>2. CASE m \in new
    <3>1. PICK i \in 1..k : m = low + i
      BY <2>2 DEF new
    <3>2. \A t \in 1..low : t < m
      BY <1>2, <1>3, <3>1
    <3> QED BY <1>3, <1>9, <3>1, <3>2
  <2> QED BY <2>1, <2>2
<1>11. ASSUME NEW m \in old \cup new, NEW n \in old \cup new,
              StrategyId(transcript'[m].entry) = StrategyId(transcript'[n].entry)
       PROVE  m = n
  <2>1. /\ transcript'[m].entry.round = transcript'[n].entry.round
        /\ transcript'[m].entry.actor = transcript'[n].entry.actor
    BY <1>7, <1>11
  <2>2. \A p \in old : transcript'[p].entry.round # This
    BY <1>4, <1>8
  <2>3. \A p \in new : transcript'[p].entry.round = This
    BY <1>2, <1>9 DEF new
  <2>4. CASE m \in old /\ n \in old
    BY <1>4, <1>11, <2>4 DEF MessagesFit, old
  <2>5. CASE m \in new /\ n \in new
    <3>1. PICK i \in 1..k : m = low + i
      BY <2>5 DEF new
    <3>2. PICK j \in 1..k : n = low + j
      BY <2>5 DEF new
    <3>3. Entries[i].actor = Entries[j].actor
      BY <1>9, <2>1, <3>1, <3>2
    <3> QED BY <1>2, <3>1, <3>2, <3>3
  <2> QED BY <2>1, <2>2, <2>3, <2>4, <2>5
<1>12. ASSUME NEW i \in RowsOf(transcript, "consumed"),
              transcript[i].id.stage = "cipher_council", transcript[i].choice = "message"
       PROVE  MessagesOf(transcript', transcript[i].id) # {}
  <2> DEFINE id == transcript[i].id
  <2>1. CASE InChannel(id)
    <3>1. id.round = This /\ ConsumedOf(transcript, id) # {} /\ Spoken(id)
      BY <1>12, <2>1 DEF InChannel, ConsumedOf, Spoken
    <3>2. id.actor \in Ciphers /\ id \in Ids
      BY <1>1, <1>12, <3>1, SpeakersAreCiphers, SpokenIsPast
    <3>3. id = now(id.actor)
      BY <1>12, <3>1, <3>2 DEF Ids, RequestId
    <3>4. id.actor \in Senders
      <4>1. IdOf(id.actor) = now(id.actor)
        BY DEF IdOf, RoundKey, This
      <4> QED BY <3>1, <3>2, <3>3, <4>1 DEF MessagesFit, Senders
    <3>5. PICK j \in 1..k : Entries[j].actor = id.actor
      BY <1>2, <3>4
    <3>6. low + j \in RowsOf(transcript', "message") /\ transcript'[low + j].entry = Entries[j]
      BY <1>4, <1>9 DEF new
    <3> QED BY <1>2, <3>1, <3>5, <3>6 DEF MessagesOf, MessageIsFor
  <2>2. CASE ~InChannel(id)
    <3>1. MessagesOf(transcript, id) # {}
      BY <1>12, <2>2 DEF MessagesFit
    <3> QED BY <1>4, <3>1 DEF MessagesOf, MessageIsFor, old
  <2> QED BY <2>1, <2>2
<1>13. \A m \in old \cup new : Spoken(StrategyId(transcript[m].entry))'
  <2> TAKE m \in old \cup new
  <2>1. PICK id : id = StrategyId(transcript'[m].entry) /\ Spoken(id)
    BY <1>10
  <2>2. StrategyId(transcript[m].entry)' = id
    BY <2>1 DEF StrategyId
  <2>3. Spoken(id)'
    BY <1>5, <2>1
  <2> QED BY <2>2, <2>3
<1> QED BY <1>1, <1>4, <1>5, <1>6, <1>10, <1>11, <1>12, <1>13 DEF MessagesFit

\* What was delivered is the same wherever nothing is delivered behind it.
LEMMA DeliveredBehind ==
    ASSUME IsRows(transcript), NEW before, RowsAdded(transcript, before, transcript', "message"),
           NEW k \in Nat, RowsOf(before, "message") = 1..k,
           NEW i \in Nat, i > Len(transcript) + k, NEW j \in Nat, j > Len(transcript) + k
    PROVE  DeliveredBefore(transcript', i) = DeliveredBefore(transcript', j)
<1> DEFINE d == DeliveredBefore(transcript', i)
           e == DeliveredBefore(transcript', j)
           n == Len(Delivered)
<1>1. /\ IsRows(d) /\ n \in Nat /\ Len(d) = n + k
      /\ \A m \in 1..n : d[m] = Delivered[m]
      /\ \A m \in 1..k : d[n + m] = before[m].entry
  BY DeliveredGrows
<1>2. /\ IsRows(e) /\ Len(e) = n + k
      /\ \A m \in 1..n : e[m] = Delivered[m]
      /\ \A m \in 1..k : e[n + m] = before[m].entry
  BY DeliveredGrows
<1> HIDE DEF d, e, n
<1>3. \A m \in 1..(n + k) : d[m] = e[m]
  <2> TAKE m \in 1..(n + k)
  <2>1. CASE m <= n
    <3>1. m \in 1..n
      BY <1>1, <2>1
    <3> QED BY <1>1, <1>2, <3>1
  <2>2. CASE ~(m <= n)
    <3>1. m - n \in 1..k /\ n + (m - n) = m
      BY <1>1, <2>2
    <3> DEFINE p == m - n
    <3> HIDE DEF p
    <3>2. p \in 1..k /\ n + p = m
      BY <3>1 DEF p
    <3> QED BY <1>1, <1>2, <3>2
  <2> QED BY <2>1, <2>2
<1>4. d = [m \in 1..(n + k) |-> d[m]] /\ e = [m \in 1..(n + k) |-> e[m]]
  BY <1>1, <1>2 DEF IsRows
<1> QED BY <1>3, <1>4 DEF d, e

\* An actor that is asked is shown the history, and a cipher none of its round.
LEMMA SeenKept ==
    ASSUME CouncilShape, SeenFits, NEW st, NEW A, NEW h, NEW before, AsksOn(st, A, h, before),
           NEW k \in Nat, RowsOf(before, "message") = 1..k, k <= Len(before),
           IsSuffix(history', Delivered'),
           st = "cipher_council" => \A j \in DOMAIN h : h[j].round # RoundKey'
    PROVE  SeenFits'
<1> DEFINE low == Len(transcript)
           J == AskedAt(Before(before), A)
<1>1. /\ RowsAdded(transcript, before, transcript', "message") /\ IsRows(transcript')
      /\ AskedRows(st, RoundKey', A, h, Before(before))
      /\ Len(transcript) \in Nat /\ Len(before) \in Nat /\ Cardinality(A) \in Nat
      /\ Len(transcript') = Before(before) + Cardinality(A)
  BY AskSame
<1>2. h = history' /\ setup' = setup /\ A \subseteq Actors /\ IsRows(transcript) /\ IsRows(before)
  BY DEF AsksOn, CouncilShape
<1>3. Before(before) = low + Len(before)
  BY DEF Before
<1>4. \A i \in J : i \in Nat /\ i > low + k
  BY <1>1, <1>3 DEF AskedAt
<1>5. Len(transcript') + 1 \in Nat /\ Len(transcript') + 1 > low + k
  BY <1>1, <1>3
<1> HIDE DEF low, J
<1>6. \A i \in J : DeliveredBefore(transcript', i) = Delivered'
  <2> TAKE i \in J
  <2> DEFINE top == Len(transcript') + 1
  <2>1. i \in Nat /\ i > low + k /\ top \in Nat /\ top > low + k
    BY <1>4, <1>5
  <2>2. Delivered' = DeliveredBefore(transcript', top)
    BY DEF Delivered
  <2> HIDE DEF top
  <2>3. DeliveredBefore(transcript', i) = DeliveredBefore(transcript', top)
    BY <1>1, <1>2, <2>1, DeliveredBehind DEF low
  <2> QED BY <2>2, <2>3
<1>7. \A i \in RowsOf(transcript, "request") :
          DeliveredBefore(transcript', i) = DeliveredBefore(transcript, i)
  <2> TAKE i \in RowsOf(transcript, "request")
  <2>1. i \in 1..Len(transcript)
    BY <1>2, RowPlaces
  <2>2. i \in Nat /\ i <= Len(transcript) + 1
    BY <1>1, <2>1
  <2> QED BY <1>1, <1>2, <2>2, DeliveredKept
<1>8. ASSUME setup.strategic, NEW i \in RowsOf(transcript, "request")
      PROVE  Observes(i)'
  <2>1. Observes(i) /\ transcript'[i] = transcript[i]
        /\ DeliveredBefore(transcript', i) = DeliveredBefore(transcript, i)
    BY <1>1, <1>7, <1>8 DEF SeenFits, AskedRows
  <2> QED BY <2>1 DEF Observes
<1>9. ASSUME setup.strategic, NEW i \in J PROVE Observes(i)'
  <2>1. PICK a \in A : transcript'[i] = RequestRow(st, RoundKey', a, h)
    BY <1>1 DEF AskedRows, J
  <2>2. transcript'[i].id.actor = a /\ transcript'[i].id.stage = st /\ transcript'[i].id.round = RoundKey'
        /\ transcript'[i].seen = Seen(a, h)
    BY <2>1 DEF RequestRow, RequestId
  <2>3. CASE a \notin Ciphers
    BY <2>2, <2>3 DEF Observes, Seen
  <2>4. CASE a \in Ciphers
    <3>1. transcript'[i].seen = {h}
      BY <1>9, <2>2, <2>4 DEF Seen
    <3>2. Messages({h}) = h
      BY DEF Messages
    <3>3. IsSuffix(h, DeliveredBefore(transcript', i))
      BY <1>2, <1>6
    <3>4. {h} # NoMessages
      BY DEF NoMessages
    <3> QED BY <2>2, <2>4, <3>1, <3>2, <3>3, <3>4 DEF Observes
  <2> QED BY <2>3, <2>4
<1>10. RowsOf(transcript', "request") = RowsOf(transcript, "request") \cup J
  BY <1>1 DEF AskedRows, J
<1> QED BY <1>2, <1>8, <1>9, <1>10 DEF SeenFits

\* Nothing is delivered: the history is what it was.
LEMMA HistoryKept ==
    ASSUME CouncilShape, SeenFits, UNCHANGED history, NEW before, IsRows(before),
           RowsAdded(transcript, before, transcript', "message"), RowsOf(before, "message") = {},
           Len(transcript') >= Len(transcript)
    PROVE  IsSuffix(history', Delivered')
<1>1. IsRows(transcript) /\ IsRows(transcript')
  BY DEF CouncilShape, RowsAdded
<1> DEFINE top == Len(transcript') + 1
<1>2. top \in Nat /\ top > Len(transcript)
  BY <1>1, RowsAreMapped
<1>3. Delivered' = DeliveredBefore(transcript', top)
  BY DEF Delivered
<1> HIDE DEF top
<1>4. DeliveredBefore(transcript', top) = Delivered
  BY <1>1, <1>2, DeliveredSame
<1> QED BY <1>3, <1>4 DEF SeenFits

\* The messages are delivered, and shown at the end of the history.
LEMMA HistoryGrows ==
    ASSUME CouncilShape, SeenFits, IsRows(history), history' = Shown,
           RowsAdded(transcript, Events, transcript', "message"),
           Len(transcript') >= Len(transcript) + Len(Events)
    PROVE  IsSuffix(history', Delivered') /\ IsRows(history') /\ Len(history') <= HistoryLimit
<1> DEFINE top == Len(transcript') + 1
           k == Cardinality(Senders)
           t == DeliveredBefore(transcript', top)
<1>1. IsRows(transcript) /\ IsRows(transcript')
  BY DEF CouncilShape, RowsAdded
<1>2. /\ k \in Nat /\ IsRows(Entries) /\ Len(Entries) = k /\ Len(Events) = k
      /\ RowsOf(Events, "message") = 1..k /\ \A i \in 1..k : Events[i].entry = Entries[i]
  BY EventRows
<1>3. top \in Nat /\ top > Len(transcript) + k
  BY <1>1, <1>2, RowsAreMapped
<1>4. Delivered' = t
  BY DEF Delivered
<1> HIDE DEF top, k
<1>5. /\ IsRows(t) /\ IsRows(Delivered) /\ Len(t) = Len(Delivered) + k
      /\ \A j \in 1..Len(Delivered) : t[j] = Delivered[j]
      /\ \A j \in 1..k : t[Len(Delivered) + j] = Events[j].entry
  BY <1>1, <1>2, <1>3, DeliveredGrows
<1> HIDE DEF t
<1>6. /\ IsSuffix(history, Delivered) /\ Len(t) = Len(Delivered) + Len(Entries)
      /\ \A j \in 1..Len(Entries) : t[Len(Delivered) + j] = Entries[j]
  BY <1>2, <1>5 DEF SeenFits
<1>7. HistoryLimit \in Nat
  BY CouncilAssumption
<1>8. IsRows(Shown) /\ Len(Shown) <= HistoryLimit /\ IsSuffix(Shown, t)
  BY <1>2, <1>5, <1>6, <1>7, SuffixGrows DEF Shown
<1> QED BY <1>4, <1>8

\* The rounds are finitely many.
LEMMA RoundsAreFinite ==
    ASSUME IsRows(transcript)
    PROVE  IsFiniteSet(RoundsIn(transcript)) /\ Cardinality(RoundsIn(transcript)) \in Nat
<1> DEFINE I == RowsOf(transcript, "round")
           f == [i \in I |-> transcript[i].round]
<1>1. IsFiniteSet(I)
  BY RowPlaces
<1>2. RoundsIn(transcript) = {f[i] : i \in I}
  BY DEF RoundsIn
<1> HIDE DEF I
<1>3. f \in Surjection(I, RoundsIn(transcript))
  BY <1>2 DEF Surjection
<1>4. IsFiniteSet(RoundsIn(transcript))
  BY <1>1, <1>3, FS_Surjection
<1> QED BY <1>4, FS_CardinalityType

\* The counters that the evidence tells of.
SameCounts ==
    /\ count'.rounds = count.rounds /\ count'.requests = count.requests
    /\ count'.messages = count.messages /\ count'.absent = count.absent
LEMMA CountsKept ==
    ASSUME CouncilShape, CountsFit, NEW st, NEW A, NEW h, NEW before, AsksOn(st, A, h, before),
           SameCounts, st # "cipher_council", stage # "cipher_council",
           RowsOf(before, "round") = {}, RowsOf(before, "message") = {}
    PROVE  CountsFit'
<1>1. stage' = st /\ Strategic' = Strategic /\ RowsAdded(transcript, before, transcript', "round")
      /\ RowsAdded(transcript, before, transcript', "message")
  BY AskSame DEF AsksOn, Strategic
<1>2. SameOf(transcript, transcript', "round") /\ SameOf(transcript, transcript', "message")
  BY <1>1, NoneAdded
<1>3. RoundsIn(transcript') = RoundsIn(transcript)
  BY <1>2, SameProposals
<1>4. RowsOf(transcript', "message") = RowsOf(transcript, "message")
  BY <1>2 DEF SameOf
<1>5. StrategyRequests(transcript') = StrategyRequests(transcript)
  BY StrategyGrows
<1>6. Open' = Open
  BY <1>1 DEF Open
<1> QED BY <1>1, <1>3, <1>4, <1>5, <1>6 DEF CountsFit, SameCounts

\* A round of the channel and its requests are counted.
LEMMA CountsOpen ==
    ASSUME CouncilShape, CountsFit, NEW st, NEW A, NEW h, OpensRound(st, A, h),
           count'.messages = count.messages, count'.absent = count.absent,
           IF Strategic THEN /\ count'.rounds = count.rounds + 1
                             /\ count'.requests = count.requests + Cardinality(Ciphers)
                        ELSE count'.rounds = count.rounds /\ count'.requests = count.requests
    PROVE  CountsFit'
<1> DEFINE R == StrategyRequests(transcript)
           J == AskedAt(Before(RoundStart), A)
           c == Cardinality(Ciphers)
<1>1. AsksOn(st, A, h, RoundStart) /\ Strategic' = Strategic /\ stage = "round"
      /\ This \notin RoundsIn(transcript)
  BY DEF OpensRound, AsksOn, Strategic
<1>2. stage' = st /\ RowsAdded(transcript, RoundStart, transcript', "message")
  BY <1>1, AskSame
<1>3. RowsOf(transcript', "message") = RowsOf(transcript, "message")
  <2>1. SameOf(transcript, transcript', "message")
    BY <1>2, RoundIsNew, NoneAdded
  <2> QED BY <2>1 DEF SameOf
<1>4. /\ R \in SUBSET (1..Len(transcript)) /\ IsFiniteSet(R)
      /\ st # "cipher_council" => StrategyRequests(transcript') = R
      /\ st = "cipher_council" => StrategyRequests(transcript') = R \cup J
      /\ IsFiniteSet(J) /\ Cardinality(J) = Cardinality(A) /\ \A i \in J : i > Len(transcript)
  BY <1>1, StrategyGrows
<1>5. Len(transcript) \in Nat
  BY RowsAreMapped DEF CouncilShape
<1>6. IsFiniteSet(RoundsIn(transcript)) /\ Cardinality(RoundsIn(transcript)) \in Nat
      /\ RoundsIn(transcript') = RoundsIn(transcript) \cup {This}
  BY RoundsAreFinite, RoundIsNew DEF CouncilShape
<1>7. Cardinality(RoundsIn(transcript')) = Cardinality(RoundsIn(transcript)) + 1
  BY <1>1, <1>6, FS_AddElement
<1>8. c \in Nat
  BY CouncilAssumption, InOrderIsAll
<1>9. /\ count.rounds \in Nat /\ count.requests \in Nat /\ count.messages \in Nat /\ count.absent \in Nat
      /\ count.rounds = IF Strategic THEN Cardinality(RoundsIn(transcript)) ELSE 0
      /\ count.requests = Cardinality(R)
      /\ count.messages = Cardinality(RowsOf(transcript, "message"))
      /\ count.requests = count.rounds * c
      /\ count.messages + count.absent + 0 = count.requests
  BY <1>1 DEF CountsFit, Open
<1> HIDE DEF R, J
<1>10. CASE Strategic
  <2>1. st = "cipher_council" /\ A = Ciphers
    BY <1>10 DEF OpensRound
  <2>2. Cardinality(R \cup J) = Cardinality(R) + c
    <3>1. R \cap J = {}
      BY <1>4, <1>5
    <3>2. Cardinality(R \cap J) = 0
      BY <3>1, FS_EmptySet
    <3>3. Cardinality(R \cup J) = Cardinality(R) + Cardinality(J) - Cardinality(R \cap J)
      BY <1>4, FS_Union
    <3>4. Cardinality(R) \in Nat /\ Cardinality(J) = c
      BY <1>9, <1>4, <2>1
    <3> QED BY <1>8, <3>2, <3>3, <3>4
  <2>3. Cardinality(StrategyRequests(transcript')) = count'.requests
    BY <1>4, <1>9, <1>10, <2>1, <2>2
  <2>4. Open' = c
    BY <1>2, <2>1 DEF Open
  <2> HIDE DEF c
  <2>5. count'.requests = count'.rounds * c
    <3>1. (count.rounds + 1) * c = count.rounds * c + c
      BY <1>8, <1>9
    <3> QED BY <1>9, <1>10, <3>1 DEF c
  <2>6. count'.messages + count'.absent + Open' = count'.requests
    BY <1>8, <1>9, <1>10, <2>4 DEF c
  <2>7. count'.rounds = Cardinality(RoundsIn(transcript'))
    BY <1>7, <1>9, <1>10
  <2>8. count'.rounds \in Nat /\ count'.requests \in Nat /\ count'.messages \in Nat /\ count'.absent \in Nat
    BY <1>8, <1>9, <1>10 DEF c
  <2> QED BY <1>1, <1>3, <1>9, <1>10, <2>3, <2>5, <2>6, <2>7, <2>8 DEF CountsFit, c
<1>11. CASE ~Strategic
  <2>1. st = "deliberation" /\ StrategyRequests(transcript') = R
    BY <1>4, <1>11 DEF OpensRound
  <2>2. Open' = 0
    BY <1>2, <2>1 DEF Open
  <2> QED BY <1>1, <1>3, <1>9, <1>11, <2>1, <2>2 DEF CountsFit
<1> QED BY <1>10, <1>11

\* Every cipher that was asked has sent a message, or is absent.
LEMMA CountsDelivered ==
    ASSUME CouncilShape, CountsFit, stage = "cipher_council",
           NEW st, NEW A, AsksOn(st, A, Shown, Events), st = "deliberation",
           count'.rounds = count.rounds, count'.requests = count.requests,
           count'.messages = count.messages + Len(InOrder(Senders)),
           count'.absent = count.absent + Absent(Len(InOrder(Senders)))
    PROVE  CountsFit'
<1> DEFINE k == Cardinality(Senders)
           c == Cardinality(Ciphers)
           M == RowsOf(transcript, "message")
           new == (Len(transcript) + 1)..(Len(transcript) + k)
<1>1. stage' = st /\ Strategic' = Strategic /\ RowsAdded(transcript, Events, transcript', "round")
      /\ RowsAdded(transcript, Events, transcript', "message")
  BY AskSame DEF AsksOn, Strategic
<1>2. /\ k \in Nat /\ k <= c /\ c \in Nat /\ RowsOf(Events, "message") = 1..k
      /\ \A kind : kind # "message" => RowsOf(Events, kind) = {}
  BY EventRows
<1>3. Len(InOrder(Senders)) = k
  <2>1. Senders \subseteq Actors
    BY CouncilAssumption DEF Senders
  <2> QED BY <2>1, InOrderIsAll
<1>4. M \subseteq 1..Len(transcript) /\ IsFiniteSet(M) /\ Cardinality(M) \in Nat /\ Len(transcript) \in Nat
  BY RowPlaces DEF CouncilShape
<1> HIDE DEF k, c, M
<1>5. RoundsIn(transcript') = RoundsIn(transcript)
  <2>1. "round" # "message"
    OBVIOUS
  <2>2. SameOf(transcript, transcript', "round")
    BY <1>1, <1>2, <2>1, NoneAdded
  <2> QED BY <2>2, SameProposals
<1>6. StrategyRequests(transcript') = StrategyRequests(transcript)
  BY StrategyGrows
<1>7. {Len(transcript) + i : i \in 1..k} = new
  <2>1. \A i \in 1..k : Len(transcript) + i \in new
    BY <1>2, <1>4
  <2>2. \A m \in new : \E i \in 1..k : m = Len(transcript) + i
    <3> TAKE m \in new
    <3>1. m - Len(transcript) \in 1..k /\ m = Len(transcript) + (m - Len(transcript))
      BY <1>2, <1>4
    <3> QED BY <3>1
  <2> QED BY <2>1, <2>2
<1>8. RowsOf(transcript', "message") = M \cup new
  BY <1>1, <1>2, <1>7 DEF RowsAdded, M
<1>9. IsFiniteSet(new) /\ Cardinality(new) = k
  <2> DEFINE low == Len(transcript)
  <2>1. low \in Nat /\ k \in Nat /\ new = (low + 1)..(low + k)
    BY <1>2, <1>4
  <2> HIDE DEF low, new
  <2> QED BY <2>1, NthOfInterval
<1>10. M \cap new = {}
  BY <1>2, <1>4
<1> HIDE DEF new
<1>11. Cardinality(M \cup new) = Cardinality(M) + k
  <2>1. Cardinality(M \cap new) = 0
    BY <1>10, FS_EmptySet
  <2>2. Cardinality(M \cup new) = Cardinality(M) + Cardinality(new) - Cardinality(M \cap new)
    BY <1>4, <1>9, FS_Union
  <2> QED BY <1>2, <1>4, <1>9, <2>1, <2>2
<1>12. /\ count.rounds \in Nat /\ count.requests \in Nat /\ count.messages \in Nat /\ count.absent \in Nat
       /\ count.rounds = IF Strategic THEN Cardinality(RoundsIn(transcript)) ELSE 0
       /\ count.requests = Cardinality(StrategyRequests(transcript))
       /\ count.messages = Cardinality(M)
       /\ count.requests = count.rounds * Cardinality(Ciphers)
       /\ count.messages + count.absent + c = count.requests
  BY DEF CountsFit, Open, M, c
<1>13. Open' = 0
  BY <1>1 DEF Open
<1>14. count'.messages = count.messages + k /\ count'.absent = count.absent + (c - k)
  BY <1>3 DEF Absent, c
<1>15. count'.messages \in Nat /\ count'.absent \in Nat
       /\ count'.messages + count'.absent + 0 = count'.requests
  <2> DEFINE messages == count.messages
             absent == count.absent
             requests == count.requests
  <2>1. messages \in Nat /\ absent \in Nat /\ requests \in Nat /\ messages + absent + c = requests
    BY <1>12
  <2>2. count'.messages = messages + k /\ count'.absent = absent + (c - k) /\ count'.requests = requests
    BY <1>14
  <2>3. k \in Nat /\ c \in Nat /\ k <= c
    BY <1>2
  <2> HIDE DEF messages, absent, requests
  <2>4. messages + k \in Nat /\ absent + (c - k) \in Nat
        /\ (messages + k) + (absent + (c - k)) + 0 = requests
    BY <2>1, <2>3
  <2> QED BY <2>2, <2>4
<1>16. count'.messages = Cardinality(RowsOf(transcript', "message"))
  BY <1>8, <1>11, <1>12, <1>14
<1> QED BY <1>1, <1>5, <1>6, <1>12, <1>13, <1>15, <1>16 DEF CountsFit

\* The roles stay where they are.
LEMMA RolesKept ==
    ASSUME RolesFit, SameOf(transcript, transcript', "role")
    PROVE  RolesFit'
BY DEF RolesFit, SameOf

-----------------------------------------------------------------------------
(* The steps of the environment.                                            *)

\* The parts have their shape when somebody is asked.
LEMMA AskShape ==
    ASSUME RecordShape, CouncilShape', status' = "running",
           NEW st, NEW A, NEW h, NEW before, AsksOn(st, A, h, before), IsAsked(st, A),
           IsRows(history'), Len(history') <= HistoryLimit
    PROVE  RecordShape'
<1>1. /\ stage' = st /\ asked' = A /\ held' = {} /\ st \in CouncilStages /\ memory' = memory
      /\ tries' = [a \in Actors |-> IF a \in A THEN 1 ELSE 0]
      /\ turn' = IF st \in {"deliberation", "vote"}
                 THEN CHOOSE i \in DOMAIN Order : {Order[i]} = A ELSE 0
  BY DEF AsksOn, Ask
<1>2. tries' \in [Actors -> 0..MaxAttempts]
  <2>1. MaxAttempts \in Nat /\ MaxAttempts >= 1
    BY CouncilAssumption
  <2>2. 0 \in 0..MaxAttempts /\ 1 \in 0..MaxAttempts
    BY <2>1
  <2> QED BY <1>1, <2>2
<1>3. Players \in Nat
  BY CouncilCounts
<1>4. turn' <= Players /\ (st \in {"deliberation", "vote"} =>
                              turn' \in 1..Players /\ A \subseteq {Order[turn']})
  <2>1. CASE st \in {"deliberation", "vote"}
    <3>1. PICK i \in 1..Players : A = {Order[i]}
      BY <2>1 DEF IsAsked
    <3>2. turn' = i
      BY <1>1, <2>1, <3>1, OnePlace
    <3> QED BY <1>3, <3>1, <3>2
  <2>2. CASE st \notin {"deliberation", "vote"}
    BY <1>1, <1>3, <2>2
  <2> QED BY <2>1, <2>2
<1>5. st # "round"
  BY <1>1 DEF CouncilStages
<1> QED BY <1>1, <1>2, <1>4, <1>5 DEF RecordShape

\* The next actors are asked in a later stage, or in turn.
LEMMA AskedFits ==
    ASSUME RecordsFit, CouncilShape', status' = "running", NEW st, NEW A,
           AsksOn(st, A, history, <<>>), IsAsked(st, A), UNCHANGED <<history, count>>,
           stage # "cipher_council", st # "cipher_council"
    PROVE  RecordsFit'
<1> DEFINE none == <<>>
<1>1. IsRows(none) /\ \A kind : RowsOf(none, kind) = {}
  BY OneRow
<1>2. AsksOn(st, A, history, none) /\ RecordShape /\ CouncilShape
  BY DEF RecordsFit, RecordShape
<1> HIDE DEF none
<1>3. /\ SameOf(transcript, transcript', "role") /\ SameOf(transcript, transcript', "terminal")
      /\ SameOf(transcript, transcript', "consumed")
      /\ RowsAdded(transcript, none, transcript', "message")
      /\ Len(transcript) \in Nat /\ Len(none) \in Nat /\ Cardinality(A) \in Nat
      /\ Len(transcript') = Before(none) + Cardinality(A)
  BY <1>2, AskSame
<1>4. Len(transcript') >= Len(transcript)
  BY <1>3 DEF Before
<1>5. RecordShape'
  BY <1>2, AskShape DEF RecordShape
<1>6. TerminalsFit' /\ RequestsFit' /\ ConsumedFit'
  BY <1>2, AskIdsFit DEF RecordsFit
<1>7. MemoryFits'
  BY <1>2, <1>3, HoldsKept DEF RecordsFit, AsksOn, HoldsNothingNew
<1>8. ChannelFits'
  BY <1>1, <1>2, ChannelKept DEF RecordsFit
<1>9. MessagesFit'
  BY <1>1, <1>2, MessagesKept DEF RecordsFit
<1>10. IsSuffix(history', Delivered')
  BY <1>1, <1>2, <1>3, <1>4, HistoryKept DEF RecordsFit
<1>11. RowsOf(none, "message") = 1..0 /\ 0 <= Len(none)
  BY <1>1, <1>3
<1>12. SeenFits'
  BY <1>2, <1>10, <1>11, SeenKept DEF RecordsFit
<1>13. CountsFit'
  BY <1>1, <1>2, CountsKept DEF RecordsFit, SameCounts
<1>14. RolesFit'
  BY <1>3, RolesKept DEF RecordsFit
<1> QED BY <1>5, <1>6, <1>7, <1>8, <1>9, <1>12, <1>13, <1>14 DEF RecordsFit

\* A round starts.
LEMMA StartRoundRecords ==
    ASSUME RunningFits, RecordsFit, CouncilShape', StartRound
    PROVE  RecordsFit'
<1>1. /\ CouncilShape /\ RecordShape /\ status = "running" /\ stage = "round" /\ asked = {}
      /\ held = {} /\ UNCHANGED <<setup, status, mission, attempt, history, memory>>
  BY DEF RunningFits, RecordsFit, RecordShape, StartRound, Continues
<1>2. PICK st, A : /\ Ask(st, This, A, history, RoundStart) /\ IsAsked(st, A)
                   /\ \/ Strategic /\ st = "cipher_council" /\ A = Ciphers
                      \/ ~Strategic /\ st = "deliberation"
                   /\ count'.messages = count.messages /\ count'.absent = count.absent
                   /\ IF Strategic
                      THEN /\ count'.rounds = count.rounds + 1
                           /\ count'.requests = count.requests + Cardinality(Ciphers)
                      ELSE count'.rounds = count.rounds /\ count'.requests = count.requests
  <2>1. CASE Strategic
    <3>1. Ask("cipher_council", This, Ciphers, history, RoundStart)
      BY <2>1 DEF StartRound, This, RoundStart
    <3>2. IsAsked("cipher_council", Ciphers)
      BY CouncilAssumption DEF IsAsked, CouncilStages
    <3>3. /\ count'.rounds = count.rounds + 1
          /\ count'.requests = count.requests + Cardinality(Ciphers)
          /\ count'.messages = count.messages /\ count'.absent = count.absent
      BY <1>1, <2>1 DEF StartRound, CouncilShape, ZeroCounts
    <3> QED BY <2>1, <3>1, <3>2, <3>3
  <2>2. CASE ~Strategic
    <3>1. Ask("deliberation", This, {Order[1]}, history, RoundStart)
      BY <2>2 DEF StartRound, AskFirst, This, RoundStart
    <3>2. IsAsked("deliberation", {Order[1]})
      BY FirstIsAsked DEF CouncilStages
    <3>3. /\ count'.rounds = count.rounds /\ count'.requests = count.requests
          /\ count'.messages = count.messages /\ count'.absent = count.absent
      BY <1>1, <2>2 DEF StartRound, CouncilShape, ZeroCounts
    <3> QED BY <2>2, <3>1, <3>2, <3>3
  <2> QED BY <2>1, <2>2
<1>3. stage' = st /\ A \subseteq Actors /\ st \in {"cipher_council", "deliberation"}
      /\ st \in CouncilStages
  BY <1>2 DEF Ask, IsAsked, CouncilStages
<1>4. RoundKey' = This /\ This' = This
  BY <1>1, <1>3 DEF RoundKey, This
<1>5. OnlyBehind /\ \A a \in Actors : IsAhead(NewId(a))
  <2>1. StageRank[stage'] > StageRank[stage]
    BY <1>1, <1>3, StageRanks
  <2>2. Later /\ stage # "mission_commitment"
    BY <1>1, <2>1 DEF Later
  <2> QED BY <1>1, <1>3, <2>1, <2>2, AheadInRound
<1>6. RowsOf(RoundStart, "round") = {1} /\ IsRows(RoundStart)
      /\ \A kind : kind # "round" => RowsOf(RoundStart, kind) = {}
  <2> DEFINE row == [kind |-> "round", round |-> This]
             t == <<row>>
  <2>1. row.kind = "round"
    OBVIOUS
  <2> HIDE DEF row
  <2>2. /\ IsRows(t) /\ DOMAIN t = 1..1 /\ t[1] = row
        /\ \A kind : kind # "round" => RowsOf(t, kind) = {}
    BY <2>1, OneRow
  <2> HIDE DEF t
  <2>3. RowsOf(t, "round") = {1}
    BY <2>1, <2>2 DEF RowsOf
  <2> QED BY <2>2, <2>3 DEF t, row, RoundStart
<1>7. AsksOn(st, A, history, RoundStart)
  <2>1. \A kind \in {"role", "request", "terminal", "consumed"} : kind # "round"
    OBVIOUS
  <2> QED BY <1>1, <1>2, <1>3, <1>4, <1>5, <1>6, <2>1 DEF AsksOn
<1>8. This \notin RoundsIn(transcript)
  <2> SUFFICES ASSUME This \in RoundsIn(transcript) PROVE FALSE
    OBVIOUS
  <2>1. This \in Proposals(mission)
    BY DEF Proposals, This
  <2>2. Proposals(mission) = {<<mission, k>> : k \in 1..(attempt - 1)}
    BY <1>1 DEF RunningFits, BooksFit, RoundsFit, Opened
  <2>3. PICK k \in 1..(attempt - 1) : <<mission, attempt>> = <<mission, k>>
    BY <2>1, <2>2 DEF This
  <2>4. attempt \in Nat
    BY <1>1, NowIsCounted
  <2> QED BY <2>3, <2>4
<1>9. OpensRound(st, A, history)
  BY <1>1, <1>2, <1>4, <1>7, <1>8 DEF OpensRound
<1>10. /\ SameOf(transcript, transcript', "role") /\ SameOf(transcript, transcript', "terminal")
       /\ SameOf(transcript, transcript', "consumed")
       /\ RowsAdded(transcript, RoundStart, transcript', "message")
       /\ Len(transcript) \in Nat /\ Len(RoundStart) \in Nat /\ Cardinality(A) \in Nat
       /\ Len(transcript') = Before(RoundStart) + Cardinality(A)
  BY <1>1, <1>7, AskSame
<1>11. RowsOf(RoundStart, "message") = {} /\ RowsOf(RoundStart, "message") = 1..0
       /\ 0 <= Len(RoundStart) /\ Len(transcript') >= Len(transcript)
  <2>1. RowsOf(RoundStart, "message") = {}
    BY <1>6
  <2> QED BY <1>10, <2>1 DEF Before
<1>12. IsRows(history') /\ Len(history') <= HistoryLimit
  BY <1>1 DEF RecordShape
<1>13. RecordShape'
  BY <1>1, <1>2, <1>7, <1>12, AskShape
<1>14. TerminalsFit' /\ RequestsFit' /\ ConsumedFit'
  BY <1>1, <1>7, AskIdsFit DEF RecordsFit
<1>15. MemoryFits'
  BY <1>1, <1>10, HoldsKept DEF RecordsFit, HoldsNothingNew
<1>16. ChannelFits'
  BY <1>1, <1>9, ChannelOpens DEF RecordsFit
<1>17. MessagesFit'
  BY <1>1, <1>4, <1>7, <1>11, MessagesKept DEF RecordsFit
<1>18. IsSuffix(history', Delivered')
  BY <1>1, <1>6, <1>10, <1>11, HistoryKept DEF RecordsFit
<1>19. \A j \in DOMAIN history : history[j].round # This
  <2> TAKE j \in DOMAIN history
  <2>1. IsRows(history) /\ IsRows(transcript) /\ IsSuffix(history, Delivered)
    BY <1>1 DEF RecordShape, RecordsFit, SeenFits, CouncilShape
  <2>2. IsRows(Delivered) /\ Len(Delivered) \in Nat
        /\ \A n \in 1..Len(Delivered) :
               \E m \in RowsOf(transcript, "message") : Delivered[n] = transcript[m].entry
    BY <2>1, DeliveredAreMessages
  <2>3. /\ Len(history) \in Nat /\ DOMAIN history = 1..Len(history) /\ Len(history) <= Len(Delivered)
        /\ \A i \in 1..Len(history) : Delivered[Len(Delivered) - Len(history) + i] = history[i]
    BY <2>1, <2>2, SuffixPointwise, RowsAreMapped
  <2>4. Len(Delivered) - Len(history) + j \in 1..Len(Delivered)
    BY <2>2, <2>3
  <2>5. PICK m \in RowsOf(transcript, "message") : history[j] = transcript[m].entry
    BY <2>2, <2>3, <2>4
  <2>6. Spoken(StrategyId(history[j]))
    BY <2>5 DEF RecordsFit, MessagesFit
  <2>7. StrategyId(history[j]).stage = "cipher_council" /\ StrategyId(history[j]).round = history[j].round
    BY DEF StrategyId, RequestId
  <2> QED BY <1>1, <2>6, <2>7, RoundIsSilent DEF RecordsFit
<1>20. SeenFits'
  BY <1>1, <1>4, <1>7, <1>11, <1>18, <1>19, SeenKept DEF RecordsFit
<1>21. CountsFit'
  BY <1>1, <1>2, <1>9, CountsOpen DEF RecordsFit
<1>22. RolesFit'
  BY <1>10, RolesKept DEF RecordsFit
<1> QED BY <1>13, <1>14, <1>15, <1>16, <1>17, <1>20, <1>21, <1>22 DEF RecordsFit

\* The messages of a round are delivered.
LEMMA CouncilDeliversRecords ==
    ASSUME RunningFits, RecordsFit, CouncilShape', CouncilDelivers
    PROVE  RecordsFit'
<1> DEFINE A == {Order[1]}
           k == Cardinality(Senders)
           st == "deliberation"
<1>1. /\ CouncilShape /\ RecordShape /\ status = "running" /\ stage = "cipher_council" /\ asked = {}
      /\ held = {} /\ UNCHANGED <<setup, status, mission, attempt, memory>>
      /\ history' = Shown /\ Ask(st, RoundKey, A, Shown, Events)
      /\ count' = [count EXCEPT !.messages = @ + Len(InOrder(Senders)),
                                !.absent = @ + Absent(Len(InOrder(Senders)))]
  BY DEF RunningFits, RecordsFit, RecordShape, CouncilDelivers, Continues, Senders, Entries, Events, Shown
<1>2. stage' = st /\ RoundKey' = RoundKey
  BY <1>1 DEF Ask, RoundKey
<1>3. /\ k \in Nat /\ IsRows(Events) /\ Len(Events) = k /\ RowsOf(Events, "message") = 1..k
      /\ \A kind : kind # "message" => RowsOf(Events, kind) = {}
  BY EventRows
<1>4. IsAsked(st, A) /\ A \subseteq Actors /\ st \in CouncilStages
  BY FirstIsAsked DEF IsAsked, CouncilStages
<1>5. OnlyBehind /\ \A a \in Actors : IsAhead(NewId(a))
  <2>1. StageRank[stage'] > StageRank[stage]
    BY <1>1, <1>2, StageRanks
  <2>2. Later /\ stage # "mission_commitment"
    BY <1>1, <2>1 DEF Later
  <2> QED BY <1>1, <1>2, <1>4, <2>1, <2>2, AheadInRound
<1> HIDE DEF A, k
<1>6. AsksOn(st, A, Shown, Events)
  <2>1. \A kind \in {"role", "request", "terminal", "consumed"} : kind # "message"
    OBVIOUS
  <2>2. Ask(st, RoundKey', A, Shown, Events)
    BY <1>1, <1>2
  <2> QED BY <1>1, <1>3, <1>4, <1>5, <2>1, <2>2 DEF AsksOn
<1>7. /\ SameOf(transcript, transcript', "role") /\ SameOf(transcript, transcript', "terminal")
      /\ SameOf(transcript, transcript', "consumed")
      /\ RowsAdded(transcript, Events, transcript', "message")
      /\ Len(transcript) \in Nat /\ Len(Events) \in Nat /\ Cardinality(A) \in Nat
      /\ Len(transcript') = Before(Events) + Cardinality(A)
  BY <1>1, <1>6, AskSame
<1>8. Len(transcript') >= Len(transcript) + Len(Events)
  BY <1>7 DEF Before
<1>9. IsSuffix(history', Delivered') /\ IsRows(history') /\ Len(history') <= HistoryLimit
  BY <1>1, <1>7, <1>8, HistoryGrows DEF RecordsFit, RecordShape
<1>10. RecordShape'
  BY <1>1, <1>4, <1>6, <1>9, AskShape
<1>11. TerminalsFit' /\ RequestsFit' /\ ConsumedFit'
  BY <1>1, <1>6, AskIdsFit DEF RecordsFit
<1>12. MemoryFits'
  BY <1>1, <1>7, HoldsKept DEF RecordsFit, HoldsNothingNew
<1>13. ChannelFits'
  <2>1. RowsOf(Events, "round") = {} /\ st # "cipher_council"
    BY <1>3
  <2> QED BY <1>1, <1>6, <2>1, ChannelKept DEF RecordsFit
<1>14. MessagesFit'
  BY <1>1, <1>6, MessagesDelivered DEF RecordsFit
<1>15. SeenFits'
  <2>1. k <= Len(Events) /\ st # "cipher_council"
    BY <1>3
  <2> QED BY <1>1, <1>3, <1>6, <1>9, <2>1, SeenKept DEF RecordsFit
<1>16. CountsFit'
  <2>1. /\ count'.rounds = count.rounds /\ count'.requests = count.requests
        /\ count'.messages = count.messages + Len(InOrder(Senders))
        /\ count'.absent = count.absent + Absent(Len(InOrder(Senders)))
    BY <1>1 DEF CouncilShape, ZeroCounts
  <2> QED BY <1>1, <1>6, <2>1, CountsDelivered DEF RecordsFit
<1>17. RolesFit'
  BY <1>7, RolesKept DEF RecordsFit
<1> QED BY <1>10, <1>11, <1>12, <1>13, <1>14, <1>15, <1>16, <1>17 DEF RecordsFit

\* What an environment asks in its round is ahead.
LEMMA NextIsAhead ==
    ASSUME RecordShape, stage # "mission_commitment", stage # "round",
           NEW st \in CouncilStages, NEW A, NEW round,
           Ask(st, round, A, history, <<>>), IsAsked(st, A), asked = {},
           UNCHANGED <<setup, mission, attempt, history, memory>>,
           \/ StageRank[st] > StageRank[stage]
           \/ st = stage /\ st \in {"deliberation", "vote"} /\ turn < Players /\ A = {Order[turn + 1]},
           st = "mission_commitment" => round = <<mission, 0>>,
           st # "mission_commitment" => round = <<mission, attempt>>
    PROVE  AsksOn(st, A, history, <<>>)
<1>1. stage' = st /\ A \subseteq Actors /\ CouncilShape /\ held = {}
  BY DEF Ask, IsAsked, RecordShape
<1>2. RoundKey' = round
  BY <1>1 DEF RoundKey
<1>3. IsRows(<<>>) /\ \A kind : RowsOf(<<>>, kind) = {}
  BY OneRow
<1>4. OnlyBehind /\ \A a \in A : IsAhead(NewId(a))
  <2>1. CASE StageRank[st] > StageRank[stage]
    <3>1. Later
      BY <1>1, <2>1 DEF Later
    <3> QED BY <1>1, <2>1, <3>1, AheadInRound
  <2>2. CASE st = stage /\ st \in {"deliberation", "vote"} /\ turn < Players /\ A = {Order[turn + 1]}
    <3>1. turn \in Nat /\ Players \in Nat
      BY <1>1, CouncilCounts DEF CouncilShape
    <3>2. turn + 1 \in 1..Players /\ turn + 1 \in (turn + 1)..Players
      BY <2>2, <3>1
    <3>3. turn' = turn + 1
      <4>1. turn' = CHOOSE i \in DOMAIN Order : {Order[i]} = {Order[turn + 1]}
        BY <2>2 DEF Ask
      <4> QED BY <3>2, <4>1, OnePlace
    <3>4. Later
      BY <1>1, <2>2, <3>3 DEF Later
    <3>5. \A a \in A : a \in ToCome
      BY <2>2, <3>2 DEF ToCome
    <3> QED BY <1>1, <3>4, <3>5, AheadInRound
  <2> QED BY <2>1, <2>2
<1> QED BY <1>1, <1>2, <1>3, <1>4 DEF AsksOn

\* The next actor speaks, or the proposer nominates.
LEMMA SpeechEndsRecords ==
    ASSUME RunningFits, RecordsFit, CouncilShape', SpeechEnds
    PROVE  RecordsFit'
<1>1. /\ CouncilShape /\ RecordShape /\ status = "running" /\ stage = "deliberation" /\ asked = {}
      /\ UNCHANGED <<setup, status, mission, attempt, history, memory, count>>
      /\ count.proposals \in Nat /\ count.proposals > 0 /\ turn \in Nat
  BY DEF RunningFits, RecordsFit, SpeechEnds, Continues, CouncilShape
<1>2. StageRank["nomination"] > StageRank["deliberation"]
  BY StageRanks
<1>3. PICK st, A : /\ st \in CouncilStages /\ st # "cipher_council" /\ st # "mission_commitment"
                   /\ Ask(st, This, A, history, <<>>) /\ IsAsked(st, A)
                   /\ \/ StageRank[st] > StageRank[stage]
                      \/ st = stage /\ turn < Players /\ A = {Order[turn + 1]}
  <2>1. CASE turn < Players
    <3>1. Ask("deliberation", This, {Order[turn + 1]}, history, <<>>)
      BY <2>1 DEF SpeechEnds, AskNext, This
    <3>2. IsAsked("deliberation", {Order[turn + 1]})
      BY <1>1, <2>1, NextIsAsked DEF CouncilStages
    <3> QED BY <1>1, <2>1, <3>1, <3>2 DEF CouncilStages
  <2>2. CASE ~(turn < Players)
    <3>1. Ask("nomination", This, {Proposer}, history, <<>>)
      BY <1>1, <2>2 DEF SpeechEnds, RoundKey, This
    <3>2. IsAsked("nomination", {Proposer})
      BY <1>1, ProposerActs DEF IsAsked, CouncilStages
    <3> QED BY <1>1, <1>2, <3>1, <3>2 DEF CouncilStages
  <2> QED BY <2>1, <2>2
<1>4. AsksOn(st, A, history, <<>>)
  BY <1>1, <1>3, NextIsAhead DEF This
<1> QED BY <1>1, <1>3, <1>4, AskedFits

\* The run moves on, or ends, without asking anybody.
Moves ==
    /\ UNCHANGED <<setup, asked, held, history, tries, memory, transcript, turn>>
    /\ asked = {} /\ SameCounts
    /\ stage # "cipher_council" /\ stage' # "cipher_council"
    /\ status' \in {"running", "over"} /\ CouncilShape'
    /\ stage' = stage \/ stage' = "round"
    /\ OnlyBehind

\* It keeps the records.
LEMMA MovesRecords == ASSUME RecordsFit, Moves PROVE RecordsFit'
<1>1. /\ RecordShape /\ TerminalsFit /\ RequestsFit /\ ConsumedFit /\ MemoryFits /\ ChannelFits
      /\ MessagesFit /\ SeenFits /\ CountsFit /\ RolesFit /\ transcript' = transcript
      /\ asked = {} /\ asked' = {} /\ held = {} /\ held' = {} /\ memory' = memory /\ setup' = setup
  BY DEF RecordsFit, RecordShape, Moves
<1>2. \A kind : SameOf(transcript, transcript', kind)
  BY <1>1, SameIfUnchanged
<1>3. /\ \A id : TerminalsOf(transcript', id) = TerminalsOf(transcript, id)
      /\ \A id : Spoken(id)' = Spoken(id)
  BY <1>2, SameRowsTellTheSame
<1>4. RecordShape'
  BY <1>1 DEF RecordShape, Moves
<1>5. TerminalsFit'
  <2>1. \A i \in RowsOf(transcript, "terminal") : ~(IsAhead(transcript[i].id)')
    <3> TAKE i \in RowsOf(transcript, "terminal")
    <3>1. PICK x \in Ids : x = transcript[i].id
      BY <1>1 DEF TerminalsFit
    <3>2. ~IsAhead(x)
      BY <1>1, <3>1 DEF TerminalsFit
    <3>3. ~(IsAhead(x)')
      BY <3>2 DEF Moves, OnlyBehind
    <3>4. transcript'[i].id = x
      BY <1>1, <3>1
    <3> QED BY <3>3, <3>4
  <2> QED BY <1>1, <2>1 DEF TerminalsFit
<1>6. RequestsFit'
  BY <1>1 DEF RequestsFit, Ended
<1>7. ConsumedFit'
  BY <1>1 DEF ConsumedFit, Ended
<1>8. MemoryFits'
  BY <1>1, <1>2, HoldsKept DEF HoldsNothingNew
<1>9. ChannelFits'
  BY <1>1 DEF ChannelFits, RequestsIn, Strategic, Moves
<1>10. MessagesFit'
  <2>1. \A id : ~InChannel(id) /\ ~InChannel(id)'
    BY DEF InChannel, Moves
  <2>2. \A m \in RowsOf(transcript, "message") : Spoken(StrategyId(transcript[m].entry))'
    <3> TAKE m \in RowsOf(transcript, "message")
    <3>1. PICK id : id = StrategyId(transcript[m].entry)
      OBVIOUS
    <3>2. Spoken(id)'
      BY <1>1, <1>3, <3>1 DEF MessagesFit
    <3>3. StrategyId(transcript[m].entry)' = id
      BY <1>1, <3>1 DEF StrategyId
    <3> QED BY <3>2, <3>3
  <2> QED BY <1>1, <2>1, <2>2 DEF MessagesFit, Moves
<1>11. SeenFits'
  BY <1>1 DEF SeenFits, Observes, Delivered, Moves
<1>12. CountsFit'
  <2>1. Open' = Open
    BY DEF Open, Moves
  <2> QED BY <1>1, <2>1 DEF CountsFit, Moves, SameCounts, Strategic
<1>13. RolesFit'
  BY <1>1, <1>2, RolesKept
<1> QED BY <1>4, <1>5, <1>6, <1>7, <1>8, <1>9, <1>10, <1>11, <1>12, <1>13 DEF RecordsFit

\* The counters of a run that ends agree, so that it has an outcome.
LEMMA EndsMoves ==
    ASSUME CouncilShape, CountsFit, status = "running", asked = {}, stage # "cipher_council",
           NEW winner, NEW reason, Ends(winner, reason), SameCounts,
           score' \in [council : Nat, cipher : Nat],
           DOMAIN count' = DOMAIN count, count'.proposals = count.proposals
    PROVE  Moves /\ status' = "over"
<1>1. UNCHANGED <<setup, stage, mission, attempt, turn, asked, held, chosen, team, approvals,
                  history, tries, memory, transcript>>
  BY DEF Ends
<1>2. Accounted
  <2>1. count.messages + count.absent + 0 = count.requests
        /\ count.messages \in Nat /\ count.absent \in Nat
    BY DEF CountsFit, Open
  <2> QED BY <2>1 DEF Accounted, CountsFit
<1>3. status' = "over"
  BY <1>2 DEF Ends
<1>4. OnlyBehind
  BY <1>1 DEF OnlyBehind, IsAhead, ToCome
<1>5. CouncilShape'
  BY <1>1 DEF CouncilShape
<1> QED BY <1>1, <1>3, <1>4, <1>5 DEF Moves

\* A proposal that came to nothing leads to the next round, or to the end.
LEMMA NextAttemptRecords ==
    ASSUME RecordsFit, status = "running", asked = {}, stage \in {"nomination", "vote"},
           NextAttempt, UNCHANGED <<score, count>>
    PROVE  RecordsFit'
<1>1. CouncilShape /\ CountsFit
  BY DEF RecordsFit, RecordShape
<1>2. SameCounts
  BY DEF SameCounts
<1>3. CASE attempt < MaxProposals
  <2>1. /\ attempt' = attempt + 1 /\ stage' = "round"
        /\ UNCHANGED <<setup, status, mission, turn, asked, held, chosen, team, approvals, history,
                       verdict, tries, memory, transcript>>
    BY <1>3 DEF NextAttempt
  <2>2. OnlyBehind
    BY <1>1, <2>1, AheadOfRound
  <2>3. attempt' \in 1..MaxProposals
    BY <1>1, <1>3, <2>1, CouncilCounts DEF CouncilShape
  <2>4. CouncilShape'
    BY <1>1, <2>1, <2>3 DEF CouncilShape
  <2>5. Moves
    BY <1>2, <2>1, <2>2, <2>4 DEF Moves
  <2> QED BY <2>5, MovesRecords
<1>4. CASE ~(attempt < MaxProposals)
  <2>1. Ends("none", "proposal_limit_exhausted")
    BY <1>4 DEF NextAttempt
  <2>2. Moves
    BY <1>1, <1>2, <2>1, EndsMoves DEF CouncilShape
  <2> QED BY <2>2, MovesRecords
<1> QED BY <1>3, <1>4

\* The team is voted on, or the proposal comes to nothing.
LEMMA NominatedRecords ==
    ASSUME RecordsFit, Nominated, status' = "running" => CouncilShape'
    PROVE  RecordsFit'
<1>1. RecordShape /\ status = "running" /\ stage = "nomination" /\ asked = {}
      /\ UNCHANGED <<score, count>>
  BY DEF RecordsFit, Nominated, Continues
<1>2. CASE chosen[Proposer] = NoChoice
  BY <1>1, <1>2, NextAttemptRecords DEF Nominated
<1>3. CASE chosen[Proposer] # NoChoice
  <2>1. /\ Ask("vote", This, {Order[1]}, history, <<>>)
        /\ UNCHANGED <<setup, status, mission, attempt, history, memory>>
    BY <1>3 DEF Nominated, AskFirst, This
  <2>2. IsAsked("vote", {Order[1]}) /\ "vote" \in CouncilStages
    BY FirstIsAsked DEF CouncilStages
  <2>3. StageRank["vote"] > StageRank[stage]
    BY <1>1, StageRanks
  <2>4. AsksOn("vote", {Order[1]}, history, <<>>)
    BY <1>1, <2>1, <2>2, <2>3, NextIsAhead DEF This
  <2> QED BY <1>1, <2>1, <2>2, <2>4, AskedFits
<1> QED BY <1>2, <1>3

\* The next actor votes, the team goes on its mission, or the proposal fails.
LEMMA VoteEndsRecords ==
    ASSUME RecordsFit, VoteEnds, status' = "running" => CouncilShape'
    PROVE  RecordsFit'
<1> DEFINE yes == IF chosen[Order[turn]].name = "approve" THEN approvals \cup {Order[turn]}
                                                          ELSE approvals
<1>1. RecordShape /\ status = "running" /\ stage = "vote" /\ asked = {}
      /\ UNCHANGED <<score, count>>
  BY DEF RecordsFit, VoteEnds, Continues
<1>2. turn \in Nat /\ Players \in Nat /\ team \subseteq Actors
  BY <1>1, CouncilCounts DEF RecordShape, CouncilShape
<1>3. CASE turn < Players
  <2>1. /\ Ask("vote", This, {Order[turn + 1]}, history, <<>>)
        /\ UNCHANGED <<setup, status, mission, attempt, history, memory>>
    <3>1. AskNext("vote") /\ UNCHANGED <<setup, status, mission, attempt, history, memory>>
      BY <1>2, <1>3 DEF VoteEnds
    <3> QED BY <3>1 DEF AskNext, This
  <2>2. IsAsked("vote", {Order[turn + 1]}) /\ "vote" \in CouncilStages
    BY <1>2, <1>3, NextIsAsked DEF CouncilStages
  <2>3. AsksOn("vote", {Order[turn + 1]}, history, <<>>)
    BY <1>1, <1>3, <2>1, <2>2, NextIsAhead DEF This
  <2> QED BY <1>1, <2>1, <2>2, <2>3, AskedFits
<1>4. CASE ~(turn < Players) /\ turn = Players /\ IsApproved(yes)
  <2>1. /\ Ask("mission_commitment", <<mission, 0>>, team, history, <<>>)
        /\ UNCHANGED <<setup, status, mission, attempt, history, memory>>
    BY <1>4 DEF VoteEnds
  <2>2. IsAsked("mission_commitment", team) /\ "mission_commitment" \in CouncilStages
    BY <1>2 DEF IsAsked, CouncilStages
  <2>3. StageRank["mission_commitment"] > StageRank[stage]
    BY <1>1, StageRanks
  <2>4. AsksOn("mission_commitment", team, history, <<>>)
    BY <1>1, <2>1, <2>2, <2>3, NextIsAhead
  <2> QED BY <1>1, <2>1, <2>2, <2>4, AskedFits
<1>5. CASE ~(turn < Players) /\ ~(turn = Players /\ IsApproved(yes))
  <2>1. NextAttempt
    BY <1>5 DEF VoteEnds
  <2> QED BY <1>1, <2>1, NextAttemptRecords
<1> QED BY <1>3, <1>4, <1>5

\* The mission is over: the next one follows, or the run ends.
LEMMA MissionEndsRecords ==
    ASSUME RecordsFit, MissionEnds
    PROVE  RecordsFit'
<1> DEFINE sabotaged == \E a \in team : chosen[a].name = "sabotage"
           won == IF sabotaged THEN [score EXCEPT !.cipher = @ + 1]
                               ELSE [score EXCEPT !.council = @ + 1]
<1>1. /\ CouncilShape /\ CountsFit /\ status = "running" /\ asked = {}
      /\ stage = "mission_commitment"
  BY DEF RecordsFit, RecordShape, MissionEnds, Continues
<1>2. CASE IsMissing(chosen)
  <2>1. Ends("none", "mission_commitment_missing") /\ UNCHANGED <<score, count>>
    BY <1>2 DEF MissionEnds
  <2>2. Moves
    BY <1>1, <2>1, EndsMoves DEF CouncilShape, SameCounts
  <2> QED BY <2>2, MovesRecords
<1>3. CASE ~IsMissing(chosen)
  <2>1. score' = won /\ count' = [count EXCEPT !.missions = @ + 1]
    BY <1>3 DEF MissionEnds
  <2>2. won \in [council : Nat, cipher : Nat]
    BY <1>1 DEF CouncilShape
  <2>3. SameCounts /\ DOMAIN count' = DOMAIN count /\ count'.proposals = count.proposals
    BY <1>1, <2>1 DEF SameCounts, CouncilShape, ZeroCounts
  <2>4. \/ \E winner, reason : Ends(winner, reason)
        \/ /\ mission < Len(MissionSizes)
           /\ mission' = mission + 1 /\ attempt' = 1 /\ stage' = "round"
           /\ UNCHANGED <<setup, status, turn, asked, held, chosen, team, approvals,
                          history, verdict, tries, memory, transcript>>
    BY <1>3 DEF MissionEnds
  <2> HIDE DEF won
  <2>5. CASE \E winner, reason : Ends(winner, reason)
    <3>1. PICK winner, reason : Ends(winner, reason)
      BY <2>5
    <3>2. Moves
      BY <1>1, <2>1, <2>2, <2>3, <3>1, EndsMoves
    <3> QED BY <3>2, MovesRecords
  <2>6. CASE /\ mission < Len(MissionSizes)
             /\ mission' = mission + 1 /\ attempt' = 1 /\ stage' = "round"
             /\ UNCHANGED <<setup, status, turn, asked, held, chosen, team, approvals,
                            history, verdict, tries, memory, transcript>>
    <3>1. OnlyBehind
      BY <1>1, <2>6, AheadOfRound
    <3>2. mission' \in 1..Len(MissionSizes) /\ attempt' \in 1..MaxProposals
      BY <1>1, <2>6, CouncilCounts DEF CouncilShape
    <3>3. CouncilShape'
      BY <1>1, <2>1, <2>2, <2>3, <2>6, <3>2 DEF CouncilShape
    <3>4. Moves
      BY <1>1, <2>3, <2>6, <3>1, <3>3 DEF Moves
    <3> QED BY <3>4, MovesRecords
  <2> QED BY <2>4, <2>5, <2>6
<1> QED BY <1>2, <1>3

-----------------------------------------------------------------------------
(* The turn of an actor.                                                    *)

\* Nothing changes but the attempts.
LEMMA TriesOnly ==
    ASSUME RecordsFit, tries' \in [Actors -> 0..MaxAttempts],
           UNCHANGED <<setup, status, stage, asked, held, chosen, count, memory, transcript, schedule>>
    PROVE  RecordsFit'
<1>1. UNCHANGED <<setup, status, stage, mission, attempt, turn, asked, held, chosen, team, approvals,
                  history, count, score, memory, transcript>>
  BY DEF schedule
<1>2. RecordShape /\ TerminalsFit /\ RequestsFit /\ ConsumedFit /\ MemoryFits
      /\ ChannelFits /\ MessagesFit /\ SeenFits /\ CountsFit /\ RolesFit
  BY DEF RecordsFit
<1>3. RecordShape'
  BY <1>1, <1>2 DEF RecordShape, CouncilShape
<1>4. TerminalsFit' /\ RequestsFit'
  <2>1. TerminalsFit'
    BY <1>1, <1>2 DEF TerminalsFit, IsAhead, ToCome, IdOf, RoundKey
  <2>2. RequestsFit'
    BY <1>1, <1>2 DEF RequestsFit, Ended, IdOf, RoundKey
  <2> QED BY <2>1, <2>2
<1>5. ConsumedFit'
  BY <1>1, <1>2 DEF ConsumedFit, Ended, IdOf, RoundKey
<1>6. MemoryFits'
  BY <1>1, <1>2, SameIfUnchanged, HoldsKept DEF HoldsNothingNew, schedule
<1>7. ChannelFits'
  BY <1>1, <1>2 DEF ChannelFits, RequestsIn, Strategic
<1>8. MessagesFit'
  BY <1>1, <1>2 DEF MessagesFit, InChannel, Spoken, This, IdOf, RoundKey
<1>9. SeenFits' /\ CountsFit' /\ RolesFit'
  BY <1>1, <1>2 DEF SeenFits, Observes, Delivered, CountsFit, Open, Strategic, RolesFit
<1> QED BY <1>3, <1>4, <1>5, <1>6, <1>7, <1>8, <1>9 DEF RecordsFit

\* What is asked and what is ahead is told by the schedule.
LEMMA SameNow ==
    ASSUME UNCHANGED <<stage, schedule>>
    PROVE  /\ \A id : IsAhead(id)' = IsAhead(id)
           /\ \A b : IdOf(b)' = IdOf(b)
           /\ \A id : InChannel(id)' = InChannel(id)
           /\ This' = This /\ Open' = Open
BY DEF schedule, IsAhead, ToCome, IdOf, RoundKey, InChannel, This, Open

\* A request ends: the only new terminals are those of the requests released by it.
EndsTurn(a) ==
    /\ EndRows(a) /\ asked' = asked \ {a} /\ held' = (held \cup {a}) \ Released(a)
    /\ UNCHANGED <<setup, stage, schedule>>
LEMMA EndTerminals ==
    ASSUME RecordShape, TerminalsFit, RequestsFit, NEW a \in asked, EndsTurn(a)
    PROVE  /\ \A id : Ended(id)' <=> Ended(id) \/ id = IdOf(a)
           /\ ~Ended(IdOf(a))
           /\ TerminalsFit' /\ RequestsFit'
<1> DEFINE T == RowsOf(transcript, "terminal")
           Z == EndedAt(a)
           R == Released(a)
<1>1. /\ RowsOf(transcript', "terminal") = T \cup Z
      /\ \A i \in T : transcript'[i] = transcript[i]
      /\ \A i \in Z : \E b \in R : transcript'[i].id = IdOf(b)
      /\ \A b \in R : \E i \in Z : transcript'[i].id = IdOf(b)
      /\ \A i, j \in Z : transcript'[i].id = transcript'[j].id => i = j
      /\ asked' = asked \ {a} /\ held' = (held \cup {a}) \ R
      /\ SameOf(transcript, transcript', "request")
  <2>1. "request" \in {"role", "round", "request", "message"}
    OBVIOUS
  <2>2. \A b : TerminalRow(b).id = IdOf(b)
    BY DEF TerminalRow
  <2> QED BY <2>1, <2>2 DEF EndsTurn, EndRows
<1>2. /\ \A id : IsAhead(id)' = IsAhead(id)
      /\ \A b : IdOf(b)' = IdOf(b)
  BY SameNow DEF EndsTurn
<1>3. /\ \A i \in T : transcript[i].id \in Ids /\ ~IsAhead(transcript[i].id)
      /\ \A i, j \in T : transcript[i].id = transcript[j].id => i = j
      /\ \A b \in asked \cup held : TerminalsOf(transcript, IdOf(b)) = {}
  BY DEF TerminalsFit
<1>4. /\ \A b \in asked \cup held : IdOf(b) \in Ids /\ ~IsAhead(IdOf(b))
      /\ \A b, c : IdOf(b) = IdOf(c) => b = c
  <2>1. \A b : IdOf(b).actor = b
    BY DEF IdOf, RequestId
  <2> QED BY <2>1, AskedIsNow
<1>5. \A i \in T : \A b \in asked \cup held : transcript[i].id # IdOf(b)
  BY <1>3 DEF TerminalsOf
<1>6. R \subseteq held \cup {a} /\ a \notin held /\ held \cap asked = {}
  BY DEF Released, RecordShape
<1> HIDE DEF T, Z, R
<1>7. ASSUME NEW id
      PROVE  TerminalsOf(transcript', id) # {} <=>
                 TerminalsOf(transcript, id) # {} \/ \E b \in R : id = IdOf(b)
  <2>1. TerminalsOf(transcript', id) = {i \in T \cup Z : transcript'[i].id = id}
    BY <1>1 DEF TerminalsOf
  <2>2. TerminalsOf(transcript, id) = {i \in T : transcript[i].id = id}
    BY DEF TerminalsOf, T
  <2>3. (\E i \in T : transcript'[i].id = id) <=> TerminalsOf(transcript, id) # {}
    BY <1>1, <2>2
  <2>4. (\E i \in Z : transcript'[i].id = id) <=> \E b \in R : id = IdOf(b)
    BY <1>1
  <2> QED BY <2>1, <2>3, <2>4
<1>8. ASSUME NEW id PROVE Ended(id)' <=> Ended(id) \/ id = IdOf(a)
  <2>1. Ended(id)' <=> TerminalsOf(transcript', id) # {} \/ \E b \in held' : id = IdOf(b)
    BY <1>2 DEF Ended
  <2>2. (\E b \in R : id = IdOf(b)) \/ (\E b \in held' : id = IdOf(b))
            <=> (\E b \in held : id = IdOf(b)) \/ id = IdOf(a)
    BY <1>1, <1>6
  <2> QED BY <1>7, <2>1, <2>2 DEF Ended
<1>9. ~Ended(IdOf(a))
  BY <1>3, <1>4, <1>6 DEF Ended
<1>10. \A b \in asked' \cup held' : b \in asked \cup held /\ b \notin R
  BY <1>1, <1>6
<1>11. TerminalsFit'
  <2>1. \A i \in T \cup Z : transcript'[i].id \in Ids /\ ~(IsAhead(transcript[i].id)')
    <3> TAKE i \in T \cup Z
    <3>1. transcript'[i].id \in Ids /\ ~IsAhead(transcript'[i].id)
      BY <1>1, <1>3, <1>4, <1>6
    <3>2. PICK x : x = transcript'[i].id
      OBVIOUS
    <3>3. ~(IsAhead(x)')
      BY <1>2, <3>1, <3>2
    <3> QED BY <3>1, <3>2, <3>3
  <2>2. \A i \in T : \A j \in Z : transcript'[i].id # transcript'[j].id
    BY <1>1, <1>5, <1>6
  <2>3. \A i, j \in T \cup Z : transcript'[i].id = transcript'[j].id => i = j
    BY <1>1, <1>3, <2>2
  <2>4. \A b \in asked' \cup held' : TerminalsOf(transcript', IdOf(b)) = {}
    BY <1>3, <1>4, <1>7, <1>10
  <2> QED BY <1>1, <1>2, <2>1, <2>3, <2>4 DEF TerminalsFit
<1>12. RequestsFit'
  <2>1. /\ RowsOf(transcript', "request") = RowsOf(transcript, "request")
        /\ \A i \in RowsOf(transcript, "request") : transcript'[i] = transcript[i]
    BY <1>1 DEF SameOf
  <2>2. \A b \in asked \cup held : \E i \in RowsOf(transcript, "request") : transcript[i].id = IdOf(b)
    BY DEF RequestsFit
  <2>3. \A b \in asked' \cup held' : \E i \in RowsOf(transcript', "request") : transcript'[i].id = IdOf(b)'
    BY <1>2, <1>10, <2>1, <2>2
  <2>4. ASSUME NEW i \in RowsOf(transcript, "request")
        PROVE  \/ Ended(transcript[i].id)'
               \/ \E b \in asked' : transcript'[i].id = IdOf(b)'
    <3>1. PICK x : x = transcript[i].id
      OBVIOUS
    <3>2. transcript'[i].id = x
      BY <2>1, <3>1
    <3>3. Ended(x) \/ \E b \in asked : x = IdOf(b)
      BY <3>1 DEF RequestsFit
    <3>4. Ended(x)' \/ \E b \in asked \ {a} : x = IdOf(b)
      BY <1>8, <3>3
    <3>5. Ended(x)' => Ended(transcript[i].id)'
      BY <3>2
    <3> QED BY <1>1, <1>2, <3>2, <3>4, <3>5
  <2>5. \A i \in T \cup Z :
            \E j \in RowsOf(transcript', "request") : transcript'[j].id = transcript'[i].id
    <3> TAKE i \in T \cup Z
    <3>1. CASE i \in T
      BY <1>1, <2>1, <3>1 DEF RequestsFit, T
    <3>2. CASE i \in Z
      BY <1>1, <1>6, <2>1, <2>2, <3>2
    <3> QED BY <3>1, <3>2
  <2> QED BY <1>1, <2>1, <2>3, <2>4, <2>5 DEF RequestsFit
<1> QED BY <1>8, <1>9, <1>11, <1>12

\* What the environment consumes of the turn of a, if anything: a choice named c.
ConsumedGrows(a, c, N) ==
    /\ RowsOf(transcript', "consumed") = RowsOf(transcript, "consumed") \cup N
    /\ \A p \in RowsOf(transcript, "consumed") : transcript'[p] = transcript[p]
    /\ N \subseteq {SubmittedAt(a)}
    /\ \A p \in N : transcript'[p].id = IdOf(a) /\ transcript'[p].choice = c
LEMMA EndConsumed ==
    ASSUME RecordShape, TerminalsFit, RequestsFit, ConsumedFit, NEW a \in asked, EndsTurn(a),
           NEW c, NEW N, ConsumedGrows(a, c, N),
           N # {} /\ stage = "cipher_council" => c \in {"message", "skip"}
    PROVE  /\ ConsumedOf(transcript, IdOf(a)) = {} /\ ConsumedOf(transcript', IdOf(a)) = N
           /\ \A id : id # IdOf(a) => ConsumedOf(transcript', id) = ConsumedOf(transcript, id)
           /\ \A id : \A p \in ConsumedOf(transcript, id) : transcript'[p] = transcript[p]
           /\ \A p \in RowsOf(transcript, "consumed") : p \in Nat /\ p < SubmittedAt(a)
           /\ ConsumedFit'
<1> DEFINE C == RowsOf(transcript, "consumed")
           now == IdOf(a)
<1>1. /\ RowsOf(transcript', "consumed") = C \cup N /\ N \subseteq {SubmittedAt(a)}
      /\ \A p \in C : transcript'[p] = transcript[p]
      /\ \A p \in N : transcript'[p].id = now /\ transcript'[p].choice = c
  BY DEF ConsumedGrows
<1>2. \A id : Ended(id) => Ended(id)'
  BY EndTerminals
<1>3. ~Ended(now)
  BY EndTerminals
<1>4. \A p \in C : Ended(transcript[p].id)
  BY DEF ConsumedFit
<1>5. \A p \in C : transcript[p].id # now
  BY <1>3, <1>4
<1>6. now.stage = stage
  BY DEF IdOf, RequestId
<1>7. \A p \in C : p \in Nat /\ p < SubmittedAt(a)
  <2>1. C \subseteq 1..Len(transcript) /\ Len(transcript) \in Nat
    BY RowPlaces DEF RecordShape, CouncilShape
  <2>2. Len(Told(a)) \in Nat /\ Len(Told(a)) >= Len(transcript)
    BY ReleasedAdded DEF RecordShape, CouncilShape
  <2> QED BY <2>1, <2>2 DEF SubmittedAt
<1> HIDE DEF C, now
<1>8. \A id : /\ ConsumedOf(transcript, id) = {p \in C : transcript[p].id = id}
              /\ ConsumedOf(transcript', id) = {p \in C \cup N : transcript'[p].id = id}
  BY <1>1 DEF ConsumedOf, C
<1>9. ConsumedOf(transcript, now) = {} /\ ConsumedOf(transcript', now) = N
  <2>1. ConsumedOf(transcript, now) = {p \in C : transcript[p].id = now}
    BY <1>8
  <2>2. ConsumedOf(transcript', now) = {p \in C \cup N : transcript'[p].id = now}
    BY <1>8
  <2>3. \A p \in C : transcript'[p].id # now
    BY <1>1, <1>5
  <2>4. ConsumedOf(transcript, now) = {}
    BY <1>5, <2>1
  <2>5. \A p : p \in ConsumedOf(transcript', now) <=> p \in N
    BY <1>1, <2>2, <2>3
  <2> QED BY <2>4, <2>5
<1>10. ASSUME NEW id, id # now PROVE ConsumedOf(transcript', id) = ConsumedOf(transcript, id)
  <2>1. ConsumedOf(transcript, id) = {p \in C : transcript[p].id = id}
    BY <1>8
  <2>2. ConsumedOf(transcript', id) = {p \in C \cup N : transcript'[p].id = id}
    BY <1>8
  <2>3. \A p \in N : transcript'[p].id # id
    BY <1>1, <1>10
  <2>4. \A p : p \in ConsumedOf(transcript', id) <=> p \in ConsumedOf(transcript, id)
    BY <1>1, <2>1, <2>2, <2>3
  <2> QED BY <2>4
<1>11. \A id : \A p \in ConsumedOf(transcript, id) : transcript'[p] = transcript[p]
  BY <1>1, <1>8
<1>12. ConsumedFit'
  <2>1. \A p \in C \cup N : Ended(transcript[p].id)'
    <3> TAKE p \in C \cup N
    <3>1. PICK x : x = transcript'[p].id
      OBVIOUS
    <3>2. Ended(x)'
      <4>1. CASE p \in C
        BY <1>1, <1>2, <1>4, <3>1, <4>1
      <4>2. CASE p \in N
        <5>1. x = IdOf(a)
          BY <1>1, <3>1, <4>2 DEF now
        <5> QED BY <5>1, EndTerminals
      <4> QED BY <4>1, <4>2
    <3> QED BY <3>1, <3>2
  <2>2. \A p, q \in C : transcript[p].id = transcript[q].id => p = q
    BY DEF ConsumedFit, C
  <2>3. \A p, q \in C \cup N : transcript'[p].id = transcript'[q].id => p = q
    BY <1>1, <1>5, <2>2
  <2>4. \A p \in C : transcript[p].id.stage = "cipher_council" => transcript[p].choice \in {"message", "skip"}
    BY DEF ConsumedFit, C
  <2>5. \A p \in C \cup N :
            transcript'[p].id.stage = "cipher_council" => transcript'[p].choice \in {"message", "skip"}
    BY <1>1, <1>6, <2>4
  <2> QED BY <1>1, <2>1, <2>3, <2>5 DEF ConsumedFit
<1> QED BY <1>7, <1>9, <1>10, <1>11, <1>12 DEF C, now

\* An actor that keeps its memory, and of which nothing is consumed, holds its turns.
LEMMA HoldsOld ==
    ASSUME NEW a, NEW c, NEW N, ConsumedGrows(a, c, N), NEW b, HoldsOwnTurns(b), memory'[b] = memory[b],
           N = {} \/ b # a
    PROVE  HoldsOwnTurns(b)'
<1> DEFINE C == RowsOf(transcript, "consumed")
           kept == memory[b]
<1>1. /\ RowsOf(transcript', "consumed") = C \cup N
      /\ \A p \in C : transcript'[p] = transcript[p]
      /\ \A p \in N : transcript'[p].id.actor = a
  BY DEF ConsumedGrows, IdOf, RequestId
<1>2. \A id : /\ ConsumedOf(transcript, id) = {p \in C : transcript[p].id = id}
              /\ ConsumedOf(transcript', id) = {p \in C \cup N : transcript'[p].id = id}
  BY <1>1 DEF ConsumedOf
<1>3. /\ TurnsOf(b) = {p \in C : transcript[p].id.actor = b}
      /\ TurnsOf(b)' = {p \in C \cup N : transcript'[p].id.actor = b}
  BY <1>1 DEF TurnsOf
<1> HIDE DEF C
<1>4. TurnsOf(b)' = TurnsOf(b) /\ \A p \in TurnsOf(b) : transcript'[p] = transcript[p]
  BY <1>1, <1>3
<1>5. \A id : id.actor = b => /\ ConsumedOf(transcript', id) = ConsumedOf(transcript, id)
                              /\ \A p \in ConsumedOf(transcript, id) : transcript'[p] = transcript[p]
  <2> SUFFICES ASSUME NEW id, id.actor = b
               PROVE  /\ ConsumedOf(transcript', id) = ConsumedOf(transcript, id)
                      /\ \A p \in ConsumedOf(transcript, id) : transcript'[p] = transcript[p]
    OBVIOUS
  <2>1. \A p \in N : transcript'[p].id # id
    BY <1>1
  <2>2. ConsumedOf(transcript, id) = {p \in C : transcript[p].id = id}
    BY <1>2
  <2>3. ConsumedOf(transcript', id) = {p \in C \cup N : transcript'[p].id = id}
    BY <1>2
  <2>4. \A p : p \in ConsumedOf(transcript', id) <=> p \in ConsumedOf(transcript, id)
    BY <1>1, <2>1, <2>2, <2>3
  <2> QED BY <1>1, <2>2, <2>4
<1>6. \A p \in TurnsOf(b) : IsHeld(b, p)' = IsHeld(b, p)
  BY <1>4 DEF IsHeld
<1>7. \A i \in DOMAIN kept :
          /\ kept[i].id.actor = b
          /\ \A p \in ConsumedOf(transcript, kept[i].id) : transcript[p].choice = kept[i].choice
  BY DEF HoldsOwnTurns
<1>8. \A i \in DOMAIN kept, j \in DOMAIN kept :
          \A p \in ConsumedOf(transcript, kept[i].id), q \in ConsumedOf(transcript, kept[j].id) :
              (i < j => p < q) /\ (i = j => p = q)
  BY DEF HoldsOwnTurns
<1>9. /\ \A p \in TurnsOf(b), q \in TurnsOf(b) : IsHeld(b, p)' /\ p < q => IsHeld(b, q)'
      /\ Len(kept) < MemoryLimit => \A p \in TurnsOf(b) : IsHeld(b, p)'
  BY <1>6 DEF HoldsOwnTurns
<1>10. kept' = kept
  OBVIOUS
<1> HIDE DEF kept
<1>11. \A i \in DOMAIN kept :
           /\ ConsumedOf(transcript', kept[i].id) = ConsumedOf(transcript, kept[i].id)
           /\ \A p \in ConsumedOf(transcript, kept[i].id) : transcript'[p] = transcript[p]
  BY <1>5, <1>7
<1>12. \A i \in DOMAIN kept :
           \A p \in ConsumedOf(transcript', kept[i].id) : transcript'[p].choice = kept[i].choice
  BY <1>7, <1>11
<1>13. \A i \in DOMAIN kept, j \in DOMAIN kept :
           \A p \in ConsumedOf(transcript', kept[i].id), q \in ConsumedOf(transcript', kept[j].id) :
               (i < j => p < q) /\ (i = j => p = q)
  BY <1>8, <1>11
<1> QED BY <1>4, <1>7, <1>9, <1>10, <1>12, <1>13 DEF HoldsOwnTurns, kept

\* A memory that gets one entry more has it last, and may drop the first.
Gets(a, c) == memory'[a] = Remembered(a, c)
LEMMA MemoryAppends ==
    ASSUME RecordShape, NEW a \in Actors, NEW c, Gets(a, c)
    PROVE  LET s == memory[a]
               t == memory'[a]
           IN /\ Len(s) \in Nat /\ DOMAIN s = 1..Len(s) /\ Len(s) <= MemoryLimit /\ MemoryLimit \in Nat
              /\ IsRows(t) /\ Len(t) \in Nat /\ DOMAIN t = 1..Len(t) /\ Len(t) >= 1 /\ Len(t) <= MemoryLimit
              /\ t[Len(t)].id = IdOf(a) /\ t[Len(t)].choice = c.name
              /\ \E k \in 0..1 : /\ Len(t) = Len(s) + 1 - k /\ (k = 1 => Len(t) = MemoryLimit)
                                 /\ \A i \in 1..(Len(t) - 1) : t[i] = s[i + k] /\ i + k \in 1..Len(s)
<1> DEFINE s == memory[a]
           e == [id |-> IdOf(a), choice |-> c.name]
           one == <<e>>
           u == s \o one
           t == memory'[a]
<1>1. IsRows(s) /\ Len(s) <= MemoryLimit
  BY DEF RecordShape
<1>2. MemoryLimit \in Nat /\ MemoryLimit >= 1
  BY CouncilAssumption
<1>3. e.id = IdOf(a) /\ e.choice = c.name
  OBVIOUS
<1> HIDE DEF e
<1>4. Append(s, e) = u
  <2>1. s \in Seq({s[i] : i \in DOMAIN s} \cup {e})
    BY <1>1 DEF IsRows
  <2> QED BY <2>1, AppendIsConcat
<1>5. IsRows(one) /\ DOMAIN one = 1..1 /\ one[1] = e
  BY OneRow
<1> HIDE DEF one
<1>6. Len(one) = 1
  <2>1. Len(one) \in Nat /\ DOMAIN one = 1..Len(one)
    BY <1>5, RowsAreMapped
  <2>2. 1 \in 1..Len(one) /\ ~(2 \in 1..Len(one))
    BY <1>5, <2>1
  <2> QED BY <2>1, <2>2
<1>7. Extends(s, one, u) /\ Len(s) \in Nat /\ DOMAIN s = 1..Len(s)
  BY <1>1, <1>5, RowsConcat, RowsAreMapped
<1>8. t = LastOf(u, MemoryLimit)
  BY <1>4 DEF Gets, Remembered, e
<1> HIDE DEF u, s
<1>9. /\ IsRows(u) /\ Len(u) = Len(s) + 1
      /\ \A i \in 1..Len(s) : u[i] = s[i]
      /\ u[Len(s) + 1] = e
  <2>1. IsRows(u) /\ Len(u) = Len(s) + 1 /\ (\A i \in 1..Len(s) : u[i] = s[i])
        /\ \A i \in 1..1 : u[Len(s) + i] = one[i]
    BY <1>6, <1>7 DEF Extends
  <2>2. u[Len(s) + 1] = one[1]
    BY <2>1
  <2> QED BY <1>5, <2>1, <2>2
<1>10. /\ IsRows(t) /\ Len(t) \in Nat /\ DOMAIN t = 1..Len(t)
       /\ Len(t) = (IF Len(u) <= MemoryLimit THEN Len(u) ELSE MemoryLimit)
       /\ \A i \in 1..Len(t) : t[i] = u[Len(u) - Len(t) + i]
  <2>1. IsRows(u) /\ MemoryLimit \in Nat
    BY <1>2, <1>9
  <2> HIDE <1>1, <1>2, <1>3, <1>4, <1>5, <1>6, <1>7, <1>9
  <2> QED BY <1>8, <2>1, LastEntries
<1> HIDE DEF t
<1>11. Len(t) >= 1 /\ Len(t) <= MemoryLimit
  BY <1>2, <1>7, <1>9, <1>10
<1> DEFINE k == Len(u) - Len(t)
<1>12. k \in 0..1 /\ Len(t) = Len(s) + 1 - k /\ (k = 1 => Len(t) = MemoryLimit)
  BY <1>1, <1>2, <1>7, <1>9, <1>10
<1>13. t[Len(t)] = e
  <2>1. Len(t) \in 1..Len(t) /\ Len(u) - Len(t) + Len(t) = Len(s) + 1
    BY <1>7, <1>9, <1>10, <1>11
  <2>2. t[Len(t)] = u[Len(u) - Len(t) + Len(t)]
    BY <1>10, <2>1
  <2> QED BY <1>9, <2>1, <2>2
<1>14. \A i \in 1..(Len(t) - 1) : t[i] = s[i + k] /\ i + k \in 1..Len(s)
  <2> TAKE i \in 1..(Len(t) - 1)
  <2>1. i \in 1..Len(t) /\ i + k \in 1..Len(s) /\ Len(u) - Len(t) + i = i + k
    <3>1. Len(u) = Len(s) + 1 /\ Len(s) \in Nat /\ Len(t) \in Nat /\ i \in Nat /\ i >= 1
          /\ i <= Len(t) - 1 /\ k = Len(u) - Len(t) /\ k \in 0..1
      BY <1>7, <1>9, <1>10, <1>12
    <3> HIDE DEF k
    <3>2. i \in 1..Len(t) /\ Len(u) - Len(t) + i = i + k
      BY <3>1
    <3>3. i + k >= 1 /\ i + k <= Len(s) /\ i + k \in Int
      BY <3>1
    <3> QED BY <3>2, <3>3
  <2>2. t[i] = u[i + k]
    BY <1>10, <2>1
  <2> HIDE DEF k
  <2> QED BY <1>9, <2>1, <2>2
<1> HIDE DEF k
<1> QED BY <1>1, <1>2, <1>3, <1>7, <1>10, <1>11, <1>12, <1>13, <1>14 DEF s, t

\* An actor that remembers its turn holds its last turns, and this one last.
LEMMA HoldsNew ==
    ASSUME RecordShape, TerminalsFit, RequestsFit, ConsumedFit, NEW a \in asked, EndsTurn(a),
           NEW c, NEW N, ConsumedGrows(a, c.name, N), Gets(a, c), HoldsOwnTurns(a),
           \A i \in DOMAIN memory[a] : Ended(memory[a][i].id),
           N # {} /\ stage = "cipher_council" => c.name \in {"message", "skip"}
    PROVE  HoldsOwnTurns(a)'
<1> DEFINE C == RowsOf(transcript, "consumed")
           now == IdOf(a)
           s == memory[a]
           t == memory'[a]
           n == Len(t)
<1>1. /\ ConsumedOf(transcript', now) = N
      /\ \A id : id # now => ConsumedOf(transcript', id) = ConsumedOf(transcript, id)
      /\ \A id : \A p \in ConsumedOf(transcript, id) : transcript'[p] = transcript[p]
      /\ \A p \in C : p \in Nat /\ p < SubmittedAt(a)
  BY EndConsumed
<1>2. /\ RowsOf(transcript', "consumed") = C \cup N /\ N \subseteq {SubmittedAt(a)}
      /\ \A p \in C : transcript'[p] = transcript[p]
      /\ \A p \in N : transcript'[p].id = now /\ transcript'[p].choice = c.name
  BY DEF ConsumedGrows
<1>3. a \in Actors /\ now.actor = a
  BY AskedIsNow
<1>4. /\ Len(s) \in Nat /\ DOMAIN s = 1..Len(s) /\ Len(s) <= MemoryLimit /\ MemoryLimit \in Nat
      /\ n \in Nat /\ DOMAIN t = 1..n /\ n >= 1 /\ n <= MemoryLimit
      /\ t[n].id = now /\ t[n].choice = c.name
      /\ \E k \in 0..1 : /\ n = Len(s) + 1 - k /\ (k = 1 => n = MemoryLimit)
                         /\ \A i \in 1..(n - 1) : t[i] = s[i + k] /\ i + k \in 1..Len(s)
  <2>1. a \in Actors /\ Gets(a, c)
    BY <1>3
  <2> HIDE <1>1, <1>2, <1>3 DEF now, s, t, n
  <2> QED BY <2>1, MemoryAppends DEF now, s, t, n
<1>5. PICK k \in 0..1 : /\ n = Len(s) + 1 - k /\ (k = 1 => n = MemoryLimit)
                        /\ \A i \in 1..(n - 1) : t[i] = s[i + k] /\ i + k \in 1..Len(s)
  BY <1>4
<1>6. ~Ended(now) /\ \A i \in DOMAIN s : s[i].id # now
  BY EndTerminals
<1>7. /\ \A i \in DOMAIN s :
             /\ s[i].id.actor = a
             /\ \A p \in ConsumedOf(transcript, s[i].id) : transcript[p].choice = s[i].choice
      /\ \A i \in DOMAIN s, j \in DOMAIN s :
             \A p \in ConsumedOf(transcript, s[i].id), q \in ConsumedOf(transcript, s[j].id) :
                 (i < j => p < q) /\ (i = j => p = q)
      /\ \A p \in TurnsOf(a), q \in TurnsOf(a) : IsHeld(a, p) /\ p < q => IsHeld(a, q)
      /\ Len(s) < MemoryLimit => \A p \in TurnsOf(a) : IsHeld(a, p)
  BY DEF HoldsOwnTurns
<1>8. /\ \A p : IsHeld(a, p) <=> \E i \in DOMAIN s : s[i].id = transcript[p].id
      /\ \A p : IsHeld(a, p)' <=> \E i \in DOMAIN t : t[i].id = transcript'[p].id
  BY DEF IsHeld
<1>9. /\ TurnsOf(a) = {p \in C : transcript[p].id.actor = a}
      /\ TurnsOf(a)' = {p \in C \cup N : transcript'[p].id.actor = a}
  BY <1>2 DEF TurnsOf
<1>10. \A id : ConsumedOf(transcript, id) = {p \in C : transcript[p].id = id}
  BY DEF ConsumedOf
<1>11. SubmittedAt(a) \in Nat
  BY ReleasedAdded DEF RecordShape, CouncilShape, SubmittedAt
<1>12. \A p \in C : transcript[p].id # now
  BY <1>6 DEF ConsumedFit
<1> HIDE DEF C, now, s, t, n
\* The entries that were kept.
<1>13. ASSUME NEW i \in 1..(n - 1)
       PROVE  /\ i + k \in DOMAIN s /\ t[i] = s[i + k] /\ t[i].id # now
              /\ ConsumedOf(transcript', t[i].id) = ConsumedOf(transcript, s[i + k].id)
  <2>1. i + k \in DOMAIN s /\ t[i] = s[i + k]
    BY <1>4, <1>5
  <2> QED BY <1>1, <1>6, <2>1
<1>14. \A i \in DOMAIN t : i \in 1..(n - 1) \/ i = n
  BY <1>4
<1>15. \A i \in DOMAIN t :
           /\ t[i].id.actor = a
           /\ \A p \in ConsumedOf(transcript', t[i].id) : transcript'[p].choice = t[i].choice
  <2> TAKE i \in DOMAIN t
  <2>1. CASE i \in 1..(n - 1)
    BY <1>1, <1>7, <1>13, <2>1
  <2>2. CASE i = n
    BY <1>1, <1>2, <1>3, <1>4, <2>2
  <2> QED BY <1>14, <2>1, <2>2
<1>16. \A i \in DOMAIN t, j \in DOMAIN t :
           \A p \in ConsumedOf(transcript', t[i].id), q \in ConsumedOf(transcript', t[j].id) :
               (i < j => p < q) /\ (i = j => p = q)
  <2> TAKE i \in DOMAIN t, j \in DOMAIN t
  <2> TAKE p \in ConsumedOf(transcript', t[i].id), q \in ConsumedOf(transcript', t[j].id)
  <2>0. i \in Nat /\ j \in Nat /\ n \in Nat /\ k \in Nat
    BY <1>4, <1>5
  <2>1. CASE i \in 1..(n - 1) /\ j \in 1..(n - 1)
    <3>1. p \in ConsumedOf(transcript, s[i + k].id) /\ q \in ConsumedOf(transcript, s[j + k].id)
          /\ i + k \in DOMAIN s /\ j + k \in DOMAIN s
      BY <1>13, <2>1
    <3>2. (i + k < j + k => p < q) /\ (i + k = j + k => p = q)
      BY <1>7, <3>1
    <3> QED BY <2>0, <3>2
  <2>2. CASE i \in 1..(n - 1) /\ j = n
    <3>1. p \in ConsumedOf(transcript, s[i + k].id) /\ q \in N
      BY <1>1, <1>4, <1>13, <2>2
    <3>2. p < q
      BY <1>1, <1>2, <1>10, <3>1
    <3> QED BY <2>0, <2>2, <3>2
  <2>3. CASE i = n
    <3>1. p \in N /\ (j = n => q \in N)
      BY <1>1, <1>4, <2>3
    <3>2. ~(i < j)
      BY <1>4, <2>0, <2>3
    <3> QED BY <1>2, <2>3, <3>1, <3>2
  <2> QED BY <1>14, <2>1, <2>2, <2>3
<1>17. ASSUME NEW m \in DOMAIN s, m > k PROVE m - k \in DOMAIN t /\ t[m - k] = s[m]
  <2>1. m \in Nat /\ m <= Len(s) /\ Len(s) \in Nat /\ n \in Nat /\ k \in Nat /\ n = Len(s) + 1 - k
    <3>1. Len(s) \in Nat /\ n \in Nat /\ m \in 1..Len(s)
      BY <1>4
    <3>2. k \in 0..1 /\ n = Len(s) + 1 - k
      BY <1>5
    <3> QED BY <3>1, <3>2
  <2>2. m - k \in 1..(n - 1) /\ m - k \in 1..n /\ (m - k) + k = m
    BY <1>17, <2>1
  <2>3. t[m - k] = s[(m - k) + k]
    BY <1>5, <2>2
  <2> QED BY <1>4, <2>2, <2>3
<1>18. \A q \in N : IsHeld(a, q)'
  <2>1. n \in DOMAIN t
    BY <1>4
  <2> QED BY <1>2, <1>4, <1>8, <2>1
<1>19. ASSUME NEW p \in TurnsOf(a)', NEW q \in TurnsOf(a)', IsHeld(a, p)', p < q PROVE IsHeld(a, q)'
  <2>1. CASE q \in N
    BY <1>18, <2>1
  <2>2. CASE q \in C
    <3>0. p \in C \cup N
      BY <1>9
    <3>1. p \in C
      <4> SUFFICES ASSUME p \in N PROVE FALSE
        BY <3>0
      <4>1. p = SubmittedAt(a) /\ q \in Nat /\ q < SubmittedAt(a)
        BY <1>1, <1>2, <2>2
      <4> QED BY <1>11, <1>19, <4>1
    <3>2. p \in TurnsOf(a) /\ q \in TurnsOf(a) /\ transcript'[p] = transcript[p] /\ transcript'[q] = transcript[q]
      BY <1>2, <1>9, <2>2, <3>1
    <3>3. PICK i \in DOMAIN t : t[i].id = transcript[p].id
      BY <1>8, <1>19, <3>2
    <3>4. i \in 1..(n - 1)
      BY <1>4, <1>12, <1>14, <3>1, <3>3
    <3>5. i + k \in DOMAIN s /\ s[i + k].id = transcript[p].id
      BY <1>13, <3>3, <3>4
    <3>6. IsHeld(a, q)
      BY <1>7, <1>8, <1>19, <3>2, <3>5
    <3>7. PICK m \in DOMAIN s : s[m].id = transcript[q].id
      BY <1>8, <3>6
    <3>8. p \in ConsumedOf(transcript, s[i + k].id) /\ q \in ConsumedOf(transcript, s[m].id)
      BY <1>10, <2>2, <3>1, <3>5, <3>7
    <3>9. m < i + k => q < p
      BY <1>7, <3>5, <3>7, <3>8
    <3>10. p \in Nat /\ q \in Nat /\ m \in Nat /\ i \in Nat /\ k \in Nat /\ i >= 1
      BY <1>1, <1>4, <1>5, <2>2, <3>1, <3>4
    <3>11. m > k
      BY <1>19, <3>9, <3>10
    <3> QED BY <1>8, <1>17, <3>2, <3>7, <3>11
  <2> QED BY <1>9, <2>1, <2>2
<1>20. ASSUME n < MemoryLimit, NEW p \in TurnsOf(a)' PROVE IsHeld(a, p)'
  <2>1. CASE p \in N
    BY <1>18, <2>1
  <2>2. CASE p \in C
    <3>1. k = 0 /\ Len(s) < MemoryLimit
      BY <1>4, <1>5, <1>20
    <3>2. p \in TurnsOf(a) /\ transcript'[p] = transcript[p]
      BY <1>2, <1>9, <2>2
    <3>3. PICK m \in DOMAIN s : s[m].id = transcript[p].id
      BY <1>7, <1>8, <3>1, <3>2
    <3>4. m > k
      BY <1>4, <3>1
    <3> QED BY <1>8, <1>17, <3>2, <3>3, <3>4
  <2> QED BY <1>9, <2>1, <2>2
<1> QED BY <1>15, <1>16, <1>19, <1>20 DEF HoldsOwnTurns, t, n

\* Whoever ends a turn, all hold their last turns.
MemoryGets(a, c, N) ==
    /\ \A b \in Actors \ {a} : memory'[b] = memory[b]
    /\ (N = {} /\ memory'[a] = memory[a]) \/ Gets(a, c)
LEMMA EndMemory ==
    ASSUME RecordShape, TerminalsFit, RequestsFit, ConsumedFit, MemoryFits, NEW a \in asked,
           EndsTurn(a), NEW c, NEW N, ConsumedGrows(a, c.name, N), MemoryGets(a, c, N),
           N # {} /\ stage = "cipher_council" => c.name \in {"message", "skip"}
    PROVE  /\ MemoryFits'
           /\ \A b \in Actors : IsRows(memory'[b]) /\ Len(memory'[b]) <= MemoryLimit
<1>1. /\ \A id : Ended(id) => Ended(id)'
      /\ \A id : id = IdOf(a) => Ended(id)'
  BY EndTerminals
<1>2. a \in Actors
  BY AskedIsNow
<1>3. \A b \in Actors : /\ \A i \in DOMAIN memory[b] : Ended(memory[b][i].id)
                        /\ HoldsOwnTurns(b)
  BY DEF MemoryFits
<1>4. \A b \in Actors : IsRows(memory[b]) /\ Len(memory[b]) <= MemoryLimit
  BY DEF RecordShape
<1>5. ASSUME NEW b \in Actors, memory'[b] = memory[b], N = {} \/ b # a
      PROVE  /\ \A i \in DOMAIN memory'[b] : Ended(memory[b][i].id)'
             /\ HoldsOwnTurns(b)' /\ IsRows(memory'[b]) /\ Len(memory'[b]) <= MemoryLimit
  <2>1. \A i \in DOMAIN memory'[b] : Ended(memory[b][i].id)'
    <3> TAKE i \in DOMAIN memory'[b]
    <3>1. PICK x : x = memory[b][i].id
      OBVIOUS
    <3>2. Ended(x)'
      BY <1>1, <1>3, <1>5, <3>1
    <3> QED BY <1>5, <3>1, <3>2
  <2>2. HoldsOwnTurns(b)'
    <3>1. HoldsOwnTurns(b)
      BY <1>3
    <3> HIDE <1>1, <1>2, <1>3, <1>4
    <3> QED BY <1>5, <3>1, HoldsOld
  <2> QED BY <1>4, <1>5, <2>1, <2>2
<1>6. ASSUME Gets(a, c)
      PROVE  /\ \A i \in DOMAIN memory'[a] : Ended(memory[a][i].id)'
             /\ HoldsOwnTurns(a)' /\ IsRows(memory'[a]) /\ Len(memory'[a]) <= MemoryLimit
  <2> DEFINE s == memory[a]
             t == memory'[a]
  <2>1. /\ DOMAIN s = 1..Len(s) /\ IsRows(t) /\ Len(t) \in Nat /\ DOMAIN t = 1..Len(t)
        /\ Len(t) >= 1 /\ Len(t) <= MemoryLimit /\ t[Len(t)].id = IdOf(a)
        /\ \E k \in 0..1 : \A i \in 1..(Len(t) - 1) : t[i] = s[i + k] /\ i + k \in 1..Len(s)
    BY <1>2, <1>6, MemoryAppends
  <2>2. HoldsOwnTurns(a)'
    <3>1. HoldsOwnTurns(a) /\ \A i \in DOMAIN memory[a] : Ended(memory[a][i].id)
      BY <1>2, <1>3
    <3> HIDE <1>1, <1>2, <1>3, <1>4, <2>1 DEF s, t
    <3> QED BY <1>6, <3>1, HoldsNew
  <2>3. \A i \in DOMAIN s : Ended(s[i].id)
    BY <1>2, <1>3
  <2>4. \A i \in DOMAIN t : Ended(memory[a][i].id)'
    <3> TAKE i \in DOMAIN t
    <3>1. PICK x : x = t[i].id
      OBVIOUS
    <3>2. Ended(x)'
      <4> HIDE DEF s, t
      <4>1. CASE i = Len(t)
        BY <1>1, <2>1, <3>1, <4>1
      <4>2. CASE i \in 1..(Len(t) - 1)
        BY <1>1, <2>1, <2>3, <3>1, <4>2
      <4> QED BY <2>1, <4>1, <4>2
    <3> QED BY <3>1, <3>2
  <2> QED BY <2>1, <2>2, <2>4 DEF t
<1>7. ASSUME NEW b \in Actors
      PROVE  /\ \A i \in DOMAIN memory'[b] : Ended(memory[b][i].id)'
             /\ HoldsOwnTurns(b)' /\ IsRows(memory'[b]) /\ Len(memory'[b]) <= MemoryLimit
  BY <1>5, <1>6 DEF MemoryGets
<1> QED BY <1>7 DEF MemoryFits

\* Of two actors, the request of one is accepted before that of the other.
LEMMA OneIsBefore ==
    ASSUME NEW b \in Actors, NEW c \in Actors, b # c
    PROVE  AcceptedBefore(b, c) \/ AcceptedBefore(c, b)
<1>1. DOMAIN Order = 1..Players /\ Players \in Nat
  BY CouncilCounts
<1>2. PICK i \in DOMAIN Order : b = Order[i]
  BY DEF Actors
<1>3. PICK j \in DOMAIN Order : c = Order[j]
  BY DEF Actors
<1>4. i < j \/ j < i
  BY <1>1, <1>2, <1>3
<1> QED BY <1>2, <1>3, <1>4 DEF AcceptedBefore

\* What is held back at the end of a request was accepted after one that is open.
LEMMA EndHolds ==
    ASSUME RecordShape, NEW a \in asked,
           asked' = asked \ {a}, held' = (held \cup {a}) \ Released(a)
    PROVE  /\ held' \subseteq Actors \ asked' /\ asked' \cup held' \subseteq asked \cup held
           /\ \A b \in held' : \E d \in asked' : AcceptedBefore(d, b)
<1>1. held \subseteq Actors \ asked /\ asked \subseteq Actors
  BY DEF RecordShape, CouncilShape
<1>2. ASSUME NEW b \in held' PROVE \E d \in asked' : AcceptedBefore(d, b)
  <2>1. b \in held \cup {a} /\ b \in Actors /\ b \notin asked'
    BY <1>1
  <2>2. PICK d \in asked \ {a} : ~AcceptedBefore(b, d)
    BY <2>1 DEF Released
  <2>3. AcceptedBefore(d, b)
    BY <1>1, <2>1, <2>2, OneIsBefore
  <2> QED BY <2>3
<1> QED BY <1>1, <1>2

\* What ends a turn: what it leaves of the records, and the choice it comes to.
EndsAs(a, c, N) ==
    /\ EndsTurn(a) /\ ConsumedGrows(a, c.name, N) /\ MemoryGets(a, c, N) /\ DOMAIN memory' = Actors
    /\ N # {} /\ stage = "cipher_council" => c.name \in {"message", "skip"}
    /\ \A b \in Actors \ {a} : chosen'[b] = chosen[b]
    /\ IF N = {} THEN chosen'[a] = chosen[a] ELSE chosen'[a] # NoChoice <=> c.name # "skip"
    /\ chosen' \in [Actors -> [name : ChoiceNames, members : SUBSET Actors]]
    /\ tries' = tries /\ DOMAIN count' = DOMAIN count /\ count'.proposals = count.proposals
    /\ count'.rounds = count.rounds /\ count'.requests = count.requests
    /\ count'.messages = count.messages /\ count'.absent = count.absent
    /\ status' = status \/ status' = "broken"

\* The state keeps its shape.
LEMMA EndShape ==
    ASSUME RecordsFit, NEW a \in asked, NEW c, NEW N, EndsAs(a, c, N)
    PROVE  RecordShape' /\ MemoryFits' /\ ConsumedFit' /\ TerminalsFit' /\ RequestsFit'
<1>1. RecordShape /\ CouncilShape /\ TerminalsFit /\ RequestsFit /\ ConsumedFit /\ MemoryFits
  BY DEF RecordsFit, RecordShape
<1>2. /\ EndsTurn(a) /\ ConsumedGrows(a, c.name, N) /\ MemoryGets(a, c, N)
      /\ N # {} /\ stage = "cipher_council" => c.name \in {"message", "skip"}
  BY DEF EndsAs
<1>3. MemoryFits' /\ \A b \in Actors : IsRows(memory'[b]) /\ Len(memory'[b]) <= MemoryLimit
  BY <1>1, <1>2, EndMemory
<1>4. ConsumedFit'
  <2> DEFINE n == c.name
  <2>1. ConsumedGrows(a, n, N) /\ (N # {} /\ stage = "cipher_council" => n \in {"message", "skip"})
    BY <1>2
  <2> HIDE DEF n
  <2> HIDE <1>3
  <2> QED BY <1>1, <1>2, <2>1, EndConsumed
<1>5. TerminalsFit' /\ RequestsFit'
  BY <1>1, <1>2, EndTerminals
<1>6. /\ UNCHANGED <<setup, stage, mission, attempt, turn, team, approvals, score, history>>
      /\ asked' = asked \ {a} /\ IsRows(transcript')
  BY <1>2 DEF EndsTurn, EndRows, schedule
<1>7. CouncilShape'
  BY <1>1, <1>6 DEF CouncilShape, EndsAs
<1>8. /\ status' \in {"running", "over", "broken"}
      /\ status' = "over" => asked' = {} /\ stage' # "cipher_council"
  BY <1>1, <1>6 DEF RecordShape, EndsAs
<1>9. RecordShape'
  <2>1. tries' \in [Actors -> 0..MaxAttempts] /\ DOMAIN memory' = Actors
    BY <1>1 DEF RecordShape, EndsAs
  <2>2. asked' \subseteq asked
    BY <1>6
  <2>3. /\ held' \subseteq Actors \ asked' /\ asked' \cup held' \subseteq asked \cup held
        /\ \A b \in held' : \E d \in asked' : AcceptedBefore(d, b)
    BY <1>1, <1>2, EndHolds DEF EndsTurn
  <2> QED BY <1>1, <1>3, <1>6, <1>7, <1>8, <2>1, <2>2, <2>3 DEF RecordShape
<1> QED BY <1>3, <1>4, <1>5, <1>9

\* The rows that are not of a turn tell what they told.
LEMMA EndKeepsRows ==
    ASSUME RecordsFit, NEW a \in asked, NEW c, NEW N, EndsAs(a, c, N)
    PROVE  ChannelFits' /\ CountsFit' /\ RolesFit' /\ SeenFits'
<1>1. /\ RecordShape /\ CouncilShape /\ IsRows(transcript) /\ EndsTurn(a) /\ EndRows(a)
      /\ ChannelFits /\ CountsFit /\ RolesFit /\ SeenFits
  BY DEF RecordsFit, RecordShape, CouncilShape, EndsAs, EndsTurn
<1>2. /\ SameOf(transcript, transcript', "role") /\ SameOf(transcript, transcript', "round")
      /\ SameOf(transcript, transcript', "request") /\ SameOf(transcript, transcript', "message")
      /\ IsRows(transcript')
  BY <1>1 DEF EndRows
<1>3. /\ setup' = setup /\ stage' = stage /\ history' = history /\ Strategic' = Strategic
      /\ Open' = Open
  BY <1>1 DEF EndsTurn, schedule, Strategic, Open
<1>4. RoundsIn(transcript') = RoundsIn(transcript)
      /\ RowsOf(transcript', "round") = RowsOf(transcript, "round")
      /\ \A i \in RowsOf(transcript, "round") : transcript'[i] = transcript[i]
  BY <1>2 DEF SameOf, RoundsIn
<1>5. /\ StrategyRequests(transcript') = StrategyRequests(transcript)
      /\ \A i \in StrategyRequests(transcript) : transcript'[i] = transcript[i]
      /\ \A r : RequestsIn(r)' = RequestsIn(r)
  <2>1. StrategyRequests(transcript') = StrategyRequests(transcript)
        /\ \A i \in StrategyRequests(transcript) : transcript'[i] = transcript[i]
    BY <1>2 DEF SameOf, StrategyRequests
  <2> QED BY <2>1 DEF RequestsIn
<1>6. RowsOf(transcript', "message") = RowsOf(transcript, "message")
  BY <1>2 DEF SameOf
<1>7. ChannelFits'
  <2>1. {transcript'[i].id.round : i \in StrategyRequests(transcript')} =
            {transcript[i].id.round : i \in StrategyRequests(transcript)}
    BY <1>5
  <2>2. \A r : /\ RequestsIn(r) \subseteq StrategyRequests(transcript)
               /\ {transcript'[i].id.actor : i \in RequestsIn(r)} =
                      {transcript[i].id.actor : i \in RequestsIn(r)}
    BY <1>5 DEF RequestsIn
  <2>3. \A i, j \in RowsOf(transcript', "round") : transcript'[i].round = transcript'[j].round => i = j
    BY <1>1, <1>4 DEF ChannelFits
  <2>4. \A r \in RoundsIn(transcript') : Strategic' =>
           /\ {transcript'[i].id.actor : i \in RequestsIn(r)'} = Ciphers
           /\ Cardinality(RequestsIn(r)') = Cardinality(Ciphers)
    BY <1>1, <1>3, <1>4, <1>5, <2>2 DEF ChannelFits
  <2> QED BY <1>1, <1>3, <1>4, <2>1, <2>3, <2>4 DEF ChannelFits
<1>8. CountsFit'
  <2>1. /\ count'.rounds = count.rounds /\ count'.requests = count.requests
        /\ count'.messages = count.messages /\ count'.absent = count.absent
    BY DEF EndsAs
  <2> QED BY <1>1, <1>3, <1>4, <1>5, <1>6, <2>1 DEF CountsFit
<1>9. RolesFit'
  BY <1>1, <1>2, RolesKept
<1>10. SeenFits'
  <2>1. Len(transcript) \in Nat /\ Len(transcript') \in Nat
        /\ RowsOf(transcript', "terminal") \subseteq 1..Len(transcript')
        /\ RowsOf(transcript, "request") \subseteq 1..Len(transcript)
    BY <1>1, <1>2, RowPlaces
  <2>2. Len(transcript') >= Len(transcript)
    BY <1>1 DEF EndRows
  <2>3. IsRows(<<>>) /\ RowsOf(<<>>, "message") = {}
    BY DEF IsRows, RowsOf
  <2>4. RowsAdded(transcript, <<>>, transcript', "message")
    BY <1>2, <2>3 DEF RowsAdded, SameOf
  <2>5. Delivered' = Delivered
    <3>1. DeliveredBefore(transcript', Len(transcript') + 1) = Delivered
      BY <1>1, <2>1, <2>2, <2>3, <2>4, DeliveredSame
    <3> QED BY <3>1 DEF Delivered
  <2>6. \A i \in RowsOf(transcript, "request") :
            DeliveredBefore(transcript', i) = DeliveredBefore(transcript, i)
    <3> TAKE i \in RowsOf(transcript, "request")
    <3>1. i \in Nat /\ i <= Len(transcript) + 1
      BY <2>1
    <3> QED BY <1>1, <2>3, <2>4, <3>1, DeliveredKept
  <2>7. RowsOf(transcript', "request") = RowsOf(transcript, "request")
        /\ \A i \in RowsOf(transcript, "request") : transcript'[i] = transcript[i]
    BY <1>2 DEF SameOf
  <2>8. \A i \in RowsOf(transcript, "request") : Observes(i)' = Observes(i)
    BY <2>6, <2>7 DEF Observes
  <2> QED BY <1>1, <1>3, <2>5, <2>7, <2>8 DEF SeenFits
<1> QED BY <1>7, <1>8, <1>9, <1>10

\* A message is spoken when it is consumed, and delivered later.
LEMMA EndMessages ==
    ASSUME RecordsFit, NEW a \in asked, NEW c, NEW N, EndsAs(a, c, N)
    PROVE  MessagesFit'
<1>1. /\ RecordShape /\ TerminalsFit /\ RequestsFit /\ ConsumedFit /\ MessagesFit
      /\ EndsTurn(a) /\ EndRows(a) /\ ConsumedGrows(a, c.name, N)
      /\ N # {} /\ stage = "cipher_council" => c.name \in {"message", "skip"}
  BY DEF RecordsFit, EndsAs, EndsTurn
<1> DEFINE now == IdOf(a)
           M == RowsOf(transcript, "message")
           T == RowsOf(transcript, "terminal")
           C == RowsOf(transcript, "consumed")
<1>2. /\ ConsumedOf(transcript, now) = {} /\ ConsumedOf(transcript', now) = N
      /\ \A id : id # now => ConsumedOf(transcript', id) = ConsumedOf(transcript, id)
      /\ \A id : \A p \in ConsumedOf(transcript, id) : transcript'[p] = transcript[p]
  <2> DEFINE n == c.name
  <2>1. ConsumedGrows(a, n, N) /\ (N # {} /\ stage = "cipher_council" => n \in {"message", "skip"})
    BY <1>1
  <2> HIDE DEF n
  <2> QED BY <1>1, <2>1, EndConsumed
<1>3. /\ RowsOf(transcript', "consumed") = C \cup N
      /\ \A p \in C : transcript'[p] = transcript[p]
      /\ \A p \in N : transcript'[p].id = now /\ transcript'[p].choice = c.name
  BY <1>1 DEF ConsumedGrows
<1>4. /\ RowsOf(transcript', "message") = M /\ \A m \in M : transcript'[m] = transcript[m]
      /\ RowsOf(transcript', "terminal") = T \cup EndedAt(a)
      /\ \A i \in T : transcript'[i] = transcript[i]
      /\ \A i \in EndedAt(a) : transcript'[i].id.stage = stage /\ transcript'[i].id.round = RoundKey
  <2>1. SameOf(transcript, transcript', "message")
    BY <1>1 DEF EndRows
  <2>2. \A b : TerminalRow(b).id.stage = stage /\ TerminalRow(b).id.round = RoundKey
    BY DEF TerminalRow, IdOf, RequestId
  <2> QED BY <1>1, <2>1, <2>2 DEF SameOf, EndRows
<1>5. /\ \A id : InChannel(id)' = InChannel(id)
      /\ \A b : IdOf(b)' = IdOf(b)
      /\ stage' = stage
  BY <1>1, SameNow DEF EndsTurn
<1>6. \A id : MessagesOf(transcript', id) = MessagesOf(transcript, id)
  <2>1. SameOf(transcript, transcript', "message")
    BY <1>1 DEF EndRows
  <2> QED BY <2>1, SameRowsTellTheSame
<1>7. /\ now.stage = stage /\ now.round = RoundKey /\ now.actor = a /\ a \in Actors
      /\ \A b : IdOf(b).actor = b
  BY <1>1, AskedIsNow DEF IdOf, RequestId
<1>8. stage = "cipher_council" => RoundKey = This
  BY DEF RoundKey, This
<1>9. /\ \A m \in M :
            /\ transcript[m].to = Ciphers /\ Spoken(StrategyId(transcript[m].entry))
            /\ ~InChannel(StrategyId(transcript[m].entry))
            /\ \A i \in T : transcript[i].id.stage = "cipher_council"
                            /\ transcript[i].id.round = transcript[m].entry.round => i < m
      /\ \A m, n \in M :
            StrategyId(transcript[m].entry) = StrategyId(transcript[n].entry) => m = n
      /\ \A i \in C :
            transcript[i].id.stage = "cipher_council" /\ transcript[i].choice = "message"
            => InChannel(transcript[i].id) \/ MessagesOf(transcript, transcript[i].id) # {}
      /\ stage = "cipher_council" => \A b \in Ciphers : chosen[b] # NoChoice <=> Spoken(IdOf(b))
  BY <1>1 DEF MessagesFit
<1> HIDE DEF now, M, T, C
<1>10. /\ \A id : id # now => (Spoken(id)' <=> Spoken(id))
       /\ ~Spoken(now) /\ (Spoken(now)' <=> N # {} /\ c.name = "message")
  <2>1. \A id : id # now => (Spoken(id)' <=> Spoken(id))
    <3> SUFFICES ASSUME NEW id, id # now PROVE Spoken(id)' <=> Spoken(id)
      OBVIOUS
    <3>1. ConsumedOf(transcript', id) = ConsumedOf(transcript, id)
          /\ \A p \in ConsumedOf(transcript, id) : transcript'[p] = transcript[p]
      BY <1>2
    <3> QED BY <3>1 DEF Spoken
  <2>2. ~Spoken(now)
    BY <1>2 DEF Spoken
  <2>3. PICK x : x = now
    OBVIOUS
  <2>4. Spoken(x)' <=> N # {} /\ c.name = "message"
    <3>1. ConsumedOf(transcript', x) = N
      BY <1>2, <2>3
    <3> QED BY <1>3, <3>1 DEF Spoken
  <2>5. now' = now
    BY <1>5 DEF now
  <2> QED BY <2>1, <2>2, <2>3, <2>4, <2>5
<1>11. \A id : Spoken(id) => Spoken(id)'
  <2> SUFFICES ASSUME NEW id, Spoken(id) PROVE Spoken(id)'
    OBVIOUS
  <2>1. id # now
    BY <1>10
  <2> QED BY <1>10, <2>1
<1>12. ASSUME NEW m \in M
       PROVE  /\ transcript'[m].to = Ciphers /\ Spoken(StrategyId(transcript[m].entry))'
              /\ ~(InChannel(StrategyId(transcript[m].entry))')
              /\ \A i \in T \cup EndedAt(a) :
                    transcript'[i].id.stage = "cipher_council"
                    /\ transcript'[i].id.round = transcript'[m].entry.round => i < m
  <2>1. PICK x : x = StrategyId(transcript[m].entry)
    OBVIOUS
  <2>2. Spoken(x)' /\ ~(InChannel(x)') /\ ~InChannel(x)
    BY <1>5, <1>9, <1>11, <2>1
  <2>3. StrategyId(transcript'[m].entry) = x
    BY <1>4, <2>1
  <2>4. x.round = transcript[m].entry.round
    BY <2>1 DEF StrategyId, RequestId
  <2>5. ~(stage = "cipher_council" /\ RoundKey = transcript[m].entry.round)
    BY <1>8, <2>2, <2>4 DEF InChannel
  <2>6. \A i \in T \cup EndedAt(a) :
            transcript'[i].id.stage = "cipher_council"
            /\ transcript'[i].id.round = transcript'[m].entry.round => i < m
    BY <1>4, <1>9, <2>5
  <2> QED BY <1>4, <1>9, <2>2, <2>3, <2>6
<1>13. \A m, n \in M :
           StrategyId(transcript'[m].entry) = StrategyId(transcript'[n].entry) => m = n
  BY <1>4, <1>9
<1>14. ASSUME NEW i \in C \cup N, transcript'[i].id.stage = "cipher_council",
              transcript'[i].choice = "message"
       PROVE  InChannel(transcript[i].id)' \/ MessagesOf(transcript', transcript'[i].id) # {}
  <2>1. PICK x : x = transcript'[i].id
    OBVIOUS
  <2>2. CASE i \in C
    BY <1>3, <1>5, <1>6, <1>9, <1>14, <2>1, <2>2
  <2>3. CASE i \in N
    <3>1. x = now /\ stage = "cipher_council"
      BY <1>3, <1>7, <1>14, <2>1, <2>3
    <3>2. InChannel(x)
      BY <1>7, <1>8, <3>1 DEF InChannel
    <3>3. InChannel(x)'
      BY <1>5, <3>2
    <3> QED BY <2>1, <3>3
  <2> QED BY <2>2, <2>3
<1>15. ASSUME stage = "cipher_council", NEW b \in Ciphers
       PROVE  chosen'[b] # NoChoice <=> Spoken(IdOf(b))'
  <2>1. PICK x : x = IdOf(b)
    OBVIOUS
  <2>2. IdOf(b)' = x /\ (chosen[b] # NoChoice <=> Spoken(x)) /\ x.actor = b
    BY <1>5, <1>7, <1>9, <1>15, <2>1
  <2>3. CASE b # a
    <3>1. x # now /\ b \in Actors
      BY <1>7, <2>2, <2>3, CouncilAssumption
    <3>2. chosen'[b] = chosen[b]
      BY <2>3, <3>1 DEF EndsAs
    <3> QED BY <1>10, <2>2, <3>1, <3>2
  <2>4. CASE b = a
    <3>1. x = now
      BY <2>1, <2>4 DEF now
    <3>2. Spoken(x)' <=> N # {} /\ c.name = "message"
      BY <1>10, <3>1, <1>5 DEF now
    <3>3. CASE N = {}
      <4>1. chosen'[b] = chosen[b] /\ ~Spoken(x)
        BY <1>10, <2>4, <3>1, <3>3 DEF EndsAs
      <4> QED BY <2>2, <3>2, <3>3, <4>1
    <3>4. CASE N # {}
      <4>1. chosen'[b] # NoChoice <=> c.name # "skip"
        BY <2>4, <3>4 DEF EndsAs
      <4>2. c.name # "skip" <=> c.name = "message"
        BY <1>1, <1>15, <3>4
      <4> QED BY <2>2, <3>2, <3>4, <4>1, <4>2
    <3> QED BY <3>3, <3>4
  <2> QED BY <2>3, <2>4
<1> QED BY <1>3, <1>4, <1>5, <1>12, <1>13, <1>14, <1>15 DEF MessagesFit

\* A turn that ends leaves the records as they fit.
LEMMA EndRecords ==
    ASSUME RecordsFit, NEW a \in asked, NEW c, NEW N, EndsAs(a, c, N)
    PROVE  RecordsFit'
BY EndShape, EndKeepsRows, EndMessages DEF RecordsFit

\* A turn of which nothing is consumed, whether or not it is remembered.
LEMMA EndsUnconsumed ==
    ASSUME RecordsFit, NEW a \in asked, NEW c,
           RequestEnds(a, <<>>),
           UNCHANGED <<setup, stage, chosen, tries, schedule>>,
           count' = count \/ count' = [count EXCEPT !.failures = @ + 1],
           status' = status \/ status' = "broken",
           memory' = memory \/ memory' = [memory EXCEPT ![a] = Remembered(a, c)]
    PROVE  RecordsFit'
<1>1. RecordShape /\ CouncilShape /\ IsRows(transcript) /\ a \in Actors /\ DOMAIN memory = Actors
      /\ DOMAIN count = DOMAIN ZeroCounts
      /\ chosen \in [Actors -> [name : ChoiceNames, members : SUBSET Actors]]
  BY DEF RecordsFit, RecordShape, CouncilShape
<1>2. EndRows(a) /\ SameOf(transcript, transcript', "consumed")
  <2>1. transcript' = Told(a)
    BY <1>1, RowsAtEnd
  <2>2. Released(a) \subseteq Actors
    BY <1>1 DEF Released, RecordShape
  <2> QED BY <1>1, <2>1, <2>2, TerminalAdded
<1>3. EndsTurn(a)
  BY <1>2 DEF EndsTurn, RequestEnds
<1>4. ConsumedGrows(a, c.name, {})
  BY <1>2 DEF ConsumedGrows, SameOf
<1>5. MemoryGets(a, c, {}) /\ DOMAIN memory' = Actors
  BY <1>1 DEF MemoryGets, Gets
<1>6. DOMAIN count' = DOMAIN count /\ count'.proposals = count.proposals
      /\ count'.rounds = count.rounds /\ count'.requests = count.requests
      /\ count'.messages = count.messages /\ count'.absent = count.absent
  BY <1>1 DEF ZeroCounts
<1>7. chosen' = chosen /\ tries' = tries
  OBVIOUS
<1>8. EndsAs(a, c, {})
  BY <1>1, <1>3, <1>4, <1>5, <1>6, <1>7 DEF EndsAs
<1> QED BY <1>8, EndRecords

\* A turn of which the environment consumes the choice.
LEMMA EndsConsumed ==
    ASSUME RecordsFit, NEW a \in asked, NEW c \in Submittable(a), Submits(a, c)
    PROVE  RecordsFit'
<1>1. RecordShape /\ CouncilShape /\ IsRows(transcript) /\ a \in Actors /\ DOMAIN memory = Actors
      /\ DOMAIN count = DOMAIN ZeroCounts
      /\ chosen \in [Actors -> [name : ChoiceNames, members : SUBSET Actors]]
  BY DEF RecordsFit, RecordShape, CouncilShape
<1>2. /\ IsLegal(a, c) /\ asked' = asked \ {a}
      /\ chosen' = [chosen EXCEPT ![a] = IF c.name = "skip" THEN NoChoice ELSE c]
      /\ count' = [count EXCEPT !.decisions = @ + 1, !.skips = @ + (IF c.name = "skip" THEN 1 ELSE 0)]
      /\ memory' = [memory EXCEPT ![a] = Remembered(a, c)]
      /\ transcript' = Told(a) \o <<ConsumedRow(a, c)>>
      /\ UNCHANGED <<setup, status, stage, tries, schedule>>
  BY DEF Submits, RequestEnds, Told
<1>3. EndRows(a)
  <2>1. Released(a) \subseteq Actors
    BY <1>1 DEF Released, RecordShape
  <2> QED BY <1>1, <1>2, <2>1, SubmissionAdded
<1>4. EndsTurn(a)
  BY <1>2, <1>3 DEF EndsTurn, Submits, RequestEnds
<1>5. ConsumedGrows(a, c.name, {SubmittedAt(a)})
  <2>1. /\ RowsOf(transcript', "consumed") = RowsOf(transcript, "consumed") \cup {SubmittedAt(a)}
        /\ \A i \in RowsOf(transcript, "consumed") : transcript'[i] = transcript[i]
        /\ transcript'[SubmittedAt(a)] = ConsumedRow(a, c)
    BY <1>1, <1>2, SubmitRows
  <2>2. ConsumedRow(a, c).id = IdOf(a) /\ ConsumedRow(a, c).choice = c.name
    BY DEF ConsumedRow
  <2> QED BY <2>1, <2>2 DEF ConsumedGrows
<1>6. MemoryGets(a, c, {SubmittedAt(a)}) /\ DOMAIN memory' = Actors
  BY <1>1, <1>2 DEF MemoryGets, Gets
<1>7. DOMAIN count' = DOMAIN count /\ count'.proposals = count.proposals
      /\ count'.rounds = count.rounds /\ count'.requests = count.requests
      /\ count'.messages = count.messages /\ count'.absent = count.absent
  BY <1>1, <1>2 DEF ZeroCounts
<1>8. stage = "cipher_council" => c.name \in {"message", "skip"}
  BY <1>2 DEF IsLegal, Options, Choice
<1>9. c.name # "skip" => c \in [name : ChoiceNames, members : SUBSET Actors] /\ c # NoChoice
  BY <1>1, <1>2, LegalChoice
<1>10. NoChoice \in [name : ChoiceNames, members : SUBSET Actors]
  BY DEF NoChoice, ChoiceNames
<1>11. /\ \A b \in Actors \ {a} : chosen'[b] = chosen[b]
       /\ chosen'[a] # NoChoice <=> c.name # "skip"
       /\ chosen' \in [Actors -> [name : ChoiceNames, members : SUBSET Actors]]
  BY <1>1, <1>2, <1>9, <1>10
<1>12. status' = status /\ tries' = tries /\ {SubmittedAt(a)} # {}
  BY <1>2
<1>13. EndsAs(a, c, {SubmittedAt(a)})
  BY <1>4, <1>5, <1>6, <1>7, <1>8, <1>11, <1>12 DEF EndsAs
<1> QED BY <1>13, EndRecords

\* Whatever an actor answers, the records fit.
LEMMA TurnRecords ==
    ASSUME RecordsFit, NEW a \in Actors, Turn(a)
    PROVE  RecordsFit'
<1>1. a \in asked
  BY DEF Turn
<1>2. CASE ResponseRejected(a)
  <2>1. tries \in [Actors -> 0..MaxAttempts] /\ MaxAttempts \in Nat /\ tries[a] < MaxAttempts
    <3>1. MaxAttempts \in 1..16
      BY CouncilAssumption
    <3>2. tries \in [Actors -> 0..MaxAttempts] /\ tries[a] < MaxAttempts
      BY <1>2 DEF RecordsFit, RecordShape, ResponseRejected
    <3> QED BY <3>1, <3>2
  <2>2. tries[a] \in Nat /\ tries[a] + 1 \in 0..MaxAttempts
    BY <2>1
  <2>3. tries' \in [Actors -> 0..MaxAttempts]
    BY <1>2, <2>1, <2>2 DEF ResponseRejected
  <2> QED BY <1>2, <2>3, TriesOnly DEF ResponseRejected
<1>3. CASE TurnFails(a)
  BY <1>1, <1>3, EndsUnconsumed DEF TurnFails, Unanswered
<1>4. CASE Breaks(a)
  <2>1. status' = status \/ status' = "broken"
    BY <1>4 DEF Breaks
  <2> QED BY <1>1, <1>4, <2>1, EndsUnconsumed DEF Breaks
<1>5. ASSUME NEW c \in Submittable(a), Submits(a, c) PROVE RecordsFit'
  BY <1>1, <1>5, EndsConsumed
<1>6. ASSUME NEW c \in Submittable(a), SubmitsIllegal(a, c) PROVE RecordsFit'
  BY <1>1, <1>6, EndsUnconsumed DEF SubmitsIllegal, Unanswered
<1> QED BY <1>2, <1>3, <1>4, <1>5, <1>6 DEF Turn

\* So it is by every step.
LEMMA RecordsStep == RecordsFit /\ CouncilInv /\ [CouncilNext]_councilVars => RecordsFit'
<1> SUFFICES ASSUME RecordsFit, CouncilInv, [CouncilNext]_councilVars PROVE RecordsFit'
  OBVIOUS
<1>1. status' = "running" => CouncilShape'
  <2>1. CouncilInv'
    BY CouncilStep
  <2> QED BY <2>1 DEF CouncilInv, RunningFits
<1>2. CASE Continue
  <2>1. status = "running" /\ RunningFits
    BY <1>2 DEF Continue, StartRound, CouncilDelivers, SpeechEnds, Nominated, VoteEnds, MissionEnds,
                Continues, CouncilInv
  <2>2. CASE StartRound
    <3>1. CouncilShape'
      BY <1>1, <2>1, <2>2 DEF StartRound
    <3> QED BY <2>1, <2>2, <3>1, StartRoundRecords
  <2>3. CASE CouncilDelivers
    <3>1. CouncilShape'
      BY <1>1, <2>1, <2>3 DEF CouncilDelivers
    <3> QED BY <2>1, <2>3, <3>1, CouncilDeliversRecords
  <2>4. CASE SpeechEnds
    <3>1. CouncilShape'
      BY <1>1, <2>1, <2>4 DEF SpeechEnds
    <3> QED BY <2>1, <2>4, <3>1, SpeechEndsRecords
  <2> QED BY <1>1, <1>2, <2>2, <2>3, <2>4, NominatedRecords, VoteEndsRecords, MissionEndsRecords
          DEF Continue
<1>3. CASE \E a \in Actors : Turn(a)
  BY <1>3, TurnRecords
<1>4. CASE UNCHANGED councilVars
  <2>1. tries' \in [Actors -> 0..MaxAttempts]
    BY <1>4 DEF RecordsFit, RecordShape, councilVars
  <2> QED BY <1>4, <2>1, TriesOnly DEF councilVars
<1> QED BY <1>2, <1>3, <1>4 DEF CouncilNext

\* A run begins with the rows of its roles alone.
LEMMA RecordsInitially == CouncilInit => RecordsFit
<1> SUFFICES ASSUME CouncilInit PROVE RecordsFit
  OBVIOUS
<1>1. /\ setup \in Setups /\ status = "running" /\ stage = "round"
      /\ turn = 0 /\ asked = {} /\ held = {} /\ history = <<>> /\ count = ZeroCounts
      /\ tries = [a \in Actors |-> 0] /\ memory = [a \in Actors |-> <<>>] /\ transcript = RoleRows
  BY DEF CouncilInit
<1>2. DOMAIN Order = 1..Players /\ Players \in Nat
  BY CouncilCounts
<1>3. /\ DOMAIN transcript = 1..Players
      /\ \A i \in 1..Players : transcript[i] = RoleRows[i] /\ transcript[i].kind = "role"
  BY <1>1, <1>2 DEF RoleRows
<1>4. CouncilShape
  BY CouncilInitially, <1>1 DEF CouncilInv, RunningFits
<1>5. RowsOf(transcript, "role") = 1..Players
      /\ \A kind : kind # "role" => RowsOf(transcript, kind) = {}
  BY <1>3 DEF RowsOf
<1>6. /\ RowsOf(transcript, "round") = {} /\ RowsOf(transcript, "request") = {}
      /\ RowsOf(transcript, "terminal") = {} /\ RowsOf(transcript, "consumed") = {}
      /\ RowsOf(transcript, "message") = {}
  BY <1>5
<1>7. StrategyRequests(transcript) = {} /\ RoundsIn(transcript) = {}
  BY <1>6 DEF StrategyRequests, RoundsIn
<1>8. IsRows(<<>>) /\ Len(<<>>) = 0
  BY DEF IsRows
<1>9. RecordShape
  <2>1. HistoryLimit \in Nat /\ MemoryLimit \in Nat /\ 0 <= HistoryLimit /\ 0 <= MemoryLimit
    BY CouncilAssumption
  <2>2. MaxAttempts \in 1..16
    BY CouncilAssumption
  <2>3. tries \in [Actors -> 0..MaxAttempts]
    BY <1>1, <2>2
  <2>4. turn <= Players
    BY <1>1, <1>2
  <2>5. \A a \in Actors : IsRows(memory[a]) /\ Len(memory[a]) <= MemoryLimit
    BY <1>1, <1>8, <2>1
  <2>6. DOMAIN memory = Actors
    BY <1>1
  <2> QED BY <1>1, <1>4, <1>8, <2>1, <2>3, <2>4, <2>5, <2>6 DEF RecordShape
<1>10. TerminalsFit /\ RequestsFit /\ ConsumedFit
  BY <1>1, <1>6 DEF TerminalsFit, RequestsFit, ConsumedFit
<1>11. MemoryFits
  <2>1. \A a : TurnsOf(a) = {}
    BY <1>6 DEF TurnsOf
  <2> QED BY <1>1, <2>1 DEF MemoryFits, HoldsOwnTurns
<1>12. ChannelFits
  BY <1>1, <1>6, <1>7 DEF ChannelFits
<1>13. MessagesFit
  BY <1>1, <1>6 DEF MessagesFit
<1>14. SeenFits
  <2>1. IsRows(Delivered) /\ Len(Delivered) \in Nat
    BY <1>4, DeliveredAreMessages DEF CouncilShape
  <2>2. Len(history) <= Len(Delivered) /\ IsRows(history) /\ 1..Len(history) = {}
    BY <1>1, <1>8, <2>1
  <2>3. IsSuffix(history, Delivered)
    BY <2>1, <2>2, SuffixPointwise
  <2> QED BY <1>6, <2>3 DEF SeenFits
<1>15. CountsFit
  <2>1. Cardinality({}) = 0 /\ Cardinality(Ciphers) \in Nat
    BY FS_EmptySet, EventRows
  <2>2. /\ count.rounds = 0 /\ count.requests = 0 /\ count.messages = 0 /\ count.absent = 0
        /\ Open = 0
    BY <1>1 DEF ZeroCounts, Open
  <2> QED BY <1>6, <1>7, <2>1, <2>2 DEF CountsFit
<1>16. RolesFit
  BY <1>3, <1>5 DEF RolesFit
<1> QED BY <1>9, <1>10, <1>11, <1>12, <1>13, <1>14, <1>15, <1>16 DEF RecordsFit

-----------------------------------------------------------------------------
(* What the records of a run that is over show.                             *)

\* A set whose elements are all equal has at most one.
LEMMA AtMostOne ==
    ASSUME NEW S, \A x \in S, y \in S : x = y
    PROVE  /\ Cardinality(S) = IF S = {} THEN 0 ELSE 1
           /\ Cardinality(S) <= 1
<1>1. CASE S = {}
  BY <1>1, FS_EmptySet
<1>2. CASE S # {}
  <2>1. PICK x \in S : TRUE
    BY <1>2
  <2>2. S = {x}
    BY <2>1
  <2>3. Cardinality({x}) = 1
    BY FS_Singleton
  <2>4. Cardinality(S) = 1
    BY <2>2, <2>3
  <2> QED BY <1>2, <2>4
<1> QED BY <1>1, <1>2

\* The roles are those that were dealt.
LEMMA RolesAreDealt ==
    ASSUME RolesFit
    PROVE  CiphersIn(transcript) = Ciphers /\ RolesVerify(transcript, Players, Cardinality(Ciphers))
<1>1. DOMAIN Order = 1..Players /\ Players \in Nat /\ Actors = {Order[i] : i \in 1..Players}
      /\ Cardinality(Actors) = Players
  BY CouncilCounts
<1>2. RowsOf(transcript, "role") = 1..Players
      /\ \A i \in 1..Players :
            /\ transcript[i].actor = Order[i]
            /\ transcript[i].role = IF Order[i] \in Ciphers THEN "cipher" ELSE "council"
  <2>1. \A i \in 1..Players :
            /\ RoleRows[i].actor = Order[i]
            /\ RoleRows[i].role = IF Order[i] \in Ciphers THEN "cipher" ELSE "council"
    BY <1>1 DEF RoleRows
  <2>2. RowsOf(transcript, "role") = 1..Players /\ \A i \in 1..Players : transcript[i] = RoleRows[i]
    BY DEF RolesFit
  <2> QED BY <2>1, <2>2
<1>3. CiphersIn(transcript) = Ciphers
  <2> DEFINE dealt == {j \in 1..Players : Order[j] \in Ciphers}
  <2>1. {j \in RowsOf(transcript, "role") : transcript[j].role = "cipher"} = dealt
    BY <1>2
  <2>2. CiphersIn(transcript) = {transcript[i].actor : i \in dealt}
    BY <2>1 DEF CiphersIn
  <2>3. {transcript[i].actor : i \in dealt} = {Order[i] : i \in dealt}
    BY <1>2
  <2>4. Ciphers \subseteq Actors
    BY CouncilAssumption
  <2>5. {Order[i] : i \in dealt} = Ciphers
    BY <1>1, <2>4
  <2> QED BY <2>2, <2>3, <2>5
<1>4. {transcript[i].actor : i \in RowsOf(transcript, "role")} = Actors
  BY <1>1, <1>2
<1>5. Cardinality(RowsOf(transcript, "role")) = Players
  BY <1>1, <1>2, FS_Interval
<1>6. Ciphers # {}
  BY CouncilAssumption
<1> QED BY <1>1, <1>3, <1>4, <1>5, <1>6 DEF RolesVerify

\* A request of the channel: what ended, was consumed and delivered of it.
LEMMA RequestTells ==
    ASSUME RecordsFit, asked = {}, stage # "cipher_council", NEW id, id.stage = "cipher_council",
           TerminalsOf(transcript, id) # {}
    PROVE  /\ Cardinality(TerminalsOf(transcript, id)) = 1
           /\ Cardinality(ConsumedOf(transcript, id)) = IF ConsumedOf(transcript, id) = {} THEN 0 ELSE 1
           /\ \A p \in ConsumedOf(transcript, id), q \in ConsumedOf(transcript, id) : p = q
           /\ \A m \in MessagesOf(transcript, id) : StrategyId(transcript[m].entry) = id
           /\ MessagesOf(transcript, id) # {} <=> Spoken(id)
           /\ \A p \in ConsumedOf(transcript, id) : transcript[p].choice \in {"message", "skip"}
<1>1. TerminalsFit /\ ConsumedFit /\ MessagesFit
  BY DEF RecordsFit
<1>2. \A i \in TerminalsOf(transcript, id), j \in TerminalsOf(transcript, id) : i = j
  BY <1>1 DEF TerminalsFit, TerminalsOf
<1>3. Cardinality(TerminalsOf(transcript, id)) = 1
  BY <1>2, AtMostOne
<1>4. \A p \in ConsumedOf(transcript, id), q \in ConsumedOf(transcript, id) : p = q
  BY <1>1 DEF ConsumedFit, ConsumedOf
<1>5. Cardinality(ConsumedOf(transcript, id)) = IF ConsumedOf(transcript, id) = {} THEN 0 ELSE 1
  BY <1>4, AtMostOne
<1>6. \A p \in ConsumedOf(transcript, id) : transcript[p].choice \in {"message", "skip"}
  BY <1>1 DEF ConsumedFit, ConsumedOf
<1>7. id \in Ids
  BY <1>1 DEF TerminalsFit, TerminalsOf
<1>8. id = [round |-> id.round, stage |-> "cipher_council", actor |-> id.actor]
  BY <1>7 DEF Ids
<1>9. \A m \in MessagesOf(transcript, id) :
          m \in RowsOf(transcript, "message") /\ StrategyId(transcript[m].entry) = id
  BY <1>8 DEF MessagesOf, MessageIsFor, StrategyId, RequestId
<1>10. MessagesOf(transcript, id) # {} => Spoken(id)
  BY <1>1, <1>9 DEF MessagesFit
<1>11. Spoken(id) => MessagesOf(transcript, id) # {}
  BY <1>1 DEF Spoken, ConsumedOf, MessagesFit, InChannel
<1> QED BY <1>3, <1>4, <1>5, <1>6, <1>9, <1>10, <1>11

\* The verifier accepts the rows.
LEMMA EvidenceFits ==
    ASSUME RecordsFit, status = "over", setup.strategic
    PROVE  RowsVerify(transcript, Metrics, Players, Cardinality(Ciphers))
<1> DEFINE R == StrategyRequests(transcript)
<1>1. /\ RecordShape /\ IsRows(transcript) /\ TerminalsFit /\ RequestsFit /\ ConsumedFit
      /\ ChannelFits /\ MessagesFit /\ SeenFits /\ CountsFit /\ RolesFit
  BY DEF RecordsFit, RecordShape, CouncilShape
<1>2. asked = {} /\ held = {} /\ stage # "cipher_council"
  BY <1>1 DEF RecordShape
<1>3. CiphersIn(transcript) = Ciphers /\ RolesVerify(transcript, Players, Cardinality(Ciphers))
  BY <1>1, RolesAreDealt
<1>4. Strategic <=> Cardinality(Ciphers) >= 2
  BY DEF Strategic
<1>5. \A i \in R : i \in RowsOf(transcript, "request") /\ transcript[i].id.stage = "cipher_council"
                   /\ TerminalsOf(transcript, transcript[i].id) # {}
  BY <1>1, <1>2 DEF RequestsFit, StrategyRequests, Ended
<1>6. IsolationVerifies(transcript)
  <2>1. \A i \in RowsOf(transcript, "request") : Observes(i)
    BY <1>1 DEF SeenFits
  <2> QED BY <1>3, <2>1 DEF IsolationVerifies, Observes
<1>7. RequestsVerify(transcript)
  <2>1. Cardinality(RoundsIn(transcript)) = Cardinality(RowsOf(transcript, "round"))
    <3> DEFINE I == RowsOf(transcript, "round")
               f == [i \in I |-> transcript[i].round]
    <3>1. f \in [I -> RoundsIn(transcript)] /\ \A i \in I : f[i] = transcript[i].round
      BY DEF RoundsIn
    <3>2. \A r \in RoundsIn(transcript) : \E i \in I : f[i] = r
      BY DEF RoundsIn
    <3>3. \A i, j \in I : f[i] = f[j] => i = j
      BY <1>1 DEF ChannelFits
    <3>4. IsFiniteSet(I)
      BY <1>1, RowPlaces
    <3> HIDE DEF I, f
    <3>5. f \in Surjection(I, RoundsIn(transcript)) /\ f \in Injection(I, RoundsIn(transcript))
      BY <3>1, <3>2, <3>3 DEF Surjection, Injection, IsInjective
    <3>6. Cardinality(RoundsIn(transcript)) = Cardinality(I)
      BY <3>4, <3>5, FS_Surjection
    <3> QED BY <3>6 DEF I
  <2>2. {transcript[i].id.round : i \in R} =
            IF Cardinality(Ciphers) >= 2 THEN RoundsIn(transcript) ELSE {}
    BY <1>1, <1>4 DEF ChannelFits
  <2>3. \A r \in RoundsIn(transcript) : Cardinality(Ciphers) >= 2 =>
            /\ {transcript[i].id.actor : i \in RequestsIn(r)} = Ciphers
            /\ Cardinality(RequestsIn(r)) = Cardinality(Ciphers)
    BY <1>1, <1>4 DEF ChannelFits
  <2>4. \A i \in R : Cardinality(TerminalsOf(transcript, transcript[i].id)) = 1
    BY <1>2, <1>5, RequestTells
  <2> QED BY <1>3, <2>1, <2>2, <2>3, <2>4 DEF RequestsVerify, RequestsIn
<1>8. DeliveryVerifies(transcript)
  <2> SUFFICES
        ASSUME NEW m \in RowsOf(transcript, "message"), NEW id,
               id = [round |-> transcript[m].entry.round, stage |-> "cipher_council",
                     actor |-> transcript[m].entry.actor]
        PROVE  /\ transcript[m].to = CiphersIn(transcript)
               /\ \E i \in R : transcript[i].id = id
               /\ Cardinality(MessagesOf(transcript, id)) = 1
               /\ \A i \in R : transcript[i].id.round = transcript[m].entry.round =>
                     \A t \in TerminalsOf(transcript, transcript[i].id) : t < m
               /\ Cardinality(ConsumedOf(transcript, id)) = 1
               /\ \A c \in ConsumedOf(transcript, id) : transcript[c].choice = "message"
    BY DEF DeliveryVerifies
  <2>1. id = StrategyId(transcript[m].entry) /\ id.stage = "cipher_council"
        /\ id.round = transcript[m].entry.round /\ id.actor = transcript[m].entry.actor
    BY DEF StrategyId, RequestId
  <2>2. /\ transcript[m].to = Ciphers /\ Spoken(id)
        /\ \A t \in RowsOf(transcript, "terminal") :
              transcript[t].id.stage = "cipher_council"
              /\ transcript[t].id.round = transcript[m].entry.round => t < m
    BY <1>1, <2>1 DEF MessagesFit
  <2>3. TerminalsOf(transcript, id) # {}
    BY <1>1, <1>2, <2>2, SpokenIsPast
  <2>4. /\ Cardinality(ConsumedOf(transcript, id)) = IF ConsumedOf(transcript, id) = {} THEN 0 ELSE 1
        /\ \A p \in ConsumedOf(transcript, id), q \in ConsumedOf(transcript, id) : p = q
        /\ \A n \in MessagesOf(transcript, id) : StrategyId(transcript[n].entry) = id
    BY <1>2, <2>1, <2>3, RequestTells
  <2>5. \E i \in R : transcript[i].id = id
    BY <1>1, <2>1, <2>3 DEF RequestsFit, TerminalsOf, StrategyRequests
  <2>6. Cardinality(MessagesOf(transcript, id)) = 1
    <3>1. m \in MessagesOf(transcript, id)
      BY <2>1 DEF MessagesOf, MessageIsFor
    <3>2. \A x \in MessagesOf(transcript, id), y \in MessagesOf(transcript, id) : x = y
      BY <1>1, <2>4 DEF MessagesFit, MessagesOf
    <3> QED BY <3>1, <3>2, AtMostOne
  <2>7. ConsumedOf(transcript, id) # {}
        /\ \A c \in ConsumedOf(transcript, id) : transcript[c].choice = "message"
    BY <2>2, <2>4 DEF Spoken
  <2>8. ASSUME NEW i \in R, transcript[i].id.round = transcript[m].entry.round,
               NEW t \in TerminalsOf(transcript, transcript[i].id)
        PROVE  t < m
    <3>1. t \in RowsOf(transcript, "terminal") /\ transcript[t].id = transcript[i].id
      BY DEF TerminalsOf
    <3> QED BY <1>5, <2>2, <2>8, <3>1
  <2> QED BY <1>3, <2>2, <2>4, <2>5, <2>6, <2>7, <2>8
<1>9. ActionsVerify(transcript)
  <2> SUFFICES
        ASSUME NEW i \in R, NEW id, id = transcript[i].id
        PROVE  /\ Cardinality(ConsumedOf(transcript, id)) <= 1
               /\ ConsumedOf(transcript, id) = {} => MessagesOf(transcript, id) = {}
               /\ \A c \in ConsumedOf(transcript, id) :
                     \/ transcript[c].choice = "message" /\ MessagesOf(transcript, id) # {}
                     \/ transcript[c].choice = "skip" /\ MessagesOf(transcript, id) = {}
    BY DEF ActionsVerify
  <2>1. id.stage = "cipher_council" /\ TerminalsOf(transcript, id) # {}
    BY <1>5
  <2>2. /\ \A p \in ConsumedOf(transcript, id), q \in ConsumedOf(transcript, id) : p = q
        /\ MessagesOf(transcript, id) # {} <=> Spoken(id)
        /\ \A p \in ConsumedOf(transcript, id) : transcript[p].choice \in {"message", "skip"}
    BY <1>2, <2>1, RequestTells
  <2>3. Cardinality(ConsumedOf(transcript, id)) <= 1
    BY <2>2, AtMostOne
  <2>4. ConsumedOf(transcript, id) = {} => ~Spoken(id)
    BY DEF Spoken
  <2>5. \A c \in ConsumedOf(transcript, id) : Spoken(id) <=> transcript[c].choice = "message"
    BY <2>2 DEF Spoken
  <2> QED BY <2>2, <2>3, <2>4, <2>5
<1>10. MetricsVerify(transcript, Metrics)
  <2>1. Cardinality(R) \in Nat /\ Cardinality(RowsOf(transcript, "message")) \in Nat
        /\ count.absent \in Nat
        /\ count.requests = Cardinality(R)
        /\ count.messages = Cardinality(RowsOf(transcript, "message"))
        /\ count.messages + count.absent + 0 = count.requests
    BY <1>1, <1>2 DEF CountsFit, Open
  <2>2. count.rounds = IF Cardinality(Ciphers) >= 2 THEN Cardinality(RoundsIn(transcript)) ELSE 0
    BY <1>1, <1>4 DEF CountsFit
  <2>3. /\ Cardinality(RowsOf(transcript, "message")) <= Cardinality(R)
        /\ count.absent = Cardinality(R) - Cardinality(RowsOf(transcript, "message"))
    BY <2>1
  <2> QED BY <1>3, <2>1, <2>2, <2>3 DEF MetricsVerify, Metrics
<1> QED BY <1>3, <1>6, <1>7, <1>8, <1>9, <1>10 DEF RowsVerify

\* The records agree.
LEMMA RecordsTell == RecordsFit => RecordsAgree
<1> SUFFICES ASSUME RecordsFit PROVE RecordsAgree
  OBVIOUS
<1>1. RecordShape /\ CouncilShape /\ TerminalsFit /\ RequestsFit
  BY DEF RecordsFit, RecordShape
<1>2. CouncilTypeOK
  <2>1. DOMAIN MissionSizes = 1..Len(MissionSizes) /\ Players \in Nat
    BY CouncilCounts
  <2>2. turn \in 0..Players
    BY <1>1, <2>1 DEF RecordShape, CouncilShape
  <2>3. \A a \in Actors : chosen[a].name \in Replies \cup {"none"} /\ chosen[a].members \subseteq Actors
    <3>1. ChoiceNames \subseteq Replies \cup {"none"}
      BY DEF ChoiceNames, Replies
    <3> QED BY <1>1, <3>1 DEF CouncilShape
  <2>4. \A a \in asked \cup held : \E i \in RowsOf(transcript, "request") :
            transcript[i].id = IdOf(a) /\ TerminalsOf(transcript, IdOf(a)) = {}
    BY <1>1 DEF TerminalsFit, RequestsFit
  <2>5. \A a \in Actors : tries[a] \in 0..MaxAttempts /\ Len(memory[a]) <= MemoryLimit
    BY <1>1 DEF RecordShape
  <2>6. Len(history) <= HistoryLimit /\ status \in {"running", "over", "broken"}
    BY <1>1 DEF RecordShape
  <2>7. held \subseteq Actors \ asked /\ \A b \in held : \E a \in asked : AcceptedBefore(a, b)
    BY <1>1 DEF RecordShape
  <2> QED BY <1>1, <2>1, <2>2, <2>3, <2>4, <2>5, <2>6, <2>7 DEF CouncilShape, CouncilTypeOK
<1>3. EvidenceVerifies
  BY EvidenceFits DEF EvidenceVerifies
<1>4. MemoryHoldsOwnTurns
  BY DEF RecordsFit, MemoryFits, MemoryHoldsOwnTurns
<1> QED BY <1>2, <1>3, <1>4 DEF RecordsAgree

\* The inductive invariant of the records (plugin.py:219-371, core_llm_actor.py:581-634,
\* decision_runtime.py:588-602): requests, terminals, those that wait for an earlier one,
\* what was consumed, messages, observations, counters and the memories of the actors fit
\* each other after every step.
THEOREM RecordsCorrect == CouncilSpec => []RecordsFit
<1>1. RecordsFit /\ CouncilInv /\ [CouncilNext]_councilVars => RecordsFit'
  BY RecordsStep
<1>2. CouncilInit => RecordsFit
  BY RecordsInitially
<1>3. CouncilSpec => []CouncilInv
  BY CouncilCorrect
<1> QED BY <1>1, <1>2, <1>3, PTL DEF CouncilSpec

\* However the ciphers answer, in whichever order their requests end and terminal rows are
\* written, and whichever agent fails, the offline verifier accepts the evidence of a run
\* with the strategy channel that is over, and every actor has stored its last turns as
\* they were consumed (evidence.py:94-294, core_llm_actor.py:581-634).
THEOREM RecordsAlwaysAgree == CouncilSpec => []RecordsAgree
BY RecordsCorrect, RecordsTell, PTL

=============================================================================
