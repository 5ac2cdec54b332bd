\* Two concurrent calls, every kind of answer, deadlines, hooks, aclose: what
\* interleavings may not do, the ledger the log implements, and termination with
\* agents and hooks that may never answer and a trace callback that raises once.
CONSTANTS
    Calls = {c1, c2}
    Ids = {a, b}
    Deadlined = {c1, c2}
    Answers = {"accepted", "rejected", "unvalidatable", "wrong_type", "raised", "cancelled"}
    MaxSinkFailures = 1
SPECIFICATION FairSpec
INVARIANTS
    PairedRows
    CancellationIsNeverSwallowed
    LeftoversAreTracked
PROPERTIES
    LateResultsAreDropped
    LedgerSpec
    EveryRequestTerminates
CHECK_DEADLOCK FALSE
