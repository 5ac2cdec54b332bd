----------------------------- MODULE ExperimentBatch -----------------------------
(***************************************************************************)
(* harness/batch.py and harness/artifacts.py: processes that run the runs  *)
(* of an experiment one after the other, write the three artifacts of each *)
(* and a line of the summary JSONL, and may be resumed by a later process. *)
(*                                                                         *)
(* A process can end at any step, between any two writes, or in the middle *)
(* of a line, and any write can fail.  The disk keeps what was replaced or *)
(* flushed; a process that ends leaves its temporary file.  The content of *)
(* a run is known by the number of its execution: no two executions of a   *)
(* run give the same transcript and summary.                               *)
(***************************************************************************)
EXTENDS ExperimentSchedule

CONSTANTS
    Designs,        \* the designs offered to build_policy_schedule
    BatchDesigns,   \* those that are run; all of one experiment_id
    MaxStarts,      \* bound: processes started
    MaxFaults       \* bound: processes that end and operations that fail

ASSUME BatchAssumption ==
    /\ BatchDesigns \subseteq {d \in Designs : Accepted(d)}
    /\ MaxStarts \in Nat /\ MaxFaults \in Nat

VARIABLES
    design,     \* the design of this process
    status,     \* "offered", "running", "finished", "raised", "refused" or "gone"
    step,       \* "next", "mkdir", "temp", "replace" or "append"
    run,        \* the run that is executed, a run_id is its place in the schedule
    file,       \* the artifact that is written next
    resumed,    \* the runs taken from the JSONL
    version,    \* the number of executions so far
    jsonl,      \* the lines of the summary JSONL, none while there is no file
    dirs,       \* the run directories
    starts, faults

disk == <<jsonl, dirs>>
vars == <<design, status, step, run, file, resumed, version, disk, starts, faults>>

RunIds == UNION {1..Runs(d) : d \in BatchDesigns}
\* A seed can be any integer, the rest of a design counts or chooses.
ASSUME DesignsAssumption == \A d \in Designs : IsDesign(d)
\* A batch is of finitely many designs.
ASSUME RunsAssumption == IsFiniteSet(RunIds)

Artifacts == <<"transcript", "summary", "manifest">>

\* A row, and what a line can hold: a JSON object, or what no parser accepts.
SummaryRow(k) == [run |-> k, spec |-> design, version |-> version]
Line(row, valid, ended) == [row |-> row, valid |-> valid, ended |-> ended]

\* A run directory: the version of each file, 0 if there is none, the spec in
\* the manifest, and whether a temporary file of a process that ended is left.
NoDir == [made |-> FALSE, left |-> FALSE, files |-> [i \in 1..3 |-> 0], spec |-> <<>>]

Init ==
    /\ design \in Designs
    /\ status = "offered" /\ step = "next" /\ run = 0 /\ file = 1
    /\ resumed = {} /\ version = 0
    /\ jsonl = <<>> /\ dirs = [k \in RunIds |-> NoDir]
    /\ starts = 0 /\ faults = 0

-----------------------------------------------------------------------------
\* Resuming.

\* load_verified_artifact_snapshot: exactly the three files, and the hashes in
\* the manifest are those of the content.
Verifies(dir) ==
    /\ dir.made /\ ~dir.left
    /\ \A i \in 1..3 : dir.files[i] # 0
    /\ dir.files[1] = dir.files[3] /\ dir.files[2] = dir.files[3]

\* load_verified_run_summary: the row is derived again from the artifacts.
Rederived(k) == [run |-> k, spec |-> dirs[k].spec, version |-> dirs[k].files[3]]

ScheduledRows(d) == {jsonl[i].row : i \in {j \in DOMAIN jsonl : jsonl[j].row.run \in 1..Runs(d)}}

\* _load_resume_rows raises a ValueError.
Refuses(d) ==
    \/ \E i \in DOMAIN jsonl : ~jsonl[i].valid
    \/ \E row \in ScheduledRows(d) : row.spec # d
    \/ \E row, other \in ScheduledRows(d) : row.run = other.run /\ row # other
    \/ \E row \in ScheduledRows(d) :
          dirs[row.run].made /\ (~Verifies(dirs[row.run]) \/ Rederived(row.run) # row)

CanStart(d) == status # "running" /\ starts < MaxStarts /\ d \in BatchDesigns

Begin(d, taken) ==
    /\ design' = d /\ status' = "running" /\ step' = "next" /\ run' = 0 /\ file' = 1
    /\ resumed' = taken
    /\ starts' = starts + 1
    /\ UNCHANGED <<version, dirs, faults>>

\* Mutant: the lines of an earlier batch are kept.
KeptLines == jsonl
NoLines == <<>>
\* Without --resume the JSONL is emptied; the run directories stay.
StartAfresh(d) == CanStart(d) /\ Begin(d, {}) /\ jsonl' = NoLines

Resume(d) ==
    /\ CanStart(d) /\ ~Refuses(d)
    /\ Begin(d, {row.run : row \in ScheduledRows(d)})
    /\ UNCHANGED jsonl

ResumeRefused(d) ==
    /\ CanStart(d) /\ Refuses(d)
    /\ design' = d /\ status' = "refused" /\ starts' = starts + 1
    /\ UNCHANGED <<step, run, file, resumed, version, disk, faults>>

-----------------------------------------------------------------------------
\* One run: execute, write the artifacts, append the row.

Working(st) == status = "running" /\ step = st

\* Mutant: the runs that were resumed are run again.
AllLeft == {k \in 1..Runs(design) : k > run}
\* Mutant: the loop goes on after the run that follows.
LeftAfterNext == {k \in 1..Runs(design) : k > run + 1 /\ k \notin resumed}
\* The scheduled runs that are neither done nor resumed.
Left == {k \in 1..Runs(design) : k > run /\ k \notin resumed}

Execute ==
    /\ Working("next")
    /\ \E k \in Left : (\A j \in Left : k <= j) /\ run' = k
    /\ version' = version + 1
    /\ step' = "mkdir" /\ file' = 1
    /\ UNCHANGED <<design, status, resumed, disk, starts, faults>>

Finish ==
    /\ Working("next") /\ Left = {}
    /\ status' = "finished"
    /\ UNCHANGED <<design, step, run, file, resumed, version, disk, starts, faults>>

MakeDir ==
    /\ Working("mkdir")
    /\ dirs' = [dirs EXCEPT ![run].made = TRUE]
    /\ step' = "temp"
    /\ UNCHANGED <<design, status, run, file, resumed, version, jsonl, starts, faults>>

\* mkstemp, and the content written and synced.
MakeTemp ==
    /\ Working("temp")
    /\ step' = "replace"
    /\ UNCHANGED <<design, status, run, file, resumed, version, disk, starts, faults>>

Put(i) ==
    LET dir == dirs[run]
    IN [dirs EXCEPT ![run] = [dir EXCEPT !.files = [dir.files EXCEPT ![i] = version],
                                         !.spec = IF i = 3 THEN design ELSE dir.spec]]

\* os.replace; the manifest is the last.
Replace ==
    /\ Working("replace")
    /\ dirs' = Put(file)
    /\ IF file < 3 THEN file' = file + 1 /\ step' = "temp"
                   ELSE UNCHANGED file /\ step' = "append"
    /\ UNCHANGED <<design, status, run, resumed, version, jsonl, starts, faults>>

\* The JSONL after a row was written: whole, all but its end of line, or a part
\* of it.  A line that was not ended takes what is written next.
Written(outcome) ==
    LET n == Len(jsonl)
        row == SummaryRow(run)
        ended == outcome = "whole"
    IN IF n = 0 \/ (n > 0 /\ jsonl[n].ended)
       THEN Append(jsonl, Line(row, outcome # "torn", ended))
       ELSE [jsonl EXCEPT ![n] = Line(@.row, FALSE, ended)]

AppendRow ==
    /\ Working("append")
    /\ jsonl' = Written("whole")
    /\ step' = "next"
    /\ UNCHANGED <<design, status, run, file, resumed, version, dirs, starts, faults>>

-----------------------------------------------------------------------------
\* Faults.

Fault == status = "running" /\ faults < MaxFaults /\ faults' = faults + 1

\* An exception leaves run_experiment_spec: a run that cannot start or be
\* summarised, a directory or file that cannot be written; what was being
\* written to a temporary file is unlinked.  The directory is synced after the
\* file has been replaced.
Raises ==
    /\ Fault /\ status' = "raised"
    /\ step \in {"next", "mkdir", "temp", "replace"}
    /\ \/ UNCHANGED dirs
       \/ step = "replace" /\ dirs' = Put(file)
    /\ UNCHANGED <<design, step, run, file, resumed, version, jsonl, starts>>

\* The row cannot be written or synced as a whole.
AppendRaises ==
    /\ Fault /\ status' = "raised" /\ step = "append"
    /\ \E outcome \in {"whole", "unended", "torn"} : jsonl' = Written(outcome)
    /\ UNCHANGED <<design, step, run, file, resumed, version, dirs, starts>>

\* The process ends, and leaves the temporary file it had.
ProcessEnds ==
    /\ Fault /\ status' = "gone"
    /\ dirs' = IF step = "replace" THEN [dirs EXCEPT ![run].left = TRUE] ELSE dirs
    /\ \/ UNCHANGED jsonl
       \/ step = "append" /\ \E outcome \in {"whole", "unended", "torn"} : jsonl' = Written(outcome)
    /\ UNCHANGED <<design, step, run, file, resumed, version, starts>>

Work == Execute \/ Finish \/ MakeDir \/ MakeTemp \/ Replace \/ AppendRow
Next ==
    \/ Work \/ Raises \/ AppendRaises \/ ProcessEnds
    \/ \E d \in BatchDesigns : StartAfresh(d) \/ Resume(d) \/ ResumeRefused(d)

Spec == Init /\ [][Next]_vars
\* A process that is there goes on.  That the run it executes returns is taken
\* from CoreRunner.LifecycleEnds: a batch gives its runs no sink to wait for.
FairSpec == Spec /\ WF_vars(Work)

-----------------------------------------------------------------------------
\* Properties.

Versions == 0..(MaxStarts * Cardinality(RunIds))

\* Every part of the state has its shape; what is resumed was not run by this
\* process, and only a process that runs is in the middle of one.
TypeOK ==
    /\ design \in Designs
    /\ status \in {"offered", "running", "finished", "raised", "refused", "gone"}
    /\ step \in {"next", "mkdir", "temp", "replace", "append"}
    /\ run \in 0..Cardinality(RunIds) /\ file \in 1..3
    /\ resumed \subseteq RunIds /\ run \notin resumed
    /\ version \in Versions
    /\ \A i \in DOMAIN jsonl :
          /\ jsonl[i].row.run \in RunIds /\ jsonl[i].row.version \in 1..version
          /\ jsonl[i].ended \/ i = Len(jsonl)
    /\ \A k \in RunIds : \A i \in 1..3 : dirs[k].files[i] \in 0..version
    /\ starts \in 0..MaxStarts /\ faults \in 0..MaxFaults

\* Every schedule that is not refused is a fair comparison (schedule.py:52-285):
\* the policies play the same cases with the same seeds, seats and personas, in
\* an order that favours none, the controls are crossed and not in lockstep,
\* and the runner accepts the provenance it recomputes.
ScheduleIsBalanced == status = "offered" /\ Accepted(design) => Balanced(design)

\* A row of the JSONL that can be read is about the artifacts that are there:
\* whatever ended or failed, and however often the batch was started, the three
\* files of its run are of the execution the row was made of (batch.py:104-118).
RowsMatchArtifacts ==
    \A i \in DOMAIN jsonl :
        LET row == jsonl[i].row
        IN /\ \A f \in 1..3 : dirs[row.run].files[f] = row.version
           /\ dirs[row.run].spec = row.spec

\* A process refuses to resume only because a row was not written as a whole,
\* because an earlier process left a temporary file beside the artifacts of a
\* row, or because the rows are of another design: not because a batch ended
\* between two of its steps, nor because it was resumed before
\* (batch.py:140-197).
RefusalIsExplained ==
    /\ TypeOK
    /\ status = "refused" =>
          \/ \E i \in DOMAIN jsonl : ~jsonl[i].valid
          \/ \E i \in DOMAIN jsonl : dirs[jsonl[i].row.run].left \/ jsonl[i].row.spec # design

\* A process that was started comes to an end, with a row for each run of its
\* schedule if it finished.
Complete ==
    {jsonl[i].row.run : i \in {j \in DOMAIN jsonl : jsonl[j].valid}} = 1..Runs(design)
BatchSettles ==
    (status = "running") ~>
        \/ status \in {"raised", "gone"}
        \/ status = "finished" /\ (Complete \/ \E i \in DOMAIN jsonl : ~jsonl[i].valid)

\* A run whose row was appended has exactly its three artifacts, and they verify
\* (artifacts.py:92).  It does not hold: a process that ends between mkstemp and
\* os.replace leaves a file that the next execution publishes beside them.
PublishedSetVerifies ==
    \A i \in DOMAIN jsonl : Verifies(dirs[jsonl[i].row.run])

=============================================================================
