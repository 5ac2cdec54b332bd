------------------------- MODULE ExperimentBatchProofs -------------------------
(***************************************************************************)
(* That a line of the summary JSONL is about the artifacts on the disk,    *)
(* that a refusal to resume has a reason, and that a schedule which is not *)
(* refused is a fair comparison, for every set of designs, every finite    *)
(* batch of them and every number of processes and faults.                 *)
(***************************************************************************)
EXTENDS ExperimentBatch, SequenceTheorems, FiniteSetTheorems, TLAPS

Dirs == [made : BOOLEAN, left : BOOLEAN, files : [1..3 -> Nat], spec : Designs \cup {<<>>}]
SummaryRows == [run : RunIds, spec : BatchDesigns, version : Nat]
Lines == [row : SummaryRows, valid : BOOLEAN, ended : BOOLEAN]

\* What the shape of the state contributes to the argument.
BatchTyped ==
    /\ step \in {"next", "mkdir", "temp", "replace", "append"}
    /\ run \in Nat /\ file \in 1..3 /\ version \in Nat
    /\ jsonl \in Seq(Lines)
    /\ dirs \in [RunIds -> Dirs]
    /\ status = "running" => design \in BatchDesigns
    /\ status = "running" /\ step # "next" => run \in 1..Runs(design)

\* A process knows the scheduled runs that have a row: it resumed them, or has
\* come past them.  So the run in progress has none.
RowsAreKnown ==
    status = "running" =>
        /\ \A i \in DOMAIN jsonl :
              jsonl[i].row.run \in 1..Runs(design) =>
                  \/ jsonl[i].row.run \in resumed
                  \/ jsonl[i].row.run < run
                  \/ jsonl[i].row.run = run /\ step = "next"
        /\ step # "next" => run \notin resumed

\* The files of the run in progress that have been replaced so far.
FilesAreWritten ==
    status = "running" =>
        /\ step = "mkdir" => file = 1
        /\ step \in {"temp", "replace"} =>
              \A f \in 1..3 : f < file => dirs[run].files[f] = version
        /\ step = "append" =>
              (\A f \in 1..3 : dirs[run].files[f] = version) /\ dirs[run].spec = design

\* The inductive invariant.
BatchInv == BatchTyped /\ RowsAreKnown /\ FilesAreWritten /\ RowsMatchArtifacts

-----------------------------------------------------------------------------
\* What a design that is run says of its runs (expand_runs).
LEMMA DesignFacts ==
    ASSUME NEW d \in BatchDesigns
    PROVE  Runs(d) \in Int /\ 1..Runs(d) \subseteq RunIds /\ d \in Designs
BY BatchAssumption, DesignsAssumption DEF Runs, RunIds, IsDesign

\* The runs that have a number are numbers.
LEMMA RunIdsAreNumbers == RunIds \subseteq Nat
<1>1. \A d \in BatchDesigns : Runs(d) \in Int
  BY DesignFacts
<1> QED BY <1>1 DEF RunIds

\* A row that is written is put below the others, or takes the rest of the line
\* that was not ended: each line keeps its row (_append_jsonl_row).
LEMMA WrittenKeepsRows ==
    ASSUME jsonl \in Seq(Lines), run \in RunIds, design \in BatchDesigns, version \in Nat,
           NEW outcome, jsonl' = Written(outcome)
    PROVE  /\ jsonl' \in Seq(Lines)
           /\ \A i \in DOMAIN jsonl' :
                 \/ i \in DOMAIN jsonl /\ jsonl'[i].row = jsonl[i].row
                 \/ jsonl'[i].row = SummaryRow(run)
<1> DEFINE n == Len(jsonl)
<1> DEFINE new == Line(SummaryRow(run), outcome # "torn", outcome = "whole")
<1>1. n \in Nat /\ DOMAIN jsonl = 1..n
  BY LenProperties
<1>2. SummaryRow(run) \in SummaryRows
  BY DEF SummaryRow, SummaryRows
<1>3. CASE n = 0 \/ (n > 0 /\ jsonl[n].ended)
  <2>1. jsonl' = Append(jsonl, new)
    BY <1>3 DEF Written
  <2>2. (outcome # "torn") \in BOOLEAN /\ (outcome = "whole") \in BOOLEAN
    OBVIOUS
  <2>3. new \in Lines /\ new.row = SummaryRow(run)
    BY <1>2, <2>2 DEF Line, Lines
  <2>4. /\ jsonl' \in Seq(Lines) /\ Len(jsonl') = n + 1 /\ jsonl'[n + 1] = new
        /\ \A i \in 1..n : jsonl'[i] = jsonl[i]
    <3> HIDE DEF new
    <3> QED BY <2>1, <2>3, AppendProperties
  <2>5. DOMAIN jsonl' = 1..(n + 1)
    BY <2>4
  <2> HIDE DEF n, new
  <2> QED BY <1>1, <2>3, <2>4, <2>5
<1>4. CASE ~(n = 0 \/ (n > 0 /\ jsonl[n].ended))
  <2> DEFINE rest == Line(jsonl[n].row, FALSE, outcome = "whole")
  <2>1. n \in DOMAIN jsonl
    BY <1>1, <1>4
  <2>2. jsonl' = [jsonl EXCEPT ![n] = rest]
    BY <1>4 DEF Written
  <2>3. (outcome = "whole") \in BOOLEAN
    OBVIOUS
  <2>4. rest \in Lines /\ rest.row = jsonl[n].row
    <3>1. jsonl[n] \in Lines
      BY <2>1, ElementOfSeq, <1>1
    <3> QED BY <3>1, <2>3 DEF Line, Lines
  <2>5. jsonl' \in Seq(Lines)
    <3> HIDE DEF rest
    <3> QED BY <1>1, <2>1, <2>2, <2>4, ExceptSeq
  <2>6. DOMAIN jsonl' = DOMAIN jsonl
    BY <2>2
  <2>7. \A i \in DOMAIN jsonl : jsonl'[i] = IF i = n THEN rest ELSE jsonl[i]
    BY <2>2
  <2> HIDE DEF rest, n
  <2> QED BY <2>4, <2>5, <2>6, <2>7
<1> QED BY <1>3, <1>4

\* Replacing a file changes that file, and with the manifest the design, of the
\* run in progress and of no other (write_run_artifacts).
LEMMA PutChangesTheRun ==
    ASSUME dirs \in [RunIds -> Dirs], run \in RunIds, version \in Nat, design \in Designs,
           file \in 1..3, dirs' = Put(file)
    PROVE  /\ dirs' \in [RunIds -> Dirs]
           /\ \A k \in RunIds : k # run => dirs'[k] = dirs[k]
           /\ dirs'[run].files = [dirs[run].files EXCEPT ![file] = version]
           /\ file = 3 => dirs'[run].spec = design
<1> DEFINE dir == dirs[run]
<1> DEFINE new == [dir EXCEPT !.files = [dir.files EXCEPT ![file] = version],
                              !.spec = IF file = 3 THEN design ELSE dir.spec]
<1>1. dirs' = [dirs EXCEPT ![run] = new]
  BY DEF Put
<1>2. dir \in Dirs
  OBVIOUS
<1>3. /\ new \in Dirs
      /\ new.files = [dir.files EXCEPT ![file] = version]
      /\ file = 3 => new.spec = design
  BY <1>2 DEF Dirs
<1> HIDE DEF new
<1> QED BY <1>1, <1>3

\* Every row is of a run of some batch.
LEMMA RowsHaveRunIds == BatchTyped => \A i \in DOMAIN jsonl : jsonl[i].row.run \in RunIds
<1> SUFFICES ASSUME BatchTyped, NEW i \in DOMAIN jsonl PROVE jsonl[i].row.run \in RunIds
  OBVIOUS
<1>1. jsonl \in Seq(Lines) /\ i \in 1..Len(jsonl)
  BY LenProperties DEF BatchTyped
<1>2. jsonl[i] \in Lines
  BY <1>1, ElementOfSeq
<1> QED BY <1>2 DEF Lines, SummaryRows

\* The run in progress has no row.
LEMMA RunInProgressHasNoRow ==
    ASSUME BatchInv, status = "running", step # "next", NEW i \in DOMAIN jsonl
    PROVE  jsonl[i].row.run # run
BY RunIdsAreNumbers DEF BatchInv, BatchTyped, RowsAreKnown

-----------------------------------------------------------------------------
\* A batch starts with nothing on disk that is not true.
LEMMA BatchInit == Init => BatchInv
<1> SUFFICES ASSUME Init PROVE BatchInv
  OBVIOUS
<1>1. NoDir \in Dirs
  BY DEF NoDir, Dirs
<1>2. jsonl \in Seq(Lines) /\ DOMAIN jsonl = {}
  BY DEF Init
<1>3. BatchTyped
  <2>1. dirs \in [RunIds -> Dirs]
    BY <1>1 DEF Init
  <2> QED BY <1>2, <2>1 DEF Init, BatchTyped
<1> QED BY <1>2, <1>3 DEF Init, BatchInv, RowsAreKnown, FilesAreWritten, RowsMatchArtifacts

\* A process that starts knows the rows it has taken, or finds none.
LEMMA StartKeeps ==
    ASSUME BatchInv, NEW d \in BatchDesigns, StartAfresh(d) \/ Resume(d) \/ ResumeRefused(d)
    PROVE  BatchInv'
<1> USE DEF BatchInv
<1>1. CASE StartAfresh(d)
  <2>1. jsonl' \in Seq(Lines) /\ DOMAIN jsonl' = {}
    BY <1>1 DEF StartAfresh, NoLines
  <2>2. BatchTyped'
    BY <1>1, <2>1 DEF StartAfresh, Begin, BatchTyped
  <2> QED BY <1>1, <2>1, <2>2
        DEF StartAfresh, Begin, RowsAreKnown, FilesAreWritten, RowsMatchArtifacts
<1>2. CASE Resume(d)
  <2>1. BatchTyped'
    BY <1>2 DEF Resume, Begin, BatchTyped
  <2>2. \A i \in DOMAIN jsonl :
           jsonl[i].row.run \in 1..Runs(d) => jsonl[i].row.run \in resumed'
    BY <1>2 DEF Resume, Begin, ScheduledRows
  <2>3. RowsAreKnown'
    BY <1>2, <2>2 DEF Resume, Begin, RowsAreKnown
  <2> QED BY <1>2, <2>1, <2>3 DEF Resume, Begin, FilesAreWritten, RowsMatchArtifacts
<1>3. CASE ResumeRefused(d)
  BY <1>3 DEF ResumeRefused, disk, BatchTyped, RowsAreKnown, FilesAreWritten, RowsMatchArtifacts
<1> QED BY <1>1, <1>2, <1>3

\* The next run comes after the one before, and has no row.
LEMMA ExecuteKeeps == BatchInv /\ Execute => BatchInv'
<1> SUFFICES ASSUME BatchInv, Execute PROVE BatchInv'
  OBVIOUS
<1> USE DEF BatchInv
<1>1. design \in BatchDesigns /\ status = "running" /\ step = "next"
  BY DEF Execute, Working, BatchTyped
<1>2. Runs(design) \in Int
  BY <1>1, DesignFacts
<1>6. run' \in Left
  BY DEF Execute
<1>7. run' \in 1..Runs(design) /\ run' > run /\ run' \notin resumed
  BY <1>2, <1>6 DEF Left, BatchTyped
<1>8. BatchTyped'
  BY <1>1, <1>2, <1>7 DEF Execute, disk, BatchTyped
<1>9. RowsAreKnown'
  BY <1>1, <1>2, <1>7 DEF Execute, disk, BatchTyped, RowsAreKnown
<1> QED BY <1>1, <1>8, <1>9 DEF Execute, disk, FilesAreWritten, RowsMatchArtifacts

\* Work that publishes nothing and appends nothing.
LEMMA QuietWorkKeeps ==
    ASSUME BatchInv, Finish \/ MakeDir \/ MakeTemp
    PROVE  BatchInv'
<1> USE DEF BatchInv
<1>1. CASE Finish
  BY <1>1 DEF Finish, disk, BatchTyped, RowsAreKnown, FilesAreWritten, RowsMatchArtifacts
<1>2. CASE MakeDir
  <2>1. run \in RunIds /\ status = "running" /\ step = "mkdir"
    BY <1>2, DesignFacts DEF MakeDir, Working, BatchTyped
  <2>2. /\ dirs' \in [RunIds -> Dirs]
        /\ \A k \in RunIds : dirs'[k].files = dirs[k].files /\ dirs'[k].spec = dirs[k].spec
    BY <1>2, <2>1 DEF MakeDir, BatchTyped, Dirs
  <2>3. BatchTyped'
    BY <1>2, <2>1, <2>2 DEF MakeDir, BatchTyped
  <2>4. RowsAreKnown'
    BY <1>2, <2>1 DEF MakeDir, RowsAreKnown
  <2>5. FilesAreWritten'
    BY <1>2, <2>1 DEF MakeDir, FilesAreWritten
  <2>6. \A i \in DOMAIN jsonl : jsonl[i].row.run \in RunIds
    BY RowsHaveRunIds
  <2>7. RowsMatchArtifacts'
    BY <1>2, <2>2, <2>6 DEF MakeDir, RowsMatchArtifacts
  <2> QED BY <2>3, <2>4, <2>5, <2>7
<1>3. CASE MakeTemp
  BY <1>3 DEF MakeTemp, Working, disk, BatchTyped, RowsAreKnown, FilesAreWritten, RowsMatchArtifacts
<1> QED BY <1>1, <1>2, <1>3

\* A file is replaced only under the run in progress, which has no row.
LEMMA PutKeepsRows ==
    ASSUME BatchInv, status = "running", step = "replace", dirs' = Put(file),
           UNCHANGED <<jsonl, run, version, design>>
    PROVE  /\ dirs' \in [RunIds -> Dirs]
           /\ RowsMatchArtifacts'
           /\ dirs'[run].files = [dirs[run].files EXCEPT ![file] = version]
           /\ file = 3 => dirs'[run].spec = design
           /\ dirs[run] \in Dirs
<1> USE DEF BatchInv
<1>1. design \in BatchDesigns /\ run \in 1..Runs(design)
  BY DEF BatchTyped
<1>2. run \in RunIds /\ design \in Designs
  BY <1>1, DesignFacts
<1>3. /\ dirs' \in [RunIds -> Dirs]
      /\ \A k \in RunIds : k # run => dirs'[k] = dirs[k]
      /\ dirs'[run].files = [dirs[run].files EXCEPT ![file] = version]
      /\ file = 3 => dirs'[run].spec = design
  BY <1>2, PutChangesTheRun DEF BatchTyped
<1>4. \A i \in DOMAIN jsonl : jsonl[i].row.run \in RunIds /\ jsonl[i].row.run # run
  BY RunInProgressHasNoRow, RowsHaveRunIds
<1>5. RowsMatchArtifacts'
  BY <1>3, <1>4 DEF RowsMatchArtifacts
<1> QED BY <1>2, <1>3, <1>5 DEF BatchTyped

\* Publishing an artifact touches the run in progress only.
LEMMA ReplaceKeeps == BatchInv /\ Replace => BatchInv'
<1> SUFFICES ASSUME BatchInv, Replace PROVE BatchInv'
  OBVIOUS
<1> USE DEF BatchInv
<1>1. status = "running" /\ step = "replace" /\ file \in 1..3 /\ version \in Nat
  BY DEF Replace, Working, BatchTyped
<1>2. /\ dirs' \in [RunIds -> Dirs]
      /\ RowsMatchArtifacts'
      /\ dirs'[run].files = [dirs[run].files EXCEPT ![file] = version]
      /\ file = 3 => dirs'[run].spec = design
      /\ dirs[run].files \in [1..3 -> Nat]
  BY <1>1, PutKeepsRows DEF Replace, Dirs
<1>3. BatchTyped'
  BY <1>1, <1>2 DEF Replace, BatchTyped
<1>4. RowsAreKnown'
  BY <1>1 DEF Replace, RowsAreKnown
<1>5. \A f \in 1..3 : f <= file => dirs'[run].files[f] = version
  BY <1>1, <1>2 DEF FilesAreWritten
<1>6. FilesAreWritten'
  BY <1>1, <1>2, <1>5 DEF Replace, FilesAreWritten
<1> QED BY <1>2, <1>3, <1>4, <1>6

\* The row of the run in progress is appended when its three files are there.
LEMMA WrittenKeepsMatch ==
    ASSUME BatchInv, status = "running", step = "append",
           NEW outcome, jsonl' = Written(outcome), UNCHANGED <<run, dirs, design, version>>
    PROVE  /\ jsonl' \in Seq(Lines)
           /\ RowsMatchArtifacts'
           /\ \A i \in DOMAIN jsonl' :
                 \/ i \in DOMAIN jsonl /\ jsonl'[i].row = jsonl[i].row
                 \/ jsonl'[i].row.run = run
<1> USE DEF BatchInv
<1>1. design \in BatchDesigns /\ run \in RunIds
  BY DesignFacts DEF BatchTyped
<1>2. /\ jsonl' \in Seq(Lines)
      /\ \A i \in DOMAIN jsonl' :
            \/ i \in DOMAIN jsonl /\ jsonl'[i].row = jsonl[i].row
            \/ jsonl'[i].row = SummaryRow(run)
  BY <1>1, WrittenKeepsRows DEF BatchTyped
<1>3. /\ SummaryRow(run).run = run /\ SummaryRow(run).spec = design
      /\ SummaryRow(run).version = version
  BY DEF SummaryRow
<1>4. /\ \A f \in 1..3 : dirs[run].files[f] = version
      /\ dirs[run].spec = design
  BY DEF FilesAreWritten
<1>5. RowsMatchArtifacts'
  BY <1>2, <1>3, <1>4 DEF RowsMatchArtifacts
<1> QED BY <1>2, <1>3, <1>5

\* The row that is appended tells the truth.
LEMMA AppendRowKeeps == BatchInv /\ AppendRow => BatchInv'
<1> SUFFICES ASSUME BatchInv, AppendRow PROVE BatchInv'
  OBVIOUS
<1> USE DEF BatchInv
<1>1. status = "running" /\ step = "append"
  BY DEF AppendRow, Working
<1>2. /\ jsonl' \in Seq(Lines)
      /\ RowsMatchArtifacts'
      /\ \A i \in DOMAIN jsonl' :
            \/ i \in DOMAIN jsonl /\ jsonl'[i].row = jsonl[i].row
            \/ jsonl'[i].row.run = run
  BY <1>1, WrittenKeepsMatch DEF AppendRow
<1>3. BatchTyped'
  BY <1>1, <1>2 DEF AppendRow, BatchTyped
<1>4. RowsAreKnown'
  BY <1>1, <1>2 DEF AppendRow, RowsAreKnown
<1> QED BY <1>1, <1>2, <1>3, <1>4 DEF AppendRow, FilesAreWritten

\* A process that raises or ends owes nothing but the rows that are there.
LEMMA FaultKeeps == ASSUME BatchInv, Raises \/ AppendRaises \/ ProcessEnds PROVE BatchInv'
<1> USE DEF BatchInv
<1>1. status' # "running" /\ status = "running"
  BY DEF Raises, AppendRaises, ProcessEnds, Fault
<1>2. RowsAreKnown' /\ FilesAreWritten'
  BY <1>1 DEF RowsAreKnown, FilesAreWritten
<1>3. UNCHANGED <<design, step, run, file, version>>
  BY DEF Raises, AppendRaises, ProcessEnds
<1>4. SUFFICES jsonl' \in Seq(Lines) /\ dirs' \in [RunIds -> Dirs] /\ RowsMatchArtifacts'
  BY <1>1, <1>2, <1>3 DEF BatchTyped
<1>5. CASE UNCHANGED <<jsonl, dirs>>
  BY <1>5 DEF BatchTyped, RowsMatchArtifacts
<1>6. CASE step = "replace" /\ dirs' = Put(file) /\ UNCHANGED jsonl
  BY <1>1, <1>3, <1>6, PutKeepsRows DEF BatchTyped
<1>7. CASE step = "append" /\ UNCHANGED dirs /\ \E outcome : jsonl' = Written(outcome)
  <2>1. PICK outcome : jsonl' = Written(outcome)
    BY <1>7
  <2> QED BY <1>1, <1>3, <1>7, <2>1, WrittenKeepsMatch DEF BatchTyped
<1>8. CASE step = "replace" /\ dirs' = [dirs EXCEPT ![run].left = TRUE] /\ UNCHANGED jsonl
  <2>1. run \in RunIds
    BY <1>1, <1>8, DesignFacts DEF BatchTyped
  <2>2. /\ dirs' \in [RunIds -> Dirs]
        /\ \A k \in RunIds : dirs'[k].files = dirs[k].files /\ dirs'[k].spec = dirs[k].spec
    BY <1>8, <2>1 DEF BatchTyped, Dirs
  <2>3. \A i \in DOMAIN jsonl : jsonl[i].row.run \in RunIds
    BY RowsHaveRunIds
  <2> QED BY <1>8, <2>2, <2>3 DEF BatchTyped, RowsMatchArtifacts
<1> QED BY <1>5, <1>6, <1>7, <1>8 DEF Raises, AppendRaises, ProcessEnds

\* Every step keeps the invariant of the batch.
LEMMA BatchStep == BatchInv /\ [Next]_vars => BatchInv'
<1> SUFFICES ASSUME BatchInv, [Next]_vars PROVE BatchInv'
  OBVIOUS
<1>1. CASE UNCHANGED vars
  BY <1>1 DEF vars, disk, BatchInv, BatchTyped, RowsAreKnown, FilesAreWritten, RowsMatchArtifacts
<1>2. CASE Next
  BY <1>2, StartKeeps, ExecuteKeeps, QuietWorkKeeps, ReplaceKeeps, AppendRowKeeps, FaultKeeps
     DEF Next, Work
<1> QED BY <1>1, <1>2

\* The inductive invariant of the batch: a process never works on a run that
\* has a row, and writes the row of a run after its three files (run_experiment).
THEOREM BatchCorrect == Spec => []BatchInv
BY BatchInit, BatchStep, PTL DEF Spec

\* However many processes were started, ended and resumed, a row that is in the
\* JSONL is about the three files on the disk and the design in their manifest.
THEOREM RowsStayTrue == Spec => []RowsMatchArtifacts
<1>1. BatchInv => RowsMatchArtifacts
  BY DEF BatchInv
<1> QED BY <1>1, BatchCorrect, PTL

-----------------------------------------------------------------------------
\* A process executes at most one run for each number it counts up to, so the
\* executions are bounded by the processes that were started.
ExecutionsAreCounted ==
    /\ run <= Cardinality(RunIds)
    /\ version <= starts * Cardinality(RunIds)
    /\ status = "running" => version + Cardinality(RunIds) <= starts * Cardinality(RunIds) + run
    /\ status = "running" /\ step # "next" => version > 0

\* The inductive invariant of the refusals.
ResumeInv == BatchInv /\ ExecutionsAreCounted /\ RefusalIsExplained

\* The numbers of the runs are at most as many as the runs there are.
LEMMA RunBounds ==
    /\ Cardinality(RunIds) \in Nat /\ 0 \notin RunIds /\ MaxStarts \in Nat /\ MaxFaults \in Nat
    /\ \A d \in BatchDesigns : \A k \in 1..Runs(d) : k <= Cardinality(RunIds)
<1>1. Cardinality(RunIds) \in Nat
  BY RunsAssumption, FS_CardinalityType
<1>2. 0 \notin RunIds
  BY DesignFacts DEF RunIds
<1>3. ASSUME NEW d \in BatchDesigns, NEW k \in 1..Runs(d)
      PROVE  k <= Cardinality(RunIds)
  <2>1. Runs(d) \in Int /\ 1..Runs(d) \in SUBSET RunIds
    BY DesignFacts
  <2>2. Cardinality(1..Runs(d)) <= Cardinality(RunIds)
    BY <2>1, RunsAssumption, FS_Subset
  <2>3. Cardinality(1..Runs(d)) = Runs(d) - 1 + 1
    BY <2>1, FS_Interval
  <2> QED BY <1>1, <2>1, <2>2, <2>3
<1> QED BY <1>1, <1>2, <1>3, BatchAssumption

\* By how much one more process raises the bound on the executions.
LEMMA OneMoreStart ==
    ASSUME NEW n \in Nat, NEW c \in Nat
    PROVE  n * c \in Nat /\ (n + 1) * c = n * c + c
OBVIOUS

\* With fewer processes the bound is not greater.
LEMMA FewerStarts ==
    ASSUME NEW n \in Nat, NEW m \in Nat, n <= m, NEW c \in Nat
    PROVE  n * c <= m * c
OBVIOUS

\* The executions that were counted are numbered by Versions.
LEMMA VersionsCover ==
    ASSUME version \in Nat, starts \in 0..MaxStarts, ExecutionsAreCounted
    PROVE  version \in Versions
<1> DEFINE c == Cardinality(RunIds)
<1>1. c \in Nat /\ starts \in Nat /\ MaxStarts \in Nat /\ starts <= MaxStarts
  BY RunBounds
<1>2. version <= starts * c
  BY DEF ExecutionsAreCounted
<1> HIDE DEF c
<1>3. starts * c <= MaxStarts * c /\ starts * c \in Nat /\ MaxStarts * c \in Nat
  BY <1>1, FewerStarts, OneMoreStart
<1>4. version \in 0..(MaxStarts * c)
  BY <1>2, <1>3
<1> QED BY <1>4 DEF Versions, c

\* A refusal has one of its reasons: rows of the same run that are there are the
\* same, and the artifacts of a row verify unless a temporary file is beside them.
LEMMA RefusalHasReason ==
    ASSUME BatchInv, TypeOK, NEW d \in BatchDesigns, Refuses(d)
    PROVE  \/ \E i \in DOMAIN jsonl : ~jsonl[i].valid
           \/ \E i \in DOMAIN jsonl : dirs[jsonl[i].row.run].left \/ jsonl[i].row.spec # d
<1> USE DEF BatchInv
<1>1. \A i \in DOMAIN jsonl :
         LET row == jsonl[i].row
         IN  /\ row = [run |-> row.run, spec |-> dirs[row.run].spec, version |-> dirs[row.run].files[3]]
             /\ \A f \in 1..3 : dirs[row.run].files[f] = row.version /\ row.version # 0
  <2> TAKE i \in DOMAIN jsonl
  <2>1. jsonl[i] \in Lines
    BY LenProperties, ElementOfSeq DEF BatchTyped
  <2>2. jsonl[i].row \in SummaryRows
    BY <2>1 DEF Lines
  <2>3. /\ \A f \in 1..3 : dirs[jsonl[i].row.run].files[f] = jsonl[i].row.version
        /\ dirs[jsonl[i].row.run].spec = jsonl[i].row.spec
    BY DEF RowsMatchArtifacts
  <2>4. jsonl[i].row.version # 0
    BY DEF TypeOK
  <2>5. 3 \in 1..3
    OBVIOUS
  <2> QED BY <2>2, <2>3, <2>4, <2>5 DEF SummaryRows
<1>2. CASE \E row \in ScheduledRows(d) : row.spec # d
  BY <1>2 DEF ScheduledRows
<1>3. CASE \E row, other \in ScheduledRows(d) : row.run = other.run /\ row # other
  <2>1. PICK i \in DOMAIN jsonl, j \in DOMAIN jsonl :
           jsonl[i].row.run = jsonl[j].row.run /\ jsonl[i].row # jsonl[j].row
    BY <1>3 DEF ScheduledRows
  <2> DEFINE k == jsonl[i].row.run
  <2>2. /\ jsonl[i].row = [run |-> k, spec |-> dirs[k].spec, version |-> dirs[k].files[3]]
        /\ jsonl[j].row = [run |-> k, spec |-> dirs[k].spec, version |-> dirs[k].files[3]]
    BY <1>1, <2>1
  <2> QED BY <2>1, <2>2
<1>4. CASE \E row \in ScheduledRows(d) :
              dirs[row.run].made /\ (~Verifies(dirs[row.run]) \/ Rederived(row.run) # row)
  <2>1. PICK i \in DOMAIN jsonl :
           /\ dirs[jsonl[i].row.run].made
           /\ ~Verifies(dirs[jsonl[i].row.run]) \/ Rederived(jsonl[i].row.run) # jsonl[i].row
    BY <1>4 DEF ScheduledRows
  <2> DEFINE k == jsonl[i].row.run
  <2>2. /\ jsonl[i].row = [run |-> k, spec |-> dirs[k].spec, version |-> dirs[k].files[3]]
        /\ \A f \in 1..3 : dirs[k].files[f] = jsonl[i].row.version /\ jsonl[i].row.version # 0
    BY <1>1
  <2>3. 1 \in 1..3 /\ 2 \in 1..3 /\ 3 \in 1..3
    OBVIOUS
  <2> QED BY <2>1, <2>2, <2>3 DEF Verifies, Rederived
<1> QED BY <1>2, <1>3, <1>4 DEF Refuses

\* The lines of the JSONL, as TypeOK has them.
LinesFit(lines, v) ==
    \A i \in DOMAIN lines :
        /\ lines[i].row.run \in RunIds /\ lines[i].row.version \in 1..v
        /\ lines[i].ended \/ i = Len(lines)

\* Only the last line may be without its end, whatever a write leaves of a row.
LEMMA WrittenFits ==
    ASSUME jsonl \in Seq(Lines), run \in RunIds, design \in BatchDesigns, version \in Nat,
           version > 0, LinesFit(jsonl, version), NEW outcome, jsonl' = Written(outcome)
    PROVE  LinesFit(jsonl', version)
<1> DEFINE n == Len(jsonl)
<1> DEFINE new == Line(SummaryRow(run), outcome # "torn", outcome = "whole")
<1>1. n \in Nat /\ DOMAIN jsonl = 1..n
  BY LenProperties
<1>2. \A i \in DOMAIN jsonl' :
         \/ i \in DOMAIN jsonl /\ jsonl'[i].row = jsonl[i].row
         \/ jsonl'[i].row = SummaryRow(run)
  BY WrittenKeepsRows
<1>3. \A i \in DOMAIN jsonl' : jsonl'[i].row.run \in RunIds /\ jsonl'[i].row.version \in 1..version
  BY <1>2 DEF SummaryRow, LinesFit
<1>4. CASE n = 0 \/ (n > 0 /\ jsonl[n].ended)
  <2>1. jsonl' = Append(jsonl, new)
    BY <1>4 DEF Written
  <2> HIDE DEF new
  <2>2. /\ Len(jsonl') = n + 1 /\ DOMAIN jsonl' = 1..(n + 1)
        /\ \A i \in 1..n : jsonl'[i] = jsonl[i]
    BY <1>1, <2>1
  <2>3. \A i \in DOMAIN jsonl' : jsonl'[i].ended \/ i = Len(jsonl')
    BY <1>1, <1>4, <2>2 DEF LinesFit
  <2> QED BY <1>3, <2>3 DEF LinesFit
<1>5. CASE ~(n = 0 \/ (n > 0 /\ jsonl[n].ended))
  <2> DEFINE rest == Line(jsonl[n].row, FALSE, outcome = "whole")
  <2>1. jsonl' = [jsonl EXCEPT ![n] = rest]
    BY <1>5 DEF Written
  <2>2. n \in 1..n
    BY <1>1, <1>5
  <2> HIDE DEF rest
  <2>3. DOMAIN jsonl' = DOMAIN jsonl /\ (\A i \in DOMAIN jsonl : i # n => jsonl'[i] = jsonl[i])
    BY <2>1
  <2>4. Len(jsonl') = n
    BY <1>1, <2>3, WrittenKeepsRows, LenProperties
  <2> QED BY <1>1, <1>3, <2>3, <2>4 DEF LinesFit
<1> QED BY <1>4, <1>5

\* The files of every run directory, as TypeOK has them.
FilesFit(all, v) == \A k \in RunIds : \A i \in 1..3 : all[k].files[i] \in 0..v

\* The parts of the refusals' invariant that a step may change.
LEMMA ResumeParts ==
    ASSUME BatchInv', ExecutionsAreCounted',
           design' \in Designs, status' \in {"offered", "running", "finished", "raised", "refused", "gone"},
           resumed' \subseteq RunIds, run' \notin resumed',
           LinesFit(jsonl', version'), FilesFit(dirs', version'),
           starts' \in 0..MaxStarts, faults' \in 0..MaxFaults,
           status' = "refused" =>
              \/ \E i \in DOMAIN jsonl' : ~jsonl'[i].valid
              \/ \E i \in DOMAIN jsonl' :
                    dirs'[jsonl'[i].row.run].left \/ jsonl'[i].row.spec # design'
    PROVE  ResumeInv'
<1>1. version' \in Nat /\ run' \in 0..Cardinality(RunIds)
  BY RunBounds DEF BatchInv, BatchTyped, ExecutionsAreCounted
<1>2. version' \in Versions
  <2>1. (version \in Nat /\ starts \in 0..MaxStarts /\ ExecutionsAreCounted => version \in Versions)'
    BY VersionsCover, PTL
  <2> QED BY <1>1, <2>1 DEF Versions
<1>3. TypeOK'
  BY <1>1, <1>2 DEF BatchInv, BatchTyped, TypeOK, LinesFit, FilesFit
<1> QED BY <1>3 DEF ResumeInv, RefusalIsExplained

\* What the invariant gives to every step.
LEMMA ResumeFacts ==
    ASSUME ResumeInv
    PROVE  /\ BatchInv /\ TypeOK /\ ExecutionsAreCounted
           /\ LinesFit(jsonl, version) /\ FilesFit(dirs, version)
           /\ version \in Nat /\ run \in Nat /\ starts \in Nat
           /\ Cardinality(RunIds) \in Nat /\ starts * Cardinality(RunIds) \in Nat
<1>1. BatchInv /\ TypeOK /\ ExecutionsAreCounted
  BY DEF ResumeInv, RefusalIsExplained
<1>2. LinesFit(jsonl, version) /\ FilesFit(dirs, version)
  BY <1>1 DEF TypeOK, LinesFit, FilesFit
<1>3. version \in Nat /\ run \in Nat /\ starts \in Nat
  BY <1>1, RunBounds DEF TypeOK, BatchInv, BatchTyped
<1>4. Cardinality(RunIds) \in Nat
  BY RunBounds
<1>5. starts * Cardinality(RunIds) \in Nat
  BY <1>3, <1>4, OneMoreStart
<1> QED BY <1>1, <1>2, <1>3, <1>4, <1>5

\* A refusal is recorded with its reason, and a process that starts may execute
\* every run once more.
LEMMA StartIsExplained ==
    ASSUME ResumeInv, NEW d \in BatchDesigns, StartAfresh(d) \/ Resume(d) \/ ResumeRefused(d)
    PROVE  ResumeInv'
<1> DEFINE c == Cardinality(RunIds)
<1>1. /\ BatchInv /\ TypeOK /\ ExecutionsAreCounted /\ BatchInv'
      /\ LinesFit(jsonl, version) /\ FilesFit(dirs, version)
      /\ version \in Nat /\ starts \in Nat /\ c \in Nat /\ starts * c \in Nat
  BY ResumeFacts, StartKeeps DEF ResumeInv
<1>2. /\ d \in Designs /\ starts + 1 \in 0..MaxStarts /\ starts' = starts + 1 /\ design' = d
      /\ UNCHANGED <<version, dirs, faults>> /\ faults \in 0..MaxFaults
  BY <1>1, RunBounds, BatchAssumption, DesignFacts DEF StartAfresh, Resume, ResumeRefused, CanStart, Begin, TypeOK, disk
<1>3. (starts + 1) * c = starts * c + c
  BY <1>1, OneMoreStart
<1>4. CASE StartAfresh(d) \/ Resume(d)
  <2>1. status' = "running" /\ step' = "next" /\ run' = 0
    BY <1>4 DEF StartAfresh, Resume, Begin
  <2>2. resumed' \subseteq RunIds /\ LinesFit(jsonl', version')
    BY <1>1, <1>2, <1>4 DEF StartAfresh, Resume, Begin, NoLines, ScheduledRows, LinesFit
  <2>3. ExecutionsAreCounted'
    <3>1. version <= starts * c
      BY <1>1 DEF ExecutionsAreCounted
    <3> HIDE DEF c
    <3>2. run' <= c /\ version' <= starts' * c /\ version' + c <= starts' * c + run'
      BY <1>1, <1>2, <1>3, <2>1, <3>1
    <3> QED BY <2>1, <3>2 DEF ExecutionsAreCounted, c
  <2>4. run' \notin resumed'
    BY <2>1, <2>2, RunBounds
  <2>5. FilesFit(dirs', version')
    BY <1>1, <1>2
  <2> QED BY <1>1, <1>2, <2>1, <2>2, <2>3, <2>4, <2>5, ResumeParts
<1>5. CASE ResumeRefused(d)
  <2>1. /\ status' = "refused" /\ Refuses(d)
        /\ UNCHANGED <<step, run, resumed, jsonl>>
    BY <1>5 DEF ResumeRefused, disk
  <2>2. ExecutionsAreCounted'
    <3>1. version <= starts * c /\ run <= c
      BY <1>1 DEF ExecutionsAreCounted
    <3> HIDE DEF c
    <3>2. run' <= c /\ version' <= starts' * c
      BY <1>1, <1>2, <1>3, <2>1, <3>1
    <3> QED BY <2>1, <3>2 DEF ExecutionsAreCounted, c
  <2>3. \/ \E i \in DOMAIN jsonl' : ~jsonl'[i].valid
        \/ \E i \in DOMAIN jsonl' :
              dirs'[jsonl'[i].row.run].left \/ jsonl'[i].row.spec # design'
    BY <1>1, <1>2, <2>1, RefusalHasReason
  <2>4. resumed' \subseteq RunIds /\ run' \notin resumed'
    BY <1>1, <2>1 DEF TypeOK
  <2>5. LinesFit(jsonl', version') /\ FilesFit(dirs', version')
    BY <1>1, <1>2, <2>1
  <2> QED BY <1>1, <1>2, <2>1, <2>2, <2>3, <2>4, <2>5, ResumeParts
<1> QED BY <1>4, <1>5

\* The next run is one the design has, and is counted.
LEMMA ExecuteIsCounted == ResumeInv /\ Execute => ResumeInv'
<1> SUFFICES ASSUME ResumeInv, Execute PROVE ResumeInv'
  OBVIOUS
<1> DEFINE c == Cardinality(RunIds)
<1>1. /\ BatchInv /\ TypeOK /\ ExecutionsAreCounted /\ BatchInv'
      /\ LinesFit(jsonl, version) /\ FilesFit(dirs, version)
      /\ version \in Nat /\ run \in Nat /\ starts \in Nat /\ c \in Nat /\ starts * c \in Nat
  BY ResumeFacts, ExecuteKeeps DEF ResumeInv
<1>2. /\ status = "running" /\ design \in BatchDesigns /\ run' \in Left
      /\ version' = version + 1 /\ step' = "mkdir"
      /\ UNCHANGED <<design, status, resumed, jsonl, dirs, starts, faults>>
  BY <1>1 DEF Execute, Working, disk, BatchInv, BatchTyped
<1>3. Runs(design) \in Int /\ run' \in 1..Runs(design) /\ run' > run /\ run' \notin resumed
  BY <1>2, DesignFacts DEF Left
<1>4. run' <= c
  BY <1>2, <1>3, RunBounds
<1>5. ExecutionsAreCounted'
  <2>1. version + c <= starts * c + run /\ version <= starts * c
    BY <1>1, <1>2 DEF ExecutionsAreCounted
  <2>2. starts' * c = starts * c
    BY <1>2
  <2>4. run' \in Nat /\ version' \in Nat
    BY <1>1, <1>2, <1>3
  <2> HIDE DEF c
  <2> DEFINE s == starts * c
             w == run'
             v == version'
  <2>5. /\ s \in Nat /\ c \in Nat /\ w \in Nat /\ v \in Nat /\ version \in Nat /\ run \in Nat
        /\ version + c <= s + run /\ v = version + 1 /\ w > run /\ w <= c
    BY <1>1, <1>2, <1>3, <1>4, <2>1, <2>4
  <2> HIDE DEF s, w, v
  <2>6. w <= c /\ v <= s /\ v + c <= s + w /\ v > 0
    BY <2>5
  <2>3. run' <= c /\ version' <= starts' * c /\ version' + c <= starts' * c + run' /\ version' > 0
    BY <2>2, <2>6 DEF s, w, v
  <2> QED BY <2>3 DEF ExecutionsAreCounted, c
<1>6. LinesFit(jsonl', version') /\ FilesFit(dirs', version')
  <2>1. 1..version \subseteq 1..version' /\ 0..version \subseteq 0..version'
    BY <1>1, <1>2
  <2>2. LinesFit(jsonl, version')
    BY <1>1, <2>1 DEF LinesFit
  <2>3. FilesFit(dirs, version')
    BY <1>1, <2>1 DEF FilesFit
  <2> QED BY <1>2, <2>2, <2>3
<1> QED BY <1>1, <1>2, <1>3, <1>5, <1>6, ResumeParts DEF TypeOK

\* What a step other than those of a start and of the next run leaves alone.
LEMMA RestOfResume ==
    ASSUME ResumeInv, BatchInv', status = "running", status' \in {"running", "finished", "raised", "gone"},
           UNCHANGED <<design, run, resumed, version, starts>>, faults' \in 0..MaxFaults,
           status' = "running" /\ step' # "next" => step # "next",
           LinesFit(jsonl', version), FilesFit(dirs', version)
    PROVE  ResumeInv'
<1>1. TypeOK /\ ExecutionsAreCounted
  BY ResumeFacts
<1>2. ExecutionsAreCounted'
  BY <1>1 DEF ExecutionsAreCounted
<1>3. LinesFit(jsonl', version') /\ FilesFit(dirs', version')
  OBVIOUS
<1> QED BY <1>1, <1>2, <1>3, ResumeParts DEF TypeOK

\* Publishing an artifact gives one file the number of this execution.
LEMMA PutFits ==
    ASSUME ResumeInv, status = "running", dirs' = Put(file)
    PROVE  FilesFit(dirs', version)
<1>1. /\ run \in Nat /\ file \in 1..3 /\ version \in Nat /\ dirs \in [RunIds -> Dirs]
      /\ FilesFit(dirs, version)
  BY ResumeFacts DEF BatchInv, BatchTyped
<1> DEFINE dir == dirs[run]
           files == [dir.files EXCEPT ![file] = version]
           new == [dir EXCEPT !.files = files, !.spec = IF file = 3 THEN design ELSE dir.spec]
<1>2. dirs' = [dirs EXCEPT ![run] = new]
  BY DEF Put
<1>3. ASSUME NEW k \in RunIds, NEW i \in 1..3
      PROVE  dirs'[k].files[i] \in 0..version
  <2>1. CASE k # run
    BY <1>1, <1>2, <2>1 DEF FilesFit
  <2>2. CASE k = run
    <3>1. dir \in Dirs /\ \A j \in 1..3 : dir.files[j] \in 0..version
      BY <1>1, <2>2 DEF FilesFit
    <3>2. new.files = files
      BY <3>1 DEF Dirs
    <3>3. files[i] = IF i = file THEN version ELSE dir.files[i]
      BY <3>1 DEF Dirs
    <3>4. dirs'[k].files = files
      BY <1>1, <1>2, <2>2, <3>2
    <3> QED BY <1>1, <3>1, <3>3, <3>4
  <2> QED BY <2>1, <2>2
<1> QED BY <1>3 DEF FilesFit

\* A row is appended by a process that has executed its run.
LEMMA AppendFits ==
    ASSUME ResumeInv, status = "running", step = "append", NEW outcome, jsonl' = Written(outcome)
    PROVE  LinesFit(jsonl', version)
<1>1. /\ BatchInv /\ LinesFit(jsonl, version) /\ version \in Nat /\ version > 0
  BY ResumeFacts DEF ExecutionsAreCounted
<1>2. design \in BatchDesigns /\ run \in RunIds /\ jsonl \in Seq(Lines)
  BY <1>1, DesignFacts DEF BatchInv, BatchTyped
<1> QED BY <1>1, <1>2, WrittenFits

\* Work of a run: no step of it changes what a refusal looks at but for its files
\* and its row.
LEMMA WorkIsExplained ==
    ASSUME ResumeInv, Finish \/ MakeDir \/ MakeTemp \/ Replace \/ AppendRow
    PROVE  ResumeInv'
<1>1. /\ BatchInv /\ TypeOK /\ LinesFit(jsonl, version) /\ FilesFit(dirs, version)
  BY ResumeFacts
<1>2. BatchInv'
  BY <1>1, QuietWorkKeeps, ReplaceKeeps, AppendRowKeeps
<1>3. /\ status = "running" /\ status' \in {"running", "finished"}
      /\ UNCHANGED <<design, run, resumed, version, starts, faults>> /\ faults' \in 0..MaxFaults
      /\ status' = "running" /\ step' # "next" => step # "next"
  BY <1>1 DEF Finish, MakeDir, MakeTemp, Replace, AppendRow, Working, TypeOK
<1>4. LinesFit(jsonl', version)
  <2>1. CASE AppendRow
    BY <2>1, <1>3, AppendFits DEF AppendRow, Working
  <2>2. CASE ~AppendRow
    BY <1>1, <2>2 DEF Finish, MakeDir, MakeTemp, Replace, disk
  <2> QED BY <2>1, <2>2
<1>5. FilesFit(dirs', version)
  <2>1. CASE Replace
    BY <1>3, <2>1, PutFits DEF Replace
  <2>2. CASE MakeDir
    <3>1. dirs \in [RunIds -> Dirs] /\ dirs' = [dirs EXCEPT ![run].made = TRUE]
      BY <1>1, <2>2 DEF MakeDir, BatchInv, BatchTyped
    <3>2. \A k \in RunIds : dirs'[k].files = dirs[k].files
      BY <3>1 DEF Dirs
    <3> QED BY <1>1, <3>2 DEF FilesFit
  <2>3. CASE ~Replace /\ ~MakeDir
    BY <1>1, <2>3 DEF Finish, MakeTemp, AppendRow, disk
  <2> QED BY <2>1, <2>2, <2>3
<1> QED BY <1>2, <1>3, <1>4, <1>5, RestOfResume

\* A process that raises or ends leaves files and a row of its run at most.
LEMMA FaultIsExplained ==
    ASSUME ResumeInv, Raises \/ AppendRaises \/ ProcessEnds
    PROVE  ResumeInv'
<1>1. /\ BatchInv /\ TypeOK /\ LinesFit(jsonl, version) /\ FilesFit(dirs, version)
  BY ResumeFacts
<1>2. BatchInv'
  BY <1>1, FaultKeeps
<1>3. /\ status = "running" /\ status' \in {"raised", "gone"}
      /\ UNCHANGED <<design, run, resumed, version, starts>> /\ faults' \in 0..MaxFaults
  BY <1>1, RunBounds DEF Raises, AppendRaises, ProcessEnds, Fault, TypeOK
<1>4. LinesFit(jsonl', version)
  <2>1. CASE UNCHANGED jsonl
    BY <1>1, <2>1
  <2>2. CASE step = "append" /\ \E outcome : jsonl' = Written(outcome)
    <3>1. PICK outcome : jsonl' = Written(outcome)
      BY <2>2
    <3> QED BY <1>3, <2>2, <3>1, AppendFits
  <2> QED BY <2>1, <2>2 DEF Raises, AppendRaises, ProcessEnds
<1>5. FilesFit(dirs', version)
  <2>1. CASE UNCHANGED dirs
    BY <1>1, <2>1
  <2>2. CASE dirs' = Put(file)
    BY <1>3, <2>2, PutFits
  <2>3. CASE dirs' = [dirs EXCEPT ![run].left = TRUE]
    <3>1. dirs \in [RunIds -> Dirs]
      BY <1>1 DEF BatchInv, BatchTyped
    <3>2. \A k \in RunIds : dirs'[k].files = dirs[k].files
      BY <2>3, <3>1 DEF Dirs
    <3> QED BY <1>1, <3>2 DEF FilesFit
  <2> QED BY <2>1, <2>2, <2>3 DEF Raises, AppendRaises, ProcessEnds
<1> QED BY <1>2, <1>3, <1>4, <1>5, RestOfResume

\* Nothing was refused yet, and nothing executed.
LEMMA ResumeInit == Init => ResumeInv
<1> SUFFICES ASSUME Init PROVE ResumeInv
  OBVIOUS
<1> DEFINE c == Cardinality(RunIds)
<1>1. c \in Nat /\ MaxStarts \in Nat /\ MaxFaults \in Nat /\ 0 * c = 0
  BY RunBounds
<1>2. /\ run = 0 /\ version = 0 /\ starts = 0 /\ faults = 0 /\ file = 1 /\ step = "next"
      /\ status = "offered" /\ design \in Designs /\ resumed = {} /\ DOMAIN jsonl = {}
      /\ dirs = [k \in RunIds |-> NoDir]
  BY DEF Init
<1>3. ExecutionsAreCounted
  BY <1>1, <1>2 DEF ExecutionsAreCounted
<1>4. \A k \in RunIds : \A i \in 1..3 : dirs[k].files[i] \in 0..version
  BY <1>2 DEF NoDir
<1>5. version \in Versions
  BY <1>1, <1>2, <1>3, VersionsCover
<1>6. TypeOK
  BY <1>1, <1>2, <1>4, <1>5 DEF TypeOK
<1> QED BY <1>2, <1>3, <1>6, BatchInit DEF ResumeInv, RefusalIsExplained

\* Every step keeps the invariant of the refusals.
LEMMA ResumeStep == ResumeInv /\ [Next]_vars => ResumeInv'
<1> SUFFICES ASSUME ResumeInv, [Next]_vars PROVE ResumeInv'
  OBVIOUS
<1>1. CASE UNCHANGED vars
  <2>1. BatchInv'
    BY <1>1, BatchStep DEF ResumeInv
  <2>2. ExecutionsAreCounted' /\ RefusalIsExplained'
    BY <1>1 DEF ResumeInv, vars, disk, ExecutionsAreCounted, RefusalIsExplained, TypeOK
  <2> QED BY <2>1, <2>2 DEF ResumeInv
<1>2. CASE Next
  BY <1>2, StartIsExplained, ExecuteIsCounted, WorkIsExplained, FaultIsExplained DEF Next, Work
<1> QED BY <1>1, <1>2

\* A process refuses to resume (_load_resume_rows) only because a row was not
\* written as a whole, a temporary file was left beside the artifacts of a row,
\* or a row is of another design; and the state has its shape.
THEOREM RefusalsHaveReasons == Spec => []RefusalIsExplained
<1>1. ResumeInv => RefusalIsExplained
  BY DEF ResumeInv
<1> QED BY <1>1, ResumeInit, ResumeStep, PTL DEF Spec

-----------------------------------------------------------------------------
(* What is needed of division.                                               *)

\* Products of integers.
LEMMA Distributes ==
    ASSUME NEW a \in Int, NEW b \in Int, NEW c \in Int
    PROVE  /\ a * (b + c) = a * b + a * c
           /\ a * (b - c) = a * b - a * c
           /\ a * b \in Int /\ a * b = b * a /\ (a * b) * c = a * (b * c)
OBVIOUS

\* Division by a positive number leaves a rest.
LEMMA Division ==
    ASSUME NEW a \in Int, NEW n \in Nat \ {0}
    PROVE  /\ a \div n \in Int /\ a % n \in 0..(n - 1)
           /\ a = n * (a \div n) + (a % n)
OBVIOUS

\* What a division by n comes to.
QuotientAndRest(a, n, q, r) == a \div n = q /\ a % n = r

\* There is one way to divide.
LEMMA DivisionIsUnique ==
    ASSUME NEW n \in Nat \ {0}, NEW q \in Int, NEW r \in 0..(n - 1), NEW a \in Int, a = n * q + r
    PROVE  QuotientAndRest(a, n, q, r)
<1> DEFINE u == a \div n
           v == a % n
<1>1. u \in Int /\ v \in 0..(n - 1) /\ a = n * u + v
  BY Division
<1> HIDE DEF u, v
<1>2. n * (q - u) = n * q - n * u /\ n * q \in Int /\ n * u \in Int
  BY <1>1, Distributes
<1>3. n * (q - u) = v - r
  BY <1>1, <1>2
<1>4. q - u <= 0
  <2> SUFFICES ASSUME q - u >= 1 PROVE FALSE
    BY <1>1
  <2>1. n * (q - u) = n + n * (q - u - 1)
    BY <1>1
  <2>2. n * (q - u - 1) >= 0
    BY <1>1
  <2> QED BY <1>1, <1>3, <2>1, <2>2
<1>5. q - u >= 0
  <2> SUFFICES ASSUME u - q >= 1 PROVE FALSE
    BY <1>1
  <2>1. n * (q - u) = 0 - n - n * (u - q - 1)
    BY <1>1
  <2>2. n * (u - q - 1) >= 0
    BY <1>1
  <2> QED BY <1>1, <1>3, <2>1, <2>2
<1>6. q = u
  BY <1>1, <1>4, <1>5
<1> QED BY <1>1, <1>6 DEF u, v, QuotientAndRest

\* A quotient of naturals is one, and positive if the dividend is not less.
LEMMA Quotients ==
    ASSUME NEW a \in Nat, NEW n \in Nat \ {0}
    PROVE  /\ a \div n \in Nat
           /\ \A q \in Nat : a < n * q => a \div n < q
<1> DEFINE u == a \div n
           v == a % n
<1>1. u \in Int /\ v \in 0..(n - 1) /\ a = n * u + v
  BY Division
<1> HIDE DEF u, v
<1>2. u >= 0
  <2> SUFFICES ASSUME u <= -1 PROVE FALSE
    BY <1>1
  <2>1. n * u = n * (u + 1) - n /\ n * (u + 1) <= 0
    BY <1>1
  <2> QED BY <1>1, <2>1
<1>3. ASSUME NEW q \in Nat, a < n * q, u >= q PROVE FALSE
  <2>1. n * u >= n * q
    <3>1. n * (u - q) = n * u - n * q /\ n * (u - q) >= 0
      BY <1>1, <1>3
    <3> QED BY <1>1, <3>1
  <2> QED BY <1>1, <1>3, <2>1
<1>4. \A q \in Nat : a < n * q => u < q
  BY <1>1, <1>3
<1> QED BY <1>1, <1>2, <1>4 DEF u

\* To divide by one number and then by another is to divide by their product.
LEMMA DivisionTwice ==
    ASSUME NEW a \in Int, NEW m \in Nat \ {0}, NEW n \in Nat \ {0}
    PROVE  (a \div m) \div n = a \div (m * n) /\ m * n \in Nat \ {0}
<1> DEFINE u == a \div m
           v == a % m
           x == u \div n
           y == u % n
<1>1. u \in Int /\ v \in 0..(m - 1) /\ a = m * u + v
  BY Division
<1>2. x \in Int /\ y \in 0..(n - 1) /\ u = n * x + y
  <2> HIDE DEF u
  <2> QED BY <1>1, Division
<1> HIDE DEF u, v, x, y
<1>3. m * n \in Nat \ {0}
  OBVIOUS
<1>4. a = (m * n) * x + (m * y + v)
  <2>1. m * (n * x + y) = m * (n * x) + m * y /\ m * (n * x) = (m * n) * x
    BY <1>1, <1>2
  <2>2. m * (n * x) \in Int /\ m * y \in Int
    BY <1>1, <1>2
  <2> QED BY <1>1, <1>2, <2>1, <2>2
<1>5. m * y + v \in 0..(m * n - 1)
  <2>1. m * y + m * (n - 1 - y) = m * (n - 1) /\ m * (n - 1) = m * n - m
    BY <1>2
  <2>2. m * y >= 0 /\ m * (n - 1 - y) >= 0 /\ m * y \in Int /\ m * n \in Int /\ m * (n - 1 - y) \in Int
    BY <1>2
  <2> QED BY <1>1, <2>1, <2>2
<1>6. a \div (m * n) = x
  <2> DEFINE w == m * n
             r == m * y + v
  <2>1. w \in Nat \ {0} /\ r \in 0..(w - 1) /\ a = w * x + r
    BY <1>3, <1>4, <1>5
  <2> HIDE DEF w, r
  <2>2. QuotientAndRest(a, w, x, r)
    BY <1>2, <2>1, DivisionIsUnique
  <2> QED BY <2>2 DEF w, QuotientAndRest
<1> QED BY <1>3, <1>6 DEF x, u

\* A rest of a sum says what the rest of one of its terms is.
RestIsShifted(n, a, y, b) ==
    /\ (a + y) % n = b <=> y % n = (b - a) % n
    /\ (b - a) % n \in 0..(n - 1)

\* It is so.
LEMMA ShiftedRest ==
    ASSUME NEW n \in Nat \ {0}, NEW a \in Int, NEW y \in Int, NEW b \in 0..(n - 1)
    PROVE  RestIsShifted(n, a, y, b)
<1> DEFINE u == y \div n
           v == y % n
           t == (b - a) \div n
           w == (b - a) % n
           e == (a + y) \div n
           f == (a + y) % n
<1>1. u \in Int /\ v \in 0..(n - 1) /\ y = n * u + v
  BY Division
<1>2. t \in Int /\ w \in 0..(n - 1) /\ b - a = n * t + w
  <2>1. b - a \in Int
    OBVIOUS
  <2> QED BY <2>1, Division
<1>3. e \in Int /\ f \in 0..(n - 1) /\ a + y = n * e + f
  <2>1. a + y \in Int
    OBVIOUS
  <2> QED BY <2>1, Division
<1> HIDE DEF u, v, t, w, e, f
<1>4. n * u \in Int /\ n * t \in Int /\ n * e \in Int
  BY <1>1, <1>2, <1>3
<1>5. ASSUME v = w PROVE f = b
  <2>1. n * (u - t) = n * u - n * t
    BY <1>1, <1>2
  <2>2. a + y = n * (u - t) + b /\ u - t \in Int /\ a + y \in Int
    BY <1>1, <1>2, <1>4, <1>5, <2>1
  <2>3. QuotientAndRest(a + y, n, u - t, b)
    BY <2>2, DivisionIsUnique
  <2> QED BY <2>3 DEF f, QuotientAndRest
<1>6. ASSUME f = b PROVE v = w
  <2>1. n * (e + t) = n * e + n * t
    BY <1>2, <1>3
  <2>2. y = n * (e + t) + w /\ e + t \in Int
    BY <1>2, <1>3, <1>4, <1>6, <2>1
  <2>3. QuotientAndRest(y, n, e + t, w)
    BY <1>2, <2>2, DivisionIsUnique
  <2> QED BY <2>3 DEF v, QuotientAndRest
<1> QED BY <1>2, <1>5, <1>6 DEF f, v, w, RestIsShifted

-----------------------------------------------------------------------------
(* How a design becomes a schedule.                                          *)

\* The place in the schedule at which a policy plays a case.
Place(d, p, c) ==
    IF InBlocks(d)
    THEN 4 * ((c - 1) \div 2) + 1 + (IF p = 1 THEN 3 * ((c - 1) % 2) ELSE 1 + ((c - 1) % 2))
    ELSE (p - 1) * d.n + c

\* A design that is accepted and ordered in blocks is of two policies and whole blocks.
LEMMA BlocksAreWhole ==
    ASSUME NEW d, IsDesign(d), Accepted(d), InBlocks(d)
    PROVE  /\ d.n \in Nat /\ d.policies = 2 /\ d.n \div 2 \in Nat
           /\ d.n = 2 * (d.n \div 2) /\ Runs(d) = 4 * (d.n \div 2)
<1>1. d.n \in Nat /\ d.policies = 2 /\ d.n % 2 = 0 /\ Runs(d) = d.policies * d.n
  BY DEF IsDesign, Accepted, InBlocks, Divides, Runs
<1> QED BY <1>1

\* At each place of a schedule a policy plays a case, and it is the place of that case.
LEMMA Placed ==
    ASSUME NEW d, IsDesign(d), Accepted(d), NEW k \in 1..Runs(d)
    PROVE  /\ PolicyAt(d, k) \in 1..d.policies /\ CaseAt(d, k) \in 1..d.n
           /\ Place(d, PolicyAt(d, k), CaseAt(d, k)) = k
<1>1. CASE InBlocks(d)
  <2> DEFINE m == d.n \div 2
             q == (k - 1) \div 4
             r == (k - 1) % 4
             h == r \div 2
  <2>1. m \in Nat /\ d.n = 2 * m /\ Runs(d) = 4 * m /\ d.policies = 2
    BY <1>1, BlocksAreWhole
  <2>2. k \in Nat /\ k >= 1 /\ k <= 4 * m
    BY <2>1
  <2> HIDE DEF m
  <2>3. q \in Nat /\ r \in 0..3 /\ k - 1 = 4 * q + r /\ q < m
    BY <2>1, <2>2
  <2> HIDE DEF q, r
  <2>4. h \in 0..1 /\ (r \in {0, 1} => h = 0) /\ (r \in {2, 3} => h = 1)
    BY <2>3
  <2> HIDE DEF h
  <2>5. PolicyAt(d, k) = IF r \in {0, 3} THEN 1 ELSE 2
    BY <1>1 DEF PolicyAt, r
  <2>6. CaseAt(d, k) = 2 * q + h + 1
    BY <1>1 DEF CaseAt, q, r, h
  <2>7. (CaseAt(d, k) - 1) \div 2 = q /\ (CaseAt(d, k) - 1) % 2 = h
    BY <2>3, <2>4, <2>6
  <2>8. Place(d, PolicyAt(d, k), CaseAt(d, k))
            = 4 * q + 1 + (IF PolicyAt(d, k) = 1 THEN 3 * h ELSE 1 + h)
    BY <1>1, <2>7 DEF Place
  <2>9. Place(d, PolicyAt(d, k), CaseAt(d, k)) = k
    BY <2>2, <2>3, <2>4, <2>5, <2>8
  <2> QED BY <2>1, <2>3, <2>4, <2>5, <2>6, <2>9
<1>2. CASE ~InBlocks(d)
  <2> DEFINE n == d.n
             q == (k - 1) \div n
             r == (k - 1) % n
  <2>1. n \in Nat \ {0} /\ d.policies \in Nat /\ Runs(d) = n * d.policies
    BY DEF IsDesign, Accepted, Runs
  <2>2. k \in Nat /\ k >= 1 /\ k <= n * d.policies
    BY <2>1
  <2> HIDE DEF n
  <2>3. q \in Nat /\ r \in 0..(n - 1) /\ k - 1 = n * q + r
    <3> DEFINE a == k - 1
    <3>1. a \in Nat /\ a \in Int
      BY <2>2
    <3> HIDE DEF a
    <3>2. a \div n \in Nat
      BY <2>1, <3>1, Quotients
    <3>3. a % n \in 0..(n - 1) /\ a = n * (a \div n) + (a % n)
      BY <2>1, <3>1, Division
    <3> QED BY <3>2, <3>3 DEF a
  <2>4. q < d.policies
    <3> DEFINE a == k - 1
    <3>1. a \in Nat /\ a < n * d.policies
      BY <2>1, <2>2
    <3> HIDE DEF a
    <3>2. a \div n < d.policies
      BY <2>1, <3>1, Quotients
    <3> QED BY <3>2 DEF a
  <2> HIDE DEF q, r
  <2>5. PolicyAt(d, k) = q + 1 /\ CaseAt(d, k) = r + 1
    BY <1>2 DEF PolicyAt, CaseAt, q, r, n
  <2>6. Place(d, PolicyAt(d, k), CaseAt(d, k)) = q * n + r + 1
    BY <1>2, <2>1, <2>3, <2>5 DEF Place, n
  <2> QED BY <2>1, <2>2, <2>3, <2>4, <2>5, <2>6 DEF n
<1> QED BY <1>1, <1>2

\* Every policy has a place for every case.
LEMMA Places ==
    ASSUME NEW d, IsDesign(d), Accepted(d), NEW p \in 1..d.policies, NEW c \in 1..d.n
    PROVE  /\ Place(d, p, c) \in 1..Runs(d)
           /\ PolicyAt(d, Place(d, p, c)) = p /\ CaseAt(d, Place(d, p, c)) = c
<1>1. CASE InBlocks(d)
  <2> DEFINE m == d.n \div 2
             q == (c - 1) \div 2
             h == (c - 1) % 2
             r == IF p = 1 THEN 3 * h ELSE 1 + h
             k == Place(d, p, c)
  <2>1. m \in Nat /\ d.n = 2 * m /\ Runs(d) = 4 * m /\ d.policies = 2
    BY <1>1, BlocksAreWhole
  <2> HIDE DEF m
  <2>2. c \in Nat /\ c >= 1 /\ c <= 2 * m /\ p \in {1, 2}
    BY <2>1
  <2>3. q \in Nat /\ h \in 0..1 /\ c - 1 = 2 * q + h /\ q < m
    BY <2>1, <2>2
  <2>4. k = 4 * q + 1 + r
    BY <1>1 DEF Place
  <2> HIDE DEF q, h, k
  <2>5. r \in 0..3 /\ r \div 2 = h /\ (r \in {0, 3} <=> p = 1)
    BY <2>2, <2>3
  <2> HIDE DEF r
  <2>6. k \in 1..(4 * m) /\ (k - 1) \div 4 = q /\ (k - 1) % 4 = r
    BY <2>1, <2>3, <2>4, <2>5
  <2>7. PolicyAt(d, k) = p
    BY <1>1, <2>2, <2>5, <2>6 DEF PolicyAt
  <2>8. CaseAt(d, k) = 2 * q + h + 1
    BY <1>1, <2>5, <2>6 DEF CaseAt
  <2>9. CaseAt(d, k) = c
    BY <2>2, <2>3, <2>8
  <2> QED BY <2>1, <2>6, <2>7, <2>9 DEF k
<1>2. CASE ~InBlocks(d)
  <2> DEFINE n == d.n
             k == Place(d, p, c)
  <2>1. n \in Nat \ {0} /\ d.policies \in Nat /\ Runs(d) = d.policies * n
    BY DEF IsDesign, Accepted, Runs
  <2>2. k = (p - 1) * n + c
    BY <1>2 DEF Place
  <2> HIDE DEF n, k
  <2>3. p \in Nat /\ p >= 1 /\ p <= d.policies /\ c \in Nat /\ c >= 1 /\ c <= n
    BY <2>1 DEF n
  <2>4. (p - 1) * n = n * (p - 1) /\ n * (p - 1) \in Nat
    BY <2>1, <2>3
  <2>5. k - 1 = n * (p - 1) + (c - 1) /\ p - 1 \in Int /\ c - 1 \in 0..(n - 1) /\ k - 1 \in Int
    BY <2>1, <2>2, <2>3, <2>4
  <2>6. (k - 1) \div n = p - 1 /\ (k - 1) % n = c - 1
    <3> DEFINE a == k - 1
               b == p - 1
               e == c - 1
    <3>1. a = n * b + e /\ b \in Int /\ e \in 0..(n - 1) /\ a \in Int
      BY <2>5
    <3> HIDE DEF a, b, e
    <3>2. QuotientAndRest(a, n, b, e)
      BY <2>1, <3>1, DivisionIsUnique
    <3> QED BY <3>2 DEF a, b, e, QuotientAndRest
  <2>7. PolicyAt(d, k) = p /\ CaseAt(d, k) = c
    BY <1>2, <2>3, <2>6 DEF PolicyAt, CaseAt, n
  <2>8. k <= d.policies * n
    <3> DEFINE x == d.policies - p
    <3>1. x \in Nat /\ d.policies = (p - 1) + (x + 1)
      BY <2>1, <2>3
    <3> HIDE DEF x
    <3>2. n * ((p - 1) + (x + 1)) = n * (p - 1) + n * (x + 1) /\ n * (x + 1) = n * x + n * 1
      BY <2>1, <2>3, <3>1, Distributes
    <3>3. n * x >= 0 /\ n * x \in Int /\ n * 1 = n
      BY <2>1, <3>1
    <3>4. d.policies * n = n * ((p - 1) + (x + 1))
      BY <2>1, <2>3, <3>1
    <3> DEFINE u == n * (p - 1)
               v == n * x
    <3>5. d.policies * n = u + (v + n) /\ v >= 0 /\ v \in Int /\ u \in Int /\ k = u + c
      BY <2>2, <2>4, <3>2, <3>3, <3>4
    <3> HIDE DEF u, v
    <3> QED BY <2>1, <2>3, <3>5
  <2>9. k \in 1..Runs(d)
    BY <2>1, <2>2, <2>3, <2>4, <2>8
  <2> QED BY <2>7, <2>9 DEF k
<1> QED BY <1>1, <1>2

\* A policy plays the cases in their order.
LEMMA CasesInOrder ==
    ASSUME NEW d, IsDesign(d), NEW p \in 1..d.policies,
           NEW c \in 1..d.n, NEW e \in 1..d.n, c < e
    PROVE  Place(d, p, c) < Place(d, p, e)
<1>1. CASE InBlocks(d)
  <2>1. c \in Nat /\ e \in Nat /\ c >= 1
    BY DEF IsDesign
  <2> DEFINE q(x) == (x - 1) \div 2
             h(x) == (x - 1) % 2
             r(x) == IF p = 1 THEN 3 * h(x) ELSE 1 + h(x)
  <2>2. \A x \in {c, e} : q(x) \in Nat /\ h(x) \in 0..1 /\ x - 1 = 2 * q(x) + h(x)
    BY <2>1
  <2>3. \A x \in {c, e} : Place(d, p, x) = 4 * q(x) + 1 + r(x)
    BY <1>1 DEF Place
  <2> HIDE DEF q, h
  <2> QED BY <2>1, <2>2, <2>3
<1>2. CASE ~InBlocks(d)
  <2>1. d.n \in Nat /\ p \in Nat /\ (p - 1) * d.n \in Int
    BY DEF IsDesign
  <2> QED BY <1>2, <2>1 DEF Place
<1> QED BY <1>1, <1>2

-----------------------------------------------------------------------------
(* Pairing, order and provenance.                                            *)

\* What is numbered from 1 to m, each with one number, is m things.
LEMMA Enumerated ==
    ASSUME NEW m \in Nat, NEW S, NEW f \in [1..m -> S],
           \A i, j \in 1..m : f[i] = f[j] => i = j,
           \A x \in S : \E i \in 1..m : f[i] = x
    PROVE  IsFiniteSet(S) /\ Cardinality(S) = m
<1>1. f \in Bijection(1..m, S)
  BY DEF Bijection, Injection, IsInjective, Surjection
<1>2. ExistsBijection(1..m, S)
  BY <1>1 DEF ExistsBijection
<1>3. IsFiniteSet(1..m) /\ Cardinality(1..m) = m
  <2>1. 1 \in Int /\ m \in Int
    OBVIOUS
  <2> QED BY <2>1, FS_Interval
<1> QED BY <1>2, <1>3, FS_Bijection

\* Of the cases numbered from 0, the places where a policy plays some of them
\* are as many as they are.
LEMMA PlacesOfCases ==
    ASSUME NEW d, IsDesign(d), Accepted(d), NEW p \in 1..d.policies,
           NEW X \in SUBSET (0..(d.n - 1)), IsFiniteSet(X), NEW K \in SUBSET (1..Runs(d)),
           \A k \in 1..Runs(d) : k \in K <=> PolicyAt(d, k) = p /\ CaseAt(d, k) - 1 \in X
    PROVE  Cardinality(K) = Cardinality(X)
<1> DEFINE f == [x \in X |-> Place(d, p, x + 1)]
<1>0. d.n \in Nat /\ \A x \in X : x \in Int /\ x + 1 \in 1..d.n
  BY DEF IsDesign
<1>1. \A x \in X : f[x] \in K /\ CaseAt(d, f[x]) = x + 1
  <2> SUFFICES ASSUME NEW x \in X PROVE f[x] \in K /\ CaseAt(d, f[x]) = x + 1
    OBVIOUS
  <2> DEFINE c == x + 1
  <2>1. c \in 1..d.n /\ c - 1 = x
    BY <1>0
  <2>2. f[x] = Place(d, p, c)
    OBVIOUS
  <2> HIDE DEF c, f
  <2>3. f[x] \in 1..Runs(d) /\ PolicyAt(d, f[x]) = p /\ CaseAt(d, f[x]) = c
    BY <2>1, <2>2, Places
  <2> QED BY <2>1, <2>3 DEF c
<1>2. \A x, y \in X : f[x] = f[y] => x = y
  BY <1>0, <1>1
<1>3. \A k \in K : \E x \in X : f[x] = k
  <2> SUFFICES ASSUME NEW k \in K PROVE \E x \in X : f[x] = k
    OBVIOUS
  <2>1. k \in 1..Runs(d) /\ PolicyAt(d, k) = p /\ CaseAt(d, k) - 1 \in X
    OBVIOUS
  <2>2. Place(d, p, CaseAt(d, k)) = k /\ CaseAt(d, k) \in 1..d.n
    BY <2>1, Placed
  <2>3. (CaseAt(d, k) - 1) + 1 = CaseAt(d, k)
    BY <1>0, <2>2
  <2> QED BY <2>1, <2>2, <2>3
<1>4. f \in Bijection(X, K)
  <2>1. f \in [X -> K]
    BY <1>1
  <2> HIDE DEF f
  <2> QED BY <1>2, <1>3, <2>1 DEF Bijection, Injection, IsInjective, Surjection
<1>5. ExistsBijection(X, K)
  BY <1>4 DEF ExistsBijection
<1> QED BY <1>5, FS_Bijection

\* A policy has as many places as there are cases.
LEMMA PlacesOfPolicy ==
    ASSUME NEW d, IsDesign(d), Accepted(d), NEW p \in 1..d.policies
    PROVE  Cardinality({k \in 1..Runs(d) : PolicyAt(d, k) = p}) = d.n
<1> DEFINE X == 0..(d.n - 1)
           K == {k \in 1..Runs(d) : PolicyAt(d, k) = p}
<1>1. IsFiniteSet(X) /\ Cardinality(X) = d.n
  <2>1. d.n \in Nat /\ d.n >= 1 /\ 0 \in Int /\ d.n - 1 \in Int
    BY DEF IsDesign, Accepted
  <2> DEFINE h == d.n - 1
  <2>2. h \in Int /\ 0 \in Int /\ h >= 0 /\ h - 0 + 1 = d.n
    BY <2>1
  <2> HIDE DEF h
  <2>3. IsFiniteSet(0..h) /\ Cardinality(0..h) = (IF 0 > h THEN 0 ELSE h - 0 + 1)
    BY <2>2, FS_Interval
  <2>4. Cardinality(0..h) = d.n
    BY <2>2, <2>3
  <2> QED BY <2>3, <2>4 DEF h
<1>2. \A k \in 1..Runs(d) : k \in K <=> PolicyAt(d, k) = p /\ CaseAt(d, k) - 1 \in X
  <2>1. \A k \in 1..Runs(d) : CaseAt(d, k) \in 1..d.n
    BY Placed
  <2>2. d.n \in Nat
    BY DEF IsDesign
  <2> QED BY <2>1, <2>2
<1>3. X \in SUBSET (0..(d.n - 1)) /\ K \in SUBSET (1..Runs(d))
  OBVIOUS
<1> HIDE DEF X, K
<1>4. Cardinality(K) = Cardinality(X)
  BY <1>1, <1>2, <1>3, PlacesOfCases
<1> QED BY <1>1, <1>4 DEF K

\* The number of a game among those of its policy is the number of its case.
LEMMA GameIsCase ==
    ASSUME NEW d, IsDesign(d), Accepted(d), NEW k \in 1..Runs(d)
    PROVE  Cardinality({j \in 1..k : PolicyAt(d, j) = PolicyAt(d, k)}) = CaseAt(d, k)
<1> DEFINE p == PolicyAt(d, k)
           m == CaseAt(d, k)
           S == {j \in 1..k : PolicyAt(d, j) = p}
           f == [c \in 1..m |-> Place(d, p, c)]
<1>1. p \in 1..d.policies /\ m \in 1..d.n /\ Place(d, p, m) = k /\ d.n \in Nat
      /\ k \in Nat /\ k <= Runs(d) /\ Runs(d) \in Int
  BY Placed DEF IsDesign, Runs
<1> HIDE DEF p, m
<1>2. \A c \in 1..m : c \in 1..d.n /\ f[c] = Place(d, p, c) /\ f[c] \in 1..Runs(d)
                      /\ PolicyAt(d, f[c]) = p /\ CaseAt(d, f[c]) = c
  <2>1. \A c \in 1..m : c \in 1..d.n /\ f[c] = Place(d, p, c)
    BY <1>1
  <2> HIDE DEF f
  <2> QED BY <1>1, <2>1, Places
<1>3. \A c \in 1..m : f[c] <= k
  <2> SUFFICES ASSUME NEW c \in 1..m PROVE f[c] <= k
    OBVIOUS
  <2>1. c \in 1..d.n /\ f[c] = Place(d, p, c) /\ f[c] \in Int
    BY <1>1, <1>2
  <2>2. CASE c = m
    BY <1>1, <2>1, <2>2
  <2>3. CASE c < m
    BY <1>1, <2>1, <2>3, CasesInOrder
  <2> QED BY <1>1, <2>2, <2>3
<1>4. f \in [1..m -> S]
  <2>1. \A c \in 1..m : f[c] \in S
    BY <1>1, <1>2, <1>3
  <2> QED BY <2>1
<1>5. \A c, e \in 1..m : f[c] = f[e] => c = e
  BY <1>2
<1>6. \A j \in S : \E c \in 1..m : f[c] = j
  <2> SUFFICES ASSUME NEW j \in S PROVE \E c \in 1..m : f[c] = j
    OBVIOUS
  <2>1. j \in 1..Runs(d) /\ PolicyAt(d, j) = p /\ j <= k
    BY <1>1
  <2> DEFINE c == CaseAt(d, j)
  <2>2. c \in 1..d.n /\ Place(d, p, c) = j
    BY <2>1, Placed
  <2> HIDE DEF c
  <2>3. c <= m
    <3> SUFFICES ASSUME m < c PROVE FALSE
      BY <1>1, <2>2
    <3>1. Place(d, p, m) < Place(d, p, c)
      BY <1>1, <2>2, CasesInOrder
    <3> QED BY <1>1, <2>1, <2>2, <3>1
  <2> QED BY <1>1, <1>2, <2>2, <2>3
<1> HIDE DEF f, S
<1>7. m \in Nat
  BY <1>1
<1>8. Cardinality(S) = m
  BY <1>4, <1>5, <1>6, <1>7, Enumerated
<1> QED BY <1>8 DEF S, p, m

\* A design that is accepted has at least one case and one policy.
LEMMA AcceptedDesign ==
    ASSUME NEW d, IsDesign(d), Accepted(d)
    PROVE  /\ d.n \in Nat \ {0} /\ d.policies \in Nat \ {0} /\ Runs(d) \in Nat
           /\ 1 \in 1..d.policies
BY DEF IsDesign, Accepted, Runs

\* The fields of a row that the policy and the number of its game do not tell.
RowOfCase(d, policy, game, c) ==
    [policy |-> policy, game |-> game, case |-> c,
     base_seed |-> d.seed, case_seed |-> d.seed + c, role_seed |-> RoleSeed(d, c),
     actor_seed |-> d.seed + c + 100000, orchestrator_seed |-> d.seed + c + 200000,
     layout_mode |-> d.layout, layout_seed_base |-> RoleSeedBase(d),
     layout_index |-> LayoutIndex(d, c), layout_count |-> LayoutCount(d),
     permutation |-> Permutation(d, c),
     seat_mode |-> IF d.cyclic THEN "cyclic" ELSE "fixed",
     persona_mode |-> d.persona, persona_seed_base |-> PersonaSeedBase(d),
     persona_case_seed |->
         PersonaSeedBase(d) + (IF d.persona = "randomized" THEN c - 1 ELSE 0),
     persona_position |->
         IF d.persona = "randomized" THEN 0 ELSE (PersonaPosition(d, c) % d.profiles) + 1,
     source_profiles |-> SourceProfiles(d, c)]

\* A row is of its policy and of its case; the rest follows from the case.
LEMMA Rows ==
    ASSUME NEW d, IsDesign(d), Accepted(d), NEW k \in 1..Runs(d)
    PROVE  Row(d, k) = RowOfCase(d, PolicyAt(d, k), CaseAt(d, k), CaseAt(d, k))
<1>1. Cardinality({j \in 1..k : PolicyAt(d, j) = PolicyAt(d, k)}) = CaseAt(d, k)
  BY GameIsCase
<1> QED BY <1>1 DEF Row, RowOfCase

\* A row, for another policy and the number of its game.
ForPolicy(r, p, g) == [r EXCEPT !.policy = p, !.game = g]

\* Another policy changes two fields of a row.
LEMMA RowOfOtherPolicy ==
    ASSUME NEW d, NEW p, NEW g, NEW q, NEW h, NEW c, NEW r, r = RowOfCase(d, q, h, c)
    PROVE  RowOfCase(d, p, g, c) = ForPolicy(r, p, g)
<1> DEFINE u == [r EXCEPT !.policy = p, !.game = g]
           v == RowOfCase(d, p, g, c)
           fields ==
             {"policy", "game", "case", "base_seed", "case_seed", "role_seed", "actor_seed",
              "orchestrator_seed", "layout_mode", "layout_seed_base", "layout_index",
              "layout_count", "permutation", "seat_mode", "persona_mode",
              "persona_seed_base", "persona_case_seed", "persona_position", "source_profiles"}
<1>1. u = [f \in DOMAIN u |-> u[f]]
  OBVIOUS
<1>2. v = [f \in DOMAIN v |-> v[f]]
  BY DEF RowOfCase
<1>3. DOMAIN r = fields /\ DOMAIN v = fields
  BY DEF RowOfCase
<1>4. v.policy = p /\ v.game = g
  BY DEF RowOfCase
<1>5. /\ r.case = v.case /\ r.base_seed = v.base_seed
      /\ r.case_seed = v.case_seed /\ r.role_seed = v.role_seed
      /\ r.actor_seed = v.actor_seed /\ r.orchestrator_seed = v.orchestrator_seed
      /\ r.layout_mode = v.layout_mode /\ r.layout_seed_base = v.layout_seed_base
      /\ r.layout_index = v.layout_index /\ r.layout_count = v.layout_count
      /\ r.permutation = v.permutation /\ r.seat_mode = v.seat_mode
      /\ r.persona_mode = v.persona_mode /\ r.persona_seed_base = v.persona_seed_base
      /\ r.persona_case_seed = v.persona_case_seed /\ r.persona_position = v.persona_position
      /\ r.source_profiles = v.source_profiles
  BY DEF RowOfCase
<1> HIDE DEF v
<1>6. DOMAIN u = DOMAIN r
  OBVIOUS
<1>7. u.policy = p /\ u.game = g
  BY <1>3
<1>8. /\ u.case = r.case /\ u.base_seed = r.base_seed
      /\ u.case_seed = r.case_seed /\ u.role_seed = r.role_seed
      /\ u.actor_seed = r.actor_seed /\ u.orchestrator_seed = r.orchestrator_seed
      /\ u.layout_mode = r.layout_mode /\ u.layout_seed_base = r.layout_seed_base
      /\ u.layout_index = r.layout_index /\ u.layout_count = r.layout_count
      /\ u.permutation = r.permutation /\ u.seat_mode = r.seat_mode
      /\ u.persona_mode = r.persona_mode /\ u.persona_seed_base = r.persona_seed_base
      /\ u.persona_case_seed = r.persona_case_seed /\ u.persona_position = r.persona_position
      /\ u.source_profiles = r.source_profiles
  BY <1>3
<1> HIDE DEF u
<1>9. \A f \in fields : u[f] = v[f]
  BY <1>4, <1>5, <1>7, <1>8
<1>10. u = v
  BY <1>1, <1>2, <1>3, <1>6, <1>9
<1> QED BY <1>10 DEF u, v, ForPolicy

\* Every policy plays every case once, under the same conditions.
LEMMA PairedSchedule ==
    ASSUME NEW d, IsDesign(d), Accepted(d)
    PROVE  PoliciesArePaired(d, Schedule(d))
<1> DEFINE s == Schedule(d)
<1>1. DOMAIN s = 1..Runs(d) /\ \A k \in 1..Runs(d) : s[k] = Row(d, k)
  BY DEF Schedule
<1>2. \A k \in 1..Runs(d) :
          /\ s[k] = RowOfCase(d, PolicyAt(d, k), CaseAt(d, k), CaseAt(d, k))
          /\ s[k].policy = PolicyAt(d, k) /\ s[k].case = CaseAt(d, k) /\ s[k].game = CaseAt(d, k)
          /\ PolicyAt(d, k) \in 1..d.policies /\ CaseAt(d, k) \in 1..d.n
  <2> SUFFICES ASSUME NEW k \in 1..Runs(d)
               PROVE  /\ s[k] = RowOfCase(d, PolicyAt(d, k), CaseAt(d, k), CaseAt(d, k))
                      /\ s[k].policy = PolicyAt(d, k) /\ s[k].case = CaseAt(d, k)
                      /\ s[k].game = CaseAt(d, k)
                      /\ PolicyAt(d, k) \in 1..d.policies /\ CaseAt(d, k) \in 1..d.n
    OBVIOUS
  <2> HIDE DEF s
  <2>1. s[k] = RowOfCase(d, PolicyAt(d, k), CaseAt(d, k), CaseAt(d, k))
    BY <1>1, Rows
  <2> QED BY <2>1, Placed DEF RowOfCase
<1>3. \A p \in 1..d.policies : \A c \in 1..d.n :
          \E k \in 1..Runs(d) : PolicyAt(d, k) = p /\ CaseAt(d, k) = c
  BY Places
<1> HIDE DEF s
<1> SUFFICES ASSUME NEW p \in 1..d.policies
             PROVE LET mine == {k \in DOMAIN s : s[k].policy = p}
                   IN /\ {s[k].case : k \in mine} = 1..d.n
                      /\ {s[k].game : k \in mine} = 1..d.n
                      /\ Cardinality(mine) = d.n
                      /\ \A k \in mine : \E j \in DOMAIN s :
                            s[j].policy = 1
                            /\ s[k] = [s[j] EXCEPT !.policy = p, !.game = s[k].game]
  BY DEF PoliciesArePaired, s
<1> DEFINE mine == {k \in DOMAIN s : s[k].policy = p}
<1>4. mine = {k \in 1..Runs(d) : PolicyAt(d, k) = p}
  BY <1>1, <1>2
<1>5. Cardinality(mine) = d.n
  BY <1>4, PlacesOfPolicy
<1>6. {s[k].case : k \in mine} = 1..d.n /\ {s[k].game : k \in mine} = 1..d.n
  <2> HIDE DEF mine
  <2> QED BY <1>2, <1>3, <1>4
<1>7. \A k \in mine : \E j \in DOMAIN s :
          s[j].policy = 1 /\ s[k] = [s[j] EXCEPT !.policy = p, !.game = s[k].game]
  <2> HIDE DEF mine
  <2> SUFFICES ASSUME NEW k \in mine
               PROVE  \E j \in DOMAIN s :
                         s[j].policy = 1 /\ s[k] = [s[j] EXCEPT !.policy = p, !.game = s[k].game]
    OBVIOUS
  <2> DEFINE c == CaseAt(d, k)
  <2>1. k \in 1..Runs(d) /\ s[k] = RowOfCase(d, p, c, c) /\ c \in 1..d.n /\ s[k].game = c
    BY <1>2, <1>4
  <2> HIDE DEF c
  <2>2. PICK j \in 1..Runs(d) : PolicyAt(d, j) = 1 /\ CaseAt(d, j) = c
    BY <1>3, <2>1, AcceptedDesign
  <2>3. s[j] = RowOfCase(d, 1, c, c) /\ s[j].policy = 1
    BY <1>2, <2>2
  <2>4. s[k] = [s[j] EXCEPT !.policy = p, !.game = c]
    <3> DEFINE r == s[j]
    <3>1. r = RowOfCase(d, 1, c, c)
      BY <2>3
    <3> HIDE DEF r
    <3>2. s[k] = ForPolicy(r, p, c)
      BY <2>1, <3>1, RowOfOtherPolicy
    <3> QED BY <3>2 DEF r, ForPolicy
  <2> QED BY <1>1, <2>1, <2>2, <2>3, <2>4
<1> QED BY <1>5, <1>6, <1>7

\* The pairs of a block are next to each other, and mirrored.
LEMMA OrderedSchedule ==
    ASSUME NEW d, IsDesign(d), Accepted(d)
    PROVE  OrderIsCounterbalanced(d, Schedule(d))
<1> DEFINE s == Schedule(d)
<1>1. DOMAIN s = 1..Runs(d)
      /\ \A k \in 1..Runs(d) : s[k].policy = PolicyAt(d, k) /\ s[k].case = CaseAt(d, k)
  BY DEF Schedule, Row
<1> HIDE DEF s
<1> SUFFICES ASSUME InBlocks(d), NEW k \in DOMAIN s
             PROVE  /\ k % 2 = 1 => s[k].case = s[k + 1].case
                    /\ k % 4 = 1 => s[k].policy = s[k + 3].policy
                                    /\ s[k + 1].policy = s[k + 2].policy
  BY DEF OrderIsCounterbalanced, s
<1> DEFINE m == d.n \div 2
<1>2. m \in Nat /\ Runs(d) = 4 * m
  BY BlocksAreWhole
<1> HIDE DEF m
<1>3. k \in Nat /\ k >= 1 /\ k <= 4 * m
  BY <1>1, <1>2
<1>4. ASSUME k % 2 = 1 PROVE s[k].case = s[k + 1].case
  <2>1. k + 1 \in 1..Runs(d)
    BY <1>2, <1>3, <1>4
  <2>2. (k + 1) - 1 = k
    BY <1>3
  <2>3. k \div 4 = (k - 1) \div 4 /\ (k % 4) \div 2 = ((k - 1) % 4) \div 2
    BY <1>3, <1>4
  <2>4. CaseAt(d, k) = CaseAt(d, k + 1)
    BY <2>2, <2>3 DEF CaseAt
  <2> QED BY <1>1, <2>1, <2>4
<1>5. ASSUME k % 4 = 1
      PROVE  s[k].policy = s[k + 3].policy /\ s[k + 1].policy = s[k + 2].policy
  <2>1. k + 1 \in 1..Runs(d) /\ k + 2 \in 1..Runs(d) /\ k + 3 \in 1..Runs(d)
    BY <1>2, <1>3, <1>5
  <2>2. /\ (k - 1) % 4 = 0 /\ ((k + 1) - 1) % 4 = 1
        /\ ((k + 2) - 1) % 4 = 2 /\ ((k + 3) - 1) % 4 = 3
    BY <1>3, <1>5
  <2>3. PolicyAt(d, k) = PolicyAt(d, k + 3) /\ PolicyAt(d, k + 1) = PolicyAt(d, k + 2)
    BY <2>2 DEF PolicyAt
  <2> QED BY <1>1, <2>1, <2>3
<1> QED BY <1>4, <1>5

\* The cycles of the controls, and how often each is repeated.
LEMMA Cycles ==
    ASSUME NEW d, IsDesign(d), Accepted(d)
    PROVE  /\ SeatCycle(d) \in Nat \ {0} /\ PersonaCycle(d) \in Nat \ {0}
           /\ ControlCycle(d) \in Nat \ {0}
           /\ d.layout = "counterbalanced" =>
                 LayoutCount(d) \in Nat \ {0} /\ d.n % ControlCycle(d) = 0
                 /\ (d.n \div ControlCycle(d)) % LayoutCount(d) = 0
           /\ d.persona = "counterbalanced" => d.n % ControlCycle(d) = 0
           /\ d.layout = "fixed" => LayoutCount(d) = 1
<1>1. SeatCycle(d) \in Nat \ {0} /\ PersonaCycle(d) \in Nat \ {0}
  BY DEF IsDesign, SeatCycle, PersonaCycle
<1>2. ControlCycle(d) \in Nat \ {0}
  BY <1>1 DEF ControlCycle
<1>3. ASSUME d.layout = "counterbalanced"
      PROVE  LayoutCount(d) \in Nat \ {0} /\ d.n % ControlCycle(d) = 0
             /\ (d.n \div ControlCycle(d)) % LayoutCount(d) = 0
  <2>1. d.n % ControlCycle(d) = 0 /\ (d.n \div ControlCycle(d)) % LayoutCount(d) = 0
    BY <1>3 DEF Accepted, Divides
  <2> DEFINE a == d.n
             b == ControlCycle(d)
  <2>2. a \in Nat /\ a >= 1 /\ b \in Nat \ {0} /\ a % b = 0
    BY <1>2, <2>1 DEF IsDesign, Accepted
  <2>3. LayoutCount(d) = IF d.layoutCount # 0 THEN d.layoutCount ELSE a \div b
    BY <1>3 DEF LayoutCount
  <2> HIDE DEF a, b
  <2>4. a \in Int /\ a \div b \in Nat /\ a = b * (a \div b) + (a % b)
    BY <2>2, Division, Quotients
  <2>5. a \div b # 0
    BY <2>2, <2>4
  <2> QED BY <2>1, <2>3, <2>4, <2>5 DEF IsDesign
<1>4. d.persona = "counterbalanced" => d.n % ControlCycle(d) = 0
  BY DEF Accepted, Divides
<1>5. d.layout = "fixed" => LayoutCount(d) = 1
  BY DEF LayoutCount
<1> QED BY <1>1, <1>2, <1>3, <1>4, <1>5

\* The runner accepts the provenance it recomputes from a row.
LEMMA VerifiedSchedule ==
    ASSUME NEW d, IsDesign(d), Accepted(d)
    PROVE  ProvenanceVerifies(d, Schedule(d))
<1> SUFFICES ASSUME NEW k \in 1..Runs(d)
             PROVE  LayoutVerifies(Row(d, k))
                    /\ (d.persona # "legacy" =>
                          ExpectedProfiles(Row(d, k), d.seats, d.profiles)
                              = Row(d, k).source_profiles)
  BY DEF ProvenanceVerifies, Schedule
<1> DEFINE c == CaseAt(d, k)
           row == Row(d, k)
<1>1. c \in Nat /\ c >= 1 /\ d.seed \in Int
  BY Placed DEF IsDesign
<1>2. row = RowOfCase(d, PolicyAt(d, k), c, c)
  BY Rows
<1>3. /\ row.layout_mode = d.layout /\ row.layout_index = LayoutIndex(d, c)
      /\ row.layout_count = LayoutCount(d) /\ row.role_seed = RoleSeed(d, c)
      /\ row.layout_seed_base = RoleSeedBase(d)
  BY <1>2 DEF RowOfCase
<1>4. /\ row.case_seed = d.seed + c /\ row.base_seed = d.seed
      /\ row.seat_mode = (IF d.cyclic THEN "cyclic" ELSE "fixed")
      /\ row.persona_mode = d.persona /\ row.persona_seed_base = PersonaSeedBase(d)
      /\ row.persona_case_seed
            = PersonaSeedBase(d) + (IF d.persona = "randomized" THEN c - 1 ELSE 0)
      /\ row.persona_position = (IF d.persona = "randomized" THEN 0
                                 ELSE (PersonaPosition(d, c) % d.profiles) + 1)
      /\ row.source_profiles = SourceProfiles(d, c)
  BY <1>2 DEF RowOfCase
<1> HIDE DEF c, row
<1>5. RoleSeedBase(d) \in Int /\ PersonaSeedBase(d) \in Int
  BY DEF RoleSeedBase, PersonaSeedBase, ControlSeed, IsDesign
<1>6. LayoutVerifies(row)
  <2>1. CASE d.layout = "counterbalanced"
    <3> DEFINE x == (c - 1) \div ControlCycle(d)
               l == LayoutCount(d)
    <3>1. LayoutIndex(d, c) = (x % l) + 1
      BY <2>1 DEF LayoutIndex
    <3>2. l \in Nat \ {0} /\ ControlCycle(d) \in Nat \ {0}
      BY <2>1, Cycles
    <3>3. x \in Int
      <4> DEFINE a == c - 1
                 b == ControlCycle(d)
      <4>1. a \in Int /\ b \in Nat \ {0}
        BY <1>1, <3>2
      <4> HIDE DEF a, b
      <4>2. a \div b \in Int
        BY <4>1, Division
      <4> QED BY <4>2 DEF a, b
    <3> HIDE DEF x, l
    <3>4. x % l \in 0..(l - 1)
      BY <3>2, <3>3, Division
    <3>5. LayoutIndex(d, c) \in 1..l
      BY <3>1, <3>2, <3>4
    <3>6. RoleSeed(d, c) = RoleSeedBase(d) + LayoutIndex(d, c) - 1
      BY <2>1 DEF RoleSeed
    <3>7. RoleSeed(d, c) = RoleSeedBase(d) + (LayoutIndex(d, c) - 1)
      BY <1>5, <3>2, <3>5, <3>6
    <3> QED BY <1>3, <2>1, <3>5, <3>7 DEF LayoutVerifies, l
  <2>2. CASE d.layout = "fixed"
    <3>1. LayoutIndex(d, c) = 1 /\ LayoutCount(d) = 1
      BY <2>2, Cycles DEF LayoutIndex
    <3>2. RoleSeed(d, c) = RoleSeedBase(d) + 0
      BY <1>5, <2>2, <3>1 DEF RoleSeed
    <3> QED BY <1>3, <2>2, <3>1, <3>2 DEF LayoutVerifies
  <2>3. CASE d.layout = "legacy"
    BY <1>3, <2>3 DEF LayoutVerifies
  <2> QED BY <2>1, <2>2, <2>3 DEF IsDesign
<1>7. ASSUME d.persona # "legacy"
      PROVE  ExpectedProfiles(row, d.seats, d.profiles) = row.source_profiles
  <2>1. row.case_seed - row.base_seed = c
    BY <1>1, <1>4
  <2>2. CASE d.persona = "randomized"
    <3>1. row.persona_case_seed = row.persona_seed_base + c - 1
      BY <1>1, <1>4, <1>5, <2>2
    <3>2. ExpectedProfiles(row, d.seats, d.profiles)
            = Shuffled([i \in 1..d.seats |-> ((i - 1) % d.profiles) + 1], row.persona_case_seed)
      BY <1>4, <2>1, <2>2, <3>1 DEF ExpectedProfiles
    <3>3. SourceProfiles(d, c)
            = Shuffled([i \in 1..d.seats |-> ((i - 1) % d.profiles) + 1],
                       PersonaSeedBase(d) + c - 1)
      BY <2>2 DEF SourceProfiles
    <3>4. row.persona_case_seed = PersonaSeedBase(d) + c - 1
      BY <1>1, <1>4, <1>5, <2>2
    <3> QED BY <1>4, <3>2, <3>3, <3>4
  <2>3. CASE d.persona # "randomized"
    <3> DEFINE position == IF row.persona_mode = "counterbalanced"
                           THEN (c - 1) \div (IF row.seat_mode = "cyclic" THEN d.seats ELSE 1)
                           ELSE 0
    <3>1. position = PersonaPosition(d, c)
      BY <1>4 DEF PersonaPosition, SeatCycle
    <3> HIDE DEF position
    <3>2. row.persona_case_seed = row.persona_seed_base
      BY <1>4, <1>5, <2>3
    <3>3. row.persona_position = (position % d.profiles) + 1
      BY <1>4, <2>3, <3>1
    <3>4. ExpectedProfiles(row, d.seats, d.profiles)
            = [i \in 1..d.seats |->
                 ((i - 1 + Draw(row.persona_seed_base, d.profiles) + position)
                     % d.profiles) + 1]
      BY <1>4, <2>1, <2>3, <3>2, <3>3 DEF ExpectedProfiles, position
    <3>5. SourceProfiles(d, c)
            = [i \in 1..d.seats |->
                 ((i - 1 + Draw(PersonaSeedBase(d), d.profiles) + PersonaPosition(d, c))
                     % d.profiles) + 1]
      BY <2>3 DEF SourceProfiles
    <3> QED BY <1>4, <3>1, <3>4, <3>5
  <2> QED BY <2>2, <2>3
<1> QED BY <1>4, <1>6, <1>7 DEF row

-----------------------------------------------------------------------------
(* Crossing.                                                                 *)

\* The cases, numbered from 0, that three axes of S, P and L positions, the first
\* the fastest, put at given positions.
CasesAt(S, P, L, n, r, p, l) ==
    {x \in 0..(n - 1) : x % S = r /\ (x \div S) % P = p /\ (x \div (S * P)) % L = l}

\* A quotient b less than k and a rest r make a number less than N * k, and back.
OnAxis(N, k, b, r) ==
    /\ r + N * b \in Nat /\ r + N * b < N * k
    /\ (r + N * b) \div N = b /\ (r + N * b) % N = r

\* They do so.
LEMMA OneAxis ==
    ASSUME NEW N \in Nat \ {0}, NEW k \in Nat, NEW b \in Nat, b < k, NEW r \in 0..(N - 1)
    PROVE  OnAxis(N, k, b, r)
<1> DEFINE a == r + N * b
<1>1. N * b \in Nat
  OBVIOUS
<1>2. a \in Nat /\ a \in Int /\ a = N * b + r
  BY <1>1
<1> HIDE DEF a
<1>3. QuotientAndRest(a, N, b, r)
  BY <1>2, DivisionIsUnique
<1>4. a < N * k
  <2> DEFINE x == k - 1 - b
  <2>1. x \in Nat /\ k = b + (x + 1)
    OBVIOUS
  <2> HIDE DEF x
  <2>2. N * (b + (x + 1)) = N * b + N * (x + 1) /\ N * (x + 1) = N * x + N * 1
    BY <2>1, Distributes
  <2>3. N * x >= 0 /\ N * x \in Int /\ N * 1 = N /\ N * k = N * (b + (x + 1))
    BY <2>1
  <2> QED BY <1>1, <1>2, <2>2, <2>3
<1> QED BY <1>2, <1>3, <1>4 DEF a, QuotientAndRest, OnAxis

\* The quotient and the rest of a number less than N * k.
LEMMA OffAxis ==
    ASSUME NEW N \in Nat \ {0}, NEW k \in Nat, NEW a \in Nat, a < N * k
    PROVE  a \div N \in Nat /\ a \div N < k /\ a = (a % N) + N * (a \div N)
<1>1. a \in Int /\ a % N \in 0..(N - 1) /\ a = N * (a \div N) + (a % N)
  BY Division
<1>2. a \div N \in Nat /\ a \div N < k
  BY Quotients
<1>3. N * (a \div N) \in Int
  BY <1>2
<1> QED BY <1>1, <1>2, <1>3

\* The axes are gone through m times by n cases.
GoneThrough(S, P, L, m, n) == n = S * (P * (L * m))

\* Axes of which one is slower than another meet in every combination equally often.
LEMMA AxesAreCrossed ==
    ASSUME NEW S \in Nat \ {0}, NEW P \in Nat \ {0}, NEW L \in Nat \ {0}, NEW m \in Nat,
           NEW n \in Nat, GoneThrough(S, P, L, m, n),
           NEW r \in 0..(S - 1), NEW p \in 0..(P - 1), NEW l \in 0..(L - 1)
    PROVE  /\ IsFiniteSet(CasesAt(S, P, L, n, r, p, l))
           /\ Cardinality(CasesAt(S, P, L, n, r, p, l)) = m
<1> DEFINE w(q) == l + L * (q - 1)
           u(q) == p + P * w(q)
           f == [q \in 1..m |-> r + S * u(q)]
           X == CasesAt(S, P, L, n, r, p, l)
<1>0. L * m \in Nat /\ P * (L * m) \in Nat /\ n = S * (P * (L * m))
  <2>1. L * m \in Nat
    OBVIOUS
  <2> QED BY <2>1 DEF GoneThrough
<1>1. \A q \in 1..m : w(q) \in Nat /\ w(q) < L * m /\ w(q) \div L = q - 1 /\ w(q) % L = l
  <2> SUFFICES ASSUME NEW q \in 1..m
               PROVE w(q) \in Nat /\ w(q) < L * m /\ w(q) \div L = q - 1 /\ w(q) % L = l
    OBVIOUS
  <2> DEFINE b == q - 1
  <2>1. b \in Nat /\ b < m
    OBVIOUS
  <2> HIDE DEF b
  <2>2. OnAxis(L, m, b, l)
    BY <2>1, OneAxis
  <2>3. w(q) = l + L * b
    BY DEF b, w
  <2> QED BY <2>2, <2>3 DEF b, OnAxis
<1> HIDE DEF w
<1>2. \A q \in 1..m :
          u(q) \in Nat /\ u(q) < P * (L * m) /\ u(q) \div P = w(q) /\ u(q) % P = p
  <2> SUFFICES ASSUME NEW q \in 1..m
               PROVE  u(q) \in Nat /\ u(q) < P * (L * m) /\ u(q) \div P = w(q) /\ u(q) % P = p
    OBVIOUS
  <2> DEFINE b == w(q)
             k == L * m
  <2>1. k \in Nat /\ b \in Nat /\ b < k
    BY <1>0, <1>1
  <2> HIDE DEF b, k
  <2>2. OnAxis(P, k, b, p)
    BY <2>1, OneAxis
  <2> QED BY <2>2 DEF b, k, OnAxis
<1> HIDE DEF u
<1>3. \A q \in 1..m : f[q] \in Nat /\ f[q] < n /\ f[q] \div S = u(q) /\ f[q] % S = r
  <2> SUFFICES ASSUME NEW q \in 1..m
               PROVE  f[q] \in Nat /\ f[q] < n /\ f[q] \div S = u(q) /\ f[q] % S = r
    OBVIOUS
  <2> DEFINE b == u(q)
             k == P * (L * m)
  <2>1. k \in Nat /\ b \in Nat /\ b < k /\ n = S * k /\ f[q] = r + S * b
    BY <1>0, <1>2
  <2> HIDE DEF b, k, f
  <2>2. OnAxis(S, k, b, r)
    BY <2>1, OneAxis
  <2> QED BY <2>1, <2>2 DEF b, OnAxis
<1>4. f \in [1..m -> X]
  <2> SUFFICES ASSUME NEW q \in 1..m PROVE f[q] \in X
    OBVIOUS
  <2> HIDE DEF f
  <2>1. f[q] \in 0..(n - 1)
    BY <1>3
  <2>2. (f[q] \div S) \div P = f[q] \div (S * P)
    <3>1. f[q] \in Int
      BY <1>3
    <3> QED BY <3>1, DivisionTwice
  <2> QED BY <1>1, <1>2, <1>3, <2>1, <2>2 DEF CasesAt
<1>5. \A i, j \in 1..m : f[i] = f[j] => i = j
  <2> SUFFICES ASSUME NEW i \in 1..m, NEW j \in 1..m, f[i] = f[j] PROVE i = j
    OBVIOUS
  <2> HIDE DEF f
  <2>1. i - 1 = j - 1
    BY <1>1, <1>2, <1>3
  <2> QED BY <2>1
<1>6. \A x \in X : \E q \in 1..m : f[q] = x
  <2> SUFFICES ASSUME NEW x \in X PROVE \E q \in 1..m : f[q] = x
    OBVIOUS
  <2> DEFINE a == x \div S
             b == a \div P
             c == b \div L
             q == c + 1
  <2>1. x \in Nat /\ x < n /\ x \in Int /\ x % S = r
        /\ a % P = p /\ x \div (S * P) \in Int /\ (x \div (S * P)) % L = l
    <3>1. x \in Nat /\ x \in Int
      BY DEF CasesAt
    <3>2. S * P \in Nat \ {0}
      OBVIOUS
    <3>3. x \div (S * P) \in Int
      <4> HIDE DEF X
      <4> QED BY ONLY <3>1, <3>2, Division
    <3> QED BY <3>1, <3>3 DEF CasesAt
  <2> HIDE DEF X
  <2>2. b = x \div (S * P)
    <3> HIDE DEF a
    <3>1. x \in Int
      BY <2>1
    <3>2. (x \div S) \div P = x \div (S * P)
      BY <3>1, DivisionTwice
    <3> QED BY <3>2 DEF a
  <2>3. b % L = l
    BY <2>1, <2>2
  <2> HIDE DEF a, b, c
  <2>4. a \in Nat /\ a < P * (L * m) /\ x = r + S * a
    BY <1>0, <2>1, OffAxis DEF a
  <2>5. b \in Nat /\ b < L * m /\ a = p + P * b
    BY <1>0, <2>1, <2>4, OffAxis DEF b
  <2>6. c \in Nat /\ c < m /\ b = l + L * c
    BY <2>3, <2>5, OffAxis DEF c
  <2>7. q \in 1..m /\ q - 1 = c
    BY <2>6
  <2> HIDE DEF q
  <2>8. w(q) = b
    BY <2>6, <2>7 DEF w
  <2>9. u(q) = a
    BY <2>5, <2>8 DEF u
  <2>10. f[q] = x
    BY <2>4, <2>7, <2>9
  <2> QED BY <2>7, <2>10
<1> HIDE DEF f, X
<1>7. IsFiniteSet(X) /\ Cardinality(X) = m
  BY <1>4, <1>5, <1>6, Enumerated
<1> QED BY <1>7 DEF X

\* The places at which the first policy plays the cases that three axes put at
\* given positions.
ArePlacesAt(d, S, P, L, r, p, l, K) ==
    \A k \in 1..Runs(d) :
        k \in K <=> /\ PolicyAt(d, k) = 1
                    /\ (CaseAt(d, k) - 1) % S = r
                    /\ ((CaseAt(d, k) - 1) \div S) % P = p
                    /\ ((CaseAt(d, k) - 1) \div (S * P)) % L = l

\* They are one of S * P * L equal parts.
LEMMA EqualParts ==
    ASSUME NEW d, IsDesign(d), Accepted(d),
           NEW S \in Nat \ {0}, NEW P \in Nat \ {0}, NEW L \in Nat \ {0},
           d.n % (S * P) = 0, (d.n \div (S * P)) % L = 0,
           NEW r \in 0..(S - 1), NEW p \in 0..(P - 1), NEW l \in 0..(L - 1),
           NEW K \in SUBSET (1..Runs(d)),
           ArePlacesAt(d, S, P, L, r, p, l, K)
    PROVE  /\ Cardinality(K) \in Nat
           /\ Cardinality(K) * (S * P) * L = d.n /\ Cardinality(K) * L * (S * P) = d.n
<1> DEFINE n == d.n
           C == S * P
           h == n \div C
           m == h \div L
           X == CasesAt(S, P, L, n, r, p, l)
<1>1. n \in Nat /\ n \in Int /\ C \in Nat \ {0} /\ n % C = 0 /\ h % L = 0
  BY AcceptedDesign
<1> HIDE DEF n, C
<1>2. h \in Nat /\ h \in Int /\ n = C * h
  <2>1. h \in Nat /\ n = C * h + (n % C)
    BY <1>1, Division, Quotients
  <2>2. C * h \in Int
    BY <1>1, <2>1
  <2> QED BY <1>1, <2>1, <2>2
<1> HIDE DEF h
<1>3. m \in Nat /\ h = L * m
  <2>1. m \in Nat /\ h = L * m + (h % L)
    BY <1>2, Division, Quotients
  <2>2. L * m \in Int
    BY <2>1
  <2> QED BY <1>1, <2>1, <2>2
<1> HIDE DEF m
<1>4. GoneThrough(S, P, L, m, n)
  <2>1. L * m \in Int /\ S \in Int /\ P \in Int
    BY <1>3
  <2>2. (S * P) * (L * m) = S * (P * (L * m))
    BY <2>1, Distributes
  <2> QED BY <1>2, <1>3, <2>2 DEF C, GoneThrough
<1>5. IsFiniteSet(X) /\ Cardinality(X) = m
  BY <1>1, <1>3, <1>4, AxesAreCrossed
<1>6. X \in SUBSET (0..(d.n - 1))
  BY DEF CasesAt, n
<1>7. \A k \in 1..Runs(d) : k \in K <=> PolicyAt(d, k) = 1 /\ CaseAt(d, k) - 1 \in X
  <2> SUFFICES ASSUME NEW k \in 1..Runs(d)
               PROVE  k \in K <=> PolicyAt(d, k) = 1 /\ CaseAt(d, k) - 1 \in X
    OBVIOUS
  <2>1. CaseAt(d, k) - 1 \in 0..(n - 1)
    <3>1. CaseAt(d, k) \in 1..d.n
      BY Placed
    <3> QED BY <1>1, <3>1 DEF n
  <2> QED BY <2>1 DEF CasesAt, ArePlacesAt
<1> HIDE DEF X
<1>8. Cardinality(K) = m
  <2>1. 1 \in 1..d.policies
    BY AcceptedDesign
  <2>2. Cardinality(K) = Cardinality(X)
    BY <1>5, <1>6, <1>7, <2>1, PlacesOfCases
  <2> QED BY <1>5, <2>2
<1>9. m * C * L = n /\ m * L * C = n
  <2>1. m \in Int /\ L \in Int /\ C \in Int
    BY <1>1, <1>3
  <2>2. m * L = L * m /\ (L * m) * C = C * (L * m) /\ (m * C) * L = m * (C * L)
        /\ C * L = L * C /\ m * (L * C) = (m * L) * C
    <3>1. L * m \in Int
      BY <2>1
    <3> QED BY <2>1, <3>1, Distributes
  <2> QED BY <1>2, <1>3, <2>2
<1> QED BY <1>3, <1>8, <1>9 DEF n, C

\* The rest of a number by 1, and of a rest.
LEMMA RestOfRest ==
    /\ \A a \in Int : a % 1 = 0
    /\ \A n \in Nat \ {0} : \A a \in 0..(n - 1) : a % n = a
<1>1. ASSUME NEW n \in Nat \ {0}, NEW a \in 0..(n - 1) PROVE a % n = a
  <2>1. a = n * 0 + a /\ 0 \in Int /\ a \in Int
    OBVIOUS
  <2>2. QuotientAndRest(a, n, 0, a)
    BY <2>1, DivisionIsUnique
  <2> QED BY <2>2 DEF QuotientAndRest
<1> QED BY <1>1

\* What the controls of a row say of its case.
LEMMA ControlsOfCase ==
    ASSUME NEW d, IsDesign(d), Accepted(d), NEW k \in 1..Runs(d), NEW x, x = CaseAt(d, k) - 1
    PROVE  /\ x \in Nat /\ Row(d, k).policy = PolicyAt(d, k)
           /\ \A seat \in 1..d.seats :
                 Row(d, k).permutation[seat] =
                     ((seat - 1 + (IF d.cyclic THEN x % d.seats ELSE 0)) % d.seats) + 1
           /\ d.persona = "counterbalanced" =>
                 Row(d, k).persona_position = ((x \div SeatCycle(d)) % d.profiles) + 1
           /\ d.layout = "counterbalanced" =>
                 Row(d, k).layout_index = ((x \div ControlCycle(d)) % LayoutCount(d)) + 1
<1> DEFINE c == CaseAt(d, k)
<1>1. c \in 1..d.n /\ d.n \in Nat /\ x = c - 1
  BY Placed, AcceptedDesign
<1>2. Row(d, k) = RowOfCase(d, PolicyAt(d, k), c, c)
  BY Rows
<1> HIDE DEF c
<1>3. /\ Row(d, k).policy = PolicyAt(d, k) /\ Row(d, k).permutation = Permutation(d, c)
      /\ Row(d, k).persona_position = (IF d.persona = "randomized" THEN 0
                                       ELSE (PersonaPosition(d, c) % d.profiles) + 1)
      /\ Row(d, k).layout_index = LayoutIndex(d, c)
  BY <1>2 DEF RowOfCase
<1>4. x \in Nat
  BY <1>1
<1> QED BY <1>1, <1>3, <1>4 DEF Permutation, Rotation, PersonaPosition, LayoutIndex

\* The seat rotations, persona positions and role layouts are met equally often.
LEMMA CombinationsAreCrossed ==
    ASSUME NEW d, IsDesign(d), Accepted(d), "counterbalanced" \in {d.persona, d.layout},
           NEW L, L = (IF d.layout = "counterbalanced" THEN LayoutCount(d) ELSE 1),
           NEW r \in 1..SeatCycle(d), NEW p \in 1..PersonaCycle(d), NEW l \in 1..L,
           NEW K, K = {k \in 1..Runs(d) :
                         /\ Row(d, k).policy = 1
                         /\ Row(d, k).permutation[1] = r
                         /\ d.persona = "counterbalanced" => Row(d, k).persona_position = p
                         /\ d.layout = "counterbalanced" => Row(d, k).layout_index = l}
    PROVE  Cardinality(K) * ControlCycle(d) * L = d.n
<1> DEFINE S == SeatCycle(d)
           P == PersonaCycle(d)
<1>1. /\ S \in Nat \ {0} /\ P \in Nat \ {0} /\ L \in Nat \ {0} /\ ControlCycle(d) = S * P
      /\ d.n % (S * P) = 0
  BY Cycles DEF ControlCycle
<1>2. (d.n \div (S * P)) % L = 0
  <2>1. CASE d.layout = "counterbalanced"
    BY <2>1, Cycles DEF ControlCycle
  <2>2. CASE d.layout # "counterbalanced"
    <3> DEFINE a == d.n
               b == S * P
    <3>1. a \in Int /\ b \in Nat \ {0}
      BY <1>1, AcceptedDesign
    <3> HIDE DEF a, b
    <3>2. a \div b \in Int
      BY <3>1, Division
    <3> QED BY <2>2, <3>2, RestOfRest DEF a, b
  <2> QED BY <2>1, <2>2
<1>3. \A k \in 1..Runs(d) :
          k \in K <=> /\ PolicyAt(d, k) = 1
                      /\ (CaseAt(d, k) - 1) % S = r - 1
                      /\ ((CaseAt(d, k) - 1) \div S) % P = p - 1
                      /\ ((CaseAt(d, k) - 1) \div (S * P)) % L = l - 1
  <2> SUFFICES ASSUME NEW k \in 1..Runs(d)
               PROVE  k \in K <=> /\ PolicyAt(d, k) = 1
                                  /\ (CaseAt(d, k) - 1) % S = r - 1
                                  /\ ((CaseAt(d, k) - 1) \div S) % P = p - 1
                                  /\ ((CaseAt(d, k) - 1) \div (S * P)) % L = l - 1
    OBVIOUS
  <2> DEFINE x == CaseAt(d, k) - 1
             row == Row(d, k)
             y == x \div S
             z == x \div (S * P)
  <2>1. /\ x \in Nat /\ row.policy = PolicyAt(d, k)
        /\ \A seat \in 1..d.seats :
              row.permutation[seat] =
                  ((seat - 1 + (IF d.cyclic THEN x % d.seats ELSE 0)) % d.seats) + 1
        /\ d.persona = "counterbalanced" => row.persona_position = (y % d.profiles) + 1
        /\ d.layout = "counterbalanced" =>
              row.layout_index = ((x \div ControlCycle(d)) % LayoutCount(d)) + 1
    BY ControlsOfCase
  <2> HIDE DEF x, row
  <2>2. y \in Int /\ z \in Int /\ x \in Int
    <3>1. x \in Int /\ S * P \in Nat \ {0}
      BY <1>1, <2>1
    <3> HIDE DEF S, P
    <3> QED BY <1>1, <3>1, Division
  <2>3. row.permutation[1] = r <=> x % S = r - 1
    <3>1. d.seats \in Nat \ {0} /\ d.cyclic \in BOOLEAN /\ 1 \in 1..d.seats
      BY DEF IsDesign
    <3>2. CASE d.cyclic
      <4> DEFINE v == x % d.seats
      <4>1. v \in 0..(d.seats - 1)
        BY <2>2, <3>1, Division
      <4> HIDE DEF v
      <4>2. 1 - 1 + v = v /\ v % d.seats = v
        BY <3>1, <4>1, RestOfRest
      <4>3. row.permutation[1] = v + 1
        BY <2>1, <3>1, <3>2, <4>2 DEF v
      <4>4. S = d.seats
        BY <3>2 DEF SeatCycle
      <4> HIDE DEF S
      <4>5. x % S = v
        BY <4>4 DEF v
      <4> QED BY <1>1, <4>1, <4>3, <4>4, <4>5 DEF S
    <3>3. CASE ~d.cyclic
      <4>1. 1 - 1 + 0 = 0 /\ 0 % d.seats = 0
        BY <3>1, RestOfRest
      <4>2. row.permutation[1] = 1
        BY <2>1, <3>1, <3>3, <4>1
      <4>3. S = 1
        BY <3>3 DEF SeatCycle
      <4>4. x % S = 0 /\ r = 1
        BY <2>2, <4>3, RestOfRest
      <4> QED BY <4>2, <4>4
    <3> QED BY <3>1, <3>2, <3>3
  <2>4. (d.persona = "counterbalanced" => row.persona_position = p) <=> y % P = p - 1
    <3>1. CASE d.persona = "counterbalanced"
      <4>1. P = d.profiles /\ d.profiles \in Nat \ {0}
        BY <3>1 DEF PersonaCycle, IsDesign
      <4> HIDE DEF y, P
      <4>2. y % d.profiles \in 0..(d.profiles - 1)
        BY <2>2, <4>1, Division
      <4> DEFINE v == y % d.profiles
      <4>3. row.persona_position = v + 1 /\ y % P = v
        BY <2>1, <3>1, <4>1
      <4>4. v \in Int /\ p \in Int
        BY <1>1, <4>1, <4>2 DEF P
      <4> HIDE DEF v
      <4> QED BY <3>1, <4>3, <4>4
    <3>2. CASE d.persona # "counterbalanced"
      <4>1. P = 1
        BY <3>2 DEF PersonaCycle
      <4>2. p = 1
        BY <4>1
      <4> HIDE DEF y, P
      <4> QED BY <2>2, <3>2, <4>1, <4>2, RestOfRest
    <3> QED BY <3>1, <3>2
  <2>5. (d.layout = "counterbalanced" => row.layout_index = l) <=> z % L = l - 1
    <3>1. CASE d.layout = "counterbalanced"
      <4>1. row.layout_index = (z % L) + 1
        BY <1>1, <2>1, <3>1
      <4> HIDE DEF z
      <4>2. z % L \in 0..(L - 1)
        BY <1>1, <2>2, Division
      <4> DEFINE v == z % L
      <4>3. v \in Int /\ l \in Int /\ row.layout_index = v + 1
        BY <1>1, <4>1, <4>2
      <4> HIDE DEF v
      <4>4. row.layout_index = l <=> v = l - 1
        BY <4>3
      <4> QED BY <3>1, <4>4 DEF v
    <3>2. CASE d.layout # "counterbalanced"
      <4>1. L = 1 /\ l = 1
        BY <3>2
      <4> HIDE DEF z
      <4> QED BY <2>2, <3>2, <4>1, RestOfRest
    <3> QED BY <3>1, <3>2
  <2>6. k \in K <=> /\ PolicyAt(d, k) = 1 /\ row.permutation[1] = r
                    /\ d.persona = "counterbalanced" => row.persona_position = p
                    /\ d.layout = "counterbalanced" => row.layout_index = l
    BY <2>1 DEF row
  <2> HIDE DEF y, z
  <2>7. k \in K <=> PolicyAt(d, k) = 1 /\ x % S = r - 1 /\ y % P = p - 1 /\ z % L = l - 1
    BY <2>3, <2>4, <2>5, <2>6
  <2> QED BY <2>7 DEF x, y, z
<1>4. K \in SUBSET (1..Runs(d))
  OBVIOUS
<1>5. r - 1 \in 0..(S - 1) /\ p - 1 \in 0..(P - 1) /\ l - 1 \in 0..(L - 1)
  BY <1>1
<1> DEFINE r0 == r - 1
           p0 == p - 1
           l0 == l - 1
<1> HIDE DEF S, P, r0, p0, l0
<1>6. Cardinality(K) * (S * P) * L = d.n
  <2>1. ArePlacesAt(d, S, P, L, r0, p0, l0, K)
    BY <1>3 DEF r0, p0, l0, ArePlacesAt
  <2>2. r0 \in 0..(S - 1) /\ p0 \in 0..(P - 1) /\ l0 \in 0..(L - 1)
    BY <1>5 DEF r0, p0, l0
  <2> QED BY <1>1, <1>2, <1>4, <2>1, <2>2, EqualParts
<1> QED BY <1>1, <1>6

\* Each player sits on each seat with each profile equally often.
LEMMA SeatsAndProfilesAreCrossed ==
    ASSUME NEW d, IsDesign(d), Accepted(d), d.cyclic, d.persona = "counterbalanced",
           NEW seat \in 1..d.seats, NEW player \in 1..d.seats, NEW profile \in 1..d.profiles,
           NEW K, K = {k \in 1..Runs(d) : /\ Row(d, k).policy = 1
                                          /\ Row(d, k).permutation[seat] = player
                                          /\ ProfileOn(Row(d, k), seat) = profile}
    PROVE  d.n = ControlCycle(d) * Cardinality(K)
<1> DEFINE S == d.seats
           P == d.profiles
           u == Draw(PersonaSeedBase(d), P)
           r == ((player - 1) - (seat - 1)) % S
           p == ((profile - 1) - (player - 1 + u)) % P
<1>1. /\ S \in Nat \ {0} /\ P \in Nat \ {0}
      /\ S = SeatCycle(d) /\ P = PersonaCycle(d) /\ ControlCycle(d) = S * P
      /\ d.n % (S * P) = 0
  <2>1. S = SeatCycle(d) /\ P = PersonaCycle(d)
    BY DEF SeatCycle, PersonaCycle
  <2>2. ControlCycle(d) = S * P
    BY <2>1 DEF ControlCycle
  <2>3. d.n % ControlCycle(d) = 0
    BY Cycles
  <2> QED BY <2>1, <2>2, <2>3 DEF IsDesign
<1>0. S \in Nat \ {0} /\ P \in Nat \ {0}
  BY <1>1
<1>2. seat - 1 \in Int /\ player - 1 \in 0..(S - 1) /\ profile - 1 \in 0..(P - 1) /\ u \in Int
      /\ player - 1 + u \in Int
  <2>1. PersonaSeedBase(d) \in Int
    BY DEF PersonaSeedBase, ControlSeed, IsDesign
  <2>2. u \in Int
    <3> DEFINE a == PersonaSeedBase(d)
    <3>1. a \in Int
      BY <2>1
    <3> HIDE DEF P, a
    <3>2. a % P \in 0..(P - 1)
      BY <1>0, <3>1, Division
    <3>3. a % P \in Int
      BY <1>0, <3>2
    <3> QED BY <3>3 DEF Draw, a
  <2> HIDE DEF u
  <2> QED BY <1>1, <2>2
<1>3. (d.n \div (S * P)) % 1 = 0
  <2> DEFINE a == d.n
             b == S * P
  <2>1. a \in Int /\ b \in Nat \ {0}
    BY <1>1, AcceptedDesign
  <2> HIDE DEF a, b
  <2>2. a \div b \in Int
    BY <2>1, Division
  <2> QED BY <2>2, RestOfRest DEF a, b
<1> HIDE DEF S, P, u
<1> DEFINE e == player - 1
           g == profile - 1
           a0 == seat - 1
           a1 == e + u
<1>4. a0 \in Int /\ a1 \in Int /\ e \in 0..(S - 1) /\ g \in 0..(P - 1)
  BY <1>2
<1>5. r \in 0..(S - 1) /\ p \in 0..(P - 1)
  <2> HIDE DEF e, g, a0, a1
  <2>1. 0 \in Int /\ RestIsShifted(S, a0, 0, e) /\ RestIsShifted(P, a1, 0, g)
    BY <1>0, <1>4, ShiftedRest
  <2> QED BY <2>1 DEF e, g, a0, a1, RestIsShifted
<1>6. ASSUME NEW k \in 1..Runs(d)
      PROVE  k \in K <=> /\ PolicyAt(d, k) = 1
                         /\ (CaseAt(d, k) - 1) % S = r
                         /\ ((CaseAt(d, k) - 1) \div S) % P = p
                         /\ ((CaseAt(d, k) - 1) \div (S * P)) % 1 = 0
  <2> DEFINE x == CaseAt(d, k) - 1
             row == Row(d, k)
             y == x \div S
             z == x \div (S * P)
             v == x % S
  <2>1. /\ x \in Nat /\ row.policy = PolicyAt(d, k)
        /\ row.permutation[seat] = ((seat - 1 + (x % d.seats)) % d.seats) + 1
    BY ControlsOfCase
  <2>2. row.source_profiles = SourceProfiles(d, CaseAt(d, k))
    BY Rows DEF RowOfCase
  <2>3. SourceProfiles(d, CaseAt(d, k))[player]
            = ((player - 1 + Draw(PersonaSeedBase(d), d.profiles)
                    + PersonaPosition(d, CaseAt(d, k))) % d.profiles) + 1
    BY DEF SourceProfiles
  <2>4. PersonaPosition(d, CaseAt(d, k)) = y
    BY DEF PersonaPosition, SeatCycle, S
  <2> HIDE DEF x, row
  <2>5. y \in Int /\ z \in Int /\ x \in Int /\ v \in 0..(S - 1)
    <3>1. x \in Int /\ S * P \in Nat \ {0}
      BY <1>1, <2>1
    <3> QED BY <1>1, <3>1, Division
  <2> HIDE DEF y, z, v
  <2>6. row.permutation[seat] = player <=> v = r
    <3>1. row.permutation[seat] = ((a0 + v) % S) + 1
      BY <2>1 DEF S, v
    <3>2. (a0 + v) % S = e <=> v % S = (e - a0) % S
      <4> HIDE DEF a0, e
      <4>1. v \in Int
        BY <1>0, <2>5
      <4>2. RestIsShifted(S, a0, v, e)
        BY <1>0, <1>4, <4>1, ShiftedRest
      <4> QED BY <4>2 DEF RestIsShifted
    <3>3. v % S = v
      BY <1>1, <2>5, RestOfRest
    <3> DEFINE f == (a0 + v) % S
    <3>4. f \in Int
      <4>1. a0 + v \in Int
        BY <1>1, <1>4, <2>5
      <4> DEFINE h == a0 + v
      <4>2. h \in Int
        BY <4>1
      <4> HIDE DEF f, h
      <4>3. h % S \in 0..(S - 1)
        BY <1>0, <4>2, Division
      <4>4. h % S \in Int
        BY <1>0, <4>3
      <4> QED BY <4>4 DEF f, h
    <3>5. row.permutation[seat] = player <=> f = e
      <4>1. row.permutation[seat] = f + 1
        BY <3>1
      <4>2. player \in Int
        BY <1>1
      <4> HIDE DEF f
      <4> QED BY <3>4, <4>1, <4>2
    <3> QED BY <3>2, <3>3, <3>5
  <2>7. ASSUME row.permutation[seat] = player
        PROVE  ProfileOn(row, seat) = profile <=> y % P = p
    <3>1. ProfileOn(row, seat) = ((player - 1 + u + y) % P) + 1
      BY <2>2, <2>3, <2>4, <2>7 DEF ProfileOn, P, u
    <3>2. (a1 + y) % P = g <=> y % P = (g - a1) % P
      <4> HIDE DEF a1, g
      <4>1. y \in Int
        BY <2>5
      <4>2. RestIsShifted(P, a1, y, g)
        BY <1>0, <1>4, <4>1, ShiftedRest
      <4> QED BY <4>2 DEF RestIsShifted
    <3> DEFINE f == (a1 + y) % P
    <3>3. f \in Int
      <4>1. a1 + y \in Int
        BY <1>4, <2>5
      <4> DEFINE h == a1 + y
      <4>2. h \in Int
        BY <4>1
      <4> HIDE DEF f, h
      <4>3. h % P \in 0..(P - 1)
        BY <1>0, <4>2, Division
      <4>4. h % P \in Int
        BY <1>0, <4>3
      <4> QED BY <4>4 DEF f, h
    <3>4. ProfileOn(row, seat) = profile <=> f = g
      <4>1. ProfileOn(row, seat) = f + 1
        BY <3>1
      <4>2. profile \in Int
        BY <1>1
      <4> HIDE DEF f
      <4> QED BY <3>3, <4>1, <4>2
    <3> QED BY <3>2, <3>4
  <2>8. z % 1 = 0
    BY <2>5, RestOfRest
  <2>9. k \in K <=> /\ row.policy = 1 /\ row.permutation[seat] = player
                    /\ ProfileOn(row, seat) = profile
    BY DEF row
  <2> HIDE DEF r, p
  <2>10. k \in K <=> PolicyAt(d, k) = 1 /\ v = r /\ y % P = p /\ z % 1 = 0
    BY <2>1, <2>6, <2>7, <2>8, <2>9
  <2> QED BY <2>10 DEF x, y, z, v
<1> HIDE DEF r, p
<1>7. ArePlacesAt(d, S, P, 1, r, p, 0, K)
  BY <1>6 DEF ArePlacesAt
<1>8. K \in SUBSET (1..Runs(d)) /\ 0 \in 0..(1 - 1) /\ 1 \in Nat \ {0}
  OBVIOUS
<1>9. Cardinality(K) \in Nat /\ Cardinality(K) * (S * P) * 1 = d.n
  BY <1>1, <1>3, <1>5, <1>7, <1>8, EqualParts
<1>10. Cardinality(K) * (S * P) * 1 = (S * P) * Cardinality(K)
  <2> DEFINE m == Cardinality(K)
             b == S * P
  <2>1. m \in Int /\ b \in Int
    BY <1>1, <1>9
  <2> HIDE DEF m, b
  <2>2. m * b * 1 = b * m
    BY <2>1
  <2> QED BY <2>2 DEF m, b
<1> QED BY <1>1, <1>9, <1>10

\* The controls of a schedule are crossed, and not in lockstep.
LEMMA CrossedSchedule ==
    ASSUME NEW d, IsDesign(d), Accepted(d)
    PROVE  ControlsAreCrossed(d, Schedule(d))
<1> DEFINE s == Schedule(d)
           mine == {k \in DOMAIN s : s[k].policy = 1}
           L == IF d.layout = "counterbalanced" THEN LayoutCount(d) ELSE 1
           K(r, p, l) == {k \in mine :
                            /\ s[k].permutation[1] = r
                            /\ d.persona = "counterbalanced" => s[k].persona_position = p
                            /\ d.layout = "counterbalanced" => s[k].layout_index = l}
           J(seat, player, profile) ==
               {k \in mine : s[k].permutation[seat] = player /\ ProfileOn(s[k], seat) = profile}
<1> SUFFICES ASSUME "counterbalanced" \in {d.persona, d.layout}
             PROVE  /\ \A r \in 1..SeatCycle(d), p \in 1..PersonaCycle(d), l \in 1..L :
                          Cardinality(K(r, p, l)) * ControlCycle(d) * L = d.n
                    /\ d.cyclic /\ d.persona = "counterbalanced" =>
                          \A seat \in {1, d.seats}, player \in 1..d.seats,
                             profile \in 1..d.profiles :
                              d.n = ControlCycle(d) * Cardinality(J(seat, player, profile))
  BY DEF ControlsAreCrossed
<1>1. DOMAIN s = 1..Runs(d) /\ \A k \in 1..Runs(d) : s[k] = Row(d, k)
  BY DEF Schedule
<1> HIDE DEF s
<1>2. ASSUME NEW r \in 1..SeatCycle(d), NEW p \in 1..PersonaCycle(d), NEW l \in 1..L
      PROVE  Cardinality(K(r, p, l)) * ControlCycle(d) * L = d.n
  <2> DEFINE M == {k \in 1..Runs(d) :
                     /\ Row(d, k).policy = 1
                     /\ Row(d, k).permutation[1] = r
                     /\ d.persona = "counterbalanced" => Row(d, k).persona_position = p
                     /\ d.layout = "counterbalanced" => Row(d, k).layout_index = l}
  <2>1. K(r, p, l) = M
    BY <1>1
  <2>2. Cardinality(M) * ControlCycle(d) * L = d.n
    BY CombinationsAreCrossed
  <2> HIDE DEF M, K, L
  <2> QED BY <2>1, <2>2
<1>3. ASSUME d.cyclic, d.persona = "counterbalanced",
             NEW seat \in {1, d.seats}, NEW player \in 1..d.seats, NEW profile \in 1..d.profiles
      PROVE  d.n = ControlCycle(d) * Cardinality(J(seat, player, profile))
  <2> DEFINE M == {k \in 1..Runs(d) : /\ Row(d, k).policy = 1
                                      /\ Row(d, k).permutation[seat] = player
                                      /\ ProfileOn(Row(d, k), seat) = profile}
  <2>1. J(seat, player, profile) = M
    BY <1>1
  <2>2. seat \in 1..d.seats
    BY DEF IsDesign
  <2>3. d.n = ControlCycle(d) * Cardinality(M)
    BY <1>3, <2>2, SeatsAndProfilesAreCrossed
  <2> HIDE DEF M, J
  <2> QED BY <2>1, <2>3
<1> HIDE DEF K, J, L
<1> QED BY <1>2, <1>3

\* Every schedule that is not refused is a fair comparison.
LEMMA AcceptedIsBalanced ==
    ASSUME NEW d, IsDesign(d), Accepted(d)
    PROVE  Balanced(d)
BY PairedSchedule, OrderedSchedule, CrossedSchedule, VerifiedSchedule DEF Balanced

-----------------------------------------------------------------------------
\* Whatever design is offered to build_policy_schedule, its schedule is a fair
\* comparison unless it is refused: the policies play the same cases under the
\* same conditions, in an order that favours none, the controls are crossed, and
\* the runner accepts the provenance it recomputes.
THEOREM SchedulesAreBalanced == Spec => []ScheduleIsBalanced
<1>1. Init => design \in Designs
  BY DEF Init
<1>2. design \in Designs /\ [Next]_vars => (design \in Designs)'
  <2> SUFFICES ASSUME design \in Designs, [Next]_vars PROVE design' \in Designs
    OBVIOUS
  <2>1. design' = design \/ design' \in BatchDesigns
    BY DEF Next, Work, Execute, Finish, MakeDir, MakeTemp, Replace, AppendRow, Raises,
           AppendRaises, ProcessEnds, StartAfresh, Resume, ResumeRefused, Begin, vars,
           CanStart
  <2> QED BY <2>1, BatchAssumption
<1>3. design \in Designs => ScheduleIsBalanced
  BY DesignsAssumption, AcceptedIsBalanced DEF ScheduleIsBalanced
<1> QED BY <1>1, <1>2, <1>3, PTL DEF Spec

=============================================================================
