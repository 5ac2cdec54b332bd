-------------------------- MODULE RoomLifecycleProofs --------------------------
(***************************************************************************)
(* Proofs about RoomLifecycle, for any rooms, calls and limits, and any     *)
(* number of saves that fail and processes that end.                       *)
(***************************************************************************)
EXTENDS RoomLifecycle, TLAPS

\* A start that is under way holds the object it has looked up; once it has
\* failed, the room is over and has no task.
StartsHold ==
  \A c \in Calls :
    /\ start[c].at = "idle" <=> start[c] = Idle
    /\ start[c] # Idle => start[c].of \in Rooms /\ room[start[c].of] # None
    /\ start[c].at = "failing" =>
         room[start[c].of].status = "failed" /\ room[start[c].of].task = "none"

\* A process that has ended holds nothing; persistence is closed last.
ProcessEnds ==
  /\ manager \in {"down", "refused"} =>
       listed = {} /\ \A r \in Rooms : room[r] = None /\ \A c \in Calls : start[c] = Idle
  /\ store = "closed" => manager = "closed"

\* What a row can be, whether or not a process runs.
RowIsSound(row) ==
  row # None =>
    /\ row.status = "waiting" => row = Row(NewRoom)
    /\ row.status \in Success => row.told = row.status

\* What the object o of a room can be, given its row, its budget scope, whether
\* it is listed, and where the manager is.
WaitingFits(o, row, budget, in, mgr) ==
  o.status = "waiting" =>
    /\ o = NewRoom
    /\ row = IF in THEN Row(NewRoom) ELSE None
    /\ in /\ mgr = "open" => budget = "open"

RunningFits(o, row, budget, in, mgr) ==
  /\ o.status = "running" => row # None /\ row.status = "running"
  /\ o.task \in {"new", "playing"} =>
       \/ o.status = "running"
       \/ /\ o.cancelled /\ o.status = "failed"
          /\ row # None /\ row.status \in {"running", "failed"}
  /\ o.cancelled => mgr \notin {"open", "closing"}
  /\ o.task \in {"new", "playing"} /\ in /\ mgr \in {"cancelling", "settling", "releasing"} =>
       o.cancelled
  /\ o.status = "running" /\ in /\ mgr \in {"open", "closing"} =>
       /\ o.task \in {"new", "playing"} /\ budget = "open"
       /\ o.prepared = IF o.task = "new" THEN "fresh" ELSE "claimed"

SuccessFits(o, row, budget, in) ==
  o.status \in Success /\ in =>
    row # None /\ row.status = o.status /\ budget = "closed"

RoomFits(o, row, budget, in, mgr) ==
  o # None => /\ WaitingFits(o, row, budget, in, mgr)
              /\ RunningFits(o, row, budget, in, mgr)
              /\ SuccessFits(o, row, budget, in)

RoomInv ==
  /\ TypeOK
  /\ StartsHold
  /\ ProcessEnds
  /\ \A r \in Rooms : /\ RowIsSound(disk[r])
                      /\ RoomFits(room[r], disk[r], scope[r], r \in listed, manager)

-----------------------------------------------------------------------------
(* Work.                                                                    *)

Works == [object : RoomObjects, row : RoomRows \cup {None}, ok : BOOLEAN]

\* From w, only rows were added to the object: its row is the one before, or one
\* with its status.
Carries(w, v) ==
  /\ v.object.status = w.object.status
  /\ v.object.task = w.object.task
  /\ v.object.cancelled = w.object.cancelled
  /\ v.object.prepared = w.object.prepared
  /\ \/ v.row = w.row
     \/ v.row \in RoomRows /\ v.row.status = w.object.status

\* The row of an object is a row, with its status.
LEMMA RowTyped ==
  ASSUME NEW o \in RoomObjects
  PROVE  Row(o) \in RoomRows /\ Row(o).status = o.status /\ Row(o) # None /\ o # None
BY NoneAssumption DEF Row, RoomObjects, RoomRows

\* A new room and its row.
LEMMA NewRoomTyped ==
  /\ NewRoom \in RoomObjects
  /\ Row(NewRoom) \in RoomRows
  /\ Row(NewRoom).status = "waiting"
  /\ Row(NewRoom) # None /\ NewRoom # None
<1>1. NewRoom \in RoomObjects
  BY LifecycleAssumption DEF NewRoom, RoomObjects, Statuses
<1>2. NewRoom.status = "waiting"
  BY DEF NewRoom
<1> QED BY <1>1, <1>2, RowTyped

\* Work on a room starts with its object and its row.
LEMMA WorkTyped ==
  ASSUME NEW r \in Rooms, NEW o \in RoomObjects, disk[r] \in RoomRows \cup {None}
  PROVE  Work(r, o) \in Works /\ Work(r, o).object = o /\ Work(r, o).row = disk[r]
BY DEF Work, Works

\* What an emission may do, for an object o that differs from the one before in
\* its rows, its last status row and its stamp only.
LEMMA EmitTyped ==
  ASSUME NEW r \in Rooms, NEW w \in Works, NEW o, NEW fails \in BOOLEAN, store = "open",
         Fits(w.object, 1) => o \in RoomObjects,
         o.status = w.object.status, o.task = w.object.task,
         o.cancelled = w.object.cancelled, o.prepared = w.object.prepared
  PROVE  Emit(r, w, o, fails) \in Works /\ Carries(w, Emit(r, w, o, fails))
<1> DEFINE v == Emit(r, w, o, fails)
<1>1. w.object \in RoomObjects /\ w.row \in RoomRows \cup {None} /\ w.ok \in BOOLEAN
  BY DEF Works
<1>2. CASE ~w.ok
  <2>1. v = w
    BY <1>2 DEF Emit
  <2> QED BY <1>1, <2>1 DEF Carries
<1>3. CASE w.ok /\ ~Fits(w.object, 1)
  <2>1. v = [w EXCEPT !.ok = FALSE, !.object.limit = TRUE]
    BY <1>3 DEF Emit
  <2>2. [w.object EXCEPT !.limit = TRUE] \in RoomObjects
    BY <1>1 DEF RoomObjects
  <2>3. v.object = [w.object EXCEPT !.limit = TRUE] /\ v.row = w.row /\ v \in Works
    BY <1>1, <2>1, <2>2 DEF Works
  <2> HIDE DEF v
  <2>4. /\ v.object.status = w.object.status
        /\ v.object.task = w.object.task
        /\ v.object.cancelled = w.object.cancelled
        /\ v.object.prepared = w.object.prepared
    BY <1>1, <2>3 DEF RoomObjects
  <2> QED BY <2>3, <2>4 DEF Carries, v
<1>4. CASE w.ok /\ Fits(w.object, 1) /\ fails
  <2>1. v = [w EXCEPT !.ok = FALSE]
    BY <1>4 DEF Emit
  <2>2. v \in Works /\ v.object = w.object /\ v.row = w.row
    BY <1>1, <2>1 DEF Works
  <2> QED BY <2>2 DEF Carries
<1>5. CASE w.ok /\ Fits(w.object, 1) /\ ~fails
  <2>1. v = [object |-> o, row |-> Row(o), ok |-> TRUE]
    BY <1>5 DEF Emit, Saved
  <2>2. Row(o) \in RoomRows /\ Row(o).status = o.status
    BY <1>5, RowTyped
  <2>3. v \in Works /\ v.object = o /\ v.row = Row(o)
    BY <1>5, <2>1, <2>2 DEF Works
  <2> QED BY <2>2, <2>3 DEF Carries
<1> QED BY <1>2, <1>3, <1>4, <1>5

\* One row more.
LEMMA EmitRowTyped ==
  ASSUME NEW r \in Rooms, NEW w \in Works, NEW fails \in BOOLEAN, store = "open"
  PROVE  EmitRow(r, w, fails) \in Works /\ Carries(w, EmitRow(r, w, fails))
<1> DEFINE o == [w.object EXCEPT !.rows = @ + 1]
<1>1. w.object \in RoomObjects
  BY DEF Works
<1>2. Fits(w.object, 1) => o \in RoomObjects
  BY <1>1, LifecycleAssumption DEF RoomObjects, Fits
<1>3. /\ o.status = w.object.status /\ o.task = w.object.task
      /\ o.cancelled = w.object.cancelled /\ o.prepared = w.object.prepared
  BY <1>1 DEF RoomObjects
<1>4. EmitRow(r, w, fails) = Emit(r, w, o, fails)
  BY DEF EmitRow
<1> HIDE DEF o
<1> QED BY <1>2, <1>3, <1>4, EmitTyped

\* One room_status row more.
LEMMA EmitStatusTyped ==
  ASSUME NEW r \in Rooms, NEW w \in Works, NEW fails \in BOOLEAN, store = "open"
  PROVE  EmitStatus(r, w, fails) \in Works /\ Carries(w, EmitStatus(r, w, fails))
<1> DEFINE p == [w.object EXCEPT !.stamped = w.ok \/ @]
           x == [w EXCEPT !.object = p]
           o == [p EXCEPT !.rows = @ + 1, !.told = p.status]
<1>1. w.object \in RoomObjects /\ w.row \in RoomRows \cup {None} /\ w.ok \in BOOLEAN
  BY DEF Works
<1>2. /\ p \in RoomObjects
      /\ p.status = w.object.status /\ p.task = w.object.task
      /\ p.cancelled = w.object.cancelled /\ p.prepared = w.object.prepared
  BY <1>1 DEF RoomObjects
<1> HIDE DEF p
<1>3. x \in Works /\ x.object = p /\ x.row = w.row
  BY <1>1, <1>2 DEF Works
<1>4. Fits(p, 1) => o \in RoomObjects
  <2> SUFFICES ASSUME Fits(p, 1) PROVE o \in RoomObjects
    OBVIOUS
  <2>1. p.rows + 1 \in 0 .. MaxEvidence /\ p.status \in Statuses
    BY <1>2, LifecycleAssumption DEF RoomObjects, Fits
  <2> QED BY <1>2, <2>1 DEF RoomObjects
<1>5. /\ o.status = p.status /\ o.task = p.task
      /\ o.cancelled = p.cancelled /\ o.prepared = p.prepared
  BY <1>2 DEF RoomObjects
<1>6. EmitStatus(r, w, fails) = Emit(r, x, o, fails)
  BY DEF EmitStatus, p
<1> HIDE DEF o, x
<1>7. Emit(r, x, o, fails) \in Works /\ Carries(x, Emit(r, x, o, fails))
  BY <1>3, <1>4, <1>5, EmitTyped
<1> QED BY <1>2, <1>3, <1>6, <1>7 DEF Carries

-----------------------------------------------------------------------------
(* Steps that change one room.                                              *)

Scopes == {"none", "open", "closed"}

\* What is over stays over: a row with a verdict keeps one, a success stays that
\* success, and a failure never becomes one.  Only TakenBack is no such step.
RowIsFinal(old, new) ==
  old # None /\ new # None /\ old.status \in Terminal =>
    /\ new.status \in Terminal
    /\ old.status \in Success \/ new.status \in Success => new.status = old.status

\* The shutdown could not clean up after room q, and makes a failure of it.
TakenBack(q, new) == manager = "settling" /\ q \in uncleaned /\ new.status = "failed"

RowsAreFinal ==
  \A q \in Rooms : RowIsFinal(disk[q], disk'[q]) \/ TakenBack(q, disk'[q])

\* A step of one room keeps the invariant if it keeps the types and the starts,
\* and leaves that room with an object and a row that fit.
LEMMA OneRoom ==
  ASSUME RoomInv, NEW r \in Rooms, manager \notin {"down", "refused"},
         \A q \in Rooms \ {r} :
           /\ room'[q] = room[q] /\ disk'[q] = disk[q] /\ scope'[q] = scope[q]
           /\ q \in listed' <=> q \in listed,
         manager' \in {manager, "closed"}, store' = store, TypeOK', StartsHold',
         RowIsSound(disk'[r]), RowIsFinal(disk[r], disk'[r]) \/ TakenBack(r, disk'[r]),
         RoomFits(room'[r], disk'[r], scope'[r], r \in listed', manager')
  PROVE  RoomInv' /\ RowsAreFinal
<1>1. ProcessEnds'
  BY DEF RoomInv, ProcessEnds
<1>2. ASSUME NEW q \in Rooms
      PROVE  /\ RowIsSound(disk'[q])
             /\ RoomFits(room'[q], disk'[q], scope'[q], q \in listed', manager')
  <2>1. CASE q = r
    BY <2>1
  <2>2. CASE q # r
    <3>1. /\ room'[q] = room[q] /\ disk'[q] = disk[q] /\ scope'[q] = scope[q]
          /\ q \in listed' <=> q \in listed
      BY <2>2
    <3>2. RowIsSound(disk[q]) /\ RoomFits(room[q], disk[q], scope[q], q \in listed, manager)
      BY DEF RoomInv
    <3> QED BY <3>1, <3>2 DEF RoomFits, WaitingFits, RunningFits, SuccessFits
  <2> QED BY <2>1, <2>2
<1>3. RowsAreFinal
  <2> SUFFICES ASSUME NEW q \in Rooms, q # r PROVE RowIsFinal(disk[q], disk'[q])
    BY DEF RowsAreFinal
  <2> QED BY DEF RowIsFinal
<1> QED BY <1>1, <1>2, <1>3 DEF RoomInv

\* Saves that may fail are counted up to their bound.
LEMMA MaySaveTyped ==
  ASSUME TypeOK, NEW n \in Nat, MaySave(n)
  PROVE  failures' \in 0 .. MaxOutages
BY LifecycleAssumption DEF TypeOK, MaySave

\* The object of a listed room, and of one that is played, is a room object.
LEMMA ObjectTyped ==
  ASSUME TypeOK, NEW r \in Rooms, room[r] # None
  PROVE  room[r] \in RoomObjects
BY DEF TypeOK

\* The same for a step that gives one room, which exists, the object o, the row
\* and the budget scope: a room that has failed to start keeps its status.
LEMMA OneObject ==
  ASSUME RoomInv, NEW r \in Rooms, room[r] # None, manager \notin {"down", "refused"},
         NEW o \in RoomObjects, NEW row \in RoomRows \cup {None}, NEW budget \in Scopes,
         room' = [room EXCEPT ![r] = o],
         disk' = [disk EXCEPT ![r] = row],
         scope' = [scope EXCEPT ![r] = budget],
         UNCHANGED <<listed, start, store, uncleaned, crashes>>,
         manager' \in {manager, "closed"}, lock' \in {lock, None}, settled' \subseteq Rooms,
         failures' \in 0 .. MaxOutages,
         room[r].status = "failed" /\ room[r].task = "none" =>
           o.status = "failed" /\ o.task = "none",
         RowIsSound(row), RowIsFinal(disk[r], row) \/ TakenBack(r, row),
         RoomFits(o, row, budget, r \in listed, manager')
  PROVE  RoomInv' /\ RowsAreFinal
<1>1. TypeOK
  BY DEF RoomInv
<1>2. /\ room'[r] = o /\ disk'[r] = row /\ scope'[r] = budget
      /\ \A q \in Rooms \ {r} : room'[q] = room[q] /\ disk'[q] = disk[q] /\ scope'[q] = scope[q]
  BY <1>1 DEF TypeOK
<1>3. o # None
  BY RowTyped
<1>4. TypeOK'
  <2>1. room' \in [Rooms -> RoomObjects \cup {None}] /\ disk' \in [Rooms -> RoomRows \cup {None}]
    BY <1>1 DEF TypeOK
  <2>2. scope' \in [Rooms -> {"none", "open", "closed"}]
    BY <1>1 DEF TypeOK, Scopes
  <2>3. listed' \subseteq {q \in Rooms : room'[q] # None}
    BY <1>1, <1>2, <1>3 DEF TypeOK
  <2>4. /\ manager' \in {"open", "closing", "cancelling", "settling", "releasing", "closed",
                         "down", "refused"}
        /\ lock' \in Calls \cup {"aclose", None}
    BY <1>1 DEF TypeOK
  <2> QED BY <1>1, <2>1, <2>2, <2>3, <2>4 DEF TypeOK
<1>5. StartsHold'
  <2> SUFFICES ASSUME NEW c \in Calls
               PROVE  /\ start[c].at = "idle" <=> start[c] = Idle
                      /\ start[c] # Idle => start[c].of \in Rooms /\ room'[start[c].of] # None
                      /\ start[c].at = "failing" => /\ room'[start[c].of].status = "failed"
                                                    /\ room'[start[c].of].task = "none"
    BY DEF StartsHold
  <2>1. /\ start[c].at = "idle" <=> start[c] = Idle
        /\ start[c] # Idle => start[c].of \in Rooms /\ room[start[c].of] # None
        /\ start[c].at = "failing" => /\ room[start[c].of].status = "failed"
                                      /\ room[start[c].of].task = "none"
    BY DEF RoomInv, StartsHold
  <2>2. start[c].at = "failing" => start[c] # Idle
    BY <2>1
  <2>3. CASE start[c].of = r
    BY <1>2, <1>3, <2>1, <2>3
  <2>4. CASE start[c].of # r
    BY <1>2, <2>1, <2>2, <2>4
  <2> QED BY <2>3, <2>4
<1> QED BY <1>2, <1>4, <1>5, OneRoom

-----------------------------------------------------------------------------
(* The task of a room.                                                      *)

\* A room with a task is running, or was found by aclose and has failed.
LEMMA LiveRoom ==
  ASSUME RoomInv, NEW r \in Rooms, manager # "closed", room[r] # None,
         room[r].task \in {"new", "playing"}
  PROVE  /\ TypeOK
         /\ room[r] \in RoomObjects
         /\ disk[r] \in RoomRows
         /\ RowIsSound(disk[r])
         /\ scope[r] \in Scopes
         /\ store = "open"
         /\ manager \notin {"down", "refused"}
         /\ disk[r].status \in {"running", "failed"}
         /\ room[r].status \in {"running", "failed"}
         /\ room[r].status = "running" => disk[r].status = "running"
         /\ ~room[r].cancelled => room[r].status = "running"
         /\ room[r].cancelled => manager \notin {"open", "closing"}
<1>1. TypeOK /\ room[r] \in RoomObjects /\ disk[r] \in RoomRows \cup {None} /\ scope[r] \in Scopes
  BY DEF RoomInv, TypeOK, Scopes
<1>2. RowIsSound(disk[r]) /\ RunningFits(room[r], disk[r], scope[r], r \in listed, manager)
  BY DEF RoomInv, RoomFits
<1>3. store = "open" /\ manager \notin {"down", "refused"}
  BY <1>1 DEF RoomInv, ProcessEnds, TypeOK
<1> QED BY <1>1, <1>2, <1>3 DEF RunningFits

\* An object whose task has ended without a success fits any row and scope.
LEMMA OverFits ==
  ASSUME NEW o \in RoomObjects, o.status \in {"failed", "timeout", "cancelled"},
         o.task \in {"none", "done"}, NEW row, NEW budget, NEW in, NEW mgr,
         o.cancelled => mgr \notin {"open", "closing"}
  PROVE  RoomFits(o, row, budget, in, mgr)
BY DEF RoomFits, WaitingFits, RunningFits, SuccessFits, Success

\* A row that is sound, or that has the status of a run that is on or has failed.
LEMMA CarriedIsSound ==
  ASSUME NEW old, RowIsSound(old), NEW row,
         \/ row = old
         \/ row.status \in {"running", "failed", "timeout", "cancelled"}
  PROVE  RowIsSound(row)
BY DEF RowIsSound, Success

\* A row that stays, or that was not over in success and is not now, is final.
LEMMA CarriedIsFinal ==
  ASSUME NEW old, NEW row,
         \/ row = old
         \/ old.status = "running"
         \/ /\ old.status = "failed"
            /\ row.status \in {"failed", "timeout", "cancelled"}
  PROVE  RowIsFinal(old, row)
BY DEF RowIsFinal, Terminal, Success

\* Work carries on.
LEMMA CarriesOn ==
  ASSUME NEW u, NEW v, NEW w, Carries(u, v), Carries(v, w)
  PROVE  Carries(u, w)
BY DEF Carries

\* The task starts, or ends at once when it was cancelled before.
LEMMA TaskBeginsKeeps ==
  ASSUME RoomInv, NEW r \in Rooms, TaskBegins(r)
  PROVE  RoomInv' /\ RowsAreFinal
<1> DEFINE x == room[r]
           o == IF x.cancelled THEN [x EXCEPT !.task = "done"]
                ELSE [x EXCEPT !.task = "playing", !.prepared = "claimed"]
<1>1. x # None /\ x.task = "new" /\ manager # "closed" /\ room' = [room EXCEPT ![r] = o]
  BY DEF TaskBegins, Runs
<1>2. /\ x \in RoomObjects /\ disk[r] \in RoomRows /\ RowIsSound(disk[r]) /\ scope[r] \in Scopes
      /\ manager \notin {"down", "refused"} /\ TypeOK
      /\ x.status \in {"running", "failed"}
      /\ x.cancelled => manager \notin {"open", "closing"}
  BY <1>1, LiveRoom
<1>3. RoomFits(x, disk[r], scope[r], r \in listed, manager)
  BY DEF RoomInv
<1>4. /\ o \in RoomObjects /\ o.status = x.status /\ o.cancelled = x.cancelled
      /\ IF x.cancelled THEN o.task = "done" ELSE o.task = "playing" /\ o.prepared = "claimed"
  BY <1>2 DEF RoomObjects
<1> HIDE DEF o, x
<1>5. RoomFits(o, disk[r], scope[r], r \in listed, manager)
  BY <1>1, <1>2, <1>3, <1>4 DEF RoomFits, WaitingFits, RunningFits, SuccessFits, Success
<1>6. /\ disk' = [disk EXCEPT ![r] = disk[r]]
      /\ scope' = [scope EXCEPT ![r] = scope[r]]
      /\ UNCHANGED <<listed, start, store, uncleaned, crashes>>
      /\ manager' = manager /\ lock' = lock /\ settled' \subseteq Rooms
      /\ failures' \in 0 .. MaxOutages
  BY <1>2 DEF TaskBegins, TypeOK
<1>7. RowIsFinal(disk[r], disk[r])
  BY CarriedIsFinal
<1> QED BY <1>1, <1>2, <1>4, <1>5, <1>6, <1>7, OneObject DEF x

\* A row is saved, or lost.
LEMMA RecordKeeps ==
  ASSUME RoomInv, NEW r \in Rooms, Record(r)
  PROVE  RoomInv' /\ RowsAreFinal
<1> DEFINE x == room[r]
<1>1. x # None /\ x.task = "playing" /\ manager # "closed"
  BY DEF Record, Playing, Runs
<1>2. /\ x \in RoomObjects /\ disk[r] \in RoomRows /\ RowIsSound(disk[r]) /\ scope[r] \in Scopes
      /\ manager \notin {"down", "refused"} /\ TypeOK /\ store = "open"
      /\ x.status \in {"running", "failed"}
      /\ disk[r].status \in {"running", "failed"}
      /\ x.status = "running" => disk[r].status = "running"
      /\ x.cancelled => manager \notin {"open", "closing"}
  BY <1>1, LiveRoom
<1>3. RoomFits(x, disk[r], scope[r], r \in listed, manager)
  BY DEF RoomInv
<1>4. PICK n \in 0 .. 1 :
        /\ MaySave(n)
        /\ LET w == EmitRow(r, Work(r, room[r]), n = 1) IN
           /\ room' = [room EXCEPT ![r] = [w.object EXCEPT !.sink = @ \/ ~w.ok]]
           /\ disk' = [disk EXCEPT ![r] = w.row]
  BY DEF Record
<1> DEFINE w == EmitRow(r, Work(r, x), n = 1)
           o == [w.object EXCEPT !.sink = @ \/ ~w.ok]
<1>5. w \in Works /\ Carries(Work(r, x), w) /\ Work(r, x).object = x /\ Work(r, x).row = disk[r]
  <2>1. Work(r, x) \in Works /\ Work(r, x).object = x /\ Work(r, x).row = disk[r]
    BY <1>2, WorkTyped
  <2> QED BY <1>2, <2>1, EmitRowTyped
<1>6. room' = [room EXCEPT ![r] = o] /\ disk' = [disk EXCEPT ![r] = w.row]
  BY <1>4
<1> HIDE DEF w
<1>7. /\ w.object \in RoomObjects /\ w.row \in RoomRows \cup {None}
      /\ w.object.status = x.status /\ w.object.task = x.task
      /\ w.object.cancelled = x.cancelled /\ w.object.prepared = x.prepared
      /\ w.row = disk[r] \/ (w.row \in RoomRows /\ w.row.status = x.status)
  BY <1>5 DEF Carries, Works
<1>8. /\ o \in RoomObjects /\ o.status = x.status /\ o.task = x.task
      /\ o.cancelled = x.cancelled /\ o.prepared = x.prepared
  <2>1. w.ok \in BOOLEAN
    BY <1>5 DEF Works
  <2>2. o \in RoomObjects
    BY <1>7, <2>1 DEF RoomObjects
  <2>3. /\ o.status = w.object.status /\ o.task = w.object.task
        /\ o.cancelled = w.object.cancelled /\ o.prepared = w.object.prepared
    BY <1>7 DEF RoomObjects
  <2> QED BY <1>7, <2>2, <2>3
<1> HIDE DEF o, x
<1>9. w.row # None
  BY <1>2, <1>7, NoneAssumption
<1>10. RowIsSound(w.row)
  BY <1>2, <1>7, CarriedIsSound
<1>11. RoomFits(o, w.row, scope[r], r \in listed, manager)
  BY <1>1, <1>2, <1>3, <1>7, <1>8, <1>9 DEF RoomFits, WaitingFits, RunningFits, SuccessFits, Success
<1>12. /\ scope' = [scope EXCEPT ![r] = scope[r]]
       /\ UNCHANGED <<listed, start, store, uncleaned, crashes>>
       /\ manager' = manager /\ lock' = lock /\ settled' \subseteq Rooms
       /\ failures' \in 0 .. MaxOutages
  BY <1>2, <1>4, MaySaveTyped DEF Record, TypeOK
<1>13. RowIsFinal(disk[r], w.row)
  BY <1>2, <1>7, CarriedIsFinal
<1> QED BY <1>1, <1>2, <1>6, <1>7, <1>8, <1>10, <1>11, <1>12, <1>13, OneObject DEF x

\* A verdict that has no place or is not saved is latched.
LEMMA VerdictRefusedKeeps ==
  ASSUME RoomInv, NEW r \in Rooms, VerdictRefused(r)
  PROVE  RoomInv' /\ RowsAreFinal
<1> DEFINE x == room[r]
<1>1. x # None /\ x.task = "playing" /\ manager # "closed"
  BY DEF VerdictRefused, Playing, Runs
<1>2. /\ x \in RoomObjects /\ disk[r] \in RoomRows /\ RowIsSound(disk[r]) /\ scope[r] \in Scopes
      /\ manager \notin {"down", "refused"} /\ TypeOK
      /\ x.status \in {"running", "failed"}
  BY <1>1, LiveRoom
<1>3. RoomFits(x, disk[r], scope[r], r \in listed, manager)
  BY DEF RoomInv
<1>4. failures' \in 0 .. MaxOutages
  BY <1>2, MaySaveTyped DEF VerdictRefused, TypeOK
<1>5. PICK o \in {[x EXCEPT !.sink = TRUE], [x EXCEPT !.sink = TRUE, !.limit = TRUE]} :
        room' = [room EXCEPT ![r] = o]
  BY DEF VerdictRefused
<1>6. /\ o \in RoomObjects /\ o.status = x.status /\ o.task = x.task
      /\ o.cancelled = x.cancelled /\ o.prepared = x.prepared
  BY <1>2 DEF RoomObjects
<1> HIDE DEF x
<1>7. RoomFits(o, disk[r], scope[r], r \in listed, manager)
  BY <1>1, <1>2, <1>3, <1>6 DEF RoomFits, WaitingFits, RunningFits, SuccessFits, Success
<1>8. /\ disk' = [disk EXCEPT ![r] = disk[r]]
      /\ scope' = [scope EXCEPT ![r] = scope[r]]
      /\ UNCHANGED <<listed, start, store, uncleaned, crashes>>
      /\ manager' = manager /\ lock' = lock /\ settled' \subseteq Rooms
  BY <1>2 DEF VerdictRefused, TypeOK
<1>9. RowIsFinal(disk[r], disk[r])
  BY CarriedIsFinal
<1> QED BY <1>1, <1>2, <1>4, <1>5, <1>6, <1>7, <1>8, <1>9, OneObject DEF x

\* A run that ends without a success leaves its room over, with its row or the
\* one before.
LEMMA RunEnds ==
  ASSUME RoomInv, NEW r \in Rooms, Playing(r), NEW w \in Works, Done(r, w),
         w.object.status \in {"failed", "timeout", "cancelled"}, w.object.task = "done",
         w.object.cancelled = room[r].cancelled,
         w.row = disk[r] \/ (w.row \in RoomRows /\ w.row.status = w.object.status),
         UNCHANGED <<listed, start, lock, manager, store, settled, uncleaned,
                     crashes>>,
         failures' \in 0 .. MaxOutages
  PROVE  RoomInv' /\ RowsAreFinal
<1>1. room[r] # None /\ room[r].task = "playing" /\ manager # "closed"
  BY DEF Playing, Runs
<1>2. /\ RowIsSound(disk[r]) /\ scope[r] \in Scopes /\ TypeOK
      /\ manager \notin {"down", "refused"}
      /\ disk[r].status \in {"running", "failed"}
      /\ room[r].cancelled => manager \notin {"open", "closing"}
  BY <1>1, LiveRoom
<1>3. w.object \in RoomObjects /\ w.row \in RoomRows \cup {None}
  BY DEF Works
<1> DEFINE budget == IF w.ok THEN "closed" ELSE scope[r]
<1>4. /\ room' = [room EXCEPT ![r] = w.object]
      /\ disk' = [disk EXCEPT ![r] = w.row]
      /\ scope' = [scope EXCEPT ![r] = budget]
      /\ budget \in Scopes
  BY <1>2 DEF Done, Scopes
<1> HIDE DEF budget
<1>5. RowIsSound(w.row)
  BY <1>2, CarriedIsSound
<1>6. RoomFits(w.object, w.row, budget, r \in listed, manager)
  BY <1>2, <1>3, OverFits
<1>7. manager' = manager /\ lock' = lock /\ settled' \subseteq Rooms
  BY <1>2 DEF TypeOK
<1>8. RowIsFinal(disk[r], w.row)
  BY <1>2, CarriedIsFinal
<1> QED BY <1>1, <1>2, <1>3, <1>4, <1>5, <1>6, <1>7, <1>8, OneObject

\* A verdict is saved with the end of its run.
LEMMA RunCompletesKeeps ==
  ASSUME RoomInv, NEW r \in Rooms, RunCompletes(r)
  PROVE  RoomInv' /\ RowsAreFinal
<1> DEFINE x == room[r]
<1>1. x # None /\ x.task = "playing" /\ manager # "closed" /\ ~x.cancelled
  BY DEF RunCompletes, Playing, Runs
<1>2. /\ x \in RoomObjects /\ scope[r] \in Scopes /\ TypeOK /\ store = "open"
      /\ manager \notin {"down", "refused"} /\ disk[r].status = "running"
  BY <1>1, LiveRoom
<1>3. PICK verdict \in Projections :
        /\ Fits(x, VerdictRows(verdict))
        /\ LET o == [x EXCEPT !.status = verdict, !.told = verdict, !.stamped = TRUE,
                              !.rows = @ + VerdictRows(verdict),
                              !.prepared = "none", !.task = "done"]
           IN  Done(r, [object |-> o, row |-> Saved(r, o), ok |-> TRUE])
  BY DEF RunCompletes
<1> DEFINE o == [x EXCEPT !.status = verdict, !.told = verdict, !.stamped = TRUE,
                          !.rows = @ + VerdictRows(verdict),
                          !.prepared = "none", !.task = "done"]
<1>4. /\ o \in RoomObjects /\ o.status = verdict /\ o.told = verdict /\ o.task = "done"
      /\ o.cancelled = x.cancelled
  <2>1. verdict \in Statuses
    BY DEF Projections, Statuses, Terminal, Success
  <2>2. x.rows + VerdictRows(verdict) \in 0 .. MaxEvidence
    BY <1>2, <1>3, LifecycleAssumption DEF Fits, VerdictRows, RoomObjects
  <2> QED BY <1>2, <2>1, <2>2 DEF RoomObjects
<1>5. Done(r, [object |-> o, row |-> Row(o), ok |-> TRUE])
  BY <1>2, <1>3 DEF Saved
<1> HIDE DEF o
<1>6. Row(o) \in RoomRows /\ Row(o).status = verdict /\ Row(o).told = verdict /\ Row(o) # None
  BY <1>4, RowTyped DEF Row
<1>7. /\ room' = [room EXCEPT ![r] = o]
      /\ disk' = [disk EXCEPT ![r] = Row(o)]
      /\ scope' = [scope EXCEPT ![r] = "closed"]
  BY <1>5 DEF Done
<1>8. RowIsSound(Row(o))
  BY <1>6 DEF RowIsSound, Projections
<1>9. RoomFits(o, Row(o), "closed", r \in listed, manager)
  BY <1>1, <1>4, <1>6 DEF RoomFits, WaitingFits, RunningFits, SuccessFits, Projections
<1>10. /\ UNCHANGED <<listed, start, store, uncleaned, crashes>>
       /\ manager' = manager /\ lock' = lock /\ settled' \subseteq Rooms
       /\ failures' \in 0 .. MaxOutages /\ "closed" \in Scopes
  BY <1>2 DEF RunCompletes, TypeOK, Scopes
<1>11. RowIsFinal(disk[r], Row(o))
  BY <1>2, CarriedIsFinal
<1> QED BY <1>1, <1>2, <1>4, <1>6, <1>7, <1>8, <1>9, <1>10, <1>11, OneObject

\* The evidence is full: the room fails without a row about it.
LEMMA LimitReachedKeeps ==
  ASSUME RoomInv, NEW r \in Rooms, LimitReached(r)
  PROVE  RoomInv' /\ RowsAreFinal
<1> DEFINE x == room[r]
           o == [x EXCEPT !.status = "failed", !.stamped = TRUE, !.prepared = "none",
                          !.task = "done"]
<1>1. Playing(r) /\ x # None /\ x.task = "playing" /\ manager # "closed"
  BY DEF LimitReached, Playing, Runs
<1>2. x \in RoomObjects /\ disk[r] \in RoomRows /\ TypeOK /\ store = "open"
  BY <1>1, LiveRoom
<1>3. /\ o \in RoomObjects /\ o.status = "failed" /\ o.task = "done"
      /\ o.cancelled = x.cancelled
  BY <1>2 DEF RoomObjects, Statuses, Terminal
<1>4. \E row \in {Row(o), disk[r]} : Done(r, [object |-> o, row |-> row, ok |-> TRUE])
  BY <1>2 DEF LimitReached, Saved
<1>5. failures' \in 0 .. MaxOutages
  BY <1>2, MaySaveTyped DEF LimitReached, TypeOK
<1>6. UNCHANGED <<listed, start, lock, manager, store, settled, uncleaned, crashes>>
  BY DEF LimitReached
<1> HIDE DEF o
<1>7. PICK row \in {Row(o), disk[r]} : Done(r, [object |-> o, row |-> row, ok |-> TRUE])
  BY <1>4
<1>8. row = disk[r] \/ (row \in RoomRows /\ row.status = "failed")
  BY <1>3, RowTyped
<1> DEFINE w == [object |-> o, row |-> row, ok |-> TRUE]
<1>9. w \in Works /\ w.object = o /\ w.row = row
  BY <1>2, <1>3, <1>8 DEF Works
<1>10. Done(r, w)
  BY <1>7
<1> HIDE DEF w, x
<1>11. w.object.cancelled = room[r].cancelled
  BY <1>3, <1>9 DEF x
<1> QED BY <1>1, <1>3, <1>5, <1>6, <1>8, <1>9, <1>10, <1>11, RunEnds

\* A failure or a time limit is announced, if that can be saved.
LEMMA RunFailsKeeps ==
  ASSUME RoomInv, NEW r \in Rooms, RunFails(r)
  PROVE  RoomInv' /\ RowsAreFinal
<1> DEFINE x == room[r]
<1>1. Playing(r) /\ x # None /\ x.task = "playing" /\ manager # "closed"
  BY DEF RunFails, Playing, Runs
<1>2. x \in RoomObjects /\ disk[r] \in RoomRows /\ TypeOK /\ store = "open"
  BY <1>1, LiveRoom
<1>3. PICK status \in {"failed", "timeout"}, n \in 0 .. 2 :
        /\ MaySave(n)
        /\ LET o == [room[r] EXCEPT !.status = status, !.prepared = "none", !.task = "done"]
           IN  Done(r, EmitStatus(r, EmitRow(r, Work(r, o), n = 1), n = 2))
  BY DEF RunFails
<1> DEFINE o == [x EXCEPT !.status = status, !.prepared = "none", !.task = "done"]
           u == Work(r, o)
           v == EmitRow(r, u, n = 1)
           w == EmitStatus(r, v, n = 2)
<1>4. /\ o \in RoomObjects /\ o.status = status /\ o.task = "done"
      /\ o.cancelled = x.cancelled
  BY <1>2 DEF RoomObjects, Statuses, Terminal
<1>5. Done(r, w)
  BY <1>3
<1>6. failures' \in 0 .. MaxOutages
  BY <1>2, <1>3, MaySaveTyped
<1>7. UNCHANGED <<listed, start, lock, manager, store, settled, uncleaned, crashes>>
  BY DEF RunFails
<1> HIDE DEF o, x
<1>8. u \in Works /\ u.object = o /\ u.row = disk[r]
  BY <1>2, <1>4, WorkTyped
<1> HIDE DEF u
<1>9. v \in Works /\ Carries(u, v)
  BY <1>2, <1>8, EmitRowTyped
<1> HIDE DEF v
<1>10. w \in Works /\ Carries(v, w)
  BY <1>2, <1>9, EmitStatusTyped
<1> HIDE DEF w
<1>11. Carries(u, w)
  BY <1>9, <1>10, CarriesOn
<1>12. /\ w.object.status = status /\ w.object.task = "done"
       /\ w.object.cancelled = room[r].cancelled
       /\ w.row = disk[r] \/ (w.row \in RoomRows /\ w.row.status = status)
  BY <1>4, <1>8, <1>11 DEF Carries, x
<1> QED BY <1>1, <1>3, <1>5, <1>6, <1>7, <1>10, <1>12, RunEnds

\* So is the end of a run that was cancelled.
LEMMA RunCancelledKeeps ==
  ASSUME RoomInv, NEW r \in Rooms, RunCancelled(r)
  PROVE  RoomInv' /\ RowsAreFinal
<1> DEFINE x == room[r]
<1>1. Playing(r) /\ x # None /\ x.task = "playing" /\ manager # "closed"
  BY DEF RunCancelled, Playing, Runs
<1>2. x \in RoomObjects /\ disk[r] \in RoomRows /\ TypeOK /\ store = "open"
  BY <1>1, LiveRoom
<1>3. PICK status \in {"failed", "cancelled"}, n \in 0 .. 1 :
        /\ MaySave(n)
        /\ LET o == [room[r] EXCEPT !.status = status, !.prepared = "none", !.task = "done"]
           IN  Done(r, EmitStatus(r, Work(r, o), n = 1))
  BY DEF RunCancelled
<1> DEFINE o == [x EXCEPT !.status = status, !.prepared = "none", !.task = "done"]
           u == Work(r, o)
           w == EmitStatus(r, u, n = 1)
<1>4. /\ o \in RoomObjects /\ o.status = status /\ o.task = "done"
      /\ o.cancelled = x.cancelled
  BY <1>2 DEF RoomObjects, Statuses, Terminal
<1>5. Done(r, w)
  BY <1>3
<1>6. failures' \in 0 .. MaxOutages
  BY <1>2, <1>3, MaySaveTyped
<1>7. UNCHANGED <<listed, start, lock, manager, store, settled, uncleaned, crashes>>
  BY DEF RunCancelled
<1> HIDE DEF o, x
<1>8. u \in Works /\ u.object = o /\ u.row = disk[r]
  BY <1>2, <1>4, WorkTyped
<1> HIDE DEF u
<1>9. w \in Works /\ Carries(u, w)
  BY <1>2, <1>8, EmitStatusTyped
<1> HIDE DEF w
<1>10. /\ w.object.status = status /\ w.object.task = "done"
       /\ w.object.cancelled = room[r].cancelled
       /\ w.row = disk[r] \/ (w.row \in RoomRows /\ w.row.status = status)
  BY <1>4, <1>8, <1>9 DEF Carries, x
<1> QED BY <1>1, <1>3, <1>5, <1>6, <1>7, <1>9, <1>10, RunEnds

-----------------------------------------------------------------------------
(* Rooms come and go.                                                       *)

\* aclose finds out what became of a room, and says so if that can be saved.
LEMMA CloseSettlesKeeps ==
  ASSUME RoomInv, NEW r \in Rooms, CloseSettles(r)
  PROVE  RoomInv' /\ RowsAreFinal
<1> DEFINE x == room[r]
           live == x.task \in {"new", "playing"}
           bad == live \/ r \in uncleaned
<1>1. manager = "settling" /\ r \in listed /\ settled' = settled \cup {r}
  BY DEF CloseSettles
<1>2. TypeOK /\ x # None /\ store = "open"
  BY <1>1 DEF RoomInv, ProcessEnds, TypeOK
<1>3. /\ x \in RoomObjects /\ disk[r] \in RoomRows \cup {None} /\ scope[r] \in Scopes
      /\ RowIsSound(disk[r]) /\ RoomFits(x, disk[r], scope[r], r \in listed, manager)
  BY <1>2 DEF TypeOK, RoomInv, Scopes
<1>4. CleanupFailed(r) <=> bad
  BY <1>2 DEF CleanupFailed, Live
<1> DEFINE failed == [x EXCEPT !.status = "failed"]
           gone == [x EXCEPT !.status = "cancelled"]
           settling(n) ==
             IF bad
               THEN EmitStatus(r, EmitRow(r, EmitRow(r, Work(r, failed), n = 1), n = 2), n = 3)
             ELSE IF x.status = "running" THEN EmitStatus(r, Work(r, gone), n = 1)
             ELSE Work(r, x)
<1>5. PICK n \in 0 .. 3 :
        /\ MaySave(n)
        /\ room' = [room EXCEPT ![r] = settling(n).object]
        /\ disk' = [disk EXCEPT ![r] = settling(n).row]
        /\ scope' = [scope EXCEPT ![r] = IF settling(n).ok /\ (bad \/ x.status = "running")
                                           THEN "closed" ELSE @]
        /\ manager' = IF settling(n).ok THEN manager ELSE "closed"
        /\ lock' = IF settling(n).ok THEN lock ELSE None
  BY <1>4 DEF CloseSettles
<1> DEFINE w == settling(n)
<1>6. /\ failed \in RoomObjects /\ failed.status = "failed" /\ failed.task = x.task
      /\ failed.cancelled = x.cancelled /\ failed.prepared = x.prepared
      /\ gone \in RoomObjects /\ gone.status = "cancelled" /\ gone.task = x.task
      /\ gone.cancelled = x.cancelled /\ gone.prepared = x.prepared
  BY <1>3 DEF RoomObjects, Statuses, Terminal
<1> DEFINE o == IF bad THEN failed ELSE IF x.status = "running" THEN gone ELSE x
<1>7. w \in Works /\ Carries(Work(r, o), w) /\ ((~bad /\ x.status # "running") => w = Work(r, o))
  <2> HIDE DEF failed, gone
  <2>1. CASE bad
    <3> DEFINE w0 == Work(r, failed)
               w1 == EmitRow(r, w0, n = 1)
               w2 == EmitRow(r, w1, n = 2)
               w3 == EmitStatus(r, w2, n = 3)
    <3>1. w = w3 /\ w0 = Work(r, o)
      BY <2>1
    <3>2. w0 \in Works
      BY <1>3, <1>6, WorkTyped
    <3> HIDE DEF w0
    <3>3. w1 \in Works /\ Carries(w0, w1)
      BY <1>2, <3>2, EmitRowTyped
    <3> HIDE DEF w1
    <3>4. w2 \in Works /\ Carries(w1, w2)
      BY <1>2, <3>3, EmitRowTyped
    <3> HIDE DEF w2
    <3>5. w3 \in Works /\ Carries(w2, w3)
      BY <1>2, <3>4, EmitStatusTyped
    <3> HIDE DEF w3
    <3>6. Carries(w0, w3)
      BY <3>3, <3>4, <3>5, CarriesOn
    <3> QED BY <2>1, <3>1, <3>5, <3>6
  <2>2. CASE ~bad /\ x.status = "running"
    <3> DEFINE w0 == Work(r, gone)
               w1 == EmitStatus(r, w0, n = 1)
    <3>1. w = w1 /\ w0 = Work(r, o)
      BY <2>2
    <3>2. w0 \in Works
      BY <1>3, <1>6, WorkTyped
    <3> HIDE DEF w0
    <3>3. w1 \in Works /\ Carries(w0, w1)
      BY <1>2, <3>2, EmitStatusTyped
    <3> HIDE DEF w1
    <3> QED BY <2>2, <3>1, <3>3
  <2>3. CASE ~bad /\ x.status # "running"
    <3>1. w = Work(r, x) /\ Work(r, o) = Work(r, x)
      BY <2>3
    <3>2. Work(r, x) \in Works
      BY <1>3, WorkTyped
    <3> QED BY <3>1, <3>2 DEF Carries
  <2> QED BY <2>1, <2>2, <2>3
<1>8. o \in RoomObjects
  BY <1>3, <1>6
<1>9. Work(r, o).object = o /\ Work(r, o).row = disk[r]
  BY <1>3, <1>8, WorkTyped
<1> DEFINE budget == IF w.ok /\ (bad \/ x.status = "running") THEN "closed" ELSE scope[r]
<1>10. /\ room' = [room EXCEPT ![r] = w.object]
       /\ disk' = [disk EXCEPT ![r] = w.row]
       /\ scope' = [scope EXCEPT ![r] = budget]
       /\ budget \in Scopes
       /\ (~bad /\ x.status # "running") => budget = scope[r]
       /\ manager' \in {manager, "closed"} /\ lock' \in {lock, None}
  BY <1>3, <1>5 DEF Scopes
<1>11. /\ UNCHANGED <<listed, start, store, uncleaned, crashes>> /\ settled' \subseteq Rooms
       /\ failures' \in 0 .. MaxOutages
  BY <1>1, <1>2, <1>5, MaySaveTyped DEF CloseSettles, TypeOK
<1> HIDE DEF settling, failed, gone, w, budget, x
<1>12. /\ w.object \in RoomObjects /\ w.row \in RoomRows \cup {None}
       /\ w.object.status = o.status /\ w.object.task = o.task
       /\ w.object.cancelled = o.cancelled /\ w.object.prepared = o.prepared
       /\ w.row = disk[r] \/ (w.row \in RoomRows /\ w.row.status = o.status)
  BY <1>7, <1>9 DEF Works, Carries
<1>13. CASE live
  <2>1. o.status = "failed" /\ o.task = x.task /\ o.cancelled = x.cancelled
    BY <1>6, <1>13
  <2>2. x.cancelled /\ disk[r] # None /\ disk[r].status \in {"running", "failed"}
    BY <1>1, <1>2, <1>3, <1>13 DEF RoomFits, RunningFits
  <2>3. w.row # None /\ w.row.status \in {"running", "failed"}
    BY <1>12, <2>1, <2>2, NoneAssumption
  <2>4. RowIsSound(w.row)
    BY <2>3 DEF RowIsSound, Success
  <2>5. RoomFits(w.object, w.row, budget, r \in listed, manager')
    BY <1>1, <1>10, <1>12, <2>1, <2>2, <2>3
       DEF RoomFits, WaitingFits, RunningFits, SuccessFits, Success
  <2>6. ~(x.task = "none")
    BY <1>13
  <2>7. RowIsFinal(disk[r], w.row)
    BY <1>12, <2>1, <2>2, CarriedIsFinal
  <2> QED BY <1>1, <1>2, <1>10, <1>11, <1>12, <2>4, <2>5, <2>6, <2>7, OneObject DEF x
<1>14. CASE ~live /\ r \in uncleaned
  <2>1. o.status = "failed" /\ o.task = x.task /\ o.cancelled = x.cancelled
    BY <1>6, <1>14
  <2>2. RowIsSound(w.row)
    BY <1>3, <1>12, <2>1, CarriedIsSound
  <2>3. w.object.task \in {"none", "done"}
    BY <1>3, <1>12, <1>14, <2>1 DEF RoomObjects
  <2>4. RoomFits(w.object, w.row, budget, r \in listed, manager')
    BY <1>1, <1>10, <1>12, <2>1, <2>3, OverFits
  <2>5. RowIsFinal(disk[r], w.row) \/ TakenBack(r, w.row)
    BY <1>1, <1>12, <1>14, <2>1, CarriedIsFinal DEF TakenBack
  <2>6. x.task = "none" => w.object.status = "failed" /\ w.object.task = "none"
    BY <1>12, <2>1
  <2> HIDE DEF o
  <2> QED BY <1>1, <1>2, <1>10, <1>11, <1>12, <2>2, <2>4, <2>5, <2>6, OneObject DEF x
<1>15. CASE ~bad /\ x.status = "running"
  <2>1. o.status = "cancelled" /\ o.task = x.task /\ o.cancelled = x.cancelled
    BY <1>6, <1>15
  <2>2. RowIsSound(w.row)
    BY <1>3, <1>12, <2>1, CarriedIsSound
  <2>3. w.object.task \in {"none", "done"}
    BY <1>3, <1>12, <1>15, <2>1 DEF RoomObjects
  <2>4. RoomFits(w.object, w.row, budget, r \in listed, manager')
    BY <1>1, <1>10, <1>12, <2>1, <2>3, OverFits
  <2>5. x.status # "failed"
    BY <1>15
  <2>6. disk[r].status = "running"
    BY <1>3, <1>2, <1>15 DEF RoomFits, RunningFits
  <2>7. RowIsFinal(disk[r], w.row)
    BY <2>6, CarriedIsFinal
  <2> QED BY <1>1, <1>2, <1>10, <1>11, <1>12, <2>2, <2>4, <2>5, <2>7, OneObject DEF x
<1>16. CASE ~bad /\ x.status # "running"
  <2>1. w.object = x /\ w.row = disk[r] /\ budget = scope[r]
    BY <1>7, <1>9, <1>10, <1>16
  <2>2. RoomFits(x, disk[r], scope[r], r \in listed, manager')
    BY <1>1, <1>3, <1>10, <1>16 DEF RoomFits, WaitingFits, RunningFits, SuccessFits
  <2>3. RowIsFinal(disk[r], disk[r])
    BY CarriedIsFinal
  <2> QED BY <1>1, <1>2, <1>3, <1>10, <1>11, <2>1, <2>2, <2>3, OneObject DEF x
<1> QED BY <1>13, <1>15, <1>16, <1>14

\* A room is created with its row, or not at all.
LEMMA CreateRoomKeeps ==
  ASSUME RoomInv, NEW r \in Rooms, CreateRoom(r)
  PROVE  RoomInv' /\ RowsAreFinal
<1>1. /\ TypeOK /\ manager = "open" /\ room[r] = None /\ disk[r] = None /\ store = "open"
      /\ StartsHold
  BY DEF RoomInv, ProcessEnds, TypeOK, CreateRoom
<1>2. /\ UNCHANGED <<start, lock, manager, store, settled, uncleaned, crashes>>
      /\ failures' \in 0 .. MaxOutages
  <2>1. PICK n \in 0 .. 1 : MaySave(n)
    BY DEF CreateRoom
  <2>2. failures' \in 0 .. MaxOutages
    BY <1>1, <2>1, MaySaveTyped
  <2> QED BY <2>2 DEF CreateRoom
<1>3. RowIsFinal(disk[r], disk'[r])
  BY <1>1 DEF RowIsFinal
<1>4. CASE /\ room' = [room EXCEPT ![r] = NewRoom] /\ listed' = listed \cup {r}
           /\ disk' = [disk EXCEPT ![r] = Saved(r, NewRoom)]
           /\ scope' = [scope EXCEPT ![r] = "open"]
  <2>1. /\ NewRoom \in RoomObjects /\ NewRoom # None
        /\ Row(NewRoom) \in RoomRows /\ Saved(r, NewRoom) = Row(NewRoom)
    BY <1>1, NewRoomTyped DEF Saved
  <2>2. TypeOK'
    <3>1. room' \in [Rooms -> RoomObjects \cup {None}] /\ disk' \in [Rooms -> RoomRows \cup {None}]
      BY <1>1, <1>4, <2>1 DEF TypeOK
    <3>2. scope' \in [Rooms -> {"none", "open", "closed"}]
      BY <1>1, <1>4 DEF TypeOK
    <3>3. listed' \subseteq {q \in Rooms : room'[q] # None}
      BY <1>1, <1>4, <2>1 DEF TypeOK
    <3> QED BY <1>1, <1>2, <3>1, <3>2, <3>3 DEF TypeOK
  <2>3. StartsHold'
    BY <1>1, <1>2, <1>4, <2>1 DEF StartsHold, TypeOK
  <2>4. /\ room'[r] = NewRoom /\ disk'[r] = Row(NewRoom) /\ scope'[r] = "open" /\ r \in listed'
        /\ \A q \in Rooms \ {r} :
             /\ room'[q] = room[q] /\ disk'[q] = disk[q] /\ scope'[q] = scope[q]
             /\ q \in listed' <=> q \in listed
    BY <1>1, <1>4, <2>1 DEF TypeOK
  <2>5. RowIsSound(Row(NewRoom))
    BY NewRoomTyped DEF RowIsSound, Success
  <2>6. RoomFits(NewRoom, Row(NewRoom), "open", TRUE, manager')
    BY DEF RoomFits, WaitingFits, RunningFits, SuccessFits, Success, NewRoom
  <2>7. RoomFits(room'[r], disk'[r], scope'[r], r \in listed', manager')
    BY <2>4, <2>6
  <2> QED BY <1>1, <1>2, <1>3, <2>2, <2>3, <2>4, <2>5, <2>7, OneRoom
<1>5. CASE scope' = [scope EXCEPT ![r] = "closed"] /\ UNCHANGED <<room, listed, disk>>
  <2>1. TypeOK' /\ StartsHold'
    BY <1>1, <1>2, <1>5 DEF TypeOK, StartsHold
  <2>2. /\ room'[r] = None /\ disk'[r] = None
        /\ \A q \in Rooms \ {r} :
             /\ room'[q] = room[q] /\ disk'[q] = disk[q] /\ scope'[q] = scope[q]
             /\ q \in listed' <=> q \in listed
    BY <1>1, <1>5 DEF TypeOK
  <2>3. RowIsSound(disk'[r]) /\ RoomFits(room'[r], disk'[r], scope'[r], r \in listed', manager')
    BY <2>2 DEF RowIsSound, RoomFits
  <2> QED BY <1>1, <1>2, <1>3, <2>1, <2>2, <2>3, OneRoom
<1> QED BY <1>4, <1>5 DEF CreateRoom

\* A room that is removed has no row and no task.
LEMMA RemoveKeeps ==
  ASSUME RoomInv, NEW r \in Rooms, r \in listed, Remove(r), ~Live(r),
         room[r].status # "running", manager \notin {"down", "refused"}
  PROVE  RoomInv' /\ RowsAreFinal
<1>1. TypeOK /\ StartsHold /\ room[r] # None
  BY DEF RoomInv, TypeOK
<1>2. /\ room'[r] = IF \E c \in Calls : start[c].of = r THEN room[r] ELSE None
      /\ disk'[r] = None /\ scope'[r] = "closed" /\ r \notin listed'
      /\ \A q \in Rooms \ {r} :
           /\ room'[q] = room[q] /\ disk'[q] = disk[q] /\ scope'[q] = scope[q]
           /\ q \in listed' <=> q \in listed
  BY <1>1 DEF TypeOK, Remove
<1>3. UNCHANGED <<start, lock, manager, store, settled, uncleaned, failures,
                  crashes>>
  BY DEF Remove
<1>4. TypeOK'
  <2>1. room' \in [Rooms -> RoomObjects \cup {None}] /\ disk' \in [Rooms -> RoomRows \cup {None}]
    BY <1>1 DEF TypeOK, Remove
  <2>2. scope' \in [Rooms -> {"none", "open", "closed"}]
    BY <1>1 DEF TypeOK, Remove
  <2>3. listed' \subseteq {q \in Rooms : room'[q] # None}
    BY <1>1, <1>2 DEF TypeOK, Remove
  <2> QED BY <1>1, <1>3, <2>1, <2>2, <2>3 DEF TypeOK
<1>5. StartsHold'
  <2> SUFFICES ASSUME NEW c \in Calls
               PROVE  /\ start[c].at = "idle" <=> start[c] = Idle
                      /\ start[c] # Idle => start[c].of \in Rooms /\ room'[start[c].of] # None
                      /\ start[c].at = "failing" => /\ room'[start[c].of].status = "failed"
                                                    /\ room'[start[c].of].task = "none"
    BY <1>3 DEF StartsHold
  <2>1. /\ start[c].at = "idle" <=> start[c] = Idle
        /\ start[c] # Idle => start[c].of \in Rooms /\ room[start[c].of] # None
        /\ start[c].at = "failing" => /\ room[start[c].of].status = "failed"
                                      /\ room[start[c].of].task = "none"
    BY <1>1 DEF StartsHold
  <2>2. start[c] # Idle => room'[start[c].of] = room[start[c].of]
    BY <1>2, <2>1
  <2>3. start[c].at = "failing" => start[c] # Idle
    BY <2>1
  <2> QED BY <2>1, <2>2, <2>3
<1>6. RoomFits(room[r], disk[r], scope[r], TRUE, manager)
  BY DEF RoomInv
<1>7. RoomFits(room'[r], disk'[r], scope'[r], r \in listed', manager')
  <2>1. RoomFits(room[r], None, "closed", FALSE, manager)
    BY <1>1, <1>6 DEF RoomFits, WaitingFits, RunningFits, SuccessFits, Live
  <2>2. RoomFits(None, None, "closed", FALSE, manager)
    BY DEF RoomFits
  <2>3. (r \in listed') = FALSE /\ manager' = manager
    BY <1>2, <1>3
  <2>4. CASE \E c \in Calls : start[c].of = r
    BY <1>2, <2>1, <2>3, <2>4
  <2>5. CASE ~\E c \in Calls : start[c].of = r
    BY <1>2, <2>2, <2>3, <2>5
  <2> QED BY <2>4, <2>5
<1>8. RowIsSound(disk'[r]) /\ RowIsFinal(disk[r], disk'[r])
  BY <1>2 DEF RowIsSound, RowIsFinal
<1> QED BY <1>2, <1>3, <1>4, <1>5, <1>7, <1>8, OneRoom

\* A room is deleted.
LEMMA DeleteRoomKeeps ==
  ASSUME RoomInv, NEW r \in Rooms, DeleteRoom(r)
  PROVE  RoomInv' /\ RowsAreFinal
BY RemoveKeeps DEF DeleteRoom

\* A room expires, or gets the stamp that it lacks.
LEMMA ExpireRoomKeeps ==
  ASSUME RoomInv, NEW r \in Rooms, ExpireRoom(r)
  PROVE  RoomInv' /\ RowsAreFinal
<1>1. /\ r \in listed /\ ~Live(r) /\ room[r].status \in Terminal
      /\ manager \notin {"down", "refused"}
  BY DEF ExpireRoom, Runs
<1>2. room[r].status # "running"
  BY <1>1 DEF Terminal, Success
<1>3. CASE room[r].stamped
  <2>1. Remove(r)
    BY <1>3 DEF ExpireRoom
  <2> QED BY <1>1, <1>2, <2>1, RemoveKeeps
<1>4. CASE ~room[r].stamped
  <2> DEFINE o == [room[r] EXCEPT !.stamped = TRUE]
  <2>1. /\ TypeOK /\ room[r] # None /\ room[r] \in RoomObjects /\ scope[r] \in Scopes
        /\ disk[r] \in RoomRows \cup {None} /\ RowIsSound(disk[r])
        /\ RoomFits(room[r], disk[r], scope[r], r \in listed, manager)
    BY <1>1 DEF RoomInv, TypeOK, Scopes
  <2>2. /\ o \in RoomObjects /\ o.status = room[r].status /\ o.task = room[r].task
        /\ o.cancelled = room[r].cancelled /\ o.prepared = room[r].prepared
    BY <2>1 DEF RoomObjects
  <2>3. room' = [room EXCEPT ![r] = o]
    BY <1>4 DEF ExpireRoom
  <2> HIDE DEF o
  <2>4. o.status # "waiting"
    BY <1>1, <2>2 DEF Terminal, Success
  <2>5. RoomFits(o, disk[r], scope[r], r \in listed, manager)
    BY <2>1, <2>2, <2>4 DEF RoomFits, WaitingFits, RunningFits, SuccessFits
  <2>6. /\ disk' = [disk EXCEPT ![r] = disk[r]]
        /\ scope' = [scope EXCEPT ![r] = scope[r]]
        /\ UNCHANGED <<listed, start, store, uncleaned, crashes>>
        /\ manager' = manager /\ lock' = lock /\ settled' \subseteq Rooms
        /\ failures' \in 0 .. MaxOutages
    BY <1>4, <2>1 DEF ExpireRoom, TypeOK
  <2>7. RowIsFinal(disk[r], disk[r])
    BY CarriedIsFinal
  <2> QED BY <1>1, <2>1, <2>2, <2>3, <2>5, <2>6, <2>7, OneObject
<1> QED BY <1>3, <1>4

-----------------------------------------------------------------------------
(* A start.                                                                 *)

\* Every call that is under way holds a room.
LEMMA StartHolds ==
  ASSUME RoomInv, NEW c \in Calls, start[c].at # "idle"
  PROVE  /\ TypeOK /\ StartsHold
         /\ start[c].of \in Rooms /\ room[start[c].of] # None
         /\ room[start[c].of] \in RoomObjects
         /\ manager \notin {"down", "refused"}
         /\ \A d \in Calls : start[d] # Idle => start[d].of \in Rooms
         /\ start[c].at = "failing" =>
              room[start[c].of].status = "failed" /\ room[start[c].of].task = "none"
<1>1. TypeOK /\ StartsHold /\ ProcessEnds
  BY DEF RoomInv
<1>2. start[c] # Idle
  BY <1>1 DEF StartsHold
<1>3. start[c].of \in Rooms /\ room[start[c].of] # None
  BY <1>1, <1>2 DEF StartsHold
<1>4. room[start[c].of] \in RoomObjects
  BY <1>1, <1>3, ObjectTyped
<1>5. manager \notin {"down", "refused"}
  BY <1>1, <1>3 DEF ProcessEnds
<1> QED BY <1>1, <1>3, <1>4, <1>5 DEF StartsHold

\* A start is requested.
LEMMA RequestStartKeeps ==
  ASSUME RoomInv, NEW r \in Rooms, NEW c \in Calls, RequestStart(c, r)
  PROVE  RoomInv' /\ RowsAreFinal
<1>1. /\ TypeOK /\ StartsHold /\ room[r] # None /\ manager \notin {"down", "refused"}
      /\ start' = [start EXCEPT ![c] = [at |-> "queued", of |-> r]]
      /\ UNCHANGED <<room, listed, disk, scope, lock, manager, store, settled,
                     uncleaned, failures,
                     crashes>>
  BY DEF RoomInv, TypeOK, RequestStart
<1>2. start'[c] = [at |-> "queued", of |-> r] /\ \A d \in Calls \ {c} : start'[d] = start[d]
  BY <1>1 DEF TypeOK
<1>3. TypeOK'
  <2>1. start' \in [Calls -> [at : {"idle", "queued", "closing", "failing"},
                              of : Rooms \cup {None}]]
    BY <1>1 DEF TypeOK
  <2> QED BY <1>1, <2>1 DEF TypeOK
<1>4. StartsHold'
  <2>1. start'[c].at = "queued" /\ start'[c].of = r /\ start'[c] # Idle
    BY <1>2 DEF Idle
  <2> QED BY <1>1, <1>2, <2>1 DEF StartsHold
<1>5. /\ RowIsSound(disk'[r]) /\ RowIsFinal(disk[r], disk'[r])
      /\ RoomFits(room'[r], disk'[r], scope'[r], r \in listed', manager')
  BY <1>1, CarriedIsFinal DEF RoomInv
<1> QED BY <1>1, <1>3, <1>4, <1>5, OneRoom

\* A start that raises lets go of a room that is gone.
LEMMA RaisesKeeps ==
  ASSUME RoomInv, NEW c \in Calls, start[c].at # "idle", Raises(c),
         UNCHANGED <<listed, disk, scope, manager, store, settled, uncleaned,
                     failures, crashes>>,
         lock' \in {lock, None}
  PROVE  RoomInv' /\ RowsAreFinal
<1> DEFINE r == start[c].of
<1>1. /\ TypeOK /\ StartsHold /\ r \in Rooms /\ room[r] # None
      /\ manager \notin {"down", "refused"}
  BY StartHolds
<1>2. start' = [start EXCEPT ![c] = Idle]
  BY DEF Raises
<1>3. PICK o \in {room[r], None} :
        /\ room' = [room EXCEPT ![r] = o]
        /\ r \in listed \/ (\E d \in Calls \ {c} : start[d].of = r) => o = room[r]
  BY DEF Raises
<1> HIDE DEF r
<1>4. /\ start'[c] = Idle /\ room'[r] = o
      /\ \A d \in Calls \ {c} : start'[d] = start[d]
      /\ \A q \in Rooms \ {r} : room'[q] = room[q]
  BY <1>1, <1>2, <1>3 DEF TypeOK
<1>5. TypeOK'
  <2>1. Idle \in [at : {"idle", "queued", "closing", "failing"}, of : Rooms \cup {None}]
    BY DEF Idle
  <2>2. start' \in [Calls -> [at : {"idle", "queued", "closing", "failing"},
                              of : Rooms \cup {None}]]
    BY <1>1, <1>2, <2>1 DEF TypeOK
  <2>3. room' \in [Rooms -> RoomObjects \cup {None}]
    BY <1>1, <1>3 DEF TypeOK
  <2>4. listed' \subseteq {q \in Rooms : room'[q] # None}
    BY <1>1, <1>3, <1>4 DEF TypeOK
  <2>5. lock' \in Calls \cup {"aclose", None}
    BY <1>1 DEF TypeOK
  <2> QED BY <1>1, <2>2, <2>3, <2>4, <2>5 DEF TypeOK
<1>6. StartsHold'
  <2> SUFFICES ASSUME NEW d \in Calls
               PROVE  /\ start'[d].at = "idle" <=> start'[d] = Idle
                      /\ start'[d] # Idle =>
                           start'[d].of \in Rooms /\ room'[start'[d].of] # None
                      /\ start'[d].at = "failing" => /\ room'[start'[d].of].status = "failed"
                                                     /\ room'[start'[d].of].task = "none"
    BY DEF StartsHold, Idle
  <2>1. CASE d = c
    BY <1>4, <2>1 DEF Idle
  <2>2. CASE d # c
    <3>1. /\ start[d].at = "idle" <=> start[d] = Idle
          /\ start[d] # Idle => start[d].of \in Rooms /\ room[start[d].of] # None
          /\ start[d].at = "failing" => /\ room[start[d].of].status = "failed"
                                        /\ room[start[d].of].task = "none"
      BY <1>1 DEF StartsHold
    <3>2. start'[d] = start[d]
      BY <1>4, <2>2
    <3>3. start[d] # Idle => room'[start[d].of] = room[start[d].of]
      BY <1>3, <1>4, <2>2, <3>1
    <3>4. start[d].at = "failing" => start[d] # Idle
      BY <3>1
    <3> QED BY <3>1, <3>2, <3>3, <3>4
  <2> QED BY <2>1, <2>2
<1>7. RoomFits(room'[r], disk'[r], scope'[r], r \in listed', manager')
  <2>1. RoomFits(room[r], disk[r], scope[r], r \in listed, manager)
    BY <1>1 DEF RoomInv
  <2>2. RoomFits(None, disk[r], scope[r], r \in listed, manager)
    BY DEF RoomFits
  <2> QED BY <1>3, <1>4, <2>1, <2>2
<1>8. RowIsSound(disk'[r]) /\ RowIsFinal(disk[r], disk'[r])
  BY <1>1, CarriedIsFinal DEF RoomInv
<1> QED BY <1>1, <1>4, <1>5, <1>6, <1>7, <1>8, OneRoom

\* A start is refused, and one that was rolled back comes to its end.
LEMMA StartRefusedKeeps ==
  ASSUME RoomInv, NEW c \in Calls, StartRefused(c) \/ StartClosed(c)
  PROVE  RoomInv' /\ RowsAreFinal
<1>1. /\ start[c].at # "idle" /\ Raises(c) /\ lock' \in {lock, None}
      /\ UNCHANGED <<listed, disk, scope, manager, store, settled, uncleaned,
                     failures, crashes>>
  BY DEF StartRefused, StartClosed, HasLock
<1> QED BY <1>1, RaisesKeeps

\* A step of a start that gives its room the object o, the row and the budget
\* scope, and leaves the call at s.
LEMMA OneStart ==
  ASSUME RoomInv, NEW c \in Calls, start[c].at # "idle", NEW r, r = start[c].of,
         NEW o \in RoomObjects, NEW row \in RoomRows \cup {None}, NEW budget \in Scopes,
         NEW s \in [at : {"idle", "queued", "closing", "failing"}, of : Rooms \cup {None}],
         s = Idle \/ (s.of = r /\ s.at \in {"closing", "failing"}),
         s.at = "failing" => o.status = "failed" /\ o.task = "none",
         room[r].status = "failed" /\ room[r].task = "none" =>
           o.status = "failed" /\ o.task = "none",
         room' = [room EXCEPT ![r] = o],
         disk' = [disk EXCEPT ![r] = row],
         scope' = [scope EXCEPT ![r] = budget],
         start' = [start EXCEPT ![c] = s],
         UNCHANGED <<listed, manager, store, settled, uncleaned, crashes>>,
         lock' \in {lock, c, None}, failures' \in 0 .. MaxOutages,
         RowIsSound(row), RowIsFinal(disk[r], row),
         RoomFits(o, row, budget, r \in listed, manager)
  PROVE  RoomInv' /\ RowsAreFinal
<1>1. /\ TypeOK /\ StartsHold /\ r \in Rooms /\ room[r] # None
      /\ manager \notin {"down", "refused"} /\ o # None
  BY StartHolds, RowTyped
<1>2. /\ room'[r] = o /\ disk'[r] = row /\ scope'[r] = budget /\ start'[c] = s
      /\ \A d \in Calls \ {c} : start'[d] = start[d]
      /\ \A q \in Rooms \ {r} : room'[q] = room[q] /\ disk'[q] = disk[q] /\ scope'[q] = scope[q]
  BY <1>1 DEF TypeOK
<1>3. TypeOK'
  <2>1. room' \in [Rooms -> RoomObjects \cup {None}] /\ disk' \in [Rooms -> RoomRows \cup {None}]
    BY <1>1 DEF TypeOK
  <2>2. scope' \in [Rooms -> {"none", "open", "closed"}]
    BY <1>1 DEF TypeOK, Scopes
  <2>3. start' \in [Calls -> [at : {"idle", "queued", "closing", "failing"},
                              of : Rooms \cup {None}]]
    BY <1>1 DEF TypeOK
  <2>4. listed' \subseteq {q \in Rooms : room'[q] # None}
    BY <1>1, <1>2 DEF TypeOK
  <2>5. lock' \in Calls \cup {"aclose", None}
    BY <1>1 DEF TypeOK
  <2> QED BY <1>1, <2>1, <2>2, <2>3, <2>4, <2>5 DEF TypeOK
<1>4. StartsHold'
  <2> SUFFICES ASSUME NEW d \in Calls
               PROVE  /\ start'[d].at = "idle" <=> start'[d] = Idle
                      /\ start'[d] # Idle =>
                           start'[d].of \in Rooms /\ room'[start'[d].of] # None
                      /\ start'[d].at = "failing" => /\ room'[start'[d].of].status = "failed"
                                                     /\ room'[start'[d].of].task = "none"
    BY DEF StartsHold, Idle
  <2>1. CASE d = c
    BY <1>1, <1>2, <2>1 DEF Idle
  <2>2. CASE d # c
    <3>1. /\ start[d].at = "idle" <=> start[d] = Idle
          /\ start[d] # Idle => start[d].of \in Rooms /\ room[start[d].of] # None
          /\ start[d].at = "failing" => /\ room[start[d].of].status = "failed"
                                        /\ room[start[d].of].task = "none"
      BY <1>1 DEF StartsHold
    <3>2. start'[d] = start[d]
      BY <1>2, <2>2
    <3>3. start[d].at = "failing" => start[d] # Idle
      BY <3>1
    <3>4. CASE start[d].of = r
      BY <1>1, <1>2, <3>1, <3>2, <3>4
    <3>5. CASE start[d].of # r
      BY <1>2, <3>1, <3>2, <3>3, <3>5
    <3> QED BY <3>4, <3>5
  <2> QED BY <2>1, <2>2
<1>5. RoomFits(room'[r], disk'[r], scope'[r], r \in listed', manager')
  BY <1>2
<1> QED BY <1>1, <1>2, <1>3, <1>4, <1>5, OneRoom

\* What a room that can be started is like, and what it can become.
LEMMA StartableRoom ==
  ASSUME RoomInv, NEW c \in Calls, Startable(c), NEW r, r = start[c].of
  PROVE  /\ start[c].at # "idle" /\ manager = "open" /\ store = "open"
         /\ TypeOK /\ r \in Rooms /\ room[r] = NewRoom
         /\ disk[r] \in RoomRows \cup {None} /\ scope[r] \in Scopes
         /\ RowIsSound(disk[r]) /\ (disk[r] = None \/ disk[r].status = "waiting")
         /\ r \in listed => scope[r] = "open"
         /\ RoomFits(room[r], disk[r], scope[r], r \in listed, manager)
<1>1. start[c].at # "idle" /\ manager = "open" /\ room[r].status = "waiting"
  BY DEF Startable, HasLock
<1>2. TypeOK /\ r \in Rooms /\ room[r] # None
  BY <1>1, StartHolds
<1>3. store = "open"
  BY <1>1, <1>2 DEF RoomInv, ProcessEnds, TypeOK
<1>4. /\ RowIsSound(disk[r]) /\ RoomFits(room[r], disk[r], scope[r], r \in listed, manager)
      /\ disk[r] \in RoomRows \cup {None} /\ scope[r] \in Scopes
  BY <1>2 DEF RoomInv, TypeOK, Scopes
<1>5. /\ room[r] = NewRoom
      /\ disk[r] = IF r \in listed THEN Row(NewRoom) ELSE None
      /\ r \in listed => scope[r] = "open"
  BY <1>1, <1>2, <1>4 DEF RoomFits, WaitingFits
<1> QED BY <1>1, <1>2, <1>3, <1>4, <1>5, NewRoomTyped

\* The room with its graph, when there is place for one row more.
LEMMA PublishedTyped ==
  ASSUME Fits(Published(NewRoom), 1)
  PROVE  /\ Published(NewRoom) \in RoomObjects /\ Published(NewRoom).status = "running"
         /\ Published(NewRoom).task = "none" /\ ~Published(NewRoom).cancelled
         /\ Published(NewRoom).prepared = "fresh"
         /\ 3 \in 0 .. MaxEvidence
<1> DEFINE p == Published(NewRoom)
<1>1. /\ NewRoom \in RoomObjects
      /\ NewRoom.status = "waiting" /\ NewRoom.task = "none" /\ ~NewRoom.cancelled
  BY NewRoomTyped DEF NewRoom
<1>2. p = [NewRoom EXCEPT !.status = "running", !.rows = 2, !.prepared = "fresh"]
  BY DEF Published
<1> HIDE DEF p
<1>3. /\ p.status = "running" /\ p.rows = 2 /\ p.prepared = "fresh"
      /\ p.task = "none" /\ ~p.cancelled
  BY <1>1, <1>2 DEF RoomObjects
<1>4. 2 + 1 <= MaxEvidence
  BY <1>3 DEF Fits, p
<1>5. p \in RoomObjects
  <2>1. 2 \in 0 .. MaxEvidence /\ "running" \in Statuses
    BY <1>4, LifecycleAssumption DEF Statuses
  <2> QED BY <1>1, <1>2, <2>1 DEF RoomObjects
<1> QED BY <1>3, <1>4, <1>5, LifecycleAssumption DEF p

\* A call that waits goes on under the lock.
LEMMA StartGoesOn ==
  ASSUME TypeOK, NEW c \in Calls, NEW at,
         start' = [start EXCEPT ![c].at = at]
  PROVE  start' = [start EXCEPT ![c] = [at |-> at, of |-> start[c].of]]
<1>1. [start[c] EXCEPT !.at = at] = [at |-> at, of |-> start[c].of]
  BY DEF TypeOK
<1> QED BY <1>1

\* A start is rolled back.
LEMMA StartRolledBackKeeps ==
  ASSUME RoomInv, NEW c \in Calls, StartRolledBack(c)
  PROVE  RoomInv' /\ RowsAreFinal
<1> DEFINE r == start[c].of
           s == [at |-> "closing", of |-> r]
<1>1. Startable(c)
  BY DEF StartRolledBack
<1>2. /\ start[c].at # "idle" /\ TypeOK /\ r \in Rooms /\ room[r] = NewRoom
      /\ disk[r] \in RoomRows \cup {None} /\ scope[r] \in Scopes /\ RowIsSound(disk[r])
      /\ RoomFits(room[r], disk[r], scope[r], r \in listed, manager)
  BY <1>1, StartableRoom
<1>3. /\ room' = [room EXCEPT ![r] = room[r]]
      /\ disk' = [disk EXCEPT ![r] = disk[r]]
      /\ scope' = [scope EXCEPT ![r] = scope[r]]
      /\ start' = [start EXCEPT ![c] = s]
      /\ UNCHANGED <<listed, manager, store, settled, uncleaned, crashes>>
      /\ lock' = c
  <2>1. /\ room' = room /\ disk' = disk /\ scope' = scope
        /\ start' = [start EXCEPT ![c].at = "closing"]
        /\ UNCHANGED <<listed, manager, store, settled, uncleaned, crashes>>
        /\ lock' = c
    BY DEF StartRolledBack
  <2>2. start' = [start EXCEPT ![c] = s]
    BY <1>2, <2>1, StartGoesOn
  <2> HIDE DEF s
  <2> QED BY <1>2, <2>1, <2>2 DEF TypeOK
<1>4. failures' \in 0 .. MaxOutages
  BY <1>2, MaySaveTyped DEF StartRolledBack, TypeOK
<1>5. s \in [at : {"idle", "queued", "closing", "failing"}, of : Rooms \cup {None}]
  BY <1>2
<1>6. s.of = r /\ s.at = "closing" /\ room[r] \in RoomObjects /\ RowIsFinal(disk[r], disk[r])
  BY <1>2, NewRoomTyped, CarriedIsFinal
<1> HIDE DEF r, s
<1>7. r = start[c].of
  BY DEF r
<1> QED BY <1>2, <1>3, <1>4, <1>5, <1>6, <1>7, OneStart

\* A start succeeds.
LEMMA StartSucceedsKeeps ==
  ASSUME RoomInv, NEW c \in Calls, StartSucceeds(c)
  PROVE  RoomInv' /\ RowsAreFinal
<1> DEFINE r == start[c].of
           p == Published(NewRoom)
           o == [p EXCEPT !.rows = 3, !.told = "running", !.task = "new"]
<1>1. Startable(c)
  BY DEF StartSucceeds
<1>2. /\ start[c].at # "idle" /\ TypeOK /\ r \in Rooms /\ room[r] = NewRoom
      /\ disk[r] \in RoomRows \cup {None} /\ scope[r] \in Scopes /\ RowIsSound(disk[r])
      /\ (disk[r] = None \/ disk[r].status = "waiting")
      /\ r \in listed => scope[r] = "open"
      /\ store = "open" /\ manager = "open"
  BY <1>1, StartableRoom
<1>3. /\ p \in RoomObjects /\ p.status = "running" /\ ~p.cancelled /\ p.prepared = "fresh"
      /\ 3 \in 0 .. MaxEvidence
  BY <1>2, PublishedTyped DEF StartSucceeds
<1>4. /\ room' = [room EXCEPT ![r] = o]
      /\ disk' = [disk EXCEPT ![r] = Saved(r, o)]
      /\ start' = [start EXCEPT ![c] = Idle]
      /\ UNCHANGED <<listed, scope, lock, manager, store, settled, uncleaned,
                     failures, crashes>>
  BY <1>2 DEF StartSucceeds
<1> HIDE DEF p
<1>5. /\ o \in RoomObjects /\ o.status = "running" /\ ~o.cancelled /\ o.prepared = "fresh"
      /\ o.task = "new"
  BY <1>3 DEF RoomObjects, Statuses
<1> HIDE DEF o
<1>6. Row(o) \in RoomRows /\ Row(o).status = "running" /\ Row(o) # None /\ Saved(r, o) = Row(o)
  BY <1>2, <1>5, RowTyped DEF Saved
<1>7. RowIsSound(Row(o)) /\ RowIsFinal(disk[r], Row(o))
  BY <1>2, <1>6 DEF RowIsSound, RowIsFinal, Success, Terminal
<1>8. RoomFits(o, Row(o), scope[r], r \in listed, manager)
  BY <1>2, <1>5, <1>6 DEF RoomFits, WaitingFits, RunningFits, SuccessFits, Success
<1>9. /\ scope' = [scope EXCEPT ![r] = scope[r]] /\ failures' \in 0 .. MaxOutages
      /\ room[r].status = "waiting"
  BY <1>2, <1>4 DEF TypeOK, NewRoom
<1>10. /\ Idle \in [at : {"idle", "queued", "closing", "failing"}, of : Rooms \cup {None}]
       /\ Idle.at = "idle"
  BY DEF Idle
<1> HIDE DEF r
<1>11. r = start[c].of
  BY DEF r
<1> QED BY <1>2, <1>4, <1>5, <1>6, <1>7, <1>8, <1>9, <1>10, <1>11, OneStart

\* A start fails once the running room has been saved.
LEMMA StartFailsKeeps ==
  ASSUME RoomInv, NEW c \in Calls, StartFails(c)
  PROVE  RoomInv' /\ RowsAreFinal
<1> DEFINE r == start[c].of
           p == Published(NewRoom)
           o == [p EXCEPT !.status = "failed", !.stamped = TRUE, !.rows = 3, !.told = "failed"]
           s == [at |-> "failing", of |-> r]
<1>1. Startable(c)
  BY DEF StartFails
<1>2. /\ start[c].at # "idle" /\ TypeOK /\ r \in Rooms /\ room[r] = NewRoom
      /\ disk[r] \in RoomRows \cup {None} /\ scope[r] \in Scopes /\ RowIsSound(disk[r])
      /\ (disk[r] = None \/ disk[r].status = "waiting")
      /\ store = "open" /\ manager = "open"
  BY <1>1, StartableRoom
<1>3. /\ p \in RoomObjects /\ p.status = "running" /\ ~p.cancelled /\ p.task = "none"
      /\ 3 \in 0 .. MaxEvidence
  BY <1>2, PublishedTyped DEF StartFails
<1>4. /\ room' = [room EXCEPT ![r] = o]
      /\ \E row \in {Row(p), Row(o)} : disk' = [disk EXCEPT ![r] = row]
      /\ start' = [start EXCEPT ![c] = s] /\ lock' = c
      /\ UNCHANGED <<listed, scope, manager, store, settled, uncleaned, crashes>>
      /\ MaySave(1)
  <2>1. start' = [start EXCEPT ![c].at = "failing"]
    BY DEF StartFails
  <2>2. start' = [start EXCEPT ![c] = s]
    BY <1>2, <2>1, StartGoesOn
  <2> HIDE DEF s
  <2> QED BY <1>2, <2>2 DEF StartFails
<1> HIDE DEF p
<1>5. /\ o \in RoomObjects /\ o.status = "failed" /\ ~o.cancelled /\ o.task = "none"
  BY <1>3 DEF RoomObjects, Statuses, Terminal
<1> HIDE DEF o
<1>6. PICK row \in {Row(p), Row(o)} : disk' = [disk EXCEPT ![r] = row]
  BY <1>4
<1>7. row \in RoomRows /\ row.status \in {"running", "failed"}
  BY <1>3, <1>5, RowTyped
<1>8. RowIsSound(row) /\ RowIsFinal(disk[r], row)
  BY <1>2, <1>7 DEF RowIsSound, RowIsFinal, Success, Terminal
<1>9. RoomFits(o, row, scope[r], r \in listed, manager)
  BY <1>5, OverFits
<1>10. /\ scope' = [scope EXCEPT ![r] = scope[r]] /\ room[r].status = "waiting"
       /\ failures' \in 0 .. MaxOutages
  BY <1>2, <1>4, MaySaveTyped DEF TypeOK, NewRoom
<1>11. /\ s \in [at : {"idle", "queued", "closing", "failing"}, of : Rooms \cup {None}]
       /\ s.of = r /\ s.at = "failing"
  BY <1>2
<1> HIDE DEF r, s
<1>12. r = start[c].of
  BY DEF r
<1> QED BY <1>2, <1>4, <1>5, <1>6, <1>7, <1>8, <1>9, <1>10, <1>11, <1>12, OneStart

\* The resources of a start that failed are closed.
LEMMA StartFailedClosedKeeps ==
  ASSUME RoomInv, NEW c \in Calls, StartFailedClosed(c)
  PROVE  RoomInv' /\ RowsAreFinal
<1> DEFINE r == start[c].of
           x == room[r]
           o == [x EXCEPT !.prepared = "none"]
<1>1. start[c].at = "failing"
  BY DEF StartFailedClosed
<1>2. /\ TypeOK /\ r \in Rooms /\ x \in RoomObjects /\ x # None
      /\ x.status = "failed" /\ x.task = "none"
  BY <1>1, StartHolds
<1>3. /\ disk[r] \in RoomRows \cup {None} /\ RowIsSound(disk[r])
      /\ x.cancelled => manager \notin {"open", "closing"}
  BY <1>2 DEF TypeOK, RoomInv, RoomFits, RunningFits
<1>4. o \in RoomObjects /\ o.status = "failed" /\ o.task = "none" /\ o.cancelled = x.cancelled
  BY <1>2 DEF RoomObjects
<1>5. /\ room' = [room EXCEPT ![r] = o]
      /\ disk' = [disk EXCEPT ![r] = disk[r]]
      /\ scope' = [scope EXCEPT ![r] = "closed"]
      /\ start' = [start EXCEPT ![c] = Idle] /\ lock' = None
      /\ UNCHANGED <<listed, manager, store, settled, uncleaned, crashes>>
      /\ failures' \in 0 .. MaxOutages
  BY <1>2 DEF StartFailedClosed, TypeOK
<1> HIDE DEF o, x
<1>6. RoomFits(o, disk[r], "closed", r \in listed, manager)
  BY <1>3, <1>4, OverFits
<1>7. RowIsFinal(disk[r], disk[r])
  BY CarriedIsFinal
<1>8. /\ Idle \in [at : {"idle", "queued", "closing", "failing"}, of : Rooms \cup {None}]
      /\ Idle.at = "idle" /\ "closed" \in Scopes
  BY DEF Idle, Scopes
<1> HIDE DEF r
<1>9. r = start[c].of /\ start[c].at # "idle"
  BY <1>1 DEF r
<1> QED BY <1>3, <1>4, <1>5, <1>6, <1>7, <1>8, <1>9, OneStart

-----------------------------------------------------------------------------
(* The end of the process, and the next one.                                *)

\* A step that changes no row and takes nobody's room away keeps the invariant if
\* it keeps the types, and what is left of every object still fits its row.
LEMMA AllRooms ==
  ASSUME RoomInv, TypeOK', manager \notin {"down", "refused"},
         UNCHANGED <<disk, start>>,
         manager' \notin {"down", "refused"}, store' = "closed" => manager' = "closed",
         \A r \in Rooms :
           /\ room[r] # None => /\ room'[r] # None /\ room'[r].status = room[r].status
                                /\ room'[r].task = room[r].task
           /\ RoomFits(room'[r], disk[r], scope'[r], r \in listed', manager')
  PROVE  RoomInv' /\ RowsAreFinal
<1>1. RowsAreFinal
  BY CarriedIsFinal DEF RowsAreFinal
<1>2. ProcessEnds'
  BY DEF ProcessEnds
<1>3. StartsHold'
  <2> SUFFICES ASSUME NEW c \in Calls
               PROVE  /\ start[c].at = "idle" <=> start[c] = Idle
                      /\ start[c] # Idle => start[c].of \in Rooms /\ room'[start[c].of] # None
                      /\ start[c].at = "failing" => /\ room'[start[c].of].status = "failed"
                                                    /\ room'[start[c].of].task = "none"
    BY DEF StartsHold
  <2>1. /\ start[c].at = "idle" <=> start[c] = Idle
        /\ start[c] # Idle => start[c].of \in Rooms /\ room[start[c].of] # None
        /\ start[c].at = "failing" => /\ room[start[c].of].status = "failed"
                                      /\ room[start[c].of].task = "none"
    BY DEF RoomInv, StartsHold
  <2>2. start[c].at = "failing" => start[c] # Idle
    BY <2>1
  <2> QED BY <2>1, <2>2
<1>4. \A r \in Rooms : RowIsSound(disk'[r])
  BY DEF RoomInv
<1> QED BY <1>1, <1>2, <1>3, <1>4 DEF RoomInv

\* aclose is called: no room waits for a budget any more.
LEMMA CloseCalledKeeps ==
  ASSUME RoomInv, CloseCalled
  PROVE  RoomInv' /\ RowsAreFinal
<1>1. /\ manager = "open" /\ manager' = "closing" /\ TypeOK
      /\ UNCHANGED <<room, listed, disk, scope, start, lock, store, settled,
                     uncleaned, failures, crashes>>
      /\ store = "open"
  BY DEF CloseCalled, RoomInv, ProcessEnds, TypeOK
<1>2. TypeOK'
  BY <1>1 DEF TypeOK
<1>3. ASSUME NEW r \in Rooms
      PROVE  RoomFits(room[r], disk[r], scope[r], r \in listed, manager')
  <2>1. RoomFits(room[r], disk[r], scope[r], r \in listed, manager)
    BY DEF RoomInv
  <2> QED BY <1>1, <2>1 DEF RoomFits, WaitingFits, RunningFits, SuccessFits
<1> QED BY <1>1, <1>2, <1>3, AllRooms

\* aclose cancels every task.
LEMMA CloseCancelsKeeps ==
  ASSUME RoomInv, CloseCancels
  PROVE  RoomInv' /\ RowsAreFinal
<1>1. /\ manager = "closing" /\ manager' = "cancelling" /\ lock' = "aclose" /\ TypeOK
      /\ UNCHANGED <<listed, disk, scope, start, store, settled, uncleaned,
                     failures, crashes>>
      /\ store = "open"
      /\ room' = [r \in Rooms |-> IF r \in listed /\ Live(r)
                                    THEN [room[r] EXCEPT !.cancelled = TRUE] ELSE room[r]]
  BY DEF CloseCancels, RoomInv, ProcessEnds, TypeOK
<1>2. ASSUME NEW r \in Rooms
      PROVE  /\ room'[r] \in RoomObjects \cup {None}
             /\ room[r] # None => /\ room'[r] # None /\ room'[r].status = room[r].status
                                  /\ room'[r].task = room[r].task
             /\ RoomFits(room'[r], disk[r], scope[r], r \in listed, manager')
  <2>1. /\ room[r] \in RoomObjects \cup {None}
        /\ RoomFits(room[r], disk[r], scope[r], r \in listed, manager)
    BY <1>1 DEF RoomInv, TypeOK
  <2>2. CASE r \in listed /\ Live(r)
    <3> DEFINE o == [room[r] EXCEPT !.cancelled = TRUE]
    <3>1. room'[r] = o /\ room[r] \in RoomObjects /\ room[r].task \in {"new", "playing"}
      BY <1>1, <2>1, <2>2 DEF Live
    <3>2. /\ o \in RoomObjects /\ o.status = room[r].status /\ o.task = room[r].task
          /\ o.cancelled /\ o.prepared = room[r].prepared
      BY <3>1 DEF RoomObjects
    <3> HIDE DEF o
    <3>3. o # None
      BY <3>2, RowTyped
    <3>4. o.status \in {"running", "failed"}
      BY <1>1, <3>1, <3>2, LiveRoom, RowTyped
    <3>5. RoomFits(o, disk[r], scope[r], r \in listed, manager')
      BY <1>1, <2>1, <2>2, <3>1, <3>2, <3>4, RowTyped
         DEF RoomFits, WaitingFits, RunningFits, SuccessFits, Success
    <3> QED BY <3>1, <3>2, <3>3, <3>5
  <2>3. CASE ~(r \in listed /\ Live(r))
    <3>1. room'[r] = room[r]
      BY <1>1, <2>3
    <3>2. RoomFits(room[r], disk[r], scope[r], r \in listed, manager')
      BY <1>1, <2>1, <2>3 DEF RoomFits, WaitingFits, RunningFits, SuccessFits, Live
    <3> QED BY <2>1, <3>1, <3>2
  <2> QED BY <2>2, <2>3
<1>3. TypeOK'
  <2>1. room' \in [Rooms -> RoomObjects \cup {None}]
    BY <1>1, <1>2
  <2>2. listed' \subseteq {r \in Rooms : room'[r] # None}
    BY <1>1, <1>2 DEF TypeOK
  <2> QED BY <1>1, <2>1, <2>2 DEF TypeOK
<1> QED BY <1>1, <1>2, <1>3, AllRooms

\* aclose has waited, and closes the runs that nobody claimed.
LEMMA CloseWaitedKeeps ==
  ASSUME RoomInv, CloseWaited
  PROVE  RoomInv' /\ RowsAreFinal
<1>1. /\ manager = "cancelling" /\ manager' = "settling" /\ TypeOK
      /\ uncleaned' \subseteq listed
      /\ UNCHANGED <<listed, disk, scope, start, lock, store, settled, failures, crashes>>
      /\ store = "open"
      /\ room' = [r \in Rooms |-> IF r \in listed /\ ~Live(r)
                                    THEN [room[r] EXCEPT !.prepared = "none"] ELSE room[r]]
  BY DEF CloseWaited, RoomInv, ProcessEnds, TypeOK
<1>2. ASSUME NEW r \in Rooms
      PROVE  /\ room'[r] \in RoomObjects \cup {None}
             /\ room[r] # None => /\ room'[r] # None /\ room'[r].status = room[r].status
                                  /\ room'[r].task = room[r].task
             /\ RoomFits(room'[r], disk[r], scope[r], r \in listed, manager')
  <2>1. /\ room[r] \in RoomObjects \cup {None}
        /\ RoomFits(room[r], disk[r], scope[r], r \in listed, manager)
    BY <1>1 DEF RoomInv, TypeOK
  <2>2. CASE r \in listed /\ ~Live(r)
    <3> DEFINE o == [room[r] EXCEPT !.prepared = "none"]
    <3>1. room'[r] = o /\ room[r] \in RoomObjects /\ room[r] # None
      BY <1>1, <2>1, <2>2 DEF TypeOK
    <3>2. /\ o \in RoomObjects /\ o.status = room[r].status /\ o.task = room[r].task
          /\ o.cancelled = room[r].cancelled
      BY <3>1 DEF RoomObjects
    <3>3. room[r] = NewRoom => o = NewRoom
      <4>1. NewRoom \in RoomObjects /\ NewRoom.prepared = "none"
        BY NewRoomTyped DEF NewRoom
      <4>2. [NewRoom EXCEPT !.prepared = "none"] = NewRoom
        BY <4>1 DEF RoomObjects
      <4> QED BY <4>2
    <3> HIDE DEF o
    <3>4. o # None
      BY <3>2, RowTyped
    <3>5. RoomFits(o, disk[r], scope[r], r \in listed, manager')
      BY <1>1, <2>1, <2>2, <3>1, <3>2, <3>3
         DEF RoomFits, WaitingFits, RunningFits, SuccessFits, Live
    <3> QED BY <3>1, <3>2, <3>4, <3>5
  <2>3. CASE ~(r \in listed /\ ~Live(r))
    <3>1. room'[r] = room[r]
      BY <1>1, <2>3
    <3>2. RoomFits(room[r], disk[r], scope[r], r \in listed, manager')
      BY <1>1, <2>1, <2>3 DEF RoomFits, WaitingFits, RunningFits, SuccessFits, Live
    <3> QED BY <2>1, <3>1, <3>2
  <2> QED BY <2>2, <2>3
<1>3. TypeOK'
  <2>1. room' \in [Rooms -> RoomObjects \cup {None}]
    BY <1>1, <1>2
  <2>2. listed' \subseteq {r \in Rooms : room'[r] # None}
    BY <1>1, <1>2 DEF TypeOK
  <2> QED BY <1>1, <2>1, <2>2 DEF TypeOK
<1> QED BY <1>1, <1>2, <1>3, AllRooms

\* aclose has recorded every room.
LEMMA CloseSettledKeeps ==
  ASSUME RoomInv, CloseSettled
  PROVE  RoomInv' /\ RowsAreFinal
<1>1. /\ manager = "settling" /\ manager' = "releasing" /\ TypeOK /\ store = "open"
      /\ UNCHANGED <<room, listed, disk, scope, start, lock, store, settled,
                     uncleaned, failures, crashes>>
  BY DEF CloseSettled, RoomInv, ProcessEnds, TypeOK
<1>2. TypeOK'
  BY <1>1 DEF TypeOK
<1>3. ASSUME NEW r \in Rooms
      PROVE  RoomFits(room[r], disk[r], scope[r], r \in listed, manager')
  <2>1. RoomFits(room[r], disk[r], scope[r], r \in listed, manager)
    BY DEF RoomInv
  <2> QED BY <1>1, <2>1 DEF RoomFits, WaitingFits, RunningFits, SuccessFits
<1> QED BY <1>1, <1>2, <1>3, AllRooms

\* aclose closes the budgets and the database.
LEMMA CloseEndsKeeps ==
  ASSUME RoomInv, CloseEnds
  PROVE  RoomInv' /\ RowsAreFinal
<1>1. /\ manager = "releasing" /\ manager' = "closed" /\ store' = "closed" /\ lock' = None
      /\ TypeOK
      /\ scope' = [r \in Rooms |-> IF r \in listed THEN "closed" ELSE scope[r]]
      /\ UNCHANGED <<room, listed, disk, start, settled, uncleaned, failures,
                     crashes>>
  BY DEF CloseEnds, RoomInv
<1>2. TypeOK'
  BY <1>1 DEF TypeOK
<1>3. ASSUME NEW r \in Rooms
      PROVE  RoomFits(room[r], disk[r], scope'[r], r \in listed, manager')
  <2>1. RoomFits(room[r], disk[r], scope[r], r \in listed, manager)
    BY DEF RoomInv
  <2>2. scope'[r] \in {scope[r], "closed"}
    BY <1>1
  <2> QED BY <1>1, <2>1, <2>2 DEF RoomFits, WaitingFits, RunningFits, SuccessFits
<1> QED BY <1>1, <1>2, <1>3, AllRooms

\* The process ends: the rows stay.
LEMMA CrashKeeps ==
  ASSUME RoomInv, Crash
  PROVE  RoomInv' /\ RowsAreFinal
<1>1. /\ TypeOK /\ crashes < MaxCrashes /\ crashes' = crashes + 1
      /\ room' = [r \in Rooms |-> None] /\ listed' = {}
      /\ scope' = [r \in Rooms |-> "none"]
      /\ start' = [c \in Calls |-> Idle] /\ lock' = None
      /\ manager' = "down" /\ store' = "open" /\ settled' = {} /\ uncleaned' = {}
      /\ UNCHANGED <<disk, failures>>
  BY DEF RoomInv, Crash
<1>2. TypeOK'
  <2>1. Idle \in [at : {"idle", "queued", "closing", "failing"}, of : Rooms \cup {None}]
    BY DEF Idle
  <2>2. crashes' \in 0 .. MaxCrashes
    BY <1>1, LifecycleAssumption DEF TypeOK
  <2> QED BY <1>1, <2>1, <2>2 DEF TypeOK
<1>3. StartsHold' /\ ProcessEnds'
  BY <1>1 DEF StartsHold, ProcessEnds, Idle
<1>4. ASSUME NEW r \in Rooms
      PROVE  RowIsSound(disk'[r]) /\ RoomFits(room'[r], disk'[r], scope'[r], r \in listed', manager')
  BY <1>1 DEF RoomInv, RoomFits
<1>5. RowsAreFinal
  BY <1>1, CarriedIsFinal DEF RowsAreFinal
<1> QED BY <1>2, <1>3, <1>4, <1>5 DEF RoomInv

\* The room of a row, and the row it is saved as: a verdict stays.
LEMMA RestoredTyped ==
  ASSUME NEW row \in RoomRows, RowIsSound(row),
         Interrupted(row) => row.rows + 1 <= MaxEvidence
  PROVE  /\ Restored(row) \in RoomObjects
         /\ Row(Restored(row)) \in RoomRows
         /\ RowIsSound(Row(Restored(row)))
         /\ RowIsFinal(row, Row(Restored(row)))
         /\ Restored(row).task = "none" /\ ~Restored(row).cancelled
         /\ Restored(row).status = Row(Restored(row)).status
         /\ Restored(row).status # "running"
         /\ Restored(row).status = "waiting" => Restored(row) = NewRoom
         /\ Restored(row).stamped <=> Restored(row).status \in Terminal
<1> DEFINE o == [NewRoom EXCEPT !.status = row.status, !.rows = row.rows, !.told = row.told,
                                !.stamped = row.status \in Terminal]
           i == [o EXCEPT !.status = "interrupted", !.told = "interrupted", !.stamped = TRUE,
                          !.rows = @ + 1]
           v == Restored(row)
<1>1. /\ NewRoom \in RoomObjects /\ NewRoom.task = "none" /\ ~NewRoom.cancelled
      /\ ~NewRoom.stamped /\ NewRoom.status = "waiting"
  BY NewRoomTyped DEF NewRoom
<1>2. /\ row.status \in Statuses /\ row.rows \in 0 .. MaxEvidence
      /\ row.told \in Statuses \cup {None}
  BY DEF RoomRows
<1>3. /\ o \in RoomObjects /\ o.status = row.status /\ o.rows = row.rows /\ o.told = row.told
      /\ o.stamped = (row.status \in Terminal) /\ o.task = "none" /\ ~o.cancelled
  <2>1. (row.status \in Terminal) \in BOOLEAN
    OBVIOUS
  <2>2. o \in RoomObjects
    BY <1>1, <1>2, <2>1 DEF RoomObjects
  <2>3. /\ o.status = row.status /\ o.rows = row.rows /\ o.told = row.told
        /\ o.stamped = (row.status \in Terminal)
        /\ o.task = NewRoom.task /\ o.cancelled = NewRoom.cancelled
    BY <1>1 DEF RoomObjects
  <2> QED BY <1>1, <2>2, <2>3
<1>4. v = IF Interrupted(row) THEN i ELSE o
  BY DEF Restored
<1>5. row.status = "waiting" => o = NewRoom
  <2> SUFFICES ASSUME row.status = "waiting" PROVE o = NewRoom
    OBVIOUS
  <2>1. row = Row(NewRoom)
    BY NoneAssumption DEF RowIsSound
  <2>2. row.rows = NewRoom.rows /\ row.told = NewRoom.told /\ row.status = NewRoom.status
    BY <2>1 DEF Row
  <2>3. NewRoom.stamped = (row.status \in Terminal)
    <3>1. row.status \notin Terminal
      BY <1>1, <2>2 DEF Terminal, Success
    <3>2. NewRoom.stamped \in BOOLEAN
      BY <1>1 DEF RoomObjects
    <3> QED BY <1>1, <3>1, <3>2
  <2>4. [NewRoom EXCEPT !.status = NewRoom.status, !.rows = NewRoom.rows,
                        !.told = NewRoom.told, !.stamped = NewRoom.stamped] = NewRoom
    BY <1>1 DEF RoomObjects
  <2> QED BY <2>2, <2>3, <2>4
<1> HIDE DEF o
<1>6. CASE Interrupted(row)
  <2>1. row.rows + 1 \in 0 .. MaxEvidence /\ "interrupted" \in Statuses
    BY <1>2, <1>6, LifecycleAssumption DEF Statuses, Terminal
  <2>2. /\ i \in RoomObjects /\ i.status = "interrupted" /\ i.stamped
        /\ i.task = o.task /\ i.cancelled = o.cancelled
    BY <1>3, <2>1 DEF RoomObjects
  <2>3. Row(i) \in RoomRows /\ Row(i).status = "interrupted"
    BY <2>2, RowTyped
  <2>4. RowIsSound(Row(i)) /\ RowIsFinal(row, Row(i))
    BY <1>6, <2>3 DEF RowIsSound, RowIsFinal, Interrupted, Success, Terminal
  <2>5. "interrupted" \in Terminal
    BY DEF Terminal
  <2> HIDE DEF i, v
  <2> QED BY <1>3, <1>4, <1>6, <2>2, <2>3, <2>4, <2>5 DEF v
<1>7. CASE ~Interrupted(row)
  <2>1. v = o
    BY <1>4, <1>7
  <2>2. /\ Row(o) \in RoomRows /\ Row(o).status = row.status /\ Row(o).told = row.told
        /\ Row(o) = row
    <3>1. Row(o) = [status |-> row.status, rows |-> row.rows, told |-> row.told]
      BY <1>3 DEF Row
    <3>2. row = [status |-> row.status, rows |-> row.rows, told |-> row.told]
      BY DEF RoomRows
    <3> QED BY <3>1, <3>2
  <2>3. RowIsSound(Row(o)) /\ RowIsFinal(row, Row(o))
    BY <2>2, CarriedIsFinal
  <2> HIDE DEF i, v
  <2>4. row.status # "running"
    BY <1>7 DEF Interrupted
  <2> QED BY <1>3, <1>5, <2>1, <2>2, <2>3, <2>4 DEF v
<1> QED BY <1>6, <1>7

\* The next process restores every room, or saves some of the rows and fails.
LEMMA RestartKeeps ==
  ASSUME RoomInv, Restart
  PROVE  RoomInv' /\ RowsAreFinal
<1>1. /\ TypeOK /\ manager = "down" /\ store = "open" /\ listed = {}
      /\ UNCHANGED <<start, lock, store, settled, uncleaned, crashes>>
      /\ \A r \in Rooms : room[r] = None
      /\ \A r \in Rooms : RowIsSound(disk[r])
      /\ StartsHold
  BY DEF RoomInv, ProcessEnds, TypeOK, Restart
<1>2. \A c \in Calls : start[c] = Idle
  BY <1>1 DEF StartsHold
<1>3. StartsHold'
  BY <1>1, <1>2 DEF StartsHold, Idle
<1>4. ASSUME NEW r \in Stored
      PROVE  /\ r \in Rooms /\ disk[r] \in RoomRows
             /\ Restored(disk[r]) \in RoomObjects /\ Restored(disk[r]) # None
             /\ Row(Restored(disk[r])) \in RoomRows /\ Row(Restored(disk[r])) # None
             /\ RowIsSound(Row(Restored(disk[r])))
             /\ RowIsFinal(disk[r], Row(Restored(disk[r])))
             /\ Restored(disk[r]).task = "none" /\ ~Restored(disk[r]).cancelled
             /\ Restored(disk[r]).status = Row(Restored(disk[r])).status
             /\ Restored(disk[r]).status # "running"
             /\ Restored(disk[r]).status = "waiting" => Restored(disk[r]) = NewRoom
             /\ Restored(disk[r]).stamped <=> Restored(disk[r]).status \in Terminal
  <2>1. r \in Rooms /\ disk[r] \in RoomRows /\ RowIsSound(disk[r])
    BY <1>1 DEF Stored, TypeOK
  <2>2. Interrupted(disk[r]) => disk[r].rows + 1 <= MaxEvidence
    BY DEF Restart, Restorable
  <2> QED BY <2>1, <2>2, RestoredTyped, RowTyped
<1>5. CASE /\ room' = [r \in Rooms |-> IF r \in Stored THEN Restored(disk[r]) ELSE None]
           /\ listed' = Stored
           /\ disk' = [r \in Rooms |-> IF r \in Stored THEN Row(room'[r]) ELSE None]
           /\ scope' = [r \in Rooms |-> IF r \notin Stored THEN "none"
                                        ELSE IF room'[r].stamped THEN "closed" ELSE "open"]
           /\ manager' = "open" /\ UNCHANGED failures
  <2>1. ASSUME NEW r \in Rooms
        PROVE  /\ room'[r] = IF r \in Stored THEN Restored(disk[r]) ELSE None
               /\ disk'[r] = IF r \in Stored THEN Row(Restored(disk[r])) ELSE None
               /\ scope'[r] = IF r \notin Stored THEN "none"
                              ELSE IF Restored(disk[r]).stamped THEN "closed" ELSE "open"
    BY <1>5
  <2>2. TypeOK'
    <3>1. room' \in [Rooms -> RoomObjects \cup {None}] /\ disk' \in [Rooms -> RoomRows \cup {None}]
      BY <1>4, <1>5, <2>1
    <3>2. scope' \in [Rooms -> {"none", "open", "closed"}]
      BY <1>5
    <3>3. listed' \subseteq {q \in Rooms : room'[q] # None}
      BY <1>4, <1>5, <2>1
    <3> QED BY <1>1, <1>5, <3>1, <3>2, <3>3 DEF TypeOK
  <2>3. ProcessEnds'
    BY <1>1, <1>5 DEF ProcessEnds
  <2>4. ASSUME NEW r \in Rooms
        PROVE  /\ RowIsSound(disk'[r]) /\ RowIsFinal(disk[r], disk'[r])
               /\ RoomFits(room'[r], disk'[r], scope'[r], r \in listed', manager')
    <3>1. CASE r \in Stored
      <4> DEFINE o == Restored(disk[r])
                 row == Row(o)
                 budget == IF o.stamped THEN "closed" ELSE "open"
      <4>1. room'[r] = o /\ disk'[r] = row /\ scope'[r] = budget /\ (r \in listed') = TRUE
        BY <1>5, <2>1, <3>1
      <4>2. /\ RowIsSound(row) /\ RowIsFinal(disk[r], row) /\ row # None
            /\ o.task = "none" /\ ~o.cancelled /\ o.status = row.status /\ o.status # "running"
            /\ o.status = "waiting" => o = NewRoom
            /\ o.stamped <=> o.status \in Terminal
        BY <1>4, <3>1
      <4>3. o.status = "waiting" => row = Row(NewRoom)
        BY <4>2
      <4>4. budget = IF o.status \in Terminal THEN "closed" ELSE "open"
        BY <4>2
      <4> HIDE DEF o, row, budget
      <4>5. RoomFits(o, row, budget, TRUE, "open")
        BY <4>2, <4>3, <4>4
           DEF RoomFits, WaitingFits, RunningFits, SuccessFits, Success, Terminal
      <4> QED BY <1>5, <4>1, <4>2, <4>5
    <3>2. CASE r \notin Stored
      <4>1. room'[r] = None /\ disk'[r] = None
        BY <2>1, <3>2
      <4> QED BY <4>1 DEF RowIsSound, RowIsFinal, RoomFits
    <3> QED BY <3>1, <3>2
  <2> QED BY <1>3, <2>2, <2>3, <2>4 DEF RoomInv, RowsAreFinal
<1>6. ASSUME MaySave(1), UNCHANGED <<room, listed, scope, manager>>,
             NEW before \in SUBSET Stored,
             disk' = [r \in Rooms |-> IF r \in before THEN Row(Restored(disk[r])) ELSE disk[r]]
      PROVE  RoomInv' /\ RowsAreFinal
  <2>1. failures' \in 0 .. MaxOutages
    BY <1>1, <1>6, MaySaveTyped
  <2>2. ASSUME NEW r \in Rooms
        PROVE  /\ disk'[r] \in RoomRows \cup {None}
               /\ RowIsSound(disk'[r]) /\ RowIsFinal(disk[r], disk'[r])
    <3>1. CASE r \in before
      BY <1>4, <1>6, <3>1
    <3>2. CASE r \notin before
      BY <1>1, <1>6, <3>2, CarriedIsFinal DEF TypeOK
    <3> QED BY <3>1, <3>2
  <2>3. disk' \in [Rooms -> RoomRows \cup {None}]
    BY <1>6, <2>2
  <2>4. TypeOK' /\ ProcessEnds'
    BY <1>1, <1>6, <2>1, <2>3 DEF TypeOK, RoomInv, ProcessEnds
  <2>5. \A r \in Rooms : RoomFits(room'[r], disk'[r], scope'[r], r \in listed', manager')
    BY <1>1, <1>6 DEF RoomFits
  <2> QED BY <1>3, <2>2, <2>4, <2>5 DEF RoomInv, RowsAreFinal
<1> QED BY <1>5, <1>6 DEF Restart

\* A row with no place for the interruption stops every process that starts.
LEMMA RestartRefusedKeeps ==
  ASSUME RoomInv, RestartRefused
  PROVE  RoomInv' /\ RowsAreFinal
<1>1. /\ TypeOK /\ manager = "down" /\ manager' = "refused" /\ store = "open"
      /\ UNCHANGED <<room, listed, disk, scope, start, lock, store, settled,
                     uncleaned, failures, crashes>>
      /\ listed = {} /\ (\A r \in Rooms : room[r] = None)
  BY DEF RestartRefused, RoomInv, ProcessEnds, TypeOK
<1>2. TypeOK' /\ StartsHold' /\ ProcessEnds'
  BY <1>1 DEF RoomInv, TypeOK, StartsHold, ProcessEnds
<1>3. ASSUME NEW r \in Rooms
      PROVE  RowIsSound(disk'[r]) /\ RoomFits(room'[r], disk'[r], scope'[r], r \in listed', manager')
  BY <1>1 DEF RoomInv, RoomFits
<1>4. RowsAreFinal
  BY <1>1, CarriedIsFinal DEF RowsAreFinal
<1> QED BY <1>2, <1>3, <1>4 DEF RoomInv

-----------------------------------------------------------------------------
(* The theorems.                                                            *)

\* Nothing has happened yet.
LEMMA RoomInitially == Init => RoomInv
<1> SUFFICES ASSUME Init PROVE RoomInv
  OBVIOUS
<1>1. TypeOK
  <2>1. Idle \in [at : {"idle", "queued", "closing", "failing"}, of : Rooms \cup {None}]
    BY DEF Idle
  <2> QED BY <2>1, LifecycleAssumption DEF Init, TypeOK
<1>2. StartsHold /\ ProcessEnds
  BY DEF Init, StartsHold, ProcessEnds, Idle
<1>3. ASSUME NEW r \in Rooms
      PROVE  RowIsSound(disk[r]) /\ RoomFits(room[r], disk[r], scope[r], r \in listed, manager)
  BY DEF Init, RowIsSound, RoomFits
<1> QED BY <1>1, <1>2, <1>3 DEF RoomInv

\* Every step keeps the invariant, and every verdict in the database.
LEMMA RoomStep ==
  ASSUME RoomInv, [Next]_vars
  PROVE  RoomInv' /\ RowsAreFinal
<1>1. CASE UNCHANGED vars
  <2>1. /\ room' = room /\ listed' = listed /\ disk' = disk /\ scope' = scope
        /\ start' = start /\ lock' = lock /\ manager' = manager /\ store' = store
        /\ settled' = settled /\ uncleaned' = uncleaned /\ failures' = failures /\ crashes' = crashes
    BY <1>1 DEF vars
  <2>2. TypeOK' /\ StartsHold' /\ ProcessEnds'
    BY <2>1 DEF RoomInv, TypeOK, StartsHold, ProcessEnds
  <2>3. \A r \in Rooms : /\ RowIsSound(disk'[r])
                         /\ RoomFits(room'[r], disk'[r], scope'[r], r \in listed', manager')
    BY <2>1 DEF RoomInv
  <2>4. RowsAreFinal
    BY <2>1, CarriedIsFinal DEF RowsAreFinal
  <2> QED BY <2>2, <2>3, <2>4 DEF RoomInv
<1>2. ASSUME NEW r \in Rooms,
             \/ CreateRoom(r) \/ DeleteRoom(r) \/ ExpireRoom(r)
             \/ \E c \in Calls : RequestStart(c, r)
      PROVE  RoomInv' /\ RowsAreFinal
  BY <1>2, CreateRoomKeeps, DeleteRoomKeeps, ExpireRoomKeeps, RequestStartKeeps
<1>3. ASSUME NEW r \in Rooms,
             \/ TaskBegins(r) \/ Record(r) \/ RunCompletes(r) \/ VerdictRefused(r)
             \/ LimitReached(r) \/ RunFails(r) \/ RunCancelled(r) \/ CloseSettles(r)
      PROVE  RoomInv' /\ RowsAreFinal
  BY <1>3, TaskBeginsKeeps, RecordKeeps, RunCompletesKeeps, VerdictRefusedKeeps,
     LimitReachedKeeps, RunFailsKeeps, RunCancelledKeeps, CloseSettlesKeeps
<1>4. ASSUME NEW c \in Calls, Starting(c)
      PROVE  RoomInv' /\ RowsAreFinal
  BY <1>4, StartRefusedKeeps, StartRolledBackKeeps, StartSucceedsKeeps, StartFailsKeeps,
     StartFailedClosedKeeps DEF Starting
<1>5. CASE \/ CloseCalled \/ CloseCancels \/ CloseWaited \/ CloseSettled \/ CloseEnds
           \/ Crash \/ Restart \/ RestartRefused
  BY <1>5, CloseCalledKeeps, CloseCancelsKeeps, CloseWaitedKeeps, CloseSettledKeeps,
     CloseEndsKeeps, CrashKeeps, RestartKeeps, RestartRefusedKeeps
<1> QED BY <1>1, <1>2, <1>3, <1>4, <1>5 DEF Next

\* Every room, its row, its budget and the calls that hold it agree, whatever save
\* fails and whenever the process ends: the invariant the others follow from.
THEOREM RoomsAgree == Spec => []RoomInv
<1>1. RoomInv /\ [Next]_vars => RoomInv'
  BY RoomStep
<1> QED BY RoomInitially, <1>1, PTL DEF Spec

\* start_game is all or nothing: a waiting room is as it was created, in memory and
\* in its row, and a running one has its row, its task, its graph and its budget.
THEOREM StartsAreWhole == Spec => []StartIsAllOrNothing
<1>1. RoomInv => StartIsAllOrNothing
  <2> SUFFICES ASSUME RoomInv, NEW r \in listed
               PROVE  /\ room[r].status = "waiting" =>
                           room[r] = NewRoom /\ disk[r] = Row(NewRoom)
                      /\ room[r].status = "running" /\ manager \in {"open", "closing"} =>
                           /\ disk[r] # None /\ disk[r].status = "running"
                           /\ Live(r) /\ scope[r] = "open"
                           /\ room[r].prepared = IF room[r].task = "new" THEN "fresh"
                                                 ELSE "claimed"
    BY DEF StartIsAllOrNothing, RoomInv
  <2>1. r \in Rooms /\ room[r] # None
    BY DEF RoomInv, TypeOK
  <2>2. RoomFits(room[r], disk[r], scope[r], TRUE, manager)
    BY <2>1 DEF RoomInv
  <2> QED BY <2>1, <2>2 DEF RoomFits, WaitingFits, RunningFits, Live
<1> QED BY RoomsAgree, <1>1, PTL

\* A game that counts as played has a row that says so and whose evidence ends with
\* that verdict, and its budget has been given back.
THEOREM VerdictsAreDurable == Spec => []VerdictIsDurable
<1>1. RoomInv => VerdictIsDurable
  <2> SUFFICES ASSUME RoomInv, NEW r \in listed, room[r].status \in Success
               PROVE  /\ disk[r] # None /\ disk[r].status = room[r].status
                      /\ disk[r].told = room[r].status
                      /\ scope[r] = "closed"
    BY DEF VerdictIsDurable
  <2>1. r \in Rooms /\ room[r] # None
    BY DEF RoomInv, TypeOK
  <2>2. RoomFits(room[r], disk[r], scope[r], TRUE, manager) /\ RowIsSound(disk[r])
    BY <2>1 DEF RoomInv
  <2> QED BY <2>1, <2>2 DEF RoomFits, SuccessFits, RowIsSound
<1> QED BY RoomsAgree, <1>1, PTL

\* No step, not even a crash, a restart that fails half-way or a shutdown, takes a
\* verdict back from the database or makes a success of anything that was over;
\* only a shutdown that cannot clean up after a room turns its success into a
\* failure.
THEOREM OutcomesAreFinal == Spec => OutcomeIsFinal
<1>1. RoomInv /\ [Next]_vars =>
        [\A r \in Rooms :
           disk[r] # None /\ disk'[r] # None /\ disk[r].status \in Terminal =>
             /\ disk'[r].status \in Terminal
             /\ disk'[r].status \in Success => disk'[r].status = disk[r].status
             /\ disk[r].status \in Success /\ disk'[r].status # disk[r].status =>
                  /\ manager = "settling" /\ r \in uncleaned
                  /\ disk'[r].status = "failed"]_vars
  BY RoomStep DEF RowsAreFinal, RowIsFinal, TakenBack, Success, Terminal
<1> QED BY RoomsAgree, <1>1, PTL DEF Spec, OutcomeIsFinal
=============================================================================
