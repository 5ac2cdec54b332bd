--------------------------- MODULE RoomLifecycle ---------------------------
(***************************************************************************)
(* RoomManager (src/src/api/room_manager.py): the life of the rooms, from  *)
(* create_room to their verdict, with the row each keeps in the database.  *)
(*                                                                         *)
(* The manager runs on one event loop, and saving is a synchronous SQLite  *)
(* transaction: a step is what happens up to the next await that can       *)
(* suspend.  A save may fail (nothing of it is written) and the process    *)
(* may crash between any two steps, and inside aclose between two rooms.   *)
(*                                                                         *)
(* Of the evidence of a room only its length, in transcript rows, and the  *)
(* last room_status in it are kept.  The game itself is Orchestrator.tla,  *)
(* the run that owns it CoreRunner.tla, the delivery to the clients        *)
(* RoomDelivery.tla: here a run records rows, and ends.  Clients, which    *)
(* only keep a room from being deleted, are left out, and so is the path   *)
(* for a room without a Core specification, which start_game never makes.  *)
(***************************************************************************)
EXTENDS Integers, FiniteSets

CONSTANTS
  Rooms,            \* room ids
  Calls,            \* the calls of start_game under way at once (a bound)
  MaxRooms,         \* max_rooms
  MaxEvidence,      \* max_evidence_entries
  MaxOutages,       \* in how many steps a save may fail (a bound)
  MaxCrashes,       \* how many times the process may end (a bound)
  None

ASSUME LifecycleAssumption ==
  /\ MaxRooms \in Nat \ {0} /\ MaxEvidence \in Nat \ {0}
  /\ MaxOutages \in Nat /\ MaxCrashes \in Nat
  /\ None \notin Rooms \cup Calls

VARIABLES
  room,     \* the Room objects that somebody still holds
  listed,   \* the ids in self.rooms
  disk,     \* the rows of the database
  scope,    \* the provider-budget scope of each room
  start,    \* each call of start_game, and the room it has looked up
  lock,     \* who holds _lifecycle_lock: a call of start_game, or "aclose"
  manager,  \* where the manager is between __init__ and the end of aclose
  store,    \* whether persistence is open: ~ _persistence_closed
  settled,  \* the rooms aclose has recorded the state of
  uncleaned,\* the rooms aclose could not clean up after, without a live task
  failures, \* steps in which a save has failed
  crashes   \* processes that have ended

vars == <<room, listed, disk, scope, start, lock, manager, store, settled, uncleaned,
          failures, crashes>>

Success == {"ended", "incomplete"}
Terminal == Success \cup {"failed", "timeout", "cancelled", "interrupted"}
Statuses == {"waiting", "running"} \cup Terminal

RoomObjects ==
  [status : Statuses,
   rows : 0 .. MaxEvidence,                   \* len(transcript.entries)
   told : Statuses \cup {None},               \* the last room_status row
   prepared : {"none", "fresh", "claimed"},   \* prepared_run, and _claimed
   task : {"none", "new", "playing", "done"},
   cancelled : BOOLEAN,                       \* task.cancel() has been called
   limit : BOOLEAN,                           \* evidence_limit_error is set
   sink : BOOLEAN,                            \* evidence_sink_error_type is set
   stamped : BOOLEAN]                         \* terminal_at is set

RoomRows == [status : Statuses, rows : 0 .. MaxEvidence, told : Statuses \cup {None}]

ASSUME NoneAssumption == None \notin RoomObjects \cup RoomRows

NewRoom == [status |-> "waiting", rows |-> 0, told |-> None, prepared |-> "none",
            task |-> "none", cancelled |-> FALSE, limit |-> FALSE, sink |-> FALSE,
            stamped |-> FALSE]

Idle == [at |-> "idle", of |-> None]

\* _room_record: what a save writes.
Row(o) == [status |-> o.status, rows |-> o.rows, told |-> o.told]

Live(r) == room[r] # None /\ room[r].task \in {"new", "playing"}

Init ==
  /\ room = [r \in Rooms |-> None] /\ listed = {}
  /\ disk = [r \in Rooms |-> None] /\ scope = [r \in Rooms |-> "none"]
  /\ start = [c \in Calls |-> Idle] /\ lock = None
  /\ manager = "open" /\ store = "open" /\ settled = {} /\ uncleaned = {}
  /\ failures = 0 /\ crashes = 0

(***************************************************************************)
(* Evidence and saves                                                      *)
(***************************************************************************)

\* _ensure_evidence_capacity for n more rows
Fits(o, n) == o.rows + n <= MaxEvidence

\* The saves of a step in the order they are made; the n-th fails, none if n
\* is 0.  Once persistence is closed a save does nothing and succeeds.
MaySave(n) ==
  /\ n # 0 => failures < MaxOutages /\ store = "open"
  /\ failures' = failures + (IF n = 0 THEN 0 ELSE 1)

Saved(r, o) == IF store = "open" THEN Row(o) ELSE disk[r]

\* A step under way: the object, its row, and whether nothing has been raised.
Work(r, o) == [object |-> o, row |-> disk[r], ok |-> TRUE]

\* _emit_room_event: one more row, saved or rolled back.  What the caller has
\* assigned to the object before stays, in memory.
Emit(r, w, o, fails) ==
  IF ~w.ok THEN w
  ELSE IF ~Fits(w.object, 1)
    THEN [w EXCEPT !.ok = FALSE, !.object.limit = TRUE]
  ELSE IF fails THEN [w EXCEPT !.ok = FALSE]
  ELSE [object |-> o, row |-> Saved(r, o), ok |-> TRUE]

EmitRow(r, w, fails) == Emit(r, w, [w.object EXCEPT !.rows = @ + 1], fails)

\* _broadcast_room_status, up to the emission
EmitStatus(r, w, fails) ==
  LET o == [w.object EXCEPT !.stamped = w.ok \/ @]
  IN  Emit(r, [w EXCEPT !.object = o],
           [o EXCEPT !.rows = @ + 1, !.told = o.status], fails)

\* The work is done; a room that could say that it is over gives up its budget.
Done(r, w) ==
  /\ room' = [room EXCEPT ![r] = w.object]
  /\ disk' = [disk EXCEPT ![r] = w.row]
  /\ scope' = [scope EXCEPT ![r] = IF w.ok THEN "closed" ELSE @]

(***************************************************************************)
(* Creating and removing                                                   *)
(***************************************************************************)

\* The event loop runs requests and tasks: not between the rooms that aclose
\* settles, and the process leaves it after aclose.
Runs == manager \in {"open", "closing", "cancelling", "releasing"}

\* create_room: a room that cannot be saved is dropped again.
CreateRoom(r) ==
  /\ manager = "open"
  /\ room[r] = None /\ disk[r] = None
  /\ Cardinality(listed) < MaxRooms
  /\ \E n \in 0 .. 1 :
       /\ MaySave(n)
       /\ IF n = 0
            THEN /\ room' = [room EXCEPT ![r] = NewRoom]
                 /\ listed' = listed \cup {r}
                 /\ disk' = [disk EXCEPT ![r] = Saved(r, NewRoom)]
                 /\ scope' = [scope EXCEPT ![r] = "open"]
            ELSE /\ scope' = [scope EXCEPT ![r] = "closed"]
                 /\ UNCHANGED <<room, listed, disk>>
  /\ UNCHANGED <<start, lock, manager, store, settled, uncleaned, crashes>>

\* A room leaves the manager; a start that waits for the lock still holds it.
Remove(r) ==
  /\ room' = [room EXCEPT ![r] = IF \E c \in Calls : start[c].of = r THEN @ ELSE None]
  /\ listed' = listed \ {r}
  /\ disk' = [disk EXCEPT ![r] = None]
  /\ scope' = [scope EXCEPT ![r] = "closed"]
  /\ UNCHANGED <<start, lock, manager, store, settled, uncleaned, failures, crashes>>

\* delete_room takes no lock: it is synchronous.
DeleteRoom(r) ==
  /\ manager = "open" /\ r \in listed
  /\ room[r].status # "running" /\ ~Live(r)
  /\ Remove(r)

\* cleanup_expired_rooms, which get_room and create_room call, of one room
\* that has been over long enough.  A room whose end was never stamped is
\* stamped then.
ExpireRoom(r) ==
  /\ Runs /\ store = "open" /\ r \in listed
  /\ room[r].status \in Terminal /\ ~Live(r)
  /\ IF room[r].stamped THEN Remove(r)
     ELSE /\ room' = [room EXCEPT ![r].stamped = TRUE]
          /\ UNCHANGED <<listed, disk, scope, start, lock, manager, store, settled,
                         uncleaned, failures, crashes>>

(***************************************************************************)
(* Starting                                                                *)
(***************************************************************************)

\* The endpoint looks the room up, and start_game waits for the lock.
RequestStart(c, r) ==
  /\ manager \in {"open", "closing"} /\ r \in listed /\ start[c] = Idle
  /\ start' = [start EXCEPT ![c] = [at |-> "queued", of |-> r]]
  /\ UNCHANGED <<room, listed, disk, scope, lock, manager, store, settled,
                 uncleaned,
                 failures, crashes>>

\* start_game raises: a room that was removed meanwhile is forgotten, unless
\* another start or its task still holds it.
Raises(c) ==
  LET r == start[c].of IN
  /\ start' = [start EXCEPT ![c] = Idle]
  /\ room' = [room EXCEPT ![r] = IF \/ r \in listed \/ Live(r)
                                    \/ \E d \in Calls \ {c} : start[d].of = r
                                   THEN @ ELSE None]

HasLock(c) == Runs /\ start[c].at = "queued" /\ lock = None

\* The manager is closing, the room is not waiting any more, its configuration
\* is not complete, or a constructor fails: nothing has been changed.
StartRefused(c) ==
  /\ HasLock(c) /\ Raises(c)
  /\ UNCHANGED <<listed, disk, scope, lock, manager, store, settled, uncleaned,
                 failures, crashes>>

\* The room with its graph: run_started and agent_bindings_finalized are in the
\* transcript.
Published(o) == [o EXCEPT !.status = "running", !.rows = 2, !.prepared = "fresh"]

Startable(c) ==
  HasLock(c) /\ manager = "open" /\ room[start[c].of].status = "waiting"

\* Mutant: the graph that could not be saved stays on the waiting room.
StartRolledBackPartly(c) ==
  LET r == start[c].of IN
  /\ Startable(c)
  /\ \/ failures' = failures
     \/ Fits(Published(room[r]), 1) /\ MaySave(1)
  /\ room' = [room EXCEPT ![r] = [Published(@) EXCEPT !.status = "waiting"]]
  /\ start' = [start EXCEPT ![c].at = "closing"] /\ lock' = c
  /\ UNCHANGED <<listed, disk, scope, manager, store, settled, uncleaned, crashes>>

\* A failure once there is a session (the session itself, the capacity for the
\* next row, or the save of the running room): the waiting room is restored and
\* the session closed, under the lock.
StartRolledBack(c) ==
  LET r == start[c].of IN
  /\ Startable(c)
  /\ \/ failures' = failures
     \/ Fits(Published(room[r]), 1) /\ MaySave(1)
  /\ start' = [start EXCEPT ![c].at = "closing"] /\ lock' = c
  /\ UNCHANGED <<room, listed, disk, scope, manager, store, settled, uncleaned,
                 crashes>>

\* The running room is saved and announced, and its task created.
StartSucceeds(c) ==
  LET r == start[c].of
      o == [Published(room[r]) EXCEPT !.rows = 3, !.told = "running", !.task = "new"]
  IN  /\ Startable(c) /\ Fits(Published(room[r]), 1)
      /\ room' = [room EXCEPT ![r] = o]
      /\ disk' = [disk EXCEPT ![r] = Saved(r, o)]
      /\ start' = [start EXCEPT ![c] = Idle]
      /\ UNCHANGED <<listed, scope, lock, manager, store, settled, uncleaned,
                     failures, crashes>>

\* The running room is saved but its announcement is not: the room has failed.
\* The verdict is saved if that works, and the session is closed, under the
\* lock.
StartFails(c) ==
  LET r == start[c].of
      p == Published(room[r])
      o == [p EXCEPT !.status = "failed", !.stamped = TRUE, !.rows = 3, !.told = "failed"]
  IN  /\ Startable(c) /\ Fits(p, 1) /\ MaySave(1)
      /\ room' = [room EXCEPT ![r] = o]
      /\ \E row \in {Row(p), Row(o)} : disk' = [disk EXCEPT ![r] = row]
      /\ start' = [start EXCEPT ![c].at = "failing"] /\ lock' = c
      /\ UNCHANGED <<listed, scope, manager, store, settled, uncleaned, crashes>>

\* Mutant: the lock is kept when a start fails.
StartClosedLocked(c) ==
  /\ Runs /\ start[c].at = "closing" /\ Raises(c)
  /\ UNCHANGED <<listed, disk, scope, lock, manager, store, settled, uncleaned,
                 failures, crashes>>

\* _close_unclaimed_core_resources has ended, which is bounded in time:
\* start_game raises, and lets go of the lock.
StartClosed(c) ==
  /\ Runs /\ start[c].at = "closing" /\ Raises(c)
  /\ lock' = None
  /\ UNCHANGED <<listed, disk, scope, manager, store, settled, uncleaned,
                 failures, crashes>>

StartFailedClosed(c) ==
  LET r == start[c].of IN
  /\ Runs /\ start[c].at = "failing"
  /\ start' = [start EXCEPT ![c] = Idle] /\ lock' = None
  /\ room' = [room EXCEPT ![r].prepared = "none"]
  /\ scope' = [scope EXCEPT ![r] = "closed"]
  /\ UNCHANGED <<listed, disk, manager, store, settled, uncleaned,
                 failures, crashes>>

(***************************************************************************)
(* The task of a room: _run_core_room                                      *)
(***************************************************************************)

\* The task runs for the first time, and Core claims the prepared run; a task
\* cancelled before never runs.
TaskBegins(r) ==
  /\ Runs /\ room[r] # None /\ room[r].task = "new"
  /\ LET o == room[r] IN
     room' = [room EXCEPT
       ![r] = IF o.cancelled THEN [o EXCEPT !.task = "done"]
              ELSE [o EXCEPT !.task = "playing", !.prepared = "claimed"]]
  /\ UNCHANGED <<listed, disk, scope, start, lock, manager, store, settled,
                 uncleaned,
                 failures, crashes>>

Playing(r) == Runs /\ room[r] # None /\ room[r].task = "playing"

\* on_event, on_trace, and on_harness for a row that is not the verdict: the
\* row is saved, or rolled back and the failure latched.
Record(r) ==
  /\ Playing(r)
  /\ \E n \in 0 .. 1 :
       /\ MaySave(n)
       /\ LET w == EmitRow(r, Work(r, room[r]), n = 1) IN
          /\ room' = [room EXCEPT ![r] = [w.object EXCEPT !.sink = @ \/ ~w.ok]]
          /\ disk' = [disk EXCEPT ![r] = w.row]
  /\ UNCHANGED <<listed, scope, start, lock, manager, store, settled, uncleaned,
                 crashes>>

\* The verdicts of a game that ends, as the state of the room proves them:
\* _core_terminal_projection.  The last is a Core outcome it does not prove.
Projections == {"ended", "incomplete", "failed"}

\* The rows of a verdict: Core's, room_status, and game_error for a failure.
VerdictRows(verdict) == IF verdict = "failed" THEN 3 ELSE 2

\* on_harness for run_completed and run_incomplete, and the end of
\* _run_core_room, which follows without an await: Core's row and the verdict
\* are saved together.
RunCompletes(r) ==
  /\ Playing(r) /\ ~room[r].sink /\ ~room[r].cancelled
  /\ \E verdict \in Projections :
       /\ Fits(room[r], VerdictRows(verdict))
       /\ LET o == [room[r] EXCEPT !.status = verdict, !.told = verdict, !.stamped = TRUE,
                                   !.rows = @ + VerdictRows(verdict),
                                   !.prepared = "none", !.task = "done"]
          IN  Done(r, [object |-> o, row |-> Saved(r, o), ok |-> TRUE])
  /\ UNCHANGED <<listed, start, lock, manager, store, settled, uncleaned,
                 failures, crashes>>

\* Mutant: the verdict that could not be saved stays.
VerdictKept(r) ==
  /\ Playing(r) /\ ~room[r].sink /\ ~room[r].cancelled
  /\ \E verdict \in Projections :
       \/ /\ Fits(room[r], VerdictRows(verdict)) /\ MaySave(1)
          /\ room' = [room EXCEPT ![r].sink = TRUE, ![r].status = verdict]
       \/ /\ ~Fits(room[r], VerdictRows(verdict)) /\ UNCHANGED failures
          /\ room' = [room EXCEPT ![r].sink = TRUE, ![r].limit = TRUE]
  /\ UNCHANGED <<listed, disk, scope, start, lock, manager, store, settled,
                 uncleaned, crashes>>

\* The verdict has no place, or cannot be saved: it is rolled back and latched,
\* and Core makes a failure of the run.  After an earlier loss it is refused at
\* once, which changes nothing.
VerdictRefused(r) ==
  /\ Playing(r) /\ ~room[r].sink /\ ~room[r].cancelled
  /\ \E verdict \in Projections :
       \/ /\ Fits(room[r], VerdictRows(verdict)) /\ MaySave(1)
          /\ room' = [room EXCEPT ![r].sink = TRUE]
       \/ /\ ~Fits(room[r], VerdictRows(verdict)) /\ UNCHANGED failures
          /\ room' = [room EXCEPT ![r].sink = TRUE, ![r].limit = TRUE]
  /\ UNCHANGED <<listed, disk, scope, start, lock, manager, store, settled,
                 uncleaned, crashes>>

\* _finish_evidence_limit: the verdict is not added to evidence that is full.
\* Both notices save the room, and neither has to succeed.
LimitReached(r) ==
  /\ Playing(r) /\ room[r].limit /\ ~room[r].cancelled
  /\ LET o == [room[r] EXCEPT !.status = "failed", !.stamped = TRUE, !.prepared = "none",
                              !.task = "done"]
     IN  \/ failures' = failures /\ Done(r, [object |-> o, row |-> Saved(r, o), ok |-> TRUE])
         \/ /\ MaySave(1)
            /\ Done(r, [object |-> o, row |-> disk[r], ok |-> TRUE])
  /\ UNCHANGED <<listed, start, lock, manager, store, settled, uncleaned, crashes>>

\* Core returns a failure (also after an evidence failure), or that the deadline
\* has passed: game_error, then room_status.
RunFails(r) ==
  /\ Playing(r) /\ ~room[r].limit /\ ~room[r].cancelled
  /\ \E status \in {"failed", "timeout"}, n \in 0 .. 2 :
       /\ room[r].sink => status = "failed"
       /\ MaySave(n)
       /\ LET o == [room[r] EXCEPT !.status = status, !.prepared = "none", !.task = "done"]
          IN  Done(r, EmitStatus(r, EmitRow(r, Work(r, o), n = 1), n = 2))
  /\ UNCHANGED <<listed, start, lock, manager, store, settled, uncleaned, crashes>>

\* Core has unwound after a cancellation: failed if its cleanup has failed.
RunCancelled(r) ==
  /\ Playing(r) /\ room[r].cancelled
  /\ \E status \in {"failed", "cancelled"}, n \in 0 .. 1 :
       /\ MaySave(n)
       /\ LET o == [room[r] EXCEPT !.status = status, !.prepared = "none", !.task = "done"]
          IN  Done(r, EmitStatus(r, Work(r, o), n = 1))
  /\ UNCHANGED <<listed, start, lock, manager, store, settled, uncleaned, crashes>>

(***************************************************************************)
(* The end of the process                                                  *)
(***************************************************************************)

\* aclose: no new work from here on; then it waits for the lock.
CloseCalled ==
  /\ manager = "open" /\ manager' = "closing"
  /\ UNCHANGED <<room, listed, disk, scope, start, lock, store, settled, uncleaned,
                 failures, crashes>>

\* _cancel_claimed_core_tasks: every live task is cancelled, once.
CloseCancels ==
  /\ manager = "closing" /\ lock = None
  /\ manager' = "cancelling" /\ lock' = "aclose"
  /\ room' = [r \in Rooms |-> IF r \in listed /\ Live(r)
                                THEN [room[r] EXCEPT !.cancelled = TRUE] ELSE room[r]]
  /\ UNCHANGED <<listed, disk, scope, start, store, settled, uncleaned,
                 failures, crashes>>

\* Every task has ended, or the wait has; prepared runs that nobody claimed are
\* closed.  For any room, whatever its status, the task may have raised, a task
\* in quarantine may not end, or the session may not close.
CloseWaited ==
  /\ manager = "cancelling" /\ manager' = "settling"
  /\ uncleaned' \in SUBSET listed
  /\ room' = [r \in Rooms |-> IF r \in listed /\ ~Live(r)
                                THEN [room[r] EXCEPT !.prepared = "none"] ELSE room[r]]
  /\ UNCHANGED <<listed, disk, scope, start, lock, store, settled, failures, crashes>>

\* failure_by_room has an entry for the room.
CleanupFailed(r) == Live(r) \/ r \in uncleaned

\* _record_shutdown_room_state: failed if the cleanup has, whatever the room was
\* before; cancelled if it still runs without a task.  A row that cannot be saved
\* ends aclose.
CloseSettles(r) ==
  /\ manager = "settling" /\ r \in listed \ settled
  /\ settled' = settled \cup {r}
  /\ \E n \in 0 .. 3 :
       /\ MaySave(n)
       /\ LET o == room[r]
              w == IF CleanupFailed(r)
                     THEN EmitStatus(r,
                            EmitRow(r,
                              EmitRow(r, Work(r, [o EXCEPT !.status = "failed"]), n = 1),
                              n = 2),
                            n = 3)
                   ELSE IF o.status = "running"
                     THEN EmitStatus(r, Work(r, [o EXCEPT !.status = "cancelled"]), n = 1)
                   ELSE Work(r, o)
          IN  /\ room' = [room EXCEPT ![r] = w.object]
              /\ disk' = [disk EXCEPT ![r] = w.row]
              /\ scope' = [scope EXCEPT ![r] =
                             IF w.ok /\ (CleanupFailed(r) \/ o.status = "running")
                               THEN "closed" ELSE @]
              /\ manager' = IF w.ok THEN manager ELSE "closed"
              /\ lock' = IF w.ok THEN lock ELSE None
  /\ UNCHANGED <<listed, start, store, uncleaned, crashes>>

CloseSettled ==
  /\ manager = "settling" /\ settled = listed
  /\ manager' = "releasing"
  /\ UNCHANGED <<room, listed, disk, scope, start, lock, store, settled, uncleaned,
                 failures, crashes>>

\* The clients, the scopes, the router and the database are closed.
CloseEnds ==
  /\ manager = "releasing"
  /\ scope' = [r \in Rooms |-> IF r \in listed THEN "closed" ELSE scope[r]]
  /\ store' = "closed" /\ manager' = "closed" /\ lock' = None
  /\ UNCHANGED <<room, listed, disk, start, settled, uncleaned, failures, crashes>>

\* The process ends, at any point.
Crash ==
  /\ manager \notin {"down", "refused"}
  /\ crashes < MaxCrashes /\ crashes' = crashes + 1
  /\ room' = [r \in Rooms |-> None] /\ listed' = {}
  /\ scope' = [r \in Rooms |-> "none"]
  /\ start' = [c \in Calls |-> Idle] /\ lock' = None
  /\ manager' = "down" /\ store' = "open" /\ settled' = {} /\ uncleaned' = {}
  /\ UNCHANGED <<disk, failures>>

Stored == {r \in Rooms : disk[r] # None}

\* Mutant: a room that had started is interrupted, whatever became of it.
InterruptedUnlessWaiting(row) == row.status # "waiting"

\* _room_from_record: only a running room has been interrupted.
Interrupted(row) == row.status = "running"

\* The room of a row.
Restored(row) ==
  LET o == [NewRoom EXCEPT !.status = row.status, !.rows = row.rows, !.told = row.told,
                           !.stamped = row.status \in Terminal]
  IN  IF Interrupted(row)
        THEN [o EXCEPT !.status = "interrupted", !.told = "interrupted", !.stamped = TRUE,
                       !.rows = @ + 1]
        ELSE o

Restorable(r) == Interrupted(disk[r]) => disk[r].rows + 1 <= MaxEvidence

\* __init__ restores every row and saves it again.  It fails when one save does,
\* with the rows before it saved, and the process has to be started again.
Restart ==
  /\ manager = "down" /\ \A r \in Stored : Restorable(r)
  /\ \/ /\ room' = [r \in Rooms |-> IF r \in Stored THEN Restored(disk[r]) ELSE None]
        /\ listed' = Stored
        /\ disk' = [r \in Rooms |-> IF r \in Stored THEN Row(room'[r]) ELSE None]
        /\ scope' = [r \in Rooms |-> IF r \notin Stored THEN "none"
                                     ELSE IF room'[r].stamped THEN "closed" ELSE "open"]
        /\ manager' = "open" /\ UNCHANGED failures
     \/ /\ Stored # {} /\ MaySave(1)
        /\ \E before \in SUBSET Stored :
             /\ before # Stored
             /\ disk' = [r \in Rooms |-> IF r \in before THEN Row(Restored(disk[r]))
                                         ELSE disk[r]]
        /\ UNCHANGED <<room, listed, scope, manager>>
  /\ UNCHANGED <<start, lock, store, settled, uncleaned, crashes>>

\* A row that has no place for the interruption: __init__ raises, each time.
RestartRefused ==
  /\ manager = "down" /\ \E r \in Stored : ~Restorable(r)
  /\ manager' = "refused"
  /\ UNCHANGED <<room, listed, disk, scope, start, lock, store, settled, uncleaned,
                 failures, crashes>>

Starting(c) ==
  \/ StartRefused(c) \/ StartRolledBack(c) \/ StartSucceeds(c) \/ StartFails(c)
  \/ StartClosed(c) \/ StartFailedClosed(c)

Next ==
  \/ \E r \in Rooms :
       \/ CreateRoom(r) \/ DeleteRoom(r) \/ ExpireRoom(r)
       \/ \E c \in Calls : RequestStart(c, r)
       \/ TaskBegins(r) \/ Record(r) \/ RunCompletes(r) \/ VerdictRefused(r)
       \/ LimitReached(r) \/ RunFails(r) \/ RunCancelled(r) \/ CloseSettles(r)
  \/ \E c \in Calls : Starting(c)
  \/ CloseCalled \/ CloseCancels \/ CloseWaited \/ CloseSettled \/ CloseEnds
  \/ Crash \/ Restart \/ RestartRefused

Spec == Init /\ [][Next]_vars

\* A start that has the lock goes on, and what it awaits is bounded; so is every
\* wait of aclose.  That a run ends is taken from CoreRunner.LifecycleEnds, its
\* sinks being the room manager's own saves, which return or raise.
Ending(r) == RunCompletes(r) \/ LimitReached(r) \/ RunFails(r) \/ RunCancelled(r)

Closing ==
  \/ CloseCancels \/ CloseWaited \/ CloseSettled \/ CloseEnds
  \/ \E r \in Rooms : CloseSettles(r)

FairSpec ==
  /\ Spec
  /\ \A c \in Calls : SF_vars(Starting(c))
  /\ \A r \in Rooms : WF_vars(TaskBegins(r) \/ Ending(r))
  /\ SF_vars(Closing)

(***************************************************************************)
(* Properties                                                              *)
(***************************************************************************)

\* Types, and the evidence never passes its limit, in memory or in a row.
TypeOK ==
  /\ room \in [Rooms -> RoomObjects \cup {None}]
  /\ listed \subseteq {r \in Rooms : room[r] # None}
  /\ disk \in [Rooms -> RoomRows \cup {None}]
  /\ scope \in [Rooms -> {"none", "open", "closed"}]
  /\ start \in [Calls -> [at : {"idle", "queued", "closing", "failing"},
                        of : Rooms \cup {None}]]
  /\ lock \in Calls \cup {"aclose", None}
  /\ manager \in {"open", "closing", "cancelling", "settling", "releasing", "closed",
                  "down", "refused"}
  /\ store \in {"open", "closed"}
  /\ settled \subseteq Rooms /\ uncleaned \subseteq Rooms
  /\ failures \in 0 .. MaxOutages /\ crashes \in 0 .. MaxCrashes

\* A start either leaves the room as it was or leaves it running with
\* everything a run needs: its row, its task, its graph and its budget.  (The
\* first conjunct bounds the evidence, in memory and in a row.)
StartIsAllOrNothing ==
  /\ TypeOK
  /\ \A r \in listed :
      /\ room[r].status = "waiting" => room[r] = NewRoom /\ disk[r] = Row(NewRoom)
      /\ room[r].status = "running" /\ manager \in {"open", "closing"} =>
           /\ disk[r] # None /\ disk[r].status = "running"
           /\ Live(r) /\ scope[r] = "open"
           /\ room[r].prepared = IF room[r].task = "new" THEN "fresh" ELSE "claimed"

\* A game counts as played only when the row says so and its evidence ends with
\* that status, whatever save failed before; and the budget is given back.
VerdictIsDurable ==
  \A r \in listed :
    room[r].status \in Success =>
      /\ disk[r] # None /\ disk[r].status = room[r].status
      /\ disk[r].told = room[r].status
      /\ scope[r] = "closed"

\* What is over stays over, across restarts and shutdowns: a row with a verdict
\* keeps one, and none but the verdict of the game is ever a success.  A success
\* is taken back by nothing but a shutdown that cannot clean up after the room,
\* which makes a failure of it.
OutcomeIsFinal ==
  [][\A r \in Rooms :
       disk[r] # None /\ disk'[r] # None /\ disk[r].status \in Terminal =>
         /\ disk'[r].status \in Terminal
         /\ disk'[r].status \in Success => disk'[r].status = disk[r].status
         /\ disk[r].status \in Success /\ disk'[r].status # disk[r].status =>
              /\ manager = "settling" /\ r \in uncleaned
              /\ disk'[r].status = "failed"]_vars

\* Every start is answered, every run ends, and aclose returns, or else the
\* process ends first.
RoomsSettle ==
  /\ \A c \in Calls : start[c] # Idle ~> start[c] = Idle \/ manager = "closed"
  /\ \A r \in Rooms : Live(r) ~> ~Live(r) \/ manager = "closed"
  /\ manager = "closing" ~> manager \in {"closed", "down"}

\* The rooms survive a restart (docs/QUALITY_GATES.md, O-001).  It does not
\* hold when a process ends while a running room has all the rows it may have.
RoomsSurviveRestart == manager # "refused"
=============================================================================
