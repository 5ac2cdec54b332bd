---------------------------- MODULE RoomDelivery ----------------------------
(***************************************************************************)
(* How a room's events reach its pages: the delivery streams of            *)
(* src/api/room_manager.py, the WebSocket clients with their bounded       *)
(* queues, the capabilities that admit them, the row in which all of it is *)
(* saved, and the reconnecting page of frontend/src/lib/ws-client.ts.      *)
(*                                                                         *)
(* One event loop owns every socket, as the service runs with one worker:  *)
(* a section of code without an await is one step.  A frame lost in a      *)
(* closing socket counts as a frame not sent.                              *)
(***************************************************************************)
EXTENDS Integers, Sequences, FiniteSets

CONSTANTS
    Readers,      \* the pages
    KeyOf,        \* the audience stream each page follows
    Keys,         \* the audiences: "spectate", "god", "play:<seat>"
    Guarded,      \* those that need a capability
    Sees,         \* of each kind of event, the audiences it is visible to
    Payloads,     \* what is published in one transaction: sequences of kinds
    Conns,        \* identities for sockets, used again after a close
    HistorySize,  \* ws_delivery_history_size
    QueueSize,    \* ws_client_queue_size
    MaxClients,   \* max_ws_clients_per_room
    MaxEvents,    \* bound on the events published
    MaxVersion,   \* bound on the capability changes
    MaxFaults,    \* bound on failed saves, lost sockets and crashes
    Nobody        \* no reader, no socket, no cursor, nothing shown

\* The sizes are the ones RoomManager.__init__ accepts.
ASSUME DeliveryAssumption ==
    /\ KeyOf \in [Readers -> Keys] /\ Guarded \subseteq Keys
    /\ Payloads \subseteq Seq(DOMAIN Sees)
    /\ {HistorySize, QueueSize, MaxClients} \subseteq Nat \ {0}
    /\ {MaxEvents, MaxVersion, MaxFaults} \subseteq Nat

ASSUME NobodyAssumption ==
    /\ Nobody \notin Nat
    /\ Nobody \notin Readers \union Conns

VARIABLES
    room,     \* source cursor and window, streams, capabilities: in memory
    disk,     \* the same as last saved, without the streams' histories
    clients,  \* room.clients: the sockets registered
    conn,     \* of each socket: its owner, phase, frames to send
    page,     \* of each reader: GameSocket
    log,      \* the events committed, per stream (history variable)
    faults    \* what is left of MaxFaults

vars == <<room, disk, clients, conn, page, log, faults>>

Kinds == DOMAIN Sees
Lifecycle == {"status"}
Replayable(kind) == kind \notin Lifecycle

(* ------------------------------ the streams ----------------------------- *)
(* An event has a number in the room, and another one in every stream.       *)
Events == [seq : Nat, kind : Kinds]
Records == [seq : Nat, event : Events]
SeenBy(k) == {e \in Events : k \in Sees[e.kind]}

(* The elements of s that are in S, in their order.  (A recursive function,  *)
(* which can be reasoned about, where SelectSeq cannot.)                     *)
Only(s, S) ==
    LET only[n \in 0..Len(s)] ==
            IF n = 0 THEN <<>>
            ELSE IF s[n] \in S THEN Append(only[n - 1], s[n]) ELSE only[n - 1]
    IN  only[Len(s)]

Recent(history) ==
    SubSeq(history, IF Len(history) > HistorySize THEN Len(history) - HistorySize + 1 ELSE 1,
           Len(history))

Numbered(cursor, events) ==
    [i \in 1..Len(events) |-> [seq |-> cursor + i, event |-> events[i]]]

EmptyStream(cursor, gap) == [cursor |-> cursor, history |-> <<>>, gap |-> gap]

Extended(stream, events) ==
    [cursor  |-> stream.cursor + Len(events),
     history |-> Recent(stream.history \o Numbered(stream.cursor, events)),
     gap     |-> stream.gap \/ Len(stream.history) + Len(events) > HistorySize]

(* The events of a transaction, and those an audience sees. *)
Staged(r, kinds) == [i \in 1..Len(kinds) |-> [seq |-> r.seq + i, kind |-> kinds[i]]]
Visible(r, kinds, k) == Only(Staged(r, kinds), SeenBy(k))

Publish(r, kinds) ==
    [r EXCEPT !.seq = @ + Len(kinds),
              !.source = Recent(@ \o Staged(r, kinds)),
              !.streams = [k \in Keys |-> Extended(@[k], Visible(r, kinds, k))]]

(* The row that is saved, and the room a restart makes of it. *)
Record(r) == [seq |-> r.seq, source |-> r.source, cap |-> r.cap,
              meta |-> [k \in Keys |-> [cursor |-> r.streams[k].cursor, gap |-> r.streams[k].gap]]]

\* Mutant: a restart numbers the events of the window from one.
RestoredStreamFromOne(row, k) ==
    Extended(EmptyStream(0, row.meta[k].gap), Only(row.source, SeenBy(k)))

RestoredStream(row, k) ==
    LET visible == Only(row.source, SeenBy(k))
        base == row.meta[k].cursor - Len(visible)
    IN  Extended(EmptyStream(base, row.meta[k].gap \/ base > 0), visible)

\* Mutant: a restart hands out the first capabilities again.
RestoredAtFirstVersion(row) ==
    [seq |-> row.seq, source |-> row.source,
     cap |-> [k \in Guarded |-> [version |-> 1, live |-> TRUE]],
     streams |-> [k \in Keys |-> RestoredStream(row, k)]]

Restored(row) == [seq |-> row.seq, source |-> row.source, cap |-> row.cap,
                  streams |-> [k \in Keys |-> RestoredStream(row, k)]]

\* Mutant: the staged events stay when the save fails.
NotRolledBack(before, staged) == staged

(* What a failed save leaves in memory. *)
RolledBack(before, staged) == before

(* ----------------------------- the sockets ------------------------------ *)
Free == [reader |-> Nobody, phase |-> "free", since |-> Nobody, version |-> 0,
         todo |-> <<>>, queue |-> <<>>, code |-> 0]

KeyOfConn == [c \in Conns |-> IF conn[c].reader = Nobody THEN Nobody ELSE KeyOf[conn[c].reader]]
Attached(r) == page[r].socket # Nobody

Pong == [seq |-> 0, event |-> Nobody]

(* A socket that leaves room.clients: its tasks are cancelled, its close sent. *)
Closing(c, code) == [conn[c] EXCEPT !.phase = "closing", !.todo = <<>>, !.queue = <<>>, !.code = code]

Overflows(c, frames) == Len(conn[c].queue) + Len(frames) > QueueSize

Enqueued(c, frames) ==
    IF Overflows(c, frames) THEN Closing(c, 4410)
    ELSE [conn[c] EXCEPT !.queue = @ \o frames]

(* The frames a transaction makes for the clients of k. *)
NewFrames(kinds, k) == Numbered(room.streams[k].cursor, Visible(room, kinds, k))
Outbound(kinds) == [c \in clients |-> NewFrames(kinds, KeyOfConn[c])]

Distribute(frames) ==
    /\ conn' = [c \in Conns |-> IF c \in clients /\ frames[c] # <<>>
                                THEN Enqueued(c, frames[c]) ELSE conn[c]]
    /\ clients' = {c \in clients : frames[c] = <<>> \/ ~Overflows(c, frames[c])}

LogWith(kinds) == [k \in Keys |-> log[k] \o Visible(room, kinds, k)]

Init ==
    /\ room = [seq |-> 0, source |-> <<>>, streams |-> [k \in Keys |-> EmptyStream(0, FALSE)],
               cap |-> [k \in Guarded |-> [version |-> 1, live |-> TRUE]]]
    /\ disk = Record(room)
    /\ clients = {}
    /\ conn = [c \in Conns |-> Free]
    /\ page = [r \in Readers |-> [last |-> 0, opening |-> Nobody, socket |-> Nobody, want |-> TRUE,
                                  version |-> 1, told |-> FALSE, shown |-> Nobody]]
    /\ log = [k \in Keys |-> <<>>]
    /\ faults = MaxFaults

(* _broadcast, and the delivery part of the harness recorder: staged, saved, *)
(* then queued for every client registered.                                  *)
Broadcast(kinds) ==
    LET staged == Publish(room, kinds)
    IN  /\ room.seq + Len(kinds) <= MaxEvents
        /\ room' = staged
        /\ disk' = Record(staged)
        /\ log' = LogWith(kinds)
        /\ Distribute(Outbound(kinds))
        /\ UNCHANGED <<page, faults>>

BroadcastNotSaved(kinds) ==
    /\ faults > 0
    /\ room.seq + Len(kinds) <= MaxEvents
    /\ room' = RolledBack(room, Publish(room, kinds))
    /\ faults' = faults - 1
    /\ UNCHANGED <<disk, clients, conn, page, log>>

(* ----------------------------- capabilities ----------------------------- *)
Holders(k) == {c \in clients : KeyOfConn[c] = k}

InvalidateConnections(k) ==
    /\ conn' = [c \in Conns |-> IF c \in Holders(k) THEN Closing(c, 4403) ELSE conn[c]]
    /\ clients' = clients \ Holders(k)

(* Rotation (live) or revocation, saved before the old sockets are dropped. *)
ChangeCapability(k, live) ==
    /\ room.cap[k].version < MaxVersion
    /\ room' = [room EXCEPT !.cap[k] = [version |-> @.version + 1, live |-> live]]
    /\ disk' = Record(room')
    /\ InvalidateConnections(k)
    /\ UNCHANGED <<page, log, faults>>

ChangeCapabilityNotSaved(k, live) ==
    /\ faults > 0
    /\ room.cap[k].version < MaxVersion
    /\ room' = RolledBack(room, [room EXCEPT !.cap[k] = [version |-> @.version + 1, live |-> live]])
    /\ faults' = faults - 1
    /\ UNCHANGED <<disk, clients, conn, page, log>>

Authorized(r) ==
    KeyOf[r] \in Guarded => /\ room.cap[KeyOf[r]].live
                            /\ room.cap[KeyOf[r]].version = page[r].version

(* -------------------------------- connect ------------------------------- *)
Earliest(stream) == IF stream.history = <<>> THEN stream.cursor + 1 ELSE Head(stream.history).seq

Replays(since) ==
    {f \in Records : IF since = Nobody THEN Replayable(f.event.kind) ELSE f.seq > since}
ReplayFrom(stream, since) == Only(stream.history, Replays(since))

Snapshot(stream, since) ==
    LET replay == ReplayFrom(stream, since)
    IN  [seq |-> -1,
         base |-> (IF replay = <<>> THEN stream.cursor + 1 ELSE Head(replay).seq) - 1,
         gap |-> since = Nobody /\ (stream.gap \/ Earliest(stream) > 1)]

Refusal(r, since) ==
    LET stream == room.streams[KeyOf[r]]
    IN  IF ~Authorized(r) THEN 4403
        ELSE IF Cardinality(clients) >= MaxClients THEN 4429
        ELSE IF since = Nobody THEN 0
        ELSE IF since > stream.cursor THEN 4400
        ELSE IF since < Earliest(stream) - 1 THEN 4409 ELSE 0

Opening(r) == IF page[r].last > 0 THEN page[r].last ELSE Nobody

CanOpen(r) == page[r].want /\ ~Attached(r)

(* Registration and the cut between replay and live events are one step. *)
Connect(r, c) ==
    LET stream == room.streams[KeyOf[r]]
    IN  /\ CanOpen(r)
        /\ conn[c].phase = "free"
        /\ Refusal(r, Opening(r)) = 0
        /\ clients' = clients \union {c}
        /\ conn' = [conn EXCEPT ![c] =
               [Free EXCEPT !.reader = r, !.phase = "handshake", !.since = Opening(r),
                            !.version = page[r].version,
                            !.todo = <<Snapshot(stream, Opening(r))>> \o ReplayFrom(stream, Opening(r))]]
        /\ page' = [page EXCEPT ![r].socket = c, ![r].opening = Opening(r)]
        /\ UNCHANGED <<room, disk, log, faults>>

\* Mutant: the page keeps its cursor when the history has a gap.
AfterCloseKeepingCursor(p, code) ==
    [p EXCEPT !.want = code \notin {4400, 4403, 4410, 4429}, !.socket = Nobody]

(* _reconnectForClose: a history gap asks for a fresh cursor, the rest is final. *)
AfterClose(p, code) ==
    IF code = 4409 THEN [p EXCEPT !.last = 0, !.opening = Nobody, !.socket = Nobody]
    ELSE [p EXCEPT !.want = code \notin {4400, 4403, 4410, 4429}, !.socket = Nobody]

ConnectRefused(r) ==
    /\ CanOpen(r)
    /\ \E c \in Conns : conn[c].phase = "free"
    /\ Refusal(r, Opening(r)) # 0
    /\ page' = [page EXCEPT ![r] = AfterClose(@, Refusal(r, Opening(r)))]
    /\ UNCHANGED <<room, disk, clients, conn, log, faults>>

(* -------------------------- what the page does -------------------------- *)
AcceptSnapshot(p, s) ==
    [p EXCEPT !.last = IF p.opening = Nobody THEN s.base ELSE p.opening, !.told = s.gap]

IsResync(p, f) == f.seq > p.last + 1

AcceptDelivery(p, f) ==
    IF f.seq <= p.last THEN p
    ELSE [p EXCEPT !.last = f.seq, !.shown = f.event]

(* _recoverableProtocolFailure: forget the cursor, close, open afresh. *)
Resynced(p) == [p EXCEPT !.last = 0, !.opening = Nobody, !.socket = Nobody]

Accept(p, f) ==
    IF f.seq = -1 THEN AcceptSnapshot(p, f)
    ELSE IF IsResync(p, f) THEN Resynced(p) ELSE AcceptDelivery(p, f)

Listens(c) == page[conn[c].reader].socket = c

Deliver(c, f) ==
    page' = IF Listens(c) THEN [page EXCEPT ![conn[c].reader] = Accept(@, f)] ELSE page

(* The handshake of connect: the snapshot, the replay, then the writer starts. *)
HandshakeSend(c) ==
    /\ conn[c].phase = "handshake"
    /\ Deliver(c, Head(conn[c].todo))
    /\ conn' = [conn EXCEPT ![c].todo = Tail(@),
                            ![c].phase = IF Len(conn[c].todo) = 1 THEN "live" ELSE @]
    /\ UNCHANGED <<room, disk, clients, log, faults>>

WriterSend(c) ==
    /\ conn[c].phase = "live"
    /\ conn[c].queue # <<>>
    /\ Deliver(c, Head(conn[c].queue))
    /\ conn' = [conn EXCEPT ![c].queue = Tail(@)]
    /\ UNCHANGED <<room, disk, clients, log, faults>>

HasPong(c) == \E i \in DOMAIN conn[c].queue : conn[c].queue[i] = Pong

(* A ping is answered through the queue, and overflows it like an event. *)
Ping(c) ==
    /\ conn[c].phase = "live" /\ c \in clients /\ Listens(c)
    /\ ~HasPong(c)
    /\ Distribute([d \in clients |-> IF d = c THEN <<Pong>> ELSE <<>>])
    /\ UNCHANGED <<room, disk, page, log, faults>>

PongTimeout(c) ==
    /\ HasPong(c) /\ Listens(c)
    /\ page' = [page EXCEPT ![conn[c].reader] = Resynced(@)]
    /\ UNCHANGED <<room, disk, clients, conn, log, faults>>

(* --------------------------- losses and crashes ------------------------- *)
(* The page sees the close the server has sent. *)
CloseArrives(c) ==
    /\ conn[c].phase = "closing"
    /\ page' = IF Listens(c)
               THEN [page EXCEPT ![conn[c].reader] = AfterClose(@, conn[c].code)] ELSE page
    /\ conn' = [conn EXCEPT ![c] = Free]
    /\ UNCHANGED <<room, disk, clients, log, faults>>

(* The transport breaks: the page notices, and opens again from its cursor. *)
SocketLost(r) ==
    /\ faults > 0
    /\ Attached(r)
    /\ page' = [page EXCEPT ![r].socket = Nobody]
    /\ faults' = faults - 1
    /\ UNCHANGED <<room, disk, clients, conn, log>>

(* disconnect: by the receive loop, or after a send that failed. *)
Disconnect(c) ==
    /\ c \in clients
    /\ ~Listens(c)
    /\ clients' = clients \ {c}
    /\ conn' = [conn EXCEPT ![c] = Free]
    /\ UNCHANGED <<room, disk, page, log, faults>>

(* A restart restores the room from its row, and saves what it restored. *)
Restart(row) ==
    /\ faults > 0
    /\ room' = Restored(row)
    /\ disk' = Record(room')
    /\ clients' = {}
    /\ conn' = [c \in Conns |-> Free]
    /\ page' = [r \in Readers |-> [page[r] EXCEPT !.socket = Nobody]]
    /\ faults' = faults - 1

Crash == Restart(disk) /\ UNCHANGED log

(* The process dies between the save of a broadcast and its queueing. *)
CrashAfterSave(kinds) ==
    LET staged == Publish(room, kinds)
    IN  /\ room.seq + Len(kinds) <= MaxEvents
        /\ log' = LogWith(kinds)
        /\ Restart(Record(staged))

(* The user opens the page again, with the capability of now. *)
Reload(r) ==
    /\ ~page[r].want
    /\ ~Attached(r)
    /\ page' = [page EXCEPT ![r] = [@ EXCEPT !.last = 0, !.opening = Nobody, !.want = TRUE,
                   !.version = IF KeyOf[r] \in Guarded THEN room.cap[KeyOf[r]].version ELSE 1]]
    /\ UNCHANGED <<room, disk, clients, conn, log, faults>>

Next ==
    \/ \E kinds \in Payloads : Broadcast(kinds) \/ BroadcastNotSaved(kinds) \/ CrashAfterSave(kinds)
    \/ \E k \in Guarded, live \in BOOLEAN : ChangeCapability(k, live) \/ ChangeCapabilityNotSaved(k, live)
    \/ \E r \in Readers, c \in Conns : Connect(r, c)
    \/ \E r \in Readers : ConnectRefused(r) \/ SocketLost(r) \/ Reload(r)
    \/ \E c \in Conns : HandshakeSend(c) \/ WriterSend(c) \/ CloseArrives(c) \/ Disconnect(c)
                        \/ Ping(c) \/ PongTimeout(c)
    \/ Crash

Spec == Init /\ [][Next]_vars

(* Sockets that accept what is sent to them, closes that arrive, pages that reconnect. *)
Fairness ==
    /\ \A c \in Conns : WF_vars(HandshakeSend(c)) /\ WF_vars(WriterSend(c))
                        /\ WF_vars(CloseArrives(c)) /\ WF_vars(Disconnect(c))
    /\ \A r \in Readers : WF_vars(ConnectRefused(r)) /\ WF_vars(\E c \in Conns : Connect(r, c))

FairSpec == Spec /\ Fairness

-----------------------------------------------------------------------------
(* What a socket still has to send, and which of it is deliveries. *)
Unsent(c) == conn[c].todo \o conn[c].queue
Deliveries(c) == {i \in DOMAIN Unsent(c) : Unsent(c)[i].seq > 0}

(* Type invariant, and the bounds of the queues and of the histories. *)
TypeOK ==
    /\ clients \subseteq Conns
    /\ Cardinality(clients) <= MaxClients
    /\ \A c \in Conns : /\ conn[c].phase \in {"free", "handshake", "live", "closing"}
                        /\ c \in clients <=> conn[c].phase \in {"handshake", "live"}
                        /\ Len(conn[c].queue) <= QueueSize
    /\ \A k \in Keys : Len(room.streams[k].history) <= HistorySize
    /\ \A r \in Readers : page[r].socket \in Conns \union {Nobody}

(* Nothing is visible before it is durable (_broadcast stages, saves, then   *)
(* queues): no page has been shown an event, and no socket holds one, beyond *)
(* the cursor of the saved row, so that no page ever comes back with a       *)
(* cursor of the future.                                                     *)
SavedBeforeVisible ==
    /\ \A r \in Readers : page[r].last <= disk.meta[KeyOf[r]].cursor
    /\ \A c \in clients : \A i \in Deliveries(c) :
          Unsent(c)[i].seq <= disk.meta[KeyOfConn[c]].cursor

(* A registered client is owed event n of its stream: it comes after the     *)
(* place the snapshot to be sent starts at, or not before what is to be sent. *)
Owed(c, n) ==
    IF Unsent(c) # <<>> /\ Head(Unsent(c)).seq = -1
    THEN n > (IF conn[c].since # Nobody THEN conn[c].since ELSE Head(Unsent(c)).base)
    ELSE \E i \in Deliveries(c) : Unsent(c)[i].seq <= n

(* What a registered client still has to be sent ends at its stream's cursor *)
(* and has no hole, but for the lifecycle events a fresh snapshot replaces:  *)
(* registration and the cut of the replay are one section (connect), so an   *)
(* event is neither lost between replay and live delivery nor sent twice.    *)
NothingBetweenReplayAndLive ==
    \A c \in clients :
        LET k == KeyOfConn[c]
        IN  /\ \A i, j \in Deliveries(c) : i < j => Unsent(c)[i].seq < Unsent(c)[j].seq
            /\ \A n \in 1..Len(log[k]) : Owed(c, n) =>
                  \/ \E i \in Deliveries(c) : Unsent(c)[i] = [seq |-> n, event |-> log[k][n]]
                  \/ conn[c].since = Nobody /\ ~Replayable(log[k][n].kind)

(* Both: at every moment the sockets of a room hold what is saved, and all   *)
(* of what they are still owed.                                              *)
DurableBeforeVisible == TypeOK /\ SavedBeforeVisible /\ NothingBetweenReplayAndLive

(* Registration and rotation share a lock (capability_lock): a socket that   *)
(* is registered holds the capability its stream asks for now.               *)
RegisteredAreAuthorized ==
    \A c \in clients : KeyOfConn[c] \in Guarded =>
        /\ room.cap[KeyOfConn[c]].live
        /\ room.cap[KeyOfConn[c]].version = conn[c].version

(* A capability rotated or revoked stays so, a crash right after included:   *)
(* no restart brings back the version before, and no socket keeps it.        *)
RevocationIsFinal ==
    /\ []RegisteredAreAuthorized
    /\ [][\A k \in Guarded :
            /\ room'.cap[k].version >= room.cap[k].version
            /\ room'.cap[k].version = room.cap[k].version =>
                  room'.cap[k].live = room.cap[k].live]_vars

DL == INSTANCE DeliveryLog WITH
        Audiences <- Keys, AudienceOf <- KeyOf, Nothing <- Nobody,
        Lifecycle <- [seq : Nat, kind : Lifecycle],
        place <- [r \in Readers |-> page[r].last],
        shown <- [r \in Readers |-> page[r].shown],
        told <- [r \in Readers |-> page[r].told]

(* The delivery implements the log a reader goes through one event at a      *)
(* time: across queues, overflows, reconnections and restarts the same       *)
(* number names the same event, none is skipped, and a fresh start that      *)
(* leaves out more than lifecycle events says so (history_gap).              *)
DeliverySpec == DL!Spec

CaughtUp(r) ==
    \A n \in DOMAIN log[KeyOf[r]] : n > page[r].last => ~Replayable(log[KeyOf[r]][n].kind)

(* A page that still wants the stream catches up with it, from a fresh       *)
(* snapshot too: "all other room messages remain available for an initial    *)
(* replay" (_broadcast).  It does not hold: the replay skips lifecycle       *)
(* events, and the page takes the hole for a loss and opens afresh for ever. *)
PagesCatchUp == \A r \in Readers : []<>(page[r].want => CaughtUp(r))

(* As long as no lifecycle event is published, they do: through overflows,   *)
(* restarts, heartbeats that fail and histories that no longer reach back to *)
(* the page's cursor, a page that is not told to stop sees every event.      *)
PagesCatchUpOnReplayableEvents ==
    [](\A k \in Keys : \A i \in DOMAIN log[k] : Replayable(log[k][i].kind)) => PagesCatchUp
=============================================================================
