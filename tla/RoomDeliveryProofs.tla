-------------------------- MODULE RoomDeliveryProofs --------------------------
(***************************************************************************)
(* Proofs about RoomDelivery, for any pages, sockets, audiences and         *)
(* transactions, any sizes of histories and queues, and any number of       *)
(* failed saves, lost sockets and crashes.                                  *)
(***************************************************************************)
EXTENDS RoomDelivery, SequenceTheorems, FiniteSetTheorems, WellFoundedInduction, TLAPS

-----------------------------------------------------------------------------
(* The invariant.                                                           *)

Capabilities == [Guarded -> [version : Nat, live : BOOLEAN]]
Streams == [cursor : Nat, history : Seq(Records), gap : BOOLEAN]
Snapshots == [seq : {-1}, base : Nat, gap : BOOLEAN]
Sockets == [reader : Readers \cup {Nobody}, phase : {"free", "handshake", "live", "closing"},
            since : Nat \cup {Nobody}, version : Nat,
            todo : Seq(Snapshots \cup Records), queue : Seq(Records \cup {Pong}), code : Nat]
Pages == [last : Nat, opening : Nat \cup {Nobody}, socket : Conns \cup {Nobody},
          want : BOOLEAN, version : Nat, told : BOOLEAN, shown : Events \cup {Nobody}]

\* t is the end of s.
EndOf(t, s) ==
    /\ Len(t) <= Len(s)
    /\ \A i \in 1..Len(t) : t[i] = s[Len(s) - Len(t) + i]

\* Frame n of a stream with the log l.
Frame(n, l) == [seq |-> n, event |-> l[n]]

\* A stream ends its log, and so does what a restart would make of the window.
StreamFits(stream, source, l, k) ==
    /\ stream \in Streams
    /\ stream.cursor = Len(l)
    /\ Len(stream.history) <= HistorySize
    /\ EndOf(stream.history, Numbered(0, l))
    /\ EndOf(Only(source, SeenBy(k)), l)

\* What a socket still has to send, w, given the log of its stream and the place
\* it was asked for: events of the log in their order, behind a snapshot at most.
FramesFit(w, l) ==
    /\ \A i \in DOMAIN w :
          \/ i = 1 /\ w[i] \in Snapshots
          \/ w[i] = Pong
          \/ \E n \in 1..Len(l) : w[i] = Frame(n, l)
    /\ \A i, j \in DOMAIN w : i < j /\ w[i].seq > 0 /\ w[j].seq > 0 => w[i].seq < w[j].seq

AtSnapshot(w) == w # <<>> /\ w[1].seq = -1
StartsAt(w, since) == IF since # Nobody THEN since ELSE w[1].base
Due(w, since, n) ==
    IF AtSnapshot(w) THEN n > StartsAt(w, since)
    ELSE \E i \in DOMAIN w : w[i].seq > 0 /\ w[i].seq <= n

\* From the place where it starts, nothing is missing but lifecycle events.
NothingMissing(w, l, since) ==
    \A n \in 1..Len(l) : Due(w, since, n) =>
        \/ \E i \in DOMAIN w : w[i] = Frame(n, l)
        \/ since = Nobody /\ ~Replayable(l[n].kind)

\* The snapshot says where it starts and what it leaves out.
SnapshotFits(w, l, since) ==
    AtSnapshot(w) =>
        /\ StartsAt(w, since) <= Len(l)
        /\ \A i \in DOMAIN w : w[i].seq > 0 => w[i].seq > StartsAt(w, since)
        /\ since # Nobody => ~w[1].gap
        /\ since = Nobody /\ ~w[1].gap =>
              \A n \in 1..w[1].base : ~Replayable(l[n].kind)

UnsentFits(w, l, since) ==
    FramesFit(w, l) /\ NothingMissing(w, l, since) /\ SnapshotFits(w, l, since)

\* A page that waits for its snapshot has not moved since it asked for it.
PageWaits(p, c, s) ==
    p.socket = c /\ AtSnapshot(s.todo) =>
        /\ p.opening = s.since
        /\ s.since # Nobody => p.last = s.since

\* A socket and its place in room.clients.
SocketFits(s, in) ==
    /\ s \in Sockets
    /\ in \in BOOLEAN
    /\ in <=> s.phase \in {"handshake", "live"}
    /\ s.phase # "free" => s.reader \in Readers
    /\ s.phase = "handshake" <=> s.todo # <<>>
    /\ ~in => s.queue = <<>>
    /\ Len(s.queue) <= QueueSize

\* A registered client holds the capability its audience asks for.
Holds(s, cap) ==
    KeyOf[s.reader] \in Guarded => /\ cap[KeyOf[s.reader]].live
                                   /\ cap[KeyOf[s.reader]].version = s.version

\* Client c: its socket s, the page p that opened it, the log of its stream.
ClientFits(s, p, c, l, cap) ==
    UnsentFits(s.todo \o s.queue, l, s.since) /\ PageWaits(p, c, s) /\ Holds(s, cap)

\* The room in memory, given the logs of its streams.
RoomFits(r, logs) ==
    /\ logs \in [Keys -> Seq(Events)]
    /\ r \in [seq : Nat, source : Seq(Events), streams : [Keys -> Streams], cap : Capabilities]
    /\ \A k \in Keys : StreamFits(r.streams[k], r.source, logs[k], k)

PagesFit(pages, logs) ==
    /\ pages \in [Readers -> Pages]
    /\ \A r \in Readers : pages[r].last <= Len(logs[KeyOf[r]])

ClientsBounded == clients \subseteq Conns /\ IsFiniteSet(clients) /\ Cardinality(clients) <= MaxClients

DeliveryInv ==
    /\ RoomFits(room, log)
    /\ disk = Record(room)
    /\ PagesFit(page, log)
    /\ ClientsBounded
    /\ conn \in [Conns -> Sockets]
    /\ \A c \in Conns : SocketFits(conn[c], c \in clients)
    /\ \A c \in clients : ClientFits(conn[c], page[conn[c].reader], c, log[KeyOf[conn[c].reader]], room.cap)
    /\ faults \in Nat

-----------------------------------------------------------------------------
(* Induction, as a fact about sets of numbers, and what Only picks.          *)

\* What holds of 0, and of n + 1 when of n, holds of every number.
LEMMA Induction ==
    ASSUME NEW P \in SUBSET Nat, 0 \in P, \A n \in P : n + 1 \in P
    PROVE  P = Nat
<1> SUFFICES ASSUME P # Nat PROVE FALSE
  OBVIOUS
<1> DEFINE Rest == Nat \ P
           Below == OpToRel(<, Nat)
<1>1. Rest # {} /\ Rest \subseteq Nat
  OBVIOUS
<1>2. IsWellFoundedOn(Below, Nat)
  BY NatLessThanWellFounded
<1>3. \A x, y \in Nat : x < y => <<x, y>> \in Below
  BY DEF OpToRel
<1> HIDE DEF Rest, Below
<1>4. PICK x \in Rest : \A y \in Rest : ~ (<<y, x>> \in Below)
  BY <1>1, <1>2, WFMin
<1>5. x \in Nat /\ x # 0 /\ x \notin P
  BY <1>1 DEF Rest
<1>6. x - 1 \in Nat /\ x - 1 < x
  BY <1>5
<1>7. x - 1 \notin Rest
  BY <1>3, <1>4, <1>5, <1>6
<1>8. x - 1 \in P
  BY <1>6, <1>7 DEF Rest
<1> QED BY <1>5, <1>8

\* The function that Only evaluates, and the equation that defines it.
Picks(s, S) ==
    LET only[n \in 0..Len(s)] ==
            IF n = 0 THEN <<>>
            ELSE IF s[n] \in S THEN Append(only[n - 1], s[n]) ELSE only[n - 1]
    IN  only
Picking(s, S, f, n) ==
    IF n = 0 THEN <<>> ELSE IF s[n] \in S THEN Append(f[n - 1], s[n]) ELSE f[n - 1]
PicksUpto(s, S, f, m) == f = [n \in 0..m |-> Picking(s, S, f, n)]

\* There is a function that satisfies it.
LEMMA SomePicks ==
    ASSUME NEW T, NEW s \in Seq(T), NEW S
    PROVE  \E f : PicksUpto(s, S, f, Len(s))
<1> DEFINE P == {m \in Nat : \E f : PicksUpto(s, S, f, m)}
<1>1. 0 \in P
  <2>1. PicksUpto(s, S, [n \in 0..0 |-> <<>>], 0)
    BY DEF PicksUpto, Picking
  <2> QED BY <2>1
<1>2. \A m \in P : m + 1 \in P
  <2> TAKE m \in P
  <2>1. PICK f : PicksUpto(s, S, f, m)
    OBVIOUS
  <2> DEFINE x == Picking(s, S, f, m + 1)
             g == [n \in 0..(m + 1) |-> IF n = m + 1 THEN x ELSE f[n]]
  <2>2. \A n \in 0..m : g[n] = f[n] /\ f[n] = Picking(s, S, f, n)
    <3>1. \A n \in 0..m : g[n] = f[n]
      OBVIOUS
    <3> HIDE DEF g
    <3>2. \A n \in 0..m : f[n] = Picking(s, S, f, n)
      BY <2>1 DEF PicksUpto
    <3> QED BY <3>1, <3>2
  <2>3. \A n \in 0..(m + 1) : n # 0 => n - 1 \in 0..m /\ g[n - 1] = f[n - 1]
    BY <2>2
  <2>4. \A n \in 0..(m + 1) : Picking(s, S, g, n) = Picking(s, S, f, n)
    BY <2>3 DEF Picking
  <2>5. \A n \in 0..(m + 1) : g[n] = Picking(s, S, g, n)
    <3> TAKE n \in 0..(m + 1)
    <3>1. CASE n = m + 1 BY <3>1, <2>4
    <3>2. CASE n # m + 1
      <4>1. n \in 0..m BY <3>2
      <4> QED BY <4>1, <2>2, <2>4
    <3> QED BY <3>1, <3>2
  <2>6. DOMAIN g = 0..(m + 1) /\ g = [n \in 0..(m + 1) |-> g[n]]
    OBVIOUS
  <2> HIDE DEF g, x
  <2>7. PicksUpto(s, S, g, m + 1)
    BY <2>5, <2>6 DEF PicksUpto
  <2> QED BY <2>7
<1>3. P \in SUBSET Nat
  OBVIOUS
<1> HIDE DEF P
<1>4. P = Nat
  BY <1>1, <1>2, <1>3, Induction
<1>5. Len(s) \in P
  BY <1>4
<1> QED BY <1>5 DEF P

\* It is computed element by element.
LEMMA PicksStep ==
    ASSUME NEW T, NEW s \in Seq(T), NEW S
    PROVE  \A n \in 0..Len(s) : Picks(s, S)[n] = Picking(s, S, Picks(s, S), n)
<1> DEFINE g == CHOOSE h : h = [n \in 0..Len(s) |-> Picking(s, S, h, n)]
<1>1. Picks(s, S) = g
  BY DEF Picks, Picking
<1>2. PICK f : f = [n \in 0..Len(s) |-> Picking(s, S, f, n)]
  BY SomePicks DEF PicksUpto
<1>3. g = [n \in 0..Len(s) |-> Picking(s, S, g, n)]
  BY <1>2
<1> HIDE DEF g
<1>4. \A n \in 0..Len(s) : g[n] = Picking(s, S, g, n)
  BY <1>3
<1> QED BY <1>1, <1>4

\* Only is the last step of that computation.
LEMMA OnlyPicks == ASSUME NEW s, NEW S PROVE Only(s, S) = Picks(s, S)[Len(s)]
BY DEF Only, Picks

\* o picks from the first m elements of s: those in S, all of them, in their order.
PickedFrom(o, s, S, m) ==
    /\ \A i \in 1..Len(o) : o[i] \in S /\ \E j \in 1..m : o[i] = s[j]
    /\ \A i, h \in 1..Len(o) : i < h => \E j, l \in 1..m : j < l /\ o[i] = s[j] /\ o[h] = s[l]
    /\ \A j \in 1..m : s[j] \in S => \E i \in 1..Len(o) : o[i] = s[j]

\* What is picked stays picked when one more element is looked at.
LEMMA OneMore ==
    ASSUME NEW T, NEW s \in Seq(T), NEW S, NEW m \in Nat, m < Len(s),
           NEW o \in Seq(T), PickedFrom(o, s, S, m),
           NEW q, q = IF s[m + 1] \in S THEN Append(o, s[m + 1]) ELSE o
    PROVE  q \in Seq(T) /\ PickedFrom(q, s, S, m + 1)
<1>1. CASE s[m + 1] \notin S
  <2>1. q = o BY <1>1
  <2>2. \A j \in 1..(m + 1) : j # m + 1 => j \in 1..m
    OBVIOUS
  <2>3. \A j \in 1..m : j \in 1..(m + 1)
    OBVIOUS
  <2> QED BY <1>1, <2>1, <2>2, <2>3 DEF PickedFrom
<1>2. CASE s[m + 1] \in S
  <2>1. q \in Seq(T) /\ Len(q) = Len(o) + 1 /\ q[Len(o) + 1] = s[m + 1]
        /\ \A i \in 1..Len(o) : q[i] = o[i]
    BY <1>2
  <2>2. \A j \in 1..m : j \in 1..(m + 1) /\ j < m + 1
    OBVIOUS
  <2>3. \A i \in 1..Len(q) : i \in 1..Len(o) \/ i = Len(o) + 1
    BY <2>1
  <2>4. \A i \in 1..Len(o) : i \in 1..Len(q)
    BY <2>1
  <2>5. \A i \in 1..Len(q) : q[i] \in S /\ \E j \in 1..(m + 1) : q[i] = s[j]
    BY <1>2, <2>1, <2>2, <2>3 DEF PickedFrom
  <2>6. \A i, h \in 1..Len(q) : i < h =>
            \E j, l \in 1..(m + 1) : j < l /\ q[i] = s[j] /\ q[h] = s[l]
    <3> TAKE i, h \in 1..Len(q)
    <3> HAVE i < h
    <3>1. i \in 1..Len(o)
      BY <2>1
    <3>2. CASE h = Len(o) + 1
      <4>1. PICK j \in 1..m : o[i] = s[j]
        BY <3>1 DEF PickedFrom
      <4>2. m + 1 \in 1..(m + 1)
        OBVIOUS
      <4> QED BY <2>1, <2>2, <3>1, <3>2, <4>1, <4>2
    <3>3. CASE h # Len(o) + 1
      <4>1. h \in 1..Len(o)
        BY <2>3, <3>3
      <4>2. PICK j, l \in 1..m : j < l /\ o[i] = s[j] /\ o[h] = s[l]
        BY <3>1, <4>1 DEF PickedFrom
      <4> QED BY <2>1, <2>2, <3>1, <4>1, <4>2
    <3> QED BY <3>2, <3>3
  <2>7. \A j \in 1..(m + 1) : s[j] \in S => \E i \in 1..Len(q) : q[i] = s[j]
    <3> TAKE j \in 1..(m + 1)
    <3> HAVE s[j] \in S
    <3>1. CASE j = m + 1
      <4>1. Len(o) + 1 \in 1..Len(q) BY <2>1
      <4> QED BY <3>1, <4>1, <2>1
    <3>2. CASE j # m + 1
      <4>1. j \in 1..m BY <3>2
      <4>2. PICK i \in 1..Len(o) : o[i] = s[j]
        BY <4>1 DEF PickedFrom
      <4> QED BY <4>2, <2>1, <2>4
    <3> QED BY <3>1, <3>2
  <2> QED BY <2>1, <2>5, <2>6, <2>7 DEF PickedFrom
<1> QED BY <1>1, <1>2

\* Only returns the elements in S, all of them, in their order.
LEMMA OnlyFits ==
    ASSUME NEW T, NEW s \in Seq(T), NEW S
    PROVE  Only(s, S) \in Seq(T) /\ PickedFrom(Only(s, S), s, S, Len(s))
<1> DEFINE f == Picks(s, S)
           P == {m \in Nat : m <= Len(s) => f[m] \in Seq(T) /\ PickedFrom(f[m], s, S, m)}
<1>1. \A n \in 0..Len(s) : f[n] = Picking(s, S, f, n)
  BY PicksStep
<1> HIDE DEF f
<1>2. 0 \in P
  <2>1. f[0] = <<>> BY <1>1 DEF Picking
  <2>2. <<>> \in Seq(T) /\ PickedFrom(<<>>, s, S, 0)
    BY DEF PickedFrom
  <2> QED BY <2>1, <2>2
<1>3. \A m \in P : m + 1 \in P
  <2> SUFFICES ASSUME NEW m \in P, m + 1 <= Len(s)
               PROVE  f[m + 1] \in Seq(T) /\ PickedFrom(f[m + 1], s, S, m + 1)
    OBVIOUS
  <2>1. m \in Nat /\ m < Len(s) /\ m + 1 \in 0..Len(s)
    OBVIOUS
  <2>2. f[m] \in Seq(T) /\ PickedFrom(f[m], s, S, m)
    BY <2>1
  <2>3. f[m + 1] = IF s[m + 1] \in S THEN Append(f[m], s[m + 1]) ELSE f[m]
    BY <2>1, <1>1 DEF Picking
  <2> HIDE DEF P
  <2> QED BY <2>1, <2>2, <2>3, OneMore
<1>4. P \in SUBSET Nat
  OBVIOUS
<1> HIDE DEF P
<1>5. P = Nat
  BY <1>2, <1>3, <1>4, Induction
<1>6. Len(s) \in P
  BY <1>5
<1> QED BY <1>6, OnlyPicks DEF P, f

\* Appending to the second of two pieces is appending to both.
AppendsToSecond(a, b, x) == Append(a \o b, x) = a \o Append(b, x)

\* It is so for sequences over any set.
LEMMA AppendToConcat ==
    ASSUME NEW T, NEW a \in Seq(T), NEW b \in Seq(T), NEW x \in T
    PROVE  AppendsToSecond(a, b, x)
BY DEF AppendsToSecond

\* The elements of two pieces that are put together.
MadeOf(T, a, b, c) ==
    /\ c \in Seq(T) /\ Len(c) = Len(a) + Len(b)
    /\ \A n \in 1..Len(a) : c[n] = a[n]
    /\ \A n \in 1..Len(b) : c[Len(a) + n] = b[n]

\* Each keeps its elements and their order.
LEMMA Pieces ==
    ASSUME NEW T, NEW a \in Seq(T), NEW b \in Seq(T)
    PROVE  MadeOf(T, a, b, a \o b)
<1>1. Len(a) \in Nat /\ Len(b) \in Nat
  BY LenProperties
<1> DEFINE c == a \o b
<1>2. /\ c \in Seq(T) /\ Len(c) = Len(a) + Len(b)
      /\ \A n \in 1..(Len(a) + Len(b)) : c[n] = IF n <= Len(a) THEN a[n] ELSE b[n - Len(a)]
  BY ConcatProperties
<1> HIDE DEF c
<1>3. \A n \in 1..Len(a) : c[n] = a[n]
  <2> TAKE n \in 1..Len(a)
  <2>1. n \in 1..(Len(a) + Len(b)) /\ n <= Len(a)
    BY <1>1
  <2> QED BY <1>2, <2>1
<1>4. \A n \in 1..Len(b) : c[Len(a) + n] = b[n]
  <2> TAKE n \in 1..Len(b)
  <2> DEFINE m == Len(a) + n
  <2>1. m \in 1..(Len(a) + Len(b)) /\ ~(m <= Len(a)) /\ m - Len(a) = n
    BY <1>1
  <2> HIDE DEF m
  <2>2. c[m] = b[n]
    BY <1>2, <2>1
  <2> QED BY <2>2 DEF m
<1>5. MadeOf(T, a, b, c)
  BY <1>2, <1>3, <1>4 DEF MadeOf
<1> QED BY <1>5 DEF c

\* It goes through a sequence piece by piece.
LEMMA OnlyConcat ==
    ASSUME NEW T, NEW s \in Seq(T), NEW t \in Seq(T), NEW S
    PROVE  Only(s \o t, S) = Only(s, S) \o Only(t, S)
<1> DEFINE f == Picks(s, S)
           g == Picks(t, S)
           h == Picks(s \o t, S)
           P == {m \in Nat : m <= Len(s) => h[m] = f[m]}
           Joined(m) == g[m] \in Seq(T) /\ h[Len(s) + m] = f[Len(s)] \o g[m]
           Q == {m \in Nat : m <= Len(t) => Joined(m)}
<1>1. s \o t \in Seq(T) /\ Len(s \o t) = Len(s) + Len(t)
      /\ (\A n \in 1..Len(s) : (s \o t)[n] = s[n])
      /\ \A n \in 1..Len(t) : (s \o t)[Len(s) + n] = t[n]
  BY Pieces DEF MadeOf
<1>2. /\ \A n \in 0..Len(s) : f[n] = Picking(s, S, f, n)
      /\ \A n \in 0..Len(t) : g[n] = Picking(t, S, g, n)
      /\ \A n \in 0..Len(s \o t) : h[n] = Picking(s \o t, S, h, n)
  <2>1. \A n \in 0..Len(s) : f[n] = Picking(s, S, f, n)
    BY PicksStep
  <2>2. \A n \in 0..Len(t) : g[n] = Picking(t, S, g, n)
    BY PicksStep
  <2> DEFINE u == s \o t
  <2>3. u \in Seq(T)
    BY <1>1
  <2> HIDE DEF u
  <2>4. \A n \in 0..Len(u) : Picks(u, S)[n] = Picking(u, S, Picks(u, S), n)
    BY <2>3, PicksStep
  <2> QED BY <2>1, <2>2, <2>4 DEF u
<1>3. f[Len(s)] \in Seq(T)
  BY OnlyFits, OnlyPicks
<1> HIDE DEF f, g, h, Joined
<1> DEFINE u == s \o t
<1>4. \A n \in 1..Len(s) : u[n] = s[n]
  BY <1>1
<1>5. \A n \in 1..Len(t) : u[Len(s) + n] = t[n]
  BY <1>1
<1>6. \A n \in 0..(Len(s) + Len(t)) : h[n] = Picking(u, S, h, n)
  BY <1>1, <1>2
<1> HIDE DEF u
<1>7. Len(s) \in P
  <2>1. 0 \in P
    BY <1>2, <1>6 DEF Picking
  <2>2. \A m \in P : m + 1 \in P
    <3> SUFFICES ASSUME NEW m \in P, m + 1 <= Len(s) PROVE h[m + 1] = f[m + 1]
      OBVIOUS
    <3>1. m \in Nat /\ m + 1 \in 0..Len(s) /\ m + 1 \in 1..Len(s) /\ m + 1 \in 0..(Len(s) + Len(t))
      OBVIOUS
    <3>2. h[m] = f[m] BY <3>1
    <3> QED BY <1>2, <1>4, <1>6, <3>1, <3>2 DEF Picking
  <2>3. P \in SUBSET Nat
    OBVIOUS
  <2> HIDE DEF P
  <2>4. P = Nat
    BY <2>1, <2>2, <2>3, Induction
  <2> QED BY <2>4
<1>8. Len(t) \in Q
  <2>1. 0 \in Q
    <3>1. g[0] = <<>> BY <1>2 DEF Picking
    <3>2. h[Len(s) + 0] = f[Len(s)] BY <1>7
    <3>3. f[Len(s)] \o <<>> = f[Len(s)] /\ <<>> \in Seq(T)
      BY <1>3, ConcatEmptySeq
    <3>4. Joined(0)
      BY <3>1, <3>2, <3>3 DEF Joined
    <3> QED BY <3>4
  <2>2. \A m \in Q : m + 1 \in Q
    <3> SUFFICES ASSUME NEW m \in Q, m + 1 <= Len(t) PROVE Joined(m + 1)
      OBVIOUS
    <3>1. m \in Nat /\ m + 1 \in 0..Len(t) /\ m + 1 \in 1..Len(t)
          /\ Len(s) + (m + 1) \in 0..(Len(s) + Len(t))
      OBVIOUS
    <3>2. g[m] \in Seq(T) /\ h[Len(s) + m] = f[Len(s)] \o g[m]
      <4>1. Joined(m)
        BY <3>1
      <4> QED BY <4>1 DEF Joined
    <3>3. g[m + 1] = IF t[m + 1] \in S THEN Append(g[m], t[m + 1]) ELSE g[m]
      BY <1>2, <3>1 DEF Picking
    <3>4. Len(s) + (m + 1) # 0 /\ (Len(s) + (m + 1)) - 1 = Len(s) + m
      BY <3>1
    <3>5. h[Len(s) + (m + 1)] = IF u[Len(s) + (m + 1)] \in S
                                 THEN Append(h[Len(s) + m], u[Len(s) + (m + 1)]) ELSE h[Len(s) + m]
      BY <1>6, <3>1, <3>4 DEF Picking
    <3>6. u[Len(s) + (m + 1)] = t[m + 1] /\ t[m + 1] \in T
      BY <1>5, <3>1
    <3> DEFINE a == f[Len(s)]
               b == g[m]
               x == t[m + 1]
    <3>7. a \in Seq(T) /\ b \in Seq(T) /\ x \in T
      BY <1>3, <3>2, <3>6
    <3>8. Append(a \o b, x) = a \o Append(b, x) /\ Append(b, x) \in Seq(T)
      <4> HIDE DEF a, b, x
      <4>1. AppendsToSecond(a, b, x)
        BY <3>7, AppendToConcat
      <4> QED BY <3>7, <4>1, AppendProperties DEF AppendsToSecond
    <3> QED BY <3>2, <3>3, <3>5, <3>6, <3>8 DEF Joined
  <2>3. Q \in SUBSET Nat
    OBVIOUS
  <2> HIDE DEF Q
  <2>4. Q = Nat
    BY <2>1, <2>2, <2>3, Induction
  <2> QED BY <2>4
<1>9. h[Len(s) + Len(t)] = f[Len(s)] \o g[Len(t)]
  <2>1. Joined(Len(t))
    BY <1>8
  <2> QED BY <2>1 DEF Joined
<1> QED BY <1>1, <1>9, OnlyPicks DEF f, g, h

-----------------------------------------------------------------------------
(* The streams.                                                             *)

\* The assumptions on the constants, in the form the proofs cite.
LEMMA Sizes ==
    /\ HistorySize \in Nat /\ HistorySize > 0 /\ QueueSize \in Nat /\ MaxClients \in Nat
    /\ MaxEvents \in Nat /\ MaxVersion \in Nat /\ MaxFaults \in Nat
    /\ Nobody \notin Nat /\ Nobody \notin Readers /\ Nobody \notin Conns
    /\ KeyOf \in [Readers -> Keys] /\ Guarded \subseteq Keys
BY DeliveryAssumption, NobodyAssumption

\* The end of an end, and ends that grow alike.
LEMMA EndOfEnd ==
    ASSUME NEW T, NEW a \in Seq(T), NEW b \in Seq(T), NEW c \in Seq(T), EndOf(a, b), EndOf(b, c)
    PROVE  EndOf(a, c)
<1>1. Len(a) <= Len(c) /\ Len(a) \in Nat /\ Len(b) \in Nat /\ Len(c) \in Nat
  BY DEF EndOf
<1>2. ASSUME NEW i \in 1..Len(a) PROVE a[i] = c[Len(c) - Len(a) + i]
  <2> DEFINE j == Len(b) - Len(a) + i
  <2>1. j \in 1..Len(b) /\ a[i] = b[j]
    <3>1. a[i] = b[Len(b) - Len(a) + i] /\ Len(a) <= Len(b)
      BY DEF EndOf
    <3> QED BY <1>1, <3>1
  <2>2. b[j] = c[Len(c) - Len(b) + j]
    BY <2>1 DEF EndOf
  <2>3. Len(c) - Len(b) + j = Len(c) - Len(a) + i
    BY <1>1
  <2> QED BY <2>1, <2>2, <2>3
<1> QED BY <1>1, <1>2 DEF EndOf

\* An end stays one when both pieces grow by the same elements.
LEMMA EndsGrow ==
    ASSUME NEW T, NEW a \in Seq(T), NEW b \in Seq(T), NEW e \in Seq(T), EndOf(a, b)
    PROVE  EndOf(a \o e, b \o e)
<1> DEFINE x == a \o e
           y == b \o e
<1>1. /\ Len(a) \in Nat /\ Len(b) \in Nat /\ Len(e) \in Nat /\ Len(a) <= Len(b)
      /\ Len(x) = Len(a) + Len(e) /\ Len(y) = Len(b) + Len(e)
      /\ \A i \in 1..Len(a) : x[i] = a[i]
      /\ \A i \in 1..Len(b) : y[i] = b[i]
      /\ \A i \in 1..Len(e) : x[Len(a) + i] = e[i] /\ y[Len(b) + i] = e[i]
  BY DEF EndOf
<1> HIDE DEF x, y
<1>2. ASSUME NEW i \in 1..Len(x) PROVE x[i] = y[Len(y) - Len(x) + i]
  <2>1. Len(y) - Len(x) + i = Len(b) - Len(a) + i
    BY <1>1
  <2>2. CASE i <= Len(a)
    <3>1. i \in 1..Len(a) /\ Len(b) - Len(a) + i \in 1..Len(b)
      BY <1>1, <2>2
    <3>2. a[i] = b[Len(b) - Len(a) + i]
      BY <3>1 DEF EndOf
    <3> QED BY <1>1, <2>1, <3>1, <3>2
  <2>3. CASE i > Len(a)
    <3> DEFINE h == i - Len(a)
    <3>1. h \in 1..Len(e) /\ Len(a) + h = i /\ Len(b) + h = Len(b) - Len(a) + i
      BY <1>1, <2>3
    <3> HIDE DEF h
    <3>2. x[Len(a) + h] = e[h] /\ y[Len(b) + h] = e[h]
      BY <1>1, <3>1
    <3> QED BY <2>1, <3>1, <3>2
  <2> QED BY <1>1, <2>2, <2>3
<1>3. EndOf(x, y)
  BY <1>1, <1>2 DEF EndOf
<1> QED BY <1>3 DEF x, y

\* A sequence is its end with something in front of it.
Behind(front, end, s) == s = front \o end

\* The window: the end of what it is taken from, of the size it may have.
LEMMA RecentFits ==
    ASSUME NEW T, NEW s \in Seq(T)
    PROVE  /\ Recent(s) \in Seq(T) /\ Len(Recent(s)) <= HistorySize
           /\ EndOf(Recent(s), s)
           /\ \E front \in Seq(T) : Behind(front, Recent(s), s)
<1> DEFINE n == IF Len(s) > HistorySize THEN Len(s) - HistorySize ELSE 0
           r == SubSeq(s, n + 1, Len(s))
           f == SubSeq(s, 1, n)
<1>1. Recent(s) = r
  BY Sizes DEF Recent
<1>2. n \in 0..Len(s) /\ Len(s) - n <= HistorySize
  BY Sizes
<1>3. r \in Seq(T) /\ Len(r) = Len(s) - n /\ \A i \in 1..(Len(s) - n) : r[i] = s[n + i]
  BY <1>2
<1>4. f \in Seq(T) /\ Len(f) = n /\ \A i \in 1..n : f[i] = s[i]
  BY <1>2
<1> HIDE DEF n, r, f
<1>5. EndOf(r, s)
  <2>1. Len(s) - Len(r) = n /\ Len(r) <= Len(s)
    BY <1>2, <1>3
  <2> QED BY <1>3, <2>1 DEF EndOf
<1>6. Behind(f, r, s)
  <2> DEFINE t == f \o r
  <2>1. /\ t \in Seq(T) /\ Len(t) = Len(s)
        /\ \A i \in 1..n : t[i] = s[i]
        /\ \A i \in 1..(Len(s) - n) : t[n + i] = s[n + i]
    BY <1>2, <1>3, <1>4
  <2> HIDE DEF t
  <2>2. ASSUME NEW i \in 1..Len(s) PROVE t[i] = s[i]
    <3>1. CASE i <= n BY <1>2, <2>1, <3>1
    <3>2. CASE i > n
      <4>1. i - n \in 1..(Len(s) - n) /\ n + (i - n) = i
        BY <1>2, <3>2
      <4> QED BY <2>1, <4>1
    <3> QED BY <1>2, <3>1, <3>2
  <2>3. t = s
    BY <2>1, <2>2, SeqEqual
  <2> QED BY <2>3 DEF t, Behind
<1> QED BY <1>1, <1>2, <1>3, <1>4, <1>5, <1>6

\* What is picked from a sequence cut in two is what is picked from the parts.
LEMMA OnlyOfBoth ==
    ASSUME NEW T, NEW a \in Seq(T), NEW b \in Seq(T), NEW s, Behind(a, b, s), NEW S
    PROVE  Only(s, S) = Only(a, S) \o Only(b, S)
BY OnlyConcat DEF Behind

\* What is picked from an end is the end of what is picked.
LEMMA OnlyOfEnd ==
    ASSUME NEW T, NEW a \in Seq(T), NEW b \in Seq(T), NEW s, Behind(a, b, s), NEW S
    PROVE  EndOf(Only(b, S), Only(s, S))
<1> DEFINE x == Only(a, S)
           y == Only(b, S)
           z == Only(s, S)
<1>1. x \in Seq(T) /\ y \in Seq(T)
  BY OnlyFits
<1>2. z = x \o y
  BY OnlyOfBoth
<1> HIDE DEF x, y, z
<1>3. Len(z) = Len(x) + Len(y) /\ \A i \in 1..Len(y) : z[Len(x) + i] = y[i]
  BY <1>1, <1>2
<1>4. Len(x) \in Nat /\ Len(y) \in Nat
  BY <1>1
<1>5. EndOf(y, z)
  BY <1>3, <1>4 DEF EndOf
<1> QED BY <1>5 DEF y, z

\* Numbering makes one record of every event, in order.
LEMMA NumberedFits ==
    ASSUME NEW e \in Seq(Events), NEW n \in Nat
    PROVE  /\ Numbered(n, e) \in Seq(Records) /\ Len(Numbered(n, e)) = Len(e)
           /\ DOMAIN Numbered(n, e) = 1..Len(e)
           /\ \A i \in 1..Len(e) : Numbered(n, e)[i] = [seq |-> n + i, event |-> e[i]]
<1>1. \A i \in 1..Len(e) : [seq |-> n + i, event |-> e[i]] \in Records
  BY DEF Records
<1> QED BY <1>1, IsASeq DEF Numbered

\* The numbers of a log go on in what is added to it.
NumbersGoOn(l, e) == Numbered(0, l \o e) = Numbered(0, l) \o Numbered(Len(l), e)

\* Numbering two pieces is numbering the whole.
LEMMA NumberedConcat ==
    ASSUME NEW l \in Seq(Events), NEW e \in Seq(Events)
    PROVE  NumbersGoOn(l, e)
<1> DEFINE w == l \o e
           a == Numbered(0, l)
           b == Numbered(Len(l), e)
           x == Numbered(0, w)
           y == a \o b
<1>1. /\ w \in Seq(Events) /\ Len(w) = Len(l) + Len(e)
      /\ \A i \in 1..Len(l) : w[i] = l[i]
      /\ \A i \in 1..Len(e) : w[Len(l) + i] = e[i]
  OBVIOUS
<1> HIDE DEF w
<1>2. /\ a \in Seq(Records) /\ Len(a) = Len(l)
      /\ \A i \in 1..Len(l) : a[i] = [seq |-> 0 + i, event |-> l[i]]
  BY NumberedFits
<1>3. /\ b \in Seq(Records) /\ Len(b) = Len(e)
      /\ \A i \in 1..Len(e) : b[i] = [seq |-> Len(l) + i, event |-> e[i]]
  BY NumberedFits
<1>4. /\ x \in Seq(Records) /\ Len(x) = Len(w)
      /\ \A i \in 1..Len(w) : x[i] = [seq |-> 0 + i, event |-> w[i]]
  BY <1>1, NumberedFits
<1> HIDE DEF a, b, x
<1>5. /\ y \in Seq(Records) /\ Len(y) = Len(l) + Len(e)
      /\ \A i \in 1..Len(l) : y[i] = a[i]
      /\ \A i \in 1..Len(e) : y[Len(l) + i] = b[i]
  <2>1. a \in Seq(Records) /\ b \in Seq(Records) /\ Len(a) = Len(l) /\ Len(b) = Len(e)
    BY <1>2, <1>3
  <2>2. MadeOf(Records, a, b, y)
    BY <2>1, Pieces
  <2> HIDE DEF y
  <2> QED BY <2>1, <2>2 DEF MadeOf
<1> HIDE DEF y
<1>6. ASSUME NEW i \in 1..Len(w) PROVE x[i] = y[i]
  <2>1. CASE i <= Len(l)
    <3>1. i \in 1..Len(l) BY <1>1, <2>1
    <3> QED BY <1>1, <1>2, <1>4, <1>5, <3>1
  <2>2. CASE i > Len(l)
    <3> DEFINE h == i - Len(l)
    <3>1. h \in 1..Len(e) /\ Len(l) + h = i
      BY <1>1, <2>2
    <3> HIDE DEF h
    <3>2. w[i] = e[h] /\ y[i] = b[h] /\ b[h] = [seq |-> i, event |-> e[h]]
      BY <1>1, <1>3, <1>5, <3>1
    <3>3. x[i] = [seq |-> 0 + i, event |-> w[i]] /\ 0 + i = i
      BY <1>4
    <3> QED BY <3>2, <3>3
  <2> QED BY <1>1, <2>1, <2>2
<1>7. x = y
  BY <1>1, <1>4, <1>5, <1>6, SeqEqual
<1> QED BY <1>7 DEF x, y, a, b, w, NumbersGoOn

\* The events of a transaction are events of the room.
LEMMA StagedFits ==
    ASSUME NEW r, r.seq \in Nat, NEW kinds \in Payloads
    PROVE  Staged(r, kinds) \in Seq(Events) /\ Len(kinds) \in Nat
<1>1. kinds \in Seq(Kinds)
  BY DeliveryAssumption DEF Kinds
<1>2. \A i \in 1..Len(kinds) : [seq |-> r.seq + i, kind |-> kinds[i]] \in Events
  BY <1>1 DEF Events
<1> QED BY <1>1, <1>2, IsASeq DEF Staged

\* A stream that is extended by the events of a transaction.
LEMMA ExtendedFits ==
    ASSUME NEW k, NEW stream, NEW source \in Seq(Events), NEW l \in Seq(Events),
           StreamFits(stream, source, l, k), NEW staged \in Seq(Events), NEW e,
           e = Only(staged, SeenBy(k))
    PROVE  /\ e \in Seq(Events) /\ l \o e \in Seq(Events) /\ Recent(source \o staged) \in Seq(Events)
           /\ StreamFits(Extended(stream, e), Recent(source \o staged), l \o e, k)
<1>1. e \in Seq(Events)
  BY OnlyFits
<1> DEFINE w == l \o e
           n == Numbered(Len(l), e)
           h == stream.history
           m == h \o n
           u == source \o staged
<1>2. w \in Seq(Events) /\ Len(w) = Len(l) + Len(e) /\ u \in Seq(Events) /\ Len(e) \in Nat
  BY <1>1
<1>3. h \in Seq(Records) /\ Len(l) = stream.cursor /\ stream.gap \in BOOLEAN
  BY DEF StreamFits, Streams
<1>4. Numbered(0, l) \in Seq(Records) /\ Numbered(0, w) \in Seq(Records) /\ n \in Seq(Records)
  <2> HIDE DEF w
  <2>1. Len(l) \in Nat
    OBVIOUS
  <2>2. n \in Seq(Records)
    BY <1>1, <2>1, NumberedFits
  <2>3. Numbered(0, l) \in Seq(Records) /\ Numbered(0, w) \in Seq(Records)
    BY <1>2, NumberedFits
  <2> QED BY <2>2, <2>3
<1>5. EndOf(h, Numbered(0, l))
  BY DEF StreamFits
<1>6. EndOf(m, Numbered(0, w)) /\ m \in Seq(Records)
  <2>1. EndOf(m, Numbered(0, l) \o n) /\ m \in Seq(Records)
    BY <1>3, <1>4, <1>5, EndsGrow
  <2>2. Numbered(0, w) = Numbered(0, l) \o n
    BY <1>1, NumberedConcat DEF NumbersGoOn
  <2> QED BY <2>1, <2>2
<1>7. Recent(m) \in Seq(Records) /\ Len(Recent(m)) <= HistorySize /\ EndOf(Recent(m), Numbered(0, w))
  <2> HIDE DEF m
  <2>1. Recent(m) \in Seq(Records) /\ Len(Recent(m)) <= HistorySize /\ EndOf(Recent(m), m)
    BY <1>6, RecentFits
  <2> HIDE DEF w
  <2> QED BY <1>4, <1>6, <2>1, EndOfEnd
<1>8. Recent(u) \in Seq(Events) /\ EndOf(Only(Recent(u), SeenBy(k)), w)
  <2> DEFINE o == Only(source, SeenBy(k))
             x == Only(u, SeenBy(k))
             y == Only(Recent(u), SeenBy(k))
  <2>1. o \in Seq(Events) /\ x \in Seq(Events)
    BY <1>2, OnlyFits
  <2>2. x = o \o e
    <3>1. Behind(source, staged, u)
      BY DEF Behind
    <3> QED BY <3>1, OnlyOfBoth
  <2>3. EndOf(o, l)
    BY DEF StreamFits
  <2> HIDE DEF o, x
  <2>4. EndOf(x, w)
    BY <1>1, <2>1, <2>2, <2>3, EndsGrow
  <2> HIDE DEF u, w, y
  <2>5. Recent(u) \in Seq(Events) /\ \E front \in Seq(Events) : Behind(front, Recent(u), u)
    BY <1>2, RecentFits
  <2>6. y \in Seq(Events) /\ EndOf(y, x)
    BY <2>5, OnlyFits, OnlyOfEnd DEF x, y
  <2>7. EndOf(y, w)
    BY <1>2, <2>1, <2>4, <2>6, EndOfEnd
  <2> QED BY <2>5, <2>7 DEF y
<1> DEFINE x == Extended(stream, e)
<1>9. /\ x.cursor = Len(l) + Len(e) /\ x.history = Recent(m) /\ x.gap \in BOOLEAN
      /\ x = [cursor |-> x.cursor, history |-> x.history, gap |-> x.gap]
  BY <1>3 DEF Extended
<1> HIDE DEF x, w, m, u
<1>10. x \in Streams
  BY <1>2, <1>3, <1>7, <1>9 DEF Streams
<1> QED BY <1>1, <1>2, <1>7, <1>8, <1>9, <1>10 DEF StreamFits, x, w, u

\* What a restart makes of a row is a stream of the same log.
LEMMA RestoredFits ==
    ASSUME NEW k, NEW stream, NEW source \in Seq(Events), NEW l \in Seq(Events),
           StreamFits(stream, source, l, k), NEW row, row.source = source,
           row.meta[k] = [cursor |-> stream.cursor, gap |-> stream.gap]
    PROVE  StreamFits(RestoredStream(row, k), source, l, k)
<1> DEFINE v == Only(source, SeenBy(k))
           base == stream.cursor - Len(v)
           n == Numbered(base, v)
           m == <<>> \o n
           x == RestoredStream(row, k)
<1>1. v \in Seq(Events) /\ EndOf(v, l) /\ stream.cursor = Len(l) /\ stream.gap \in BOOLEAN
  BY OnlyFits DEF StreamFits, Streams
<1>2. /\ x.cursor = base + Len(v) /\ x.history = Recent(m) /\ x.gap \in BOOLEAN
      /\ x = [cursor |-> x.cursor, history |-> x.history, gap |-> x.gap]
  BY <1>1 DEF RestoredStream, Extended, EmptyStream
<1> HIDE DEF v, x
<1>3. base \in Nat /\ base + Len(v) = Len(l) /\ base = Len(l) - Len(v)
      /\ \A i \in 1..Len(v) : v[i] = l[base + i] /\ base + i \in 1..Len(l)
  BY <1>1 DEF EndOf
<1> HIDE DEF base
<1>4. /\ n \in Seq(Records) /\ Len(n) = Len(v)
      /\ \A i \in 1..Len(v) : n[i] = [seq |-> base + i, event |-> v[i]]
  BY <1>1, <1>3, NumberedFits
<1>5. /\ Numbered(0, l) \in Seq(Records) /\ Len(Numbered(0, l)) = Len(l)
      /\ \A i \in 1..Len(l) : Numbered(0, l)[i] = [seq |-> 0 + i, event |-> l[i]]
  BY NumberedFits
<1> HIDE DEF n
<1>6. m = n
  BY <1>4, ConcatEmptySeq
<1>7. EndOf(n, Numbered(0, l))
  <2> DEFINE a == Numbered(0, l)
  <2> HIDE DEF a
  <2>1. Len(a) = Len(l) /\ \A i \in 1..Len(l) : a[i] = [seq |-> 0 + i, event |-> l[i]]
    BY <1>5 DEF a
  <2>2. ASSUME NEW i \in 1..Len(n) PROVE n[i] = a[Len(a) - Len(n) + i]
    <3>1. i \in 1..Len(v) /\ base + i \in 1..Len(l) /\ Len(a) - Len(n) + i = base + i
      BY <1>3, <1>4, <2>1
    <3>2. a[base + i] = [seq |-> 0 + (base + i), event |-> l[base + i]] /\ 0 + (base + i) = base + i
      BY <1>3, <2>1, <3>1
    <3>3. n[i] = [seq |-> base + i, event |-> l[base + i]]
      BY <1>3, <1>4, <3>1
    <3> QED BY <3>1, <3>2, <3>3
  <2>3. Len(n) <= Len(a)
    BY <1>1, <1>3, <1>4, <2>1
  <2>4. EndOf(n, a)
    BY <2>2, <2>3 DEF EndOf
  <2> QED BY <2>4 DEF a
<1>8. Recent(n) \in Seq(Records) /\ Len(Recent(n)) <= HistorySize /\ EndOf(Recent(n), Numbered(0, l))
  <2>1. Recent(n) \in Seq(Records) /\ Len(Recent(n)) <= HistorySize /\ EndOf(Recent(n), n)
    BY <1>4, RecentFits
  <2> QED BY <1>4, <1>5, <1>7, <2>1, EndOfEnd
<1> HIDE DEF m
<1>9. x \in Streams
  BY <1>2, <1>3, <1>6, <1>8 DEF Streams
<1> QED BY <1>1, <1>2, <1>3, <1>6, <1>8, <1>9 DEF StreamFits, v, x

-----------------------------------------------------------------------------
(* What a socket has to send.                                               *)

AnyFrame == Snapshots \cup Records \cup {Pong}

\* The kinds of frames by their numbers.
LEMMA FrameKinds ==
    /\ \A f \in AnyFrame : f.seq \in Int /\ f.seq >= -1
    /\ \A f \in Records : f.seq \in Nat
    /\ Pong.seq = 0
    /\ \A f \in Snapshots : f.seq = -1 /\ f.base \in Nat /\ f.gap \in BOOLEAN
    /\ \A n, l : Frame(n, l).seq = n /\ Frame(n, l).event = l[n]
BY DEF AnyFrame, Records, Pong, Snapshots, Frame

\* A delivery that is to be sent is one of the log.
LEMMA DeliveryIsLogged ==
    ASSUME NEW w \in Seq(AnyFrame), NEW l \in Seq(Events), FramesFit(w, l),
           NEW i \in 1..Len(w), w[i].seq > 0
    PROVE  w[i].seq \in 1..Len(l) /\ w[i] = Frame(w[i].seq, l)
<1>1. w[i] \notin Snapshots /\ w[i] # Pong
  BY FrameKinds
<1>2. PICK n \in 1..Len(l) : w[i] = Frame(n, l)
  BY <1>1 DEF FramesFit
<1> QED BY <1>2, FrameKinds

\* Only the first frame is a snapshot.
LEMMA SnapshotIsFirst ==
    ASSUME NEW w \in Seq(AnyFrame), NEW l \in Seq(Events), FramesFit(w, l),
           NEW i \in 1..Len(w), w[i].seq = -1
    PROVE  i = 1 /\ w[i] \in Snapshots
<1>1. ASSUME NEW n \in 1..Len(l), w[i] = Frame(n, l) PROVE FALSE
  BY <1>1, FrameKinds
<1> QED BY <1>1, FrameKinds DEF FramesFit

\* Events are added to the log, and to what is to be sent.
LEMMA UnsentGrows ==
    ASSUME NEW w \in Seq(AnyFrame), NEW l \in Seq(Events), NEW since \in Nat \cup {Nobody},
           UnsentFits(w, l, since), NEW e \in Seq(Events),
           NEW x, x = Numbered(Len(l), e), NEW v, Behind(w, x, v), NEW m, Behind(l, e, m)
    PROVE  v \in Seq(AnyFrame) /\ UnsentFits(v, m, since)
<1>1. /\ x \in Seq(Records) /\ Len(x) = Len(e)
      /\ \A i \in 1..Len(e) : x[i] = [seq |-> Len(l) + i, event |-> e[i]]
  BY NumberedFits
<1>2. x \in Seq(AnyFrame)
  BY <1>1 DEF AnyFrame
<1>3. /\ v \in Seq(AnyFrame) /\ Len(v) = Len(w) + Len(e)
      /\ \A i \in 1..Len(w) : v[i] = w[i]
      /\ \A i \in 1..Len(e) : v[Len(w) + i] = x[i]
  <2>1. v = w \o x /\ Len(x) = Len(e)
    BY <1>1 DEF Behind
  <2> QED BY ONLY <2>1, <1>2, w \in Seq(AnyFrame)
<1>4. /\ m \in Seq(Events) /\ Len(m) = Len(l) + Len(e)
      /\ \A n \in 1..Len(l) : m[n] = l[n]
      /\ \A n \in 1..Len(e) : m[Len(l) + n] = e[n]
  BY DEF Behind
<1>5. Len(w) \in Nat /\ Len(l) \in Nat /\ Len(e) \in Nat
  OBVIOUS
<1>6. \A n \in 1..Len(l) : n \in 1..Len(m) /\ Frame(n, m) = Frame(n, l)
  BY <1>4, <1>5 DEF Frame
<1>7. \A i \in 1..Len(e) : /\ Len(l) + i \in 1..Len(m)
                           /\ v[Len(w) + i] = Frame(Len(l) + i, m)
                           /\ v[Len(w) + i].seq = Len(l) + i
  <2> TAKE i \in 1..Len(e)
  <2>1. v[Len(w) + i] = [seq |-> Len(l) + i, event |-> e[i]]
    BY <1>1, <1>3
  <2>2. m[Len(l) + i] = e[i] /\ Len(l) + i \in 1..Len(m)
    BY <1>4, <1>5
  <2> QED BY <2>1, <2>2 DEF Frame
<1>8. \A i \in 1..Len(v) : i \in 1..Len(w) \/ (i - Len(w) \in 1..Len(e) /\ Len(w) + (i - Len(w)) = i)
  BY <1>3, <1>5
<1>9. \A i \in 1..Len(w) : w[i].seq > 0 => w[i].seq \in 1..Len(l)
  BY DeliveryIsLogged DEF UnsentFits
<1>10. FramesFit(v, m)
  <2> DEFINE Sound(f, a, i) == \/ i = 1 /\ f \in Snapshots
                              \/ f = Pong
                              \/ \E n \in 1..Len(a) : f = Frame(n, a)
  <2>4. \A i \in 1..Len(w) : Sound(w[i], l, i)
    BY DEF UnsentFits, FramesFit
  <2>5. \A i, j \in 1..Len(w) : i < j /\ w[i].seq > 0 /\ w[j].seq > 0 => w[i].seq < w[j].seq
    BY DEF UnsentFits, FramesFit
  <2>1. ASSUME NEW i \in 1..Len(v)
        PROVE  \/ i = 1 /\ v[i] \in Snapshots
               \/ v[i] = Pong
               \/ \E n \in 1..Len(m) : v[i] = Frame(n, m)
    <3>1. CASE i \in 1..Len(w)
      <4>1. Sound(w[i], l, i) /\ v[i] = w[i]
        BY <1>3, <2>4, <3>1
      <4> QED BY <1>6, <4>1
    <3>2. CASE i \notin 1..Len(w)
      <4> DEFINE h == i - Len(w)
      <4>1. h \in 1..Len(e) /\ Len(w) + h = i
        BY <1>8, <3>2
      <4> HIDE DEF h
      <4> QED BY <1>7, <4>1
    <3> QED BY <3>1, <3>2
  <2>2. ASSUME NEW i \in 1..Len(v), NEW j \in 1..Len(v), i < j, v[i].seq > 0, v[j].seq > 0
        PROVE  v[i].seq < v[j].seq
    <3>1. CASE j \in 1..Len(w)
      <4>1. i \in 1..Len(w) BY <2>2, <3>1
      <4>2. v[i] = w[i] /\ v[j] = w[j]
        BY <1>3, <3>1, <4>1
      <4> QED BY <2>2, <2>5, <3>1, <4>1, <4>2
    <3>2. CASE j \notin 1..Len(w)
      <4> DEFINE h == j - Len(w)
      <4>1. h \in 1..Len(e) /\ Len(w) + h = j
        BY <1>8, <3>2
      <4> HIDE DEF h
      <4>2. v[j].seq = Len(l) + h
        BY <1>7, <4>1
      <4>3. CASE i \in 1..Len(w)
        <5>1. v[i].seq \in 1..Len(l)
          BY <1>3, <1>9, <2>2, <4>3
        <5> QED BY <4>1, <4>2, <5>1
      <4>4. CASE i \notin 1..Len(w)
        <5> DEFINE g == i - Len(w)
        <5>1. g \in 1..Len(e) /\ Len(w) + g = i
          BY <1>8, <4>4
        <5>2. g < h
          BY <2>2, <4>1, <5>1
        <5> HIDE DEF g
        <5>3. v[i].seq = Len(l) + g
          BY <1>7, <5>1
        <5> QED BY <1>5, <4>1, <4>2, <5>1, <5>2, <5>3
      <4> QED BY <4>3, <4>4
    <3> QED BY <3>1, <3>2
  <2>3. DOMAIN v = 1..Len(v)
    BY <1>3
  <2> QED BY <2>1, <2>2, <2>3 DEF FramesFit
<1>11. AtSnapshot(v) => AtSnapshot(w) /\ v[1] = w[1]
  <2> SUFFICES ASSUME v # <<>>, v[1].seq = -1 PROVE w # <<>> /\ w[1].seq = -1 /\ v[1] = w[1]
    BY DEF AtSnapshot
  <2>1. 1 \in 1..Len(v)
    BY <1>3
  <2>2. 1 \in 1..Len(w)
    <3> SUFFICES ASSUME 1 \notin 1..Len(w) PROVE FALSE
      OBVIOUS
    <3>1. Len(w) = 0 /\ 1 \in 1..Len(e)
      BY <1>5, <1>3, <2>1
    <3>2. v[1].seq = Len(l) + 1
      BY <1>7, <3>1
    <3> QED BY <1>5, <3>2
  <2> QED BY <1>3, <2>2
<1>12. \A n \in 1..Len(l) : Due(v, since, n) => Due(w, since, n)
  <2> SUFFICES ASSUME NEW n \in 1..Len(l), Due(v, since, n) PROVE Due(w, since, n)
    OBVIOUS
  <2>1. CASE AtSnapshot(v)
    BY <1>11, <2>1 DEF Due, StartsAt
  <2>2. CASE ~AtSnapshot(v)
    <3>1. ~AtSnapshot(w)
      BY <1>3, <2>2 DEF AtSnapshot
    <3>2. PICK i \in 1..Len(v) : v[i].seq > 0 /\ v[i].seq <= n
      BY <1>3, <2>2 DEF Due
    <3>3. i \in 1..Len(w)
      <4> SUFFICES ASSUME i \notin 1..Len(w) PROVE FALSE
        OBVIOUS
      <4> DEFINE h == i - Len(w)
      <4>1. h \in 1..Len(e) /\ Len(w) + h = i
        BY <1>8
      <4> HIDE DEF h
      <4>2. v[i].seq = Len(l) + h
        BY <1>7, <4>1
      <4> QED BY <1>5, <3>2, <4>1, <4>2
    <3>4. w[i].seq > 0 /\ w[i].seq <= n /\ i \in DOMAIN w
      BY <1>3, <3>2, <3>3
    <3> QED BY <3>1, <3>4 DEF Due
  <2> QED BY <2>1, <2>2
<1>13. NothingMissing(v, m, since)
  <2> SUFFICES ASSUME NEW n \in 1..Len(m), Due(v, since, n)
               PROVE  \/ \E i \in DOMAIN v : v[i] = Frame(n, m)
                      \/ since = Nobody /\ ~Replayable(m[n].kind)
    BY DEF NothingMissing
  <2>1. CASE n \in 1..Len(l)
    <3>1. \/ \E i \in DOMAIN w : w[i] = Frame(n, l)
          \/ since = Nobody /\ ~Replayable(l[n].kind)
      BY <1>12, <2>1 DEF UnsentFits, NothingMissing
    <3>2. \A i \in DOMAIN w : i \in DOMAIN v /\ v[i] = w[i]
      BY <1>3, <1>5
    <3>3. Frame(n, m) = Frame(n, l) /\ m[n] = l[n]
      BY <1>4, <1>6, <2>1
    <3> QED BY <3>1, <3>2, <3>3
  <2>2. CASE n \notin 1..Len(l)
    <3> DEFINE h == n - Len(l)
    <3>1. h \in 1..Len(e) /\ Len(l) + h = n
      BY <1>4, <1>5, <2>2
    <3> HIDE DEF h
    <3>2. v[Len(w) + h] = Frame(n, m) /\ Len(w) + h \in DOMAIN v
      BY <1>3, <1>5, <1>7, <3>1
    <3> QED BY <3>2
  <2> QED BY <2>1, <2>2
<1>14. SnapshotFits(v, m, since)
  <2> SUFFICES ASSUME AtSnapshot(v) PROVE SnapshotFits(v, m, since)
    BY DEF SnapshotFits
  <2>1. AtSnapshot(w) /\ v[1] = w[1] /\ StartsAt(v, since) = StartsAt(w, since)
    BY <1>11 DEF StartsAt
  <2>2. /\ StartsAt(w, since) <= Len(l)
        /\ \A i \in DOMAIN w : w[i].seq > 0 => w[i].seq > StartsAt(w, since)
        /\ since # Nobody => ~w[1].gap
        /\ since = Nobody /\ ~w[1].gap => \A n \in 1..w[1].base : ~Replayable(l[n].kind)
    BY <2>1 DEF UnsentFits, SnapshotFits
  <2>3. w[1] \in Snapshots
    <3>1. 1 \in 1..Len(w) /\ w[1].seq = -1
      BY <2>1 DEF AtSnapshot
    <3> QED BY <3>1, SnapshotIsFirst DEF UnsentFits
  <2>4. w[1].base \in Nat /\ StartsAt(w, since) \in Nat
    BY <2>3, FrameKinds DEF StartsAt
  <2>5. \A i \in DOMAIN v : v[i].seq > 0 => v[i].seq > StartsAt(w, since)
    <3> TAKE i \in DOMAIN v
    <3> HAVE v[i].seq > 0
    <3>1. CASE i \in 1..Len(w)
      BY <1>3, <2>2, <3>1
    <3>2. CASE i \notin 1..Len(w)
      <4> DEFINE h == i - Len(w)
      <4>1. h \in 1..Len(e) /\ Len(w) + h = i
        BY <1>3, <1>8, <3>2
      <4> HIDE DEF h
      <4>2. v[i].seq = Len(l) + h
        BY <1>7, <4>1
      <4> QED BY <1>5, <2>2, <2>4, <4>1, <4>2
    <3> QED BY <3>1, <3>2
  <2>6. since = Nobody => \A n \in 1..w[1].base : n \in 1..Len(l) /\ m[n] = l[n]
    BY <1>4, <1>5, <2>2, <2>4 DEF StartsAt
  <2>7. StartsAt(w, since) <= Len(m)
    BY <1>4, <1>5, <2>2, <2>4
  <2> QED BY <2>1, <2>2, <2>5, <2>6, <2>7 DEF SnapshotFits
<1> QED BY <1>3, <1>10, <1>13, <1>14 DEF UnsentFits

\* A pong is no delivery.
LEMMA UnsentPonged ==
    ASSUME NEW w \in Seq(AnyFrame), NEW l \in Seq(Events), NEW since \in Nat \cup {Nobody},
           UnsentFits(w, l, since), NEW v, Behind(w, <<Pong>>, v)
    PROVE  v \in Seq(AnyFrame) /\ UnsentFits(v, l, since)
<1>1. Pong \in AnyFrame /\ Pong.seq = 0
  BY FrameKinds DEF AnyFrame
<1>2. /\ v \in Seq(AnyFrame) /\ Len(v) = Len(w) + 1
      /\ \A i \in 1..Len(w) : v[i] = w[i]
      /\ v[Len(w) + 1] = Pong
  BY <1>1 DEF Behind
<1>3. \A i \in 1..Len(v) : i \in 1..Len(w) \/ (i = Len(w) + 1 /\ v[i] = Pong /\ v[i].seq = 0)
  BY <1>1, <1>2
<1>4. \A i \in 1..Len(v) : v[i].seq > 0 \/ v[i].seq = -1 => i \in 1..Len(w)
  BY <1>3
<1>5. FramesFit(v, l)
  <2> DEFINE Sound(f, i) == \/ i = 1 /\ f \in Snapshots
                           \/ f = Pong
                           \/ \E n \in 1..Len(l) : f = Frame(n, l)
  <2>1. \A i \in 1..Len(w) : Sound(w[i], i)
    BY DEF UnsentFits, FramesFit
  <2>2. \A i, j \in 1..Len(w) : i < j /\ w[i].seq > 0 /\ w[j].seq > 0 => w[i].seq < w[j].seq
    BY DEF UnsentFits, FramesFit
  <2>3. \A i \in 1..Len(v) : Sound(v[i], i)
    BY <1>2, <1>3, <2>1
  <2>4. \A i, j \in 1..Len(v) : i < j /\ v[i].seq > 0 /\ v[j].seq > 0 => v[i].seq < v[j].seq
    BY <1>2, <1>4, <2>2
  <2> QED BY <1>2, <2>3, <2>4 DEF FramesFit
<1>6. AtSnapshot(v) => AtSnapshot(w) /\ v[1] = w[1]
  BY <1>2, <1>4 DEF AtSnapshot
<1>7. AtSnapshot(w) => AtSnapshot(v) /\ v[1] = w[1]
  BY <1>2 DEF AtSnapshot
<1>8. \A n \in 1..Len(l) : Due(v, since, n) => Due(w, since, n)
  <2> TAKE n \in 1..Len(l)
  <2>1. CASE AtSnapshot(v)
    BY <1>6, <2>1 DEF Due, StartsAt
  <2>2. CASE ~AtSnapshot(v)
    <3>1. \A i \in DOMAIN v : v[i].seq > 0 => i \in DOMAIN w /\ w[i] = v[i]
      BY <1>2, <1>4
    <3> QED BY <1>7, <2>2, <3>1 DEF Due
  <2> QED BY <2>1, <2>2
<1>9. NothingMissing(v, l, since)
  <2> SUFFICES ASSUME NEW n \in 1..Len(l), Due(v, since, n)
               PROVE  \/ \E i \in DOMAIN v : v[i] = Frame(n, l)
                      \/ since = Nobody /\ ~Replayable(l[n].kind)
    BY DEF NothingMissing
  <2>1. \/ \E i \in DOMAIN w : w[i] = Frame(n, l)
        \/ since = Nobody /\ ~Replayable(l[n].kind)
    BY <1>8 DEF UnsentFits, NothingMissing
  <2>2. \A i \in DOMAIN w : i \in DOMAIN v /\ v[i] = w[i]
    BY <1>2
  <2> QED BY <2>1, <2>2
<1>10. SnapshotFits(v, l, since)
  <2> SUFFICES ASSUME AtSnapshot(v) PROVE SnapshotFits(v, l, since)
    BY DEF SnapshotFits
  <2>1. AtSnapshot(w) /\ v[1] = w[1] /\ StartsAt(v, since) = StartsAt(w, since)
    BY <1>6 DEF StartsAt
  <2>2. /\ StartsAt(w, since) <= Len(l)
        /\ \A i \in DOMAIN w : w[i].seq > 0 => w[i].seq > StartsAt(w, since)
        /\ since # Nobody => ~w[1].gap
        /\ since = Nobody /\ ~w[1].gap => \A n \in 1..w[1].base : ~Replayable(l[n].kind)
    BY <2>1 DEF UnsentFits, SnapshotFits
  <2>3. \A i \in DOMAIN v : v[i].seq > 0 => i \in DOMAIN w /\ w[i] = v[i]
    BY <1>2, <1>4
  <2> QED BY <2>1, <2>2, <2>3 DEF SnapshotFits
<1> QED BY <1>2, <1>5, <1>9, <1>10 DEF UnsentFits

\* The first frame is sent.
LEMMA UnsentSent ==
    ASSUME NEW w \in Seq(AnyFrame), NEW l \in Seq(Events), NEW since \in Nat \cup {Nobody},
           UnsentFits(w, l, since), w # <<>>, NEW v, v = Tail(w)
    PROVE  v \in Seq(AnyFrame) /\ UnsentFits(v, l, since) /\ ~AtSnapshot(v)
<1>1. /\ v \in Seq(AnyFrame) /\ Len(v) = Len(w) - 1 /\ Len(w) \in Nat \ {0}
      /\ \A i \in 1..Len(v) : v[i] = w[i + 1]
  OBVIOUS
<1>2. \A i \in 1..Len(v) : i + 1 \in 1..Len(w) /\ i + 1 # 1
  BY <1>1
<1>3. \A i \in 1..Len(v) : v[i].seq # -1
  BY <1>1, <1>2, SnapshotIsFirst DEF UnsentFits
<1>4. ~AtSnapshot(v)
  <2> SUFFICES ASSUME v # <<>>, v[1].seq = -1 PROVE FALSE
    BY DEF AtSnapshot
  <2>1. 1 \in 1..Len(v)
    BY <1>1
  <2> QED BY <1>3, <2>1
<1> DEFINE Sound(f, i) == \/ i = 1 /\ f \in Snapshots
                         \/ f = Pong
                         \/ \E n \in 1..Len(l) : f = Frame(n, l)
<1>5. \A i \in 1..Len(w) : Sound(w[i], i)
  BY DEF UnsentFits, FramesFit
<1>6. \A i, j \in 1..Len(w) : i < j /\ w[i].seq > 0 /\ w[j].seq > 0 => w[i].seq < w[j].seq
  BY DEF UnsentFits, FramesFit
<1>7. FramesFit(v, l)
  <2>1. \A i \in 1..Len(v) : Sound(v[i], i)
    <3> TAKE i \in 1..Len(v)
    <3>1. Sound(w[i + 1], i + 1) /\ i + 1 # 1 /\ v[i] = w[i + 1]
      BY <1>1, <1>2, <1>5
    <3> QED BY <3>1
  <2>2. \A i, j \in 1..Len(v) : i < j /\ v[i].seq > 0 /\ v[j].seq > 0 => v[i].seq < v[j].seq
    <3> TAKE i, j \in 1..Len(v)
    <3>1. i < j => i + 1 < j + 1
      OBVIOUS
    <3>2. i + 1 \in 1..Len(w) /\ j + 1 \in 1..Len(w) /\ v[i] = w[i + 1] /\ v[j] = w[j + 1]
      BY <1>1, <1>2
    <3> HIDE DEF Sound
    <3> QED BY <1>6, <3>1, <3>2
  <2>3. DOMAIN v = 1..Len(v)
    BY <1>1
  <2> QED BY <2>1, <2>2, <2>3 DEF FramesFit
<1>8. NothingMissing(v, l, since)
  <2> SUFFICES ASSUME NEW n \in 1..Len(l), Due(v, since, n)
               PROVE  \/ \E i \in DOMAIN v : v[i] = Frame(n, l)
                      \/ since = Nobody /\ ~Replayable(l[n].kind)
    BY DEF NothingMissing
  <2>1. PICK i \in 1..Len(v) : v[i].seq > 0 /\ v[i].seq <= n
    BY <1>1, <1>4 DEF Due
  <2>2. i + 1 \in 1..Len(w) /\ i + 1 # 1 /\ w[i + 1].seq > 0 /\ w[i + 1].seq <= n
    BY <1>1, <1>2, <2>1
  <2>3. w[i + 1].seq \in Nat
    BY <2>2, DeliveryIsLogged DEF UnsentFits
  <2>4. Due(w, since, n)
    <3>1. CASE AtSnapshot(w)
      <4>1. w[i + 1].seq > StartsAt(w, since) /\ StartsAt(w, since) \in Nat
        <5>1. 1 \in 1..Len(w) /\ w[1].seq = -1
          BY <1>1, <3>1 DEF AtSnapshot
        <5>2. w[1] \in Snapshots
          BY <5>1, SnapshotIsFirst DEF UnsentFits
        <5>3. StartsAt(w, since) \in Nat
          BY <5>2, FrameKinds DEF StartsAt
        <5> QED BY <2>2, <3>1, <5>3 DEF UnsentFits, SnapshotFits
      <4> QED BY <2>2, <2>3, <3>1, <4>1 DEF Due
    <3>2. CASE ~AtSnapshot(w)
      BY <2>2, <3>2 DEF Due
    <3> QED BY <3>1, <3>2
  <2>5. CASE \E j \in 1..Len(w) : w[j] = Frame(n, l)
    <3>1. PICK j \in 1..Len(w) : w[j] = Frame(n, l)
      BY <2>5
    <3>2. w[j].seq = n
      BY <3>1, FrameKinds
    <3>3. j # 1
      <4> SUFFICES ASSUME j = 1 PROVE FALSE
        OBVIOUS
      <4>1. 1 < i + 1 /\ w[1].seq > 0
        BY <2>2, <3>2
      <4>2. w[1].seq < w[i + 1].seq
        BY <1>6, <2>2, <4>1
      <4> QED BY <2>2, <2>3, <3>2, <4>2
    <3>4. j - 1 \in 1..Len(v) /\ (j - 1) + 1 = j
      BY <1>1, <3>3
    <3>5. v[j - 1] = w[j]
      BY <1>1, <3>4
    <3> DEFINE h == j - 1
    <3>6. h \in DOMAIN v /\ v[h] = Frame(n, l)
      BY <1>1, <3>1, <3>4, <3>5
    <3> HIDE DEF h
    <3> QED BY <3>6
  <2>6. CASE ~\E j \in 1..Len(w) : w[j] = Frame(n, l)
    BY <2>4, <2>6 DEF UnsentFits, NothingMissing
  <2> QED BY <2>5, <2>6
<1>9. SnapshotFits(v, l, since)
  BY <1>4 DEF SnapshotFits
<1> QED BY <1>1, <1>4, <1>7, <1>8, <1>9 DEF UnsentFits

\* What a page that connects is sent: the snapshot, and the replay from it.
LEMMA Opened ==
    ASSUME NEW k, NEW stream, NEW source, NEW l \in Seq(Events), StreamFits(stream, source, l, k),
           NEW since \in Nat \cup {Nobody},
           since # Nobody => since <= stream.cursor /\ since >= Earliest(stream) - 1,
           NEW w, w = <<Snapshot(stream, since)>> \o ReplayFrom(stream, since)
    PROVE  w \in Seq(Snapshots \cup Records) /\ w # <<>> /\ UnsentFits(w, l, since)
<1> DEFINE h == stream.history
           S == Replays(since)
           o == Only(h, S)
           snap == Snapshot(stream, since)
           d == Len(l) - Len(h)
           base == (IF o = <<>> THEN stream.cursor + 1 ELSE Head(o).seq) - 1
           gap == since = Nobody /\ (stream.gap \/ Earliest(stream) > 1)
<1>1. h \in Seq(Records) /\ stream.cursor = Len(l) /\ stream.gap \in BOOLEAN /\ Len(l) \in Nat
  BY DEF StreamFits, Streams
<1>2. /\ d \in Nat /\ Len(h) \in Nat /\ d + Len(h) = Len(l)
      /\ \A i \in 1..Len(h) : d + i \in 1..Len(l) /\ h[i] = Frame(d + i, l)
  <2> DEFINE a == Numbered(0, l)
  <2>1. Len(a) = Len(l) /\ \A i \in 1..Len(l) : a[i] = [seq |-> 0 + i, event |-> l[i]]
    BY NumberedFits
  <2>2. EndOf(h, a)
    BY DEF StreamFits
  <2> HIDE DEF a, h
  <2>3. Len(h) \in Nat /\ Len(h) <= Len(l)
    BY <1>1, <2>1, <2>2 DEF EndOf
  <2>4. ASSUME NEW i \in 1..Len(h) PROVE d + i \in 1..Len(l) /\ h[i] = Frame(d + i, l)
    <3>1. d + i \in 1..Len(l) /\ Len(a) - Len(h) + i = d + i
      BY <1>1, <2>1, <2>3
    <3>2. h[i] = a[Len(a) - Len(h) + i]
      BY <2>2 DEF EndOf
    <3>3. a[d + i] = [seq |-> 0 + (d + i), event |-> l[d + i]] /\ 0 + (d + i) = d + i
      BY <2>1, <3>1
    <3> QED BY <3>1, <3>2, <3>3 DEF Frame
  <2>5. d \in Nat /\ d + Len(h) = Len(l)
    BY <1>1, <2>3
  <2> QED BY <2>3, <2>4, <2>5
<1> HIDE DEF d
<1>3. Earliest(stream) = d + 1
  <2>1. CASE h = <<>>
    <3>1. Len(h) = 0
      BY <2>1
    <3> QED BY <1>1, <1>2, <2>1, <3>1 DEF Earliest
  <2>2. CASE h # <<>>
    <3>1. 1 \in 1..Len(h) /\ Head(h) = h[1]
      BY <1>1, <2>2
    <3>2. h[1].seq = d + 1
      BY <1>2, <3>1, FrameKinds
    <3> QED BY <2>2, <3>1, <3>2 DEF Earliest
  <2> QED BY <2>1, <2>2
<1>4. o \in Seq(Records) /\ PickedFrom(o, h, S, Len(h))
  BY <1>1, OnlyFits
<1>5. snap = [seq |-> -1, base |-> base, gap |-> gap]
  BY DEF Snapshot, ReplayFrom
<1>6. w = <<snap>> \o o
  BY DEF ReplayFrom
<1> HIDE DEF h, S, o, snap
\* The frames of the replay are events of the log, in their order.
<1>7. \A i \in 1..Len(o) : \E j \in 1..Len(h) : o[i] = Frame(d + j, l) /\ o[i] \in S
  BY <1>2, <1>4 DEF PickedFrom
<1>8. \A i \in 1..Len(o) : o[i].seq \in 1..Len(l) /\ o[i] = Frame(o[i].seq, l) /\ o[i] \in S
  <2> TAKE i \in 1..Len(o)
  <2>1. PICK j \in 1..Len(h) : o[i] = Frame(d + j, l) /\ o[i] \in S
    BY <1>7
  <2>2. o[i].seq = d + j /\ d + j \in 1..Len(l)
    BY <1>2, <2>1, FrameKinds
  <2> QED BY <2>1, <2>2
<1>9. \A i, j \in 1..Len(o) : i < j => o[i].seq < o[j].seq
  <2> TAKE i, j \in 1..Len(o)
  <2> HAVE i < j
  <2>1. PICK a, b \in 1..Len(h) : a < b /\ o[i] = h[a] /\ o[j] = h[b]
    BY <1>4 DEF PickedFrom
  <2>2. h[a] = Frame(d + a, l) /\ h[b] = Frame(d + b, l)
    BY <1>2
  <2>3. h[a].seq = d + a /\ h[b].seq = d + b
    BY <2>2, FrameKinds
  <2> QED BY <1>2, <2>1, <2>3
\* An event of the history that is to be replayed is replayed.
<1>10. ASSUME NEW n \in 1..Len(l), n > d, Frame(n, l) \in S PROVE \E i \in 1..Len(o) : o[i] = Frame(n, l)
  <2> DEFINE j == n - d
  <2>1. j \in 1..Len(h) /\ d + j = n
    BY <1>2, <1>10
  <2> HIDE DEF j
  <2>2. h[j] = Frame(n, l)
    BY <1>2, <2>1
  <2>3. h[j] \in S => \E i \in 1..Len(o) : o[i] = h[j]
    BY <1>4, <2>1 DEF PickedFrom
  <2> QED BY <1>10, <2>2, <2>3
<1>11. \A n \in 1..Len(l) : Frame(n, l) \in S <=>
            IF since = Nobody THEN Replayable(l[n].kind) ELSE n > since
  <2> TAKE n \in 1..Len(l)
  <2>1. Frame(n, l) \in Records
    BY DEF Frame, Records
  <2> QED BY <2>1, FrameKinds DEF S, Replays
\* The base: in front of the first event replayed, or at the cursor.
<1>12. base \in Nat /\ base <= Len(l) /\ (o # <<>> => base = o[1].seq - 1) /\ (o = <<>> => base = Len(l))
  <2>1. CASE o = <<>>
    BY <1>1, <2>1
  <2>2. CASE o # <<>>
    <3>1. 1 \in 1..Len(o) /\ Head(o) = o[1]
      BY <1>4, <2>2
    <3>2. o[1].seq \in 1..Len(l)
      BY <1>8, <3>1
    <3> QED BY <1>1, <2>2, <3>1, <3>2
  <2> QED BY <2>1, <2>2
<1> HIDE DEF base, gap
<1>13. snap \in Snapshots /\ snap.base = base /\ snap.gap = gap
  BY <1>5, <1>12 DEF Snapshots, gap
<1>14. /\ w \in Seq(Snapshots \cup Records) /\ Len(w) = Len(o) + 1
       /\ w[1] = snap
       /\ \A i \in 1..Len(o) : w[i + 1] = o[i]
  <2>1. snap \in Snapshots \cup Records /\ o \in Seq(Snapshots \cup Records)
    BY <1>4, <1>13
  <2> QED BY ONLY <1>6, <2>1
<1>15. Len(o) \in Nat /\ DOMAIN w = 1..Len(w) /\ w # <<>> /\ AtSnapshot(w)
  <2>1. w[1].seq = -1
    BY <1>13, <1>14, FrameKinds
  <2>2. Len(o) \in Nat /\ DOMAIN w = 1..Len(w) /\ w # <<>>
    BY <1>4, <1>14
  <2> QED BY <2>1, <2>2 DEF AtSnapshot
<1>16. ASSUME NEW i \in 1..Len(w), i # 1
       PROVE  \E j \in 1..Len(o) : j = i - 1 /\ j + 1 = i /\ w[i] = o[j]
  <2> DEFINE j == i - 1
  <2>1. j \in 1..Len(o) /\ j + 1 = i
    BY <1>14, <1>15, <1>16
  <2> HIDE DEF j
  <2>2. w[i] = o[j]
    BY <1>14, <2>1
  <2>3. j = i - 1
    BY DEF j
  <2> QED BY <2>1, <2>2, <2>3
<1>17. FramesFit(w, l)
  <2>1. ASSUME NEW i \in 1..Len(w)
        PROVE  \/ i = 1 /\ w[i] \in Snapshots
               \/ w[i] = Pong
               \/ \E n \in 1..Len(l) : w[i] = Frame(n, l)
    <3>1. CASE i = 1
      BY <1>13, <1>14, <3>1
    <3>2. CASE i # 1
      BY <1>8, <1>16, <3>2
    <3> QED BY <3>1, <3>2
  <2>2. ASSUME NEW i \in 1..Len(w), NEW j \in 1..Len(w), i < j, w[i].seq > 0, w[j].seq > 0
        PROVE  w[i].seq < w[j].seq
    <3>1. i # 1
      <4>1. w[1].seq = -1
        BY <1>13, <1>14, FrameKinds
      <4> QED BY <2>2, <4>1
    <3>2. j # 1
      BY <2>2
    <3>3. PICK a \in 1..Len(o) : a = i - 1 /\ w[i] = o[a]
      BY <1>16, <3>1
    <3>4. PICK b \in 1..Len(o) : b = j - 1 /\ w[j] = o[b]
      BY <1>16, <3>2
    <3>5. a < b
      BY <2>2, <3>3, <3>4
    <3> QED BY <1>9, <3>3, <3>4, <3>5
  <2> QED BY <1>15, <2>1, <2>2 DEF FramesFit
<1>18. since = Nobody => \A n \in 1..Len(l) : n > d /\ n <= base => ~Replayable(l[n].kind)
  <2> SUFFICES ASSUME since = Nobody, NEW n \in 1..Len(l), n > d, n <= base, Replayable(l[n].kind)
               PROVE  FALSE
    OBVIOUS
  <2>1. PICK i \in 1..Len(o) : o[i] = Frame(n, l)
    BY <1>10, <1>11
  <2>2. o[i].seq = n /\ 1 \in 1..Len(o) /\ o # <<>>
    BY <1>4, <2>1, FrameKinds
  <2>3. o[1].seq <= n
    <3>1. CASE i = 1
      BY <2>2, <3>1
    <3>2. CASE i # 1
      <4>1. 1 < i
        BY <3>2
      <4>2. o[1].seq < o[i].seq
        BY <1>9, <2>2, <4>1
      <4>3. o[1].seq \in 1..Len(l)
        BY <1>8, <2>2
      <4> QED BY <2>2, <4>2, <4>3
    <3> QED BY <3>1, <3>2
  <2>4. o[1].seq \in Nat /\ base = o[1].seq - 1
    BY <1>8, <1>12, <2>2
  <2> QED BY <2>3, <2>4
<1>19. since # Nobody => since \in Nat /\ since >= d /\ since <= Len(l)
  BY <1>1, <1>2, <1>3
<1>20. since = Nobody => base >= d
  <2>1. CASE o = <<>>
    BY <1>2, <1>12, <2>1
  <2>2. CASE o # <<>>
    <3>1. 1 \in 1..Len(o)
      BY <1>4, <2>2
    <3>2. PICK j \in 1..Len(h) : o[1] = Frame(d + j, l)
      BY <1>7, <3>1
    <3>3. o[1].seq = d + j
      BY <3>2, FrameKinds
    <3> QED BY <1>2, <1>12, <2>2, <3>3
  <2> QED BY <2>1, <2>2
<1>21. w[1].base = base /\ w[1].gap = gap
  BY <1>13, <1>14
<1>22. NothingMissing(w, l, since)
  <2> SUFFICES ASSUME NEW n \in 1..Len(l), n > StartsAt(w, since)
               PROVE  \/ \E i \in DOMAIN w : w[i] = Frame(n, l)
                      \/ since = Nobody /\ ~Replayable(l[n].kind)
    BY <1>15 DEF NothingMissing, Due
  <2>1. n > d
    BY <1>2, <1>12, <1>19, <1>20, <1>21 DEF StartsAt
  <2>2. CASE Frame(n, l) \in S
    <3>1. PICK i \in 1..Len(o) : o[i] = Frame(n, l)
      BY <1>10, <2>1, <2>2
    <3> DEFINE g == i + 1
    <3>2. g \in DOMAIN w /\ w[g] = Frame(n, l)
      BY <1>14, <1>15, <3>1
    <3> HIDE DEF g
    <3> QED BY <3>2
  <2>3. CASE Frame(n, l) \notin S
    <3>1. since = Nobody
      BY <1>11, <2>3 DEF StartsAt
    <3> QED BY <1>11, <2>3, <3>1
  <2> QED BY <2>2, <2>3
<1>23. SnapshotFits(w, l, since)
  <2>1. StartsAt(w, since) <= Len(l)
    BY <1>12, <1>19, <1>21 DEF StartsAt
  <2>2. ASSUME NEW i \in 1..Len(w), w[i].seq > 0 PROVE w[i].seq > StartsAt(w, since)
    <3>1. i # 1
      <4>1. w[1].seq = -1
        BY <1>13, <1>14, FrameKinds
      <4> QED BY <2>2, <4>1
    <3>2. PICK j \in 1..Len(o) : w[i] = o[j]
      BY <1>16, <3>1
    <3>3. o[j].seq \in 1..Len(l) /\ o[j] = Frame(o[j].seq, l) /\ o[j] \in S
      BY <1>8
    <3>4. CASE since # Nobody
      BY <1>11, <3>2, <3>3, <3>4 DEF StartsAt
    <3>5. CASE since = Nobody
      <4>1. 1 \in 1..Len(o) /\ o # <<>> /\ o[1].seq \in Nat
        <5>1. 1 \in 1..Len(o) /\ o # <<>>
          BY <1>4
        <5>2. o[1].seq \in 1..Len(l)
          BY <1>8, <5>1
        <5> QED BY <5>1, <5>2
      <4>2. o[1].seq <= o[j].seq
        BY <1>9, <3>3, <4>1
      <4> QED BY <1>12, <1>21, <3>2, <3>3, <3>5, <4>1, <4>2 DEF StartsAt
    <3> QED BY <3>4, <3>5
  <2>3. since # Nobody => ~w[1].gap
    BY <1>21 DEF gap
  <2>4. ASSUME since = Nobody, ~w[1].gap, NEW n \in 1..w[1].base PROVE ~Replayable(l[n].kind)
    <3>1. d = 0
      <4>1. ~(d + 1 > 1)
        BY <1>3, <1>21, <2>4 DEF gap
      <4> QED BY <1>2, <4>1
    <3>2. n \in 1..Len(l) /\ n > d /\ n <= base
      BY <1>12, <1>21, <3>1
    <3> QED BY <1>18, <2>4, <3>2
  <2> QED BY <1>15, <2>1, <2>2, <2>3, <2>4 DEF SnapshotFits
<1> QED BY <1>14, <1>15, <1>17, <1>22, <1>23 DEF UnsentFits

-----------------------------------------------------------------------------
(* What each part of a step keeps.                                          *)

\* What a socket has to send is a sequence of frames.
LEMMA Sends ==
    ASSUME NEW s \in Sockets
    PROVE  s.todo \o s.queue \in Seq(AnyFrame)
<1>1. s.todo \in Seq(Snapshots \cup Records) /\ s.queue \in Seq(Records \cup {Pong})
  BY DEF Sockets
<1>2. s.todo \in Seq(AnyFrame) /\ s.queue \in Seq(AnyFrame)
  BY <1>1 DEF AnyFrame
<1> QED BY <1>2

\* A socket nobody has opened fits.
LEMMA FreeFits == SocketFits(Free, FALSE)
<1>1. Free \in Sockets
  BY DEF Free, Sockets
<1> QED BY <1>1, Sizes DEF Free, SocketFits

\* A socket that is closed is no client any more.
LEMMA ClosedFits ==
    ASSUME NEW s \in Sockets, s.reader \in Readers, NEW code \in Nat, NEW y,
           y = [s EXCEPT !.phase = "closing", !.todo = <<>>, !.queue = <<>>, !.code = code]
    PROVE  SocketFits(y, FALSE)
<1>1. y \in Sockets /\ y.phase = "closing" /\ y.todo = <<>> /\ y.queue = <<>> /\ y.reader = s.reader
  <2>1. s = [reader |-> s.reader, phase |-> s.phase, since |-> s.since, version |-> s.version,
             todo |-> s.todo, queue |-> s.queue, code |-> s.code]
    BY DEF Sockets
  <2>2. y = [reader |-> s.reader, phase |-> "closing", since |-> s.since, version |-> s.version,
             todo |-> <<>>, queue |-> <<>>, code |-> code]
    BY <2>1
  <2>3. <<>> \in Seq(Snapshots \cup Records) /\ <<>> \in Seq(Records \cup {Pong})
    OBVIOUS
  <2> QED BY <2>2, <2>3 DEF Sockets
<1>2. Len(y.queue) <= QueueSize
  BY <1>1, Sizes
<1> QED BY <1>1, <1>2 DEF SocketFits

\* A socket that takes frames behind its queue stays a client, and what it has
\* to send grows by them.
LEMMA QueuedFits ==
    ASSUME NEW s, SocketFits(s, TRUE), NEW q \in Seq(Records \cup {Pong}),
           Len(s.queue) + Len(q) <= QueueSize, NEW y, y = [s EXCEPT !.queue = @ \o q]
    PROVE  /\ SocketFits(y, TRUE)
           /\ y.reader = s.reader /\ y.since = s.since /\ y.version = s.version /\ y.todo = s.todo
           /\ Behind(s.todo \o s.queue, q, y.todo \o y.queue)
<1>1. s \in Sockets /\ s.queue \in Seq(Records \cup {Pong}) /\ s.todo \in Seq(Snapshots \cup Records)
  BY DEF SocketFits, Sockets
<1> DEFINE z == s.queue \o q
<1>2. z \in Seq(Records \cup {Pong}) /\ Len(z) <= QueueSize
  BY <1>1
<1>3. y = [s EXCEPT !.queue = z]
  OBVIOUS
<1> HIDE DEF z
<1>4. /\ y \in Sockets /\ y.queue = z /\ y.phase = s.phase
      /\ y.reader = s.reader /\ y.since = s.since /\ y.version = s.version /\ y.todo = s.todo
  BY <1>1, <1>2, <1>3 DEF Sockets
<1>5. SocketFits(y, TRUE)
  BY <1>2, <1>4 DEF SocketFits
<1>6. Behind(s.todo \o s.queue, q, y.todo \o y.queue)
  <2> DEFINE a == s.todo
             b == s.queue
  <2>1. a \in Seq(AnyFrame) /\ b \in Seq(AnyFrame) /\ q \in Seq(AnyFrame)
    BY <1>1 DEF AnyFrame
  <2>2. y.todo \o y.queue = a \o (b \o q)
    BY <1>4 DEF z
  <2> HIDE DEF a, b
  <2>3. (a \o b) \o q = a \o (b \o q)
    BY <2>1, ConcatAssociative
  <2> QED BY <2>2, <2>3 DEF Behind, a, b
<1> QED BY <1>4, <1>5, <1>6

\* Clients that leave leave fewer.
LEMMA FewerClients ==
    ASSUME ClientsBounded, NEW D \in SUBSET clients
    PROVE  D \subseteq Conns /\ IsFiniteSet(D) /\ Cardinality(D) <= MaxClients
<1>1. IsFiniteSet(D) /\ Cardinality(D) <= Cardinality(clients)
  BY FS_Subset DEF ClientsBounded
<1>2. Cardinality(D) \in Nat /\ Cardinality(clients) \in Nat
  BY <1>1, FS_CardinalityType DEF ClientsBounded
<1> QED BY <1>1, <1>2, Sizes DEF ClientsBounded

\* A transaction keeps the room one with its logs.
LEMMA Published ==
    ASSUME NEW r, NEW logs, RoomFits(r, logs), NEW kinds \in Payloads,
           NEW more, more = [k \in Keys |-> logs[k] \o Visible(r, kinds, k)]
    PROVE  /\ RoomFits(Publish(r, kinds), more)
           /\ Publish(r, kinds).cap = r.cap
           /\ \A k \in Keys : Visible(r, kinds, k) \in Seq(Events)
<1> DEFINE staged == Staged(r, kinds)
           p == Publish(r, kinds)
           e(k) == Visible(r, kinds, k)
<1>1. r.seq \in Nat /\ r.source \in Seq(Events) /\ r.streams \in [Keys -> Streams] /\ r.cap \in Capabilities
  BY DEF RoomFits
<1>2. staged \in Seq(Events) /\ Len(kinds) \in Nat
  BY <1>1, StagedFits
<1>3. /\ p.seq = r.seq + Len(kinds) /\ p.source = Recent(r.source \o staged) /\ p.cap = r.cap
      /\ p.streams = [k \in Keys |-> Extended(r.streams[k], e(k))]
      /\ p = [seq |-> p.seq, source |-> p.source, streams |-> p.streams, cap |-> p.cap]
  <2>1. r = [seq |-> r.seq, source |-> r.source, streams |-> r.streams, cap |-> r.cap]
    BY DEF RoomFits
  <2> DEFINE a == r.seq + Len(kinds)
             b == Recent(r.source \o staged)
             z == [k \in Keys |-> Extended(r.streams[k], e(k))]
  <2>2. p = [r EXCEPT !.seq = a, !.source = b, !.streams = z]
    BY DEF Publish
  <2> HIDE DEF a, b, z, p
  <2>3. p = [seq |-> a, source |-> b, streams |-> z, cap |-> r.cap]
    BY <2>1, <2>2
  <2>4. p.seq = a /\ p.source = b /\ p.streams = z /\ p.cap = r.cap
    BY <2>3
  <2> QED BY <2>3, <2>4 DEF a, b, z
<1> HIDE DEF staged, p
<1>4. ASSUME NEW k \in Keys
      PROVE  /\ e(k) \in Seq(Events) /\ more[k] \in Seq(Events)
             /\ Recent(r.source \o staged) \in Seq(Events)
             /\ StreamFits(Extended(r.streams[k], e(k)), Recent(r.source \o staged), more[k], k)
  <2>1. logs[k] \in Seq(Events) /\ StreamFits(r.streams[k], r.source, logs[k], k)
    BY DEF RoomFits
  <2>2. e(k) = Only(staged, SeenBy(k))
    BY DEF Visible, staged
  <2>3. more[k] = logs[k] \o e(k)
    OBVIOUS
  <2> HIDE DEF e
  <2> QED BY <1>1, <1>2, <2>1, <2>2, <2>3, ExtendedFits
<1>5. Recent(r.source \o staged) \in Seq(Events)
  <2>1. r.source \o staged \in Seq(Events)
    BY <1>1, <1>2
  <2> QED BY <2>1, RecentFits
<1> HIDE DEF e
<1>6. \A k \in Keys : StreamFits(p.streams[k], p.source, more[k], k)
  BY <1>3, <1>4
<1>7. p.streams \in [Keys -> Streams]
  BY <1>3, <1>4 DEF StreamFits
<1>8. p.seq \in Nat /\ p.source \in Seq(Events) /\ p.cap \in Capabilities
  BY <1>1, <1>2, <1>3, <1>5
<1>9. more \in [Keys -> Seq(Events)]
  BY <1>4 DEF e
<1>10. p \in [seq : Nat, source : Seq(Events), streams : [Keys -> Streams], cap : Capabilities]
  BY <1>3, <1>7, <1>8
<1> QED BY <1>3, <1>4, <1>6, <1>9, <1>10 DEF RoomFits, p, e

\* So does a restart from the row that was saved.
LEMMA RestoredRoom ==
    ASSUME NEW r, NEW logs, RoomFits(r, logs)
    PROVE  RoomFits(Restored(Record(r)), logs) /\ Restored(Record(r)).cap = r.cap
<1> DEFINE row == Record(r)
           p == Restored(row)
<1>1. /\ row.seq = r.seq /\ row.source = r.source /\ row.cap = r.cap
      /\ \A k \in Keys : row.meta[k] = [cursor |-> r.streams[k].cursor, gap |-> r.streams[k].gap]
  BY DEF Record
<1> HIDE DEF row
<1>2. /\ p.seq = r.seq /\ p.source = r.source /\ p.cap = r.cap
      /\ p.streams = [k \in Keys |-> RestoredStream(row, k)]
      /\ p = [seq |-> p.seq, source |-> p.source, streams |-> p.streams, cap |-> p.cap]
  BY <1>1 DEF Restored
<1> HIDE DEF p
<1>3. r.seq \in Nat /\ r.source \in Seq(Events) /\ r.cap \in Capabilities
      /\ logs \in [Keys -> Seq(Events)]
  BY DEF RoomFits
<1>4. ASSUME NEW k \in Keys PROVE StreamFits(RestoredStream(row, k), r.source, logs[k], k)
  <2>1. logs[k] \in Seq(Events) /\ StreamFits(r.streams[k], r.source, logs[k], k)
    BY DEF RoomFits
  <2> QED BY <1>1, <1>3, <2>1, RestoredFits
<1>5. p.streams \in [Keys -> Streams]
  BY <1>2, <1>4 DEF StreamFits
<1>6. \A k \in Keys : StreamFits(p.streams[k], p.source, logs[k], k)
  BY <1>2, <1>4
<1>7. p \in [seq : Nat, source : Seq(Events), streams : [Keys -> Streams], cap : Capabilities]
  BY <1>2, <1>3, <1>5
<1> QED BY <1>2, <1>3, <1>6, <1>7 DEF RoomFits, p, row

\* A page without the socket c does not wait for it.
LEMMA WaitsForNothing ==
    ASSUME NEW p, NEW c \in Conns, NEW s, p.socket # c PROVE PageWaits(p, c, s)
BY DEF PageWaits

\* A page moves on its own: it leaves its socket, and does not go forward.
LEMMA PageStep ==
    ASSUME DeliveryInv, NEW r \in Readers, NEW x \in Pages, x.socket = Nobody, x.last <= page[r].last,
           page' = [page EXCEPT ![r] = x], faults' \in Nat, UNCHANGED <<room, disk, clients, conn, log>>
    PROVE  DeliveryInv'
<1>1. page \in [Readers -> Pages] /\ log \in [Keys -> Seq(Events)]
      /\ \A q \in Readers : page[q].last <= Len(log[KeyOf[q]])
  BY DEF DeliveryInv, PagesFit, RoomFits
<1>2. page' \in [Readers -> Pages] /\ \A q \in Readers : page'[q] = IF q = r THEN x ELSE page[q]
  BY <1>1
<1>3. PagesFit(page', log)
  <2> SUFFICES ASSUME NEW q \in Readers PROVE page'[q].last <= Len(log[KeyOf[q]])
    BY <1>2 DEF PagesFit
  <2>1. Len(log[KeyOf[q]]) \in Nat /\ page[q].last \in Nat /\ page'[q].last \in Nat
    BY <1>1, <1>2, Sizes DEF Pages
  <2> QED BY <1>1, <1>2, <2>1
<1>4. ASSUME NEW c \in clients
      PROVE  ClientFits(conn[c], page'[conn[c].reader], c, log[KeyOf[conn[c].reader]], room.cap)
  <2>1. ClientFits(conn[c], page[conn[c].reader], c, log[KeyOf[conn[c].reader]], room.cap)
    BY DEF DeliveryInv
  <2>2. c \in Conns /\ conn[c].reader \in Readers
    BY DEF DeliveryInv, ClientsBounded, SocketFits
  <2>3. PageWaits(page'[conn[c].reader], c, conn[c])
    <3>1. CASE conn[c].reader = r
      BY <1>2, <2>2, <3>1, Sizes, WaitsForNothing
    <3>2. CASE conn[c].reader # r
      BY <1>2, <2>1, <2>2, <3>2 DEF ClientFits
    <3> QED BY <3>1, <3>2
  <2> QED BY <2>1, <2>3 DEF ClientFits
<1> QED BY <1>3, <1>4 DEF DeliveryInv, ClientsBounded

\* The page p after a step of the socket c, which is not the page's or which it
\* has been shown something by.
PageFollows(p, q, c, l) ==
    \/ q = p
    \/ /\ p.socket = c /\ q \in Pages
       /\ q.socket \in {c, Nobody} /\ q.last <= Len(l)

\* A step of one socket, and of the page that listens to it.
LEMMA SocketStep ==
    ASSUME DeliveryInv, NEW c \in Conns, NEW y, NEW in \in BOOLEAN, in => c \in clients,
           SocketFits(y, in),
           conn' = [conn EXCEPT ![c] = y], clients' = IF in THEN clients ELSE clients \ {c},
           page' \in [Readers -> Pages],
           \A r \in Readers : PageFollows(page[r], page'[r], c, log[KeyOf[r]]),
           in => ClientFits(y, page'[y.reader], c, log[KeyOf[y.reader]], room.cap),
           UNCHANGED <<room, disk, log, faults>>
    PROVE  DeliveryInv'
<1>1. conn \in [Conns -> Sockets] /\ log \in [Keys -> Seq(Events)] /\ y \in Sockets
      /\ clients \subseteq Conns
  BY DEF DeliveryInv, RoomFits, SocketFits, ClientsBounded
<1>2. conn' \in [Conns -> Sockets] /\ \A d \in Conns : conn'[d] = IF d = c THEN y ELSE conn[d]
  BY <1>1
<1>3. PagesFit(page', log)
  <2> SUFFICES ASSUME NEW q \in Readers PROVE page'[q].last <= Len(log[KeyOf[q]])
    BY DEF PagesFit
  <2>1. page[q].last <= Len(log[KeyOf[q]])
    BY DEF DeliveryInv, PagesFit
  <2> QED BY <2>1 DEF PageFollows
<1>4. ClientsBounded'
  <2>1. clients' \in SUBSET clients
    OBVIOUS
  <2>2. ClientsBounded
    BY DEF DeliveryInv
  <2>3. clients' \subseteq Conns /\ IsFiniteSet(clients') /\ Cardinality(clients') <= MaxClients
    BY <2>1, <2>2, FewerClients
  <2> QED BY <2>3 DEF ClientsBounded
<1>5. ASSUME NEW d \in Conns PROVE SocketFits(conn'[d], d \in clients')
  <2>1. CASE d = c
    <3>1. (d \in clients') = in
      BY <2>1
    <3> QED BY <1>2, <2>1, <3>1
  <2>2. CASE d # c
    <3>1. (d \in clients') = (d \in clients)
      BY <2>2
    <3>2. SocketFits(conn[d], d \in clients)
      BY DEF DeliveryInv
    <3> QED BY <1>2, <2>2, <3>1, <3>2
  <2> QED BY <2>1, <2>2
<1>6. ASSUME NEW d \in clients'
      PROVE  ClientFits(conn'[d], page'[conn'[d].reader], d, log[KeyOf[conn'[d].reader]], room.cap)
  <2>1. CASE d = c
    BY <1>2, <2>1
  <2>2. CASE d # c
    <3>1. d \in clients /\ d \in Conns /\ conn'[d] = conn[d]
      BY <1>1, <1>2, <2>2
    <3>2. ClientFits(conn[d], page[conn[d].reader], d, log[KeyOf[conn[d].reader]], room.cap)
      BY <3>1 DEF DeliveryInv
    <3> DEFINE r == conn[d].reader
    <3>3. r \in Readers
      BY <3>1 DEF DeliveryInv, SocketFits
    <3> HIDE DEF r
    <3>4. PageWaits(page'[r], d, conn[d])
      <4>1. CASE page'[r] = page[r]
        BY <3>2, <4>1 DEF ClientFits, r
      <4>2. CASE page'[r] # page[r]
        <5>1. page'[r].socket \in {c, Nobody}
          BY <3>3, <4>2 DEF PageFollows
        <5>2. page'[r].socket # d
          BY <2>2, <3>1, <5>1, Sizes
        <5> QED BY <3>1, <5>2, WaitsForNothing
      <4> QED BY <4>1, <4>2
    <3> QED BY <3>1, <3>2, <3>4 DEF ClientFits, r
  <2> QED BY <2>1, <2>2
<1> QED BY <1>2, <1>3, <1>4, <1>5, <1>6 DEF DeliveryInv

\* The fields of a page, and what they range over.
LEMMA PageFields ==
    ASSUME NEW p \in Pages
    PROVE  /\ p = [last |-> p.last, opening |-> p.opening, socket |-> p.socket, want |-> p.want,
                   version |-> p.version, told |-> p.told, shown |-> p.shown]
           /\ p.last \in Nat /\ p.opening \in Nat \cup {Nobody} /\ p.socket \in Conns \cup {Nobody}
           /\ p.want \in BOOLEAN /\ p.version \in Nat /\ p.told \in BOOLEAN
           /\ p.shown \in Events \cup {Nobody}
BY DEF Pages

\* What a page makes of the end of its socket.
LEMMA PageLeaves ==
    ASSUME NEW p \in Pages, NEW code, NEW x, x = AfterClose(p, code) \/ x = Resynced(p)
    PROVE  x \in Pages /\ x.socket = Nobody /\ x.last <= p.last /\ x.shown = p.shown /\ x.told = p.told
           /\ (x.last = p.last \/ x.last = 0)
<1>1. CASE x = [p EXCEPT !.last = 0, !.opening = Nobody, !.socket = Nobody]
  <2>1. x = [last |-> 0, opening |-> Nobody, socket |-> Nobody, want |-> p.want,
             version |-> p.version, told |-> p.told, shown |-> p.shown]
    BY <1>1, PageFields
  <2> QED BY <2>1, PageFields DEF Pages
<1>2. CASE x = [p EXCEPT !.want = code \notin {4400, 4403, 4410, 4429}, !.socket = Nobody]
  <2> DEFINE b == code \notin {4400, 4403, 4410, 4429}
  <2>1. b \in BOOLEAN /\ x = [p EXCEPT !.want = b, !.socket = Nobody]
    BY <1>2
  <2> HIDE DEF b
  <2>2. x = [last |-> p.last, opening |-> p.opening, socket |-> Nobody, want |-> b,
             version |-> p.version, told |-> p.told, shown |-> p.shown]
    BY <2>1, PageFields
  <2> QED BY <2>1, <2>2, PageFields DEF Pages
<1> QED BY <1>1, <1>2 DEF AfterClose, Resynced

\* A reader's page is a page.
LEMMA PageOf ==
    ASSUME DeliveryInv, NEW r \in Readers
    PROVE  page[r] \in Pages /\ page[r].last \in Nat
BY DEF DeliveryInv, PagesFit, Pages

\* A connection the server refuses: the page is closed with the refusal's code.
LEMMA RefusalLeavesInv ==
    ASSUME DeliveryInv, NEW r \in Readers, ConnectRefused(r)
    PROVE  DeliveryInv'
<1> DEFINE code == Refusal(r, Opening(r))
           x == AfterClose(page[r], code)
<1>1. page[r] \in Pages
  BY PageOf
<1>2. page' = [page EXCEPT ![r] = x] /\ UNCHANGED <<room, disk, clients, conn, log, faults>>
  BY DEF ConnectRefused
<1> HIDE DEF code
<1>3. x \in Pages /\ x.socket = Nobody /\ x.last <= page[r].last
  BY <1>1, PageLeaves
<1>4. faults' \in Nat
  BY <1>2 DEF DeliveryInv
<1> HIDE DEF x
<1> QED BY <1>2, <1>3, <1>4, PageStep

\* The user opens the page again.
LEMMA ReloadLeavesInv ==
    ASSUME DeliveryInv, NEW r \in Readers, Reload(r)
    PROVE  DeliveryInv'
<1> DEFINE v == IF KeyOf[r] \in Guarded THEN room.cap[KeyOf[r]].version ELSE 1
           x == [page[r] EXCEPT !.last = 0, !.opening = Nobody, !.want = TRUE, !.version = v]
<1>1. page[r] \in Pages /\ page[r].socket = Nobody /\ page[r].last \in Nat
  BY PageOf DEF Reload, Attached
<1>2. page' = [page EXCEPT ![r] = x] /\ UNCHANGED <<room, disk, clients, conn, log, faults>>
  BY DEF Reload
<1>3. v \in Nat
  BY DEF DeliveryInv, RoomFits, Capabilities
<1> HIDE DEF v
<1>4. x \in Pages /\ x.socket = Nobody /\ x.last <= page[r].last
  <2> DEFINE p == page[r]
             b == TRUE
  <2>1. p \in Pages /\ p.socket = Nobody /\ b \in BOOLEAN
        /\ x = [p EXCEPT !.last = 0, !.opening = Nobody, !.want = b, !.version = v]
    BY <1>1
  <2> HIDE DEF p, x, b
  <2>2. x = [last |-> 0, opening |-> Nobody, socket |-> p.socket, want |-> b,
             version |-> v, told |-> p.told, shown |-> p.shown]
    <3>1. p = [last |-> p.last, opening |-> p.opening, socket |-> p.socket, want |-> p.want,
               version |-> p.version, told |-> p.told, shown |-> p.shown]
      BY <2>1, PageFields
    <3> QED BY ONLY <2>1, <3>1
  <2>3. p.told \in BOOLEAN /\ p.shown \in Events \cup {Nobody} /\ p.last \in Nat
    BY <2>1, PageFields
  <2>4. x \in Pages
    BY <1>3, <2>1, <2>2, <2>3 DEF Pages
  <2>5. x.socket = Nobody /\ x.last = 0
    BY <2>1, <2>2
  <2> QED BY <2>3, <2>4, <2>5 DEF p
<1>5. faults' \in Nat
  BY <1>2 DEF DeliveryInv
<1> HIDE DEF x
<1> QED BY <1>2, <1>4, <1>5, PageStep

\* The transport breaks under a page.
LEMMA SocketLostLeavesInv ==
    ASSUME DeliveryInv, NEW r \in Readers, SocketLost(r)
    PROVE  DeliveryInv'
<1> DEFINE x == [page[r] EXCEPT !.socket = Nobody]
<1>1. page[r] \in Pages /\ page[r].last \in Nat
  BY PageOf
<1>2. page' = [page EXCEPT ![r] = x] /\ UNCHANGED <<room, disk, clients, conn, log>>
  BY DEF SocketLost
<1>3. x \in Pages /\ x.socket = Nobody /\ x.last <= page[r].last
  BY <1>1 DEF Pages
<1>4. faults' \in Nat
  BY DEF SocketLost, DeliveryInv
<1> HIDE DEF x
<1> QED BY <1>2, <1>3, <1>4, PageStep

\* A client, and what it has to send.
LEMMA ClientOf ==
    ASSUME DeliveryInv, NEW c \in clients
    PROVE  /\ c \in Conns /\ conn[c] \in Sockets /\ conn[c].reader \in Readers
           /\ SocketFits(conn[c], TRUE)
           /\ ClientFits(conn[c], page[conn[c].reader], c, log[KeyOf[conn[c].reader]], room.cap)
           /\ log[KeyOf[conn[c].reader]] \in Seq(Events)
           /\ conn[c].since \in Nat \cup {Nobody}
           /\ conn[c].todo \o conn[c].queue \in Seq(AnyFrame)
<1>1. c \in Conns /\ (c \in clients) = TRUE /\ SocketFits(conn[c], c \in clients)
  BY DEF DeliveryInv, ClientsBounded
<1>2. conn[c] \in Sockets /\ SocketFits(conn[c], TRUE)
  BY <1>1 DEF SocketFits
<1>3. conn[c].reader \in Readers /\ conn[c].since \in Nat \cup {Nobody}
  BY <1>2 DEF SocketFits, Sockets
<1>4. log[KeyOf[conn[c].reader]] \in Seq(Events)
  BY <1>3, Sizes DEF DeliveryInv, RoomFits
<1>5. ClientFits(conn[c], page[conn[c].reader], c, log[KeyOf[conn[c].reader]], room.cap)
  BY DEF DeliveryInv
<1> QED BY <1>1, <1>2, <1>3, <1>4, <1>5, Sends

\* A socket that is no client has nothing to send.
LEMMA OnlyClientsSend ==
    ASSUME DeliveryInv, NEW c \in Conns, c \notin clients
    PROVE  conn[c].queue = <<>> /\ conn[c].phase \notin {"handshake", "live"}
<1>1. SocketFits(conn[c], c \in clients) /\ (c \in clients) = FALSE
  BY DEF DeliveryInv
<1> QED BY <1>1 DEF SocketFits

\* The page gives up a socket that does not answer its ping.
LEMMA PongTimeoutLeavesInv ==
    ASSUME DeliveryInv, NEW c \in Conns, PongTimeout(c)
    PROVE  DeliveryInv'
<1> DEFINE r == conn[c].reader
           x == Resynced(page[r])
<1>1. c \in clients
  <2>1. conn[c].queue # <<>>
    BY DEF PongTimeout, HasPong
  <2> QED BY <2>1, OnlyClientsSend
<1>2. r \in Readers
  BY <1>1, ClientOf
<1>3. page' = [page EXCEPT ![r] = x] /\ UNCHANGED <<room, disk, clients, conn, log, faults>>
  BY DEF PongTimeout
<1> HIDE DEF r
<1>4. x \in Pages /\ x.socket = Nobody /\ x.last <= page[r].last
  BY <1>2, PageOf, PageLeaves
<1>5. faults' \in Nat
  BY <1>3 DEF DeliveryInv
<1> HIDE DEF x
<1> QED BY <1>2, <1>3, <1>4, <1>5, PageStep

\* A save that fails, in a broadcast or in a rotation, leaves the room as it was.
LEMMA NotSavedLeavesInv ==
    ASSUME DeliveryInv,
           \/ \E kinds \in Payloads : BroadcastNotSaved(kinds)
           \/ \E k \in Guarded, live \in BOOLEAN : ChangeCapabilityNotSaved(k, live)
    PROVE  DeliveryInv'
<1>1. UNCHANGED <<room, disk, clients, conn, page, log>> /\ faults' \in Nat
  BY DEF DeliveryInv, BroadcastNotSaved, ChangeCapabilityNotSaved, RolledBack
<1> QED BY <1>1 DEF DeliveryInv, ClientsBounded

\* A snapshot to be sent comes first, before the queue.
LEMMA SnapshotIsToDo ==
    ASSUME NEW s \in Sockets, NEW w, w = s.todo \o s.queue, AtSnapshot(w)
    PROVE  AtSnapshot(s.todo)
<1> DEFINE a == s.todo
           b == s.queue
<1>1. a \in Seq(Snapshots \cup Records) /\ b \in Seq(Records \cup {Pong})
  BY DEF Sockets
<1>2. w = a \o b
  OBVIOUS
<1> HIDE DEF a, b
<1>3. CASE a = <<>>
  <2>1. w = b
    BY <1>1, <1>2, <1>3, ConcatEmptySeq
  <2>2. w[1] \in Records \cup {Pong}
    BY <1>1, <2>1 DEF AtSnapshot
  <2>3. w[1] \in Records => w[1].seq \in Nat
    BY FrameKinds
  <2>4. w[1] = Pong => w[1].seq = 0
    BY FrameKinds
  <2>5. w[1].seq = -1
    BY DEF AtSnapshot
  <2>6. CASE w[1] = Pong
    BY <2>4, <2>5, <2>6
  <2>7. CASE w[1] \in Records
    <3>1. -1 \in Nat
      BY <2>3, <2>5, <2>7
    <3> QED BY <3>1
  <2> QED BY <2>2, <2>6, <2>7
<1>4. CASE a # <<>>
  <2>1. w[1] = a[1]
    BY <1>1, <1>2, <1>4
  <2> QED BY <1>4, <2>1 DEF AtSnapshot, a
<1> QED BY <1>3, <1>4

\* What a page makes of the first frame it is sent.
LEMMA Accepted ==
    ASSUME NEW p \in Pages, NEW c, p.socket = c, NEW l \in Seq(Events), p.last <= Len(l),
           NEW w \in Seq(AnyFrame), w # <<>>, NEW since \in Nat \cup {Nobody}, UnsentFits(w, l, since),
           AtSnapshot(w) => p.opening = since, NEW q, q = Accept(p, w[1])
    PROVE  PageFollows(p, q, c, l)
<1> DEFINE f == w[1]
<1>1. 1 \in 1..Len(w) /\ f \in AnyFrame /\ FramesFit(w, l) /\ SnapshotFits(w, l, since)
  BY DEF UnsentFits
<1>2. Len(l) \in Nat
  OBVIOUS
<1>3. CASE f.seq = -1
  <2>1. f \in Snapshots /\ AtSnapshot(w) /\ StartsAt(w, since) <= Len(l)
    BY <1>1, <1>3, SnapshotIsFirst DEF AtSnapshot, SnapshotFits
  <2> DEFINE n == StartsAt(w, since)
             g == f.gap
  <2>2. n \in Nat /\ g \in BOOLEAN
    BY <2>1, FrameKinds DEF StartsAt
  <2>3. n = IF p.opening = Nobody THEN f.base ELSE p.opening
    BY <2>1, Sizes DEF StartsAt
  <2>4. q = [p EXCEPT !.last = n, !.told = g]
    BY <1>3, <2>3 DEF Accept, AcceptSnapshot
  <2> HIDE DEF n, g
  <2>5. q = [last |-> n, opening |-> p.opening, socket |-> p.socket, want |-> p.want,
             version |-> p.version, told |-> g, shown |-> p.shown]
    BY <2>4, PageFields
  <2>6. q \in Pages
    BY <2>2, <2>5, PageFields DEF Pages
  <2>7. q.last = n /\ q.socket = c
    BY <2>5
  <2> QED BY <2>1, <2>6, <2>7 DEF PageFollows, n
<1>4. CASE f.seq # -1 /\ f.seq <= p.last
  <2>1. f.seq \in Int /\ p.last \in Nat
    BY <1>1, FrameKinds, PageFields
  <2>2. ~IsResync(p, f)
    BY <1>4, <2>1 DEF IsResync
  <2>3. q = p
    BY <1>4, <2>2 DEF Accept, AcceptDelivery
  <2> QED BY <2>3 DEF PageFollows
<1>5. CASE f.seq # -1 /\ ~(f.seq <= p.last)
  <2>1. f.seq \in Int /\ p.last \in Nat
    BY <1>1, FrameKinds, PageFields
  <2>2. f.seq \in 1..Len(l) /\ f = Frame(f.seq, l)
    BY <1>1, <1>5, <2>1, DeliveryIsLogged
  <2>3. CASE IsResync(p, f)
    <3>1. q = Resynced(p)
      BY <1>5, <2>3 DEF Accept
    <3>2. q \in Pages /\ q.socket = Nobody /\ q.last <= p.last /\ q.last \in Nat
      BY <3>1, PageLeaves, PageFields
    <3> QED BY <2>1, <3>2 DEF PageFollows
  <2>4. CASE ~IsResync(p, f)
    <3> DEFINE n == f.seq
               e == f.event
    <3>1. n \in Nat /\ e \in Events /\ n <= Len(l)
      <4>1. e = l[f.seq]
        BY <2>2, FrameKinds
      <4> QED BY <2>2, <4>1
    <3>2. q = [p EXCEPT !.last = n, !.shown = e]
      BY <1>5, <2>4 DEF Accept, AcceptDelivery
    <3> HIDE DEF n, e
    <3>3. q = [last |-> n, opening |-> p.opening, socket |-> p.socket, want |-> p.want,
               version |-> p.version, told |-> p.told, shown |-> e]
      BY <3>2, PageFields
    <3>4. q \in Pages
      BY <3>1, <3>3, PageFields DEF Pages
    <3>5. q.last = n /\ q.socket = c
      BY <3>3
    <3> QED BY <3>1, <3>4, <3>5 DEF PageFollows
  <2> QED BY <2>3, <2>4
<1> QED BY <1>3, <1>4, <1>5

\* The first frame of a client is sent.
LEMMA Delivered ==
    ASSUME DeliveryInv, NEW c \in clients, NEW w, w = conn[c].todo \o conn[c].queue, w # <<>>,
           Deliver(c, w[1])
    PROVE  /\ page' \in [Readers -> Pages]
           /\ \A r \in Readers : PageFollows(page[r], page'[r], c, log[KeyOf[r]])
<1> DEFINE r == conn[c].reader
           x == Accept(page[r], w[1])
<1>1. r \in Readers /\ c \in Conns
  BY ClientOf
<1>2. page \in [Readers -> Pages]
  BY DEF DeliveryInv, PagesFit
<1>3. CASE ~Listens(c)
  <2>1. page' = page
    BY <1>3 DEF Deliver
  <2> QED BY <1>2, <2>1 DEF PageFollows
<1>4. CASE Listens(c)
  <2>1. page' = [page EXCEPT ![r] = x] /\ page[r].socket = c
    BY <1>4 DEF Deliver, Listens
  <2>2. page[r] \in Pages /\ page[r].last <= Len(log[KeyOf[r]])
    BY <1>1 DEF DeliveryInv, PagesFit
  <2>3. w \in Seq(AnyFrame) /\ log[KeyOf[r]] \in Seq(Events) /\ conn[c].since \in Nat \cup {Nobody}
        /\ UnsentFits(w, log[KeyOf[r]], conn[c].since) /\ PageWaits(page[r], c, conn[c])
        /\ SocketFits(conn[c], TRUE) /\ conn[c] \in Sockets
    BY ClientOf DEF ClientFits
  <2>4. AtSnapshot(w) => page[r].opening = conn[c].since
    <3>1. AtSnapshot(w) => AtSnapshot(conn[c].todo)
      BY <2>3, SnapshotIsToDo
    <3> QED BY <2>1, <2>3, <3>1 DEF PageWaits
  <2> HIDE DEF r, x
  <2>5. PageFollows(page[r], x, c, log[KeyOf[r]])
    <3> DEFINE p == page[r]
               l == log[KeyOf[r]]
               since == conn[c].since
    <3>1. p \in Pages /\ p.socket = c /\ l \in Seq(Events) /\ p.last <= Len(l)
          /\ w \in Seq(AnyFrame) /\ w # <<>> /\ since \in Nat \cup {Nobody} /\ UnsentFits(w, l, since)
          /\ (AtSnapshot(w) => p.opening = since) /\ x = Accept(p, w[1])
      BY <2>1, <2>2, <2>3, <2>4 DEF x
    <3> HIDE DEF p, l, since
    <3>2. PageFollows(p, x, c, l)
      BY ONLY <3>1, Accepted
    <3> QED BY <3>2 DEF p, l
  <2>6. x \in Pages
    BY <2>2, <2>5 DEF PageFollows
  <2>7. page' \in [Readers -> Pages] /\ \A q \in Readers : page'[q] = IF q = r THEN x ELSE page[q]
    BY <1>2, <2>1, <2>6
  <2>8. \A q \in Readers : PageFollows(page[q], page'[q], c, log[KeyOf[q]])
    <3> TAKE q \in Readers
    <3>1. CASE q = r BY <2>5, <2>7, <3>1
    <3>2. CASE q # r BY <2>7, <3>2 DEF PageFollows
    <3> QED BY <3>1, <3>2
  <2> QED BY <2>7, <2>8
<1> QED BY <1>3, <1>4

\* What is left of a client when its first frame is sent.
LEMMA LeftToSend ==
    ASSUME DeliveryInv, NEW c \in clients, NEW w, w = conn[c].todo \o conn[c].queue, w # <<>>,
           Deliver(c, w[1]), NEW y, SocketFits(y, TRUE),
           y.reader = conn[c].reader, y.since = conn[c].since, y.version = conn[c].version,
           y.todo \o y.queue = Tail(w),
           conn' = [conn EXCEPT ![c] = y], UNCHANGED <<room, disk, clients, log, faults>>
    PROVE  DeliveryInv'
<1> DEFINE l == log[KeyOf[conn[c].reader]]
           v == y.todo \o y.queue
           since == conn[c].since
<1>1. c \in Conns /\ w \in Seq(AnyFrame) /\ l \in Seq(Events) /\ since \in Nat \cup {Nobody}
      /\ UnsentFits(w, l, since) /\ Holds(conn[c], room.cap)
  BY ClientOf DEF ClientFits
<1>2. page' \in [Readers -> Pages]
      /\ \A r \in Readers : PageFollows(page[r], page'[r], c, log[KeyOf[r]])
  BY Delivered
<1>3. UnsentFits(v, l, since) /\ ~AtSnapshot(v)
  <2> HIDE DEF l, since
  <2>1. v = Tail(w)
    OBVIOUS
  <2> HIDE DEF v
  <2> QED BY <1>1, <2>1, UnsentSent
<1>4. ~AtSnapshot(y.todo)
  <2> SUFFICES ASSUME y.todo # <<>> PROVE y.todo[1] = v[1] /\ v # <<>>
    BY <1>3 DEF AtSnapshot
  <2> DEFINE a == y.todo
             b == y.queue
  <2>1. a \in Seq(Snapshots \cup Records) /\ b \in Seq(Records \cup {Pong})
    BY DEF SocketFits, Sockets
  <2>2. a \in Seq(AnyFrame) /\ b \in Seq(AnyFrame) /\ a # <<>>
    BY <2>1 DEF AnyFrame
  <2> HIDE DEF a, b
  <2>3. (a \o b)[1] = a[1] /\ a \o b # <<>>
    BY <2>2
  <2> QED BY <2>3 DEF a, b
<1>5. ClientFits(y, page'[y.reader], c, log[KeyOf[y.reader]], room.cap)
  BY <1>1, <1>3, <1>4 DEF ClientFits, PageWaits, Holds
<1>6. clients' = IF TRUE THEN clients ELSE clients \ {c}
  OBVIOUS
<1> QED BY <1>1, <1>2, <1>5, <1>6, SocketStep

\* The handshake sends the snapshot, then the replay.
LEMMA HandshakeLeavesInv ==
    ASSUME DeliveryInv, NEW c \in Conns, HandshakeSend(c)
    PROVE  DeliveryInv'
<1> DEFINE s == conn[c]
           a == s.todo
           b == s.queue
           w == a \o b
           ph == IF Len(a) = 1 THEN "live" ELSE "handshake"
           z == Tail(a)
           y == [s EXCEPT !.todo = z, !.phase = ph]
<1>1. c \in clients /\ s.phase = "handshake"
  BY OnlyClientsSend DEF HandshakeSend
<1>2. SocketFits(s, TRUE) /\ s \in Sockets
  BY <1>1, ClientOf
<1>3. a # <<>> /\ a \in Seq(Snapshots \cup Records) /\ b \in Seq(Records \cup {Pong})
  BY <1>1, <1>2 DEF SocketFits, Sockets
<1>4. a \in Seq(AnyFrame) /\ b \in Seq(AnyFrame)
  BY <1>3 DEF AnyFrame
<1>5. Deliver(c, Head(a)) /\ conn' = [conn EXCEPT ![c] = y]
      /\ UNCHANGED <<room, disk, clients, log, faults>>
  <2>1. conn' = [conn EXCEPT ![c].todo = Tail(@), ![c].phase = IF Len(conn[c].todo) = 1 THEN "live" ELSE @]
    BY DEF HandshakeSend
  <2>2. conn \in [Conns -> Sockets]
    BY DEF DeliveryInv
  <2>3. conn' = [conn EXCEPT ![c] = [conn[c] EXCEPT !.todo = Tail(conn[c].todo),
                     !.phase = IF Len(conn[c].todo) = 1 THEN "live" ELSE conn[c].phase]]
    BY <2>1, <2>2
  <2> QED BY <1>1, <2>3 DEF HandshakeSend
<1> HIDE DEF y
<1>6. /\ w # <<>> /\ w[1] = Head(a) /\ Tail(w) = z \o b
      /\ z \in Seq(Snapshots \cup Records) /\ (z = <<>> <=> Len(a) = 1)
  <2> HIDE DEF a, b
  <2>1. w # <<>> /\ w[1] = Head(a) /\ Tail(w) = Tail(a) \o b
    BY <1>3, <1>4
  <2>2. z \in Seq(Snapshots \cup Records) /\ Len(z) = Len(a) - 1
    BY <1>3
  <2>3. z = <<>> <=> Len(z) = 0
    BY <2>2, EmptySeq
  <2>4. Len(a) \in Nat
    BY <1>3
  <2> QED BY <2>1, <2>2, <2>3, <2>4
<1> HIDE DEF z
<1>7. /\ y.todo = z /\ y.queue = b /\ y.reader = s.reader /\ y.since = s.since /\ y.version = s.version
      /\ y.phase = ph
  BY <1>2 DEF y, Sockets
<1>8. y \in Sockets
  BY <1>2, <1>6 DEF y, Sockets
<1>9. SocketFits(y, TRUE)
  BY <1>2, <1>6, <1>7, <1>8 DEF SocketFits
<1>10. y.todo \o y.queue = Tail(w)
  BY <1>6, <1>7
<1>11. w = conn[c].todo \o conn[c].queue /\ Deliver(c, w[1])
  BY <1>5, <1>6
<1> HIDE DEF w
<1> QED BY <1>1, <1>5, <1>6, <1>7, <1>9, <1>10, <1>11, LeftToSend

\* The writer sends the next frame of the queue.
LEMMA WriterLeavesInv ==
    ASSUME DeliveryInv, NEW c \in Conns, WriterSend(c)
    PROVE  DeliveryInv'
<1> DEFINE s == conn[c]
           b == s.queue
           w == s.todo \o b
           z == Tail(b)
           y == [s EXCEPT !.queue = z]
<1>1. c \in clients /\ s.phase = "live"
  BY OnlyClientsSend DEF WriterSend
<1>2. SocketFits(s, TRUE) /\ s \in Sockets
  BY <1>1, ClientOf
<1>3. s.todo = <<>> /\ b # <<>> /\ b \in Seq(Records \cup {Pong})
  BY <1>1, <1>2 DEF SocketFits, Sockets, WriterSend
<1>4. Deliver(c, Head(b)) /\ conn' = [conn EXCEPT ![c] = y]
      /\ UNCHANGED <<room, disk, clients, log, faults>>
  <2>1. conn' = [conn EXCEPT ![c].queue = Tail(@)]
    BY DEF WriterSend
  <2> QED BY <2>1 DEF WriterSend
<1> HIDE DEF y
<1>5. /\ w = b /\ w # <<>> /\ w[1] = Head(b)
      /\ z \in Seq(Records \cup {Pong}) /\ Len(z) <= Len(b) /\ <<>> \o z = z
      /\ Len(z) \in Nat /\ Len(b) \in Nat
  <2> HIDE DEF b
  <2>1. w = b
    BY <1>3, ConcatEmptySeq
  <2> HIDE DEF w
  <2>2. w # <<>> /\ w[1] = Head(b)
    BY <1>3, <2>1
  <2>3. z \in Seq(Records \cup {Pong}) /\ Len(z) <= Len(b) /\ Len(z) \in Nat /\ Len(b) \in Nat
    BY <1>3
  <2>4. <<>> \o z = z
    BY <2>3, ConcatEmptySeq
  <2> QED BY <2>1, <2>2, <2>3, <2>4
<1> HIDE DEF z
<1>6. /\ y.todo = s.todo /\ y.queue = z /\ y.reader = s.reader /\ y.since = s.since
      /\ y.version = s.version /\ y.phase = s.phase
  BY <1>2 DEF y, Sockets
<1>7. y \in Sockets
  BY <1>2, <1>5 DEF y, Sockets
<1>8. SocketFits(y, TRUE)
  <2>1. Len(b) <= QueueSize
    BY <1>2 DEF SocketFits
  <2>2. Len(z) <= QueueSize
    BY <1>5, <2>1, Sizes
  <2> QED BY <1>2, <1>6, <1>7, <2>2 DEF SocketFits
<1>9. y.todo \o y.queue = Tail(w)
  BY <1>3, <1>5, <1>6 DEF z
<1>10. w = conn[c].todo \o conn[c].queue /\ Deliver(c, w[1])
  BY <1>4, <1>5
<1> HIDE DEF w
<1> QED BY <1>1, <1>4, <1>5, <1>6, <1>8, <1>9, <1>10, LeftToSend

\* The close a socket was sent reaches its page.
LEMMA CloseArrivesLeavesInv ==
    ASSUME DeliveryInv, NEW c \in Conns, CloseArrives(c)
    PROVE  DeliveryInv'
<1> DEFINE r == conn[c].reader
           x == AfterClose(page[r], conn[c].code)
<1>1. c \notin clients /\ r \in Readers
  <2>1. SocketFits(conn[c], c \in clients) /\ conn[c].phase = "closing"
    BY DEF DeliveryInv, CloseArrives
  <2> QED BY <2>1 DEF SocketFits
<1>2. page \in [Readers -> Pages] /\ log \in [Keys -> Seq(Events)]
      /\ page[r].last <= Len(log[KeyOf[r]])
  BY <1>1 DEF DeliveryInv, PagesFit, RoomFits
<1>3. page' \in [Readers -> Pages]
      /\ \A q \in Readers : PageFollows(page[q], page'[q], c, log[KeyOf[q]])
  <2>1. CASE Listens(c)
    <3>1. page' = [page EXCEPT ![r] = x] /\ page[r].socket = c
      BY <2>1 DEF CloseArrives, Listens
    <3> HIDE DEF r
    <3>2. x \in Pages /\ x.socket = Nobody /\ x.last <= page[r].last /\ x.last \in Nat
      BY <1>1, PageOf, PageLeaves, PageFields
    <3>3. page[r].last \in Nat /\ Len(log[KeyOf[r]]) \in Nat
      BY <1>1, <1>2, PageOf, Sizes
    <3>4. PageFollows(page[r], x, c, log[KeyOf[r]])
      BY <1>2, <3>1, <3>2, <3>3 DEF PageFollows
    <3> HIDE DEF x
    <3>5. page' \in [Readers -> Pages] /\ \A q \in Readers : page'[q] = IF q = r THEN x ELSE page[q]
      BY <1>2, <3>1, <3>2
    <3> QED BY <3>4, <3>5 DEF PageFollows
  <2>2. CASE ~Listens(c)
    <3>1. page' = page
      BY <2>2 DEF CloseArrives
    <3> QED BY <1>2, <3>1 DEF PageFollows
  <2> QED BY <2>1, <2>2
<1>4. conn' = [conn EXCEPT ![c] = Free] /\ clients' = (IF FALSE THEN clients ELSE clients \ {c})
      /\ UNCHANGED <<room, disk, log, faults>>
  BY <1>1 DEF CloseArrives
<1> QED BY <1>3, <1>4, FreeFits, SocketStep

\* The server notices that a socket is gone.
LEMMA DisconnectLeavesInv ==
    ASSUME DeliveryInv, NEW c \in Conns, Disconnect(c)
    PROVE  DeliveryInv'
<1>1. page' \in [Readers -> Pages]
      /\ \A q \in Readers : PageFollows(page[q], page'[q], c, log[KeyOf[q]])
  BY DEF Disconnect, DeliveryInv, PagesFit, PageFollows
<1>2. conn' = [conn EXCEPT ![c] = Free] /\ clients' = (IF FALSE THEN clients ELSE clients \ {c})
      /\ UNCHANGED <<room, disk, log, faults>>
  BY DEF Disconnect
<1> QED BY <1>1, <1>2, FreeFits, SocketStep

\* A frame, or several, for one client: they fit in its queue, or it is closed.
LEMMA EnqueuedFits ==
    ASSUME DeliveryInv, NEW c \in clients, NEW q \in Seq(Records \cup {Pong}),
           NEW y, y = Enqueued(c, q)
    PROVE  /\ Overflows(c, q) => SocketFits(y, FALSE)
           /\ ~Overflows(c, q) =>
                /\ SocketFits(y, TRUE)
                /\ y.reader = conn[c].reader /\ y.since = conn[c].since
                /\ y.version = conn[c].version /\ y.todo = conn[c].todo
                /\ Behind(conn[c].todo \o conn[c].queue, q, y.todo \o y.queue)
<1> DEFINE s == conn[c]
<1>1. s \in Sockets /\ s.reader \in Readers /\ SocketFits(s, TRUE)
  BY ClientOf
<1>2. CASE Overflows(c, q)
  <2> DEFINE code == 4410
  <2>1. y = [s EXCEPT !.phase = "closing", !.todo = <<>>, !.queue = <<>>, !.code = code] /\ code \in Nat
    BY <1>2 DEF Enqueued, Closing
  <2> HIDE DEF code, s
  <2>2. SocketFits(y, FALSE)
    BY <1>1, <2>1, ClosedFits
  <2> QED BY <1>2, <2>2
<1>3. CASE ~Overflows(c, q)
  <2>1. y = [s EXCEPT !.queue = @ \o q]
    BY <1>3 DEF Enqueued
  <2>2. Len(s.queue) + Len(q) <= QueueSize
    <3>1. Len(s.queue) \in Nat /\ Len(q) \in Nat
      BY <1>1 DEF Sockets
    <3> QED BY <1>3, <3>1, Sizes DEF Overflows
  <2> HIDE DEF s
  <2>3. /\ SocketFits(y, TRUE)
        /\ y.reader = s.reader /\ y.since = s.since /\ y.version = s.version /\ y.todo = s.todo
        /\ Behind(s.todo \o s.queue, q, y.todo \o y.queue)
    BY <1>1, <2>1, <2>2, QueuedFits
  <2> QED BY <1>3, <2>3 DEF s
<1> QED BY <1>2, <1>3

\* Frames queued for the clients come behind what they had to send; a socket whose
\* queue they overflow is a client no more.
LEMMA Distributed ==
    ASSUME DeliveryInv, NEW frames \in [clients -> Seq(Records \cup {Pong})], Distribute(frames)
    PROVE  /\ conn' \in [Conns -> Sockets] /\ clients' \in SUBSET clients
           /\ \A c \in Conns : SocketFits(conn'[c], c \in clients')
           /\ \A c \in clients' :
                 /\ conn'[c].reader = conn[c].reader /\ conn'[c].since = conn[c].since
                 /\ conn'[c].version = conn[c].version /\ conn'[c].todo = conn[c].todo
                 /\ Behind(conn[c].todo \o conn[c].queue, frames[c], conn'[c].todo \o conn'[c].queue)
<1> DEFINE y(c) == Enqueued(c, frames[c])
<1>1. /\ conn' = [c \in Conns |-> IF c \in clients /\ frames[c] # <<>> THEN y(c) ELSE conn[c]]
      /\ clients' = {c \in clients : frames[c] = <<>> \/ ~Overflows(c, frames[c])}
  BY DEF Distribute
<1> HIDE DEF y
<1>2. clients \subseteq Conns
  BY DEF DeliveryInv, ClientsBounded
<1>3. ASSUME NEW c \in clients, frames[c] # <<>>
      PROVE  /\ Overflows(c, frames[c]) => SocketFits(y(c), FALSE)
             /\ ~Overflows(c, frames[c]) =>
                  /\ SocketFits(y(c), TRUE)
                  /\ y(c).reader = conn[c].reader /\ y(c).since = conn[c].since
                  /\ y(c).version = conn[c].version /\ y(c).todo = conn[c].todo
                  /\ Behind(conn[c].todo \o conn[c].queue, frames[c], y(c).todo \o y(c).queue)
  <2> DEFINE q == frames[c]
             z == y(c)
  <2>1. q \in Seq(Records \cup {Pong}) /\ z = Enqueued(c, q)
    BY DEF y
  <2> HIDE DEF q, z
  <2>2. /\ Overflows(c, q) => SocketFits(z, FALSE)
        /\ ~Overflows(c, q) =>
             /\ SocketFits(z, TRUE)
             /\ z.reader = conn[c].reader /\ z.since = conn[c].since
             /\ z.version = conn[c].version /\ z.todo = conn[c].todo
             /\ Behind(conn[c].todo \o conn[c].queue, q, z.todo \o z.queue)
    BY <2>1, EnqueuedFits
  <2> QED BY <2>2 DEF q, z
<1>4. ASSUME NEW c \in Conns PROVE SocketFits(conn'[c], c \in clients')
  <2>1. CASE c \in clients /\ frames[c] # <<>>
    <3>1. conn'[c] = y(c)
      BY <1>1, <2>1
    <3>2. CASE Overflows(c, frames[c])
      <4>1. (c \in clients') = FALSE
        BY <1>1, <2>1, <3>2
      <4> QED BY <1>3, <2>1, <3>1, <3>2, <4>1
    <3>3. CASE ~Overflows(c, frames[c])
      <4>1. (c \in clients') = TRUE
        BY <1>1, <2>1, <3>3
      <4> QED BY <1>3, <2>1, <3>1, <3>3, <4>1
    <3> QED BY <3>2, <3>3
  <2>2. CASE ~(c \in clients /\ frames[c] # <<>>)
    <3>1. conn'[c] = conn[c] /\ (c \in clients') = (c \in clients)
      BY <1>1, <2>2
    <3>2. SocketFits(conn[c], c \in clients)
      BY DEF DeliveryInv
    <3> QED BY <3>1, <3>2
  <2> QED BY <2>1, <2>2
<1>5. conn' \in [Conns -> Sockets]
  <2>1. \A c \in Conns : conn'[c] \in Sockets
    BY <1>4 DEF SocketFits
  <2>2. DOMAIN conn' = Conns /\ conn' = [c \in Conns |-> conn'[c]]
    BY <1>1
  <2> QED BY <2>1, <2>2
<1>6. ASSUME NEW c \in clients'
      PROVE  /\ conn'[c].reader = conn[c].reader /\ conn'[c].since = conn[c].since
             /\ conn'[c].version = conn[c].version /\ conn'[c].todo = conn[c].todo
             /\ Behind(conn[c].todo \o conn[c].queue, frames[c], conn'[c].todo \o conn'[c].queue)
  <2>1. c \in clients /\ c \in Conns
    BY <1>1, <1>2
  <2>2. CASE frames[c] = <<>>
    <3>1. conn'[c] = conn[c]
      BY <1>1, <2>1, <2>2
    <3> DEFINE w == conn[c].todo \o conn[c].queue
    <3>2. w \in Seq(AnyFrame)
      BY <2>1, ClientOf
    <3> HIDE DEF w
    <3>3. Behind(w, <<>>, w)
      BY <3>2, ConcatEmptySeq DEF Behind
    <3> QED BY <2>2, <3>1, <3>3 DEF w
  <2>3. CASE frames[c] # <<>>
    <3>1. conn'[c] = y(c) /\ ~Overflows(c, frames[c])
      BY <1>1, <2>1, <2>3
    <3> QED BY <1>3, <2>1, <2>3, <3>1
  <2> QED BY <2>2, <2>3
<1> QED BY <1>1, <1>4, <1>5, <1>6

\* A step of the room and of many of its sockets.
LEMMA RoomStep ==
    ASSUME DeliveryInv, RoomFits(room', log'), disk' = Record(room'), PagesFit(page, log'),
           conn' \in [Conns -> Sockets], clients' \in SUBSET clients,
           \A c \in Conns : SocketFits(conn'[c], c \in clients'),
           \A c \in clients' :
              ClientFits(conn'[c], page[conn'[c].reader], c, log'[KeyOf[conn'[c].reader]], room'.cap),
           UNCHANGED <<page, faults>>
    PROVE  DeliveryInv'
<1>1. ClientsBounded'
  <2>1. ClientsBounded
    BY DEF DeliveryInv
  <2>2. clients' \subseteq Conns /\ IsFiniteSet(clients') /\ Cardinality(clients') <= MaxClients
    BY <2>1, FewerClients
  <2> QED BY <2>2 DEF ClientsBounded
<1>2. faults' \in Nat
  BY DEF DeliveryInv
<1> QED BY <1>1, <1>2 DEF DeliveryInv

\* A ping is answered through the queue.
LEMMA PingLeavesInv ==
    ASSUME DeliveryInv, NEW c \in Conns, Ping(c)
    PROVE  DeliveryInv'
<1> DEFINE frames == [d \in clients |-> IF d = c THEN <<Pong>> ELSE <<>>]
<1>1. frames \in [clients -> Seq(Records \cup {Pong})]
  <2>1. <<Pong>> \in Seq(Records \cup {Pong}) /\ <<>> \in Seq(Records \cup {Pong})
    OBVIOUS
  <2> QED BY <2>1
<1>2. Distribute(frames) /\ UNCHANGED <<room, disk, page, log, faults>>
  BY DEF Ping
<1>3. \A d \in clients : frames[d] = <<>> \/ frames[d] = <<Pong>>
  OBVIOUS
<1> HIDE DEF frames
<1>4. /\ conn' \in [Conns -> Sockets] /\ clients' \in SUBSET clients
      /\ \A d \in Conns : SocketFits(conn'[d], d \in clients')
      /\ \A d \in clients' :
            /\ conn'[d].reader = conn[d].reader /\ conn'[d].since = conn[d].since
            /\ conn'[d].version = conn[d].version /\ conn'[d].todo = conn[d].todo
            /\ Behind(conn[d].todo \o conn[d].queue, frames[d], conn'[d].todo \o conn'[d].queue)
  BY <1>1, <1>2, Distributed
<1>5. ASSUME NEW d \in clients'
      PROVE  ClientFits(conn'[d], page[conn'[d].reader], d, log[KeyOf[conn'[d].reader]], room.cap)
  <2> DEFINE w == conn[d].todo \o conn[d].queue
             v == conn'[d].todo \o conn'[d].queue
             l == log[KeyOf[conn[d].reader]]
             since == conn[d].since
  <2>1. d \in clients /\ w \in Seq(AnyFrame) /\ l \in Seq(Events) /\ since \in Nat \cup {Nobody}
        /\ ClientFits(conn[d], page[conn[d].reader], d, l, room.cap) /\ UnsentFits(w, l, since)
    BY <1>4, ClientOf DEF ClientFits
  <2>2. Behind(w, frames[d], v)
    BY <1>4
  <2>3. /\ conn'[d].reader = conn[d].reader /\ conn'[d].since = conn[d].since
        /\ conn'[d].version = conn[d].version /\ conn'[d].todo = conn[d].todo
    BY <1>4
  <2> HIDE DEF w, v, l, since
  <2>4. UnsentFits(v, l, since)
    <3>1. CASE frames[d] = <<Pong>>
      BY <2>1, <2>2, <3>1, UnsentPonged
    <3>2. CASE frames[d] = <<>>
      <4>1. v = w
        BY <2>1, <2>2, <3>2, ConcatEmptySeq DEF Behind
      <4> QED BY <2>1, <4>1
    <3> QED BY <1>3, <2>1, <3>1, <3>2
  <2>5. UnsentFits(conn'[d].todo \o conn'[d].queue, log[KeyOf[conn'[d].reader]], conn'[d].since)
    BY <2>3, <2>4 DEF v, l, since
  <2>6. PageWaits(page[conn'[d].reader], d, conn'[d]) /\ Holds(conn'[d], room.cap)
    BY <2>1, <2>3 DEF ClientFits, PageWaits, Holds
  <2> QED BY <2>5, <2>6 DEF ClientFits
<1>6. RoomFits(room', log') /\ disk' = Record(room') /\ PagesFit(page, log')
  BY <1>2 DEF DeliveryInv
<1> QED BY <1>2, <1>4, <1>5, <1>6, RoomStep

\* A client's stream is its reader's.
LEMMA KeyOfClient ==
    ASSUME DeliveryInv, NEW c \in clients
    PROVE  KeyOfConn[c] = KeyOf[conn[c].reader] /\ KeyOfConn[c] \in Keys
BY ClientOf, Sizes DEF KeyOfConn

\* A transaction makes the logs longer, and the sockets' frames by the same.
LEMMA CommitOf ==
    ASSUME DeliveryInv, NEW kinds \in Payloads
    PROVE  /\ RoomFits(Publish(room, kinds), LogWith(kinds))
           /\ Publish(room, kinds).cap = room.cap
           /\ PagesFit(page, LogWith(kinds))
           /\ \A k \in Keys : /\ Visible(room, kinds, k) \in Seq(Events)
                              /\ Behind(log[k], Visible(room, kinds, k), LogWith(kinds)[k])
                              /\ NewFrames(kinds, k) \in Seq(Records)
                              /\ NewFrames(kinds, k) = Numbered(Len(log[k]), Visible(room, kinds, k))
<1> DEFINE more == LogWith(kinds)
           e(k) == Visible(room, kinds, k)
<1>1. more = [k \in Keys |-> log[k] \o e(k)]
  BY DEF LogWith
<1>2. RoomFits(room, log) /\ PagesFit(page, log)
  BY DEF DeliveryInv
<1> HIDE DEF more
<1>3. /\ RoomFits(Publish(room, kinds), more)
      /\ Publish(room, kinds).cap = room.cap
      /\ \A k \in Keys : e(k) \in Seq(Events)
  BY <1>1, <1>2, Published
<1> HIDE DEF e
<1>4. ASSUME NEW k \in Keys
      PROVE  /\ Behind(log[k], e(k), more[k]) /\ log[k] \in Seq(Events)
             /\ Len(log[k]) \in Nat /\ Len(log[k]) <= Len(more[k])
             /\ room.streams[k].cursor = Len(log[k])
  <2>1. log[k] \in Seq(Events) /\ e(k) \in Seq(Events) /\ more[k] = log[k] \o e(k)
    BY <1>1, <1>2, <1>3 DEF RoomFits
  <2>2. StreamFits(room.streams[k], room.source, log[k], k)
    BY <1>2 DEF RoomFits
  <2> QED BY <2>1, <2>2 DEF Behind, StreamFits
<1>5. PagesFit(page, more)
  <2> SUFFICES ASSUME NEW r \in Readers PROVE page[r].last <= Len(more[KeyOf[r]])
    BY <1>2 DEF PagesFit
  <2>1. KeyOf[r] \in Keys /\ page[r].last \in Nat /\ page[r].last <= Len(log[KeyOf[r]])
    BY <1>2, Sizes, PageOf DEF PagesFit
  <2>2. Len(more[KeyOf[r]]) \in Nat
    <3>1. more[KeyOf[r]] \in Seq(Events)
      BY <1>3, <2>1 DEF RoomFits
    <3> QED BY <3>1
  <2>3. Len(log[KeyOf[r]]) \in Nat /\ Len(log[KeyOf[r]]) <= Len(more[KeyOf[r]])
    BY <1>4, <2>1
  <2> QED BY <2>1, <2>2, <2>3
<1>6. ASSUME NEW k \in Keys
      PROVE  NewFrames(kinds, k) = Numbered(Len(log[k]), e(k)) /\ NewFrames(kinds, k) \in Seq(Records)
  <2>1. NewFrames(kinds, k) = Numbered(Len(log[k]), e(k))
    BY <1>4 DEF NewFrames, e
  <2> QED BY <1>3, <1>4, <2>1, NumberedFits
<1> QED BY <1>3, <1>4, <1>5, <1>6 DEF more, e

\* A transaction is staged, saved and queued.
LEMMA BroadcastLeavesInv ==
    ASSUME DeliveryInv, NEW kinds \in Payloads, Broadcast(kinds)
    PROVE  DeliveryInv'
<1> DEFINE frames == Outbound(kinds)
<1>1. /\ room' = Publish(room, kinds) /\ disk' = Record(room') /\ log' = LogWith(kinds)
      /\ Distribute(frames) /\ UNCHANGED <<page, faults>>
  BY DEF Broadcast
<1>2. /\ RoomFits(room', log') /\ room'.cap = room.cap /\ PagesFit(page, log')
      /\ \A k \in Keys : /\ Visible(room, kinds, k) \in Seq(Events)
                         /\ Behind(log[k], Visible(room, kinds, k), log'[k])
                         /\ NewFrames(kinds, k) \in Seq(Records)
                         /\ NewFrames(kinds, k) = Numbered(Len(log[k]), Visible(room, kinds, k))
  BY <1>1, CommitOf
<1>3. frames \in [clients -> Seq(Records \cup {Pong})]
      /\ \A c \in clients : frames[c] = NewFrames(kinds, KeyOf[conn[c].reader])
                            /\ KeyOf[conn[c].reader] \in Keys
  <2>1. frames = [c \in clients |-> NewFrames(kinds, KeyOfConn[c])]
    BY DEF Outbound
  <2>2. \A c \in clients : KeyOfConn[c] = KeyOf[conn[c].reader] /\ KeyOfConn[c] \in Keys
    BY KeyOfClient
  <2>3. \A c \in clients : NewFrames(kinds, KeyOfConn[c]) \in Seq(Records \cup {Pong})
    <3> TAKE c \in clients
    <3>1. NewFrames(kinds, KeyOfConn[c]) \in Seq(Records)
      BY <1>2, <2>2
    <3> QED BY <3>1
  <2> HIDE DEF frames
  <2> QED BY <2>1, <2>2, <2>3
<1> HIDE DEF frames
<1>4. /\ conn' \in [Conns -> Sockets] /\ clients' \in SUBSET clients
      /\ \A c \in Conns : SocketFits(conn'[c], c \in clients')
      /\ \A c \in clients' :
            /\ conn'[c].reader = conn[c].reader /\ conn'[c].since = conn[c].since
            /\ conn'[c].version = conn[c].version /\ conn'[c].todo = conn[c].todo
            /\ Behind(conn[c].todo \o conn[c].queue, frames[c], conn'[c].todo \o conn'[c].queue)
  BY <1>1, <1>3, Distributed
<1>5. ASSUME NEW c \in clients'
      PROVE  ClientFits(conn'[c], page[conn'[c].reader], c, log'[KeyOf[conn'[c].reader]], room'.cap)
  <2> DEFINE k == KeyOf[conn[c].reader]
             w == conn[c].todo \o conn[c].queue
             v == conn'[c].todo \o conn'[c].queue
             l == log[k]
             m == log'[k]
             since == conn[c].since
             e == Visible(room, kinds, k)
             x == frames[c]
  <2>1. c \in clients /\ k \in Keys
    BY <1>3, <1>4
  <2>2. w \in Seq(AnyFrame) /\ l \in Seq(Events) /\ since \in Nat \cup {Nobody}
        /\ ClientFits(conn[c], page[conn[c].reader], c, l, room.cap) /\ UnsentFits(w, l, since)
    BY <2>1, ClientOf DEF ClientFits
  <2>3. Behind(w, x, v)
    BY <1>4
  <2>4. /\ conn'[c].reader = conn[c].reader /\ conn'[c].since = conn[c].since
        /\ conn'[c].version = conn[c].version /\ conn'[c].todo = conn[c].todo
    BY <1>4
  <2> HIDE DEF k
  <2>5. e \in Seq(Events) /\ Behind(l, e, m) /\ x = Numbered(Len(l), e)
    BY <1>2, <1>3, <2>1 DEF k
  <2> HIDE DEF w, v, l, m, since, e, x
  <2>6. UnsentFits(v, m, since)
    BY <2>2, <2>3, <2>5, UnsentGrows
  <2>7. UnsentFits(conn'[c].todo \o conn'[c].queue, log'[KeyOf[conn'[c].reader]], conn'[c].since)
    BY <2>4, <2>6 DEF v, m, since, k
  <2>8. PageWaits(page[conn'[c].reader], c, conn'[c]) /\ Holds(conn'[c], room'.cap)
    BY <1>2, <2>2, <2>4 DEF ClientFits, PageWaits, Holds
  <2> QED BY <2>7, <2>8 DEF ClientFits
<1> QED BY <1>1, <1>2, <1>4, <1>5, RoomStep

\* A capability is rotated or revoked, and its sockets are closed.
LEMMA CapabilityLeavesInv ==
    ASSUME DeliveryInv, NEW k \in Guarded, NEW live \in BOOLEAN, ChangeCapability(k, live)
    PROVE  DeliveryInv'
<1> DEFINE now == [version |-> room.cap[k].version + 1, live |-> live]
           cap == [room.cap EXCEPT ![k] = now]
<1>1. RoomFits(room, log) /\ PagesFit(page, log) /\ k \in Keys
  BY Sizes DEF DeliveryInv
<1>2. room.cap \in Capabilities /\ cap \in Capabilities
      /\ \A j \in Guarded : j # k => cap[j] = room.cap[j]
  BY <1>1 DEF RoomFits, Capabilities
<1>3. room' = [room EXCEPT !.cap = cap]
  BY <1>1, <1>2 DEF ChangeCapability, RoomFits, Capabilities
<1> HIDE DEF cap
<1>4. room'.cap = cap /\ RoomFits(room', log)
  <2>1. /\ room'.seq = room.seq /\ room'.source = room.source /\ room'.streams = room.streams
        /\ room'.cap = cap
        /\ room' \in [seq : Nat, source : Seq(Events), streams : [Keys -> Streams], cap : Capabilities]
    BY <1>1, <1>2, <1>3 DEF RoomFits
  <2> QED BY <1>1, <2>1 DEF RoomFits
<1>5. /\ conn' = [c \in Conns |-> IF c \in Holders(k) THEN Closing(c, 4403) ELSE conn[c]]
      /\ clients' = clients \ Holders(k) /\ disk' = Record(room') /\ UNCHANGED <<page, log, faults>>
  BY DEF ChangeCapability, InvalidateConnections
<1>6. \A c \in clients : c \in Holders(k) <=> KeyOf[conn[c].reader] = k
  BY KeyOfClient DEF Holders
<1>7. ASSUME NEW c \in Conns PROVE SocketFits(conn'[c], c \in clients')
  <2>1. CASE c \in Holders(k)
    <3>1. c \in clients /\ (c \in clients') = FALSE
      BY <1>5, <2>1 DEF Holders
    <3> DEFINE s == conn[c]
               y == conn'[c]
               code == 4403
    <3>2. s \in Sockets /\ s.reader \in Readers
      BY <3>1, ClientOf
    <3>3. y = [s EXCEPT !.phase = "closing", !.todo = <<>>, !.queue = <<>>, !.code = code] /\ code \in Nat
      <4>1. y = Closing(c, code)
        BY <1>5, <2>1
      <4> HIDE DEF y
      <4> QED BY <4>1 DEF Closing
    <3> HIDE DEF s, y, code
    <3>4. SocketFits(y, FALSE)
      BY <3>2, <3>3, ClosedFits
    <3> QED BY <3>1, <3>4 DEF y
  <2>2. CASE c \notin Holders(k)
    <3>1. conn'[c] = conn[c] /\ (c \in clients') = (c \in clients)
      BY <1>5, <2>2
    <3>2. SocketFits(conn[c], c \in clients)
      BY DEF DeliveryInv
    <3> QED BY <3>1, <3>2
  <2> QED BY <2>1, <2>2
<1>8. conn' \in [Conns -> Sockets] /\ clients' \in SUBSET clients
  <2>1. \A c \in Conns : conn'[c] \in Sockets
    BY <1>7 DEF SocketFits
  <2> QED BY <1>5, <2>1
<1>9. ASSUME NEW c \in clients'
      PROVE  ClientFits(conn'[c], page[conn'[c].reader], c, log'[KeyOf[conn'[c].reader]], room'.cap)
  <2>1. c \in clients /\ c \notin Holders(k) /\ c \in Conns
    BY <1>5 DEF DeliveryInv, ClientsBounded
  <2>2. conn'[c] = conn[c] /\ log' = log
    BY <1>5, <2>1
  <2>3. ClientFits(conn[c], page[conn[c].reader], c, log[KeyOf[conn[c].reader]], room.cap)
    BY <2>1, ClientOf
  <2>4. Holds(conn[c], room'.cap)
    BY <1>2, <1>4, <1>6, <2>1, <2>3 DEF ClientFits, Holds
  <2> QED BY <2>2, <2>3, <2>4 DEF ClientFits
<1>10. RoomFits(room', log') /\ PagesFit(page, log')
  BY <1>1, <1>4, <1>5
<1> QED BY <1>5, <1>7, <1>8, <1>9, <1>10, RoomStep

\* A restart, from the row of a room that fits the logs.
LEMMA RestartGivesInv ==
    ASSUME DeliveryInv, NEW r, RoomFits(r, log'), PagesFit(page, log'), Restart(Record(r))
    PROVE  DeliveryInv'
<1>1. /\ room' = Restored(Record(r)) /\ disk' = Record(room') /\ clients' = {}
      /\ conn' = [c \in Conns |-> Free]
      /\ page' = [q \in Readers |-> [page[q] EXCEPT !.socket = Nobody]]
      /\ faults > 0 /\ faults' = faults - 1
  BY DEF Restart
<1>2. RoomFits(room', log')
  <2>1. RoomFits(Restored(Record(r)), log')
    BY RestoredRoom
  <2> QED BY <1>1, <2>1
<1>3. PagesFit(page', log')
  <2>1. ASSUME NEW q \in Readers PROVE page'[q] \in Pages /\ page'[q].last <= Len(log'[KeyOf[q]])
    <3>1. page[q] \in Pages /\ page[q].last <= Len(log'[KeyOf[q]])
      BY DEF PagesFit
    <3>2. page'[q] = [page[q] EXCEPT !.socket = Nobody]
      BY <1>1
    <3>3. page'[q] \in Pages /\ page'[q].last = page[q].last
      BY <3>1, <3>2 DEF Pages
    <3> QED BY <3>1, <3>3
  <2> QED BY <1>1, <2>1 DEF PagesFit
<1>4. conn' \in [Conns -> Sockets] /\ \A c \in Conns : SocketFits(conn'[c], c \in clients')
  <2>1. \A c \in Conns : conn'[c] = Free /\ (c \in clients') = FALSE
    BY <1>1
  <2>2. Free \in Sockets
    BY FreeFits DEF SocketFits
  <2> QED BY <1>1, <2>1, <2>2, FreeFits
<1>5. ClientsBounded'
  <2>1. IsFiniteSet({}) /\ Cardinality({}) = 0
    BY FS_EmptySet
  <2> QED BY <1>1, <2>1, Sizes DEF ClientsBounded
<1>6. faults' \in Nat
  BY <1>1 DEF DeliveryInv
<1> QED BY <1>1, <1>2, <1>3, <1>4, <1>5, <1>6 DEF DeliveryInv

\* The process dies and restores the room from its row.
LEMMA CrashLeavesInv ==
    ASSUME DeliveryInv, Crash
    PROVE  DeliveryInv'
<1>1. RoomFits(room, log') /\ PagesFit(page, log') /\ Restart(Record(room))
  BY DEF DeliveryInv, Crash
<1> QED BY <1>1, RestartGivesInv

\* The process dies between the save of a transaction and its queueing.
LEMMA CrashAfterSaveLeavesInv ==
    ASSUME DeliveryInv, NEW kinds \in Payloads, CrashAfterSave(kinds)
    PROVE  DeliveryInv'
<1> DEFINE r == Publish(room, kinds)
<1>1. log' = LogWith(kinds) /\ Restart(Record(r))
  BY DEF CrashAfterSave
<1>2. RoomFits(r, log') /\ PagesFit(page, log')
  BY <1>1, CommitOf
<1> HIDE DEF r
<1> QED BY <1>1, <1>2, RestartGivesInv

\* A page is registered: the snapshot, the replay and the live frames are cut at one
\* cursor.
LEMMA ConnectLeavesInv ==
    ASSUME DeliveryInv, NEW r \in Readers, NEW c \in Conns, Connect(r, c)
    PROVE  DeliveryInv'
<1> DEFINE k == KeyOf[r]
           stream == room.streams[k]
           since == Opening(r)
           t == <<Snapshot(stream, since)>> \o ReplayFrom(stream, since)
           y == [reader |-> r, phase |-> "handshake", since |-> since, version |-> page[r].version,
                 todo |-> t, queue |-> <<>>, code |-> 0]
           p == page[r]
           x == [last |-> p.last, opening |-> since, socket |-> c, want |-> p.want,
                 version |-> p.version, told |-> p.told, shown |-> p.shown]
<1>1. RoomFits(room, log) /\ PagesFit(page, log) /\ k \in Keys /\ p \in Pages
  BY Sizes, PageOf DEF DeliveryInv
<1>2. log[k] \in Seq(Events) /\ StreamFits(stream, room.source, log[k], k)
  BY <1>1 DEF RoomFits
<1>3. since \in Nat \cup {Nobody} /\ (since # Nobody => p.last = since)
  BY <1>1, PageFields DEF Opening
<1>4. /\ Authorized(r) /\ Cardinality(clients) < MaxClients
      /\ since # Nobody => since <= stream.cursor /\ since >= Earliest(stream) - 1
  <2> DEFINE e == Earliest(stream) - 1
             n == Cardinality(clients)
             m == stream.cursor
  <2>1. Refusal(r, since) = 0
    BY DEF Connect
  <2>2. e \in Int /\ n \in Nat /\ m \in Nat
    <3>1. n \in Nat
      BY FS_CardinalityType DEF DeliveryInv, ClientsBounded
    <3>2. m \in Nat /\ stream.history \in Seq(Records)
      BY <1>2 DEF StreamFits, Streams
    <3>3. Earliest(stream) \in Int
      <4>1. CASE stream.history = <<>>
        BY <3>2, <4>1 DEF Earliest
      <4>2. CASE stream.history # <<>>
        <5>1. Head(stream.history) \in Records
          BY <3>2, <4>2
        <5> QED BY <4>2, <5>1, FrameKinds DEF Earliest
      <4> QED BY <4>1, <4>2
    <3> QED BY <3>1, <3>2, <3>3
  <2>3. Authorized(r) /\ ~(n >= MaxClients)
        /\ (since # Nobody => ~(since > m) /\ ~(since < e))
    <3> HIDE DEF since
    <3> QED BY <2>1 DEF Refusal
  <2> HIDE DEF e, n, m, since
  <2>4. n < MaxClients /\ (since # Nobody => since <= m /\ since >= e)
    BY <1>3, <2>2, <2>3, Sizes
  <2> QED BY <2>3, <2>4 DEF e, n, m
<1> HIDE DEF stream
<1>5. t \in Seq(Snapshots \cup Records) /\ t # <<>> /\ UnsentFits(t, log[k], since)
  <2> HIDE DEF since, t, k
  <2> QED BY <1>2, <1>3, <1>4, Opened DEF t
<1>6. c \notin clients
  <2>1. conn[c].phase = "free" /\ SocketFits(conn[c], c \in clients)
    BY DEF Connect, DeliveryInv
  <2> QED BY <2>1 DEF SocketFits
<1>7. clients' = clients \cup {c} /\ UNCHANGED <<room, disk, log, faults>>
  BY DEF Connect
<1>8. conn' = [conn EXCEPT ![c] = y]
  <2> DEFINE z == [Free EXCEPT !.reader = r, !.phase = "handshake", !.since = since,
                               !.version = page[r].version, !.todo = t]
  <2>1. conn' = [conn EXCEPT ![c] = z]
    BY DEF Connect, stream
  <2> DEFINE f == Free
             v == page[r].version
  <2>2. z = [f EXCEPT !.reader = r, !.phase = "handshake", !.since = since, !.version = v, !.todo = t]
    OBVIOUS
  <2>3. f = [reader |-> Nobody, phase |-> "free", since |-> Nobody, version |-> 0,
             todo |-> <<>>, queue |-> <<>>, code |-> 0]
    BY DEF Free
  <2> HIDE DEF t, since, f, v, z
  <2>4. z = [reader |-> r, phase |-> "handshake", since |-> since, version |-> v,
             todo |-> t, queue |-> <<>>, code |-> 0]
    BY ONLY <2>2, <2>3
  <2>5. z = y
    BY <2>4 DEF v
  <2> QED BY <2>1, <2>5
<1>9. page' = [page EXCEPT ![r] = x]
  <2>1. p = [last |-> p.last, opening |-> p.opening, socket |-> p.socket, want |-> p.want,
             version |-> p.version, told |-> p.told, shown |-> p.shown]
    BY <1>1, PageFields
  <2>2. page' = [page EXCEPT ![r] = [p EXCEPT !.socket = c, !.opening = since]]
    BY <1>1 DEF Connect, PagesFit
  <2>3. [p EXCEPT !.socket = c, !.opening = since] = x
    <3> DEFINE q == [p EXCEPT !.socket = c, !.opening = since]
    <3> HIDE DEF p, since
    <3>1. q = [p EXCEPT !.socket = c, !.opening = since]
      OBVIOUS
    <3> HIDE DEF q
    <3>2. q = x
      BY ONLY <2>1, <3>1
    <3> QED BY <3>2 DEF q
  <2> QED BY <2>2, <2>3
<1>10. x \in Pages /\ x.last = p.last /\ x.socket = c /\ x.opening = since /\ x.version = p.version
  <2> HIDE DEF p, since
  <2> QED BY <1>1, <1>3, PageFields DEF Pages
<1>11. y \in Sockets /\ y.reader = r /\ y.todo = t /\ y.queue = <<>> /\ y.since = since
       /\ y.version = p.version /\ y.phase = "handshake"
  <2>1. p.version \in Nat
    BY <1>1, PageFields
  <2> HIDE DEF t, since
  <2>2. <<>> \in Seq(Records \cup {Pong})
    OBVIOUS
  <2> QED BY <1>3, <1>5, <2>1, <2>2 DEF Sockets
<1> HIDE DEF x, y, since, t
<1>12. SocketFits(y, TRUE)
  <2>1. Len(y.queue) <= QueueSize
    BY <1>11, Sizes
  <2> QED BY <1>5, <1>11, <2>1 DEF SocketFits
<1>13. ClientFits(y, x, c, log[k], room.cap)
  <2>1. t \o <<>> = t
    BY <1>5, ConcatEmptySeq
  <2>2. UnsentFits(y.todo \o y.queue, log[k], y.since)
    BY <1>5, <1>11, <2>1
  <2>3. PageWaits(x, c, y)
    BY <1>3, <1>10, <1>11 DEF PageWaits
  <2>4. Holds(y, room.cap)
    BY <1>4, <1>11 DEF Holds, Authorized
  <2> QED BY <2>2, <2>3, <2>4 DEF ClientFits
<1>14. conn' \in [Conns -> Sockets] /\ \A d \in Conns : conn'[d] = IF d = c THEN y ELSE conn[d]
  BY <1>8, <1>11 DEF DeliveryInv
<1>15. page' \in [Readers -> Pages] /\ \A q \in Readers : page'[q] = IF q = r THEN x ELSE page[q]
  BY <1>1, <1>9, <1>10 DEF PagesFit
<1>16. PagesFit(page', log)
  BY <1>1, <1>10, <1>15 DEF PagesFit
<1>17. ClientsBounded'
  <2>1. clients' \subseteq Conns /\ IsFiniteSet(clients') /\ Cardinality(clients') = Cardinality(clients) + 1
    BY <1>6, <1>7, FS_AddElement DEF DeliveryInv, ClientsBounded
  <2>2. Cardinality(clients) \in Nat
    BY FS_CardinalityType DEF DeliveryInv, ClientsBounded
  <2> QED BY <1>4, <2>1, <2>2, Sizes DEF ClientsBounded
<1>18. ASSUME NEW d \in Conns PROVE SocketFits(conn'[d], d \in clients')
  <2>1. CASE d = c
    <3>1. (d \in clients') = TRUE
      BY <1>7, <2>1
    <3> QED BY <1>12, <1>14, <2>1, <3>1
  <2>2. CASE d # c
    <3>1. (d \in clients') = (d \in clients) /\ conn'[d] = conn[d]
      BY <1>7, <1>14, <2>2
    <3>2. SocketFits(conn[d], d \in clients)
      BY DEF DeliveryInv
    <3> QED BY <3>1, <3>2
  <2> QED BY <2>1, <2>2
<1>19. ASSUME NEW d \in clients'
       PROVE  ClientFits(conn'[d], page'[conn'[d].reader], d, log[KeyOf[conn'[d].reader]], room.cap)
  <2>1. CASE d = c
    BY <1>11, <1>13, <1>14, <1>15, <2>1
  <2>2. CASE d # c
    <3>1. d \in clients
      BY <1>7, <2>2
    <3>2. d \in Conns /\ conn[d].reader \in Readers
          /\ ClientFits(conn[d], page[conn[d].reader], d, log[KeyOf[conn[d].reader]], room.cap)
      BY <3>1, ClientOf
    <3>3. conn'[d] = conn[d]
      BY <1>14, <2>2, <3>2
    <3>4. PageWaits(page'[conn[d].reader], d, conn[d])
      <4>1. CASE conn[d].reader = r
        <5>1. page'[conn[d].reader].socket # d
          BY <1>10, <1>15, <2>2, <4>1
        <5> QED BY <3>2, <5>1, WaitsForNothing
      <4>2. CASE conn[d].reader # r
        BY <1>15, <3>2, <4>2 DEF ClientFits
      <4> QED BY <4>1, <4>2
    <3> QED BY <3>2, <3>3, <3>4 DEF ClientFits
  <2> QED BY <2>1, <2>2
<1> QED BY <1>7, <1>14, <1>16, <1>17, <1>18, <1>19 DEF DeliveryInv

-----------------------------------------------------------------------------
(* The theorems.                                                            *)

\* A room that has just been created fits.
LEMMA InitGivesInv ==
    ASSUME Init
    PROVE  DeliveryInv
<1>1. log = [k \in Keys |-> <<>>]
      /\ room = [seq |-> 0, source |-> <<>>, streams |-> [k \in Keys |-> EmptyStream(0, FALSE)],
                 cap |-> [k \in Guarded |-> [version |-> 1, live |-> TRUE]]]
  BY DEF Init
<1>2. RoomFits(room, log)
  <2>1. EmptyStream(0, FALSE) \in Streams /\ EmptyStream(0, FALSE).cursor = 0
        /\ EmptyStream(0, FALSE).history = <<>>
    <3>1. <<>> \in Seq(Records)
      OBVIOUS
    <3> QED BY <3>1 DEF EmptyStream, Streams
  <2>2. [k \in Guarded |-> [version |-> 1, live |-> TRUE]] \in Capabilities
    BY DEF Capabilities
  <2>3. room \in [seq : Nat, source : Seq(Events), streams : [Keys -> Streams], cap : Capabilities]
    <3>1. <<>> \in Seq(Events)
      OBVIOUS
    <3> DEFINE empty == EmptyStream(0, FALSE)
    <3>2. empty \in Streams
      BY <2>1
    <3> HIDE DEF empty
    <3>3. [k \in Keys |-> empty] \in [Keys -> Streams]
      BY <3>2
    <3> QED BY <1>1, <2>2, <3>1, <3>3 DEF empty
  <2>4. ASSUME NEW k \in Keys PROVE StreamFits(room.streams[k], room.source, log[k], k)
    <3>1. room.streams[k] = EmptyStream(0, FALSE) /\ room.source = <<>> /\ log[k] = <<>>
      BY <1>1
    <3> DEFINE v == Only(<<>>, SeenBy(k))
               a == Numbered(0, <<>>)
    <3>2. v \in Seq(Events) /\ PickedFrom(v, <<>>, SeenBy(k), 0)
      <4>1. <<>> \in Seq(Events) /\ Len(<<>>) = 0
        OBVIOUS
      <4> QED BY <4>1, OnlyFits
    <3> HIDE DEF v
    <3>3. Len(v) = 0
      <4> SUFFICES ASSUME Len(v) # 0 PROVE FALSE
        OBVIOUS
      <4>1. 1 \in 1..Len(v)
        BY <3>2
      <4>2. \E j \in 1..0 : v[1] = <<>>[j]
        BY <3>2, <4>1 DEF PickedFrom
      <4> QED BY <4>2
    <3>4. EndOf(v, <<>>)
      BY <3>3 DEF EndOf
    <3>5. Len(a) = 0
      <4>1. <<>> \in Seq(Events) /\ 0 \in Nat /\ Len(<<>>) = 0
        OBVIOUS
      <4> QED BY <4>1, NumberedFits
    <3> HIDE DEF a
    <3>6. EndOf(<<>>, a)
      BY <3>5 DEF EndOf
    <3>7. Len(<<>>) = 0 /\ 0 <= HistorySize
      BY Sizes
    <3> QED BY <2>1, <3>1, <3>4, <3>6, <3>7 DEF StreamFits, v, a
  <2>5. log \in [Keys -> Seq(Events)]
    BY <1>1
  <2> QED BY <2>3, <2>4, <2>5 DEF RoomFits
<1>3. PagesFit(page, log)
  <2>1. \A r \in Readers : page[r] \in Pages /\ page[r].last = 0
    BY DEF Init, Pages
  <2>2. \A r \in Readers : Len(log[KeyOf[r]]) = 0
    BY <1>1, Sizes
  <2>3. page \in [Readers -> Pages]
    BY <2>1 DEF Init
  <2> QED BY <2>1, <2>2, <2>3 DEF PagesFit
<1>4. conn \in [Conns -> Sockets] /\ \A c \in Conns : SocketFits(conn[c], c \in clients)
  <2>1. \A c \in Conns : conn[c] = Free /\ (c \in clients) = FALSE
    BY DEF Init
  <2>2. Free \in Sockets
    BY FreeFits DEF SocketFits
  <2>3. conn = [c \in Conns |-> Free]
    BY DEF Init
  <2> QED BY <2>1, <2>2, <2>3, FreeFits
<1>5. ClientsBounded /\ clients = {}
  <2>1. IsFiniteSet({}) /\ Cardinality({}) = 0
    BY FS_EmptySet
  <2> QED BY <2>1, Sizes DEF ClientsBounded, Init
<1>6. faults \in Nat /\ disk = Record(room)
  BY Sizes DEF Init
<1> QED BY <1>2, <1>3, <1>4, <1>5, <1>6 DEF DeliveryInv

\* Every step keeps the invariant.
LEMMA NextLeavesInv ==
    ASSUME DeliveryInv, [Next]_vars
    PROVE  DeliveryInv'
<1>1. ASSUME NEW kinds \in Payloads, Broadcast(kinds) \/ BroadcastNotSaved(kinds) \/ CrashAfterSave(kinds)
      PROVE  DeliveryInv'
  BY <1>1, BroadcastLeavesInv, NotSavedLeavesInv, CrashAfterSaveLeavesInv
<1>2. ASSUME NEW k \in Guarded, NEW live \in BOOLEAN,
             ChangeCapability(k, live) \/ ChangeCapabilityNotSaved(k, live)
      PROVE  DeliveryInv'
  BY <1>2, CapabilityLeavesInv, NotSavedLeavesInv
<1>3. ASSUME NEW r \in Readers, NEW c \in Conns, Connect(r, c)
      PROVE  DeliveryInv'
  BY <1>3, ConnectLeavesInv
<1>4. ASSUME NEW r \in Readers, ConnectRefused(r) \/ SocketLost(r) \/ Reload(r)
      PROVE  DeliveryInv'
  BY <1>4, RefusalLeavesInv, SocketLostLeavesInv, ReloadLeavesInv
<1>5. ASSUME NEW c \in Conns, HandshakeSend(c) \/ WriterSend(c) \/ CloseArrives(c) \/ Disconnect(c)
      PROVE  DeliveryInv'
  BY <1>5, HandshakeLeavesInv, WriterLeavesInv, CloseArrivesLeavesInv, DisconnectLeavesInv
<1>6. ASSUME NEW c \in Conns, Ping(c) \/ PongTimeout(c)
      PROVE  DeliveryInv'
  BY <1>6, PingLeavesInv, PongTimeoutLeavesInv
<1>7. CASE Crash
  BY <1>7, CrashLeavesInv
<1>8. CASE UNCHANGED vars
  BY <1>8 DEF vars, DeliveryInv, ClientsBounded
<1> QED BY <1>1, <1>2, <1>3, <1>4, <1>5, <1>6, <1>7, <1>8 DEF Next

\* The room, its sockets and its pages are one with the logs of the streams,
\* through publications (_broadcast), saves that fail, rotations, overflows
\* of a queue, lost sockets and restarts (_restore_persisted_rooms).
THEOREM DeliveryCorrect == Spec => []DeliveryInv
<1>1. Init => DeliveryInv
  BY InitGivesInv
<1>2. DeliveryInv /\ [Next]_vars => DeliveryInv'
  BY NextLeavesInv
<1> QED BY <1>1, <1>2, PTL DEF Spec

\* Its parts give the property the run checks.
LEMMA InvGivesDurable ==
    ASSUME DeliveryInv
    PROVE  DurableBeforeVisible
<1>1. \A k \in Keys : /\ room.streams[k].cursor = Len(log[k]) /\ Len(log[k]) \in Nat
                      /\ Len(room.streams[k].history) <= HistorySize
                      /\ disk.meta[k].cursor = Len(log[k])
  <2> TAKE k \in Keys
  <2>1. StreamFits(room.streams[k], room.source, log[k], k) /\ log[k] \in Seq(Events)
    BY DEF DeliveryInv, RoomFits
  <2>2. disk.meta[k].cursor = room.streams[k].cursor
    BY DEF DeliveryInv, Record
  <2> QED BY <2>1, <2>2 DEF StreamFits
<1>2. TypeOK
  <2>1. \A c \in Conns : /\ conn[c].phase \in {"free", "handshake", "live", "closing"}
                         /\ c \in clients <=> conn[c].phase \in {"handshake", "live"}
                         /\ Len(conn[c].queue) <= QueueSize
    BY DEF DeliveryInv, SocketFits, Sockets
  <2>2. \A r \in Readers : page[r].socket \in Conns \cup {Nobody}
    BY PageOf, PageFields
  <2>3. clients \subseteq Conns /\ Cardinality(clients) <= MaxClients
    BY DEF DeliveryInv, ClientsBounded
  <2> QED BY <1>1, <2>1, <2>2, <2>3 DEF TypeOK
<1>3. ASSUME NEW c \in clients
      PROVE  /\ Unsent(c) \in Seq(AnyFrame) /\ KeyOfConn[c] \in Keys
             /\ log[KeyOfConn[c]] \in Seq(Events)
             /\ UnsentFits(Unsent(c), log[KeyOfConn[c]], conn[c].since)
             /\ DOMAIN Unsent(c) = 1..Len(Unsent(c))
  <2>1. KeyOfConn[c] = KeyOf[conn[c].reader] /\ KeyOfConn[c] \in Keys
    BY KeyOfClient
  <2>2. Unsent(c) \in Seq(AnyFrame) /\ UnsentFits(Unsent(c), log[KeyOfConn[c]], conn[c].since)
        /\ log[KeyOfConn[c]] \in Seq(Events)
    BY <2>1, ClientOf DEF Unsent, ClientFits
  <2> DEFINE w == Unsent(c)
  <2> HIDE DEF w
  <2>3. w \in Seq(AnyFrame) => DOMAIN w = 1..Len(w)
    OBVIOUS
  <2> QED BY <2>1, <2>2, <2>3 DEF w
<1>4. SavedBeforeVisible
  <2>1. \A r \in Readers : page[r].last <= disk.meta[KeyOf[r]].cursor
    BY <1>1, Sizes DEF DeliveryInv, PagesFit
  <2>2. ASSUME NEW c \in clients, NEW i \in Deliveries(c)
        PROVE  Unsent(c)[i].seq <= disk.meta[KeyOfConn[c]].cursor
    <3> DEFINE w == Unsent(c)
               l == log[KeyOfConn[c]]
    <3>1. w \in Seq(AnyFrame) /\ l \in Seq(Events) /\ FramesFit(w, l) /\ i \in 1..Len(w) /\ w[i].seq > 0
      BY <1>3, <2>2 DEF Deliveries, UnsentFits
    <3> HIDE DEF w, l
    <3>2. w[i].seq \in 1..Len(l)
      BY <3>1, DeliveryIsLogged
    <3>3. disk.meta[KeyOfConn[c]].cursor = Len(l) /\ Len(l) \in Nat
      BY <1>1, <1>3 DEF l
    <3> QED BY <3>2, <3>3 DEF w
  <2> QED BY <2>1, <2>2 DEF SavedBeforeVisible
<1>5. NothingBetweenReplayAndLive
  <2> SUFFICES ASSUME NEW c \in clients
               PROVE  /\ \A i, j \in Deliveries(c) : i < j => Unsent(c)[i].seq < Unsent(c)[j].seq
                      /\ \A n \in 1..Len(log[KeyOfConn[c]]) : Owed(c, n) =>
                            \/ \E i \in Deliveries(c) :
                                  Unsent(c)[i] = [seq |-> n, event |-> log[KeyOfConn[c]][n]]
                            \/ conn[c].since = Nobody /\ ~Replayable(log[KeyOfConn[c]][n].kind)
    BY DEF NothingBetweenReplayAndLive
  <2> DEFINE w == Unsent(c)
             l == log[KeyOfConn[c]]
             D == Deliveries(c)
             since == conn[c].since
  <2>1. w \in Seq(AnyFrame) /\ l \in Seq(Events) /\ FramesFit(w, l) /\ NothingMissing(w, l, since)
        /\ DOMAIN w = 1..Len(w)
    BY <1>3 DEF UnsentFits
  <2>2. \A i : i \in D <=> i \in 1..Len(w) /\ w[i].seq > 0
    BY <2>1 DEF Deliveries
  <2>3. ASSUME NEW n \in 1..Len(l), Owed(c, n) PROVE Due(w, since, n)
    <3>1. CASE AtSnapshot(w)
      <4>1. w # <<>> /\ Head(w) = w[1] /\ w[1].seq = -1
        BY <2>1, <3>1 DEF AtSnapshot
      <4>2. n > StartsAt(w, since)
        BY <2>3, <4>1 DEF Owed, StartsAt
      <4> QED BY <3>1, <4>2 DEF Due
    <3>2. CASE ~AtSnapshot(w)
      <4>1. ~(w # <<>> /\ Head(w).seq = -1)
        <5>1. w # <<>> => Head(w) = w[1]
          BY <2>1
        <5> QED BY <3>2, <5>1 DEF AtSnapshot
      <4>2. PICK i \in D : w[i].seq <= n
        BY <2>3, <4>1 DEF Owed
      <4>3. i \in DOMAIN w /\ w[i].seq > 0
        BY <2>1, <2>2
      <4> QED BY <3>2, <4>2, <4>3 DEF Due
    <3> QED BY <3>1, <3>2
  <2> HIDE DEF w, l, D, since
  <2>4. \A i, j \in D : i < j => w[i].seq < w[j].seq
    BY <2>1, <2>2 DEF FramesFit
  <2>5. ASSUME NEW n \in 1..Len(l), Owed(c, n)
        PROVE  \/ \E i \in D : w[i] = Frame(n, l)
               \/ since = Nobody /\ ~Replayable(l[n].kind)
    <3>1. \/ \E i \in DOMAIN w : w[i] = Frame(n, l)
          \/ since = Nobody /\ ~Replayable(l[n].kind)
      BY <2>1, <2>3, <2>5 DEF NothingMissing
    <3>2. \A i \in DOMAIN w : w[i] = Frame(n, l) => w[i].seq = n /\ n > 0
      BY FrameKinds
    <3> QED BY <2>1, <2>2, <3>1, <3>2
  <2> QED BY <2>4, <2>5 DEF w, l, D, since, Frame
<1> QED BY <1>2, <1>4, <1>5 DEF DurableBeforeVisible

\* Nothing is visible before it is durable (_broadcast saves, then queues), and
\* what a registered socket still has to send is all it is owed: nothing is lost
\* or sent twice between the replay of connect and the live frames.
THEOREM ContiguousDelivery == Spec => []DurableBeforeVisible
<1>1. DeliveryInv => DurableBeforeVisible
  BY InvGivesDurable
<1> QED BY <1>1, DeliveryCorrect, PTL

\* No step, a restart included, takes a capability back to what it was.
CapabilitiesGoOn ==
    \A k \in Guarded :
       /\ room'.cap[k].version >= room.cap[k].version
       /\ room'.cap[k].version = room.cap[k].version => room'.cap[k].live = room.cap[k].live

\* No step takes one back.
LEMMA StepsKeepCapabilities ==
    ASSUME DeliveryInv, [Next]_vars
    PROVE  CapabilitiesGoOn
<1>1. room.cap \in Capabilities /\ RoomFits(room, log)
      /\ \A k \in Guarded : room.cap[k].version \in Nat
  BY DEF DeliveryInv, RoomFits, Capabilities
<1>2. ASSUME room'.cap = room.cap PROVE CapabilitiesGoOn
  BY <1>1, <1>2 DEF CapabilitiesGoOn
<1>3. ASSUME NEW kinds \in Payloads, Broadcast(kinds) PROVE room'.cap = room.cap
  BY <1>3, CommitOf DEF Broadcast
<1>4. ASSUME NEW kinds \in Payloads, CrashAfterSave(kinds) PROVE room'.cap = room.cap
  <2> DEFINE r == Publish(room, kinds)
  <2>1. RoomFits(r, LogWith(kinds)) /\ r.cap = room.cap
    BY CommitOf
  <2>2. room' = Restored(Record(r))
    BY <1>4 DEF CrashAfterSave, Restart
  <2> HIDE DEF r
  <2>3. Restored(Record(r)).cap = r.cap
    BY <2>1, RestoredRoom
  <2> QED BY <2>1, <2>2, <2>3
<1>5. ASSUME Crash PROVE room'.cap = room.cap
  <2>1. room' = Restored(Record(room))
    BY <1>5 DEF Crash, Restart, DeliveryInv
  <2> QED BY <1>1, <2>1, RestoredRoom
<1>6. ASSUME NEW k \in Guarded, NEW live \in BOOLEAN, ChangeCapability(k, live)
      PROVE  CapabilitiesGoOn
  <2> DEFINE now == [version |-> room.cap[k].version + 1, live |-> live]
             cap == [room.cap EXCEPT ![k] = now]
  <2>1. \A j \in Guarded : cap[j] = IF j = k THEN now ELSE room.cap[j]
    BY <1>1 DEF Capabilities
  <2>2. room' = [room EXCEPT !.cap = cap]
    BY <1>1, <1>6 DEF ChangeCapability, RoomFits, Capabilities
  <2> HIDE DEF cap
  <2>3. room'.cap = cap
    BY <1>1, <2>2 DEF RoomFits
  <2>4. now.version = room.cap[k].version + 1
    OBVIOUS
  <2> HIDE DEF now
  <2> QED BY <1>1, <2>1, <2>3, <2>4 DEF CapabilitiesGoOn
<1>7. ASSUME UNCHANGED room PROVE CapabilitiesGoOn
  BY <1>2, <1>7
<1>8. ASSUME NEW kinds \in Payloads, BroadcastNotSaved(kinds) PROVE UNCHANGED room
  BY <1>8 DEF BroadcastNotSaved, RolledBack
<1>9. ASSUME NEW k \in Guarded, NEW live \in BOOLEAN, ChangeCapabilityNotSaved(k, live)
      PROVE  UNCHANGED room
  BY <1>9 DEF ChangeCapabilityNotSaved, RolledBack
<1>10. ASSUME NEW r \in Readers, NEW c \in Conns, Connect(r, c) PROVE UNCHANGED room
  BY <1>10 DEF Connect
<1>11. ASSUME NEW r \in Readers, ConnectRefused(r) \/ SocketLost(r) \/ Reload(r) PROVE UNCHANGED room
  BY <1>11 DEF ConnectRefused, SocketLost, Reload
<1>12. ASSUME NEW c \in Conns, \/ HandshakeSend(c) \/ WriterSend(c) \/ CloseArrives(c)
                               \/ Disconnect(c) \/ Ping(c) \/ PongTimeout(c)
       PROVE  UNCHANGED room
  BY <1>12 DEF HandshakeSend, WriterSend, CloseArrives, Disconnect, Ping, PongTimeout
<1>13. CASE UNCHANGED vars
  BY <1>7, <1>13 DEF vars
<1> QED BY <1>2, <1>3, <1>4, <1>5, <1>6, <1>7, <1>8, <1>9, <1>10, <1>11, <1>12, <1>13 DEF Next

\* Every client registered holds a capability that is live.
LEMMA InvGivesAuthorized ==
    ASSUME DeliveryInv
    PROVE  RegisteredAreAuthorized
<1>1. ASSUME NEW c \in clients, KeyOfConn[c] \in Guarded
      PROVE  /\ room.cap[KeyOfConn[c]].live
             /\ room.cap[KeyOfConn[c]].version = conn[c].version
  BY <1>1, ClientOf, KeyOfClient DEF ClientFits, Holds
<1> QED BY <1>1 DEF RegisteredAreAuthorized

\* A capability that is rotated or revoked stays so, over restarts too, and no
\* socket stays registered with the old one (_invalidate_capability_connections).
THEOREM RevocationHolds == Spec => RevocationIsFinal
<1>1. DeliveryInv => RegisteredAreAuthorized
  BY InvGivesAuthorized
<1>2. DeliveryInv /\ [Next]_vars => [CapabilitiesGoOn]_vars
  BY StepsKeepCapabilities
<1>3. Spec => []RegisteredAreAuthorized /\ [][CapabilitiesGoOn]_vars
  BY <1>1, <1>2, DeliveryCorrect, PTL DEF Spec
<1> QED BY <1>3 DEF RevocationIsFinal, CapabilitiesGoOn

-----------------------------------------------------------------------------
(* The delivery implements the log of DeliveryLog: what a page has seen of   *)
(* its stream is a place in the log, the last event shown, and whether the   *)
(* last start said that history is missing.                                  *)

\* The pages but r see what they saw; r sees what x says.
Sees1(r, x) ==
    /\ [q \in Readers |-> page[q].last]' = [[q \in Readers |-> page[q].last] EXCEPT ![r] = x.last]
    /\ [q \in Readers |-> page[q].shown]' = [[q \in Readers |-> page[q].shown] EXCEPT ![r] = x.shown]
    /\ [q \in Readers |-> page[q].told]' = [[q \in Readers |-> page[q].told] EXCEPT ![r] = x.told]

\* Nobody sees anything else.
SeesNothing ==
    /\ [q \in Readers |-> page[q].last]' = [q \in Readers |-> page[q].last]
    /\ [q \in Readers |-> page[q].shown]' = [q \in Readers |-> page[q].shown]
    /\ [q \in Readers |-> page[q].told]' = [q \in Readers |-> page[q].told]

\* A step that changes one page changes what one reader has seen.
LEMMA OnePage ==
    ASSUME page \in [Readers -> Pages], NEW r \in Readers, NEW x, page' = [page EXCEPT ![r] = x]
    PROVE  Sees1(r, x)
<1>1. \A q \in Readers : page'[q] = IF q = r THEN x ELSE page[q]
  OBVIOUS
<1>2. [q \in Readers |-> page'[q].last] = [[q \in Readers |-> page[q].last] EXCEPT ![r] = x.last]
  BY <1>1
<1>3. [q \in Readers |-> page'[q].shown] = [[q \in Readers |-> page[q].shown] EXCEPT ![r] = x.shown]
  BY <1>1
<1>4. [q \in Readers |-> page'[q].told] = [[q \in Readers |-> page[q].told] EXCEPT ![r] = x.told]
  BY <1>1
<1> QED BY <1>2, <1>3, <1>4 DEF Sees1

\* A page that changes without a new event or cursor has seen nothing.
LEMMA SameSight ==
    ASSUME page \in [Readers -> Pages], NEW r \in Readers, NEW x, Sees1(r, x),
           x.last = page[r].last, x.shown = page[r].shown, x.told = page[r].told
    PROVE  SeesNothing
BY DEF Sees1, SeesNothing

\* Without a commit, that is a stutter of the log.
LEMMA StutterIsNone ==
    ASSUME SeesNothing, UNCHANGED log
    PROVE  UNCHANGED DL!vars
BY DEF SeesNothing, DL!vars

\* A page that forgets its cursor forgets its place in the log.
LEMMA GivenUp ==
    ASSUME page \in [Readers -> Pages], NEW r \in Readers, NEW x, Sees1(r, x), UNCHANGED log,
           x.last = 0, x.shown = page[r].shown, x.told = page[r].told
    PROVE  DL!Forget(r)
<1>1. [q \in Readers |-> page'[q].shown] = [q \in Readers |-> page[q].shown]
  BY DEF Sees1
<1>2. [q \in Readers |-> page'[q].told] = [q \in Readers |-> page[q].told]
  BY DEF Sees1
<1>3. [q \in Readers |-> page'[q].last] = [[q \in Readers |-> page[q].last] EXCEPT ![r] = 0]
  BY DEF Sees1
<1> QED BY <1>1, <1>2, <1>3 DEF DL!Forget

\* A page that stays where it is, or gives up its place.
LEMMA PageStays ==
    ASSUME DeliveryInv, NEW r \in Readers, NEW x, page' = [page EXCEPT ![r] = x], UNCHANGED log,
           x.last = page[r].last \/ x.last = 0, x.shown = page[r].shown, x.told = page[r].told
    PROVE  [DL!Next]_(DL!vars)
<1>1. page \in [Readers -> Pages]
  BY DEF DeliveryInv, PagesFit
<1>2. Sees1(r, x)
  BY <1>1, OnePage
<1>3. CASE x.last = page[r].last
  BY <1>1, <1>2, <1>3, SameSight, StutterIsNone
<1>4. CASE x.last = 0
  <2>1. DL!Forget(r)
    BY <1>1, <1>2, <1>4, GivenUp
  <2> QED BY <2>1 DEF DL!Next
<1> QED BY <1>3, <1>4

\* What a page has seen, x after p, as the log of its stream has it: it stays or
\* gives up its place, goes on by one event, or starts where the snapshot says.
SeesOnly(p, x) == x.last \in {p.last, 0} /\ x.shown = p.shown /\ x.told = p.told
SeesNext(p, x, l) ==
    p.last < Len(l) /\ x.last = p.last + 1 /\ x.shown = l[p.last + 1] /\ x.told = p.told
SeesFrom(p, x, l) ==
    /\ x.last \in 0..Len(l) /\ x.told \in BOOLEAN /\ x.shown = p.shown
    /\ \/ x.last = p.last /\ ~x.told
       \/ x.told
       \/ \A i \in 1..x.last : l[i] \in [seq : Nat, kind : Lifecycle]

\* A page takes the place a snapshot says.
LEMMA StartIsSeen ==
    ASSUME NEW p \in Pages, NEW l \in Seq(Events), NEW w \in Seq(AnyFrame), AtSnapshot(w),
           NEW since \in Nat \cup {Nobody}, UnsentFits(w, l, since),
           p.opening = since, since # Nobody => p.last = since,
           NEW x, x = AcceptSnapshot(p, w[1])
    PROVE  SeesFrom(p, x, l)
<1> DEFINE f == w[1]
           n == StartsAt(w, since)
           g == f.gap
<1>1. f \in Snapshots
  <2>1. 1 \in 1..Len(w) /\ w[1].seq = -1
    BY DEF AtSnapshot
  <2> QED BY <2>1, SnapshotIsFirst DEF UnsentFits
<1>2. /\ n <= Len(l) /\ (since # Nobody => ~g)
      /\ since = Nobody /\ ~g => n = f.base /\ \A i \in 1..n : ~Replayable(l[i].kind)
  BY DEF UnsentFits, SnapshotFits, StartsAt
<1>3. n \in Nat /\ g \in BOOLEAN /\ Len(l) \in Nat
  BY <1>1, FrameKinds DEF StartsAt
<1>4. n = IF p.opening = Nobody THEN f.base ELSE p.opening
  BY DEF StartsAt
<1>5. x = [p EXCEPT !.last = n, !.told = g]
  BY <1>4 DEF AcceptSnapshot
<1>6. since # Nobody => n = p.last
  BY DEF StartsAt
<1> HIDE DEF n, g
<1>7. x.last = n /\ x.told = g /\ x.shown = p.shown
  <2>1. x = [last |-> n, opening |-> p.opening, socket |-> p.socket, want |-> p.want,
             version |-> p.version, told |-> g, shown |-> p.shown]
    BY <1>5, PageFields
  <2> QED BY <2>1
<1>8. since = Nobody /\ ~g => \A i \in 1..n : l[i] \in [seq : Nat, kind : Lifecycle]
  <2> SUFFICES ASSUME since = Nobody, ~g, NEW i \in 1..n PROVE l[i] \in [seq : Nat, kind : Lifecycle]
    OBVIOUS
  <2>1. i \in 1..Len(l) /\ l[i] \in Events
    BY <1>2, <1>3
  <2>2. ~Replayable(l[i].kind)
    BY <1>2
  <2>3. l[i].kind \in Lifecycle
    BY <2>2 DEF Replayable
  <2>4. l[i] = [seq |-> l[i].seq, kind |-> l[i].kind] /\ l[i].seq \in Nat
    BY <2>1 DEF Events
  <2> QED BY <2>3, <2>4
<1>9. n \in 0..Len(l)
  BY <1>2, <1>3
<1> QED BY <1>2, <1>3, <1>6, <1>7, <1>8, <1>9 DEF SeesFrom

\* A page goes on by the event it expects, or gives up.
LEMMA FrameIsSeen ==
    ASSUME NEW p \in Pages, NEW l \in Seq(Events), p.last <= Len(l),
           NEW f, f.seq \in Int, f.seq # -1, f.seq > 0 => f.seq \in 1..Len(l) /\ f = Frame(f.seq, l),
           NEW x, x = Accept(p, f)
    PROVE  SeesOnly(p, x) \/ SeesNext(p, x, l)
<1>1. p.last \in Nat /\ Len(l) \in Nat
  BY PageFields
<1>2. CASE IsResync(p, f)
  <2>1. x = Resynced(p)
    BY <1>2 DEF Accept
  <2> QED BY <2>1, PageLeaves DEF SeesOnly
<1>3. CASE ~IsResync(p, f) /\ f.seq <= p.last
  <2>1. x = p
    BY <1>3 DEF Accept, AcceptDelivery
  <2> QED BY <2>1 DEF SeesOnly
<1>4. CASE ~IsResync(p, f) /\ ~(f.seq <= p.last)
  <2> DEFINE n == f.seq
             e == f.event
  <2>1. n = p.last + 1
    BY <1>1, <1>4 DEF IsResync
  <2>2. n \in 1..Len(l) /\ e = l[n]
    <3>1. n \in 1..Len(l) /\ f = Frame(n, l)
      BY <1>1, <2>1
    <3>2. Frame(n, l).event = l[n]
      BY DEF Frame
    <3> QED BY <3>1, <3>2
  <2>3. x = [p EXCEPT !.last = n, !.shown = e]
    BY <1>4 DEF Accept, AcceptDelivery
  <2> HIDE DEF n, e
  <2>4. x = [last |-> n, opening |-> p.opening, socket |-> p.socket, want |-> p.want,
             version |-> p.version, told |-> p.told, shown |-> e]
    BY <2>3, PageFields
  <2>5. x.last = n /\ x.told = p.told /\ x.shown = e
    BY <2>4
  <2> QED BY <1>1, <2>1, <2>2, <2>5 DEF SeesNext
<1> QED BY <1>2, <1>3, <1>4

\* What a page has seen, as steps of the log.
LEMMA SightIsAStep ==
    ASSUME DeliveryInv, NEW r \in Readers, NEW x, page' = [page EXCEPT ![r] = x], UNCHANGED log,
           NEW l, l = log[KeyOf[r]],
           \/ SeesOnly(page[r], x) \/ SeesNext(page[r], x, l) \/ SeesFrom(page[r], x, l)
    PROVE  [DL!Next]_(DL!vars)
<1> DEFINE p == page[r]
           P == [q \in Readers |-> page[q].last]
<1>1. page \in [Readers -> Pages]
  BY DEF DeliveryInv, PagesFit
<1>2. Sees1(r, x)
  BY <1>1, OnePage
<1>3. P[r] = p.last
  OBVIOUS
<1> HIDE DEF p
<1>4. x.shown = p.shown => [q \in Readers |-> page[q].shown]' = [q \in Readers |-> page[q].shown]
  BY <1>2 DEF Sees1, p
<1>5. x.told = p.told => [q \in Readers |-> page[q].told]' = [q \in Readers |-> page[q].told]
  BY <1>2 DEF Sees1, p
<1>6. /\ P' = [P EXCEPT ![r] = x.last]
      /\ [q \in Readers |-> page[q].shown]' = [[q \in Readers |-> page[q].shown] EXCEPT ![r] = x.shown]
      /\ [q \in Readers |-> page[q].told]' = [[q \in Readers |-> page[q].told] EXCEPT ![r] = x.told]
  BY <1>2 DEF Sees1
<1>7. CASE SeesOnly(p, x)
  BY <1>7, PageStays DEF SeesOnly, p
<1>8. CASE SeesNext(p, x, l)
  <2>1. DL!Read(r)
    BY <1>3, <1>5, <1>6, <1>8 DEF DL!Read, SeesNext
  <2>2. DL!Next
    BY <2>1 DEF DL!Next
  <2> QED BY <2>2
<1>9. CASE SeesFrom(p, x, l)
  <2> DEFINE n == x.last
             g == x.told
  <2>1. /\ n \in 0..Len(log[KeyOf[r]]) /\ g \in BOOLEAN /\ x.shown = p.shown
        /\ \/ n = P[r] /\ ~g
           \/ g
           \/ \A i \in 1..n : log[KeyOf[r]][i] \in [seq : Nat, kind : Lifecycle]
    BY <1>3, <1>9 DEF SeesFrom
  <2> HIDE DEF n, g, P
  <2>2. P' = [P EXCEPT ![r] = n] /\
        [q \in Readers |-> page[q].told]' = [[q \in Readers |-> page[q].told] EXCEPT ![r] = g]
    BY <1>6 DEF n, g
  <2>3. DL!Start(r)
    BY <1>4, <2>1, <2>2 DEF DL!Start, P
  <2>4. DL!Next
    BY <2>3 DEF DL!Next
  <2> QED BY <2>4
<1> QED BY <1>7, <1>8, <1>9 DEF p

\* So is a step that touches neither the pages nor the logs.
LEMMA SightIsNone ==
    ASSUME UNCHANGED <<page, log>>
    PROVE  [DL!Next]_(DL!vars)
BY StutterIsNone DEF SeesNothing

\* The first frame a socket has to send is one step of its reader through the log, or
\* none.
LEMMA PageIsShown ==
    ASSUME DeliveryInv, NEW c \in clients, NEW w, w = conn[c].todo \o conn[c].queue, w # <<>>,
           Deliver(c, w[1]), UNCHANGED log
    PROVE  [DL!Next]_(DL!vars)
<1> DEFINE r == conn[c].reader
           p == page[r]
           l == log[KeyOf[r]]
           f == w[1]
           since == conn[c].since
           x == Accept(p, f)
<1>1. CASE ~Listens(c)
  BY <1>1, SightIsNone DEF Deliver
<1>2. CASE Listens(c)
  <2>1. page' = [page EXCEPT ![r] = x] /\ p.socket = c
    BY <1>2 DEF Deliver, Listens
  <2>2. w \in Seq(AnyFrame) /\ l \in Seq(Events) /\ since \in Nat \cup {Nobody} /\ r \in Readers
        /\ UnsentFits(w, l, since) /\ PageWaits(p, c, conn[c]) /\ conn[c] \in Sockets
    BY ClientOf DEF ClientFits
  <2>3. p \in Pages /\ p.last <= Len(l)
    BY <2>2, PageOf DEF DeliveryInv, PagesFit
  <2>4. AtSnapshot(w) => p.opening = since /\ (since # Nobody => p.last = since)
    <3>1. AtSnapshot(w) => AtSnapshot(conn[c].todo)
      BY <2>2, SnapshotIsToDo
    <3> QED BY <2>1, <2>2, <3>1 DEF PageWaits
  <2> HIDE DEF p, l, since
  <2>5. 1 \in 1..Len(w) /\ f \in AnyFrame /\ FramesFit(w, l)
    <3>1. FramesFit(w, l)
      BY <2>2 DEF UnsentFits
    <3>2. 1 \in 1..Len(w) /\ w[1] \in AnyFrame
      BY ONLY <2>2, w # <<>>
    <3> QED BY <3>1, <3>2
  <2>6. CASE f.seq = -1
    <3>1. AtSnapshot(w)
      BY <2>6 DEF AtSnapshot
    <3>2. x = AcceptSnapshot(p, w[1])
      BY <2>6 DEF Accept
    <3> HIDE DEF x
    <3>3. SeesFrom(p, x, l)
      BY <2>2, <2>3, <2>4, <3>1, <3>2, StartIsSeen
    <3> HIDE DEF r
    <3> QED BY <2>1, <2>2, <3>3, SightIsAStep DEF p, l
  <2>7. CASE f.seq # -1
    <3>1. f.seq \in Int
      BY <2>5, FrameKinds
    <3>2. f.seq > 0 => f.seq \in 1..Len(l) /\ f = Frame(f.seq, l)
      BY <2>2, <2>5, DeliveryIsLogged
    <3> HIDE DEF f
    <3>3. SeesOnly(p, x) \/ SeesNext(p, x, l)
      BY <2>2, <2>3, <2>7, <3>1, <3>2, FrameIsSeen
    <3> HIDE DEF x, r
    <3> QED BY <2>1, <2>2, <3>3, SightIsAStep DEF p, l
  <2> QED BY <2>6, <2>7
<1> QED BY <1>1, <1>2

\* A transaction is a commit, whether or not the process survives it.
LEMMA CommitIsAStep ==
    ASSUME DeliveryInv, NEW kinds \in Payloads, log' = LogWith(kinds), SeesNothing
    PROVE  DL!Next
<1>1. ASSUME NEW k \in Keys
      PROVE  Len(log[k]) <= Len(log'[k]) /\ SubSeq(log'[k], 1, Len(log[k])) = log[k]
  <2> DEFINE a == log[k]
             e == Visible(room, kinds, k)
             m == log'[k]
  <2>1. a \in Seq(Events) /\ e \in Seq(Events) /\ m = a \o e
    BY CommitOf DEF Behind, DeliveryInv, RoomFits
  <2> HIDE DEF a, e, m
  <2>2. Len(a) <= Len(m) /\ SubSeq(m, 1, Len(a)) = a
    BY ONLY <2>1
  <2> QED BY <2>2 DEF a, m
<1>2. DL!Commit
  BY <1>1 DEF DL!Commit, SeesNothing
<1> QED BY <1>2 DEF DL!Next

\* A restart closes the sockets and shows the pages nothing.
LEMMA RestartIsNotSeen ==
    ASSUME DeliveryInv, NEW row, Restart(row)
    PROVE  SeesNothing
<1>1. page' = [q \in Readers |-> [page[q] EXCEPT !.socket = Nobody]] /\ page \in [Readers -> Pages]
  BY DEF Restart, DeliveryInv, PagesFit
<1>2. \A q \in Readers : /\ page'[q].last = page[q].last
                         /\ page'[q].shown = page[q].shown
                         /\ page'[q].told = page[q].told
  BY <1>1 DEF Pages
<1> QED BY <1>2 DEF SeesNothing

\* Every step of the delivery is one of the log, or is not seen in it.
LEMMA StepsImplement ==
    ASSUME DeliveryInv, [Next]_vars
    PROVE  [DL!Next]_(DL!vars)
<1>1. ASSUME NEW kinds \in Payloads, Broadcast(kinds) PROVE [DL!Next]_(DL!vars)
  <2>1. log' = LogWith(kinds) /\ SeesNothing
    BY <1>1 DEF Broadcast, SeesNothing
  <2>2. DL!Next
    BY <2>1, CommitIsAStep
  <2> QED BY <2>2
<1>2. ASSUME NEW kinds \in Payloads, CrashAfterSave(kinds) PROVE [DL!Next]_(DL!vars)
  <2>1. log' = LogWith(kinds) /\ SeesNothing
    BY <1>2, RestartIsNotSeen DEF CrashAfterSave
  <2>2. DL!Next
    BY <2>1, CommitIsAStep
  <2> QED BY <2>2
<1>3. ASSUME NEW kinds \in Payloads, BroadcastNotSaved(kinds) PROVE [DL!Next]_(DL!vars)
  BY <1>3, SightIsNone DEF BroadcastNotSaved
<1>4. ASSUME NEW k \in Guarded, NEW live \in BOOLEAN,
             ChangeCapability(k, live) \/ ChangeCapabilityNotSaved(k, live)
      PROVE  [DL!Next]_(DL!vars)
  BY <1>4, SightIsNone DEF ChangeCapability, ChangeCapabilityNotSaved
<1>5. ASSUME NEW r \in Readers, NEW c \in Conns, Connect(r, c) PROVE [DL!Next]_(DL!vars)
  <2> DEFINE since == Opening(r)
             x == [page[r] EXCEPT !.socket = c, !.opening = since]
  <2>1. page[r] \in Pages /\ page \in [Readers -> Pages]
    BY PageOf DEF DeliveryInv, PagesFit
  <2>2. page' = [page EXCEPT ![r] = x] /\ UNCHANGED log
    BY <1>5, <2>1 DEF Connect
  <2>3. x.last = page[r].last /\ x.shown = page[r].shown /\ x.told = page[r].told
    BY <2>1 DEF Pages
  <2> HIDE DEF x
  <2> QED BY <2>2, <2>3, PageStays
<1>6. ASSUME NEW r \in Readers, ConnectRefused(r) PROVE [DL!Next]_(DL!vars)
  <2> DEFINE code == Refusal(r, Opening(r))
             x == AfterClose(page[r], code)
  <2>1. page' = [page EXCEPT ![r] = x] /\ UNCHANGED log
    BY <1>6 DEF ConnectRefused
  <2> HIDE DEF code
  <2>2. (x.last = page[r].last \/ x.last = 0) /\ x.shown = page[r].shown /\ x.told = page[r].told
    BY PageOf, PageLeaves
  <2> HIDE DEF x
  <2> QED BY <2>1, <2>2, PageStays
<1>7. ASSUME NEW r \in Readers, SocketLost(r) PROVE [DL!Next]_(DL!vars)
  <2> DEFINE x == [page[r] EXCEPT !.socket = Nobody]
  <2>1. page[r] \in Pages
    BY PageOf
  <2>2. page' = [page EXCEPT ![r] = x] /\ UNCHANGED log
    BY <1>7 DEF SocketLost
  <2>3. x.last = page[r].last /\ x.shown = page[r].shown /\ x.told = page[r].told
    BY <2>1 DEF Pages
  <2> HIDE DEF x
  <2> QED BY <2>2, <2>3, PageStays
<1>8. ASSUME NEW r \in Readers, Reload(r) PROVE [DL!Next]_(DL!vars)
  <2> DEFINE v == IF KeyOf[r] \in Guarded THEN room.cap[KeyOf[r]].version ELSE 1
             b == TRUE
             x == [page[r] EXCEPT !.last = 0, !.opening = Nobody, !.want = b, !.version = v]
  <2>1. page[r] \in Pages
    BY PageOf
  <2>2. page' = [page EXCEPT ![r] = x] /\ UNCHANGED log
    BY <1>8 DEF Reload
  <2>3. x.last = 0 /\ x.shown = page[r].shown /\ x.told = page[r].told
    <3> HIDE DEF v, b
    <3> QED BY <2>1 DEF Pages
  <2> HIDE DEF x
  <2> QED BY <2>2, <2>3, PageStays
<1>9. ASSUME NEW c \in Conns, HandshakeSend(c) PROVE [DL!Next]_(DL!vars)
  <2> DEFINE a == conn[c].todo
             b == conn[c].queue
             w == a \o b
  <2>1. c \in clients /\ conn[c].phase = "handshake"
    BY <1>9, OnlyClientsSend DEF HandshakeSend
  <2>2. a # <<>> /\ a \in Seq(Snapshots \cup Records) /\ b \in Seq(Records \cup {Pong})
    BY <2>1, ClientOf DEF SocketFits, Sockets
  <2>3. Deliver(c, Head(a)) /\ UNCHANGED log
    BY <1>9 DEF HandshakeSend
  <2>4. w # <<>> /\ w[1] = Head(a)
    <3>1. a \in Seq(AnyFrame) /\ b \in Seq(AnyFrame)
      BY <2>2 DEF AnyFrame
    <3> HIDE DEF a, b
    <3> QED BY <2>2, <3>1
  <2>5. Deliver(c, w[1])
    BY <2>3, <2>4
  <2>6. w = conn[c].todo \o conn[c].queue
    OBVIOUS
  <2> HIDE DEF w
  <2> QED BY <2>1, <2>3, <2>4, <2>5, <2>6, PageIsShown
<1>10. ASSUME NEW c \in Conns, WriterSend(c) PROVE [DL!Next]_(DL!vars)
  <2> DEFINE a == conn[c].todo
             b == conn[c].queue
             w == a \o b
  <2>1. c \in clients /\ conn[c].phase = "live" /\ b # <<>>
    BY <1>10, OnlyClientsSend DEF WriterSend
  <2>2. a = <<>> /\ b \in Seq(Records \cup {Pong})
    BY <2>1, ClientOf DEF SocketFits, Sockets
  <2>3. Deliver(c, Head(b)) /\ UNCHANGED log
    BY <1>10 DEF WriterSend
  <2>4. w # <<>> /\ w[1] = Head(b)
    <3> HIDE DEF a, b
    <3>1. w = b
      BY <2>2, ConcatEmptySeq
    <3> QED BY <2>1, <2>2, <3>1
  <2>5. Deliver(c, w[1])
    BY <2>3, <2>4
  <2>6. w = conn[c].todo \o conn[c].queue
    OBVIOUS
  <2> HIDE DEF w
  <2> QED BY <2>1, <2>3, <2>4, <2>5, <2>6, PageIsShown
<1>11. ASSUME NEW c \in Conns, CloseArrives(c) PROVE [DL!Next]_(DL!vars)
  <2> DEFINE r == conn[c].reader
             code == conn[c].code
             x == AfterClose(page[r], code)
  <2>1. CASE Listens(c)
    <3>1. page' = [page EXCEPT ![r] = x] /\ UNCHANGED log
      BY <1>11, <2>1 DEF CloseArrives
    <3>2. r \in Readers
      <4>1. SocketFits(conn[c], c \in clients) /\ conn[c].phase = "closing"
        BY <1>11 DEF DeliveryInv, CloseArrives
      <4> QED BY <4>1 DEF SocketFits
    <3> HIDE DEF code, r
    <3>3. (x.last = page[r].last \/ x.last = 0) /\ x.shown = page[r].shown /\ x.told = page[r].told
      BY <3>2, PageOf, PageLeaves
    <3> HIDE DEF x
    <3> QED BY <3>1, <3>2, <3>3, PageStays
  <2>2. CASE ~Listens(c)
    BY <1>11, <2>2, SightIsNone DEF CloseArrives
  <2> QED BY <2>1, <2>2
<1>12. ASSUME NEW c \in Conns, PongTimeout(c) PROVE [DL!Next]_(DL!vars)
  <2> DEFINE r == conn[c].reader
             x == Resynced(page[r])
  <2>1. page' = [page EXCEPT ![r] = x] /\ UNCHANGED log
    BY <1>12 DEF PongTimeout
  <2>2. r \in Readers
    <3>1. conn[c].queue # <<>>
      BY <1>12 DEF PongTimeout, HasPong
    <3> QED BY <3>1, OnlyClientsSend, ClientOf
  <2> HIDE DEF r
  <2>3. (x.last = page[r].last \/ x.last = 0) /\ x.shown = page[r].shown /\ x.told = page[r].told
    BY <2>2, PageOf, PageLeaves
  <2> HIDE DEF x
  <2> QED BY <2>1, <2>2, <2>3, PageStays
<1>13. ASSUME NEW c \in Conns, Disconnect(c) \/ Ping(c) PROVE [DL!Next]_(DL!vars)
  BY <1>13, SightIsNone DEF Disconnect, Ping
<1>14. CASE Crash
  BY <1>14, RestartIsNotSeen, StutterIsNone DEF Crash
<1>15. CASE UNCHANGED vars
  BY <1>15, SightIsNone DEF vars
<1> QED BY <1>1, <1>2, <1>3, <1>4, <1>5, <1>6, <1>7, <1>8, <1>9, <1>10, <1>11, <1>12, <1>13,
           <1>14, <1>15 DEF Next

\* The delivery implements the log a reader goes through one event at a time:
\* whatever happens to its sockets, GameSocket shows every event it is owed, in
\* order, or starts afresh with a snapshot (_acceptSnapshot, _acceptDelivery).
THEOREM DeliveryImplementsLog == Spec => DeliverySpec
<1>1. Init => DL!Init
  BY DEF Init, DL!Init
<1>2. DeliveryInv /\ [Next]_vars => [DL!Next]_(DL!vars)
  BY StepsImplement
<1>3. Spec => DL!Spec
  BY <1>1, <1>2, DeliveryCorrect, PTL DEF Spec, DL!Spec
<1> QED BY <1>3 DEF DeliverySpec
=============================================================================
