-------------------------- MODULE OrchestratorProofs --------------------------
(***************************************************************************)
(* Proofs about Orchestrator and the rules it plays by, for any number of   *)
(* seats, any legal deck, any limits and whatever the agents answer.        *)
(***************************************************************************)
EXTENDS Orchestrator, SequenceTheorems, FiniteSetTheorems, WellFoundedInduction, TLAPS

-----------------------------------------------------------------------------
(* The invariant.                                                           *)

\* The elements of a sequence, and a sequence that names each of them once.
NamesIn(s) == {s[i] : i \in 1..Len(s)}
Distinct(s) == \A i, j \in 1..Len(s) : s[i] = s[j] => i = j

NightStages == {"see", "guard", "protect", "council", "kill", "save", "poison", "dawn"}
PhaseAfter(sc) == IF sc = "night" THEN "day" ELSE "voting"

\* The phase that a stage belongs to.
PhaseFits(phase, st, sc) ==
    /\ st \in NightStages => phase = "night"
    /\ st = "speak" => phase = "day"
    /\ st \in {"vote", "pk", "speakpk"} => phase = "voting"
    /\ st \in {"pk", "speakpk"} => sc = "vote"
    /\ st \in {"words", "hunter", "lastwords"} => phase = PhaseAfter(sc)
    /\ st = "finish" => phase \in {PhaseAfter(sc), "ended"}
    /\ st = "loop" => phase \in {"night", "day", "ended"}
    /\ st = "over" => phase = "ended"

\* Every night begins a round, and there is room for the round.
Counted(g, st, n) ==
    /\ g.day = n + 1
    /\ g.phase # "ended" \/ st = "finish" => n < MaxRounds

\* Nobody waits for last words who is alive, waits twice or has been asked.
QueueFits(g, off) ==
    /\ off \cap Living(g) = {}
    /\ NamesIn(g.words) \cap (Living(g) \cup off) = {}
    /\ Distinct(g.words)

\* Who may still shoot is dead, and not of poison.
ShotsFit(g) == \A s \in NamesIn(g.pendingHunter) : g.died[s] \notin {"alive", "poisoned"}

\* The dead have been asked or wait, and wait in the stages that ask only.
SettledIn(g, st, off) ==
    /\ Seats \ Living(g) \subseteq off \cup NamesIn(g.words)
    /\ st \notin {"words", "hunter", "lastwords"} => g.words = <<>>
    /\ st \notin {"words", "hunter"} => g.pendingHunter = <<>>

\* The stage that wrote a row of night actions, and the stages before another.
StageOf(a) == IF a.action # "save" THEN a.action
              ELSE IF RoleOf[a.actor] = "witch" THEN "save" ELSE "protect"
Past(st) ==
    CASE st = "guard" -> {"see"}
      [] st = "protect" -> {"see", "guard"}
      [] st \in {"council", "kill"} -> {"see", "guard", "protect"}
      [] st = "save" -> {"see", "guard", "protect", "kill"}
      [] st = "poison" -> {"see", "guard", "protect", "kill", "save"}
      [] st = "dawn" -> {"see", "guard", "protect", "kill", "save", "poison"}
      [] OTHER -> {}

RowFits(g, a) ==
    /\ {a.actor, a.target} \subseteq Living(g)
    /\ a.action \in ActionsOf(RoleOf[a.actor])
    /\ a.action = "guard" => a.target # g.lastGuarded

\* The rows are legal, and every stage wrote one at most.
ActsFit(g) ==
    /\ \A a \in g.acts : RowFits(g, a)
    /\ \A a, b \in g.acts : StageOf(a) = StageOf(b) => a = b

\* There is a row of an earlier stage of this night only.
InTime(g, st) ==
    g.phase # "ended" \/ st = "finish" => \A a \in g.acts : StageOf(a) \in Past(st)

UsedTonight(g, action) ==
    \E a \in g.acts : a.action = action /\ RoleOf[a.actor] = "witch"

\* A potion is here, is being used, or has been used.
PotionFits(here, used, tonight) ==
    /\ used = IF here \/ tonight THEN 0 ELSE 1
    /\ tonight => ~here

PotionsFit(g, pot) ==
    /\ PotionFits(g.antidote, pot.save, UsedTonight(g, "save"))
    /\ PotionFits(g.poison, pot.poison, UsedTonight(g, "poison"))

BoardFits(g, off, pot) ==
    QueueFits(g, off) /\ ShotsFit(g) /\ ActsFit(g) /\ PotionsFit(g, pot)

GameInv ==
    /\ TypeOK
    /\ setup \in Setups
    /\ PhaseFits(game.phase, stage, scene)
    /\ Counted(game, stage, rounds)
    /\ stage = "speakpk" => pkRound < MaxPkRounds
    /\ VerdictIsJust
    /\ BoardFits(game, offered, potions)
    /\ broadcast = None => SettledIn(game, stage, offered)
    /\ InTime(game, stage)

-----------------------------------------------------------------------------
(* Induction, as a fact about sets of numbers, and what Only picks.          *)

\* What holds of 0, and of n + 1 when of n, holds of every number.
LEMMA Induction ==
    ASSUME NEW P \in SUBSET Nat, 0 \in P, \A n \in P : n + 1 \in P
    PROVE  P = Nat
<1> SUFFICES ASSUME P # Nat PROVE FALSE
  OBVIOUS
<1> DEFINE Rest == Nat \ P
           Below == OpToRel(<, Nat)
<1>1. Rest # {} /\ Rest \subseteq Nat
  OBVIOUS
<1>2. IsWellFoundedOn(Below, Nat)
  BY NatLessThanWellFounded
<1>3. \A x, y \in Nat : x < y => <<x, y>> \in Below
  BY DEF OpToRel
<1> HIDE DEF Rest, Below
<1>4. PICK x \in Rest : \A y \in Rest : ~ (<<y, x>> \in Below)
  BY <1>1, <1>2, WFMin
<1>5. x \in Nat /\ x # 0 /\ x \notin P
  BY <1>1 DEF Rest
<1>6. x - 1 \in Nat /\ x - 1 < x
  BY <1>5
<1>7. x - 1 \notin Rest
  BY <1>3, <1>4, <1>5, <1>6
<1>8. x - 1 \in P
  BY <1>6, <1>7 DEF Rest
<1> QED BY <1>5, <1>8

\* The function that Only evaluates, and the equation that defines it.
Picks(s, S) ==
    LET only[n \in 0..Len(s)] ==
            IF n = 0 THEN <<>>
            ELSE IF s[n] \in S THEN Append(only[n - 1], s[n]) ELSE only[n - 1]
    IN  only
Picking(s, S, f, n) ==
    IF n = 0 THEN <<>> ELSE IF s[n] \in S THEN Append(f[n - 1], s[n]) ELSE f[n - 1]
PicksUpto(s, S, f, m) == f = [n \in 0..m |-> Picking(s, S, f, n)]

\* There is a function that satisfies it.
LEMMA SomePicks ==
    ASSUME NEW T, NEW s \in Seq(T), NEW S
    PROVE  \E f : PicksUpto(s, S, f, Len(s))
<1> DEFINE P == {m \in Nat : \E f : PicksUpto(s, S, f, m)}
<1>1. 0 \in P
  <2>1. PicksUpto(s, S, [n \in 0..0 |-> <<>>], 0)
    BY DEF PicksUpto, Picking
  <2> QED BY <2>1
<1>2. \A m \in P : m + 1 \in P
  <2> TAKE m \in P
  <2>1. PICK f : PicksUpto(s, S, f, m)
    OBVIOUS
  <2> DEFINE x == Picking(s, S, f, m + 1)
             g == [n \in 0..(m + 1) |-> IF n = m + 1 THEN x ELSE f[n]]
  <2>2. \A n \in 0..m : g[n] = f[n] /\ f[n] = Picking(s, S, f, n)
    <3>1. \A n \in 0..m : g[n] = f[n]
      OBVIOUS
    <3> HIDE DEF g
    <3>2. \A n \in 0..m : f[n] = Picking(s, S, f, n)
      BY <2>1 DEF PicksUpto
    <3> QED BY <3>1, <3>2
  <2>3. \A n \in 0..(m + 1) : n # 0 => n - 1 \in 0..m /\ g[n - 1] = f[n - 1]
    BY <2>2
  <2>4. \A n \in 0..(m + 1) : Picking(s, S, g, n) = Picking(s, S, f, n)
    BY <2>3 DEF Picking
  <2>5. \A n \in 0..(m + 1) : g[n] = Picking(s, S, g, n)
    <3> TAKE n \in 0..(m + 1)
    <3>1. CASE n = m + 1 BY <3>1, <2>4
    <3>2. CASE n # m + 1
      <4>1. n \in 0..m BY <3>2
      <4> QED BY <4>1, <2>2, <2>4
    <3> QED BY <3>1, <3>2
  <2>6. DOMAIN g = 0..(m + 1) /\ g = [n \in 0..(m + 1) |-> g[n]]
    OBVIOUS
  <2> HIDE DEF g, x
  <2>7. PicksUpto(s, S, g, m + 1)
    BY <2>5, <2>6 DEF PicksUpto
  <2> QED BY <2>7
<1>3. P \in SUBSET Nat
  OBVIOUS
<1> HIDE DEF P
<1>4. P = Nat
  BY <1>1, <1>2, <1>3, Induction
<1>5. Len(s) \in P
  BY <1>4
<1> QED BY <1>5 DEF P

\* It is computed element by element.
LEMMA PicksStep ==
    ASSUME NEW T, NEW s \in Seq(T), NEW S
    PROVE  \A n \in 0..Len(s) : Picks(s, S)[n] = Picking(s, S, Picks(s, S), n)
<1> DEFINE g == CHOOSE h : h = [n \in 0..Len(s) |-> Picking(s, S, h, n)]
<1>1. Picks(s, S) = g
  BY DEF Picks, Picking
<1>2. PICK f : f = [n \in 0..Len(s) |-> Picking(s, S, f, n)]
  BY SomePicks DEF PicksUpto
<1>3. g = [n \in 0..Len(s) |-> Picking(s, S, g, n)]
  BY <1>2
<1> HIDE DEF g
<1>4. \A n \in 0..Len(s) : g[n] = Picking(s, S, g, n)
  BY <1>3
<1> QED BY <1>1, <1>4

\* Only is the last step of that computation.
LEMMA OnlyPicks == ASSUME NEW s, NEW S PROVE Only(s, S) = Picks(s, S)[Len(s)]
BY DEF Only, Picks

\* o picks from the first m elements of s: those in S, all of them, in their order.
PickedFrom(o, s, S, m) ==
    /\ \A i \in 1..Len(o) : o[i] \in S /\ \E j \in 1..m : o[i] = s[j]
    /\ \A i, h \in 1..Len(o) : i < h => \E j, l \in 1..m : j < l /\ o[i] = s[j] /\ o[h] = s[l]
    /\ \A j \in 1..m : s[j] \in S => \E i \in 1..Len(o) : o[i] = s[j]

\* What is picked stays picked when one more element is looked at.
LEMMA OneMore ==
    ASSUME NEW T, NEW s \in Seq(T), NEW S, NEW m \in Nat, m < Len(s),
           NEW o \in Seq(T), PickedFrom(o, s, S, m),
           NEW q, q = IF s[m + 1] \in S THEN Append(o, s[m + 1]) ELSE o
    PROVE  q \in Seq(T) /\ PickedFrom(q, s, S, m + 1)
<1>1. CASE s[m + 1] \notin S
  <2>1. q = o BY <1>1
  <2>2. \A j \in 1..(m + 1) : j # m + 1 => j \in 1..m
    OBVIOUS
  <2>3. \A j \in 1..m : j \in 1..(m + 1)
    OBVIOUS
  <2> QED BY <1>1, <2>1, <2>2, <2>3 DEF PickedFrom
<1>2. CASE s[m + 1] \in S
  <2>1. q \in Seq(T) /\ Len(q) = Len(o) + 1 /\ q[Len(o) + 1] = s[m + 1]
        /\ \A i \in 1..Len(o) : q[i] = o[i]
    BY <1>2
  <2>2. \A j \in 1..m : j \in 1..(m + 1) /\ j < m + 1
    OBVIOUS
  <2>3. \A i \in 1..Len(q) : i \in 1..Len(o) \/ i = Len(o) + 1
    BY <2>1
  <2>4. \A i \in 1..Len(o) : i \in 1..Len(q)
    BY <2>1
  <2>5. \A i \in 1..Len(q) : q[i] \in S /\ \E j \in 1..(m + 1) : q[i] = s[j]
    BY <1>2, <2>1, <2>2, <2>3 DEF PickedFrom
  <2>6. \A i, h \in 1..Len(q) : i < h =>
            \E j, l \in 1..(m + 1) : j < l /\ q[i] = s[j] /\ q[h] = s[l]
    <3> TAKE i, h \in 1..Len(q)
    <3> HAVE i < h
    <3>1. i \in 1..Len(o)
      BY <2>1
    <3>2. CASE h = Len(o) + 1
      <4>1. PICK j \in 1..m : o[i] = s[j]
        BY <3>1 DEF PickedFrom
      <4>2. m + 1 \in 1..(m + 1)
        OBVIOUS
      <4> QED BY <2>1, <2>2, <3>1, <3>2, <4>1, <4>2
    <3>3. CASE h # Len(o) + 1
      <4>1. h \in 1..Len(o)
        BY <2>3, <3>3
      <4>2. PICK j, l \in 1..m : j < l /\ o[i] = s[j] /\ o[h] = s[l]
        BY <3>1, <4>1 DEF PickedFrom
      <4> QED BY <2>1, <2>2, <3>1, <4>1, <4>2
    <3> QED BY <3>2, <3>3
  <2>7. \A j \in 1..(m + 1) : s[j] \in S => \E i \in 1..Len(q) : q[i] = s[j]
    <3> TAKE j \in 1..(m + 1)
    <3> HAVE s[j] \in S
    <3>1. CASE j = m + 1
      <4>1. Len(o) + 1 \in 1..Len(q) BY <2>1
      <4> QED BY <3>1, <4>1, <2>1
    <3>2. CASE j # m + 1
      <4>1. j \in 1..m BY <3>2
      <4>2. PICK i \in 1..Len(o) : o[i] = s[j]
        BY <4>1 DEF PickedFrom
      <4> QED BY <4>2, <2>1, <2>4
    <3> QED BY <3>1, <3>2
  <2> QED BY <2>1, <2>5, <2>6, <2>7 DEF PickedFrom
<1> QED BY <1>1, <1>2

\* Only returns the elements in S, all of them, in their order.
LEMMA OnlyFits ==
    ASSUME NEW T, NEW s \in Seq(T), NEW S
    PROVE  Only(s, S) \in Seq(T) /\ PickedFrom(Only(s, S), s, S, Len(s))
<1> DEFINE f == Picks(s, S)
           P == {m \in Nat : m <= Len(s) => f[m] \in Seq(T) /\ PickedFrom(f[m], s, S, m)}
<1>1. \A n \in 0..Len(s) : f[n] = Picking(s, S, f, n)
  BY PicksStep
<1> HIDE DEF f
<1>2. 0 \in P
  <2>1. f[0] = <<>> BY <1>1 DEF Picking
  <2>2. <<>> \in Seq(T) /\ PickedFrom(<<>>, s, S, 0)
    BY DEF PickedFrom
  <2> QED BY <2>1, <2>2
<1>3. \A m \in P : m + 1 \in P
  <2> SUFFICES ASSUME NEW m \in P, m + 1 <= Len(s)
               PROVE  f[m + 1] \in Seq(T) /\ PickedFrom(f[m + 1], s, S, m + 1)
    OBVIOUS
  <2>1. m \in Nat /\ m < Len(s) /\ m + 1 \in 0..Len(s)
    OBVIOUS
  <2>2. f[m] \in Seq(T) /\ PickedFrom(f[m], s, S, m)
    BY <2>1
  <2>3. f[m + 1] = IF s[m + 1] \in S THEN Append(f[m], s[m + 1]) ELSE f[m]
    BY <2>1, <1>1 DEF Picking
  <2> HIDE DEF P
  <2> QED BY <2>1, <2>2, <2>3, OneMore
<1>4. P \in SUBSET Nat
  OBVIOUS
<1> HIDE DEF P
<1>5. P = Nat
  BY <1>2, <1>3, <1>4, Induction
<1>6. Len(s) \in P
  BY <1>5
<1> QED BY <1>6, OnlyPicks DEF P, f

\* What is picked from a sequence that names everything once names everything once, too.
LEMMA OnlyDistinct ==
    ASSUME NEW T, NEW s \in Seq(T), NEW S, Distinct(s)
    PROVE  Distinct(Only(s, S))
<1> DEFINE o == Only(s, S)
<1>1. Len(o) \in Nat /\ \A i, h \in 1..Len(o) : i < h =>
        \E j, l \in 1..Len(s) : j < l /\ o[i] = s[j] /\ o[h] = s[l]
  BY OnlyFits DEF PickedFrom
<1> HIDE DEF o
<1>2. \A i, h \in 1..Len(o) : i < h => o[i] # o[h]
  BY <1>1 DEF Distinct
<1>3. \A i, h \in 1..Len(o) : i = h \/ i < h \/ h < i
  BY <1>1
<1>4. Distinct(o)
  BY <1>2, <1>3 DEF Distinct
<1> QED BY <1>4 DEF o

\* Only keeps those in the set.
LEMMA OnlyNames ==
    ASSUME NEW T, NEW s \in Seq(T), NEW S
    PROVE  Only(s, S) \in Seq(T) /\ NamesIn(Only(s, S)) = NamesIn(s) \cap S
<1> DEFINE o == Only(s, S)
<1>1. /\ o \in Seq(T)
      /\ \A i \in 1..Len(o) : o[i] \in S /\ \E j \in 1..Len(s) : o[i] = s[j]
      /\ \A j \in 1..Len(s) : s[j] \in S => \E i \in 1..Len(o) : o[i] = s[j]
  BY OnlyFits DEF PickedFrom
<1> HIDE DEF o
<1>2. \A x \in NamesIn(o) : x \in NamesIn(s) \cap S
  BY <1>1 DEF NamesIn
<1>3. \A x \in NamesIn(s) \cap S : x \in NamesIn(o)
  BY <1>1 DEF NamesIn
<1>4. o \in Seq(T) /\ NamesIn(o) = NamesIn(s) \cap S
  BY <1>1, <1>2, <1>3
<1> QED BY <1>4 DEF o

\* The elements of two pieces that are put together.
MadeOf(T, a, b, c) ==
    /\ c \in Seq(T) /\ Len(c) = Len(a) + Len(b)
    /\ \A n \in 1..Len(a) : c[n] = a[n]
    /\ \A n \in 1..Len(b) : c[Len(a) + n] = b[n]

\* Each keeps its elements and their order.
LEMMA Pieces ==
    ASSUME NEW T, NEW a \in Seq(T), NEW b \in Seq(T)
    PROVE  MadeOf(T, a, b, a \o b)
<1>1. Len(a) \in Nat /\ Len(b) \in Nat
  BY LenProperties
<1> DEFINE c == a \o b
<1>2. /\ c \in Seq(T) /\ Len(c) = Len(a) + Len(b)
      /\ \A n \in 1..(Len(a) + Len(b)) : c[n] = IF n <= Len(a) THEN a[n] ELSE b[n - Len(a)]
  BY ConcatProperties
<1> HIDE DEF c
<1>3. \A n \in 1..Len(a) : c[n] = a[n]
  <2> TAKE n \in 1..Len(a)
  <2>1. n \in 1..(Len(a) + Len(b)) /\ n <= Len(a)
    BY <1>1
  <2> QED BY <1>2, <2>1
<1>4. \A n \in 1..Len(b) : c[Len(a) + n] = b[n]
  <2> TAKE n \in 1..Len(b)
  <2> DEFINE m == Len(a) + n
  <2>1. m \in 1..(Len(a) + Len(b)) /\ ~(m <= Len(a)) /\ m - Len(a) = n
    BY <1>1
  <2> HIDE DEF m
  <2>2. c[m] = b[n]
    BY <1>2, <2>1
  <2> QED BY <2>2 DEF m
<1>5. MadeOf(T, a, b, c)
  BY <1>2, <1>3, <1>4 DEF MadeOf
<1> QED BY <1>5 DEF c

\* What two sequences name together, and when they name everything once.
LEMMA JoinNames ==
    ASSUME NEW T, NEW s \in Seq(T), NEW t \in Seq(T)
    PROVE  /\ s \o t \in Seq(T) /\ NamesIn(s \o t) = NamesIn(s) \cup NamesIn(t)
           /\ Distinct(s) /\ Distinct(t) /\ NamesIn(s) \cap NamesIn(t) = {} => Distinct(s \o t)
<1> DEFINE c == s \o t
<1>1. /\ c \in Seq(T) /\ Len(c) = Len(s) + Len(t) /\ Len(s) \in Nat /\ Len(t) \in Nat
      /\ \A n \in 1..Len(s) : c[n] = s[n]
      /\ \A n \in 1..Len(t) : c[Len(s) + n] = t[n]
  BY Pieces DEF MadeOf
<1> HIDE DEF c
<1>2. \A n \in 1..Len(c) : \/ n \in 1..Len(s) /\ c[n] = s[n]
                           \/ n - Len(s) \in 1..Len(t) /\ c[n] = t[n - Len(s)]
  <2> TAKE n \in 1..Len(c)
  <2>1. CASE n <= Len(s)
    BY <1>1, <2>1
  <2>2. CASE ~ (n <= Len(s))
    <3> DEFINE m == n - Len(s)
    <3>1. m \in 1..Len(t) /\ n = Len(s) + m
      BY <1>1, <2>2
    <3> HIDE DEF m
    <3>2. c[n] = t[m]
      BY <1>1, <3>1
    <3> QED BY <3>1, <3>2 DEF m
  <2> QED BY <2>1, <2>2
<1>3. NamesIn(c) \subseteq NamesIn(s) \cup NamesIn(t)
  BY <1>2 DEF NamesIn
<1>4. NamesIn(s) \subseteq NamesIn(c)
  <2>1. \A n \in 1..Len(s) : n \in 1..Len(c)
    BY <1>1
  <2> QED BY <1>1, <2>1 DEF NamesIn
<1>5. NamesIn(t) \subseteq NamesIn(c)
  <2>1. \A n \in 1..Len(t) : Len(s) + n \in 1..Len(c)
    BY <1>1
  <2> QED BY <1>1, <2>1 DEF NamesIn
<1>6. ASSUME Distinct(s), Distinct(t), NamesIn(s) \cap NamesIn(t) = {}
      PROVE  Distinct(c)
  <2> SUFFICES ASSUME NEW i \in 1..Len(c), NEW j \in 1..Len(c), c[i] = c[j] PROVE i = j
    BY DEF Distinct
  <2>1. CASE i \in 1..Len(s) /\ c[i] = s[i] /\ j \in 1..Len(s) /\ c[j] = s[j]
    BY <1>6, <2>1 DEF Distinct
  <2>2. CASE /\ i - Len(s) \in 1..Len(t) /\ c[i] = t[i - Len(s)]
             /\ j - Len(s) \in 1..Len(t) /\ c[j] = t[j - Len(s)]
    <3>1. i - Len(s) = j - Len(s)
      BY <1>6, <2>2 DEF Distinct
    <3> QED BY <1>1, <3>1
  <2>3. CASE /\ i \in 1..Len(s) /\ c[i] = s[i]
             /\ j - Len(s) \in 1..Len(t) /\ c[j] = t[j - Len(s)]
    BY <1>6, <2>3 DEF NamesIn
  <2>4. CASE /\ j \in 1..Len(s) /\ c[j] = s[j]
             /\ i - Len(s) \in 1..Len(t) /\ c[i] = t[i - Len(s)]
    BY <1>6, <2>4 DEF NamesIn
  <2> QED BY <1>2, <2>1, <2>2, <2>3, <2>4
<1>7. NamesIn(c) = NamesIn(s) \cup NamesIn(t)
  BY <1>3, <1>4, <1>5
<1>8. /\ c \in Seq(T) /\ NamesIn(c) = NamesIn(s) \cup NamesIn(t)
      /\ Distinct(s) /\ Distinct(t) /\ NamesIn(s) \cap NamesIn(t) = {} => Distinct(c)
  BY <1>1, <1>6, <1>7
<1> QED BY <1>8 DEF c

\* One more element is named by its sequence.
LEMMA AppendNames ==
    ASSUME NEW T, NEW s \in Seq(T), NEW x \in T
    PROVE  /\ Append(s, x) \in Seq(T) /\ NamesIn(Append(s, x)) = NamesIn(s) \cup {x}
           /\ Distinct(s) /\ x \notin NamesIn(s) => Distinct(Append(s, x))
<1> DEFINE q == Append(s, x)
<1>1. q \in Seq(T) /\ Len(q) = Len(s) + 1 /\ q[Len(s) + 1] = x
      /\ (\A i \in 1..Len(s) : q[i] = s[i]) /\ Len(s) \in Nat
  OBVIOUS
<1> HIDE DEF q
<1>2. \A i \in 1..Len(q) : i \in 1..Len(s) \/ i = Len(s) + 1
  BY <1>1
<1>3. \A i \in 1..Len(s) : i \in 1..Len(q)
  BY <1>1
<1>4. Len(s) + 1 \in 1..Len(q)
  BY <1>1
<1>5. NamesIn(q) = NamesIn(s) \cup {x}
  <2>1. NamesIn(q) \subseteq NamesIn(s) \cup {x}
    BY <1>1, <1>2 DEF NamesIn
  <2>2. NamesIn(s) \subseteq NamesIn(q)
    BY <1>1, <1>3 DEF NamesIn
  <2>3. x \in NamesIn(q)
    BY <1>1, <1>4 DEF NamesIn
  <2> QED BY <2>1, <2>2, <2>3
<1>6. Distinct(s) /\ x \notin NamesIn(s) => Distinct(q)
  BY <1>1, <1>2 DEF Distinct, NamesIn
<1>7. q \in Seq(T) /\ NamesIn(q) = NamesIn(s) \cup {x}
      /\ (Distinct(s) /\ x \notin NamesIn(s) => Distinct(q))
  BY <1>1, <1>5, <1>6
<1> QED BY <1>7 DEF q

\* Sets of numbers have a least element, and a greatest one when they are bounded.
LEMMA Least ==
    ASSUME NEW S \in SUBSET Nat, S # {}
    PROVE  \E x \in S : \A y \in S : x <= y
<1> DEFINE Below == OpToRel(<, Nat)
<1>1. IsWellFoundedOn(Below, Nat)
  BY NatLessThanWellFounded
<1>2. \A x, y \in Nat : x < y => <<x, y>> \in Below
  BY DEF OpToRel
<1> HIDE DEF Below
<1>3. PICK x \in S : \A y \in S : ~ (<<y, x>> \in Below)
  BY <1>1, WFMin
<1>4. \A y \in S : ~ (y < x)
  BY <1>2, <1>3
<1> QED BY <1>4

\* The greatest is the one that is least below the bound.
LEMMA Greatest ==
    ASSUME NEW S \in SUBSET Nat, S # {}, NEW n \in Nat, \A x \in S : x <= n
    PROVE  \E x \in S : \A y \in S : y <= x
<1> DEFINE T == {n - x : x \in S}
<1>1. T \in SUBSET Nat /\ T # {}
  <2>1. \A x \in S : n - x \in Nat
    OBVIOUS
  <2> QED BY <2>1
<1> HIDE DEF T
<1>2. PICK t \in T : \A u \in T : t <= u
  BY <1>1, Least
<1>3. PICK x \in S : t = n - x
  BY DEF T
<1>4. \A y \in S : n - y \in T
  BY DEF T
<1> QED BY <1>2, <1>3, <1>4

-----------------------------------------------------------------------------
(* The living, and the winner.                                              *)

\* The living are some of the seats, as many as the seats at most.
LEMMA LivingFinite ==
    ASSUME NEW g
    PROVE  /\ Living(g) \subseteq Seats /\ IsFiniteSet(Living(g))
           /\ Cardinality(Living(g)) \in 0..Cardinality(Seats)
<1>1. Living(g) \subseteq Seats
  BY DEF Living
<1>2. IsFiniteSet(Seats) /\ Cardinality(Seats) \in Nat
  BY SeatsAssumption, FS_CardinalityType
<1>3. IsFiniteSet(Living(g)) /\ Cardinality(Living(g)) <= Cardinality(Seats)
  BY <1>1, <1>2, FS_Subset
<1>4. Cardinality(Living(g)) \in Nat
  BY <1>3, FS_CardinalityType
<1> QED BY <1>1, <1>2, <1>3, <1>4

Winners == {"village", "werewolves", None}

\* check_winner looks at nothing but who is alive.
LEMMA WinnerByDeaths ==
    /\ \A g : CheckWinner(g) \in Winners
    /\ \A g, h : g.died = h.died => Living(g) = Living(h) /\ CheckWinner(g) = CheckWinner(h)
BY DEF CheckWinner, Winners, LivingOf, Living

\* Two games that differ in the phase, the day, the winner and the ballots at most.
SameBut(g, h) ==
    /\ h.died = g.died /\ h.acts = g.acts
    /\ h.antidote = g.antidote /\ h.poison = g.poison /\ h.lastGuarded = g.lastGuarded
    /\ h.pendingHunter = g.pendingHunter /\ h.words = g.words

\* The game is over; or play goes on with the game g.
Stops(exit) ==
    /\ stage' = exit /\ game'.phase = "ended" /\ game'.winner = CheckWinner(game')
    /\ broadcast' # None /\ pending' = None
Stays(g, next) ==
    /\ stage' = next /\ game' = g /\ broadcast' = broadcast
    /\ pending' # None => next = "speak" /\ Batched'

VerdictTyped ==
    /\ broadcast \in Endings \cup {None} /\ wins \in Nat
    /\ status \in {"running", "completed", "incomplete"}
    /\ pending \in Verdicts \cup {None}

\* What a step does to the verdict, with g as the game when play goes on.
Goes(g, next, exit) ==
    /\ game' \in Games /\ SameBut(g, game') /\ game'.day = g.day /\ VerdictTyped'
    /\ Stops(exit) \/ Stays(g, next)

\* A game that ends differs in the phase and the winner only.
EndsAs(g, w, h) == h = [g EXCEPT !.phase = "ended", !.winner = w]

\* The type, and everything else, stays.
LEMMA EndedGame ==
    ASSUME NEW g \in Games, NEW w \in Winners, NEW h, EndsAs(g, w, h)
    PROVE  h \in Games /\ SameBut(g, h) /\ h.day = g.day /\ h.phase = "ended" /\ h.winner = w
BY DEF Games, SameBut, Winners, EndsAs

\* End writes a verdict that clients can read.
LEMMA EndEffect ==
    ASSUME TypeOK, NEW g \in Games, NEW w \in Winners, NEW why,
           w = None => why \in Verdicts, w = CheckWinner(g), End(g, w, why),
           NEW next, NEW exit, stage' = exit
    PROVE  Goes(g, next, exit)
<1>1. /\ game' \in Games /\ SameBut(g, game') /\ game'.day = g.day
      /\ game'.phase = "ended" /\ game'.winner = w
  <2>1. EndsAs(g, w, game')
    BY DEF End, EndsAs
  <2> QED BY <2>1, EndedGame
<1>2. CheckWinner(game') = w
  BY <1>1, WinnerByDeaths DEF SameBut
<1>3. broadcast' \in Endings
  <2> DEFINE e == [winner |-> w, reason |-> IF w = None THEN why ELSE "winner_declared"]
  <2>1. e \in Endings
    BY DEF Endings, Winners, Verdicts
  <2>2. broadcast' = IF broadcast # None THEN broadcast ELSE e
    BY DEF End
  <2> QED BY <2>1, <2>2 DEF TypeOK
<1>4. broadcast' # None
  BY <1>3, NoneAssumption
<1>5. wins' \in Nat /\ pending' = None /\ status' \in {"running", "completed", "incomplete"}
  BY DEF End, TypeOK
<1> QED BY <1>1, <1>2, <1>3, <1>4, <1>5 DEF Goes, Stops, VerdictTyped

\* A batch ends the game, with the winner the survivors justify, or play goes on.
LEMMA ContinueEffect ==
    ASSUME TypeOK, NEW g \in Games, NEW p \in Verdicts \cup {None}, NEW next, NEW exit,
           p = None => pending = None, Continue(g, p, next, exit)
    PROVE  Goes(g, next, exit)
<1>1. CASE p # None
  <2>1. End(g, CheckWinner(g), p) /\ stage' = exit
    BY <1>1 DEF Continue, Terminate
  <2>2. CheckWinner(g) \in Winners
    BY WinnerByDeaths
  <2> QED BY <1>1, <2>1, <2>2, EndEffect
<1>2. CASE p = None
  BY <1>2 DEF Continue, Goes, Stays, VerdictTyped, verdict, TypeOK, SameBut
<1> QED BY <1>1, <1>2

\* The streak of failures stays within its limit.
LEMMA StreakTyped ==
    ASSUME TypeOK, setup \in Setups, NEW asked, NEW failed, IsFiniteSet(failed)
    PROVE  /\ StreakAfter(asked, failed) \in 0..MaxFailures
           /\ Pending(asked, failed) \in Verdicts \cup {None}
<1>1. MaxFailures \in Nat
  BY SetupsAssumption DEF MaxFailures
<1>2. \A b : StreakAt(b, asked, failed) \in Nat
  <2> TAKE b
  <2> DEFINE answered == {t \in asked \ failed : t <= b}
             run == {s \in failed : s <= b /\ \A t \in answered : t < s}
  <2>1. Cardinality(run) \in Nat
    <3>1. run \subseteq failed
      OBVIOUS
    <3> HIDE DEF run
    <3> QED BY <3>1, FS_Subset, FS_CardinalityType
  <2>2. streak \in Nat
    BY <1>1 DEF TypeOK
  <2>3. StreakAt(b, asked, failed) = Cardinality(run) + IF answered = {} THEN streak ELSE 0
    BY DEF StreakAt
  <2> HIDE DEF run
  <2> QED BY <2>1, <2>2, <2>3
<1>3. StreakAfter(asked, failed) \in 0..MaxFailures
  <2>1. CASE asked = {}
    BY <2>1 DEF StreakAfter, TypeOK
  <2>2. CASE asked # {}
    <3> DEFINE last == CHOOSE b \in asked : \A t \in asked : t <= b
               n == StreakAt(last, asked, failed)
    <3>1. StreakAfter(asked, failed) = IF n < MaxFailures THEN n ELSE MaxFailures
      BY <2>2 DEF StreakAfter
    <3>2. n \in Nat
      BY <1>2
    <3> HIDE DEF n
    <3> QED BY <1>1, <3>1, <3>2
  <2> QED BY <2>1, <2>2
<1>4. Pending(asked, failed) \in Verdicts \cup {None}
  BY DEF Pending, Verdicts, TypeOK
<1> QED BY <1>3, <1>4

\* Play goes on without a look at the verdict.
LEMMA StaysEffect ==
    ASSUME TypeOK, NEW g \in Games, pending = None, game' = g, NEW next, stage' = next,
           UNCHANGED verdict, NEW exit
    PROVE  Goes(g, next, exit)
BY DEF Goes, Stays, VerdictTyped, verdict, TypeOK, SameBut

-----------------------------------------------------------------------------
(* What a step has to show.                                                 *)

\* The types of everything but the game and the verdict.
RestTyped ==
    /\ stage \in Stages /\ scene \in {"night", "vote"}
    /\ left \in 0 .. Cardinality(Seats) /\ talked \in BOOLEAN
    /\ round \in 0 .. MaxSpeakRounds - 1 /\ pkRound \in 0 .. MaxPkRounds
    /\ streak \in 0 .. MaxFailures
    /\ aborted \in BOOLEAN
    /\ noProgress \in Nat /\ rounds \in 0 .. MaxRounds
    /\ roundStart \subseteq Seats /\ validVote \in BOOLEAN
    /\ offered \subseteq Seats
    /\ potions \in [save : Nat, poison : Nat]

\* They are the parts of the type invariant.
LEMMA TypeParts ==
    /\ TypeOK <=> game \in Games /\ VerdictTyped /\ RestTyped
    /\ TypeOK' <=> game' \in Games /\ VerdictTyped' /\ RestTyped'
BY DEF TypeOK, VerdictTyped, RestTyped

\* The board does not depend on the phase, the day, the winner or the ballots.
LEMMA BoardSame ==
    ASSUME NEW g, NEW h, SameBut(g, h), NEW off, NEW pot, BoardFits(g, off, pot)
    PROVE  BoardFits(h, off, pot)
<1>1. Living(h) = Living(g)
  BY DEF SameBut, Living
<1>2. QueueFits(h, off) /\ ShotsFit(h)
  BY <1>1 DEF SameBut, BoardFits, QueueFits, ShotsFit
<1>3. ActsFit(h)
  <2>1. ActsFit(g) /\ h.acts = g.acts /\ h.lastGuarded = g.lastGuarded
    BY DEF BoardFits, SameBut
  <2> QED BY <1>1, <2>1 DEF ActsFit, RowFits
<1>4. PotionsFit(h, pot)
  <2>1. UsedTonight(h, "save") = UsedTonight(g, "save")
        /\ UsedTonight(h, "poison") = UsedTonight(g, "poison")
    BY DEF SameBut, UsedTonight
  <2> QED BY <2>1 DEF SameBut, BoardFits, PotionsFit
<1> QED BY <1>2, <1>3, <1>4 DEF BoardFits

\* What the next stage needs when play goes on.
Ready(g, next) ==
    /\ g.phase # "ended"
    /\ PhaseFits(g.phase, next, scene')
    /\ rounds' < MaxRounds
    /\ next = "speakpk" => pkRound' < MaxPkRounds
    /\ next = "loop" => CheckWinner(g) = None
    /\ broadcast' = None => SettledIn(g, next, offered')
    /\ InTime(g, next)

\* And what a stage needs to which a game goes that has ended.
EndFits(g, exit) ==
    \/ exit \in {"loop", "over"}
    \/ exit = "finish" /\ g.acts = {} /\ rounds' < MaxRounds

\* A step that leaves the board legal, and the next stage ready, keeps the invariant.
LEMMA Lands ==
    ASSUME GameInv, UNCHANGED setup, NEW g, NEW next, NEW exit, Goes(g, next, exit),
           RestTyped', g.day = rounds' + 1, BoardFits(g, offered', potions'),
           EndFits(g, exit), Stays(g, next) => Ready(g, next)
    PROVE  GameInv'
<1>1. TypeOK'
  BY TypeParts DEF Goes
<1>2. setup' \in Setups /\ MaxRounds' = MaxRounds
  BY DEF GameInv, MaxRounds
<1>3. BoardFits(game', offered', potions') /\ game'.day = rounds' + 1
  BY BoardSame DEF Goes, SameBut
<1>4. ASSUME Stops(exit) PROVE GameInv'
  <2>1. PhaseFits(game'.phase, stage', scene')
    BY <1>4 DEF PhaseFits, EndFits, Stops, NightStages
  <2>2. Counted(game, stage, rounds)'
    BY <1>2, <1>3, <1>4 DEF Counted, EndFits, Stops
  <2>3. VerdictIsJust'
    BY <1>4 DEF VerdictIsJust, Stops
  <2>4. InTime(game', stage')
    BY <1>4 DEF InTime, EndFits, Stops, Goes, SameBut
  <2>5. stage' # "speakpk" /\ broadcast' # None
    BY <1>4 DEF Stops, EndFits
  <2> QED BY <1>1, <1>2, <1>3, <2>1, <2>2, <2>3, <2>4, <2>5 DEF GameInv
<1>5. ASSUME Stays(g, next) PROVE GameInv'
  <2>1. stage' = next /\ game' = g /\ Ready(g, next)
    BY <1>5 DEF Stays
  <2>2. VerdictIsJust'
    BY <1>5, <2>1 DEF VerdictIsJust, Stays, Ready
  <2>3. Counted(game, stage, rounds)'
    BY <1>2, <1>3, <2>1 DEF Counted, Ready
  <2> QED BY <1>1, <1>2, <1>3, <2>1, <2>2, <2>3 DEF GameInv, Ready
<1> QED BY <1>4, <1>5 DEF Goes

\* Nobody who died changes how, and the guard leaves alone whom it protected last.
DeadStay == \A s \in Seats : game.died[s] # "alive" => game'.died[s] = game.died[s]
GuardMovesOn ==
    game.phase = "night" /\ game'.phase = "day" /\ game'.lastGuarded # None
      => game'.lastGuarded # game.lastGuarded

\* Most steps change no fate and end no night.
LEMMA Quiet ==
    ASSUME NEW g, NEW next, NEW exit, Goes(g, next, exit), g.died = game.died,
           game.phase = "night" => g.phase # "day"
    PROVE  DeadStay /\ GuardMovesOn
<1>1. game'.died = game.died
  BY DEF Goes, SameBut
<1>2. game.phase = "night" => game'.phase # "day"
  BY DEF Goes, Stops, Stays
<1> QED BY <1>1, <1>2 DEF DeadStay, GuardMovesOn

-----------------------------------------------------------------------------
(* The night.                                                               *)

\* The seats that fail in a batch, and those that name somebody.
LEMMA Batch ==
    ASSUME NEW asked \in SUBSET Seats, NEW X, NEW r \in [asked -> X]
    PROVE  /\ IsFiniteSet(asked) /\ IsFiniteSet(Failed(r))
           /\ Named(r) \subseteq asked /\ \A s \in Named(r) : r[s] \in Seats
<1>1. IsFiniteSet(Seats)
  BY SeatsAssumption
<1>2. Failed(r) \subseteq Seats /\ Named(r) \subseteq asked /\ \A s \in Named(r) : r[s] \in Seats
  BY DEF Failed, Named
<1> QED BY <1>1, <1>2, FS_Subset

\* A game in the middle of the night, with other rows and potions.
Tonight(g) ==
    /\ g \in Games /\ g.phase = "night" /\ g.day = game.day /\ g.died = game.died
    /\ g.words = game.words /\ g.pendingHunter = game.pendingHunter
    /\ g.lastGuarded = game.lastGuarded

\* A batch of the night writes its rows, and the next one is asked.
LEMMA NightMove ==
    ASSUME GameInv, UNCHANGED setup, stage \in NightStages, NEW g, Tonight(g), ActsFit(g),
           PotionsFit(g, potions), NEW next \in NightStages,
           \A a \in g.acts : StageOf(a) \in Past(next),
           NEW p \in Verdicts \cup {None}, Continue(g, p, next, "loop"),
           streak' \in 0..MaxFailures,
           UNCHANGED <<scene, speech, aborted, progress, history>>
    PROVE  GameInv' /\ DeadStay /\ GuardMovesOn
<1>1. TypeOK /\ g \in Games /\ pending = None /\ game.phase = "night"
  BY DEF GameInv, VerdictIsJust, NightStages, Tonight, PhaseFits
<1>2. Goes(g, next, "loop")
  BY <1>1, ContinueEffect
<1>3. stage' \in Stages
  BY <1>2 DEF Goes, Stops, Stays, Stages, NightStages
<1>4. RestTyped'
  <2>1. RestTyped /\ setup' = setup
    BY <1>1, TypeParts
  <2> QED BY <1>3, <2>1 DEF RestTyped, speech, progress, history, MaxFailures,
                            MaxSpeakRounds, MaxRounds
<1>5. BoardFits(g, offered', potions')
  <2>1. QueueFits(g, offered) /\ ShotsFit(g)
    BY DEF Tonight, GameInv, BoardFits, QueueFits, ShotsFit, Living
  <2> QED BY <2>1 DEF BoardFits, history
<1>6. g.day = rounds' + 1 /\ rounds' < MaxRounds
  BY <1>1 DEF GameInv, Counted, Tonight, progress
<1>7. ASSUME Stays(g, next) PROVE Ready(g, next)
  <2>1. PhaseFits(g.phase, next, scene')
    BY DEF PhaseFits, Tonight, NightStages
  <2>2. broadcast' = None => SettledIn(g, next, offered')
    <3>1. broadcast' = broadcast /\ offered' = offered
      BY <1>7 DEF Stays, history
    <3> QED BY <3>1 DEF GameInv, SettledIn, Tonight, Living, NightStages
  <2>3. next \notin {"speakpk", "loop"} /\ InTime(g, next) /\ g.phase # "ended"
    BY DEF NightStages, InTime, Tonight
  <2> QED BY <1>6, <2>1, <2>2, <2>3 DEF Ready
<1>8. EndFits(g, "loop")
  BY DEF EndFits
<1>9. GameInv'
  BY <1>2, <1>4, <1>5, <1>6, <1>7, <1>8, Lands
<1>10. DeadStay /\ GuardMovesOn
  <2>1. g.died = game.died /\ g.phase # "day"
    BY DEF Tonight
  <2> QED BY <1>2, <2>1, Quiet
<1> QED BY <1>9, <1>10

RowOf(actor, action, target) == [actor |-> actor, action |-> action, target |-> target]

\* The rows of this stage are the earlier ones, and the row a if it was accepted.
Written(g, a) ==
    /\ Tonight(g) /\ ActsFit(g) /\ g.antidote = game.antidote /\ g.poison = game.poison
    /\ \A b \in g.acts : StageOf(b) \in Past(stage) \cup {stage}
    /\ \/ g = game
       \/ g.acts = game.acts \cup {a} /\ a \notin game.acts

\* A row that the rules accept joins the rows of the earlier stages.
LEMMA SubmitEffect ==
    ASSUME GameInv, stage \in NightStages, NEW actor, NEW action, NEW target,
           StageOf(RowOf(actor, action, target)) = stage
    PROVE  Written(Submit(game, actor, action, target), RowOf(actor, action, target))
<1> DEFINE a == RowOf(actor, action, target)
           g == Submit(game, actor, action, target)
<1>1. /\ game \in Games /\ game.phase = "night" /\ ActsFit(game)
      /\ \A b \in game.acts : StageOf(b) \in Past(stage)
  BY DEF GameInv, TypeOK, PhaseFits, NightStages, BoardFits, InTime
<1>a. a.actor = actor /\ a.action = action /\ a.target = target
      /\ StageOf(a) = stage /\ g = IF NightActionAccepted(game, a) THEN SubmitNightAction(game, a)
                                  ELSE game
  BY DEF RowOf, Submit
<1> HIDE DEF a, g
<1>2. ASSUME ~ NightActionAccepted(game, a) PROVE Written(g, a)
  <2>1. g = game
    BY <1>2, <1>a
  <2>2. Written(game, a)
    BY <1>1 DEF Tonight, Written
  <2> QED BY <2>1, <2>2
<1>3. ASSUME NightActionAccepted(game, a) PROVE Written(g, a)
  <2>1. g = SubmitNightAction(game, a)
    BY <1>3, <1>a
  <2>2. stage \notin Past(stage)
    BY DEF Past, NightStages
  <2>3. {b \in game.acts : b.actor # a.actor \/ b.action # a.action} = game.acts
    BY <1>1, <1>a, <2>2 DEF StageOf
  <2>4. g = [game EXCEPT !.acts = game.acts \cup {a}]
    BY <2>1, <2>3 DEF SubmitNightAction
  <2>5. RowFits(game, a) /\ a \in NightActions
    <3>1. a.actor \in Living(game) /\ a.target \in Living(game)
          /\ a.action \in ActionsOf(RoleOf[a.actor])
          /\ (a.action = "guard" => a.target # game.lastGuarded)
      BY <1>3 DEF NightActionAccepted, TargetAllowed, GuardAllowed
    <3>2. a = [actor |-> actor, action |-> action, target |-> target]
      BY DEF a, RowOf
    <3>3. action \in {"kill", "see", "save", "poison", "guard"}
      BY <3>1, <1>a DEF ActionsOf
    <3>4. actor \in Seats /\ target \in Seats
      BY <3>1, <1>a DEF Living
    <3> QED BY <3>1, <3>2, <3>3, <3>4 DEF RowFits, NightActions
  <2>6. Tonight(g) /\ g.antidote = game.antidote /\ g.poison = game.poison
        /\ g.acts = game.acts \cup {a}
    <3> DEFINE rows == game.acts \cup {a}
    <3>1. rows \in SUBSET NightActions
      BY <1>1, <2>5 DEF Games
    <3>2. g = [game EXCEPT !.acts = rows]
      BY <2>4
    <3> HIDE DEF rows
    <3>3. Tonight(g) /\ g.antidote = game.antidote /\ g.poison = game.poison /\ g.acts = rows
      BY <1>1, <3>1, <3>2 DEF Tonight, Games
    <3> QED BY <3>3 DEF rows
  <2>7. a \notin game.acts
    BY <1>1, <1>a, <2>2
  <2>8. ActsFit(g)
    <3>1. \A b : RowFits(game, b) => RowFits(g, b)
      BY <2>6 DEF RowFits, Tonight, Living
    <3>2. \A b \in g.acts : RowFits(g, b)
      BY <1>1, <2>5, <2>6, <3>1 DEF ActsFit
    <3>3. \A b, c \in g.acts : StageOf(b) = StageOf(c) => b = c
      BY <1>1, <1>a, <2>2, <2>6 DEF ActsFit
    <3> QED BY <3>2, <3>3 DEF ActsFit
  <2>9. \A b \in g.acts : StageOf(b) \in Past(stage) \cup {stage}
    BY <1>1, <1>a, <2>6
  <2> QED BY <2>6, <2>7, <2>8, <2>9 DEF Written
<1>4. Written(g, a)
  BY <1>2, <1>3
<1> QED BY <1>4 DEF a, g

\* The answer that names somebody is submitted, if there is one.
LEMMA SubmitAnyEffect ==
    ASSUME NEW action, NEW r, NEW g, g = SubmitAny(game, action, r)
    PROVE  g = game \/ \E s \in Named(r) : g = Submit(game, s, action, r[s])
<1>1. CASE Named(r) = {}
  BY <1>1 DEF SubmitAny
<1>2. CASE Named(r) # {}
  <2> DEFINE s == CHOOSE s \in Named(r) : TRUE
  <2>1. s \in Named(r)
    BY <1>2
  <2>2. g = Submit(game, s, action, r[s])
    BY <1>2 DEF SubmitAny
  <2> HIDE DEF s
  <2> QED BY <2>1, <2>2
<1> QED BY <1>1, <1>2

\* When nothing is submitted, the rows are those of the earlier stages.
LEMMA NightStart ==
    ASSUME GameInv, stage \in NightStages
    PROVE  /\ Tonight(game) /\ ActsFit(game) /\ PotionsFit(game, potions)
           /\ \A b \in game.acts : StageOf(b) \in Past(stage)
BY DEF GameInv, TypeOK, PhaseFits, NightStages, BoardFits, InTime, Tonight

\* A row of the wolves, the seer, the guard or the doctor uses no potion.
LEMMA NoPotion ==
    ASSUME NEW g, NEW h, NEW a, NEW pot, PotionsFit(g, pot), h.acts = g.acts \cup {a},
           h.antidote = g.antidote, h.poison = g.poison,
           a.action \in {"save", "poison"} => RoleOf[a.actor] # "witch"
    PROVE  PotionsFit(h, pot)
<1>1. /\ UsedTonight(h, "save") = UsedTonight(g, "save")
      /\ UsedTonight(h, "poison") = UsedTonight(g, "poison")
  BY DEF UsedTonight
<1> QED BY <1>1 DEF PotionsFit

\* The seer's, the guard's and the doctor's requests.
LEMMA NightRoleKeeps ==
    ASSUME GameInv, UNCHANGED setup, NightRoleActs
    PROVE  GameInv' /\ DeadStay /\ GuardMovesOn
<1> DEFINE row == NightRole[stage]
           asked == LivingOf(game, row.role)
<1>1. stage \in {"see", "guard", "protect"}
  BY DEF NightRoleActs, NightRole
<1>2. PICK r \in Replies(stage, asked) :
        /\ streak' = StreakAfter(asked, Failed(r))
        /\ Continue(SubmitAny(game, row.action, r), Pending(asked, Failed(r)), row.next, "loop")
  BY DEF NightRoleActs
<1> DEFINE g == SubmitAny(game, row.action, r)
<1>3. /\ stage = "see" => row.role = "seer" /\ row.action = "see" /\ row.next = "guard"
      /\ stage = "guard" => row.role = "guard" /\ row.action = "guard" /\ row.next = "protect"
      /\ stage = "protect" => row.role = "doctor" /\ row.action = "save" /\ row.next = "council"
  BY <1>1 DEF NightRole
<1>4. asked \in SUBSET Seats /\ \A s \in asked : RoleOf[s] = row.role
  BY DEF LivingOf, Living, Holders
<1>5. r \in [asked -> Considered(stage) \cup Unanswered(stage)]
  BY DEF Replies
<1> HIDE DEF row, asked
<1>6. IsFiniteSet(Failed(r)) /\ Named(r) \subseteq asked
  BY <1>4, <1>5, Batch
<1>7. stage \in NightStages /\ row.next \in NightStages
      /\ Past(stage) \cup {stage} \subseteq Past(row.next)
  BY <1>1, <1>3 DEF NightStages, Past
<1>8. /\ Tonight(g) /\ ActsFit(g) /\ PotionsFit(g, potions)
      /\ \A b \in g.acts : StageOf(b) \in Past(stage) \cup {stage}
  <2>1. CASE g = game
    BY <2>1, <1>7, NightStart
  <2>2. ASSUME NEW s \in Named(r), g = Submit(game, s, row.action, r[s])
        PROVE  /\ Tonight(g) /\ ActsFit(g) /\ PotionsFit(g, potions)
               /\ \A b \in g.acts : StageOf(b) \in Past(stage) \cup {stage}
    <3> DEFINE a == RowOf(s, row.action, r[s])
    <3>1. a.action = row.action /\ a.actor = s /\ RoleOf[s] = row.role
      BY <1>4, <1>6, <2>2 DEF RowOf
    <3> HIDE DEF g
    <3>2. StageOf(a) = stage
      BY <1>1, <1>3, <3>1 DEF StageOf
    <3>3. Written(g, a)
      BY <1>7, <2>2, <3>2, SubmitEffect
    <3>4. a.action \in {"save", "poison"} => RoleOf[a.actor] # "witch"
      BY <1>1, <1>3, <3>1
    <3>5. PotionsFit(game, potions)
      BY <1>7, NightStart
    <3> HIDE DEF a
    <3>6. PotionsFit(g, potions)
      BY <3>3, <3>4, <3>5, NoPotion DEF Written
    <3> QED BY <3>3, <3>6 DEF Written
  <2> HIDE DEF g
  <2>3. g = game \/ \E s \in Named(r) : g = Submit(game, s, row.action, r[s])
    BY SubmitAnyEffect DEF g
  <2> QED BY <2>1, <2>2, <2>3
<1>9. streak' \in 0..MaxFailures /\ Pending(asked, Failed(r)) \in Verdicts \cup {None}
  BY <1>2, <1>6, StreakTyped DEF GameInv
<1>10. \A b \in g.acts : StageOf(b) \in Past(row.next)
  BY <1>7, <1>8
<1>11. UNCHANGED <<scene, speech, aborted, progress, history>>
  BY DEF NightRoleActs
<1>12. Continue(g, Pending(asked, Failed(r)), row.next, "loop")
  BY <1>2
<1> HIDE DEF g
<1> QED BY <1>7, <1>8, <1>9, <1>10, <1>11, <1>12, NightMove

\* The council of the wolves writes nothing.
LEMMA ConferKeeps ==
    ASSUME GameInv, UNCHANGED setup, WolvesConfer
    PROVE  GameInv' /\ DeadStay /\ GuardMovesOn
<1> DEFINE asked == LivingOf(game, "werewolf")
<1>1. PICK failed \in Failures("wolf_council", asked) :
        /\ streak' = StreakAfter(asked, failed)
        /\ Continue(game, Pending(asked, failed), "kill", "loop")
  BY DEF WolvesConfer
<1>2. failed \subseteq Seats
  BY DEF Failures, LivingOf, Living
<1>3. IsFiniteSet(failed)
  BY <1>2, SeatsAssumption, FS_Subset
<1> HIDE DEF asked
<1>4. streak' \in 0..MaxFailures /\ Pending(asked, failed) \in Verdicts \cup {None}
  BY <1>1, <1>3, StreakTyped DEF GameInv
<1>5. stage = "council" /\ UNCHANGED <<scene, speech, aborted, progress, history>>
  BY DEF WolvesConfer
<1>6. stage \in NightStages /\ "kill" \in NightStages /\ Past(stage) = Past("kill")
  BY <1>5 DEF NightStages, Past
<1>7. /\ Tonight(game) /\ ActsFit(game) /\ PotionsFit(game, potions)
      /\ \A b \in game.acts : StageOf(b) \in Past("kill")
  BY <1>6, NightStart
<1> QED BY <1>1, <1>4, <1>5, <1>6, <1>7, NightMove

\* The kill that most wolves name is written once.
LEMMA KillKeeps ==
    ASSUME GameInv, UNCHANGED setup, WolvesKill
    PROVE  GameInv' /\ DeadStay /\ GuardMovesOn
<1> DEFINE asked == LivingOf(game, "werewolf")
<1>1. PICK r, g :
        /\ r \in Replies("night_kill", asked)
        /\ streak' = StreakAfter(asked, Failed(r))
        /\ Continue(g, Pending(asked, Failed(r)), "save", "loop")
        /\ g = game \/ \E s, t : g = Submit(game, s, "kill", t)
  BY DEF WolvesKill
<1>2. asked \in SUBSET Seats
  BY DEF LivingOf, Living
<1>3. r \in [asked -> Considered("night_kill") \cup Unanswered("night_kill")]
  BY <1>1 DEF Replies
<1> HIDE DEF asked
<1>4. IsFiniteSet(Failed(r))
  BY <1>2, <1>3, Batch
<1>5. stage = "kill" /\ stage \in NightStages /\ "save" \in NightStages
      /\ Past(stage) \cup {stage} \subseteq Past("save")
  BY DEF WolvesKill, NightStages, Past
<1>6. /\ Tonight(g) /\ ActsFit(g) /\ PotionsFit(g, potions)
      /\ \A b \in g.acts : StageOf(b) \in Past(stage) \cup {stage}
  <2>1. CASE g = game
    BY <2>1, <1>5, NightStart
  <2>2. ASSUME NEW s, NEW t, g = Submit(game, s, "kill", t)
        PROVE  /\ Tonight(g) /\ ActsFit(g) /\ PotionsFit(g, potions)
               /\ \A b \in g.acts : StageOf(b) \in Past(stage) \cup {stage}
    <3> DEFINE a == RowOf(s, "kill", t)
    <3>1. StageOf(a) = stage /\ a.action = "kill"
      BY <1>5 DEF StageOf, RowOf
    <3>2. Written(g, a)
      BY <1>5, <2>2, <3>1, SubmitEffect
    <3>3. PotionsFit(game, potions)
      BY <1>5, NightStart
    <3>4. a.action \in {"save", "poison"} => RoleOf[a.actor] # "witch"
      BY <3>1
    <3> HIDE DEF a
    <3>5. PotionsFit(g, potions)
      BY <3>2, <3>3, <3>4, NoPotion DEF Written
    <3> QED BY <3>2, <3>5 DEF Written
  <2> QED BY <1>1, <2>1, <2>2
<1>7. streak' \in 0..MaxFailures /\ Pending(asked, Failed(r)) \in Verdicts \cup {None}
  BY <1>1, <1>4, StreakTyped DEF GameInv
<1>8. \A b \in g.acts : StageOf(b) \in Past("save")
  BY <1>5, <1>6
<1>9. UNCHANGED <<scene, speech, aborted, progress, history>>
  BY DEF WolvesKill
<1> QED BY <1>1, <1>5, <1>6, <1>7, <1>8, <1>9, NightMove

\* The witch's row uses the potion, which is put away with it.
LEMMA WitchUses ==
    ASSUME GameInv, NEW g, NEW h, NEW a, g.acts = game.acts \cup {a},
           RoleOf[a.actor] = "witch", PotionsFit(game, potions),
           \/ /\ a.action = "save" /\ game.antidote
              /\ h.antidote = FALSE /\ h.poison = game.poison
           \/ /\ a.action = "poison" /\ game.poison
              /\ h.antidote = game.antidote /\ h.poison = FALSE,
           h.acts = g.acts
    PROVE  PotionsFit(h, potions)
<1>1. CASE a.action = "save"
  <2>1. UsedTonight(h, "save") /\ UsedTonight(h, "poison") = UsedTonight(game, "poison")
    BY <1>1 DEF UsedTonight
  <2> QED BY <1>1, <2>1 DEF PotionsFit, PotionFits
<1>2. CASE a.action = "poison"
  <2>1. UsedTonight(h, "poison") /\ UsedTonight(h, "save") = UsedTonight(game, "save")
    BY <1>2 DEF UsedTonight
  <2> QED BY <1>2, <2>1 DEF PotionsFit, PotionFits
<1> QED BY <1>1, <1>2

\* The witch's two requests are alike: one potion each.
LEMMA WitchKeeps ==
    ASSUME GameInv, UNCHANGED setup, WitchSaves \/ WitchPoisons
    PROVE  GameInv' /\ DeadStay /\ GuardMovesOn
<1> DEFINE next == IF stage = "save" THEN "poison" ELSE "dawn"
<1>1. PICK asked, r, g, h :
        /\ asked \in SUBSET LivingOf(game, "witch") /\ r \in Replies(stage, asked)
        /\ streak' = StreakAfter(asked, Failed(r))
        /\ Continue(h, Pending(asked, Failed(r)), next, "loop")
        /\ stage = "save" /\ asked # {} => game.antidote
        /\ stage = "poison" /\ asked # {} => game.poison
        /\ g = SubmitAny(game, stage, r)
        /\ h = IF g = game THEN g ELSE IF stage = "save" THEN SpendAntidote(g) ELSE SpendPoison(g)
        /\ stage \in {"save", "poison"}
  <2>1. CASE WitchSaves
    <3> DEFINE asked == IF game.antidote THEN LivingOf(game, "witch") ELSE {}
    <3>1. PICK r \in Replies("save", asked) :
            /\ streak' = StreakAfter(asked, Failed(r))
            /\ Continue(IF SubmitAny(game, "save", r) # game
                          THEN SpendAntidote(SubmitAny(game, "save", r))
                          ELSE SubmitAny(game, "save", r),
                        Pending(asked, Failed(r)), "poison", "loop")
      BY <2>1 DEF WitchSaves
    <3>2. stage = "save" /\ asked \in SUBSET LivingOf(game, "witch")
          /\ (asked # {} => game.antidote)
      BY <2>1 DEF WitchSaves
    <3> HIDE DEF asked
    <3> QED BY <3>1, <3>2
  <2>2. CASE WitchPoisons
    <3> DEFINE savers == {a.actor : a \in {b \in game.acts : b.action = "save"}}
               asked == (IF game.poison THEN LivingOf(game, "witch") ELSE {}) \ savers
    <3>1. PICK r \in Replies("poison", asked) :
            /\ streak' = StreakAfter(asked, Failed(r))
            /\ Continue(IF SubmitAny(game, "poison", r) # game
                          THEN SpendPoison(SubmitAny(game, "poison", r))
                          ELSE SubmitAny(game, "poison", r),
                        Pending(asked, Failed(r)), "dawn", "loop")
      BY <2>2 DEF WitchPoisons
    <3>2. stage = "poison" /\ asked \in SUBSET LivingOf(game, "witch")
          /\ (asked # {} => game.poison)
      BY <2>2 DEF WitchPoisons
    <3> HIDE DEF asked
    <3> QED BY <3>1, <3>2
  <2> QED BY <2>1, <2>2
<1>2. asked \in SUBSET Seats /\ \A s \in asked : RoleOf[s] = "witch"
  BY <1>1 DEF LivingOf, Living, Holders
<1>3. r \in [asked -> Considered(stage) \cup Unanswered(stage)]
  BY <1>1 DEF Replies
<1>4. IsFiniteSet(Failed(r)) /\ Named(r) \subseteq asked
  BY <1>2, <1>3, Batch
<1>5. stage \in NightStages /\ next \in NightStages
      /\ Past(stage) \cup {stage} \subseteq Past(next)
  BY <1>1 DEF NightStages, Past
<1> HIDE DEF next
<1>6. /\ Tonight(h) /\ ActsFit(h) /\ PotionsFit(h, potions)
      /\ \A b \in h.acts : StageOf(b) \in Past(stage) \cup {stage}
  <2>1. CASE g = game
    BY <1>1, <1>5, <2>1, NightStart
  <2>2. ASSUME NEW s \in Named(r), g = Submit(game, s, stage, r[s]), g # game
        PROVE  /\ Tonight(h) /\ ActsFit(h) /\ PotionsFit(h, potions)
               /\ \A b \in h.acts : StageOf(b) \in Past(stage) \cup {stage}
    <3> DEFINE a == RowOf(s, stage, r[s])
    <3>1. a.action = stage /\ a.actor = s /\ RoleOf[a.actor] = "witch" /\ asked # {}
      BY <1>2, <1>4, <2>2 DEF RowOf
    <3>2. StageOf(a) = stage
      BY <1>1, <3>1 DEF StageOf
    <3>3. /\ Tonight(g) /\ ActsFit(g) /\ g.antidote = game.antidote /\ g.poison = game.poison
          /\ \A b \in g.acts : StageOf(b) \in Past(stage) \cup {stage}
          /\ g.acts = game.acts \cup {a}
      BY <1>5, <2>2, <3>2, SubmitEffect DEF Written
    <3> HIDE DEF a
    <3>4. h = IF stage = "save" THEN [g EXCEPT !.antidote = FALSE]
              ELSE [g EXCEPT !.poison = FALSE]
      BY <1>1, <2>2 DEF SpendAntidote, SpendPoison
    <3>5. /\ Tonight(h) /\ h.acts = g.acts /\ h.died = g.died /\ h.lastGuarded = g.lastGuarded
          /\ stage = "save" => h.antidote = FALSE /\ h.poison = g.poison
          /\ stage = "poison" => h.antidote = g.antidote /\ h.poison = FALSE
      <4>1. CASE stage = "save"
        <5>1. h = [g EXCEPT !.antidote = FALSE]
          BY <3>4, <4>1
        <5> QED BY <3>3, <4>1, <5>1 DEF Tonight, Games
      <4>2. CASE stage = "poison"
        <5>1. h = [g EXCEPT !.poison = FALSE]
          BY <3>4, <4>2
        <5> QED BY <3>3, <4>2, <5>1 DEF Tonight, Games
      <4> QED BY <1>1, <4>1, <4>2
    <3>6. ActsFit(h)
      BY <3>3, <3>5 DEF ActsFit, RowFits, Living
    <3>7. PotionsFit(game, potions)
      BY <1>5, NightStart
    <3>8. PotionsFit(h, potions)
      <4>1. \/ /\ a.action = "save" /\ game.antidote
               /\ h.antidote = FALSE /\ h.poison = game.poison
            \/ /\ a.action = "poison" /\ game.poison
               /\ h.antidote = game.antidote /\ h.poison = FALSE
        BY <1>1, <3>1, <3>3, <3>5
      <4> QED BY <3>1, <3>3, <3>5, <3>7, <4>1, WitchUses
    <3> QED BY <3>3, <3>5, <3>6, <3>8
  <2>3. g = game \/ \E s \in Named(r) : g = Submit(game, s, stage, r[s])
    BY <1>1, SubmitAnyEffect
  <2> QED BY <2>1, <2>2, <2>3
<1>7. streak' \in 0..MaxFailures /\ Pending(asked, Failed(r)) \in Verdicts \cup {None}
  BY <1>1, <1>4, StreakTyped DEF GameInv
<1>8. \A b \in h.acts : StageOf(b) \in Past(next)
  BY <1>5, <1>6
<1>9. UNCHANGED <<scene, speech, aborted, progress, history>>
  BY DEF WitchSaves, WitchPoisons
<1> QED BY <1>1, <1>5, <1>6, <1>7, <1>8, <1>9, NightMove

\* A stage writes one row, so that the wolves name one victim, who is alive.
LEMMA KillTargetFits ==
    ASSUME NEW g \in Games, ActsFit(g)
    PROVE  KillTarget(g) \in Living(g) \cup {None}
<1> DEFINE kills == {a \in g.acts : a.action = "kill"}
           Count(t) == Cardinality({a \in kills : a.target = t})
           named == {a.target : a \in kills}
           top == {t \in named : \A u \in named : Count(u) <= Count(t)}
<1>1. KillTarget(g) = IF kills = {} THEN None ELSE CHOOSE t \in top : \A u \in top : t <= u
  BY DEF KillTarget
<1>2. ASSUME NEW a \in kills PROVE KillTarget(g) \in Living(g)
  <2>1. kills = {a}
    BY <1>2 DEF ActsFit, StageOf
  <2>2. a.target \in Living(g) /\ a.target \in Nat
    BY <1>2, SeatsAssumption DEF ActsFit, RowFits, Living
  <2> HIDE DEF kills
  <2>3. named = {a.target}
    BY <2>1
  <2>4. {b \in kills : b.target = a.target} = {a}
    BY <2>1
  <2>5. Count(a.target) = 1
    BY <2>4, FS_Singleton
  <2> HIDE DEF named, Count
  <2>6. top = {a.target}
    BY <2>3, <2>5
  <2> HIDE DEF top
  <2>7. (CHOOSE t \in top : \A u \in top : t <= u) = a.target
    BY <2>2, <2>6
  <2> QED BY <1>1, <1>2, <2>1, <2>2, <2>7
<1> QED BY <1>1, <1>2

\* The night takes the wolves' victim and the poisoned, one each at most.
LEMMA NightTakes ==
    ASSUME NEW g \in Games, ActsFit(g)
    PROVE  /\ KilledByWolves(g) \subseteq Living(g) /\ TargetsOf(g, "poison") \subseteq Living(g)
           /\ \A s, t \in KilledByWolves(g) : s = t
           /\ \A s, t \in TargetsOf(g, "poison") : s = t
<1>1. KilledByWolves(g) \subseteq {KillTarget(g)} \ {None}
  BY DEF KilledByWolves
<1>2. KilledByWolves(g) \subseteq Living(g)
  BY <1>1, KillTargetFits
<1>3. \A a \in g.acts : a.target \in Living(g)
  BY DEF ActsFit, RowFits
<1>4. TargetsOf(g, "poison") \subseteq Living(g)
  BY <1>3 DEF TargetsOf
<1>5. \A a, b \in g.acts : a.action = "poison" /\ b.action = "poison" => a = b
  BY DEF ActsFit, StageOf
<1>6. \A s, t \in TargetsOf(g, "poison") : s = t
  BY <1>5 DEF TargetsOf
<1> QED BY <1>1, <1>2, <1>4, <1>6

\* The sequence of at most one element that NightDeaths makes of a set.
OneOf(S) == IF S = {} THEN <<>> ELSE <<CHOOSE s \in S : TRUE>>

\* It names the set.
LEMMA OneNames ==
    ASSUME NEW T, NEW S \in SUBSET T, \A s, t \in S : s = t
    PROVE  OneOf(S) \in Seq(T) /\ NamesIn(OneOf(S)) = S /\ Distinct(OneOf(S))
<1>1. CASE S = {}
  BY <1>1 DEF OneOf, NamesIn, Distinct
<1>2. ASSUME NEW x \in S PROVE OneOf(S) \in Seq(T) /\ NamesIn(OneOf(S)) = S /\ Distinct(OneOf(S))
  <2>1. S = {x}
    BY <1>2
  <2>2. OneOf(S) = <<x>>
    BY <2>1 DEF OneOf
  <2>3. <<x>> \in Seq(T) /\ Len(<<x>>) = 1 /\ <<x>>[1] = x
    BY <1>2
  <2>4. NamesIn(<<x>>) = {x} /\ Distinct(<<x>>)
    BY <2>3 DEF NamesIn, Distinct
  <2> QED BY <2>1, <2>2, <2>3, <2>4
<1> QED BY <1>1, <1>2

\* night_deaths names each of them once.
LEMMA NightDeathsFit ==
    ASSUME NEW g \in Games, ActsFit(g)
    PROVE  /\ NightDeaths(g) \in Seq(Seats) /\ Distinct(NightDeaths(g))
           /\ NamesIn(NightDeaths(g)) = KilledByWolves(g) \cup TargetsOf(g, "poison")
<1> DEFINE K == KilledByWolves(g)
           P == TargetsOf(g, "poison")
<1>1. K \subseteq Seats /\ P \subseteq Seats /\ (\A s, t \in K : s = t) /\ (\A s, t \in P : s = t)
  BY NightTakes DEF Living
<1>2. NightDeaths(g) = OneOf(K) \o OneOf(P \ K)
  BY DEF NightDeaths, OneOf
<1> HIDE DEF K, P
<1>3. /\ OneOf(K) \in Seq(Seats) /\ NamesIn(OneOf(K)) = K /\ Distinct(OneOf(K))
      /\ OneOf(P \ K) \in Seq(Seats) /\ NamesIn(OneOf(P \ K)) = P \ K /\ Distinct(OneOf(P \ K))
  <2>1. P \ K \in SUBSET Seats /\ \A s, t \in P \ K : s = t
    BY <1>1
  <2> QED BY <1>1, <2>1, OneNames
<1> DEFINE k == OneOf(K)
           p == OneOf(P \ K)
<1>4. k \in Seq(Seats) /\ p \in Seq(Seats) /\ NamesIn(k) \cap NamesIn(p) = {}
      /\ Distinct(k) /\ Distinct(p) /\ NamesIn(k) \cup NamesIn(p) = K \cup P
  BY <1>3
<1> HIDE DEF k, p
<1>5. k \o p \in Seq(Seats) /\ NamesIn(k \o p) = K \cup P /\ Distinct(k \o p)
  BY <1>4, JoinNames
<1> QED BY <1>2, <1>5 DEF K, P, k, p

\* What the night makes of everybody.
LEMMA NightFateFits ==
    ASSUME NEW g \in Games, ActsFit(g)
    PROVE  /\ NightFate(g) \in [Seats -> Fates]
           /\ \A s \in Seats :
                IF s \in KilledByWolves(g) \cup TargetsOf(g, "poison")
                  THEN NightFate(g)[s] # "alive" ELSE NightFate(g)[s] = g.died[s]
BY DEF NightFate, Games, Fates

\* The game after the night, with the words of the dead queued.
AfterNight(g, h) ==
    /\ h \in Games /\ h.phase = "day" /\ h.day = g.day /\ h.died = NightFate(g) /\ h.acts = {}
    /\ h.antidote = g.antidote /\ h.poison = g.poison
    /\ h.lastGuarded # None => \E a \in g.acts : a.action = "guard" /\ h.lastGuarded = a.target
    /\ h.pendingHunter = g.pendingHunter \o NewHunters(g)
    /\ h.words = g.words \o Only(NightDeaths(g), {s \in Seats : ~ Queued(g, s)})

\* The step of the dawn makes such a game.
DawnOf(g) ==
    [ResolveNight(g) EXCEPT !.words = @ \o Only(NightDeaths(g), {s \in Seats : ~ Queued(g, s)})]

\* It does so whatever the rows are.
LEMMA DawnGame ==
    ASSUME NEW g \in Games, ActsFit(g)
    PROVE  AfterNight(g, DawnOf(g))
<1> DEFINE fate == NightFate(g)
           hunters == g.pendingHunter \o NewHunters(g)
           words == g.words \o Only(NightDeaths(g), {s \in Seats : ~ Queued(g, s)})
           guarded == IF TargetsOf(g, "guard") = {} THEN None
                      ELSE CHOOSE s \in TargetsOf(g, "guard") : TRUE
<1>1. fate \in [Seats -> Fates]
  BY NightFateFits
<1>2. NightDeaths(g) \in Seq(Seats)
  BY NightDeathsFit
<1>3. hunters \in Seq(Seats)
  <2>1. NewHunters(g) \in Seq(Seats)
    BY <1>2, OnlyNames DEF NewHunters
  <2>2. g.pendingHunter \in Seq(Seats)
    BY DEF Games
  <2> QED BY <2>1, <2>2, JoinNames
<1>4. words \in Seq(Seats)
  <2>1. Only(NightDeaths(g), {s \in Seats : ~ Queued(g, s)}) \in Seq(Seats)
    BY <1>2, OnlyNames
  <2>2. g.words \in Seq(Seats)
    BY DEF Games
  <2> QED BY <2>1, <2>2, JoinNames
<1>5. guarded = None \/ guarded \in TargetsOf(g, "guard")
  OBVIOUS
<1>6. \A s \in TargetsOf(g, "guard") : s \in Seats /\ \E a \in g.acts : a.action = "guard" /\ s = a.target
  BY DEF TargetsOf, ActsFit, RowFits, Living
<1>7. NoVotes \in [Seats -> Seats \cup {None}] /\ {} \in SUBSET NightActions
  BY DEF NoVotes
<1>8. DawnOf(g) = [g EXCEPT !.phase = "day", !.died = fate, !.pendingHunter = hunters,
                            !.lastGuarded = guarded, !.acts = {}, !.votes = NoVotes,
                            !.words = words]
  BY DEF DawnOf, ResolveNight, Games
<1> HIDE DEF fate, hunters, words, guarded
<1>9. /\ DawnOf(g) \in Games /\ DawnOf(g).phase = "day" /\ DawnOf(g).day = g.day
      /\ DawnOf(g).died = fate /\ DawnOf(g).acts = {} /\ DawnOf(g).antidote = g.antidote
      /\ DawnOf(g).poison = g.poison /\ DawnOf(g).lastGuarded = guarded
      /\ DawnOf(g).pendingHunter = hunters /\ DawnOf(g).words = words
  <2>1. guarded \in Seats \cup {None}
    BY <1>5, <1>6
  <2>2. DawnOf(g) = [phase |-> "day", day |-> g.day, died |-> fate, acts |-> {},
                     votes |-> NoVotes, winner |-> g.winner, antidote |-> g.antidote,
                     poison |-> g.poison, lastGuarded |-> guarded,
                     pendingHunter |-> hunters, words |-> words, pk |-> g.pk]
    BY <1>8 DEF Games
  <2>3. g.day \in Nat /\ g.winner \in {"village", "werewolves", None} /\ g.antidote \in BOOLEAN
        /\ g.poison \in BOOLEAN /\ g.pk \in SUBSET Seats
    BY DEF Games
  <2>4. DawnOf(g) \in Games
    BY <1>1, <1>3, <1>4, <1>7, <2>1, <2>2, <2>3 DEF Games
  <2> QED BY <2>2, <2>4
<1>10. guarded # None => \E a \in g.acts : a.action = "guard" /\ guarded = a.target
  BY <1>5, <1>6
<1> QED BY <1>9, <1>10 DEF AfterNight, fate, hunters, words

\* The dawn settles the night.
LEMMA DawnKeeps ==
    ASSUME GameInv, UNCHANGED setup, Dawn
    PROVE  GameInv' /\ DeadStay /\ GuardMovesOn
<1> DEFINE K == KilledByWolves(game)
           P == TargetsOf(game, "poison")
           deaths == NightDeaths(game)
           open == {s \in Seats : ~ Queued(game, s)}
           fresh == Only(deaths, open)
           h == DawnOf(game)
<1>1. /\ TypeOK /\ game \in Games /\ ActsFit(game) /\ game.phase = "night" /\ pending = None
      /\ QueueFits(game, offered) /\ ShotsFit(game) /\ PotionsFit(game, potions)
      /\ game.day = rounds + 1 /\ rounds < MaxRounds
  BY DEF GameInv, TypeOK, Dawn, PhaseFits, NightStages, BoardFits, VerdictIsJust, Counted
<1>2. /\ game' = h /\ stage' = "words" /\ scene' = "night"
      /\ UNCHANGED <<speech, streak, verdict, aborted, progress, offered>>
  BY DEF Dawn, DawnOf
<1>3. AfterNight(game, h)
  BY <1>1, DawnGame
<1>4. /\ K \subseteq Living(game) /\ P \subseteq Living(game)
  BY <1>1, NightTakes
<1>5. Living(h) = Living(game) \ (K \cup P)
      /\ \A s \in Seats \ Living(game) : h.died[s] = game.died[s]
  <2>1. \A s \in Seats : IF s \in K \cup P THEN h.died[s] # "alive" ELSE h.died[s] = game.died[s]
    BY <1>1, <1>3, NightFateFits DEF AfterNight
  <2> HIDE DEF h, K, P
  <2> QED BY <1>4, <2>1 DEF Living
<1>6. deaths \in Seq(Seats) /\ Distinct(deaths) /\ NamesIn(deaths) = K \cup P
  BY <1>1, NightDeathsFit
<1>7. open = Seats \ NamesIn(game.words)
  <2>1. \A s : Queued(game, s) <=> s \in NamesIn(game.words)
    BY DEF Queued, NamesIn
  <2> QED BY <2>1
<1>8. fresh \in Seq(Seats) /\ Distinct(fresh) /\ NamesIn(fresh) = (K \cup P) \ NamesIn(game.words)
  <2>1. K \cup P \subseteq Seats
    BY <1>4 DEF Living
  <2> HIDE DEF deaths, open, K, P
  <2>2. fresh \in Seq(Seats) /\ NamesIn(fresh) = NamesIn(deaths) \cap open /\ Distinct(fresh)
    BY <1>6, OnlyNames, OnlyDistinct
  <2> QED BY <1>6, <1>7, <2>1, <2>2
<1>9. game.words \in Seq(Seats) /\ game.pendingHunter \in Seq(Seats)
  BY <1>1 DEF Games
<1>10. h.words = game.words \o fresh
  BY <1>3 DEF AfterNight
<1> HIDE DEF fresh
<1>11. NamesIn(h.words) = NamesIn(game.words) \cup (K \cup P) /\ Distinct(h.words)
  <2>1. Distinct(game.words) /\ NamesIn(game.words) \cap NamesIn(fresh) = {}
    BY <1>1, <1>8 DEF QueueFits
  <2> HIDE DEF h
  <2>2. NamesIn(h.words) = NamesIn(game.words) \cup NamesIn(fresh) /\ Distinct(h.words)
    BY <1>8, <1>9, <1>10, <2>1, JoinNames
  <2> QED BY <1>8, <2>2
<1>12. QueueFits(h, offered)
  BY <1>1, <1>4, <1>5, <1>11 DEF QueueFits
<1>13. ShotsFit(h)
  <2>1. /\ NewHunters(game) \in Seq(Seats)
        /\ NamesIn(NewHunters(game)) \subseteq {s \in K \cup P : NightFate(game)[s] # "poisoned"}
    <3> DEFINE S == {s \in Holders("hunter") : NightFate(game)[s] # "poisoned"}
    <3>1. NewHunters(game) = Only(deaths, S)
      BY DEF NewHunters
    <3> HIDE DEF S, deaths
    <3>2. NewHunters(game) \in Seq(Seats) /\ NamesIn(NewHunters(game)) = NamesIn(deaths) \cap S
      BY <1>6, <3>1, OnlyNames
    <3> QED BY <1>6, <3>2 DEF S
  <2>2. NamesIn(h.pendingHunter) = NamesIn(game.pendingHunter) \cup NamesIn(NewHunters(game))
    BY <1>3, <1>9, <2>1, JoinNames DEF AfterNight
  <2>3. h.died = NightFate(game)
    BY <1>3 DEF AfterNight
  <2>4. \A s \in K \cup P : h.died[s] # "alive"
    BY <1>1, <1>4, <2>3, NightFateFits DEF Living
  <2>5. NamesIn(game.pendingHunter) \subseteq Seats
    BY <1>9 DEF NamesIn
  <2> HIDE DEF h, K, P
  <2>6. \A s \in NamesIn(game.pendingHunter) : h.died[s] = game.died[s]
    BY <1>1, <1>5, <2>5 DEF ShotsFit, Living
  <2> QED BY <1>1, <2>1, <2>2, <2>3, <2>4, <2>6 DEF ShotsFit
<1> HIDE DEF h, K, P
<1>14. ActsFit(h) /\ h.acts = {}
  BY <1>3 DEF AfterNight, ActsFit
<1>15. potions' \in [save : Nat, poison : Nat] /\ PotionsFit(h, potions')
  <2> DEFINE Used(action) ==
               IF \E a \in game.acts : a.action = action /\ RoleOf[a.actor] = "witch" THEN 1 ELSE 0
  <2>1. potions' = [save |-> potions.save + Used("save"), poison |-> potions.poison + Used("poison")]
    BY DEF Dawn
  <2>2. /\ Used("save") = IF UsedTonight(game, "save") THEN 1 ELSE 0
        /\ Used("poison") = IF UsedTonight(game, "poison") THEN 1 ELSE 0
    BY DEF UsedTonight
  <2>3. potions.save \in Nat /\ potions.poison \in Nat
    BY <1>1 DEF TypeOK
  <2>4. h.antidote = game.antidote /\ h.poison = game.poison
        /\ ~ UsedTonight(h, "save") /\ ~ UsedTonight(h, "poison")
    BY <1>3 DEF AfterNight, UsedTonight
  <2> HIDE DEF Used
  <2>5. /\ potions'.save = potions.save + Used("save")
        /\ potions'.poison = potions.poison + Used("poison")
    BY <2>1
  <2>6. /\ PotionFits(h.antidote, potions'.save, UsedTonight(h, "save"))
        /\ PotionFits(h.poison, potions'.poison, UsedTonight(h, "poison"))
    BY <1>1, <2>2, <2>3, <2>4, <2>5 DEF PotionsFit, PotionFits
  <2> QED BY <2>1, <2>2, <2>3, <2>6 DEF PotionsFit
<1>16. BoardFits(h, offered', potions')
  BY <1>2, <1>12, <1>13, <1>14, <1>15 DEF BoardFits
<1>17. Goes(h, "words", "loop")
  BY <1>1, <1>2, <1>3, StaysEffect DEF AfterNight
<1>18. RestTyped'
  <2>1. RestTyped /\ setup' = setup
    BY <1>1, TypeParts
  <2> QED BY <1>2, <1>15, <2>1 DEF RestTyped, speech, progress, MaxFailures, MaxSpeakRounds,
                                   MaxRounds, Stages
<1>19. h.phase = "day" /\ h.day = rounds' + 1 /\ rounds' < MaxRounds
  BY <1>1, <1>2, <1>3 DEF AfterNight, progress
<1>20. Ready(h, "words")
  <2>1. PhaseFits(h.phase, "words", scene')
    BY <1>2, <1>19 DEF PhaseFits, PhaseAfter, NightStages
  <2>2. broadcast' = None => SettledIn(h, "words", offered')
    <3>1. broadcast' = broadcast /\ offered' = offered
      BY <1>2 DEF verdict
    <3>2. broadcast = None => Seats \ Living(game) \subseteq offered \cup NamesIn(game.words)
      BY DEF GameInv, SettledIn
    <3> QED BY <1>5, <1>11, <3>1, <3>2 DEF SettledIn
  <2>3. InTime(h, "words")
    BY <1>14 DEF InTime
  <2> QED BY <1>19, <2>1, <2>2, <2>3 DEF Ready
<1>21. GameInv'
  BY <1>16, <1>17, <1>18, <1>19, <1>20, Lands DEF EndFits
<1>22. DeadStay
  BY <1>2, <1>5 DEF DeadStay, Living
<1>23. GuardMovesOn
  <2>1. h.lastGuarded # None => h.lastGuarded # game.lastGuarded
    BY <1>1, <1>3 DEF AfterNight, ActsFit, RowFits
  <2> QED BY <1>2, <2>1 DEF GuardMovesOn
<1> QED BY <1>21, <1>22, <1>23

-----------------------------------------------------------------------------
(* Last words and the hunter's shot.                                        *)

\* The rest of a sequence names everybody but its head.
LEMMA TailNames ==
    ASSUME NEW T, NEW s \in Seq(T), s # <<>>, Distinct(s)
    PROVE  /\ Head(s) \in T /\ Head(s) \in NamesIn(s)
           /\ Tail(s) \in Seq(T) /\ Distinct(Tail(s))
           /\ NamesIn(Tail(s)) = NamesIn(s) \ {Head(s)}
<1> DEFINE t == Tail(s)
           x == Head(s)
<1>1. /\ Len(s) \in Nat /\ Len(s) > 0 /\ x = s[1] /\ t \in Seq(T) /\ Len(t) = Len(s) - 1
      /\ \A i \in 1..Len(t) : t[i] = s[i + 1]
  OBVIOUS
<1>2. x \in T /\ 1 \in 1..Len(s)
  BY <1>1
<1> HIDE DEF t, x
<1>3. \A i \in 1..Len(t) : i + 1 \in 1..Len(s)
  BY <1>1
<1>4. \A i \in 1..Len(s) : i = 1 \/ (i - 1 \in 1..Len(t) /\ (i - 1) + 1 = i)
  BY <1>1
<1>5. Distinct(t)
  <2> SUFFICES ASSUME NEW i \in 1..Len(t), NEW j \in 1..Len(t), t[i] = t[j] PROVE i = j
    BY DEF Distinct
  <2>1. i + 1 = j + 1
    BY <1>1, <1>3 DEF Distinct
  <2> QED BY <1>1, <2>1
<1>6. NamesIn(t) \subseteq NamesIn(s) \ {x}
  <2> SUFFICES ASSUME NEW i \in 1..Len(t) PROVE t[i] \in NamesIn(s) /\ t[i] # x
    BY DEF NamesIn
  <2>1. s[i + 1] # s[1]
    <3>1. i + 1 # 1
      BY <1>1
    <3> QED BY <1>2, <1>3, <3>1 DEF Distinct
  <2> QED BY <1>1, <1>3, <2>1 DEF NamesIn
<1>7. NamesIn(s) \ {x} \subseteq NamesIn(t)
  <2> SUFFICES ASSUME NEW i \in 1..Len(s), s[i] # x PROVE s[i] \in NamesIn(t)
    BY DEF NamesIn
  <2>1. i - 1 \in 1..Len(t) /\ (i - 1) + 1 = i
    BY <1>1, <1>4
  <2>2. t[i - 1] = s[i]
    BY <1>1, <2>1
  <2> QED BY <2>1, <2>2 DEF NamesIn
<1>8. x \in NamesIn(s)
  BY <1>1, <1>2 DEF NamesIn
<1> QED BY <1>1, <1>2, <1>5, <1>6, <1>7, <1>8 DEF t, x

\* The stages in which deaths are settled.
DeathStages == {"words", "hunter", "lastwords"}

\* In them, the night is over and the game is not.
LEMMA InDeaths ==
    ASSUME GameInv, stage \in DeathStages \cup {"speak", "vote", "pk", "speakpk"}
    PROVE  /\ TypeOK /\ game \in Games /\ game.acts = {} /\ game.phase \notin {"ended", "night"}
           /\ game.day = rounds + 1 /\ rounds < MaxRounds
           /\ BoardFits(game, offered, potions)
           /\ stage # "speak" => pending = None
<1>1. game.phase \in {"day", "voting"}
  BY DEF GameInv, DeathStages, PhaseFits, PhaseAfter
<1>2. \A a \in game.acts : StageOf(a) \in Past(stage)
  BY <1>1 DEF GameInv, InTime
<1>3. Past(stage) = {}
  BY DEF Past, DeathStages
<1> QED BY <1>1, <1>2, <1>3 DEF GameInv, TypeOK, Counted, VerdictIsJust

\* One of the dead is asked for last words, and leaves the queue.
LEMMA Asked ==
    ASSUME GameInv, UNCHANGED setup, stage \in {"words", "lastwords"},
           NEW s \in NamesIn(game.words), s \in Seats, NEW q \in Seq(Seats), Distinct(q),
           NamesIn(q) = NamesIn(game.words) \ {s},
           NEW g, g = [game EXCEPT !.words = q], offered' = offered \cup {s},
           NEW next, next = stage, Goes(g, next, "finish"), streak' \in 0..MaxFailures,
           UNCHANGED <<scene, speech, aborted, progress, potions>>
    PROVE  GameInv' /\ DeadStay /\ GuardMovesOn
<1>1. /\ TypeOK /\ game \in Games /\ game.acts = {} /\ game.phase \notin {"ended", "night"}
      /\ game.day = rounds + 1 /\ rounds < MaxRounds /\ BoardFits(game, offered, potions)
  BY InDeaths DEF DeathStages
<1>2. /\ g.words = q /\ g.died = game.died /\ g.pendingHunter = game.pendingHunter
      /\ g.acts = {} /\ g.phase = game.phase /\ g.day = game.day
      /\ g.antidote = game.antidote /\ g.poison = game.poison
  BY <1>1 DEF Games
<1>3. Living(g) = Living(game)
  BY <1>2, WinnerByDeaths
<1>4. QueueFits(g, offered')
  BY <1>1, <1>2, <1>3 DEF BoardFits, QueueFits
<1>5. ShotsFit(g) /\ ActsFit(g)
  BY <1>1, <1>2 DEF BoardFits, ShotsFit, ActsFit
<1>6. PotionsFit(g, potions)
  <2>1. UsedTonight(g, "save") = UsedTonight(game, "save")
        /\ UsedTonight(g, "poison") = UsedTonight(game, "poison")
    BY <1>1, <1>2 DEF UsedTonight
  <2> QED BY <1>1, <1>2, <2>1 DEF BoardFits, PotionsFit
<1>7. BoardFits(g, offered', potions')
  BY <1>4, <1>5, <1>6 DEF BoardFits
<1>8. RestTyped'
  <2>1. RestTyped /\ setup' = setup
    BY <1>1, TypeParts
  <2>2. stage' \in Stages
    BY DEF Goes, Stops, Stays, Stages
  <2> QED BY <2>1, <2>2 DEF RestTyped, speech, progress, MaxFailures, MaxSpeakRounds, MaxRounds
<1>9. g.day = rounds' + 1 /\ rounds' < MaxRounds
  BY <1>1, <1>2 DEF progress
<1>10. EndFits(g, "finish")
  BY <1>2, <1>9 DEF EndFits
<1>11. ASSUME Stays(g, next) PROVE Ready(g, next)
  <2>1. PhaseFits(g.phase, next, scene')
    BY <1>2 DEF GameInv
  <2>2. broadcast' = None => SettledIn(g, next, offered')
    <3>1. broadcast' = broadcast
      BY <1>11 DEF Stays
    <3> QED BY <1>2, <1>3, <3>1 DEF GameInv, SettledIn
  <2>3. InTime(g, next) /\ next \notin {"speakpk", "loop"}
    BY <1>2 DEF InTime
  <2> QED BY <1>1, <1>2, <1>9, <2>1, <2>2, <2>3 DEF Ready
<1>12. GameInv'
  BY <1>7, <1>8, <1>9, <1>10, <1>11, Lands
<1>13. DeadStay /\ GuardMovesOn
  BY <1>1, <1>2, Quiet
<1> QED BY <1>12, <1>13

\* Spoken, left out or failed: the first in the queue is done with.
LEMMA LastWordsKeeps ==
    ASSUME GameInv, UNCHANGED setup, LastWords
    PROVE  GameInv' /\ DeadStay /\ GuardMovesOn
<1> DEFINE s == Head(game.words)
           tail == Tail(game.words)
           rest == Only(game.words, Seats \ {s})
           dropped == [game EXCEPT !.words = tail]
           spoken == [game EXCEPT !.words = rest]
<1>1. stage \in {"words", "lastwords"} /\ game.words # <<>>
  BY DEF LastWords
<1>2. TypeOK /\ game \in Games /\ pending = None /\ BoardFits(game, offered, potions)
  BY <1>1, InDeaths DEF DeathStages
<1>3. game.words \in Seq(Seats) /\ Distinct(game.words)
  BY <1>2 DEF Games, BoardFits, QueueFits
<1>4. /\ s \in Seats /\ s \in NamesIn(game.words) /\ tail \in Seq(Seats) /\ Distinct(tail)
      /\ NamesIn(tail) = NamesIn(game.words) \ {s}
  BY <1>1, <1>3, TailNames
<1>5. rest \in Seq(Seats) /\ Distinct(rest) /\ NamesIn(rest) = NamesIn(game.words) \ {s}
  <2>1. NamesIn(game.words) \subseteq Seats
    BY <1>3 DEF NamesIn
  <2> HIDE DEF s
  <2>2. rest \in Seq(Seats) /\ NamesIn(rest) = NamesIn(game.words) \cap (Seats \ {s})
        /\ Distinct(rest)
    BY <1>3, OnlyNames, OnlyDistinct
  <2> QED BY <2>1, <2>2
<1>6. /\ offered' = offered \cup {s}
      /\ \/ game' \in {spoken, dropped} /\ streak' = 0 /\ UNCHANGED <<stage, verdict>>
         \/ /\ streak' = StreakAfter({s}, {s})
            /\ Continue(dropped, Pending({s}, {s}), stage, "finish")
      /\ UNCHANGED <<scene, speech, aborted, progress, potions>>
  BY DEF LastWords, RecordLastWords
<1>7. 0 \in 0..MaxFailures
  BY SetupsAssumption DEF GameInv, MaxFailures
<1>8. dropped \in Games /\ spoken \in Games
  <2> HIDE DEF tail, rest
  <2> QED BY <1>2, <1>4, <1>5 DEF Games
<1>9. PICK g, q :
        /\ g = [game EXCEPT !.words = q] /\ q \in Seq(Seats) /\ Distinct(q)
        /\ NamesIn(q) = NamesIn(game.words) \ {s}
        /\ Goes(g, stage, "finish") /\ streak' \in 0..MaxFailures
  <2>1. CASE game' = spoken /\ streak' = 0 /\ UNCHANGED <<stage, verdict>>
    <3>1. Goes(spoken, stage, "finish")
      BY <1>2, <1>8, <2>1, StaysEffect
    <3> HIDE DEF rest
    <3> QED BY <1>5, <1>7, <2>1, <3>1
  <2>2. CASE game' = dropped /\ streak' = 0 /\ UNCHANGED <<stage, verdict>>
    <3>1. Goes(dropped, stage, "finish")
      BY <1>2, <1>8, <2>2, StaysEffect
    <3> HIDE DEF tail
    <3> QED BY <1>4, <1>7, <2>2, <3>1
  <2>3. CASE /\ streak' = StreakAfter({s}, {s})
             /\ Continue(dropped, Pending({s}, {s}), stage, "finish")
    <3>1. IsFiniteSet({s})
      BY FS_Singleton
    <3> HIDE DEF s
    <3>2. streak' \in 0..MaxFailures /\ Pending({s}, {s}) \in Verdicts \cup {None}
      BY <1>2, <2>3, <3>1, StreakTyped DEF GameInv
    <3> HIDE DEF dropped
    <3>3. Goes(dropped, stage, "finish")
      BY <1>2, <1>8, <2>3, <3>2, ContinueEffect
    <3> HIDE DEF tail
    <3> QED BY <1>4, <3>2, <3>3 DEF dropped
  <2> QED BY <1>6, <2>1, <2>2, <2>3
<1> HIDE DEF s, tail, rest, dropped, spoken
<1> QED BY <1>1, <1>4, <1>6, <1>9, Asked

\* A stage that has nobody left to ask is over, and nothing else changes.
LEMMA MovesOn ==
    ASSUME GameInv, UNCHANGED setup, stage \in DeathStages, NEW next,
           stage' = next, next \in {"hunter", "lastwords", "finish"},
           broadcast = None => SettledIn(game, next, offered),
           UNCHANGED <<game, scene, speech, streak, verdict, aborted, progress, history>>
    PROVE  GameInv' /\ DeadStay /\ GuardMovesOn
<1>1. /\ TypeOK /\ game \in Games /\ game.acts = {} /\ game.phase \notin {"ended", "night"}
      /\ game.day = rounds + 1 /\ rounds < MaxRounds /\ BoardFits(game, offered, potions)
      /\ pending = None
  BY InDeaths DEF DeathStages
<1>2. Goes(game, next, "loop")
  BY <1>1, StaysEffect
<1>3. RestTyped'
  <2>1. RestTyped /\ setup' = setup
    BY <1>1, TypeParts
  <2> QED BY <2>1 DEF RestTyped, speech, progress, history, MaxFailures, MaxSpeakRounds,
                      MaxRounds, Stages
<1>4. BoardFits(game, offered', potions') /\ game.day = rounds' + 1 /\ rounds' < MaxRounds
  BY <1>1 DEF history, progress
<1>5. Ready(game, next)
  <2>1. PhaseFits(game.phase, next, scene')
    BY <1>1 DEF GameInv, PhaseFits, DeathStages, NightStages
  <2>2. broadcast' = None => SettledIn(game, next, offered')
    BY DEF verdict, history
  <2>3. InTime(game, next)
    BY <1>1 DEF InTime
  <2> QED BY <1>1, <1>4, <2>1, <2>2, <2>3 DEF Ready
<1>6. GameInv'
  BY <1>2, <1>3, <1>4, <1>5, Lands DEF EndFits
<1>7. DeadStay /\ GuardMovesOn
  BY <1>1, <1>2, Quiet
<1> QED BY <1>6, <1>7

\* The queue of last words is empty.
LEMMA LastWordsDoneKeeps ==
    ASSUME GameInv, UNCHANGED setup, LastWordsDone
    PROVE  GameInv' /\ DeadStay /\ GuardMovesOn
<1> DEFINE next == IF stage = "words" THEN "hunter" ELSE "finish"
<1>1. /\ stage \in {"words", "lastwords"} /\ game.words = <<>> /\ stage' = next
      /\ UNCHANGED <<game, scene, speech, streak, verdict, aborted, progress, history>>
  BY DEF LastWordsDone
<1>2. broadcast = None => SettledIn(game, next, offered)
  BY <1>1 DEF GameInv, SettledIn
<1>3. stage \in DeathStages /\ next \in {"hunter", "lastwords", "finish"}
  BY <1>1 DEF DeathStages
<1> HIDE DEF next
<1> QED BY <1>1, <1>2, <1>3, MovesOn

\* No hunter is left to shoot.
LEMMA HunterDoneKeeps ==
    ASSUME GameInv, UNCHANGED setup, HunterDone
    PROVE  GameInv' /\ DeadStay /\ GuardMovesOn
<1>1. /\ stage = "hunter" /\ game.pendingHunter = <<>> /\ stage' = "lastwords"
      /\ UNCHANGED <<game, scene, speech, streak, verdict, aborted, progress, history>>
  BY DEF HunterDone
<1>2. broadcast = None => SettledIn(game, "lastwords", offered)
  BY <1>1 DEF GameInv, SettledIn
<1> QED BY <1>1, <1>2, MovesOn DEF DeathStages

\* Somebody alive dies outside the night, and waits for last words.
Struck(g, t, fate, shots, h) ==
    /\ h \in Games /\ h.words = Append(g.words, t) /\ h.pendingHunter = shots
    /\ h.died = [g.died EXCEPT ![t] = fate]
    /\ h.acts = g.acts /\ h.antidote = g.antidote /\ h.poison = g.poison
    /\ h.lastGuarded = g.lastGuarded /\ h.day = g.day /\ h.phase = g.phase

\* The board stays legal; everybody else's fate, too.
LEMMA StruckFits ==
    ASSUME NEW g \in Games, NEW off, NEW pot, BoardFits(g, off, pot), g.acts = {},
           NEW t \in Living(g), NEW fate \in {"exiled", "hunter_shot"}, NEW shots,
           NamesIn(shots) \subseteq NamesIn(g.pendingHunter) \cup {t},
           NEW h, Struck(g, t, fate, shots, h)
    PROVE  /\ BoardFits(h, off, pot) /\ Living(h) = Living(g) \ {t}
           /\ \A s \in Seats : g.died[s] # "alive" => h.died[s] = g.died[s]
           /\ NamesIn(h.words) = NamesIn(g.words) \cup {t}
<1>1. t \in Seats /\ g.died \in [Seats -> Fates] /\ g.words \in Seq(Seats)
      /\ g.pendingHunter \in Seq(Seats) /\ g.died[t] = "alive"
  BY DEF Living, Games
<1>2. h.died[t] = fate /\ \A s \in Seats : s # t => h.died[s] = g.died[s]
  BY <1>1 DEF Struck
<1>3. Living(h) = Living(g) \ {t}
  BY <1>1, <1>2 DEF Living
<1>4. QueueFits(g, off) /\ ShotsFit(g) /\ PotionsFit(g, pot)
  BY DEF BoardFits
<1>5. NamesIn(h.words) = NamesIn(g.words) \cup {t} /\ Distinct(h.words)
  <2>1. t \notin NamesIn(g.words) /\ Distinct(g.words)
    BY <1>4 DEF QueueFits
  <2> QED BY <1>1, <2>1, AppendNames DEF Struck
<1>6. QueueFits(h, off)
  BY <1>3, <1>4, <1>5 DEF QueueFits
<1>7. ShotsFit(h)
  <2>1. NamesIn(g.pendingHunter) \subseteq Seats
    BY <1>1 DEF NamesIn
  <2>2. \A s \in NamesIn(g.pendingHunter) : h.died[s] \notin {"alive", "poisoned"}
    BY <1>1, <1>2, <1>4, <2>1 DEF ShotsFit
  <2> QED BY <1>2, <2>2 DEF ShotsFit, Struck
<1>8. ActsFit(h)
  BY DEF Struck, ActsFit
<1>9. PotionsFit(h, pot)
  <2>1. UsedTonight(h, "save") = UsedTonight(g, "save")
        /\ UsedTonight(h, "poison") = UsedTonight(g, "poison")
    BY DEF Struck, UsedTonight
  <2> QED BY <1>4, <2>1 DEF PotionsFit, Struck
<1>10. \A s \in Seats : g.died[s] # "alive" => h.died[s] = g.died[s]
  BY <1>1, <1>2
<1> QED BY <1>3, <1>5, <1>6, <1>7, <1>8, <1>9, <1>10 DEF BoardFits

\* After a request to the hunter.
LEMMA ShotLands ==
    ASSUME GameInv, UNCHANGED setup, stage = "hunter", NEW g, Goes(g, "hunter", "finish"),
           BoardFits(g, offered, potions), g.phase = game.phase, g.day = game.day, g.acts = {},
           Seats \ Living(game) \subseteq offered \cup NamesIn(game.words)
             => Seats \ Living(g) \subseteq offered \cup NamesIn(g.words),
           streak' \in 0..MaxFailures,
           UNCHANGED <<scene, speech, aborted, progress, history>>
    PROVE  GameInv'
<1>1. /\ TypeOK /\ game \in Games /\ game.phase \notin {"ended", "night"}
      /\ game.day = rounds + 1 /\ rounds < MaxRounds
  BY InDeaths DEF DeathStages
<1>2. RestTyped'
  <2>1. RestTyped /\ setup' = setup
    BY <1>1, TypeParts
  <2>2. stage' \in Stages
    BY DEF Goes, Stops, Stays, Stages
  <2> QED BY <2>1, <2>2 DEF RestTyped, speech, progress, history, MaxFailures, MaxSpeakRounds,
                            MaxRounds
<1>3. BoardFits(g, offered', potions') /\ g.day = rounds' + 1 /\ rounds' < MaxRounds
  BY <1>1 DEF history, progress
<1>4. ASSUME Stays(g, "hunter") PROVE Ready(g, "hunter")
  <2>1. PhaseFits(g.phase, "hunter", scene')
    BY DEF GameInv
  <2>2. broadcast' = None => SettledIn(g, "hunter", offered')
    <3>1. broadcast' = broadcast /\ offered' = offered
      BY <1>4 DEF Stays, history
    <3> QED BY <3>1 DEF GameInv, SettledIn
  <2>3. InTime(g, "hunter")
    BY DEF InTime
  <2> QED BY <1>1, <1>3, <2>1, <2>2, <2>3 DEF Ready
<1>5. EndFits(g, "finish")
  BY <1>3 DEF EndFits
<1> QED BY <1>2, <1>3, <1>4, <1>5, Lands

\* A shot hits one of the living, whose words are queued; another shot may be due.
LEMMA ShotGame ==
    ASSUME NEW g \in Games, BoardFits(g, offered, potions), NEW h, NEW t \in Living(g)
    PROVE  \E shots : /\ NamesIn(shots) \subseteq NamesIn(g.pendingHunter) \cup {t}
                      /\ Struck(g, t, "hunter_shot", shots, QueueLastWords(HunterShoot(g, h, t), t))
<1> DEFINE rest == Only(g.pendingHunter, Seats \ {h})
           shots == IF RoleOf[t] = "hunter" THEN Append(rest, t) ELSE rest
           died == [g.died EXCEPT ![t] = "hunter_shot"]
           words == Append(g.words, t)
           new == QueueLastWords(HunterShoot(g, h, t), t)
<1>1. t \in Seats /\ t # None /\ g.pendingHunter \in Seq(Seats) /\ g.words \in Seq(Seats)
      /\ g.died \in [Seats -> Fates]
  BY SeatsAssumption DEF Living, Games
<1>2. rest \in Seq(Seats) /\ NamesIn(rest) \subseteq NamesIn(g.pendingHunter)
  BY <1>1, OnlyNames
<1> HIDE DEF rest
<1>3. shots \in Seq(Seats) /\ NamesIn(shots) \subseteq NamesIn(g.pendingHunter) \cup {t}
  BY <1>1, <1>2, AppendNames
<1>4. died \in [Seats -> Fates] /\ words \in Seq(Seats)
  BY <1>1 DEF Fates
<1>5. new = [g EXCEPT !.died = died, !.pendingHunter = shots, !.words = words]
  BY <1>1 DEF QueueLastWords, HunterShoot, rest, Games
<1> HIDE DEF died, shots, words, new
<1>6. new = [phase |-> g.phase, day |-> g.day, died |-> died, acts |-> g.acts,
             votes |-> g.votes, winner |-> g.winner, antidote |-> g.antidote,
             poison |-> g.poison, lastGuarded |-> g.lastGuarded,
             pendingHunter |-> shots, words |-> words, pk |-> g.pk]
  BY <1>5 DEF Games
<1>7. new \in Games
  BY <1>3, <1>4, <1>6 DEF Games
<1>8. Struck(g, t, "hunter_shot", shots, new)
  BY <1>6, <1>7 DEF Struck, died, words
<1> QED BY <1>3, <1>8 DEF new

\* The hunter shoots, declines or fails; a guard may trip.
LEMMA HunterKeeps ==
    ASSUME GameInv, UNCHANGED setup, HunterActs
    PROVE  GameInv' /\ DeadStay /\ GuardMovesOn
<1> DEFINE h == Head(game.pendingHunter)
<1>1. /\ stage = "hunter" /\ game.pendingHunter # <<>>
      /\ UNCHANGED <<scene, speech, aborted, progress, history>>
  BY DEF HunterActs
<1>2. PICK r \in Replies("hunter_shot", {h}) :
        LET t == IF r[h] \in Seats THEN r[h] ELSE None
            p == Pending({h}, Failed(r))
            g == HunterShoot(game, h, t)
        IN  /\ streak' = StreakAfter({h}, Failed(r))
            /\ IF p # None THEN Terminate(game, p) /\ stage' = "finish"
               ELSE /\ game' = IF t = None THEN g ELSE QueueLastWords(g, t)
                    /\ UNCHANGED <<stage, verdict>>
  BY DEF HunterActs
<1> DEFINE t == IF r[h] \in Seats THEN r[h] ELSE None
           p == Pending({h}, Failed(r))
           g == HunterShoot(game, h, t)
<1>3. /\ streak' = StreakAfter({h}, Failed(r))
      /\ IF p # None THEN Terminate(game, p) /\ stage' = "finish"
         ELSE /\ game' = IF t = None THEN g ELSE QueueLastWords(g, t)
              /\ UNCHANGED <<stage, verdict>>
  BY <1>2
<1>4. /\ TypeOK /\ game \in Games /\ game.acts = {} /\ game.phase \notin {"ended", "night"}
      /\ BoardFits(game, offered, potions) /\ pending = None
  BY <1>1, InDeaths DEF DeathStages
<1>5. h \in Seats
  <2>1. game.pendingHunter \in Seq(Seats)
    BY <1>4 DEF Games
  <2> QED BY <1>1, <2>1
<1>6. t = None \/ t \in Living(game)
  <2>1. r \in [{h} -> Considered("hunter_shot") \cup Unanswered("hunter_shot")]
    BY DEF Replies
  <2>2. Considered("hunter_shot") \subseteq Living(game)
    BY DEF Considered, Legal
  <2>3. Unanswered("hunter_shot") \cap Seats = {}
    BY SetupsAssumption DEF Unanswered
  <2> HIDE DEF h
  <2> QED BY <2>1, <2>2, <2>3
<1>7. IsFiniteSet(Failed(r))
  <2>1. r \in [{h} -> Considered("hunter_shot") \cup Unanswered("hunter_shot")]
    BY DEF Replies
  <2> HIDE DEF h
  <2>2. {h} \in SUBSET Seats
    BY <1>5
  <2> QED BY <2>1, <2>2, Batch
<1>8. streak' \in 0..MaxFailures /\ p \in Verdicts \cup {None}
  BY <1>3, <1>4, <1>7, StreakTyped DEF GameInv
<1> HIDE DEF h, t, p
<1>9. CASE p # None
  <2>1. End(game, CheckWinner(game), p) /\ stage' = "finish"
    BY <1>3, <1>9 DEF Terminate
  <2>2. CheckWinner(game) \in Winners
    BY WinnerByDeaths
  <2>3. Goes(game, "hunter", "finish")
    BY <1>4, <1>8, <1>9, <2>1, <2>2, EndEffect
  <2>4. GameInv'
    BY <1>1, <1>4, <1>8, <2>3, ShotLands
  <2> QED BY <1>4, <2>3, <2>4, Quiet
<1>10. CASE p = None /\ t = None
  <2> DEFINE rest == Only(game.pendingHunter, Seats \ {h})
  <2>1. game' = [game EXCEPT !.pendingHunter = rest] /\ UNCHANGED <<stage, verdict>>
    BY <1>3, <1>10 DEF HunterShoot
  <2>2. rest \in Seq(Seats) /\ NamesIn(rest) \subseteq NamesIn(game.pendingHunter)
    <3>1. game.pendingHunter \in Seq(Seats)
      BY <1>4 DEF Games
    <3> QED BY <3>1, OnlyNames
  <2> HIDE DEF rest
  <2>3. /\ game' \in Games /\ game'.pendingHunter = rest /\ game'.died = game.died
        /\ game'.words = game.words /\ game'.acts = game.acts /\ game'.antidote = game.antidote
        /\ game'.poison = game.poison /\ game'.lastGuarded = game.lastGuarded
        /\ game'.day = game.day /\ game'.phase = game.phase
    BY <1>4, <2>1, <2>2 DEF Games
  <2>4. Goes(game', "hunter", "finish")
    BY <1>1, <1>4, <2>1, <2>3, StaysEffect
  <2>5. Living(game') = Living(game)
    BY <2>3, WinnerByDeaths
  <2>6. BoardFits(game', offered, potions)
    <3>1. QueueFits(game', offered) /\ ShotsFit(game')
      BY <1>4, <2>2, <2>3, <2>5 DEF BoardFits, QueueFits, ShotsFit
    <3>2. ActsFit(game')
      BY <1>4, <2>3 DEF ActsFit
    <3>3. PotionsFit(game', potions)
      <4>1. UsedTonight(game', "save") = UsedTonight(game, "save")
            /\ UsedTonight(game', "poison") = UsedTonight(game, "poison")
        BY <2>3 DEF UsedTonight
      <4> QED BY <1>4, <2>3, <4>1 DEF PotionsFit, BoardFits
    <3> QED BY <3>1, <3>2, <3>3 DEF BoardFits
  <2>7. GameInv'
    BY <1>1, <1>4, <1>8, <2>3, <2>4, <2>5, <2>6, ShotLands
  <2> QED BY <1>4, <2>3, <2>4, <2>7, Quiet
<1>11. CASE p = None /\ t \in Living(game)
  <2> DEFINE new == QueueLastWords(HunterShoot(game, h, t), t)
  <2>1. game' = new /\ UNCHANGED <<stage, verdict>>
    <3>1. t # None
      BY <1>11, SeatsAssumption DEF Living
    <3> QED BY <1>3, <1>11, <3>1
  <2>2. PICK shots : /\ NamesIn(shots) \subseteq NamesIn(game.pendingHunter) \cup {t}
                     /\ Struck(game, t, "hunter_shot", shots, new)
    BY <1>4, <1>11, ShotGame
  <2> HIDE DEF new
  <2>3. /\ BoardFits(new, offered, potions) /\ Living(new) = Living(game) \ {t}
        /\ \A s \in Seats : game.died[s] # "alive" => new.died[s] = game.died[s]
        /\ NamesIn(new.words) = NamesIn(game.words) \cup {t}
    BY <1>4, <1>11, <2>2, StruckFits
  <2>4. Goes(new, "hunter", "finish")
    BY <1>1, <1>4, <2>1, <2>2, StaysEffect DEF Struck
  <2>5. GameInv'
    <3>1. new.phase = game.phase /\ new.day = game.day /\ new.acts = {}
      BY <1>4, <2>2 DEF Struck
    <3>2. Seats \ Living(game) \subseteq offered \cup NamesIn(game.words)
            => Seats \ Living(new) \subseteq offered \cup NamesIn(new.words)
      BY <2>3
    <3> QED BY <1>1, <1>8, <2>3, <2>4, <3>1, <3>2, ShotLands
  <2>6. DeadStay /\ GuardMovesOn
    BY <1>4, <2>1, <2>3 DEF DeadStay, GuardMovesOn
  <2> QED BY <2>5, <2>6
<1> QED BY <1>6, <1>9, <1>10, <1>11

-----------------------------------------------------------------------------
(* The day.                                                                 *)

DayStages == {"loop", "speak", "vote", "pk", "speakpk", "finish"}

\* Between a night and the next nobody is waited for, but in the settling of deaths.
LEMMA InDay ==
    ASSUME GameInv, stage \in DayStages, game.phase # "ended" \/ stage = "finish"
    PROVE  /\ TypeOK /\ game \in Games /\ RestTyped /\ game.acts = {}
           /\ game.day = rounds + 1 /\ rounds < MaxRounds
           /\ BoardFits(game, offered, potions)
           /\ stage # "speak" => pending = None
           /\ \A next : broadcast = None => SettledIn(game, next, offered)
<1>1. Past(stage) = {}
  BY DEF Past, DayStages
<1>2. game.acts = {}
  BY <1>1 DEF GameInv, InTime
<1>3. broadcast = None => /\ game.words = <<>> /\ game.pendingHunter = <<>>
                          /\ Seats \ Living(game) \subseteq offered \cup NamesIn(game.words)
  BY DEF GameInv, SettledIn, DayStages
<1>4. \A next : broadcast = None => SettledIn(game, next, offered)
  BY <1>3 DEF SettledIn
<1>5. TypeOK /\ game \in Games /\ RestTyped
  BY TypeParts DEF GameInv
<1>6. stage # "speak" => pending = None
  BY DEF GameInv, VerdictIsJust
<1>7. game.day = rounds + 1 /\ rounds < MaxRounds /\ BoardFits(game, offered, potions)
  BY DEF GameInv, Counted
<1> QED BY <1>2, <1>4, <1>5, <1>6, <1>7

\* A step that kills nobody and asks for no last words.
LEMMA DayMove ==
    ASSUME GameInv, UNCHANGED setup, stage \in DayStages,
           game.phase # "ended" \/ stage = "finish",
           NEW g, SameBut(game, g), NEW next, NEW exit \in {"loop", "over"},
           Goes(g, next, exit), RestTyped', UNCHANGED <<offered, potions>>,
           g.day = rounds' + 1, game.phase = "night" => g.phase # "day",
           Stays(g, next) =>
             /\ g.phase # "ended" /\ PhaseFits(g.phase, next, scene') /\ rounds' < MaxRounds
             /\ next = "speakpk" => pkRound' < MaxPkRounds
             /\ next = "loop" => CheckWinner(g) = None
    PROVE  GameInv' /\ DeadStay /\ GuardMovesOn
<1>1. /\ game.acts = {} /\ BoardFits(game, offered, potions)
      /\ broadcast = None => SettledIn(game, next, offered)
  BY InDay
<1>2. BoardFits(g, offered', potions')
  BY <1>1, BoardSame
<1>3. ASSUME Stays(g, next) PROVE Ready(g, next)
  <2>1. broadcast' = broadcast
    BY <1>3 DEF Stays
  <2>2. SettledIn(game, next, offered) => SettledIn(g, next, offered)
    BY DEF SettledIn, SameBut, Living
  <2>3. InTime(g, next)
    BY <1>1 DEF InTime, SameBut
  <2> QED BY <1>1, <1>3, <2>1, <2>2, <2>3 DEF Ready
<1>4. GameInv'
  BY <1>2, <1>3, Lands DEF EndFits
<1>5. DeadStay /\ GuardMovesOn
  BY Quiet DEF SameBut
<1> QED BY <1>4, <1>5

\* A game is like itself.
LEMMA SameGame == \A g : SameBut(g, g)
BY DEF SameBut

\* A night or a day begins.
LEMMA LoopKeeps ==
    ASSUME GameInv, UNCHANGED setup, Loop
    PROVE  GameInv' /\ DeadStay /\ GuardMovesOn
<1> DEFINE next == IF game.phase = "night" THEN "see" ELSE "speak"
<1>1. /\ stage = "loop" /\ game.phase # "ended" /\ stage' = next
      /\ game.phase # "night" =>
           left' = Cardinality(Living(game)) /\ talked' = FALSE /\ round' = 0 /\ pkRound' = 0
      /\ game.phase = "night" => UNCHANGED speech
      /\ UNCHANGED <<game, scene, streak, verdict, aborted, progress, history>>
  BY DEF Loop
<1>2. /\ TypeOK /\ game \in Games /\ RestTyped /\ pending = None
      /\ game.day = rounds + 1 /\ rounds < MaxRounds
  BY <1>1, InDay DEF DayStages
<1>3. Goes(game, next, "loop")
  BY <1>1, <1>2, StaysEffect
<1>4. RestTyped'
  <2>1. 0 \in 0..MaxSpeakRounds - 1 /\ 0 \in 0..MaxPkRounds
    BY SetupsAssumption DEF GameInv, MaxSpeakRounds, MaxPkRounds
  <2>2. left' \in 0..Cardinality(Seats) /\ talked' \in BOOLEAN
        /\ round' \in 0..MaxSpeakRounds - 1 /\ pkRound' \in 0..MaxPkRounds
    BY <1>1, <1>2, <2>1, LivingFinite DEF RestTyped, speech
  <2>3. stage' \in Stages
    BY <1>1 DEF Stages
  <2> QED BY <1>1, <1>2, <2>2, <2>3 DEF RestTyped, progress, history, MaxFailures,
                                        MaxSpeakRounds, MaxRounds
<1>5. PhaseFits(game.phase, next, scene') /\ next \notin {"loop", "speakpk"}
  <2>1. game.phase \in {"night", "day"}
    BY <1>1 DEF GameInv, PhaseFits
  <2> QED BY <2>1 DEF PhaseFits, NightStages
<1>6. UNCHANGED <<offered, potions, rounds>>
  BY <1>1 DEF history, progress
<1> HIDE DEF next
<1> QED BY <1>1, <1>2, <1>3, <1>4, <1>5, <1>6, SameGame, DayMove DEF DayStages

\* The analysis of a game that has ended follows, or the game ends here.
LEMMA RunEndsKeeps ==
    ASSUME GameInv, UNCHANGED setup, RunEnds
    PROVE  GameInv' /\ DeadStay /\ GuardMovesOn
<1>1. /\ stage = "loop" /\ stage' = "over"
      /\ UNCHANGED <<scene, speech, streak, aborted, progress, history>>
  BY DEF RunEnds
<1>2. RestTyped'
  <2>1. RestTyped
    BY TypeParts DEF GameInv
  <2> QED BY <1>1, <2>1 DEF RestTyped, speech, progress, history, MaxFailures, MaxSpeakRounds,
                            MaxRounds, Stages
<1>3. CASE game.phase = "ended"
  <2>1. UNCHANGED <<game, verdict>>
    BY <1>3 DEF RunEnds
  <2>2. TypeOK'
    <3>1. game \in Games /\ VerdictTyped
      BY TypeParts DEF GameInv
    <3>2. game' \in Games /\ VerdictTyped'
      BY <2>1, <3>1 DEF VerdictTyped, verdict
    <3> QED BY <1>2, <3>2, TypeParts
  <2>3. PhaseFits(game'.phase, stage', scene')
    BY <1>1, <1>3, <2>1 DEF PhaseFits, NightStages
  <2>4. Counted(game, stage, rounds)'
    BY <1>1, <1>3, <2>1 DEF GameInv, Counted, progress
  <2>5. VerdictIsJust'
    BY <1>1, <1>3, <2>1 DEF GameInv, VerdictIsJust, verdict
  <2>6. BoardFits(game', offered', potions')
    BY <1>1, <2>1 DEF GameInv, history
  <2>7. broadcast' = None => SettledIn(game', stage', offered')
    BY <1>1, <2>1 DEF GameInv, SettledIn, verdict, history
  <2>8. InTime(game', stage')
    BY <1>1, <1>3, <2>1 DEF InTime
  <2>9. GameInv'
    BY <1>1, <2>2, <2>3, <2>4, <2>5, <2>6, <2>7, <2>8 DEF GameInv
  <2> QED BY <2>1, <2>9 DEF DeadStay, GuardMovesOn
<1>4. CASE game.phase # "ended"
  <2>1. TypeOK /\ game \in Games /\ game.day = rounds + 1
    BY <1>1, <1>4, InDay DEF DayStages
  <2>2. End(game, CheckWinner(game), "aborted")
    BY <1>4 DEF RunEnds, Terminate
  <2>3. Goes(game, "see", "over")
    <3>1. CheckWinner(game) \in Winners
      BY WinnerByDeaths
    <3> QED BY <1>1, <2>1, <2>2, <3>1, EndEffect DEF Verdicts
  <2>4. ~ Stays(game, "see")
    BY <1>1 DEF Stays
  <2>5. UNCHANGED <<offered, potions, rounds>> /\ (game.phase = "night" => game.phase # "day")
    BY <1>1 DEF history, progress
  <2> QED BY <1>1, <1>2, <1>4, <2>1, <2>3, <2>4, <2>5, SameGame, DayMove DEF DayStages
<1> QED BY <1>3, <1>4

\* After a speech of the day, or the failure of one.
LEMMA SpokenKeeps ==
    ASSUME GameInv, UNCHANGED setup, stage \in {"speak", "speakpk"}, left > 0, left' = left - 1,
           Goes(game, stage, "loop"), talked' \in BOOLEAN, streak' \in 0..MaxFailures,
           UNCHANGED <<scene, round, pkRound, aborted, progress, history>>
    PROVE  GameInv' /\ DeadStay /\ GuardMovesOn
<1>1. stage \in DayStages /\ game.phase # "ended"
  BY DEF DayStages, GameInv, PhaseFits
<1>2. RestTyped /\ game.day = rounds + 1 /\ rounds < MaxRounds
  BY <1>1, InDay
<1>3. RestTyped'
  <2>1. left' \in 0..Cardinality(Seats)
    <3>1. Cardinality(Seats) \in Nat
      BY SeatsAssumption, FS_CardinalityType
    <3> QED BY <1>2, <3>1 DEF RestTyped
  <2>2. stage' \in Stages
    BY DEF Goes, Stops, Stays, Stages
  <2> QED BY <1>2, <2>1, <2>2 DEF RestTyped, progress, history, MaxFailures, MaxSpeakRounds,
                                  MaxRounds
<1>4. PhaseFits(game.phase, stage, scene') /\ (stage = "speakpk" => pkRound' < MaxPkRounds)
  BY DEF GameInv
<1>5. UNCHANGED <<offered, potions, rounds>> /\ game.phase # "night" /\ stage # "loop"
  BY DEF history, progress, GameInv, PhaseFits
<1> QED BY <1>1, <1>2, <1>3, <1>4, <1>5, SameGame, DayMove

\* Someone is asked to speak; a batch that is under way is collected to its end.
LEMMA SpeakKeeps ==
    ASSUME GameInv, UNCHANGED setup, Speak
    PROVE  GameInv' /\ DeadStay /\ GuardMovesOn
<1>1. /\ stage = "speak" /\ left > 0 /\ left' = left - 1
      /\ UNCHANGED <<scene, round, pkRound, aborted, progress, history>>
  BY DEF Speak
<1>2. TypeOK /\ game \in Games /\ talked \in BOOLEAN /\ game.phase # "ended"
  BY <1>1 DEF GameInv, TypeOK, PhaseFits
<1>3. pending # None => Batched
  BY DEF GameInv, VerdictIsJust
<1>4. Batched' = Batched
  BY <1>1 DEF Batched, BidPolicy
<1>5. 0 \in 0..MaxFailures
  BY SetupsAssumption DEF GameInv, MaxFailures
<1>6. CASE talked' \in {talked, TRUE} /\ streak' = 0 /\ UNCHANGED <<game, stage, verdict>>
  <2>1. Goes(game, stage, "loop")
    BY <1>1, <1>2, <1>3, <1>4, <1>6 DEF Goes, Stays, SameBut, VerdictTyped, verdict, TypeOK
  <2> QED BY <1>1, <1>2, <1>5, <1>6, <2>1, SpokenKeeps
<1>7. CASE /\ talked' = talked /\ streak' = StreakAfter({left}, {left})
           /\ IF Batched
                THEN /\ pending' = Pending({left}, {left})
                     /\ UNCHANGED <<game, stage, status, broadcast, wins>>
                ELSE Continue(game, Pending({left}, {left}), stage, "loop")
  <2> DEFINE p == Pending({left}, {left})
  <2>1. streak' \in 0..MaxFailures /\ p \in Verdicts \cup {None}
    <3>1. IsFiniteSet({left})
      BY FS_Singleton
    <3> QED BY <1>2, <1>7, <3>1, StreakTyped DEF GameInv
  <2>2. Goes(game, stage, "loop")
    <3>1. CASE Batched
      BY <1>1, <1>2, <1>4, <1>7, <2>1, <3>1 DEF Goes, Stays, SameBut, VerdictTyped, TypeOK
    <3>2. CASE ~ Batched
      <4>1. pending = None /\ Continue(game, p, stage, "loop")
        BY <1>3, <1>7, <3>2
      <4> HIDE DEF p
      <4> QED BY <1>2, <2>1, <4>1, ContinueEffect
    <3> QED BY <3>1, <3>2
  <2> QED BY <1>1, <1>2, <1>7, <2>1, <2>2, SpokenKeeps
<1> QED BY <1>6, <1>7 DEF Speak

\* The tied players speak in the same way.
LEMMA SpeakPkKeeps ==
    ASSUME GameInv, UNCHANGED setup, SpeakPk
    PROVE  GameInv' /\ DeadStay /\ GuardMovesOn
<1>1. /\ stage = "speakpk" /\ left > 0 /\ left' = left - 1
      /\ UNCHANGED <<scene, talked, round, pkRound, aborted, progress, history>>
  BY DEF SpeakPk
<1>2. TypeOK /\ game \in Games /\ talked \in BOOLEAN /\ pending = None
  BY <1>1 DEF GameInv, TypeOK, VerdictIsJust
<1>3. 0 \in 0..MaxFailures
  BY SetupsAssumption DEF GameInv, MaxFailures
<1>4. CASE streak' = 0 /\ UNCHANGED <<game, stage, verdict>>
  <2>1. Goes(game, stage, "loop")
    BY <1>2, <1>4, StaysEffect
  <2> QED BY <1>1, <1>2, <1>3, <1>4, <2>1, SpokenKeeps
<1>5. CASE /\ streak' = StreakAfter({left}, {left})
           /\ Continue(game, Pending({left}, {left}), stage, "loop")
  <2> DEFINE p == Pending({left}, {left})
  <2>1. streak' \in 0..MaxFailures /\ p \in Verdicts \cup {None}
    <3>1. IsFiniteSet({left})
      BY FS_Singleton
    <3> QED BY <1>2, <1>5, <3>1, StreakTyped DEF GameInv
  <2>2. Goes(game, stage, "loop")
    <3> HIDE DEF p
    <3> QED BY <1>2, <1>5, <2>1, ContinueEffect DEF p
  <2> QED BY <1>1, <1>2, <2>1, <2>2, SpokenKeeps
<1> QED BY <1>4, <1>5 DEF SpeakPk

\* A round of speeches ends: another one, or the ballots are opened.
LEMMA RoundEndsKeeps ==
    ASSUME GameInv, UNCHANGED setup, RoundEnds
    PROVE  GameInv' /\ DeadStay /\ GuardMovesOn
<1>1. stage = "speak" /\ left = 0 /\ UNCHANGED <<scene, pkRound, streak, aborted, progress, history>>
  BY DEF RoundEnds
<1>2. stage \in DayStages /\ game.phase = "day"
  BY <1>1 DEF DayStages, GameInv, PhaseFits
<1>3. TypeOK /\ game \in Games /\ RestTyped /\ game.day = rounds + 1 /\ rounds < MaxRounds
  BY <1>2, InDay
<1>4. UNCHANGED <<offered, potions, rounds>>
  BY <1>1 DEF history, progress
<1>5. MaxSpeakRounds \in Nat \ {0} /\ round \in 0..MaxSpeakRounds - 1 /\ Cardinality(Seats) \in Nat
  BY <1>3, SetupsAssumption, SeatsAssumption, FS_CardinalityType
  DEF GameInv, MaxSpeakRounds, RestTyped
<1>6. CASE /\ pending = None /\ round + 1 < MaxSpeakRounds
           /\ round' = round + 1 /\ talked' = FALSE /\ left' = Cardinality(Living(game))
           /\ UNCHANGED <<game, stage, verdict>>
  <2>1. Goes(game, "speak", "loop")
    BY <1>1, <1>3, <1>6, StaysEffect
  <2>2. round' \in 0..MaxSpeakRounds - 1 /\ left' \in 0..Cardinality(Seats)
    BY <1>5, <1>6, LivingFinite
  <2>3. RestTyped'
    BY <1>1, <1>3, <1>6, <2>2 DEF RestTyped, progress, history, MaxFailures, MaxSpeakRounds,
                                  MaxRounds
  <2>4. PhaseFits(game.phase, "speak", scene')
    BY <1>1 DEF GameInv
  <2> QED BY <1>2, <1>3, <1>4, <2>1, <2>3, <2>4, SameGame, DayMove
<1>7. CASE /\ Continue(IF pending = None THEN StartVote(game) ELSE game, pending, "vote", "loop")
           /\ left' = 0 /\ talked' = FALSE /\ round' = 0
  <2> DEFINE g == IF pending = None THEN StartVote(game) ELSE game
  <2>1. /\ g \in Games /\ SameBut(game, g) /\ g.day = game.day
        /\ pending = None => g.phase = "voting"
    <3>1. StartVote(game) = [game EXCEPT !.phase = "voting", !.votes = NoVotes]
          /\ NoVotes \in [Seats -> Seats \cup {None}]
      BY DEF StartVote, NoVotes
    <3>2. /\ StartVote(game) \in Games /\ StartVote(game).phase = "voting"
          /\ StartVote(game).day = game.day /\ SameBut(game, StartVote(game))
      BY <1>3, <3>1 DEF Games, SameBut
    <3> QED BY <1>3, <3>2, SameGame
  <2>2. pending \in Verdicts \cup {None} /\ Continue(g, pending, "vote", "loop")
    BY <1>3, <1>7 DEF TypeOK
  <2> HIDE DEF g
  <2>3. Goes(g, "vote", "loop")
    BY <1>3, <2>1, <2>2, ContinueEffect
  <2>4. RestTyped'
    <3>1. stage' \in Stages
      BY <2>3 DEF Goes, Stops, Stays, Stages
    <3>2. round' \in 0..MaxSpeakRounds - 1 /\ left' \in 0..Cardinality(Seats)
      BY <1>5, <1>7
    <3> QED BY <1>1, <1>3, <1>7, <3>1, <3>2 DEF RestTyped, progress, history, MaxFailures,
                                                MaxSpeakRounds, MaxRounds
  <2>5. ASSUME Stays(g, "vote") PROVE g.phase # "ended" /\ PhaseFits(g.phase, "vote", scene')
    <3>1. pending = None
      BY <2>2, <2>5 DEF Continue, Stays
    <3> QED BY <2>1, <3>1 DEF PhaseFits, NightStages
  <2> QED BY <1>2, <1>3, <1>4, <2>1, <2>3, <2>4, <2>5, DayMove
<1> QED BY <1>6, <1>7 DEF RoundEnds

\* A tie is talked over again, twice at most.
LEMMA OpenPkKeeps ==
    ASSUME GameInv, UNCHANGED setup, OpenPk
    PROVE  GameInv' /\ DeadStay /\ GuardMovesOn
<1> DEFINE next == IF pkRound >= MaxPkRounds THEN "finish" ELSE "speakpk"
<1>1. /\ stage = "pk"
      /\ IF pkRound >= MaxPkRounds
           THEN game' = [game EXCEPT !.pk = {}] /\ stage' = "finish" /\ left' = left
           ELSE game' = game /\ stage' = "speakpk" /\ left' = Cardinality(game.pk)
      /\ UNCHANGED <<scene, talked, round, pkRound, streak, verdict, aborted, progress, history>>
  BY DEF OpenPk
<1>2. stage \in DayStages /\ game.phase = "voting" /\ scene = "vote"
  BY <1>1 DEF DayStages, GameInv, PhaseFits
<1>3. /\ TypeOK /\ game \in Games /\ RestTyped /\ game.day = rounds + 1 /\ rounds < MaxRounds
      /\ pending = None
  BY <1>1, <1>2, InDay
<1>4. /\ game' \in Games /\ SameBut(game, game') /\ game'.day = game.day
      /\ game'.phase = game.phase /\ stage' = next
  BY <1>1, <1>3, SameGame DEF Games, SameBut
<1>5. Goes(game', next, "loop")
  BY <1>1, <1>3, <1>4, StaysEffect
<1>6. RestTyped'
  <2>1. left' \in 0..Cardinality(Seats)
    <3>1. game.pk \subseteq Seats
      BY <1>3 DEF Games
    <3>2. Cardinality(game.pk) \in 0..Cardinality(Seats)
      BY <3>1, SeatsAssumption, FS_Subset, FS_CardinalityType
    <3> QED BY <1>1, <1>3, <3>2 DEF RestTyped
  <2>2. stage' \in Stages
    BY <1>1 DEF Stages
  <2> QED BY <1>1, <1>3, <2>1, <2>2 DEF RestTyped, progress, history, MaxFailures,
                                        MaxSpeakRounds, MaxRounds
<1>7. PhaseFits(game'.phase, next, scene') /\ next # "loop"
  BY <1>1, <1>2, <1>4 DEF PhaseFits, PhaseAfter, NightStages
<1>8. UNCHANGED <<offered, potions, rounds>>
  BY <1>1 DEF history, progress
<1>9. next = "speakpk" => pkRound' < MaxPkRounds
  BY <1>1, <1>3 DEF RestTyped, MaxPkRounds
<1>a. game'.phase # "ended" /\ game.phase # "night" /\ game.phase # "ended"
  BY <1>2, <1>4
<1> HIDE DEF next
<1> QED BY <1>2, <1>3, <1>4, <1>5, <1>6, <1>7, <1>8, <1>9, <1>a, DayMove

\* The tied players have spoken, and everybody votes again.
LEMMA PkEndsKeeps ==
    ASSUME GameInv, UNCHANGED setup, PkEnds
    PROVE  GameInv' /\ DeadStay /\ GuardMovesOn
<1>1. /\ stage = "speakpk" /\ stage' = "vote" /\ pkRound' = pkRound + 1
      /\ UNCHANGED <<game, scene, left, talked, round, streak, verdict, aborted, progress, history>>
  BY DEF PkEnds
<1>2. stage \in DayStages /\ game.phase = "voting"
  BY <1>1 DEF DayStages, GameInv, PhaseFits
<1>3. /\ TypeOK /\ game \in Games /\ RestTyped /\ game.day = rounds + 1 /\ rounds < MaxRounds
      /\ pending = None
  BY <1>1, <1>2, InDay
<1>4. Goes(game, "vote", "loop")
  BY <1>1, <1>3, StaysEffect
<1>5. RestTyped'
  <2>1. pkRound' \in 0..MaxPkRounds
    BY <1>1, <1>3 DEF GameInv, RestTyped, MaxPkRounds
  <2> QED BY <1>1, <1>3, <2>1 DEF RestTyped, progress, history, MaxFailures, MaxSpeakRounds,
                                  MaxRounds, Stages
<1>6. PhaseFits(game.phase, "vote", scene')
  BY <1>2 DEF PhaseFits, NightStages
<1>7. UNCHANGED <<offered, potions, rounds>>
  BY <1>1 DEF history, progress
<1> QED BY <1>2, <1>3, <1>4, <1>5, <1>6, <1>7, SameGame, DayMove

-----------------------------------------------------------------------------
(* The vote.                                                                *)

\* Nobody has more votes than there are seats.
LEMMA VoteCounts == \A g, t : VotesFor(g, t) \in 0..Cardinality(Seats)
<1> TAKE g, t
<1> DEFINE S == {s \in Seats : g.votes[s] = t}
<1>1. S \subseteq Seats
  OBVIOUS
<1> HIDE DEF S
<1>2. Cardinality(S) \in Nat /\ Cardinality(S) <= Cardinality(Seats) /\ Cardinality(Seats) \in Nat
  BY <1>1, SeatsAssumption, FS_Subset, FS_CardinalityType
<1>3. Cardinality(S) \in 0..Cardinality(Seats)
  BY <1>2
<1> QED BY <1>3 DEF VotesFor, S

\* Who has a vote has been named by somebody.
LEMMA VotedFor ==
    ASSUME NEW g, NEW t
    PROVE  VotesFor(g, t) > 0 <=> \E s \in Seats : g.votes[s] = t
<1> DEFINE S == {s \in Seats : g.votes[s] = t}
<1>1. S \subseteq Seats
  OBVIOUS
<1>2. S # {} <=> \E s \in Seats : g.votes[s] = t
  OBVIOUS
<1>3. VotesFor(g, t) = Cardinality(S)
  BY DEF VotesFor
<1> HIDE DEF S
<1>4. IsFiniteSet(S) /\ Cardinality(S) \in Nat
  BY <1>1, SeatsAssumption, FS_Subset, FS_CardinalityType
<1>5. Cardinality(S) = 0 <=> S = {}
  BY <1>4, FS_EmptySet
<1> QED BY <1>2, <1>3, <1>4, <1>5

\* The top count is somebody's, and nobody has more.
LEMMA TopIsTop ==
    ASSUME NEW g
    PROVE  /\ \E t \in Seats : VotesFor(g, t) = TopCount(g)
           /\ \A t \in Seats : VotesFor(g, t) <= TopCount(g)
<1> DEFINE counts == {VotesFor(g, t) : t \in Seats}
<1>1. Seats # {}
  BY SeatsAssumption, FS_EmptySet
<1>2. counts \in SUBSET Nat /\ counts # {} /\ Cardinality(Seats) \in Nat
      /\ \A n \in counts : n <= Cardinality(Seats)
  <2>1. \A t \in Seats : VotesFor(g, t) \in 0..Cardinality(Seats)
    BY VoteCounts
  <2>2. Cardinality(Seats) \in Nat
    BY SeatsAssumption, FS_CardinalityType
  <2> QED BY <1>1, <2>1, <2>2
<1>3. TopCount(g) = CHOOSE n \in counts : \A m \in counts : m <= n
  BY DEF TopCount
<1>4. \A t \in Seats : VotesFor(g, t) \in counts
  OBVIOUS
<1>5. \A n \in counts : \E t \in Seats : VotesFor(g, t) = n
  OBVIOUS
<1> HIDE DEF counts
<1>6. \E n \in counts : \A m \in counts : m <= n
  BY <1>2, Greatest
<1>7. TopCount(g) \in counts /\ \A m \in counts : m <= TopCount(g)
  BY <1>3, <1>6
<1> QED BY <1>4, <1>5, <1>7

\* The leaders of a vote have been voted for.
LEMMA LeadersFit ==
    ASSUME NEW g \in Games, Voters(g) # {}
    PROVE  /\ Leaders(g) \subseteq Seats
           /\ Leaders(g) = {t \in Seats : VotesFor(g, t) = TopCount(g)}
           /\ \A t \in Leaders(g) : \E s \in Seats : g.votes[s] = t
<1>1. Leaders(g) = {t \in Seats : VotesFor(g, t) = TopCount(g)}
  BY DEF Leaders
<1>2. PICK s \in Seats : g.votes[s] # None
  BY DEF Voters
<1>3. g.votes[s] \in Seats
  BY <1>2 DEF Games
<1>4. VotesFor(g, g.votes[s]) > 0
  BY VotedFor
<1>5. TopCount(g) \in Nat /\ VotesFor(g, g.votes[s]) \in Nat
      /\ VotesFor(g, g.votes[s]) <= TopCount(g)
  <2>1. \A t : VotesFor(g, t) \in Nat
    BY VoteCounts, SeatsAssumption, FS_CardinalityType
  <2> QED BY <1>3, <2>1, TopIsTop
<1>6. TopCount(g) > 0
  BY <1>4, <1>5
<1>7. \A t \in Leaders(g) : \E u \in Seats : g.votes[u] = t
  <2> TAKE t \in Leaders(g)
  <2>1. VotesFor(g, t) > 0
    BY <1>1, <1>6
  <2> QED BY <2>1, VotedFor
<1> QED BY <1>1, <1>7

\* A vote exiles the only leader if it is decided, and otherwise opens a PK or nothing.
LEMMA ResolveParts ==
    ASSUME NEW g \in Games, NEW h, h = ResolveVote(g)
    PROVE  \/ /\ Undecided(g) \/ \A x : Leaders(g) # {x}
              /\ h \in Games /\ SameBut(g, h) /\ h.day = g.day /\ h.phase = g.phase
           \/ /\ ~ Undecided(g) /\ h.pk = {}
              /\ \E x \in Seats : \E shots :
                   /\ Leaders(g) = {x} /\ NamesIn(shots) \subseteq NamesIn(g.pendingHunter) \cup {x}
                   /\ Struck(g, x, "exiled", shots, h)
<1> DEFINE done == [g EXCEPT !.votes = NoVotes, !.pk = {}]
           leaders == Leaders(g)
<1>1. NoVotes \in [Seats -> Seats \cup {None}]
  BY DEF NoVotes
<1>2. /\ done \in Games /\ SameBut(g, done) /\ done.day = g.day /\ done.phase = g.phase
      /\ done.pk = {}
  BY <1>1 DEF Games, SameBut
<1>3. CASE Undecided(g)
  <2>1. h = done
    BY <1>3 DEF ResolveVote
  <2> QED BY <1>2, <1>3, <2>1
<1>4. ASSUME ~ Undecided(g) PROVE leaders \subseteq Seats /\ IsFiniteSet(leaders)
  <2>1. Voters(g) # {}
    BY <1>4 DEF Undecided
  <2>2. leaders \subseteq Seats
    BY <2>1, LeadersFit
  <2> QED BY <2>2, SeatsAssumption, FS_Subset
<1>5. CASE ~ Undecided(g) /\ Cardinality(leaders) # 1
  <2>1. \A x : leaders # {x}
    BY <1>5, FS_Singleton
  <2>2. h = IF g.pk # leaders THEN [done EXCEPT !.pk = leaders] ELSE done
    BY <1>5 DEF ResolveVote
  <2>3. [done EXCEPT !.pk = leaders] = [g EXCEPT !.votes = NoVotes, !.pk = leaders]
    BY DEF Games
  <2> HIDE DEF leaders, done
  <2>4. leaders \subseteq Seats
    BY <1>4, <1>5
  <2>5. CASE h = [g EXCEPT !.votes = NoVotes, !.pk = leaders]
    <3>1. h \in Games /\ SameBut(g, h) /\ h.day = g.day /\ h.phase = g.phase
      BY <1>1, <2>4, <2>5 DEF Games, SameBut
    <3> QED BY <2>1, <3>1 DEF leaders
  <2>6. CASE h = done
    BY <1>2, <2>1, <2>6 DEF leaders
  <2> QED BY <2>2, <2>3, <2>5, <2>6
<1>6. CASE ~ Undecided(g) /\ Cardinality(leaders) = 1
  <2>1. PICK x : leaders = {x}
    BY <1>4, <1>6, FS_Singleton
  <2> DEFINE out == CHOOSE t \in leaders : TRUE
  <2>2. x \in Seats /\ out = x
    BY <1>4, <1>6, <2>1
  <2> DEFINE shots == IF RoleOf[x] = "hunter" THEN Append(g.pendingHunter, x)
                      ELSE g.pendingHunter
             died == [g.died EXCEPT ![x] = "exiled"]
             words == Append(g.words, x)
  <2>3. h = [QueueLastWords(done, x) EXCEPT
                !.died[x] = "exiled",
                !.pendingHunter = IF RoleOf[x] = "hunter" THEN Append(@, x) ELSE @]
    <3>1. h = [QueueLastWords(done, out) EXCEPT
                 !.died[out] = "exiled",
                 !.pendingHunter = IF RoleOf[out] = "hunter" THEN Append(@, out) ELSE @]
      BY <1>6 DEF ResolveVote
    <3> HIDE DEF out, done
    <3> QED BY <2>2, <3>1
  <2>4. /\ g.pendingHunter \in Seq(Seats) /\ g.words \in Seq(Seats)
        /\ g.died \in [Seats -> Fates]
    BY DEF Games
  <2>5. died \in [Seats -> Fates] /\ words \in Seq(Seats)
    BY <2>2, <2>4 DEF Fates
  <2>6. shots \in Seq(Seats) /\ NamesIn(shots) \subseteq NamesIn(g.pendingHunter) \cup {x}
    BY <2>2, <2>4, AppendNames
  <2>7. h = [g EXCEPT !.votes = NoVotes, !.pk = {}, !.words = words, !.died = died,
                      !.pendingHunter = shots]
    BY <2>3 DEF QueueLastWords, Games
  <2> HIDE DEF shots, died, words, leaders, done
  <2>8. h = [phase |-> g.phase, day |-> g.day, died |-> died, acts |-> g.acts,
             votes |-> NoVotes, winner |-> g.winner, antidote |-> g.antidote,
             poison |-> g.poison, lastGuarded |-> g.lastGuarded,
             pendingHunter |-> shots, words |-> words, pk |-> {}]
    BY <2>7 DEF Games
  <2>9. h \in Games /\ h.pk = {}
    BY <1>1, <2>5, <2>6, <2>8 DEF Games
  <2>10. Struck(g, x, "exiled", shots, h)
    BY <2>8, <2>9 DEF Struck, died, words
  <2> QED BY <1>6, <2>1, <2>2, <2>6, <2>9, <2>10 DEF leaders
<1> QED BY <1>3, <1>5, <1>6

\* The votes of a round, and what they decide.
LEMMA VotesKeep ==
    ASSUME GameInv, UNCHANGED setup, CollectVotes
    PROVE  GameInv' /\ DeadStay /\ GuardMovesOn
<1> DEFINE asked == Living(game)
           Cast(r) == [s \in Seats |->
                         IF s \notin asked \ Failed(r) THEN None
                         ELSE IF VoteAccepted(game, s, r[s]) THEN r[s] ELSE None]
<1>1. /\ stage = "vote" /\ scene' = "vote"
      /\ UNCHANGED <<speech, aborted, noProgress, rounds, roundStart, history>>
  BY DEF CollectVotes
<1>2. PICK r \in Replies("vote", asked) :
        \E cast \in {[game EXCEPT !.votes = Cast(r)]}, p \in {Pending(asked, Failed(r))} :
        \E g \in {IF p = None THEN ResolveVote(cast) ELSE cast} :
          /\ streak' = StreakAfter(asked, Failed(r))
          /\ validVote' = (validVote \/ Voters(cast) # {})
          /\ Continue(g, p, IF g.pk # {} THEN "pk" ELSE "words", "loop")
  BY DEF CollectVotes
<1> DEFINE votes == Cast(r)
           cast == [game EXCEPT !.votes = votes]
           p == Pending(asked, Failed(r))
           g == IF p = None THEN ResolveVote(cast) ELSE cast
           next == IF g.pk # {} THEN "pk" ELSE "words"
<1>3. /\ streak' = StreakAfter(asked, Failed(r))
      /\ validVote' = (validVote \/ Voters(cast) # {})
      /\ Continue(g, p, next, "loop")
  BY <1>2
<1>4. stage \in DayStages /\ game.phase = "voting"
  BY <1>1 DEF DayStages, GameInv, PhaseFits
<1>5. /\ TypeOK /\ game \in Games /\ RestTyped /\ game.acts = {} /\ game.day = rounds + 1
      /\ rounds < MaxRounds /\ pending = None /\ BoardFits(game, offered, potions)
      /\ broadcast = None => SettledIn(game, "words", offered) /\ SettledIn(game, "pk", offered)
  BY <1>1, <1>4, InDay
<1>6. votes \in [Seats -> Seats \cup {None}] /\ \A s \in Seats : votes[s] # None => votes[s] \in asked
  <2>1. \A s, t : VoteAccepted(game, s, t) => t \in asked
    BY DEF VoteAccepted
  <2>2. asked \subseteq Seats
    BY DEF Living
  <2> HIDE DEF asked
  <2> QED BY <2>1, <2>2
<1>7. IsFiniteSet(Failed(r))
  <2>1. r \in [asked -> Considered("vote") \cup Unanswered("vote")] /\ asked \in SUBSET Seats
    BY DEF Replies, Living
  <2> HIDE DEF asked
  <2> QED BY <2>1, Batch
<1>8. streak' \in 0..MaxFailures /\ p \in Verdicts \cup {None}
  BY <1>3, <1>5, <1>7, StreakTyped DEF GameInv
<1> HIDE DEF votes, p
<1>9. cast \in Games /\ SameBut(game, cast) /\ cast.day = game.day /\ cast.phase = game.phase
      /\ cast.votes = votes
  BY <1>5, <1>6 DEF Games, SameBut
<1>10. BoardFits(cast, offered, potions) /\ Living(cast) = Living(game) /\ cast.acts = {}
  <2>1. BoardFits(cast, offered, potions)
    BY <1>5, <1>9, BoardSame
  <2>2. Living(cast) = Living(game) /\ cast.acts = {}
    BY <1>5, <1>9, WinnerByDeaths DEF SameBut
  <2> QED BY <2>1, <2>2
<1> HIDE DEF cast
<1>11. \/ g \in Games /\ SameBut(game, g) /\ g.day = game.day /\ g.phase = game.phase
       \/ /\ g.pk = {}
          /\ \E x \in Living(cast) : \E shots :
               /\ NamesIn(shots) \subseteq NamesIn(cast.pendingHunter) \cup {x}
               /\ Struck(cast, x, "exiled", shots, g)
  <2>1. CASE p # None
    BY <1>9, <2>1
  <2>2. CASE p = None
    <3>1. g = ResolveVote(cast)
      BY <2>2
    <3> HIDE DEF g
    <3>2. CASE /\ g \in Games /\ SameBut(cast, g) /\ g.day = cast.day /\ g.phase = cast.phase
      BY <1>9, <3>2 DEF SameBut
    <3>3. ASSUME NEW x \in Seats, NEW shots, ~ Undecided(cast), Leaders(cast) = {x}
          PROVE  x \in Living(cast)
      <4>1. Voters(cast) # {}
        BY <3>3 DEF Undecided
      <4>2. \E s \in Seats : cast.votes[s] = x
        BY <1>9, <3>3, <4>1, LeadersFit
      <4>3. x # None
        BY SeatsAssumption
      <4> QED BY <1>6, <1>9, <1>10, <4>2, <4>3
    <3> QED BY <1>9, <3>1, <3>2, <3>3, ResolveParts
  <2> QED BY <2>1, <2>2
<1> HIDE DEF g
<1>12. /\ g \in Games /\ BoardFits(g, offered, potions) /\ g.day = game.day /\ g.acts = {}
       /\ g.phase = "voting"
       /\ \A s \in Seats : game.died[s] # "alive" => g.died[s] = game.died[s]
       /\ broadcast = None => SettledIn(g, next, offered)
  <2>1. CASE g \in Games /\ SameBut(game, g) /\ g.day = game.day /\ g.phase = game.phase
    <3>1. BoardFits(g, offered, potions)
      BY <1>5, <2>1, BoardSame
    <3>2. broadcast = None => SettledIn(g, next, offered)
      BY <1>5, <2>1 DEF SettledIn, SameBut, Living
    <3> QED BY <1>4, <1>5, <2>1, <3>1, <3>2 DEF SameBut
  <2>2. ASSUME g.pk = {}, NEW x \in Living(cast), NEW shots,
               NamesIn(shots) \subseteq NamesIn(cast.pendingHunter) \cup {x},
               Struck(cast, x, "exiled", shots, g)
        PROVE  /\ g \in Games /\ BoardFits(g, offered, potions) /\ g.day = game.day /\ g.acts = {}
               /\ g.phase = "voting"
               /\ \A s \in Seats : game.died[s] # "alive" => g.died[s] = game.died[s]
               /\ broadcast = None => SettledIn(g, next, offered)
    <3>1. /\ BoardFits(g, offered, potions) /\ Living(g) = Living(cast) \ {x}
          /\ \A s \in Seats : cast.died[s] # "alive" => g.died[s] = cast.died[s]
          /\ NamesIn(g.words) = NamesIn(cast.words) \cup {x}
      BY <1>9, <1>10, <2>2, StruckFits
    <3>2. cast.died = game.died /\ cast.words = game.words
      BY <1>9 DEF SameBut
    <3>3. broadcast = None => SettledIn(g, "words", offered)
      BY <1>5, <1>10, <3>1, <3>2 DEF SettledIn
    <3>4. next = "words"
      BY <2>2
    <3> QED BY <1>4, <1>9, <1>10, <2>2, <3>1, <3>2, <3>3, <3>4 DEF Struck
  <2> QED BY <1>11, <2>1, <2>2
<1>13. next \in {"pk", "words"}
  OBVIOUS
<1> HIDE DEF next
<1>14. Goes(g, next, "loop")
  BY <1>3, <1>5, <1>8, <1>12, ContinueEffect
<1>15. RestTyped'
  <2>1. stage' \in Stages
    BY <1>13, <1>14 DEF Goes, Stops, Stays, Stages
  <2>2. validVote' \in BOOLEAN
    BY <1>3
  <2> QED BY <1>1, <1>5, <1>8, <2>1, <2>2 DEF RestTyped, speech, history, MaxFailures,
                                              MaxSpeakRounds, MaxRounds
<1>16. BoardFits(g, offered', potions') /\ g.day = rounds' + 1 /\ rounds' < MaxRounds
  BY <1>1, <1>5, <1>12 DEF history
<1>17. ASSUME Stays(g, next) PROVE Ready(g, next)
  <2>1. PhaseFits(g.phase, next, scene')
    BY <1>1, <1>12, <1>13 DEF PhaseFits, PhaseAfter, NightStages
  <2>2. broadcast' = None => SettledIn(g, next, offered')
    BY <1>1, <1>12, <1>17 DEF Stays, history
  <2>3. InTime(g, next)
    BY <1>12 DEF InTime
  <2> QED BY <1>12, <1>13, <1>16, <2>1, <2>2, <2>3 DEF Ready
<1>18. GameInv'
  BY <1>14, <1>15, <1>16, <1>17, Lands DEF EndFits
<1>19. DeadStay
  BY <1>12, <1>14 DEF Goes, SameBut, DeadStay
<1>20. GuardMovesOn
  BY <1>4 DEF GuardMovesOn
<1> QED BY <1>18, <1>19, <1>20

-----------------------------------------------------------------------------
(* The end of a night and of a round.                                       *)

\* The side that has won ends the game; otherwise day or the next night follows.
LEMMA FinishKeeps ==
    ASSUME GameInv, UNCHANGED setup, Finish
    PROVE  GameInv' /\ DeadStay /\ GuardMovesOn
<1> DEFINE g == Advanced
           w == CheckWinner(game)
<1>1. /\ stage = "finish" /\ UNCHANGED <<scene, speech, streak, aborted, history>>
      /\ IF w # None
           THEN End(game, w, None) /\ stage' = "loop" /\ UNCHANGED progress
         ELSE IF scene = "night"
           THEN Continue(g, None, "loop", "loop") /\ UNCHANGED progress
         ELSE CompleteRound(g)
  BY DEF Finish
<1>2. stage \in DayStages
  BY <1>1 DEF DayStages
<1>3. /\ TypeOK /\ game \in Games /\ RestTyped /\ game.day = rounds + 1 /\ rounds < MaxRounds
      /\ pending = None
  BY <1>1, <1>2, InDay
<1>4. game.phase # "night"
  BY <1>1 DEF GameInv, PhaseFits, PhaseAfter
<1>5. UNCHANGED <<offered, potions>>
  BY <1>1 DEF history
<1>6. ASSUME rounds' \in 0..MaxRounds, stage' = "loop", noProgress' \in Nat,
             roundStart' \subseteq Seats, validVote' \in BOOLEAN
      PROVE  RestTyped'
  BY <1>1, <1>3, <1>6 DEF RestTyped, speech, history, MaxFailures, MaxSpeakRounds, MaxRounds,
                          Stages
<1>7. ASSUME UNCHANGED progress, stage' = "loop" PROVE RestTyped' /\ rounds' = rounds
  <2>1. /\ rounds' \in 0..MaxRounds /\ noProgress' \in Nat /\ roundStart' \subseteq Seats
        /\ validVote' \in BOOLEAN /\ rounds' = rounds
    BY <1>3, <1>7 DEF RestTyped, progress
  <2> QED BY <1>6, <1>7, <2>1
<1>8. CASE w # None
  <2>1. w \in Winners
    BY WinnerByDeaths
  <2>2. Goes(game, "see", "loop")
    BY <1>1, <1>3, <1>8, <2>1, EndEffect
  <2>3. ~ Stays(game, "see")
    BY <1>1, <1>8 DEF Stays
  <2> QED BY <1>1, <1>2, <1>3, <1>4, <1>5, <1>7, <1>8, <2>2, <2>3, SameGame, DayMove
<1>9. /\ g \in Games /\ SameBut(game, g)
      /\ scene = "night" => g.phase = "day" /\ g.day = game.day
      /\ scene # "night" => g.phase = "night" /\ g.day = game.day + 1
  <2> DEFINE phase == IF scene = "night" THEN "day" ELSE "night"
             day == IF scene = "night" THEN game.day ELSE game.day + 1
  <2>1. NoVotes \in [Seats -> Seats \cup {None}] /\ day \in Nat /\ phase \in {"night", "day"}
    BY <1>3 DEF NoVotes, Games
  <2>2. g = [game EXCEPT !.phase = phase, !.day = day, !.votes = NoVotes]
    BY DEF Advanced
  <2> HIDE DEF phase, day, g
  <2>3. g \in Games /\ SameBut(game, g) /\ g.phase = phase /\ g.day = day
    BY <1>3, <2>1, <2>2 DEF Games, SameBut
  <2> QED BY <2>3 DEF phase, day
<1> HIDE DEF g
<1>10. CheckWinner(g) = w
  BY <1>9, WinnerByDeaths DEF SameBut
<1>11. CASE w = None /\ scene = "night"
  <2>1. Continue(g, None, "loop", "loop") /\ UNCHANGED progress
    BY <1>1, <1>11
  <2>2. Goes(g, "loop", "loop")
    BY <1>3, <1>9, <2>1, ContinueEffect
  <2>3. stage' = "loop"
    BY <2>2 DEF Goes, Stops, Stays
  <2>4. PhaseFits(g.phase, "loop", scene') /\ g.phase # "ended"
    BY <1>9, <1>11 DEF PhaseFits, NightStages
  <2> QED BY <1>1, <1>2, <1>3, <1>4, <1>5, <1>7, <1>9, <1>10, <1>11, <2>1, <2>2, <2>3, <2>4,
             DayMove
<1>12. CASE w = None /\ scene # "night"
  <2> DEFINE progressed == Living(g) # roundStart \/ validVote
             idle == IF progressed THEN 0 ELSE noProgress + 1
             p == IF pending # None THEN pending
                  ELSE IF ~progressed /\ idle >= MaxNoProgress
                    THEN "consecutive_no_progress_rounds"
                  ELSE IF rounds + 1 >= MaxRounds THEN "max_game_rounds"
                  ELSE None
  <2>1. /\ noProgress' = idle /\ rounds' = rounds + 1 /\ Continue(g, p, "loop", "loop")
        /\ IF p # None THEN UNCHANGED <<roundStart, validVote>>
           ELSE roundStart' = Living(g) /\ validVote' = FALSE
    BY <1>1, <1>12 DEF CompleteRound
  <2>2. p \in Verdicts \cup {None} /\ (p = None => rounds + 1 < MaxRounds) /\ idle \in Nat
    <3>1. MaxRounds \in Nat /\ rounds \in Nat /\ noProgress \in Nat
      BY <1>3, SetupsAssumption DEF GameInv, MaxRounds, RestTyped
    <3>2. idle \in Nat
      BY <3>1
    <3> HIDE DEF idle, progressed
    <3>3. p = None => rounds + 1 < MaxRounds
      <4>1. "max_game_rounds" # None /\ "consecutive_no_progress_rounds" # None
        BY NoneAssumption DEF Verdicts
      <4> QED BY <1>3, <3>1, <4>1
    <3>4. p \in {pending, "consecutive_no_progress_rounds", "max_game_rounds", None}
      OBVIOUS
    <3> QED BY <1>3, <3>2, <3>3, <3>4 DEF Verdicts
  <2> HIDE DEF idle, p
  <2>3. stage' = "loop"
    BY <2>1 DEF Continue
  <2>4. RestTyped'
    <3>1. rounds' \in 0..MaxRounds
      BY <1>3, <2>1, SetupsAssumption DEF GameInv, MaxRounds, RestTyped
    <3>2. roundStart' \subseteq Seats /\ validVote' \in BOOLEAN
      BY <1>3, <2>1 DEF RestTyped, Living
    <3> QED BY <1>6, <2>1, <2>2, <2>3, <3>1, <3>2
  <2>5. g.day = rounds' + 1 /\ g.phase = "night"
    BY <1>3, <1>9, <1>12, <2>1
  <2>6. CASE p # None
    <3>1. End(g, CheckWinner(g), p) /\ CheckWinner(g) \in Winners
      BY <2>1, <2>6, WinnerByDeaths DEF Continue, Terminate
    <3>2. Goes(g, "see", "loop")
      BY <1>3, <1>9, <2>2, <2>3, <2>6, <3>1, EndEffect
    <3>3. ~ Stays(g, "see")
      BY <2>3 DEF Stays
    <3> QED BY <1>1, <1>2, <1>4, <1>5, <1>9, <2>4, <2>5, <3>2, <3>3, DayMove
  <2>7. CASE p = None
    <3>1. Goes(g, "loop", "loop")
      BY <1>3, <1>9, <2>1, <2>7, ContinueEffect
    <3>2. PhaseFits(g.phase, "loop", scene') /\ rounds' < MaxRounds
      BY <2>1, <2>2, <2>5, <2>7 DEF PhaseFits, NightStages
    <3> QED BY <1>1, <1>2, <1>4, <1>5, <1>9, <1>10, <1>12, <2>4, <2>5, <3>1, <3>2, DayMove
  <2> QED BY <2>6, <2>7
<1> QED BY <1>8, <1>11, <1>12

\* The manager may set the flag at any time; nothing else changes then.
LEMMA AbortKeeps ==
    ASSUME GameInv, UNCHANGED setup, Abort
    PROVE  GameInv' /\ DeadStay /\ GuardMovesOn
<1>1. /\ aborted' = TRUE
      /\ UNCHANGED <<game, stage, scene, speech, streak, verdict, progress, history>>
  BY DEF Abort
<1>2. TypeOK'
  BY <1>1 DEF GameInv, TypeOK, speech, verdict, progress, history, MaxFailures, MaxSpeakRounds,
              MaxRounds
<1>3. VerdictIsJust'
  BY <1>1 DEF GameInv, VerdictIsJust, speech, verdict, Batched, BidPolicy
<1>4. Counted(game, stage, rounds)'
  BY <1>1 DEF GameInv, Counted, progress, MaxRounds
<1>5. BoardFits(game', offered', potions') /\ PhaseFits(game'.phase, stage', scene')
  BY <1>1 DEF GameInv, history
<1>6. (broadcast' = None => SettledIn(game', stage', offered')) /\ InTime(game', stage')
  BY <1>1 DEF GameInv, history, verdict
<1>7. stage' = "speakpk" => pkRound' < MaxPkRounds
  BY <1>1 DEF GameInv, speech
<1>8. GameInv'
  BY <1>2, <1>3, <1>4, <1>5, <1>6, <1>7 DEF GameInv
<1> QED BY <1>1, <1>8 DEF DeadStay, GuardMovesOn

-----------------------------------------------------------------------------
(* Every game is a correct one.                                             *)

\* A new game is a game.
LEMMA NewGameTyped == NewGame \in Games
<1>1. <<>> \in Seq(Seats) /\ {} \in SUBSET NightActions /\ {} \in SUBSET Seats
  OBVIOUS
<1>2. NoVotes \in [Seats -> Seats \cup {None}]
  BY DEF NoVotes
<1>3. [s \in Seats |-> "alive"] \in [Seats -> Fates]
  BY DEF Fates
<1> QED BY <1>1, <1>2, <1>3 DEF NewGame, Games

\* The first night opens whatever was dealt.
LEMMA GameInit == Init => GameInv
<1> SUFFICES ASSUME Init PROVE GameInv
  OBVIOUS
<1>1. NewGame \in Games
  BY NewGameTyped
<1>2. /\ NewGame.phase = "night" /\ NewGame.day = 1 /\ NewGame.acts = {} /\ NewGame.words = <<>>
      /\ NewGame.pendingHunter = <<>> /\ NewGame.antidote = TRUE /\ NewGame.poison = TRUE
      /\ Living(NewGame) = Seats
  BY DEF NewGame, Living
<1>3. NamesIn(<<>>) = {} /\ Distinct(<<>>)
  BY DEF NamesIn, Distinct
<1>4. TypeOK
  <2>1. Cardinality(Seats) \in Nat
    BY SeatsAssumption, FS_CardinalityType
  <2>2. {MaxFailures, MaxRounds, MaxSpeakRounds} \subseteq Nat \ {0}
    BY SetupsAssumption DEF Init, MaxFailures, MaxRounds, MaxSpeakRounds
  <2>3. MaxFailures \in Nat /\ MaxRounds \in Nat /\ MaxSpeakRounds \in Nat \ {0}
    BY <2>2
  <2>4. 0 \in 0..Cardinality(Seats) /\ 0 \in 0..MaxSpeakRounds - 1 /\ 0 \in 0..MaxPkRounds
        /\ 0 \in 0..MaxFailures /\ 0 \in 0..MaxRounds
    BY <2>1, <2>3 DEF MaxPkRounds
  <2>5. [save |-> 0, poison |-> 0] \in [save : Nat, poison : Nat]
    OBVIOUS
  <2> QED BY <1>1, <2>4, <2>5 DEF Init, TypeOK, Stages
<1>5. Counted(game, stage, rounds)
  <2>1. MaxRounds \in Nat \ {0}
    BY SetupsAssumption DEF Init, MaxRounds
  <2> QED BY <1>2, <2>1 DEF Init, Counted
<1>6. PhaseFits(game.phase, stage, scene)
  BY <1>2 DEF Init, PhaseFits, NightStages
<1>7. VerdictIsJust
  BY <1>2 DEF Init, VerdictIsJust
<1>8. BoardFits(game, offered, potions)
  <2>1. QueueFits(game, offered) /\ ShotsFit(game) /\ ActsFit(game)
    BY <1>2, <1>3 DEF Init, QueueFits, ShotsFit, ActsFit
  <2>2. PotionsFit(game, potions)
    BY <1>2 DEF Init, PotionsFit, PotionFits, UsedTonight
  <2> QED BY <2>1, <2>2 DEF BoardFits
<1>9. SettledIn(game, stage, offered) /\ InTime(game, stage)
  BY <1>2 DEF Init, SettledIn, InTime
<1> QED BY <1>4, <1>5, <1>6, <1>7, <1>8, <1>9 DEF GameInv, Init

\* Every step keeps the invariant, the fate of the dead, and the guard moving.
LEMMA GameStep ==
    ASSUME GameInv, Next
    PROVE  GameInv' /\ DeadStay /\ GuardMovesOn
<1>1. UNCHANGED setup
  BY DEF Next
<1>2. CASE Loop BY <1>1, <1>2, LoopKeeps
<1>3. CASE RunEnds BY <1>1, <1>3, RunEndsKeeps
<1>4. CASE NightRoleActs BY <1>1, <1>4, NightRoleKeeps
<1>5. CASE WolvesConfer BY <1>1, <1>5, ConferKeeps
<1>6. CASE WolvesKill BY <1>1, <1>6, KillKeeps
<1>7. CASE WitchSaves BY <1>1, <1>7, WitchKeeps
<1>8. CASE WitchPoisons BY <1>1, <1>8, WitchKeeps
<1>9. CASE Dawn BY <1>1, <1>9, DawnKeeps
<1>10. CASE LastWords BY <1>1, <1>10, LastWordsKeeps
<1>11. CASE LastWordsDone BY <1>1, <1>11, LastWordsDoneKeeps
<1>12. CASE HunterActs BY <1>1, <1>12, HunterKeeps
<1>13. CASE HunterDone BY <1>1, <1>13, HunterDoneKeeps
<1>14. CASE Speak BY <1>1, <1>14, SpeakKeeps
<1>15. CASE RoundEnds BY <1>1, <1>15, RoundEndsKeeps
<1>16. CASE CollectVotes BY <1>1, <1>16, VotesKeep
<1>17. CASE OpenPk BY <1>1, <1>17, OpenPkKeeps
<1>18. CASE SpeakPk BY <1>1, <1>18, SpeakPkKeeps
<1>19. CASE PkEnds BY <1>1, <1>19, PkEndsKeeps
<1>20. CASE Finish BY <1>1, <1>20, FinishKeeps
<1>21. CASE Abort BY <1>1, <1>21, AbortKeeps
<1> QED BY <1>2, <1>3, <1>4, <1>5, <1>6, <1>7, <1>8, <1>9, <1>10, <1>11, <1>12, <1>13, <1>14,
           <1>15, <1>16, <1>17, <1>18, <1>19, <1>20, <1>21 DEF Next, Plays

\* A step that changes nothing keeps the invariant.
LEMMA GameStutter == ASSUME GameInv, UNCHANGED vars PROVE GameInv'
<1>1. UNCHANGED <<setup, game, stage, scene, speech, streak, verdict, aborted, progress, history>>
  BY DEF vars
<1>2. TypeOK'
  BY <1>1 DEF GameInv, TypeOK, speech, verdict, progress, history, MaxFailures, MaxSpeakRounds,
              MaxRounds
<1>3. VerdictIsJust'
  BY <1>1 DEF GameInv, VerdictIsJust, speech, verdict, Batched, BidPolicy
<1>4. Counted(game, stage, rounds)'
  BY <1>1 DEF GameInv, Counted, progress, MaxRounds
<1>5. BoardFits(game', offered', potions') /\ PhaseFits(game'.phase, stage', scene')
  BY <1>1 DEF GameInv, history
<1>6. (broadcast' = None => SettledIn(game', stage', offered')) /\ InTime(game', stage')
  BY <1>1 DEF GameInv, history, verdict
<1>7. stage' = "speakpk" => pkRound' < MaxPkRounds
  BY <1>1 DEF GameInv, speech
<1> QED BY <1>1, <1>2, <1>3, <1>4, <1>5, <1>6, <1>7 DEF GameInv

\* GameOrchestratorV2 keeps the schedule, the board and the verdict in agreement,
\* whatever the agents answer, for any legal deck and any limits.
THEOREM GameCorrect == Spec => []GameInv
<1>1. GameInv /\ [Next]_vars => GameInv'
  BY GameStep, GameStutter
<1> QED BY GameInit, <1>1, PTL DEF Spec

\* The winner of an ended game is the one the survivors justify, no phase but the
\* first night begins once a side has won, and a tripped guard stays pending only
\* in a batch of speeches (_terminate_if_pending, _finish_death_resolution).
THEOREM VerdictsAreJust == Spec => []VerdictIsJust
<1>1. GameInv => VerdictIsJust
  BY DEF GameInv
<1> QED BY <1>1, GameCorrect, PTL

\* Before play goes on everybody dead has been offered last words, once, every
\* shot is settled, and every night's round is counted (_process_last_words_queue,
\* _process_deaths_and_hunter, _complete_progress_round).
THEOREM RoundsSettle == Spec => []RoundsAreSettled
<1>1. ASSUME GameInv PROVE RoundsAreSettled
  <2>1. TypeOK /\ QueueFits(game, offered) /\ offered \subseteq Seats
    BY <1>1 DEF GameInv, BoardFits, TypeOK
  <2>2. \A i \in 1..Len(game.words) :
          /\ game.words[i] \notin Living(game) \cup offered
          /\ \A j \in 1..Len(game.words) : game.words[i] = game.words[j] => i = j
    BY <2>1 DEF QueueFits, NamesIn, Distinct
  <2>3. stage = "loop" /\ broadcast = None =>
          offered = Seats \ Living(game) /\ game.pendingHunter = <<>>
    <3> SUFFICES ASSUME stage = "loop", broadcast = None
                 PROVE  offered = Seats \ Living(game) /\ game.pendingHunter = <<>>
      OBVIOUS
    <3>1. /\ Seats \ Living(game) \subseteq offered \cup NamesIn(game.words)
          /\ game.words = <<>> /\ game.pendingHunter = <<>>
      BY <1>1 DEF GameInv, SettledIn
    <3>2. NamesIn(game.words) = {}
      BY <3>1 DEF NamesIn
    <3> QED BY <2>1, <3>1, <3>2 DEF QueueFits
  <2>4. game.day = rounds + 1
    BY <1>1 DEF GameInv, Counted
  <2> QED BY <2>1, <2>2, <2>3, <2>4 DEF RoundsAreSettled
<1> QED BY <1>1, GameCorrect, PTL

\* Nobody dies twice, only a hunter who was not poisoned shoots, the guard never
\* protects a seat twice running, and each potion works in one night at most
\* (resolve_night, hunter_shoot, submit_night_action, apply_witch_save).
THEOREM RulesHold == Spec => RulesAreKept
<1> DEFINE Kept ==
      /\ \A s \in Seats : game.died[s] # "alive" => game'.died[s] = game.died[s]
      /\ \A i \in DOMAIN game'.pendingHunter :
           game'.died[game'.pendingHunter[i]] \notin {"alive", "poisoned"}
      /\ game.phase = "night" /\ game'.phase = "day" /\ game'.lastGuarded # None
           => game'.lastGuarded # game.lastGuarded
      /\ game'.phase \in {"day", "voting"} =>
           /\ potions'.save = IF game'.antidote THEN 0 ELSE 1
           /\ potions'.poison = IF game'.poison THEN 0 ELSE 1
<1>1. ASSUME GameInv, GameInv', Next PROVE Kept
  <2>1. DeadStay /\ GuardMovesOn
    BY <1>1, GameStep
  <2>2. \A i \in DOMAIN game'.pendingHunter :
          game'.died[game'.pendingHunter[i]] \notin {"alive", "poisoned"}
    <3>1. ShotsFit(game')
      BY <1>1 DEF GameInv, BoardFits
    <3>2. game' \in Games
      BY <1>1 DEF GameInv, TypeOK
    <3>3. DOMAIN game'.pendingHunter = 1..Len(game'.pendingHunter)
      BY <3>2 DEF Games
    <3> QED BY <3>1, <3>3 DEF ShotsFit, NamesIn
  <2>3. ASSUME game'.phase \in {"day", "voting"}
        PROVE  /\ potions'.save = IF game'.antidote THEN 0 ELSE 1
               /\ potions'.poison = IF game'.poison THEN 0 ELSE 1
    <3>1. game'.acts = {}
      <4>1. stage' \notin NightStages
        BY <1>1, <2>3 DEF GameInv, PhaseFits
      <4>2. Past(stage') = {}
        BY <4>1 DEF Past, NightStages
      <4> QED BY <1>1, <2>3, <4>2 DEF GameInv, InTime
    <3>2. PotionsFit(game', potions')
      BY <1>1 DEF GameInv, BoardFits
    <3> QED BY <3>1, <3>2 DEF PotionsFit, PotionFits, UsedTonight
  <2> QED BY <2>1, <2>2, <2>3 DEF DeadStay, GuardMovesOn
<1>2. GameInv /\ GameInv' /\ [Next]_vars => [Kept]_vars
  BY <1>1
<1>3. Spec => [][Next]_vars
  BY PTL DEF Spec
<1> QED BY <1>2, <1>3, GameCorrect, PTL DEF RulesAreKept

-----------------------------------------------------------------------------
(* What a vote decides.                                                     *)

\* The votes of a round, when every one of them was accepted.
Voting(g, living) ==
    /\ g \in Games /\ Living(g) = living
    /\ \A s \in Seats : g.votes[s] # None =>
         s \in living /\ g.votes[s] \in living /\ (g.pk # {} => g.votes[s] \in g.pk)

\* The one who is exiled leads, with a majority unless everybody voted.
LEMMA ExiledLeads ==
    ASSUME NEW living, NEW g, Voting(g, living), NEW s \in living,
           s \notin Living(ResolveVote(g))
    PROVE  /\ \A t \in living \ {s} : VotesFor(g, t) < VotesFor(g, s)
           /\ living \subseteq Voters(g) \/ 2 * VotesFor(g, s) > Cardinality(living)
           /\ g.pk # {} => s \in g.pk
<1> DEFINE h == ResolveVote(g)
<1>1. g \in Games /\ s \in Seats /\ g.died[s] = "alive" /\ g.died \in [Seats -> Fates]
  BY DEF Voting, Living, Games
<1>2. h.died[s] # "alive"
  BY <1>1 DEF Living
<1> HIDE DEF h
<1>3. PICK x, shots :
        x \in Seats /\ ~ Undecided(g) /\ Leaders(g) = {x} /\ Struck(g, x, "exiled", shots, h)
  <2>1. ~ SameBut(g, h)
    BY <1>1, <1>2 DEF SameBut
  <2> QED BY <1>1, <2>1, ResolveParts DEF h
<1>4. x = s
  BY <1>1, <1>2, <1>3 DEF Struck
<1>5. Voters(g) # {} /\ (living \subseteq Voters(g) \/ ~ (2 * TopCount(g) <= Cardinality(living)))
  BY <1>3 DEF Undecided, Voting
<1>6. /\ \A t \in Seats : t = s <=> VotesFor(g, t) = TopCount(g)
      /\ \E v \in Seats : g.votes[v] = s
  BY <1>1, <1>3, <1>4, <1>5, LeadersFit
<1>7. /\ TopCount(g) \in Nat /\ Cardinality(living) \in Nat
      /\ \A t \in Seats : VotesFor(g, t) \in Nat /\ VotesFor(g, t) <= TopCount(g)
  <2>1. \A t : VotesFor(g, t) \in Nat
    BY VoteCounts, SeatsAssumption, FS_CardinalityType
  <2>2. Cardinality(living) \in Nat
    BY LivingFinite DEF Voting
  <2> QED BY <2>1, <2>2, TopIsTop
<1>8. \A t \in living : t \in Seats
  BY DEF Voting, Living
<1>9. g.pk # {} => s \in g.pk
  <2>1. s # None
    BY <1>1, SeatsAssumption
  <2> QED BY <1>6, <2>1 DEF Voting
<1>10. \A t \in living \ {s} : VotesFor(g, t) < VotesFor(g, s)
  BY <1>1, <1>6, <1>7, <1>8
<1>11. living \subseteq Voters(g) \/ 2 * VotesFor(g, s) > Cardinality(living)
  BY <1>1, <1>5, <1>6, <1>7
<1> QED BY <1>9, <1>10, <1>11

\* When everybody has voted, the one who leads is exiled.
LEMMA LeaderExiled ==
    ASSUME NEW living, NEW g, Voting(g, living), living \subseteq Voters(g), NEW s \in living,
           \A t \in living \ {s} : VotesFor(g, t) < VotesFor(g, s)
    PROVE  s \notin Living(ResolveVote(g))
<1> DEFINE h == ResolveVote(g)
<1>1. g \in Games /\ s \in Seats /\ g.died[s] = "alive" /\ g.died \in [Seats -> Fates]
      /\ living \subseteq Seats /\ Voters(g) # {}
  BY DEF Voting, Living, Games
<1>2. ~ Undecided(g)
  BY <1>1 DEF Undecided, Voting
<1>3. \A t : VotesFor(g, t) \in Nat
  BY VoteCounts, SeatsAssumption, FS_CardinalityType
<1>4. Leaders(g) = {t \in Seats : VotesFor(g, t) = TopCount(g)}
      /\ \A t \in Leaders(g) : \E v \in Seats : g.votes[v] = t
  BY <1>1, LeadersFit
<1>5. Leaders(g) \subseteq living
  <2>1. \A t \in Seats : t # None
    BY SeatsAssumption
  <2> QED BY <1>4, <2>1 DEF Voting
<1>6. PICK t \in Seats : VotesFor(g, t) = TopCount(g)
  BY TopIsTop
<1>7. VotesFor(g, s) <= TopCount(g)
  BY <1>1, TopIsTop
<1>8. \A u \in Leaders(g) : u = s
  BY <1>3, <1>4, <1>5, <1>7
<1>9. Leaders(g) = {s}
  BY <1>4, <1>6, <1>8
<1> HIDE DEF h
<1>10. PICK x, shots :
        x \in Seats /\ Leaders(g) = {x} /\ Struck(g, x, "exiled", shots, h)
  BY <1>1, <1>2, <1>9, ResolveParts DEF h
<1>11. h.died[s] = "exiled"
  BY <1>1, <1>9, <1>10 DEF Struck
<1> QED BY <1>11 DEF h, Living

\* Somebody is exiled only with strictly more votes than any other, with more than
\* half of the living if somebody did not vote, and out of the tied in a PK; a vote
\* that everybody cast and one player leads does exile (resolve_vote).
THEOREM ExileCarried == Spec => []ExileIsCarried
<1>1. ExileIsCarried
  <2> SUFFICES ASSUME NEW living \in {L \in SUBSET Seats : Cardinality(L) \in 2 .. 4},
                      NEW pk \in {{}} \cup {c \in SUBSET living : Cardinality(c) \in 2 .. 3},
                      NEW cast \in [living -> living \cup {None}]
               PROVE  LET g == [NewGame EXCEPT
                            !.phase = "voting", !.pk = pk,
                            !.died = [s \in Seats |-> IF s \in living THEN "alive" ELSE "exiled"],
                            !.votes = [s \in Seats |-> IF s \in living THEN cast[s] ELSE None]]
                          legal == \A s \in living : cast[s] # None => VoteAccepted(g, s, cast[s])
                          out == living \ Living(ResolveVote(g))
                          ahead == {s \in living :
                                      \A t \in living \ {s} : VotesFor(g, t) < VotesFor(g, s)}
                      IN  legal =>
                            /\ \A s \in out :
                                 /\ s \in ahead
                                 /\ living \subseteq Voters(g)
                                      \/ 2 * VotesFor(g, s) > Cardinality(living)
                                 /\ pk # {} => s \in pk
                            /\ living \subseteq Voters(g) => ahead \subseteq out
    BY ZenonT(60) DEF ExileIsCarried
  <2> DEFINE g == [NewGame EXCEPT
                     !.phase = "voting", !.pk = pk,
                     !.died = [s \in Seats |-> IF s \in living THEN "alive" ELSE "exiled"],
                     !.votes = [s \in Seats |-> IF s \in living THEN cast[s] ELSE None]]
  <2> SUFFICES ASSUME \A s \in living : cast[s] # None => VoteAccepted(g, s, cast[s])
               PROVE  /\ \A s \in living \ Living(ResolveVote(g)) :
                           /\ \A t \in living \ {s} : VotesFor(g, t) < VotesFor(g, s)
                           /\ living \subseteq Voters(g) \/ 2 * VotesFor(g, s) > Cardinality(living)
                           /\ pk # {} => s \in pk
                      /\ living \subseteq Voters(g) =>
                           \A s \in living :
                             (\A t \in living \ {s} : VotesFor(g, t) < VotesFor(g, s))
                               => s \in living \ Living(ResolveVote(g))
    BY ZenonT(60)
  <2>s. living \in SUBSET Seats /\ pk \in SUBSET living
    OBVIOUS
  <2> DEFINE died == [s \in Seats |-> IF s \in living THEN "alive" ELSE "exiled"]
             votes == [s \in Seats |-> IF s \in living THEN cast[s] ELSE None]
  <2>1. died \in [Seats -> Fates] /\ votes \in [Seats -> Seats \cup {None}]
    BY <2>s DEF Fates
  <2>2. NewGame \in Games
    BY NewGameTyped
  <2>3. g = [NewGame EXCEPT !.phase = "voting", !.pk = pk, !.died = died, !.votes = votes]
    OBVIOUS
  <2>4. \A s \in Seats : /\ died[s] = "alive" <=> s \in living
                         /\ votes[s] # None => s \in living /\ votes[s] = cast[s]
    OBVIOUS
  <2> HIDE DEF died, votes, g
  <2>5. g \in Games /\ g.pk = pk /\ g.died = died /\ g.votes = votes
    <3>1. pk \in SUBSET Seats
      BY <2>s
    <3> QED BY <2>1, <2>2, <2>3, <3>1 DEF Games
  <2>6. Living(g) = living
    BY <2>4, <2>5 DEF Living
  <2>7. Voting(g, living)
    <3>1. \A s, t : VoteAccepted(g, s, t) => t \in Living(g) /\ (g.pk # {} => t \in g.pk)
      BY DEF VoteAccepted
    <3> QED BY <2>4, <2>5, <2>6, <3>1 DEF Voting
  <2>8. \A s \in living : s \notin Living(ResolveVote(g)) =>
          /\ \A t \in living \ {s} : VotesFor(g, t) < VotesFor(g, s)
          /\ living \subseteq Voters(g) \/ 2 * VotesFor(g, s) > Cardinality(living)
          /\ pk # {} => s \in pk
    BY <2>5, <2>7, ExiledLeads
  <2>9. living \subseteq Voters(g) => \A s \in living :
          (\A t \in living \ {s} : VotesFor(g, t) < VotesFor(g, s))
            => s \notin Living(ResolveVote(g))
    BY <2>7, LeaderExiled
  <2> QED BY <2>8, <2>9
<1>2. []ExileIsCarried
  BY <1>1, PTL
<1> QED BY <1>2, PTL
=============================================================================
