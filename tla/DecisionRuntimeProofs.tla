------------------------- MODULE DecisionRuntimeProofs -------------------------
(***************************************************************************)
(* Proofs about DecisionRuntime, for any number of calls, any ids and any   *)
(* number of failures of the trace callback.                               *)
(***************************************************************************)
EXTENDS DecisionRuntime, SequenceTheorems, FiniteSetTheorems, TLAPS

-----------------------------------------------------------------------------
(* Types.                                                                   *)

\* A ticket is a position of accepted, and every waiting call holds one.
Tickets ==
    \A c \in Calls :
        /\ ticket[c] <= Len(accepted)
        /\ pc[c] \in Waiting => ticket[c] # 0

\* Batch turns the buffered numbers first..last into as many rows.
LEMMA BatchTyped ==
    ASSUME NEW buf \in SUBSET Terminals, NEW first \in Nat, NEW last \in Int,
           last >= first - 1, \A n \in first..last : Buffered(buf, n)
    PROVE  /\ Batch(buf, first, last) \in Seq(Rows)
           /\ Len(Batch(buf, first, last)) = last - first + 1
           /\ \A i \in 1..(last - first + 1) :
                \E b \in buf : /\ b.seq = first + i - 1
                               /\ Batch(buf, first, last)[i] = [kind |-> b.kind, id |-> b.id]
<1> DEFINE Pick(i) == CHOOSE t \in buf : t.seq = first + i - 1
           row(i) == [kind |-> Pick(i).kind, id |-> Pick(i).id]
<1>1. \A i \in 1..(last - first + 1) : Pick(i) \in buf /\ Pick(i).seq = first + i - 1
  <2> TAKE i \in 1..(last - first + 1)
  <2>1. first + i - 1 \in first..last
    OBVIOUS
  <2>2. \E t \in buf : t.seq = first + i - 1
    BY <2>1 DEF Buffered
  <2> QED BY <2>2
<1>2. \A i \in 1..(last - first + 1) : row(i) \in Rows
  BY <1>1 DEF Rows, Terminals
<1>3. Batch(buf, first, last) = [i \in 1..(last - first + 1) |-> row(i)]
  BY DEF Batch
<1> HIDE DEF row
<1>4. Batch(buf, first, last) \in Seq(Rows) /\ Len(Batch(buf, first, last)) = last - first + 1
  BY <1>2, <1>3
<1>5. \A i \in 1..(last - first + 1) : Batch(buf, first, last)[i] = row(i)
  BY <1>3
<1> QED BY <1>1, <1>4, <1>5 DEF row

\* Committing a terminal keeps the types of the log, of the buffer and of the
\* counters.
LEMMA CommitTyped ==
    ASSUME TypeOK, NEW base \in Seq(Rows), NEW seq \in Nat, NEW id \in Ids,
           NEW kind \in TerminalKinds, accepted' \in Seq(Ids),
           CommitTerminal(base, seq, id, kind)
    PROVE  /\ rows' \in Seq(Rows)
           /\ buffer' \subseteq Terminals
           /\ next' \in Nat
           /\ sinkFailures' \in 0..MaxSinkFailures
<1> DEFINE filled == buffer \cup {[seq |-> seq, id |-> id, kind |-> kind]}
<1>1. filled \subseteq Terminals
  BY DEF TypeOK, Terminals
<1>2. next \in Nat /\ sinkFailures \in 0..MaxSinkFailures /\ Len(accepted') \in Nat
  BY DEF TypeOK
<1>3. PICK last \in next..(Len(accepted') + 1) :
        /\ EndOfPrefix(filled, next, last)
        /\ \/ /\ rows' = base \o Batch(filled, next, last - 1)
              /\ next' = last
              /\ UNCHANGED sinkFailures
           \/ \E lost \in next..(last - 1) :
                /\ sinkFailures < MaxSinkFailures
                /\ rows' = base \o Batch(filled, next, lost - 1)
                /\ next' = lost + 1
                /\ sinkFailures' = sinkFailures + 1
        /\ buffer' = {b \in filled : b.seq >= next'}
  BY DEF CommitTerminal
<1> HIDE DEF filled
<1>4. \A n \in next..(last - 1) : Buffered(filled, n)
  BY <1>3 DEF EndOfPrefix
<1>5. CASE rows' = base \o Batch(filled, next, last - 1) /\ next' = last /\ UNCHANGED sinkFailures
  <2>1. last - 1 \in Int /\ last - 1 >= next - 1
    BY <1>2
  <2>2. Batch(filled, next, last - 1) \in Seq(Rows)
    BY <1>1, <1>2, <1>4, <2>1, BatchTyped
  <2> QED BY <1>1, <1>2, <1>3, <1>5, <2>2
<1>6. ASSUME NEW lost \in next..(last - 1), sinkFailures < MaxSinkFailures,
             rows' = base \o Batch(filled, next, lost - 1),
             next' = lost + 1, sinkFailures' = sinkFailures + 1
      PROVE  /\ rows' \in Seq(Rows)
             /\ buffer' \subseteq Terminals
             /\ next' \in Nat
             /\ sinkFailures' \in 0..MaxSinkFailures
  <2>1. lost - 1 \in Int /\ lost - 1 >= next - 1
    BY <1>2
  <2>2. \A n \in next..(lost - 1) : Buffered(filled, n)
    BY <1>2, <1>4
  <2>3. Batch(filled, next, lost - 1) \in Seq(Rows)
    BY <1>1, <1>2, <2>1, <2>2, BatchTyped
  <2>4. sinkFailures' \in 0..MaxSinkFailures
    BY <1>2, <1>6, SinkAssumption
  <2> QED BY <1>1, <1>2, <1>3, <1>6, <2>3, <2>4
<1> QED BY <1>3, <1>5, <1>6

\* The part of TypeOK about the log.
LogTyped ==
    /\ accepted \in Seq(Ids)
    /\ ticket \in [Calls -> Nat]
    /\ buffer \subseteq Terminals
    /\ next \in Nat
    /\ rows \in Seq(Rows)
    /\ sinkFailures \in 0..MaxSinkFailures

\* A call that registers gets the next position of accepted.
LEMMA RegisterTyped ==
    ASSUME TypeOK, Tickets, NEW c \in Calls, NEW id \in Ids, Register(c, id)
    PROVE  /\ accepted' \in Seq(Ids)
           /\ Len(accepted') = Len(accepted) + 1
           /\ ticket' \in [Calls -> Nat]
           /\ ticket'[c] = Len(accepted) + 1
           /\ \A d \in Calls : ticket'[d] <= Len(accepted')
           /\ \A d \in Calls : d # c => ticket'[d] = ticket[d]
<1>1. accepted \in Seq(Ids) /\ Len(accepted) \in Nat /\ ticket \in [Calls -> Nat]
  BY DEF TypeOK
<1>2. accepted' = Append(accepted, id) /\ ticket' = [ticket EXCEPT ![c] = Len(accepted) + 1]
  BY DEF Register
<1>3. accepted' \in Seq(Ids) /\ Len(accepted') = Len(accepted) + 1
  BY <1>1, <1>2
<1>4. ticket' \in [Calls -> Nat] /\ ticket'[c] = Len(accepted) + 1
  BY <1>1, <1>2
<1>5. \A d \in Calls : d # c => ticket'[d] = ticket[d]
  BY <1>1, <1>2
<1>6. \A d \in Calls : ticket'[d] <= Len(accepted')
  BY <1>1, <1>3, <1>4, <1>5 DEF Tickets
<1> QED BY <1>3, <1>4, <1>5, <1>6

\* The end of a waiting call keeps the types of the log and every ticket.
LEMMA FinishTyped ==
    ASSUME TypeOK, Tickets, NEW c \in Calls, pc[c] \in Waiting,
           NEW kind \in TerminalKinds, Finish(c, kind)
    PROVE  /\ LogTyped'
           /\ Tickets'
           /\ pc' = [pc EXCEPT ![c] = "returned"]
<1>1. accepted' = accepted /\ ticket' = ticket /\ pc' = [pc EXCEPT ![c] = "returned"]
  BY DEF Finish, Return
<1>2. accepted \in Seq(Ids) /\ ticket[c] \in 1..Len(accepted)
  BY DEF TypeOK, Tickets
<1>3. accepted[ticket[c]] \in Ids /\ ticket[c] \in Nat
  BY <1>2
<1>4. /\ rows' \in Seq(Rows)
      /\ buffer' \subseteq Terminals
      /\ next' \in Nat
      /\ sinkFailures' \in 0..MaxSinkFailures
  <2>1. CommitTerminal(rows, ticket[c], accepted[ticket[c]], kind)
    BY DEF Finish
  <2>2. rows \in Seq(Rows) /\ accepted' \in Seq(Ids)
    BY <1>1 DEF TypeOK
  <2> QED BY <1>3, <2>1, <2>2, CommitTyped
<1>5. LogTyped'
  BY <1>1, <1>4 DEF LogTyped, TypeOK
<1>6. Tickets'
  BY <1>1 DEF Tickets, TypeOK, Waiting
<1> QED BY <1>1, <1>5, <1>6

\* A new call that is closed on acceptance keeps the types of the log.
LEMMA RegisterCommitTyped ==
    ASSUME TypeOK, Tickets, NEW c \in Calls, NEW id \in Ids, NEW kind \in TerminalKinds,
           Register(c, id),
           CommitTerminal(Append(rows, RequestRow(id)), Len(accepted) + 1, id, kind)
    PROVE  LogTyped'
<1>1. Append(rows, RequestRow(id)) \in Seq(Rows)
  BY DEF TypeOK, RequestRow, Rows
<1>2. Len(accepted) + 1 \in Nat
  BY DEF TypeOK
<1>3. accepted' \in Seq(Ids) /\ ticket' \in [Calls -> Nat]
  BY RegisterTyped
<1>4. /\ rows' \in Seq(Rows)
      /\ buffer' \subseteq Terminals
      /\ next' \in Nat
      /\ sinkFailures' \in 0..MaxSinkFailures
  BY <1>1, <1>2, <1>3, CommitTyped
<1> QED BY <1>3, <1>4 DEF LogTyped

\* The part of TypeOK about the calls, their tasks and aclose.
CallTyped ==
    /\ pc \in [Calls -> {"idle", "refused", "returned"} \cup Waiting]
    /\ cancels \in [Calls -> 0..2]
    /\ interrupted \in [Calls -> BOOLEAN]
    /\ trouble \in [Calls -> BOOLEAN]
    /\ task \in [Calls -> [TaskKinds -> TaskStates]]
    /\ unresolved \subseteq Calls \X TaskKinds
    /\ closing \in {"open", "closing", "clean", "failed", "cancelled"}
    /\ closeTodo \subseteq Calls \X TaskKinds

\* The part of TypeOK about how the calls end.
OutcomeTyped == outcome \in [Calls -> {"none"} \cup Endings]

\* TypeOK is the conjunction of its three parts, before and after a step.
LEMMA TypeParts ==
    /\ TypeOK <=> CallTyped /\ LogTyped /\ OutcomeTyped
    /\ TypeOK' <=> CallTyped' /\ LogTyped' /\ OutcomeTyped'
BY DEF TypeOK, CallTyped, LogTyped, OutcomeTyped

\* A call that commits its terminal ends as that terminal says, or with the
\* exception of a callback that raised, and then the failure is counted.  No
\* other call's end changes.
LEMMA ReturnEnds ==
    ASSUME TypeOK, NEW c \in Calls, NEW base, NEW seq, NEW id, NEW kind,
           CommitTerminal(base, seq, id, kind), Return(c, kind)
    PROVE  /\ outcome' \in [Calls -> {"none"} \cup Endings]
           /\ \A d \in Calls : d # c => outcome'[d] = outcome[d]
           /\ sinkFailures' \in {sinkFailures, sinkFailures + 1}
           /\ \/ outcome'[c] = OutcomeOf(kind)
              \/ outcome'[c] = "sink" /\ sinkFailures' = sinkFailures + 1
<1>1. sinkFailures' \in {sinkFailures, sinkFailures + 1}
  BY DEF CommitTerminal
<1>2. PICK o : o = IF sinkFailures' = sinkFailures THEN OutcomeOf(kind) ELSE "sink"
  OBVIOUS
<1>3. outcome' = [outcome EXCEPT ![c] = o]
  BY <1>2 DEF Return
<1>4. o \in Endings
  BY <1>2 DEF OutcomeOf, Endings
<1>5. outcome \in [Calls -> {"none"} \cup Endings]
  BY DEF TypeOK
<1>6. outcome'[c] = o
  BY <1>3, <1>5
<1>7. outcome' \in [Calls -> {"none"} \cup Endings] /\ \A d \in Calls : d # c => outcome'[d] = outcome[d]
  BY <1>3, <1>4, <1>5
<1> QED BY <1>1, <1>2, <1>6, <1>7

\* What a step may do to the ends of the calls: nothing, or end one call that
\* stood before its end.  Failures of the callback are never forgotten.
EndsOne ==
    /\ sinkFailures' \in {sinkFailures, sinkFailures + 1}
    /\ \/ outcome' = outcome
       \/ \E c \in Calls, o \in Endings :
             pc[c] \in {"idle"} \cup Waiting /\ outcome' = [outcome EXCEPT ![c] = o]

\* Every commit that ends a call is such a step.
LEMMA ReturnEndsOne ==
    ASSUME TypeOK, NEW c \in Calls, NEW base, NEW seq, NEW id, NEW kind,
           pc[c] \in {"idle"} \cup Waiting,
           CommitTerminal(base, seq, id, kind), Return(c, kind)
    PROVE  EndsOne
<1>1. sinkFailures' \in {sinkFailures, sinkFailures + 1}
  BY DEF CommitTerminal
<1>2. PICK o : o = IF sinkFailures' = sinkFailures THEN OutcomeOf(kind) ELSE "sink"
  OBVIOUS
<1>3. outcome' = [outcome EXCEPT ![c] = o]
  BY <1>2 DEF Return
<1>4. o \in Endings
  BY <1>2 DEF OutcomeOf, Endings
<1> QED BY <1>1, <1>3, <1>4 DEF EndsOne

\* Every step of the boundary ends at most one call.
LEMMA StepEndsOne == TypeOK /\ [Next]_vars => EndsOne
<1> SUFFICES ASSUME TypeOK, [Next]_vars PROVE EndsOne
  OBVIOUS
<1>1. CASE UNCHANGED <<outcome, sinkFailures>>
  BY <1>1 DEF EndsOne
<1>2. CASE UNCHANGED vars
  BY <1>1, <1>2 DEF vars, callVars, logVars
<1>3. ASSUME NEW c \in Calls, NEW id \in Ids, Execute(c, id) PROVE EndsOne
  <2>1. pc[c] = "idle"
    BY <1>3 DEF Execute, ExecuteDuplicate, ExecuteSinkFails, ExecuteMisbound, ExecuteDecide,
                ExecuteExpired, Register
  <2>2. CASE ExecuteDuplicate(c, id)
    BY <2>1, <2>2 DEF ExecuteDuplicate, EndsOne, logVars, Endings
  <2>3. CASE ExecuteSinkFails(c, id)
    BY <2>1, <2>3 DEF ExecuteSinkFails, EndsOne, Endings
  <2>4. CASE ExecuteMisbound(c, id)
    BY <2>1, <2>4, ReturnEndsOne DEF ExecuteMisbound
  <2>5. CASE ExecuteDecide(c, id)
    BY <1>1, <2>5 DEF ExecuteDecide
  <2>6. CASE ExecuteExpired(c, id)
    <3>1. CASE UNCHANGED <<outcome, sinkFailures>>
      BY <1>1, <3>1
    <3>2. ASSUME NEW kind,
                 CommitTerminal(Append(rows, RequestRow(id)), Len(accepted) + 1, id, kind),
                 Return(c, kind)
          PROVE  EndsOne
      BY <2>1, <3>2, ReturnEndsOne
    <3> QED BY <2>6, <3>1, <3>2 DEF ExecuteExpired
  <2> QED BY <1>3, <2>2, <2>3, <2>4, <2>5, <2>6 DEF Execute
<1>4. ASSUME NEW c \in Calls, NEW kind, pc[c] \in Waiting, Finish(c, kind) PROVE EndsOne
  BY <1>4, ReturnEndsOne DEF Finish
<1>5. ASSUME NEW c \in Calls, Resume(c) PROVE EndsOne
  <2>1. CASE TakeResult(c)
    BY <1>4, <2>1 DEF TakeResult, Waiting
  <2>2. CASE DeadlinePasses(c) \/ CancelAgain(c) \/ HookTimesOut(c)
    BY <1>1, <2>2 DEF DeadlinePasses, CancelAgain, HookTimesOut, logVars
  <2>3. CASE EndDecideGrace(c)
    <3>1. pc[c] \in Waiting
      BY <2>3 DEF EndDecideGrace, Waiting
    <3>2. (\E kind : Finish(c, kind)) \/ UNCHANGED <<outcome, sinkFailures>>
      BY <2>3 DEF EndDecideGrace, logVars
    <3> QED BY <1>1, <1>4, <3>1, <3>2
  <2>4. CASE HookAnswered(c)
    BY <1>4, <2>4 DEF HookAnswered, Waiting
  <2>5. CASE EndHookGrace(c)
    BY <1>4, <2>5 DEF EndHookGrace, Waiting
  <2> QED BY <1>5, <2>1, <2>2, <2>3, <2>4, <2>5 DEF Resume
<1>6. ASSUME NEW c \in Calls, CallerCancels(c) PROVE EndsOne
  <2>1. pc[c] \in Waiting /\ ((\E kind : Finish(c, kind)) \/ UNCHANGED <<outcome, sinkFailures>>)
    BY <1>6 DEF CallerCancels, logVars
  <2> QED BY <1>1, <1>4, <2>1
<1>7. ASSUME NEW c \in Calls, TaskFinishes(c) PROVE EndsOne
  BY <1>1, <1>7 DEF TaskFinishes, DecideFinishes, HookFinishes, callVars, logVars
<1>8. CASE Close
  BY <1>1, <1>8 DEF Close, CloseBegins, CloseCancelsNext, CloseEnds, CloseInterrupted,
                    callVars, logVars
<1> QED BY <1>2, <1>3, <1>5, <1>6, <1>7, <1>8 DEF Next

\* The initial state is well typed and no call waits in it.
LEMMA InitTyped == Init => TypeOK /\ Tickets
<1> SUFFICES ASSUME Init PROVE TypeOK /\ Tickets
  OBVIOUS
<1>1. CallTyped
  BY DEF Init, CallTyped, TaskStates
<1>2. LogTyped
  BY SinkAssumption DEF Init, LogTyped
<1>3. Tickets
  BY DEF Init, Tickets, Waiting
<1>4. OutcomeTyped
  BY DEF Init, OutcomeTyped
<1> QED BY <1>1, <1>2, <1>3, <1>4, TypeParts

\* Every way to accept a request keeps the types.
LEMMA ExecuteTyped ==
    ASSUME TypeOK, Tickets, NEW c \in Calls, NEW id \in Ids, Execute(c, id)
    PROVE  CallTyped' /\ LogTyped' /\ Tickets'
<1> USE DEF callVars, taskVars, logVars, closeVars
<1>1. CallTyped /\ LogTyped
  BY TypeParts
<1>2. CASE ExecuteDuplicate(c, id)
  <2>1. CallTyped'
    BY <1>1, <1>2 DEF ExecuteDuplicate, CallTyped
  <2>2. LogTyped'
    BY <1>1, <1>2 DEF ExecuteDuplicate, LogTyped
  <2>3. Tickets'
    BY <1>1, <1>2 DEF ExecuteDuplicate, Tickets, CallTyped, Waiting
  <2> QED BY <2>1, <2>2, <2>3, TypeParts
<1>3. CASE ExecuteSinkFails(c, id)
  <2>1. Register(c, id) /\ pc' = [pc EXCEPT ![c] = "returned"]
    BY <1>3 DEF ExecuteSinkFails
  <2>2. CallTyped'
    BY <1>1, <1>3 DEF ExecuteSinkFails, CallTyped
  <2>3. LogTyped'
    BY <1>1, <1>3, <2>1, RegisterTyped, SinkAssumption DEF ExecuteSinkFails, LogTyped
  <2>4. Tickets'
    BY <1>1, <2>1, RegisterTyped DEF Tickets, CallTyped, Waiting
  <2> QED BY <2>2, <2>3, <2>4, TypeParts
<1>4. CASE ExecuteMisbound(c, id)
  <2>1. Register(c, id) /\ pc' = [pc EXCEPT ![c] = "returned"]
    BY <1>4 DEF ExecuteMisbound, Return
  <2>2. CallTyped'
    BY <1>1, <1>4 DEF ExecuteMisbound, CallTyped, Return
  <2>3. "failed" \in TerminalKinds
    BY DEF TerminalKinds
  <2>4. LogTyped'
    BY <1>4, <2>1, <2>3, RegisterCommitTyped DEF ExecuteMisbound
  <2>5. Tickets'
    BY <1>1, <2>1, RegisterTyped DEF Tickets, CallTyped, Waiting
  <2> QED BY <2>2, <2>4, <2>5, TypeParts
<1>5. CASE ExecuteDecide(c, id)
  <2>1. Register(c, id) /\ pc' = [pc EXCEPT ![c] = "deciding"]
    BY <1>5 DEF ExecuteDecide
  <2>2. CallTyped'
    BY <1>1, <1>5 DEF ExecuteDecide, CallTyped, Waiting, TaskStates, TaskKinds
  <2>3. LogTyped'
    BY <1>1, <1>5, <2>1, RegisterTyped DEF ExecuteDecide, LogTyped, RequestRow, Rows
  <2>4. Tickets'
    BY <1>1, <2>1, RegisterTyped DEF Tickets, CallTyped, LogTyped, Waiting
  <2> QED BY <2>2, <2>3, <2>4, TypeParts
<1>6. CASE ExecuteExpired(c, id)
  <2>1. Register(c, id)
    BY <1>6 DEF ExecuteExpired
  <2>2. CASE /\ rows' = Append(rows, RequestRow(id))
             /\ task' = [task EXCEPT ![c]["hook"] = "running"]
             /\ pc' = [pc EXCEPT ![c] = "hooking"]
             /\ UNCHANGED <<trouble, buffer, next, sinkFailures>>
    <3>1. CallTyped'
      BY <1>1, <1>6, <2>2 DEF ExecuteExpired, CallTyped, Waiting, TaskStates, TaskKinds
    <3>2. LogTyped'
      BY <1>1, <2>2, <2>1, RegisterTyped DEF LogTyped, RequestRow, Rows
    <3>3. Tickets'
      BY <1>1, <2>1, <2>2, RegisterTyped DEF Tickets, CallTyped, LogTyped, Waiting
    <3> QED BY <3>1, <3>2, <3>3, TypeParts
  <2>3. ASSUME NEW raised \in BOOLEAN,
               pc' = [pc EXCEPT ![c] = "returned"],
               UNCHANGED task,
               trouble' = [trouble EXCEPT ![c] = raised],
               CommitTerminal(Append(rows, RequestRow(id)), Len(accepted) + 1, id,
                              IF raised THEN "cleanup" ELSE "timeout")
        PROVE  CallTyped' /\ LogTyped' /\ Tickets'
    <3>1. CallTyped'
      BY <1>1, <1>6, <2>3 DEF ExecuteExpired, CallTyped
    <3>2. (IF raised THEN "cleanup" ELSE "timeout") \in TerminalKinds
      BY DEF TerminalKinds
    <3>3. LogTyped'
      BY <2>1, <2>3, <3>2, RegisterCommitTyped
    <3>4. Tickets'
      BY <1>1, <2>1, <2>3, RegisterTyped DEF Tickets, CallTyped, Waiting
    <3> QED BY <3>1, <3>3, <3>4, TypeParts
  <2> QED BY <1>6, <2>2, <2>3 DEF ExecuteExpired, Return
<1> QED BY <1>2, <1>3, <1>4, <1>5, <1>6 DEF Execute

\* A step that leaves the log alone keeps its types and the tickets, if no call
\* starts to wait.
LEMMA LogUnchanged ==
    ASSUME TypeOK, Tickets, UNCHANGED logVars,
           \A c \in Calls : pc'[c] \in Waiting => pc[c] \in Waiting
    PROVE  LogTyped' /\ Tickets'
BY DEF logVars, LogTyped, Tickets, TypeOK

\* Whatever decide() left, its terminal is one of the kinds of terminal rows.
LEMMA VerdictTyped == \A v : VerdictKind(v) \in TerminalKinds
BY DEF VerdictKind, TerminalKinds

\* Every resumption of a waiting call keeps the types.
LEMMA ResumeTyped ==
    ASSUME TypeOK, Tickets, NEW c \in Calls, Resume(c)
    PROVE  CallTyped' /\ LogTyped' /\ Tickets'
<1> USE DEF callVars, taskVars, closeVars
<1>1. CallTyped /\ LogTyped
  BY TypeParts
<1>2. CASE TakeResult(c)
  <2>1. pc[c] \in Waiting /\ Finish(c, VerdictKind(task[c]["decide"]))
    BY <1>2 DEF TakeResult, Waiting
  <2>2. LogTyped' /\ Tickets' /\ pc' = [pc EXCEPT ![c] = "returned"]
    BY <2>1, FinishTyped, VerdictTyped
  <2>3. CallTyped'
    BY <1>1, <1>2, <2>2 DEF TakeResult, CallTyped, TaskStates, TaskKinds
  <2> QED BY <2>2, <2>3, TypeParts
<1>3. CASE DeadlinePasses(c)
  <2>1. CallTyped'
    BY <1>1, <1>3 DEF DeadlinePasses, CallTyped, Waiting
  <2>2. LogTyped' /\ Tickets'
    BY <1>1, <1>3, LogUnchanged DEF DeadlinePasses, CallTyped, Waiting
  <2> QED BY <2>1, <2>2, TypeParts
<1>4. CASE CancelAgain(c)
  <2>1. CallTyped'
    BY <1>1, <1>4 DEF CancelAgain, CallTyped, Waiting
  <2>2. LogTyped' /\ Tickets'
    BY <1>4, LogUnchanged DEF CancelAgain
  <2> QED BY <2>1, <2>2, TypeParts
<1>5. CASE EndDecideGrace(c)
  <2>1. pc[c] \in Waiting /\ Track(c)
    BY <1>5 DEF EndDecideGrace, Waiting
  <2>2. unresolved' \subseteq Calls \X TaskKinds
    BY <1>1, <2>1 DEF Track, Awaited, CallTyped, TaskKinds
  <2>3. CASE Finish(c, "cancelled") /\ UNCHANGED <<trouble, task>>
    <3>1. LogTyped' /\ Tickets' /\ pc' = [pc EXCEPT ![c] = "returned"]
      BY <2>1, <2>3, FinishTyped DEF TerminalKinds
    <3>2. CallTyped'
      BY <1>1, <1>5, <2>2, <2>3, <3>1 DEF EndDecideGrace, CallTyped
    <3> QED BY <3>1, <3>2, TypeParts
  <2>4. CASE /\ task' = [task EXCEPT ![c]["hook"] = "running"]
             /\ pc' = [pc EXCEPT ![c] = "hooking"]
             /\ trouble' = [trouble EXCEPT ![c] = task[c]["decide"] = "running"]
             /\ UNCHANGED logVars
    <3>1. LogTyped' /\ Tickets'
      BY <1>1, <2>1, <2>4, LogUnchanged DEF CallTyped
    <3>2. CallTyped'
      BY <1>1, <1>5, <2>2, <2>4 DEF EndDecideGrace, CallTyped, Waiting, TaskStates, TaskKinds
    <3> QED BY <3>1, <3>2, TypeParts
  <2>5. ASSUME NEW raised \in BOOLEAN,
               trouble' = [trouble EXCEPT ![c] = raised \/ task[c]["decide"] = "running"],
               Finish(c, IF trouble'[c] THEN "cleanup" ELSE "timeout"),
               UNCHANGED task
        PROVE  CallTyped' /\ LogTyped' /\ Tickets'
    <3>1. (IF trouble'[c] THEN "cleanup" ELSE "timeout") \in TerminalKinds
      BY DEF TerminalKinds
    <3>2. LogTyped' /\ Tickets' /\ pc' = [pc EXCEPT ![c] = "returned"]
      BY <2>1, <2>5, <3>1, FinishTyped
    <3>3. trouble' \in [Calls -> BOOLEAN]
      BY <1>1, <2>5 DEF CallTyped
    <3>4. CallTyped'
      BY <1>1, <1>5, <2>2, <2>5, <3>2, <3>3 DEF EndDecideGrace, CallTyped
    <3> QED BY <3>2, <3>4, TypeParts
  <2> QED BY <1>5, <2>3, <2>4, <2>5 DEF EndDecideGrace
<1>6. CASE HookAnswered(c)
  <2>1. pc[c] \in Waiting /\ Finish(c, IF trouble'[c] THEN "cleanup" ELSE "timeout")
    BY <1>6 DEF HookAnswered, Waiting
  <2>2. (IF trouble'[c] THEN "cleanup" ELSE "timeout") \in TerminalKinds
    BY DEF TerminalKinds
  <2>3. LogTyped' /\ Tickets' /\ pc' = [pc EXCEPT ![c] = "returned"]
    BY <2>1, <2>2, FinishTyped
  <2>4. trouble' \in [Calls -> BOOLEAN]
    BY <1>1, <1>6 DEF HookAnswered, CallTyped
  <2>5. task' \in [Calls -> [TaskKinds -> TaskStates]]
    BY <1>1, <1>6 DEF HookAnswered, CallTyped, TaskKinds, TaskStates
  <2>6. CallTyped'
    BY <1>1, <1>6, <2>3, <2>4, <2>5 DEF HookAnswered, CallTyped
  <2> QED BY <2>3, <2>6, TypeParts
<1>7. CASE HookTimesOut(c)
  <2>1. CallTyped'
    BY <1>1, <1>7 DEF HookTimesOut, CallTyped, Waiting
  <2>2. LogTyped' /\ Tickets'
    BY <1>1, <1>7, LogUnchanged DEF HookTimesOut, CallTyped, Waiting
  <2> QED BY <2>1, <2>2, TypeParts
<1>8. CASE EndHookGrace(c)
  <2>1. /\ pc[c] \in Waiting
        /\ Track(c)
        /\ Finish(c, IF interrupted[c] THEN "cancelled" ELSE "cleanup")
    BY <1>8 DEF EndHookGrace, Waiting
  <2>2. (IF interrupted[c] THEN "cancelled" ELSE "cleanup") \in TerminalKinds
    BY DEF TerminalKinds
  <2>3. LogTyped' /\ Tickets' /\ pc' = [pc EXCEPT ![c] = "returned"]
    BY <2>1, <2>2, FinishTyped
  <2>4. unresolved' \subseteq Calls \X TaskKinds
    BY <1>1, <2>1 DEF Track, Awaited, CallTyped, TaskKinds
  <2>5. CallTyped'
    BY <1>1, <1>8, <2>3, <2>4 DEF EndHookGrace, CallTyped
  <2> QED BY <2>3, <2>5, TypeParts
<1> QED BY <1>2, <1>3, <1>4, <1>5, <1>6, <1>7, <1>8 DEF Resume

\* A task of an agent finishes.
LEMMA TaskFinishesTyped ==
    ASSUME TypeOK, Tickets, NEW c \in Calls, TaskFinishes(c)
    PROVE  CallTyped' /\ LogTyped' /\ Tickets'
<1> USE DEF callVars, taskVars, closeVars
<1>1. CallTyped /\ LogTyped
  BY TypeParts
<1>2. UNCHANGED <<callVars, logVars, closeVars>>
  BY DEF TaskFinishes, DecideFinishes, HookFinishes
<1>3. LogTyped' /\ Tickets'
  BY <1>2, LogUnchanged
<1>4. task' \in [Calls -> [TaskKinds -> TaskStates]]
  <2>1. CASE DecideFinishes(c)
    BY <1>1, <2>1, AnswersAssumption DEF DecideFinishes, CallTyped, TaskStates, TaskKinds
  <2>2. CASE HookFinishes(c)
    BY <1>1, <2>2 DEF HookFinishes, CallTyped, TaskStates, TaskKinds
  <2> QED BY <2>1, <2>2 DEF TaskFinishes
<1>5. unresolved' \subseteq unresolved
  BY DEF TaskFinishes, DecideFinishes, HookFinishes
<1>6. CallTyped'
  BY <1>1, <1>2, <1>4, <1>5 DEF CallTyped
<1> QED BY <1>3, <1>6, TypeParts

\* The owner cancels a waiting call.
LEMMA CallerCancelsTyped ==
    ASSUME TypeOK, Tickets, NEW c \in Calls, CallerCancels(c)
    PROVE  CallTyped' /\ LogTyped' /\ Tickets'
<1> USE DEF callVars, taskVars, closeVars
<1>1. CallTyped /\ LogTyped /\ pc[c] \in Waiting
  BY TypeParts DEF CallerCancels
<1>2. /\ interrupted' = [interrupted EXCEPT ![c] = TRUE]
      /\ UNCHANGED <<trouble, unresolved, closeVars>>
  BY DEF CallerCancels
<1>3. CASE UNCHANGED <<pc, cancels, task, logVars>>
  <2>1. LogTyped' /\ Tickets'
    BY <1>3, LogUnchanged
  <2>2. CallTyped'
    BY <1>1, <1>2, <1>3 DEF CallTyped
  <2> QED BY <2>1, <2>2, TypeParts
<1>4. CASE /\ Finish(c, "cancelled")
           /\ task' = [task EXCEPT ![c][Awaited(c)] = "done"]
           /\ UNCHANGED cancels
  <2>1. LogTyped' /\ Tickets' /\ pc' = [pc EXCEPT ![c] = "returned"]
    BY <1>1, <1>4, FinishTyped DEF TerminalKinds
  <2>2. task' \in [Calls -> [TaskKinds -> TaskStates]]
    BY <1>1, <1>4 DEF CallTyped, TaskKinds, TaskStates, Awaited
  <2>3. CallTyped'
    BY <1>1, <1>2, <1>4, <2>1, <2>2 DEF CallTyped
  <2> QED BY <2>1, <2>3, TypeParts
<1>5. CASE /\ pc' = [pc EXCEPT ![c] = IF pc[c] = "deciding" THEN "decideGrace" ELSE "hookGrace"]
           /\ cancels' = [cancels EXCEPT ![c] = 1]
           /\ UNCHANGED <<task, logVars>>
  <2>1. LogTyped' /\ Tickets'
    BY <1>1, <1>5, LogUnchanged DEF CallTyped
  <2>2. CallTyped'
    BY <1>1, <1>2, <1>5 DEF CallTyped, Waiting
  <2> QED BY <2>1, <2>2, TypeParts
<1> QED BY <1>3, <1>4, <1>5 DEF CallerCancels

\* A step of aclose.
LEMMA CloseTyped ==
    ASSUME TypeOK, Tickets, Close
    PROVE  CallTyped' /\ LogTyped' /\ Tickets'
<1> USE DEF callVars, taskVars
<1>1. CallTyped /\ LogTyped
  BY TypeParts
<1>2. UNCHANGED <<callVars, taskVars, logVars>>
  BY DEF Close, CloseBegins, CloseCancelsNext, CloseEnds, CloseInterrupted
<1>3. LogTyped' /\ Tickets'
  BY <1>2, LogUnchanged
<1>4. CallTyped'
  BY <1>1, <1>2 DEF CallTyped, Close, CloseBegins, CloseCancelsNext, CloseEnds, CloseInterrupted
<1> QED BY <1>3, <1>4, TypeParts

\* Every step of the boundary keeps the types and the tickets.
LEMMA StepTyped == TypeOK /\ Tickets /\ [Next]_vars => TypeOK' /\ Tickets'
<1> SUFFICES ASSUME TypeOK, Tickets, [Next]_vars PROVE TypeOK' /\ Tickets'
  OBVIOUS
<1>1. CASE UNCHANGED vars
  BY <1>1 DEF vars, callVars, taskVars, logVars, closeVars, TypeOK, Tickets
<1>2. CASE Next
  <2>1. CallTyped' /\ LogTyped' /\ Tickets'
    BY <1>2, ExecuteTyped, ResumeTyped, TaskFinishesTyped, CallerCancelsTyped, CloseTyped DEF Next
  <2>2. OutcomeTyped'
    BY StepEndsOne DEF EndsOne, OutcomeTyped, TypeOK
  <2> QED BY <2>1, <2>2, TypeParts
<1> QED BY <1>1, <1>2

\* Every reachable state is well typed, and a waiting call holds a ticket: the
\* acceptance number that its terminal will carry (_request_trace_sequence).
THEOREM TypeCorrect == Spec => [](TypeOK /\ Tickets)
BY InitTyped, StepTyped, PTL DEF Spec

-----------------------------------------------------------------------------
(* Tasks.                                                                   *)

\* A running task is awaited by its call or registered as unresolved.
Watched ==
    \A c \in Calls : \A k \in TaskKinds :
        task[c][k] = "running" =>
            \/ pc[c] \in Waiting /\ k = Awaited(c)
            \/ <<c, k>> \in unresolved

\* Every step keeps running tasks awaited or registered: no handler drops one.
LEMMA WatchedStep == TypeOK /\ Watched /\ [Next]_vars => Watched'
<1> SUFFICES ASSUME TypeOK, Watched, [Next]_vars,
                    NEW c \in Calls, NEW k \in TaskKinds, task'[c][k] = "running"
             PROVE  \/ pc'[c] \in Waiting /\ k = Awaited(c)'
                    \/ <<c, k>> \in unresolved'
  BY DEF Watched
<1> USE DEF TypeOK, Waiting, TaskKinds
<1>1. CASE UNCHANGED vars
  BY <1>1 DEF vars, callVars, taskVars, Watched, Awaited
<1>2. ASSUME NEW d \in Calls, NEW id \in Ids, Execute(d, id)
      PROVE  \/ pc'[c] \in Waiting /\ k = Awaited(c)'
             \/ <<c, k>> \in unresolved'
  <2>1. pc[d] = "idle" /\ unresolved' = unresolved
    BY <1>2 DEF Execute, ExecuteDuplicate, ExecuteSinkFails, ExecuteMisbound, ExecuteDecide,
                ExecuteExpired, Register, taskVars
  <2>2. pc[d] = "idle" => <<d, "hook">> \in unresolved \/ task[d]["hook"] # "running"
    BY DEF Watched
  <2>3. pc[d] = "idle" => <<d, "decide">> \in unresolved \/ task[d]["decide"] # "running"
    BY DEF Watched
  <2>4. CASE pc' = [pc EXCEPT ![d] = "refused"] \/ pc' = [pc EXCEPT ![d] = "returned"]
    <3>1. task' = task
      BY <1>2, <2>4 DEF Execute, ExecuteDuplicate, ExecuteSinkFails, ExecuteMisbound,
                        ExecuteDecide, ExecuteExpired, taskVars
    <3> QED BY <2>1, <2>2, <2>3, <2>4, <3>1 DEF Watched, Awaited
  <2>5. CASE pc' = [pc EXCEPT ![d] = "deciding"] /\ task' = [task EXCEPT ![d]["decide"] = "running"]
    BY <2>1, <2>2, <2>3, <2>5 DEF Watched, Awaited
  <2>6. CASE pc' = [pc EXCEPT ![d] = "hooking"] /\ task' = [task EXCEPT ![d]["hook"] = "running"]
    BY <2>1, <2>2, <2>3, <2>6 DEF Watched, Awaited
  <2> QED BY <1>2, <2>4, <2>5, <2>6 DEF Execute, ExecuteDuplicate, ExecuteSinkFails,
                                        ExecuteMisbound, ExecuteDecide, ExecuteExpired, Return
<1>3. ASSUME NEW d \in Calls, Resume(d)
      PROVE  \/ pc'[c] \in Waiting /\ k = Awaited(c)'
             \/ <<c, k>> \in unresolved'
  <2>1. CASE TakeResult(d)
    BY <2>1 DEF TakeResult, Finish, Return, Watched, Awaited
  <2>2. CASE DeadlinePasses(d) \/ HookTimesOut(d) \/ CancelAgain(d)
    BY <2>2 DEF DeadlinePasses, HookTimesOut, CancelAgain, taskVars, Watched, Awaited
  <2>3. CASE EndDecideGrace(d)
    <3>1. /\ pc[d] = "decideGrace"
          /\ unresolved \subseteq unresolved'
          /\ task[d]["decide"] = "running" => <<d, "decide">> \in unresolved'
      BY <2>3 DEF EndDecideGrace, Track, Awaited
    <3>2. CASE pc' = [pc EXCEPT ![d] = "returned"] /\ UNCHANGED task
      BY <3>1, <3>2 DEF Watched, Awaited
    <3>3. CASE pc' = [pc EXCEPT ![d] = "hooking"] /\ task' = [task EXCEPT ![d]["hook"] = "running"]
      BY <3>1, <3>3 DEF Watched, Awaited
    <3> QED BY <2>3, <3>2, <3>3 DEF EndDecideGrace, Finish, Return
  <2>4. CASE HookAnswered(d)
    BY <2>4 DEF HookAnswered, Finish, Return, Watched, Awaited
  <2>5. CASE EndHookGrace(d)
    <3>1. /\ pc[d] = "hookGrace"
          /\ unresolved \subseteq unresolved'
          /\ task[d]["hook"] = "running" => <<d, "hook">> \in unresolved'
      BY <2>5 DEF EndHookGrace, Track, Awaited
    <3>2. pc' = [pc EXCEPT ![d] = "returned"] /\ UNCHANGED task
      BY <2>5 DEF EndHookGrace, Finish, Return
    <3> QED BY <3>1, <3>2 DEF Watched, Awaited
  <2> QED BY <1>3, <2>1, <2>2, <2>3, <2>4, <2>5 DEF Resume
<1>4. ASSUME NEW d \in Calls, TaskFinishes(d)
      PROVE  \/ pc'[c] \in Waiting /\ k = Awaited(c)'
             \/ <<c, k>> \in unresolved'
  <2>1. pc' = pc
    BY <1>4 DEF TaskFinishes, DecideFinishes, HookFinishes, callVars
  <2>2. CASE DecideFinishes(d)
    <3>1. PICK v : v # "running" /\ task' = [task EXCEPT ![d]["decide"] = v]
      BY <2>2, AnswersAssumption DEF DecideFinishes, Verdicts
    <3>2. unresolved' = unresolved \ {<<d, "decide">>}
      BY <2>2 DEF DecideFinishes
    <3>3. <<c, k>> # <<d, "decide">> /\ task[c][k] = "running"
      BY <3>1
    <3> QED BY <2>1, <3>2, <3>3 DEF Watched, Awaited
  <2>3. CASE HookFinishes(d)
    <3>1. PICK v : v # "running" /\ task' = [task EXCEPT ![d]["hook"] = v]
      BY <2>3 DEF HookFinishes, HookAnswers
    <3>2. unresolved' = unresolved \ {<<d, "hook">>}
      BY <2>3 DEF HookFinishes
    <3>3. <<c, k>> # <<d, "hook">> /\ task[c][k] = "running"
      BY <3>1
    <3> QED BY <2>1, <3>2, <3>3 DEF Watched, Awaited
  <2> QED BY <1>4, <2>2, <2>3 DEF TaskFinishes
<1>5. ASSUME NEW d \in Calls, CallerCancels(d)
      PROVE  \/ pc'[c] \in Waiting /\ k = Awaited(c)'
             \/ <<c, k>> \in unresolved'
  <2>1. pc[d] \in Waiting /\ unresolved' = unresolved
    BY <1>5 DEF CallerCancels
  <2>2. CASE UNCHANGED <<pc, task>>
    BY <2>1, <2>2 DEF Watched, Awaited
  <2>3. CASE /\ task[d][Awaited(d)] # "running"
             /\ pc' = [pc EXCEPT ![d] = "returned"]
             /\ task' = [task EXCEPT ![d][Awaited(d)] = "done"]
    BY <2>1, <2>3 DEF Watched, Awaited
  <2>4. CASE /\ pc[d] \in {"deciding", "hooking"}
             /\ pc' = [pc EXCEPT ![d] = IF pc[d] = "deciding" THEN "decideGrace" ELSE "hookGrace"]
             /\ UNCHANGED task
    BY <2>1, <2>4 DEF Watched, Awaited
  <2> QED BY <1>5, <2>2, <2>3, <2>4 DEF CallerCancels, Finish, Return
<1>6. ASSUME Close
      PROVE  \/ pc'[c] \in Waiting /\ k = Awaited(c)'
             \/ <<c, k>> \in unresolved'
  BY <1>6 DEF Close, CloseBegins, CloseCancelsNext, CloseEnds, CloseInterrupted, callVars,
              taskVars, Watched, Awaited
<1> QED BY <1>1, <1>2, <1>3, <1>4, <1>5, <1>6 DEF Next

\* aclose returns normally only when no call that has returned has left a task
\* running, even one abandoned after aclose took its snapshot.
THEOREM CleanClose == Spec => CleanCloseLeavesNothing
<1> DEFINE Clean == closing # "clean" /\ closing' = "clean" =>
                      \A c \in Calls : \A k \in TaskKinds :
                        pc[c] = "returned" => task[c][k] # "running"
<1>1. Init => Watched
  BY DEF Init, Watched, TaskKinds
<1>2. Watched /\ [Next]_vars => [Clean]_vars
  <2> SUFFICES ASSUME Watched, Next, closing # "clean", closing' = "clean"
               PROVE  \A c \in Calls : \A k \in TaskKinds :
                        pc[c] = "returned" => task[c][k] # "running"
    OBVIOUS
  <2>1. CloseEnds
    BY DEF Next, Execute, ExecuteDuplicate, ExecuteSinkFails, ExecuteMisbound, ExecuteDecide,
           ExecuteExpired, Resume, TakeResult, DeadlinePasses, CancelAgain, EndDecideGrace,
           HookAnswered, HookTimesOut, EndHookGrace, TaskFinishes, DecideFinishes, HookFinishes,
           CallerCancels, Close, CloseBegins, CloseCancelsNext, CloseInterrupted, closeVars
  <2>2. unresolved = {}
    BY <2>1 DEF CloseEnds
  <2> QED BY <2>2 DEF Watched, Waiting
<1> QED BY <1>1, <1>2, TypeCorrect, WatchedStep, PTL DEF Spec, CleanCloseLeavesNothing


-----------------------------------------------------------------------------
(* The log.                                                                 *)

\* An id is accepted once.
AcceptedOnce == \A i, j \in 1..Len(accepted) : accepted[i] = accepted[j] => i = j

\* A position of accepted belongs to one call.
TicketsDiffer == \A c, d \in Calls : ticket[c] # 0 /\ ticket[c] = ticket[d] => c = d

\* log is a legal log of the requests acc, of which those before nxt are closed
\* (or lost) and those in buf are decided but wait for an earlier one.
LegalBuffer(log, acc, buf, nxt) ==
    \A b \in buf :
        /\ b.seq \in nxt..Len(acc)
        /\ b.id = acc[b.seq]
        /\ \E j \in 1..Len(log) : log[j] = RequestRow(b.id)

LegalRequests(log, acc) ==
    /\ \A i \in 1..Len(log) :
         log[i].kind = "request" => \E n \in 1..Len(acc) : acc[n] = log[i].id
    /\ \A i, j \in 1..Len(log) :
         log[i].kind = "request" /\ log[j].kind = "request" /\ log[i].id = log[j].id => i = j

LegalTerminals(log, acc, nxt) ==
    \A i \in 1..Len(log) : log[i].kind # "request" =>
        /\ \E n \in 1..(nxt - 1) : acc[n] = log[i].id
        /\ \E j \in 1..(i - 1) : log[j] = RequestRow(log[i].id)

LegalOrder(log, acc) ==
    \A i, j \in 1..Len(log) :
        i < j /\ log[i].kind # "request" /\ log[j].kind # "request" =>
            \A m, n \in 1..Len(acc) : acc[m] = log[i].id /\ acc[n] = log[j].id => m < n

LegalLog(log, acc, buf, nxt) ==
    /\ nxt \in 1..(Len(acc) + 1)
    /\ LegalBuffer(log, acc, buf, nxt)
    /\ LegalRequests(log, acc)
    /\ LegalTerminals(log, acc, nxt)
    /\ LegalOrder(log, acc)

\* A waiting call's request is open: in the log and in no way closed.
Open ==
    \A c \in Calls : pc[c] \in Waiting =>
        /\ ticket[c] >= next
        /\ ~Buffered(buffer, ticket[c])
        /\ \E j \in 1..Len(rows) : rows[j] = RequestRow(accepted[ticket[c]])

LogInv ==
    /\ TypeOK
    /\ Tickets
    /\ AcceptedOnce
    /\ TicketsDiffer
    /\ LegalLog(rows, accepted, buffer, next)
    /\ Open

\* Storing the buffered terminals first..last keeps the log legal.
LEMMA StoreLegal ==
    ASSUME NEW acc \in Seq(Ids), NEW log \in Seq(Rows), NEW buf \in SUBSET Terminals,
           NEW first \in Nat, NEW last \in Int, last >= first - 1,
           \A n \in first..last : Buffered(buf, n),
           \A i, j \in 1..Len(acc) : acc[i] = acc[j] => i = j,
           LegalLog(log, acc, buf, first)
    PROVE  LegalLog(log \o Batch(buf, first, last), acc, {b \in buf : b.seq >= last + 1}, last + 1)
<1> DEFINE B == Batch(buf, first, last)
           new == log \o B
<1>1. /\ B \in Seq(Rows)
      /\ Len(B) = last - first + 1
      /\ \A i \in 1..(last - first + 1) :
           \E b \in buf : b.seq = first + i - 1 /\ B[i] = [kind |-> b.kind, id |-> b.id]
  BY BatchTyped
<1> HIDE DEF B
<1>2. Len(log) \in Nat /\ Len(acc) \in Nat /\ first >= 1
  BY DEF LegalLog
<1>3. /\ new \in Seq(Rows)
      /\ Len(new) = Len(log) + (last - first + 1)
      /\ \A i \in 1..Len(log) : new[i] = log[i]
  <2> B \in Seq(Rows)
    BY <1>1
  <2>1. new \in Seq(Rows) /\ Len(new) = Len(log) + Len(B)
    BY ConcatProperties
  <2>2. \A i \in 1..(Len(log) + Len(B)) : new[i] = IF i <= Len(log) THEN log[i] ELSE B[i - Len(log)]
    BY ConcatProperties
  <2>3. \A i \in 1..Len(log) : i \in 1..(Len(log) + Len(B)) /\ i <= Len(log)
    BY <1>1, <1>2
  <2>4. \A i \in 1..Len(log) : new[i] = log[i]
    BY <2>2, <2>3
  <2> QED BY <1>1, <2>1, <2>4
<1>4. \A i \in 1..Len(new) : i > Len(log) =>
        /\ first + (i - Len(log)) - 1 \in first..last
        /\ first + (i - Len(log)) - 1 <= Len(acc)
        /\ new[i].kind # "request"
        /\ new[i].id = acc[first + (i - Len(log)) - 1]
        /\ \E j \in 1..Len(log) : log[j] = RequestRow(new[i].id)
  <2> SUFFICES ASSUME NEW i \in 1..Len(new), i > Len(log)
               PROVE  /\ first + (i - Len(log)) - 1 \in first..last
                      /\ first + (i - Len(log)) - 1 <= Len(acc)
                      /\ new[i].kind # "request"
                      /\ new[i].id = acc[first + (i - Len(log)) - 1]
                      /\ \E j \in 1..Len(log) : log[j] = RequestRow(new[i].id)
    OBVIOUS
  <2>1. i - Len(log) \in 1..(last - first + 1) /\ new[i] = B[i - Len(log)]
    BY <1>1, <1>2, <1>3
  <2>2. PICK b \in buf : /\ b.seq = first + (i - Len(log)) - 1
                         /\ new[i] = [kind |-> b.kind, id |-> b.id]
    BY <1>1, <2>1
  <2>3. b.seq \in first..Len(acc) /\ b.id = acc[b.seq] /\ \E j \in 1..Len(log) : log[j] = RequestRow(b.id)
    BY DEF LegalLog, LegalBuffer
  <2>4. b.kind # "request"
    BY DEF Terminals, TerminalKinds
  <2>5. b.seq \in first..last
    BY <1>2, <2>1, <2>2
  <2> QED BY <1>2, <2>2, <2>3, <2>4, <2>5
<1> HIDE DEF new
<1>5. last <= Len(acc) /\ last + 1 \in 1..(Len(acc) + 1)
  <2>1. CASE last = first - 1
    BY <1>2, <2>1 DEF LegalLog
  <2>2. CASE last >= first
    <3>1. Len(new) \in 1..Len(new) /\ Len(new) > Len(log)
      BY <1>2, <1>3, <2>2
    <3> QED BY <1>2, <1>3, <1>4, <3>1, <2>2
  <2> QED BY <1>2, <2>1, <2>2
<1>6. LegalBuffer(new, acc, {b \in buf : b.seq >= last + 1}, last + 1)
  <2> SUFFICES ASSUME NEW b \in buf, b.seq >= last + 1
               PROVE  /\ b.seq \in (last + 1)..Len(acc)
                      /\ b.id = acc[b.seq]
                      /\ \E j \in 1..Len(new) : new[j] = RequestRow(b.id)
    BY DEF LegalBuffer
  <2>1. b.seq \in first..Len(acc) /\ b.id = acc[b.seq]
    BY DEF LegalLog, LegalBuffer
  <2>2. PICK j \in 1..Len(log) : log[j] = RequestRow(b.id)
    BY DEF LegalLog, LegalBuffer
  <2>3. j \in 1..Len(new) /\ new[j] = RequestRow(b.id)
    BY <1>2, <1>3, <2>2
  <2> QED BY <1>2, <2>1, <2>3
<1>7. LegalRequests(new, acc)
  <2>1. ASSUME NEW i \in 1..Len(new), new[i].kind = "request"
        PROVE  i \in 1..Len(log) /\ new[i] = log[i]
    <3>1. ~(i > Len(log))
      BY <1>4, <2>1
    <3>2. i \in 1..Len(log)
      BY <1>2, <1>3, <3>1
    <3> QED BY <1>3, <3>2
  <2>2. ASSUME NEW i \in 1..Len(new), new[i].kind = "request"
        PROVE  \E n \in 1..Len(acc) : acc[n] = new[i].id
    BY <2>1, <2>2 DEF LegalLog, LegalRequests
  <2>3. ASSUME NEW i \in 1..Len(new), NEW j \in 1..Len(new), new[i].kind = "request",
               new[j].kind = "request", new[i].id = new[j].id
        PROVE  i = j
    BY <2>1, <2>3 DEF LegalLog, LegalRequests
  <2> QED BY <2>2, <2>3 DEF LegalRequests
<1>8. LegalTerminals(new, acc, last + 1)
  <2> SUFFICES ASSUME NEW i \in 1..Len(new), new[i].kind # "request"
               PROVE  /\ \E n \in 1..((last + 1) - 1) : acc[n] = new[i].id
                      /\ \E j \in 1..(i - 1) : new[j] = RequestRow(new[i].id)
    BY DEF LegalTerminals
  <2>1. CASE i \in 1..Len(log)
    <3>1. PICK n \in 1..(first - 1) : acc[n] = log[i].id
      BY <1>3, <2>1 DEF LegalLog, LegalTerminals
    <3>2. PICK j \in 1..(i - 1) : log[j] = RequestRow(log[i].id)
      BY <1>3, <2>1 DEF LegalLog, LegalTerminals
    <3>3. n \in 1..((last + 1) - 1) /\ j \in 1..Len(log)
      BY <1>2, <2>1
    <3> QED BY <1>3, <2>1, <3>1, <3>2, <3>3
  <2>2. CASE i > Len(log)
    <3>1. PICK j \in 1..Len(log) : log[j] = RequestRow(new[i].id)
      BY <1>4, <2>2
    <3>2. j \in 1..(i - 1) /\ new[j] = log[j]
      BY <1>2, <1>3, <2>2
    <3>3. first + (i - Len(log)) - 1 \in 1..((last + 1) - 1)
      BY <1>2, <1>4, <2>2
    <3> QED BY <1>4, <2>2, <3>1, <3>2, <3>3
  <2> QED BY <1>2, <1>3, <2>1, <2>2
<1>9. ASSUME NEW i \in 1..Len(new), i > Len(log), NEW n \in 1..Len(acc), acc[n] = new[i].id
      PROVE  n = first + (i - Len(log)) - 1
  <2> DEFINE m == first + (i - Len(log)) - 1
  <2>1. m \in first..last /\ m <= Len(acc) /\ acc[m] = new[i].id
    BY <1>4, <1>9
  <2> HIDE DEF m
  <2>2. m \in 1..Len(acc)
    BY <1>2, <2>1
  <2>3. n = m
    BY <1>9, <2>1, <2>2
  <2> QED BY <2>3 DEF m
<1>10. LegalOrder(new, acc)
  <2> SUFFICES ASSUME NEW i \in 1..Len(new), NEW j \in 1..Len(new), i < j,
                      new[i].kind # "request", new[j].kind # "request",
                      NEW m \in 1..Len(acc), NEW n \in 1..Len(acc),
                      acc[m] = new[i].id, acc[n] = new[j].id
               PROVE  m < n
    BY DEF LegalOrder
  <2>1. CASE j <= Len(log)
    <3> /\ i \in 1..Len(log) /\ new[i] = log[i]
        /\ j \in 1..Len(log) /\ new[j] = log[j]
      BY <1>2, <1>3, <2>1, SMTT(20)
    <3> QED BY DEF LegalLog, LegalOrder
  <2>2. CASE i <= Len(log) /\ j > Len(log)
    <3> i \in 1..Len(log) /\ new[i] = log[i]
      BY <1>2, <1>3, <2>2
    <3>1. PICK k \in 1..(first - 1) : acc[k] = new[i].id
      BY DEF LegalLog, LegalTerminals
    <3>2. k \in 1..Len(acc)
      BY <1>2, <3>1 DEF LegalLog
    <3>3. k = m
      BY <3>1, <3>2
    <3>4. n = first + (j - Len(log)) - 1
      BY <1>9, <2>2
    <3> QED BY <1>2, <2>2, <3>1, <3>3, <3>4
  <2>3. CASE i > Len(log)
    <3>1. j > Len(log)
      BY <1>2, <2>3
    <3>2. m = first + (i - Len(log)) - 1
      BY <1>9, <2>3
    <3>3. n = first + (j - Len(log)) - 1
      BY <1>9, <3>1
    <3> QED BY <1>2, <3>2, <3>3, SMTT(20)
  <2> QED BY <1>2, <1>3, <2>1, <2>2, <2>3
<1> QED BY <1>5, <1>6, <1>7, <1>8, <1>10 DEF LegalLog, new, B

\* A terminal that the trace callback lost leaves the log legal.
LEMMA LoseLegal ==
    ASSUME NEW acc \in Seq(Ids), NEW log \in Seq(Rows), NEW buf \in SUBSET Terminals,
           NEW lost \in Nat, lost <= Len(acc), LegalLog(log, acc, buf, lost)
    PROVE  LegalLog(log, acc, {b \in buf : b.seq >= lost + 1}, lost + 1)
<1>1. lost + 1 \in 1..(Len(acc) + 1)
  BY DEF LegalLog
<1>2. LegalBuffer(log, acc, {b \in buf : b.seq >= lost + 1}, lost + 1)
  <2> SUFFICES ASSUME NEW b \in buf, b.seq >= lost + 1
               PROVE  /\ b.seq \in (lost + 1)..Len(acc)
                      /\ b.id = acc[b.seq]
                      /\ \E j \in 1..Len(log) : log[j] = RequestRow(b.id)
    BY DEF LegalBuffer
  <2>1. /\ b.seq \in lost..Len(acc)
        /\ b.id = acc[b.seq]
        /\ \E j \in 1..Len(log) : log[j] = RequestRow(b.id)
    BY DEF LegalLog, LegalBuffer
  <2> QED BY <2>1
<1>3. LegalTerminals(log, acc, lost + 1)
  <2> SUFFICES ASSUME NEW i \in 1..Len(log), log[i].kind # "request"
               PROVE  /\ \E n \in 1..((lost + 1) - 1) : acc[n] = log[i].id
                      /\ \E j \in 1..(i - 1) : log[j] = RequestRow(log[i].id)
    BY DEF LegalTerminals
  <2>1. PICK n \in 1..(lost - 1) : acc[n] = log[i].id
    BY DEF LegalLog, LegalTerminals
  <2>2. \E j \in 1..(i - 1) : log[j] = RequestRow(log[i].id)
    BY DEF LegalLog, LegalTerminals
  <2>3. n \in 1..((lost + 1) - 1)
    OBVIOUS
  <2> QED BY <2>1, <2>2, <2>3
<1> QED BY <1>1, <1>2, <1>3 DEF LegalLog


\* What a commit does to the log base: it stays legal and only grows, and a
\* request that is still open stays so.
LEMMA CommitLegal ==
    ASSUME TypeOK, NEW base \in Seq(Rows), NEW seq \in next..Len(accepted'), NEW id \in Ids,
           NEW kind \in TerminalKinds, accepted' \in Seq(Ids), accepted'[seq] = id,
           AcceptedOnce', LegalLog(base, accepted', buffer, next),
           \E j \in 1..Len(base) : base[j] = RequestRow(id),
           CommitTerminal(base, seq, id, kind)
    PROVE  /\ LegalLog(rows', accepted', buffer', next')
           /\ \A j \in 1..Len(base) : j \in 1..Len(rows') /\ rows'[j] = base[j]
           /\ \A n \in Nat : n >= next /\ n # seq /\ ~Buffered(buffer, n) =>
                n >= next' /\ ~Buffered(buffer', n)
<1> DEFINE filled == buffer \cup {[seq |-> seq, id |-> id, kind |-> kind]}
<1>1. next \in Nat /\ Len(accepted') \in Nat /\ seq \in Nat
  BY DEF TypeOK
<1>2. filled \in SUBSET Terminals
  BY <1>1 DEF TypeOK, Terminals
<1>3. LegalLog(base, accepted', filled, next)
  BY DEF LegalLog, LegalBuffer
<1>4. PICK last \in next..(Len(accepted') + 1) :
        /\ EndOfPrefix(filled, next, last)
        /\ \/ /\ rows' = base \o Batch(filled, next, last - 1)
              /\ next' = last
           \/ \E lost \in next..(last - 1) :
                /\ rows' = base \o Batch(filled, next, lost - 1)
                /\ next' = lost + 1
        /\ buffer' = {b \in filled : b.seq >= next'}
  BY DEF CommitTerminal
<1>5. \A n \in Nat : n # seq /\ ~Buffered(buffer, n) => ~Buffered(filled, n)
  BY DEF Buffered
<1> HIDE DEF filled
<1>6. \A n \in next..(last - 1) : Buffered(filled, n)
  BY <1>4 DEF EndOfPrefix
<1>7. \A i, j \in 1..Len(accepted') : accepted'[i] = accepted'[j] => i = j
  BY DEF AcceptedOnce
<1>8. \E n1 \in next..last :
        /\ rows' = base \o Batch(filled, next, n1 - 1)
        /\ \/ next' = n1
           \/ next' = n1 + 1 /\ n1 < last
  <2>1. CASE rows' = base \o Batch(filled, next, last - 1) /\ next' = last
    BY <1>1, <2>1, SMTT(20)
  <2>2. ASSUME NEW lost \in next..(last - 1),
               rows' = base \o Batch(filled, next, lost - 1), next' = lost + 1
        PROVE  /\ lost \in next..last
               /\ rows' = base \o Batch(filled, next, lost - 1)
               /\ next' = lost + 1 /\ lost < last
    BY <1>1, <2>2
  <2> QED BY <1>4, <2>1, <2>2
<1>9. PICK n1 \in next..last :
        /\ rows' = base \o Batch(filled, next, n1 - 1)
        /\ \/ next' = n1
           \/ next' = n1 + 1 /\ n1 < last
  BY <1>8
<1>10. /\ n1 - 1 \in Int
       /\ n1 - 1 >= next - 1
       /\ \A n \in next..(n1 - 1) : Buffered(filled, n)
       /\ (n1 - 1) + 1 = n1
  BY <1>1, <1>6
<1>11. LegalLog(rows', accepted', {b \in filled : b.seq >= n1}, n1)
  <2>1. LegalLog(base \o Batch(filled, next, n1 - 1), accepted',
                 {b \in filled : b.seq >= (n1 - 1) + 1}, (n1 - 1) + 1)
    BY <1>1, <1>2, <1>3, <1>7, <1>10, StoreLegal
  <2> QED BY <1>9, <1>10, <2>1
<1>12. Batch(filled, next, n1 - 1) \in Seq(Rows)
  BY <1>1, <1>2, <1>10, BatchTyped
<1>13. rows' \in Seq(Rows) /\ \A j \in 1..Len(base) : j \in 1..Len(rows') /\ rows'[j] = base[j]
  <2> DEFINE B == Batch(filled, next, n1 - 1)
  <2>1. rows' = base \o B /\ B \in Seq(Rows)
    BY <1>9, <1>12
  <2> HIDE DEF B
  <2>2. /\ base \o B \in Seq(Rows)
        /\ Len(base \o B) = Len(base) + Len(B)
        /\ \A i \in 1..(Len(base) + Len(B)) :
             (base \o B)[i] = IF i <= Len(base) THEN base[i] ELSE B[i - Len(base)]
    BY <2>1, ConcatProperties
  <2>3. \A j \in 1..Len(base) : j \in 1..(Len(base) + Len(B)) /\ j <= Len(base)
    BY <2>1
  <2> QED BY <2>1, <2>2, <2>3
<1>14. LegalLog(rows', accepted', buffer', next')
  <2>1. CASE next' = n1
    BY <1>4, <1>11, <2>1
  <2>2. CASE next' = n1 + 1 /\ n1 < last
    <3>1. n1 \in Nat /\ n1 <= Len(accepted')
      BY <1>1, <2>2
    <3>2. {b \in filled : b.seq >= n1} \in SUBSET Terminals
      BY <1>2
    <3>3. LegalLog(rows', accepted', {b \in {t \in filled : t.seq >= n1} : b.seq >= n1 + 1}, n1 + 1)
      BY <1>11, <1>13, <3>1, <3>2, LoseLegal
    <3>4. {b \in {t \in filled : t.seq >= n1} : b.seq >= n1 + 1} = buffer'
      <4>1. \A b \in filled : b.seq \in Nat
        BY <1>2 DEF Terminals
      <4> QED BY <1>4, <2>2, <3>1, <4>1
    <3> QED BY <2>2, <3>3, <3>4
  <2> QED BY <1>9, <2>1, <2>2
<1>15. ASSUME NEW n \in Nat, n >= next, n # seq, ~Buffered(buffer, n)
       PROVE  n >= next' /\ ~Buffered(buffer', n)
  <2>1. ~Buffered(filled, n)
    BY <1>5, <1>15
  <2>2. n >= last
    BY <1>1, <1>6, <1>15, <2>1
  <2>3. next' <= last
    BY <1>1, <1>9
  <2>4. ~Buffered(buffer', n)
    BY <1>4, <2>1 DEF Buffered
  <2> QED BY <1>1, <1>9, <2>2, <2>3, <2>4
<1> QED BY <1>13, <1>14, <1>15


\* Accepting one more request, with or without its request row, keeps the log
\* legal.
LEMMA AcceptLegal ==
    ASSUME LogInv, NEW c \in Calls, NEW id \in Ids, Register(c, id)
    PROVE  /\ AcceptedOnce'
           /\ TicketsDiffer'
           /\ LegalLog(rows, accepted', buffer, next)
           /\ LegalLog(Append(rows, RequestRow(id)), accepted', buffer, next)
           /\ next <= Len(accepted')
           /\ \A n \in 1..Len(accepted) : accepted'[n] = accepted[n]
           /\ accepted'[Len(accepted')] = id
<1> USE DEF LogInv
<1>1. /\ accepted' \in Seq(Ids)
      /\ Len(accepted') = Len(accepted) + 1
      /\ accepted \in Seq(Ids)
      /\ Len(accepted) \in Nat
      /\ rows \in Seq(Rows)
      /\ next \in Nat
  BY RegisterTyped DEF TypeOK
<1>2. /\ \A n \in 1..Len(accepted) : accepted'[n] = accepted[n]
      /\ accepted'[Len(accepted')] = id
  BY <1>1 DEF Register
<1>3. \A n \in 1..Len(accepted) : accepted[n] # id
  BY <1>1 DEF Register
<1>4. AcceptedOnce'
  <2> SUFFICES ASSUME NEW i \in 1..Len(accepted'), NEW j \in 1..Len(accepted'),
                      accepted'[i] = accepted'[j]
               PROVE  i = j
    BY DEF AcceptedOnce
  <2>1. (i \in 1..Len(accepted) \/ i = Len(accepted')) /\ (j \in 1..Len(accepted) \/ j = Len(accepted'))
    BY <1>1
  <2> QED BY <1>1, <1>2, <1>3, <2>1 DEF AcceptedOnce
<1>5. TicketsDiffer'
  <2>1. \A d \in Calls : ticket[d] # Len(accepted) + 1
    BY <1>1 DEF Tickets, TypeOK
  <2> QED BY <2>1, RegisterTyped DEF TicketsDiffer
<1>6. \A log, nxt : LegalTerminals(log, accepted, nxt) /\ nxt \in 1..(Len(accepted) + 1)
        => LegalTerminals(log, accepted', nxt)
  <2> SUFFICES ASSUME NEW log, NEW nxt, nxt \in 1..(Len(accepted) + 1),
                      LegalTerminals(log, accepted, nxt),
                      NEW i \in 1..Len(log), log[i].kind # "request"
               PROVE  /\ \E n \in 1..(nxt - 1) : accepted'[n] = log[i].id
                      /\ \E j \in 1..(i - 1) : log[j] = RequestRow(log[i].id)
    BY DEF LegalTerminals
  <2>1. PICK n \in 1..(nxt - 1) : accepted[n] = log[i].id
    BY DEF LegalTerminals
  <2>2. n \in 1..Len(accepted)
    BY <1>1
  <2>3. \E j \in 1..(i - 1) : log[j] = RequestRow(log[i].id)
    BY DEF LegalTerminals
  <2> QED BY <1>2, <2>1, <2>2, <2>3
<1>7. \A i \in 1..Len(rows) : \E n \in 1..Len(accepted) : accepted[n] = rows[i].id
  <2> TAKE i \in 1..Len(rows)
  <2>1. CASE rows[i].kind = "request"
    BY <2>1 DEF LegalLog, LegalRequests
  <2>2. CASE rows[i].kind # "request"
    <3>1. PICK n \in 1..(next - 1) : accepted[n] = rows[i].id
      BY <2>2 DEF LegalLog, LegalTerminals
    <3>2. n \in 1..Len(accepted)
      BY <1>1, <3>1 DEF LegalLog
    <3> QED BY <3>1, <3>2
  <2> QED BY <2>1, <2>2
<1>8. LegalLog(rows, accepted', buffer, next)
  <2>1. next \in 1..(Len(accepted') + 1)
    BY <1>1 DEF LegalLog
  <2>2. LegalBuffer(rows, accepted', buffer, next)
    <3> SUFFICES ASSUME NEW b \in buffer
                 PROVE  /\ b.seq \in next..Len(accepted')
                        /\ b.id = accepted'[b.seq]
                        /\ \E j \in 1..Len(rows) : rows[j] = RequestRow(b.id)
      BY DEF LegalBuffer
    <3>1. /\ b.seq \in next..Len(accepted)
          /\ b.id = accepted[b.seq]
          /\ \E j \in 1..Len(rows) : rows[j] = RequestRow(b.id)
      BY DEF LegalLog, LegalBuffer
    <3>2. b.seq \in 1..Len(accepted)
      BY <1>1, <3>1 DEF LegalLog
    <3> QED BY <1>1, <1>2, <3>1, <3>2
  <2>3. LegalRequests(rows, accepted')
    <3>1. \A i \in 1..Len(rows) : \E n \in 1..Len(accepted') : accepted'[n] = rows[i].id
      <4> TAKE i \in 1..Len(rows)
      <4>1. PICK n \in 1..Len(accepted) : accepted[n] = rows[i].id
        BY <1>7
      <4>2. n \in 1..Len(accepted') /\ accepted'[n] = accepted[n]
        BY <1>1, <1>2
      <4> QED BY <4>1, <4>2
    <3> QED BY <3>1 DEF LegalLog, LegalRequests
  <2>4. LegalTerminals(rows, accepted', next)
    BY <1>6 DEF LegalLog
  <2>5. LegalOrder(rows, accepted')
    <3> SUFFICES ASSUME NEW i \in 1..Len(rows), NEW j \in 1..Len(rows), i < j,
                        rows[i].kind # "request", rows[j].kind # "request",
                        NEW m \in 1..Len(accepted'), NEW n \in 1..Len(accepted'),
                        accepted'[m] = rows[i].id, accepted'[n] = rows[j].id
                 PROVE  m < n
      BY DEF LegalOrder
    <3>1. rows[i].id # id /\ rows[j].id # id
      BY <1>3, <1>7
    <3>2. m \in 1..Len(accepted) /\ n \in 1..Len(accepted)
      BY <1>1, <1>2, <3>1
    <3> QED BY <1>2, <3>2 DEF LegalLog, LegalOrder
  <2> QED BY <2>1, <2>2, <2>3, <2>4, <2>5 DEF LegalLog
<1> DEFINE base == Append(rows, RequestRow(id))
<1>9. /\ Len(base) = Len(rows) + 1
      /\ \A i \in 1..Len(rows) : base[i] = rows[i]
      /\ base[Len(base)] = RequestRow(id)
      /\ \A i \in 1..Len(base) : i \in 1..Len(rows) \/ i = Len(base)
      /\ \A i \in 1..Len(rows) : i \in 1..Len(base)
  BY <1>1
<1> HIDE DEF base
<1>10. \A i \in 1..Len(base) : base[i].kind # "request" => i \in 1..Len(rows) /\ base[i] = rows[i]
  BY <1>9 DEF RequestRow
<1>11. LegalLog(base, accepted', buffer, next)
  <2>1. LegalBuffer(base, accepted', buffer, next)
    BY <1>8, <1>9 DEF LegalLog, LegalBuffer
  <2>2. LegalRequests(base, accepted')
    <3>1. \A i \in 1..Len(base) : \E n \in 1..Len(accepted') : accepted'[n] = base[i].id
      <4> TAKE i \in 1..Len(base)
      <4>1. CASE i \in 1..Len(rows)
        <5>1. PICK n \in 1..Len(accepted) : accepted[n] = rows[i].id
          BY <1>7, <4>1
        <5>2. n \in 1..Len(accepted') /\ accepted'[n] = base[i].id
          BY <1>1, <1>2, <1>9, <4>1, <5>1
        <5> QED BY <5>2
      <4>2. CASE i = Len(base)
        <5>1. Len(accepted') \in 1..Len(accepted') /\ base[i].id = id
          BY <1>1, <1>9, <4>2 DEF RequestRow
        <5> QED BY <1>2, <5>1
      <4> QED BY <1>9, <4>1, <4>2
    <3>2. ASSUME NEW i \in 1..Len(base), NEW j \in 1..Len(base), base[i].kind = "request",
                 base[j].kind = "request", base[i].id = base[j].id
          PROVE  i = j
      <4>1. \A k \in 1..Len(rows) : rows[k].id # id
        BY <1>3, <1>7
      <4>2. base[Len(base)].id = id
        BY <1>9 DEF RequestRow
      <4>3. CASE i \in 1..Len(rows) /\ j \in 1..Len(rows)
        BY <1>9, <3>2, <4>3 DEF LegalLog, LegalRequests
      <4> QED BY <1>9, <3>2, <4>1, <4>2, <4>3
    <3> QED BY <3>1, <3>2 DEF LegalRequests
  <2>3. LegalTerminals(base, accepted', next)
    <3> SUFFICES ASSUME NEW i \in 1..Len(base), base[i].kind # "request"
                 PROVE  /\ \E n \in 1..(next - 1) : accepted'[n] = base[i].id
                        /\ \E j \in 1..(i - 1) : base[j] = RequestRow(base[i].id)
      BY DEF LegalTerminals
    <3>1. i \in 1..Len(rows) /\ base[i] = rows[i]
      BY <1>10
    <3>2. \E n \in 1..(next - 1) : accepted'[n] = rows[i].id
      BY <1>8, <3>1 DEF LegalLog, LegalTerminals
    <3>3. PICK j \in 1..(i - 1) : rows[j] = RequestRow(rows[i].id)
      BY <1>8, <3>1 DEF LegalLog, LegalTerminals
    <3>4. j \in 1..Len(rows)
      BY <1>1, <3>1
    <3> QED BY <1>9, <3>1, <3>2, <3>3, <3>4
  <2>4. LegalOrder(base, accepted')
    BY <1>8, <1>10, SMTT(20) DEF LegalLog, LegalOrder
  <2> QED BY <1>8, <2>1, <2>2, <2>3, <2>4 DEF LegalLog
<1>12. next <= Len(accepted')
  BY <1>1 DEF LegalLog
<1> QED BY <1>2, <1>4, <1>5, <1>8, <1>11, <1>12 DEF base


\* The parts of LogInv that no type lemma covers.
Pairing == AcceptedOnce /\ TicketsDiffer /\ LegalLog(rows, accepted, buffer, next) /\ Open

\* The end of a waiting call keeps the log legal and the other requests open.
LEMMA FinishLegal ==
    ASSUME LogInv, NEW c \in Calls, pc[c] \in Waiting, NEW kind \in TerminalKinds,
           Finish(c, kind)
    PROVE  Pairing'
<1> USE DEF LogInv
<1>1. /\ accepted' = accepted
      /\ ticket' = ticket
      /\ pc' = [pc EXCEPT ![c] = "returned"]
      /\ CommitTerminal(rows, ticket[c], accepted[ticket[c]], kind)
  BY DEF Finish, Return
<1>2. /\ accepted \in Seq(Ids)
      /\ rows \in Seq(Rows)
      /\ next \in Nat
      /\ ticket \in [Calls -> Nat]
      /\ ticket[c] \in 1..Len(accepted)
      /\ ticket[c] \in next..Len(accepted')
      /\ accepted[ticket[c]] \in Ids
      /\ \E j \in 1..Len(rows) : rows[j] = RequestRow(accepted[ticket[c]])
  BY <1>1 DEF TypeOK, Tickets, Open
<1>3. AcceptedOnce' /\ TicketsDiffer'
  BY <1>1 DEF AcceptedOnce, TicketsDiffer
<1>4. LegalLog(rows, accepted', buffer, next)
  BY <1>1
<1>5. /\ LegalLog(rows', accepted', buffer', next')
      /\ \A j \in 1..Len(rows) : j \in 1..Len(rows') /\ rows'[j] = rows[j]
      /\ \A n \in Nat : n >= next /\ n # ticket[c] /\ ~Buffered(buffer, n) =>
           n >= next' /\ ~Buffered(buffer', n)
  <2>1. accepted' \in Seq(Ids) /\ accepted'[ticket[c]] = accepted[ticket[c]]
    BY <1>1, <1>2
  <2> QED BY <1>1, <1>2, <1>3, <1>4, <2>1, CommitLegal
<1>6. Open'
  <2> SUFFICES ASSUME NEW d \in Calls, pc'[d] \in Waiting
               PROVE  /\ ticket'[d] >= next'
                      /\ ~Buffered(buffer', ticket'[d])
                      /\ \E j \in 1..Len(rows') : rows'[j] = RequestRow(accepted'[ticket'[d]])
    BY DEF Open
  <2>1. d # c /\ pc[d] \in Waiting
    BY <1>1 DEF TypeOK, Waiting
  <2>2. ticket[d] # ticket[c] /\ ticket[d] \in Nat
    BY <1>2, <2>1 DEF TicketsDiffer, Tickets
  <2>3. ticket[d] >= next /\ ~Buffered(buffer, ticket[d])
    BY <2>1 DEF Open
  <2>4. PICK j \in 1..Len(rows) : rows[j] = RequestRow(accepted[ticket[d]])
    BY <2>1 DEF Open
  <2> QED BY <1>1, <1>5, <2>2, <2>3, <2>4
<1> QED BY <1>3, <1>5, <1>6 DEF Pairing

\* A call that is closed on acceptance keeps the log legal.
LEMMA RegisterCommitLegal ==
    ASSUME LogInv, NEW c \in Calls, NEW id \in Ids, NEW kind \in TerminalKinds,
           Register(c, id), pc' = [pc EXCEPT ![c] = "returned"],
           CommitTerminal(Append(rows, RequestRow(id)), Len(accepted) + 1, id, kind)
    PROVE  Pairing'
<1> USE DEF LogInv
<1> DEFINE base == Append(rows, RequestRow(id))
<1>1. /\ AcceptedOnce'
      /\ TicketsDiffer'
      /\ LegalLog(base, accepted', buffer, next)
      /\ next <= Len(accepted')
      /\ \A n \in 1..Len(accepted) : accepted'[n] = accepted[n]
      /\ accepted'[Len(accepted')] = id
  BY AcceptLegal
<1>2. /\ accepted' \in Seq(Ids)
      /\ Len(accepted') = Len(accepted) + 1
      /\ \A d \in Calls : d # c => ticket'[d] = ticket[d]
  BY RegisterTyped
<1>3. /\ base \in Seq(Rows)
      /\ Len(base) = Len(rows) + 1
      /\ base[Len(base)] = RequestRow(id)
      /\ \A j \in 1..Len(rows) : j \in 1..Len(base) /\ base[j] = rows[j]
      /\ Len(base) \in 1..Len(base)
  BY DEF TypeOK, RequestRow, Rows
<1>4. Len(accepted) \in Nat /\ next \in Nat /\ Len(accepted) + 1 \in next..Len(accepted')
  BY <1>1, <1>2 DEF TypeOK
<1> HIDE DEF base
<1>5. /\ LegalLog(rows', accepted', buffer', next')
      /\ \A j \in 1..Len(base) : j \in 1..Len(rows') /\ rows'[j] = base[j]
      /\ \A n \in Nat : n >= next /\ n # Len(accepted) + 1 /\ ~Buffered(buffer, n) =>
           n >= next' /\ ~Buffered(buffer', n)
  <2>1. CommitTerminal(base, Len(accepted) + 1, id, kind)
    BY DEF base
  <2>2. \E j \in 1..Len(base) : base[j] = RequestRow(id)
    BY <1>3
  <2>3. accepted'[Len(accepted) + 1] = id
    BY <1>1, <1>2
  <2> QED BY <1>1, <1>2, <1>3, <1>4, <2>1, <2>2, <2>3, CommitLegal
<1>6. Open'
  <2> SUFFICES ASSUME NEW d \in Calls, pc'[d] \in Waiting
               PROVE  /\ ticket'[d] >= next'
                      /\ ~Buffered(buffer', ticket'[d])
                      /\ \E j \in 1..Len(rows') : rows'[j] = RequestRow(accepted'[ticket'[d]])
    BY DEF Open
  <2>1. d # c /\ pc[d] \in Waiting /\ ticket'[d] = ticket[d]
    BY <1>2 DEF TypeOK, Waiting
  <2>2. ticket[d] \in 1..Len(accepted) /\ ticket[d] # Len(accepted) + 1
    BY <1>4, <2>1 DEF Tickets, TypeOK
  <2>3. ticket[d] >= next /\ ~Buffered(buffer, ticket[d])
    BY <2>1 DEF Open
  <2>4. PICK j \in 1..Len(rows) : rows[j] = RequestRow(accepted[ticket[d]])
    BY <2>1 DEF Open
  <2>5. j \in 1..Len(rows') /\ rows'[j] = RequestRow(accepted'[ticket[d]])
    BY <1>1, <1>3, <1>5, <2>2, <2>4
  <2> QED BY <1>5, <2>1, <2>2, <2>3, <2>5
<1> QED BY <1>1, <1>5, <1>6 DEF Pairing

\* A call whose request row was stored, or lost with its trace callback raising,
\* keeps the log legal; in the first case its request is open.
LEMMA RegisterLegal ==
    ASSUME LogInv, NEW c \in Calls, NEW id \in Ids, Register(c, id),
           UNCHANGED <<buffer, next>>,
           NEW p \in {"returned"} \cup Waiting, pc' = [pc EXCEPT ![c] = p],
           \/ rows' = Append(rows, RequestRow(id))
           \/ rows' = rows /\ p = "returned"
    PROVE  Pairing'
<1> USE DEF LogInv
<1>1. /\ AcceptedOnce'
      /\ TicketsDiffer'
      /\ LegalLog(rows', accepted', buffer', next')
      /\ next <= Len(accepted')
      /\ \A n \in 1..Len(accepted) : accepted'[n] = accepted[n]
      /\ accepted'[Len(accepted')] = id
  BY AcceptLegal
<1>2. /\ Len(accepted') = Len(accepted) + 1
      /\ Len(accepted) \in Nat
      /\ ticket'[c] = Len(accepted')
      /\ \A d \in Calls : d # c => ticket'[d] = ticket[d]
  BY RegisterTyped DEF TypeOK
<1>3. \A j \in 1..Len(rows) : j \in 1..Len(rows') /\ rows'[j] = rows[j]
  <2>1. rows \in Seq(Rows)
    BY DEF TypeOK
  <2> QED BY <2>1
<1>4. Open'
  <2> SUFFICES ASSUME NEW d \in Calls, pc'[d] \in Waiting
               PROVE  /\ ticket'[d] >= next'
                      /\ ~Buffered(buffer', ticket'[d])
                      /\ \E j \in 1..Len(rows') : rows'[j] = RequestRow(accepted'[ticket'[d]])
    BY DEF Open
  <2>1. CASE d # c
    <3>1. pc[d] \in Waiting /\ ticket'[d] = ticket[d]
      BY <1>2, <2>1 DEF TypeOK
    <3>2. ticket[d] \in 1..Len(accepted)
      BY <3>1 DEF Tickets, TypeOK
    <3>3. PICK j \in 1..Len(rows) : rows[j] = RequestRow(accepted[ticket[d]])
      BY <3>1 DEF Open
    <3>4. ticket[d] >= next /\ ~Buffered(buffer, ticket[d])
      BY <3>1 DEF Open
    <3> QED BY <1>1, <1>3, <3>1, <3>2, <3>3, <3>4
  <2>2. CASE d = c
    <3>1. rows' = Append(rows, RequestRow(id))
      BY <2>2 DEF TypeOK, Waiting
    <3>2. Len(rows') \in 1..Len(rows') /\ rows'[Len(rows')] = RequestRow(id)
      BY <3>1 DEF TypeOK
    <3>3. ~Buffered(buffer, Len(accepted'))
      BY <1>2 DEF Buffered, LegalLog, LegalBuffer
    <3> QED BY <1>1, <1>2, <2>2, <3>2, <3>3
  <2> QED BY <2>1, <2>2
<1> QED BY <1>1, <1>4 DEF Pairing


\* A step that leaves the log alone keeps Pairing, if no call starts to wait.
LEMMA PairingUnchanged ==
    ASSUME Pairing, UNCHANGED logVars,
           \A c \in Calls : pc'[c] \in Waiting => pc[c] \in Waiting
    PROVE  Pairing'
BY DEF logVars, Pairing, AcceptedOnce, TicketsDiffer, Open

\* Every way to accept a request, or to refuse it, keeps Pairing.
LEMMA ExecuteLegal ==
    ASSUME LogInv, NEW c \in Calls, NEW id \in Ids, Execute(c, id)
    PROVE  Pairing'
<1>1. CASE ExecuteDuplicate(c, id)
  BY <1>1, PairingUnchanged DEF ExecuteDuplicate, LogInv, Pairing, TypeOK, Waiting
<1>2. CASE ExecuteSinkFails(c, id)
  BY <1>2, RegisterLegal DEF ExecuteSinkFails
<1>3. CASE ExecuteMisbound(c, id)
  BY <1>3, RegisterCommitLegal DEF ExecuteMisbound, TerminalKinds, Return
<1>4. CASE ExecuteDecide(c, id)
  BY <1>4, RegisterLegal DEF ExecuteDecide, Waiting
<1>5. CASE ExecuteExpired(c, id)
  <2>1. CASE /\ rows' = Append(rows, RequestRow(id))
             /\ pc' = [pc EXCEPT ![c] = "hooking"]
             /\ UNCHANGED <<trouble, buffer, next, sinkFailures>>
    BY <1>5, <2>1, RegisterLegal DEF ExecuteExpired, Waiting
  <2>2. ASSUME NEW raised \in BOOLEAN, pc' = [pc EXCEPT ![c] = "returned"],
               CommitTerminal(Append(rows, RequestRow(id)), Len(accepted) + 1, id,
                              IF raised THEN "cleanup" ELSE "timeout")
        PROVE  Pairing'
    <3>1. (IF raised THEN "cleanup" ELSE "timeout") \in TerminalKinds
      BY DEF TerminalKinds
    <3> QED BY <1>5, <2>2, <3>1, RegisterCommitLegal DEF ExecuteExpired
  <2> QED BY <1>5, <2>1, <2>2 DEF ExecuteExpired, Return
<1> QED BY <1>1, <1>2, <1>3, <1>4, <1>5 DEF Execute

\* Every resumption of a waiting call keeps Pairing.
LEMMA ResumeLegal ==
    ASSUME LogInv, NEW c \in Calls, Resume(c)
    PROVE  Pairing'
<1> USE DEF LogInv
<1>1. Pairing /\ TypeOK
  BY DEF Pairing
<1>2. \A kind \in TerminalKinds : pc[c] \in Waiting /\ Finish(c, kind) => Pairing'
  BY FinishLegal
<1>3. CASE TakeResult(c)
  BY <1>2, <1>3, VerdictTyped DEF TakeResult, Waiting
<1>4. CASE DeadlinePasses(c)
  BY <1>1, <1>4, PairingUnchanged DEF DeadlinePasses, TypeOK, Waiting
<1>5. CASE CancelAgain(c)
  BY <1>1, <1>5, PairingUnchanged DEF CancelAgain
<1>6. CASE EndDecideGrace(c)
  <2>1. CASE UNCHANGED logVars /\ pc' = [pc EXCEPT ![c] = "hooking"]
    BY <1>1, <1>6, <2>1, PairingUnchanged DEF EndDecideGrace, TypeOK, Waiting
  <2>2. CASE Finish(c, "cancelled")
    BY <1>2, <1>6, <2>2 DEF EndDecideGrace, Waiting, TerminalKinds
  <2>3. CASE Finish(c, IF trouble'[c] THEN "cleanup" ELSE "timeout")
    <3>1. (IF trouble'[c] THEN "cleanup" ELSE "timeout") \in TerminalKinds
      BY DEF TerminalKinds
    <3> QED BY <1>2, <1>6, <2>3, <3>1 DEF EndDecideGrace, Waiting
  <2> QED BY <1>6, <2>1, <2>2, <2>3 DEF EndDecideGrace
<1>7. CASE HookAnswered(c)
  <2>1. (IF trouble'[c] THEN "cleanup" ELSE "timeout") \in TerminalKinds
    BY DEF TerminalKinds
  <2> QED BY <1>2, <1>7, <2>1 DEF HookAnswered, Waiting
<1>8. CASE HookTimesOut(c)
  BY <1>1, <1>8, PairingUnchanged DEF HookTimesOut, TypeOK, Waiting
<1>9. CASE EndHookGrace(c)
  <2>1. (IF interrupted[c] THEN "cancelled" ELSE "cleanup") \in TerminalKinds
    BY DEF TerminalKinds
  <2> QED BY <1>2, <1>9, <2>1 DEF EndHookGrace, Waiting
<1> QED BY <1>3, <1>4, <1>5, <1>6, <1>7, <1>8, <1>9 DEF Resume

\* The cancellation of a waiting call keeps Pairing.
LEMMA CallerCancelsLegal ==
    ASSUME LogInv, NEW c \in Calls, CallerCancels(c)
    PROVE  Pairing'
<1> USE DEF LogInv
<1>1. Pairing /\ TypeOK /\ pc[c] \in Waiting
  BY DEF Pairing, CallerCancels
<1>2. CASE Finish(c, "cancelled")
  BY <1>1, <1>2, FinishLegal DEF TerminalKinds
<1>3. CASE UNCHANGED logVars
  <2>1. \A d \in Calls : pc'[d] \in Waiting => pc[d] \in Waiting
    BY <1>1, <1>3 DEF CallerCancels, TypeOK, Finish, Return
  <2> QED BY <1>1, <1>3, <2>1, PairingUnchanged
<1> QED BY <1>2, <1>3 DEF CallerCancels

\* LogInv is inductive.
LEMMA LogStep == LogInv /\ [Next]_vars => LogInv'
<1> SUFFICES ASSUME LogInv, [Next]_vars PROVE LogInv'
  OBVIOUS
<1>1. TypeOK' /\ Tickets'
  BY StepTyped DEF LogInv
<1>2. Pairing'
  <2> USE DEF callVars
  <2>1. CASE UNCHANGED vars
    BY <2>1, PairingUnchanged DEF LogInv, Pairing, vars
  <2>2. CASE Close
    BY <2>2, PairingUnchanged
       DEF LogInv, Pairing, Close, CloseBegins, CloseCancelsNext, CloseEnds, CloseInterrupted
  <2>3. ASSUME NEW c \in Calls, TaskFinishes(c)
        PROVE  Pairing'
    BY <2>3, PairingUnchanged DEF LogInv, Pairing, TaskFinishes, DecideFinishes, HookFinishes
  <2> QED BY <2>1, <2>2, <2>3, ExecuteLegal, ResumeLegal, CallerCancelsLegal DEF Next
<1> QED BY <1>1, <1>2 DEF LogInv, Pairing

\* The empty log satisfies LogInv.
LEMMA LogInit == Init => LogInv
<1> SUFFICES ASSUME Init PROVE LogInv
  OBVIOUS
<1>1. TypeOK /\ Tickets
  BY InitTyped
<1>2. AcceptedOnce /\ TicketsDiffer /\ Open
  BY DEF Init, AcceptedOnce, TicketsDiffer, Open, Waiting
<1>3. LegalLog(rows, accepted, buffer, next)
  BY DEF Init, LegalLog, LegalBuffer, LegalRequests, LegalTerminals, LegalOrder
<1> QED BY <1>1, <1>2, <1>3 DEF LogInv

\* The inductive invariant of the log holds in every reachable state.
THEOREM LogCorrect == Spec => []LogInv
BY LogInit, LogStep, PTL DEF Spec

\* One request, one terminal, for any number of concurrent calls, in whatever order
\* their agents answer and whichever row the trace callback loses.
THEOREM RowsArePaired == Spec => []PairedRows
<1>1. LogInv => PairedRows
  <2> SUFFICES ASSUME LogInv PROVE PairedRows
    OBVIOUS
  <2>1. rows \in Seq(Rows) /\ Len(rows) \in Nat /\ DOMAIN rows = 1..Len(rows)
    BY DEF LogInv, TypeOK
  <2>2. ASSUME NEW i \in 1..Len(rows), NEW j \in 1..Len(rows), i < j,
               rows[i].kind # "request", rows[j].kind # "request"
        PROVE  rows[i].id # rows[j].id
    <3>1. PICK n \in 1..(next - 1) : accepted[n] = rows[i].id
      BY <2>2 DEF LogInv, LegalLog, LegalTerminals
    <3>2. n \in 1..Len(accepted)
      BY <3>1 DEF LogInv, LegalLog, TypeOK
    <3>3. ~(n < n)
      BY <3>2
    <3> QED BY <2>2, <3>1, <3>2, <3>3 DEF LogInv, LegalLog, LegalOrder
  <2>3. ASSUME NEW i \in 1..Len(rows), NEW j \in 1..Len(rows), rows[i].id = rows[j].id,
               (rows[i].kind = "request") = (rows[j].kind = "request")
        PROVE  i = j
    <3>1. CASE rows[i].kind = "request"
      BY <2>3, <3>1 DEF LogInv, LegalLog, LegalRequests
    <3>2. CASE rows[i].kind # "request"
      BY <2>1, <2>2, <2>3, <3>2
    <3> QED BY <3>1, <3>2
  <2>4. \A i \in TerminalIndexes :
          \E j \in 1..(i - 1) : rows[j] = [kind |-> "request", id |-> rows[i].id]
    BY <2>1 DEF LogInv, LegalLog, LegalTerminals, TerminalIndexes, RequestRow
  <2> QED BY <2>1, <2>3, <2>4 DEF PairedRows
<1> QED BY <1>1, LogCorrect, PTL

\* Terminal rows are stored in the order of acceptance, however many terminals had
\* to wait in _terminal_trace_buffer for an earlier one.
THEOREM RowsKeepAcceptanceOrder == Spec => []AcceptanceOrder
<1>1. LogInv => AcceptanceOrder
  <2> SUFFICES ASSUME LogInv, NEW i \in TerminalIndexes, NEW j \in TerminalIndexes, i < j
               PROVE  TicketOf(rows[i].id) < TicketOf(rows[j].id)
    BY DEF AcceptanceOrder
  <2>1. /\ i \in 1..Len(rows) /\ rows[i].kind # "request"
        /\ j \in 1..Len(rows) /\ rows[j].kind # "request"
    BY DEF LogInv, TypeOK, TerminalIndexes
  <2>2. DOMAIN accepted = 1..Len(accepted) /\ Len(accepted) \in Nat /\ next \in Nat
    BY DEF LogInv, TypeOK
  <2>3. ASSUME NEW k \in 1..Len(rows), rows[k].kind # "request"
        PROVE  /\ TicketOf(rows[k].id) \in 1..Len(accepted)
               /\ accepted[TicketOf(rows[k].id)] = rows[k].id
    <3>1. PICK n \in 1..(next - 1) : accepted[n] = rows[k].id
      BY <2>3 DEF LogInv, LegalLog, LegalTerminals
    <3>2. n \in DOMAIN accepted
      BY <2>2 DEF LogInv, LegalLog
    <3>3. TicketOf(rows[k].id) \in DOMAIN accepted /\ accepted[TicketOf(rows[k].id)] = rows[k].id
      BY <3>1, <3>2 DEF TicketOf
    <3> QED BY <2>2, <3>3
  <2> QED BY <2>1, <2>3 DEF LogInv, LegalLog, LegalOrder
<1> QED BY <1>1, LogCorrect, PTL

-----------------------------------------------------------------------------
(* How the calls end: which terminal a call may get, whatever the other     *)
(* calls, the agents and the owner do, and that the log of all terminals    *)
(* implements the abstract DecisionLedger.                                  *)


\* What a commit adds to the log comes from the buffer or is the new terminal.
LEMMA CommitSource ==
    ASSUME TypeOK, NEW base \in Seq(Rows), NEW seq \in Nat, NEW id \in Ids,
           NEW kind \in TerminalKinds, accepted' \in Seq(Ids),
           CommitTerminal(base, seq, id, kind)
    PROVE  /\ \A b \in buffer' : b \in buffer \/ b = [seq |-> seq, id |-> id, kind |-> kind]
           /\ \A i \in 1..Len(rows') :
                \/ i \in 1..Len(base) /\ rows'[i] = base[i]
                \/ rows'[i] = [kind |-> kind, id |-> id]
                \/ \E b \in buffer : rows'[i] = [kind |-> b.kind, id |-> b.id]
<1> DEFINE filled == buffer \cup {[seq |-> seq, id |-> id, kind |-> kind]}
<1>1. next \in Nat /\ Len(accepted') \in Nat
  BY DEF TypeOK
<1>2. filled \in SUBSET Terminals
  BY DEF TypeOK, Terminals
<1>3. PICK last \in next..(Len(accepted') + 1) :
        /\ EndOfPrefix(filled, next, last)
        /\ \/ rows' = base \o Batch(filled, next, last - 1)
           \/ \E lost \in next..(last - 1) : rows' = base \o Batch(filled, next, lost - 1)
        /\ buffer' = {b \in filled : b.seq >= next'}
  BY DEF CommitTerminal
<1>4. PICK n1 \in next..last : rows' = base \o Batch(filled, next, n1 - 1)
  <2>1. CASE rows' = base \o Batch(filled, next, last - 1)
    <3>1. last \in next..last
      BY <1>1
    <3> QED BY <2>1, <3>1
  <2>2. ASSUME NEW lost \in next..(last - 1), rows' = base \o Batch(filled, next, lost - 1)
        PROVE  \E n \in next..last : rows' = base \o Batch(filled, next, n - 1)
    <3>1. lost \in next..last
      BY <1>1
    <3> QED BY <2>2, <3>1
  <2> QED BY <1>3, <2>1, <2>2
<1>5. \A b \in filled : b \in buffer \/ b = [seq |-> seq, id |-> id, kind |-> kind]
  OBVIOUS
<1> HIDE DEF filled
<1> DEFINE B == Batch(filled, next, n1 - 1)
<1>6. /\ B \in Seq(Rows)
      /\ Len(B) = (n1 - 1) - next + 1
      /\ \A i \in 1..((n1 - 1) - next + 1) :
           \E b \in filled : /\ b.seq = next + i - 1
                             /\ B[i] = [kind |-> b.kind, id |-> b.id]
  <2>1. n1 - 1 \in Int /\ n1 - 1 >= next - 1 /\ \A n \in next..(n1 - 1) : n \in next..(last - 1)
    BY <1>1
  <2>2. \A n \in next..(n1 - 1) : Buffered(filled, n)
    BY <1>3, <2>1 DEF EndOfPrefix
  <2> QED BY <1>1, <1>2, <2>1, <2>2, BatchTyped, ZenonT(20)
<1>7. rows' = base \o B
  BY <1>4
<1> HIDE DEF B
<1>8. \A i \in 1..Len(B) : \E b \in filled : B[i] = [kind |-> b.kind, id |-> b.id]
  BY <1>6
<1>9. B \in Seq(Rows) /\ Len(B) \in Nat /\ Len(base) \in Nat
  BY <1>6
<1>10. ASSUME NEW i \in 1..Len(rows')
       PROVE  \/ i \in 1..Len(base) /\ rows'[i] = base[i]
              \/ \E b \in filled : rows'[i] = [kind |-> b.kind, id |-> b.id]
  <2>1. /\ Len(base \o B) = Len(base) + Len(B)
        /\ \A j \in 1..(Len(base) + Len(B)) :
             (base \o B)[j] = IF j <= Len(base) THEN base[j] ELSE B[j - Len(base)]
    BY <1>9, ConcatProperties
  <2>2. CASE i <= Len(base)
    BY <1>7, <1>9, <1>10, <2>1, <2>2
  <2>3. CASE ~(i <= Len(base))
    <3>1. i - Len(base) \in 1..Len(B) /\ rows'[i] = B[i - Len(base)]
      BY <1>7, <1>9, <1>10, <2>1, <2>3
    <3> QED BY <1>8, <3>1
  <2> QED BY <2>2, <2>3
<1>11. \A b \in buffer' : b \in filled
  BY <1>3
<1> QED BY <1>5, <1>10, <1>11

-----------------------------------------------------------------------------
(* Kinds.                                                                   *)

\* k is the kind of a terminal of the request at position n.
Terminates(k, n) ==
    \/ \E i \in 1..Len(rows) :
         rows[i].kind = k /\ k # "request" /\ rows[i].id = accepted[n]
    \/ \E b \in buffer : b.kind = k /\ b.seq = n

\* KindsOf, one kind at a time.
LEMMA KindsMember ==
    ASSUME TypeOK, NEW c \in Calls, NEW k
    PROVE  k \in KindsOf(c) <=> ticket[c] # 0 /\ Terminates(k, ticket[c])
<1>1. DOMAIN rows = 1..Len(rows)
  BY DEF TypeOK
<1> QED BY <1>1 DEF KindsOf, Terminates, TerminalIndexes

\* A request that is still open has no terminal.
LEMMA OpenHasNone ==
    ASSUME LogInv, NEW c \in Calls, pc[c] \in Waiting, NEW k
    PROVE  ~Terminates(k, ticket[c])
<1>1. ticket[c] \in 1..Len(accepted) /\ ticket[c] >= next /\ next \in Nat /\ ~Buffered(buffer, ticket[c])
  BY DEF LogInv, TypeOK, Tickets, Open
<1>2. SUFFICES ASSUME NEW i \in 1..Len(rows), rows[i].kind # "request",
                      rows[i].id = accepted[ticket[c]]
               PROVE  FALSE
  BY <1>1 DEF Terminates, Buffered
<1>3. PICK n \in 1..(next - 1) : accepted[n] = rows[i].id
  BY <1>2 DEF LogInv, LegalLog, LegalTerminals
<1>4. n \in 1..Len(accepted) /\ n < ticket[c]
  BY <1>1, <1>3 DEF LogInv, TypeOK
<1>5. n = ticket[c]
  BY <1>1, <1>2, <1>3, <1>4 DEF LogInv, AcceptedOnce
<1> QED BY <1>1, <1>4, <1>5

\* KindsMember of the state after a step.
LEMMA KindsMemberNext ==
    ASSUME TypeOK', NEW c \in Calls, NEW k
    PROVE  k \in KindsOf(c)' <=> ticket'[c] # 0 /\ Terminates(k, ticket[c])'
<1>1. DOMAIN rows' = 1..Len(rows')
  BY DEF TypeOK
<1> QED BY <1>1 DEF KindsOf, Terminates, TerminalIndexes

\* The end of call c gives its request one terminal, and no other request any.
LEMMA FinishKinds ==
    ASSUME LogInv, TypeOK', NEW c \in Calls, pc[c] \in Waiting,
           NEW kind \in TerminalKinds, Finish(c, kind)
    PROVE  /\ KindsOf(c)' \subseteq {kind}
           /\ \A d \in Calls : d # c => KindsOf(d)' \subseteq KindsOf(d)
<1> USE DEF LogInv
<1>1. /\ accepted' = accepted
      /\ ticket' = ticket
      /\ CommitTerminal(rows, ticket[c], accepted[ticket[c]], kind)
  BY DEF Finish
<1>2. /\ accepted \in Seq(Ids)
      /\ rows \in Seq(Rows)
      /\ ticket[c] \in 1..Len(accepted)
      /\ ticket[c] \in Nat
      /\ accepted[ticket[c]] \in Ids
  BY DEF TypeOK, Tickets
<1>3. /\ \A b \in buffer' :
           b \in buffer \/ b = [seq |-> ticket[c], id |-> accepted[ticket[c]], kind |-> kind]
      /\ \A i \in 1..Len(rows') :
           \/ i \in 1..Len(rows) /\ rows'[i] = rows[i]
           \/ rows'[i] = [kind |-> kind, id |-> accepted[ticket[c]]]
           \/ \E b \in buffer : rows'[i] = [kind |-> b.kind, id |-> b.id]
  BY <1>1, <1>2, CommitSource
<1>4. ASSUME NEW d \in Calls, ticket[d] # 0, NEW k, Terminates(k, ticket[d])'
      PROVE  Terminates(k, ticket[d]) \/ (d = c /\ k = kind)
  <2>1. ticket[d] \in 1..Len(accepted)
    BY <1>2, <1>4 DEF TypeOK, Tickets
  <2>2. ASSUME NEW b \in buffer, b.id = accepted[ticket[d]], b.kind = k
        PROVE  Terminates(k, ticket[d])
    <3>1. b.seq \in 1..Len(accepted) /\ b.id = accepted[b.seq]
      BY <1>2, SMTT(20) DEF LegalLog, LegalBuffer, TypeOK
    <3>2. b.seq = ticket[d]
      BY <2>1, <2>2, <3>1 DEF AcceptedOnce
    <3> QED BY <2>2, <3>2 DEF Terminates
  <2>3. accepted[ticket[c]] = accepted[ticket[d]] => c = d
    BY <1>2, <1>4, <2>1 DEF AcceptedOnce, TicketsDiffer
  <2>4. CASE \E b \in buffer' : b.kind = k /\ b.seq = ticket[d]
    <3>1. PICK b \in buffer' : b.kind = k /\ b.seq = ticket[d]
      BY <2>4
    <3>2. CASE b \in buffer
      BY <3>1, <3>2 DEF Terminates
    <3>3. CASE b = [seq |-> ticket[c], id |-> accepted[ticket[c]], kind |-> kind]
      BY <1>4, <3>1, <3>3 DEF TicketsDiffer
    <3> QED BY <1>3, <3>2, <3>3
  <2>5. CASE \E i \in 1..Len(rows') :
               rows'[i].kind = k /\ k # "request" /\ rows'[i].id = accepted[ticket[d]]
    <3>1. PICK i \in 1..Len(rows') :
            rows'[i].kind = k /\ k # "request" /\ rows'[i].id = accepted[ticket[d]]
      BY <2>5
    <3>2. CASE i \in 1..Len(rows) /\ rows'[i] = rows[i]
      BY <3>1, <3>2 DEF Terminates
    <3>3. CASE rows'[i] = [kind |-> kind, id |-> accepted[ticket[c]]]
      BY <2>3, <3>1, <3>3
    <3>4. ASSUME NEW b \in buffer, rows'[i] = [kind |-> b.kind, id |-> b.id]
          PROVE  Terminates(k, ticket[d])
      BY <2>2, <3>1, <3>4
    <3> QED BY <1>3, <3>2, <3>3, <3>4
  <2> QED BY <1>1, <1>4, <2>4, <2>5 DEF Terminates
<1>5. KindsOf(c)' \subseteq {kind}
  <2> SUFFICES ASSUME NEW k \in KindsOf(c)' PROVE k = kind
    OBVIOUS
  <2>1. ticket[c] # 0 /\ Terminates(k, ticket[c])'
    BY <1>1, KindsMemberNext
  <2> QED BY <1>4, <2>1, OpenHasNone
<1>6. ASSUME NEW d \in Calls, d # c
      PROVE  KindsOf(d)' \subseteq KindsOf(d)
  <2> SUFFICES ASSUME NEW k \in KindsOf(d)' PROVE k \in KindsOf(d)
    OBVIOUS
  <2>1. ticket[d] # 0 /\ Terminates(k, ticket[d])'
    BY <1>1, KindsMemberNext
  <2> QED BY <1>4, <1>6, <2>1, KindsMember
<1> QED BY <1>5, <1>6

\* A step that leaves the log alone leaves every terminal as it is.
LEMMA KindsUnchanged ==
    ASSUME UNCHANGED logVars, NEW c \in Calls
    PROVE  KindsOf(c)' = KindsOf(c)
BY DEF logVars, KindsOf, TerminalIndexes

\* Accepting, or refusing, a request gives no other request a terminal.
LEMMA ExecuteKinds ==
    ASSUME LogInv, TypeOK', NEW c \in Calls, NEW id \in Ids, Execute(c, id),
           NEW d \in Calls, d # c
    PROVE  KindsOf(d)' \subseteq KindsOf(d)
<1> USE DEF LogInv
<1>1. CASE UNCHANGED logVars
  BY <1>1, KindsUnchanged
<1>2. CASE Register(c, id)
  <2>1. /\ accepted' \in Seq(Ids)
        /\ Len(accepted') = Len(accepted) + 1
        /\ ticket'[d] = ticket[d]
        /\ Len(accepted) \in Nat
    <3>1. Len(accepted) \in Nat
      BY DEF TypeOK
    <3> QED BY <1>2, <3>1, RegisterTyped
  <2>2. /\ \A n \in 1..Len(accepted) : accepted'[n] = accepted[n]
        /\ \A n \in 1..Len(accepted) : accepted[n] # id
    <3>1. \A n \in 1..Len(accepted) : accepted'[n] = accepted[n]
      BY <1>2, AcceptLegal
    <3>2. DOMAIN accepted = 1..Len(accepted)
      BY DEF TypeOK
    <3> QED BY <1>2, <3>1, <3>2 DEF Register
  <2>3. /\ rows \in Seq(Rows)
        /\ Append(rows, RequestRow(id)) \in Seq(Rows)
        /\ \A i \in 1..Len(Append(rows, RequestRow(id))) :
             \/ i \in 1..Len(rows) /\ Append(rows, RequestRow(id))[i] = rows[i]
             \/ Append(rows, RequestRow(id))[i].kind = "request"
    <3> DEFINE r == RequestRow(id)
    <3>1. rows \in Seq(Rows) /\ r \in Rows /\ r.kind = "request"
      BY DEF TypeOK, RequestRow, Rows
    <3> HIDE DEF r
    <3>2. /\ Append(rows, r) \in Seq(Rows)
          /\ Len(Append(rows, r)) = Len(rows) + 1
          /\ \A i \in 1..Len(rows) : Append(rows, r)[i] = rows[i]
          /\ Append(rows, r)[Len(rows) + 1] = r
      BY <3>1
    <3>3. \A i \in 1..(Len(rows) + 1) : i \in 1..Len(rows) \/ i = Len(rows) + 1
      BY <3>1
    <3>4. \A i \in 1..Len(Append(rows, r)) :
            \/ i \in 1..Len(rows) /\ Append(rows, r)[i] = rows[i]
            \/ Append(rows, r)[i].kind = "request"
      BY <3>1, <3>2, <3>3
    <3> QED BY <3>1, <3>2, <3>4 DEF r
  <2>4. /\ \A b \in buffer' : b \in buffer \/ b.seq = Len(accepted) + 1
        /\ \A i \in 1..Len(rows') :
             \/ i \in 1..Len(rows) /\ rows'[i] = rows[i]
             \/ rows'[i].kind = "request"
             \/ rows'[i].id = id
             \/ \E b \in buffer : rows'[i] = [kind |-> b.kind, id |-> b.id]
    <3>1. CASE buffer' = buffer /\ rows' \in {rows, Append(rows, RequestRow(id))}
      BY <2>3, <3>1
    <3>2. ASSUME NEW kind \in TerminalKinds,
                 CommitTerminal(Append(rows, RequestRow(id)), Len(accepted) + 1, id, kind)
          PROVE  /\ \A b \in buffer' : b \in buffer \/ b.seq = Len(accepted) + 1
                 /\ \A i \in 1..Len(rows') :
                      \/ i \in 1..Len(rows) /\ rows'[i] = rows[i]
                      \/ rows'[i].kind = "request"
                      \/ rows'[i].id = id
                      \/ \E b \in buffer : rows'[i] = [kind |-> b.kind, id |-> b.id]
      <4> DEFINE base == Append(rows, RequestRow(id))
      <4>1. /\ base \in Seq(Rows)
            /\ \A i \in 1..Len(base) :
                 (i \in 1..Len(rows) /\ base[i] = rows[i]) \/ base[i].kind = "request"
        BY <2>3
      <4>2. CommitTerminal(base, Len(accepted) + 1, id, kind)
        BY <3>2
      <4> HIDE DEF base
      <4>3. Len(accepted) + 1 \in Nat
        BY <2>1
      <4>4. /\ \A b \in buffer' :
                 b \in buffer \/ b = [seq |-> Len(accepted) + 1, id |-> id, kind |-> kind]
            /\ \A i \in 1..Len(rows') :
                 \/ i \in 1..Len(base) /\ rows'[i] = base[i]
                 \/ rows'[i] = [kind |-> kind, id |-> id]
                 \/ \E b \in buffer : rows'[i] = [kind |-> b.kind, id |-> b.id]
        BY <2>1, <4>1, <4>2, <4>3, CommitSource
      <4>5. ASSUME NEW i \in 1..Len(rows')
            PROVE  \/ i \in 1..Len(rows) /\ rows'[i] = rows[i]
                   \/ rows'[i].kind = "request"
                   \/ rows'[i].id = id
                   \/ \E b \in buffer : rows'[i] = [kind |-> b.kind, id |-> b.id]
        BY <4>1, <4>4
      <4>6. ASSUME NEW b \in buffer'
            PROVE  b \in buffer \/ b.seq = Len(accepted) + 1
        BY <4>4
      <4> QED BY <4>5, <4>6
    <3>3. \/ buffer' = buffer /\ rows' \in {rows, Append(rows, RequestRow(id))}
          \/ \E kind \in TerminalKinds :
               CommitTerminal(Append(rows, RequestRow(id)), Len(accepted) + 1, id, kind)
      <4>1. CASE ExecuteDuplicate(c, id)
        BY <4>1 DEF ExecuteDuplicate, logVars
      <4>2. CASE ExecuteSinkFails(c, id)
        BY <4>2 DEF ExecuteSinkFails
      <4>3. CASE ExecuteMisbound(c, id)
        BY <4>3 DEF ExecuteMisbound, TerminalKinds
      <4>4. CASE ExecuteDecide(c, id)
        BY <4>4 DEF ExecuteDecide
      <4>5. CASE ExecuteExpired(c, id)
        <5>1. \A raised \in BOOLEAN : (IF raised THEN "cleanup" ELSE "timeout") \in TerminalKinds
          BY DEF TerminalKinds
        <5> QED BY <4>5, <5>1 DEF ExecuteExpired
      <4> QED BY <4>1, <4>2, <4>3, <4>4, <4>5 DEF Execute
    <3> QED BY <3>1, <3>2, <3>3
  <2> SUFFICES ASSUME NEW k \in KindsOf(d)' PROVE k \in KindsOf(d)
    OBVIOUS
  <2>5. ticket[d] \in 1..Len(accepted) /\ Terminates(k, ticket[d])'
    <3>1. ticket'[d] # 0 /\ Terminates(k, ticket[d])'
      BY KindsMemberNext
    <3>2. ticket[d] \in Nat /\ ticket[d] <= Len(accepted)
      BY DEF TypeOK, Tickets
    <3> QED BY <2>1, <3>1, <3>2
  <2>6. accepted'[ticket[d]] = accepted[ticket[d]] /\ accepted[ticket[d]] # id
    BY <2>2, <2>5
  <2>7. CASE \E b \in buffer' : b.kind = k /\ b.seq = ticket[d]
    <3>1. PICK b \in buffer' : b.kind = k /\ b.seq = ticket[d]
      BY <2>7
    <3>2. b \in buffer
      BY <2>1, <2>4, <2>5, <3>1
    <3>3. ticket[d] # 0 /\ Terminates(k, ticket[d])
      BY <2>5, <3>1, <3>2 DEF Terminates
    <3> QED BY <3>3, KindsMember
  <2>8. CASE \E i \in 1..Len(rows') :
               rows'[i].kind = k /\ k # "request" /\ rows'[i].id = accepted'[ticket[d]]
    <3>1. PICK i \in 1..Len(rows') :
            rows'[i].kind = k /\ k # "request" /\ rows'[i].id = accepted[ticket[d]]
      BY <2>6, <2>8
    <3>2. CASE i \in 1..Len(rows) /\ rows'[i] = rows[i]
      BY <2>5, <3>1, <3>2, KindsMember DEF Terminates
    <3>3. ASSUME NEW b \in buffer, rows'[i] = [kind |-> b.kind, id |-> b.id]
          PROVE  k \in KindsOf(d)
      <4>1. b.seq \in 1..Len(accepted) /\ b.id = accepted[b.seq]
        BY SMTT(20) DEF LegalLog, LegalBuffer, TypeOK
      <4>2. b.seq = ticket[d] /\ b.kind = k
        BY <2>5, <3>1, <3>3, <4>1 DEF AcceptedOnce
      <4> QED BY <2>5, <4>2, KindsMember DEF Terminates
    <3> QED BY <2>4, <2>6, <3>1, <3>2, <3>3
  <2> QED BY <2>1, <2>5, <2>7, <2>8 DEF Terminates
<1> QED BY <1>1, <1>2 DEF Execute, ExecuteDuplicate, ExecuteSinkFails, ExecuteMisbound,
                          ExecuteDecide, ExecuteExpired

-----------------------------------------------------------------------------
(* Outcomes.                                                                *)

\* The call raised CancelledError, or what the trace callback raised.
EndsCancelled(c) ==
    \/ outcome[c] = "cancelled"
    \/ outcome[c] = "sink" /\ sinkFailures > 0

\* A call cancelled by its owner is being reclaimed or has ended as cancelled.
HeedsOwner(c) ==
    interrupted[c] => \/ pc[c] \in {"decideGrace", "hookGrace"}
                      \/ /\ pc[c] = "returned"
                         /\ KindsOf(c) \subseteq {"cancelled"}
                         /\ EndsCancelled(c)

\* The tasks of a call start in order; an agent task that outlived its grace is
\* remembered as trouble while the hook is at work, and no call that left a task
\* running ended as a timeout.
AdmitsLeftovers(c) ==
    /\ pc[c] \in {"idle", "deciding", "decideGrace"} => task[c]["hook"] = "none"
    /\ pc[c] = "idle" => task[c]["decide"] = "none"
    /\ pc[c] \in {"hooking", "hookGrace"} /\ task[c]["decide"] = "running" => trouble[c]
    /\ pc[c] = "returned" /\ "timeout" \in KindsOf(c) =>
         task[c]["decide"] # "running" /\ task[c]["hook"] # "running"

Outcomes == \A c \in Calls : HeedsOwner(c) /\ AdmitsLeftovers(c)

\* A call that has returned keeps its end.
LEMMA KeptEnd ==
    ASSUME TypeOK, EndsOne, NEW d \in Calls, pc[d] = "returned", EndsCancelled(d)
    PROVE  EndsCancelled(d)'
<1>1. outcome'[d] = outcome[d]
  BY DEF EndsOne, Waiting, TypeOK
<1>2. sinkFailures > 0 => sinkFailures' > 0
  BY SinkAssumption DEF EndsOne, TypeOK
<1> QED BY <1>1, <1>2 DEF EndsCancelled

\* A call that a step does not move keeps its outcome.
LEMMA OutcomeKept ==
    ASSUME TypeOK, EndsOne, Outcomes, NEW d \in Calls,
           pc'[d] = pc[d], task'[d] = task[d], trouble'[d] = trouble[d],
           interrupted'[d] = interrupted[d], KindsOf(d)' \subseteq KindsOf(d)
    PROVE  HeedsOwner(d)' /\ AdmitsLeftovers(d)'
<1>1. HeedsOwner(d) /\ AdmitsLeftovers(d)
  BY DEF Outcomes
<1>2. HeedsOwner(d)'
  BY <1>1, KeptEnd DEF HeedsOwner
<1>3. AdmitsLeftovers(d)'
  BY <1>1 DEF AdmitsLeftovers
<1> QED BY <1>2, <1>3

\* Accepting a request: a new call was never cancelled and left no task.
LEMMA ExecuteOutcomes ==
    ASSUME LogInv, TypeOK', EndsOne, Outcomes, NEW c \in Calls, NEW id \in Ids, Execute(c, id)
    PROVE  Outcomes'
<1>1. TypeOK
  BY DEF LogInv
<1>2. pc[c] = "idle" /\ interrupted' = interrupted
  BY DEF Execute, ExecuteDuplicate, ExecuteSinkFails, ExecuteMisbound, ExecuteDecide,
         ExecuteExpired, Register
<1>3. /\ task[c]["hook"] = "none"
      /\ task[c]["decide"] = "none"
      /\ ~interrupted[c]
  BY <1>2 DEF Outcomes, HeedsOwner, AdmitsLeftovers
<1>4. \/ pc' = [pc EXCEPT ![c] = "refused"] /\ UNCHANGED <<task, trouble>>
      \/ /\ pc' = [pc EXCEPT ![c] = "returned"]
         /\ UNCHANGED task
         /\ \E raised : trouble' = [trouble EXCEPT ![c] = raised]
      \/ /\ pc' = [pc EXCEPT ![c] = "deciding"]
         /\ task' = [task EXCEPT ![c]["decide"] = "running"]
         /\ UNCHANGED trouble
      \/ /\ pc' = [pc EXCEPT ![c] = "hooking"]
         /\ task' = [task EXCEPT ![c]["hook"] = "running"]
         /\ UNCHANGED trouble
  <2>1. trouble = [trouble EXCEPT ![c] = trouble[c]]
    BY <1>1 DEF TypeOK
  <2>2. CASE ExecuteDuplicate(c, id)
    BY <2>2 DEF ExecuteDuplicate, taskVars
  <2>3. CASE ExecuteSinkFails(c, id)
    BY <2>1, <2>3 DEF ExecuteSinkFails, taskVars
  <2>4. CASE ExecuteMisbound(c, id)
    BY <2>1, <2>4 DEF ExecuteMisbound, taskVars, Return
  <2>5. CASE ExecuteDecide(c, id)
    BY <2>5 DEF ExecuteDecide
  <2>6. CASE ExecuteExpired(c, id)
    BY <2>6 DEF ExecuteExpired, Return
  <2> QED BY <2>2, <2>3, <2>4, <2>5, <2>6 DEF Execute
<1>5. HeedsOwner(c)' /\ AdmitsLeftovers(c)'
  <2>1. HeedsOwner(c)'
    BY <1>2, <1>3 DEF HeedsOwner
  <2>2. AdmitsLeftovers(c)'
    BY <1>1, <1>3, <1>4 DEF AdmitsLeftovers, TypeOK, TaskKinds
  <2> QED BY <2>1, <2>2
<1>6. ASSUME NEW d \in Calls, d # c
      PROVE  HeedsOwner(d)' /\ AdmitsLeftovers(d)'
  <2>1. /\ pc'[d] = pc[d]
        /\ task'[d] = task[d]
        /\ trouble'[d] = trouble[d]
        /\ interrupted'[d] = interrupted[d]
    BY <1>1, <1>2, <1>4, <1>6 DEF TypeOK
  <2>2. KindsOf(d)' \subseteq KindsOf(d)
    BY <1>6, ExecuteKinds
  <2> QED BY <1>1, <2>1, <2>2, OutcomeKept
<1> QED BY <1>5, <1>6 DEF Outcomes

\* The end of call c with terminal kind: enough is that an owner's cancellation
\* makes it cancelled, and that it is no timeout if a task is left running.
LEMMA FinishOutcomes ==
    ASSUME LogInv, TypeOK', EndsOne, Outcomes, NEW c \in Calls, pc[c] \in Waiting,
           NEW kind \in TerminalKinds, Finish(c, kind),
           \A d \in Calls : d # c => /\ task'[d] = task[d]
                                     /\ trouble'[d] = trouble[d]
                                     /\ interrupted'[d] = interrupted[d],
           interrupted'[c] => kind = "cancelled",
           kind = "timeout" => task'[c]["decide"] # "running" /\ task'[c]["hook"] # "running"
    PROVE  Outcomes'
<1>1. TypeOK /\ pc' = [pc EXCEPT ![c] = "returned"]
  BY DEF LogInv, Finish, Return
<1>2. KindsOf(c)' \subseteq {kind} /\ \A d \in Calls : d # c => KindsOf(d)' \subseteq KindsOf(d)
  BY FinishKinds
<1>3. pc'[c] = "returned" /\ \A d \in Calls : d # c => pc'[d] = pc[d]
  BY <1>1 DEF TypeOK
<1>4. HeedsOwner(c)' /\ AdmitsLeftovers(c)'
  <2>1. \/ outcome'[c] = OutcomeOf(kind)
        \/ outcome'[c] = "sink" /\ sinkFailures' = sinkFailures + 1
    BY <1>1, ReturnEnds DEF Finish
  <2>2. sinkFailures + 1 > 0
    BY <1>1, SinkAssumption DEF TypeOK
  <2>3. kind = "cancelled" => EndsCancelled(c)'
    BY <2>1, <2>2 DEF EndsCancelled, OutcomeOf
  <2> QED BY <1>2, <1>3, <2>3 DEF HeedsOwner, AdmitsLeftovers
<1>5. ASSUME NEW d \in Calls, d # c
      PROVE  HeedsOwner(d)' /\ AdmitsLeftovers(d)'
  BY <1>1, <1>2, <1>3, <1>5, OutcomeKept
<1> QED BY <1>4, <1>5 DEF Outcomes

\* The resumptions of a waiting call.
LEMMA ResumeOutcomes ==
    ASSUME LogInv, TypeOK', EndsOne, Outcomes, NEW c \in Calls, Resume(c)
    PROVE  Outcomes'
<1>1. TypeOK
  BY DEF LogInv
<1>2. HeedsOwner(c) /\ AdmitsLeftovers(c)
  BY DEF Outcomes
<1>3. CASE TakeResult(c)
  <2>1. /\ pc[c] = "deciding"
        /\ ~interrupted[c]
        /\ interrupted' = interrupted
        /\ trouble' = trouble
        /\ task' = [task EXCEPT ![c]["decide"] = "done"]
        /\ Finish(c, VerdictKind(task[c]["decide"]))
    BY <1>2, <1>3 DEF TakeResult, HeedsOwner
  <2>2. VerdictKind(task[c]["decide"]) # "timeout"
    BY DEF VerdictKind
  <2>3. \A d \in Calls : d # c => task'[d] = task[d]
    BY <1>1, <2>1 DEF TypeOK
  <2> QED BY <2>1, <2>2, <2>3, VerdictTyped, FinishOutcomes DEF Waiting
<1>4. CASE DeadlinePasses(c) \/ HookTimesOut(c) \/ CancelAgain(c)
  <2>1. /\ UNCHANGED <<interrupted, trouble, task, logVars>>
        /\ \/ pc' = pc
           \/ pc[c] = "deciding" /\ pc' = [pc EXCEPT ![c] = "decideGrace"]
           \/ pc[c] = "hooking" /\ pc' = [pc EXCEPT ![c] = "hookGrace"]
    BY <1>4 DEF DeadlinePasses, HookTimesOut, CancelAgain, taskVars
  <2>2. \A d \in Calls : KindsOf(d)' = KindsOf(d)
    BY <2>1, KindsUnchanged
  <2>3. HeedsOwner(c)' /\ AdmitsLeftovers(c)'
    BY <1>1, <1>2, <2>1, <2>2, KeptEnd DEF HeedsOwner, AdmitsLeftovers, TypeOK
  <2>4. ASSUME NEW d \in Calls, d # c
        PROVE  HeedsOwner(d)' /\ AdmitsLeftovers(d)'
    <3>1. pc'[d] = pc[d]
      BY <1>1, <2>1, <2>4 DEF TypeOK
    <3> QED BY <1>1, <2>1, <2>2, <3>1, OutcomeKept
  <2> QED BY <2>3, <2>4 DEF Outcomes
<1>5. CASE EndDecideGrace(c)
  <2>1. /\ pc[c] = "decideGrace"
        /\ interrupted' = interrupted
        /\ task[c]["hook"] = "none"
    BY <1>2, <1>5 DEF EndDecideGrace, AdmitsLeftovers
  <2>2. CASE interrupted[c] /\ Finish(c, "cancelled") /\ UNCHANGED <<trouble, task>>
    BY <2>1, <2>2, FinishOutcomes DEF Waiting, TerminalKinds
  <2>3. CASE /\ ~interrupted[c]
             /\ task' = [task EXCEPT ![c]["hook"] = "running"]
             /\ pc' = [pc EXCEPT ![c] = "hooking"]
             /\ trouble' = [trouble EXCEPT ![c] = task[c]["decide"] = "running"]
             /\ UNCHANGED logVars
    <3>1. \A d \in Calls : KindsOf(d)' = KindsOf(d)
      BY <2>3, KindsUnchanged
    <3>2. HeedsOwner(c)' /\ AdmitsLeftovers(c)'
      BY <1>1, <2>1, <2>3 DEF HeedsOwner, AdmitsLeftovers, TypeOK, TaskKinds
    <3>3. ASSUME NEW d \in Calls, d # c
          PROVE  HeedsOwner(d)' /\ AdmitsLeftovers(d)'
      <4>1. pc'[d] = pc[d] /\ task'[d] = task[d] /\ trouble'[d] = trouble[d]
        BY <1>1, <2>3, <3>3 DEF TypeOK
      <4> QED BY <1>1, <2>1, <3>1, <4>1, OutcomeKept
    <3> QED BY <3>2, <3>3 DEF Outcomes
  <2>4. ASSUME NEW raised \in BOOLEAN, ~interrupted[c],
               trouble' = [trouble EXCEPT ![c] = raised \/ task[c]["decide"] = "running"],
               Finish(c, IF trouble'[c] THEN "cleanup" ELSE "timeout"),
               UNCHANGED task
        PROVE  Outcomes'
    <3>1. trouble'[c] = (raised \/ task[c]["decide"] = "running")
      BY <1>1, <2>4 DEF TypeOK
    <3>2. \A d \in Calls : d # c => trouble'[d] = trouble[d]
      BY <1>1, <2>4 DEF TypeOK
    <3>3. PICK kind : kind = IF trouble'[c] THEN "cleanup" ELSE "timeout"
      OBVIOUS
    <3>4. kind \in TerminalKinds /\ Finish(c, kind) /\ (kind = "timeout" => ~trouble'[c])
      BY <2>4, <3>3 DEF TerminalKinds
    <3>5. kind = "timeout" => task[c]["decide"] # "running"
      BY <3>1, <3>4
    <3> QED BY <2>1, <2>4, <3>2, <3>4, <3>5, FinishOutcomes DEF Waiting
  <2> QED BY <1>5, <2>2, <2>3, <2>4 DEF EndDecideGrace
<1>6. CASE HookAnswered(c)
  <2>1. /\ pc[c] = "hooking"
        /\ ~interrupted[c]
        /\ interrupted' = interrupted
        /\ trouble' = [trouble EXCEPT ![c] = @ \/ task[c]["hook"] # "ok"]
        /\ task' = [task EXCEPT ![c]["hook"] = "done"]
        /\ Finish(c, IF trouble'[c] THEN "cleanup" ELSE "timeout")
    BY <1>2, <1>6 DEF HookAnswered, HeedsOwner
  <2>2. PICK kind : kind = IF trouble'[c] THEN "cleanup" ELSE "timeout"
    OBVIOUS
  <2>3. kind \in TerminalKinds /\ Finish(c, kind) /\ (kind = "timeout" => ~trouble'[c])
    BY <2>1, <2>2 DEF TerminalKinds
  <2>4. ~trouble'[c] => ~trouble[c]
    BY <1>1, <2>1 DEF TypeOK
  <2>5. task'[c]["hook"] # "running" /\ task'[c]["decide"] = task[c]["decide"]
    BY <1>1, <2>1 DEF TypeOK, TaskKinds
  <2>6. kind = "timeout" => task[c]["decide"] # "running"
    BY <1>2, <2>1, <2>3, <2>4 DEF AdmitsLeftovers
  <2>7. \A d \in Calls : d # c => task'[d] = task[d] /\ trouble'[d] = trouble[d]
    BY <1>1, <2>1 DEF TypeOK
  <2> QED BY <2>1, <2>3, <2>5, <2>6, <2>7, FinishOutcomes DEF Waiting
<1>7. CASE EndHookGrace(c)
  <2>1. /\ pc[c] = "hookGrace"
        /\ interrupted' = interrupted
        /\ trouble' = [trouble EXCEPT ![c] = TRUE]
        /\ task' = task
        /\ Finish(c, IF interrupted[c] THEN "cancelled" ELSE "cleanup")
    BY <1>7 DEF EndHookGrace
  <2>2. PICK kind : kind = IF interrupted[c] THEN "cancelled" ELSE "cleanup"
    OBVIOUS
  <2>3. /\ kind \in TerminalKinds
        /\ Finish(c, kind)
        /\ kind # "timeout"
        /\ interrupted'[c] => kind = "cancelled"
    BY <2>1, <2>2 DEF TerminalKinds
  <2>4. \A d \in Calls : d # c => trouble'[d] = trouble[d]
    BY <1>1, <2>1 DEF TypeOK
  <2> QED BY <2>1, <2>3, <2>4, FinishOutcomes DEF Waiting
<1> QED BY <1>3, <1>4, <1>5, <1>6, <1>7 DEF Resume

\* The cancellation of a waiting call by its owner.
LEMMA CallerCancelsOutcomes ==
    ASSUME LogInv, TypeOK', EndsOne, Outcomes, NEW c \in Calls, CallerCancels(c)
    PROVE  Outcomes'
<1>1. TypeOK /\ pc[c] \in Waiting /\ HeedsOwner(c) /\ AdmitsLeftovers(c)
  BY DEF LogInv, Outcomes, CallerCancels
<1>2. /\ interrupted' = [interrupted EXCEPT ![c] = TRUE]
      /\ trouble' = trouble
  BY DEF CallerCancels
<1>3. CASE Finish(c, "cancelled") /\ task' = [task EXCEPT ![c][Awaited(c)] = "done"]
  <2>1. \A d \in Calls : d # c => task'[d] = task[d] /\ interrupted'[d] = interrupted[d]
    BY <1>1, <1>2, <1>3 DEF TypeOK
  <2> QED BY <1>1, <1>2, <1>3, <2>1, FinishOutcomes DEF TerminalKinds
<1>4. CASE /\ UNCHANGED <<task, logVars>>
           /\ \/ pc[c] \in {"decideGrace", "hookGrace"} /\ pc' = pc
              \/ pc[c] = "deciding" /\ pc' = [pc EXCEPT ![c] = "decideGrace"]
              \/ pc[c] = "hooking" /\ pc' = [pc EXCEPT ![c] = "hookGrace"]
  <2>1. \A d \in Calls : KindsOf(d)' = KindsOf(d)
    BY <1>4, KindsUnchanged
  <2>2. HeedsOwner(c)' /\ AdmitsLeftovers(c)'
    BY <1>1, <1>2, <1>4 DEF HeedsOwner, AdmitsLeftovers, TypeOK
  <2>3. ASSUME NEW d \in Calls, d # c
        PROVE  HeedsOwner(d)' /\ AdmitsLeftovers(d)'
    <3>1. pc'[d] = pc[d] /\ interrupted'[d] = interrupted[d]
      BY <1>1, <1>2, <1>4, <2>3 DEF TypeOK
    <3> QED BY <1>1, <1>2, <1>4, <2>1, <3>1, OutcomeKept
  <2> QED BY <2>2, <2>3 DEF Outcomes
<1>5. \/ UNCHANGED <<pc, task, logVars>> /\ pc[c] \in {"decideGrace", "hookGrace"}
      \/ Finish(c, "cancelled") /\ task' = [task EXCEPT ![c][Awaited(c)] = "done"]
      \/ /\ pc[c] \in {"deciding", "hooking"}
         /\ pc' = [pc EXCEPT ![c] = IF pc[c] = "deciding" THEN "decideGrace" ELSE "hookGrace"]
         /\ UNCHANGED <<task, logVars>>
  BY DEF CallerCancels
<1> QED BY <1>3, <1>4, <1>5

\* A task that finishes was running, and no call ends with it.
LEMMA TaskFinishesOutcomes ==
    ASSUME LogInv, EndsOne, Outcomes, NEW c \in Calls, TaskFinishes(c)
    PROVE  Outcomes'
<1>1. TypeOK
  BY DEF LogInv
<1>2. UNCHANGED <<pc, interrupted, trouble, logVars>>
  BY DEF TaskFinishes, DecideFinishes, HookFinishes, callVars
<1>3. \A d \in Calls : KindsOf(d)' = KindsOf(d)
  BY <1>2, KindsUnchanged
<1>4. PICK k \in TaskKinds, v \in TaskStates :
        /\ v # "running"
        /\ task[c][k] = "running"
        /\ task' = [task EXCEPT ![c][k] = v]
  <2>1. CASE DecideFinishes(c)
    BY <2>1, AnswersAssumption DEF DecideFinishes, Verdicts, TaskStates, TaskKinds
  <2>2. CASE HookFinishes(c)
    BY <2>2 DEF HookFinishes, HookAnswers, TaskStates, TaskKinds
  <2> QED BY <2>1, <2>2 DEF TaskFinishes
<1>5. ASSUME NEW d \in Calls
      PROVE  HeedsOwner(d)' /\ AdmitsLeftovers(d)'
  <2>1. HeedsOwner(d) /\ AdmitsLeftovers(d)
    BY DEF Outcomes
  <2>2. HeedsOwner(d)'
    BY <1>1, <1>2, <1>3, <2>1, KeptEnd DEF HeedsOwner
  <2>3. \A l \in TaskKinds : /\ task'[d][l] = "running" => task[d][l] = "running"
                             /\ task[d][l] = "none" => task'[d][l] = "none"
    BY <1>1, <1>4 DEF TypeOK
  <2>4. "decide" \in TaskKinds /\ "hook" \in TaskKinds
    BY DEF TaskKinds
  <2>5. AdmitsLeftovers(d)'
    BY <1>2, <1>3, <2>1, <2>3, <2>4 DEF AdmitsLeftovers
  <2> QED BY <2>2, <2>5
<1> QED BY <1>5 DEF Outcomes

\* Outcomes is inductive, given the invariant of the log.
LEMMA OutcomesStep == LogInv /\ LogInv' /\ Outcomes /\ [Next]_vars => Outcomes'
<1> SUFFICES ASSUME LogInv, LogInv', Outcomes, [Next]_vars PROVE Outcomes'
  OBVIOUS
<1>1. TypeOK' /\ EndsOne
  BY StepEndsOne DEF LogInv
<1>2. CASE UNCHANGED <<callVars, taskVars, logVars>>
  <2>1. \A d \in Calls : KindsOf(d)' = KindsOf(d)
    BY <1>2, KindsUnchanged
  <2> QED BY <1>2, <2>1 DEF Outcomes, HeedsOwner, AdmitsLeftovers, EndsCancelled,
                            callVars, taskVars, logVars
<1>3. CASE UNCHANGED vars
  BY <1>2, <1>3 DEF vars
<1>4. CASE Close
  BY <1>2, <1>4 DEF Close, CloseBegins, CloseCancelsNext, CloseEnds, CloseInterrupted
<1> QED BY <1>1, <1>3, <1>4, ExecuteOutcomes, ResumeOutcomes, CallerCancelsOutcomes,
           TaskFinishesOutcomes DEF Next

\* In every reachable state the calls end as Outcomes says.
THEOREM OutcomesCorrect == Spec => []Outcomes
<1>1. Init => Outcomes
  BY DEF Init, Outcomes, HeedsOwner, AdmitsLeftovers, TaskKinds
<1> QED BY <1>1, LogCorrect, OutcomesStep, PTL DEF Spec

\* The cancellation of a call by its owner is never turned into a result or a
\* timeout, whatever arrives while the task is being reclaimed (_cancel_task and
\* _notify_agent_timeout): the call raises CancelledError, or the exception of
\* a trace callback that raised while it committed its row.
THEOREM OwnerIsHeeded == Spec => []CancellationIsNeverSwallowed
<1>1. Outcomes => CancellationIsNeverSwallowed
  BY DEF Outcomes, HeedsOwner, EndsCancelled, CancellationIsNeverSwallowed
<1> QED BY <1>1, OutcomesCorrect, PTL

\* A task that outlives its call is registered, and its call never claims to be
\* a mere timeout (_track_unresolved, fatal_cleanup_failure).
THEOREM LeftoversAreKnown == Spec => []LeftoversAreTracked
<1>1. Watched /\ Outcomes => LeftoversAreTracked
  <2> SUFFICES ASSUME Watched, Outcomes, NEW c \in Calls, NEW k \in TaskKinds,
                      pc[c] = "returned", task[c][k] = "running"
               PROVE  <<c, k>> \in unresolved /\ "timeout" \notin KindsOf(c)
    BY DEF LeftoversAreTracked
  <2>1. <<c, k>> \in unresolved
    BY DEF Watched, Waiting
  <2>2. "timeout" \notin KindsOf(c)
    BY DEF Outcomes, AdmitsLeftovers, TaskKinds
  <2> QED BY <2>1, <2>2
<1>2. Init => Watched
  BY DEF Init, Watched, TaskKinds
<1> QED BY <1>1, <1>2, OutcomesCorrect, TypeCorrect, WatchedStep, PTL DEF Spec

\* Once call c has left its wait for the decision, it ends with a terminal that
\* is no verdict of its agent.
LEMMA LateEnd ==
    ASSUME LogInv, NEW c \in Calls, pc[c] \in {"decideGrace", "hooking", "hookGrace"},
           pc'[c] = "returned", Next
    PROVE  \E kind \in {"timeout", "cleanup", "cancelled"} : Finish(c, kind)
<1>1. TypeOK
  BY DEF LogInv
<1>2. ASSUME NEW d \in Calls, NEW p, pc' = [pc EXCEPT ![d] = p]
      PROVE  d = c
  BY <1>1, <1>2 DEF TypeOK
<1>3. pc' # pc
  OBVIOUS
<1>4. ASSUME NEW d \in Calls, NEW id \in Ids, Execute(d, id)
      PROVE  FALSE
  <2>1. pc[d] = "idle" /\ \E p : pc' = [pc EXCEPT ![d] = p]
    BY <1>4 DEF Execute, ExecuteDuplicate, ExecuteSinkFails, ExecuteMisbound, ExecuteDecide,
                ExecuteExpired, Register, Return
  <2> QED BY <1>2, <2>1
<1>5. ~Close /\ \A d \in Calls : ~TaskFinishes(d)
  BY <1>3 DEF Close, CloseBegins, CloseCancelsNext, CloseEnds, CloseInterrupted,
              TaskFinishes, DecideFinishes, HookFinishes, callVars
<1>6. ASSUME NEW d \in Calls, CallerCancels(d)
      PROVE  d = c /\ Finish(c, "cancelled")
  <2>1. \E p : pc' = [pc EXCEPT ![d] = p]
    BY <1>3, <1>6 DEF CallerCancels, Finish, Return
  <2>2. d = c
    BY <1>2, <2>1
  <2>3. pc' # [pc EXCEPT ![c] = IF pc[c] = "deciding" THEN "decideGrace" ELSE "hookGrace"]
    BY <1>1 DEF TypeOK
  <2> QED BY <1>3, <1>6, <2>2, <2>3 DEF CallerCancels
<1>7. ASSUME NEW d \in Calls, Resume(d)
      PROVE  \E kind \in {"timeout", "cleanup", "cancelled"} : Finish(c, kind)
  <2>1. d = c
    <3>1. \E p : pc' = [pc EXCEPT ![d] = p]
      BY <1>3, <1>7 DEF Resume, TakeResult, DeadlinePasses, CancelAgain, EndDecideGrace,
                        HookAnswered, HookTimesOut, EndHookGrace, Finish, Return
    <3> QED BY <1>2, <3>1
  <2>2. ~TakeResult(c) /\ ~DeadlinePasses(c) /\ ~CancelAgain(c)
    BY <1>3 DEF TakeResult, DeadlinePasses, CancelAgain
  <2>3. pc' # [pc EXCEPT ![c] = "hooking"] /\ pc' # [pc EXCEPT ![c] = "hookGrace"]
    BY <1>1 DEF TypeOK
  <2> QED BY <1>7, <2>1, <2>2, <2>3
          DEF Resume, EndDecideGrace, HookAnswered, HookTimesOut, EndHookGrace
<1> QED BY <1>4, <1>5, <1>6, <1>7 DEF Next

\* A result that arrives after the deadline or the cancellation is dropped
\* (_consume_task_result): no verdict of the agent becomes the terminal.
THEOREM LateResultsAreForgotten == Spec => LateResultsAreDropped
<1> DEFINE Dropped ==
             \A c \in Calls :
               pc[c] \in {"decideGrace", "hooking", "hookGrace"} /\ pc'[c] = "returned"
                 => KindsOf(c)' \subseteq {"timeout", "cleanup", "cancelled"}
<1>1. LogInv /\ LogInv' /\ [Next]_vars => [Dropped]_vars
  <2> SUFFICES ASSUME LogInv, LogInv', Next, NEW c \in Calls,
                      pc[c] \in {"decideGrace", "hooking", "hookGrace"}, pc'[c] = "returned"
               PROVE  KindsOf(c)' \subseteq {"timeout", "cleanup", "cancelled"}
    OBVIOUS
  <2>1. PICK kind \in {"timeout", "cleanup", "cancelled"} : Finish(c, kind)
    BY LateEnd
  <2>2. kind \in TerminalKinds /\ pc[c] \in Waiting /\ TypeOK'
    BY DEF TerminalKinds, Waiting, LogInv
  <2>3. KindsOf(c)' \subseteq {kind}
    BY <2>1, <2>2, FinishKinds
  <2> QED BY <2>3
<1> QED BY <1>1, LogCorrect, PTL DEF Spec, LateResultsAreDropped

-----------------------------------------------------------------------------
(* The ledger.                                                              *)

\* The terminal rows of a log by index, the number of them up to an index, and
\* the sequence of them: what DecisionLedger sees as closed.
TermsOf(log) == {i \in DOMAIN log : log[i].kind # "request"}
Rank(log, j) == Cardinality({l \in TermsOf(log) : l <= j})
ClosedOf(log) ==
    [i \in 1..Cardinality(TermsOf(log)) |-> log[CHOOSE j \in TermsOf(log) : Rank(log, j) = i]]

\* Every number up to the number of terminals is the rank of one.
Ranked(log) ==
    \A i \in 1..Cardinality(TermsOf(log)) : \E j \in TermsOf(log) : Rank(log, j) = i

\* The terminals closed, in order, the requests acc before nxt but for at most
\* as many as rows were lost.
ClosedInOrder(closed, acc, nxt, lost) ==
    /\ Len(closed) <= nxt - 1
    /\ nxt - 1 <= Len(closed) + lost
    /\ \A n \in 1..Len(closed) :
         /\ closed[n].kind \in TerminalKinds
         /\ \E i \in n..(n + lost) : i < nxt /\ acc[i] = closed[n].id
    /\ \A m, n \in 1..Len(closed) : m < n =>
         \A i, k \in 1..Len(acc) : acc[i] = closed[m].id /\ acc[k] = closed[n].id => i < k

LedgerInv ==
    /\ Ranked(rows)
    /\ ClosedInOrder(ClosedOf(rows), accepted, next, sinkFailures)

\* The number of terminals of a log is finite, and a later terminal has a higher rank.
LEMMA RanksGrow ==
    ASSUME NEW log \in Seq(Rows)
    PROVE  /\ IsFiniteSet(TermsOf(log))
           /\ Cardinality(TermsOf(log)) \in Nat
           /\ \A j \in TermsOf(log) : Rank(log, j) \in 1..Cardinality(TermsOf(log))
           /\ \A j, k \in TermsOf(log) : j < k => Rank(log, j) < Rank(log, k)
<1>1. TermsOf(log) \subseteq 1..Len(log) /\ Len(log) \in Nat
  BY DEF TermsOf
<1>2. IsFiniteSet(TermsOf(log))
  <2>1. IsFiniteSet(1..Len(log))
    BY <1>1, FS_Interval
  <2> QED BY <1>1, <2>1, FS_Subset
<1> DEFINE Upto(j) == {l \in TermsOf(log) : l <= j}
<1>3. \A j : IsFiniteSet(Upto(j)) /\ Cardinality(Upto(j)) \in Nat
             /\ Cardinality(Upto(j)) <= Cardinality(TermsOf(log))
  <2> TAKE j
  <2>1. Upto(j) \in SUBSET TermsOf(log)
    OBVIOUS
  <2> QED BY <1>2, <2>1, FS_Subset, FS_CardinalityType
<1>4. Cardinality(TermsOf(log)) \in Nat
  BY <1>2, FS_CardinalityType
<1>5. \A j \in TermsOf(log) : Rank(log, j) \in 1..Cardinality(TermsOf(log))
  <2> TAKE j \in TermsOf(log)
  <2>1. j \in Upto(j)
    BY <1>1
  <2>2. Cardinality(Upto(j)) # 0
    BY <1>3, <2>1, FS_EmptySet
  <2> QED BY <1>3, <1>4, <2>2 DEF Rank
<1>6. ASSUME NEW j \in TermsOf(log), NEW k \in TermsOf(log), j < k
      PROVE  Rank(log, j) < Rank(log, k)
  <2>1. Upto(j) \in SUBSET Upto(k)
    BY <1>1, <1>6
  <2>2. k \in Upto(k) /\ k \notin Upto(j)
    BY <1>1, <1>6
  <2>3. Upto(j) # Upto(k)
    BY <2>2
  <2>4. Rank(log, j) = Cardinality(Upto(j)) /\ Rank(log, k) = Cardinality(Upto(k))
    BY DEF Rank
  <2>5. /\ IsFiniteSet(Upto(k))
        /\ Cardinality(Upto(j)) \in Nat
        /\ Cardinality(Upto(k)) \in Nat
    BY <1>3
  <2> HIDE DEF Upto
  <2>6. Cardinality(Upto(j)) <= Cardinality(Upto(k)) /\ Cardinality(Upto(j)) # Cardinality(Upto(k))
    BY <2>1, <2>3, <2>5, FS_Subset
  <2> QED BY <2>4, <2>5, <2>6
<1> QED BY <1>2, <1>4, <1>5, <1>6

\* In a ranked log the i-th closed row is the terminal of rank i.
LEMMA ClosedRow ==
    ASSUME NEW log \in Seq(Rows), Ranked(log)
    PROVE  /\ ClosedOf(log) \in Seq(Rows)
           /\ Len(ClosedOf(log)) = Cardinality(TermsOf(log))
           /\ \A j \in TermsOf(log) : ClosedOf(log)[Rank(log, j)] = log[j]
<1> DEFINE Pick(i) == CHOOSE j \in TermsOf(log) : Rank(log, j) = i
           size == Cardinality(TermsOf(log))
<1>1. size \in Nat /\ \A j \in TermsOf(log) : Rank(log, j) \in 1..size
  BY RanksGrow
<1>2. \A i \in 1..size : Pick(i) \in TermsOf(log) /\ Rank(log, Pick(i)) = i
  BY DEF Ranked
<1>3. TermsOf(log) \subseteq 1..Len(log)
  BY DEF TermsOf
<1>4. \A i \in 1..size : log[Pick(i)] \in Rows
  BY <1>2, <1>3
<1>5. ClosedOf(log) = [i \in 1..size |-> log[Pick(i)]]
  BY DEF ClosedOf
<1>6. ASSUME NEW j \in TermsOf(log)
      PROVE  Pick(Rank(log, j)) = j
  <2>1. Rank(log, j) \in 1..size
    BY <1>1
  <2>2. Pick(Rank(log, j)) \in TermsOf(log) /\ Rank(log, Pick(Rank(log, j))) = Rank(log, j)
    BY <1>2, <2>1
  <2> HIDE DEF Pick
  <2>3. j \in Int /\ Pick(Rank(log, j)) \in Int
    BY <1>3, <2>2
  <2>4. ~(j < Pick(Rank(log, j))) /\ ~(Pick(Rank(log, j)) < j)
    BY <1>1, <2>1, <2>2, RanksGrow
  <2> QED BY <2>3, <2>4
<1> HIDE DEF Pick, size
<1>7. ClosedOf(log) \in Seq(Rows) /\ Len(ClosedOf(log)) = size
  BY <1>1, <1>4, <1>5
<1>8. \A j \in TermsOf(log) : ClosedOf(log)[Rank(log, j)] = log[j]
  BY <1>1, <1>5, <1>6
<1> QED BY <1>7, <1>8 DEF size

\* A request row adds nothing to the closed rows.
LEMMA RequestClosesNothing ==
    ASSUME NEW log \in Seq(Rows), NEW id \in Ids, Ranked(log)
    PROVE  /\ Ranked(Append(log, RequestRow(id)))
           /\ ClosedOf(Append(log, RequestRow(id))) = ClosedOf(log)
<1> DEFINE new == Append(log, RequestRow(id))
<1>1. /\ DOMAIN log = 1..Len(log) /\ Len(log) \in Nat
      /\ DOMAIN new = 1..(Len(log) + 1)
      /\ \A i \in 1..Len(log) : new[i] = log[i]
      /\ new[Len(log) + 1].kind = "request"
  BY DEF RequestRow
<1> HIDE DEF new
<1>2. TermsOf(new) = TermsOf(log)
  BY <1>1 DEF TermsOf
<1>3. \A j : Rank(new, j) = Rank(log, j)
  BY <1>2 DEF Rank
<1>4. \A i : (CHOOSE j \in TermsOf(new) : Rank(new, j) = i) = (CHOOSE j \in TermsOf(log) : Rank(log, j) = i)
  BY <1>2, <1>3
<1>5. \A i \in 1..Cardinality(TermsOf(log)) :
        (CHOOSE j \in TermsOf(log) : Rank(log, j) = i) \in 1..Len(log)
  BY <1>1 DEF Ranked, TermsOf
<1>6. ClosedOf(new) = ClosedOf(log)
  BY <1>1, <1>2, <1>4, <1>5, ZenonT(20) DEF ClosedOf
<1> QED BY <1>2, <1>3, <1>6 DEF Ranked, new

\* Terminals appended to a log are appended to its closed rows.
LEMMA TerminalsClose ==
    ASSUME NEW log \in Seq(Rows), Ranked(log), NEW batch \in Seq(Rows),
           \A i \in 1..Len(batch) : batch[i].kind # "request"
    PROVE  /\ Ranked(log \o batch)
           /\ ClosedOf(log \o batch) = ClosedOf(log) \o batch
<1> DEFINE new == log \o batch
           size == Cardinality(TermsOf(log))
<1>1. /\ Len(log) \in Nat /\ Len(batch) \in Nat
      /\ new \in Seq(Rows) /\ Len(new) = Len(log) + Len(batch)
      /\ \A i \in 1..Len(log) : new[i] = log[i]
      /\ \A m \in 1..Len(batch) : new[Len(log) + m] = batch[m]
      /\ DOMAIN log = 1..Len(log) /\ DOMAIN new = 1..(Len(log) + Len(batch))
  <2>1. /\ new \in Seq(Rows) /\ Len(new) = Len(log) + Len(batch)
        /\ \A i \in 1..(Len(log) + Len(batch)) :
             new[i] = IF i <= Len(log) THEN log[i] ELSE batch[i - Len(log)]
    BY ConcatProperties
  <2> HIDE DEF new
  <2>2. Len(log) \in Nat /\ Len(batch) \in Nat
    OBVIOUS
  <2>3. \A i \in 1..Len(log) : new[i] = log[i]
    BY <2>1, <2>2
  <2>4. ASSUME NEW m \in 1..Len(batch)
        PROVE  new[Len(log) + m] = batch[m]
    <3>1. Len(log) + m \in 1..(Len(log) + Len(batch)) /\ ~(Len(log) + m <= Len(log)) /\ (Len(log) + m) - Len(log) = m
      BY <2>2
    <3> QED BY <2>1, <3>1
  <2> QED BY <2>1, <2>2, <2>3, <2>4
<1> HIDE DEF new
<1>2. TermsOf(log) \subseteq 1..Len(log) /\ IsFiniteSet(TermsOf(log)) /\ size \in Nat
  BY <1>1, RanksGrow DEF TermsOf
<1>3. TermsOf(new) = TermsOf(log) \cup ((Len(log) + 1)..(Len(log) + Len(batch)))
  <2>1. \A i \in (Len(log) + 1)..(Len(log) + Len(batch)) : new[i].kind # "request"
    <3> TAKE i \in (Len(log) + 1)..(Len(log) + Len(batch))
    <3>1. i - Len(log) \in 1..Len(batch) /\ Len(log) + (i - Len(log)) = i
      BY <1>1
    <3> QED BY <1>1, <3>1
  <2>2. DOMAIN new = (1..Len(log)) \cup ((Len(log) + 1)..(Len(log) + Len(batch)))
    BY <1>1
  <2> QED BY <1>1, <2>1, <2>2 DEF TermsOf
<1> HIDE DEF size
<1>4. ASSUME NEW m \in 0..Len(batch)
      PROVE  LET added == (Len(log) + 1)..(Len(log) + m)
             IN Cardinality(TermsOf(log) \cup added) = size + m
  <2> DEFINE added == (Len(log) + 1)..(Len(log) + m)
  <2>1. Len(log) + 1 \in Int /\ Len(log) + m \in Int /\ m \in Nat
    BY <1>1
  <2>2. IsFiniteSet(added) /\ Cardinality(added) = m
    <3>1. IsFiniteSet(added) /\ Cardinality(added) = IF Len(log) + 1 > Len(log) + m THEN 0 ELSE (Len(log) + m) - (Len(log) + 1) + 1
      BY <2>1, FS_Interval
    <3> QED BY <1>1, <2>1, <3>1
  <2>3. TermsOf(log) \cap added = {}
    BY <1>1, <1>2
  <2>4. Cardinality(TermsOf(log) \cap added) = 0
    BY <2>3, FS_EmptySet
  <2> HIDE DEF added
  <2>5. Cardinality(TermsOf(log) \cup added) = size + m - 0
    BY <1>2, <2>2, <2>4, FS_Union DEF size
  <2> QED BY <1>2, <2>1, <2>5 DEF added
<1>5. Cardinality(TermsOf(new)) = size + Len(batch)
  BY <1>1, <1>3, <1>4
<1>6. \A j \in TermsOf(log) : Rank(new, j) = Rank(log, j)
  <2> TAKE j \in TermsOf(log)
  <2>1. {l \in TermsOf(new) : l <= j} = {l \in TermsOf(log) : l <= j}
    BY <1>1, <1>2, <1>3
  <2> QED BY <2>1 DEF Rank
<1>7. ASSUME NEW m \in 1..Len(batch)
      PROVE  Len(log) + m \in TermsOf(new) /\ Rank(new, Len(log) + m) = size + m
  <2>1. Len(log) + m \in TermsOf(new)
    BY <1>1, <1>3
  <2>2. {l \in TermsOf(new) : l <= Len(log) + m} = TermsOf(log) \cup ((Len(log) + 1)..(Len(log) + m))
    BY <1>1, <1>2, <1>3
  <2>3. m \in 0..Len(batch)
    BY <1>1
  <2> QED BY <1>4, <2>1, <2>2, <2>3 DEF Rank
<1>8. \A i \in (size + 1)..(size + Len(batch)) : i - size \in 1..Len(batch) /\ size + (i - size) = i
  BY <1>1, <1>2
<1>9. Ranked(new)
  <2> SUFFICES ASSUME NEW i \in 1..(size + Len(batch))
               PROVE  \E j \in TermsOf(new) : Rank(new, j) = i
    BY <1>5 DEF Ranked
  <2>1. CASE i <= size
    <3>1. i \in 1..size
      BY <1>1, <1>2, <2>1
    <3>2. PICK j \in TermsOf(log) : Rank(log, j) = i
      BY <3>1 DEF Ranked, size
    <3> QED BY <1>3, <1>6, <3>2
  <2>2. CASE i > size
    <3>1. i \in (size + 1)..(size + Len(batch))
      BY <1>1, <1>2, <2>2
    <3> QED BY <1>7, <1>8, <3>1
  <2> QED BY <1>2, <2>1, <2>2
<1>10. /\ ClosedOf(new) \in Seq(Rows)
       /\ Len(ClosedOf(new)) = size + Len(batch)
       /\ ClosedOf(log) \in Seq(Rows)
       /\ Len(ClosedOf(log)) = size
  BY <1>1, <1>5, <1>9, ClosedRow DEF size
<1>11. ASSUME NEW i \in 1..size
       PROVE  ClosedOf(new)[i] = ClosedOf(log)[i]
  <2>1. PICK j \in TermsOf(log) : Rank(log, j) = i
    BY DEF Ranked, size
  <2>2. ClosedOf(log)[i] = log[j]
    BY <2>1, ClosedRow
  <2>3. j \in TermsOf(new) /\ Rank(new, j) = i
    BY <1>3, <1>6, <2>1
  <2>4. ClosedOf(new)[i] = new[j]
    BY <1>1, <1>9, <2>3, ClosedRow
  <2> QED BY <1>1, <1>2, <2>2, <2>4
<1>12. ASSUME NEW m \in 1..Len(batch)
       PROVE  ClosedOf(new)[size + m] = batch[m]
  BY <1>1, <1>7, <1>9, ClosedRow
<1>13. ClosedOf(new) = ClosedOf(log) \o batch
  <2> DEFINE both == ClosedOf(log) \o batch
  <2>1. /\ both \in Seq(Rows)
        /\ Len(both) = size + Len(batch)
        /\ \A i \in 1..(size + Len(batch)) :
             both[i] = IF i <= size THEN ClosedOf(log)[i] ELSE batch[i - size]
    BY <1>10, ConcatProperties
  <2> HIDE DEF both
  <2>2. ASSUME NEW i \in 1..(size + Len(batch))
        PROVE  ClosedOf(new)[i] = both[i]
    <3>1. CASE i <= size
      <4>1. i \in 1..size
        BY <1>1, <1>2, <3>1
      <4> QED BY <1>11, <2>1, <3>1, <4>1
    <3>2. CASE ~(i <= size)
      <4>1. i \in (size + 1)..(size + Len(batch))
        BY <1>1, <1>2, <3>2
      <4> QED BY <1>8, <1>12, <2>1, <3>2, <4>1
    <3> QED BY <3>1, <3>2
  <2>3. ClosedOf(new) = both
    BY <1>10, <2>1, <2>2, SeqEqual
  <2> QED BY <2>3 DEF both
<1> QED BY <1>9, <1>13 DEF new

-----------------------------------------------------------------------------
\* Accepting one more request keeps the closed rows in order.
LEMMA AcceptKeepsOrder ==
    ASSUME NEW acc \in Seq(Ids), NEW id \in Ids, \A n \in 1..Len(acc) : acc[n] # id,
           NEW closed \in Seq(Rows), NEW nxt \in 1..(Len(acc) + 1), NEW lost \in Nat,
           NEW more \in {lost, lost + 1}, ClosedInOrder(closed, acc, nxt, lost)
    PROVE  ClosedInOrder(closed, Append(acc, id), nxt, more)
<1> DEFINE grown == Append(acc, id)
<1>1. /\ Len(acc) \in Nat /\ Len(closed) \in Nat /\ nxt \in Nat /\ more \in Nat /\ more >= lost
      /\ Len(grown) = Len(acc) + 1
      /\ \A n \in 1..Len(acc) : grown[n] = acc[n]
      /\ grown[Len(acc) + 1] = id
  OBVIOUS
<1> HIDE DEF grown
<1>2. ASSUME NEW n \in 1..Len(closed)
      PROVE  /\ closed[n].kind \in TerminalKinds
             /\ \E i \in n..(n + more) : i < nxt /\ grown[i] = closed[n].id
             /\ closed[n].id # id
  <2>1. PICK i \in n..(n + lost) : i < nxt /\ acc[i] = closed[n].id
    BY DEF ClosedInOrder
  <2>2. i \in n..(n + more) /\ i \in 1..Len(acc)
    BY <1>1, <2>1
  <2> QED BY <1>1, <2>1, <2>2 DEF ClosedInOrder
<1>3. ASSUME NEW m \in 1..Len(closed), NEW n \in 1..Len(closed), m < n,
             NEW i \in 1..Len(grown), NEW k \in 1..Len(grown),
             grown[i] = closed[m].id, grown[k] = closed[n].id
      PROVE  i < k
  <2>1. i # Len(acc) + 1 /\ k # Len(acc) + 1
    BY <1>1, <1>2, <1>3
  <2>2. i \in 1..Len(acc) /\ k \in 1..Len(acc)
    BY <1>1, <2>1
  <2>3. acc[i] = closed[m].id /\ acc[k] = closed[n].id
    BY <1>1, <1>3, <2>2
  <2> QED BY <1>3, <2>2, <2>3 DEF ClosedInOrder
<1>4. Len(closed) <= nxt - 1 /\ nxt - 1 <= Len(closed) + more
  BY <1>1 DEF ClosedInOrder
<1> QED BY <1>2, <1>3, <1>4 DEF ClosedInOrder, grown

\* A row that was lost keeps the closed rows in order.
LEMMA LossKeepsOrder ==
    ASSUME NEW acc \in Seq(Ids), NEW closed \in Seq(Rows), NEW nxt \in Nat, NEW lost \in Nat,
           ClosedInOrder(closed, acc, nxt, lost)
    PROVE  ClosedInOrder(closed, acc, nxt + 1, lost + 1)
<1>1. Len(closed) \in Nat
  OBVIOUS
<1>2. Len(closed) <= (nxt + 1) - 1 /\ (nxt + 1) - 1 <= Len(closed) + (lost + 1)
  BY <1>1 DEF ClosedInOrder
<1>3. ASSUME NEW n \in 1..Len(closed)
      PROVE  /\ closed[n].kind \in TerminalKinds
             /\ \E i \in n..(n + (lost + 1)) : i < nxt + 1 /\ acc[i] = closed[n].id
  <2>1. PICK i \in n..(n + lost) : i < nxt /\ acc[i] = closed[n].id
    BY DEF ClosedInOrder
  <2>2. i \in n..(n + (lost + 1)) /\ i < nxt + 1
    BY <1>1, <2>1
  <2> QED BY <2>1, <2>2 DEF ClosedInOrder
<1> QED BY <1>2, <1>3 DEF ClosedInOrder

\* The requests acc are distinct, and the buffered terminals are of some of them.
Fits(buf, acc) ==
    /\ \A i, j \in 1..Len(acc) : acc[i] = acc[j] => i = j
    /\ \A b \in buf : b.seq \in 1..Len(acc) /\ b.id = acc[b.seq]

\* Storing the buffered terminals first..last closes their requests in order.
LEMMA StoreKeepsOrder ==
    ASSUME NEW acc \in Seq(Ids), NEW buf \in SUBSET Terminals, Fits(buf, acc),
           NEW closed \in Seq(Rows), NEW lost \in Nat,
           NEW first \in 1..(Len(acc) + 1), NEW last \in Int, last >= first - 1,
           \A n \in first..last : Buffered(buf, n),
           ClosedInOrder(closed, acc, first, lost)
    PROVE  ClosedInOrder(closed \o Batch(buf, first, last), acc, last + 1, lost)
<1> DEFINE B == Batch(buf, first, last)
           new == closed \o B
<1>1. /\ first \in Nat /\ last \in Int /\ Len(closed) \in Nat /\ Len(acc) \in Nat
      /\ Len(closed) <= first - 1 /\ first - 1 <= Len(closed) + lost
  BY DEF ClosedInOrder
<1>2. /\ B \in Seq(Rows)
      /\ Len(B) = last - first + 1
      /\ \A m \in 1..(last - first + 1) :
           \E b \in buf : b.seq = first + m - 1 /\ B[m] = [kind |-> b.kind, id |-> b.id]
  BY <1>1, BatchTyped
<1> HIDE DEF B
<1>3. /\ new \in Seq(Rows)
      /\ Len(new) = Len(closed) + (last - first + 1)
      /\ \A n \in 1..(Len(closed) + (last - first + 1)) :
           new[n] = IF n <= Len(closed) THEN closed[n] ELSE B[n - Len(closed)]
  <2> B \in Seq(Rows)
    BY <1>2
  <2>1. /\ new \in Seq(Rows)
        /\ Len(new) = Len(closed) + Len(B)
        /\ \A n \in 1..(Len(closed) + Len(B)) :
             new[n] = IF n <= Len(closed) THEN closed[n] ELSE B[n - Len(closed)]
    BY ConcatProperties
  <2> HIDE DEF new
  <2>2. Len(B) = last - first + 1
    BY <1>2
  <2> QED BY <2>1, <2>2
<1> HIDE DEF new
<1>4. ASSUME NEW n \in 1..Len(new), n > Len(closed)
      PROVE  LET i == first + (n - Len(closed)) - 1
             IN /\ new[n].kind \in TerminalKinds
                /\ i \in n..(n + lost) /\ i < last + 1 /\ i >= first /\ i \in 1..Len(acc)
                /\ acc[i] = new[n].id
  <2> DEFINE i == first + (n - Len(closed)) - 1
  <2>1. n - Len(closed) \in 1..(last - first + 1) /\ new[n] = B[n - Len(closed)]
    BY <1>1, <1>3, <1>4
  <2>2. PICK b \in buf : b.seq = i /\ new[n] = [kind |-> b.kind, id |-> b.id]
    BY <1>2, <2>1
  <2>3. i \in n..(n + lost) /\ i < last + 1 /\ i >= first
    <3>1. n \in Nat /\ n - Len(closed) >= 1 /\ n - Len(closed) <= last - first + 1
      BY <1>1, <1>3, <2>1
    <3> QED BY <1>1, <3>1
  <2>4. b.kind \in TerminalKinds
    BY DEF Terminals
  <2>5. b.seq \in 1..Len(acc) /\ b.id = acc[b.seq]
    BY DEF Fits
  <2> HIDE DEF i
  <2> QED BY <2>2, <2>3, <2>4, <2>5 DEF i
<1>5. ASSUME NEW n \in 1..Len(new), n <= Len(closed)
      PROVE  /\ new[n] = closed[n]
             /\ n \in 1..Len(closed)
             /\ closed[n].kind \in TerminalKinds
             /\ \E i \in n..(n + lost) : i < first /\ i \in 1..Len(acc) /\ acc[i] = closed[n].id
  <2>1. n \in 1..Len(closed) /\ new[n] = closed[n]
    BY <1>1, <1>3, <1>5
  <2>2. PICK i \in n..(n + lost) : i < first /\ acc[i] = closed[n].id
    BY <2>1 DEF ClosedInOrder
  <2>3. i \in 1..Len(acc)
    BY <1>1, <2>2
  <2> QED BY <2>1, <2>2, <2>3 DEF ClosedInOrder
<1>6. ASSUME NEW n \in 1..Len(new)
      PROVE  /\ new[n].kind \in TerminalKinds
             /\ \E i \in n..(n + lost) : i < last + 1 /\ acc[i] = new[n].id
  <2>1. CASE n <= Len(closed)
    <3>1. new[n] = closed[n] /\ closed[n].kind \in TerminalKinds
      BY <1>5, <2>1
    <3>2. PICK i \in n..(n + lost) : i < first /\ acc[i] = closed[n].id
      BY <1>5, <2>1
    <3>3. i < last + 1
      BY <1>1, <1>3, <3>2
    <3> QED BY <3>1, <3>2, <3>3
  <2>2. CASE n > Len(closed)
    BY <1>4, <2>2
  <2> QED BY <1>1, <1>3, <2>1, <2>2
<1>7. ASSUME NEW n \in 1..Len(new), n > Len(closed), NEW k \in 1..Len(acc), acc[k] = new[n].id
      PROVE  k = first + (n - Len(closed)) - 1
  <2> DEFINE i == first + (n - Len(closed)) - 1
  <2>1. i \in 1..Len(acc) /\ acc[i] = new[n].id
    BY <1>4, <1>7
  <2> HIDE DEF i
  <2>2. k = i
    BY <1>7, <2>1 DEF Fits
  <2> QED BY <2>2 DEF i
<1>8. ASSUME NEW n \in 1..Len(new), n <= Len(closed), NEW k \in 1..Len(acc), acc[k] = new[n].id
      PROVE  k < first
  <2>1. PICK i \in n..(n + lost) : i < first /\ i \in 1..Len(acc) /\ acc[i] = closed[n].id
    BY <1>5, <1>8
  <2>2. new[n] = closed[n]
    BY <1>5, <1>8
  <2>3. k = i
    BY <1>8, <2>1, <2>2 DEF Fits
  <2> QED BY <2>1, <2>3
<1>9. ASSUME NEW m \in 1..Len(new), NEW n \in 1..Len(new), m < n,
             NEW i \in 1..Len(acc), NEW k \in 1..Len(acc),
             acc[i] = new[m].id, acc[k] = new[n].id
      PROVE  i < k
  <2>1. CASE n <= Len(closed)
    <3>1. m <= Len(closed)
      BY <1>1, <1>3, <1>9, <2>1
    <3>2. /\ m \in 1..Len(closed) /\ new[m] = closed[m]
          /\ n \in 1..Len(closed) /\ new[n] = closed[n]
      BY <1>5, <2>1, <3>1
    <3> QED BY <1>9, <3>2 DEF ClosedInOrder
  <2>2. CASE n > Len(closed)
    <3>1. k = first + (n - Len(closed)) - 1
      BY <1>7, <1>9, <2>2
    <3>2. CASE m <= Len(closed)
      <4>1. i < first
        BY <1>8, <1>9, <3>2
      <4> QED BY <1>1, <1>3, <2>2, <3>1, <4>1
    <3>3. CASE m > Len(closed)
      <4>1. i = first + (m - Len(closed)) - 1
        BY <1>7, <1>9, <3>3
      <4> QED BY <1>1, <1>3, <1>9, <3>1, <4>1
    <3> QED BY <1>1, <1>3, <3>2, <3>3
  <2> QED BY <1>1, <1>3, <2>1, <2>2
<1>10. Len(new) <= (last + 1) - 1 /\ (last + 1) - 1 <= Len(new) + lost
  BY <1>1, <1>3
<1> QED BY <1>6, <1>9, <1>10 DEF ClosedInOrder, new, B

\* The ledger after a step that appended closings to the closed rows.
Grows(closed, closings) ==
    /\ Ranked(rows)'
    /\ ClosedInOrder(ClosedOf(rows), accepted, next, sinkFailures)'
    /\ ClosedOf(rows)' = closed \o closings
    /\ sinkFailures' \in {sinkFailures, sinkFailures + 1}

\* A commit appends to the closed rows and keeps them in order.
LEMMA CommitCloses ==
    ASSUME TypeOK, NEW base \in Seq(Rows), NEW seq \in next..Len(accepted'), NEW id \in Ids,
           NEW kind \in TerminalKinds, accepted' \in Seq(Ids), accepted'[seq] = id,
           AcceptedOnce', LegalLog(base, accepted', buffer, next),
           Ranked(base), ClosedInOrder(ClosedOf(base), accepted', next, sinkFailures),
           CommitTerminal(base, seq, id, kind)
    PROVE  \E closings \in Seq(Rows) : Grows(ClosedOf(base), closings)
<1> DEFINE filled == buffer \cup {[seq |-> seq, id |-> id, kind |-> kind]}
<1>1. next \in Nat /\ Len(accepted') \in Nat /\ seq \in Nat /\ sinkFailures \in Nat
  BY DEF TypeOK
<1>2. next \in 1..(Len(accepted') + 1)
  BY DEF LegalLog
<1>3. filled \in SUBSET Terminals
  BY <1>1 DEF TypeOK, Terminals
<1>4. Fits(filled, accepted')
  <2>1. \A b \in buffer : b.seq \in 1..Len(accepted') /\ b.id = accepted'[b.seq]
    BY <1>1, <1>2 DEF LegalLog, LegalBuffer
  <2>2. seq \in 1..Len(accepted')
    BY <1>1, <1>2
  <2> QED BY <2>1, <2>2 DEF Fits, AcceptedOnce
<1>5. PICK last \in next..(Len(accepted') + 1) :
        /\ EndOfPrefix(filled, next, last)
        /\ \/ /\ rows' = base \o Batch(filled, next, last - 1)
              /\ next' = last
              /\ sinkFailures' = sinkFailures
           \/ \E lost \in next..(last - 1) :
                /\ rows' = base \o Batch(filled, next, lost - 1)
                /\ next' = lost + 1
                /\ sinkFailures' = sinkFailures + 1
  BY DEF CommitTerminal
<1> HIDE DEF filled
<1>6. \A n \in next..(last - 1) : Buffered(filled, n)
  BY <1>5 DEF EndOfPrefix
<1>7. \E n1 \in next..last :
        /\ rows' = base \o Batch(filled, next, n1 - 1)
        /\ \/ next' = n1 /\ sinkFailures' = sinkFailures
           \/ next' = n1 + 1 /\ sinkFailures' = sinkFailures + 1
  <2>1. CASE /\ rows' = base \o Batch(filled, next, last - 1)
             /\ next' = last
             /\ sinkFailures' = sinkFailures
    BY <1>1, <2>1, SMTT(20)
  <2>2. ASSUME NEW lost \in next..(last - 1),
               rows' = base \o Batch(filled, next, lost - 1), next' = lost + 1,
               sinkFailures' = sinkFailures + 1
        PROVE  /\ lost \in next..last
               /\ rows' = base \o Batch(filled, next, lost - 1)
               /\ next' = lost + 1 /\ sinkFailures' = sinkFailures + 1
    BY <1>1, <2>2
  <2> QED BY <1>5, <2>1, <2>2
<1>8. PICK n1 \in next..last :
        /\ rows' = base \o Batch(filled, next, n1 - 1)
        /\ \/ next' = n1 /\ sinkFailures' = sinkFailures
           \/ next' = n1 + 1 /\ sinkFailures' = sinkFailures + 1
  BY <1>7
<1>9. /\ n1 \in Nat
      /\ n1 - 1 \in Int
      /\ n1 - 1 >= next - 1
      /\ \A n \in next..(n1 - 1) : Buffered(filled, n)
      /\ (n1 - 1) + 1 = n1
  BY <1>1, <1>6
<1> DEFINE B == Batch(filled, next, n1 - 1)
<1>10. /\ B \in Seq(Rows)
       /\ \A i \in 1..Len(B) : \E b \in filled : B[i] = [kind |-> b.kind, id |-> b.id]
  <2>1. /\ B \in Seq(Rows)
        /\ Len(B) = (n1 - 1) - next + 1
        /\ \A i \in 1..((n1 - 1) - next + 1) :
             \E b \in filled : b.seq = next + i - 1 /\ B[i] = [kind |-> b.kind, id |-> b.id]
    BY <1>1, <1>3, <1>9, BatchTyped, ZenonT(20)
  <2> HIDE DEF B
  <2> QED BY <2>1
<1>11. ClosedOf(base) \in Seq(Rows)
  BY ClosedRow
<1>12. ClosedInOrder(ClosedOf(base) \o B, accepted', n1, sinkFailures)
  <2>1. ClosedInOrder(ClosedOf(base) \o B, accepted', (n1 - 1) + 1, sinkFailures)
    BY <1>1, <1>2, <1>3, <1>4, <1>9, <1>11, StoreKeepsOrder
  <2> QED BY <1>9, <2>1
<1>13. \A i \in 1..Len(B) : B[i].kind # "request"
  <2> SUFFICES ASSUME NEW i \in 1..Len(B) PROVE B[i].kind # "request"
    OBVIOUS
  <2>1. PICK b \in filled : B[i] = [kind |-> b.kind, id |-> b.id]
    BY <1>10
  <2>2. b.kind # "request"
    BY <1>3 DEF Terminals, TerminalKinds
  <2> HIDE DEF B
  <2> QED BY <2>1, <2>2
<1>14. rows' = base \o B
  BY <1>8
<1> HIDE DEF B
<1>15. Ranked(base \o B) /\ ClosedOf(base \o B) = ClosedOf(base) \o B
  BY <1>10, <1>13, TerminalsClose
<1>16. Ranked(rows') /\ ClosedOf(rows') = ClosedOf(base) \o B
  BY <1>14, <1>15
<1>17. ClosedOf(base) \o B \in Seq(Rows)
  BY <1>10, <1>11
<1>18. ClosedInOrder(ClosedOf(rows'), accepted', next', sinkFailures')
  <2>1. CASE next' = n1 /\ sinkFailures' = sinkFailures
    BY <1>12, <1>16, <2>1
  <2>2. CASE next' = n1 + 1 /\ sinkFailures' = sinkFailures + 1
    BY <1>1, <1>9, <1>12, <1>16, <1>17, <2>2, LossKeepsOrder
  <2> QED BY <1>8, <2>1, <2>2
<1>19. Grows(ClosedOf(base), B)
  BY <1>8, <1>16, <1>18 DEF Grows
<1> QED BY <1>10, <1>19

-----------------------------------------------------------------------------
(* The refinement.                                                          *)

\* A request is accepted, or none is.
Opens == \/ accepted' = accepted
         \/ \E id \in Ids : /\ \A i \in DOMAIN accepted : accepted[i] # id
                            /\ accepted' = Append(accepted, id)

\* What every step does to the ledger: at most one request more, some closed
\* rows more, at most one row lost.
LedgerGoesOn ==
    /\ Opens
    /\ \E closings \in Seq(Rows) : Grows(ClosedOf(rows), closings)

\* A new request, with or without its row, and nothing closed.
LEMMA RegisterGoesOn ==
    ASSUME LogInv, LedgerInv, NEW c \in Calls, NEW id \in Ids, Register(c, id), next' = next,
           \/ rows' = Append(rows, RequestRow(id)) /\ sinkFailures' = sinkFailures
           \/ rows' = rows /\ sinkFailures' = sinkFailures + 1
    PROVE  LedgerGoesOn
<1>1. /\ rows \in Seq(Rows) /\ accepted \in Seq(Ids) /\ sinkFailures \in Nat
      /\ next \in 1..(Len(accepted) + 1)
  BY DEF LogInv, TypeOK, LegalLog
<1>2. accepted' = Append(accepted, id) /\ \A i \in DOMAIN accepted : accepted[i] # id
  BY DEF Register
<1>3. ClosedOf(rows) \in Seq(Rows)
  BY <1>1, ClosedRow DEF LedgerInv
<1>4. Ranked(rows') /\ ClosedOf(rows') = ClosedOf(rows)
  BY <1>1, RequestClosesNothing DEF LedgerInv
<1>5. ClosedInOrder(ClosedOf(rows), accepted', next, sinkFailures')
  BY <1>1, <1>2, <1>3, AcceptKeepsOrder DEF LedgerInv
<1>6. << >> \in Seq(Rows) /\ ClosedOf(rows) \o << >> = ClosedOf(rows)
  BY <1>3, ConcatEmptySeq
<1>7. Grows(ClosedOf(rows), << >>)
  BY <1>4, <1>5, <1>6 DEF Grows
<1> QED BY <1>2, <1>6, <1>7 DEF LedgerGoesOn, Opens

\* A new request that is closed on acceptance.
LEMMA RegisterCommitGoesOn ==
    ASSUME LogInv, LedgerInv, NEW c \in Calls, NEW id \in Ids, NEW kind \in TerminalKinds,
           Register(c, id),
           CommitTerminal(Append(rows, RequestRow(id)), Len(accepted) + 1, id, kind)
    PROVE  LedgerGoesOn
<1> DEFINE base == Append(rows, RequestRow(id))
<1>1. /\ TypeOK /\ rows \in Seq(Rows) /\ accepted \in Seq(Ids) /\ sinkFailures \in Nat
      /\ next \in 1..(Len(accepted) + 1)
  BY DEF LogInv, TypeOK, LegalLog
<1>2. accepted' = Append(accepted, id) /\ \A i \in DOMAIN accepted : accepted[i] # id
  BY DEF Register
<1>3. /\ accepted' \in Seq(Ids)
      /\ Len(accepted) + 1 \in next..Len(accepted')
      /\ accepted'[Len(accepted) + 1] = id
  BY <1>1, <1>2
<1>4. ClosedOf(rows) \in Seq(Rows)
  BY <1>1, ClosedRow DEF LedgerInv
<1>5. AcceptedOnce' /\ LegalLog(base, accepted', buffer, next)
  BY AcceptLegal
<1>6. base \in Seq(Rows)
  BY <1>1 DEF RequestRow, Rows
<1>7. Ranked(base) /\ ClosedOf(base) = ClosedOf(rows)
  BY <1>1, RequestClosesNothing DEF LedgerInv
<1>8. ClosedInOrder(ClosedOf(base), accepted', next, sinkFailures)
  BY <1>1, <1>2, <1>4, <1>7, AcceptKeepsOrder DEF LedgerInv
<1>9. CommitTerminal(base, Len(accepted) + 1, id, kind)
  OBVIOUS
<1> HIDE DEF base
<1>10. \E closings \in Seq(Rows) : Grows(ClosedOf(base), closings)
  BY <1>1, <1>3, <1>5, <1>6, <1>7, <1>8, <1>9, CommitCloses
<1> QED BY <1>2, <1>7, <1>10 DEF LedgerGoesOn, Opens

\* The end of a waiting call.
LEMMA FinishGoesOn ==
    ASSUME LogInv, LedgerInv, NEW c \in Calls, pc[c] \in Waiting, NEW kind \in TerminalKinds,
           Finish(c, kind)
    PROVE  LedgerGoesOn
<1>1. /\ TypeOK /\ rows \in Seq(Rows) /\ accepted \in Seq(Ids) /\ next \in Nat
      /\ ticket[c] \in 1..Len(accepted) /\ ticket[c] >= next
      /\ AcceptedOnce /\ LegalLog(rows, accepted, buffer, next)
  BY DEF LogInv, TypeOK, Tickets, Open
<1>2. /\ accepted' = accepted
      /\ CommitTerminal(rows, ticket[c], accepted[ticket[c]], kind)
  BY DEF Finish
<1>3. ticket[c] \in next..Len(accepted') /\ accepted[ticket[c]] \in Ids
  BY <1>1, <1>2
<1>4. AcceptedOnce'
  BY <1>1, <1>2 DEF AcceptedOnce
<1>5. \E closings \in Seq(Rows) : Grows(ClosedOf(rows), closings)
  BY <1>1, <1>2, <1>3, <1>4, CommitCloses DEF LedgerInv
<1> QED BY <1>2, <1>5 DEF LedgerGoesOn, Opens

\* A step that leaves the log alone.
LEMMA UnchangedGoesOn ==
    ASSUME LogInv, LedgerInv, UNCHANGED logVars
    PROVE  LedgerGoesOn
<1>1. rows \in Seq(Rows) /\ ClosedOf(rows) \in Seq(Rows)
  BY ClosedRow DEF LogInv, TypeOK, LedgerInv
<1>2. << >> \in Seq(Rows) /\ ClosedOf(rows) \o << >> = ClosedOf(rows)
  BY <1>1, ConcatEmptySeq
<1>3. Grows(ClosedOf(rows), << >>)
  BY <1>2 DEF Grows, LedgerInv, logVars
<1> QED BY <1>2, <1>3 DEF LedgerGoesOn, Opens, logVars

\* Every step leaves the ledger alone or goes on with it.
LEMMA StepGoesOn == LogInv /\ LedgerInv /\ [Next]_vars => LedgerGoesOn
<1> SUFFICES ASSUME LogInv, LedgerInv, [Next]_vars PROVE LedgerGoesOn
  OBVIOUS
<1>1. CASE UNCHANGED logVars
  BY <1>1, UnchangedGoesOn
<1>2. ASSUME NEW c \in Calls, NEW kind \in TerminalKinds, pc[c] \in Waiting, Finish(c, kind)
      PROVE  LedgerGoesOn
  BY <1>2, FinishGoesOn
<1>3. ASSUME NEW c \in Calls, NEW id \in Ids, Execute(c, id)
      PROVE  LedgerGoesOn
  <2>1. CASE ExecuteDuplicate(c, id)
    BY <1>1, <2>1 DEF ExecuteDuplicate
  <2>2. CASE ExecuteSinkFails(c, id)
    BY <2>2, RegisterGoesOn DEF ExecuteSinkFails
  <2>3. CASE ExecuteMisbound(c, id)
    BY <2>3, RegisterCommitGoesOn DEF ExecuteMisbound, TerminalKinds
  <2>4. CASE ExecuteDecide(c, id)
    BY <2>4, RegisterGoesOn DEF ExecuteDecide
  <2>5. CASE ExecuteExpired(c, id)
    <3>1. Register(c, id)
      BY <2>5 DEF ExecuteExpired
    <3>2. CASE /\ rows' = Append(rows, RequestRow(id))
               /\ UNCHANGED <<trouble, buffer, next, sinkFailures>>
      BY <3>1, <3>2, RegisterGoesOn
    <3>3. ASSUME NEW raised \in BOOLEAN,
                 CommitTerminal(Append(rows, RequestRow(id)), Len(accepted) + 1, id,
                                IF raised THEN "cleanup" ELSE "timeout")
          PROVE  LedgerGoesOn
      <4>1. (IF raised THEN "cleanup" ELSE "timeout") \in TerminalKinds
        BY DEF TerminalKinds
      <4> QED BY <3>1, <3>3, <4>1, RegisterCommitGoesOn
    <3> QED BY <2>5, <3>2, <3>3 DEF ExecuteExpired
  <2> QED BY <1>3, <2>1, <2>2, <2>3, <2>4, <2>5 DEF Execute
<1>4. ASSUME NEW c \in Calls, Resume(c)
      PROVE  LedgerGoesOn
  <2> DEFINE ending(kind) == pc[c] \in Waiting /\ kind \in TerminalKinds /\ Finish(c, kind)
  <2>1. ASSUME NEW kind, ending(kind)
        PROVE  LedgerGoesOn
    BY <1>2, <2>1
  <2>2. CASE TakeResult(c)
    <3>1. ending(VerdictKind(task[c]["decide"]))
      BY <2>2, VerdictTyped DEF TakeResult, Waiting
    <3> QED BY <2>1, <3>1
  <2>3. CASE DeadlinePasses(c) \/ CancelAgain(c) \/ HookTimesOut(c)
    BY <1>1, <2>3 DEF DeadlinePasses, CancelAgain, HookTimesOut
  <2>4. CASE EndDecideGrace(c)
    <3>1. CASE UNCHANGED logVars
      BY <1>1, <3>1
    <3>2. CASE Finish(c, "cancelled")
      <4>1. ending("cancelled")
        BY <2>4, <3>2 DEF EndDecideGrace, Waiting, TerminalKinds
      <4> QED BY <2>1, <4>1
    <3>3. CASE Finish(c, IF trouble'[c] THEN "cleanup" ELSE "timeout")
      <4>1. ending(IF trouble'[c] THEN "cleanup" ELSE "timeout")
        BY <2>4, <3>3 DEF EndDecideGrace, Waiting, TerminalKinds
      <4> QED BY <2>1, <4>1
    <3> QED BY <2>4, <3>1, <3>2, <3>3 DEF EndDecideGrace
  <2>5. CASE HookAnswered(c)
    <3>1. ending(IF trouble'[c] THEN "cleanup" ELSE "timeout")
      BY <2>5 DEF HookAnswered, Waiting, TerminalKinds
    <3> QED BY <2>1, <3>1
  <2>6. CASE EndHookGrace(c)
    <3>1. ending(IF interrupted[c] THEN "cancelled" ELSE "cleanup")
      BY <2>6 DEF EndHookGrace, Waiting, TerminalKinds
    <3> QED BY <2>1, <3>1
  <2> QED BY <1>4, <2>2, <2>3, <2>4, <2>5, <2>6 DEF Resume
<1>5. ASSUME NEW c \in Calls, CallerCancels(c)
      PROVE  LedgerGoesOn
  <2>1. CASE Finish(c, "cancelled")
    <3>1. pc[c] \in Waiting /\ "cancelled" \in TerminalKinds
      BY <1>5 DEF CallerCancels, TerminalKinds
    <3> QED BY <1>2, <2>1, <3>1
  <2> QED BY <1>1, <1>5, <2>1 DEF CallerCancels
<1>6. CASE UNCHANGED vars
  BY <1>1, <1>6 DEF vars
<1>7. CASE Close
  BY <1>1, <1>7 DEF Close, CloseBegins, CloseCancelsNext, CloseEnds, CloseInterrupted
<1>8. ASSUME NEW c \in Calls, TaskFinishes(c)
      PROVE  LedgerGoesOn
  BY <1>1, <1>8 DEF TaskFinishes, DecideFinishes, HookFinishes
<1> QED BY <1>3, <1>4, <1>5, <1>6, <1>7, <1>8 DEF Next

\* Going on with the ledger keeps its invariant.
LEMMA LedgerKept == LedgerGoesOn => LedgerInv'
BY DEF LedgerGoesOn, Grows, LedgerInv

\* What DecisionLedger sees as closed is ClosedOf(rows).
LedgerClosed == [i \in 1..Cardinality(TerminalIndexes) |->
                   rows[CHOOSE j \in TerminalIndexes :
                          Cardinality({l \in TerminalIndexes : l <= j}) = i]]

\* The closings of the log are the closings of its rows.
LEMMA ClosedIsClosedOf ==
    /\ ClosedOf(rows) = LedgerClosed
    /\ ClosedOf(rows') = LedgerClosed'
<1>1. ClosedOf(rows) = LedgerClosed
  BY DEF LedgerClosed, ClosedOf, Rank, TermsOf, TerminalIndexes
<1>2. ClosedOf(rows') = LedgerClosed'
  BY DEF LedgerClosed, ClosedOf, Rank, TermsOf, TerminalIndexes
<1> QED BY <1>1, <1>2

\* Going on with the ledger is a step of DecisionLedger.
LEMMA LedgerStep ==
    ASSUME LogInv, LogInv', LedgerInv, LedgerInv', LedgerGoesOn
    PROVE  Ledger!Next
<1> DEFINE new == ClosedOf(rows')
           old == ClosedOf(rows)
<1>1. /\ rows \in Seq(Rows) /\ rows' \in Seq(Rows) /\ accepted' \in Seq(Ids)
      /\ sinkFailures' \in Nat /\ next' \in 1..(Len(accepted') + 1) /\ Len(accepted') \in Nat
  BY DEF LogInv, TypeOK, LegalLog
<1>2. old \in Seq(Rows) /\ new \in Seq(Rows)
  BY <1>1, ClosedRow DEF LedgerInv
<1>3. PICK closings \in Seq(Rows) : Grows(old, closings)
  BY DEF LedgerGoesOn
<1>4. new = old \o closings /\ sinkFailures' \in {sinkFailures, sinkFailures + 1}
  BY <1>3 DEF Grows
<1>5. ClosedInOrder(new, accepted', next', sinkFailures')
  BY DEF LedgerInv
<1> HIDE DEF new, old
<1>6. Len(old) <= Len(new) /\ SubSeq(new, 1, Len(old)) = old
  <2>1. /\ new \in Seq(Rows) /\ Len(new) = Len(old) + Len(closings)
        /\ \A i \in 1..(Len(old) + Len(closings)) :
             new[i] = IF i <= Len(old) THEN old[i] ELSE closings[i - Len(old)]
    BY <1>2, <1>4, ConcatProperties
  <2>2. Len(old) \in Nat /\ Len(closings) \in Nat
    BY <1>2
  <2>3. \A i \in 1..Len(old) : i \in 1..(Len(old) + Len(closings)) /\ i <= Len(old)
    BY <2>2
  <2>4. \A i \in 1..Len(old) : new[i] = old[i]
    BY <2>1, <2>3
  <2>5. \A i \in 1..Len(old) : new[i] \in Rows
    BY <1>2, <2>4
  <2>6. /\ SubSeq(new, 1, Len(old)) \in Seq(Rows)
        /\ Len(SubSeq(new, 1, Len(old))) = Len(old)
        /\ \A i \in 1..Len(old) : SubSeq(new, 1, Len(old))[i] = new[i]
    <3>1. /\ SubSeq(new, 1, Len(old)) \in Seq(Rows)
          /\ Len(SubSeq(new, 1, Len(old))) = IF 1 <= Len(old) THEN Len(old) - 1 + 1 ELSE 0
          /\ \A i \in 1..(Len(old) - 1 + 1) : SubSeq(new, 1, Len(old))[i] = new[1 + i - 1]
      BY <2>2, <2>5, SubSeqProperties
    <3> QED BY <2>2, <3>1
  <2>7. SubSeq(new, 1, Len(old)) = old
    BY <1>2, <2>4, <2>6, SeqEqual
  <2> QED BY <2>1, <2>2, <2>7
<1>7. ASSUME NEW n \in 1..Len(new)
      PROVE  /\ new[n].kind \in TerminalKinds
             /\ \E i \in n..(n + sinkFailures') : i \in DOMAIN accepted' /\ accepted'[i] = new[n].id
  <2>1. PICK i \in n..(n + sinkFailures') : i < next' /\ accepted'[i] = new[n].id
    BY <1>5 DEF ClosedInOrder
  <2>2. i \in DOMAIN accepted'
    BY <1>1, <2>1
  <2> QED BY <1>5, <2>1, <2>2 DEF ClosedInOrder
<1>8. ASSUME NEW m \in 1..Len(new), NEW n \in 1..Len(new), m < n
      PROVE  Ledger!Place(accepted', new[m].id) < Ledger!Place(accepted', new[n].id)
  <2>1. DOMAIN accepted' = 1..Len(accepted')
    BY <1>1
  <2>2. /\ Ledger!Place(accepted', new[m].id) \in 1..Len(accepted')
        /\ accepted'[Ledger!Place(accepted', new[m].id)] = new[m].id
    BY <1>7, <2>1 DEF Ledger!Place
  <2>3. /\ Ledger!Place(accepted', new[n].id) \in 1..Len(accepted')
        /\ accepted'[Ledger!Place(accepted', new[n].id)] = new[n].id
    BY <1>7, <2>1 DEF Ledger!Place
  <2> QED BY <1>5, <1>8, <2>2, <2>3 DEF ClosedInOrder
<1>9. DOMAIN new = 1..Len(new)
  BY <1>2
<1>10. Ledger!Close
  <2>1. new = LedgerClosed' /\ old = LedgerClosed
    BY ClosedIsClosedOf DEF new, old
  <2>2. /\ Len(LedgerClosed) <= Len(LedgerClosed')
        /\ SubSeq(LedgerClosed', 1, Len(LedgerClosed)) = LedgerClosed
    BY <1>6, <2>1
  <2>3. \A n \in DOMAIN LedgerClosed' :
          /\ LedgerClosed'[n].kind \in TerminalKinds
          /\ \E i \in n..(n + sinkFailures') :
               i \in DOMAIN accepted' /\ accepted'[i] = LedgerClosed'[n].id
    BY <1>7, <1>9, <2>1
  <2>4. \A m, n \in DOMAIN LedgerClosed' : m < n =>
          Ledger!Place(accepted', LedgerClosed'[m].id) < Ledger!Place(accepted', LedgerClosed'[n].id)
    BY <1>8, <1>9, <2>1
  <2> QED BY <2>2, <2>3, <2>4 DEF Ledger!Close, LedgerClosed
<1>11. Ledger!Open \/ accepted' = accepted
  BY DEF LedgerGoesOn, Opens, Ledger!Open
<1> QED BY <1>4, <1>10, <1>11 DEF Ledger!Next

\* Before the first request the ledger is empty.
LEMMA LedgerInit == Init => LedgerInv /\ Ledger!Init
<1> SUFFICES ASSUME Init PROVE LedgerInv /\ Ledger!Init
  OBVIOUS
<1>1. TermsOf(rows) = {} /\ Cardinality(TermsOf(rows)) = 0
  BY FS_EmptySet DEF Init, TermsOf
<1>2. ClosedOf(rows) = << >>
  BY <1>1 DEF ClosedOf
<1>3. Ranked(rows)
  BY <1>1 DEF Ranked
<1>4. ClosedInOrder(<< >>, accepted, next, sinkFailures)
  BY DEF Init, ClosedInOrder
<1>5. Ledger!Init
  BY <1>2, ClosedIsClosedOf DEF Init, Ledger!Init, LedgerClosed
<1> QED BY <1>2, <1>3, <1>4, <1>5 DEF LedgerInv

\* The log of the decision runtime implements the ledger that readers of the
\* evidence rely on: requests are opened once, terminals are only ever added, they
\* close the requests in the order of acceptance, and pass over no more of them
\* than rows were lost.
THEOREM LogIsALedger == Spec => LedgerSpec
<1>1. Init => LedgerInv /\ Ledger!Init
  BY LedgerInit
<1>2. LogInv /\ LogInv' /\ LedgerInv /\ [Next]_vars => LedgerInv' /\ [Ledger!Next]_(Ledger!vars)
  BY StepGoesOn, LedgerKept, LedgerStep
<1> QED BY <1>1, <1>2, LogCorrect, PTL DEF Spec, LedgerSpec, Ledger!Spec
=============================================================================
