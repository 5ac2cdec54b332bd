--------------------------- MODULE AgentActorProofs ---------------------------
(***************************************************************************)
(* For any number of requests, tools and cancellations: a human's decision *)
(* is made by an action meant for its request, no tool handler is left     *)
(* without an owner or started for a request that has ended, a model is    *)
(* sent histories in which calls and results are paired, and beliefs fit   *)
(* the facts of the request that revises them.                             *)
(***************************************************************************)
EXTENDS AgentActor, SequenceTheorems, FiniteSetTheorems, WellFoundedInduction, TLAPS

Outcomes == {"new", "waiting", "decision", "failed", "cleanup", "cancelled"}
Counters == [steps : Nat, generations : Nat, retries : Nat, tokens : Nat,
             noProgress : Nat, toolCalls : Nat]

\* The seat serves requests that wait, each of them once.
QueueIsOrderly ==
    /\ \A i \in DOMAIN queue : outcome[queue[i]] = "waiting" /\ queue[i] # deciding
    /\ \A i, j \in DOMAIN queue : queue[i] = queue[j] => i = j
    /\ deciding # NoRequest => outcome[deciding] = "waiting"

\* A human's seat runs no tool, and while it is asked the queue holds actions
\* for that request only.
InboxIsForTheAsked ==
    /\ kind = "human" => at \in {"idle", "asking", "human", "expiring"} /\ handlers = {}
    /\ at \in {"asking", "human", "expiring"} =>
          /\ kind = "human" /\ asked = deciding
          /\ \A i \in DOMAIN inbox : inbox[i] = deciding

\* The running session numbers its handlers; a handler that was left behind has
\* a smaller number than the one that is awaited.
InSession == {"head", "model", "sleep", "calls", "tool", "grace", "cancelgrace"}
HandlersAreNumbered ==
    /\ budget \in Counters
    /\ at \in InSession => \A h \in pending : h[1] = deciding /\ h[2] <= budget.toolCalls
    /\ at \in {"tool", "grace", "cancelgrace"} => Current \notin pending
    /\ at \in {"tool", "grace"} => Current \in handlers

\* No handler that runs has been forgotten.
HandlersHaveOwners ==
    \A h \in handlers : h[1] = deciding \/ outcome[h[1]] \in {"cleanup", "cancelled"}

\* A session that has its terminal action runs no other call, and one that has
\* spent its tokens is over.
SessionKnowsItsEnd ==
    /\ terminal => at = "calls" /\ calls = <<>>
    /\ budget.tokens <= MaxTotalTokens
    /\ at = "closing" => result # "none"

ActionsFit == \A r \in Requests : kind = "human" /\ outcome[r] = "decision" => answer[r] = r

\* The inductive invariant.
ActorInv ==
    /\ TypeOK
    /\ QueueIsOrderly
    /\ InboxIsForTheAsked
    /\ HandlersAreNumbered
    /\ SessionKnowsItsEnd
    /\ HandlersHaveOwners
    /\ ActionsFit

\* The limits of a session are what the assumption on the constants says.
LEMMA Limits ==
    /\ MaxCancels \in Nat /\ MaxTotalTokens \in Nat
    /\ Usages \subseteq Nat /\ Kinds \subseteq {"human", "model"}
    /\ NoRequest \notin Requests
BY ActorAssumption

\* A seat starts idle, with nobody waiting.
LEMMA ActorInit == Init => ActorInv
<1> SUFFICES ASSUME Init PROVE ActorInv
  OBVIOUS
<1> USE DEF Init
<1>1. TypeOK
  <2>1. cancels \in [Requests -> 0..MaxCancels] /\ kind \in {"human", "model"}
    BY Limits
  <2>2. queue \in Seq(Requests) /\ inbox \in Seq(Requests)
    OBVIOUS
  <2>3. at \in Places /\ handlers = {} /\ pending = {}
    BY DEF Places
  <2> QED BY <2>1, <2>2, <2>3 DEF TypeOK
<1>2. HandlersAreNumbered /\ SessionKnowsItsEnd
  BY Limits DEF HandlersAreNumbered, SessionKnowsItsEnd, FreshBudget, Counters, InSession
<1> QED
  BY <1>1, <1>2, Limits
  DEF ActorInv, QueueIsOrderly, InboxIsForTheAsked, HandlersHaveOwners, ActionsFit

-----------------------------------------------------------------------------
\* The lock of the seat (_decide_lock).

\* A request that is submitted waits its turn.
LEMMA SubmitKeeps == ASSUME ActorInv, NEW r \in Requests, Submit(r) PROVE ActorInv'
<1> USE DEF ActorInv, Submit, humanVars, sessionVars, toolVars
<1>1. TypeOK'
  BY DEF TypeOK
<1>2. QueueIsOrderly'
  <2>1. \A i \in DOMAIN queue : queue'[i] = queue[i] /\ queue[i] # r
    BY DEF TypeOK, QueueIsOrderly
  <2>2. DOMAIN queue' = 1..(Len(queue) + 1) /\ DOMAIN queue = 1..Len(queue) /\ Len(queue) \in Nat
    BY DEF TypeOK
  <2>3. queue'[Len(queue) + 1] = r
    BY DEF TypeOK
  <2>4. r # deciding
    BY Limits DEF QueueIsOrderly, TypeOK
  <2>5. outcome' = [outcome EXCEPT ![r] = "waiting"] /\ deciding' = deciding
    OBVIOUS
  <2>6. \A q \in Requests : q # r => outcome'[q] = outcome[q]
    BY <2>5 DEF TypeOK
  <2>7. outcome'[r] = "waiting"
    BY <2>5 DEF TypeOK
  <2>8. \A i \in DOMAIN queue : queue[i] \in Requests
    BY DEF TypeOK
  <2>9. \A i \in DOMAIN queue' : outcome'[queue'[i]] = "waiting" /\ queue'[i] # deciding'
    BY <2>1, <2>2, <2>3, <2>4, <2>5, <2>6, <2>7, <2>8 DEF QueueIsOrderly
  <2>10. \A i, j \in DOMAIN queue' : queue'[i] = queue'[j] => i = j
    BY <2>1, <2>2, <2>3 DEF QueueIsOrderly
  <2>11. deciding' # NoRequest => outcome'[deciding'] = "waiting"
    BY <2>4, <2>5, <2>6 DEF QueueIsOrderly, TypeOK
  <2> QED BY <2>9, <2>10, <2>11 DEF QueueIsOrderly
<1>3. HandlersHaveOwners'
  BY DEF HandlersHaveOwners, TypeOK
<1>4. ActionsFit'
  BY DEF ActionsFit, TypeOK
<1> QED BY <1>1, <1>2, <1>3, <1>4
      DEF InboxIsForTheAsked, HandlersAreNumbered, SessionKnowsItsEnd, Current

\* The first request of the queue leaves it, whatever comes of it.
LEMMA HeadLeaves ==
    ASSUME TypeOK, QueueIsOrderly, queue # <<>>, queue' = Tail(queue)
    PROVE  /\ queue' \in Seq(Requests)
           /\ Head(queue) \in Requests /\ outcome[Head(queue)] = "waiting"
           /\ \A i \in DOMAIN queue' : queue'[i] # Head(queue)
           /\ \A i \in DOMAIN queue' : outcome[queue'[i]] = "waiting" /\ queue'[i] \in Requests
           /\ \A i, j \in DOMAIN queue' : queue'[i] = queue'[j] => i = j
<1>1. queue \in Seq(Requests) /\ Len(queue) \in Nat /\ Len(queue) > 0 /\ DOMAIN queue = 1..Len(queue)
  BY DEF TypeOK
<1>2. Head(queue) = queue[1] /\ 1 \in DOMAIN queue
  BY <1>1
<1>3. /\ queue' \in Seq(Requests) /\ DOMAIN queue' = 1..(Len(queue) - 1)
      /\ \A i \in DOMAIN queue' : i + 1 \in DOMAIN queue /\ queue'[i] = queue[i + 1]
  BY <1>1
<1> QED BY <1>1, <1>2, <1>3 DEF QueueIsOrderly

\* A request that is refused at once changes nothing of the others.
LEMMA RejectKeeps == ASSUME ActorInv, NEW r \in Requests, Reject(r) PROVE ActorInv'
<1> USE DEF ActorInv, Reject, humanVars, sessionVars, toolVars, stateVars
<1>1. /\ queue' \in Seq(Requests)
      /\ outcome[r] = "waiting"
      /\ \A i \in DOMAIN queue' : queue'[i] # r
      /\ \A i \in DOMAIN queue' : outcome[queue'[i]] = "waiting" /\ queue'[i] \in Requests
      /\ \A i, j \in DOMAIN queue' : queue'[i] = queue'[j] => i = j
  BY HeadLeaves
<1>2. TypeOK'
  BY <1>1 DEF TypeOK
<1>3. QueueIsOrderly'
  <2>1. \A q \in Requests : q # r => outcome'[q] = outcome[q]
    BY DEF TypeOK
  <2>2. deciding' = NoRequest
    OBVIOUS
  <2> QED BY <1>1, <2>1, <2>2, Limits DEF QueueIsOrderly
<1>4. HandlersHaveOwners'
  BY <1>1, Limits DEF HandlersHaveOwners, TypeOK
<1>5. ActionsFit'
  BY DEF ActionsFit, TypeOK
<1> QED BY <1>2, <1>3, <1>4, <1>5
      DEF InboxIsForTheAsked, HandlersAreNumbered, SessionKnowsItsEnd, Current

\* A waiting request that is cancelled leaves the queue in order.
LEMMA CancelWaitingKeeps == ASSUME ActorInv, NEW r \in Requests, CancelWaiting(r) PROVE ActorInv'
<1> USE DEF ActorInv, CancelWaiting, humanVars, sessionVars, toolVars, stateVars
<1>1. PICK p \in DOMAIN queue :
         /\ queue[p] = r
         /\ queue' = [i \in 1..(Len(queue) - 1) |-> queue[IF i < p THEN i ELSE i + 1]]
  OBVIOUS
<1>2. Len(queue) \in Nat /\ DOMAIN queue = 1..Len(queue) /\ \A i \in DOMAIN queue : queue[i] \in Requests
  BY DEF TypeOK
<1>3. /\ DOMAIN queue' = 1..(Len(queue) - 1)
      /\ \A i \in DOMAIN queue' :
            /\ (IF i < p THEN i ELSE i + 1) \in DOMAIN queue
            /\ (IF i < p THEN i ELSE i + 1) # p
            /\ queue'[i] = queue[IF i < p THEN i ELSE i + 1]
  BY <1>1, <1>2
<1>4. queue' \in Seq(Requests)
  <2>1. Len(queue) - 1 \in Nat
    BY <1>1, <1>2
  <2> QED BY <1>1, <1>2, <1>3, <2>1
<1>5. \A i \in DOMAIN queue' : queue'[i] # r /\ queue'[i] \in Requests
  BY <1>1, <1>2, <1>3 DEF QueueIsOrderly
<1>6. TypeOK'
  <2>1. cancels' \in [Requests -> 0..MaxCancels]
    BY Limits, SMTT(20) DEF TypeOK
  <2> QED BY <1>4, <2>1 DEF TypeOK
<1>7. \A q \in Requests : q # r => outcome'[q] = outcome[q]
  BY DEF TypeOK
<1>8. QueueIsOrderly'
  <2>1. \A i, j \in DOMAIN queue' : queue'[i] = queue'[j] => i = j
    BY <1>2, <1>3 DEF QueueIsOrderly
  <2>2. \A i \in DOMAIN queue' : outcome'[queue'[i]] = "waiting" /\ queue'[i] # deciding'
    BY <1>3, <1>5, <1>7 DEF QueueIsOrderly
  <2> QED BY <1>7, <2>1, <2>2 DEF QueueIsOrderly, TypeOK
<1>9. HandlersHaveOwners' /\ ActionsFit'
  BY DEF HandlersHaveOwners, ActionsFit, TypeOK
<1> QED BY <1>6, <1>8, <1>9
      DEF InboxIsForTheAsked, HandlersAreNumbered, SessionKnowsItsEnd, Current

-----------------------------------------------------------------------------
\* How a decision gives the lock back: its request no longer waits, and those
\* in the queue still do.
LEMMA LeaveKeeps ==
    ASSUME TypeOK, QueueIsOrderly, deciding # NoRequest,
           NEW how \in Outcomes, Leave(deciding, how), UNCHANGED queue
    PROVE  /\ outcome' \in [Requests -> Outcomes]
           /\ QueueIsOrderly'
           /\ \A q \in Requests : q # deciding => outcome'[q] = outcome[q]
           /\ outcome'[deciding] = how
<1> USE DEF Leave
<1>1. deciding \in Requests /\ outcome \in [Requests -> Outcomes]
  BY DEF TypeOK, Outcomes
<1>2. /\ outcome' \in [Requests -> Outcomes]
      /\ \A q \in Requests : q # deciding => outcome'[q] = outcome[q]
      /\ outcome'[deciding] = how
  BY <1>1
<1>3. \A i \in DOMAIN queue : queue[i] \in Requests
  BY DEF TypeOK
<1>4. QueueIsOrderly'
  BY <1>2, <1>3, Limits DEF QueueIsOrderly
<1> QED BY <1>2, <1>4

\* How a handler keeps its owner: the request that leaves has none, or says so.
LEMMA OwnersKept ==
    ASSUME TypeOK, HandlersHaveOwners, deciding # NoRequest,
           handlers' = handlers,
           \A q \in Requests : q # deciding => outcome'[q] = outcome[q],
           Alive(deciding) = {} \/ outcome'[deciding] \in {"cleanup", "cancelled"}
    PROVE  HandlersHaveOwners'
<1>1. SUFFICES ASSUME NEW h \in handlers
               PROVE  h[1] = deciding' \/ outcome'[h[1]] \in {"cleanup", "cancelled"}
  BY DEF HandlersHaveOwners
<1>2. h[1] \in Requests
  BY DEF TypeOK
<1>3. CASE h[1] = deciding
  BY <1>3 DEF Alive
<1>4. CASE h[1] # deciding
  BY <1>2, <1>4 DEF HandlersHaveOwners
<1> QED BY <1>3, <1>4

-----------------------------------------------------------------------------
\* The human seat.

\* A human is asked with an empty inbox.
LEMMA AskHumanKeeps == ASSUME ActorInv, NEW r \in Requests, AskHuman(r) PROVE ActorInv'
<1> USE DEF ActorInv, AskHuman, sessionVars, toolVars, stateVars
<1>1. /\ queue' \in Seq(Requests)
      /\ outcome[r] = "waiting"
      /\ \A i \in DOMAIN queue' : queue'[i] # r
      /\ \A i \in DOMAIN queue' : outcome[queue'[i]] = "waiting" /\ queue'[i] \in Requests
      /\ \A i, j \in DOMAIN queue' : queue'[i] = queue'[j] => i = j
  BY HeadLeaves
<1>2. inbox' = <<>> /\ inbox' \in Seq(Requests) /\ DOMAIN inbox' = {}
  BY DEF ClearedInbox
<1>3. TypeOK'
  BY <1>1, <1>2, Limits DEF TypeOK, Places, Suspended
<1>4. QueueIsOrderly'
  BY <1>1 DEF QueueIsOrderly
<1>5. InboxIsForTheAsked'
  BY <1>2 DEF InboxIsForTheAsked
<1>6. HandlersAreNumbered' /\ SessionKnowsItsEnd'
  BY DEF HandlersAreNumbered, SessionKnowsItsEnd, InSession, TypeOK
<1>7. HandlersHaveOwners'
  BY Limits DEF HandlersHaveOwners, TypeOK
<1> QED BY <1>3, <1>4, <1>5, <1>6, <1>7 DEF ActionsFit

\* The request is published, or its time runs out.
LEMMA PublishedKeeps ==
    ASSUME ActorInv, (\E shown \in BOOLEAN : Published(shown)) \/ HumanTimeout
    PROVE  ActorInv'
<1> USE DEF ActorInv, sessionVars, toolVars, stateVars, humanVars
<1>1. PICK shown \in BOOLEAN : Published(shown) \/ HumanTimeout
  OBVIOUS
<1>2. at \in {"asking", "human"} /\ at' \in {"human", "expiring"} /\ deciding # NoRequest
  BY <1>1 DEF Published, HumanTimeout, TypeOK
<1>3. TypeOK'
  BY <1>1, <1>2 DEF Published, HumanTimeout, TypeOK, Places, Suspended
<1>4. QueueIsOrderly' /\ HandlersHaveOwners' /\ ActionsFit'
  BY <1>1 DEF Published, HumanTimeout, QueueIsOrderly, HandlersHaveOwners, ActionsFit
<1>5. InboxIsForTheAsked'
  BY <1>1, <1>2 DEF Published, HumanTimeout, InboxIsForTheAsked
<1>6. HandlersAreNumbered' /\ SessionKnowsItsEnd'
  BY <1>1, <1>2
     DEF Published, HumanTimeout, HandlersAreNumbered, SessionKnowsItsEnd, InSession, Current
<1> QED BY <1>3, <1>4, <1>5, <1>6

\* Only an action for the request that is asked gets into the inbox.
LEMMA EnqueueKeeps == ASSUME ActorInv, Enqueue \/ PageAnswers PROVE ActorInv'
<1> USE DEF ActorInv, seatVars, sessionVars, toolVars, stateVars
<1>1. inbox' = inbox \/ (inbox' = Append(inbox, asked) /\ asked # NoRequest)
  BY DEF Enqueue, PageAnswers
<1>2. UNCHANGED <<seatVars, asked, answer, sessionVars, toolVars, stateVars>>
  BY DEF Enqueue, PageAnswers
<1>3. inbox' \in Seq(Requests)
  <2>1. inbox \in Seq(Requests) /\ (asked # NoRequest => asked \in Requests)
    BY DEF TypeOK
  <2> QED BY <1>1, <2>1
<1>4. page' \in Requests \cup {NoRequest} /\ refused' \subseteq Requests
  BY DEF Enqueue, PageAnswers, TypeOK
<1>5. TypeOK'
  BY <1>2, <1>3, <1>4 DEF TypeOK
<1>6. InboxIsForTheAsked'
  <2>1. \A i \in DOMAIN inbox' : (i \in DOMAIN inbox /\ inbox'[i] = inbox[i]) \/ inbox'[i] = asked
    BY <1>1, SMTT(20) DEF TypeOK
  <2> QED BY <1>2, <2>1 DEF InboxIsForTheAsked
<1> QED BY <1>2, <1>5, <1>6
      DEF QueueIsOrderly, HandlersAreNumbered, SessionKnowsItsEnd, HandlersHaveOwners,
          ActionsFit, Current

\* The decision of a human's request ends; the last conjunct is the answer.
LEMMA HumanLeaves ==
    ASSUME ActorInv, at \in {"asking", "human", "expiring"},
           NEW how \in {"decision", "failed", "cancelled"}, Leave(deciding, how),
           UNCHANGED <<kind, queue, sessionVars, toolVars, stateVars>>,
           how = "decision" => answer'[deciding] = deciding,
           \A q \in Requests : q # deciding => answer'[q] = answer[q]
    PROVE  /\ QueueIsOrderly' /\ InboxIsForTheAsked' /\ HandlersAreNumbered'
           /\ SessionKnowsItsEnd' /\ ActionsFit'
           /\ outcome' \in [Requests -> Outcomes]
           /\ deciding' = NoRequest /\ at' = "idle"
<1> USE DEF ActorInv, sessionVars, toolVars, stateVars
<1>1. deciding # NoRequest /\ how \in Outcomes
  BY DEF TypeOK, Outcomes
<1>2. /\ outcome' \in [Requests -> Outcomes]
      /\ QueueIsOrderly'
      /\ \A q \in Requests : q # deciding => outcome'[q] = outcome[q]
      /\ outcome'[deciding] = how
  BY <1>1, LeaveKeeps
<1>3. deciding' = NoRequest /\ at' = "idle"
  BY DEF Leave
<1>4. ActionsFit'
  BY <1>1, <1>2 DEF ActionsFit
<1>5. InboxIsForTheAsked' /\ HandlersAreNumbered' /\ SessionKnowsItsEnd'
  BY <1>3 DEF InboxIsForTheAsked, HandlersAreNumbered, SessionKnowsItsEnd, InSession
<1> QED BY <1>2, <1>3, <1>4, <1>5

\* The ways a human request ends.
LEMMA HumanEndsKeep ==
    ASSUME ActorInv, PublishFails \/ TakeAction \/ UnmappedAction \/ Expired \/ CancelHuman
    PROVE  ActorInv'
<1> USE DEF ActorInv, sessionVars, toolVars, stateVars, humanVars
<1>1. at \in {"asking", "human", "expiring"} /\ deciding \in Requests
  BY DEF PublishFails, TakeAction, UnmappedAction, Expired, CancelHuman, TypeOK
<1>2. \E h \in {"decision", "failed", "cancelled"} :
         Leave(deciding, h) /\ (h = "decision" => TakeAction)
  BY DEF PublishFails, TakeAction, UnmappedAction, Expired, CancelHuman
<1>3. UNCHANGED <<kind, queue, sessionVars, toolVars, stateVars, refused>>
  BY DEF PublishFails, TakeAction, UnmappedAction, Expired, CancelHuman
<1>4. /\ TakeAction => answer'[deciding] = deciding
      /\ \A q \in Requests : q # deciding => answer'[q] = answer[q]
      /\ answer' \in [Requests -> Requests \cup {NoRequest}]
  <2>1. CASE TakeAction
    <3>1. inbox # <<>> /\ inbox \in Seq(Requests) /\ at = "human"
      BY <2>1 DEF TakeAction, TypeOK
    <3>2. Head(inbox) = deciding
      BY <3>1 DEF InboxIsForTheAsked
    <3> QED BY <1>1, <2>1, <3>2 DEF TakeAction, TypeOK
  <2>2. CASE ~TakeAction
    BY <2>2 DEF PublishFails, UnmappedAction, Expired, CancelHuman, TypeOK
  <2> QED BY <2>1, <2>2
<1>5. PICK h \in {"decision", "failed", "cancelled"} :
         Leave(deciding, h) /\ (h = "decision" => TakeAction)
  BY <1>2
<1>6. /\ QueueIsOrderly' /\ InboxIsForTheAsked' /\ HandlersAreNumbered'
      /\ SessionKnowsItsEnd' /\ ActionsFit'
      /\ outcome' \in [Requests -> Outcomes]
      /\ deciding' = NoRequest /\ at' = "idle"
  BY <1>1, <1>3, <1>4, <1>5, HumanLeaves
<1>7. inbox' \in Seq(Requests)
  <2>1. inbox' = inbox \/ (inbox # <<>> /\ inbox' = Tail(inbox))
    BY DEF PublishFails, TakeAction, UnmappedAction, Expired, CancelHuman
  <2>2. inbox \in Seq(Requests)
    BY DEF TypeOK
  <2>3. CASE inbox' = inbox
    BY <2>2, <2>3
  <2>4. CASE inbox # <<>> /\ inbox' = Tail(inbox)
    BY <2>2, <2>4
  <2> QED BY <2>1, <2>3, <2>4
<1>8. /\ cancels' \in [Requests -> 0..MaxCancels]
      /\ asked' \in Requests \cup {NoRequest} /\ page' \in Requests \cup {NoRequest}
  <2>1. CASE CancelHuman
    BY <1>1, <2>1, Limits DEF CancelHuman, CanCancel, TypeOK
  <2>2. CASE ~CancelHuman
    BY <2>2 DEF PublishFails, TakeAction, UnmappedAction, Expired, TypeOK
  <2> QED BY <2>1, <2>2
<1>9. TypeOK'
  BY <1>3, <1>4, <1>6, <1>7, <1>8 DEF TypeOK, Outcomes, Places
<1>10. HandlersHaveOwners'
  BY <1>1, <1>3 DEF InboxIsForTheAsked, HandlersHaveOwners
<1> QED BY <1>6, <1>9, <1>10

-----------------------------------------------------------------------------
\* The session of a model seat.

\* A session that leaves the lock has no handler that runs, or says so.
LEMMA RunLeaves ==
    ASSUME ActorInv, at \in InSession \cup {"closing"},
           NEW how \in Outcomes, Leave(deciding, how), NoRun,
           UNCHANGED <<kind, queue, humanVars, handlers, stateVars>>,
           pending' \subseteq handlers, cancels' \in [Requests -> 0..MaxCancels],
           Alive(deciding) = {} \/ how \in {"cleanup", "cancelled"}
    PROVE  ActorInv'
<1> USE DEF ActorInv, humanVars, stateVars
<1>1. deciding # NoRequest /\ deciding \in Requests /\ kind = "model"
  BY DEF TypeOK, InSession, InboxIsForTheAsked
<1>2. /\ outcome' \in [Requests -> Outcomes]
      /\ QueueIsOrderly'
      /\ \A q \in Requests : q # deciding => outcome'[q] = outcome[q]
      /\ outcome'[deciding] = how
  BY <1>1, LeaveKeeps
<1>3. deciding' = NoRequest /\ at' = "idle"
  BY DEF Leave
<1>4. HandlersHaveOwners'
  BY <1>1, <1>2, OwnersKept
<1>5. TypeOK'
  BY <1>2, <1>3 DEF TypeOK, NoRun, Outcomes, Places
<1>6. HandlersAreNumbered' /\ SessionKnowsItsEnd'
  BY <1>3, Limits
     DEF NoRun, FreshBudget, Counters, HandlersAreNumbered, SessionKnowsItsEnd, InSession
<1>7. InboxIsForTheAsked' /\ ActionsFit'
  BY <1>1, <1>3 DEF InboxIsForTheAsked, ActionsFit
<1> QED BY <1>2, <1>4, <1>5, <1>6, <1>7

\* What every step of a session that stays in the lock keeps.
LEMMA SessionGoesOn ==
    ASSUME ActorInv, at \in InSession \cup {"closing"}, at' \in InSession \cup {"closing"},
           UNCHANGED <<kind, queue, deciding, outcome, humanVars, stateVars>>,
           cancels' \in [Requests -> 0..MaxCancels],
           handlers' \subseteq Requests \X Nat, pending' \subseteq handlers',
           \A h \in handlers' : h \in handlers \/ h[1] = deciding,
           terminal' \in BOOLEAN, progress' \in BOOLEAN,
           result' \in {"none", "decision", "failed", "cancelled"}
    PROVE  TypeOK' /\ QueueIsOrderly' /\ InboxIsForTheAsked' /\ HandlersHaveOwners' /\ ActionsFit'
<1> USE DEF ActorInv, humanVars, stateVars
<1>1. kind = "model" /\ deciding # NoRequest
  BY DEF TypeOK, InSession, InboxIsForTheAsked
<1>2. at' \in Places /\ at' # "idle" /\ at' \notin {"asking", "human", "expiring"}
  BY DEF InSession, Places, Suspended
<1>3. TypeOK'
  BY <1>1, <1>2 DEF TypeOK
<1>4. InboxIsForTheAsked' /\ ActionsFit'
  BY <1>1, <1>2 DEF InboxIsForTheAsked, ActionsFit
<1>5. QueueIsOrderly' /\ HandlersHaveOwners'
  BY DEF QueueIsOrderly, HandlersHaveOwners
<1> QED BY <1>3, <1>4, <1>5

\* The end of a session accounts for the handlers it leaves behind.
LEMMA EndRunKeeps ==
    ASSUME ActorInv, at \in InSession,
           NEW how \in {"decision", "failed", "cancelled"}, EndRun(how),
           UNCHANGED <<kind, queue, humanVars, handlers, stateVars>>,
           pending' \subseteq handlers, cancels' \in [Requests -> 0..MaxCancels]
    PROVE  ActorInv'
<1>1. CASE Alive(deciding) = {}
  <2>1. how \in Outcomes /\ at \in InSession \cup {"closing"} /\ Leave(deciding, how) /\ NoRun
    BY <1>1 DEF Outcomes, EndRun
  <2> QED BY <1>1, <2>1, RunLeaves
<1>2. CASE Alive(deciding) # {}
  <2>1. /\ at' = "closing" /\ result' = how /\ budget' = FreshBudget
        /\ progress' = FALSE /\ terminal' = FALSE
        /\ UNCHANGED <<outcome, deciding>>
    BY <1>2 DEF EndRun
  <2>2. TypeOK' /\ QueueIsOrderly' /\ InboxIsForTheAsked' /\ HandlersHaveOwners' /\ ActionsFit'
    <3>1. at \in InSession \cup {"closing"} /\ at' \in InSession \cup {"closing"}
      BY <2>1
    <3>2. handlers' \subseteq Requests \X Nat /\ pending' \subseteq handlers'
      BY DEF ActorInv, TypeOK
    <3> QED BY <2>1, <3>1, <3>2, SessionGoesOn
  <2>3. HandlersAreNumbered' /\ SessionKnowsItsEnd'
    BY <2>1, Limits
       DEF FreshBudget, Counters, HandlersAreNumbered, SessionKnowsItsEnd, InSession
  <2> QED BY <2>2, <2>3 DEF ActorInv
<1> QED BY <1>1, <1>2

\* A session starts with no handler of its own.
LEMMA StartSessionKeeps == ASSUME ActorInv, NEW r \in Requests, StartSession(r) PROVE ActorInv'
<1> USE DEF ActorInv, StartSession, humanVars, stateVars
<1>1. /\ queue' \in Seq(Requests)
      /\ outcome[r] = "waiting"
      /\ \A i \in DOMAIN queue' : queue'[i] # r
      /\ \A i \in DOMAIN queue' : outcome[queue'[i]] = "waiting" /\ queue'[i] \in Requests
      /\ \A i, j \in DOMAIN queue' : queue'[i] = queue'[j] => i = j
  BY HeadLeaves
<1>2. TypeOK'
  BY <1>1, Limits DEF TypeOK, Places
<1>3. QueueIsOrderly'
  BY <1>1 DEF QueueIsOrderly
<1>4. InboxIsForTheAsked' /\ ActionsFit'
  BY DEF InboxIsForTheAsked, ActionsFit
<1>5. HandlersAreNumbered' /\ SessionKnowsItsEnd'
  BY DEF HandlersAreNumbered, SessionKnowsItsEnd, InSession, TypeOK
<1>6. HandlersHaveOwners'
  BY Limits DEF HandlersHaveOwners, TypeOK
<1> QED BY <1>2, <1>3, <1>4, <1>5, <1>6

\* The ways a session ends without a tool in progress.
LEMMA RunEndsKeep ==
    ASSUME ActorInv,
           \/ GiveUp \/ TurnFails \/ CallsExhausted \/ CancelGraceEnds
           \/ \E tokens \in Usages : TokensSpent(tokens)
    PROVE  ActorInv'
<1>1. at \in InSession /\ \E how \in {"decision", "failed", "cancelled"} : EndRun(how)
  BY DEF GiveUp, TurnFails, CallsExhausted, CancelGraceEnds, TokensSpent, InSession
<1>2. UNCHANGED <<kind, queue, cancels, humanVars, handlers, stateVars>>
  BY DEF GiveUp, TurnFails, CallsExhausted, CancelGraceEnds, TokensSpent, toolVars
<1>3. pending' \subseteq handlers
  BY DEF ActorInv, TypeOK, GiveUp, TurnFails, CallsExhausted, CancelGraceEnds, TokensSpent, toolVars
<1>4. cancels' \in [Requests -> 0..MaxCancels]
  BY <1>2 DEF ActorInv, TypeOK
<1> QED BY <1>1, <1>2, <1>3, <1>4, EndRunKeeps

\* The model's turns: the budget counts, no handler starts or ends.
LEMMA TurnKeeps ==
    ASSUME ActorInv,
           \/ BeginStep \/ BadResponse \/ RetryTurn \/ BadCall
           \/ \E tokens \in Usages :
                 NoCalls(tokens) \/ \E response \in Responses : TurnCalls(response, tokens)
    PROVE  ActorInv'
<1>1. at \in {"head", "model", "sleep", "calls"} /\ at' \in {"head", "model", "sleep", "calls"}
  BY DEF BeginStep, BadResponse, RetryTurn, BadCall, NoCalls, TurnCalls, seatVars
<1>2. /\ UNCHANGED <<kind, queue, deciding, outcome, cancels, humanVars, stateVars, handlers,
                     pending, terminal, result>>
      /\ progress' \in {progress, FALSE}
  BY DEF BeginStep, BadResponse, RetryTurn, BadCall, NoCalls, TurnCalls, seatVars, toolVars
<1>3. ~terminal
  BY DEF ActorInv, SessionKnowsItsEnd, BeginStep, BadResponse, RetryTurn, BadCall, NoCalls, TurnCalls
<1>4. /\ budget' \in Counters /\ budget'.tokens <= MaxTotalTokens
      /\ budget'.toolCalls >= budget.toolCalls
  <2>1. budget \in Counters /\ budget.tokens <= MaxTotalTokens /\ MaxTotalTokens \in Nat
    BY Limits DEF ActorInv, HandlersAreNumbered, SessionKnowsItsEnd
  <2>2. CASE BeginStep
    <3> DEFINE begun   == [budget EXCEPT !.steps = @ + 1]
               counted == [begun EXCEPT !.generations = @ + 1]
    <3>1. budget' = [counted EXCEPT !.retries = 0]
      BY <2>2 DEF BeginStep
    <3>2. begun \in Counters /\ begun.tokens = budget.tokens /\ begun.toolCalls = budget.toolCalls
      BY <2>1 DEF Counters
    <3> HIDE DEF begun
    <3>3. counted \in Counters /\ counted.tokens = begun.tokens /\ counted.toolCalls = begun.toolCalls
      BY <3>2 DEF Counters
    <3> HIDE DEF counted
    <3> QED BY <2>1, <3>1, <3>2, <3>3 DEF Counters
  <2>3. CASE BadResponse \/ RetryTurn
    BY <2>1, <2>3 DEF BadResponse, RetryTurn, Counters
  <2>4. CASE BadCall
    <3>1. budget' = [budget EXCEPT !.toolCalls = @ + 1]
      BY <2>4 DEF BadCall
    <3> QED BY <2>1, <3>1 DEF Counters
  <2>5. ASSUME NEW tokens \in Usages, NoCalls(tokens)
        PROVE  budget' \in Counters /\ budget'.tokens <= MaxTotalTokens
               /\ budget'.toolCalls >= budget.toolCalls
    <3>1. tokens \in Nat /\ budget.tokens + tokens <= MaxTotalTokens
      BY <2>5, Limits DEF NoCalls
    <3> DEFINE charged == [budget EXCEPT !.tokens = @ + tokens]
    <3>2. budget' = [charged EXCEPT !.noProgress = @ + 1]
      BY <2>5 DEF NoCalls
    <3>3. charged \in Counters /\ charged.tokens <= MaxTotalTokens /\ charged.toolCalls = budget.toolCalls
      BY <2>1, <3>1 DEF Counters
    <3> HIDE DEF charged
    <3> QED BY <2>1, <3>2, <3>3 DEF Counters
  <2>6. ASSUME NEW tokens \in Usages, NEW response \in Responses, TurnCalls(response, tokens)
        PROVE  budget' \in Counters /\ budget'.tokens <= MaxTotalTokens
               /\ budget'.toolCalls >= budget.toolCalls
    <3>1. tokens \in Nat /\ budget.tokens + tokens <= MaxTotalTokens
      BY <2>6, Limits DEF TurnCalls
    <3>2. budget' = [budget EXCEPT !.tokens = @ + tokens]
      BY <2>6 DEF TurnCalls
    <3> QED BY <2>1, <3>1, <3>2 DEF Counters
  <2> QED BY <2>2, <2>3, <2>4, <2>5, <2>6
<1>5. TypeOK' /\ QueueIsOrderly' /\ InboxIsForTheAsked' /\ HandlersHaveOwners' /\ ActionsFit'
  <2>1. at \in InSession \cup {"closing"} /\ at' \in InSession \cup {"closing"}
    BY <1>1 DEF InSession
  <2>2. /\ cancels' \in [Requests -> 0..MaxCancels]
        /\ handlers' \subseteq Requests \X Nat /\ pending' \subseteq handlers'
        /\ terminal' \in BOOLEAN /\ progress' \in BOOLEAN
        /\ result' \in {"none", "decision", "failed", "cancelled"}
    BY <1>2 DEF ActorInv, TypeOK
  <2> QED BY <1>2, <2>1, <2>2, SessionGoesOn
<1>6. HandlersAreNumbered'
  <2>1. \A h \in pending : h[1] = deciding /\ h[2] \in Nat /\ h[2] <= budget.toolCalls
    BY <1>1 DEF ActorInv, HandlersAreNumbered, InSession, TypeOK
  <2>2. budget.toolCalls \in Nat /\ budget'.toolCalls \in Nat
    BY <1>4 DEF ActorInv, HandlersAreNumbered, Counters
  <2>3. \A h \in pending' : h[1] = deciding' /\ h[2] <= budget'.toolCalls
    BY <1>2, <1>4, <2>1, <2>2
  <2> QED BY <1>1, <1>4, <2>3 DEF HandlersAreNumbered
<1>7. SessionKnowsItsEnd'
  BY <1>1, <1>2, <1>3, <1>4 DEF SessionKnowsItsEnd
<1> QED BY <1>5, <1>6, <1>7 DEF ActorInv

\* A tool gets the next number of its session.
LEMMA StartToolKeeps == ASSUME ActorInv, StartTool PROVE ActorInv'
<1> DEFINE n == budget'.toolCalls
<1>1. budget \in Counters /\ budget.tokens <= MaxTotalTokens /\ deciding \in Requests
  BY DEF ActorInv, HandlersAreNumbered, SessionKnowsItsEnd, StartTool, TypeOK
<1>2. /\ budget' \in Counters /\ budget'.tokens = budget.tokens
      /\ n = budget.toolCalls + 1 /\ n \in Nat /\ budget.toolCalls \in Nat
  BY <1>1 DEF StartTool, Counters
<1>3. /\ UNCHANGED <<kind, queue, deciding, outcome, cancels, humanVars, stateVars, pending,
                     terminal, progress, result>>
      /\ at = "calls" /\ at' = "tool" /\ handlers' = handlers \cup {<<deciding, n>>}
  BY DEF StartTool
<1>4. TypeOK' /\ QueueIsOrderly' /\ InboxIsForTheAsked' /\ HandlersHaveOwners' /\ ActionsFit'
  <2>1. at \in InSession \cup {"closing"} /\ at' \in InSession \cup {"closing"}
    BY <1>3 DEF InSession
  <2>2. /\ cancels' \in [Requests -> 0..MaxCancels]
        /\ handlers' \subseteq Requests \X Nat /\ pending' \subseteq handlers'
        /\ terminal' \in BOOLEAN /\ progress' \in BOOLEAN
        /\ result' \in {"none", "decision", "failed", "cancelled"}
    BY <1>1, <1>2, <1>3 DEF ActorInv, TypeOK
  <2>3. \A h \in handlers' : h \in handlers \/ h[1] = deciding
    BY <1>3
  <2> QED BY <1>3, <2>1, <2>2, <2>3, SessionGoesOn
<1>5. HandlersAreNumbered'
  <2>1. \A h \in pending : h[1] = deciding /\ h[2] \in Nat /\ h[2] <= budget.toolCalls
    BY <1>3 DEF ActorInv, HandlersAreNumbered, InSession, TypeOK
  <2>2. \A h \in pending' : h[1] = deciding' /\ h[2] <= n /\ h[2] # n
    BY <1>2, <1>3, <2>1
  <2>3. Current' = <<deciding, n>>
    BY <1>3 DEF Current
  <2>4. Current' \notin pending' /\ Current' \in handlers'
    BY <1>3, <2>2, <2>3
  <2> QED BY <1>2, <2>2, <2>4 DEF HandlersAreNumbered
<1>6. SessionKnowsItsEnd'
  BY <1>1, <1>2, <1>3 DEF ActorInv, SessionKnowsItsEnd, StartTool
<1> QED BY <1>4, <1>5, <1>6 DEF ActorInv

\* The result of a call is in: the handler ended, or it is left pending.
LEMMA ToolEndsKeep ==
    ASSUME ActorInv, at \in {"tool", "grace"}, NEW ok \in BOOLEAN, ToolResult(ok),
           UNCHANGED <<kind, queue, deciding, outcome, cancels, humanVars>>,
           \/ handlers' = handlers \ {Current} /\ pending' = pending
           \/ handlers' = handlers /\ pending' = pending \cup {Current}
    PROVE  TypeOK' /\ QueueIsOrderly' /\ InboxIsForTheAsked' /\ HandlersAreNumbered'
           /\ SessionKnowsItsEnd' /\ HandlersHaveOwners' /\ ActionsFit'
<1> USE DEF ActorInv, humanVars
<1>1. /\ UNCHANGED <<budget, result>> /\ at' = "calls"
      /\ terminal' = (terminal \/ (ok /\ Head(calls).kind = "terminal"))
      /\ progress' = (progress \/ ok) /\ calls' = CallsAfter(ok)
  BY DEF ToolResult
<1>2. kind = "model" /\ deciding # NoRequest /\ ~terminal
  BY DEF TypeOK, InboxIsForTheAsked, SessionKnowsItsEnd
<1>3. Current \in handlers /\ Current \notin pending /\ Current[1] = deciding
  BY DEF HandlersAreNumbered, Current
<1>4. handlers' \subseteq handlers /\ pending' \subseteq handlers'
  BY <1>3 DEF TypeOK
<1>5. TypeOK'
  BY <1>1, <1>2, <1>4 DEF TypeOK, Places
<1>6. QueueIsOrderly' /\ HandlersHaveOwners'
  BY <1>4 DEF QueueIsOrderly, HandlersHaveOwners
<1>7. InboxIsForTheAsked' /\ ActionsFit'
  BY <1>1, <1>2 DEF InboxIsForTheAsked, ActionsFit
<1>8. HandlersAreNumbered'
  <2>1. budget \in Counters /\ budget.toolCalls \in Nat
    BY DEF HandlersAreNumbered, Counters
  <2>2. \A h \in pending : h[1] = deciding /\ h[2] <= budget.toolCalls
    BY DEF HandlersAreNumbered, InSession
  <2>3. Current[2] = budget.toolCalls
    BY DEF Current
  <2>4. \A h \in pending' : h[1] = deciding /\ h[2] <= budget.toolCalls
    BY <1>3, <2>1, <2>2, <2>3
  <2> QED BY <1>1, <2>1, <2>4 DEF HandlersAreNumbered
<1>9. SessionKnowsItsEnd'
  BY <1>1, <1>2 DEF SessionKnowsItsEnd, CallsAfter
<1> QED BY <1>5, <1>6, <1>7, <1>8, <1>9

\* A tool that ends, is given up, or ends late.
LEMMA ToolReturnsKeeps ==
    ASSUME ActorInv,
           \/ \E ok \in BOOLEAN : ToolReturns(ok)
           \/ \E patch \in Patches : UpdatePrivateState(patch) \/ UpdateBeliefs(patch)
           \/ ToolGraceEnds
    PROVE  ActorInv'
<1>1. /\ at \in {"tool", "grace"}
      /\ \/ handlers' = handlers \ {Current} /\ pending' = pending
         \/ handlers' = handlers /\ pending' = pending \cup {Current}
  BY DEF ToolReturns, UpdatePrivateState, UpdateBeliefs, Revise, ToolGraceEnds
<1>2. PICK ok \in BOOLEAN : ToolResult(ok)
  BY DEF ToolReturns, UpdatePrivateState, UpdateBeliefs, Revise, ToolGraceEnds
<1>3. UNCHANGED <<kind, queue, deciding, outcome, cancels, humanVars>>
  BY <1>2 DEF ToolResult
<1> QED BY <1>1, <1>2, <1>3, ToolEndsKeep DEF ActorInv

\* A time limit, or a cancellation while the tool runs.
LEMMA GraceKeeps == ASSUME ActorInv, ToolTimesOut \/ CancelTool PROVE ActorInv'
<1>1. /\ at \in {"tool", "grace"} /\ at' \in {"grace", "cancelgrace"}
      /\ at' = "grace" => at = "tool"
      /\ UNCHANGED <<kind, queue, deciding, outcome, humanVars, sessionVars, toolVars, stateVars>>
  BY DEF ToolTimesOut, CancelTool
<1>2. cancels' \in [Requests -> 0..MaxCancels]
  <2>1. deciding \in Requests
    BY <1>1 DEF ActorInv, TypeOK
  <2> QED BY <2>1, Limits DEF ActorInv, TypeOK, ToolTimesOut, CancelTool, CanCancel
<1>3. TypeOK' /\ QueueIsOrderly' /\ InboxIsForTheAsked' /\ HandlersHaveOwners' /\ ActionsFit'
  <2>1. at \in InSession \cup {"closing"} /\ at' \in InSession \cup {"closing"}
    BY <1>1 DEF InSession
  <2>2. /\ handlers' \subseteq Requests \X Nat /\ pending' \subseteq handlers'
        /\ terminal' \in BOOLEAN /\ progress' \in BOOLEAN
        /\ result' \in {"none", "decision", "failed", "cancelled"}
        /\ handlers' = handlers
    BY <1>1 DEF ActorInv, TypeOK, sessionVars, toolVars
  <2> QED BY <1>1, <1>2, <2>1, <2>2, SessionGoesOn
<1>4. HandlersAreNumbered' /\ SessionKnowsItsEnd'
  BY <1>1 DEF ActorInv, HandlersAreNumbered, SessionKnowsItsEnd, InSession, Current,
              sessionVars, toolVars
<1> QED BY <1>3, <1>4 DEF ActorInv

\* All calls of a response have results: another step, or the end.
LEMMA TurnEndsKeeps == ASSUME ActorInv, TurnEnds PROVE ActorInv'
<1> USE DEF ActorInv, TurnEnds
<1>1. CASE terminal
  <2>1. at \in InSession /\ pending' \subseteq handlers /\ handlers' = handlers
    BY DEF InSession, toolVars, TypeOK
  <2>2. cancels' \in [Requests -> 0..MaxCancels]
    BY DEF TypeOK
  <2> QED BY <1>1, <2>1, <2>2, EndRunKeeps
<1>2. CASE ~terminal
  <2>1. /\ at = "calls" /\ at' = "head"
        /\ UNCHANGED <<kind, queue, deciding, outcome, cancels, humanVars, stateVars, handlers,
                       pending, terminal, progress, result>>
    BY <1>2 DEF toolVars
  <2>2. budget' \in Counters /\ budget'.tokens = budget.tokens /\ budget'.toolCalls = budget.toolCalls
    BY <1>2 DEF HandlersAreNumbered, Counters
  <2>3. TypeOK' /\ QueueIsOrderly' /\ InboxIsForTheAsked' /\ HandlersHaveOwners' /\ ActionsFit'
    <3>1. at \in InSession \cup {"closing"} /\ at' \in InSession \cup {"closing"}
      BY <2>1 DEF InSession
    <3>2. /\ cancels' \in [Requests -> 0..MaxCancels]
          /\ handlers' \subseteq Requests \X Nat /\ pending' \subseteq handlers'
          /\ terminal' \in BOOLEAN /\ progress' \in BOOLEAN
          /\ result' \in {"none", "decision", "failed", "cancelled"}
      BY <2>1 DEF TypeOK
    <3> QED BY <2>1, <3>1, <3>2, SessionGoesOn
  <2>4. HandlersAreNumbered' /\ SessionKnowsItsEnd'
    BY <1>2, <2>1, <2>2 DEF HandlersAreNumbered, SessionKnowsItsEnd, InSession
  <2> QED BY <2>3, <2>4
<1> QED BY <1>1, <1>2

\* A handler that nobody awaits ends; the one that is awaited stays.
LEMMA HandlerEndsKeeps == ASSUME ActorInv, NEW h \in handlers, HandlerEnds(h) PROVE ActorInv'
<1> USE DEF ActorInv, HandlerEnds, seatVars, humanVars, sessionVars, stateVars
<1>1. handlers' = handlers \ {h} /\ pending' = pending \ {h}
  BY DEF Forgotten
<1>2. TypeOK'
  BY <1>1 DEF TypeOK
<1>3. HandlersAreNumbered'
  BY <1>1 DEF HandlersAreNumbered, Current
<1>4. QueueIsOrderly' /\ InboxIsForTheAsked' /\ SessionKnowsItsEnd' /\ HandlersHaveOwners'
      /\ ActionsFit'
  BY <1>1 DEF QueueIsOrderly, InboxIsForTheAsked, SessionKnowsItsEnd, HandlersHaveOwners, ActionsFit
<1> QED BY <1>2, <1>3, <1>4

\* The close of a session, clean or after its grace.
LEMMA CloseKeeps == ASSUME ActorInv, CloseClean \/ CloseGraceEnds PROVE ActorInv'
<1>1. /\ at \in InSession \cup {"closing"} /\ NoRun
      /\ UNCHANGED <<kind, queue, humanVars, handlers, stateVars>>
  BY DEF CloseClean, CloseGraceEnds, toolVars
<1>2. pending' \subseteq handlers /\ cancels' \in [Requests -> 0..MaxCancels]
  BY DEF ActorInv, TypeOK, CloseClean, CloseGraceEnds, toolVars
<1>3. \E how \in Outcomes :
         Leave(deciding, how) /\ (Alive(deciding) = {} \/ how \in {"cleanup", "cancelled"})
  <2>1. CASE CloseClean
    <3>1. result \in Outcomes
      BY <2>1 DEF ActorInv, TypeOK, SessionKnowsItsEnd, CloseClean, Outcomes
    <3> QED BY <2>1, <3>1 DEF CloseClean
  <2>2. CASE CloseGraceEnds
    <3> DEFINE how == IF result = "cancelled" THEN "cancelled" ELSE "cleanup"
    <3>1. how \in Outcomes /\ how \in {"cleanup", "cancelled"} /\ Leave(deciding, how)
      BY <2>2 DEF CloseGraceEnds, Outcomes
    <3> QED BY <3>1
  <2> QED BY <2>1, <2>2
<1> QED BY <1>1, <1>2, <1>3, RunLeaves

\* A session whose decision is cancelled.
LEMMA CancelSessionKeeps == ASSUME ActorInv, CancelSession PROVE ActorInv'
<1>1. deciding \in Requests /\ cancels' \in [Requests -> 0..MaxCancels]
  BY Limits DEF ActorInv, TypeOK, CancelSession, CanCancel
<1>2. /\ UNCHANGED <<kind, queue, humanVars, handlers, stateVars>>
      /\ pending' \subseteq handlers
  BY DEF ActorInv, TypeOK, CancelSession, toolVars
<1>3. CASE at = "closing"
  <2>1. Leave(deciding, "cancelled") /\ NoRun /\ "cancelled" \in Outcomes
    BY <1>3 DEF CancelSession, Outcomes
  <2> QED BY <1>1, <1>2, <1>3, <2>1, RunLeaves
<1>4. CASE at # "closing"
  <2>1. at \in InSession /\ EndRun("cancelled")
    BY <1>4 DEF CancelSession, InSession
  <2> QED BY <1>1, <1>2, <2>1, EndRunKeeps
<1> QED BY <1>3, <1>4

-----------------------------------------------------------------------------
\* Every step keeps the invariant.

\* Every step keeps the invariant of the seat.
LEMMA ActorStep == ActorInv /\ [Next]_vars => ActorInv'
<1> SUFFICES ASSUME ActorInv, [Next]_vars PROVE ActorInv'
  OBVIOUS
<1>1. CASE \E r \in Requests : Submit(r) \/ Reject(r) \/ CancelWaiting(r)
  BY <1>1, SubmitKeeps, RejectKeeps, CancelWaitingKeeps
<1>2. CASE HumanNext
  BY <1>2, AskHumanKeeps, PublishedKeeps, EnqueueKeeps, HumanEndsKeep DEF HumanNext
<1>3. CASE SessionNext
  <2>1. CASE \E r \in Requests : StartSession(r)
    BY <2>1, StartSessionKeeps
  <2>2. CASE GiveUp \/ TurnFails \/ CallsExhausted \/ CancelGraceEnds
             \/ \E tokens \in Usages : TokensSpent(tokens)
    BY <2>2, RunEndsKeep
  <2>3. CASE BeginStep \/ BadResponse \/ RetryTurn \/ BadCall
             \/ \E tokens \in Usages :
                   NoCalls(tokens) \/ \E response \in Responses : TurnCalls(response, tokens)
    BY <2>3, TurnKeeps
  <2>4. CASE StartTool \/ TurnEnds
    BY <2>4, StartToolKeeps, TurnEndsKeeps
  <2>5. CASE \/ \E ok \in BOOLEAN : ToolReturns(ok)
             \/ \E patch \in Patches : UpdatePrivateState(patch) \/ UpdateBeliefs(patch)
             \/ ToolGraceEnds
    BY <2>5, ToolReturnsKeeps
  <2>6. CASE ToolTimesOut \/ CancelTool
    BY <2>6, GraceKeeps
  <2>7. CASE \E h \in handlers : HandlerEnds(h)
    BY <2>7, HandlerEndsKeeps
  <2>8. CASE CloseClean \/ CloseGraceEnds
    BY <2>8, CloseKeeps
  <2>9. CASE CancelSession
    BY <2>9, CancelSessionKeeps
  <2> QED BY <1>3, <2>1, <2>2, <2>3, <2>4, <2>5, <2>6, <2>7, <2>8, <2>9 DEF SessionNext
<1>4. CASE UNCHANGED vars
  BY <1>4 DEF vars, seatVars, humanVars, sessionVars, toolVars, stateVars, ActorInv, TypeOK,
              QueueIsOrderly, InboxIsForTheAsked, HandlersAreNumbered, SessionKnowsItsEnd,
              HandlersHaveOwners, ActionsFit, Current
<1> QED BY <1>1, <1>2, <1>3, <1>4 DEF Next

\* The seat's state stays well formed, its requests stay in order, and its
\* handlers are numbered within the session that runs them (AgentActor._decide_serial,
\* AgentSession.run).
THEOREM ActorCorrect == Spec => []ActorInv
<1> QED BY ActorInit, ActorStep, PTL DEF Spec

\* A human's decision is made by an action that was accepted for its own
\* request, whatever timed out or was cancelled before it (_clear_human_queue).
THEOREM HumanAnswersForItself == Spec => []HumanAnswersItsRequest
<1>1. ActorInv => HumanAnswersItsRequest
  BY DEF ActorInv, ActionsFit, HumanAnswersItsRequest
<1> QED BY <1>1, ActorCorrect, PTL

\* Only StartTool adds a handler, and it does so for the decision that runs.
LEMMA ToolsAreStartedInTime ==
    ActorInv /\ [Next]_vars =>
        [\A h \in handlers' \ handlers :
            /\ ~terminal /\ budget.tokens <= MaxTotalTokens
            /\ deciding = h[1] /\ outcome[h[1]] = "waiting"]_vars
<1> SUFFICES ASSUME ActorInv, Next, NEW h \in handlers' \ handlers
             PROVE  /\ ~terminal /\ budget.tokens <= MaxTotalTokens
                    /\ deciding = h[1] /\ outcome[h[1]] = "waiting"
  OBVIOUS
<1>1. StartTool
  <2>1. handlers' \subseteq handlers \/ StartTool
    <3> USE DEF toolVars
    <3>1. CASE \E r \in Requests : Submit(r) \/ Reject(r) \/ CancelWaiting(r)
      BY <3>1 DEF Submit, Reject, CancelWaiting
    <3>2. CASE HumanNext
      BY <3>2 DEF HumanNext, AskHuman, Published, PublishFails, Enqueue, PageAnswers, TakeAction, UnmappedAction,
                  HumanTimeout, Expired, CancelHuman
    <3>3. CASE SessionNext
      BY <3>3 DEF SessionNext, StartSession, GiveUp, BeginStep, TurnFails, BadResponse, RetryTurn,
                  TokensSpent, NoCalls, TurnCalls, CallsExhausted, BadCall, ToolReturns,
                  UpdatePrivateState, UpdateBeliefs, Revise, ToolTimesOut, ToolGraceEnds, TurnEnds,
                  HandlerEnds, CloseClean, CloseGraceEnds, CancelSession, CancelTool, CancelGraceEnds
    <3> QED BY <3>1, <3>2, <3>3 DEF Next
  <2> QED BY <2>1
<1>2. h = <<deciding, budget'.toolCalls>> /\ at = "calls" /\ calls # <<>>
  BY <1>1 DEF StartTool
<1>3. deciding # NoRequest
  BY <1>2 DEF ActorInv, TypeOK
<1> QED BY <1>2, <1>3 DEF ActorInv, SessionKnowsItsEnd, QueueIsOrderly

\* A tool handler is started for the decision in progress only, and while it is
\* not done its request is that one, or was reported as not cleaned up or
\* cancelled (AgentSession.aclose).
THEOREM HandlersAreOwned == Spec => HandlersAreAccountedFor
<1>1. ActorInv => \A h \in handlers : HasOwner(h)
  BY DEF ActorInv, HandlersHaveOwners, HasOwner
<1> QED BY <1>1, ActorCorrect, ToolsAreStartedInTime, PTL
        DEF Spec, HandlersAreAccountedFor, NoToolAfterTheEnd

-----------------------------------------------------------------------------
(* What compaction does to a history of messages.                            *)

\* The calls of the model's answers, and the messages of a history.
Calls == UNION {Ids(response) : response \in Responses}
CallIds == {call.id : call \in Calls}
Messages == [role : {"user", "assistant", "tool"}, ids : Seq(CallIds), length : Nat]

\* What holds of 0, and of n + 1 when of n, holds of every number.
LEMMA NumbersInduction ==
    ASSUME NEW P \in SUBSET Nat, 0 \in P, \A n \in P : n + 1 \in P
    PROVE  P = Nat
<1> SUFFICES ASSUME P # Nat PROVE FALSE
  OBVIOUS
<1> DEFINE Rest == Nat \ P
           Below == OpToRel(<, Nat)
<1>1. Rest # {} /\ Rest \subseteq Nat
  OBVIOUS
<1>2. IsWellFoundedOn(Below, Nat)
  BY NatLessThanWellFounded
<1>3. \A x, y \in Nat : x < y => <<x, y>> \in Below
  BY DEF OpToRel
<1> HIDE DEF Rest, Below
<1>4. PICK x \in Rest : \A y \in Rest : ~ (<<y, x>> \in Below)
  BY <1>1, <1>2, WFMin
<1>5. x \in Nat /\ x # 0 /\ x \notin P
  BY <1>1 DEF Rest
<1>6. x - 1 \in Nat /\ x - 1 < x
  BY <1>5
<1>7. x - 1 \notin Rest
  BY <1>3, <1>4, <1>5, <1>6
<1>8. x - 1 \in P
  BY <1>6, <1>7 DEF Rest
<1> QED BY <1>5, <1>8

\* The function that Replaced evaluates from the end of the history backwards,
\* and the equation that defines it.
Views(h, selected) ==
    LET From[i \in 1..(Len(h) + 1)] ==
          IF i > Len(h) THEN <<>>
          ELSE IF i \in selected THEN <<SummaryMessage>> \o From[GroupEnd(h, i)]
          ELSE <<h[i]>> \o From[i + 1]
    IN From
ViewAt(h, selected, f, i) ==
    IF i > Len(h) THEN <<>>
    ELSE IF i \in selected THEN <<SummaryMessage>> \o f[GroupEnd(h, i)]
    ELSE <<h[i]>> \o f[i + 1]
ViewsFrom(h, selected, f, a) ==
    \A i \in a..(Len(h) + 1) : f[i] = ViewAt(h, selected, f, i)

\* An exchange that is selected ends in the history.
EndsInside(h, selected) ==
    \A i \in selected : i \in 1..Len(h) /\ GroupEnd(h, i) \in (i + 1)..(Len(h) + 1)

\* There is a function that satisfies it.
LEMMA SomeViews ==
    ASSUME NEW h, Len(h) \in Nat, NEW selected, EndsInside(h, selected)
    PROVE  \E f : ViewsFrom(h, selected, f, 1)
<1> DEFINE L == Len(h)
           P == {m \in Nat : m <= L => \E f : ViewsFrom(h, selected, f, L + 1 - m)}
<1>1. 0 \in P
  <2> DEFINE f == [i \in {L + 1} |-> <<>>]
  <2>1. \A i \in (L + 1)..(L + 1) : f[i] = ViewAt(h, selected, f, i)
    BY DEF ViewAt
  <2>2. L + 1 - 0 = L + 1
    OBVIOUS
  <2> HIDE DEF f
  <2> QED BY <2>1, <2>2 DEF ViewsFrom
<1>2. \A m \in P : m + 1 \in P
  <2> SUFFICES ASSUME NEW m \in P, m + 1 <= L
               PROVE  \E f : ViewsFrom(h, selected, f, L + 1 - (m + 1))
    OBVIOUS
  <2>1. m \in Nat /\ m <= L
    OBVIOUS
  <2>2. PICK f : ViewsFrom(h, selected, f, L + 1 - m)
    BY <2>1
  <2> DEFINE a == L - m
  <2>3. a \in 1..L /\ L + 1 - m = a + 1 /\ L + 1 - (m + 1) = a
    BY <2>1
  <2> HIDE DEF a, P
  <2> DEFINE x == ViewAt(h, selected, f, a)
             g == [i \in a..(L + 1) |-> IF i = a THEN x ELSE f[i]]
  <2>4. \A i \in (a + 1)..(L + 1) : g[i] = f[i] /\ f[i] = ViewAt(h, selected, f, i)
    <3>1. \A i \in (a + 1)..(L + 1) : g[i] = f[i]
      BY <2>3
    <3>2. \A i \in (a + 1)..(L + 1) : f[i] = ViewAt(h, selected, f, i)
      BY <2>2, <2>3 DEF ViewsFrom
    <3> QED BY <3>1, <3>2
  <2>5. g[a] = x
    BY <2>3
  <2> HIDE DEF g
  <2>6. \A i \in a..(L + 1) : ViewAt(h, selected, g, i) = ViewAt(h, selected, f, i)
    <3> TAKE i \in a..(L + 1)
    <3>1. CASE i > L
      BY <3>1 DEF ViewAt
    <3>2. CASE i <= L /\ i \in selected
      <4>1. GroupEnd(h, i) \in (a + 1)..(L + 1)
        BY <2>3, <3>2 DEF EndsInside
      <4>2. g[GroupEnd(h, i)] = f[GroupEnd(h, i)]
        BY <2>4, <4>1
      <4> QED BY <3>2, <4>2 DEF ViewAt
    <3>3. CASE i <= L /\ i \notin selected
      <4>1. i + 1 \in (a + 1)..(L + 1)
        BY <2>3, <3>3
      <4>2. g[i + 1] = f[i + 1]
        BY <2>4, <4>1
      <4> QED BY <3>3, <4>2 DEF ViewAt
    <3> QED BY <2>3, <3>1, <3>2, <3>3
  <2>7. \A i \in a..(L + 1) : g[i] = ViewAt(h, selected, g, i)
    <3> TAKE i \in a..(L + 1)
    <3>1. CASE i = a
      BY <2>5, <2>6, <3>1
    <3>2. CASE i # a
      <4>1. i \in (a + 1)..(L + 1)
        BY <2>3, <3>2
      <4> QED BY <2>4, <2>6, <4>1
    <3> QED BY <3>1, <3>2
  <2> QED BY <2>3, <2>7 DEF ViewsFrom
<1>3. P \in SUBSET Nat
  OBVIOUS
<1> HIDE DEF P
<1>4. P = Nat
  BY <1>1, <1>2, <1>3, NumbersInduction
<1>5. L \in P /\ L + 1 - L = 1
  BY <1>4
<1> QED BY <1>5 DEF P

\* The view is computed message by message, or exchange by exchange.
LEMMA ViewsStep ==
    ASSUME NEW h, Len(h) \in Nat, NEW selected, EndsInside(h, selected)
    PROVE  ViewsFrom(h, selected, Views(h, selected), 1)
<1> DEFINE L == Len(h)
           g == CHOOSE v : v = [i \in 1..(L + 1) |-> ViewAt(h, selected, v, i)]
<1>1. Views(h, selected) = g
  BY DEF Views, ViewAt
<1>2. PICK f : ViewsFrom(h, selected, f, 1)
  BY SomeViews
<1> DEFINE v == [i \in 1..(L + 1) |-> f[i]]
<1>3. \A i \in 1..(L + 1) : v[i] = f[i]
  OBVIOUS
<1>4. v = [i \in 1..(L + 1) |-> v[i]]
  OBVIOUS
<1> HIDE DEF v
<1>5. \A i \in 1..(L + 1) : ViewAt(h, selected, v, i) = ViewAt(h, selected, f, i)
  <2> TAKE i \in 1..(L + 1)
  <2>1. CASE i > L
    BY <2>1 DEF ViewAt
  <2>2. CASE i <= L /\ i \in selected
    <3>1. GroupEnd(h, i) \in 1..(L + 1)
      BY <2>2 DEF EndsInside
    <3> QED BY <1>3, <2>2, <3>1 DEF ViewAt
  <2>3. CASE i <= L /\ i \notin selected
    <3>1. i + 1 \in 1..(L + 1)
      BY <2>3
    <3> QED BY <1>3, <2>3, <3>1 DEF ViewAt
  <2> QED BY <2>1, <2>2, <2>3
<1>6. \A i \in 1..(L + 1) : v[i] = ViewAt(h, selected, v, i)
  BY <1>2, <1>3, <1>5 DEF ViewsFrom
<1>7. v = [i \in 1..(L + 1) |-> ViewAt(h, selected, v, i)]
  BY <1>4, <1>6
<1>8. g = [i \in 1..(L + 1) |-> ViewAt(h, selected, g, i)]
  BY <1>7
<1> HIDE DEF g
<1>9. \A i \in 1..(L + 1) : g[i] = ViewAt(h, selected, g, i)
  BY <1>8
<1> QED BY <1>1, <1>9 DEF ViewsFrom

\* Replaced is the view from the first message on.
LEMMA ReplacedViews == ASSUME NEW h, NEW selected PROVE Replaced(h, selected) = Views(h, selected)[1]
BY DEF Replaced, Views

\* The message at i is a result that belongs to the assistant's message at a.
InExchange(h, a, i) ==
    a \in 1..Len(h) /\ h[a].role = "assistant" /\ a < i /\ i <= a + Len(h[a].ids)

\* What the view from message i on looks like: its own calls have their results,
\* a result that belongs to a call before i is where the history has it, and
\* no other result stands alone.
ViewFits(h, i, v) ==
    /\ v \in Seq(Messages)
    /\ \A j \in 1..Len(v) : v[j].role = "assistant" =>
          \A k \in 1..Len(v[j].ids) :
              /\ j + k \in 1..Len(v)
              /\ v[j + k].role = "tool" /\ v[j + k].ids = <<v[j].ids[k]>>
    /\ \A a \in 1..Len(h) : InExchange(h, a, i) =>
          \A j \in i..(a + Len(h[a].ids)) :
              j - i + 1 \in 1..Len(v) /\ v[j - i + 1] = h[j]
    /\ \A j \in 1..Len(v) : v[j].role = "tool" =>
          \/ \E b \in 1..Len(v) : v[b].role = "assistant" /\ b < j /\ j <= b + Len(v[b].ids)
          \/ \E a \in 1..Len(h) : InExchange(h, a, i) /\ i + j - 1 <= a + Len(h[a].ids)

\* What a message in front of a view does to it.
LEMMA InFront ==
    ASSUME NEW T, NEW m \in T, NEW w \in Seq(T), NEW v, v = <<m>> \o w
    PROVE  /\ v \in Seq(T) /\ Len(w) \in Nat /\ Len(v) = Len(w) + 1
           /\ v[1] = m
           /\ \A j \in 1..Len(w) : j + 1 \in 1..Len(v) /\ v[j + 1] = w[j]
           /\ \A j \in 1..Len(v) : j # 1 => j - 1 \in 1..Len(w) /\ v[j] = w[j - 1]
<1>1. <<m>> \in Seq(T) /\ Len(<<m>>) = 1 /\ <<m>>[1] = m
  OBVIOUS
<1>2. /\ v \in Seq(T) /\ Len(w) \in Nat /\ Len(v) = Len(w) + 1
      /\ v[1] = m
      /\ \A j \in 1..Len(w) : v[j + 1] = w[j]
  BY <1>1
<1>3. \A j \in 1..Len(w) : j + 1 \in 1..Len(v)
  BY <1>2
<1>4. \A j \in 1..Len(v) : j # 1 => j - 1 \in 1..Len(w) /\ v[j] = w[j - 1]
  <2> TAKE j \in 1..Len(v)
  <2> HAVE j # 1
  <2> DEFINE l == j - 1
  <2>1. l \in 1..Len(w) /\ l + 1 = j
    BY <1>2
  <2> HIDE DEF l
  <2>2. v[j] = w[l]
    BY <1>2, <2>1
  <2> QED BY <2>1, <2>2 DEF l
<1> QED BY <1>2, <1>3, <1>4

\* The fields of a message, and of a history of them.
LEMMA MessageFacts ==
    ASSUME NEW h \in Seq(Messages)
    PROVE  /\ Len(h) \in Nat /\ DOMAIN h = 1..Len(h)
           /\ \A i \in 1..Len(h) :
                 /\ h[i] \in Messages
                 /\ h[i].ids \in Seq(CallIds) /\ Len(h[i].ids) \in Nat
                 /\ DOMAIN h[i].ids = 1..Len(h[i].ids)
<1>1. Len(h) \in Nat /\ DOMAIN h = 1..Len(h) /\ \A i \in 1..Len(h) : h[i] \in Messages
  OBVIOUS
<1>2. \A m \in Messages : m.ids \in Seq(CallIds)
  BY DEF Messages
<1>3. \A s \in Seq(CallIds) : Len(s) \in Nat /\ DOMAIN s = 1..Len(s)
  OBVIOUS
<1> QED BY <1>1, <1>2, <1>3

\* A paired history, by its indices.
LEMMA PairedFacts ==
    ASSUME NEW h \in Seq(Messages)
    PROVE  Paired(h) <=>
             /\ \A i \in 1..Len(h) : h[i].role = "assistant" =>
                   \A k \in 1..Len(h[i].ids) :
                       /\ i + k \in 1..Len(h)
                       /\ h[i + k].role = "tool" /\ h[i + k].ids = <<h[i].ids[k]>>
             /\ \A j \in 1..Len(h) : h[j].role = "tool" =>
                   \E i \in 1..Len(h) : h[i].role = "assistant" /\ i < j /\ j <= i + Len(h[i].ids)
BY MessageFacts DEF Paired

\* What belongs to an exchange is a result.
LEMMA ExchangeHasResults ==
    ASSUME NEW h \in Seq(Messages), Paired(h), NEW a, NEW i \in Int, InExchange(h, a, i)
    PROVE  i \in 1..Len(h) /\ h[i].role = "tool"
<1> DEFINE k == i - a
<1>1. a \in 1..Len(h) /\ Len(h[a].ids) \in Nat
  BY MessageFacts DEF InExchange
<1>2. k \in 1..Len(h[a].ids) /\ a + k = i
  BY <1>1 DEF InExchange
<1> HIDE DEF k
<1> QED BY <1>1, <1>2, PairedFacts DEF InExchange

\* The view goes on with a message that is not replaced.
LEMMA KeptMessage ==
    ASSUME NEW h \in Seq(Messages), Paired(h), NEW i \in 1..Len(h),
           NEW w, ViewFits(h, i + 1, w), NEW v, v = <<h[i]>> \o w
    PROVE  ViewFits(h, i, v)
<1>1. w \in Seq(Messages)
  BY DEF ViewFits
<1>2. h[i] \in Messages /\ Len(h) \in Nat /\ i \in Nat /\ Len(h[i].ids) \in Nat
  BY MessageFacts
<1>3. /\ v \in Seq(Messages) /\ Len(w) \in Nat /\ Len(v) = Len(w) + 1
      /\ v[1] = h[i]
      /\ \A j \in 1..Len(w) : j + 1 \in 1..Len(v) /\ v[j + 1] = w[j]
      /\ \A j \in 1..Len(v) : j # 1 => j - 1 \in 1..Len(w) /\ v[j] = w[j - 1]
  BY <1>1, <1>2, InFront
<1>4. \A j \in 1..Len(w) : Len(w[j].ids) \in Nat
  BY <1>1, MessageFacts
<1>5. ASSUME NEW j \in 1..Len(v), v[j].role = "assistant", NEW k \in 1..Len(v[j].ids)
      PROVE  /\ j + k \in 1..Len(v)
             /\ v[j + k].role = "tool" /\ v[j + k].ids = <<v[j].ids[k]>>
  <2>1. CASE j = 1
    <3>1. v[j] = h[i] /\ k \in 1..Len(h[i].ids) /\ k \in Nat
      BY <1>2, <1>3, <1>5, <2>1
    <3>2. InExchange(h, i, i + 1)
      BY <1>2, <1>5, <3>1 DEF InExchange
    <3> DEFINE t == i + k
    <3>3. t \in (i + 1)..(i + Len(h[i].ids)) /\ t - (i + 1) + 1 = k
      BY <1>2, <3>1
    <3>4. k \in 1..Len(w) /\ w[k] = h[t]
      <4> HIDE DEF t
      <4> QED BY <3>2, <3>3 DEF ViewFits
    <3>5. h[t].role = "tool" /\ h[t].ids = <<h[i].ids[k]>>
      BY <1>5, <3>1, PairedFacts
    <3> HIDE DEF t
    <3>6. v[k + 1] = w[k] /\ k + 1 \in 1..Len(v) /\ 1 + k = k + 1
      BY <1>3, <3>1, <3>4
    <3> QED BY <2>1, <3>1, <3>4, <3>5, <3>6
  <2>2. CASE j # 1
    <3> DEFINE l == j - 1
    <3>1. l \in 1..Len(w) /\ v[j] = w[l] /\ j = l + 1
      BY <1>3, <2>2
    <3> HIDE DEF l
    <3>2. /\ l + k \in 1..Len(w)
          /\ w[l + k].role = "tool" /\ w[l + k].ids = <<w[l].ids[k]>>
      <4>1. w[l].role = "assistant" /\ k \in 1..Len(w[l].ids)
        BY <1>5, <3>1
      <4>2. \A x \in 1..Len(w) : w[x].role = "assistant" =>
               \A y \in 1..Len(w[x].ids) :
                   x + y \in 1..Len(w) /\ w[x + y].role = "tool" /\ w[x + y].ids = <<w[x].ids[y]>>
        BY DEF ViewFits
      <4> QED BY <3>1, <4>1, <4>2
    <3>3. j + k = (l + k) + 1
      BY <1>4, <3>1
    <3> QED BY <1>3, <3>1, <3>2, <3>3
  <2> QED BY <2>1, <2>2
<1>6. ASSUME NEW a \in 1..Len(h), InExchange(h, a, i), NEW j \in i..(a + Len(h[a].ids))
      PROVE  j - i + 1 \in 1..Len(v) /\ v[j - i + 1] = h[j]
  <2>1. Len(h[a].ids) \in Nat
    BY MessageFacts
  <2>2. CASE j = i
    <3>1. j - i + 1 = 1
      BY <1>2, <2>2
    <3> QED BY <1>3, <2>2, <3>1
  <2>3. CASE j # i
    <3>1. j \in (i + 1)..(a + Len(h[a].ids)) /\ InExchange(h, a, i + 1)
      BY <1>2, <1>6, <2>1, <2>3 DEF InExchange
    <3> DEFINE l == j - (i + 1) + 1
    <3>2. l \in 1..Len(w) /\ w[l] = h[j]
      BY <3>1 DEF ViewFits
    <3>3. j - i + 1 = l + 1
      BY <1>2, <2>1
    <3> HIDE DEF l
    <3> QED BY <1>3, <3>2, <3>3
  <2> QED BY <2>2, <2>3
<1>7. ASSUME NEW j \in 1..Len(v), v[j].role = "tool"
      PROVE  \/ \E b \in 1..Len(v) : v[b].role = "assistant" /\ b < j /\ j <= b + Len(v[b].ids)
             \/ \E a \in 1..Len(h) : InExchange(h, a, i) /\ i + j - 1 <= a + Len(h[a].ids)
  <2>1. CASE j = 1
    <3>1. h[i].role = "tool"
      BY <1>3, <1>7, <2>1
    <3>2. PICK a \in 1..Len(h) : h[a].role = "assistant" /\ a < i /\ i <= a + Len(h[a].ids)
      BY <3>1, PairedFacts
    <3>3. i + j - 1 = i
      BY <1>2, <2>1
    <3> QED BY <3>2, <3>3 DEF InExchange
  <2>2. CASE j # 1
    <3> DEFINE l == j - 1
    <3>1. l \in 1..Len(w) /\ v[j] = w[l] /\ j = l + 1
      BY <1>3, <2>2
    <3> HIDE DEF l
    <3>2. CASE \E b \in 1..Len(w) : w[b].role = "assistant" /\ b < l /\ l <= b + Len(w[b].ids)
      <4>1. PICK b \in 1..Len(w) : w[b].role = "assistant" /\ b < l /\ l <= b + Len(w[b].ids)
        BY <3>2
      <4>2. b + 1 \in 1..Len(v) /\ v[b + 1] = w[b]
        BY <1>3
      <4>3. b + 1 < j /\ j <= b + 1 + Len(w[b].ids)
        <5> DEFINE n == Len(w[b].ids)
        <5>1. n \in Nat /\ b \in Int /\ l \in Int /\ j = l + 1 /\ b < l /\ l <= b + n
          BY <1>4, <3>1, <4>1
        <5> HIDE DEF n
        <5>2. b + 1 < j /\ j <= b + 1 + n
          BY <5>1
        <5> QED BY <5>2 DEF n
      <4> QED BY <4>1, <4>2, <4>3
    <3>3. CASE \E a \in 1..Len(h) : InExchange(h, a, i + 1) /\ i + 1 + l - 1 <= a + Len(h[a].ids)
      <4>1. PICK a \in 1..Len(h) : InExchange(h, a, i + 1) /\ i + 1 + l - 1 <= a + Len(h[a].ids)
        BY <3>3
      <4>2. Len(h[a].ids) \in Nat /\ i + j - 1 <= a + Len(h[a].ids)
        BY <1>2, <3>1, <4>1, MessageFacts
      <4>3. CASE a = i
        <5>1. h[i].role = "assistant" /\ 1 < j /\ j <= 1 + Len(h[i].ids)
          BY <1>2, <3>1, <4>1, <4>2, <4>3 DEF InExchange
        <5>2. 1 \in 1..Len(v)
          BY <1>3
        <5> QED BY <1>3, <5>1, <5>2
      <4>4. CASE a # i
        <5>1. InExchange(h, a, i)
          BY <1>2, <4>1, <4>2, <4>4 DEF InExchange
        <5> QED BY <4>2, <5>1
      <4> QED BY <4>3, <4>4
    <3> QED BY <1>7, <3>1, <3>2, <3>3 DEF ViewFits
  <2> QED BY <2>1, <2>2
<1> QED BY <1>3, <1>5, <1>6, <1>7 DEF ViewFits

\* No exchange of a paired history goes past the end of one that is complete.
LEMMA ExchangesEnd ==
    ASSUME NEW h \in Seq(Messages), Paired(h), NEW i \in CompleteGroups(h), NEW a \in 1..Len(h)
    PROVE  ~InExchange(h, a, i) /\ ~InExchange(h, a, GroupEnd(h, i))
<1> DEFINE n == Len(h[i].ids)
<1>1. i \in 1..Len(h) /\ n \in Nat /\ h[i].role = "assistant" /\ i + n <= Len(h)
  BY MessageFacts DEF CompleteGroups
<1>2. \A j \in (i + 1)..(i + n) : h[j].role = "tool"
  <2>1. \A j \in Exchange(h, i) \ {i} : h[j].role = "tool"
    BY DEF CompleteGroups
  <2>2. \A j \in (i + 1)..(i + n) : j \in Exchange(h, i) \ {i}
    BY <1>1 DEF Exchange
  <2> QED BY <2>1, <2>2
<1>3. Len(h[a].ids) \in Nat
  BY MessageFacts
<1>4. ~InExchange(h, a, i)
  <2>1. i \in Int /\ "assistant" # "tool"
    BY <1>1
  <2> QED BY <1>1, <2>1, ExchangeHasResults
<1>5. ASSUME InExchange(h, a, GroupEnd(h, i)) PROVE FALSE
  <2>1. h[a].role = "assistant" /\ a < i + n + 1 /\ i + n + 1 <= a + Len(h[a].ids)
    BY <1>5 DEF InExchange, GroupEnd
  <2>2. a # i
    BY <1>1, <2>1
  <2>3. CASE a < i
    <3>1. InExchange(h, a, i)
      BY <1>1, <1>3, <2>1, <2>3 DEF InExchange
    <3> QED BY <1>4, <3>1
  <2>4. CASE a > i
    <3>1. a \in (i + 1)..(i + n)
      BY <1>1, <2>1, <2>4
    <3>2. h[a].role = "tool"
      BY <1>2, <3>1
    <3> QED BY <2>1, <3>2
  <2> QED BY <1>1, <2>2, <2>3, <2>4
<1> QED BY <1>4, <1>5

\* The view goes on with the summary of an exchange, and after it.
LEMMA SummarizedExchange ==
    ASSUME NEW h \in Seq(Messages), Paired(h), NEW i \in CompleteGroups(h),
           NEW w, ViewFits(h, GroupEnd(h, i), w), NEW v, v = <<SummaryMessage>> \o w
    PROVE  ViewFits(h, i, v)
<1>1. w \in Seq(Messages)
  BY DEF ViewFits
<1>2. SummaryMessage \in Messages /\ SummaryMessage.role = "user"
  BY HistoryAssumption DEF SummaryMessage, Messages
<1>3. /\ v \in Seq(Messages) /\ Len(w) \in Nat /\ Len(v) = Len(w) + 1
      /\ v[1] = SummaryMessage
      /\ \A j \in 1..Len(w) : j + 1 \in 1..Len(v) /\ v[j + 1] = w[j]
      /\ \A j \in 1..Len(v) : j # 1 => j - 1 \in 1..Len(w) /\ v[j] = w[j - 1]
  BY <1>1, <1>2, InFront
<1>4. \A j \in 1..Len(w) : Len(w[j].ids) \in Nat
  BY <1>1, MessageFacts
<1>5. \A a \in 1..Len(h) : ~InExchange(h, a, i) /\ ~InExchange(h, a, GroupEnd(h, i))
  BY ExchangesEnd
<1>6. ASSUME NEW j \in 1..Len(v), v[j].role = "assistant", NEW k \in 1..Len(v[j].ids)
      PROVE  /\ j + k \in 1..Len(v)
             /\ v[j + k].role = "tool" /\ v[j + k].ids = <<v[j].ids[k]>>
  <2>1. j # 1
    BY <1>2, <1>3, <1>6
  <2> DEFINE l == j - 1
  <2>2. l \in 1..Len(w) /\ v[j] = w[l] /\ j = l + 1
    BY <1>3, <2>1
  <2> HIDE DEF l
  <2>3. /\ l + k \in 1..Len(w)
        /\ w[l + k].role = "tool" /\ w[l + k].ids = <<w[l].ids[k]>>
    BY <1>6, <2>2, SMTT(30) DEF ViewFits
  <2>4. j + k = (l + k) + 1
    BY <1>4, <2>2
  <2> QED BY <1>3, <2>2, <2>3, <2>4
<1>7. ASSUME NEW j \in 1..Len(v), v[j].role = "tool"
      PROVE  \E b \in 1..Len(v) : v[b].role = "assistant" /\ b < j /\ j <= b + Len(v[b].ids)
  <2>1. j # 1
    BY <1>2, <1>3, <1>7
  <2> DEFINE l == j - 1
  <2>2. l \in 1..Len(w) /\ v[j] = w[l] /\ j = l + 1
    BY <1>3, <2>1
  <2> HIDE DEF l
  <2>3. PICK b \in 1..Len(w) : w[b].role = "assistant" /\ b < l /\ l <= b + Len(w[b].ids)
    BY <1>5, <1>7, <2>2 DEF ViewFits
  <2>4. b + 1 \in 1..Len(v) /\ v[b + 1] = w[b]
    BY <1>3
  <2> DEFINE n == Len(w[b].ids)
  <2>5. n \in Nat /\ b \in Int /\ l \in Int /\ j = l + 1 /\ b < l /\ l <= b + n
    BY <1>4, <2>2, <2>3
  <2> HIDE DEF n
  <2>6. b + 1 < j /\ j <= b + 1 + n
    BY <2>5
  <2> QED BY <2>3, <2>4, <2>6 DEF n
<1> QED BY <1>3, <1>5, <1>6, <1>7 DEF ViewFits

\* Behind the last message there is nothing, and no result is missing.
LEMMA EmptyView == ASSUME NEW h \in Seq(Messages), Paired(h) PROVE ViewFits(h, Len(h) + 1, <<>>)
<1>1. <<>> \in Seq(Messages) /\ Len(<<>>) = 0
  OBVIOUS
<1>2. Len(h) \in Nat
  BY MessageFacts
<1>3. ASSUME NEW a \in 1..Len(h), InExchange(h, a, Len(h) + 1) PROVE FALSE
  <2>1. Len(h) + 1 \in 1..Len(h)
    BY <1>2, <1>3, ExchangeHasResults
  <2> QED BY <1>2, <2>1
<1> QED BY <1>1, <1>3 DEF ViewFits

\* Replacing complete exchanges leaves a paired history paired
\* (_replace_tool_history_groups).
LEMMA ReplacedIsPaired ==
    ASSUME NEW h \in Seq(Messages), Paired(h), NEW selected \in SUBSET CompleteGroups(h)
    PROVE  Paired(Replaced(h, selected))
<1> DEFINE L == Len(h)
           f == Views(h, selected)
           Done(m) == m <= L => \A i \in (L + 1 - m)..(L + 1) : ViewFits(h, i, f[i])
           P == {m \in Nat : Done(m)}
<1>1. L \in Nat
  BY MessageFacts
<1>2. EndsInside(h, selected)
  <2> SUFFICES ASSUME NEW i \in selected
               PROVE  i \in 1..L /\ GroupEnd(h, i) \in (i + 1)..(L + 1)
    BY DEF EndsInside
  <2>1. i \in 1..L /\ Len(h[i].ids) \in Nat /\ i + Len(h[i].ids) <= L
    BY MessageFacts DEF CompleteGroups
  <2> QED BY <1>1, <2>1 DEF GroupEnd
<1>3. \A i \in 1..(L + 1) : f[i] = ViewAt(h, selected, f, i)
  BY <1>1, <1>2, ViewsStep DEF ViewsFrom
<1> HIDE DEF f
<1>4. 0 \in P
  <2>1. f[L + 1] = <<>>
    <3>1. L + 1 \in 1..(L + 1) /\ L + 1 > L
      BY <1>1
    <3> QED BY <1>3, <3>1 DEF ViewAt
  <2>2. \A i \in (L + 1 - 0)..(L + 1) : i = L + 1
    BY <1>1
  <2> QED BY <2>1, <2>2, EmptyView
<1>5. \A m \in P : m + 1 \in P
  <2> SUFFICES ASSUME NEW m \in Nat, Done(m) PROVE Done(m + 1)
    <3> HIDE DEF Done
    <3> QED OBVIOUS
  <2> SUFFICES ASSUME m + 1 <= L
               PROVE  \A i \in (L + 1 - (m + 1))..(L + 1) : ViewFits(h, i, f[i])
    OBVIOUS
  <2>1. \A i \in (L + 1 - m)..(L + 1) : ViewFits(h, i, f[i])
    BY <1>1
  <2> HIDE DEF P
  <2> TAKE i \in (L + 1 - (m + 1))..(L + 1)
  <2>2. CASE i # L - m
    <3>1. i \in (L + 1 - m)..(L + 1)
      BY <1>1, <2>1, <2>2
    <3> QED BY <2>1, <3>1
  <2>3. CASE i = L - m
    <3>1. i \in 1..L /\ i \in 1..(L + 1) /\ ~(i > L)
      BY <1>1, <2>1, <2>3
    <3>2. CASE i \in selected
      <4>1. f[i] = <<SummaryMessage>> \o f[GroupEnd(h, i)]
        BY <1>3, <3>1, <3>2 DEF ViewAt
      <4>2. GroupEnd(h, i) \in (L + 1 - m)..(L + 1)
        BY <1>1, <1>2, <2>1, <2>3, <3>2 DEF EndsInside
      <4>3. ViewFits(h, GroupEnd(h, i), f[GroupEnd(h, i)])
        BY <2>1, <4>2
      <4> QED BY <3>2, <4>1, <4>3, SummarizedExchange
    <3>3. CASE i \notin selected
      <4>1. f[i] = <<h[i]>> \o f[i + 1]
        BY <1>3, <3>1, <3>3 DEF ViewAt
      <4>2. i + 1 \in (L + 1 - m)..(L + 1)
        BY <1>1, <2>1, <2>3
      <4>3. ViewFits(h, i + 1, f[i + 1])
        BY <2>1, <4>2
      <4> QED BY <3>1, <4>1, <4>3, KeptMessage
    <3> QED BY <3>2, <3>3
  <2> QED BY <2>2, <2>3
<1>6. P \in SUBSET Nat
  OBVIOUS
<1>7. P = Nat
  <2> HIDE DEF P
  <2> QED BY <1>4, <1>5, <1>6, NumbersInduction
<1>8. ViewFits(h, 1, f[1])
  <2>1. L \in P
    BY <1>1, <1>7
  <2>2. 1 \in (L + 1 - L)..(L + 1)
    BY <1>1
  <2> QED BY <2>1, <2>2
<1>9. \A a \in 1..Len(h) : ~InExchange(h, a, 1)
  BY DEF InExchange
<1>10. f[1] \in Seq(Messages) /\ Paired(f[1])
  BY <1>8, <1>9, PairedFacts DEF ViewFits
<1> QED BY <1>10, ReplacedViews DEF f

\* What a model turn is sent is paired when the history is (_model_history_view).
LEMMA ViewIsPaired == ASSUME NEW h \in Seq(Messages), Paired(h) PROVE Paired(HistoryView(h))
<1>1. Compacted(h) \in SUBSET CompleteGroups(h)
  BY DEF Compacted, EligibleGroups
<1> QED BY <1>1, ReplacedIsPaired DEF HistoryView

-----------------------------------------------------------------------------
(* Messages that are added to a history.                                     *)

\* The results that the calls still to be run will get.
Answers(cs) == [i \in 1..Len(cs) |-> ToolMessage(cs[i].id, TRUE)]

\* The ids of the calls of a response, in their order.
CallsOf(response) == [i \in DOMAIN response |-> response[i].id]

\* The messages of two histories say the same of calls and results.
SameShape(u, v) ==
    /\ Len(u) = Len(v)
    /\ \A i \in 1..Len(u) : u[i].role = v[i].role /\ u[i].ids = v[i].ids

\* Whether a history is paired shows in the shape of its messages.
LEMMA ShapePairs ==
    ASSUME NEW u \in Seq(Messages), NEW v \in Seq(Messages), SameShape(u, v), Paired(u)
    PROVE  Paired(v)
<1>1. Len(u) = Len(v) /\ \A i \in 1..Len(v) : u[i].role = v[i].role /\ u[i].ids = v[i].ids
  BY DEF SameShape
<1>2. ASSUME NEW i \in 1..Len(v), v[i].role = "assistant", NEW k \in 1..Len(v[i].ids)
      PROVE  i + k \in 1..Len(v) /\ v[i + k].role = "tool" /\ v[i + k].ids = <<v[i].ids[k]>>
  <2>1. i \in 1..Len(u) /\ u[i].role = "assistant" /\ u[i].ids = v[i].ids
    BY <1>1, <1>2
  <2> DEFINE j == i + k
  <2>2. j \in 1..Len(u) /\ u[j].role = "tool" /\ u[j].ids = <<u[i].ids[k]>>
    BY <1>2, <2>1, PairedFacts
  <2> HIDE DEF j
  <2>3. j \in 1..Len(v) /\ v[j].role = "tool" /\ v[j].ids = <<v[i].ids[k]>>
    BY <1>1, <2>1, <2>2
  <2> QED BY <2>3 DEF j
<1>3. \A j \in 1..Len(v) : v[j].role = "tool" =>
          \E i \in 1..Len(v) : v[i].role = "assistant" /\ i < j /\ j <= i + Len(v[i].ids)
  BY <1>1, PairedFacts, ZenonT(30)
<1> QED BY <1>2, <1>3, PairedFacts

\* The parts of a history that is put together of two.
JoinOf(T, a, b, c) ==
    /\ c \in Seq(T) /\ Len(a) \in Nat /\ Len(b) \in Nat /\ Len(c) = Len(a) + Len(b)
    /\ \A i \in 1..Len(a) : i \in 1..Len(c) /\ c[i] = a[i]
    /\ \A j \in 1..Len(b) : Len(a) + j \in 1..Len(c) /\ c[Len(a) + j] = b[j]
    /\ \A i \in 1..Len(c) : i \notin 1..Len(a) =>
          \E j \in 1..Len(b) : i = Len(a) + j /\ c[i] = b[j]

\* They are what they were in their own history.
LEMMA ConcatFacts ==
    ASSUME NEW T, NEW a \in Seq(T), NEW b \in Seq(T), NEW c, c = a \o b
    PROVE  JoinOf(T, a, b, c)
<1>0. /\ c \in Seq(T) /\ Len(a) \in Nat /\ Len(b) \in Nat /\ Len(c) = Len(a) + Len(b)
      /\ \A i \in 1..(Len(a) + Len(b)) : c[i] = IF i <= Len(a) THEN a[i] ELSE b[i - Len(a)]
  BY ConcatProperties, LenProperties
<1>1. /\ c \in Seq(T) /\ Len(a) \in Nat /\ Len(b) \in Nat /\ Len(c) = Len(a) + Len(b)
      /\ \A i \in 1..Len(a) : c[i] = a[i]
      /\ \A j \in 1..Len(b) : c[Len(a) + j] = b[j]
  <2>1. ASSUME NEW i \in 1..Len(a) PROVE c[i] = a[i]
    <3>1. i \in 1..(Len(a) + Len(b)) /\ i <= Len(a)
      BY <1>0
    <3> QED BY <1>0, <3>1
  <2>2. ASSUME NEW j \in 1..Len(b) PROVE c[Len(a) + j] = b[j]
    <3> DEFINE i == Len(a) + j
    <3>1. i \in 1..(Len(a) + Len(b)) /\ ~(i <= Len(a)) /\ i - Len(a) = j
      BY <1>0
    <3> HIDE DEF i
    <3>2. c[i] = b[j]
      BY <1>0, <3>1
    <3> QED BY <3>2 DEF i
  <2> QED BY <1>0, <2>1, <2>2
<1>2. \A i \in 1..Len(a) : i \in 1..Len(c)
  BY <1>1
<1>3. \A j \in 1..Len(b) : Len(a) + j \in 1..Len(c)
  BY <1>1
<1>4. \A i \in 1..Len(c) : i \notin 1..Len(a) =>
         \E j \in 1..Len(b) : i = Len(a) + j /\ c[i] = b[j]
  <2> TAKE i \in 1..Len(c)
  <2> HAVE i \notin 1..Len(a)
  <2> DEFINE j == i - Len(a)
  <2>1. j \in 1..Len(b) /\ i = Len(a) + j
    BY <1>1
  <2> HIDE DEF j
  <2> QED BY <1>1, <2>1
<1> QED BY <1>1, <1>2, <1>3, <1>4 DEF JoinOf

\* Two paired histories make one.
LEMMA ConcatPairs ==
    ASSUME NEW a \in Seq(Messages), NEW b \in Seq(Messages), Paired(a), Paired(b),
           NEW c, c = a \o b
    PROVE  c \in Seq(Messages) /\ Paired(c)
<1> DEFINE n == Len(a)
<1>1. /\ c \in Seq(Messages) /\ n \in Nat /\ Len(b) \in Nat /\ Len(c) = n + Len(b)
      /\ \A i \in 1..n : i \in 1..Len(c) /\ c[i] = a[i]
      /\ \A j \in 1..Len(b) : n + j \in 1..Len(c) /\ c[n + j] = b[j]
      /\ \A i \in 1..Len(c) : i \notin 1..n => \E j \in 1..Len(b) : i = n + j /\ c[i] = b[j]
  <2>1. JoinOf(Messages, a, b, c)
    BY ConcatFacts
  <2> QED BY <2>1 DEF JoinOf
<1>2. \A i \in 1..n : a[i].role = "assistant" =>
          \A k \in 1..Len(a[i].ids) :
              i + k \in 1..n /\ a[i + k].role = "tool" /\ a[i + k].ids = <<a[i].ids[k]>>
  BY PairedFacts
<1>3. \A j \in 1..n : a[j].role = "tool" =>
          \E i \in 1..n : a[i].role = "assistant" /\ i < j /\ j <= i + Len(a[i].ids)
  BY PairedFacts
<1>4. \A i \in 1..Len(b) : Len(b[i].ids) \in Nat
  BY MessageFacts
<1> HIDE DEF n
<1>5. ASSUME NEW i \in 1..Len(c), c[i].role = "assistant", NEW k \in 1..Len(c[i].ids)
      PROVE  i + k \in 1..Len(c) /\ c[i + k].role = "tool" /\ c[i + k].ids = <<c[i].ids[k]>>
  <2>1. CASE i \in 1..n
    BY <1>1, <1>2, <1>5, <2>1
  <2>2. CASE i \notin 1..n
    <3>1. PICK j \in 1..Len(b) : i = n + j /\ c[i] = b[j]
      BY <1>1, <2>2
    <3>2. j + k \in 1..Len(b) /\ b[j + k].role = "tool" /\ b[j + k].ids = <<b[j].ids[k]>>
      <4>1. b[j].role = "assistant" /\ k \in 1..Len(b[j].ids)
        BY <1>5, <3>1
      <4>2. \A x \in 1..Len(b) : b[x].role = "assistant" =>
               \A y \in 1..Len(b[x].ids) :
                   x + y \in 1..Len(b) /\ b[x + y].role = "tool" /\ b[x + y].ids = <<b[x].ids[y]>>
        BY PairedFacts
      <4> QED BY <4>1, <4>2
    <3>3. i + k = n + (j + k)
      BY <1>1, <1>4, <3>1
    <3> QED BY <1>1, <3>1, <3>2, <3>3
  <2> QED BY <2>1, <2>2
<1>6. ASSUME NEW i \in 1..Len(c), c[i].role = "tool"
      PROVE  \E l \in 1..Len(c) : c[l].role = "assistant" /\ l < i /\ i <= l + Len(c[l].ids)
  <2>1. CASE i \in 1..n
    BY <1>1, <1>3, <1>6, <2>1
  <2>2. CASE i \notin 1..n
    <3>1. PICK j \in 1..Len(b) : i = n + j /\ c[i] = b[j]
      BY <1>1, <2>2
    <3>2. PICK l \in 1..Len(b) : b[l].role = "assistant" /\ l < j /\ j <= l + Len(b[l].ids)
      BY <1>6, <3>1, PairedFacts
    <3>3. n + l \in 1..Len(c) /\ c[n + l] = b[l]
      BY <1>1
    <3>4. n + l < i /\ i <= n + l + Len(b[l].ids)
      <4> DEFINE s == Len(b[l].ids)
      <4>1. s \in Nat /\ l \in Int /\ j \in Int /\ n \in Int /\ i = n + j /\ l < j /\ j <= l + s
        BY <1>1, <1>4, <3>1, <3>2
      <4> HIDE DEF s
      <4>2. n + l < i /\ i <= n + l + s
        BY <4>1
      <4> QED BY <4>2 DEF s
    <3> QED BY <3>2, <3>3, <3>4
  <2> QED BY <2>1, <2>2
<1> QED BY <1>1, <1>5, <1>6, PairedFacts, ZenonT(60)

\* A result of a call, and what is sent of it, are messages.
LEMMA ToolMessages ==
    ASSUME NEW id \in CallIds, NEW ok \in BOOLEAN
    PROVE  /\ ToolMessage(id, ok) \in Messages
           /\ ToolMessage(id, ok).role = "tool" /\ ToolMessage(id, ok).ids = <<id>>
<1>1. <<id>> \in Seq(CallIds)
  OBVIOUS
<1> QED BY <1>1 DEF ToolMessage, Messages

\* The results that calls will get.
LEMMA AnswersFacts ==
    ASSUME NEW cs \in Seq(Calls)
    PROVE  /\ Answers(cs) \in Seq(Messages) /\ Len(cs) \in Nat /\ Len(Answers(cs)) = Len(cs)
           /\ \A i \in 1..Len(cs) :
                 /\ cs[i].id \in CallIds
                 /\ Answers(cs)[i] = ToolMessage(cs[i].id, TRUE)
                 /\ Answers(cs)[i].role = "tool" /\ Answers(cs)[i].ids = <<cs[i].id>>
<1>1. Len(cs) \in Nat /\ \A i \in 1..Len(cs) : cs[i].id \in CallIds
  BY DEF CallIds
<1>2. \A i \in 1..Len(cs) :
         /\ ToolMessage(cs[i].id, TRUE) \in Messages
         /\ ToolMessage(cs[i].id, TRUE).role = "tool" /\ ToolMessage(cs[i].id, TRUE).ids = <<cs[i].id>>
  BY <1>1, ToolMessages
<1>3. \A i \in 1..Len(cs) : Answers(cs)[i] = ToolMessage(cs[i].id, TRUE)
  BY DEF Answers
<1>4. Answers(cs) \in [1..Len(cs) -> Messages]
  BY <1>2 DEF Answers
<1>5. Answers(cs) \in Seq(Messages) /\ Len(Answers(cs)) = Len(cs)
  <2> DEFINE s == Answers(cs)
  <2>1. s \in [1..Len(cs) -> Messages]
    BY <1>4
  <2> HIDE DEF s
  <2>2. s \in Seq(Messages) /\ Len(s) = Len(cs)
    BY <1>1, <2>1
  <2> QED BY <2>2 DEF s
<1> QED BY <1>1, <1>2, <1>3, <1>5

\* An answer of the model with the results its calls will get is paired.
LEMMA ExchangeIsPaired ==
    ASSUME NEW cs \in Seq(Calls)
    PROVE  /\ AssistantMessage(CallsOf(cs)) \in Messages
           /\ <<AssistantMessage(CallsOf(cs))>> \o Answers(cs) \in Seq(Messages)
           /\ Paired(<<AssistantMessage(CallsOf(cs))>> \o Answers(cs))
<1> DEFINE m == AssistantMessage(CallsOf(cs))
           w == Answers(cs)
           v == <<m>> \o w
<1>1. /\ w \in Seq(Messages) /\ Len(cs) \in Nat /\ Len(w) = Len(cs)
      /\ \A i \in 1..Len(cs) : cs[i].id \in CallIds /\ w[i].role = "tool" /\ w[i].ids = <<cs[i].id>>
  BY AnswersFacts
<1>2. DOMAIN cs = 1..Len(cs)
  OBVIOUS
<1>3. /\ CallsOf(cs) \in Seq(CallIds) /\ Len(CallsOf(cs)) = Len(cs)
      /\ \A i \in 1..Len(cs) : CallsOf(cs)[i] = cs[i].id
  <2> DEFINE s == CallsOf(cs)
  <2>1. s \in [1..Len(cs) -> CallIds]
    BY <1>1, <1>2 DEF CallsOf
  <2>2. \A i \in 1..Len(cs) : s[i] = cs[i].id
    BY <1>2 DEF CallsOf
  <2> HIDE DEF s
  <2>3. s \in Seq(CallIds) /\ Len(s) = Len(cs)
    BY <1>1, <2>1
  <2> QED BY <2>2, <2>3 DEF s
<1>4. m \in Messages /\ m.role = "assistant" /\ m.ids = CallsOf(cs)
  BY <1>3 DEF AssistantMessage, Messages
<1> HIDE DEF m, w
<1>5. /\ v \in Seq(Messages) /\ Len(w) \in Nat /\ Len(v) = Len(w) + 1
      /\ v[1] = m
      /\ \A j \in 1..Len(w) : j + 1 \in 1..Len(v) /\ v[j + 1] = w[j]
      /\ \A j \in 1..Len(v) : j # 1 => j - 1 \in 1..Len(w) /\ v[j] = w[j - 1]
  BY <1>1, <1>4, InFront
<1> HIDE DEF v
<1>6. \A j \in 1..Len(v) : j # 1 => v[j].role = "tool"
  BY <1>1, <1>5
<1>7. ASSUME NEW i \in 1..Len(v), v[i].role = "assistant", NEW k \in 1..Len(v[i].ids)
      PROVE  i + k \in 1..Len(v) /\ v[i + k].role = "tool" /\ v[i + k].ids = <<v[i].ids[k]>>
  <2>1. i = 1
    BY <1>6, <1>7
  <2>2. k \in 1..Len(cs) /\ v[i].ids[k] = cs[k].id
    BY <1>3, <1>4, <1>5, <2>1
  <2>3. k + 1 \in 1..Len(v) /\ v[k + 1] = w[k] /\ i + k = k + 1
    BY <1>1, <1>5, <2>1, <2>2
  <2> QED BY <1>1, <2>2, <2>3
<1>8. ASSUME NEW j \in 1..Len(v), v[j].role = "tool"
      PROVE  \E i \in 1..Len(v) : v[i].role = "assistant" /\ i < j /\ j <= i + Len(v[i].ids)
  <2>1. j # 1
    BY <1>4, <1>5, <1>8
  <2>2. 1 \in 1..Len(v) /\ v[1].role = "assistant" /\ 1 < j /\ j <= 1 + Len(v[1].ids)
    BY <1>1, <1>3, <1>4, <1>5, <2>1
  <2> QED BY <2>2
<1>9. Paired(v)
  BY <1>5, <1>7, <1>8, PairedFacts
<1> QED BY <1>4, <1>5, <1>9 DEF v, w, m

\* The first of the calls that are left has its result.
LEMMA ResultPairs ==
    ASSUME NEW h \in Seq(Messages), NEW cs \in Seq(Calls), cs # <<>>, NEW ok \in BOOLEAN,
           Paired(h \o Answers(cs)), NEW g, g = Append(h, ToolMessage(Head(cs).id, ok))
    PROVE  /\ g \in Seq(Messages) /\ Tail(cs) \in Seq(Calls)
           /\ Paired(g \o Answers(Tail(cs)))
<1> DEFINE n == Len(h)
           m == ToolMessage(Head(cs).id, ok)
           a == Answers(cs)
           b == Answers(Tail(cs))
           u == h \o a
           v == g \o b
<1>1. /\ Len(cs) \in Nat /\ Len(cs) >= 1 /\ Head(cs) = cs[1] /\ cs[1].id \in CallIds
      /\ Tail(cs) \in Seq(Calls) /\ Len(Tail(cs)) = Len(cs) - 1
      /\ \A j \in 1..(Len(cs) - 1) : Tail(cs)[j] = cs[j + 1]
  BY DEF CallIds
<1>2. m \in Messages /\ m.role = "tool" /\ m.ids = <<cs[1].id>>
  BY <1>1, ToolMessages
<1> HIDE DEF m
<1>3. /\ g \in Seq(Messages) /\ n \in Nat /\ Len(g) = n + 1 /\ g[n + 1] = m
      /\ \A i \in 1..n : g[i] = h[i]
  BY <1>2, AppendProperties DEF m
<1>4. /\ a \in Seq(Messages) /\ Len(a) = Len(cs)
      /\ \A j \in 1..Len(cs) : a[j].role = "tool" /\ a[j].ids = <<cs[j].id>>
  BY AnswersFacts
<1>5. /\ b \in Seq(Messages) /\ Len(b) = Len(cs) - 1
      /\ \A j \in 1..(Len(cs) - 1) : b[j].role = "tool" /\ b[j].ids = <<cs[j + 1].id>>
  <2>1. /\ b \in Seq(Messages) /\ Len(b) = Len(Tail(cs))
        /\ \A j \in 1..Len(Tail(cs)) : b[j].role = "tool" /\ b[j].ids = <<Tail(cs)[j].id>>
    BY <1>1, AnswersFacts
  <2> HIDE DEF b
  <2> QED BY <1>1, <2>1
<1> HIDE DEF a, b, n
<1>6. JoinOf(Messages, h, a, u)
  BY <1>4, ConcatFacts
<1>7. JoinOf(Messages, g, b, v)
  BY <1>3, <1>5, ConcatFacts
<1>8. Paired(u)
  BY DEF a
<1> HIDE DEF u, v
<1>9. /\ u \in Seq(Messages) /\ Len(u) = n + Len(cs)
      /\ \A i \in 1..n : u[i] = h[i]
      /\ \A j \in 1..Len(cs) : u[n + j].role = "tool" /\ u[n + j].ids = <<cs[j].id>>
  BY <1>4, <1>6 DEF JoinOf, n
<1>10. /\ v \in Seq(Messages) /\ Len(v) = n + 1 + (Len(cs) - 1)
       /\ \A i \in 1..(n + 1) : v[i] = g[i]
       /\ \A j \in 1..(Len(cs) - 1) :
             v[n + 1 + j].role = "tool" /\ v[n + 1 + j].ids = <<cs[j + 1].id>>
  <2>1. /\ v \in Seq(Messages) /\ Len(v) = Len(g) + Len(b)
        /\ \A i \in 1..Len(g) : v[i] = g[i]
        /\ \A j \in 1..Len(b) : v[Len(g) + j] = b[j]
    BY <1>7 DEF JoinOf
  <2>2. ASSUME NEW j \in 1..(Len(cs) - 1)
        PROVE  v[n + 1 + j].role = "tool" /\ v[n + 1 + j].ids = <<cs[j + 1].id>>
    <3>1. j \in 1..Len(b) /\ v[Len(g) + j] = b[j]
      BY <1>5, <2>1
    <3>2. Len(g) + j = n + 1 + j
      BY <1>3
    <3> QED BY <1>5, <3>1, <3>2
  <2> QED BY <1>3, <1>5, <2>1, <2>2
<1>11. ASSUME NEW i \in 1..Len(u) PROVE u[i].role = v[i].role /\ u[i].ids = v[i].ids
  <2>1. CASE i <= n
    <3>1. i \in 1..n /\ i \in 1..(n + 1)
      BY <1>3, <1>9, <2>1
    <3> QED BY <1>3, <1>9, <1>10, <3>1
  <2>2. CASE i = n + 1
    <3>1. i \in 1..(n + 1) /\ 1 \in 1..Len(cs) /\ i = n + 1
      BY <1>1, <1>3, <2>2
    <3>2. u[i].role = "tool" /\ u[i].ids = <<cs[1].id>>
      BY <1>9, <3>1
    <3> QED BY <1>2, <1>3, <1>10, <3>1, <3>2
  <2>3. CASE i > n + 1
    <3> DEFINE j == i - n - 1
    <3>1. j \in 1..(Len(cs) - 1) /\ j + 1 \in 1..Len(cs) /\ i = n + 1 + j /\ i = n + (j + 1)
      BY <1>1, <1>3, <1>9, <2>3
    <3> HIDE DEF j
    <3>2. u[i].role = "tool" /\ u[i].ids = <<cs[j + 1].id>>
      BY <1>9, <3>1
    <3>3. v[i].role = "tool" /\ v[i].ids = <<cs[j + 1].id>>
      BY <1>10, <3>1
    <3> QED BY <3>2, <3>3
  <2>4. i \in Int /\ n \in Int
    BY <1>3
  <2> QED BY <2>1, <2>2, <2>3, <2>4
<1>12. Len(u) = Len(v)
  BY <1>1, <1>3, <1>9, <1>10
<1>13. Paired(v)
  BY <1>8, <1>9, <1>10, <1>11, <1>12, ShapePairs DEF SameShape
<1> QED BY <1>1, <1>3, <1>13 DEF v, b

\* The answer of the model goes to the history, and its calls are to be run.
LEMMA ResponsePairs ==
    ASSUME NEW h \in Seq(Messages), Paired(h), NEW cs \in Seq(Calls),
           NEW g, g = Append(h, AssistantMessage(CallsOf(cs)))
    PROVE  g \in Seq(Messages) /\ Paired(g \o Answers(cs))
<1> DEFINE n == Len(h)
           m == AssistantMessage(CallsOf(cs))
           a == Answers(cs)
           w == <<m>> \o a
           u == h \o w
           v == g \o a
<1>1. m \in Messages /\ w \in Seq(Messages) /\ Paired(w)
  BY ExchangeIsPaired
<1>2. a \in Seq(Messages) /\ Len(a) \in Nat
  BY AnswersFacts, LenProperties
<1> HIDE DEF m, a
<1>3. /\ Len(w) = Len(a) + 1 /\ w[1] = m
      /\ \A j \in 1..Len(a) : j + 1 \in 1..Len(w) /\ w[j + 1] = a[j]
  BY <1>1, <1>2, InFront
<1>4. /\ g \in Seq(Messages) /\ n \in Nat /\ Len(g) = n + 1 /\ g[n + 1] = m
      /\ \A i \in 1..n : g[i] = h[i]
  BY <1>1, AppendProperties DEF m
<1> HIDE DEF w, n
<1>5. Paired(u)
  BY <1>1, ConcatPairs
<1>6. JoinOf(Messages, h, w, u)
  BY <1>1, ConcatFacts
<1>7. JoinOf(Messages, g, a, v)
  BY <1>2, <1>4, ConcatFacts
<1> HIDE DEF u, v
<1>8. /\ u \in Seq(Messages) /\ Len(u) = n + (Len(a) + 1)
      /\ \A i \in 1..n : u[i] = h[i]
      /\ \A j \in 1..(Len(a) + 1) : u[n + j] = w[j]
  BY <1>3, <1>6 DEF JoinOf, n
<1>9. /\ v \in Seq(Messages) /\ Len(v) = n + 1 + Len(a)
      /\ \A i \in 1..(n + 1) : v[i] = g[i]
      /\ \A j \in 1..Len(a) : v[n + 1 + j] = a[j]
  BY <1>4, <1>7 DEF JoinOf
<1>10. ASSUME NEW i \in 1..Len(u) PROVE u[i] = v[i]
  <2>1. CASE i <= n
    <3>1. i \in 1..n /\ i \in 1..(n + 1)
      BY <1>4, <1>8, <2>1
    <3> QED BY <1>4, <1>8, <1>9, <3>1
  <2>2. CASE i = n + 1
    <3>1. i \in 1..(n + 1) /\ 1 \in 1..(Len(a) + 1)
      BY <1>2, <1>4, <2>2
    <3>2. u[n + 1] = w[1]
      BY <1>8, <3>1
    <3> QED BY <1>3, <1>4, <1>9, <2>2, <3>1, <3>2
  <2>3. CASE i > n + 1
    <3> DEFINE j == i - n - 1
    <3>1. j \in 1..Len(a) /\ j + 1 \in 1..(Len(a) + 1) /\ i = n + 1 + j /\ i = n + (j + 1)
      BY <1>2, <1>4, <1>8, <2>3
    <3> HIDE DEF j
    <3>2. u[i] = w[j + 1] /\ w[j + 1] = a[j]
      BY <1>3, <1>8, <3>1
    <3>3. v[i] = a[j]
      BY <1>9, <3>1
    <3> QED BY <3>2, <3>3
  <2>4. i \in Int /\ n \in Int
    BY <1>4
  <2> QED BY <2>1, <2>2, <2>3, <2>4
<1>11. Len(u) = Len(v)
  BY <1>2, <1>4, <1>8, <1>9
<1>12. Paired(v)
  BY <1>5, <1>8, <1>9, <1>10, <1>11, ShapePairs DEF SameShape
<1> QED BY <1>4, <1>12 DEF v, a

\* A question of the harness, and an answer without calls, are paired by themselves.
LEMMA PlainMessages ==
    /\ <<UserMessage>> \in Seq(Messages) /\ Paired(<<UserMessage>>)
    /\ <<AssistantMessage(<<>>), UserMessage>> \in Seq(Messages)
    /\ Paired(<<AssistantMessage(<<>>), UserMessage>>)
<1> DEFINE u == UserMessage
           a == AssistantMessage(<<>>)
<1>1. u \in Messages /\ u.role = "user"
  BY DEF UserMessage, Messages
<1>2. a \in Messages /\ a.role = "assistant" /\ a.ids = <<>>
  BY DEF AssistantMessage, Messages
<1> HIDE DEF u, a
<1>3. <<u>> \in Seq(Messages) /\ Len(<<u>>) = 1 /\ <<u>>[1] = u
  BY <1>1
<1>4. /\ <<a, u>> \in Seq(Messages) /\ Len(<<a, u>>) = 2
      /\ <<a, u>>[1] = a /\ <<a, u>>[2] = u
  BY <1>1, <1>2
<1>5. Paired(<<u>>)
  <2>1. \A i \in 1..Len(<<u>>) : <<u>>[i].role = "user"
    BY <1>1, <1>3
  <2> QED BY <1>3, <2>1, PairedFacts
<1>6. Paired(<<a, u>>)
  <2> DEFINE h == <<a, u>>
  <2>1. \A i \in 1..Len(h) : h[i].role # "tool" /\ (h[i].role = "assistant" => h[i].ids = <<>>)
    BY <1>1, <1>2, <1>4
  <2>2. h \in Seq(Messages) /\ Len(<<>>) = 0
    BY <1>4
  <2> HIDE DEF h
  <2>3. \A i \in 1..Len(h) : h[i].role = "assistant" => Len(h[i].ids) = 0
    BY <2>1, <2>2
  <2>4. \A i \in 1..Len(h) : h[i].role = "assistant" => 1..Len(h[i].ids) = {}
    BY <2>3
  <2>5. Paired(h)
    BY <2>1, <2>2, <2>4, PairedFacts
  <2> QED BY <2>5 DEF h
<1> QED BY <1>3, <1>4, <1>5, <1>6 DEF u, a

-----------------------------------------------------------------------------
\* The history is paired when a turn is asked for, and between the calls of a
\* response it will be once each of them has its result.
HistoryFits ==
    /\ at \in {"head", "model", "sleep"} => history \in Seq(Messages) /\ Paired(history)
    /\ at \in {"calls", "tool", "grace"} =>
          /\ history \in Seq(Messages) /\ calls \in Seq(Calls)
          /\ terminal \/ Paired(history \o Answers(calls))
    /\ at \in {"tool", "grace"} => calls # <<>>

\* Where a history is in use.
InTurn == {"head", "model", "sleep", "calls", "tool", "grace"}

\* A seat that is not in a turn has no history to keep.
LEMMA NotInTurn == at' \notin InTurn => HistoryFits'
BY DEF InTurn, HistoryFits

\* The history stays as it is while the seat waits where it was.
LEMMA StaysInTurn == HistoryFits /\ UNCHANGED <<at, history, calls, terminal>> => HistoryFits'
BY DEF HistoryFits

\* A run that ends leaves the turn.
LEMMA RunIsOver == ASSUME NEW how, EndRun(how) PROVE at' \notin InTurn
BY DEF EndRun, Leave, InTurn

\* The answers of the model are sequences of its calls.
LEMMA ResponseCalls == ASSUME NEW response \in Responses PROVE response \in Seq(Calls)
<1>1. response \in Seq(Ids(response))
  BY ActorAssumption
<1>2. Ids(response) \subseteq Calls
  BY DEF Calls
<1> QED BY <1>1, <1>2

\* A turn that is begun, asked for again, or answered without calls.
LEMMA TurnHistory ==
    ASSUME HistoryFits, ActorInv,
           \/ BeginStep \/ BadResponse \/ RetryTurn
           \/ \E r \in Requests : StartSession(r)
           \/ \E tokens \in Usages : NoCalls(tokens)
    PROVE  HistoryFits'
<1>1. CASE BeginStep \/ BadResponse \/ RetryTurn
  <2>1. history \in Seq(Messages) /\ Paired(history) /\ history' = history
    BY <1>1 DEF BeginStep, BadResponse, RetryTurn, HistoryFits
  <2>2. at' \in {"model", "sleep"}
    BY <1>1 DEF BeginStep, BadResponse, RetryTurn
  <2> QED BY <2>1, <2>2 DEF HistoryFits
<1>2. CASE \E r \in Requests : StartSession(r)
  <2>1. history' = <<UserMessage>> /\ at' = "head"
    BY <1>2 DEF StartSession
  <2> QED BY <2>1, PlainMessages DEF HistoryFits
<1>3. CASE \E tokens \in Usages : NoCalls(tokens)
  <2> DEFINE b == <<AssistantMessage(<<>>), UserMessage>>
  <2>1. history' = history \o b /\ at = "model" /\ at' = "head"
    BY <1>3 DEF NoCalls
  <2>2. b \in Seq(Messages) /\ Paired(b)
    BY PlainMessages
  <2> HIDE DEF b
  <2>3. history' \in Seq(Messages) /\ Paired(history')
    BY <2>1, <2>2, ConcatPairs DEF HistoryFits
  <2> QED BY <2>1, <2>3 DEF HistoryFits
<1> QED BY <1>1, <1>2, <1>3

\* A response with calls opens its exchange.
LEMMA CallsHistory ==
    ASSUME HistoryFits, ActorInv,
           NEW tokens \in Usages, NEW response \in Responses, TurnCalls(response, tokens)
    PROVE  HistoryFits'
<1>1. response \in Seq(Calls)
  BY ResponseCalls
<1>2. /\ at = "model" /\ at' = "calls" /\ calls' = response
      /\ history' = Append(history, AssistantMessage(CallsOf(response)))
  BY DEF TurnCalls, CallsOf
<1>3. history \in Seq(Messages) /\ Paired(history)
  BY <1>2 DEF HistoryFits
<1>4. history' \in Seq(Messages) /\ Paired(history' \o Answers(calls'))
  BY <1>1, <1>2, <1>3, ResponsePairs
<1> QED BY <1>1, <1>2, <1>4 DEF HistoryFits

\* A call that gets its result, in order, or ends the response.
LEMMA ResultHistory ==
    ASSUME HistoryFits, calls # <<>>, at \in {"calls", "tool", "grace"}, ~terminal,
           NEW ok \in BOOLEAN, history' = Append(history, ToolMessage(Head(calls).id, ok)),
           at' = "calls",
           calls' = Tail(calls) \/ (calls' = <<>> /\ terminal')
    PROVE  HistoryFits'
<1>1. history \in Seq(Messages) /\ calls \in Seq(Calls) /\ Paired(history \o Answers(calls))
  BY DEF HistoryFits
<1>2. /\ history' \in Seq(Messages) /\ Tail(calls) \in Seq(Calls)
      /\ Paired(history' \o Answers(Tail(calls)))
  BY <1>1, ResultPairs
<1>3. CASE calls' = Tail(calls)
  BY <1>2, <1>3 DEF HistoryFits
<1>4. CASE calls' = <<>> /\ terminal'
  <2>1. <<>> \in Seq(Calls)
    OBVIOUS
  <2> QED BY <1>2, <1>4, <2>1 DEF HistoryFits
<1> QED BY <1>3, <1>4

\* Calls that are refused, started, timed out, or answered.
LEMMA ToolHistory ==
    ASSUME HistoryFits, ActorInv,
           \/ BadCall \/ StartTool \/ ToolTimesOut \/ ToolGraceEnds
           \/ \E ok \in BOOLEAN : ToolReturns(ok)
           \/ \E patch \in Patches : UpdatePrivateState(patch) \/ UpdateBeliefs(patch)
    PROVE  HistoryFits'
<1>1. CASE BadCall
  <2>1. /\ calls # <<>> /\ at = "calls" /\ at' = "calls" /\ calls' = Tail(calls)
        /\ history' = Append(history, ToolMessage(Head(calls).id, FALSE))
    BY <1>1 DEF BadCall, seatVars
  <2>2. ~terminal
    BY <2>1 DEF ActorInv, SessionKnowsItsEnd
  <2> QED BY <2>1, <2>2, ResultHistory
<1>2. CASE StartTool
  <2>1. calls # <<>> /\ at = "calls" /\ at' = "tool" /\ UNCHANGED <<history, calls, terminal>>
    BY <1>2 DEF StartTool
  <2> QED BY <2>1 DEF HistoryFits
<1>3. CASE ToolTimesOut
  <2>1. at = "tool" /\ at' = "grace" /\ UNCHANGED <<history, calls, terminal>>
    BY <1>3 DEF ToolTimesOut, sessionVars
  <2> QED BY <2>1 DEF HistoryFits
<1>4. ASSUME ToolGraceEnds \/ \E ok \in BOOLEAN : ToolReturns(ok)
             \/ \E patch \in Patches : UpdatePrivateState(patch) \/ UpdateBeliefs(patch)
      PROVE  HistoryFits'
  <2>1. at \in {"tool", "grace"} /\ \E ok \in BOOLEAN : ToolResult(ok)
    BY <1>4 DEF ToolGraceEnds, ToolReturns, UpdatePrivateState, UpdateBeliefs, Revise
  <2>2. PICK ok \in BOOLEAN : ToolResult(ok)
    BY <2>1
  <2>3. calls # <<>> /\ ~terminal
    BY <2>1 DEF HistoryFits, ActorInv, SessionKnowsItsEnd
  <2>4. /\ history' = Append(history, ToolMessage(Head(calls).id, ok)) /\ at' = "calls"
        /\ calls' = Tail(calls) \/ (calls' = <<>> /\ terminal')
    BY <2>2 DEF ToolResult, CallsAfter
  <2> QED BY <2>1, <2>3, <2>4, ResultHistory
<1> QED BY <1>1, <1>2, <1>3, <1>4

\* With all its calls answered a response ends, and the next step begins.
LEMMA TurnEndsHistory == ASSUME HistoryFits, TurnEnds PROVE HistoryFits'
<1>1. CASE terminal
  BY <1>1, RunIsOver, NotInTurn DEF TurnEnds
<1>2. CASE ~terminal
  <2>1. at = "calls" /\ calls = <<>> /\ at' = "head" /\ history' = history
    BY <1>2 DEF TurnEnds
  <2>2. history \in Seq(Messages) /\ Paired(history \o Answers(<<>>))
    BY <1>2, <2>1 DEF HistoryFits
  <2>3. Answers(<<>>) = <<>>
    BY DEF Answers
  <2>4. history \o <<>> = history
    BY <2>2, ConcatEmptySeq
  <2>5. Paired(history)
    BY <2>2, <2>3, <2>4
  <2> QED BY <2>1, <2>2, <2>5 DEF HistoryFits
<1> QED BY <1>1, <1>2

\* No step of the seat breaks the pairing.
LEMMA HistoryStep == ActorInv /\ HistoryFits /\ [Next]_vars => HistoryFits'
<1> SUFFICES ASSUME ActorInv, HistoryFits, [Next]_vars PROVE HistoryFits'
  OBVIOUS
<1>1. CASE \E r \in Requests : Submit(r) \/ Reject(r) \/ CancelWaiting(r)
  BY <1>1, StaysInTurn DEF Submit, Reject, CancelWaiting, sessionVars
<1>2. CASE HumanNext
  <2>1. CASE Enqueue \/ PageAnswers
    BY <2>1, StaysInTurn DEF Enqueue, PageAnswers, seatVars, sessionVars
  <2>2. CASE ~(Enqueue \/ PageAnswers)
    <3>1. at' \notin InTurn
      BY <1>2, <2>2 DEF HumanNext, AskHuman, Published, PublishFails, TakeAction, UnmappedAction, HumanTimeout,
                        Expired, CancelHuman, Leave, InTurn
    <3> QED BY <3>1, NotInTurn
  <2> QED BY <2>1, <2>2
<1>3. CASE SessionNext
  <2>1. CASE \/ BeginStep \/ BadResponse \/ RetryTurn
             \/ \E r \in Requests : StartSession(r)
             \/ \E tokens \in Usages : NoCalls(tokens)
    BY <2>1, TurnHistory
  <2>2. CASE \E tokens \in Usages : \E response \in Responses : TurnCalls(response, tokens)
    BY <2>2, CallsHistory
  <2>3. CASE \/ BadCall \/ StartTool \/ ToolTimesOut \/ ToolGraceEnds
             \/ \E ok \in BOOLEAN : ToolReturns(ok)
             \/ \E patch \in Patches : UpdatePrivateState(patch) \/ UpdateBeliefs(patch)
    BY <2>3, ToolHistory
  <2>4. CASE TurnEnds
    BY <2>4, TurnEndsHistory
  <2>5. CASE GiveUp \/ TurnFails \/ CallsExhausted \/ CancelGraceEnds
             \/ \E tokens \in Usages : TokensSpent(tokens)
    <3>1. \E how \in {"failed", "cancelled"} : EndRun(how)
      BY <2>5 DEF GiveUp, TurnFails, CallsExhausted, CancelGraceEnds, TokensSpent
    <3> QED BY <3>1, RunIsOver, NotInTurn
  <2>6. CASE CancelSession
    <3>1. CASE at = "closing"
      BY <2>6, <3>1, NotInTurn DEF CancelSession, Leave, InTurn
    <3>2. CASE at # "closing"
      BY <2>6, <3>2, RunIsOver, NotInTurn DEF CancelSession
    <3> QED BY <3>1, <3>2
  <2>7. CASE CloseClean \/ CloseGraceEnds \/ CancelTool
    BY <2>7, NotInTurn DEF CloseClean, CloseGraceEnds, CancelTool, Leave, InTurn
  <2>8. CASE \E h \in handlers : HandlerEnds(h)
    BY <2>8, StaysInTurn DEF HandlerEnds, seatVars, sessionVars
  <2> QED BY <1>3, <2>1, <2>2, <2>3, <2>4, <2>5, <2>6, <2>7, <2>8 DEF SessionNext
<1>4. CASE UNCHANGED vars
  BY <1>4, StaysInTurn DEF vars, seatVars, sessionVars
<1> QED BY <1>1, <1>2, <1>3, <1>4 DEF Next

\* Each model turn is sent a history in which the calls of a response are
\* followed by their results, and no result stands alone: however much of it
\* was replaced by summaries to fit, and whatever calls were refused, timed
\* out or failed before (AgentSession._model_history_view).
THEOREM TurnsSeePairs == Spec => []ModelSeesPairedHistory
<1>1. Init => HistoryFits
  BY DEF Init, HistoryFits
<1>2. HistoryFits => ModelSeesPairedHistory
  BY ViewIsPaired DEF HistoryFits, ModelSeesPairedHistory
<1>3. ActorInv /\ HistoryFits /\ [Next]_vars => (ActorInv /\ HistoryFits)'
  BY ActorStep, HistoryStep
<1> QED BY <1>1, <1>2, <1>3, ActorInit, PTL DEF Spec

-----------------------------------------------------------------------------
(* The sums and the projection of the beliefs.                               *)

\* What holds of the empty set, and of a set and one more element, holds of
\* every subset of a finite set.
LEMMA SubsetInduction ==
    ASSUME NEW D, IsFiniteSet(D), NEW P, {} \in P,
           \A A \in SUBSET D : \A x \in D \ A : A \in P => A \cup {x} \in P
    PROVE  SUBSET D \subseteq P
<1> DEFINE N == {n \in Nat : \A A \in SUBSET D : Cardinality(A) = n => A \in P}
<1>1. 0 \in N
  <2> SUFFICES ASSUME NEW A \in SUBSET D, Cardinality(A) = 0 PROVE A \in P
    OBVIOUS
  <2>1. A = {}
    BY FS_Subset, FS_EmptySet
  <2> QED BY <2>1
<1>2. \A n \in N : n + 1 \in N
  <2> SUFFICES ASSUME NEW n \in N, NEW A \in SUBSET D, Cardinality(A) = n + 1 PROVE A \in P
    OBVIOUS
  <2>1. n \in Nat /\ n + 1 # 0 /\ (n + 1) - 1 = n
    OBVIOUS
  <2>2. IsFiniteSet(A)
    BY FS_Subset
  <2>3. PICK x \in A : TRUE
    BY <2>1, FS_EmptySet
  <2>4. Cardinality(A \ {x}) = n
    BY <2>1, <2>2, <2>3, FS_RemoveElement
  <2>5. A \ {x} \in SUBSET D /\ x \in D \ (A \ {x}) /\ (A \ {x}) \cup {x} = A
    BY <2>3
  <2>6. A \ {x} \in P
    BY <2>4, <2>5
  <2> QED BY <2>5, <2>6
<1>3. N \in SUBSET Nat
  OBVIOUS
<1> HIDE DEF N
<1>4. N = Nat
  BY <1>1, <1>2, <1>3, NumbersInduction
<1> SUFFICES ASSUME NEW A \in SUBSET D PROVE A \in P
  OBVIOUS
<1>5. Cardinality(A) \in Nat
  BY FS_Subset, FS_CardinalityType
<1> QED BY <1>4, <1>5 DEF N

\* A function on the subsets of D is given where the recursion stops, and
\* elsewhere computed from what it is for a smaller subset.
IsSmaller(D, stop, pred) ==
    \A T \in SUBSET D : T \notin stop => pred[T] \in SUBSET T /\ pred[T] # T
IsComputed(D, stop, val, next, pred, g) ==
    \A T \in SUBSET D : g[T] = IF T \in stop THEN val[T] ELSE next[T][g[pred[T]]]

\* There is one, if D is finite.
LEMMA SubsetRecursion ==
    ASSUME NEW D, IsFiniteSet(D), NEW V, NEW stop, NEW pred,
           NEW val \in [SUBSET D -> V], NEW next \in [SUBSET D -> [V -> V]],
           IsSmaller(D, stop, pred)
    PROVE  \E g \in [SUBSET D -> V] : IsComputed(D, stop, val, next, pred, g)
<1> USE DEF IsSmaller
<1> DEFINE At(g, T) == IF T \in stop THEN val[T] ELSE next[T][g[pred[T]]]
           N == {n \in Nat : \E g \in [SUBSET D -> V] : \A T \in SUBSET D :
                                  Cardinality(T) <= n => g[T] = At(g, T)}
<1>1. \A T \in SUBSET D : IsFiniteSet(T) /\ Cardinality(T) \in Nat /\ Cardinality(T) <= Cardinality(D)
  BY FS_Subset, FS_CardinalityType
<1>2. 0 \in N
  <2>1. \A T \in SUBSET D : Cardinality(T) <= 0 => val[T] = At(val, T)
    <3> SUFFICES ASSUME NEW T \in SUBSET D, Cardinality(T) <= 0 PROVE T \in stop
      OBVIOUS
    <3>1. Cardinality(T) = 0
      BY <1>1
    <3>2. T = {}
      BY <1>1, <3>1, FS_EmptySet
    <3>3. T \notin stop => pred[T] \in SUBSET T /\ pred[T] # T
      OBVIOUS
    <3> QED BY <3>2, <3>3
  <2> HIDE DEF At
  <2> QED BY <2>1
<1>3. \A n \in N : n + 1 \in N
  <2> SUFFICES ASSUME NEW n \in N PROVE n + 1 \in N
    OBVIOUS
  <2>1. n \in Nat
    OBVIOUS
  <2>2. PICK g \in [SUBSET D -> V] : \A T \in SUBSET D : Cardinality(T) <= n => g[T] = At(g, T)
    OBVIOUS
  <2> DEFINE h == [T \in SUBSET D |-> At(g, T)]
  <2>3. ASSUME NEW T \in SUBSET D, T \notin stop PROVE pred[T] \in SUBSET D /\ next[T][g[pred[T]]] \in V
    BY <2>3
  <2>4. h \in [SUBSET D -> V]
    BY <2>3
  <2>5. ASSUME NEW T \in SUBSET D, Cardinality(T) <= n + 1 PROVE h[T] = At(h, T)
    <3>1. CASE T \in stop
      BY <3>1
    <3>2. CASE T \notin stop
      <4>1. pred[T] \in SUBSET T /\ pred[T] # T /\ pred[T] \in SUBSET D
        BY <3>2
      <4>2. Cardinality(pred[T]) <= Cardinality(T) /\ Cardinality(pred[T]) # Cardinality(T)
        BY <1>1, <4>1, FS_Subset
      <4>3. Cardinality(pred[T]) <= n
        BY <1>1, <2>1, <2>5, <4>1, <4>2
      <4>4. g[pred[T]] = h[pred[T]]
        <5> HIDE DEF At
        <5> QED BY <2>2, <4>1, <4>3
      <4> HIDE DEF h
      <4>5. At(h, T) = At(g, T)
        BY <3>2, <4>4
      <4> QED BY <4>5 DEF h
    <3> QED BY <3>1, <3>2
  <2> HIDE DEF h, At
  <2> QED BY <2>1, <2>4, <2>5
<1>4. N \in SUBSET Nat
  OBVIOUS
<1> HIDE DEF N
<1>5. N = Nat
  BY <1>2, <1>3, <1>4, NumbersInduction
<1>6. Cardinality(D) \in N
  BY <1>5, <1>1
<1> USE DEF N
<1>7. PICK g \in [SUBSET D -> V] : \A T \in SUBSET D :
           Cardinality(T) <= Cardinality(D) => g[T] = At(g, T)
  BY <1>6
<1> QED BY <1>1, <1>7 DEF IsComputed

\* The function that Total evaluates.
Sums(f) ==
    LET Sum[T \in SUBSET DOMAIN f] ==
          IF T = {} THEN 0
          ELSE LET s == CHOOSE t \in T : TRUE IN f[s] + Sum[T \ {s}]
    IN Sum
Some(T) == CHOOSE t \in T : TRUE
SumAt(f, g, T) == IF T = {} THEN 0 ELSE f[Some(T)] + g[T \ {Some(T)}]

\* A sum is that of an element and of the rest.
LEMMA SumsStep ==
    ASSUME NEW D, IsFiniteSet(D), NEW f \in [D -> Int]
    PROVE  \A T \in SUBSET D :
               Total(f, T) = IF T = {} THEN 0 ELSE f[Some(T)] + Total(f, T \ {Some(T)})
<1> DEFINE g == CHOOSE h : h = [T \in SUBSET D |-> SumAt(f, h, T)]
           val == [T \in SUBSET D |-> 0]
           pred == [T \in SUBSET D |-> T \ {Some(T)}]
           stop == {{}}
           step == [T \in SUBSET D |-> [v \in Int |-> IF T = {} THEN 0 ELSE f[Some(T)] + v]]
<1>1. DOMAIN f = D
  OBVIOUS
<1>2. Sums(f) = g
  BY <1>1 DEF Sums, SumAt, Some, g
<1>3. \A T \in SUBSET D : T # {} => Some(T) \in T
  BY DEF Some
<1>4. val \in [SUBSET D -> Int]
  OBVIOUS
<1>5. step \in [SUBSET D -> [Int -> Int]]
  <2> SUFFICES ASSUME NEW T \in SUBSET D, NEW v \in Int
               PROVE  (IF T = {} THEN 0 ELSE f[Some(T)] + v) \in Int
    OBVIOUS
  <2> QED BY <1>3
<1>6. IsSmaller(D, stop, pred)
  BY <1>3 DEF IsSmaller
<1> HIDE DEF val, pred, step, stop, g
<1>7. PICK h \in [SUBSET D -> Int] : IsComputed(D, stop, val, step, pred, h)
  BY <1>4, <1>5, <1>6, SubsetRecursion
<1>8. \A T \in SUBSET D : h[T] = SumAt(f, h, T)
  <2> SUFFICES ASSUME NEW T \in SUBSET D PROVE h[T] = SumAt(f, h, T)
    OBVIOUS
  <2>1. CASE T = {}
    BY <1>7, <2>1 DEF val, stop, SumAt, IsComputed
  <2>2. CASE T # {}
    <3>1. h[T] = step[T][h[pred[T]]]
      BY <1>7, <2>2 DEF stop, IsComputed
    <3>2. pred[T] = T \ {Some(T)} /\ pred[T] \in SUBSET D
      BY <1>3, <2>2 DEF pred
    <3>3. step[T][h[pred[T]]] = f[Some(T)] + h[T \ {Some(T)}]
      BY <2>2, <3>2 DEF step
    <3> QED BY <2>2, <3>1, <3>3 DEF SumAt
  <2> QED BY <2>1, <2>2
<1>9. h = [T \in SUBSET D |-> SumAt(f, h, T)]
  BY <1>8
<1>10. g = [T \in SUBSET D |-> SumAt(f, g, T)]
  BY <1>9 DEF g
<1>11. \A T \in SUBSET D : Sums(f)[T] = SumAt(f, Sums(f), T)
  BY <1>2, <1>10
<1>12. \A T : Total(f, T) = Sums(f)[T]
  BY DEF Total, Sums
<1> QED BY <1>11, <1>12 DEF SumAt

\* The sum of integers is one.
LEMMA SumType ==
    ASSUME NEW D, IsFiniteSet(D), NEW f \in [D -> Int], NEW T \in SUBSET D
    PROVE  Total(f, T) \in Int
<1> DEFINE N == {n \in Nat : \A A \in SUBSET D : Cardinality(A) = n => Total(f, A) \in Int}
<1>1. \A A \in SUBSET D : IsFiniteSet(A) /\ Cardinality(A) \in Nat
  BY FS_Subset, FS_CardinalityType
<1>2. 0 \in N
  <2> SUFFICES ASSUME NEW A \in SUBSET D, Cardinality(A) = 0 PROVE Total(f, A) \in Int
    OBVIOUS
  <2>1. A = {}
    BY <1>1, FS_EmptySet
  <2> QED BY <2>1, SumsStep
<1>3. \A n \in N : n + 1 \in N
  <2> SUFFICES ASSUME NEW n \in N, NEW A \in SUBSET D, Cardinality(A) = n + 1
               PROVE  Total(f, A) \in Int
    OBVIOUS
  <2>1. n \in Nat /\ n + 1 # 0 /\ (n + 1) - 1 = n
    OBVIOUS
  <2>2. A # {}
    BY <2>1, FS_EmptySet
  <2>3. Some(A) \in A
    BY <2>2 DEF Some
  <2>4. Cardinality(A \ {Some(A)}) = n /\ A \ {Some(A)} \in SUBSET D
    <3>1. IsFiniteSet(A)
      BY <1>1
    <3>2. Cardinality(A \ {Some(A)}) = Cardinality(A) - 1
      BY <2>3, <3>1, FS_RemoveElement
    <3> QED BY <2>1, <3>2
  <2>5. Total(f, A \ {Some(A)}) \in Int /\ f[Some(A)] \in Int
    BY <2>3, <2>4
  <2>6. Total(f, A) = f[Some(A)] + Total(f, A \ {Some(A)})
    BY <2>2, SumsStep
  <2> QED BY <2>5, <2>6
<1>4. N \in SUBSET Nat
  OBVIOUS
<1> HIDE DEF N
<1>5. N = Nat
  BY <1>2, <1>3, <1>4, NumbersInduction
<1> QED BY <1>1, <1>5 DEF N

\* Whichever element is taken first.
LEMMA SumTakes ==
    ASSUME NEW D, IsFiniteSet(D), NEW f \in [D -> Int]
    PROVE  \A T \in SUBSET D : \A x \in T : Total(f, T) = f[x] + Total(f, T \ {x})
<1> DEFINE N == {n \in Nat : \A A \in SUBSET D : Cardinality(A) = n =>
                                 \A x \in A : Total(f, A) = f[x] + Total(f, A \ {x})}
<1>1. \A A \in SUBSET D : IsFiniteSet(A) /\ Cardinality(A) \in Nat /\ Total(f, A) \in Int
  BY FS_Subset, FS_CardinalityType, SumType
<1>2. 0 \in N
  <2>1. \A A \in SUBSET D : Cardinality(A) = 0 => A = {}
    BY <1>1, FS_EmptySet
  <2> QED BY <2>1
<1>3. \A n \in N : n + 1 \in N
  <2> SUFFICES ASSUME NEW n \in N PROVE n + 1 \in N
    OBVIOUS
  <2>1. n \in Nat /\ (n + 1) - 1 = n /\ n + 1 \in Nat
    OBVIOUS
  <2> SUFFICES ASSUME NEW A \in SUBSET D, Cardinality(A) = n + 1, NEW x \in A
               PROVE  Total(f, A) = f[x] + Total(f, A \ {x})
    BY <2>1
  <2>2. Some(A) \in A
    BY DEF Some
  <2> DEFINE s == Some(A)
             B == A \ {s}
             C == A \ {x}
             E == A \ {s, x}
  <2>3. Total(f, A) = f[s] + Total(f, B)
    BY SumsStep
  <2>4. CASE s = x
    BY <2>3, <2>4
  <2>5. CASE s # x
    <3>1. Cardinality(B) = n /\ Cardinality(C) = n
      <4>1. IsFiniteSet(A)
        BY <1>1
      <4>2. Cardinality(A \ {s}) = Cardinality(A) - 1 /\ Cardinality(A \ {x}) = Cardinality(A) - 1
        BY <2>2, <4>1, FS_RemoveElement
      <4> QED BY <2>1, <4>2
    <3>2. B \in SUBSET D /\ C \in SUBSET D /\ x \in B /\ s \in C /\ B \ {x} = E /\ C \ {s} = E /\ E \in SUBSET D
      BY <2>2, <2>5
    <3> HIDE DEF s, B, C, E
    <3>3. Total(f, B) = f[x] + Total(f, E)
      BY <3>1, <3>2
    <3>4. Total(f, C) = f[s] + Total(f, E)
      BY <3>1, <3>2
    <3>5. f[x] \in Int /\ f[s] \in Int /\ Total(f, E) \in Int
      BY <1>1, <3>2
    <3>6. Total(f, A) = f[x] + Total(f, C)
      BY <2>3, <3>3, <3>4, <3>5
    <3> QED BY <3>6 DEF C
  <2> QED BY <2>4, <2>5
<1>4. N \in SUBSET Nat
  OBVIOUS
<1> HIDE DEF N
<1>5. N = Nat
  BY <1>2, <1>3, <1>4, NumbersInduction
<1> QED BY <1>1, <1>5 DEF N

\* Sums grow by the elements that are added.
LEMMA SumAdds ==
    ASSUME NEW D, IsFiniteSet(D), NEW f \in [D -> Int]
    PROVE  /\ Total(f, {}) = 0
           /\ \A A \in SUBSET D : \A x \in D \ A : Total(f, A \cup {x}) = f[x] + Total(f, A)
<1>1. Total(f, {}) = 0
  BY SumsStep
<1> SUFFICES ASSUME NEW A \in SUBSET D, NEW x \in D \ A PROVE Total(f, A \cup {x}) = f[x] + Total(f, A)
  BY <1>1
<1>2. A \cup {x} \in SUBSET D /\ x \in A \cup {x} /\ (A \cup {x}) \ {x} = A
  OBVIOUS
<1> QED BY <1>2, SumTakes

\* Products of integers.
LEMMA Distributes ==
    ASSUME NEW a \in Int, NEW b \in Int, NEW c \in Int
    PROVE  /\ a * (b + c) = a * b + a * c
           /\ (a + b) * c = a * c + b * c
           /\ a * b \in Int /\ a * b = b * a
OBVIOUS

\* A sum of what is linear in another sum's elements is linear in that sum.
LEMMA SumLinear ==
    ASSUME NEW D, IsFiniteSet(D), NEW f \in [D -> Int], NEW E, IsFiniteSet(E), NEW h \in [E -> Int],
           NEW r \in Int, NEW c \in Int, NEW S \in SUBSET D, S \in SUBSET E,
           \A s \in S : h[s] = r * f[s] + c
    PROVE  Total(h, S) = r * Total(f, S) + c * Cardinality(S)
<1> DEFINE P == {A \in SUBSET S : Total(h, A) = r * Total(f, A) + c * Cardinality(A)}
<1>1. IsFiniteSet(S)
  BY FS_Subset
<1>2. {} \in P
  BY SumAdds, FS_EmptySet
<1>3. ASSUME NEW A \in SUBSET S, NEW x \in S \ A, A \in P PROVE A \cup {x} \in P
  <2> DEFINE n == Cardinality(A)
             g == Total(f, A)
             k == Total(h, A)
  <2>1. n \in Nat /\ Cardinality(A \cup {x}) = n + 1
    <3>1. IsFiniteSet(A)
      BY <1>1, FS_Subset
    <3> QED BY <3>1, FS_AddElement, FS_CardinalityType
  <2>2. A \in SUBSET D /\ A \in SUBSET E /\ x \in D \ A /\ x \in E \ A
    BY <1>3
  <2>3. g \in Int /\ k \in Int /\ f[x] \in Int /\ h[x] \in Int
    BY <2>2, SumType
  <2>4. Total(f, A \cup {x}) = f[x] + g /\ Total(h, A \cup {x}) = h[x] + k
    BY <2>2, SumAdds
  <2>5. k = r * g + c * n /\ h[x] = r * f[x] + c
    BY <1>3
  <2> HIDE DEF n, g, k, P
  <2>6. r * (f[x] + g) = r * f[x] + r * g /\ c * (n + 1) = c * n + c
    BY <2>1, <2>3
  <2>7. r * f[x] \in Int /\ r * g \in Int /\ c * n \in Int
    BY <2>1, <2>3
  <2>8. h[x] + k = r * (f[x] + g) + c * (n + 1)
    BY <2>5, <2>6, <2>7
  <2> QED BY <2>1, <2>4, <2>8 DEF P
<1> HIDE DEF P
<1>4. SUBSET S \subseteq P
  BY <1>1, <1>2, <1>3, SubsetInduction
<1> QED BY <1>4 DEF P

\* A sum is at least what each of its elements is, times their number.
LEMMA SumAtLeast ==
    ASSUME NEW D, IsFiniteSet(D), NEW f \in [D -> Int], NEW r \in Int, NEW c \in Int,
           NEW S \in SUBSET D, \A s \in S : r * f[s] >= c
    PROVE  r * Total(f, S) >= c * Cardinality(S)
<1> DEFINE P == {A \in SUBSET S : r * Total(f, A) >= c * Cardinality(A)}
<1>1. IsFiniteSet(S)
  BY FS_Subset
<1>2. {} \in P
  BY SumAdds, FS_EmptySet
<1>3. ASSUME NEW A \in SUBSET S, NEW x \in S \ A, A \in P PROVE A \cup {x} \in P
  <2> DEFINE n == Cardinality(A)
             g == Total(f, A)
  <2>1. n \in Nat /\ Cardinality(A \cup {x}) = n + 1
    <3>1. IsFiniteSet(A)
      BY <1>1, FS_Subset
    <3> QED BY <3>1, FS_AddElement, FS_CardinalityType
  <2>2. A \in SUBSET D /\ x \in D \ A
    BY <1>3
  <2>3. g \in Int /\ f[x] \in Int
    BY <2>2, SumType
  <2>4. Total(f, A \cup {x}) = f[x] + g
    BY <2>2, SumAdds
  <2>5. r * g >= c * n /\ r * f[x] >= c
    BY <1>3
  <2> HIDE DEF n, g, P
  <2>6. r * (f[x] + g) = r * f[x] + r * g /\ c * (n + 1) = c * n + c
    BY <2>1, <2>3
  <2>7. r * f[x] \in Int /\ r * g \in Int /\ c * n \in Int
    BY <2>1, <2>3
  <2>8. r * (f[x] + g) >= c * (n + 1)
    BY <2>5, <2>6, <2>7
  <2> QED BY <2>1, <2>4, <2>8 DEF P
<1> HIDE DEF P
<1>4. SUBSET S \subseteq P
  BY <1>1, <1>2, <1>3, SubsetInduction
<1> QED BY <1>4 DEF P

\* The sum over two sets that have no element in common.
LEMMA SumUnion ==
    ASSUME NEW D, IsFiniteSet(D), NEW f \in [D -> Int], NEW S \in SUBSET D, NEW T \in SUBSET D,
           S \cap T = {}
    PROVE  Total(f, S \cup T) = Total(f, S) + Total(f, T)
<1> DEFINE P == {A \in SUBSET T : Total(f, S \cup A) = Total(f, S) + Total(f, A)}
<1>1. IsFiniteSet(T)
  BY FS_Subset
<1>2. {} \in P
  <2>1. Total(f, S) \in Int /\ Total(f, {}) = 0
    BY SumAdds, SumType
  <2>2. S \cup {} = S
    OBVIOUS
  <2> QED BY <2>1, <2>2
<1>3. ASSUME NEW A \in SUBSET T, NEW x \in T \ A, A \in P PROVE A \cup {x} \in P
  <2>1. A \in SUBSET D /\ S \cup A \in SUBSET D /\ x \in D \ A /\ x \in D \ (S \cup A)
    BY <1>3
  <2> DEFINE B == S \cup A
             C == A \cup {x}
  <2> HIDE DEF B
  <2>2. Total(f, S) \in Int /\ Total(f, A) \in Int /\ Total(f, B) \in Int /\ f[x] \in Int
    BY <2>1, SumType DEF B
  <2>3. Total(f, C) = f[x] + Total(f, A)
    BY <2>1, SumAdds
  <2>4. Total(f, B \cup {x}) = f[x] + Total(f, B)
    <3>1. B \in SUBSET D /\ x \in D \ B
      BY <2>1 DEF B
    <3> QED BY <3>1, SumAdds
  <2>5. B \cup {x} = S \cup C
    BY DEF B
  <2>6. Total(f, B) = Total(f, S) + Total(f, A)
    BY <1>3 DEF B
  <2> HIDE DEF C
  <2>7. Total(f, S \cup C) = Total(f, S) + Total(f, C)
    <3>1. Total(f, S \cup C) = Total(f, B \cup {x})
      BY <2>5
    <3>2. Total(f, B \cup {x}) = f[x] + (Total(f, S) + Total(f, A))
      BY <2>4, <2>6
    <3>3. f[x] + (Total(f, S) + Total(f, A)) = Total(f, S) + (f[x] + Total(f, A))
      BY <2>2
    <3> QED BY <2>3, <3>1, <3>2, <3>3
  <2> QED BY <1>3, <2>7 DEF C
<1> HIDE DEF P
<1>4. \A A \in SUBSET T : \A x \in T \ A : A \in P => A \cup {x} \in P
  BY <1>3
<1>5. SUBSET T \subseteq P
  BY ONLY <1>1, <1>2, <1>4, SubsetInduction
<1> QED BY <1>5 DEF P

\* The sum of naturals is one; a sum of equal elements is their product.
LEMMA SumBounds ==
    ASSUME NEW D, IsFiniteSet(D), NEW f \in [D -> Int], NEW S \in SUBSET D
    PROVE  /\ (\A s \in S : f[s] >= 0) => Total(f, S) >= 0
           /\ \A c \in Int : (\A s \in S : f[s] = c) => Total(f, S) = c * Cardinality(S)
<1>1. Total(f, S) \in Int /\ \A s \in S : f[s] \in Int
  BY SumType
<1>2. Cardinality(S) \in Nat
  BY FS_Subset, FS_CardinalityType
<1>3. ASSUME \A s \in S : f[s] >= 0 PROVE Total(f, S) >= 0
  <2>1. \A s \in S : 1 * f[s] >= 0
    BY <1>1, <1>3
  <2>2. 1 * Total(f, S) >= 0 * Cardinality(S)
    BY <2>1, SumAtLeast
  <2> QED BY <1>1, <1>2, <2>2
<1>4. ASSUME NEW c \in Int, \A s \in S : f[s] = c PROVE Total(f, S) = c * Cardinality(S)
  <2>1. \A s \in S : f[s] = 0 * f[s] + c
    BY <1>1, <1>4
  <2>2. Total(f, S) = 0 * Total(f, S) + c * Cardinality(S)
    BY <2>1, SumLinear
  <2>3. c * Cardinality(S) \in Int
    BY <1>2
  <2> QED BY <1>1, <2>2, <2>3
<1> QED BY <1>3, <1>4

\* A sum of multiples.
LEMMA SumScales ==
    ASSUME NEW D, IsFiniteSet(D), NEW f \in [D -> Int], NEW h \in [D -> Int], NEW r \in Int,
           \A s \in D : h[s] = r * f[s]
    PROVE  Total(h, D) = r * Total(f, D)
<1>1. D \in SUBSET D /\ 0 \in Int
  OBVIOUS
<1>2. \A s \in D : h[s] = r * f[s] + 0
  OBVIOUS
<1>3. Total(h, D) = r * Total(f, D) + 0 * Cardinality(D)
  BY <1>1, <1>2, SumLinear
<1>4. Total(f, D) \in Int /\ Cardinality(D) \in Nat
  BY <1>1, SumType, FS_CardinalityType
<1>5. r * Total(f, D) \in Int
  BY <1>4
<1> QED BY <1>3, <1>4, <1>5

\* What is left to place among the seats of A, the ones whose share reaches 1,
\* and the function that ProjectMass evaluates.
Left(U, target, A) == target - Cardinality(U \ A)
Full(w, U, target, A) == {s \in A : Left(U, target, A) * w[s] >= Total(w, A)}
Actives(w, U, target) ==
    LET Remaining(A) == target - Cardinality(U \ A)
        Saturated(A) == {s \in A : Remaining(A) * w[s] >= Total(w, A)}
        Active[A \in SUBSET U] ==
            IF Total(w, A) = 0 \/ Saturated(A) = {} THEN A ELSE Active[A \ Saturated(A)]
    IN Active
IsSettled(w, U, target, A) == Total(w, A) = 0 \/ Full(w, U, target, A) = {}
ActiveAt(w, U, target, g, A) ==
    IF IsSettled(w, U, target, A) THEN A ELSE g[A \ Full(w, U, target, A)]

\* Rounds follow each other until no share reaches 1.
LEMMA ActiveStep ==
    ASSUME NEW w, NEW U, IsFiniteSet(U), NEW target
    PROVE  \A A \in SUBSET U :
               Actives(w, U, target)[A] = ActiveAt(w, U, target, Actives(w, U, target), A)
<1> DEFINE g == CHOOSE h : h = [A \in SUBSET U |-> ActiveAt(w, U, target, h, A)]
           V == SUBSET U
           val == [A \in SUBSET U |-> A]
           step == [A \in SUBSET U |-> [v \in V |-> v]]
           pred == [A \in SUBSET U |-> A \ Full(w, U, target, A)]
           stop == {A \in SUBSET U : IsSettled(w, U, target, A)}
<1>1. Actives(w, U, target) = g
  BY DEF Actives, ActiveAt, Full, Left, IsSettled
<1>2. val \in [SUBSET U -> V] /\ step \in [SUBSET U -> [V -> V]]
  OBVIOUS
<1>3. \A A : Full(w, U, target, A) \in SUBSET A
  BY DEF Full
<1>4. IsSmaller(U, stop, pred)
  <2> SUFFICES ASSUME NEW T \in SUBSET U, T \notin stop PROVE pred[T] \in SUBSET T /\ pred[T] # T
    BY DEF IsSmaller
  <2>1. Full(w, U, target, T) # {}
    BY DEF IsSettled
  <2>2. pred[T] = T \ Full(w, U, target, T)
    OBVIOUS
  <2> QED BY <1>3, <2>1, <2>2
<1> HIDE DEF g, V, val, step, pred, stop
<1>5. PICK h \in [SUBSET U -> V] : IsComputed(U, stop, val, step, pred, h)
  BY ONLY IsFiniteSet(U), <1>2, <1>4, SubsetRecursion
<1>6. \A A \in SUBSET U : h[A] = ActiveAt(w, U, target, h, A)
  <2> SUFFICES ASSUME NEW A \in SUBSET U PROVE h[A] = ActiveAt(w, U, target, h, A)
    OBVIOUS
  <2>1. CASE A \in stop
    <3>1. h[A] = A
      BY <1>5, <2>1 DEF IsComputed, val
    <3> QED BY <2>1, <3>1 DEF stop, ActiveAt
  <2>2. CASE A \notin stop
    <3>1. h[A] = step[A][h[pred[A]]]
      BY <1>5, <2>2 DEF IsComputed
    <3>2. pred[A] = A \ Full(w, U, target, A) /\ pred[A] \in SUBSET U
      BY DEF pred
    <3>3. h[pred[A]] \in V
      BY <1>5, <3>2
    <3>4. step[A][h[pred[A]]] = h[pred[A]]
      BY <3>3 DEF step
    <3> QED BY <2>2, <3>1, <3>2, <3>4 DEF stop, ActiveAt
  <2> QED BY <2>1, <2>2
<1>7. h = [A \in SUBSET U |-> ActiveAt(w, U, target, h, A)]
  BY <1>6
<1>8. g = [A \in SUBSET U |-> ActiveAt(w, U, target, g, A)]
  BY <1>7 DEF g
<1> QED BY <1>1, <1>8

\* The seats that are left in a round keep a mass that is not negative.
LEMMA FullLeaves ==
    ASSUME NEW D, IsFiniteSet(D), NEW w \in [D -> Nat], NEW U \in SUBSET D, NEW target \in Nat,
           NEW A \in SUBSET U, Left(U, target, A) >= 0, Total(w, A) # 0
    PROVE  Left(U, target, A \ Full(w, U, target, A)) >= 0
<1> DEFINE F == Full(w, U, target, A)
           r == Left(U, target, A)
           m == Total(w, A)
           p == Total(w, F)
           k == Cardinality(F)
<1>1. F \in SUBSET A /\ A \in SUBSET D /\ F \in SUBSET D /\ A \ F \in SUBSET D
  BY DEF Full
<1>2. IsFiniteSet(U) /\ IsFiniteSet(U \ A) /\ IsFiniteSet(F) /\ IsFiniteSet(U \ (A \ F))
  BY <1>1, FS_Subset
<1>3. w \in [D -> Int] /\ \A s \in D : w[s] >= 0
  OBVIOUS
<1>4. k \in Nat /\ Cardinality(U \ A) \in Nat /\ Cardinality(U \ (A \ F)) \in Nat
  BY <1>2, FS_CardinalityType
<1>5. r \in Nat
  BY <1>4 DEF Left
<1>6. m \in Int /\ p \in Int /\ Total(w, A \ F) \in Int
  BY <1>1, <1>3, SumType
<1>7. m = p + Total(w, A \ F)
  <2> HIDE DEF F
  <2>1. A = F \cup (A \ F) /\ F \cap (A \ F) = {}
    BY <1>1
  <2>2. Total(w, F \cup (A \ F)) = p + Total(w, A \ F)
    BY <1>1, <1>3, <2>1, SumUnion
  <2> QED BY <2>1, <2>2
<1>8. p >= 0 /\ Total(w, A \ F) >= 0
  BY <1>1, <1>3, SumBounds
<1>9. m > 0 /\ p <= m
  BY <1>6, <1>7, <1>8
<1>10. r * p >= m * k
  <2>1. \A s \in F : r * w[s] >= m
    BY DEF Full
  <2> HIDE DEF F, r, m
  <2> QED BY <1>1, <1>3, <1>5, <1>6, <2>1, SumAtLeast
<1>11. Cardinality(U \ (A \ F)) = Cardinality(U \ A) + k
  <2> HIDE DEF F
  <2>1. U \ (A \ F) = (U \ A) \cup F /\ (U \ A) \cap F = {}
    BY <1>1
  <2> QED BY <1>2, <1>4, <2>1, FS_Union, FS_EmptySet
<1> HIDE DEF F, r, m, p, k
<1>12. r * m >= r * p
  BY <1>5, <1>6, <1>9
<1>13. r >= k
  <2> SUFFICES ASSUME r < k PROVE FALSE
    BY <1>4, <1>5
  <2>1. m * k > m * r
    BY <1>4, <1>5, <1>6, <1>9
  <2>2. m * r = r * m /\ m * r \in Int /\ r * p \in Int /\ m * k \in Int
    BY <1>4, <1>5, <1>6
  <2> QED BY <1>10, <1>12, <2>1, <2>2
<1>14. Left(U, target, A \ F) = r - k
  BY <1>4, <1>11 DEF Left, r
<1> QED BY <1>4, <1>5, <1>13, <1>14 DEF F

\* So the rounds end with seats that share what is left, none of them full.
LEMMA ActiveSettles ==
    ASSUME NEW D, IsFiniteSet(D), NEW w \in [D -> Nat], NEW U \in SUBSET D, NEW target \in Nat
    PROVE  \A A \in SUBSET U : Left(U, target, A) >= 0 =>
               LET rest == Actives(w, U, target)[A]
               IN rest \in SUBSET A /\ Left(U, target, rest) >= 0 /\ IsSettled(w, U, target, rest)
<1> DEFINE Settles(A) ==
               LET rest == Actives(w, U, target)[A]
               IN rest \in SUBSET A /\ Left(U, target, rest) >= 0 /\ IsSettled(w, U, target, rest)
           N == {n \in Nat : \A A \in SUBSET U :
                     Cardinality(A) <= n /\ Left(U, target, A) >= 0 => Settles(A)}
<1>1. \A A \in SUBSET U : IsFiniteSet(A) /\ Cardinality(A) \in Nat
  BY FS_Subset, FS_CardinalityType
<1>2. IsFiniteSet(U)
  BY FS_Subset
<1>3. ASSUME NEW A \in SUBSET U, IsSettled(w, U, target, A), Left(U, target, A) >= 0 PROVE Settles(A)
  <2>1. Actives(w, U, target)[A] = A
    BY <1>2, <1>3, ActiveStep DEF ActiveAt
  <2> QED BY <1>3, <2>1
<1>4. ASSUME NEW A \in SUBSET U, ~IsSettled(w, U, target, A), Left(U, target, A) >= 0
      PROVE  LET B == A \ Full(w, U, target, A)
             IN  /\ B \in SUBSET U /\ Cardinality(B) < Cardinality(A) /\ Left(U, target, B) >= 0
                 /\ Settles(B) => Settles(A)
  <2> DEFINE B == A \ Full(w, U, target, A)
  <2>1. Full(w, U, target, A) # {} /\ Full(w, U, target, A) \in SUBSET A /\ Total(w, A) # 0
    BY <1>4 DEF IsSettled, Full
  <2>2. B \in SUBSET U /\ B \in SUBSET A /\ B # A
    BY <2>1
  <2>3. Cardinality(B) < Cardinality(A)
    <3>1. Cardinality(B) <= Cardinality(A) /\ Cardinality(B) # Cardinality(A)
      BY <1>1, <2>2, FS_Subset
    <3> QED BY <1>1, <2>2, <3>1
  <2>4. Left(U, target, B) >= 0
    BY <1>4, <2>1, FullLeaves
  <2>5. Actives(w, U, target)[A] = Actives(w, U, target)[B]
    <3>1. Actives(w, U, target)[A] = ActiveAt(w, U, target, Actives(w, U, target), A)
      BY <1>2, ActiveStep
    <3> QED BY <1>4, <3>1 DEF ActiveAt
  <2> HIDE DEF B
  <2>6. Settles(B) => Settles(A)
    BY <2>2, <2>5
  <2> QED BY <2>2, <2>3, <2>4, <2>6 DEF B
<1> HIDE DEF Settles
<1>5. 0 \in N
  <2>1. \A A \in SUBSET U : Cardinality(A) <= 0 => Cardinality(A) = 0
    BY <1>1
  <2>2. \A A \in SUBSET U : Cardinality(A) <= 0 => ~ \E B : Cardinality(B) < Cardinality(A) /\ B \in SUBSET U
    BY <1>1, <2>1
  <2> QED BY <1>3, <1>4, <2>2
<1>6. \A n \in N : n + 1 \in N
  <2> SUFFICES ASSUME NEW n \in N PROVE n + 1 \in N
    OBVIOUS
  <2>1. n \in Nat /\ n + 1 \in Nat
    OBVIOUS
  <2> SUFFICES ASSUME NEW A \in SUBSET U, Cardinality(A) <= n + 1, Left(U, target, A) >= 0 PROVE Settles(A)
    BY <2>1
  <2>2. CASE ~IsSettled(w, U, target, A)
    <3> DEFINE B == A \ Full(w, U, target, A)
    <3>1. /\ B \in SUBSET U /\ Cardinality(B) < Cardinality(A) /\ Left(U, target, B) >= 0
          /\ Settles(B) => Settles(A)
      BY <1>4, <2>2
    <3>2. Cardinality(B) <= n
      BY <1>1, <2>1, <3>1
    <3> QED BY <3>1, <3>2
  <2> QED BY <1>3, <2>2
<1>7. N \in SUBSET Nat
  OBVIOUS
<1> HIDE DEF N
<1>8. N = Nat
  BY <1>5, <1>6, <1>7, NumbersInduction
<1>9. \A A \in SUBSET U : Left(U, target, A) >= 0 => Settles(A)
  BY <1>1, <1>8 DEF N
<1> QED BY <1>9 DEF Settles

\* What a projection is: fractions that give the seats of U a mass of target.
IsMass(b, U, target) ==
    /\ b = [num |-> b.num, den |-> b.den]
    /\ b.den \in Nat \ {0} /\ b.num \in [U -> 0..b.den]
    /\ Total(b.num, U) = target * b.den

\* A seat is certain or shares what is left with the others of its round.
LEMMA SharesFit ==
    ASSUME NEW U, IsFiniteSet(U), NEW target \in Nat, NEW A \in SUBSET U, NEW share \in [A -> Nat],
           NEW den \in Nat \ {0}, \A s \in A : share[s] <= den,
           Total(share, A) = Left(U, target, A) * den
    PROVE  IsMass([num |-> [s \in U |-> IF s \notin A THEN den ELSE share[s]], den |-> den], U, target)
<1> DEFINE num == [s \in U |-> IF s \notin A THEN den ELSE share[s]]
           k == Cardinality(U \ A)
<1>1. num \in [U -> 0..den]
  OBVIOUS
<1>2. num \in [U -> Int] /\ share \in [A -> Int]
  OBVIOUS
<1>3. IsFiniteSet(A) /\ k \in Nat
  BY FS_Subset, FS_CardinalityType
<1>4. Total(num, U \ A) = den * k
  <2>1. \A s \in U \ A : num[s] = den
    OBVIOUS
  <2> HIDE DEF num
  <2> QED BY <1>2, <2>1, SumBounds
<1>5. Total(num, A) = Total(share, A)
  <2>1. \A s \in A : num[s] = 1 * share[s] + 0
    OBVIOUS
  <2> HIDE DEF num
  <2>2. Total(num, A) = 1 * Total(share, A) + 0 * Cardinality(A)
    BY <1>2, <1>3, <2>1, SumLinear
  <2>3. Total(share, A) \in Int /\ Cardinality(A) \in Int
    BY <1>2, <1>3, SumType, FS_CardinalityType
  <2> QED BY <2>2, <2>3
<1>6. Total(num, U) = Total(num, U \ A) + Total(num, A)
  <2>1. U = (U \ A) \cup A /\ (U \ A) \cap A = {} /\ U \ A \in SUBSET U
    OBVIOUS
  <2> HIDE DEF num
  <2>2. Total(num, (U \ A) \cup A) = Total(num, U \ A) + Total(num, A)
    BY <1>2, <2>1, SumUnion
  <2> QED BY <2>1, <2>2
<1> HIDE DEF num
<1>7. Total(num, U) = den * k + (target - k) * den
  BY <1>4, <1>5, <1>6 DEF Left
<1> HIDE DEF k
<1>8. den * k + (target - k) * den = target * den
  <2>1. target = k + (target - k) /\ target - k \in Int
    BY <1>3
  <2>2. (k + (target - k)) * den = k * den + (target - k) * den
    BY <1>3, <2>1, Distributes
  <2>3. den * k = k * den
    BY <1>3
  <2> QED BY <2>1, <2>2, <2>3
<1> QED BY <1>1, <1>7, <1>8 DEF num, IsMass

\* The projection gives a mass that is not more than their number.
LEMMA ProjectFits ==
    ASSUME NEW D, IsFiniteSet(D), NEW w \in [D -> Nat], NEW U \in SUBSET D,
           NEW target \in Nat, target <= Cardinality(U)
    PROVE  IsMass(ProjectMass(w, U, target), U, target)
<1> DEFINE rest == Actives(w, U, target)[U]
           r == Left(U, target, rest)
           m == Total(w, rest)
           n == Cardinality(rest)
           even == m = 0
           den == IF rest = {} THEN 1 ELSE IF even THEN n ELSE m
<1>1. ProjectMass(w, U, target) =
          IF target <= 0 THEN [num |-> [s \in U |-> 0], den |-> 1]
          ELSE IF target >= Cardinality(U) THEN [num |-> [s \in U |-> 1], den |-> 1]
          ELSE [num |-> [s \in U |-> IF s \notin rest THEN den
                                     ELSE r * (IF even THEN 1 ELSE w[s])],
                den |-> den]
  BY DEF ProjectMass, Actives, Left
<1> HIDE DEF rest
<1>2. IsFiniteSet(U) /\ Cardinality(U) \in Nat /\ w \in [D -> Int]
  BY FS_Subset, FS_CardinalityType
<1>3. CASE target <= 0
  <2> DEFINE num == [s \in U |-> 0]
  <2>1. num \in [U -> Int] /\ \A s \in U : num[s] = 0
    OBVIOUS
  <2> HIDE DEF num
  <2>2. Total(num, U) = 0 * Cardinality(U)
    BY <1>2, <2>1, SumBounds
  <2>3. Total(num, U) = target * 1
    BY <1>2, <1>3, <2>2
  <2> QED BY <1>1, <1>3, <2>3 DEF num, IsMass
<1>4. CASE ~ (target <= 0) /\ target >= Cardinality(U)
  <2> DEFINE num == [s \in U |-> 1]
  <2>1. num \in [U -> Int] /\ \A s \in U : num[s] = 1
    OBVIOUS
  <2> HIDE DEF num
  <2>2. Total(num, U) = 1 * Cardinality(U)
    BY <1>2, <2>1, SumBounds
  <2>3. Total(num, U) = target * 1
    BY <1>2, <1>4, <2>2
  <2> QED BY <1>1, <1>4, <2>3 DEF num, IsMass
<1>5. CASE ~ (target <= 0) /\ ~ (target >= Cardinality(U))
  <2>1. Left(U, target, U) >= 0
    <3>1. U \ U = {}
      OBVIOUS
    <3> QED BY <3>1, FS_EmptySet DEF Left
  <2>2. rest \in SUBSET U /\ r >= 0 /\ IsSettled(w, U, target, rest)
    BY <2>1, ActiveSettles DEF rest
  <2>3. rest \in SUBSET D /\ IsFiniteSet(rest) /\ n \in Nat /\ m \in Int
    BY <1>2, <2>2, FS_Subset, FS_CardinalityType, SumType
  <2>4. m >= 0
    <3>1. \A s \in rest : w[s] >= 0
      BY <2>3
    <3> QED BY <1>2, <2>3, <3>1, SumBounds
  <2>5. Cardinality(U) = n + Cardinality(U \ rest) /\ Cardinality(U \ rest) \in Nat
    <3>1. IsFiniteSet(U \ rest) /\ rest \cup (U \ rest) = U /\ rest \cap (U \ rest) = {}
      BY <1>2, <2>2, FS_Subset
    <3>2. Cardinality(U \ rest) \in Nat
      BY <3>1, FS_CardinalityType
    <3>3. Cardinality(rest \cup (U \ rest)) = n + Cardinality(U \ rest) - Cardinality(rest \cap (U \ rest))
      BY <2>3, <3>1, FS_Union
    <3>4. Cardinality(U) = n + Cardinality(U \ rest) - 0
      BY <3>1, <3>3, FS_EmptySet
    <3> QED BY <2>3, <3>2, <3>4
  <2>6. r \in Nat /\ r < n
    BY <1>2, <1>5, <2>2, <2>3, <2>5 DEF Left
  <2>7. rest # {}
    BY <2>6, FS_EmptySet
  <2> DEFINE share == [s \in rest |-> r * (IF even THEN 1 ELSE w[s])]
             num == [s \in U |-> IF s \notin rest THEN den ELSE r * (IF even THEN 1 ELSE w[s])]
  <2>8. den \in Nat \ {0}
    BY <2>3, <2>4, <2>6, <2>7
  <2>9. share \in [rest -> Nat] /\ (\A s \in rest : share[s] <= den) /\ Total(share, rest) = r * den
    <3>1. CASE even
      <4>1. \A s \in rest : share[s] = r
        BY <2>6, <3>1
      <4>2. share \in [rest -> Nat] /\ share \in [rest -> Int] /\ \A s \in rest : share[s] <= den
        <5>1. den = n
          BY <2>7, <3>1
        <5>3. share = [s \in rest |-> share[s]]
          OBVIOUS
        <5> HIDE DEF r, den, n, share
        <5>2. \A s \in rest : share[s] \in Nat /\ share[s] <= den
          BY <2>3, <2>6, <4>1, <5>1
        <5> QED BY <5>2, <5>3
      <4> HIDE DEF share, r, m
      <4>3. Total(share, rest) = r * n
        BY <2>3, <2>6, <4>1, <4>2, SumBounds
      <4> QED BY <2>7, <3>1, <4>2, <4>3
    <3>2. CASE ~even
      <4>1. \A s \in rest : share[s] = r * w[s] /\ w[s] \in Nat
        BY <2>3, <3>2
      <4>2. \A s \in rest : ~ (r * w[s] >= m)
        BY <2>2, <3>2 DEF IsSettled, Full
      <4> HIDE DEF r, m
      <4>3. \A s \in rest : r * w[s] \in Nat /\ r * w[s] <= m
        BY <2>3, <2>6, <4>1, <4>2
      <4>4. share \in [rest -> Nat] /\ share \in [rest -> Int] /\ \A s \in rest : share[s] = r * w[s] + 0
        BY <4>1, <4>3
      <4> HIDE DEF share
      <4>5. Total(share, rest) = r * m + 0 * n
        <5>1. 0 \in Int /\ r \in Int /\ rest \in SUBSET rest
          BY <2>6
        <5>2. Total(share, rest) = r * Total(w, rest) + 0 * Cardinality(rest)
          BY ONLY IsFiniteSet(D), <1>2, <2>3, <4>4, <5>1, SumLinear
        <5> QED BY <5>2 DEF m, n
      <4>6. r * m \in Int
        BY <2>3, <2>6
      <4>7. Total(share, rest) = r * m
        BY <2>3, <4>5, <4>6
      <4> QED BY <2>7, <3>2, <4>1, <4>3, <4>4, <4>7
    <3> QED BY <3>1, <3>2
  <2>10. num = [s \in U |-> IF s \notin rest THEN den ELSE share[s]]
    OBVIOUS
  <2> HIDE DEF den, share, num, n, m, even
  <2>11. IsMass([num |-> [s \in U |-> IF s \notin rest THEN den ELSE share[s]], den |-> den], U, target)
    <3>1. Total(share, rest) = Left(U, target, rest) * den
      BY <2>9
    <3>2. share \in [rest -> Nat] /\ \A s \in rest : share[s] <= den
      BY <2>9
    <3> QED BY <1>2, <2>2, <2>8, <3>1, <3>2, SharesFit
  <2>12. ProjectMass(w, U, target) = [num |-> num, den |-> den]
    BY <1>1, <1>5 DEF num
  <2> QED BY <2>10, <2>11, <2>12
<1> QED BY <1>3, <1>4, <1>5

\* A divisor, and what it leaves.
LEMMA Quotient ==
    ASSUME NEW a \in Nat, NEW g \in Nat \ {0}, a % g = 0
    PROVE  a = g * (a \div g) /\ a \div g \in Nat
OBVIOUS

\* A multiple of g by a smaller number is smaller, and no two are the same.
LEMMA Cancels ==
    ASSUME NEW g \in Nat \ {0}, NEW a \in Int, NEW b \in Int
    PROVE  /\ g * a <= g * b => a <= b
           /\ g * a = g * b => a = b
<1>1. ASSUME a > b PROVE g * a > g * b
  <2>1. a = b + (a - b) /\ a - b \in Nat \ {0}
    BY <1>1
  <2>2. g * a = g * b + g * (a - b)
    BY <2>1, Distributes
  <2>3. g * (a - b) > 0
    BY <2>1
  <2> QED BY <2>2, <2>3
<1>2. ASSUME b > a PROVE g * b > g * a
  <2>1. b = a + (b - a) /\ b - a \in Nat \ {0}
    BY <1>2
  <2>2. g * b = g * a + g * (b - a)
    BY <2>1, Distributes
  <2>3. g * (b - a) > 0
    BY <2>1
  <2> QED BY <2>2, <2>3
<1>3. g * a \in Int /\ g * b \in Int
  OBVIOUS
<1> QED BY <1>1, <1>2, <1>3

\* Among the numbers up to n that have a property there is a greatest.
LEMMA Greatest ==
    ASSUME NEW n \in Nat, NEW K \in SUBSET (0..n), K # {}
    PROVE  \E k \in K : \A j \in K : j <= k
<1> DEFINE Below == OpToRel(<, Nat)
           R == {m \in Nat : n - m \in K}
<1>1. IsWellFoundedOn(Below, Nat)
  BY NatLessThanWellFounded
<1>2. \A x, y \in Nat : x < y => <<x, y>> \in Below
  BY DEF OpToRel
<1>3. R # {} /\ R \subseteq Nat
  <2>1. PICK k \in K : TRUE
    OBVIOUS
  <2>2. n - k \in Nat /\ n - (n - k) = k
    OBVIOUS
  <2> QED BY <2>2
<1> HIDE DEF Below
<1>4. PICK m \in R : \A y \in R : ~ (<<y, m>> \in Below)
  <2> HIDE DEF R
  <2> QED BY <1>1, <1>3, WFMin
<1>5. n - m \in K /\ m \in Nat
  OBVIOUS
<1>6. ASSUME NEW j \in K PROVE j <= n - m
  <2>1. n - j \in Nat /\ n - (n - j) = j /\ j \in Nat
    OBVIOUS
  <2>2. n - j \in R
    BY <2>1
  <2>3. ~ (n - j < m)
    BY <1>2, <1>4, <1>5, <2>1, <2>2
  <2> QED BY <1>5, <2>1, <2>3
<1> QED BY <1>5, <1>6

\* Reducing a belief to its smallest denominator changes no fraction.
LEMMA ReducedIsSame ==
    ASSUME NEW D, IsFiniteSet(D), NEW target \in Nat, NEW b, IsMass(b, D, target)
    PROVE  /\ IsMass(Reduced(b), D, target)
           /\ \A s \in D : /\ b.num[s] = b.den => Reduced(b).num[s] = Reduced(b).den
                           /\ b.num[s] = 0 => Reduced(b).num[s] = 0
<1> DEFINE Divides(k) == b.den % k = 0 /\ \A s \in DOMAIN b.num : b.num[s] % k = 0
           IsGcd(k) == Divides(k) /\ \A j \in k..b.den : Divides(j) => j = k
           gcd == CHOOSE k \in 1..b.den : IsGcd(k)
           num == [s \in D |-> b.num[s] \div gcd]
           den == b.den \div gcd
<1>1. b.den \in Nat \ {0} /\ b.num \in [D -> 0..b.den] /\ Total(b.num, D) = target * b.den /\ DOMAIN b.num = D
  BY DEF IsMass
<1>2. Reduced(b) = [num |-> num, den |-> den]
  BY <1>1 DEF Reduced
<1>3. gcd \in 1..b.den /\ IsGcd(gcd)
  <2> DEFINE K == {k \in 1..b.den : Divides(k)}
  <2>1. 1 \in K
    <3>1. \A a \in Nat : a % 1 = 0
      OBVIOUS
    <3> QED BY <1>1, <3>1
  <2>2. K \in SUBSET (0..b.den)
    BY <1>1
  <2> HIDE DEF K
  <2>3. PICK k \in K : \A j \in K : j <= k
    BY <1>1, <2>1, <2>2, Greatest
  <2>4. k \in 1..b.den /\ Divides(k)
    BY DEF K
  <2>5. ASSUME NEW j \in k..b.den, Divides(j) PROVE j = k
    <3>1. j \in 1..b.den
      BY <1>1, <2>4
    <3>2. j \in K
      BY <2>5, <3>1 DEF K
    <3> QED BY <1>1, <2>3, <2>4, <3>1, <3>2
  <2> HIDE DEF Divides
  <2> QED BY <2>4, <2>5
<1> HIDE DEF gcd
<1>4. gcd \in Nat \ {0} /\ b.den % gcd = 0 /\ \A s \in D : b.num[s] % gcd = 0
  BY <1>1, <1>3
<1>5. den \in Nat /\ b.den = gcd * den
  BY <1>1, <1>4, Quotient
<1>6. den # 0
  <2> HIDE DEF den
  <2>1. gcd * 0 = 0
    BY <1>4
  <2> QED BY <1>1, <1>5, <2>1
<1>7. \A s \in D : b.num[s] \in Nat /\ b.num[s] <= b.den /\ num[s] \in Nat /\ b.num[s] = gcd * num[s]
  <2> TAKE s \in D
  <2>1. b.num[s] \in Nat /\ b.num[s] <= b.den
    BY <1>1
  <2>2. num[s] = b.num[s] \div gcd
    OBVIOUS
  <2> HIDE DEF num
  <2>3. b.num[s] % gcd = 0
    BY <1>4
  <2>4. b.num[s] = gcd * (b.num[s] \div gcd) /\ b.num[s] \div gcd \in Nat
    BY <1>4, <2>1, <2>3, Quotient
  <2> QED BY <2>1, <2>2, <2>4
<1>8. num = [s \in D |-> num[s]]
  OBVIOUS
<1> HIDE DEF num, den
<1>9. \A s \in D : num[s] <= den
  <2> TAKE s \in D
  <2>1. gcd * num[s] <= gcd * den /\ num[s] \in Int /\ den \in Int
    BY <1>5, <1>7
  <2> QED BY <1>4, <2>1, Cancels
<1>10. num \in [D -> 0..den] /\ num \in [D -> Int] /\ b.num \in [D -> Int]
  BY <1>1, <1>5, <1>7, <1>8, <1>9
<1>11. Total(num, D) = target * den
  <2>1. D \in SUBSET D /\ gcd \in Int
    BY <1>4
  <2>2. Total(b.num, D) = gcd * Total(num, D)
    <3> DEFINE old == b.num
    <3>1. old \in [D -> Int] /\ \A s \in D : old[s] = gcd * num[s]
      BY <1>7, <1>10
    <3> HIDE DEF old
    <3>2. Total(old, D) = gcd * Total(num, D)
      BY <1>10, <2>1, <3>1, SumScales
    <3> QED BY <3>2 DEF old
  <2>4. Total(num, D) \in Int
    BY <1>10, <2>1, SumType
  <2>5. gcd * Total(num, D) \in Int /\ target * den \in Int
    BY <1>4, <1>5, <2>4
  <2>6. gcd * Total(num, D) = target * (gcd * den)
    BY <1>1, <1>5, <2>2
  <2>7. target * (gcd * den) = gcd * (target * den)
    BY <1>4, <1>5
  <2> QED BY <1>4, <2>4, <2>5, <2>6, <2>7, Cancels
<1>12. ASSUME NEW s \in D PROVE (b.num[s] = b.den => num[s] = den) /\ (b.num[s] = 0 => num[s] = 0)
  <2>1. num[s] \in Int /\ den \in Int /\ 0 \in Int /\ gcd * 0 = 0
    BY <1>4, <1>5, <1>7
  <2>2. b.num[s] = gcd * num[s] /\ b.den = gcd * den
    BY <1>5, <1>7
  <2>3. b.num[s] = b.den => num[s] = den
    BY <1>4, <2>1, <2>2, Cancels
  <2>4. b.num[s] = 0 => num[s] = 0
    BY <1>4, <2>1, <2>2, Cancels
  <2> QED BY <2>3, <2>4
<1> QED BY <1>2, <1>5, <1>6, <1>10, <1>11, <1>12 DEF IsMass

\* What is left to place: the wolves among the seats nothing is known about.
LEMMA WolvesToPlace ==
    ASSUME NEW known \in SUBSET Others
    PROVE  /\ MassToPlace(known) = Cardinality(Wolves \ known)
           /\ MassToPlace(known) \in Nat /\ MassToPlace(known) <= Cardinality(Others \ known)
           /\ Cardinality(Wolves) = Cardinality(Wolves \cap known) + Cardinality(Wolves \ known)
           /\ Cardinality(Wolves) \in Nat /\ Cardinality(Wolves \cap known) \in Nat
<1>1. IsFiniteSet(Others) /\ Wolves \in SUBSET Others /\ OwnerIsWolf \in BOOLEAN
  BY BeliefsAssumption
<1>2. IsFiniteSet(Wolves) /\ IsFiniteSet(Wolves \cap known) /\ IsFiniteSet(Wolves \ known)
      /\ IsFiniteSet(Others \ known)
  BY <1>1, FS_Subset
<1>3. /\ Cardinality(Wolves) \in Nat /\ Cardinality(Wolves \cap known) \in Nat
      /\ Cardinality(Wolves \ known) \in Nat /\ Cardinality(Others \ known) \in Nat
  BY <1>2, FS_CardinalityType
<1>4. Cardinality(Wolves) = Cardinality(Wolves \cap known) + Cardinality(Wolves \ known)
  <2> DEFINE A == Wolves \cap known
             B == Wolves \ known
  <2>1. A \cup B = Wolves /\ A \cap B = {}
    OBVIOUS
  <2>2. Cardinality(A \cup B) = Cardinality(A) + Cardinality(B) - Cardinality(A \cap B)
    BY <1>2, FS_Union
  <2>3. Cardinality(A \cap B) = 0
    BY <2>1, FS_EmptySet
  <2>4. Cardinality(A \cup B) = Cardinality(Wolves)
    BY <2>1
  <2> HIDE DEF A, B
  <2>5. Cardinality(Wolves) = Cardinality(A) + Cardinality(B)
    <3>1. Cardinality(A) \in Nat /\ Cardinality(B) \in Nat
      BY <1>3 DEF A, B
    <3> QED BY <2>2, <2>3, <2>4, <3>1
  <2> QED BY <2>5 DEF A, B
<1>5. Cardinality(Wolves \ known) <= Cardinality(Others \ known)
  <2>1. Wolves \ known \in SUBSET (Others \ known)
    BY <1>1
  <2> QED BY <1>2, <2>1, FS_Subset
<1>6. TotalWolves = Cardinality(Wolves) + (IF OwnerIsWolf THEN 1 ELSE 0)
  BY BeliefsAssumption
<1>7. TotalWolves - (IF OwnerIsWolf THEN 1 ELSE 0) - Cardinality(Wolves \cap known) = Cardinality(Wolves \ known)
  BY <1>1, <1>3, <1>4, <1>6
<1>8. MassToPlace(known) = Most(0, Least(Cardinality(Others \ known), Cardinality(Wolves \ known)))
  BY <1>7 DEF MassToPlace
<1>9. MassToPlace(known) = Cardinality(Wolves \ known)
  BY <1>3, <1>5, <1>8 DEF Most, Least
<1> QED BY <1>3, <1>4, <1>5, <1>9

\* Certain seats and a mass placed among the others add up to the wolves.
LEMMA PlacedFits ==
    ASSUME NEW known \in SUBSET Others, NEW placed,
           IsMass(placed, Others \ known, Cardinality(Wolves \ known))
    PROVE  IsMass([num |-> [s \in Others |-> IF s \in Wolves \cap known THEN placed.den
                                             ELSE IF s \in known THEN 0 ELSE placed.num[s]],
                   den |-> placed.den], Others, Cardinality(Wolves))
<1> DEFINE U == Others \ known
           W == Wolves \cap known
           V == known \ Wolves
           den == placed.den
           part == placed.num
           num == [s \in Others |-> IF s \in W THEN den ELSE IF s \in known THEN 0 ELSE part[s]]
           k == Cardinality(W)
           m == Cardinality(Wolves \ known)
<1>1. IsFiniteSet(Others) /\ Wolves \in SUBSET Others
  BY BeliefsAssumption
<1>2. IsFiniteSet(U) /\ U \in SUBSET Others /\ W \in SUBSET Others /\ V \in SUBSET Others
  BY <1>1, FS_Subset
<1>3. den \in Nat \ {0} /\ part \in [U -> 0..den] /\ Total(part, U) = m * den
  BY DEF IsMass
<1>4. Cardinality(Wolves) = k + m /\ k \in Nat /\ m \in Nat
  <2>1. Cardinality(Wolves \ known) \in Nat
    BY WolvesToPlace
  <2> QED BY <2>1, WolvesToPlace
<1>5. num \in [Others -> 0..den]
  <2> HIDE DEF den, part
  <2> QED BY <1>3
<1>6. num \in [Others -> Int] /\ part \in [U -> Int]
  <2> HIDE DEF den, part, num
  <2> QED BY <1>3, <1>5
<1>7. /\ \A s \in W : num[s] = den
      /\ \A s \in V : num[s] = 0
      /\ \A s \in U : num[s] = 1 * part[s] + 0
  <2>1. \A s \in U : part[s] \in Int
    BY <1>6
  <2> HIDE DEF part, den
  <2> QED BY <1>1, <1>2, <2>1
<1>8. (W \cup V) \cup U = Others /\ W \cap V = {} /\ (W \cup V) \cap U = {} /\ W \cup V \in SUBSET Others
      /\ U \in SUBSET U
  BY <1>1
<1>9. Cardinality(V) \in Nat /\ Cardinality(U) \in Nat /\ Cardinality(W) \in Nat
  BY <1>1, <1>2, FS_Subset, FS_CardinalityType
<1> HIDE DEF num, den, part, U, V, W
<1>10. Total(num, W) = den * k
  BY <1>1, <1>2, <1>3, <1>6, <1>7, SumBounds
<1>11. Total(num, V) = 0
  <2>1. Total(num, V) = 0 * Cardinality(V)
    BY <1>1, <1>2, <1>6, <1>7, SumBounds
  <2> QED BY <1>9, <2>1
<1>12. Total(num, U) = m * den
  <2>1. 1 \in Int /\ 0 \in Int
    OBVIOUS
  <2>2. Total(num, U) = 1 * Total(part, U) + 0 * Cardinality(U)
    BY ONLY <1>1, <1>2, <1>6, <1>7, <1>8, <2>1, SumLinear
  <2>3. Total(part, U) \in Int
    BY <1>2, <1>6, <1>8, SumType
  <2> QED BY <1>3, <1>9, <2>2, <2>3
<1>13. Total(num, Others) = (Total(num, W) + Total(num, V)) + Total(num, U)
  <2>1. Total(num, W \cup V) = Total(num, W) + Total(num, V)
    BY <1>1, <1>2, <1>6, <1>8, SumUnion
  <2>2. Total(num, (W \cup V) \cup U) = Total(num, W \cup V) + Total(num, U)
    BY <1>1, <1>2, <1>6, <1>8, SumUnion
  <2> QED BY <1>8, <2>1, <2>2
<1> HIDE DEF k, m
<1>14. (k + m) * den = k * den + m * den /\ den * k = k * den /\ k * den \in Int
  BY <1>3, <1>4
<1>15. Total(num, Others) = Cardinality(Wolves) * den
  BY <1>4, <1>10, <1>11, <1>12, <1>13, <1>14
<1>16. IsMass([num |-> num, den |-> den], Others, Cardinality(Wolves))
  BY <1>3, <1>5, <1>15 DEF IsMass
<1> QED BY <1>16 DEF num, den, part, W

\* A belief is fractions of one denominator.
IsBelief(b) == b.den \in Nat /\ b.num \in [Others -> Nat]

\* Whatever is laid over a belief, what is reconciled fits the facts.
LEMMA ReconciledFits ==
    ASSUME NEW b, IsBelief(b), NEW patch, DOMAIN patch \subseteq Others, patch \in [DOMAIN patch -> 0..2],
           NEW known \in SUBSET Others
    PROVE  Fits(Reconciled(b, patch, known), known) /\ IsBelief(Reconciled(b, patch, known))
<1> DEFINE weight == [s \in Others |-> IF s \in DOMAIN patch THEN patch[s] * b.den ELSE 2 * b.num[s]]
           placed == ProjectMass(weight, Others \ known, MassToPlace(known))
           raw == [num |-> [s \in Others |-> IF s \in Wolves \cap known THEN placed.den
                                             ELSE IF s \in known THEN 0 ELSE placed.num[s]],
                   den |-> placed.den]
           c == Reduced(raw)
<1>1. Reconciled(b, patch, known) = c
  BY DEF Reconciled
<1>2. IsFiniteSet(Others) /\ Wolves \in SUBSET Others /\ OwnerIsWolf \in BOOLEAN
  BY BeliefsAssumption
<1>3. weight \in [Others -> Nat]
  <2> SUFFICES ASSUME NEW s \in Others
               PROVE  (IF s \in DOMAIN patch THEN patch[s] * b.den ELSE 2 * b.num[s]) \in Nat
    OBVIOUS
  <2>1. b.den \in Nat /\ b.num[s] \in Nat
    BY DEF IsBelief
  <2>2. s \in DOMAIN patch => patch[s] \in Nat
    OBVIOUS
  <2> QED BY <2>1, <2>2
<1> HIDE DEF weight
<1>4. IsMass(placed, Others \ known, Cardinality(Wolves \ known))
  <2>1. /\ MassToPlace(known) = Cardinality(Wolves \ known)
        /\ MassToPlace(known) \in Nat /\ MassToPlace(known) <= Cardinality(Others \ known)
    BY WolvesToPlace
  <2>2. Others \ known \in SUBSET Others
    OBVIOUS
  <2>3. IsMass(placed, Others \ known, MassToPlace(known))
    BY <1>2, <1>3, <2>1, <2>2, ProjectFits
  <2> QED BY <2>1, <2>3
<1> HIDE DEF placed
<1>5. IsMass(raw, Others, Cardinality(Wolves))
  BY <1>4, PlacedFits
<1>6. Cardinality(Wolves) \in Nat
  BY WolvesToPlace
<1>7. \A s \in Others : s \in known => raw.num[s] = IF s \in Wolves THEN raw.den ELSE 0
  OBVIOUS
<1> HIDE DEF raw
<1>8. /\ IsMass(c, Others, Cardinality(Wolves))
      /\ \A s \in Others : /\ raw.num[s] = raw.den => c.num[s] = c.den
                           /\ raw.num[s] = 0 => c.num[s] = 0
  BY <1>2, <1>5, <1>6, ReducedIsSame
<1> HIDE DEF c
<1>9. c.den \in Nat \ {0} /\ c.num \in [Others -> 0..c.den] /\ Total(c.num, Others) = Cardinality(Wolves) * c.den
  BY <1>8 DEF IsMass
<1>10. IsBelief(c)
  <2>1. \A s \in Others : c.num[s] \in Nat
    BY <1>9
  <2> QED BY <1>9, <2>1 DEF IsBelief
<1>11. Fits(c, known)
  <2>1. \A s \in Others \cap known : c.num[s] = (IF s \in Wolves THEN c.den ELSE 0)
    BY <1>7, <1>8
  <2>2. \A s \in Others : c.num[s] \in 0..c.den
    BY <1>9
  <2>3. Total(c.num, Others) = TotalWolves * c.den - (IF OwnerIsWolf THEN c.den ELSE 0)
    <3> DEFINE n == Cardinality(Wolves)
               d == c.den
    <3>1. TotalWolves = n + (IF OwnerIsWolf THEN 1 ELSE 0)
      BY BeliefsAssumption
    <3> HIDE DEF n, d
    <3>2. n \in Nat /\ d \in Nat
      BY <1>6, <1>9 DEF n, d
    <3>3. (n + 1) * d = n * d + d /\ n * d \in Int
      BY <3>2
    <3>4. TotalWolves * d - (IF OwnerIsWolf THEN d ELSE 0) = n * d
      BY <1>2, <3>1, <3>2, <3>3
    <3> QED BY <1>9, <3>4 DEF n, d
  <2> QED BY <2>1, <2>2, <2>3 DEF Fits
<1> QED BY <1>1, <1>10, <1>11

-----------------------------------------------------------------------------
(* The beliefs of the seat.                                                  *)

BeliefsInv == IsBelief(beliefs) /\ facts \in [Requests -> SUBSET Others]

\* An update of the beliefs reconciles them with the facts of its request.
LEMMA ReviseFits ==
    ASSUME ActorInv, BeliefsInv, NEW patch \in Patches,
           UpdatePrivateState(patch) \/ UpdateBeliefs(patch)
    PROVE  BeliefsInv' /\ Fits(beliefs', facts[deciding])
<1>1. at = "tool" /\ facts' = facts /\ beliefs' = Reconciled(beliefs, patch, facts[deciding])
  BY DEF UpdatePrivateState, UpdateBeliefs, Revise, ModelUpdate, BeliefsUpdate
<1>2. facts[deciding] \in SUBSET Others
  <2>1. deciding \in Requests
    BY <1>1 DEF ActorInv, TypeOK
  <2> QED BY <2>1 DEF BeliefsInv
<1>3. DOMAIN patch \subseteq Others /\ patch \in [DOMAIN patch -> 0..2]
  BY ActorAssumption
<1> DEFINE known == facts[deciding]
           b == beliefs
           c == Reconciled(b, patch, known)
<1>4. IsBelief(b)
  BY DEF BeliefsInv
<1> HIDE DEF known, b
<1>5. Fits(c, known) /\ IsBelief(c)
  BY <1>2, <1>3, <1>4, ReconciledFits DEF known
<1> QED BY <1>1, <1>5 DEF BeliefsInv, IsBelief, known, b

\* A request brings facts about seats of the game; no other step changes any.
LEMMA BeliefsStep ==
    ActorInv /\ BeliefsInv /\ [Next]_vars =>
        BeliefsInv' /\ (beliefs' # beliefs => Fits(beliefs', facts[deciding]))
<1> SUFFICES ASSUME ActorInv, BeliefsInv, [Next]_vars
             PROVE  BeliefsInv' /\ (beliefs' # beliefs => Fits(beliefs', facts[deciding]))
  OBVIOUS
<1>1. ASSUME UNCHANGED <<facts, beliefs>>
      PROVE  BeliefsInv' /\ (beliefs' # beliefs => Fits(beliefs', facts[deciding]))
  BY <1>1 DEF BeliefsInv, IsBelief
<1>2. CASE \E r \in Requests : Submit(r)
  <2>1. PICK r \in Requests, known \in Knowledge : facts' = [facts EXCEPT ![r] = known] /\ beliefs' = beliefs
    BY <1>2 DEF Submit
  <2>2. known \in SUBSET Others
    BY ActorAssumption
  <2> QED BY <2>1, <2>2 DEF BeliefsInv, IsBelief
<1>3. CASE \E r \in Requests : Reject(r) \/ CancelWaiting(r)
  BY <1>1, <1>3 DEF Reject, CancelWaiting, stateVars
<1>4. CASE HumanNext
  BY <1>1, <1>4 DEF HumanNext, AskHuman, Published, PublishFails, Enqueue, PageAnswers, TakeAction, UnmappedAction,
                    HumanTimeout, Expired, CancelHuman, stateVars
<1>5. CASE \E patch \in Patches : UpdatePrivateState(patch) \/ UpdateBeliefs(patch)
  BY <1>5, ReviseFits
<1>6. CASE SessionNext /\ ~ \E patch \in Patches : UpdatePrivateState(patch) \/ UpdateBeliefs(patch)
  <2>1. UNCHANGED stateVars
    BY <1>6 DEF SessionNext, StartSession, GiveUp, BeginStep, TurnFails, BadResponse, RetryTurn,
                TokensSpent, NoCalls, TurnCalls, CallsExhausted, BadCall, StartTool, ToolReturns,
                ToolTimesOut, ToolGraceEnds, TurnEnds, HandlerEnds, CloseClean, CloseGraceEnds,
                CancelSession, CancelTool, CancelGraceEnds
  <2> QED BY <1>1, <2>1 DEF stateVars
<1>7. CASE UNCHANGED vars
  BY <1>1, <1>7 DEF vars, stateVars
<1> QED BY <1>2, <1>3, <1>4, <1>5, <1>6, <1>7 DEF Next

\* Whatever a model writes about the other seats, and whichever facts it was
\* shown in the meantime, an update leaves beliefs that agree with the facts
\* of its request, are probabilities, and add up to the wolves of the game
\* (_project_probability_mass, apply_model_update, update_beliefs).
THEOREM BeliefsFit == Spec => BeliefsFitFacts
<1>1. Init => BeliefsInv
  BY DEF Init, BeliefsInv, IsBelief, Uninformed
<1>2. ActorInv /\ BeliefsInv /\ [Next]_vars => (ActorInv /\ BeliefsInv)'
  BY ActorStep, BeliefsStep
<1>3. ActorInv /\ BeliefsInv /\ [Next]_vars => [beliefs' # beliefs => Fits(beliefs', facts[deciding])]_vars
  BY BeliefsStep
<1> QED BY <1>1, <1>2, <1>3, ActorInit, PTL DEF Spec, BeliefsFitFacts

=============================================================================
