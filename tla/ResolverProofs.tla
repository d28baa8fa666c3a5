--------------------------- MODULE ResolverProofs ---------------------------
(* Proofs about the DNS server for any finite set of handlers, any channel   *)
(* capacity and any number of requests.                                      *)
EXTENDS Resolver, TLAPS, FiniteSetTheorems, SequenceTheorems

\* One step of a handler, the writer or the process keeps the types, the
\* bound of the channel and the owner of the connection.
LEMMA TypePreserved == TypeOK /\ [Next]_vars => TypeOK'
<1> SUFFICES ASSUME TypeOK, [Next]_vars PROVE TypeOK'
  OBVIOUS
<1> USE DEF TypeOK
<1>1. ASSUME NEW h \in Handlers, Handle(h), ~Enqueue(h) PROVE TypeOK'
  <2> USE DEF Goto, Lookup, locals, writer, counters, HandlerSteps, Actions
  <2>1. CASE Receive(h)
    BY <2>1 DEF Receive
  <2>2. CASE EnsureHost(h)
    BY <2>2 DEF EnsureHost
  <2>3. CASE RejectEmptyQuestion(h)
    BY <2>3 DEF RejectEmptyQuestion
  <2>4. CASE MatchRuleNone(h)
    BY <2>4 DEF MatchRuleNone
  <2>5. CASE MatchRule(h)
    BY <2>5 DEF MatchRule
  <2>6. CASE RecordRuleHit(h)
    BY <2>6 DEF RecordRuleHit
  <2>7. CASE MatchBlocklist(h)
    BY <2>7 DEF MatchBlocklist
  <2>8. CASE staticAnswer(h)
    BY <2>8 DEF staticAnswer
  <2>9. CASE Forward(h)
    BY <2>9 DEF Forward
  <2>10. CASE WriteMsg(h)
    BY <2>10 DEF WriteMsg
  <2>11. CASE CacheMiss(h)
    BY <2>11 DEF CacheMiss
  <2> QED
    BY <1>1, <2>1, <2>2, <2>3, <2>4, <2>5, <2>6, <2>7, <2>8, <2>9, <2>10, <2>11
       DEF Handle, Proceed
<1>2. ASSUME NEW h \in Handlers, Enqueue(h) PROVE TypeOK'
  <2> DEFINE e == [action |-> action[h], host |-> host[h]]
  <2>1. e \in Events
    BY DEF Events
  <2>2. Append(queue, e) \in Seq(Events) /\ Len(Append(queue, e)) = Len(queue) + 1
        /\ Len(queue) \in Nat
    BY <2>1, AppendProperties, LenProperties
  <2>3. queue' \in Seq(Events) /\ Len(queue') <= QueueCap
    <3>1. queue' = queue \/ (Len(queue) < QueueCap /\ queue' = Append(queue, e))
      BY <1>2 DEF Enqueue
    <3> HIDE DEF e
    <3> QED
      BY <2>2, <3>1, QueueCapAssumption
  <2>4. dropped' \in Nat /\ blockedOut' \in Nat
    BY <1>2 DEF Enqueue, IsBlocked
  <2> QED
    BY <1>2, <2>3, <2>4 DEF Enqueue, Return, Goto, HandlerSteps, Actions
<1>3. ASSUME eventWriter PROVE TypeOK'
  <2> USE DEF locals, counters
  <2>1. CASE WriterTake
    BY <1>3, <2>1, HeadTailProperties, LenProperties, QueueCapAssumption DEF WriterTake
  <2>2. CASE WriterStop
    BY <2>2 DEF WriterStop
  <2>3. CASE WriterBegin
    BY <2>3 DEF WriterBegin
  <2>4. CASE WriterCommit
    BY <2>4 DEF WriterCommit, NoEvent, Events, Actions
  <2>5. CASE WriterFail
    BY <2>5 DEF WriterFail, NoEvent, Events, Actions
  <2> QED
    BY <1>3, <2>1, <2>2, <2>3, <2>4, <2>5 DEF eventWriter
<1>4. CASE AdminBegin \/ AdminEnd \/ Cancel \/ Exit
  BY <1>4 DEF AdminBegin, AdminEnd, Cancel, Exit, locals, writer, counters
<1>5. CASE Exited \/ UNCHANGED vars
  BY <1>5 DEF Exited, vars, locals, writer, counters
<1> QED
  BY <1>1, <1>2, <1>3, <1>4, <1>5 DEF Next

\* The channel never exceeds its capacity and a connection held by the writer
\* is the one of its transaction, in every reachable state.
THEOREM TypeCorrect == Spec => []TypeOK
<1>1. Init => TypeOK
  BY QueueCapAssumption DEF Init, TypeOK, NoEvent, Events, Actions, HandlerSteps
<1> QED
  BY <1>1, TypePreserved, PTL DEF Spec

\* The locals of a handler at each step of handleDNS are preserved.
LEMMA DecisionPreserved ==
  ASSUME TypeOK, DecisionSteps, [Next]_vars
  PROVE  DecisionSteps'
<1> USE DEF TypeOK, DecisionSteps, HandlerSteps, Actions
<1>1. ASSUME NEW h \in Handlers, Handle(h) PROVE DecisionSteps'
  <2> USE DEF Goto, Lookup, locals, writer, counters
  <2>1. CASE Receive(h)
    BY <2>1 DEF Receive
  <2>2. CASE EnsureHost(h)
    BY <2>2 DEF EnsureHost
  <2>3. CASE RejectEmptyQuestion(h)
    BY <2>3 DEF RejectEmptyQuestion
  <2>4. CASE MatchRuleNone(h)
    BY <2>4 DEF MatchRuleNone
  <2>5. CASE MatchRule(h)
    BY <2>5 DEF MatchRule
  <2>6. CASE RecordRuleHit(h)
    BY <2>6 DEF RecordRuleHit
  <2>7. CASE MatchBlocklist(h)
    BY <2>7 DEF MatchBlocklist
  <2>8. CASE staticAnswer(h)
    BY <2>8 DEF staticAnswer
  <2>9. CASE Forward(h)
    BY <2>9 DEF Forward
  <2>10. CASE WriteMsg(h)
    BY <2>10 DEF WriteMsg
  <2>11. CASE Enqueue(h)
    BY <2>11 DEF Enqueue, Return
  <2>12. CASE CacheMiss(h)
    BY <2>12 DEF CacheMiss
  <2> QED
    BY <1>1, <2>1, <2>2, <2>3, <2>4, <2>5, <2>6, <2>7, <2>8, <2>9, <2>10, <2>11, <2>12
       DEF Handle, Proceed
<1>2. CASE ~\E h \in Handlers : Handle(h)
  <2>1. UNCHANGED <<pc, locals>>
    BY <1>2 DEF Next, eventWriter, WriterTake, WriterStop, WriterBegin, WriterCommit,
                WriterFail, AdminBegin, AdminEnd, Cancel, Exit, Exited, vars
  <2> QED
    BY <2>1 DEF locals
<1> QED
  BY <1>1, <1>2

\* Sets of handlers are finite, and gain or lose one member at a time.
LEMMA OneMoreHandler ==
  ASSUME NEW S \in SUBSET Handlers, NEW T \in SUBSET Handlers, NEW h \in Handlers,
         h \notin S, T = S \cup {h}
  PROVE  Cardinality(S) \in Nat /\ Cardinality(T) = Cardinality(S) + 1
BY HandlersAssumption, FS_Subset, FS_AddElement, FS_CardinalityType

\* An event that leaves its handler is found in another term of the sum.
LEMMA SumShift ==
  ASSUME NEW q \in Nat, NEW e \in Nat, NEW l \in Nat, NEW w \in Nat, NEW p \in Nat,
         NEW d \in Nat, NEW f \in Nat, NEW g \in Nat,
         q = g + l + w + p + d + f, g = e + 1
  PROVE  /\ q = e + (l + 1) + w + p + d + f
         /\ q = e + l + w + p + (d + 1) + f
OBVIOUS

\* Only WriteMsg and Enqueue change who is about to send an event, and every
\* other step moves an event from one place of the sum to another.
LEMMA ConservationPreserved ==
  ASSUME TypeOK, TypeOK', Conservation, [Next]_vars
  PROVE  Conservation'
<1> USE DEF TypeOK
<1> DEFINE E == InStep("enqueue")
<1>0. queries = Cardinality(E) + Len(queue) + WriterHolds + persisted + dropped + failed
  BY DEF Conservation
<1>1. /\ Cardinality(E) \in Nat /\ Len(queue) \in Nat /\ Len(queue') \in Nat
      /\ WriterHolds \in Nat
      /\ persisted \in Nat /\ dropped \in Nat /\ failed \in Nat /\ queries \in Nat
  BY HandlersAssumption, FS_Subset, FS_CardinalityType, LenProperties DEF InStep, WriterHolds
<1>2. ASSUME NEW h \in Handlers, WriteMsg(h) PROVE Conservation'
  <2>1. h \notin E /\ E' = E \cup {h} /\ E \in SUBSET Handlers
    BY <1>2 DEF WriteMsg, Goto, InStep
  <2>2. Cardinality(E') = Cardinality(E) + 1
    BY <2>1, OneMoreHandler
  <2>3. /\ queries' = queries + 1 /\ WriterHolds' = WriterHolds
        /\ UNCHANGED <<queue, persisted, dropped, failed>>
    BY <1>2 DEF WriteMsg, writer, WriterHolds
  <2>4. queries' = Cardinality(E') + Len(queue') + WriterHolds' + persisted' + dropped' + failed'
    <3> HIDE DEF E
    <3> QED
      BY ONLY <1>0, <1>1, <2>2, <2>3
  <2> QED
    BY <2>4 DEF Conservation
<1>3. ASSUME NEW h \in Handlers, Enqueue(h) PROVE Conservation'
  <2>1. h \notin E' /\ E = E' \cup {h} /\ E' \in SUBSET Handlers
    BY <1>3 DEF Enqueue, Return, Goto, InStep
  <2>2. Cardinality(E') \in Nat /\ Cardinality(E) = Cardinality(E') + 1
    BY <2>1, OneMoreHandler
  <2>3. \/ Len(queue') = Len(queue) + 1 /\ dropped' = dropped
        \/ Len(queue') = Len(queue) /\ dropped' = dropped + 1
    <3>1. [action |-> action[h], host |-> host[h]] \in Events
      BY DEF Events
    <3> QED
      BY <1>3, <3>1, AppendProperties DEF Enqueue
  <2>4. /\ WriterHolds' = WriterHolds
        /\ queries' = queries /\ persisted' = persisted /\ failed' = failed
    BY <1>3 DEF Enqueue, WriterHolds
  <2>5. queries' = Cardinality(E') + Len(queue') + WriterHolds' + persisted' + dropped' + failed'
    <3>1. PICK e \in Nat : e = Cardinality(E')
      BY <2>2
    <3>2. PICK g \in Nat : g = Cardinality(E)
      BY <1>1
    <3>3. PICK l \in Nat, w \in Nat : l = Len(queue) /\ w = WriterHolds
      BY <1>1
    <3>4. queries = g + l + w + persisted + dropped + failed /\ g = e + 1
      BY ONLY <1>0, <2>2, <3>1, <3>2, <3>3
    <3>5. /\ queries = e + (l + 1) + w + persisted + dropped + failed
          /\ queries = e + l + w + persisted + (dropped + 1) + failed
      BY ONLY <1>1, <3>4, SumShift
    <3> QED
      BY ONLY <2>3, <2>4, <3>1, <3>3, <3>5
  <2> QED
    BY <2>5 DEF Conservation
<1>4. CASE eventWriter
  <2>1. E' = E
    BY <1>4 DEF eventWriter, WriterTake, WriterStop, WriterBegin, WriterCommit, WriterFail, InStep
  <2>2. UNCHANGED <<queries, dropped>>
    BY <1>4 DEF eventWriter, WriterTake, WriterStop, WriterBegin, WriterCommit, WriterFail, counters
  <2>3. CASE WriterTake
    <3>1. Len(queue') = Len(queue) - 1
      BY <2>3, HeadTailProperties DEF WriterTake
    <3> QED
      BY <1>1, <2>1, <2>2, <2>3, <3>1 DEF WriterTake, Conservation, WriterHolds, counters
  <2>4. CASE WriterStop \/ WriterBegin
    BY <1>1, <2>1, <2>2, <2>4 DEF WriterStop, WriterBegin, Conservation, WriterHolds, counters
  <2>5. CASE WriterCommit \/ WriterFail
    <3>1. /\ WriterHolds = 1 /\ WriterHolds' = 0 /\ queue' = queue
          /\ \/ persisted' = persisted + 1 /\ failed' = failed
             \/ persisted' = persisted /\ failed' = failed + 1
      BY <2>5 DEF WriterCommit, WriterFail, WriterHolds
    <3>2. queries' = Cardinality(E') + Len(queue') + WriterHolds' + persisted' + dropped' + failed'
      <4> HIDE DEF E
      <4> QED
        BY ONLY <1>0, <1>1, <2>1, <2>2, <3>1
    <3> QED
      BY <3>2 DEF Conservation
  <2> QED
    BY <1>4, <2>3, <2>4, <2>5 DEF eventWriter
<1>5. CASE ~eventWriter /\ \A h \in Handlers : ~WriteMsg(h) /\ ~Enqueue(h)
  <2>1. E' = E
    BY <1>5 DEF Next, Handle, Proceed, Receive, CacheMiss, Lookup, EnsureHost,
                RejectEmptyQuestion, MatchRuleNone, MatchRule,
                RecordRuleHit, MatchBlocklist, staticAnswer, Forward, Goto, InStep,
                AdminBegin, AdminEnd, Cancel, Exit, Exited, vars
  <2>2. UNCHANGED <<queue, wpc, queries, persisted, dropped, failed>>
    BY <1>5 DEF Next, Handle, Proceed, Receive, CacheMiss, Lookup, EnsureHost,
                RejectEmptyQuestion, MatchRuleNone, MatchRule,
                RecordRuleHit, MatchBlocklist, staticAnswer, Forward, writer, counters,
                AdminBegin, AdminEnd, Cancel, Exit, Exited, vars
  <2> QED
    BY <2>1, <2>2 DEF Conservation, WriterHolds
<1> QED
  BY <1>2, <1>3, <1>4, <1>5

\* A rule or a blocklist blocks a request that is not blocked yet; the blocked
\* request leaves its handler in Enqueue.
LEMMA BlockedPreserved ==
  ASSUME TypeOK, DecisionSteps, BlockedOnce, [Next]_vars
  PROVE  BlockedOnce'
<1> USE DEF TypeOK
<1> DEFINE B == {h \in Handlers : action[h] = "blocked"}
<1>1. Cardinality(B) \in Nat
  BY HandlersAssumption, FS_Subset, FS_CardinalityType
<1>2. ASSUME NEW h \in Handlers, RecordRuleHit(h) \/ MatchBlocklist(h), action' # action
      PROVE  BlockedOnce'
  <2>1. action[h] # "blocked"
    BY <1>2 DEF RecordRuleHit, MatchBlocklist, DecisionSteps
  <2>2. h \notin B /\ B' = B \cup {h} /\ B \in SUBSET Handlers
    BY <1>2, <2>1 DEF RecordRuleHit, MatchBlocklist
  <2>3. Cardinality(B') = Cardinality(B) + 1
    BY <2>2, OneMoreHandler
  <2>4. blocked' = blocked + 1 /\ blockedOut' = blockedOut
    BY <1>2 DEF RecordRuleHit, MatchBlocklist
  <2> QED
    BY <1>1, <2>3, <2>4 DEF BlockedOnce
<1>3. ASSUME NEW h \in Handlers, RecordRuleHit(h) \/ MatchBlocklist(h), action' = action
      PROVE  BlockedOnce'
  <2>1. blocked' = blocked /\ blockedOut' = blockedOut
    BY <1>3 DEF RecordRuleHit, MatchBlocklist, DecisionSteps
  <2> QED
    BY <1>3, <2>1 DEF BlockedOnce
<1>4. ASSUME NEW h \in Handlers, Enqueue(h) PROVE BlockedOnce'
  <2>1. blocked' = blocked
    BY <1>4 DEF Enqueue
  <2>2. CASE action[h] = "blocked"
    <3>1. h \notin B' /\ B = B' \cup {h} /\ B' \in SUBSET Handlers
      BY <1>4, <2>2 DEF Enqueue, Return
    <3>2. Cardinality(B') \in Nat /\ Cardinality(B) = Cardinality(B') + 1
      BY <3>1, OneMoreHandler
    <3>3. blockedOut' = blockedOut + 1
      BY <1>4, <2>2 DEF Enqueue, IsBlocked
    <3> QED
      BY <2>1, <3>2, <3>3 DEF BlockedOnce
  <2>3. CASE action[h] # "blocked"
    <3>1. B' = B
      BY <1>4, <2>3 DEF Enqueue, Return
    <3>2. blockedOut' = blockedOut
      BY <1>4, <2>3 DEF Enqueue, IsBlocked
    <3> QED
      BY <2>1, <3>1, <3>2 DEF BlockedOnce
  <2> QED
    BY <2>2, <2>3
<1>5. ASSUME NEW h \in Handlers, staticAnswer(h) \/ Forward(h) PROVE BlockedOnce'
  <2>1. B' = B
    BY <1>5 DEF staticAnswer, Forward, DecisionSteps
  <2>2. blocked' = blocked /\ blockedOut' = blockedOut
    BY <1>5 DEF staticAnswer, Forward, counters
  <2> QED
    BY <2>1, <2>2 DEF BlockedOnce
<1>6. CASE \A h \in Handlers : ~(RecordRuleHit(h) \/ MatchBlocklist(h) \/ Enqueue(h)
                                 \/ staticAnswer(h) \/ Forward(h))
  <2>1. UNCHANGED <<action, blocked, blockedOut>>
    BY <1>6 DEF Next, Handle, Proceed, Receive, CacheMiss, Lookup, EnsureHost,
                RejectEmptyQuestion, MatchRuleNone, MatchRule,
                WriteMsg, locals, counters, AdminBegin, AdminEnd, Cancel, Exit, Exited, vars,
                eventWriter, WriterTake, WriterStop, WriterBegin, WriterCommit, WriterFail
  <2> QED
    BY <2>1 DEF BlockedOnce
<1> QED
  BY <1>2, <1>3, <1>4, <1>5, <1>6

\* The inductive invariant holds in every reachable state.
THEOREM InvariantHolds == Spec => []IInv
<1>1. Init => IInv
  <2> SUFFICES ASSUME Init PROVE IInv
    OBVIOUS
  <2>1. TypeOK /\ DecisionSteps
    BY QueueCapAssumption DEF Init, TypeOK, DecisionSteps, NoEvent, Events, Actions, HandlerSteps
  <2>2. InStep("enqueue") = {} /\ {h \in Handlers : action[h] = "blocked"} = {}
    BY DEF Init, InStep
  <2>3. Cardinality(InStep("enqueue")) = 0 /\ Len(queue) = 0 /\ WriterHolds = 0
    BY <2>2, FS_EmptySet DEF Init, WriterHolds
  <2>4. Cardinality({h \in Handlers : action[h] = "blocked"}) = 0
    BY <2>2, FS_EmptySet
  <2>5. Conservation /\ BlockedOnce
    BY <2>3, <2>4 DEF Init, Conservation, BlockedOnce
  <2> QED
    BY <2>1, <2>5 DEF IInv
<1>2. IInv /\ [Next]_vars => IInv'
  BY TypePreserved, DecisionPreserved, ConservationPreserved, BlockedPreserved DEF IInv
<1> QED
  BY <1>1, <1>2, PTL DEF Spec

\* No event is lost without a counter or a failed write accounting for it.
THEOREM EventsConserved == Spec => []Conservation
<1>1. IInv => Conservation
  BY DEF IInv
<1> QED
  BY <1>1, InvariantHolds, PTL

\* The blocked counter counts every blocked request exactly once.
THEOREM BlockedCountedOnce == Spec => []BlockedOnce
<1>1. IInv => BlockedOnce
  BY DEF IInv
<1> QED
  BY <1>1, InvariantHolds, PTL

\* Blocked and local answers never reach the upstream, a rule beats the lists.
THEOREM DecisionsSound == Spec => []DecisionSound
<1>1. IInv => DecisionSound
  BY DEF IInv, DecisionSteps, DecisionSound
<1> QED
  BY <1>1, InvariantHolds, PTL
=============================================================================
