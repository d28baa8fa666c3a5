------------------------------ MODULE Resolver ------------------------------
(* The DNS server (internal/dnsserver/server.go): one goroutine per request  *)
(* runs handleDNS, one goroutine runs eventWriter, a bounded channel joins   *)
(* them, and all of them share the store's single SQLite connection with     *)
(* the API, the list refresh, the HA import and the retention purge.         *)
(*                                                                           *)
(* What a name matches is an input of the three lookups: an administrator    *)
(* may change the policy between any two of them, and a lookup that fails    *)
(* counts as no match.  A lookup answers from the store's copy of its table  *)
(* or, when that copy is missing, waits for the connection to load it.       *)
EXTENDS Integers, Sequences, FiniteSets

CONSTANTS
    Handlers,    \* goroutines of the DNS server
    Local,       \* those that are asked for names with a static record
    QueueCap,    \* cfg.EventQueueCap; getenvInt accepts positive values only
    MaxQueries   \* bound: requests accepted with a question

ASSUME HandlersAssumption == IsFiniteSet(Handlers)
ASSUME LocalAssumption == Local \subseteq Handlers
ASSUME QueueCapAssumption == QueueCap \in Nat \ {0}
ASSUME MaxQueriesAssumption == MaxQueries \in Nat

Actions == {"allowed", "blocked", "static", "upstream_failed"}

HandlerSteps == {"idle", "ensureHost", "question", "recordHit", "matchBlocklist",
                 "static", "forward", "reply", "enqueue"}

\* hostID is 0 when EnsureHost failed, otherwise the id of a row of hosts.
Events == [action : Actions, host : {0, 1}]

NoEvent == [action |-> "allowed", host |-> 0]

VARIABLES
    phase,      \* running; cancelled: the signal context is done; exited
    conn,       \* holder of the SQLite connection: free, writer, admin
    pc,         \* step of handleDNS each goroutine is at
    action,     \* its local variable action
    ruled,      \* action of the rule in matchedRuleID: none, allow, block
    host,       \* its hostID
    missing,    \* goroutines whose lookup found no copy of its table
    forwarded,  \* history: goroutines that asked the upstream for this request
    queue,      \* the channel events
    wpc,        \* step of eventWriter: select, begin, tx, stopped
    held,       \* event eventWriter has received, NoEvent while it selects
    queries, blocked, dropped,   \* the three atomic counters
    persisted,  \* events committed to query_events
    failed,     \* history: events whose InsertQueryEvent returned an error
    blockedOut  \* history: blocked events that left their handler

locals == <<action, ruled, host, missing, forwarded>>
counters == <<queries, blocked, dropped, persisted, failed, blockedOut>>
writer == <<queue, wpc, held>>
vars == <<phase, conn, pc, locals, writer, counters>>

TypeOK ==
    /\ phase \in {"running", "cancelled", "exited"}
    /\ conn \in {"free", "writer", "admin"}
    /\ pc \in [Handlers -> HandlerSteps]
    /\ action \in [Handlers -> Actions]
    /\ ruled \in [Handlers -> {"none", "allow", "block"}]
    /\ host \in [Handlers -> {0, 1}]
    /\ missing \in SUBSET Handlers
    /\ forwarded \in SUBSET Handlers
    /\ queue \in Seq(Events)
    /\ Len(queue) <= QueueCap
    /\ wpc \in {"select", "begin", "tx", "stopped"}
    /\ held \in Events
    /\ queries \in Nat /\ blocked \in Nat /\ dropped \in Nat
    /\ persisted \in Nat /\ failed \in Nat /\ blockedOut \in Nat
    /\ conn = "writer" <=> wpc = "tx"

Init ==
    /\ phase = "running"
    /\ conn = "free"
    /\ pc = [h \in Handlers |-> "idle"]
    /\ action = [h \in Handlers |-> "allowed"]
    /\ ruled = [h \in Handlers |-> "none"]
    /\ host = [h \in Handlers |-> 0]
    /\ missing = {}
    /\ forwarded = {}
    /\ queue = <<>> /\ wpc = "select" /\ held = NoEvent
    /\ queries = 0 /\ blocked = 0 /\ dropped = 0
    /\ persisted = 0 /\ failed = 0 /\ blockedOut = 0

Busy == {h \in Handlers : pc[h] # "idle"}

Goto(h, step) == pc' = [pc EXCEPT ![h] = step]

(***************************************************************************)
(* handleDNS                                                               *)
(***************************************************************************)

\* The library starts a goroutine for a request.
Receive(h) ==
    /\ phase # "exited" /\ pc[h] = "idle"
    /\ queries + Cardinality(Busy) < MaxQueries
    /\ Goto(h, "ensureHost")
    /\ UNCHANGED <<phase, conn, locals, writer, counters>>

\* Three statements on the shared connection, without a deadline; when one
\* fails the request goes on with hostID 0.
EnsureHost(h) ==
    /\ phase # "exited" /\ pc[h] = "ensureHost"
    /\ conn = "free"
    /\ \E id \in {0, 1} : host' = [host EXCEPT ![h] = id]
    /\ Goto(h, "question")
    /\ UNCHANGED <<phase, conn, action, ruled, missing, forwarded, writer, counters>>

\* A request without a question gets FORMERR: no counter, no event.
RejectEmptyQuestion(h) ==
    /\ phase # "exited" /\ pc[h] = "question" /\ h \notin missing
    /\ Goto(h, "idle")
    /\ host' = [host EXCEPT ![h] = 0]
    /\ UNCHANGED <<phase, conn, action, ruled, missing, forwarded, writer, counters>>

\* Rules, blocklistEntries or StaticRecords finds no copy of its table.
CacheMiss(h) ==
    /\ phase # "exited" /\ h \notin missing
    /\ \/ pc[h] = "question"
       \/ pc[h] = "matchBlocklist" /\ ruled[h] = "none"
       \/ pc[h] = "static" /\ action[h] # "blocked"
    /\ missing' = missing \cup {h}
    /\ UNCHANGED <<phase, conn, pc, action, ruled, host, forwarded, writer, counters>>

\* The lookup of step returns, after its SELECT if the copy was missing.
Lookup(h, step) ==
    /\ phase # "exited" /\ pc[h] = step
    /\ h \in missing => conn = "free"
    /\ missing' = missing \ {h}

\* No rule matches, or MatchRule fails and is logged.
MatchRuleNone(h) ==
    /\ Lookup(h, "question")
    /\ Goto(h, "matchBlocklist")
    /\ UNCHANGED <<phase, conn, action, ruled, host, forwarded, writer, counters>>

MatchRule(h) ==
    /\ Lookup(h, "question")
    /\ \E r \in {"allow", "block"} : ruled' = [ruled EXCEPT ![h] = r]
    /\ Goto(h, "recordHit")
    /\ UNCHANGED <<phase, conn, action, host, forwarded, writer, counters>>

\* RecordRuleHit waits for the connection; then the rule decides.
RecordRuleHit(h) ==
    /\ phase # "exited" /\ pc[h] = "recordHit"
    /\ conn = "free"
    /\ IF ruled[h] = "block"
         THEN /\ action' = [action EXCEPT ![h] = "blocked"]
              /\ blocked' = blocked + 1
         ELSE UNCHANGED <<action, blocked>>
    /\ Goto(h, "matchBlocklist")
    /\ UNCHANGED <<phase, conn, ruled, host, missing, forwarded, writer,
                   queries, dropped, persisted, failed, blockedOut>>

\* Mutant: the blocklists are asked although a rule has decided.
MatchBlocklistAfterRule(h) ==
    /\ Lookup(h, "matchBlocklist")
    /\ \/ /\ action' = [action EXCEPT ![h] = "blocked"]
          /\ blocked' = blocked + 1
       \/ UNCHANGED <<action, blocked>>
    /\ Goto(h, "static")
    /\ UNCHANGED <<phase, conn, ruled, host, forwarded, writer,
                   queries, dropped, persisted, failed, blockedOut>>

\* Asked only when no rule matched; a failure counts as no match.
MatchBlocklist(h) ==
    /\ Lookup(h, "matchBlocklist")
    /\ \/ /\ action[h] # "blocked" /\ ruled[h] = "none"
          /\ action' = [action EXCEPT ![h] = "blocked"]
          /\ blocked' = blocked + 1
       \/ UNCHANGED <<action, blocked>>
    /\ Goto(h, "static")
    /\ UNCHANGED <<phase, conn, ruled, host, forwarded, writer,
                   queries, dropped, persisted, failed, blockedOut>>

\* The records come last: a name that is blocked is not looked up.  A name of
\* Local has its record all the while, so that no answer is a failed lookup;
\* another name may have got one since the request came.
staticAnswer(h) ==
    /\ Lookup(h, "static")
    /\ \/ /\ action[h] # "blocked"
          /\ action' = [action EXCEPT ![h] = "static"]
       \/ UNCHANGED action
    /\ Goto(h, "forward")
    /\ UNCHANGED <<phase, conn, ruled, host, forwarded, writer, counters>>

\* Mutant: a sinkholed request is forwarded all the same.
ForwardUnlessStatic(h) ==
    /\ phase # "exited" /\ pc[h] = "forward"
    /\ IF action[h] # "static"
         THEN /\ forwarded' = forwarded \cup {h}
              /\ \/ action' = [action EXCEPT ![h] = "upstream_failed"]
                 \/ UNCHANGED action
         ELSE UNCHANGED <<forwarded, action>>
    /\ Goto(h, "reply")
    /\ UNCHANGED <<phase, conn, ruled, host, missing, writer, counters>>

\* UDP, then TCP when UDP fails; both failing is SERVFAIL.
Forward(h) ==
    /\ phase # "exited" /\ pc[h] = "forward"
    /\ IF action[h] \notin {"blocked", "static"}
         THEN /\ forwarded' = forwarded \cup {h}
              /\ \/ action' = [action EXCEPT ![h] = "upstream_failed"]
                 \/ UNCHANGED action
         ELSE UNCHANGED <<forwarded, action>>
    /\ Goto(h, "reply")
    /\ UNCHANGED <<phase, conn, ruled, host, missing, writer, counters>>

\* The reply is written (an error is logged) and the request counted.
WriteMsg(h) ==
    /\ phase # "exited" /\ pc[h] = "reply"
    /\ queries' = queries + 1
    /\ Goto(h, "enqueue")
    /\ UNCHANGED <<phase, conn, locals, writer, blocked, dropped, persisted, failed, blockedOut>>

\* The handler returns: its locals are gone.
Return(h) ==
    /\ Goto(h, "idle")
    /\ action' = [action EXCEPT ![h] = "allowed"]
    /\ ruled' = [ruled EXCEPT ![h] = "none"]
    /\ host' = [host EXCEPT ![h] = 0]
    /\ forwarded' = forwarded \ {h}
    /\ UNCHANGED missing

IsBlocked(h) == IF action[h] = "blocked" THEN 1 ELSE 0

\* Mutant: a full channel loses the event without a trace.
EnqueueSilently(h) ==
    /\ phase # "exited" /\ pc[h] = "enqueue"
    /\ queue' = IF Len(queue) < QueueCap
                  THEN Append(queue, [action |-> action[h], host |-> host[h]]) ELSE queue
    /\ blockedOut' = blockedOut + IsBlocked(h)
    /\ Return(h)
    /\ UNCHANGED <<phase, conn, wpc, held, queries, blocked, dropped, persisted, failed>>

\* Mutant: the test for room is off by one.
EnqueueOneTooMany(h) ==
    /\ phase # "exited" /\ pc[h] = "enqueue"
    /\ IF Len(queue) <= QueueCap
         THEN /\ queue' = Append(queue, [action |-> action[h], host |-> host[h]])
              /\ UNCHANGED dropped
         ELSE /\ dropped' = dropped + 1
              /\ UNCHANGED queue
    /\ blockedOut' = blockedOut + IsBlocked(h)
    /\ Return(h)
    /\ UNCHANGED <<phase, conn, wpc, held, queries, blocked, persisted, failed>>

\* The send never blocks: a full channel drops the event and counts it.
Enqueue(h) ==
    /\ phase # "exited" /\ pc[h] = "enqueue"
    /\ IF Len(queue) < QueueCap
         THEN /\ queue' = Append(queue, [action |-> action[h], host |-> host[h]])
              /\ UNCHANGED dropped
         ELSE /\ dropped' = dropped + 1
              /\ UNCHANGED queue
    /\ blockedOut' = blockedOut + IsBlocked(h)
    /\ Return(h)
    /\ UNCHANGED <<phase, conn, wpc, held, queries, blocked, persisted, failed>>

(***************************************************************************)
(* eventWriter and InsertQueryEvent                                        *)
(***************************************************************************)

WriterTake ==
    /\ phase # "exited" /\ wpc = "select"
    /\ queue # <<>>
    /\ held' = Head(queue)
    /\ queue' = Tail(queue)
    /\ wpc' = "begin"
    /\ UNCHANGED <<phase, conn, pc, locals, counters>>

\* ctx is done; select may take this branch although events are waiting.
WriterStop ==
    /\ phase = "cancelled" /\ wpc = "select"
    /\ wpc' = "stopped"
    /\ UNCHANGED <<phase, conn, pc, locals, queue, held, counters>>

\* BeginTx gets the connection.
WriterBegin ==
    /\ phase # "exited" /\ wpc = "begin"
    /\ conn = "free"
    /\ conn' = "writer"
    /\ wpc' = "tx"
    /\ UNCHANGED <<phase, pc, locals, queue, held, counters>>

\* The event, the host counters and the block event are one transaction; the
\* foreign key on hosts refuses hostID 0.
WriterCommit ==
    /\ phase # "exited" /\ wpc = "tx"
    /\ held.host # 0
    /\ persisted' = persisted + 1
    /\ conn' = "free"
    /\ wpc' = "select" /\ held' = NoEvent
    /\ UNCHANGED <<phase, pc, locals, queue, queries, blocked, dropped, failed, blockedOut>>

\* Mutant: the failed transaction is not rolled back, the connection leaks.
WriterFailLeaks ==
    /\ phase # "exited" /\ wpc \in {"begin", "tx"}
    /\ failed' = failed + 1
    /\ wpc' = "select" /\ held' = NoEvent
    /\ UNCHANGED <<phase, conn, pc, locals, queue, queries, blocked, dropped, persisted, blockedOut>>

\* Mutant: the writer goroutine returns after an error.
WriterFailReturns ==
    /\ phase # "exited" /\ wpc \in {"begin", "tx"}
    /\ failed' = failed + 1
    /\ conn' = IF wpc = "tx" THEN "free" ELSE conn
    /\ wpc' = "stopped" /\ held' = NoEvent
    /\ UNCHANGED <<phase, pc, locals, queue, queries, blocked, dropped, persisted, blockedOut>>

\* The two seconds are over while waiting for the connection or inside the
\* transaction, or a statement fails: rolled back, logged, not retried.
WriterFail ==
    /\ phase # "exited" /\ wpc \in {"begin", "tx"}
    /\ failed' = failed + 1
    /\ conn' = IF wpc = "tx" THEN "free" ELSE conn
    /\ wpc' = "select" /\ held' = NoEvent
    /\ UNCHANGED <<phase, pc, locals, queue, queries, blocked, dropped, persisted, blockedOut>>

(***************************************************************************)
(* The rest of the process                                                 *)
(***************************************************************************)

\* A transaction of another part (list refresh, HA import, retention purge)
\* holds the connection from BeginTx to Commit or Rollback.
AdminBegin ==
    /\ phase # "exited" /\ conn = "free"
    /\ conn' = "admin"
    /\ UNCHANGED <<phase, pc, locals, writer, counters>>

AdminEnd ==
    /\ phase # "exited" /\ conn = "admin"
    /\ conn' = "free"
    /\ UNCHANGED <<phase, pc, locals, writer, counters>>

\* SIGINT or SIGTERM.
Cancel ==
    /\ phase = "running"
    /\ phase' = "cancelled"
    /\ UNCHANGED <<conn, pc, locals, writer, counters>>

\* main returns.  Its resolver.Shutdown and the one of Start race, the second
\* finds the servers stopped and waits for nobody: handlers and the writer
\* may be anywhere, and events may be left in the channel.
Exit ==
    /\ phase = "cancelled"
    /\ phase' = "exited"
    /\ UNCHANGED <<conn, pc, locals, writer, counters>>

Exited == phase = "exited" /\ UNCHANGED vars

\* The steps that take a request further.
Proceed(h) ==
    \/ EnsureHost(h) \/ RejectEmptyQuestion(h)
    \/ MatchRuleNone(h) \/ MatchRule(h) \/ RecordRuleHit(h)
    \/ MatchBlocklist(h) \/ staticAnswer(h) \/ Forward(h)
    \/ WriteMsg(h) \/ Enqueue(h)

Handle(h) == Receive(h) \/ CacheMiss(h) \/ Proceed(h)

eventWriter == WriterTake \/ WriterStop \/ WriterBegin \/ WriterCommit \/ WriterFail

Next ==
    \/ \E h \in Handlers : Handle(h)
    \/ eventWriter
    \/ AdminBegin \/ AdminEnd \/ Cancel \/ Exit \/ Exited

Spec == Init /\ [][Next]_vars

\* A goroutine that can run runs.  A goroutine that waits for the connection
\* gets it although others take it too (SF): database/sql hands a released
\* connection to one of the waiters.  Transactions end.
Fairness ==
    /\ \A h \in Handlers : SF_vars(Proceed(h))
    /\ WF_vars(eventWriter)
    /\ WF_vars(AdminEnd)

FairSpec == Spec /\ Fairness

(***************************************************************************)
(* Properties                                                              *)
(***************************************************************************)

InStep(step) == {h \in Handlers : pc[h] = step}

WriterHolds == IF wpc \in {"begin", "tx"} THEN 1 ELSE 0

\* Every counted request is accounted for exactly once: its event is about to
\* be sent, in the channel, with the writer, in SQLite, dropped and counted,
\* or given up by the writer (handleDNS, eventWriter).
Conservation ==
    queries = Cardinality(InStep("enqueue")) + Len(queue) + WriterHolds
                + persisted + dropped + failed

\* The counter behind the blocked ratio counts a blocked request once, rule or
\* blocklist, and no other: it is the blocked events that left their handler
\* plus the blocked requests still in one.
BlockedOnce ==
    blocked = blockedOut + Cardinality({h \in Handlers : action[h] = "blocked"})

\* When the reply is written: a sinkholed or locally answered request was not
\* shown to the upstream and every other one was; a matching rule decides
\* against the blocklists, whichever way it goes.  Nothing is said of a block
\* rule for a name with a static record: the code lets the rule win, the hot
\* path of docs/architecture.md lets the record win.
DecisionSound ==
    \A h \in Handlers : pc[h] \in {"reply", "enqueue"} =>
        /\ h \in forwarded <=> action[h] \in {"allowed", "upstream_failed"}
        /\ ruled[h] = "block" /\ h \notin Local => action[h] = "blocked"
        /\ ruled[h] = "allow" => action[h] # "blocked"

\* Inductive form of DecisionSound: what holds of the locals at each step.
DecisionSteps ==
    \A h \in Handlers :
        LET a == action[h]
            r == ruled[h]
        IN  /\ pc[h] \in {"idle", "ensureHost", "question"} => a = "allowed" /\ r = "none"
            /\ pc[h] = "recordHit" => a = "allowed" /\ r # "none"
            /\ pc[h] = "matchBlocklist" => a = IF r = "block" THEN "blocked" ELSE "allowed"
            /\ pc[h] = "static" => a \in {"allowed", "blocked"}
            /\ pc[h] = "forward" => a # "upstream_failed"
            /\ pc[h] \in {"static", "forward", "reply", "enqueue"} =>
                  /\ r = "block" => a = "blocked"
                  /\ r = "allow" => a # "blocked"
            /\ IF pc[h] \in {"reply", "enqueue"}
                 THEN h \in forwarded <=> a \in {"allowed", "upstream_failed"}
                 ELSE h \notin forwarded

IInv == TypeOK /\ DecisionSteps /\ Conservation /\ BlockedOnce

\* Every request is answered, whatever fails and whoever holds the connection,
\* unless the process exits.
EveryRequestAnswered ==
    \A h \in Handlers : pc[h] # "idle" ~> pc[h] = "idle" \/ phase = "exited"

\* A full channel drains as long as the process is not told to stop, so drops
\* end when the burst does.
FullQueueDrains ==
    Len(queue) = QueueCap ~> Len(queue) < QueueCap \/ phase # "running"
=============================================================================
