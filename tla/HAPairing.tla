------------------------------ MODULE HAPairing ------------------------------
(* Pairing of the nodes and the heartbeat (the ha.* handlers of              *)
(* internal/htt_server/server.go, the join requests, SaveHASettings,         *)
(* TestHAPeer and HAHealth of internal/store/store.go), seen from the        *)
(* primary.                                                                  *)
(*                                                                           *)
(* A node asks to join with a POST; an administrator of the primary accepts; *)
(* the primary configures the node over HTTP, then itself.  All requests     *)
(* live in one JSON document in the settings table that each handler reads   *)
(* whole, changes in memory and writes back.  Handlers run concurrently.     *)
(* A node stands for its url and its admin token, which always travel        *)
(* together in a request; the id of a request is random, so fresh.           *)
EXTENDS FiniteSets

CONSTANTS
    Nodes,     \* nodes that may become the secondary
    Ids,       \* ids of join requests
    Workers,   \* HTTP handlers of the primary
    Probes,    \* heartbeats in flight: the one-minute ticker, the button
    None       \* no node

ASSUME NoneAssumption == None \notin Nodes

VARIABLES
    doc,          \* doc[i]: status of request i in ha.join_requests
    owner,        \* owner[i]: node of request i, None while i is unused
    pc,           \* step of each handler
    snap,         \* snap[w]: the document as handler w read it
    node,         \* node[w]: the node that posts, or whose request is accepted
    req,          \* req[w]: the request handler w accepts (a set, at most one)
    peer,         \* the peer of an enabled primary
    secondaries,  \* nodes whose own role is secondary
    probe,        \* probe[p]: node a heartbeat asks, None: no heartbeat
    beat,         \* node whose answer ha.last_heartbeat is, None: stale
    acked,        \* history: requests whose POST was answered 200
    done,         \* history: requests whose acceptance was answered 200
    overlapped,   \* history: a write overwrote a document its handler had not read
    configured,   \* history: nodes the primary has configured as secondary
    stored        \* history: nodes the primary has stored as its peer

handlers == <<pc, snap, node, req>>
health == <<probe, beat>>
history == <<acked, done, overlapped, configured, stored>>
vars == <<doc, owner, handlers, peer, secondaries, health, history>>

Documents == [Ids -> {"absent", "pending", "accepted"}]

NoRequests == [i \in Ids |-> "absent"]

\* Requests of n that document d shows as pending.
PendingOf(d, n) == {i \in Ids : d[i] = "pending" /\ owner[i] = n}

\* A document lists at most one pending request for a node.
OnePending(d) == \A i, j \in Ids : d[i] = "pending" /\ d[j] = "pending" /\ owner[i] = owner[j] => i = j

\* Types; requests in use belong to a node, and no document, stored or in the
\* hands of a handler, has two pending requests of one node.
TypeOK ==
    /\ doc \in Documents /\ OnePending(doc)
    /\ owner \in [Ids -> Nodes \cup {None}]
    /\ \A i \in Ids : doc[i] # "absent" => owner[i] \in Nodes
    /\ pc \in [Workers -> {"idle", "save", "configure", "recheck", "store", "read", "mark"}]
    /\ snap \in [Workers -> Documents]
    /\ \A w \in Workers : OnePending(snap[w])
    /\ \A w \in Workers, i \in Ids : snap[w][i] # "absent" => owner[i] \in Nodes
    /\ node \in [Workers -> Nodes \cup {None}]
    /\ req \in [Workers -> SUBSET Ids]
    /\ peer \in Nodes \cup {None}
    /\ secondaries \in SUBSET Nodes
    /\ probe \in [Probes -> Nodes \cup {None}]
    /\ beat \in Nodes \cup {None}
    /\ acked \in SUBSET Ids /\ done \in SUBSET Ids
    /\ overlapped \in BOOLEAN
    /\ configured \in SUBSET Nodes /\ stored \in SUBSET Nodes

Init ==
    /\ doc = NoRequests
    /\ owner = [i \in Ids |-> None]
    /\ pc = [w \in Workers |-> "idle"]
    /\ snap = [w \in Workers |-> NoRequests]
    /\ node = [w \in Workers |-> None]
    /\ req = [w \in Workers |-> {}]
    /\ peer = None
    /\ secondaries = {}
    /\ probe = [p \in Probes |-> None]
    /\ beat = None
    /\ acked = {} /\ done = {} /\ overlapped = FALSE
    /\ configured = {} /\ stored = {}

\* The handler answers and its locals are gone.
Return(w) ==
    /\ pc' = [pc EXCEPT ![w] = "idle"]
    /\ snap' = [snap EXCEPT ![w] = NoRequests]
    /\ node' = [node EXCEPT ![w] = None]
    /\ req' = [req EXCEPT ![w] = {}]

\* saveHAJoinRequests: the whole document is replaced.
saveHAJoinRequests(w, d) ==
    /\ doc' = d
    /\ overlapped' = (overlapped \/ snap[w] # doc)

(***************************************************************************)
(* POST /api/ha/join-requests                                              *)
(***************************************************************************)

\* haRequestJoin of node n posts, and the handler reads the document.
haJoinRequests(w) ==
    /\ pc[w] = "idle"
    /\ \E n \in Nodes : node' = [node EXCEPT ![w] = n]
    /\ snap' = [snap EXCEPT ![w] = doc]
    /\ pc' = [pc EXCEPT ![w] = "save"]
    /\ UNCHANGED <<doc, owner, req, peer, secondaries, health, history>>

\* Mutant: a pending request is replaced by one with a new id.
SaveUnderNewId(w) ==
    /\ pc[w] = "save"
    /\ \E i \in Ids :
         /\ owner[i] = None
         /\ owner' = [owner EXCEPT ![i] = node[w]]
         /\ saveHAJoinRequests(w, [j \in Ids |->
              IF j = i THEN "pending"
              ELSE IF j \in PendingOf(snap[w], node[w]) THEN "absent" ELSE snap[w][j]])
         /\ acked' = acked \cup {i}
    /\ Return(w)
    /\ UNCHANGED <<peer, secondaries, health, done, configured, stored>>

\* Mutant: the request is appended even if one is pending.
SaveWithoutReplacing(w) ==
    /\ pc[w] = "save"
    /\ \E i \in Ids :
         /\ owner[i] = None
         /\ owner' = [owner EXCEPT ![i] = node[w]]
         /\ saveHAJoinRequests(w, [snap[w] EXCEPT ![i] = "pending"])
         /\ acked' = acked \cup {i}
    /\ Return(w)
    /\ UNCHANGED <<peer, secondaries, health, done, configured, stored>>

\* A pending request of the node is replaced under its id, otherwise a new
\* one is appended; the document goes back as it was read but for that.
SaveHAJoinRequest(w) ==
    /\ pc[w] = "save"
    /\ \E i \in Ids :
         /\ IF PendingOf(snap[w], node[w]) = {} THEN owner[i] = None
                                                ELSE i \in PendingOf(snap[w], node[w])
         /\ owner' = [owner EXCEPT ![i] = node[w]]
         /\ saveHAJoinRequests(w, [snap[w] EXCEPT ![i] = "pending"])
         /\ acked' = acked \cup {i}
    /\ Return(w)
    /\ UNCHANGED <<peer, secondaries, health, done, configured, stored>>

(***************************************************************************)
(* POST /api/ha/join-requests/accept                                       *)
(***************************************************************************)

\* Only a pending request is accepted; anything else is an error.
HAJoinRequestForAccept(w, i) ==
    /\ pc[w] = "idle" /\ doc[i] = "pending"
    /\ node' = [node EXCEPT ![w] = owner[i]]
    /\ req' = [req EXCEPT ![w] = {i}]
    /\ pc' = [pc EXCEPT ![w] = "configure"]
    /\ UNCHANGED <<doc, owner, snap, peer, secondaries, health, history>>

\* PUT /api/ha/settings on the node, answered 200.
configureAcceptedSecondary(w) ==
    /\ pc[w] = "configure"
    /\ secondaries' = secondaries \cup {node[w]}
    /\ configured' = configured \cup {node[w]}
    /\ pc' = [pc EXCEPT ![w] = "recheck"]
    /\ UNCHANGED <<doc, owner, snap, node, req, peer, health, acked, done, overlapped, stored>>

\* Mutant: the error of the PUT is not looked at.
ConfigureErrorIgnored(w) ==
    /\ pc[w] = "configure"
    /\ pc' = [pc EXCEPT ![w] = "recheck"]
    /\ UNCHANGED <<doc, owner, snap, node, req, peer, secondaries, health, history>>

\* Mutant: a request whose PUT failed is written off.
ConfigureFailsForGood(w) ==
    /\ pc[w] = "configure"
    /\ doc' = [i \in Ids |-> IF i \in req[w] THEN "absent" ELSE doc[i]]
    /\ Return(w)
    /\ UNCHANGED <<owner, peer, secondaries, health, history>>

\* The PUT fails, or times out after the node has done it: 502.
ConfigureFails(w) ==
    /\ pc[w] = "configure"
    /\ \/ /\ secondaries' = secondaries \cup {node[w]}
          /\ configured' = configured \cup {node[w]}
       \/ UNCHANGED <<secondaries, configured>>
    /\ Return(w)
    /\ UNCHANGED <<doc, owner, peer, health, acked, done, overlapped, stored>>

\* AcceptHAJoinRequest looks the request up again.
AcceptHAJoinRequest(w) ==
    /\ pc[w] = "recheck"
    /\ \A i \in req[w] : doc[i] = "pending"
    /\ pc' = [pc EXCEPT ![w] = "store"]
    /\ UNCHANGED <<doc, owner, snap, node, req, peer, secondaries, health, history>>

\* SaveHASettings with the node as peer; the role is primary already.
StorePeer(w) ==
    /\ pc[w] = "store"
    /\ peer' = node[w]
    /\ stored' = stored \cup {node[w]}
    /\ pc' = [pc EXCEPT ![w] = "read"]
    /\ UNCHANGED <<doc, owner, snap, node, req, secondaries, health, acked, done, overlapped, configured>>

\* MarkHAJoinRequestAccepted reads the document ...
ReadForMark(w) ==
    /\ pc[w] = "read"
    /\ \A i \in req[w] : doc[i] = "pending"
    /\ snap' = [snap EXCEPT ![w] = doc]
    /\ pc' = [pc EXCEPT ![w] = "mark"]
    /\ UNCHANGED <<doc, owner, node, req, peer, secondaries, health, history>>

\* ... and writes it back with the new status.
MarkHAJoinRequestAccepted(w) ==
    /\ pc[w] = "mark"
    /\ saveHAJoinRequests(w, [i \in Ids |-> IF i \in req[w] THEN "accepted" ELSE snap[w][i]])
    /\ done' = done \cup req[w]
    /\ Return(w)
    /\ UNCHANGED <<owner, peer, secondaries, health, acked, configured, stored>>

\* The request is gone or not pending any more, or a statement fails: the
\* handler answers with an error and takes nothing back.
HandlerFails(w) ==
    /\ pc[w] \in {"save", "recheck", "store", "read", "mark"}
    /\ Return(w)
    /\ UNCHANGED <<doc, owner, peer, secondaries, health, history>>

(***************************************************************************)
(* Settings, heartbeat, restart                                            *)
(***************************************************************************)

\* An administrator changes or clears the peer; the heartbeat stays recorded.
SaveHASettings ==
    /\ peer' \in Nodes \cup {None}
    /\ UNCHANGED <<doc, owner, handlers, secondaries, health, history>>

\* The same on a node, which changes its role.
SaveRole(n) ==
    /\ secondaries' = IF n \in secondaries THEN secondaries \ {n} ELSE secondaries \cup {n}
    /\ UNCHANGED <<doc, owner, handlers, peer, health, history>>

\* TestHAPeer reads the settings and asks the peer.
TestHAPeer(p) ==
    /\ probe[p] = None /\ peer # None
    /\ probe' = [probe EXCEPT ![p] = peer]
    /\ UNCHANGED <<doc, owner, handlers, peer, secondaries, beat, history>>

\* The node answers with the expected role: the time is recorded, whoever the
\* peer is by now.
HeartbeatOk(p) ==
    /\ probe[p] \in secondaries
    /\ beat' = probe[p]
    /\ probe' = [probe EXCEPT ![p] = None]
    /\ UNCHANGED <<doc, owner, handlers, peer, secondaries, history>>

\* No answer, an error or another role: only the status text changes.
HeartbeatFails(p) ==
    /\ probe[p] # None
    /\ probe' = [probe EXCEPT ![p] = None]
    /\ UNCHANGED <<doc, owner, handlers, peer, secondaries, beat, history>>

\* Mutant: a recorded heartbeat never gets stale.
HeartbeatNeverStale == FALSE /\ UNCHANGED vars

\* HAHealth: after 180 s the recorded heartbeat is stale.
HeartbeatStale ==
    /\ beat # None
    /\ beat' = None
    /\ UNCHANGED <<doc, owner, handlers, peer, secondaries, probe, history>>

\* The primary restarts: settings stay, handlers and heartbeats are gone.
Restart ==
    /\ pc' = [w \in Workers |-> "idle"]
    /\ snap' = [w \in Workers |-> NoRequests]
    /\ node' = [w \in Workers |-> None]
    /\ req' = [w \in Workers |-> {}]
    /\ probe' = [p \in Probes |-> None]
    /\ UNCHANGED <<doc, owner, peer, secondaries, beat, history>>

Next ==
    \/ \E w \in Workers :
         \/ haJoinRequests(w) \/ SaveHAJoinRequest(w)
         \/ \E i \in Ids : HAJoinRequestForAccept(w, i)
         \/ configureAcceptedSecondary(w) \/ ConfigureFails(w)
         \/ AcceptHAJoinRequest(w) \/ StorePeer(w)
         \/ ReadForMark(w) \/ MarkHAJoinRequestAccepted(w) \/ HandlerFails(w)
    \/ SaveHASettings
    \/ \E n \in Nodes : SaveRole(n)
    \/ \E p \in Probes : TestHAPeer(p) \/ HeartbeatOk(p) \/ HeartbeatFails(p)
    \/ HeartbeatStale
    \/ Restart

Spec == Init /\ [][Next]_vars

\* Handlers and heartbeats end (clients time out), time passes, and the
\* administrator of the primary accepts a request that stays pending again and
\* again, with neither the network nor the disk failing every time.
Fairness ==
    /\ \A i \in Ids : SF_vars(\E w \in Workers : HAJoinRequestForAccept(w, i))
    /\ \A w \in Workers :
         /\ WF_vars(SaveHAJoinRequest(w) \/ ConfigureFails(w) \/ HandlerFails(w))
         /\ SF_vars(configureAcceptedSecondary(w))
         /\ SF_vars(AcceptHAJoinRequest(w)) /\ SF_vars(StorePeer(w))
         /\ SF_vars(ReadForMark(w)) /\ SF_vars(MarkHAJoinRequestAccepted(w))
    /\ \A p \in Probes : WF_vars(HeartbeatOk(p) \/ HeartbeatFails(p))
    /\ WF_vars(HeartbeatStale)

FairSpec == Spec /\ Fairness

(***************************************************************************)
(* Properties                                                              *)
(***************************************************************************)

\* A request is shown as accepted only if its node was configured as secondary
\* and stored as peer, whichever handlers overlap or fail half-way
\* (haJoinAccept, AcceptHAJoinRequest).
AcceptedWerePaired ==
    \A i \in Ids : doc[i] = "accepted" => owner[i] \in configured \cap stored

\* What a handler has answered stays true of the document, a request that was
\* taken and one that was accepted alike, unless some handler wrote back a
\* document that had changed since it read it.
AnswersKeptUnlessOverlap ==
    \/ overlapped
    \/ /\ \A i \in acked : doc[i] # "absent"
       /\ \A i \in done : doc[i] = "accepted"

\* A failed acceptance can be repeated until it succeeds, also after the node
\* was configured and the primary was not: no request gets stuck.
PendingGetsPaired ==
    \A i \in Ids : i \in acked ~> doc[i] = "accepted" \/ overlapped

\* When the peer no longer changes, the heartbeat of a former peer does not
\* pass for its own for ever (TestHAPeer, HAHealth).
WrongHealthPasses ==
    \A n \in Nodes : <>[](peer = n) => <>[](beat \in {n, None})

(***************************************************************************)
(* The inductive invariant behind the first two.                           *)
(***************************************************************************)

\* What a handler has read of accepted requests, and how far its own is.
HandlersPaired ==
    \A w \in Workers :
        /\ \A i \in Ids : snap[w][i] = "accepted" => owner[i] \in configured \cap stored
        /\ \A i \in req[w] : owner[i] = node[w] /\ node[w] \in Nodes
        /\ pc[w] \in {"idle", "save"} => req[w] = {}
        /\ pc[w] # "idle" => node[w] \in Nodes
        /\ pc[w] \in {"recheck", "store", "read", "mark"} => node[w] \in configured
        /\ pc[w] \in {"read", "mark"} => node[w] \in stored

IInv == TypeOK /\ HandlersPaired /\ AcceptedWerePaired /\ AnswersKeptUnlessOverlap
=============================================================================
