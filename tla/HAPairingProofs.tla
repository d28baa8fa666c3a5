-------------------------- MODULE HAPairingProofs --------------------------
(* Proofs about the pairing for any number of nodes, requests and handlers.  *)
EXTENDS HAPairing, TLAPS

\* The parts of TypeOK about the document and the handlers.
DocOK ==
  /\ doc \in Documents /\ OnePending(doc)
  /\ owner \in [Ids -> Nodes \cup {None}]
  /\ \A i \in Ids : doc[i] # "absent" => owner[i] \in Nodes

HandlersOK ==
  /\ pc \in [Workers -> {"idle", "save", "configure", "recheck", "store", "read", "mark"}]
  /\ snap \in [Workers -> Documents]
  /\ \A w \in Workers : OnePending(snap[w])
  /\ \A w \in Workers, i \in Ids : snap[w][i] # "absent" => owner[i] \in Nodes
  /\ node \in [Workers -> Nodes \cup {None}]
  /\ req \in [Workers -> SUBSET Ids]

RestOK ==
  /\ peer \in Nodes \cup {None}
  /\ secondaries \in SUBSET Nodes
  /\ probe \in [Probes -> Nodes \cup {None}]
  /\ beat \in Nodes \cup {None}
  /\ acked \in SUBSET Ids /\ done \in SUBSET Ids
  /\ overlapped \in BOOLEAN
  /\ configured \in SUBSET Nodes /\ stored \in SUBSET Nodes

LEMMA TypeParts == TypeOK <=> DocOK /\ HandlersOK /\ RestOK
BY DEF TypeOK, DocOK, HandlersOK, RestOK

\* What a handler writes back for a join request.
LEMMA SavedDocument ==
  ASSUME IInv, NEW w \in Workers, SaveHAJoinRequest(w)
  PROVE  \E i \in Ids :
           /\ doc' = [snap[w] EXCEPT ![i] = "pending"]
           /\ owner' = [owner EXCEPT ![i] = node[w]]
           /\ node[w] \in Nodes
           /\ \A j \in Ids : j # i => owner'[j] = owner[j]
           /\ owner'[i] = node[w]
           /\ acked' = acked \cup {i}
           /\ snap[w][i] # "accepted"
           /\ owner[i] \in {None, node[w]}
           /\ \A j \in Ids : snap[w][j] = "pending" /\ owner[j] = node[w] => j = i
           /\ owner[i] # node[w] => snap[w][i] = "absent" /\ doc[i] = "absent"
<1>1. PICK i \in Ids :
         /\ IF PendingOf(snap[w], node[w]) = {} THEN owner[i] = None
                                                ELSE i \in PendingOf(snap[w], node[w])
         /\ owner' = [owner EXCEPT ![i] = node[w]]
         /\ doc' = [snap[w] EXCEPT ![i] = "pending"]
         /\ acked' = acked \cup {i}
  BY DEF SaveHAJoinRequest, saveHAJoinRequests
<1>2. /\ node[w] \in Nodes /\ None \notin Nodes
      /\ owner \in [Ids -> Nodes \cup {None}]
      /\ snap[w] \in Documents /\ OnePending(snap[w])
      /\ \A j \in Ids : snap[w][j] # "absent" => owner[j] \in Nodes
      /\ \A j \in Ids : doc[j] # "absent" => owner[j] \in Nodes
  BY NoneAssumption DEF IInv, TypeOK, HandlersPaired, SaveHAJoinRequest
<1>3. CASE PendingOf(snap[w], node[w]) = {}
  <2>1. owner[i] = None /\ snap[w][i] = "absent" /\ doc[i] = "absent"
    BY <1>1, <1>2, <1>3
  <2>2. \A j \in Ids : ~(snap[w][j] = "pending" /\ owner[j] = node[w])
    BY <1>3 DEF PendingOf
  <2> QED
    BY <1>1, <1>2, <2>1, <2>2
<1>4. CASE PendingOf(snap[w], node[w]) # {}
  <2>1. snap[w][i] = "pending" /\ owner[i] = node[w]
    BY <1>1, <1>4 DEF PendingOf
  <2>2. \A j \in Ids : snap[w][j] = "pending" /\ owner[j] = node[w] => j = i
    BY <1>2, <2>1 DEF OnePending
  <2> QED
    BY <1>1, <1>2, <2>1, <2>2
<1> QED
  BY <1>3, <1>4

\* A step that leaves the document, its owners and the copies of the handlers
\* alone keeps what is known about them.
LEMMA Quiet ==
  ASSUME IInv, UNCHANGED <<doc, owner, acked, done, overlapped>>,
         configured \subseteq configured', stored \subseteq stored'
  PROVE  DocOK' /\ AcceptedWerePaired' /\ AnswersKeptUnlessOverlap'
<1>1. DocOK /\ AcceptedWerePaired /\ AnswersKeptUnlessOverlap
  BY TypeParts DEF IInv
<1>2. DocOK'
  BY <1>1 DEF DocOK, OnePending
<1>3. AcceptedWerePaired'
  BY <1>1 DEF AcceptedWerePaired
<1>4. AnswersKeptUnlessOverlap'
  BY <1>1 DEF AnswersKeptUnlessOverlap
<1> QED
  BY <1>2, <1>3, <1>4

\* The document a join request leaves behind.
LEMMA AfterSave ==
  ASSUME IInv, NEW w \in Workers, SaveHAJoinRequest(w)
  PROVE  DocOK' /\ AcceptedWerePaired' /\ AnswersKeptUnlessOverlap'
<1>1. PICK i \in Ids :
           /\ doc' = [snap[w] EXCEPT ![i] = "pending"]
           /\ owner' = [owner EXCEPT ![i] = node[w]]
           /\ node[w] \in Nodes
           /\ \A j \in Ids : j # i => owner'[j] = owner[j]
           /\ owner'[i] = node[w]
           /\ acked' = acked \cup {i}
           /\ snap[w][i] # "accepted"
           /\ owner[i] \in {None, node[w]}
           /\ \A j \in Ids : snap[w][j] = "pending" /\ owner[j] = node[w] => j = i
           /\ owner[i] # node[w] => snap[w][i] = "absent" /\ doc[i] = "absent"
  BY SavedDocument
<1>2. /\ snap[w] \in Documents /\ OnePending(snap[w])
      /\ \A j \in Ids : snap[w][j] # "absent" => owner[j] \in Nodes
      /\ \A j \in Ids : snap[w][j] = "accepted" => owner[j] \in configured \cap stored
      /\ owner \in [Ids -> Nodes \cup {None}]
      /\ doc \in Documents
      /\ AnswersKeptUnlessOverlap
  BY DEF IInv, TypeOK, HandlersPaired
<1>3. /\ overlapped' = (overlapped \/ snap[w] # doc)
      /\ UNCHANGED <<done, configured, stored>>
  BY DEF SaveHAJoinRequest, saveHAJoinRequests
<1>4. doc' \in Documents /\ \A j \in Ids : doc'[j] = IF j = i THEN "pending" ELSE snap[w][j]
  BY <1>1, <1>2 DEF Documents
<1>5. owner' \in [Ids -> Nodes \cup {None}]
  BY <1>1, <1>2
<1>6. OnePending(doc)'
  <2> SUFFICES ASSUME NEW j \in Ids, NEW k \in Ids,
                      doc'[j] = "pending", doc'[k] = "pending", owner'[j] = owner'[k]
               PROVE  j = k
    BY DEF OnePending
  <2>1. CASE j = i \/ k = i
    BY <1>1, <1>4, <2>1
  <2>2. CASE j # i /\ k # i
    BY <1>1, <1>2, <1>4, <2>2 DEF OnePending
  <2> QED
    BY <2>1, <2>2
<1>7. \A j \in Ids : doc'[j] # "absent" => owner'[j] \in Nodes
  BY <1>1, <1>2, <1>4
<1>8. AcceptedWerePaired'
  BY <1>1, <1>2, <1>3, <1>4 DEF AcceptedWerePaired
<1>9. AnswersKeptUnlessOverlap'
  <2>1. CASE overlapped \/ snap[w] # doc
    BY <1>3, <2>1 DEF AnswersKeptUnlessOverlap
  <2>2. CASE ~overlapped /\ snap[w] = doc
    <3>1. \A j \in acked' : j \in Ids => doc'[j] # "absent"
      BY <1>1, <1>2, <1>4, <2>2 DEF AnswersKeptUnlessOverlap
    <3>2. \A j \in done : j # i
      BY <1>1, <1>2, <2>2 DEF AnswersKeptUnlessOverlap
    <3>3. \A j \in done' : j \in Ids => doc'[j] = "accepted"
      BY <1>2, <1>3, <1>4, <2>2, <3>2 DEF AnswersKeptUnlessOverlap
    <3>4. acked' \subseteq Ids /\ done' \subseteq Ids
      BY <1>1, <1>3 DEF IInv, TypeOK
    <3> QED
      BY <3>1, <3>3, <3>4 DEF AnswersKeptUnlessOverlap
  <2> QED
    BY <2>1, <2>2
<1> QED
  BY <1>4, <1>5, <1>6, <1>7, <1>8, <1>9 DEF DocOK

\* The document an acceptance leaves behind.
LEMMA AfterMark ==
  ASSUME IInv, NEW w \in Workers, MarkHAJoinRequestAccepted(w)
  PROVE  DocOK' /\ AcceptedWerePaired' /\ AnswersKeptUnlessOverlap'
<1>1. /\ doc' = [i \in Ids |-> IF i \in req[w] THEN "accepted" ELSE snap[w][i]]
      /\ overlapped' = (overlapped \/ snap[w] # doc)
      /\ done' = done \cup req[w]
      /\ UNCHANGED <<owner, acked, configured, stored>>
      /\ pc[w] = "mark"
  BY DEF MarkHAJoinRequestAccepted, saveHAJoinRequests
<1>2. /\ snap[w] \in Documents /\ OnePending(snap[w])
      /\ \A j \in Ids : snap[w][j] # "absent" => owner[j] \in Nodes
      /\ \A j \in Ids : snap[w][j] = "accepted" => owner[j] \in configured \cap stored
      /\ owner \in [Ids -> Nodes \cup {None}]
      /\ req[w] \in SUBSET Ids
      /\ \A j \in req[w] : owner[j] = node[w] /\ node[w] \in Nodes
      /\ node[w] \in configured \cap stored
      /\ acked \in SUBSET Ids /\ done \in SUBSET Ids
      /\ AnswersKeptUnlessOverlap
  BY <1>1 DEF IInv, TypeOK, HandlersPaired
<1>3. doc' \in Documents /\ \A j \in Ids : doc'[j] = IF j \in req[w] THEN "accepted" ELSE snap[w][j]
  BY <1>1, <1>2 DEF Documents
<1>4. OnePending(doc)'
  BY <1>1, <1>2, <1>3 DEF OnePending
<1>5. \A j \in Ids : doc'[j] # "absent" => owner'[j] \in Nodes
  BY <1>1, <1>2, <1>3
<1>6. AcceptedWerePaired'
  BY <1>1, <1>2, <1>3 DEF AcceptedWerePaired
<1>7. AnswersKeptUnlessOverlap'
  <2>1. CASE overlapped \/ snap[w] # doc
    BY <1>1, <2>1 DEF AnswersKeptUnlessOverlap
  <2>2. CASE ~overlapped /\ snap[w] = doc
    <3>1. \A j \in acked' : doc'[j] # "absent"
      BY <1>1, <1>2, <1>3, <2>2 DEF AnswersKeptUnlessOverlap
    <3>2. \A j \in done' : doc'[j] = "accepted"
      BY <1>1, <1>2, <1>3, <2>2 DEF AnswersKeptUnlessOverlap
    <3> QED
      BY <3>1, <3>2 DEF AnswersKeptUnlessOverlap
  <2> QED
    BY <2>1, <2>2
<1> QED
  BY <1>1, <1>2, <1>3, <1>4, <1>5, <1>6, <1>7 DEF DocOK

\* A request never changes hands, and the history only grows.
LEMMA OwnersKept ==
  ASSUME IInv, [Next]_vars
  PROVE  /\ \A j \in Ids : owner[j] \in Nodes => owner'[j] = owner[j]
         /\ configured \subseteq configured' /\ stored \subseteq stored'
<1>1. ASSUME NEW w \in Workers, SaveHAJoinRequest(w)
      PROVE  /\ \A j \in Ids : owner[j] \in Nodes => owner'[j] = owner[j]
             /\ UNCHANGED <<configured, stored>>
  <2>1. PICK i \in Ids : /\ \A j \in Ids : j # i => owner'[j] = owner[j]
                         /\ owner'[i] = node[w] /\ owner[i] \in {None, node[w]}
    BY <1>1, SavedDocument
  <2> QED
    BY <1>1, <2>1, NoneAssumption DEF SaveHAJoinRequest
<1>2. ASSUME NEW w \in Workers,
             \/ haJoinRequests(w) \/ (\E i \in Ids : HAJoinRequestForAccept(w, i))
             \/ configureAcceptedSecondary(w) \/ ConfigureFails(w)
             \/ AcceptHAJoinRequest(w) \/ StorePeer(w)
             \/ ReadForMark(w) \/ MarkHAJoinRequestAccepted(w) \/ HandlerFails(w)
      PROVE  /\ owner' = owner
             /\ configured \subseteq configured' /\ stored \subseteq stored'
  BY <1>2 DEF haJoinRequests, HAJoinRequestForAccept, configureAcceptedSecondary, ConfigureFails,
              AcceptHAJoinRequest, StorePeer, ReadForMark, MarkHAJoinRequestAccepted, HandlerFails,
              history
<1>3. CASE \/ SaveHASettings \/ (\E n \in Nodes : SaveRole(n))
           \/ (\E p \in Probes : TestHAPeer(p) \/ HeartbeatOk(p) \/ HeartbeatFails(p))
           \/ HeartbeatStale \/ Restart \/ UNCHANGED vars
  BY <1>3 DEF SaveHASettings, SaveRole, TestHAPeer, HeartbeatOk, HeartbeatFails, HeartbeatStale,
              Restart, vars, history
<1> QED
  BY <1>1, <1>2, <1>3 DEF Next

\* What the invariant says of one handler.
Local(w) ==
  /\ OnePending(snap[w])
  /\ \A i \in Ids : snap[w][i] # "absent" => owner[i] \in Nodes
  /\ \A i \in Ids : snap[w][i] = "accepted" => owner[i] \in configured \cap stored
  /\ \A i \in req[w] : owner[i] = node[w] /\ node[w] \in Nodes
  /\ pc[w] \in {"idle", "save"} => req[w] = {}
  /\ pc[w] # "idle" => node[w] \in Nodes
  /\ pc[w] \in {"recheck", "store", "read", "mark"} => node[w] \in configured
  /\ pc[w] \in {"read", "mark"} => node[w] \in stored

Shapes ==
  /\ pc \in [Workers -> {"idle", "save", "configure", "recheck", "store", "read", "mark"}]
  /\ snap \in [Workers -> Documents]
  /\ node \in [Workers -> Nodes \cup {None}]
  /\ req \in [Workers -> SUBSET Ids]

LEMMA LocalParts == HandlersOK /\ HandlersPaired <=> Shapes /\ \A w \in Workers : Local(w)
BY DEF HandlersOK, HandlersPaired, Shapes, Local

\* A handler that does not move keeps its part of the invariant.
LEMMA LocalKept ==
  ASSUME IInv, [Next]_vars, NEW w \in Workers,
         snap'[w] = snap[w], node'[w] = node[w], req'[w] = req[w], pc'[w] = pc[w]
  PROVE  Local(w)'
<1>1. Local(w) /\ req[w] \in SUBSET Ids
  BY TypeParts, LocalParts DEF IInv, Shapes
<1>2. /\ \A j \in Ids : owner[j] \in Nodes => owner'[j] = owner[j]
      /\ configured \subseteq configured' /\ stored \subseteq stored'
  BY OwnersKept
<1>3. OnePending(snap[w])'
  BY <1>1, <1>2 DEF Local, OnePending
<1>4. /\ \A i \in Ids : snap'[w][i] # "absent" => owner'[i] \in Nodes
      /\ \A i \in Ids : snap'[w][i] = "accepted" => owner'[i] \in configured' \cap stored'
  <2>1. /\ \A i \in Ids : snap[w][i] # "absent" => owner[i] \in Nodes
        /\ \A i \in Ids : snap[w][i] = "accepted" => owner[i] \in configured \cap stored
    BY <1>1 DEF Local
  <2> QED
    BY <1>2, <2>1
<1>5. \A i \in req'[w] : owner'[i] = node'[w] /\ node'[w] \in Nodes
  BY <1>1, <1>2 DEF Local
<1>6. /\ pc'[w] \in {"idle", "save"} => req'[w] = {}
      /\ pc'[w] # "idle" => node'[w] \in Nodes
      /\ pc'[w] \in {"recheck", "store", "read", "mark"} => node'[w] \in configured'
      /\ pc'[w] \in {"read", "mark"} => node'[w] \in stored'
  BY <1>1, <1>2 DEF Local
<1> QED
  BY <1>3, <1>4, <1>5, <1>6 DEF Local

\* An idle handler knows nothing.
LEMMA IdleIsLocal ==
  ASSUME NEW w \in Workers, snap'[w] = NoRequests, node'[w] = None, req'[w] = {}, pc'[w] = "idle"
  PROVE  Local(w)'
BY DEF Local, NoRequests, OnePending

\* A handler that answers leaves the others as they are.
LEMMA ReturnKeeps ==
  ASSUME IInv, [Next]_vars, NEW w \in Workers, Return(w)
  PROVE  Shapes' /\ \A v \in Workers : Local(v)'
<1>1. Shapes
  BY TypeParts, LocalParts DEF IInv
<1>2. NoRequests \in Documents
  BY DEF NoRequests, Documents
<1>3. Shapes'
  BY <1>1, <1>2 DEF Shapes, Return
<1>4. snap'[w] = NoRequests /\ node'[w] = None /\ req'[w] = {} /\ pc'[w] = "idle"
  BY <1>1 DEF Shapes, Return
<1>5. \A v \in Workers \ {w} :
         snap'[v] = snap[v] /\ node'[v] = node[v] /\ req'[v] = req[v] /\ pc'[v] = pc[v]
  BY <1>1 DEF Shapes, Return
<1>6. Local(w)'
  BY <1>4, IdleIsLocal
<1>7. \A v \in Workers \ {w} : Local(v)'
  BY <1>5, LocalKept
<1> QED
  BY <1>3, <1>6, <1>7

\* So does a handler that goes on to its next step.
LEMMA MoveKeeps ==
  ASSUME IInv, [Next]_vars, NEW w \in Workers, Local(w)', Shapes',
         \A v \in Workers \ {w} :
            snap'[v] = snap[v] /\ node'[v] = node[v] /\ req'[v] = req[v] /\ pc'[v] = pc[v]
  PROVE  Shapes' /\ \A v \in Workers : Local(v)'
<1>1. \A v \in Workers \ {w} : Local(v)'
  BY LocalKept
<1> QED
  BY <1>1

\* haJoinRequests and ReadForMark: the handler takes a copy of the document.
LEMMA CopyKeeps ==
  ASSUME IInv, [Next]_vars, NEW w \in Workers, haJoinRequests(w) \/ ReadForMark(w)
  PROVE  Shapes' /\ \A v \in Workers : Local(v)'
<1>1. Shapes /\ Local(w) /\ DocOK /\ AcceptedWerePaired
  BY TypeParts, LocalParts DEF IInv
<1>2. UNCHANGED <<doc, owner, configured, stored, req>> /\ snap' = [snap EXCEPT ![w] = doc]
  BY DEF haJoinRequests, ReadForMark, history
<1>3. /\ snap'[w] = doc /\ req'[w] = req[w]
      /\ \A v \in Workers \ {w} : snap'[v] = snap[v] /\ req'[v] = req[v]
      /\ snap' \in [Workers -> Documents]
  BY <1>1, <1>2 DEF Shapes, DocOK
<1>4. /\ OnePending(snap[w])'
      /\ \A i \in Ids : snap'[w][i] # "absent" => owner'[i] \in Nodes
      /\ \A i \in Ids : snap'[w][i] = "accepted" => owner'[i] \in configured' \cap stored'
  BY <1>1, <1>2, <1>3 DEF DocOK, AcceptedWerePaired, OnePending
<1>5. CASE haJoinRequests(w)
  <2>1. PICK n \in Nodes : node' = [node EXCEPT ![w] = n]
    BY <1>5 DEF haJoinRequests
  <2>2. pc' = [pc EXCEPT ![w] = "save"] /\ pc[w] = "idle"
    BY <1>5 DEF haJoinRequests
  <2>3. Shapes' /\ node'[w] = n /\ pc'[w] = "save"
        /\ \A v \in Workers \ {w} : node'[v] = node[v] /\ pc'[v] = pc[v]
    BY <1>1, <1>2, <1>3, <2>1, <2>2 DEF Shapes
  <2>4. req[w] = {}
    BY <1>1, <2>2 DEF Local
  <2>5. Local(w)'
    BY <1>3, <1>4, <2>3, <2>4 DEF Local
  <2> QED
    BY <1>3, <2>3, <2>5, MoveKeeps
<1>6. CASE ReadForMark(w)
  <2>1. pc' = [pc EXCEPT ![w] = "mark"] /\ pc[w] = "read" /\ node' = node
    BY <1>6 DEF ReadForMark
  <2>2. Shapes' /\ node'[w] = node[w] /\ pc'[w] = "mark"
        /\ \A v \in Workers \ {w} : node'[v] = node[v] /\ pc'[v] = pc[v]
    BY <1>1, <1>2, <1>3, <2>1 DEF Shapes
  <2>3. Local(w)'
    BY <1>1, <1>2, <1>3, <1>4, <2>1, <2>2 DEF Local
  <2> QED
    BY <1>3, <2>2, <2>3, MoveKeeps
<1> QED
  BY <1>5, <1>6

\* The steps of an acceptance that leave the copies of the document alone.
LEMMA AcceptKeeps ==
  ASSUME IInv, [Next]_vars, NEW w \in Workers,
         \/ \E i \in Ids : HAJoinRequestForAccept(w, i)
         \/ configureAcceptedSecondary(w) \/ AcceptHAJoinRequest(w) \/ StorePeer(w)
  PROVE  Shapes' /\ \A v \in Workers : Local(v)'
<1>1. Shapes /\ Local(w) /\ DocOK
  BY TypeParts, LocalParts DEF IInv
<1>2. UNCHANGED <<doc, owner, snap>>
      /\ configured \subseteq configured' /\ stored \subseteq stored'
  BY OwnersKept DEF HAJoinRequestForAccept, configureAcceptedSecondary, AcceptHAJoinRequest, StorePeer
<1>3. /\ OnePending(snap[w])'
      /\ \A i \in Ids : snap'[w][i] # "absent" => owner'[i] \in Nodes
      /\ \A i \in Ids : snap'[w][i] = "accepted" => owner'[i] \in configured' \cap stored'
  BY <1>1, <1>2 DEF Local, OnePending
<1>4. ASSUME NEW i \in Ids, HAJoinRequestForAccept(w, i)
      PROVE  Shapes' /\ \A v \in Workers : Local(v)'
  <2>1. /\ doc[i] = "pending"
        /\ node' = [node EXCEPT ![w] = owner[i]]
        /\ req' = [req EXCEPT ![w] = {i}]
        /\ pc' = [pc EXCEPT ![w] = "configure"]
    BY <1>4 DEF HAJoinRequestForAccept
  <2>2. owner[i] \in Nodes
    BY <1>1, <2>1 DEF DocOK
  <2>3. Shapes'
    BY <1>1, <1>2, <2>1, <2>2 DEF Shapes
  <2>4. node'[w] = owner[i] /\ req'[w] = {i} /\ pc'[w] = "configure"
        /\ \A v \in Workers \ {w} : node'[v] = node[v] /\ req'[v] = req[v] /\ pc'[v] = pc[v]
    BY <1>1, <2>1 DEF Shapes
  <2>5. Local(w)'
    BY <1>2, <1>3, <2>2, <2>4 DEF Local
  <2> QED
    BY <1>2, <2>3, <2>4, <2>5, MoveKeeps
<1>5. ASSUME NEW s \in {"recheck", "store", "read"}, pc[w] # "idle", pc[w] # "save",
             pc' = [pc EXCEPT ![w] = s], UNCHANGED <<node, req>>,
             node[w] \in configured', s = "read" => node[w] \in stored'
      PROVE  Shapes' /\ \A v \in Workers : Local(v)'
  <2>1. Shapes' /\ pc'[w] = s /\ \A v \in Workers \ {w} : pc'[v] = pc[v]
    BY <1>1, <1>2, <1>5 DEF Shapes
  <2>2. Local(w)'
    BY <1>1, <1>2, <1>3, <1>5, <2>1 DEF Local
  <2> QED
    BY <1>2, <1>5, <2>1, <2>2, MoveKeeps
<1>6. CASE configureAcceptedSecondary(w)
  BY <1>5, <1>6 DEF configureAcceptedSecondary
<1>7. CASE AcceptHAJoinRequest(w)
  <2>1. node[w] \in configured
    BY <1>1, <1>7 DEF Local, AcceptHAJoinRequest
  <2> QED
    BY <1>5, <1>7, <2>1 DEF AcceptHAJoinRequest, history
<1>8. CASE StorePeer(w)
  <2>1. node[w] \in configured
    BY <1>1, <1>8 DEF Local, StorePeer
  <2> QED
    BY <1>5, <1>8, <2>1 DEF StorePeer
<1> QED
  BY <1>4, <1>6, <1>7, <1>8

\* Every step keeps what is known about the handlers.
LEMMA HandlersPreserved ==
  ASSUME IInv, [Next]_vars
  PROVE  HandlersOK' /\ HandlersPaired'
<1> SUFFICES Shapes' /\ \A v \in Workers : Local(v)'
  BY DEF HandlersOK, HandlersPaired, Shapes, Local
<1>1. ASSUME NEW w \in Workers,
             \/ SaveHAJoinRequest(w) \/ ConfigureFails(w)
             \/ MarkHAJoinRequestAccepted(w) \/ HandlerFails(w)
      PROVE  Shapes' /\ \A v \in Workers : Local(v)'
  <2>1. Return(w)
    BY <1>1 DEF SaveHAJoinRequest, ConfigureFails, MarkHAJoinRequestAccepted, HandlerFails
  <2> QED
    BY <2>1, ReturnKeeps
<1>2. ASSUME NEW w \in Workers, haJoinRequests(w) \/ ReadForMark(w)
      PROVE  Shapes' /\ \A v \in Workers : Local(v)'
  BY <1>2, CopyKeeps
<1>3. ASSUME NEW w \in Workers,
             \/ \E i \in Ids : HAJoinRequestForAccept(w, i)
             \/ configureAcceptedSecondary(w) \/ AcceptHAJoinRequest(w) \/ StorePeer(w)
      PROVE  Shapes' /\ \A v \in Workers : Local(v)'
  BY <1>3, AcceptKeeps
<1>4. CASE Restart
  <2>1. NoRequests \in Documents
    BY DEF NoRequests, Documents
  <2>2. Shapes'
    BY <1>4, <2>1 DEF Restart, Shapes
  <2>3. \A v \in Workers :
           snap'[v] = NoRequests /\ node'[v] = None /\ req'[v] = {} /\ pc'[v] = "idle"
    BY <1>4 DEF Restart
  <2> QED
    BY <2>2, <2>3, IdleIsLocal
<1>5. CASE \/ SaveHASettings \/ (\E n \in Nodes : SaveRole(n))
           \/ (\E p \in Probes : TestHAPeer(p) \/ HeartbeatOk(p) \/ HeartbeatFails(p))
           \/ HeartbeatStale \/ UNCHANGED vars
  <2>1. UNCHANGED handlers
    BY <1>5 DEF SaveHASettings, SaveRole, TestHAPeer, HeartbeatOk, HeartbeatFails, HeartbeatStale, vars
  <2>2. UNCHANGED <<pc, snap, node, req>>
    BY <2>1 DEF handlers
  <2>3. Shapes'
    BY <2>2, TypeParts, LocalParts DEF IInv, Shapes
  <2> QED
    BY <2>2, <2>3, LocalKept
<1> QED
  BY <1>1, <1>2, <1>3, <1>4, <1>5 DEF Next

\* Every step keeps what is known about the document.
LEMMA DocPreserved ==
  ASSUME IInv, [Next]_vars
  PROVE  DocOK' /\ AcceptedWerePaired' /\ AnswersKeptUnlessOverlap'
<1>1. ASSUME NEW w \in Workers,
             \/ haJoinRequests(w) \/ (\E i \in Ids : HAJoinRequestForAccept(w, i))
             \/ configureAcceptedSecondary(w) \/ ConfigureFails(w)
             \/ AcceptHAJoinRequest(w) \/ StorePeer(w) \/ ReadForMark(w) \/ HandlerFails(w)
      PROVE  UNCHANGED <<doc, owner, acked, done, overlapped>>
  BY <1>1 DEF haJoinRequests, HAJoinRequestForAccept, configureAcceptedSecondary, ConfigureFails,
              AcceptHAJoinRequest, StorePeer, ReadForMark, HandlerFails, history
<1>2. CASE \/ SaveHASettings \/ (\E n \in Nodes : SaveRole(n))
           \/ (\E p \in Probes : TestHAPeer(p) \/ HeartbeatOk(p) \/ HeartbeatFails(p))
           \/ HeartbeatStale \/ Restart \/ UNCHANGED vars
  <2>1. UNCHANGED <<doc, owner, acked, done, overlapped>>
    BY <1>2 DEF SaveHASettings, SaveRole, TestHAPeer, HeartbeatOk, HeartbeatFails, HeartbeatStale,
                Restart, vars, history
  <2> QED
    BY <2>1, OwnersKept, Quiet
<1>3. ASSUME NEW w \in Workers, SaveHAJoinRequest(w)
      PROVE  DocOK' /\ AcceptedWerePaired' /\ AnswersKeptUnlessOverlap'
  BY <1>3, AfterSave
<1>4. ASSUME NEW w \in Workers, MarkHAJoinRequestAccepted(w)
      PROVE  DocOK' /\ AcceptedWerePaired' /\ AnswersKeptUnlessOverlap'
  BY <1>4, AfterMark
<1>5. UNCHANGED <<doc, owner, acked, done, overlapped>>
        => DocOK' /\ AcceptedWerePaired' /\ AnswersKeptUnlessOverlap'
  BY OwnersKept, Quiet
<1> QED
  BY <1>1, <1>2, <1>3, <1>4, <1>5 DEF Next

\* The remaining types.
LEMMA RestPreserved ==
  ASSUME IInv, [Next]_vars
  PROVE  RestOK'
<1>1. RestOK /\ HandlersOK /\ HandlersPaired
  BY TypeParts DEF IInv
<1>2. ASSUME NEW w \in Workers, SaveHAJoinRequest(w)
      PROVE  RestOK'
  <2>1. PICK i \in Ids : acked' = acked \cup {i}
    BY <1>2, SavedDocument
  <2>2. /\ overlapped' = (overlapped \/ snap[w] # doc)
        /\ UNCHANGED <<peer, secondaries, probe, beat, done, configured, stored>>
    BY <1>2 DEF SaveHAJoinRequest, saveHAJoinRequests, health
  <2>3. overlapped' \in BOOLEAN
    BY <2>2
  <2> QED
    BY <1>1, <2>1, <2>2, <2>3 DEF RestOK
<1>3. ASSUME NEW w \in Workers, MarkHAJoinRequestAccepted(w)
      PROVE  RestOK'
  <2>1. /\ overlapped' = (overlapped \/ snap[w] # doc)
        /\ done' = done \cup req[w]
        /\ UNCHANGED <<peer, secondaries, probe, beat, acked, configured, stored>>
    BY <1>3 DEF MarkHAJoinRequestAccepted, saveHAJoinRequests, health
  <2>2. req[w] \in SUBSET Ids
    BY <1>1 DEF HandlersOK
  <2>3. overlapped' \in BOOLEAN
    BY <2>1
  <2> QED
    BY <1>1, <2>1, <2>2, <2>3 DEF RestOK
<1>4. ASSUME NEW w \in Workers,
             configureAcceptedSecondary(w) \/ ConfigureFails(w) \/ StorePeer(w)
      PROVE  RestOK'
  <2>1. node[w] \in Nodes
    BY <1>1, <1>4 DEF HandlersPaired, configureAcceptedSecondary, ConfigureFails, StorePeer
  <2> QED
    BY <1>1, <1>4, <2>1
    DEF RestOK, configureAcceptedSecondary, ConfigureFails, StorePeer, health
<1>5. ASSUME NEW w \in Workers,
             \/ haJoinRequests(w) \/ (\E i \in Ids : HAJoinRequestForAccept(w, i))
             \/ AcceptHAJoinRequest(w) \/ ReadForMark(w) \/ HandlerFails(w)
      PROVE  RestOK'
  BY <1>1, <1>5
  DEF RestOK, haJoinRequests, HAJoinRequestForAccept, AcceptHAJoinRequest, ReadForMark,
      HandlerFails, health, history
<1>6. ASSUME NEW p \in Probes, TestHAPeer(p) \/ HeartbeatOk(p) \/ HeartbeatFails(p)
      PROVE  RestOK'
  BY <1>1, <1>6 DEF RestOK, TestHAPeer, HeartbeatOk, HeartbeatFails, history
<1>7. CASE \/ SaveHASettings \/ (\E n \in Nodes : SaveRole(n))
           \/ HeartbeatStale \/ Restart \/ UNCHANGED vars
  BY <1>1, <1>7 DEF RestOK, SaveHASettings, SaveRole, HeartbeatStale, Restart, vars, health, history
<1> QED
  BY <1>2, <1>3, <1>4, <1>5, <1>6, <1>7 DEF Next

(***************************************************************************)
(* Theorems                                                                *)
(***************************************************************************)

\* The inductive invariant: the types, what handlers may rely on between two
\* of their steps (HandlersPaired), and the two safety properties.
THEOREM InvariantHolds == Spec => []IInv
<1>1. Init => IInv
  <2> SUFFICES ASSUME Init PROVE IInv
    OBVIOUS
  <2>1. TypeOK
    BY DEF Init, TypeOK, NoRequests, Documents, OnePending
  <2>2. HandlersPaired
    BY DEF Init, HandlersPaired, NoRequests
  <2>3. AcceptedWerePaired /\ AnswersKeptUnlessOverlap
    BY DEF Init, AcceptedWerePaired, AnswersKeptUnlessOverlap, NoRequests
  <2> QED
    BY <2>1, <2>2, <2>3 DEF IInv
<1>2. IInv /\ [Next]_vars => IInv'
  <2> SUFFICES ASSUME IInv, [Next]_vars PROVE IInv'
    OBVIOUS
  <2>1. DocOK' /\ HandlersOK' /\ RestOK'
    BY DocPreserved, HandlersPreserved, RestPreserved
  <2>2. TypeOK'
    BY <2>1 DEF TypeOK, DocOK, HandlersOK, RestOK
  <2> QED
    BY <2>2, DocPreserved, HandlersPreserved DEF IInv
<1> QED
  BY <1>1, <1>2, PTL DEF Spec

\* No document, the one in the settings table and the ones handlers hold, ever
\* lists two pending requests of one node, however many handlers overlap.
THEOREM TypeCorrect == Spec => []TypeOK
<1>1. IInv => TypeOK
  BY DEF IInv
<1> QED
  BY <1>1, InvariantHolds, PTL

\* A request that the list shows as accepted belongs to a node that was
\* configured as secondary and stored as peer: a handler that fails between
\* haJoinAccept's steps, or whose document another one overwrites, never leaves
\* an acceptance behind that did not happen.
THEOREM AcceptedArePaired == Spec => []AcceptedWerePaired
<1>1. IInv => AcceptedWerePaired
  BY DEF IInv
<1> QED
  BY <1>1, InvariantHolds, PTL

\* Only a handler that writes back a document changed since it read it
\* (SaveHAJoinRequest, MarkHAJoinRequestAccepted) can undo what another handler
\* has already answered.
THEOREM AnswersKept == Spec => []AnswersKeptUnlessOverlap
<1>1. IInv => AnswersKeptUnlessOverlap
  BY DEF IInv
<1> QED
  BY <1>1, InvariantHolds, PTL
=============================================================================
