-------------------------- MODULE BlocklistsProofs --------------------------
(* Proofs about the block lists for any number of presets, sources, edits    *)
(* and concurrent refreshes.                                                 *)
EXTENDS Blocklists, FiniteSetTheorems, WellFoundedInduction, TLAPS

(***************************************************************************)
(* Row ids: SQLite hands out max(rowid) + 1                                *)
(***************************************************************************)

\* A set of naturals that has a member has a least one.
LEMMA LeastNatural ==
  ASSUME NEW S \in SUBSET Nat, S # {}
  PROVE  \E n \in S : \A m \in S : n <= m
<1>1. \E n \in S : \A m \in S : <<m, n>> \notin OpToRel(<, Nat)
  BY NatLessThanWellFounded, WFMin
<1>2. PICK n \in S : \A m \in S : <<m, n>> \notin OpToRel(<, Nat)
  BY <1>1
<1>3. ASSUME NEW m \in S PROVE n <= m
  <2>1. m \in Nat /\ n \in Nat
    OBVIOUS
  <2>2. m < n => <<m, n>> \in OpToRel(<, Nat)
    BY <2>1 DEF OpToRel
  <2>3. ~(m < n)
    BY ONLY <1>2, <2>2, m \in S, Zenon
  <2> QED
    BY ONLY <2>1, <2>3
<1> QED
  BY <1>3

\* A bounded set of naturals that has a member has a greatest one, and Max is
\* it: the least upper bound is a member.
LEMMA MaxOfBounded ==
  ASSUME NEW S \in SUBSET Nat, S # {}, NEW b \in Nat, \A n \in S : n <= b
  PROVE  Max(S) \in S /\ \A n \in S : n <= Max(S)
<1> DEFINE U == {u \in Nat : \A n \in S : n <= u}
<1>1. PICK u \in U : \A v \in U : u <= v
  BY LeastNatural
<1>2. u \in S
  <2> SUFFICES ASSUME u \notin S PROVE FALSE
    OBVIOUS
  <2>1. \A n \in S : n < u
    BY <1>1
  <2>2. PICK n \in S : TRUE
    OBVIOUS
  <2>3. u - 1 \in U
    BY <2>1, <2>2
  <2> QED
    BY <1>1, <2>3
<1>3. \E x \in S : \A y \in S : x >= y
  BY <1>1, <1>2
<1> QED
  BY <1>3 DEF Max

\* The largest id in use, 0 for an empty table.
LEMMA MaxIdIsMax ==
  ASSUME TypeOK, BoundedIds
  PROVE  MaxId \in Nat /\ \A u \in Urls : rowid[u] <= MaxId
<1> DEFINE S == {0} \cup {rowid[u] : u \in Urls}
<1>0. rowid \in [Urls -> Nat]
  BY DEF TypeOK
<1>1. S \in SUBSET Nat /\ S # {}
  BY <1>0
<1>2. PICK b \in Nat : \A u \in Urls : rowid[u] <= b
  BY DEF BoundedIds
<1>3. \A n \in S : n <= b
  BY <1>2
<1>4. Max(S) \in S /\ \A n \in S : n <= Max(S)
  BY <1>1, <1>3, MaxOfBounded
<1> QED
  BY <1>1, <1>4 DEF MaxId

\* The steps that leave the ids of the sources alone.
KeepIds ==
  \/ SetBlocklistPresetEnabled \/ SetBlocklistSourceEnabled
  \/ \E r \in Refreshes :
       \/ RefreshBlocklists(r) \/ enabledBlocklistFetchSources(r)
       \/ refreshBlocklistSource(r) \/ replaceBlocklistEntries(r) \/ StoreFails(r)
       \/ recordBlocklistSourceStatus(r) \/ RefreshDone(r)
  \/ Restart \/ UNCHANGED vars

LEMMA NextSteps == [Next]_vars <=> KeepIds \/ AddBlocklistSource \/ ApplyHASyncPayload
BY DEF Next, KeepIds

LEMMA IdsKept == KeepIds => rowid' = rowid
BY DEF KeepIds, SetBlocklistPresetEnabled, SetBlocklistSourceEnabled, Edit, RefreshBlocklists,
       enabledBlocklistFetchSources, refreshBlocklistSource, replaceBlocklistEntries, StoreFails,
       recordBlocklistSourceStatus, RefreshDone, Restart, vars, store

\* What an import does to the ids, with the id of every new source above
\* those in use.
LEMMA ImportIds ==
  ASSUME TypeOK, BoundedIds, ApplyHASyncPayload
  PROVE  \E want \in SUBSET Urls, top \in Nat :
           /\ \A u \in Urls : /\ u \notin want => rowid'[u] = 0
                              /\ u \in want \cap Known => rowid'[u] = rowid[u]
                              /\ u \in want \ Known => MaxId < rowid'[u] /\ rowid'[u] <= top
           /\ \A u, v \in want \ Known : rowid'[u] = rowid'[v] => u = v
           /\ MaxId <= top
           /\ rowid' \in [Urls -> Nat]
           /\ sourceOn' \in SUBSET want
           /\ presetOn' \in SUBSET Presets
           /\ status' = [u \in Urls |-> IF u \in want THEN status[u] ELSE "not checked"]
           /\ entries' = {e \in entries : e.type = "preset"
                                            \/ e.id \notin {rowid[u] : u \in Known \ want}}
           /\ overtaken' = (overtaken \ {rowid[u] : u \in Known \ want})
                             \cup ({rowid[u] : u \in Known \ want} \cap Carried)
           /\ emptied' = emptied \ {rowid[u] : u \in Known \ want}
<1>1. PICK pOn \in SUBSET Presets, want \in SUBSET Urls : \E live \in SUBSET want :
        LET new  == want \ Known
            gone == {rowid[u] : u \in Known \ want}
        IN  /\ \E num \in [new -> (MaxId + 1)..(MaxId + Cardinality(new))] :
                 /\ \A u, v \in new : num[u] = num[v] => u = v
                 /\ Edit(pOn, live, [u \in Urls |-> IF u \in new THEN num[u]
                                                   ELSE IF u \in want THEN rowid[u] ELSE 0])
            /\ status' = [u \in Urls |-> IF u \in want THEN status[u] ELSE "not checked"]
            /\ entries' = deleteMissingBlocklistSources(gone)
            /\ overtaken' = (overtaken \ gone) \cup (gone \cap Carried)
            /\ emptied' = emptied \ gone
  BY DEF ApplyHASyncPayload
<1>2. PICK live \in SUBSET want :
        /\ \E num \in [want \ Known -> (MaxId + 1)..(MaxId + Cardinality(want \ Known))] :
             /\ \A u, v \in want \ Known : num[u] = num[v] => u = v
             /\ Edit(pOn, live, [u \in Urls |-> IF u \in want \ Known THEN num[u]
                                               ELSE IF u \in want THEN rowid[u] ELSE 0])
        /\ status' = [u \in Urls |-> IF u \in want THEN status[u] ELSE "not checked"]
        /\ entries' = deleteMissingBlocklistSources({rowid[u] : u \in Known \ want})
        /\ overtaken' = (overtaken \ {rowid[u] : u \in Known \ want})
                          \cup ({rowid[u] : u \in Known \ want} \cap Carried)
        /\ emptied' = emptied \ {rowid[u] : u \in Known \ want}
  BY <1>1
<1>3. PICK num \in [want \ Known -> (MaxId + 1)..(MaxId + Cardinality(want \ Known))] :
         /\ \A u, v \in want \ Known : num[u] = num[v] => u = v
         /\ Edit(pOn, live, [u \in Urls |-> IF u \in want \ Known THEN num[u]
                                           ELSE IF u \in want THEN rowid[u] ELSE 0])
  BY <1>2
<1>4. MaxId \in Nat
  BY MaxIdIsMax
<1>5. Cardinality(want \ Known) \in Nat
  BY ListsAssumption, FS_Subset, FS_CardinalityType
<1>6. \A u \in want \ Known : num[u] \in Nat /\ MaxId < num[u]
                               /\ num[u] <= MaxId + Cardinality(want \ Known)
  BY <1>3, <1>4, <1>5
<1>7. /\ rowid' = [u \in Urls |-> IF u \in want \ Known THEN num[u]
                                  ELSE IF u \in want THEN rowid[u] ELSE 0]
      /\ sourceOn' = live /\ presetOn' = pOn
  BY <1>3 DEF Edit
<1>8. rowid' \in [Urls -> Nat]
  BY <1>6, <1>7 DEF TypeOK
<1>9. PICK top \in Nat : top = MaxId + Cardinality(want \ Known)
  BY <1>4, <1>5
<1>10. \A u \in Urls : /\ u \notin want => rowid'[u] = 0
                       /\ u \in want \cap Known => rowid'[u] = rowid[u]
                       /\ u \in want \ Known => rowid'[u] = num[u]
  BY <1>7
<1>11. entries' = {e \in entries : e.type = "preset"
                                     \/ e.id \notin {rowid[u] : u \in Known \ want}}
  BY <1>2 DEF deleteMissingBlocklistSources
<1>12. MaxId <= top
  BY <1>4, <1>5, <1>9
<1>13. \A u, v \in want \ Known : rowid'[u] = rowid'[v] => u = v
  BY <1>3, <1>10
<1>14. \A u \in want \ Known : MaxId < rowid'[u] /\ rowid'[u] <= top
  BY <1>6, <1>9, <1>10
<1>15. sourceOn' \in SUBSET want /\ presetOn' \in SUBSET Presets
  BY <1>7
<1> QED
  BY <1>2, <1>8, <1>10, <1>11, <1>12, <1>13, <1>14, <1>15

\* Ids stay unique and bounded, whatever changes the table.
LEMMA IdsPreserved ==
  ASSUME TypeOK, BoundedIds, [Next]_vars
  PROVE  /\ rowid' \in [Urls -> Nat]
         /\ \A u, v \in Urls : rowid'[u] = rowid'[v] /\ rowid'[u] # 0 => u = v
         /\ BoundedIds'
<1>1. MaxId \in Nat /\ \A u \in Urls : rowid[u] <= MaxId
  BY MaxIdIsMax
<1>0. /\ rowid \in [Urls -> Nat]
      /\ \A u, v \in Urls : rowid[u] = rowid[v] /\ rowid[u] # 0 => u = v
  BY DEF TypeOK
<1>2. CASE KeepIds
  BY <1>0, <1>2, IdsKept DEF BoundedIds
<1>3. CASE AddBlocklistSource
  <2>1. PICK u \in Urls : rowid' = IF u \in Known THEN rowid ELSE [rowid EXCEPT ![u] = MaxId + 1]
    BY <1>3 DEF AddBlocklistSource, Edit
  <2>2. rowid' \in [Urls -> Nat]
    BY <1>0, <1>1, <2>1
  <2>3. \A v \in Urls : rowid'[v] <= MaxId + 1
    BY <1>0, <1>1, <2>1
  <2>4. \A v \in Urls \ {u} : rowid[v] # MaxId + 1
    BY <1>0, <1>1
  <2>5. \A v, w \in Urls : rowid'[v] = rowid'[w] /\ rowid'[v] # 0 => v = w
    BY <1>0, <1>1, <2>1, <2>4
  <2> QED
    BY <1>1, <2>2, <2>3, <2>5 DEF BoundedIds
<1>4. CASE ApplyHASyncPayload
  <2>1. PICK want \in SUBSET Urls, top \in Nat :
           /\ \A u \in Urls : /\ u \notin want => rowid'[u] = 0
                              /\ u \in want \cap Known => rowid'[u] = rowid[u]
                              /\ u \in want \ Known => MaxId < rowid'[u] /\ rowid'[u] <= top
           /\ \A u, v \in want \ Known : rowid'[u] = rowid'[v] => u = v
           /\ MaxId <= top
           /\ rowid' \in [Urls -> Nat]
    BY <1>4, ImportIds
  <2>2. \A u \in Urls : rowid'[u] <= top
    BY <1>0, <1>1, <2>1
  <2>3. ASSUME NEW u \in Urls, NEW v \in Urls, rowid'[u] = rowid'[v], rowid'[u] # 0 PROVE u = v
    <3>1. u \in want /\ v \in want
      BY <2>1, <2>3
    <3>2. rowid[u] \in Nat /\ rowid[v] \in Nat /\ rowid'[u] \in Nat
      BY <1>0, <2>1
    <3>3. u \in Known <=> v \in Known
      BY <1>1, <2>1, <2>3, <3>1, <3>2
    <3> QED
      BY <1>0, <2>1, <2>3, <3>1, <3>3 DEF Known
  <2> QED
    BY <2>1, <2>2, <2>3 DEF BoundedIds
<1> QED
  BY <1>2, <1>3, <1>4, NextSteps

LEMMA ItemFacts ==
  /\ \A p \in Presets : Preset(p) \in Items
  /\ \A i \in Items : i.id \in Nat /\ i # None
  /\ \A i \in Items : i.type = "custom" => i.list \in Urls /\ i.id # 0
BY DEF Items, Preset, None

\* What is enabled can be downloaded.
LEMMA EnabledAreItems ==
  ASSUME TypeOK
  PROVE  /\ EnabledCustoms(sourceOn, rowid) \in SUBSET Items
         /\ Enabled(presetOn, sourceOn, rowid) \in SUBSET Items
<1>1. \A u \in sourceOn : u \in Urls /\ rowid[u] \in Nat \ {0}
  BY DEF TypeOK
<1>2. \A u \in sourceOn : Custom(u, rowid) \in Items
  BY <1>1 DEF Custom, Items
<1>3. presetOn \in SUBSET Presets
  BY DEF TypeOK
<1> QED
  BY <1>2, <1>3, ItemFacts DEF EnabledCustoms, Enabled

\* The variables of the refreshes keep their types, and a refresh that is at a
\* download knows which one.
LEMMA RefreshPreserved ==
  ASSUME TypeOK, AtDownload, [Next]_vars
  PROVE  /\ pc' \in [Refreshes -> {"idle", "sources", "next", "store", "record"}]
         /\ todo' \in [Refreshes -> SUBSET Items]
         /\ cur' \in [Refreshes -> Items \cup {None}]
         /\ outcome' \in [Refreshes -> {"ok", "failed"}]
         /\ since' \in [Refreshes -> SUBSET Items]
         /\ tried' \in [Refreshes -> SUBSET Items]
         /\ AtDownload'
<1>1. /\ pc \in [Refreshes -> {"idle", "sources", "next", "store", "record"}]
      /\ todo \in [Refreshes -> SUBSET Items]
      /\ cur \in [Refreshes -> Items \cup {None}]
      /\ outcome \in [Refreshes -> {"ok", "failed"}]
      /\ since \in [Refreshes -> SUBSET Items]
      /\ tried \in [Refreshes -> SUBSET Items]
      /\ presetOn \in SUBSET Presets
  BY DEF TypeOK
<1>2. ASSUME NEW pOn, NEW sOn, NEW ids, Edit(pOn, sOn, ids)
      PROVE  /\ since' \in [Refreshes -> SUBSET Items]
             /\ UNCHANGED <<refresh, tried>>
  BY <1>1, <1>2 DEF Edit
<1>3. CASE SetBlocklistPresetEnabled \/ SetBlocklistSourceEnabled \/ AddBlocklistSource
           \/ ApplyHASyncPayload
  <2>1. since' \in [Refreshes -> SUBSET Items] /\ UNCHANGED <<refresh, tried>>
    BY <1>2, <1>3 DEF SetBlocklistPresetEnabled, SetBlocklistSourceEnabled, AddBlocklistSource,
                      ApplyHASyncPayload
  <2> QED
    BY <1>1, <2>1 DEF refresh, AtDownload
<1> USE <1>1, ItemFacts DEF AtDownload, history
<1>4. ASSUME NEW r \in Refreshes, RefreshBlocklists(r)
      PROVE  /\ todo' \in [Refreshes -> SUBSET Items]
             /\ since' \in [Refreshes -> SUBSET Items]
             /\ pc' = [pc EXCEPT ![r] = "sources"] /\ pc[r] = "idle"
             /\ UNCHANGED <<cur, outcome, tried>>
  BY <1>4, EnabledAreItems DEF RefreshBlocklists
<1>5. ASSUME NEW r \in Refreshes, enabledBlocklistFetchSources(r)
      PROVE  /\ todo' \in [Refreshes -> SUBSET Items]
             /\ pc' = [pc EXCEPT ![r] = "next"] /\ pc[r] = "sources"
             /\ UNCHANGED <<cur, outcome, since, tried>>
  BY <1>5, EnabledAreItems DEF enabledBlocklistFetchSources
<1>6. ASSUME NEW r \in Refreshes, refreshBlocklistSource(r)
      PROVE  /\ todo' \in [Refreshes -> SUBSET Items]
             /\ \E i \in Items : cur' = [cur EXCEPT ![r] = i]
             /\ \E s \in {"store", "record"} : pc' = [pc EXCEPT ![r] = s]
             /\ outcome' \in [Refreshes -> {"ok", "failed"}]
             /\ UNCHANGED <<since, tried>>
  <2>1. PICK i \in todo[r] : /\ todo' = [todo EXCEPT ![r] = @ \ {i}]
                             /\ cur' = [cur EXCEPT ![r] = i]
    BY <1>6 DEF refreshBlocklistSource
  <2>2. i \in Items
    OBVIOUS
  <2>3. todo' \in [Refreshes -> SUBSET Items]
    BY <2>1
  <2>4. /\ \E s \in {"store", "record"} : pc' = [pc EXCEPT ![r] = s]
        /\ outcome' \in [Refreshes -> {"ok", "failed"}]
        /\ UNCHANGED <<since, tried>>
    BY <1>6 DEF refreshBlocklistSource
  <2> QED
    BY <2>1, <2>2, <2>3, <2>4
<1>7. ASSUME NEW r \in Refreshes, replaceBlocklistEntries(r) \/ StoreFails(r)
      PROVE  /\ pc' = [pc EXCEPT ![r] = "record"] /\ pc[r] = "store"
             /\ outcome' \in [Refreshes -> {"ok", "failed"}]
             /\ UNCHANGED <<todo, cur, since, tried>>
  BY <1>7 DEF replaceBlocklistEntries, StoreFails
<1>8. ASSUME NEW r \in Refreshes, recordBlocklistSourceStatus(r)
      PROVE  /\ pc' = [pc EXCEPT ![r] = "next"] /\ pc[r] = "record"
             /\ cur' = [cur EXCEPT ![r] = None]
             /\ outcome' \in [Refreshes -> {"ok", "failed"}]
             /\ tried' \in [Refreshes -> SUBSET Items]
             /\ UNCHANGED <<todo, since>>
  BY <1>8 DEF recordBlocklistSourceStatus
<1>9. ASSUME NEW r \in Refreshes, RefreshDone(r)
      PROVE  /\ pc' = [pc EXCEPT ![r] = "idle"] /\ pc[r] = "next"
             /\ since' \in [Refreshes -> SUBSET Items]
             /\ tried' \in [Refreshes -> SUBSET Items]
             /\ UNCHANGED <<todo, cur, outcome>>
  BY <1>9 DEF RefreshDone
<1>10. CASE Restart
  BY <1>10 DEF Restart
<1>11. CASE UNCHANGED vars
  BY <1>11 DEF vars, refresh
<1> QED
  BY <1>3, <1>4, <1>5, <1>6, <1>7, <1>8, <1>9, <1>10, <1>11 DEF Next

\* Switches, statuses and entries keep their types, and a source one set of
\* entries.
LEMMA StorePreserved ==
  ASSUME TypeOK, BoundedIds, AtDownload, [Next]_vars
  PROVE  /\ presetOn' \in SUBSET Presets
         /\ sourceOn' \in SUBSET {u \in Urls : rowid'[u] # 0}
         /\ status' \in [Urls -> {"not checked", "ok", "failed"}]
         /\ \A u \in Urls : rowid'[u] = 0 => status'[u] = "not checked"
         /\ entries' \in SUBSET Items
         /\ \A e, f \in entries' : SameSource(e, f) => e = f
         /\ edits' \in 0..MaxEdits
         /\ overtaken' \in SUBSET Nat /\ emptied' \in SUBSET Nat
         /\ settled' \in BOOLEAN
<1>1. /\ presetOn \in SUBSET Presets
      /\ rowid \in [Urls -> Nat]
      /\ sourceOn \in SUBSET {u \in Urls : rowid[u] # 0}
      /\ status \in [Urls -> {"not checked", "ok", "failed"}]
      /\ \A u \in Urls : rowid[u] = 0 => status[u] = "not checked"
      /\ entries \in SUBSET Items
      /\ \A e, f \in entries : SameSource(e, f) => e = f
      /\ edits \in 0..MaxEdits
      /\ overtaken \in SUBSET Nat /\ emptied \in SUBSET Nat
      /\ settled \in BOOLEAN
  BY DEF TypeOK
<1>2. MaxId \in Nat
  BY MaxIdIsMax
<1>e. ASSUME NEW pOn, NEW sOn, NEW ids, Edit(pOn, sOn, ids)
      PROVE  /\ presetOn' = pOn /\ sourceOn' = sOn /\ rowid' = ids
             /\ edits' \in 0..MaxEdits /\ settled' \in BOOLEAN
  <2>1. edits < MaxEdits /\ edits' = edits + 1 /\ edits \in 0..MaxEdits
    BY <1>1, <1>e DEF Edit
  <2>2. edits' \in 0..MaxEdits
    BY ONLY <2>1, MaxEditsAssumption
  <2>3. presetOn' = pOn /\ sourceOn' = sOn /\ rowid' = ids /\ settled' = FALSE
    BY <1>e DEF Edit
  <2> QED
    BY <2>2, <2>3
<1>3. CASE SetBlocklistPresetEnabled
  <2>1. PICK p \in Presets : Edit(Toggle(presetOn, p), sourceOn, rowid)
    BY <1>3 DEF SetBlocklistPresetEnabled
  <2>2. Toggle(presetOn, p) \in SUBSET Presets
    BY <1>1 DEF Toggle
  <2>3. UNCHANGED <<status, entries, overtaken, emptied>>
    BY <1>3 DEF SetBlocklistPresetEnabled
  <2>4. /\ presetOn' = Toggle(presetOn, p) /\ sourceOn' = sourceOn /\ rowid' = rowid
        /\ edits' \in 0..MaxEdits /\ settled' \in BOOLEAN
    BY <1>e, <2>1
  <2> QED
    BY <1>1, <2>2, <2>3, <2>4
<1>4. CASE SetBlocklistSourceEnabled
  <2>1. PICK u \in Known : Edit(presetOn, Toggle(sourceOn, u), rowid)
    BY <1>4 DEF SetBlocklistSourceEnabled
  <2>2. Toggle(sourceOn, u) \in SUBSET {v \in Urls : rowid[v] # 0}
    BY <1>1 DEF Toggle, Known
  <2>3. UNCHANGED <<status, entries, overtaken, emptied>>
    BY <1>4 DEF SetBlocklistSourceEnabled
  <2>4. /\ presetOn' = presetOn /\ sourceOn' = Toggle(sourceOn, u) /\ rowid' = rowid
        /\ edits' \in 0..MaxEdits /\ settled' \in BOOLEAN
    BY <1>e, <2>1
  <2> QED
    BY <1>1, <2>2, <2>3, <2>4
<1>5. CASE AddBlocklistSource
  <2>1. PICK u \in Urls :
          Edit(presetOn, sourceOn \cup {u},
               IF u \in Known THEN rowid ELSE [rowid EXCEPT ![u] = MaxId + 1])
    BY <1>5 DEF AddBlocklistSource
  <2>2. /\ rowid' = IF u \in Known THEN rowid ELSE [rowid EXCEPT ![u] = MaxId + 1]
        /\ sourceOn' = sourceOn \cup {u} /\ presetOn' = presetOn
        /\ edits' \in 0..MaxEdits /\ settled' \in BOOLEAN
    BY <1>e, <2>1
  <2>3. ASSUME NEW v \in Urls, rowid[v] # 0 \/ v = u PROVE rowid'[v] # 0
    <3>0. MaxId + 1 # 0
      BY ONLY <1>2
    <3>1. rowid \in [Urls -> Nat] /\ MaxId + 1 # 0
      BY <1>1, <3>0
    <3>2. CASE u \in Known
      BY <2>2, <2>3, <3>2 DEF Known
    <3>3. CASE u \notin Known /\ v = u
      BY <2>2, <3>1, <3>3
    <3>4. CASE u \notin Known /\ v # u
      BY <2>2, <2>3, <3>1, <3>4
    <3> QED
      BY <3>2, <3>3, <3>4
  <2>4. UNCHANGED <<status, entries, overtaken, emptied>>
    BY <1>5 DEF AddBlocklistSource
  <2>5. sourceOn' \in SUBSET {v \in Urls : rowid'[v] # 0}
    BY <1>1, <2>2, <2>3
  <2>6. \A v \in Urls : rowid'[v] = 0 => status'[v] = "not checked"
    BY <1>1, <2>3, <2>4
  <2> QED
    BY <1>1, <2>2, <2>4, <2>5, <2>6
<1>6. CASE ApplyHASyncPayload
  <2>1. PICK want \in SUBSET Urls :
           /\ \A u \in Urls : /\ u \notin want => rowid'[u] = 0
                              /\ u \in want \cap Known => rowid'[u] = rowid[u]
                              /\ u \in want \ Known => MaxId < rowid'[u]
           /\ rowid' \in [Urls -> Nat]
           /\ sourceOn' \in SUBSET want
           /\ presetOn' \in SUBSET Presets
           /\ status' = [u \in Urls |-> IF u \in want THEN status[u] ELSE "not checked"]
           /\ entries' \subseteq entries
           /\ overtaken' \subseteq overtaken \cup {rowid[u] : u \in Known \ want}
           /\ emptied' \subseteq emptied
    BY <1>6, ImportIds
  <2>2. \A u \in want : rowid'[u] # 0
    <3>1. \A u \in want : rowid[u] \in Nat /\ rowid'[u] \in Nat
      BY <1>1, <2>1
    <3>2. \A u \in want \ Known : MaxId < rowid'[u]
      BY <2>1
    <3>3. \A u \in want \ Known : rowid'[u] # 0
      BY ONLY <1>2, <3>1, <3>2
    <3>4. \A u \in want \cap Known : rowid'[u] # 0
      BY <2>1 DEF Known
    <3> QED
      BY <3>3, <3>4
  <2>3. edits' \in 0..MaxEdits /\ settled' \in BOOLEAN
    BY <1>e, <1>6 DEF ApplyHASyncPayload
  <2>4. {rowid[u] : u \in Known \ want} \in SUBSET Nat
    BY <1>1 DEF Known
  <2> QED
    BY <1>1, <2>1, <2>2, <2>3, <2>4
<1>7. ASSUME NEW r \in Refreshes, replaceBlocklistEntries(r)
      PROVE  /\ entries' \in SUBSET Items
             /\ \A e, f \in entries' : SameSource(e, f) => e = f
             /\ emptied' \in SUBSET Nat
             /\ UNCHANGED <<presetOn, sourceOn, rowid, status, edits, overtaken, settled>>
  <2>1. cur[r] \in Items
    BY <1>7 DEF replaceBlocklistEntries, AtDownload, TypeOK
  <2>2. PICK i \in Items : i = cur[r]
    BY <2>1
  <2>3. /\ \/ entries' = {e \in entries : ~SameSource(e, i)} \cup {i} /\ emptied' = emptied \ {i.id}
           \/ entries' = {e \in entries : ~SameSource(e, i)} /\ emptied' = emptied \cup {i.id}
        /\ UNCHANGED <<presetOn, sourceOn, rowid, status, edits, overtaken, settled>>
    BY <1>7, <2>2 DEF replaceBlocklistEntries, switches
  <2>4. \A e \in Items : SameSource(e, i) <=> SameSource(i, e)
    BY DEF SameSource
  <2>5. entries' \in SUBSET Items /\ emptied' \in SUBSET Nat
    BY <1>1, <2>3, ItemFacts
  <2>6. ASSUME NEW e \in entries', NEW f \in entries', SameSource(e, f) PROVE e = f
    <3>1. /\ e \in Items /\ f \in Items
          /\ e = i \/ (e \in entries /\ ~SameSource(e, i))
          /\ f = i \/ (f \in entries /\ ~SameSource(f, i))
      BY <2>3, <2>5
    <3> QED
      BY <1>1, <2>4, <2>6, <3>1
  <2> QED
    BY <2>3, <2>5, <2>6
<1>8. ASSUME NEW r \in Refreshes, recordBlocklistSourceStatus(r)
      PROVE  /\ status' \in [Urls -> {"not checked", "ok", "failed"}]
             /\ \A u \in Urls : rowid'[u] = 0 => status'[u] = "not checked"
             /\ UNCHANGED <<presetOn, sourceOn, rowid, entries, edits, overtaken, emptied, settled>>
  <2>1. cur[r] \in Items /\ outcome[r] \in {"ok", "failed"}
    BY <1>8 DEF recordBlocklistSourceStatus, AtDownload, TypeOK
  <2>2. cur[r].type = "custom" => cur[r].id # 0
    BY <2>1, ItemFacts
  <2> QED
    BY <1>1, <1>8, <2>1, <2>2 DEF recordBlocklistSourceStatus, switches
<1>9. ASSUME NEW r \in Refreshes, \/ RefreshBlocklists(r) \/ enabledBlocklistFetchSources(r)
                                  \/ refreshBlocklistSource(r) \/ StoreFails(r)
      PROVE  UNCHANGED <<presetOn, sourceOn, rowid, status, entries, edits, overtaken, emptied, settled>>
  BY <1>9 DEF RefreshBlocklists, enabledBlocklistFetchSources, refreshBlocklistSource, StoreFails,
              store, switches, history
<1>10. ASSUME NEW r \in Refreshes, RefreshDone(r)
       PROVE  /\ UNCHANGED <<presetOn, sourceOn, rowid, status, entries, edits, overtaken, emptied>>
              /\ settled' \in BOOLEAN
  BY <1>1, <1>10 DEF RefreshDone, store, switches
<1>11. CASE Restart \/ UNCHANGED vars
  BY <1>1, <1>11 DEF Restart, vars, store, switches, history
<1> QED
  BY <1>1, <1>3, <1>4, <1>5, <1>6, <1>7, <1>8, <1>9, <1>10, <1>11 DEF Next

Covered(i) == Sourced(i) \/ i.id \in overtaken

\* Outside an import no source disappears.
LEMMA CoveredKept ==
  ASSUME TypeOK, BoundedIds, KeepIds \/ AddBlocklistSource, NEW i \in Items, Covered(i)
  PROVE  Covered(i)'
<1>1. overtaken' = overtaken
  BY DEF KeepIds, SetBlocklistPresetEnabled, SetBlocklistSourceEnabled, AddBlocklistSource,
         RefreshBlocklists, enabledBlocklistFetchSources, refreshBlocklistSource,
         replaceBlocklistEntries, StoreFails, recordBlocklistSourceStatus, RefreshDone, Restart,
         vars, history
<1>2. CASE KeepIds
  BY <1>1, <1>2, IdsKept DEF Covered, Sourced
<1>3. CASE AddBlocklistSource
  <2>1. PICK u \in Urls : rowid' = IF u \in Known THEN rowid ELSE [rowid EXCEPT ![u] = MaxId + 1]
    BY <1>3 DEF AddBlocklistSource, Edit
  <2>2. rowid \in [Urls -> Nat]
    BY DEF TypeOK
  <2>3. ASSUME i.type = "custom", rowid[i.list] = i.id PROVE rowid'[i.list] = i.id
    <3>1. i.list \in Known
      BY <2>3, ItemFacts DEF Known
    <3> QED
      BY <2>1, <2>2, <2>3, <3>1 DEF Known
  <2> QED
    BY <1>1, <2>3 DEF Covered, Sourced
<1> QED
  BY <1>2, <1>3

\* An import takes the source of an item away only if it also marks it.
LEMMA CoveredByImport ==
  ASSUME TypeOK, BoundedIds, ApplyHASyncPayload, NEW i \in Items, Covered(i),
         i \in entries' \/ i.id \in Carried
  PROVE  Covered(i)'
<1>1. PICK want \in SUBSET Urls :
           /\ \A u \in Urls : u \in want \cap Known => rowid'[u] = rowid[u]
           /\ entries' = {e \in entries : e.type = "preset"
                                            \/ e.id \notin {rowid[u] : u \in Known \ want}}
           /\ overtaken' = (overtaken \ {rowid[u] : u \in Known \ want})
                             \cup ({rowid[u] : u \in Known \ want} \cap Carried)
  BY ImportIds
<1>2. CASE i.type # "custom"
  BY <1>2 DEF Covered, Sourced
<1>3. CASE i.type = "custom" /\ i.id \in {rowid[u] : u \in Known \ want}
  BY <1>1, <1>3 DEF Covered
<1>4. CASE i.type = "custom" /\ i.id \notin {rowid[u] : u \in Known \ want}
  <2>1. CASE i.id \in overtaken
    BY <1>1, <1>4, <2>1 DEF Covered
  <2>2. CASE rowid[i.list] = i.id
    <3>1. i.list \in Known
      BY <1>4, <2>2, ItemFacts DEF Known
    <3>2. i.list \in want
      BY <1>4, <2>2, <3>1
    <3> QED
      BY <1>1, <2>2, <3>1, <3>2 DEF Covered, Sourced, Known
  <2> QED
    BY <1>4, <2>1, <2>2 DEF Covered, Sourced
<1> QED
  BY <1>2, <1>3, <1>4

\* What is enabled is sourced.
LEMMA EnabledAreCovered ==
  ASSUME TypeOK, NEW i \in Enabled(presetOn, sourceOn, rowid)
  PROVE  Covered(i)
BY DEF Enabled, EnabledCustoms, Preset, Custom, Covered, Sourced

\* A step gives a refresh nothing but enabled lists, and stores nothing but
\* what a refresh had.
LEMMA WhereItemsComeFrom ==
  ASSUME TypeOK, AtDownload, [Next]_vars
  PROVE  /\ \A r \in Refreshes : \A i \in Has(r)' :
               i \in Has(r) \/ i \in Enabled(presetOn, sourceOn, rowid)
         /\ \A e \in entries' : e \in entries \/ \E r \in Refreshes : e \in Has(r)
<1>1. /\ pc \in [Refreshes -> {"idle", "sources", "next", "store", "record"}]
      /\ todo \in [Refreshes -> SUBSET Items]
      /\ cur \in [Refreshes -> Items \cup {None}]
  BY DEF TypeOK
<1>2. CASE UNCHANGED <<todo, cur>> /\ entries' \subseteq entries
  BY <1>2 DEF Has
<1>3. CASE SetBlocklistPresetEnabled \/ SetBlocklistSourceEnabled \/ AddBlocklistSource
           \/ ApplyHASyncPayload
  <2>1. UNCHANGED <<todo, cur>> /\ entries' \subseteq entries
    BY <1>3 DEF SetBlocklistPresetEnabled, SetBlocklistSourceEnabled, AddBlocklistSource,
                ApplyHASyncPayload, Edit, refresh, deleteMissingBlocklistSources
  <2> QED
    BY <1>2, <2>1
<1>4. ASSUME NEW r \in Refreshes, RefreshBlocklists(r) \/ enabledBlocklistFetchSources(r)
      PROVE  /\ \A q \in Refreshes : \A i \in Has(q)' :
                  i \in Has(q) \/ i \in Enabled(presetOn, sourceOn, rowid)
             /\ UNCHANGED entries
  BY <1>1, <1>4 DEF RefreshBlocklists, enabledBlocklistFetchSources, Has, Enabled, store
<1>5. ASSUME NEW r \in Refreshes, refreshBlocklistSource(r)
      PROVE  (\A q \in Refreshes : Has(q)' \subseteq Has(q)) /\ UNCHANGED entries
  <2>1. PICK i \in todo[r] : todo' = [todo EXCEPT ![r] = @ \ {i}] /\ cur' = [cur EXCEPT ![r] = i]
    BY <1>5 DEF refreshBlocklistSource
  <2> QED
    BY <1>1, <1>5, <2>1 DEF refreshBlocklistSource, Has, store
<1>6. ASSUME NEW r \in Refreshes, replaceBlocklistEntries(r)
      PROVE  /\ UNCHANGED <<todo, cur>>
             /\ \A e \in entries' : e \in entries \/ e \in Has(r)
  <2>1. cur[r] # None
    BY <1>6 DEF replaceBlocklistEntries, AtDownload
  <2> QED
    BY <1>6, <2>1 DEF replaceBlocklistEntries, Has
<1>7. ASSUME NEW r \in Refreshes, StoreFails(r) \/ RefreshDone(r)
      PROVE  UNCHANGED <<todo, cur, entries>>
  BY <1>7 DEF StoreFails, RefreshDone, store
<1>8. ASSUME NEW r \in Refreshes, recordBlocklistSourceStatus(r)
      PROVE  (\A q \in Refreshes : Has(q)' \subseteq Has(q)) /\ UNCHANGED entries
  BY <1>1, <1>8 DEF recordBlocklistSourceStatus, Has
<1>9. CASE Restart
  BY <1>9 DEF Restart, Has, store
<1>10. CASE UNCHANGED vars
  BY <1>10 DEF vars, store, refresh, Has
<1>11. \A r \in Refreshes : \A i \in Has(r)' :
               i \in Has(r) \/ i \in Enabled(presetOn, sourceOn, rowid)
  BY <1>3, <1>4, <1>5, <1>6, <1>7, <1>8, <1>9, <1>10 DEF Next, Has
<1>12. \A e \in entries' : e \in entries \/ \E r \in Refreshes : e \in Has(r)
  BY <1>3, <1>4, <1>5, <1>6, <1>7, <1>8, <1>9, <1>10 DEF Next
<1> QED
  BY <1>11, <1>12

\* Stored and carried items stay covered.
LEMMA OverlapPreserved ==
  ASSUME TypeOK, BoundedIds, AtDownload, OrphansNeedOverlap, CarriedNeedOverlap, [Next]_vars
  PROVE  OrphansNeedOverlap' /\ CarriedNeedOverlap'
<1>1. /\ \A r \in Refreshes : Has(r) \subseteq Items
      /\ entries \subseteq Items
  BY DEF TypeOK, Has
<1>2. /\ \A r \in Refreshes : \A i \in Has(r) : Covered(i)
      /\ \A e \in entries : Covered(e)
  BY DEF OrphansNeedOverlap, CarriedNeedOverlap, Covered
<1>3. CASE ApplyHASyncPayload
  <2>1. ASSUME NEW e \in entries' PROVE Covered(e)'
    <3>1. e \in entries
      BY <1>3 DEF ApplyHASyncPayload, deleteMissingBlocklistSources
    <3> QED
      BY <1>1, <1>2, <1>3, <3>1, CoveredByImport
  <2>2. ASSUME NEW r \in Refreshes, NEW i \in Has(r)' PROVE Covered(i)'
    <3>1. i \in Has(r)
      BY <1>3 DEF ApplyHASyncPayload, Edit, refresh, Has
    <3>2. CASE i.type = "custom"
      <4>1. i.id \in Carried
        BY <3>1, <3>2 DEF Carried, Has
      <4> QED
        BY <1>1, <1>2, <1>3, <3>1, <4>1, CoveredByImport
    <3>3. CASE i.type # "custom"
      BY <3>3 DEF Covered, Sourced
    <3> QED
      BY <3>2, <3>3
  <2> QED
    BY <2>1, <2>2 DEF OrphansNeedOverlap, CarriedNeedOverlap, Covered
<1>4. CASE KeepIds \/ AddBlocklistSource
  <2>1. ASSUME NEW e \in entries' PROVE Covered(e)'
    <3>1. e \in Items /\ Covered(e)
      BY <1>1, <1>2, WhereItemsComeFrom
    <3> QED
      BY <1>4, <3>1, CoveredKept
  <2>2. ASSUME NEW r \in Refreshes, NEW i \in Has(r)' PROVE Covered(i)'
    <3>1. i \in Items /\ Covered(i)
      BY <1>1, <1>2, WhereItemsComeFrom, EnabledAreItems, EnabledAreCovered
    <3> QED
      BY <1>4, <3>1, CoveredKept
  <2> QED
    BY <2>1, <2>2 DEF OrphansNeedOverlap, CarriedNeedOverlap, Covered
<1> QED
  BY <1>3, <1>4, NextSteps

\* A status of ok, recorded or about to be, and what justifies it.
Justified(i) == i \in entries \/ i.id \in emptied \cup overtaken

\* Nothing but an import takes the justification of a covered item away: a
\* download of another list under the same id is not covered by its source.
LEMMA JustifiedKept ==
  ASSUME TypeOK, AtDownload, CarriedNeedOverlap, KeepIds \/ AddBlocklistSource,
         NEW i \in Items, i.type = "custom", Covered(i), Justified(i)
  PROVE  Justified(i)'
<1>1. overtaken' = overtaken
  BY DEF KeepIds, SetBlocklistPresetEnabled, SetBlocklistSourceEnabled, AddBlocklistSource,
         RefreshBlocklists, enabledBlocklistFetchSources, refreshBlocklistSource,
         replaceBlocklistEntries, StoreFails, recordBlocklistSourceStatus, RefreshDone, Restart,
         vars, history
<1>2. ASSUME NEW r \in Refreshes, replaceBlocklistEntries(r) PROVE Justified(i)'
  <2>1. cur[r] \in Items /\ cur[r] # None
    BY <1>2 DEF replaceBlocklistEntries, AtDownload, TypeOK
  <2>2. PICK c \in Items : c = cur[r]
    BY <2>1
  <2>3. Covered(c)
    BY <2>1, <2>2 DEF CarriedNeedOverlap, Has, Covered
  <2>4. \/ entries' = {e \in entries : ~SameSource(e, c)} \cup {c} /\ emptied' = emptied \ {c.id}
        \/ entries' = {e \in entries : ~SameSource(e, c)} /\ emptied' = emptied \cup {c.id}
    BY <1>2, <2>2 DEF replaceBlocklistEntries
  <2>5. CASE i.id \in overtaken
    BY <1>1, <2>5 DEF Justified
  <2>6. CASE i.id \notin overtaken /\ c.type = "custom" /\ c.id = i.id
    <3>1. i.list \in Urls /\ c.list \in Urls /\ rowid[i.list] = i.id /\ rowid[c.list] = i.id /\ i.id # 0
      BY <2>3, <2>6, ItemFacts DEF Covered, Sourced
    <3>a. \A u, v \in Urls : rowid[u] = rowid[v] /\ rowid[u] # 0 => u = v
      BY DEF TypeOK
    <3>2. i.list = c.list
      BY <3>1, <3>a
    <3>3. i = c
      BY <2>6, <3>2 DEF Items
    <3> QED
      BY <2>4, <3>3 DEF Justified
  <2>7. CASE c.type # "custom" \/ c.id # i.id
    <3>1. ~SameSource(i, c)
      BY <2>7 DEF SameSource
    <3>2. i.id # 0 /\ (c.type # "custom" => c.id = 0)
      BY ItemFacts DEF Items
    <3>3. i.id # c.id
      BY <2>7, <3>2
    <3> QED
      BY <1>1, <2>4, <3>1, <3>3 DEF Justified
  <2> QED
    BY <2>5, <2>6, <2>7
<1>3. CASE ~\E r \in Refreshes : replaceBlocklistEntries(r)
  <2>1. UNCHANGED <<entries, emptied>>
    BY <1>3 DEF KeepIds, SetBlocklistPresetEnabled, SetBlocklistSourceEnabled, AddBlocklistSource,
         RefreshBlocklists, enabledBlocklistFetchSources, refreshBlocklistSource,
         StoreFails, recordBlocklistSourceStatus, RefreshDone, Restart, vars, store, history
  <2> QED
    BY <1>1, <2>1 DEF Justified
<1> QED
  BY <1>2, <1>3

LEMMA JustifiedByImport ==
  ASSUME TypeOK, BoundedIds, ApplyHASyncPayload, NEW i \in Items, i.type = "custom", Justified(i),
         i.id \in Carried \/ (rowid'[i.list] = i.id /\ rowid[i.list] = i.id)
  PROVE  Justified(i)'
<1>1. PICK want \in SUBSET Urls :
           /\ \A u \in Urls : u \notin want => rowid'[u] = 0
           /\ entries' = {e \in entries : e.type = "preset"
                                            \/ e.id \notin {rowid[u] : u \in Known \ want}}
           /\ overtaken' = (overtaken \ {rowid[u] : u \in Known \ want})
                             \cup ({rowid[u] : u \in Known \ want} \cap Carried)
           /\ emptied' = emptied \ {rowid[u] : u \in Known \ want}
  BY ImportIds
<1>2. CASE i.id \in Carried /\ i.id \in {rowid[u] : u \in Known \ want}
  BY <1>1, <1>2 DEF Justified
<1>3. CASE i.id \notin {rowid[u] : u \in Known \ want}
  BY <1>1, <1>3 DEF Justified
<1>4. CASE rowid'[i.list] = i.id /\ rowid[i.list] = i.id
  <2>1. i.list \in want
    BY <1>1, <1>4, ItemFacts
  <2>2. ASSUME NEW u \in Known \ want PROVE rowid[u] # i.id
    BY <1>4, <2>1, ItemFacts DEF TypeOK, Known
  <2> QED
    BY <1>3, <2>2
<1> QED
  BY <1>2, <1>3, <1>4

\* A row that says ok names an item.
LEMMA OkRowIsItem ==
  ASSUME TypeOK, NEW u \in Urls, rowid[u] # 0
  PROVE  Custom(u, rowid) \in Items /\ Custom(u, rowid).type = "custom"
         /\ Custom(u, rowid).list = u /\ Custom(u, rowid).id = rowid[u] /\ Covered(Custom(u, rowid))
<1>1. rowid[u] \in Nat \ {0}
  BY DEF TypeOK
<1> QED
  BY <1>1 DEF Custom, Items, Covered, Sourced

\* Only the end of a download writes a status, and only its own.
LEMMA WhereOkComesFrom ==
  ASSUME TypeOK, AtDownload, KeepIds \/ AddBlocklistSource
  PROVE  /\ \A u \in Urls :
              \/ status'[u] = status[u]
              \/ \E r \in Refreshes :
                   /\ recordBlocklistSourceStatus(r)
                   /\ cur[r].type = "custom" /\ rowid[u] = cur[r].id
                   /\ status'[u] = outcome[r]
         /\ \A r \in Refreshes :
              pc'[r] = "record" /\ outcome'[r] = "ok"
                => \/ pc[r] = "record" /\ outcome[r] = "ok" /\ cur'[r] = cur[r]
                   \/ replaceBlocklistEntries(r)
<1>1. /\ pc \in [Refreshes -> {"idle", "sources", "next", "store", "record"}]
      /\ cur \in [Refreshes -> Items \cup {None}]
      /\ outcome \in [Refreshes -> {"ok", "failed"}]
      /\ status \in [Urls -> {"not checked", "ok", "failed"}]
  BY DEF TypeOK
<1>2. CASE SetBlocklistPresetEnabled \/ SetBlocklistSourceEnabled \/ AddBlocklistSource
           \/ UNCHANGED vars
  <2>1. UNCHANGED <<status, pc, cur, outcome>>
    BY <1>2 DEF SetBlocklistPresetEnabled, SetBlocklistSourceEnabled, AddBlocklistSource, Edit,
                refresh, vars, store
  <2> QED
    BY <2>1
<1>3. ASSUME NEW r \in Refreshes, RefreshBlocklists(r) \/ enabledBlocklistFetchSources(r)
                                    \/ RefreshDone(r)
      PROVE  /\ UNCHANGED <<status, cur, outcome>>
             /\ \E s \in {"idle", "sources", "next"} : pc' = [pc EXCEPT ![r] = s]
  BY <1>3 DEF RefreshBlocklists, enabledBlocklistFetchSources, RefreshDone, store
<1>4. ASSUME NEW r \in Refreshes, refreshBlocklistSource(r) \/ StoreFails(r)
      PROVE  /\ UNCHANGED status
             /\ \A q \in Refreshes \ {r} : pc'[q] = pc[q] /\ cur'[q] = cur[q] /\ outcome'[q] = outcome[q]
             /\ pc'[r] = "record" => outcome'[r] = "failed"
  BY <1>1, <1>4 DEF refreshBlocklistSource, StoreFails, store
<1>5. ASSUME NEW r \in Refreshes, replaceBlocklistEntries(r)
      PROVE  /\ UNCHANGED status
             /\ \A q \in Refreshes \ {r} : pc'[q] = pc[q] /\ cur'[q] = cur[q] /\ outcome'[q] = outcome[q]
  BY <1>1, <1>5 DEF replaceBlocklistEntries
<1>6. ASSUME NEW r \in Refreshes, recordBlocklistSourceStatus(r)
      PROVE  /\ \A u \in Urls : \/ status'[u] = status[u]
                                \/ /\ cur[r].type = "custom" /\ rowid[u] = cur[r].id
                                   /\ status'[u] = outcome[r]
             /\ \A q \in Refreshes \ {r} : pc'[q] = pc[q] /\ cur'[q] = cur[q] /\ outcome'[q] = outcome[q]
             /\ pc'[r] = "next"
  BY <1>1, <1>6 DEF recordBlocklistSourceStatus
<1>7. CASE Restart
  BY <1>7 DEF Restart, store
<1> QED
  BY <1>1, <1>2, <1>3, <1>4, <1>5, <1>6, <1>7 DEF KeepIds

\* The step that stores a download makes its status true.
LEMMA StoredIsJustified ==
  ASSUME TypeOK, AtDownload, NEW r \in Refreshes, replaceBlocklistEntries(r)
  PROVE  Justified(cur[r])' /\ cur'[r] = cur[r]
<1>1. PICK c \in Items : c = cur[r]
  BY DEF replaceBlocklistEntries, AtDownload, TypeOK
<1>2. /\ \/ entries' = {e \in entries : ~SameSource(e, c)} \cup {c}
         \/ emptied' = emptied \cup {c.id}
      /\ cur' = cur
  BY <1>1 DEF replaceBlocklistEntries
<1> QED
  BY <1>1, <1>2 DEF Justified

\* Statuses of ok stay justified.
LEMMA OkPreserved ==
  ASSUME TypeOK, BoundedIds, AtDownload, CarriedNeedOverlap, OkMeansEnforced, OkBeforeRecord,
         [Next]_vars
  PROVE  OkMeansEnforced' /\ OkBeforeRecord'
<1>0. /\ rowid \in [Urls -> Nat]
      /\ \A u, v \in Urls : rowid[u] = rowid[v] /\ rowid[u] # 0 => u = v
      /\ \A u \in Urls : rowid[u] = 0 => status[u] = "not checked"
      /\ cur \in [Refreshes -> Items \cup {None}]
  BY DEF TypeOK
<1>1. ASSUME NEW u \in Urls, status[u] = "ok"
      PROVE  /\ rowid[u] # 0
             /\ Custom(u, rowid) \in Items /\ Custom(u, rowid).type = "custom"
             /\ Custom(u, rowid).list = u /\ Custom(u, rowid).id = rowid[u]
             /\ Covered(Custom(u, rowid)) /\ Justified(Custom(u, rowid))
  <2>1. rowid[u] # 0
    BY <1>0, <1>1
  <2> QED
    BY <1>1, <2>1, OkRowIsItem DEF OkMeansEnforced, Justified
<1>2. ASSUME NEW r \in Refreshes, pc[r] = "record"
      PROVE  /\ cur[r] \in Items /\ Covered(cur[r])
             /\ outcome[r] = "ok" /\ cur[r].type = "custom" => Justified(cur[r])
  <2>1. cur[r] \in Items /\ cur[r] \in Has(r)
    BY <1>0, <1>2 DEF AtDownload, Has
  <2> QED
    BY <1>2, <2>1 DEF CarriedNeedOverlap, OkBeforeRecord, Covered, Justified
<1>3. CASE ApplyHASyncPayload
  <2>1. PICK want \in SUBSET Urls :
           /\ \A v \in Urls : v \in want \cap Known => rowid'[v] = rowid[v]
           /\ status' = [v \in Urls |-> IF v \in want THEN status[v] ELSE "not checked"]
    BY <1>3, ImportIds
  <2>2. ASSUME NEW u \in Urls, status'[u] = "ok"
        PROVE  Custom(u, rowid') \in entries' \/ rowid'[u] \in emptied' \cup overtaken'
    <3>1. u \in want /\ status[u] = "ok"
      BY <2>1, <2>2
    <3>2. u \in Known /\ rowid'[u] = rowid[u]
      BY <1>1, <2>1, <3>1 DEF Known
    <3>3. PICK i \in Items : i = Custom(u, rowid)
      BY <1>1, <3>1
    <3>4. i.type = "custom" /\ i.list = u /\ i.id = rowid[u] /\ Justified(i)
      BY <1>1, <3>1, <3>3
    <3>5. Justified(i)'
      BY <1>3, <3>2, <3>4, JustifiedByImport
    <3>6. Custom(u, rowid') = i
      BY <3>2, <3>3 DEF Custom
    <3> QED
      BY <3>2, <3>4, <3>5, <3>6 DEF Justified
  <2>3. ASSUME NEW r \in Refreshes, pc'[r] = "record", outcome'[r] = "ok", cur'[r].type = "custom"
        PROVE  Justified(cur[r])' /\ cur'[r] = cur[r]
    <3>1. UNCHANGED <<pc, todo, cur, outcome>>
      BY <1>3 DEF ApplyHASyncPayload, Edit, refresh
    <3>2. PICK i \in Items : i = cur[r]
      BY <1>2, <2>3, <3>1
    <3>3. i.type = "custom" /\ Justified(i) /\ i.id \in Carried
      BY <1>2, <2>3, <3>1, <3>2 DEF Carried
    <3>a. i.id \in Carried \/ (rowid'[i.list] = i.id /\ rowid[i.list] = i.id)
      BY <3>3
    <3>4. Justified(i)'
      BY <1>3, <3>3, <3>a, JustifiedByImport
    <3> QED
      BY <3>1, <3>2, <3>4 DEF Justified
  <2> QED
    BY <2>2, <2>3 DEF OkMeansEnforced, OkBeforeRecord, Justified, Custom
<1>4. CASE KeepIds \/ AddBlocklistSource
  <2>1. ASSUME NEW u \in Urls, rowid[u] # 0 PROVE rowid'[u] = rowid[u]
    <3>1. Covered(Custom(u, rowid)) /\ Custom(u, rowid) \in Items
      BY <2>1, OkRowIsItem
    <3>2. CASE KeepIds
      BY <3>2, IdsKept
    <3>3. CASE AddBlocklistSource
      BY <1>0, <2>1, <3>3 DEF AddBlocklistSource, Edit, Known
    <3> QED
      BY <1>4, <3>2, <3>3
  <2>2. ASSUME NEW u \in Urls, status'[u] = "ok"
        PROVE  Custom(u, rowid') \in entries' \/ rowid'[u] \in emptied' \cup overtaken'
    <3>1. CASE status[u] = "ok"
      <4>1. PICK i \in Items : i = Custom(u, rowid)
        BY <1>1, <3>1
      <4>2. /\ i.type = "custom" /\ i.id = rowid[u] /\ Covered(i) /\ Justified(i)
            /\ rowid'[u] = rowid[u]
        BY <1>1, <2>1, <3>1, <4>1
      <4>3. Justified(i)'
        BY <1>4, <4>2, JustifiedKept
      <4>4. Custom(u, rowid') = i
        BY <4>1, <4>2 DEF Custom
      <4> QED
        BY <4>2, <4>3, <4>4 DEF Justified
    <3>2. CASE status[u] # "ok"
      <4>1. PICK r \in Refreshes : /\ recordBlocklistSourceStatus(r)
                                   /\ cur[r].type = "custom" /\ rowid[u] = cur[r].id
                                   /\ outcome[r] = "ok"
        BY <1>4, <2>2, <3>2, WhereOkComesFrom
      <4>2. UNCHANGED <<rowid, entries, emptied, overtaken>> /\ pc[r] = "record"
        BY <4>1 DEF recordBlocklistSourceStatus
      <4>3. PICK i \in Items : i = cur[r]
        BY <1>2, <4>2
      <4>4. i.type = "custom" /\ i.id = rowid[u] /\ Covered(i) /\ Justified(i)
        BY <1>2, <4>1, <4>2, <4>3
      <4>5. CASE i.id \in overtaken
        BY <4>2, <4>4, <4>5
      <4>6. CASE i.id \notin overtaken
        <5>1. i.list \in Urls /\ rowid[i.list] = rowid[u] /\ rowid[u] # 0
          BY <4>4, <4>6, ItemFacts DEF Covered, Sourced
        <5>2. i.list = u
          BY <1>0, <5>1
        <5>3. i = Custom(u, rowid')
          BY <4>2, <4>4, <5>2 DEF Items, Custom
        <5> QED
          BY <4>2, <4>4, <5>3 DEF Justified
      <4> QED
        BY <4>5, <4>6
    <3> QED
      BY <3>1, <3>2
  <2>3. ASSUME NEW r \in Refreshes, pc'[r] = "record", outcome'[r] = "ok", cur'[r].type = "custom"
        PROVE  Justified(cur[r])' /\ cur'[r] = cur[r]
    <3>1. CASE pc[r] = "record" /\ outcome[r] = "ok" /\ cur'[r] = cur[r]
      <4>1. PICK i \in Items : i = cur[r]
        BY <1>2, <3>1
      <4>2. i.type = "custom" /\ Covered(i) /\ Justified(i)
        BY <1>2, <2>3, <3>1, <4>1
      <4>3. Justified(i)'
        BY <1>4, <4>2, JustifiedKept
      <4> QED
        BY <3>1, <4>1, <4>3 DEF Justified
    <3>2. CASE replaceBlocklistEntries(r)
      BY <3>2, StoredIsJustified
    <3> QED
      BY <1>4, <2>3, <3>1, <3>2, WhereOkComesFrom
  <2> QED
    BY <2>2, <2>3 DEF OkMeansEnforced, OkBeforeRecord, Justified, Custom
<1> QED
  BY <1>3, <1>4, NextSteps

\* A change of the switches takes disabled lists out of since, and the rest
\* stays done or to be done.
LEMMA SinceKeptByEdit ==
  ASSUME TypeOK, SinceCovered, NEW pOn, NEW sOn, NEW ids, Edit(pOn, sOn, ids)
  PROVE  SinceCovered'
<1>1. /\ presetOn' = pOn /\ sourceOn' = sOn /\ rowid' = ids
      /\ since' = [r \in Refreshes |-> since[r] \cap Enabled(pOn, sOn, ids)]
      /\ UNCHANGED <<pc, todo, cur, tried>>
  BY DEF Edit, refresh
<1>2. ASSUME NEW r \in Refreshes
      PROVE  /\ since'[r] \subseteq Enabled(presetOn', sourceOn', rowid')
             /\ since'[r] \subseteq since[r]
  BY <1>1
<1>3. ASSUME NEW r \in Refreshes, pc[r] = "sources", NEW i \in since'[r]
      PROVE  i \in todo[r] \cup EnabledCustoms(sourceOn', rowid')
  <2>1. i \in todo[r] \/ i \in EnabledCustoms(sourceOn, rowid)
    BY <1>2, <1>3 DEF SinceCovered
  <2>2. i \in {Preset(p) : p \in presetOn'} \/ i \in EnabledCustoms(sourceOn', rowid')
    BY <1>2, <1>3 DEF Enabled
  <2>3. i \in EnabledCustoms(sourceOn, rowid) => i \notin {Preset(p) : p \in presetOn'}
    BY DEF EnabledCustoms, Preset, Custom
  <2> QED
    BY <2>1, <2>2, <2>3
<1>4. \A r \in Refreshes : Has(r)' = Has(r)
  BY <1>1 DEF Has
<1>5. ASSUME NEW r \in Refreshes
      PROVE  /\ pc'[r] = "idle" => since'[r] = {}
             /\ pc'[r] = "sources" => since'[r] \subseteq todo'[r] \cup EnabledCustoms(sourceOn', rowid')
             /\ pc'[r] \in {"next", "store", "record"} => since'[r] \subseteq Has(r)' \cup tried'[r]
  <2>1. pc'[r] = "idle" => since'[r] = {}
    BY <1>1, <1>2 DEF SinceCovered
  <2>2. pc'[r] = "sources" => since'[r] \subseteq todo'[r] \cup EnabledCustoms(sourceOn', rowid')
    BY <1>1, <1>3
  <2>3. pc'[r] \in {"next", "store", "record"} => since'[r] \subseteq Has(r)' \cup tried'[r]
    BY <1>1, <1>2, <1>4 DEF SinceCovered
  <2> QED
    BY <2>1, <2>2, <2>3
<1> QED
  BY <1>2, <1>5 DEF SinceCovered, Enabled, EnabledCustoms, Preset, Custom

\* Lists that were enabled all along are done or to be done, at every step of
\* a refresh.
LEMMA SincePreserved ==
  ASSUME TypeOK, AtDownload, SinceCovered, [Next]_vars
  PROVE  SinceCovered'
<1>1. /\ pc \in [Refreshes -> {"idle", "sources", "next", "store", "record"}]
      /\ todo \in [Refreshes -> SUBSET Items]
      /\ cur \in [Refreshes -> Items \cup {None}]
      /\ since \in [Refreshes -> SUBSET Items]
      /\ tried \in [Refreshes -> SUBSET Items]
  BY DEF TypeOK
<1>2. CASE SetBlocklistPresetEnabled \/ SetBlocklistSourceEnabled \/ AddBlocklistSource
           \/ ApplyHASyncPayload
  BY <1>2, SinceKeptByEdit DEF SetBlocklistPresetEnabled, SetBlocklistSourceEnabled,
                               AddBlocklistSource, ApplyHASyncPayload
<1> DEFINE Done(r) ==
             /\ since[r] \subseteq Enabled(presetOn, sourceOn, rowid)
             /\ pc[r] = "idle" => since[r] = {}
             /\ pc[r] = "sources" => since[r] \subseteq todo[r] \cup EnabledCustoms(sourceOn, rowid)
             /\ pc[r] \in {"next", "store", "record"} => since[r] \subseteq Has(r) \cup tried[r]
<1>3. \A r \in Refreshes : Done(r)
  BY DEF SinceCovered
<1>4. SUFFICES ASSUME UNCHANGED <<presetOn, sourceOn, rowid>>, NEW q \in Refreshes
               PROVE  Done(q)'
  <2>1. CASE UNCHANGED <<presetOn, sourceOn, rowid>>
    BY <1>4, <2>1 DEF SinceCovered
  <2>2. \/ UNCHANGED <<presetOn, sourceOn, rowid>>
        \/ SetBlocklistPresetEnabled \/ SetBlocklistSourceEnabled \/ AddBlocklistSource
        \/ ApplyHASyncPayload
    BY DEF Next, RefreshBlocklists, enabledBlocklistFetchSources, refreshBlocklistSource,
           replaceBlocklistEntries, StoreFails, recordBlocklistSourceStatus, RefreshDone, Restart,
           vars, store, switches
  <2> QED
    BY <1>2, <2>1, <2>2
<1>5. CASE /\ pc'[q] = pc[q] /\ todo'[q] = todo[q] /\ cur'[q] = cur[q]
           /\ since'[q] = since[q] /\ tried'[q] = tried[q]
  BY <1>3, <1>4, <1>5 DEF Has, Enabled, EnabledCustoms, Preset, Custom
<1>6. CASE RefreshBlocklists(q)
  <2>1. /\ since'[q] = Enabled(presetOn, sourceOn, rowid)
        /\ todo'[q] = {Preset(p) : p \in presetOn} /\ pc'[q] = "sources"
    BY <1>1, <1>6 DEF RefreshBlocklists
  <2> QED
    BY <1>4, <2>1 DEF Enabled, EnabledCustoms, Preset, Custom
<1>7. CASE enabledBlocklistFetchSources(q)
  <2>1. /\ todo'[q] = todo[q] \cup EnabledCustoms(sourceOn, rowid) /\ pc'[q] = "next"
        /\ pc[q] = "sources" /\ UNCHANGED <<since, tried, cur>>
    BY <1>1, <1>7 DEF enabledBlocklistFetchSources, history
  <2>2. since'[q] \subseteq Has(q)'
    BY <1>3, <2>1 DEF Has
  <2> QED
    BY <1>3, <1>4, <2>1, <2>2 DEF Enabled, EnabledCustoms, Preset, Custom
<1>8. CASE refreshBlocklistSource(q)
  <2>1. PICK i \in todo[q] : todo' = [todo EXCEPT ![q] = @ \ {i}] /\ cur' = [cur EXCEPT ![q] = i]
    BY <1>8 DEF refreshBlocklistSource
  <2>2. pc[q] = "next" /\ pc'[q] \in {"store", "record"} /\ UNCHANGED <<since, tried>>
    BY <1>1, <1>8 DEF refreshBlocklistSource, history
  <2>3. i # None /\ cur[q] = None /\ todo'[q] = todo[q] \ {i} /\ cur'[q] = i
    BY <1>1, <2>1, <2>2, ItemFacts DEF AtDownload
  <2>4. Has(q)' = Has(q)
    BY <2>3 DEF Has
  <2> QED
    BY <1>3, <1>4, <2>2, <2>4 DEF Enabled, EnabledCustoms, Preset, Custom
<1>9. CASE replaceBlocklistEntries(q) \/ StoreFails(q)
  <2>1. /\ pc[q] = "store" /\ pc'[q] = "record"
        /\ UNCHANGED <<todo, cur, since, tried>>
    BY <1>1, <1>9 DEF replaceBlocklistEntries, StoreFails, history
  <2> QED
    BY <1>3, <1>4, <2>1 DEF Has, Enabled, EnabledCustoms, Preset, Custom
<1>10. CASE recordBlocklistSourceStatus(q)
  <2>1. /\ pc[q] = "record" /\ pc'[q] = "next" /\ cur'[q] = None
        /\ tried'[q] = tried[q] \cup {cur[q]}
        /\ UNCHANGED <<todo, since>>
    BY <1>1, <1>10 DEF recordBlocklistSourceStatus
  <2>2. since'[q] \subseteq Has(q)' \cup tried'[q]
    BY <1>3, <2>1 DEF Has
  <2> QED
    BY <1>3, <1>4, <2>1, <2>2 DEF Enabled, EnabledCustoms, Preset, Custom
<1>11. CASE RefreshDone(q)
  <2>1. since'[q] = {} /\ pc'[q] = "idle"
    BY <1>1, <1>11 DEF RefreshDone
  <2> QED
    BY <2>1
<1>12. CASE Restart
  <2>1. since'[q] = {} /\ pc'[q] = "idle"
    BY <1>12 DEF Restart
  <2> QED
    BY <2>1
<1>13. ASSUME NEW r \in Refreshes, r # q,
              \/ RefreshBlocklists(r) \/ enabledBlocklistFetchSources(r)
              \/ refreshBlocklistSource(r) \/ replaceBlocklistEntries(r) \/ StoreFails(r)
              \/ recordBlocklistSourceStatus(r) \/ RefreshDone(r)
       PROVE  /\ pc'[q] = pc[q] /\ todo'[q] = todo[q] /\ cur'[q] = cur[q]
              /\ since'[q] = since[q] /\ tried'[q] = tried[q]
  BY <1>1, <1>13 DEF RefreshBlocklists, enabledBlocklistFetchSources, refreshBlocklistSource,
         replaceBlocklistEntries, StoreFails, recordBlocklistSourceStatus, RefreshDone, history
<1>14. CASE UNCHANGED vars
  BY <1>5, <1>14 DEF vars, refresh, history
<1>15. CASE SetBlocklistPresetEnabled \/ SetBlocklistSourceEnabled \/ AddBlocklistSource
            \/ ApplyHASyncPayload
  BY <1>2, <1>15 DEF SinceCovered
<1> QED
  BY <1>5, <1>6, <1>7, <1>8, <1>9, <1>10, <1>11, <1>12, <1>13, <1>14, <1>15 DEF Next

(***************************************************************************)
(* Theorems                                                                *)
(***************************************************************************)

\* The inductive invariant holds of every behaviour: ids stay unique, and what
\* a running refresh carries stays accounted for while others edit.
THEOREM InvariantHolds == Spec => []IInv
<1>1. Init => IInv
  <2> SUFFICES ASSUME Init PROVE IInv
    OBVIOUS
  <2>0. 0 \in 0..MaxEdits
    BY MaxEditsAssumption
  <2>a. rowid \in [Urls -> Nat] /\ \A u \in Urls : rowid[u] = 0
    BY DEF Init
  <2>1. AtDownload /\ SinceCovered
    BY DEF Init, AtDownload, SinceCovered
  <2>b. settled \in BOOLEAN
    BY DEF Init
  <2>c. TypeOK
    BY <2>0, <2>a, <2>b DEF Init, TypeOK
  <2>2. BoundedIds
    <3>1. \A u \in Urls : rowid[u] <= 0
      BY <2>a
    <3> QED
      BY <3>1 DEF BoundedIds
  <2>3. OrphansNeedOverlap /\ CarriedNeedOverlap /\ OkMeansEnforced /\ OkBeforeRecord
    BY DEF Init, OrphansNeedOverlap, CarriedNeedOverlap, OkMeansEnforced, OkBeforeRecord, Has
  <2> QED
    BY <2>1, <2>2, <2>3, <2>c DEF IInv
<1>2. IInv /\ [Next]_vars => IInv'
  <2> SUFFICES ASSUME IInv, [Next]_vars PROVE IInv'
    OBVIOUS
  <2>0. /\ TypeOK /\ BoundedIds /\ AtDownload /\ OrphansNeedOverlap /\ CarriedNeedOverlap
        /\ OkMeansEnforced /\ OkBeforeRecord /\ SinceCovered
    BY DEF IInv
  <2>1. TypeOK' /\ AtDownload' /\ BoundedIds'
    BY <2>0, IdsPreserved, RefreshPreserved, StorePreserved DEF TypeOK
  <2>2. OrphansNeedOverlap' /\ CarriedNeedOverlap'
    BY <2>0, OverlapPreserved
  <2>3. OkMeansEnforced' /\ OkBeforeRecord'
    BY <2>0, OkPreserved
  <2>4. SinceCovered'
    BY <2>0, SincePreserved
  <2> QED
    BY <2>1, <2>2, <2>3, <2>4 DEF IInv
<1> QED
  BY <1>1, <1>2, PTL DEF Spec

\* Types; ids of sources are unique and a source has one set of entries,
\* whatever refreshes, edits and imports interleave.
THEOREM TypeCorrect == Spec => []TypeOK
<1>1. IInv => TypeOK
  BY DEF IInv
<1> QED
  BY <1>1, InvariantHolds, PTL

\* Entries without their source come only from an import that deleted it while
\* a refresh had it (replaceBlocklistEntries, deleteMissingBlocklistSources).
THEOREM OrphansOnlyByOverlap == Spec => []OrphansNeedOverlap
<1>1. IInv => OrphansNeedOverlap
  BY DEF IInv
<1> QED
  BY <1>1, InvariantHolds, PTL

\* A source recorded as ok is enforced with its own list, unless that list was
\* empty or an import overtook the refresh (recordBlocklistSourceStatus).
THEOREM OkIsEnforced == Spec => []OkMeansEnforced
<1>1. IInv => OkMeansEnforced
  BY DEF IInv
<1> QED
  BY <1>1, InvariantHolds, PTL

\* A refresh that ends has tried every list that was enabled all along
\* (RefreshBlocklists, enabledBlocklistFetchSources).
THEOREM RefreshIsComplete == Spec => []RefreshCoversEnabled
<1>1. IInv => RefreshCoversEnabled
  <2> SUFFICES ASSUME IInv, NEW r \in Refreshes, pc[r] = "next", todo[r] = {}
               PROVE  since[r] \subseteq tried[r]
    BY DEF RefreshCoversEnabled
  <2>1. cur[r] = None
    BY DEF IInv, AtDownload
  <2> QED
    BY <2>1 DEF IInv, SinceCovered, Has
<1> QED
  BY <1>1, InvariantHolds, PTL
=============================================================================
