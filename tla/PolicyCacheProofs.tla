------------------------- MODULE PolicyCacheProofs -------------------------
(* Proofs that the policy caches are stale only behind a pending or an       *)
(* overtaking invalidation, and that the pushes of policy sync, which read   *)
(* through them, carry what was saved before, for any set of goroutines.     *)
EXTENDS CachedSync, TLAPS

(***************************************************************************)
(* The caches (PolicyCache)                                                *)
(***************************************************************************)

\* One step of any goroutine keeps the types.
LEMMA TypePreserved == TypeOK /\ [Next]_vars => TypeOK'
<1> SUFFICES ASSUME TypeOK, [Next]_vars PROVE TypeOK'
  OBVIOUS
<1> USE DEF TypeOK
<1>1. ASSUME NEW t \in Threads, NEW c \in Tables, CacheMiss(t, c) PROVE TypeOK'
  BY <1>1 DEF CacheMiss
<1>2. ASSUME NEW t \in Threads, QueryRows(t) PROVE TypeOK'
  BY <1>2 DEF QueryRows
<1>3. ASSUME NEW t \in Threads, QueryFails(t) PROVE TypeOK'
  BY <1>3 DEF QueryFails, Tables
<1>4. ASSUME NEW t \in Threads, Publish(t) PROVE TypeOK'
  BY <1>4 DEF Publish, Tables
<1>5. ASSUME NEW t \in Threads, NEW S \in SUBSET Tables, NEW I \in SUBSET Tables,
             Commit(t, S, I)
      PROVE  TypeOK'
  BY <1>5 DEF Commit
<1>6. ASSUME NEW t \in Threads, InvalidateCache(t) PROVE TypeOK'
  <2> DEFINE c == NextToInvalidate(pending[t])
  <2>1. c \in Tables
    BY DEF NextToInvalidate, Tables
  <2>2. Later(acked, wrote[t]) \in [Tables -> Nat] /\ NoWrite \in [Tables -> Nat]
    BY DEF Later, NoWrite
  <2>3. loaded' \in SUBSET Tables /\ raced' \in SUBSET Tables
    BY <1>6, <2>1 DEF InvalidateCache
  <2> QED
    BY <1>6, <2>1, <2>2, <2>3 DEF InvalidateCache
<1>7. CASE Restart
  BY <1>7 DEF Restart, NoWrite, Tables
<1>8. CASE UNCHANGED vars
  BY <1>8 DEF vars
<1> QED
  BY <1>1, <1>2, <1>3, <1>4, <1>5, <1>6, <1>7, <1>8
     DEF Next, Work, StaticRecords, Rules, blocklistEntries, UpsertStaticRecord, AddRule,
         SetRuleEnabled, RecordRuleHit, replaceBlocklistEntries, ApplyHASyncPayload, Tables

\* Every read and write of a cache leaves the store well typed.
THEOREM TypeCorrect == Spec => []TypeOK
<1>1. Init => TypeOK
  BY DEF Init, TypeOK, NoWrite, Tables
<1>2. TypeOK /\ [Next]_vars => TypeOK'
  BY TypePreserved
<1> QED
  BY <1>1, <1>2, PTL DEF Spec

\* A commit changes no copy; what it makes stale is about to be invalidated.
LEMMA CommitInv ==
  ASSUME IInv, TypeOK', NEW t \in Threads,
         NEW I \in SUBSET Tables, NEW S \in SUBSET I, Commit(t, S, I)
  PROVE  IInv'
<1> USE DEF IInv, TypeOK
<1>1. \A c \in Tables : db'[c] >= db[c] /\ (db'[c] # db[c] => c \in I)
  BY DEF Commit
<1>2. \A c \in Tables : InvalidationPending(c) => InvalidationPending(c)'
  BY DEF Commit, InvalidationPending
<1>3. \A c \in I : InvalidationPending(c)'
  BY DEF Commit, InvalidationPending
<1>4. StaleNeedsOverlap'
  BY <1>1, <1>2, <1>3 DEF Commit, StaleNeedsOverlap
<1>5. StaleRowsNeedOverlap'
  BY <1>1, <1>2, <1>3 DEF Commit, StaleRowsNeedOverlap
<1>6. VersionsCommitted'
  BY <1>1 DEF Commit, VersionsCommitted
<1>7. UnracedAreFresh'
  <2>1. \A c \in Tables, v \in Nat : AtLeast(c, v) => AtLeast(c, v)'
    BY DEF Commit, AtLeast
  <2>2. \A c \in Tables : AtLeast(c, 0)'
    BY DEF AtLeast
  <2> QED
    BY <2>1, <2>2 DEF Commit, UnracedAreFresh
<1> QED
  BY <1>4, <1>5, <1>6, <1>7

\* Reads: the rows are the committed ones when they are read; a publication
\* makes the copy what the rows in flight were.
LEMMA ReadInv ==
  ASSUME IInv, TypeOK', NEW t \in Threads,
         \/ \E c \in Tables : CacheMiss(t, c)
         \/ QueryRows(t) \/ QueryFails(t) \/ Publish(t)
  PROVE  IInv'
<1> USE DEF IInv, TypeOK
<1>1. ASSUME NEW c \in Tables, CacheMiss(t, c) PROVE IInv'
  <2>1. \A k \in Tables : InvalidationPending(k) <=> InvalidationPending(k)'
    BY <1>1 DEF CacheMiss, InvalidationPending
  <2>2. \A k \in Tables, v \in Nat : AtLeast(k, v) => AtLeast(k, v)'
    BY <1>1 DEF CacheMiss, AtLeast
  <2>3. StaleNeedsOverlap' /\ StaleRowsNeedOverlap' /\ VersionsCommitted'
    BY <1>1, <2>1 DEF CacheMiss, StaleNeedsOverlap, StaleRowsNeedOverlap, VersionsCommitted
  <2> QED
    BY <1>1, <2>2, <2>3 DEF CacheMiss, UnracedAreFresh
<1>2. ASSUME QueryRows(t) PROVE IInv'
  <2>1. \A k \in Tables : InvalidationPending(k) <=> InvalidationPending(k)'
    BY <1>2 DEF QueryRows, InvalidationPending
  <2>2. \A k \in Tables, v \in Nat : AtLeast(k, v) /\ v <= db[k] => AtLeast(k, v)'
    BY <1>2 DEF QueryRows, AtLeast
  <2>3. StaleNeedsOverlap' /\ StaleRowsNeedOverlap' /\ VersionsCommitted'
    BY <1>2, <2>1 DEF QueryRows, StaleNeedsOverlap, StaleRowsNeedOverlap, VersionsCommitted
  <2> QED
    BY <1>2, <2>2, <2>3 DEF QueryRows, UnracedAreFresh, VersionsCommitted
<1>3. ASSUME QueryFails(t) PROVE IInv'
  <2>1. \A k \in Tables : InvalidationPending(k) <=> InvalidationPending(k)'
    BY <1>3 DEF QueryFails, InvalidationPending
  <2>2. \A k \in Tables, v \in Nat : AtLeast(k, v) => AtLeast(k, v)'
    BY <1>3 DEF QueryFails, AtLeast
  <2>3. StaleNeedsOverlap' /\ StaleRowsNeedOverlap' /\ VersionsCommitted'
    BY <1>3, <2>1 DEF QueryFails, StaleNeedsOverlap, StaleRowsNeedOverlap, VersionsCommitted
  <2> QED
    BY <1>3, <2>2, <2>3 DEF QueryFails, UnracedAreFresh
<1>4. ASSUME Publish(t) PROVE IInv'
  <2>1. \A k \in Tables : InvalidationPending(k) <=> InvalidationPending(k)'
    BY <1>4 DEF Publish, InvalidationPending
  <2>2. \A k \in Tables, v \in Nat : AtLeast(k, v) => AtLeast(k, v)'
    BY <1>4 DEF Publish, AtLeast
  <2>3. StaleNeedsOverlap' /\ StaleRowsNeedOverlap' /\ VersionsCommitted'
    BY <1>4, <2>1 DEF Publish, StaleNeedsOverlap, StaleRowsNeedOverlap, VersionsCommitted
  <2> QED
    BY <1>4, <2>2, <2>3 DEF Publish, UnracedAreFresh
<1> QED
  BY <1>1, <1>2, <1>3, <1>4

\* An invalidation drops the copy; rows it overtook make the table raced,
\* otherwise every load in flight has the committed rows.
LEMMA InvalidateInv ==
  ASSUME IInv, TypeOK', NEW t \in Threads, InvalidateCache(t)
  PROVE  IInv'
<1> USE DEF IInv, TypeOK
<1>1. PICK c \in Tables : c = NextToInvalidate(pending[t])
  BY DEF NextToInvalidate, Tables
<1>2. \A k \in Tables \ {c} : InvalidationPending(k) => InvalidationPending(k)'
  <2> SUFFICES ASSUME NEW k \in Tables \ {c}, NEW u \in Threads,
                      pc[u] = "invalidate", k \in pending[u]
               PROVE  pc'[u] = "invalidate" /\ k \in pending'[u]
    BY DEF InvalidationPending
  <2>1. CASE u = t
    BY <1>1, <2>1 DEF InvalidateCache
  <2>2. CASE u # t
    BY <2>2 DEF InvalidateCache
  <2> QED
    BY <2>1, <2>2
<1>3. c \notin loaded' /\ \A k \in Tables \ {c} : (k \in raced' <=> k \in raced)
  BY <1>1 DEF InvalidateCache
<1>4. \A u \in Threads : pc'[u] = "publish" => pc[u] = "publish"
  BY DEF InvalidateCache
<1>5. c \notin raced' =>
        \A u \in Threads : pc'[u] = "publish" /\ tab'[u] = c => snap'[u] = db[c]
  BY <1>1, <1>4 DEF InvalidateCache, HoldsOldRows
<1>6. StaleNeedsOverlap'
  BY <1>1, <1>2, <1>3 DEF InvalidateCache, StaleNeedsOverlap
<1>7. StaleRowsNeedOverlap'
  BY <1>1, <1>2, <1>3, <1>4, <1>5 DEF InvalidateCache, StaleRowsNeedOverlap
<1>8. VersionsCommitted'
  <2>1. \A k \in Tables : acked'[k] = acked[k] \/ acked'[k] = wrote[t][k]
    BY DEF InvalidateCache, Later
  <2>2. \A u \in Threads, k \in Tables : wrote'[u][k] = wrote[u][k] \/ wrote'[u][k] = 0
    <3>1. wrote' = wrote \/ wrote' = [wrote EXCEPT ![t] = NoWrite]
      BY DEF InvalidateCache
    <3>2. wrote \in [Threads -> [Tables -> Nat]] /\ \A k \in Tables : NoWrite[k] = 0
      BY DEF NoWrite
    <3> QED
      BY ONLY <3>1, <3>2
  <2>3. db' = db
    BY DEF InvalidateCache
  <2>4. \A k \in Tables : acked'[k] <= db'[k]
    BY <2>1, <2>3 DEF VersionsCommitted
  <2>5. \A k \in Tables, u \in Threads : wrote'[u][k] <= db'[k]
    <3> TAKE k \in Tables, u \in Threads
    <3>1. db[k] \in Nat /\ wrote[u][k] <= db[k] /\ db'[k] = db[k]
      BY <2>3 DEF VersionsCommitted
    <3>2. wrote'[u][k] = wrote[u][k] \/ wrote'[u][k] = 0
      BY <2>2
    <3> QED
      BY ONLY <3>1, <3>2
  <2> QED
    BY <2>4, <2>5 DEF VersionsCommitted
<1>9. UnracedAreFresh'
  <2>1. c \notin raced' => \A v \in Nat : v <= db[c] => AtLeast(c, v)'
    BY <1>1, <1>3, <1>5 DEF AtLeast
  <2>2. \A k \in Tables \ {c}, v \in Nat : AtLeast(k, v) => AtLeast(k, v)'
    BY <1>1, <1>4 DEF AtLeast, InvalidateCache
  <2>3. ASSUME NEW k \in Tables, k \notin raced' PROVE AtLeast(k, acked[k])'
    <3>1. CASE k = c
      BY <2>1, <2>3, <3>1, <1>8 DEF VersionsCommitted, InvalidateCache
    <3>2. CASE k # c /\ acked'[k] = acked[k]
      BY <2>2, <2>3, <3>2, <1>3 DEF UnracedAreFresh
    <3>3. CASE k # c /\ acked'[k] # acked[k]
      <4>1. acked'[k] = wrote[t][k] /\ k \notin pending[t] /\ pc[t] = "invalidate"
        BY <3>3, <1>1 DEF InvalidateCache, Later
      <4> QED
        BY <4>1, <2>2, <2>3, <3>3, <1>3 DEF UnracedAreFresh
    <3> QED
      BY <3>1, <3>2, <3>3
  <2>4. ASSUME NEW k \in Tables, k \notin raced', NEW u \in Threads,
               pc'[u] = "invalidate", k \notin pending'[u]
        PROVE  AtLeast(k, wrote[u][k])'
    <3>1. CASE k = c
      BY <2>1, <2>4, <3>1, <1>8 DEF VersionsCommitted, InvalidateCache
    <3>2. CASE k # c
      <4>1. wrote'[u] = wrote[u] /\ k \notin pending[u] /\ pc[u] = "invalidate"
        <5>1. CASE u = t
          BY <1>1, <2>4, <3>2, <5>1 DEF InvalidateCache
        <5>2. CASE u # t
          BY <2>4, <5>2 DEF InvalidateCache
        <5> QED
          BY <5>1, <5>2
      <4> QED
        BY <4>1, <2>2, <2>4, <3>2, <1>3 DEF UnracedAreFresh
    <3> QED
      BY <3>1, <3>2
  <2> QED
    BY <2>3, <2>4 DEF UnracedAreFresh
<1> QED
  BY <1>6, <1>7, <1>8, <1>9

\* The inductive invariant holds in every reachable state.
THEOREM InvariantHolds == Spec => []IInv
<1>1. Init => IInv
  BY DEF Init, IInv, TypeOK, StaleNeedsOverlap, StaleRowsNeedOverlap, VersionsCommitted,
         UnracedAreFresh, AtLeast, NoWrite, Tables
<1>2. IInv /\ [Next]_vars => IInv'
  <2> SUFFICES ASSUME IInv, [Next]_vars PROVE IInv'
    OBVIOUS
  <2>1. TypeOK'
    BY TypePreserved DEF IInv
  <2>2. ASSUME NEW t \in Threads, NEW I \in SUBSET Tables, NEW S \in SUBSET I,
               Commit(t, S, I)
        PROVE  IInv'
    BY <2>1, <2>2, CommitInv
  <2>3. CASE \E t \in Threads : \/ StaticRecords(t) \/ Rules(t) \/ blocklistEntries(t)
                                \/ QueryRows(t) \/ QueryFails(t) \/ Publish(t)
    BY <2>1, <2>3, ReadInv DEF StaticRecords, Rules, blocklistEntries, Tables
  <2>4. CASE \E t \in Threads : \/ UpsertStaticRecord(t) \/ AddRule(t) \/ SetRuleEnabled(t)
                                \/ RecordRuleHit(t) \/ replaceBlocklistEntries(t)
                                \/ ApplyHASyncPayload(t)
    BY <2>2, <2>4 DEF UpsertStaticRecord, AddRule, SetRuleEnabled, RecordRuleHit,
                      replaceBlocklistEntries, ApplyHASyncPayload, Tables
  <2>5. CASE \E t \in Threads : InvalidateCache(t)
    BY <2>1, <2>5, InvalidateInv
  <2>6. CASE Restart
    BY <2>1, <2>6 DEF IInv, TypeOK, Restart, StaleNeedsOverlap, StaleRowsNeedOverlap,
                      VersionsCommitted, UnracedAreFresh, AtLeast, NoWrite
  <2>7. CASE UNCHANGED vars
    BY <2>1, <2>7 DEF IInv, vars, StaleNeedsOverlap, StaleRowsNeedOverlap, VersionsCommitted,
                      UnracedAreFresh, AtLeast, InvalidationPending
  <2> QED
    BY <2>3, <2>4, <2>5, <2>6, <2>7 DEF Next, Work
<1> QED
  BY <1>1, <1>2, PTL DEF Spec

\* A cache differs from its table only before the writer's invalidation or
\* after an invalidation overtook a load of it.
THEOREM StaleOnlyByOverlap == Spec => []StaleNeedsOverlap
<1>1. IInv => StaleNeedsOverlap
  BY DEF IInv
<1> QED
  BY <1>1, InvariantHolds, PTL

\* A policy write that has returned is seen by every later lookup unless the
\* last invalidation of its table overtook a load.
THEOREM CompletedWritesSeen == Spec => []FreshUnlessRaced
<1>1. IInv => FreshUnlessRaced
  BY DEF IInv, UnracedAreFresh, AtLeast, FreshUnlessRaced
<1> QED
  BY <1>1, InvariantHolds, PTL

(***************************************************************************)
(* Pushes that read through the caches (CachedSync)                        *)
(***************************************************************************)

\* What a step of the composition is for the store of the primary.
LEMMA StoreStep == [SyncNext]_allVars => [Next]_vars
<1> SUFFICES ASSUME [SyncNext]_allVars PROVE [Next]_vars
  OBVIOUS
<1>0. Pushers \subseteq Threads
  BY PushersAssumption
<1>1. CASE \E t \in Threads \ Pushers : Work(t)
  BY <1>1 DEF Next
<1>2. ASSUME NEW x \in Pushers, pushHASync(x) \/ ExportCopy(x) \/ Import(x) \/ PushFails(x)
      PROVE  UNCHANGED vars
  BY <1>2 DEF pushHASync, ExportCopy, Import, PushFails
<1>3. ASSUME NEW x \in Pushers, ExportQuery(x) \/ ExportLoaded(x) \/ ExportFails(x)
      PROVE  Next
  BY <1>0, <1>3 DEF ExportQuery, ExportLoaded, ExportFails, Next, Work
<1>4. ASSUME NEW x \in Pushers, ExportMiss(x)
      PROVE  Next
  BY <1>0, <1>4 DEF ExportMiss, Next, Work, StaticRecords, Rules, Exported
<1>5. CASE SyncRestart
  BY <1>5 DEF SyncRestart, Next
<1>6. CASE UNCHANGED allVars
  BY <1>6 DEF allVars
<1> QED
  BY <1>1, <1>2, <1>3, <1>4, <1>5, <1>6 DEF SyncNext

\* The pushing goroutines are goroutines of PolicyCache: every behaviour of the
\* composition is one of the caches, and what is proved of those holds here
\* (ExportHASyncPayload calls StaticRecords and Rules and nothing else of the
\* caches).
THEOREM PushesAreReaders == SyncSpec => Spec
<1>1. SyncInit => Init
  BY DEF SyncInit
<1> QED
  BY <1>1, StoreStep, PTL DEF SyncSpec, Spec

\* Types of the payloads and of the secondary's tables.
LEMMA SyncTypes ==
  ASSUME TypeOK, SyncIInv, [SyncNext]_allVars
  PROVE  SyncTypeOK'
<1> USE DEF SyncTypeOK, SyncIInv, Exported, Tables
<1>0. /\ cache \in [Tables -> Nat] /\ snap \in [Threads -> Nat] /\ acked \in [Tables -> Nat]
      /\ Pushers \subseteq Threads
  BY PushersAssumption DEF TypeOK
<1>1. CASE \E t \in Threads \ Pushers : Work(t) /\ UNCHANGED syncVars
  BY <1>1 DEF syncVars
<1>2. ASSUME NEW x \in Pushers, pushHASync(x)
      PROVE  SyncTypeOK'
  BY <1>0, <1>2 DEF pushHASync
<1>3. ASSUME NEW x \in Pushers, NEW v \in Nat, step[x] \in Exported, Export(x, v)
      PROVE  step' \in [Pushers -> Exported \cup {"idle", "sent"}]
             /\ carried' \in [Pushers -> [Exported -> Nat]]
  BY <1>3 DEF Export
<1>4. ASSUME NEW x \in Pushers, ExportCopy(x)
      PROVE  SyncTypeOK'
  <2>1. cache[step[x]] \in Nat
    BY <1>0, <1>4 DEF ExportCopy
  <2> QED
    BY <1>3, <1>4, <2>1 DEF ExportCopy
<1>5. ASSUME NEW x \in Pushers, EndPush(x), replica' \in [Exported -> Nat]
      PROVE  SyncTypeOK'
  BY <1>5 DEF EndPush, Nothing, NoWrite
<1>6. ASSUME NEW x \in Pushers, ExportFails(x) \/ Import(x) \/ PushFails(x)
      PROVE  SyncTypeOK'
  BY <1>5, <1>6 DEF ExportFails, Import, PushFails
<1>7. CASE SyncRestart
  BY <1>7 DEF SyncRestart, Nothing, NoWrite
<1>8. ASSUME NEW x \in Pushers, ExportLoaded(x)
      PROVE  SyncTypeOK'
  <2>1. step[x] \in Exported
    BY <1>8 DEF ExportLoaded, Publish, PushesFresh, Fresh
  <2>2. snap[x] \in Nat
    BY <1>0
  <2> QED
    BY <1>3, <1>8, <2>1, <2>2 DEF ExportLoaded
<1>9. ASSUME NEW x \in Pushers, ExportMiss(x) \/ ExportQuery(x)
      PROVE  SyncTypeOK'
  BY <1>9 DEF ExportMiss, ExportQuery, syncVars
<1>10. CASE UNCHANGED allVars
  BY <1>10 DEF allVars, syncVars
<1> QED
  BY <1>1, <1>2, <1>4, <1>6, <1>7, <1>8, <1>9, <1>10 DEF SyncNext

\* A step of one goroutine leaves the others where they are, and what has been
\* acknowledged stays acknowledged.
LEMMA WorkLeavesOthers ==
  ASSUME TypeOK, NEW t \in Threads, Work(t)
  PROVE  /\ \A x \in Threads \ {t} : pc'[x] = pc[x] /\ tab'[x] = tab[x] /\ snap'[x] = snap[x]
         /\ \A c \in Tables : acked'[c] >= acked[c]
<1>0. /\ acked \in [Tables -> Nat] /\ wrote \in [Threads -> [Tables -> Nat]]
      /\ pc \in [Threads -> {"idle", "query", "publish", "invalidate"}]
      /\ tab \in [Threads -> Tables] /\ snap \in [Threads -> Nat]
  BY DEF TypeOK
<1>1. CASE \E c \in Tables : CacheMiss(t, c)
  BY <1>0, <1>1 DEF CacheMiss
<1>2. CASE QueryRows(t) \/ QueryFails(t) \/ Publish(t)
  BY <1>0, <1>2 DEF QueryRows, QueryFails, Publish
<1>3. CASE \E S, I \in SUBSET Tables : Commit(t, S, I)
  BY <1>0, <1>3 DEF Commit
<1>4. CASE InvalidateCache(t)
  <2>1. acked' = acked \/ acked' = Later(acked, wrote[t])
    BY <1>4 DEF InvalidateCache
  <2>2. \A c \in Tables : Later(acked, wrote[t])[c] >= acked[c]
    BY <1>0 DEF Later
  <2>3. \A c \in Tables : acked'[c] >= acked[c]
    BY <1>0, <2>1, <2>2
  <2>4. tab' = tab /\ snap' = snap /\ (pc' = pc \/ pc' = [pc EXCEPT ![t] = "idle"])
    BY <1>4 DEF InvalidateCache
  <2> QED
    BY <1>0, <2>3, <2>4
<1> QED
  BY <1>1, <1>2, <1>3, <1>4
  DEF Work, StaticRecords, Rules, blocklistEntries, UpsertStaticRecord, AddRule, SetRuleEnabled,
      RecordRuleHit, replaceBlocklistEntries, ApplyHASyncPayload, Tables

\* A push that a step does not touch stays fresh.
LEMMA UntouchedFresh ==
  ASSUME TypeOK, TypeOK', SyncTypeOK, NEW x \in Pushers, Fresh(x),
         step'[x] = step[x], carried'[x] = carried[x], saved'[x] = saved[x],
         behind'[x] = behind[x],
         pc'[x] = pc[x], tab'[x] = tab[x], snap'[x] = snap[x],
         \A c \in Tables : acked'[c] >= acked[c]
  PROVE  Fresh(x)'
<1>1. \A c \in Tables : saved[x][c] \in Nat /\ acked[c] \in Nat /\ acked'[c] \in Nat
  BY DEF TypeOK, SyncTypeOK
<1>2. \A c \in Tables : saved'[x][c] <= acked'[c]
  BY <1>1 DEF Fresh
<1> QED
  BY <1>2 DEF Fresh

\* A step of the pushing goroutine x keeps all pushes fresh if it keeps its own.
LEMMA OthersFresh ==
  ASSUME TypeOK, TypeOK', SyncIInv, NEW x \in Pushers,
         \A y \in Pushers \ {x} :
            /\ step'[y] = step[y] /\ carried'[y] = carried[y]
            /\ saved'[y] = saved[y] /\ behind'[y] = behind[y]
            /\ pc'[y] = pc[y] /\ tab'[y] = tab[y] /\ snap'[y] = snap[y],
         acked' = acked,
         Fresh(x)'
  PROVE  PushesFresh'
<1>1. \A c \in Tables : acked'[c] >= acked[c]
  BY DEF TypeOK
<1>2. ASSUME NEW y \in Pushers \ {x} PROVE Fresh(y)'
  BY <1>1, UntouchedFresh DEF SyncIInv, PushesFresh
<1> QED
  BY <1>2 DEF PushesFresh

\* The steps of a push between the caches and the payload.
LEMMA ExportFresh ==
  ASSUME IInv, TypeOK', SyncIInv, NEW x \in Pushers,
         \/ pushHASync(x) \/ ExportCopy(x) \/ ExportMiss(x)
         \/ ExportQuery(x) \/ ExportLoaded(x)
  PROVE  PushesFresh'
<1>0. /\ TypeOK /\ SyncTypeOK /\ Fresh(x) /\ x \in Threads
      /\ "static" \in Tables /\ "rules" \in Tables
  BY PushersAssumption DEF IInv, SyncIInv, PushesFresh, Tables
<1>1. /\ pc \in [Threads -> {"idle", "query", "publish", "invalidate"}]
      /\ tab \in [Threads -> Tables] /\ snap \in [Threads -> Nat]
      /\ acked \in [Tables -> Nat] /\ db \in [Tables -> Nat] /\ cache \in [Tables -> Nat]
      /\ Pushers \subseteq Threads
  BY <1>0, PushersAssumption DEF TypeOK
<1>2. /\ step \in [Pushers -> Exported \cup {"idle", "sent"}]
      /\ carried \in [Pushers -> [Exported -> Nat]]
      /\ saved \in [Pushers -> [Tables -> Nat]]
      /\ behind \in [Pushers -> SUBSET Exported]
  BY <1>0 DEF SyncTypeOK
<1>3. CASE pushHASync(x)
  <2>1. /\ step' = [step EXCEPT ![x] = "static"] /\ saved' = [saved EXCEPT ![x] = acked]
        /\ step[x] = "idle"
        /\ UNCHANGED <<vars, carried, behind>>
    BY <1>3 DEF pushHASync
  <2>2. pc[x] \notin {"query", "publish"}
    BY <1>0, <2>1 DEF Fresh, Exported
  <2>3. Fresh(x)'
    BY <1>1, <1>2, <2>1, <2>2 DEF Fresh, vars
  <2> QED
    BY <1>0, <1>2, <2>1, <2>3, OthersFresh DEF vars
<1>4. CASE ExportCopy(x)
  <2>1. /\ step[x] \in Exported /\ pc[x] = "idle" /\ step[x] \in loaded
        /\ carried' = [carried EXCEPT ![x][step[x]] = cache[step[x]]]
        /\ step' = [step EXCEPT ![x] = IF step[x] = "static" THEN "rules" ELSE "sent"]
        /\ behind' = [behind EXCEPT ![x] = @ \cup ({step[x]} \cap raced)]
        /\ UNCHANGED <<vars, saved>>
    BY <1>2, <1>4 DEF ExportCopy, Export
  <2>2. step[x] \in raced \/ cache[step[x]] >= acked[step[x]]
    BY <2>1 DEF IInv, UnracedAreFresh, AtLeast, Exported, Tables
  <2>3. step[x] \in raced \/ cache[step[x]] >= saved[x][step[x]]
    BY <1>0, <1>1, <1>2, <2>1, <2>2 DEF Fresh, Exported
  <2>4. Fresh(x)'
    <3>1. CASE step[x] = "static"
      BY <1>0, <1>1, <1>2, <2>1, <2>3, <3>1 DEF Fresh, vars, Exported
    <3>2. CASE step[x] = "rules"
      BY <1>0, <1>1, <1>2, <2>1, <2>3, <3>2 DEF Fresh, vars, Exported
    <3> QED
      BY <2>1, <3>1, <3>2 DEF Exported
  <2> QED
    BY <1>0, <1>2, <2>1, <2>4, OthersFresh DEF vars
<1>5. CASE ExportMiss(x)
  <2>1. /\ step[x] \in Exported /\ pc' = [pc EXCEPT ![x] = "query"]
        /\ tab' = [tab EXCEPT ![x] = step[x]] /\ UNCHANGED <<snap, acked, syncVars>>
    BY <1>5 DEF ExportMiss, CacheMiss
  <2>2. Fresh(x)'
    BY <1>0, <1>1, <1>2, <2>1 DEF Fresh, syncVars
  <2> QED
    BY <1>0, <1>1, <1>2, <2>1, <2>2, OthersFresh DEF syncVars
<1>6. CASE ExportQuery(x)
  <2>1. /\ pc[x] = "query" /\ pc' = [pc EXCEPT ![x] = "publish"]
        /\ snap' = [snap EXCEPT ![x] = db[tab[x]]] /\ UNCHANGED <<tab, acked, syncVars>>
    BY <1>6 DEF ExportQuery, QueryRows
  <2>2. db[tab[x]] >= saved[x][tab[x]]
    <3>1. tab[x] \in Tables /\ acked[tab[x]] <= db[tab[x]] /\ saved[x][tab[x]] <= acked[tab[x]]
      BY <1>0, <1>1 DEF IInv, VersionsCommitted, Fresh
    <3> QED
      BY <1>0, <1>1, <1>2, <3>1
  <2>3. Fresh(x)'
    BY <1>0, <1>1, <1>2, <2>1, <2>2 DEF Fresh, syncVars
  <2> QED
    BY <1>0, <1>1, <1>2, <2>1, <2>3, OthersFresh DEF syncVars
<1>7. CASE ExportLoaded(x)
  <2>1. /\ pc[x] = "publish" /\ pc' = [pc EXCEPT ![x] = "idle"]
        /\ tab' = [tab EXCEPT ![x] = "static"] /\ snap' = [snap EXCEPT ![x] = 0]
        /\ carried' = [carried EXCEPT ![x][step[x]] = snap[x]]
        /\ step' = [step EXCEPT ![x] = IF step[x] = "static" THEN "rules" ELSE "sent"]
        /\ UNCHANGED <<acked, saved, behind>>
    BY <1>2, <1>7 DEF ExportLoaded, Export, Publish
  <2>2. step[x] \in Exported /\ snap[x] >= saved[x][step[x]]
    BY <1>0, <2>1 DEF Fresh
  <2>3. Fresh(x)'
    <3>1. CASE step[x] = "static"
      BY <1>0, <1>1, <1>2, <2>1, <2>2, <3>1 DEF Fresh, Exported
    <3>2. CASE step[x] = "rules"
      BY <1>0, <1>1, <1>2, <2>1, <2>2, <3>2 DEF Fresh, Exported
    <3> QED
      BY <2>2, <3>1, <3>2 DEF Exported
  <2> QED
    BY <1>0, <1>1, <1>2, <2>1, <2>3, OthersFresh
<1> QED
  BY <1>3, <1>4, <1>5, <1>6, <1>7

\* The steps that end a push.
LEMMA EndFresh ==
  ASSUME IInv, TypeOK', SyncIInv, NEW x \in Pushers,
         ExportFails(x) \/ Import(x) \/ PushFails(x)
  PROVE  PushesFresh'
<1>0. /\ TypeOK /\ SyncTypeOK /\ Fresh(x) /\ x \in Threads
  BY PushersAssumption DEF IInv, SyncIInv, PushesFresh
<1>1. /\ pc \in [Threads -> {"idle", "query", "publish", "invalidate"}]
      /\ tab \in [Threads -> Tables] /\ acked \in [Tables -> Nat] /\ Pushers \subseteq Threads
  BY <1>0, PushersAssumption DEF TypeOK
<1>2. /\ step' = [step EXCEPT ![x] = "idle"] /\ carried' = [carried EXCEPT ![x] = Nothing]
      /\ saved' = [saved EXCEPT ![x] = NoWrite] /\ behind' = [behind EXCEPT ![x] = {}]
  BY DEF ExportFails, Import, PushFails, EndPush
<1>3. /\ snap' = snap /\ acked' = acked
      /\ \/ pc' = [pc EXCEPT ![x] = "idle"] /\ tab' = [tab EXCEPT ![x] = "static"]
         \/ step[x] = "sent" /\ pc' = pc /\ tab' = tab
  BY DEF ExportFails, QueryFails, Import, PushFails, vars
<1>4. pc'[x] \notin {"query", "publish"}
  BY <1>0, <1>1, <1>3 DEF Fresh, Exported
<1>5. /\ step \in [Pushers -> Exported \cup {"idle", "sent"}]
      /\ carried \in [Pushers -> [Exported -> Nat]]
      /\ saved \in [Pushers -> [Tables -> Nat]]
      /\ behind \in [Pushers -> SUBSET Exported]
  BY <1>0 DEF SyncTypeOK
<1>6. step'[x] = "idle" /\ saved'[x] = NoWrite
  BY <1>2, <1>5
<1>7. Fresh(x)'
  BY <1>1, <1>3, <1>4, <1>6 DEF Fresh, NoWrite
<1> QED
  BY <1>0, <1>1, <1>2, <1>3, <1>5, <1>7, OthersFresh

LEMMA RestartFresh ==
  ASSUME IInv, TypeOK', SyncIInv, SyncRestart
  PROVE  PushesFresh'
<1> SUFFICES ASSUME NEW x \in Pushers PROVE Fresh(x)'
  BY DEF PushesFresh
<1>0. /\ Fresh(x) /\ x \in Threads /\ acked \in [Tables -> Nat]
  BY PushersAssumption DEF IInv, TypeOK, SyncIInv, PushesFresh
<1>1. pc'[x] = "idle" /\ acked' = acked
  BY <1>0 DEF SyncRestart, Restart
<1>2. CASE step[x] = "sent"
  <2>1. step'[x] = step[x] /\ carried'[x] = carried[x] /\ saved'[x] = saved[x] /\ behind'[x] = behind[x]
    BY <1>2 DEF SyncRestart
  <2> QED
    BY <1>0, <1>1, <2>1 DEF Fresh
<1>3. CASE step[x] # "sent"
  <2>1. step'[x] = "idle" /\ saved'[x] = NoWrite
    BY <1>3 DEF SyncRestart
  <2> QED
    BY <1>0, <1>1, <2>1 DEF Fresh, NoWrite
<1> QED
  BY <1>2, <1>3

LEMMA StepSyncIInv ==
  IInv /\ IInv' /\ SyncIInv /\ [SyncNext]_allVars => SyncIInv'
<1> SUFFICES ASSUME IInv, IInv', SyncIInv, [SyncNext]_allVars PROVE SyncIInv'
  OBVIOUS
<1>0. TypeOK /\ TypeOK' /\ SyncTypeOK
  BY DEF IInv, SyncIInv
<1>1. SyncTypeOK'
  BY <1>0, SyncTypes
<1>2. ASSUME NEW t \in Threads \ Pushers, Work(t), UNCHANGED syncVars
      PROVE  PushesFresh'
  <2>1. Pushers \subseteq Threads \ {t}
    BY PushersAssumption
  <2>2. ASSUME NEW x \in Pushers PROVE Fresh(x)'
    BY <1>0, <1>2, <2>1, WorkLeavesOthers, UntouchedFresh DEF syncVars, SyncIInv, PushesFresh
  <2> QED
    BY <2>2 DEF PushesFresh
<1>3. ASSUME UNCHANGED allVars PROVE PushesFresh'
  BY <1>3 DEF allVars, vars, syncVars, SyncIInv, PushesFresh, Fresh
<1>4. ASSUME NEW x \in Pushers,
             \/ pushHASync(x) \/ ExportCopy(x) \/ ExportMiss(x) \/ ExportQuery(x)
             \/ ExportLoaded(x)
      PROVE  PushesFresh'
  BY <1>0, <1>4, ExportFresh
<1>5. ASSUME NEW x \in Pushers, ExportFails(x) \/ Import(x) \/ PushFails(x)
      PROVE  PushesFresh'
  BY <1>0, <1>5, EndFresh
<1>6. ASSUME SyncRestart PROVE PushesFresh'
  BY <1>0, <1>6, RestartFresh
<1>7. PushesFresh'
  BY <1>2, <1>3, <1>4, <1>5, <1>6 DEF SyncNext
<1> QED
  BY <1>1, <1>7 DEF SyncIInv

\* Save, then sync: a push that is on its way carries every change that had been
\* acknowledged when it began, except in tables it took from a copy that an
\* overtaken load had left behind (ExportHASyncPayload through the caches).
THEOREM PushesCarrySaves == SyncSpec => []PushCarriesSaves
<1>1. SyncInit => SyncIInv
  BY PushersAssumption
  DEF SyncInit, Init, SyncIInv, SyncTypeOK, PushesFresh, Fresh, Exported, Tables, Nothing, NoWrite
<1>2. SyncIInv => PushCarriesSaves
  BY DEF SyncIInv, PushesFresh, Fresh, PushCarriesSaves, Exported
<1>3. SyncSpec => []IInv
  BY PushesAreReaders, InvariantHolds, PTL
<1> QED
  BY <1>1, <1>2, <1>3, StepSyncIInv, PTL DEF SyncSpec
=============================================================================
