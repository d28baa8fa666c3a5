---------------------------- MODULE PolicyCache ----------------------------
(* The policy caches of the store (internal/store/store.go): static records, *)
(* rules and blocklist entries live in SQLite, and each table has an         *)
(* in-memory copy that is filled on demand and thrown away after a write.    *)
(*                                                                           *)
(* A goroutine that finds a copy missing runs the SELECT without holding     *)
(* cacheMu and takes the lock again only to publish the result; a writer     *)
(* commits first and takes the lock afterwards to invalidate.  The SELECT    *)
(* and each write are atomic (one SQLite connection, SetMaxOpenConns(1)),    *)
(* everything between them interleaves.                                      *)
(*                                                                           *)
(* The content of a table is abstracted to the number of policy writes       *)
(* committed to it.  A store call that fails before its commit (bad input,   *)
(* SQL error, no such row) changes nothing and is not an action.             *)
EXTENDS Integers

CONSTANTS
    Threads,     \* goroutines that call the store: DNS handlers, API, HA import
    MaxWrites    \* bound: no table changes once this many changes are committed

ASSUME MaxWritesAssumption == MaxWrites \in Nat

Tables == {"static", "rules", "blocklist"}

VARIABLES
    db,        \* db[c]: version of table c committed in SQLite
    loaded,    \* tables with a copy: staticLoaded, rulesLoaded, blocklistLoaded
    cache,     \* cache[c]: version held by the copy of a loaded table
    pc,        \* where goroutine t is: idle, query, publish, invalidate
    tab,       \* table the load of t is about ("static" between loads)
    snap,      \* version the SELECT of t returned (0 between loads)
    pending,   \* caches t has still to invalidate after its commit
    wrote,     \* wrote[t][c]: version of c the transaction of t created, or 0
    acked,     \* history: newest version of c whose writer has returned
    raced      \* history: tables whose last invalidation overtook a load

vars == <<db, loaded, cache, pc, tab, snap, pending, wrote, acked, raced>>

NoWrite == [c \in Tables |-> 0]

\* Types, and an unloaded copy is nil.
TypeOK ==
    /\ db \in [Tables -> Nat]
    /\ loaded \in SUBSET Tables
    /\ cache \in [Tables -> Nat]
    /\ pc \in [Threads -> {"idle", "query", "publish", "invalidate"}]
    /\ tab \in [Threads -> Tables]
    /\ snap \in [Threads -> Nat]
    /\ pending \in [Threads -> SUBSET Tables]
    /\ wrote \in [Threads -> [Tables -> Nat]]
    /\ acked \in [Tables -> Nat]
    /\ raced \in SUBSET Tables
    /\ \A c \in Tables \ loaded : cache[c] = 0

\* Open: a fresh Store has no copy loaded.
Init ==
    /\ db = NoWrite
    /\ loaded = {}
    /\ cache = NoWrite
    /\ pc = [t \in Threads |-> "idle"]
    /\ tab = [t \in Threads |-> "static"]
    /\ snap = [t \in Threads |-> 0]
    /\ pending = [t \in Threads |-> {}]
    /\ wrote = [t \in Threads |-> NoWrite]
    /\ acked = NoWrite
    /\ raced = {}

(***************************************************************************)
(* Reads.  A hit returns the copy under the read lock and changes nothing. *)
(***************************************************************************)

\* The copy of c is missing: the read lock is released and the SELECT starts.
CacheMiss(t, c) ==
    /\ pc[t] = "idle"
    /\ c \notin loaded
    /\ pc' = [pc EXCEPT ![t] = "query"]
    /\ tab' = [tab EXCEPT ![t] = c]
    /\ UNCHANGED <<db, loaded, cache, snap, pending, wrote, acked, raced>>

StaticRecords(t) == CacheMiss(t, "static")

Rules(t) == CacheMiss(t, "rules")

blocklistEntries(t) == CacheMiss(t, "blocklist")

\* The SELECT reads every row while it holds the only connection.
QueryRows(t) ==
    /\ pc[t] = "query"
    /\ snap' = [snap EXCEPT ![t] = db[tab[t]]]
    /\ pc' = [pc EXCEPT ![t] = "publish"]
    /\ UNCHANGED <<db, loaded, cache, tab, pending, wrote, acked, raced>>

\* The SELECT or a Scan fails: the error is returned, nothing is published.
QueryFails(t) ==
    /\ pc[t] = "query"
    /\ pc' = [pc EXCEPT ![t] = "idle"]
    /\ tab' = [tab EXCEPT ![t] = "static"]
    /\ UNCHANGED <<db, loaded, cache, snap, pending, wrote, acked, raced>>

\* The rows become the copy, whatever happened since the SELECT.
Publish(t) ==
    /\ pc[t] = "publish"
    /\ cache' = [cache EXCEPT ![tab[t]] = snap[t]]
    /\ loaded' = loaded \cup {tab[t]}
    /\ pc' = [pc EXCEPT ![t] = "idle"]
    /\ tab' = [tab EXCEPT ![t] = "static"]
    /\ snap' = [snap EXCEPT ![t] = 0]
    /\ UNCHANGED <<db, pending, wrote, acked, raced>>

(***************************************************************************)
(* Writes: commit, then invalidate.                                        *)
(***************************************************************************)

\* Table changes committed so far, for the bound.
Committed == db["static"] + db["rules"] + db["blocklist"]

\* A transaction that changes the tables of S and will invalidate those of I.
Commit(t, S, I) ==
    /\ pc[t] = "idle"
    /\ S # {} => Committed < MaxWrites
    /\ db' = [c \in Tables |-> IF c \in S THEN db[c] + 1 ELSE db[c]]
    /\ wrote' = [wrote EXCEPT ![t] = [c \in Tables |-> IF c \in S THEN db[c] + 1 ELSE 0]]
    /\ pending' = [pending EXCEPT ![t] = I]
    /\ pc' = [pc EXCEPT ![t] = "invalidate"]
    /\ UNCHANGED <<loaded, cache, tab, snap, acked, raced>>

UpsertStaticRecord(t) == Commit(t, {"static"}, {"static"})

AddRule(t) == Commit(t, {"rules"}, {"rules"})

\* Mutant: the copy-paste slip that invalidates another table's copy.
SetRuleEnabledWrongCache(t) == Commit(t, {"rules"}, {"blocklist"})

SetRuleEnabled(t) == Commit(t, {"rules"}, {"rules"})

\* Hit count and time are not policy, but the cached rows carry them.
RecordRuleHit(t) == Commit(t, {}, {"rules"})

replaceBlocklistEntries(t) == Commit(t, {"blocklist"}, {"blocklist"})

\* Mutant: the import forgets invalidateStaticCache.
ApplyWithoutStaticInvalidation(t) ==
    \E S \in SUBSET Tables : Commit(t, S, {"rules", "blocklist"})

\* One transaction replaces static records and rules, and deletes the entries
\* of sources the primary no longer has.
ApplyHASyncPayload(t) ==
    \E S \in SUBSET Tables : Commit(t, S, Tables)

\* The order of the three invalidations at the end of ApplyHASyncPayload.
NextToInvalidate(S) ==
    IF "static" \in S THEN "static"
    ELSE IF "rules" \in S THEN "rules" ELSE "blocklist"

\* Some goroutine holds rows of c that are not the committed ones any more.
HoldsOldRows(c) ==
    \E u \in Threads : pc[u] = "publish" /\ tab[u] = c /\ snap[u] # db[c]

Later(a, b) == [c \in Tables |-> IF a[c] > b[c] THEN a[c] ELSE b[c]]

\* Mutant: the flag is cleared and the copy kept.
InvalidateFlagOnly(t) ==
    LET c == NextToInvalidate(pending[t])
        rest == pending[t] \ {c}
    IN  /\ pc[t] = "invalidate"
        /\ loaded' = loaded \ {c}
        /\ pending' = [pending EXCEPT ![t] = rest]
        /\ IF rest = {}
             THEN /\ pc' = [pc EXCEPT ![t] = "idle"]
                  /\ acked' = Later(acked, wrote[t])
                  /\ wrote' = [wrote EXCEPT ![t] = NoWrite]
             ELSE UNCHANGED <<pc, acked, wrote>>
        /\ UNCHANGED <<db, cache, tab, snap, raced>>

\* invalidateStaticCache, invalidateRuleCache or invalidateBlocklistCache; the
\* call returns to its caller after the last of them.
InvalidateCache(t) ==
    LET c == NextToInvalidate(pending[t])
        rest == pending[t] \ {c}
    IN  /\ pc[t] = "invalidate"
        /\ loaded' = loaded \ {c}
        /\ cache' = [cache EXCEPT ![c] = 0]
        /\ raced' = IF HoldsOldRows(c) THEN raced \cup {c} ELSE raced \ {c}
        /\ pending' = [pending EXCEPT ![t] = rest]
        /\ IF rest = {}
             THEN /\ pc' = [pc EXCEPT ![t] = "idle"]
                  /\ acked' = Later(acked, wrote[t])
                  /\ wrote' = [wrote EXCEPT ![t] = NoWrite]
             ELSE UNCHANGED <<pc, acked, wrote>>
        /\ UNCHANGED <<db, tab, snap>>

\* The process dies and main opens the store again: SQLite keeps what was
\* committed, the copies and every goroutine are gone.
Restart ==
    /\ loaded' = {}
    /\ cache' = NoWrite
    /\ pc' = [t \in Threads |-> "idle"]
    /\ tab' = [t \in Threads |-> "static"]
    /\ snap' = [t \in Threads |-> 0]
    /\ pending' = [t \in Threads |-> {}]
    /\ wrote' = [t \in Threads |-> NoWrite]
    /\ raced' = {}
    /\ UNCHANGED <<db, acked>>

\* A step of goroutine t.
Work(t) ==
    \/ StaticRecords(t) \/ Rules(t) \/ blocklistEntries(t)
    \/ QueryRows(t) \/ QueryFails(t) \/ Publish(t)
    \/ UpsertStaticRecord(t) \/ AddRule(t) \/ SetRuleEnabled(t)
    \/ RecordRuleHit(t) \/ replaceBlocklistEntries(t) \/ ApplyHASyncPayload(t)
    \/ InvalidateCache(t)

Next == (\E t \in Threads : Work(t)) \/ Restart

Spec == Init /\ [][Next]_vars

(***************************************************************************)
(* Properties                                                              *)
(***************************************************************************)

\* A writer has committed and not yet invalidated c.
InvalidationPending(c) ==
    \E t \in Threads : pc[t] = "invalidate" /\ c \in pending[t]

\* The copy a DNS query decides from is the committed table, except between
\* a writer's commit and its invalidation, or after an invalidation overtook
\* a load that had read the rows and not published them (Rules, StaticRecords,
\* blocklistEntries against every writer).
StaleNeedsOverlap ==
    \A c \in Tables :
        c \in loaded /\ cache[c] # db[c] => InvalidationPending(c) \/ c \in raced

\* What a caller sees of its own writes: once SetRuleEnabled, AddRule,
\* UpsertStaticRecord, a list refresh or an HA import has returned, the copy
\* is at least that new unless a load was overtaken by the last invalidation.
FreshUnlessRaced ==
    \A c \in Tables :
        c \in loaded /\ c \notin raced => cache[c] >= acked[c]

(***************************************************************************)
(* The inductive invariant behind the two properties.                      *)
(***************************************************************************)

\* Rows read and not published are covered like a loaded copy.
StaleRowsNeedOverlap ==
    \A t \in Threads :
        pc[t] = "publish" /\ snap[t] # db[tab[t]]
            => InvalidationPending(tab[t]) \/ tab[t] \in raced

\* No version is acknowledged or claimed before it is committed.
VersionsCommitted ==
    \A c \in Tables : /\ acked[c] <= db[c]
                       /\ \A t \in Threads : wrote[t][c] <= db[c]

\* Copies and rows in flight of table c are at least version v.
AtLeast(c, v) ==
    /\ c \in loaded => cache[c] >= v
    /\ \A t \in Threads : pc[t] = "publish" /\ tab[t] = c => snap[t] >= v

\* While c is not raced, what is acknowledged, and what a writer that already
\* invalidated c is about to acknowledge, is a lower bound for c.
UnracedAreFresh ==
    \A c \in Tables :
        c \notin raced =>
            /\ AtLeast(c, acked[c])
            /\ \A t \in Threads :
                  pc[t] = "invalidate" /\ c \notin pending[t] => AtLeast(c, wrote[t][c])

IInv ==
    /\ TypeOK
    /\ StaleNeedsOverlap
    /\ StaleRowsNeedOverlap
    /\ VersionsCommitted
    /\ UnracedAreFresh

\* What the store tests expect of a single caller, "disabled rule still
\* matched" being the failure: after a policy write has returned, no lookup
\* uses an older version of the table.
ReadsSeeCompletedWrites ==
    \A c \in Tables : c \in loaded => cache[c] >= acked[c]
=============================================================================
