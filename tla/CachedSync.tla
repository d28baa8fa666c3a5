----------------------------- MODULE CachedSync -----------------------------
(* Policy sync on top of the policy caches: ExportHASyncPayload does not     *)
(* read static records and rules from SQLite, it calls StaticRecords and     *)
(* Rules (internal/store/store.go), so that what the primary pushes is what  *)
(* its caches hold.  PolicyCache is the store of the primary; this module    *)
(* lets some of its goroutines push, and adds the tables of the secondary.   *)
(* HASync has the rows, the edits on the secondary and its refusals.         *)
EXTENDS PolicyCache

CONSTANT Pushers   \* goroutines that push: the ticker, the sync handler

ASSUME PushersAssumption == Pushers \subseteq Threads

Exported == {"static", "rules"}

VARIABLES
    step,      \* step[x]: idle, the table to be exported next, or sent
    carried,   \* carried[x]: versions in the payload of x
    replica,   \* versions the secondary has imported
    saved,     \* history: acked when the push of x began
    behind     \* history: tables x took from a copy whose load was overtaken

syncVars == <<step, carried, replica, saved, behind>>

allVars == <<vars, syncVars>>

Nothing == [c \in Exported |-> 0]

SyncTypeOK ==
    /\ step \in [Pushers -> Exported \cup {"idle", "sent"}]
    /\ carried \in [Pushers -> [Exported -> Nat]]
    /\ replica \in [Exported -> Nat]
    /\ saved \in [Pushers -> [Tables -> Nat]]
    /\ behind \in [Pushers -> SUBSET Exported]

SyncInit ==
    /\ Init
    /\ step = [x \in Pushers |-> "idle"]
    /\ carried = [x \in Pushers |-> Nothing]
    /\ replica = Nothing
    /\ saved = [x \in Pushers |-> NoWrite]
    /\ behind = [x \in Pushers |-> {}]

(***************************************************************************)
(* A push                                                                  *)
(***************************************************************************)

pushHASync(x) ==
    /\ step[x] = "idle"
    /\ step' = [step EXCEPT ![x] = "static"]
    /\ saved' = [saved EXCEPT ![x] = acked]
    /\ UNCHANGED <<vars, carried, replica, behind>>

\* The table of this step is in the payload; static records come first.
Export(x, version) ==
    /\ carried' = [carried EXCEPT ![x][step[x]] = version]
    /\ step' = [step EXCEPT ![x] = IF @ = "static" THEN "rules" ELSE "sent"]

EndPush(x) ==
    /\ step' = [step EXCEPT ![x] = "idle"]
    /\ carried' = [carried EXCEPT ![x] = Nothing]
    /\ saved' = [saved EXCEPT ![x] = NoWrite]
    /\ behind' = [behind EXCEPT ![x] = {}]

\* A hit: the copy goes into the payload.
ExportCopy(x) ==
    /\ step[x] \in Exported /\ pc[x] = "idle"
    /\ step[x] \in loaded
    /\ Export(x, cache[step[x]])
    /\ behind' = [behind EXCEPT ![x] = @ \cup ({step[x]} \cap raced)]
    /\ UNCHANGED <<vars, replica, saved>>

\* A miss: x loads the copy like any other goroutine.
ExportMiss(x) ==
    /\ step[x] \in Exported
    /\ CacheMiss(x, step[x])
    /\ UNCHANGED syncVars

ExportQuery(x) == QueryRows(x) /\ UNCHANGED syncVars

\* The rows x has queried are published and exported.
ExportLoaded(x) ==
    /\ Publish(x)
    /\ Export(x, snap[x])
    /\ UNCHANGED <<replica, saved, behind>>

ExportFails(x) == QueryFails(x) /\ EndPush(x) /\ UNCHANGED replica

\* Mutant: the rules are left as they are.
ImportRecordsOnly(x) ==
    /\ step[x] = "sent"
    /\ replica' = [replica EXCEPT !["static"] = carried[x]["static"]]
    /\ EndPush(x)
    /\ UNCHANGED vars

\* The secondary imports the payload, maybe long after x gave up waiting.
Import(x) ==
    /\ step[x] = "sent"
    /\ replica' = carried[x]
    /\ EndPush(x)
    /\ UNCHANGED vars

PushFails(x) ==
    /\ step[x] = "sent"
    /\ EndPush(x)
    /\ UNCHANGED <<vars, replica>>

\* The primary restarts; a payload on its way still arrives.
SyncRestart ==
    LET lost == {x \in Pushers : step[x] # "sent"}
    IN  /\ Restart
        /\ step' = [x \in Pushers |-> IF x \in lost THEN "idle" ELSE step[x]]
        /\ carried' = [x \in Pushers |-> IF x \in lost THEN Nothing ELSE carried[x]]
        /\ saved' = [x \in Pushers |-> IF x \in lost THEN NoWrite ELSE saved[x]]
        /\ behind' = [x \in Pushers |-> IF x \in lost THEN {} ELSE behind[x]]
        /\ UNCHANGED replica

SyncNext ==
    \/ \E t \in Threads \ Pushers : Work(t) /\ UNCHANGED syncVars
    \/ \E x \in Pushers :
         \/ pushHASync(x) \/ ExportCopy(x) \/ ExportMiss(x) \/ ExportQuery(x)
         \/ ExportLoaded(x) \/ ExportFails(x) \/ Import(x) \/ PushFails(x)
    \/ SyncRestart

SyncSpec == SyncInit /\ [][SyncNext]_allVars

\* Goroutines run on and the ticker goes on pushing.  That neither a restart
\* nor an error strikes every time a push gets as far as some step is an
\* assumption about the environment.
SyncFairness ==
    /\ \A t \in Threads \ Pushers :
         WF_allVars((QueryRows(t) \/ QueryFails(t) \/ Publish(t) \/ InvalidateCache(t))
                      /\ UNCHANGED syncVars)
    /\ \A x \in Pushers :
         /\ WF_allVars(pushHASync(x))
         /\ SF_allVars(Import(x))
         /\ \A c \in Exported :
              /\ SF_allVars(step[x] = c /\ (ExportCopy(x) \/ ExportMiss(x)))
              /\ SF_allVars(step[x] = c /\ ExportQuery(x))
              /\ SF_allVars(step[x] = c /\ ExportLoaded(x))

FairSyncSpec == SyncSpec /\ SyncFairness

(***************************************************************************)
(* Properties                                                              *)
(***************************************************************************)

\* A push carries every change whose handler had returned when it began, save
\* then sync, unless it took a table from a copy whose load was overtaken by
\* an invalidation (ExportHASyncPayload through the caches, with any number of
\* pushes, readers and writers).
PushCarriesSaves ==
    \A x \in Pushers :
        step[x] = "sent" =>
            \A c \in Exported \ behind[x] : carried[x][c] >= saved[x][c]

\* The secondary gets to the primary's table and stays there, once changes
\* have stopped, unless an overtaken load has left the cache behind.
ReplicaCatchesUp ==
    \A c \in Exported : <>[](c \notin raced) => <>[](replica[c] = db[c])

(***************************************************************************)
(* The inductive invariant behind PushCarriesSaves, with that of           *)
(* PolicyCache.                                                            *)
(***************************************************************************)

\* The push of x began with changes acknowledged by now; a load of x is of the
\* table it exports and the rows are new enough; so are the tables it holds.
Fresh(x) ==
    /\ \A c \in Tables : saved[x][c] <= acked[c]
    /\ pc[x] \in {"query", "publish"} => step[x] \in Exported /\ tab[x] = step[x]
    /\ pc[x] = "publish" => snap[x] >= saved[x][tab[x]]
    /\ step[x] \in {"rules", "sent"} /\ "static" \notin behind[x]
         => carried[x]["static"] >= saved[x]["static"]
    /\ step[x] = "sent" /\ "rules" \notin behind[x]
         => carried[x]["rules"] >= saved[x]["rules"]

PushesFresh == \A x \in Pushers : Fresh(x)

SyncIInv == SyncTypeOK /\ PushesFresh
=============================================================================
