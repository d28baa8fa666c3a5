----------------------------- MODULE Blocklists -----------------------------
(* The block lists of the store (internal/store/store.go): curated presets   *)
(* and custom sources are switched on and off, a refresh downloads what is   *)
(* enabled and replaces the entries that MatchBlocklist looks up, and an HA  *)
(* import replaces switches and sources.                                     *)
(*                                                                           *)
(* RefreshBlocklists takes its list of downloads first and works on it for   *)
(* as long as the downloads last; nothing locks out a second refresh, an     *)
(* administrator or an import.  The domains of a download are abstracted to  *)
(* the list they came from.  The order of the downloads follows the names of *)
(* the lists, which are not modelled: any order is allowed.                  *)
EXTENDS Integers, FiniteSets, FiniteSetsExt

CONSTANTS
    Presets,     \* curated lists; both nodes are seeded with the same ones
    Urls,        \* custom lists
    Refreshes,   \* concurrent POST /api/blocklists/refresh
    MaxEdits     \* bound: changes of switches and sources

ASSUME ListsAssumption == IsFiniteSet(Presets) /\ IsFiniteSet(Urls) /\ Presets \cap Urls = {}
ASSUME MaxEditsAssumption == MaxEdits \in Nat

VARIABLES
    presetOn,     \* presets with enabled = 1
    rowid,        \* rowid[u]: id of the row of blocklist_sources for u, 0: none
    sourceOn,     \* custom lists with enabled = 1
    status,       \* status[u]: last_status
    entries,      \* blocklist_entries: which list is stored for which source
    pc,           \* idle, sources, next, store, record
    todo,         \* downloads a refresh has still to do
    cur,          \* the download it is at
    outcome,      \* result.Status of that download: ok or failed
    edits,        \* changes so far
    overtaken,    \* history: ids an import deleted while a refresh had them
    emptied,      \* history: ids whose last download held no domain
    since,        \* history: lists enabled ever since a refresh began
    tried,        \* history: lists a refresh is through with
    settled       \* history: a refresh without edits ended after the last edit

switches == <<presetOn, sourceOn>>
store == <<switches, rowid, status, entries>>
refresh == <<pc, todo, cur, outcome>>
history == <<overtaken, emptied, since, tried, settled>>
vars == <<store, refresh, edits, history>>

\* What a refresh downloads (blocklistFetchSource), and what entries are from.
Preset(p) == [type |-> "preset", id |-> 0, list |-> p]

Custom(u, ids) == [type |-> "custom", id |-> ids[u], list |-> u]

None == [type |-> "none", id |-> 0, list |-> "none"]

Items ==
    [type : {"preset"}, id : {0}, list : Presets] \cup [type : {"custom"}, id : Nat \ {0}, list : Urls]

SameSource(a, b) == a.type = b.type /\ (a.list = b.list \/ a.type = "custom") /\ a.id = b.id

\* Types; row ids are unique, and a source has one set of entries.
TypeOK ==
    /\ presetOn \in SUBSET Presets
    /\ rowid \in [Urls -> Nat]
    /\ \A u, v \in Urls : rowid[u] = rowid[v] /\ rowid[u] # 0 => u = v
    /\ sourceOn \in SUBSET {u \in Urls : rowid[u] # 0}
    /\ status \in [Urls -> {"not checked", "ok", "failed"}]
    /\ \A u \in Urls : rowid[u] = 0 => status[u] = "not checked"
    /\ entries \in SUBSET Items
    /\ \A e, f \in entries : SameSource(e, f) => e = f
    /\ pc \in [Refreshes -> {"idle", "sources", "next", "store", "record"}]
    /\ todo \in [Refreshes -> SUBSET Items]
    /\ cur \in [Refreshes -> Items \cup {None}]
    /\ outcome \in [Refreshes -> {"ok", "failed"}]
    /\ edits \in 0..MaxEdits
    /\ overtaken \in SUBSET Nat /\ emptied \in SUBSET Nat
    /\ since \in [Refreshes -> SUBSET Items]
    /\ tried \in [Refreshes -> SUBSET Items]
    /\ settled \in BOOLEAN

Init ==
    /\ presetOn = {} /\ sourceOn = {} /\ entries = {}
    /\ rowid = [u \in Urls |-> 0]
    /\ status = [u \in Urls |-> "not checked"]
    /\ pc = [r \in Refreshes |-> "idle"]
    /\ todo = [r \in Refreshes |-> {}]
    /\ cur = [r \in Refreshes |-> None]
    /\ outcome = [r \in Refreshes |-> "ok"]
    /\ edits = 0
    /\ overtaken = {} /\ emptied = {}
    /\ since = [r \in Refreshes |-> {}]
    /\ tried = [r \in Refreshes |-> {}]
    /\ settled = FALSE

EnabledCustoms(on, ids) == {Custom(u, ids) : u \in on}

Enabled(pOn, sOn, ids) == {Preset(p) : p \in pOn} \cup EnabledCustoms(sOn, ids)

MaxId == Max({0} \cup {rowid[u] : u \in Urls})

Known == {u \in Urls : rowid[u] # 0}

Toggle(S, x) == IF x \in S THEN S \ {x} ELSE S \cup {x}

(***************************************************************************)
(* Switches and sources                                                    *)
(***************************************************************************)

\* A change of switches or sources; a running refresh does not notice.
Edit(pOn, sOn, ids) ==
    /\ edits < MaxEdits
    /\ edits' = edits + 1
    /\ presetOn' = pOn
    /\ sourceOn' = sOn
    /\ rowid' = ids
    /\ since' = [r \in Refreshes |-> since[r] \cap Enabled(pOn, sOn, ids)]
    /\ settled' = FALSE
    /\ UNCHANGED <<refresh, tried>>

\* Only the switch changes: the entries stay.
SetBlocklistPresetEnabled ==
    /\ \E p \in Presets : Edit(Toggle(presetOn, p), sourceOn, rowid)
    /\ UNCHANGED <<status, entries, overtaken, emptied>>

SetBlocklistSourceEnabled ==
    /\ \E u \in Known : Edit(presetOn, Toggle(sourceOn, u), rowid)
    /\ UNCHANGED <<status, entries, overtaken, emptied>>

\* Mutant: the id of a new row is the number of rows plus one.
AddBlocklistSourceCounting ==
    /\ \E u \in Urls :
         Edit(presetOn, sourceOn \cup {u},
              IF u \in Known THEN rowid ELSE [rowid EXCEPT ![u] = Cardinality(Known) + 1])
    /\ UNCHANGED <<status, entries, overtaken, emptied>>

\* A known url is switched on under its old id, a new one gets the next id.
AddBlocklistSource ==
    /\ \E u \in Urls :
         Edit(presetOn, sourceOn \cup {u},
              IF u \in Known THEN rowid ELSE [rowid EXCEPT ![u] = MaxId + 1])
    /\ UNCHANGED <<status, entries, overtaken, emptied>>

\* Custom ids a refresh has on its list or is at.
Carried == {i.id : i \in {x \in UNION {todo[r] \cup {cur[r]} : r \in Refreshes} : x.type = "custom"}}

\* Mutant: the rows are deleted, their entries are not.
DeleteRowsOnly(ids) == entries

\* The entries go with their source.
deleteMissingBlocklistSources(ids) == {e \in entries : e.type = "preset" \/ e.id \notin ids}

\* The switches and sources of the primary, in one transaction: known urls
\* keep their ids, new ones are numbered in payload order, missing ones are
\* deleted last.
ApplyHASyncPayload ==
    \E pOn \in SUBSET Presets, want \in SUBSET Urls : \E live \in SUBSET want :
        LET new  == want \ Known
            gone == {rowid[u] : u \in Known \ want}
        IN  /\ \E num \in [new -> (MaxId + 1)..(MaxId + Cardinality(new))] :
                 /\ \A u, v \in new : num[u] = num[v] => u = v
                 /\ Edit(pOn, live, [u \in Urls |-> IF u \in new THEN num[u]
                                                   ELSE IF u \in want THEN rowid[u] ELSE 0])
            /\ status' = [u \in Urls |-> IF u \in want THEN status[u] ELSE "not checked"]
            /\ entries' = deleteMissingBlocklistSources(gone)
            /\ overtaken' = (overtaken \ gone) \cup (gone \cap Carried)
            /\ emptied' = emptied \ gone

(***************************************************************************)
(* RefreshBlocklists                                                       *)
(***************************************************************************)

\* enabledBlocklistFetchSources reads the presets.
RefreshBlocklists(r) ==
    /\ pc[r] = "idle"
    /\ todo' = [todo EXCEPT ![r] = {Preset(p) : p \in presetOn}]
    /\ since' = [since EXCEPT ![r] = Enabled(presetOn, sourceOn, rowid)]
    /\ pc' = [pc EXCEPT ![r] = "sources"]
    /\ UNCHANGED <<store, cur, outcome, edits, overtaken, emptied, tried, settled>>

\* Mutant: the custom sources replace the presets on the list.
ReadSourcesOnly(r) ==
    /\ pc[r] = "sources"
    /\ todo' = [todo EXCEPT ![r] = EnabledCustoms(sourceOn, rowid)]
    /\ pc' = [pc EXCEPT ![r] = "next"]
    /\ UNCHANGED <<store, cur, outcome, edits, history>>

\* ... then the custom sources, in a statement of its own.
enabledBlocklistFetchSources(r) ==
    /\ pc[r] = "sources"
    /\ todo' = [todo EXCEPT ![r] = @ \cup EnabledCustoms(sourceOn, rowid)]
    /\ pc' = [pc EXCEPT ![r] = "next"]
    /\ UNCHANGED <<store, cur, outcome, edits, history>>

\* The list is downloaded and parsed, or the download fails.
refreshBlocklistSource(r) ==
    /\ pc[r] = "next"
    /\ \E i \in todo[r] :
         /\ todo' = [todo EXCEPT ![r] = @ \ {i}]
         /\ cur' = [cur EXCEPT ![r] = i]
    /\ \/ pc' = [pc EXCEPT ![r] = "store"] /\ UNCHANGED outcome
       \/ pc' = [pc EXCEPT ![r] = "record"] /\ outcome' = [outcome EXCEPT ![r] = "failed"]
    /\ UNCHANGED <<store, edits, history>>

\* One transaction replaces the entries of the source; a download without
\* domains leaves none.
replaceBlocklistEntries(r) ==
    LET i == cur[r]
        others == {e \in entries : ~SameSource(e, i)}
    IN  /\ pc[r] = "store"
        /\ \/ entries' = others \cup {i} /\ emptied' = emptied \ {i.id}
           \/ entries' = others /\ emptied' = emptied \cup {i.id}
        /\ outcome' = [outcome EXCEPT ![r] = "ok"]
        /\ pc' = [pc EXCEPT ![r] = "record"]
        /\ UNCHANGED <<switches, rowid, status, todo, cur, edits, overtaken, since, tried, settled>>

\* Mutant: the error of the transaction is not looked at.
StoreFailsSilently(r) ==
    /\ pc[r] = "store"
    /\ outcome' = [outcome EXCEPT ![r] = "ok"]
    /\ pc' = [pc EXCEPT ![r] = "record"]
    /\ UNCHANGED <<store, todo, cur, edits, history>>

\* The transaction fails and is rolled back.
StoreFails(r) ==
    /\ pc[r] = "store"
    /\ outcome' = [outcome EXCEPT ![r] = "failed"]
    /\ pc' = [pc EXCEPT ![r] = "record"]
    /\ UNCHANGED <<store, todo, cur, edits, history>>

\* The status goes to the row with that id; an error of the UPDATE is ignored.
recordBlocklistSourceStatus(r) ==
    /\ pc[r] = "record"
    /\ \/ status' = [u \in Urls |-> IF cur[r].type = "custom" /\ rowid[u] = cur[r].id
                                      THEN outcome[r] ELSE status[u]]
       \/ UNCHANGED status
    /\ tried' = [tried EXCEPT ![r] = @ \cup {cur[r]}]
    /\ cur' = [cur EXCEPT ![r] = None]
    /\ outcome' = [outcome EXCEPT ![r] = "ok"]
    /\ pc' = [pc EXCEPT ![r] = "next"]
    /\ UNCHANGED <<switches, rowid, entries, todo, edits, overtaken, emptied, since, settled>>

\* The results go back to the caller.
RefreshDone(r) ==
    /\ pc[r] = "next" /\ todo[r] = {}
    /\ settled' = (settled \/ (Enabled(presetOn, sourceOn, rowid) = since[r] /\ since[r] = tried[r]))
    /\ since' = [since EXCEPT ![r] = {}]
    /\ tried' = [tried EXCEPT ![r] = {}]
    /\ pc' = [pc EXCEPT ![r] = "idle"]
    /\ UNCHANGED <<store, todo, cur, outcome, edits, overtaken, emptied>>

\* The process dies and starts again: the tables stay, the refreshes are gone.
Restart ==
    /\ pc' = [r \in Refreshes |-> "idle"]
    /\ todo' = [r \in Refreshes |-> {}]
    /\ cur' = [r \in Refreshes |-> None]
    /\ outcome' = [r \in Refreshes |-> "ok"]
    /\ since' = [r \in Refreshes |-> {}]
    /\ tried' = [r \in Refreshes |-> {}]
    /\ UNCHANGED <<store, edits, overtaken, emptied, settled>>

Next ==
    \/ SetBlocklistPresetEnabled \/ AddBlocklistSource \/ SetBlocklistSourceEnabled
    \/ ApplyHASyncPayload
    \/ \E r \in Refreshes :
         \/ RefreshBlocklists(r) \/ enabledBlocklistFetchSources(r)
         \/ refreshBlocklistSource(r) \/ replaceBlocklistEntries(r) \/ StoreFails(r)
         \/ recordBlocklistSourceStatus(r) \/ RefreshDone(r)
    \/ Restart

Spec == Init /\ [][Next]_vars

(***************************************************************************)
(* Properties                                                              *)
(***************************************************************************)

\* The source an item names is still there, under its id and with its url.
Sourced(i) == i.type = "custom" => rowid[i.list] = i.id

\* Entries that block names belong to a source that exists, and are from its
\* url, unless an import deleted the source of that id while a refresh had it
\* on its list (replaceBlocklistEntries against deleteMissingBlocklistSources).
OrphansNeedOverlap ==
    \A e \in entries : Sourced(e) \/ e.id \in overtaken

\* A source whose status says ok is enforced with the list of its url, unless
\* that list was empty or an import overtook a refresh.
OkMeansEnforced ==
    \A u \in Urls :
        status[u] = "ok" => Custom(u, rowid) \in entries \/ rowid[u] \in emptied \cup overtaken

\* A refresh leaves out no list that was enabled all the time it ran, although
\* it reads presets and sources in two statements and edits go on meanwhile.
RefreshCoversEnabled ==
    \A r \in Refreshes : pc[r] = "next" /\ todo[r] = {} => since[r] \subseteq tried[r]

(***************************************************************************)
(* The inductive invariant behind these properties.                        *)
(***************************************************************************)

BoundedIds == \E b \in Nat : \A u \in Urls : rowid[u] <= b

\* What refresh r has on its list or is at.
Has(r) == todo[r] \cup ({cur[r]} \ {None})

\* A refresh that is at a download knows which one.
AtDownload == \A r \in Refreshes : cur[r] = None <=> pc[r] \notin {"store", "record"}

\* What a refresh carries is covered like stored entries.
CarriedNeedOverlap ==
    \A r \in Refreshes : \A i \in Has(r) : Sourced(i) \/ i.id \in overtaken

\* A status about to be recorded as ok is already true.
OkBeforeRecord ==
    \A r \in Refreshes :
        pc[r] = "record" /\ outcome[r] = "ok" /\ cur[r].type = "custom"
            => cur[r] \in entries \/ cur[r].id \in emptied \cup overtaken

\* Lists enabled all along are still enabled, and done or to be done.
SinceCovered ==
    \A r \in Refreshes :
        /\ since[r] \subseteq Enabled(presetOn, sourceOn, rowid)
        /\ pc[r] = "idle" => since[r] = {}
        /\ pc[r] = "sources" => since[r] \subseteq todo[r] \cup EnabledCustoms(sourceOn, rowid)
        /\ pc[r] \in {"next", "store", "record"} => since[r] \subseteq Has(r) \cup tried[r]

IInv ==
    /\ TypeOK /\ BoundedIds /\ AtDownload
    /\ OrphansNeedOverlap /\ CarriedNeedOverlap
    /\ OkMeansEnforced /\ OkBeforeRecord
    /\ SinceCovered

\* ui.go, Block Lists page: "enabled block lists are enforced after refresh",
\* so what is enforced after a refresh of the current switches is enabled.
EnforcedAreEnabled ==
    settled => entries \subseteq Enabled(presetOn, sourceOn, rowid)
=============================================================================
