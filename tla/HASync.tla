------------------------------- MODULE HASync -------------------------------
(* Policy sync between the two nodes (internal/store/store.go, the ha.*      *)
(* handlers of internal/htt_server/server.go).  The primary exports its      *)
(* policy and posts it to the secondary, on a five-minute ticker and from    *)
(* the Push Sync button; the secondary checks its role and imports.  Either  *)
(* node may have an administrator who edits its policy.                      *)
(*                                                                           *)
(* An exchange is one export with its POST.  Exchanges overlap: the ticker   *)
(* and the button do not know of each other, and a POST the primary gave up  *)
(* on after 20 s may still be running on the secondary.  An export reads the *)
(* five tables one after the other, static records and rules through the     *)
(* caches of the primary and the others from SQLite.  Rules have their rows; *)
(* each of the other tables is abstracted to one version number.             *)
(*                                                                           *)
(* A cache is what its readers get, and the outdated rows that loads still   *)
(* have in hand (PolicyCache and CachedSync have the single steps of a load; *)
(* the refinement shows what the coarser steps leave of them).               *)
EXTENDS RuleTable

CONSTANTS
    Exchanges,   \* concurrent pushes
    Ticker,      \* the exchange the worker's ticker starts
    Names,       \* names that are asked, and that are typed as targets
    Editors,     \* nodes whose administrator edits policy
    Typed,       \* bound: the texts that the first, second ... edit may type;
                 \* as many edits as it is long, on both nodes together
    MaxOtherEdits, \* bound: only this many first edits are about other tables
    MaxOvertakes \* bound: only this many first edits overtake readers

Nodes == {"primary", "secondary"}

ASSUME EditorsAssumption == Editors \subseteq Nodes
ASSUME TickerAssumption == Ticker \in Exchanges
ASSUME NamesAssumption == \A n \in Names : NormalizeName(n) \in Names
ASSUME TypedAssumption == Typed \in Seq(SUBSET Names)
ASSUME MaxOtherEditsAssumption == MaxOtherEdits \in 0..Len(Typed)
ASSUME MaxOvertakesAssumption == MaxOvertakes \in Nat

\* Tables that are read with a SELECT of their own, in this order.
Selected == {"presets", "sources", "retention"}

Versioned == {"records"} \cup Selected

VARIABLES
    rules,      \* rules[n]: the rules table of node n
    versions,   \* versions[n][t]: version of its table t
    shown,      \* what the primary's caches of records and rules answer
    held,       \* outdated records and rules that loads of them still hold
    receiver,   \* the secondary is enabled and its role is secondary
    pc,         \* idle, the table to export next, sent, validated
    payload,    \* what each exchange carries
    edits       \* administrator edits so far

policy == <<rules, versions>>
caches == <<shown, held>>
vars == <<policy, caches, receiver, pc, payload, edits>>

Rows == [id : Nat, target : Names, action : RuleActions, enabled : BOOLEAN]

Steps == {"idle", "rules", "presets", "sources", "retention", "sent", "validated"}

NewVersions == [t \in Versioned |-> 0]

Empty == [rules |-> {}, versions |-> NewVersions]

\* Types, and every table keeps its primary key and its unique index.
TypeOK ==
    /\ \A n \in Nodes : \A r \in rules[n] : r \in Rows
    /\ \A n \in Nodes : \A r, s \in rules[n] : r.id = s.id \/ Key(r) = Key(s) => r = s
    /\ versions \in [Nodes -> [Versioned -> Nat]]
    /\ receiver \in BOOLEAN
    /\ pc \in [Exchanges -> Steps]
    /\ edits \in 0..Len(Typed)

Init ==
    /\ rules = [n \in Nodes |-> {}]
    /\ versions = [n \in Nodes |-> NewVersions]
    /\ shown = [records |-> 0, rules |-> {}]
    /\ held = [records |-> {}, rules |-> {}]
    /\ receiver = TRUE
    /\ pc = [x \in Exchanges |-> "idle"]
    /\ payload = [x \in Exchanges |-> Empty]
    /\ edits = 0

(***************************************************************************)
(* The caches of the primary                                               *)
(***************************************************************************)

\* A write to the rules of the primary: readers get the new rows at once, or
\* the copy until the invalidation comes, and a load may have the old rows in
\* hand.
CacheRules(n, table) ==
    IF n = "primary"
      THEN \/ shown' = [shown EXCEPT !.rules = table] /\ UNCHANGED held
           \/ /\ edits < MaxOvertakes
              /\ shown' \in {shown, [shown EXCEPT !.rules = table]}
              /\ held' \in {held, [held EXCEPT !.rules = @ \cup {rules["primary"]}]}
      ELSE UNCHANGED caches

CacheRecords(n, version) ==
    IF n = "primary"
      THEN \/ shown' = [shown EXCEPT !.records = version] /\ UNCHANGED held
           \/ /\ edits < MaxOvertakes
              /\ shown' \in {shown, [shown EXCEPT !.records = version]}
              /\ held' \in {held, [held EXCEPT !.records = @ \cup {versions["primary"]["records"]}]}
      ELSE UNCHANGED caches

\* A write, a rule hit or a restart invalidates the copy, or a load that no
\* write overtook replaces it: readers get the table.
FreshRules ==
    /\ shown' = [shown EXCEPT !.rules = rules["primary"]]
    /\ UNCHANGED <<policy, held, receiver, pc, payload, edits>>

FreshRecords ==
    /\ shown' = [shown EXCEPT !.records = versions["primary"]["records"]]
    /\ UNCHANGED <<policy, held, receiver, pc, payload, edits>>

\* An overtaken load publishes what it has: Rules and StaticRecords do not
\* look whether the table has changed.
PublishRules ==
    /\ \E table \in held.rules :
         /\ shown' = [shown EXCEPT !.rules = table]
         /\ held' = [held EXCEPT !.rules = @ \ {table}]
    /\ UNCHANGED <<policy, receiver, pc, payload, edits>>

PublishRecords ==
    /\ \E version \in held.records :
         /\ shown' = [shown EXCEPT !.records = version]
         /\ held' = [held EXCEPT !.records = @ \ {version}]
    /\ UNCHANGED <<policy, receiver, pc, payload, edits>>

(***************************************************************************)
(* Administrators                                                          *)
(***************************************************************************)

Edit(n, table) ==
    /\ edits < Len(Typed)
    /\ edits' = edits + 1
    /\ rules' = [rules EXCEPT ![n] = table]
    /\ CacheRules(n, table)
    /\ UNCHANGED <<versions, receiver, pc, payload>>

\* A target of which nothing is left is refused.
CreateRule(n) ==
    \E text \in Names, action \in RuleActions :
        /\ edits < Len(Typed) /\ text \in Typed[edits + 1]
        /\ NormalizeName(text) # << >>
        /\ Edit(n, AddRule(rules[n], text, action))

ToggleRule(n) ==
    \E r \in rules[n] : Edit(n, SetRuleEnabled(rules[n], r.id, ~r.enabled))

\* Any write to the other replicated tables.
EditVersion(n, t) ==
    /\ edits < MaxOtherEdits
    /\ edits' = edits + 1
    /\ versions' = [versions EXCEPT ![n][t] = edits + 1]
    /\ UNCHANGED <<rules, receiver, pc, payload>>

EditRecords(n) == EditVersion(n, "records") /\ CacheRecords(n, edits + 1)

\* Presets, sources or the retention days.
EditSelected(n) == \E t \in Selected : EditVersion(n, t) /\ UNCHANGED caches

\* SaveHASettings on the secondary: disabled, or made a primary, and back.
SaveHASettings ==
    /\ receiver' = ~receiver
    /\ UNCHANGED <<policy, caches, pc, payload, edits>>

(***************************************************************************)
(* An exchange                                                             *)
(***************************************************************************)

\* Mutant: the ticker pushes only when the static records have changed.
StartPushIfRecordsDiffer(x) ==
    /\ pc[x] = "idle" /\ shown.records # versions["secondary"]["records"]
    /\ payload' = [payload EXCEPT ![x].versions["records"] = shown.records]
    /\ pc' = [pc EXCEPT ![x] = "rules"]
    /\ UNCHANGED <<policy, caches, receiver, edits>>

\* pushHASync reads its settings and ExportHASyncPayload calls StaticRecords.
StartPush(x) ==
    /\ pc[x] = "idle"
    /\ payload' = [payload EXCEPT ![x].versions["records"] = shown.records]
    /\ pc' = [pc EXCEPT ![x] = "rules"]
    /\ UNCHANGED <<policy, caches, receiver, edits>>

\* The call of Rules.
ExportRules(x) ==
    /\ pc[x] = "rules"
    /\ payload' = [payload EXCEPT ![x].rules = shown.rules]
    /\ pc' = [pc EXCEPT ![x] = "presets"]
    /\ UNCHANGED <<policy, caches, receiver, edits>>

Following(t) ==
    CASE t = "presets" -> "sources" [] t = "sources" -> "retention" [] OTHER -> "sent"

\* BlocklistPresets, BlocklistSources, Retention: a SELECT each.  After the
\* last one the POST leaves.
ExportSelected(x, t) ==
    /\ pc[x] = t
    /\ payload' = [payload EXCEPT ![x].versions[t] = versions["primary"][t]]
    /\ pc' = [pc EXCEPT ![x] = Following(t)]
    /\ UNCHANGED <<policy, caches, receiver, edits>>

Finish(x) ==
    /\ pc' = [pc EXCEPT ![x] = "idle"]
    /\ payload' = [payload EXCEPT ![x] = Empty]

\* Mutant: the enabled flag and the role are not asked for.
ValidateNothing(x) ==
    /\ pc[x] = "sent"
    /\ pc' = [pc EXCEPT ![x] = "validated"]
    /\ UNCHANGED <<policy, caches, receiver, payload, edits>>

\* haImport asks ValidateHAImportAllowed, then decodes the body.
ValidateHAImportAllowed(x) ==
    /\ pc[x] = "sent" /\ receiver
    /\ pc' = [pc EXCEPT ![x] = "validated"]
    /\ UNCHANGED <<policy, caches, receiver, payload, edits>>

\* 403: the node does not receive policy.
RefuseImport(x) ==
    /\ pc[x] = "sent" /\ ~receiver
    /\ Finish(x)
    /\ UNCHANGED <<policy, caches, receiver, edits>>

\* One transaction replaces the policy of the secondary.
ApplyHASyncPayload(x) ==
    /\ pc[x] = "validated"
    /\ rules' = [rules EXCEPT !["secondary"] = ImportRules(@, payload[x].rules)]
    /\ versions' = [versions EXCEPT !["secondary"] = payload[x].versions]
    /\ Finish(x)
    /\ UNCHANGED <<caches, receiver, edits>>

\* Mutant: no transaction, a failure after the rules leaves them imported.
PushFailsHalfway(x) ==
    /\ pc[x] \in {"sent", "validated"}
    /\ rules' = IF pc[x] = "validated"
                  THEN [rules EXCEPT !["secondary"] = ImportRules(@, payload[x].rules)]
                  ELSE rules
    /\ Finish(x)
    /\ UNCHANGED <<versions, caches, receiver, edits>>

\* The POST is lost, refused or cut off, or the transaction rolls back.  An
\* export that a failed query or a restart ends is one whose POST is lost.
PushFails(x) ==
    /\ pc[x] \in {"sent", "validated"}
    /\ Finish(x)
    /\ UNCHANGED <<policy, caches, receiver, edits>>

Export(x) == ExportRules(x) \/ \E t \in Selected : ExportSelected(x, t)

Next ==
    \/ \E n \in Editors : CreateRule(n) \/ ToggleRule(n) \/ EditRecords(n) \/ EditSelected(n)
    \/ FreshRules \/ FreshRecords \/ PublishRules \/ PublishRecords
    \/ SaveHASettings
    \/ \E x \in Exchanges :
         \/ StartPush(x) \/ Export(x)
         \/ ValidateHAImportAllowed(x) \/ RefuseImport(x)
         \/ ApplyHASyncPayload(x) \/ PushFails(x)

Spec == Init /\ [][Next]_vars

\* The ticker of StartHAWorker fires again and again and a started exchange
\* ends (client and server time out).  The network does not lose every POST:
\* an import that is validated again and again is applied in the end.  Nothing
\* is assumed of the caches.
Fairness ==
    /\ WF_vars(StartPush(Ticker))
    /\ \A x \in Exchanges :
         WF_vars(Export(x) \/ RefuseImport(x) \/ ApplyHASyncPayload(x) \/ PushFails(x))
    /\ SF_vars(ValidateHAImportAllowed(Ticker))
    /\ SF_vars(ApplyHASyncPayload(Ticker))

FairSpec == Spec /\ Fairness

(***************************************************************************)
(* Properties                                                              *)
(***************************************************************************)

\* Tables as PolicyReplica sees them.
Abstract(content, v) ==
    [t \in Versioned \cup {"rules"} |-> IF t = "rules" THEN content ELSE v[t]]

\* Tables an exchange has exported.
Picked(step) ==
    CASE step = "idle"      -> {}
      [] step = "rules"     -> {"records"}
      [] step = "presets"   -> {"records", "rules"}
      [] step = "sources"   -> {"records", "rules", "presets"}
      [] step = "retention" -> {"records", "rules", "presets", "sources"}
      [] OTHER              -> {"records", "rules", "presets", "sources", "retention"}

\* Rules count without their row ids, those of the primary and of a payload by
\* what an import makes of their names.
Replica == INSTANCE PolicyReplica WITH
    policy <- [n \in Nodes |->
                 Abstract(IF n = "primary" THEN Arrived(rules[n]) ELSE Content(rules[n]), versions[n])],
    seen <- [t \in Versioned \cup {"rules"} |->
               IF t = "rules" THEN {Arrived(table) : table \in {shown.rules} \cup held.rules}
               ELSE IF t = "records" THEN {shown.records} \cup held.records
               ELSE {versions["primary"][t]}],
    picked <- [x \in Exchanges |-> Picked(pc[x])],
    parcel <- [x \in Exchanges |-> Abstract(Arrived(payload[x].rules), payload[x].versions)]

\* Policy sync keeps its promise: whatever the row ids, overlapping pushes,
\* torn exports and stale caches, the secondary changes only by its own
\* administrator or by taking over, as a whole, five tables, each with a content
\* that it had on the primary when the export, or the load of the cache that
\* the export read, looked at it (ExportHASyncPayload, ApplyHASyncPayload).
ImplementsReplica == Replica!Spec

(***************************************************************************)
(* The inductive invariant behind the safety properties.                   *)
(***************************************************************************)

\* A table with a greatest row id that keeps its primary key and unique index.
Table(R) ==
    /\ R \in SUBSET Rows
    /\ MaxId(R) \in Nat /\ \A r \in R : r.id <= MaxId(R)
    /\ \A r, s \in R : r.id = s.id \/ Key(r) = Key(s) => r = s

Payloads == [rules : SUBSET Rows, versions : [Versioned -> Nat]]

\* What caches and exchanges hold are tables too.
IInv ==
    /\ TypeOK
    /\ rules \in [Nodes -> SUBSET Rows]
    /\ shown \in [records : Nat, rules : SUBSET Rows]
    /\ held \in [records : SUBSET Nat, rules : SUBSET SUBSET Rows]
    /\ payload \in [Exchanges -> Payloads]
    /\ \A n \in Nodes : Table(rules[n])
    /\ Table(shown.rules) /\ \A table \in held.rules : Table(table)
    /\ \A x \in Exchanges : Table(payload[x].rules)

\* The secondary has what an import of the primary's policy makes of it.
Synced ==
    /\ Content(rules["secondary"]) = Arrived(rules["primary"])
    /\ versions["secondary"] = versions["primary"]

\* The primary's caches show its tables.
Fresh == shown = [records |-> versions["primary"]["records"], rules |-> rules["primary"]]

SameContent == Content(rules["primary"]) = Content(rules["secondary"])

\* An import is authoritative: afterwards the secondary has exactly the tables
\* of the payload, its rules by their normalized names, whatever its own
\* administrator or an older import had put there (ApplyHASyncPayload,
\* deleteMissingRules).
ImportIsAuthoritative ==
    [][\A x \in Exchanges : ApplyHASyncPayload(x) =>
          /\ Content(rules["secondary"])' = Arrived(payload[x].rules)
          /\ versions'["secondary"] = payload[x].versions]_vars

\* With equal rules both nodes take the same decision on a name unless
\* enabled allow and block rules compete for it (MatchRule on either node).
SyncedAgreeUnlessConflict ==
    SameContent => \A q \in Names :
        LET hits == {r \in rules["primary"] : r.enabled /\ Matches(q, r.target)}
        IN  (\A r, s \in hits : r.action = s.action)
              => MatchRule(rules["primary"], q) = MatchRule(rules["secondary"], q)

\* When the administrators leave both nodes alone, the secondary goes on
\* receiving and no overtaken load has left the primary with a stale cache, the
\* ticker brings the secondary to the primary's policy for good, in spite of
\* failed, lost, torn and overtaken pushes.
Converges == <>[](receiver /\ Fresh) => <>[]Synced

\* haImport checks the role before it reads the body and not in the
\* transaction, so an import can still come after the node stopped receiving.
\* Those are the ones that had passed the check: once the node has left for
\* good, imports end.
LeavingStopsImports ==
    <>[]~receiver => <>[][\A x \in Exchanges : ~ApplyHASyncPayload(x)]_vars

\* README.md, Redundant DNS: the primary pushes its policy to the secondary,
\* so nodes with the same rules in the same states decide alike.
SyncedNodesAgree ==
    SameContent => \A q \in Names :
        MatchRule(rules["primary"], q) = MatchRule(rules["secondary"], q)
=============================================================================
