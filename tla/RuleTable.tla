------------------------------ MODULE RuleTable ------------------------------
(* The rules table of the store (internal/store/store.go) as operators: how  *)
(* a rule is added, toggled, chosen for a query and imported from a peer.    *)
(* A table is a set of rows [id, target, action, enabled]; (target, action)  *)
(* is unique (idx_rules_target_action_scope, the scope is always global).    *)
(* No code writes expires_at, so rules do not expire.  A name is a sequence  *)
(* of labels, most specific first, the dot that ends it left out: "a.org."   *)
(* is <<"a", "org">>, ".org." is <<"", "org">> and the empty text is << >>.  *)
EXTENDS Integers, Sequences, FiniteSets, FiniteSetsExt

RuleActions == {"allow", "block"}

Key(r) == <<r.target, r.action>>

Keys(R) == {Key(r) : r \in R}

\* What a rule says, without the row id.
Content(R) == {[target |-> r.target, action |-> r.action, enabled |-> r.enabled] : r \in R}

\* One leading dot is removed.  A second one stays, so that normalizing a name
\* again, as an import does, may give another name.
NormalizeName(n) == IF n # << >> /\ Head(n) = "" THEN Tail(n) ELSE n

\* qname == target or qname ends in "." + target.
Matches(q, target) == \E k \in 1..Len(q) : SubSeq(q, k, Len(q)) = target

MaxId(R) == Max({0} \cup {r.id : r \in R})

\* Mutant: the scan forgets to skip disabled rules.
MatchRuleAnyState(R, q) ==
    LET hits == {r \in R : Matches(q, r.target)}
    IN  IF hits = {} THEN "none"
        ELSE (CHOOSE r \in hits : \A s \in hits : r.id <= s.id).action

\* The rows come back by enabled DESC, id ASC and the first enabled one that
\* matches decides.
MatchRule(R, q) ==
    LET hits == {r \in R : r.enabled /\ Matches(q, r.target)}
    IN  IF hits = {} THEN "none"
        ELSE (CHOOSE r \in hits : \A s \in hits : r.id <= s.id).action

\* INSERT ... ON CONFLICT DO UPDATE SET enabled = 1: an existing rule keeps its
\* row id and is switched on; a new one gets the next row id.
AddRule(R, text, action) ==
    LET target == NormalizeName(text)
    IN  IF <<target, action>> \in Keys(R)
          THEN {IF Key(r) = <<target, action>> THEN [r EXCEPT !.enabled = TRUE] ELSE r : r \in R}
          ELSE R \cup {[id |-> MaxId(R) + 1, target |-> target, action |-> action, enabled |-> TRUE]}

SetRuleEnabled(R, id, enabled) ==
    {IF r.id = id THEN [r EXCEPT !.enabled = enabled] ELSE r : r \in R}

\* The order of the rows in an exported payload.
Before(r, s) ==
    \/ r.enabled /\ ~s.enabled
    \/ r.enabled = s.enabled /\ r.id < s.id

\* The key under which an import saves row p of a payload.
Slot(p) == <<NormalizeName(p.target), p.action>>

\* Rows without a target are skipped.
Usable(P) == {p \in P : NormalizeName(p.target) # << >>}

Slots(P) == {Slot(p) : p \in Usable(P)}

\* Of the rows with one slot the last sets the flag, and disabled rows are last.
EnabledIn(P, slot) == \A p \in P : Slot(p) = slot => p.enabled

\* What a payload says once its names are normalized.
Arrived(P) ==
    {[target |-> slot[1], action |-> slot[2], enabled |-> EnabledIn(P, slot)] : slot \in Slots(P)}

\* Rows an import updates, keeping their id.
Updated(R, P) ==
    {[r EXCEPT !.enabled = EnabledIn(P, Key(r))] : r \in {x \in R : Key(x) \in Slots(P)}}

\* The rows that insert: the first of each slot the table does not have.
Inserting(R, P) ==
    {p \in Usable(P) : /\ Slot(p) \notin Keys(R)
                       /\ \A q \in P : Slot(q) = Slot(p) => q = p \/ Before(p, q)}

\* Rows an import inserts, numbered in the order of the payload.
Inserted(R, P) ==
    {[id |-> MaxId(R) + Cardinality({q \in Inserting(R, P) : q = p \/ Before(q, p)}),
      target |-> NormalizeName(p.target), action |-> p.action,
      enabled |-> EnabledIn(P, Slot(p))] : p \in Inserting(R, P)}

\* Mutant: the rules the primary no longer has stay (no deleteMissingRules).
ImportKeepsStale(R, P) ==
    {r \in R : Key(r) \notin Slots(P)} \cup Updated(R, P) \cup Inserted(R, P)

\* Mutant: every row of the payload is inserted (no ON CONFLICT clause).
ImportDuplicates(R, P) ==
    {r \in R : Key(r) \in Slots(P)}
      \cup {[p EXCEPT !.id = p.id + MaxId(R)] : p \in P}

\* ApplyHASyncPayload for rules: upsert in payload order, then deleteMissingRules.
ImportRules(R, P) == Updated(R, P) \cup Inserted(R, P)
=============================================================================
