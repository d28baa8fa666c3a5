---------------------------- MODULE HASyncProofs ----------------------------
(* Proofs about HASync: the keys of the rules table under edits and imports, *)
(* what an import leaves behind, and that the sync implements PolicyReplica. *)
EXTENDS HASync, FiniteSetTheorems, WellFoundedInduction, TLAPS

(***************************************************************************)
(* Row ids: SQLite hands out max(rowid) + 1                                *)
(***************************************************************************)

\* A set of naturals that has a member has a least one.
LEMMA LeastNatural ==
  ASSUME NEW S \in SUBSET Nat, S # {}
  PROVE  \E n \in S : \A m \in S : n <= m
<1>1. \E n \in S : \A m \in S : <<m, n>> \notin OpToRel(<, Nat)
  BY NatLessThanWellFounded, WFMin
<1>2. PICK n \in S : \A m \in S : <<m, n>> \notin OpToRel(<, Nat)
  BY <1>1
<1>3. ASSUME NEW m \in S PROVE n <= m
  <2>1. m \in Nat /\ n \in Nat
    OBVIOUS
  <2>2. m < n => <<m, n>> \in OpToRel(<, Nat)
    BY <2>1 DEF OpToRel
  <2>3. ~(m < n)
    BY ONLY <1>2, <2>2, m \in S, Zenon
  <2> QED
    BY ONLY <2>1, <2>3
<1> QED
  BY <1>3

\* A bounded set of naturals that has a member has a greatest one, and Max is
\* it: the least upper bound is a member.
LEMMA MaxOfBounded ==
  ASSUME NEW S \in SUBSET Nat, S # {}, NEW b \in Nat, \A n \in S : n <= b
  PROVE  Max(S) \in S /\ \A n \in S : n <= Max(S)
<1> DEFINE U == {u \in Nat : \A n \in S : n <= u}
<1>1. PICK u \in U : \A v \in U : u <= v
  BY LeastNatural
<1>2. u \in S
  <2> SUFFICES ASSUME u \notin S PROVE FALSE
    OBVIOUS
  <2>1. \A n \in S : n < u
    BY <1>1
  <2>2. PICK n \in S : TRUE
    OBVIOUS
  <2>3. u - 1 \in U
    BY <2>1, <2>2
  <2> QED
    BY <1>1, <2>3
<1>3. \E x \in S : \A y \in S : x >= y
  BY <1>1, <1>2
<1> QED
  BY <1>3 DEF Max

-----------------------------------------------------------------------------
(* Tables of rules.                                                          *)

\* A row is its id and its content.
LEMMA RowFields ==
  ASSUME NEW r \in Rows
  PROVE  /\ r.id \in Nat /\ r.target \in Names
         /\ r.action \in RuleActions /\ r.enabled \in BOOLEAN
BY DEF Rows

\* Any bound on the row ids makes max(id) what SQLite takes it for.
LEMMA MaxIdOfBounded ==
  ASSUME NEW R \in SUBSET Rows, NEW b \in Nat, \A r \in R : r.id <= b
  PROVE  MaxId(R) \in Nat /\ \A r \in R : r.id <= MaxId(R)
<1> DEFINE S == {0} \cup {r.id : r \in R}
<1>1. S \in SUBSET Nat /\ S # {}
  BY RowFields
<1>2. \A n \in S : n <= b
  OBVIOUS
<1>3. Max(S) \in S /\ \A n \in S : n <= Max(S)
  BY <1>1, <1>2, MaxOfBounded
<1> QED
  BY <1>1, <1>3 DEF MaxId

\* Tables are finite: their ids are distinct numbers up to the greatest one.
LEMMA TableFinite ==
  ASSUME NEW R, Table(R)
  PROVE  IsFiniteSet(R)
<1> DEFINE T == 0..MaxId(R)
           f == [r \in R |-> r.id]
<1>1. R \in SUBSET Rows /\ MaxId(R) \in Nat /\ (\A r \in R : r.id <= MaxId(R))
      /\ (\A r, s \in R : r.id = s.id => r = s)
  BY DEF Table
<1>2. \A r \in R : r.id \in T
  BY <1>1, RowFields
<1>3. f \in Injection(R, T)
  BY <1>1, <1>2 DEF Injection, IsInjective
<1>4. IsFiniteSet(T)
  BY <1>1, FS_Interval
<1> QED
  BY <1>3, <1>4, FS_Injection

LEMMA EmptyTable == Table({})
<1>1. MaxId({}) \in Nat /\ \A r \in {} : r.id <= MaxId({})
  BY MaxIdOfBounded
<1> QED
  BY <1>1 DEF Table

\* An upsert keeps the keys of the table.
LEMMA AddRuleTable ==
  ASSUME NEW R, Table(R), NEW text \in Names, NEW action \in RuleActions
  PROVE  Table(AddRule(R, text, action))
<1> DEFINE A == AddRule(R, text, action)
           target == NormalizeName(text)
<1>0. target \in Names
  BY NamesAssumption
<1>1. R \in SUBSET Rows /\ MaxId(R) \in Nat /\ (\A r \in R : r.id <= MaxId(R))
      /\ (\A r, s \in R : r.id = s.id \/ Key(r) = Key(s) => r = s)
  BY DEF Table
<1>2. CASE <<target, action>> \in Keys(R)
  <2> DEFINE On(r) == IF Key(r) = <<target, action>> THEN [r EXCEPT !.enabled = TRUE] ELSE r
  <2>1. A = {On(r) : r \in R}
    BY <1>2 DEF AddRule
  <2>2. \A r \in R : On(r) \in Rows /\ On(r).id = r.id /\ Key(On(r)) = Key(r)
    BY <1>1 DEF Rows, Key
  <2>3. A \in SUBSET Rows /\ \A r \in A : r.id <= MaxId(R)
    BY <1>1, <2>1, <2>2
  <2>4. MaxId(A) \in Nat /\ \A r \in A : r.id <= MaxId(A)
    BY <1>1, <2>3, MaxIdOfBounded
  <2>5. ASSUME NEW a \in A, NEW b \in A, a.id = b.id \/ Key(a) = Key(b) PROVE a = b
    <3> HIDE DEF On
    <3>1. PICK r \in R : a = On(r)
      BY <2>1
    <3>2. PICK s \in R : b = On(s)
      BY <2>1
    <3>3. r = s
      BY <1>1, <2>2, <2>5, <3>1, <3>2
    <3> QED
      BY <3>1, <3>2, <3>3
  <2> QED
    BY <2>3, <2>4, <2>5 DEF Table
<1>3. CASE <<target, action>> \notin Keys(R)
  <2> DEFINE n == [id |-> MaxId(R) + 1, target |-> target, action |-> action, enabled |-> TRUE]
  <2>1. A = R \cup {n}
    BY <1>3 DEF AddRule
  <2>2. n \in Rows /\ n.id = MaxId(R) + 1 /\ Key(n) = <<target, action>>
    BY <1>0, <1>1 DEF Rows, Key
  <2>3. \A r \in R : r.id # n.id /\ Key(r) # Key(n)
    BY <1>1, <1>3, <2>2, RowFields DEF Keys
  <2>4. A \in SUBSET Rows /\ \A r \in A : r.id <= MaxId(R) + 1
    <3> HIDE DEF n
    <3>1. \A r \in R : r.id <= MaxId(R) + 1
      BY <1>1, RowFields
    <3> QED
      BY <1>1, <2>1, <2>2, <3>1
  <2>5. MaxId(A) \in Nat /\ \A r \in A : r.id <= MaxId(A)
    BY <1>1, <2>4, MaxIdOfBounded
  <2>6. \A r, s \in A : r.id = s.id \/ Key(r) = Key(s) => r = s
    <3> HIDE DEF n
    <3> QED
      BY <1>1, <2>1, <2>3
  <2> QED
    BY <2>4, <2>5, <2>6 DEF Table
<1> QED
  BY <1>2, <1>3

LEMMA SetRuleEnabledTable ==
  ASSUME NEW R, Table(R), NEW id, NEW enabled \in BOOLEAN
  PROVE  Table(SetRuleEnabled(R, id, enabled))
<1> DEFINE Set(r) == IF r.id = id THEN [r EXCEPT !.enabled = enabled] ELSE r
           A == SetRuleEnabled(R, id, enabled)
<1>1. R \in SUBSET Rows /\ MaxId(R) \in Nat /\ (\A r \in R : r.id <= MaxId(R))
      /\ (\A r, s \in R : r.id = s.id \/ Key(r) = Key(s) => r = s)
  BY DEF Table
<1>2. A = {Set(r) : r \in R}
  BY DEF SetRuleEnabled
<1>3. \A r \in R : Set(r) \in Rows /\ Set(r).id = r.id /\ Key(Set(r)) = Key(r)
  BY <1>1 DEF Rows, Key
<1> HIDE DEF Set
<1>4. A \in SUBSET Rows /\ \A r \in A : r.id <= MaxId(R)
  BY <1>1, <1>2, <1>3
<1>5. MaxId(A) \in Nat /\ \A r \in A : r.id <= MaxId(A)
  BY <1>1, <1>4, MaxIdOfBounded
<1>6. ASSUME NEW a \in A, NEW b \in A, a.id = b.id \/ Key(a) = Key(b) PROVE a = b
  <2>1. PICK r \in R : a = Set(r)
    BY <1>2
  <2>2. PICK s \in R : b = Set(s)
    BY <1>2
  <2>3. r = s
    BY <1>1, <1>3, <1>6, <2>1, <2>2
  <2> QED
    BY <2>1, <2>2, <2>3
<1> QED
  BY <1>4, <1>5, <1>6 DEF Table

\* The row an import inserts for payload row p.
NewRow(R, P, p) ==
  [id |-> MaxId(R) + Cardinality({q \in Inserting(R, P) : q = p \/ Before(q, p)}),
   target |-> NormalizeName(p.target), action |-> p.action, enabled |-> EnabledIn(P, Slot(p))]

\* The row an import makes of row r.
NewState(P, r) == [r EXCEPT !.enabled = EnabledIn(P, Key(r))]

\* An import as rows that are updated and rows that are inserted.
LEMMA ImportCases ==
  ASSUME NEW R, NEW P
  PROVE  ImportRules(R, P) = {NewState(P, r) : r \in {x \in R : Key(x) \in Slots(P)}}
                               \cup {NewRow(R, P, p) : p \in Inserting(R, P)}
BY DEF ImportRules, Updated, Inserted, NewState, NewRow

\* The slot and the flag under which a row of a payload is saved.
LEMMA SlotFields ==
  ASSUME NEW P, Table(P), NEW p \in P
  PROVE  /\ NormalizeName(p.target) \in Names /\ p.action \in RuleActions
         /\ EnabledIn(P, Slot(p)) \in BOOLEAN
BY RowFields, NamesAssumption DEF Table, EnabledIn

\* Rows come in an order in which any two of them can be compared.
LEMMA BeforeOrder ==
  ASSUME NEW P, Table(P)
  PROVE  /\ \A p, q \in P : p # q => Before(p, q) \/ Before(q, p)
         /\ \A p, q \in P : Before(p, q) => p # q /\ ~Before(q, p)
         /\ \A p, q, r \in P : Before(r, p) /\ Before(p, q) => Before(r, q)
<1>1. P \in SUBSET Rows /\ \A p, q \in P : p.id = q.id => p = q
  BY DEF Table
<1>2. \A p \in P : p.id \in Nat /\ p.enabled \in BOOLEAN
  BY <1>1, RowFields
<1>3. ASSUME NEW p \in P, NEW q \in P, p # q PROVE Before(p, q) \/ Before(q, p)
  <2>1. p.id # q.id
    BY <1>1, <1>3
  <2> QED
    BY <1>2, <2>1 DEF Before
<1>4. ASSUME NEW p \in P, NEW q \in P, Before(p, q) PROVE p # q /\ ~Before(q, p)
  BY <1>2, <1>4 DEF Before
<1>5. ASSUME NEW p \in P, NEW q \in P, NEW r \in P, Before(r, p), Before(p, q)
      PROVE  Before(r, q)
  BY <1>2, <1>5 DEF Before
<1> QED
  BY <1>3, <1>4, <1>5

\* Inserted rows are numbered one by one after the greatest id of the table.
LEMMA InsertedIds ==
  ASSUME NEW R, Table(R), NEW P, Table(P)
  PROVE  /\ \A p \in Inserting(R, P) :
              /\ NewRow(R, P, p).id \in Nat
              /\ MaxId(R) < NewRow(R, P, p).id
              /\ NewRow(R, P, p).id <= MaxId(R) + Cardinality(P)
         /\ \A p, q \in Inserting(R, P) : NewRow(R, P, p).id = NewRow(R, P, q).id => p = q
<1> DEFINE I == Inserting(R, P)
           Upto(p) == {q \in I : q = p \/ Before(q, p)}
<1>1. MaxId(R) \in Nat /\ I \in SUBSET P
  BY DEF Table, Inserting, Usable
<1>2. IsFiniteSet(P) /\ Cardinality(P) \in Nat
  BY TableFinite, FS_CardinalityType
<1>4. \A p : NewRow(R, P, p).id = MaxId(R) + Cardinality(Upto(p))
  BY DEF NewRow
<1> HIDE DEF I
<1>3. \A p : IsFiniteSet(Upto(p)) /\ Cardinality(Upto(p)) \in Nat
             /\ Cardinality(Upto(p)) <= Cardinality(P)
  <2> SUFFICES ASSUME NEW p
               PROVE  IsFiniteSet(Upto(p)) /\ Cardinality(Upto(p)) \in Nat
                      /\ Cardinality(Upto(p)) <= Cardinality(P)
    OBVIOUS
  <2>1. Upto(p) \in SUBSET P
    BY <1>1
  <2> HIDE DEF Upto
  <2> QED
    BY <1>2, <2>1, FS_Subset, FS_CardinalityType
<1>5. ASSUME NEW p \in I PROVE Cardinality(Upto(p)) > 0
  <2>1. p \in Upto(p)
    OBVIOUS
  <2> HIDE DEF Upto
  <2>2. Cardinality(Upto(p)) # 0
    BY <1>3, <2>1, FS_EmptySet
  <2> QED
    BY <1>3, <2>2
<1>6. ASSUME NEW p \in I, NEW q \in I, Before(p, q)
      PROVE  Cardinality(Upto(p)) # Cardinality(Upto(q))
  <2>1. p # q /\ ~Before(q, p) /\ \A r \in I : Before(r, p) => Before(r, q)
    BY <1>1, <1>6, BeforeOrder
  <2>2. Upto(p) \in SUBSET Upto(q) /\ q \in Upto(q) /\ q \notin Upto(p)
    BY <1>6, <2>1
  <2> HIDE DEF Upto
  <2> QED
    BY <1>3, <2>2, FS_Subset
<1>7. ASSUME NEW p \in I, NEW q \in I, p # q PROVE Before(p, q) \/ Before(q, p)
  BY <1>1, <1>7, BeforeOrder
<1> HIDE DEF Upto
<1>8. ASSUME NEW p \in I
      PROVE  /\ NewRow(R, P, p).id \in Nat
             /\ MaxId(R) < NewRow(R, P, p).id
             /\ NewRow(R, P, p).id <= MaxId(R) + Cardinality(P)
  BY <1>1, <1>2, <1>3, <1>4, <1>5, <1>8
<1>9. ASSUME NEW p \in I, NEW q \in I, NewRow(R, P, p).id = NewRow(R, P, q).id, p # q
      PROVE  FALSE
  <2>1. Cardinality(Upto(p)) = Cardinality(Upto(q))
    BY <1>1, <1>3, <1>4, <1>9
  <2> QED
    BY <1>6, <1>7, <1>9, <2>1
<1> QED
  BY <1>8, <1>9 DEF I

\* An import keeps the keys of the table.
LEMMA ImportRulesTable ==
  ASSUME NEW R, Table(R), NEW P, Table(P)
  PROVE  Table(ImportRules(R, P))
<1> DEFINE A == ImportRules(R, P)
           Known == {x \in R : Key(x) \in Slots(P)}
           New == Inserting(R, P)
<1>1. R \in SUBSET Rows /\ P \in SUBSET Rows /\ MaxId(R) \in Nat
      /\ (\A r \in R : r.id <= MaxId(R))
      /\ (\A r, s \in R : r.id = s.id \/ Key(r) = Key(s) => r = s)
  BY DEF Table
<1>2. A = {NewState(P, r) : r \in Known} \cup {NewRow(R, P, p) : p \in New}
  BY ImportCases
<1>3. \A r \in Known : /\ NewState(P, r) \in Rows /\ NewState(P, r).id = r.id
                       /\ Key(NewState(P, r)) = Key(r)
  <2> SUFFICES ASSUME NEW r \in Known
               PROVE  /\ NewState(P, r) \in Rows /\ NewState(P, r).id = r.id
                      /\ Key(NewState(P, r)) = Key(r)
    OBVIOUS
  <2>1. r \in Rows
    BY <1>1
  <2>2. EnabledIn(P, Key(r)) \in BOOLEAN
    BY DEF EnabledIn
  <2> QED
    BY <2>1, <2>2 DEF NewState, Rows, Key
<1>4. New \in SUBSET P /\ \A p \in New : Slot(p) \notin Keys(R)
  BY DEF Inserting, Usable
<1>5. \A p, q \in New : Slot(p) = Slot(q) => p = q
  <2> SUFFICES ASSUME NEW p \in New, NEW q \in New, Slot(p) = Slot(q) PROVE p = q
    OBVIOUS
  <2>1. (q = p \/ Before(p, q)) /\ (p = q \/ Before(q, p))
    BY <1>4 DEF Inserting
  <2> QED
    BY <1>4, <2>1, BeforeOrder
<1>6. \A p \in New : /\ NewRow(R, P, p) \in Rows /\ Key(NewRow(R, P, p)) = Slot(p)
                     /\ NewRow(R, P, p).id > MaxId(R)
                     /\ NewRow(R, P, p).id <= MaxId(R) + Cardinality(P)
  <2> SUFFICES ASSUME NEW p \in New
               PROVE  /\ NewRow(R, P, p) \in Rows /\ Key(NewRow(R, P, p)) = Slot(p)
                      /\ NewRow(R, P, p).id > MaxId(R)
                      /\ NewRow(R, P, p).id <= MaxId(R) + Cardinality(P)
    OBVIOUS
  <2>1. NewRow(R, P, p).id \in Nat /\ MaxId(R) < NewRow(R, P, p).id
        /\ NewRow(R, P, p).id <= MaxId(R) + Cardinality(P)
    BY InsertedIds
  <2>2. NormalizeName(p.target) \in Names /\ p.action \in RuleActions
        /\ EnabledIn(P, Slot(p)) \in BOOLEAN
    BY <1>4, SlotFields
  <2>3. NewRow(R, P, p) \in Rows /\ Key(NewRow(R, P, p)) = Slot(p)
    BY <2>1, <2>2 DEF NewRow, Rows, Key, Slot
  <2> QED
    BY <1>1, <2>1, <2>3
<1>7. Cardinality(P) \in Nat
  BY TableFinite, FS_CardinalityType
<1> HIDE DEF New
<1>8. A \in SUBSET Rows
  BY <1>2, <1>3, <1>6
<1>9. \A r \in A : r.id <= MaxId(R) + Cardinality(P)
  <2>1. \A r \in Known : NewState(P, r).id <= MaxId(R) + Cardinality(P)
    BY <1>1, <1>3, <1>7, RowFields
  <2> QED
    BY <1>2, <1>6, <2>1
<1>10. MaxId(A) \in Nat /\ \A r \in A : r.id <= MaxId(A)
  BY <1>1, <1>7, <1>8, <1>9, MaxIdOfBounded
<1>11. ASSUME NEW a \in A, NEW b \in A, a.id = b.id \/ Key(a) = Key(b) PROVE a = b
  <2>1. CASE (\E r \in Known : a = NewState(P, r)) /\ (\E s \in Known : b = NewState(P, s))
    BY <1>1, <1>3, <1>11, <2>1
  <2>2. CASE (\E p \in New : a = NewRow(R, P, p)) /\ (\E q \in New : b = NewRow(R, P, q))
    <3>1. PICK p \in New : a = NewRow(R, P, p)
      BY <2>2
    <3>2. PICK q \in New : b = NewRow(R, P, q)
      BY <2>2
    <3>3. p = q
      <4>1. CASE a.id = b.id
        BY <3>1, <3>2, <4>1, InsertedIds DEF New
      <4>2. CASE Key(a) = Key(b)
        BY <1>5, <1>6, <3>1, <3>2, <4>2
      <4> QED
        BY <1>11, <4>1, <4>2
    <3> QED
      BY <3>1, <3>2, <3>3
  <2>3. ASSUME NEW r \in Known, NEW p \in New
        PROVE  NewState(P, r).id # NewRow(R, P, p).id /\ Key(NewState(P, r)) # Key(NewRow(R, P, p))
    <3>1. Key(r) \in Keys(R) /\ Slot(p) \notin Keys(R)
      BY <1>4 DEF Keys
    <3>2. r.id \in Nat /\ r.id <= MaxId(R) /\ NewRow(R, P, p).id > MaxId(R)
          /\ NewRow(R, P, p).id \in Nat
      BY <1>1, <1>6, RowFields, InsertedIds DEF New
    <3> QED
      BY <1>1, <1>3, <1>6, <3>1, <3>2
  <2> QED
    BY <1>2, <1>11, <2>1, <2>2, <2>3
<1> QED
  BY <1>8, <1>10, <1>11 DEF Table

\* Every slot of a payload has a first row.
LEMMA FirstOfSlot ==
  ASSUME NEW P, Table(P), NEW slot \in Slots(P)
  PROVE  \E p \in Usable(P) : /\ Slot(p) = slot
                              /\ \A q \in P : Slot(q) = slot => q = p \/ Before(p, q)
<1> DEFINE M == {p \in P : Slot(p) = slot}
           On == {p \in M : p.enabled}
           First(S, p) == \A q \in S : p.id <= q.id
<1>1. P \in SUBSET Rows /\ \A p, q \in P : p.id = q.id => p = q
  BY DEF Table
<1>2. \A p \in P : p.id \in Nat /\ p.enabled \in BOOLEAN
  BY <1>1, RowFields
<1>3. \A S \in SUBSET P : S # {} => \E p \in S : First(S, p)
  <2> SUFFICES ASSUME NEW S \in SUBSET P, S # {} PROVE \E p \in S : First(S, p)
    OBVIOUS
  <2> DEFINE ids == {p.id : p \in S}
  <2>1. ids \in SUBSET Nat /\ ids # {}
    BY <1>2
  <2>2. PICK n \in ids : \A m \in ids : n <= m
    BY <2>1, LeastNatural
  <2>3. PICK p \in S : p.id = n
    BY <2>2
  <2> QED
    BY <2>2, <2>3
<1>4. M \in SUBSET P /\ On \in SUBSET P /\ M # {} /\ M \in SUBSET Usable(P)
  <2>1. PICK p \in Usable(P) : Slot(p) = slot
    BY DEF Slots
  <2>2. \A q \in M : NormalizeName(q.target) = NormalizeName(p.target)
    BY <2>1 DEF Slot
  <2>3. \A q \in M : q \in Usable(P)
    BY <2>1, <2>2 DEF Usable
  <2> QED
    BY <2>1, <2>3 DEF Usable
<1>5. CASE On # {}
  <2>1. PICK p \in On : First(On, p)
    BY <1>3, <1>4, <1>5
  <2>2. ASSUME NEW q \in P, Slot(q) = slot PROVE q = p \/ Before(p, q)
    <3>1. q \in On \/ ~q.enabled
      BY <2>2
    <3>2. p \in P /\ p.enabled
      BY <2>1
    <3>3. CASE q \in On
      <4>1. p.id <= q.id /\ q.enabled /\ (p.id = q.id => p = q)
        BY <1>1, <2>1, <2>2, <3>2, <3>3
      <4>2. p.id \in Nat /\ q.id \in Nat
        BY <1>2, <2>2, <3>2
      <4> QED
        BY <3>2, <4>1, <4>2 DEF Before
    <3> QED
      BY <1>2, <3>1, <3>2, <3>3 DEF Before
  <2> QED
    BY <1>4, <2>1, <2>2
<1>6. CASE On = {}
  <2>1. PICK p \in M : First(M, p)
    BY <1>3, <1>4
  <2>2. ASSUME NEW q \in P, Slot(q) = slot PROVE q = p \/ Before(p, q)
    <3>1. q \in M /\ ~q.enabled /\ ~p.enabled /\ p \in P
      BY <1>6, <2>1, <2>2
    <3> QED
      BY <1>1, <1>2, <2>1, <3>1 DEF Before
  <2> QED
    BY <1>4, <2>1, <2>2
<1> QED
  BY <1>5, <1>6

\* After an import the table says what arrived.
LEMMA ImportRulesContent ==
  ASSUME NEW R, Table(R), NEW P, Table(P)
  PROVE  Content(ImportRules(R, P)) = Arrived(P)
<1> DEFINE Says(r) == [target |-> r.target, action |-> r.action, enabled |-> r.enabled]
           Item(k) == [target |-> k[1], action |-> k[2], enabled |-> EnabledIn(P, k)]
           Known == {x \in R : Key(x) \in Slots(P)}
           New == Inserting(R, P)
           A == ImportRules(R, P)
<1>1. A = {NewState(P, r) : r \in Known} \cup {NewRow(R, P, p) : p \in New}
  BY ImportCases
<1>2. \A r \in R : Says(NewState(P, r)) = Item(Key(r))
  <2> SUFFICES ASSUME NEW r \in R PROVE Says(NewState(P, r)) = Item(Key(r))
    OBVIOUS
  <2>1. r \in Rows
    BY DEF Table
  <2>2. NewState(P, r).target = r.target /\ NewState(P, r).action = r.action
        /\ NewState(P, r).enabled = EnabledIn(P, Key(r))
    BY <2>1 DEF NewState, Rows
  <2>3. Key(r)[1] = r.target /\ Key(r)[2] = r.action
    BY DEF Key
  <2> QED
    BY <2>2, <2>3
<1>3. \A p \in New : Says(NewRow(R, P, p)) = Item(Slot(p)) /\ Slot(p) \in Slots(P)
  <2> SUFFICES ASSUME NEW p \in New
               PROVE  Says(NewRow(R, P, p)) = Item(Slot(p)) /\ Slot(p) \in Slots(P)
    OBVIOUS
  <2>1. Slot(p)[1] = NormalizeName(p.target) /\ Slot(p)[2] = p.action
    BY DEF Slot
  <2>2. NewRow(R, P, p).target = NormalizeName(p.target) /\ NewRow(R, P, p).action = p.action
        /\ NewRow(R, P, p).enabled = EnabledIn(P, Slot(p))
    BY DEF NewRow
  <2>3. Slot(p) \in Slots(P)
    BY DEF Inserting, Slots
  <2> QED
    BY <2>1, <2>2, <2>3
<1>4. Content(A) = {Says(a) : a \in A} /\ Arrived(P) = {Item(k) : k \in Slots(P)}
  BY DEF Content, Arrived
<1> HIDE DEF Says, Item
<1>5. ASSUME NEW a \in A PROVE \E k \in Slots(P) : Says(a) = Item(k)
  BY <1>1, <1>2, <1>3
<1>6. ASSUME NEW k \in Slots(P) PROVE \E a \in A : Says(a) = Item(k)
  <2>1. CASE k \in Keys(R)
    <3>1. PICK r \in R : Key(r) = k
      BY <2>1 DEF Keys
    <3> QED
      BY <1>1, <1>2, <3>1
  <2>2. CASE k \notin Keys(R)
    <3>1. PICK p \in Usable(P) : /\ Slot(p) = k
                                 /\ \A q \in P : Slot(q) = k => q = p \/ Before(p, q)
      BY FirstOfSlot
    <3>2. p \in New
      BY <2>2, <3>1 DEF Inserting
    <3> QED
      BY <1>1, <1>3, <3>1, <3>2
  <2> QED
    BY <2>1, <2>2
<1> QED
  BY <1>4, <1>5, <1>6

-----------------------------------------------------------------------------
(* The invariant.                                                            *)

\* Its parts, by component.
RulesOK ==
  /\ rules \in [Nodes -> SUBSET Rows]
  /\ \A n \in Nodes : Table(rules[n])

CachesOK ==
  /\ shown \in [records : Nat, rules : SUBSET Rows]
  /\ held \in [records : SUBSET Nat, rules : SUBSET SUBSET Rows]
  /\ Table(shown.rules)
  /\ \A table \in held.rules : Table(table)

ExchangesOK ==
  /\ pc \in [Exchanges -> Steps]
  /\ payload \in [Exchanges -> Payloads]
  /\ \A x \in Exchanges : Table(payload[x].rules)

OthersOK ==
  /\ versions \in [Nodes -> [Versioned -> Nat]]
  /\ receiver \in BOOLEAN
  /\ edits \in 0..Len(Typed)

LEMMA PartsOf == IInv => RulesOK /\ CachesOK /\ ExchangesOK /\ OthersOK
BY DEF IInv, TypeOK, RulesOK, CachesOK, ExchangesOK, OthersOK

LEMMA WholeOf == RulesOK /\ CachesOK /\ ExchangesOK /\ OthersOK => IInv
<1>1. RulesOK => /\ \A n \in Nodes : \A r \in rules[n] : r \in Rows
                 /\ \A n \in Nodes : \A r, s \in rules[n] : r.id = s.id \/ Key(r) = Key(s) => r = s
  BY DEF RulesOK, Table
<1> QED
  BY <1>1 DEF IInv, TypeOK, RulesOK, CachesOK, ExchangesOK, OthersOK

LEMMA WholeAfter == RulesOK' /\ CachesOK' /\ ExchangesOK' /\ OthersOK' => IInv'
<1>1. RulesOK' => /\ \A n \in Nodes : \A r \in rules'[n] : r \in Rows
                  /\ \A n \in Nodes : \A r, s \in rules'[n] : r.id = s.id \/ Key(r) = Key(s) => r = s
  BY DEF RulesOK, Table
<1> QED
  BY <1>1 DEF IInv, TypeOK, RulesOK, CachesOK, ExchangesOK, OthersOK

\* An exchange that carries nothing.
LEMMA EmptyPayload == Empty \in Payloads /\ Empty.rules = {}
BY DEF Empty, Payloads, NewVersions

LEMMA InitIInv == Init => IInv
<1> SUFFICES ASSUME Init PROVE IInv
  OBVIOUS
<1>1. RulesOK
  BY EmptyTable DEF Init, RulesOK
<1>2. CachesOK
  BY EmptyTable DEF Init, CachesOK
<1>3. ExchangesOK
  BY EmptyTable, EmptyPayload DEF Init, ExchangesOK, Steps
<1>4. OthersOK
  <2>1. Len(Typed) \in Nat
    BY TypedAssumption
  <2> QED
    BY <2>1 DEF Init, OthersOK, NewVersions
<1> QED
  BY <1>1, <1>2, <1>3, <1>4, WholeOf

\* One more edit is still within the bound.
LEMMA EditCounted ==
  ASSUME edits \in 0..Len(Typed), edits < Len(Typed)
  PROVE  edits + 1 \in 0..Len(Typed) /\ edits + 1 \in Nat
BY TypedAssumption

\* An administrator's change of the rules of n to another table.
LEMMA EditKeeps ==
  ASSUME IInv, NEW n \in Nodes, NEW T, Table(T), Edit(n, T)
  PROVE  IInv'
<1>1. RulesOK /\ CachesOK /\ ExchangesOK /\ OthersOK
  BY PartsOf
<1>2. rules' = [rules EXCEPT ![n] = T] /\ edits < Len(Typed) /\ edits' = edits + 1
      /\ UNCHANGED <<versions, receiver, pc, payload>> /\ CacheRules(n, T)
  BY DEF Edit
<1>3. T \in SUBSET Rows /\ rules["primary"] \in SUBSET Rows /\ Table(rules["primary"])
  BY <1>1 DEF Table, RulesOK, Nodes
<1>4. RulesOK'
  BY <1>1, <1>2, <1>3 DEF RulesOK
<1>5. CachesOK'
  <2> DEFINE s == [shown EXCEPT !.rules = T]
             h == [held EXCEPT !.rules = @ \cup {rules["primary"]}]
  <2>1. shown' \in {shown, s} /\ held' \in {held, h}
    BY <1>2 DEF CacheRules, caches
  <2>2. s \in [records : Nat, rules : SUBSET Rows] /\ s.rules = T
    BY <1>1, <1>3 DEF CachesOK
  <2>3. h \in [records : SUBSET Nat, rules : SUBSET SUBSET Rows]
        /\ h.rules = held.rules \cup {rules["primary"]}
    BY <1>1, <1>3 DEF CachesOK
  <2> HIDE DEF s, h
  <2>4. shown' \in [records : Nat, rules : SUBSET Rows] /\ Table(shown'.rules)
    BY <1>1, <2>1, <2>2 DEF CachesOK
  <2>5. held' \in [records : SUBSET Nat, rules : SUBSET SUBSET Rows]
        /\ \A table \in held'.rules : Table(table)
    BY <1>1, <1>3, <2>1, <2>3 DEF CachesOK
  <2> QED
    BY <2>4, <2>5 DEF CachesOK
<1>6. ExchangesOK'
  BY <1>1, <1>2 DEF ExchangesOK
<1>7. OthersOK'
  <2>1. edits \in 0..Len(Typed)
    BY <1>1 DEF OthersOK
  <2>2. edits' \in 0..Len(Typed)
    BY <1>2, <2>1, EditCounted
  <2> QED
    BY <1>1, <1>2, <2>2 DEF OthersOK
<1> QED
  BY <1>4, <1>5, <1>6, <1>7, WholeAfter

\* A write to one of the other tables.
LEMMA OtherEditsKeep ==
  ASSUME IInv, NEW n \in Nodes, EditRecords(n) \/ EditSelected(n)
  PROVE  IInv'
<1>1. RulesOK /\ CachesOK /\ ExchangesOK /\ OthersOK
  BY PartsOf
<1>2. PICK t \in Versioned : EditVersion(n, t)
  BY DEF EditRecords, EditSelected, Versioned
<1>3. edits < MaxOtherEdits /\ edits' = edits + 1 /\ UNCHANGED <<rules, receiver, pc, payload>>
      /\ versions' = [versions EXCEPT ![n][t] = edits + 1]
  BY <1>2 DEF EditVersion
<1>4. edits' \in 0..Len(Typed) /\ edits + 1 \in Nat
  <2>1. edits \in 0..Len(Typed) /\ edits < Len(Typed)
    BY <1>1, <1>3, MaxOtherEditsAssumption, TypedAssumption DEF OthersOK
  <2> QED
    BY <1>3, <2>1, EditCounted
<1>5. RulesOK' /\ ExchangesOK'
  BY <1>1, <1>3 DEF RulesOK, ExchangesOK
<1>6. OthersOK'
  BY <1>1, <1>3, <1>4 DEF OthersOK
<1>7. CachesOK'
  <2>1. CASE EditSelected(n)
    BY <1>1, <2>1 DEF EditSelected, caches, CachesOK
  <2>2. CASE EditRecords(n)
    <3> DEFINE v == versions["primary"]["records"]
               s == [shown EXCEPT !.records = edits + 1]
               h == [held EXCEPT !.records = @ \cup {v}]
    <3>1. shown' \in {shown, s} /\ held' \in {held, h}
      BY <2>2 DEF EditRecords, CacheRecords, caches
    <3>2. v \in Nat
      BY <1>1 DEF OthersOK, Nodes, Versioned
    <3> HIDE DEF v
    <3>3. s \in [records : Nat, rules : SUBSET Rows] /\ s.rules = shown.rules
      BY <1>1, <1>4 DEF CachesOK
    <3>4. h \in [records : SUBSET Nat, rules : SUBSET SUBSET Rows] /\ h.rules = held.rules
      BY <1>1, <3>2 DEF CachesOK
    <3> HIDE DEF s, h
    <3> QED
      BY <1>1, <3>1, <3>3, <3>4 DEF CachesOK
  <2> QED
    BY <2>1, <2>2
<1> QED
  BY <1>5, <1>6, <1>7, WholeAfter

\* What happens to the caches between writes.
LEMMA CachesKeep ==
  ASSUME IInv, FreshRules \/ FreshRecords \/ PublishRules \/ PublishRecords
  PROVE  IInv'
<1>1. RulesOK /\ CachesOK /\ ExchangesOK /\ OthersOK
  BY PartsOf
<1>2. UNCHANGED <<rules, versions, receiver, pc, payload, edits>>
  BY DEF FreshRules, FreshRecords, PublishRules, PublishRecords, policy
<1>3. RulesOK' /\ ExchangesOK' /\ OthersOK'
  BY <1>1, <1>2 DEF RulesOK, ExchangesOK, OthersOK
<1>4. Table(rules["primary"]) /\ rules["primary"] \in SUBSET Rows
      /\ versions["primary"]["records"] \in Nat
  BY <1>1 DEF RulesOK, OthersOK, Nodes, Versioned
<1>5. CachesOK'
  <2>1. CASE FreshRules
    BY <1>1, <1>4, <2>1 DEF FreshRules, CachesOK
  <2>2. CASE FreshRecords
    BY <1>1, <1>4, <2>2 DEF FreshRecords, CachesOK
  <2>3. CASE PublishRules
    BY <1>1, <2>3 DEF PublishRules, CachesOK
  <2>4. CASE PublishRecords
    BY <1>1, <2>4 DEF PublishRecords, CachesOK
  <2> QED
    BY <2>1, <2>2, <2>3, <2>4
<1> QED
  BY <1>3, <1>5, WholeAfter

\* The steps of an exchange before it reaches the tables of the secondary, and
\* the ways in which it ends without an import.
LEMMA ExchangeKeeps ==
  ASSUME IInv, NEW x \in Exchanges,
         \/ StartPush(x) \/ Export(x)
         \/ ValidateHAImportAllowed(x) \/ RefuseImport(x) \/ PushFails(x)
  PROVE  IInv'
<1>1. RulesOK /\ CachesOK /\ ExchangesOK /\ OthersOK
  BY PartsOf
<1>2. UNCHANGED <<rules, versions, shown, held, receiver, edits>>
  BY DEF StartPush, Export, ExportRules, ExportSelected, ValidateHAImportAllowed,
         RefuseImport, PushFails, policy, caches
<1>3. RulesOK' /\ CachesOK' /\ OthersOK'
  BY <1>1, <1>2 DEF RulesOK, CachesOK, OthersOK
<1>4. /\ pc \in [Exchanges -> Steps] /\ payload \in [Exchanges -> Payloads]
      /\ \A y \in Exchanges : Table(payload[y].rules)
  BY <1>1 DEF ExchangesOK
<1>5. ExchangesOK'
  <2>1. CASE StartPush(x)
    <3>1. shown.records \in Nat
      BY <1>1 DEF CachesOK
    <3> QED
      BY <1>4, <2>1, <3>1 DEF StartPush, Payloads, Versioned, Steps, ExchangesOK
  <2>2. CASE ExportRules(x)
    <3>1. shown.rules \in SUBSET Rows /\ Table(shown.rules)
      BY <1>1 DEF CachesOK
    <3> QED
      BY <1>4, <2>2, <3>1 DEF ExportRules, Payloads, Steps, ExchangesOK
  <2>3. ASSUME NEW t \in Selected, ExportSelected(x, t) PROVE ExchangesOK'
    <3>1. versions["primary"][t] \in Nat
      BY <1>1, <2>3 DEF OthersOK, Nodes, Versioned
    <3>2. Following(t) \in Steps
      BY <2>3 DEF Following, Steps
    <3> QED
      BY <1>4, <2>3, <3>1, <3>2 DEF ExportSelected, Payloads, Versioned, ExchangesOK
  <2>4. CASE ValidateHAImportAllowed(x)
    BY <1>4, <2>4 DEF ValidateHAImportAllowed, Steps, ExchangesOK
  <2>5. CASE RefuseImport(x) \/ PushFails(x)
    BY <1>4, <2>5, EmptyTable, EmptyPayload DEF RefuseImport, PushFails, Finish, Steps, ExchangesOK
  <2> QED
    BY <2>1, <2>2, <2>3, <2>4, <2>5 DEF Export
<1> QED
  BY <1>3, <1>5, WholeAfter

\* The transaction of an import.
LEMMA ImportKeeps ==
  ASSUME IInv, NEW x \in Exchanges, ApplyHASyncPayload(x)
  PROVE  IInv'
<1>1. RulesOK /\ CachesOK /\ ExchangesOK /\ OthersOK
  BY PartsOf
<1> DEFINE T == ImportRules(rules["secondary"], payload[x].rules)
<1>2. "secondary" \in Nodes
  BY DEF Nodes
<1>3. Table(T) /\ T \in SUBSET Rows
  BY <1>1, <1>2, ImportRulesTable DEF Table, RulesOK, ExchangesOK
<1>4. /\ rules' = [rules EXCEPT !["secondary"] = T]
      /\ versions' = [versions EXCEPT !["secondary"] = payload[x].versions]
      /\ pc' = [pc EXCEPT ![x] = "idle"] /\ payload' = [payload EXCEPT ![x] = Empty]
      /\ UNCHANGED <<shown, held, receiver, edits>>
  BY DEF ApplyHASyncPayload, Finish, caches
<1> HIDE DEF T
<1>5. payload[x].versions \in [Versioned -> Nat]
  BY <1>1 DEF Payloads, ExchangesOK
<1>6. RulesOK'
  BY <1>1, <1>3, <1>4 DEF RulesOK
<1>7. CachesOK'
  BY <1>1, <1>4 DEF CachesOK
<1>8. ExchangesOK'
  BY <1>1, <1>4, EmptyTable, EmptyPayload DEF ExchangesOK, Steps
<1>9. OthersOK'
  BY <1>1, <1>4, <1>5 DEF OthersOK
<1> QED
  BY <1>6, <1>7, <1>8, <1>9, WholeAfter

LEMMA StepIInv == IInv /\ [Next]_vars => IInv'
<1> SUFFICES ASSUME IInv, [Next]_vars PROVE IInv'
  OBVIOUS
<1>1. ASSUME NEW n \in Editors, CreateRule(n) PROVE IInv'
  <2>1. n \in Nodes
    BY EditorsAssumption
  <2>2. PICK text \in Names, action \in RuleActions : Edit(n, AddRule(rules[n], text, action))
    BY <1>1 DEF CreateRule
  <2>3. Table(AddRule(rules[n], text, action))
    BY <2>1, AddRuleTable DEF IInv
  <2> QED
    BY <2>1, <2>2, <2>3, EditKeeps
<1>2. ASSUME NEW n \in Editors, ToggleRule(n) PROVE IInv'
  <2>1. n \in Nodes
    BY EditorsAssumption
  <2>2. PICK r \in rules[n] : Edit(n, SetRuleEnabled(rules[n], r.id, ~r.enabled))
    BY <1>2 DEF ToggleRule
  <2>3. Table(SetRuleEnabled(rules[n], r.id, ~r.enabled))
    BY <2>1, SetRuleEnabledTable DEF IInv
  <2> QED
    BY <2>1, <2>2, <2>3, EditKeeps
<1>3. ASSUME NEW n \in Editors, EditRecords(n) \/ EditSelected(n) PROVE IInv'
  BY <1>3, EditorsAssumption, OtherEditsKeep
<1>4. CASE FreshRules \/ FreshRecords \/ PublishRules \/ PublishRecords
  BY <1>4, CachesKeep
<1>5. CASE SaveHASettings \/ UNCHANGED vars
  <2>1. RulesOK /\ CachesOK /\ ExchangesOK /\ OthersOK
    BY PartsOf
  <2>2. UNCHANGED <<rules, versions, shown, held, pc, payload, edits>> /\ receiver' \in BOOLEAN
    BY <1>5, <2>1 DEF SaveHASettings, vars, policy, caches, OthersOK
  <2>3. RulesOK' /\ CachesOK' /\ ExchangesOK' /\ OthersOK'
    BY <2>1, <2>2 DEF RulesOK, CachesOK, ExchangesOK, OthersOK
  <2> QED
    BY <2>3, WholeAfter
<1>6. ASSUME NEW x \in Exchanges,
             \/ StartPush(x) \/ Export(x)
             \/ ValidateHAImportAllowed(x) \/ RefuseImport(x) \/ PushFails(x)
      PROVE  IInv'
  BY <1>6, ExchangeKeeps
<1>7. ASSUME NEW x \in Exchanges, ApplyHASyncPayload(x) PROVE IInv'
  BY <1>7, ImportKeeps
<1> QED
  BY <1>1, <1>2, <1>3, <1>4, <1>5, <1>6, <1>7 DEF Next

LEMMA AlwaysIInv == Spec => []IInv
<1> QED
  BY InitIInv, StepIInv, PTL DEF Spec

-----------------------------------------------------------------------------
(* The theorems.                                                             *)

\* Every table of rules keeps its primary key and its unique index through
\* AddRule, SetRuleEnabled and the upserts of ApplyHASyncPayload.
THEOREM TypeCorrect == Spec => []TypeOK
<1>1. IInv => TypeOK
  BY DEF IInv
<1> QED
  BY <1>1, AlwaysIInv, PTL

\* An import leaves exactly what its payload says, its names normalized once
\* more (ApplyHASyncPayload with deleteMissingRules), whatever ids and rows the
\* secondary had.
THEOREM ImportAuthoritative == Spec => ImportIsAuthoritative
<1>1. ASSUME IInv, NEW x \in Exchanges, ApplyHASyncPayload(x)
      PROVE  /\ Content(rules["secondary"])' = Arrived(payload[x].rules)
             /\ versions'["secondary"] = payload[x].versions
  <2>1. "secondary" \in Nodes
    BY DEF Nodes
  <2>2. RulesOK /\ ExchangesOK /\ OthersOK
    BY <1>1, PartsOf
  <2>3. Table(rules["secondary"]) /\ Table(payload[x].rules)
    BY <2>1, <2>2 DEF RulesOK, ExchangesOK
  <2>4. rules'["secondary"] = ImportRules(rules["secondary"], payload[x].rules)
        /\ versions'["secondary"] = payload[x].versions
    BY <1>1, <2>1, <2>2 DEF ApplyHASyncPayload, RulesOK, OthersOK
  <2>5. Content(rules'["secondary"]) = Arrived(payload[x].rules)
    BY <2>3, <2>4, ImportRulesContent
  <2>6. Content(rules["secondary"])' = Content(rules'["secondary"])
    BY DEF Content
  <2> QED
    BY <2>4, <2>5, <2>6
<1>2. IInv => [\A x \in Exchanges : ApplyHASyncPayload(x) =>
                  /\ Content(rules["secondary"])' = Arrived(payload[x].rules)
                  /\ versions'["secondary"] = payload[x].versions]_vars
  BY <1>1
<1> QED
  BY <1>2, AlwaysIInv, PTL DEF ImportIsAuthoritative

\* The rule that decides is an enabled one that matches.
LEMMA MatchRuleDecides ==
  ASSUME NEW R, Table(R), NEW q
  PROVE  LET hits == {r \in R : r.enabled /\ Matches(q, r.target)}
         IN  /\ hits = {} => MatchRule(R, q) = "none"
             /\ hits # {} => \E r \in hits : MatchRule(R, q) = r.action
<1> DEFINE hits == {r \in R : r.enabled /\ Matches(q, r.target)}
           ids == {r.id : r \in hits}
<1>1. CASE hits = {}
  BY <1>1 DEF MatchRule
<1>2. CASE hits # {}
  <2>1. R \in SUBSET Rows
    BY DEF Table
  <2>2. ids \in SUBSET Nat /\ ids # {}
    BY <1>2, <2>1, RowFields
  <2>3. PICK n \in ids : \A m \in ids : n <= m
    BY <2>2, LeastNatural
  <2>4. PICK r \in hits : r.id = n
    OBVIOUS
  <2>5. \A s \in hits : r.id <= s.id
    BY <2>3, <2>4
  <2> DEFINE first == CHOOSE s \in hits : \A t \in hits : s.id <= t.id
  <2>6. first \in hits
    BY <2>5
  <2>7. MatchRule(R, q) = first.action
    BY <1>2 DEF MatchRule
  <2> QED
    BY <1>2, <2>6, <2>7
<1> QED
  BY <1>1, <1>2

\* Nodes with the same rules decide a name alike unless enabled allow and
\* block rules compete for it (MatchRule on rows in the order of their ids).
THEOREM SyncedAgree == Spec => []SyncedAgreeUnlessConflict
<1>1. ASSUME IInv, SameContent, NEW q \in Names,
             \A r, s \in {x \in rules["primary"] : x.enabled /\ Matches(q, x.target)} :
                r.action = s.action
      PROVE  MatchRule(rules["primary"], q) = MatchRule(rules["secondary"], q)
  <2> DEFINE P == rules["primary"]
             S == rules["secondary"]
             hitsP == {x \in P : x.enabled /\ Matches(q, x.target)}
             hitsS == {x \in S : x.enabled /\ Matches(q, x.target)}
  <2>1. Table(P) /\ Table(S)
    BY <1>1 DEF IInv, Nodes
  <2>2. Content(P) = Content(S)
    BY <1>1 DEF SameContent
  <2>3. \A s \in S : \E p \in P : /\ p.target = s.target /\ p.action = s.action
                                  /\ p.enabled = s.enabled
    <3> SUFFICES ASSUME NEW s \in S
                 PROVE  \E p \in P : /\ p.target = s.target /\ p.action = s.action
                                     /\ p.enabled = s.enabled
      OBVIOUS
    <3>1. [target |-> s.target, action |-> s.action, enabled |-> s.enabled] \in Content(P)
      BY <2>2 DEF Content
    <3>2. PICK p \in P : [target |-> s.target, action |-> s.action, enabled |-> s.enabled]
                          = [target |-> p.target, action |-> p.action, enabled |-> p.enabled]
      BY <3>1 DEF Content
    <3> QED
      BY <3>2
  <2>4. \A p \in P : \E s \in S : /\ p.target = s.target /\ p.action = s.action
                                  /\ p.enabled = s.enabled
    <3> SUFFICES ASSUME NEW p \in P
                 PROVE  \E s \in S : /\ p.target = s.target /\ p.action = s.action
                                     /\ p.enabled = s.enabled
      OBVIOUS
    <3>1. [target |-> p.target, action |-> p.action, enabled |-> p.enabled] \in Content(S)
      BY <2>2 DEF Content
    <3>2. PICK s \in S : [target |-> p.target, action |-> p.action, enabled |-> p.enabled]
                          = [target |-> s.target, action |-> s.action, enabled |-> s.enabled]
      BY <3>1 DEF Content
    <3> QED
      BY <3>2
  <2>5. \A s \in hitsS : \E p \in hitsP : p.action = s.action
    BY <2>3
  <2>6. hitsP = {} <=> hitsS = {}
    BY <2>4, <2>5
  <2>7. CASE hitsP = {}
    BY <2>1, <2>6, <2>7, MatchRuleDecides
  <2>8. CASE hitsP # {}
    <3>1. PICK p \in hitsP : MatchRule(P, q) = p.action
      BY <2>1, <2>8, MatchRuleDecides
    <3>2. PICK s \in hitsS : MatchRule(S, q) = s.action
      BY <2>1, <2>6, <2>8, MatchRuleDecides
    <3> QED
      BY <1>1, <2>5, <3>1, <3>2
  <2> QED
    BY <2>7, <2>8
<1>2. IInv => SyncedAgreeUnlessConflict
  BY <1>1 DEF SyncedAgreeUnlessConflict
<1> QED
  BY <1>2, AlwaysIInv, PTL

-----------------------------------------------------------------------------
(* Refinement: every step of HASync is a step of PolicyReplica or stutters.  *)

Kinds == Versioned \cup {"rules"}

\* What PolicyReplica sees, table by table.
ContentOf(n, t) ==
  IF t # "rules" THEN versions[n][t]
  ELSE IF n = "primary" THEN Arrived(rules[n]) ELSE Content(rules[n])

SeenOf(t) ==
  IF t = "rules" THEN {Arrived(table) : table \in {shown.rules} \cup held.rules}
  ELSE IF t = "records" THEN {shown.records} \cup held.records
  ELSE {versions["primary"][t]}

ParcelOf(x, t) == IF t = "rules" THEN Arrived(payload[x].rules) ELSE payload[x].versions[t]

\* What PolicyReplica sees as a whole.
Policies == [n \in Nodes |->
  Abstract(IF n = "primary" THEN Arrived(rules[n]) ELSE Content(rules[n]), versions[n])]

Seen == [t \in Versioned \cup {"rules"} |->
  IF t = "rules" THEN {Arrived(table) : table \in {shown.rules} \cup held.rules}
  ELSE IF t = "records" THEN {shown.records} \cup held.records
  ELSE {versions["primary"][t]}]

PickedUp == [x \in Exchanges |-> Picked(pc[x])]

Parcels == [x \in Exchanges |-> Abstract(Arrived(payload[x].rules), payload[x].versions)]

\* Both views agree.
LEMMA Views ==
  /\ Policies = [n \in Nodes |-> [t \in Kinds |-> ContentOf(n, t)]]
  /\ Seen = [t \in Kinds |-> SeenOf(t)]
  /\ Parcels = [x \in Exchanges |-> [t \in Kinds |-> ParcelOf(x, t)]]
BY DEF Policies, Seen, Parcels, Abstract, ContentOf, SeenOf, ParcelOf, Kinds

LEMMA ViewsAfter ==
  /\ Policies' = [n \in Nodes |-> [t \in Kinds |-> ContentOf(n, t)']]
  /\ Seen' = [t \in Kinds |-> SeenOf(t)']
  /\ Parcels' = [x \in Exchanges |-> [t \in Kinds |-> ParcelOf(x, t)']]
BY DEF Policies, Seen, Parcels, Abstract, ContentOf, SeenOf, ParcelOf, Kinds

LEMMA KindsAreTables == Kinds = Replica!Tables
BY DEF Kinds, Versioned, Selected, Replica!Tables

\* A step that changes table t of node n and no other.
LEMMA OneTable ==
  ASSUME NEW n \in Nodes, NEW t \in Kinds,
         \A m \in Nodes, u \in Kinds : m # n \/ u # t => ContentOf(m, u)' = ContentOf(m, u)
  PROVE  Policies' = [Policies EXCEPT ![n][t] = Policies'[n][t]]
<1> DEFINE P == [m \in Nodes |-> [u \in Kinds |-> ContentOf(m, u)]]
           Q == [m \in Nodes |-> [u \in Kinds |-> ContentOf(m, u)']]
<1>1. Policies = P /\ Policies' = Q
  BY Views, ViewsAfter
<1>2. Q = [P EXCEPT ![n][t] = Q[n][t]]
  BY Zenon
<1> QED
  BY <1>1, <1>2

\* A step after which readers of t get other contents, and only those of t.
LEMMA ReadReplica ==
  ASSUME NEW t \in Kinds, UNCHANGED <<pc, payload>>,
         \A u \in Kinds : u # t => SeenOf(u)' = SeenOf(u),
         SeenOf(t)' \subseteq SeenOf(t) \cup {ContentOf("primary", t), ContentOf("primary", t)'}
  PROVE  Replica!Read(t)
<1>1. UNCHANGED <<PickedUp, Parcels>>
  BY DEF PickedUp, Parcels
<1>2. Seen' = [Seen EXCEPT ![t] = Seen'[t]]
  BY Views, ViewsAfter
<1>3. Seen'[t] \subseteq Seen[t] \cup {Policies["primary"][t], Policies'["primary"][t]}
  BY Views, ViewsAfter DEF Nodes
<1> QED
  BY <1>1, <1>2, <1>3 DEF Replica!Read, Policies, Seen, PickedUp, Parcels

LEMMA InitialAbstract == Abstract(Arrived({}), NewVersions) = Replica!Initial
<1>1. Arrived({}) = {}
  BY DEF Arrived, Slots, Usable
<1> QED
  BY <1>1 DEF Abstract, NewVersions, Versioned, Selected, Replica!Initial, Replica!Tables

LEMMA InitReplica == Init => Replica!Init
<1> SUFFICES ASSUME Init PROVE Replica!Init
  OBVIOUS
<1>1. Arrived({}) = {} /\ Content({}) = {}
  BY DEF Arrived, Slots, Usable, Content
<1>2. Policies = [n \in Nodes |-> Replica!Initial]
  BY <1>1, InitialAbstract DEF Init, Policies
<1>3. Seen = [t \in Replica!Tables |-> {Replica!Initial[t]}]
  <2>1. \A t \in Kinds : SeenOf(t) = {Replica!Initial[t]}
    BY <1>1 DEF Init, SeenOf, Kinds, NewVersions, Versioned, Selected, Nodes,
                Replica!Initial, Replica!Tables
  <2> QED
    BY <2>1, Views, KindsAreTables
<1>4. PickedUp = [x \in Exchanges |-> {}]
  BY DEF Init, PickedUp, Picked
<1>5. Parcels = [x \in Exchanges |-> Replica!Initial]
  BY InitialAbstract DEF Init, Parcels, Empty
<1> QED
  BY <1>2, <1>3, <1>4, <1>5
     DEF Replica!Init, Replica!Nodes, Nodes, Policies, Seen, PickedUp, Parcels

\* An edit changes one table of one node, and what readers of it get, and no
\* parcel.
LEMMA EditReplica ==
  ASSUME IInv, NEW n \in Nodes,
         CreateRule(n) \/ ToggleRule(n) \/ EditRecords(n) \/ EditSelected(n)
  PROVE  \E t \in Replica!Tables : Replica!Administer(n, t)
<1>1. RulesOK /\ CachesOK /\ OthersOK
  BY PartsOf
<1> SUFFICES \E t \in Kinds : Replica!Read(t) /\ Policies' = [Policies EXCEPT ![n][t] = Policies'[n][t]]
  BY KindsAreTables DEF Replica!Administer, Policies
<1>2. UNCHANGED <<pc, payload>>
  BY DEF CreateRule, ToggleRule, Edit, EditRecords, EditSelected, EditVersion
<1>3. ASSUME NEW T, Edit(n, T)
      PROVE  Replica!Read("rules")
             /\ Policies' = [Policies EXCEPT ![n]["rules"] = Policies'[n]["rules"]]
  <2>1. UNCHANGED versions /\ (\A m \in Nodes : m # n => rules'[m] = rules[m])
        /\ (n = "primary" => rules'["primary"] = T)
    BY <1>1, <1>3 DEF Edit, RulesOK
  <2>2. "rules" \in Kinds /\ \A u \in Kinds : u # "rules" => u \in Versioned
    BY DEF Kinds
  <2>3. \A m \in Nodes, u \in Kinds : m # n \/ u # "rules" => ContentOf(m, u)' = ContentOf(m, u)
    BY <2>1 DEF ContentOf
  <2>4. /\ shown'.records = shown.records /\ held'.records = held.records
        /\ {shown'.rules} \cup held'.rules
             \subseteq {shown.rules} \cup held.rules \cup {rules["primary"], rules'["primary"]}
    <3>1. CacheRules(n, T)
      BY <1>3 DEF Edit
    <3>2. CASE n # "primary"
      BY <3>1, <3>2 DEF CacheRules, caches
    <3>3. CASE n = "primary"
      <4> DEFINE s == [shown EXCEPT !.rules = T]
                 h == [held EXCEPT !.rules = @ \cup {rules["primary"]}]
      <4>1. shown' \in {shown, s} /\ held' \in {held, h}
        BY <3>1, <3>3 DEF CacheRules
      <4>2. s.records = shown.records /\ s.rules = T
            /\ h.records = held.records /\ h.rules = held.rules \cup {rules["primary"]}
        BY <1>1 DEF CachesOK
      <4> HIDE DEF s, h
      <4> QED
        BY <2>1, <3>3, <4>1, <4>2
    <3> QED
      BY <3>2, <3>3
  <2>5. \A u \in Kinds : u # "rules" => SeenOf(u)' = SeenOf(u)
    BY <2>1, <2>4 DEF SeenOf
  <2>6. SeenOf("rules")' \subseteq
           SeenOf("rules") \cup {ContentOf("primary", "rules"), ContentOf("primary", "rules")'}
    <3>1. SeenOf("rules") = {Arrived(table) : table \in {shown.rules} \cup held.rules}
          /\ SeenOf("rules")' = {Arrived(table) : table \in {shown'.rules} \cup held'.rules}
          /\ ContentOf("primary", "rules") = Arrived(rules["primary"])
          /\ ContentOf("primary", "rules")' = Arrived(rules'["primary"])
      BY DEF SeenOf, ContentOf, Arrived, Slots, Usable, EnabledIn
    <3> QED
      BY <2>4, <3>1
  <2> QED
    BY <1>2, <2>2, <2>3, <2>5, <2>6, ReadReplica, OneTable
<1>4. CASE CreateRule(n) \/ ToggleRule(n)
  <2>1. PICK T : Edit(n, T)
    BY <1>4 DEF CreateRule, ToggleRule
  <2>2. "rules" \in Kinds
    BY DEF Kinds
  <2> QED
    BY <1>3, <2>1, <2>2
<1>5. ASSUME NEW t \in Versioned, EditVersion(n, t)
      PROVE  /\ t \in Kinds
             /\ UNCHANGED rules
             /\ \A m \in Nodes, u \in Kinds : m # n \/ u # t => ContentOf(m, u)' = ContentOf(m, u)
  <2>1. UNCHANGED rules /\ versions' = [versions EXCEPT ![n][t] = edits + 1]
    BY <1>5 DEF EditVersion
  <2>2. \A m \in Nodes, u \in Versioned : m # n \/ u # t => versions'[m][u] = versions[m][u]
    BY <1>1, <2>1 DEF OthersOK
  <2>3. \A u \in Kinds : u # "rules" => u \in Versioned
    BY DEF Kinds
  <2>4. \A m \in Nodes, u \in Kinds : m # n \/ u # t => ContentOf(m, u)' = ContentOf(m, u)
    BY <2>1, <2>2, <2>3 DEF ContentOf
  <2> QED
    BY <2>1, <2>4 DEF Kinds
<1>6. ASSUME NEW t \in Selected, EditVersion(n, t), UNCHANGED caches
      PROVE  Replica!Read(t) /\ t \in Kinds
  <2>1. t \in Versioned /\ t # "records" /\ t # "rules" /\ "primary" \in Nodes
    BY <1>6 DEF Versioned, Selected, Nodes
  <2>2. t \in Kinds /\ UNCHANGED rules
        /\ \A m \in Nodes, u \in Kinds : m # n \/ u # t => ContentOf(m, u)' = ContentOf(m, u)
    BY <1>5, <1>6, <2>1
  <2>3. \A u \in Kinds : u # "rules" => ContentOf("primary", u) = versions["primary"][u]
                                       /\ ContentOf("primary", u)' = versions'["primary"][u]
    BY DEF ContentOf
  <2>4. \A u \in Kinds : u # t => SeenOf(u)' = SeenOf(u)
    BY <1>6, <2>1, <2>2, <2>3 DEF SeenOf, caches
  <2>5. SeenOf(t)' = {ContentOf("primary", t)'}
    BY <2>1, <2>2, <2>3 DEF SeenOf
  <2> QED
    BY <1>2, <2>2, <2>4, <2>5, ReadReplica
<1>7. CASE EditSelected(n)
  <2>1. PICK t \in Selected : EditVersion(n, t) /\ UNCHANGED caches
    BY <1>7 DEF EditSelected
  <2>2. t \in Versioned
    BY DEF Versioned
  <2> QED
    BY <1>5, <1>6, <2>1, <2>2, OneTable
<1>8. CASE EditRecords(n)
  <2>1. EditVersion(n, "records") /\ CacheRecords(n, edits + 1) /\ "records" \in Versioned
    BY <1>8 DEF EditRecords, Versioned
  <2>2. "records" \in Kinds /\ UNCHANGED rules
        /\ \A m \in Nodes, u \in Kinds : m # n \/ u # "records" => ContentOf(m, u)' = ContentOf(m, u)
    BY <1>5, <2>1
  <2> DEFINE v == versions["primary"]["records"]
             w == versions'["primary"]["records"]
  <2>3. /\ shown'.rules = shown.rules /\ held'.rules = held.rules
        /\ {shown'.records} \cup held'.records \subseteq {shown.records} \cup held.records \cup {v, w}
    <3>1. CASE n # "primary"
      BY <2>1, <3>1 DEF CacheRecords, caches
    <3>2. CASE n = "primary"
      <4> DEFINE s == [shown EXCEPT !.records = edits + 1]
                 h == [held EXCEPT !.records = @ \cup {v}]
      <4>1. shown' \in {shown, s} /\ held' \in {held, h}
        BY <2>1, <3>2 DEF CacheRecords
      <4>2. s.records = edits + 1 /\ s.rules = shown.rules
            /\ h.records = held.records \cup {v} /\ h.rules = held.rules
        BY <1>1 DEF CachesOK
      <4>3. w = edits + 1
        BY <1>1, <2>1, <3>2 DEF EditVersion, OthersOK
      <4> HIDE DEF s, h, v, w
      <4> QED
        BY <4>1, <4>2, <4>3
    <3> QED
      BY <3>1, <3>2
  <2>4. \A u \in Kinds : u # "rules" => ContentOf("primary", u) = versions["primary"][u]
                                       /\ ContentOf("primary", u)' = versions'["primary"][u]
    BY DEF ContentOf
  <2>5. \A u \in Kinds : u # "records" => SeenOf(u)' = SeenOf(u)
    <3>1. "primary" \in Nodes
      BY DEF Nodes
    <3> QED
      BY <2>2, <2>3, <2>4, <3>1 DEF SeenOf
  <2>6. SeenOf("records")' \subseteq
           SeenOf("records") \cup {ContentOf("primary", "records"), ContentOf("primary", "records")'}
    BY <2>2, <2>3, <2>4 DEF SeenOf
  <2> QED
    BY <1>2, <2>2, <2>5, <2>6, ReadReplica, OneTable
<1> QED
  BY <1>4, <1>7, <1>8

\* What happens to a cache changes what readers get to the present table or to
\* one they might have got before.
LEMMA CachesReplica ==
  ASSUME IInv, FreshRules \/ FreshRecords \/ PublishRules \/ PublishRecords
  PROVE  \E t \in Replica!Tables : Replica!Reload(t)
<1>1. CachesOK
  BY PartsOf
<1>2. UNCHANGED <<rules, versions, pc, payload>>
  BY DEF FreshRules, FreshRecords, PublishRules, PublishRecords, policy
<1>3. UNCHANGED Policies
  BY <1>2 DEF Policies
<1> SUFFICES \E t \in Kinds : Replica!Read(t)
  BY <1>3, KindsAreTables DEF Replica!Reload, Policies
<1>4. CASE FreshRules \/ PublishRules
  <2>1. /\ shown'.records = shown.records /\ held'.records = held.records
        /\ {shown'.rules} \cup held'.rules \subseteq {shown.rules} \cup held.rules \cup {rules["primary"]}
    BY <1>1, <1>4 DEF FreshRules, PublishRules, CachesOK
  <2>2. \A u \in Kinds : u # "rules" => SeenOf(u)' = SeenOf(u)
    BY <1>2, <2>1 DEF SeenOf
  <2>3. SeenOf("rules")' \subseteq
           SeenOf("rules") \cup {ContentOf("primary", "rules"), ContentOf("primary", "rules")'}
    <3>1. SeenOf("rules") = {Arrived(table) : table \in {shown.rules} \cup held.rules}
          /\ SeenOf("rules")' = {Arrived(table) : table \in {shown'.rules} \cup held'.rules}
          /\ ContentOf("primary", "rules") = Arrived(rules["primary"])
      BY DEF SeenOf, ContentOf, Arrived, Slots, Usable, EnabledIn
    <3> QED
      BY <2>1, <3>1
  <2>4. "rules" \in Kinds
    BY DEF Kinds
  <2> QED
    BY <1>2, <2>2, <2>3, <2>4, ReadReplica
<1>5. CASE FreshRecords \/ PublishRecords
  <2> DEFINE v == versions["primary"]["records"]
  <2>1. /\ shown'.rules = shown.rules /\ held'.rules = held.rules
        /\ {shown'.records} \cup held'.records \subseteq {shown.records} \cup held.records \cup {v}
    BY <1>1, <1>5 DEF FreshRecords, PublishRecords, CachesOK
  <2>2. \A u \in Kinds : u # "records" => SeenOf(u)' = SeenOf(u)
    BY <1>2, <2>1 DEF SeenOf
  <2>3. SeenOf("records")' \subseteq
           SeenOf("records") \cup {ContentOf("primary", "records"), ContentOf("primary", "records")'}
    BY <2>1 DEF SeenOf, ContentOf
  <2>4. "records" \in Kinds
    BY DEF Kinds, Versioned
  <2> QED
    BY <1>2, <2>2, <2>3, <2>4, ReadReplica
<1> QED
  BY <1>4, <1>5

\* A step of the export of x that puts a content of t into the payload.
LEMMA PickUpReplica ==
  ASSUME NEW x \in Exchanges, NEW t \in Kinds,
         UNCHANGED <<rules, versions, shown, held>>,
         pc \in [Exchanges -> Steps],
         \A y \in Exchanges : y # x => pc'[y] = pc[y] /\ payload'[y] = payload[y],
         t \notin Picked(pc[x]), Picked(pc'[x]) = Picked(pc[x]) \cup {t},
         ParcelOf(x, t)' \in SeenOf(t),
         \A u \in Kinds : u # t => ParcelOf(x, u)' = ParcelOf(x, u)
  PROVE  Replica!PickUp(x, t)
<1>1. UNCHANGED <<Policies, Seen>>
  BY DEF Policies, Seen
<1>2. t \notin PickedUp[x] /\ PickedUp' = [PickedUp EXCEPT ![x] = @ \cup {t}]
  BY DEF PickedUp
<1>3. \A y \in Exchanges, u \in Kinds : y # x => ParcelOf(y, u)' = ParcelOf(y, u)
  BY DEF ParcelOf
<1>4. Parcels' = [Parcels EXCEPT ![x][t] = ParcelOf(x, t)']
  <2> DEFINE P == [y \in Exchanges |-> [u \in Kinds |-> ParcelOf(y, u)]]
             Q == [y \in Exchanges |-> [u \in Kinds |-> ParcelOf(y, u)']]
  <2>1. Parcels = P /\ Parcels' = Q
    BY Views, ViewsAfter
  <2>2. Q = [P EXCEPT ![x][t] = ParcelOf(x, t)']
    BY <1>3, Zenon
  <2> QED
    BY <2>1, <2>2
<1>5. \E content \in Seen[t] : Parcels' = [Parcels EXCEPT ![x][t] = content]
  BY <1>4, Views
<1> QED
  BY <1>1, <1>2, <1>5 DEF Replica!PickUp, Policies, Seen, PickedUp, Parcels

\* Each read of an export picks up one table of the primary, as readers get it.
LEMMA ExportReplica ==
  ASSUME IInv, NEW x \in Exchanges, StartPush(x) \/ Export(x)
  PROVE  \E t \in Replica!Tables : Replica!PickUp(x, t)
<1>1. pc \in [Exchanges -> Steps] /\ payload \in [Exchanges -> Payloads]
  BY PartsOf DEF ExchangesOK
<1>2. UNCHANGED <<rules, versions, shown, held>>
  BY DEF StartPush, Export, ExportRules, ExportSelected, policy, caches
<1>3. \A y \in Exchanges : y # x => pc'[y] = pc[y] /\ payload'[y] = payload[y]
  BY <1>1 DEF StartPush, Export, ExportRules, ExportSelected
<1> SUFFICES \E t \in Kinds : Replica!PickUp(x, t)
  BY KindsAreTables
<1>4. ASSUME NEW t \in Versioned, NEW v,
             payload' = [payload EXCEPT ![x].versions[t] = v]
      PROVE  /\ t \in Kinds /\ ParcelOf(x, t)' = v
             /\ \A u \in Kinds : u # t => ParcelOf(x, u)' = ParcelOf(x, u)
  <2>1. payload'[x].rules = payload[x].rules
        /\ payload'[x].versions = [payload[x].versions EXCEPT ![t] = v]
        /\ payload[x].versions \in [Versioned -> Nat]
    BY <1>1, <1>4 DEF Payloads
  <2>2. t # "rules" /\ \A u \in Kinds : u # "rules" => u \in Versioned
    BY DEF Kinds, Versioned, Selected
  <2>3. ParcelOf(x, t)' = v
    BY <2>1, <2>2 DEF ParcelOf
  <2>4. \A u \in Kinds : u # t => ParcelOf(x, u)' = ParcelOf(x, u)
    BY <2>1, <2>2 DEF ParcelOf
  <2> QED
    BY <2>3, <2>4 DEF Kinds
<1>5. CASE StartPush(x)
  <2>1. payload' = [payload EXCEPT ![x].versions["records"] = shown.records]
        /\ pc[x] = "idle" /\ pc'[x] = "rules"
    BY <1>1, <1>5 DEF StartPush
  <2>2. "records" \notin Picked(pc[x]) /\ Picked(pc'[x]) = Picked(pc[x]) \cup {"records"}
    BY <2>1 DEF Picked
  <2>3. shown.records \in SeenOf("records") /\ "records" \in Versioned
    BY DEF SeenOf, Versioned
  <2>4. /\ "records" \in Kinds /\ ParcelOf(x, "records")' = shown.records
        /\ \A u \in Kinds : u # "records" => ParcelOf(x, u)' = ParcelOf(x, u)
    BY <1>4, <2>1, <2>3
  <2>5. Replica!PickUp(x, "records")
    BY <1>1, <1>2, <1>3, <2>2, <2>3, <2>4, PickUpReplica
  <2> QED
    BY <2>4, <2>5
<1>6. CASE ExportRules(x)
  <2>1. payload'[x].rules = shown.rules /\ payload'[x].versions = payload[x].versions
        /\ pc[x] = "rules" /\ pc'[x] = "presets"
    BY <1>1, <1>6 DEF ExportRules, Payloads
  <2>2. "rules" \notin Picked(pc[x]) /\ Picked(pc'[x]) = Picked(pc[x]) \cup {"rules"}
    BY <2>1 DEF Picked
  <2>3. ParcelOf(x, "rules")' \in SeenOf("rules") /\ "rules" \in Kinds
    <3>1. ParcelOf(x, "rules")' = Arrived(shown.rules)
      BY <2>1 DEF ParcelOf, Arrived, Slots, Usable, EnabledIn
    <3> QED
      BY <3>1 DEF SeenOf, Kinds
  <2>4. \A u \in Kinds : u # "rules" => ParcelOf(x, u)' = ParcelOf(x, u)
    BY <2>1 DEF ParcelOf
  <2> QED
    BY <1>1, <1>2, <1>3, <2>2, <2>3, <2>4, PickUpReplica
<1>7. ASSUME NEW t \in Selected, ExportSelected(x, t) PROVE Replica!PickUp(x, t) /\ t \in Kinds
  <2>1. payload' = [payload EXCEPT ![x].versions[t] = versions["primary"][t]]
        /\ pc[x] = t /\ pc'[x] = Following(t)
    BY <1>1, <1>7 DEF ExportSelected
  <2>2. t \notin Picked(pc[x]) /\ Picked(pc'[x]) = Picked(pc[x]) \cup {t}
    BY <1>7, <2>1 DEF Picked, Following, Selected
  <2>3. versions["primary"][t] \in SeenOf(t) /\ t \in Versioned
    BY <1>7 DEF SeenOf, Versioned, Selected
  <2> QED
    BY <1>1, <1>2, <1>3, <1>4, <2>1, <2>2, <2>3, PickUpReplica
<1> QED
  BY <1>5, <1>6, <1>7 DEF Export, Kinds

\* A finished exchange is an empty parcel again.
LEMMA FinishReplica ==
  ASSUME IInv, NEW x \in Exchanges, pc[x] \in {"sent", "validated"}, Finish(x),
         UNCHANGED caches, versions'["primary"] = versions["primary"]
  PROVE  Replica!Discard(x) /\ Picked(pc[x]) = Replica!Tables
<1>1. pc \in [Exchanges -> Steps] /\ payload \in [Exchanges -> Payloads]
  BY PartsOf DEF ExchangesOK
<1>2. \A y \in Exchanges : y # x => pc'[y] = pc[y] /\ payload'[y] = payload[y]
  BY <1>1 DEF Finish
<1>3. pc'[x] = "idle" /\ payload'[x] = Empty
  BY <1>1 DEF Finish
<1>4. Picked(pc'[x]) = {} /\ Picked(pc[x]) = Replica!Tables
  BY <1>3 DEF Picked, Replica!Tables
<1>5. Abstract(Arrived(payload'[x].rules), payload'[x].versions) = Replica!Initial
  BY <1>3, InitialAbstract DEF Empty
<1>6. UNCHANGED Seen
  BY DEF Seen, caches
<1>7. PickedUp[x] # {} /\ PickedUp' = [PickedUp EXCEPT ![x] = {}]
  BY <1>2, <1>4 DEF PickedUp, Replica!Tables
<1>8. Parcels' = [Parcels EXCEPT ![x] = Replica!Initial]
  BY <1>2, <1>5 DEF Parcels
<1>9. Replica!Discard(x)
  BY <1>6, <1>7, <1>8 DEF Replica!Discard, Seen, PickedUp, Parcels
<1> QED
  BY <1>4, <1>9

LEMMA LostReplica ==
  ASSUME IInv, NEW x \in Exchanges, RefuseImport(x) \/ PushFails(x)
  PROVE  Replica!Lose(x)
<1>1. pc[x] \in {"sent", "validated"} /\ Finish(x) /\ UNCHANGED caches
  BY DEF RefuseImport, PushFails
<1>2. UNCHANGED <<rules, versions>>
  BY DEF RefuseImport, PushFails, policy
<1>3. Replica!Discard(x)
  BY <1>1, <1>2, FinishReplica
<1> QED
  BY <1>2, <1>3 DEF Replica!Lose

\* An import delivers: row ids differ from the payload's, what the rules say
\* does not.
LEMMA ImportReplica ==
  ASSUME IInv, NEW x \in Exchanges, ApplyHASyncPayload(x)
  PROVE  Replica!Deliver(x)
<1>1. RulesOK /\ ExchangesOK /\ OthersOK
  BY PartsOf
<1>2. pc[x] \in {"sent", "validated"} /\ Finish(x) /\ UNCHANGED caches
  BY DEF ApplyHASyncPayload
<1>3. "primary" \in Nodes /\ "secondary" \in Nodes
  BY DEF Nodes
<1>4. rules'["secondary"] = ImportRules(rules["secondary"], payload[x].rules)
      /\ versions'["secondary"] = payload[x].versions
  BY <1>1, <1>3 DEF ApplyHASyncPayload, RulesOK, OthersOK
<1>5. \A n \in Nodes : n # "secondary" => rules'[n] = rules[n] /\ versions'[n] = versions[n]
  BY <1>1 DEF ApplyHASyncPayload, RulesOK, OthersOK
<1>6. Replica!Discard(x) /\ Picked(pc[x]) = Replica!Tables
  BY <1>2, <1>3, <1>5, FinishReplica
<1>7. Content(rules'["secondary"]) = Arrived(payload[x].rules)
  BY <1>1, <1>3, <1>4, ImportRulesContent DEF RulesOK, ExchangesOK
<1>8. Policies'["secondary"] = Parcels[x]
  BY <1>3, <1>4, <1>7 DEF Policies, Parcels
<1>9. Policies' = [Policies EXCEPT !["secondary"] = Parcels[x]]
  <2>1. \A n \in Nodes : n # "secondary" => Policies'[n] = Policies[n]
    BY <1>5 DEF Policies
  <2> QED
    BY <1>8, <2>1 DEF Policies
<1>10. PickedUp[x] = Replica!Tables
  BY <1>6 DEF PickedUp
<1> QED
  BY <1>6, <1>9, <1>10 DEF Replica!Deliver, Policies, PickedUp, Parcels

\* HASync implements PolicyReplica: under every interleaving of edits, role
\* changes, overlapping exports, failed posts and cache loads that a write
\* overtakes, the secondary's policy only changes by its administrator or by
\* one complete parcel, in which each table is what a reader of the primary got
\* when the export asked: the table, or, for static records and rules, rows of
\* an earlier table that a load left in the cache (ExportHASyncPayload,
\* pushHASync, haImport, ApplyHASyncPayload).
THEOREM ReplicaImplemented == Spec => ImplementsReplica
<1>1. ASSUME IInv, [Next]_vars PROVE [Replica!Next]_(Replica!vars)
  <2>1. ASSUME NEW n \in Editors,
               CreateRule(n) \/ ToggleRule(n) \/ EditRecords(n) \/ EditSelected(n)
        PROVE  Replica!Next
    <3>1. n \in Nodes
      BY EditorsAssumption
    <3> QED
      BY <1>1, <2>1, <3>1, EditReplica DEF Replica!Next, Replica!Nodes, Nodes
  <2>2. CASE FreshRules \/ FreshRecords \/ PublishRules \/ PublishRecords
    BY <1>1, <2>2, CachesReplica DEF Replica!Next
  <2>3. CASE SaveHASettings
    BY <2>3 DEF SaveHASettings, policy, caches, Replica!vars
  <2>4. CASE UNCHANGED vars
    BY <2>4 DEF vars, policy, caches, Replica!vars
  <2>5. ASSUME NEW x \in Exchanges, StartPush(x) \/ Export(x)
        PROVE  Replica!Next
    BY <1>1, <2>5, ExportReplica DEF Replica!Next
  <2>6. ASSUME NEW x \in Exchanges, ValidateHAImportAllowed(x)
        PROVE  UNCHANGED Replica!vars
    <3>1. pc \in [Exchanges -> Steps]
      BY <1>1 DEF IInv, TypeOK
    <3>2. \A y \in Exchanges : Picked(pc'[y]) = Picked(pc[y])
      BY <2>6, <3>1 DEF ValidateHAImportAllowed, Picked
    <3> QED
      BY <2>6, <3>2 DEF ValidateHAImportAllowed, policy, caches, Replica!vars
  <2>7. ASSUME NEW x \in Exchanges, RefuseImport(x) \/ PushFails(x)
        PROVE  Replica!Next
    BY <1>1, <2>7, LostReplica DEF Replica!Next
  <2>8. ASSUME NEW x \in Exchanges, ApplyHASyncPayload(x)
        PROVE  Replica!Next
    BY <1>1, <2>8, ImportReplica DEF Replica!Next
  <2> QED
    BY <1>1, <2>1, <2>2, <2>3, <2>4, <2>5, <2>6, <2>7, <2>8 DEF Next
<1> QED
  BY <1>1, InitReplica, AlwaysIInv, PTL DEF Spec, ImplementsReplica, Replica!Spec
=============================================================================
