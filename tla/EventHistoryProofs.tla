-------------------------- MODULE EventHistoryProofs --------------------------
(* Proofs about EventHistory for every number of hosts, purges and events,   *)
(* every retention, every time zone and every text of the fraction of a      *)
(* second.                                                                   *)
EXTENDS EventHistory, FiniteSetTheorems, WellFoundedInduction, TLAPS

(***************************************************************************)
(* Row ids: SQLite hands out max(rowid) + 1                                *)
(***************************************************************************)

\* A set of naturals that has a member has a least one.
LEMMA LeastNatural ==
  ASSUME NEW S \in SUBSET Nat, S # {}
  PROVE  \E n \in S : \A m \in S : n <= m
<1>1. \E n \in S : \A m \in S : <<m, n>> \notin OpToRel(<, Nat)
  BY NatLessThanWellFounded, WFMin
<1>2. PICK n \in S : \A m \in S : <<m, n>> \notin OpToRel(<, Nat)
  BY <1>1
<1>3. ASSUME NEW m \in S PROVE n <= m
  <2>1. m \in Nat /\ n \in Nat
    OBVIOUS
  <2>2. m < n => <<m, n>> \in OpToRel(<, Nat)
    BY <2>1 DEF OpToRel
  <2>3. ~(m < n)
    BY ONLY <1>2, <2>2, m \in S, Zenon
  <2> QED
    BY ONLY <2>1, <2>3
<1> QED
  BY <1>3

\* A bounded set of naturals that has a member has a greatest one, and Max is
\* it: the least upper bound is a member.
LEMMA MaxOfBounded ==
  ASSUME NEW S \in SUBSET Nat, S # {}, NEW b \in Nat, \A n \in S : n <= b
  PROVE  Max(S) \in S /\ \A n \in S : n <= Max(S)
<1> DEFINE U == {u \in Nat : \A n \in S : n <= u}
<1>1. PICK u \in U : \A v \in U : u <= v
  BY LeastNatural
<1>2. u \in S
  <2> SUFFICES ASSUME u \notin S PROVE FALSE
    OBVIOUS
  <2>1. \A n \in S : n < u
    BY <1>1
  <2>2. PICK n \in S : TRUE
    OBVIOUS
  <2>3. u - 1 \in U
    BY <2>1, <2>2
  <2> QED
    BY <1>1, <2>3
<1>3. \E x \in S : \A y \in S : x >= y
  BY <1>1, <1>2
<1> QED
  BY <1>3 DEF Max

(***************************************************************************)
(* Times and their texts                                                   *)
(***************************************************************************)

LEMMA AtType ==
  ASSUME NEW f \in Seq(0..9), NEW k \in Nat \ {0}, NEW after \in Int
  PROVE  At(f, k, after) \in Int /\ (k <= Len(f) => At(f, k, after) \in 0..9)
<1>1. k <= Len(f) => f[k] \in 0..9
  OBVIOUS
<1> QED
  BY <1>1 DEF At

\* The order of fractions is transitive: the first of the two differences
\* decides, and it lies within the digits of one of the outer two.
LEMMA LessTransitive ==
  ASSUME NEW f \in Seq(0..9), NEW g \in Seq(0..9), NEW h \in Seq(0..9),
         Less(f, 0, g, 0), Less(g, 0, h, 0)
  PROVE  Less(f, 0, h, 0)
<1> DEFINE F(k) == At(f, k, 0)
           G(k) == At(g, k, 0)
           H(k) == At(h, k, 0)
<1>1. PICK k \in 1..Len(f) + Len(g) + 1 : F(k) < G(k) /\ \A m \in 1..k - 1 : F(m) = G(m)
  BY DEF Less
<1>2. PICK l \in 1..Len(g) + Len(h) + 1 : G(l) < H(l) /\ \A m \in 1..l - 1 : G(m) = H(m)
  BY DEF Less
<1>3. Len(f) \in Nat /\ Len(g) \in Nat /\ Len(h) \in Nat
  OBVIOUS
<1>4. k \in Nat \ {0} /\ l \in Nat \ {0}
  BY <1>3
<1>5. \A m \in Nat \ {0} : F(m) \in Int /\ G(m) \in Int /\ H(m) \in Int
  <2> SUFFICES ASSUME NEW m \in Nat \ {0}
               PROVE  F(m) \in Int /\ G(m) \in Int /\ H(m) \in Int
    OBVIOUS
  <2>1. 0 \in Int
    OBVIOUS
  <2>2. At(f, m, 0) \in Int
    BY <2>1, AtType
  <2>3. At(g, m, 0) \in Int
    BY <2>1, AtType
  <2>4. At(h, m, 0) \in Int
    BY <2>1, AtType
  <2> QED
    BY <2>2, <2>3, <2>4
<1>6. \A m \in Nat \ {0} : m > Len(f) /\ m > Len(h) => F(m) = H(m)
  BY <1>3 DEF At
<1> HIDE DEF F, G, H
<1>7. PICK n \in Nat \ {0} : F(n) < H(n) /\ \A m \in 1..n - 1 : F(m) = H(m)
  <2>1. CASE k <= l
    <3>1. F(k) < H(k)
      <4>1. G(k) <= H(k)
        <5>1. CASE k = l
          BY <1>2, <1>4, <1>5, <5>1
        <5>2. CASE k < l
          <6>1. k \in 1..l - 1
            BY ONLY <1>4, <5>2
          <6> QED
            BY <1>2, <1>4, <1>5, <6>1
        <5> QED
          BY <1>4, <2>1, <5>1, <5>2
      <4>2. F(k) < G(k) /\ F(k) \in Int /\ G(k) \in Int /\ H(k) \in Int
        BY <1>1, <1>4, <1>5
      <4> QED
        BY ONLY <4>1, <4>2
    <3>2. \A m \in 1..k - 1 : m \in 1..l - 1
      BY ONLY <1>4, <2>1
    <3> QED
      BY <1>1, <1>2, <1>4, <3>1, <3>2
  <2>2. CASE l < k
    <3>1. F(l) < H(l)
      BY <1>1, <1>2, <1>4, <1>5, <2>2
    <3>2. \A m \in 1..l - 1 : m \in 1..k - 1
      BY ONLY <1>4, <2>2
    <3> QED
      BY <1>1, <1>2, <1>4, <3>1, <3>2
  <2> QED
    BY <1>4, <2>1, <2>2
<1>8. n <= Len(f) + Len(h)
  <2>1. n <= Len(f) \/ n <= Len(h)
    <3>1. F(n) < H(n) /\ F(n) \in Int /\ H(n) \in Int
      BY <1>5, <1>7
    <3>2. F(n) # H(n)
      BY ONLY <3>1
    <3>3. ~(n > Len(f) /\ n > Len(h))
      BY <1>6, <3>2
    <3> QED
      BY ONLY <1>3, <3>3, n \in Nat \ {0}
  <2> QED
    BY ONLY <1>3, <1>7, <2>1
<1>9. n \in 1..Len(f) + Len(h) + 1
  BY ONLY <1>3, <1>8, n \in Nat \ {0}
<1> QED
  BY <1>7, <1>9 DEF Less, F, H

LEMMA LessIrreflexive ==
  ASSUME NEW f \in Seq(0..9)
  PROVE  ~Less(f, 0, f, 0)
<1>1. \A k \in 1..Len(f) + Len(f) + 1 : k \in Nat \ {0}
  OBVIOUS
<1>2. \A k \in Nat \ {0} : ~(At(f, k, 0) < At(f, k, 0))
  BY AtType
<1> QED
  BY <1>1, <1>2 DEF Less

LEMMA InstantFields ==
  ASSUME NEW t \in Instants
  PROVE  t.sec \in Int /\ t.frac \in Seq(0..9)
  BY FractionsAssumption DEF Instants

\* An instant of the clock is an instant, at a second that has an offset.
LEMMA MomentFields ==
  ASSUME NEW t \in Moments
  PROVE  /\ t \in Instants /\ t.sec \in 0..MaxSec /\ t.sec \in Int
         /\ Zone[t.sec] \in Offsets /\ Zone[t.sec] \in Int
<1>1. t.sec \in 0..MaxSec /\ t.frac \in Fractions /\ t = [sec |-> t.sec, frac |-> t.frac]
  BY DEF Moments
<1>2. t.sec \in Int
  BY <1>1, BoundsAssumption
<1>3. Zone[t.sec] \in Offsets /\ Zone[t.sec] \in Int
  BY <1>1, ZoneAssumption
<1> QED
  BY <1>1, <1>2, <1>3 DEF Instants

LEMMA EarlierTransitive ==
  ASSUME NEW s \in Instants, NEW t \in Instants, NEW u \in Instants, Earlier(s, t), Earlier(t, u)
  PROVE  Earlier(s, u)
<1>1. /\ s.sec \in Int /\ t.sec \in Int /\ u.sec \in Int
      /\ s.frac \in Seq(0..9) /\ t.frac \in Seq(0..9) /\ u.frac \in Seq(0..9)
  BY InstantFields
<1>2. s.sec <= t.sec /\ t.sec <= u.sec
  BY <1>1 DEF Earlier
<1>3. CASE s.sec < u.sec
  BY <1>3 DEF Earlier
<1>4. CASE s.sec = u.sec
  <2>1. t.sec = s.sec
    BY ONLY <1>1, <1>2, <1>4
  <2>2. Less(s.frac, 0, t.frac, 0) /\ Less(t.frac, 0, u.frac, 0)
    BY <1>1, <1>4, <2>1 DEF Earlier
  <2> QED
    BY <1>1, <1>4, <2>2, LessTransitive DEF Earlier
<1> QED
  BY <1>1, <1>2, <1>3, <1>4

\* Nothing is earlier than itself, and what is not later is not of a later
\* second.
LEMMA NotEarlier ==
  ASSUME NEW s \in Instants
  PROVE  ~Earlier(s, s) /\ \A t \in Instants : ~Earlier(s, t) => t.sec <= s.sec
<1>1. s.sec \in Int /\ s.frac \in Seq(0..9)
  BY InstantFields
<1>2. ~Earlier(s, s)
  BY <1>1, LessIrreflexive DEF Earlier
<1> QED
  BY <1>1, <1>2, InstantFields DEF Earlier

\* What is before the cutoff as a text is not of a later second, and what is
\* not before it not of an earlier one.
LEMMA TextSeconds ==
  ASSUME NEW s \in Instants, NEW t \in Instants
  PROVE  /\ TextBefore(s, t) => s.sec <= t.sec
         /\ ~TextBefore(s, t) => s.sec >= t.sec
  BY InstantFields DEF TextBefore

\* A text that goes on after "T00:00:00" is not before it.
LEMMA NotBeforeMidnight ==
  ASSUME NEW f \in Seq(0..9)
  PROVE  ~Less(f, Z, << >>, TheEnd)
<1>1. \A k \in 1..Len(f) + Len(<< >>) + 1 : k \in Nat \ {0}
  OBVIOUS
<1>2. ASSUME NEW k \in Nat \ {0} PROVE ~(At(f, k, Z) < At(<< >>, k, TheEnd))
  <2>1. At(<< >>, k, TheEnd) = -1
    BY DEF At, TheEnd
  <2>2. At(f, k, Z) \in 0..10
    BY DEF At, Z
  <2> QED
    BY <2>1, <2>2
<1> QED
  BY <1>1, <1>2 DEF Less

(***************************************************************************)
(* Steps                                                                   *)
(***************************************************************************)

EventRows == [id : Nat, ts : Moments, host : Hosts, blocked : BOOLEAN]

\* A finite table has a greatest id.
IdsBounded == \E b \in Nat : \A e \in events : e.id <= b

\* The new id is not in use.
LEMMA NextIdFresh ==
  ASSUME IInv, IdsBounded
  PROVE  NextId \in Nat \ {0} /\ \A e \in events : e.id < NextId
<1>1. CASE events = {}
  BY <1>1 DEF NextId
<1>2. CASE events # {}
  <2>1. Ids \in SUBSET Nat /\ Ids # {}
    BY <1>2 DEF IInv, TypeOK, Ids
  <2>2. PICK b \in Nat : \A n \in Ids : n <= b
    BY DEF IdsBounded, Ids
  <2>3. Max(Ids) \in Ids /\ \A n \in Ids : n <= Max(Ids)
    BY <2>1, <2>2, MaxOfBounded
  <2>4. NextId = Max(Ids) + 1
    BY <1>2 DEF NextId
  <2>5. \A e \in events : e.id \in Ids
    BY DEF Ids
  <2> HIDE DEF Ids
  <2>6. Max(Ids) \in Nat
    BY <2>1, <2>3
  <2>7. \A n \in Ids : n \in Nat /\ n < Max(Ids) + 1
    BY <2>1, <2>3, <2>6
  <2> QED
    BY <2>4, <2>5, <2>6, <2>7
<1> QED
  BY <1>1, <1>2

\* The clock does not go back.
LEMMA ClockStep ==
  ASSUME IInv, [Next]_vars
  PROVE  /\ clock' \in Moments /\ clock' \in Instants /\ clock'.sec >= clock.sec
         /\ \A t \in Instants : ~Earlier(clock, t) => ~Earlier(clock', t)
<1>0. /\ clock \in Moments /\ clock \in Instants
      /\ clock.sec \in 0..MaxSec /\ clock.sec \in Int
  BY MomentFields DEF IInv, TypeOK
<1>1. CASE Tick
  <2>1. /\ Earlier(clock, clock')
        /\ clock' \in [sec : {clock.sec, clock.sec + 1}, frac : Fractions]
        /\ clock'.sec <= MaxSec
    BY <1>1 DEF Tick
  <2>2. clock.sec \in Int /\ clock.sec + 1 \in Int
    BY <1>0
  <2>3. clock'.sec \in {clock.sec, clock.sec + 1}
    BY <2>1
  <2>4. clock'.sec \in 0..MaxSec
    BY ONLY <1>0, <2>1, <2>3, BoundsAssumption
  <2>5. clock' \in Moments
    BY <2>1, <2>4 DEF Moments
  <2>6. clock' \in Instants
    BY <2>5, MomentFields
  <2>7. clock'.sec >= clock.sec
    BY ONLY <2>2, <2>3
  <2>8. ASSUME NEW t \in Instants, Earlier(clock', t) PROVE Earlier(clock, t)
    BY <1>0, <2>1, <2>6, <2>8, EarlierTransitive
  <2> QED
    BY <2>5, <2>6, <2>7, <2>8
<1>2. CASE UNCHANGED clock
  BY <1>0, <1>2
<1> QED
  BY <1>1, <1>2 DEF Next, vars, Ask, InsertQueryEvent, InsertFails, SetRetention,
     ImportRetention, Restart, StartPurge, PurgeOldEvents, PurgeFails

LEMMA PendingStep ==
  ASSUME IInv, [Next]_vars
  PROVE  pending' \in SUBSET Stamped /\ \A e \in pending' : ~Earlier(clock', e.ts)
<1>0. /\ pending \subseteq Stamped /\ clock \in Moments /\ clock \in Instants /\ asked \in Nat
      /\ \A e \in pending : ~Earlier(clock, e.ts)
  BY BoundsAssumption, MomentFields DEF IInv, TypeOK, Shapes
<1>1. \A e \in Stamped : e.ts \in Instants
  BY MomentFields DEF Stamped
<1>2. \A e \in pending : ~Earlier(clock', e.ts)
  BY <1>0, <1>1, ClockStep
<1>3. CASE pending' \subseteq pending
  BY <1>0, <1>2, <1>3
<1>4. CASE Ask
  <2>1. PICK h \in Hosts, b \in BOOLEAN :
          pending' = pending \cup {[ts |-> clock, host |-> h, blocked |-> b, nr |-> asked]}
    BY <1>4 DEF Ask
  <2> DEFINE new == [ts |-> clock, host |-> h, blocked |-> b, nr |-> asked]
  <2>2. new \in Stamped /\ new.ts = clock
    BY <1>0 DEF Stamped
  <2>3. ~Earlier(clock', clock)
    BY <1>0, NotEarlier, ClockStep
  <2> QED
    BY <1>0, <1>2, <2>1, <2>2, <2>3
<1>5. CASE Restart
  BY <1>3, <1>5 DEF Restart
<1>6. CASE InsertQueryEvent \/ InsertFails
  BY <1>3, <1>6 DEF InsertQueryEvent, InsertFails
<1>7. CASE Tick \/ SetRetention \/ ImportRetention \/ UNCHANGED vars
  BY <1>3, <1>7 DEF Tick, SetRetention, ImportRetention, vars
<1>8. CASE \E p \in Purgers : StartPurge(p) \/ PurgeOldEvents(p) \/ PurgeFails(p)
  BY <1>3, <1>8 DEF StartPurge, PurgeOldEvents, PurgeFails
<1> QED
  BY <1>4, <1>5, <1>6, <1>7, <1>8 DEF Next

LEMMA RetentionDaysType ==
  ASSUME NEW setting \in Settings
  PROVE  RetentionDays(setting) \in 1..MaxDays
  BY SettingsAssumption, DaysAssumption DEF RetentionDays

Purges == [step : {"idle", "delete"}, days : Nat, cutoff : Instants]

\* A purge knows how long its events have lived, but for a change of offset.
Lived(r, now) == \E y, z \in Offsets : r.cutoff.sec <= now.sec - r.days * Day + (y - z)

PurgeOK(r, now) ==
    /\ r \in Purges
    /\ r.step = "delete" => r.days \in 1..MaxDays /\ Lived(r, now)

LEMMA NoPurgeOK ==
  ASSUME NEW now
  PROVE  PurgeOK(NoPurge, now)
<1>1. [sec |-> 0, frac |-> << >>] \in Instants
  BY FractionsAssumption DEF Instants
<1> QED
  BY <1>1 DEF PurgeOK, NoPurge, Purges

LEMMA NewPurgeOK ==
  ASSUME NEW now \in Moments, NEW d \in 1..MaxDays, NEW z \in Offsets
  PROVE  PurgeOK([step |-> "delete", days |-> d, cutoff |-> Cutoff(now, d, z)], now)
<1> DEFINE r == [step |-> "delete", days |-> d, cutoff |-> Cutoff(now, d, z)]
<1>1. d \in Nat /\ Day \in Nat /\ z \in Int
  BY DaysAssumption, DayAssumption, ZoneAssumption
<1>2. now.sec \in Int /\ Zone[now.sec] \in Offsets /\ Zone[now.sec] \in Int
  BY MomentFields
<1>3. PICK life \in Int : life = d * Day
  BY <1>1
<1>4. now.frac \in Fractions
  BY DEF Moments
<1>5. now.sec + Zone[now.sec] - life - z \in Int
  BY ONLY <1>1, <1>2, life \in Int
<1>6. /\ Cutoff(now, d, z) \in Instants
      /\ Cutoff(now, d, z).sec = now.sec + Zone[now.sec] - life - z
  BY <1>3, <1>4, <1>5 DEF Cutoff, Instants
<1>7. r \in Purges /\ r.step = "delete" /\ r.days = d /\ r.cutoff = Cutoff(now, d, z)
  BY <1>1, <1>6 DEF Purges
<1> HIDE DEF r
<1>8. now.sec + Zone[now.sec] - life - z <= now.sec - life + (Zone[now.sec] - z)
  BY ONLY <1>1, <1>2, life \in Int
<1>9. r.cutoff.sec <= now.sec - r.days * Day + (Zone[now.sec] - z)
  BY <1>3, <1>6, <1>7, <1>8
<1> QED
  BY <1>2, <1>7, <1>9 DEF PurgeOK, Lived, r

\* Time that passes lets nothing live shorter.
LEMMA StillLived ==
  ASSUME NEW r \in Purges, NEW s \in Instants, NEW t \in Instants, s.sec <= t.sec, Lived(r, s)
  PROVE  Lived(r, t)
<1>1. PICK y \in Offsets, z \in Offsets : r.cutoff.sec <= s.sec - r.days * Day + (y - z)
  BY DEF Lived
<1>2. PICK life \in Int : life = r.days * Day
  BY DayAssumption DEF Purges
<1>3. /\ r.cutoff.sec \in Int /\ s.sec \in Int /\ t.sec \in Int /\ y \in Int /\ z \in Int
  BY InstantFields, ZoneAssumption DEF Purges
<1>4. r.cutoff.sec <= s.sec - life + (y - z)
  BY <1>1, <1>2
<1>5. r.cutoff.sec <= t.sec - life + (y - z)
  BY ONLY <1>3, <1>4, s.sec <= t.sec, life \in Int
<1> QED
  BY <1>2, <1>5 DEF Lived

LEMMA PurgeStep ==
  ASSUME IInv, [Next]_vars
  PROVE  purge' \in [Purgers -> Purges] /\ \A p \in Purgers : PurgeOK(purge'[p], clock')
<1>0. /\ purge \in [Purgers -> Purges] /\ clock \in Moments /\ days \in Settings
      /\ clock \in Instants /\ clock' \in Instants /\ clock.sec <= clock'.sec
  <2>1. /\ purge \in [Purgers -> Purges] /\ clock \in Moments /\ days \in Settings
    BY DEF IInv, TypeOK, Shapes, Purges
  <2>2. clock \in Instants /\ clock.sec \in Int
    BY <2>1, MomentFields
  <2>3. clock' \in Instants /\ clock'.sec \in Int /\ clock'.sec >= clock.sec
    BY ClockStep, InstantFields
  <2> QED
    BY <2>1, <2>2, <2>3
<1>1. \A p \in Purgers : PurgeOK(purge[p], clock)
  BY <1>0 DEF IInv, TypeOK, Shapes, PurgeOK, Lived
<1>2. \A p \in Purgers : PurgeOK(purge[p], clock')
  <2> SUFFICES ASSUME NEW p \in Purgers, purge[p].step = "delete"
               PROVE  Lived(purge[p], clock')
    BY <1>1 DEF PurgeOK
  <2>1. purge[p] \in Purges /\ Lived(purge[p], clock)
    BY <1>1 DEF PurgeOK
  <2> QED
    BY <1>0, <2>1, StillLived
<1>3. CASE purge' = purge
  BY <1>0, <1>2, <1>3
<1>4. ASSUME NEW p \in Purgers, StartPurge(p)
      PROVE  purge' \in [Purgers -> Purges] /\ \A q \in Purgers : PurgeOK(purge'[q], clock')
  <2>1. PICK z \in Offsets : purge' = [purge EXCEPT ![p] =
          [step |-> "delete", days |-> RetentionDays(days),
           cutoff |-> Cutoff(clock, RetentionDays(days), z)]]
    BY <1>4 DEF StartPurge
  <2> DEFINE new == [step |-> "delete", days |-> RetentionDays(days),
                     cutoff |-> Cutoff(clock, RetentionDays(days), z)]
  <2>2. purge' = [purge EXCEPT ![p] = new] /\ clock' = clock
    BY <1>4, <2>1 DEF StartPurge
  <2>3. PurgeOK(new, clock)
    BY <1>0, RetentionDaysType, NewPurgeOK
  <2> HIDE DEF new
  <2> QED
    BY <1>0, <1>1, <2>2, <2>3 DEF PurgeOK
<1>5. ASSUME NEW p \in Purgers, EndPurge(p)
      PROVE  purge' \in [Purgers -> Purges] /\ \A q \in Purgers : PurgeOK(purge'[q], clock')
  <2>1. purge' = [purge EXCEPT ![p] = NoPurge]
    BY <1>5 DEF EndPurge
  <2>2. PurgeOK(NoPurge, clock')
    BY NoPurgeOK
  <2> QED
    BY <1>0, <1>2, <2>1, <2>2 DEF PurgeOK
<1>6. CASE Restart
  <2>1. purge' = [p \in Purgers |-> NoPurge]
    BY <1>6 DEF Restart
  <2>2. PurgeOK(NoPurge, clock')
    BY NoPurgeOK
  <2> QED
    BY <2>1, <2>2 DEF PurgeOK
<1>7. CASE \/ Tick \/ Ask \/ InsertQueryEvent \/ InsertFails \/ SetRetention \/ ImportRetention
           \/ UNCHANGED vars
  BY <1>3, <1>7 DEF Tick, Ask, InsertQueryEvent, InsertFails, SetRetention, ImportRetention, vars
<1>8. CASE \E p \in Purgers : PurgeOldEvents(p) \/ PurgeFails(p)
  BY <1>5, <1>8 DEF PurgeOldEvents, PurgeFails
<1> QED
  BY <1>4, <1>6, <1>7, <1>8 DEF Next
\* What a step does to the stored history.
LEMMA EventSteps ==
  ASSUME [Next]_vars
  PROVE  \/ events' = events /\ blocks' = blocks /\ counts' = counts
         \/ InsertQueryEvent
         \/ \E p \in Purgers : PurgeOldEvents(p)
<1>1. CASE Tick \/ Ask \/ InsertFails \/ SetRetention \/ ImportRetention \/ Restart \/ UNCHANGED vars
  BY <1>1 DEF Tick, Ask, InsertFails, SetRetention, ImportRetention, Restart, vars
<1>2. CASE \E p \in Purgers : StartPurge(p) \/ PurgeFails(p)
  BY <1>2 DEF StartPurge, PurgeFails
<1> QED
  BY <1>1, <1>2 DEF Next

\* The part of the invariant that is about stored events.
EventsOK ==
    /\ events \subseteq EventRows /\ IsFiniteSet(events) /\ IdsBounded
    /\ \A e \in events : e.id # 0 /\ ~Earlier(clock, e.ts)
    /\ \A e, f \in events : e.id = f.id => e = f

LEMMA EventsOf ==
  ASSUME IInv, IdsBounded
  PROVE  EventsOK
  BY DEF IInv, TypeOK, Shapes, EventsOK, EventRows

\* The row that an insert adds.
Row(e) == [id |-> NextId, ts |-> e.ts, host |-> e.host, blocked |-> e.blocked]

LEMMA RowFields ==
  ASSUME IInv, IdsBounded, NEW e \in pending
  PROVE  /\ Row(e) \in EventRows /\ Row(e) \notin events
         /\ Row(e).id = NextId /\ Row(e).ts = e.ts /\ Row(e).host = e.host
         /\ Row(e).blocked = e.blocked /\ e.host \in Hosts /\ e.blocked \in BOOLEAN
<1>1. e \in Stamped
  BY DEF IInv, TypeOK
<1>2. e.ts \in Moments /\ e.host \in Hosts /\ e.blocked \in BOOLEAN
  BY <1>1 DEF Stamped
<1>3. NextId \in Nat /\ \A f \in events : f.id \in Nat /\ f.id < NextId
  BY NextIdFresh DEF IInv, TypeOK
<1>4. \A f \in events : f.id # NextId
  BY <1>3
<1> QED
  BY <1>2, <1>3, <1>4 DEF Row, EventRows

LEMMA EventsStep ==
  ASSUME IInv, IdsBounded, [Next]_vars
  PROVE  EventsOK'
<1>0. EventsOK
  BY EventsOf
<1>1. \A e \in events : ~Earlier(clock', e.ts)
  BY <1>0, ClockStep, MomentFields DEF EventsOK, EventRows
<1>2. CASE events' \subseteq events
  <2>1. IsFiniteSet(events')
    BY <1>0, <1>2, FS_Subset DEF EventsOK
  <2>2. IdsBounded'
    BY <1>0, <1>2 DEF EventsOK, IdsBounded
  <2> QED
    BY <1>0, <1>1, <1>2, <2>1, <2>2 DEF EventsOK
<1>3. CASE InsertQueryEvent
  <2>1. PICK e \in pending : events' = events \cup {Row(e)}
    BY <1>3 DEF InsertQueryEvent, Row
  <2>2. /\ Row(e) \in EventRows /\ Row(e).id = NextId /\ Row(e).ts = e.ts
    BY RowFields
  <2>3. NextId \in Nat \ {0} /\ \A f \in events : f.id \in Nat /\ f.id < NextId
    BY <1>0, NextIdFresh DEF EventsOK, EventRows
  <2>4. IsFiniteSet(events')
    BY <1>0, <2>1, FS_AddElement DEF EventsOK
  <2>5. \A f \in events' : f.id <= NextId
    BY <2>1, <2>2, <2>3
  <2>6. \A f \in events : f.id # NextId
    BY <2>3
  <2>7. ~Earlier(clock', e.ts)
    <3>1. e.ts \in Instants /\ ~Earlier(clock, e.ts)
      BY MomentFields DEF IInv, TypeOK, Shapes, Stamped
    <3> QED
      BY <3>1, ClockStep
  <2> HIDE DEF NextId, Row
  <2>8. IdsBounded'
    BY <2>3, <2>5 DEF IdsBounded
  <2>9. \A f, g \in events' : f.id = g.id => f = g
    BY <1>0, <2>1, <2>2, <2>6 DEF EventsOK
  <2>10. \A f \in events' : f.id # 0 /\ ~Earlier(clock', f.ts)
    BY <1>0, <1>1, <2>1, <2>2, <2>3, <2>7 DEF EventsOK
  <2> QED
    BY <1>0, <2>1, <2>2, <2>4, <2>8, <2>9, <2>10 DEF EventsOK
<1>4. CASE \E p \in Purgers : PurgeOldEvents(p)
  BY <1>2, <1>4 DEF PurgeOldEvents, Kept
<1> QED
  BY <1>2, <1>3, <1>4, EventSteps

Block(e) == [event |-> e.id, host |-> e.host, createdAt |-> e.ts]

\* Block events follow the blocked events through inserts and purges.
LEMMA BlocksStep ==
  ASSUME IInv, IdsBounded, [Next]_vars
  PROVE  BlocksExact'
<1>0. blocks = {Block(e) : e \in {x \in events : x.blocked}}
  BY DEF IInv, BlocksExact, Block
<1>1. SUFFICES blocks' = {Block(e) : e \in {x \in events' : x.blocked}}
  BY DEF BlocksExact, Block
<1>2. CASE events' = events /\ blocks' = blocks
  BY <1>0, <1>2
<1>3. CASE InsertQueryEvent
  <2>1. PICK e \in pending :
          /\ events' = events \cup {Row(e)}
          /\ blocks' = IF e.blocked THEN blocks \cup {BlockRow(e)} ELSE blocks
    BY <1>3 DEF InsertQueryEvent, Row
  <2>2. Row(e).blocked = e.blocked /\ Block(Row(e)) = BlockRow(e)
    BY RowFields DEF Block, BlockRow
  <2> HIDE DEF Row, BlockRow, Block
  <2>3. CASE e.blocked
    BY <1>0, <2>1, <2>2, <2>3
  <2>4. CASE ~e.blocked
    BY <1>0, <2>1, <2>2, <2>4
  <2> QED
    BY <2>3, <2>4
<1>4. ASSUME NEW p \in Purgers, PurgeOldEvents(p)
      PROVE  blocks' = {Block(e) : e \in {x \in events' : x.blocked}}
  <2>1. /\ events' = {e \in events : ~TextBefore(e.ts, purge[p].cutoff)}
        /\ blocks' = {b \in blocks : /\ \E e \in events' : e.id = b.event
                                     /\ ~TextBefore(b.createdAt, purge[p].cutoff)}
    BY <1>4 DEF PurgeOldEvents, Kept
  <2>2. \A e : Block(e).event = e.id /\ Block(e).createdAt = e.ts
    BY DEF Block
  <2> HIDE DEF Block
  <2>3. ASSUME NEW b \in blocks' PROVE b \in {Block(e) : e \in {x \in events' : x.blocked}}
    <3>1. PICK e \in events : e.blocked /\ b = Block(e)
      BY <1>0, <2>1
    <3>2. e \in events'
      BY <2>1, <2>2, <3>1
    <3> QED
      BY <3>1, <3>2
  <2>4. ASSUME NEW e \in events', e.blocked PROVE Block(e) \in blocks'
    BY <1>0, <2>1, <2>2, <2>4
  <2> QED
    BY <2>3, <2>4
<1> QED
  BY <1>2, <1>3, <1>4, EventSteps

\* The counters of a host keep up with its stored events.
LEMMA CountsStep ==
  ASSUME IInv, IdsBounded, [Next]_vars
  PROVE  /\ counts' \in [Hosts -> [queries : Nat, blocked : Nat]]
         /\ \A h \in Hosts : /\ counts'[h].queries >= Cardinality(OfHost(h)')
                             /\ counts'[h].blocked >= Cardinality(BlockedOf(h)')
<1>0. /\ counts \in [Hosts -> [queries : Nat, blocked : Nat]]
      /\ \A h \in Hosts : /\ counts[h].queries >= Cardinality(OfHost(h))
                          /\ counts[h].blocked >= Cardinality(BlockedOf(h))
  BY DEF IInv, TypeOK, HistoryAgrees
<1>1. IsFiniteSet(events) /\ IsFiniteSet(events')
  BY EventsOf, EventsStep DEF EventsOK
<1>2. \A h \in Hosts : /\ IsFiniteSet(OfHost(h)) /\ IsFiniteSet(BlockedOf(h))
                      /\ IsFiniteSet(OfHost(h)') /\ IsFiniteSet(BlockedOf(h)')
  BY <1>1, FS_Subset DEF OfHost, BlockedOf
<1>3. \A h \in Hosts : /\ Cardinality(OfHost(h)) \in Nat /\ Cardinality(BlockedOf(h)) \in Nat
                      /\ Cardinality(OfHost(h)') \in Nat /\ Cardinality(BlockedOf(h)') \in Nat
  BY <1>2, FS_CardinalityType
<1>4. CASE events' \subseteq events /\ counts' = counts
  <2> SUFFICES ASSUME NEW h \in Hosts
               PROVE  /\ counts'[h].queries >= Cardinality(OfHost(h)')
                      /\ counts'[h].blocked >= Cardinality(BlockedOf(h)')
    BY <1>0, <1>4
  <2>1. OfHost(h)' \subseteq OfHost(h) /\ BlockedOf(h)' \subseteq BlockedOf(h)
    BY <1>4 DEF OfHost, BlockedOf
  <2>2. Cardinality(OfHost(h)') <= Cardinality(OfHost(h))
    BY <1>2, <2>1, FS_Subset
  <2>3. Cardinality(BlockedOf(h)') <= Cardinality(BlockedOf(h))
    BY <1>2, <2>1, FS_Subset
  <2>4. counts[h].queries \in Nat /\ counts[h].blocked \in Nat
    BY <1>0
  <2> QED
    BY <1>0, <1>3, <1>4, <2>2, <2>3, <2>4
<1>5. CASE InsertQueryEvent
  <2>1. PICK e \in pending :
          /\ events' = events \cup {Row(e)}
          /\ counts' = [counts EXCEPT ![e.host].queries = @ + 1,
                                      ![e.host].blocked = @ + IF e.blocked THEN 1 ELSE 0]
    BY <1>5 DEF InsertQueryEvent, Row
  <2>2. /\ Row(e).host = e.host /\ Row(e).blocked = e.blocked /\ e.host \in Hosts
        /\ Row(e) \notin events
    BY RowFields
  <2>3. PICK n \in {0, 1} : n = IF e.blocked THEN 1 ELSE 0
    OBVIOUS
  <2> DEFINE q == counts[e.host].queries + 1
             b == counts[e.host].blocked + n
  <2>4. counts' = [counts EXCEPT ![e.host].queries = q, ![e.host].blocked = b]
    BY <2>1, <2>3
  <2>5. q \in Nat /\ b \in Nat
    BY <1>0, <2>2
  <2>6. /\ counts' \in [Hosts -> [queries : Nat, blocked : Nat]]
        /\ counts'[e.host].queries = q /\ counts'[e.host].blocked = b
        /\ \A h \in Hosts \ {e.host} : counts'[h] = counts[h]
    <3> HIDE DEF q, b
    <3> QED
      BY <1>0, <2>2, <2>4, <2>5
  <2>7. ASSUME NEW h \in Hosts
        PROVE  /\ counts'[h].queries >= Cardinality(OfHost(h)')
               /\ counts'[h].blocked >= Cardinality(BlockedOf(h)')
    <3>1. CASE h # e.host
      <4>1. OfHost(h)' = OfHost(h) /\ BlockedOf(h)' = BlockedOf(h)
        BY <2>1, <2>2, <3>1 DEF OfHost, BlockedOf
      <4>2. counts'[h] = counts[h]
        BY <2>6, <3>1
      <4> QED
        BY <1>0, <4>1, <4>2
    <3>2. CASE h = e.host
      <4>1. OfHost(h)' = OfHost(h) \cup {Row(e)}
        BY <2>1, <2>2, <3>2 DEF OfHost
      <4>2. BlockedOf(h)' = IF e.blocked THEN BlockedOf(h) \cup {Row(e)} ELSE BlockedOf(h)
        BY <2>1, <2>2, <3>2 DEF BlockedOf
      <4>3. Row(e) \notin OfHost(h) /\ Row(e) \notin BlockedOf(h)
        BY <2>2 DEF OfHost, BlockedOf
      <4>4. Cardinality(OfHost(h)') = Cardinality(OfHost(h)) + 1
        BY <1>2, <4>1, <4>3, FS_AddElement
      <4>5. Cardinality(BlockedOf(h)') = Cardinality(BlockedOf(h)) + n
        <5>1. CASE e.blocked
          BY <1>2, <2>3, <4>2, <4>3, <5>1, FS_AddElement
        <5>2. CASE ~e.blocked
          BY <1>3, <2>3, <4>2, <5>2
        <5> QED
          BY <5>1, <5>2
      <4>6. counts'[h].queries = counts[h].queries + 1 /\ counts'[h].blocked = counts[h].blocked + n
        BY <2>6, <3>2
      <4>7. counts[h].queries \in Nat /\ counts[h].blocked \in Nat
        BY <1>0
      <4> QED
        BY <1>0, <1>3, <4>4, <4>5, <4>6, <4>7
    <3> QED
      BY <3>1, <3>2
  <2> QED
    BY <2>6, <2>7
<1>6. CASE \E p \in Purgers : PurgeOldEvents(p)
  BY <1>4, <1>6 DEF PurgeOldEvents, Kept
<1> QED
  BY <1>4, <1>5, <1>6, EventSteps
(***************************************************************************)
(* The inductive invariant                                                 *)
(***************************************************************************)

\* Matching block events are what HistoryAgrees says of the two tables.
LEMMA BlocksAgree ==
  ASSUME NEW E, NEW B,
         B = {[event |-> e.id, host |-> e.host, createdAt |-> e.ts] : e \in {x \in E : x.blocked}}
  PROVE  {<<b.event, b.host, b.createdAt>> : b \in B}
            = {<<e.id, e.host, e.ts>> : e \in {x \in E : x.blocked}}
<1>1. B = {Block(e) : e \in {x \in E : x.blocked}}
  BY DEF Block
<1>2. \A e : Block(e).event = e.id /\ Block(e).host = e.host /\ Block(e).createdAt = e.ts
  BY DEF Block
<1> HIDE DEF Block
<1> QED
  BY <1>1, <1>2

LEMMA InitIInv ==
  ASSUME Init
  PROVE  IInv /\ IdsBounded
<1>1. /\ clock = [sec |-> 0, frac |-> << >>] /\ days \in Settings
      /\ pending = {} /\ events = {} /\ blocks = {}
      /\ counts = [h \in Hosts |-> [queries |-> 0, blocked |-> 0]]
      /\ purge = [p \in Purgers |-> NoPurge]
      /\ serving = FALSE /\ asked = 0
  BY DEF Init
<1>2. clock \in Moments
  BY <1>1, FractionsAssumption, BoundsAssumption DEF Moments
<1>3. counts \in [Hosts -> [queries : Nat, blocked : Nat]]
  BY <1>1
<1>4. \A p \in Purgers : purge[p] = NoPurge /\ PurgeOK(purge[p], clock)
  BY <1>1, NoPurgeOK
<1>5. NoPurge.step = "idle"
  BY DEF NoPurge
<1>6. purge \in [Purgers -> Purges]
  BY <1>1, <1>4 DEF PurgeOK
<1>7. TypeOK
  <2>1. asked = 0 /\ MaxAsked \in Nat
    BY <1>1, BoundsAssumption
  <2>2. asked \in 0..MaxAsked
    BY ONLY <2>1
  <2>3. pending \in SUBSET Stamped /\ serving \in BOOLEAN
    BY <1>1, Zenon
  <2> QED
    BY <1>1, <1>2, <1>3, <1>4, <1>5, <2>2, <2>3 DEF TypeOK
<1>8. Shapes
  BY <1>1, <1>4, <1>5, <1>6, FS_EmptySet DEF Shapes, Purges
<1>9. BlocksExact
  BY <1>1 DEF BlocksExact
<1>10. \A h \in Hosts : /\ counts[h].queries >= Cardinality(OfHost(h))
                       /\ counts[h].blocked >= Cardinality(BlockedOf(h))
  BY <1>1, FS_EmptySet DEF OfHost, BlockedOf
<1>11. HistoryAgrees
  BY <1>9, <1>10, BlocksAgree DEF BlocksExact, HistoryAgrees
<1> QED
  BY <1>1, <1>7, <1>8, <1>9, <1>11 DEF IInv, IdsBounded

\* The setting, the flag and the number of questions.
LEMMA SmallTypes ==
  ASSUME IInv, [Next]_vars
  PROVE  days' \in Settings /\ serving' \in BOOLEAN /\ asked' \in 0..MaxAsked
<1>0. days \in Settings /\ serving \in BOOLEAN /\ asked \in 0..MaxAsked
  BY DEF IInv, TypeOK
<1>1. CASE Tick \/ InsertQueryEvent \/ InsertFails \/ UNCHANGED vars
  BY <1>0, <1>1 DEF Tick, InsertQueryEvent, InsertFails, vars
<1>2. CASE Ask
  BY <1>0, <1>2, BoundsAssumption DEF Ask
<1>3. CASE SetRetention \/ ImportRetention
  BY <1>0, <1>3 DEF SetRetention, ImportRetention
<1>4. CASE Restart
  BY <1>0, <1>4 DEF Restart
<1>5. CASE \E p \in Purgers : StartPurge(p) \/ PurgeOldEvents(p) \/ PurgeFails(p)
  BY <1>0, <1>5 DEF StartPurge, PurgeOldEvents, PurgeFails, EndPurge
<1> QED
  BY <1>1, <1>2, <1>3, <1>4, <1>5 DEF Next

LEMMA StepIInv ==
  ASSUME IInv, IdsBounded, [Next]_vars
  PROVE  IInv' /\ IdsBounded'
<1>1. clock' \in Moments
  BY ClockStep
<1>2. days' \in Settings /\ serving' \in BOOLEAN /\ asked' \in 0..MaxAsked
  BY SmallTypes
<1>3. pending' \in SUBSET Stamped /\ \A e \in pending' : ~Earlier(clock', e.ts)
  BY PendingStep
<1>4. /\ events' \subseteq EventRows /\ IsFiniteSet(events') /\ IdsBounded'
      /\ \A e \in events' : e.id # 0 /\ ~Earlier(clock', e.ts)
      /\ \A e, f \in events' : e.id = f.id => e = f
  BY EventsStep DEF EventsOK
<1>5. /\ counts' \in [Hosts -> [queries : Nat, blocked : Nat]]
      /\ \A h \in Hosts : /\ counts'[h].queries >= Cardinality(OfHost(h)')
                          /\ counts'[h].blocked >= Cardinality(BlockedOf(h)')
  BY CountsStep
<1>6. purge' \in [Purgers -> Purges] /\ \A p \in Purgers : PurgeOK(purge'[p], clock')
  BY PurgeStep
<1>7. \A p \in Purgers :
        /\ purge'[p].step \in {"idle", "delete"}
        /\ purge'[p].step = "delete" =>
             /\ purge'[p].days \in 1..MaxDays
             /\ \E y, z \in Offsets :
                  purge'[p].cutoff.sec <= clock'.sec - purge'[p].days * Day + (y - z)
  BY <1>6 DEF PurgeOK, Lived, Purges
<1>8. \A e \in events' : e.id \in Nat \ {0}
  BY <1>4 DEF EventRows
<1>9. TypeOK'
  BY <1>1, <1>2, <1>3, <1>4, <1>5, <1>7, <1>8, Zenon DEF TypeOK
<1>10. Shapes'
  BY <1>3, <1>4, <1>6, <1>7, Zenon DEF Shapes, EventRows, Purges
<1>11. BlocksExact'
  BY BlocksStep
<1>12. {<<b.event, b.host, b.createdAt>> : b \in blocks'}
          = {<<e.id, e.host, e.ts>> : e \in {x \in events' : x.blocked}}
  BY <1>11, BlocksAgree DEF BlocksExact
<1>13. HistoryAgrees'
  BY <1>5, <1>12 DEF HistoryAgrees
<1> QED
  BY <1>4, <1>9, <1>10, <1>11, <1>13 DEF IInv

\* The inductive invariant holds always: tables, queue and purges stay
\* consistent through inserts, purges, failures and restarts.
THEOREM AlwaysIInv == Spec => [](IInv /\ IdsBounded)
<1>1. Init => IInv /\ IdsBounded
  BY InitIInv
<1>2. (IInv /\ IdsBounded) /\ [Next]_vars => (IInv /\ IdsBounded)'
  BY StepIInv
<1> QED
  BY <1>1, <1>2, PTL DEF Spec

(***************************************************************************)
(* Theorems                                                                *)
(***************************************************************************)

\* Every reachable state is well-formed: no stored event is later than the
\* clock and no two share an id (InsertQueryEvent, PurgeOldEvents).
THEOREM TypeCorrect == Spec => []TypeOK
<1>1. IInv => TypeOK
  BY DEF IInv
<1> QED
  BY <1>1, AlwaysIInv, PTL

\* The stored blocked events and the block events are the same events, and no
\* counter of a host falls behind its history, though purges free ids that
\* InsertQueryEvent uses again.
THEOREM HistoryAgreesAlways == Spec => []HistoryAgrees
<1>1. IInv => HistoryAgrees
  BY DEF IInv
<1> QED
  BY <1>1, AlwaysIInv, PTL

\* The text comparison behind Dashboard's count of today counts the events
\* since midnight on a server whose local time is UTC; elsewhere it is off by
\* exactly the offset.
THEOREM TodayIsCounted == Spec => []TodayCounted
<1>1. ASSUME IInv PROVE TodayCounted
  <2>1. clock \in Moments /\ \A e \in events : e.ts \in Moments
    BY <1>1 DEF IInv, TypeOK, Shapes
  <2>2. PICK m \in Int : m = Midnight(clock)
    <3>1. Wall(clock.sec) \in Int
      BY <2>1, MomentFields DEF Wall
    <3> QED
      BY <3>1, DayAssumption DEF Midnight
  <2>3. ASSUME NEW e \in events
        PROVE  Today(clock, e.ts) <=> e \in (Since \cup LateYesterday) \ EarlyToday
    <3>1. e.ts.sec \in Int /\ Zone[e.ts.sec] \in Int /\ e.ts.frac \in Seq(0..9)
      BY <2>1, MomentFields, InstantFields
    <3>2. Today(clock, e.ts) <=> ~(e.ts.sec < m)
      BY <2>2, <3>1, NotBeforeMidnight DEF Today
    <3> DEFINE x == e.ts.sec
               z == Zone[e.ts.sec]
    <3>3. x \in Int /\ z \in Int /\ Wall(e.ts.sec) = x + z /\ Midnight(clock) = m
      BY <2>2, <3>1 DEF Wall
    <3>4. /\ e \in Since <=> x + z >= m
          /\ e \in LateYesterday <=> x + z - m \in z..-1
          /\ e \in EarlyToday <=> x + z - m \in 0..z - 1
      <4>1. e \in Since <=> Wall(e.ts.sec) >= Midnight(clock)
        BY Zenon DEF Since
      <4>2. e \in LateYesterday <=> Wall(e.ts.sec) - Midnight(clock) \in z..-1
        BY Zenon DEF LateYesterday
      <4>3. e \in EarlyToday <=> Wall(e.ts.sec) - Midnight(clock) \in 0..z - 1
        BY Zenon DEF EarlyToday
      <4> HIDE DEF x, z
      <4>4. e \in Since <=> x + z >= m
        BY ONLY <3>3, <4>1, m \in Int
      <4>5. e \in LateYesterday <=> x + z - m \in z..-1
        BY ONLY <3>3, <4>2, m \in Int
      <4>6. e \in EarlyToday <=> x + z - m \in 0..z - 1
        BY ONLY <3>3, <4>3, m \in Int
      <4> QED
        BY <4>4, <4>5, <4>6
    <3> HIDE DEF x, z
    <3>5. ~(x < m) <=> ((x + z >= m \/ x + z - m \in z..-1) /\ ~(x + z - m \in 0..z - 1))
      BY ONLY <3>3, m \in Int
    <3>6. ~(e.ts.sec < m) <=> ~(x < m)
      BY DEF x
    <3> QED
      BY ONLY <3>2, <3>4, <3>5, <3>6, Zenon
  <2>4. (Since \cup LateYesterday) \ EarlyToday \subseteq events
    BY DEF Since, LateYesterday
  <2>5. {e \in events : Today(clock, e.ts)} = (Since \cup LateYesterday) \ EarlyToday
    BY ONLY <2>3, <2>4, Zenon
  <2> QED
    BY <2>5 DEF TodayCounted, QueriesToday
<1>2. IInv => TodayCounted
  BY <1>1
<1> QED
  BY <1>2, AlwaysIInv, PTL

\* What PurgeOldEvents deletes by comparing texts has lived through the
\* retention it read, to the second and up to a change of the local offset,
\* and nothing older than its cutoff stays.
THEOREM PurgeIsAccurate == Spec => PurgeAccuracy
<1> DEFINE A == \A p \in Purgers : PurgeOldEvents(p) =>
                  /\ \A e \in events \ events' : \E y, z \in Offsets :
                       e.ts.sec <= clock.sec - purge[p].days * Day + (y - z)
                  /\ \A e \in events' : e.ts.sec >= purge[p].cutoff.sec
<1>1. ASSUME IInv, NEW p \in Purgers, PurgeOldEvents(p)
      PROVE  /\ \A e \in events \ events' : \E y, z \in Offsets :
                  e.ts.sec <= clock.sec - purge[p].days * Day + (y - z)
             /\ \A e \in events' : e.ts.sec >= purge[p].cutoff.sec
  <2>1. /\ events' = {e \in events : ~TextBefore(e.ts, purge[p].cutoff)}
        /\ purge[p].step = "delete"
    BY <1>1 DEF PurgeOldEvents, Kept
  <2>2. \A e \in events : e.ts \in Instants /\ e.ts.sec \in Int
    BY <1>1, MomentFields DEF IInv, Shapes
  <2>3. purge[p].cutoff \in Instants /\ purge[p].cutoff.sec \in Int /\ purge[p].days \in Nat
    BY <1>1, InstantFields DEF IInv, Shapes
  <2>4. clock.sec \in Int
    BY <1>1, MomentFields DEF IInv, TypeOK
  <2>5. PICK life \in Int : life = purge[p].days * Day
    BY <2>3, DayAssumption
  <2>6. PICK y \in Offsets, z \in Offsets : purge[p].cutoff.sec <= clock.sec - life + (y - z)
    BY <1>1, <2>1, <2>5 DEF IInv, Shapes
  <2>7. ASSUME NEW e \in events \ events' PROVE e.ts.sec <= clock.sec - life + (y - z)
    <3>1. e.ts.sec <= purge[p].cutoff.sec /\ e.ts.sec \in Int
      BY <2>1, <2>2, <2>3, TextSeconds
    <3>2. y \in Int /\ z \in Int
      BY ZoneAssumption
    <3> QED
      BY ONLY <2>3, <2>4, <2>6, <3>1, <3>2, life \in Int
  <2>8. ASSUME NEW e \in events' PROVE e.ts.sec >= purge[p].cutoff.sec
    BY <2>1, <2>2, <2>3, TextSeconds
  <2>9. \A e \in events \ events' : \E v, w \in Offsets :
          e.ts.sec <= clock.sec - purge[p].days * Day + (v - w)
    BY <2>5, <2>7
  <2> QED
    BY <2>8, <2>9
<1>2. IInv => [A]_vars
  BY <1>1
<1> HIDE DEF A
<1>3. Spec => [][A]_vars
  BY <1>2, AlwaysIInv, PTL
<1> QED
  BY <1>3 DEF A, PurgeAccuracy
=============================================================================
