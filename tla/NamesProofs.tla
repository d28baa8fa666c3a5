----------------------------- MODULE NamesProofs -----------------------------
(* Proofs about Names for every list and every name that is asked.           *)
EXTENDS Names, SequenceTheorems, TLAPS

(***************************************************************************)
(* Sequences                                                               *)
(***************************************************************************)

\* The tail of a sequence from its k-th element on.
LEMMA SuffixIndex ==
  ASSUME NEW S, NEW n \in Seq(S), NEW k \in 1..Len(n)
  PROVE  /\ SubSeq(n, k, Len(n)) \in Seq(S) /\ Len(SubSeq(n, k, Len(n))) = Len(n) - k + 1
         /\ \A i \in 1..Len(n) - k + 1 : SubSeq(n, k, Len(n))[i] = n[k + i - 1]
         /\ SubSeq(n, k, Len(n))[Len(n) - k + 1] = n[Len(n)]
<1>1. k \in Int /\ Len(n) \in Int /\ k <= Len(n) /\ \A i \in k..Len(n) : n[i] \in S
  OBVIOUS
<1>2. /\ SubSeq(n, k, Len(n)) \in Seq(S) /\ Len(SubSeq(n, k, Len(n))) = Len(n) - k + 1
      /\ \A i \in 1..Len(n) - k + 1 : SubSeq(n, k, Len(n))[i] = n[k + i - 1]
  BY <1>1, SubSeqProperties
<1>3. Len(n) - k + 1 \in 1..Len(n) - k + 1 /\ k + (Len(n) - k + 1) - 1 = Len(n)
  BY ONLY <1>1, k \in 1..Len(n)
<1> QED
  BY <1>2, <1>3

LEMMA FrontIndex ==
  ASSUME NEW S, NEW n \in Seq(S), Len(n) >= 2
  PROVE  /\ SubSeq(n, 1, Len(n) - 1) \in Seq(S) /\ Len(SubSeq(n, 1, Len(n) - 1)) = Len(n) - 1
         /\ \A i \in 1..Len(n) - 1 : SubSeq(n, 1, Len(n) - 1)[i] = n[i]
  OBVIOUS

\* Cutting off the first element, with the last one taken away and put back.
LEMMA TailOfFront ==
  ASSUME NEW S, NEW e \in S, NEW n \in Seq(S), Len(n) > 2, n[Len(n)] = e
  PROVE  Append(Tail(SubSeq(n, 1, Len(n) - 1)), e) = Tail(n)
<1> DEFINE t == SubSeq(n, 1, Len(n) - 1)
           a == Append(Tail(t), e)
<1>1. Len(n) \in Nat /\ Len(n) > 2 /\ n # << >>
  OBVIOUS
<1>2. t \in Seq(S) /\ Len(t) = Len(n) - 1 /\ \A i \in 1..Len(n) - 1 : t[i] = n[i]
  BY <1>1, FrontIndex
<1> HIDE DEF t
<1>3. t # << >>
  BY <1>1, <1>2
<1>4. /\ Tail(t) \in Seq(S) /\ Len(Tail(t)) = Len(n) - 2
      /\ \A i \in 1..Len(n) - 2 : Tail(t)[i] = t[i + 1]
  BY <1>1, <1>2, <1>3, HeadTailProperties
<1>5. /\ Tail(n) \in Seq(S) /\ Len(Tail(n)) = Len(n) - 1
      /\ \A i \in 1..Len(n) - 1 : Tail(n)[i] = n[i + 1]
  BY <1>1, HeadTailProperties
<1>6. /\ a \in Seq(S) /\ Len(a) = Len(n) - 1
      /\ \A i \in 1..Len(n) - 2 : a[i] = Tail(t)[i]
      /\ a[Len(n) - 1] = e
  BY <1>1, <1>4, AppendProperties
<1>7. ASSUME NEW i \in 1..Len(n) - 1 PROVE a[i] = Tail(n)[i]
  <2>1. CASE i = Len(n) - 1
    BY <1>1, <1>5, <1>6, <2>1
  <2>2. CASE i # Len(n) - 1
    <3>1. i \in 1..Len(n) - 2 /\ i + 1 \in 1..Len(n) - 1
      BY <1>1, <2>2
    <3> QED
      BY <1>2, <1>4, <1>5, <1>6, <3>1
  <2> QED
    BY <2>1, <2>2
<1> HIDE DEF a
<1>8. a = Tail(n)
  BY <1>5, <1>6, <1>7, SeqEqual
<1> QED
  BY <1>8 DEF a, t

\* Without its first element a suffix is the next shorter one.
LEMMA TailOfSuffix ==
  ASSUME NEW S, NEW n \in Seq(S), NEW k \in 1..Len(n)
  PROVE  Tail(SubSeq(n, k, Len(n))) = SubSeq(n, k + 1, Len(n))
<1>1. Len(n) \in k..Len(n)
  OBVIOUS
<1> QED
  BY <1>1, HeadTailOfSubSeq

LEMMA AppendLast ==
  ASSUME NEW S, NEW e \in S, NEW t \in Seq(S)
  PROVE  /\ Append(t, e) \in Seq(S) /\ Len(Append(t, e)) = Len(t) + 1
         /\ Append(t, e)[Len(t) + 1] = e
         /\ \A i \in 1..Len(t) : Append(t, e)[i] = t[i]
  BY AppendProperties

LEMMA SingletonType ==
  ASSUME NEW S, NEW e \in S
  PROVE  <<e>> \in Seq(S) /\ <<e>> # << >>
  OBVIOUS

LEMMA PairTail ==
  ASSUME NEW S, NEW e \in S
  PROVE  Len(<<e, e>>) >= 2 /\ Tail(<<e, e>>) = <<e>> /\ <<e, e>>[1] = e
<1>1. <<e, e>> \in Seq(S) /\ Len(<<e, e>>) = 2 /\ <<e, e>>[1] = e /\ <<e, e>>[2] = e
  OBVIOUS
<1>2. <<e>> \in Seq(S) /\ Len(<<e>>) = 1 /\ <<e>>[1] = e
  OBVIOUS
<1> DEFINE p == <<e, e>>
<1>3. Tail(p) \in Seq(S) /\ Len(Tail(p)) = 1 /\ \A i \in 1..1 : Tail(p)[i] = p[i + 1]
  BY <1>1, HeadTailProperties
<1>4. Tail(p) = <<e>>
  BY <1>1, <1>2, <1>3, SeqEqual
<1> QED
  BY <1>1, <1>4

LEMMA TailIndex ==
  ASSUME NEW S, NEW n \in Seq(S), Len(n) >= 2
  PROVE  /\ Tail(n) \in Seq(S) /\ Len(Tail(n)) = Len(n) - 1 /\ Tail(n) # << >>
         /\ \A i \in 1..Len(n) - 1 : Tail(n)[i] = n[i + 1]
<1>1. n # << >> /\ Len(n) \in Nat
  OBVIOUS
<1>2. /\ Tail(n) \in Seq(S) /\ Len(Tail(n)) = Len(n) - 1
      /\ \A i \in 1..Len(n) - 1 : Tail(n)[i] = n[i + 1]
  BY <1>1, HeadTailProperties
<1>3. Len(Tail(n)) # 0
  BY <1>1, <1>2
<1>4. Len(<< >>) = 0
  OBVIOUS
<1>5. Tail(n) # << >>
  BY ONLY <1>3, <1>4
<1> QED
  BY ONLY <1>2, <1>5

\* An element put before a sequence, and taken away again.
LEMMA Prepended ==
  ASSUME NEW S, NEW e \in S, NEW t \in Seq(S)
  PROVE  /\ <<e>> \o t \in Seq(S) /\ Len(<<e>> \o t) = Len(t) + 1
         /\ (<<e>> \o t)[1] = e /\ \A i \in 1..Len(t) : (<<e>> \o t)[i + 1] = t[i]
         /\ Tail(<<e>> \o t) = t
<1>1. <<e>> \in Seq(S) /\ Len(<<e>>) = 1 /\ <<e>>[1] = e /\ Len(t) \in Nat
  OBVIOUS
<1> DEFINE d == <<e>> \o t
<1>2. d \in Seq(S) /\ Len(d) = 1 + Len(t)
      /\ \A i \in 1..1 + Len(t) : d[i] = IF i <= 1 THEN <<e>>[i] ELSE t[i - 1]
  BY <1>1, ConcatProperties
<1> HIDE DEF d
<1>3. d[1] = e /\ \A i \in 1..Len(t) : d[i + 1] = t[i]
  BY <1>1, <1>2
<1>4. Tail(d) = t
  <2>1. d # << >>
    BY <1>1, <1>2
  <2>2. Tail(d) \in Seq(S) /\ Len(Tail(d)) = Len(d) - 1
        /\ \A i \in 1..Len(d) - 1 : Tail(d)[i] = d[i + 1]
    BY <1>2, <2>1, HeadTailProperties
  <2>3. Len(Tail(d)) = Len(t) /\ \A i \in 1..Len(t) : Tail(d)[i] = t[i]
    BY <1>1, <1>2, <1>3, <2>2
  <2> QED
    BY <2>2, <2>3, SeqEqual
<1> QED
  BY <1>1, <1>2, <1>3, <1>4 DEF d

\* A sequence is its first element before the rest.
LEMMA FirstAndRest ==
  ASSUME NEW S, NEW e \in S, NEW t \in Seq(S), Len(t) >= 2, t[1] = e
  PROVE  t = <<e>> \o Tail(t)
<1> DEFINE d == <<e>> \o Tail(t)
<1>1. /\ Tail(t) \in Seq(S) /\ Len(Tail(t)) = Len(t) - 1 /\ Len(t) \in Nat
      /\ \A i \in 1..Len(t) - 1 : Tail(t)[i] = t[i + 1]
  BY TailIndex
<1>2. /\ d \in Seq(S) /\ Len(d) = Len(Tail(t)) + 1 /\ d[1] = e
      /\ \A i \in 1..Len(Tail(t)) : d[i + 1] = Tail(t)[i]
  BY <1>1, Prepended
<1> HIDE DEF d
<1>3. ASSUME NEW i \in 1..Len(t) PROVE d[i] = t[i]
  <2>1. CASE i = 1
    BY <1>2, <2>1
  <2>2. CASE i # 1
    <3>1. i - 1 \in 1..Len(t) - 1 /\ (i - 1) + 1 = i
      BY <1>1, <2>2
    <3>2. d[i] = Tail(t)[i - 1]
      BY <1>1, <1>2, <3>1
    <3>3. Tail(t)[i - 1] = t[i]
      BY <1>1, <3>1
    <3> QED
      BY <3>2, <3>3
  <2> QED
    BY <2>1, <2>2
<1>4. Len(d) = Len(t)
  BY ONLY <1>1, <1>2
<1>5. d = t
  BY <1>2, <1>3, <1>4, SeqEqual
<1> QED
  BY <1>5 DEF d

\* The last element put behind a sequence, and taken away again.
LEMMA FrontOfAppend ==
  ASSUME NEW S, NEW e \in S, NEW t \in Seq(S)
  PROVE  SubSeq(Append(t, e), 1, Len(Append(t, e)) - 1) = t
<1> DEFINE a == Append(t, e)
<1>1. a \in Seq(S) /\ Len(a) = Len(t) + 1 /\ \A i \in 1..Len(t) : a[i] = t[i]
  BY AppendLast
<1> HIDE DEF a
<1>2. Len(t) \in Nat /\ Len(a) - 1 = Len(t)
  BY <1>1
<1>3. SubSeq(a, 1, Len(t)) \in Seq(S) /\ Len(SubSeq(a, 1, Len(t))) = Len(t)
      /\ \A i \in 1..Len(t) : SubSeq(a, 1, Len(t))[i] = a[i]
  BY <1>1, <1>2
<1>4. SubSeq(a, 1, Len(t)) = t
  BY <1>1, <1>3, SeqEqual
<1> QED
  BY <1>2, <1>4 DEF a

\* Putting before and putting behind commute.
LEMMA PrependAppend ==
  ASSUME NEW S, NEW e \in S, NEW t \in Seq(S)
  PROVE  <<e>> \o Append(t, e) = Append(<<e>> \o t, e)
<1> DEFINE a == <<e>> \o Append(t, e)
           b == Append(<<e>> \o t, e)
<1>1. /\ Append(t, e) \in Seq(S) /\ Len(Append(t, e)) = Len(t) + 1 /\ Len(t) \in Nat
      /\ Append(t, e)[Len(t) + 1] = e /\ \A i \in 1..Len(t) : Append(t, e)[i] = t[i]
  BY AppendLast
<1>2. /\ <<e>> \o t \in Seq(S) /\ Len(<<e>> \o t) = Len(t) + 1
      /\ (<<e>> \o t)[1] = e /\ \A i \in 1..Len(t) : (<<e>> \o t)[i + 1] = t[i]
  BY Prepended
<1>3. /\ a \in Seq(S) /\ Len(a) = Len(Append(t, e)) + 1 /\ a[1] = e
      /\ \A i \in 1..Len(Append(t, e)) : a[i + 1] = Append(t, e)[i]
  BY <1>1, Prepended
<1>4. /\ b \in Seq(S) /\ Len(b) = Len(<<e>> \o t) + 1 /\ b[Len(<<e>> \o t) + 1] = e
      /\ \A i \in 1..Len(<<e>> \o t) : b[i] = (<<e>> \o t)[i]
  BY <1>2, AppendLast
<1> HIDE DEF a, b
<1>5. Len(a) = Len(t) + 2 /\ Len(b) = Len(t) + 2
  BY <1>1, <1>2, <1>3, <1>4
<1>6. ASSUME NEW i \in 1..Len(t) + 2 PROVE a[i] = b[i]
  <2>1. CASE i = 1
    BY <1>1, <1>2, <1>3, <1>4, <2>1
  <2>2. CASE i = Len(t) + 2
    BY <1>1, <1>2, <1>3, <1>4, <2>2
  <2>3. CASE i # 1 /\ i # Len(t) + 2
    <3>1. i - 1 \in 1..Len(t) /\ i - 1 \in 1..Len(t) + 1 /\ i \in 1..Len(t) + 1 /\ (i - 1) + 1 = i
      BY <1>1, <2>3
    <3>2. a[i] = t[i - 1]
      BY <1>1, <1>3, <3>1
    <3>3. b[i] = t[i - 1]
      BY <1>2, <1>4, <3>1
    <3> QED
      BY <3>2, <3>3
  <2> QED
    BY <2>1, <2>2, <2>3
<1>7. a = b
  BY <1>3, <1>4, <1>5, <1>6, SeqEqual
<1> QED
  BY <1>7 DEF a, b

\* A suffix without its last element is a suffix of the front.
LEMMA FrontOfSuffix ==
  ASSUME NEW S, NEW n \in Seq(S), Len(n) >= 2, NEW k \in 1..Len(n) - 1,
         NEW d, d = SubSeq(n, 1, Len(n) - 1)
  PROVE  LET s == SubSeq(d, k, Len(d))
         IN  /\ s \in Seq(S) /\ Len(s) = Len(d) - k + 1 /\ Len(d) = Len(n) - 1
             /\ \A i \in 1..Len(s) : s[i] = n[k + i - 1]
             /\ s[Len(s)] = d[Len(d)] /\ Append(s, n[Len(n)]) = SubSeq(n, k, Len(n))
<1> DEFINE s == SubSeq(d, k, Len(d))
           e == n[Len(n)]
           a == Append(s, e)
           f == SubSeq(n, k, Len(n))
<1>1. Len(n) \in Nat /\ Len(n) >= 2 /\ e \in S
  OBVIOUS
<1> HIDE DEF e
<1>2. d \in Seq(S) /\ Len(d) = Len(n) - 1 /\ \A i \in 1..Len(n) - 1 : d[i] = n[i]
  BY FrontIndex
<1>3. k \in 1..Len(d) /\ k \in 1..Len(n)
  BY ONLY <1>1, <1>2, k \in 1..Len(n) - 1
<1>4. /\ s \in Seq(S) /\ Len(s) = Len(d) - k + 1
      /\ \A i \in 1..Len(d) - k + 1 : s[i] = d[k + i - 1]
      /\ s[Len(d) - k + 1] = d[Len(d)]
  BY <1>2, <1>3, SuffixIndex
<1> HIDE DEF s
<1>5. ASSUME NEW i \in 1..Len(s) PROVE s[i] = n[k + i - 1]
  BY <1>1, <1>2, <1>3, <1>4
<1>6. a = f
  <2>1. /\ f \in Seq(S) /\ Len(f) = Len(n) - k + 1
        /\ \A i \in 1..Len(n) - k + 1 : f[i] = n[k + i - 1]
        /\ f[Len(n) - k + 1] = e
    BY <1>3, SuffixIndex DEF e
  <2>2. /\ a \in Seq(S) /\ Len(a) = Len(s) + 1 /\ a[Len(s) + 1] = e
        /\ \A i \in 1..Len(s) : a[i] = s[i]
    BY <1>1, <1>4, AppendLast
  <2> HIDE DEF a, f
  <2>3. Len(s) = Len(n) - k /\ Len(a) = Len(n) - k + 1 /\ Len(s) \in Nat
    BY ONLY <1>1, <1>2, <1>3, <1>4, <2>2
  <2>4. ASSUME NEW i \in 1..Len(a) PROVE a[i] = f[i]
    <3>1. CASE i = Len(s) + 1
      BY <1>1, <2>1, <2>2, <2>3, <3>1
    <3>2. CASE i # Len(s) + 1
      <4>1. i \in 1..Len(s) /\ i \in 1..Len(n) - k + 1
        BY ONLY <1>1, <1>3, <2>3, <3>2, i \in 1..Len(a)
      <4> QED
        BY <1>5, <2>1, <2>2, <4>1
    <3> QED
      BY <3>1, <3>2
  <2> QED
    BY <2>1, <2>2, <2>3, <2>4, SeqEqual
<1> QED
  BY <1>2, <1>4, <1>5, <1>6 DEF s, a, f, e

(***************************************************************************)
(* Names                                                                   *)
(***************************************************************************)

LEMMA EmptyLength == Len(Empty) = 1
  BY DEF Empty

LEMMA RootedType ==
  ASSUME NEW n, Rooted(n)
  PROVE  n \in Seq(Labels) /\ Len(n) \in Nat /\ Len(n) >= 2
<1>1. n \in Seq(Labels) /\ Len(n) >= 2
  BY DEF Rooted
<1> QED
  BY ONLY <1>1

LEMMA FromRooted ==
  ASSUME NEW n, Rooted(n), NEW k \in 1..Len(n) - 1
  PROVE  Rooted(From(n, k)) /\ Len(From(n, k)) = Len(n) - k + 1
<1>1. n \in Seq(Labels) /\ Len(n) \in Nat
  BY RootedType
<1>2. k \in 1..Len(n) /\ Len(n) - k + 1 >= 2
  BY ONLY <1>1, k \in 1..Len(n) - 1
<1>3. /\ From(n, k) \in Seq(Labels) /\ Len(From(n, k)) = Len(n) - k + 1
      /\ From(n, k)[Len(n) - k + 1] = n[Len(n)]
  BY <1>1, <1>2, SuffixIndex DEF From
<1>4. n[Len(n)] = ""
  BY DEF Rooted
<1> QED
  BY <1>2, <1>3, <1>4 DEF Rooted

\* The parent of a name in normal form is what follows its first label.
LEMMA ParentOfRooted ==
  ASSUME NEW n, Rooted(n)
  PROVE  ParentDomain(n) = IF Len(n) = 2 THEN Empty ELSE Tail(n)
<1> DEFINE t == SubSeq(n, 1, Len(n) - 1)
<1>1. n \in Seq(Labels) /\ Len(n) \in Nat /\ Len(n) >= 2
  BY RootedType
<1>2. n[Len(n)] = ""
  BY DEF Rooted
<1>3. TrimTrailingDot(n) = t
  BY <1>1, <1>2 DEF TrimTrailingDot, HasTrailingDot, Front
<1>4. Len(t) = Len(n) - 1
  BY <1>1, FrontIndex
<1>5. ParentDomain(n) = IF Len(t) = 1 THEN Empty ELSE Append(Tail(t), "")
  BY <1>3 DEF ParentDomain
<1>6. Len(n) > 2 => Append(Tail(t), "") = Tail(n)
  BY <1>1, <1>2, LabelsAssumption, TailOfFront
<1> HIDE DEF t
<1>7. (Len(t) = 1 <=> Len(n) = 2) /\ (Len(n) = 2 \/ Len(n) > 2)
  BY ONLY <1>1, <1>4
<1> QED
  BY <1>5, <1>6, <1>7

LEMMA TrimmedType ==
  ASSUME NEW text \in Seq(Labels), text # << >>
  PROVE  TrimLeadingDot(text) \in Seq(Labels) /\ TrimLeadingDot(text) # << >>
<1>1. CASE HasLeadingDot(text)
  <2>1. Len(text) >= 2
    BY <1>1 DEF HasLeadingDot
  <2>2. Tail(text) \in Seq(Labels) /\ Tail(text) # << >>
    BY <2>1, TailIndex
  <2>3. TrimLeadingDot(text) = Tail(text)
    BY <1>1 DEF TrimLeadingDot
  <2> QED
    BY <2>2, <2>3
<1>2. CASE ~HasLeadingDot(text)
  BY <1>2 DEF TrimLeadingDot
<1> QED
  BY <1>1, <1>2

LEMMA UnstarredType ==
  ASSUME NEW text \in Seq(Labels), text # << >>
  PROVE  TrimStar(text) \in Seq(Labels) /\ TrimStar(text) # << >>
<1>1. CASE HasStar(text)
  <2>1. Len(text) >= 2
    BY <1>1 DEF HasStar
  <2>2. Tail(text) \in Seq(Labels) /\ Tail(text) # << >>
    BY <2>1, TailIndex
  <2>3. TrimStar(text) = Tail(text)
    BY <1>1 DEF TrimStar
  <2> QED
    BY <2>2, <2>3
<1>2. CASE ~HasStar(text)
  BY <1>2 DEF TrimStar
<1> QED
  BY <1>1, <1>2

\* With its trailing dot added.
LEMMA AppendedRooted ==
  ASSUME NEW t \in Seq(Labels), t # << >>
  PROVE  Rooted(Append(t, ""))
<1>1. /\ Append(t, "") \in Seq(Labels) /\ Len(Append(t, "")) = Len(t) + 1
      /\ Append(t, "")[Len(t) + 1] = ""
  BY LabelsAssumption, AppendLast
<1>2. Len(t) \in Nat /\ Len(t) >= 1
  OBVIOUS
<1>3. Len(t) + 1 >= 2
  BY ONLY <1>2
<1> QED
  BY <1>1, <1>3 DEF Rooted

\* The normal form is empty or ends with a dot.
LEMMA Normalized ==
  ASSUME NEW text \in Seq(Labels), text # << >>
  PROVE  NormalizeName(text) = Empty \/ Rooted(NormalizeName(text))
<1> DEFINE t == TrimLeadingDot(text)
<1>1. t \in Seq(Labels) /\ t # << >>
  BY TrimmedType
<1>2. NormalizeName(text) = IF t = Empty \/ HasTrailingDot(t) THEN t ELSE Append(t, "")
  BY DEF NormalizeName
<1> HIDE DEF t
<1>3. HasTrailingDot(t) => Rooted(t)
  BY <1>1 DEF HasTrailingDot, Rooted
<1> QED
  BY <1>1, <1>2, <1>3, AppendedRooted

\* A name that has no dot before it and one behind it is in normal form.
LEMMA NormalStays ==
  ASSUME NEW n, Rooted(n), n[1] # ""
  PROVE  NormalizeName(n) = n
<1>1. TrimLeadingDot(n) = n
  BY DEF TrimLeadingDot, HasLeadingDot
<1>2. HasTrailingDot(n)
  BY DEF HasTrailingDot, Rooted
<1> QED
  BY <1>1, <1>2 DEF NormalizeName

\* What handleDNS asks for: the empty name for the root, or the name itself.
LEMMA NormalizedQuery ==
  ASSUME NEW q \in Queries
  PROVE  LET n == NormalizeName(NormalizeName(q))
         IN  n = Empty \/ (Rooted(n) /\ FullLabels(n))
<1>1. q \in Seq(Labels)
  BY TextsAssumption
<1>2. CASE q = <<"", "">>
  <2>1. Len(<<"", "">>) >= 2 /\ Tail(<<"", "">>) = <<"">> /\ <<"", "">>[1] = ""
    BY LabelsAssumption, PairTail
  <2>2. TrimLeadingDot(q) = Empty
    BY ONLY <1>2, <2>1, Zenon DEF TrimLeadingDot, HasLeadingDot, Empty
  <2>3. ~HasLeadingDot(Empty)
    BY EmptyLength DEF HasLeadingDot
  <2>4. NormalizeName(q) = Empty /\ NormalizeName(Empty) = Empty
    BY <2>2, <2>3 DEF NormalizeName, TrimLeadingDot
  <2> QED
    BY <2>4
<1>3. CASE Len(q) >= 2 /\ q[Len(q)] = "" /\ FullLabels(q)
  <2>1. Rooted(q)
    BY <1>1, <1>3 DEF Rooted
  <2>2. q[1] # ""
    <3>1. Len(q) \in Nat /\ Len(q) >= 2
      BY <2>1, RootedType
    <3>2. 1 \in 1..Len(q) - 1
      BY ONLY <3>1
    <3> QED
      BY <1>3, <3>2 DEF FullLabels
  <2> QED
    BY <1>3, <2>1, <2>2, NormalStays
<1> QED
  BY <1>2, <1>3, QueriesAssumption

\* What passes for a domain has two labels, a dot behind them not counted.
LEMMA DomainLength ==
  ASSUME NEW t \in Seq(Labels), IsDomain(t)
  PROVE  Len(t) >= 2 /\ (HasTrailingDot(t) => Len(t) >= 3)
<1>1. Len(TrimTrailingDot(t)) >= 2
  BY DEF IsDomain
<1>2. CASE HasTrailingDot(t)
  <2>1. Len(t) >= 2 /\ TrimTrailingDot(t) = SubSeq(t, 1, Len(t) - 1)
    BY <1>2 DEF HasTrailingDot, TrimTrailingDot, Front
  <2>2. Len(TrimTrailingDot(t)) = Len(t) - 1 /\ Len(t) \in Nat
    BY <2>1, FrontIndex
  <2>3. Len(t) >= 3
    BY ONLY <1>1, <2>2
  <2> QED
    BY <2>1, <2>3
<1>3. CASE ~HasTrailingDot(t)
  BY <1>1, <1>3 DEF TrimTrailingDot
<1> QED
  BY <1>2, <1>3

\* An entry taken from a line is not empty.
LEMMA ParsedRooted ==
  ASSUME NEW line \in Lines, NEW e \in Parsed(line)
  PROVE  Rooted(e)
<1> DEFINE rest == TrimStar(line.text)
           token == TrimLeadingDot(rest)
<1>1. line.text \in Seq(Labels) /\ line.text # << >>
  BY TextsAssumption DEF Lines
<1>2. token \in Seq(Labels) /\ token # << >>
  <2>1. rest \in Seq(Labels) /\ rest # << >>
    BY <1>1, UnstarredType
  <2> HIDE DEF rest
  <2> QED
    BY <2>1, TrimmedType
<1>3. IsDomain(token) /\ e = NormalizeName(token)
  BY DEF Parsed, Token
<1> HIDE DEF token
<1>4. e # Empty
  <2> SUFFICES ASSUME NormalizeName(token) = Empty PROVE FALSE
    BY <1>3
  <2> DEFINE t == TrimLeadingDot(token)
  <2>1. t = Empty
    <3>1. t \in Seq(Labels) /\ t # << >>
      BY <1>2, TrimmedType
    <3>2. Empty = IF t = Empty \/ HasTrailingDot(t) THEN t ELSE Append(t, "")
      BY DEF NormalizeName
    <3>3. Append(t, "") # Empty
      <4>1. Rooted(Append(t, ""))
        BY <3>1, AppendedRooted
      <4>2. Len(Append(t, "")) >= 2
        BY <4>1, RootedType
      <4>3. ~(1 >= 2)
        OBVIOUS
      <4>4. ~(Len(Empty) >= 2)
        BY ONLY <4>3, EmptyLength, Zenon
      <4> QED
        BY ONLY <4>2, <4>4, Zenon
    <3> HIDE DEF t
    <3> QED
      BY <3>2, <3>3
  <2>2. Len(token) >= 2 /\ (HasTrailingDot(token) => Len(token) >= 3)
    BY <1>2, <1>3, DomainLength
  <2>3. CASE HasLeadingDot(token)
    <3>1. Tail(token) = Empty
      BY <2>1, <2>3 DEF TrimLeadingDot
    <3>2. /\ Len(Tail(token)) = Len(token) - 1 /\ Len(token) \in Nat
          /\ \A i \in 1..Len(token) - 1 : Tail(token)[i] = token[i + 1]
      BY <1>2, <2>2, TailIndex
    <3>3. Len(Empty) = 1 /\ Empty[1] = ""
      BY EmptyLength DEF Empty
    <3>4. Len(token) = 2
      <4>1. Len(token) - 1 = 1
        BY <3>1, <3>2, <3>3
      <4> QED
        BY ONLY <3>2, <4>1
    <3>5. token[2] = ""
      <4>1. 1 \in 1..Len(token) - 1 /\ 1 + 1 = 2
        BY ONLY <3>4
      <4> QED
        BY <3>1, <3>2, <3>3, <4>1
    <3>6. HasTrailingDot(token)
      <4>1. Len(token) >= 2
        BY ONLY <3>4
      <4>2. token[Len(token)] = ""
        BY ONLY <3>4, <3>5
      <4> QED
        BY ONLY <4>1, <4>2 DEF HasTrailingDot
    <3> QED
      BY <2>2, <3>4, <3>6
  <2>4. CASE ~HasLeadingDot(token)
    <3>1. token = Empty
      BY <2>1, <2>4 DEF TrimLeadingDot
    <3> QED
      BY ONLY <2>2, <3>1, EmptyLength
  <2> QED
    BY <2>3, <2>4
<1> QED
  BY <1>2, <1>3, <1>4, Normalized

(***************************************************************************)
(* The inductive invariant                                                 *)
(***************************************************************************)

\* The whole name is the first of its suffixes.
LEMMA FromStart ==
  ASSUME NEW n \in Seq(Labels)
  PROVE  From(n, 1) = n
  BY SubSeqFull DEF From

\* The parent of a suffix is the next suffix, and the last one has none.
LEMMA ParentOfSuffix ==
  ASSUME NEW n, Rooted(n), NEW k \in 1..Len(n) - 1
  PROVE  ParentDomain(From(n, k)) = IF k = Len(n) - 1 THEN Empty ELSE From(n, k + 1)
<1>1. n \in Seq(Labels) /\ Len(n) \in Nat
  BY RootedType
<1>2. Rooted(From(n, k)) /\ Len(From(n, k)) = Len(n) - k + 1
  BY FromRooted
<1>3. ParentDomain(From(n, k)) = IF Len(From(n, k)) = 2 THEN Empty ELSE Tail(From(n, k))
  BY <1>2, ParentOfRooted
<1>4. k \in 1..Len(n) /\ (Len(n) - k + 1 = 2 <=> k = Len(n) - 1)
  BY ONLY <1>1, k \in 1..Len(n) - 1
<1>5. Tail(From(n, k)) = From(n, k + 1)
  BY <1>1, <1>4, TailOfSuffix DEF From
<1> QED
  BY ONLY <1>2, <1>3, <1>4, <1>5

LEMMA InitIInv == Init => IInv
<1> SUFFICES ASSUME Init PROVE IInv
  OBVIOUS
<1>1. PICK n \in 0..MaxLines : lines \in [1..n -> Lines]
  BY DEF Init
<1>2. n \in Nat
  BY MaxLinesAssumption
<1>3. lines \in Seq(Lines)
  BY ONLY <1>1, <1>2
<1>4. /\ listed = {} /\ entries = {} /\ qname = Empty /\ found = FALSE /\ pc = "parse"
  BY DEF Init
<1>5. TypeOK
  BY <1>3, <1>4 DEF TypeOK
<1> QED
  BY <1>4, <1>5 DEF IInv, WalkInv

LEMMA ParseLineIInv == IInv /\ ParseLine => IInv'
<1> SUFFICES ASSUME IInv, ParseLine PROVE IInv'
  OBVIOUS
<1> DEFINE line == Head(lines)
<1>1. lines \in Seq(Lines) /\ lines # << >>
  BY DEF IInv, TypeOK, ParseLine
<1>2. line \in Lines /\ Tail(lines) \in Seq(Lines)
  BY <1>1, HeadTailProperties
<1>3. /\ lines' = Tail(lines) /\ listed' = listed \cup {line}
      /\ entries' = entries \cup Parsed(line)
      /\ UNCHANGED <<qname, candidate, found, pc>> /\ pc = "parse"
  BY DEF ParseLine
<1>4. /\ listed \subseteq Lines /\ entries = UNION {Parsed(l) : l \in listed}
      /\ \A e \in entries : Rooted(e)
      /\ qname = Empty \/ (Rooted(qname) /\ FullLabels(qname))
      /\ found \in BOOLEAN
  BY DEF IInv, TypeOK
<1> HIDE DEF line
<1>5. listed' \subseteq Lines /\ entries' = UNION {Parsed(l) : l \in listed'}
  BY ONLY <1>2, <1>3, <1>4, Zenon
<1>6. \A e \in entries' : Rooted(e)
  <2> SUFFICES ASSUME NEW e \in entries' PROVE Rooted(e)
    OBVIOUS
  <2>1. e \in entries \/ e \in Parsed(line)
    BY ONLY <1>3, e \in entries', Zenon
  <2> QED
    BY <1>2, <1>4, <2>1, ParsedRooted
<1>7. TypeOK'
  BY <1>2, <1>3, <1>4, <1>5, <1>6 DEF TypeOK
<1> QED
  BY <1>3, <1>7 DEF IInv, WalkInv

LEMMA AskIInv == IInv /\ Ask => IInv'
<1> SUFFICES ASSUME IInv, Ask PROVE IInv'
  OBVIOUS
<1>1. PICK q \in Queries : qname' = NormalizeName(NormalizeName(q))
  BY DEF Ask
<1>2. q \in Seq(Labels) /\ q # << >>
  BY TextsAssumption
<1>3. qname' = Empty \/ (Rooted(qname') /\ FullLabels(qname'))
  BY <1>1, <1>2, NormalizedQuery
<1>4. qname' = Empty \/ Rooted(qname')
  BY <1>3
<1>5. /\ candidate' = qname' /\ found' = FALSE /\ pc' = "walk"
      /\ UNCHANGED <<lines, listed, entries>>
  BY DEF Ask
<1>6. TypeOK'
  BY <1>3, <1>5 DEF IInv, TypeOK
<1>7. CASE qname' = Empty
  <2>1. 1..Len(qname') - 1 = {}
    BY <1>7, EmptyLength
  <2> QED
    BY <1>5, <1>6, <1>7, <2>1 DEF IInv, WalkInv
<1>8. CASE Rooted(qname')
  <2>1. qname' \in Seq(Labels) /\ Len(qname') \in Nat /\ Len(qname') >= 2
    BY <1>8, RootedType
  <2>2. 1 \in 1..Len(qname') - 1 /\ 1..1 - 1 = {}
    BY ONLY <2>1
  <2>3. candidate' = From(qname', 1)
    BY <1>5, <2>1, FromStart
  <2> QED
    BY <1>5, <1>6, <2>2, <2>3 DEF IInv, WalkInv
<1> QED
  BY <1>4, <1>7, <1>8

LEMMA WalkIInv == IInv /\ Walk => IInv'
<1> SUFFICES ASSUME IInv, Walk PROVE IInv'
  OBVIOUS
<1>1. pc = "walk" /\ UNCHANGED <<lines, listed, entries, qname>>
  BY DEF Walk
<1>2. TypeOK'
  BY <1>1 DEF IInv, TypeOK, Walk
<1>3. qname = Empty \/ Rooted(qname)
  BY DEF IInv, TypeOK
<1>4. CASE candidate = Empty
  <2>1. pc' = "done" /\ UNCHANGED <<candidate, found>>
    BY <1>4 DEF Walk
  <2>2. ~found /\ \A k \in 1..Len(qname) - 1 : From(qname, k) \notin entries
    <3>1. ASSUME NEW k \in 1..Len(qname) - 1, candidate = From(qname, k) PROVE FALSE
      <4>1. CASE qname = Empty
        BY <4>1, EmptyLength
      <4>2. CASE Rooted(qname)
        <5>1. Rooted(Empty)
          BY <1>4, <3>1, <4>2, FromRooted
        <5>2. Len(Empty) >= 2
          BY <5>1, RootedType
        <5> QED
          BY ONLY <5>2, EmptyLength
      <4> QED
        BY <1>3, <4>1, <4>2
    <3> QED
      BY <1>1, <3>1 DEF IInv, WalkInv
  <2> QED
    BY <1>1, <1>2, <1>4, <2>1, <2>2 DEF IInv, WalkInv
<1>5. CASE candidate # Empty
  <2>1. PICK k \in 1..Len(qname) - 1 :
          /\ candidate = From(qname, k)
          /\ \A m \in 1..k - 1 : From(qname, m) \notin entries
    BY <1>1, <1>5 DEF IInv, WalkInv
  <2>2. ~found
    BY <1>1 DEF IInv, WalkInv
  <2>3. CASE candidate \in entries
    <3>1. pc' = "done" /\ found' = TRUE /\ candidate' = candidate
      BY <1>5, <2>3 DEF Walk
    <3> QED
      BY <1>1, <1>2, <2>1, <2>3, <3>1 DEF IInv, WalkInv
  <2>4. CASE candidate \notin entries
    <3>1. candidate' = ParentDomain(candidate) /\ UNCHANGED <<found, pc>>
      BY <1>5, <2>4 DEF Walk
    <3>2. Rooted(qname)
      <4>1. Len(qname) # 1
        <5>1. 1..1 - 1 = {}
          OBVIOUS
        <5> QED
          BY ONLY <5>1, k \in 1..Len(qname) - 1, Zenon
      <4>2. qname # Empty
        BY ONLY <4>1, EmptyLength, Zenon
      <4> QED
        BY <1>3, <4>2
    <3>3. Len(qname) \in Nat
      BY <3>2, RootedType
    <3>4. candidate' = IF k = Len(qname) - 1 THEN Empty ELSE From(qname, k + 1)
      BY <2>1, <3>1, <3>2, ParentOfSuffix
    <3>5. \A m \in 1..k : From(qname, m) \notin entries
      <4> SUFFICES ASSUME NEW m \in 1..k PROVE From(qname, m) \notin entries
        OBVIOUS
      <4>1. m = k \/ m \in 1..k - 1
        BY ONLY k \in 1..Len(qname) - 1, <3>3, m \in 1..k
      <4> QED
        BY <2>1, <2>4, <4>1
    <3>6. CASE k = Len(qname) - 1
      BY <1>1, <1>2, <2>2, <3>1, <3>4, <3>5, <3>6 DEF IInv, WalkInv
    <3>7. CASE k # Len(qname) - 1
      <4>1. k + 1 \in 1..Len(qname) - 1 /\ (k + 1) - 1 = k
        BY ONLY k \in 1..Len(qname) - 1, <3>3, <3>7
      <4>2. candidate' = From(qname, k + 1)
        BY <3>4, <3>7
      <4>3. \A m \in 1..(k + 1) - 1 : From(qname, m) \notin entries
        BY <3>5, <4>1
      <4> QED
        BY <1>1, <1>2, <2>2, <3>1, <4>1, <4>2, <4>3 DEF IInv, WalkInv
    <3> QED
      BY <3>6, <3>7
  <2> QED
    BY <2>3, <2>4
<1> QED
  BY <1>4, <1>5

\* The invariant of the walk holds for every list, every name asked and any
\* number of questions (parseBlocklistDomains, MatchBlocklist).
THEOREM AlwaysIInv == Spec => []IInv
<1>1. IInv /\ [Next]_vars => IInv'
  <2> SUFFICES ASSUME IInv, [Next]_vars PROVE IInv'
    OBVIOUS
  <2>1. CASE ParseEnds
    BY <2>1 DEF ParseEnds, IInv, TypeOK, WalkInv
  <2>2. CASE UNCHANGED vars
    BY <2>2 DEF vars, IInv, TypeOK, WalkInv
  <2> QED
    BY <2>1, <2>2, ParseLineIInv, AskIInv, WalkIInv DEF Next
<1> QED
  BY <1>1, InitIInv, PTL DEF Spec

(***************************************************************************)
(* What a list decides                                                     *)
(***************************************************************************)

\* The suffix test of MatchRule finds a suffix of the walk, and each of them.
LEMMA MatchIsSuffix ==
  ASSUME NEW n, Rooted(n), NEW e, Rooted(e)
  PROVE  RuleMatches(n, e) <=> \E k \in 1..Len(n) - 1 : e = From(n, k)
<1>1. n \in Seq(Labels) /\ Len(n) \in Nat /\ Len(n) >= 2
  BY RootedType
<1>2. Len(e) \in Nat /\ Len(e) >= 2
  BY RootedType
<1>3. ASSUME RuleMatches(n, e) PROVE \E k \in 1..Len(n) - 1 : e = From(n, k)
  <2>1. CASE n = e
    <3>1. 1 \in 1..Len(n) - 1
      BY ONLY <1>1
    <3>2. e = From(n, 1)
      BY <1>1, <2>1, FromStart
    <3> QED
      BY ONLY <3>1, <3>2
  <2>2. CASE Len(n) > Len(e) /\ SubSeq(n, Len(n) - Len(e) + 1, Len(n)) = e
    <3>1. Len(n) - Len(e) + 1 \in 1..Len(n) - 1
      BY ONLY <1>1, <1>2, <2>2
    <3>2. e = From(n, Len(n) - Len(e) + 1)
      BY <2>2 DEF From
    <3> QED
      BY ONLY <3>1, <3>2
  <2> QED
    BY <1>3, <2>1, <2>2 DEF RuleMatches
<1>4. ASSUME NEW k \in 1..Len(n) - 1, e = From(n, k) PROVE RuleMatches(n, e)
  <2>1. Len(e) = Len(n) - k + 1
    BY <1>4, FromRooted
  <2>2. CASE k = 1
    BY <1>1, <1>4, <2>2, FromStart DEF RuleMatches
  <2>3. CASE k # 1
    <3>1. Len(n) > Len(e) /\ Len(n) - Len(e) + 1 = k
      BY ONLY <1>1, <1>2, <2>1, <2>3, k \in 1..Len(n) - 1
    <3>2. SubSeq(n, Len(n) - Len(e) + 1, Len(n)) = e
      BY <1>4, <3>1 DEF From
    <3> QED
      BY <3>1, <3>2 DEF RuleMatches
  <2> QED
    BY <2>2, <2>3
<1> QED
  BY <1>3, <1>4

\* A block list decides like the same targets as rules, for every list and
\* every name: the walk of MatchBlocklist over the parents meets an entry
\* exactly when the suffix test of MatchRule accepts one.
THEOREM ListsAreRules == Spec => []ListsDecideLikeRules
<1>1. IInv => ListsDecideLikeRules
  <2> SUFFICES ASSUME IInv, pc = "done"
               PROVE  found <=> \E e \in entries : RuleMatches(qname, e)
    BY DEF ListsDecideLikeRules
  <2>1. found \in BOOLEAN /\ (qname = Empty \/ Rooted(qname)) /\ \A e \in entries : Rooted(e)
    BY DEF IInv, TypeOK
  <2>2. \/ ~found /\ \A k \in 1..Len(qname) - 1 : From(qname, k) \notin entries
        \/ found /\ \E k \in 1..Len(qname) - 1 : From(qname, k) \in entries
    BY DEF IInv, WalkInv
  <2>3. CASE qname = Empty
    <3>1. ~found
      BY <2>2, <2>3, EmptyLength
    <3>2. ASSUME NEW e \in entries, RuleMatches(qname, e) PROVE FALSE
      <4>1. Len(e) \in Nat /\ Len(e) >= 2
        BY <2>1, RootedType
      <4>2. qname = e \/ Len(qname) > Len(e)
        BY <3>2 DEF RuleMatches
      <4>3. Len(qname) = 1
        BY ONLY <2>3, EmptyLength, Zenon
      <4>4. Len(e) # 1
        <5>1. ~(1 >= 2)
          OBVIOUS
        <5> QED
          BY ONLY <4>1, <5>1, Zenon
      <4>5. qname # e
        BY ONLY <4>3, <4>4, Zenon
      <4> QED
        BY ONLY <4>1, <4>2, <4>3, <4>5
    <3> QED
      BY <3>1, <3>2
  <2>4. CASE Rooted(qname)
    <3>1. \A e \in entries :
            RuleMatches(qname, e) <=> \E k \in 1..Len(qname) - 1 : e = From(qname, k)
      BY <2>1, <2>4, MatchIsSuffix
    <3> QED
      BY ONLY <2>2, <3>1, Zenon
  <2> QED
    BY <2>1, <2>3, <2>4
<1> QED
  BY <1>1, AlwaysIInv, PTL

(***************************************************************************)
(* What a line writes                                                      *)
(***************************************************************************)

\* A domain: labels that are not empty.
Plain(d) == d \in Seq(Labels) /\ Len(d) >= 1 /\ \A k \in 1..Len(d) : d[k] # ""

Ends(d) == {d, Append(d, "")}

LEMMA DotBefore ==
  ASSUME NEW t \in Seq(Labels)
  PROVE  /\ <<"">> \o t \in Seq(Labels) /\ Len(<<"">> \o t) = Len(t) + 1
         /\ (<<"">> \o t)[1] = "" /\ \A i \in 1..Len(t) : (<<"">> \o t)[i + 1] = t[i]
         /\ Tail(<<"">> \o t) = t
  BY LabelsAssumption, Prepended, Zenon

LEMMA AppendIndex ==
  ASSUME NEW S, NEW e \in S, NEW t \in Seq(S), NEW i \in 1..Len(t)
  PROVE  Append(t, e)[i] = t[i]
  BY AppendLast

LEMMA DotBehind ==
  ASSUME NEW t \in Seq(Labels)
  PROVE  /\ Append(t, "") \in Seq(Labels) /\ Len(Append(t, "")) = Len(t) + 1
         /\ Append(t, "")[Len(t) + 1] = ""
         /\ \A i \in 1..Len(t) : Append(t, "")[i] = t[i]
<1>1. /\ Append(t, "") \in Seq(Labels) /\ Len(Append(t, "")) = Len(t) + 1
      /\ Append(t, "")[Len(t) + 1] = ""
  BY LabelsAssumption, AppendLast
<1>2. ASSUME NEW i \in 1..Len(t) PROVE Append(t, "")[i] = t[i]
  BY LabelsAssumption, AppendIndex, Zenon
<1> QED
  BY <1>1, <1>2, Zenon

LEMMA OneMore ==
  ASSUME NEW n \in Nat, n >= 1
  PROVE  n + 1 >= 2 /\ (n + 1 > 2 <=> n >= 2) /\ n \in 1..n
  OBVIOUS

\* One dot before a text is cut off, and nothing else is.
LEMMA LeadingDot ==
  ASSUME NEW t \in Seq(Labels), Len(t) >= 1
  PROVE  TrimLeadingDot(<<"">> \o t) = t
<1>1. /\ Len(<<"">> \o t) = Len(t) + 1 /\ (<<"">> \o t)[1] = "" /\ Tail(<<"">> \o t) = t
  BY DotBefore, Zenon
<1>2. Len(t) \in Nat /\ Len(t) + 1 >= 2
  OBVIOUS
<1>3. HasLeadingDot(<<"">> \o t)
  BY <1>1, <1>2 DEF HasLeadingDot
<1> QED
  BY <1>1, <1>3 DEF TrimLeadingDot

LEMMA LeadingTrimmed ==
  ASSUME NEW t \in Seq(Labels)
  PROVE  t = TrimLeadingDot(t) \/ t = <<"">> \o TrimLeadingDot(t)
<1>1. CASE HasLeadingDot(t)
  <2>1. Len(t) >= 2 /\ t[1] = ""
    BY <1>1 DEF HasLeadingDot
  <2>2. t = <<"">> \o Tail(t)
    BY <2>1, LabelsAssumption, FirstAndRest
  <2> QED
    BY <1>1, <2>2 DEF TrimLeadingDot
<1>2. CASE ~HasLeadingDot(t)
  BY <1>2 DEF TrimLeadingDot
<1> QED
  BY <1>1, <1>2

\* The dot behind a text is cut off.
LEMMA TrailingDot ==
  ASSUME NEW t \in Seq(Labels), Len(t) >= 1
  PROVE  HasTrailingDot(Append(t, "")) /\ TrimTrailingDot(Append(t, "")) = t
<1>1. Len(Append(t, "")) = Len(t) + 1 /\ Append(t, "")[Len(t) + 1] = ""
  BY DotBehind, Zenon
<1>2. Len(t) + 1 >= 2
  OBVIOUS
<1>3. HasTrailingDot(Append(t, ""))
  BY <1>1, <1>2 DEF HasTrailingDot
<1>4. SubSeq(Append(t, ""), 1, Len(Append(t, "")) - 1) = t
  BY LabelsAssumption, FrontOfAppend
<1> QED
  BY <1>3, <1>4 DEF TrimTrailingDot, Front

LEMMA PlainType ==
  ASSUME NEW d, Plain(d)
  PROVE  d \in Seq(Labels) /\ Len(d) \in Nat /\ Len(d) >= 1
<1>1. d \in Seq(Labels) /\ Len(d) >= 1
  BY DEF Plain
<1> QED
  BY ONLY <1>1

LEMMA PlainEnds ==
  ASSUME NEW d, Plain(d)
  PROVE  d[1] # "" /\ d[Len(d)] # "" /\ ~HasTrailingDot(d) /\ d # Empty
<1>1. Len(d) \in Nat /\ Len(d) >= 1
  BY PlainType
<1>2. 1 \in 1..Len(d) /\ Len(d) \in 1..Len(d)
  BY ONLY <1>1
<1>3. d[1] # "" /\ d[Len(d)] # ""
  BY <1>2 DEF Plain
<1>4. Empty[1] = ""
  BY DEF Empty
<1> QED
  BY <1>3, <1>4 DEF HasTrailingDot

\* With or without the dot behind it a domain has no dot before it.
LEMMA EndsTrimmed ==
  ASSUME NEW d, Plain(d), NEW t \in Ends(d)
  PROVE  /\ t \in Seq(Labels) /\ Len(t) >= 1
         /\ TrimLeadingDot(t) = t /\ TrimTrailingDot(t) = d
         /\ NormalizeName(t) = Append(d, "")
<1>1. d \in Seq(Labels) /\ Len(d) \in Nat /\ Len(d) >= 1
  BY PlainType
<1>2. d[1] # "" /\ ~HasTrailingDot(d) /\ d # Empty
  BY PlainEnds
<1>3. CASE t = d
  <2>1. TrimLeadingDot(t) = t
    BY <1>2, <1>3 DEF TrimLeadingDot, HasLeadingDot
  <2>2. TrimTrailingDot(t) = d
    BY <1>2, <1>3 DEF TrimTrailingDot
  <2>3. NormalizeName(t) = Append(d, "")
    BY <1>2, <1>3, <2>1 DEF NormalizeName
  <2> QED
    BY <1>1, <1>3, <2>1, <2>2, <2>3
<1>4. CASE t = Append(d, "")
  <2>1. /\ Append(d, "") \in Seq(Labels) /\ Len(Append(d, "")) = Len(d) + 1
        /\ \A i \in 1..Len(d) : Append(d, "")[i] = d[i]
    BY <1>1, DotBehind, Zenon
  <2>2. 1 \in 1..Len(d) /\ Len(d) + 1 >= 1
    BY ONLY <1>1
  <2>3. TrimLeadingDot(t) = t
    BY <1>2, <1>4, <2>1, <2>2 DEF TrimLeadingDot, HasLeadingDot
  <2>4. HasTrailingDot(t) /\ TrimTrailingDot(t) = d
    BY <1>1, <1>4, TrailingDot
  <2>5. NormalizeName(t) = Append(d, "")
    BY <1>4, <2>3, <2>4 DEF NormalizeName
  <2> QED
    BY <1>4, <2>1, <2>2, <2>3, <2>4, <2>5
<1> QED
  BY <1>3, <1>4 DEF Ends

\* The dot before a domain survives the cut of the one behind.
LEMMA DottedTrimmed ==
  ASSUME NEW d, Plain(d), NEW t \in Ends(d)
  PROVE  TrimTrailingDot(<<"">> \o t) = <<"">> \o d
<1>1. d \in Seq(Labels) /\ Len(d) \in Nat /\ Len(d) >= 1
  BY PlainType
<1>2. /\ <<"">> \o d \in Seq(Labels) /\ Len(<<"">> \o d) = Len(d) + 1
      /\ \A i \in 1..Len(d) : (<<"">> \o d)[i + 1] = d[i]
  BY <1>1, DotBefore, Zenon
<1>3. CASE t = d
  <2>1. Len(d) \in 1..Len(d)
    BY ONLY <1>1
  <2>2. (<<"">> \o d)[Len(<<"">> \o d)] # ""
    BY <1>2, <2>1, PlainEnds
  <2> QED
    BY <1>3, <2>2 DEF TrimTrailingDot, HasTrailingDot
<1>4. CASE t = Append(d, "")
  <2>1. <<"">> \o Append(d, "") = Append(<<"">> \o d, "")
    BY <1>1, LabelsAssumption, PrependAppend
  <2>2. Len(<<"">> \o d) >= 1
    <3>1. Len(d) + 1 >= 1
      BY ONLY <1>1
    <3> QED
      BY ONLY <1>2, <3>1, Zenon
  <2> QED
    BY <1>2, <1>4, <2>1, <2>2, TrailingDot
<1> QED
  BY <1>3, <1>4 DEF Ends

\* The expression of the parser accepts a spelling of a domain of two labels
\* and more, with a dot before it or not, and its normal form is the domain.
LEMMA TokenOfDomain ==
  ASSUME NEW d, Plain(d), NEW t \in Ends(d), NEW token \in {t, <<"">> \o t}
  PROVE  /\ IsDomain(token) <=> Len(d) >= 2 /\ d[Len(d)] \in TopLabels
         /\ NormalizeName(token) = Append(d, "")
<1>1. d \in Seq(Labels) /\ Len(d) \in Nat /\ Len(d) >= 1
  BY PlainType
<1>2. /\ t \in Seq(Labels) /\ Len(t) >= 1
      /\ TrimLeadingDot(t) = t /\ TrimTrailingDot(t) = d /\ NormalizeName(t) = Append(d, "")
  BY EndsTrimmed
<1>3. CASE token = t
  <2>1. IsDomain(t) <=> Len(d) >= 2 /\ d[Len(d)] \in TopLabels
    BY <1>2, PlainEnds DEF IsDomain
  <2> QED
    BY <1>2, <1>3, <2>1
<1>4. CASE token = <<"">> \o t
  <2> DEFINE u == <<"">> \o d
  <2>1. /\ Len(u) = Len(d) + 1 /\ u[1] = ""
        /\ \A i \in 1..Len(d) : u[i + 1] = d[i]
    BY <1>1, DotBefore, Zenon
  <2>2. IsDomain(token) <=> Len(u) >= 2 /\ u[Len(u)] \in TopLabels /\ (Len(u) > 2 \/ u[1] # "")
    BY <1>4, DottedTrimmed DEF IsDomain
  <2> HIDE DEF u
  <2>3. Len(u) >= 2 /\ (Len(u) > 2 <=> Len(d) >= 2) /\ Len(d) \in 1..Len(d)
    <3>1. /\ Len(d) + 1 >= 2 /\ (Len(d) + 1 > 2 <=> Len(d) >= 2) /\ Len(d) \in 1..Len(d)
      BY ONLY <1>1, OneMore, Zenon
    <3> QED
      BY ONLY <2>1, <3>1, Zenon
  <2>4. u[Len(u)] = d[Len(d)]
    BY <2>1, <2>3
  <2>5. IsDomain(token) <=> Len(d) >= 2 /\ d[Len(d)] \in TopLabels
    BY <2>1, <2>2, <2>3, <2>4
  <2>6. NormalizeName(token) = NormalizeName(t)
    BY <1>2, <1>4, LeadingDot DEF NormalizeName
  <2> QED
    BY <1>2, <2>5, <2>6
<1> QED
  BY <1>3, <1>4

LEMMA SpellingsAre ==
  ASSUME NEW d, NEW text
  PROVE  text \in Spellings(d) <=>
           \E t \in Ends(d) : text = t \/ text = <<"">> \o t \/ text = <<"">> \o (<<"">> \o t)
  BY Zenon DEF Spellings, Ends

\* What is left of a text once a star is cut off passes for a domain and
\* becomes its entry exactly when it is a spelling of it.
LEMMA TokenSpelling ==
  ASSUME NEW text \in Seq(Labels), text # << >>, NEW d, Plain(d)
  PROVE  LET token == TrimLeadingDot(text)
         IN  IsDomain(token) /\ Append(d, "") = NormalizeName(token) <=>
               Len(d) >= 2 /\ d[Len(d)] \in TopLabels /\ text \in Spellings(d)
<1> DEFINE token == TrimLeadingDot(text)
<1>2. token \in Seq(Labels) /\ token # << >>
  BY TrimmedType
<1>4. text = token \/ text = <<"">> \o token
  BY LeadingTrimmed
<1>5. \A t \in Ends(d) : /\ t \in Seq(Labels) /\ Len(t) >= 1 /\ TrimLeadingDot(t) = t
                        /\ <<"">> \o t \in Seq(Labels) /\ Len(<<"">> \o t) >= 1
  <2> SUFFICES ASSUME NEW t \in Ends(d)
               PROVE  /\ t \in Seq(Labels) /\ Len(t) >= 1 /\ TrimLeadingDot(t) = t
                      /\ <<"">> \o t \in Seq(Labels) /\ Len(<<"">> \o t) >= 1
    OBVIOUS
  <2>1. t \in Seq(Labels) /\ Len(t) >= 1 /\ TrimLeadingDot(t) = t
    BY EndsTrimmed
  <2>2. <<"">> \o t \in Seq(Labels) /\ Len(<<"">> \o t) = Len(t) + 1
    BY <2>1, DotBefore, Zenon
  <2>3. Len(t) + 1 >= 1
    BY ONLY <2>1
  <2>4. Len(<<"">> \o t) >= 1
    BY ONLY <2>2, <2>3, Zenon
  <2> QED
    BY <2>1, <2>2, <2>4
<1>6. ASSUME NEW t \in Ends(d), token \in {t, <<"">> \o t}
      PROVE  /\ IsDomain(token) <=> Len(d) >= 2 /\ d[Len(d)] \in TopLabels
             /\ NormalizeName(token) = Append(d, "")
  BY <1>6, TokenOfDomain
<1>7. ASSUME text \in Spellings(d)
      PROVE  \E t \in Ends(d) : token \in {t, <<"">> \o t}
  <2>1. PICK t \in Ends(d) : text = t \/ text = <<"">> \o t \/ text = <<"">> \o (<<"">> \o t)
    BY <1>7, SpellingsAre, Zenon
  <2>2. text = t => token = t
    BY <1>5
  <2>3. text = <<"">> \o t => token = t
    BY <1>5, LeadingDot
  <2>4. text = <<"">> \o (<<"">> \o t) => token = <<"">> \o t
    BY <1>5, LeadingDot
  <2> HIDE DEF token
  <2> QED
    BY <2>1, <2>2, <2>3, <2>4, Zenon
<1> HIDE DEF token
<1>8. ASSUME Append(d, "") = NormalizeName(token)
      PROVE  text \in Spellings(d) /\ \E t \in Ends(d) : token \in {t, <<"">> \o t}
  <2> DEFINE t == TrimLeadingDot(token)
  <2>1. t \in Seq(Labels) /\ t # << >>
    BY <1>2, TrimmedType
  <2>2. token = t \/ token = <<"">> \o t
    BY <1>2, LeadingTrimmed
  <2>3. Append(d, "") = IF t = Empty \/ HasTrailingDot(t) THEN t ELSE Append(t, "")
    BY <1>8 DEF NormalizeName
  <2> HIDE DEF t
  <2>4. t \in Ends(d)
    <3>1. d \in Seq(Labels)
      BY PlainType
    <3>2. CASE Append(d, "") = t
      BY <3>2 DEF Ends
    <3>3. CASE Append(d, "") = Append(t, "")
      <4>1. SubSeq(Append(d, ""), 1, Len(Append(d, "")) - 1) = d
        BY <3>1, LabelsAssumption, FrontOfAppend
      <4>2. SubSeq(Append(t, ""), 1, Len(Append(t, "")) - 1) = t
        BY <2>1, LabelsAssumption, FrontOfAppend
      <4>3. d = t
        BY ONLY <3>3, <4>1, <4>2, Zenon
      <4> QED
        BY <4>3 DEF Ends
    <3> QED
      BY <2>3, <3>2, <3>3
  <2>5. text = t \/ text = <<"">> \o t \/ text = <<"">> \o (<<"">> \o t)
    BY ONLY <1>4, <2>2, Zenon
  <2>6. text \in Spellings(d)
    BY <2>4, <2>5, SpellingsAre, Zenon
  <2> QED
    BY <2>2, <2>4, <2>6, Zenon
<1>9. ASSUME \E t \in Ends(d) : token \in {t, <<"">> \o t}
      PROVE  /\ IsDomain(token) <=> Len(d) >= 2 /\ d[Len(d)] \in TopLabels
             /\ NormalizeName(token) = Append(d, "")
  BY <1>6, <1>9, Zenon
<1>10. IsDomain(token) /\ Append(d, "") = NormalizeName(token) <=>
         Len(d) >= 2 /\ d[Len(d)] \in TopLabels /\ text \in Spellings(d)
  BY ONLY <1>7, <1>8, <1>9, Zenon
<1> QED
  BY ONLY <1>10, Zenon DEF token

LEMMA StarBefore ==
  ASSUME NEW t \in Seq(Labels)
  PROVE  /\ Len(<<"*">> \o t) = Len(t) + 1 /\ (<<"*">> \o t)[1] = "*"
         /\ Tail(<<"*">> \o t) = t
  BY LabelsAssumption, Prepended, Zenon

LEMMA SpellingType ==
  ASSUME NEW d, Plain(d), NEW t \in Spellings(d)
  PROVE  t \in Seq(Labels) /\ Len(t) \in Nat /\ Len(t) >= 1
<1>1. PICK e \in Ends(d) : t = e \/ t = <<"">> \o e \/ t = <<"">> \o (<<"">> \o e)
  BY SpellingsAre, Zenon
<1>2. e \in Seq(Labels) /\ Len(e) >= 1
  BY EndsTrimmed
<1>3. <<"">> \o e \in Seq(Labels) /\ Len(<<"">> \o e) = Len(e) + 1
  BY <1>2, DotBefore, Zenon
<1>4. <<"">> \o (<<"">> \o e) \in Seq(Labels) /\ Len(<<"">> \o (<<"">> \o e)) = Len(<<"">> \o e) + 1
  BY <1>3, DotBefore, Zenon
<1>5. t \in Seq(Labels) /\ (Len(t) = Len(e) \/ Len(t) = Len(e) + 1 \/ Len(t) = Len(e) + 1 + 1)
  BY ONLY <1>1, <1>2, <1>3, <1>4, Zenon
<1> QED
  BY ONLY <1>2, <1>5

\* A text writes a domain exactly when what is behind its star spells it.
LEMMA StarredSpelling ==
  ASSUME NEW text \in Seq(Labels), text # << >>, NEW d, Plain(d)
  PROVE  TrimStar(text) \in Spellings(d) <=> Writes(text, d)
<1>1. \A t \in Spellings(d) : text = <<"*">> \o t => HasStar(text) /\ Tail(text) = t
  <2> SUFFICES ASSUME NEW t \in Spellings(d), text = <<"*">> \o t
               PROVE  HasStar(text) /\ Tail(text) = t
    OBVIOUS
  <2>1. t \in Seq(Labels) /\ Len(t) \in Nat /\ Len(t) >= 1
    BY SpellingType
  <2>2. /\ Len(text) = Len(t) + 1 /\ text[1] = "*" /\ Tail(text) = t
    BY <2>1, StarBefore, Zenon
  <2>3. Len(t) + 1 >= 2
    BY ONLY <2>1
  <2> QED
    BY ONLY <2>2, <2>3, Zenon DEF HasStar
<1>2. CASE ~HasStar(text)
  <2>1. TrimStar(text) = text
    BY <1>2 DEF TrimStar
  <2> QED
    BY ONLY <1>1, <1>2, <2>1, Zenon DEF Writes
<1>3. CASE HasStar(text)
  <2>1. Len(text) >= 2 /\ text[1] = "*" /\ TrimStar(text) = Tail(text)
    BY <1>3 DEF HasStar, TrimStar
  <2>2. text = <<"*">> \o Tail(text)
    BY <2>1, LabelsAssumption, FirstAndRest
  <2> QED
    BY ONLY <1>1, <1>3, <2>1, <2>2, Zenon DEF Writes
<1> QED
  BY <1>2, <1>3

LEMMA PairMember ==
  ASSUME NEW S, NEW T, NEW a, NEW b
  PROVE  <<a, b>> \in S \X T <=> a \in S /\ b \in T
  OBVIOUS

LEMMA PairEqual ==
  ASSUME NEW a, NEW b, NEW c, NEW d
  PROVE  (<<a, b>> = <<c, d>> <=> a = c /\ b = d) /\ <<a, b>>[1] = a /\ <<a, b>>[2] = b
  OBVIOUS

\* The forms of lines of which the cuts leave a name alone.
LEMMA AcceptedForms ==
  ASSUME NEW line \in Lines, line.text # Empty
  PROVE  Accepted(line) <=> line.form \in (Blocking \ Missed) \cup Widened
<1> DEFINE f == line.form
<1>1. f \in Forms
  BY DEF Lines
<1>2. Cut(line) = CutPath(CutAddress(CutFields(CutAdblock(f))), line.text)
  BY DEF Cut
<1>3. PICK a, b : f = <<a, b>>
  <2>1. \A S, T : f \in S \X T => \E a, b : f = <<a, b>>
    OBVIOUS
  <2> QED
    BY <1>1, <2>1 DEF Forms
<1>4. \/ a \in {"", "0.0.0.0 "} /\ b \in {"", " remark"}
      \/ a \in {"", "||"} /\ b \in {"/page", "/page.html"}
      \/ a = "||" /\ b \in {"", "^", "$"}
      \/ a = "address=/" /\ b \in {"/0.0.0.0", "/::"}
      \/ a = "#" /\ b = ""
      \/ a = "@@||" /\ b = "^"
      \/ a = "http://" /\ b = "/page.html"
  <2>1. <<a, b>> \in Forms
    BY ONLY <1>1, <1>3, Zenon
  <2> HIDE DEF f
  <2> QED
    BY ONLY <2>1, PairMember, PairEqual, Zenon DEF Forms
<1>5. line.form \in (Blocking \ Missed) \cup Widened <=>
        \/ a \in {"", "0.0.0.0 "} /\ b \in {"", " remark"}
        \/ a = "||" /\ b \in {"", "^", "/page", "/page.html", "$"}
        \/ a = "address=/" /\ b = "/0.0.0.0"
        \/ a = "" /\ b = "/page.html"
  <2> DEFINE In == <<a, b>> \in (Blocking \ Missed) \cup Widened
  <2>1. In <=>
          \/ a \in {"", "0.0.0.0 "} /\ b \in {"", " remark"}
          \/ a = "||" /\ b \in {"", "^"}
          \/ a = "address=/" /\ b \in {"/0.0.0.0", "/::"} /\ ~(a = "address=/" /\ b = "/::")
          \/ a = "" /\ b = "/page.html"
          \/ a = "||" /\ b = "/page"
          \/ a = "||" /\ b = "/page.html"
          \/ a = "||" /\ b = "$"
    <3>1. <<a, b>> \in Blocking <=>
            \/ a \in {"", "0.0.0.0 "} /\ b \in {"", " remark"}
            \/ a = "||" /\ b \in {"", "^"}
            \/ a = "address=/" /\ b \in {"/0.0.0.0", "/::"}
      BY ONLY PairMember, Zenon DEF Blocking
    <3>2. <<a, b>> \in Missed <=> a = "address=/" /\ b = "/::"
      BY ONLY PairEqual, Zenon DEF Missed
    <3>3. <<a, b>> \in Widened <=>
            \/ a = "" /\ b = "/page.html"
            \/ a = "||" /\ b = "/page"
            \/ a = "||" /\ b = "/page.html"
            \/ a = "||" /\ b = "$"
      BY ONLY PairEqual, Zenon DEF Widened
    <3> QED
      BY ONLY <3>1, <3>2, <3>3
  <2>2. In <=> line.form \in (Blocking \ Missed) \cup Widened
    BY ONLY <1>3, Zenon
  <2> HIDE DEF In
  <2> QED
    BY ONLY <2>1, <2>2
<1> DEFINE b1 == IF a = "||" /\ b \in {"^", "$", "/page", "/page.html"} THEN "" ELSE b
           b2 == IF b1 = " remark" THEN "" ELSE b1
           b3 == IF b2 \in {"/page.html", "/0.0.0.0"} THEN "" ELSE b2
           a1 == IF a = "||" THEN "" ELSE a
           a2 == IF a1 = "0.0.0.0 " THEN "" ELSE a1
           a3 == IF a2 = "address=/" THEN "" ELSE a2
<1>6. CutAdblock(f) = <<a1, b1>>
  <2>1. <<a, b>>[1] = a /\ <<a, b>>[2] = b
    BY PairEqual
  <2>2. CutAdblock(<<a, b>>) = <<a1, b1>>
    BY ONLY <2>1 DEF CutAdblock
  <2> QED
    BY ONLY <1>3, <2>2, Zenon
<1>7. a # "#" /\ a3 = "" /\ b3 = "" <=>
        \/ a \in {"", "0.0.0.0 "} /\ b \in {"", " remark"}
        \/ a = "||" /\ b \in {"", "^", "/page", "/page.html", "$"}
        \/ a = "address=/" /\ b = "/0.0.0.0"
        \/ a = "" /\ b = "/page.html"
  BY ONLY <1>4
<1> HIDE DEF a1, b1
<1>8. CutFields(<<a1, b1>>) = <<a2, b2>>
  BY DEF CutFields
<1> HIDE DEF a2, b2
<1>9. CutAddress(<<a2, b2>>) = <<a3, b2>>
  BY DEF CutAddress
<1> HIDE DEF a3
<1>10. CutPath(<<a3, b2>>, line.text) = <<a3, b3>>
  BY DEF CutPath
<1> HIDE DEF b3, f
<1>11. Accepted(line) <=> a # "#" /\ a3 = "" /\ b3 = ""
  <2>1. Cut(line) = <<a3, b3>>
    BY ONLY <1>2, <1>6, <1>8, <1>9, <1>10, Zenon
  <2>2. line.form[1] = a
    BY <1>3 DEF f
  <2> QED
    BY ONLY <2>1, <2>2 DEF Accepted
<1> QED
  BY ONLY <1>5, <1>7, <1>11, Zenon

\* A line yields the entry of a domain exactly when it is of a form that is
\* taken and writes this domain.
LEMMA ParsedSpelling ==
  ASSUME NEW line \in Lines, NEW d, Plain(d)
  PROVE  Append(d, "") \in Parsed(line) <=>
           /\ line.form \in (Blocking \ Missed) \cup Widened
           /\ Len(d) >= 2 /\ d[Len(d)] \in TopLabels
           /\ Writes(line.text, d)
<1> DEFINE text == line.text
           rest == TrimStar(text)
           token == TrimLeadingDot(rest)
<1>1. text \in Seq(Labels) /\ text # << >>
  BY TextsAssumption DEF Lines
<1>2. rest \in Seq(Labels) /\ rest # << >>
  BY <1>1, UnstarredType
<1>3. Append(d, "") \in Parsed(line) <=>
        Accepted(line) /\ IsDomain(token) /\ Append(d, "") = NormalizeName(token)
  BY DEF Parsed, Token
<1>4. rest \in Spellings(d) <=> Writes(text, d)
  BY <1>1, StarredSpelling
<1>5. IsDomain(token) /\ Append(d, "") = NormalizeName(token) <=>
        Len(d) >= 2 /\ d[Len(d)] \in TopLabels /\ rest \in Spellings(d)
  <2> HIDE DEF rest
  <2> QED
    BY <1>2, TokenSpelling, Zenon
<1>6. CASE text # Empty
  BY ONLY <1>3, <1>4, <1>5, <1>6, line \in Lines, AcceptedForms, Zenon
<1>7. CASE text = Empty
  <2>1. ~(Len(Empty) >= 2)
    BY EmptyLength
  <2>2. token = Empty
    <3>1. TrimStar(Empty) = Empty /\ TrimLeadingDot(Empty) = Empty
      BY ONLY <2>1, Zenon DEF TrimStar, HasStar, TrimLeadingDot, HasLeadingDot
    <3> QED
      BY ONLY <1>7, <3>1, Zenon
  <2>3. ~IsDomain(Empty)
    BY ONLY <2>1, Zenon DEF IsDomain, TrimTrailingDot, HasTrailingDot
  <2> HIDE DEF text, rest, token
  <2> QED
    BY ONLY <1>3, <1>4, <1>5, <2>2, <2>3, Zenon DEF text
<1> QED
  BY <1>6, <1>7

\* The labels of a name from the k-th on, the root not counted.
LEMMA DomainFrom ==
  ASSUME NEW n, Rooted(n), FullLabels(n), NEW k \in 1..Len(n) - 1
  PROVE  LET d == Front(n)
             s == SubSeq(d, k, Len(d))
         IN  /\ Plain(s) /\ Append(s, "") = From(n, k)
             /\ Len(s) = Len(d) - k + 1 /\ s[Len(s)] = d[Len(d)]
<1> DEFINE d == Front(n)
           s == SubSeq(d, k, Len(d))
<1>1. n \in Seq(Labels) /\ Len(n) \in Nat /\ Len(n) >= 2
  BY RootedType
<1>2. d = SubSeq(n, 1, Len(n) - 1)
  BY DEF Front
<1> HIDE DEF d
<1>3. n[Len(n)] = ""
  BY DEF Rooted
<1>4. /\ s \in Seq(Labels) /\ Len(s) = Len(d) - k + 1 /\ Len(d) = Len(n) - 1
      /\ \A i \in 1..Len(s) : s[i] = n[k + i - 1]
      /\ s[Len(s)] = d[Len(d)] /\ Append(s, n[Len(n)]) = SubSeq(n, k, Len(n))
  BY <1>1, <1>2, FrontOfSuffix
<1> HIDE DEF s
<1>5. Append(s, "") = From(n, k)
  BY ONLY <1>3, <1>4, Zenon DEF From
<1>6. Plain(s)
  <2>1. Len(s) \in Nat /\ Len(s) >= 1 /\ \A i \in 1..Len(s) : k + i - 1 \in 1..Len(n) - 1
    <3>1. Len(s) = Len(n) - k
      BY ONLY <1>1, <1>4, k \in 1..Len(n) - 1
    <3> QED
      BY ONLY <1>1, <3>1, k \in 1..Len(n) - 1
  <2>2. ASSUME NEW i \in 1..Len(s) PROVE s[i] # ""
    BY <1>4, <2>1, Zenon DEF FullLabels
  <2> QED
    BY <1>4, <2>1, <2>2, Zenon DEF Plain
<1> QED
  BY <1>4, <1>5, <1>6 DEF d, s

\* For every list and every name from the wire: a list blocks what its lines ask
\* for in their formats and what is below it, except IPv6 sinks of dnsmasq and
\* top labels that are not all letters, which are lost, and lines about pages or
\* some requests, which block their whole name (parseBlocklistDomains,
\* NormalizeName, parentDomain, MatchBlocklist).
THEOREM ListedAreBlocked == Spec => []ListedDomainsBlocked
<1>1. IInv => ListedDomainsBlocked
  <2> DEFINE d == Front(qname)
             Written(k, line) == /\ line.form \in (Blocking \ Missed) \cup Widened
                                 /\ d[Len(d)] \in TopLabels
                                 /\ Writes(line.text, SubSeq(d, k, Len(d)))
  <2> SUFFICES ASSUME IInv, pc = "done"
               PROVE  found <=> \E k \in 1..Len(d) - 1, line \in listed : Written(k, line)
    BY DEF ListedDomainsBlocked
  <2>1. /\ found \in BOOLEAN
        /\ qname = Empty \/ (Rooted(qname) /\ FullLabels(qname))
        /\ listed \subseteq Lines /\ entries = UNION {Parsed(line) : line \in listed}
    BY DEF IInv, TypeOK
  <2>2. \/ ~found /\ \A k \in 1..Len(qname) - 1 : From(qname, k) \notin entries
        \/ found /\ \E k \in 1..Len(qname) - 1 : From(qname, k) \in entries
    BY DEF IInv, WalkInv
  <2>3. CASE qname = Empty
    <3>1. Len(qname) = 1
      BY ONLY <2>3, EmptyLength, Zenon
    <3>2. ~found
      <4>1. 1..1 - 1 = {}
        OBVIOUS
      <4> QED
        BY ONLY <2>2, <3>1, <4>1, Zenon
    <3>3. 1..Len(d) - 1 = {}
      <4>1. qname \in Seq(Labels)
        BY <2>3, LabelsAssumption, SingletonType, Zenon DEF Empty
      <4>2. d = SubSeq(qname, 1, 0)
        BY <3>1 DEF Front
      <4>3. Len(d) = 0
        BY ONLY <4>1, <4>2
      <4> HIDE DEF d
      <4> QED
        BY ONLY <4>3
    <3> QED
      BY ONLY <3>2, <3>3, Zenon
  <2>4. CASE Rooted(qname) /\ FullLabels(qname)
    <3>1. Len(qname) \in Nat /\ Len(qname) >= 2
      BY <2>4, RootedType
    <3>2. Len(d) = Len(qname) - 1
      <4>1. qname \in Seq(Labels)
        BY <2>4, RootedType
      <4> QED
        BY <3>1, <4>1, FrontIndex DEF Front
    <3>3. ASSUME NEW k \in 1..Len(qname) - 1, NEW line \in listed
          PROVE  From(qname, k) \in Parsed(line) <=> k \in 1..Len(d) - 1 /\ Written(k, line)
      <4> DEFINE s == SubSeq(d, k, Len(d))
      <4>1. /\ Plain(s) /\ Append(s, "") = From(qname, k)
            /\ Len(s) = Len(d) - k + 1 /\ s[Len(s)] = d[Len(d)]
        BY <2>4, DomainFrom, Zenon
      <4>2. line \in Lines
        BY <2>1
      <4> HIDE DEF d
      <4>3. Len(s) >= 2 <=> k \in 1..Len(d) - 1
        <5>1. Len(d) \in Nat /\ k \in Nat /\ k >= 1
          BY ONLY <3>1, <3>2, k \in 1..Len(qname) - 1
        <5>2. Len(d) - k + 1 >= 2 <=> k \in 1..Len(d) - 1
          BY ONLY <5>1
        <5> QED
          BY ONLY <4>1, <5>2, Zenon
      <4> HIDE DEF s
      <4>4. Append(s, "") \in Parsed(line) <=>
              /\ line.form \in (Blocking \ Missed) \cup Widened
              /\ Len(s) >= 2 /\ s[Len(s)] \in TopLabels
              /\ Writes(line.text, s)
        BY <4>1, <4>2, ParsedSpelling, Zenon
      <4> QED
        BY ONLY <4>1, <4>3, <4>4, Zenon DEF s
    <3> HIDE DEF d, Written
    <3>4. \A k \in 1..Len(d) - 1 : k \in 1..Len(qname) - 1
      BY ONLY <3>1, <3>2
    <3>5. \A k \in 1..Len(qname) - 1 :
            From(qname, k) \in entries <=> \E line \in listed : From(qname, k) \in Parsed(line)
      BY ONLY <2>1, Zenon
    <3>6. (\E k \in 1..Len(qname) - 1 : From(qname, k) \in entries)
             <=> \E k \in 1..Len(d) - 1, line \in listed : Written(k, line)
      BY ONLY <3>3, <3>4, <3>5, Zenon
    <3> QED
      BY ONLY <2>1, <2>2, <3>6, Zenon
  <2> QED
    BY <2>1, <2>3, <2>4
<1> QED
  BY <1>1, AlwaysIInv, PTL
=============================================================================
