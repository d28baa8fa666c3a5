-------------------------------- MODULE Names --------------------------------
(* From the line of a block list to the decision on a query: the parser, the *)
(* normal form of names, and the walk from a name to its parents             *)
(* (parseBlocklistDomains, NormalizeName, parentDomain, MatchBlocklist and   *)
(* the test of MatchRule in internal/store/store.go).                        *)
(*                                                                           *)
(* A text is the sequence of what its dots separate: "a.com." is             *)
(* <<"a", "com", "">>, "." is <<"", "">> and the empty text is <<"">>.  Case *)
(* is left out.  A line is a text with the marks that stand before and       *)
(* behind it, and the parser cuts them off as the code does, one after the   *)
(* other.                                                                    *)
EXTENDS Naturals, Sequences, SequencesExt

CONSTANTS
    Labels,      \* what dots separate, "" and "*" among them
    Texts,       \* texts that stand for names in lines
    TopLabels,   \* labels of two letters and more, [a-z]{2,}; no xn--...
    Queries,     \* names that are asked
    MaxLines     \* bound: lines of the list

\* Marks before and behind a name in the lines of lists: domains, hosts and
\* adguard files, dnsmasq configurations, URLs.  "#" stands for "!" and "[" too,
\* "$" for any option and "0.0.0.0 " for any address.
Forms ==
    ({"", "0.0.0.0 "} \X {"", " remark"})
      \cup ({"", "||"} \X {"/page", "/page.html"})
      \cup ({"||"} \X {"", "^", "$"})
      \cup ({"address=/"} \X {"/0.0.0.0", "/::"})
      \cup {<<"#", "">>, <<"@@||", "^">>, <<"http://", "/page.html">>}

Lines == [form : Forms, text : Texts]

Empty == <<"">>

\* Only the last of what dots separate, the root, may be empty.
FullLabels(n) == \A k \in 1..Len(n) - 1 : n[k] # ""

ASSUME LabelsAssumption == "" \in Labels /\ "*" \in Labels
ASSUME TextsAssumption == Texts \cup Queries \subseteq Seq(Labels) \ {<< >>}
\* Names come from the wire: the root, or labels that are not empty.
ASSUME QueriesAssumption ==
    \A q \in Queries :
        q = <<"", "">> \/ (Len(q) >= 2 /\ q[Len(q)] = "" /\ FullLabels(q))
ASSUME MaxLinesAssumption == MaxLines \in Nat

VARIABLES
    lines,       \* the list, not yet parsed
    listed,      \* its parsed lines
    entries,     \* domains taken from them, in normal form
    qname,       \* the name asked last
    candidate,   \* the name the walk has come to
    found,       \* the walk has met an entry
    pc           \* parse, ready, walk, done

vars == <<lines, listed, entries, qname, candidate, found, pc>>

(***************************************************************************)
(* Texts                                                                   *)
(***************************************************************************)

HasLeadingDot(t) == Len(t) >= 2 /\ t[1] = ""

HasTrailingDot(t) == Len(t) >= 2 /\ t[Len(t)] = ""

TrimLeadingDot(t) == IF HasLeadingDot(t) THEN Tail(t) ELSE t

TrimTrailingDot(t) == IF HasTrailingDot(t) THEN Front(t) ELSE t

NormalizeName(text) ==
    LET t == TrimLeadingDot(text)
    IN  IF t = Empty \/ HasTrailingDot(t) THEN t ELSE Append(t, "")

\* Mutant: the trailing dot is not removed first.
ParentDomainOfRest(name) == IF Len(name) = 1 THEN Empty ELSE Append(Tail(name), "")

\* The rest after the first dot, the trailing one not counted.
ParentDomain(name) ==
    LET t == TrimTrailingDot(name)
    IN  IF Len(t) = 1 THEN Empty ELSE Append(Tail(t), "")

\* Mutant: a rule is for the names below its target.
RuleMatchesBelow(q, target) ==
    Len(q) > Len(target) /\ SubSeq(q, Len(q) - Len(target) + 1, Len(q)) = target

\* qname == target || HasSuffix(qname, "."+target)
RuleMatches(q, target) ==
    \/ q = target
    \/ Len(q) > Len(target) /\ SubSeq(q, Len(q) - Len(target) + 1, Len(q)) = target

(***************************************************************************)
(* The parser                                                              *)
(***************************************************************************)

\* A form is <<before, behind>>.  "||" is cut off, and what begins with one of
\* "^", "/" and "$".
CutAdblock(form) ==
    IF form[1] # "||" THEN form
    ELSE <<"", IF form[2] \in {"^", "$", "/page", "/page.html"} THEN "" ELSE form[2]>>

\* Of a line with blanks the first field is taken, behind an address the second.
CutFields(form) ==
    <<IF form[1] = "0.0.0.0 " THEN "" ELSE form[1], IF form[2] = " remark" THEN "" ELSE form[2]>>

CutAddress(form) == <<IF form[1] = "address=/" THEN "" ELSE form[1], form[2]>>

\* A slash that is not the first character and what follows it, if that has a
\* dot.  (Of http://name/page.html only "http:" is left, which is refused like
\* the mark.)
CutPath(form, text) ==
    IF text # Empty /\ form[2] \in {"/page.html", "/0.0.0.0"} THEN <<form[1], "">> ELSE form

Cut(line) == CutPath(CutAddress(CutFields(CutAdblock(line.form))), line.text)

\* A comment is skipped at once, and a line that still has a mark with one of
\* "/", ":", "$", "@@", "^" after the cuts.
Accepted(line) == line.form[1] # "#" /\ Cut(line) = <<"", "">>

HasStar(t) == Len(t) >= 2 /\ t[1] = "*"

\* Mutant: the prefix "*." stays.
TrimStarNever(t) == t

\* TrimPrefix "*."
TrimStar(t) == IF HasStar(t) THEN Tail(t) ELSE t

Token(line) == TrimLeadingDot(TrimStar(line.text))

\* domainTokenRE: something, a dot, and a label of letters; a dot may follow.
IsDomain(token) ==
    LET t == TrimTrailingDot(token)
    IN  Len(t) >= 2 /\ t[Len(t)] \in TopLabels /\ (Len(t) > 2 \/ t[1] # "")

\* The entries a line yields.
Parsed(line) ==
    IF Accepted(line) /\ IsDomain(Token(line)) THEN {NormalizeName(Token(line))} ELSE {}

(***************************************************************************)
(* Steps                                                                   *)
(***************************************************************************)

Init ==
    /\ lines \in UNION {[1..n -> Lines] : n \in 0..MaxLines}
    /\ listed = {} /\ entries = {}
    /\ qname = Empty /\ candidate = Empty /\ found = FALSE /\ pc = "parse"

\* The scanner of parseBlocklistDomains comes to the next line.
ParseLine ==
    /\ pc = "parse" /\ lines # << >>
    /\ entries' = entries \cup Parsed(Head(lines))
    /\ listed' = listed \cup {Head(lines)}
    /\ lines' = Tail(lines)
    /\ UNCHANGED <<qname, candidate, found, pc>>

ParseEnds ==
    /\ pc = "parse" /\ lines = << >>
    /\ pc' = "ready"
    /\ UNCHANGED <<lines, listed, entries, qname, candidate, found>>

\* handleDNS normalizes the name and MatchBlocklist does so again.
Ask ==
    /\ pc \in {"ready", "done"}
    /\ \E q \in Queries : qname' = NormalizeName(NormalizeName(q))
    /\ candidate' = qname' /\ found' = FALSE /\ pc' = "walk"
    /\ UNCHANGED <<lines, listed, entries>>

\* One turn of the loop of MatchBlocklist.
Walk ==
    /\ pc = "walk"
    /\ \/ candidate = Empty /\ pc' = "done" /\ UNCHANGED <<candidate, found>>
       \/ /\ candidate # Empty /\ candidate \in entries
          /\ pc' = "done" /\ found' = TRUE /\ UNCHANGED candidate
       \/ /\ candidate # Empty /\ candidate \notin entries
          /\ candidate' = ParentDomain(candidate) /\ UNCHANGED <<found, pc>>
    /\ UNCHANGED <<lines, listed, entries, qname>>

Next == ParseLine \/ ParseEnds \/ Ask \/ Walk

Spec == Init /\ [][Next]_vars

\* A started loop goes on.
FairSpec == Spec /\ WF_vars(ParseLine \/ ParseEnds) /\ WF_vars(Walk)

(***************************************************************************)
(* Properties                                                              *)
(***************************************************************************)

\* How a line may write a domain: up to two dots before it and one behind, and
\* a star before that.
Spellings(d) ==
    LET ends == {d, Append(d, "")}
        dotted == {<<"">> \o t : t \in ends}
    IN  ends \cup dotted \cup {<<"">> \o t : t \in dotted}

Writes(text, d) ==
    \/ ~HasStar(text) /\ text \in Spellings(d)
    \/ \E t \in Spellings(d) : text = <<"*">> \o t

\* Lines that ask, in the formats they belong to, to block a name and all below
\* it.
Blocking ==
    ({"", "0.0.0.0 "} \X {"", " remark"})
      \cup ({"||"} \X {"", "^"})
      \cup ({"address=/"} \X {"/0.0.0.0", "/::"})

\* Those of them that are lost: the rest of a sink that is an IPv6 address has
\* no dot.
Missed == {<<"address=/", "/::">>}

\* Lines that ask to block one page of a name, or a name for some requests, and
\* block all of it.
Widened == {<<"", "/page.html">>, <<"||", "/page">>, <<"||", "/page.html">>, <<"||", "$">>}

\* What a list blocks, by what its formats mean: the names that its lines ask to
\* block and what is below them, except names under a top label that is not all
\* letters (xn--...) and dnsmasq lines with an IPv6 sink, which are lost; and
\* the whole name of lines about a page of it or some requests for it.  No
\* other form, star, dot or normal form makes a domain escape, a parent or a
\* sibling fall under the list (parseBlocklistDomains to MatchBlocklist).
ListedDomainsBlocked ==
    LET d == Front(qname)
    IN  pc = "done" =>
          (found <=> \E k \in 1..Len(d) - 1, line \in listed :
              /\ line.form \in (Blocking \ Missed) \cup Widened
              /\ d[Len(d)] \in TopLabels
              /\ Writes(line.text, SubSeq(d, k, Len(d))))

\* A block list decides like the same targets as rules: the walk up the
\* parents and the suffix test agree (MatchBlocklist, MatchRule).
ListsDecideLikeRules ==
    pc = "done" => (found <=> \E e \in entries : RuleMatches(qname, e))

\* The walk over the parents ends for every name (MatchBlocklist).
WalksEnd == pc = "walk" ~> pc = "done"

(***************************************************************************)
(* The inductive invariant behind the safety properties.                   *)
(***************************************************************************)

\* A name in normal form other than the empty one.
Rooted(n) == n \in Seq(Labels) /\ Len(n) >= 2 /\ n[Len(n)] = ""

From(n, k) == SubSeq(n, k, Len(n))

TypeOK ==
    /\ lines \in Seq(Lines) /\ listed \subseteq Lines
    /\ entries = UNION {Parsed(line) : line \in listed}
    /\ \A e \in entries : Rooted(e)
    /\ qname = Empty \/ (Rooted(qname) /\ FullLabels(qname))
    /\ found \in BOOLEAN /\ pc \in {"parse", "ready", "walk", "done"}

\* The walk has come to a parent of the name and has met none of the longer
\* ones, or it has met none at all.
WalkInv ==
    pc \in {"walk", "done"} =>
        \/ /\ candidate = Empty /\ ~found
           /\ \A k \in 1..Len(qname) - 1 : From(qname, k) \notin entries
        \/ \E k \in 1..Len(qname) - 1 :
             /\ candidate = From(qname, k)
             /\ \A m \in 1..k - 1 : From(qname, m) \notin entries
             /\ \/ pc = "walk" /\ ~found
                \/ pc = "done" /\ found /\ candidate \in entries

IInv == TypeOK /\ WalkInv
=============================================================================
