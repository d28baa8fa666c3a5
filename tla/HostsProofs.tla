----------------------------- MODULE HostsProofs -----------------------------
(* Proofs about Hosts for every number of addresses, lookups and imports.    *)
EXTENDS Hosts, TLAPS

(***************************************************************************)
(* What lookups and imports say, and what merging it does to a row.        *)
(***************************************************************************)

Cleaned ==
    [hostname : Names \cup {""}, mac : Macs \cup {""}, vendor : Vendors \cup {""},
     confidence : Confidences \cup {""}]

\* An update with a source says something, one without says nothing, and a
\* name source comes with a name.
Sound(u) ==
    /\ u \in Cleaned /\ u.confidence # "source_ip"
    /\ u.confidence = "" <=> u.hostname = "" /\ u.mac = ""
    /\ u.confidence = "" => u.vendor = ""
    /\ u.confidence \in {"ptr", "mdns"} => u.hostname # ""

\* An update has the fields it is built from.
LEMMA UpdateFields ==
  ASSUME NEW h, NEW m, NEW v, NEW k, NEW u,
         u = [hostname |-> h, mac |-> m, vendor |-> v, confidence |-> k]
  PROVE  u.hostname = h /\ u.mac = m /\ u.vendor = v /\ u.confidence = k
  OBVIOUS

LEMMA UpdateType ==
  ASSUME NEW h \in Names \cup {""}, NEW m \in Macs \cup {""}, NEW v \in Vendors \cup {""},
         NEW k \in Confidences \cup {""}
  PROVE  [hostname |-> h, mac |-> m, vendor |-> v, confidence |-> k] \in Cleaned
  BY DEF Cleaned

LEMMA FoundSound ==
  ASSUME NEW ans \in Answers
  PROVE  Sound(Found(ans)) /\ Found(ans).confidence # "unifi"
<1> DEFINE ptr == CleanHostname(ans.ptr)
           arp == CleanHostname(ans.arp)
           mdns == CleanHostname(ans.mdns)
           mac == NormalizeMAC(ans.mac)
<1>1. ptr \in Names \cup {""} /\ arp \in Names \cup {""} /\ mdns \in Names \cup {""}
  BY DEF CleanHostname
<1>2. mac \in Macs \cup {""}
  BY DEF NormalizeMAC
<1>3. VendorFromMAC(mac) \in Vendors \cup {""} /\ (mac = "" => VendorFromMAC(mac) = "")
  BY <1>2, VendorAssumption, NamesAssumption DEF VendorFromMAC
<1> DEFINE hostname == IF ptr # "" THEN ptr ELSE IF arp # "" THEN arp ELSE mdns
           confidence == IF ptr # "" THEN "ptr"
                         ELSE IF arp # "" THEN "arp"
                         ELSE IF mdns # "" THEN "mdns"
                         ELSE IF mac # "" THEN "arp" ELSE ""
<1>4. Found(ans) = [hostname |-> hostname, mac |-> mac, vendor |-> VendorFromMAC(mac),
                    confidence |-> confidence]
  BY DEF Found
<1> HIDE DEF ptr, arp, mdns, mac
<1>5. /\ hostname \in Names \cup {""} /\ confidence \in {"ptr", "arp", "mdns", ""}
      /\ confidence = "" <=> hostname = "" /\ mac = ""
      /\ confidence \in {"ptr", "mdns"} => hostname # ""
  BY <1>1
<1> HIDE DEF hostname, confidence
<1>6. /\ Found(ans).hostname = hostname /\ Found(ans).mac = mac
      /\ Found(ans).vendor = VendorFromMAC(mac) /\ Found(ans).confidence = confidence
  BY <1>4, UpdateFields
<1>7. /\ hostname \in Names \cup {""} /\ confidence \in Confidences \cup {""}
      /\ VendorFromMAC(mac) \in Vendors \cup {""}
  BY <1>3, <1>5 DEF Confidences
<1>8. Found(ans) \in Cleaned
  BY <1>2, <1>4, <1>7, UpdateType
<1> QED
  BY <1>3, <1>5, <1>6, <1>8 DEF Sound

LEMMA ImportSound ==
  ASSUME NEW c \in Clients, Usable(c)
  PROVE  Sound(Import(c)) /\ Import(c).confidence = "unifi"
<1> DEFINE hostname == CleanHostname(c.hostname)
           mac == NormalizeMAC(c.mac)
           vendor == IF c.vendor = "" THEN VendorFromMAC(mac) ELSE c.vendor
<1>1. hostname \in Names \cup {""} /\ mac \in Macs \cup {""}
  BY DEF CleanHostname, NormalizeMAC
<1>2. VendorFromMAC(mac) \in Vendors \cup {""}
  BY <1>1, VendorAssumption, NamesAssumption DEF VendorFromMAC
<1>3. vendor \in Vendors \cup {""}
  BY <1>2, ClientsAssumption
<1>4. Import(c) = [hostname |-> hostname, mac |-> mac, vendor |-> vendor, confidence |-> "unifi"]
  BY DEF Import, Converted
<1>5. hostname # "" \/ mac # ""
  BY DEF Usable, Converted
<1> HIDE DEF hostname, mac, vendor
<1>6. /\ Import(c).hostname = hostname /\ Import(c).mac = mac
      /\ Import(c).confidence = "unifi"
  BY <1>4, UpdateFields
<1>7. "unifi" \in Confidences \cup {""}
  BY DEF Confidences
<1>8. Import(c) \in Cleaned
  BY <1>1, <1>3, <1>4, <1>7, UpdateType
<1> QED
  BY <1>5, <1>6, <1>8 DEF Sound

\* The update as it is merged.
LEMMA FilledFields ==
  ASSUME NEW row \in Rows, NEW u, Sound(u)
  PROVE  /\ Filled(row, u) \in Cleaned /\ Filled(row, u).confidence \in Confidences
         /\ \A f \in Fields : Filled(row, u)[f] = IF u[f] = "" THEN row[f] ELSE u[f]
         /\ Filled(row, u).confidence = IF u.confidence = "" THEN row.confidence ELSE u.confidence
<1>1. /\ u.hostname \in Names \cup {""} /\ u.mac \in Macs \cup {""}
      /\ u.vendor \in Vendors \cup {""} /\ u.confidence \in Confidences \cup {""}
  BY DEF Sound, Cleaned, Confidences
<1>2. CleanHostname(u.hostname) = u.hostname /\ NormalizeMAC(u.mac) = u.mac
  BY <1>1 DEF CleanHostname, NormalizeMAC
<1> DEFINE hostname == IF u.hostname = "" THEN row.hostname ELSE u.hostname
           mac == IF u.mac = "" THEN row.mac ELSE u.mac
           vendor == IF u.vendor = "" THEN row.vendor ELSE u.vendor
           confidence == IF u.confidence = "" THEN row.confidence ELSE u.confidence
<1>3. Filled(row, u) = [hostname |-> hostname, mac |-> mac, vendor |-> vendor,
                        confidence |-> confidence]
  BY <1>2 DEF Filled
<1>4. /\ row.hostname \in Names \cup {""} /\ row.mac \in Macs \cup {""}
      /\ row.vendor \in Vendors \cup {""} /\ row.confidence \in Confidences
  BY DEF Rows
<1>5. /\ hostname \in Names \cup {""} /\ mac \in Macs \cup {""}
      /\ vendor \in Vendors \cup {""} /\ confidence \in Confidences
  BY <1>1, <1>4
<1>6. /\ hostname = IF u["hostname"] = "" THEN row["hostname"] ELSE u["hostname"]
      /\ mac = IF u["mac"] = "" THEN row["mac"] ELSE u["mac"]
      /\ vendor = IF u["vendor"] = "" THEN row["vendor"] ELSE u["vendor"]
  OBVIOUS
<1>7. confidence = IF u.confidence = "" THEN row.confidence ELSE u.confidence
  OBVIOUS
<1> HIDE DEF hostname, mac, vendor, confidence
<1>8. /\ Filled(row, u).hostname = hostname /\ Filled(row, u).mac = mac
      /\ Filled(row, u).vendor = vendor /\ Filled(row, u).confidence = confidence
  BY <1>3, UpdateFields
<1>9. Filled(row, u) \in Cleaned
  BY <1>3, <1>5, UpdateType
<1>10. ASSUME NEW f \in Fields
       PROVE  Filled(row, u)[f] = IF u[f] = "" THEN row[f] ELSE u[f]
  <2>1. CASE f = "hostname"
    BY <1>6, <1>8, <2>1
  <2>2. CASE f = "mac"
    BY <1>6, <1>8, <2>2
  <2>3. CASE f = "vendor"
    BY <1>6, <1>8, <2>3
  <2> QED
    BY <2>1, <2>2, <2>3 DEF Fields
<1> QED
  BY <1>5, <1>7, <1>8, <1>9, <1>10

\* The merged row: a field that has a value keeps it unless UniFi says
\* another, an empty one takes what is said.
LEMMA MergedFields ==
  ASSUME NEW row \in Rows, NEW u, Sound(u)
  PROVE  /\ Merged(row, u) \in Rows
         /\ \A f \in Fields :
              Merged(row, u)[f] = IF u[f] # "" /\ (row[f] = "" \/ u.confidence = "unifi")
                                    THEN u[f] ELSE row[f]
         /\ Merged(row, u).confidence =
              IF u.confidence # "" /\ (row.confidence = "source_ip" \/ u.confidence = "unifi")
                THEN u.confidence ELSE row.confidence
<1> DEFINE f == Filled(row, u)
<1>1. /\ f \in Cleaned /\ f.confidence \in Confidences
      /\ \A x \in Fields : f[x] = IF u[x] = "" THEN row[x] ELSE u[x]
      /\ f.confidence = IF u.confidence = "" THEN row.confidence ELSE u.confidence
  BY FilledFields
<1>2. /\ row.hostname \in Names \cup {""} /\ row.mac \in Macs \cup {""}
      /\ row.vendor \in Vendors \cup {""} /\ row.confidence \in Confidences
  BY DEF Rows
<1>3. Merged(row, u) = [row EXCEPT !.hostname = Column(row, f, "hostname"),
                                   !.mac = Column(row, f, "mac"),
                                   !.vendor = Column(row, f, "vendor"),
                                   !.confidence = IF row.confidence = "source_ip"
                                                     \/ f.confidence = "unifi"
                                                    THEN f.confidence ELSE row.confidence]
  BY DEF Merged, Rows
<1>4. \A x \in Fields : Column(row, f, x) = IF u[x] # "" /\ (row[x] = "" \/ u.confidence = "unifi")
                                             THEN u[x] ELSE row[x]
  <2> SUFFICES ASSUME NEW x \in Fields
               PROVE  Column(row, f, x) = IF u[x] # "" /\ (row[x] = "" \/ u.confidence = "unifi")
                                            THEN u[x] ELSE row[x]
    OBVIOUS
  <2>1. u.confidence = "" => u[x] = ""
    BY DEF Sound, Fields
  <2>2. f[x] = (IF u[x] = "" THEN row[x] ELSE u[x])
    BY <1>1
  <2> HIDE DEF f
  <2> QED
    BY <1>1, <2>1, <2>2 DEF Column
<1>5. \A x \in Fields : Column(row, f, x) = f[x] \/ Column(row, f, x) = row[x]
  BY DEF Column
<1>6. /\ Column(row, f, "hostname") \in Names \cup {""}
      /\ Column(row, f, "mac") \in Macs \cup {""}
      /\ Column(row, f, "vendor") \in Vendors \cup {""}
      /\ f.confidence \in Confidences
  BY <1>1, <1>2, <1>5 DEF Fields, Cleaned
<1>7. /\ Merged(row, u).hostname = Column(row, f, "hostname")
      /\ Merged(row, u).mac = Column(row, f, "mac")
      /\ Merged(row, u).vendor = Column(row, f, "vendor")
      /\ Merged(row, u).confidence = IF row.confidence = "source_ip" \/ f.confidence = "unifi"
                                       THEN f.confidence ELSE row.confidence
      /\ Merged(row, u) \in Rows
  <2> HIDE DEF f
  <2> QED
    BY <1>2, <1>3, <1>6 DEF Rows
<1> HIDE DEF f
<1> QED
  BY <1>1, <1>4, <1>7 DEF Fields

\* Merging keeps the confidence telling.
LEMMA MergedTells ==
  ASSUME NEW row \in Rows, NEW u, Sound(u), Tells(row)
  PROVE  Tells(Merged(row, u))
<1> DEFINE new == Merged(row, u)
<1>1. /\ new.hostname = IF u.hostname # "" /\ (row.hostname = "" \/ u.confidence = "unifi")
                          THEN u.hostname ELSE row.hostname
      /\ new.mac = IF u.mac # "" /\ (row.mac = "" \/ u.confidence = "unifi")
                     THEN u.mac ELSE row.mac
      /\ new.vendor = IF u.vendor # "" /\ (row.vendor = "" \/ u.confidence = "unifi")
                        THEN u.vendor ELSE row.vendor
      /\ new.confidence =
           IF u.confidence # "" /\ (row.confidence = "source_ip" \/ u.confidence = "unifi")
             THEN u.confidence ELSE row.confidence
  BY MergedFields DEF Fields
<1> HIDE DEF new
<1>2. Tells(new)
  <2>1. /\ row.confidence = "source_ip"
             <=> row.hostname = "" /\ row.mac = "" /\ row.vendor = ""
        /\ row.confidence \in {"ptr", "mdns"} => row.hostname # ""
    BY DEF Tells
  <2>2. /\ u.confidence # "source_ip"
        /\ u.confidence = "" <=> u.hostname = "" /\ u.mac = ""
        /\ u.confidence = "" => u.vendor = ""
        /\ u.confidence \in {"ptr", "mdns"} => u.hostname # ""
    BY DEF Sound
  <2>3. CASE u.confidence = ""
    BY <1>1, <2>1, <2>2, <2>3 DEF Tells
  <2>4. CASE u.confidence = "unifi"
    BY <1>1, <2>1, <2>2, <2>4 DEF Tells
  <2>5. CASE u.confidence \notin {"", "unifi"} /\ row.confidence = "source_ip"
    BY <1>1, <2>1, <2>2, <2>5 DEF Tells
  <2>6. CASE u.confidence \notin {"", "unifi"} /\ row.confidence # "source_ip"
    BY <1>1, <2>1, <2>2, <2>6 DEF Tells
  <2> QED
    BY <2>3, <2>4, <2>5, <2>6
<1> QED
  BY <1>2 DEF new

\* A client that was identified in a row stays identified.
LEMMA MergedIdentified ==
  ASSUME NEW row \in Rows, NEW u, Sound(u), NEW c, Identified(row, c)
  PROVE  Identified(Merged(row, u), c)
<1>1. row.confidence = "unifi"
  BY DEF Identified
<1>2. Merged(row, u).confidence = "unifi"
  BY <1>1, MergedFields
<1>3. ASSUME NEW f \in Fields, row[f] # "" PROVE Merged(row, u)[f] # ""
  <2>1. Merged(row, u)[f] = IF u[f] # "" /\ (row[f] = "" \/ u.confidence = "unifi")
                              THEN u[f] ELSE row[f]
    BY MergedFields
  <2> QED
    BY <1>3, <2>1
<1> QED
  BY <1>2, <1>3 DEF Identified

LEMMA ImportIdentified ==
  ASSUME NEW row \in Rows, NEW c \in Clients, Usable(c)
  PROVE  Identified(Merged(row, Import(c)), c)
<1>1. Sound(Import(c)) /\ Import(c).confidence = "unifi"
  BY ImportSound
<1>2. Merged(row, Import(c)).confidence = "unifi"
  BY <1>1, MergedFields
<1>3. ASSUME NEW f \in Fields, Import(c)[f] # "" PROVE Merged(row, Import(c))[f] # ""
  BY <1>1, <1>3, MergedFields
<1> QED
  BY <1>2, <1>3 DEF Identified

\* Every value of the merged row was there before or is observed now.
LEMMA MergedObserved ==
  ASSUME NEW row \in Rows, NEW u, Sound(u), NEW f \in Fields, Merged(row, u)[f] # ""
  PROVE  Merged(row, u)[f] = row[f] \/ <<f, Merged(row, u)[f]>> \in Observed(row, u)
<1>1. SUFFICES ASSUME Merged(row, u)[f] # row[f]
               PROVE  <<f, Merged(row, u)[f]>> \in Observed(row, u)
  OBVIOUS
<1>2. u[f] # "" /\ Merged(row, u)[f] = u[f]
  BY <1>1, MergedFields
<1>3. Filled(row, u)[f] = u[f]
  BY <1>2, FilledFields
<1> QED
  BY <1>2, <1>3 DEF Observed

LEMMA ObservedType ==
  ASSUME NEW row \in Rows, NEW u, Sound(u)
  PROVE  Observed(row, u) \subseteq Fields \X (Names \cup Macs \cup Vendors)
<1>1. ASSUME NEW f \in Fields, Filled(row, u)[f] # ""
      PROVE  Filled(row, u)[f] \in Names \cup Macs \cup Vendors
  <2>1. Filled(row, u) \in Cleaned
    BY FilledFields
  <2>2. CASE f = "hostname"
    BY <1>1, <2>1, <2>2 DEF Cleaned
  <2>3. CASE f = "mac"
    BY <1>1, <2>1, <2>3 DEF Cleaned
  <2>4. CASE f = "vendor"
    BY <1>1, <2>1, <2>4 DEF Cleaned
  <2> QED
    BY <2>2, <2>3, <2>4 DEF Fields
<1>2. SUFFICES ASSUME NEW o \in Observed(row, u)
               PROVE  o \in Fields \X (Names \cup Macs \cup Vendors)
  OBVIOUS
<1>3. PICK f \in Fields : Filled(row, u)[f] # "" /\ o = <<f, Filled(row, u)[f]>>
  BY <1>2 DEF Observed
<1> QED
  BY <1>1, <1>3

(***************************************************************************)
(* Steps                                                                   *)
(***************************************************************************)

\* What a lookup or an import merges is sound.
LEMMA CarriedSound ==
  ASSUME IInv
  PROVE  /\ \A j \in Jobs : job[j].step = "update" =>
              Sound(job[j].update) /\ job[j].update.confidence # "unifi"
         /\ \A i \in Imports :
              imports[i].step = "update" =>
                 /\ Client(i) \in Clients /\ Client(i).ip \in Addresses /\ Usable(Client(i))
                 /\ Sound(Import(Client(i)))
<1>1. ASSUME NEW j \in Jobs, job[j].step = "update"
      PROVE  Sound(job[j].update) /\ job[j].update.confidence # "unifi"
  BY <1>1, FoundSound DEF IInv, Underway
<1>2. ASSUME NEW i \in Imports, imports[i].step = "update"
      PROVE  Client(i) \in Clients /\ Client(i).ip \in Addresses /\ Usable(Client(i))
  <2> DEFINE n == imports[i].next
             len == Len(imports[i].list)
  <2>1. TypeOK
    BY DEF IInv
  <2>2. /\ imports[i].list \in Seq(Clients) /\ imports[i].next \in 1..Len(imports[i].list) + 1
         /\ imports[i].next <= Len(imports[i].list)
    BY <1>2, <2>1, Zenon DEF TypeOK
  <2>3. imports[i].list \in Seq(Clients) /\ n \in 1..len + 1 /\ n <= len /\ len \in Nat
    BY <2>2
  <2>4. imports[i].list \in Seq(Clients) /\ n \in 1..len
    BY ONLY <2>3
  <2>5. Client(i).ip \in Addresses /\ Usable(imports[i].list[imports[i].next])
    BY <1>2, <2>4 DEF IInv, Underway
  <2> QED
    BY <2>4, <2>5 DEF Client
<1> QED
  BY <1>1, <1>2, ImportSound

\* A step leaves the rows and their observations alone, merges one sound
\* update into one row, or sets a label.  Only an import speaks for UniFi.
LEMMA RowSteps ==
  ASSUME IInv, [Next]_vars
  PROVE  \/ rows' = rows /\ seen' = seen
         \/ \E a \in Addresses, u \in Updates :
              /\ Sound(u) /\ UpdateHostIdentity(a, u)
              /\ \/ u.confidence # "unifi"
                 \/ \E i \in Imports :
                      UpdateClient(i) /\ Client(i).ip = a /\ u = Import(Client(i))
         \/ /\ seen' = seen
            /\ \E a \in Addresses, label \in Labels \cup {""} :
                 rows' = [rows EXCEPT ![a].label = label]
<1>1. CASE \E j \in Jobs : FinishLookup(j)
  <2>1. PICK j \in Jobs : FinishLookup(j)
    BY <1>1
  <2>2. job[j].step = "update" /\ UpdateHostIdentity(job[j].address, job[j].update)
    BY <2>1 DEF FinishLookup
  <2>3. job[j].address \in Addresses /\ job[j].update \in Updates
    BY <2>2 DEF IInv, TypeOK
  <2> QED
    BY <2>2, <2>3, CarriedSound
<1>2. CASE \E i \in Imports : UpdateClient(i)
  <2>1. PICK i \in Imports : UpdateClient(i)
    BY <1>2
  <2>2. /\ imports[i].step = "update"
        /\ UpdateHostIdentity(Client(i).ip, Import(Client(i)))
    BY <2>1 DEF UpdateClient
  <2>3. Client(i).ip \in Addresses /\ Sound(Import(Client(i)))
    BY <2>2, CarriedSound
  <2>4. Import(Client(i)) \in Updates
    BY <2>3 DEF Sound, Cleaned, Updates, RawNames, RawMacs
  <2> QED
    BY <2>1, <2>2, <2>3, <2>4
<1>3. CASE \E a \in Addresses : SetHostLabel(a)
  BY <1>3 DEF SetHostLabel
<1>4. CASE \E a \in Addresses : Query(a) \/ RetryTimeElapses(a)
  BY <1>4 DEF Query, RetryTimeElapses
<1>5. CASE SaveUniFiSettings \/ Restart \/ UNCHANGED vars
  BY <1>5 DEF SaveUniFiSettings, Restart, vars
<1>6. CASE \E j \in Jobs : LookUp(j) \/ LookupTimesOut(j)
  BY <1>6 DEF LookUp, LookupTimesOut
<1>7. CASE \E i \in Imports :
             \/ StartImport(i) \/ StartTest(i) \/ FetchClients(i) \/ FetchFails(i)
             \/ TestUniFi(i) \/ SkipClient(i) \/ EnsureClient(i)
             \/ ImportAborts(i) \/ FinishImport(i)
  BY <1>7 DEF StartImport, StartTest, Begin, FetchClients, FetchFails, TestUniFi, SkipClient,
              EnsureClient, ImportAborts, FinishImport
<1> QED
  BY <1>1, <1>2, <1>3, <1>4, <1>5, <1>6, <1>7 DEF Next

\* The invariants that are about rows and observations.
LEMMA RowsInv ==
  ASSUME IInv, [Next]_vars
  PROVE  /\ rows' \in [Addresses -> Rows]
         /\ seen' \in [Addresses -> SUBSET (Fields \X (Names \cup Macs \cup Vendors))]
         /\ ConfidenceTells' /\ ShownWasObserved'
<1>0. /\ rows \in [Addresses -> Rows]
      /\ seen \in [Addresses -> SUBSET (Fields \X (Names \cup Macs \cup Vendors))]
      /\ ConfidenceTells /\ ShownWasObserved
  BY DEF IInv, TypeOK, Shapes
<1>1. CASE rows' = rows /\ seen' = seen
  BY <1>0, <1>1 DEF ConfidenceTells, ShownWasObserved
<1>2. ASSUME NEW a \in Addresses, NEW u \in Updates, Sound(u), UpdateHostIdentity(a, u)
      PROVE  /\ rows' \in [Addresses -> Rows]
             /\ seen' \in [Addresses -> SUBSET (Fields \X (Names \cup Macs \cup Vendors))]
             /\ ConfidenceTells' /\ ShownWasObserved'
  <2>1. /\ rows' = [rows EXCEPT ![a] = Merged(rows[a], u)]
        /\ seen' = [seen EXCEPT ![a] = seen[a] \cup Observed(rows[a], u)]
    BY <1>2 DEF UpdateHostIdentity
  <2>2. rows[a] \in Rows /\ Tells(rows[a])
    BY <1>0 DEF ConfidenceTells
  <2>3. Merged(rows[a], u) \in Rows /\ Tells(Merged(rows[a], u))
    BY <1>2, <2>2, MergedFields, MergedTells
  <2>4. Observed(rows[a], u) \subseteq Fields \X (Names \cup Macs \cup Vendors)
    BY <1>2, <2>2, ObservedType
  <2>5. rows'[a] = Merged(rows[a], u) /\ seen'[a] = seen[a] \cup Observed(rows[a], u)
    BY <1>0, <2>1
  <2>6. \A b \in Addresses \ {a} : rows'[b] = rows[b] /\ seen'[b] = seen[b]
    BY <1>0, <2>1
  <2>7. ConfidenceTells'
    BY <1>0, <2>3, <2>5, <2>6 DEF ConfidenceTells
  <2>8. ASSUME NEW f \in Fields, rows'[a][f] # "" PROVE <<f, rows'[a][f]>> \in seen'[a]
    BY <1>0, <1>2, <2>2, <2>5, <2>8, MergedObserved DEF ShownWasObserved
  <2>9. ShownWasObserved'
    BY <1>0, <2>6, <2>8 DEF ShownWasObserved
  <2> QED
    BY <1>0, <2>1, <2>3, <2>4, <2>7, <2>9
<1>3. ASSUME NEW a \in Addresses, NEW label \in Labels \cup {""}, seen' = seen,
             rows' = [rows EXCEPT ![a].label = label]
      PROVE  /\ rows' \in [Addresses -> Rows] /\ ConfidenceTells' /\ ShownWasObserved'
  <2>1. rows' \in [Addresses -> Rows]
    BY <1>0, <1>3 DEF Rows
  <2>2. \A b \in Addresses : /\ rows'[b].confidence = rows[b].confidence
                             /\ \A f \in Fields : rows'[b][f] = rows[b][f]
    BY <1>0, <1>3 DEF Rows, Fields
  <2>3. \A b \in Addresses : /\ rows'[b].hostname = rows[b].hostname
                             /\ rows'[b].mac = rows[b].mac /\ rows'[b].vendor = rows[b].vendor
    BY <2>2 DEF Fields
  <2>4. ConfidenceTells'
    BY <1>0, <2>2, <2>3 DEF ConfidenceTells, Tells
  <2> QED
    BY <1>0, <1>3, <2>1, <2>2, <2>4 DEF ShownWasObserved
<1> QED
  BY <1>0, <1>1, <1>2, <1>3, RowSteps
\* What a step does to the lookups.
LEMMA JobSteps ==
  ASSUME IInv, [Next]_vars
  PROVE  \/ /\ job' = job /\ inflight' = inflight
            /\ known \subseteq known' /\ known' \subseteq Addresses
         \/ /\ known' = known
            /\ \/ \E j \in Jobs : LookUp(j)
               \/ \E j \in Jobs : job[j].step = "update" /\ EndJob(j)
               \/ job' = [j \in Jobs |-> Resting] /\ inflight' = {}
         \/ \E a \in Addresses, j \in Jobs :
              MayLookUp(a) /\ StartLookup(a, j) /\ known' = known \cup {a}
<1>0. known \subseteq Addresses
  BY DEF IInv, TypeOK
<1>1. CASE \E a \in Addresses : Query(a)
  BY <1>0, <1>1 DEF Query, EnsureHost
<1>2. CASE \E a \in Addresses : RetryTimeElapses(a) \/ SetHostLabel(a)
  BY <1>0, <1>2 DEF RetryTimeElapses, SetHostLabel
<1>3. CASE \E j \in Jobs : LookUp(j)
  BY <1>3 DEF LookUp
<1>4. CASE \E j \in Jobs : FinishLookup(j) \/ LookupTimesOut(j)
  BY <1>4 DEF FinishLookup, LookupTimesOut
<1>5. CASE SaveUniFiSettings \/ UNCHANGED vars
  BY <1>0, <1>5 DEF SaveUniFiSettings, vars
<1>6. CASE Restart
  BY <1>6 DEF Restart
<1>7. CASE \E i \in Imports :
             \/ StartImport(i) \/ StartTest(i) \/ FetchClients(i) \/ FetchFails(i)
             \/ TestUniFi(i) \/ SkipClient(i) \/ UpdateClient(i)
             \/ ImportAborts(i) \/ FinishImport(i)
  BY <1>0, <1>7 DEF StartImport, StartTest, Begin, FetchClients, FetchFails, TestUniFi,
              SkipClient, UpdateClient, ImportAborts, FinishImport
<1>8. CASE \E i \in Imports : EnsureClient(i)
  BY <1>0, <1>8 DEF EnsureClient, EnsureHost
<1> QED
  BY <1>1, <1>2, <1>3, <1>4, <1>5, <1>6, <1>7, <1>8 DEF Next

\* The waiting addresses, the settings and the status.
LEMMA SmallTypes ==
  ASSUME IInv, [Next]_vars
  PROVE  /\ waiting' \subseteq Addresses
         /\ settings' \in [enabled : BOOLEAN, url : BOOLEAN, key : BOOLEAN]
         /\ status' \in {"", "ok", "error"}
<1>0. /\ waiting \subseteq Addresses
      /\ settings \in [enabled : BOOLEAN, url : BOOLEAN, key : BOOLEAN]
      /\ status \in {"", "ok", "error"}
  BY DEF IInv, TypeOK
<1>1. CASE \E a \in Addresses : Query(a) \/ RetryTimeElapses(a) \/ SetHostLabel(a)
  BY <1>0, <1>1 DEF Query, StartLookup, RetryTimeElapses, SetHostLabel
<1>2. CASE \E j \in Jobs : LookUp(j) \/ FinishLookup(j) \/ LookupTimesOut(j)
  BY <1>0, <1>2 DEF LookUp, FinishLookup, LookupTimesOut
<1>3. CASE SaveUniFiSettings
  <2>1. PICK enabled \in BOOLEAN, url \in BOOLEAN, key \in BOOLEAN :
          settings' = [enabled |-> enabled, url |-> url, key |-> key \/ settings.key]
    BY <1>3 DEF SaveUniFiSettings
  <2>2. PICK given \in BOOLEAN : given = (key \/ settings.key)
    OBVIOUS
  <2>3. settings' = [enabled |-> enabled, url |-> url, key |-> given]
    BY <2>1, <2>2
  <2>4. settings' \in [enabled : BOOLEAN, url : BOOLEAN, key : BOOLEAN]
    BY ONLY <2>3
  <2> QED
    BY <1>0, <1>3, <2>4 DEF SaveUniFiSettings
<1>4. CASE Restart \/ UNCHANGED vars
  BY <1>0, <1>4 DEF Restart, vars
<1>5. CASE \E i \in Imports :
             \/ StartImport(i) \/ StartTest(i) \/ FetchClients(i) \/ FetchFails(i)
             \/ TestUniFi(i) \/ SkipClient(i) \/ EnsureClient(i) \/ UpdateClient(i)
             \/ ImportAborts(i) \/ FinishImport(i)
  BY <1>0, <1>5 DEF StartImport, StartTest, Begin, FetchClients, FetchFails, TestUniFi,
              SkipClient, EnsureClient, UpdateClient, ImportAborts, FinishImport
<1> QED
  BY <1>1, <1>2, <1>3, <1>4, <1>5 DEF Next

JobShapes ==
    [step : {"idle", "lookup", "update"}, address : Addresses \cup {"none"}, update : Updates]

\* The part of the invariant that is about lookups.
JobsOK ==
    /\ job \in [Jobs -> JobShapes] /\ known \subseteq Addresses /\ inflight \subseteq Addresses
    /\ \A j \in Jobs : job[j].step # "idle" => job[j].address \in known \ Unlooked
    /\ \A j \in Jobs : job[j].step = "update" => \E ans \in Answers : job[j].update = Found(ans)
    /\ InFlightExact

LEMMA ShapesOfJobs ==
  /\ Resting \in JobShapes /\ Resting.step = "idle"
  /\ \A a \in Addresses : [step |-> "lookup", address |-> a, update |-> Nothing] \in JobShapes
  /\ \A ans \in Answers : Found(ans) \in Updates
<1>1. Nothing \in Updates
  BY DEF Nothing, Updates, RawNames, RawMacs
<1>2. ASSUME NEW ans \in Answers PROVE Found(ans) \in Updates
  BY FoundSound DEF Sound, Cleaned, Updates, RawNames, RawMacs
<1> QED
  BY <1>1, <1>2 DEF Resting, JobShapes

LEMMA JobsInv ==
  ASSUME IInv, [Next]_vars
  PROVE  JobsOK'
<1>0. JobsOK
  BY DEF IInv, TypeOK, Shapes, Underway, JobsOK, JobShapes
<1>1. CASE /\ job' = job /\ inflight' = inflight
           /\ known \subseteq known' /\ known' \subseteq Addresses
  BY <1>0, <1>1 DEF JobsOK, InFlightExact
<1>2. ASSUME NEW j \in Jobs, LookUp(j), known' = known PROVE JobsOK'
  <2>1. PICK ans \in Answers :
          job' = [job EXCEPT ![j].step = "update", ![j].update = Found(ans)]
    BY <1>2 DEF LookUp
  <2>2. inflight' = inflight /\ job[j].step = "lookup"
    BY <1>2 DEF LookUp
  <2>3. /\ job'[j].step = "update" /\ job'[j].address = job[j].address
        /\ job'[j].update = Found(ans)
    BY <1>0, <2>1 DEF JobsOK, JobShapes
  <2>4. \A k \in Jobs \ {j} : job'[k] = job[k]
    BY <1>0, <2>1 DEF JobsOK
  <2>5. job' \in [Jobs -> JobShapes]
    <3>1. Found(ans) \in Updates
      BY ShapesOfJobs
    <3> HIDE DEF Found
    <3> QED
      BY <1>0, <2>1, <3>1 DEF JobsOK, JobShapes
  <2>6. \A k \in Jobs : /\ job'[k].address = job[k].address
                        /\ job'[k].step = "idle" <=> job[k].step = "idle"
    BY <2>2, <2>3, <2>4
  <2>7. InFlightExact'
    BY <1>0, <2>2, <2>6 DEF JobsOK, InFlightExact
  <2> QED
    BY <1>0, <1>2, <2>2, <2>3, <2>4, <2>5, <2>6, <2>7 DEF JobsOK
<1>3. ASSUME NEW j \in Jobs, job[j].step = "update", EndJob(j), known' = known PROVE JobsOK'
  <2>1. inflight' = inflight \ {job[j].address} /\ job' = [job EXCEPT ![j] = Resting]
    BY <1>3 DEF EndJob
  <2>2. job' \in [Jobs -> JobShapes]
    BY <1>0, <2>1, ShapesOfJobs DEF JobsOK
  <2>3. job'[j].step = "idle" /\ \A k \in Jobs \ {j} : job'[k] = job[k]
    BY <1>0, <2>1, ShapesOfJobs DEF JobsOK
  <2>4. InFlightExact'
    BY <1>0, <1>3, <2>1, <2>3 DEF JobsOK, InFlightExact
  <2> QED
    BY <1>0, <1>3, <2>1, <2>2, <2>3, <2>4 DEF JobsOK
<1>4. CASE job' = [j \in Jobs |-> Resting] /\ inflight' = {} /\ known' = known
  <2>1. job' \in [Jobs -> JobShapes] /\ \A j \in Jobs : job'[j].step = "idle"
    BY <1>4, ShapesOfJobs
  <2> QED
    BY <1>0, <1>4, <2>1 DEF JobsOK, InFlightExact
<1>5. ASSUME NEW a \in Addresses, NEW j \in Jobs, MayLookUp(a), StartLookup(a, j),
             known' = known \cup {a}
      PROVE  JobsOK'
  <2> DEFINE new == [step |-> "lookup", address |-> a, update |-> Nothing]
  <2>1. job[j].step = "idle" /\ inflight' = inflight \cup {a} /\ job' = [job EXCEPT ![j] = new]
    BY <1>5 DEF StartLookup
  <2>2. new \in JobShapes /\ new.step = "lookup" /\ new.address = a
    BY ShapesOfJobs
  <2> HIDE DEF new
  <2>3. job' \in [Jobs -> JobShapes]
    BY <1>0, <2>1, <2>2 DEF JobsOK
  <2>4. job'[j] = new /\ \A k \in Jobs \ {j} : job'[k] = job[k]
    BY <1>0, <2>1 DEF JobsOK
  <2>5. a \notin Unlooked /\ a \notin inflight
    BY <1>5 DEF MayLookUp
  <2>6. \A k \in Jobs : job[k].step # "idle" => job[k].address # a
    BY <1>0, <2>5 DEF JobsOK, InFlightExact
  <2>7. InFlightExact'
    BY <1>0, <2>1, <2>2, <2>4, <2>6 DEF JobsOK, InFlightExact
  <2> QED
    BY <1>0, <1>5, <2>1, <2>2, <2>3, <2>4, <2>5, <2>7 DEF JobsOK
<1> QED
  BY <1>1, <1>2, <1>3, <1>4, <1>5, JobSteps
\* No step takes back what an import has said.
LEMMA StaysIdentified ==
  ASSUME IInv, [Next]_vars, NEW b \in Addresses, NEW c, Identified(rows[b], c)
  PROVE  Identified(rows'[b], c)
<1>0. rows \in [Addresses -> Rows]
  BY DEF IInv, TypeOK
<1>1. CASE rows' = rows
  BY <1>1
<1>2. ASSUME NEW a \in Addresses, NEW u \in Updates, Sound(u), UpdateHostIdentity(a, u)
      PROVE  Identified(rows'[b], c)
  <2>1. rows' = [rows EXCEPT ![a] = Merged(rows[a], u)]
    BY <1>2 DEF UpdateHostIdentity
  <2>2. CASE a = b
    BY <1>0, <1>2, <2>1, <2>2, MergedIdentified
  <2>3. CASE a # b
    BY <1>0, <2>1, <2>3
  <2> QED
    BY <2>2, <2>3
<1>3. ASSUME NEW a \in Addresses, NEW label \in Labels \cup {""},
             rows' = [rows EXCEPT ![a].label = label]
      PROVE  Identified(rows'[b], c)
  <2>1. rows'[b].confidence = rows[b].confidence /\ \A f \in Fields : rows'[b][f] = rows[b][f]
    BY <1>0, <1>3 DEF Rows, Fields
  <2> QED
    BY <2>1 DEF Identified
<1> QED
  BY <1>1, <1>2, <1>3, RowSteps

ImportShapes ==
    [step : {"idle", "test", "fetch", "ensure", "update"}, ready : BOOLEAN, list : Seq(Clients),
     next : Nat]

\* The part of the invariant that is about one import.
Proper(r) ==
    /\ r \in ImportShapes /\ r.next \in 1..Len(r.list) + 1
    /\ r.step = "update" => r.next <= Len(r.list) /\ r.list[r.next].ip \in Addresses
    /\ r.step \in {"idle", "test", "fetch"} => r.list = << >>
    /\ \A n \in 1..Len(r.list) : Usable(r.list[n])

Done(r, table) ==
    \A n \in 1..r.next - 1 :
        r.list[n].ip \in Addresses => Identified(table[r.list[n].ip], r.list[n])

\* An import that has no list yet has nothing to show for.
LEMMA WithoutList ==
  ASSUME NEW r \in ImportShapes, r.list = << >>, r.next = 1, r.step # "update", NEW table
  PROVE  Proper(r) /\ Done(r, table)
  BY DEF Proper, Done

\* A fetched list is a sequence of usable clients.
LEMMA ListsType ==
  ASSUME NEW list \in Lists
  PROVE  list \in Seq(Clients) /\ Len(list) \in Nat /\ \A n \in 1..Len(list) : Usable(list[n])
<1>1. PICK n \in 1..MaxClients : list \in [1..n -> {c \in Clients : Usable(c)}]
  BY DEF Lists
<1>2. n \in Nat
  BY MaxClientsAssumption
<1>3. list \in Seq(Clients) /\ Len(list) = n
  BY <1>1, <1>2
<1> QED
  BY <1>1, <1>2, <1>3

\* An import whose next client is passed over or merged.
LEMMA Advanced ==
  ASSUME NEW r, Proper(r), r.step \in {"ensure", "update"}, r.next <= Len(r.list),
         NEW s, s \in ImportShapes, s.step = "ensure", s.list = r.list, s.next = r.next + 1,
         NEW table, Done(r, table),
         r.list[r.next].ip \in Addresses
            => Identified(table[r.list[r.next].ip], r.list[r.next])
  PROVE  Proper(s) /\ Done(s, table)
<1> DEFINE n == r.next
           len == Len(r.list)
<1>1. n \in 1..len + 1 /\ n <= len /\ len \in Nat /\ n \in Nat
  BY DEF Proper, ImportShapes
<1>2. n + 1 \in 1..len + 1
  BY ONLY <1>1
<1>3. Proper(s)
  <2> HIDE DEF n, len
  <2>1. s.next \in 1..Len(s.list) + 1
    BY <1>2 DEF n, len
  <2> QED
    BY <2>1 DEF Proper
<1>4. \A m \in 1..(n + 1) - 1 : m \in 1..n - 1 \/ m = n
  BY ONLY <1>1
<1>5. Done(s, table)
  BY <1>4 DEF Done
<1> QED
  BY <1>3, <1>5

\* What a step does to the imports.
LEMMA ImportSteps ==
  ASSUME IInv, [Next]_vars
  PROVE  \/ imports' = imports \/ imports' = [i \in Imports |-> NoImport]
         \/ \E i \in Imports :
              \/ \E step \in {"test", "fetch"} : Begin(i, step)
              \/ FetchClients(i) \/ EndImport(i)
              \/ SkipClient(i) \/ EnsureClient(i) \/ UpdateClient(i)
<1>1. CASE \E a \in Addresses : Query(a) \/ RetryTimeElapses(a) \/ SetHostLabel(a)
  BY <1>1 DEF Query, RetryTimeElapses, SetHostLabel
<1>2. CASE \E j \in Jobs : LookUp(j) \/ FinishLookup(j) \/ LookupTimesOut(j)
  BY <1>2 DEF LookUp, FinishLookup, LookupTimesOut
<1>3. CASE SaveUniFiSettings \/ Restart \/ UNCHANGED vars
  BY <1>3 DEF SaveUniFiSettings, Restart, vars
<1>4. CASE \E i \in Imports : StartImport(i) \/ StartTest(i)
  BY <1>4 DEF StartImport, StartTest
<1>5. CASE \E i \in Imports :
             \/ FetchFails(i) \/ TestUniFi(i) \/ ImportAborts(i) \/ FinishImport(i)
  BY <1>5 DEF FetchFails, TestUniFi, ImportAborts, FinishImport
<1>6. CASE \E i \in Imports :
             FetchClients(i) \/ SkipClient(i) \/ EnsureClient(i) \/ UpdateClient(i)
  BY <1>6
<1> QED
  BY <1>1, <1>2, <1>3, <1>4, <1>5, <1>6 DEF Next

LEMMA ImportsInv ==
  ASSUME IInv, [Next]_vars
  PROVE  /\ imports' \in [Imports -> ImportShapes]
         /\ \A i \in Imports : Proper(imports'[i]) /\ Done(imports'[i], rows')
<1>0. /\ imports \in [Imports -> ImportShapes] /\ rows \in [Addresses -> Rows]
  BY DEF IInv, TypeOK, Shapes, ImportShapes
<1>1. \A i \in Imports : Proper(imports[i])
  <2> SUFFICES ASSUME NEW i \in Imports PROVE Proper(imports[i])
    OBVIOUS
  <2>1. TypeOK /\ Underway
    BY DEF IInv
  <2>2. /\ imports[i].next \in 1..Len(imports[i].list) + 1
        /\ imports[i].step = "update" => imports[i].next <= Len(imports[i].list)
    BY <2>1, Zenon DEF TypeOK
  <2>3. /\ imports[i].step \in {"idle", "test", "fetch"} => imports[i].list = << >>
        /\ \A n \in 1..Len(imports[i].list) : Usable(imports[i].list[n])
        /\ imports[i].step = "update" => imports[i].list[imports[i].next].ip \in Addresses
    BY <2>1, Zenon DEF Underway, Client
  <2> QED
    BY <1>0, <2>2, <2>3 DEF Proper
<1>2. \A i \in Imports : Done(imports[i], rows)
  BY DEF IInv, Underway, Done
<1>3. \A i \in Imports : Done(imports[i], rows')
  <2> SUFFICES ASSUME NEW i \in Imports, NEW n \in 1..imports[i].next - 1,
                      imports[i].list[n].ip \in Addresses
               PROVE  Identified(rows'[imports[i].list[n].ip], imports[i].list[n])
    BY DEF Done
  <2>1. Identified(rows[imports[i].list[n].ip], imports[i].list[n])
    BY <1>2 DEF Done
  <2> QED
    BY <2>1, StaysIdentified
<1>4. /\ NoImport \in ImportShapes /\ NoImport.list = << >> /\ NoImport.next = 1
      /\ NoImport.step = "idle"
  BY DEF NoImport, ImportShapes
<1>5. Proper(NoImport) /\ Done(NoImport, rows')
  BY <1>4, WithoutList
<1>6. CASE imports' = imports
  BY <1>0, <1>1, <1>3, <1>6
<1>7. CASE imports' = [i \in Imports |-> NoImport]
  BY <1>4, <1>5, <1>7
<1>8. ASSUME NEW i \in Imports, NEW s \in ImportShapes, imports' = [imports EXCEPT ![i] = s],
             Proper(s) /\ Done(s, rows')
      PROVE  /\ imports' \in [Imports -> ImportShapes]
             /\ \A k \in Imports : Proper(imports'[k]) /\ Done(imports'[k], rows')
  BY <1>0, <1>1, <1>3, <1>8
<1>9. ASSUME NEW i \in Imports, NEW step \in {"test", "fetch"}, Begin(i, step)
      PROVE  /\ imports' \in [Imports -> ImportShapes]
             /\ \A k \in Imports : Proper(imports'[k]) /\ Done(imports'[k], rows')
  <2>1. PICK ready \in BOOLEAN : ready = (settings.url /\ settings.key)
    OBVIOUS
  <2> DEFINE s == [imports[i] EXCEPT !.step = step, !.ready = ready]
  <2>2. /\ imports[i].step = "idle" /\ imports' = [imports EXCEPT ![i] = s]
    BY <1>0, <1>9, <2>1 DEF Begin, ImportShapes
  <2>3. /\ s \in ImportShapes /\ s.step = step /\ s.list = imports[i].list
        /\ s.next = imports[i].next
    BY <1>0 DEF ImportShapes
  <2>4. imports[i].list = << >> /\ imports[i].next = 1
    <3>1. imports[i].list = << >> /\ imports[i].next \in 1..Len(imports[i].list) + 1
      BY <1>1, <2>2 DEF Proper
    <3> QED
      BY <3>1
  <2> HIDE DEF s
  <2>5. Proper(s) /\ Done(s, rows')
    BY <2>3, <2>4, WithoutList
  <2> QED
    BY <1>8, <2>2, <2>3, <2>5
<1>10. ASSUME NEW i \in Imports, FetchClients(i)
       PROVE  /\ imports' \in [Imports -> ImportShapes]
              /\ \A k \in Imports : Proper(imports'[k]) /\ Done(imports'[k], rows')
  <2>1. PICK list \in Lists : imports' = [imports EXCEPT ![i].step = "ensure", ![i].list = list]
    BY <1>10 DEF FetchClients
  <2>2. /\ list \in Seq(Clients) /\ Len(list) \in Nat
        /\ \A n \in 1..Len(list) : Usable(list[n])
    BY ListsType
  <2> DEFINE s == [imports[i] EXCEPT !.step = "ensure", !.list = list]
  <2>3. imports' = [imports EXCEPT ![i] = s]
    BY <1>0, <2>1 DEF ImportShapes
  <2>4. s \in ImportShapes /\ s.step = "ensure" /\ s.list = list /\ s.next = imports[i].next
    BY <1>0, <2>2 DEF ImportShapes
  <2>5. imports[i].next = 1
    <3>1. imports[i].list = << >> /\ imports[i].next \in 1..Len(imports[i].list) + 1
      BY <1>1, <1>10 DEF Proper, FetchClients
    <3> QED
      BY <3>1
  <2> HIDE DEF s
  <2>6. Proper(s)
    BY <2>2, <2>4, <2>5 DEF Proper
  <2>7. Done(s, rows')
    BY <2>4, <2>5 DEF Done
  <2> QED
    BY <1>8, <2>3, <2>4, <2>6, <2>7
<1>11. ASSUME NEW i \in Imports, EndImport(i)
       PROVE  /\ imports' \in [Imports -> ImportShapes]
              /\ \A k \in Imports : Proper(imports'[k]) /\ Done(imports'[k], rows')
  BY <1>4, <1>5, <1>8, <1>11 DEF EndImport
<1>12. ASSUME NEW i \in Imports, EnsureClient(i)
       PROVE  /\ imports' \in [Imports -> ImportShapes]
              /\ \A k \in Imports : Proper(imports'[k]) /\ Done(imports'[k], rows')
  <2> DEFINE s == [imports[i] EXCEPT !.step = "update"]
  <2>1. /\ imports' = [imports EXCEPT ![i] = s] /\ imports[i].next <= Len(imports[i].list)
        /\ imports[i].list[imports[i].next].ip \in Addresses
    BY <1>0, <1>12 DEF EnsureClient, Client, ImportShapes
  <2>2. /\ s \in ImportShapes /\ s.step = "update" /\ s.list = imports[i].list
        /\ s.next = imports[i].next
    BY <1>0 DEF ImportShapes
  <2> HIDE DEF s
  <2>3. Proper(s)
    BY <1>1, <2>1, <2>2 DEF Proper
  <2>4. Done(s, rows')
    BY <1>3, <2>2 DEF Done
  <2> QED
    BY <1>8, <2>1, <2>2, <2>3, <2>4
<1>13. ASSUME NEW i \in Imports, SkipClient(i) \/ UpdateClient(i)
       PROVE  /\ imports' \in [Imports -> ImportShapes]
              /\ \A k \in Imports : Proper(imports'[k]) /\ Done(imports'[k], rows')
  <2> DEFINE c == imports[i].list[imports[i].next]
             m == imports[i].next + 1
             s == [imports[i] EXCEPT !.step = "ensure", !.next = m]
  <2>1. imports[i].step \in {"ensure", "update"} /\ imports[i].next <= Len(imports[i].list)
    BY <1>1, <1>13 DEF SkipClient, UpdateClient, Proper
  <2>2. imports' = [imports EXCEPT ![i] = s]
    BY <1>0, <1>13 DEF SkipClient, UpdateClient, ImportShapes
  <2>3. /\ s \in ImportShapes /\ s.step = "ensure" /\ s.list = imports[i].list
        /\ s.next = imports[i].next + 1
    <3>1. m \in Nat
      BY <1>0 DEF ImportShapes
    <3>2. m = imports[i].next + 1
      OBVIOUS
    <3> HIDE DEF m
    <3> QED
      BY <1>0, <3>1, <3>2 DEF ImportShapes
  <2>4. c.ip \in Addresses => Identified(rows'[c.ip], c)
    <3>1. CASE SkipClient(i)
      BY <3>1 DEF SkipClient, Client
    <3>2. CASE UpdateClient(i)
      <4>1. /\ rows' = [rows EXCEPT ![c.ip] = Merged(rows[c.ip], Import(c))]
            /\ imports[i].step = "update"
        BY <3>2 DEF UpdateClient, UpdateHostIdentity, Client
      <4>2. c \in Clients /\ c.ip \in Addresses /\ Usable(c)
        BY <4>1, CarriedSound DEF Client
      <4> HIDE DEF c
      <4>3. rows'[c.ip] = Merged(rows[c.ip], Import(c))
        BY <1>0, <4>1, <4>2
      <4> QED
        BY <1>0, <4>2, <4>3, ImportIdentified
    <3> QED
      BY <1>13, <3>1, <3>2
  <2> HIDE DEF s
  <2>5. Proper(s) /\ Done(s, rows')
    <3>1. Proper(imports[i]) /\ Done(imports[i], rows')
      BY <1>1, <1>3
    <3> QED
      BY <2>1, <2>3, <2>4, <3>1, Advanced
  <2> QED
    BY <1>8, <2>2, <2>3, <2>5
<1> QED
  BY <1>6, <1>7, <1>9, <1>10, <1>11, <1>12, <1>13, ImportSteps
(***************************************************************************)
(* The inductive invariant                                                 *)
(***************************************************************************)

LEMMA InitIInv ==
  ASSUME Init
  PROVE  IInv
<1>1. /\ NewRow \in Rows /\ Tells(NewRow)
      /\ \A f \in Fields : NewRow[f] = ""
  BY DEF NewRow, Rows, Confidences, Tells, Fields
<1>2. rows = [a \in Addresses |-> NewRow] /\ seen = [a \in Addresses |-> {}]
  BY DEF Init
<1>3. ConfidenceTells /\ ShownWasObserved
  BY <1>1, <1>2 DEF ConfidenceTells, ShownWasObserved
<1>4. job = [j \in Jobs |-> Resting] /\ inflight = {}
  BY DEF Init
<1>5. job \in [Jobs -> JobShapes] /\ \A j \in Jobs : job[j].step = "idle"
  BY <1>4, ShapesOfJobs
<1>6. InFlightExact
  BY <1>4, <1>5 DEF InFlightExact
<1>7. imports = [i \in Imports |-> NoImport]
  BY DEF Init
<1>8. /\ NoImport \in ImportShapes /\ NoImport.list = << >> /\ NoImport.next = 1
      /\ NoImport.step = "idle"
  BY DEF NoImport, ImportShapes
<1>9. imports \in [Imports -> ImportShapes]
  BY <1>7, <1>8
<1>10. Shapes
  BY <1>2, <1>5, <1>9 DEF Shapes, JobShapes, ImportShapes
<1>11. \A i \in Imports : /\ imports[i].step = "idle" /\ imports[i].list = << >>
                          /\ imports[i].next = 1
  BY <1>7, <1>8
<1>12. Underway
  BY <1>5, <1>11 DEF Underway
<1>13. TypeOK
  <2>1. /\ known = {} /\ waiting = {} /\ status = ""
        /\ settings = [enabled |-> FALSE, url |-> FALSE, key |-> FALSE]
    BY DEF Init
  <2>2. rows \in [Addresses -> Rows]
    BY <1>1, <1>2
  <2>3. \A j \in Jobs : job[j].update \in Updates
    BY <1>5 DEF JobShapes
  <2>4. \A i \in Imports : /\ imports[i].list \in Seq(Clients)
                           /\ imports[i].next \in 1..Len(imports[i].list) + 1
    <3> SUFFICES ASSUME NEW i \in Imports
                 PROVE  /\ imports[i].list \in Seq(Clients)
                        /\ imports[i].next \in 1..Len(imports[i].list) + 1
      OBVIOUS
    <3>1. imports[i].list = << >> /\ imports[i].next = 1
      BY <1>11
    <3> QED
      BY <3>1
  <2> QED
    BY <1>4, <1>5, <1>11, <2>1, <2>2, <2>3, <2>4 DEF TypeOK
<1> QED
  BY <1>3, <1>6, <1>10, <1>12, <1>13 DEF IInv

LEMMA StepIInv ==
  ASSUME IInv, [Next]_vars
  PROVE  IInv'
<1>1. /\ rows' \in [Addresses -> Rows]
      /\ seen' \in [Addresses -> SUBSET (Fields \X (Names \cup Macs \cup Vendors))]
      /\ ConfidenceTells' /\ ShownWasObserved'
  BY RowsInv
<1>2. JobsOK'
  BY JobsInv
<1>3. /\ imports' \in [Imports -> ImportShapes]
      /\ \A i \in Imports : Proper(imports'[i]) /\ Done(imports'[i], rows')
  BY ImportsInv
<1>4. /\ waiting' \subseteq Addresses
      /\ settings' \in [enabled : BOOLEAN, url : BOOLEAN, key : BOOLEAN]
      /\ status' \in {"", "ok", "error"}
  BY SmallTypes
<1>5. Shapes'
  BY <1>1, <1>2, <1>3 DEF Shapes, JobsOK, JobShapes, ImportShapes
<1>6. /\ known' \subseteq Addresses /\ inflight' \subseteq Addresses /\ InFlightExact'
      /\ \A j \in Jobs : /\ job'[j].step # "idle" => job'[j].address \in known' \ Unlooked
                         /\ job'[j].step = "update" =>
                              \E ans \in Answers : job'[j].update = Found(ans)
  BY <1>2 DEF JobsOK
<1>7. \A j \in Jobs : job'[j].step \in {"idle", "lookup", "update"} /\ job'[j].update \in Updates
  BY <1>2 DEF JobsOK, JobShapes
<1>8. ASSUME NEW i \in Imports
      PROVE  /\ imports'[i].step \in {"idle", "test", "fetch", "ensure", "update"}
             /\ imports'[i].list \in Seq(Clients)
             /\ imports'[i].next \in 1..Len(imports'[i].list) + 1
             /\ imports'[i].step = "update" => imports'[i].next <= Len(imports'[i].list)
  <2>1. imports'[i] \in ImportShapes
    BY <1>3
  <2>2. Proper(imports'[i])
    BY <1>3
  <2> QED
    BY <2>1, <2>2 DEF Proper, ImportShapes
<1>9. TypeOK'
  BY <1>1, <1>4, <1>6, <1>7, <1>8, Zenon DEF TypeOK
<1>10. Underway'
  <2>1. ASSUME NEW i \in Imports
        PROVE  /\ imports'[i].step \in {"idle", "test", "fetch"} => imports'[i].list = << >>
               /\ \A n \in 1..Len(imports'[i].list) : Usable(imports'[i].list[n])
               /\ imports'[i].step = "update" => imports'[i].list[imports'[i].next].ip \in Addresses
               /\ \A n \in 1..imports'[i].next - 1 :
                    imports'[i].list[n].ip \in Addresses
                      => Identified(rows'[imports'[i].list[n].ip], imports'[i].list[n])
    BY <1>3, Zenon DEF Proper, Done
  <2> QED
    BY <1>6, <2>1, Zenon DEF Underway, Client
<1> QED
  BY <1>1, <1>5, <1>6, <1>9, <1>10 DEF IInv

\* The inductive invariant holds always: rows, lookups and imports stay
\* consistent through every interleaving of handleDNS, the enrichment
\* goroutines, the UniFi requests and restarts.
THEOREM AlwaysIInv == Spec => []IInv
<1>1. Init => IInv
  BY InitIInv
<1>2. IInv /\ [Next]_vars => IInv'
  BY StepIInv
<1> QED
  BY <1>1, <1>2, PTL DEF Spec

(***************************************************************************)
(* Theorems                                                                *)
(***************************************************************************)

\* enrichInFlight names exactly the addresses that a goroutine is looking up,
\* each looked up once at a time (enqueueHostEnrichment).
THEOREM InFlightIsExact == Spec => []InFlightExact
<1>1. IInv => InFlightExact
  BY DEF IInv
<1> QED
  BY <1>1, AlwaysIInv, PTL

\* The stored confidence is source_ip exactly for the hosts of which nothing
\* is known, and names a name source only for a row with a name
\* (EnrichHostIdentity, UpdateHostIdentity).
THEOREM ConfidenceIsTelling == Spec => []ConfidenceTells
<1>1. IInv => ConfidenceTells
  BY DEF IInv
<1> QED
  BY <1>1, AlwaysIInv, PTL

\* A host shows only values of which host_observations has a row
\* (UpdateHostIdentity).
THEOREM ShownIsObserved == Spec => []ShownWasObserved
<1>1. IInv => ShownWasObserved
  BY DEF IInv
<1> QED
  BY <1>1, AlwaysIInv, PTL

\* An import ends with status ok only when every client of its list is
\* identified in its row (ImportUniFiClients).
THEOREM OkIsMerged == Spec => OkMeansMerged
<1>1. ASSUME IInv, NEW i \in Imports, FinishImport(i), NEW n \in 1..Len(imports[i].list),
             imports[i].list[n].ip \in Addresses
      PROVE  Identified(rows[imports[i].list[n].ip], imports[i].list[n])
  <2> DEFINE next == imports[i].next
             len == Len(imports[i].list)
  <2>1. TypeOK /\ Underway
    BY <1>1 DEF IInv
  <2>2. imports[i].next \in 1..Len(imports[i].list) + 1 /\ imports[i].list \in Seq(Clients)
    BY <2>1, Zenon DEF TypeOK
  <2>3. next > len /\ next \in 1..len + 1 /\ len \in Nat /\ n \in 1..len
    BY <1>1, <2>2 DEF FinishImport
  <2>4. n \in 1..next - 1
    BY ONLY <2>3
  <2> QED
    BY <1>1, <2>1, <2>4, Zenon DEF Underway
<1> DEFINE A == \A i \in Imports : FinishImport(i) =>
                  \A n \in 1..Len(imports[i].list) :
                     LET c == imports[i].list[n]
                     IN  c.ip \in Addresses => Identified(rows[c.ip], c)
<1>2. IInv => A
  BY <1>1
<1>3. IInv => [A]_vars
  BY <1>2
<1> HIDE DEF A
<1>4. Spec => [][A]_vars
  BY <1>3, AlwaysIInv, PTL
<1> QED
  BY <1>4 DEF A, OkMeansMerged

\* A value found for a host is replaced only by what an import says of that
\* host, and a row that UniFi identified stays UniFi's (the CASE expressions
\* of UpdateHostIdentity).
THEOREM FoundKept == Spec => FoundIsKept
<1> DEFINE A == \A a \in Addresses :
                  /\ \A f \in Fields : rows[a][f] # "" /\ rows'[a][f] # rows[a][f] =>
                       \E i \in Imports : /\ UpdateClient(i) /\ Client(i).ip = a
                                          /\ rows'[a][f] = Import(Client(i))[f]
                  /\ rows[a].confidence = "unifi" => rows'[a].confidence = "unifi"
<1>1. ASSUME IInv, [Next]_vars PROVE A
  <2>0. rows \in [Addresses -> Rows]
    BY <1>1 DEF IInv, TypeOK
  <2>1. CASE rows' = rows
    BY <2>1
  <2>2. ASSUME NEW b \in Addresses, NEW u \in Updates, Sound(u), UpdateHostIdentity(b, u),
               \/ u.confidence # "unifi"
               \/ \E i \in Imports :
                    UpdateClient(i) /\ Client(i).ip = b /\ u = Import(Client(i))
        PROVE  A
    <3>1. rows' = [rows EXCEPT ![b] = Merged(rows[b], u)]
      BY <2>2 DEF UpdateHostIdentity
    <3>2. \A a \in Addresses \ {b} : rows'[a] = rows[a]
      BY <2>0, <3>1
    <3>3. rows'[b] = Merged(rows[b], u) /\ rows[b] \in Rows
      BY <2>0, <3>1
    <3> DEFINE row == rows[b]
    <3>4. /\ \A f \in Fields :
               Merged(row, u)[f] = IF u[f] # "" /\ (row[f] = "" \/ u.confidence = "unifi")
                                     THEN u[f] ELSE row[f]
          /\ Merged(row, u).confidence =
               IF u.confidence # "" /\ (row.confidence = "source_ip" \/ u.confidence = "unifi")
                 THEN u.confidence ELSE row.confidence
      <4> HIDE DEF row
      <4>1. row \in Rows
        BY <3>3 DEF row
      <4> QED
        BY <2>2, <4>1, MergedFields
    <3>5. rows[b].confidence = "unifi" => rows'[b].confidence = "unifi"
      BY <3>3, <3>4
    <3>6. ASSUME NEW f \in Fields, rows[b][f] # "", rows'[b][f] # rows[b][f] 
          PROVE  \E i \in Imports : /\ UpdateClient(i) /\ Client(i).ip = b
                                    /\ rows'[b][f] = Import(Client(i))[f]
      <4>1. rows'[b][f] = IF u[f] # "" /\ (rows[b][f] = "" \/ u.confidence = "unifi")
                            THEN u[f] ELSE rows[b][f]
        BY <3>3, <3>4
      <4>2. u.confidence = "unifi" /\ rows'[b][f] = u[f]
        BY <3>6, <4>1
      <4> QED
        BY <2>2, <4>2
    <3> QED
      BY <3>2, <3>5, <3>6
  <2>3. ASSUME NEW b \in Addresses, NEW label \in Labels \cup {""},
               rows' = [rows EXCEPT ![b].label = label]
        PROVE  A
    <3>1. \A a \in Addresses : /\ rows'[a].confidence = rows[a].confidence
                               /\ \A f \in Fields : rows'[a][f] = rows[a][f]
      BY <2>0, <2>3 DEF Rows, Fields
    <3> QED
      BY <3>1
  <2> HIDE DEF A
  <2> QED
    BY <1>1, <2>1, <2>2, <2>3, RowSteps
<1>2. IInv /\ [Next]_vars => [A]_vars
  BY <1>1
<1> HIDE DEF A
<1>3. Spec => [][A]_vars
  BY <1>2, AlwaysIInv, PTL DEF Spec
<1> QED
  BY <1>3 DEF A, FoundIsKept
=============================================================================
