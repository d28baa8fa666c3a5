-------------------------------- MODULE Hosts --------------------------------
(* Host identity: the rows of the hosts table, the background lookups the    *)
(* DNS server starts for the addresses that ask it, and the UniFi import     *)
(* (internal/store/store.go, enqueueHostEnrichment of                        *)
(* internal/dnsserver/server.go, the host and UniFi handlers of              *)
(* internal/htt_server/server.go).  Lookups, imports and the administrator's *)
(* labels all write the same rows; who wins depends on what a row holds and  *)
(* on the confidence stored with it.                                         *)
(*                                                                           *)
(* The database has one connection, so a transaction is one step.  Names and *)
(* MAC addresses are abstract: case, padding and one trailing dot are left   *)
(* out, "?" stands for every name or address that the cleaning refuses.      *)
EXTENDS Naturals, Sequences

CONSTANTS
    Addresses,   \* source addresses
    Unlooked,    \* those never looked up: loopback, unspecified, "unknown"
    Names,       \* usable host names
    Macs,        \* usable MAC addresses
    Vendors,     \* vendor names
    VendorOf,    \* vendorFromMAC: "" when the prefix is not in its table
    Labels,      \* labels an administrator gives
    Answers,     \* what the lookups of one address may return
    Clients,     \* entries of the controller's client list
    MaxClients,  \* bound: clients in one list
    Jobs,        \* enrichment goroutines at a time
    Imports      \* requests to import or to test at a time

RawNames == Names \cup {"", "?"}

RawMacs == Macs \cup {"", "?"}

ASSUME UnlookedAssumption == Unlooked \subseteq Addresses
ASSUME NamesAssumption == "" \notin Names \cup Macs \cup Vendors /\ "?" \notin Names \cup Macs
ASSUME VendorAssumption == VendorOf \in [Macs -> Vendors \cup {""}]
ASSUME AnswersAssumption ==
    Answers \subseteq [ptr : RawNames, arp : RawNames, mac : RawMacs, mdns : RawNames]
ASSUME ClientsAssumption ==
    \A c \in Clients : /\ c.hostname \in RawNames /\ c.mac \in RawMacs
                       /\ c.vendor \in Vendors \cup {""}
ASSUME MaxClientsAssumption == MaxClients \in Nat \ {0}

VARIABLES
    known,      \* addresses with a row in hosts
    rows,       \* label, identity and confidence of each row
    seen,       \* host_observations: values with the field they are about
    inflight,   \* enrichInFlight
    waiting,    \* addresses whose enrichNext lies ahead
    job,        \* the enrichment goroutines
    settings,   \* the unifi.* settings
    status,     \* unifi.last_status
    imports     \* running UniFi requests

vars == <<known, rows, seen, inflight, waiting, job, settings, status, imports>>

Fields == {"hostname", "mac", "vendor"}

Confidences == {"source_ip", "ptr", "arp", "mdns", "unifi"}

NewRow == [label |-> "", hostname |-> "", mac |-> "", vendor |-> "", confidence |-> "source_ip"]

Nothing == [hostname |-> "", mac |-> "", vendor |-> "", confidence |-> ""]

Resting == [step |-> "idle", address |-> "none", update |-> Nothing]

NoImport == [step |-> "idle", ready |-> FALSE, list |-> << >>, next |-> 1]

Rows ==
    [label : Labels \cup {""}, hostname : Names \cup {""}, mac : Macs \cup {""},
     vendor : Vendors \cup {""}, confidence : Confidences]

Updates ==
    [hostname : RawNames, mac : RawMacs, vendor : Vendors \cup {""},
     confidence : Confidences \cup {""}]

Init ==
    /\ known = {} /\ rows = [a \in Addresses |-> NewRow] /\ seen = [a \in Addresses |-> {}]
    /\ inflight = {} /\ waiting = {} /\ job = [j \in Jobs |-> Resting]
    /\ settings = [enabled |-> FALSE, url |-> FALSE, key |-> FALSE]
    /\ status = "" /\ imports = [i \in Imports |-> NoImport]

(***************************************************************************)
(* Merging what was found into a row                                       *)
(***************************************************************************)

CleanHostname(raw) == IF raw \in Names THEN raw ELSE ""

NormalizeMAC(raw) == IF raw \in Macs THEN raw ELSE ""

VendorFromMAC(mac) == IF mac \in Macs THEN VendorOf[mac] ELSE ""

\* What an update does not say stays as the row has it.
Filled(row, update) ==
    LET hostname == CleanHostname(update.hostname)
        mac == NormalizeMAC(update.mac)
    IN  [hostname   |-> IF hostname = "" THEN row.hostname ELSE hostname,
         mac        |-> IF mac = "" THEN row.mac ELSE mac,
         vendor     |-> IF update.vendor = "" THEN row.vendor ELSE update.vendor,
         confidence |-> IF update.confidence = "" THEN row.confidence ELSE update.confidence]

\* The CASE expressions of the UPDATE: an empty field is filled, UniFi
\* overwrites, and nothing else touches a field that has a value.
Column(row, f, field) ==
    IF (row[field] = "" \/ f.confidence = "unifi") /\ f[field] # "" THEN f[field] ELSE row[field]

\* Mutant: the last answer wins.
MergedLastWins(row, update) ==
    LET f == Filled(row, update)
    IN  [row EXCEPT !.hostname = f.hostname, !.mac = f.mac, !.vendor = f.vendor,
                    !.confidence = f.confidence]

Merged(row, update) ==
    LET f == Filled(row, update)
    IN  [row EXCEPT !.hostname = Column(row, f, "hostname"), !.mac = Column(row, f, "mac"),
                    !.vendor = Column(row, f, "vendor"),
                    !.confidence = IF row.confidence = "source_ip" \/ f.confidence = "unifi"
                                     THEN f.confidence ELSE @]

\* Mutant: the vendor is not among the observations.
ObservedWithoutVendor(row, update) ==
    LET f == Filled(row, update)
    IN  {<<field, f[field]>> : field \in {x \in {"hostname", "mac"} : f[x] # ""}}

\* Every value of the filled update goes into host_observations.
Observed(row, update) ==
    LET f == Filled(row, update)
    IN  {<<field, f[field]>> : field \in {x \in Fields : f[x] # ""}}

UpdateHostIdentity(a, update) ==
    /\ rows' = [rows EXCEPT ![a] = Merged(@, update)]
    /\ seen' = [seen EXCEPT ![a] = @ \cup Observed(rows[a], update)]

EnsureHost(a) == known' = known \cup {a}

(***************************************************************************)
(* Lookups                                                                 *)
(***************************************************************************)

\* Mutant: only the retry time is asked.
MayLookUpAfterRetry(a) == a \notin Unlooked \cup waiting

\* Mutant: only the first question of a host starts a lookup.
MayLookUpOnce(a) == a \notin Unlooked \cup inflight \cup waiting \cup known

\* The early returns of enqueueHostEnrichment.
MayLookUp(a) == a \notin Unlooked \cup inflight \cup waiting

StartLookup(a, j) ==
    /\ job[j].step = "idle"
    /\ inflight' = inflight \cup {a} /\ waiting' = waiting \cup {a}
    /\ job' = [job EXCEPT ![j] = [step |-> "lookup", address |-> a, update |-> Nothing]]

\* A client asks: handleDNS sees to its row and to its lookup.
Query(a) ==
    /\ EnsureHost(a)
    /\ IF MayLookUp(a)
         THEN \E j \in Jobs : StartLookup(a, j)
         ELSE UNCHANGED <<inflight, waiting, job>>
    /\ UNCHANGED <<rows, seen, settings, status, imports>>

\* Fifteen minutes have gone by since the lookup of a was started.
RetryTimeElapses(a) ==
    /\ a \in waiting
    /\ waiting' = waiting \ {a}
    /\ UNCHANGED <<known, rows, seen, inflight, job, settings, status, imports>>

\* Mutant: a MAC address alone does not raise the confidence.
FoundByName(ans) ==
    LET ptr == CleanHostname(ans.ptr)
        arp == CleanHostname(ans.arp)
        mdns == CleanHostname(ans.mdns)
        mac == NormalizeMAC(ans.mac)
    IN  [hostname   |-> IF ptr # "" THEN ptr ELSE IF arp # "" THEN arp ELSE mdns,
         mac        |-> mac,
         vendor     |-> VendorFromMAC(mac),
         confidence |-> CASE ptr # "" -> "ptr" [] ptr = "" /\ arp # "" -> "arp"
                          [] ptr = "" /\ arp = "" /\ mdns # "" -> "mdns" [] OTHER -> ""]

\* PTR, ARP and mDNS in this order: the first name counts, a MAC address alone
\* is as good as an ARP name, and no answer leaves the confidence empty.
Found(ans) ==
    LET ptr == CleanHostname(ans.ptr)
        arp == CleanHostname(ans.arp)
        mdns == CleanHostname(ans.mdns)
        mac == NormalizeMAC(ans.mac)
    IN  [hostname   |-> IF ptr # "" THEN ptr ELSE IF arp # "" THEN arp ELSE mdns,
         mac        |-> mac,
         vendor     |-> VendorFromMAC(mac),
         confidence |-> IF ptr # "" THEN "ptr"
                        ELSE IF arp # "" THEN "arp"
                        ELSE IF mdns # "" THEN "mdns"
                        ELSE IF mac # "" THEN "arp" ELSE ""]

\* The three lookups, each within its own timeout.
LookUp(j) ==
    /\ job[j].step = "lookup"
    /\ \E ans \in Answers :
         job' = [job EXCEPT ![j].step = "update", ![j].update = Found(ans)]
    /\ UNCHANGED <<known, rows, seen, inflight, waiting, settings, status, imports>>

\* Mutant: the goroutine returns without its deferred clean-up.
EndJobLeavesEntry(j) ==
    /\ UNCHANGED inflight
    /\ job' = [job EXCEPT ![j] = Resting]

\* The deferred function of the goroutine.
EndJob(j) ==
    /\ inflight' = inflight \ {job[j].address}
    /\ job' = [job EXCEPT ![j] = Resting]

FinishLookup(j) ==
    /\ job[j].step = "update"
    /\ UpdateHostIdentity(job[j].address, job[j].update)
    /\ EndJob(j)
    /\ UNCHANGED <<known, waiting, settings, status, imports>>

\* The three seconds are over before the transaction commits.
LookupTimesOut(j) ==
    /\ job[j].step = "update"
    /\ EndJob(j)
    /\ UNCHANGED <<known, rows, seen, waiting, settings, status, imports>>

(***************************************************************************)
(* The administrator                                                       *)
(***************************************************************************)

SetHostLabel(a) ==
    /\ a \in known
    /\ \E label \in Labels \cup {""} : rows' = [rows EXCEPT ![a].label = label]
    /\ UNCHANGED <<known, seen, inflight, waiting, job, settings, status, imports>>

\* A key that is not given again stays.
SaveUniFiSettings ==
    /\ \E enabled, url, key \in BOOLEAN :
         settings' = [enabled |-> enabled, url |-> url, key |-> key \/ settings.key]
    /\ UNCHANGED <<known, rows, seen, inflight, waiting, job, status, imports>>

(***************************************************************************)
(* UniFi requests                                                          *)
(***************************************************************************)

Begin(i, step) ==
    /\ imports[i].step = "idle"
    /\ imports' = [imports EXCEPT ![i].step = step, ![i].ready = settings.url /\ settings.key]
    /\ UNCHANGED <<known, rows, seen, inflight, waiting, job, settings, status>>

\* ImportUniFiClients reads its settings and returns if the import is off.
StartImport(i) == settings.enabled /\ Begin(i, "fetch")

StartTest(i) == Begin(i, "test")

EndImport(i) == imports' = [imports EXCEPT ![i] = NoImport]

\* What fetchUniFiEndpoint makes of the entries it is sent.
Converted(c) ==
    LET mac == NormalizeMAC(c.mac)
    IN  [ip |-> c.ip, hostname |-> CleanHostname(c.hostname), mac |-> mac,
         vendor |-> IF c.vendor = "" THEN VendorFromMAC(mac) ELSE c.vendor]

Usable(c) == Converted(c).hostname # "" \/ Converted(c).mac # ""

\* Lists fetchUniFiClients may return: the entries with a name or a MAC
\* address, at least one; otherwise it fails.
Lists == UNION {[1..n -> {c \in Clients : Usable(c)}] : n \in 1..MaxClients}

\* One of the four endpoints answers with clients.
FetchClients(i) ==
    /\ imports[i].step = "fetch" /\ imports[i].ready
    /\ \E list \in Lists :
         imports' = [imports EXCEPT ![i].step = "ensure", ![i].list = list]
    /\ UNCHANGED <<known, rows, seen, inflight, waiting, job, settings, status>>

\* No url, no key or no endpoint with clients.
FetchFails(i) ==
    /\ imports[i].step = "fetch"
    /\ status' = "error" /\ EndImport(i)
    /\ UNCHANGED <<known, rows, seen, inflight, waiting, job, settings>>

TestUniFi(i) ==
    /\ imports[i].step = "test"
    /\ \/ status' = "error"
       \/ imports[i].ready /\ Lists # {} /\ status' = "ok"
    /\ EndImport(i)
    /\ UNCHANGED <<known, rows, seen, inflight, waiting, job, settings>>

Client(i) == imports[i].list[imports[i].next]

\* A client whose address does not parse.
SkipClient(i) ==
    /\ imports[i].step = "ensure" /\ imports[i].next <= Len(imports[i].list)
    /\ Client(i).ip \notin Addresses
    /\ imports' = [imports EXCEPT ![i].next = @ + 1]
    /\ UNCHANGED <<known, rows, seen, inflight, waiting, job, settings, status>>

EnsureClient(i) ==
    /\ imports[i].step = "ensure" /\ imports[i].next <= Len(imports[i].list)
    /\ Client(i).ip \in Addresses
    /\ EnsureHost(Client(i).ip)
    /\ imports' = [imports EXCEPT ![i].step = "update"]
    /\ UNCHANGED <<rows, seen, inflight, waiting, job, settings, status>>

\* What the import says of its next client.
Import(c) ==
    [hostname |-> Converted(c).hostname, mac |-> Converted(c).mac,
     vendor |-> Converted(c).vendor, confidence |-> "unifi"]

UpdateClient(i) ==
    /\ imports[i].step = "update"
    /\ UpdateHostIdentity(Client(i).ip, Import(Client(i)))
    /\ imports' = [imports EXCEPT ![i].step = "ensure", ![i].next = @ + 1]
    /\ UNCHANGED <<known, inflight, waiting, job, settings, status>>

\* A statement fails: the request ends with what is merged so far and the
\* status stays as it was.
ImportAborts(i) ==
    /\ imports[i].step \in {"ensure", "update"} /\ imports[i].next <= Len(imports[i].list)
    /\ EndImport(i)
    /\ UNCHANGED <<known, rows, seen, inflight, waiting, job, settings, status>>

\* Mutant: the loop stops one client early.
FinishImportEarly(i) ==
    /\ imports[i].step = "ensure" /\ imports[i].next >= Len(imports[i].list)
    /\ status' = "ok" /\ EndImport(i)
    /\ UNCHANGED <<known, rows, seen, inflight, waiting, job, settings>>

FinishImport(i) ==
    /\ imports[i].step = "ensure" /\ imports[i].next > Len(imports[i].list)
    /\ status' = "ok" /\ EndImport(i)
    /\ UNCHANGED <<known, rows, seen, inflight, waiting, job, settings>>

\* The process stops and starts again; the database stays.
Restart ==
    /\ inflight' = {} /\ waiting' = {}
    /\ job' = [j \in Jobs |-> Resting] /\ imports' = [i \in Imports |-> NoImport]
    /\ UNCHANGED <<known, rows, seen, settings, status>>

Next ==
    \/ \E a \in Addresses : Query(a) \/ RetryTimeElapses(a) \/ SetHostLabel(a)
    \/ \E j \in Jobs : LookUp(j) \/ FinishLookup(j) \/ LookupTimesOut(j)
    \/ SaveUniFiSettings \/ Restart
    \/ \E i \in Imports :
         \/ StartImport(i) \/ StartTest(i) \/ FetchClients(i) \/ FetchFails(i) \/ TestUniFi(i)
         \/ SkipClient(i) \/ EnsureClient(i) \/ UpdateClient(i)
         \/ ImportAborts(i) \/ FinishImport(i)

Spec == Init /\ [][Next]_vars

\* Lookups run under a timeout, the retry time goes by, and clients go on
\* asking.  A process that restarts for ever is not excluded.
Fairness ==
    /\ \A a \in Addresses : WF_vars(Query(a)) /\ WF_vars(RetryTimeElapses(a))
    /\ \A j \in Jobs : WF_vars(LookUp(j) \/ FinishLookup(j) \/ LookupTimesOut(j))

FairSpec == Spec /\ Fairness

(***************************************************************************)
(* Properties                                                              *)
(***************************************************************************)

\* The in-flight map says exactly which addresses are being looked up, and no
\* address is looked up twice at a time (enqueueHostEnrichment and the
\* deferred clean-up, through time-outs, elapsed retry times and restarts).
InFlightExact ==
    /\ inflight = {job[j].address : j \in {k \in Jobs : job[k].step # "idle"}}
    /\ \A j, k \in Jobs :
         job[j].step # "idle" /\ job[k].step # "idle" /\ job[j].address = job[k].address
            => j = k

Tells(row) ==
    /\ row.confidence = "source_ip" <=> row.hostname = "" /\ row.mac = "" /\ row.vendor = ""
    /\ row.confidence \in {"ptr", "mdns"} => row.hostname # ""

\* The stored confidence tells a bare source address from an identified host:
\* it is source_ip exactly while nothing is known, and a name source is only
\* claimed for a row with a name (EnrichHostIdentity, UpdateHostIdentity).
ConfidenceTells == \A a \in Addresses : Tells(rows[a])

\* Every value a host shows was recorded as an observation of that host.
ShownWasObserved ==
    \A a \in Addresses : \A f \in Fields :
        rows[a][f] # "" => <<f, rows[a][f]>> \in seen[a]

\* A value, once found, is replaced only by what UniFi says of that host, and
\* a row UniFi has identified stays UniFi's: no late lookup, whatever it found
\* or did not find, overwrites it (the CASE expressions of UpdateHostIdentity).
FoundIsKept ==
    [][\A a \in Addresses :
         /\ \A f \in Fields : rows[a][f] # "" /\ rows'[a][f] # rows[a][f] =>
              \E i \in Imports : /\ UpdateClient(i) /\ Client(i).ip = a
                                 /\ rows'[a][f] = Import(Client(i))[f]
         /\ rows[a].confidence = "unifi" => rows'[a].confidence = "unifi"]_vars

\* A row says at least as much as the import said of client c.
Identified(row, c) ==
    /\ row.confidence = "unifi"
    /\ \A f \in Fields : Import(c)[f] # "" => row[f] # ""

\* An import that reports ok has identified every client of its list, however
\* lookups, restarts and other imports interleave (ImportUniFiClients).
OkMeansMerged ==
    [][\A i \in Imports : FinishImport(i) =>
         \A n \in 1..Len(imports[i].list) :
            LET c == imports[i].list[n]
            IN  c.ip \in Addresses => Identified(rows[c.ip], c)]_vars

\* An address that goes on asking is looked up again and again, and no lookup
\* stays in flight (enrichInFlight, enrichNext).
LookupsRecur ==
    \A a \in Addresses \ Unlooked : []<>(a \in inflight) /\ []<>(a \notin inflight)

(***************************************************************************)
(* The inductive invariant behind the safety properties.                   *)
(***************************************************************************)

TypeOK ==
    /\ known \subseteq Addresses
    /\ rows \in [Addresses -> Rows]
    /\ inflight \subseteq Addresses /\ waiting \subseteq Addresses
    /\ \A j \in Jobs :
         /\ job[j].step \in {"idle", "lookup", "update"}
         /\ job[j].step # "idle" => job[j].address \in known \ Unlooked
         /\ job[j].update \in Updates
    /\ settings \in [enabled : BOOLEAN, url : BOOLEAN, key : BOOLEAN]
    /\ status \in {"", "ok", "error"}
    /\ \A i \in Imports :
         /\ imports[i].step \in {"idle", "test", "fetch", "ensure", "update"}
         /\ imports[i].list \in Seq(Clients)
         /\ imports[i].next \in 1..Len(imports[i].list) + 1
         /\ imports[i].step = "update" => imports[i].next <= Len(imports[i].list)

\* Lookups carry what was found, imports a list of usable clients whose first
\* ones are merged.
Underway ==
    /\ \A j \in Jobs : job[j].step = "update" => \E ans \in Answers : job[j].update = Found(ans)
    /\ \A i \in Imports :
         /\ imports[i].step \in {"idle", "test", "fetch"} => imports[i].list = << >>
         /\ \A n \in 1..Len(imports[i].list) : Usable(imports[i].list[n])
         /\ imports[i].step = "update" => Client(i).ip \in Addresses
         /\ \A n \in 1..imports[i].next - 1 :
              imports[i].list[n].ip \in Addresses
                => Identified(rows[imports[i].list[n].ip], imports[i].list[n])

Shapes ==
    /\ seen \in [Addresses -> SUBSET (Fields \X (Names \cup Macs \cup Vendors))]
    /\ job \in [Jobs -> [step : {"idle", "lookup", "update"}, address : Addresses \cup {"none"},
                         update : Updates]]
    /\ imports \in [Imports -> [step : {"idle", "test", "fetch", "ensure", "update"},
                                ready : BOOLEAN, list : Seq(Clients), next : Nat]]

IInv ==
    TypeOK /\ Shapes /\ InFlightExact /\ ConfidenceTells /\ ShownWasObserved /\ Underway
=============================================================================
