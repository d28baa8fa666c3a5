# TM-DNS: specifications, model checking and proofs

TM-DNS is a DNS firewall in one Go process: a resolver, an HTTP API with an
embedded UI, a SQLite store, and an optional second node that receives its
policy from the first. This directory holds TLA+ modules for the parts in which
goroutines, nodes or failures interleave, TLC runs over small instances, and
TLAPS proofs for instances of every size. Paths below are relative to the
repository root; `store.go` is `internal/store/store.go`, `dnsserver` is
`internal/dnsserver/server.go`, `htt_server` is `internal/htt_server/server.go`.

## 1. Inventory

| Component | State | Operations | Hard behaviour | What makes it correct |
|---|---|---|---|---|
| Policy caches (`store.go`) | `staticCache`, `rulesCache`, `blocklistCache` and their loaded flags, under one mutex; three tables | readers fill a cache on a miss; writers commit, then invalidate | the mutex is not held over the query: a reader may publish rows that a writer has changed since | a stale copy needs an overlap; a write that has returned is seen |
| Request path (`dnsserver`) | locals of `handleDNS`; counters; the event channel; one SQLite connection | EnsureHost, rule, blocklist, static record, upstream, reply, enqueue; `eventWriter` | every request, the writer and admin work share one connection; the channel fills; timeouts; shutdown | every event is accounted for; a blocked request is counted once and not forwarded; requests are answered |
| Rules (`store.go`) | rows with id, target, action, enabled | add (upsert), switch, match by lowest id, import | ids depend on the history of the node | keys stay unique; equal rules decide alike |
| HA sync (`store.go`, `htt_server`) | policy of two nodes; pushes in flight | export in five statements, two of them through caches, POST, validate, import | ticker and button overlap; a push given up by the primary runs on; torn exports; stale copies are exported; an import normalizes names again | an import replaces; nodes converge once no stale copy is left |
| HA pairing, heartbeat (`store.go`, `htt_server`) | one JSON document of join requests; settings; last heartbeat | request, accept, configure the node, store the peer, mark; heartbeat | read-modify-write without a transaction; three steps on two nodes, each may fail | what is shown as accepted happened; answers stay true; requests do not get stuck |
| Block lists (`store.go`, `htt_server`) | preset and source switches, row ids, entries, status | switch, add, refresh (minutes of downloads), import | a refresh works on a list that edits and imports change; SQLite reuses ids | entries belong to their source; ok means stored; no list is missed |
| Static records | rows, cache | upsert, answer, import | as the caches | as the caches |
| Host identity, enrichment, UniFi (`store.go`, `dnsserver`, `htt_server`) | host rows and observations; in-flight and retry maps; UniFi settings and status | EnsureHost, lookups, UpdateHostIdentity, labels, UniFi test and import | lookups of seconds, imports and restarts race on a row; an import may stop halfway | one lookup of an address at a time, and again later; found values are kept; ok means merged |
| Event history, retention (`store.go`, `main.go`) | events, block events, `retention.days` | insert, purge at start and daily, count of today | setting and clock are read before the transaction; times are compared as text, dates are local and texts in UTC; row ids are reused | only old events go, and they do go; block events belong to stored events |
| Names and lists as text (`store.go`) | none | NormalizeName, parentDomain, parseBlocklistDomains, MatchBlocklist | odd dots, marks cut in a fixed order | a list blocks what its lines ask for, up to deviations that are known |
| Authentication, discovery, diagnostics, dashboard, UI, configuration, secrets, statistics, packaging | none, or read-only | | | |

Interaction: `main` opens the store, purges, starts the HA worker, the resolver
and the API. DNS handlers and API handlers call the store concurrently; the
caches (shared memory), the single connection (`SetMaxOpenConns(1)`), the event
channel and, between nodes, HTTP requests with timeouts are where they meet.
`PROJECT.json` lists the hazards at their lines.

## 2. Modules

| Module | Models | Variables and code |
|---|---|---|
| `PolicyCache` | the three caches and every writer of their tables | `db[c]` version of table c, `cache`/`loaded` the copies, `pc`/`snap`/`pending` the goroutines; CacheMiss, QueryRows, QueryFails, Publish are the steps of StaticRecords, Rules, blocklistEntries; each writer commits, then InvalidateCache once per cache |
| `Resolver` | `handleDNS`, the channel, `eventWriter`, the connection, shutdown | `pc[h]` follows the statements of handleDNS; `conn` is the connection; `wpc` the writer; the counters are the atomics of Server; `failed` counts what the code only logs |
| `RuleTable` | rules as operators: NormalizeName, Matches, MatchRule, AddRule, SetRuleEnabled, ImportRules | a set of rows with ids; names are sequences of labels, of which NormalizeName cuts one leading dot; an import normalizes the names of a payload again, so that rows can change their key and meet |
| `HASync` (extends RuleTable) | export, push, validate, import between two nodes with edits on both, joining and leaving; implements `PolicyReplica` | `rules[n]` rows; `versions[n]` for records, presets, sources and retention; `shown` what the primary's caches of records and rules answer, `held` rows overtaken loads still hold; `pc[x]`, `payload[x]` an exchange, which reads the five tables in five steps |
| `PolicyReplica` | what the synchronisation of two nodes promises: a parcel picks up, one by one, what readers of the primary's tables get, which may be a content from the time a load began, and a complete one replaces the policy of the secondary as a whole or is lost | `policy`, `seen`, `picked`, `parcel`; HASync maps its rules to it without ids and as an import names them |
| `CachedSync` (extends PolicyCache) | the export of a push through the caches of the primary, and its import | `step[x]`, `carried[x]` a push; its loads are those of goroutine x of PolicyCache; `replica` the tables of the secondary |
| `Blocklists` | switches, sources, refresh, import | `rowid[u]`, `entries`, `status`; `pc/todo/cur/outcome` a refresh |
| `HAPairing` | join requests, acceptance, settings, heartbeat | `doc` the JSON document, `snap[w]` the copy a handler works on, `peer`, `secondaries`, `probe`, `beat` |
| `Hosts` | host rows, lookups, labels, UniFi settings, test and import | `rows`, `seen` (host_observations), `inflight`/`waiting` the maps enrichInFlight and enrichNext, `job[j]` a lookup goroutine, `imports[i]` a request with its list and its place in it |
| `EventHistory` | InsertQueryEvent, PurgeOldEvents, the retention setting, the ticker | rows with ids; a time is a second and the text of its fraction, compared as the code compares it; `Zone` is the offset of local time at each second, from which the date of today (Midnight) and the cutoff (AddDate) are taken |
| `Names` | the normal form of names, list lines, and the walk of MatchBlocklist | a text is the sequence of its parts between dots, a line a text with the marks before and behind it; the parser cuts the marks in the order of the code (CutAdblock, CutFields, CutAddress, CutPath, then star and dot) and refuses what is left; the walk is one action per iteration |
| `MC*` | model values and symmetry for TLC | |
| `*Proofs` | theorems about the module of the same name; `PolicyCacheProofs` also about `CachedSync` | |

Variables marked "history" in the modules are not in the code; they record what
a property has to remember and no guard reads them. Definitions called "Mutant"
are wrong variants of the definition that follows them; they show that a
property would notice the mistake and are part of no specification.

## 3. Runs

| Run | Bounds | Result |
|---|---|---|
| `CachedSync` | ticker and one other goroutine, 1 change (an import changes several tables) | pass: types, StaleNeedsOverlap, FreshUnlessRaced, PushCarriesSaves, ReplicaCatchesUp |
| `PolicyCacheStale` | 2 goroutines, 1 change | violation of ReadsSeeCompletedWrites: a disabled rule goes on matching |
| `Resolver` | 2 handlers, queue of 1, 2 requests | pass: Conservation, BlockedOnce, DecisionSound, EveryRequestAnswered, FullQueueDrains |
| `Names` | every list of up to 2 lines in 16 forms, stars, up to 3 dots before a domain and 2 behind it, an xn-- top label, queries at, above, below and beside them | pass: ListedDomainsBlocked, ListsDecideLikeRules, WalksEnd |
| `HASync` | ticker and button, one domain typed with 0, 1 and 2 leading dots, 3 edits on both nodes, the first of which may be to records, presets, sources or retention and may overtake loads | pass: keys, SyncedAgreeUnlessConflict, ImportIsAuthoritative, ImplementsReplica, Converges, LeavingStopsImports |
| `HASyncAgree` | ticker, 4 edits on the primary | violation of SyncedNodesAgree |
| `Blocklists` | 1 preset, 2 custom lists, 1 refresh, 3 edits | pass: OrphansNeedOverlap, OkMeansEnforced, RefreshCoversEnabled |
| `BlocklistsDisabled` | 1 preset, 1 list, 2 edits | violation of EnforcedAreEnabled |
| `HAPairing` | 2 nodes, 3 requests, 2 handlers | pass: AcceptedWerePaired, AnswersKeptUnlessOverlap |
| `HAPairingLive` | 2 nodes, 1 request, 1 handler, 2 heartbeats | pass: PendingGetsPaired, WrongHealthPasses |
| `Hosts` | 1 address, 2 lookups and 1 UniFi request at a time, lists of up to 2 clients | pass: InFlightExact, ConfidenceTells, ShownWasObserved, FoundIsKept, OkMeansMerged, LookupsRecur |
| `EventHistory` | days of 2 seconds, a clock of 6 seconds that changes from east to west of UTC, retention of 1 or (stored as 3) 2 days, 2 requests, times with and without a fraction | pass: HistoryAgrees, TodayCounted, PurgeAccuracy, OldEventsGo |

Why the bounds are enough: two goroutines make every race of these modules; for
the caches, more goroutines and changes are in the proofs. Two requests fill a queue of one and drop an event; longer queues and more handlers
are in the proofs. Three edits create two rules,
which may compete or which an import may rename or merge, and toggle one; with two custom lists an import deletes a source and
another takes its id. Three requests let a node whose request was accepted ask
again while another node is pending. The bounds `MaxWrites`, `MaxQueries`,
`MaxEdits` and the length of `Typed` only limit how often administrators or
clients act; `Typed` also says what each edit may type, `MaxOtherEdits` and
`MaxOvertakes` let only the first edits touch other tables or overtake loads. One
overtaken load leaves a stale copy that is pushed, and the next write clears it. Overlapping
refreshes are not in the run `Blocklists`; its properties are proved for any
number of them. In `CachedSync` the ticker's own load can be overtaken by the
other goroutine's write, and its next push then takes the copy it left behind, so
two goroutines show both sides of the property. In `Hosts` all races are on one row: two lookups of the same
address, or a lookup and an import, are what the maps and the merge have to keep
apart, and lists of two clients name the host twice or an address that does not
parse. Rows of different hosts share nothing but the maps; several addresses,
and imports that overlap, are not in the run but in the proofs. `EventHistory` runs the purges of `main`, one at a time; those of
the retention handlers, which may overlap them, are in the module (`Purgers`) and
not in the run. A day of two seconds has a first second and another one, which is
what the text comparisons tell apart; overlapping purges, fractions of any
length, any zone and the default for a missing setting are in the proofs. East of
UTC the first hour of a day is missed and west of it the last hour of the day
before is counted, so the zone changes from one to the other. OldEventsGo says
something only about the setting of one day: two days reach back before the clock
of the run starts. Two lines show that one line of a list does not affect another; longer
lists and names are in the proofs.

### Fairness

* `Resolver`: goroutines run and the upstream exchange has a timeout. A waiter
  for the connection gets it although others take it too (strong fairness):
  `database/sql` hands a released connection to a waiter. Admin transactions end.
* `HASync`: the ticker goes on firing, exports and POSTs end. That one validation
  and one import of the ticker's get through if tried for ever is an assumption
  about the network (strong fairness), not something the code provides.
* `CachedSync`: goroutines run on and the ticker goes on pushing. That failures
  and restarts do not strike every time a push has got to a step is an assumption
  about the environment (strong fairness for each step).
* `Hosts`: lookups end (each runs under a timeout), the retry time passes, and
  the client goes on asking; the last is an assumption about the client.
* `EventHistory`: the ticker fires again and again, and a purge ends. That not
  every purge fails is an assumption about the database (strong fairness).
* `Names`: the loop of MatchBlocklist is not abandoned.
* `HAPairing`: handlers and heartbeats end (5 s clients), heartbeats age. That
  the administrator repeats a failed acceptance, and that it does not fail every
  time, are assumptions about the environment.

### Deviations found

With a run: a query overtaken by a write publishes old rows (`store.go:679`);
nodes with equal rules decide differently, because ids order competing rules and
an import does not carry them (`store.go:1831`); a list that was switched off
stays enforced after a refresh (`store.go:867`).

The first of them reaches the other node: ExportHASyncPayload reads the caches
(`store.go:1761`), so the old rows are pushed every five minutes as the policy of
the primary until the next change; PushCarriesSaves and ReplicaCatchesUp state the
condition under which this does not happen. HASync has the stale copies as well:
ImplementsReplica promises the secondary what readers of the primary were shown,
not its tables, and Converges asks for caches that have become fresh.

Seen while modelling, in the modelled behaviour but without a run of their own:

* an event whose insert fails is logged and not counted (`dnsserver:341`), while
  docs/architecture.md:195 asks for visible dropped-event counters; Conservation
  needs the term `failed` for it;
* a request waits for SQLite in EnsureHost (`dnsserver:115`); the same line of
  the document says it should not;
* static records are checked after rules and lists (`dnsserver:174`) and an older
  block rule wins over an allow rule (`store.go:742`), while the hot path and the
  precedence of docs/architecture.md:186-188 and 247 have static records, then allow
  rules, then blocks. The model follows the code; DecisionSound makes no claim
  about a block rule for a name with a static record (`Local`), where the two
  disagree;
* haImport checks the role before it reads the body and not in the transaction
  (`htt_server:1176`);
* haJoinAccept configures the secondary before it stores the peer
  (`htt_server:905`), README.md:92 has it the other way round;
* the recorded heartbeat is not tied to a peer (`store.go:1717`), so it counts for
  a new one for up to 180 s; WrongHealthPasses shows that it does not for longer;
* of two simultaneous join requests one may be lost, because each handler writes
  back its own copy of the document (`store.go:1505`); AnswersKeptUnlessOverlap
  says so with its condition;
* a retention setting raised while a purge runs does not help the events that
  purge deletes (`store.go:2170`), and PurgeOldEvents may delete an event up to a
  second early, because fractions are compared as text (PurgeAccuracy has both);
* an import accepts a retention above the 3650 days the settings page allows
  (`store.go:1886`); readers bring it back into range;
* a UniFi import that stops halfway leaves the status of the one before
  (`store.go:2426`); the fields of a host are filled one by one, so that a row may
  show the name of one device and the MAC address of another (`store.go:1280`).;
* "today" is the local date, compared with times in UTC (`store.go:1362`): west of
  UTC the count has the last hours of yesterday, east of it it lacks the first of
  today (TodayCounted says by how much);
* PurgeOldEvents goes back on the local calendar (`store.go:2171`), so a purge
  after a change to or from summer time is an hour off (PurgeAccuracy);
* NormalizeName is not idempotent for a name with two leading dots: "..org" is
  saved as ".org" and imported as "org", a rule for other names, and may meet the
  rule "org" of the same payload there (`store.go:1821`). Arrived says what becomes
  of such rules, and ImportIsAuthoritative and Converges are stated with it;
* of the lines of a block list, dnsmasq lines with an IPv6 sink and domains under a
  top label that is not all letters (`xn--...`) are skipped, and a line about one
  page, or about some requests (`$`), blocks the whole name (`store.go:1103`,
  `store.go:1114`, `store.go:1129`). ListedDomainsBlocked names them as `Missed`,
  `TopLabels` and `Widened`.

Seen while reading, outside the models: a UniFi key or HA token that is left
empty stays when the url changes, as the settings page says.

## 4. Proofs

Every safety invariant and action property of the passing runs, and the
refinement, is a theorem for every value of the constants. The assumptions are
the named `ASSUME`s of the modules: finite sets of handlers and lists where their
number is counted, natural bounds, `None` not a node, and about what comes from
outside: a name from the wire is the root or has no empty label
(QueriesAssumption, what miekg/dns unpacks), fractions of seconds are digits,
every second has an offset of local time, what NormalizeName makes of a name is a
name, an answer or a client has values of its kind or none. Each module's `IInv` is the
inductive invariant, checked by TLC before it was proved.

* **PolicyCacheProofs**: TypeCorrect, StaleOnlyByOverlap, CompletedWritesSeen.
  StaleNeedsOverlap is not inductive because the stale copy comes from rows a
  goroutine already holds; IInv says of those rows what the property says of the
  cache (StaleRowsNeedOverlap), that no version is ahead of its table, and that
  rows of a load no invalidation overtook are as new as any acknowledged write.
* **ResolverProofs**: TypeCorrect, EventsConserved, BlockedCountedOnce,
  DecisionsSound. DecisionSteps states for each statement of handleDNS what its
  locals can be; the counting arguments move one handler in or out of a finite
  set at each step.
* **BlocklistsProofs**: TypeCorrect, OrphansOnlyByOverlap, OkIsEnforced,
  RefreshIsComplete. IInv extends each property to what a running refresh
  carries: its items are covered like stored entries, an ok about to be recorded
  is true already, and lists enabled since it began are done or on its list.
  Unique ids rest on `max(id) + 1`: the lemmas under "Row ids" show that Max of a
  bounded set is its greatest member.
* **HAPairingProofs**: TypeCorrect (at most one pending request of a node, in the
  document and in every copy of it), AcceptedArePaired, AnswersKept.
  HandlersPaired is what a handler knows between its steps; the owner of a request
  never changes, so what one handler knows survives the steps of the others.
* **PolicyCacheProofs, second part** (CachedSync): PushesAreReaders, that the composition is a behaviour of
  PolicyCache, whose invariant is used as it stands; PushesCarrySaves. SyncIInv
  says of a push underway that rows it has queried, and tables already in the
  payload, are at least what was acknowledged at its start.
* **HASyncProofs**: TypeCorrect (the keys of the rules table are unique on both
  nodes), ImportAuthoritative, SyncedAgree and ReplicaImplemented. IInv says that
  ids and keys are unique in the rules of both nodes, in what the caches show, in
  the rows overtaken loads hold and in every payload, also one the primary has
  given up on; only then is an import, which normalizes names, upserts by key and
  deletes what is missing, the replacement of the whole policy that PolicyReplica
  delivers. Each step of the export picks up a content that readers are shown, an
  edit administers a table and may leave its former content with readers, a load
  or an invalidation reloads, the end of a push loses the parcel, and the remaining
  steps stutter. SyncedAgree rests on lemmas on MatchRule: without competing rules
  the row found first decides like any other that matches.
* **NamesProofs**: ListedAreBlocked, ListsAreRules. Neither property is inductive:
  a walk that has not ended says nothing. WalkInv says where it is: at the suffix
  of the name that begins with its k-th label, with none of the longer suffixes
  an entry. That needs parentDomain of a suffix to be the next one
  (ParentOfSuffix) and the suffix test of a rule to accept exactly these suffixes
  (MatchIsSuffix). ListedAreBlocked compares the parser with
  what the formats of lists mean (Blocking, Missed, Widened, Spellings), which does
  not use the parser's cuts: AcceptedForms relates the marks that survive no cut to
  the forms of lines, and ParsedSpelling says that an accepted line yields the
  entry of a domain exactly if it writes this domain with at most a star and two
  dots before it and one dot behind: the parser cuts the star and one leading dot,
  NormalizeName another dot, and the expression allows one trailing dot.
* **HostsProofs**: InFlightIsExact, ConfidenceIsTelling, ShownIsObserved,
  FoundKept, OkIsMerged. ConfidenceTells and ShownWasObserved need the update a
  goroutine carries to be one a lookup can have built (Underway), OkMeansMerged
  needs the clients an import has passed to be identified in their rows. The
  latter survives every other step, because a row that UniFi identified is not
  taken back by a lookup and another import only replaces it by a client; that is
  FoundIsKept on the level of Filled and Merged.
* **EventHistoryProofs**: TypeCorrect, HistoryAgreesAlways, TodayIsCounted,
  PurgeIsAccurate. Block events are exactly the rows of the blocked events
  (BlocksExact), also when a purge has freed an id that is given out again; the
  counters of the hosts need HistoryAgrees itself, the purges that a cutoff read
  from an earlier clock is no later than one computed now, but for the difference
  of two offsets of local time (Shapes). TodayIsCounted holds event by event: the
  text of the local date is before the text of an event exactly if the event is
  since midnight on the wall, corrected by the offset at its own second. The text
  comparison is a lexicographic order on fractions of any length: LessTransitive
  and its companions relate it to the order of times. That ids are bounded
  (IdsBounded, for the maximum behind the next id) quantifies over all naturals;
  it is therefore part of the proof and not of the `IInv` TLC evaluates.

Only model-checked: the liveness properties (ReplicaCatchesUp, EveryRequestAnswered,
FullQueueDrains, WalksEnd, Converges, LeavingStopsImports, PendingGetsPaired,
WrongHealthPasses, LookupsRecur, OldEventsGo), because fairness and ENABLED are
outside the prover; and the three violations, which are counterexamples.

## 5. Limits of the models

Audit rows, logging and response bodies are left out. A version number stands
for the content of a table where only its age matters. The caches in HASync are coarser
than in PolicyCache and CachedSync, which have the single steps of a load: what
readers get and what overtaken loads hold. Names in
HASync are label sequences, so that the trailing dot NormalizeName adds plays no part;
static records are versions, so that what an import does to their dotted names
does not show. In
Blocklists a download is the list it came from, or an empty one. In HAPairing a
node is its url and token together, so that a second request of a node with a new
token between the configuration of the node and the re-read of the document
(`store.go:1550`) does not occur, and the primary's own role stays primary.
In Hosts, names are clean or refused as a whole, observations have no times, and
the tools that are asked return any of a set of answers. In EventHistory
the offset of the day AddDate comes to is any offset of the zone, which includes
the one it has. Names leaves out case, and blanks where they separate nothing; one mark stands for
its kind (`#` for `!` and `[`, `0.0.0.0` for any address, `$` for any option).
Except in EventHistory, clock time appears only as "stale" and "timed out", at any
moment.

Not modelled: see "components" in `PROJECT.json`; mostly read-only queries,
stateless checks, text, and calls to the operating system.

## 6. Plan

Done: PolicyCache, Resolver, RuleTable and HASync with PolicyReplica, CachedSync,
Blocklists, HAPairing (what decides on a query first, then what changes the
policy), then Names, Hosts and EventHistory, all checked by TLC and with proofs.

Next:

1. Lemmas under the liveness properties that the prover reaches: the measures that
   a walk, a purge or a refresh makes smaller with every step.
2. That the single steps of CachedSync implement the coarser caches of HASync.
3. The relay of a join request by the secondary's own UI (haRequestJoin).
