---------------------------- MODULE EventHistory ----------------------------
(* The query history and its retention: InsertQueryEvent, PurgeOldEvents,    *)
(* the retention setting and the counts of Dashboard                         *)
(* (internal/store/store.go), with the purges of cmd/tmdns/main.go and of    *)
(* the retention handlers (internal/htt_server/server.go).                   *)
(*                                                                           *)
(* Times are stored and compared as RFC3339Nano text, which drops trailing   *)
(* zeros of the fraction: "05.5Z" is before "05.51Z" as a time and after it  *)
(* as a text, and "05Z" is after both.  An instant is a second and the       *)
(* digits of its fraction as the text has them.  Texts are in UTC; the code  *)
(* takes dates and days from the local time of the server, whose offset may  *)
(* change with the seasons.                                                  *)
EXTENDS Integers, Sequences, FiniteSetsExt

CONSTANTS
    Fractions,     \* digits after the point, no trailing zeros
    Day,           \* seconds of a day
    Offsets,       \* what local time can be ahead of UTC, or behind
    Zone,          \* the offset at every second of the clock
    DefaultDays,   \* 30
    MaxDays,       \* 3650
    Settings,      \* retention.days as stored: 0 for none or not a number
    Hosts,         \* hosts that ask
    Purgers,       \* purges that can run at a time
    Ticker,        \* the purge of main: at the start and once a day
    MaxSec,        \* bound: last second of the clock
    MaxAsked       \* bound: questions asked

ASSUME DayAssumption == Day \in Nat \ {0}
ASSUME DaysAssumption == MaxDays \in Nat \ {0} /\ DefaultDays \in 1..MaxDays
ASSUME SettingsAssumption == Settings \subseteq Nat
ASSUME FractionsAssumption == Fractions \subseteq Seq(0..9) /\ << >> \in Fractions
ASSUME TickerAssumption == Ticker \in Purgers
ASSUME BoundsAssumption == MaxSec \in Nat /\ MaxAsked \in Nat
ASSUME ZoneAssumption == Offsets \subseteq Int /\ Zone \in [0..MaxSec -> Offsets]

VARIABLES
    clock,     \* now
    days,      \* the setting retention.days
    pending,   \* events that are stamped and not yet stored
    events,    \* query_events
    blocks,    \* block_events
    counts,    \* query_count and block_count of each host
    purge,     \* what each purge has read and computed
    serving,   \* the first purge of the process is over
    asked      \* questions so far

vars == <<clock, days, pending, events, blocks, counts, purge, serving, asked>>

Instants == [sec : Int, frac : Fractions]

\* Instants of the clock.
Moments == [sec : 0..MaxSec, frac : Fractions]

Stamped == [ts : Moments, host : Hosts, blocked : BOOLEAN, nr : Nat]

NoPurge == [step |-> "idle", days |-> 0, cutoff |-> [sec |-> 0, frac |-> << >>]]

(***************************************************************************)
(* Time and its text                                                       *)
(***************************************************************************)

\* What can follow the digits of a text that has the second in common: its
\* end, or the "Z", which is greater than the point and every digit.
TheEnd == -1
Z == 10

At(f, k, after) == IF k <= Len(f) THEN f[k] ELSE after

\* The first difference decides.
Less(f, afterF, g, afterG) ==
    \E k \in 1..Len(f) + Len(g) + 1 :
        /\ At(f, k, afterF) < At(g, k, afterG)
        /\ \A m \in 1..k - 1 : At(f, m, afterF) = At(g, m, afterG)

\* As times: missing digits are zeros.
Earlier(s, t) == s.sec < t.sec \/ (s.sec = t.sec /\ Less(s.frac, 0, t.frac, 0))

\* As texts.
TextBefore(s, t) == s.sec < t.sec \/ (s.sec = t.sec /\ Less(s.frac, Z, t.frac, Z))

\* Mutant: the number is used as it is stored.
RetentionDaysUnchecked(setting) == setting

RetentionDays(setting) ==
    IF setting < 1 THEN DefaultDays ELSE IF setting > MaxDays THEN MaxDays ELSE setting

\* Mutant: the last day is counted from its midnight.
CutoffOneDayLate(now, n, z) ==
    [sec |-> now.sec + Zone[now.sec] - (n - 1) * Day - z, frac |-> now.frac]

\* AddDate goes back n days on the local calendar, to a day when the offset was
\* z, and keeps the time of day; then the text is in UTC again.
Cutoff(now, n, z) == [sec |-> now.sec + Zone[now.sec] - n * Day - z, frac |-> now.frac]

\* What a clock on the wall shows.
Wall(sec) == sec + Zone[sec]

\* The local date of now with "T00:00:00", read as a text in UTC.
Midnight(now) == (Wall(now.sec) \div Day) * Day

\* Mutant: the bound of today is a complete RFC3339 text.
TodayAsTime(now, ts) == ~TextBefore(ts, [sec |-> Midnight(now), frac |-> << >>])

\* ts >= that text, which ends after the second.
Today(now, ts) ==
    ~(\/ ts.sec < Midnight(now)
      \/ ts.sec = Midnight(now) /\ Less(ts.frac, Z, << >>, TheEnd))

QueriesToday == Cardinality({e \in events : Today(clock, e.ts)})

(***************************************************************************)
(* Events                                                                  *)
(***************************************************************************)

TypeOK ==
    /\ clock \in Moments
    /\ days \in Settings
    /\ pending \in SUBSET Stamped
    /\ \A e \in events : e.id \in Nat \ {0} /\ ~Earlier(clock, e.ts)
    /\ \A e, f \in events : e.id = f.id => e = f
    /\ counts \in [Hosts -> [queries : Nat, blocked : Nat]]
    /\ \A p \in Purgers : /\ purge[p].step \in {"idle", "delete"}
                          /\ purge[p].step = "delete" => purge[p].days \in 1..MaxDays
    /\ serving \in BOOLEAN /\ asked \in 0..MaxAsked

\* The process has started and its first purge is under way.
Init ==
    /\ clock = [sec |-> 0, frac |-> << >>]
    /\ days \in Settings
    /\ pending = {} /\ events = {} /\ blocks = {}
    /\ counts = [h \in Hosts |-> [queries |-> 0, blocked |-> 0]]
    /\ purge = [p \in Purgers |-> NoPurge]
    /\ serving = FALSE /\ asked = 0

Tick ==
    /\ \E now \in [sec : {clock.sec, clock.sec + 1}, frac : Fractions] :
         Earlier(clock, now) /\ now.sec <= MaxSec /\ clock' = now
    /\ UNCHANGED <<days, pending, events, blocks, counts, purge, serving, asked>>

\* handleDNS stamps an event and puts it into the queue.  Handlers run side by
\* side, so events are not stored in the order of their times.
Ask ==
    /\ serving /\ asked < MaxAsked
    /\ \E h \in Hosts, b \in BOOLEAN :
         pending' = pending \cup {[ts |-> clock, host |-> h, blocked |-> b, nr |-> asked]}
    /\ asked' = asked + 1
    /\ UNCHANGED <<clock, days, events, blocks, counts, purge, serving>>

Ids == {e.id : e \in events}

\* INTEGER PRIMARY KEY: one more than the greatest, so ids come back.
NextId == IF events = {} THEN 1 ELSE Max(Ids) + 1

BlockRow(e) == [event |-> NextId, host |-> e.host, createdAt |-> e.ts]

\* One transaction: event, counters and block event.
InsertQueryEvent ==
    \E e \in pending :
        /\ pending' = pending \ {e}
        /\ events' = events \cup {[id |-> NextId, ts |-> e.ts, host |-> e.host,
                                   blocked |-> e.blocked]}
        /\ counts' = [counts EXCEPT ![e.host].queries = @ + 1,
                                    ![e.host].blocked = @ + IF e.blocked THEN 1 ELSE 0]
        /\ blocks' = IF e.blocked THEN blocks \cup {BlockRow(e)} ELSE blocks
        /\ UNCHANGED <<clock, days, purge, serving, asked>>

\* The insert fails and the event is lost.
InsertFails ==
    /\ \E e \in pending : pending' = pending \ {e}
    /\ UNCHANGED <<clock, days, events, blocks, counts, purge, serving, asked>>

(***************************************************************************)
(* Retention                                                               *)
(***************************************************************************)

\* SetRetention checks the number, the import of HA policy only its sign.
SetRetention ==
    /\ \E d \in Settings : d >= 1 /\ d <= MaxDays /\ days' = d
    /\ UNCHANGED <<clock, pending, events, blocks, counts, purge, serving, asked>>

ImportRetention ==
    /\ \E d \in Settings : d > 0 /\ days' = d
    /\ UNCHANGED <<clock, pending, events, blocks, counts, purge, serving, asked>>

\* Mutant: only the start of the process purges.
StartPurgeOnce(p) ==
    /\ purge[p].step = "idle" /\ ~serving /\ p = Ticker
    /\ \E z \in Offsets : purge' = [purge EXCEPT ![p] =
         [step |-> "delete", days |-> RetentionDays(days), cutoff |-> Cutoff(clock, RetentionDays(days), z)]]
    /\ UNCHANGED <<clock, days, pending, events, blocks, counts, serving, asked>>

\* PurgeOldEvents reads the setting and the clock before its transaction.
StartPurge(p) ==
    /\ purge[p].step = "idle" /\ (serving \/ p = Ticker)
    /\ \E z \in Offsets : purge' = [purge EXCEPT ![p] =
         [step |-> "delete", days |-> RetentionDays(days), cutoff |-> Cutoff(clock, RetentionDays(days), z)]]
    /\ UNCHANGED <<clock, days, pending, events, blocks, counts, serving, asked>>

\* main goes on to serve after its first purge, whether or not it worked.
EndPurge(p) ==
    /\ purge' = [purge EXCEPT ![p] = NoPurge]
    /\ serving' = (serving \/ p = Ticker)

Kept(p) == {e \in events : ~TextBefore(e.ts, purge[p].cutoff)}

\* Mutant: neither a cascade nor a second DELETE for the block events.
PurgeKeepsBlocks(p) ==
    /\ purge[p].step = "delete"
    /\ events' = Kept(p)
    /\ EndPurge(p)
    /\ UNCHANGED <<clock, days, pending, blocks, counts, asked>>

\* One transaction: the events before the cutoff, by cascade the block events
\* that refer to them, and the block events before the cutoff.
PurgeOldEvents(p) ==
    /\ purge[p].step = "delete"
    /\ events' = Kept(p)
    /\ blocks' = {b \in blocks : /\ \E e \in Kept(p) : e.id = b.event
                                 /\ ~TextBefore(b.createdAt, purge[p].cutoff)}
    /\ EndPurge(p)
    /\ UNCHANGED <<clock, days, pending, counts, asked>>

\* The transaction fails and is rolled back.
PurgeFails(p) ==
    /\ purge[p].step = "delete"
    /\ EndPurge(p)
    /\ UNCHANGED <<clock, days, pending, events, blocks, counts, asked>>

\* The process stops, with the queue, and starts again.
Restart ==
    /\ pending' = {} /\ purge' = [p \in Purgers |-> NoPurge] /\ serving' = FALSE
    /\ UNCHANGED <<clock, days, events, blocks, counts, asked>>

Next ==
    \/ Tick \/ Ask \/ InsertQueryEvent \/ InsertFails \/ SetRetention \/ ImportRetention \/ Restart
    \/ \E p \in Purgers : StartPurge(p) \/ PurgeOldEvents(p) \/ PurgeFails(p)

Spec == Init /\ [][Next]_vars

\* The daily ticker goes on, the writer empties its queue, and the database
\* does not refuse every purge.
Fairness ==
    /\ WF_vars(StartPurge(Ticker)) /\ WF_vars(PurgeOldEvents(Ticker) \/ PurgeFails(Ticker))
    /\ SF_vars(PurgeOldEvents(Ticker))

FairSpec == Spec /\ Fairness

(***************************************************************************)
(* Properties                                                              *)
(***************************************************************************)

OfHost(h) == {e \in events : e.host = h}

BlockedOf(h) == {e \in events : e.host = h /\ e.blocked}

\* Exactly the blocked events that are stored have a block event, with their
\* own time, although ids are used again after a purge; and the counters of a
\* host never show less than its stored history (InsertQueryEvent,
\* PurgeOldEvents).
HistoryAgrees ==
    /\ {<<b.event, b.host, b.createdAt>> : b \in blocks}
         = {<<e.id, e.host, e.ts>> : e \in {x \in events : x.blocked}}
    /\ \A h \in Hosts : /\ counts[h].queries >= Cardinality(OfHost(h))
                         /\ counts[h].blocked >= Cardinality(BlockedOf(h))

\* Comparing texts costs a purge less than a second: what it deletes has lived
\* through the retention it read, up to the second of the cutoff and the change
\* of the local offset in between, and what is older than that second is
\* deleted (PurgeOldEvents).
PurgeAccuracy ==
    [][\A p \in Purgers : PurgeOldEvents(p) =>
         /\ \A e \in events \ events' : \E y, z \in Offsets :
              e.ts.sec <= clock.sec - purge[p].days * Day + (y - z)
         /\ \A e \in events' : e.ts.sec >= purge[p].cutoff.sec]_vars

\* Events since midnight by the clock on the wall, those of the last hours of
\* yesterday where local time is behind UTC, by as much as it is behind, and
\* those of the first hours of today where it is ahead.
Since == {e \in events : Wall(e.ts.sec) >= Midnight(clock)}

LateYesterday == {e \in events : Wall(e.ts.sec) - Midnight(clock) \in Zone[e.ts.sec]..-1}

EarlyToday == {e \in events : Wall(e.ts.sec) - Midnight(clock) \in 0..Zone[e.ts.sec] - 1}

\* The count of today is that of the events since midnight, those of the first
\* second included, on a server whose local time is UTC.  Elsewhere it is off
\* by the offset, because the local date is compared with texts in UTC: it has
\* the last hours of yesterday or lacks the first hours of today (Dashboard).
TodayCounted == QueriesToday = Cardinality((Since \cup LateYesterday) \ EarlyToday)

\* While the setting stays, no event that has outlived it is stored for ever,
\* up to a change of the local offset: the ticker removes it, in spite of
\* failing purges, restarts and events the queue delivers late.
OldEventsGo ==
    \A d \in Settings : <>[](days = d) => \A sec \in 0..MaxSec :
        []<>(\A e \in events : e.ts.sec = sec =>
               \E y, z \in Offsets : sec >= clock.sec - RetentionDays(d) * Day + (y - z))

(***************************************************************************)
(* The inductive invariant behind the safety properties.                   *)
(***************************************************************************)

\* The tables and the purges, and what is known of their times: nothing that
\* is stored or queued is later than the clock, and a cutoff computed from an
\* earlier clock lies no later than one computed now, but for the offset.
Shapes ==
    /\ events \subseteq [id : Nat, ts : Moments, host : Hosts, blocked : BOOLEAN]
    /\ IsFiniteSet(events)
    /\ purge \in [Purgers -> [step : {"idle", "delete"}, days : Nat, cutoff : Instants]]
    /\ \A e \in pending : ~Earlier(clock, e.ts)
    /\ \A p \in Purgers :
         purge[p].step = "delete" => \E y, z \in Offsets :
             purge[p].cutoff.sec <= clock.sec - purge[p].days * Day + (y - z)

BlocksExact ==
    blocks = {[event |-> e.id, host |-> e.host, createdAt |-> e.ts] :
                e \in {x \in events : x.blocked}}

IInv == TypeOK /\ Shapes /\ BlocksExact /\ HistoryAgrees
=============================================================================
