---------------------------- MODULE PolicyReplica ----------------------------
(* What policy sync promises, without row ids, roles, requests and imports:  *)
(* each node has a policy of five tables, a parcel collects them from the    *)
(* primary one by one, and a complete parcel replaces the policy of the      *)
(* secondary as a whole.  A reader of the primary need not get a table as it *)
(* is: it may get a content the table had when a load of its cache began.    *)
(* HASync (ExportHASyncPayload, pushHASync, haImport, ApplyHASyncPayload of  *)
(* internal/store/store.go) implements it.                                   *)

CONSTANT Exchanges

Nodes == {"primary", "secondary"}

Tables == {"records", "rules", "presets", "sources", "retention"}

VARIABLES
    policy,   \* policy[n][t]: content of table t on node n
    seen,     \* seen[t]: contents of t that readers of the primary may get
    picked,   \* picked[x]: tables parcel x already holds
    parcel    \* parcel[x][t]: content of t when it was picked up

vars == <<policy, seen, picked, parcel>>

\* No rules; the other tables as a new installation has them.
Initial == [t \in Tables |-> IF t = "rules" THEN {} ELSE 0]

Init ==
    /\ policy = [n \in Nodes |-> Initial]
    /\ seen = [t \in Tables |-> {Initial[t]}]
    /\ picked = [x \in Exchanges |-> {}]
    /\ parcel = [x \in Exchanges |-> Initial]

\* Readers of t may lose contents and gain the present one, nothing else.
Read(t) ==
    /\ UNCHANGED picked
    /\ seen' = [seen EXCEPT ![t] = seen'[t]]
    /\ seen'[t] \subseteq seen[t] \cup {policy["primary"][t], policy'["primary"][t]}
    /\ UNCHANGED parcel

\* The administrator of n gives t any new content.
Administer(n, t) ==
    /\ Read(t)
    /\ policy' = [policy EXCEPT ![n][t] = policy'[n][t]]

\* A cache of the primary is loaded, invalidated or overtaken.
Reload(t) == Read(t) /\ UNCHANGED policy

\* What a reader of the primary gets goes into a parcel.
PickUp(x, t) ==
    /\ t \notin picked[x]
    /\ picked' = [picked EXCEPT ![x] = @ \cup {t}]
    /\ \E content \in seen[t] : parcel' = [parcel EXCEPT ![x][t] = content]
    /\ UNCHANGED <<policy, seen>>

Discard(x) ==
    /\ picked[x] # {}
    /\ picked' = [picked EXCEPT ![x] = {}]
    /\ parcel' = [parcel EXCEPT ![x] = Initial]
    /\ UNCHANGED seen

\* All tables of the secondary change at once to what the parcel holds.
Deliver(x) ==
    /\ picked[x] = Tables
    /\ Discard(x)
    /\ policy' = [policy EXCEPT !["secondary"] = parcel[x]]

Lose(x) == Discard(x) /\ UNCHANGED policy

Next ==
    \/ \E x \in Exchanges : (\E t \in Tables : PickUp(x, t)) \/ Deliver(x) \/ Lose(x)
    \/ \E t \in Tables : Reload(t) \/ \E n \in Nodes : Administer(n, t)

Spec == Init /\ [][Next]_vars
=============================================================================
