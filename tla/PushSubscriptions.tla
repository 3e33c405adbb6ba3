------------------------- MODULE PushSubscriptions -------------------------
(***************************************************************************)
(* PushService: the devices people get notifications on.  A subscription   *)
(* runs in a transaction that locks the users row of the account; its plain*)
(* reads all see the state at the first of them, its writes the current    *)
(* one.  Deliveries take no lock.                                          *)
(***************************************************************************)
EXTENDS Naturals, Sequences, FiniteSets

CONSTANTS
    Users,
    Endpoints,     \* where a push service takes messages for one browser
    Keys,          \* p256dh and auth of an endpoint
    None,          \* no account
    Handlers,      \* requests that may run at the same time
    DeviceLimit,   \* devices of one account: 10
    MaxRows        \* bound: subscriptions stored

\* What the constants must satisfy.
PushBounds == {DeviceLimit, MaxRows} \subseteq Nat /\ None \notin Users

VARIABLES
    devices,       \* push_subscriptions: <<[user, endpoint, key], ...>> by id
    listening,     \* APPROVED members of the party who have not muted it
    pc,            \* where each request is
    req,           \* its account, endpoint and key
    seen           \* the rows each request has read: of its endpoint, or those
                   \* it still has to deliver to

vars == <<devices, listening, pc, req, seen>>

Row == [user : Users \cup {None}, endpoint : Endpoints, key : Keys]
NoRequest == <<>>
Stored == {i \in DOMAIN devices : devices[i].user # None}   \* a deleted row has no user
Of(u) == {i \in Stored : devices[i].user = u}
As(ids) == {[id |-> i, row |-> devices[i]] : i \in ids}
Gone(ids) == [i \in DOMAIN devices |->
                IF i \in ids THEN [devices[i] EXCEPT !.user = None] ELSE devices[i]]

Init ==
    /\ devices = <<>>
    /\ listening \in SUBSET Users
    /\ pc = [h \in Handlers |-> "idle"]
    /\ req = [h \in Handlers |-> NoRequest]
    /\ seen = [h \in Handlers |-> {}]

Goto(h, place) == pc' = [pc EXCEPT ![h] = place] /\ UNCHANGED req
Finish(h) ==
    /\ pc' = [pc EXCEPT ![h] = "idle"]
    /\ req' = [req EXCEPT ![h] = NoRequest]
    /\ seen' = [seen EXCEPT ![h] = {}]
-----------------------------------------------------------------------------
(* subscribe, with an endpoint and keys that are well formed                *)

\* Mutant: the users row is read without a lock.
LockUser_Plain(h, u, e, k) ==
    /\ pc[h] = "idle"
    /\ pc' = [pc EXCEPT ![h] = "locked"]
    /\ req' = [req EXCEPT ![h] = [user |-> u, endpoint |-> e, key |-> k]]
    /\ UNCHANGED <<devices, listening, seen>>

\* SELECT ... FOR UPDATE waits for the transaction that has the row.
LockUser(h, u, e, k) ==
    /\ pc[h] = "idle"
    /\ \A g \in Handlers : pc[g] \in {"locked", "saving"} => req[g].user # u
    /\ pc' = [pc EXCEPT ![h] = "locked"]
    /\ req' = [req EXCEPT ![h] = [user |-> u, endpoint |-> e, key |-> k]]
    /\ UNCHANGED <<devices, listening, seen>>

\* Somebody else's device is handed over only to who shows its keys.
Lookup(h) ==
    LET r == req[h]
        existing == {i \in Stored : devices[i].endpoint = r.endpoint}
    IN  /\ pc[h] = "locked"
        /\ IF \/ existing \cap Of(r.user) # {}
              \/ /\ Cardinality(Of(r.user)) < DeviceLimit
                 /\ \A i \in existing : devices[i].key = r.key
           THEN seen' = [seen EXCEPT ![h] = As(existing)] /\ Goto(h, "saving")
           ELSE Finish(h)
        /\ UNCHANGED <<devices, listening>>

\* save: an INSERT that the unique index on the endpoint may refuse, or an
\* UPDATE of the columns that differ from the row as it was read; if that row
\* has been deleted the UPDATE finds nothing.
Save(h) ==
    LET r == req[h]
    IN  /\ pc[h] = "saving"
        /\ \/ /\ seen[h] = {}
              /\ IF \E i \in Stored : devices[i].endpoint = r.endpoint
                 THEN UNCHANGED devices
                 ELSE Len(devices) < MaxRows /\ devices' = Append(devices, r)
           \/ \E was \in seen[h] :
                devices' = IF was.id \notin Stored THEN devices
                           ELSE [devices EXCEPT
                                   ![was.id].user = IF was.row.user = r.user THEN @ ELSE r.user,
                                   ![was.id].key = IF was.row.key = r.key THEN @ ELSE r.key]
        /\ Finish(h)
        /\ UNCHANGED listening

Unsubscribe(u, e) ==
    /\ \E i \in Of(u) : devices[i].endpoint = e
    /\ devices' = Gone({i \in Of(u) : devices[i].endpoint = e})
    /\ UNCHANGED <<listening, pc, req, seen>>
-----------------------------------------------------------------------------
(* notifyParty, started by a message of user u                              *)

Notify(h, u) ==
    /\ pc[h] = "idle"
    /\ listening \ {u} # {}
    /\ pc' = [pc EXCEPT ![h] = "reading"]
    /\ req' = [req EXCEPT ![h] = listening \ {u}]
    /\ UNCHANGED <<devices, listening, seen>>

ReadDevices(h) ==
    /\ pc[h] = "reading"
    /\ seen' = [seen EXCEPT ![h] = As(UNION {Of(u) : u \in req[h]})]
    /\ Goto(h, "delivering")
    /\ UNCHANGED <<devices, listening>>

\* Mutant: the row is deleted by its id alone.
Delivered_ById(h, to, answer) ==
    /\ pc[h] = "delivering"
    /\ devices' = IF answer = "gone" THEN Gone({to.id}) ELSE devices
    /\ seen' = [seen EXCEPT ![h] = @ \ {to}]
    /\ UNCHANGED <<listening, pc, req>>

\* The answers come in any order.  404 or 410: the row is deleted if it still
\* is the account's.  Any other failure is logged.
Delivered(h, to, answer) ==
    /\ pc[h] = "delivering"
    /\ devices' = IF answer = "gone" THEN Gone({to.id} \cap Of(to.row.user)) ELSE devices
    /\ seen' = [seen EXCEPT ![h] = @ \ {to}]
    /\ UNCHANGED <<listening, pc, req>>

AllSettled(h) ==
    /\ pc[h] = "delivering" /\ seen[h] = {}
    /\ Finish(h)
    /\ UNCHANGED <<devices, listening>>

\* A query fails or the process dies; a transaction is rolled back.
Fail(h) ==
    /\ pc[h] # "idle"
    /\ Finish(h)
    /\ UNCHANGED <<devices, listening>>

\* Members are approved, removed, or mute the party (PartyMembership).
Listen(u) ==
    /\ listening' = IF u \in listening THEN listening \ {u} ELSE listening \cup {u}
    /\ UNCHANGED <<devices, pc, req, seen>>

Next ==
    \/ \E h \in Handlers :
         \/ \E u \in Users, e \in Endpoints, k \in Keys : LockUser(h, u, e, k)
         \/ Lookup(h) \/ Save(h)
         \/ \E u \in Users : Notify(h, u)
         \/ ReadDevices(h)
         \/ \E to \in seen[h], answer \in {"other", "gone"} : Delivered(h, to, answer)
         \/ AllSettled(h) \/ Fail(h)
    \/ \E u \in Users, e \in Endpoints : Unsubscribe(u, e)
    \/ \E u \in Users : Listen(u)

Spec == Init /\ [][Next]_vars
-----------------------------------------------------------------------------
\* The values every variable ranges over; an endpoint has one row (unique index).
TypeOK ==
    /\ devices \in Seq(Row) /\ Len(devices) <= MaxRows
    /\ \A i, j \in Stored : devices[i].endpoint = devices[j].endpoint => i = j
    /\ listening \subseteq Users
    /\ pc \in [Handlers -> {"idle", "locked", "saving", "reading", "delivering"}]
    /\ \A h \in Handlers :
         /\ \/ pc[h] = "idle" /\ req[h] = NoRequest
            \/ pc[h] \in {"locked", "saving"} /\ req[h] \in Row
            \/ pc[h] \in {"reading", "delivering"} /\ req[h] \subseteq Users
         /\ seen[h] \subseteq [id : DOMAIN devices, row : Row]

\* No account gets more devices than allowed, also when subscriptions arrive
\* together or take over devices of others: who counts holds the account's
\* lock until the row is stored (subscribe).
WithinDeviceLimit == \A u \in Users : Cardinality(Of(u)) <= DeviceLimit

\* A step of a delivery to row `to` deletes that row at most, and only while it
\* belongs to the account the message was for.
DeletesOnlyAddressed(h, to) ==
    pc[h] = "delivering" /\ seen'[h] = seen[h] \ {to} =>
        \A i \in Stored : devices'[i].user = None =>
            i = to.id /\ devices[i].user = to.row.user
TakenOverKept == \A h \in Handlers : \A to \in seen[h] : DeletesOnlyAddressed(h, to)
=============================================================================
