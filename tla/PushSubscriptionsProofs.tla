---------------------- MODULE PushSubscriptionsProofs ----------------------
(***************************************************************************)
(* The device limit for any number of accounts, endpoints, requests and    *)
(* any limit: while a subscription holds the lock of its account, nobody   *)
(* else adds to the account's devices, so the room it counted is still     *)
(* there when it stores the row.                                           *)
(***************************************************************************)
EXTENDS PushSubscriptions, SequenceTheorems, FiniteSetTheorems, TLAPS

Places == {"idle", "locked", "saving", "reading", "delivering"}
Holding == {"locked", "saving"}
Reqs == Row \cup {NoRequest} \cup SUBSET Users
Reads == [id : DOMAIN devices, row : Row]

Typed ==
    /\ devices \in Seq(Row)
    /\ pc \in [Handlers -> Places]
    /\ req \in [Handlers -> Reqs]
    /\ seen \in [Handlers -> SUBSET Reads]
    /\ \A h \in Handlers : pc[h] \in Holding => req[h] \in Row /\ req[h].user \in Users

\* The unique index on the endpoint.
Unique == \A i, j \in Stored : devices[i].endpoint = devices[j].endpoint => i = j

\* The lock of the users row.
Locks ==
    \A g, h \in Handlers :
      pc[g] \in Holding /\ pc[h] \in Holding /\ g # h => req[g].user # req[h].user

\* A subscription about to store a row updates one of the account's own, or
\* there is room for one more.
OwnRow(h) == seen[h] # {} /\ \A was \in seen[h] : was.row.user = req[h].user
Room ==
    \A h \in Handlers, u \in Users :
        pc[h] = "saving" /\ req[h].user = u =>
            OwnRow(h) \/ Cardinality(Of(u)) < DeviceLimit

Inv == PushBounds /\ Typed /\ Unique /\ Locks /\ Room /\ WithinDeviceLimit
-----------------------------------------------------------------------------
LEMMA DomainOfDevices ==
    ASSUME Typed
    PROVE  DOMAIN devices = 1 .. Len(devices) /\ Len(devices) \in Nat
           /\ \A i \in DOMAIN devices : devices[i] \in Row
<1>1. devices \in Seq(Row)
  BY DEF Typed
<1> QED
  BY <1>1, LenProperties, ElementOfSeq

LEMMA DevicesFinite ==
    ASSUME Typed, NEW u
    PROVE  IsFiniteSet(Of(u)) /\ Cardinality(Of(u)) \in Nat
<1>1. Of(u) \subseteq 1 .. Len(devices) /\ Len(devices) \in Nat
  BY DomainOfDevices DEF Of, Stored
<1>2. IsFiniteSet(1 .. Len(devices))
  BY <1>1, FS_Interval
<1>3. IsFiniteSet(Of(u))
  BY <1>1, <1>2, FS_Subset
<1> QED
  BY <1>3, FS_CardinalityType

\* What deleting rows does to the devices of every account.
LEMMA GoneDeletes ==
    ASSUME PushBounds, Typed, Unique, NEW ids, devices' = Gone(ids)
    PROVE  /\ devices' \in Seq(Row) /\ DOMAIN devices' = DOMAIN devices
           /\ Unique'
           /\ \A u \in Users : Of(u)' \subseteq Of(u)
<1>1. DOMAIN devices = 1 .. Len(devices) /\ Len(devices) \in Nat
      /\ \A i \in DOMAIN devices : devices[i] \in Row
  BY DomainOfDevices
<1>2. DOMAIN devices' = DOMAIN devices
      /\ \A i \in DOMAIN devices :
           devices'[i] = IF i \in ids THEN [devices[i] EXCEPT !.user = None] ELSE devices[i]
  BY DEF Gone
<1>3. ASSUME NEW i \in DOMAIN devices
      PROVE  /\ devices'[i] \in Row
             /\ devices'[i].endpoint = devices[i].endpoint
             /\ devices'[i].user \in {devices[i].user, None}
  BY <1>1, <1>2 DEF Row
<1>4. devices' \in [1 .. Len(devices) -> Row]
  BY <1>1, <1>2, <1>3 DEF Gone
<1>5. devices' \in Seq(Row)
  BY <1>1, <1>4, SeqDef
<1>6. Unique'
  BY <1>2, <1>3 DEF Unique, Stored
<1>7. \A u \in Users : Of(u)' \subseteq Of(u)
  BY <1>2, <1>3 DEF Of, Stored, PushBounds
<1> QED
  BY <1>2, <1>5, <1>6, <1>7

\* As long as no account gains a device, room that was counted stays.
LEMMA NoGainKeepsRoom ==
    ASSUME Inv, Typed', \A u \in Users : Of(u)' \subseteq Of(u),
           \A g \in Handlers : pc'[g] = "saving" =>
             pc[g] = "saving" /\ req'[g] = req[g] /\ seen'[g] = seen[g]
    PROVE  Room' /\ WithinDeviceLimit'
<1>1. \A u \in Users : Cardinality(Of(u)') <= Cardinality(Of(u))
                       /\ Cardinality(Of(u)) \in Nat /\ Cardinality(Of(u)') \in Nat
  <2> TAKE u \in Users
  <2>1. IsFiniteSet(Of(u)) /\ Cardinality(Of(u)) \in Nat /\ Of(u)' \subseteq Of(u)
    BY DevicesFinite DEF Inv
  <2>2. IsFiniteSet(Of(u)') /\ Cardinality(Of(u)') <= Cardinality(Of(u))
    BY <2>1, FS_Subset
  <2> QED
    BY <2>1, <2>2, FS_CardinalityType
<1>2. DeviceLimit \in Nat
  BY DEF Inv, PushBounds
<1>3. WithinDeviceLimit'
  BY <1>1, <1>2 DEF Inv, WithinDeviceLimit
<1>4. ASSUME NEW g \in Handlers, NEW u \in Users, pc'[g] = "saving", req'[g].user = u
      PROVE  OwnRow(g)' \/ Cardinality(Of(u)') < DeviceLimit
  <2>1. pc[g] = "saving" /\ req'[g] = req[g] /\ seen'[g] = seen[g]
    BY <1>4
  <2>2. OwnRow(g) \/ Cardinality(Of(u)) < DeviceLimit
    BY <1>4, <2>1 DEF Inv, Room
  <2>3. CASE OwnRow(g)
    BY <2>1, <2>3 DEF OwnRow
  <2>4. CASE Cardinality(Of(u)) < DeviceLimit
    BY <1>1, <1>2, <2>4
  <2> QED
    BY <2>2, <2>3, <2>4
<1> QED
  BY <1>3, <1>4 DEF Room
-----------------------------------------------------------------------------
(* The steps that leave the rows alone. *)

\* A step of request h that changes no row and takes no lock.
LEMMA StepTyped ==
    ASSUME Typed, NEW h \in Handlers, UNCHANGED devices,
           NEW place \in Places, NEW request \in Reqs, NEW reads \in SUBSET Reads,
           pc' = [pc EXCEPT ![h] = place], req' = [req EXCEPT ![h] = request],
           seen' = [seen EXCEPT ![h] = reads],
           place \in Holding => request \in Row /\ request.user \in Users
    PROVE  /\ Typed'
           /\ pc'[h] = place /\ req'[h] = request /\ seen'[h] = reads
           /\ \A g \in Handlers \ {h} : pc'[g] = pc[g] /\ req'[g] = req[g] /\ seen'[g] = seen[g]
BY DEF Typed, Reads

LEMMA NewRequestKeepsInv ==
    ASSUME Inv, NEW h \in Handlers, UNCHANGED devices,
           NEW place \in Places \ {"saving"}, NEW request \in Reqs, NEW reads \in SUBSET Reads,
           pc' = [pc EXCEPT ![h] = place], req' = [req EXCEPT ![h] = request],
           seen' = [seen EXCEPT ![h] = reads],
           place \in Holding =>
             /\ request \in Row /\ request.user \in Users
             /\ \A g \in Handlers : pc[g] \in Holding => req[g].user # request.user
    PROVE  Inv'
<1>1. Typed /\ place \in Places /\ (place \in Holding => request \in Row /\ request.user \in Users)
  BY DEF Inv
<1>2. /\ Typed'
      /\ pc'[h] = place /\ req'[h] = request /\ seen'[h] = reads
      /\ \A g \in Handlers \ {h} : pc'[g] = pc[g] /\ req'[g] = req[g] /\ seen'[g] = seen[g]
  BY <1>1, StepTyped
<1>3. Locks'
  BY <1>2 DEF Inv, Locks
<1>4. Room' /\ WithinDeviceLimit'
  <2>1. \A u \in Users : Of(u)' \subseteq Of(u)
    BY DEF Of, Stored
  <2> QED
    BY <1>2, <2>1, NoGainKeepsRoom
<1>5. Unique' /\ PushBounds'
  BY DEF Inv, Unique, Stored, PushBounds
<1> QED
  BY <1>2, <1>3, <1>4, <1>5 DEF Inv

LEMMA FinishKeepsInv ==
    ASSUME Inv, NEW h \in Handlers, UNCHANGED devices, Finish(h)
    PROVE  Inv'
<1>1. "idle" \in Places \ {"saving"} /\ "idle" \notin Holding
  BY DEF Places, Holding
<1>2. NoRequest \in Reqs /\ {} \in SUBSET Reads
  BY DEF Reqs
<1> QED
  BY <1>1, <1>2, NewRequestKeepsInv DEF Finish

\* What is read of stored rows.
LEMMA ReadsOfRows ==
    ASSUME Typed, NEW ids \in SUBSET DOMAIN devices
    PROVE  As(ids) \in SUBSET Reads
BY DomainOfDevices DEF As, Reads

LEMMA LockUserKeepsInv ==
    ASSUME Inv, NEW h \in Handlers, NEW u \in Users, NEW e \in Endpoints, NEW k \in Keys,
           LockUser(h, u, e, k)
    PROVE  Inv'
<1> DEFINE request == [user |-> u, endpoint |-> e, key |-> k]
<1>1. request \in Row /\ request.user = u /\ request \in Reqs
  BY DEF Row, Reqs
<1>2. "locked" \in Places \ {"saving"} /\ Holding = {"locked", "saving"}
  BY DEF Places, Holding
<1>3. seen[h] \in SUBSET Reads /\ seen' = [seen EXCEPT ![h] = seen[h]]
      /\ pc' = [pc EXCEPT ![h] = "locked"] /\ req' = [req EXCEPT ![h] = request]
      /\ UNCHANGED devices
  BY DEF LockUser, Inv, Typed
<1>4. \A g \in Handlers : pc[g] \in Holding => req[g].user # request.user
  BY <1>1, <1>2 DEF LockUser
<1> HIDE DEF request
<1> QED
  BY <1>1, <1>2, <1>3, <1>4, NewRequestKeepsInv

LEMMA NotifyKeepsInv ==
    ASSUME Inv, listening \subseteq Users, NEW h \in Handlers,
           (\E u \in Users : Notify(h, u)) \/ ReadDevices(h)
    PROVE  Inv'
<1>1. {"reading", "delivering"} \subseteq Places \ {"saving"}
      /\ {"reading", "delivering"} \cap Holding = {}
  BY DEF Places, Holding
<1>2. CASE \E u \in Users : Notify(h, u)
  <2>1. PICK u \in Users : Notify(h, u)
    BY <1>2
  <2>2. listening \ {u} \in Reqs
    BY DEF Reqs
  <2>3. seen[h] \in SUBSET Reads /\ seen' = [seen EXCEPT ![h] = seen[h]]
        /\ pc' = [pc EXCEPT ![h] = "reading"]
        /\ req' = [req EXCEPT ![h] = listening \ {u}] /\ UNCHANGED devices
    BY <2>1 DEF Notify, Inv, Typed
  <2> QED
    BY <1>1, <2>2, <2>3, NewRequestKeepsInv
<1>3. CASE ReadDevices(h)
  <2> DEFINE ids == UNION {Of(u) : u \in req[h]}
  <2>1. ids \in SUBSET DOMAIN devices
    BY DEF Of, Stored
  <2>2. As(ids) \in SUBSET Reads
    BY <2>1, ReadsOfRows DEF Inv
  <2>3. req[h] \in Reqs /\ req' = [req EXCEPT ![h] = req[h]]
        /\ pc' = [pc EXCEPT ![h] = "delivering"]
        /\ seen' = [seen EXCEPT ![h] = As(ids)] /\ UNCHANGED devices
    BY <1>3 DEF ReadDevices, Goto, Inv, Typed
  <2> HIDE DEF ids
  <2> QED
    BY <1>1, <2>2, <2>3, NewRequestKeepsInv
<1> QED
  BY <1>2, <1>3

\* A look-up goes on to store a row only if the row is one of the account's own
\* or the account has room.
LEMMA LookupKeepsInv ==
    ASSUME Inv, NEW h \in Handlers, Lookup(h)
    PROVE  Inv'
<1> DEFINE existing == {i \in Stored : devices[i].endpoint = req[h].endpoint}
<1>1. UNCHANGED devices /\ pc[h] = "locked"
  BY DEF Lookup
<1>2. CASE Finish(h)
  BY <1>1, <1>2, FinishKeepsInv
<1>3. CASE /\ \/ existing \cap Of(req[h].user) # {}
              \/ Cardinality(Of(req[h].user)) < DeviceLimit
           /\ seen' = [seen EXCEPT ![h] = As(existing)] /\ Goto(h, "saving")
  <2>1. existing \in SUBSET DOMAIN devices
    BY DEF Stored
  <2>2. As(existing) \in SUBSET Reads
    BY <2>1, ReadsOfRows DEF Inv
  <2>3. req[h] \in Row /\ req[h].user \in Users /\ req[h] \in Reqs
        /\ req' = [req EXCEPT ![h] = req[h]] /\ pc' = [pc EXCEPT ![h] = "saving"]
        /\ "saving" \in Places
    BY <1>1, <1>3 DEF Inv, Typed, Holding, Goto, Places
  <2> HIDE DEF existing
  <2>4. /\ Typed'
        /\ pc'[h] = "saving" /\ req'[h] = req[h] /\ seen'[h] = As(existing)
        /\ \A g \in Handlers \ {h} :
             pc'[g] = pc[g] /\ req'[g] = req[g] /\ seen'[g] = seen[g]
    BY <1>1, <1>3, <2>2, <2>3, StepTyped DEF Inv
  <2>5. Locks'
    BY <1>1, <2>4 DEF Inv, Locks, Holding
  <2>6. \A u \in Users : Of(u)' = Of(u)
    BY <1>1 DEF Of, Stored
  <2>7. WithinDeviceLimit'
    BY <2>6 DEF Inv, WithinDeviceLimit
  <2>8. existing \cap Of(req[h].user) # {} =>
          existing # {} /\ \A i \in existing : devices[i].user = req[h].user
    BY DEF Inv, Unique, Of, existing
  <2>9. existing \cap Of(req[h].user) # {} =>
          As(existing) # {} /\ \A was \in As(existing) : was.row.user = req[h].user
    <3> SUFFICES ASSUME existing \cap Of(req[h].user) # {}
                 PROVE  As(existing) # {}
                        /\ \A was \in As(existing) : was.row.user = req[h].user
      OBVIOUS
    <3>1. PICK i : i \in existing
      BY <2>8
    <3>2. [id |-> i, row |-> devices[i]] \in As(existing)
      BY <3>1 DEF As
    <3>3. ASSUME NEW was \in As(existing)
          PROVE  was.row.user = req[h].user
      <4>1. PICK j \in existing : was = [id |-> j, row |-> devices[j]]
        BY DEF As
      <4>2. was.row = devices[j]
        BY <4>1
      <4> QED
        BY <2>8, <4>2
    <3> QED
      BY <3>2, <3>3
  <2>10. existing \cap Of(req[h].user) # {} => OwnRow(h)'
    BY <2>4, <2>9 DEF OwnRow
  <2>11. ASSUME NEW g \in Handlers, NEW u \in Users, pc'[g] = "saving", req'[g].user = u
         PROVE  OwnRow(g)' \/ Cardinality(Of(u)') < DeviceLimit
    <3>1. CASE g = h
      BY <1>3, <2>4, <2>6, <2>10, <2>11, <3>1
    <3>2. CASE g # h
      <4>1. OwnRow(g) \/ Cardinality(Of(u)) < DeviceLimit
        BY <2>4, <2>11, <3>2 DEF Inv, Room
      <4> QED
        BY <2>4, <2>6, <3>2, <4>1 DEF OwnRow
    <3> QED
      BY <3>1, <3>2
  <2>12. Room'
    BY <2>11 DEF Room
  <2>13. Unique' /\ PushBounds'
    BY <1>1 DEF Inv, Unique, Stored, PushBounds
  <2> QED
    BY <2>4, <2>5, <2>7, <2>12, <2>13 DEF Inv
<1> QED
  BY <1>2, <1>3 DEF Lookup
-----------------------------------------------------------------------------
(* The steps that write rows. *)

\* A step that deletes rows, and takes what it has read from a delivery.
LEMMA GoneKeepsInv ==
    ASSUME Inv, NEW ids, devices' = Gone(ids), UNCHANGED <<pc, req>>,
           seen' \in [Handlers -> SUBSET Reads],
           \A h \in Handlers : pc[h] = "saving" => seen'[h] = seen[h]
    PROVE  Inv'
<1>1. /\ devices' \in Seq(Row) /\ DOMAIN devices' = DOMAIN devices
      /\ Unique'
      /\ \A u \in Users : Of(u)' \subseteq Of(u)
  BY GoneDeletes DEF Inv
<1>2. Typed'
  BY <1>1 DEF Inv, Typed, Reads
<1>3. Room' /\ WithinDeviceLimit'
  BY <1>1, <1>2, NoGainKeepsRoom
<1>4. Locks' /\ PushBounds'
  BY DEF Inv, Locks, PushBounds
<1> QED
  BY <1>1, <1>2, <1>3, <1>4 DEF Inv

LEMMA DeleteKeepsInv ==
    ASSUME Inv,
           \/ \E u \in Users, e \in Endpoints : Unsubscribe(u, e)
           \/ \E h \in Handlers : \E to \in seen[h], answer \in {"other", "gone"} :
                Delivered(h, to, answer)
    PROVE  Inv'
<1>1. CASE \E u \in Users, e \in Endpoints : Unsubscribe(u, e)
  <2>1. \E ids : devices' = Gone(ids)
    BY <1>1 DEF Unsubscribe
  <2>2. UNCHANGED <<pc, req, seen>>
    BY <1>1 DEF Unsubscribe
  <2> QED
    BY <2>1, <2>2, GoneKeepsInv DEF Inv, Typed
<1>2. ASSUME NEW h \in Handlers, NEW to \in seen[h], NEW answer \in {"other", "gone"},
             Delivered(h, to, answer)
      PROVE  Inv'
  <2>1. seen' = [seen EXCEPT ![h] = @ \ {to}] /\ UNCHANGED <<pc, req>>
        /\ pc[h] = "delivering"
    BY <1>2 DEF Delivered
  <2>2. seen' \in [Handlers -> SUBSET Reads]
        /\ \A g \in Handlers : pc[g] = "saving" => seen'[g] = seen[g]
    BY <2>1 DEF Inv, Typed
  <2>3. devices = Gone({})
    <3>1. devices \in Seq(Row)
      BY DEF Inv, Typed
    <3>2. devices \in [1 .. Len(devices) -> Row]
      BY <3>1, LenProperties
    <3> QED
      BY <3>2 DEF Gone
  <2>4. \E ids : devices' = Gone(ids)
    BY <1>2, <2>3 DEF Delivered
  <2> QED
    BY <2>1, <2>2, <2>4, GoneKeepsInv
<1> QED
  BY <1>1, <1>2

\* The row as it is stored.
LEMMA SavedRow ==
    ASSUME NEW row \in Row, NEW user, NEW key
    PROVE  [row EXCEPT !.user = user, !.key = key]
             = [user |-> user, endpoint |-> row.endpoint, key |-> key]
<1> DEFINE new == [row EXCEPT !.user = user, !.key = key]
<1>1. DOMAIN row = {"user", "endpoint", "key"}
  BY DEF Row
<1>2. new = [c \in {"user", "endpoint", "key"} |-> new[c]]
  BY <1>1
<1>3. new.user = user /\ new.endpoint = row.endpoint /\ new.key = key
  BY <1>1
<1> HIDE DEF new
<1>4. new = [user |-> new.user, endpoint |-> new.endpoint, key |-> new.key]
  BY <1>2
<1>5. new = [user |-> user, endpoint |-> row.endpoint, key |-> key]
  BY <1>3, <1>4
<1> QED
  BY <1>5 DEF new

\* What storing a row does: no other account gains a device, and the account
\* itself gains one at most, none when the row is its own.
LEMMA SaveStores ==
    ASSUME Inv, NEW h \in Handlers, Save(h)
    PROVE  /\ devices' \in Seq(Row) /\ DOMAIN devices \subseteq DOMAIN devices'
           /\ Unique'
           /\ \A u \in Users \ {req[h].user} : Of(u)' \subseteq Of(u)
           /\ \E x : \A u \in Users : Of(u)' \subseteq Of(u) \cup {x}
           /\ OwnRow(h) => \A u \in Users : Of(u)' \subseteq Of(u)
<1> DEFINE r == req[h]
<1>1. r \in Row /\ r.user \in Users /\ None \notin Users
  BY DEF Save, Inv, Typed, Holding, PushBounds
<1>2. devices \in Seq(Row) /\ DOMAIN devices = 1 .. Len(devices) /\ Len(devices) \in Nat
      /\ \A i \in DOMAIN devices : devices[i] \in Row
  BY DomainOfDevices DEF Inv, Typed
<1>3. CASE UNCHANGED devices
  <2>1. Unique'
    BY <1>3 DEF Inv, Unique, Stored
  <2>2. \A u \in Users : Of(u)' = Of(u)
    BY <1>3 DEF Of, Stored
  <2> QED
    BY <1>2, <1>3, <2>1, <2>2
<1>4. CASE /\ seen[h] = {} /\ devices' = Append(devices, r)
           /\ \A i \in Stored : devices[i].endpoint # r.endpoint
  <2>1. /\ devices' \in Seq(Row) /\ Len(devices') = Len(devices) + 1
        /\ \A i \in 1 .. Len(devices) : devices'[i] = devices[i]
        /\ devices'[Len(devices) + 1] = r
    BY <1>1, <1>2, <1>4, AppendProperties
  <2>2. DOMAIN devices' = 1 .. Len(devices) + 1
    BY <2>1, LenProperties
  <2> HIDE DEF r
  <2>3. \A i \in DOMAIN devices' :
          i = Len(devices) + 1 \/ (i \in DOMAIN devices /\ devices'[i] = devices[i])
    BY <1>2, <2>1, <2>2
  <2>4. Unique'
    BY <1>4, <2>1, <2>3 DEF Inv, Unique, Stored
  <2>5. \A u \in Users : Of(u)' \subseteq Of(u) \cup {Len(devices) + 1}
    BY <2>3 DEF Of, Stored
  <2>6. \A u \in Users \ {r.user} : Of(u)' \subseteq Of(u)
    BY <2>1, <2>3 DEF Of, Stored
  <2>7. ~OwnRow(h)
    BY <1>4 DEF OwnRow
  <2> QED
    <3>1. DOMAIN devices \subseteq DOMAIN devices'
      BY <1>2, <2>2
    <3>2. \E x : \A u \in Users : Of(u)' \subseteq Of(u) \cup {x}
      BY <2>5
    <3> QED
      BY <2>1, <2>4, <2>6, <2>7, <3>1, <3>2 DEF r
<1>5. ASSUME NEW was \in seen[h], was.id \in Stored,
             devices' = [devices EXCEPT
                           ![was.id].user = IF was.row.user = r.user THEN @ ELSE r.user,
                           ![was.id].key = IF was.row.key = r.key THEN @ ELSE r.key]
      PROVE  /\ devices' \in Seq(Row) /\ DOMAIN devices' = DOMAIN devices
             /\ Unique'
             /\ \A u \in Users \ {r.user} : Of(u)' \subseteq Of(u)
             /\ \A u \in Users : Of(u)' \subseteq Of(u) \cup {was.id}
             /\ was.row.user = r.user => \A u \in Users : Of(u)' \subseteq Of(u)
  <2> DEFINE i == was.id
             saved == [user |-> IF was.row.user = r.user THEN devices[i].user ELSE r.user,
                       endpoint |-> devices[i].endpoint,
                       key |-> IF was.row.key = r.key THEN devices[i].key ELSE r.key]
  <2>1. i \in DOMAIN devices /\ devices[i] \in Row
    BY <1>2, <1>5 DEF Stored
  <2>2. saved \in Row
    BY <1>1, <2>1 DEF Row
  <2>3. devices' = [devices EXCEPT ![i] = saved]
    <3>1. devices \in [1 .. Len(devices) -> Row] /\ i \in 1 .. Len(devices)
      BY <1>2, <2>1, LenProperties
    <3>2. devices' = [devices EXCEPT ![i] =
                        [devices[i] EXCEPT
                           !.user = IF was.row.user = r.user THEN @ ELSE r.user,
                           !.key = IF was.row.key = r.key THEN @ ELSE r.key]]
      BY <1>5, <3>1
    <3>3. [devices[i] EXCEPT !.user = IF was.row.user = r.user THEN @ ELSE r.user,
                             !.key = IF was.row.key = r.key THEN @ ELSE r.key] = saved
      BY <2>1, SavedRow
    <3> QED
      BY <3>2, <3>3
  <2>4. saved.user = (IF was.row.user = r.user THEN devices[i].user ELSE r.user)
        /\ saved.endpoint = devices[i].endpoint
    OBVIOUS
  <2> HIDE DEF saved
  <2>5. /\ devices' \in Seq(Row) /\ Len(devices') = Len(devices)
        /\ \A j \in 1 .. Len(devices) : devices'[j] = IF j = i THEN saved ELSE devices[j]
    BY <1>2, <2>1, <2>2, <2>3, ExceptSeq
  <2>6. DOMAIN devices' = DOMAIN devices
    BY <1>2, <2>5, LenProperties
  <2> HIDE DEF r, i
  <2>7. \A j \in DOMAIN devices : devices'[j].endpoint = devices[j].endpoint
    BY <1>2, <2>4, <2>5
  <2>8. \A j \in DOMAIN devices' : devices'[j].user = devices[j].user \/ j = i
    BY <1>2, <2>5, <2>6
  <2>9. i \in Stored
    BY <1>5 DEF i
  <2>10. Unique'
    BY <2>6, <2>7, <2>8, <2>9 DEF Inv, Unique, Stored
  <2>11. devices'[i].user = IF was.row.user = r.user THEN devices[i].user ELSE r.user
    BY <1>2, <2>1, <2>4, <2>5
  <2>12. \A u \in Users \ {r.user} : Of(u)' \subseteq Of(u)
    BY <2>6, <2>8, <2>9, <2>11 DEF Of, Stored
  <2>13. \A u \in Users : Of(u)' \subseteq Of(u) \cup {i}
    BY <2>6, <2>8, <2>9 DEF Of, Stored
  <2>14. was.row.user = r.user => \A u \in Users : Of(u)' \subseteq Of(u)
    BY <2>6, <2>8, <2>9, <2>11 DEF Of, Stored
  <2> QED
    BY <2>5, <2>6, <2>10, <2>12, <2>13, <2>14 DEF i
<1>6. CASE \E was \in seen[h] :
             /\ was.id \in Stored
             /\ devices' = [devices EXCEPT
                              ![was.id].user = IF was.row.user = r.user THEN @ ELSE r.user,
                              ![was.id].key = IF was.row.key = r.key THEN @ ELSE r.key]
  <2>1. PICK was \in seen[h] :
             /\ was.id \in Stored
             /\ devices' = [devices EXCEPT
                              ![was.id].user = IF was.row.user = r.user THEN @ ELSE r.user,
                              ![was.id].key = IF was.row.key = r.key THEN @ ELSE r.key]
    BY <1>6
  <2>2. /\ devices' \in Seq(Row) /\ DOMAIN devices' = DOMAIN devices
        /\ Unique'
        /\ \A u \in Users \ {r.user} : Of(u)' \subseteq Of(u)
        /\ \A u \in Users : Of(u)' \subseteq Of(u) \cup {was.id}
        /\ was.row.user = r.user => \A u \in Users : Of(u)' \subseteq Of(u)
    BY <1>5, <2>1
  <2>3. OwnRow(h) => was.row.user = r.user
    BY DEF OwnRow
  <2> QED
    BY <2>2, <2>3
<1> QED
  BY <1>3, <1>4, <1>6 DEF Save

\* The request that stores a row held the lock, so that the room another
\* request has counted is room of another account.
LEMMA SaveKeepsInv ==
    ASSUME Inv, NEW h \in Handlers, Save(h)
    PROVE  Inv'
<1> DEFINE v == req[h].user
<1>1. pc[h] = "saving" /\ v \in Users
  BY DEF Save, Inv, Typed, Holding
<1>2. /\ pc' = [pc EXCEPT ![h] = "idle"] /\ req' = [req EXCEPT ![h] = NoRequest]
      /\ seen' = [seen EXCEPT ![h] = {}]
  BY DEF Save, Finish
<1>3. /\ devices' \in Seq(Row) /\ DOMAIN devices \subseteq DOMAIN devices'
      /\ Unique'
      /\ \A u \in Users \ {v} : Of(u)' \subseteq Of(u)
      /\ \E x : \A u \in Users : Of(u)' \subseteq Of(u) \cup {x}
      /\ OwnRow(h) => \A u \in Users : Of(u)' \subseteq Of(u)
  BY SaveStores
<1>4. pc'[h] = "idle"
      /\ \A g \in Handlers \ {h} : pc'[g] = pc[g] /\ req'[g] = req[g] /\ seen'[g] = seen[g]
  BY <1>2 DEF Inv, Typed
<1>5. Typed'
  <2>1. pc' \in [Handlers -> Places] /\ req' \in [Handlers -> Reqs]
    BY <1>2 DEF Inv, Typed, Places, Reqs
  <2>2. Reads \subseteq Reads'
    BY <1>3 DEF Reads
  <2>3. seen' \in [Handlers -> SUBSET Reads']
    BY <1>2, <2>2 DEF Inv, Typed
  <2>4. \A g \in Handlers : pc'[g] \in Holding => req'[g] \in Row /\ req'[g].user \in Users
    BY <1>4 DEF Inv, Typed, Holding
  <2> QED
    BY <1>3, <2>1, <2>3, <2>4 DEF Typed
<1>6. Locks'
  BY <1>4 DEF Inv, Locks, Holding
<1>7. PushBounds' /\ DeviceLimit \in Nat
  BY DEF Inv, PushBounds
<1>8. CASE OwnRow(h)
  <2>1. \A g \in Handlers : pc'[g] = "saving" =>
          pc[g] = "saving" /\ req'[g] = req[g] /\ seen'[g] = seen[g]
    BY <1>4
  <2>2. Room' /\ WithinDeviceLimit'
    BY <1>3, <1>5, <1>8, <2>1, NoGainKeepsRoom
  <2> QED
    BY <1>3, <1>5, <1>6, <1>7, <2>2 DEF Inv
<1>9. CASE ~OwnRow(h)
  <2> HIDE DEF v
  <2>1. Cardinality(Of(v)) < DeviceLimit
    BY <1>1, <1>9 DEF Inv, Room, v
  <2>2. \A u \in Users : IsFiniteSet(Of(u)) /\ Cardinality(Of(u)) \in Nat
    BY DevicesFinite DEF Inv
  <2>3. \A u \in Users \ {v} :
          Cardinality(Of(u)') \in Nat /\ Cardinality(Of(u)') <= Cardinality(Of(u))
    <3> TAKE u \in Users \ {v}
    <3>1. IsFiniteSet(Of(u)') /\ Cardinality(Of(u)') <= Cardinality(Of(u))
      BY <1>3, <2>2, FS_Subset
    <3> QED
      BY <3>1, FS_CardinalityType
  <2>4. \A u \in Users : u = v => Cardinality(Of(u)') <= DeviceLimit
    <3> SUFFICES ASSUME NEW u \in Users, u = v
                 PROVE  Cardinality(Of(u)') <= DeviceLimit
      OBVIOUS
    <3>1. Cardinality(Of(u)) < DeviceLimit /\ IsFiniteSet(Of(u)) /\ Cardinality(Of(u)) \in Nat
      BY <2>1, <2>2
    <3>2. PICK x : Of(u)' \subseteq Of(u) \cup {x}
      BY <1>3
    <3>3. IsFiniteSet(Of(u) \cup {x}) /\ Cardinality(Of(u) \cup {x}) <= Cardinality(Of(u)) + 1
      <4>1. IsFiniteSet(Of(u) \cup {x})
        BY <3>1, FS_AddElement
      <4>2. Cardinality(Of(u) \cup {x})
              = IF x \in Of(u) THEN Cardinality(Of(u)) ELSE Cardinality(Of(u)) + 1
        BY <3>1, FS_AddElement
      <4> QED
        BY <3>1, <4>1, <4>2
    <3>4. IsFiniteSet(Of(u)') /\ Cardinality(Of(u)') <= Cardinality(Of(u) \cup {x})
      BY <3>2, <3>3, FS_Subset
    <3>5. Cardinality(Of(u)') \in Nat /\ Cardinality(Of(u) \cup {x}) \in Nat
      BY <3>3, <3>4, FS_CardinalityType
    <3> QED
      BY <1>7, <3>1, <3>3, <3>4, <3>5
  <2>5. WithinDeviceLimit'
    <3>1. ASSUME NEW u \in Users \ {v}
          PROVE  Cardinality(Of(u)') <= DeviceLimit
      <4>1. Cardinality(Of(u)) <= DeviceLimit
        BY DEF Inv, WithinDeviceLimit
      <4> QED
        BY <1>7, <2>2, <2>3, <4>1
    <3> QED
      BY <2>4, <3>1 DEF WithinDeviceLimit
  <2>6. ASSUME NEW g \in Handlers, NEW u \in Users, pc'[g] = "saving", req'[g].user = u
        PROVE  OwnRow(g)' \/ Cardinality(Of(u)') < DeviceLimit
    <3>1. g # h /\ pc[g] = "saving" /\ req[g].user = u /\ seen'[g] = seen[g]
          /\ req'[g] = req[g]
      BY <1>4, <2>6
    <3>2. u # v
      BY <1>1, <3>1 DEF Inv, Locks, Holding, v
    <3>3. OwnRow(g) \/ Cardinality(Of(u)) < DeviceLimit
      BY <3>1 DEF Inv, Room
    <3>4. CASE OwnRow(g)
      BY <3>1, <3>4 DEF OwnRow
    <3>5. CASE Cardinality(Of(u)) < DeviceLimit
      BY <1>7, <2>2, <2>3, <3>2, <3>5
    <3> QED
      BY <3>3, <3>4, <3>5
  <2>7. Room'
    BY <2>6 DEF Room
  <2> QED
    BY <1>3, <1>5, <1>6, <1>7, <2>5, <2>7 DEF Inv
<1> QED
  BY <1>8, <1>9
-----------------------------------------------------------------------------
Listeners == listening \subseteq Users

LEMMA NextKeepsListeners ==
    ASSUME Listeners, [Next]_vars
    PROVE  Listeners'
BY DEF Listeners, Next, vars, LockUser, Lookup, Save, Notify, ReadDevices, Delivered,
       AllSettled, Fail, Unsubscribe, Listen

LEMMA NextKeepsInv ==
    ASSUME Inv, Listeners, [Next]_vars
    PROVE  Inv'
<1>1. ASSUME NEW h \in Handlers, AllSettled(h) \/ Fail(h)
      PROVE  Inv'
  <2>1. Finish(h) /\ UNCHANGED devices
    BY <1>1 DEF AllSettled, Fail
  <2> QED
    BY <2>1, FinishKeepsInv
<1>2. CASE UNCHANGED <<devices, pc, req, seen>>
  <2>1. \A u : Of(u)' = Of(u)
    BY <1>2 DEF Of, Stored
  <2>2. Typed' /\ Unique' /\ Locks' /\ PushBounds'
    BY <1>2 DEF Inv, Typed, Reads, Unique, Stored, Locks, PushBounds
  <2>3. Room' /\ WithinDeviceLimit'
    BY <1>2, <2>1, <2>2, NoGainKeepsRoom
  <2> QED
    BY <2>2, <2>3 DEF Inv
<1>3. CASE (\E u \in Users : Listen(u)) \/ UNCHANGED vars
  BY <1>2, <1>3 DEF Listen, vars
<1>4. ASSUME NEW h \in Handlers, (\E u \in Users : Notify(h, u)) \/ ReadDevices(h)
      PROVE  Inv'
  BY <1>4, NotifyKeepsInv DEF Listeners
<1>5. ASSUME NEW h \in Handlers,
             \E u \in Users, e \in Endpoints, k \in Keys : LockUser(h, u, e, k)
      PROVE  Inv'
  BY <1>5, LockUserKeepsInv
<1>6. ASSUME NEW h \in Handlers, Lookup(h) \/ Save(h)
      PROVE  Inv'
  BY <1>6, LookupKeepsInv, SaveKeepsInv
<1>7. ASSUME \/ \E u \in Users, e \in Endpoints : Unsubscribe(u, e)
             \/ \E h \in Handlers : \E to \in seen[h], answer \in {"other", "gone"} :
                  Delivered(h, to, answer)
      PROVE  Inv'
  BY <1>7, DeleteKeepsInv
<1> QED
  BY <1>1, <1>3, <1>4, <1>5, <1>6, <1>7 DEF Next

\* The table is within its bound, and a request carries what its place needs.
Carries ==
    /\ Len(devices) <= MaxRows
    /\ \A h \in Handlers :
         /\ pc[h] = "idle" => req[h] = NoRequest
         /\ pc[h] \in {"reading", "delivering"} => req[h] \subseteq Users

\* Changed in place, the table keeps its length.
LEMMA SameLength ==
    ASSUME Typed, Typed', DOMAIN devices' = DOMAIN devices, Len(devices) <= MaxRows
    PROVE  Len(devices') <= MaxRows
<1>1. DOMAIN devices = 1..Len(devices) /\ Len(devices) \in Nat
  BY DomainOfDevices
<1>2. devices' \in Seq(Row)
  BY DEF Typed, Row
<1>3. DOMAIN devices' = 1..Len(devices') /\ Len(devices') \in Nat
  BY <1>2, LenProperties
<1>4. Len(devices') = Len(devices)
  BY <1>1, <1>3
<1> QED
  BY <1>4

LEMMA NextKeepsCarries ==
    ASSUME Inv, Listeners, Carries, [Next]_vars
    PROVE  Carries'
<1>0. Typed /\ Typed' /\ PushBounds
  BY NextKeepsInv DEF Inv
<1>1. Len(devices') <= MaxRows
  <2>1. CASE DOMAIN devices' = DOMAIN devices
    BY <1>0, <2>1, SameLength DEF Carries
  <2>2. ASSUME NEW r \in Row, Len(devices) < MaxRows, devices' = Append(devices, r)
        PROVE  Len(devices') <= MaxRows
    <3>1. Len(devices') = Len(devices) + 1 /\ Len(devices) \in Nat
      BY <1>0, <2>2, AppendProperties, LenProperties DEF Typed
    <3> QED
      BY <1>0, <2>2, <3>1 DEF PushBounds
  <2>3. ASSUME NEW h \in Handlers, Save(h)
        PROVE  \/ DOMAIN devices' = DOMAIN devices
               \/ Len(devices) < MaxRows /\ devices' = Append(devices, req[h]) /\ req[h] \in Row
    BY <1>0, <2>3 DEF Save, Typed, Holding
  <2>4. ASSUME \A h \in Handlers : ~Save(h)
        PROVE  DOMAIN devices' = DOMAIN devices
    BY <2>4 DEF Next, vars, LockUser, Lookup, Notify, ReadDevices, Delivered,
       AllSettled, Fail, Unsubscribe, Listen, Gone
  <2> QED
    BY <2>1, <2>2, <2>3, <2>4
<1>2. ASSUME NEW h \in Handlers
      PROVE  /\ pc'[h] = "idle" => req'[h] = NoRequest
             /\ pc'[h] \in {"reading", "delivering"} => req'[h] \subseteq Users
  <2>0. /\ pc \in [Handlers -> Places] /\ req \in [Handlers -> Reqs]
        /\ pc[h] = "idle" => req[h] = NoRequest
        /\ pc[h] \in {"reading", "delivering"} => req[h] \subseteq Users
    BY <1>0 DEF Typed, Carries
  <2>1. CASE pc'[h] = pc[h] /\ req'[h] = req[h]
    BY <2>0, <2>1
  <2>2. ASSUME NEW g \in Handlers, Finish(g) 
        PROVE  \/ pc'[h] = "idle" /\ req'[h] = NoRequest
               \/ pc'[h] = pc[h] /\ req'[h] = req[h]
    BY <2>0, <2>2 DEF Finish
  <2>3. ASSUME NEW g \in Handlers, Lookup(g) \/ Save(g) \/ AllSettled(g) \/ Fail(g)
        PROVE  \/ Finish(g)
               \/ pc' = [pc EXCEPT ![g] = "saving"] /\ req' = req
    BY <2>3 DEF Lookup, Save, AllSettled, Fail, Goto
  <2>4. ASSUME NEW g \in Handlers, NEW u \in Users,
               Notify(g, u) \/ ReadDevices(g)
        PROVE  \/ pc' = [pc EXCEPT ![g] = "reading"] /\ req' = [req EXCEPT ![g] = listening \ {u}]
               \/ /\ pc' = [pc EXCEPT ![g] = "delivering"] /\ req' = req
                  /\ pc[g] = "reading"
    BY <2>4 DEF Notify, ReadDevices, Goto
  <2>5. ASSUME NEW g \in Handlers, ReadDevices(g)
        PROVE  /\ pc' = [pc EXCEPT ![g] = "delivering"] /\ req' = req
               /\ pc[g] = "reading"
    BY <2>5 DEF ReadDevices, Goto
  <2>6. CASE \E g \in Handlers : Lookup(g) \/ Save(g) \/ AllSettled(g) \/ Fail(g)
    BY <2>0, <2>1, <2>2, <2>3, <2>6
  <2>7. CASE \E g \in Handlers : \E u \in Users : Notify(g, u)
    BY <2>0, <2>1, <2>4, <2>7 DEF Listeners
  <2>8. CASE \E g \in Handlers : ReadDevices(g)
    BY <2>0, <2>1, <2>5, <2>8
  <2>9. CASE \E g \in Handlers, u \in Users, e \in Endpoints, k \in Keys : LockUser(g, u, e, k)
    <3>1. PICK g \in Handlers :
            pc' = [pc EXCEPT ![g] = "locked"] /\ \E r : req' = [req EXCEPT ![g] = r]
      BY <2>9 DEF LockUser
    <3> QED
      BY <2>0, <2>1, <3>1
  <2>10. CASE UNCHANGED <<pc, req>>
    BY <2>1, <2>10
  <2> QED
    BY <2>6, <2>7, <2>8, <2>9, <2>10 DEF Next, vars, Delivered, Unsubscribe, Listen
<1> QED
  BY <1>1, <1>2 DEF Carries

LEMMA InitInv ==
    ASSUME PushBounds, Init
    PROVE  Inv /\ Listeners /\ Carries
<1>1. devices \in Seq(Row) /\ DOMAIN devices = {}
  BY EmptySeq DEF Init
<1>2. Typed /\ Listeners
  BY <1>1 DEF Init, Typed, Places, Holding, Reqs, Listeners
<1>3. Unique /\ Locks /\ Room
  BY <1>1 DEF Init, Unique, Locks, Room, Stored, Holding
<1>4. \A u \in Users : Of(u) = {}
  BY <1>1 DEF Of, Stored
<1>5. WithinDeviceLimit
  BY <1>4, FS_EmptySet DEF WithinDeviceLimit, PushBounds
<1>6. Carries
  BY EmptySeq DEF Init, Carries, PushBounds
<1> QED
  BY <1>2, <1>3, <1>5, <1>6 DEF Inv

PushInv == Inv /\ Listeners /\ Carries

LEMMA PushInit == PushBounds /\ Init => PushInv
BY InitInv DEF PushInv

LEMMA PushStep == PushInv /\ [Next]_vars => PushInv'
BY NextKeepsInv, NextKeepsListeners, NextKeepsCarries DEF PushInv

LEMMA Subscribed == PushBounds /\ Spec => []PushInv
BY PushInit, PushStep, PTL DEF Spec

LEMMA PushTyped == PushInv => TypeOK
BY DEF PushInv, Inv, Typed, Unique, Listeners, Carries, TypeOK, Places, Holding, Reads

LEMMA DevicesLimitedHolds == PushInv => WithinDeviceLimit
BY DEF PushInv, Inv

\* Whatever the limit and however many subscriptions arrive together, take over
\* devices, fail, or overlap deliveries and unsubscriptions, no account ever has
\* more devices than allowed (PushService.subscribe).
THEOREM DevicesLimited == PushBounds /\ Spec => []WithinDeviceLimit
BY DevicesLimitedHolds, Subscribed, PTL
-----------------------------------------------------------------------------
(* Deliveries that come late. *)

\* Which steps take one row out of what a delivery still has to do.
LEMMA DeliveryStep ==
    ASSUME Inv, [Next]_vars, NEW h \in Handlers, NEW to \in seen[h],
           pc[h] = "delivering", seen'[h] = seen[h] \ {to}
    PROVE  UNCHANGED devices \/ \E answer \in {"other", "gone"} : Delivered(h, to, answer)
<1>1. seen'[h] # seen[h]
  OBVIOUS
<1>2. seen \in [Handlers -> SUBSET Reads]
  BY DEF Inv, Typed
<1>3. ASSUME NEW g \in Handlers, Save(g)
      PROVE  FALSE
  <2>1. g # h /\ seen' = [seen EXCEPT ![g] = {}]
    BY <1>3 DEF Save, Finish
  <2> QED
    BY <1>1, <1>2, <2>1
<1>4. ASSUME NEW g \in Handlers, NEW from \in seen[g], NEW answer \in {"other", "gone"},
             Delivered(g, from, answer)
      PROVE  \E a \in {"other", "gone"} : Delivered(h, to, a)
  <2>1. seen' = [seen EXCEPT ![g] = @ \ {from}]
    BY <1>4 DEF Delivered
  <2>2. g = h
    BY <1>1, <1>2, <2>1
  <2>3. from = to
    BY <1>2, <1>4, <2>1, <2>2
  <2> QED
    BY <1>4, <2>2, <2>3
<1>5. ASSUME NEW u \in Users, NEW e \in Endpoints, Unsubscribe(u, e)
      PROVE  FALSE
  BY <1>1, <1>5 DEF Unsubscribe
<1> QED
  BY <1>3, <1>4, <1>5 DEF Next, vars, LockUser, Lookup, Notify, ReadDevices, AllSettled,
     Fail, Listen

LEMMA DeliveryHolds == PushInv /\ [Next]_vars => [TakenOverKept]_vars
<1> SUFFICES ASSUME PushInv, [Next]_vars, NEW h \in Handlers, NEW to \in seen[h],
                    pc[h] = "delivering", seen'[h] = seen[h] \ {to},
                    NEW i \in Stored, devices'[i].user = None
             PROVE  i = to.id /\ devices[i].user = to.row.user
  BY DEF TakenOverKept, DeletesOnlyAddressed
<1>1. i \in DOMAIN devices /\ devices[i].user # None
  BY DEF Stored
<1>2. PICK answer \in {"other", "gone"} : Delivered(h, to, answer)
  BY <1>1, DeliveryStep DEF PushInv
<1>3. devices' = Gone({to.id} \cap Of(to.row.user))
  BY <1>1, <1>2 DEF Delivered
<1>4. i \in {to.id} \cap Of(to.row.user)
  BY <1>1, <1>3 DEF Gone
<1> QED
  BY <1>4 DEF Of

\* However late the push service answers, a delivery deletes no device but the one
\* it was for, and not that one once it belongs to another account
\* (PushService.notifyParty).
THEOREM TakenOverDevicesKept == PushBounds /\ Spec => [][TakenOverKept]_vars
BY DeliveryHolds, Subscribed, PTL DEF Spec
=============================================================================
