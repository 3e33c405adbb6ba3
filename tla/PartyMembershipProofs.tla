----------------------- MODULE PartyMembershipProofs -----------------------
(***************************************************************************)
(* What holds of PartyMembership for any users, requests and bounds: types *)
(* and the places a request goes through first; from them that currentCount *)
(* is never an invented number, and that duplicates and revived rows need   *)
(* two requests about the same user to overlap.                             *)
(***************************************************************************)
EXTENDS PartyMembership, FiniteSetTheorems, TLAPS

Row == [user : Users, status : MemberStatus]

\* A table of rows whose ids have been allocated.
IsTable(t, limit) ==
    /\ DOMAIN t \subseteq 1 .. limit
    /\ t \in [DOMAIN t -> Row]

\* Where a request of each kind can be.
JoinPlaces == {"joining", "lookingUp", "inserting"}
SyncPlaces == {"counting", "storing"}
UpdatePlaces == {"finding", "loading", "updating", "reinserting", "announcing"} \cup SyncPlaces
RemovePlaces == {"finding", "leaving", "deleting"} \cup SyncPlaces
PartyPlaces == {"reading", "comparing", "writing"}

Seen == [id : 0..MaxRows, was : MemberStatus \cup {"none"},
         count : Nat, dirty : SUBSET {"status", "count"}]

\* Handler h is idle, or serves a request at one of the places of its kind.
Serving(h) ==
    \/ pc[h] = "idle" /\ op[h] = NoRequest
    \/ /\ op[h] \in Requests
       /\ \/ op[h].kind = "join" /\ pc[h] \in JoinPlaces
          \/ op[h].kind = "updateStatus" /\ pc[h] \in UpdatePlaces
          \/ op[h].kind = "remove" /\ pc[h] \in RemovePlaces
          \/ op[h].kind = "party" /\ pc[h] \in PartyPlaces

Control ==
    /\ pc \in [Handlers -> Places]
    /\ op \in [Handlers -> Requests \cup {NoRequest}]
    /\ \A h \in Handlers : Serving(h)
    /\ mixed \subseteq Users
    /\ disturbed \in BOOLEAN

\* What is read is typed, and a save is about a row that existed.
Reads ==
    /\ seen \in [Handlers -> Seen]
    /\ \A h \in Handlers :
         /\ seen[h].id < nextId
         /\ pc[h] \in {"loading", "updating", "reinserting"} => seen[h].id # 0

\* The rows have ids that were allocated.
Data ==
    /\ nextId \in 1 .. MaxRows + 1
    /\ IsTable(members, nextId - 1)
    /\ party \in [status : PartyStatus, count : Nat]
    /\ due \subseteq Users
    /\ extra \subseteq Users
    /\ past \subseteq Nat
    /\ notice \in [Users -> {"in", "out", "open"}]

Typed == Control /\ Reads /\ Data
-----------------------------------------------------------------------------
\* A table of this kind is one of the values TypeOK allows.
LEMMA TableType ==
    ASSUME NEW limit \in 0..MaxRows, NEW t, IsTable(t, limit)
    PROVE  t \in UNION {[S -> [user : Users, status : MemberStatus]] :
                        S \in SUBSET (1..MaxRows)}
<1>1. DOMAIN t \subseteq 1..MaxRows
  BY MembershipBounds DEF IsTable
<1> QED
  BY <1>1 DEF IsTable, Row

\* What is counted in a table is a natural number.
LEMMA CountType ==
    ASSUME NEW limit \in Nat, NEW t, IsTable(t, limit), NEW S, S \subseteq DOMAIN t
    PROVE  Cardinality(S) \in Nat
<1>1. IsFiniteSet(1..limit)
  BY FS_Interval
<1>2. IsFiniteSet(S)
  BY <1>1, FS_Subset DEF IsTable
<1> QED
  BY <1>2, FS_CardinalityType

\* What the notices become.
LEMMA NoticeType ==
    ASSUME notice \in [Users -> {"in", "out", "open"}]
    PROVE  /\ \A U : LeaveOpen(U) => notice' \in [Users -> {"in", "out", "open"}]
           /\ \A u : Say(u, "in") \/ Say(u, "out") =>
                notice' \in [Users -> {"in", "out", "open"}]
<1>1. ASSUME NEW U, LeaveOpen(U)
      PROVE  notice' \in [Users -> {"in", "out", "open"}]
  BY <1>1 DEF LeaveOpen
<1>2. ASSUME NEW u, Say(u, "in") \/ Say(u, "out")
      PROVE  notice' \in [Users -> {"in", "out", "open"}]
  BY <1>2 DEF Say
<1> QED
  BY <1>1, <1>2

\* The data stay typed when the rows become t.
LEMMA ChangeType ==
    ASSUME Data, NEW limit \in 0..MaxRows, nextId' = limit + 1,
           NEW t, IsTable(t, limit), Change(t), UNCHANGED <<party, extra>>
    PROVE  Data'
<1>1. limit \in Nat /\ nextId' - 1 = limit /\ nextId' \in 1 .. MaxRows + 1
  BY MembershipBounds
<1>2. 1 + Cardinality(ApprovedIn(t)) \in Nat
  <2>1. ApprovedIn(t) \subseteq DOMAIN t
    BY DEF ApprovedIn
  <2>2. Cardinality(ApprovedIn(t)) \in Nat
    BY <1>1, <2>1, CountType
  <2> QED
    BY <2>2
<1>3. \A i \in ApprovedIn(t) : t[i] \in Row
  BY DEF ApprovedIn, IsTable
<1>4. due' \subseteq Users
  BY <1>3 DEF Change, Data, Row
<1>5. past' \subseteq Nat
  BY <1>2 DEF Change, Data
<1>6. IsTable(members, nextId - 1)'
  BY <1>1 DEF Change, IsTable
<1>7. notice' \in [Users -> {"in", "out", "open"}]
  BY NoticeType DEF Change, Data
<1> QED
  BY <1>1, <1>4, <1>5, <1>6, <1>7 DEF Data

\* The tables the INSERTs leave.
LEMMA NewRowType ==
    ASSUME NEW limit \in Nat, IsTable(members, limit), NEW bound \in Nat, limit <= bound,
           NEW id \in 1..bound, NEW u \in Users, NEW s \in MemberStatus
    PROVE  IsTable(NewRow(id, u, s), bound)
<1>1. DOMAIN NewRow(id, u, s) = DOMAIN members \cup {id}
  BY DEF NewRow
<1>2. DOMAIN NewRow(id, u, s) \subseteq 1..bound
  BY <1>1 DEF IsTable
<1>3. \A i \in DOMAIN members \cup {id} : NewRow(id, u, s)[i] \in Row
  BY DEF NewRow, IsTable, Row
<1>4. NewRow(id, u, s) = [i \in DOMAIN NewRow(id, u, s) |-> NewRow(id, u, s)[i]]
  BY DEF NewRow
<1> QED
  BY <1>1, <1>2, <1>3, <1>4 DEF IsTable

\* The rows and counters are not touched.
LEMMA SameData ==
    ASSUME Data, UNCHANGED <<members, nextId, party, extra, history>>
    PROVE  Data'
BY DEF Data, history, IsTable

\* At most a notice is posted.
LEMMA NoticeData ==
    ASSUME Data, UNCHANGED <<members, nextId, party, extra, due, past>>,
           \/ \E U : LeaveOpen(U)
           \/ \E u : Say(u, "in") \/ Say(u, "out")
    PROVE  Data'
<1>1. notice' \in [Users -> {"in", "out", "open"}]
  BY NoticeType DEF Data
<1> QED
  BY <1>1 DEF Data, IsTable

\* A request that ends leaves the others as they are.
LEMMA FinishTyped ==
    ASSUME Control, Reads, NEW h \in Handlers, nextId \in 1 .. MaxRows + 1,
           nextId' \in nextId .. MaxRows + 1,
           pc' = [pc EXCEPT ![h] = "idle"], op' = [op EXCEPT ![h] = NoRequest],
           seen' = [seen EXCEPT ![h] = Nothing],
           mixed' \subseteq Users, disturbed' \in BOOLEAN
    PROVE  Control' /\ Reads'
<1>1. Nothing \in Seen
  BY MembershipBounds DEF Nothing, Seen
<1>2. pc' \in [Handlers -> Places] /\ op' \in [Handlers -> Requests \cup {NoRequest}]
  BY DEF Control, Places
<1>3. seen' \in [Handlers -> Seen]
  BY <1>1 DEF Reads
<1>4. \A g \in Handlers : Serving(g)'
  BY DEF Control, Serving
<1>5. Reads'
  <2>1. ASSUME NEW g \in Handlers
        PROVE  /\ seen'[g].id < nextId'
               /\ pc'[g] \in {"loading", "updating", "reinserting"} => seen'[g].id # 0
    <3>1. CASE g = h
      BY <3>1 DEF Reads, Control, Nothing
    <3>2. CASE g # h
      BY <3>2 DEF Reads, Control, Seen
    <3> QED
      BY <3>1, <3>2
  <2> QED
    BY <1>3, <2>1 DEF Reads
<1> QED
  BY <1>2, <1>4, <1>5 DEF Control

\* A request goes on to a place of its kind.
LEMMA GotoTyped ==
    ASSUME Control, NEW h \in Handlers, NEW place \in Places, Goto(h, place),
           op[h] \in Requests,
           \/ op[h].kind = "join" /\ place \in JoinPlaces
           \/ op[h].kind = "updateStatus" /\ place \in UpdatePlaces
           \/ op[h].kind = "remove" /\ place \in RemovePlaces
           \/ op[h].kind = "party" /\ place \in PartyPlaces
    PROVE  Control' /\ pc' = [pc EXCEPT ![h] = place]
BY DEF Control, Serving, Goto

\* ... forgetting what it has read, and not to a save.
LEMMA ForgetReads ==
    ASSUME Reads, pc \in [Handlers -> Places], nextId \in 1 .. MaxRows + 1,
           NEW h \in Handlers, NEW place, pc' = [pc EXCEPT ![h] = place],
           nextId' = nextId, Forget(h),
           place \notin {"loading", "updating", "reinserting"}
    PROVE  Reads'
<1>1. Nothing \in Seen /\ Nothing.id = 0 /\ 0 < nextId
  BY MembershipBounds DEF Nothing, Seen
<1> QED
  BY <1>1 DEF Reads, Forget

\* ... without reading anything.
LEMMA GotoReads ==
    ASSUME Reads, pc \in [Handlers -> Places], nextId \in Nat,
           NEW h \in Handlers, NEW place, pc' = [pc EXCEPT ![h] = place],
           UNCHANGED <<nextId, seen>>,
           place \in {"loading", "updating", "reinserting"} => seen[h].id # 0
    PROVE  Reads'
BY DEF Reads, Seen
-----------------------------------------------------------------------------
LEMMA TypedInit == Init => Typed
<1> SUFFICES ASSUME Init PROVE Typed
  OBVIOUS
<1>1. Nothing \in Seen
  BY MembershipBounds DEF Nothing, Seen
<1>2. Control
  BY DEF Init, Control, Serving, Places
<1>3. Reads
  BY <1>1 DEF Init, Reads, Nothing
<1>4. DOMAIN members = {}
  BY DEF Init
<1>5. IsTable(members, nextId - 1)
  BY <1>4 DEF Init, IsTable
<1>6. Data
  BY <1>5, MembershipBounds DEF Init, Data, PartyStatus
<1> QED
  BY <1>2, <1>3, <1>6 DEF Typed

\* A request enters at the first place of its kind.
LEMMA StartOfKind ==
    ASSUME NEW r \in Requests
    PROVE  /\ \/ r.kind = "join" /\ Starts[r.kind] = "joining"
              \/ r.kind = "updateStatus" /\ Starts[r.kind] = "finding"
              \/ r.kind = "remove" /\ Starts[r.kind] = "finding"
              \/ r.kind = "party" /\ Starts[r.kind] = "reading"
<1>1. r.kind \in {"join", "updateStatus", "remove", "party"}
  BY DEF Requests
<1>2. /\ Starts["join"] = "joining" /\ Starts["updateStatus"] = "finding"
      /\ Starts["remove"] = "finding" /\ Starts["party"] = "reading"
  BY DEF Starts
<1> QED
  BY <1>1, <1>2

LEMMA TypedReceive ==
    ASSUME Typed, NEW h \in Handlers, Receive(h) PROVE Typed'
<1>1. PICK r \in Requests : /\ pc' = [pc EXCEPT ![h] = Starts[r.kind]]
                            /\ op' = [op EXCEPT ![h] = r]
                            /\ mixed' = IF \E g \in Running : op[g].user = r.user
                                        THEN mixed \cup ({r.user} \cap Users) ELSE mixed
  BY DEF Receive
<1> DEFINE start == Starts[r.kind]
<1>2. \/ r.kind = "join" /\ start = "joining"
      \/ r.kind = "updateStatus" /\ start = "finding"
      \/ r.kind = "remove" /\ start = "finding"
      \/ r.kind = "party" /\ start = "reading"
  BY StartOfKind
<1> HIDE DEF start
<1>3. start \in Places /\ start \notin {"loading", "updating", "reinserting"}
  BY <1>2 DEF Places
<1>4. pc' = [pc EXCEPT ![h] = start]
  BY <1>1 DEF start
<1>5. Control'
  <2>1. \A g \in Handlers : Serving(g)'
    BY <1>1, <1>2, <1>4 DEF Typed, Control, Serving, JoinPlaces, UpdatePlaces,
         RemovePlaces, PartyPlaces
  <2>2. mixed' \subseteq Users /\ disturbed' \in BOOLEAN
    BY <1>1 DEF Typed, Control, Receive
  <2> QED
    BY <1>1, <1>3, <1>4, <2>1, <2>2 DEF Typed, Control
<1>6. Reads'
  BY <1>3, <1>4 DEF Typed, Reads, Control, Receive
<1>7. Data'
  BY NoticeData DEF Typed, Receive
<1> QED
  BY <1>5, <1>6, <1>7 DEF Typed

\* After its save a request ends or goes on to count.
LEMMA SavedTyped ==
    ASSUME Control, Reads, NEW h \in Handlers, Saved(h), nextId' = nextId,
           nextId \in 1 .. MaxRows + 1,
           op[h] \in Requests, op[h].kind = "updateStatus"
    PROVE  Control' /\ Reads'
<1>1. nextId \in Nat /\ nextId' \in nextId .. MaxRows + 1
  BY MembershipBounds
<1>2. CASE Finish(h)
  <2>1. mixed' \subseteq Users /\ disturbed' \in BOOLEAN
    BY <1>2 DEF Control, Finish
  <2> QED
    BY <1>1, <1>2, <2>1, FinishTyped DEF Finish
<1>3. CASE Goto(h, "counting") /\ Forget(h)
  <2>1. Control' /\ pc' = [pc EXCEPT ![h] = "counting"]
    BY <1>3, GotoTyped DEF Places, UpdatePlaces, SyncPlaces
  <2> QED
    BY <1>1, <1>3, <2>1, ForgetReads DEF Control
<1> QED
  BY <1>2, <1>3 DEF Saved

\* The steps that end the request or go on, having read at most the rows.
LEMMA TypedQuiet ==
    ASSUME Typed, NEW h \in Handlers,
           \/ CheckRecruiting(h) \/ LookUp(h) \/ LoadMember(h) \/ PostLeave(h)
           \/ Die(h)
    PROVE  Typed'
<1>0. /\ UNCHANGED <<members, nextId, party, extra, due, past>>
      /\ \/ UNCHANGED history
         \/ \E U : LeaveOpen(U)
         \/ Say(op[h].user, "out")
  BY DEF CheckRecruiting, LookUp, LoadMember, PostLeave, Die, history
<1>1. Data' /\ nextId \in 1 .. MaxRows + 1 /\ nextId' = nextId
  BY <1>0, SameData, NoticeData DEF Typed, Data
<1>2. ASSUME Finish(h) \/ Die(h) PROVE Control' /\ Reads'
  <2>1. mixed' \subseteq Users /\ disturbed' \in BOOLEAN
    BY <1>2 DEF Typed, Control, Finish, Die
  <2> QED
    BY <1>1, <1>2, <2>1, FinishTyped, MembershipBounds DEF Typed, Finish, Die
<1>3. ASSUME NEW place \in Places, Goto(h, place), UNCHANGED seen,
             place \in {"updating", "reinserting"} => pc[h] = "loading",
             place \in {"lookingUp", "inserting", "deleting", "updating", "reinserting"},
             place = "lookingUp" => pc[h] = "joining",
             place = "inserting" => pc[h] = "lookingUp",
             place = "deleting" => pc[h] = "leaving"
      PROVE  Control' /\ Reads'
  <2>1. Serving(h)
    BY DEF Typed, Control
  <2>2. /\ op[h] \in Requests
        /\ \/ op[h].kind = "join" /\ place \in JoinPlaces
           \/ op[h].kind = "updateStatus" /\ place \in UpdatePlaces
           \/ op[h].kind = "remove" /\ place \in RemovePlaces
           \/ op[h].kind = "party" /\ place \in PartyPlaces
    BY <1>3, <2>1 DEF Serving, JoinPlaces, UpdatePlaces, RemovePlaces, PartyPlaces,
         SyncPlaces
  <2>3. Control' /\ pc' = [pc EXCEPT ![h] = place]
    BY <1>3, <2>2, GotoTyped DEF Typed
  <2>4. place \in {"loading", "updating", "reinserting"} => seen[h].id # 0
    BY <1>3 DEF Typed, Reads
  <2>5. nextId \in Nat /\ nextId' = nextId
    BY <1>1, MembershipBounds
  <2>6. Reads'
    BY <1>3, <2>3, <2>4, <2>5, GotoReads DEF Typed, Control
  <2> QED
    BY <2>3, <2>6
<1>4. Control' /\ Reads'
  <2>1. CASE Die(h)
    BY <1>2, <2>1
  <2>2. CASE CheckRecruiting(h)
    BY <1>2, <1>3, <2>2 DEF CheckRecruiting, Places
  <2>3. CASE LookUp(h)
    BY <1>2, <1>3, <2>3 DEF LookUp, Places
  <2>4. CASE LoadMember(h)
    <3>1. op[h] \in Requests /\ op[h].kind = "updateStatus"
      BY <2>4 DEF LoadMember, Typed, Control, Serving, JoinPlaces, RemovePlaces, PartyPlaces,
         SyncPlaces
    <3>2. CASE Saved(h)
      BY <1>1, <3>1, <3>2, SavedTyped DEF Typed
    <3> QED
      BY <1>3, <2>4, <3>2 DEF LoadMember, Places
  <2>5. CASE PostLeave(h)
    BY <1>3, <2>5 DEF PostLeave, Places
  <2> QED
    BY <2>1, <2>2, <2>3, <2>4, <2>5
<1> QED
  BY <1>1, <1>4 DEF Typed

\* What a request reads into seen.
LEMMA TypedReading ==
    ASSUME Typed, NEW h \in Handlers,
           FindMember(h) \/ CountApproved(h) \/ ReadParty(h) \/ CompareParty(h)
    PROVE  Typed'
<1>0. UNCHANGED <<members, nextId, party, extra, history>>
  BY DEF FindMember, CountApproved, ReadParty, CompareParty, history
<1>1. Data' /\ nextId \in 1 .. MaxRows + 1 /\ nextId' = nextId
  BY <1>0, SameData DEF Typed, Data
<1>2. ASSUME Finish(h) PROVE Typed'
  <2>1. nextId' \in nextId .. MaxRows + 1 /\ mixed' \subseteq Users /\ disturbed' \in BOOLEAN
    BY <1>1, <1>2, MembershipBounds DEF Typed, Control, Finish
  <2>2. Control' /\ Reads'
    BY <1>1, <1>2, <2>1, FinishTyped DEF Typed, Finish
  <2> QED
    BY <1>1, <2>2 DEF Typed
<1>3. Serving(h)
  BY DEF Typed, Control
<1>4. ASSUME NEW place \in Places, Goto(h, place), NEW s \in Seen, s.id < nextId,
             seen' = [seen EXCEPT ![h] = s],
             place \in {"loading", "updating", "reinserting"} => s.id # 0,
             op[h] \in Requests,
             \/ op[h].kind = "updateStatus" /\ place \in UpdatePlaces
             \/ op[h].kind = "remove" /\ place \in RemovePlaces
             \/ op[h].kind = "party" /\ place \in PartyPlaces
      PROVE  Typed'
  <2>1. Control' /\ pc' = [pc EXCEPT ![h] = place]
    BY <1>4, GotoTyped DEF Typed
  <2>2. Reads'
    BY <1>1, <1>4, <2>1 DEF Typed, Reads, Control
  <2> QED
    BY <1>1, <2>1, <2>2 DEF Typed
<1>5. CASE FindMember(h)
  <2>1. op[h] \in Requests /\ op[h].kind \in {"updateStatus", "remove"}
    BY <1>3, <1>5 DEF FindMember, Serving, JoinPlaces, PartyPlaces
  <2>2. ASSUME RowsOf(op[h].user) = {}, op[h].kind = "remove", Goto(h, "deleting"),
               UNCHANGED seen
        PROVE  Typed'
    <3>1. seen[h] \in Seen /\ seen[h].id < nextId /\ seen' = [seen EXCEPT ![h] = seen[h]]
      BY <2>2 DEF Typed, Reads
    <3> QED
      BY <1>4, <2>1, <2>2, <3>1 DEF Places, RemovePlaces
  <2>3. ASSUME NEW i \in RowsOf(op[h].user),
               seen' = [seen EXCEPT ![h].id = i, ![h].was = members[i].status],
               Goto(h, IF op[h].kind = "updateStatus" THEN "loading"
                       ELSE IF members[i].status = "APPROVED" THEN "leaving"
                       ELSE "deleting")
        PROVE  Typed'
    <3> DEFINE s == [seen[h] EXCEPT !.id = i, !.was = members[i].status]
    <3>1. /\ i \in 1..MaxRows /\ i < nextId /\ i # 0 /\ members[i].status \in MemberStatus
      BY <1>1, MembershipBounds DEF Typed, Data, IsTable, RowsOf, Row
    <3>2. s \in Seen /\ s.id = i
      <4>1. seen[h] \in Seen /\ i \in 0..MaxRows
        BY <3>1, MembershipBounds DEF Typed, Reads
      <4> QED
        BY <3>1, <4>1 DEF Seen
    <3>3. seen' = [seen EXCEPT ![h] = s]
      BY <2>3 DEF Typed, Reads
    <3> HIDE DEF s
    <3> QED
      BY <1>4, <2>1, <2>3, <3>1, <3>2, <3>3 DEF Places, RemovePlaces, UpdatePlaces
  <2> QED
    BY <1>2, <1>5, <2>1, <2>2, <2>3 DEF FindMember
<1>6. CASE CountApproved(h)
  <2> DEFINE s == [seen[h] EXCEPT !.count = TrueCount]
  <2>1. TrueCount \in Nat
    <3>1. ApprovedIn(members) \subseteq DOMAIN members /\ nextId - 1 \in Nat
      BY <1>1, MembershipBounds DEF ApprovedIn
    <3>2. Cardinality(ApprovedIn(members)) \in Nat
      BY <3>1, CountType DEF Typed, Data
    <3> QED
      BY <3>2 DEF TrueCount
  <2>2. s \in Seen /\ s.id < nextId
    BY <2>1 DEF Typed, Reads, Seen
  <2>3. seen' = [seen EXCEPT ![h] = s]
    BY <1>6 DEF CountApproved, Typed, Reads
  <2> HIDE DEF s
  <2>4. /\ op[h] \in Requests
        /\ op[h].kind = "updateStatus" \/ op[h].kind = "remove"
    BY <1>3, <1>6 DEF CountApproved, Serving, JoinPlaces, PartyPlaces
  <2> QED
    BY <1>4, <1>6, <2>2, <2>3, <2>4 DEF CountApproved, Places, RemovePlaces,
       UpdatePlaces, SyncPlaces
<1>7. CASE ReadParty(h)
  <2> DEFINE s == [seen[h] EXCEPT !.count = party.count]
  <2>1. s \in Seen /\ s.id < nextId
    BY DEF Typed, Reads, Seen, Data
  <2>2. seen' = [seen EXCEPT ![h] = s]
    BY <1>7 DEF ReadParty, Typed, Reads
  <2> HIDE DEF s
  <2>3. op[h] \in Requests /\ op[h].kind = "party"
    BY <1>3, <1>7 DEF ReadParty, Serving, JoinPlaces, UpdatePlaces, RemovePlaces, SyncPlaces
  <2> QED
    BY <1>4, <1>7, <2>1, <2>2, <2>3 DEF ReadParty, Places, PartyPlaces
<1>8. CASE CompareParty(h)
  <2> DEFINE dirty == {c \in {"status"} : party.status # op[h].status}
                        \cup {c \in {"count"} : party.count # seen[h].count}
             s == [seen[h] EXCEPT !.dirty = dirty]
  <2>1. s \in Seen /\ s.id < nextId
    BY DEF Typed, Reads, Seen
  <2>2. seen' = [seen EXCEPT ![h].dirty = dirty] => seen' = [seen EXCEPT ![h] = s]
    BY DEF Typed, Reads
  <2>3. op[h] \in Requests /\ op[h].kind = "party"
    BY <1>3, <1>8 DEF CompareParty, Serving, JoinPlaces, UpdatePlaces, RemovePlaces,
       SyncPlaces
  <2>4. Finish(h) \/ (seen' = [seen EXCEPT ![h].dirty = dirty] /\ Goto(h, "writing"))
    BY <1>8 DEF CompareParty
  <2> HIDE DEF s, dirty
  <2> QED
    BY <1>2, <1>4, <2>1, <2>2, <2>3, <2>4 DEF Places, PartyPlaces
<1> QED
  BY <1>5, <1>6, <1>7, <1>8

\* The steps that write the party or post a message.
LEMMA TypedParty ==
    ASSUME Typed, NEW h \in Handlers,
           StoreCount(h) \/ WriteParty(h) \/ PostJoin(h)
    PROVE  Typed'
<1>1. UNCHANGED <<members, nextId>>
  BY DEF StoreCount, WriteParty, PostJoin
<1>2. Serving(h) /\ seen[h] \in Seen
  BY DEF Typed, Control, Reads
<1>3. nextId \in Nat /\ nextId \in 1 .. MaxRows + 1 /\ nextId' \in nextId .. MaxRows + 1
  BY <1>1, MembershipBounds DEF Typed, Data
<1>4. Data'
  <2>1. StoreCount(h) => party' \in [status : PartyStatus, count : Nat] /\ extra' = extra
    BY <1>2 DEF StoreCount, Typed, Data, Seen
  <2>2. WriteParty(h) => party' \in [status : PartyStatus, count : Nat] /\ extra' = extra
    <3>1. WriteParty(h) => op[h].status \in PartyStatus
      BY <1>2, MembershipBounds DEF WriteParty, Serving, Requests, JoinPlaces, UpdatePlaces, RemovePlaces,
           SyncPlaces
    <3> QED
      BY <1>2, <3>1 DEF WriteParty, Typed, Data, Seen
  <2>3. PostJoin(h) => /\ extra' \subseteq Users /\ due' \subseteq Users
                       /\ party' = party /\ past' = past
                       /\ notice' \in [Users -> {"in", "out", "open"}]
    <3>1. PostJoin(h) => op[h].user \in Users
      BY <1>2 DEF PostJoin, Serving, Requests, JoinPlaces, RemovePlaces, PartyPlaces,
         SyncPlaces
    <3> QED
      BY <3>1, NoticeType DEF PostJoin, Typed, Data
  <2>4. ~PostJoin(h) => due' = due /\ past' = past /\ notice' = notice
    BY DEF StoreCount, WriteParty, history
  <2>5. IsTable(members, nextId - 1)'
    BY <1>1 DEF Typed, Data, IsTable
  <2> QED
    BY <1>1, <2>1, <2>2, <2>3, <2>4, <2>5 DEF Typed, Data
<1>5. ASSUME Finish(h) PROVE Control' /\ Reads'
  <2>1. mixed' \subseteq Users /\ disturbed' \in BOOLEAN
    BY <1>5 DEF Typed, Control, Finish
  <2> QED
    BY <1>3, <1>5, <2>1, FinishTyped DEF Typed, Finish
<1>6. ASSUME StoreCount(h), op[h].status = "APPROVED", Goto(h, "announcing"), Forget(h)
      PROVE  Control' /\ Reads'
  <2>1. op[h] \in Requests /\ op[h].kind = "updateStatus"
    BY <1>2, <1>6 DEF StoreCount, Serving, Requests, JoinPlaces, PartyPlaces, PartyStatus
  <2>2. Control' /\ pc' = [pc EXCEPT ![h] = "announcing"]
    BY <1>6, <2>1, GotoTyped DEF Typed, Places, UpdatePlaces
  <2> QED
    BY <1>1, <1>3, <1>6, <2>2, ForgetReads DEF Typed, Control
<1> QED
  BY <1>4, <1>5, <1>6 DEF Typed, StoreCount, WriteParty, PostJoin

\* The steps that change the rows.
LEMMA TypedInsert ==
    ASSUME Typed, NEW h \in Handlers, Insert(h) PROVE Typed'
<1> DEFINE t == NewRow(nextId, op[h].user, "PENDING")
<1>1. op[h].user \in Users /\ "PENDING" \in MemberStatus
  BY DEF Typed, Control, Serving, Insert, Requests, UpdatePlaces, RemovePlaces, PartyPlaces,
     SyncPlaces, MemberStatus
<1>2. /\ nextId \in 0..MaxRows /\ nextId \in 1..nextId /\ nextId - 1 \in Nat
      /\ nextId - 1 <= nextId /\ nextId \in 1 .. MaxRows + 1 /\ nextId \in Nat
      /\ nextId + 1 \in nextId .. MaxRows + 1
  BY MembershipBounds DEF Typed, Data, Insert
<1>3. IsTable(members, nextId - 1)
  BY DEF Typed, Data
<1>4. IsTable(t, nextId)
  BY <1>1, <1>2, <1>3, NewRowType
<1>5. Change(t) /\ nextId' = nextId + 1 /\ Finish(h) /\ UNCHANGED <<party, extra>>
  BY DEF Insert
<1> HIDE DEF t
<1>6. Data'
  BY <1>2, <1>4, <1>5, ChangeType DEF Typed
<1>7. mixed' \subseteq Users /\ disturbed' \in BOOLEAN
  BY <1>5 DEF Typed, Control, Finish
<1>8. Control' /\ Reads'
  BY <1>2, <1>5, <1>7, FinishTyped DEF Typed, Finish
<1> QED
  BY <1>6, <1>8 DEF Typed

LEMMA TypedSave ==
    ASSUME Typed, NEW h \in Handlers, UpdateMember(h) \/ Reinsert(h) PROVE Typed'
<1>1. /\ op[h] \in Requests /\ op[h].kind = "updateStatus"
      /\ op[h].user \in Users /\ op[h].status \in MemberStatus
  BY DEF Typed, Control, Serving, UpdateMember, Reinsert, Requests, JoinPlaces,
     RemovePlaces, PartyPlaces, SyncPlaces, MemberStatus
<1>2. /\ nextId \in 1 .. MaxRows + 1 /\ nextId - 1 \in 0..MaxRows /\ nextId - 1 \in Nat
      /\ nextId = (nextId - 1) + 1 /\ nextId' = nextId /\ UNCHANGED <<party, extra>>
      /\ nextId' \in nextId .. MaxRows + 1
  BY MembershipBounds DEF Typed, Data, UpdateMember, Reinsert
<1>3. IsTable(members, nextId - 1)
  BY DEF Typed, Data
<1>4. ASSUME NEW t, IsTable(t, nextId - 1), Change(t), Saved(h) PROVE Typed'
  <2>1. Data'
    BY <1>2, <1>4, ChangeType DEF Typed
  <2>2. Control' /\ Reads'
    BY <1>1, <1>2, <1>4, SavedTyped DEF Typed
  <2> QED
    BY <2>1, <2>2 DEF Typed
<1>5. CASE UpdateMember(h)
  <2> DEFINE t == IF seen[h].id \in DOMAIN members
                  THEN [members EXCEPT ![seen[h].id].status = op[h].status]
                  ELSE members
  <2>1. IsTable(t, nextId - 1)
    BY <1>1, <1>3 DEF IsTable, Row
  <2> QED
    BY <1>4, <1>5, <2>1 DEF UpdateMember
<1>6. CASE Reinsert(h) /\ seen[h].id \in DOMAIN members
  <2>1. Data'
    BY <1>2, <1>6, SameData DEF Typed, Reinsert
  <2>2. Finish(h) /\ mixed' \subseteq Users /\ disturbed' \in BOOLEAN
    BY <1>6 DEF Reinsert, Typed, Control, Finish
  <2>3. Control' /\ Reads'
    BY <1>2, <2>2, FinishTyped DEF Typed, Finish
  <2> QED
    BY <2>1, <2>3 DEF Typed
<1>7. CASE Reinsert(h) /\ seen[h].id \notin DOMAIN members
  <2> DEFINE t == NewRow(seen[h].id, op[h].user, op[h].status)
  <2>1. seen[h].id \in 1 .. nextId - 1
    <3>1. seen[h] \in Seen /\ seen[h].id < nextId /\ seen[h].id # 0
      BY <1>7 DEF Typed, Reads, Reinsert
    <3> QED
      BY <1>2, <3>1 DEF Seen
  <2>2. ASSUME NEW n \in Nat, IsTable(members, n), seen[h].id \in 1..n
        PROVE  IsTable(t, n)
    BY <1>1, <2>2, NewRowType
  <2>3. Change(t) /\ Saved(h)
    BY <1>7 DEF Reinsert
  <2> HIDE DEF t
  <2>4. IsTable(t, nextId - 1)
    BY <1>2, <1>3, <2>1, <2>2
  <2> QED
    BY <1>4, <2>3, <2>4
<1> QED
  BY <1>5, <1>6, <1>7

LEMMA TypedDelete ==
    ASSUME Typed, NEW h \in Handlers, Delete(h) PROVE Typed'
<1> DEFINE t == [i \in DOMAIN members \ RowsOf(op[h].user) |-> members[i]]
<1>1. /\ nextId \in 1 .. MaxRows + 1 /\ nextId - 1 \in 0..MaxRows /\ nextId \in Nat
      /\ nextId = (nextId - 1) + 1 /\ nextId' = nextId /\ UNCHANGED <<party, extra>>
      /\ nextId' \in nextId .. MaxRows + 1
  BY MembershipBounds DEF Typed, Data, Delete
<1>2. IsTable(t, nextId - 1)
  BY DEF Typed, Data, IsTable, Row
<1>3. Change(t)
  BY DEF Delete
<1> HIDE DEF t
<1>4. Data'
  BY <1>1, <1>2, <1>3, ChangeType DEF Typed
<1>5. CASE Finish(h)
  <2>1. mixed' \subseteq Users /\ disturbed' \in BOOLEAN
    BY <1>5 DEF Typed, Control, Finish
  <2>2. Control' /\ Reads'
    BY <1>1, <1>5, <2>1, FinishTyped DEF Typed, Finish
  <2> QED
    BY <1>4, <2>2 DEF Typed
<1>6. CASE Goto(h, "counting") /\ Forget(h)
  <2>1. op[h] \in Requests /\ op[h].kind = "remove"
    BY DEF Typed, Control, Serving, Delete, JoinPlaces, UpdatePlaces, PartyPlaces,
       SyncPlaces
  <2>2. Control' /\ pc' = [pc EXCEPT ![h] = "counting"]
    BY <1>6, <2>1, GotoTyped DEF Typed, Places, RemovePlaces, SyncPlaces
  <2>3. Reads'
    BY <1>1, <1>6, <2>2, ForgetReads DEF Typed, Control
  <2> QED
    BY <1>4, <2>2, <2>3 DEF Typed
<1> QED
  BY <1>5, <1>6 DEF Delete

LEMMA TypedStep == Typed /\ [Next]_vars => Typed'
<1> SUFFICES ASSUME Typed, [Next]_vars PROVE Typed'
  OBVIOUS
<1>1. CASE UNCHANGED vars
  BY <1>1 DEF vars, history, Typed, Control, Serving, Reads, Data, IsTable
<1>2. ASSUME NEW h \in Handlers, Receive(h) \/ Step(h) \/ Die(h) PROVE Typed'
  BY <1>2, TypedReceive, TypedQuiet, TypedReading, TypedParty, TypedInsert, TypedSave,
     TypedDelete DEF Step
<1> QED
  BY <1>1, <1>2 DEF Next

\* PartyMembership never leaves its types, whatever interleaves and fails.
THEOREM MembershipTypeCorrect == Spec => []TypeOK
<1>1. Typed => TypeOK
  <2> SUFFICES ASSUME Typed PROVE TypeOK
    OBVIOUS
  <2>1. nextId - 1 \in 0..MaxRows
    BY MembershipBounds DEF Typed, Data
  <2> QED
    BY <2>1, TableType DEF Typed, Control, Reads, Data, TypeOK, Seen
<1> QED
  BY <1>1, TypedInit, TypedStep, PTL DEF Spec
-----------------------------------------------------------------------------
(* currentCount: every number on its way to it was once the true count.    *)

PastInv ==
    /\ 1 \in past
    /\ TrueCount \in past
    /\ party.count \in past
    /\ \A h \in Handlers : seen[h].count \in past

LEMMA PastInit == Init => PastInv
<1> SUFFICES ASSUME Init PROVE PastInv
  OBVIOUS
<1>1. ApprovedIn(members) = {}
  BY DEF Init, ApprovedIn
<1>2. TrueCount = 1
  BY <1>1, FS_EmptySet DEF TrueCount
<1> QED
  BY <1>2 DEF Init, PastInv, Nothing

LEMMA PastStep == Typed /\ PastInv /\ [Next]_vars => PastInv'
<1> SUFFICES ASSUME Typed, PastInv, [Next]_vars PROVE PastInv'
  OBVIOUS
<1>1. CASE UNCHANGED vars
  BY <1>1 DEF vars, history, PastInv, TrueCount, ApprovedIn
<1>2. ASSUME NEW h \in Handlers, Receive(h) \/ Step(h) \/ Die(h) PROVE PastInv'
  <2>1. seen \in [Handlers -> Seen] /\ 1 \in past
    BY DEF Typed, Reads, PastInv
  <2>2. past \subseteq past' /\ TrueCount' \in past'
    <3>1. ASSUME NEW t, Change(t) PROVE past \subseteq past' /\ TrueCount' \in past'
      BY <3>1 DEF Change, TrueCount, ApprovedIn
    <3>2. CASE UNCHANGED <<members, past>>
      BY <3>2 DEF TrueCount, ApprovedIn, PastInv
    <3>3. UNCHANGED <<members, past>> \/ \E t : Change(t)
      BY <1>2 DEF Step, Receive, Die, CheckRecruiting, LookUp, Insert, FindMember, LoadMember,
         UpdateMember, Reinsert, PostLeave, Delete, CountApproved, StoreCount, PostJoin,
         ReadParty, CompareParty, WriteParty, history
    <3> QED
      BY <3>1, <3>2, <3>3
  <2>3. \/ UNCHANGED seen
        \/ seen' = [seen EXCEPT ![h] = Nothing]
        \/ \E i, s : seen' = [seen EXCEPT ![h].id = i, ![h].was = s]
        \/ \E c \in past : seen' = [seen EXCEPT ![h].count = c]
        \/ \E d : seen' = [seen EXCEPT ![h].dirty = d]
    BY <1>2 DEF PastInv, Step, Receive, Die, CheckRecruiting, LookUp, Insert, FindMember,
       LoadMember, UpdateMember, Reinsert, PostLeave, Delete, CountApproved, StoreCount,
       PostJoin, ReadParty, CompareParty, WriteParty, Saved, Goto, Finish, Forget
  <2>4. \A g \in Handlers : seen'[g].count \in past
    <3>1. \A g \in Handlers : seen[g] \in Seen /\ seen[g].count \in past
      BY <2>1 DEF PastInv
    <3>2. CASE UNCHANGED seen \/ seen' = [seen EXCEPT ![h] = Nothing]
      BY <2>1, <3>1, <3>2 DEF Nothing
    <3>3. ASSUME NEW i, NEW s, seen' = [seen EXCEPT ![h].id = i, ![h].was = s]
          PROVE  \A g \in Handlers : seen'[g].count \in past
      <4>1. \A g \in Handlers : seen'[g].count = seen[g].count
        BY <2>1, <3>3 DEF Seen
      <4> QED
        BY <3>1, <4>1
    <3>4. ASSUME NEW c \in past, seen' = [seen EXCEPT ![h].count = c]
          PROVE  \A g \in Handlers : seen'[g].count \in past
      BY <2>1, <3>1, <3>4 DEF Seen
    <3>5. ASSUME NEW d, seen' = [seen EXCEPT ![h].dirty = d]
          PROVE  \A g \in Handlers : seen'[g].count \in past
      <4>1. \A g \in Handlers : seen'[g].count = seen[g].count
        BY <2>1, <3>5 DEF Seen
      <4> QED
        BY <3>1, <4>1
    <3> QED
      BY <2>3, <3>2, <3>3, <3>4, <3>5
  <2>5. party'.count \in past
    <3>1. \/ UNCHANGED party \/ party' = [party EXCEPT !.count = seen[h].count]
          \/ party'.count \in {party.count, seen[h].count}
      BY <1>2 DEF Step, Receive, Die, CheckRecruiting, LookUp, Insert, FindMember, LoadMember,
         UpdateMember, Reinsert, PostLeave, Delete, CountApproved, StoreCount, PostJoin,
         ReadParty, CompareParty, WriteParty
    <3> QED
      BY <3>1 DEF PastInv, Typed, Data
  <2> QED
    BY <2>1, <2>2, <2>4, <2>5 DEF PastInv
<1> QED
  BY <1>1, <1>2 DEF Next

\* currentCount never is a number of participants the party did not have.
THEOREM CountNeverInvented == Spec => []CountIsAPastCount
<1>1. PastInv => CountIsAPastCount
  BY DEF PastInv, CountIsAPastCount
<1> QED
  BY <1>1, TypedInit, TypedStep, PastInit, PastStep, PTL DEF Spec
-----------------------------------------------------------------------------
(* Duplicate and revived rows need requests about the same user to overlap. *)

Saving == {"loading", "updating", "reinserting"}

\* An id belongs to one user for good, also while its row is deleted.
OwnerInv ==
    \A h \in Handlers : pc[h] \in Saving =>
        /\ seen[h].id \in DOMAIN members => members[seen[h].id].user = op[h].user
        /\ \A g \in Handlers : pc[g] \in Saving /\ seen[g].id = seen[h].id =>
             op[g].user = op[h].user

\* While no two requests about user u overlapped, what the only one has read
\* of u's rows is still so, and u has no second row.
SoloInv ==
    \A u \in Users \ mixed :
        /\ \A g, h \in Running : op[g].user = u /\ op[h].user = u => g = h
        /\ \A i, j \in RowsOf(u) : i = j
        /\ \A h \in Running : op[h].user = u =>
             /\ pc[h] = "inserting" => RowsOf(u) = {}
             /\ pc[h] \in {"loading", "updating"} => seen[h].id \in RowsOf(u)
             /\ pc[h] # "reinserting"

\* What each step does to the rows of a user.
LEMMA RowsStep ==
    ASSUME Typed, OwnerInv, NEW h \in Handlers, Receive(h) \/ Step(h) \/ Die(h), NEW u
    PROVE  \/ RowsOf(u)' = RowsOf(u)
           \/ Insert(h) /\ op[h].user = u /\ RowsOf(u)' = RowsOf(u) \cup {nextId}
                        /\ members'[nextId].status = "PENDING"
           \/ Reinsert(h) /\ op[h].user = u /\ RowsOf(u)' = RowsOf(u) \cup {seen[h].id}
           \/ Delete(h) /\ op[h].user = u /\ RowsOf(u)' = {}
<1>1. CASE UNCHANGED members
  BY <1>1 DEF RowsOf
<1>2. CASE Insert(h)
  <2>1. nextId \notin DOMAIN members
    BY MembershipBounds DEF Typed, Data, IsTable
  <2>2. members' = NewRow(nextId, op[h].user, "PENDING")
    BY <1>2 DEF Insert, Change
  <2> QED
    BY <1>2, <2>1, <2>2 DEF NewRow, RowsOf
<1>3. CASE UpdateMember(h)
  <2>1. members' = IF seen[h].id \in DOMAIN members
                   THEN [members EXCEPT ![seen[h].id].status = op[h].status] ELSE members
    BY <1>3 DEF UpdateMember, Change
  <2>2. \A i \in DOMAIN members : members[i] \in Row
    BY DEF Typed, Data, IsTable
  <2>3. DOMAIN members' = DOMAIN members
    BY <2>1
  <2>4. \A i \in DOMAIN members : members'[i].user = members[i].user
    BY <2>1, <2>2 DEF Row
  <2> QED
    BY <2>3, <2>4 DEF RowsOf
<1>4. CASE Reinsert(h) /\ seen[h].id \notin DOMAIN members
  <2>1. members' = NewRow(seen[h].id, op[h].user, op[h].status)
    BY <1>4 DEF Reinsert, Change
  <2> QED
    BY <1>4, <2>1 DEF NewRow, RowsOf
<1>5. CASE Delete(h)
  <2>1. members' = [i \in DOMAIN members \ RowsOf(op[h].user) |-> members[i]]
    BY <1>5 DEF Delete, Change
  <2> QED
    BY <1>5, <2>1 DEF RowsOf
<1>6. \/ UNCHANGED members \/ Insert(h) \/ UpdateMember(h)
      \/ Reinsert(h) /\ seen[h].id \notin DOMAIN members
      \/ Delete(h)
  BY DEF Step, Receive, Die, CheckRecruiting, LookUp, FindMember, LoadMember, PostLeave,
     CountApproved, StoreCount, PostJoin, ReadParty, CompareParty, WriteParty, Reinsert
<1> QED
  BY <1>1, <1>2, <1>3, <1>4, <1>5, <1>6

\* What each step does to the handlers.
LEMMA HandlerStep ==
    ASSUME Typed, NEW h \in Handlers, Receive(h) \/ Step(h) \/ Die(h)
    PROVE  /\ \A g \in Handlers \ {h} : pc'[g] = pc[g] /\ op'[g] = op[g] /\ seen'[g] = seen[g]
           /\ mixed \subseteq mixed'
           /\ \/ pc'[h] = "idle"
              \/ /\ Receive(h) /\ pc'[h] \in {"joining", "finding", "reading"}
                 /\ \A g \in Running : op[g].user = op'[h].user /\ op[g].user \in Users
                                       => op'[h].user \in mixed'
              \/ pc[h] # "idle" /\ op'[h] = op[h]
<1>1. /\ pc \in [Handlers -> Places] /\ op \in [Handlers -> Requests \cup {NoRequest}]
      /\ seen \in [Handlers -> Seen]
  BY DEF Typed, Control, Reads
<1>2. CASE Receive(h)
  <2>1. PICK r \in Requests : /\ pc' = [pc EXCEPT ![h] = Starts[r.kind]]
                              /\ op' = [op EXCEPT ![h] = r]
                              /\ mixed' = IF \E g \in Running : op[g].user = r.user
                                          THEN mixed \cup ({r.user} \cap Users) ELSE mixed
    BY <1>2 DEF Receive
  <2>2. UNCHANGED seen
    BY <1>2 DEF Receive
  <2>3. Starts[r.kind] \in {"joining", "finding", "reading"}
    BY StartOfKind
  <2> QED
    BY <1>1, <1>2, <2>1, <2>2, <2>3
<1>3. CASE Die(h)
  BY <1>1, <1>3 DEF Die
<1>4. CASE Step(h)
  <2>1. pc[h] # "idle" /\ (Finish(h) \/ \E place : Goto(h, place))
    BY <1>4 DEF Step, CheckRecruiting, LookUp, Insert, FindMember, LoadMember, UpdateMember,
       Reinsert, PostLeave, Delete, CountApproved, StoreCount, PostJoin, ReadParty,
       CompareParty, WriteParty, Saved
  <2>2. \A g \in Handlers \ {h} : seen'[g] = seen[g]
    BY <1>1, <1>4 DEF Step, CheckRecruiting, LookUp, Insert, FindMember, LoadMember,
       UpdateMember, Reinsert, PostLeave, Delete, CountApproved, StoreCount, PostJoin,
       ReadParty, CompareParty, WriteParty, Saved, Finish, Forget
  <2> QED
    BY <1>1, <2>1, <2>2 DEF Finish, Goto
<1> QED
  BY <1>2, <1>3, <1>4

LEMMA OwnerStep == Typed /\ OwnerInv /\ [Next]_vars => OwnerInv'
<1> SUFFICES ASSUME Typed, OwnerInv, [Next]_vars PROVE OwnerInv'
  OBVIOUS
<1>1. CASE UNCHANGED vars
  BY <1>1 DEF vars, OwnerInv
<1>2. ASSUME NEW h \in Handlers, Receive(h) \/ Step(h) \/ Die(h) PROVE OwnerInv'
  <2>0. /\ pc \in [Handlers -> Places] /\ seen \in [Handlers -> Seen]
        /\ \A g \in Handlers : seen[g].id < nextId
        /\ nextId \in Nat /\ DOMAIN members \subseteq 1 .. nextId - 1
    BY MembershipBounds DEF Typed, Control, Reads, Data, IsTable
  \* Who is in a save after the step was in it before, or has just found its row.
  <2>1. pc'[h] \in Saving =>
          /\ op'[h] = op[h]
          /\ \/ pc[h] \in Saving /\ seen'[h] = seen[h]
             \/ seen'[h].id \in RowsOf(op[h].user) /\ UNCHANGED members
    <3>1. CASE FindMember(h)
      <4> SUFFICES ASSUME pc'[h] \in Saving
                   PROVE  op'[h] = op[h] /\ seen'[h].id \in RowsOf(op[h].user)
                            /\ UNCHANGED members
        BY <3>1
      <4>1. PICK i \in RowsOf(op[h].user) :
              seen' = [seen EXCEPT ![h].id = i, ![h].was = members[i].status]
        BY <2>0, <3>1 DEF FindMember, Goto, Finish, Saving
      <4>2. UNCHANGED <<members, op>>
        BY <2>0, <3>1 DEF FindMember, Goto, Finish, Saving
      <4>3. seen'[h].id = i
        BY <2>0, <4>1 DEF Seen
      <4> QED
        BY <4>1, <4>2, <4>3
    <3>2. CASE LoadMember(h)
      BY <2>0, <3>2 DEF LoadMember, Saved, Goto, Finish, Saving
    <3>3. CASE Receive(h)
      BY <3>3, HandlerStep DEF Saving, Receive
    <3>4. CASE ~FindMember(h) /\ ~LoadMember(h) /\ ~Receive(h)
      <4>1. pc'[h] \notin Saving
        BY <1>2, <2>0, <3>4 DEF Step, Die, CheckRecruiting, LookUp, Insert, UpdateMember,
           Reinsert, PostLeave, Delete, CountApproved, StoreCount, PostJoin, ReadParty,
           CompareParty, WriteParty, Saved, Goto, Finish, Saving
      <4> QED
        BY <4>1
    <3> QED
      BY <3>1, <3>2, <3>3, <3>4
  <2>2. \A g \in Handlers \ {h} : pc'[g] = pc[g] /\ op'[g] = op[g] /\ seen'[g] = seen[g]
    BY <1>2, HandlerStep
  \* The owner of an id that is in a save, or has a row, stays.
  <2>3. ASSUME NEW i \in DOMAIN members', i < nextId
        PROVE  \/ i \in DOMAIN members /\ members'[i].user = members[i].user
               \/ pc[h] = "reinserting" /\ i = seen[h].id /\ members'[i].user = op[h].user
    <3>1. PICK v : members'[i].user = v
      OBVIOUS
    <3>2. i \in RowsOf(v)'
      BY <3>1 DEF RowsOf
    <3>3. \/ i \in RowsOf(v) \/ i = nextId
          \/ Reinsert(h) /\ op[h].user = v /\ i = seen[h].id
      BY <1>2, <3>2, RowsStep
    <3>4. i # nextId
      BY <2>0, <2>3
    <3> QED
      BY <3>1, <3>3, <3>4 DEF RowsOf, Reinsert
  <2>4. ASSUME NEW f \in Handlers, pc'[f] \in Saving
        PROVE  /\ op'[f] = op[f] /\ seen'[f].id < nextId
               /\ \/ pc[f] \in Saving /\ seen'[f] = seen[f]
                  \/ f = h /\ seen'[f].id \in RowsOf(op[f].user) /\ UNCHANGED members
    <3>1. CASE f = h
      BY <2>0, <2>1, <2>4, <3>1 DEF RowsOf
    <3>2. CASE f # h
      BY <2>0, <2>2, <2>4, <3>2
    <3> QED
      BY <3>1, <3>2
  <2>5. ASSUME NEW f \in Handlers, pc'[f] \in Saving, seen'[f].id \in DOMAIN members'
        PROVE  members'[seen'[f].id].user = op'[f].user
    <3>1. CASE f = h /\ seen'[f].id \in RowsOf(op[f].user) /\ UNCHANGED members
      BY <2>4, <2>5, <3>1 DEF RowsOf
    <3>2. CASE pc[f] \in Saving /\ seen'[f] = seen[f]
      BY <2>3, <2>4, <2>5, <3>2 DEF OwnerInv, Saving
    <3> QED
      BY <2>4, <2>5, <3>1, <3>2
  <2>6. ASSUME NEW f \in Handlers, NEW g \in Handlers, pc'[f] \in Saving, pc'[g] \in Saving,
               seen'[g].id = seen'[f].id
        PROVE  op'[g].user = op'[f].user
    BY <2>4, <2>6 DEF OwnerInv, RowsOf
  <2> QED
    BY <2>5, <2>6 DEF OwnerInv
<1> QED
  BY <1>1, <1>2 DEF Next

LEMMA SoloStep == Typed /\ OwnerInv /\ SoloInv /\ [Next]_vars => SoloInv'
<1> SUFFICES ASSUME Typed, OwnerInv, SoloInv, [Next]_vars PROVE SoloInv'
  OBVIOUS
<1>1. CASE UNCHANGED vars
  BY <1>1 DEF vars, SoloInv, RowsOf, Running
<1>2. ASSUME NEW h \in Handlers, Receive(h) \/ Step(h) \/ Die(h),
             NEW u \in Users \ mixed'
      PROVE  /\ \A f, g \in Running' : op'[f].user = u /\ op'[g].user = u => f = g
             /\ \A i, j \in RowsOf(u)' : i = j
             /\ \A g \in Running' : op'[g].user = u =>
                  /\ pc'[g] = "inserting" => RowsOf(u)' = {}
                  /\ pc'[g] \in {"loading", "updating"} => seen'[g].id \in RowsOf(u)'
                  /\ pc'[g] # "reinserting"
  <2>1. /\ \A g \in Handlers \ {h} : pc'[g] = pc[g] /\ op'[g] = op[g] /\ seen'[g] = seen[g]
        /\ u \notin mixed
        /\ \/ pc'[h] = "idle"
           \/ /\ Receive(h) /\ pc'[h] \in {"joining", "finding", "reading"}
              /\ \A g \in Running : op[g].user = op'[h].user /\ op[g].user \in Users
                                    => op'[h].user \in mixed'
           \/ pc[h] # "idle" /\ op'[h] = op[h]
    BY <1>2, HandlerStep
  <2>2. /\ pc \in [Handlers -> Places] /\ seen \in [Handlers -> Seen]
        /\ Running \subseteq Handlers /\ Running' \subseteq Handlers
    BY DEF Typed, Control, Reads, Running
  <2>3. \A f, g \in Running' : op'[f].user = u /\ op'[g].user = u => f = g
    BY <2>1, <2>2 DEF SoloInv, Running
  <2>4. \/ RowsOf(u)' = RowsOf(u)
        \/ Insert(h) /\ op[h].user = u /\ RowsOf(u)' = RowsOf(u) \cup {nextId}
        \/ Delete(h) /\ op[h].user = u /\ RowsOf(u)' = {}
    <3>1. ~(Reinsert(h) /\ op[h].user = u)
      BY <2>1 DEF SoloInv, Reinsert, Running
    <3> QED
      BY <1>2, <3>1, RowsStep
  <2>5. Insert(h) /\ op[h].user = u => RowsOf(u) = {}
    BY <2>1 DEF SoloInv, Insert, Running
  <2>6. \A i, j \in RowsOf(u)' : i = j
    BY <2>1, <2>4, <2>5 DEF SoloInv
  <2>7. ASSUME NEW g \in Running', op'[g].user = u, g # h
        PROVE  /\ pc'[g] = "inserting" => RowsOf(u)' = {}
               /\ pc'[g] \in {"loading", "updating"} => seen'[g].id \in RowsOf(u)'
               /\ pc'[g] # "reinserting"
    <3>1. g \in Running /\ op[g].user = u /\ pc'[g] = pc[g] /\ seen'[g] = seen[g]
      BY <2>1, <2>7 DEF Running
    <3>2. ~(Insert(h) /\ op[h].user = u) /\ ~(Delete(h) /\ op[h].user = u)
      BY <2>1, <2>7, <3>1 DEF SoloInv, Insert, Delete, Running
    <3>3. RowsOf(u)' = RowsOf(u)
      BY <2>4, <3>2
    <3> QED
      BY <2>1, <3>1, <3>3 DEF SoloInv
  <2>8. ASSUME op'[h].user = u, h \in Running'
        PROVE  /\ pc'[h] = "inserting" => RowsOf(u)' = {}
               /\ pc'[h] \in {"loading", "updating"} => seen'[h].id \in RowsOf(u)'
               /\ pc'[h] # "reinserting"
    <3>1. CASE Receive(h)
      <4>1. pc[h] = "idle" /\ pc'[h] # "idle"
        BY <2>8, <3>1 DEF Receive, Running
      <4> QED
        BY <2>1, <4>1
    <3>2. CASE LookUp(h)
      <4>1. pc'[h] # "idle" /\ members' = members
        BY <2>8, <3>2 DEF LookUp, Running
      <4>2. RowsOf(op[h].user) = {} /\ Goto(h, "inserting")
        BY <2>2, <3>2, <4>1 DEF LookUp, Finish
      <4>3. op[h].user = u /\ pc'[h] = "inserting" /\ RowsOf(u)' = {}
        BY <2>2, <2>8, <4>1, <4>2 DEF Goto, RowsOf
      <4> QED
        BY <4>3
    <3>3. CASE FindMember(h)
      <4>1. pc'[h] # "idle" /\ members' = members
        BY <2>8, <3>3 DEF FindMember, Running
      <4>2. op[h].user = u /\ pc'[h] \in {"deleting", "loading", "leaving"}
        BY <2>2, <2>8, <3>3, <4>1 DEF FindMember, Goto, Finish
      <4>3. ASSUME pc'[h] = "loading" PROVE seen'[h].id \in RowsOf(u)
        <5>1. PICK i \in RowsOf(u) :
                seen' = [seen EXCEPT ![h].id = i, ![h].was = members[i].status]
          BY <2>2, <3>3, <4>2, <4>3 DEF FindMember, Goto, Finish
        <5> QED
          BY <2>2, <5>1 DEF Seen
      <4>4. RowsOf(u)' = RowsOf(u)
        BY <4>1 DEF RowsOf
      <4> QED
        BY <4>2, <4>3, <4>4
    <3>4. CASE LoadMember(h)
      <4>1. op[h].user = u /\ seen[h].id \in RowsOf(u) /\ RowsOf(u)' = RowsOf(u)
        BY <2>1, <2>2, <2>8, <3>4 DEF LoadMember, SoloInv, Running, RowsOf, Receive
      <4> QED
        BY <2>2, <3>4, <4>1 DEF LoadMember, Saved, Goto, Finish, RowsOf
    <3>5. CASE ~Receive(h) /\ ~LookUp(h) /\ ~FindMember(h) /\ ~LoadMember(h)
      <4>1. pc'[h] \notin {"inserting", "loading", "updating", "reinserting"}
        BY <1>2, <2>2, <3>5 DEF Step, Die, CheckRecruiting, Insert, UpdateMember, Reinsert,
           PostLeave, Delete, CountApproved, StoreCount, PostJoin, ReadParty, CompareParty,
           WriteParty, Saved, Goto, Finish
      <4> QED
        BY <4>1
    <3> QED
      BY <3>1, <3>2, <3>3, <3>4, <3>5
  <2> QED
    BY <2>3, <2>6, <2>7, <2>8
<1>3. ASSUME NEW h \in Handlers, Receive(h) \/ Step(h) \/ Die(h) PROVE SoloInv'
  BY <1>2, <1>3 DEF SoloInv
<1> QED
  BY <1>1, <1>3 DEF Next

LEMMA SoloInit == Init => OwnerInv /\ SoloInv
<1> SUFFICES ASSUME Init PROVE OwnerInv /\ SoloInv
  OBVIOUS
<1>1. \A h \in Handlers : pc[h] = "idle"
  BY DEF Init
<1>2. \A u : RowsOf(u) = {}
  BY DEF Init, RowsOf
<1> QED
  BY <1>1, <1>2 DEF OwnerInv, SoloInv, Saving, Running

\* A user has at most one row while no two requests about the user overlapped.
THEOREM NoDuplicateAlone == Spec => []OneRowUnlessMixed
<1>1. Typed /\ SoloInv => OneRowUnlessMixed
  <2> SUFFICES ASSUME Typed, SoloInv, NEW u \in Users \ mixed
               PROVE  Cardinality(RowsOf(u)) <= 1
    BY DEF OneRowUnlessMixed
  <2>1. \A i, j \in RowsOf(u) : i = j
    BY DEF SoloInv
  <2>2. CASE RowsOf(u) = {}
    BY <2>2, FS_EmptySet
  <2>3. CASE RowsOf(u) # {}
    <3>1. PICK i : RowsOf(u) = {i}
      BY <2>1, <2>3
    <3>2. Cardinality({i}) = 1
      BY FS_Singleton
    <3> QED
      BY <3>1, <3>2
  <2> QED
    BY <2>2, <2>3
<1> QED
  BY <1>1, TypedInit, TypedStep, SoloInit, OwnerStep, SoloStep, PTL DEF Spec

\* A removed user has a row again only by joining, while alone.
THEOREM RemovedStaysAway == Spec => ComesBackOnlyByJoining
<1>1. Typed /\ OwnerInv /\ SoloInv /\ [Next]_vars =>
        [\A u \in Users : RowsOf(u) = {} /\ RowsOf(u)' # {} =>
            \/ u \in mixed
            \/ \E i \in RowsOf(u)' : i = nextId /\ members'[i].status = "PENDING"]_vars
  <2> SUFFICES ASSUME Typed, OwnerInv, SoloInv, [Next]_vars, vars' # vars,
                      NEW u \in Users, RowsOf(u) = {}, RowsOf(u)' # {}, u \notin mixed
               PROVE  \E i \in RowsOf(u)' : i = nextId /\ members'[i].status = "PENDING"
    OBVIOUS
  <2>1. PICK h \in Handlers : Receive(h) \/ Step(h) \/ Die(h)
    BY DEF Next
  <2>2. ~(Reinsert(h) /\ op[h].user = u)
    BY DEF SoloInv, Reinsert, Running
  <2>3. /\ RowsOf(u)' = RowsOf(u) \cup {nextId}
        /\ members'[nextId].status = "PENDING"
    BY <2>1, <2>2, RowsStep
  <2> QED
    BY <2>3
<1> QED
  BY <1>1, TypedInit, TypedStep, SoloInit, OwnerStep, SoloStep, PTL
  DEF Spec, ComesBackOnlyByJoining
-----------------------------------------------------------------------------
(* A JOIN announces an approval, and only a new one, while no other request *)
(* about the user runs.                                                     *)

\* h is on its way to post JOIN.
Announcing(h) ==
    \/ pc[h] = "announcing"
    \/ pc[h] \in SyncPlaces /\ op[h].status = "APPROVED"

\* A request that is alone with its user has read the user's status as it
\* is, and goes to announce only after it has made an approval.
JoinInv ==
    /\ extra \subseteq mixed
    /\ \A h \in Running : op[h].user \in Users \ mixed =>
         /\ pc[h] \in {"loading", "updating"} =>
              members[seen[h].id].status = seen[h].was
         /\ pc[h] = "updating" => seen[h].was # op[h].status
         /\ Announcing(h) => op[h].user \in due

\* A request touches only the rows of its own user.
LEMMA RowStays ==
    ASSUME Typed, OwnerInv, NEW h \in Handlers, Receive(h) \/ Step(h) \/ Die(h),
           NEW i \in DOMAIN members, members[i].user # op[h].user
    PROVE  i \in DOMAIN members' /\ members'[i] = members[i]
<1>1. CASE UNCHANGED members
  BY <1>1
<1>2. CASE Insert(h)
  <2>1. nextId \notin DOMAIN members
    BY MembershipBounds DEF Typed, Data, IsTable
  <2>2. members' = NewRow(nextId, op[h].user, "PENDING")
    BY <1>2 DEF Insert, Change
  <2> QED
    BY <2>1, <2>2 DEF NewRow
<1>3. CASE UpdateMember(h)
  <2>1. members' = IF seen[h].id \in DOMAIN members
                   THEN [members EXCEPT ![seen[h].id].status = op[h].status] ELSE members
    BY <1>3 DEF UpdateMember, Change
  <2>2. i # seen[h].id
    BY <1>3 DEF UpdateMember, OwnerInv, Saving
  <2> QED
    BY <2>1, <2>2
<1>4. CASE Reinsert(h) /\ seen[h].id \notin DOMAIN members
  <2>1. members' = NewRow(seen[h].id, op[h].user, op[h].status)
    BY <1>4 DEF Reinsert, Change
  <2> QED
    BY <1>4, <2>1 DEF NewRow
<1>5. CASE Delete(h)
  <2>1. members' = [j \in DOMAIN members \ RowsOf(op[h].user) |-> members[j]]
    BY <1>5 DEF Delete, Change
  <2> QED
    BY <2>1 DEF RowsOf
<1>6. \/ UNCHANGED members \/ Insert(h) \/ UpdateMember(h)
      \/ Reinsert(h) /\ seen[h].id \notin DOMAIN members
      \/ Delete(h)
  BY DEF Step, Receive, Die, CheckRecruiting, LookUp, FindMember, LoadMember, PostLeave,
     CountApproved, StoreCount, PostJoin, ReadParty, CompareParty, WriteParty, Reinsert
<1> QED
  BY <1>1, <1>2, <1>3, <1>4, <1>5, <1>6

\* What each step does to the announcements that are due.
LEMMA DueStep ==
    ASSUME NEW h \in Handlers, Receive(h) \/ Step(h) \/ Die(h)
    PROVE  /\ due \ {op[h].user} \subseteq due'
           /\ \/ extra' = extra
              \/ PostJoin(h) /\ extra' = extra \cup ({op[h].user} \ due)
<1>1. ASSUME NEW t, Change(t)
      PROVE  due \subseteq due'
  BY <1>1 DEF Change
<1>2. CASE PostJoin(h)
  BY <1>2 DEF PostJoin
<1>3. CASE ~PostJoin(h)
  <2>1. /\ extra' = extra
        /\ due' = due \/ \E t : Change(t)
    BY <1>3 DEF Step, Receive, Die, CheckRecruiting, LookUp, Insert, FindMember, LoadMember,
       UpdateMember, Reinsert, PostLeave, Delete, CountApproved, StoreCount,
       ReadParty, CompareParty, WriteParty, history
  <2> QED
    BY <1>1, <2>1
<1> QED
  BY <1>2, <1>3

\* The save of a request that is alone with its user.
LEMMA UpdateAlone ==
    ASSUME Typed, OwnerInv, SoloInv, JoinInv, NEW h \in Handlers, UpdateMember(h),
           op[h].user \notin mixed
    PROVE  /\ op[h].user \in Users /\ op'[h] = op[h] /\ pc'[h] = "counting"
           /\ op[h].status # "APPROVED" =>
                ApprovedIn(members') \subseteq ApprovedIn(members)
           /\ op[h].status = "APPROVED" => due' = due \cup {op[h].user}
<1> DEFINE u == op[h].user
           id == seen[h].id
<1>1. /\ pc[h] = "updating" /\ h \in Running /\ pc \in [Handlers -> Places]
      /\ u \in Users
  BY DEF UpdateMember, Running, Typed, Control, Serving, Requests, JoinPlaces,
     RemovePlaces, PartyPlaces, SyncPlaces
<1>2. /\ id \in DOMAIN members /\ members[id].user = u
      /\ members[id].status # op[h].status /\ seen[h].was # op[h].status
  BY <1>1 DEF SoloInv, JoinInv, RowsOf
<1>3. /\ members' = [members EXCEPT ![id].status = op[h].status]
      /\ due' = due \cup ({members'[i].user : i \in ApprovedIn(members') \ ApprovedIn(members)}
                           \ extra)
      /\ Goto(h, "counting")
  BY <1>2 DEF UpdateMember, Change, Saved
<1>4. /\ DOMAIN members' = DOMAIN members
      /\ \A i \in DOMAIN members \ {id} : members'[i] = members[i]
      /\ members'[id].status = op[h].status /\ members'[id].user = u
  <2>1. members[id] \in Row
    BY <1>2 DEF Typed, Data, IsTable
  <2> QED
    BY <1>2, <1>3, <2>1 DEF Row
<1>5. op'[h] = op[h] /\ pc'[h] = "counting"
  BY <1>1, <1>3 DEF Goto
<1>6. ASSUME op[h].status # "APPROVED"
      PROVE  ApprovedIn(members') \subseteq ApprovedIn(members)
  BY <1>2, <1>4, <1>6 DEF ApprovedIn
<1>7. ASSUME op[h].status = "APPROVED"
      PROVE  due' = due \cup {u}
  <2>1. ApprovedIn(members') \ ApprovedIn(members) = {id}
    BY <1>2, <1>4, <1>7 DEF ApprovedIn
  <2>2. u \notin extra
    BY DEF JoinInv
  <2> HIDE DEF u, id
  <2>3. {members'[i].user : i \in ApprovedIn(members') \ ApprovedIn(members)} = {u}
    BY <1>4, <2>1
  <2> QED
    BY <1>3, <2>2, <2>3
<1> QED
  BY <1>1, <1>5, <1>6, <1>7

\* The status that LoadMember compares with is the one that was read.
LEMMA LoadAlone ==
    ASSUME Typed, SoloInv, JoinInv, NEW h \in Handlers, LoadMember(h),
           op[h].user \notin mixed
    PROVE  /\ op[h].user \in Users
           /\ UNCHANGED <<members, party, history, extra>>
           /\ \/ pc'[h] = "idle"
              \/ /\ pc'[h] = "updating" /\ op'[h] = op[h] /\ seen'[h] = seen[h]
                 /\ seen[h].was # op[h].status
                 /\ members[seen[h].id].status = seen[h].was
<1> DEFINE u == op[h].user
           id == seen[h].id
<1>1. /\ pc[h] = "loading" /\ h \in Running /\ pc \in [Handlers -> Places]
      /\ u \in Users
  BY DEF LoadMember, Running, Typed, Control, Serving, Requests, JoinPlaces,
     RemovePlaces, PartyPlaces, SyncPlaces
<1>2. id \in DOMAIN members /\ members[id].status = seen[h].was
  BY <1>1 DEF SoloInv, JoinInv, RowsOf
<1>3. \/ Finish(h)
      \/ seen[h].was # op[h].status /\ Goto(h, "updating") /\ UNCHANGED seen
  BY <1>2 DEF LoadMember, Saved
<1> QED
  BY <1>1, <1>2, <1>3 DEF LoadMember, Finish, Goto

LEMMA JoinStep == Typed /\ OwnerInv /\ SoloInv /\ JoinInv /\ [Next]_vars => JoinInv'
<1> SUFFICES ASSUME Typed, OwnerInv, SoloInv, JoinInv, [Next]_vars PROVE JoinInv'
  OBVIOUS
<1>1. CASE UNCHANGED vars
  BY <1>1 DEF vars, history, JoinInv, Running, Announcing
<1>2. ASSUME NEW h \in Handlers, Receive(h) \/ Step(h) \/ Die(h) PROVE JoinInv'
  <2>1. /\ \A g \in Handlers \ {h} : pc'[g] = pc[g] /\ op'[g] = op[g] /\ seen'[g] = seen[g]
        /\ mixed \subseteq mixed'
        /\ \/ pc'[h] = "idle"
           \/ Receive(h) /\ pc'[h] \in {"joining", "finding", "reading"}
           \/ pc[h] # "idle" /\ op'[h] = op[h]
    BY <1>2, HandlerStep
  <2>2. /\ pc \in [Handlers -> Places] /\ seen \in [Handlers -> Seen]
        /\ op \in [Handlers -> Requests \cup {NoRequest}]
        /\ Running \subseteq Handlers /\ Running' \subseteq Handlers
    BY DEF Typed, Control, Reads, Running
  <2>3. extra' \subseteq mixed'
    <3>1. ASSUME PostJoin(h)
          PROVE  op[h].user \in mixed \cup due
      <4>1. pc[h] = "announcing" /\ h \in Running /\ op[h].user \in Users
        BY <3>1 DEF PostJoin, Running, Typed, Control, Serving, Requests, JoinPlaces,
           RemovePlaces, PartyPlaces, SyncPlaces
      <4> QED
        BY <4>1 DEF JoinInv, Announcing
    <3> QED
      BY <1>2, <2>1, <3>1, DueStep DEF JoinInv
  <2>4. ASSUME NEW g \in Running', op'[g].user \in Users \ mixed', g # h
        PROVE  /\ pc'[g] \in {"loading", "updating"} =>
                    members'[seen'[g].id].status = seen'[g].was
               /\ pc'[g] = "updating" => seen'[g].was # op'[g].status
               /\ Announcing(g)' => op'[g].user \in due'
    <3>1. /\ g \in Running /\ op[g].user \in Users \ mixed
          /\ pc'[g] = pc[g] /\ seen'[g] = seen[g] /\ op'[g] = op[g]
      BY <2>1, <2>2, <2>4 DEF Running
    <3>2. \/ UNCHANGED <<members, due>>
          \/ op[h].user # op[g].user
      <4>1. CASE pc[h] = "idle"
        BY <1>2, <4>1 DEF Step, Receive, Die, CheckRecruiting, LookUp, Insert, FindMember,
           LoadMember, UpdateMember, Reinsert, PostLeave, Delete, CountApproved,
           StoreCount, PostJoin, ReadParty, CompareParty, WriteParty, history
      <4>2. CASE pc[h] # "idle"
        BY <2>4, <3>1, <4>2 DEF SoloInv, Running
      <4> QED
        BY <4>1, <4>2
    <3>3. op[g].user \in due => op[g].user \in due'
      BY <1>2, <3>2, DueStep
    <3>4. pc[g] \in {"loading", "updating"} => members'[seen[g].id] = members[seen[g].id]
      <4> SUFFICES ASSUME pc[g] \in {"loading", "updating"}, op[h].user # op[g].user
                   PROVE  members'[seen[g].id] = members[seen[g].id]
        BY <3>2
      <4>1. seen[g].id \in RowsOf(op[g].user)
        BY <3>1 DEF SoloInv
      <4> QED
        BY <1>2, <4>1, RowStays DEF RowsOf
    <3> QED
      BY <3>1, <3>3, <3>4 DEF JoinInv, Announcing
  <2>5. ASSUME h \in Running', op'[h].user \in Users \ mixed'
        PROVE  /\ pc'[h] \in {"loading", "updating"} =>
                    members'[seen'[h].id].status = seen'[h].was
               /\ pc'[h] = "updating" => seen'[h].was # op'[h].status
               /\ Announcing(h)' => op'[h].user \in due'
    <3>1. CASE Receive(h)
      <4>1. pc'[h] \in {"joining", "finding", "reading"}
        BY <2>1, <2>5, <3>1 DEF Receive, Running
      <4> QED
        BY <4>1 DEF Announcing, SyncPlaces
    <3>2. ASSUME ~Receive(h)
          PROVE  pc[h] # "idle" /\ h \in Running /\ op'[h] = op[h] /\ op[h].user \in Users \ mixed
      BY <2>1, <2>5, <3>2 DEF Running
    <3>3. CASE FindMember(h)
      <4>1. ~Receive(h) /\ pc'[h] # "idle" /\ members' = members
        BY <2>5, <3>3 DEF FindMember, Receive, Running
      <4>2. pc'[h] \in {"deleting", "loading", "leaving"}
        BY <2>2, <3>3, <4>1 DEF FindMember, Goto, Finish
      <4>3. ASSUME pc'[h] = "loading" PROVE members'[seen'[h].id].status = seen'[h].was
        <5>1. PICK i \in RowsOf(op[h].user) :
                seen' = [seen EXCEPT ![h].id = i, ![h].was = members[i].status]
          BY <2>2, <3>3, <4>3 DEF FindMember, Goto, Finish
        <5> QED
          BY <2>2, <4>1, <5>1 DEF Seen
      <4> QED
        BY <4>2, <4>3 DEF Announcing, SyncPlaces
    <3>4. CASE LoadMember(h)
      <4>1. ~Receive(h) /\ pc'[h] # "idle"
        BY <2>5, <3>4 DEF LoadMember, Receive, Running
      <4>2. /\ pc'[h] = "updating" /\ op'[h] = op[h] /\ seen'[h] = seen[h]
            /\ seen[h].was # op[h].status /\ members' = members
            /\ members[seen[h].id].status = seen[h].was
        BY <3>2, <3>4, <4>1, LoadAlone
      <4> QED
        BY <4>2 DEF Announcing, SyncPlaces
    <3>5. CASE UpdateMember(h)
      <4>1. ~Receive(h)
        BY <3>5 DEF UpdateMember, Receive
      <4>2. /\ pc'[h] = "counting" /\ op'[h] = op[h]
            /\ op[h].status = "APPROVED" => op[h].user \in due'
        BY <3>2, <3>5, <4>1, UpdateAlone
      <4> QED
        BY <4>2 DEF Announcing
    <3>6. CASE Delete(h)
      <4>1. ~Receive(h) /\ op[h].status = "none"
        BY <3>6 DEF Delete, Receive, Typed, Control, Serving, Requests, JoinPlaces,
           UpdatePlaces, PartyPlaces, SyncPlaces
      <4>2. pc'[h] \in {"idle", "counting"} /\ op'[h].status # "APPROVED"
        BY <2>2, <3>2, <3>6, <4>1 DEF Delete, Goto, Finish
      <4> QED
        BY <4>2 DEF Announcing
    <3>7. CASE CountApproved(h) \/ StoreCount(h)
      <4>1. ~Receive(h) /\ due' = due
        BY <3>7 DEF CountApproved, StoreCount, Receive, history
      <4>2. pc'[h] \in {"storing", "idle", "announcing"} /\ (Announcing(h)' => Announcing(h))
        BY <2>2, <3>2, <3>7, <4>1
           DEF CountApproved, StoreCount, Goto, Finish, Announcing, SyncPlaces
      <4> QED
        BY <3>2, <4>1, <4>2 DEF JoinInv
    <3>8. CASE Reinsert(h)
      <4>1. ~Receive(h)
        BY <3>8 DEF Reinsert, Receive
      <4> QED
        BY <3>2, <3>8, <4>1 DEF SoloInv, Reinsert
    <3>9. CASE /\ ~Receive(h) /\ ~FindMember(h) /\ ~LoadMember(h) /\ ~UpdateMember(h)
               /\ ~Delete(h) /\ ~CountApproved(h) /\ ~StoreCount(h) /\ ~Reinsert(h)
      <4>1. pc'[h] \notin {"loading", "updating", "counting", "storing", "announcing"}
        BY <1>2, <2>2, <3>9 DEF Step, Die, CheckRecruiting, LookUp, Insert, PostLeave,
           PostJoin, ReadParty, CompareParty, WriteParty, Goto, Finish
      <4> QED
        BY <4>1 DEF Announcing, SyncPlaces
    <3> QED
      BY <3>1, <3>3, <3>4, <3>5, <3>6, <3>7, <3>8, <3>9
  <2> QED
    BY <2>3, <2>4, <2>5 DEF JoinInv
<1> QED
  BY <1>1, <1>2 DEF Next

-----------------------------------------------------------------------------
(* One request at a time and none that failed: the count is then exact and  *)
(* every approval announced, whenever no request is between its save and    *)
(* its last step.                                                           *)

Settled == party.count = TrueCount

\* What request h knows when it is the only one.
Calm(h) ==
    /\ pc[h] \notin SyncPlaces => Settled
    /\ pc[h] = "storing" => seen[h].count = TrueCount
    /\ pc[h] \in {"comparing", "writing"} => seen[h].count = party.count
    /\ pc[h] = "leaving" => seen[h].was = "APPROVED"
    /\ pc[h] = "deleting" /\ seen[h].was # "APPROVED" =>
         RowsOf(op[h].user) \cap ApprovedIn(members) = {}
    /\ due \subseteq IF Announcing(h) THEN {op[h].user} ELSE {}

CalmInv ==
    ~disturbed =>
      /\ mixed = {}
      /\ \A g, h \in Running : g = h
      /\ Running = {} => Settled /\ due = {}
      /\ \A h \in Running : Calm(h)

LEMMA SameCount ==
    ASSUME ApprovedIn(members') = ApprovedIn(members)
    PROVE  TrueCount' = TrueCount
<1>1. ApprovedIn(members)' = ApprovedIn(members')
  BY DEF ApprovedIn
<1> QED
  BY <1>1 DEF TrueCount

\* A request ends with the count exact and nothing to announce.
LEMMA CalmEnd ==
    ASSUME NEW h \in Handlers, pc'[h] = "idle", Settled', due' = {}
    PROVE  Calm(h)'
BY DEF Calm, Announcing, SyncPlaces

\* The steps that only read.
LEMMA CalmRead ==
    ASSUME Typed, SoloInv, NEW h \in Handlers, mixed = {}, Calm(h), pc[h] # "idle",
           CheckRecruiting(h) \/ LookUp(h) \/ FindMember(h) \/ PostLeave(h)
    PROVE  Calm(h)'
<1>0. /\ pc \in [Handlers -> Places] /\ seen \in [Handlers -> Seen]
  BY DEF Typed, Control, Reads
<1>1. UNCHANGED <<members, party, due>>
  BY DEF CheckRecruiting, LookUp, FindMember, PostLeave, history
<1>2. /\ Settled /\ due = {}
  BY DEF Calm, CheckRecruiting, LookUp, FindMember, PostLeave, Announcing, SyncPlaces
<1>3. Settled' /\ due' = {} /\ \A u : RowsOf(u)' = RowsOf(u)
  BY <1>1, <1>2, SameCount DEF Settled, RowsOf
<1>4. CASE CheckRecruiting(h) \/ LookUp(h)
  <2>1. pc'[h] \in {"idle", "lookingUp", "inserting"}
    BY <1>0, <1>4 DEF CheckRecruiting, LookUp, Goto, Finish
  <2> QED
    BY <1>3, <2>1 DEF Calm, Announcing, SyncPlaces
<1>5. CASE PostLeave(h)
  <2>1. pc'[h] = "deleting" /\ seen'[h].was = "APPROVED"
    BY <1>0, <1>5 DEF PostLeave, Goto, Calm
  <2> QED
    BY <1>3, <2>1 DEF Calm, Announcing, SyncPlaces
<1>6. CASE FindMember(h)
  <2>1. op[h].user \in Users /\ op[h] \in Requests
    BY <1>6 DEF FindMember, Typed, Control, Serving, Requests, JoinPlaces, PartyPlaces
  <2>2. \A i, j \in RowsOf(op[h].user) : i = j
    BY <2>1 DEF SoloInv
  <2>3. pc'[h] \in {"idle", "loading", "leaving", "deleting"} /\ members' = members
    BY <1>0, <1>6 DEF FindMember, Goto, Finish
  <2>4. pc'[h] # "idle" => op'[h] = op[h]
    BY <1>0, <1>6 DEF FindMember, Goto, Finish
  <2>5. CASE RowsOf(op[h].user) = {}
    <3>1. pc'[h] \in {"idle", "deleting"}
      BY <1>0, <1>6, <2>5 DEF FindMember, Goto, Finish
    <3>2. pc'[h] = "deleting" => RowsOf(op[h].user)' = {}
      BY <2>3, <2>4, <2>5 DEF RowsOf
    <3> QED
      BY <1>3, <3>1, <3>2 DEF Calm, Announcing, SyncPlaces
  <2>6. CASE \E i \in RowsOf(op[h].user) :
               /\ seen' = [seen EXCEPT ![h].id = i, ![h].was = members[i].status]
               /\ Goto(h, IF op[h].kind = "updateStatus" THEN "loading"
                          ELSE IF members[i].status = "APPROVED" THEN "leaving"
                          ELSE "deleting")
    <3>1. PICK i \in RowsOf(op[h].user) :
               /\ seen' = [seen EXCEPT ![h].id = i, ![h].was = members[i].status]
               /\ Goto(h, IF op[h].kind = "updateStatus" THEN "loading"
                          ELSE IF members[i].status = "APPROVED" THEN "leaving"
                          ELSE "deleting")
      BY <2>6
    <3>2. /\ seen'[h].was = members[i].status
          /\ pc'[h] = "leaving" => members[i].status = "APPROVED"
          /\ pc'[h] \in {"loading", "leaving", "deleting"} /\ op'[h] = op[h]
      BY <1>0, <3>1 DEF Goto, Seen
    <3>3. members[i].status # "APPROVED" =>
            RowsOf(op[h].user) \cap ApprovedIn(members) = {}
      BY <2>2, <3>1 DEF ApprovedIn
    <3> QED
      BY <1>3, <2>3, <3>2, <3>3 DEF Calm, Announcing, SyncPlaces, RowsOf, ApprovedIn
  <2> QED
    BY <1>6, <2>5, <2>6 DEF FindMember
<1> QED
  BY <1>4, <1>5, <1>6

\* The steps of a join and of updateStatus that write the rows.
LEMMA CalmSave ==
    ASSUME Typed, OwnerInv, SoloInv, JoinInv, NEW h \in Handlers, mixed = {}, Calm(h),
           Insert(h) \/ LoadMember(h) \/ UpdateMember(h) \/ Reinsert(h)
    PROVE  Calm(h)'
<1>0. pc \in [Handlers -> Places] /\ seen \in [Handlers -> Seen] /\ op[h].user \notin mixed
  BY DEF Typed, Control, Reads
<1>1. Settled /\ due = {}
  BY DEF Calm, Insert, LoadMember, UpdateMember, Reinsert, Announcing, SyncPlaces
<1>2. CASE Insert(h)
  <2>1. nextId \notin DOMAIN members
    BY MembershipBounds DEF Typed, Data, IsTable
  <2>2. members' = NewRow(nextId, op[h].user, "PENDING")
    BY <1>2 DEF Insert, Change
  <2>3. ApprovedIn(members') = ApprovedIn(members)
    BY <2>1, <2>2 DEF NewRow, ApprovedIn
  <2>4. due' = due \cup ({members'[i].user : i \in ApprovedIn(members') \ ApprovedIn(members)}
                         \ extra)
    BY <1>2 DEF Insert, Change
  <2>5. due' = {} /\ Settled' /\ pc'[h] = "idle"
    BY <1>0, <1>1, <1>2, <2>3, <2>4, SameCount DEF Insert, Finish, Settled
  <2> QED
    BY <2>5, CalmEnd
<1>3. CASE LoadMember(h)
  <2>1. /\ UNCHANGED <<members, party, due>>
        /\ pc'[h] \in {"idle", "updating"}
    BY <1>0, <1>3, LoadAlone DEF history
  <2>2. Settled' /\ due' = {}
    BY <1>1, <2>1, SameCount DEF Settled
  <2> QED
    BY <2>1, <2>2 DEF Calm, Announcing, SyncPlaces
<1>4. CASE UpdateMember(h)
  <2>1. /\ op'[h] = op[h] /\ pc'[h] = "counting"
        /\ op[h].status # "APPROVED" =>
             ApprovedIn(members') \subseteq ApprovedIn(members)
        /\ op[h].status = "APPROVED" => due' = due \cup {op[h].user}
    BY <1>0, <1>4, UpdateAlone
  <2>2. due' = due \cup ({members'[i].user : i \in ApprovedIn(members') \ ApprovedIn(members)}
                         \ extra)
    BY <1>4 DEF UpdateMember, Change
  <2>3. op[h].status # "APPROVED" => due' = {}
    BY <1>1, <2>1, <2>2
  <2>4. due' \subseteq IF op[h].status = "APPROVED" THEN {op[h].user} ELSE {}
    BY <1>1, <2>1, <2>3
  <2> QED
    BY <2>1, <2>4 DEF Calm, Announcing, SyncPlaces
<1>5. CASE Reinsert(h)
  <2>1. op[h].user \in Users /\ h \in Running
    BY <1>5 DEF Reinsert, Typed, Control, Serving, Requests, JoinPlaces, RemovePlaces,
       PartyPlaces, SyncPlaces, Running
  <2> QED
    BY <1>0, <1>5, <2>1 DEF SoloInv, Reinsert
<1> QED
  BY <1>2, <1>3, <1>4, <1>5

LEMMA CalmDelete ==
    ASSUME Typed, NEW h \in Handlers, Calm(h), Delete(h)
    PROVE  Calm(h)'
<1>0. pc \in [Handlers -> Places] /\ seen \in [Handlers -> Seen]
  BY DEF Typed, Control, Reads
<1>1. Settled /\ due = {}
  BY DEF Calm, Delete, Announcing, SyncPlaces
<1>2. /\ members' = [i \in DOMAIN members \ RowsOf(op[h].user) |-> members[i]]
      /\ due' = due \cup ({members'[i].user : i \in ApprovedIn(members') \ ApprovedIn(members)}
                           \ extra)
  BY DEF Delete, Change
<1>3. ApprovedIn(members') = ApprovedIn(members) \ RowsOf(op[h].user)
  BY <1>2 DEF ApprovedIn
<1>4. due' = {}
  BY <1>1, <1>2, <1>3
<1>5. CASE seen[h].was = "APPROVED"
  <2>1. pc'[h] = "counting"
    BY <1>0, <1>5 DEF Delete, Goto
  <2> QED
    BY <1>4, <2>1 DEF Calm, SyncPlaces
<1>6. CASE seen[h].was # "APPROVED"
  <2>1. ApprovedIn(members') = ApprovedIn(members)
    BY <1>3, <1>6 DEF Calm, Delete
  <2>2. Settled' /\ pc'[h] = "idle"
    BY <1>0, <1>1, <1>6, <2>1, SameCount DEF Delete, Finish, Settled
  <2> QED
    BY <1>4, <2>2, CalmEnd
<1> QED
  BY <1>5, <1>6

\* Count, store and announce; and the status of the party.
LEMMA CalmSync ==
    ASSUME Typed, NEW h \in Handlers, Calm(h),
           \/ CountApproved(h) \/ StoreCount(h) \/ PostJoin(h)
           \/ ReadParty(h) \/ CompareParty(h) \/ WriteParty(h)
    PROVE  Calm(h)'
<1>0. /\ pc \in [Handlers -> Places] /\ seen \in [Handlers -> Seen]
      /\ party \in [status : PartyStatus, count : Nat]
  BY DEF Typed, Control, Reads, Data
<1>1. members' = members /\ TrueCount' = TrueCount
  <2>1. members' = members
    BY DEF CountApproved, StoreCount, PostJoin, ReadParty, CompareParty, WriteParty
  <2> QED
    BY <2>1, SameCount
<1>2. CASE CountApproved(h)
  <2>1. /\ pc[h] = "counting" /\ pc'[h] = "storing" /\ op'[h] = op[h] /\ due' = due
        /\ seen'[h].count = TrueCount
    BY <1>0, <1>2 DEF CountApproved, Goto, history, Seen
  <2>2. Announcing(h)' <=> Announcing(h)
    BY <2>1 DEF Announcing, SyncPlaces
  <2> QED
    BY <1>1, <2>1, <2>2 DEF Calm, SyncPlaces
<1>3. CASE StoreCount(h)
  <2>1. /\ pc[h] = "storing" /\ due' = due /\ party'.count = seen[h].count
        /\ \/ /\ op[h].status = "APPROVED" /\ pc'[h] = "announcing" /\ op'[h] = op[h]
           \/ op[h].status # "APPROVED" /\ pc'[h] = "idle"
    BY <1>0, <1>3 DEF StoreCount, Goto, Finish, history
  <2>2. Settled'
    BY <1>1, <2>1 DEF Calm, Settled
  <2>3. due \subseteq IF op[h].status = "APPROVED" THEN {op[h].user} ELSE {}
    BY <2>1 DEF Calm, Announcing
  <2> QED
    BY <2>1, <2>2, <2>3 DEF Calm, Announcing, SyncPlaces
<1>4. CASE PostJoin(h)
  <2>1. Settled' /\ due' = {} /\ pc'[h] = "idle"
    BY <1>0, <1>1, <1>4 DEF PostJoin, Finish, Calm, Settled, Announcing, SyncPlaces
  <2> QED
    BY <2>1, CalmEnd
<1>5. CASE ReadParty(h) \/ CompareParty(h)
  <2>1. Settled /\ due = {} /\ UNCHANGED <<party, due>>
    BY <1>5 DEF Calm, ReadParty, CompareParty, Announcing, SyncPlaces, history
  <2>2. Settled' /\ due' = {}
    BY <1>1, <2>1 DEF Settled
  <2>3. pc'[h] = "idle" \/ (pc'[h] \in {"comparing", "writing"} /\ seen'[h].count = party.count)
    BY <1>0, <1>5 DEF ReadParty, CompareParty, Goto, Finish, Calm, Seen
  <2> QED
    BY <2>1, <2>2, <2>3 DEF Calm, Announcing, SyncPlaces
<1>6. CASE WriteParty(h)
  <2>1. Settled /\ due = {} /\ due' = due /\ seen[h].count = party.count
    BY <1>6 DEF Calm, WriteParty, Announcing, SyncPlaces, history
  <2>2. party'.count = party.count /\ pc'[h] = "idle"
    BY <1>0, <1>6, <2>1 DEF WriteParty, Finish
  <2>3. Settled' /\ due' = {}
    BY <1>1, <2>1, <2>2 DEF Settled
  <2> QED
    BY <2>2, <2>3, CalmEnd
<1> QED
  BY <1>2, <1>3, <1>4, <1>5, <1>6

LEMMA CalmStep ==
    Typed /\ OwnerInv /\ SoloInv /\ JoinInv /\ CalmInv /\ [Next]_vars => CalmInv'
<1> SUFFICES ASSUME Typed, OwnerInv, SoloInv, JoinInv, CalmInv, [Next]_vars,
                    ~disturbed'
             PROVE  /\ mixed' = {}
                    /\ \A f, g \in Running' : f = g
                    /\ Running' = {} => Settled' /\ due' = {}
                    /\ \A g \in Running' : Calm(g)'
  BY DEF CalmInv
<1>1. CASE UNCHANGED vars
  BY <1>1 DEF vars, history, CalmInv, Calm, Running, Settled, TrueCount, ApprovedIn,
     RowsOf, Announcing
<1>2. ASSUME NEW h \in Handlers, Receive(h) \/ Step(h) \/ Die(h)
      PROVE  /\ mixed' = {}
             /\ \A f, g \in Running' : f = g
             /\ Running' = {} => Settled' /\ due' = {}
             /\ \A g \in Running' : Calm(g)'
  <2>0. ASSUME Step(h)
        PROVE  UNCHANGED <<mixed, disturbed>> /\ pc[h] # "idle"
    BY <2>0 DEF Step, CheckRecruiting, LookUp, Insert, FindMember, LoadMember,
       UpdateMember, Reinsert, PostLeave, Delete, CountApproved, StoreCount, PostJoin,
       ReadParty, CompareParty, WriteParty, Saved, Goto, Finish
  <2>1. ~disturbed /\ ~Die(h) /\ (Receive(h) => Running = {})
    <3>1. ~Die(h)
      BY DEF Die
    <3>2. Receive(h) => ~disturbed /\ Running = {}
      BY DEF Receive, Typed, Control
    <3> QED
      BY <1>2, <2>0, <3>1, <3>2
  <2>2. /\ mixed = {} /\ \A f, g \in Running : f = g
        /\ Running = {} => Settled /\ due = {}
        /\ \A g \in Running : Calm(g)
    BY <2>1 DEF CalmInv
  <2>3. mixed' = {} /\ (Step(h) => pc[h] # "idle")
    <3>1. Receive(h) => mixed' = mixed
      BY <2>1 DEF Receive
    <3> QED
      BY <1>2, <2>0, <2>1, <2>2, <3>1
  <2>4. \A g \in Handlers \ {h} : pc'[g] = pc[g]
    BY <1>2, HandlerStep
  <2>5. Running' \subseteq {h}
    BY <1>2, <2>1, <2>2, <2>3, <2>4 DEF Running
  <2>6. Calm(h)'
    <3>1. CASE Receive(h)
      <4>1. UNCHANGED <<members, party, due>> /\ Settled /\ due = {}
        BY <2>1, <2>2, <3>1 DEF Receive, history
      <4>2. Settled' /\ due' = {}
        BY <4>1, SameCount DEF Settled
      <4>3. pc'[h] \in {"idle", "joining", "finding", "reading"}
        BY <1>2, <3>1, HandlerStep DEF Receive
      <4> QED
        BY <4>2, <4>3 DEF Calm, Announcing, SyncPlaces
    <3>2. CASE Step(h)
      <4>1. Calm(h) /\ pc[h] # "idle"
        BY <2>2, <2>3, <3>2 DEF Running
      <4> QED
        BY <2>2, <3>2, <4>1, CalmRead, CalmSave, CalmDelete, CalmSync DEF Step
    <3> QED
      BY <1>2, <2>1, <3>1, <3>2
  <2>7. Running' = {} => Settled' /\ due' = {}
    <3> SUFFICES ASSUME Running' = {} PROVE Settled' /\ due' = {}
      OBVIOUS
    <3>1. pc'[h] = "idle"
      BY DEF Running
    <3> QED
      BY <2>6, <3>1 DEF Calm, Announcing, SyncPlaces
  <2> QED
    BY <2>3, <2>5, <2>6, <2>7
<1> QED
  BY <1>1, <1>2 DEF Next

LEMMA CalmInit == Init => JoinInv /\ CalmInv
<1> SUFFICES ASSUME Init PROVE JoinInv /\ CalmInv
  OBVIOUS
<1>1. Running = {} /\ extra = {} /\ mixed = {} /\ due = {}
  BY DEF Init, Running
<1>2. Settled
  <2>1. ApprovedIn(members) = {}
    BY DEF Init, ApprovedIn
  <2>2. TrueCount = 1
    BY <2>1, FS_EmptySet DEF TrueCount
  <2> QED
    BY <2>2 DEF Init, Settled
<1> QED
  BY <1>1, <1>2 DEF JoinInv, CalmInv

LEMMA Alone == Spec => [](JoinInv /\ CalmInv)
<1> QED
  BY TypedInit, TypedStep, SoloInit, OwnerStep, SoloStep, CalmInit, JoinStep, CalmStep, PTL
  DEF Spec

\* After requests that ran one at a time and did not fail, the stored
\* currentCount is the number of participants.
THEOREM CountIsExact == Spec => []CountExactUnlessDisturbed
<1>1. CalmInv => CountExactUnlessDisturbed
  BY DEF CalmInv, CountExactUnlessDisturbed, Settled
<1> QED
  BY <1>1, Alone, PTL
-----------------------------------------------------------------------------
(* The notices tell who is a member, but while a request that is alone with *)
(* its user has posted LEAVE and not deleted, or approved and not posted    *)
(* JOIN.                                                                   *)

IsApproved(u) == RowsOf(u) \cap ApprovedIn(members) # {}
About(u) == {h \in Running : op[h].user = u}
Ahead(h) == Announcing(h) \/ pc[h] = "deleting"

Told(u) ==
    /\ (\A h \in About(u) : ~Ahead(h)) =>
         notice[u] = "open" \/ (notice[u] = "in" <=> IsApproved(u))
    /\ \A h \in About(u) : /\ Announcing(h) => IsApproved(u)
                           /\ pc[h] = "deleting" => notice[u] # "in"

NoticeInv == \A u \in Users : IF u \in mixed THEN notice[u] = "open" ELSE Told(u)

\* What each step makes of the notice about u.
LEMMA NoticeStep ==
    ASSUME Typed, NEW h \in Handlers, Receive(h) \/ Step(h) \/ Die(h), NEW u \in Users
    PROVE  /\ IF Receive(h) THEN u \in mixed' => notice'[u] = "open"
              ELSE mixed' = mixed
           /\ u \in mixed /\ notice[u] = "open" => notice'[u] = "open"
           /\ \/ notice'[u] \in {notice[u], "open"}
              \/ op[h].user = u /\ PostJoin(h)
              \/ op[h].user = u /\ PostLeave(h)
<1>1. notice \in [Users -> {"in", "out", "open"}]
  BY DEF Typed, Data
<1>2. ASSUME NEW U, LeaveOpen(U)
      PROVE  notice'[u] = IF u \in U THEN "open" ELSE notice[u]
  BY <1>2 DEF LeaveOpen
<1>3. ASSUME NEW v, NEW what, Say(v, what)
      PROVE  notice'[u] = IF u # v THEN notice[u] ELSE IF u \in mixed THEN "open" ELSE what
  BY <1>1, <1>3 DEF Say
<1>4. CASE Receive(h)
  BY <1>2, <1>4, HandlerStep DEF Receive
<1>5. CASE Die(h)
  BY <1>2, <1>5 DEF Die, Receive
<1>6. CASE Step(h)
  <2>1. ~Receive(h) /\ mixed' = mixed
    BY <1>6 DEF Step, Receive, CheckRecruiting, LookUp, Insert, FindMember, LoadMember,
       UpdateMember, Reinsert, PostLeave, Delete, CountApproved, StoreCount, PostJoin,
       ReadParty, CompareParty, WriteParty, Saved, Goto, Finish
  <2>2. CASE PostJoin(h)
    BY <1>3, <2>1, <2>2 DEF PostJoin
  <2>3. CASE PostLeave(h)
    BY <1>3, <2>1, <2>3 DEF PostLeave
  <2>4. CASE ~PostJoin(h) /\ ~PostLeave(h)
    <3>1. UNCHANGED notice \/ \E U : LeaveOpen(U)
      BY <1>6, <2>4 DEF Step, CheckRecruiting, LookUp, Insert, FindMember, LoadMember,
         UpdateMember, Reinsert, Delete, CountApproved, StoreCount,
         ReadParty, CompareParty, WriteParty, Change, history
    <3> QED
      BY <1>2, <2>1, <3>1
  <2> QED
    BY <2>2, <2>3, <2>4
<1> QED
  BY <1>4, <1>5, <1>6

\* A request about another user changes nothing for u.
LEMMA ToldOfOthers ==
    ASSUME Typed, OwnerInv, NEW h \in Handlers, Step(h) \/ Die(h), pc[h] # "idle",
           NEW u \in Users, op[h].user # u, Told(u)
    PROVE  Told(u)'
<1>1. RowsOf(u)' = RowsOf(u)
  BY RowsStep DEF Receive
<1>2. \A i \in RowsOf(u) : members'[i] = members[i]
  BY RowStays DEF RowsOf
<1>3. IsApproved(u)' = IsApproved(u)
  BY <1>1, <1>2 DEF IsApproved, RowsOf, ApprovedIn
<1>4. /\ \A g \in Handlers \ {h} : pc'[g] = pc[g] /\ op'[g] = op[g]
      /\ pc'[h] = "idle" \/ op'[h] = op[h]
  BY HandlerStep DEF Receive
<1>5. About(u)' = About(u) /\ \A g \in About(u) : pc'[g] = pc[g] /\ op'[g] = op[g]
  BY <1>4 DEF About, Running
<1>6. \A g \in About(u) : Announcing(g)' = Announcing(g) /\ Ahead(g)' = Ahead(g)
  BY <1>5 DEF Announcing, Ahead
<1>7. notice'[u] \in {notice[u], "open"}
  BY NoticeStep
<1> QED
  BY <1>3, <1>5, <1>6, <1>7 DEF Told

\* A request that arrives.
LEMMA ToldOnArrival ==
    ASSUME Typed, NEW h \in Handlers, Receive(h), NEW u \in Users, Told(u)
    PROVE  Told(u)'
<1>1. IsApproved(u)' = IsApproved(u)
  BY DEF Receive, IsApproved, RowsOf, ApprovedIn
<1>2. /\ \A g \in Handlers \ {h} : pc'[g] = pc[g] /\ op'[g] = op[g]
      /\ pc[h] = "idle" /\ pc'[h] \in {"idle", "joining", "finding", "reading"}
  BY HandlerStep DEF Receive
<1>3. ~Ahead(h)' /\ ~Announcing(h)' /\ pc'[h] # "deleting"
  BY <1>2 DEF Ahead, Announcing, SyncPlaces
<1>4. /\ \A g \in About(u)' : g # h => g \in About(u)
      /\ \A g \in About(u) : g # h /\ g \in About(u)'
  BY <1>2 DEF About, Running
<1>5. \A g \in Handlers \ {h} : Announcing(g)' = Announcing(g) /\ Ahead(g)' = Ahead(g)
  BY <1>2 DEF Announcing, Ahead
<1>6. About(u) \subseteq Handlers /\ About(u)' \subseteq Handlers
  BY DEF About, Running
<1>7. notice'[u] \in {notice[u], "open"}
  BY NoticeStep DEF Receive, PostJoin, PostLeave
<1> QED
  BY <1>1, <1>2, <1>3, <1>4, <1>5, <1>6, <1>7 DEF Told

\* What the only request about u has to see to.
LEMMA ToldBy ==
    ASSUME Typed, SoloInv, NEW h \in Handlers, Step(h), pc[h] # "idle",
           NEW u \in Users \ mixed, op[h].user = u,
           \/ ~Ahead(h)' /\ (notice'[u] = "open" \/ (notice'[u] = "in" <=> IsApproved(u)'))
           \/ Announcing(h)' /\ IsApproved(u)'
           \/ pc'[h] = "deleting" /\ notice'[u] # "in"
    PROVE  Told(u)'
<1>1. \A g \in Handlers \ {h} : pc'[g] = pc[g] /\ op'[g] = op[g]
  BY HandlerStep
<1>2. About(u) \subseteq {h}
  BY DEF About, Running, SoloInv
<1>3. About(u)' \subseteq {h}
  BY <1>1, <1>2 DEF About, Running
<1>4. pc'[h] # "idle" => About(u)' = {h}
  <2>1. pc'[h] # "idle" => op'[h] = op[h]
    BY HandlerStep DEF Receive
  <2> QED
    BY <1>3, <2>1 DEF About, Running
<1>5. /\ pc'[h] = "deleting" => ~Announcing(h)' /\ Ahead(h)'
      /\ Announcing(h)' => Ahead(h)'
      /\ Ahead(h)' => pc'[h] # "idle" /\ (Announcing(h)' \/ pc'[h] = "deleting")
  BY DEF Announcing, Ahead, SyncPlaces
<1>6. CASE ~Ahead(h)'
  BY <1>3, <1>5, <1>6 DEF Told
<1>7. CASE Ahead(h)'
  <2>1. About(u)' = {h}
    BY <1>4, <1>5, <1>7
  <2> QED
    BY <1>5, <1>7, <2>1 DEF Told
<1> QED
  BY <1>6, <1>7

\* The steps of a request that is alone with u.
LEMMA ToldAlone ==
    ASSUME Typed, OwnerInv, SoloInv, JoinInv, NEW h \in Handlers, Step(h), pc[h] # "idle",
           NEW u \in Users \ mixed, op[h].user = u, Told(u)
    PROVE  Told(u)'
<1>0. /\ pc \in [Handlers -> Places] /\ seen \in [Handlers -> Seen]
      /\ op \in [Handlers -> Requests \cup {NoRequest}]
      /\ notice \in [Users -> {"in", "out", "open"}]
      /\ h \in Running /\ Serving(h)
  BY DEF Typed, Control, Reads, Data, Running
<1>1. \A i, j \in RowsOf(u) : i = j
  BY DEF SoloInv
<1>2. About(u) = {h}
  BY <1>0 DEF About, SoloInv
<1>3. UNCHANGED members => IsApproved(u)' = IsApproved(u)
  BY DEF IsApproved, RowsOf, ApprovedIn
<1>4. /\ ~PostJoin(h) /\ ~PostLeave(h) => notice'[u] \in {notice[u], "open"}
      /\ ~Ahead(h) => notice[u] = "open" \/ (notice[u] = "in" <=> IsApproved(u))
      /\ Announcing(h) => IsApproved(u)
      /\ pc[h] = "deleting" => notice[u] # "in"
  BY <1>2, NoticeStep DEF Told
<1>5. CASE CheckRecruiting(h) \/ LookUp(h) \/ ReadParty(h) \/ CompareParty(h) \/ WriteParty(h)
  <2>1. /\ UNCHANGED <<members>> /\ ~Ahead(h)
        /\ ~PostJoin(h) /\ ~PostLeave(h)
    BY <1>5 DEF CheckRecruiting, LookUp, ReadParty, CompareParty, WriteParty, PostJoin,
       PostLeave, Ahead, Announcing, SyncPlaces
  <2>2. pc'[h] \in {"idle", "lookingUp", "inserting", "comparing", "writing"}
    BY <1>0, <1>5 DEF CheckRecruiting, LookUp, ReadParty, CompareParty, WriteParty, Goto, Finish
  <2>3. ~Ahead(h)'
    BY <2>2 DEF Ahead, Announcing, SyncPlaces
  <2> QED
    BY <1>3, <1>4, <2>1, <2>3, ToldBy
<1>6. CASE Insert(h)
  <2>1. /\ ~Ahead(h) /\ ~PostJoin(h) /\ ~PostLeave(h)
        /\ pc[h] = "inserting"
    BY <1>6 DEF Insert, PostJoin, PostLeave, Ahead, Announcing, SyncPlaces
  <2>2. RowsOf(u) = {}
    BY <1>0, <2>1 DEF SoloInv
  <2>3. ~IsApproved(u)
    BY <2>2 DEF IsApproved
  <2>4. pc'[h] = "idle"
    BY <1>0, <1>6 DEF Insert, Finish
  <2>5. RowsOf(u)' \subseteq {nextId} /\ members'[nextId].status = "PENDING"
    <3>1. nextId \notin DOMAIN members
      BY MembershipBounds DEF Typed, Data, IsTable
    <3>2. members' = NewRow(nextId, op[h].user, "PENDING")
      BY <1>6 DEF Insert, Change
    <3> QED
      BY <2>2, <3>1, <3>2 DEF NewRow, RowsOf
  <2>6. ~IsApproved(u)'
    BY <2>5 DEF IsApproved, ApprovedIn
  <2>7. ~Ahead(h)'
    BY <2>4 DEF Ahead, Announcing, SyncPlaces
  <2> QED
    BY <1>4, <2>1, <2>3, <2>6, <2>7, ToldBy
<1>7. CASE FindMember(h)
  <2>1. /\ UNCHANGED members /\ ~Ahead(h) /\ ~PostJoin(h) /\ ~PostLeave(h)
    BY <1>7 DEF FindMember, PostJoin, PostLeave, Ahead, Announcing, SyncPlaces
  <2>2. pc'[h] \in {"idle", "loading", "leaving", "deleting"}
    BY <1>0, <1>7 DEF FindMember, Goto, Finish
  <2>3. CASE pc'[h] = "deleting"
    <3>1. RowsOf(u) \cap ApprovedIn(members) = {}
      BY <1>0, <1>1, <1>7, <2>3 DEF FindMember, Goto, Finish, ApprovedIn
    <3>2. notice'[u] # "in"
      BY <1>4, <2>1, <3>1 DEF IsApproved
    <3> QED
      BY <2>3, <3>2, ToldBy
  <2>4. CASE pc'[h] # "deleting"
    <3>1. ~Ahead(h)'
      BY <2>2, <2>4 DEF Ahead, Announcing, SyncPlaces
    <3> QED
      BY <1>3, <1>4, <2>1, <3>1, ToldBy
  <2> QED
    BY <2>3, <2>4
<1>8. CASE LoadMember(h)
  <2>1. /\ ~Ahead(h) /\ ~PostJoin(h) /\ ~PostLeave(h)
    BY <1>8 DEF LoadMember, PostJoin, PostLeave, Ahead, Announcing, SyncPlaces
  <2>2. UNCHANGED members /\ pc'[h] \in {"idle", "updating"}
    BY <1>8, LoadAlone
  <2>3. ~Ahead(h)'
    BY <2>2 DEF Ahead, Announcing, SyncPlaces
  <2> QED
    BY <1>3, <1>4, <2>1, <2>2, <2>3, ToldBy
<1>9. CASE UpdateMember(h)
  <2> DEFINE id == seen[h].id
  <2>1. /\ ~Ahead(h) /\ ~PostJoin(h) /\ ~PostLeave(h) /\ pc[h] = "updating"
    BY <1>9 DEF UpdateMember, PostJoin, PostLeave, Ahead, Announcing, SyncPlaces
  <2>2. op'[h] = op[h] /\ pc'[h] = "counting"
    BY <1>9, UpdateAlone
  <2>3. id \in RowsOf(u)
    BY <1>0, <2>1 DEF SoloInv
  <2>4. /\ members' = [members EXCEPT ![id].status = op[h].status]
        /\ LeaveOpen({members[i].user :
             i \in (ApprovedIn(members) \cap DOMAIN members') \ ApprovedIn(members')})
    BY <1>9, <2>3 DEF UpdateMember, Change, RowsOf
  <2>5. /\ DOMAIN members' = DOMAIN members /\ members'[id].status = op[h].status
        /\ \A i \in DOMAIN members : i # id => members'[i] = members[i]
        /\ members'[id].user = u
    <3>1. members[id] \in Row /\ id \in DOMAIN members /\ members[id].user = u
      BY <2>3 DEF Typed, Data, IsTable, RowsOf
    <3> QED
      BY <2>4, <3>1 DEF Row
  <2>6. id \in RowsOf(u)' /\ \A i \in RowsOf(u)' : i = id
    <3>1. \A i \in RowsOf(u)' : i \in RowsOf(u)
      BY <2>5, <2>3 DEF RowsOf
    <3> QED
      BY <1>1, <2>3, <2>5, <3>1 DEF RowsOf
  <2>7. IsApproved(u)' <=> op[h].status = "APPROVED"
    BY <2>5, <2>6 DEF IsApproved, ApprovedIn, RowsOf
  <2>8. CASE op[h].status = "APPROVED"
    <3>1. Announcing(h)' /\ pc'[h] # "deleting"
      BY <2>2, <2>8 DEF Announcing, SyncPlaces
    <3> QED
      BY <2>7, <2>8, <3>1, ToldBy
  <2>9. CASE op[h].status # "APPROVED"
    <3>1. ~Ahead(h)'
      BY <2>2, <2>9 DEF Ahead, Announcing, SyncPlaces
    <3>2. IsApproved(u) => notice'[u] = "open"
      <4> SUFFICES ASSUME IsApproved(u) PROVE notice'[u] = "open"
        OBVIOUS
      <4>1. id \in ApprovedIn(members)
        BY <1>1, <2>3 DEF IsApproved
      <4>2. id \in (ApprovedIn(members) \cap DOMAIN members') \ ApprovedIn(members')
        BY <2>3, <2>5, <2>9, <4>1 DEF ApprovedIn, RowsOf
      <4>3. members[id].user = u
        BY <2>3 DEF RowsOf
      <4> HIDE DEF id
      <4>4. u \in {members[i].user :
                    i \in (ApprovedIn(members) \cap DOMAIN members') \ ApprovedIn(members')}
        BY <4>2, <4>3
      <4> QED
        BY <2>4, <4>4 DEF LeaveOpen
    <3> QED
      BY <1>4, <2>1, <2>7, <2>9, <3>1, <3>2, ToldBy
  <2> QED
    BY <2>8, <2>9
<1>10. CASE Reinsert(h)
  BY <1>0, <1>10 DEF SoloInv, Reinsert
<1>11. CASE PostLeave(h)
  <2>1. notice'[u] = "out" /\ pc'[h] = "deleting"
    BY <1>0, <1>11 DEF PostLeave, Say, Goto
  <2> QED
    BY <2>1, ToldBy
<1>12. CASE Delete(h)
  <2>1. /\ Ahead(h) /\ ~PostJoin(h) /\ ~PostLeave(h) /\ pc[h] = "deleting"
        /\ op[h].status = "none"
    BY <1>0, <1>12 DEF Delete, PostJoin, PostLeave, Ahead, Serving, Requests, JoinPlaces,
       UpdatePlaces, PartyPlaces, SyncPlaces
  <2>2. notice'[u] # "in"
    BY <1>4, <2>1
  <2>3. RowsOf(u)' = {}
    BY <1>12 DEF Delete, Change, RowsOf
  <2>4. ~IsApproved(u)'
    BY <2>3 DEF IsApproved
  <2>5. pc'[h] = "idle" \/ (pc'[h] = "counting" /\ op'[h] = op[h])
    BY <1>0, <1>12 DEF Delete, Goto, Finish
  <2>6. ~Ahead(h)'
    BY <2>1, <2>5 DEF Ahead, Announcing, SyncPlaces
  <2> QED
    BY <2>2, <2>4, <2>6, ToldBy
<1>13. CASE CountApproved(h) \/ StoreCount(h)
  <2>1. UNCHANGED members /\ ~PostJoin(h) /\ ~PostLeave(h)
    BY <1>13 DEF CountApproved, StoreCount, PostJoin, PostLeave
  <2>2. \/ /\ Announcing(h) /\ Announcing(h)' /\ pc'[h] # "deleting"
        \/ /\ ~Ahead(h) /\ ~Ahead(h)'
    BY <1>0, <1>13 DEF CountApproved, StoreCount, Goto, Finish, Announcing, Ahead, SyncPlaces
  <2> QED
    BY <1>3, <1>4, <2>1, <2>2, ToldBy
<1>14. CASE PostJoin(h)
  <2>1. /\ notice'[u] = "in" /\ pc'[h] = "idle" /\ UNCHANGED members /\ pc[h] = "announcing"
    BY <1>0, <1>14 DEF PostJoin, Say, Finish
  <2>2. IsApproved(u)
    BY <1>4, <2>1 DEF Announcing
  <2>3. ~Ahead(h)'
    BY <2>1 DEF Ahead, Announcing, SyncPlaces
  <2> QED
    BY <1>3, <2>1, <2>2, <2>3, ToldBy
<1> QED
  BY <1>5, <1>6, <1>7, <1>8, <1>9, <1>10, <1>11, <1>12, <1>13, <1>14 DEF Step

\* A request about u that dies.
LEMMA ToldIfDead ==
    ASSUME Typed, SoloInv, NEW h \in Handlers, Die(h), pc[h] # "idle",
           NEW u \in Users \ mixed, op[h].user = u
    PROVE  Told(u)'
<1>1. \A g \in Handlers \ {h} : pc'[g] = pc[g] /\ op'[g] = op[g]
  BY HandlerStep
<1>2. About(u) \subseteq {h}
  BY DEF About, Running, SoloInv
<1>3. pc'[h] = "idle"
  BY DEF Die, Typed, Control
<1>4. About(u)' = {}
  BY <1>1, <1>2, <1>3 DEF About, Running
<1>5. notice'[u] = "open"
  BY DEF Die, LeaveOpen
<1> QED
  BY <1>4, <1>5 DEF Told

LEMMA NoticeInvInit == Init => NoticeInv
<1> SUFFICES ASSUME Init, NEW u \in Users PROVE u \notin mixed /\ Told(u)
  BY DEF NoticeInv
<1>1. About(u) = {} /\ RowsOf(u) = {} /\ notice[u] = "out" /\ u \notin mixed
  BY DEF Init, About, Running, RowsOf
<1> QED
  BY <1>1 DEF Told, IsApproved

LEMMA NoticeInvStep ==
    Typed /\ OwnerInv /\ SoloInv /\ JoinInv /\ NoticeInv /\ [Next]_vars => NoticeInv'
<1> SUFFICES ASSUME Typed, OwnerInv, SoloInv, JoinInv, NoticeInv, [Next]_vars
             PROVE  NoticeInv'
  OBVIOUS
<1>1. CASE UNCHANGED vars
  BY <1>1 DEF vars, history, NoticeInv, Told, About, Running, Ahead, Announcing, IsApproved,
     RowsOf, ApprovedIn
<1>2. ASSUME NEW h \in Handlers, Receive(h) \/ Step(h) \/ Die(h), NEW u \in Users
      PROVE  IF u \in mixed' THEN notice'[u] = "open" ELSE Told(u)'
  <2>1. CASE u \in mixed'
    BY <1>2, <2>1, NoticeStep DEF NoticeInv
  <2>2. CASE u \notin mixed'
    <3>1. u \notin mixed /\ Told(u)
      BY <1>2, <2>2, HandlerStep DEF NoticeInv
    <3>2. CASE Receive(h)
      BY <2>2, <3>1, <3>2, ToldOnArrival
    <3>3. CASE ~Receive(h)
      <4>1. pc[h] # "idle"
        BY <1>2, <3>3 DEF Step, Die, CheckRecruiting, LookUp, Insert, FindMember, LoadMember,
           UpdateMember, Reinsert, PostLeave, Delete, CountApproved, StoreCount, PostJoin,
           ReadParty, CompareParty, WriteParty
      <4>2. CASE op[h].user # u
        BY <1>2, <2>2, <3>1, <3>3, <4>1, <4>2, ToldOfOthers
      <4>3. CASE op[h].user = u /\ Step(h)
        BY <2>2, <3>1, <4>1, <4>3, ToldAlone
      <4>4. CASE op[h].user = u /\ Die(h)
        BY <2>2, <3>1, <4>1, <4>4, ToldIfDead
      <4> QED
        BY <1>2, <3>3, <4>2, <4>3, <4>4
    <3> QED
      BY <3>2, <3>3
  <2> QED
    BY <2>1, <2>2
<1>3. ASSUME NEW h \in Handlers, Receive(h) \/ Step(h) \/ Die(h) PROVE NoticeInv'
  BY <1>2, <1>3 DEF NoticeInv
<1> QED
  BY <1>1, <1>3 DEF Next

\* However the requests about other users interleave and fail, the notices tell
\* who is a member: a JOIN tells of a new approval, and while no request about a
\* user runs the last notice says whether the user is approved, unless requests
\* about that user overlapped, or one failed or rejected the member since
\* (updateStatus, remove).
THEOREM NoticesAreTrue == Spec => []ChatTellsMembership
<1>1. JoinInv /\ NoticeInv => ChatTellsMembership
  <2> SUFFICES ASSUME JoinInv, NoticeInv, NEW u \in Users, notice[u] # "open",
                      \A h \in Running : op[h].user # u
               PROVE  notice[u] = "in" <=> RowsOf(u) \cap ApprovedIn(members) # {}
    BY DEF ChatTellsMembership, JoinInv
  <2>1. Told(u) /\ About(u) = {}
    BY DEF NoticeInv, About
  <2> QED
    BY <2>1 DEF Told, IsApproved
<1> QED
  BY <1>1, TypedInit, TypedStep, SoloInit, OwnerStep, SoloStep, CalmInit, JoinStep,
     NoticeInvInit, NoticeInvStep, PTL DEF Spec
=============================================================================
