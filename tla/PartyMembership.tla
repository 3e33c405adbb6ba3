-------------------------- MODULE PartyMembership --------------------------
(***************************************************************************)
(* The members of one party: PartyMembersService with the join and status  *)
(* endpoints of PartiesService.  No request opens a transaction: each of   *)
(* its queries is a step of its own and requests interleave between them.  *)
(*                                                                         *)
(* repository.save(entity) loads the row again and writes the columns in   *)
(* which the entity differs, or inserts the entity when its row is gone.   *)
(* The host's own APPROVED row, made with the party, is never changed by   *)
(* these requests and is counted as the 1 in TrueCount.                    *)
(***************************************************************************)
EXTENDS Naturals, FiniteSets

CONSTANTS
    Users,         \* users other than the host
    Handlers,      \* requests that may run at the same time
    MaxRows,       \* bound: party_members ids ever allocated
    Asked          \* bound: the statuses that are asked for a party

PartyStatus == {"RECRUITING", "CLOSED"}

ASSUME MembershipBounds == MaxRows \in Nat /\ Asked \subseteq PartyStatus

VARIABLES
    members,       \* party_members of the party: id -> [user, status]
    nextId,        \* AUTO_INCREMENT of party_members
    party,         \* the parties row: [status, count], count is currentCount
    pc,            \* where each request is
    op,            \* what each request asks for
    seen,          \* what each request has read and not yet used
    due,           \* history: users approved and not announced since
    extra,         \* history: users announced without an approval to announce
    past,          \* history: every value TrueCount has had
    notice,        \* what the last notice in the chat says of each user: "in" after
                   \* JOIN, "out" after LEAVE or without any; history: "open" if a
                   \* request failed, rejected a member or overlapped another
    mixed,         \* history: users about whom two requests overlapped
    disturbed      \* history: any two requests overlapped, or one died

history == <<due, past, notice>>
vars == <<members, nextId, party, pc, op, seen, extra, history, mixed, disturbed>>

MemberStatus == {"PENDING", "APPROVED", "REJECTED"}

Requests ==
    [kind : {"join"}, user : Users, status : {"PENDING"}]
      \cup [kind : {"updateStatus"}, user : Users, status : {"APPROVED", "REJECTED"}]
      \cup [kind : {"remove"}, user : Users, status : {"none"}]
      \cup [kind : {"party"}, user : {"none"}, status : Asked]
NoRequest == [kind |-> "none", user |-> "none", status |-> "none"]

\* id 0: no row; was: the status read; dirty: columns save() will write.
Nothing == [id |-> 0, was |-> "none", count |-> 1, dirty |-> {}]

Starts == [join |-> "joining", updateStatus |-> "finding",
           remove |-> "finding", party |-> "reading"]

RowsOf(u) == {i \in DOMAIN members : members[i].user = u}
ApprovedIn(t) == {i \in DOMAIN t : t[i].status = "APPROVED"}
TrueCount == 1 + Cardinality(ApprovedIn(members))
Running == {h \in Handlers : pc[h] # "idle"}

Init ==
    /\ members = <<>>
    /\ nextId = 1
    /\ party = [status |-> "RECRUITING", count |-> 1]
    /\ pc = [h \in Handlers |-> "idle"]
    /\ op = [h \in Handlers |-> NoRequest]
    /\ seen = [h \in Handlers |-> Nothing]
    /\ due = {}
    /\ extra = {}
    /\ past = {1}
    /\ notice = [u \in Users |-> "out"]
    /\ mixed = {}
    /\ disturbed = FALSE

Goto(h, place) ==
    /\ pc' = [pc EXCEPT ![h] = place]
    /\ UNCHANGED <<op, mixed, disturbed>>

Finish(h) ==
    /\ pc' = [pc EXCEPT ![h] = "idle"]
    /\ op' = [op EXCEPT ![h] = NoRequest]
    /\ seen' = [seen EXCEPT ![h] = Nothing]
    /\ UNCHANGED <<mixed, disturbed>>

\* A system message about u, unless the notices about u are no longer relied on.
Say(u, what) ==
    notice' = [notice EXCEPT ![u] = IF u \in mixed THEN "open" ELSE what]

\* Nothing is said of the users in U any more.
LeaveOpen(U) == notice' = [u \in Users |-> IF u \in U THEN "open" ELSE notice[u]]

\* The party_members rows become t; a rejected member is not announced.
Change(t) ==
    /\ members' = t
    /\ LeaveOpen({members[i].user : i \in (ApprovedIn(members) \cap DOMAIN t) \ ApprovedIn(t)})
    /\ past' = past \cup {1 + Cardinality(ApprovedIn(t))}
    /\ due' = due \cup ({t[i].user : i \in ApprovedIn(t) \ ApprovedIn(members)} \ extra)
-----------------------------------------------------------------------------
\* A request of the host, or of a user for himself or herself, arrives; the
\* others are refused by ensureHost and create and change nothing.
Receive(h) ==
    /\ pc[h] = "idle"
    /\ \E r \in Requests :
         /\ pc' = [pc EXCEPT ![h] = Starts[r.kind]]
         /\ op' = [op EXCEPT ![h] = r]
         /\ mixed' = IF \E g \in Running : op[g].user = r.user
                     THEN mixed \cup ({r.user} \cap Users) ELSE mixed
    /\ LeaveOpen(mixed')
    /\ disturbed' = (disturbed \/ Running # {})
    /\ UNCHANGED <<members, nextId, party, seen, extra, due, past>>

(* create and joinParty: the party must be recruiting and the user new.     *)

CheckRecruiting(h) ==
    /\ pc[h] = "joining"
    /\ IF party.status = "RECRUITING" THEN Goto(h, "lookingUp") /\ UNCHANGED seen
       ELSE Finish(h)
    /\ UNCHANGED <<members, nextId, party, extra, history>>

\* Mutant: the user's membership is not looked up.
LookUp_Skipped(h) ==
    /\ pc[h] = "lookingUp"
    /\ Goto(h, "inserting")
    /\ UNCHANGED <<members, nextId, party, seen, extra, history>>

LookUp(h) ==
    /\ pc[h] = "lookingUp"
    /\ IF RowsOf(op[h].user) = {} THEN Goto(h, "inserting") /\ UNCHANGED seen
       ELSE Finish(h)
    /\ UNCHANGED <<members, nextId, party, extra, history>>

NewRow(id, u, status) ==
    [i \in DOMAIN members \cup {id} |->
       IF i = id THEN [user |-> u, status |-> status] ELSE members[i]]

\* Mutant: the application is stored in a state updateStatus does not know.
Insert_Applied(h) ==
    /\ pc[h] = "inserting"
    /\ nextId <= MaxRows
    /\ Change(NewRow(nextId, op[h].user, "APPLIED"))
    /\ nextId' = nextId + 1
    /\ Finish(h)
    /\ UNCHANGED <<party, extra>>

Insert(h) ==
    /\ pc[h] = "inserting"
    /\ nextId <= MaxRows
    /\ Change(NewRow(nextId, op[h].user, "PENDING"))
    /\ nextId' = nextId + 1
    /\ Finish(h)
    /\ UNCHANGED <<party, extra>>

(* updateStatus and remove: find a row of the user, any if there are two.   *)

\* Mutant: the status of a user without a row is stored as a new row.
FindMember_Upserts(h) ==
    /\ pc[h] = "finding"
    /\ \/ /\ RowsOf(op[h].user) = {}
          /\ Goto(h, IF op[h].kind = "remove" THEN "deleting" ELSE "reinserting")
          /\ UNCHANGED seen
       \/ \E i \in RowsOf(op[h].user) :
            /\ seen' = [seen EXCEPT ![h].id = i, ![h].was = members[i].status]
            /\ Goto(h, IF op[h].kind = "updateStatus" THEN "loading" ELSE "deleting")
    /\ UNCHANGED <<members, nextId, party, extra, history>>

FindMember(h) ==
    /\ pc[h] = "finding"
    /\ \/ /\ RowsOf(op[h].user) = {}
          /\ IF op[h].kind = "remove" THEN Goto(h, "deleting") /\ UNCHANGED seen
             ELSE Finish(h)
       \/ \E i \in RowsOf(op[h].user) :
            /\ seen' = [seen EXCEPT ![h].id = i, ![h].was = members[i].status]
            /\ Goto(h, IF op[h].kind = "updateStatus" THEN "loading"
                       ELSE IF members[i].status = "APPROVED" THEN "leaving"
                       ELSE "deleting")
    /\ UNCHANGED <<members, nextId, party, extra, history>>

\* What h has read it does not use again.
Forget(h) == seen' = [seen EXCEPT ![h] = Nothing]

\* Mutant: the previous status is not compared.
Saved_Always(h) == Goto(h, "counting") /\ Forget(h)

\* The request goes on after its save.
Saved(h) ==
    IF seen[h].was # op[h].status THEN Goto(h, "counting") /\ Forget(h)
    ELSE Finish(h)

\* save(member): load the row again and compare.
LoadMember(h) ==
    /\ pc[h] = "loading"
    /\ IF seen[h].id \notin DOMAIN members
       THEN Goto(h, "reinserting") /\ UNCHANGED seen
       ELSE IF members[seen[h].id].status # op[h].status
            THEN Goto(h, "updating") /\ UNCHANGED seen
            ELSE Saved(h)
    /\ UNCHANGED <<members, nextId, party, extra, history>>

\* UPDATE party_members SET status = ... WHERE id = ...
UpdateMember(h) ==
    /\ pc[h] = "updating"
    /\ Change(IF seen[h].id \in DOMAIN members
              THEN [members EXCEPT ![seen[h].id].status = op[h].status]
              ELSE members)
    /\ Saved(h)
    /\ UNCHANGED <<nextId, party, extra>>

\* INSERT of the whole entity, under its old id.  When another save put the
\* row back in between, the primary key refuses and the request fails.
Reinsert(h) ==
    /\ pc[h] = "reinserting"
    /\ IF seen[h].id \in DOMAIN members
       THEN Finish(h) /\ UNCHANGED <<members, history>>
       ELSE /\ Change(NewRow(seen[h].id, op[h].user, op[h].status))
            /\ Saved(h)
    /\ UNCHANGED <<nextId, party, extra>>

\* LEAVE is posted before the rows are deleted.
PostLeave(h) ==
    /\ pc[h] = "leaving"
    /\ Say(op[h].user, "out")
    /\ Goto(h, "deleting")
    /\ UNCHANGED <<members, nextId, party, seen, extra, due, past>>

\* Mutant: the count is not brought up to date after a removal.
Delete_NoSync(h) ==
    /\ pc[h] = "deleting"
    /\ Change([i \in DOMAIN members \ RowsOf(op[h].user) |-> members[i]])
    /\ Finish(h)
    /\ UNCHANGED <<nextId, party, extra>>

Delete(h) ==
    /\ pc[h] = "deleting"
    /\ Change([i \in DOMAIN members \ RowsOf(op[h].user) |-> members[i]])
    /\ IF seen[h].was = "APPROVED" THEN Goto(h, "counting") /\ Forget(h)
       ELSE Finish(h)
    /\ UNCHANGED <<nextId, party, extra>>

(* syncPartyCurrentCount: SELECT COUNT, then UPDATE parties.                *)

CountApproved(h) ==
    /\ pc[h] = "counting"
    /\ seen' = [seen EXCEPT ![h].count = TrueCount]
    /\ Goto(h, "storing")
    /\ UNCHANGED <<members, nextId, party, extra, history>>

\* Mutant: the stored count is changed by one instead of set to the count.
StoreCount_ByOne(h) ==
    /\ pc[h] = "storing"
    /\ party' = [party EXCEPT !.count = IF op[h].status = "APPROVED" THEN @ + 1
                                        ELSE IF @ > 0 THEN @ - 1 ELSE @]
    /\ IF op[h].status = "APPROVED" THEN Goto(h, "announcing") /\ Forget(h)
       ELSE Finish(h)
    /\ UNCHANGED <<members, nextId, extra, history>>

StoreCount(h) ==
    /\ pc[h] = "storing"
    /\ party' = [party EXCEPT !.count = seen[h].count]
    /\ IF op[h].status = "APPROVED" THEN Goto(h, "announcing") /\ Forget(h)
       ELSE Finish(h)
    /\ UNCHANGED <<members, nextId, extra, history>>

PostJoin(h) ==
    /\ pc[h] = "announcing"
    /\ Say(op[h].user, "in")
    /\ due' = due \ {op[h].user}
    /\ extra' = extra \cup ({op[h].user} \ due)
    /\ Finish(h)
    /\ UNCHANGED <<members, nextId, party, past>>

(* PartiesService.updateStatus: find the party, set its status, save it.    *)

ReadParty(h) ==
    /\ pc[h] = "reading"
    /\ seen' = [seen EXCEPT ![h].count = party.count]
    /\ Goto(h, "comparing")
    /\ UNCHANGED <<members, nextId, party, extra, history>>

\* save(party) loads the row again; a count changed since is a difference.
CompareParty(h) ==
    LET dirty == {c \in {"status"} : party.status # op[h].status}
                   \cup {c \in {"count"} : party.count # seen[h].count}
    IN  /\ pc[h] = "comparing"
        /\ IF dirty = {} THEN Finish(h)
           ELSE /\ seen' = [seen EXCEPT ![h].dirty = dirty]
                /\ Goto(h, "writing")
        /\ UNCHANGED <<members, nextId, party, extra, history>>

WriteParty(h) ==
    /\ pc[h] = "writing"
    /\ party' =
         [status |-> IF "status" \in seen[h].dirty THEN op[h].status ELSE party.status,
          count |-> IF "count" \in seen[h].dirty THEN seen[h].count ELSE party.count]
    /\ Finish(h)
    /\ UNCHANGED <<members, nextId, extra, history>>

\* A query or a post fails, or the process dies: what was written stays.
Die(h) ==
    /\ pc[h] # "idle"
    /\ pc' = [pc EXCEPT ![h] = "idle"]
    /\ op' = [op EXCEPT ![h] = NoRequest]
    /\ seen' = [seen EXCEPT ![h] = Nothing]
    /\ disturbed' = TRUE
    /\ LeaveOpen({op[h].user})
    /\ UNCHANGED <<members, nextId, party, extra, due, past, mixed>>

Step(h) ==
    \/ CheckRecruiting(h) \/ LookUp(h) \/ Insert(h)
    \/ FindMember(h) \/ LoadMember(h) \/ UpdateMember(h) \/ Reinsert(h)
    \/ PostLeave(h) \/ Delete(h)
    \/ CountApproved(h) \/ StoreCount(h) \/ PostJoin(h)
    \/ ReadParty(h) \/ CompareParty(h) \/ WriteParty(h)

Next == \E h \in Handlers : Receive(h) \/ Step(h) \/ Die(h)

Spec == Init /\ [][Next]_vars

\* No request fails and the process does not die.
CalmSpec == Init /\ [][\E h \in Handlers : Receive(h) \/ Step(h)]_vars
-----------------------------------------------------------------------------
Places == {"idle", "joining", "lookingUp", "inserting", "finding", "loading",
           "updating", "reinserting", "leaving", "deleting", "counting",
           "storing", "announcing", "reading", "comparing", "writing"}

\* The values every variable ranges over.
TypeOK ==
    /\ members \in UNION {[S -> [user : Users, status : MemberStatus]] :
                          S \in SUBSET (1..MaxRows)}
    /\ nextId \in 1 .. MaxRows + 1
    /\ party \in [status : PartyStatus, count : Nat]
    /\ pc \in [Handlers -> Places]
    /\ op \in [Handlers -> Requests \cup {NoRequest}]
    /\ seen \in [Handlers -> [id : 0..MaxRows, was : MemberStatus \cup {"none"},
                              count : Nat, dirty : SUBSET {"status", "count"}]]
    /\ due \subseteq Users
    /\ extra \subseteq Users
    /\ past \subseteq Nat
    /\ notice \in [Users -> {"in", "out", "open"}]
    /\ mixed \subseteq Users
    /\ disturbed \in BOOLEAN

\* However requests interleave, fail or write back stale rows, currentCount is
\* a number of participants the party really had at some time: it is always
\* recounted, never adjusted, so errors cannot add up (syncPartyCurrentCount).
CountIsAPastCount == party.count \in past

\* After any sequence of requests that ran one at a time and did not fail,
\* currentCount is the number of approved members (updateStatus, remove,
\* PartiesService.updateStatus).
CountExactUnlessDisturbed ==
    Running = {} /\ ~disturbed => party.count = TrueCount

\* A user has at most one row, unless two requests about that user ever
\* overlapped: the look-up before the INSERT is the only protection.
OneRowUnlessMixed ==
    \A u \in Users \ mixed : Cardinality(RowsOf(u)) <= 1

\* The chat tells who is a member (updateStatus, remove).  A JOIN is posted only
\* for an approval that has not been announced yet, unless requests about that
\* user overlapped; and while no request about a user runs the last notice says
\* whether the user is approved, unless requests about the user overlapped, or
\* since that notice one failed or rejected the member: JOIN is posted after the
\* approval and LEAVE before the removal, and neither is taken back.
ChatTellsMembership ==
    /\ extra \subseteq mixed
    /\ \A u \in Users :
         notice[u] # "open" /\ (\A h \in Running : op[h].user # u) =>
            (notice[u] = "in" <=> RowsOf(u) \cap ApprovedIn(members) # {})

\* A removed user comes back only by joining again: no late save puts the row
\* back, unless requests about that user overlapped.
ComesBackOnlyByJoining ==
    [][\A u \in Users :
         RowsOf(u) = {} /\ RowsOf(u)' # {} =>
            \/ u \in mixed
            \/ \E i \in RowsOf(u)' : i = nextId /\ members'[i].status = "PENDING"]_vars

\* currentCount is the current number of participants, the host included
\* (party.entity.ts:55), at least while no request is running.
CountIsCurrent == Running = {} => party.count = TrueCount

\* Approving a member that is already approved posts no second JOIN message
\* (party-members.service.spec.ts:71): while a member is approved, no JOIN was
\* posted that announced nothing new.
JoinAnnouncedOnce ==
    \A u \in extra : \A i \in RowsOf(u) : members[i].status # "APPROVED"
=============================================================================
