------------------------- MODULE SettlementCreation -------------------------
(***************************************************************************)
(* SettlementsService.create for one party: it looks for a settlement that *)
(* is under way and inserts a draft when there is none.  The look-up and   *)
(* the INSERT are two statements outside any transaction, no index allows  *)
(* only one settlement per party, and members find the settlement through  *)
(* findByPartyId, which returns the newest one.                            *)
(***************************************************************************)
EXTENDS Naturals, Sequences, FiniteSets

CONSTANTS
    Handlers,      \* create requests of the host that may run at once
    MaxRows        \* bound: settlements the party ever gets

VARIABLES
    rows,          \* status of the party's settlements in order of createdAt
    pc,            \* where each create request is
    raced          \* history: an insert overlapped another create request

vars == <<rows, pc, raced>>

Status == {"DRAFT", "SELECTING", "CONFIRMED", "COMPLETED"}
\* Mutant: a confirmed settlement no longer counts as under way.
InProgress_Unconfirmed == {"DRAFT", "SELECTING"}
InProgress == {"DRAFT", "SELECTING", "CONFIRMED"}

\* Settlements under way, as create() looks for them.
Active == {i \in DOMAIN rows : rows[i] \in InProgress}

\* Those that are really not finished.
Unfinished == {i \in DOMAIN rows : rows[i] # "COMPLETED"}

Init ==
    /\ rows = <<>>
    /\ pc = [h \in Handlers |-> "idle"]
    /\ raced = FALSE

\* The party exists and the request comes from its host.
Call(h) ==
    /\ pc[h] = "idle"
    /\ pc' = [pc EXCEPT ![h] = "looking"]
    /\ UNCHANGED <<rows, raced>>

\* findOne finds a settlement under way and create answers with it ...
FindExisting(h) ==
    /\ pc[h] = "looking"
    /\ Active # {}
    /\ pc' = [pc EXCEPT ![h] = "idle"]
    /\ UNCHANGED <<rows, raced>>

\* ... or finds none and goes on to insert one.
FindNone(h) ==
    /\ pc[h] = "looking"
    /\ Active = {}
    /\ pc' = [pc EXCEPT ![h] = "inserting"]
    /\ UNCHANGED <<rows, raced>>

\* Mutant: a settlement is inserted in a state the others do not know.
Insert_Unknown(h) ==
    /\ pc[h] = "inserting"
    /\ Len(rows) < MaxRows
    /\ rows' = Append(rows, "OPEN")
    /\ pc' = [pc EXCEPT ![h] = "idle"]
    /\ UNCHANGED raced

Insert(h) ==
    /\ pc[h] = "inserting"
    /\ Len(rows) < MaxRows
    /\ rows' = Append(rows, "DRAFT")
    /\ pc' = [pc EXCEPT ![h] = "idle"]
    /\ raced' = (raced \/ \E g \in Handlers \ {h} : pc[g] = "inserting")

\* The request dies before the INSERT.  One whose answer is lost after it is
\* an Insert like any other: the host simply calls again.
Die(h) ==
    /\ pc[h] # "idle"
    /\ pc' = [pc EXCEPT ![h] = "idle"]
    /\ UNCHANGED <<rows, raced>>

\* The other endpoints move a settlement along its life (module Settlement).
Advance(i) ==
    /\ \/ rows[i] = "DRAFT" /\ rows' = [rows EXCEPT ![i] = "SELECTING"]
       \/ /\ rows[i] = "SELECTING"
          /\ \E s \in Status \ {"SELECTING"} : rows' = [rows EXCEPT ![i] = s]
       \/ rows[i] = "CONFIRMED" /\ rows' = [rows EXCEPT ![i] = "COMPLETED"]
    /\ UNCHANGED <<pc, raced>>

Next ==
    \/ \E h \in Handlers :
         Call(h) \/ FindExisting(h) \/ FindNone(h) \/ Insert(h) \/ Die(h)
    \/ \E i \in DOMAIN rows : Advance(i)

Spec == Init /\ [][Next]_vars
-----------------------------------------------------------------------------
TypeOK ==
    /\ rows \in Seq(Status)
    /\ pc \in [Handlers -> {"idle", "looking", "inserting"}]
    /\ raced \in BOOLEAN

\* create() checks for a settlement under way so that a party has at most one
\* (settlements.service.ts:145).
OneUnfinished == Cardinality(Unfinished) <= 1

\* While no insert overlapped another create, repeated and retried creates do
\* leave at most one settlement under way, and it is the newest, the one that
\* findByPartyId shows to the members.
OneUnfinishedUnlessRaced ==
    ~raced => /\ OneUnfinished
              /\ Unfinished \subseteq {Len(rows)}
=============================================================================
