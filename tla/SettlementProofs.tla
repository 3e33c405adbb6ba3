-------------------------- MODULE SettlementProofs --------------------------
(***************************************************************************)
(* Theorems about Settlement, for any users, any number of concurrent      *)
(* requests, any items and any bounds: its types, that every step is one   *)
(* atomic request or none, and, from what each atomic request keeps, with  *)
(* no regard to interleavings, the safety of the committed rows.           *)
(***************************************************************************)
EXTENDS Settlement, SequenceTheorems, AllocationProofs, TLAPS

\* Messages wait only in a handler that is posting and are posted one by one
\* until none is left.
PostingHasMessages ==
    \A h \in Handlers : pc[h] = "posting" => outbox[h] # <<>>

TypeInv == TypeOK /\ PostingHasMessages

-----------------------------------------------------------------------------
(* Typing lemmas about the operators the statements are built from.        *)

LEMMA EmptyTable ==
    ASSUME NEW K, NEW V
    PROVE  <<>> \in Tables(K, V)
<1>1. <<>> \in [{} -> V]
  OBVIOUS
<1>2. {} \in SUBSET K
  OBVIOUS
<1> QED BY <1>1, <1>2 DEF Tables

LEMMA TableIntro ==
    ASSUME NEW K, NEW V, NEW S \in SUBSET K, NEW f \in [S -> V]
    PROVE  f \in Tables(K, V)
BY DEF Tables

LEMMA TableElim ==
    ASSUME NEW K, NEW V, NEW f \in Tables(K, V)
    PROVE  /\ DOMAIN f \in SUBSET K
           /\ f \in [DOMAIN f -> V]
BY DEF Tables

LEMMA NewRowType == NewRow \in Rows
BY EmptyTable, Bounds DEF NewRow, Rows, Status

LEMMA SelectType ==
    ASSUME NEW t \in Tables(1..MaxItemId, Item), NEW u \in Users, NEW S
    PROVE  Select(t, u, S) \in Tables(1..MaxItemId, Item)
<1>1. /\ DOMAIN t \in SUBSET (1..MaxItemId)
      /\ t \in [DOMAIN t -> Item]
  BY TableElim
<1>2. Select(t, u, S) \in [DOMAIN t -> Item]
  BY <1>1 DEF Select, Item
<1> QED BY <1>1, <1>2, TableIntro

LEMMA UnselectedType ==
    ASSUME NEW t \in Tables(1..MaxItemId, Item)
    PROVE  Unselected(t) \in Tables(1..MaxItemId, Item)
<1>1. /\ DOMAIN t \in SUBSET (1..MaxItemId)
      /\ t \in [DOMAIN t -> Item]
  BY TableElim
<1>2. Unselected(t) \in [DOMAIN t -> Item]
  BY <1>1 DEF Unselected, Item
<1> QED BY <1>1, <1>2, TableIntro

\* Only guests are billed.
LEMMA BillDomain ==
    ASSUME NEW t \in Tables(1..MaxItemId, Item)
    PROVE  DOMAIN BillOf(t, Host) \in SUBSET Guests
<1>1. t \in [DOMAIN t -> Item]
  BY TableElim
<1>2. Participants(t) \subseteq Users
  BY <1>1 DEF Participants, Item
<1> QED BY <1>2 DEF BillOf, Users

LEMMA BillType ==
    ASSUME NEW t \in Tables(1..MaxItemId, Item),
           BillOf(t, Host) \in [DOMAIN BillOf(t, Host) -> 0..MaxAmount]
    PROVE  BillOf(t, Host) \in Tables(Guests, 0..MaxAmount)
BY BillDomain, TableIntro

\* Every line total is a number of won.
LEMMA LineTotalType ==
    ASSUME NEW line \in Lines
    PROVE  LineTotal(line) \in Nat
<1>1. line.price \in Nat /\ line.quantity \in Nat /\ Unit \in Nat \ {0}
  BY Bounds
<1>2. Rounded(line.price, Unit) \in Nat /\ Rounded(line.quantity, Unit) \in Nat
  BY <1>1, RoundedNat
<1> QED BY <1>2 DEF LineTotal

\* A line without fractions is stored as it was asked for.
LEMMA WholeLine ==
    ASSUME NEW line \in Lines, Whole(line)
    PROVE  line.price * line.quantity = (Unit * Unit) * LineTotal(line)
<1> DEFINE p == line.price \div Unit
           q == line.quantity \div Unit
<1>1. line.price \in Nat /\ line.quantity \in Nat /\ Unit \in Nat \ {0}
  BY Bounds
<1>2. /\ p \in Nat /\ line.price = Unit * p + (line.price % Unit)
      /\ q \in Nat /\ line.quantity = Unit * q + (line.quantity % Unit)
  BY <1>1, Division
<1> HIDE DEF p, q
<1>3. line.price = Unit * p /\ line.quantity = Unit * q
  BY <1>1, <1>2 DEF Whole
<1>4. Rounded(line.price, Unit) = p /\ Rounded(line.quantity, Unit) = q
  BY <1>1, <1>2, <1>3, RoundedWhole
<1>5. (Unit * p) * (Unit * q) = (Unit * Unit) * (p * q)
  BY <1>1, <1>2
<1> QED BY <1>3, <1>4, <1>5 DEF LineTotal

\* Without fractions the total is that of the stored lines.
LEMMA WholeTotal ==
    ASSUME NEW S, IsFiniteSet(S), NEW lines \in [S -> Lines],
           \A i \in S : Whole(lines[i])
    PROVE  AskedTotal(lines) = GrandTotal([i \in S |-> StoredItem(lines[i])])
<1> DEFINE f == [i \in S |-> LineTotal(lines[i])]
           c == Unit * Unit
<1>1. \A i \in S : f[i] \in Nat
  BY LineTotalType
<1>2. f \in [S -> Nat] /\ f \in [S -> Int]
  BY <1>1
<1>3. c \in Nat \ {0} /\ c \in Int
  BY Bounds
<1>4. \A i \in S : lines[i].price * lines[i].quantity = c * f[i]
  BY WholeLine
<1>5. GrandTotal([i \in S |-> StoredItem(lines[i])]) = SumFunction(f)
  <2>1. [i \in DOMAIN [j \in S |-> StoredItem(lines[j])] |->
           [j \in S |-> StoredItem(lines[j])][i].total] = f
    BY DEF StoredItem
  <2> QED BY <2>1 DEF GrandTotal
<1> HIDE DEF f, c
<1>6. [i \in DOMAIN lines |-> lines[i].price * lines[i].quantity] = [i \in S |-> c * f[i]]
  BY <1>4
<1>7. SumFunction([i \in S |-> c * f[i]]) = c * SumFunction(f)
  BY <1>2, <1>3, SumTimes
<1>8. SumFunction(f) \in Nat
  BY <1>2, SumNat
<1>9. AskedTotal(lines) = Rounded(c * SumFunction(f), c)
  BY <1>6, <1>7 DEF AskedTotal, c
<1>10. Rounded(c * SumFunction(f), c) = SumFunction(f)
  BY <1>3, <1>8, RoundedWhole
<1> QED BY <1>5, <1>9, <1>10

LEMMA RowFields ==
    ASSUME NEW s \in Rows
    PROVE  /\ s.status \in Status
           /\ s.total \in 0..MaxAmount
           /\ s.items \in Tables(1..MaxItemId, Item)
           /\ s.payments \in Tables(Guests, Payment)
BY DEF Rows

-----------------------------------------------------------------------------
(* Type correctness: one lemma per shape of step, then the induction.      *)

LEMMA FinishType ==
    ASSUME NEW h \in Handlers, TypeInv, Finish(h)
    PROVE  /\ pc' \in [Handlers -> Places]
           /\ op' \in [Handlers -> Requests \cup {NoRequest}]
           /\ work' \in [Handlers -> Rows]
           /\ outbox' \in [Handlers -> Seq(Messages)]
           /\ PostingHasMessages'
BY NewRowType DEF TypeInv, TypeOK, PostingHasMessages, Finish, Goto, Places

LEMMA AbandonType ==
    ASSUME NEW h \in Handlers, TypeInv, Abandon(h)
    PROVE  TypeInv'
BY FinishType DEF TypeInv, TypeOK, Abandon

\* A statement that leaves well-typed rows and messages keeps the types.
LEMMA WriteType ==
    ASSUME NEW h \in Handlers, NEW s \in Rows, TypeInv, Write(h, s),
           NEW place \in InTransaction, Goto(h, place),
           nextItemId' \in 1 .. MaxItemId + 1,
           outbox' \in [Handlers -> Seq(Messages)],
           \A g \in Handlers \ {h} : outbox'[g] = outbox[g]
    PROVE  TypeInv'
<1>1. TypeOK'
  BY DEF TypeInv, TypeOK, Write, Goto, Places
<1>2. PostingHasMessages'
  BY DEF TypeInv, TypeOK, PostingHasMessages, Write, Goto, InTransaction
<1> QED BY <1>1, <1>2 DEF TypeInv

LEMMA MessageTypes ==
    /\ Notice \in Messages
    /\ Completed \in Messages
    /\ \A u \in Guests : Paid(u) \in Messages
    /\ \A t \in 0..MaxAmount, b \in Tables(Guests, 0..MaxAmount) :
         Confirmed(t, b) \in Messages
BY DEF Messages

LEMMA UpdateItemsType ==
    ASSUME NEW h \in Handlers, TypeInv, UpdateItems(h)
    PROVE  TypeInv'
<1>0. PICK last \in nextItemId - 1 .. MaxItemId :
        \E lines \in [nextItemId .. last -> Lines] :
          /\ AskedTotal(lines) \in 0..MaxAmount
          /\ Write(h, [work[h] EXCEPT
                         !.items = [i \in nextItemId .. last |-> StoredItem(lines[i])],
                         !.total = AskedTotal(lines)])
          /\ nextItemId' = last + 1
  BY DEF UpdateItems
<1>1. PICK lines \in [nextItemId .. last -> Lines] :
        /\ AskedTotal(lines) \in 0..MaxAmount
        /\ Write(h, [work[h] EXCEPT
                       !.items = [i \in nextItemId .. last |-> StoredItem(lines[i])],
                       !.total = AskedTotal(lines)])
        /\ nextItemId' = last + 1
  BY <1>0
<1> DEFINE items == [i \in nextItemId .. last |-> StoredItem(lines[i])]
           s == [work[h] EXCEPT !.items = items, !.total = AskedTotal(lines)]
<1>2. /\ AskedTotal(lines) \in 0..MaxAmount
      /\ Write(h, s)
      /\ nextItemId' = last + 1
  BY <1>1
<1>3. /\ nextItemId .. last \in SUBSET (1..MaxItemId)
      /\ nextItemId' \in 1 .. MaxItemId + 1
  BY <1>2, Bounds DEF TypeInv, TypeOK
<1>4. items \in [nextItemId .. last -> Item]
  BY DEF StoredItem, Item, Whole
<1>5. items \in Tables(1..MaxItemId, Item)
  BY <1>3, <1>4, TableIntro
<1> HIDE DEF items
<1>6. s \in Rows
  BY <1>2, <1>5 DEF TypeInv, TypeOK, Rows
<1> HIDE DEF s
<1>7. /\ Goto(h, "written")
      /\ outbox' = outbox
  BY DEF UpdateItems
<1> QED BY <1>2, <1>3, <1>6, <1>7, WriteType DEF InTransaction, TypeInv, TypeOK

LEMMA StartSelectingType ==
    ASSUME NEW h \in Handlers, TypeInv, StartSelecting(h)
    PROVE  TypeInv'
<1>1. [work[h] EXCEPT !.status = "SELECTING"] \in Rows
  BY DEF TypeInv, TypeOK, Rows, Status
<1>2. outbox' \in [Handlers -> Seq(Messages)]
  BY MessageTypes DEF StartSelecting, TypeInv, TypeOK
<1> QED
  BY <1>1, <1>2, WriteType DEF StartSelecting, InTransaction, TypeInv, TypeOK

LEMMA RevertToDraftType ==
    ASSUME NEW h \in Handlers, TypeInv, RevertToDraft(h)
    PROVE  TypeInv'
<1>1. [work[h] EXCEPT !.status = "DRAFT",
                      !.items = Unselected(work[h].items)] \in Rows
  BY UnselectedType DEF TypeInv, TypeOK, Rows, Status
<1>2. outbox' \in [Handlers -> Seq(Messages)]
  <2>1. <<Notice>> \in Seq(Messages)
    BY MessageTypes
  <2>2. \/ outbox' = [outbox EXCEPT ![h] = <<Notice>>]
        \/ outbox' = outbox
    BY DEF RevertToDraft
  <2> QED BY <2>1, <2>2 DEF TypeInv, TypeOK
<1>3. work[h] \in Rows
  BY DEF TypeInv, TypeOK
<1>4. \E s \in Rows : Write(h, s)
  BY <1>1, <1>3 DEF RevertToDraft
<1>5. \A g \in Handlers \ {h} : outbox'[g] = outbox[g]
  BY DEF RevertToDraft, TypeInv, TypeOK
<1>6. /\ Goto(h, "written")
      /\ nextItemId' \in 1 .. MaxItemId + 1
  BY DEF RevertToDraft, TypeInv, TypeOK
<1> QED BY <1>2, <1>4, <1>5, <1>6, WriteType DEF InTransaction

LEMMA SelectItemsType ==
    ASSUME NEW h \in Handlers, TypeInv, SelectItems(h)
    PROVE  TypeInv'
<1>1. PICK S : Write(h, [work[h] EXCEPT !.items = Select(@, op[h].user, S)])
  BY DEF SelectItems
<1>2. op[h].user \in Users
  BY DEF SelectItems, Doing, TypeInv, TypeOK, Requests, NoRequest
<1>3. Select(work[h].items, op[h].user, S) \in Tables(1..MaxItemId, Item)
  BY <1>2, SelectType, RowFields DEF TypeInv, TypeOK
<1>4. [work[h] EXCEPT !.items = Select(@, op[h].user, S)] \in Rows
  BY <1>3 DEF TypeInv, TypeOK, Rows
<1> QED
  BY <1>1, <1>4, WriteType DEF SelectItems, InTransaction, TypeInv, TypeOK

LEMMA ClaimConfirmType ==
    ASSUME NEW h \in Handlers, TypeInv, ClaimConfirm(h)
    PROVE  TypeInv'
<1> DEFINE s == [work[h] EXCEPT !.status =
                   IF NothingOwed(BillOf(work[h].items, Host))
                   THEN "COMPLETED" ELSE "CONFIRMED"]
<1>1. s \in Rows
  BY DEF TypeInv, TypeOK, Rows, Status
<1>2. Write(h, s) /\ Goto(h, "claimed") /\ UNCHANGED <<nextItemId, outbox>>
  BY DEF ClaimConfirm
<1> HIDE DEF s
<1> QED BY <1>1, <1>2, WriteType DEF InTransaction, TypeInv, TypeOK

LEMMA InsertPaymentsType ==
    ASSUME NEW h \in Handlers, TypeInv, InsertPayments(h)
    PROVE  TypeInv'
<1> DEFINE bill == BillOf(work[h].items, Host)
           payments == [u \in DOMAIN bill |->
                          [amount |-> bill[u],
                           status |-> IF bill[u] = 0 THEN "PAID" ELSE "PENDING"]]
           s == [work[h] EXCEPT !.payments = payments]
           messages == <<Confirmed(work[h].total, bill)>>
                         \o IF NothingOwed(bill) THEN <<Completed>> ELSE <<>>
<1>1. /\ bill \in [DOMAIN bill -> 0..MaxAmount]
      /\ Write(h, s)
      /\ outbox' = [outbox EXCEPT ![h] = messages]
      /\ Goto(h, "written")
      /\ nextItemId' = nextItemId
  BY DEF InsertPayments
<1>2. /\ work[h] \in Rows
      /\ work[h].items \in Tables(1..MaxItemId, Item)
      /\ work[h].total \in 0..MaxAmount
  BY RowFields DEF TypeInv, TypeOK
<1>3. DOMAIN bill \in SUBSET Guests /\ bill \in Tables(Guests, 0..MaxAmount)
  BY <1>1, <1>2, BillDomain, BillType
<1> HIDE DEF bill
<1>4. payments \in [DOMAIN bill -> Payment]
  BY <1>1 DEF Payment
<1>5. payments \in Tables(Guests, Payment)
  BY <1>3, <1>4, TableIntro
<1> HIDE DEF payments
<1>6. s \in Rows
  BY <1>2, <1>5 DEF Rows
<1>7. messages \in Seq(Messages)
  BY <1>2, <1>3, MessageTypes
<1> HIDE DEF s, messages
<1>8. outbox' \in [Handlers -> Seq(Messages)]
  BY <1>1, <1>7 DEF TypeInv, TypeOK
<1> QED BY <1>1, <1>6, <1>8, WriteType DEF InTransaction, TypeInv, TypeOK

LEMMA PaymentFields ==
    ASSUME NEW t \in Tables(Guests, Payment), NEW u \in DOMAIN t
    PROVE  /\ u \in Guests
           /\ [t EXCEPT ![u].status = "PAID"] \in Tables(Guests, Payment)
<1>1. DOMAIN t \in SUBSET Guests /\ t \in [DOMAIN t -> Payment]
  BY TableElim
<1>2. [t[u] EXCEPT !.status = "PAID"] \in Payment
  BY <1>1 DEF Payment
<1>3. [t EXCEPT ![u] = [t[u] EXCEPT !.status = "PAID"]] \in [DOMAIN t -> Payment]
  BY <1>1, <1>2
<1> QED BY <1>1, <1>3, TableIntro

LEMMA SavePaymentType ==
    ASSUME NEW h \in Handlers, TypeInv, SavePayment(h)
    PROVE  TypeInv'
<1>1. PICK u \in DOMAIN work[h].payments :
        /\ Write(h, [work[h] EXCEPT !.payments[u].status = "PAID"])
        /\ outbox' = [outbox EXCEPT ![h] = <<Paid(u)>>]
  BY DEF SavePayment
<1>2. work[h] \in Rows /\ work[h].payments \in Tables(Guests, Payment)
  BY RowFields DEF TypeInv, TypeOK
<1>3. /\ u \in Guests
      /\ [work[h].payments EXCEPT ![u].status = "PAID"] \in Tables(Guests, Payment)
  BY <1>1, <1>2, PaymentFields
<1>4. [work[h] EXCEPT !.payments[u].status = "PAID"] \in Rows
  BY <1>2, <1>3 DEF Rows
<1>5. outbox' \in [Handlers -> Seq(Messages)]
  BY <1>1, <1>3, MessageTypes DEF TypeInv, TypeOK
<1> QED
  BY <1>1, <1>4, <1>5, WriteType DEF SavePayment, InTransaction, TypeInv, TypeOK

LEMMA CompleteIfPaidType ==
    ASSUME NEW h \in Handlers, TypeInv, CompleteIfPaid(h)
    PROVE  TypeInv'
<1>1. /\ work[h] \in Rows
      /\ [work[h] EXCEPT !.status = "COMPLETED"] \in Rows
  BY DEF TypeInv, TypeOK, Rows, Status
<1>2. Append(outbox[h], Completed) \in Seq(Messages)
  BY MessageTypes, AppendProperties DEF TypeInv, TypeOK
<1>3. outbox' \in [Handlers -> Seq(Messages)]
  BY <1>2 DEF CompleteIfPaid, TypeInv, TypeOK
<1>4. \E s \in Rows : Write(h, s)
  BY <1>1 DEF CompleteIfPaid
<1>5. \A g \in Handlers \ {h} : outbox'[g] = outbox[g]
  BY DEF CompleteIfPaid, TypeInv, TypeOK
<1>6. /\ Goto(h, "written")
      /\ nextItemId' \in 1 .. MaxItemId + 1
  BY DEF CompleteIfPaid, TypeInv, TypeOK
<1> QED BY <1>3, <1>4, <1>5, <1>6, WriteType DEF InTransaction

LEMMA RepeatPaymentType ==
    ASSUME NEW h \in Handlers, TypeInv, RepeatPayment(h)
    PROVE  TypeInv'
<1>1. work[h] \in Rows
  BY DEF TypeInv, TypeOK
<1> QED BY <1>1, WriteType DEF RepeatPayment, InTransaction, TypeInv, TypeOK

LEMMA StatementType ==
    ASSUME NEW h \in Handlers, TypeInv, Statement(h)
    PROVE  TypeInv'
BY UpdateItemsType, StartSelectingType, RevertToDraftType, SelectItemsType,
   ClaimConfirmType, InsertPaymentsType, RepeatPaymentType, SavePaymentType,
   CompleteIfPaidType DEF Statement

LEMMA CommitType ==
    ASSUME NEW h \in Handlers, TypeInv, Commit(h)
    PROVE  TypeInv'
<1>1. CASE outbox[h] = <<>>
  BY <1>1, FinishType DEF Commit, TypeInv, TypeOK
<1>2. CASE outbox[h] # <<>>
  <2>1. TypeOK'
    BY <1>2, NewRowType DEF Commit, TypeInv, TypeOK, Goto, Places
  <2>2. PostingHasMessages'
    BY <1>2 DEF Commit, TypeInv, TypeOK, Goto, PostingHasMessages
  <2> QED BY <2>1, <2>2 DEF TypeInv
<1> QED BY <1>1, <1>2

LEMMA PostType ==
    ASSUME NEW h \in Handlers, TypeInv, Post(h) \/ LosePost(h)
    PROVE  TypeInv'
<1>1. /\ outbox[h] \in Seq(Messages) /\ outbox[h] # <<>>
      /\ Head(outbox[h]) \in Messages
      /\ Tail(outbox[h]) \in Seq(Messages)
  <2>1. outbox[h] \in Seq(Messages) /\ outbox[h] # <<>>
    BY DEF Post, LosePost, TypeInv, TypeOK, PostingHasMessages
  <2> QED BY <2>1, HeadTailProperties
<1>2. NextMessage(h)
  BY DEF Post, LosePost
<1>3. chat' \in Seq(Messages)
  <2>1. Append(chat, Head(outbox[h])) \in Seq(Messages)
    BY <1>1, AppendProperties DEF TypeInv, TypeOK
  <2> QED BY <2>1 DEF Post, LosePost, TypeInv, TypeOK
<1>4. CASE Tail(outbox[h]) = <<>>
  BY <1>2, <1>3, <1>4, FinishType DEF NextMessage, TypeInv, TypeOK
<1>5. CASE Tail(outbox[h]) # <<>>
  <2>1. TypeOK'
    BY <1>1, <1>2, <1>3, <1>5 DEF NextMessage, TypeInv, TypeOK
  <2>2. PostingHasMessages'
    BY <1>1, <1>2, <1>5 DEF NextMessage, TypeInv, TypeOK, PostingHasMessages
  <2> QED BY <2>1, <2>2 DEF TypeInv
<1> QED BY <1>4, <1>5

LEMMA TypeStep == TypeInv /\ [Next]_vars => TypeInv'
<1> SUFFICES ASSUME TypeInv, [Next]_vars PROVE TypeInv'
  OBVIOUS
<1>1. ASSUME NEW h \in Handlers, Receive(h) PROVE TypeInv'
  BY <1>1 DEF Receive, Goto, TypeInv, TypeOK, PostingHasMessages, Places
<1>2. ASSUME NEW h \in Handlers, LockSettlement(h) PROVE TypeInv'
  BY <1>2 DEF LockSettlement, Goto, TypeInv, TypeOK, PostingHasMessages,
              Places, InTransaction
<1>3. ASSUME NEW h \in Handlers, LockTimeout(h) PROVE TypeInv'
  BY <1>3, FinishType DEF LockTimeout, TypeInv, TypeOK
<1>4. ASSUME NEW h \in Handlers, Authorize(h) PROVE TypeInv'
  BY <1>4 DEF Authorize, Goto, TypeInv, TypeOK, PostingHasMessages,
              Places, InTransaction
<1>5. ASSUME NEW h \in Handlers, Reject(h) \/ Fail(h) PROVE TypeInv'
  BY <1>5, AbandonType DEF Reject, Fail
<1>6. ASSUME NEW h \in Handlers, Statement(h) PROVE TypeInv'
  BY <1>6, StatementType
<1>7. ASSUME NEW h \in Handlers, Commit(h) PROVE TypeInv'
  BY <1>7, CommitType
<1>8. ASSUME NEW h \in Handlers, Post(h) \/ LosePost(h) PROVE TypeInv'
  BY <1>8, PostType
<1>9. ASSUME NEW h \in Handlers, CommitUnacknowledged(h) PROVE TypeInv'
  BY <1>9, FinishType DEF CommitUnacknowledged, TypeInv, TypeOK
<1>10. CASE Crash
  BY <1>10, NewRowType DEF Crash, TypeInv, TypeOK, PostingHasMessages, Places
<1>11. CASE ChangeMembership
  BY <1>11 DEF ChangeMembership, TypeInv, TypeOK, PostingHasMessages
<1>12. CASE UNCHANGED vars
  BY <1>12 DEF vars, TypeInv, TypeOK, PostingHasMessages
<1> QED
  BY <1>1, <1>2, <1>3, <1>4, <1>5, <1>6, <1>7, <1>8, <1>9, <1>10, <1>11, <1>12
     DEF Next, Step, Fault

\* In every reachable state, however many requests run at once, every variable
\* has its type: the rows fit their columns and the messages name guests.
THEOREM TypeCorrect == Spec => []TypeOK
<1>1. Init => TypeInv
  BY NewRowType, Bounds DEF Init, TypeInv, TypeOK, PostingHasMessages, Places
<1>2. TypeInv => TypeOK
  BY DEF TypeInv
<1> QED BY <1>1, <1>2, TypeStep, PTL DEF Spec

-----------------------------------------------------------------------------
(* Isolation.  The row lock makes concurrent requests behave as if they    *)
(* ran one at a time: Settlement implements SettlementAtomic, for any      *)
(* number of requests.  The safety of the rows then follows from the       *)
(* atomic requests alone (SettlementSafety).                               *)

\* A handler is inside its transaction exactly while it holds the row lock.
LockInv == \A h \in Handlers : pc[h] \in InTransaction <=> lock = h

\* The ids of the items in a row have all been allocated.
Allocated(s) == \A i \in DOMAIN s.items : i < nextItemId

\* What the rows in h's open transaction are, compared with the committed
\* ones: the same before the first statement, one whole request after the
\* last, and in the middle of confirm and updatePayment the first half.
WorkInv(h) ==
    /\ pc[h] \in {"locked", "checked"} => work[h] = db
    /\ pc[h] = "claimed" =>
         /\ db.status = "SELECTING"
         /\ EverythingSelected(db.items)
         /\ work[h] = [db EXCEPT !.status =
                         IF NothingOwed(BillOf(db.items, Host))
                         THEN "COMPLETED" ELSE "CONFIRMED"]
    /\ pc[h] = "saved" =>
         /\ db.status = "CONFIRMED"
         /\ \E u \in DOMAIN db.payments :
              /\ db.payments[u].status = "PENDING"
              /\ work[h] = [db EXCEPT !.payments =
                              [db.payments EXCEPT ![u].status = "PAID"]]
    /\ pc[h] = "written" =>
         /\ Allocated(work[h])
         /\ work[h] = db \/ Atomic!Request(db, work[h])

IsolationInv ==
    /\ TypeInv
    /\ LockInv
    /\ Allocated(db)
    /\ \A h \in Handlers : WorkInv(h)

-----------------------------------------------------------------------------
(* What the handlers that do not move keep.                                *)

\* Only the holder of the lock is in a transaction, so a step of the holder h
\* on its own rows leaves every other handler's invariant true.
LEMMA OthersUndisturbed ==
    ASSUME NEW h \in Handlers, NEW g \in Handlers \ {h},
           IsolationInv, pc[h] \in InTransaction,
           pc' = [pc EXCEPT ![h] = pc'[h]]
    PROVE  WorkInv(g)'
<1>1. lock = h /\ pc[g] \notin InTransaction
  BY DEF IsolationInv, LockInv
<1>2. pc'[g] = pc[g]
  BY DEF IsolationInv, TypeInv, TypeOK
<1> QED BY <1>1, <1>2 DEF WorkInv, InTransaction

\* A step that leaves the rows, the lock and h's place alone.
LEMMA Undisturbed ==
    ASSUME NEW h \in Handlers, WorkInv(h), UNCHANGED <<db, nextItemId>>,
           pc'[h] = pc[h], work'[h] = work[h]
    PROVE  WorkInv(h)'
BY DEF WorkInv, Allocated

\* A handler outside its transaction has nothing to keep.
LEMMA NothingToKeep ==
    ASSUME NEW h \in Handlers, pc'[h] \notin InTransaction
    PROVE  WorkInv(h)'
BY DEF WorkInv, InTransaction

-----------------------------------------------------------------------------
(* Each statement brings h from one clause of WorkInv to the next.         *)

LEMMA UpdateItemsWork ==
    ASSUME NEW h \in Handlers, IsolationInv, UpdateItems(h)
    PROVE  WorkInv(h)' /\ Allocated(db)'
<1>0. PICK last \in nextItemId - 1 .. MaxItemId :
        \E lines \in [nextItemId .. last -> Lines] :
          /\ AskedTotal(lines) \in 0..MaxAmount
          /\ Write(h, [work[h] EXCEPT
                         !.items = [i \in nextItemId .. last |-> StoredItem(lines[i])],
                         !.total = AskedTotal(lines)])
          /\ nextItemId' = last + 1
  BY DEF UpdateItems
<1>1. PICK lines \in [nextItemId .. last -> Lines] :
        /\ AskedTotal(lines) \in 0..MaxAmount
        /\ Write(h, [work[h] EXCEPT
                       !.items = [i \in nextItemId .. last |-> StoredItem(lines[i])],
                       !.total = AskedTotal(lines)])
        /\ nextItemId' = last + 1
  BY <1>0
<1> DEFINE items == [i \in nextItemId .. last |-> StoredItem(lines[i])]
           t == [db EXCEPT !.items = items, !.total = AskedTotal(lines)]
<1>2. /\ work[h] = db
      /\ db.status = "DRAFT"
      /\ db \in Rows
      /\ nextItemId \in Nat
  BY DEF UpdateItems, Doing, IsolationInv, WorkInv, TypeInv, TypeOK
<1>3. Write(h, t) /\ nextItemId' = last + 1
  BY <1>1, <1>2
<1>4. /\ DOMAIN items = nextItemId .. last
      /\ \A i \in DOMAIN items : items[i].members = {}
  BY DEF StoredItem
<1>4a. (\A i \in DOMAIN items : items[i].whole) => AskedTotal(lines) = GrandTotal(items)
  <2>1. SUFFICES ASSUME \A i \in DOMAIN items : items[i].whole
                 PROVE  AskedTotal(lines) = GrandTotal(items)
    OBVIOUS
  <2>2. \A i \in nextItemId .. last : Whole(lines[i])
    BY <2>1 DEF StoredItem
  <2>3. IsFiniteSet(nextItemId .. last)
    BY <1>0, <1>2, FS_Interval, Bounds
  <2> QED BY <2>2, <2>3, WholeTotal
<1> HIDE DEF items
<1>5. /\ t.items = items /\ t.total = AskedTotal(lines)
      /\ t = [db EXCEPT !.items = t.items, !.total = t.total]
  BY <1>2 DEF Rows
<1>6. DOMAIN t.items \cap DOMAIN db.items = {}
  BY <1>2, <1>4, <1>5 DEF IsolationInv, Allocated
<1>7. Atomic!UpdateItems(db, t)
  BY <1>2, <1>4, <1>4a, <1>5, <1>6 DEF Atomic!UpdateItems
<1>8. \A i \in DOMAIN t.items : i < nextItemId'
  BY <1>2, <1>3, <1>4, <1>5
<1> HIDE DEF t
<1>9. work'[h] = t /\ db' = db /\ pc'[h] = "written"
  BY <1>3 DEF UpdateItems, Write, Goto, IsolationInv, TypeInv, TypeOK
<1>10. WorkInv(h)'
  BY <1>7, <1>8, <1>9 DEF WorkInv, Allocated, Atomic!Request
<1>11. Allocated(db)'
  <2>1. DOMAIN db.items \subseteq 1 .. MaxItemId
    BY <1>2, RowFields, TableElim
  <2>2. last + 1 >= nextItemId
    BY <1>0, <1>2
  <2>3. \A i \in DOMAIN db.items : i < nextItemId /\ i \in Int
    BY <2>1 DEF IsolationInv, Allocated
  <2>4. \A i \in DOMAIN db.items : i < last + 1
    BY <2>2, <2>3, <1>2, <1>0
  <2> QED BY <2>4, <1>3, <1>9 DEF Allocated
<1> QED BY <1>10, <1>11

\* A statement that allocates no item and ends the transaction's work with a
\* whole request, or with the rows as they were.
LEMMA WholeRequest ==
    ASSUME NEW h \in Handlers, IsolationInv, pc[h] \in InTransaction,
           NEW t \in Rows, Write(h, t), Goto(h, "written"),
           nextItemId' = nextItemId,
           DOMAIN t.items = DOMAIN db.items,
           t = db \/ Atomic!Request(db, t)
    PROVE  WorkInv(h)' /\ Allocated(db)'
<1>1. work'[h] = t /\ db' = db /\ pc'[h] = "written"
  BY DEF Write, Goto, IsolationInv, TypeInv, TypeOK
<1>2. Allocated(db)' /\ Allocated(work[h])'
  BY <1>1 DEF IsolationInv, Allocated
<1> QED BY <1>1, <1>2 DEF WorkInv

LEMMA StartSelectingWork ==
    ASSUME NEW h \in Handlers, IsolationInv, StartSelecting(h)
    PROVE  WorkInv(h)' /\ Allocated(db)'
<1> DEFINE t == [db EXCEPT !.status = "SELECTING"]
<1>1. /\ work[h] = db /\ db \in Rows
      /\ db.status \in {"DRAFT", "SELECTING"}
      /\ DOMAIN db.items # {}
      /\ pc[h] \in InTransaction
  BY DEF StartSelecting, Doing, IsolationInv, WorkInv, TypeInv, TypeOK, InTransaction
<1>2. Write(h, t) /\ Goto(h, "written") /\ nextItemId' = nextItemId
  BY <1>1 DEF StartSelecting
<1>3. t \in Rows /\ DOMAIN t.items = DOMAIN db.items
  BY <1>1 DEF Rows, Status
<1>4. t = db \/ Atomic!StartSelecting(db, t)
  BY <1>1 DEF Rows, Atomic!StartSelecting
<1> HIDE DEF t
<1> QED BY <1>1, <1>2, <1>3, <1>4, WholeRequest DEF Atomic!Request

LEMMA RevertToDraftWork ==
    ASSUME NEW h \in Handlers, IsolationInv, RevertToDraft(h)
    PROVE  WorkInv(h)' /\ Allocated(db)'
<1> DEFINE t == [db EXCEPT !.status = "DRAFT", !.items = Unselected(db.items)]
<1>1. /\ work[h] = db /\ db \in Rows
      /\ db.items \in Tables(1..MaxItemId, Item)
      /\ pc[h] \in InTransaction
      /\ Goto(h, "written") /\ nextItemId' = nextItemId
  BY RowFields
     DEF RevertToDraft, Doing, IsolationInv, WorkInv, TypeInv, TypeOK, InTransaction
<1>2. CASE db.status = "DRAFT"
  BY <1>1, <1>2, WholeRequest DEF RevertToDraft
<1>3. CASE db.status = "SELECTING"
  <2>1. Write(h, t)
    BY <1>1, <1>3 DEF RevertToDraft
  <2>2. t \in Rows
    BY <1>1, UnselectedType DEF Rows, Status
  <2>3. DOMAIN t.items = DOMAIN db.items
    BY <1>1 DEF Rows, Unselected
  <2>4. Atomic!RevertToDraft(db, t)
    BY <1>3 DEF Atomic!RevertToDraft, Unselected
  <2> HIDE DEF t
  <2> QED BY <1>1, <2>1, <2>2, <2>3, <2>4, WholeRequest DEF Atomic!Request
<1> QED BY <1>1, <1>2, <1>3 DEF RevertToDraft

LEMMA SelectItemsWork ==
    ASSUME NEW h \in Handlers, IsolationInv, SelectItems(h)
    PROVE  WorkInv(h)' /\ Allocated(db)'
<1>1. /\ work[h] = db /\ db \in Rows
      /\ db.items \in Tables(1..MaxItemId, Item)
      /\ op[h].user \in Users
      /\ pc[h] \in InTransaction
      /\ db.status = "SELECTING"
      /\ Goto(h, "written") /\ nextItemId' = nextItemId
  BY RowFields
     DEF SelectItems, Doing, IsolationInv, WorkInv, TypeInv, TypeOK,
         InTransaction, Requests, NoRequest
<1>2. PICK S \in SUBSET DOMAIN db.items :
        Write(h, [db EXCEPT !.items = Select(db.items, op[h].user, S)])
  BY <1>1 DEF SelectItems
<1> DEFINE t == [db EXCEPT !.items = Select(db.items, op[h].user, S)]
<1>3. t \in Rows
  BY <1>1, SelectType DEF Rows
<1>4. DOMAIN t.items = DOMAIN db.items
  BY <1>1 DEF Rows, Select
<1>5. Atomic!SelectItems(op[h].user, db, t)
  BY <1>1 DEF Atomic!SelectItems, Select
<1>6. Write(h, t)
  BY <1>2
<1>7. op[h].user \in Atomic!Users
  BY <1>1 DEF Users, Atomic!Users
<1> HIDE DEF t
<1> QED BY <1>1, <1>3, <1>4, <1>5, <1>6, <1>7, WholeRequest DEF Atomic!Request

LEMMA ClaimConfirmWork ==
    ASSUME NEW h \in Handlers, IsolationInv, ClaimConfirm(h)
    PROVE  WorkInv(h)' /\ Allocated(db)'
<1>1. work[h] = db
  BY DEF ClaimConfirm, Doing, IsolationInv, WorkInv
<1>2. /\ work'[h] = [db EXCEPT !.status =
                       IF NothingOwed(BillOf(db.items, Host))
                       THEN "COMPLETED" ELSE "CONFIRMED"]
      /\ db' = db /\ nextItemId' = nextItemId /\ pc'[h] = "claimed"
  BY <1>1 DEF ClaimConfirm, Write, Goto, IsolationInv, TypeInv, TypeOK
<1>3. db.status = "SELECTING" /\ EverythingSelected(db.items)
  BY <1>1 DEF ClaimConfirm
<1> QED BY <1>2, <1>3 DEF WorkInv, IsolationInv, Allocated

LEMMA RepeatPaymentWork ==
    ASSUME NEW h \in Handlers, IsolationInv, RepeatPayment(h)
    PROVE  WorkInv(h)' /\ Allocated(db)'
<1>1. /\ work[h] = db /\ db \in Rows /\ pc[h] \in InTransaction
  BY DEF RepeatPayment, Doing, IsolationInv, WorkInv, TypeInv, TypeOK, InTransaction
<1> QED BY <1>1, WholeRequest DEF RepeatPayment

LEMMA SavePaymentWork ==
    ASSUME NEW h \in Handlers, IsolationInv, SavePayment(h)
    PROVE  WorkInv(h)' /\ Allocated(db)'
<1>1. work[h] = db /\ db.status = "CONFIRMED"
  BY DEF SavePayment, Doing, IsolationInv, WorkInv
<1>2. PICK u \in DOMAIN db.payments :
        /\ db.payments[u].status = "PENDING"
        /\ Write(h, [db EXCEPT !.payments[u].status = "PAID"])
  BY <1>1 DEF SavePayment
<1>3. /\ work'[h] = [db EXCEPT !.payments =
                       [db.payments EXCEPT ![u].status = "PAID"]]
      /\ db' = db /\ nextItemId' = nextItemId /\ pc'[h] = "saved"
  BY <1>2 DEF SavePayment, Write, Goto, IsolationInv, TypeInv, TypeOK
<1> QED BY <1>1, <1>2, <1>3 DEF WorkInv, IsolationInv, Allocated

\* The second half of confirm: with the payments the request is whole.
LEMMA InsertPaymentsWork ==
    ASSUME NEW h \in Handlers, IsolationInv, InsertPayments(h)
    PROVE  WorkInv(h)' /\ Allocated(db)'
<1> DEFINE bill == BillOf(db.items, Host)
           status == IF NothingOwed(bill) THEN "COMPLETED" ELSE "CONFIRMED"
           payments == Atomic!OpenPayments(bill)
           t == [db EXCEPT !.payments = payments,
                           !.status = Atomic!FinalStatus(payments)]
<1>1. /\ db \in Rows
      /\ db.items \in Tables(1..MaxItemId, Item)
      /\ pc[h] = "claimed"
      /\ db.status = "SELECTING"
      /\ EverythingSelected(db.items)
      /\ work[h] = [db EXCEPT !.status = status]
  BY RowFields DEF InsertPayments, IsolationInv, WorkInv, TypeInv, TypeOK
<1>2. work[h].items = db.items /\ work[h] \in Rows
  BY <1>1 DEF Rows, Status
<1>3. /\ bill \in [DOMAIN bill -> 0..MaxAmount]
      /\ Write(h, [work[h] EXCEPT !.payments =
           [u \in DOMAIN bill |->
              [amount |-> bill[u],
               status |-> IF bill[u] = 0 THEN "PAID" ELSE "PENDING"]]])
      /\ Goto(h, "written") /\ nextItemId' = nextItemId
  BY <1>2 DEF InsertPayments
<1>4. Write(h, [work[h] EXCEPT !.payments = payments])
  BY <1>3 DEF Atomic!OpenPayments
<1>5. Atomic!FinalStatus(payments) = status
  BY DEF Atomic!FinalStatus, Atomic!AllPaid, Atomic!OpenPayments, NothingOwed
<1>6. DOMAIN bill \in SUBSET Guests
  BY <1>1, BillDomain
<1> HIDE DEF bill
<1>7. payments \in Tables(Guests, Payment)
  <2>1. payments \in [DOMAIN bill -> Payment]
    BY <1>3 DEF Atomic!OpenPayments, Payment
  <2> QED BY <2>1, <1>6, TableIntro
<1> USE DEF bill
<1>8. Atomic!Confirm(db, t)
  BY <1>1 DEF Atomic!Confirm, EverythingSelected
<1> HIDE DEF payments, bill
<1>9. [work[h] EXCEPT !.payments = payments] = t
  BY <1>1, <1>5 DEF Rows
<1>10. t \in Rows /\ DOMAIN t.items = DOMAIN db.items
  BY <1>1, <1>5, <1>7 DEF Rows, Status
<1> HIDE DEF t
<1>11. Write(h, t)
  BY <1>4, <1>9
<1>12. pc[h] \in InTransaction
  BY <1>1 DEF InTransaction
<1> QED BY <1>3, <1>8, <1>10, <1>11, <1>12, WholeRequest DEF Atomic!Request

\* The second half of updatePayment: the settlement completes in the same
\* transaction as its last payment.
LEMMA CompleteIfPaidWork ==
    ASSUME NEW h \in Handlers, IsolationInv, CompleteIfPaid(h)
    PROVE  WorkInv(h)' /\ Allocated(db)'
<1>1. /\ db \in Rows /\ db.payments \in Tables(Guests, Payment)
      /\ work[h] \in Rows
      /\ db.status = "CONFIRMED"
      /\ pc[h] \in InTransaction
      /\ Goto(h, "written") /\ nextItemId' = nextItemId
  BY RowFields
     DEF CompleteIfPaid, IsolationInv, WorkInv, TypeInv, TypeOK, InTransaction
<1>2. PICK u \in DOMAIN db.payments :
        /\ db.payments[u].status = "PENDING"
        /\ work[h] = [db EXCEPT !.payments =
                        [db.payments EXCEPT ![u].status = "PAID"]]
  BY DEF CompleteIfPaid, IsolationInv, WorkInv
<1> DEFINE payments == [db.payments EXCEPT ![u].status = "PAID"]
           t == [db EXCEPT !.payments = payments,
                           !.status = Atomic!FinalStatus(payments)]
<1>3. Atomic!Pay(u, db, t)
  BY <1>1, <1>2 DEF Atomic!Pay
<1>4. payments \in Tables(Guests, Payment)
  BY <1>1, PaymentFields
<1>5. work[h] = [db EXCEPT !.payments = payments]
  BY <1>2
<1> HIDE DEF payments
<1>6. t \in Rows /\ DOMAIN t.items = DOMAIN db.items
  BY <1>1, <1>4 DEF Rows, Status, Atomic!FinalStatus
<1>7. work[h].payments = payments
  BY <1>1, <1>5 DEF Rows
<1>8. CASE AllPaid(payments)
  <2>1. Write(h, [work[h] EXCEPT !.status = "COMPLETED"])
    BY <1>7, <1>8 DEF CompleteIfPaid
  <2>2. [work[h] EXCEPT !.status = "COMPLETED"] = t
    BY <1>1, <1>5, <1>8 DEF Rows, Atomic!FinalStatus, AllPaid, Atomic!AllPaid
  <2> HIDE DEF t
  <2>3. Write(h, t)
    BY <2>1, <2>2
  <2> QED BY <1>1, <1>3, <1>6, <2>3, WholeRequest DEF Atomic!Request
<1>9. CASE ~AllPaid(payments)
  <2>1. Write(h, work[h])
    BY <1>7, <1>9 DEF CompleteIfPaid
  <2>2. work[h] = t
    BY <1>1, <1>5, <1>9 DEF Rows, Atomic!FinalStatus, AllPaid, Atomic!AllPaid
  <2> HIDE DEF t
  <2>3. Write(h, t)
    BY <2>1, <2>2
  <2> QED BY <1>1, <1>3, <1>6, <2>3, WholeRequest DEF Atomic!Request
<1> QED BY <1>8, <1>9

LEMMA StatementWork ==
    ASSUME NEW h \in Handlers, IsolationInv, Statement(h)
    PROVE  WorkInv(h)' /\ Allocated(db)'
BY UpdateItemsWork, StartSelectingWork, RevertToDraftWork, SelectItemsWork,
   ClaimConfirmWork, InsertPaymentsWork, RepeatPaymentWork, SavePaymentWork,
   CompleteIfPaidWork DEF Statement

\* Every statement runs inside the transaction and stays in it.
LEMMA StatementPlaces ==
    ASSUME NEW h \in Handlers, IsolationInv, Statement(h)
    PROVE  /\ pc[h] \in InTransaction
           /\ pc' = [pc EXCEPT ![h] = pc'[h]]
           /\ pc'[h] \in InTransaction
           /\ lock' = lock /\ db' = db
<1>1. pc \in [Handlers -> Places]
  BY DEF IsolationInv, TypeInv, TypeOK
<1>2. /\ pc[h] \in InTransaction
      /\ \E place \in {"claimed", "saved", "written"} : Goto(h, place)
      /\ lock' = lock /\ db' = db
  BY DEF Statement, UpdateItems, StartSelecting, RevertToDraft, SelectItems,
         ClaimConfirm, InsertPayments, RepeatPayment, SavePayment,
         CompleteIfPaid, Doing, Write, InTransaction
<1> QED BY <1>1, <1>2 DEF Goto, InTransaction

-----------------------------------------------------------------------------
(* The induction.                                                          *)

\* A handler that ends its transaction by db' and gives the lock back.
LEMMA Leaves ==
    ASSUME NEW h \in Handlers, IsolationInv, lock' = NoHandler, lock = h,
           pc' = [pc EXCEPT ![h] = pc'[h]], pc'[h] \notin InTransaction,
           Allocated(db)'
    PROVE  LockInv' /\ Allocated(db)' /\ \A g \in Handlers : WorkInv(g)'
<1>1. \A g \in Handlers : pc'[g] \notin InTransaction
  BY DEF IsolationInv, LockInv, TypeInv, TypeOK
<1>2. LockInv'
  BY <1>1, FreshNoHandler DEF LockInv
<1> QED BY <1>1, <1>2, NothingToKeep

LEMMA IsolationStep == IsolationInv /\ [Next]_vars => IsolationInv'
<1> SUFFICES ASSUME IsolationInv, [Next]_vars
             PROVE  LockInv' /\ Allocated(db)' /\ \A g \in Handlers : WorkInv(g)'
  BY TypeStep DEF IsolationInv
<1> USE DEF InTransaction
<1>0. pc \in [Handlers -> Places] /\ lock \in Handlers \cup {NoHandler}
  BY DEF IsolationInv, TypeInv, TypeOK
<1>1. ASSUME NEW h \in Handlers, Receive(h) \/ LockTimeout(h)
      PROVE  LockInv' /\ Allocated(db)' /\ \A g \in Handlers : WorkInv(g)'
  <2>1. /\ UNCHANGED <<db, nextItemId, lock>>
        /\ pc[h] \in {"idle", "waiting"} /\ pc'[h] \in {"idle", "waiting"}
        /\ \A g \in Handlers \ {h} : pc'[g] = pc[g] /\ work'[g] = work[g]
    BY <1>1, <1>0 DEF Receive, LockTimeout, Finish, Goto, IsolationInv, TypeInv, TypeOK
  <2>2. LockInv' /\ Allocated(db)'
    BY <2>1 DEF IsolationInv, LockInv, Allocated
  <2>3. \A g \in Handlers : WorkInv(g)'
    BY <2>1, Undisturbed, NothingToKeep DEF IsolationInv
  <2> QED BY <2>2, <2>3
<1>2. ASSUME NEW h \in Handlers, LockSettlement(h)
      PROVE  LockInv' /\ Allocated(db)' /\ \A g \in Handlers : WorkInv(g)'
  <2>1. \A g \in Handlers : pc[g] \notin InTransaction
    BY <1>2, FreshNoHandler DEF LockSettlement, IsolationInv, LockInv
  <2>2. /\ pc'[h] = "locked" /\ lock' = h /\ work'[h] = db'
        /\ \A g \in Handlers \ {h} : pc'[g] = pc[g]
        /\ UNCHANGED <<db, nextItemId>>
    BY <1>2, <1>0 DEF LockSettlement, Goto, IsolationInv, TypeInv, TypeOK
  <2>3. LockInv' /\ Allocated(db)'
    BY <2>1, <2>2 DEF LockInv, IsolationInv, Allocated
  <2>4. \A g \in Handlers \ {h} : WorkInv(g)'
    BY <2>1, <2>2, NothingToKeep
  <2>5. WorkInv(h)'
    BY <2>2 DEF WorkInv
  <2> QED BY <2>3, <2>4, <2>5
<1>3. ASSUME NEW h \in Handlers, Authorize(h)
      PROVE  LockInv' /\ Allocated(db)' /\ \A g \in Handlers : WorkInv(g)'
  <2>1. /\ pc[h] = "locked" /\ pc' = [pc EXCEPT ![h] = "checked"]
        /\ UNCHANGED <<db, nextItemId, lock, work>>
    BY <1>3 DEF Authorize, Goto
  <2>2. LockInv' /\ Allocated(db)'
    BY <1>0, <2>1 DEF LockInv, IsolationInv, Allocated
  <2>3. WorkInv(h)'
    BY <1>0, <2>1 DEF IsolationInv, WorkInv
  <2>4. \A g \in Handlers \ {h} : WorkInv(g)'
    BY <1>0, <2>1, Undisturbed DEF IsolationInv
  <2> QED BY <2>2, <2>3, <2>4
<1>4. ASSUME NEW h \in Handlers, Reject(h) \/ Fail(h)
      PROVE  LockInv' /\ Allocated(db)' /\ \A g \in Handlers : WorkInv(g)'
  <2>1. /\ lock = h /\ lock' = NoHandler
        /\ pc' = [pc EXCEPT ![h] = "idle"]
        /\ UNCHANGED <<db, nextItemId>>
    BY <1>4 DEF Reject, Fail, Abandon, Finish, Goto, IsolationInv, LockInv
  <2>2. pc'[h] = "idle"
    BY <1>0, <2>1
  <2>3. Allocated(db)'
    BY <2>1 DEF IsolationInv, Allocated
  <2> QED BY <2>1, <2>2, <2>3, Leaves
<1>5. ASSUME NEW h \in Handlers, Statement(h)
      PROVE  LockInv' /\ Allocated(db)' /\ \A g \in Handlers : WorkInv(g)'
  <2>1. WorkInv(h)' /\ Allocated(db)'
    BY <1>5, StatementWork
  <2>2. /\ pc[h] \in InTransaction
        /\ pc' = [pc EXCEPT ![h] = pc'[h]]
        /\ pc'[h] \in InTransaction
        /\ lock' = lock
    BY <1>5, StatementPlaces
  <2>3. LockInv'
    BY <1>0, <2>2 DEF IsolationInv, LockInv
  <2>4. \A g \in Handlers \ {h} : WorkInv(g)'
    BY <2>2, OthersUndisturbed
  <2> QED BY <2>1, <2>3, <2>4
<1>6. ASSUME NEW h \in Handlers, Commit(h) \/ CommitUnacknowledged(h)
      PROVE  LockInv' /\ Allocated(db)' /\ \A g \in Handlers : WorkInv(g)'
  <2>1. /\ pc[h] = "written" /\ db' = work[h]
        /\ lock' = NoHandler /\ nextItemId' = nextItemId
        /\ \E place \in {"idle", "posting"} : pc' = [pc EXCEPT ![h] = place]
    BY <1>6 DEF Commit, CommitUnacknowledged, Finish, Goto
  <2>2. lock = h
    BY <2>1 DEF IsolationInv, LockInv
  <2>3. Allocated(db)'
    BY <2>1 DEF IsolationInv, WorkInv, Allocated
  <2>4. pc' = [pc EXCEPT ![h] = pc'[h]] /\ pc'[h] \notin InTransaction
    BY <1>0, <2>1
  <2> QED BY <2>1, <2>2, <2>3, <2>4, Leaves
<1>7. ASSUME NEW h \in Handlers, Post(h) \/ LosePost(h)
      PROVE  LockInv' /\ Allocated(db)' /\ \A g \in Handlers : WorkInv(g)'
  <2>1. /\ UNCHANGED <<db, nextItemId, lock>>
        /\ pc[h] = "posting" /\ pc'[h] \in {"idle", "posting"}
        /\ \A g \in Handlers \ {h} : pc'[g] = pc[g] /\ work'[g] = work[g]
    BY <1>7, <1>0
       DEF Post, LosePost, NextMessage, Finish, Goto, IsolationInv, TypeInv, TypeOK
  <2>2. LockInv' /\ Allocated(db)'
    BY <2>1 DEF IsolationInv, LockInv, Allocated
  <2>3. \A g \in Handlers : WorkInv(g)'
    BY <2>1, Undisturbed, NothingToKeep DEF IsolationInv
  <2> QED BY <2>2, <2>3
<1>8. CASE Crash
  <2>1. /\ UNCHANGED <<db, nextItemId>>
        /\ \A g \in Handlers : pc'[g] = "idle"
        /\ lock' = NoHandler
    BY <1>8 DEF Crash
  <2> QED BY <2>1, NothingToKeep, FreshNoHandler DEF LockInv, IsolationInv, Allocated
<1>9. CASE ChangeMembership \/ UNCHANGED vars
  <2>1. UNCHANGED <<db, nextItemId, lock, pc, work>>
    BY <1>9 DEF ChangeMembership, vars
  <2> QED BY <2>1, Undisturbed DEF LockInv, IsolationInv, Allocated
<1> QED
  BY <1>1, <1>2, <1>3, <1>4, <1>5, <1>6, <1>7, <1>8, <1>9 DEF Next, Step, Fault

LEMMA IsolationInit == Init => IsolationInv
<1> SUFFICES ASSUME Init PROVE IsolationInv
  OBVIOUS
<1>1. TypeInv
  BY NewRowType, Bounds DEF Init, TypeInv, TypeOK, PostingHasMessages, Places
<1>2. \A h \in Handlers : pc[h] = "idle" /\ lock # h
  BY FreshNoHandler DEF Init
<1>3. Allocated(db)
  BY DEF Init, Allocated, NewRow
<1> QED BY <1>1, <1>2, <1>3 DEF IsolationInv, LockInv, WorkInv, InTransaction

LEMMA Isolated == Spec => []IsolationInv
BY IsolationInit, IsolationStep, PTL DEF Spec

\* What a handler read under the row lock is still what is committed while it
\* decides, whatever the other requests do.
THEOREM ReadsAreCurrent == Spec => []ReadsStayCurrent
<1>1. IsolationInv => ReadsStayCurrent
  BY DEF IsolationInv, WorkInv, ReadsStayCurrent
<1> QED BY <1>1, Isolated, PTL

\* Every step of the system is one whole request on the committed rows, or
\* leaves them alone.
LEMMA StepIsRequest ==
    ASSUME IsolationInv, [Next]_vars
    PROVE  db' = db \/ Atomic!Request(db, db')
<1>1. ASSUME NEW h \in Handlers, Commit(h) \/ CommitUnacknowledged(h)
      PROVE  db' = db \/ Atomic!Request(db, db')
  BY <1>1 DEF Commit, CommitUnacknowledged, IsolationInv, WorkInv
<1>2. ASSUME NEW h \in Handlers, Statement(h)
      PROVE  db' = db
  BY <1>2, StatementPlaces
<1>3. CASE \/ \E h \in Handlers :
                \/ Receive(h) \/ LockSettlement(h) \/ LockTimeout(h)
                \/ Authorize(h) \/ Reject(h) \/ Fail(h)
                \/ Post(h) \/ LosePost(h)
           \/ Crash \/ ChangeMembership \/ UNCHANGED vars
  BY <1>3
     DEF Receive, LockSettlement, LockTimeout, Authorize, Reject, Fail, Abandon,
         Post, LosePost, NextMessage, Crash, ChangeMembership, vars
<1> QED BY <1>1, <1>2, <1>3 DEF Next, Step, Fault

\* Concurrent requests behave as if they ran one at a time: Settlement
\* implements SettlementAtomic.
THEOREM Serialized == Spec => OneAtATime
<1>1. Init => Atomic!Init
  BY DEF Init, NewRow, Atomic!Init
<1>2. IsolationInv /\ [Next]_vars => [Atomic!Next]_db
  BY StepIsRequest DEF Atomic!Next
<1> QED BY <1>1, <1>2, Isolated, PTL DEF Spec, OneAtATime, Atomic!Spec
-----------------------------------------------------------------------------
(* The safety of the committed rows.                                        *)

Amounts(payments) == [u \in DOMAIN payments |-> payments[u].amount]

\* The total is that of the lines unless they had fractions.
Exact(s) ==
    (\A i \in DOMAIN s.items : s.items[i].whole) => s.total = GrandTotal(s.items)

\* The rows are sound: CompletedIffPaid, PaymentsMatchSelections,
\* DraftHasNoSelections and the total, said of any rows s.
Sound(s) ==
    /\ Exact(s)
    /\ s.status = "COMPLETED" => AllPaid(s.payments)
    /\ s.status = "CONFIRMED" => ~AllPaid(s.payments)
    /\ s.status \notin Final => DOMAIN s.payments = {}
    /\ s.status \in Final =>
         /\ EverythingSelected(s.items)
         /\ Amounts(s.payments) = BillOf(s.items, Host)
         /\ \A u \in DOMAIN s.payments :
              s.payments[u].amount = 0 => s.payments[u].status = "PAID"
    /\ s.status = "DRAFT" => Participants(s.items) = {}

\* What no request changes once the settlement is confirmed.
Frozen(s, t) ==
    s.status \in Final =>
      /\ t.status \in Final
      /\ s.status = "COMPLETED" => t = s
      /\ t.items = s.items /\ t.total = s.total
      /\ DOMAIN t.payments = DOMAIN s.payments
      /\ \A u \in DOMAIN s.payments :
           /\ t.payments[u].amount = s.payments[u].amount
           /\ s.payments[u].status = "PAID" => t.payments[u].status = "PAID"

-----------------------------------------------------------------------------
LEMMA SameTotals ==
    ASSUME NEW s, NEW t, Exact(s), t.total = s.total, DOMAIN t.items = DOMAIN s.items,
           \A i \in DOMAIN s.items : /\ t.items[i].total = s.items[i].total
                                     /\ t.items[i].whole = s.items[i].whole
    PROVE  Exact(t)
<1>1. [i \in DOMAIN t.items |-> t.items[i].total] = [i \in DOMAIN s.items |-> s.items[i].total]
  OBVIOUS
<1>2. GrandTotal(t.items) = GrandTotal(s.items)
  BY <1>1 DEF GrandTotal
<1> QED BY <1>2 DEF Exact

LEMMA UpdateItemsSound ==
    ASSUME NEW s \in Rows, NEW t, Sound(s), Atomic!UpdateItems(s, t)
    PROVE  Sound(t) /\ Frozen(s, t)
<1>1. /\ s.status = "DRAFT" /\ t.status = "DRAFT" /\ t.payments = s.payments
      /\ \A i \in DOMAIN t.items : t.items[i].members = {}
      /\ Exact(t)
  BY DEF Atomic!UpdateItems, Rows, Exact
<1>2. Participants(t.items) = {}
  BY <1>1 DEF Participants
<1> QED BY <1>1, <1>2 DEF Sound, Frozen, Final

LEMMA StartSelectingSound ==
    ASSUME NEW s \in Rows, NEW t, Sound(s), Atomic!StartSelecting(s, t)
    PROVE  Sound(t) /\ Frozen(s, t)
<1>1. /\ s.status = "DRAFT" /\ t.status = "SELECTING" /\ t.payments = s.payments
      /\ t.total = s.total /\ t.items = s.items
  BY DEF Atomic!StartSelecting, Rows
<1> QED BY <1>1 DEF Sound, Exact, Frozen, Final

LEMMA RevertToDraftSound ==
    ASSUME NEW s \in Rows, NEW t, Sound(s), Atomic!RevertToDraft(s, t)
    PROVE  Sound(t) /\ Frozen(s, t)
<1>1. /\ s.status = "SELECTING" /\ t.status = "DRAFT" /\ t.payments = s.payments
      /\ t.items = Unselected(s.items) /\ t.total = s.total
  BY DEF Atomic!RevertToDraft, Rows, Unselected
<1>2. s.items \in [DOMAIN s.items -> Item]
  BY RowFields, TableElim
<1>3. Participants(t.items) = {}
  BY <1>1, <1>2 DEF Participants, Unselected, Item
<1>4. Exact(t)
  BY <1>1, <1>2, SameTotals DEF Sound, Unselected, Item
<1> QED BY <1>1, <1>3, <1>4 DEF Sound, Frozen, Final

LEMMA SelectItemsSound ==
    ASSUME NEW s \in Rows, NEW t, Sound(s), NEW u, Atomic!SelectItems(u, s, t)
    PROVE  Sound(t) /\ Frozen(s, t)
<1>1. PICK S \in SUBSET DOMAIN s.items :
        t = [s EXCEPT !.items = Select(s.items, u, S)]
  BY DEF Atomic!SelectItems, Select
<1>2. /\ s.status = "SELECTING" /\ t.status = "SELECTING" /\ t.payments = s.payments
      /\ t.total = s.total /\ t.items = Select(s.items, u, S)
  BY <1>1 DEF Atomic!SelectItems, Rows
<1>3. s.items \in [DOMAIN s.items -> Item]
  BY RowFields, TableElim
<1>4. Exact(t)
  BY <1>2, <1>3, SameTotals DEF Sound, Select, Item
<1> QED BY <1>2, <1>4 DEF Sound, Frozen, Final

LEMMA ConfirmSound ==
    ASSUME NEW s \in Rows, NEW t, Sound(s), Atomic!Confirm(s, t)
    PROVE  Sound(t) /\ Frozen(s, t)
<1> DEFINE bill == BillOf(s.items, Host)
           payments == Atomic!OpenPayments(bill)
<1>1. /\ s.status = "SELECTING" /\ EverythingSelected(s.items)
      /\ t.items = s.items /\ t.total = s.total
      /\ t.payments = payments
      /\ t.status = Atomic!FinalStatus(payments)
  BY DEF Atomic!Confirm, Rows, EverythingSelected
<1>2. bill = [u \in DOMAIN bill |-> bill[u]]
  BY DEF BillOf
<1> HIDE DEF bill
<1>3. /\ Amounts(payments) = bill
      /\ \A u \in DOMAIN payments :
           payments[u].amount = 0 => payments[u].status = "PAID"
  BY <1>2 DEF Atomic!OpenPayments, Amounts
<1> HIDE DEF payments
<1>4. /\ t.status = "COMPLETED" => AllPaid(payments)
      /\ t.status = "CONFIRMED" => ~AllPaid(payments)
      /\ t.status \in Final
  BY <1>1 DEF Atomic!FinalStatus, Atomic!AllPaid, AllPaid, Final
<1> QED BY <1>1, <1>3, <1>4 DEF Sound, Exact, Frozen, Final, bill

LEMMA PaySound ==
    ASSUME NEW s \in Rows, NEW t, Sound(s),
           NEW u \in DOMAIN s.payments, Atomic!Pay(u, s, t)
    PROVE  Sound(t) /\ Frozen(s, t)
<1> DEFINE payments == [s.payments EXCEPT ![u].status = "PAID"]
<1>1. /\ s.status = "CONFIRMED" /\ s.payments[u].status = "PENDING"
      /\ t.items = s.items /\ t.total = s.total
      /\ t.payments = payments
      /\ t.status = Atomic!FinalStatus(payments)
  BY DEF Atomic!Pay, Rows
<1>2. s.payments \in [DOMAIN s.payments -> Payment]
  BY RowFields, TableElim
<1>3. /\ DOMAIN payments = DOMAIN s.payments
      /\ \A v \in DOMAIN payments :
           /\ payments[v].amount = s.payments[v].amount
           /\ s.payments[v].status = "PAID" => payments[v].status = "PAID"
  BY <1>2 DEF Payment
<1> HIDE DEF payments
<1>4. Amounts(payments) = Amounts(s.payments)
  BY <1>3 DEF Amounts
<1>5. /\ t.status = "COMPLETED" => AllPaid(payments)
      /\ t.status = "CONFIRMED" => ~AllPaid(payments)
      /\ t.status \in Final
  BY <1>1 DEF Atomic!FinalStatus, Atomic!AllPaid, AllPaid, Final
<1> QED BY <1>1, <1>3, <1>4, <1>5 DEF Sound, Exact, Frozen, Final

LEMMA RequestSound ==
    ASSUME NEW s \in Rows, NEW t, Sound(s), Atomic!Request(s, t)
    PROVE  Sound(t) /\ Frozen(s, t)
BY UpdateItemsSound, StartSelectingSound, RevertToDraftSound, SelectItemsSound,
   ConfirmSound, PaySound DEF Atomic!Request

-----------------------------------------------------------------------------
SafetyInv == IsolationInv /\ Sound(db)

LEMMA SafetyStep == SafetyInv /\ [Next]_vars => SafetyInv' /\ Frozen(db, db')
<1> SUFFICES ASSUME SafetyInv, [Next]_vars
             PROVE  SafetyInv' /\ Frozen(db, db')
  OBVIOUS
<1>1. db \in Rows
  BY DEF SafetyInv, IsolationInv, TypeInv, TypeOK
<1>2. db' = db \/ Atomic!Request(db, db')
  BY StepIsRequest DEF SafetyInv
<1>3. IsolationInv'
  BY IsolationStep DEF SafetyInv
<1>4. CASE db' = db
  BY <1>3, <1>4 DEF SafetyInv, Frozen
<1>5. CASE Atomic!Request(db, db')
  BY <1>1, <1>3, <1>5, RequestSound DEF SafetyInv
<1> QED BY <1>2, <1>4, <1>5

LEMMA SafetyInit == Init => SafetyInv
<1>1. Init => Sound(db)
  <2>1. GrandTotal(<<>>) = 0
    <3>1. [i \in DOMAIN <<>> |-> <<>>[i].total] = [i \in {} |-> 0]
      OBVIOUS
    <3> QED BY <3>1, SumZero, FS_EmptySet DEF GrandTotal
  <2> QED BY <2>1 DEF Init, NewRow, Sound, Exact, Final, Participants
<1> QED BY <1>1, IsolationInit DEF SafetyInv

LEMMA Safe == Spec => []SafetyInv
<1>1. SafetyInv /\ [Next]_vars => SafetyInv'
  BY SafetyStep
<1> QED BY <1>1, SafetyInit, PTL DEF Spec

\* A settlement is COMPLETED exactly when every guest has paid, in every
\* reachable state and however many payment confirmations run at once.
THEOREM CompletionIsPayment == Spec => []CompletedIffPaid
<1>1. SafetyInv => CompletedIffPaid
  BY DEF SafetyInv, Sound, CompletedIffPaid
<1> QED BY <1>1, Safe, PTL

\* The payments of a confirmed settlement are the bill of its stored
\* selections: nobody slips a selection in beside confirm.
THEOREM PaymentsAreTheBill == Spec => []PaymentsMatchSelections
<1>1. SafetyInv => PaymentsMatchSelections
  BY DEF SafetyInv, Sound, PaymentsMatchSelections, Amounts
<1> QED BY <1>1, Safe, PTL

\* Rows that are sound divide their lines between the host and the payments.
LEMMA SoundAmounts ==
    ASSUME NEW s \in Rows, Sound(s), s.status \in Final
    PROVE  GrandTotal(s.items) = Owed(s.items, Host)
               + SumFunction([u \in DOMAIN s.payments |-> s.payments[u].amount])
<1> DEFINE items == s.items
           U == Participants(items) \cup {Host}
           f == [u \in U |-> Owed(items, u)]
<1>1. /\ DOMAIN items \in SUBSET (1 .. MaxItemId)
      /\ items \in [DOMAIN items -> Item]
  BY RowFields, TableElim
<1>2. IsFiniteSet(DOMAIN items)
  <2>1. 1 \in Int /\ MaxItemId \in Int
    BY Bounds
  <2>2. IsFiniteSet(1 .. MaxItemId)
    BY <2>1, FS_Interval
  <2> HIDE DEF items, U, f
  <2> QED BY <1>1, <2>2, FS_Subset
<1>3. IsFiniteSet(U) /\ U \in SUBSET Nat
  <2>1. IsFiniteSet(Users)
    BY FiniteGuests, FS_AddElement DEF Users
  <2>2. U \in SUBSET Users
    BY <1>1 DEF Participants, Item, Users
  <2> QED BY <2>1, <2>2, FS_Subset, UserIds DEF Users
<1>4. Divisible(items, U)
  <2>1. ASSUME NEW i \in DOMAIN items PROVE Chargeable(items[i], U)
    <3>1. items[i] \in Item
      BY <1>1
    <3>2. items[i].members # {}
      BY DEF Sound, Final, EverythingSelected
    <3>3. items[i].members \in SUBSET U
      BY DEF Participants
    <3>4. items[i].total \in Nat
      BY <3>1, LineTotalType DEF Item
    <3> QED BY <3>2, <3>3, <3>4 DEF Chargeable
  <2> QED BY <1>2, <2>1 DEF Divisible
<1>5. SumFunction(f) = GrandTotal(items)
  BY <1>3, <1>4, SharesAddUp
<1>6. f \in [U -> Int]
  BY <1>3, <1>4, OwedType
<1>7. SumFunction(f) = SumFunction([u \in U \ {Host} |-> f[u]]) + f[Host]
  BY <1>3, <1>6, SumRemove
<1>8. [u \in U \ {Host} |-> f[u]] = BillOf(items, Host)
  BY DEF BillOf
<1>9. BillOf(items, Host) = [u \in DOMAIN s.payments |-> s.payments[u].amount]
  BY DEF Sound, Amounts
<1>10. SumFunction([u \in U \ {Host} |-> f[u]]) \in Int /\ f[Host] \in Int
  <2>1. [u \in U \ {Host} |-> f[u]] \in [U \ {Host} -> Int]
    BY <1>6
  <2>2. IsFiniteSet(U \ {Host})
    BY <1>3, FS_RemoveElement
  <2> QED BY <1>6, <2>1, <2>2, SumType
<1>11. f[Host] = Owed(items, Host)
  OBVIOUS
<1> HIDE DEF f, U, items
<1>12. GrandTotal(items)
         = Owed(items, Host)
             + SumFunction([u \in DOMAIN s.payments |-> s.payments[u].amount])
  BY <1>5, <1>7, <1>8, <1>9, <1>10, <1>11
<1> QED BY <1>12 DEF items

\* No won is lost or invented: the payments and the host's own share add up to
\* the stored lines, and so does the total of a request without fractions.
THEOREM NoWonLost == Spec => []AmountsPreserved
<1>1. SafetyInv => AmountsPreserved
  BY SoundAmounts
     DEF SafetyInv, IsolationInv, TypeInv, TypeOK, Sound, Exact, AmountsPreserved
<1> QED BY <1>1, Safe, PTL

\* No selection survives the return to DRAFT.
THEOREM DraftIsUnselected == Spec => []DraftHasNoSelections
<1>1. SafetyInv => DraftHasNoSelections
  BY DEF SafetyInv, Sound, DraftHasNoSelections
<1> QED BY <1>1, Safe, PTL

\* After confirm the money does not move: items, amounts and PAID marks stay.
THEOREM ConfirmedIsFrozen == Spec => FrozenOnceConfirmed
<1>1. SafetyInv /\ [Next]_vars =>
        [db.status \in Final =>
           /\ db'.status \in Final
           /\ db.status = "COMPLETED" => db' = db
           /\ db'.items = db.items /\ db'.total = db.total
           /\ DOMAIN db'.payments = DOMAIN db.payments
           /\ \A u \in DOMAIN db.payments :
                /\ db'.payments[u].amount = db.payments[u].amount
                /\ db.payments[u].status = "PAID" => db'.payments[u].status = "PAID"]_vars
  BY SafetyStep DEF Frozen
<1> QED BY <1>1, Safe, PTL DEF Spec, FrozenOnceConfirmed
-----------------------------------------------------------------------------
(* The chat.  A message is posted after the commit, when other requests    *)
(* have run; it stays true because what it tells is frozen, and it is new  *)
(* because it was not true before its own commit.                          *)

\* What message m claims is so in the rows s.
Tells(m, s) ==
    /\ m.kind = "CONFIRMED" =>
         /\ s.status \in Final
         /\ m.total = s.total
         /\ m.bill = Amounts(s.payments)
    /\ m.kind = "PAID" =>
         m.user \in DOMAIN s.payments /\ s.payments[m.user].status = "PAID"
    /\ m.kind = "COMPLETED" => s.status = "COMPLETED"

\* m is news of the change from s to t.
News(m, s, t) == m = Notice \/ (Tells(m, t) /\ ~Tells(m, s))

Distinct(q) == \A i, j \in DOMAIN q : q[i] = q[j] => i = j

Said(q) == {q[i] : i \in DOMAIN q}

\* What waits in h's outbox: nothing before the statements, then news of what
\* h's transaction changes, and after its commit only what is true.
OutboxInv(h) ==
    /\ pc[h] \in {"idle", "waiting", "locked", "checked", "claimed"} =>
         outbox[h] = <<>>
    /\ pc[h] = "saved" =>
         \E u \in DOMAIN db.payments \cap DOMAIN work[h].payments :
           /\ db.payments[u].status = "PENDING"
           /\ work[h].payments[u].status = "PAID"
           /\ outbox[h] = <<Paid(u)>>
    /\ pc[h] = "written" => \A m \in Said(outbox[h]) : News(m, db, work[h])
    /\ pc[h] = "posting" => \A m \in Said(outbox[h]) : Tells(m, db)
    /\ Distinct(outbox[h])

AnnouncementInv ==
    /\ SafetyInv
    /\ \A h \in Handlers : OutboxInv(h)
    /\ \A m \in Said(chat) : Tells(m, db)
    /\ AnnouncedOnce

\* What was true of the rows is true of them as the next request leaves them.
LEMMA TellsPersists ==
    ASSUME NEW m, NEW s, NEW t, Tells(m, s), Sound(s), Frozen(s, t)
    PROVE  Tells(m, t)
<1>1. CASE s.status \in Final
  <2>1. /\ t.status \in Final /\ t.total = s.total
        /\ DOMAIN t.payments = DOMAIN s.payments
        /\ \A u \in DOMAIN s.payments :
             /\ t.payments[u].amount = s.payments[u].amount
             /\ s.payments[u].status = "PAID" => t.payments[u].status = "PAID"
        /\ s.status = "COMPLETED" => t.status = "COMPLETED"
    BY <1>1 DEF Frozen
  <2>2. Amounts(t.payments) = Amounts(s.payments)
    BY <2>1 DEF Amounts
  <2> QED BY <2>1, <2>2 DEF Tells
<1>2. CASE s.status \notin Final
  <2>1. DOMAIN s.payments = {} /\ s.status # "COMPLETED"
    BY <1>2 DEF Sound, Final
  <2> QED BY <1>2, <2>1 DEF Tells
<1> QED BY <1>1, <1>2

\* Nothing of a settlement that is not final has been told but notices.
LEMMA NoticeOnly ==
    ASSUME NEW m, m = Notice
    PROVE  \A s : Tells(m, s)
BY DEF Notice, Tells

LEMMA OneMessage ==
    ASSUME NEW m
    PROVE  Said(<<m>>) = {m} /\ Distinct(<<m>>)
BY DEF Said, Distinct

LEMMA TwoMessages ==
    ASSUME NEW m, NEW n, m # n
    PROVE  Said(<<m, n>>) = {m, n} /\ Distinct(<<m, n>>)
BY DEF Said, Distinct

LEMMA JoinedMessages ==
    ASSUME NEW m, NEW n
    PROVE  <<m>> \o <<n>> = <<m, n>> /\ <<m>> \o <<>> = <<m>>
<1>1. <<m>> \in Seq({m, n}) /\ n \in {m, n} /\ Append(<<m>>, n) = <<m, n>>
  <2>1. <<m>> \in Seq({m, n}) /\ <<m, n>> \in Seq({m, n}) /\ n \in {m, n}
    OBVIOUS
  <2>2. /\ Len(<<m>>) = 1 /\ Len(<<m, n>>) = 2
        /\ <<m>>[1] = m /\ <<m, n>>[1] = m /\ <<m, n>>[2] = n
    OBVIOUS
  <2>3. /\ Append(<<m>>, n) \in Seq({m, n}) /\ Len(Append(<<m>>, n)) = 2
        /\ Append(<<m>>, n)[1] = m /\ Append(<<m>>, n)[2] = n
    BY <2>1, <2>2, AppendProperties
  <2>4. \A i \in 1..2 : i = 1 \/ i = 2
    OBVIOUS
  <2> QED BY <2>1, <2>2, <2>3, <2>4, SeqEqual
<1>2. <<m>> \o <<n>> = Append(<<m>>, n) /\ <<m>> \o <<>> = <<m>>
  BY <1>1, AppendIsConcat, ConcatEmptySeq
<1> QED BY <1>1, <1>2

LEMMA NoMessage == Said(<<>>) = {} /\ Distinct(<<>>)
BY DEF Said, Distinct

-----------------------------------------------------------------------------
(* What each step does to an outbox.                                       *)

LEMMA OutboxKept ==
    ASSUME NEW h \in Handlers, OutboxInv(h), db' = db,
           pc'[h] = pc[h], work'[h] = work[h], outbox'[h] = outbox[h]
    PROVE  OutboxInv(h)'
BY DEF OutboxInv

LEMMA OutboxEmpty ==
    ASSUME NEW h \in Handlers, outbox'[h] = <<>>, pc'[h] # "saved"
    PROVE  OutboxInv(h)'
BY NoMessage DEF OutboxInv

\* A commit of another request leaves what waits to be posted true.
LEMMA OutboxElsewhere ==
    ASSUME NEW h \in Handlers, OutboxInv(h), SafetyInv, Frozen(db, db'),
           pc[h] \in Places \ InTransaction,
           pc'[h] = pc[h], outbox'[h] = outbox[h]
    PROVE  OutboxInv(h)'
<1>1. \A m \in Said(outbox[h]) : Tells(m, db) => Tells(m, db')
  BY TellsPersists DEF SafetyInv
<1> QED BY <1>1 DEF OutboxInv, InTransaction

\* h ends its statements with the messages q, all of them news.
LEMMA OutboxWritten ==
    ASSUME NEW h \in Handlers, pc'[h] = "written", NEW q, outbox'[h] = q,
           Distinct(q), \A m \in Said(q) : News(m, db', work'[h])
    PROVE  OutboxInv(h)'
BY DEF OutboxInv

LEMMA QuietStatement ==
    ASSUME NEW h \in Handlers, AnnouncementInv,
           \/ UpdateItems(h) \/ StartSelecting(h) \/ RevertToDraft(h)
           \/ SelectItems(h) \/ ClaimConfirm(h) \/ RepeatPayment(h)
    PROVE  OutboxInv(h)'
<1>1. TypeOK
  BY DEF AnnouncementInv, SafetyInv, IsolationInv, TypeInv
<1>2. pc[h] = "checked" /\ pc'[h] \in {"claimed", "written"}
  BY <1>1 DEF UpdateItems, StartSelecting, RevertToDraft, SelectItems,
              ClaimConfirm, RepeatPayment, Doing, Goto, TypeOK
<1>3. outbox[h] = <<>>
  BY <1>2 DEF AnnouncementInv, OutboxInv
<1>4. outbox'[h] = <<>> \/ (outbox'[h] = <<Notice>> /\ pc'[h] = "written")
  BY <1>1, <1>3
     DEF UpdateItems, StartSelecting, RevertToDraft, SelectItems,
         ClaimConfirm, RepeatPayment, Goto, TypeOK
<1>5. CASE outbox'[h] = <<>>
  BY <1>2, <1>5, OutboxEmpty
<1>6. CASE outbox'[h] = <<Notice>> /\ pc'[h] = "written"
  <2>1. Distinct(<<Notice>>) /\ \A m \in Said(<<Notice>>) : News(m, db', work'[h])
    BY OneMessage DEF News
  <2> QED BY <1>6, <2>1, OutboxWritten
<1> QED BY <1>4, <1>5, <1>6

LEMMA InsertPaymentsOutbox ==
    ASSUME NEW h \in Handlers, AnnouncementInv, InsertPayments(h)
    PROVE  OutboxInv(h)'
<1> DEFINE bill == BillOf(work[h].items, Host)
           c == Confirmed(work[h].total, bill)
           payments == [u \in DOMAIN bill |->
                          [amount |-> bill[u],
                           status |-> IF bill[u] = 0 THEN "PAID" ELSE "PENDING"]]
           t == [work[h] EXCEPT !.payments = payments]
<1>1. TypeOK /\ WorkInv(h) /\ db \in Rows
  BY DEF AnnouncementInv, SafetyInv, IsolationInv, TypeInv, TypeOK
<1>2. /\ pc[h] = "claimed" /\ Goto(h, "written") /\ Write(h, t)
      /\ outbox' = [outbox EXCEPT ![h] =
                      <<c>> \o IF NothingOwed(bill) THEN <<Completed>> ELSE <<>>]
  BY DEF InsertPayments
<1>3. /\ db.status = "SELECTING"
      /\ work[h] = [db EXCEPT !.status = IF NothingOwed(bill)
                                         THEN "COMPLETED" ELSE "CONFIRMED"]
  <2>1. work[h].items = db.items
    BY <1>1, <1>2 DEF WorkInv, Rows
  <2> QED BY <1>1, <1>2, <2>1 DEF WorkInv
<1>4. /\ work'[h] = t /\ db' = db /\ pc'[h] = "written"
      /\ t.status = (IF NothingOwed(bill) THEN "COMPLETED" ELSE "CONFIRMED")
      /\ t.total = work[h].total /\ t.payments = payments
  BY <1>1, <1>2, <1>3 DEF TypeOK, Write, Goto, Rows
<1>5. Amounts(payments) = bill
  <2>1. bill = [u \in DOMAIN bill |-> bill[u]]
    BY DEF BillOf
  <2> HIDE DEF bill
  <2> QED BY <2>1 DEF Amounts
<1> HIDE DEF bill, payments, t
<1>6. \/ outbox'[h] = <<c, Completed>> /\ NothingOwed(bill)
      \/ outbox'[h] = <<c>>
  <2>1. <<c>> \o <<Completed>> = <<c, Completed>> /\ <<c>> \o <<>> = <<c>>
    BY JoinedMessages
  <2>2. CASE NothingOwed(bill)
    BY <1>1, <1>2, <2>1, <2>2 DEF TypeOK
  <2>3. CASE ~NothingOwed(bill)
    BY <1>1, <1>2, <2>1, <2>3 DEF TypeOK
  <2> QED BY <2>2, <2>3
<1>7. News(c, db, t)
  <2>1. Tells(c, t)
    BY <1>4, <1>5 DEF Tells, Confirmed, Final
  <2>2. ~ Tells(c, db)
    BY <1>3 DEF Tells, Confirmed, Final
  <2> QED BY <2>1, <2>2 DEF News
<1>8. NothingOwed(bill) => News(Completed, db, t)
  BY <1>3, <1>4 DEF News, Tells, Completed
<1>9. c # Completed
  BY DEF Confirmed, Completed
<1> HIDE DEF c
<1>10. CASE outbox'[h] = <<c>>
  BY <1>4, <1>7, <1>10, OneMessage, OutboxWritten
<1>11. CASE outbox'[h] = <<c, Completed>> /\ NothingOwed(bill)
  <2>1. Said(<<c, Completed>>) = {c, Completed} /\ Distinct(<<c, Completed>>)
    BY <1>9, TwoMessages
  <2>2. \A m \in Said(<<c, Completed>>) : News(m, db', work'[h])
    BY <2>1, <1>4, <1>7, <1>8, <1>11
  <2> QED BY <2>1, <2>2, <1>4, <1>11, OutboxWritten
<1> QED BY <1>6, <1>10, <1>11

LEMMA SavePaymentOutbox ==
    ASSUME NEW h \in Handlers, AnnouncementInv, SavePayment(h)
    PROVE  OutboxInv(h)'
<1>1. TypeOK /\ WorkInv(h) /\ db \in Rows
  BY DEF AnnouncementInv, SafetyInv, IsolationInv, TypeInv, TypeOK
<1>2. work[h] = db
  BY <1>1 DEF SavePayment, Doing, WorkInv
<1>3. PICK u \in DOMAIN db.payments :
        /\ db.payments[u].status = "PENDING"
        /\ Write(h, [db EXCEPT !.payments[u].status = "PAID"])
        /\ outbox' = [outbox EXCEPT ![h] = <<Paid(u)>>]
  BY <1>2 DEF SavePayment
<1> DEFINE payments == [db.payments EXCEPT ![u].status = "PAID"]
<1>4. db.payments \in [DOMAIN db.payments -> Payment]
  BY <1>1, RowFields, TableElim
<1>5. /\ DOMAIN payments = DOMAIN db.payments
      /\ payments[u].status = "PAID"
  BY <1>4 DEF Payment
<1>6. work'[h] = [db EXCEPT !.payments = payments]
  BY <1>1, <1>3 DEF Write, TypeOK
<1> HIDE DEF payments
<1>7. work'[h].payments = payments /\ db' = db
  BY <1>1, <1>3, <1>6 DEF Rows, Write
<1>8. outbox'[h] = <<Paid(u)>> /\ pc'[h] = "saved"
  BY <1>1, <1>3 DEF SavePayment, Goto, TypeOK
<1> QED BY <1>3, <1>5, <1>7, <1>8, OneMessage DEF OutboxInv

LEMMA CompleteIfPaidOutbox ==
    ASSUME NEW h \in Handlers, AnnouncementInv, CompleteIfPaid(h)
    PROVE  OutboxInv(h)'
<1>1. /\ TypeOK /\ WorkInv(h) /\ db \in Rows /\ work[h] \in Rows
      /\ pc[h] = "saved" /\ OutboxInv(h)
  BY DEF AnnouncementInv, SafetyInv, IsolationInv, TypeInv, TypeOK, CompleteIfPaid
<1>2. PICK u \in DOMAIN db.payments \cap DOMAIN work[h].payments :
        /\ db.payments[u].status = "PENDING"
        /\ work[h].payments[u].status = "PAID"
        /\ outbox[h] = <<Paid(u)>>
  BY <1>1 DEF OutboxInv
<1>3. db.status = "CONFIRMED"
  BY <1>1 DEF WorkInv
<1>4. db' = db /\ pc'[h] = "written" /\ work'[h].payments = work[h].payments
  BY <1>1 DEF CompleteIfPaid, Write, Goto, TypeOK, Rows
<1>5. \/ outbox'[h] = <<Paid(u)>>
      \/ outbox'[h] = <<Paid(u), Completed>> /\ work'[h].status = "COMPLETED"
  BY <1>1, <1>2 DEF CompleteIfPaid, Write, TypeOK, Rows
<1>6. News(Paid(u), db, work'[h])
  BY <1>2, <1>4 DEF News, Tells, Paid
<1>7. work'[h].status = "COMPLETED" => News(Completed, db, work'[h])
  BY <1>3 DEF News, Tells, Completed
<1>8. Paid(u) # Completed
  BY DEF Paid, Completed
<1>9. CASE outbox'[h] = <<Paid(u)>>
  BY <1>4, <1>6, <1>9, OneMessage, OutboxWritten
<1>10. CASE outbox'[h] = <<Paid(u), Completed>> /\ work'[h].status = "COMPLETED"
  <2>1. /\ Said(<<Paid(u), Completed>>) = {Paid(u), Completed}
        /\ Distinct(<<Paid(u), Completed>>)
    BY <1>8, TwoMessages
  <2>2. \A m \in Said(<<Paid(u), Completed>>) : News(m, db', work'[h])
    BY <2>1, <1>4, <1>6, <1>7, <1>10
  <2> QED BY <2>1, <2>2, <1>4, <1>10, OutboxWritten
<1> QED BY <1>5, <1>9, <1>10

LEMMA StatementOutbox ==
    ASSUME NEW h \in Handlers, AnnouncementInv, Statement(h)
    PROVE  OutboxInv(h)'
BY QuietStatement, InsertPaymentsOutbox, SavePaymentOutbox, CompleteIfPaidOutbox
   DEF Statement

-----------------------------------------------------------------------------
(* AnnouncedOnce, said with the sets of messages: what h is going to post  *)
(* is in no other place, except for notices.                               *)

Pending(h) == IF pc[h] = "posting" THEN Said(outbox[h]) ELSE {}

Once ==
    /\ Distinct(chat)
    /\ \A h \in Handlers :
         /\ Pending(h) \cap Said(chat) \subseteq {Notice}
         /\ \A g \in Handlers \ {h} : Pending(h) \cap Pending(g) \subseteq {Notice}

LEMMA OnceIsAnnouncedOnce == Once <=> AnnouncedOnce
BY DEF Once, AnnouncedOnce, Pending, Said, Distinct

\* Nothing new is going to be posted.
LEMMA OnceKept ==
    ASSUME Once, chat' = chat,
           \A g \in Handlers : Pending(g)' \subseteq Pending(g)
    PROVE  Once'
BY DEF Once

\* h commits: its messages are news, those of the others and of the chat not.
LEMMA OnceCommitted ==
    ASSUME NEW h \in Handlers, Once, chat' = chat,
           \A g \in Handlers \ {h} : Pending(g)' \subseteq Pending(g),
           \A m \in Pending(h)' : m = Notice \/ ~Tells(m, db),
           \A m \in Said(chat) : Tells(m, db),
           \A g \in Handlers \ {h} : \A m \in Pending(g) : Tells(m, db)
    PROVE  Once'
<1>1. Distinct(chat')
  BY DEF Once
<1>2. \A g \in Handlers : Pending(g)' \cap Said(chat') \subseteq {Notice}
  BY DEF Once
<1>3. \A f \in Handlers : \A g \in Handlers \ {f} :
        Pending(f)' \cap Pending(g)' \subseteq {Notice}
  BY DEF Once
<1> QED BY <1>1, <1>2, <1>3 DEF Once

LEMMA SaidAppended ==
    ASSUME NEW S, NEW q \in Seq(S), NEW m \in S
    PROVE  /\ Said(Append(q, m)) = Said(q) \cup {m}
           /\ Distinct(q) /\ m \notin Said(q) => Distinct(Append(q, m))
<1>1. /\ DOMAIN q = 1..Len(q) /\ Len(q) \in Nat
      /\ DOMAIN Append(q, m) = 1..Len(q) + 1
      /\ Append(q, m)[Len(q) + 1] = m
      /\ \A i \in 1..Len(q) : Append(q, m)[i] = q[i]
  BY LenProperties, AppendProperties
<1> DEFINE r == Append(q, m)
           n == Len(q)
<1>2. 1..n + 1 = (1..n) \cup {n + 1} /\ n + 1 \notin 1..n
  BY <1>1
<1> HIDE DEF r, n
<1>3. /\ DOMAIN r = (1..n) \cup {n + 1} /\ DOMAIN q = 1..n
      /\ r[n + 1] = m /\ \A i \in 1..n : r[i] = q[i]
  BY <1>1, <1>2 DEF r, n
<1>4. Said(r) = Said(q) \cup {m}
  BY <1>3 DEF Said
<1>5. Distinct(q) /\ m \notin Said(q) => Distinct(r)
  BY <1>3 DEF Said, Distinct
<1> QED BY <1>4, <1>5 DEF r

LEMMA SaidTail ==
    ASSUME NEW S, NEW q \in Seq(S), q # <<>>, Distinct(q)
    PROVE  /\ Head(q) \in Said(q) /\ Head(q) \in S
           /\ Said(Tail(q)) = Said(q) \ {Head(q)}
           /\ Distinct(Tail(q))
<1> DEFINE n == Len(q)
           r == Tail(q)
<1>1. /\ n \in Nat \ {0} /\ DOMAIN q = 1..n /\ Head(q) = q[1]
      /\ q[1] \in S /\ DOMAIN r = 1..n - 1
      /\ \A i \in 1..n - 1 : r[i] = q[i + 1]
  BY LenProperties, EmptySeq, ElementOfSeq, HeadTailProperties
<1> HIDE DEF n, r
<1>2. Head(q) \in Said(q)
  BY <1>1 DEF Said
<1>3. ASSUME NEW m \in Said(q) \ {q[1]}
      PROVE  m \in Said(r)
  <2>1. PICK i \in 1..n : m = q[i]
    BY <1>1 DEF Said
  <2>2. i # 1 /\ i - 1 \in 1..n - 1 /\ (i - 1) + 1 = i
    BY <1>1, <1>3, <2>1
  <2> QED BY <1>1, <2>1, <2>2 DEF Said
<1>4. ASSUME NEW i \in 1..n - 1
      PROVE  i + 1 \in 1..n /\ r[i] = q[i + 1] /\ q[i + 1] # q[1]
  <2>1. i + 1 \in 1..n /\ 1 \in 1..n /\ i + 1 # 1
    BY <1>1
  <2> QED BY <1>1, <2>1 DEF Distinct
<1>5. Said(r) = Said(q) \ {q[1]}
  <2>1. ASSUME NEW m \in Said(r) PROVE m \in Said(q) \ {q[1]}
    <3>1. PICK i \in 1..n - 1 : m = r[i]
      BY <1>1 DEF Said
    <3>2. m = q[i + 1] /\ i + 1 \in DOMAIN q /\ m # q[1]
      BY <1>1, <1>4, <3>1
    <3> QED BY <3>2 DEF Said
  <2> QED BY <2>1, <1>3
<1>6. ASSUME NEW i \in 1..n - 1, NEW j \in 1..n - 1, r[i] = r[j]
      PROVE  i = j
  <2>1. q[i + 1] = q[j + 1] /\ i + 1 \in 1..n /\ j + 1 \in 1..n
    BY <1>4, <1>6
  <2>2. i + 1 = j + 1
    BY <1>1, <2>1 DEF Distinct
  <2> QED BY <1>1, <2>2
<1>7. Distinct(r)
  BY <1>1, <1>6 DEF Distinct
<1> QED BY <1>1, <1>2, <1>5, <1>7 DEF r

-----------------------------------------------------------------------------
(* The steps.  What a step has to leave behind, besides SafetyInv.         *)

AnnouncementsKept ==
    /\ \A g \in Handlers : OutboxInv(g)'
    /\ \A m \in Said(chat') : Tells(m, db')
    /\ Once'

\* The chat as it was stays true of the rows as they become.
LEMMA ChatStaysTrue ==
    ASSUME AnnouncementInv, Frozen(db, db')
    PROVE  \A m \in Said(chat) : Tells(m, db')
BY TellsPersists DEF AnnouncementInv, SafetyInv

LEMMA SameRows == Frozen(db, db)
BY DEF Frozen

\* A step of h that commits nothing and leaves it with nothing to post.
LEMMA QuietStep ==
    ASSUME NEW h \in Handlers, AnnouncementInv, db' = db, chat' = chat,
           OutboxInv(h)', pc'[h] # "posting",
           \A g \in Handlers \ {h} :
             pc'[g] = pc[g] /\ work'[g] = work[g] /\ outbox'[g] = outbox[g]
    PROVE  AnnouncementsKept
<1>1. \A g \in Handlers : OutboxInv(g)'
  BY OutboxKept DEF AnnouncementInv
<1>2. \A g \in Handlers : Pending(g)' \subseteq Pending(g)
  BY DEF Pending
<1>3. Once'
  BY <1>2, OnceKept, OnceIsAnnouncedOnce DEF AnnouncementInv
<1>4. \A m \in Said(chat') : Tells(m, db')
  BY DEF AnnouncementInv
<1> QED BY <1>1, <1>3, <1>4 DEF AnnouncementsKept

LEMMA StatementOutboxes ==
    ASSUME NEW h \in Handlers, AnnouncementInv, Statement(h)
    PROVE  AnnouncementsKept
<1>1. TypeOK
  BY DEF AnnouncementInv, SafetyInv, IsolationInv, TypeInv
<1>2. /\ pc' = [pc EXCEPT ![h] = pc'[h]] /\ pc'[h] \in InTransaction
      /\ db' = db
  BY StatementPlaces DEF AnnouncementInv, SafetyInv
<1>3. /\ chat' = chat
      /\ \A g \in Handlers \ {h} :
           pc'[g] = pc[g] /\ work'[g] = work[g] /\ outbox'[g] = outbox[g]
  BY <1>1
     DEF Statement, UpdateItems, StartSelecting, RevertToDraft, SelectItems,
         ClaimConfirm, InsertPayments, RepeatPayment, SavePayment,
         CompleteIfPaid, Write, Goto, TypeOK
<1>4. OutboxInv(h)'
  BY StatementOutbox
<1> QED BY <1>2, <1>3, <1>4, QuietStep DEF InTransaction

\* The other handlers while h commits: they wait, post or do nothing.
LEMMA OthersAtCommit ==
    ASSUME NEW h \in Handlers, AnnouncementInv, pc[h] = "written",
           NEW g \in Handlers \ {h}
    PROVE  pc[g] \in Places \ InTransaction
<1>1. lock = h
  BY DEF AnnouncementInv, SafetyInv, IsolationInv, LockInv, InTransaction
<1>2. pc[g] \notin InTransaction
  BY <1>1 DEF AnnouncementInv, SafetyInv, IsolationInv, LockInv
<1>3. pc[g] \in Places
  BY DEF AnnouncementInv, SafetyInv, IsolationInv, TypeInv, TypeOK
<1> QED BY <1>2, <1>3

LEMMA CommitOutboxes ==
    ASSUME NEW h \in Handlers, AnnouncementInv, Frozen(db, db'),
           Commit(h) \/ CommitUnacknowledged(h)
    PROVE  AnnouncementsKept
<1>1. TypeOK /\ pc[h] = "written" /\ db' = work[h] /\ chat' = chat
  BY DEF AnnouncementInv, SafetyInv, IsolationInv, TypeInv, Commit,
         CommitUnacknowledged
<1>2. \A g \in Handlers \ {h} : pc'[g] = pc[g] /\ outbox'[g] = outbox[g]
  BY <1>1 DEF Commit, CommitUnacknowledged, Finish, Goto, TypeOK
<1>3. \/ outbox'[h] = <<>> /\ pc'[h] = "idle"
      \/ outbox'[h] = outbox[h] /\ pc'[h] = "posting"
  BY <1>1 DEF Commit, CommitUnacknowledged, Finish, Goto, TypeOK
<1>4. \A m \in Said(outbox[h]) : News(m, db, db')
  BY <1>1 DEF AnnouncementInv, OutboxInv
<1>5. OutboxInv(h)'
  <2>1. CASE outbox'[h] = <<>> /\ pc'[h] = "idle"
    BY <2>1, OutboxEmpty
  <2>2. CASE outbox'[h] = outbox[h] /\ pc'[h] = "posting"
    <3>1. \A m \in Said(outbox'[h]) : Tells(m, db')
      BY <1>4, <2>2, NoticeOnly DEF News
    <3>2. Distinct(outbox'[h])
      BY <2>2 DEF AnnouncementInv, OutboxInv
    <3> QED BY <2>2, <3>1, <3>2 DEF OutboxInv
  <2> QED BY <1>3, <2>1, <2>2
<1>6. \A g \in Handlers \ {h} : OutboxInv(g)'
  BY <1>2, OthersAtCommit, <1>1, OutboxElsewhere DEF AnnouncementInv
<1>7. Once'
  <2>1. \A g \in Handlers \ {h} : Pending(g)' \subseteq Pending(g)
    BY <1>2 DEF Pending
  <2>2. \A m \in Pending(h)' : m = Notice \/ ~Tells(m, db)
    BY <1>3, <1>4, NoMessage DEF Pending, News
  <2>3. \A g \in Handlers \ {h} : \A m \in Pending(g) : Tells(m, db)
    BY DEF Pending, AnnouncementInv, OutboxInv
  <2>4. \A m \in Said(chat) : Tells(m, db)
    BY DEF AnnouncementInv
  <2>5. Once
    BY OnceIsAnnouncedOnce DEF AnnouncementInv
  <2> QED BY <1>1, <2>1, <2>2, <2>3, <2>4, <2>5, OnceCommitted
<1>8. \A m \in Said(chat') : Tells(m, db')
  BY <1>1, ChatStaysTrue
<1> QED BY <1>5, <1>6, <1>7, <1>8 DEF AnnouncementsKept

\* h drops its first message; nothing else moves but, perhaps, the chat.
LEMMA NextMessageOutboxes ==
    ASSUME NEW h \in Handlers, AnnouncementInv, pc[h] = "posting", NextMessage(h)
    PROVE  /\ \A g \in Handlers : OutboxInv(g)'
           /\ Head(outbox[h]) \in Said(outbox[h]) /\ Head(outbox[h]) \in Messages
           /\ Pending(h)' \subseteq Pending(h) \ {Head(outbox[h])}
           /\ \A g \in Handlers \ {h} : Pending(g)' = Pending(g)
           /\ db' = db
<1>1. TypeOK /\ outbox[h] \in Seq(Messages) /\ outbox[h] # <<>> /\ OutboxInv(h)
  BY DEF AnnouncementInv, SafetyInv, IsolationInv, TypeInv, TypeOK,
         PostingHasMessages
<1>2. /\ Head(outbox[h]) \in Said(outbox[h]) /\ Head(outbox[h]) \in Messages
      /\ Said(Tail(outbox[h])) = Said(outbox[h]) \ {Head(outbox[h])}
      /\ Distinct(Tail(outbox[h]))
  BY <1>1, SaidTail DEF OutboxInv
<1>3. /\ db' = db
      /\ \A g \in Handlers \ {h} :
           pc'[g] = pc[g] /\ work'[g] = work[g] /\ outbox'[g] = outbox[g]
  BY <1>1 DEF NextMessage, Finish, Goto, TypeOK
<1>4. \/ outbox'[h] = <<>> /\ pc'[h] = "idle"
      \/ outbox'[h] = Tail(outbox[h]) /\ pc'[h] = "posting"
  BY <1>1 DEF NextMessage, Finish, Goto, TypeOK
<1>5. OutboxInv(h)'
  <2>1. CASE outbox'[h] = <<>> /\ pc'[h] = "idle"
    BY <2>1, OutboxEmpty
  <2>2. CASE outbox'[h] = Tail(outbox[h]) /\ pc'[h] = "posting"
    <3>1. \A m \in Said(outbox'[h]) : Tells(m, db')
      BY <1>1, <1>2, <1>3, <2>2 DEF OutboxInv
    <3> QED BY <1>2, <2>2, <3>1 DEF OutboxInv
  <2> QED BY <1>4, <2>1, <2>2
<1>6. \A g \in Handlers \ {h} : OutboxInv(g)'
  BY <1>3, OutboxKept DEF AnnouncementInv
<1>7. Pending(h)' \subseteq Pending(h) \ {Head(outbox[h])}
  BY <1>2, <1>4, NoMessage DEF Pending
<1>8. \A g \in Handlers \ {h} : Pending(g)' = Pending(g)
  BY <1>3 DEF Pending
<1> QED BY <1>2, <1>3, <1>5, <1>6, <1>7, <1>8

LEMMA LosePostOutboxes ==
    ASSUME NEW h \in Handlers, AnnouncementInv, LosePost(h)
    PROVE  AnnouncementsKept
<1>1. pc[h] = "posting" /\ NextMessage(h) /\ chat' = chat
  BY DEF LosePost
<1>2. /\ \A g \in Handlers : OutboxInv(g)' /\ Pending(g)' \subseteq Pending(g)
      /\ db' = db
  BY <1>1, NextMessageOutboxes
<1>3. Once'
  BY <1>1, <1>2, OnceKept, OnceIsAnnouncedOnce DEF AnnouncementInv
<1> QED BY <1>1, <1>2, <1>3 DEF AnnouncementsKept, AnnouncementInv

LEMMA PostOutboxes ==
    ASSUME NEW h \in Handlers, AnnouncementInv, Post(h)
    PROVE  AnnouncementsKept
<1> DEFINE m == Head(outbox[h])
<1>1. /\ pc[h] = "posting" /\ NextMessage(h)
      /\ chat' = IF m = Notice THEN chat ELSE Append(chat, m)
  BY DEF Post
<1>2. /\ \A g \in Handlers : OutboxInv(g)'
      /\ m \in Said(outbox[h]) /\ m \in Messages
      /\ Pending(h)' \subseteq Pending(h) \ {m}
      /\ \A g \in Handlers \ {h} : Pending(g)' = Pending(g)
      /\ db' = db
  BY <1>1, NextMessageOutboxes
<1>3. m \in Pending(h) /\ Tells(m, db)
  BY <1>1, <1>2 DEF Pending, AnnouncementInv, OutboxInv
<1>4. Once /\ chat \in Seq(Messages) /\ \A n \in Said(chat) : Tells(n, db)
  BY OnceIsAnnouncedOnce
     DEF AnnouncementInv, SafetyInv, IsolationInv, TypeInv, TypeOK
<1> HIDE DEF m
<1>5. CASE m = Notice
  <2>1. chat' = chat /\ \A g \in Handlers : Pending(g)' \subseteq Pending(g)
    BY <1>1, <1>2, <1>5
  <2> QED BY <2>1, <1>2, <1>4, OnceKept DEF AnnouncementsKept
<1>6. CASE m # Notice
  <2>1. m \notin Said(chat)
    BY <1>3, <1>4, <1>6 DEF Once
  <2>2. Said(chat') = Said(chat) \cup {m} /\ Distinct(chat')
    BY <1>1, <1>2, <1>4, <1>6, <2>1, SaidAppended DEF Once
  <2>3. \A g \in Handlers : m \notin Pending(g)'
    BY <1>2, <1>3, <1>4, <1>6 DEF Once
  <2>4. \A g \in Handlers : Pending(g)' \subseteq Pending(g)
    BY <1>2
  <2>5. Once'
    <3>1. \A g \in Handlers : Pending(g)' \cap Said(chat') \subseteq {Notice}
      BY <1>4, <2>2, <2>3, <2>4 DEF Once
    <3>2. \A f \in Handlers : \A g \in Handlers \ {f} :
            Pending(f)' \cap Pending(g)' \subseteq {Notice}
      BY <1>4, <2>4 DEF Once
    <3> QED BY <2>2, <3>1, <3>2 DEF Once
  <2>6. \A n \in Said(chat') : Tells(n, db')
    BY <1>2, <1>3, <1>4, <2>2
  <2> QED BY <1>2, <2>5, <2>6 DEF AnnouncementsKept
<1> QED BY <1>5, <1>6

LEMMA AnnouncementStep == AnnouncementInv /\ [Next]_vars => AnnouncementInv'
<1> SUFFICES ASSUME AnnouncementInv, [Next]_vars
             PROVE  AnnouncementInv'
  OBVIOUS
<1>0. TypeOK /\ SafetyInv' /\ Frozen(db, db')
  BY SafetyStep DEF AnnouncementInv, SafetyInv, IsolationInv, TypeInv
<1>1. ASSUME NEW h \in Handlers,
             \/ Receive(h) \/ LockSettlement(h) \/ LockTimeout(h)
             \/ Authorize(h) \/ Reject(h) \/ Fail(h)
      PROVE  AnnouncementsKept
  <2>1. /\ db' = db /\ chat' = chat
        /\ \A g \in Handlers \ {h} :
             pc'[g] = pc[g] /\ work'[g] = work[g] /\ outbox'[g] = outbox[g]
    BY <1>0, <1>1
       DEF Receive, LockSettlement, LockTimeout, Authorize, Reject, Fail,
           Abandon, Finish, Goto, TypeOK
  <2>2. /\ pc'[h] \in {"idle", "waiting", "locked", "checked"}
        /\ outbox'[h] = <<>>
    <3>1. CASE Receive(h) \/ LockSettlement(h) \/ Authorize(h)
      <4>1. pc[h] \in {"idle", "waiting", "locked"} /\ outbox' = outbox
        BY <3>1 DEF Receive, LockSettlement, Authorize
      <4>2. pc'[h] \in {"waiting", "locked", "checked"}
        BY <1>0, <3>1 DEF Receive, LockSettlement, Authorize, Goto, TypeOK
      <4> QED BY <4>1, <4>2 DEF AnnouncementInv, OutboxInv
    <3>2. CASE LockTimeout(h) \/ Reject(h) \/ Fail(h)
      BY <1>0, <3>2 DEF LockTimeout, Reject, Fail, Abandon, Finish, Goto, TypeOK
    <3> QED BY <1>1, <3>1, <3>2
  <2>3. OutboxInv(h)'
    BY <2>2, OutboxEmpty
  <2> QED BY <2>1, <2>2, <2>3, QuietStep
<1>2. ASSUME NEW h \in Handlers, Statement(h)
      PROVE  AnnouncementsKept
  BY <1>2, StatementOutboxes
<1>3. ASSUME NEW h \in Handlers, Commit(h) \/ CommitUnacknowledged(h)
      PROVE  AnnouncementsKept
  BY <1>0, <1>3, CommitOutboxes
<1>4. ASSUME NEW h \in Handlers, Post(h) \/ LosePost(h)
      PROVE  AnnouncementsKept
  BY <1>4, PostOutboxes, LosePostOutboxes
<1>5. ASSUME Crash
      PROVE  AnnouncementsKept
  <2>1. /\ db' = db /\ chat' = chat
        /\ \A g \in Handlers : pc'[g] = "idle" /\ outbox'[g] = <<>>
    BY <1>5 DEF Crash
  <2>2. \A g \in Handlers : OutboxInv(g)'
    BY <2>1, OutboxEmpty
  <2>3. \A g \in Handlers : Pending(g)' \subseteq Pending(g)
    BY <2>1 DEF Pending
  <2>4. Once'
    BY <2>1, <2>3, OnceKept, OnceIsAnnouncedOnce DEF AnnouncementInv
  <2> QED BY <2>1, <2>2, <2>4 DEF AnnouncementsKept, AnnouncementInv
<1>6. ASSUME ChangeMembership \/ UNCHANGED vars
      PROVE  AnnouncementsKept
  <2>1. UNCHANGED <<db, pc, work, outbox, chat>>
    BY <1>6 DEF ChangeMembership, vars
  <2>2. \A g \in Handlers : OutboxInv(g)'
    BY <2>1, OutboxKept DEF AnnouncementInv
  <2>3. \A g \in Handlers : Pending(g)' \subseteq Pending(g)
    BY <2>1 DEF Pending
  <2>4. Once'
    BY <2>1, <2>3, OnceKept, OnceIsAnnouncedOnce DEF AnnouncementInv
  <2> QED BY <2>1, <2>2, <2>4 DEF AnnouncementsKept, AnnouncementInv
<1>7. AnnouncementsKept
  BY <1>1, <1>2, <1>3, <1>4, <1>5, <1>6 DEF Next, Step, Fault
<1>8. Once' => AnnouncedOnce'
  BY DEF Once, AnnouncedOnce, Pending, Said, Distinct
<1> QED BY <1>0, <1>7, <1>8 DEF AnnouncementsKept, AnnouncementInv

LEMMA AnnouncementInit == Init => AnnouncementInv
<1> SUFFICES ASSUME Init PROVE AnnouncementInv
  OBVIOUS
<1>1. chat = <<>> /\ \A h \in Handlers : pc[h] = "idle" /\ outbox[h] = <<>>
  BY DEF Init
<1>2. AnnouncedOnce
  BY <1>1 DEF AnnouncedOnce
<1>3. \A h \in Handlers : OutboxInv(h)
  BY <1>1, NoMessage DEF OutboxInv
<1> QED BY <1>1, <1>2, <1>3, NoMessage, SafetyInit DEF AnnouncementInv

LEMMA Announcing == Spec => []AnnouncementInv
BY AnnouncementInit, AnnouncementStep, PTL DEF Spec

\* A confirmation, a payment and the completion are each announced at most
\* once, however many requests repeat them at the same time, whatever posts
\* are lost and wherever the server stops.
THEOREM NewsIsToldOnce == Spec => []AnnouncedOnce
<1>1. AnnouncementInv => AnnouncedOnce
  BY DEF AnnouncementInv
<1> QED BY <1>1, Announcing, PTL

\* Nothing in the chat, or on its way to it, tells what the database does not
\* hold, though each message is posted after its transaction and its lock.
THEOREM NewsIsTrue == Spec => []AnnouncementsTrue
<1>1. ASSUME AnnouncementInv, NEW m \in Announced
      PROVE  Tells(m, db)
  BY <1>1 DEF AnnouncementInv, OutboxInv, Announced, Said
<1>2. AnnouncementInv => AnnouncementsTrue
  BY <1>1 DEF AnnouncementsTrue, Tells, Amounts
<1> QED BY <1>2, Announcing, PTL
=============================================================================
