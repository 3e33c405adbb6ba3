----------------------------- MODULE Settlement -----------------------------
(***************************************************************************)
(* One settlement row of SettlementsService with its items, selections and *)
(* payments, and the concurrent HTTP requests that work on it.             *)
(*                                                                         *)
(* A request runs in a Handler.  It opens a transaction, waits for the     *)
(* pessimistic_write lock of the settlement row, reads the row, checks who *)
(* is asking, writes, commits, and only then posts its system messages to  *)
(* the chat.  The writes of an open transaction live in work[h] and become *)
(* visible as db when it commits; a rollback forgets them.                 *)
(***************************************************************************)
EXTENDS SettlementAllocation, Sequences

CONSTANTS
    Host,          \* user id of the host of the party
    Guests,        \* user ids of the other users
    Handlers,      \* requests that may run at the same time
    NoHandler,     \* "nobody holds the row lock"
    Unit,          \* the parts of a won in which prices and quantities are given
    Lines,         \* bound: the lines [price, quantity] a request may have
    MaxItemId,     \* bound: settlement_items ids ever allocated
    MaxAmount      \* largest value of the int columns that hold amounts

Users == Guests \cup {Host}

ASSUME UserIds == Host \in Nat /\ Guests \subseteq Nat /\ Host \notin Guests
ASSUME FiniteGuests == IsFiniteSet(Guests)
ASSUME FreshNoHandler == NoHandler \notin Handlers
ASSUME Bounds ==
    /\ Unit \in Nat \ {0}
    /\ Lines \subseteq [price : Nat, quantity : Nat]
    /\ MaxItemId \in Nat /\ MaxAmount \in Nat

VARIABLES
    db,            \* the committed rows of this settlement
    nextItemId,    \* AUTO_INCREMENT of settlement_items
    approved,      \* users with an APPROVED party_members row
    lock,          \* the handler that holds the row lock, or NoHandler
    pc,            \* where each handler is
    op,            \* what each handler was asked to do, and by whom
    work,          \* the rows as the handler's transaction sees them
    outbox,        \* messages each handler posts once it has committed
    chat           \* the payment messages saved in the chat, oldest first

vars == <<db, nextItemId, approved, lock, pc, op, work, outbox, chat>>

-----------------------------------------------------------------------------
Status == {"DRAFT", "SELECTING", "CONFIRMED", "COMPLETED"}

\* price * quantity of a row: the two int columns are rounded each for itself.
LineTotal(line) == Rounded(line.price, Unit) * Rounded(line.quantity, Unit)

\* whole: history, the request had no fraction in this line.
Item == [total : {LineTotal(line) : line \in Lines},
         members : SUBSET Users, whole : BOOLEAN]
Payment == [amount : 0..MaxAmount, status : {"PENDING", "PAID"}]

Tables(Keys, Values) == UNION {[S -> Values] : S \in SUBSET Keys}

Rows == [status : Status,
         total : 0..MaxAmount,
         items : Tables(1..MaxItemId, Item),
         payments : Tables(Guests, Payment)]

\* The row create() inserts.
NewRow == [status |-> "DRAFT", total |-> 0, items |-> <<>>, payments |-> <<>>]

Kinds == {"updateItems", "startSelecting", "revertToDraft",
          "selectItems", "confirm", "updatePayment"}
Requests == [kind : Kinds, user : Users]
NoRequest == [kind |-> "none"]

\* The places of a handler inside its transaction, from the row lock on.
InTransaction == {"locked", "checked", "claimed", "saved", "written"}
Places == {"idle", "waiting", "posting"} \cup InTransaction

\* SETTLEMENT_START, _RESUMED and _EDITING repeat: they take a posting step
\* but are not kept in chat.
Notice == [kind |-> "NOTICE"]
Confirmed(total, bill) == [kind |-> "CONFIRMED", total |-> total, bill |-> bill]
Paid(u) == [kind |-> "PAID", user |-> u]
Completed == [kind |-> "COMPLETED"]

Messages ==
    {Notice, Completed} \cup {Paid(u) : u \in Guests}
        \cup {Confirmed(t, b) : t \in 0..MaxAmount, b \in Tables(Guests, 0..MaxAmount)}
-----------------------------------------------------------------------------
Init ==
    /\ db = NewRow
    /\ nextItemId = 1
    /\ approved \in SUBSET Guests
    /\ lock = NoHandler
    /\ pc = [h \in Handlers |-> "idle"]
    /\ op = [h \in Handlers |-> NoRequest]
    /\ work = [h \in Handlers |-> NewRow]
    /\ outbox = [h \in Handlers |-> <<>>]
    /\ chat = <<>>

Goto(h, place) == pc' = [pc EXCEPT ![h] = place]

\* The request is over and its memory is gone.
Finish(h) ==
    /\ Goto(h, "idle")
    /\ op' = [op EXCEPT ![h] = NoRequest]
    /\ work' = [work EXCEPT ![h] = NewRow]
    /\ outbox' = [outbox EXCEPT ![h] = <<>>]

\* Mutant: the error path answers but leaves the transaction open.
Abandon_KeepsLock(h) ==
    /\ Finish(h)
    /\ UNCHANGED <<lock, db, nextItemId, approved, chat>>

\* catch and finally: roll back, release the connection, answer with an error.
Abandon(h) ==
    /\ Finish(h)
    /\ lock' = NoHandler
    /\ UNCHANGED <<db, nextItemId, approved, chat>>

Doing(h, kind) == pc[h] = "checked" /\ op[h].kind = kind

\* One statement of h's transaction leaves its rows as s.
Write(h, s) ==
    /\ work' = [work EXCEPT ![h] = s]
    /\ UNCHANGED <<db, approved, lock, op, chat>>
-----------------------------------------------------------------------------
(* Requests arrive, lock the row and are checked.                          *)

Receive(h) ==
    /\ pc[h] = "idle"
    /\ \E r \in Requests : op' = [op EXCEPT ![h] = r]
    /\ Goto(h, "waiting")
    /\ UNCHANGED <<db, nextItemId, approved, lock, work, outbox, chat>>

\* Mutant: a plain SELECT that does not wait for the lock.
LockSettlement_NoWait(h) ==
    /\ pc[h] = "waiting"
    /\ lock' = h
    /\ work' = [work EXCEPT ![h] = db]
    /\ Goto(h, "locked")
    /\ UNCHANGED <<db, nextItemId, approved, op, outbox, chat>>

\* SELECT ... FOR UPDATE returns the latest committed row.
LockSettlement(h) ==
    /\ pc[h] = "waiting"
    /\ lock = NoHandler
    /\ lock' = h
    /\ work' = [work EXCEPT ![h] = db]
    /\ Goto(h, "locked")
    /\ UNCHANGED <<db, nextItemId, approved, op, outbox, chat>>

\* innodb_lock_wait_timeout: the waiting SELECT fails, the request ends.
LockTimeout(h) ==
    /\ pc[h] = "waiting"
    /\ Finish(h)
    /\ UNCHANGED <<db, nextItemId, approved, lock, chat>>

\* ensurePartyAccess for selectItems, ensureSettlementHost for the rest.
MayAct(r) ==
    IF r.kind = "selectItems" THEN r.user \in approved \cup {Host}
    ELSE r.user = Host

\* Membership is read once; it may change again before the commit.
Authorize(h) ==
    /\ pc[h] = "locked"
    /\ MayAct(op[h])
    /\ Goto(h, "checked")
    /\ UNCHANGED <<db, nextItemId, approved, lock, op, work, outbox, chat>>

\* Every item has somebody who selected it, and there is an item.
EverythingSelected(items) ==
    /\ DOMAIN items # {}
    /\ \A i \in DOMAIN items : items[i].members # {}

\* The 400 and 404 answers.  A select may always name an item that is not
\* in this settlement, a payment a user without one.
Refused(h) ==
    LET kind == op[h].kind
        s == work[h]
    IN  \/ kind \in {"selectItems", "updatePayment"}
        \/ kind = "updateItems" /\ s.status # "DRAFT"
        \/ kind = "revertToDraft" /\ s.status \notin {"DRAFT", "SELECTING"}
        \/ /\ kind = "startSelecting"
           /\ s.status \notin {"DRAFT", "SELECTING"} \/ DOMAIN s.items = {}
        \/ /\ kind = "confirm"
           /\ \/ s.status # "SELECTING"
              \/ ~EverythingSelected(s.items)
              \/ db.status # "SELECTING"

\* Mutant: an exception after the access check is never answered.
Reject_OnlyAccess(h) ==
    /\ pc[h] = "locked" /\ ~MayAct(op[h])
    /\ Abandon(h)

Reject(h) ==
    /\ \/ pc[h] = "locked" /\ ~MayAct(op[h])
       \/ pc[h] = "checked" /\ Refused(h)
    /\ Abandon(h)
-----------------------------------------------------------------------------
(* The statements of the transactions.                                     *)

Whole(line) == line.price % Unit = 0 /\ line.quantity % Unit = 0

StoredItem(line) ==
    [total |-> LineTotal(line), members |-> {}, whole |-> Whole(line)]

\* totalAmount: what the request asks for, rounded only in the end.
AskedTotal(lines) ==
    Rounded(SumFunction([i \in DOMAIN lines |-> lines[i].price * lines[i].quantity]),
            Unit * Unit)

\* Delete the items (their selections cascade), insert the new ones.
UpdateItems(h) ==
    /\ Doing(h, "updateItems")
    /\ work[h].status = "DRAFT"
    /\ \E last \in nextItemId - 1 .. MaxItemId :
         \E lines \in [nextItemId .. last -> Lines] :
           /\ AskedTotal(lines) \in 0..MaxAmount
           /\ Write(h, [work[h] EXCEPT
                          !.items = [i \in nextItemId .. last |-> StoredItem(lines[i])],
                          !.total = AskedTotal(lines)])
           /\ nextItemId' = last + 1
    /\ Goto(h, "written")
    /\ UNCHANGED outbox

StartSelecting(h) ==
    /\ Doing(h, "startSelecting")
    /\ work[h].status \in {"DRAFT", "SELECTING"}
    /\ DOMAIN work[h].items # {}
    /\ Write(h, [work[h] EXCEPT !.status = "SELECTING"])
    /\ outbox' = [outbox EXCEPT ![h] =
                    IF work[h].status = "DRAFT" THEN <<Notice>> ELSE <<>>]
    /\ Goto(h, "written")
    /\ UNCHANGED nextItemId

\* Mutant: the selections are not deleted.
Unselected_Kept(items) == items

Unselected(items) == [i \in DOMAIN items |-> [items[i] EXCEPT !.members = {}]]

\* Mutant: a confirmed settlement can be edited again.
RevertToDraft_AfterConfirm(h) ==
    /\ Doing(h, "revertToDraft")
    /\ work[h].status \in {"SELECTING", "CONFIRMED"}
    /\ Write(h, [work[h] EXCEPT !.status = "DRAFT",
                                !.items = Unselected(work[h].items)])
    /\ outbox' = [outbox EXCEPT ![h] = <<Notice>>]
    /\ Goto(h, "written")
    /\ UNCHANGED nextItemId

RevertToDraft(h) ==
    /\ Doing(h, "revertToDraft")
    /\ \/ /\ work[h].status = "SELECTING"
          /\ Write(h, [work[h] EXCEPT !.status = "DRAFT",
                                      !.items = Unselected(work[h].items)])
          /\ outbox' = [outbox EXCEPT ![h] = <<Notice>>]
       \/ /\ work[h].status = "DRAFT"
          /\ Write(h, work[h])
          /\ UNCHANGED outbox
    /\ Goto(h, "written")
    /\ UNCHANGED nextItemId

\* Mutant: the old selections of everybody are deleted, not only u's.
Select_RemovesOthers(items, u, S) ==
    [i \in DOMAIN items |->
       [items[i] EXCEPT !.members = IF i \in S THEN {u} ELSE {}]]

\* u's selections of this settlement become exactly the items S.
Select(items, u, S) ==
    [i \in DOMAIN items |->
       [items[i] EXCEPT !.members = IF i \in S THEN @ \cup {u} ELSE @ \ {u}]]

\* Mutant: the status is not checked once the lock is held.
SelectItems_AnyStatus(h) ==
    /\ Doing(h, "selectItems")
    /\ \E S \in SUBSET (1 .. nextItemId - 1) :
         /\ S \subseteq DOMAIN work[h].items
         /\ Write(h, [work[h] EXCEPT !.items = Select(@, op[h].user, S)])
    /\ Goto(h, "written")
    /\ UNCHANGED <<nextItemId, outbox>>

\* dto.itemIds names ids the client once saw; all must still be items.
SelectItems(h) ==
    /\ Doing(h, "selectItems")
    /\ work[h].status = "SELECTING"
    /\ \E S \in SUBSET (1 .. nextItemId - 1) :
         /\ S \subseteq DOMAIN work[h].items
         /\ Write(h, [work[h] EXCEPT !.items = Select(@, op[h].user, S)])
    /\ Goto(h, "written")
    /\ UNCHANGED <<nextItemId, outbox>>

\* completed: no guest owes anything.
NothingOwed(bill) == \A u \in DOMAIN bill : bill[u] = 0

\* UPDATE settlements SET status = ... WHERE id = ... AND status = 'SELECTING'.
ClaimConfirm(h) ==
    /\ Doing(h, "confirm")
    /\ work[h].status = "SELECTING"
    /\ EverythingSelected(work[h].items)
    /\ db.status = "SELECTING"
    /\ Write(h, [work[h] EXCEPT !.status =
                   IF NothingOwed(BillOf(work[h].items, Host))
                   THEN "COMPLETED" ELSE "CONFIRMED"])
    /\ Goto(h, "claimed")
    /\ UNCHANGED <<nextItemId, outbox>>

\* Mutant: a settlement that completes at once is not announced as complete.
InsertPayments_NoCompletion(h) ==
    LET bill == BillOf(work[h].items, Host)
    IN  /\ pc[h] = "claimed"
        /\ Write(h, [work[h] EXCEPT !.payments =
                       [u \in DOMAIN bill |->
                          [amount |-> bill[u],
                           status |-> IF bill[u] = 0 THEN "PAID" ELSE "PENDING"]]])
        /\ outbox' = [outbox EXCEPT ![h] = <<Confirmed(work[h].total, bill)>>]
        /\ Goto(h, "written")
        /\ UNCHANGED nextItemId

\* INSERT settlement_payments; amount is an int column, (settlement, user)
\* is unique.
InsertPayments(h) ==
    LET bill == BillOf(work[h].items, Host)
    IN  /\ pc[h] = "claimed"
        /\ bill \in [DOMAIN bill -> 0..MaxAmount]
        /\ DOMAIN work[h].payments \cap DOMAIN bill = {}
        /\ Write(h, [work[h] EXCEPT !.payments =
                       [u \in DOMAIN bill |->
                          [amount |-> bill[u],
                           status |-> IF bill[u] = 0 THEN "PAID" ELSE "PENDING"]]])
        /\ outbox' = [outbox EXCEPT ![h] =
                        <<Confirmed(work[h].total, bill)>>
                          \o IF NothingOwed(bill) THEN <<Completed>> ELSE <<>>]
        /\ Goto(h, "written")
        /\ UNCHANGED nextItemId

\* Mutant: a repeated confirmation of a payment is announced again.
RepeatPayment_Announces(h) ==
    /\ Doing(h, "updatePayment")
    /\ work[h].status \in {"CONFIRMED", "COMPLETED"}
    /\ \E u \in DOMAIN work[h].payments :
         /\ work[h].payments[u].status = "PAID"
         /\ outbox' = [outbox EXCEPT ![h] = <<Paid(u)>>]
    /\ Write(h, work[h])
    /\ Goto(h, "written")
    /\ UNCHANGED nextItemId

\* Confirming a payment that is already PAID changes and announces nothing.
RepeatPayment(h) ==
    /\ Doing(h, "updatePayment")
    /\ work[h].status \in {"CONFIRMED", "COMPLETED"}
    /\ \E u \in DOMAIN work[h].payments : work[h].payments[u].status = "PAID"
    /\ Write(h, work[h])
    /\ Goto(h, "written")
    /\ UNCHANGED <<nextItemId, outbox>>

SavePayment(h) ==
    /\ Doing(h, "updatePayment")
    /\ work[h].status = "CONFIRMED"
    /\ \E u \in DOMAIN work[h].payments :
         /\ work[h].payments[u].status = "PENDING"
         /\ Write(h, [work[h] EXCEPT !.payments[u].status = "PAID"])
         /\ outbox' = [outbox EXCEPT ![h] = <<Paid(u)>>]
    /\ Goto(h, "saved")
    /\ UNCHANGED nextItemId

AllPaid(payments) == \A u \in DOMAIN payments : payments[u].status = "PAID"

\* Mutant: the first payment completes the settlement.
CompleteIfPaid_First(h) ==
    /\ pc[h] = "saved"
    /\ Write(h, [work[h] EXCEPT !.status = "COMPLETED"])
    /\ outbox' = [outbox EXCEPT ![h] = Append(@, Completed)]
    /\ Goto(h, "written")
    /\ UNCHANGED nextItemId

\* Read all payments back; when every one is PAID, complete the settlement.
CompleteIfPaid(h) ==
    /\ pc[h] = "saved"
    /\ IF AllPaid(work[h].payments)
       THEN /\ Write(h, [work[h] EXCEPT !.status = "COMPLETED"])
            /\ outbox' = [outbox EXCEPT ![h] = Append(@, Completed)]
       ELSE Write(h, work[h]) /\ UNCHANGED outbox
    /\ Goto(h, "written")
    /\ UNCHANGED nextItemId

Statement(h) ==
    \/ UpdateItems(h) \/ StartSelecting(h) \/ RevertToDraft(h) \/ SelectItems(h)
    \/ ClaimConfirm(h) \/ InsertPayments(h)
    \/ RepeatPayment(h) \/ SavePayment(h) \/ CompleteIfPaid(h)
-----------------------------------------------------------------------------
(* Commit, then post the messages; and what can go wrong.                  *)

\* The request is answered at once unless it has messages to post.
Commit(h) ==
    /\ pc[h] = "written"
    /\ db' = work[h]
    /\ lock' = NoHandler
    /\ IF outbox[h] = <<>> THEN Finish(h)
       ELSE /\ Goto(h, "posting")
            /\ work' = [work EXCEPT ![h] = NewRow]
            /\ UNCHANGED <<op, outbox>>
    /\ UNCHANGED <<nextItemId, approved, chat>>

\* Drop the first message of h; the request ends with its last message.
NextMessage(h) ==
    /\ IF Tail(outbox[h]) = <<>> THEN Finish(h)
       ELSE /\ outbox' = [outbox EXCEPT ![h] = Tail(@)]
            /\ UNCHANGED <<pc, op, work>>
    /\ UNCHANGED <<db, nextItemId, approved, lock>>

Post(h) ==
    /\ pc[h] = "posting"
    /\ chat' = IF Head(outbox[h]) = Notice THEN chat
               ELSE Append(chat, Head(outbox[h]))
    /\ NextMessage(h)

\* sendSystemMessage swallows the error of a post that failed.
LosePost(h) ==
    /\ pc[h] = "posting"
    /\ NextMessage(h)
    /\ UNCHANGED chat

\* Mutant: the messages are posted although the transaction rolled back.
Fail_StillPosts(h) ==
    /\ pc[h] = "written" /\ outbox[h] # <<>>
    /\ Goto(h, "posting")
    /\ lock' = NoHandler
    /\ UNCHANGED <<db, nextItemId, approved, op, work, outbox, chat>>

\* A statement or the COMMIT fails.
Fail(h) == pc[h] \in InTransaction /\ Abandon(h)

\* The COMMIT reached the database but its answer never came back.
CommitUnacknowledged(h) ==
    /\ pc[h] = "written"
    /\ db' = work[h]
    /\ lock' = NoHandler
    /\ Finish(h)
    /\ UNCHANGED <<nextItemId, approved, chat>>

\* The server process dies: open transactions roll back, messages are lost.
Crash ==
    /\ \E h \in Handlers : pc[h] # "idle"
    /\ lock' = NoHandler
    /\ pc' = [h \in Handlers |-> "idle"]
    /\ op' = [h \in Handlers |-> NoRequest]
    /\ work' = [h \in Handlers |-> NewRow]
    /\ outbox' = [h \in Handlers |-> <<>>]
    /\ UNCHANGED <<db, nextItemId, approved, chat>>

\* PartyMembersService approves or removes a member at any time; it does not
\* look at the settlement.
ChangeMembership ==
    /\ \E u \in Guests : approved' \in {approved \cup {u}, approved \ {u}}
    /\ UNCHANGED <<db, nextItemId, lock, pc, op, work, outbox, chat>>

Step(h) ==
    \/ LockSettlement(h) \/ LockTimeout(h) \/ Authorize(h) \/ Reject(h)
    \/ Statement(h) \/ Commit(h) \/ Post(h)

Fault(h) == Fail(h) \/ CommitUnacknowledged(h) \/ LosePost(h)

Next ==
    \/ \E h \in Handlers : Receive(h) \/ Step(h) \/ Fault(h)
    \/ Crash
    \/ ChangeMembership

Spec == Init /\ [][Next]_vars
-----------------------------------------------------------------------------
(* What the settlement service promises.                                   *)

\* The values every variable ranges over.
TypeOK ==
    /\ db \in Rows
    /\ nextItemId \in 1 .. MaxItemId + 1
    /\ approved \subseteq Guests
    /\ lock \in Handlers \cup {NoHandler}
    /\ pc \in [Handlers -> Places]
    /\ op \in [Handlers -> Requests \cup {NoRequest}]
    /\ work \in [Handlers -> Rows]
    /\ outbox \in [Handlers -> Seq(Messages)]
    /\ chat \in Seq(Messages)

Final == {"CONFIRMED", "COMPLETED"}

\* What a handler decides on stays true while it decides: between locking the
\* row and committing, nobody else changes what it read (lockedSettlement).
ReadsStayCurrent ==
    \A h \in Handlers :
        pc[h] \in {"locked", "checked"} => work[h] = db

\* A settlement is COMPLETED exactly when it is confirmed and every guest has
\* paid; one that is CONFIRMED waits for somebody; before, nobody owes.
CompletedIffPaid ==
    /\ db.status = "COMPLETED" => AllPaid(db.payments)
    /\ db.status = "CONFIRMED" => ~AllPaid(db.payments)
    /\ db.status \notin Final => DOMAIN db.payments = {}

\* Once confirmed, every participant except the host has one payment, for the
\* amount the selections as they are now stored give: no selection slips in
\* between the calculation and the status change (confirm, selectItems).
PaymentsMatchSelections ==
    db.status \in Final =>
        /\ EverythingSelected(db.items)
        /\ [u \in DOMAIN db.payments |-> db.payments[u].amount]
               = BillOf(db.items, Host)
        /\ \A u \in DOMAIN db.payments :
              db.payments[u].amount = 0 => db.payments[u].status = "PAID"

\* No won is lost or invented: once confirmed, what the guests pay and the
\* host's own share add up to the lines as they are stored (confirm); and the
\* stored total is that of the lines, unless the request had fractions, which
\* the total and the columns of the lines round differently (updateItems).
AmountsPreserved ==
    /\ (\A i \in DOMAIN db.items : db.items[i].whole) =>
         db.total = GrandTotal(db.items)
    /\ db.status \in Final =>
         GrandTotal(db.items) = Owed(db.items, Host)
             + SumFunction([u \in DOMAIN db.payments |-> db.payments[u].amount])

\* Selections exist only while, or after, the members were asked to select:
\* reverting to DRAFT to edit the items leaves none behind (revertToDraft).
DraftHasNoSelections ==
    db.status = "DRAFT" => Participants(db.items) = {}

\* The messages that are in the chat or that will be posted.
Announced ==
    {chat[i] : i \in DOMAIN chat}
      \cup UNION {{outbox[h][i] : i \in DOMAIN outbox[h]} :
                  h \in {g \in Handlers : pc[g] = "posting"}}

\* The chat never tells what the database does not hold: amounts are those of
\* the payments, a payment announced is PAID, a completion is COMPLETED, even
\* when the transaction fails or others run before the message is posted.
AnnouncementsTrue ==
    \A m \in Announced :
        CASE m.kind = "CONFIRMED" ->
               /\ db.status \in Final
               /\ m.total = db.total
               /\ m.bill = [u \in DOMAIN db.payments |-> db.payments[u].amount]
          [] m.kind = "PAID" ->
               /\ m.user \in DOMAIN db.payments
               /\ db.payments[m.user].status = "PAID"
          [] m.kind = "COMPLETED" -> db.status = "COMPLETED"
          [] OTHER -> TRUE

\* A confirmation, a payment and the completion are each announced at most
\* once, however often their requests are repeated, concurrently or after a
\* lost answer (settlement-flow.integration.cjs: "announce only once").
AnnouncedOnce ==
    /\ \A i, j \in DOMAIN chat : chat[i] = chat[j] => i = j
    /\ \A h \in Handlers : pc[h] = "posting" =>
         \A m \in {outbox[h][i] : i \in DOMAIN outbox[h]} \ {Notice} :
           /\ m \notin {chat[i] : i \in DOMAIN chat}
           /\ \A g \in Handlers \ {h} : pc[g] = "posting" =>
                m \notin {outbox[g][i] : i \in DOMAIN outbox[g]}

\* After confirm nothing about the money moves: items, selections, total and
\* amounts are frozen, a payment never goes back to PENDING and a settlement
\* that is final never leaves, nor a completed one its state.
FrozenOnceConfirmed ==
    [][db.status \in Final =>
         /\ db'.status \in Final
         /\ db.status = "COMPLETED" => db' = db
         /\ db'.items = db.items /\ db'.total = db.total
         /\ DOMAIN db'.payments = DOMAIN db.payments
         /\ \A u \in DOMAIN db.payments :
              /\ db'.payments[u].amount = db.payments[u].amount
              /\ db.payments[u].status = "PAID" => db'.payments[u].status = "PAID"]_vars

\* The concurrent requests behave as if they ran one at a time: each commit
\* is one whole request of SettlementAtomic, every other step none.
Atomic == INSTANCE SettlementAtomic WITH row <- db
OneAtATime == Atomic!Spec
=============================================================================
