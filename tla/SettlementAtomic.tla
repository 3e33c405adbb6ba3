-------------------------- MODULE SettlementAtomic --------------------------
(***************************************************************************)
(* What the settlement endpoints promise: every request takes effect in    *)
(* one step or not at all, as if requests ran one at a time.  There are no *)
(* locks, transactions, crashes or messages here.  Each request is a       *)
(* relation between the rows s before it and the rows t after it: the      *)
(* settlement with its items, selections and payments.  How a total is     *)
(* formed and divided is a parameter (SettlementAllocation defines it).    *)
(***************************************************************************)
CONSTANTS
    Host, Guests,
    GrandTotal(_),     \* the sum of the line totals of a table of items
    BillOf(_, _)       \* what everybody but the host owes for it

VARIABLE row

Users == Guests \cup {Host}

Init == row = [status |-> "DRAFT", total |-> 0, items |-> <<>>, payments |-> <<>>]

AllPaid(payments) == \A u \in DOMAIN payments : payments[u].status = "PAID"

\* A confirmed settlement is complete once nobody has to pay any more.
FinalStatus(payments) == IF AllPaid(payments) THEN "COMPLETED" ELSE "CONFIRMED"

\* The host replaces the items while the settlement is a draft.  Item ids
\* are never used again, so an old id cannot select a new item.  The total is
\* that of the items unless the prices or quantities had fractions.
UpdateItems(s, t) ==
    /\ s.status = "DRAFT"
    /\ DOMAIN t.items \cap DOMAIN s.items = {}
    /\ \A i \in DOMAIN t.items : t.items[i].members = {}
    /\ (\A i \in DOMAIN t.items : t.items[i].whole) => t.total = GrandTotal(t.items)
    /\ t = [s EXCEPT !.items = t.items, !.total = t.total]

\* The host opens the selection.
StartSelecting(s, t) ==
    /\ s.status = "DRAFT"
    /\ DOMAIN s.items # {}
    /\ t = [s EXCEPT !.status = "SELECTING"]

\* The host goes back to the draft; what was selected is forgotten.
RevertToDraft(s, t) ==
    /\ s.status = "SELECTING"
    /\ t = [s EXCEPT !.status = "DRAFT",
                     !.items = [i \in DOMAIN s.items |->
                                  [s.items[i] EXCEPT !.members = {}]]]

\* A user replaces all of his or her selections, and nobody else's.
SelectItems(u, s, t) ==
    /\ s.status = "SELECTING"
    /\ \E S \in SUBSET DOMAIN s.items :
         t = [s EXCEPT !.items =
                [i \in DOMAIN s.items |->
                   [s.items[i] EXCEPT !.members =
                      IF i \in S THEN @ \cup {u} ELSE @ \ {u}]]]

\* What the participants are asked to pay; nothing is paid already.
OpenPayments(bill) ==
    [u \in DOMAIN bill |->
       [amount |-> bill[u], status |-> IF bill[u] = 0 THEN "PAID" ELSE "PENDING"]]

\* The host confirms: status and payments change together.
Confirm(s, t) ==
    /\ s.status = "SELECTING"
    /\ DOMAIN s.items # {}
    /\ \A i \in DOMAIN s.items : s.items[i].members # {}
    /\ t = [s EXCEPT !.payments = OpenPayments(BillOf(s.items, Host)),
                     !.status = FinalStatus(OpenPayments(BillOf(s.items, Host)))]

\* The host records one payment; the last one completes the settlement in
\* the same step.
Pay(u, s, t) ==
    /\ s.status = "CONFIRMED"
    /\ s.payments[u].status = "PENDING"
    /\ LET payments == [s.payments EXCEPT ![u].status = "PAID"]
       IN  t = [s EXCEPT !.payments = payments, !.status = FinalStatus(payments)]

Request(s, t) ==
    \/ UpdateItems(s, t) \/ StartSelecting(s, t) \/ RevertToDraft(s, t)
    \/ Confirm(s, t)
    \/ \E u \in Users : SelectItems(u, s, t)
    \/ \E u \in DOMAIN s.payments : Pay(u, s, t)

Next == Request(row, row')

Spec == Init /\ [][Next]_row
=============================================================================
