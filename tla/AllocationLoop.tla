--------------------------- MODULE AllocationLoop ---------------------------
(***************************************************************************)
(* The loop of SettlementsService.confirm that fills memberAmounts: one    *)
(* step per item, in whatever order the database returned the items, each  *)
(* walking over the members of the item sorted by user id.                 *)
(***************************************************************************)
EXTENDS SettlementAllocation, Sequences

CONSTANTS
    Users,         \* user ids
    Host,          \* the host, who confirms
    Items,         \* item ids
    Totals         \* bound: the line totals an item may have

ASSUME LoopUsers == Users \subseteq Nat /\ IsFiniteSet(Users) /\ Host \in Users
ASSUME LoopItems == IsFiniteSet(Items) /\ Totals \subseteq Nat

VARIABLES
    items,         \* the items of the settlement with their members
    todo,          \* items the loop has not reached
    memberAmounts, \* what the loop has charged each user so far
    result         \* "running", "refused" or the new status

vars == <<items, todo, memberAmounts, result>>

Init ==
    /\ \E ids \in SUBSET Items :
         items \in [ids -> [total : Totals, members : SUBSET Users]]
    /\ todo = DOMAIN items
    /\ memberAmounts = <<>>
    /\ result = "running"

\* (memberAmounts[userId] || 0)
Charged(u) == IF u \in DOMAIN memberAmounts THEN memberAmounts[u] ELSE 0

\* The members of an item sorted by user id.
Sorted(S) == [k \in 1 .. Cardinality(S) |-> CHOOSE u \in S : Rank(u, S) = k - 1]

\* An item nobody selected, or no item at all, refuses the confirmation.
Refuse ==
    /\ result = "running"
    /\ DOMAIN items = {} \/ \E i \in todo : items[i].members = {}
    /\ result' = "refused"
    /\ UNCHANGED <<items, todo, memberAmounts>>

\* Mutant: a second item overwrites the amount instead of adding to it.
ChargeItem_Overwrites(i) ==
    LET members == Sorted(items[i].members)
        n == Len(members)
    IN  /\ result = "running"
        /\ items[i].members # {}
        /\ memberAmounts' =
             [u \in DOMAIN memberAmounts \cup items[i].members |->
                IF u \in items[i].members
                THEN Share(items[i].total, n,
                       (CHOOSE k \in 1 .. n : members[k] = u) - 1)
                ELSE memberAmounts[u]]
        /\ todo' = todo \ {i}
        /\ UNCHANGED <<items, result>>

ChargeItem(i) ==
    LET members == Sorted(items[i].members)
        n == Len(members)
    IN  /\ result = "running"
        /\ items[i].members # {}
        /\ memberAmounts' =
             [u \in DOMAIN memberAmounts \cup items[i].members |->
                IF u \in items[i].members
                THEN Charged(u) + Share(items[i].total, n,
                       (CHOOSE k \in 1 .. n : members[k] = u) - 1)
                ELSE memberAmounts[u]]
        /\ todo' = todo \ {i}
        /\ UNCHANGED <<items, result>>

\* Mutant: the host's own share counts as owed.
GuestsOwe_WithHost == {u \in DOMAIN memberAmounts : memberAmounts[u] # 0}
GuestsOwe == {u \in DOMAIN memberAmounts \ {Host} : memberAmounts[u] # 0}

\* Mutant: the status is left as it was.
Decide_NoStatus ==
    /\ result = "running"
    /\ todo = {}
    /\ DOMAIN items # {}
    /\ result' = "SELECTING"
    /\ UNCHANGED <<items, todo, memberAmounts>>

\* completed: every guest amount is 0.
Decide ==
    /\ result = "running"
    /\ todo = {}
    /\ DOMAIN items # {}
    /\ result' = IF GuestsOwe = {} THEN "COMPLETED" ELSE "CONFIRMED"
    /\ UNCHANGED <<items, todo, memberAmounts>>

Next == Refuse \/ Decide \/ \E i \in todo : ChargeItem(i)

Spec == Init /\ [][Next]_vars
-----------------------------------------------------------------------------
TypeOK ==
    /\ todo \subseteq DOMAIN items
    /\ DOMAIN memberAmounts \subseteq Users
    /\ \A u \in DOMAIN memberAmounts : memberAmounts[u] \in Nat
    /\ result \in {"running", "refused", "CONFIRMED", "COMPLETED"}

Processed == [i \in DOMAIN items \ todo |-> items[i]]

\* The order in which the database returns the items does not matter: the
\* loop charges what the order-free definition says, and so every won of the
\* items charged so far once (settlement-allocation.spec.ts: the sum is preserved).
OrderFree ==
    /\ \A u \in Users : Charged(u) = Owed(Processed, u)
    /\ SumFunction([u \in Users |-> Charged(u)]) = GrandTotal(Processed)

\* Handing out the won of a line total one at a time, in turn: the independent
\* definition of a share.
InTurn(total, n, index) == Cardinality({k \in 0 .. total - 1 : k % n = index})

\* A share is what dealing the won in turn gives, so that nobody is charged more
\* than one won per item above anybody who selected the same items, and the won
\* left over go to the smaller user ids.
FairToTheWon ==
    /\ \A i \in DOMAIN items : \A u \in items[i].members :
         ItemShare(items[i], u) =
           InTurn(items[i].total, Cardinality(items[i].members), Rank(u, items[i].members))
    /\ \A u, v \in Users :
         (u < v /\ \A i \in DOMAIN Processed :
                     u \in items[i].members <=> v \in items[i].members)
           => Charged(u) - Charged(v) \in 0 .. Cardinality(DOMAIN Processed)

\* The settlement is COMPLETED at once exactly when the host alone bears it.
CompletedIfHostBearsAll ==
    /\ result = "COMPLETED" => Owed(items, Host) = GrandTotal(items)
    /\ result = "CONFIRMED" => Owed(items, Host) < GrandTotal(items)
=============================================================================
