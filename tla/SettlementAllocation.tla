------------------------ MODULE SettlementAllocation ------------------------
(***************************************************************************)
(* How SettlementsService.confirm divides a settlement: the line total of  *)
(* an item is split evenly over the members who selected it and the won    *)
(* left over go, one each, to the members with the smallest user ids.      *)
(*                                                                         *)
(* An item is a record with the fields total and members: total is the     *)
(* stored price * quantity and members is the set of user ids that         *)
(* selected it.  User ids are numbers.                                     *)
(***************************************************************************)
EXTENDS Integers, FiniteSets, Functions

\* Position of user u when the members S are sorted by user id (from 0).
Rank(u, S) == Cardinality({v \in S : v < u})

\* Mutant: the remainder is dropped.
Share_Floor(total, n, index) == total \div n

\* Mutant: the first member bears the whole remainder.
Share_FirstPays(total, n, index) ==
    total \div n + (IF index = 0 THEN total % n ELSE 0)

\* perPerson, plus one of the `remainder` won for the first indexes.
Share(total, n, index) ==
    total \div n + (IF index < total % n THEN 1 ELSE 0)

\* What item charges user u.
ItemShare(item, u) ==
    IF u \in item.members
    THEN Share(item.total, Cardinality(item.members), Rank(u, item.members))
    ELSE 0

Participants(items) == UNION {items[i].members : i \in DOMAIN items}

\* memberAmounts[u]: the shares of u summed over a table of items.
Owed(items, u) ==
    SumFunction([i \in DOMAIN items |-> ItemShare(items[i], u)])

\* n parts of a won, unit of them to a won, as an int column rounds them.
Rounded(n, unit) == (2 * n + unit) \div (2 * unit)

\* The sum of the line totals of a table of items.
GrandTotal(items) == SumFunction([i \in DOMAIN items |-> items[i].total])

\* Mutant: the host is billed too.
BillOf_WithHost(items, host) ==
    [u \in Participants(items) |-> Owed(items, u)]

\* guestAmounts: what each participant other than the host has to pay.
BillOf(items, host) ==
    [u \in Participants(items) \ {host} |-> Owed(items, u)]
=============================================================================
