--------------------------- MODULE ReceiptParser ---------------------------
(***************************************************************************)
(* parseReceiptText reads the items of a receipt from its lines.  A line is*)
(* what the regular expressions make of it: a name, a number that stands   *)
(* alone, an item on one line, a line to skip, or the end of the items.    *)
(* The receipt was printed in one of the layouts the parser knows, with the*)
(* price of one piece first; the recognition may have merged the quantity  *)
(* and the price of an item into one number ("1  6,900" into "16,900").    *)
(***************************************************************************)
EXTENDS Integers, Sequences, FiniteSets, Functions

CONSTANTS
    Quantities,    \* at most 20
    Prices,        \* of one piece, of three to seven digits
    Differences,   \* of the total from the items: bags and deposits are added to
                   \* it, discounts and points taken off, digits misread
    MaxItems

Ten(k) == 10^k

\* What the constants must satisfy.
ReceiptBounds ==
    /\ Quantities \subseteq 1..20 /\ MaxItems \in Nat
    /\ \A p \in Prices : p \in Nat /\ p >= Ten(2) /\ p < Ten(7)
    /\ Differences \subseteq Int

VARIABLES
    receipt,       \* what was bought: <<[price, quantity, layout], ...>>
    header,        \* is there a line that heads the columns of the items
    total,         \* totalPrice: what the receipt says, or 0
    at, line,      \* what to read next: an item, and which of its lines
    pending,       \* the name without a price, and its quantity, or NoItem
    items          \* <<[name, price, quantity], ...>>

vars == <<receipt, header, total, at, line, pending, items>>

Layouts == {"inline", "columns", "merged"}
Bought == [price : Prices, quantity : Quantities, layout : Layouts]
Item(name, price, quantity) == [name |-> name, price |-> price, quantity |-> quantity]
NoItem == [name |-> 0, quantity |-> 1]
Amount(item) == item.price * item.quantity
Sum(list) == SumFunction([n \in DOMAIN list |-> Amount(list[n])])

Digits(n) == CHOOSE k \in 1..9 : Ten(k - 1) <= n /\ n < Ten(k)
Joined(n, m) == n * Ten(Digits(m)) + m

Skip == [kind |-> "skip"]
Name(n) == [kind |-> "name", name |-> n]
Number(value, marked) == [kind |-> "number", value |-> value, marked |-> marked]

\* The lines of the n-th item: on one line; name, barcode, quantity (if not
\* 1), price and amount on lines of their own; or with the two numbers merged.
Inline(n, quantity, prices) ==
    [kind |-> "inline", name |-> n, quantity |-> quantity, prices |-> prices]
Single(b) == b.quantity = 1
Printed(n) ==
    LET b == receipt[n]
    IN  CASE b.layout = "inline" /\ Single(b) -> <<Inline(n, 1, <<b.price>>)>>
          [] b.layout = "inline" /\ ~Single(b) ->
               <<Inline(n, b.quantity, <<b.price, Amount(b)>>)>>
          [] b.layout = "columns" /\ Single(b) ->
               <<Name(n), Skip, Number(b.price, TRUE)>>
          [] b.layout = "columns" /\ ~Single(b) ->
               <<Name(n), Skip, Number(b.quantity, FALSE), Number(b.price, TRUE),
                 Number(Amount(b), TRUE)>>
          [] b.layout = "merged" ->
               <<Name(n), Number(Joined(b.quantity, b.price), TRUE)>>

Init ==
    /\ receipt \in UNION {[1..n -> Bought] : n \in 1..MaxItems}
    /\ header \in BOOLEAN
    /\ header \/ \A n \in DOMAIN receipt : receipt[n].layout = "inline"
    /\ \E d \in Differences : total \in {0, Sum(receipt) + d}
    /\ total >= 0
    /\ at = 1 /\ line = 1
    /\ pending = NoItem
    /\ items = <<>>
-----------------------------------------------------------------------------
(* repairMergedQuantityAndPrice: the number without its first digit, or its *)
(* first two, may be the price, and these digits the quantity.              *)

Split(value, k) == [price |-> value % Ten(k), quantity |-> value \div Ten(k)]

Candidates(value, subtotal) ==
    {c \in {Split(value, Digits(value) - n) : n \in {m \in 1..2 : Digits(value) >= m + 3}} :
       /\ c.quantity \in 1..20
       /\ c.price >= 100
       /\ subtotal + Amount(c) <= total}

\* Mutant: the candidate that leaves most of the total.
Repaired_Least(value, quantity, subtotal) ==
    LET candidates == Candidates(value, subtotal)
        best == {c \in candidates : \A d \in candidates : Amount(c) <= Amount(d)}
    IN  IF total = 0 \/ subtotal + value <= total \/ candidates = {}
        THEN [price |-> value, quantity |-> quantity]
        ELSE CHOOSE c \in best : \A d \in best : c.quantity <= d.quantity

\* The candidate that comes closest to the total; of two the shorter prefix.
Repaired(value, quantity, subtotal) ==
    LET candidates == Candidates(value, subtotal)
        best == {c \in candidates : \A d \in candidates : Amount(c) >= Amount(d)}
    IN  IF total = 0 \/ subtotal + value <= total \/ candidates = {}
        THEN [price |-> value, quantity |-> quantity]
        ELSE CHOOSE c \in best : \A d \in best : c.quantity <= d.quantity
-----------------------------------------------------------------------------
(* One line of the loop of parseMultilineItems.  After the lines of the     *)
(* items one that ends their section is left unread.                        *)

Line == Printed(at)[line]
Advance == IF line < Len(Printed(at)) THEN at' = at /\ line' = line + 1
                                      ELSE at' = at + 1 /\ line' = 1
Reading(kind) == at <= Len(receipt) /\ Line.kind = kind /\ Advance
Paper == <<receipt, header, total>>

SkipLine == Reading("skip") /\ UNCHANGED <<Paper, pending, items>>

ReadName ==
    /\ Reading("name")
    /\ header
    /\ pending' = [name |-> Line.name, quantity |-> 1]
    /\ UNCHANGED <<Paper, items>>

\* A number without a name before it means nothing.
ReadNumber ==
    /\ Reading("number")
    /\ header
    /\ UNCHANGED Paper
    /\ \/ pending = NoItem /\ UNCHANGED <<pending, items>>
       \/ /\ pending # NoItem
          /\ IF ~Line.marked /\ Line.value \in 1..20
             THEN pending' = [pending EXCEPT !.quantity = Line.value] /\ UNCHANGED items
             ELSE LET r == Repaired(Line.value, pending.quantity, Sum(items))
                  IN  /\ items' = Append(items, Item(pending.name, r.price, r.quantity))
                      /\ pending' = NoItem

\* parseInlineItem: of several prices the last is the amount.  Without a header
\* these are all the items; one dearer than the total is left out.
ReadInline ==
    LET prices == Line.prices
        price == IF Line.quantity > 1 /\ Len(prices) > 1
                 THEN prices[Len(prices) - 1] ELSE prices[Len(prices)]
    IN  /\ Reading("inline")
        /\ pending' = NoItem
        /\ items' = IF header \/ total = 0 \/ price <= total
                    THEN Append(items, Item(Line.name, price, Line.quantity)) ELSE items
        /\ UNCHANGED Paper

Next == SkipLine \/ ReadName \/ ReadNumber \/ ReadInline

Spec == Init /\ [][Next]_vars
-----------------------------------------------------------------------------
\* The values every variable ranges over.
TypeOK ==
    /\ receipt \in Seq(Bought)
    /\ header \in BOOLEAN
    /\ total \in Nat
    /\ at \in 1 .. Len(receipt) + 1
    /\ line \in 1 .. IF at <= Len(receipt) THEN Len(Printed(at)) ELSE 1
    /\ pending = NoItem \/ pending \in [name : DOMAIN receipt, quantity : 1..20]
    /\ items \in Seq([name : DOMAIN receipt, price : Nat, quantity : 1..20])

Merged == {n \in DOMAIN receipt : receipt[n].layout = "merged"}
Exact(n) == items[n] = Item(n, receipt[n].price, receipt[n].quantity)

\* The total was read, and no discount brings it below the items.
Covered == total # 0 /\ total >= Sum(receipt)

\* No numbers were merged but the last item's, where the total can repair them.
Clean == Merged \subseteq {Len(receipt)} /\ (Covered \/ (Merged = {} /\ total = 0))

\* Nothing on the lines of the item can be taken for merged numbers.
Short(n) ==
    receipt[n].layout = "inline" \/ (receipt[n].layout = "columns" /\ receipt[n].price < 1000)

\* Where no discount makes the total less than the items, they are read as they
\* were bought; if the numbers of the last one were merged, the others are, and
\* the sum is the true one or more, but not more than the total.  Whatever the
\* total, under a header no item is lost or taken for another, and those are
\* exact whose price is too short to be split (repairMergedQuantityAndPrice).
ReceiptRead ==
    at > Len(receipt) =>
        /\ Clean => /\ Len(items) = Len(receipt)
                    /\ \A n \in DOMAIN receipt \ Merged : Exact(n)
                    /\ Merged = {} \/ Sum(items) \in Sum(receipt) .. total
        /\ header => /\ Len(items) = Len(receipt)
                     /\ \A n \in DOMAIN receipt : items[n].name = n /\ (Short(n) => Exact(n))
=============================================================================
