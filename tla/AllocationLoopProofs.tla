------------------------ MODULE AllocationLoopProofs ------------------------
(***************************************************************************)
(* The loop of confirm computes the order-free shares, for any users, any  *)
(* items and any amounts: what it charges is what SettlementAllocation     *)
(* defines, whatever the order of the items.                               *)
(***************************************************************************)
EXTENDS AllocationLoop, AllocationProofs, SequenceTheorems

\* The items are never changed, and those behind the loop were selected by
\* somebody.
ItemsInv ==
    /\ DOMAIN items \in SUBSET Items
    /\ items \in [DOMAIN items -> [total : Totals, members : SUBSET Users]]
    /\ \A i \in DOMAIN items \ todo : items[i].members # {}

\* The loop has charged what the items behind it give.
ChargedInv == \A u \in Users : Charged(u) = Owed(Processed, u)

LoopInv == TypeOK /\ ItemsInv /\ ChargedInv /\ CompletedIfHostBearsAll

-----------------------------------------------------------------------------
(* The members sorted by user id.                                          *)

LEMMA SortedMembers ==
    ASSUME NEW S \in SUBSET Nat, IsFiniteSet(S)
    PROVE  /\ Sorted(S) \in Seq(S)
           /\ Len(Sorted(S)) = Cardinality(S)
           /\ \A u \in S : (CHOOSE k \in 1 .. Cardinality(S) : Sorted(S)[k] = u) - 1
                             = Rank(u, S)
<1> DEFINE n == Cardinality(S)
<1>1. n \in Nat
  BY FS_CardinalityType
<1>2. ASSUME NEW k \in 1 .. n
      PROVE  Sorted(S)[k] \in S /\ Rank(Sorted(S)[k], S) = k - 1
  <2>1. k - 1 \in 0 .. n - 1
    BY <1>1
  <2>2. \E u \in S : Rank(u, S) = k - 1
    BY <2>1, RankTaken
  <2>3. Sorted(S)[k] = CHOOSE u \in S : Rank(u, S) = k - 1
    BY DEF Sorted
  <2> QED BY <2>2, <2>3
<1>3. Sorted(S) \in [1 .. n -> S]
  BY <1>2 DEF Sorted
<1>4. Sorted(S) \in Seq(S)
  BY <1>1, <1>3, SeqDef
<1>5. Len(Sorted(S)) = n
  BY <1>1, <1>3, <1>4, LenProperties
<1>6. ASSUME NEW u \in S
      PROVE  (CHOOSE k \in 1 .. n : Sorted(S)[k] = u) - 1 = Rank(u, S)
  <2>1. Rank(u, S) \in 0 .. n - 1
    BY RankType
  <2>2. Rank(u, S) + 1 \in 1 .. n
    BY <1>1, <2>1
  <2>3. Rank(Sorted(S)[Rank(u, S) + 1], S) = Rank(u, S)
    BY <1>1, <1>2, <2>1, <2>2
  <2>4. \A v \in S : Rank(v, S) = Rank(u, S) => v = u
    <3>1. ASSUME NEW v \in S, v # u PROVE Rank(v, S) # Rank(u, S)
      <4>1. Rank(v, S) \in Int /\ Rank(u, S) \in Int /\ u \in Nat /\ v \in Nat
        BY RankType
      <4>2. u < v \/ v < u
        BY <3>1, <4>1
      <4>3. Rank(u, S) < Rank(v, S) \/ Rank(v, S) < Rank(u, S)
        BY <4>2, RankLess
      <4> QED BY <4>1, <4>3
    <3> QED BY <3>1
  <2>5. Sorted(S)[Rank(u, S) + 1] = u
    BY <1>2, <2>2, <2>3, <2>4
  <2> DEFINE k == CHOOSE k \in 1 .. n : Sorted(S)[k] = u
  <2>6. k \in 1 .. n /\ Sorted(S)[k] = u
    BY <2>2, <2>5
  <2>7. Rank(u, S) = k - 1
    BY <1>2, <2>6
  <2> QED BY <2>7
<1> QED BY <1>4, <1>5, <1>6

-----------------------------------------------------------------------------
(* The items behind the loop.                                              *)

LEMMA MembersFinite ==
    ASSUME ItemsInv, NEW i \in DOMAIN items
    PROVE  /\ items[i].total \in Nat
           /\ items[i].members \in SUBSET Users
           /\ items[i].members \in SUBSET Nat
           /\ IsFiniteSet(items[i].members)
           /\ Cardinality(items[i].members) \in Nat
           /\ items[i].members # {} => Cardinality(items[i].members) \in Nat \ {0}
<1>1. /\ items[i].total \in Nat
      /\ items[i].members \in SUBSET Users
      /\ items[i].members \in SUBSET Nat
  BY LoopItems, LoopUsers DEF ItemsInv
<1>2. IsFiniteSet(items[i].members)
  BY <1>1, LoopUsers, FS_Subset
<1> QED BY <1>1, <1>2, FS_CardinalityType, FS_EmptySet

LEMMA ProcessedDivisible ==
    ASSUME ItemsInv, NEW done \in SUBSET (DOMAIN items \ todo)
    PROVE  Divisible([i \in done |-> items[i]], Users)
<1>1. IsFiniteSet(done)
  BY LoopItems, FS_Subset DEF ItemsInv
<1>2. \A i \in done : Chargeable(items[i], Users)
  BY MembersFinite DEF ItemsInv, Chargeable
<1> QED BY <1>1, <1>2 DEF Divisible

\* One more item adds its share.
LEMMA OwedStep ==
    ASSUME NEW done, NEW i \in done, NEW f, NEW u \in Users,
           Divisible([j \in done |-> f[j]], Users)
    PROVE  Owed([j \in done |-> f[j]], u)
             = Owed([j \in done \ {i} |-> f[j]], u) + ItemShare(f[i], u)
<1> DEFINE t == [j \in done |-> f[j]]
           g == [j \in done |-> ItemShare(f[j], u)]
<1>1. g \in [done -> Int] /\ IsFiniteSet(done)
  <2>1. [j \in DOMAIN t |-> ItemShare(t[j], u)] \in [DOMAIN t -> Int]
    BY OwedType, LoopUsers
  <2>2. [j \in DOMAIN t |-> ItemShare(t[j], u)] = g /\ DOMAIN t = done
    OBVIOUS
  <2> QED BY <2>1, <2>2 DEF Divisible
<1>2. Owed(t, u) = SumFunction(g)
  <2>1. [j \in DOMAIN t |-> ItemShare(t[j], u)] = g
    OBVIOUS
  <2> QED BY <2>1 DEF Owed
<1>3. Owed([j \in done \ {i} |-> f[j]], u) = SumFunction([j \in done \ {i} |-> g[j]])
  <2> DEFINE r == [j \in done \ {i} |-> f[j]]
  <2>1. [j \in DOMAIN r |-> ItemShare(r[j], u)] = [j \in done \ {i} |-> g[j]]
    OBVIOUS
  <2> QED BY <2>1 DEF Owed
<1>4. g[i] = ItemShare(f[i], u)
  OBVIOUS
<1> HIDE DEF g, t
<1>5. SumFunction(g) = SumFunction([j \in done \ {i} |-> g[j]]) + g[i]
  BY <1>1, SumRemove
<1> QED BY <1>2, <1>3, <1>4, <1>5 DEF t

-----------------------------------------------------------------------------
(* The induction.                                                          *)

LEMMA LoopInit == Init => LoopInv
<1> SUFFICES ASSUME Init PROVE LoopInv
  OBVIOUS
<1>1. TypeOK
  BY DEF Init, TypeOK
<1>2. ItemsInv
  BY DEF Init, ItemsInv
<1>3. ChargedInv
  <2> SUFFICES ASSUME NEW u \in Users PROVE Charged(u) = Owed(Processed, u)
    BY DEF ChargedInv
  <2>1. Charged(u) = 0
    BY DEF Init, Charged
  <2>2. [i \in DOMAIN Processed |-> ItemShare(Processed[i], u)] = [i \in {} |-> 0]
    BY DEF Init, Processed
  <2> QED BY <2>1, <2>2, SumZero, FS_EmptySet DEF Owed
<1>4. CompletedIfHostBearsAll
  BY DEF Init, CompletedIfHostBearsAll
<1> QED BY <1>1, <1>2, <1>3, <1>4 DEF LoopInv

LEMMA ChargeItemStep ==
    ASSUME LoopInv, NEW i \in todo, ChargeItem(i)
    PROVE  LoopInv'
<1> DEFINE M == items[i].members
           S == Sorted(M)
           n == Cardinality(M)
           Index(u) == (CHOOSE k \in 1 .. Len(S) : S[k] = u) - 1
           Due(u) == Share(items[i].total, Len(S), Index(u))
<1>1. i \in DOMAIN items /\ items' = items /\ result' = result
      /\ todo' = todo \ {i} /\ M # {}
  BY DEF ChargeItem, LoopInv, TypeOK
<1>2. /\ items[i].total \in Nat /\ M \in SUBSET Users /\ M \in SUBSET Nat
      /\ IsFiniteSet(M) /\ n \in Nat \ {0}
  BY <1>1, MembersFinite DEF LoopInv
<1>3. \A u \in M : Due(u) = ItemShare(items[i], u)
  BY <1>2, SortedMembers DEF ItemShare
<1>4. \A u \in M : ItemShare(items[i], u) \in Nat
  <2>1. Chargeable(items[i], Users)
    BY <1>1, <1>2 DEF Chargeable
  <2>2. [u \in Users |-> ItemShare(items[i], u)] \in [Users -> Nat]
    BY <2>1, ItemSharesAddUp, LoopUsers
  <2> QED BY <1>2, <2>2
<1>5. /\ DOMAIN memberAmounts' = DOMAIN memberAmounts \cup M
      /\ \A u \in DOMAIN memberAmounts \cup M :
           memberAmounts'[u] = IF u \in M THEN Charged(u) + ItemShare(items[i], u)
                                          ELSE memberAmounts[u]
  <2>1. memberAmounts' = [u \in DOMAIN memberAmounts \cup M |->
                            IF u \in M THEN Charged(u) + Due(u)
                                       ELSE memberAmounts[u]]
    BY DEF ChargeItem
  <2> HIDE DEF Due, M
  <2> QED BY <1>3, <2>1
<1>6. \A u \in Users : Charged(u) \in Nat
  BY DEF LoopInv, TypeOK, Charged
<1>7. TypeOK'
  BY <1>1, <1>2, <1>4, <1>5, <1>6 DEF LoopInv, TypeOK
<1>8. ItemsInv'
  BY <1>1 DEF LoopInv, ItemsInv
<1>9. ChargedInv'
  <2> SUFFICES ASSUME NEW u \in Users PROVE Charged(u)' = Owed(Processed', u)
    BY DEF ChargedInv
  <2> DEFINE done == DOMAIN items \ todo'
  <2>1. Charged(u)' = Charged(u) + ItemShare(items[i], u)
    <3>1. u \notin M => ItemShare(items[i], u) = 0
      BY DEF ItemShare
    <3>2. Charged(u)' = IF u \in DOMAIN memberAmounts' THEN memberAmounts'[u] ELSE 0
      BY DEF Charged
    <3>3. CASE u \in M
      BY <1>5, <3>2, <3>3
    <3>4. CASE u \notin M
      BY <1>5, <1>6, <3>1, <3>2, <3>4 DEF Charged
    <3> QED BY <3>3, <3>4
  <2>2. Processed' = [j \in done |-> items[j]] /\ i \in done
    BY <1>1 DEF Processed
  <2>3. Processed = [j \in done \ {i} |-> items[j]]
    <3>1. done \ {i} = DOMAIN items \ todo
      BY <1>1
    <3> QED BY <3>1 DEF Processed
  <2>4. Divisible([j \in done |-> items[j]], Users)
    <3>1. IsFiniteSet(done)
      BY LoopItems, FS_Subset DEF LoopInv, ItemsInv
    <3>2. \A j \in done : Chargeable(items[j], Users)
      BY <1>1, MembersFinite DEF LoopInv, ItemsInv, Chargeable
    <3> QED BY <3>1, <3>2 DEF Divisible
  <2> HIDE DEF done
  <2>5. Owed([j \in done |-> items[j]], u)
          = Owed([j \in done \ {i} |-> items[j]], u) + ItemShare(items[i], u)
    BY <2>2, <2>4, OwedStep
  <2> QED BY <2>1, <2>2, <2>3, <2>5 DEF LoopInv, ChargedInv
<1>10. CompletedIfHostBearsAll'
  BY <1>1 DEF ChargeItem, CompletedIfHostBearsAll
<1> QED BY <1>7, <1>8, <1>9, <1>10 DEF LoopInv

\* At the end of the loop the guests owe nothing exactly when the host's own
\* share is the whole total.
LEMMA DecideStep ==
    ASSUME LoopInv, Decide
    PROVE  LoopInv'
<1>1. UNCHANGED <<items, todo, memberAmounts>> /\ todo = {}
  BY DEF Decide
<1>2. TypeOK' /\ ItemsInv' /\ ChargedInv'
  BY <1>1 DEF Decide, LoopInv, TypeOK, ItemsInv, ChargedInv, Charged, Processed
<1> DEFINE f == [u \in Users |-> Owed(items, u)]
           rest == [u \in Users \ {Host} |-> f[u]]
<1>3. Processed = items
  BY <1>1 DEF Processed, LoopInv, ItemsInv
<1>4. \A u \in Users : Charged(u) \in Nat /\ f[u] = Charged(u)
  BY <1>3 DEF LoopInv, TypeOK, Charged, ChargedInv
<1>5. f \in [Users -> Nat] /\ rest \in [Users \ {Host} -> Nat]
  BY <1>4
<1>6. Divisible(items, Users)
  <2>1. items = [i \in DOMAIN items |-> items[i]]
    BY DEF LoopInv, ItemsInv
  <2>2. DOMAIN items \in SUBSET (DOMAIN items \ todo)
    BY <1>1
  <2> QED BY <2>1, <2>2, ProcessedDivisible DEF LoopInv
<1>7. GuestsOwe = {} <=> \A u \in Users \ {Host} : rest[u] = 0
  BY <1>4 DEF GuestsOwe, Charged, LoopInv, TypeOK
<1>8. f[Host] = Owed(items, Host)
  BY LoopUsers
<1> HIDE DEF f
<1>9. SumFunction(f) = GrandTotal(items)
  BY <1>6, SharesAddUp, LoopUsers DEF f
<1>10. f \in [Users -> Int] /\ f[Host] \in Nat
  BY <1>5, LoopUsers
<1>11. SumFunction(f) = SumFunction(rest) + f[Host]
  BY <1>10, SumRemove, LoopUsers
<1> HIDE DEF rest
<1>12. IsFiniteSet(Users \ {Host})
  BY LoopUsers, FS_RemoveElement
<1>13. /\ SumFunction(rest) \in Nat
       /\ (\A u \in Users \ {Host} : rest[u] = 0) <=> SumFunction(rest) = 0
  BY <1>5, <1>12, SumNat
<1>14. /\ GuestsOwe = {} => Owed(items, Host) = GrandTotal(items)
       /\ GuestsOwe # {} => Owed(items, Host) < GrandTotal(items)
  BY <1>7, <1>8, <1>9, <1>10, <1>11, <1>13
<1>15. CompletedIfHostBearsAll'
  BY <1>1, <1>14 DEF Decide, CompletedIfHostBearsAll
<1> QED BY <1>2, <1>15 DEF LoopInv

LEMMA LoopStep == LoopInv /\ [Next]_vars => LoopInv'
<1> SUFFICES ASSUME LoopInv, [Next]_vars PROVE LoopInv'
  OBVIOUS
<1>1. CASE Refuse
  BY <1>1 DEF Refuse, LoopInv, TypeOK, ItemsInv, ChargedInv, Charged, Processed,
              CompletedIfHostBearsAll
<1>2. CASE UNCHANGED vars
  BY <1>2 DEF vars, LoopInv, TypeOK, ItemsInv, ChargedInv, Charged, Processed,
              CompletedIfHostBearsAll
<1> QED BY <1>1, <1>2, ChargeItemStep, DecideStep DEF Next

LEMMA Loop == Spec => []LoopInv
BY LoopInit, LoopStep, PTL DEF Spec

\* The loop charges users only, and won that are whole and not negative.
THEOREM LoopTypeCorrect == Spec => []TypeOK
<1>1. LoopInv => TypeOK
  BY DEF LoopInv
<1> QED BY <1>1, Loop, PTL

\* Whatever the order of the items, the loop charges the order-free shares and
\* every won of the items behind it once.
THEOREM LoopIsOrderFree == Spec => []OrderFree
<1>1. ASSUME LoopInv PROVE OrderFree
  <2>1. \A u \in Users : Charged(u) = Owed(Processed, u)
    BY <1>1 DEF LoopInv, ChargedInv
  <2>2. [u \in Users |-> Charged(u)] = [u \in Users |-> Owed(Processed, u)]
    BY <2>1
  <2>3. Divisible(Processed, Users)
    BY <1>1, ProcessedDivisible DEF LoopInv, Processed
  <2>4. SumFunction([u \in Users |-> Owed(Processed, u)]) = GrandTotal(Processed)
    BY <2>3, SharesAddUp, LoopUsers
  <2> QED BY <2>1, <2>2, <2>4 DEF OrderFree
<1> QED BY <1>1, Loop, PTL

\* The settlement is COMPLETED at once exactly when the host bears all of it.
THEOREM CompletionIsTheHost == Spec => []CompletedIfHostBearsAll
<1>1. LoopInv => CompletedIfHostBearsAll
  BY DEF LoopInv
<1> QED BY <1>1, Loop, PTL
-----------------------------------------------------------------------------
(* Fair to the won.                                                        *)

LEMMA NextShare ==
    ASSUME NEW t \in Nat, NEW n \in Nat \ {0}, NEW index \in 0 .. n - 1
    PROVE  Share(t + 1, n, index)
             = Share(t, n, index) + (IF t % n = index THEN 1 ELSE 0)
<1> DEFINE q == t \div n
           r == t % n
           a == (t + 1) \div n
           b == (t + 1) % n
<1>1. q \in Nat /\ r \in 0 .. n - 1 /\ t = n * q + r
  BY Division
<1>2. a \in Nat /\ b \in 0 .. n - 1 /\ t + 1 = n * a + b
  <2>1. t + 1 \in Nat
    OBVIOUS
  <2> QED BY <2>1, Division
<1> HIDE DEF q, r, a, b
<1>3. CASE r = n - 1
  <2>1. n * (q + 1) = n * q + n /\ n * q \in Int
    BY <1>1
  <2>2. n * (q + 1) + 0 = n * a + b
    BY <1>1, <1>2, <1>3, <2>1
  <2>3. 0 \in 0 .. n - 1 /\ q + 1 \in Int /\ a \in Int
    BY <1>1, <1>2
  <2>4. a = q + 1 /\ b = 0
    BY <1>2, <2>2, <2>3, DivisionUnique
  <2>5. /\ Share(t + 1, n, index) = a + (IF index < b THEN 1 ELSE 0)
        /\ Share(t, n, index) = q + (IF index < r THEN 1 ELSE 0)
    BY DEF Share, a, b, q, r
  <2> QED BY <1>1, <1>3, <2>4, <2>5 DEF r
<1>4. CASE r # n - 1
  <2>1. n * q \in Int
    BY <1>1
  <2>2. n * q + (r + 1) = n * a + b
    BY <1>1, <1>2, <2>1
  <2>3. r + 1 \in 0 .. n - 1 /\ q \in Int /\ a \in Int
    BY <1>1, <1>2, <1>4
  <2>4. a = q /\ b = r + 1
    BY <1>2, <2>2, <2>3, DivisionUnique
  <2>5. /\ Share(t + 1, n, index) = a + (IF index < b THEN 1 ELSE 0)
        /\ Share(t, n, index) = q + (IF index < r THEN 1 ELSE 0)
    BY DEF Share, a, b, q, r
  <2> QED BY <1>1, <1>4, <2>4, <2>5 DEF r
<1> QED BY <1>3, <1>4

\* A share is what dealing the won out one by one gives.
LEMMA ShareIsInTurn ==
    ASSUME NEW total \in Nat, NEW n \in Nat \ {0}, NEW index \in 0 .. n - 1
    PROVE  Share(total, n, index) = InTurn(total, n, index)
<1> DEFINE Dealt(t) == {k \in 0 .. t - 1 : k % n = index}
           S == {t \in Nat : Share(t, n, index) = Cardinality(Dealt(t))}
<1>1. ASSUME NEW t \in Nat PROVE IsFiniteSet(Dealt(t)) /\ Cardinality(Dealt(t)) \in Nat
  <2>1. IsFiniteSet(0 .. t - 1)
    <3>1. 0 \in Int /\ t - 1 \in Int
      OBVIOUS
    <3> QED BY <3>1, FS_Interval
  <2>2. Dealt(t) \in SUBSET (0 .. t - 1)
    OBVIOUS
  <2> HIDE DEF Dealt
  <2> QED BY <2>1, <2>2, FS_Subset, FS_CardinalityType
<1>2. 0 \in S
  <2>1. Dealt(0) = {}
    OBVIOUS
  <2>2. 0 \div n \in Int /\ 0 % n \in 0 .. n - 1 /\ 0 = n * (0 \div n) + (0 % n)
    BY Division
  <2>3. n * 0 + 0 = n * (0 \div n) + (0 % n) /\ 0 \in 0 .. n - 1 /\ 0 \in Int
    BY <2>2
  <2>4. 0 \div n = 0 /\ 0 % n = 0
    BY <2>2, <2>3, DivisionUnique
  <2>5. Share(0, n, index) = 0
    BY <2>4 DEF Share
  <2>6. Cardinality(Dealt(0)) = 0
    BY <2>1, FS_EmptySet
  <2> QED BY <2>5, <2>6
<1>3. ASSUME NEW t \in S PROVE t + 1 \in S
  <2>1. t \in Nat /\ Share(t, n, index) = Cardinality(Dealt(t))
    OBVIOUS
  <2>2. Share(t + 1, n, index)
          = Cardinality(Dealt(t)) + (IF t % n = index THEN 1 ELSE 0)
    BY <2>1, NextShare
  <2>3. 0 .. (t + 1) - 1 = (0 .. t - 1) \cup {t} /\ t \notin 0 .. t - 1
    BY <2>1
  <2>4. CASE t % n = index
    <3>1. Dealt(t + 1) = Dealt(t) \cup {t} /\ t \notin Dealt(t)
      BY <2>3, <2>4
    <3> HIDE DEF Dealt
    <3>2. Cardinality(Dealt(t) \cup {t}) = Cardinality(Dealt(t)) + 1
      BY <1>1, <2>1, <3>1, FS_AddElement
    <3>3. Share(t + 1, n, index) = Cardinality(Dealt(t)) + 1
      BY <2>2, <2>4
    <3>4. Cardinality(Dealt(t + 1)) = Cardinality(Dealt(t)) + 1
      BY <3>1, <3>2
    <3> QED BY <2>1, <3>3, <3>4
  <2>5. CASE t % n # index
    <3>1. Dealt(t + 1) = Dealt(t)
      BY <2>3, <2>5
    <3> HIDE DEF Dealt
    <3> QED BY <1>1, <2>1, <2>2, <2>5, <3>1
  <2> QED BY <2>4, <2>5
<1>4. S \in SUBSET Nat
  OBVIOUS
<1> HIDE DEF S
<1>5. S = Nat
  BY <1>2, <1>3, <1>4, NatSetInduction
<1>6. total \in S
  BY <1>5
<1> QED BY <1>6 DEF S, InTurn

\* Of two members of an item the one with the smaller id pays the same or one
\* won more.
LEMMA ShareGap ==
    ASSUME ItemsInv, NEW i \in DOMAIN items, NEW u \in Users, NEW v \in Users,
           u < v, u \in items[i].members <=> v \in items[i].members
    PROVE  \E d \in 0 .. 1 : ItemShare(items[i], u) = ItemShare(items[i], v) + d
<1> DEFINE M == items[i].members
           n == Cardinality(M)
           q == items[i].total \div n
           r == items[i].total % n
<1>1. CASE u \notin M
  BY <1>1 DEF ItemShare
<1>2. CASE u \in M
  <2>1. M \in SUBSET Nat /\ IsFiniteSet(M) /\ n \in Nat \ {0} /\ items[i].total \in Nat
    BY <1>2, MembersFinite
  <2>2. q \in Nat /\ r \in 0 .. n - 1
    BY <2>1, Division
  <2>3. /\ Rank(u, M) < Rank(v, M)
        /\ Rank(u, M) \in Int /\ Rank(v, M) \in Int
    BY <1>2, <2>1, RankLess, RankType
  <2>4. /\ ItemShare(items[i], u) = q + (IF Rank(u, M) < r THEN 1 ELSE 0)
        /\ ItemShare(items[i], v) = q + (IF Rank(v, M) < r THEN 1 ELSE 0)
    BY <1>2 DEF ItemShare, Share
  <2> HIDE DEF M, n, q, r
  <2> QED BY <2>2, <2>3, <2>4
<1> QED BY <1>1, <1>2

LEMMA OwedGap ==
    ASSUME ItemsInv, NEW u \in Users, NEW v \in Users, u < v,
           \A i \in DOMAIN Processed : u \in items[i].members <=> v \in items[i].members
    PROVE  Owed(Processed, u) - Owed(Processed, v) \in 0 .. Cardinality(DOMAIN Processed)
<1> DEFINE D == DOMAIN Processed
           f == [i \in D |-> ItemShare(Processed[i], u)]
           g == [i \in D |-> ItemShare(Processed[i], v)]
           d == [i \in D |-> f[i] - g[i]]
<1>1. Divisible(Processed, Users)
  BY ProcessedDivisible DEF Processed
<1>2. IsFiniteSet(D)
  BY <1>1 DEF Divisible
<1>3. f \in [D -> Int] /\ g \in [D -> Int]
  BY <1>1, OwedType, LoopUsers
<1>4. \A i \in D : d[i] \in 0 .. 1
  <2> SUFFICES ASSUME NEW i \in D PROVE d[i] \in 0 .. 1
    OBVIOUS
  <2>1. i \in DOMAIN items /\ Processed[i] = items[i]
    BY DEF Processed
  <2>2. PICK b \in 0 .. 1 : ItemShare(items[i], u) = ItemShare(items[i], v) + b
    BY <2>1, ShareGap
  <2>3. f[i] = g[i] + b /\ d[i] = f[i] - g[i] /\ f[i] \in Int /\ g[i] \in Int
    BY <1>3, <2>1, <2>2
  <2> HIDE DEF d, f, g
  <2> QED BY <2>3
<1>5. d \in [D -> 0 .. 1] /\ d \in [D -> Int]
  <2>1. \A i \in D : d[i] \in Int
    BY <1>4
  <2> QED BY <1>4, <2>1
<1>6. f = [i \in D |-> g[i] + d[i]]
  <2>1. \A i \in D : f[i] = g[i] + d[i]
    BY <1>3
  <2>2. f = [i \in D |-> f[i]]
    OBVIOUS
  <2> HIDE DEF f, d, g
  <2> QED BY <2>1, <2>2
<1>7. Owed(Processed, u) = SumFunction(f) /\ Owed(Processed, v) = SumFunction(g)
  BY DEF Owed
<1> HIDE DEF f, g, d, D
<1>8. SumFunction(f) = SumFunction(g) + SumFunction(d)
  BY <1>2, <1>3, <1>5, <1>6, SumPlus
<1>9. SumFunction(d) \in 0 .. Cardinality(D) /\ SumFunction(g) \in Int
  BY <1>2, <1>3, <1>5, SumOfBits, SumType
<1>10. Cardinality(D) \in Nat
  BY <1>2, FS_CardinalityType
<1>11. SumFunction(f) - SumFunction(g) \in 0 .. Cardinality(D)
  BY <1>8, <1>9, <1>10
<1> QED BY <1>7, <1>11 DEF D

\* Every share is what dealing the won in turn gives; of two users with the
\* same items, the one with the smaller id pays at most one won per item more.
THEOREM LoopIsFair == Spec => []FairToTheWon
<1>1. ASSUME LoopInv PROVE FairToTheWon
  <2> USE <1>1 DEF LoopInv
  <2>1. ASSUME NEW i \in DOMAIN items, NEW u \in items[i].members
        PROVE  ItemShare(items[i], u)
                 = InTurn(items[i].total, Cardinality(items[i].members),
                          Rank(u, items[i].members))
    <3>1. /\ items[i].total \in Nat /\ items[i].members \in SUBSET Nat
          /\ IsFiniteSet(items[i].members)
          /\ Cardinality(items[i].members) \in Nat \ {0}
      BY <2>1, MembersFinite
    <3>2. Rank(u, items[i].members) \in 0 .. Cardinality(items[i].members) - 1
      BY <3>1, RankType
    <3> QED BY <3>1, <3>2, ShareIsInTurn DEF ItemShare
  <2>2. ASSUME NEW u \in Users, NEW v \in Users, u < v,
               \A i \in DOMAIN Processed :
                 u \in items[i].members <=> v \in items[i].members
        PROVE  Charged(u) - Charged(v) \in 0 .. Cardinality(DOMAIN Processed)
    <3>1. Charged(u) = Owed(Processed, u) /\ Charged(v) = Owed(Processed, v)
      BY DEF ChargedInv
    <3> QED BY <2>2, <3>1, OwedGap
  <2> QED BY <2>1, <2>2 DEF FairToTheWon
<1> QED BY <1>1, Loop, PTL
=============================================================================
