-------------------------- MODULE AllocationProofs --------------------------
(***************************************************************************)
(* No won is lost and none is invented when a settlement is divided: for   *)
(* any items, any members and any amounts, the shares add up to the total. *)
(*                                                                         *)
(* A sum is a fold over a finite set in an unspecified order.  The first   *)
(* part says what such a sum is: SumIs computes one from a function of the *)
(* subsets that grows by one element at a time.  Induction is stated with  *)
(* sets, as the least counterexample that WFMin provides.                  *)
(***************************************************************************)
EXTENDS SettlementAllocation, FiniteSetTheorems, WellFoundedInduction, TLAPS

LEMMA LeastElement ==
    ASSUME NEW S \in SUBSET Nat, S # {}
    PROVE  \E x \in S : \A y \in S : x <= y
<1> DEFINE Below == {p \in Nat \X Nat : p[1] < p[2]}
<1>1. IsWellFoundedOn(Below, Nat)
  BY NatLessThanWellFounded DEF OpToRel
<1>2. \A m, n \in Nat : m < n => <<m, n>> \in Below
  OBVIOUS
<1> HIDE DEF Below
<1>3. PICK x \in S : \A y \in S : ~ (<<y, x>> \in Below)
  BY <1>1, WFMin
<1>4. \A y \in S : ~ (y < x)
  BY <1>2, <1>3
<1>5. \A y \in S : x <= y
  BY <1>4
<1> QED BY <1>5

LEMMA NatSetInduction ==
    ASSUME NEW S \in SUBSET Nat, 0 \in S, \A n \in S : n + 1 \in S
    PROVE  S = Nat
<1> SUFFICES ASSUME Nat \ S # {} PROVE FALSE
  OBVIOUS
<1>1. PICK x \in Nat \ S : \A y \in Nat \ S : x <= y
  BY LeastElement
<1>2. x # 0
  OBVIOUS
<1>3. x - 1 \in Nat /\ ~ (x <= x - 1)
  BY <1>2
<1>4. x - 1 \in S
  BY <1>1, <1>3
<1>5. (x - 1) + 1 = x
  OBVIOUS
<1> QED BY <1>4, <1>5

\* C holds of the empty set, and of a set when it holds of every set with one
\* element less.
LEMMA SubsetInduction ==
    ASSUME NEW D, IsFiniteSet(D), NEW C, {} \in C,
           \A s \in SUBSET D :
             s # {} /\ (\A x \in s : s \ {x} \in C) => s \in C
    PROVE  \A s \in SUBSET D : s \in C
<1> DEFINE S == {n \in Nat : \A s \in SUBSET D : Cardinality(s) = n => s \in C}
<1>1. \A s \in SUBSET D : IsFiniteSet(s) /\ Cardinality(s) \in Nat
  BY FS_Subset, FS_CardinalityType
<1>2. 0 \in S
  BY <1>1, FS_EmptySet
<1>3. ASSUME NEW n \in S PROVE n + 1 \in S
  <2> SUFFICES ASSUME NEW s \in SUBSET D, Cardinality(s) = n + 1 PROVE s \in C
    OBVIOUS
  <2>1. s # {}
    BY FS_EmptySet
  <2>2. ASSUME NEW x \in s PROVE s \ {x} \in C
    BY <1>1, <2>2, FS_RemoveElement
  <2> QED BY <2>1, <2>2
<1>4. S \in SUBSET Nat
  OBVIOUS
<1> HIDE DEF S
<1>5. S = Nat
  BY <1>2, <1>3, <1>4, NatSetInduction
<1> QED BY <1>1, <1>5 DEF S

-----------------------------------------------------------------------------
(* The fold behind SumFunction, over all subsets of the domain at once.    *)

Chosen(s) == CHOOSE x \in s : TRUE

Partial(f, g) == [s \in SUBSET DOMAIN f |->
                    IF s = {} THEN 0 ELSE f[Chosen(s)] + g[s \ {Chosen(s)}]]

\* The recursion has a solution: sets of at most n elements, by induction.
LEMMA PartialExists ==
    ASSUME NEW D, IsFiniteSet(D), NEW f \in [D -> Int]
    PROVE  \E g \in [SUBSET D -> Int] : g = Partial(f, g)
<1> DEFINE Upto(n) == {s \in SUBSET D : Cardinality(s) <= n}
           Solves(n, g) == \A s \in Upto(n) :
              g[s] = IF s = {} THEN 0 ELSE f[Chosen(s)] + g[s \ {Chosen(s)}]
           S == {n \in Nat : \E g \in [Upto(n) -> Int] : Solves(n, g)}
<1>1. \A s \in SUBSET D : IsFiniteSet(s) /\ Cardinality(s) \in Nat
  BY FS_Subset, FS_CardinalityType
<1>2. 0 \in S
  <2>1. Upto(0) = {{}}
    BY <1>1, FS_EmptySet
  <2>2. [s \in Upto(0) |-> 0] \in [Upto(0) -> Int]
    OBVIOUS
  <2>3. Solves(0, [s \in Upto(0) |-> 0])
    BY <2>1
  <2> QED BY <2>2, <2>3
<1>3. ASSUME NEW n \in S PROVE n + 1 \in S
  <2>1. PICK g \in [Upto(n) -> Int] : Solves(n, g)
    OBVIOUS
  <2>2. ASSUME NEW s \in Upto(n + 1), s # {}
        PROVE  /\ Chosen(s) \in s
               /\ s \ {Chosen(s)} \in Upto(n)
    <3>1. Chosen(s) \in s
      BY <2>2 DEF Chosen
    <3>2. Cardinality(s \ {Chosen(s)}) = Cardinality(s) - 1
      BY <1>1, <3>1, FS_RemoveElement
    <3> QED BY <1>1, <3>1, <3>2
  <2> DEFINE h == [s \in Upto(n + 1) |->
                     IF s = {} THEN 0 ELSE f[Chosen(s)] + g[s \ {Chosen(s)}]]
  <2>3. h \in [Upto(n + 1) -> Int]
    BY <2>2
  <2>4. \A s \in Upto(n) : s \in Upto(n + 1) /\ h[s] = g[s]
    BY <1>1, <2>1
  <2>5. Solves(n + 1, h)
    BY <2>2, <2>4
  <2> HIDE DEF h, Upto, Solves
  <2> QED BY <2>3, <2>5
<1>4. S \in SUBSET Nat
  OBVIOUS
<1>5. S = Nat
  <2> HIDE DEF S
  <2> QED BY <1>2, <1>3, <1>4, NatSetInduction
<1>6. Cardinality(D) \in S
  BY <1>1, <1>5
<1>7. Upto(Cardinality(D)) = SUBSET D
  BY <1>1, FS_Subset
<1>8. PICK g \in [SUBSET D -> Int] : Solves(Cardinality(D), g)
  BY <1>6, <1>7
<1>9. g = Partial(f, g)
  BY <1>7, <1>8 DEF Partial
<1> QED BY <1>9

LEMMA SumUnfold ==
    ASSUME NEW D, IsFiniteSet(D), NEW f \in [D -> Int]
    PROVE  \E g : g = Partial(f, g) /\ SumFunction(f) = g[D]
<1> DEFINE it == CHOOSE g : g = Partial(f, g)
<1>1. it = Partial(f, it)
  <2>1. \E g : g = Partial(f, g)
    BY PartialExists
  <2> HIDE DEF Partial
  <2> QED BY <2>1
<1>2. SumFunction(f) = it[DOMAIN f]
  BY DEF SumFunction, SumFunctionOnSet, FoldFunctionOnSet, MapThenFoldSet,
         Partial, Chosen
<1> QED BY <1>1, <1>2

\* What a sum is: the value at the whole domain of any function of the subsets
\* that is 0 for none and grows by f[x] with x.
Sums(D, f, G) ==
    /\ G \in [SUBSET D -> Int]
    /\ G[{}] = 0
    /\ \A s \in SUBSET D : \A x \in s : G[s] = G[s \ {x}] + f[x]

LEMMA SumIs ==
    ASSUME NEW D, IsFiniteSet(D), NEW f \in [D -> Int], NEW G, Sums(D, f, G)
    PROVE  SumFunction(f) = G[D]
<1> USE DEF Sums
<1>1. PICK g : g = Partial(f, g) /\ SumFunction(f) = g[D]
  BY SumUnfold
<1> DEFINE C == {s \in SUBSET D : g[s] = G[s]}
<1>2. \A s \in SUBSET D :
        g[s] = IF s = {} THEN 0 ELSE f[Chosen(s)] + g[s \ {Chosen(s)}]
  BY <1>1 DEF Partial
<1>3. {} \in C
  BY <1>2
<1>4. ASSUME NEW s \in SUBSET D, s # {}, \A x \in s : s \ {x} \in C
      PROVE  s \in C
  <2>1. Chosen(s) \in s
    BY <1>4 DEF Chosen
  <2>2. g[s \ {Chosen(s)}] = G[s \ {Chosen(s)}]
    BY <1>4, <2>1
  <2>3. G[s] = G[s \ {Chosen(s)}] + f[Chosen(s)]
    BY <2>1
  <2>4. /\ f[Chosen(s)] \in Int /\ G[s \ {Chosen(s)}] \in Int
        /\ s \ {Chosen(s)} \in SUBSET D
    BY <2>1
  <2>5. g[s] = f[Chosen(s)] + g[s \ {Chosen(s)}]
    BY <1>2, <1>4
  <2> QED BY <2>2, <2>3, <2>4, <2>5
<1> HIDE DEF C
<1>5. \A s \in SUBSET D : s \in C
  BY <1>3, <1>4, SubsetInduction
<1> QED BY <1>1, <1>5 DEF C

\* Such a function exists: the order in which the elements are taken does not
\* matter.
LEMMA SumExists ==
    ASSUME NEW D, IsFiniteSet(D), NEW f \in [D -> Int]
    PROVE  \E G : Sums(D, f, G)
<1>1. PICK g \in [SUBSET D -> Int] : g = Partial(f, g)
  BY PartialExists
<1> DEFINE C == {s \in SUBSET D : \A x \in s : g[s] = g[s \ {x}] + f[x]}
<1>2. \A s \in SUBSET D :
        g[s] = IF s = {} THEN 0 ELSE f[Chosen(s)] + g[s \ {Chosen(s)}]
  BY <1>1 DEF Partial
<1>3. {} \in C
  OBVIOUS
<1>4. ASSUME NEW s \in SUBSET D, s # {}, \A x \in s : s \ {x} \in C
      PROVE  s \in C
  <2> DEFINE c == Chosen(s)
  <2>1. c \in s
    BY <1>4 DEF Chosen
  <2>2. g[s] = f[c] + g[s \ {c}]
    BY <1>2, <1>4
  <2> HIDE DEF c
  <2>3. ASSUME NEW x \in s, x # c PROVE g[s] = g[s \ {x}] + f[x]
    <3>1. (s \ {c}) \ {x} = (s \ {x}) \ {c}
      OBVIOUS
    <3>2. g[s \ {c}] = g[(s \ {x}) \ {c}] + f[x]
      BY <1>4, <2>1, <2>3, <3>1
    <3>3. g[s \ {x}] = g[(s \ {x}) \ {c}] + f[c]
      BY <1>4, <2>1, <2>3
    <3>4. /\ f[x] \in Int /\ f[c] \in Int
          /\ g[(s \ {x}) \ {c}] \in Int
      BY <2>1
    <3> HIDE <1>2, <1>4
    <3> QED BY <2>2, <3>2, <3>3, <3>4
  <2>4. g[s] = g[s \ {c}] + f[c]
    BY <2>1, <2>2
  <2> QED BY <2>3, <2>4
<1> HIDE DEF C
<1>5. \A s \in SUBSET D : s \in C
  BY <1>3, <1>4, SubsetInduction
<1>6. Sums(D, f, g)
  BY <1>1, <1>2, <1>5 DEF C, Sums
<1> QED BY <1>6

LEMMA SumType ==
    ASSUME NEW D, IsFiniteSet(D), NEW f \in [D -> Int]
    PROVE  SumFunction(f) \in Int
<1>1. PICK G : Sums(D, f, G)
  BY SumExists
<1>2. G[D] \in Int
  BY <1>1 DEF Sums
<1> QED BY <1>1, <1>2, SumIs

LEMMA SumZero ==
    ASSUME NEW D, IsFiniteSet(D)
    PROVE  SumFunction([x \in D |-> 0]) = 0
<1> DEFINE f == [x \in D |-> 0]
           G == [s \in SUBSET D |-> 0]
<1>1. Sums(D, f, G) /\ G[D] = 0 /\ f \in [D -> Int]
  BY DEF Sums
<1> HIDE DEF f, G
<1>2. SumFunction(f) = 0
  BY <1>1, SumIs
<1> QED BY <1>2 DEF f

LEMMA SumPlus ==
    ASSUME NEW D, IsFiniteSet(D), NEW f \in [D -> Int], NEW g \in [D -> Int]
    PROVE  SumFunction([x \in D |-> f[x] + g[x]])
             = SumFunction(f) + SumFunction(g)
<1>1. PICK F : Sums(D, f, F)
  BY SumExists
<1>2. PICK G : Sums(D, g, G)
  BY SumExists
<1> DEFINE h == [x \in D |-> f[x] + g[x]]
           H == [s \in SUBSET D |-> F[s] + G[s]]
<1>3. Sums(D, h, H)
  <2>1. F \in [SUBSET D -> Int] /\ G \in [SUBSET D -> Int]
    BY <1>1, <1>2 DEF Sums
  <2>2. H \in [SUBSET D -> Int]
    BY <2>1
  <2>3. H[{}] = 0
    BY <1>1, <1>2 DEF Sums
  <2>4. ASSUME NEW s \in SUBSET D, NEW x \in s
        PROVE  H[s] = H[s \ {x}] + h[x]
    <3>1. F[s] = F[s \ {x}] + f[x] /\ G[s] = G[s \ {x}] + g[x]
      BY <1>1, <1>2 DEF Sums
    <3>2. /\ H[s] = F[s] + G[s]
          /\ H[s \ {x}] = F[s \ {x}] + G[s \ {x}]
          /\ h[x] = f[x] + g[x]
      OBVIOUS
    <3>3. F[s \ {x}] \in Int /\ G[s \ {x}] \in Int /\ f[x] \in Int /\ g[x] \in Int
      BY <2>1
    <3> HIDE DEF H, h
    <3> QED BY <3>1, <3>2, <3>3
  <2> HIDE DEF H, h
  <2> QED BY <2>2, <2>3, <2>4 DEF Sums
<1>4. h \in [D -> Int] /\ H[D] = F[D] + G[D]
  OBVIOUS
<1>5. SumFunction(f) = F[D] /\ SumFunction(g) = G[D]
  BY <1>1, <1>2, SumIs
<1> HIDE DEF h, H
<1>6. SumFunction(h) = H[D]
  BY <1>3, <1>4, SumIs
<1> QED BY <1>4, <1>5, <1>6 DEF h

\* A common factor can be taken out of a sum.
LEMMA SumTimes ==
    ASSUME NEW D, IsFiniteSet(D), NEW f \in [D -> Int], NEW c \in Int
    PROVE  SumFunction([x \in D |-> c * f[x]]) = c * SumFunction(f)
<1>1. PICK F : Sums(D, f, F)
  BY SumExists
<1> DEFINE h == [x \in D |-> c * f[x]]
           H == [s \in SUBSET D |-> c * F[s]]
<1>2. F \in [SUBSET D -> Int]
  BY <1>1 DEF Sums
<1>3. Sums(D, h, H)
  <2>1. H \in [SUBSET D -> Int]
    BY <1>2
  <2>2. H[{}] = 0
    BY <1>1 DEF Sums
  <2>3. ASSUME NEW s \in SUBSET D, NEW x \in s
        PROVE  H[s] = H[s \ {x}] + h[x]
    <3>1. F[s] = F[s \ {x}] + f[x]
      BY <1>1 DEF Sums
    <3>2. /\ H[s] = c * F[s]
          /\ H[s \ {x}] = c * F[s \ {x}]
          /\ h[x] = c * f[x]
      OBVIOUS
    <3>3. F[s \ {x}] \in Int /\ f[x] \in Int
      BY <1>2
    <3> HIDE DEF H, h
    <3>4. c * (F[s \ {x}] + f[x]) = c * F[s \ {x}] + c * f[x]
      BY <3>3
    <3> QED BY <3>1, <3>2, <3>4
  <2> HIDE DEF H, h
  <2> QED BY <2>1, <2>2, <2>3 DEF Sums
<1>4. h \in [D -> Int] /\ H[D] = c * F[D]
  OBVIOUS
<1>5. SumFunction(f) = F[D]
  BY <1>1, SumIs
<1> HIDE DEF h, H
<1>6. SumFunction(h) = H[D]
  BY <1>3, <1>4, SumIs
<1> QED BY <1>4, <1>5, <1>6 DEF h

\* One element can be taken out of a sum.
LEMMA SumRemove ==
    ASSUME NEW D, IsFiniteSet(D), NEW f \in [D -> Int], NEW x \in D
    PROVE  SumFunction(f) = SumFunction([y \in D \ {x} |-> f[y]]) + f[x]
<1>1. PICK F : Sums(D, f, F)
  BY SumExists
<1> DEFINE E == D \ {x}
           g == [y \in E |-> f[y]]
           G == [s \in SUBSET E |-> F[s]]
<1>2. Sums(E, g, G)
  BY <1>1 DEF Sums
<1>3. g \in [E -> Int] /\ G[E] = F[E] /\ IsFiniteSet(E)
  BY FS_RemoveElement
<1>4. F[D] = F[E] + f[x]
  BY <1>1 DEF Sums
<1>5. SumFunction(f) = F[D]
  BY <1>1, SumIs
<1> HIDE DEF g, G, E
<1>6. SumFunction(g) = G[E]
  BY <1>2, <1>3, SumIs
<1> QED BY <1>3, <1>4, <1>5, <1>6 DEF g, E

\* A sum of won is a number of won, and 0 only when nobody owes any.
LEMMA SumNat ==
    ASSUME NEW D, IsFiniteSet(D), NEW f \in [D -> Nat]
    PROVE  /\ SumFunction(f) \in Nat
           /\ (\A x \in D : f[x] = 0) <=> SumFunction(f) = 0
<1>1. PICK F : Sums(D, f, F)
  BY SumExists
<1> DEFINE C == {s \in SUBSET D : F[s] \in Nat /\ \A x \in s : f[x] <= F[s]}
<1>2. {} \in C
  BY <1>1 DEF Sums
<1>3. ASSUME NEW s \in SUBSET D, s # {}, \A x \in s : s \ {x} \in C
      PROVE  s \in C
  <2>1. ASSUME NEW x \in s PROVE F[s] \in Nat /\ f[x] <= F[s]
    <3>1. F[s] = F[s \ {x}] + f[x]
      BY <1>1 DEF Sums
    <3>2. F[s \ {x}] \in Nat /\ f[x] \in Nat
      BY <1>3
    <3> QED BY <3>1, <3>2
  <2> QED BY <1>3, <2>1
<1>4. \A s \in SUBSET D : s \in C
  <2> HIDE DEF C
  <2> QED BY <1>2, <1>3, SubsetInduction
<1>5. F[D] \in Nat /\ \A x \in D : f[x] <= F[D]
  BY <1>4
<1>6. SumFunction(f) = F[D]
  BY <1>1, SumIs
<1>7. ASSUME F[D] = 0 PROVE \A x \in D : f[x] = 0
  BY <1>5, <1>7
<1>8. ASSUME \A x \in D : f[x] = 0 PROVE SumFunction(f) = 0
  <2>1. f = [x \in D |-> 0]
    BY <1>8
  <2> QED BY <2>1, SumZero
<1> QED BY <1>5, <1>6, <1>7, <1>8

\* A part of what is counted is at most the whole.
LEMMA SumPart ==
    ASSUME NEW D, IsFiniteSet(D), NEW f \in [D -> Nat], NEW s \in SUBSET D
    PROVE  SumFunction([x \in s |-> f[x]]) <= SumFunction(f)
<1> DEFINE Rest(t) == [x \in D \ t |-> f[x]]
           C == {t \in SUBSET D : SumFunction(Rest(t)) <= SumFunction(f)}
<1>1. SumFunction(f) \in Nat
  BY SumNat
<1>2. {} \in C
  <2>1. Rest({}) = f
    OBVIOUS
  <2> HIDE DEF Rest
  <2> QED BY <1>1, <2>1
<1>3. ASSUME NEW t \in SUBSET D, t # {}, \A x \in t : t \ {x} \in C
      PROVE  t \in C
  <2>1. PICK x \in t : TRUE
    BY <1>3
  <2> DEFINE E == D \ (t \ {x})
             g == Rest(t \ {x})
  <2>2. IsFiniteSet(E) /\ x \in E /\ E \ {x} = D \ t
    BY <2>1, FS_Subset
  <2>3. g \in [E -> Nat] /\ g \in [E -> Int] /\ g[x] = f[x] /\ f[x] \in Nat
    BY <2>1
  <2>4. [y \in E \ {x} |-> g[y]] = Rest(t)
    BY <2>2
  <2>5. IsFiniteSet(D \ t) /\ Rest(t) \in [D \ t -> Nat]
    BY FS_Subset
  <2>6. SumFunction(g) <= SumFunction(f)
    BY <1>3, <2>1
  <2> HIDE DEF E, g, Rest
  <2>7. SumFunction(g) = SumFunction([y \in E \ {x} |-> g[y]]) + g[x]
    BY <2>2, <2>3, SumRemove
  <2>8. SumFunction(Rest(t)) \in Nat /\ SumFunction(g) \in Nat
    BY <2>2, <2>3, <2>5, SumNat
  <2> QED BY <1>1, <2>3, <2>4, <2>6, <2>7, <2>8
<1> HIDE DEF C
<1>4. \A t \in SUBSET D : t \in C
  BY <1>2, <1>3, SubsetInduction
<1>5. D \ s \in C
  BY <1>4
<1>6. D \ (D \ s) = s
  OBVIOUS
<1> QED BY <1>5, <1>6 DEF C

\* A sum is at least its number of terms times the least of them, and at most its
\* number of terms times the greatest.
LEMMA SumBounds ==
    ASSUME NEW D, IsFiniteSet(D), NEW f \in [D -> Int], NEW a \in Int, NEW b \in Int,
           \A x \in D : a <= f[x] /\ f[x] <= b
    PROVE  /\ SumFunction(f) \in Int
           /\ Cardinality(D) * a <= SumFunction(f)
           /\ SumFunction(f) <= Cardinality(D) * b
<1>1. PICK F : Sums(D, f, F)
  BY SumExists
<1> DEFINE C == {s \in SUBSET D : /\ F[s] \in Int
                                  /\ Cardinality(s) * a <= F[s]
                                  /\ F[s] <= Cardinality(s) * b}
<1>2. {} \in C
  BY <1>1, FS_EmptySet DEF Sums
<1>3. ASSUME NEW s \in SUBSET D, s # {}, \A x \in s : s \ {x} \in C
      PROVE  s \in C
  <2>1. PICK x \in s : TRUE
    BY <1>3
  <2> DEFINE t == s \ {x}
  <2>2. IsFiniteSet(s) /\ IsFiniteSet(t)
    BY FS_Subset
  <2>3. Cardinality(s) = Cardinality(t) + 1 /\ Cardinality(t) \in Nat
    BY <2>1, <2>2, FS_RemoveElement, FS_CardinalityType
  <2>4. F[s] = F[t] + f[x] /\ f[x] \in Int /\ a <= f[x] /\ f[x] <= b
    BY <1>1, <2>1 DEF Sums
  <2>5. F[t] \in Int /\ Cardinality(t) * a <= F[t] /\ F[t] <= Cardinality(t) * b
    BY <1>3, <2>1
  <2> HIDE DEF t
  <2>6. /\ (Cardinality(t) + 1) * a = Cardinality(t) * a + a
        /\ (Cardinality(t) + 1) * b = Cardinality(t) * b + b
        /\ Cardinality(t) * a \in Int /\ Cardinality(t) * b \in Int
    BY <2>3
  <2> QED BY <2>3, <2>4, <2>5, <2>6
<1> HIDE DEF C
<1>4. D \in C
  BY <1>2, <1>3, SubsetInduction
<1>5. SumFunction(f) = F[D]
  BY <1>1, SumIs
<1> QED BY <1>4, <1>5 DEF C

\* Terms of 0 or 1 add up to at most their number.
LEMMA SumOfBits ==
    ASSUME NEW D, IsFiniteSet(D), NEW f \in [D -> 0 .. 1]
    PROVE  SumFunction(f) \in 0 .. Cardinality(D)
<1>1. f \in [D -> Int] /\ \A x \in D : 0 <= f[x] /\ f[x] <= 1
  OBVIOUS
<1>2. /\ SumFunction(f) \in Int
      /\ Cardinality(D) * 0 <= SumFunction(f) /\ SumFunction(f) <= Cardinality(D) * 1
  BY <1>1, SumBounds
<1>3. Cardinality(D) \in Nat
  BY FS_CardinalityType
<1> QED BY <1>2, <1>3

RowSums(D, m) == [i \in D |-> SumFunction(m[i])]
ColumnSums(D, U, m) == [u \in U |-> SumFunction([i \in D |-> m[i][u]])]

\* Rows first or columns first: a finite table has one sum.
LEMMA SumExchange ==
    ASSUME NEW D, IsFiniteSet(D), NEW U, IsFiniteSet(U),
           NEW m \in [D -> [U -> Int]]
    PROVE  SumFunction(RowSums(D, m)) = SumFunction(ColumnSums(D, U, m))
<1> DEFINE Column(s) == [u \in U |-> SumFunction([i \in s |-> m[i][u]])]
           f == [i \in D |-> SumFunction(m[i])]
           G == [s \in SUBSET D |-> SumFunction(Column(s))]
<1>1. \A s \in SUBSET D : IsFiniteSet(s)
  BY FS_Subset
<1>2. f \in [D -> Int]
  BY SumType
<1>3. ASSUME NEW s \in SUBSET D PROVE Column(s) \in [U -> Int]
  <2>1. ASSUME NEW u \in U PROVE SumFunction([i \in s |-> m[i][u]]) \in Int
    <3>1. [i \in s |-> m[i][u]] \in [s -> Int]
      OBVIOUS
    <3> QED BY <1>1, <3>1, SumType
  <2> QED BY <2>1
<1>4. G \in [SUBSET D -> Int]
  BY <1>3, SumType
<1>5. G[{}] = 0
  <2>1. \A u \in U : SumFunction([i \in {} |-> m[i][u]]) = 0
    <3>1. \A u \in U : [i \in {} |-> m[i][u]] = [i \in {} |-> 0]
      OBVIOUS
    <3> QED BY <3>1, SumZero, FS_EmptySet
  <2>2. Column({}) = [u \in U |-> 0]
    BY <2>1
  <2>3. SumFunction(Column({})) = 0
    BY <2>2, SumZero
  <2> QED BY <2>3
<1>6. ASSUME NEW s \in SUBSET D, NEW x \in s
      PROVE  G[s] = G[s \ {x}] + f[x]
  <2>1. ASSUME NEW u \in U
        PROVE  SumFunction([i \in s |-> m[i][u]])
                 = SumFunction([i \in s \ {x} |-> m[i][u]]) + m[x][u]
    <3> DEFINE c == [i \in s |-> m[i][u]]
    <3>1. c \in [s -> Int] /\ c[x] = m[x][u]
      OBVIOUS
    <3>2. [i \in s \ {x} |-> c[i]] = [i \in s \ {x} |-> m[i][u]]
      OBVIOUS
    <3> HIDE DEF c
    <3>3. SumFunction(c) = SumFunction([i \in s \ {x} |-> c[i]]) + c[x]
      BY <1>1, <3>1, SumRemove
    <3> QED BY <3>1, <3>2, <3>3 DEF c
  <2> DEFINE a == Column(s \ {x})
  <2>2. s \ {x} \in SUBSET D /\ m[x] \in [U -> Int] /\ f[x] = SumFunction(m[x])
    OBVIOUS
  <2>3. a \in [U -> Int]
    BY <1>3, <2>2
  <2>4. Column(s) = [u \in U |-> a[u] + m[x][u]]
    BY <2>1
  <2>5. G[s] = SumFunction(Column(s)) /\ G[s \ {x}] = SumFunction(a)
    BY <2>2
  <2> HIDE DEF a, G, f, Column
  <2>6. SumFunction([u \in U |-> a[u] + m[x][u]]) = SumFunction(a) + SumFunction(m[x])
    BY <2>2, <2>3, SumPlus
  <2> QED BY <2>2, <2>4, <2>5, <2>6
<1>7. Sums(D, f, G)
  <2> HIDE DEF G, f
  <2> QED BY <1>4, <1>5, <1>6 DEF Sums
<1>8. G[D] = SumFunction(Column(D))
  OBVIOUS
<1> HIDE DEF f, G
<1>9. SumFunction(f) = G[D]
  BY <1>2, <1>7, SumIs
<1> QED BY <1>8, <1>9 DEF f, RowSums, ColumnSums

-----------------------------------------------------------------------------
(* Ranks, and the shares of one item.                                      *)

LEMMA RankType ==
    ASSUME NEW M \in SUBSET Nat, IsFiniteSet(M), NEW v \in M
    PROVE  Rank(v, M) \in 0 .. Cardinality(M) - 1
<1> DEFINE below == {w \in M : w < v}
<1>1. IsFiniteSet(M \ {v}) /\ Cardinality(M \ {v}) = Cardinality(M) - 1
  BY FS_RemoveElement
<1>2. below \in SUBSET (M \ {v})
  OBVIOUS
<1> HIDE DEF below
<1>3. IsFiniteSet(below) /\ Cardinality(below) <= Cardinality(M \ {v})
  BY <1>1, <1>2, FS_Subset
<1>4. Cardinality(below) \in Nat /\ Cardinality(M) \in Nat
  BY <1>3, FS_CardinalityType
<1>5. Cardinality(below) \in 0 .. Cardinality(M) - 1
  BY <1>1, <1>3, <1>4
<1> QED BY <1>5 DEF Rank, below

\* Without its least member a set loses the rank 0 and the others move down.
LEMMA RankShift ==
    ASSUME NEW L \in SUBSET Nat, IsFiniteSet(L), NEW m \in L,
           \A v \in L : m <= v
    PROVE  /\ Rank(m, L) = 0
           /\ \A v \in L \ {m} : Rank(v, L) = Rank(v, L \ {m}) + 1
<1>1. m \in Nat /\ \A v \in L : v \in Nat
  OBVIOUS
<1>2. {w \in L : w < m} = {}
  <2>1. \A w \in L : ~ (w < m)
    BY <1>1
  <2> QED BY <2>1
<1>3. ASSUME NEW v \in L \ {m} PROVE Rank(v, L) = Rank(v, L \ {m}) + 1
  <2> DEFINE low == {w \in L \ {m} : w < v}
  <2>1. m < v
    BY <1>1
  <2>2. {w \in L : w < v} = low \cup {m}
    BY <2>1
  <2>3. low \in SUBSET L /\ m \notin low
    OBVIOUS
  <2> HIDE DEF low
  <2>4. IsFiniteSet(low)
    BY <2>3, FS_Subset
  <2>5. Cardinality(low \cup {m}) = Cardinality(low) + 1
    BY <2>3, <2>4, FS_AddElement
  <2> QED BY <2>2, <2>5 DEF Rank, low
<1> QED BY <1>2, <1>3, FS_EmptySet DEF Rank

FirstRanks(L, k) == {v \in L : Rank(v, L) < k}

LEMMA NoFirstRanks ==
    ASSUME NEW L \in SUBSET Nat, IsFiniteSet(L)
    PROVE  FirstRanks(L, 0) = {}
<1>1. \A v \in L : Rank(v, L) \in Int /\ 0 <= Rank(v, L)
  BY RankType, FS_CardinalityType
<1>2. \A v \in L : ~ (Rank(v, L) < 0)
  BY <1>1
<1> QED BY <1>2 DEF FirstRanks

LEMMA FirstRanksShift ==
    ASSUME NEW L \in SUBSET Nat, IsFiniteSet(L), NEW m \in L,
           \A v \in L : m <= v, NEW k \in Nat
    PROVE  FirstRanks(L, k + 1) = FirstRanks(L \ {m}, k) \cup {m}
<1> DEFINE R == L \ {m}
<1>1. IsFiniteSet(R) /\ R \in SUBSET Nat
  BY FS_RemoveElement
<1>2. \A v \in R : Rank(v, R) \in Int
  <2> HIDE DEF R
  <2> QED BY <1>1, RankType, FS_CardinalityType
<1>3. Rank(m, L) = 0 /\ \A v \in R : Rank(v, L) = Rank(v, R) + 1
  BY RankShift
<1>4. \A v \in R : (Rank(v, L) < k + 1) <=> (Rank(v, R) < k)
  BY <1>2, <1>3
<1>5. Rank(m, L) < k + 1
  BY <1>3
<1> QED BY <1>4, <1>5 DEF FirstRanks

\* The ranks of n members are 0 .. n - 1: exactly r of them are less than r.
LEMMA RankCount ==
    ASSUME NEW M \in SUBSET Nat, IsFiniteSet(M), NEW r \in 0 .. Cardinality(M)
    PROVE  Cardinality(FirstRanks(M, r)) = r
<1> DEFINE Counted(n) == \A L \in SUBSET Nat :
                           IsFiniteSet(L) /\ Cardinality(L) = n =>
                             \A k \in 0 .. n : Cardinality(FirstRanks(L, k)) = k
           S == {n \in Nat : Counted(n)}
<1>1. \A L \in SUBSET Nat :
        IsFiniteSet(L) => Cardinality(FirstRanks(L, 0)) = 0
  BY NoFirstRanks, FS_EmptySet
<1>2. 0 \in S
  <2> SUFFICES ASSUME NEW L \in SUBSET Nat, IsFiniteSet(L), NEW k \in 0 .. 0
               PROVE  Cardinality(FirstRanks(L, k)) = k
    OBVIOUS
  <2>1. k = 0
    OBVIOUS
  <2> QED BY <2>1, <1>1
<1>3. ASSUME NEW n \in S PROVE n + 1 \in S
  <2> SUFFICES ASSUME NEW L \in SUBSET Nat, IsFiniteSet(L),
                      Cardinality(L) = n + 1, NEW k \in 0 .. n + 1
               PROVE  Cardinality(FirstRanks(L, k)) = k
    OBVIOUS
  <2>1. CASE k = 0
    BY <2>1, <1>1
  <2>2. CASE k # 0
    <3>1. L # {}
      BY FS_EmptySet
    <3>2. PICK m \in L : \A v \in L : m <= v
      BY <3>1, LeastElement
    <3>3. IsFiniteSet(L \ {m}) /\ Cardinality(L \ {m}) = n /\ L \ {m} \in SUBSET Nat
      <4>1. n \in Nat
        OBVIOUS
      <4>2. Cardinality(L) - 1 = n
        BY <4>1
      <4> HIDE DEF Counted, S
      <4> QED BY <4>2, FS_RemoveElement
    <3>4. k - 1 \in 0 .. n /\ k - 1 \in Nat /\ (k - 1) + 1 = k
      BY <2>2
    <3> DEFINE low == FirstRanks(L \ {m}, k - 1)
    <3>5. Cardinality(low) = k - 1
      BY <3>3, <3>4
    <3>6. FirstRanks(L, (k - 1) + 1) = low \cup {m}
      BY <3>2, <3>4, FirstRanksShift
    <3>7. m \notin low /\ low \in SUBSET (L \ {m})
      BY DEF FirstRanks
    <3> HIDE DEF low, Counted, S
    <3>8. IsFiniteSet(low)
      BY <3>3, <3>7, FS_Subset
    <3>9. Cardinality(low \cup {m}) = Cardinality(low) + 1
      BY <3>7, <3>8, FS_AddElement
    <3> QED BY <3>4, <3>5, <3>6, <3>9
  <2> QED BY <2>1, <2>2
<1>4. S \in SUBSET Nat
  OBVIOUS
<1> HIDE DEF S
<1>5. S = Nat
  BY <1>2, <1>3, <1>4, NatSetInduction
<1>6. Cardinality(M) \in S
  BY <1>5, FS_CardinalityType
<1> QED BY <1>6 DEF S

\* Smaller ids have smaller ranks.
LEMMA RankLess ==
    ASSUME NEW M \in SUBSET Nat, IsFiniteSet(M), NEW u \in M, NEW v \in M, u < v
    PROVE  Rank(u, M) < Rank(v, M)
<1> DEFINE low == {w \in M : w < u}
           high == {w \in M : w < v}
<1>1. low \cup {u} \in SUBSET high /\ u \notin low
  <2>1. ~ (u < u) /\ \A w \in M : w < u => w < v
    OBVIOUS
  <2> QED BY <2>1
<1>2. low \in SUBSET M /\ high \in SUBSET M
  OBVIOUS
<1> HIDE DEF low, high
<1>3. IsFiniteSet(low) /\ IsFiniteSet(high)
  BY <1>2, FS_Subset
<1>4. Cardinality(low \cup {u}) = Cardinality(low) + 1
  BY <1>1, <1>3, FS_AddElement
<1>5. Cardinality(low \cup {u}) <= Cardinality(high)
  BY <1>1, <1>3, FS_Subset
<1>6. Cardinality(low) \in Nat /\ Cardinality(high) \in Nat
  BY <1>3, FS_CardinalityType
<1>7. Cardinality(low) < Cardinality(high)
  BY <1>4, <1>5, <1>6
<1> QED BY <1>7 DEF Rank, low, high

\* Every rank is somebody's.
LEMMA RankTaken ==
    ASSUME NEW M \in SUBSET Nat, IsFiniteSet(M), NEW r \in 0 .. Cardinality(M) - 1
    PROVE  \E u \in M : Rank(u, M) = r
<1>1. Cardinality(M) \in Nat
  BY FS_CardinalityType
<1>2. r \in 0 .. Cardinality(M) /\ r + 1 \in 0 .. Cardinality(M)
  BY <1>1
<1>3. Cardinality(FirstRanks(M, r)) = r /\ Cardinality(FirstRanks(M, r + 1)) = r + 1
  BY <1>2, RankCount
<1>4. FirstRanks(M, r) # FirstRanks(M, r + 1)
  BY <1>3
<1>5. \A u \in M : Rank(u, M) \in Int
  BY <1>1, RankType
<1>6. PICK u \in M : (Rank(u, M) < r) # (Rank(u, M) < r + 1)
  BY <1>4 DEF FirstRanks
<1>7. Rank(u, M) = r
  BY <1>5, <1>6
<1> QED BY <1>7

LEMMA Division ==
    ASSUME NEW t \in Nat, NEW n \in Nat \ {0}
    PROVE  /\ t \div n \in Nat
           /\ t % n \in 0 .. n - 1
           /\ t = n * (t \div n) + (t % n)
OBVIOUS

\* A quotient and a remainder are determined by the number.
LEMMA DivisionUnique ==
    ASSUME NEW n \in Nat \ {0}, NEW a \in Int, NEW b \in Int,
           NEW r \in 0 .. n - 1, NEW s \in 0 .. n - 1,
           n * a + r = n * b + s
    PROVE  a = b /\ r = s
<1>1. ASSUME NEW x \in Int, NEW y \in Int, x < y PROVE n * x + n <= n * y
  <2>1. PICK d \in Nat : y = (x + 1) + d
    <3>1. y - (x + 1) \in Nat /\ y = (x + 1) + (y - (x + 1))
      BY <1>1
    <3> QED BY <3>1
  <2>2. n * y = n * x + n + n * d
    BY <2>1
  <2>3. n * d \in Nat
    OBVIOUS
  <2>4. n * x \in Int
    OBVIOUS
  <2> QED BY <2>2, <2>3, <2>4
<1>2. n * a \in Int /\ n * b \in Int
  OBVIOUS
<1>3. ~ (a < b)
  BY <1>1, <1>2
<1>4. ~ (b < a)
  BY <1>1, <1>2
<1>5. a = b
  BY <1>3, <1>4
<1> QED BY <1>2, <1>5

\* Rounding gives whole won, and keeps what is whole already.
LEMMA RoundedNat ==
    ASSUME NEW n \in Nat, NEW unit \in Nat \ {0}
    PROVE  Rounded(n, unit) \in Nat
<1>1. 2 * n + unit \in Nat /\ 2 * unit \in Nat \ {0}
  OBVIOUS
<1> QED BY <1>1, Division DEF Rounded

LEMMA RoundedWhole ==
    ASSUME NEW n \in Nat, NEW unit \in Nat \ {0}
    PROVE  Rounded(unit * n, unit) = n
<1> DEFINE d == 2 * unit
           x == 2 * (unit * n) + unit
<1>1. d \in Nat \ {0} /\ x \in Nat /\ unit \in 0 .. d - 1
  OBVIOUS
<1>2. x = d * n + unit
  OBVIOUS
<1>3. /\ x \div d \in Nat /\ x % d \in 0 .. d - 1
      /\ x = d * (x \div d) + (x % d)
  BY <1>1, Division
<1> HIDE DEF d, x
<1>4. n = x \div d
  BY <1>1, <1>2, <1>3, DivisionUnique
<1> QED BY <1>4 DEF Rounded, d, x

\* An item as confirm() finds it: somebody selected it.
Chargeable(item, U) ==
    /\ item.total \in Nat
    /\ item.members \in SUBSET U
    /\ item.members # {}

\* What one item charges everybody is its line total.
LEMMA ItemSharesAddUp ==
    ASSUME NEW U \in SUBSET Nat, IsFiniteSet(U), NEW item, Chargeable(item, U)
    PROVE  /\ [u \in U |-> ItemShare(item, u)] \in [U -> Nat]
           /\ SumFunction([u \in U |-> ItemShare(item, u)]) = item.total
<1> DEFINE M == item.members
           n == Cardinality(M)
           q == item.total \div n
           r == item.total % n
           Low(s) == {v \in s \cap M : Rank(v, M) < r}
           f == [u \in U |-> ItemShare(item, u)]
           G == [s \in SUBSET U |-> Cardinality(s \cap M) * q + Cardinality(Low(s))]
<1>1. IsFiniteSet(M) /\ M \in SUBSET Nat /\ M \in SUBSET U /\ n \in Nat \ {0}
  BY FS_Subset, FS_CardinalityType, FS_EmptySet DEF Chargeable
<1>2. q \in Nat /\ r \in 0 .. n - 1 /\ item.total = n * q + r
  BY <1>1, Division DEF Chargeable
<1>3. \A v \in M : Rank(v, M) \in Nat
  BY <1>1, RankType
<1>4. \A u \in U : f[u] = IF u \in M
                          THEN q + (IF Rank(u, M) < r THEN 1 ELSE 0) ELSE 0
  BY DEF ItemShare, Share
<1>5. f \in [U -> Nat]
  BY <1>2, <1>4
<1>6. ASSUME NEW s \in SUBSET U
      PROVE  /\ IsFiniteSet(s \cap M) /\ Cardinality(s \cap M) \in Nat
             /\ IsFiniteSet(Low(s)) /\ Cardinality(Low(s)) \in Nat
  <2>1. s \cap M \in SUBSET M /\ Low(s) \in SUBSET M
    OBVIOUS
  <2> HIDE DEF Low, M
  <2> QED BY <1>1, <2>1, FS_Subset, FS_CardinalityType
<1> HIDE DEF q, r, n
<1>7. G \in [SUBSET U -> Int]
  <2>1. \A s \in SUBSET U : Cardinality(s \cap M) * q + Cardinality(Low(s)) \in Int
    <3> SUFFICES ASSUME NEW s \in SUBSET U
                 PROVE  Cardinality(s \cap M) * q + Cardinality(Low(s)) \in Int
      OBVIOUS
    <3>1. Cardinality(s \cap M) \in Nat /\ Cardinality(Low(s)) \in Nat
      BY <1>6
    <3> HIDE DEF Low, M, f, G
    <3> QED BY <1>2, <3>1
  <2> QED BY <2>1
<1>8. G[{}] = 0
  <2>1. Low({}) = {} /\ {} \cap M = {}
    OBVIOUS
  <2> QED BY <1>2, <2>1, FS_EmptySet
<1>9. ASSUME NEW s \in SUBSET U, NEW x \in s
      PROVE  G[s] = G[s \ {x}] + f[x]
  <2> DEFINE t == s \ {x}
  <2>1. t \in SUBSET U
    OBVIOUS
  <2>2. CASE x \notin M
    <3>1. s \cap M = t \cap M /\ Low(s) = Low(t)
      BY <2>2
    <3>2. f[x] = 0
      BY <1>4, <2>2
    <3>3. G[s] = G[t] /\ G[t] \in Int
      BY <1>7, <2>1, <3>1
    <3> QED BY <3>2, <3>3
  <2>3. CASE x \in M
    <3>1. Cardinality(s \cap M) = Cardinality(t \cap M) + 1
      <4>1. s \cap M = (t \cap M) \cup {x} /\ x \notin t \cap M
        BY <2>3
      <4> QED BY <1>6, <2>1, <4>1, FS_AddElement
    <3>2. Cardinality(Low(s)) = Cardinality(Low(t))
                                  + (IF Rank(x, M) < r THEN 1 ELSE 0)
      <4>1. CASE Rank(x, M) < r
        <5>1. Low(s) = Low(t) \cup {x} /\ x \notin Low(t)
          BY <2>3, <4>1
        <5> QED BY <1>6, <2>1, <4>1, <5>1, FS_AddElement
      <4>2. CASE ~ (Rank(x, M) < r)
        <5>1. Low(s) = Low(t)
          BY <4>2
        <5> QED BY <1>6, <2>1, <4>2, <5>1
      <4> QED BY <4>1, <4>2
    <3>3. f[x] = q + (IF Rank(x, M) < r THEN 1 ELSE 0)
      BY <1>4, <2>3
    <3>4. /\ G[s] = Cardinality(s \cap M) * q + Cardinality(Low(s))
          /\ G[t] = Cardinality(t \cap M) * q + Cardinality(Low(t))
      BY <2>1
    <3>5. /\ Cardinality(t \cap M) \in Nat /\ Cardinality(Low(t)) \in Nat
          /\ q \in Nat
      BY <1>2, <1>6, <2>1
    <3>6. (Cardinality(t \cap M) + 1) * q = Cardinality(t \cap M) * q + q
      <4> HIDE DEF t, M, Low, G, f
      <4> QED BY <3>5
    <3>7. Cardinality(t \cap M) * q \in Nat
      <4> HIDE DEF t, M, Low, G, f
      <4> QED BY <3>5
    <3>8. G[s] = G[t] + f[x]
      <4> HIDE DEF G, f, t, M, Low
      <4> QED BY <3>1, <3>2, <3>3, <3>4, <3>5, <3>6, <3>7
    <3> QED BY <3>8
  <2> QED BY <2>2, <2>3
<1>10. G[U] = item.total
  <2>1. U \cap M = M /\ Low(U) = FirstRanks(M, r)
    BY <1>1 DEF FirstRanks
  <2>2. Cardinality(Low(U)) = r
    <3>1. r \in 0 .. Cardinality(M)
      BY <1>1, <1>2 DEF n
    <3> QED BY <1>1, <2>1, <3>1, RankCount
  <2>3. G[U] = n * q + r
    BY <2>1, <2>2 DEF n
  <2> QED BY <1>2, <2>3
<1>11. Sums(U, f, G)
  <2> HIDE DEF G, f
  <2> QED BY <1>7, <1>8, <1>9 DEF Sums
<1>12. f \in [U -> Int]
  BY <1>5
<1> HIDE DEF f, G
<1>13. SumFunction(f) = G[U]
  BY <1>11, <1>12, SumIs
<1> QED BY <1>5, <1>10, <1>13 DEF f

-----------------------------------------------------------------------------
(* The whole settlement.                                                   *)

\* A table of items that confirm() may divide among the users U.
Divisible(items, U) ==
    /\ IsFiniteSet(DOMAIN items)
    /\ \A i \in DOMAIN items : Chargeable(items[i], U)

LEMMA OwedType ==
    ASSUME NEW U \in SUBSET Nat, IsFiniteSet(U), NEW items, Divisible(items, U),
           NEW u \in U
    PROVE  /\ [i \in DOMAIN items |-> ItemShare(items[i], u)]
                \in [DOMAIN items -> Int]
           /\ Owed(items, u) \in Int
<1>1. \A i \in DOMAIN items : ItemShare(items[i], u) \in Int
  <2> SUFFICES ASSUME NEW i \in DOMAIN items PROVE ItemShare(items[i], u) \in Int
    OBVIOUS
  <2>1. [v \in U |-> ItemShare(items[i], v)] \in [U -> Nat]
    BY ItemSharesAddUp DEF Divisible
  <2> QED BY <2>1
<1>2. [i \in DOMAIN items |-> ItemShare(items[i], u)] \in [DOMAIN items -> Int]
  BY <1>1
<1> QED BY <1>2, SumType DEF Owed, Divisible

\* No won is lost or invented: what everybody owes adds up to the line totals
\* (confirm; settlement-allocation.spec.ts: the sum is preserved).
THEOREM SharesAddUp ==
    ASSUME NEW U \in SUBSET Nat, IsFiniteSet(U), NEW items, Divisible(items, U)
    PROVE  SumFunction([u \in U |-> Owed(items, u)]) = GrandTotal(items)
<1> DEFINE D == DOMAIN items
           m == [i \in D |-> [u \in U |-> ItemShare(items[i], u)]]
<1>1. IsFiniteSet(D)
  BY DEF Divisible
<1>2. \A i \in D : /\ m[i] = [u \in U |-> ItemShare(items[i], u)]
                   /\ m[i] \in [U -> Int]
                   /\ SumFunction(m[i]) = items[i].total
  <2> SUFFICES ASSUME NEW i \in D
               PROVE  /\ m[i] = [u \in U |-> ItemShare(items[i], u)]
                      /\ m[i] \in [U -> Int]
                      /\ SumFunction(m[i]) = items[i].total
    OBVIOUS
  <2>1. m[i] = [u \in U |-> ItemShare(items[i], u)]
    OBVIOUS
  <2>2. /\ [u \in U |-> ItemShare(items[i], u)] \in [U -> Nat]
        /\ SumFunction([u \in U |-> ItemShare(items[i], u)]) = items[i].total
    BY ItemSharesAddUp DEF Divisible
  <2> HIDE DEF m
  <2>3. m[i] \in [U -> Int]
    BY <2>1, <2>2
  <2> QED BY <2>1, <2>2, <2>3
<1>3. m \in [D -> [U -> Int]]
  BY <1>2
<1>4. RowSums(D, m) = [i \in D |-> items[i].total]
  BY <1>2 DEF RowSums
<1>5. \A u \in U : [i \in D |-> m[i][u]] = [i \in D |-> ItemShare(items[i], u)]
  OBVIOUS
<1>6. ColumnSums(D, U, m) = [u \in U |-> Owed(items, u)]
  BY <1>5 DEF Owed, ColumnSums
<1> HIDE DEF m, D
<1>7. SumFunction(RowSums(D, m)) = SumFunction(ColumnSums(D, U, m))
  BY <1>1, <1>3, SumExchange
<1> QED BY <1>4, <1>6, <1>7 DEF GrandTotal, D
=============================================================================
