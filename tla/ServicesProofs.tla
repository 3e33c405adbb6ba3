--------------------------- MODULE ServicesProofs ---------------------------
(***************************************************************************)
(* What the parts of Services keep, for every value of their constants.    *)
(* Registration and subscriptions have proofs of their own, in terms of    *)
(* their own modules; this module carries them over to Services, and proves*)
(* the others itself.                                                      *)
(***************************************************************************)
EXTENDS Services, AllocationProofs, SequenceTheorems, FiniteSetTheorems, TLAPS

\* Every module counts alike.
LEMMA OneCardinality ==
    \A S : /\ Creation!Cardinality(S) = Cardinality(S)
           /\ Reviews!Cardinality(S) = Cardinality(S)
           /\ Feed!Cardinality(S) = Cardinality(S)
           /\ Visual!Cardinality(S) = Cardinality(S)
BY DEF Cardinality, Creation!Cardinality, Reviews!Cardinality, Feed!Cardinality,
       Visual!Cardinality

\* The greatest of some positions.
LEMMA GreatestElement ==
    ASSUME NEW L \in Nat, NEW I \in SUBSET (1..L), I # {}
    PROVE  \E m \in I : \A n \in I : m >= n
<1> DEFINE S == {L - n : n \in I}
<1>1. S \in SUBSET Nat /\ S # {}
  <2>1. \A n \in I : L - n \in Nat
    OBVIOUS
  <2>2. PICK n \in I : TRUE
    OBVIOUS
  <2>3. L - n \in S
    BY <2>2
  <2> QED BY <2>1, <2>3
<1> HIDE DEF S
<1>2. PICK least \in S : \A y \in S : least <= y
  BY <1>1, LeastElement
<1>3. PICK m \in I : least = L - m
  BY DEF S
<1>4. \A n \in I : L - m <= L - n
  BY <1>2, <1>3 DEF S
<1>5. \A n \in I : m >= n
  BY <1>4
<1> QED BY <1>5

\* A behaviour is of one part from beginning to end, and its steps are those of
\* that part.
LEMMA OnePart ==
    ASSUME [Next]_vars
    PROVE  /\ part' = part
           /\ part = "creation" => [Creation!Next]_CreationVars
           /\ part = "registration" => [Reg!Next]_RegVars
           /\ part = "chat" => [Chat!Next]_ChatVars
           /\ part = "push" => [Push!Next]_PushVars
           /\ part = "reviews" => [Reviews!Next]_ReviewsVars
           /\ part = "feed" => [Feed!Next]_FeedVars
           /\ part = "receipt" => [Receipt!Next]_ReceiptVars
           /\ part = "visual" => [Visual!Next]_VisualVars
           /\ part = "uploads" => [Uploads!Next]_UploadsVars
BY DEF Next, vars, OthersUnchanged

LEMMA FirstPart ==
    ASSUME Init
    PROVE  /\ part = "creation" => Creation!Init
           /\ part = "registration" => Reg!Init
           /\ part = "chat" => Chat!Init
           /\ part = "push" => Push!Init
           /\ part = "reviews" => Reviews!Init
           /\ part = "feed" => Feed!Init
           /\ part = "receipt" => Receipt!Init
           /\ part = "visual" => Visual!Init
           /\ part = "uploads" => Uploads!Init
BY DEF Init
-----------------------------------------------------------------------------
(* Creation of settlements: one is under way, as long as no INSERT         *)
(* overlapped another request that had found none.                         *)

\* Only the newest settlement is unfinished, and none is while a request is
\* about to insert one.
NewestOnly ==
    ~raced =>
        /\ Creation!Unfinished \subseteq {Len(rows)}
        /\ (\E h \in Handlers : creationPc[h] = "inserting") => Creation!Unfinished = {}

CreationInv == Creation!TypeOK /\ NewestOnly

\* Advancing a settlement never makes a finished one unfinished.
LEMMA AdvanceFinishes ==
    ASSUME Creation!TypeOK, NEW i \in DOMAIN rows, Creation!Advance(i)
    PROVE  /\ rows' \in Seq(Creation!Status) /\ Len(rows') = Len(rows)
           /\ Creation!Unfinished' \subseteq Creation!Unfinished
<1>1. rows \in Seq(Creation!Status) /\ DOMAIN rows = 1 .. Len(rows)
  BY LenProperties DEF Creation!TypeOK
<1>2. \E s \in Creation!Status : rows' = [rows EXCEPT ![i] = s]
  BY DEF Creation!Advance, Creation!Status
<1>3. PICK s \in Creation!Status : rows' = [rows EXCEPT ![i] = s]
  BY <1>2
<1>4. /\ rows' \in Seq(Creation!Status) /\ Len(rows') = Len(rows)
      /\ \A j \in 1 .. Len(rows) : rows'[j] = IF j = i THEN s ELSE rows[j]
  BY <1>1, <1>3, ExceptSeq
<1>5. DOMAIN rows' = DOMAIN rows
  BY <1>1, <1>4, LenProperties
<1>6. rows[i] # "COMPLETED"
  BY DEF Creation!Advance
<1> QED
  BY <1>1, <1>4, <1>5, <1>6 DEF Creation!Unfinished

LEMMA InsertAdds ==
    ASSUME Creation!TypeOK, NEW h \in Handlers, Creation!Insert(h)
    PROVE  /\ rows' \in Seq(Creation!Status) /\ Len(rows') = Len(rows) + 1
           /\ Creation!Unfinished' \subseteq Creation!Unfinished \cup {Len(rows')}
<1>1. rows \in Seq(Creation!Status) /\ DOMAIN rows = 1 .. Len(rows) /\ Len(rows) \in Nat
  BY LenProperties DEF Creation!TypeOK
<1>2. rows' = Append(rows, "DRAFT") /\ "DRAFT" \in Creation!Status
  BY DEF Creation!Insert, Creation!Status
<1>3. /\ rows' \in Seq(Creation!Status) /\ Len(rows') = Len(rows) + 1
      /\ \A j \in 1 .. Len(rows) : rows'[j] = rows[j]
  BY <1>1, <1>2, AppendProperties
<1>4. DOMAIN rows' = 1 .. Len(rows) + 1
  BY <1>3, LenProperties
<1>5. ASSUME NEW j \in Creation!Unfinished', j # Len(rows) + 1
      PROVE  j \in Creation!Unfinished
  <2>1. j \in 1 .. Len(rows)
    BY <1>1, <1>4, <1>5 DEF Creation!Unfinished
  <2> QED
    BY <1>1, <1>3, <1>5, <2>1 DEF Creation!Unfinished
<1> QED
  BY <1>3, <1>5

LEMMA CreationStarts == Creation!Init => CreationInv
<1> SUFFICES ASSUME Creation!Init PROVE CreationInv
  OBVIOUS
<1>1. rows \in Seq(Creation!Status) /\ DOMAIN rows = {}
  BY EmptySeq DEF Creation!Init
<1> QED
  BY <1>1 DEF Creation!Init, CreationInv, Creation!TypeOK, NewestOnly, Creation!Unfinished

LEMMA CreationStep ==
    ASSUME CreationInv, [Creation!Next]_CreationVars
    PROVE  CreationInv'
<1> USE DEF CreationInv
<1>1. ASSUME NEW h \in Handlers, Creation!Call(h) \/ Creation!FindExisting(h) \/ Creation!Die(h)
      PROVE  CreationInv'
  <2>1. \E place \in {"idle", "looking"} : creationPc' = [creationPc EXCEPT ![h] = place]
    BY <1>1 DEF Creation!Call, Creation!FindExisting, Creation!Die
  <2>2. UNCHANGED <<rows, raced>>
    BY <1>1 DEF Creation!Call, Creation!FindExisting, Creation!Die
  <2> QED
    BY <2>1, <2>2 DEF Creation!TypeOK, NewestOnly, Creation!Unfinished
\* What create() looks for is every settlement that is not finished.
<1>2. ASSUME NEW h \in Handlers, Creation!FindNone(h)
      PROVE  CreationInv'
  <2>1. rows \in Seq(Creation!Status)
    BY DEF Creation!TypeOK
  <2>2. \A i \in DOMAIN rows : rows[i] \in Creation!Status
    BY <2>1, ElementOfSeq, LenProperties
  <2>3. Creation!Unfinished = {}
    BY <1>2, <2>2 DEF Creation!FindNone, Creation!Active, Creation!InProgress, Creation!Status, Creation!Unfinished
  <2> QED
    BY <1>2, <2>3 DEF Creation!FindNone, Creation!TypeOK, NewestOnly, Creation!Unfinished
<1>3. ASSUME NEW h \in Handlers, Creation!Insert(h)
      PROVE  CreationInv'
  <2>1. creationPc[h] = "inserting" /\ creationPc' = [creationPc EXCEPT ![h] = "idle"]
        /\ raced' = (raced \/ \E g \in Handlers \ {h} : creationPc[g] = "inserting")
    BY <1>3 DEF Creation!Insert
  <2>2. Creation!TypeOK'
    BY <1>3, <2>1, InsertAdds DEF Creation!TypeOK
  <2>3. ~raced' => Creation!Unfinished = {} /\ \A g \in Handlers : creationPc'[g] # "inserting"
    BY <2>1 DEF Creation!TypeOK, NewestOnly
  <2>4. Creation!Unfinished' \subseteq Creation!Unfinished \cup {Len(rows')}
    BY <1>3, InsertAdds
  <2> QED
    BY <2>2, <2>3, <2>4 DEF NewestOnly
<1>4. ASSUME NEW i \in DOMAIN rows, Creation!Advance(i)
      PROVE  CreationInv'
  <2>1. rows' \in Seq(Creation!Status) /\ Len(rows') = Len(rows) /\ Creation!Unfinished' \subseteq Creation!Unfinished
    BY <1>4, AdvanceFinishes
  <2>2. UNCHANGED <<creationPc, raced>>
    BY <1>4 DEF Creation!Advance
  <2> QED
    BY <2>1, <2>2 DEF Creation!TypeOK, NewestOnly
<1>5. CASE UNCHANGED CreationVars
  BY <1>5 DEF CreationVars, Creation!TypeOK, NewestOnly, Creation!Unfinished
<1> QED
  BY <1>1, <1>2, <1>3, <1>4, <1>5 DEF Creation!Next

LEMMA CreationHolds == CreationInv => Creation!OneUnfinishedUnlessRaced
<1> SUFFICES ASSUME CreationInv, ~raced
             PROVE  Cardinality(Creation!Unfinished) <= 1 /\ Creation!Unfinished \subseteq {Len(rows)}
  BY OneCardinality DEF Creation!OneUnfinishedUnlessRaced, Creation!OneUnfinished
<1>1. Creation!Unfinished \subseteq {Len(rows)}
  BY DEF CreationInv, NewestOnly
<1>2. IsFiniteSet({Len(rows)}) /\ Cardinality({Len(rows)}) = 1
  BY FS_Singleton
<1>3. Cardinality(Creation!Unfinished) <= 1
  BY <1>1, <1>2, FS_Subset
<1> QED BY <1>1, <1>3

\* However often the host calls create, and wherever a call dies, the party has
\* one settlement under way at most and members are shown that one, unless an
\* INSERT overlapped another (SettlementsService.create).
THEOREM OneUnfinishedAlone == Spec => []OneUnfinishedUnlessRaced
<1> DEFINE Inv == part = "creation" => CreationInv
<1>1. Init => Inv
  BY FirstPart, CreationStarts
<1>2. Inv /\ [Next]_vars => Inv'
  BY OnePart, CreationStep
<1>3. Inv => OneUnfinishedUnlessRaced
  BY CreationHolds DEF OneUnfinishedUnlessRaced
<1> QED BY <1>1, <1>2, <1>3, PTL DEF Spec
-----------------------------------------------------------------------------
(* Reviews are counted once.                                               *)

Reviewing == [reviewer : Reviewed, reviewee : Reviewed, score : Int]
Counted == [score : Int, count : Int]
Linking == [state : {"none", "read", "compared"}, user : Reviewed, row : Counted,
            dirty : SUBSET {"score", "count"}]

\* What the reviews R make of the row of u, and of what one review more does.
AboutIn(R, u) == {r \in R : r.reviewee = u}
Tally(R, u) == [score |-> SumFunction([r \in AboutIn(R, u) |-> Reviews!Gain(r)]),
                count |-> Cardinality(AboutIn(R, u))]
Plus(row, r) == [score |-> row.score + Reviews!Gain(r), count |-> row.count + 1]

\* The same sum, whichever module writes it.
LEMMA OneSum == \A f : Reviews!SumFunction(f) = SumFunction(f)
BY DEF SumFunction, SumFunctionOnSet, FoldFunctionOnSet, MapThenFoldSet,
       Reviews!SumFunction, Reviews!SumFunctionOnSet, Reviews!FoldFunctionOnSet,
       Reviews!MapThenFoldSet

LEMMA GainType == \A r \in Reviewing : Reviews!Gain(r) \in Int
BY DEF Reviewing, Reviews!Gain

LEMMA TallyType ==
    ASSUME NEW R \in SUBSET Reviewing, IsFiniteSet(R), NEW u
    PROVE  /\ IsFiniteSet(AboutIn(R, u)) /\ Tally(R, u) \in Counted
           /\ [r \in AboutIn(R, u) |-> Reviews!Gain(r)] \in [AboutIn(R, u) -> Int]
<1> DEFINE D == AboutIn(R, u)
           f == [r \in D |-> Reviews!Gain(r)]
<1>1. IsFiniteSet(D) /\ D \subseteq R
  BY FS_Subset DEF AboutIn
<1>2. f \in [D -> Int]
  BY <1>1, GainType
<1>3. Cardinality(D) \in Nat
  BY <1>1, FS_CardinalityType
<1> HIDE DEF f, D
<1>4. SumFunction(f) \in Int
  BY <1>1, <1>2, SumType
<1>5. [score |-> SumFunction(f), count |-> Cardinality(D)] \in Counted
  BY <1>3, <1>4 DEF Counted
<1> QED BY <1>1, <1>2, <1>5 DEF Tally, f, D

\* A new review adds its gain to the row it is about, and to no other.
LEMMA TallyGrows ==
    ASSUME NEW R \in SUBSET Reviewing, IsFiniteSet(R), NEW r \in Reviewing, r \notin R,
           NEW u
    PROVE  Tally(R \cup {r}, u) = IF r.reviewee = u THEN Plus(Tally(R, u), r) ELSE Tally(R, u)
<1>1. CASE r.reviewee # u
  <2>1. AboutIn(R \cup {r}, u) = AboutIn(R, u)
    BY <1>1 DEF AboutIn
  <2> QED BY <1>1, <2>1 DEF Tally
<1>2. CASE r.reviewee = u
  <2> DEFINE D == AboutIn(R, u)
             E == AboutIn(R \cup {r}, u)
             f == [q \in D |-> Reviews!Gain(q)]
             g == [q \in E |-> Reviews!Gain(q)]
  <2>1. E = D \cup {r} /\ r \notin D
    BY <1>2 DEF AboutIn
  <2>2. R \cup {r} \in SUBSET Reviewing /\ IsFiniteSet(R \cup {r})
    BY FS_AddElement
  <2>3. IsFiniteSet(D) /\ Cardinality(D) \in Nat /\ f \in [D -> Int]
    BY TallyType, FS_CardinalityType
  <2>4. IsFiniteSet(E) /\ g \in [E -> Int]
    BY <2>2, TallyType
  <2>5. Cardinality(E) = Cardinality(D) + 1
    BY <2>1, <2>3, FS_AddElement
  <2>6. E \ {r} = D /\ r \in E /\ g[r] = Reviews!Gain(r)
    BY <2>1
  <2>7. [q \in E \ {r} |-> g[q]] = f
    BY <2>6
  <2>8. Tally(R, u) = [score |-> SumFunction(f), count |-> Cardinality(D)]
    BY DEF Tally
  <2>9. Tally(R \cup {r}, u) = [score |-> SumFunction(g), count |-> Cardinality(E)]
    BY DEF Tally
  <2> HIDE DEF D, E, f, g
  <2>10. SumFunction(g) = SumFunction([q \in E \ {r} |-> g[q]]) + g[r]
    BY <2>4, <2>6, SumRemove
  <2> QED BY <1>2, <2>5, <2>6, <2>7, <2>8, <2>9, <2>10 DEF Plus
<1> QED BY <1>1, <1>2

ReviewsTyped ==
    /\ reviews \in SUBSET Reviewing /\ IsFiniteSet(reviews)
    /\ user \in [Reviewed -> Counted] /\ read \in [Reviewed -> Counted]
    /\ reviewPc \in [Reviewed -> {"idle", "checked"} \cup Reviews!Storing]
    /\ review \in [Reviewed -> Reviewing]
    /\ link \in Linking

\* v is at work on a review of u.
On(v, u) == reviewPc[v] # "idle" /\ review[v].reviewee = u

\* A request stores a review of its own that nobody has stored.
Fresh(v) ==
    reviewPc[v] # "idle" =>
        review[v].reviewer = v /\ \A r \in reviews : Reviews!Pair(r) # Reviews!Pair(review[v])

\* Who writes a row holds it alone: the lock a review takes with its foreign keys
\* is shared, but not with a writer.
Exclusive ==
    \A v, w \in Reviewed :
        /\ reviewPc[v] = "updated" /\ reviewPc[w] \in Reviews!Storing
        /\ review[v].reviewee \in {review[w].reviewer, review[w].reviewee}
        => v = w

\* What the row of u says, and what those know who have read it.
Honest(u) ==
    /\ (\A v \in Reviewed : ~(reviewPc[v] = "updated" /\ review[v].reviewee = u)) =>
         user[u] = Tally(reviews, u)
    /\ \A v \in Reviewed : review[v].reviewee = u =>
         /\ reviewPc[v] \in {"read", "updated"} => read[v] = Tally(reviews, u)
         /\ reviewPc[v] = "updated" => user[u] = Plus(Tally(reviews, u), review[v])
    /\ link.state # "none" /\ link.user = u =>
         link.row = Tally(reviews, u) /\ link.dirty = {}

ReviewsInv ==
    /\ ReviewsTyped
    /\ \A v \in Reviewed : Fresh(v)
    /\ Exclusive
    /\ \A u \in Reviewed \ linked : Honest(u)

LEMMA PlusType ==
    ASSUME NEW row \in Counted, NEW r \in Reviewing
    PROVE  Plus(row, r) \in Counted
<1>1. Reviews!Gain(r) \in Int
  BY GainType
<1> QED BY <1>1 DEF Plus, Counted

LEMMA CountedFields ==
    ASSUME NEW row \in Counted
    PROVE  /\ row.score \in Int /\ row.count \in Int
           /\ row = [c \in {"score", "count"} |-> row[c]]
BY DEF Counted

LEMMA CommittedIs ==
    ASSUME ReviewsInv, NEW u \in Reviewed
    PROVE  /\ Reviews!Committed(u) \in Counted
           /\ u \notin linked => Reviews!Committed(u) = Tally(reviews, u)
<1>1. CASE Reviews!Writing(u) = {}
  BY <1>1 DEF ReviewsInv, ReviewsTyped, Honest, Reviews!Committed, Reviews!Writing
<1>2. CASE Reviews!Writing(u) # {}
  <2> DEFINE v == CHOOSE v \in Reviews!Writing(u) : TRUE
  <2>1. v \in Reviews!Writing(u)
    BY <1>2
  <2>2. Reviews!Committed(u) = read[v]
    BY <1>2 DEF Reviews!Committed
  <2> HIDE DEF v
  <2>3. v \in Reviewed /\ reviewPc[v] = "updated" /\ review[v].reviewee = u
    BY <2>1 DEF Reviews!Writing
  <2> QED BY <2>2, <2>3 DEF ReviewsInv, ReviewsTyped, Honest
<1> QED BY <1>1, <1>2

LEMMA ReviewsStart == ServicesBounds /\ Reviews!Init => ReviewsInv
<1> SUFFICES ASSUME ServicesBounds, Reviews!Init PROVE ReviewsInv
  OBVIOUS
<1>1. /\ reviews = {} /\ user = [u \in Reviewed |-> Reviews!NoRow]
      /\ reviewPc = [u \in Reviewed |-> "idle"] /\ review = [u \in Reviewed |-> Reviews!NoReview]
      /\ read = [u \in Reviewed |-> Reviews!NoRow] /\ link = Reviews!NoLink
  BY DEF Reviews!Init
<1>2. Host \in Reviewed
  BY DEF ServicesBounds, Reviews!ReviewBounds
<1>3. Reviews!NoReview \in Reviewing /\ Reviews!NoRow \in Counted
  BY <1>2 DEF Reviewing, Counted, Reviews!NoReview, Reviews!NoRow
<1>4. IsFiniteSet(reviews)
  BY <1>1, FS_EmptySet
<1>5. link.state = "none" /\ link \in Linking
  BY <1>1, <1>2, <1>3 DEF Reviews!NoLink, Linking
<1>6. ReviewsTyped
  BY <1>1, <1>2, <1>3, <1>4, <1>5 DEF ReviewsTyped
<1>7. \A u : Tally(reviews, u) = Reviews!NoRow
  <2> SUFFICES ASSUME NEW u PROVE Tally(reviews, u) = Reviews!NoRow
    OBVIOUS
  <2>1. AboutIn(reviews, u) = {}
    BY <1>1 DEF AboutIn
  <2>2. Cardinality({}) = 0 /\ IsFiniteSet({})
    BY FS_EmptySet
  <2>3. SumFunction([r \in {} |-> 0]) = 0
    BY <2>2, SumZero
  <2>4. [r \in {} |-> Reviews!Gain(r)] = [r \in {} |-> 0]
    OBVIOUS
  <2> QED BY <2>1, <2>2, <2>3, <2>4 DEF Tally, Reviews!NoRow
<1>8. \A u \in Reviewed : Honest(u)
  BY <1>1, <1>5, <1>7 DEF Honest
<1>9. (\A v \in Reviewed : Fresh(v)) /\ Exclusive
  BY <1>1 DEF Fresh, Exclusive, Reviews!Storing
<1> QED BY <1>6, <1>8, <1>9 DEF ReviewsInv

LEMMA ReviewsStep == ServicesBounds /\ ReviewsInv /\ [Reviews!Next]_ReviewsVars => ReviewsInv'
<1> SUFFICES ASSUME ServicesBounds, ReviewsInv, [Reviews!Next]_ReviewsVars PROVE ReviewsInv'
  OBVIOUS
<1>0. /\ ReviewsTyped /\ (\A v \in Reviewed : Fresh(v)) /\ Exclusive
      /\ \A u \in Reviewed \ linked : Honest(u)
  BY DEF ReviewsInv
<1>1. /\ reviews \in SUBSET Reviewing /\ IsFiniteSet(reviews)
      /\ user \in [Reviewed -> Counted] /\ read \in [Reviewed -> Counted]
      /\ reviewPc \in [Reviewed -> {"idle", "checked"} \cup Reviews!Storing]
      /\ review \in [Reviewed -> Reviewing]
      /\ link \in Linking
  BY <1>0 DEF ReviewsTyped
<1>2. Host \in Reviewed /\ Scores \subseteq Int
  BY DEF ServicesBounds, Reviews!ReviewBounds
<1>3. Reviews!NoReview \in Reviewing /\ Reviews!NoRow \in Counted
  BY <1>2 DEF Reviewing, Counted, Reviews!NoReview, Reviews!NoRow
<1>4. \A u : Tally(reviews, u) \in Counted
  BY <1>1, TallyType
<1>5. CASE UNCHANGED ReviewsVars
  BY <1>0, <1>5 DEF ReviewsVars, ReviewsInv, ReviewsTyped, Fresh, Exclusive, Honest
<1>6. ASSUME NEW u \in Reviewed, NEW v \in Reviewed, NEW score \in Scores,
             Reviews!Check(u, v, score)
      PROVE  ReviewsInv'
  <2> DEFINE new == [reviewer |-> u, reviewee |-> v, score |-> score]
  <2>1. /\ reviewPc[u] = "idle" /\ reviewPc' = [reviewPc EXCEPT ![u] = "checked"]
        /\ review' = [review EXCEPT ![u] = new]
        /\ UNCHANGED <<reviews, user, read, link, linked>>
        /\ \A r \in reviews : Reviews!Pair(r) # <<u, v>>
    BY <1>6 DEF Reviews!Check, Reviews!Goto
  <2>2. new \in Reviewing /\ new.reviewer = u /\ Reviews!Pair(new) = <<u, v>>
    BY <1>2 DEF Reviewing, Reviews!Pair
  <2> HIDE DEF new
  <2>3. ReviewsTyped'
    BY <1>1, <2>1, <2>2 DEF ReviewsTyped
  <2>4. \A w \in Reviewed : Fresh(w)'
    BY <1>0, <1>1, <2>1, <2>2 DEF Fresh, Reviews!Pair
  <2>5. Exclusive'
    BY <1>0, <1>1, <2>1 DEF Exclusive, Reviews!Storing
  <2>6. \A w \in Reviewed \ linked' : Honest(w)'
    BY <1>0, <1>1, <2>1 DEF Honest
  <2> QED BY <2>3, <2>4, <2>5, <2>6 DEF ReviewsInv
<1>7. ASSUME NEW u \in Reviewed, Reviews!InsertReview(u)
      PROVE  ReviewsInv'
  <2>1. /\ reviewPc[u] = "checked" /\ reviewPc' = [reviewPc EXCEPT ![u] = "stored"]
        /\ UNCHANGED <<reviews, user, review, read, link, linked>>
        /\ \A v \in Reviewed : reviewPc[v] = "updated" =>
             review[v].reviewee \notin {review[u].reviewer, review[u].reviewee}
    BY <1>7 DEF Reviews!InsertReview, Reviews!Goto, Reviews!Writing
  <2>2. ReviewsTyped'
    BY <1>1, <2>1 DEF ReviewsTyped, Reviews!Storing
  <2>3. \A w \in Reviewed : Fresh(w)'
    BY <1>0, <1>1, <2>1 DEF Fresh
  <2>4. Exclusive'
    BY <1>0, <1>1, <2>1 DEF Exclusive, Reviews!Storing
  <2>5. \A w \in Reviewed \ linked' : Honest(w)'
    BY <1>0, <1>1, <2>1 DEF Honest
  <2> QED BY <2>2, <2>3, <2>4, <2>5 DEF ReviewsInv
<1>8. ASSUME NEW u \in Reviewed, Reviews!ReadUser(u)
      PROVE  ReviewsInv'
  <2>1. /\ reviewPc[u] = "stored" /\ reviewPc' = [reviewPc EXCEPT ![u] = "read"]
        /\ read' = [read EXCEPT ![u] = user[review[u].reviewee]]
        /\ UNCHANGED <<reviews, user, review, link, linked>>
    BY <1>8 DEF Reviews!ReadUser, Reviews!Goto
  <2>2. review[u].reviewee \in Reviewed
    BY <1>1 DEF Reviewing
  <2>3. ReviewsTyped'
    BY <1>1, <2>1, <2>2 DEF ReviewsTyped, Reviews!Storing
  <2>4. \A w \in Reviewed : Fresh(w)'
    BY <1>0, <1>1, <2>1 DEF Fresh
  <2>5. Exclusive'
    BY <1>0, <1>1, <2>1 DEF Exclusive, Reviews!Storing
  <2>6. \A v \in Reviewed : ~(reviewPc[v] = "updated" /\ review[v].reviewee = review[u].reviewee)
    BY <1>0, <2>1 DEF Exclusive, Reviews!Storing
  <2>7. ASSUME NEW w \in Reviewed \ linked' PROVE Honest(w)'
    <3>1. Honest(w)
      BY <1>0, <2>1
    <3>2. review[u].reviewee = w => user[w] = Tally(reviews, w)
      BY <2>6, <3>1 DEF Honest
    <3> QED BY <1>1, <2>1, <3>1, <3>2 DEF Honest
  <2> QED BY <2>3, <2>4, <2>5, <2>7 DEF ReviewsInv
<1>9. ASSUME NEW u \in Reviewed, Reviews!UpdateUser(u)
      PROVE  ReviewsInv'
  <2> DEFINE x == review[u].reviewee
  <2>1. /\ reviewPc[u] = "read" /\ reviewPc' = [reviewPc EXCEPT ![u] = "updated"]
        /\ user' = [user EXCEPT ![x] = Plus(read[u], review[u])]
        /\ UNCHANGED <<reviews, review, read, link, linked>>
        /\ Reviews!Sharing(x) = {u}
    BY <1>9 DEF Reviews!UpdateUser, Reviews!Goto, Plus
  <2>2. x \in Reviewed /\ Plus(read[u], review[u]) \in Counted
    BY <1>1, PlusType DEF Reviewing
  <2>3. \A w \in Reviewed : reviewPc[w] \in Reviews!Storing /\ w # u =>
          x # review[w].reviewer /\ x # review[w].reviewee
    BY <2>1 DEF Reviews!Sharing
  <2> HIDE DEF x
  <2>4. ReviewsTyped'
    BY <1>1, <2>1, <2>2 DEF ReviewsTyped, Reviews!Storing
  <2>5. \A w \in Reviewed : Fresh(w)'
    BY <1>0, <1>1, <2>1 DEF Fresh
  <2>6. Exclusive'
    BY <1>0, <1>1, <2>1, <2>3 DEF Exclusive, Reviews!Storing, x
  <2>7. ASSUME NEW w \in Reviewed \ linked' PROVE Honest(w)'
    <3>1. Honest(w) /\ w \in Reviewed
      BY <1>0, <2>1
    <3>2. CASE w = x
      <4>1. read[u] = Tally(reviews, w)
        BY <2>1, <3>1, <3>2 DEF Honest, x
      <4>2. user'[w] = Plus(Tally(reviews, w), review[u])
        BY <1>1, <2>1, <2>2, <3>2, <4>1
      <4>3. \A v \in Reviewed : v # u /\ reviewPc[v] \in {"read", "updated"} => review[v].reviewee # w
        BY <2>3, <3>2 DEF Reviews!Storing
      <4>4. reviewPc'[u] = "updated" /\ review'[u].reviewee = w
        BY <1>1, <2>1, <3>2 DEF x
      <4>5. \A v \in Reviewed \ {u} : reviewPc'[v] = reviewPc[v]
        BY <1>1, <2>1
      <4> QED BY <2>1, <3>1, <4>1, <4>2, <4>3, <4>4, <4>5 DEF Honest
    <3>3. CASE w # x
      <4>1. user'[w] = user[w]
        BY <1>1, <2>1, <3>1, <3>3
      <4>2. \A v \in Reviewed : review[v].reviewee = w => reviewPc'[v] = reviewPc[v]
        BY <1>1, <2>1, <3>3 DEF x
      <4> QED BY <2>1, <3>1, <4>1, <4>2 DEF Honest
    <3> QED BY <3>2, <3>3
  <2> QED BY <2>4, <2>5, <2>6, <2>7 DEF ReviewsInv
<1>10. ASSUME NEW u \in Reviewed, Reviews!Commit(u)
       PROVE  ReviewsInv'
  <2> DEFINE x == review[u].reviewee
  <2>1. /\ reviewPc[u] = "updated" /\ reviewPc' = [reviewPc EXCEPT ![u] = "idle"]
        /\ reviews' = reviews \cup {review[u]}
        /\ review' = [review EXCEPT ![u] = Reviews!NoReview]
        /\ read' = [read EXCEPT ![u] = Reviews!NoRow]
        /\ UNCHANGED <<user, link>>
        /\ linked' = IF link.state # "none" THEN linked \cup ({link.user} \cap {x}) ELSE linked
    BY <1>10 DEF Reviews!Commit, Reviews!Finish, Reviews!Goto
  <2>2. review[u] \in Reviewing /\ review[u] \notin reviews /\ review[u].reviewer = u
    BY <1>0, <1>1, <2>1 DEF Fresh
  <2>3. \A w : Tally(reviews', w) =
                 IF x = w THEN Plus(Tally(reviews, w), review[u]) ELSE Tally(reviews, w)
    BY <1>1, <2>1, <2>2, TallyGrows
  <2>4. \A w \in Reviewed : w # u /\ reviewPc[w] \in Reviews!Storing => x # review[w].reviewee
    BY <1>0, <2>1 DEF Exclusive
  <2>5. IsFiniteSet(reviews')
    BY <1>1, <2>1, FS_AddElement
  <2> HIDE DEF x
  <2>6. ReviewsTyped'
    BY <1>1, <1>3, <2>1, <2>2, <2>5 DEF ReviewsTyped
  <2>7. \A w \in Reviewed : Fresh(w)'
    BY <1>0, <1>1, <2>1, <2>2 DEF Fresh, Reviews!Pair
  <2>8. Exclusive'
    BY <1>0, <1>1, <2>1 DEF Exclusive, Reviews!Storing
  <2>9. ASSUME NEW w \in Reviewed \ linked' PROVE Honest(w)'
    <3>1. Honest(w) /\ w \in Reviewed
      BY <1>0, <2>1
    <3>2. ~(link.state # "none" /\ link.user = w /\ w = x)
      BY <2>1
    <3>3. \A v \in Reviewed \ {u} :
            reviewPc'[v] = reviewPc[v] /\ review'[v] = review[v] /\ read'[v] = read[v]
      BY <1>1, <2>1
    <3>4. reviewPc'[u] = "idle"
      BY <1>1, <2>1
    <3>5. CASE w = x
      <4>1. user[w] = Tally(reviews', w)
        BY <2>1, <2>3, <3>1, <3>5 DEF Honest, x
      <4>2. \A v \in Reviewed \ {u} : reviewPc[v] \in {"read", "updated"} => review[v].reviewee # w
        BY <2>4, <3>5 DEF Reviews!Storing
      <4> QED BY <2>1, <3>2, <3>3, <3>4, <3>5, <4>1, <4>2 DEF Honest
    <3>6. CASE w # x
      <4>1. Tally(reviews', w) = Tally(reviews, w)
        BY <2>3, <3>6
      <4>2. \A v \in Reviewed : review[v].reviewee = w => v # u
        BY <3>6 DEF x
      <4>3. (\A v \in Reviewed : ~(reviewPc[v] = "updated" /\ review[v].reviewee = w)) <=>
            (\A v \in Reviewed : ~(reviewPc'[v] = "updated" /\ review'[v].reviewee = w))
        BY <3>3, <3>4, <4>2
      <4> QED BY <2>1, <3>1, <3>3, <3>4, <4>1, <4>3 DEF Honest
    <3> QED BY <3>5, <3>6
  <2> QED BY <2>6, <2>7, <2>8, <2>9 DEF ReviewsInv
<1>11. ASSUME NEW u \in Reviewed, Reviews!Rollback(u)
       PROVE  ReviewsInv'
  <2> DEFINE x == review[u].reviewee
  <2>1. /\ reviewPc[u] # "idle" /\ reviewPc' = [reviewPc EXCEPT ![u] = "idle"]
        /\ review' = [review EXCEPT ![u] = Reviews!NoReview]
        /\ read' = [read EXCEPT ![u] = Reviews!NoRow]
        /\ user' = IF reviewPc[u] = "updated" THEN [user EXCEPT ![x] = read[u]] ELSE user
        /\ UNCHANGED <<reviews, link, linked>>
    BY <1>11 DEF Reviews!Rollback, Reviews!Finish, Reviews!Goto
  <2>2. x \in Reviewed
    BY <1>1 DEF Reviewing
  <2>4. reviewPc[u] = "updated" =>
          \A w \in Reviewed : w # u /\ reviewPc[w] \in Reviews!Storing => x # review[w].reviewee
    BY <1>0 DEF Exclusive
  <2> HIDE DEF x
  <2>5. ReviewsTyped'
    BY <1>1, <1>3, <2>1, <2>2 DEF ReviewsTyped
  <2>6. \A w \in Reviewed : Fresh(w)'
    BY <1>0, <1>1, <2>1 DEF Fresh
  <2>7. Exclusive'
    BY <1>0, <1>1, <2>1 DEF Exclusive, Reviews!Storing
  <2>8. ASSUME NEW w \in Reviewed \ linked' PROVE Honest(w)'
    <3>1. Honest(w) /\ w \in Reviewed
      BY <1>0, <2>1
    <3>2. \A v \in Reviewed \ {u} :
            reviewPc'[v] = reviewPc[v] /\ review'[v] = review[v] /\ read'[v] = read[v]
      BY <1>1, <2>1
    <3>3. reviewPc'[u] = "idle"
      BY <1>1, <2>1
    <3>4. CASE w = x /\ reviewPc[u] = "updated"
      <4>1. user'[w] = Tally(reviews, w)
        BY <1>1, <2>1, <2>2, <3>1, <3>4 DEF Honest, x
      <4>2. \A v \in Reviewed \ {u} : reviewPc[v] \in {"read", "updated"} => review[v].reviewee # w
        BY <2>4, <3>4 DEF Reviews!Storing
      <4> QED BY <2>1, <3>1, <3>2, <3>3, <4>1, <4>2 DEF Honest
    <3>5. CASE w # x \/ reviewPc[u] # "updated"
      <4>1. user'[w] = user[w]
        BY <1>1, <2>1, <3>1, <3>5
      <4>2. (\A v \in Reviewed : ~(reviewPc[v] = "updated" /\ review[v].reviewee = w)) <=>
            (\A v \in Reviewed : ~(reviewPc'[v] = "updated" /\ review'[v].reviewee = w))
        BY <3>2, <3>3, <3>5 DEF x
      <4> QED BY <2>1, <3>1, <3>2, <3>3, <4>1, <4>2 DEF Honest
    <3> QED BY <3>4, <3>5
  <2> QED BY <2>5, <2>6, <2>7, <2>8 DEF ReviewsInv
<1>12. ASSUME NEW u \in Reviewed, Reviews!LinkRead(u)
       PROVE  ReviewsInv'
  <2>1. /\ link.state = "none"
        /\ link' = [Reviews!NoLink EXCEPT !.state = "read", !.user = u, !.row = Reviews!Committed(u)]
        /\ UNCHANGED <<reviews, user, reviewPc, review, read, linked>>
    BY <1>12 DEF Reviews!LinkRead
  <2>2. /\ link'.state = "read" /\ link'.user = u /\ link'.row = Reviews!Committed(u)
        /\ link'.dirty = {}
    BY <2>1 DEF Reviews!NoLink
  <2>3. /\ Reviews!Committed(u) \in Counted
        /\ u \notin linked => Reviews!Committed(u) = Tally(reviews, u)
    BY CommittedIs
  <2>4. link' \in Linking
    BY <1>2, <1>3, <2>1, <2>3 DEF Reviews!NoLink, Linking
  <2> QED BY <1>0, <1>1, <2>1, <2>2, <2>3, <2>4
          DEF ReviewsInv, ReviewsTyped, Fresh, Exclusive, Honest
<1>13. CASE Reviews!LinkCompare
  <2> DEFINE dirty == {c \in {"score", "count"} : Reviews!Committed(link.user)[c] # link.row[c]}
  <2>1. /\ link.state = "read"
        /\ link' = [link EXCEPT !.state = "compared", !.dirty = dirty]
        /\ UNCHANGED <<reviews, user, reviewPc, review, read, linked>>
    BY <1>13 DEF Reviews!LinkCompare
  <2>2. link.user \in Reviewed
    BY <1>1 DEF Linking
  <2>3. link.user \notin linked => dirty = {}
    BY <1>0, <2>1, <2>2, CommittedIs DEF Honest
  <2>4. dirty \subseteq {"score", "count"}
    OBVIOUS
  <2> HIDE DEF dirty
  <2>5. /\ link' \in Linking /\ link'.state = "compared" /\ link'.user = link.user
        /\ link'.row = link.row /\ link'.dirty = dirty
    BY <1>1, <2>1, <2>4 DEF Linking
  <2> QED BY <1>0, <1>1, <2>1, <2>3, <2>5
          DEF ReviewsInv, ReviewsTyped, Fresh, Exclusive, Honest
<1>14. CASE Reviews!LinkWrite
  <2> DEFINE x == link.user
             new == [c \in {"score", "count"} |->
                       IF c \in link.dirty THEN link.row[c] ELSE user[x][c]]
  <2>1. /\ x \in Reviewed /\ link.row \in Counted /\ user[x] \in Counted
    BY <1>1 DEF Linking
  <2>2. /\ link.state = "compared" /\ link' = Reviews!NoLink
        /\ user' = [user EXCEPT ![x] = new]
        /\ Reviews!Sharing(x) = {}
        /\ UNCHANGED <<reviews, reviewPc, review, read, linked>>
    BY <1>14 DEF Reviews!LinkWrite
  <2>3. new \in Counted
    <3>1. /\ link.row.score \in Int /\ link.row.count \in Int
          /\ user[x].score \in Int /\ user[x].count \in Int
      BY <2>1, CountedFields
    <3>2. new = [score |-> IF "score" \in link.dirty THEN link.row.score ELSE user[x].score,
                 count |-> IF "count" \in link.dirty THEN link.row.count ELSE user[x].count]
      OBVIOUS
    <3> QED BY <3>1, <3>2 DEF Counted
  <2>4. x \notin linked => new = user[x]
    <3>1. ASSUME x \notin linked PROVE link.dirty = {}
      BY <1>0, <2>1, <2>2, <3>1 DEF Honest
    <3>2. user[x] = [c \in {"score", "count"} |-> user[x][c]]
      BY <2>1, CountedFields
    <3> QED BY <3>1, <3>2
  <2>5. link'.state = "none" /\ link' \in Linking
    BY <1>2, <1>3, <2>2 DEF Reviews!NoLink, Linking
  <2> HIDE DEF new, x
  <2>6. \A w \in Reviewed : w \notin linked => user'[w] = user[w]
    BY <1>1, <2>1, <2>2, <2>4
  <2>7. user' \in [Reviewed -> Counted]
    BY <1>1, <2>1, <2>2, <2>3
  <2>8. ReviewsTyped'
    BY <1>1, <2>2, <2>5, <2>7 DEF ReviewsTyped
  <2>9. \A w \in Reviewed \ linked' : Honest(w)'
    BY <1>0, <2>2, <2>5, <2>6 DEF Honest
  <2> QED BY <1>0, <2>2, <2>8, <2>9 DEF ReviewsInv, Fresh, Exclusive
<1>15. ASSUME NEW u \in Reviewed, Reviews!Remove(u)
       PROVE  ReviewsInv'
  BY <1>0, <1>15 DEF Reviews!Remove, ReviewsInv, ReviewsTyped, Fresh, Exclusive, Honest
<1> QED BY <1>5, <1>6, <1>7, <1>8, <1>9, <1>10, <1>11, <1>12, <1>13, <1>14, <1>15
        DEF Reviews!Next

\* Every review counts once in the row of the user it is about, for any number of
\* users, reviews and requests at a time, unless a login that linked the account
\* was under way when a review of it was committed (ReviewsService.create).
THEOREM ReviewsCountOnce == Spec => []ReviewsCounted
<1> DEFINE Inv == part = "reviews" => ReviewsInv
<1>1. Init => Inv
  BY FirstPart, ReviewsStart, ServicesBounds
<1>2. Inv /\ [Next]_vars => Inv'
  BY OnePart, ReviewsStep, ServicesBounds
<1>3. ASSUME ReviewsInv, NEW u \in Reviewed \ linked, Reviews!Writing(u) = {}
      PROVE  user[u] = [score |-> Reviews!SumFunction([r \in Reviews!About(u) |-> Reviews!Gain(r)]),
                        count |-> Reviews!Cardinality(Reviews!About(u))]
  <2>1. user[u] = Tally(reviews, u)
    BY <1>3 DEF ReviewsInv, Honest, Reviews!Writing
  <2>2. Reviews!About(u) = AboutIn(reviews, u)
    BY DEF Reviews!About, AboutIn
  <2> QED BY <2>1, <2>2, OneSum, OneCardinality DEF Tally
<1>4. Inv => ReviewsCounted
  BY <1>3 DEF ReviewsCounted, Reviews!ReviewsCounted
<1> QED BY <1>1, <1>2, <1>4, PTL DEF Spec
-----------------------------------------------------------------------------
(* The feed shows every post, and once.                                    *)

Fans == {S \in SUBSET Readers : IsFiniteSet(S)}
Cursors == [time : Nat, id : Nat, offset : Nat]

FeedTyped ==
    /\ posts \in Seq(Nat)
    /\ likes \in Seq(Fans) /\ Len(likes) = Len(posts)
    /\ comments \in Seq(Nat) /\ Len(comments) = Len(posts)
    /\ liking \in [Readers -> {0} \cup Feed!Ids]
    /\ sort \in Feed!Sorts
    /\ cursor \in Cursors
    /\ shown \subseteq Feed!Ids /\ start \subseteq Feed!Ids

\* Sorted by time: no post that was shown comes after the cursor, and one that was
\* not does, or another post has the same millisecond.
Latest ==
    /\ again = {}
    /\ cursor # Feed!NoCursor => \A p \in shown : ~Feed!After(p)
    /\ \A p \in start \ shown :
         \/ \E q \in Feed!Ids \ {p} : Feed!Truncated(posts[p]) = Feed!Truncated(posts[q])
         \/ cursor # Feed!NoCursor /\ Feed!After(p)

\* Sorted by a count, with no change since the first page: the first posts were
\* shown, as many as the offset says.
Ranked ==
    /\ again = {}
    /\ shown # {} =>
         /\ start = Feed!Ids
         /\ shown = {p \in Feed!Ids : cursor = Feed!NoCursor \/ Feed!Place(p) < cursor.offset}

FeedInv ==
    /\ FeedTyped
    /\ shown = {} => again = {} /\ start = {} /\ cursor = Feed!NoCursor
    /\ sort = "latest" => Latest
    /\ sort # "latest" /\ calm => Ranked

LEMMA FeedFacts ==
    ASSUME FeedTyped
    PROVE  /\ Feed!Ids = 1..Len(posts) /\ Len(posts) \in Nat /\ IsFiniteSet(Feed!Ids)
           /\ \A p \in Feed!Ids :
                /\ p \in Nat /\ p # 0
                /\ posts[p] \in Nat /\ likes[p] \in Fans /\ comments[p] \in Nat
                /\ Feed!Rank(p) \in Nat
<1>1. /\ posts \in Seq(Nat) /\ likes \in Seq(Fans) /\ Len(likes) = Len(posts)
      /\ comments \in Seq(Nat) /\ Len(comments) = Len(posts)
  BY DEF FeedTyped
<1>2. Feed!Ids = 1..Len(posts) /\ Len(posts) \in Nat
  BY <1>1, LenProperties DEF Feed!Ids
<1>3. IsFiniteSet(Feed!Ids)
  BY <1>2, FS_Interval
<1>4. \A p \in Feed!Ids :
        /\ p \in Nat /\ p # 0
        /\ posts[p] \in Nat /\ likes[p] \in Fans /\ comments[p] \in Nat
  BY <1>1, <1>2, ElementOfSeq
<1>5. ASSUME NEW p \in Feed!Ids PROVE Feed!Rank(p) \in Nat
  <2>1. Cardinality(likes[p]) \in Nat
    BY <1>4, FS_CardinalityType DEF Fans
  <2> QED BY <1>4, <2>1, OneCardinality DEF Feed!Rank
<1> QED BY <1>2, <1>3, <1>4, <1>5

LEMMA BeforeOrder ==
    ASSUME FeedTyped, NEW p \in Feed!Ids, NEW q \in Feed!Ids
    PROVE  /\ ~Feed!Before(p, p)
           /\ p = q \/ Feed!Before(p, q) \/ Feed!Before(q, p)
           /\ \A r \in Feed!Ids : Feed!Before(p, q) /\ Feed!Before(q, r) => Feed!Before(p, r)
<1>1. \A r \in Feed!Ids : r \in Nat /\ posts[r] \in Nat /\ Feed!Rank(r) \in Nat
  BY FeedFacts
<1> QED BY <1>1 DEF Feed!Before

\* The places are in the order of the rows.
LEMMA Places ==
    ASSUME FeedTyped
    PROVE  /\ Feed!Following \subseteq Feed!Ids
           /\ \A p \in Feed!Following : Feed!Place(p) \in Nat
           /\ \A p, q \in Feed!Following :
                Feed!Before(p, q) <=> Feed!Place(p) < Feed!Place(q)
<1> DEFINE Above(p) == {q \in Feed!Following : Feed!Before(q, p)}
<1>1. Feed!Following \subseteq Feed!Ids
  BY DEF Feed!Following
<1>2. \A p : IsFiniteSet(Above(p)) /\ Cardinality(Above(p)) \in Nat
  <2>1. \A p : Above(p) \in SUBSET Feed!Ids
    BY <1>1
  <2> QED BY <2>1, FeedFacts, FS_Subset, FS_CardinalityType
<1>3. \A p : Feed!Place(p) = Cardinality(Above(p))
  BY OneCardinality DEF Feed!Place
<1>4. ASSUME NEW p \in Feed!Following, NEW q \in Feed!Following, Feed!Before(p, q)
      PROVE  Feed!Place(p) < Feed!Place(q)
  <2>1. Above(p) \subseteq Above(q)
    BY <1>1, <1>4, BeforeOrder
  <2>2. p \in Above(q) /\ p \notin Above(p)
    BY <1>1, <1>4, BeforeOrder
  <2> HIDE DEF Above
  <2>3. Cardinality(Above(p)) <= Cardinality(Above(q)) /\ Cardinality(Above(p)) # Cardinality(Above(q))
    BY <1>2, <2>1, <2>2, FS_Subset
  <2> QED BY <1>2, <1>3, <2>3
<1>5. ASSUME NEW p \in Feed!Following, NEW q \in Feed!Following,
             Feed!Place(p) < Feed!Place(q), ~Feed!Before(p, q)
      PROVE  FALSE
  <2>1. p = q \/ Feed!Before(q, p)
    BY <1>1, <1>5, BeforeOrder
  <2>2. p = q \/ Feed!Place(q) < Feed!Place(p)
    BY <1>4, <2>1
  <2>3. Feed!Place(p) \in Nat /\ Feed!Place(q) \in Nat
    BY <1>2, <1>3
  <2> HIDE DEF Above
  <2> QED BY <1>5, <2>2, <2>3
<1> QED BY <1>1, <1>2, <1>3, <1>4, <1>5

LEMMA FirstPlace ==
    ASSUME FeedTyped, Feed!Following # {}
    PROVE  \E p \in Feed!Following : Feed!Place(p) = 0
<1> DEFINE S == {Feed!Place(p) : p \in Feed!Following}
<1>1. S \in SUBSET Nat /\ S # {}
  BY Places
<1>2. \A p \in Feed!Following : Feed!Place(p) \in S
  OBVIOUS
<1>3. PICK n \in S : \A m \in S : n <= m
  <2> HIDE DEF S
  <2> QED BY <1>1, LeastElement
<1>4. PICK p \in Feed!Following : n = Feed!Place(p)
  OBVIOUS
<1>5. \A q \in Feed!Following : ~Feed!Before(q, p)
  <2> HIDE DEF S
  <2> QED BY <1>2, <1>3, <1>4, Places
<1>6. {q \in Feed!Following : Feed!Before(q, p)} = {}
  BY <1>5
<1>7. Feed!Place(p) = Cardinality({})
  BY <1>6, OneCardinality DEF Feed!Place
<1> QED BY <1>7, FS_EmptySet

LEMMA TruncatedFacts ==
    ASSUME NEW t \in Nat
    PROVE  /\ Feed!Truncated(t) \in Nat /\ Feed!Truncated(t) <= t
           /\ \A s \in Nat : Feed!Truncated(t) <= s /\ s <= t =>
                Feed!Truncated(s) = Feed!Truncated(t)
<1>0. Millisecond \in Nat \ {0}
  BY ServicesBounds DEF Feed!FeedBounds
<1> DEFINE M == Millisecond
<1>1. \A s \in Nat : Feed!Truncated(s) = M * (s \div M)
  BY <1>0 DEF Feed!Truncated
<1>2. \A s \in Nat : s \div M \in Nat /\ s % M \in 0 .. M - 1 /\ s = M * (s \div M) + (s % M)
  BY <1>0, Division
<1> HIDE DEF M
<1>3. M \in Nat \ {0}
  BY <1>0 DEF M
<1>4. \A s \in Nat : M * (s \div M) \in Nat
  BY <1>2, <1>3
<1>5. ASSUME NEW s \in Nat, M * (t \div M) <= s, s <= t
      PROVE  t \div M = s \div M
  <2> DEFINE a == t \div M
             b == s \div M
             r == s - M * a
             rest == s % M
  <2>1. r \in 0 .. M - 1
    BY <1>2, <1>3, <1>4, <1>5
  <2>2. M * a + r = M * b + rest
    BY <1>2, <1>4
  <2>3. a \in Int /\ b \in Int /\ rest \in 0 .. M - 1
    BY <1>2
  <2> HIDE DEF a, b, r, rest
  <2>4. a = b
    BY <1>3, <2>1, <2>2, <2>3, DivisionUnique
  <2> QED BY <2>4 DEF a, b
<1>6. M * (t \div M) <= t
  BY <1>2, <1>4
<1> QED BY <1>1, <1>4, <1>5, <1>6

-----------------------------------------------------------------------------
(* A page.                                                                 *)

Items == {p \in Feed!Following :
            Feed!Place(p) \in Feed!Offset .. Feed!Offset + Limit - 1}
HasMore == \E p \in Feed!Following : Feed!Place(p) >= Feed!Offset + Limit
LastItem == CHOOSE p \in Items : \A q \in Items \ {p} : Feed!Before(q, p)

LEMMA PageIs ==
    ASSUME Feed!Page
    PROVE  /\ shown' = shown \cup Items
           /\ again' = again \cup (shown \cap Items)
           /\ ~HasMore => cursor' = Feed!NoCursor
           /\ HasMore /\ sort = "latest" =>
                cursor' = [time |-> Feed!Truncated(posts[LastItem]), id |-> LastItem, offset |-> 0]
           /\ HasMore /\ sort # "latest" =>
                cursor' = [time |-> 0, id |-> 0, offset |-> Feed!Offset + Limit]
BY DEF Feed!Page, Items, HasMore, LastItem, Feed!NoCursor

\* Sorted by time, a page has a last post, and what it leaves comes after that.
LEMMA LatestPage ==
    ASSUME FeedTyped, sort = "latest", HasMore
    PROVE  /\ LastItem \in Items
           /\ \A q \in Items \ {LastItem} : Feed!Before(q, LastItem)
           /\ \A q \in Feed!Following \ Items : Feed!Before(LastItem, q)
<1>1. Limit \in Nat \ {0}
  BY ServicesBounds DEF Feed!FeedBounds
<1>2. Feed!Offset = 0
  BY DEF Feed!Offset
<1>3. PICK first \in Feed!Following : Feed!Place(first) = 0
  BY FirstPlace DEF HasMore
<1>4. first \in Items
  BY <1>1, <1>2, <1>3 DEF Items
<1> DEFINE I == {Feed!Place(p) + 1 : p \in Items}
<1>5. \A p \in Items : p \in Feed!Following /\ Feed!Place(p) \in 0 .. Limit - 1
  BY <1>1, <1>2 DEF Items
<1>6. I \in SUBSET (1..Limit) /\ I # {}
  BY <1>1, <1>4, <1>5
<1>7. \A p \in Items : Feed!Place(p) + 1 \in I
  OBVIOUS
<1>8. PICK m \in I : \A n \in I : m >= n
  <2> HIDE DEF I
  <2> QED BY <1>1, <1>6, GreatestElement
<1>9. PICK p \in Items : m = Feed!Place(p) + 1
  OBVIOUS
<1> HIDE DEF I
<1>10. \A q \in Items : Feed!Place(q) <= Feed!Place(p)
  <2>1. \A q \in Items : Feed!Place(q) + 1 <= Feed!Place(p) + 1
    BY <1>7, <1>8, <1>9
  <2> QED BY <1>1, <1>5, <2>1
<1>11. \A q \in Items \ {p} : Feed!Before(q, p)
  <2>1. \A q \in Items : ~Feed!Before(p, q)
    BY <1>1, <1>5, <1>10, Places
  <2>2. Items \subseteq Feed!Ids
    BY <1>5, Places
  <2> QED BY <2>1, <2>2, BeforeOrder
<1>12. LastItem \in Items /\ \A q \in Items \ {LastItem} : Feed!Before(q, LastItem)
  BY <1>11 DEF LastItem
<1>13. ASSUME NEW q \in Feed!Following \ Items PROVE Feed!Before(LastItem, q)
  <2>1. Feed!Place(q) \in Nat /\ Feed!Place(q) \notin 0 .. Limit - 1
    BY <1>1, <1>2, Places DEF Items
  <2>2. LastItem \in Feed!Following /\ Feed!Place(LastItem) \in 0 .. Limit - 1
    BY <1>5, <1>12
  <2>3. Feed!Place(LastItem) < Feed!Place(q)
    BY <1>1, <2>1, <2>2
  <2> QED BY <2>2, <2>3, Places
<1> QED BY <1>12, <1>13

LEMMA PageTyped ==
    ASSUME FeedTyped, Feed!Page, UNCHANGED <<posts, likes, comments, liking, sort>>,
           start' \subseteq Feed!Ids
    PROVE  FeedTyped'
<1>1. Items \subseteq Feed!Ids
  BY Places DEF Items
<1>2. Limit \in Nat \ {0}
  BY ServicesBounds DEF Feed!FeedBounds
<1>3. cursor' \in Cursors
  <2>1. CASE ~HasMore
    BY <2>1, PageIs DEF Feed!NoCursor, Cursors
  <2>2. CASE HasMore /\ sort = "latest"
    <3>1. LastItem \in Feed!Ids
      BY <1>1, <2>2, LatestPage
    <3>2. LastItem \in Nat /\ Feed!Truncated(posts[LastItem]) \in Nat
      BY <3>1, FeedFacts, TruncatedFacts
    <3> QED BY <2>2, <3>2, PageIs DEF Cursors
  <2>3. CASE HasMore /\ sort # "latest"
    <3>1. Feed!Offset \in Nat
      BY DEF Feed!Offset, FeedTyped, Cursors
    <3> QED BY <1>2, <2>3, <3>1, PageIs DEF Cursors
  <2> QED BY <2>1, <2>2, <2>3
<1>4. shown' \subseteq Feed!Ids
  BY <1>1, PageIs DEF FeedTyped
<1> QED BY <1>3, <1>4 DEF FeedTyped, Feed!Ids

LEMMA PageNotEmpty ==
    ASSUME FeedTyped, Feed!Page, cursor = Feed!NoCursor, Feed!Ids # {}
    PROVE  shown' # {}
<1>1. Feed!Following = Feed!Ids
  BY DEF Feed!Following
<1>2. PICK p \in Feed!Following : Feed!Place(p) = 0
  BY <1>1, FirstPlace
<1>3. Feed!Offset = 0 /\ Limit \in Nat \ {0}
  BY ServicesBounds DEF Feed!Offset, Feed!NoCursor, Feed!FeedBounds
<1>4. p \in Items
  BY <1>2, <1>3 DEF Items
<1> QED BY <1>4, PageIs

\* In the order of time, a post that comes before another is not after a cursor
\* made of that one.
LEMMA AfterLast ==
    ASSUME FeedTyped, sort = "latest", Feed!Page, HasMore, UNCHANGED posts
    PROVE  /\ cursor' # Feed!NoCursor
           /\ LastItem \in Feed!Ids
           /\ \A p \in Feed!Ids : p = LastItem \/ Feed!Before(p, LastItem) => ~Feed!After(p)'
           /\ \A p \in Feed!Ids : Feed!Before(LastItem, p) =>
                \/ p # LastItem /\ Feed!Truncated(posts[p]) = Feed!Truncated(posts[LastItem])
                \/ Feed!After(p)'
<1> DEFINE time == Feed!Truncated(posts[LastItem])
<1>1. LastItem \in Feed!Ids
  BY LatestPage, Places DEF Items
<1>2. /\ LastItem \in Nat /\ LastItem # 0 /\ posts[LastItem] \in Nat
      /\ \A p \in Feed!Ids : p \in Nat /\ posts[p] \in Nat
  BY <1>1, FeedFacts
<1>3. /\ time \in Nat /\ time <= posts[LastItem]
      /\ \A p \in Feed!Ids : time <= posts[p] /\ posts[p] <= posts[LastItem] =>
           Feed!Truncated(posts[p]) = time
  BY <1>2, TruncatedFacts
<1>4. cursor' = [time |-> time, id |-> LastItem, offset |-> 0]
  BY PageIs
<1> HIDE DEF time
<1>5. cursor'.time = time /\ cursor'.id = LastItem
  BY <1>4
<1>6. cursor' # Feed!NoCursor
  BY <1>2, <1>5 DEF Feed!NoCursor
<1>7. \A p \in Feed!Ids : Feed!After(p)' <=> posts[p] < time \/ (posts[p] = time /\ p < LastItem)
  BY <1>5 DEF Feed!After
<1>8. \A p, q \in Feed!Ids : Feed!Before(p, q) <=>
        posts[p] > posts[q] \/ (posts[p] = posts[q] /\ p > q)
  BY DEF Feed!Before, Feed!Rank
<1>9. \A p \in Feed!Ids : p = LastItem \/ Feed!Before(p, LastItem) => ~Feed!After(p)'
  BY <1>1, <1>2, <1>3, <1>7, <1>8
<1>10. ASSUME NEW p \in Feed!Ids, Feed!Before(LastItem, p), ~Feed!After(p)'
       PROVE  p # LastItem /\ Feed!Truncated(posts[p]) = time
  <2>1. p # LastItem /\ posts[p] <= posts[LastItem] /\ time <= posts[p]
    BY <1>1, <1>2, <1>3, <1>7, <1>8, <1>10
  <2> QED BY <1>3, <2>1
<1> QED BY <1>1, <1>6, <1>9, <1>10 DEF time

LEMMA LatestPages ==
    ASSUME FeedTyped, sort = "latest", Latest, Feed!Page,
           UNCHANGED <<posts, likes, comments, sort>>,
           \/ cursor = Feed!NoCursor /\ shown = {} /\ start' = Feed!Ids
           \/ cursor # Feed!NoCursor /\ start' = start
    PROVE  Latest'
<1>1. shown \cap Feed!Following = {}
  BY DEF Feed!Following, Latest
<1>2. again' = {}
  <2>1. shown \cap Items = {}
    BY <1>1 DEF Items
  <2> QED BY <2>1, PageIs DEF Latest
<1>3. \A p \in start' \ shown :
        \/ \E q \in Feed!Ids \ {p} : Feed!Truncated(posts[p]) = Feed!Truncated(posts[q])
        \/ p \in Feed!Following
  BY DEF Feed!Following, Latest, FeedTyped
<1>4. Feed!Ids' = Feed!Ids /\ \A t : Feed!Truncated(t)' = Feed!Truncated(t)
  BY DEF Feed!Ids, Feed!Truncated
<1>5. CASE ~HasMore
  <2>1. cursor' = Feed!NoCursor /\ shown' = shown \cup Items
    BY <1>5, PageIs
  <2>2. \A p \in Feed!Following : p \in Items
    <3>1. Feed!Offset = 0 /\ Limit \in Nat
      BY ServicesBounds DEF Feed!Offset, Feed!FeedBounds
    <3> QED BY <1>5, <3>1, Places DEF Items, HasMore
  <2> QED BY <1>2, <1>3, <1>4, <2>1, <2>2 DEF Latest
<1>6. CASE HasMore
  <2>1. shown' = shown \cup Items
    BY PageIs
  <2>2. Items \subseteq Feed!Ids /\ Feed!Following \subseteq Feed!Ids
    BY Places DEF Items
  <2>3. ASSUME NEW p \in shown PROVE ~Feed!After(p)'
    <3>1. cursor # Feed!NoCursor /\ ~Feed!After(p) /\ Feed!After(LastItem)
      BY <1>6, LatestPage DEF Latest, Items, Feed!Following
    <3>2. p \in Feed!Ids /\ LastItem \in Feed!Ids
      BY <1>6, AfterLast DEF FeedTyped
    <3>3. /\ p \in Nat /\ posts[p] \in Nat /\ LastItem \in Nat /\ posts[LastItem] \in Nat
          /\ cursor.time \in Nat /\ cursor.id \in Nat
      BY <3>2, FeedFacts DEF FeedTyped, Cursors
    <3>4. posts[p] > posts[LastItem] \/ (posts[p] = posts[LastItem] /\ p > LastItem)
      BY <3>1, <3>3 DEF Feed!After
    <3>5. Feed!Before(p, LastItem)
      BY <3>4 DEF Feed!Before, Feed!Rank
    <3> QED BY <1>6, <3>2, <3>5, AfterLast
  <2>4. ASSUME NEW p \in Items PROVE ~Feed!After(p)'
    <3>1. p = LastItem \/ Feed!Before(p, LastItem)
      BY <1>6, LatestPage
    <3> QED BY <1>6, <2>2, <3>1, AfterLast
  <2>5. ASSUME NEW p \in Feed!Following \ Items
        PROVE  \/ \E q \in Feed!Ids \ {p} : Feed!Truncated(posts[p]) = Feed!Truncated(posts[q])
               \/ Feed!After(p)'
    <3>1. Feed!Before(LastItem, p)
      BY <1>6, LatestPage
    <3> QED BY <1>6, <2>2, <3>1, AfterLast
  <2>6. cursor' # Feed!NoCursor
    BY <1>6, AfterLast
  <2>7. \A p \in start' \ shown' :
          \/ \E q \in Feed!Ids \ {p} : Feed!Truncated(posts[p]) = Feed!Truncated(posts[q])
          \/ Feed!After(p)'
    BY <1>3, <2>1, <2>5
  <2> QED BY <1>2, <1>4, <2>1, <2>3, <2>4, <2>6, <2>7 DEF Latest
<1> QED BY <1>5, <1>6

LEMMA RankedPages ==
    ASSUME FeedTyped, sort # "latest", again = {}, Feed!Page,
           UNCHANGED <<posts, likes, comments, sort>>,
           \/ cursor = Feed!NoCursor /\ shown = {} /\ start' = Feed!Ids
           \/ cursor # Feed!NoCursor /\ shown # {} /\ Ranked /\ start' = start
    PROVE  Ranked'
<1>1. Feed!Following = Feed!Ids /\ Feed!Offset = cursor.offset /\ cursor.offset \in Nat
  BY DEF Feed!Following, Feed!Offset, FeedTyped, Cursors
<1>2. Limit \in Nat \ {0}
  BY ServicesBounds DEF Feed!FeedBounds
<1>3. \A p \in Feed!Ids : Feed!Place(p) \in Nat
  BY <1>1, Places
<1>4. shown = {p \in Feed!Ids : Feed!Place(p) < Feed!Offset}
  <2>1. CASE cursor = Feed!NoCursor
    <3>1. Feed!Offset = 0 /\ shown = {}
      BY <1>1, <2>1 DEF Feed!NoCursor
    <3> QED BY <1>3, <3>1
  <2>2. CASE cursor # Feed!NoCursor
    BY <1>1, <2>2 DEF Ranked
  <2> QED BY <2>1, <2>2
<1>5. again' = {}
  <2>1. shown \cap Items = {}
    BY <1>1, <1>3, <1>4 DEF Items
  <2> QED BY <2>1, PageIs
<1>6. shown' = {p \in Feed!Ids : Feed!Place(p) < Feed!Offset + Limit}
  BY <1>1, <1>2, <1>3, <1>4, PageIs DEF Items
<1>7. /\ Feed!Ids' = Feed!Ids
      /\ \A p : Feed!Place(p)' = Feed!Place(p)
  <2>1. Feed!Ids' = Feed!Ids
    BY DEF Feed!Ids
  <2>2. \A p, q : Feed!Before(p, q)' <=> Feed!Before(p, q)
    BY DEF Feed!Before, Feed!Rank
  <2>3. Feed!Following' = Feed!Following
    BY <2>1 DEF Feed!Following
  <2>4. \A p : {q \in Feed!Following' : Feed!Before(q, p)'}
                 = {q \in Feed!Following : Feed!Before(q, p)}
    BY <2>2, <2>3
  <2>5. \A p : Feed!Place(p) = Feed!Cardinality({q \in Feed!Following : Feed!Before(q, p)})
    BY DEF Feed!Place
  <2>6. \A p : Feed!Place(p)' = Feed!Cardinality({q \in Feed!Following' : Feed!Before(q, p)'})
    BY DEF Feed!Place
  <2> QED BY <2>1, <2>4, <2>5, <2>6
<1>8. start' = Feed!Ids
  BY DEF Ranked
<1>9. shown' = {p \in Feed!Ids : cursor' = Feed!NoCursor \/ Feed!Place(p) < cursor'.offset}
  <2>1. CASE ~HasMore
    <3>1. cursor' = Feed!NoCursor
      BY <2>1, PageIs
    <3>2. \A p \in Feed!Ids : Feed!Place(p) < Feed!Offset + Limit
      BY <1>1, <1>2, <1>3, <2>1 DEF HasMore
    <3> QED BY <1>6, <3>1, <3>2
  <2>2. CASE HasMore
    <3>1. cursor' = [time |-> 0, id |-> 0, offset |-> Feed!Offset + Limit]
      BY <2>2, PageIs
    <3>2. cursor'.offset = Feed!Offset + Limit
      BY <3>1
    <3>3. cursor' # Feed!NoCursor
      BY <1>1, <1>2, <3>2 DEF Feed!NoCursor
    <3> QED BY <1>6, <3>2, <3>3
  <2> QED BY <2>1, <2>2
<1> QED BY <1>5, <1>7, <1>8, <1>9 DEF Ranked

LEMMA FeedStarts == Feed!Init => FeedInv
<1> SUFFICES ASSUME Feed!Init PROVE FeedInv
  OBVIOUS
<1>1. /\ posts \in Seq(Nat) /\ Len(posts) = 0 /\ likes \in Seq(Fans) /\ Len(likes) = 0
      /\ comments \in Seq(Nat) /\ Len(comments) = 0
  BY EmptySeq DEF Feed!Init
<1>2. cursor \in Cursors
  BY DEF Feed!Init, Feed!NoCursor, Cursors
<1> QED BY <1>1, <1>2 DEF Feed!Init, FeedInv, FeedTyped, Latest, Ranked

\* Writing only adds posts, and tells that it did.
LEMMA WritesKeep ==
    ASSUME FeedInv, FeedTyped',
           UNCHANGED <<sort, cursor, shown, again, start>>,
           \/ calm' = FALSE
           \/ UNCHANGED <<posts, likes, comments, calm>>,
           Feed!Ids \subseteq Feed!Ids', \A p \in Feed!Ids : posts'[p] = posts[p]
    PROVE  FeedInv'
<1>1. sort = "latest" => Latest'
  <2> SUFFICES ASSUME sort = "latest" PROVE Latest'
    OBVIOUS
  <2>1. Latest /\ shown \subseteq Feed!Ids /\ start \subseteq Feed!Ids
    BY DEF FeedInv, FeedTyped
  <2>2. \A p \in Feed!Ids : Feed!After(p)' <=> Feed!After(p)
    BY DEF Feed!After
  <2>3. \A t : Feed!Truncated(t)' = Feed!Truncated(t)
    BY DEF Feed!Truncated
  <2> QED BY <2>1, <2>2, <2>3 DEF Latest
<1>2. sort # "latest" /\ calm' => Ranked'
  BY DEF FeedInv, Ranked, Feed!Ids, Feed!Place, Feed!Following, Feed!Before, Feed!Rank
<1> QED BY <1>1, <1>2 DEF FeedInv

LEMMA FeedStep == FeedInv /\ [Feed!Next]_FeedVars => FeedInv'
<1> SUFFICES ASSUME FeedInv, [Feed!Next]_FeedVars PROVE FeedInv'
  OBVIOUS
<1>1. /\ FeedTyped
      /\ shown = {} => again = {} /\ start = {} /\ cursor = Feed!NoCursor
      /\ sort = "latest" => Latest
      /\ sort # "latest" /\ calm => Ranked
  BY DEF FeedInv
<1>2. /\ posts \in Seq(Nat)
      /\ likes \in Seq(Fans) /\ Len(likes) = Len(posts)
      /\ comments \in Seq(Nat) /\ Len(comments) = Len(posts)
      /\ liking \in [Readers -> {0} \cup Feed!Ids]
  BY <1>1 DEF FeedTyped
<1>3. /\ Feed!Ids = 1..Len(posts) /\ Len(posts) \in Nat
      /\ \A p \in Feed!Ids : likes[p] \in Fans /\ comments[p] \in Nat /\ p # 0
  BY <1>1, FeedFacts
<1>4. CASE UNCHANGED FeedVars
  <2>1. UNCHANGED <<posts, likes, comments, liking, sort, cursor, shown, again, start, calm>>
    BY <1>4 DEF FeedVars
  <2>2. Feed!Ids' = Feed!Ids
    BY <2>1 DEF Feed!Ids
  <2>3. FeedTyped'
    BY <1>1, <2>1, <2>2 DEF FeedTyped
  <2> QED BY <2>1, <2>2, <2>3, WritesKeep
<1>5. ASSUME NEW time \in 0..FeedTime, Feed!Create(time)
      PROVE  FeedInv'
  <2>1. time \in Nat /\ {} \in Fans
    BY ServicesBounds, FS_EmptySet DEF Feed!FeedBounds, Fans
  <2>2. /\ posts' = Append(posts, time) /\ likes' = Append(likes, {})
        /\ comments' = Append(comments, 0) /\ calm' = FALSE
        /\ UNCHANGED <<liking, sort, cursor, shown, again, start>>
    BY <1>5 DEF Feed!Create
  <2>3. /\ posts' \in Seq(Nat) /\ Len(posts') = Len(posts) + 1
        /\ \A p \in 1..Len(posts) : posts'[p] = posts[p]
        /\ likes' \in Seq(Fans) /\ Len(likes') = Len(likes) + 1
        /\ comments' \in Seq(Nat) /\ Len(comments') = Len(comments) + 1
    BY <1>2, <2>1, <2>2, AppendProperties
  <2>4. Feed!Ids' = 1 .. Len(posts')
    BY <2>3, LenProperties DEF Feed!Ids
  <2>5. Feed!Ids \subseteq Feed!Ids'
    BY <1>3, <2>3, <2>4
  <2>6. FeedTyped'
    BY <1>1, <1>2, <2>2, <2>3, <2>5 DEF FeedTyped
  <2> QED BY <1>3, <2>2, <2>3, <2>5, <2>6, WritesKeep
<1>6. ASSUME NEW p \in Feed!Ids, Feed!CreateComment(p)
      PROVE  FeedInv'
  <2>1. comments' = [comments EXCEPT ![p] = comments[p] + 1] /\ calm' = FALSE
        /\ UNCHANGED <<posts, likes, liking, sort, cursor, shown, again, start>>
    BY <1>6 DEF Feed!CreateComment
  <2>2. comments' \in Seq(Nat) /\ Len(comments') = Len(comments)
    BY <1>2, <1>3, <2>1, ExceptSeq
  <2>3. Feed!Ids' = Feed!Ids
    BY <2>1 DEF Feed!Ids
  <2>4. FeedTyped'
    BY <1>1, <2>1, <2>2, <2>3 DEF FeedTyped
  <2> QED BY <2>1, <2>3, <2>4, WritesKeep
<1>7. ASSUME NEW u \in Readers, NEW p \in Feed!Ids, Feed!LikePost(u, p)
      PROVE  FeedInv'
  <2>1. /\ liking' = [liking EXCEPT ![u] = p]
        /\ UNCHANGED <<posts, likes, comments, sort, cursor, shown, again, start, calm>>
    BY <1>7 DEF Feed!LikePost
  <2>2. Feed!Ids' = Feed!Ids
    BY <2>1 DEF Feed!Ids
  <2>3. FeedTyped'
    BY <1>1, <1>2, <2>1, <2>2 DEF FeedTyped
  <2> QED BY <2>1, <2>2, <2>3, WritesKeep
<1>8. ASSUME NEW u \in Readers, NEW p \in Feed!Ids, NEW S \in Fans,
             likes' = [likes EXCEPT ![p] = S], calm' = FALSE,
             liking' \in [Readers -> {0} \cup Feed!Ids],
             UNCHANGED <<posts, comments, sort, cursor, shown, again, start>>
      PROVE  FeedInv'
  <2>1. likes' \in Seq(Fans) /\ Len(likes') = Len(likes)
    BY <1>2, <1>3, <1>8, ExceptSeq
  <2>2. Feed!Ids' = Feed!Ids
    BY <1>8 DEF Feed!Ids
  <2>3. FeedTyped'
    BY <1>1, <1>8, <2>1, <2>2 DEF FeedTyped
  <2> QED BY <1>8, <2>2, <2>3, WritesKeep
<1>9. ASSUME NEW u \in Readers, NEW p \in Feed!Ids, Feed!UnlikePost(u, p)
      PROVE  FeedInv'
  <2>1. likes[p] \ {u} \in Fans
    BY <1>3, FS_RemoveElement DEF Fans
  <2> QED BY <1>2, <1>8, <1>9, <2>1 DEF Feed!UnlikePost
<1>10. ASSUME NEW u \in Readers, Feed!InsertLike(u)
       PROVE  FeedInv'
  <2>1. liking[u] \in Feed!Ids
    BY <1>2, <1>10 DEF Feed!InsertLike
  <2>2. likes[liking[u]] \cup {u} \in Fans
    BY <1>3, <2>1, FS_AddElement DEF Fans
  <2> QED BY <1>2, <1>8, <1>10, <2>1, <2>2 DEF Feed!InsertLike
<1>11. CASE Feed!FirstPage
  <2>1. /\ shown = {} /\ posts # <<>> /\ Feed!Page /\ start' = Feed!Ids
        /\ UNCHANGED <<posts, likes, comments, liking, sort>>
        /\ again = {} /\ cursor = Feed!NoCursor
    BY <1>1, <1>11 DEF Feed!FirstPage
  <2>2. Feed!Ids # {}
    BY <1>2, <1>3, <2>1, EmptySeq
  <2>3. FeedTyped'
    BY <1>1, <2>1, PageTyped
  <2>4. shown' # {}
    BY <1>1, <2>1, <2>2, PageNotEmpty
  <2>5. sort = "latest" => Latest'
    BY <1>1, <2>1, LatestPages
  <2>6. sort # "latest" => Ranked'
    BY <1>1, <2>1, RankedPages
  <2> QED BY <2>1, <2>3, <2>4, <2>5, <2>6 DEF FeedInv
<1>12. CASE Feed!NextPage
  <2>1. /\ cursor # Feed!NoCursor /\ Feed!Page
        /\ UNCHANGED <<posts, likes, comments, liking, sort, start, calm>>
        /\ shown # {}
    BY <1>1, <1>12 DEF Feed!NextPage
  <2>2. FeedTyped'
    BY <1>1, <2>1, PageTyped DEF FeedTyped
  <2>3. shown' # {}
    BY <2>1, PageIs
  <2>4. sort = "latest" => Latest'
    BY <1>1, <2>1, LatestPages
  <2>5. sort # "latest" /\ calm => Ranked'
    BY <1>1, <2>1, RankedPages DEF Ranked
  <2> QED BY <2>1, <2>2, <2>3, <2>4, <2>5 DEF FeedInv
<1> QED BY <1>4, <1>5, <1>6, <1>7, <1>9, <1>10, <1>11, <1>12 DEF Feed!Next

\* Whatever is written, liked or commented on between two pages, the order of time
\* shows no post twice and leaves out none but those that share a millisecond with
\* another; the other orders do so if nothing is written (findFeed).
THEOREM PagesAreComplete == Spec => []FeedComplete
<1> DEFINE Inv == part = "feed" => FeedInv
<1>1. Init => Inv
  BY FirstPart, FeedStarts
<1>2. Inv /\ [Next]_vars => Inv'
  BY OnePart, FeedStep
<1>3. FeedInv => Feed!FeedComplete
  BY DEF FeedInv, FeedTyped, Latest, Ranked, Feed!FeedComplete, Feed!AtEnd, Feed!Sorts
<1>4. Inv => FeedComplete
  BY <1>3 DEF FeedComplete
<1> QED BY <1>1, <1>2, <1>4, PTL DEF Spec
-----------------------------------------------------------------------------
(* Uploads leave nothing behind.                                           *)

File == [kind : Uploads!Kinds, image : BOOLEAN, there : BOOLEAN]

UploadsTyped ==
    /\ files \in Seq(File)
    /\ answers \in Seq(Uploads!Answers) /\ Len(answers) = Len(files)
    /\ parties \subseteq DOMAIN files /\ hosts \subseteq parties
    /\ uploadPc \in [Handlers -> Uploads!Places]
    /\ file \in [Handlers -> {0} \cup DOMAIN files]

\* What a request knows of its file while it is at work on it.
Held(h) ==
    IF uploadPc[h] = "idle" THEN file[h] = 0
    ELSE /\ file[h] \in DOMAIN files /\ file[h] # 0
         /\ files[file[h]].there /\ answers[file[h]] # "created"
         /\ uploadPc[h] \in {"saving", "joining"} =>
              files[file[h]].kind = "thumbnail" /\ files[file[h]].image
         /\ uploadPc[h] = "joining" => file[h] \in parties

\* What is true of a file that no request is at work on.
Left(n) ==
    /\ files[n].there /\ n \notin lost =>
         files[n].kind = "thumbnail" /\ answers[n] \in {"created", "failed"}
    /\ answers[n] = "created" => n \in hosts /\ files[n].there /\ files[n].image

UploadsInv ==
    /\ UploadsTyped
    /\ \A h \in Handlers : Held(h)
    /\ \A g, h \in Handlers : file[g] = file[h] /\ g # h => file[g] = 0
    /\ \A n \in DOMAIN files : Left(n) \/ \E h \in Handlers : file[h] = n

LEMMA FilesAre ==
    ASSUME UploadsTyped
    PROVE  /\ Len(files) \in Nat /\ DOMAIN files = 1..Len(files)
           /\ DOMAIN answers = 1..Len(files)
           /\ \A n \in DOMAIN files : files[n] \in File /\ answers[n] \in Uploads!Answers
<1>1. files \in Seq(File) /\ answers \in Seq(Uploads!Answers) /\ Len(answers) = Len(files)
  BY DEF UploadsTyped
<1>2. /\ Len(files) \in Nat /\ DOMAIN files = 1..Len(files)
      /\ DOMAIN answers = 1..Len(files)
  BY <1>1, LenProperties
<1> QED BY <1>1, <1>2, ElementOfSeq

\* The file is gone, or known to be lost.
LEMMA UnlinkEffect ==
    ASSUME UploadsTyped, NEW n \in DOMAIN files, Uploads!Unlink(n)
    PROVE  /\ files' \in Seq(File) /\ DOMAIN files' = DOMAIN files
           /\ Len(files') = Len(files)
           /\ \A m \in DOMAIN files : m # n => files'[m] = files[m]
           /\ lost \subseteq lost' /\ lost' \subseteq lost \cup {n}
           /\ files'[n].there => n \in lost'
<1>1. files \in Seq(File) /\ n \in 1..Len(files) /\ files[n] \in File
  BY FilesAre DEF UploadsTyped
<1>2. CASE lost' = lost \cup {n} /\ files' = files
  BY <1>1, <1>2
<1>3. CASE files' = [files EXCEPT ![n].there = FALSE] /\ lost' = lost
  <2> DEFINE gone == [files[n] EXCEPT !.there = FALSE]
  <2>1. gone \in File /\ ~gone.there
    BY <1>1 DEF File
  <2>2. files' = [files EXCEPT ![n] = gone]
    BY <1>3
  <2> HIDE DEF gone
  <2>3. /\ files' \in Seq(File) /\ Len(files') = Len(files)
        /\ \A m \in 1..Len(files) : files'[m] = IF m = n THEN gone ELSE files[m]
    BY <1>1, <2>1, <2>2, ExceptSeq
  <2>4. DOMAIN files' = DOMAIN files
    BY <2>3, LenProperties, FilesAre
  <2> QED BY <1>1, <1>3, <2>1, <2>3, <2>4, FilesAre
<1> QED BY <1>2, <1>3 DEF Uploads!Unlink

LEMMA AnswerEffect ==
    ASSUME UploadsTyped, NEW h \in Handlers, file[h] \in DOMAIN files,
           NEW answer \in Uploads!Answers, Uploads!Answer(h, answer)
    PROVE  /\ answers' \in Seq(Uploads!Answers) /\ Len(answers') = Len(answers)
           /\ answers'[file[h]] = answer
           /\ \A m \in DOMAIN files : m # file[h] => answers'[m] = answers[m]
<1>1. answers \in Seq(Uploads!Answers) /\ file[h] \in 1..Len(answers)
  BY FilesAre DEF UploadsTyped
<1>2. answers' = [answers EXCEPT ![file[h]] = answer]
  BY DEF Uploads!Answer
<1>3. /\ answers' \in Seq(Uploads!Answers) /\ Len(answers') = Len(answers)
      /\ \A m \in 1..Len(answers) : answers'[m] = IF m = file[h] THEN answer ELSE answers[m]
  BY <1>1, <1>2, ExceptSeq
<1> QED BY <1>1, <1>3, FilesAre DEF UploadsTyped

\* A step of a request changes its own file only, and goes on with it or leaves
\* it.
LEMMA UploadMoves ==
    ASSUME UploadsInv, NEW h \in Handlers, uploadPc[h] # "idle",
           files' \in Seq(File), DOMAIN files' = DOMAIN files, Len(files') = Len(files),
           answers' \in Seq(Uploads!Answers), Len(answers') = Len(answers),
           parties \subseteq parties', parties' \subseteq DOMAIN files,
           hosts \subseteq hosts', hosts' \subseteq parties',
           \A m \in DOMAIN files : m # file[h] => files'[m] = files[m] /\ answers'[m] = answers[m],
           lost \subseteq lost', lost' \subseteq lost \cup {file[h]},
           NEW place \in Uploads!Places, uploadPc' = [uploadPc EXCEPT ![h] = place],
           \/ file' = file /\ place # "idle"
           \/ file' = [file EXCEPT ![h] = 0] /\ place = "idle"
              /\ \A n : n = file[h] => Left(n)',
           Held(h)'
    PROVE  UploadsInv'
<1>1. /\ UploadsTyped /\ \A g \in Handlers : Held(g)
      /\ \A g \in Handlers \ {h} : file[g] # file[h]
      /\ \A n \in DOMAIN files : Left(n) \/ \E g \in Handlers : file[g] = n
      /\ file[h] \in DOMAIN files /\ file[h] # 0
  BY DEF UploadsInv, Held
<1>2. \A g \in Handlers \ {h} : uploadPc'[g] = uploadPc[g] /\ file'[g] = file[g]
  BY <1>1 DEF UploadsTyped
<1>3. file'[h] \in {0, file[h]}
  BY <1>1 DEF UploadsTyped
<1>4. UploadsTyped'
  BY <1>1 DEF UploadsTyped
<1>5. ASSUME NEW g \in Handlers \ {h} PROVE Held(g)'
  BY <1>1, <1>2 DEF Held
<1>6. ASSUME NEW g \in Handlers, NEW f \in Handlers, file'[f] = file'[g], f # g
      PROVE  file'[f] = 0
  BY <1>1, <1>2, <1>3, <1>6 DEF UploadsInv
<1>7. ASSUME NEW n \in DOMAIN files, n # file[h]
      PROVE  Left(n)' \/ \E g \in Handlers : file'[g] = n
  <2>1. CASE Left(n)
    BY <1>7, <2>1 DEF Left
  <2>2. CASE \E g \in Handlers : file[g] = n
    BY <1>2, <1>7, <2>2
  <2> QED BY <1>1, <2>1, <2>2
<1>8. ASSUME NEW n, n = file[h]
      PROVE  Left(n)' \/ \E g \in Handlers : file'[g] = n
  BY <1>1, <1>8
<1> QED BY <1>4, <1>5, <1>6, <1>7, <1>8 DEF UploadsInv

LEMMA UploadsStart == Uploads!Init => UploadsInv
<1> SUFFICES ASSUME Uploads!Init PROVE UploadsInv
  OBVIOUS
<1>1. /\ files \in Seq(File) /\ answers \in Seq(Uploads!Answers)
      /\ Len(answers) = Len(files) /\ DOMAIN files = {}
  BY EmptySeq DEF Uploads!Init
<1> QED
  BY <1>1 DEF Uploads!Init, UploadsInv, UploadsTyped, Held, Uploads!Places

LEMMA UploadsStep == UploadsInv /\ [Uploads!Next]_UploadsVars => UploadsInv'
<1> SUFFICES ASSUME UploadsInv, [Uploads!Next]_UploadsVars PROVE UploadsInv'
  OBVIOUS
<1>0. /\ UploadsTyped /\ \A h \in Handlers : Held(h)
      /\ \A g, h \in Handlers : file[g] = file[h] /\ g # h => file[g] = 0
      /\ \A n \in DOMAIN files : Left(n) \/ \E h \in Handlers : file[h] = n
  BY DEF UploadsInv
<1>1. /\ files \in Seq(File) /\ answers \in Seq(Uploads!Answers)
      /\ Len(answers) = Len(files) /\ parties \subseteq DOMAIN files
      /\ hosts \subseteq parties /\ uploadPc \in [Handlers -> Uploads!Places]
      /\ file \in [Handlers -> {0} \cup DOMAIN files]
  BY <1>0 DEF UploadsTyped
<1>2. /\ Len(files) \in Nat /\ DOMAIN files = 1..Len(files)
      /\ DOMAIN answers = 1..Len(files)
      /\ \A n \in DOMAIN files : files[n] \in File /\ answers[n] \in Uploads!Answers
  BY <1>0, FilesAre
<1>3. CASE UNCHANGED UploadsVars
  BY <1>0, <1>3 DEF UploadsVars, UploadsInv, UploadsTyped, Held, Left
<1>4. ASSUME NEW h \in Handlers, NEW kind \in Uploads!Kinds, NEW image \in BOOLEAN,
             Uploads!Upload(h, kind, image)
      PROVE  UploadsInv'
  <2> DEFINE new == [kind |-> kind, image |-> image, there |-> TRUE]
             last == Len(files) + 1
  <2>1. new \in File /\ new.there
    BY DEF File
  <2>2. files' = Append(files, new) /\ answers' = Append(answers, "none")
    BY <1>4 DEF Uploads!Upload
  <2>3. "none" \in Uploads!Answers
    BY DEF Uploads!Answers
  <2> HIDE DEF new
  <2>4. /\ files' \in Seq(File) /\ Len(files') = last
        /\ files'[last] = new
        /\ \A n \in 1..Len(files) : files'[n] = files[n]
    BY <1>1, <2>1, <2>2, AppendProperties
  <2>5. /\ answers' \in Seq(Uploads!Answers) /\ Len(answers') = last
        /\ answers'[last] = "none"
        /\ \A n \in 1..Len(files) : answers'[n] = answers[n]
    BY <1>1, <2>2, <2>3, AppendProperties
  <2>6. DOMAIN files' = 1..last
    BY <2>4, LenProperties
  <2>7. /\ parties' = parties /\ hosts' = hosts /\ lost' = lost
        /\ file' = [file EXCEPT ![h] = last]
        /\ uploadPc' = [uploadPc EXCEPT ![h] = "validating"]
        /\ uploadPc[h] = "idle"
    BY <1>4, <2>4 DEF Uploads!Upload
  <2>8. last \notin DOMAIN files /\ last # 0 /\ DOMAIN files \subseteq DOMAIN files'
        /\ last \in DOMAIN files' /\ \A n \in DOMAIN files' : n = last \/ n \in DOMAIN files
    BY <1>2, <2>6
  <2> HIDE DEF last
  <2>9. UploadsTyped'
    BY <1>1, <2>4, <2>5, <2>7, <2>8 DEF UploadsTyped, Uploads!Places
  <2>10. \A g \in Handlers : Held(g)'
    BY <1>0, <1>1, <1>2, <2>1, <2>4, <2>5, <2>7, <2>8 DEF Held
  <2>11. \A f, g \in Handlers : file'[f] = file'[g] /\ f # g => file'[f] = 0
    BY <1>0, <1>1, <2>7, <2>8
  <2>12. ASSUME NEW n \in DOMAIN files'
         PROVE  Left(n)' \/ \E g \in Handlers : file'[g] = n
    <3>1. CASE n = last
      BY <1>1, <2>7, <3>1
    <3>2. CASE n \in DOMAIN files /\ Left(n)
      BY <1>2, <2>4, <2>5, <2>7, <3>2 DEF Left
    <3>3. CASE n \in DOMAIN files /\ \E g \in Handlers : file[g] = n
      <4>1. PICK g \in Handlers : file[g] = n
        BY <3>3
      <4>2. g # h
        BY <1>0, <1>2, <2>7, <3>3, <4>1 DEF Held
      <4> QED BY <1>1, <2>7, <4>1, <4>2
    <3> QED BY <1>0, <2>8, <3>1, <3>2, <3>3
  <2> QED BY <2>9, <2>10, <2>11, <2>12 DEF UploadsInv
<1>5. ASSUME NEW h \in Handlers, Uploads!Transform(h)
      PROVE  UploadsInv'
  <2>1. /\ uploadPc[h] = "validating" /\ file[h] \in DOMAIN files /\ file[h] # 0
        /\ files[file[h]].there /\ answers[file[h]] # "created"
        /\ parties' = parties /\ hosts' = hosts
    BY <1>0, <1>5 DEF Uploads!Transform, Held
  <2>2. CASE /\ files[file[h]].image
             /\ Uploads!Goto(h, IF files[file[h]].kind = "receipt" THEN "reading" ELSE "saving")
             /\ UNCHANGED <<files, answers, lost>>
    <3> DEFINE place == IF files[file[h]].kind = "receipt" THEN "reading" ELSE "saving"
    <3>1. place \in Uploads!Places /\ place \notin {"idle", "joining"}
          /\ (place = "saving" => files[file[h]].kind = "thumbnail")
      BY <1>2, <2>1 DEF Uploads!Places, File, Uploads!Kinds
    <3>2. uploadPc' = [uploadPc EXCEPT ![h] = place] /\ file' = file
      BY <2>2 DEF Uploads!Goto
    <3> HIDE DEF place
    <3>3. Held(h)'
      BY <1>1, <2>1, <2>2, <3>1, <3>2 DEF Held
    <3> QED BY <1>1, <2>1, <2>2, <3>1, <3>2, <3>3, UploadMoves
  <2>3. CASE Uploads!Unlink(file[h]) /\ Uploads!Answer(h, "refused") /\ Uploads!Finish(h)
    <3>1. "refused" \in Uploads!Answers /\ "idle" \in Uploads!Places
      BY DEF Uploads!Answers, Uploads!Places
    <3>2. /\ uploadPc' = [uploadPc EXCEPT ![h] = "idle"]
          /\ file' = [file EXCEPT ![h] = 0]
      BY <2>3 DEF Uploads!Finish
    <3>3. /\ files' \in Seq(File) /\ DOMAIN files' = DOMAIN files
          /\ Len(files') = Len(files)
          /\ \A m \in DOMAIN files : m # file[h] => files'[m] = files[m]
          /\ lost \subseteq lost' /\ lost' \subseteq lost \cup {file[h]}
          /\ (files'[file[h]].there => file[h] \in lost')
      BY <1>0, <2>1, <2>3, UnlinkEffect
    <3>4. /\ answers' \in Seq(Uploads!Answers) /\ Len(answers') = Len(answers)
          /\ answers'[file[h]] = "refused"
          /\ \A m \in DOMAIN files : m # file[h] => answers'[m] = answers[m]
      BY <1>0, <2>1, <2>3, <3>1, AnswerEffect
    <3>5. Held(h)'
      BY <1>1, <3>2 DEF Held
    <3>6. \A n : n = file[h] => Left(n)'
      BY <3>3, <3>4 DEF Left
    <3> QED BY <1>1, <2>1, <3>1, <3>2, <3>3, <3>4, <3>5, <3>6, UploadMoves
  <2> QED BY <1>5, <2>2, <2>3 DEF Uploads!Transform
<1>6. ASSUME NEW h \in Handlers, Uploads!GetVisionClient(h) \/ Uploads!ParseReceipt(h)
      PROVE  UploadsInv'
  <2>1. /\ uploadPc[h] \in {"reading", "recognizing"} /\ files' = files /\ lost' = lost
        /\ parties' = parties /\ hosts' = hosts /\ file' = file
        /\ file[h] \in DOMAIN files /\ file[h] # 0 /\ files[file[h]].there
        /\ answers[file[h]] # "created"
    BY <1>0, <1>6
    DEF Uploads!GetVisionClient, Uploads!ParseReceipt, Uploads!Goto, Held
  <2>2. PICK place \in {"recognizing", "unlinking"} : uploadPc' = [uploadPc EXCEPT ![h] = place]
    BY <1>6 DEF Uploads!GetVisionClient, Uploads!ParseReceipt, Uploads!Goto
  <2>3. \/ answers' = answers
        \/ \E answer \in {"failed", "empty", "items"} : Uploads!Answer(h, answer)
    BY <1>6 DEF Uploads!GetVisionClient, Uploads!ParseReceipt
  <2>4. /\ answers' \in Seq(Uploads!Answers) /\ Len(answers') = Len(answers)
        /\ answers'[file[h]] # "created"
        /\ \A m \in DOMAIN files : m # file[h] => answers'[m] = answers[m]
    <3>1. CASE answers' = answers
      BY <1>1, <2>1, <3>1
    <3>2. ASSUME NEW answer \in {"failed", "empty", "items"}, Uploads!Answer(h, answer)
          PROVE  /\ answers' \in Seq(Uploads!Answers) /\ Len(answers') = Len(answers)
                 /\ answers'[file[h]] # "created"
                 /\ \A m \in DOMAIN files : m # file[h] => answers'[m] = answers[m]
      <4>1. answer \in Uploads!Answers /\ answer # "created"
        BY <3>2 DEF Uploads!Answers
      <4> QED BY <1>0, <2>1, <3>2, <4>1, AnswerEffect
    <3> QED BY <2>3, <3>1, <3>2
  <2>5. place \in Uploads!Places /\ place # "idle"
    BY DEF Uploads!Places
  <2>6. Held(h)'
    BY <1>1, <2>1, <2>2, <2>4 DEF Held
  <2> QED BY <1>1, <2>1, <2>2, <2>4, <2>5, <2>6, UploadMoves
<1>7. ASSUME NEW h \in Handlers, Uploads!UnlinkReceipt(h)
      PROVE  UploadsInv'
  <2>1. /\ uploadPc[h] = "unlinking" /\ answers' = answers
        /\ Uploads!Unlink(file[h])
        /\ parties' = parties /\ hosts' = hosts
        /\ file[h] \in DOMAIN files /\ file[h] # 0
        /\ answers[file[h]] # "created"
        /\ uploadPc' = [uploadPc EXCEPT ![h] = "idle"] /\ file' = [file EXCEPT ![h] = 0]
    BY <1>0, <1>7 DEF Uploads!UnlinkReceipt, Uploads!Finish, Held
  <2>2. /\ files' \in Seq(File) /\ DOMAIN files' = DOMAIN files
        /\ Len(files') = Len(files)
        /\ \A m \in DOMAIN files : m # file[h] => files'[m] = files[m]
        /\ lost \subseteq lost' /\ lost' \subseteq lost \cup {file[h]}
        /\ (files'[file[h]].there => file[h] \in lost')
    BY <1>0, <2>1, UnlinkEffect
  <2>3. Held(h)'
    BY <1>1, <2>1 DEF Held
  <2>4. \A n : n = file[h] => Left(n)'
    BY <2>1, <2>2 DEF Left
  <2>5. "idle" \in Uploads!Places
    BY DEF Uploads!Places
  <2> QED BY <1>1, <2>1, <2>2, <2>3, <2>4, <2>5, UploadMoves
<1>8. ASSUME NEW h \in Handlers, Uploads!SaveParty(h) \/ Uploads!SaveHost(h)
      PROVE  UploadsInv'
  <2>1. /\ uploadPc[h] \in {"saving", "joining"} /\ files' = files /\ lost' = lost
        /\ file[h] \in DOMAIN files /\ file[h] # 0 /\ files[file[h]].there
        /\ answers[file[h]] # "created"
        /\ files[file[h]].kind = "thumbnail" /\ files[file[h]].image
        /\ (uploadPc[h] = "joining" => file[h] \in parties)
    BY <1>0, <1>8 DEF Uploads!SaveParty, Uploads!SaveHost, Held
  <2>2. {"failed", "created"} \subseteq Uploads!Answers /\ {"idle", "joining"} \subseteq Uploads!Places
    BY DEF Uploads!Answers, Uploads!Places
  <2>3. CASE /\ parties' = parties \cup {file[h]} /\ hosts' = hosts /\ answers' = answers
             /\ Uploads!Goto(h, "joining")
    <3>1. uploadPc' = [uploadPc EXCEPT ![h] = "joining"] /\ file' = file
      BY <2>3 DEF Uploads!Goto
    <3>2. Held(h)'
      BY <1>1, <2>1, <2>3, <3>1 DEF Held
    <3> QED BY <1>1, <2>1, <2>2, <2>3, <3>1, <3>2, UploadMoves
  <2>4. CASE /\ parties' = parties /\ Uploads!Finish(h)
             /\ \/ hosts' = hosts /\ Uploads!Answer(h, "failed")
                \/ /\ uploadPc[h] = "joining" /\ hosts' = hosts \cup {file[h]}
                   /\ Uploads!Answer(h, "created")
    <3>1. /\ uploadPc' = [uploadPc EXCEPT ![h] = "idle"]
          /\ file' = [file EXCEPT ![h] = 0]
      BY <2>4 DEF Uploads!Finish
    <3>2. PICK answer \in {"failed", "created"} :
            Uploads!Answer(h, answer) /\ (answer = "created" => file[h] \in hosts')
      BY <2>4
    <3>3. /\ answers' \in Seq(Uploads!Answers) /\ Len(answers') = Len(answers)
          /\ answers'[file[h]] = answer
          /\ \A m \in DOMAIN files : m # file[h] => answers'[m] = answers[m]
      BY <1>0, <2>1, <2>2, <3>2, AnswerEffect
    <3>4. Held(h)'
      BY <1>1, <3>1 DEF Held
    <3>5. \A n : n = file[h] => Left(n)'
      BY <2>1, <3>2, <3>3 DEF Left
    <3>6. hosts \subseteq hosts' /\ hosts' \subseteq parties'
      BY <1>1, <2>1, <2>4
    <3> QED BY <1>1, <2>1, <2>2, <2>4, <3>1, <3>3, <3>4, <3>5, <3>6, UploadMoves
  <2> QED BY <1>8, <2>3, <2>4 DEF Uploads!SaveParty, Uploads!SaveHost
<1>9. CASE Uploads!Crash
  <2>1. /\ lost' = lost \cup {file[h] : h \in {g \in Handlers : uploadPc[g] # "idle"}}
        /\ uploadPc' = [h \in Handlers |-> "idle"]
        /\ file' = [h \in Handlers |-> 0]
        /\ UNCHANGED <<files, parties, hosts, answers>>
    BY <1>9 DEF Uploads!Crash
  <2>2. UploadsTyped'
    BY <1>1, <2>1 DEF UploadsTyped, Uploads!Places
  <2>3. \A h \in Handlers : Held(h)' /\ file'[h] = 0
    BY <2>1 DEF Held
  <2>4. ASSUME NEW n \in DOMAIN files'
        PROVE  Left(n)'
    <3>1. CASE Left(n)
      BY <2>1, <3>1 DEF Left
    <3>2. CASE \E h \in Handlers : file[h] = n
      <4>1. PICK h \in Handlers : file[h] = n
        BY <3>2
      <4>2. uploadPc[h] # "idle" /\ answers[n] # "created"
        BY <1>0, <1>2, <2>1, <4>1 DEF Held
      <4>3. n \in lost'
        BY <2>1, <4>1, <4>2
      <4> QED BY <2>1, <4>2, <4>3 DEF Left
    <3> QED BY <1>0, <2>1, <3>1, <3>2
  <2> QED BY <2>2, <2>3, <2>4 DEF UploadsInv
<1> QED BY <1>3, <1>4, <1>5, <1>6, <1>7, <1>8, <1>9 DEF Uploads!Next

\* Whatever fails and whenever the process dies, a request leaves no file behind
\* but a thumbnail, or one that is known to be lost, and a party answered as created
\* has its picture and its host, for any number of files and of requests that
\* interleave (transform, uploadReceipt, createWithFile).
THEOREM NothingStaysBehind == Spec => []NothingLeftBehind
<1> DEFINE Inv == part = "uploads" => UploadsInv
<1>1. Init => Inv
  BY FirstPart, UploadsStart
<1>2. Inv /\ [Next]_vars => Inv'
  BY OnePart, UploadsStep
<1>3. ASSUME UploadsInv, NEW n \in DOMAIN files
      PROVE  /\ files[n].there /\ ~Uploads!InUse(n) /\ n \notin lost =>
                  files[n].kind = "thumbnail" /\ answers[n] \in {"created", "failed"}
             /\ answers[n] = "created" => n \in hosts /\ files[n].there /\ files[n].image
  <2>1. Left(n) \/ \E h \in Handlers : file[h] = n /\ n # 0 /\ answers[n] # "created"
    <3>1. \A h \in Handlers : file[h] = n => n # 0 /\ answers[n] # "created"
      BY <1>3, FilesAre DEF UploadsInv, Held
    <3> QED BY <1>3, <3>1 DEF UploadsInv
  <2> QED BY <2>1 DEF Left, Uploads!InUse
<1>4. Inv => NothingLeftBehind
  BY <1>3 DEF NothingLeftBehind, Uploads!NothingLeftBehind
<1> QED BY <1>1, <1>2, <1>4, PTL DEF Spec
-----------------------------------------------------------------------------
(* The receipt is read as it was printed.                                  *)

\* What was bought, as the assumptions on the constants have it.
Piece == [price : Prices, quantity : 1..20, layout : Receipt!Layouts]
ItemRead == [name : DOMAIN receipt, price : Nat, quantity : 1..20]
Counting == [price : Nat, quantity : 1..20]

LEMMA OneReceiptSum == \A f : Receipt!SumFunction(f) = SumFunction(f)
BY DEF SumFunction, SumFunctionOnSet, FoldFunctionOnSet, MapThenFoldSet,
       Receipt!SumFunction, Receipt!SumFunctionOnSet, Receipt!FoldFunctionOnSet,
       Receipt!MapThenFoldSet

\* The sum of the first k items bought.
Upto(k) == SumFunction([n \in 1..k |-> Receipt!Amount(receipt[n])])

LEMMA PriceType == \A p \in Prices : p \in Nat
BY ServicesBounds DEF ServicesBounds, Receipt!ReceiptBounds

LEMMA AmountType == \A i : i.price \in Nat /\ i.quantity \in Nat => Receipt!Amount(i) \in Nat
BY DEF Receipt!Amount

LEMMA UptoFacts ==
    ASSUME receipt \in Seq(Piece)
    PROVE  /\ \A k \in 0 .. Len(receipt) : Upto(k) \in Nat /\ Upto(k) <= Upto(Len(receipt))
           /\ \A k \in 1 .. Len(receipt) :
                Upto(k) = Upto(k - 1) + Receipt!Amount(receipt[k])
           /\ Receipt!Sum(receipt) = Upto(Len(receipt))
<1> DEFINE L == Len(receipt)
           f == [n \in 1..L |-> Receipt!Amount(receipt[n])]
<1>1. L \in Nat /\ DOMAIN receipt = 1..L
  BY LenProperties
<1>2. \A n \in 1..L : receipt[n] \in Piece
  BY <1>1, ElementOfSeq
<1>3. \A n \in 1..L : Receipt!Amount(receipt[n]) \in Nat
  <2>1. \A i \in Piece : i.price \in Nat /\ i.quantity \in Nat
    <3>1. \A i \in Piece : i.price \in Prices /\ i.quantity \in 1..20
      BY DEF Piece
    <3> QED BY <3>1, PriceType
  <2> QED BY <1>2, <2>1, AmountType
<1>4. f \in [1..L -> Nat] /\ f \in [1..L -> Int]
  BY <1>3
<1>5. ASSUME NEW k \in 0..L
      PROVE  /\ 1..k \in SUBSET (1..L) /\ IsFiniteSet(1..k)
             /\ [n \in 1..k |-> f[n]] \in [1..k -> Nat]
             /\ [n \in 1..k |-> f[n]] \in [1..k -> Int]
             /\ Upto(k) = SumFunction([n \in 1..k |-> f[n]])
  <2>1. 1..k \in SUBSET (1..L)
    BY <1>1
  <2>2. IsFiniteSet(1..k)
    BY <1>1, FS_Interval
  <2>3. [n \in 1..k |-> f[n]] = [n \in 1..k |-> Receipt!Amount(receipt[n])]
    BY <2>1
  <2> QED BY <1>4, <2>1, <2>2, <2>3 DEF Upto
<1>6. Upto(L) = SumFunction(f)
  BY DEF Upto
<1>7. IsFiniteSet(1..L)
  BY <1>1, FS_Interval
<1>8. Receipt!Sum(receipt) = Upto(L)
  BY <1>1, OneReceiptSum DEF Receipt!Sum, Upto
<1> HIDE DEF f
<1>9. ASSUME NEW k \in 0..L PROVE Upto(k) \in Nat /\ Upto(k) <= Upto(L)
  <2>1. Upto(k) \in Nat
    BY <1>5, SumNat
  <2>2. SumFunction([n \in 1..k |-> f[n]]) <= SumFunction(f)
    BY <1>4, <1>5, <1>7, SumPart
  <2> QED BY <1>5, <1>6, <2>1, <2>2
<1>10. ASSUME NEW k \in 1..L PROVE Upto(k) = Upto(k - 1) + Receipt!Amount(receipt[k])
  <2>0. k \in 0..L /\ k - 1 \in 0..L
    BY <1>1
  <2> DEFINE g == [n \in 1..k |-> f[n]]
  <2>1. (1..k) \ {k} = 1 .. k - 1 /\ k \in 1..k
    BY <1>1
  <2>2. [n \in (1..k) \ {k} |-> g[n]] = [n \in 1 .. k - 1 |-> f[n]]
    BY <2>1
  <2>3. g[k] = Receipt!Amount(receipt[k])
    BY <2>1 DEF f
  <2>4. g \in [1..k -> Int] /\ IsFiniteSet(1..k) /\ Upto(k) = SumFunction(g)
    BY <1>5, <2>0
  <2>5. Upto(k - 1) = SumFunction([n \in 1 .. k - 1 |-> f[n]])
    BY <1>5, <2>0
  <2> HIDE DEF g
  <2>6. SumFunction(g) = SumFunction([n \in (1..k) \ {k} |-> g[n]]) + g[k]
    BY <2>1, <2>4, SumRemove
  <2> QED BY <2>2, <2>3, <2>4, <2>5, <2>6
<1> QED BY <1>8, <1>9, <1>10

\* What is read adds up item by item.
LEMMA ReadSum ==
    ASSUME NEW S, NEW list \in Seq(S),
           \A i \in S : i.price \in Nat /\ i.quantity \in Nat
    PROVE  /\ Receipt!Sum(list) \in Nat
           /\ \A i \in S : Receipt!Sum(Append(list, i)) = Receipt!Sum(list) + Receipt!Amount(i)
<1> DEFINE f == [n \in DOMAIN list |-> Receipt!Amount(list[n])]
<1>1. Len(list) \in Nat /\ DOMAIN list = 1 .. Len(list) /\ IsFiniteSet(1 .. Len(list))
  BY LenProperties, FS_Interval
<1>2. \A n \in DOMAIN list : list[n] \in S
  BY <1>1, ElementOfSeq
<1>3. f \in [1 .. Len(list) -> Nat]
  BY <1>1, <1>2, AmountType
<1>4. Receipt!Sum(list) = SumFunction(f)
  BY OneReceiptSum DEF Receipt!Sum
<1>5. ASSUME NEW i \in S
      PROVE  Receipt!Sum(Append(list, i)) = Receipt!Sum(list) + Receipt!Amount(i)
  <2> DEFINE m == Len(list) + 1
             long == Append(list, i)
             g == [n \in DOMAIN long |-> Receipt!Amount(long[n])]
  <2>1. long \in Seq(S) /\ Len(long) = m /\ long[m] = i
        /\ \A n \in 1 .. Len(list) : long[n] = list[n]
    BY AppendProperties
  <2>2. DOMAIN long = 1..m /\ m \in Nat /\ IsFiniteSet(1..m)
    BY <1>1, <2>1, LenProperties, FS_Interval
  <2>3. \A n \in 1..m : long[n] \in S
    BY <2>1, <2>2, ElementOfSeq
  <2>4. g \in [1..m -> Int]
    BY <2>2, <2>3, AmountType
  <2>5. Receipt!Sum(long) = SumFunction(g)
    BY OneReceiptSum DEF Receipt!Sum
  <2>6. m \in 1..m /\ (1..m) \ {m} = 1 .. Len(list)
    BY <1>1
  <2>7. [n \in (1..m) \ {m} |-> g[n]] = f
    BY <1>1, <2>1, <2>2, <2>6
  <2>8. g[m] = Receipt!Amount(i)
    BY <2>1, <2>2, <2>6
  <2> HIDE DEF f, g, m, long
  <2>9. SumFunction(g) = SumFunction([n \in (1..m) \ {m} |-> g[n]]) + g[m]
    BY <2>2, <2>4, <2>6, SumRemove
  <2>10. Receipt!Sum(long) = Receipt!Sum(list) + Receipt!Amount(i)
    BY <1>4, <2>5, <2>7, <2>8, <2>9
  <2> QED BY <2>10 DEF long
<1> HIDE DEF f
<1>6. Receipt!Sum(list) \in Nat
  BY <1>1, <1>3, <1>4, SumNat
<1> QED BY <1>5, <1>6
-----------------------------------------------------------------------------
(* A number and its digits.                                                *)

LEMMA Powers ==
    /\ Receipt!Ten(0) = 1 /\ Receipt!Ten(1) = 10 /\ Receipt!Ten(2) = 100
    /\ Receipt!Ten(3) = 1000 /\ Receipt!Ten(4) = 10000 /\ Receipt!Ten(5) = 100000
    /\ Receipt!Ten(6) = 1000000 /\ Receipt!Ten(7) = 10000000
    /\ Receipt!Ten(8) = 100000000 /\ Receipt!Ten(9) = 1000000000
BY SMT DEF Receipt!Ten

LEMMA PowerType == \A k \in 0..9 : Receipt!Ten(k) \in Nat \ {0}
BY Powers, SMT

\* The numbers a receipt may have on a line.
Readable == {n \in Nat : n >= 1 /\ n < Receipt!Ten(9)}

LEMMA ReadableType == Readable \subseteq Nat
BY DEF Readable

LEMMA DigitsOf ==
    ASSUME NEW n \in Nat, NEW d \in 1..9,
           Receipt!Ten(d - 1) <= n, n < Receipt!Ten(d)
    PROVE  Receipt!Digits(n) = d
<1>1. \A k \in 1..9 : Receipt!Ten(k - 1) <= n /\ n < Receipt!Ten(k) => k = d
  BY Powers, SMT
<1> QED BY <1>1 DEF Receipt!Digits

LEMMA DigitsType ==
    ASSUME NEW n \in Readable
    PROVE  /\ Receipt!Digits(n) \in 1..9
           /\ Receipt!Ten(Receipt!Digits(n) - 1) <= n
           /\ n < Receipt!Ten(Receipt!Digits(n))
<1>1. \E d \in 1..9 : Receipt!Ten(d - 1) <= n /\ n < Receipt!Ten(d)
  BY Powers, SMT DEF Readable
<1> QED BY <1>1 DEF Receipt!Digits

\* A merged number is longer than its price by the digits of its quantity, and
\* at least their product.
LEMMA Merging ==
    ASSUME NEW q \in 1..20, NEW p \in Prices
    PROVE  LET v == Receipt!Joined(q, p)
           IN  /\ v \in Readable /\ v >= p * q
               /\ \E m \in 1..2 : /\ Receipt!Digits(v) >= m + 3
                                  /\ Receipt!Split(v, Receipt!Digits(v) - m)
                                       = [price |-> p, quantity |-> q]
<1> DEFINE d == Receipt!Digits(p)
           T == Receipt!Ten(d)
           v == Receipt!Joined(q, p)
<1>0. p \in Readable /\ p >= 100 /\ p < Receipt!Ten(7) /\ p \in Nat
  BY ServicesBounds, Powers, SMT DEF ServicesBounds, Receipt!ReceiptBounds, Readable
<1>1. d \in 1..9 /\ Receipt!Ten(d - 1) <= p /\ p < T
  BY <1>0, DigitsType
<1>2. d \in 3..7
  <2> HIDE DEF d
  <2> QED BY <1>0, <1>1, Powers, SMT
<1>3. T \in Nat /\ T >= 1000 /\ T <= Receipt!Ten(7)
  <2> HIDE DEF d
  <2> QED BY <1>2, Powers, SMT
<1>4. v = q * T + p
  BY DEF Receipt!Joined
<1>5. PICK m \in 1..2 : Receipt!Ten(m - 1) <= q /\ q < Receipt!Ten(m)
  BY Powers, SMT
<1>6. Receipt!Ten(d + m - 1) = Receipt!Ten(m - 1) * T /\ Receipt!Ten(d + m) = Receipt!Ten(m) * T
  <2> HIDE DEF d
  <2> QED BY <1>2, <1>5, Powers, SMT
<1> HIDE DEF d, v
<1>7. v \in Nat /\ v \in Readable
  BY <1>0, <1>3, <1>4, Powers, SMT DEF Readable
<1>8. Receipt!Ten(d + m - 1) <= v /\ v < Receipt!Ten(d + m)
  BY <1>0, <1>1, <1>3, <1>4, <1>5, <1>6, Powers, SMT
<1>9. d + m \in 1..9 /\ d + m >= m + 3 /\ d + m - m = d
  BY <1>2
<1>10. Receipt!Digits(v) = d + m
  <2>1. PICK e \in 1..9 : e = d + m
    BY <1>9
  <2>2. Receipt!Ten(e - 1) <= v /\ v < Receipt!Ten(e)
    <3>1. e - 1 = d + m - 1
      BY <1>2, <2>1
    <3> QED BY <1>8, <2>1, <3>1
  <2> QED BY <1>7, <2>1, <2>2, DigitsOf
<1>11. v \div T = q /\ v % T = p
  <2>1. T \in Nat \ {0} /\ p \in 0 .. T - 1
    BY <1>0, <1>1, <1>3
  <2>2. /\ v \div T \in Nat /\ v % T \in 0 .. T - 1
        /\ v = T * (v \div T) + (v % T)
    BY <1>7, <2>1, Division
  <2>3. T * (v \div T) + (v % T) = T * q + p
    BY <1>4, <2>1, <2>2
  <2>4. \A a \in Int, r \in 0 .. T - 1 : T * a + r = T * q + p => a = q /\ r = p
    BY <2>1, DivisionUnique
  <2> HIDE DEF T
  <2> QED BY <2>2, <2>3, <2>4
<1>12. v >= p * q
  BY <1>0, <1>1, <1>3, <1>4, SMT
<1>13. Receipt!Split(v, Receipt!Digits(v) - m) = [price |-> p, quantity |-> q]
  <2>1. Receipt!Digits(v) - m = d
    BY <1>2, <1>9, <1>10
  <2> QED BY <1>11, <2>1 DEF Receipt!Split
<1> QED BY <1>7, <1>9, <1>10, <1>12, <1>13 DEF v
-----------------------------------------------------------------------------
(* The repair of a merged number.                                          *)

LEMMA CandidatesAre ==
    ASSUME NEW v \in Readable, NEW s \in Nat, total \in Nat,
           NEW c \in Receipt!Candidates(v, s)
    PROVE  /\ c \in Counting /\ Receipt!Amount(c) \in Nat /\ s + Receipt!Amount(c) <= total
           /\ \/ c = Receipt!Split(v, Receipt!Digits(v) - 1)
              \/ c = Receipt!Split(v, Receipt!Digits(v) - 2)
<1>1. PICK n \in 1..2 : /\ Receipt!Digits(v) >= n + 3
                        /\ c = Receipt!Split(v, Receipt!Digits(v) - n)
  BY DEF Receipt!Candidates
<1>2. c.quantity \in 1..20 /\ s + Receipt!Amount(c) <= total
  BY DEF Receipt!Candidates
<1>3. PICK k \in 0..9 : k = Receipt!Digits(v) - n
  BY <1>1, DigitsType
<1>4. Receipt!Ten(k) \in Nat \ {0} /\ v \in Nat
  BY PowerType, ReadableType
<1>5. v % Receipt!Ten(k) \in Nat
  BY <1>4, Division
<1>6. c = [price |-> v % Receipt!Ten(k), quantity |-> v \div Receipt!Ten(k)]
  BY <1>1, <1>3 DEF Receipt!Split
<1>7. c \in Counting
  BY <1>2, <1>5, <1>6 DEF Counting
<1>8. c.price \in Nat /\ c.quantity \in Nat
  BY <1>7 DEF Counting
<1>9. n = 1 \/ n = 2
  OBVIOUS
<1> QED BY <1>1, <1>2, <1>7, <1>8, <1>9, AmountType

\* Of two candidates at most, one amounts to most, and of those that do one has
\* the shorter prefix.
LEMMA BestOfTwo ==
    ASSUME NEW C, NEW a, NEW b, C \subseteq {a, b}, C # {},
           \A c \in C : Receipt!Amount(c) \in Nat /\ c.quantity \in Nat
    PROVE  LET best == {c \in C : \A d \in C : Receipt!Amount(c) >= Receipt!Amount(d)}
           IN  \E c \in best : \A d \in best : c.quantity <= d.quantity
<1> DEFINE best == {c \in C : \A d \in C : Receipt!Amount(c) >= Receipt!Amount(d)}
<1>1. best # {}
  <2>1. CASE a \in C /\ b \in C
    <3>1. CASE Receipt!Amount(a) >= Receipt!Amount(b)
      BY <2>1, <3>1
    <3>2. CASE Receipt!Amount(b) >= Receipt!Amount(a)
      BY <2>1, <3>2
    <3> QED BY <2>1, <3>1, <3>2
  <2>2. CASE C = {a}
    BY <2>2
  <2>3. CASE C = {b}
    BY <2>3
  <2> QED BY <2>1, <2>2, <2>3
<1>2. best \subseteq {a, b} /\ \A c \in best : c.quantity \in Nat
  OBVIOUS
<1> HIDE DEF best
<1>3. CASE a \in best /\ b \in best
  <2>1. CASE a.quantity <= b.quantity
    BY <1>2, <1>3, <2>1
  <2>2. CASE b.quantity <= a.quantity
    BY <1>2, <1>3, <2>2
  <2> QED BY <1>2, <1>3, <2>1, <2>2 DEF best
<1>4. CASE best = {a}
  BY <1>2, <1>4 DEF best
<1>5. CASE best = {b}
  BY <1>2, <1>5 DEF best
<1> QED BY <1>1, <1>2, <1>3, <1>4, <1>5

LEMMA RepairedIs ==
    ASSUME NEW v \in Readable, NEW q \in 1..20, NEW s \in Nat, total \in Nat
    PROVE  LET r == Receipt!Repaired(v, q, s)
           IN  /\ r \in Counting
               /\ total = 0 \/ s + v <= total => r = [price |-> v, quantity |-> q]
               /\ \A t \in Receipt!Candidates(v, s) :
                    total # 0 /\ ~(s + v <= total) =>
                      s + Receipt!Amount(r) <= total /\ Receipt!Amount(r) >= Receipt!Amount(t)
<1> DEFINE r == Receipt!Repaired(v, q, s)
           C == Receipt!Candidates(v, s)
           best == {c \in C : \A d \in C : Receipt!Amount(c) >= Receipt!Amount(d)}
<1>1. v \in Nat /\ [price |-> v, quantity |-> q] \in Counting
  BY ReadableType DEF Counting
<1>2. CASE total = 0 \/ s + v <= total \/ C = {}
  <2>1. r = [price |-> v, quantity |-> q]
    BY <1>2 DEF Receipt!Repaired
  <2> QED BY <1>1, <1>2, <2>1
<1>3. ASSUME ~(total = 0 \/ s + v <= total \/ C = {})
      PROVE  /\ r \in Counting /\ s + Receipt!Amount(r) <= total
             /\ \A t \in C : Receipt!Amount(r) >= Receipt!Amount(t)
  <2>1. r = CHOOSE c \in best : \A d \in best : c.quantity <= d.quantity
    BY <1>3 DEF Receipt!Repaired
  <2>2. \A c \in C : /\ c \in Counting /\ Receipt!Amount(c) \in Nat
                     /\ s + Receipt!Amount(c) <= total
                     /\ c \in {Receipt!Split(v, Receipt!Digits(v) - 1),
                               Receipt!Split(v, Receipt!Digits(v) - 2)}
    BY CandidatesAre
  <2>3. \A c \in C : c.quantity \in Nat
    BY <2>2 DEF Counting
  <2>4. \E c \in best : \A d \in best : c.quantity <= d.quantity
    <3> HIDE DEF C
    <3> QED BY <1>3, <2>2, <2>3, BestOfTwo
  <2>5. r \in best
    <3> HIDE DEF best, r
    <3> QED BY <2>1, <2>4
  <2> HIDE DEF r, C
  <2>6. r \in C /\ \A d \in C : Receipt!Amount(r) >= Receipt!Amount(d)
    BY <2>5
  <2> QED BY <2>2, <2>6
<1>4. CASE ~(total = 0 \/ s + v <= total \/ C = {})
  BY <1>3, <1>4
<1> QED BY <1>2, <1>4

\* Whatever is read in place of a merged number of the last item fills the total
\* at least as well as what was bought, and does not exceed it.
LEMMA MergedIsRead ==
    ASSUME NEW b \in Piece, NEW s \in Nat, total \in Nat \ {0},
           s + Receipt!Amount(b) <= total
    PROVE  LET r == Receipt!Repaired(Receipt!Joined(b.quantity, b.price), 1, s)
           IN  /\ r \in Counting /\ s + Receipt!Amount(r) <= total
               /\ Receipt!Amount(r) >= Receipt!Amount(b)
<1> DEFINE p == b.price
           q == b.quantity
           v == Receipt!Joined(q, p)
           r == Receipt!Repaired(v, 1, s)
           t == [price |-> p, quantity |-> q]
<1>1. p \in Prices /\ q \in 1..20
  BY DEF Piece
<1>2. p \in Nat /\ p >= 100
  BY <1>1, ServicesBounds, Powers DEF ServicesBounds, Receipt!ReceiptBounds
<1>3. /\ v \in Readable /\ v >= p * q
      /\ \E m \in 1..2 : Receipt!Digits(v) >= m + 3
                         /\ Receipt!Split(v, Receipt!Digits(v) - m) = t
  BY <1>1, Merging
<1>4. v \in Nat
  BY <1>3, ReadableType
<1>5. Receipt!Amount(b) = p * q /\ Receipt!Amount(t) = p * q
  BY DEF Receipt!Amount
<1>6. r \in Counting
  BY <1>3, RepairedIs
<1>7. CASE s + v <= total
  <2>1. r = [price |-> v, quantity |-> 1]
    BY <1>3, <1>7, RepairedIs
  <2>2. Receipt!Amount(r) = v
    BY <1>4, <2>1 DEF Receipt!Amount
  <2> QED BY <1>3, <1>5, <1>6, <1>7, <2>2
<1>8. ASSUME ~(s + v <= total)
      PROVE  s + Receipt!Amount(r) <= total /\ Receipt!Amount(r) >= Receipt!Amount(b)
  <2>1. t \in Receipt!Candidates(v, s)
    <3>1. t.quantity \in 1..20 /\ t.price >= 100 /\ s + Receipt!Amount(t) <= total
      BY <1>1, <1>2, <1>5
    <3> HIDE DEF t, v
    <3> QED BY <1>3, <3>1 DEF Receipt!Candidates
  <2> HIDE DEF t, v, r
  <2>2. s + Receipt!Amount(r) <= total /\ Receipt!Amount(r) >= Receipt!Amount(t)
    BY <1>3, <1>8, <2>1, RepairedIs DEF r
  <2> QED BY <1>5, <2>2 DEF t
<1>9. CASE ~(s + v <= total)
  BY <1>6, <1>8, <1>9
<1> QED BY <1>7, <1>9
-----------------------------------------------------------------------------
(* The lines of an item.                                                   *)

LEMMA Kinds ==
    /\ Receipt!Skip.kind = "skip"
    /\ \A n : Receipt!Name(n).kind = "name" /\ Receipt!Name(n).name = n
    /\ \A v : /\ Receipt!Number(v, TRUE).kind = "number"
              /\ Receipt!Number(v, TRUE).value = v /\ Receipt!Number(v, TRUE).marked
    /\ \A v : /\ Receipt!Number(v, FALSE).kind = "number"
              /\ Receipt!Number(v, FALSE).value = v /\ ~Receipt!Number(v, FALSE).marked
    /\ \A n, q, p : /\ Receipt!Inline(n, q, p).kind = "inline"
                    /\ Receipt!Inline(n, q, p).name = n
                    /\ Receipt!Inline(n, q, p).quantity = q
                    /\ Receipt!Inline(n, q, p).prices = p
BY DEF Receipt!Skip, Receipt!Name, Receipt!Number, Receipt!Inline

LEMMA LinesAre ==
    ASSUME NEW n
    PROVE  LET b == receipt[n]
               P == Receipt!Printed(n)
               one == b.quantity = 1
           IN  /\ b.layout = "inline" /\ one =>
                    Len(P) = 1 /\ P[1] = Receipt!Inline(n, 1, <<b.price>>)
               /\ b.layout = "inline" /\ ~one =>
                    /\ Len(P) = 1
                    /\ P[1] = Receipt!Inline(n, b.quantity, <<b.price, Receipt!Amount(b)>>)
               /\ b.layout = "columns" =>
                    /\ Len(P) = IF one THEN 3 ELSE 5
                    /\ P[1] = Receipt!Name(n) /\ P[2] = Receipt!Skip
                    /\ P[IF one THEN 3 ELSE 4] = Receipt!Number(b.price, TRUE)
                    /\ ~one => /\ P[3] = Receipt!Number(b.quantity, FALSE)
                               /\ P[5] = Receipt!Number(Receipt!Amount(b), TRUE)
               /\ b.layout = "merged" =>
                    /\ Len(P) = 2 /\ P[1] = Receipt!Name(n)
                    /\ P[2] = Receipt!Number(Receipt!Joined(b.quantity, b.price), TRUE)
<1> DEFINE b == receipt[n]
           P == Receipt!Printed(n)
           one == b.quantity = 1
<1>1. CASE b.layout = "inline" /\ one
  <2>1. P = <<Receipt!Inline(n, 1, <<b.price>>)>>
    BY <1>1 DEF Receipt!Printed, Receipt!Single
  <2> HIDE DEF P
  <2> QED BY <1>1, <2>1 DEF P
<1>2. CASE b.layout = "inline" /\ ~one
  <2>1. P = <<Receipt!Inline(n, b.quantity, <<b.price, Receipt!Amount(b)>>)>>
    BY <1>2 DEF Receipt!Printed, Receipt!Single
  <2> HIDE DEF P
  <2> QED BY <1>2, <2>1 DEF P
<1>3. CASE b.layout = "columns" /\ one
  <2>1. P = <<Receipt!Name(n), Receipt!Skip, Receipt!Number(b.price, TRUE)>>
    BY <1>3 DEF Receipt!Printed, Receipt!Single
  <2> HIDE DEF P
  <2> QED BY <1>3, <2>1 DEF P
<1>4. CASE b.layout = "columns" /\ ~one
  <2>1. P = <<Receipt!Name(n), Receipt!Skip, Receipt!Number(b.quantity, FALSE),
              Receipt!Number(b.price, TRUE), Receipt!Number(Receipt!Amount(b), TRUE)>>
    BY <1>4 DEF Receipt!Printed, Receipt!Single
  <2> HIDE DEF P
  <2> QED BY <1>4, <2>1 DEF P
<1>5. CASE b.layout = "merged"
  <2>1. P = <<Receipt!Name(n), Receipt!Number(Receipt!Joined(b.quantity, b.price), TRUE)>>
    BY <1>5 DEF Receipt!Printed
  <2> HIDE DEF P
  <2> QED BY <1>5, <2>1 DEF P
<1> QED BY <1>1, <1>2, <1>3, <1>4, <1>5
-----------------------------------------------------------------------------
(* The loop over the lines.                                                *)

Bought == receipt[at]

\* What is printed.
Printout ==
    /\ receipt \in Seq(Receipt!Bought) /\ receipt \in Seq(Piece) /\ receipt # <<>>
    /\ header \in BOOLEAN
    /\ header \/ \A n \in 1 .. Len(receipt) : receipt[n].layout = "inline"
    /\ total \in Nat

\* The line to read is one of the item's.
LinesOf(b) == CASE b.layout = "inline"  -> 1
                [] b.layout = "columns" -> IF b.quantity = 1 THEN 3 ELSE 5
                [] b.layout = "merged"  -> 2
Place == /\ at \in 1 .. Len(receipt) + 1
         /\ at <= Len(receipt) => line \in 1 .. LinesOf(Bought)
         /\ at > Len(receipt) => line = 1

\* Between the name of an item and its price the item is pending, with its
\* quantity once that was read; only the amount comes after the price.
Expected == IF at > Len(receipt) \/ line \in {1, 5} THEN Receipt!NoItem
            ELSE [name |-> at, quantity |-> IF line = 4 THEN Bought.quantity ELSE 1]
Done == IF line = 5 THEN at ELSE at - 1

\* Every item gives a row: under a header always, without one if the total is
\* not below the items.
Whole == header \/ Receipt!Clean

\* What has been read is right.
Right ==
    /\ Receipt!Clean =>
         /\ \A n \in (1 .. Len(items)) \ Receipt!Merged : Receipt!Exact(n)
         /\ Receipt!Merged # {} /\ Len(items) = Len(receipt) =>
              Receipt!Sum(items) \in Upto(Len(receipt)) .. total
    /\ header => \A n \in 1 .. Len(items) :
                   items[n].name = n /\ (Receipt!Short(n) => Receipt!Exact(n))

ReceiptInv ==
    /\ Printout /\ Place
    /\ pending = Expected
    /\ items \in Seq(ItemRead)
    /\ Whole => Len(items) = Done /\ Right

\* What is on paper stays.
LEMMA PaperKept ==
    ASSUME UNCHANGED <<receipt, header, total>>
    PROVE  Receipt!Clean' = Receipt!Clean /\ Whole' = Whole
<1>1. Receipt!Sum(receipt)' = Receipt!Sum(receipt)
  BY DEF Receipt!Sum, Receipt!SumFunction
<1>2. Receipt!Covered' = Receipt!Covered /\ Receipt!Merged' = Receipt!Merged
  BY <1>1 DEF Receipt!Covered, Receipt!Merged
<1>3. Receipt!Clean' = Receipt!Clean
  BY <1>2 DEF Receipt!Clean
<1> QED BY <1>3 DEF Whole

\* How far the total reaches.
LEMMA TotalCovers ==
    ASSUME Printout, Receipt!Clean
    PROVE  /\ total # 0 => Upto(Len(receipt)) <= total
           /\ Receipt!Merged # {} => total # 0
<1>1. Receipt!Sum(receipt) = Upto(Len(receipt)) /\ Upto(Len(receipt)) \in Nat
  <2>1. Len(receipt) \in 0 .. Len(receipt)
    BY LenProperties DEF Printout
  <2> QED BY <2>1, UptoFacts DEF Printout
<1> QED BY <1>1 DEF Receipt!Clean, Receipt!Covered, Printout

LEMMA PieceFacts ==
    ASSUME Printout
    PROVE  /\ Len(receipt) \in Nat /\ DOMAIN receipt = 1 .. Len(receipt)
           /\ \A n \in 1 .. Len(receipt) :
                /\ receipt[n] \in Piece /\ receipt[n].price \in Nat
                /\ receipt[n].quantity \in 1..20 /\ receipt[n].price \in Prices
                /\ receipt[n].layout \in {"inline", "columns", "merged"}
<1>1. Len(receipt) \in Nat /\ DOMAIN receipt = 1 .. Len(receipt)
  BY LenProperties DEF Printout
<1>2. \A n \in 1 .. Len(receipt) : receipt[n] \in Piece
  BY <1>1, ElementOfSeq DEF Printout
<1>3. \A i \in Piece : /\ i.price \in Prices /\ i.quantity \in 1..20
                       /\ i.layout \in {"inline", "columns", "merged"}
  BY DEF Piece, Receipt!Layouts
<1> QED BY <1>1, <1>2, <1>3, PriceType

\* How many lines are printed of an item.
LEMMA LinesOfIs ==
    ASSUME NEW n, receipt[n].layout \in {"inline", "columns", "merged"}
    PROVE  /\ Len(Receipt!Printed(n)) = LinesOf(receipt[n])
           /\ LinesOf(receipt[n]) \in 1..5
<1> DEFINE b == receipt[n]
           P == Receipt!Printed(n)
<1>1. CASE b.layout = "inline"
  <2>1. Len(P) = 1
    BY <1>1, LinesAre
  <2>2. LinesOf(b) = 1
    BY <1>1 DEF LinesOf
  <2> QED BY <2>1, <2>2
<1>2. CASE b.layout = "columns"
  <2>1. Len(P) = IF b.quantity = 1 THEN 3 ELSE 5
    BY <1>2, LinesAre
  <2>2. LinesOf(b) = IF b.quantity = 1 THEN 3 ELSE 5
    BY <1>2 DEF LinesOf
  <2> QED BY <2>1, <2>2
<1>3. CASE b.layout = "merged"
  <2>1. Len(P) = 2
    BY <1>3, LinesAre
  <2>2. LinesOf(b) = 2
    BY <1>3 DEF LinesOf
  <2> QED BY <2>1, <2>2
<1> QED BY <1>1, <1>2, <1>3

LEMMA ItemFields ==
    \A n, p, q : /\ Receipt!Item(n, p, q).price = p /\ Receipt!Item(n, p, q).quantity = q
                 /\ Receipt!Item(n, p, q).name = n
BY DEF Receipt!Item

LEMMA ReadFields ==
    \A i \in ItemRead : i.price \in Nat /\ i.quantity \in Nat
<1>1. \A i \in ItemRead : i.price \in Nat
  BY DEF ItemRead
<1>2. \A i \in ItemRead : i.quantity \in 1..20
  BY DEF ItemRead
<1> QED BY <1>1, <1>2

\* The sum of what was read exactly is that of what was bought.
LEMMA ExactSum ==
    ASSUME Printout, items \in Seq(ItemRead), Len(items) <= Len(receipt),
           \A n \in 1 .. Len(items) : Receipt!Exact(n)
    PROVE  Receipt!Sum(items) = Upto(Len(items))
<1> DEFINE f == [n \in DOMAIN items |-> Receipt!Amount(items[n])]
           g == [n \in 1 .. Len(items) |-> Receipt!Amount(receipt[n])]
<1>1. DOMAIN items = 1 .. Len(items)
  BY LenProperties
<1>2. \A n \in 1 .. Len(items) : Receipt!Amount(items[n]) = Receipt!Amount(receipt[n])
  <2>1. \A n \in 1 .. Len(items) : /\ items[n].price = receipt[n].price
                                   /\ items[n].quantity = receipt[n].quantity
    BY ItemFields DEF Receipt!Exact
  <2> QED BY <2>1 DEF Receipt!Amount
<1>3. f = g
  BY <1>1, <1>2
<1> QED BY <1>3, OneReceiptSum DEF Receipt!Sum, Upto

\* Reading an item as it was bought, or in place of a merged last item one that
\* fills the total, keeps what was read right.
LEMMA ItemIsRead ==
    ASSUME ReceiptInv, at <= Len(receipt), Done = at - 1, Whole,
           UNCHANGED <<receipt, header, total>>,
           NEW i \in ItemRead, items' = Append(items, i), i.name = at,
           header /\ Receipt!Short(at) => i = Receipt!Item(at, Bought.price, Bought.quantity),
           Receipt!Clean => IF at \in Receipt!Merged
                    THEN Receipt!Sum(items) + Receipt!Amount(i) \in Upto(Len(receipt)) .. total
                    ELSE i = Receipt!Item(at, Bought.price, Bought.quantity)
    PROVE  items' \in Seq(ItemRead)' /\ Len(items') = at /\ Right'
<1>1. /\ Printout /\ at \in 1 .. Len(receipt) /\ items \in Seq(ItemRead)
      /\ Len(items) = at - 1 /\ Right
  BY DEF ReceiptInv, Place
<1>2. Len(receipt) \in Nat /\ DOMAIN receipt = 1 .. Len(receipt)
  BY <1>1, PieceFacts
<1>3. /\ items' \in Seq(ItemRead) /\ Len(items') = at /\ items'[at] = i
      /\ \A n \in 1 .. at - 1 : items'[n] = items[n]
  BY <1>1, <1>2, AppendProperties
<1>4. /\ ItemRead' = ItemRead /\ Receipt!Merged' = Receipt!Merged
      /\ Receipt!Clean' = Receipt!Clean /\ Upto(Len(receipt))' = Upto(Len(receipt))
      /\ \A n : Receipt!Short(n)' = Receipt!Short(n)
  BY PaperKept DEF ItemRead, Receipt!Merged, Upto, Receipt!Short
<1>5. \A n \in 1 .. at - 1 : Receipt!Exact(n) => Receipt!Exact(n)'
  BY <1>3 DEF Receipt!Exact, Receipt!Item
<1>6. i = Receipt!Item(at, Bought.price, Bought.quantity) =>
       \A n : n = at => Receipt!Exact(n)'
  BY <1>3 DEF Receipt!Exact, Receipt!Item, Bought
<1>8. Receipt!Sum(items)' = Receipt!Sum(items) + Receipt!Amount(i)
  <2>1. Receipt!Sum(Append(items, i)) = Receipt!Sum(items) + Receipt!Amount(i)
    BY <1>1, ReadFields, ReadSum
  <2>2. Receipt!Sum(items') = Receipt!Sum(items) + Receipt!Amount(i)
    BY <2>1
  <2> QED BY <2>2 DEF Receipt!Sum, Receipt!SumFunction
<1>9. ASSUME Receipt!Clean
      PROVE  /\ \A n \in (1..at) \ Receipt!Merged : Receipt!Exact(n)'
             /\ Receipt!Merged # {} /\ at = Len(receipt) =>
                  Receipt!Sum(items)' \in Upto(Len(receipt)) .. total
  <2>1. \A n \in (1 .. at - 1) \ Receipt!Merged : Receipt!Exact(n)'
    BY <1>1, <1>5, <1>9 DEF Right
  <2>2. \A n : at \in Receipt!Merged \/ (n = at => Receipt!Exact(n)')
    BY <1>6, <1>9
  <2>3. \A n \in 1..at : n = at \/ n \in 1 .. at - 1
    BY <1>1, <1>2
  <2>4. \A n \in (1..at) \ Receipt!Merged : Receipt!Exact(n)'
    BY <2>1, <2>2, <2>3
  <2>5. Receipt!Merged # {} /\ at = Len(receipt) => at \in Receipt!Merged
    BY <1>9 DEF Receipt!Clean
  <2> QED BY <1>8, <1>9, <2>4, <2>5
<1>10. ASSUME header, NEW n \in 1..at
       PROVE  items'[n].name = n /\ (Receipt!Short(n) => Receipt!Exact(n)')
  <2>1. CASE n = at
    BY <1>3, <1>6, <1>10, <2>1
  <2>2. CASE n \in 1 .. at - 1
    BY <1>1, <1>3, <1>5, <1>10, <2>2 DEF Right
  <2> QED BY <1>1, <1>2, <2>1, <2>2
<1>11. Right'
  BY <1>3, <1>4, <1>9, <1>10 DEF Right
<1> QED BY <1>3, <1>4, <1>11

\* The next line is one of the same item, or the first of the next.
LEMMA PlaceMoves ==
    ASSUME Printout, Place, at <= Len(receipt), Receipt!Advance, receipt' = receipt
    PROVE  /\ Place'
           /\ line < LinesOf(Bought) => at' = at /\ line' = line + 1
           /\ line = LinesOf(Bought) => at' = at + 1 /\ line' = 1
<1>1. /\ at \in 1 .. Len(receipt) /\ Len(receipt) \in Nat /\ line \in 1 .. LinesOf(Bought)
      /\ \A n \in 1 .. Len(receipt) : receipt[n].layout \in {"inline", "columns", "merged"}
  BY PieceFacts DEF Place
<1>2. \A n \in 1 .. Len(receipt) : /\ Len(Receipt!Printed(n)) = LinesOf(receipt[n])
                                   /\ LinesOf(receipt[n]) \in 1..5
  BY <1>1, LinesOfIs
<1>3. Len(Receipt!Printed(at)) = LinesOf(Bought) /\ LinesOf(Bought) \in 1..5
  BY <1>1, <1>2 DEF Bought
<1>4. /\ line < LinesOf(Bought) => at' = at /\ line' = line + 1
      /\ line = LinesOf(Bought) => at' = at + 1 /\ line' = 1
  BY <1>1, <1>3 DEF Receipt!Advance
<1>5. Bought' = receipt[at']
  BY DEF Bought
<1>6. CASE line < LinesOf(Bought)
  <2>1. Bought' = Bought /\ LinesOf(Bought)' = LinesOf(Bought)
    BY <1>4, <1>5, <1>6 DEF Bought, LinesOf
  <2> QED BY <1>1, <1>3, <1>4, <1>6, <2>1 DEF Place
<1>7. CASE line = LinesOf(Bought)
  <2>1. at' = at + 1 /\ line' = 1
    BY <1>4, <1>7
  <2>2. at' <= Len(receipt) => 1 \in 1 .. LinesOf(receipt[at'])
    <3>1. ASSUME at' <= Len(receipt) PROVE at' \in 1 .. Len(receipt)
      BY <1>1, <2>1, <3>1
    <3> QED BY <1>2, <3>1
  <2>3. LinesOf(receipt[at']) = LinesOf(Bought)'
    BY <1>5 DEF LinesOf
  <2> QED BY <1>1, <1>4, <2>1, <2>2, <2>3 DEF Place
<1> QED BY <1>1, <1>3, <1>4, <1>6, <1>7

\* A line that adds no item.
LEMMA NothingIsRead ==
    ASSUME ReceiptInv, UNCHANGED <<receipt, header, total, items>>,
           Place', pending' = Expected', Done' = Done
    PROVE  ReceiptInv'
<1>1. Printout'
  BY DEF ReceiptInv, Printout
<1>2. /\ ItemRead' = ItemRead /\ Receipt!Merged' = Receipt!Merged
      /\ Receipt!Clean' = Receipt!Clean /\ Whole' = Whole
      /\ Upto(Len(receipt))' = Upto(Len(receipt)) /\ Receipt!Sum(items)' = Receipt!Sum(items)
      /\ \A n : Receipt!Short(n)' = Receipt!Short(n)
  BY PaperKept DEF ItemRead, Receipt!Merged, Upto, Receipt!Sum, Receipt!SumFunction,
                   Receipt!Short
<1>3. \A n : Receipt!Exact(n)' = Receipt!Exact(n)
  BY DEF Receipt!Exact
<1>4. Whole => Right'
  BY <1>2, <1>3 DEF ReceiptInv, Right
<1> QED BY <1>1, <1>2, <1>4 DEF ReceiptInv

\* A line that adds the item it is of.
LEMMA SomethingIsRead ==
    ASSUME ReceiptInv, at <= Len(receipt), Done = at - 1, Whole,
           UNCHANGED <<receipt, header, total>>,
           NEW i \in ItemRead, items' = Append(items, i), i.name = at,
           header /\ Receipt!Short(at) => i = Receipt!Item(at, Bought.price, Bought.quantity),
           Receipt!Clean => IF at \in Receipt!Merged
                    THEN Receipt!Sum(items) + Receipt!Amount(i) \in Upto(Len(receipt)) .. total
                    ELSE i = Receipt!Item(at, Bought.price, Bought.quantity),
           Place', pending' = Expected', Done' = at
    PROVE  ReceiptInv'
<1>1. Printout'
  BY DEF ReceiptInv, Printout
<1>2. items' \in Seq(ItemRead)' /\ Len(items') = at /\ Right'
  BY ItemIsRead
<1> QED BY <1>1, <1>2 DEF ReceiptInv

\* Without a header, where the total is less than the items.
LEMMA AnythingIsRead ==
    ASSUME ReceiptInv, ~Whole, UNCHANGED <<receipt, header, total>>,
           NEW i \in ItemRead, items' \in {items, Append(items, i)},
           Place', pending' = Expected'
    PROVE  ReceiptInv'
<1>1. Printout'
  BY DEF ReceiptInv, Printout
<1>2. ItemRead' = ItemRead /\ Whole' = Whole
  BY PaperKept DEF ItemRead
<1>3. items' \in Seq(ItemRead)
  BY AppendProperties DEF ReceiptInv
<1> QED BY <1>1, <1>2, <1>3 DEF ReceiptInv

\* What a line does.
LEMMA LineIsRead ==
    ASSUME Receipt!Next
    PROVE  LET l == Receipt!Printed(at)[line]
               r == Receipt!Repaired(l.value, pending.quantity, Receipt!Sum(items))
           IN  /\ at <= Len(receipt) /\ Receipt!Advance
               /\ UNCHANGED <<receipt, header, total>>
               /\ l.kind \in {"name", "number"} => header
               /\ l.kind = "skip" => UNCHANGED <<pending, items>>
               /\ l.kind = "name" =>
                    pending' = [name |-> l.name, quantity |-> 1] /\ items' = items
               /\ l.kind = "number" /\ pending = Receipt!NoItem =>
                    UNCHANGED <<pending, items>>
               /\ l.kind = "number" /\ pending # Receipt!NoItem /\ ~l.marked
                    /\ l.value \in 1..20 =>
                    pending' = [pending EXCEPT !.quantity = l.value] /\ items' = items
               /\ l.kind = "number" /\ pending # Receipt!NoItem /\ l.marked =>
                    /\ pending' = Receipt!NoItem
                    /\ items' = Append(items, Receipt!Item(pending.name, r.price, r.quantity))
               /\ l.kind = "inline" =>
                    LET ps == l.prices
                        price == IF l.quantity > 1 /\ Len(ps) > 1
                                 THEN ps[Len(ps) - 1] ELSE ps[Len(ps)]
                    IN  /\ pending' = Receipt!NoItem
                        /\ IF header \/ total = 0 \/ price <= total
                           THEN items' = Append(items, Receipt!Item(l.name, price, l.quantity))
                           ELSE items' = items
<1>1. CASE Receipt!SkipLine
  BY <1>1 DEF Receipt!SkipLine, Receipt!Reading, Receipt!Line, Receipt!Paper
<1>2. CASE Receipt!ReadName
  BY <1>2 DEF Receipt!ReadName, Receipt!Reading, Receipt!Line, Receipt!Paper
<1>3. CASE Receipt!ReadNumber
  BY <1>3 DEF Receipt!ReadNumber, Receipt!Reading, Receipt!Line, Receipt!Paper
<1>4. CASE Receipt!ReadInline
  BY <1>4 DEF Receipt!ReadInline, Receipt!Reading, Receipt!Line, Receipt!Paper
<1> QED BY <1>1, <1>2, <1>3, <1>4 DEF Receipt!Next

\* A piece is one of the amount.
LEMMA PieceOfAmount == \A p \in Nat, q \in Nat \ {0} : p * q >= p
<1> SUFFICES ASSUME NEW p \in Nat, NEW q \in Nat \ {0} PROVE p * q >= p
  OBVIOUS
<1>1. PICK d \in Nat : q = d + 1
  <2>1. q - 1 \in Nat /\ q = (q - 1) + 1
    OBVIOUS
  <2> QED BY <2>1
<1>2. p * q = p * d + p /\ p * d \in Nat
  BY <1>1
<1> QED BY <1>2

\* Before the next item is read, the total leaves room for it.
LEMMA Room ==
    ASSUME ReceiptInv, at <= Len(receipt)
    PROVE  /\ at \in 1 .. Len(receipt) /\ Bought = receipt[at]
           /\ Bought \in Piece /\ Bought.price \in Prices /\ Bought.quantity \in 1..20
           /\ Bought.price \in Nat /\ Bought.price \in Readable
           /\ Bought.price <= Receipt!Amount(Bought)
           /\ Receipt!Amount(Bought) \in Nat /\ Receipt!Sum(items) \in Nat /\ total \in Nat
           /\ Receipt!Clean /\ total # 0 => Receipt!Amount(Bought) <= total
           /\ Receipt!Clean /\ Done = at - 1 =>
                /\ total # 0 => Receipt!Sum(items) + Receipt!Amount(Bought) <= total
                /\ at = Len(receipt) =>
                     Receipt!Sum(items) + Receipt!Amount(Bought) = Upto(Len(receipt))
<1>1. /\ Printout /\ at \in 1 .. Len(receipt) /\ Len(receipt) \in Nat
      /\ items \in Seq(ItemRead) /\ (Whole => Len(items) = Done /\ Right) /\ total \in Nat
      /\ receipt \in Seq(Piece)
  BY PieceFacts DEF ReceiptInv, Place, Printout
<1>2. /\ Bought = receipt[at] /\ Bought \in Piece /\ Bought.price \in Prices
      /\ Bought.quantity \in 1..20 /\ Bought.price \in Nat
  BY <1>1, PieceFacts DEF Bought
<1>3. Bought.price \in Readable
  <2>1. \A p \in Prices : p >= Receipt!Ten(2) /\ p < Receipt!Ten(7)
    BY ServicesBounds DEF ServicesBounds, Receipt!ReceiptBounds
  <2>2. Receipt!Ten(2) >= 1 /\ Receipt!Ten(7) <= Receipt!Ten(9)
        /\ {Receipt!Ten(2), Receipt!Ten(7), Receipt!Ten(9)} \subseteq Nat
    BY Powers
  <2> QED BY <1>2, <2>1, <2>2 DEF Readable
<1>4. Receipt!Amount(Bought) \in Nat /\ Bought.price <= Receipt!Amount(Bought)
  <2>1. PICK p \in Nat, q \in 1..20 : p = Bought.price /\ q = Bought.quantity
    BY <1>2
  <2>2. Receipt!Amount(Bought) = p * q
    BY <2>1 DEF Receipt!Amount
  <2>3. p * q \in Nat
    OBVIOUS
  <2>4. q \in Nat \ {0}
    OBVIOUS
  <2>5. p * q >= p
    BY <2>4, PieceOfAmount
  <2> QED BY <2>1, <2>2, <2>3, <2>5
<1>5. Receipt!Sum(items) \in Nat
  BY <1>1, ReadFields, ReadSum
<1>6. /\ Upto(at) = Upto(at - 1) + Receipt!Amount(Bought)
      /\ Upto(at) \in Nat /\ Upto(at - 1) \in Nat /\ Upto(at) <= Upto(Len(receipt))
      /\ Upto(Len(receipt)) \in Nat
  <2>1. at \in 0 .. Len(receipt) /\ at - 1 \in 0 .. Len(receipt)
        /\ Len(receipt) \in 0 .. Len(receipt)
    BY <1>1
  <2> QED BY <1>1, <1>2, <2>1, UptoFacts
<1>7. Receipt!Clean /\ total # 0 => Upto(Len(receipt)) <= total
  BY <1>1, TotalCovers
<1>8. ASSUME Receipt!Clean, Done = at - 1 PROVE Receipt!Sum(items) = Upto(at - 1)
  <2>1. \A n \in 1 .. at - 1 : n # Len(receipt)
    BY <1>1
  <2>2. \A n \in 1 .. Len(items) : n \notin Receipt!Merged
    BY <1>1, <1>8, <2>1 DEF Receipt!Clean, Whole
  <2>3. \A n \in 1 .. Len(items) : Receipt!Exact(n)
    BY <1>1, <1>8, <2>2 DEF Right, Whole
  <2>4. Len(items) <= Len(receipt) /\ Len(items) = at - 1
    BY <1>1, <1>8 DEF Whole
  <2> QED BY <1>1, <2>3, <2>4, ExactSum
<1> QED BY <1>1, <1>2, <1>3, <1>4, <1>5, <1>6, <1>7, <1>8

LEMMA IsRead ==
    ASSUME NEW r \in Counting, NEW n \in DOMAIN receipt
    PROVE  /\ Receipt!Item(n, r.price, r.quantity) \in ItemRead
           /\ Receipt!Amount(Receipt!Item(n, r.price, r.quantity)) = Receipt!Amount(r)
<1>1. r.price \in Nat /\ r.quantity \in 1..20
  BY DEF Counting
<1> QED BY <1>1 DEF Receipt!Item, Receipt!Amount, ItemRead

LEMMA InlineStep ==
    ASSUME ReceiptInv, Receipt!Next, Bought.layout = "inline"
    PROVE  ReceiptInv'
<1> DEFINE l == Receipt!Printed(at)[line]
           p == Bought.price
           q == Bought.quantity
           i == Receipt!Item(at, p, q)
<1>1. at <= Len(receipt) /\ Receipt!Advance /\ UNCHANGED <<receipt, header, total>>
  BY LineIsRead
<1>2. Printout /\ Place /\ LinesOf(Bought) = 1 /\ line = 1
  BY <1>1 DEF ReceiptInv, Place, LinesOf
<1>3. at' = at + 1 /\ line' = 1 /\ Place'
  BY <1>1, <1>2, PlaceMoves
<1>4. /\ at \in DOMAIN receipt /\ at \in Nat /\ p \in Nat /\ q \in 1..20 /\ Bought = receipt[at]
      /\ p <= Receipt!Amount(Bought) /\ Receipt!Amount(Bought) \in Nat /\ total \in Nat
      /\ Receipt!Clean /\ total # 0 => Receipt!Amount(Bought) <= total
  BY <1>1, <1>2, Room, PieceFacts
<1>5. /\ q = 1 => l = Receipt!Inline(at, 1, <<p>>)
      /\ q # 1 => l = Receipt!Inline(at, q, <<p, Receipt!Amount(Bought)>>)
  BY <1>2, <1>4, LinesAre
<1> HIDE DEF l
<1>6. /\ l.kind = "inline" /\ l.name = at /\ l.quantity = q
      /\ l.prices = IF q = 1 THEN <<p>> ELSE <<p, Receipt!Amount(Bought)>>
  BY <1>5, Kinds
<1>7. (IF l.quantity > 1 /\ Len(l.prices) > 1 THEN l.prices[Len(l.prices) - 1]
       ELSE l.prices[Len(l.prices)]) = p
  <2>1. CASE q = 1
    BY <1>6, <2>1
  <2>2. CASE q # 1
    BY <1>4, <1>6, <2>2
  <2> QED BY <2>1, <2>2
<1>8. Whole => header \/ total = 0 \/ p <= total
  BY <1>4 DEF Whole
<1>9. /\ pending' = Receipt!NoItem /\ items' \in {items, Append(items, i)}
      /\ Whole => items' = Append(items, i)
  BY <1>6, <1>7, <1>8, LineIsRead DEF l
<1>10. i \in ItemRead /\ i.name = at
  BY <1>4 DEF Receipt!Item, ItemRead
<1>11. at \notin Receipt!Merged
  BY <1>4 DEF Receipt!Merged
<1>12. Done = at - 1 /\ Done' = at /\ Expected' = Receipt!NoItem
  BY <1>2, <1>3, <1>4 DEF Done, Expected, Receipt!NoItem
<1> HIDE DEF p, q
<1>13. CASE Whole
  BY <1>1, <1>3, <1>9, <1>10, <1>11, <1>12, <1>13, SomethingIsRead DEF p, q
<1>14. CASE ~Whole
  <2> HIDE DEF i
  <2> QED BY <1>1, <1>3, <1>9, <1>10, <1>12, <1>14, AnythingIsRead
<1> QED BY <1>13, <1>14

LEMMA Pending ==
    \A n \in Nat \ {0} : \A q : [name |-> n, quantity |-> q] # Receipt!NoItem
<1> SUFFICES ASSUME NEW n \in Nat \ {0}, NEW q,
                    [name |-> n, quantity |-> q] = Receipt!NoItem
             PROVE  FALSE
  OBVIOUS
<1>1. [name |-> n, quantity |-> q].name = n /\ Receipt!NoItem.name = 0
  BY DEF Receipt!NoItem
<1> QED BY <1>1

\* A price of three digits is not split.
LEMMA ShortIsRead ==
    ASSUME NEW p \in Prices, p < 1000, NEW q, NEW s
    PROVE  Receipt!Repaired(p, q, s) = [price |-> p, quantity |-> q]
<1>1. p \in Nat /\ p >= 100
  BY ServicesBounds, Powers DEF ServicesBounds, Receipt!ReceiptBounds
<1>2. Receipt!Digits(p) = 3
  BY <1>1, Powers, DigitsOf
<1>3. Receipt!Candidates(p, s) = {}
  BY <1>2 DEF Receipt!Candidates
<1> QED BY <1>3 DEF Receipt!Repaired

LEMMA ColumnsStep ==
    ASSUME ReceiptInv, Receipt!Next, Bought.layout = "columns"
    PROVE  ReceiptInv'
<1> DEFINE l == Receipt!Printed(at)[line]
           p == Bought.price
           q == Bought.quantity
           one == q = 1
           s == Receipt!Sum(items)
           r == Receipt!Repaired(p, pending.quantity, s)
           i == Receipt!Item(at, p, q)
           Named(n) == [name |-> at, quantity |-> n]
<1>1. at <= Len(receipt) /\ Receipt!Advance /\ UNCHANGED <<receipt, header, total>>
  BY LineIsRead
<1>2. /\ Printout /\ Place /\ LinesOf(Bought) = (IF one THEN 3 ELSE 5)
      /\ line \in 1 .. LinesOf(Bought)
      /\ pending = Expected
  BY <1>1 DEF ReceiptInv, Place, LinesOf
<1>3. /\ Place'
      /\ line < LinesOf(Bought) => at' = at /\ line' = line + 1
      /\ line = LinesOf(Bought) => at' = at + 1 /\ line' = 1
  BY <1>1, <1>2, PlaceMoves
<1>4. /\ at \in DOMAIN receipt /\ at \in 1 .. Len(receipt) /\ Len(receipt) \in Nat
      /\ p \in Nat /\ p \in Readable /\ q \in 1..20 /\ Bought = receipt[at]
      /\ p <= Receipt!Amount(Bought) /\ Receipt!Amount(Bought) \in Nat
      /\ total \in Nat /\ s \in Nat
      /\ Receipt!Clean /\ Done = at - 1 => total = 0 \/ s + p <= total
      /\ p \in Prices
  BY <1>1, <1>2, Room, PieceFacts
<1>5. /\ line = 1 => l = Receipt!Name(at)
      /\ line = 2 => l = Receipt!Skip
      /\ line = (IF one THEN 3 ELSE 4) => l = Receipt!Number(p, TRUE)
      /\ ~one /\ line = 3 => l = Receipt!Number(q, FALSE)
      /\ ~one /\ line = 5 => l = Receipt!Number(Receipt!Amount(Bought), TRUE)
  BY <1>4, LinesAre
<1>6. /\ \A n : Named(n) # Receipt!NoItem
      /\ line \in {1, 5} => pending = Receipt!NoItem
      /\ line = 4 => pending = Named(q)
      /\ line \in {2, 3} => pending = Named(1)
  BY <1>2, <1>4, Pending DEF Expected
<1>7. Bought' = receipt[at']
  BY <1>1 DEF Bought
<1>8. \A n : Named(n).name = at /\ Named(n).quantity = n
             /\ \A k : [Named(n) EXCEPT !.quantity = k] = Named(k)
  OBVIOUS
<1>9. /\ at \notin Receipt!Merged /\ Whole
      /\ Receipt!Short(at) => p < 1000
  BY <1>2, <1>4 DEF Receipt!Merged, Receipt!Short, Whole, Printout
<1> HIDE DEF l, p, q, s, i, r, Named
<1>10. CASE line = 1
  <2>1. at' = at /\ line' = 2
    BY <1>2, <1>3, <1>4, <1>10
  <2>2. pending' = Named(1) /\ items' = items
    BY <1>5, <1>10, Kinds, LineIsRead DEF l, Named
  <2>3. Expected' = Named(1) /\ Done' = Done
    BY <1>1, <1>4, <1>10, <2>1 DEF Expected, Done, Named
  <2> QED BY <1>1, <1>3, <2>2, <2>3, NothingIsRead
<1>11. CASE line = 2
  <2>1. at' = at /\ line' = 3
    BY <1>2, <1>3, <1>4, <1>11
  <2>2. pending' = Named(1) /\ items' = items
    BY <1>5, <1>6, <1>11, Kinds, LineIsRead DEF l
  <2>3. Expected' = Named(1) /\ Done' = Done
    BY <1>1, <1>4, <1>11, <2>1 DEF Expected, Done, Named
  <2> QED BY <1>1, <1>3, <2>2, <2>3, NothingIsRead
<1>12. CASE ~one /\ line = 3
  <2>1. at' = at /\ line' = 4
    BY <1>2, <1>3, <1>4, <1>12
  <2>2. l.kind = "number" /\ l.value = q /\ ~l.marked
    <3>1. l = Receipt!Number(q, FALSE)
      BY <1>5, <1>12
    <3> QED BY <3>1, Kinds
  <2>3. pending # Receipt!NoItem /\ pending = Named(1)
    BY <1>6, <1>12
  <2>4. pending' = [pending EXCEPT !.quantity = q] /\ items' = items
    BY <1>4, <2>2, <2>3, LineIsRead DEF l
  <2>5. pending' = Named(q)
    BY <1>8, <2>3, <2>4
  <2>6. Expected' = Named(q) /\ Done' = Done
    <3>1. Bought' = Bought
      BY <1>4, <1>7, <2>1
    <3> QED BY <1>1, <1>4, <1>12, <2>1, <3>1 DEF Expected, Done, Named, q
  <2> QED BY <1>1, <1>3, <2>4, <2>5, <2>6, NothingIsRead
<1>13. CASE line = IF one THEN 3 ELSE 4
  <2>1. Done = at - 1 /\ Done' = at /\ Expected' = Receipt!NoItem
    BY <1>2, <1>3, <1>4, <1>13 DEF Done, Expected
  <2>2. l.kind = "number" /\ l.value = p /\ l.marked
    <3>1. l = Receipt!Number(p, TRUE)
      BY <1>5, <1>13
    <3> QED BY <3>1, Kinds
  <2>3. pending = Named(q) /\ pending # Receipt!NoItem
    BY <1>4, <1>6, <1>13
  <2>4. pending.name = at /\ pending.quantity = q
    BY <1>8, <2>3
  <2>5. pending' = Receipt!NoItem
        /\ items' = Append(items, Receipt!Item(at, r.price, r.quantity))
    BY <2>2, <2>3, <2>4, LineIsRead DEF l, r, s
  <2>6. r \in Counting
    BY <1>4, <2>4, RepairedIs DEF r
  <2>7. Receipt!Item(at, r.price, r.quantity) \in ItemRead
    BY <1>4, <2>6, IsRead
  <2>8. Receipt!Clean => r = [price |-> p, quantity |-> q]
    BY <1>4, <2>1, <2>4, RepairedIs DEF r
  <2>9. Receipt!Short(at) => r = [price |-> p, quantity |-> q]
    BY <1>4, <1>9, <2>4, ShortIsRead DEF r
  <2>10. Receipt!Clean \/ Receipt!Short(at) =>
           Receipt!Item(at, r.price, r.quantity) = Receipt!Item(at, p, q)
    BY <2>8, <2>9
  <2> DEFINE j == Receipt!Item(at, r.price, r.quantity)
  <2>11. j \in ItemRead /\ j.name = at /\ items' = Append(items, j)
    BY <2>5, <2>7, ItemFields
  <2> HIDE DEF r, j
  <2>12. Receipt!Clean \/ Receipt!Short(at) =>
           j = Receipt!Item(at, Bought.price, Bought.quantity)
    BY <2>10 DEF j, p, q
  <2>13. pending' = Expected'
    BY <2>1, <2>5
  <2> QED BY <1>1, <1>3, <1>9, <2>1, <2>11, <2>12, <2>13, SomethingIsRead
<1>14. CASE ~one /\ line = 5
  <2>1. at' = at + 1 /\ line' = 1
    BY <1>2, <1>3, <1>4, <1>14
  <2>2. l.kind = "number"
    <3>1. l = Receipt!Number(Receipt!Amount(Bought), TRUE)
      BY <1>5, <1>14
    <3> QED BY <3>1, Kinds
  <2>3. pending' = Receipt!NoItem /\ items' = items
    BY <1>6, <1>14, <2>2, LineIsRead DEF l
  <2>4. Expected' = Receipt!NoItem /\ Done' = Done
    BY <1>4, <1>14, <2>1 DEF Expected, Done
  <2> QED BY <1>1, <1>3, <2>3, <2>4, NothingIsRead
<1> QED BY <1>2, <1>10, <1>11, <1>12, <1>13, <1>14

LEMMA MergedStep ==
    ASSUME ReceiptInv, Receipt!Next, Bought.layout = "merged"
    PROVE  ReceiptInv'
<1> DEFINE l == Receipt!Printed(at)[line]
           v == Receipt!Joined(Bought.quantity, Bought.price)
           s == Receipt!Sum(items)
           r == Receipt!Repaired(v, 1, s)
           i == Receipt!Item(at, r.price, r.quantity)
           named == [name |-> at, quantity |-> 1]
<1>1. at <= Len(receipt) /\ Receipt!Advance /\ UNCHANGED <<receipt, header, total>>
  BY LineIsRead
<1>2. /\ Printout /\ Place /\ LinesOf(Bought) = 2 /\ line \in 1..2 /\ pending = Expected
  BY <1>1 DEF ReceiptInv, Place, LinesOf
<1>3. /\ Place'
      /\ line = 1 => at' = at /\ line' = 2
      /\ line = 2 => at' = at + 1 /\ line' = 1
  BY <1>1, <1>2, PlaceMoves
<1>4. /\ at \in DOMAIN receipt /\ at \in 1 .. Len(receipt) /\ Len(receipt) \in Nat
      /\ Bought \in Piece /\ Bought.price \in Prices /\ Bought.quantity \in 1..20
      /\ Bought = receipt[at] /\ Receipt!Amount(Bought) \in Nat
      /\ total \in Nat /\ s \in Nat
      /\ Receipt!Clean /\ Done = at - 1 =>
           /\ total # 0 => s + Receipt!Amount(Bought) <= total
           /\ at = Len(receipt) => s + Receipt!Amount(Bought) = Upto(Len(receipt))
  BY <1>1, <1>2, Room, PieceFacts
<1>5. /\ line = 1 => l = Receipt!Name(at)
      /\ line = 2 => l = Receipt!Number(v, TRUE)
  BY <1>4, LinesAre
<1>6. /\ named # Receipt!NoItem /\ named.name = at /\ named.quantity = 1
      /\ line = 2 => pending = named
  BY <1>2, <1>4, Pending DEF Expected
<1>7. at \in Receipt!Merged /\ Whole /\ ~Receipt!Short(at)
  BY <1>2, <1>4 DEF Receipt!Merged, Receipt!Short, Whole, Printout
<1>8. Receipt!Clean => total # 0 /\ at = Len(receipt)
  BY <1>2, <1>7, TotalCovers DEF Receipt!Clean
<1>9. v \in Readable
  BY <1>4, Merging
<1> HIDE DEF l, s, v, i, r, named
<1>10. CASE line = 1
  <2>1. at' = at /\ line' = 2
    BY <1>3, <1>10
  <2>2. pending' = named /\ items' = items
    BY <1>5, <1>10, Kinds, LineIsRead DEF l, named
  <2>3. Expected' = named /\ Done' = Done
    BY <1>1, <1>4, <1>10, <2>1 DEF Expected, Done, named
  <2> QED BY <1>1, <1>3, <2>2, <2>3, NothingIsRead
<1>11. CASE line = 2
  <2>1. Done = at - 1 /\ Done' = at /\ Expected' = Receipt!NoItem
    BY <1>3, <1>4, <1>11 DEF Done, Expected
  <2>2. l.kind = "number" /\ l.value = v /\ l.marked
    <3>1. l = Receipt!Number(v, TRUE)
      BY <1>5, <1>11
    <3>2. \A u : /\ Receipt!Number(u, TRUE).kind = "number"
                 /\ Receipt!Number(u, TRUE).value = u /\ Receipt!Number(u, TRUE).marked
      BY Kinds
    <3> QED BY <3>1, <3>2
  <2>3. pending = named /\ pending # Receipt!NoItem
        /\ pending.name = at /\ pending.quantity = 1
    BY <1>6, <1>11
  <2>4. pending' = Receipt!NoItem /\ items' = Append(items, i)
    BY <2>2, <2>3, LineIsRead DEF l, i, r, s
  <2>5. r \in Counting /\ Receipt!Amount(r) \in Nat
    <3>1. r \in Counting
      BY <1>4, <1>9, RepairedIs DEF r
    <3>2. r.price \in Nat /\ r.quantity \in 1..20
      BY <3>1 DEF Counting
    <3> QED BY <3>1, <3>2, AmountType
  <2>6. i \in ItemRead /\ i.name = at /\ Receipt!Amount(i) = Receipt!Amount(r)
    BY <1>4, <2>5, IsRead, ItemFields DEF i
  <2>7. ASSUME Receipt!Clean PROVE s + Receipt!Amount(i) \in Upto(Len(receipt)) .. total
    <3>1. /\ s + Receipt!Amount(Bought) <= total
          /\ s + Receipt!Amount(Bought) = Upto(Len(receipt)) /\ total \in Nat \ {0}
      BY <1>4, <1>8, <2>1, <2>7
    <3>2. s + Receipt!Amount(r) <= total /\ Receipt!Amount(r) >= Receipt!Amount(Bought)
      BY <1>4, <3>1, MergedIsRead DEF r, v
    <3> QED BY <1>4, <2>5, <2>6, <3>1, <3>2
  <2> QED
    BY <1>1, <1>3, <1>7, <2>1, <2>4, <2>6, <2>7, SomethingIsRead DEF s
<1> QED BY <1>2, <1>10, <1>11

LEMMA ReceiptStarts == Receipt!Init => ReceiptInv
<1> SUFFICES ASSUME Receipt!Init PROVE ReceiptInv
  OBVIOUS
<1>1. PICK n \in 1..MaxItems : receipt \in [1..n -> Receipt!Bought]
  BY DEF Receipt!Init
<1>2. MaxItems \in Nat /\ Quantities \subseteq 1..20 /\ Differences \subseteq Int
  BY ServicesBounds DEF ServicesBounds, Receipt!ReceiptBounds
<1>3. Receipt!Bought \subseteq Piece
  BY <1>2 DEF Receipt!Bought, Piece
<1>4. n \in Nat \ {0} /\ receipt \in [1..n -> Piece]
  BY <1>1, <1>2, <1>3
<1>5. receipt \in Seq(Receipt!Bought) /\ receipt \in Seq(Piece)
  BY <1>1, <1>4, SeqDef
<1>6. Len(receipt) = n /\ DOMAIN receipt = 1..n
  BY <1>4, <1>5, LenProperties
<1>7. receipt # <<>>
  BY <1>4, <1>6, EmptySeq
<1>8. Receipt!Sum(receipt) = Upto(n) /\ Upto(n) \in Nat
  <2>1. n \in 0..n
    BY <1>4
  <2> QED BY <1>5, <1>6, <2>1, UptoFacts
<1>9. header \in BOOLEAN /\ (header \/ \A m \in 1..n : receipt[m].layout = "inline")
      /\ at = 1 /\ line = 1 /\ pending = Receipt!NoItem /\ items = <<>>
  BY <1>6 DEF Receipt!Init
<1>10. PICK d \in Differences : total \in {0, Receipt!Sum(receipt) + d} /\ total >= 0
  BY DEF Receipt!Init
<1>11. total \in Nat
  BY <1>2, <1>8, <1>10
<1>12. Printout
  BY <1>5, <1>6, <1>7, <1>9, <1>11 DEF Printout
<1>13. \A m \in 1..n : LinesOf(receipt[m]) \in 1..5
  BY <1>6, <1>12, PieceFacts, LinesOfIs
<1>14. LinesOf(Bought) \in 1..5
  BY <1>4, <1>9, <1>13 DEF Bought
<1>15. Place
  BY <1>4, <1>6, <1>9, <1>14 DEF Place
<1>16. pending = Expected /\ Done = 0
  BY <1>9 DEF Expected, Done
<1>17. items \in Seq(ItemRead) /\ Len(items) = 0
  BY <1>9, EmptySeq
<1>18. Right
  BY <1>4, <1>6, <1>17 DEF Right
<1> QED BY <1>12, <1>15, <1>16, <1>17, <1>18 DEF ReceiptInv

LEMMA ReceiptStep == ReceiptInv /\ [Receipt!Next]_ReceiptVars => ReceiptInv'
<1>1. ASSUME ReceiptInv, UNCHANGED ReceiptVars PROVE ReceiptInv'
  <2>1. UNCHANGED <<receipt, header, total, items, at, line, pending>>
    BY <1>1 DEF ReceiptVars
  <2>2. Place' /\ pending' = Expected' /\ Done' = Done
    BY <1>1, <2>1 DEF ReceiptInv, Place, Expected, Done, Bought, LinesOf
  <2> QED BY <1>1, <2>1, <2>2, NothingIsRead
<1>2. ASSUME ReceiptInv, Receipt!Next PROVE ReceiptInv'
  <2>1. Bought.layout \in {"inline", "columns", "merged"}
    <3>1. Printout /\ Place /\ at <= Len(receipt)
      BY <1>2, LineIsRead DEF ReceiptInv
    <3> QED BY <3>1, PieceFacts DEF Place, Bought
  <2> QED BY <1>2, <2>1, InlineStep, ColumnsStep, MergedStep
<1> QED BY <1>1, <1>2

LEMMA ReceiptHolds == ReceiptInv => Receipt!TypeOK /\ Receipt!ReceiptRead
<1> SUFFICES ASSUME ReceiptInv PROVE Receipt!TypeOK /\ Receipt!ReceiptRead
  OBVIOUS
<1>1. /\ Printout /\ Place /\ pending = Expected /\ items \in Seq(ItemRead)
      /\ Whole => Len(items) = Done /\ Right
  BY DEF ReceiptInv
<1>2. Len(receipt) \in Nat /\ DOMAIN receipt = 1 .. Len(receipt)
  BY <1>1, PieceFacts
<1>3. pending = Receipt!NoItem \/ pending \in [name : DOMAIN receipt, quantity : 1..20]
  <2>1. at > Len(receipt) \/ Bought.quantity \in 1..20
    <3>1. ASSUME ~(at > Len(receipt)) PROVE at \in 1 .. Len(receipt)
      BY <1>1, <1>2, <3>1 DEF Place
    <3> QED BY <1>1, <3>1, PieceFacts DEF Bought
  <2> QED BY <1>1, <1>2, <2>1 DEF Expected, Place
<1>4. line \in 1 .. IF at <= Len(receipt) THEN Len(Receipt!Printed(at)) ELSE 1
  <2>1. CASE at <= Len(receipt)
    <3>1. at \in 1 .. Len(receipt)
      BY <1>1, <1>2, <2>1 DEF Place
    <3>2. Len(Receipt!Printed(at)) = LinesOf(Bought)
      BY <1>1, <3>1, PieceFacts, LinesOfIs DEF Bought
    <3> QED BY <1>1, <2>1, <3>2 DEF Place
  <2>2. CASE ~(at <= Len(receipt))
    BY <1>1, <1>2, <2>2 DEF Place
  <2> QED BY <2>1, <2>2
<1>5. Receipt!TypeOK
  BY <1>1, <1>3, <1>4 DEF Receipt!TypeOK, Printout, Place, ItemRead
<1>6. at > Len(receipt) /\ Whole => Len(items) = Len(receipt) /\ Right
  BY <1>1, <1>2 DEF Place, Done
<1>7. Receipt!Sum(receipt) = Upto(Len(receipt))
  BY <1>1, UptoFacts DEF Printout
<1>8. ASSUME at > Len(receipt), Receipt!Clean
      PROVE  /\ Len(items) = Len(receipt)
             /\ \A n \in DOMAIN receipt \ Receipt!Merged : Receipt!Exact(n)
             /\ Receipt!Merged = {} \/ Receipt!Sum(items) \in Receipt!Sum(receipt) .. total
  BY <1>2, <1>6, <1>7, <1>8 DEF Right, Whole
<1>9. ASSUME at > Len(receipt), header
      PROVE  /\ Len(items) = Len(receipt)
             /\ \A n \in DOMAIN receipt :
                  items[n].name = n /\ (Receipt!Short(n) => Receipt!Exact(n))
  BY <1>2, <1>6, <1>9 DEF Right, Whole
<1>10. Receipt!ReceiptRead
  BY <1>8, <1>9 DEF Receipt!ReceiptRead
<1> QED BY <1>5, <1>10

\* Whatever was bought, in whatever layout each item was printed and whatever
\* total was read: where the total is not below the items (no discount, and it
\* was not misread), they are read as they were bought, and if the numbers of the
\* last one were merged, what is read for it fills the total and does not exceed
\* it, as what was bought is among the candidates of the repair.  Where it is
\* below, under a header every item has its row still, and those are exact whose
\* price is too short to be split (parseReceiptText, repairMergedQuantityAndPrice).
THEOREM ReceiptsAreRead == Spec => []ReceiptRead
<1> DEFINE Inv == part = "receipt" => ReceiptInv
<1>1. Init => Inv
  BY FirstPart, ReceiptStarts
<1>2. Inv /\ [Next]_vars => Inv'
  BY OnePart, ReceiptStep
<1>3. Inv => ReceiptRead
  BY ReceiptHolds DEF ReceiptRead
<1> QED BY <1>1, <1>2, <1>3, PTL DEF Spec
-----------------------------------------------------------------------------
(* The words of a photograph are put back to the lines of the paper.       *)

Word == [row : 1..PaperRows, x : 1..Columns, y : Int, height : Heights]

LEMMA OneVisualSum == \A f : Visual!SumFunction(f) = SumFunction(f)
BY DEF SumFunction, SumFunctionOnSet, FoldFunctionOnSet, MapThenFoldSet,
       Visual!SumFunction, Visual!SumFunctionOnSet, Visual!FoldFunctionOnSet,
       Visual!MapThenFoldSet

\* A word of row r lies between these.
Top(r) == r * Pitch - Tilt
Bottom(r) == r * Pitch + Tilt

\* What was photographed: one word at each place of the paper, off by the tilt
\* at most.
Photo ==
    /\ words \in SUBSET Word /\ IsFiniteSet(words)
    /\ \A w \in words : Top(w.row) <= w.y /\ w.y <= Bottom(w.row)
    /\ \A v, w \in words : v.row = w.row /\ v.x = w.x => v = w
    /\ \A r \in 1..PaperRows, c \in 1..Columns : \E w \in words : w.row = r /\ w.x = c

\* Words of row r, and some.
WordsOf(L, r) == L \in SUBSET words /\ L # {} /\ \A w \in L : w.row = r

LEMMA PaperBounds ==
    /\ PaperRows \in Nat /\ Pitch \in Nat /\ Tilt \in Nat /\ Columns \in Nat \ {0}
    /\ \A h \in Heights : h \in Nat \ {0}
    /\ \A o \in Offsets : o \in Int /\ -Tilt <= o /\ o <= Tilt
BY ServicesBounds DEF ServicesBounds, Visual!VisualBounds

LEMMA WordFields ==
    ASSUME NEW w \in Word
    PROVE  /\ w.row \in 1..PaperRows /\ w.row \in Nat /\ w.x \in 1..Columns /\ w.x \in Nat
           /\ w.y \in Int /\ w.height \in Heights /\ w.height \in Nat \ {0}
<1>1. w.row \in 1..PaperRows /\ w.x \in 1..Columns /\ w.y \in Int /\ w.height \in Heights
  BY DEF Word
<1> QED BY <1>1, PaperBounds

\* Multiplying by a number of words keeps an order.
LEMMA Scaled ==
    ASSUME NEW n \in Nat \ {0}, NEW a \in Int, NEW b \in Int
    PROVE  /\ n * a \in Int /\ n * b \in Int
           /\ a <= b => n * a <= n * b
           /\ a < b => n * a < n * b
           /\ n * (a + b) = n * a + n * b /\ n * (a - b) = n * a - n * b
<1>1. n * a \in Int /\ n * b \in Int /\ n * (b - a) = n * b - n * a
      /\ n * (a - b) = n * a - n * b /\ n * (a + b) = n * a + n * b
  OBVIOUS
<1>2. ASSUME a <= b PROVE n * a <= n * b
  <2>1. b - a \in Nat
    BY <1>2
  <2>2. n * (b - a) \in Nat
    BY <2>1
  <2> QED BY <1>1, <2>2
<1>3. ASSUME a < b PROVE n * a < n * b
  <2>1. PICK d \in Nat : b - a = d + 1
    <3>1. b - a - 1 \in Nat /\ b - a = (b - a - 1) + 1
      BY <1>3
    <3> QED BY <3>1
  <2>2. n * (b - a) = n * d + n /\ n * d \in Nat
    BY <2>1
  <2> QED BY <1>1, <2>2
<1> QED BY <1>1, <1>2, <1>3

\* How many words a line has, where its centre is and how high it is.
LEMMA LineMeasures ==
    ASSUME Photo, NEW r \in Nat, NEW L, WordsOf(L, r)
    PROVE  /\ Visual!Cardinality(L) \in Nat \ {0}
           /\ Visual!Centre(L) \in Int /\ Visual!Height(L) \in Int
           /\ Visual!Cardinality(L) * Top(r) <= Visual!Centre(L)
           /\ Visual!Centre(L) <= Visual!Cardinality(L) * Bottom(r)
           /\ \A m \in Nat : (\A h \in Heights : m <= h) =>
                Visual!Cardinality(L) * m <= Visual!Height(L)
<1> DEFINE n == Cardinality(L)
           f == [w \in L |-> w.y]
           g == [w \in L |-> w.height]
<1>1. IsFiniteSet(L) /\ L \in SUBSET Word
  BY FS_Subset DEF Photo, WordsOf
<1>2. n \in Nat \ {0} /\ Visual!Cardinality(L) = n
  BY <1>1, FS_EmptySet, FS_CardinalityType, OneCardinality DEF WordsOf
<1>3. Top(r) \in Int /\ Bottom(r) \in Int
  BY PaperBounds DEF Top, Bottom
<1>4. f \in [L -> Int] /\ g \in [L -> Int]
  BY <1>1, WordFields
<1>5. \A w \in L : Top(r) <= f[w] /\ f[w] <= Bottom(r)
  BY DEF Photo, WordsOf
<1>6. Visual!Centre(L) = SumFunction(f) /\ Visual!Height(L) = SumFunction(g)
  BY OneVisualSum DEF Visual!Centre, Visual!Height
<1>7. \A w \in L : g[w] \in Nat /\ g[w] \in Heights
  BY <1>1, WordFields
<1> HIDE DEF n, f, g
<1>8. SumFunction(f) \in Int /\ n * Top(r) <= SumFunction(f) /\ SumFunction(f) <= n * Bottom(r)
  BY <1>1, <1>3, <1>4, <1>5, SumBounds DEF n
<1>9. SumFunction(g) \in Int
  BY <1>1, <1>4, SumType
<1>10. ASSUME NEW m \in Nat, \A h \in Heights : m <= h PROVE n * m <= SumFunction(g)
  <2> DEFINE k == [w \in L |-> g[w] - m]
             c == [w \in L |-> m]
  <2>1. k \in [L -> Nat] /\ k \in [L -> Int] /\ c \in [L -> Int]
    BY <1>7, <1>10
  <2>2. [w \in L |-> k[w] + c[w]] = g
    BY <1>4, <1>7
  <2>3. \A w \in L : m <= c[w] /\ c[w] <= m
    OBVIOUS
  <2> HIDE DEF k, c
  <2>4. SumFunction(g) = SumFunction(k) + SumFunction(c)
    BY <1>1, <2>1, <2>2, SumPlus
  <2>5. SumFunction(k) \in Nat
    BY <1>1, <2>1, SumNat
  <2>6. SumFunction(c) \in Int /\ n * m <= SumFunction(c)
    BY <1>1, <2>1, <2>3, SumBounds DEF n
  <2>7. n * m \in Int
    BY <1>2
  <2> QED BY <2>4, <2>5, <2>6, <2>7
<1> QED BY <1>2, <1>6, <1>8, <1>9, <1>10

\* The numbers that Near compares, abstractly.
LEMMA Compared ==
    ASSUME NEW d \in Int, NEW n \in Nat \ {0}, NEW h \in Int, NEW H \in Int
    PROVE  LET rhs == Visual!Greatest(120 * n, 11 * Visual!Least(H, n * h))
           IN  /\ d <= 11 * H /\ d <= 11 * (n * h) => d <= rhs
               /\ d > 120 * n /\ d > 11 * (n * h) => ~(d <= rhs)
<1>1. n * h \in Int
  OBVIOUS
<1> DEFINE p == n * h
<1>2. p \in Int
  BY <1>1
<1> HIDE DEF p
<1>3. LET rhs == Visual!Greatest(120 * n, 11 * Visual!Least(H, p))
      IN  /\ d <= 11 * H /\ d <= 11 * p => d <= rhs
          /\ d > 120 * n /\ d > 11 * p => ~(d <= rhs)
  BY <1>2 DEF Visual!Greatest, Visual!Least
<1> QED BY <1>3 DEF p

\* On a legible photograph a word is near the lines of its own row and no other.
LEMMA NearIsOwn ==
    ASSUME Photo, Visual!Legible, NEW r \in Nat, NEW L, WordsOf(L, r), NEW w \in words
    PROVE  Visual!Near(L, w) <=> w.row = r
<1> DEFINE n == Visual!Cardinality(L)
           s == w.row
           C == Visual!Centre(L)
           H == Visual!Height(L)
           D == Visual!Distance(C, n * w.y)
<1>1. /\ n \in Nat \ {0} /\ C \in Int /\ H \in Int
      /\ n * Top(r) <= C /\ C <= n * Bottom(r)
      /\ \A m \in Nat : (\A h \in Heights : m <= h) => n * m <= H
  BY LineMeasures
<1>2. /\ s \in Nat /\ w.y \in Int /\ w.height \in Heights /\ w.height \in Nat \ {0}
      /\ Top(s) <= w.y /\ w.y <= Bottom(s)
  BY WordFields DEF Photo
<1>3. Pitch \in Nat /\ Tilt \in Nat
  BY PaperBounds
<1>4. /\ Top(r) \in Int /\ Bottom(r) \in Int /\ Top(s) \in Int /\ Bottom(s) \in Int
      /\ Bottom(r) = Top(r) + 2 * Tilt
  BY <1>2, <1>3 DEF Top, Bottom
<1>5. \A h \in Heights : /\ 40 * Tilt <= 11 * h /\ h \in Nat
                         /\ 20 * (Pitch - 2 * Tilt) > 120
                         /\ 20 * (Pitch - 2 * Tilt) > 11 * h
  BY <1>3, PaperBounds DEF Visual!Legible, Visual!Greatest
<1>6. n * Top(s) <= n * w.y /\ n * w.y <= n * Bottom(s) /\ n * w.y \in Int
      /\ n * Top(s) \in Int /\ n * Bottom(s) \in Int /\ n * Top(r) \in Int
      /\ n * Bottom(r) \in Int
  BY <1>1, <1>2, <1>4, Scaled
<1>7. Visual!Near(L, w) <=>
        20 * D <= Visual!Greatest(120 * n, 11 * Visual!Least(H, n * w.height))
  BY DEF Visual!Near
<1> HIDE DEF n, C, H
<1>8. D \in Int /\ (D = C - n * w.y \/ D = n * w.y - C) /\ D >= C - n * w.y /\ D >= n * w.y - C
  BY <1>1, <1>6 DEF Visual!Distance
<1> HIDE DEF D
<1>9. CASE s = r
  <2>1. D <= n * Bottom(r) - n * Top(r)
    BY <1>1, <1>6, <1>8, <1>9
  <2>2. n * Bottom(r) - n * Top(r) = n * (2 * Tilt)
    BY <1>1, <1>3, <1>4, Scaled
  <2>3. n * (2 * Tilt) \in Int /\ 20 * (n * (2 * Tilt)) = n * (40 * Tilt)
    BY <1>1, <1>3
  <2>4. 20 * D <= n * (40 * Tilt) /\ n * (40 * Tilt) \in Int
    BY <1>1, <1>3, <1>8, <2>1, <2>2, <2>3
  <2>5. n * (40 * Tilt) <= 11 * (n * w.height)
    <3>1. n * (40 * Tilt) <= n * (11 * w.height)
      BY <1>1, <1>2, <1>3, <1>5, Scaled
    <3>2. n * (11 * w.height) = 11 * (n * w.height)
      BY <1>1, <1>2
    <3> QED BY <3>1, <3>2
  <2>6. n * (40 * Tilt) <= 11 * H
    <3>1. PICK m \in Heights : \A h \in Heights : m <= h
      BY <1>2, <1>5, LeastElement
    <3>2. n * m <= H /\ m \in Nat
      BY <1>1, <1>5, <3>1
    <3>3. n * (40 * Tilt) <= n * (11 * m)
      BY <1>1, <1>3, <1>5, <3>2, Scaled
    <3>4. n * (11 * m) = 11 * (n * m) /\ n * m \in Int
      BY <1>1, <3>2
    <3> QED BY <1>1, <2>4, <3>2, <3>3, <3>4
  <2>7. n * w.height \in Int
    BY <1>1, <1>2
  <2>8. 20 * D \in Int /\ 20 * D <= 11 * H /\ 20 * D <= 11 * (n * w.height)
    BY <1>1, <1>8, <2>4, <2>5, <2>6, <2>7
  <2>9. 20 * D <= Visual!Greatest(120 * n, 11 * Visual!Least(H, n * w.height))
    <3>1. PICK d \in Int : d = 20 * D
      BY <2>8
    <3>2. PICK h \in Int : h = w.height
      BY <1>2
    <3>3. d <= 11 * H /\ d <= 11 * (n * h)
      BY <2>8, <3>1, <3>2
    <3>4. d <= Visual!Greatest(120 * n, 11 * Visual!Least(H, n * h))
      BY <1>1, <3>3, Compared
    <3> QED BY <3>1, <3>2, <3>4
  <2> QED BY <1>7, <1>9, <2>9
<1>10. CASE s # r
  <2> DEFINE g == Pitch - 2 * Tilt
  <2>1. g \in Int /\ n * g \in Int
    BY <1>1, <1>3
  <2>2. \A i, j \in Nat : i < j => Bottom(i) + g <= Top(j)
    <3>1. ASSUME NEW i \in Nat, NEW j \in Nat, i < j PROVE Bottom(i) + g <= Top(j)
      <4>1. PICK d \in Nat : j = i + 1 + d
        <5>1. j - (i + 1) \in Nat /\ j = i + 1 + (j - (i + 1))
          BY <3>1
        <5> QED BY <5>1
      <4>2. j * Pitch = i * Pitch + Pitch + d * Pitch /\ d * Pitch \in Nat /\ i * Pitch \in Nat
        BY <1>3, <4>1
      <4> QED BY <1>3, <4>2 DEF Top, Bottom
    <3> QED BY <3>1
  <2> HIDE DEF g
  <2>3. n * g <= D
    <3>1. CASE r < s
      <4>1. n * (Bottom(r) + g) <= n * Top(s)
        BY <1>1, <1>2, <1>4, <2>1, <2>2, <3>1, Scaled
      <4>2. n * (Bottom(r) + g) = n * Bottom(r) + n * g
        BY <1>1, <1>4, <2>1, Scaled
      <4> QED BY <1>1, <1>6, <1>8, <2>1, <4>1, <4>2
    <3>2. CASE s < r
      <4>1. n * (Bottom(s) + g) <= n * Top(r)
        BY <1>1, <1>2, <1>4, <2>1, <2>2, <3>2, Scaled
      <4>2. n * (Bottom(s) + g) = n * Bottom(s) + n * g
        BY <1>1, <1>4, <2>1, Scaled
      <4> QED BY <1>1, <1>6, <1>8, <2>1, <4>1, <4>2
    <3> QED BY <1>2, <1>10, <3>1, <3>2
  <2>4. 20 * g > 120 /\ 20 * g > 11 * w.height /\ 20 * g \in Int
    BY <1>2, <1>5, <2>1 DEF g
  <2>5. n * 120 < n * (20 * g) /\ n * (11 * w.height) < n * (20 * g)
    BY <1>1, <1>2, <2>4, Scaled
  <2>6. /\ n * (20 * g) = 20 * (n * g) /\ n * 120 = 120 * n
        /\ n * (11 * w.height) = 11 * (n * w.height) /\ n * w.height \in Int
    BY <1>1, <1>2, <2>1
  <2>7. 20 * (n * g) <= 20 * D
    BY <1>8, <2>1, <2>3
  <2>8. 20 * D \in Int /\ 20 * D > 120 * n /\ 20 * D > 11 * (n * w.height)
    BY <1>1, <1>8, <2>1, <2>5, <2>6, <2>7
  <2>9. ~(20 * D <= Visual!Greatest(120 * n, 11 * Visual!Least(H, n * w.height)))
    <3>1. PICK d \in Int : d = 20 * D
      BY <2>8
    <3>2. PICK h \in Int : h = w.height
      BY <1>2
    <3>3. d > 120 * n /\ d > 11 * (n * h)
      BY <2>8, <3>1, <3>2
    <3>4. ~(d <= Visual!Greatest(120 * n, 11 * Visual!Least(H, n * h)))
      BY <1>1, <3>3, Compared
    <3> QED BY <3>1, <3>2, <3>4
  <2> QED BY <1>7, <1>10, <2>9
<1> QED BY <1>9, <1>10

\* A line of an upper row is above one of a lower row.
LEMMA UpperRow ==
    ASSUME Photo, Visual!Legible, Heights # {}, NEW r \in Nat, NEW s \in Nat, r < s,
           NEW K, WordsOf(K, r), NEW L, WordsOf(L, s)
    PROVE  /\ Visual!Centre(K) * Visual!Cardinality(L) < Visual!Centre(L) * Visual!Cardinality(K)
           /\ ~(Visual!Centre(L) * Visual!Cardinality(K) < Visual!Centre(K) * Visual!Cardinality(L))
<1> DEFINE k == Visual!Cardinality(K)
           l == Visual!Cardinality(L)
           A == Visual!Centre(K)
           B == Visual!Centre(L)
<1>1. /\ k \in Nat \ {0} /\ l \in Nat \ {0} /\ A \in Int /\ B \in Int
      /\ A <= k * Bottom(r) /\ l * Top(s) <= B
  BY LineMeasures
<1>2. Pitch \in Nat /\ Tilt \in Nat
  BY PaperBounds
<1>3. Pitch > 2 * Tilt
  <2>1. PICK h \in Heights : h \in Nat
    BY PaperBounds
  <2>2. 20 * (Pitch - 2 * Tilt) > 120
    BY <1>2, <2>1 DEF Visual!Legible, Visual!Greatest
  <2> QED BY <1>2, <2>2
<1>4. Bottom(r) \in Int /\ Top(s) \in Int /\ Bottom(r) < Top(s)
  <2>1. PICK d \in Nat : s = r + 1 + d
    <3>1. s - (r + 1) \in Nat /\ s = r + 1 + (s - (r + 1))
      OBVIOUS
    <3> QED BY <3>1
  <2>2. s * Pitch = r * Pitch + Pitch + d * Pitch /\ d * Pitch \in Nat /\ r * Pitch \in Nat
    BY <1>2, <2>1
  <2> QED BY <1>2, <1>3, <2>2 DEF Top, Bottom
<1> HIDE DEF k, l, A, B
<1> DEFINE P == k * l
<1>5. P \in Nat \ {0} /\ A * l \in Int /\ B * k \in Int
  BY <1>1
<1>6. A * l <= P * Bottom(r)
  <2>1. k * Bottom(r) \in Int
    BY <1>1, <1>4
  <2>2. l * A <= l * (k * Bottom(r))
    BY <1>1, <2>1, Scaled
  <2> QED BY <1>1, <1>4, <2>2
<1>7. P * Top(s) <= B * k
  <2>1. l * Top(s) \in Int
    BY <1>1, <1>4
  <2>2. k * (l * Top(s)) <= k * B
    BY <1>1, <2>1, Scaled
  <2> QED BY <1>1, <1>4, <2>2
<1>8. P * Bottom(r) < P * Top(s) /\ P * Bottom(r) \in Int /\ P * Top(s) \in Int
  <2> HIDE DEF P
  <2> QED BY <1>4, <1>5, Scaled
<1>9. A * l < B * k
  <2> HIDE DEF P
  <2> QED BY <1>5, <1>6, <1>7, <1>8
<1> QED BY <1>5, <1>9 DEF k, l, A, B

\* The lines so far: each has words of one row, all of the row that were added.
Together ==
    /\ left \in SUBSET words /\ grid \in Seq(SUBSET words)
    /\ \A k \in 1..Len(grid) : grid[k] # {}
    /\ \A w \in words : w \in left \/ \E k \in 1..Len(grid) : w \in grid[k]
    /\ Visual!Legible =>
         \A j, k \in 1..Len(grid) : \A v \in grid[j], w \in grid[k] : v.row = w.row <=> j = k

\* A line is of the row of any of its words.
LEMMA LineOfRow ==
    ASSUME Photo, Together, Visual!Legible, NEW k \in 1..Len(grid), NEW w \in grid[k]
    PROVE  WordsOf(grid[k], w.row) /\ w \in words /\ w.row \in Nat
<1>1. grid[k] \in SUBSET words
  BY ElementOfSeq DEF Together
<1>2. w \in words /\ w.row \in Nat
  BY <1>1, WordFields DEF Photo
<1>3. \A v \in grid[k] : v.row = w.row
  BY DEF Together
<1> QED BY <1>1, <1>2, <1>3 DEF WordsOf

\* A word that is near no line begins the line of its row.
LEMMA NewLine ==
    ASSUME Photo, Together, NEW w \in left, UNCHANGED words,
           left' = left \ {w}, grid' = Append(grid, {w}),
           \A k \in 1..Len(grid) : ~Visual!Near(grid[k], w)
    PROVE  Together'
<1> DEFINE n == Len(grid)
<1>1. /\ left \in SUBSET words /\ grid \in Seq(SUBSET words) /\ w \in words
      /\ {w} \in SUBSET words
  BY DEF Together
<1>2. /\ grid' \in Seq(SUBSET words) /\ n \in Nat /\ Len(grid') = n + 1
      /\ \A k \in 1..n : grid'[k] = grid[k]
      /\ grid'[n + 1] = {w}
  BY <1>1, AppendProperties, LenProperties
<1> HIDE DEF n
<1>3. \A k \in 1..n + 1 : k \in 1..n \/ k = n + 1
  BY <1>2
<1>4. \A k \in 1..n : k \in 1..n + 1
  BY <1>2
<1>5. n + 1 \in 1..n + 1
  BY <1>2
<1>6. \A k \in 1..n : grid[k] # {}
  BY DEF Together, n
<1>7. \A k \in 1..Len(grid') : grid'[k] # {}
  BY <1>2, <1>3, <1>6
<1>8. ASSUME NEW v \in words PROVE v \in left \ {w} \/ \E k \in 1..n + 1 : v \in grid'[k]
  <2>1. CASE v = w
    BY <1>2, <1>5, <2>1
  <2>2. CASE v # w
    <3>1. v \in left \/ \E k \in 1..n : v \in grid[k]
      BY DEF Together, n
    <3> QED BY <1>2, <1>4, <2>2, <3>1
  <2> QED BY <2>1, <2>2
<1>9. ASSUME Visual!Legible, NEW j \in 1..n + 1, NEW k \in 1..n + 1,
             NEW u \in grid'[j], NEW v \in grid'[k]
      PROVE  u.row = v.row <=> j = k
  <2>1. \A i \in 1..n : \A x \in grid[i] : x.row # w.row /\ i # n + 1
    <3>1. ASSUME NEW i \in 1..n, NEW x \in grid[i] PROVE x.row # w.row /\ i # n + 1
      <4>1. WordsOf(grid[i], x.row) /\ x.row \in Nat
        BY <1>9, LineOfRow DEF n
      <4>2. ~Visual!Near(grid[i], w)
        BY DEF n
      <4>3. x.row # w.row
        BY <1>1, <1>9, <4>1, <4>2, NearIsOwn
      <4> QED BY <1>2, <4>3
    <3> QED BY <3>1
  <2>2. \A i, m \in 1..n : \A x \in grid[i], y \in grid[m] : x.row = y.row <=> i = m
    BY <1>9 DEF Together, n
  <2> QED BY <1>2, <1>3, <1>9, <2>1, <2>2
<1>10. Visual!Legible' = Visual!Legible
  BY DEF Visual!Legible
<1> QED BY <1>1, <1>2, <1>7, <1>8, <1>9, <1>10 DEF Together

\* A word that is near a line belongs to the row of that line.
LEMMA SameLine ==
    ASSUME Photo, Together, NEW w \in left, UNCHANGED words, left' = left \ {w},
           NEW first \in 1..Len(grid), Visual!Near(grid[first], w),
           grid' = [grid EXCEPT ![first] = @ \cup {w}]
    PROVE  Together'
<1> DEFINE n == Len(grid)
<1>1. /\ left \in SUBSET words /\ grid \in Seq(SUBSET words) /\ w \in words
      /\ grid[first] \in SUBSET words
  BY ElementOfSeq DEF Together
<1>2. grid[first] \cup {w} \in SUBSET words
  BY <1>1
<1>3. /\ grid' \in Seq(SUBSET words) /\ n \in Nat /\ Len(grid') = n /\ first \in 1..n
      /\ \A k \in 1..n : grid'[k] = IF k = first THEN grid[first] \cup {w} ELSE grid[k]
  BY <1>1, <1>2, ExceptSeq, LenProperties
<1>4. \A k \in 1..n : grid[k] # {}
  BY DEF Together
<1> HIDE DEF n
<1>5. \A k \in 1..n : grid'[k] # {}
  BY <1>3, <1>4
<1>6. ASSUME NEW v \in words PROVE v \in left \ {w} \/ \E k \in 1..n : v \in grid'[k]
  <2>1. v \in left \/ \E k \in 1..n : v \in grid[k]
    BY DEF Together, n
  <2> QED BY <1>3, <2>1
<1>7. ASSUME Visual!Legible, NEW j \in 1..n, NEW k \in 1..n,
             NEW u \in grid'[j], NEW v \in grid'[k]
      PROVE  u.row = v.row <=> j = k
  <2>1. PICK x \in grid[first] : TRUE
    BY <1>3, <1>4
  <2>2. WordsOf(grid[first], x.row) /\ x.row \in Nat
    BY <1>7, LineOfRow
  <2>3. x.row = w.row
    BY <1>1, <1>7, <2>2, NearIsOwn
  <2>4. \A i, m \in 1..n : \A y \in grid[i], z \in grid[m] : y.row = z.row <=> i = m
    BY <1>7 DEF Together, n
  <2>5. \A i \in 1..n : \A y \in grid'[i] : y \in grid[i] \/ (i = first /\ y = w)
    BY <1>3
  <2>6. \A i \in 1..n : \A y \in grid'[i] : \E z \in grid[i] : z.row = y.row
    BY <2>1, <2>3, <2>5
  <2> QED BY <1>7, <2>4, <2>6
<1>8. Visual!Legible' = Visual!Legible
  BY DEF Visual!Legible
<1> QED BY <1>1, <1>3, <1>5, <1>6, <1>7, <1>8 DEF Together

LEMMA WordAdded ==
    ASSUME Photo, Together, Visual!AddWord
    PROVE  Photo' /\ Together'
<1>1. PICK w \in left :
        LET near == {k \in DOMAIN grid : Visual!Near(grid[k], w)}
            first == CHOOSE k \in near : \A j \in near : k <= j
        IN  /\ grid' = IF near = {} THEN Append(grid, {w})
                       ELSE [grid EXCEPT ![first] = @ \cup {w}]
            /\ left' = left \ {w}
            /\ UNCHANGED words
  BY DEF Visual!AddWord
<1>2. Photo'
  BY <1>1 DEF Photo
<1> DEFINE near == {k \in DOMAIN grid : Visual!Near(grid[k], w)}
           first == CHOOSE k \in near : \A j \in near : k <= j
<1>3. DOMAIN grid = 1..Len(grid) /\ Len(grid) \in Nat
  BY LenProperties DEF Together
<1>4. /\ \A k : k \in near <=> k \in 1..Len(grid) /\ Visual!Near(grid[k], w)
      /\ near \in SUBSET Nat
  BY <1>3
<1>5. near # {} => first \in near
  <2> HIDE DEF near
  <2>1. ASSUME near # {} PROVE first \in near
    <3>1. \E k \in near : \A j \in near : k <= j
      BY <1>4, <2>1, LeastElement
    <3> QED BY <3>1
  <2> QED BY <2>1
<1>6. /\ grid' = IF near = {} THEN Append(grid, {w}) ELSE [grid EXCEPT ![first] = @ \cup {w}]
      /\ left' = left \ {w} /\ UNCHANGED words
  BY <1>1
<1> HIDE DEF near, first
<1>7. CASE near = {}
  <2>1. grid' = Append(grid, {w}) /\ \A k \in 1..Len(grid) : ~Visual!Near(grid[k], w)
    BY <1>4, <1>6, <1>7
  <2>2. Together'
    BY <1>6, <2>1, NewLine
  <2> QED BY <1>2, <2>2
<1>8. CASE near # {}
  <2>1. /\ first \in 1..Len(grid) /\ Visual!Near(grid[first], w)
        /\ grid' = [grid EXCEPT ![first] = @ \cup {w}]
    BY <1>4, <1>5, <1>6, <1>8
  <2>2. Together'
    BY <1>6, <2>1, SameLine
  <2> QED BY <1>2, <2>2
<1> QED BY <1>7, <1>8

\* As many as the numbers they stand for.
LEMMA Matched ==
    ASSUME NEW S, NEW m \in Nat, NEW f \in [S -> 1..m],
           \A i, j \in S : f[i] = f[j] => i = j,
           \A v \in 1..m : \E i \in S : f[i] = v
    PROVE  Cardinality(S) = m
<1>1. IsFiniteSet(1..m) /\ Cardinality(1..m) = m
  BY FS_Interval
<1>2. f \in Injection(S, 1..m) /\ f \in Surjection(S, 1..m)
  BY DEF Injection, Surjection, IsInjective
<1> QED BY <1>1, <1>2, FS_Injection

\* Words of one row are in the order of their places.
LEMMA PlaceInLine ==
    ASSUME Photo, Together, Visual!Legible, left = {}, NEW k \in 1..Len(grid), NEW w \in grid[k]
    PROVE  Visual!WordPlace(k, w) = w.x
<1> DEFINE S == {v \in grid[k] : Visual!LeftOf(v, w)}
           f == [v \in S |-> v.x]
<1>1. WordsOf(grid[k], w.row) /\ w \in words
  BY LineOfRow
<1>2. \A v \in grid[k] : v \in words /\ v \in Word /\ v.row = w.row
  BY <1>1 DEF WordsOf, Photo
<1>3. \A u, v \in grid[k] : u.x = v.x => u = v
  BY <1>2 DEF Photo
<1>4. \A v \in grid[k] : v.x \in 1..Columns /\ v.x \in Nat /\ v.y \in Int
  BY <1>2, WordFields
<1>5. \A v : v \in S <=> v \in grid[k] /\ v.x < w.x
  BY <1>3, <1>4 DEF Visual!LeftOf, Visual!Higher
<1>6. w.x \in Nat /\ w.x \in 1..Columns /\ w.x - 1 \in Nat /\ Columns \in Nat
  BY <1>4, PaperBounds
<1> HIDE DEF S
<1>7. f \in [S -> 1..w.x - 1]
  BY <1>4, <1>5, <1>6
<1>8. \A i, j \in S : f[i] = f[j] => i = j
  BY <1>3, <1>5
<1>9. ASSUME NEW c \in 1..w.x - 1 PROVE \E v \in S : f[v] = c
  <2>1. c \in 1..Columns /\ c < w.x
    BY <1>6
  <2>2. PICK v \in words : v.row = w.row /\ v.x = c
    BY <1>1, <2>1, WordFields DEF Photo
  <2>3. PICK j \in 1..Len(grid) : v \in grid[j]
    BY DEF Together
  <2>4. j = k
    BY <2>2, <2>3 DEF Together
  <2>5. v \in S
    BY <1>5, <2>1, <2>2, <2>3, <2>4
  <2> QED BY <2>2, <2>5
<1> HIDE DEF f
<1>10. Cardinality(S) = w.x - 1
  BY <1>6, <1>7, <1>8, <1>9, Matched
<1>11. Visual!WordPlace(k, w) = Cardinality(S) + 1
  BY OneCardinality DEF Visual!WordPlace, S
<1> QED BY <1>6, <1>10, <1>11

\* Lines are in the order of the rows.
LEMMA PlaceOfLine ==
    ASSUME Photo, Together, Visual!Legible, left = {}, NEW k \in 1..Len(grid), NEW w \in grid[k]
    PROVE  Visual!LinePlace(k) = w.row
<1> DEFINE N == Len(grid)
           row == [j \in 1..N |-> (CHOOSE v \in grid[j] : TRUE).row]
           S == {j \in DOMAIN grid : Visual!Above(j, k)}
<1>1. DOMAIN grid = 1..N /\ N \in Nat
  BY LenProperties DEF Together
<1>2. \A j \in 1..N : (CHOOSE v \in grid[j] : TRUE) \in grid[j]
  BY DEF Together
<1>3. \A j \in 1..N : \A v \in grid[j] : row[j] = v.row
  BY <1>2 DEF Together
<1>4. \A j \in 1..N : row[j] \in 1..PaperRows /\ row[j] \in Nat /\ WordsOf(grid[j], row[j])
  <2>1. ASSUME NEW j \in 1..N
        PROVE  row[j] \in 1..PaperRows /\ row[j] \in Nat /\ WordsOf(grid[j], row[j])
    <3>1. PICK v \in grid[j] : row[j] = v.row
      BY <1>2
    <3>2. WordsOf(grid[j], v.row) /\ v \in words
      BY LineOfRow
    <3>3. v.row \in 1..PaperRows /\ v.row \in Nat
      BY <3>2, WordFields DEF Photo
    <3> QED BY <3>1, <3>2, <3>3
  <2> QED BY <2>1
<1> HIDE DEF row
<1>5. \A i, j \in 1..N : row[i] = row[j] => i = j
  <2>1. ASSUME NEW i \in 1..N, NEW j \in 1..N, row[i] = row[j] PROVE i = j
    <3>1. PICK u \in grid[i] : u.row = row[i]
      BY <1>2, <1>3
    <3>2. PICK v \in grid[j] : v.row = row[j]
      BY <1>2, <1>3
    <3>3. u.row = v.row
      BY <2>1, <3>1, <3>2
    <3> QED BY <3>3 DEF Together
  <2> QED BY <2>1
<1> HIDE DEF N
<1>6. Heights # {}
  BY WordFields, LineOfRow DEF Photo
<1>7. \A i, j \in 1..N : row[i] < row[j] => Visual!Upper(i, j) /\ ~Visual!Upper(j, i)
  BY <1>4, <1>6, UpperRow DEF Visual!Upper
<1>8. \A j \in 1..N : ~Visual!Upper(j, j)
  <2>1. ASSUME NEW j \in 1..N PROVE ~Visual!Upper(j, j)
    <3>1. Visual!Centre(grid[j]) \in Int /\ Visual!Cardinality(grid[j]) \in Nat
      BY <1>4, LineMeasures
    <3>2. Visual!Centre(grid[j]) * Visual!Cardinality(grid[j]) \in Int
      BY <3>1
    <3> QED BY <3>2 DEF Visual!Upper
  <2> QED BY <2>1
<1>9. k \in 1..N /\ row[k] = w.row /\ row[k] \in Nat
  BY <1>3, <1>4 DEF N
<1>10. \A j : j \in S <=> j \in 1..N /\ row[j] < row[k]
  <2>1. ASSUME NEW j \in 1..N PROVE Visual!Above(j, k) <=> row[j] < row[k]
    <3>1. row[j] \in Nat /\ (row[j] < row[k] \/ row[k] < row[j] \/ j = k)
      BY <1>4, <1>5, <1>9
    <3> QED BY <1>1, <1>7, <1>8, <1>9, <3>1 DEF Visual!Above
  <2> QED BY <1>1, <2>1
<1> HIDE DEF S
<1> DEFINE f == [j \in S |-> row[j]]
<1>11. PaperRows \in Nat /\ row[k] - 1 \in Nat /\ row[k] <= PaperRows
  BY <1>4, <1>9, PaperBounds
<1>12. f \in [S -> 1..row[k] - 1]
  BY <1>4, <1>9, <1>10, <1>11
<1>13. \A i, j \in S : f[i] = f[j] => i = j
  BY <1>5, <1>10
<1>14. ASSUME NEW r \in 1..row[k] - 1 PROVE \E j \in S : f[j] = r
  <2>1. r \in 1..PaperRows /\ r < row[k]
    BY <1>9, <1>11
  <2>2. 1 \in 1..Columns
    BY PaperBounds
  <2>3. PICK v \in words : v.row = r
    BY <2>1, <2>2 DEF Photo
  <2>4. PICK j \in 1..N : v \in grid[j]
    BY DEF Together, N
  <2>5. row[j] = r
    BY <1>3, <2>3, <2>4
  <2>6. j \in S
    BY <1>10, <2>1, <2>4, <2>5
  <2> QED BY <2>5, <2>6
<1> HIDE DEF f
<1>15. Cardinality(S) = row[k] - 1
  BY <1>11, <1>12, <1>13, <1>14, Matched
<1>16. Visual!LinePlace(k) = Cardinality(S) + 1
  BY OneCardinality DEF Visual!LinePlace, S
<1> QED BY <1>9, <1>15, <1>16

LEMMA AllRecovered ==
    ASSUME Photo, Together
    PROVE  Visual!RowsRecovered
<1> SUFFICES ASSUME left = {}, Visual!Legible
             PROVE  Visual!Lines = {<<w.row, w.x, w>> : w \in words}
  BY DEF Visual!RowsRecovered
<1>1. DOMAIN grid = 1..Len(grid)
  BY LenProperties DEF Together
<1>2. \A k \in 1..Len(grid) : \A w \in grid[k] :
        /\ <<Visual!LinePlace(k), Visual!WordPlace(k, w), w>> = <<w.row, w.x, w>>
        /\ w \in words
  BY PlaceOfLine, PlaceInLine, LineOfRow
<1>3. \A w \in words : \E k \in 1..Len(grid) : w \in grid[k]
  BY DEF Together
<1>4. ASSUME NEW t \in Visual!Lines PROVE t \in {<<w.row, w.x, w>> : w \in words}
  <2>1. PICK k \in 1..Len(grid) :
          \E w \in grid[k] : t = <<Visual!LinePlace(k), Visual!WordPlace(k, w), w>>
    BY <1>1, <1>4 DEF Visual!Lines
  <2>2. PICK w \in grid[k] : t = <<Visual!LinePlace(k), Visual!WordPlace(k, w), w>>
    BY <2>1
  <2> QED BY <1>2, <2>2
<1>5. ASSUME NEW w \in words PROVE <<w.row, w.x, w>> \in Visual!Lines
  <2>1. PICK k \in 1..Len(grid) : w \in grid[k]
    BY <1>3
  <2>2. <<Visual!LinePlace(k), Visual!WordPlace(k, w), w>> = <<w.row, w.x, w>>
    BY <1>2, <2>1
  <2>3. <<Visual!LinePlace(k), Visual!WordPlace(k, w), w>> \in Visual!Lines
    BY <1>1, <2>1 DEF Visual!Lines
  <2> QED BY <2>2, <2>3
<1> QED BY <1>4, <1>5

\* A photograph is taken of every place of the paper.
LEMMA PhotoTaken ==
    ASSUME Visual!Init
    PROVE  Photo /\ Together
<1> DEFINE places == (1..PaperRows) \X (1..Columns)
<1>1. PICK off \in [places -> Offsets], height \in [places -> Heights] :
        words = {Visual!Seen(p, off, height) : p \in places}
  BY DEF Visual!Init, Visual!Places
<1> DEFINE f == [p \in places |-> Visual!Seen(p, off, height)]
<1>2. left = words /\ grid = <<>>
  BY DEF Visual!Init
<1>3. \A w \in words : \E p \in places : w = f[p]
  BY <1>1
<1>4. \A p \in places : f[p] \in words
  BY <1>1
<1>5. ASSUME NEW p \in places
      PROVE  /\ f[p].row = p[1] /\ f[p].x = p[2] /\ f[p].height = height[p]
             /\ f[p].y = (p[1] * Pitch) + off[p]
             /\ p[1] \in 1..PaperRows /\ p[2] \in 1..Columns /\ height[p] \in Heights
                  /\ f[p].y \in Int => f[p] \in Word
  <2>1. f[p] = [row |-> p[1], x |-> p[2], y |-> (p[1] * Pitch) + off[p],
                height |-> height[p]]
    BY DEF Visual!Seen
  <2> HIDE DEF f
  <2>2. /\ f[p].row = p[1] /\ f[p].x = p[2] /\ f[p].height = height[p]
        /\ f[p].y = (p[1] * Pitch) + off[p]
    BY <2>1
  <2>3. (p[1] * Pitch) + off[p] \in Int /\ p[1] \in 1..PaperRows /\ p[2] \in 1..Columns
          /\ height[p] \in Heights => f[p] \in Word
    BY <2>1 DEF Word
  <2> QED BY <2>2, <2>3
<1>6. \A p \in places : p = <<p[1], p[2]>> /\ p[1] \in 1..PaperRows /\ p[2] \in 1..Columns
  OBVIOUS
<1>7. \A r \in 1..PaperRows, c \in 1..Columns :
        <<r, c>> \in places /\ <<r, c>>[1] = r /\ <<r, c>>[2] = c
  OBVIOUS
<1> HIDE DEF f, places
<1>8. IsFiniteSet(words)
  <2>1. IsFiniteSet(places)
    <3>1. PaperRows \in Int /\ Columns \in Int
      BY PaperBounds
    <3>2. IsFiniteSet(1..PaperRows) /\ IsFiniteSet(1..Columns)
      BY <3>1, FS_Interval
    <3> QED BY <3>2, FS_Product DEF places
  <2>2. f \in Surjection(places, words)
    <3>1. f \in [places -> words]
      <4>1. f = [p \in places |-> f[p]]
        BY DEF f
      <4> QED BY <1>4, <4>1
    <3> QED BY <1>3, <3>1 DEF Surjection
  <2> QED BY <2>1, <2>2, FS_Surjection
<1>9. ASSUME NEW p \in places
      PROVE  /\ f[p] \in Word /\ Top(f[p].row) <= f[p].y /\ f[p].y <= Bottom(f[p].row)
  <2>1. /\ p[1] \in 1..PaperRows /\ p[2] \in 1..Columns /\ p[1] \in Nat /\ Pitch \in Nat
        /\ height[p] \in Heights /\ Tilt \in Nat
    BY <1>6, PaperBounds
  <2>2. off[p] \in Int /\ -Tilt <= off[p] /\ off[p] <= Tilt
    BY PaperBounds
  <2>3. p[1] * Pitch \in Int
    BY <2>1
  <2>4. f[p].y \in Int /\ f[p].row = p[1] /\ f[p].x = p[2] /\ f[p].height = height[p]
    BY <1>5, <2>2, <2>3
  <2>5. f[p] \in Word
    BY <1>5, <2>1, <2>4 DEF Word
  <2>6. Top(p[1]) <= f[p].y /\ f[p].y <= Bottom(p[1])
    BY <1>5, <2>1, <2>2, <2>3 DEF Top, Bottom
  <2> QED BY <2>4, <2>5, <2>6
<1>10. words \in SUBSET Word /\ \A w \in words : Top(w.row) <= w.y /\ w.y <= Bottom(w.row)
  BY <1>3, <1>9
<1>11. \A v, w \in words : v.row = w.row /\ v.x = w.x => v = w
  BY <1>3, <1>5, <1>6
<1>12. ASSUME NEW r \in 1..PaperRows, NEW c \in 1..Columns
       PROVE  \E w \in words : w.row = r /\ w.x = c
  <2>1. PICK p \in places : p[1] = r /\ p[2] = c
    BY <1>7
  <2>2. f[p] \in words /\ f[p].row = r /\ f[p].x = c
    BY <1>4, <1>5, <2>1
  <2> QED BY <2>2
<1>13. Photo
  BY <1>8, <1>10, <1>11, <1>12 DEF Photo
<1>14. grid \in Seq(SUBSET words) /\ Len(grid) = 0
  BY <1>2, EmptySeq
<1>15. \A k : k \notin 1..0
  OBVIOUS
<1>16. Together
  BY <1>2, <1>14, <1>15 DEF Together
<1> QED BY <1>13, <1>16

LEMMA VisualStep ==
    ASSUME Photo, Together, [Visual!Next]_VisualVars
    PROVE  Photo' /\ Together'
<1>1. CASE Visual!AddWord
  BY <1>1, WordAdded
<1>2. CASE UNCHANGED VisualVars
  BY <1>2 DEF VisualVars, Photo, Together, WordsOf, Visual!Legible
<1> QED BY <1>1, <1>2 DEF Visual!Next

\* The lines of a receipt photographed legibly are those of the paper, each word
\* at its place (extractVisualLines).
THEOREM RowsAreRecovered == Spec => []RowsRecovered
<1> DEFINE Inv == part = "visual" => Photo /\ Together
<1>1. Init => Inv
  BY FirstPart, PhotoTaken
<1>2. Inv /\ [Next]_vars => Inv'
  BY OnePart, VisualStep
<1>3. Inv => RowsRecovered
  BY AllRecovered DEF RowsRecovered
<1> QED BY <1>1, <1>2, <1>3, PTL DEF Spec
-----------------------------------------------------------------------------
(* Only members write in the chat.                                         *)

Owned == \A h \in Handlers : chatPc[h] # "idle" => who[h] \in Members
ChatInv == Chat!TypeOK /\ Owned /\ Chat!OnlyMembersWrite

LEMMA ChatStarts == Chat!Init => ChatInv
BY DEF Chat!Init, ChatInv, Chat!TypeOK, Owned, Chat!OnlyMembersWrite, Chat!Writing,
       Chat!Places

\* A request that starts: a message is let in for a member only.
LEMMA ChatStart ==
    ASSUME ChatInv, NEW h \in Handlers, NEW u \in Members, NEW place \in Chat!Places,
           Chat!Start(h, u, place), u \in approved
    PROVE  ChatInv'
<1>1. chatPc[h] = "idle" /\ UNCHANGED <<approved, room, caught>>
  BY DEF Chat!Start
<1>2. /\ chatPc'[h] = place /\ who'[h] = u
      /\ \A g \in Handlers \ {h} : chatPc'[g] = chatPc[g] /\ who'[g] = who[g]
      /\ chatPc' \in [Handlers -> Chat!Places] /\ who' \in [Handlers -> Members \cup {None}]
  BY DEF Chat!Start, ChatInv, Chat!TypeOK
<1>3. h \notin Chat!Writing /\ Chat!Writing \subseteq Chat!Writing'
  BY <1>1, <1>2 DEF Chat!Writing
<1>4. Chat!TypeOK'
  BY <1>1, <1>2, <1>3 DEF ChatInv, Chat!TypeOK
<1>5. \A g \in Chat!Writing' : g # h => g \in Chat!Writing
  BY <1>2 DEF Chat!Writing
<1>6. Chat!OnlyMembersWrite'
  BY <1>1, <1>2, <1>5 DEF ChatInv, Chat!OnlyMembersWrite, Chat!Writing
<1>7. Owned'
  BY <1>2 DEF ChatInv, Owned
<1> QED BY <1>4, <1>6, <1>7 DEF ChatInv

\* A request that goes on without a message to store, or ends.
LEMMA ChatGoes ==
    ASSUME ChatInv, NEW h \in Handlers, approved' = approved, room' \subseteq Members,
           chatPc' \in [Handlers -> Chat!Places], who' \in [Handlers -> Members \cup {None}],
           chatPc'[h] \notin {"saving", "posting"}, caught' = caught \ {h},
           chatPc'[h] = "idle" \/ who'[h] \in Members,
           \A g \in Handlers \ {h} : chatPc'[g] = chatPc[g] /\ who'[g] = who[g]
    PROVE  ChatInv'
<1>1. h \notin Chat!Writing' /\ Chat!Writing \ {h} = Chat!Writing' \ {h}
  BY DEF Chat!Writing
<1>2. Chat!TypeOK'
  BY <1>1 DEF ChatInv, Chat!TypeOK
<1>3. Chat!OnlyMembersWrite'
  BY <1>1 DEF ChatInv, Chat!OnlyMembersWrite, Chat!Writing
<1>4. Owned'
  BY DEF ChatInv, Owned
<1> QED BY <1>2, <1>3, <1>4 DEF ChatInv

LEMMA ChatStep == ChatInv /\ [Chat!Next]_ChatVars => ChatInv'
<1> SUFFICES ASSUME ChatInv, [Chat!Next]_ChatVars
             PROVE  ChatInv'
  OBVIOUS
<1>0. Chat!TypeOK /\ Owned
  BY DEF ChatInv
<1>1. CASE UNCHANGED ChatVars
  BY <1>1 DEF ChatVars, ChatInv, Chat!TypeOK, Owned, Chat!OnlyMembersWrite, Chat!Writing
<1>2. ASSUME NEW h \in Handlers, NEW u \in Members,
             Chat!JoinRoom(h, u) \/ Chat!Message(h, u) \/ Chat!Post(h, u)
      PROVE  ChatInv'
  <2>1. PICK place \in Chat!Places : Chat!Start(h, u, place)
    BY <1>2 DEF Chat!JoinRoom, Chat!Message, Chat!Post, Chat!Places
  <2>2. u \in approved
    BY <1>2 DEF Chat!JoinRoom, Chat!Message, Chat!Post
  <2> QED BY <2>1, <2>2, ChatStart
<1>3. ASSUME NEW h \in Handlers, Chat!SaveMessage(h)
      PROVE  ChatInv'
  <2>1. /\ chatPc' = [chatPc EXCEPT ![h] = "emitting"] /\ caught' = caught \ {h}
        /\ UNCHANGED <<approved, room, who>> /\ chatPc[h] = "saving"
    BY <1>3 DEF Chat!SaveMessage
  <2> QED BY <1>0, <2>1, ChatGoes DEF Chat!TypeOK, Chat!Places, Owned
<1>4. ASSUME NEW h \in Handlers,
             Chat!Enter(h) \/ Chat!EmitMessage(h) \/ Chat!SavePost(h) \/ Chat!Fail(h)
      PROVE  ChatInv'
  <2>1. Chat!Finish(h) /\ approved' = approved
    BY <1>4 DEF Chat!Enter, Chat!EmitMessage, Chat!SavePost, Chat!Fail
  <2>2. room' \subseteq Members
    <3>1. CASE room' = room
      BY <1>0, <3>1 DEF Chat!TypeOK
    <3>2. CASE Chat!Enter(h)
      <4>1. chatPc[h] = "joining" /\ room' = room \cup {who[h]}
        BY <3>2 DEF Chat!Enter
      <4> QED BY <1>0, <1>4, <4>1 DEF Chat!TypeOK, Owned
    <3> QED BY <1>4, <3>1, <3>2 DEF Chat!EmitMessage, Chat!SavePost, Chat!Fail
  <2> QED BY <1>0, <2>1, <2>2, ChatGoes DEF Chat!Finish, Chat!TypeOK, Chat!Places
<1>5. ASSUME NEW u \in Members, Chat!Disconnect(u) \/ Chat!Approve(u)
      PROVE  ChatInv'
  <2>1. /\ UNCHANGED <<chatPc, who, caught>>
        /\ room' \subseteq room /\ approved \subseteq approved' /\ approved' \subseteq Members
    BY <1>0, <1>5 DEF Chat!Disconnect, Chat!Approve, Chat!TypeOK
  <2>2. Chat!Writing' = Chat!Writing
    BY <2>1 DEF Chat!Writing
  <2> QED BY <2>1, <2>2 DEF ChatInv, Chat!TypeOK, Owned, Chat!OnlyMembersWrite
<1>6. ASSUME NEW u \in Members, Chat!Remove(u)
      PROVE  ChatInv'
  <2>1. /\ UNCHANGED <<room, chatPc, who>> /\ approved' = approved \ {u}
        /\ caught' = caught \cup {h \in Chat!Writing : who[h] = u}
    BY <1>6 DEF Chat!Remove
  <2>2. Chat!Writing' = Chat!Writing
    BY <2>1 DEF Chat!Writing
  <2> QED BY <2>1, <2>2 DEF ChatInv, Chat!TypeOK, Owned, Chat!OnlyMembersWrite
<1> QED BY <1>1, <1>2, <1>3, <1>4, <1>5, <1>6 DEF Chat!Next

\* However approvals, removals and messages interleave, a message about to be
\* stored is a member's or was let in before its sender was removed, though the
\* sockets of removed members stay in the room (handleMessage,
\* ChatMessageService.create).
THEOREM RemovedFallSilent == Spec => []OnlyMembersWrite
<1> DEFINE Inv == part = "chat" => ChatInv
<1>1. Init => Inv
  BY FirstPart, ChatStarts
<1>2. Inv /\ [Next]_vars => Inv'
  BY OnePart, ChatStep
<1>3. Inv => OnlyMembersWrite
  BY DEF ChatInv, OnlyMembersWrite
<1> QED BY <1>1, <1>2, <1>3, PTL DEF Spec
-----------------------------------------------------------------------------
(* Registration and subscriptions have modules of proofs of their own.  Reg *)
(* and RegFacts, Push and PushFacts instantiate the same definitions.      *)

RegFacts == INSTANCE RegistrationProofs WITH pc <- regPc, op <- regOp, seen <- regSeen
PushFacts == INSTANCE PushSubscriptionsProofs WITH
    Users <- Members, MaxRows <- MaxDevices, pc <- pushPc, req <- pushReq, seen <- pushSeen

LEMMA SameCardinality ==
    \A S : /\ Reg!Cardinality(S) = RegFacts!Cardinality(S)
           /\ Push!Cardinality(S) = PushFacts!Cardinality(S)
BY DEF Reg!Cardinality, RegFacts!Cardinality, Push!Cardinality, PushFacts!Cardinality

LEMMA SameRegistration ==
    /\ RegFacts!RegistrationBounds
    /\ Reg!Init => RegFacts!Init
    /\ [Reg!Next]_RegVars => [RegFacts!Next]_(RegFacts!vars)
<1>1. RegFacts!RegistrationBounds
  BY ServicesBounds DEF Reg!RegistrationBounds, RegFacts!RegistrationBounds
<1>2. Reg!Init => RegFacts!Init
  BY DEF Reg!Init, RegFacts!Init, Reg!Nothing, RegFacts!Nothing
<1>3. Reg!Next => RegFacts!Next
  BY DEF Reg!Next, Reg!Step, Reg!Tick, Reg!Send, Reg!SendToken, Reg!CheckCooldown,
         Reg!SaveCode, Reg!Mail, Reg!Verify, Reg!CompareCode, Reg!WriteCode, Reg!Signup,
         Reg!CreateLocal, Reg!FindBySns, Reg!FindByEmail, Reg!Link, Reg!InsertSocial,
         Reg!Start, Reg!Goto, Reg!Finish, Reg!Running, Reg!AddRow, Reg!NewToken,
         Reg!Usable, Reg!Open, Reg!Latest, Reg!Nothing, Reg!Addresses,
         Reg!SelectLastInSeq, Reg!Max, Reg!Fail,
         RegFacts!Next, RegFacts!Step, RegFacts!Tick, RegFacts!Send, RegFacts!SendToken,
         RegFacts!CheckCooldown, RegFacts!SaveCode, RegFacts!Mail, RegFacts!Verify,
         RegFacts!CompareCode, RegFacts!WriteCode, RegFacts!Signup, RegFacts!CreateLocal,
         RegFacts!FindBySns, RegFacts!FindByEmail, RegFacts!Link, RegFacts!InsertSocial,
         RegFacts!Start, RegFacts!Goto, RegFacts!Finish, RegFacts!Running,
         RegFacts!AddRow, RegFacts!NewToken, RegFacts!Usable, RegFacts!Open,
         RegFacts!Latest, RegFacts!Nothing, RegFacts!Addresses,
         RegFacts!SelectLastInSeq, RegFacts!Max, RegFacts!Fail
<1>4. UNCHANGED RegVars => UNCHANGED RegFacts!vars
  BY DEF RegVars, RegFacts!vars
<1> QED BY <1>1, <1>2, <1>3, <1>4

LEMMA RegistrationHolds ==
    RegFacts!RegistrationInv =>
      Reg!AccountsVerified /\ Reg!GuessesLimited /\ Reg!OneRowPerSocial
<1> SUFFICES ASSUME RegFacts!RegistrationInv
             PROVE  Reg!AccountsVerified /\ Reg!GuessesLimited /\ Reg!OneRowPerSocial
  OBVIOUS
<1>1. Reg!AccountsVerified
  BY RegFacts!AccountsVerifiedHolds DEF Reg!AccountsVerified, RegFacts!AccountsVerified
<1>2. Reg!GuessesLimited
  BY RegFacts!GuessesLimitedHolds
  DEF Reg!GuessesLimited, Reg!CodesApart, RegFacts!GuessesLimited, RegFacts!CodesApart
<1>3. Reg!OneRowPerSocial
  BY RegFacts!OneRowPerSocialHolds, SameCardinality DEF Reg!OneRowPerSocial, RegFacts!OneRowPerSocial
<1> QED BY <1>1, <1>2, <1>3

LEMMA Registered == Spec => [](part = "registration" => RegFacts!RegistrationInv)
<1> DEFINE Inv == part = "registration" => RegFacts!RegistrationInv
<1>1. Init => Inv
  BY FirstPart, SameRegistration, RegFacts!RegistrationInit
<1>2. Inv /\ [Next]_vars => Inv'
  BY OnePart, SameRegistration, RegFacts!RegistrationStep
<1> QED BY <1>1, <1>2, PTL DEF Spec

\* With verification an address gets a local account only through a code that
\* reached its own mailbox (signup, verifyEmailVerificationCode).
THEOREM NoUnverifiedAccount == Spec => []AccountsVerified
<1>1. (part = "registration" => RegFacts!RegistrationInv) => AccountsVerified
  BY RegistrationHolds DEF AccountsVerified
<1> QED BY <1>1, Registered, PTL

\* No code is tried more often than allowed, and no address gets its codes
\* faster than the cool-down, unless two requests about the address overlapped
\* (sendEmailVerificationCode, verifyEmailVerificationCode).
THEOREM GuessesAreLimited == Spec => []GuessesLimited
<1>1. (part = "registration" => RegFacts!RegistrationInv) => GuessesLimited
  BY RegistrationHolds DEF GuessesLimited
<1> QED BY <1>1, Registered, PTL

\* A social account leads to one users row, unless two logins of it overlapped
\* (kakaoLogin, lineLogin): sns_id has no unique index.
THEOREM OneRowPerIdentity == Spec => []OneRowPerSocial
<1>1. (part = "registration" => RegFacts!RegistrationInv) => OneRowPerSocial
  BY RegistrationHolds DEF OneRowPerSocial
<1> QED BY <1>1, Registered, PTL
-----------------------------------------------------------------------------
(* Subscriptions.                                                          *)

LEMMA SamePush ==
    /\ PushFacts!PushBounds
    /\ Push!Init => PushFacts!Init
    /\ [Push!Next]_PushVars => [PushFacts!Next]_(PushFacts!vars)
<1>1. PushFacts!PushBounds
  BY ServicesBounds DEF Push!PushBounds, PushFacts!PushBounds
<1>2. Push!Init => PushFacts!Init
  BY DEF Push!Init, PushFacts!Init, Push!NoRequest, PushFacts!NoRequest
<1>3. /\ Push!Stored = PushFacts!Stored
      /\ \A u : Push!Of(u) = PushFacts!Of(u)
      /\ \A ids : Push!As(ids) = PushFacts!As(ids) /\ Push!Gone(ids) = PushFacts!Gone(ids)
      /\ Push!NoRequest = PushFacts!NoRequest
  BY DEF Push!Stored, PushFacts!Stored, Push!Of, PushFacts!Of, Push!As, PushFacts!As,
         Push!Gone, PushFacts!Gone, Push!NoRequest, PushFacts!NoRequest
<1>4. \A h, place :
        /\ Push!Goto(h, place) <=> PushFacts!Goto(h, place)
        /\ Push!Finish(h) <=> PushFacts!Finish(h)
  BY <1>3 DEF Push!Goto, Push!Finish, PushFacts!Goto, PushFacts!Finish
<1>5. /\ \A h, u, e, k : Push!LockUser(h, u, e, k) <=> PushFacts!LockUser(h, u, e, k)
      /\ \A h, u : Push!Notify(h, u) <=> PushFacts!Notify(h, u)
      /\ \A u, e : Push!Unsubscribe(u, e) <=> PushFacts!Unsubscribe(u, e)
      /\ \A u : Push!Listen(u) <=> PushFacts!Listen(u)
  BY <1>3
  DEF Push!LockUser, Push!Unsubscribe, Push!Listen, Push!Notify,
      PushFacts!LockUser, PushFacts!Unsubscribe, PushFacts!Listen, PushFacts!Notify
<1>6. \A h, to, answer : Push!Delivered(h, to, answer) <=> PushFacts!Delivered(h, to, answer)
  BY <1>3 DEF Push!Delivered, PushFacts!Delivered
<1>7. \A h : /\ Push!ReadDevices(h) <=> PushFacts!ReadDevices(h)
             /\ Push!AllSettled(h) <=> PushFacts!AllSettled(h)
             /\ Push!Fail(h) <=> PushFacts!Fail(h)
  BY <1>3, <1>4
  DEF Push!ReadDevices, Push!AllSettled, Push!Fail,
      PushFacts!ReadDevices, PushFacts!AllSettled, PushFacts!Fail
<1>8. \A h : /\ Push!Lookup(h) <=> PushFacts!Lookup(h)
             /\ Push!Save(h) <=> PushFacts!Save(h)
  <2>1. \A h : Push!Lookup(h) <=> PushFacts!Lookup(h)
    BY <1>3, <1>4, SameCardinality DEF Push!Lookup, PushFacts!Lookup
  <2>2. \A h : Push!Save(h) <=> PushFacts!Save(h)
    BY <1>3, <1>4 DEF Push!Save, PushFacts!Save
  <2> QED BY <2>1, <2>2
<1>9. Push!Next => PushFacts!Next
  BY <1>5, <1>6, <1>7, <1>8, Zenon DEF Push!Next, PushFacts!Next
<1>10. UNCHANGED PushVars => UNCHANGED PushFacts!vars
  BY DEF PushVars, PushFacts!vars
<1> QED BY <1>1, <1>2, <1>9, <1>10

LEMMA Subscribed == Spec => [](part = "push" => PushFacts!PushInv)
<1> DEFINE Inv == part = "push" => PushFacts!PushInv
<1>1. Init => Inv
  BY FirstPart, SamePush, PushFacts!PushInit
<1>2. Inv /\ [Next]_vars => Inv'
  BY OnePart, SamePush, PushFacts!PushStep
<1> QED BY <1>1, <1>2, PTL DEF Spec

\* Whatever the limit and however many subscriptions arrive together, take over
\* devices, fail, or overlap deliveries and unsubscriptions, no account ever has
\* more devices than allowed (PushService.subscribe).
THEOREM DevicesLimited == Spec => []WithinDeviceLimit
<1>1. PushFacts!PushInv => Push!WithinDeviceLimit
  <2>1. \A u : Push!Of(u) = PushFacts!Of(u)
    BY DEF Push!Of, PushFacts!Of, Push!Stored, PushFacts!Stored
  <2> QED
    BY <2>1, SameCardinality, PushFacts!DevicesLimitedHolds
    DEF Push!WithinDeviceLimit, PushFacts!WithinDeviceLimit
<1>2. (part = "push" => PushFacts!PushInv) => WithinDeviceLimit
  BY <1>1 DEF WithinDeviceLimit
<1> QED BY <1>2, Subscribed, PTL

\* However late the push service answers, a delivery deletes no device but the one
\* it was for, and not that one once it belongs to another account
\* (PushService.notifyParty).
THEOREM TakenOverDevicesKept == Spec => TakenOverDeviceKept
<1>1. PushFacts!PushInv /\ [Push!Next]_PushVars => [Push!TakenOverKept]_PushVars
  BY SamePush, PushFacts!DeliveryHolds
  DEF Push!TakenOverKept, PushFacts!TakenOverKept, Push!DeletesOnlyAddressed,
      PushFacts!DeletesOnlyAddressed, Push!Stored, PushFacts!Stored, PushVars, PushFacts!vars
<1>2. /\ part = "push" => PushFacts!PushInv
      /\ [Next]_vars
      => [part = "push" => Push!TakenOverKept]_vars
  <2>1. part = "push" /\ [Next]_vars => [Push!Next]_PushVars
    BY OnePart
  <2>2. part = "push" /\ [Next]_vars /\ UNCHANGED PushVars => UNCHANGED vars
    BY DEF Next, vars, OthersUnchanged
  <2> QED BY <1>1, <2>1, <2>2
<1> QED BY <1>2, Subscribed, PTL DEF Spec, TakenOverDeviceKept
-----------------------------------------------------------------------------
(* Types: what the invariants above leave open.                            *)

LEMMA SeqWithin ==
    ASSUME NEW S, NEW T, NEW s \in Seq(S), \A n \in 1..Len(s) : s[n] \in T
    PROVE  s \in Seq(T)
BY LenProperties

\* Uploads.
UploadsKept ==
    /\ lost \subseteq DOMAIN files
    /\ client \in BOOLEAN /\ configured \in BOOLEAN

LEMMA UploadsKeep ==
    ASSUME UploadsInv, UploadsKept, [Uploads!Next]_UploadsVars
    PROVE  UploadsKept'
<1>1. UploadsTyped /\ \A h \in Handlers : Held(h)
  BY DEF UploadsInv
<1>2. /\ files \in Seq(File) /\ DOMAIN files = 1..Len(files) /\ Len(files) \in Nat
      /\ \A h \in Handlers : uploadPc[h] # "idle" => file[h] \in DOMAIN files
  BY <1>1, FilesAre DEF UploadsTyped, Held
<1>3. client' \in BOOLEAN /\ configured' \in BOOLEAN
  BY DEF UploadsKept, UploadsVars, Uploads!Next, Uploads!Upload, Uploads!Transform,
         Uploads!GetVisionClient, Uploads!ParseReceipt, Uploads!UnlinkReceipt,
         Uploads!SaveParty, Uploads!SaveHost, Uploads!Crash
<1>4. CASE UNCHANGED <<files, lost>>
  BY <1>3, <1>4 DEF UploadsKept
<1>5. ASSUME NEW h \in Handlers, uploadPc[h] # "idle", Uploads!Unlink(file[h])
      PROVE  UploadsKept'
  BY <1>1, <1>2, <1>3, <1>5, UnlinkEffect DEF UploadsKept
<1>6. ASSUME NEW new \in File, files' = Append(files, new), UNCHANGED lost
      PROVE  UploadsKept'
  <2>1. files' \in Seq(File) /\ Len(files') = Len(files) + 1
    BY <1>2, <1>6, AppendProperties
  <2>2. DOMAIN files \subseteq DOMAIN files'
    BY <1>2, <2>1, LenProperties
  <2> QED BY <1>3, <1>6, <2>2 DEF UploadsKept
<1>7. CASE Uploads!Crash
  BY <1>2, <1>3, <1>7 DEF Uploads!Crash, UploadsKept
<1>8. ASSUME NEW h \in Handlers, NEW kind \in Uploads!Kinds, NEW image \in BOOLEAN,
             Uploads!Upload(h, kind, image)
      PROVE  UploadsKept'
  <2>1. [kind |-> kind, image |-> image, there |-> TRUE] \in File
    BY DEF File
  <2> QED BY <1>6, <1>8, <2>1 DEF Uploads!Upload
<1>9. ASSUME NEW h \in Handlers, Uploads!Transform(h) \/ Uploads!UnlinkReceipt(h)
      PROVE  UploadsKept'
  BY <1>4, <1>5, <1>9 DEF Uploads!Transform, Uploads!UnlinkReceipt
<1>10. ASSUME NEW h \in Handlers,
              \/ Uploads!GetVisionClient(h) \/ Uploads!ParseReceipt(h)
              \/ Uploads!SaveParty(h) \/ Uploads!SaveHost(h)
       PROVE  UploadsKept'
  BY <1>4, <1>10 DEF Uploads!GetVisionClient, Uploads!ParseReceipt, Uploads!SaveParty,
     Uploads!SaveHost
<1>11. CASE UNCHANGED UploadsVars
  BY <1>4, <1>11 DEF UploadsVars
<1> QED BY <1>7, <1>8, <1>9, <1>10, <1>11 DEF Uploads!Next

LEMMA UploadsTypes == UploadsInv /\ UploadsKept => Uploads!TypeOK
<1> SUFFICES ASSUME UploadsInv, UploadsKept PROVE Uploads!TypeOK
  OBVIOUS
<1>1. UploadsTyped /\ DOMAIN files = 1..Len(files) /\ Len(files) \in Nat
  BY FilesAre DEF UploadsInv
<1>2. file \in [Handlers -> 0 .. Len(files)]
  BY <1>1 DEF UploadsTyped
<1> QED BY <1>1, <1>2 DEF UploadsKept, UploadsTyped, File, Uploads!TypeOK

LEMMA UploadsAtFirst == Uploads!Init => UploadsKept
BY EmptySeq DEF Uploads!Init, UploadsKept

\* Reviews: nobody reviews another twice, as the request that stores a review has
\* looked for one.
ReviewsKept ==
    /\ members \subseteq Reviewed /\ linked \subseteq Reviewed
    /\ \A r, s \in reviews : Reviews!Pair(r) = Reviews!Pair(s) => r = s
    /\ \A r \in reviews : r.score \in Scores
    /\ \A v \in Reviewed : /\ review[v].score \in Scores \cup {0}
                           /\ reviewPc[v] # "idle" => review[v].score \in Scores

LEMMA ReviewsKeep ==
    ASSUME ServicesBounds, ReviewsInv, ReviewsKept, [Reviews!Next]_ReviewsVars
    PROVE  ReviewsKept'
<1>1. /\ reviews \in SUBSET Reviewing
      /\ reviewPc \in [Reviewed -> {"idle", "checked"} \cup Reviews!Storing]
      /\ review \in [Reviewed -> Reviewing] /\ link \in Linking
      /\ \A v \in Reviewed : Fresh(v)
  BY DEF ReviewsInv, ReviewsTyped
<1>2. members' \subseteq Reviewed /\ linked' \subseteq Reviewed
  BY <1>1
  DEF ReviewsKept, Linking, ReviewsVars, Reviews!Next, Reviews!Check, Reviews!InsertReview,
      Reviews!ReadUser, Reviews!UpdateUser, Reviews!Commit, Reviews!Rollback,
      Reviews!LinkRead, Reviews!LinkCompare, Reviews!LinkWrite, Reviews!Remove
<1>3. ASSUME NEW v \in Reviewed, Reviews!Finish(v)
      PROVE  \A w \in Reviewed : /\ review'[w].score \in Scores \cup {0}
                                 /\ reviewPc'[w] # "idle" => review'[w].score \in Scores
  BY <1>1, <1>3 DEF ReviewsKept, Reviews!Finish, Reviews!Goto, Reviews!NoReview
<1>4. ASSUME NEW v \in Reviewed, reviewPc[v] # "idle", NEW place, Reviews!Goto(v, place),
             UNCHANGED <<reviews, review>>
      PROVE  ReviewsKept'
  BY <1>1, <1>2, <1>4 DEF ReviewsKept, Reviews!Goto
<1>5. ASSUME NEW u \in Reviewed, NEW v \in Reviewed, NEW score \in Scores,
             Reviews!Check(u, v, score)
      PROVE  ReviewsKept'
  <2> DEFINE new == [reviewer |-> u, reviewee |-> v, score |-> score]
  <2>1. /\ review' = [review EXCEPT ![u] = new] /\ UNCHANGED reviews
        /\ reviewPc' = [reviewPc EXCEPT ![u] = "checked"]
    BY <1>5 DEF Reviews!Check, Reviews!Goto
  <2>2. new.score \in Scores
    OBVIOUS
  <2> HIDE DEF new
  <2> QED BY <1>1, <1>2, <2>1, <2>2 DEF ReviewsKept
<1>6. ASSUME NEW v \in Reviewed, Reviews!Commit(v)
      PROVE  ReviewsKept'
  <2>1. /\ reviewPc[v] # "idle" /\ reviews' = reviews \cup {review[v]} /\ Reviews!Finish(v)
    BY <1>6 DEF Reviews!Commit
  <2>2. review[v].score \in Scores /\ \A r \in reviews : Reviews!Pair(r) # Reviews!Pair(review[v])
    BY <1>1, <2>1 DEF ReviewsKept, Fresh
  <2>3. \A r \in reviews' : r = review[v] \/ r \in reviews
    BY <2>1
  <2>4. \A r, s \in reviews' : Reviews!Pair(r) = Reviews!Pair(s) => r = s
    BY <2>2, <2>3 DEF ReviewsKept
  <2>5. \A r \in reviews' : r.score \in Scores
    BY <2>2, <2>3 DEF ReviewsKept
  <2> QED BY <1>2, <1>3, <2>1, <2>4, <2>5 DEF ReviewsKept, Reviews!Pair
<1>7. ASSUME NEW v \in Reviewed, Reviews!Rollback(v)
      PROVE  ReviewsKept'
  <2>1. UNCHANGED reviews /\ Reviews!Finish(v)
    BY <1>7 DEF Reviews!Rollback
  <2> QED BY <1>2, <1>3, <2>1 DEF ReviewsKept, Reviews!Pair
<1>8. ASSUME NEW v \in Reviewed,
             Reviews!InsertReview(v) \/ Reviews!ReadUser(v) \/ Reviews!UpdateUser(v)
      PROVE  ReviewsKept'
  BY <1>4, <1>8 DEF Reviews!InsertReview, Reviews!ReadUser, Reviews!UpdateUser
<1>9. CASE UNCHANGED <<reviews, review, reviewPc>>
  BY <1>2, <1>9 DEF ReviewsKept, Reviews!Pair
<1> QED
  BY <1>5, <1>6, <1>7, <1>8, <1>9
  DEF ReviewsVars, Reviews!Next, Reviews!LinkRead, Reviews!LinkCompare,
      Reviews!LinkWrite, Reviews!Remove

LEMMA ReviewsTypes == ReviewsInv /\ ReviewsKept => Reviews!TypeOK
<1> SUFFICES ASSUME ReviewsInv, ReviewsKept PROVE Reviews!TypeOK
  OBVIOUS
<1>1. /\ reviews \in SUBSET Reviewing /\ review \in [Reviewed -> Reviewing]
      /\ user \in [Reviewed -> Counted] /\ read \in [Reviewed -> Counted]
      /\ reviewPc \in [Reviewed -> {"idle", "checked"} \cup Reviews!Storing]
      /\ link \in Linking
  BY DEF ReviewsInv, ReviewsTyped
<1>2. reviews \subseteq [reviewer : Reviewed, reviewee : Reviewed, score : Scores]
  BY <1>1 DEF ReviewsKept, Reviewing
<1>3. review \in [Reviewed -> [reviewer : Reviewed, reviewee : Reviewed, score : Scores \cup {0}]]
  BY <1>1 DEF ReviewsKept, Reviewing
<1>4. link.state \in {"none", "read", "compared"} /\ link.user \in Reviewed
      /\ link.row \in Reviews!Row /\ link.dirty \subseteq {"score", "count"}
  BY <1>1 DEF Linking, Counted, Reviews!Row
<1>5. \A u \in Reviewed : user[u] \in Reviews!Row /\ read[u] \in Reviews!Row
  BY <1>1 DEF Counted, Reviews!Row
<1> QED BY <1>1, <1>2, <1>3, <1>4, <1>5 DEF ReviewsKept, Reviews!TypeOK

LEMMA ReviewsAtFirst == Reviews!Init => ReviewsKept
BY DEF Reviews!Init, Reviews!NoReview, ReviewsKept

\* The feed: a page is followed by another only if there are posts left.
FeedKept ==
    /\ Len(posts) <= MaxPosts
    /\ \A p \in Feed!Ids : posts[p] <= FeedTime /\ comments[p] <= MaxComments
    /\ cursor.time <= FeedTime /\ cursor.id <= Len(posts) /\ cursor.offset <= MaxPosts
    /\ again \subseteq shown
    /\ calm \in BOOLEAN

LEMMA PlacesEnd ==
    ASSUME FeedTyped, NEW p \in Feed!Following
    PROVE  Feed!Place(p) < Len(posts)
<1> DEFINE Above == {q \in Feed!Following : Feed!Before(q, p)}
<1>1. p \in Feed!Ids /\ Feed!Following \subseteq Feed!Ids
  BY Places
<1>2. Feed!Ids = 1..Len(posts) /\ Len(posts) \in Nat /\ IsFiniteSet(Feed!Ids)
  BY FeedFacts
<1>3. Above \subseteq Feed!Ids /\ p \notin Above
  BY <1>1, BeforeOrder
<1>4. Feed!Place(p) = Cardinality(Above)
  BY OneCardinality DEF Feed!Place
<1> HIDE DEF Above
<1>5. Cardinality(Feed!Ids) = Len(posts)
  <2>1. ASSUME NEW n \in Nat PROVE Cardinality(1..n) = n
    <3>1. Cardinality(1..n) = IF 1 > n THEN 0 ELSE n - 1 + 1
      BY FS_Interval
    <3> QED BY <3>1
  <2> QED BY <1>2, <2>1
<1>6. /\ Cardinality(Above) \in Nat /\ Cardinality(Above) <= Cardinality(Feed!Ids)
      /\ Cardinality(Above) # Cardinality(Feed!Ids)
  BY <1>1, <1>2, <1>3, FS_Subset, FS_CardinalityType
<1> QED BY <1>2, <1>4, <1>5, <1>6

LEMMA PageKept ==
    ASSUME ServicesBounds, FeedTyped, FeedKept, Feed!Page,
           UNCHANGED <<posts, comments>>, calm' \in BOOLEAN
    PROVE  FeedKept'
<1>1. /\ MaxPosts \in Nat /\ FeedTime \in Nat /\ Limit \in Nat \ {0}
  BY DEF ServicesBounds, Feed!FeedBounds
<1>2. again' \subseteq shown'
  BY PageIs DEF FeedKept
<1>3. Feed!Ids = 1..Len(posts) /\ Len(posts) \in Nat
  BY FeedFacts
<1>4. cursor'.time <= FeedTime /\ cursor'.id <= Len(posts) /\ cursor'.offset <= MaxPosts
  <2>1. CASE ~HasMore
    BY <1>1, <1>3, <2>1, PageIs DEF Feed!NoCursor
  <2>2. CASE HasMore /\ sort = "latest"
    <3>1. LastItem \in Feed!Ids
      BY <2>2, LatestPage, Places DEF Items
    <3>2. posts[LastItem] \in Nat /\ posts[LastItem] <= FeedTime
      BY <3>1, FeedFacts DEF FeedKept
    <3>3. Feed!Truncated(posts[LastItem]) \in Nat /\ Feed!Truncated(posts[LastItem]) <= FeedTime
      BY <1>1, <3>2, TruncatedFacts
    <3> QED BY <1>1, <1>3, <2>2, <3>1, <3>3, PageIs
  <2>3. CASE HasMore /\ sort # "latest"
    <3>1. PICK p \in Feed!Following : Feed!Place(p) >= Feed!Offset + Limit
      BY <2>3 DEF HasMore
    <3>2. Feed!Place(p) \in Nat /\ Feed!Place(p) < Len(posts) /\ Feed!Offset \in Nat
      BY Places, PlacesEnd DEF Feed!Offset, FeedTyped, Cursors
    <3>3. Feed!Offset + Limit <= MaxPosts
      BY <1>1, <1>3, <3>1, <3>2 DEF FeedKept
    <3> QED BY <1>1, <1>3, <2>3, <3>3, PageIs
  <2> QED BY <2>1, <2>2, <2>3
<1> QED BY <1>2, <1>4 DEF FeedKept, Feed!Ids

LEMMA FeedKeeps ==
    ASSUME ServicesBounds, FeedInv, FeedKept, [Feed!Next]_FeedVars
    PROVE  FeedKept'
<1>1. /\ FeedTyped
      /\ posts \in Seq(Nat) /\ likes \in Seq(Fans)
      /\ comments \in Seq(Nat) /\ Len(comments) = Len(posts)
      /\ Feed!Ids = 1..Len(posts) /\ Len(posts) \in Nat
      /\ cursor \in Cursors
      /\ \A p \in Feed!Ids : comments[p] \in Nat
  BY FeedFacts DEF FeedInv, FeedTyped
<1>2. FeedTime \in Nat /\ MaxPosts \in Nat /\ MaxComments \in Nat
  BY DEF ServicesBounds, Feed!FeedBounds
<1>3. CASE UNCHANGED <<posts, comments, cursor, shown, again>> /\ calm' \in BOOLEAN
  BY <1>3 DEF FeedKept, Feed!Ids
<1>4. ASSUME NEW time \in 0..FeedTime, Feed!Create(time)
      PROVE  FeedKept'
  <2>1. /\ posts' = Append(posts, time) /\ comments' = Append(comments, 0)
        /\ Len(posts) < MaxPosts /\ calm' = FALSE /\ UNCHANGED <<cursor, shown, again>>
    BY <1>4 DEF Feed!Create
  <2>2. /\ posts' \in Seq(Nat) /\ Len(posts') = Len(posts) + 1
        /\ posts'[Len(posts) + 1] = time
        /\ \A p \in 1..Len(posts) : posts'[p] = posts[p]
    BY <1>1, <1>2, <2>1, AppendProperties
  <2>3. /\ comments'[Len(posts) + 1] = 0
        /\ \A p \in 1..Len(posts) : comments'[p] = comments[p]
    BY <1>1, <2>1, AppendProperties
  <2>4. Feed!Ids' = 1 .. Len(posts) + 1
    BY <2>2, LenProperties DEF Feed!Ids
  <2>5. \A p \in Feed!Ids' : p = Len(posts) + 1 \/ p \in Feed!Ids
    BY <1>1, <2>4
  <2>6. \A p \in Feed!Ids' : posts'[p] <= FeedTime /\ comments'[p] <= MaxComments
    <3>1. ASSUME NEW p \in Feed!Ids
          PROVE  posts'[p] <= FeedTime /\ comments'[p] <= MaxComments
      <4>1. posts'[p] = posts[p] /\ comments'[p] = comments[p]
        BY <1>1, <2>2, <2>3
      <4> QED BY <4>1 DEF FeedKept
    <3>2. posts'[Len(posts) + 1] <= FeedTime /\ comments'[Len(posts) + 1] <= MaxComments
      BY <1>2, <2>2, <2>3
    <3> QED BY <2>5, <3>1, <3>2
  <2>7. /\ Len(posts') <= MaxPosts /\ cursor'.id <= Len(posts')
    BY <1>1, <1>2, <2>1, <2>2 DEF FeedKept, Cursors
  <2> QED BY <2>1, <2>6, <2>7 DEF FeedKept
<1>5. ASSUME NEW p \in Feed!Ids, Feed!CreateComment(p)
      PROVE  FeedKept'
  <2>1. /\ comments[p] < MaxComments /\ comments' = [comments EXCEPT ![p] = comments[p] + 1]
        /\ calm' = FALSE /\ UNCHANGED <<posts, cursor, shown, again>>
    BY <1>5 DEF Feed!CreateComment
  <2>2. \A q \in 1..Len(comments) : comments'[q] = IF q = p THEN comments[p] + 1 ELSE comments[q]
    BY <1>1, <2>1, ExceptSeq
  <2>3. Feed!Ids' = Feed!Ids
    BY <2>1 DEF Feed!Ids
  <2>4. \A q \in Feed!Ids : comments'[q] <= MaxComments
    BY <1>1, <1>2, <2>1, <2>2 DEF FeedKept
  <2> QED BY <2>1, <2>3, <2>4 DEF FeedKept
<1>6. CASE Feed!FirstPage
  BY <1>1, <1>6, PageKept DEF Feed!FirstPage
<1>7. CASE Feed!NextPage
  BY <1>1, <1>7, PageKept DEF Feed!NextPage, FeedKept
<1>8. ASSUME NEW u \in Readers, NEW p \in Feed!Ids, Feed!LikePost(u, p) \/ Feed!UnlikePost(u, p)
      PROVE  FeedKept'
  BY <1>3, <1>8 DEF Feed!LikePost, Feed!UnlikePost, FeedKept
<1>9. ASSUME NEW u \in Readers, Feed!InsertLike(u)
      PROVE  FeedKept'
  BY <1>3, <1>9 DEF Feed!InsertLike
<1>10. CASE UNCHANGED FeedVars
  BY <1>3, <1>10 DEF FeedVars, FeedKept
<1> QED
  BY <1>4, <1>5, <1>6, <1>7, <1>8, <1>9, <1>10 DEF Feed!Next

LEMMA FeedTypes == ServicesBounds /\ FeedInv /\ FeedKept => Feed!TypeOK
<1> SUFFICES ASSUME ServicesBounds, FeedInv, FeedKept PROVE Feed!TypeOK
  OBVIOUS
<1>1. /\ FeedTyped
      /\ posts \in Seq(Nat) /\ likes \in Seq(Fans) /\ Len(likes) = Len(posts)
      /\ comments \in Seq(Nat) /\ Len(comments) = Len(posts)
      /\ cursor \in Cursors
      /\ liking \in [Readers -> {0} \cup Feed!Ids] /\ sort \in Feed!Sorts
      /\ shown \subseteq Feed!Ids /\ start \subseteq Feed!Ids
  BY DEF FeedInv, FeedTyped
<1>2. /\ Feed!Ids = 1..Len(posts) /\ Len(posts) \in Nat
      /\ \A p \in Feed!Ids : posts[p] \in Nat /\ likes[p] \in Fans /\ comments[p] \in Nat
  BY <1>1, FeedFacts
<1>3. FeedTime \in Nat /\ MaxPosts \in Nat /\ Limit \in Nat \ {0} /\ MaxComments \in Nat
  BY DEF ServicesBounds, Feed!FeedBounds
<1>4. posts \in Seq(0..FeedTime)
  <2>1. \A p \in 1..Len(posts) : posts[p] \in 0..FeedTime
    BY <1>2, <1>3 DEF FeedKept
  <2> QED BY <1>1, <2>1, SeqWithin
<1>5. likes \in [Feed!Ids -> SUBSET Readers]
  BY <1>1, <1>2, LenProperties DEF Fans
<1>6. comments \in [Feed!Ids -> 0..MaxComments]
  BY <1>1, <1>2, <1>3, LenProperties DEF FeedKept
<1>7. MaxPosts <= MaxPosts * Limit /\ MaxPosts * Limit \in Nat
  BY <1>3, PieceOfAmount
<1>8. cursor \in [time : 0..FeedTime, id : 0 .. Len(posts), offset : 0 .. MaxPosts * Limit]
  <2>1. /\ cursor.time \in 0..FeedTime /\ cursor.id \in 0 .. Len(posts)
        /\ cursor.offset \in 0 .. MaxPosts
    BY <1>1, <1>2, <1>3 DEF Cursors, FeedKept
  <2>2. cursor.offset \in 0 .. MaxPosts * Limit
    BY <1>3, <1>7, <2>1
  <2> QED BY <1>1, <2>1, <2>2 DEF Cursors
<1> QED BY <1>1, <1>4, <1>5, <1>6, <1>8 DEF FeedKept, Feed!TypeOK

LEMMA FeedAtFirst == ServicesBounds /\ Feed!Init => FeedKept
BY EmptySeq DEF Feed!Init, Feed!Ids, Feed!NoCursor, FeedKept, ServicesBounds, Feed!FeedBounds

\* The other parts have their types in their invariants.
LEMMA RegistrationTypes == RegFacts!RegistrationInv => Reg!TypeOK
BY DEF RegFacts!RegistrationInv, RegFacts!Typed, RegFacts!TypeOK, RegFacts!Addresses,
       RegFacts!Places, Reg!TypeOK, Reg!Addresses, Reg!Places

LEMMA PushTypes == PushFacts!PushInv => Push!TypeOK
BY PushFacts!PushTyped
DEF PushFacts!TypeOK, PushFacts!Stored, PushFacts!Row, PushFacts!NoRequest,
    Push!TypeOK, Push!Stored, Push!Row, Push!NoRequest

\* Everything that the parts keep.
ServicesInv ==
    /\ part = "creation" => CreationInv
    /\ part = "registration" => RegFacts!RegistrationInv
    /\ part = "chat" => ChatInv
    /\ part = "push" => PushFacts!PushInv
    /\ part = "reviews" => ReviewsInv /\ ReviewsKept
    /\ part = "feed" => FeedInv /\ FeedKept
    /\ part = "receipt" => ReceiptInv
    /\ part = "visual" => Photo /\ Together
    /\ part = "uploads" => UploadsInv /\ UploadsKept

\* Every variable of every part keeps to its values: a settlement to its statuses,
\* a request to its places, a cursor to the posts there are, no user to two
\* reviews of another (ReviewsService.create), no endpoint to two devices
\* (PushService.subscribe).
THEOREM TypeCorrect == Spec => []TypeOK
<1>1. Init => ServicesInv
  <2> SUFFICES ASSUME Init PROVE ServicesInv
    OBVIOUS
  <2>1. ServicesBounds
    BY ServicesBounds
  <2> QED
    BY <2>1, FirstPart, CreationStarts, SameRegistration, RegFacts!RegistrationInit,
       ChatStarts, SamePush, PushFacts!PushInit, ReviewsStart, ReviewsAtFirst,
       FeedStarts, FeedAtFirst, ReceiptStarts, PhotoTaken, UploadsStart, UploadsAtFirst
    DEF ServicesInv
<1>2. ServicesInv /\ [Next]_vars => ServicesInv'
  <2> SUFFICES ASSUME ServicesInv, [Next]_vars PROVE ServicesInv'
    OBVIOUS
  <2>1. part' = part /\ ServicesBounds
    BY OnePart, ServicesBounds
  <2>2. /\ part = "creation" => CreationInv'
        /\ part = "chat" => ChatInv'
        /\ part = "receipt" => ReceiptInv'
        /\ part = "visual" => Photo' /\ Together'
    BY OnePart, CreationStep, ChatStep, ReceiptStep, VisualStep DEF ServicesInv
  <2>3. part = "registration" => RegFacts!RegistrationInv'
    BY OnePart, SameRegistration, RegFacts!RegistrationStep DEF ServicesInv
  <2>4. part = "push" => PushFacts!PushInv'
    BY OnePart, SamePush, PushFacts!PushStep DEF ServicesInv
  <2>5. part = "reviews" => ReviewsInv' /\ ReviewsKept'
    BY <2>1, OnePart, ReviewsStep, ReviewsKeep DEF ServicesInv
  <2>6. part = "feed" => FeedInv' /\ FeedKept'
    BY <2>1, OnePart, FeedStep, FeedKeeps DEF ServicesInv
  <2>7. part = "uploads" => UploadsInv' /\ UploadsKept'
    BY OnePart, UploadsStep, UploadsKeep DEF ServicesInv
  <2> QED BY <2>1, <2>2, <2>3, <2>4, <2>5, <2>6, <2>7 DEF ServicesInv
<1>3. ServicesInv => TypeOK
  <2>1. Photo /\ Together => Visual!TypeOK
    BY DEF Photo, Together, Word, Visual!TypeOK
  <2>2. CreationInv => Creation!TypeOK
    BY DEF CreationInv
  <2>3. ChatInv => Chat!TypeOK
    BY DEF ChatInv
  <2> QED
    BY <2>1, <2>2, <2>3, ServicesBounds, RegistrationTypes, PushTypes, ReviewsTypes,
       FeedTypes, ReceiptHolds, UploadsTypes
    DEF ServicesInv, TypeOK
<1> QED BY <1>1, <1>2, <1>3, PTL DEF Spec
=============================================================================
