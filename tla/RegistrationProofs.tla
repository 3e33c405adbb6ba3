------------------------- MODULE RegistrationProofs -------------------------
(***************************************************************************)
(* Verified accounts, limited guesses and one row of each social account,  *)
(* for any addresses, requests, times and limits that satisfy              *)
(* RegistrationBounds.  What holds of an address or of a social account as *)
(* long as no two requests were about it at once is said with its absence  *)
(* from `mixed`.                                                           *)
(***************************************************************************)
EXTENDS Registration, SequenceTheorems, FiniteSetTheorems, WellFoundedInduction, TLAPS

\* Places of requests about an address and about a social account, and of those
\* that have looked up a code.
ByEmailPlaces == {"cooling", "saving", "mailing", "comparing", "writing", "creating"}
LoginPlaces == {"byEmail", "linking", "inserting"}
Entering == {"comparing", "writing"}

Code == [email : Emails, attempts : Nat, verified : BOOLEAN, made : 1..MaxTime]

\* Names for the records the steps write.
NewCode(e) == [email |-> e, attempts |-> 0, verified |-> FALSE, made |-> clock]
SeenUpTo(n) == [code : 0 .. n, attempts : Nat, right : BOOLEAN,
                dirty : SUBSET {"attempts", "verified"}, email : Addresses \cup {None}]
Entered(h, c, right) ==
    [seen[h] EXCEPT !.code = c, !.right = right,
                    !.attempts = codes[c].attempts + (IF right THEN 0 ELSE 1)]
UserRow == [local : BOOLEAN, sns : Socials \cup {None}]

\* What a request at its place is about, and the row of its code.
SubjectOf(h) ==
    /\ pc[h] = "idle" <=> op[h] = None
    /\ pc[h] \in ByEmailPlaces => op[h] \in Emails
    /\ pc[h] \in LoginPlaces => op[h] \in Socials /\ seen[h].email \in Addresses
    /\ pc[h] \in Entering \cup {"mailing"} =>
         seen[h].code \in DOMAIN codes /\ codes[seen[h].code].email = op[h]

SubjectInv == \A h \in Handlers : SubjectOf(h)

\* A code sent to e reached its mailbox.
Verified(e) == \E n \in arrived : codes[n].email = e

\* So it has for whoever has a local account, a token, or is about to get one.
VerifiedInv ==
    required =>
      /\ \A a \in DOMAIN users : users[a].local => Verified(a)
      /\ \A e \in Emails : token[e] # 0 => Verified(e)
      /\ \A h \in Handlers :
           /\ pc[h] = "creating" => Verified(op[h])
           /\ pc[h] \in Entering /\ seen[h].right => Verified(op[h])

\* Two requests about one subject are noticed.
AloneInv ==
    \A g, h \in Running : op[g] = op[h] /\ g # h => op[g] \in mixed

\* An account has one row, and none while a login that found none goes on.
SocialInv ==
    \A s \in Socials \ mixed :
      /\ \A a, b \in DOMAIN users : users[a].sns = s /\ users[b].sns = s => a = b
      /\ \A h \in Running : op[h] = s => \A a \in DOMAIN users : users[a].sns # s

\* Codes are the cool-down apart, and so will be the next one of a request that
\* has checked it.
ApartInv ==
    \A n \in DOMAIN codes :
      /\ codes[n].made <= clock
      /\ codes[n].email \notin mixed =>
           /\ \A m \in n + 1 .. Len(codes) :
                codes[m].email = codes[n].email => CodesApart(n, m)
           /\ \A h \in Handlers : pc[h] = "saving" /\ op[h] = codes[n].email =>
                clock >= codes[n].made + Cooldown

\* The wrong codes stored against code n are counted and within the limit.
Counted(n) ==
    /\ wrong[n] <= MaxAttempts
    /\ codes[n].attempts = wrong[n]

\* A request that is entering a code knows how many wrong ones there were.
Knows(h) ==
    /\ seen[h].attempts = wrong[seen[h].code] + (IF seen[h].right THEN 0 ELSE 1)
    /\ seen[h].attempts <= MaxAttempts
    /\ pc[h] = "writing" =>
         \/ "attempts" \in seen[h].dirty
         \/ codes[seen[h].code].attempts = seen[h].attempts

\* Both, for the codes and requests of an address that nothing disturbed.
GuessInv ==
    /\ \A n \in DOMAIN codes : codes[n].email \notin mixed => Counted(n)
    /\ \A h \in Handlers : pc[h] \in Entering /\ op[h] \notin mixed => Knows(h)

Typed == RegistrationBounds /\ TypeOK /\ SubjectInv

RegistrationInv == Typed /\ VerifiedInv /\ AloneInv /\ SocialInv /\ ApartInv /\ GuessInv

LEMMA Constants ==
    Typed =>
    /\ MaxAttempts \in Nat /\ Cooldown \in Nat /\ CodeLife \in Nat /\ TokenLife \in Nat
    /\ MaxRequests \in Nat /\ MaxTime \in Nat /\ MaxTime > 0
    /\ Emails \cap Socials = {} /\ None \notin Emails /\ None \notin Socials
BY DEF Typed, RegistrationBounds

\* A finite set of numbers has a greatest one.
LEMMA GreatestElement ==
    \A L \in Nat : \A S \in SUBSET (1..L) :
      S # {} => \E x \in S : \A y \in S : x >= y
<1> SUFFICES ASSUME NEW L \in Nat, NEW S \in SUBSET (1..L), S # {}
             PROVE  \E x \in S : \A y \in S : x >= y
  OBVIOUS
<1> DEFINE Above == {p \in Nat \X Nat : p[1] < p[2]}
           Rest == {L - x : x \in S}
<1>1. IsWellFoundedOn(Above, Nat)
  BY NatLessThanWellFounded DEF OpToRel
<1>2. \A m, n \in Nat : m < n => <<m, n>> \in Above
  OBVIOUS
<1>3. Rest \in SUBSET Nat /\ Rest # {}
  <2>1. \A x \in S : x \in 1..L /\ L - x \in Nat
    OBVIOUS
  <2>2. PICK x \in S : TRUE
    OBVIOUS
  <2> QED BY <2>1, <2>2
<1> HIDE DEF Above
<1>4. PICK r \in Rest : \A y \in Rest : ~ (<<y, r>> \in Above)
  BY <1>1, <1>3, WFMin
<1>5. PICK x \in S : r = L - x
  OBVIOUS
<1>6. ASSUME NEW y \in S PROVE x >= y
  <2>1. L - y \in Rest /\ L - y \in Nat /\ r \in Nat
    OBVIOUS
  <2>2. ~ (L - y < r)
    BY <1>2, <1>4, <2>1
  <2> QED BY <1>5, <2>2
<1> QED BY <1>6

\* findOne finds the newest code of an address, if there is one.
LEMMA LatestCode ==
    ASSUME codes \in Seq(Code), NEW e
    PROVE  LET l == Latest(e) IN
           \/ l = 0 /\ \A n \in DOMAIN codes : codes[n].email # e
           \/ /\ l \in DOMAIN codes /\ l # 0 /\ codes[l].email = e
              /\ \A n \in DOMAIN codes : codes[n].email = e => n <= l
<1> DEFINE I == {n \in 1..Len(codes) : codes[n].email = e}
<1>1. Latest(e) = IF I # {} THEN Max(I) ELSE 0
  BY DEF Latest, SelectLastInSeq
<1>2. Len(codes) \in Nat /\ DOMAIN codes = 1..Len(codes)
  BY LenProperties
<1>3. I # {} => Max(I) \in I /\ \A n \in I : Max(I) >= n
  BY <1>2, GreatestElement DEF Max
<1> QED BY <1>1, <1>2, <1>3

LEMMA CodesAre ==
    ASSUME Typed
    PROVE  /\ codes \in Seq(Code) /\ Len(codes) \in Nat /\ DOMAIN codes = 1..Len(codes)
           /\ DOMAIN wrong = 1..Len(codes)
           /\ \A n \in DOMAIN codes : codes[n] \in Code /\ wrong[n] \in Nat
<1>1. codes \in Seq(Code) /\ wrong \in Seq(Nat) /\ Len(wrong) = Len(codes)
  BY DEF Typed, TypeOK, Code
<1>2. /\ Len(codes) \in Nat /\ DOMAIN codes = 1..Len(codes)
      /\ DOMAIN wrong = 1..Len(codes)
  BY <1>1, LenProperties
<1> QED BY <1>1, <1>2, ElementOfSeq

LEMMA TimesAre ==
    ASSUME Typed
    PROVE  clock \in Nat /\ \A n \in DOMAIN codes : codes[n].made \in Nat
<1>1. clock \in 1..MaxTime
  BY DEF Typed, TypeOK
<1>2. ASSUME NEW n \in DOMAIN codes PROVE codes[n].made \in 1..MaxTime
  BY CodesAre DEF Code
<1> QED BY <1>1, <1>2, Constants

\* What each step does to the codes.
LEMMA SaveCodeEffect ==
    ASSUME Typed, NEW h \in Handlers, SaveCode(h)
    PROVE  /\ codes' \in Seq(Code) /\ Len(codes') = Len(codes) + 1
           /\ DOMAIN codes' = 1..Len(codes) + 1
           /\ \A n \in DOMAIN codes : codes'[n] = codes[n]
           /\ codes'[Len(codes) + 1] = NewCode(op[h])
           /\ wrong' \in Seq(Nat) /\ Len(wrong') = Len(codes')
           /\ \A n \in DOMAIN codes : wrong'[n] = wrong[n]
           /\ wrong'[Len(codes) + 1] = 0
<1> DEFINE new == NewCode(op[h])
<1>1. new \in Code
  BY DEF Typed, TypeOK, SubjectInv, SubjectOf, SaveCode, Code, ByEmailPlaces, NewCode
<1>2. codes' = Append(codes, new) /\ wrong' = Append(wrong, 0)
  BY DEF SaveCode, NewCode
<1> HIDE DEF new
<1>3. /\ codes' \in Seq(Code) /\ Len(codes') = Len(codes) + 1
      /\ \A n \in DOMAIN codes : codes'[n] = codes[n]
      /\ codes'[Len(codes) + 1] = new
  BY <1>1, <1>2, CodesAre, AppendProperties
<1>4. wrong \in Seq(Nat) /\ Len(wrong) = Len(codes)
  BY DEF Typed, TypeOK
<1>5. /\ wrong' \in Seq(Nat) /\ Len(wrong') = Len(codes) + 1
      /\ \A n \in DOMAIN codes : wrong'[n] = wrong[n]
      /\ wrong'[Len(codes) + 1] = 0
  BY <1>2, <1>4, CodesAre, AppendProperties
<1>6. DOMAIN codes' = 1..Len(codes) + 1
  BY <1>3, LenProperties
<1> QED BY <1>3, <1>5, <1>6 DEF new

LEMMA WriteCodeEffect ==
    ASSUME Typed, NEW h \in Handlers, WriteCode(h)
    PROVE  LET c == seen[h].code IN
           /\ codes' \in Seq(Code) /\ Len(codes') = Len(codes)
           /\ DOMAIN codes' = DOMAIN codes
           /\ c \in DOMAIN codes /\ codes[c].email = op[h]
           /\ \A n \in DOMAIN codes :
                codes'[n].email = codes[n].email /\ codes'[n].made = codes[n].made
           /\ \A n \in DOMAIN codes : n # c => codes'[n] = codes[n]
           /\ codes'[c].attempts =
                IF "attempts" \in seen[h].dirty THEN seen[h].attempts ELSE codes[c].attempts
           /\ wrong' \in Seq(Nat) /\ Len(wrong') = Len(codes)
           /\ \A n \in DOMAIN codes :
                wrong'[n] = IF n = c /\ ~seen[h].right THEN wrong[n] + 1 ELSE wrong[n]
<1> DEFINE c == seen[h].code
           w == [codes[c] EXCEPT
                   !.attempts = IF "attempts" \in seen[h].dirty THEN seen[h].attempts ELSE @,
                   !.verified = IF "verified" \in seen[h].dirty THEN seen[h].right ELSE @]
<1>1. c \in DOMAIN codes /\ codes[c].email = op[h]
  BY DEF Typed, SubjectInv, SubjectOf, WriteCode, Entering
<1>2. codes[c] \in Code /\ c \in 1..Len(codes) /\ codes \in Seq(Code)
  BY <1>1, CodesAre
<1>3. seen[h].attempts \in Nat /\ seen[h].right \in BOOLEAN
  BY DEF Typed, TypeOK
<1>4. w \in Code /\ w.email = codes[c].email /\ w.made = codes[c].made
      /\ w.attempts = IF "attempts" \in seen[h].dirty THEN seen[h].attempts ELSE codes[c].attempts
  BY <1>2, <1>3 DEF Code
<1>5. codes' = [codes EXCEPT ![c] = w]
  BY <1>1, <1>2 DEF WriteCode, Code
<1> HIDE DEF c, w
<1>6. /\ codes' \in Seq(Code) /\ Len(codes') = Len(codes)
      /\ \A j \in 1..Len(codes) : codes'[j] = IF j = c THEN w ELSE codes[j]
  BY <1>2, <1>4, <1>5, ExceptSeq
<1>7. DOMAIN codes' = DOMAIN codes
  BY <1>6, LenProperties, CodesAre
<1>8. \A j \in DOMAIN codes : codes'[j] = IF j = c THEN w ELSE codes[j]
  BY <1>6, CodesAre
<1>9. /\ wrong \in Seq(Nat) /\ Len(wrong) = Len(codes)
      /\ c \in 1..Len(wrong) /\ wrong[c] + 1 \in Nat
  <2>1. wrong \in Seq(Nat) /\ Len(wrong) = Len(codes)
    BY DEF Typed, TypeOK
  <2> QED BY <1>1, <2>1, CodesAre
<1>10. /\ [wrong EXCEPT ![c] = wrong[c] + 1] \in Seq(Nat)
       /\ Len([wrong EXCEPT ![c] = wrong[c] + 1]) = Len(wrong)
       /\ \A j \in 1..Len(wrong) :
            [wrong EXCEPT ![c] = wrong[c] + 1][j] = IF j = c THEN wrong[c] + 1 ELSE wrong[j]
  BY <1>9, ExceptSeq
<1>11. wrong' = IF seen[h].right THEN wrong ELSE [wrong EXCEPT ![c] = wrong[c] + 1]
  BY DEF WriteCode, c
<1>12. /\ wrong' \in Seq(Nat) /\ Len(wrong') = Len(codes)
       /\ \A n \in DOMAIN codes :
            wrong'[n] = IF n = c /\ ~seen[h].right THEN wrong[n] + 1 ELSE wrong[n]
  BY <1>9, <1>10, <1>11, CodesAre
<1> QED BY <1>1, <1>4, <1>6, <1>7, <1>8, <1>12 DEF c

\* What a request knows of the code it enters.
LEMMA VerifyEffect ==
    ASSUME Typed, NEW h \in Handlers, NEW e \in Emails, NEW right \in BOOLEAN,
           Verify(h, e, right)
    PROVE  LET c == Latest(e) IN
           /\ c \in DOMAIN codes /\ codes[c].email = e /\ codes[c].attempts < MaxAttempts
           /\ seen' = [seen EXCEPT ![h] = Entered(h, c, right)]
<1> DEFINE c == Latest(e)
<1>1. c \in DOMAIN codes /\ codes[c].email = e /\ codes[c].attempts < MaxAttempts
  BY LatestCode, CodesAre DEF Verify, Open
<1> HIDE DEF c
<1>2. seen' = [seen EXCEPT ![h] = Entered(h, c, right)]
  BY DEF Verify, Typed, TypeOK, c, Entered
<1> QED BY <1>1, <1>2 DEF c

LEMMA TypedInit == RegistrationBounds /\ Init => Typed
<1> SUFFICES ASSUME RegistrationBounds, Init PROVE Typed
  OBVIOUS
<1>1. << >> \in Seq(Code) /\ << >> \in Seq(Nat) /\ Len(<< >>) = 0
  BY EmptySeq
<1>2. TypeOK
  BY <1>1 DEF RegistrationBounds, Init, TypeOK, Code, Nothing, Places
<1>3. SubjectInv
  BY DEF Init, SubjectInv, SubjectOf, ByEmailPlaces, LoginPlaces, Entering
<1> QED BY <1>2, <1>3 DEF Typed

\* A step of h: h comes to a place, with a subject and what it has seen.
Moves(h, place, subject, s) ==
    /\ pc' = [pc EXCEPT ![h] = place]
    /\ op' = [op EXCEPT ![h] = subject]
    /\ seen' = [seen EXCEPT ![h] = s]

RowsKept ==
    /\ UNCHANGED <<required, clock>>
    /\ DOMAIN users' \subseteq Addresses
    /\ \A a \in DOMAIN users' : users'[a] \in UserRow
    /\ codes' \in Seq(Code) /\ wrong' \in Seq(Nat)
    /\ Len(codes') \in Nat /\ Len(wrong') = Len(codes')
    /\ Len(codes) <= Len(codes') /\ DOMAIN codes \subseteq DOMAIN codes'
    /\ \A n \in DOMAIN codes : codes'[n].email = codes[n].email
    /\ received' \in 0..MaxRequests
    /\ arrived' \subseteq DOMAIN codes'
    /\ token' \in [Emails -> 0..MaxTime]
    /\ mixed' \subseteq Addresses

LEMMA TypedMove ==
    ASSUME Typed, NEW h \in Handlers, RowsKept,
           NEW place \in Places, NEW subject \in Addresses \cup {None},
           NEW s \in SeenUpTo(Len(codes')), Moves(h, place, subject, s),
           place = "idle" <=> subject = None,
           place \in ByEmailPlaces => subject \in Emails,
           place \in LoginPlaces => subject \in Socials /\ s.email \in Addresses,
           place \in Entering \cup {"mailing"} =>
             s.code \in DOMAIN codes' /\ codes'[s.code].email = subject
    PROVE  Typed'
<1>1. TypeOK
  BY DEF Typed
<1>2. pc' \in [Handlers -> Places] /\ op' \in [Handlers -> Addresses \cup {None}]
  BY <1>1 DEF Moves, TypeOK
<1>3. seen' \in [Handlers -> SeenUpTo(Len(codes'))]
  <2>1. seen \in [Handlers -> SeenUpTo(Len(codes))]
    BY <1>1 DEF TypeOK, SeenUpTo
  <2>2. SeenUpTo(Len(codes)) \subseteq SeenUpTo(Len(codes'))
    <3>1. Len(codes) <= Len(codes') /\ Len(codes) \in Nat /\ Len(codes') \in Nat
      BY CodesAre DEF RowsKept
    <3> QED BY <3>1 DEF SeenUpTo
  <2> QED BY <2>1, <2>2 DEF Moves
<1>4. TypeOK'
  BY <1>1, <1>2, <1>3 DEF TypeOK, RowsKept, SeenUpTo, Code, UserRow
<1>5. ASSUME NEW g \in Handlers
      PROVE  SubjectOf(g)'
  <2>1. CASE g = h
    <3>1. pc'[g] = place /\ op'[g] = subject /\ seen'[g] = s
      BY <1>1, <2>1 DEF Moves, TypeOK
    <3> QED BY <3>1 DEF SubjectOf
  <2>2. CASE g # h
    <3>1. pc'[g] = pc[g] /\ op'[g] = op[g] /\ seen'[g] = seen[g]
      BY <1>1, <2>2 DEF Moves, TypeOK
    <3>2. SubjectOf(g)
      BY DEF Typed, SubjectInv
    <3> QED BY <3>1, <3>2 DEF SubjectOf, RowsKept
  <2> QED BY <2>1, <2>2
<1> QED BY <1>4, <1>5 DEF Typed, SubjectInv

LEMMA SeenTyped == Typed => seen \in [Handlers -> SeenUpTo(Len(codes))]
BY DEF Typed, TypeOK, SeenUpTo

LEMMA NothingSeen == ASSUME Typed PROVE Nothing \in SeenUpTo(Len(codes))
<1>1. Len(codes) \in Nat
  BY CodesAre
<1> QED BY <1>1 DEF Nothing, SeenUpTo

\* What a step of a request does not touch keeps its type.
LEMMA SameCodes ==
    ASSUME Typed, UNCHANGED <<required, users, codes, token, clock>>,
           wrong' \in Seq(Nat), Len(wrong') = Len(codes), arrived' \subseteq DOMAIN codes,
           received' \in 0..MaxRequests, mixed' \subseteq Addresses
    PROVE  RowsKept
<1>1. Len(codes) \in Nat
  BY CodesAre
<1> QED BY <1>1 DEF Typed, TypeOK, RowsKept, Code, UserRow

LEMMA StartTyped ==
    ASSUME Typed, NEW h \in Handlers, NEW subject \in Addresses, NEW place,
           Start(h, subject, place)
    PROVE  received' \in 0..MaxRequests /\ mixed' \subseteq Addresses
BY Constants DEF Typed, TypeOK, Start

LEMMA TypedStart ==
    ASSUME Typed, NEW h \in Handlers,
           \/ \E e \in Emails : Send(h, e) \/ Signup(h, e)
           \/ \E e \in Emails, right \in BOOLEAN : Verify(h, e, right)
           \/ \E s \in Socials, e \in Emails \cup {None} : FindBySns(h, s, e)
    PROVE  Typed'
<1>0. seen[h] \in SeenUpTo(Len(codes)) /\ arrived \subseteq DOMAIN codes
      /\ wrong \in Seq(Nat) /\ Len(wrong) = Len(codes)
      /\ seen \in [Handlers -> SeenUpTo(Len(codes))]
  BY SeenTyped DEF Typed, TypeOK
<1>1. ASSUME NEW e \in Emails, Send(h, e) \/ Signup(h, e)
      PROVE  Typed'
  <2>1. PICK place \in {"cooling", "creating"} : Start(h, e, place)
    BY <1>1 DEF Send, Signup
  <2>2. /\ UNCHANGED <<required, users, codes, arrived, token, clock, seen, wrong>>
        /\ e \in Addresses /\ e # None
    BY <1>1, Constants DEF Send, Signup, Addresses
  <2>3. RowsKept
    BY <1>0, <2>1, <2>2, StartTyped, SameCodes
  <2>4. Moves(h, place, e, seen[h])
    BY <1>0, <2>1, <2>2 DEF Start, Moves
  <2> QED
    BY <1>0, <2>2, <2>3, <2>4, TypedMove DEF Places, ByEmailPlaces, LoginPlaces, Entering
<1>2. ASSUME NEW e \in Emails, NEW right \in BOOLEAN, Verify(h, e, right)
      PROVE  Typed'
  <2> DEFINE c == Latest(e)
             now == Entered(h, c, right)
  <2>1. c \in DOMAIN codes /\ codes[c].email = e /\ seen' = [seen EXCEPT ![h] = now]
    BY <1>0, <1>2, VerifyEffect
  <2> HIDE DEF c
  <2>2. codes[c].attempts \in Nat /\ c \in 0..Len(codes)
    BY <2>1, CodesAre DEF Code
  <2>3. now \in SeenUpTo(Len(codes)) /\ now.code = c
    <3>1. PICK k \in Nat : k = codes[c].attempts + (IF right THEN 0 ELSE 1)
      BY <2>2
    <3>2. now = [seen[h] EXCEPT !.code = c, !.right = right, !.attempts = k]
      BY <3>1 DEF Entered
    <3> HIDE DEF now
    <3> QED BY <1>0, <2>2, <3>2 DEF SeenUpTo
  <2> HIDE DEF now
  <2>4. Start(h, e, "comparing")
        /\ UNCHANGED <<required, users, codes, arrived, token, clock, wrong>>
        /\ e \in Addresses /\ e # None
    BY <1>2, Constants DEF Verify, Addresses
  <2>5. RowsKept
    BY <1>0, <2>1, <2>4, StartTyped, SameCodes
  <2>6. Moves(h, "comparing", e, now)
    BY <2>1, <2>4 DEF Start, Moves
  <2> QED
    BY <2>1, <2>3, <2>4, <2>5, <2>6, TypedMove DEF Places, ByEmailPlaces, LoginPlaces, Entering
<1>3. ASSUME NEW s \in Socials, NEW e \in Emails \cup {None}, FindBySns(h, s, e)
      PROVE  Typed'
  <2>1. PICK place \in {"inserting", "byEmail"} : Start(h, s, place)
    BY <1>3 DEF FindBySns
  <2>2. PICK a \in Addresses : seen' = [seen EXCEPT ![h].email = a]
    BY <1>3 DEF FindBySns, Addresses
  <2>3. UNCHANGED <<required, users, codes, arrived, token, clock, wrong>>
        /\ s \in Addresses /\ s # None
    BY <1>3, Constants DEF FindBySns, Addresses
  <2>4. RowsKept
    BY <1>0, <2>1, <2>3, StartTyped, SameCodes
  <2> DEFINE now == [seen[h] EXCEPT !.email = a]
  <2>5. now \in SeenUpTo(Len(codes)) /\ now.email = a
    BY <1>0 DEF SeenUpTo
  <2>6. Moves(h, place, s, now)
    BY <1>0, <2>1, <2>2 DEF Start, Moves
  <2> HIDE DEF now
  <2> QED
    BY <2>2, <2>3, <2>4, <2>5, <2>6, TypedMove DEF Places, ByEmailPlaces, LoginPlaces, Entering
<1> QED BY <1>1, <1>2, <1>3

\* A request that ends.
LEMMA TypedFinish ==
    ASSUME Typed, NEW h \in Handlers, Finish(h), RowsKept
    PROVE  Typed'
<1>1. Moves(h, "idle", None, Nothing)
  BY DEF Finish, Moves
<1>2. Nothing \in SeenUpTo(Len(codes'))
  <2>1. Len(codes') \in Nat
    BY DEF RowsKept
  <2> QED BY <2>1 DEF Nothing, SeenUpTo
<1> QED
  BY <1>1, <1>2, TypedMove DEF Places, ByEmailPlaces, LoginPlaces, Entering

LEMMA TypedStep ==
    ASSUME Typed, [Next]_vars
    PROVE  Typed'
<1>0. TypeOK /\ SubjectInv
  BY DEF Typed
<1>1. ASSUME NEW h \in Handlers, Finish(h), Mail(h) \/ CheckCooldown(h) \/ Fail(h)
      PROVE  Typed'
  <2>1. /\ UNCHANGED <<required, users, codes, token, clock, wrong, received, mixed>>
        /\ arrived' \subseteq DOMAIN codes
    BY <1>0, <1>1 DEF Mail, CheckCooldown, Fail, Finish, TypeOK, SubjectInv, SubjectOf
  <2>2. RowsKept
    BY <1>0, <2>1, SameCodes DEF TypeOK
  <2> QED BY <1>1, <2>2, TypedFinish
<1>2. ASSUME NEW h \in Handlers, CreateLocal(h) \/ Link(h) \/ InsertSocial(h)
      PROVE  Typed'
  <2>1. Finish(h) /\ UNCHANGED <<required, codes, arrived, token, clock, wrong, received, mixed>>
    BY <1>2 DEF CreateLocal, Link, InsertSocial, Finish
  <2>2. pc[h] \in LoginPlaces => op[h] \in Socials /\ seen[h].email \in Addresses
    BY <1>0 DEF SubjectInv, SubjectOf
  <2>3. pc[h] = "creating" => op[h] \in Addresses
    BY <1>0 DEF SubjectInv, SubjectOf, ByEmailPlaces, Addresses
  <2>4. DOMAIN users' \subseteq Addresses /\ \A a \in DOMAIN users' : users'[a] \in UserRow
    <3>1. DOMAIN users \subseteq Addresses /\ \A a \in DOMAIN users : users[a] \in UserRow
      BY <1>0 DEF TypeOK, UserRow
    <3>2. CASE CreateLocal(h)
      <4>1. [local |-> TRUE, sns |-> None] \in UserRow
        BY DEF UserRow
      <4> QED BY <2>3, <3>1, <3>2, <4>1 DEF CreateLocal, AddRow
    <3>3. CASE Link(h)
      <4>1. op[h] \in Socials
        BY <2>2, <3>3 DEF Link, LoginPlaces
      <4>2. \A r \in UserRow : [r EXCEPT !.sns = op[h]] \in UserRow
        BY <4>1 DEF UserRow
      <4> QED BY <3>1, <3>3, <4>2 DEF Link
    <3>4. CASE InsertSocial(h)
      <4>1. op[h] \in Socials /\ seen[h].email \in Addresses
        BY <2>2, <3>4 DEF InsertSocial, LoginPlaces
      <4>2. PICK row \in UserRow : row = [local |-> FALSE, sns |-> op[h]]
        BY <4>1 DEF UserRow
      <4>3. users' = users \/ AddRow(seen[h].email, row)
        BY <3>4, <4>2 DEF InsertSocial
      <4> QED BY <3>1, <4>1, <4>3 DEF AddRow
    <3> QED BY <1>2, <3>2, <3>3, <3>4
  <2>5. RowsKept
    <3>1. Len(codes) \in Nat
      BY CodesAre
    <3> QED BY <1>0, <2>1, <2>4, <3>1 DEF RowsKept, TypeOK, Code
  <2> QED BY <2>1, <2>5, TypedFinish
<1>3. ASSUME NEW h \in Handlers, CheckCooldown(h) \/ FindByEmail(h), ~Finish(h)
      PROVE  Typed'
  <2>1. UNCHANGED <<required, users, codes, arrived, token, clock, wrong, received, mixed, op, seen>>
    BY <1>3 DEF CheckCooldown, FindByEmail, Goto
  <2>2. PICK place \in {"saving", "linking", "inserting"} :
          /\ pc' = [pc EXCEPT ![h] = place]
          /\ place = "saving" => pc[h] = "cooling"
          /\ place # "saving" => pc[h] = "byEmail"
    BY <1>3 DEF CheckCooldown, FindByEmail, Goto
  <2>3. RowsKept
    BY <1>0, <2>1, SameCodes DEF TypeOK
  <2>4. seen[h] \in SeenUpTo(Len(codes)) /\ Moves(h, place, op[h], seen[h])
    BY <1>0, <2>1, <2>2, SeenTyped DEF Moves, TypeOK
  <2>5. /\ op[h] \in Addresses \cup {None} /\ op[h] # None
        /\ place = "saving" => op[h] \in Emails
        /\ place # "saving" => op[h] \in Socials /\ seen[h].email \in Addresses
    BY <1>0, <2>2 DEF TypeOK, SubjectInv, SubjectOf, ByEmailPlaces, LoginPlaces
  <2> QED
    BY <2>1, <2>2, <2>3, <2>4, <2>5, TypedMove DEF Places, ByEmailPlaces, LoginPlaces, Entering
<1>4. ASSUME NEW h \in Handlers, SaveCode(h)
      PROVE  Typed'
  <2>1. /\ codes' \in Seq(Code) /\ Len(codes') = Len(codes) + 1
        /\ DOMAIN codes' = 1..Len(codes) + 1
        /\ \A n \in DOMAIN codes : codes'[n] = codes[n]
        /\ codes'[Len(codes) + 1] = NewCode(op[h])
        /\ wrong' \in Seq(Nat) /\ Len(wrong') = Len(codes')
    BY <1>4, SaveCodeEffect
  <2>2. codes'[Len(codes) + 1].email = op[h]
    BY <2>1 DEF NewCode
  <2>3. Len(codes) \in Nat /\ DOMAIN codes = 1..Len(codes)
    BY CodesAre
  <2> DEFINE now == [seen[h] EXCEPT !.code = Len(codes) + 1]
  <2>4. now \in SeenUpTo(Len(codes')) /\ now.code = Len(codes) + 1
    <3>1. seen[h] \in SeenUpTo(Len(codes)) /\ Len(codes) + 1 \in 0..Len(codes) + 1
      BY <2>3, SeenTyped
    <3>2. now \in SeenUpTo(Len(codes) + 1) /\ now.code = Len(codes) + 1
      BY <3>1 DEF SeenUpTo
    <3> QED BY <2>1, <3>2
  <2>5. Moves(h, "mailing", op[h], now)
    BY <1>0, <1>4, <2>1 DEF SaveCode, Goto, Moves, TypeOK
  <2> HIDE DEF now
  <2>6. RowsKept
    BY <1>0, <1>4, <2>1, <2>3 DEF SaveCode, Goto, RowsKept, TypeOK, UserRow
  <2>7. op[h] \in Emails /\ op[h] # None /\ op[h] \in Addresses
    BY <1>0, <1>4, Constants DEF SaveCode, SubjectInv, SubjectOf, ByEmailPlaces, Addresses
  <2>8. now.code \in DOMAIN codes' /\ codes'[now.code].email = op[h]
    BY <2>1, <2>2, <2>3, <2>4
  <2>9. /\ "mailing" \in Places /\ "mailing" \notin LoginPlaces /\ "mailing" # "idle"
    BY DEF Places, LoginPlaces
  <2> QED
    BY <2>4, <2>5, <2>6, <2>7, <2>8, <2>9, TypedMove
<1>5. ASSUME NEW h \in Handlers, CompareCode(h)
      PROVE  Typed'
  <2>1. PICK d \in SUBSET {"attempts", "verified"} : seen' = [seen EXCEPT ![h].dirty = d]
    BY <1>5 DEF CompareCode
  <2>2. /\ UNCHANGED <<required, users, codes, arrived, token, clock, wrong, received, op, mixed>>
        /\ pc' = [pc EXCEPT ![h] = "writing"] /\ pc[h] = "comparing"
    BY <1>5 DEF CompareCode, Goto
  <2> DEFINE now == [seen[h] EXCEPT !.dirty = d]
  <2>3. seen[h] \in SeenUpTo(Len(codes))
    BY SeenTyped
  <2>4. now \in SeenUpTo(Len(codes)) /\ now.code = seen[h].code
    BY <2>3 DEF SeenUpTo
  <2>5. Moves(h, "writing", op[h], now)
    BY <1>0, <2>1, <2>2 DEF Moves, TypeOK
  <2> HIDE DEF now
  <2>6. RowsKept
    BY <1>0, <2>2, SameCodes DEF TypeOK
  <2>7. op[h] \in Emails /\ op[h] # None /\ op[h] \in Addresses
        /\ seen[h].code \in DOMAIN codes /\ codes[seen[h].code].email = op[h]
    BY <1>0, <2>2, Constants DEF SubjectInv, SubjectOf, ByEmailPlaces, Entering, Addresses
  <2> QED
    BY <2>2, <2>4, <2>5, <2>6, <2>7, TypedMove DEF Places, ByEmailPlaces, LoginPlaces, Entering
<1>6. ASSUME NEW h \in Handlers, WriteCode(h)
      PROVE  Typed'
  <2>1. /\ codes' \in Seq(Code) /\ Len(codes') = Len(codes)
        /\ DOMAIN codes' = DOMAIN codes
        /\ \A n \in DOMAIN codes : codes'[n].email = codes[n].email
        /\ wrong' \in Seq(Nat) /\ Len(wrong') = Len(codes')
    BY <1>6, WriteCodeEffect
  <2>2. /\ UNCHANGED <<required, users, arrived, clock, received, mixed>> /\ Finish(h)
        /\ pc[h] = "writing"
    BY <1>6 DEF WriteCode, Finish
  <2>3. token' \in [Emails -> 0..MaxTime]
    <3>1. token \in [Emails -> 0..MaxTime] /\ clock \in 0..MaxTime
      BY <1>0 DEF TypeOK
    <3>2. \/ token' = token
          \/ token' = [token EXCEPT ![op[h]] = clock]
      BY <1>6 DEF WriteCode, NewToken
    <3> QED BY <3>1, <3>2
  <2>4. RowsKept
    <3>1. Len(codes) \in Nat
      BY CodesAre
    <3> QED BY <1>0, <2>1, <2>2, <2>3, <3>1 DEF RowsKept, TypeOK, UserRow
  <2> QED BY <2>2, <2>4, TypedFinish
<1>7. CASE Tick \/ (\E e \in Emails : SendToken(e)) \/ UNCHANGED vars
  <2>1. UNCHANGED <<required, users, codes, arrived, received, pc, op, seen, wrong, mixed>>
    BY <1>7 DEF Tick, SendToken, vars
  <2>2. clock' \in 1..MaxTime /\ token' \in [Emails -> 0..MaxTime]
    <3>1. clock \in 1..MaxTime /\ clock \in 0..MaxTime /\ token \in [Emails -> 0..MaxTime]
      BY <1>0 DEF TypeOK
    <3>2. CASE Tick
      BY <3>1, <3>2, Constants DEF Tick
    <3>3. CASE \E e \in Emails : SendToken(e)
      BY <3>1, <3>3 DEF SendToken, NewToken
    <3>4. CASE UNCHANGED vars
      BY <3>1, <3>4 DEF vars
    <3> QED BY <1>7, <3>2, <3>3, <3>4
  <2>3. TypeOK'
    BY <1>0, <2>1, <2>2 DEF TypeOK
  <2>4. SubjectInv'
    BY <1>0, <2>1 DEF SubjectInv, SubjectOf
  <2> QED BY <2>3, <2>4 DEF Typed
<1>8. ASSUME NEW h \in Handlers, Step(h)
      PROVE  Typed'
  <2>1. CASE Mail(h) \/ Fail(h) \/ CheckCooldown(h) \/ FindByEmail(h)
    <3>1. Mail(h) \/ Fail(h) => Finish(h)
      BY DEF Mail, Fail
    <3>2. CASE Finish(h) /\ ~FindByEmail(h)
      BY <1>1, <2>1, <3>2
    <3>3. CASE ~Finish(h)
      BY <1>3, <2>1, <3>1, <3>3
    <3>4. FindByEmail(h) => ~Finish(h)
      BY <1>0, Constants DEF FindByEmail, Finish, Goto, SubjectInv, SubjectOf, TypeOK, LoginPlaces
    <3> QED BY <3>2, <3>3, <3>4
  <2>2. CASE \/ \E e \in Emails : Send(h, e) \/ Signup(h, e)
             \/ \E e \in Emails, right \in BOOLEAN : Verify(h, e, right)
             \/ \E s \in Socials, e \in Emails \cup {None} : FindBySns(h, s, e)
    BY <2>2, TypedStart
  <2>3. CASE \/ CreateLocal(h) \/ Link(h) \/ InsertSocial(h)
             \/ SaveCode(h) \/ CompareCode(h) \/ WriteCode(h)
    BY <1>2, <1>4, <1>5, <1>6, <2>3
  <2> QED BY <1>8, <2>1, <2>2, <2>3 DEF Step
<1> QED BY <1>7, <1>8 DEF Next

-----------------------------------------------------------------------------
(* What every step keeps.                                                   *)

Starts(h) == \E subject \in Addresses, place \in Places \ {"idle"} : Start(h, subject, place)

\* A request that has come and goes on.
Goes(h) ==
    /\ pc[h] # "idle" /\ pc'[h] # "idle"
    /\ op'[h] = op[h] /\ mixed' = mixed

Ends(h) == pc[h] # "idle" /\ Finish(h)

LEMMA StepOf ==
    ASSUME Typed, NEW h \in Handlers, Step(h)
    PROVE  /\ Starts(h) \/ Goes(h) \/ Ends(h)
           /\ \A g \in Handlers \ {h} : pc'[g] = pc[g] /\ op'[g] = op[g] /\ seen'[g] = seen[g]
<1>0. TypeOK
  BY DEF Typed
<1>1. CASE \/ \E e \in Emails : Send(h, e) \/ Signup(h, e)
           \/ \E e \in Emails, right \in BOOLEAN : Verify(h, e, right)
           \/ \E s \in Socials, e \in Emails \cup {None} : FindBySns(h, s, e)
  <2>1. PICK subject \in Addresses, place \in Places \ {"idle"} : Start(h, subject, place)
    BY <1>1 DEF Send, Signup, Verify, FindBySns, Addresses, Places
  <2>2. \A g \in Handlers \ {h} : seen'[g] = seen[g]
    BY <1>0, <1>1 DEF Send, Signup, Verify, FindBySns, TypeOK
  <2> QED BY <1>0, <2>1, <2>2 DEF Starts, Start, TypeOK
<1>2. CASE \/ CheckCooldown(h) \/ Mail(h) \/ WriteCode(h) \/ CreateLocal(h)
           \/ Link(h) \/ InsertSocial(h) \/ SaveCode(h) \/ CompareCode(h) \/ FindByEmail(h)
           \/ Fail(h)
  <2>1. pc[h] # "idle"
    BY <1>2 DEF CheckCooldown, Mail, WriteCode, CreateLocal, Link, InsertSocial, SaveCode,
                CompareCode, FindByEmail, Fail
  <2>2. \/ Finish(h)
        \/ /\ \E place \in Places \ {"idle"} : Goto(h, place)
           /\ \A g \in Handlers \ {h} : seen'[g] = seen[g]
    BY <1>0, <1>2 DEF CheckCooldown, Mail, WriteCode, CreateLocal, Link, InsertSocial, SaveCode,
                CompareCode, FindByEmail, Fail, Places, TypeOK
  <2>3. CASE Finish(h)
    BY <1>0, <2>1, <2>3 DEF Ends, Finish, TypeOK
  <2>4. CASE /\ \E place \in Places \ {"idle"} : Goto(h, place)
             /\ \A g \in Handlers \ {h} : seen'[g] = seen[g]
    BY <1>0, <2>1, <2>4 DEF Goes, Goto, TypeOK
  <2> QED BY <2>2, <2>3, <2>4
<1> QED BY <1>1, <1>2 DEF Step

LEMMA Grows ==
    ASSUME Typed, [Next]_vars
    PROVE  /\ required' = required /\ clock <= clock'
           /\ DOMAIN codes \subseteq DOMAIN codes'
           /\ \A n \in DOMAIN codes :
                codes'[n].email = codes[n].email /\ codes'[n].made = codes[n].made
           /\ arrived \subseteq arrived' /\ mixed \subseteq mixed'
<1>0. clock \in Nat /\ Len(codes) \in Nat /\ DOMAIN codes = 1..Len(codes)
  BY CodesAre DEF Typed, TypeOK
<1>1. ASSUME NEW h \in Handlers, Step(h)
      PROVE  /\ required' = required /\ clock' = clock
             /\ arrived \subseteq arrived' /\ mixed \subseteq mixed'
  <2>1. required' = required /\ clock' = clock /\ arrived \subseteq arrived'
    BY <1>1 DEF Step, Fail, Send, Signup, Verify, FindBySns, CheckCooldown, Mail, WriteCode,
                CreateLocal, Link, InsertSocial, SaveCode, CompareCode, FindByEmail
  <2>2. mixed \subseteq mixed'
    BY <1>1, StepOf DEF Starts, Start, Goes, Ends, Finish
  <2> QED BY <2>1, <2>2
<1>2. ASSUME NEW h \in Handlers, Step(h)
      PROVE  /\ DOMAIN codes \subseteq DOMAIN codes'
             /\ \A n \in DOMAIN codes :
                  codes'[n].email = codes[n].email /\ codes'[n].made = codes[n].made
  <2>1. CASE SaveCode(h)
    BY <1>0, <2>1, SaveCodeEffect
  <2>2. CASE WriteCode(h)
    BY <2>2, WriteCodeEffect
  <2>3. CASE codes' = codes
    BY <2>3
  <2>4. SaveCode(h) \/ WriteCode(h) \/ codes' = codes
    BY <1>2 DEF Step, Fail, Send, Signup, Verify, FindBySns, CheckCooldown, Mail,
                CreateLocal, Link, InsertSocial, CompareCode, FindByEmail
  <2> QED BY <2>1, <2>2, <2>3, <2>4
<1>3. CASE Tick \/ (\E e \in Emails : SendToken(e)) \/ UNCHANGED vars
  BY <1>0, <1>3 DEF Tick, SendToken, vars
<1> QED BY <1>0, <1>1, <1>2, <1>3 DEF Next

LEMMA VerifiedStays ==
    ASSUME Typed, [Next]_vars, NEW e, Verified(e)
    PROVE  Verified(e)'
<1>1. PICK n \in arrived : codes[n].email = e
  BY DEF Verified
<1>2. n \in DOMAIN codes
  BY DEF Typed, TypeOK
<1>3. n \in arrived' /\ codes'[n].email = e
  BY <1>1, <1>2, Grows
<1> QED BY <1>3 DEF Verified
-----------------------------------------------------------------------------
(* A token and an account presuppose a code that arrived.                   *)

LEMMA VerifiedStep ==
    ASSUME Typed, VerifiedInv, [Next]_vars
    PROVE  VerifiedInv'
<1>0. TypeOK /\ SubjectInv /\ required' = required
  BY Grows DEF Typed
<1> SUFFICES ASSUME required
             PROVE  /\ \A a \in DOMAIN users' : users'[a].local => Verified(a)'
                    /\ \A e \in Emails : token'[e] # 0 => Verified(e)'
                    /\ \A h \in Handlers : \A e :
                         /\ e = op'[h]
                         /\ pc'[h] = "creating" \/ (pc'[h] \in Entering /\ seen'[h].right)
                         => Verified(e)'
  BY <1>0 DEF VerifiedInv, Verified
<1>1. ASSUME NEW h \in Handlers, Step(h)
      PROVE  \A e \in Emails : token'[e] # 0 => Verified(e)
  <2>1. CASE WriteCode(h) /\ token' # token
    <3>1. Verified(op[h])
      BY <2>1 DEF WriteCode, VerifiedInv, Entering
    <3>2. token' = [token EXCEPT ![op[h]] = clock]
      BY <2>1 DEF WriteCode, NewToken
    <3> QED BY <1>0, <3>1, <3>2 DEF VerifiedInv, TypeOK
  <2>2. CASE token' = token
    BY <2>2 DEF VerifiedInv
  <2> QED
    BY <1>1, <2>1, <2>2
    DEF Step, Fail, Send, Signup, Verify, FindBySns, CheckCooldown, Mail, WriteCode,
        CreateLocal, Link, InsertSocial, SaveCode, CompareCode, FindByEmail
<1>2. ASSUME NEW h \in Handlers, Step(h)
      PROVE  /\ pc'[h] = "creating" => Verified(op'[h])
             /\ pc'[h] \in Entering /\ seen'[h].right => Verified(op'[h])
  <2>1. CASE \E e \in Emails : Signup(h, e)
    <3>1. PICK e \in Emails : Signup(h, e)
      BY <2>1
    <3>2. Verified(e)
      BY <3>1 DEF Signup, Usable, VerifiedInv
    <3> QED BY <1>0, <3>1, <3>2 DEF Signup, Start, TypeOK, Entering
  <2>2. CASE \E e \in Emails, right \in BOOLEAN : Verify(h, e, right)
    <3>1. PICK e \in Emails, right \in BOOLEAN : Verify(h, e, right)
      BY <2>2
    <3>2. /\ Latest(e) \in DOMAIN codes /\ codes[Latest(e)].email = e
          /\ seen' = [seen EXCEPT ![h] = Entered(h, Latest(e), right)]
      BY <3>1, VerifyEffect
    <3>3. right => Verified(e)
      BY <3>1, <3>2 DEF Verify, Verified
    <3>4. pc'[h] = "comparing" /\ op'[h] = e /\ seen'[h] = Entered(h, Latest(e), right)
      BY <1>0, <3>1, <3>2 DEF Verify, Start, TypeOK
    <3>5. Entered(h, Latest(e), right).right = right
      BY <1>0 DEF Entered, TypeOK
    <3> QED BY <3>3, <3>4, <3>5
  <2>3. CASE CompareCode(h)
    <3>1. /\ pc[h] \in Entering /\ pc'[h] = "writing" /\ op'[h] = op[h]
          /\ seen'[h].right = seen[h].right
      BY <1>0, <2>3 DEF CompareCode, Goto, TypeOK, Entering
    <3> QED BY <3>1 DEF VerifiedInv
  <2>4. CASE pc'[h] \notin Entering \cup {"creating"}
    BY <2>4
  <2>5. \/ \E e \in Emails : Signup(h, e)
        \/ \E e \in Emails, right \in BOOLEAN : Verify(h, e, right)
        \/ CompareCode(h)
        \/ pc'[h] \notin Entering \cup {"creating"}
    BY <1>0, <1>2
    DEF Step, Fail, Send, FindBySns, CheckCooldown, Mail, WriteCode, Start, Goto, Finish,
        CreateLocal, Link, InsertSocial, SaveCode, FindByEmail, TypeOK, Entering
  <2> QED BY <2>1, <2>2, <2>3, <2>4, <2>5
<1>3. ASSUME NEW h \in Handlers, Step(h)
      PROVE  \A g \in Handlers :
               /\ pc'[g] = "creating" => Verified(op'[g])
               /\ pc'[g] \in Entering /\ seen'[g].right => Verified(op'[g])
  BY <1>2, <1>3, StepOf DEF VerifiedInv
<1>6. ASSUME NEW h \in Handlers, Step(h)
      PROVE  \A a \in DOMAIN users' : users'[a].local => Verified(a)
  <2>1. CASE CreateLocal(h)
    <3>1. Verified(op[h])
      BY <2>1 DEF CreateLocal, VerifiedInv
    <3> QED BY <2>1, <3>1 DEF CreateLocal, AddRow, VerifiedInv
  <2>2. CASE InsertSocial(h)
    BY <2>2 DEF InsertSocial, AddRow, VerifiedInv
  <2>3. CASE Link(h)
    <3>1. /\ DOMAIN users' = DOMAIN users
          /\ \A a \in DOMAIN users : users'[a].local = users[a].local
      BY <1>0, <2>3 DEF Link, TypeOK
    <3> QED BY <3>1 DEF VerifiedInv
  <2>4. CASE users' = users
    BY <2>4 DEF VerifiedInv
  <2> QED
    BY <1>6, <2>1, <2>2, <2>3, <2>4
    DEF Step, Fail, Send, Signup, Verify, FindBySns, CheckCooldown, Mail, WriteCode,
        SaveCode, CompareCode, FindByEmail
<1>4. CASE Tick \/ (\E e \in Emails : SendToken(e)) \/ UNCHANGED vars
  <2>1. UNCHANGED <<users, pc, op, seen, token>>
    BY <1>4 DEF Tick, SendToken, vars
  <2> QED BY <2>1, VerifiedStays DEF VerifiedInv
<1>5. ASSUME NEW h \in Handlers, Step(h)
      PROVE  /\ \A a \in DOMAIN users' : users'[a].local => Verified(a)'
             /\ \A e \in Emails : token'[e] # 0 => Verified(e)'
             /\ \A g \in Handlers : \A e :
                  /\ e = op'[g]
                  /\ pc'[g] = "creating" \/ (pc'[g] \in Entering /\ seen'[g].right)
                  => Verified(e)'
  BY <1>1, <1>3, <1>5, <1>6, VerifiedStays
<1> QED BY <1>4, <1>5 DEF Next
-----------------------------------------------------------------------------
(* Requests about one subject.                                              *)

LEMMA AloneStep ==
    ASSUME Typed, AloneInv, [Next]_vars
    PROVE  AloneInv'
<1>0. TypeOK
  BY DEF Typed
<1>1. ASSUME NEW h \in Handlers, Step(h)
      PROVE  AloneInv'
  <2> SUFFICES ASSUME NEW f \in Running', NEW g \in Running', op'[f] = op'[g], f # g
               PROVE  op'[f] \in mixed'
    BY DEF AloneInv
  <2>1. f \in Handlers /\ g \in Handlers /\ pc'[f] # "idle" /\ pc'[g] # "idle"
    BY DEF Running
  <2>2. \A x \in Handlers \ {h} : pc'[x] = pc[x] /\ op'[x] = op[x]
    BY <1>1, StepOf
  <2>3. CASE Starts(h)
    <3>1. PICK subject, place : Start(h, subject, place)
      BY <2>3 DEF Starts
    <3>2. op'[h] = subject /\ pc[h] = "idle"
      BY <1>0, <3>1 DEF Start, TypeOK
    <3>3. \A x \in Running : op[x] = subject => subject \in mixed'
      BY <3>1 DEF Start
    <3>4. mixed \subseteq mixed'
      BY <3>1 DEF Start
    <3> QED BY <2>1, <2>2, <3>2, <3>3, <3>4 DEF AloneInv, Running
  <2>4. CASE Goes(h)
    BY <2>1, <2>2, <2>4 DEF Goes, AloneInv, Running
  <2>5. CASE Ends(h)
    <3>1. pc'[h] = "idle" /\ mixed' = mixed
      BY <1>0, <2>5 DEF Ends, Finish, TypeOK
    <3> QED BY <2>1, <2>2, <3>1 DEF AloneInv, Running
  <2> QED BY <1>1, <2>3, <2>4, <2>5, StepOf
<1>2. CASE Tick \/ (\E e \in Emails : SendToken(e)) \/ UNCHANGED vars
  <2>1. UNCHANGED <<pc, op, mixed>>
    BY <1>2 DEF Tick, SendToken, vars
  <2> QED BY <2>1 DEF AloneInv, Running
<1> QED BY <1>1, <1>2 DEF Next
-----------------------------------------------------------------------------
(* The rows of a social account.                                            *)

\* The accounts that led to no row, or to one, of which no request is about s.
Single(s, rows) == \A a, b \in DOMAIN rows : rows[a].sns = s /\ rows[b].sns = s => a = b
Absent(s, rows) == \A a \in DOMAIN rows : rows[a].sns # s

LEMMA UsersStep ==
    ASSUME Typed, NEW h \in Handlers, Step(h), NEW s \in Socials
    PROVE  /\ op[h] # s => (Absent(s, users) => Absent(s, users'))
                           /\ (Single(s, users) => Single(s, users'))
           /\ users' # users => Ends(h)
           /\ pc[h] \in LoginPlaces /\ Absent(s, users) => Single(s, users')
<1>0. TypeOK /\ s # None /\ None # s
  BY Constants DEF Typed
<1>1. CASE CreateLocal(h)
  <2>1. Finish(h) /\ pc[h] = "creating"
    BY <1>1 DEF CreateLocal
  <2>2. PICK row : row.sns = None /\ (users' = users \/ AddRow(op[h], row))
    <3>1. [local |-> TRUE, sns |-> None].sns = None
      OBVIOUS
    <3> QED BY <1>1, <3>1 DEF CreateLocal
  <2>3. \A a \in DOMAIN users' :
          users'[a].sns = s => a \in DOMAIN users /\ users[a].sns = s
    BY <1>0, <2>2 DEF AddRow
  <2> QED BY <2>1, <2>3 DEF Ends, Absent, Single, LoginPlaces
<1>2. CASE Link(h)
  <2>1. Finish(h) /\ pc[h] = "linking"
    BY <1>2 DEF Link
  <2>2. /\ DOMAIN users' = DOMAIN users
        /\ \A a \in DOMAIN users : users'[a].sns = IF a = seen[h].email THEN op[h] ELSE users[a].sns
    BY <1>0, <1>2 DEF Link, TypeOK
  <2> QED BY <2>1, <2>2 DEF Ends, Absent, Single
<1>3. CASE InsertSocial(h)
  <2>1. Finish(h) /\ pc[h] = "inserting"
    BY <1>3 DEF InsertSocial
  <2>2. PICK row : row.sns = op[h] /\ (users' = users \/ AddRow(seen[h].email, row))
    <3>1. [local |-> FALSE, sns |-> op[h]].sns = op[h]
      OBVIOUS
    <3> QED BY <1>3, <3>1 DEF InsertSocial
  <2>3. \A a \in DOMAIN users' :
          users'[a].sns = s => \/ a \in DOMAIN users /\ users[a].sns = s
                               \/ a = seen[h].email /\ op[h] = s
    BY <2>2 DEF AddRow
  <2> QED BY <2>1, <2>3 DEF Ends, Absent, Single
<1>4. CASE users' = users
  BY <1>4 DEF Absent, Single
<1> QED
  BY <1>1, <1>2, <1>3, <1>4
  DEF Step, Fail, Send, Signup, Verify, FindBySns, CheckCooldown, Mail, WriteCode,
      SaveCode, CompareCode, FindByEmail

LEMMA SocialStep ==
    ASSUME Typed, AloneInv, SocialInv, [Next]_vars
    PROVE  SocialInv'
<1>0. TypeOK /\ SubjectInv /\ mixed \subseteq mixed'
  BY Grows DEF Typed
<1>1. ASSUME NEW h \in Handlers, Step(h), NEW s \in Socials \ mixed'
      PROVE  Single(s, users') /\ \A g \in Running' : op'[g] = s => Absent(s, users')
  <2>1. /\ s \notin mixed /\ Single(s, users)
        /\ \A g \in Running : op[g] = s => Absent(s, users)
    BY <1>0, <1>1 DEF SocialInv, Single, Absent
  <2>2. \A g \in Handlers \ {h} : pc'[g] = pc[g] /\ op'[g] = op[g]
    BY <1>1, StepOf
  <2>3. CASE Starts(h)
    <3>1. users' = users
      BY <1>0, <1>1, <2>3, UsersStep DEF Ends, Starts, Start
    <3>2. op'[h] = s => Absent(s, users)
      <4>1. CASE \E t \in Socials, e \in Emails \cup {None} : FindBySns(h, t, e)
        BY <1>0, <4>1 DEF FindBySns, Start, Absent, TypeOK
      <4>2. CASE \/ \E e \in Emails : Send(h, e) \/ Signup(h, e)
                 \/ \E e \in Emails, right \in BOOLEAN : Verify(h, e, right)
        <5>1. op'[h] \in Emails
          BY <1>0, <4>2 DEF Send, Signup, Verify, Start, TypeOK
        <5> QED BY <5>1, <1>1, Constants
      <4> QED
        BY <1>1, <2>3, <4>1, <4>2
        DEF Step, Fail, Starts, Start, CheckCooldown, Mail, WriteCode, CreateLocal, Link,
            InsertSocial, SaveCode, CompareCode, FindByEmail
    <3> QED BY <2>1, <2>2, <3>1, <3>2 DEF Running
  <2>4. CASE Goes(h)
    <3>1. users' = users
      <4>1. ~Ends(h)
        BY <1>0, <2>4 DEF Goes, Ends, Finish, TypeOK
      <4> QED BY <1>1, <4>1, UsersStep
    <3> QED BY <2>1, <2>2, <2>4, <3>1 DEF Goes, Running
  <2>5. CASE Ends(h)
    <3>1. pc'[h] = "idle" /\ h \in Running
      BY <1>0, <2>5 DEF Ends, Finish, TypeOK, Running
    <3>2. CASE op[h] = s
      <4>1. Absent(s, users)
        BY <2>1, <3>1, <3>2
      <4>2. pc[h] \in LoginPlaces
        BY <1>0, <1>1, <3>1, <3>2, Constants
        DEF SubjectInv, SubjectOf, TypeOK, Places, ByEmailPlaces, LoginPlaces, Running
      <4>3. Single(s, users')
        BY <1>1, <4>1, <4>2, UsersStep
      <4>4. \A g \in Running' : op'[g] # s
        BY <2>1, <2>2, <3>1, <3>2 DEF AloneInv, Running
      <4> QED BY <4>3, <4>4
    <3>3. CASE op[h] # s
      <4>1. Single(s, users') /\ (Absent(s, users) => Absent(s, users'))
        BY <1>1, <2>1, <3>3, UsersStep
      <4> QED BY <2>1, <2>2, <3>1, <4>1 DEF Running
    <3> QED BY <3>2, <3>3
  <2> QED BY <1>1, <2>3, <2>4, <2>5, StepOf
<1>2. ASSUME NEW h \in Handlers, Step(h)
      PROVE  SocialInv'
  BY <1>1, <1>2 DEF SocialInv, Single, Absent
<1>3. CASE Tick \/ (\E e \in Emails : SendToken(e)) \/ UNCHANGED vars
  <2>1. UNCHANGED <<pc, op, mixed, users>>
    BY <1>3 DEF Tick, SendToken, vars
  <2> QED BY <2>1 DEF SocialInv, Running
<1> QED BY <1>2, <1>3 DEF Next
-----------------------------------------------------------------------------
(* The time between two codes of an address.                                *)

\* A request that comes to save a code has found the last one old enough.
LEMMA CooledDown ==
    ASSUME Typed, ApartInv, NEW h \in Handlers, CheckCooldown(h), ~Finish(h),
           NEW n \in DOMAIN codes, codes[n].email = op[h], op[h] \notin mixed
    PROVE  clock >= codes[n].made + Cooldown
<1> DEFINE l == Latest(op[h])
<1>1. l \in DOMAIN codes /\ l # 0 /\ codes[l].email = op[h] /\ n <= l
  BY LatestCode, CodesAre
<1>2. ~ (l # 0 /\ clock - codes[l].made < Cooldown)
  BY DEF CheckCooldown
<1> HIDE DEF l
<1>3. clock \in Nat /\ codes[l].made \in Nat /\ codes[n].made \in Nat
      /\ Len(codes) \in Nat /\ n \in 1..Len(codes) /\ l \in 1..Len(codes)
  BY <1>1, CodesAre, TimesAre
<1>4. clock >= codes[l].made + Cooldown
  BY <1>1, <1>2, <1>3, Constants
<1>5. CASE n = l
  BY <1>4, <1>5
<1>6. CASE n # l
  <2>1. l \in n + 1 .. Len(codes)
    BY <1>1, <1>3, <1>6
  <2>2. codes[l].made >= codes[n].made + Cooldown
    BY <1>1, <2>1 DEF ApartInv, CodesApart
  <2> QED BY <1>3, <1>4, <2>2, Constants
<1> QED BY <1>5, <1>6

LEMMA ApartStep ==
    ASSUME Typed, AloneInv, ApartInv, [Next]_vars
    PROVE  ApartInv'
<1>0. /\ TypeOK /\ SubjectInv /\ clock \in Nat /\ clock' \in Nat
      /\ clock <= clock' /\ mixed \subseteq mixed'
      /\ Len(codes) \in Nat /\ DOMAIN codes = 1..Len(codes)
      /\ \A n \in DOMAIN codes : codes[n].made \in Nat
      /\ \A n \in DOMAIN codes :
           codes'[n].email = codes[n].email /\ codes'[n].made = codes[n].made
  <2>1. clock' \in Nat
    <3>1. clock' \in 1..MaxTime
      BY TypedStep DEF Typed, TypeOK
    <3> QED BY <3>1, Constants
  <2> QED BY <2>1, Grows, CodesAre, TimesAre DEF Typed
\* No code is added.
<1>1. ASSUME Len(codes') = Len(codes), DOMAIN codes' = DOMAIN codes,
             \A g \in Handlers : pc'[g] = "saving" =>
               /\ op'[g] = op[g]
               /\ \/ pc[g] = "saving"
                  \/ CheckCooldown(g) /\ ~Finish(g)
      PROVE  ApartInv'
  <2> SUFFICES ASSUME NEW n \in DOMAIN codes
               PROVE  /\ codes'[n].made <= clock'
                      /\ codes'[n].email \notin mixed' =>
                           /\ \A m \in n + 1 .. Len(codes') :
                                codes'[m].email = codes'[n].email =>
                                  codes'[m].made >= codes'[n].made + Cooldown
                           /\ \A g \in Handlers : pc'[g] = "saving" /\ op'[g] = codes'[n].email
                                => clock' >= codes'[n].made + Cooldown
    BY <1>1 DEF ApartInv, CodesApart
  <2>1. codes'[n].made <= clock'
    BY <1>0 DEF ApartInv
  <2> SUFFICES ASSUME codes[n].email \notin mixed
               PROVE  /\ \A m \in n + 1 .. Len(codes) :
                           codes[m].email = codes[n].email =>
                             codes[m].made >= codes[n].made + Cooldown
                      /\ \A g \in Handlers : pc'[g] = "saving" /\ op'[g] = codes[n].email
                           => clock' >= codes[n].made + Cooldown
    <3>1. \A m \in n + 1 .. Len(codes) : m \in DOMAIN codes
      BY <1>0
    <3> QED BY <1>0, <1>1, <2>1, <3>1
  <2>2. \A m \in n + 1 .. Len(codes) :
          codes[m].email = codes[n].email => codes[m].made >= codes[n].made + Cooldown
    BY DEF ApartInv, CodesApart
  <2>3. ASSUME NEW g \in Handlers, pc'[g] = "saving", op'[g] = codes[n].email
        PROVE  clock >= codes[n].made + Cooldown
    <3>1. op[g] = codes[n].email
      BY <1>1, <2>3
    <3>2. CASE pc[g] = "saving"
      BY <3>1, <3>2 DEF ApartInv
    <3>3. CASE CheckCooldown(g) /\ ~Finish(g)
      BY <3>1, <3>3, CooledDown
    <3> QED BY <1>1, <2>3, <3>2, <3>3
  <2>4. Cooldown \in Nat
    BY Constants
  <2>5. \A t \in Nat : clock >= t + Cooldown => clock' >= t + Cooldown
    BY <1>0, <2>4
  <2>6. codes[n].made \in Nat
    BY <1>0
  <2> QED BY <2>2, <2>3, <2>5, <2>6
<1>2. ASSUME NEW h \in Handlers, SaveCode(h)
      PROVE  ApartInv'
  <2>1. /\ Len(codes') = Len(codes) + 1 /\ DOMAIN codes' = 1..Len(codes) + 1
        /\ codes'[Len(codes) + 1] = NewCode(op[h])
    BY <1>2, SaveCodeEffect
  <2>2. codes'[Len(codes) + 1].email = op[h] /\ codes'[Len(codes) + 1].made = clock
    BY <2>1 DEF NewCode
  <2>3. /\ pc[h] = "saving" /\ clock' = clock /\ mixed' = mixed /\ op' = op
        /\ pc'[h] = "mailing" /\ \A g \in Handlers \ {h} : pc'[g] = pc[g]
    BY <1>0, <1>2 DEF SaveCode, Goto, TypeOK
  <2>4. ASSUME NEW n \in DOMAIN codes, codes[n].email \notin mixed
        PROVE  /\ \A m \in n + 1 .. Len(codes) + 1 :
                    codes'[m].email = codes[n].email =>
                      codes'[m].made >= codes[n].made + Cooldown
               /\ \A g \in Handlers : pc'[g] = "saving" /\ op[g] = codes[n].email
                    => clock >= codes[n].made + Cooldown
    <3>1. ASSUME NEW m \in n + 1 .. Len(codes) + 1, codes'[m].email = codes[n].email
          PROVE  codes'[m].made >= codes[n].made + Cooldown
      <4>1. CASE m = Len(codes) + 1
        BY <2>2, <2>3, <2>4, <3>1, <4>1 DEF ApartInv
      <4>2. CASE m # Len(codes) + 1
        <5>1. m \in n + 1 .. Len(codes) /\ m \in DOMAIN codes
          BY <1>0, <4>2
        <5> QED BY <1>0, <2>4, <3>1, <5>1 DEF ApartInv, CodesApart
      <4> QED BY <4>1, <4>2
    <3>2. ASSUME NEW g \in Handlers, pc'[g] = "saving", op[g] = codes[n].email
          PROVE  clock >= codes[n].made + Cooldown
      <4>1. pc[g] = "saving"
        BY <2>3, <3>2
      <4> QED BY <2>4, <3>2, <4>1 DEF ApartInv
    <3> QED BY <3>1, <3>2
  <2>5. ASSUME NEW g \in Handlers, pc'[g] = "saving", op[g] = op[h]
        PROVE  op[h] \in mixed
    BY <2>3, <2>5 DEF AloneInv, Running
  <2>6. ASSUME NEW n \in DOMAIN codes'
        PROVE  /\ codes'[n].made <= clock
               /\ codes'[n].email \notin mixed =>
                    /\ \A m \in n + 1 .. Len(codes) + 1 :
                         codes'[m].email = codes'[n].email =>
                           codes'[m].made >= codes'[n].made + Cooldown
                    /\ \A g \in Handlers : pc'[g] = "saving" /\ op[g] = codes'[n].email
                         => clock >= codes'[n].made + Cooldown
    <3>1. CASE n = Len(codes) + 1
      <4>1. n + 1 .. Len(codes) + 1 = {}
        BY <1>0, <3>1
      <4> QED BY <1>0, <2>2, <2>5, <3>1, <4>1
    <3>2. CASE n # Len(codes) + 1
      <4>1. n \in DOMAIN codes
        BY <1>0, <2>1, <3>2
      <4>2. codes[n].made <= clock
        BY <4>1 DEF ApartInv
      <4> QED BY <1>0, <2>4, <4>1, <4>2
    <3> QED BY <3>1, <3>2
  <2> QED BY <2>1, <2>3, <2>6 DEF ApartInv, CodesApart
<1>3. ASSUME NEW h \in Handlers, Step(h), ~SaveCode(h)
      PROVE  ApartInv'
  <2>1. Len(codes') = Len(codes) /\ DOMAIN codes' = DOMAIN codes
    <3>1. WriteCode(h) => Len(codes') = Len(codes) /\ DOMAIN codes' = DOMAIN codes
      BY WriteCodeEffect
    <3> QED
      BY <1>3, <3>1
      DEF Step, Fail, Send, Signup, Verify, FindBySns, CheckCooldown, Mail,
          CreateLocal, Link, InsertSocial, CompareCode, FindByEmail
  <2>2. \A g \in Handlers \ {h} : pc'[g] = pc[g] /\ op'[g] = op[g]
    BY <1>3, StepOf
  <2>3. pc'[h] = "saving" => op'[h] = op[h] /\ CheckCooldown(h) /\ ~Finish(h)
    BY <1>0, <1>3
    DEF Step, Fail, Send, Signup, Verify, FindBySns, CheckCooldown, Mail, WriteCode, Start, Goto,
        Finish, CreateLocal, Link, InsertSocial, CompareCode, FindByEmail, TypeOK
  <2> QED BY <1>1, <2>1, <2>2, <2>3
<1>4. CASE Tick \/ (\E e \in Emails : SendToken(e)) \/ UNCHANGED vars
  <2>1. UNCHANGED <<pc, op, codes>>
    BY <1>4 DEF Tick, SendToken, vars
  <2> QED BY <1>1, <2>1
<1> QED BY <1>2, <1>3, <1>4 DEF Next
-----------------------------------------------------------------------------
(* The wrong codes that were entered.                                       *)

LEMMA GuessStep ==
    ASSUME Typed, AloneInv, GuessInv, [Next]_vars
    PROVE  GuessInv'
<1>0. /\ TypeOK /\ SubjectInv /\ mixed \subseteq mixed'
      /\ Len(codes) \in Nat /\ DOMAIN codes = 1..Len(codes)
      /\ \A n \in DOMAIN codes : codes'[n].email = codes[n].email
      /\ \A n \in DOMAIN codes : codes[n].attempts \in Nat /\ wrong[n] \in Nat
      /\ \A g \in Handlers : pc[g] \in Entering =>
           seen[g].code \in DOMAIN codes /\ codes[seen[g].code].email = op[g] /\ g \in Running
  BY Grows, CodesAre DEF Typed, SubjectInv, SubjectOf, Code, Entering, Running
<1>b. /\ \A n \in DOMAIN codes : codes[n].email \notin mixed => Counted(n)
      /\ \A g \in Handlers : pc[g] \in Entering /\ op[g] \notin mixed => Knows(g)
  BY DEF GuessInv
\* Steps that leave codes and their counters alone.
<1>1. ASSUME UNCHANGED <<codes, wrong>>,
             \A g \in Handlers : pc'[g] \in Entering =>
               pc'[g] = pc[g] /\ op'[g] = op[g] /\ seen'[g] = seen[g]
      PROVE  GuessInv'
  <2>1. \A n \in DOMAIN codes : Counted(n) => Counted(n)'
    BY <1>1 DEF Counted
  <2>2. \A g \in Handlers : pc'[g] \in Entering => pc[g] \in Entering /\ (Knows(g) => Knows(g)')
    BY <1>1 DEF Knows
  <2> QED BY <1>0, <1>1, <1>b, <2>1, <2>2 DEF GuessInv
<1>2. ASSUME NEW h \in Handlers, SaveCode(h)
      PROVE  GuessInv'
  <2>1. /\ DOMAIN codes' = 1..Len(codes) + 1
        /\ \A n \in DOMAIN codes : codes'[n] = codes[n] /\ wrong'[n] = wrong[n]
        /\ codes'[Len(codes) + 1] = NewCode(op[h]) /\ wrong'[Len(codes) + 1] = 0
    BY <1>2, SaveCodeEffect
  <2>2. codes'[Len(codes) + 1].attempts = 0
    BY <2>1 DEF NewCode
  <2>3. /\ mixed' = mixed /\ pc[h] \notin Entering /\ pc'[h] \notin Entering
        /\ \A g \in Handlers \ {h} : pc'[g] = pc[g] /\ op'[g] = op[g] /\ seen'[g] = seen[g]
    BY <1>0, <1>2 DEF SaveCode, Goto, TypeOK, Entering
  <2>4. \A n \in DOMAIN codes : Counted(n) => Counted(n)'
    BY <2>1, <2>3 DEF Counted
  <2>5. \A n : n = Len(codes) + 1 => Counted(n)'
    BY <2>1, <2>2, Constants DEF Counted
  <2>6. \A g \in Handlers : pc'[g] \in Entering =>
          g # h /\ pc[g] \in Entering /\ (Knows(g) => Knows(g)')
    BY <1>0, <2>1, <2>3 DEF Knows
  <2>7. \A n \in DOMAIN codes' : n \in DOMAIN codes \/ n = Len(codes) + 1
    BY <1>0, <2>1
  <2> QED BY <1>0, <1>b, <2>3, <2>4, <2>5, <2>6, <2>7 DEF GuessInv
<1>3. ASSUME NEW h \in Handlers, NEW e \in Emails, NEW right \in BOOLEAN, Verify(h, e, right)
      PROVE  GuessInv'
  <2> DEFINE c == Latest(e)
  <2>1. /\ c \in DOMAIN codes /\ codes[c].email = e /\ codes[c].attempts < MaxAttempts
        /\ seen' = [seen EXCEPT ![h] = Entered(h, c, right)]
    BY <1>3, VerifyEffect
  <2> HIDE DEF c
  <2>2. /\ UNCHANGED <<codes, wrong>> /\ pc'[h] = "comparing" /\ op'[h] = e
        /\ \A g \in Handlers \ {h} : pc'[g] = pc[g] /\ op'[g] = op[g]
    BY <1>0, <1>3 DEF Verify, Start, TypeOK
  <2>3. /\ seen'[h].code = c /\ seen'[h].right = right
        /\ seen'[h].attempts = codes[c].attempts + (IF right THEN 0 ELSE 1)
        /\ \A g \in Handlers \ {h} : seen'[g] = seen[g]
    <3>1. seen'[h] = Entered(h, c, right) /\ \A g \in Handlers \ {h} : seen'[g] = seen[g]
      BY <1>0, <2>1 DEF TypeOK
    <3>2. /\ Entered(h, c, right).code = c /\ Entered(h, c, right).right = right
          /\ Entered(h, c, right).attempts = codes[c].attempts + (IF right THEN 0 ELSE 1)
      BY <1>0 DEF TypeOK, Entered
    <3> QED BY <3>1, <3>2
  <2>4. ASSUME e \notin mixed'
        PROVE  Knows(h)'
    <3>1. codes[c].attempts = wrong[c] /\ codes[c].attempts \in Nat
      BY <1>0, <1>b, <2>1, <2>4 DEF Counted
    <3>2. codes[c].attempts + (IF right THEN 0 ELSE 1) <= MaxAttempts
      BY <2>1, <3>1, Constants
    <3> QED BY <2>2, <2>3, <3>1, <3>2 DEF Knows
  <2>5. \A n \in DOMAIN codes : Counted(n) => Counted(n)'
    BY <2>2 DEF Counted
  <2>6. \A g \in Handlers \ {h} :
          pc'[g] \in Entering => pc[g] \in Entering /\ (Knows(g) => Knows(g)')
    BY <2>2, <2>3 DEF Knows
  <2> QED BY <1>0, <1>b, <2>2, <2>4, <2>5, <2>6 DEF GuessInv
<1>4. ASSUME NEW h \in Handlers, CompareCode(h)
      PROVE  GuessInv'
  <2>1. /\ UNCHANGED <<codes, wrong, op, mixed>> /\ pc[h] \in Entering /\ pc'[h] \in Entering
        /\ seen'[h].code = seen[h].code /\ seen'[h].attempts = seen[h].attempts
        /\ seen'[h].right = seen[h].right
        /\ \A g \in Handlers \ {h} : pc'[g] = pc[g] /\ seen'[g] = seen[g]
    BY <1>0, <1>4 DEF CompareCode, Goto, TypeOK, Entering
  <2>2. codes[seen[h].code].attempts # seen[h].attempts => "attempts" \in seen'[h].dirty
    BY <1>0, <1>4 DEF CompareCode, TypeOK
  <2>3. \A n \in DOMAIN codes : Counted(n) => Counted(n)'
    BY <2>1 DEF Counted
  <2>4. \A g \in Handlers : pc'[g] \in Entering => pc[g] \in Entering /\ (Knows(g) => Knows(g)')
    BY <2>1, <2>2 DEF Knows
  <2> QED BY <1>b, <2>1, <2>3, <2>4 DEF GuessInv
<1>5. ASSUME NEW h \in Handlers, WriteCode(h)
      PROVE  GuessInv'
  <2> DEFINE c == seen[h].code
  <2>1. /\ DOMAIN codes' = DOMAIN codes /\ c \in DOMAIN codes /\ codes[c].email = op[h]
        /\ \A n \in DOMAIN codes : n # c => codes'[n] = codes[n]
        /\ codes'[c].attempts =
             IF "attempts" \in seen[h].dirty THEN seen[h].attempts ELSE codes[c].attempts
        /\ \A n \in DOMAIN codes :
             wrong'[n] = IF n = c /\ ~seen[h].right THEN wrong[n] + 1 ELSE wrong[n]
    BY <1>5, WriteCodeEffect
  <2>2. /\ mixed' = mixed /\ pc[h] = "writing" /\ pc[h] \in Entering
        /\ pc'[h] \notin Entering
        /\ \A g \in Handlers \ {h} : pc'[g] = pc[g] /\ op'[g] = op[g] /\ seen'[g] = seen[g]
    BY <1>0, <1>5 DEF WriteCode, Finish, TypeOK, Entering
  <2> HIDE DEF c
  <2>3. op[h] \notin mixed => \A n : n = c => Counted(n)'
    <3>1. op[h] \notin mixed => Knows(h) /\ Counted(c)
      BY <1>b, <2>1, <2>2
    <3>2. Knows(h) => wrong'[c] = seen[h].attempts /\ seen[h].attempts <= MaxAttempts
      BY <1>0, <2>1 DEF c, Knows
    <3>3. Knows(h) => codes'[c].attempts = seen[h].attempts
      BY <2>1, <2>2 DEF c, Knows
    <3> QED BY <3>1, <3>2, <3>3 DEF Counted
  <2>4. \A n \in DOMAIN codes : n # c /\ Counted(n) => Counted(n)'
    BY <2>1, <2>2 DEF c, Counted
  <2>5. ASSUME NEW g \in Handlers, pc'[g] \in Entering, op'[g] \notin mixed
        PROVE  Knows(g)'
    <3>1. g # h /\ pc[g] \in Entering /\ op[g] \notin mixed
      BY <2>2, <2>5
    <3>2. seen[g].code # c
      BY <1>0, <2>1, <2>2, <3>1 DEF AloneInv
    <3>3. Knows(g) /\ seen[g].code \in DOMAIN codes
      BY <1>0, <1>b, <3>1
    <3> QED BY <2>1, <2>2, <3>1, <3>2, <3>3 DEF Knows
  <2> QED BY <1>0, <1>b, <2>1, <2>2, <2>3, <2>4, <2>5 DEF GuessInv
<1>6. ASSUME NEW h \in Handlers, Step(h), ~SaveCode(h), ~CompareCode(h), ~WriteCode(h),
             \A e \in Emails, right \in BOOLEAN : ~Verify(h, e, right)
      PROVE  GuessInv'
  <2>1. UNCHANGED <<codes, wrong>> /\ pc'[h] \notin Entering
    BY <1>0, <1>6
    DEF Step, Fail, Send, Signup, FindBySns, CheckCooldown, Mail, Start, Goto, Finish,
        CreateLocal, Link, InsertSocial, FindByEmail, TypeOK, Entering
  <2>2. \A g \in Handlers \ {h} : pc'[g] = pc[g] /\ op'[g] = op[g] /\ seen'[g] = seen[g]
    BY <1>6, StepOf
  <2> QED BY <1>1, <2>1, <2>2
<1>7. CASE Tick \/ (\E e \in Emails : SendToken(e)) \/ UNCHANGED vars
  <2>1. UNCHANGED <<pc, op, seen, codes, wrong>>
    BY <1>7 DEF Tick, SendToken, vars
  <2> QED BY <1>1, <2>1
<1> QED BY <1>2, <1>3, <1>4, <1>5, <1>6, <1>7 DEF Next
-----------------------------------------------------------------------------
LEMMA RegistrationInit == RegistrationBounds /\ Init => RegistrationInv
<1> SUFFICES ASSUME RegistrationBounds, Init PROVE RegistrationInv
  OBVIOUS
<1>1. Typed
  BY TypedInit
<1>2. DOMAIN codes = {} /\ DOMAIN users = {}
  BY EmptySeq DEF Init
<1>3. Running = {} /\ \A h \in Handlers : pc[h] = "idle"
  BY DEF Init, Running
<1>4. \A e \in Emails : token[e] = 0
  BY DEF Init
<1> QED
  BY <1>1, <1>2, <1>3, <1>4
  DEF RegistrationInv, Typed, VerifiedInv, AloneInv, SocialInv, ApartInv, GuessInv, Entering

LEMMA RegistrationStep == RegistrationInv /\ [Next]_vars => RegistrationInv'
BY TypedStep, VerifiedStep, AloneStep, SocialStep, ApartStep, GuessStep
DEF RegistrationInv, Typed

LEMMA Registered == RegistrationBounds /\ Spec => []RegistrationInv
BY RegistrationInit, RegistrationStep, PTL DEF Spec

LEMMA AccountsVerifiedHolds == RegistrationInv => AccountsVerified
BY DEF RegistrationInv, VerifiedInv, AccountsVerified, Verified

\* With verification an address gets a local account only through a code that
\* reached its own mailbox (signup, verifyEmailVerificationCode).
THEOREM NoUnverifiedAccount == RegistrationBounds /\ Spec => []AccountsVerified
BY AccountsVerifiedHolds, Registered, PTL

LEMMA GuessesLimitedHolds == RegistrationInv => GuessesLimited
<1> SUFFICES ASSUME RegistrationInv,
                    NEW n \in DOMAIN codes, codes[n].email \notin mixed
             PROVE  /\ wrong[n] <= MaxAttempts
                    /\ codes[n].attempts = wrong[n]
                    /\ \A m \in n + 1 .. Len(codes) :
                         codes[m].email = codes[n].email => CodesApart(n, m)
  BY DEF GuessesLimited
<1>1. Counted(n)
  BY DEF RegistrationInv, GuessInv
<1>2. \A m \in n + 1 .. Len(codes) : codes[m].email = codes[n].email => CodesApart(n, m)
  BY DEF RegistrationInv, ApartInv
<1> QED BY <1>1, <1>2 DEF Counted

\* The wrong codes that were stored are all counted and within the limit, and no
\* address gets its codes faster than the cool-down, unless two requests about the
\* address overlapped (sendEmailVerificationCode, verifyEmailVerificationCode).
\* A wrong code whose UPDATE fails is not counted, and allows another try.
THEOREM GuessesAreLimited == RegistrationBounds /\ Spec => []GuessesLimited
BY GuessesLimitedHolds, Registered, PTL

LEMMA OneRowPerSocialHolds == RegistrationInv => OneRowPerSocial
<1> SUFFICES ASSUME RegistrationInv, NEW s \in Socials \ mixed
             PROVE  Cardinality({a \in DOMAIN users : users[a].sns = s}) <= 1
  BY DEF OneRowPerSocial
<1> DEFINE Rows == {a \in DOMAIN users : users[a].sns = s}
<1>1. \A a, b \in Rows : a = b
  BY DEF RegistrationInv, SocialInv
<1>2. CASE Rows = {}
  BY <1>2, FS_EmptySet
<1>3. CASE Rows # {}
  <2>1. PICK a \in Rows : TRUE
    BY <1>3
  <2>2. Rows = {a}
    BY <1>1, <2>1
  <2> HIDE DEF Rows
  <2>3. Cardinality(Rows) = 1
    BY <2>2, FS_Singleton
  <2> QED BY <2>3 DEF Rows
<1> QED BY <1>2, <1>3

\* A social account leads to one users row, unless two logins of it overlapped
\* (kakaoLogin, lineLogin): sns_id has no unique index.
THEOREM OneRowPerIdentity == RegistrationBounds /\ Spec => []OneRowPerSocial
BY OneRowPerSocialHolds, Registered, PTL
=============================================================================
