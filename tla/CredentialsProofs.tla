------------------------- MODULE CredentialsProofs -------------------------
(***************************************************************************)
(* What holds of Credentials for any number of requests, any times and any *)
(* bounds: types first; then what is known of the link in the row and of   *)
(* the requests that mail one, which gives that a mailed link works and    *)
(* that mails are the cool-down apart; then what a request that signs in   *)
(* knows of the row, which gives that a reset holds.                       *)
(***************************************************************************)
EXTENDS Credentials, SequenceTheorems, TLAPS

Link == [made : 1..MaxTime, state : {"stored", "mailed", "failed", "used"}]
Seen == [password : Passwords, refresh : 0..NoToken, now : 0..MaxTime,
         link : 0 .. Len(links), dirty : SUBSET Columns]
Mailing == {"mailing", "withdrawing"}

Data ==
    /\ user \in Row
    /\ links \in Seq(Link) /\ Len(links) <= MaxLinks

Control ==
    /\ clock \in 1..MaxTime
    /\ pc \in [Handlers -> Places]
    /\ seen \in [Handlers -> Seen]
    /\ late \in BOOLEAN

\* What a request that issues or mails a link has read.
MailInv ==
    /\ \A h \in Handlers : pc[h] = "issuing" => seen[h].now \in 1..MaxTime
    /\ \A h \in Handlers : pc[h] \in Mailing => seen[h].link \in 1 .. Len(links)
    /\ \A h \in Handlers : pc[h] = "mailing" => links[seen[h].link].state \in {"stored", "used"}
    /\ \A h \in Handlers : pc[h] = "withdrawing" => links[seen[h].link].state \in {"failed", "used"}
    /\ \A g, h \in Handlers :
         pc[g] \in Mailing /\ pc[h] \in Mailing /\ g # h => seen[g].link # seen[h].link

Typed == Data /\ Control /\ MailInv

\* The link in the row is the newest one and unused; the newest one is in the
\* row unless it was used, or its mail failed.
LinkInv ==
    /\ user.link \in {0, Len(links)}
    /\ user.link = 0 => user.expires = 0
    /\ user.link # 0 =>
         /\ links[user.link].state # "used"
         /\ user.expires = links[user.link].made + Lifetime
    /\ \A n \in 1 .. Len(links) :
         n = Len(links) /\ links[n].state \in {"stored", "mailed"} => user.link = n

\* A request that signs in has read the password the row still has.
SignInInv ==
    ~late =>
        \A h \in Handlers :
          /\ pc[h] \in {"storing", "comparing", "writing"} => seen[h].password = user.password
          /\ pc[h] \in {"comparing", "writing"} => seen[h].refresh \in {NoToken, user.password}
          /\ pc[h] = "writing" => "password" \notin seen[h].dirty
-----------------------------------------------------------------------------
(* Types. *)

\* What is known of a request that goes on, whose links are those of before.
LEMMA GoesOn ==
    ASSUME Control, MailInv, NEW h \in Handlers, NEW place \in Places \ {"issuing"},
           NEW record \in Seen, UNCHANGED links, late' \in BOOLEAN, clock' \in 1..MaxTime,
           pc' = [pc EXCEPT ![h] = place], seen' = [seen EXCEPT ![h] = record],
           place \notin Mailing
    PROVE  Control' /\ MailInv'
BY DEF Control, MailInv, Mailing, Seen

LEMMA FinishTyped ==
    ASSUME Typed, NEW h \in Handlers, Finish(h), UNCHANGED <<links, late, clock>>
    PROVE  Control' /\ MailInv'
<1>1. Nothing \in Seen
  <2>1. Len(links) \in Nat
    BY DEF Typed, Data
  <2>2. 0 \in Passwords /\ NoToken \in 0..NoToken /\ 0 \in 0..MaxTime /\ 0 \in 0 .. Len(links)
    BY <2>1, CredentialBounds DEF Passwords, NoToken
  <2> QED
    BY <2>2 DEF Nothing, Seen
<1>2. "idle" \in Places \ {"issuing"} /\ "idle" \notin Mailing
  BY DEF Places, Mailing
<1> QED
  BY <1>1, <1>2, GoesOn DEF Finish, Goto, Typed, Control

\* A request at h goes on to a place of its sign-in with what it has read.
LEMMA SignsIn ==
    ASSUME Typed, NEW h \in Handlers, NEW place \in SigningIn, NEW record \in Seen,
           seen' = [seen EXCEPT ![h] = record], Goto(h, place),
           UNCHANGED <<links, clock, late>>
    PROVE  Control' /\ MailInv'
<1>1. place \in Places \ {"issuing"} /\ place \notin Mailing
  BY DEF Places, Mailing, SigningIn
<1> QED
  BY <1>1, GoesOn DEF Goto, Typed, Control

\* The sign-in steps before the row is written.
LEMMA SignInTyped ==
    ASSUME Typed, NEW h \in Handlers,
           Login(h) \/ FindBySns(h) \/ FindByEmail(h) \/ CompareUser(h)
    PROVE  Typed'
<1> USE DEF Typed
<1>1. user.password \in Passwords /\ user.refresh \in 0..NoToken /\ seen[h] \in Seen
  BY DEF Data, Row, Control
<1>2. UNCHANGED <<user, links, clock, late>>
  BY DEF Login, FindBySns, FindByEmail, CompareUser
<1>3. Data'
  BY <1>2 DEF Data
<1>4. ASSUME NEW place \in SigningIn, NEW record \in Seen, Goto(h, place),
             seen' = [seen EXCEPT ![h] = record]
      PROVE  Control' /\ MailInv'
  BY <1>2, <1>4, SignsIn
<1>5. {"storing", "byEmail", "comparing", "writing"} = SigningIn
  BY DEF SigningIn
<1>6. CASE Login(h)
  <2>1. [seen[h] EXCEPT !.password = user.password] \in Seen
    BY <1>1 DEF Seen
  <2> QED
    BY <1>3, <1>4, <1>5, <1>6, <2>1 DEF Login
<1>7. CASE FindBySns(h)
  <2>1. CASE user.sns
    <3>1. [seen[h] EXCEPT !.password = user.password] \in Seen
      BY <1>1 DEF Seen
    <3> QED
      BY <1>3, <1>4, <1>5, <1>7, <2>1, <3>1 DEF FindBySns
  <2>2. CASE ~user.sns
    <3>1. seen' = [seen EXCEPT ![h] = seen[h]]
      BY <1>7, <2>2 DEF FindBySns, Control
    <3> QED
      BY <1>1, <1>3, <1>4, <1>5, <1>7, <2>2, <3>1 DEF FindBySns
  <2> QED
    BY <2>1, <2>2
<1>8. CASE FindByEmail(h)
  <2>1. [seen[h] EXCEPT !.password = user.password, !.refresh = user.refresh] \in Seen
    BY <1>1 DEF Seen
  <2>2. seen' = [seen EXCEPT ![h] =
                  [seen[h] EXCEPT !.password = user.password, !.refresh = user.refresh]]
    BY <1>8 DEF FindByEmail, Control
  <2> QED
    BY <1>3, <1>4, <1>5, <1>8, <2>1, <2>2 DEF FindByEmail
<1>9. CASE CompareUser(h)
  <2> DEFINE differs == {c \in {"password", "refresh"} : user[c] # seen[h][c]}
                          \cup {c \in {"sns"} : ~user.sns}
  <2>1. differs \in SUBSET Columns
    BY DEF Columns
  <2>2. [seen[h] EXCEPT !.dirty = differs] \in Seen
    BY <1>1, <2>1 DEF Seen
  <2> QED
    BY <1>3, <1>4, <1>5, <1>9, <2>2 DEF CompareUser
<1> QED
  BY <1>6, <1>7, <1>8, <1>9

\* What the saved row holds afterwards.
LEMMA WriteUserRow ==
    ASSUME Typed, NEW h \in Handlers, WriteUser(h)
    PROVE  /\ user' \in Row
           /\ user'.link = user.link /\ user'.expires = user.expires
           /\ user'.password \in {user.password, seen[h].password}
           /\ "password" \notin seen[h].dirty => user'.password = user.password
           /\ user'.refresh \in {user.refresh, seen[h].refresh}
<1>1. user \in Row /\ seen[h] \in Seen
  BY DEF Typed, Data, Control
<1>2. DOMAIN user = {"password", "refresh", "sns", "link", "expires"}
  BY <1>1 DEF Row
<1>3. "link" \notin seen[h].dirty /\ "expires" \notin seen[h].dirty
  BY <1>1 DEF Seen, Columns
<1>4. user' = [c \in DOMAIN user |->
                 IF c \notin seen[h].dirty THEN user[c]
                 ELSE IF c = "sns" THEN TRUE ELSE seen[h][c]]
  BY DEF WriteUser
<1>5. /\ user'.link = user.link
      /\ user'.expires = user.expires
      /\ user'.password = IF "password" \notin seen[h].dirty
                          THEN user.password ELSE seen[h].password
      /\ user'.refresh = IF "refresh" \notin seen[h].dirty
                         THEN user.refresh ELSE seen[h].refresh
      /\ user'.sns = IF "sns" \notin seen[h].dirty THEN user.sns ELSE TRUE
  BY <1>2, <1>3, <1>4
<1>6. user' = [password |-> user'.password, refresh |-> user'.refresh, sns |-> user'.sns,
               link |-> user'.link, expires |-> user'.expires]
  BY <1>2, <1>4
<1>7. /\ user'.password \in Passwords /\ user'.refresh \in 0..NoToken
      /\ user'.sns \in BOOLEAN
      /\ user'.link \in Passwords /\ user'.expires \in 0 .. MaxTime + Lifetime
  BY <1>1, <1>5 DEF Row, Seen
<1> QED
  BY <1>5, <1>6, <1>7 DEF Row

\* The sign-in steps that write the row.
LEMMA WriteTyped ==
    ASSUME Typed, NEW h \in Handlers, WriteUser(h) \/ StoreToken(h)
    PROVE  Typed'
<1>1. user \in Row /\ seen[h] \in Seen /\ UNCHANGED <<links, clock, late>>
  BY DEF Typed, Data, Control, WriteUser, StoreToken
<1>2. CASE WriteUser(h)
  <2>1. NoToken \in 0..NoToken
    BY CredentialBounds DEF NoToken
  <2>2. [seen[h] EXCEPT !.refresh = NoToken, !.dirty = {}] \in Seen
    BY <1>1, <2>1 DEF Seen
  <2>3. seen' = [seen EXCEPT ![h] = [seen[h] EXCEPT !.refresh = NoToken, !.dirty = {}]]
    BY <1>2 DEF WriteUser, Typed, Control
  <2>4. "storing" \in SigningIn /\ Goto(h, "storing")
    BY <1>2 DEF SigningIn, WriteUser
  <2>5. Control' /\ MailInv'
    BY <1>1, <2>2, <2>3, <2>4, SignsIn
  <2>6. Data'
    BY <1>1, <1>2, WriteUserRow DEF Typed, Data
  <2> QED
    BY <2>5, <2>6 DEF Typed
<1>3. CASE StoreToken(h)
  <2>1. Control' /\ MailInv'
    BY <1>1, <1>3, FinishTyped DEF StoreToken
  <2>2. seen[h].password \in 0..NoToken
    BY <1>1, CredentialBounds DEF Seen, Passwords, NoToken
  <2>3. Data'
    BY <1>1, <1>3, <2>2 DEF StoreToken, Typed, Data, Row
  <2> QED
    BY <2>1, <2>3 DEF Typed
<1> QED
  BY <1>2, <1>3

\* The steps outside the requests, and those that end one.
LEMMA ClockAndLogoutTyped ==
    ASSUME Typed, Tick \/ Logout
    PROVE  Typed'
<1>1. CASE Tick
  BY <1>1, CredentialBounds DEF Tick, Typed, Data, Control, MailInv, Seen
<1>2. CASE Logout
  <2>1. NoToken \in 0..NoToken
    BY CredentialBounds DEF NoToken
  <2>2. Data'
    BY <1>2, <2>1 DEF Logout, Typed, Data, Row
  <2> QED
    BY <1>2, <2>2 DEF Logout, Typed, Control, MailInv, Seen
<1> QED
  BY <1>1, <1>2

LEMMA EndTyped ==
    ASSUME Typed, NEW h \in Handlers, Withdraw(h) \/ Die(h)
    PROVE  Typed'
<1>1. UNCHANGED <<links, late, clock>> /\ Finish(h)
  BY DEF Withdraw, Die
<1>2. Control' /\ MailInv'
  BY <1>1, FinishTyped
<1>3. 0 \in Passwords /\ 0 \in 0 .. MaxTime + Lifetime
  BY CredentialBounds DEF Passwords
<1>4. Data'
  BY <1>1, <1>3 DEF Withdraw, Die, Typed, Data, Row
<1> QED
  BY <1>2, <1>4 DEF Typed

\* Marking a link changes the state of that link and nothing else.
LEMMA MarkLink ==
    ASSUME Data, NEW n \in 1 .. Len(links), NEW state \in {"mailed", "failed", "used"},
           Mark(n, state)
    PROVE  /\ links' \in Seq(Link) /\ Len(links') = Len(links)
           /\ \A k \in 1 .. Len(links) :
                /\ links'[k].made = links[k].made
                /\ k # n => links'[k] = links[k]
           /\ links'[n].state = IF links[n].state = "used" THEN "used" ELSE state
<1>1. links \in Seq(Link) /\ links[n] \in Link
  BY ElementOfSeq DEF Data
<1> DEFINE marked == [links[n] EXCEPT !.state = IF @ = "used" THEN @ ELSE state]
<1>2. marked \in Link
  BY <1>1 DEF Link
<1>3. links' = [links EXCEPT ![n] = marked]
  BY DEF Mark
<1>4. links' \in Seq(Link) /\ Len(links') = Len(links)
  BY <1>1, <1>2, <1>3, ExceptSeq
<1>5. \A k \in 1 .. Len(links) : links'[k] = IF k = n THEN marked ELSE links[k]
  BY <1>1, <1>2, <1>3, ExceptSeq
<1>6. marked.made = links[n].made
  BY <1>1 DEF Link
<1>7. marked.state = IF links[n].state = "used" THEN "used" ELSE state
  BY <1>1 DEF Link
<1> HIDE DEF marked
<1> QED
  BY <1>4, <1>5, <1>6, <1>7

\* Storing a link leaves the others as they were.
LEMMA StoreLinkLinks ==
    ASSUME Typed, NEW h \in Handlers, StoreLink(h), CooledDown(seen[h].now)
    PROVE  /\ links' \in Seq(Link) /\ Len(links') = Len(links) + 1
           /\ Len(links') <= MaxLinks /\ Len(links') \in Passwords
           /\ \A k \in 1 .. Len(links) : links'[k] = links[k]
           /\ links'[Len(links')] = [made |-> seen[h].now, state |-> "stored"]
<1>1. links \in Seq(Link) /\ seen[h].now \in 1..MaxTime
  BY DEF Typed, Data, MailInv, StoreLink
<1>2. links' = Append(links, [made |-> seen[h].now, state |-> "stored"])
      /\ Len(links) < MaxLinks
  BY DEF StoreLink
<1>3. [made |-> seen[h].now, state |-> "stored"] \in Link
  BY <1>1 DEF Link
<1>4. Len(links) \in Nat /\ MaxLinks \in Nat
  BY <1>1, CredentialBounds
<1>5. /\ links' \in Seq(Link) /\ Len(links') = Len(links) + 1
      /\ \A k \in 1 .. Len(links) : links'[k] = links[k]
      /\ links'[Len(links) + 1] = [made |-> seen[h].now, state |-> "stored"]
  BY <1>1, <1>2, <1>3, AppendProperties
<1> QED
  BY <1>2, <1>4, <1>5 DEF Passwords

LEMMA RequestTyped ==
    ASSUME Typed, NEW h \in Handlers, Request(h)
    PROVE  Typed'
<1>1. clock \in 1..MaxTime /\ seen[h] \in Seen /\ "issuing" \in Places
  BY DEF Typed, Control, Places
<1>2. [seen[h] EXCEPT !.now = clock] \in Seen
  BY <1>1, CredentialBounds DEF Seen
<1>3. seen' = [seen EXCEPT ![h] = [seen[h] EXCEPT !.now = clock]]
  BY DEF Request, Typed, Control
<1>4. Data'
  BY DEF Request, Typed, Data
<1>5. Control'
  BY <1>1, <1>2, <1>3 DEF Request, Goto, Typed, Control, Seen
<1>6. seen'[h].now \in 1..MaxTime /\ \A g \in Handlers \ {h} : seen'[g] = seen[g]
  BY <1>1, <1>3 DEF Typed, Control, Seen
<1>7. pc'[h] = "issuing" /\ (\A g \in Handlers \ {h} : pc'[g] = pc[g])
      /\ UNCHANGED links
  BY DEF Request, Goto, Typed, Control
<1>8. MailInv'
  BY <1>6, <1>7 DEF Typed, MailInv, Mailing
<1> QED
  BY <1>4, <1>5, <1>8 DEF Typed

LEMMA StoreLinkTyped ==
    ASSUME Typed, NEW h \in Handlers, StoreLink(h)
    PROVE  Typed'
<1>1. CASE ~CooledDown(seen[h].now)
  <2>1. Control' /\ MailInv'
    BY <1>1, FinishTyped DEF StoreLink
  <2> QED
    BY <1>1, <2>1 DEF StoreLink, Typed, Data
<1>2. CASE CooledDown(seen[h].now)
  <2> DEFINE record == [seen[h] EXCEPT !.link = Len(links'), !.now = 0]
  <2>1. /\ user' = [user EXCEPT !.link = Len(links'), !.expires = Expiry(seen[h].now)]
        /\ seen' = [seen EXCEPT ![h] = record]
        /\ pc' = [pc EXCEPT ![h] = "mailing"] /\ UNCHANGED <<clock, late>>
        /\ pc[h] = "issuing"
    BY <1>2 DEF StoreLink, Goto, Typed, Control
  <2>2. Len(links) \in Nat /\ Len(links') = Len(links) + 1
    <3>1. Len(links) \in Nat
      BY LenProperties DEF Typed, Data
    <3>2. Len(links') = Len(links) + 1
      BY <1>2, StoreLinkLinks
    <3> QED
      BY <3>1, <3>2
  <2>3. Expiry(seen[h].now) \in 0 .. MaxTime + Lifetime
    <3>1. seen[h].now \in 1..MaxTime
      BY <2>1 DEF Typed, MailInv
    <3> QED
      BY <3>1, CredentialBounds DEF Expiry
  <2>4. Data'
    BY <1>2, <2>1, <2>3, StoreLinkLinks DEF Typed, Data, Row
  <2>5. \A g \in Handlers : seen[g] \in Seen'
    <3>1. \A g \in Handlers : seen[g] \in Seen
      BY DEF Typed, Control
    <3>2. 0 .. Len(links) \subseteq 0 .. Len(links')
      BY <2>2
    <3> QED
      BY <3>1, <3>2 DEF Seen
  <2>6. record \in Seen'
    <3>1. seen[h] \in Seen'
      BY <2>5
    <3>2. Len(links') \in 0 .. Len(links') /\ 0 \in 0..MaxTime
      BY <2>2, CredentialBounds
    <3> QED
      BY <3>1, <3>2 DEF Seen
  <2>7. "mailing" \in Places
    BY DEF Places
  <2>8. Control'
    BY <2>1, <2>5, <2>6, <2>7 DEF Typed, Control
  <2>9. record.link = Len(links')
    BY DEF Typed, Control, Seen
  <2> HIDE DEF record
  <2>10. seen'[h].link = Len(links') /\ pc'[h] = "mailing"
         /\ \A g \in Handlers \ {h} : seen'[g] = seen[g] /\ pc'[g] = pc[g]
    BY <2>1, <2>9 DEF Typed, Control
  <2>11. links'[Len(links')].state = "stored"
         /\ \A k \in 1 .. Len(links) : links'[k] = links[k]
    <3>1. \A k \in 1 .. Len(links) : links'[k] = links[k]
      BY <1>2, StoreLinkLinks
    <3>2. links'[Len(links')] = [made |-> seen[h].now, state |-> "stored"]
      BY <1>2, StoreLinkLinks
    <3> QED
      BY <3>1, <3>2
  <2>12. MailInv'
    <3>1. \A g \in Handlers : pc'[g] = "issuing" => seen'[g].now \in 1..MaxTime
      BY <2>10 DEF Typed, MailInv
    <3>2. \A g \in Handlers \ {h} : pc'[g] \in Mailing =>
            seen'[g].link \in 1 .. Len(links) /\ links'[seen'[g].link] = links[seen[g].link]
      BY <2>10, <2>11 DEF Typed, MailInv
    <3>3. \A g \in Handlers : pc'[g] \in Mailing => seen'[g].link \in 1 .. Len(links')
      BY <2>2, <2>10, <3>2
    <3>4. \A g \in Handlers :
            pc'[g] = "mailing" => links'[seen'[g].link].state \in {"stored", "used"}
      BY <2>10, <2>11, <3>2 DEF Typed, MailInv, Mailing
    <3>5. \A g \in Handlers :
            pc'[g] = "withdrawing" => links'[seen'[g].link].state \in {"failed", "used"}
      BY <2>10, <3>2 DEF Typed, MailInv, Mailing
    <3>6. \A f, g \in Handlers : pc'[f] \in Mailing /\ pc'[g] \in Mailing /\ f # g =>
            seen'[f].link # seen'[g].link
      BY <2>2, <2>10, <3>2 DEF Typed, MailInv
    <3> QED
      BY <3>1, <3>3, <3>4, <3>5, <3>6 DEF MailInv
  <2> QED
    BY <2>4, <2>8, <2>12 DEF Typed
<1> QED
  BY <1>1, <1>2

LEMMA MailTyped ==
    ASSUME Typed, NEW h \in Handlers, Mail(h)
    PROVE  Typed'
<1> DEFINE n == seen[h].link
<1>1. pc[h] = "mailing" /\ n \in 1 .. Len(links) /\ UNCHANGED <<user, clock, late>>
  BY DEF Mail, Typed, MailInv, Mailing
<1>2. ASSUME NEW state \in {"mailed", "failed"}, Mark(n, state)
      PROVE  /\ links' \in Seq(Link) /\ Len(links') = Len(links)
             /\ links'[n].state \in {state, "used"}
             /\ \A k \in 1 .. Len(links) : k # n => links'[k] = links[k]
  BY <1>1, <1>2, MarkLink DEF Typed
<1>3. \E state \in {"mailed", "failed"} : Mark(n, state)
  BY DEF Mail
<1>4. links' \in Seq(Link) /\ Len(links') = Len(links)
      /\ \A k \in 1 .. Len(links) : k # n => links'[k] = links[k]
  BY <1>2, <1>3
<1>5. Data'
  BY <1>1, <1>4 DEF Typed, Data
<1>6. \A g \in Handlers : seen[g] \in Seen'
  BY <1>4 DEF Typed, Control, Seen
<1>7. \A g \in Handlers \ {h} : pc[g] \in Mailing =>
        seen[g].link \in 1 .. Len(links') /\ links'[seen[g].link] = links[seen[g].link]
  BY <1>1, <1>4 DEF Typed, MailInv, Mailing
<1>8. CASE Mark(n, "mailed") /\ Finish(h)
  <2>1. Nothing \in Seen'
    <3>1. Len(links') \in Nat
      BY <1>5, LenProperties DEF Data
    <3>2. 0 \in Passwords /\ NoToken \in 0..NoToken /\ 0 \in 0..MaxTime /\ 0 \in 0 .. Len(links')
      BY <3>1, CredentialBounds DEF Passwords, NoToken
    <3> QED
      BY <3>2 DEF Nothing, Seen
  <2>2. pc' = [pc EXCEPT ![h] = "idle"] /\ seen' = [seen EXCEPT ![h] = Nothing]
        /\ "idle" \in Places /\ "idle" \notin Mailing
    BY <1>8 DEF Finish, Goto, Places, Mailing
  <2>3. Control'
    BY <1>1, <1>6, <2>1, <2>2 DEF Typed, Control
  <2>4. pc'[h] = "idle"
        /\ \A g \in Handlers \ {h} : pc'[g] = pc[g] /\ seen'[g] = seen[g]
    BY <2>2 DEF Typed, Control
  <2>5. MailInv'
    BY <1>7, <2>4 DEF Typed, MailInv, Mailing
  <2> QED
    BY <1>5, <2>3, <2>5 DEF Typed
<1>9. CASE Mark(n, "failed") /\ Goto(h, "withdrawing") /\ UNCHANGED seen
  <2>1. pc' = [pc EXCEPT ![h] = "withdrawing"] /\ UNCHANGED seen
        /\ "withdrawing" \in Places
    BY <1>9 DEF Goto, Places
  <2>2. Control'
    BY <1>1, <1>6, <2>1 DEF Typed, Control
  <2>3. pc'[h] = "withdrawing" /\ \A g \in Handlers \ {h} : pc'[g] = pc[g]
    BY <2>1 DEF Typed, Control
  <2>4. links'[n].state \in {"failed", "used"}
    BY <1>2, <1>9
  <2>5. \A g \in Handlers : pc'[g] = "issuing" => seen'[g].now \in 1..MaxTime
    BY <2>1, <2>3 DEF Typed, MailInv
  <2>6. \A g \in Handlers : pc'[g] \in Mailing => pc[g] \in Mailing
    BY <1>1, <2>3 DEF Mailing
  <2>7. \A g \in Handlers : pc'[g] \in Mailing => seen'[g].link \in 1 .. Len(links')
    BY <1>4, <2>1, <2>6 DEF Typed, MailInv
  <2>8. \A g \in Handlers :
          pc'[g] = "mailing" => links'[seen'[g].link].state \in {"stored", "used"}
    BY <1>7, <2>1, <2>3 DEF Typed, MailInv, Mailing
  <2>9. \A g \in Handlers :
          pc'[g] = "withdrawing" => links'[seen'[g].link].state \in {"failed", "used"}
    BY <1>7, <2>1, <2>3, <2>4 DEF Typed, MailInv, Mailing
  <2>10. \A f, g \in Handlers : pc'[f] \in Mailing /\ pc'[g] \in Mailing /\ f # g =>
           seen'[f].link # seen'[g].link
    BY <2>1, <2>6 DEF Typed, MailInv
  <2>11. MailInv'
    BY <2>5, <2>7, <2>8, <2>9, <2>10 DEF MailInv
  <2> QED
    BY <1>5, <2>2, <2>11 DEF Typed
<1> QED
  BY <1>8, <1>9 DEF Mail

LEMMA ResetTyped ==
    ASSUME Typed, NEW n \in DOMAIN links, Reset(n)
    PROVE  Typed'
<1>1. n \in 1 .. Len(links) /\ Len(links) \in Nat
  BY LenProperties DEF Typed, Data
<1>2. Mark(n, "used") /\ UNCHANGED <<clock, pc, seen>>
  BY DEF Reset
<1>3. /\ links' \in Seq(Link) /\ Len(links') = Len(links)
      /\ links'[n].state = "used"
      /\ \A k \in 1 .. Len(links) : k # n => links'[k] = links[k]
  BY <1>1, <1>2, MarkLink DEF Typed
<1>4. Data'
  <2>1. n \in Passwords /\ 0 \in Passwords /\ NoToken \in 0..NoToken
        /\ 0 \in 0 .. MaxTime + Lifetime
    BY <1>1, CredentialBounds DEF Typed, Data, Passwords, NoToken
  <2> QED
    BY <1>3, <2>1 DEF Reset, Typed, Data, Row
<1>5. late' \in BOOLEAN
  BY DEF Reset
<1>6. Control'
  BY <1>2, <1>3, <1>5 DEF Typed, Control, Seen
<1>7. MailInv'
  <2>1. \A h \in Handlers : pc[h] \in Mailing =>
          seen[h].link \in 1 .. Len(links')
          /\ links'[seen[h].link].state \in {links[seen[h].link].state, "used"}
    BY <1>3 DEF Typed, MailInv
  <2> QED
    BY <1>2, <2>1 DEF Typed, MailInv, Mailing
<1> QED
  BY <1>4, <1>6, <1>7 DEF Typed

LEMMA InitTyped ==
    ASSUME Init
    PROVE  Typed
<1>1. 0 \in Passwords /\ NoToken \in 0..NoToken /\ 0 \in 0 .. MaxTime + Lifetime
      /\ 0 \in 0..MaxTime
  BY CredentialBounds DEF Passwords, NoToken
<1>2. links \in Seq(Link) /\ Len(links) = 0
  BY EmptySeq DEF Init
<1>3. Data
  BY <1>1, <1>2, CredentialBounds DEF Init, Data, Row
<1>4. Nothing \in Seen
  BY <1>1, <1>2 DEF Nothing, Seen
<1>5. 1 \in 1..MaxTime
  BY CredentialBounds
<1>6. Control /\ MailInv
  BY <1>4, <1>5 DEF Init, Control, MailInv, Mailing, Places
<1> QED
  BY <1>3, <1>6 DEF Typed

LEMMA NextTyped ==
    ASSUME Typed, [Next]_vars
    PROVE  Typed'
<1>1. CASE UNCHANGED vars
  BY <1>1 DEF vars, Typed, Data, Control, MailInv, Seen
<1>2. ASSUME NEW h \in Handlers, Step(h)
      PROVE  Typed'
  BY <1>2, SignInTyped, WriteTyped, RequestTyped, StoreLinkTyped, MailTyped, EndTyped DEF Step
<1>3. ASSUME NEW n \in DOMAIN links, Reset(n)
      PROVE  Typed'
  BY <1>3, ResetTyped
<1>4. CASE Logout \/ Tick
  BY <1>4, ClockAndLogoutTyped
<1> QED
  BY <1>1, <1>2, <1>3, <1>4 DEF Next

LEMMA AlwaysTyped == Spec => []Typed
<1>1. Init => Typed
  BY InitTyped
<1>2. Typed /\ [Next]_vars => Typed'
  BY NextTyped
<1> QED
  BY <1>1, <1>2, PTL DEF Spec

\* Every reachable state of the row, the links and the requests is typed, for
\* any number of requests, any bound and any two times (AuthService, UsersService,
\* PasswordResetService).
THEOREM CredentialsTypeCorrect == Spec => []TypeOK
<1>1. Typed => TypeOK
  BY DEF Typed, Data, Control, TypeOK, Link, Seen
<1> QED
  BY <1>1, AlwaysTyped, PTL
-----------------------------------------------------------------------------
(* The link in the row. *)

\* The steps that concern neither the links nor the row's link.
LEMMA OtherStepsKeepLink ==
    ASSUME Typed,
           \/ \E h \in Handlers :
                \/ Login(h) \/ FindBySns(h) \/ FindByEmail(h) \/ CompareUser(h)
                \/ WriteUser(h) \/ StoreToken(h) \/ Request(h) \/ Die(h)
           \/ Logout \/ Tick \/ UNCHANGED vars
    PROVE  UNCHANGED <<links, user.link, user.expires>>
<1>1. user \in Row
  BY DEF Typed, Data
<1>2. ASSUME NEW h \in Handlers, WriteUser(h)
      PROVE  UNCHANGED <<links, user.link, user.expires>>
  BY <1>2, WriteUserRow DEF WriteUser
<1>3. ASSUME NEW h \in Handlers, StoreToken(h)
      PROVE  UNCHANGED <<links, user.link, user.expires>>
  BY <1>1, <1>3 DEF StoreToken, Row
<1>4. CASE Logout
  BY <1>1, <1>4 DEF Logout, Row
<1>5. ASSUME NEW h \in Handlers,
             Login(h) \/ FindBySns(h) \/ FindByEmail(h) \/ CompareUser(h)
               \/ Request(h) \/ Die(h)
      PROVE  UNCHANGED <<user, links>>
  BY <1>5 DEF Login, FindBySns, FindByEmail, CompareUser, Request, Die
<1>6. CASE Tick \/ UNCHANGED vars
  BY <1>6 DEF Tick, vars
<1> QED
  BY <1>2, <1>3, <1>4, <1>5, <1>6

\* What a stored link meets: the one before it was used or its mail failed, or
\* it is the cool-down old.
LEMMA StoredAfterCooldown ==
    ASSUME Typed, LinkInv, NEW h \in Handlers, StoreLink(h), CooledDown(seen[h].now),
           Len(links) # 0
    PROVE  \/ links[Len(links)].state \in {"used", "failed"}
           \/ seen[h].now >= links[Len(links)].made + Cooldown
<1>1. links \in Seq(Link) /\ Len(links) \in Nat /\ Len(links) \in 1 .. Len(links)
  BY LenProperties DEF Typed, Data
<1>2. links[Len(links)] \in Link
  BY <1>1, ElementOfSeq
<1>3. CASE user.link = 0
  <2>1. links[Len(links)].state \notin {"stored", "mailed"}
    BY <1>1, <1>3 DEF LinkInv
  <2> QED
    BY <1>2, <2>1 DEF Link
<1>4. CASE user.link # 0
  <2>1. user.link = Len(links) /\ user.expires = links[Len(links)].made + Lifetime
    BY <1>4 DEF LinkInv
  <2>2. seen[h].now \in 1..MaxTime
    BY DEF StoreLink, Typed, MailInv
  <2>3. links[Len(links)].made \in 1..MaxTime
    BY <1>2 DEF Link
  <2> QED
    BY <2>1, <2>2, <2>3, CredentialBounds DEF CooledDown
<1> QED
  BY <1>3, <1>4

LEMMA StoreLinkKeepsLinkInv ==
    ASSUME Typed, LinkInv, NEW h \in Handlers, StoreLink(h)
    PROVE  LinkInv'
<1>1. CASE ~CooledDown(seen[h].now)
  BY <1>1 DEF StoreLink, LinkInv
<1>2. CASE CooledDown(seen[h].now)
  <2>1. user \in Row /\ Len(links) \in Nat
    BY LenProperties DEF Typed, Data
  <2>2. user' = [user EXCEPT !.link = Len(links'), !.expires = Expiry(seen[h].now)]
    BY <1>2 DEF StoreLink
  <2>3. user'.link = Len(links') /\ user'.expires = seen[h].now + Lifetime
    BY <2>1, <2>2 DEF Row, Expiry
  <2>4. links'[Len(links')] = [made |-> seen[h].now, state |-> "stored"]
    BY <1>2, StoreLinkLinks
  <2>5. Len(links') = Len(links) + 1
    BY <1>2, StoreLinkLinks
  <2> QED
    BY <2>1, <2>3, <2>4, <2>5 DEF LinkInv
<1> QED
  BY <1>1, <1>2

LEMMA MailKeepsLinkInv ==
    ASSUME Typed, LinkInv, NEW h \in Handlers, Mail(h)
    PROVE  LinkInv'
<1> DEFINE n == seen[h].link
<1>1. n \in 1 .. Len(links) /\ links[n].state \in {"stored", "used"} /\ UNCHANGED user
  BY DEF Mail, Typed, MailInv, Mailing
<1>2. ASSUME NEW state \in {"mailed", "failed"}, Mark(n, state)
      PROVE  LinkInv'
  <2>1. /\ Len(links') = Len(links)
        /\ \A k \in 1 .. Len(links) :
             /\ links'[k].made = links[k].made
             /\ k # n => links'[k] = links[k]
        /\ links'[n].state = IF links[n].state = "used" THEN "used" ELSE state
    BY <1>1, <1>2, MarkLink DEF Typed
  <2>2. Len(links) \in Nat
    BY LenProperties DEF Typed, Data
  <2> HIDE DEF n
  <2>3. \A k \in 1 .. Len(links) :
          links'[k].state \in {"stored", "mailed"} => links[k].state \in {"stored", "mailed"}
    BY <1>1, <2>1
  <2>4. \A k \in 1 .. Len(links) : links'[k].state = "used" => links[k].state = "used"
    BY <1>1, <1>2, <2>1
  <2>5. user.link # 0 => user.link \in 1 .. Len(links)
    BY <2>2 DEF LinkInv
  <2> QED
    BY <1>1, <2>1, <2>2, <2>3, <2>4, <2>5 DEF LinkInv
<1> QED
  BY <1>2 DEF Mail

LEMMA WithdrawKeepsLinkInv ==
    ASSUME Typed, LinkInv, NEW h \in Handlers, Withdraw(h)
    PROVE  LinkInv'
<1>1. CASE user.link # seen[h].link
  BY <1>1 DEF Withdraw, LinkInv
<1>2. CASE user.link = seen[h].link
  <2>1. user \in Row /\ user' = [user EXCEPT !.link = 0, !.expires = 0] /\ UNCHANGED links
    BY <1>2 DEF Withdraw, Typed, Data
  <2>2. user'.link = 0 /\ user'.expires = 0
    BY <2>1 DEF Row
  <2>3. user.link \in 1 .. Len(links) /\ links[user.link].state \in {"failed", "used"}
    BY <1>2 DEF Withdraw, Typed, MailInv, Mailing
  <2>4. user.link = Len(links)
    BY <2>3 DEF LinkInv
  <2> QED
    BY <2>1, <2>2, <2>3, <2>4 DEF LinkInv
<1> QED
  BY <1>1, <1>2

LEMMA ResetKeepsLinkInv ==
    ASSUME Typed, LinkInv, NEW n \in DOMAIN links, Reset(n)
    PROVE  LinkInv'
<1>1. n \in 1 .. Len(links) /\ Len(links) \in Nat /\ user \in Row
  BY LenProperties DEF Typed, Data
<1>2. Len(links') = Len(links) /\ links'[n].state = "used"
  BY <1>1, MarkLink DEF Reset, Typed
<1>3. user' = [user EXCEPT !.password = n, !.refresh = NoToken, !.link = 0, !.expires = 0]
  BY DEF Reset
<1>4. user'.link = 0 /\ user'.expires = 0
  BY <1>1, <1>3 DEF Row
<1>5. n = Len(links)
  BY <1>1 DEF Reset, LinkInv
<1> QED
  BY <1>2, <1>4, <1>5 DEF LinkInv

LEMMA NextKeepsLinkInv ==
    ASSUME Typed, LinkInv, [Next]_vars
    PROVE  LinkInv'
<1>1. ASSUME UNCHANGED <<links, user.link, user.expires>>
      PROVE  LinkInv'
  BY <1>1 DEF LinkInv
<1> QED
  BY <1>1, OtherStepsKeepLink, StoreLinkKeepsLinkInv, MailKeepsLinkInv,
     WithdrawKeepsLinkInv, ResetKeepsLinkInv DEF Next, Step

LEMMA AlwaysLinkInv == Spec => []LinkInv
<1>1. Init => LinkInv
  <2> SUFFICES ASSUME Init PROVE LinkInv
    OBVIOUS
  <2>1. Len(links) = 0
    BY EmptySeq DEF Init
  <2> QED
    BY <2>1 DEF Init, LinkInv
<1>2. Typed /\ LinkInv /\ [Next]_vars => LinkInv'
  BY NextKeepsLinkInv
<1> QED
  BY <1>1, <1>2, AlwaysTyped, PTL DEF Spec

\* A link that was mailed can be used until it expires or another is stored,
\* whichever requests fail, die or overlap (PasswordResetService.request).
THEOREM MailedLinkAlwaysWorks == Spec => []MailedLinkWorks
<1>1. Typed /\ LinkInv => MailedLinkWorks
  BY DEF Typed, Data, LinkInv, MailedLinkWorks
<1> QED
  BY <1>1, AlwaysTyped, AlwaysLinkInv, PTL
-----------------------------------------------------------------------------
(* Two mails are the cool-down apart. *)

LEMMA StoreLinkKeepsApart ==
    ASSUME Typed, LinkInv, MailsApart, NEW h \in Handlers, StoreLink(h),
           CooledDown(seen[h].now)
    PROVE  MailsApart'
<1> DEFINE last == Len(links)
<1>1. last \in Nat /\ DOMAIN links = 1 .. last /\ links \in Seq(Link)
  BY LenProperties DEF Typed, Data
<1>2. /\ links' \in Seq(Link) /\ Len(links') = last + 1
      /\ \A k \in 1 .. last : links'[k] = links[k]
      /\ links'[last + 1] = [made |-> seen[h].now, state |-> "stored"]
  <2>1. /\ links' \in Seq(Link) /\ Len(links') = last + 1
        /\ \A k \in 1 .. last : links'[k] = links[k]
    BY StoreLinkLinks
  <2>2. links'[Len(links')] = [made |-> seen[h].now, state |-> "stored"]
    BY StoreLinkLinks
  <2> QED
    BY <2>1, <2>2
<1>3. DOMAIN links' = 1 .. last + 1
  BY <1>2, LenProperties
<1>4. links'[last + 1].made = seen[h].now
  BY <1>2
<1>5. Cooldown \in Nat /\ \A k \in 1 .. last : links[k].made \in Nat
  <2>1. \A k \in 1 .. last : links[k] \in Link
    BY <1>1, ElementOfSeq
  <2> QED
    BY <2>1, CredentialBounds DEF Link
<1>6. seen[h].now \in Nat
  BY DEF StoreLink, Typed, MailInv
<1> HIDE DEF last
<1>7. ASSUME NEW n \in 1 .. last, NEW m \in 1 .. last, n < m,
             links[m].made < links[n].made + Cooldown
      PROVE  \E k \in n .. m - 1 : links[k].state \in {"used", "failed"}
  BY <1>1, <1>7 DEF MailsApart
<1>8. ASSUME NEW n \in 1 .. last, seen[h].now < links[n].made + Cooldown
      PROVE  \E k \in n .. last : links[k].state \in {"used", "failed"}
  <2>1. last # 0 /\ last \in 1 .. last
    BY <1>1
  <2>2. CASE links[last].state \in {"used", "failed"}
    BY <1>1, <2>1, <2>2
  <2>3. CASE seen[h].now >= links[last].made + Cooldown
    <3>1. links[last].made < links[n].made
      BY <1>5, <1>6, <1>8, <2>1, <2>3
    <3>2. n < last /\ links[last].made < links[n].made + Cooldown
      BY <1>1, <1>5, <2>1, <3>1
    <3>3. \E k \in n .. last - 1 : links[k].state \in {"used", "failed"}
      BY <1>7, <2>1, <3>2
    <3> QED
      BY <1>1, <3>3
  <2> QED
    BY <2>1, <2>2, <2>3, StoredAfterCooldown DEF last
<1>9. ASSUME NEW n \in 1 .. last + 1, NEW m \in 1 .. last + 1, n < m,
             links'[m].made < links'[n].made + Cooldown
      PROVE  \E k \in n .. m - 1 : links'[k].state \in {"used", "failed"}
  <2>1. n \in 1 .. last /\ links'[n] = links[n]
    BY <1>1, <1>2, <1>9
  <2>2. CASE m = last + 1
    <3>1. \E k \in n .. last : links[k].state \in {"used", "failed"}
      BY <1>4, <1>8, <1>9, <2>1, <2>2
    <3> QED
      BY <1>1, <1>2, <2>1, <2>2, <3>1
  <2>3. CASE m # last + 1
    <3>1. m \in 1 .. last /\ links'[m] = links[m]
      BY <1>1, <1>2, <2>3
    <3>2. \E k \in n .. m - 1 : links[k].state \in {"used", "failed"}
      BY <1>7, <1>9, <2>1, <3>1
    <3> QED
      BY <1>1, <1>2, <2>1, <3>1, <3>2
  <2> QED
    BY <2>2, <2>3
<1> QED
  BY <1>3, <1>9 DEF MailsApart

\* Marking links takes no account of times and never frees a link less.
LEMMA MarkKeepsApart ==
    ASSUME Typed, MailsApart, NEW n \in 1 .. Len(links),
           NEW state \in {"mailed", "failed", "used"}, Mark(n, state),
           links[n].state \in {"stored", "used"} \/ state = "used"
    PROVE  MailsApart'
<1>1. Len(links) \in Nat /\ DOMAIN links = 1 .. Len(links)
  BY LenProperties DEF Typed, Data
<1>2. /\ links' \in Seq(Link) /\ Len(links') = Len(links)
      /\ \A k \in 1 .. Len(links) :
           /\ links'[k].made = links[k].made
           /\ k # n => links'[k] = links[k]
      /\ links'[n].state = IF links[n].state = "used" THEN "used" ELSE state
  BY MarkLink DEF Typed
<1>3. DOMAIN links' = 1 .. Len(links)
  BY <1>2, LenProperties
<1>4. \A k \in 1 .. Len(links) : links[k].state \in {"used", "failed"} =>
        links'[k].state \in {"used", "failed"}
  BY <1>2
<1>5. \A j, m \in 1 .. Len(links) : \A k \in j .. m - 1 : k \in 1 .. Len(links)
  BY <1>1
<1> QED
  BY <1>1, <1>2, <1>3, <1>4, <1>5 DEF MailsApart

LEMMA NextKeepsApart ==
    ASSUME Typed, LinkInv, MailsApart, [Next]_vars
    PROVE  MailsApart'
<1>1. ASSUME UNCHANGED links
      PROVE  MailsApart'
  BY <1>1 DEF MailsApart
<1>2. ASSUME NEW h \in Handlers, StoreLink(h)
      PROVE  MailsApart'
  <2>1. CASE CooledDown(seen[h].now)
    BY <1>2, <2>1, StoreLinkKeepsApart
  <2>2. CASE ~CooledDown(seen[h].now)
    BY <1>1, <1>2, <2>2 DEF StoreLink
  <2> QED
    BY <2>1, <2>2
<1>3. ASSUME NEW h \in Handlers, Mail(h)
      PROVE  MailsApart'
  <2>1. seen[h].link \in 1 .. Len(links) /\ links[seen[h].link].state \in {"stored", "used"}
    BY <1>3 DEF Mail, Typed, MailInv, Mailing
  <2> QED
    BY <1>3, <2>1, MarkKeepsApart DEF Mail
<1>4. ASSUME NEW n \in DOMAIN links, Reset(n)
      PROVE  MailsApart'
  <2>1. n \in 1 .. Len(links)
    BY LenProperties DEF Typed, Data
  <2> QED
    BY <1>4, <2>1, MarkKeepsApart DEF Reset
<1>5. ASSUME NEW h \in Handlers, Withdraw(h)
      PROVE  MailsApart'
  BY <1>1, <1>5 DEF Withdraw
<1> QED
  BY <1>1, <1>2, <1>3, <1>4, <1>5, OtherStepsKeepLink DEF Next, Step

\* However many requests ask for a mail at the same time, two mails are the
\* cool-down apart unless a link was used or a mail failed between them
\* (PasswordResetService.request, password-reset.service.ts:50).
THEOREM MailsStayApart == Spec => []MailsApart
<1>1. Init => MailsApart
  <2> SUFFICES ASSUME Init PROVE MailsApart
    OBVIOUS
  <2>1. DOMAIN links = {}
    BY DEF Init
  <2> QED
    BY <2>1 DEF MailsApart
<1>2. Typed /\ LinkInv /\ MailsApart /\ [Next]_vars => MailsApart'
  BY NextKeepsApart
<1> QED
  BY <1>1, <1>2, AlwaysTyped, AlwaysLinkInv, PTL DEF Spec
-----------------------------------------------------------------------------
(* A reset holds. *)

\* A sign-in that overlaps no reset has read what the row says, so that it
\* writes no other password and no token of another password.
LEMMA SignInStep ==
    ASSUME Typed, SignInInv, ResetHolds, NEW h \in Handlers,
           Login(h) \/ FindBySns(h) \/ FindByEmail(h) \/ CompareUser(h)
    PROVE  SignInInv' /\ ResetHolds'
<1>1. UNCHANGED <<user, links, late>>
  BY DEF Login, FindBySns, FindByEmail, CompareUser
<1>2. ResetHolds'
  BY <1>1 DEF ResetHolds, Used
<1>3. seen[h] \in Seen
  BY DEF Typed, Control
<1> DEFINE Knows(where, record) ==
      /\ where \in {"storing", "comparing", "writing"} => record.password = user.password
      /\ where \in {"comparing", "writing"} => record.refresh \in {NoToken, user.password}
      /\ where = "writing" => "password" \notin record.dirty
<1>4. ASSUME NEW where, NEW record, Goto(h, where), seen' = [seen EXCEPT ![h] = record],
             ~late => Knows(where, record)
      PROVE  SignInInv'
  <2>1. pc'[h] = where /\ seen'[h] = record
        /\ \A g \in Handlers \ {h} : pc'[g] = pc[g] /\ seen'[g] = seen[g]
    BY <1>4 DEF Goto, Typed, Control
  <2> QED
    BY <1>1, <1>4, <2>1 DEF SignInInv
<1>5. CASE Login(h)
  <2> DEFINE record == [seen[h] EXCEPT !.password = user.password]
  <2>1. record.password = user.password
    BY <1>3 DEF Seen
  <2>2. seen' = [seen EXCEPT ![h] = record] /\ Goto(h, "storing")
    BY <1>5 DEF Login
  <2>3. Knows("storing", record)
    BY <2>1
  <2> HIDE DEF record, Knows
  <2> QED
    BY <1>2, <1>4, <2>2, <2>3
<1>6. CASE FindBySns(h)
  <2>1. CASE user.sns
    <3> DEFINE record == [seen[h] EXCEPT !.password = user.password]
    <3>1. record.password = user.password
      BY <1>3 DEF Seen
    <3>2. seen' = [seen EXCEPT ![h] = record] /\ Goto(h, "storing")
      BY <1>6, <2>1 DEF FindBySns
    <3>3. Knows("storing", record)
      BY <3>1
    <3> HIDE DEF record, Knows
    <3> QED
      BY <1>2, <1>4, <3>2, <3>3
  <2>2. CASE ~user.sns
    <3>1. seen' = [seen EXCEPT ![h] = seen[h]] /\ Goto(h, "byEmail")
      BY <1>6, <2>2 DEF FindBySns, Typed, Control
    <3>2. Knows("byEmail", seen[h])
      OBVIOUS
    <3> HIDE DEF Knows
    <3> QED
      BY <1>2, <1>4, <3>1, <3>2
  <2> QED
    BY <2>1, <2>2
<1>7. CASE FindByEmail(h)
  <2> DEFINE record == [seen[h] EXCEPT !.password = user.password, !.refresh = user.refresh]
  <2>1. record.password = user.password /\ record.refresh = user.refresh
    BY <1>3 DEF Seen
  <2>2. seen' = [seen EXCEPT ![h] = record] /\ Goto(h, "comparing")
    BY <1>7 DEF FindByEmail, Typed, Control
  <2>3. ~late => Knows("comparing", record)
    BY <2>1 DEF ResetHolds
  <2> HIDE DEF record, Knows
  <2> QED
    BY <1>2, <1>4, <2>2, <2>3
<1>8. CASE CompareUser(h)
  <2> DEFINE differs == {c \in {"password", "refresh"} : user[c] # seen[h][c]}
                          \cup {c \in {"sns"} : ~user.sns}
             record == [seen[h] EXCEPT !.dirty = differs]
  <2>1. record.password = seen[h].password /\ record.refresh = seen[h].refresh
        /\ record.dirty = differs
    BY <1>3 DEF Seen
  <2>2. pc[h] = "comparing" /\ seen' = [seen EXCEPT ![h] = record] /\ Goto(h, "writing")
    BY <1>8 DEF CompareUser
  <2>3. ~late => seen[h].password = user.password
                 /\ seen[h].refresh \in {NoToken, user.password}
    BY <2>2 DEF SignInInv
  <2>4. ~late => "password" \notin differs
    BY <2>3
  <2> HIDE DEF record, differs
  <2>5. ~late => Knows("writing", record)
    BY <2>1, <2>3, <2>4
  <2> HIDE DEF Knows
  <2> QED
    BY <1>2, <1>4, <2>2, <2>5
<1> QED
  BY <1>5, <1>6, <1>7, <1>8

\* A request is over, or at a step that is no sign-in.
LEMMA SignInElsewhere ==
    ASSUME Typed, SignInInv, NEW h \in Handlers, UNCHANGED <<user.password, late>>,
           NEW where \in Places \ SigningIn, Goto(h, where),
           \A g \in Handlers \ {h} : seen'[g] = seen[g]
    PROVE  SignInInv'
<1>1. pc'[h] = where /\ \A g \in Handlers \ {h} : pc'[g] = pc[g]
  BY DEF Goto, Typed, Control
<1> QED
  BY <1>1 DEF SignInInv, SigningIn

LEMMA WriteStep ==
    ASSUME Typed, SignInInv, ResetHolds, NEW h \in Handlers, WriteUser(h) \/ StoreToken(h)
    PROVE  SignInInv' /\ ResetHolds'
<1>1. user \in Row /\ seen[h] \in Seen /\ UNCHANGED <<links, late>>
  BY DEF Typed, Data, Control, WriteUser, StoreToken
<1>2. CASE WriteUser(h)
  <2>1. pc[h] = "writing"
    BY <1>2 DEF WriteUser
  <2>2. ~late => /\ seen[h].password = user.password
                 /\ seen[h].refresh \in {NoToken, user.password}
                 /\ "password" \notin seen[h].dirty
    BY <2>1 DEF SignInInv
  <2>3. ~late => user'.password = user.password
    BY <1>2, <2>2, WriteUserRow
  <2>4. user'.refresh \in {user.refresh, seen[h].refresh}
    BY <1>2, WriteUserRow
  <2>5. ResetHolds'
    BY <1>1, <2>2, <2>3, <2>4 DEF ResetHolds, Used
  <2>6. seen' = [seen EXCEPT ![h] = [seen[h] EXCEPT !.refresh = NoToken, !.dirty = {}]]
        /\ pc' = [pc EXCEPT ![h] = "storing"]
    BY <1>2 DEF WriteUser, Goto, Typed, Control
  <2>7. pc'[h] = "storing" /\ seen'[h].password = seen[h].password
        /\ \A g \in Handlers \ {h} : pc'[g] = pc[g] /\ seen'[g] = seen[g]
    BY <1>1, <2>6 DEF Typed, Control, Seen
  <2>8. SignInInv'
    BY <1>1, <2>2, <2>3, <2>7 DEF SignInInv
  <2> QED
    BY <2>5, <2>8
<1>3. CASE StoreToken(h)
  <2>1. user' = [user EXCEPT !.refresh = seen[h].password] /\ pc[h] = "storing"
    BY <1>3 DEF StoreToken
  <2>2. user'.password = user.password /\ user'.refresh = seen[h].password
    BY <1>1, <2>1 DEF Row
  <2>3. ~late => seen[h].password = user.password
    BY <2>1 DEF SignInInv
  <2>4. ResetHolds'
    BY <1>1, <2>2, <2>3 DEF ResetHolds, Used
  <2>5. Goto(h, "idle") /\ \A g \in Handlers \ {h} : seen'[g] = seen[g]
    BY <1>3 DEF StoreToken, Finish, Typed, Control
  <2>6. "idle" \in Places \ SigningIn
    BY DEF Places, SigningIn
  <2> QED
    BY <1>1, <2>2, <2>4, <2>5, <2>6, SignInElsewhere
<1> QED
  BY <1>2, <1>3

\* Only a reset uses a link.
LEMMA UsedByResetOnly ==
    ASSUME Typed, NEW h \in Handlers, StoreLink(h) \/ Mail(h)
    PROVE  Used' = Used
<1>1. Len(links) \in Nat /\ DOMAIN links = 1 .. Len(links)
  BY LenProperties DEF Typed, Data
<1>2. CASE StoreLink(h) /\ CooledDown(seen[h].now)
  <2>1. /\ links' \in Seq(Link) /\ Len(links') = Len(links) + 1
        /\ \A k \in 1 .. Len(links) : links'[k] = links[k]
    BY <1>2, StoreLinkLinks
  <2>2. links'[Len(links')] = [made |-> seen[h].now, state |-> "stored"]
    BY <1>2, StoreLinkLinks
  <2>3. DOMAIN links' = 1 .. Len(links) + 1
    BY <2>1, LenProperties
  <2>4. links'[Len(links) + 1].state = "stored"
    BY <2>1, <2>2
  <2> QED
    BY <1>1, <2>1, <2>3, <2>4 DEF Used
<1>3. CASE StoreLink(h) /\ ~CooledDown(seen[h].now)
  BY <1>3 DEF StoreLink, Used
<1>4. CASE Mail(h)
  <2> DEFINE n == seen[h].link
  <2>1. n \in 1 .. Len(links)
    BY <1>4 DEF Mail, Typed, MailInv, Mailing
  <2>2. ASSUME NEW state \in {"mailed", "failed"}, Mark(n, state)
        PROVE  Used' = Used
    <3>1. /\ links' \in Seq(Link) /\ Len(links') = Len(links)
          /\ \A k \in 1 .. Len(links) : k # n => links'[k] = links[k]
          /\ links'[n].state = IF links[n].state = "used" THEN "used" ELSE state
      BY <2>1, <2>2, MarkLink DEF Typed
    <3>2. DOMAIN links' = 1 .. Len(links)
      BY <3>1, LenProperties
    <3> HIDE DEF n
    <3>3. \A k \in 1 .. Len(links) : links'[k].state = "used" <=> links[k].state = "used"
      BY <2>1, <2>2, <3>1
    <3> QED
      BY <1>1, <3>2, <3>3 DEF Used
  <2> QED
    BY <1>4, <2>2 DEF Mail
<1> QED
  BY <1>2, <1>3, <1>4

LEMMA LinkStep ==
    ASSUME Typed, SignInInv, ResetHolds, NEW h \in Handlers,
           Request(h) \/ StoreLink(h) \/ Mail(h) \/ Withdraw(h) \/ Die(h)
    PROVE  SignInInv' /\ ResetHolds'
<1>1. user \in Row /\ UNCHANGED late
  BY DEF Typed, Data, Request, StoreLink, Mail, Withdraw, Die
<1>2. UNCHANGED user \/ \E n, t : user' = [user EXCEPT !.link = n, !.expires = t]
  BY DEF Request, StoreLink, Mail, Withdraw, Die
<1>3. user'.password = user.password /\ user'.refresh = user.refresh
  BY <1>1, <1>2 DEF Row
<1>4. Used' = Used
  <2>1. CASE Request(h) \/ Withdraw(h) \/ Die(h)
    BY <2>1 DEF Request, Withdraw, Die, Used
  <2> QED
    BY <2>1, UsedByResetOnly
<1>5. ResetHolds'
  BY <1>1, <1>3, <1>4 DEF ResetHolds
<1>6. \E where \in {"idle", "issuing", "mailing", "withdrawing"} : Goto(h, where)
  BY DEF Request, StoreLink, Mail, Withdraw, Die, Finish
<1>7. {"idle", "issuing", "mailing", "withdrawing"} \subseteq Places \ SigningIn
  BY DEF Places, SigningIn
<1>8. \A g \in Handlers \ {h} : seen'[g] = seen[g]
  BY DEF Request, StoreLink, Mail, Withdraw, Die, Finish, Typed, Control
<1>9. SignInInv'
  BY <1>1, <1>3, <1>6, <1>7, <1>8, SignInElsewhere
<1> QED
  BY <1>5, <1>9

\* The link a reset uses is the newest one, so no used link is newer than the
\* password; nobody is signing in, or the reset is late.
LEMMA ResetStep ==
    ASSUME Typed, LinkInv, SignInInv, ResetHolds, NEW n \in DOMAIN links, Reset(n)
    PROVE  SignInInv' /\ ResetHolds'
<1>1. n \in 1 .. Len(links) /\ Len(links) \in Nat /\ user \in Row
      /\ DOMAIN links = 1 .. Len(links)
  BY LenProperties DEF Typed, Data
<1>2. n = Len(links)
  BY <1>1 DEF Reset, LinkInv
<1>3. user' = [user EXCEPT !.password = n, !.refresh = NoToken, !.link = 0, !.expires = 0]
      /\ UNCHANGED <<pc, seen>>
  BY DEF Reset
<1>4. user'.password = n /\ user'.refresh = NoToken
  BY <1>1, <1>3 DEF Row
<1>5. ~late' => \A h \in Handlers : pc'[h] \notin SigningIn
  BY <1>3 DEF Reset
<1>6. SignInInv'
  BY <1>5 DEF SignInInv, SigningIn
<1>7. links' \in Seq(Link) /\ Len(links') = Len(links) /\ links'[n].state = "used"
  BY <1>1, MarkLink DEF Reset, Typed
<1>8. DOMAIN links' = 1 .. Len(links)
  BY <1>7, LenProperties
<1>9. Used' \subseteq 1 .. Len(links) /\ n \in Used'
  BY <1>1, <1>7, <1>8 DEF Used
<1>10. 1 .. Len(links) \subseteq 0 .. user'.password
  BY <1>1, <1>2, <1>4
<1> QED
  BY <1>4, <1>6, <1>9, <1>10 DEF ResetHolds

LEMMA OtherStep ==
    ASSUME Typed, SignInInv, ResetHolds, Logout \/ Tick \/ UNCHANGED vars
    PROVE  SignInInv' /\ ResetHolds'
<1>1. user \in Row
  BY DEF Typed, Data
<1>2. UNCHANGED <<links, pc, seen, late>> /\ user'.password = user.password
      /\ user'.refresh \in {user.refresh, NoToken}
  BY <1>1 DEF Logout, Tick, vars, Row
<1> QED
  BY <1>2 DEF SignInInv, ResetHolds, Used

\* After a reset that overlaps no sign-in, nothing brings an older password or
\* a token made for one back into the row, in whatever order the requests run
\* and wherever they fail (PasswordResetService.reset, docs/password-reset.md:8).
THEOREM ResetIsFinal == Spec => []ResetHolds
<1>1. Init => SignInInv /\ ResetHolds
  <2> SUFFICES ASSUME Init PROVE SignInInv /\ ResetHolds
    OBVIOUS
  <2>1. DOMAIN links = {}
    BY DEF Init
  <2> QED
    BY <2>1 DEF Init, SignInInv, ResetHolds, Used
<1>2. Typed /\ LinkInv /\ (SignInInv /\ ResetHolds) /\ [Next]_vars
        => (SignInInv /\ ResetHolds)'
  <2> SUFFICES ASSUME Typed, LinkInv, SignInInv, ResetHolds, [Next]_vars
               PROVE  SignInInv' /\ ResetHolds'
    OBVIOUS
  <2>1. ASSUME NEW h \in Handlers, Step(h)
        PROVE  SignInInv' /\ ResetHolds'
    BY <2>1, SignInStep, WriteStep, LinkStep DEF Step
  <2>2. ASSUME NEW n \in DOMAIN links, Reset(n)
        PROVE  SignInInv' /\ ResetHolds'
    BY <2>2, ResetStep
  <2>3. CASE Logout \/ Tick \/ UNCHANGED vars
    BY <2>3, OtherStep
  <2> QED
    BY <2>1, <2>2, <2>3 DEF Next
<1> QED
  BY <1>1, <1>2, AlwaysTyped, AlwaysLinkInv, PTL DEF Spec
=============================================================================
