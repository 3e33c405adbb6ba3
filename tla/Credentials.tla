----------------------------- MODULE Credentials -----------------------------
(***************************************************************************)
(* The users row of one local account: signing in and out (AuthService,    *)
(* UsersService), linking a Kakao account of the same e-mail address, and  *)
(* resetting the password with a mailed link (PasswordResetService).       *)
(*                                                                         *)
(* A password is the number of the link that set it, 0 at first.  A refresh*)
(* token, or the hash kept of it, is the password the row had when the     *)
(* token was made.  refresh() reads the row and changes nothing: it honours*)
(* exactly the token whose hash the row keeps.                             *)
(***************************************************************************)
EXTENDS Naturals, Sequences

CONSTANTS
    Handlers,      \* requests that may run at the same time
    Lifetime,      \* how long a link can be used: 15 minutes
    Cooldown,      \* time between two mails: 1 minute
    MaxLinks,      \* bound: links stored
    MaxTime        \* bound: the clock

ASSUME CredentialBounds ==
    /\ {Lifetime, Cooldown, MaxLinks, MaxTime} \subseteq Nat
    /\ Cooldown < Lifetime /\ MaxTime # 0

VARIABLES
    user,          \* the row: [password, refresh, sns, link, expires]
    links,         \* every link stored: <<[made, state], ...>>
    clock,
    pc,            \* where each request is
    seen,          \* what each request has read and not yet used
    late           \* history: a password was reset during a sign-in

vars == <<user, links, clock, pc, seen, late>>

NoToken == MaxLinks + 1
Passwords == 0..MaxLinks
Columns == {"password", "refresh", "sns"}

\* link 0 and expires 0 are NULL.
Row == [password : Passwords, refresh : 0..NoToken, sns : BOOLEAN,
        link : Passwords, expires : 0 .. MaxTime + Lifetime]

\* now: the time read; link: the link made; dirty: the columns to write.
Nothing == [password |-> 0, refresh |-> NoToken, now |-> 0, link |-> 0, dirty |-> {}]

SigningIn == {"storing", "byEmail", "comparing", "writing"}
Used == {n \in DOMAIN links : links[n].state = "used"}

Init ==
    /\ user = [password |-> 0, refresh |-> NoToken, sns |-> FALSE,
               link |-> 0, expires |-> 0]
    /\ links = <<>>
    /\ clock = 1
    /\ pc = [h \in Handlers |-> "idle"]
    /\ seen = [h \in Handlers |-> Nothing]
    /\ late = FALSE

Goto(h, place) == pc' = [pc EXCEPT ![h] = place]

Finish(h) ==
    /\ Goto(h, "idle")
    /\ seen' = [seen EXCEPT ![h] = Nothing]

Tick ==
    /\ clock < MaxTime
    /\ clock' = clock + 1
    /\ UNCHANGED <<user, links, pc, seen, late>>
-----------------------------------------------------------------------------
(* login, loginWithKakao, loginWithLine, logout.                            *)

\* The row is read and the password in it is the one typed in; a sign-in
\* with another password changes nothing.  The hashing follows.
Login(h) ==
    /\ pc[h] = "idle"
    /\ seen' = [seen EXCEPT ![h].password = user.password]
    /\ Goto(h, "storing")
    /\ UNCHANGED <<user, links, clock, late>>

\* kakaoLogin finds the row by sns_id, or else goes on by e-mail.
FindBySns(h) ==
    /\ pc[h] = "idle"
    /\ IF user.sns
       THEN /\ seen' = [seen EXCEPT ![h].password = user.password]
            /\ Goto(h, "storing")
       ELSE Goto(h, "byEmail") /\ UNCHANGED seen
    /\ UNCHANGED <<user, links, clock, late>>

\* The whole row is read, except the columns of the link (select: false).
FindByEmail(h) ==
    /\ pc[h] = "byEmail"
    /\ seen' = [seen EXCEPT ![h].password = user.password, ![h].refresh = user.refresh]
    /\ Goto(h, "comparing")
    /\ UNCHANGED <<user, links, clock, late>>

\* save(existingUser) loads the row again: every column that differs is dirty.
CompareUser(h) ==
    LET differs == {c \in {"password", "refresh"} : user[c] # seen[h][c]}
                     \cup {c \in {"sns"} : ~user.sns}
    IN  /\ pc[h] = "comparing"
        /\ seen' = [seen EXCEPT ![h].dirty = differs]
        /\ Goto(h, "writing")
        /\ UNCHANGED <<user, links, clock, late>>

WriteUser(h) ==
    /\ pc[h] = "writing"
    /\ user' = [c \in DOMAIN user |->
                  IF c \notin seen[h].dirty THEN user[c]
                  ELSE IF c = "sns" THEN TRUE ELSE seen[h][c]]
    /\ seen' = [seen EXCEPT ![h].refresh = NoToken, ![h].dirty = {}]
    /\ Goto(h, "storing")
    /\ UNCHANGED <<links, clock, late>>

\* updateRefreshToken: one UPDATE, after the token has been hashed.
StoreToken(h) ==
    /\ pc[h] = "storing"
    /\ user' = [user EXCEPT !.refresh = seen[h].password]
    /\ Finish(h)
    /\ UNCHANGED <<links, clock, late>>

Logout ==
    /\ user' = [user EXCEPT !.refresh = NoToken]
    /\ UNCHANGED <<links, clock, pc, seen, late>>
-----------------------------------------------------------------------------
(* PasswordResetService.request                                             *)

\* The account is found and the time read.
Request(h) ==
    /\ pc[h] = "idle"
    /\ seen' = [seen EXCEPT ![h].now = clock]
    /\ Goto(h, "issuing")
    /\ UNCHANGED <<user, links, clock, late>>

\* Mutant: the time is added twice.
Expiry_Late(now) == now + Lifetime + Lifetime
Expiry(now) == now + Lifetime

CooledDown(now) == user.expires = 0 \/ user.expires <= now + Lifetime - Cooldown

\* Mutant: the cool-down is not part of the UPDATE.
StoreLink_Always(h) ==
    /\ pc[h] = "issuing"
    /\ Len(links) < MaxLinks
    /\ links' = Append(links, [made |-> seen[h].now, state |-> "stored"])
    /\ user' = [user EXCEPT !.link = Len(links'), !.expires = Expiry(seen[h].now)]
    /\ seen' = [seen EXCEPT ![h].link = Len(links'), ![h].now = 0]
    /\ Goto(h, "mailing")
    /\ UNCHANGED <<clock, late>>

\* UPDATE users SET hash and expiry WHERE the last link is old enough.
StoreLink(h) ==
    /\ pc[h] = "issuing"
    /\ IF CooledDown(seen[h].now)
       THEN /\ Len(links) < MaxLinks
            /\ links' = Append(links, [made |-> seen[h].now, state |-> "stored"])
            /\ user' = [user EXCEPT !.link = Len(links'),
                                    !.expires = Expiry(seen[h].now)]
            /\ seen' = [seen EXCEPT ![h].link = Len(links'), ![h].now = 0]
            /\ Goto(h, "mailing")
       ELSE Finish(h) /\ UNCHANGED <<user, links>>
    /\ UNCHANGED <<clock, late>>

Mark(n, state) == links' = [links EXCEPT ![n].state = IF @ = "used" THEN @ ELSE state]

\* The mail server takes the mail, or reports a failure; either way the mail
\* may have arrived, also before this step.
Mail(h) ==
    /\ pc[h] = "mailing"
    /\ \/ Mark(seen[h].link, "mailed") /\ Finish(h)
       \/ Mark(seen[h].link, "failed") /\ Goto(h, "withdrawing") /\ UNCHANGED seen
    /\ UNCHANGED <<user, clock, late>>

\* Mutant: whatever link the row has now is withdrawn.
Withdraw_Any(h) ==
    /\ pc[h] = "withdrawing"
    /\ user' = [user EXCEPT !.link = 0, !.expires = 0]
    /\ Finish(h)
    /\ UNCHANGED <<links, clock, late>>

\* UPDATE ... WHERE the hash is still the one of the mail that failed.
Withdraw(h) ==
    /\ pc[h] = "withdrawing"
    /\ user' = IF user.link = seen[h].link
               THEN [user EXCEPT !.link = 0, !.expires = 0] ELSE user
    /\ Finish(h)
    /\ UNCHANGED <<links, clock, late>>

\* Mutant: the refresh token outlives the password.
Reset_KeepsToken(n) ==
    /\ user.link = n /\ user.expires > clock
    /\ user' = [user EXCEPT !.password = n, !.link = 0, !.expires = 0]
    /\ Mark(n, "used")
    /\ late' = (late \/ \E h \in Handlers : pc[h] \in SigningIn)
    /\ UNCHANGED <<clock, pc, seen>>

\* reset: one conditional UPDATE.  A link that is not the one in the row, or
\* has expired, changes nothing.
Reset(n) ==
    /\ user.link = n /\ user.expires > clock
    /\ user' = [user EXCEPT !.password = n, !.refresh = NoToken,
                            !.link = 0, !.expires = 0]
    /\ Mark(n, "used")
    /\ late' = (late \/ \E h \in Handlers : pc[h] \in SigningIn)
    /\ UNCHANGED <<clock, pc, seen>>

\* A query fails or the process dies: what was written stays.
Die(h) ==
    /\ pc[h] # "idle"
    /\ Finish(h)
    /\ UNCHANGED <<user, links, clock, late>>

Step(h) ==
    \/ Login(h) \/ FindBySns(h) \/ FindByEmail(h) \/ CompareUser(h)
    \/ WriteUser(h) \/ StoreToken(h)
    \/ Request(h) \/ StoreLink(h) \/ Mail(h) \/ Withdraw(h) \/ Die(h)

Next ==
    \/ \E h \in Handlers : Step(h)
    \/ \E n \in DOMAIN links : Reset(n)
    \/ Logout
    \/ Tick

Spec == Init /\ [][Next]_vars
-----------------------------------------------------------------------------
Places == SigningIn \cup {"idle", "issuing", "mailing", "withdrawing"}

\* The values every variable ranges over.
TypeOK ==
    /\ user \in Row
    /\ links \in Seq([made : 1..MaxTime, state : {"stored", "mailed", "failed", "used"}])
    /\ Len(links) <= MaxLinks
    /\ clock \in 1..MaxTime
    /\ pc \in [Handlers -> Places]
    /\ seen \in [Handlers -> [password : Passwords, refresh : 0..NoToken,
                              now : 0..MaxTime, link : 0 .. Len(links),
                              dirty : SUBSET Columns]]
    /\ late \in BOOLEAN

\* The password is the one the last link set, and the refresh token in the
\* row was made for it (docs/password-reset.md:8), unless a reset took effect
\* while somebody was signing in: what that request read before is then written
\* over it (reset, login, kakaoLogin).
ResetHolds ==
    ~late =>
        /\ Used \subseteq 0..user.password
        /\ user.password = 0 \/ user.password \in Used
        /\ user.refresh \in {NoToken, user.password}

\* A link that was mailed can be used until it expires or another is stored,
\* whichever requests fail or overlap: a failed mail withdraws its own link
\* only (request).
MailedLinkWorks ==
    \A n \in DOMAIN links :
        links[n].state = "mailed" /\ n = Len(links) => user.link = n

\* "One reset email per account per minute, including requests from different
\* IPs" (password-reset.service.ts:50): two mails are the cool-down apart,
\* unless in between a link was used or a mail failed, which frees the account.
MailsApart ==
    \A n, m \in DOMAIN links :
        n < m /\ links[m].made < links[n].made + Cooldown =>
            \E k \in n .. m - 1 : links[k].state \in {"used", "failed"}
=============================================================================
