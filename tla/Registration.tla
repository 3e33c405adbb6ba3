---------------------------- MODULE Registration ----------------------------
(***************************************************************************)
(* How users rows come to be: e-mail verification and sign-up              *)
(* (AuthService, UsersService.signUp) and the first social login           *)
(* (UsersService.kakaoLogin, lineLogin).  Each query is a step of its own, *)
(* and any of them may fail.                                               *)
(*                                                                         *)
(* An e-mail address is an address people sign up with, or the one a social*)
(* account without an address gets, named after the social account itself. *)
(***************************************************************************)
EXTENDS Naturals, Sequences, FiniteSets, SequencesExt

CONSTANTS
    Emails,        \* addresses people have
    Socials,       \* Kakao and LINE accounts
    None,          \* no social account, no address
    Handlers,      \* requests that may run at the same time
    MaxAttempts,   \* wrong codes after which a code is refused: 5
    Cooldown,      \* time between two codes of one address: 1 minute
    CodeLife,      \* how long a code can be entered: 10 minutes
    TokenLife,     \* how long a sign-up token can be used: 15 minutes
    MaxRequests,   \* bound: requests received
    MaxTime        \* bound: the clock

\* What the constants must satisfy.
RegistrationBounds ==
    /\ {MaxAttempts, Cooldown, CodeLife, TokenLife, MaxRequests, MaxTime} \subseteq Nat
    /\ Emails \cap Socials = {}
    /\ MaxTime > 0
    /\ None \notin Emails \cup Socials

VARIABLES
    required,      \* isEmailVerificationRequired: production, or configured
    users,         \* the users rows: address -> [local, sns]
    codes,         \* email_verifications: <<[email, attempts, verified, made], ...>>
    arrived,       \* the codes that reached their mailbox
    token,         \* when the newest sign-up token of an address was made; 0: never
    clock,
    received,      \* how many requests have come
    pc,            \* where each request is
    op,            \* its address or social account
    seen,          \* what each request has read and not yet used
    wrong,         \* history: wrong codes entered against each code, and stored as such
    mixed          \* history: what two requests at a time were about

vars == <<required, users, codes, arrived, token, clock, received, pc, op, seen, wrong, mixed>>

Addresses == Emails \cup Socials
Nothing == [code |-> 0, attempts |-> 0, right |-> FALSE, dirty |-> {}, email |-> None]

Init ==
    /\ required \in BOOLEAN
    /\ users = <<>>
    /\ codes = <<>>
    /\ arrived = {}
    /\ token = [e \in Emails |-> 0]
    /\ clock = 1
    /\ received = 0
    /\ pc = [h \in Handlers |-> "idle"]
    /\ op = [h \in Handlers |-> None]
    /\ seen = [h \in Handlers |-> Nothing]
    /\ wrong = <<>>
    /\ mixed = {}

Running == {h \in Handlers : pc[h] # "idle"}
AddRow(address, row) ==
    users' = [a \in DOMAIN users \cup {address} |->
                IF a = address THEN row ELSE users[a]]

\* findOne({ where: { email }, order: { createdAt: 'DESC' } }); 0: none.
Latest(e) == SelectLastInSeq(codes, LAMBDA c : c.email = e)
NewToken(e) == token' = [token EXCEPT ![e] = clock]
Usable(e) == token[e] # 0 /\ clock <= token[e] + TokenLife

Goto(h, place) ==
    /\ pc' = [pc EXCEPT ![h] = place]
    /\ UNCHANGED <<received, op, mixed>>

Start(h, subject, place) ==
    /\ pc[h] = "idle"
    /\ received < MaxRequests
    /\ received' = received + 1
    /\ pc' = [pc EXCEPT ![h] = place]
    /\ op' = [op EXCEPT ![h] = subject]
    /\ mixed' = IF \E g \in Running : op[g] = subject THEN mixed \cup {subject} ELSE mixed

Finish(h) ==
    /\ pc' = [pc EXCEPT ![h] = "idle"]
    /\ op' = [op EXCEPT ![h] = None]
    /\ seen' = [seen EXCEPT ![h] = Nothing]
    /\ UNCHANGED <<received, mixed>>

Tick ==
    /\ clock < MaxTime
    /\ clock' = clock + 1
    /\ UNCHANGED <<required, users, codes, arrived, token, received, pc, op, seen, wrong, mixed>>
-----------------------------------------------------------------------------
(* sendEmailVerificationCode: nothing for an address that has an account.   *)

Send(h, e) ==
    /\ required
    /\ e \notin DOMAIN users
    /\ Start(h, e, "cooling")
    /\ UNCHANGED <<required, users, codes, arrived, token, clock, seen, wrong>>

\* Without verification a token is handed out at once (also by verify).
SendToken(e) ==
    /\ ~required
    /\ e \notin DOMAIN users
    /\ NewToken(e)
    /\ UNCHANGED <<required, users, codes, arrived, clock, received, pc, op, seen, wrong, mixed>>

CheckCooldown(h) ==
    LET last == Latest(op[h])
    IN  /\ pc[h] = "cooling"
        /\ IF last # 0 /\ clock - codes[last].made < Cooldown
           THEN Finish(h)
           ELSE Goto(h, "saving") /\ UNCHANGED seen
        /\ UNCHANGED <<required, users, codes, arrived, token, clock, wrong>>

SaveCode(h) ==
    /\ pc[h] = "saving"
    /\ codes' = Append(codes, [email |-> op[h], attempts |-> 0,
                               verified |-> FALSE, made |-> clock])
    /\ wrong' = Append(wrong, 0)
    /\ seen' = [seen EXCEPT ![h].code = Len(codes')]
    /\ Goto(h, "mailing")
    /\ UNCHANGED <<required, users, arrived, token, clock>>

\* The mail may fail: the code stays stored all the same.
Mail(h) ==
    /\ pc[h] = "mailing"
    /\ arrived' \in {arrived, arrived \cup {seen[h].code}}
    /\ Finish(h)
    /\ UNCHANGED <<required, users, codes, token, clock, wrong>>
-----------------------------------------------------------------------------
(* verifyEmailVerificationCode                                              *)

\* Mutant: the attempts are not compared with their maximum.
Open_Unlimited(c) == ~c.verified /\ clock <= c.made + CodeLife

Open(c) == ~c.verified /\ clock <= c.made + CodeLife /\ c.attempts < MaxAttempts

\* The right code is known to whoever got the mail.
Verify(h, e, right) ==
    LET last == Latest(e)
    IN  /\ required
        /\ last # 0 /\ Open(codes[last])
        /\ right => last \in arrived
        /\ seen' = [seen EXCEPT ![h].code = last, ![h].right = right,
                      ![h].attempts = codes[last].attempts + (IF right THEN 0 ELSE 1)]
        /\ Start(h, e, "comparing")
        /\ UNCHANGED <<required, users, codes, arrived, token, clock, wrong>>

\* save(verification) loads the row again: columns that differ are dirty.
CompareCode(h) ==
    LET code == codes[seen[h].code]
    IN  /\ pc[h] = "comparing"
        /\ seen' = [seen EXCEPT ![h].dirty =
              {c \in {"attempts"} : code.attempts # seen[h].attempts}
                \cup {c \in {"verified"} : code.verified # seen[h].right}]
        /\ Goto(h, "writing")
        /\ UNCHANGED <<required, users, codes, arrived, token, clock, wrong>>

\* The UPDATE, and for the right code the token: it is lost with its answer.
WriteCode(h) ==
    /\ pc[h] = "writing"
    /\ codes' = [codes EXCEPT
         ![seen[h].code].attempts = IF "attempts" \in seen[h].dirty THEN seen[h].attempts ELSE @,
         ![seen[h].code].verified = IF "verified" \in seen[h].dirty THEN seen[h].right ELSE @]
    /\ wrong' = IF seen[h].right THEN wrong ELSE [wrong EXCEPT ![seen[h].code] = @ + 1]
    /\ UNCHANGED token \/ (seen[h].right /\ NewToken(op[h]))
    /\ Finish(h)
    /\ UNCHANGED <<required, users, arrived, clock>>
-----------------------------------------------------------------------------
(* signup: the token is checked, then the row is inserted; the unique index *)
(* on email refuses a second row of the address.                            *)

\* Mutant: a token of any address will do.
Signup_AnyToken(h, e) ==
    /\ required => \E any \in Emails : Usable(any)
    /\ Start(h, e, "creating")
    /\ UNCHANGED <<required, users, codes, arrived, token, clock, seen, wrong>>

Signup(h, e) ==
    /\ required => Usable(e)
    /\ Start(h, e, "creating")
    /\ UNCHANGED <<required, users, codes, arrived, token, clock, seen, wrong>>

CreateLocal(h) ==
    /\ pc[h] = "creating"
    /\ IF op[h] \in DOMAIN users THEN UNCHANGED users
       ELSE AddRow(op[h], [local |-> TRUE, sns |-> None])
    /\ Finish(h)
    /\ UNCHANGED <<required, codes, arrived, token, clock, wrong>>
-----------------------------------------------------------------------------
(* kakaoLogin and lineLogin of social account s, whose profile gives the    *)
(* address e, or None: LINE never gives one.                                *)

\* Mutant: the row of the social account is not looked for.
FindBySns_Skipped(h, s, e) ==
    /\ Start(h, s, IF e = None THEN "inserting" ELSE "byEmail")
    /\ seen' = [seen EXCEPT ![h].email = IF e = None THEN s ELSE e]
    /\ UNCHANGED <<required, users, codes, arrived, token, clock, wrong>>

FindBySns(h, s, e) ==
    /\ \A a \in DOMAIN users : users[a].sns # s
    /\ Start(h, s, IF e = None THEN "inserting" ELSE "byEmail")
    /\ seen' = [seen EXCEPT ![h].email = IF e = None THEN s ELSE e]
    /\ UNCHANGED <<required, users, codes, arrived, token, clock, wrong>>

FindByEmail(h) ==
    /\ pc[h] = "byEmail"
    /\ Goto(h, IF seen[h].email \in DOMAIN users THEN "linking" ELSE "inserting")
    /\ UNCHANGED <<required, users, codes, arrived, token, clock, seen, wrong>>

\* save(existingUser); no row of users is ever deleted.
Link(h) ==
    /\ pc[h] = "linking"
    /\ users' = [users EXCEPT ![seen[h].email].sns = op[h]]
    /\ Finish(h)
    /\ UNCHANGED <<required, codes, arrived, token, clock, wrong>>

InsertSocial(h) ==
    /\ pc[h] = "inserting"
    /\ IF seen[h].email \in DOMAIN users THEN UNCHANGED users
       ELSE AddRow(seen[h].email, [local |-> FALSE, sns |-> op[h]])
    /\ Finish(h)
    /\ UNCHANGED <<required, codes, arrived, token, clock, wrong>>

\* A query fails, or the server ends: what the request has read is gone, and so
\* is a wrong code that was to be counted.
Fail(h) ==
    /\ pc[h] # "idle"
    /\ Finish(h)
    /\ UNCHANGED <<required, users, codes, arrived, token, clock, wrong>>

Step(h) ==
    \/ \E e \in Emails : Send(h, e) \/ Signup(h, e)
    \/ \E e \in Emails, right \in BOOLEAN : Verify(h, e, right)
    \/ \E s \in Socials, e \in Emails \cup {None} : FindBySns(h, s, e)
    \/ CheckCooldown(h) \/ SaveCode(h) \/ Mail(h)
    \/ CompareCode(h) \/ WriteCode(h)
    \/ CreateLocal(h) \/ FindByEmail(h) \/ Link(h) \/ InsertSocial(h)
    \/ Fail(h)

Next == (\E h \in Handlers : Step(h)) \/ (\E e \in Emails : SendToken(e)) \/ Tick

Spec == Init /\ [][Next]_vars
-----------------------------------------------------------------------------
Places == {"idle", "cooling", "saving", "mailing", "comparing", "writing",
           "creating", "byEmail", "linking", "inserting"}

\* The values every variable ranges over.
TypeOK ==
    /\ required \in BOOLEAN
    /\ DOMAIN users \subseteq Addresses
    /\ \A a \in DOMAIN users : users[a] \in [local : BOOLEAN, sns : Socials \cup {None}]
    /\ codes \in Seq([email : Emails, attempts : Nat,
                      verified : BOOLEAN, made : 1..MaxTime])
    /\ received \in 0..MaxRequests
    /\ arrived \subseteq DOMAIN codes
    /\ token \in [Emails -> 0..MaxTime]
    /\ clock \in 1..MaxTime
    /\ pc \in [Handlers -> Places]
    /\ op \in [Handlers -> Addresses \cup {None}]
    /\ seen \in [Handlers -> [code : 0 .. Len(codes), attempts : Nat,
                              right : BOOLEAN, dirty : SUBSET {"attempts", "verified"},
                              email : Addresses \cup {None}]]
    /\ wrong \in Seq(Nat) /\ Len(wrong) = Len(codes)
    /\ mixed \subseteq Addresses

\* With verification an address gets a local account only through a code that
\* reached its own mailbox (signup, verifyEmailVerificationCode).
AccountsVerified ==
    required => \A a \in DOMAIN users :
        users[a].local => \E n \in arrived : codes[n].email = a

CodesApart(n, m) == codes[m].made >= codes[n].made + Cooldown

\* Codes of one address are the cool-down apart, the wrong codes that were stored
\* are all counted, and none is stored once the limit is reached, unless two
\* requests about the address overlapped: the last code is looked up and then
\* stored or changed (sendEmailVerificationCode, verifyEmailVerificationCode).
\* A wrong code whose UPDATE fails is not counted, and allows another try.
GuessesLimited ==
    \A n \in DOMAIN codes : codes[n].email \notin mixed =>
        /\ wrong[n] <= MaxAttempts
        /\ codes[n].attempts = wrong[n]
        /\ \A m \in n + 1 .. Len(codes) : codes[m].email = codes[n].email => CodesApart(n, m)

\* A social account leads to one users row, unless two logins of it overlapped:
\* sns_id has no unique index (kakaoLogin, lineLogin).
OneRowPerSocial ==
    \A s \in Socials \ mixed :
        Cardinality({a \in DOMAIN users : users[a].sns = s}) <= 1
=============================================================================
