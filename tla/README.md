# Gachimura backend: specifications, model checking and proofs

The program is a NestJS server (TypeORM on MySQL/InnoDB) for group shopping. A host opens a
*party*, users apply and are approved, members chat, the host enters the receipt as a *settlement*,
members select what they took, the host confirms and ticks off payments, and everybody reviews
everybody. The server is one process, but every `await` lets another request run, and the
database sees the statements of many requests interleaved. That is what a unit test with a
mocked repository does not reach, and what these modules are about.

File names below are relative to `src/src/` of the repository. `PROJECT.json` lists the runs, the
mutants, the source lines of every definition, the hazards and the theorems.

## 1. Inventory

| Component | State | Operations | What makes it hard | What makes it correct |
|---|---|---|---|---|
| **Settlements** `settlements/settlements.service.ts` | rows of `settlements`, `settlement_items`, `settlement_item_members`, `settlement_payments` | create, updateItems, startSelecting, revertToDraft, selectItems, confirm, updatePayment; reads | transactions behind one row lock, rollback at every statement, a commit whose answer is lost, messages posted after the commit, division with a remainder; create has no transaction | money is neither lost nor invented; the bill is that of the stored selections; final means frozen; what is announced is true, and once |
| **Party members** `party-members/party-members.service.ts` | rows of `party_members`, `parties.currentCount` | create, updateStatus, remove; list | no transaction, no unique index, count read and stored by two queries, `save` of an entity read earlier, messages between the writes | one row per user, count equal to the approved members, one JOIN per approval, a removed member stays away |
| **Parties** `parties/parties.service.ts` | rows of `parties`, thumbnails in `uploads/` | createWithFile, joinParty, updateStatus; search, detail, mine | two saves for party and host row; `save(party)` writes back a stale count; nobody compares `currentCount` with a capacity | as above; a party that was answered as created has its host as a member and its thumbnail |
| **Chat gateway** `chat/chat.gateway.ts` | sockets and rooms in memory, rows of `chat_messages` | connect, joinRoom, message; `sendSystemMessage` called by settlements and members | membership is checked before the `await` that joins the room and not again | a removed member writes no more; what the notices in the chat say about a member is so |
| **Chat messages** `chat-message/` | rows of `chat_messages` | create; history | | only members write and read |
| **Push** `push/push.service.ts` | rows of `push_subscriptions` | subscribe, unsubscribe, notifyParty | a limit counted by a snapshot read, take-over of an endpoint by another account, clean-up on 404/410 long after the row was read | at most ten devices each; a late answer deletes nobody else's device |
| **Reviews** `reviews/reviews.service.ts` | rows of `evaluations`, `users.treeScore`, `users.reviewsCount` | create; status, list | score written back as an absolute value; foreign keys take shared locks first | score and count are those of the reviews |
| **Password reset** `auth/password-reset.service.ts` | reset columns of `users` | request, reset | cool-down by conditional UPDATE; a failed mail withdraws its link, late; sign-ins run meanwhile | a reset is final, the newest mailed link works, mails are a minute apart |
| **Email verification** `auth/auth.service.ts` | rows of `email_verifications` | send, verify, signup | cool-down and attempt counter are check-then-act; the mail may fail after the code is stored | a limited number of guesses per code, an account only for who reads its mail |
| **Sessions** `auth/auth.service.ts`, `auth/jwt.strategy.ts` | `users.refreshToken` | login, logout, social logins; refresh | one stored token against many devices and the password reset | a refresh token does not outlive the password |
| **Users** `users/users.service.ts` | rows of `users` | signUp, kakaoLogin, lineLogin, updateLocation, ... | check-then-insert, no unique index on `sns_id`, `save(existingUser)` | one account per identity |
| **Community** `community/community.service.ts` | posts, comments, likes | create, like, unlike, comment, feed | paging while posts arrive; cursors of another resolution than the column | a reader is shown every post, and once |
| **Receipt parser** `settlements/receipt-parser.ts` | none (pure) | parse, repair merged numbers | merged quantity and price, deposits and discounts in the total | items are read as they were bought |
| **OCR client** `settlements/ocr.service.ts` | the client object | parseReceipt, extractVisualLines | words of a tilted photograph; a service that fails | the lines are those of the paper |
| **Image uploads** `common/image-upload.ts` and the two controllers | files in `uploads/` | upload, validation, removal | every step can fail with the file already stored | no file is left behind |
| **Controllers, config, schema, seeds** | none that steps change | | wiring | |

How they interact. Settlements and party members call the chat gateway's `sendSystemMessage`
after their writes; the gateway saves a message and emits it to the room (push is asked to notify
only for messages of users). Settlements
read `party_members` to authorise, party members never look at settlements. Reviews read
`party_members` and write the `users` row that a social login may be saving at the time
(`Reviews`). Password reset and the sign-ins write the same columns of that row (`Credentials`).
A receipt goes through uploads, the OCR client and the parser, and comes back as the items a
settlement is edited with. Everything else goes through the database.

## 2. Modules

### `SettlementAllocation` (constant operators)
`Share`, `Rank`, `ItemShare`, `Owed`, `GrandTotal`, `BillOf`: the division in `confirm`. An item
is its line total (price times quantity) and the set of users that selected it. The sums are
`SumFunction` of the community modules, a fold over a finite set; `AllocationProofs` proves the
equation that unfolds it, and everything else about sums follows from that. `Rounded` is what an
integer column makes of a fraction.

### `Settlement` (the core)
One settlement and the requests that work on it. The correspondence:

| Specification | Code |
|---|---|
| `db` | the committed rows of the settlement: status, total, items with their selections, payments |
| `work[h]` | the rows as the open transaction of request `h` sees them |
| `lock`, `LockSettlement` | `pessimistic_write`, `SELECT ... FOR UPDATE` on the settlement row. InnoDB returns the latest committed row, and the transaction's snapshot does not exist before it |
| `Authorize`, `Reject` | `ensureSettlementHost`, `ensurePartyAccess`, and the 400/403/404 answers with rollback |
| `UpdateItems`, `StartSelecting`, `RevertToDraft`, `SelectItems`, `ClaimConfirm` + `InsertPayments`, `SavePayment` + `CompleteIfPaid`, `RepeatPayment` | the endpoints, split where a statement could fail between two writes |
| `Commit`, then `Post` | `commitTransaction`, then the messages one `await` each |
| `Fail`, `CommitUnacknowledged`, `LosePost`, `LockTimeout`, `Crash` | a statement or commit that fails, a commit whose answer is lost, a post that `sendSystemMessage` swallows, `innodb_lock_wait_timeout`, death of the process |
| `ChangeMembership` | party members change at any time, independently of the settlement |
| `chat`, `outbox[h]` | payment messages stored, and those still to be posted |

The request type admits fractions for price and quantity, and `updateItems` adds up the unrounded
products while each integer column rounds for itself. Requests therefore have `Lines` in parts of a
won (`Unit` parts each): `StoredItem` is the row with both columns rounded, `AskedTotal` the total
rounded once, and `whole` remembers that a line had no fraction.

Only CONFIRMED, PAID and COMPLETED messages are kept in `chat`: START, RESUMED and EDITING repeat
legitimately, so they take a posting step (`Notice`) and are not stored.

### `SettlementAtomic` (abstract)
What the endpoints promise: one variable, the rows, and one relation per request. No locks,
transactions, messages or failures. `OneAtATime` in `Settlement` is this specification with
`row <- db`: every commit is one whole request, every other step changes no row.

### `SettlementProgress`
`Settlement` with fairness and one history variable, `lost`: something failed after a commit, so that
a message may be missing for good. It states what must eventually happen.

### `SettlementCreation`
`create` apart from the rest, since it is the only settlement operation outside a transaction: a
look-up, then an INSERT, with the life of the rows it creates as `Advance`.

### `AllocationLoop`
The loop of `confirm` as the code runs it, item by item in any order, against the order-free
`Owed` of `SettlementAllocation`, and `Share` against an independent definition (`InTurn`: won
dealt one at a time).

### `PartyMembership`
One party: its member rows, its `status` and `currentCount`, and requests whose queries are steps
of their own. `save(entity)` is three steps, as TypeORM runs it: load the row again, compare, then
UPDATE the columns that differ, or INSERT the entity when the row is gone. It covers
`PartyMembersService.create/updateStatus/remove`, `syncPartyCurrentCount`, and
`PartiesService.joinParty/updateStatus`. `due`, `extra`, `past`, `mixed` and `disturbed` are history
variables that no guard reads: who was approved and not announced since, who was announced
without an approval to announce, the numbers of participants so far, the users about whom two
requests overlapped, and whether anything overlapped or failed at all. `notice` is what the last
message in the chat says of each user: `PostJoin` and `PostLeave` set it, and it becomes "open" when
a request about the user fails, overlaps another, or rejects an approved member, which posts
nothing. The host's own row is assumed to be there and is the 1 in `TrueCount`.

### `Credentials`
The users row of one account and the requests that write its password, refresh token, reset link and
social id: `login`, the Kakao login that links an account (read by e-mail, load again, compare, write
the columns that differ), `logout`, and `PasswordResetService.request` and `reset`. Time is a clock
the requests read; a mail may fail, and a failed mail may have arrived. `late` remembers that a reset
took effect in the middle of a sign-in.

### `Registration`
How rows of `users` come to be: codes with cool-down, attempts and expiry, sign-up tokens, `signUp`
against the unique index on `email`, and the first social login, by `sns_id`, by e-mail, or by an
INSERT. `required` is `isEmailVerificationRequired`. Every query may fail (`Fail`), among them the
UPDATE that counts a wrong code, and an answer with a token may be lost. The wrong codes whose UPDATE
took effect (`wrong`) and what two requests at a time were about (`mixed`) are history.

### `ChatRoom`
The sockets of one party and the messages over HTTP, while members are approved and removed at any
time (`Approve`, `Remove`; `PartyMembership` has these requests query by query, and the notices
they post). The look-up of the membership and what it guards are separate steps, and nothing takes
the sockets of a removed member out of the room. `caught` remembers the messages that were let in
before their sender was removed.

### `PushSubscriptions`
`subscribe` as a transaction: the lock on the account's row, then a snapshot, then the write;
`unsubscribe`; `notifyParty`, whose answers come in any order, long after the rows were read.

### `Reviews`
`create` statement by statement with the row locks InnoDB takes: the INSERT's foreign keys lock both
users rows in shared mode, the UPDATE needs the reviewed one alone. Two reviews of one user that overlap
therefore both INSERT, then wait for each other, and the server rolls one back: that, not the code, is
what keeps the absolute values right (`InsertReview_NoForeignKey` loses a review). The linking of a
social account, which saves the whole row without these locks, and `checkReviewStatus` are here too.

### `CommunityFeed`
One reader who pages through the posts in one of the three sorts, while posts are written, liked and
commented on. `Millisecond` is the number of units of the column's clock in one of the cursor's. A
page is a set: the posts that are less than `Limit` places behind the cursor (`Place` is the number
of posts before one), since all the reader keeps of it is what was shown (`shown`) and what was shown
twice (`again`).

### `ReceiptParser`, `VisualLines`
Pure algorithms as one step per line and per word. `Init` prints a receipt, or photographs its lines,
in every way the bounds allow; at the end the result is compared with what was printed. The regular
expressions that classify a line are abstracted to the kind of the line. `at` and `line` say which
line of which item is read next (`Printed` gives the lines of an item in its layout). The total
that was found is an input: none, or off the sum of the items by one of `Differences`, to either side,
because deposits are added to it, discounts and points taken off, and digits misread. A photograph is
the set of its words; `left` are those not in a line yet, and a line is the set of its words. Both sorts
of the code become places: how many lines are above, how many words are to the left.

### `ImageUploads`
A file from multer to its removal, through `ImageFileValidationPipe`, `uploadReceipt` with the
outcomes of `OcrService.parseReceipt`, or `createWithFile` with its two saves.

### `Services`
Nine modules that share no state with each other, side by side: `part` says whose behaviour it is, and
the variables of the others stand still at `Unused`. No step is of two modules, so each is checked
as it would be in a run of its own, and what is proved of a part is proved of that module alone.

### `MC_*`
They only give constants their values for TLC. Definitions that start with "Mutant:" in
their comment are mistakes the properties are known to catch; nothing else uses them.

## 3. Runs and bounds

| Run | Question | Bounds |
|---|---|---|
| `settlement_safety` | two requests of a host and two guests, every failure at every step: is what is stored and announced consistent and final? | one item, of 1 won or of 2 pieces at 1.5 won (rows of 1 and 4, totals of 1 and 3) |
| `settlement_edit` | items replaced while members select: does the row lock isolate the requests, and is each commit one request of `SettlementAtomic`? | two item ids, so a second generation of items and stale ids exist; one guest |
| `settlement_progress` | is the lock given back and each request answered whatever fails, and is a completion announced unless something fails after a commit? | one item, one guest |
| `settlement_creation_race` | (violation) do creates that overlap leave one unfinished settlement? | two requests, four settlements |
| `allocation_loop` | does the loop charge every won, fairly, in any order? | two items, three users, totals 0..5 |
| `membership` | with no transactions, what still holds? | two users, two requests, two rows |
| `membership_count_drift` | (violation) is `currentCount` right at rest? | two users, three rows, no failures |
| `membership_join_twice` | (violation) is an approval announced once? | two users, three rows |
| `credentials` | which sign-ins survive a reset, which link works, how far are mails apart? | two requests, three links, clock 1..3, lifetime 2, cool-down 1 |
| `services` | the nine modules below | see below |
| `feed_omission` | (violation) is a reader sorted by time shown every post? | three posts, pages of one, two units a millisecond |
| `review_status` | (violation) does `hasReviewed` say that all others were reviewed? | three members, two reviews |

The parts of `services`:

| Part | Properties | Bounds |
|---|---|---|
| `SettlementCreation` | `OneUnfinishedUnlessRaced`: creates that are repeated, fail or are retried leave one unfinished settlement | two requests, four settlements |
| `Registration` | `AccountsVerified`, `GuessesLimited`, `OneRowPerSocial` | two requests at a time, four in all, two addresses, one social account, two attempts, clock 1..3 |
| `ChatRoom` | `OnlyMembersWrite`: a removed member writes no more | two users, two requests |
| `PushSubscriptions` | `WithinDeviceLimit`, `TakenOverDeviceKept` | two accounts, two endpoints, two keys, a limit of one device, two rows |
| `Reviews` | `ReviewsCounted` | three members, one of them the host, two reviews |
| `CommunityFeed` | `FeedComplete` | three posts, pages of one, three times in two milliseconds |
| `ReceiptParser` | `ReceiptRead` | two items, quantities 1, 2, 12, prices of three and four digits, a total that is missing, right, 20 above or 1000 below the sum |
| `VisualLines` | `RowsRecovered` | two lines of three words, each word 20 or 24 high and 5 above or below its line |
| `ImageUploads` | `NothingLeftBehind` | two requests, three files |

Why the bounds are enough. Two requests are the fewest that interleave, and the row lock lets only
one of any number be past it: a third adds a waiting request. Two guests are the fewest for
"the last but one payment", and the host takes part in the division. A row of 4
leaves a remainder for three members and none for one or two, a row of 1 leaves members who owe
nothing, and an item that only the host selects is the bill without debtors. With
`MaxItemId = 2` the first item can be replaced by the second, so that `SelectItems` with a stale id
happens. In `AllocationLoop`, totals 0..5 give every remainder for one, two and three members.
`MaxRows = 2` in the membership run lets a user be removed and apply again, or hold two rows, and
both users hold one; members' statuses change without limit. `Asked` bounds what is asked for the
party: in this run recruiting closes and is not opened again, in the violations, which use three
rows, it may be.

`MaxAmount` stands for the largest value of an `int` column: an amount that does not fit makes
the statement fail, which is the `Fail` step. In these runs every total fits.

In `credentials` a lifetime of two cool-downs is the least in which a link can be replaced, and can
expire; three links let a first one fail late, a second replace it and a third be refused. In
`services`, a limit of one device is met by two requests as ten are by two; two rows let an endpoint
be taken over and deleted. The prices 1100 and 2900 with the quantities 1, 2 and 12 make merged
numbers of four to six digits whose two splits both fit the total; with a total 1000 below the sum,
a price that was never merged is split. A photograph is `Legible` if two words of a line are never
farther apart than 0.55 of the height of a word, and two of different lines always farther than that
and than the 6 of the code; words 20 high, off by 5, on lines 24 apart are at the edge of both.

`AllocationLoop` ends, as do a receipt, a photograph, and a run whose bounds on messages, posts or
links are used up: `allocation_loop`, `credentials`, `services`, `feed_omission` and
`review_status` do not check for deadlock; the settlement and membership runs do. `HandlerSymmetry` and
`HandlerUserSymmetry` are used only for safety; user ids of `Settlement` are numbers, because the
remainder goes to the smallest ids, and are not permuted.

Fairness. `FairSpec` asks for weak fairness of each request's own steps: the event loop runs a
request whose `await` is done, and MySQL either answers or, when the lock is not granted, ends the
wait after `innodb_lock_wait_timeout`. No fairness is assumed of arrivals, failures or
membership changes. `LockTimeout` is what makes `RequestsAnswered` hold under weak fairness: a
request never needs to win the lock. `lost` is set only by what
loses a message for good (a crash, a lost answer to a commit, a failed post); every transaction may
still fail before its commit without setting it.

## 4. What was found

- `settlement_creation_race`: `create` checks for a settlement under way (comment at
  `settlements.service.ts:145`), but the check and the INSERT are separate and no unique index
  backs them. Two overlapping requests make two; members are shown the newest only.
- `membership_count_drift`: `currentCount` (`party.entity.ts:55`) can stay wrong after requests
  that overlap, without any failure. It never becomes a number the party has not had, though
  (`CountIsAPastCount`), and the next recount that runs alone repairs it.
- `membership_join_twice`: approving a member that is already approved should post nothing
  (`party-members.service.spec.ts:71`). Two overlapping approvals both find the
  status PENDING and both post. `JoinAnnouncedOnce` looks only at users who are still approved, so
  an approval overtaken by a removal, which also posts a JOIN too many, is not its counterexample.
- `feed_omission`: the comments at `community/community.service.ts:163` and `172` leave omissions to
  the sorts that page by offset. The cursor of the sort by time has milliseconds, the column
  microseconds: a post of the same millisecond as the last of a page may be on no page (in the trace,
  one that has the very time of the cursor and a larger id). `FeedComplete`
  says that this is all: every post that shares its millisecond with no other is shown, and no post twice.
- `review_status`: "true if all other members have been reviewed" (`reviews/reviews.service.ts:141`
  and `184`) is decided by comparing two counts. When a member is removed after the party ended, the
  counts are no longer about the same people.

What the properties say is what remains true, and each exception in them is one the code really has.
`ResetHolds` excepts a reset during a sign-in, which may store a refresh token of the old password, or,
when it links an account, write the old password back. `MailsApart` excepts a link that was used and a
mail that failed: both clear the expiry that the cool-down is read from. `GuessesLimited` and
`OneRowPerSocial` except overlapping requests about the same address or account; a wrong code whose
UPDATE fails is not counted, so `GuessesLimited` speaks of the wrong codes that were stored.
`ReviewsCounted` excepts an account that is being linked, `NothingLeftBehind` the thumbnail of a
party whose fields are refused. `ChatTellsMembership` excepts users about whom requests overlapped
(an approval overtaken by a removal posts its JOIN last), failed, or rejected an approved member,
which no notice tells. `AmountsPreserved` excepts fractional lines from "the stored total is that of
the lines"; the division is exact of the stored lines whatever the total says.

`ReceiptRead` promises the items as bought only if the total is not below their sum. With a discount
(the parser knows the words, `receipt-parser.ts:7`) the total found may be what was paid, and a
number that was never merged is then split: 6,900 with a total of 5,900 is read as six pieces of 900.
What remains under a header, whatever the total, is that no item is lost or renamed, and that
a price below 1,000, or an item on one line, is exact.

The settlement transactions hold what they promise. The price of posting after the commit is that a
message can be lost (`CommitUnacknowledged`, `LosePost`, `Crash`); that is why
`CompletionAnnounced` allows for `lost`.

## 5. What is proved

Every invariant and action property of the runs that pass is a theorem, for any number of requests,
users, rows, items and amounts; liveness alone is left to TLC. The assumptions are `UserIds`,
`FiniteGuests`, `FreshNoHandler` and `Bounds` (`Settlement`), `LoopUsers` and `LoopItems`
(`AllocationLoop`), `MembershipBounds`, `CredentialBounds`, and `ServicesBounds`, which collects the
bounds each part names for itself. They say that numbers are natural numbers, that ids which stand
for nothing are no one's, that a party has finitely many members, and what the code or the schema
fixes: a cool-down shorter than a lifetime, e-mail and social addresses that differ, pages of at
least one post, prices and quantities in the ranges the parser accepts.

**The division** (`AllocationProofs`). A sum is a fold that takes the elements of a finite set in an
order nobody knows. `PartialExists` builds, by induction over the subsets, the function the fold
computes; `SumUnfold` is its equation; `SumIs` says that whatever function of the subsets grows by
one element at a time is that sum. Sums of sums, exchange of two sums and the division with
remainder follow, then that ranks number the members from 0, so that exactly `total % n` of them pay
one won more. `SharesAddUp` is the result: for any items and any members, what everybody owes adds
up to the total.

**The loop of confirm** (`AllocationLoopProofs`). The invariant is that the loop has charged what
the items behind it give, whichever they are (`ChargedInv`), so the order in which the items come
cannot matter (`LoopIsOrderFree`), and everybody is done at once exactly when the host owes the
whole total (`CompletionIsTheHost`). `LoopIsFair` compares the two ways of dividing by induction
over the total: one won more goes to the member whose turn it is (`NextShare`).

**Settlement** (`SettlementProofs`). First types (`TypeCorrect`). Then the lock is owned by exactly
the request that is past it, and until its first write such a request's `work[h]` equals `db`
(`ReadsAreCurrent`). None of these is inductive alone: a commit by another request is harmless only
if that request owns the lock, and an owner's rows are right only if its place in the transaction
says which statements it has run. The invariant therefore describes `work[h]` at every place of
`pc[h]` in terms of `db` and of what the request does: `db` itself before the first write, the state
half-way through a confirmation or payment, and after the last statement the result of one whole
request. From it, `Serialized` shows `Spec => OneAtATime`: `Commit` and `CommitUnacknowledged` map
to one request of `SettlementAtomic`, or to a stutter when nothing was changed, and every other step
to a stutter.

With the concurrency dealt with, `CompletionIsPayment`, `PaymentsAreTheBill`, `DraftIsUnselected`,
`NoWonLost` and `ConfirmedIsFrozen` follow by induction over the atomic requests (`Sound`,
`Frozen`); `NoWonLost` also uses `SharesAddUp`, for the division, and `WholeTotal`, that lines
without fractions are rounded to themselves. The messages are posted after the commit, with other
requests in between. `NewsIsTrue` holds because what waits in an outbox was not so before the
request's own commit (`News`), is so after it, and stays so (`Tells` is of what `Frozen` keeps);
`NewsIsToldOnce`, because no later request can make news of what is so already.

**Party members** (`PartyMembershipProofs`). `MembershipTypeCorrect`; `CountNeverInvented` (each
recount in flight carries a value of `past`, and so does each party read earlier);
`NoDuplicateAlone` (each request in flight about a user who is not in `mixed` is the only one about
that user, so that its look-up is still true when it inserts); `RemovedStaysAway` (the same with the
owner of the row a request has read). `CountIsExact` follows one undisturbed request through its
places, from the first write to the recount that stores what it counted (`CalmInv`).
`NoticesAreTrue` needs that a request which is alone with its user has read the status the row
still has, and announces only an approval it has made (`JoinInv`); the last notice is then right
except while the one request about the user is between its write and its notice (`NoticeInv`).

**Credentials** (`CredentialsProofs`). `CredentialsTypeCorrect`; then, from what is known of the
link in the row (`LinkInv`: it is the newest link and unused, its expiry is the time it was made
plus the lifetime, and the newest link is in the row unless it was used or its mail failed),
`MailedLinkAlwaysWorks`, and `MailsStayApart`, by comparing a new link with the one before it and
that one with the rest; and `ResetIsFinal`, where `SignInInv` says that a sign-in that overlaps no
reset has read the password the row still has, and so does not find it dirty when it saves the row.
`MailInv`, part of the typing, says that no two requests mail the same link, without which a failed
mail could mark another's link.

**Registration** (`RegistrationProofs`). `NoUnverifiedAccount`: whoever has an account, a token, or
a request that will give one, has a code that arrived (`VerifiedInv`). `OneRowPerIdentity`: while a
login that found no row goes on, there is none (`SocialInv`). `GuessesAreLimited`: codes are the
cool-down apart, and so will be the next one of a request that has checked it (`ApartInv`); the
attempts stored with a code are the wrong codes that were stored, and a request about to store one
more knows how many there were (`Counted`, `Knows`). The last two hold only for
subjects that no two requests were about at a time, and `AloneInv` says that every overlap is
noticed.

**Subscriptions** (`PushSubscriptionsProofs`). `DevicesLimited`: a subscription about to store a row
updates one of the account's own or has counted room (`Room`); the room is still there when it
stores the row because only the holder of the account's lock adds to the account's devices (`Locks`,
`SaveStores`), and deletions only make more of it. That an endpoint has one row (`Unique`) is what
makes a row found by endpoint the account's own. `TakenOverDevicesKept`: an answer deletes its row
only if the row still has the account that the delivery read.

**The other parts** (`ServicesProofs`). A behaviour of `Services` is of one part (`OnePart`,
`FirstPart`), so an invariant is proved under the actions of its part. Registration and
subscriptions are carried over by INSTANCE (`SameRegistration`, `SamePush`); the rest is proved
here:

- `OneUnfinishedAlone`: unless an INSERT overlapped another, only the newest settlement is
  unfinished, and none is while a request is about to insert. A request that finds none under way
  knows that all are finished, because the three statuses `create` looks for are all but
  `COMPLETED`.
- `RemovedFallSilent`: a message about to be stored was let in by the look-up of its sender's
  membership, and every removal since has noted it (`ChatInv`).
- `ReviewsCountOnce`: who writes a row has it alone (`Exclusive`, from the shared locks of the
  foreign keys), so whoever has read it knows what the reviews stored make of it, and the writer has
  added its own (`Honest`). A sum that gains one term is `TallyGrows`.
- `PagesAreComplete`: sorted by time, nothing that was shown comes after the cursor, and what was
  not does, or shares its millisecond with another (`Latest`); a cursor that was cut to a
  millisecond is not later than its post (`TruncatedFacts`). The other sorts have shown the first
  posts, as many as the offset says (`Ranked`), because the places are in the order of the posts
  (`Places`) and begin with 0 (`FirstPlace`).
- `NothingStaysBehind`: a file is in the hands of one request, which knows what has become of it
  (`Held`), or has been left as it should be (`Left`).
- `ReceiptsAreRead`: which line of which item is read next determines what is pending and how many
  items there are (`Expected`, `Done`), and, while the total is not below the items, those read are
  those bought (`Right`). The last item, its numbers merged, is read last: what was bought is one of
  the ways to split the digits that leave the total unexceeded (`Merging`, `CandidatesAre`), and the
  one that is chosen comes at least as near to the total (`MergedIsRead`). A price below 1,000 has
  no split at all, so those items are exact under any total.
- `RowsAreRecovered`: in a legible photograph a word is near a line exactly if the line is of its
  row (`NearIsOwn`), whatever the average height of the line has become; so the words of a line are
  those of a row (`Together`), a line is above another exactly if its row is (`UpperRow`), and the
  places are counted by bijections.
- `TypeCorrect`: the types of all parts. Most are in the invariants above; `UploadsKept`,
  `ChatKept`, `ReviewsKept` and `FeedKept` say the rest. Not all of it is plain: that a user reviews
  another once needs that nobody has stored one since the request looked (`Fresh`), and that an
  offset is no larger than the number of posts needs that a page has a next one only if a post is
  that far down (`PlacesEnd`).

**Left to TLC.** Liveness under fairness is out of the provers' reach: `LockReleased`,
`RequestsAnswered` and `CompletionAnnounced` are checked by `settlement_progress`. The
counterexamples of section 4 are TLC's as well.

## 6. What is not modelled, and the plan

Within the modelled parts: read-only endpoints; the wording of messages; the order in which a client
shows them; `settlement.hostId` following the party's host (no code changes a party's host);
the format of
endpoints, keys, addresses and tokens, which is checked before any state is read; the emission of
a message to the sockets of a room, which leaves nothing behind; the capacity of a party, which no
request compares with `currentCount`.

Whole parts: `findStoreName`, `findTotalPrice` and the regular expressions of the receipt parser are
the layout of printed receipts, and a model of them would be a copy; `updateLocation` and `update` of
the users service are single UPDATEs of columns nothing else reads; controllers, configuration,
schema and seeds change nothing while the server runs, and the unique indexes of the schema, and the ones it
lacks, are part of the models.

A socket that is in a room keeps receiving after its user is removed (`chat.gateway.ts:129`); nothing
in the code says otherwise, so no property does.

What is left to prove: nothing the runs check, but liveness. Bounds on the amount of one member (each share is at
most the total and differs by at most one won from another's) are consequences of `LoopIsFair` and are not
stated on their own.
