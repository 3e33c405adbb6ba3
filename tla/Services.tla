------------------------------ MODULE Services ------------------------------
(***************************************************************************)
(* The modules that share no state with each other, side by side: `part`   *)
(* says which one a behaviour is of, and the variables of the others stay  *)
(* Unused.  One run checks them all, and ServicesProofs proves about them  *)
(* for every value of the constants.                                       *)
(***************************************************************************)
EXTENDS Integers

CONSTANTS
    Handlers,                           \* requests that run at the same time
    None,
    MaxSettlements,                                          \* SettlementCreation
    Emails, Socials, MaxAttempts, Cooldown, CodeLife, TokenLife, MaxRequests,
    MaxTime,                                                 \* Registration
    Members,                                                 \* ChatRoom
    Endpoints, Keys, DeviceLimit, MaxDevices,                \* PushSubscriptions
    Reviewed, Host, Scores, MaxReviews,                      \* Reviews
    Readers, Limit, Millisecond, FeedTime, MaxPosts, MaxComments,  \* CommunityFeed
    Quantities, Prices, Differences, MaxItems,               \* ReceiptParser
    PaperRows, Columns, Pitch, Heights, Tilt, Offsets,            \* VisualLines
    MaxFiles                                                 \* ImageUploads

VARIABLES
    part,
    rows, creationPc, raced,
    required, users, codes, arrived, token, clock, received, regPc, regOp, regSeen,
    wrong, mixed,
    approved, room, chatPc, who, caught,
    devices, listening, pushPc, pushReq, pushSeen,
    members, reviews, user, reviewPc, review, read, link, linked,
    posts, likes, comments, liking, sort, cursor, shown, again, start, calm,
    receipt, header, total, at, line, pending, items,
    words, left, grid,
    files, parties, hosts, client, configured, uploadPc, file, answers, lost

Creation == INSTANCE SettlementCreation WITH MaxRows <- MaxSettlements, pc <- creationPc
Reg == INSTANCE Registration WITH pc <- regPc, op <- regOp, seen <- regSeen
Chat == INSTANCE ChatRoom WITH Users <- Members, pc <- chatPc
Push == INSTANCE PushSubscriptions WITH
    Users <- Members, MaxRows <- MaxDevices, pc <- pushPc, req <- pushReq, seen <- pushSeen
Reviews == INSTANCE Reviews WITH Users <- Reviewed, pc <- reviewPc
Feed == INSTANCE CommunityFeed WITH Users <- Readers, MaxTime <- FeedTime
Receipt == INSTANCE ReceiptParser
Visual == INSTANCE VisualLines WITH Rows <- PaperRows
Uploads == INSTANCE ImageUploads WITH pc <- uploadPc

ASSUME ServicesBounds ==
    /\ Reg!RegistrationBounds /\ Push!PushBounds
    /\ Reviews!ReviewBounds /\ Feed!FeedBounds
    /\ Receipt!ReceiptBounds /\ Visual!VisualBounds /\ Uploads!UploadBounds
-----------------------------------------------------------------------------
CreationVars == <<rows, creationPc, raced>>
RegVars ==
    <<required, users, codes, arrived, token, clock, received, regPc, regOp,
      regSeen, wrong, mixed>>
ChatVars == <<approved, room, chatPc, who, caught>>
PushVars == <<devices, listening, pushPc, pushReq, pushSeen>>
ReviewsVars == <<members, reviews, user, reviewPc, review, read, link, linked>>
FeedVars == <<posts, likes, comments, liking, sort, cursor, shown, again, start, calm>>
ReceiptVars == <<receipt, header, total, at, line, pending, items>>
VisualVars == <<words, left, grid>>
UploadsVars ==
    <<files, parties, hosts, client, configured, uploadPc, file, answers, lost>>
vars == <<part, CreationVars, RegVars, ChatVars, PushVars, ReviewsVars, FeedVars,
          ReceiptVars, VisualVars, UploadsVars>>

Unused == 0
CreationIdle ==
    /\ rows = Unused /\ creationPc = Unused /\ raced = Unused
RegIdle ==
    /\ required = Unused /\ users = Unused /\ codes = Unused /\ arrived = Unused
    /\ token = Unused /\ clock = Unused /\ received = Unused /\ regPc = Unused
    /\ regOp = Unused /\ regSeen = Unused /\ wrong = Unused /\ mixed = Unused
ChatIdle ==
    /\ approved = Unused /\ room = Unused /\ chatPc = Unused
    /\ who = Unused /\ caught = Unused
PushIdle ==
    /\ devices = Unused /\ listening = Unused /\ pushPc = Unused /\ pushReq = Unused
    /\ pushSeen = Unused
ReviewsIdle ==
    /\ members = Unused /\ reviews = Unused /\ user = Unused /\ reviewPc = Unused
    /\ review = Unused /\ read = Unused /\ link = Unused /\ linked = Unused
FeedIdle ==
    /\ posts = Unused /\ likes = Unused /\ comments = Unused /\ liking = Unused
    /\ sort = Unused /\ cursor = Unused /\ shown = Unused /\ again = Unused
    /\ start = Unused /\ calm = Unused
ReceiptIdle ==
    /\ receipt = Unused /\ header = Unused /\ total = Unused /\ at = Unused
    /\ line = Unused /\ pending = Unused /\ items = Unused
VisualIdle ==
    /\ words = Unused /\ left = Unused /\ grid = Unused
UploadsIdle ==
    /\ files = Unused /\ parties = Unused /\ hosts = Unused /\ client = Unused
    /\ configured = Unused /\ uploadPc = Unused /\ file = Unused /\ answers = Unused
    /\ lost = Unused

Parts == {"creation", "registration", "chat", "push", "reviews",
          "feed", "receipt", "visual", "uploads"}

Init ==
    /\ part \in Parts
    /\ IF part = "creation" THEN Creation!Init ELSE CreationIdle
    /\ IF part = "registration" THEN Reg!Init ELSE RegIdle
    /\ IF part = "chat" THEN Chat!Init ELSE ChatIdle
    /\ IF part = "push" THEN Push!Init ELSE PushIdle
    /\ IF part = "reviews" THEN Reviews!Init ELSE ReviewsIdle
    /\ IF part = "feed" THEN Feed!Init ELSE FeedIdle
    /\ IF part = "receipt" THEN Receipt!Init ELSE ReceiptIdle
    /\ IF part = "visual" THEN Visual!Init ELSE VisualIdle
    /\ IF part = "uploads" THEN Uploads!Init ELSE UploadsIdle

OthersUnchanged ==
    /\ UNCHANGED part
    /\ IF part = "creation" THEN TRUE ELSE UNCHANGED CreationVars
    /\ IF part = "registration" THEN TRUE ELSE UNCHANGED RegVars
    /\ IF part = "chat" THEN TRUE ELSE UNCHANGED ChatVars
    /\ IF part = "push" THEN TRUE ELSE UNCHANGED PushVars
    /\ IF part = "reviews" THEN TRUE ELSE UNCHANGED ReviewsVars
    /\ IF part = "feed" THEN TRUE ELSE UNCHANGED FeedVars
    /\ IF part = "receipt" THEN TRUE ELSE UNCHANGED ReceiptVars
    /\ IF part = "visual" THEN TRUE ELSE UNCHANGED VisualVars
    /\ IF part = "uploads" THEN TRUE ELSE UNCHANGED UploadsVars

Next ==
    \/ part = "creation" /\ OthersUnchanged /\ Creation!Next
    \/ part = "registration" /\ OthersUnchanged /\ Reg!Next
    \/ part = "chat" /\ OthersUnchanged /\ Chat!Next
    \/ part = "push" /\ OthersUnchanged /\ Push!Next
    \/ part = "reviews" /\ OthersUnchanged /\ Reviews!Next
    \/ part = "feed" /\ OthersUnchanged /\ Feed!Next
    \/ part = "receipt" /\ OthersUnchanged /\ Receipt!Next
    \/ part = "visual" /\ OthersUnchanged /\ Visual!Next
    \/ part = "uploads" /\ OthersUnchanged /\ Uploads!Next

Spec == Init /\ [][Next]_vars
-----------------------------------------------------------------------------
(* What each module states of itself.                                       *)

\* The values every variable ranges over.
TypeOK ==
    /\ part = "creation" => Creation!TypeOK
    /\ part = "registration" => Reg!TypeOK
    /\ part = "chat" => Chat!TypeOK
    /\ part = "push" => Push!TypeOK
    /\ part = "reviews" => Reviews!TypeOK
    /\ part = "feed" => Feed!TypeOK
    /\ part = "receipt" => Receipt!TypeOK
    /\ part = "visual" => Visual!TypeOK
    /\ part = "uploads" => Uploads!TypeOK

\* Creates that do not overlap leave at most one settlement under way
\* (SettlementsService.create).
OneUnfinishedUnlessRaced == part = "creation" => Creation!OneUnfinishedUnlessRaced

\* A local account needs a code that reached its mailbox (signup).
AccountsVerified == part = "registration" => Reg!AccountsVerified

\* Codes are the cool-down apart and tried a limited number of times, unless
\* requests overlapped (sendEmailVerificationCode, verifyEmailVerificationCode).
GuessesLimited == part = "registration" => Reg!GuessesLimited

\* A social account leads to one users row, unless two logins of it
\* overlapped (kakaoLogin, lineLogin).
OneRowPerSocial == part = "registration" => Reg!OneRowPerSocial

\* A removed member writes no more, though still in the room (handleMessage,
\* ChatMessageService.create).
OnlyMembersWrite == part = "chat" => Chat!OnlyMembersWrite

\* No account gets more devices than allowed (PushService.subscribe).
WithinDeviceLimit == part = "push" => Push!WithinDeviceLimit

\* Every review counts once, however many arrive together (ReviewsService).
ReviewsCounted == part = "reviews" => Reviews!ReviewsCounted

\* A reader is shown every post once, but for posts of one millisecond and
\* changes meanwhile in the sorts that count (findFeed).
FeedComplete == part = "feed" => Feed!FeedComplete

\* Items are read as bought, also with a merged last number, unless a discount
\* makes the total less than they cost (parseReceiptText).
ReceiptRead == part = "receipt" => Receipt!ReceiptRead

\* The words of a photo are put back to the lines of the paper
\* (extractVisualLines).
RowsRecovered == part = "visual" => Visual!RowsRecovered

\* No file is left behind but thumbnails (uploadReceipt, createWithFile).
NothingLeftBehind == part = "uploads" => Uploads!NothingLeftBehind

\* An answer that comes late deletes no device that another account has taken
\* over since the delivery began (PushService.notifyParty).
TakenOverDeviceKept == [][part = "push" => Push!TakenOverKept]_vars
=============================================================================
