--------------------------- MODULE CommunityFeed ---------------------------
(***************************************************************************)
(* CommunityService: one reader pages through the posts of one language    *)
(* while posts are written, liked and commented on.  Times have a finer    *)
(* unit in the table (microseconds) than in a cursor (milliseconds).       *)
(***************************************************************************)
EXTENDS Naturals, Sequences, FiniteSets

CONSTANTS
    Users,         \* users who like posts
    Limit,         \* posts of a page
    Millisecond,   \* units of the table's clock in one of the cursor's
    MaxTime,       \* bound: the table's clock
    MaxPosts,      \* bound: posts
    MaxComments    \* bound: comments on a post

\* What the constants must satisfy.
FeedBounds ==
    /\ {Limit, Millisecond} \subseteq Nat \ {0}
    /\ {MaxTime, MaxPosts, MaxComments} \subseteq Nat

VARIABLES
    posts,         \* community_posts: <<createdAt, ...>> by id
    likes,         \* community_post_likes: the users who like each post
    comments,      \* community_comments: how many each post has
    liking,        \* user -> the post whose like has been looked up, or 0
    sort,          \* what the reader sorts by
    cursor,        \* nextCursor of the last page: a time and an id, or an offset
    shown,         \* the posts of the pages so far
    again,         \* history: the posts shown on two pages
    start,         \* history: the posts there were at the first page
    calm           \* history: nothing was written since

vars == <<posts, likes, comments, liking, sort, cursor, shown, again, start, calm>>

NoCursor == [time |-> 0, id |-> 0, offset |-> 0]
Sorts == {"latest", "popular", "comments"}
Ids == DOMAIN posts

Init ==
    /\ posts = <<>> /\ likes = <<>> /\ comments = <<>>
    /\ liking = [u \in Users |-> 0]
    /\ sort \in Sorts
    /\ cursor = NoCursor
    /\ shown = {} /\ again = {}
    /\ start = {}
    /\ calm = TRUE
-----------------------------------------------------------------------------
(* create, createComment, likePost, unlikePost.  A post or a comment is one *)
(* INSERT (after the party or the post it refers to was found).             *)

Create(time) ==
    /\ Len(posts) < MaxPosts
    /\ posts' = Append(posts, time)
    /\ likes' = Append(likes, {})
    /\ comments' = Append(comments, 0)
    /\ calm' = FALSE
    /\ UNCHANGED <<liking, sort, cursor, shown, again, start>>

CreateComment(p) ==
    /\ comments[p] < MaxComments
    /\ comments' = [comments EXCEPT ![p] = @ + 1]
    /\ calm' = FALSE
    /\ UNCHANGED <<posts, likes, liking, sort, cursor, shown, again, start>>

\* A like that exists changes nothing.
LikePost(u, p) ==
    /\ liking[u] = 0 /\ u \notin likes[p]
    /\ liking' = [liking EXCEPT ![u] = p]
    /\ UNCHANGED <<posts, likes, comments, sort, cursor, shown, again, start, calm>>

\* The unique index refuses a second row: an error answer, no change.
InsertLike(u) ==
    /\ liking[u] # 0
    /\ likes' = [likes EXCEPT ![liking[u]] = @ \cup {u}]
    /\ liking' = [liking EXCEPT ![u] = 0]
    /\ calm' = FALSE
    /\ UNCHANGED <<posts, comments, sort, cursor, shown, again, start>>

UnlikePost(u, p) ==
    /\ u \in likes[p]
    /\ likes' = [likes EXCEPT ![p] = @ \ {u}]
    /\ calm' = FALSE
    /\ UNCHANGED <<posts, comments, liking, sort, cursor, shown, again, start>>
-----------------------------------------------------------------------------
(* findFeed                                                                 *)

Truncated(time) == (time \div Millisecond) * Millisecond

Rank(p) == CASE sort = "popular"  -> Cardinality(likes[p])
             [] sort = "comments" -> comments[p]
             [] OTHER             -> 0

\* ORDER BY rank, createdAt, id, all descending.
Before(p, q) ==
    \/ Rank(p) > Rank(q)
    \/ Rank(p) = Rank(q) /\ posts[p] > posts[q]
    \/ Rank(p) = Rank(q) /\ posts[p] = posts[q] /\ p > q

\* Mutant: the post of the cursor itself is not left out.
After_Inclusive(p) ==
    \/ posts[p] < cursor.time
    \/ posts[p] = cursor.time /\ p <= cursor.id

\* WHERE of a page that follows another one.
After(p) ==
    \/ posts[p] < cursor.time
    \/ posts[p] = cursor.time /\ p < cursor.id

\* WHERE, ORDER BY and skip: how many of the rows come before p.
Following == {p \in Ids : sort = "latest" /\ cursor # NoCursor => After(p)}
Place(p) == Cardinality({q \in Following : Before(q, p)})
Offset == IF sort # "latest" THEN cursor.offset ELSE 0

\* The Limit rows from Offset on are the page; one row more is asked for, to know whether
\* there is another.  The cursor of a time is an ISO string, of milliseconds.
Page ==
    LET items == {p \in Following : Place(p) \in Offset .. Offset + Limit - 1}
        hasMore == \E p \in Following : Place(p) >= Offset + Limit
        last == CHOOSE p \in items : \A q \in items \ {p} : Before(q, p)
    IN  /\ shown' = shown \cup items
        /\ again' = again \cup (shown \cap items)
        /\ cursor' = IF ~hasMore THEN NoCursor
                     ELSE IF sort = "latest"
                          THEN [NoCursor EXCEPT !.time = Truncated(posts[last]), !.id = last]
                          ELSE [NoCursor EXCEPT !.offset = Offset + Limit]

FirstPage ==
    /\ shown = {} /\ posts # <<>>
    /\ Page
    /\ start' = Ids
    /\ calm' = TRUE
    /\ UNCHANGED <<posts, likes, comments, liking, sort>>

NextPage ==
    /\ cursor # NoCursor
    /\ Page
    /\ UNCHANGED <<posts, likes, comments, liking, sort, start, calm>>

Next ==
    \/ \E time \in 0..MaxTime : Create(time)
    \/ \E p \in Ids : CreateComment(p)
    \/ \E u \in Users, p \in Ids : LikePost(u, p) \/ UnlikePost(u, p)
    \/ \E u \in Users : InsertLike(u)
    \/ FirstPage \/ NextPage

Spec == Init /\ [][Next]_vars
-----------------------------------------------------------------------------
\* The values every variable ranges over.
TypeOK ==
    /\ posts \in Seq(0..MaxTime) /\ Len(posts) <= MaxPosts
    /\ likes \in [Ids -> SUBSET Users]
    /\ comments \in [Ids -> 0..MaxComments]
    /\ liking \in [Users -> {0} \cup Ids]
    /\ sort \in Sorts
    /\ cursor \in [time : 0..MaxTime, id : 0 .. Len(posts), offset : 0 .. MaxPosts * Limit]
    /\ again \subseteq shown /\ shown \subseteq Ids
    /\ start \subseteq Ids
    /\ calm \in BOOLEAN

AtEnd == shown # {} /\ cursor = NoCursor

\* Sorted by time, a reader is shown every post there was at the beginning,
\* whatever is written meanwhile: omissions are expected of the other two
\* sorts only (community.service.ts:173).
LatestOmitsNothing == sort = "latest" /\ AtEnd => start \subseteq shown

\* That holds for posts that share their millisecond with no other; no post is
\* shown twice; and the other two sorts show everything once if nothing is
\* written while the reader pages (findFeed).
FeedComplete ==
    /\ sort = "latest" => again = {}
    /\ sort = "latest" /\ AtEnd =>
         \A p \in start \ shown : \E q \in Ids \ {p} :
             Truncated(posts[p]) = Truncated(posts[q])
    /\ calm => again = {} /\ (sort # "latest" /\ AtEnd => start = shown)
=============================================================================
