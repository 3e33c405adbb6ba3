------------------------------ MODULE Reviews ------------------------------
(***************************************************************************)
(* ReviewsService: the members of one party that has ended review each     *)
(* other.  A review is checked, then stored in a transaction that adds it  *)
(* to the treeScore and reviewsCount of the reviewed user.  Storing the row*)
(* takes shared locks on the users rows it refers to; writing a users row  *)
(* takes an exclusive lock.  Beside the reviews, a social login may link   *)
(* an account and save the whole users row (UsersService.kakaoLogin).      *)
(***************************************************************************)
EXTENDS Integers, FiniteSets, Functions

CONSTANTS
    Users,
    Host,          \* the host of the party
    Scores,        \* subset of {-4, -2, 0, 2, 4}
    MaxReviews     \* bound: reviews stored

\* What the constants must satisfy.
ReviewBounds == Host \in Users /\ Scores \subseteq Int /\ MaxReviews \in Nat

VARIABLES
    members,       \* users with an APPROVED row in party_members
    reviews,       \* evaluations: {[reviewer, reviewee, score], ...}
    user,          \* user -> [score, count], from 0
    pc,            \* where the request of each reviewer is
    review,        \* what it stores
    read,          \* the users row it has read
    link,          \* the login: what it read, and what it will write
    linked         \* history: users linked while a review of them was stored

vars == <<members, reviews, user, pc, review, read, link, linked>>

Row == [score : Int, count : Int]
NoRow == [score |-> 0, count |-> 0]
NoReview == [reviewer |-> Host, reviewee |-> Host, score |-> 0]
NoLink == [state |-> "none", user |-> Host, row |-> NoRow, dirty |-> {}]

Init ==
    /\ members = Users
    /\ reviews = {}
    /\ user = [u \in Users |-> NoRow]
    /\ pc = [u \in Users |-> "idle"]
    /\ review = [u \in Users |-> NoReview]
    /\ read = [u \in Users |-> NoRow]
    /\ link = NoLink
    /\ linked = {}

About(u) == {r \in reviews : r.reviewee = u}
Pair(r) == <<r.reviewer, r.reviewee>>

\* Transactions that hold a shared lock on the users row of u.
Storing == {"stored", "read", "updated"}
Sharing(u) == {v \in Users : pc[v] \in Storing /\ u \in {review[v].reviewer, review[v].reviewee}}
Writing(u) == {v \in Users : pc[v] = "updated" /\ review[v].reviewee = u}

Goto(u, place) == pc' = [pc EXCEPT ![u] = place]
Finish(u) ==
    /\ Goto(u, "idle")
    /\ review' = [review EXCEPT ![u] = NoReview]
    /\ read' = [read EXCEPT ![u] = NoRow]
-----------------------------------------------------------------------------
(* create: the checks before the transaction, with one row for each member. *)
(* One request of a reviewer at a time: of two about one member the unique  *)
(* index refuses the second.                                                *)

Check(u, v, score) ==
    /\ pc[u] = "idle"
    /\ u # v /\ {u, v} \subseteq members
    /\ <<u, v>> \notin {Pair(r) : r \in reviews}
    /\ Goto(u, "checked")
    /\ review' = [review EXCEPT ![u] = [reviewer |-> u, reviewee |-> v, score |-> score]]
    /\ UNCHANGED <<members, reviews, user, read, link, linked>>

\* Mutant: the evaluations refer to no users row.
InsertReview_NoForeignKey(u) ==
    /\ pc[u] = "checked"
    /\ Cardinality(reviews) + Cardinality({v \in Users : pc[v] \in Storing}) < MaxReviews
    /\ Goto(u, "stored")
    /\ read' = [read EXCEPT ![u] = user[review[u].reviewee]]
    /\ UNCHANGED <<members, reviews, user, review, link, linked>>

\* The INSERT waits for whoever is writing one of the two rows.
InsertReview(u) ==
    /\ pc[u] = "checked"
    /\ Writing(review[u].reviewer) \cup Writing(review[u].reviewee) = {}
    /\ Cardinality(reviews) + Cardinality({v \in Users : pc[v] \in Storing}) < MaxReviews
    /\ Goto(u, "stored")
    /\ UNCHANGED <<members, reviews, user, review, read, link, linked>>

ReadUser(u) ==
    /\ pc[u] = "stored"
    /\ read' = [read EXCEPT ![u] = user[review[u].reviewee]]
    /\ Goto(u, "read")
    /\ UNCHANGED <<members, reviews, user, review, link, linked>>

Gain(r) == r.score + (IF r.reviewee = Host THEN 2 ELSE 0)

\* UPDATE users: absolute values.  It waits until nobody else has a lock.
UpdateUser(u) ==
    /\ pc[u] = "read"
    /\ Sharing(review[u].reviewee) = {u}
    /\ user' = [user EXCEPT ![review[u].reviewee] =
                  [score |-> read[u].score + Gain(review[u]), count |-> read[u].count + 1]]
    /\ Goto(u, "updated")
    /\ UNCHANGED <<members, reviews, review, read, link, linked>>

Commit(u) ==
    /\ pc[u] = "updated"
    /\ reviews' = reviews \cup {review[u]}
    /\ linked' = IF link.state # "none" THEN linked \cup ({link.user} \cap {review[u].reviewee})
                 ELSE linked
    /\ Finish(u)
    /\ UNCHANGED <<members, user, link>>

\* Two that wait for each other's shared lock: the server rolls one back.  A
\* query fails, or the process dies: rolled back as well.
Rollback(u) ==
    /\ pc[u] # "idle"
    /\ user' = IF pc[u] = "updated" THEN [user EXCEPT ![review[u].reviewee] = read[u]] ELSE user
    /\ Finish(u)
    /\ UNCHANGED <<members, reviews, link, linked>>
-----------------------------------------------------------------------------
(* kakaoLogin: read the row, read it again and compare, write what differs. *)

\* What others may see of a row: not what a transaction has not committed.
Committed(u) ==
    IF Writing(u) = {} THEN user[u] ELSE read[CHOOSE v \in Writing(u) : TRUE]

LinkRead(u) ==
    /\ link.state = "none"
    /\ link' = [NoLink EXCEPT !.state = "read", !.user = u, !.row = Committed(u)]
    /\ UNCHANGED <<members, reviews, user, pc, review, read, linked>>

LinkCompare ==
    /\ link.state = "read"
    /\ link' = [link EXCEPT !.state = "compared",
                  !.dirty = {c \in {"score", "count"} : Committed(link.user)[c] # link.row[c]}]
    /\ UNCHANGED <<members, reviews, user, pc, review, read, linked>>

LinkWrite ==
    /\ link.state = "compared"
    /\ Sharing(link.user) = {}
    /\ user' = [user EXCEPT ![link.user] =
                  [c \in {"score", "count"} |-> IF c \in link.dirty THEN link.row[c] ELSE @[c]]]
    /\ link' = NoLink
    /\ UNCHANGED <<members, reviews, pc, review, read, linked>>
-----------------------------------------------------------------------------
\* PartyMembersService.remove; the party stays ended.
Remove(u) ==
    /\ u \in members \ {Host}
    /\ members' = members \ {u}
    /\ UNCHANGED <<reviews, user, pc, review, read, link, linked>>

Next ==
    \/ \E u, v \in Users, score \in Scores : Check(u, v, score)
    \/ \E u \in Users :
         \/ InsertReview(u) \/ ReadUser(u) \/ UpdateUser(u) \/ Commit(u) \/ Rollback(u)
         \/ LinkRead(u) \/ Remove(u)
    \/ LinkCompare \/ LinkWrite

Spec == Init /\ [][Next]_vars
-----------------------------------------------------------------------------
(* checkReviewStatus of a member                                            *)

ReviewCount(u) == Cardinality({r \in reviews : r.reviewer = u})
OtherMemberCount == Cardinality(members) - 1

HasReviewed(u) == OtherMemberCount > 0 /\ ReviewCount(u) = OtherMemberCount
-----------------------------------------------------------------------------
\* The values every variable ranges over; a member reviews another once.
TypeOK ==
    /\ members \subseteq Users
    /\ reviews \subseteq [reviewer : Users, reviewee : Users, score : Scores]
    /\ \A r, s \in reviews : Pair(r) = Pair(s) => r = s
    /\ \A u \in Users : user[u] \in Row /\ read[u] \in Row
    /\ pc \in [Users -> {"idle", "checked"} \cup Storing]
    /\ review \in [Users -> [reviewer : Users, reviewee : Users, score : Scores \cup {0}]]
    /\ link.state \in {"none", "read", "compared"} /\ link.user \in Users
    /\ link.row \in Row /\ link.dirty \subseteq {"score", "count"}
    /\ linked \subseteq Users

\* Every review counts once in the treeScore and the reviewsCount of the user
\* it is about, with 2 more for the host, however many arrive together (create),
\* unless the account was being linked to a social account meanwhile.
ReviewsCounted ==
    \A u \in Users \ linked : Writing(u) = {} =>
        user[u] = [score |-> SumFunction([r \in About(u) |-> Gain(r)]),
                   count |-> Cardinality(About(u))]

\* "true if all other members have been reviewed" (reviews.service.ts:184).
ReviewStatusTrue ==
    \A u \in members :
        HasReviewed(u) <=>
            /\ members # {u}
            /\ members \ {u} \subseteq {r.reviewee : r \in {s \in reviews : s.reviewer = u}}
=============================================================================
