------------------------------ MODULE ChatRoom ------------------------------
(***************************************************************************)
(* The chat of one party: the sockets of ChatGateway and the HTTP endpoint *)
(* of ChatMessageService.  Every query is a step of its own; requests of   *)
(* one user and of several interleave, and so do the approvals and removals*)
(* of members, which PartyMembership has in full, with the notices that go *)
(* with them.  What a message says, nothing here depends on.               *)
(***************************************************************************)
EXTENDS Naturals

CONSTANTS
    Users,         \* users who may be members
    Handlers,      \* requests that may run at the same time
    None           \* no user

VARIABLES
    approved,      \* users with an APPROVED row in party_members
    room,          \* users with a socket in the room
    pc,            \* where each request is
    who,           \* whose request it is
    caught         \* history: messages let in and not stored when the user was removed

vars == <<approved, room, pc, who, caught>>

Init ==
    /\ approved = {}
    /\ room = {}
    /\ pc = [h \in Handlers |-> "idle"]
    /\ who = [h \in Handlers |-> None]
    /\ caught = {}

\* Messages that were let in and are about to be stored.
Writing == {h \in Handlers : pc[h] \in {"saving", "posting"}}

Start(h, u, place) ==
    /\ pc[h] = "idle"
    /\ pc' = [pc EXCEPT ![h] = place]
    /\ who' = [who EXCEPT ![h] = u]
    /\ UNCHANGED <<approved, room, caught>>

Finish(h) ==
    /\ pc' = [pc EXCEPT ![h] = "idle"]
    /\ who' = [who EXCEPT ![h] = None]
    /\ caught' = caught \ {h}
-----------------------------------------------------------------------------
(* joinRoom, message and disconnection of a socket that has authenticated.  *)

\* A user who is not approved is refused.
JoinRoom(h, u) ==
    /\ u \in approved
    /\ Start(h, u, "joining")

Enter(h) ==
    /\ pc[h] = "joining"
    /\ room' = room \cup {who[h]}
    /\ Finish(h)
    /\ UNCHANGED approved

\* The last socket of u closes.
Disconnect(u) ==
    /\ room' = room \ {u}
    /\ UNCHANGED <<approved, pc, who, caught>>

\* Mutant: whoever is in the room is taken for a member.
Message_InRoom(h, u) ==
    /\ u \in room
    /\ Start(h, u, "saving")

\* The sender is in the room and still approved.
Message(h, u) ==
    /\ u \in room /\ u \in approved
    /\ Start(h, u, "saving")

SaveMessage(h) ==
    /\ pc[h] = "saving"
    /\ pc' = [pc EXCEPT ![h] = "emitting"]
    /\ caught' = caught \ {h}
    /\ UNCHANGED <<approved, room, who>>

\* The message goes to the room and notifyParty is started (PushSubscriptions).
EmitMessage(h) ==
    /\ pc[h] = "emitting"
    /\ Finish(h)
    /\ UNCHANGED <<approved, room>>

\* ChatMessageService.create: stored and not emitted.
Post(h, u) ==
    /\ u \in approved
    /\ Start(h, u, "posting")

SavePost(h) ==
    /\ pc[h] = "posting"
    /\ Finish(h)
    /\ UNCHANGED <<approved, room>>

\* A query fails, or the process dies and all sockets close (one at a time).
Fail(h) ==
    /\ pc[h] # "idle"
    /\ Finish(h)
    /\ UNCHANGED <<approved, room>>
-----------------------------------------------------------------------------
(* The host approves u, or rejects or removes u (PartyMembersService).      *)

Approve(u) ==
    /\ u \notin approved
    /\ approved' = approved \cup {u}
    /\ UNCHANGED <<room, pc, who, caught>>

\* Nothing takes the sockets of a removed member out of the room.
Remove(u) ==
    /\ u \in approved
    /\ approved' = approved \ {u}
    /\ caught' = caught \cup {h \in Writing : who[h] = u}
    /\ UNCHANGED <<room, pc, who>>

Next ==
    \/ \E h \in Handlers, u \in Users : JoinRoom(h, u) \/ Message(h, u) \/ Post(h, u)
    \/ \E h \in Handlers :
         Enter(h) \/ SaveMessage(h) \/ EmitMessage(h) \/ SavePost(h) \/ Fail(h)
    \/ \E u \in Users : Disconnect(u) \/ Approve(u) \/ Remove(u)

Spec == Init /\ [][Next]_vars
-----------------------------------------------------------------------------
Places == {"idle", "joining", "saving", "emitting", "posting"}

\* The values every variable ranges over.
TypeOK ==
    /\ approved \subseteq Users
    /\ room \subseteq Users
    /\ pc \in [Handlers -> Places]
    /\ who \in [Handlers -> Users \cup {None}]
    /\ caught \subseteq Writing

\* A removed member writes no more, though the sockets of the member stay in the
\* room: a message about to be stored is a member's, or was let in before the
\* sender was removed (handleMessage, ChatMessageService.create).
OnlyMembersWrite ==
    \A h \in Writing : who[h] \in approved \/ h \in caught
=============================================================================
