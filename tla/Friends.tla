------------------------------ MODULE Friends ------------------------------
(***************************************************************************)
(* Friends: the rows of the friendships table, and the set each session    *)
(* keeps of the friends of its user, from which friend messages are sent.  *)
(* A command is handled by the consumer of the session in several steps:   *)
(* GetUserId, one database transaction, then the caches of the two users,  *)
(* each under the registry's lock; other consumers run in between, and a   *)
(* session may disconnect at any moment. All users are registered.         *)
(***************************************************************************)
EXTENDS Naturals

CONSTANTS
  Users, Consumers,
  Overlap,           \* TRUE: a user may be back on another consumer before the
                     \* consumer of its old session is done with a command
  NoUser, NoConsumer

ASSUME FriendsAssumption ==
  /\ Overlap \in BOOLEAN
  /\ NoUser \notin Users /\ NoConsumer \notin Consumers

VARIABLES
  row,     \* row[<<u, f>>]: the status of the row (user_id u, friend_id f), "none" if there is none
  seat,    \* u's session: "off", "named" (SetName), "known" (SetUserId: in byUserId_),
           \* "on" (cache loaded)
  home,    \* the consumer of that session
  cache,   \* its friendIds_
  th       \* what each consumer does

vars == <<row, seat, home, cache, th>>

Idle == [pc |-> "idle", op |-> "none", user |-> NoUser, friend |-> NoUser,
         ids |-> {}, alive |-> TRUE]

Init == /\ row = [p \in Users \X Users |-> "none"]
        /\ seat = [u \in Users |-> "off"] /\ home = [u \in Users |-> NoConsumer]
        /\ cache = [u \in Users |-> {}]
        /\ th = [c \in Consumers |-> Idle]

-----------------------------------------------------------------------------
At(c, pc) == th[c].pc = pc
Goto(c, pc) == th' = [th EXCEPT ![c].pc = pc]
Finish(c) == th' = [th EXCEPT ![c] = Idle]

\* Is user u found in byUserId_ and byId_?
Found(u) == seat[u] \in {"known", "on"}

AreFriends(u, f) == row[<<u, f>>] = "ACCEPTED" \/ row[<<f, u>>] = "ACCEPTED"

\* HandleNick, with SetName: a new session; its friendIds_ was cleared by Init.
Nick(c, u) ==
  /\ At(c, "idle") /\ seat[u] = "off"
  /\ ~Overlap => \A d \in Consumers : th[d].user # u
  /\ seat' = [seat EXCEPT ![u] = "named"]
  /\ home' = [home EXCEPT ![u] = c]
  /\ cache' = [cache EXCEPT ![u] = {}]
  /\ th' = [th EXCEPT ![c] = [Idle EXCEPT !.pc = "set_user", !.user = u]]
  /\ UNCHANGED row

SetUserId(c) ==
  /\ At(c, "set_user")
  /\ seat' = IF th[c].alive THEN [seat EXCEPT ![th[c].user] = "known"] ELSE seat
  /\ Goto(c, "get_ids")
  /\ UNCHANGED <<row, home, cache>>

\* GetFriendIds reads the table, or throws and the handler ends there.
GetFriendIds(c) ==
  /\ At(c, "get_ids")
  /\ \/ th' = [th EXCEPT ![c].pc = "load",
                         ![c].ids = {f \in Users : AreFriends(th[c].user, f)}]
     \/ Finish(c)
  /\ UNCHANGED <<row, seat, home, cache>>

LoadReplaces(c) ==
  /\ At(c, "load")
  /\ LET u == th[c].user IN
     IF Found(u)
       THEN /\ cache' = [cache EXCEPT ![u] = th[c].ids]
            /\ seat' = [seat EXCEPT ![u] = IF th[c].alive THEN "on" ELSE @]
       ELSE UNCHANGED <<cache, seat>>
  /\ Finish(c)
  /\ UNCHANGED <<row, home>>

\* LoadFriendCache adds to the set of whatever session the user has now.
LoadFriendCache(c) ==
  /\ At(c, "load")
  /\ LET u == th[c].user IN
     IF Found(u)
       THEN /\ cache' = [cache EXCEPT ![u] = @ \cup th[c].ids]
            /\ seat' = [seat EXCEPT ![u] = IF th[c].alive THEN "on" ELSE @]
       ELSE UNCHANGED <<cache, seat>>
  /\ Finish(c)
  /\ UNCHANGED <<row, home>>

\* Destroy: the session leaves the registry; a consumer may be in its command.
Disconnect(u) ==
  /\ seat[u] # "off"
  /\ seat' = [seat EXCEPT ![u] = "off"]
  /\ home' = [home EXCEPT ![u] = NoConsumer]
  /\ cache' = [cache EXCEPT ![u] = {}]
  /\ th' = [c \in Consumers |-> IF th[c].user = u THEN [th[c] EXCEPT !.alive = FALSE]
                                                  ELSE th[c]]
  /\ UNCHANGED row

-----------------------------------------------------------------------------
\* A friend command of u about f, up to GetUserId. A session that has not its
\* user id yet, or is gone, gets the user id 0, of which no row is written.
Command(c, u, f, op) ==
  /\ At(c, "idle") /\ home[u] = c /\ Found(u)
  /\ th' = [th EXCEPT ![c] = [Idle EXCEPT !.pc = "tx", !.op = op, !.user = u, !.friend = f]]
  /\ UNCHANGED <<row, seat, home, cache>>

Doing(c, op) == At(c, "tx") /\ th[c].op = op

\* INSERT ... ON CONFLICT DO NOTHING
AddFriend(c) ==
  /\ Doing(c, "add")
  /\ LET u == th[c].user
         f == th[c].friend
     IN row' = IF u # f /\ row[<<u, f>>] = "none" THEN [row EXCEPT ![<<u, f>>] = "PENDING"] ELSE row
  /\ Finish(c)
  /\ UNCHANGED <<seat, home, cache>>

\* UPDATE ... SET 'ACCEPTED' of the request of f to u, if it is PENDING.
AcceptFriend(c) ==
  /\ Doing(c, "accept")
  /\ LET u == th[c].user
         f == th[c].friend
     IN IF row[<<f, u>>] = "PENDING"
          THEN row' = [row EXCEPT ![<<f, u>>] = "ACCEPTED"] /\ Goto(c, "mine")
          ELSE Finish(c) /\ UNCHANGED row
  /\ UNCHANGED <<seat, home, cache>>

RejectMarks(c) ==
  /\ Doing(c, "reject")
  /\ LET u == th[c].user
         f == th[c].friend
     IN row' = IF row[<<f, u>>] = "PENDING" THEN [row EXCEPT ![<<f, u>>] = "REJECTED"] ELSE row
  /\ Finish(c)
  /\ UNCHANGED <<seat, home, cache>>

RejectAny(c) ==
  /\ Doing(c, "reject")
  /\ row' = [row EXCEPT ![<<th[c].friend, th[c].user>>] = "none"]
  /\ Finish(c)
  /\ UNCHANGED <<seat, home, cache>>

\* DELETE of the request of f to u, if it is PENDING.
RejectFriend(c) ==
  /\ Doing(c, "reject")
  /\ LET u == th[c].user
         f == th[c].friend
     IN row' = IF row[<<f, u>>] = "PENDING" THEN [row EXCEPT ![<<f, u>>] = "none"] ELSE row
  /\ Finish(c)
  /\ UNCHANGED <<seat, home, cache>>

\* DELETE both rows, INSERT (u, f, 'BLOCKED'), in one transaction.
BlockFriend(c) ==
  /\ Doing(c, "block")
  /\ LET u == th[c].user
         f == th[c].friend
     IN IF u # f
          THEN row' = [row EXCEPT ![<<f, u>>] = "none", ![<<u, f>>] = "BLOCKED"] /\ Goto(c, "mine")
          ELSE Finish(c) /\ UNCHANGED row
  /\ UNCHANGED <<seat, home, cache>>

\* A transaction that throws changes nothing, and the handler tells the client so.
DbThrows(c) ==
  /\ At(c, "tx")
  /\ Finish(c)
  /\ UNCHANGED <<row, seat, home, cache>>

\* CacheAddFriend after an accept, CacheRemoveFriend after a block: f in the set
\* of u's session, if u has one.
UpdateCacheNamed(c, u, f) ==
  cache' = IF seat[u] # "on" THEN cache
           ELSE [cache EXCEPT ![u] = IF th[c].op = "accept" THEN @ \cup {f} ELSE @ \ {f}]

UpdateCache(c, u, f) ==
  cache' = IF ~Found(u) THEN cache
           ELSE [cache EXCEPT ![u] = IF th[c].op = "accept" THEN @ \cup {f} ELSE @ \ {f}]

UpdateMine(c) ==
  /\ At(c, "mine")
  /\ UpdateCache(c, th[c].user, th[c].friend)
  /\ Goto(c, "theirs")
  /\ UNCHANGED <<row, seat, home>>

UpdateTheirs(c) ==
  /\ At(c, "theirs")
  /\ UpdateCache(c, th[c].friend, th[c].user)
  /\ Finish(c)
  /\ UNCHANGED <<row, seat, home>>

-----------------------------------------------------------------------------
Continue(c) == \/ SetUserId(c) \/ GetFriendIds(c) \/ LoadFriendCache(c)
               \/ AddFriend(c) \/ AcceptFriend(c) \/ RejectFriend(c) \/ BlockFriend(c)
               \/ DbThrows(c) \/ UpdateMine(c) \/ UpdateTheirs(c)

Next == \/ \E c \in Consumers, u \in Users : Nick(c, u)
        \/ \E c \in Consumers, u, f \in Users, op \in {"add", "accept", "reject", "block"} :
             Command(c, u, f, op)
        \/ \E c \in Consumers : Continue(c)
        \/ \E u \in Users : Disconnect(u)

Spec == Init /\ [][Next]_vars

\* A consumer finishes the command it has begun.
FairSpec == Spec /\ \A c \in Consumers : WF_vars(Continue(c))

-----------------------------------------------------------------------------
TypeOK ==
  /\ row \in [Users \X Users -> {"none", "PENDING", "ACCEPTED", "BLOCKED"}]
  /\ seat \in [Users -> {"off", "named", "known", "on"}]
  /\ home \in [Users -> Consumers \cup {NoConsumer}]
  /\ cache \in [Users -> SUBSET Users]
  /\ th \in [Consumers ->
       [pc : {"idle", "set_user", "get_ids", "load", "tx", "mine", "theirs"},
        op : {"none", "add", "accept", "reject", "block"},
        user : Users \cup {NoUser}, friend : Users \cup {NoUser},
        ids : SUBSET Users, alive : BOOLEAN]]

\* SendToFriends: the users whose sessions get a friend message of u.
Recipients(u) == {f \in cache[u] : Found(f)}

\* A consumer that accepted a request between u and f has u's cache still to do.
Adding(u, f) == \E c \in Consumers :
  /\ th[c].op = "accept"
  /\ \/ At(c, "mine") /\ {th[c].user, th[c].friend} = {u, f}
     \/ At(c, "theirs") /\ th[c].friend = u /\ th[c].user = f

\* No friend is missed: a friend of u is in the cache of u's session as soon as
\* it is loaded, whatever was accepted while it was, unless the consumer that
\* accepted the request is on its way to put it there.
CacheComplete ==
  \A u, f \in Users : seat[u] = "on" /\ AreFriends(u, f) => f \in cache[u] \/ Adding(u, f)

\* A block stays until the user it is about blocks back: no request, acceptance or
\* rejection, of either, lifts it or takes its place. (It does not keep the other from
\* asking again, nor u from accepting: then a pair is blocked and befriended.)
BlockHolds ==
  [][\A u, f \in Users : row[<<u, f>>] = "BLOCKED" =>
       \/ row'[<<u, f>>] = "BLOCKED"
       \/ \E c \in Consumers : Doing(c, "block") /\ th[c].user = f /\ th[c].friend = u]_vars

Quiet == \A c \in Consumers : At(c, "idle")

\* A friend message goes to friends: with no command under way, only to users
\* who are friends now.
CacheSound == Quiet => \A u \in Users : \A f \in Recipients(u) : AreFriends(u, f)

\* Two friends who both stay on line get each other's friend messages in the end.
FriendsHear ==
  \A u, f \in Users :
    (seat[u] = "on" /\ Found(f) /\ AreFriends(u, f)) ~>
      (f \in Recipients(u) \/ ~AreFriends(u, f) \/ seat[u] # "on" \/ ~Found(f))
=============================================================================
