--------------------------- MODULE FriendsProofs ---------------------------
(***************************************************************************)
(* Proofs about Friends, for every set of users and of consumers. That the *)
(* variables have their types, and that a block holds, needs no assumption *)
(* on Overlap; that a loaded cache misses no friend needs ~Overlap: an old *)
(* session's consumer, late with the caches, would undo what a newer       *)
(* command of the same user did.                                           *)
(***************************************************************************)
EXTENDS Friends, TLAPS

Status == {"none", "PENDING", "ACCEPTED", "BLOCKED"}

Task == [pc : {"idle", "set_user", "get_ids", "load", "tx", "mine", "theirs"},
         op : {"none", "add", "accept", "reject", "block"},
         user : Users \cup {NoUser}, friend : Users \cup {NoUser},
         ids : SUBSET Users, alive : BOOLEAN]

\* What the step a consumer is at says of its task.
TaskOK(t) ==
  /\ t.pc = "idle" => t.user = NoUser /\ t.op = "none"
  /\ t.pc # "idle" => t.user \in Users
  /\ t.pc \in {"set_user", "get_ids", "load"} => t.op = "none"
  /\ t.pc \in {"tx", "mine", "theirs"} => t.friend \in Users
  /\ t.pc \in {"mine", "theirs"} => t.op \in {"accept", "block"}

ThreadsOK == \A c \in Consumers : TaskOK(th[c])

-----------------------------------------------------------------------------
\* Whatever a consumer's task becomes, the other tasks are as they were.
LEMMA OneTask ==
  ASSUME TypeOK, ThreadsOK, NEW c \in Consumers, NEW t \in Task, TaskOK(t),
         th' = [th EXCEPT ![c] = t]
  PROVE  /\ th' \in [Consumers -> Task] /\ ThreadsOK'
         /\ th'[c] = t /\ \A d \in Consumers \ {c} : th'[d] = th[d]
<1> DEFINE K == Task
<1>1. th \in [Consumers -> K] /\ t \in K
  BY DEF TypeOK, Task
<1> HIDE DEF K
<1>2. th' \in [Consumers -> K] /\ th'[c] = t /\ \A d \in Consumers \ {c} : th'[d] = th[d]
  BY <1>1
<1>3. \A d \in Consumers : TaskOK(th'[d])
  BY <1>2 DEF ThreadsOK
<1> QED
  BY <1>2, <1>3 DEF K, ThreadsOK, TaskOK

\* A finished task: the consumer is idle.
LEMMA IdleOK == Idle \in Task /\ TaskOK(Idle)
BY FriendsAssumption DEF Idle, Task, TaskOK


Types == TypeOK /\ ThreadsOK

\* No consumer works at the start.
LEMMA InitTypes == Init => Types
BY IdleOK, FriendsAssumption DEF Init, Types, TypeOK, ThreadsOK, Task

\* A step of the consumer c that gives it the task t, and any well-typed rows, seats,
\* homes and caches, keeps the types.
LEMMA TaskStep ==
  ASSUME Types, NEW c \in Consumers, NEW t \in Task, TaskOK(t), th' = [th EXCEPT ![c] = t],
         row' \in [Users \X Users -> Status],
         seat' \in [Users -> {"off", "named", "known", "on"}],
         home' \in [Users -> Consumers \cup {NoConsumer}],
         cache' \in [Users -> SUBSET Users]
  PROVE  Types'
<1>1. th' \in [Consumers -> Task] /\ ThreadsOK'
  BY OneTask DEF Types
<1>2. TypeOK'
  BY <1>1 DEF TypeOK, Task, Status
<1> QED
  BY <1>1, <1>2 DEF Types

\* The task of a consumer in a state with the types.
LEMMA ItsTask ==
  ASSUME Types, NEW c \in Consumers
  PROVE  th[c] \in Task /\ TaskOK(th[c])
BY DEF Types, TypeOK, ThreadsOK, Task

\* A row of the table takes another status.
LEMMA RowSet ==
  ASSUME NEW r \in [Users \X Users -> Status], NEW u \in Users, NEW f \in Users, NEW v \in Status
  PROVE  /\ [r EXCEPT ![<<u, f>>] = v] \in [Users \X Users -> Status]
         /\ [r EXCEPT ![<<u, f>>] = v][<<u, f>>] = v
         /\ \A a, b \in Users : <<a, b>> # <<u, f>> => [r EXCEPT ![<<u, f>>] = v][<<a, b>>] = r[<<a, b>>]
OBVIOUS

\* A block deletes one row and writes the other.
LEMMA BothRowsSet ==
  ASSUME NEW r \in [Users \X Users -> Status], NEW u \in Users, NEW f \in Users, u # f
  PROVE  LET n == [r EXCEPT ![<<f, u>>] = "none", ![<<u, f>>] = "BLOCKED"] IN
         /\ n \in [Users \X Users -> Status]
         /\ n[<<f, u>>] = "none" /\ n[<<u, f>>] = "BLOCKED"
         /\ \A a, b \in Users : <<a, b>> \notin {<<u, f>>, <<f, u>>} => n[<<a, b>>] = r[<<a, b>>]
<1> DEFINE n1 == [r EXCEPT ![<<f, u>>] = "none"]
           n == [n1 EXCEPT ![<<u, f>>] = "BLOCKED"]
<1>1. /\ n1 \in [Users \X Users -> Status] /\ n1[<<f, u>>] = "none"
      /\ \A a, b \in Users : <<a, b>> # <<f, u>> => n1[<<a, b>>] = r[<<a, b>>]
  BY RowSet DEF Status
<1> HIDE DEF n1
<1>2. /\ n \in [Users \X Users -> Status] /\ n[<<u, f>>] = "BLOCKED"
      /\ \A a, b \in Users : <<a, b>> # <<u, f>> => n[<<a, b>>] = n1[<<a, b>>]
  BY <1>1, RowSet DEF Status
<1>3. [r EXCEPT ![<<f, u>>] = "none", ![<<u, f>>] = "BLOCKED"] = n
  BY DEF n1
<1> HIDE DEF n
<1> QED
  BY <1>1, <1>2, <1>3

\* Every step keeps the types and what a task's step says of it.
LEMMA NextTypes == Types /\ [Next]_vars => Types'
<1> SUFFICES ASSUME Types, [Next]_vars PROVE Types'
    OBVIOUS
<1>1. /\ row \in [Users \X Users -> Status]
      /\ seat \in [Users -> {"off", "named", "known", "on"}]
      /\ home \in [Users -> Consumers \cup {NoConsumer}]
      /\ cache \in [Users -> SUBSET Users]
      /\ th \in [Consumers -> Task]
  BY DEF Types, TypeOK, Status, Task
<1>2. ASSUME NEW c \in Consumers, NEW u \in Users, Nick(c, u) PROVE Types'
  <2> DEFINE t == [Idle EXCEPT !.pc = "set_user", !.user = u]
  <2>1. t \in Task /\ TaskOK(t)
    BY FriendsAssumption DEF Idle, Task, TaskOK
  <2>2. th' = [th EXCEPT ![c] = t]
    BY <1>2 DEF Nick
  <2>3. /\ row' \in [Users \X Users -> Status]
        /\ seat' \in [Users -> {"off", "named", "known", "on"}]
        /\ home' \in [Users -> Consumers \cup {NoConsumer}]
        /\ cache' \in [Users -> SUBSET Users]
    BY <1>1, <1>2 DEF Nick
  <2> HIDE DEF t
  <2> QED
    BY <2>1, <2>2, <2>3, TaskStep
<1>3. ASSUME NEW c \in Consumers, NEW u \in Users, NEW f \in Users,
             NEW op \in {"add", "accept", "reject", "block"}, Command(c, u, f, op)
      PROVE  Types'
  <2> DEFINE t == [Idle EXCEPT !.pc = "tx", !.op = op, !.user = u, !.friend = f]
  <2>1. t \in Task /\ TaskOK(t)
    BY FriendsAssumption DEF Idle, Task, TaskOK
  <2>2. th' = [th EXCEPT ![c] = t] /\ UNCHANGED <<row, seat, home, cache>>
    BY <1>3 DEF Command
  <2> HIDE DEF t
  <2> QED
    BY <1>1, <2>1, <2>2, TaskStep
<1>4. ASSUME NEW c \in Consumers, Continue(c) PROVE Types'
  <2>1. th[c] \in Task /\ TaskOK(th[c])
    BY ItsTask
  <2>3. CASE SetUserId(c)
    <3> DEFINE t == [th[c] EXCEPT !.pc = "get_ids"]
    <3>1. t \in Task /\ TaskOK(t)
      BY <2>1, <2>3 DEF SetUserId, At, Task, TaskOK
    <3>2. th' = [th EXCEPT ![c] = t] /\ UNCHANGED <<row, home, cache>>
      BY <2>3 DEF SetUserId, Goto
    <3>3. seat' \in [Users -> {"off", "named", "known", "on"}]
      BY <2>3, <1>1 DEF SetUserId
    <3> HIDE DEF t
    <3> QED
      BY <1>1, <3>1, <3>2, <3>3, TaskStep
  <2>4. CASE GetFriendIds(c)
    <3> DEFINE F == {f \in Users : AreFriends(th[c].user, f)}
               t == [th[c] EXCEPT !.pc = "load", !.ids = F]
    <3>1. t \in Task /\ TaskOK(t)
      BY <2>1, <2>4 DEF GetFriendIds, At, Task, TaskOK
    <3>2. UNCHANGED <<row, seat, home, cache>>
      BY <2>4 DEF GetFriendIds
    <3>3. th' = [th EXCEPT ![c] = t] \/ th' = [th EXCEPT ![c] = Idle]
      BY <2>4 DEF GetFriendIds, Finish
    <3> HIDE DEF t
    <3> QED
      BY <1>1, <3>1, <3>2, <3>3, IdleOK, TaskStep
  <2>5. CASE LoadFriendCache(c)
    <3>1. th[c].user \in Users /\ th[c].ids \in SUBSET Users
      BY <2>1, <2>5 DEF LoadFriendCache, At, Task, TaskOK
    <3>2. th' = [th EXCEPT ![c] = Idle] /\ UNCHANGED <<row, home>>
      BY <2>5 DEF LoadFriendCache, Finish
    <3>3. /\ seat' \in [Users -> {"off", "named", "known", "on"}]
          /\ cache' \in [Users -> SUBSET Users]
      BY <2>5, <1>1, <3>1 DEF LoadFriendCache
    <3> QED
      BY <1>1, <3>2, <3>3, IdleOK, TaskStep
  <2>6. CASE AddFriend(c) \/ RejectFriend(c) \/ DbThrows(c)
    <3>1. th[c].user \in Users /\ th[c].friend \in Users
      BY <2>1, <2>6 DEF AddFriend, RejectFriend, DbThrows, Doing, At, TaskOK
    <3>2. th' = [th EXCEPT ![c] = Idle] /\ UNCHANGED <<seat, home, cache>>
      BY <2>6 DEF AddFriend, RejectFriend, DbThrows, Finish
    <3>3. row' \in [Users \X Users -> Status]
      BY SMTT(30), <2>6, <1>1, <3>1, RowSet DEF AddFriend, RejectFriend, DbThrows, Status
    <3> QED
      BY <1>1, <3>2, <3>3, IdleOK, TaskStep
  <2>7. CASE AcceptFriend(c) \/ BlockFriend(c)
    <3> DEFINE t == [th[c] EXCEPT !.pc = "mine"]
               u == th[c].user
               f == th[c].friend
    <3>1. u \in Users /\ f \in Users /\ t \in Task /\ TaskOK(t)
      BY <2>1, <2>7 DEF AcceptFriend, BlockFriend, Doing, At, Task, TaskOK
    <3>2. UNCHANGED <<seat, home, cache>>
      BY <2>7 DEF AcceptFriend, BlockFriend
    <3>3. th' = [th EXCEPT ![c] = t] \/ th' = [th EXCEPT ![c] = Idle]
      BY <2>7 DEF AcceptFriend, BlockFriend, Finish, Goto
    <3>4. row' \in [Users \X Users -> Status]
      <4>1. CASE AcceptFriend(c)
        BY <4>1, <1>1, <3>1, RowSet DEF AcceptFriend, Status
      <4>2. CASE BlockFriend(c)
        <5>1. \/ row' = row
              \/ u # f /\ row' = [row EXCEPT ![<<f, u>>] = "none", ![<<u, f>>] = "BLOCKED"]
          BY <4>2 DEF BlockFriend
        <5> QED
          BY <1>1, <3>1, <5>1 DEF Status
      <4> QED
        BY <2>7, <4>1, <4>2
    <3> HIDE DEF t
    <3> QED
      BY <1>1, <3>1, <3>2, <3>3, <3>4, IdleOK, TaskStep
  <2>8. CASE UpdateMine(c) \/ UpdateTheirs(c)
    <3> DEFINE t == [th[c] EXCEPT !.pc = "theirs"]
    <3>1. /\ th[c].user \in Users /\ th[c].friend \in Users
          /\ UpdateMine(c) => t \in Task /\ TaskOK(t)
      BY <2>1, <2>8 DEF UpdateMine, UpdateTheirs, At, Task, TaskOK
    <3>2. UNCHANGED <<row, seat, home>>
      BY <2>8 DEF UpdateMine, UpdateTheirs
    <3>3. (UpdateMine(c) /\ th' = [th EXCEPT ![c] = t]) \/ th' = [th EXCEPT ![c] = Idle]
      BY <2>8 DEF UpdateMine, UpdateTheirs, Finish, Goto
    <3>4. cache' \in [Users -> SUBSET Users]
      BY <2>8, <1>1, <3>1 DEF UpdateMine, UpdateTheirs, UpdateCache
    <3> HIDE DEF t
    <3> QED
      BY <1>1, <3>1, <3>2, <3>3, <3>4, IdleOK, TaskStep
  <2> QED
    BY <1>4, <2>3, <2>4, <2>5, <2>6, <2>7, <2>8 DEF Continue
<1>5. ASSUME NEW u \in Users, Disconnect(u) PROVE Types'
  <2>1. \A c \in Consumers : th'[c] \in Task /\ TaskOK(th'[c])
    BY ZenonT(40), <1>5, ItsTask DEF Disconnect, Task, TaskOK
  <2>2. th' \in [Consumers -> Task] /\ ThreadsOK'
    BY <2>1, <1>5 DEF Disconnect, ThreadsOK
  <2>3. /\ row' \in [Users \X Users -> Status]
        /\ seat' \in [Users -> {"off", "named", "known", "on"}]
        /\ home' \in [Users -> Consumers \cup {NoConsumer}]
        /\ cache' \in [Users -> SUBSET Users]
    BY <1>1, <1>5 DEF Disconnect
  <2> QED
    BY <2>2, <2>3 DEF Types, TypeOK, Task, Status
<1>6. CASE UNCHANGED vars
  BY <1>6 DEF vars, Types, TypeOK, ThreadsOK
<1> QED
  BY <1>2, <1>3, <1>4, <1>5, <1>6 DEF Next

\* FriendsTypes: the variables keep their types.
THEOREM FriendsTypes == Spec => []TypeOK
<1>1. Spec => []Types
  BY InitTypes, NextTypes, PTL DEF Spec
<1>2. Types => TypeOK
  BY DEF Types
<1> QED
  BY <1>1, <1>2, PTL

-----------------------------------------------------------------------------
\* The row (u, f) takes another status in a transaction of u or of f about the other only.
RowChange(c, u, f) ==
  \/ /\ Doing(c, "add") /\ th[c].user = u /\ th[c].friend = f
     /\ row[<<u, f>>] = "none" /\ row'[<<u, f>>] = "PENDING"
  \/ /\ Doing(c, "accept") /\ th[c].user = f /\ th[c].friend = u
     /\ row[<<u, f>>] = "PENDING" /\ row'[<<u, f>>] = "ACCEPTED"
     /\ th' = [th EXCEPT ![c].pc = "mine"]
  \/ /\ Doing(c, "reject") /\ th[c].user = f /\ th[c].friend = u
     /\ row[<<u, f>>] = "PENDING" /\ row'[<<u, f>>] = "none"
  \/ /\ Doing(c, "block") /\ th[c].user = u /\ th[c].friend = f
     /\ row'[<<u, f>>] = "BLOCKED"
  \/ /\ Doing(c, "block") /\ th[c].user = f /\ th[c].friend = u
     /\ row'[<<u, f>>] = "none"

\* What any step does to any row.
LEMMA RowChanges ==
  ASSUME Types, [Next]_vars, NEW u \in Users, NEW f \in Users,
         row'[<<u, f>>] # row[<<u, f>>]
  PROVE  \E c \in Consumers : RowChange(c, u, f)
<1>1. row \in [Users \X Users -> Status]
  BY DEF Types, TypeOK, Status
<1>2. PICK c \in Consumers : \/ AddFriend(c) \/ AcceptFriend(c)
                              \/ RejectFriend(c) \/ BlockFriend(c)
  <2>1. row' # row
    OBVIOUS
  <2> QED
    BY <2>1 DEF Next, Continue, vars, Nick, Command, Disconnect, SetUserId, GetFriendIds,
                LoadFriendCache, DbThrows, UpdateMine, UpdateTheirs
<1>3. th[c].user \in Users /\ th[c].friend \in Users
  BY <1>2, ItsTask DEF TaskOK, AddFriend, AcceptFriend, RejectFriend, BlockFriend, Doing, At
<1> DEFINE v == th[c].user
           g == th[c].friend
<1>4. CASE AddFriend(c)
  <2>1. row' = [row EXCEPT ![<<v, g>>] = "PENDING"] /\ row[<<v, g>>] = "none" /\ Doing(c, "add")
    BY <1>4 DEF AddFriend
  <2>2. v = u /\ g = f /\ row'[<<u, f>>] = "PENDING"
    BY <2>1, <1>1, <1>3, RowSet DEF Status
  <2> QED
    BY <2>1, <2>2 DEF RowChange
<1>5. CASE AcceptFriend(c)
  <2>1. /\ row' = [row EXCEPT ![<<g, v>>] = "ACCEPTED"] /\ row[<<g, v>>] = "PENDING"
        /\ Doing(c, "accept") /\ th' = [th EXCEPT ![c].pc = "mine"]
    BY <1>5 DEF AcceptFriend, Goto
  <2>2. v = f /\ g = u /\ row'[<<u, f>>] = "ACCEPTED"
    BY <2>1, <1>1, <1>3, RowSet DEF Status
  <2> QED
    BY <2>1, <2>2 DEF RowChange
<1>6. CASE RejectFriend(c)
  <2>1. /\ row' = [row EXCEPT ![<<g, v>>] = "none"] /\ row[<<g, v>>] = "PENDING"
        /\ Doing(c, "reject")
    BY <1>6 DEF RejectFriend
  <2>2. v = f /\ g = u /\ row'[<<u, f>>] = "none"
    BY <2>1, <1>1, <1>3, RowSet DEF Status
  <2> QED
    BY <2>1, <2>2 DEF RowChange
<1>7. CASE BlockFriend(c)
  <2>1. /\ row' = [row EXCEPT ![<<g, v>>] = "none", ![<<v, g>>] = "BLOCKED"] /\ v # g
        /\ Doing(c, "block")
    BY <1>7 DEF BlockFriend
  <2>2. \/ v = u /\ g = f /\ row'[<<u, f>>] = "BLOCKED"
        \/ v = f /\ g = u /\ row'[<<u, f>>] = "none"
    BY <2>1, <1>1, <1>3, BothRowsSet
  <2> QED
    BY <2>1, <2>2 DEF RowChange
<1> QED
  BY <1>2, <1>4, <1>5, <1>6, <1>7

\* FriendsBlockHolds: only a block by the other lifts a block.
THEOREM FriendsBlockHolds == Spec => BlockHolds
<1> DEFINE Holds == \A u, f \in Users : row[<<u, f>>] = "BLOCKED" =>
       \/ row'[<<u, f>>] = "BLOCKED"
       \/ \E c \in Consumers : Doing(c, "block") /\ th[c].user = f /\ th[c].friend = u
<1>1. Spec => []Types
  BY InitTypes, NextTypes, PTL DEF Spec
<1>2. Types /\ [Next]_vars => [Holds]_vars
  <2> SUFFICES ASSUME Types, [Next]_vars, NEW u \in Users, NEW f \in Users,
                      row[<<u, f>>] = "BLOCKED", row'[<<u, f>>] # "BLOCKED"
               PROVE  \E c \in Consumers : Doing(c, "block") /\ th[c].user = f /\ th[c].friend = u
    OBVIOUS
  <2>1. PICK c \in Consumers : RowChange(c, u, f)
    BY RowChanges
  <2> QED
    BY <2>1 DEF RowChange
<1> QED
  BY <1>1, <1>2, PTL DEF Spec, BlockHolds

-----------------------------------------------------------------------------
\* Without overlap, the consumers and the sessions of the users agree.
SeatsOK == \A u \in Users : seat[u] = "off" <=> home[u] = NoConsumer

\* A user is served by one consumer, which has its session if it still lives;
\* until the cache is loaded, the session is only known.
Serves(c, u) ==
  /\ \A d \in Consumers : th[d].user = u => d = c
  /\ th[c].alive <=> seat[u] # "off"
  /\ th[c].alive => home[u] = c
  /\ (th[c].alive /\ th[c].pc \in {"get_ids", "load"}) => seat[u] = "known"

SessionsOK == SeatsOK /\ \A c \in Consumers : th[c].pc # "idle" => Serves(c, th[c].user)

\* While a block is on its way to the caches, the two are not friends.
BlocksOK == \A c \in Consumers : (th[c].pc \in {"mine", "theirs"} /\ th[c].op = "block") =>
  /\ row[<<th[c].user, th[c].friend>>] \in {"BLOCKED", "none"}
  /\ row[<<th[c].friend, th[c].user>>] # "ACCEPTED"

\* What the table did not have when the ids were read is in the cache already, or
\* on its way there.
LoadsOK == \A c \in Consumers : (th[c].pc = "load" /\ th[c].alive) =>
  \A f \in Users : AreFriends(th[c].user, f) =>
    (f \in th[c].ids \cup cache[th[c].user] \/ Adding(th[c].user, f))

IInv == Types /\ SessionsOK /\ BlocksOK /\ LoadsOK /\ CacheComplete

\* The invariant holds at the start: no session, no row, no task.
LEMMA InitIInv == Init => IInv
<1> SUFFICES ASSUME Init PROVE IInv
    OBVIOUS
<1>1. \A c \in Consumers : th[c].pc = "idle" /\ th[c].op = "none"
  BY DEF Init, Idle
<1>2. \A u \in Users : seat[u] = "off" /\ home[u] = NoConsumer
  BY DEF Init
<1> QED
  BY <1>1, <1>2, InitTypes DEF IInv, SessionsOK, SeatsOK, BlocksOK, LoadsOK, CacheComplete

\* A step of c on its task, that goes on with it or ends it, may mark the session it
\* serves as known or loaded.
LEMMA TaskSessions ==
  ASSUME Types, SessionsOK, NEW c \in Consumers, NEW t, NEW s \in {"known", "on"},
         th[c].pc # "idle", UNCHANGED home, th' = [th EXCEPT ![c] = t],
         \/ seat' = seat
         \/ th[c].alive /\ seat' = [seat EXCEPT ![th[c].user] = s],
         \/ t = Idle
         \/ /\ t.pc # "idle" /\ t.user = th[c].user /\ t.alive = th[c].alive
            /\ (t.alive /\ t.pc \in {"get_ids", "load"}) => seat'[t.user] = "known"
  PROVE  SessionsOK'
<1> DEFINE u == th[c].user
<1>1. th \in [Consumers -> Task] /\ seat \in [Users -> {"off", "named", "known", "on"}]
  BY DEF Types, TypeOK, Task
<1>2. th'[c] = t /\ \A d \in Consumers \ {c} : th'[d] = th[d]
  BY <1>1
<1>3. u \in Users /\ Serves(c, u)
  BY ItsTask DEF SessionsOK, TaskOK
<1>4. \A v \in Users : (seat'[v] = "off" <=> seat[v] = "off") /\ (v # u => seat'[v] = seat[v])
  BY <1>1, <1>3 DEF Serves
<1>5. SeatsOK'
  BY <1>4 DEF SessionsOK, SeatsOK
<1>6. ASSUME t # Idle PROVE Serves(c, u)'
  <2>1. \A d \in Consumers : th'[d].user = u => d = c
    BY <1>2, <1>3 DEF Serves
  <2>2. (t.alive /\ t.pc \in {"get_ids", "load"}) => seat'[u] = "known"
    BY <1>6
  <2>3. t.user = u /\ t.alive = th[c].alive
    BY <1>6
  <2>4. t.alive <=> seat'[u] # "off"
    BY <2>3, <1>3, <1>4 DEF Serves
  <2>5. t.alive => home'[u] = c
    BY <2>3, <1>3 DEF Serves
  <2> HIDE DEF u
  <2>6. /\ \A d \in Consumers : th'[d].user = u' => d = c
        /\ (th'[c].alive /\ th'[c].pc \in {"get_ids", "load"}) => seat'[u'] = "known"
        /\ th'[c].alive <=> seat'[u'] # "off"
        /\ th'[c].alive => home'[u'] = c
    BY <2>1, <2>2, <2>3, <2>4, <2>5, <1>2 DEF u
  <2> QED
    BY <2>6 DEF Serves
<1>7. ASSUME NEW d \in Consumers \ {c}, th'[d].pc # "idle" PROVE Serves(d, th[d].user)'
  <2>1. th'[d] = th[d]
    BY <1>2
  <2>2. th[d].user \in Users /\ Serves(d, th[d].user)
    BY <2>1, <1>7, ItsTask DEF SessionsOK, TaskOK
  <2>3. th[d].user # u
    BY <1>3, <2>2 DEF Serves
  <2>4. \A e \in Consumers : th'[e].user = th[d].user => e = d
    BY <2>2, <2>3, <1>2, FriendsAssumption DEF Serves, Idle
  <2> QED
    BY <2>1, <2>2, <2>3, <2>4, <1>4 DEF Serves
<1> QED
  BY <1>2, <1>5, <1>6, <1>7 DEF SessionsOK, Idle

\* Nick: the new session is the only one its user has on a consumer.
LEMMA NickSessions ==
  ASSUME ~Overlap, Types, SessionsOK, NEW c \in Consumers, NEW u \in Users, Nick(c, u)
  PROVE  SessionsOK'
<1> DEFINE t == [Idle EXCEPT !.pc = "set_user", !.user = u]
<1>1. /\ th \in [Consumers -> Task] /\ seat \in [Users -> {"off", "named", "known", "on"}]
      /\ home \in [Users -> Consumers \cup {NoConsumer}]
  BY DEF Types, TypeOK, Task
<1>2. /\ th' = [th EXCEPT ![c] = t] /\ seat' = [seat EXCEPT ![u] = "named"]
      /\ home' = [home EXCEPT ![u] = c] /\ \A d \in Consumers : th[d].user # u
  BY DEF Nick
<1>3. t.user = u /\ t.pc = "set_user" /\ t.alive = TRUE
  BY DEF Idle
<1> HIDE DEF t
<1>4. /\ th'[c] = t /\ \A d \in Consumers \ {c} : th'[d] = th[d]
      /\ seat'[u] = "named" /\ \A v \in Users \ {u} : seat'[v] = seat[v]
      /\ home'[u] = c /\ \A v \in Users \ {u} : home'[v] = home[v]
  BY <1>1, <1>2
<1>5. SeatsOK'
  BY <1>4, FriendsAssumption DEF SessionsOK, SeatsOK
<1>6. Serves(c, u)'
  BY <1>2, <1>3, <1>4 DEF Serves
<1>7. ASSUME NEW d \in Consumers \ {c}, th'[d].pc # "idle" PROVE Serves(d, th[d].user)'
  <2>1. th[d].user \in Users \ {u} /\ Serves(d, th[d].user)
    BY <1>2, <1>4, <1>7, ItsTask DEF SessionsOK, TaskOK
  <2> QED
    BY <2>1, <1>3, <1>4 DEF Serves
<1> QED
  BY <1>3, <1>4, <1>5, <1>6, <1>7 DEF SessionsOK

\* Command: its user is served by no other consumer, for that would have its session.
LEMMA CommandSessions ==
  ASSUME Types, SessionsOK, NEW c \in Consumers, NEW u \in Users, NEW f \in Users,
         NEW op \in {"add", "accept", "reject", "block"}, Command(c, u, f, op)
  PROVE  SessionsOK'
<1> DEFINE t == [Idle EXCEPT !.pc = "tx", !.op = op, !.user = u, !.friend = f]
<1>1. th \in [Consumers -> Task]
  BY DEF Types, TypeOK, Task
<1>2. /\ th' = [th EXCEPT ![c] = t] /\ UNCHANGED <<seat, home>>
      /\ home[u] = c /\ seat[u] # "off" /\ th[c].pc = "idle"
  BY DEF Command, Found, At
<1>3. t.user = u /\ t.pc = "tx" /\ t.alive = TRUE
  BY DEF Idle
<1> HIDE DEF t
<1>4. th'[c] = t /\ \A d \in Consumers \ {c} : th'[d] = th[d]
  BY <1>1, <1>2
<1>5. \A d \in Consumers : th[d].user # u
  <2> SUFFICES ASSUME NEW d \in Consumers, th[d].user = u PROVE FALSE
    OBVIOUS
  <2>1. th[d].pc # "idle"
    BY ItsTask, FriendsAssumption DEF TaskOK
  <2>2. home[u] = d
    BY <2>1, <1>2 DEF SessionsOK, Serves
  <2> QED
    BY <2>1, <2>2, <1>2
<1>6. SeatsOK'
  BY <1>2 DEF SessionsOK, SeatsOK
<1>7. Serves(c, u)'
  BY <1>2, <1>3, <1>4, <1>5 DEF Serves
<1>8. ASSUME NEW d \in Consumers \ {c}, th'[d].pc # "idle" PROVE Serves(d, th[d].user)'
  <2>1. th[d].user # u /\ Serves(d, th[d].user)
    BY <1>4, <1>5, <1>8 DEF SessionsOK
  <2> QED
    BY <2>1, <1>2, <1>3, <1>4 DEF Serves
<1> QED
  BY <1>3, <1>4, <1>6, <1>7, <1>8 DEF SessionsOK

\* Disconnect: the consumer that serves the user learns nothing, but its session is gone.
LEMMA DisconnectSessions ==
  ASSUME Types, SessionsOK, NEW u \in Users, Disconnect(u)
  PROVE  SessionsOK'
<1>1. /\ th \in [Consumers -> Task] /\ seat \in [Users -> {"off", "named", "known", "on"}]
      /\ home \in [Users -> Consumers \cup {NoConsumer}]
  BY DEF Types, TypeOK, Task
<1>2. /\ seat'[u] = "off" /\ \A v \in Users \ {u} : seat'[v] = seat[v]
      /\ home'[u] = NoConsumer /\ \A v \in Users \ {u} : home'[v] = home[v]
  BY <1>1 DEF Disconnect
<1>3. \A c \in Consumers : /\ th'[c].pc = th[c].pc /\ th'[c].user = th[c].user
                           /\ th[c].user = u => th'[c].alive = FALSE
                           /\ th[c].user # u => th'[c] = th[c]
  BY <1>1 DEF Disconnect, Task
<1>4. SeatsOK'
  BY <1>2 DEF SessionsOK, SeatsOK
<1>5. ASSUME NEW c \in Consumers, th'[c].pc # "idle" PROVE Serves(c, th[c].user)'
  <2>1. th[c].user \in Users /\ Serves(c, th[c].user)
    BY <1>3, <1>5, ItsTask DEF SessionsOK, TaskOK
  <2>2. CASE th[c].user = u
    BY <2>1, <2>2, <1>2, <1>3 DEF Serves
  <2>3. CASE th[c].user # u
    BY <2>1, <2>3, <1>2, <1>3 DEF Serves
  <2> QED
    BY <2>2, <2>3
<1> QED
  BY <1>4, <1>5 DEF SessionsOK

\* Whatever Nick, the commands and the disconnections interleave, a user is served by at
\* most one consumer, the one of his session if he has one.
LEMMA NextSessions == ~Overlap /\ Types /\ SessionsOK /\ [Next]_vars => SessionsOK'
<1> SUFFICES ASSUME ~Overlap, Types, SessionsOK, [Next]_vars PROVE SessionsOK'
    OBVIOUS
<1>1. ASSUME NEW c \in Consumers, NEW u \in Users, Nick(c, u) PROVE SessionsOK'
  BY <1>1, NickSessions
<1>2. ASSUME NEW c \in Consumers, NEW u \in Users, NEW f \in Users,
             NEW op \in {"add", "accept", "reject", "block"}, Command(c, u, f, op)
      PROVE  SessionsOK'
  BY <1>2, CommandSessions
<1>3. ASSUME NEW u \in Users, Disconnect(u) PROVE SessionsOK'
  BY <1>3, DisconnectSessions
<1>4. ASSUME NEW c \in Consumers, Continue(c) PROVE SessionsOK'
  <2>1. th[c] \in Task /\ TaskOK(th[c]) /\ th[c].pc # "idle"
    BY <1>4, ItsTask DEF Continue, SetUserId, GetFriendIds, LoadFriendCache, AddFriend,
         AcceptFriend, RejectFriend, BlockFriend, DbThrows, UpdateMine, UpdateTheirs, Doing, At
  <2>2. th[c].user \in Users /\ Serves(c, th[c].user) /\ UNCHANGED home
    BY <1>4, <2>1 DEF TaskOK, SessionsOK, Continue, SetUserId, GetFriendIds, LoadFriendCache,
         AddFriend, AcceptFriend, RejectFriend, BlockFriend, DbThrows, UpdateMine, UpdateTheirs
  <2>3. seat \in [Users -> {"off", "named", "known", "on"}]
    BY DEF Types, TypeOK
  <2>4. CASE SetUserId(c)
    <3> DEFINE t == [th[c] EXCEPT !.pc = "get_ids"]
    <3>1. th' = [th EXCEPT ![c] = t]
      BY <2>4 DEF SetUserId, Goto
    <3>2. t.pc = "get_ids" /\ t.user = th[c].user /\ t.alive = th[c].alive
      BY <2>1 DEF Task
    <3>3. \/ ~th[c].alive /\ seat' = seat
          \/ th[c].alive /\ seat' = [seat EXCEPT ![th[c].user] = "known"]
      BY <2>4 DEF SetUserId
    <3>4. th[c].alive => seat'[th[c].user] = "known"
      BY <3>3, <2>2, <2>3
    <3> HIDE DEF t
    <3> QED
      BY <2>1, <2>2, <3>1, <3>2, <3>3, <3>4, TaskSessions
  <2>5. CASE LoadFriendCache(c)
    <3>1. th' = [th EXCEPT ![c] = Idle]
      BY <2>5 DEF LoadFriendCache, Finish
    <3>2. \/ seat' = seat
          \/ th[c].alive /\ seat' = [seat EXCEPT ![th[c].user] = "on"]
      BY <2>2, <2>3, <2>5 DEF LoadFriendCache
    <3> QED
      BY <2>1, <2>2, <3>1, <3>2, TaskSessions
  <2>6. CASE GetFriendIds(c)
    <3> DEFINE F == {f \in Users : AreFriends(th[c].user, f)}
               t == [th[c] EXCEPT !.pc = "load", !.ids = F]
    <3>1. th' = [th EXCEPT ![c] = t] \/ th' = [th EXCEPT ![c] = Idle]
      BY <2>6 DEF GetFriendIds, Finish
    <3> HIDE DEF F
    <3>2. t.pc = "load" /\ t.user = th[c].user /\ t.alive = th[c].alive
      BY <2>1 DEF Task
    <3>3. seat' = seat /\ (th[c].alive => seat[th[c].user] = "known")
      BY <2>2, <2>6 DEF GetFriendIds, At, Serves
    <3> HIDE DEF t
    <3> QED
      BY <2>1, <2>2, <3>1, <3>2, <3>3, TaskSessions
  <2>7. CASE \/ AddFriend(c) \/ AcceptFriend(c) \/ RejectFriend(c) \/ BlockFriend(c)
             \/ DbThrows(c) \/ UpdateMine(c) \/ UpdateTheirs(c)
    <3>1. seat' = seat
      BY <2>7 DEF AddFriend, AcceptFriend, RejectFriend, BlockFriend, DbThrows,
                  UpdateMine, UpdateTheirs
    <3>2. PICK t \in {Idle, [th[c] EXCEPT !.pc = "mine"], [th[c] EXCEPT !.pc = "theirs"]} :
            th' = [th EXCEPT ![c] = t]
      BY <2>7 DEF AddFriend, AcceptFriend, RejectFriend, BlockFriend, DbThrows,
                  UpdateMine, UpdateTheirs, Goto, Finish
    <3>3. t = Idle \/ (t.pc \in {"mine", "theirs"} /\ t.user = th[c].user /\ t.alive = th[c].alive)
      BY <2>1, <3>2 DEF Task
    <3> QED
      BY <2>1, <2>2, <3>1, <3>2, <3>3, TaskSessions
  <2> QED
    BY <1>4, <2>4, <2>5, <2>6, <2>7 DEF Continue
<1>5. CASE UNCHANGED vars
  BY <1>5 DEF vars, SessionsOK, SeatsOK, Serves
<1> QED
  BY <1>1, <1>2, <1>3, <1>4, <1>5 DEF Next

-----------------------------------------------------------------------------
\* How a step moves the task of a consumer that is, after it, at the caches.
LEMMA AtCaches ==
  ASSUME Types, [Next]_vars, NEW c \in Consumers, th'[c].pc \in {"mine", "theirs"}
  PROVE  /\ th[c].user \in Users /\ th[c].friend \in Users
         /\ th'[c].op = th[c].op /\ th'[c].user = th[c].user /\ th'[c].friend = th[c].friend
         /\ th[c].pc \in {"mine", "theirs"} \/ AcceptFriend(c) \/ BlockFriend(c)
<1>1. th \in [Consumers -> Task]
  BY DEF Types, TypeOK, Task
<1>2. /\ th'[c].op = th[c].op /\ th'[c].user = th[c].user /\ th'[c].friend = th[c].friend
      /\ th[c].pc \in {"mine", "theirs"} \/ AcceptFriend(c) \/ BlockFriend(c)
  <2>1. ASSUME NEW d \in Consumers, NEW u \in Users, Nick(d, u) PROVE th'[c] = th[c]
    BY <2>1, <1>1 DEF Nick, Idle
  <2>2. ASSUME NEW d \in Consumers, NEW u \in Users, NEW f \in Users,
               NEW op \in {"add", "accept", "reject", "block"}, Command(d, u, f, op)
        PROVE  th'[c] = th[c]
    BY <2>2, <1>1 DEF Command, Idle
  <2>3. ASSUME NEW u \in Users, Disconnect(u)
        PROVE  /\ th'[c].op = th[c].op /\ th'[c].user = th[c].user
               /\ th'[c].friend = th[c].friend /\ th'[c].pc = th[c].pc
    BY <2>3, <1>1 DEF Disconnect, Task
  <2>4. ASSUME NEW d \in Consumers, Continue(d), d # c PROVE th'[c] = th[c]
    BY <2>4, <1>1 DEF Continue, SetUserId, GetFriendIds, LoadFriendCache, AddFriend,
       AcceptFriend, RejectFriend, BlockFriend, DbThrows, UpdateMine, UpdateTheirs, Goto, Finish
  <2>5. ASSUME Continue(c)
        PROVE  /\ AcceptFriend(c) \/ BlockFriend(c) \/ UpdateMine(c)
               /\ \E pc \in {"mine", "theirs"} : th' = [th EXCEPT ![c].pc = pc]
    <3>1. th' # [th EXCEPT ![c] = Idle] /\ th' # [th EXCEPT ![c].pc = "get_ids"]
      BY <1>1 DEF Idle, Task
    <3>2. ~GetFriendIds(c)
      BY <1>1, <3>1 DEF GetFriendIds, Finish, Task
    <3> QED
      BY <2>5, <3>1, <3>2 DEF Continue, SetUserId, LoadFriendCache, AddFriend,
         AcceptFriend, RejectFriend, BlockFriend, DbThrows, UpdateMine, UpdateTheirs, Goto, Finish
  <2>6. CASE Continue(c)
    BY <2>5, <2>6, <1>1 DEF Task, UpdateMine, At
  <2>7. CASE UNCHANGED vars
    BY <2>7 DEF vars
  <2> QED
    BY <2>1, <2>2, <2>3, <2>4, <2>6, <2>7 DEF Next
<1>3. th[c].pc \in {"tx", "mine", "theirs"}
  BY <1>2 DEF AcceptFriend, BlockFriend, Doing, At
<1> QED
  BY <1>2, <1>3, ItsTask DEF TaskOK

\* While a block is on its way to the caches, only the two users' own commands could
\* touch their rows, and the one who blocks has no other command under way.
LEMMA NextBlocks == ~Overlap /\ Types /\ SessionsOK /\ BlocksOK /\ [Next]_vars => BlocksOK'
<1> SUFFICES ASSUME Types, SessionsOK, BlocksOK, [Next]_vars,
                    NEW c \in Consumers, th'[c].pc \in {"mine", "theirs"}, th'[c].op = "block"
             PROVE  /\ row'[<<th'[c].user, th'[c].friend>>] \in {"BLOCKED", "none"}
                    /\ row'[<<th'[c].friend, th'[c].user>>] # "ACCEPTED"
    BY DEF BlocksOK
<1> DEFINE u == th[c].user
           f == th[c].friend
<1>1. /\ u \in Users /\ f \in Users /\ th'[c].user = u /\ th'[c].friend = f
      /\ th[c].op = "block"
      /\ th[c].pc \in {"mine", "theirs"} \/ AcceptFriend(c) \/ BlockFriend(c)
  BY AtCaches
<1>2. CASE th[c].pc \in {"mine", "theirs"}
  <2>1. row[<<u, f>>] \in {"BLOCKED", "none"} /\ row[<<f, u>>] # "ACCEPTED"
    BY <1>1, <1>2 DEF BlocksOK
  <2>2. ASSUME NEW d \in Consumers, th[d].user = u PROVE ~At(d, "tx")
    BY <1>2, <2>2 DEF SessionsOK, Serves, At
  <2>3. row'[<<u, f>>] \in {"BLOCKED", "none"}
    BY <1>1, <2>1, <2>2, RowChanges DEF RowChange, Doing
  <2>4. row'[<<f, u>>] # "ACCEPTED"
    BY <1>1, <2>1, <2>2, RowChanges DEF RowChange, Doing
  <2> QED
    BY <1>1, <2>3, <2>4
<1>3. CASE BlockFriend(c)
  <2>1. th' # [th EXCEPT ![c] = Idle]
    BY DEF Idle, Types, TypeOK
  <2>2. row' = [row EXCEPT ![<<f, u>>] = "none", ![<<u, f>>] = "BLOCKED"] /\ u # f
    BY <1>3, <2>1 DEF BlockFriend, Finish
  <2>3. row'[<<f, u>>] = "none" /\ row'[<<u, f>>] = "BLOCKED"
    BY <1>1, <2>2, BothRowsSet DEF Types, TypeOK, Status
  <2> QED
    BY <1>1, <2>3
<1>4. ~AcceptFriend(c)
  BY <1>1 DEF AcceptFriend, Doing
<1> QED
  BY <1>1, <1>2, <1>3, <1>4

\* A new friendship has its acceptance at the caches of both users.
LEMMA NewFriends ==
  ASSUME Types, [Next]_vars, NEW u \in Users, NEW f \in Users,
         AreFriends(u, f)', ~AreFriends(u, f)
  PROVE  Adding(u, f)'
<1>1. PICK d \in Consumers : /\ Doing(d, "accept") /\ {th[d].user, th[d].friend} = {u, f}
                            /\ th' = [th EXCEPT ![d].pc = "mine"]
  <2>1. \/ row'[<<u, f>>] = "ACCEPTED" /\ row[<<u, f>>] # "ACCEPTED"
        \/ row'[<<f, u>>] = "ACCEPTED" /\ row[<<f, u>>] # "ACCEPTED"
    BY DEF AreFriends
  <2>2. CASE row'[<<u, f>>] = "ACCEPTED" /\ row[<<u, f>>] # "ACCEPTED"
    <3>1. PICK d \in Consumers : RowChange(d, u, f)
      BY <2>2, RowChanges
    <3> QED
      BY <2>2, <3>1 DEF RowChange
  <2>3. CASE row'[<<f, u>>] = "ACCEPTED" /\ row[<<f, u>>] # "ACCEPTED"
    <3>1. PICK d \in Consumers : RowChange(d, f, u)
      BY <2>3, RowChanges
    <3> QED
      BY <2>3, <3>1 DEF RowChange
  <2> QED
    BY <2>1, <2>2, <2>3
<1>2. /\ th'[d].pc = "mine" /\ th'[d].op = "accept"
      /\ th'[d].user = th[d].user /\ th'[d].friend = th[d].friend
  BY <1>1 DEF Types, TypeOK, Doing
<1> QED
  BY <1>1, <1>2 DEF Adding, At

\* What consumer c has still to do to the cache of u about f.
Owes(c, u, f) ==
  \/ th[c].pc = "mine" /\ {th[c].user, th[c].friend} = {u, f}
  \/ th[c].pc = "theirs" /\ th[c].friend = u /\ th[c].user = f

\* A consumer's update of a cache, in either order: of its own user, then the other's.
Updates(c, u, f) == \/ UpdateMine(c) /\ th[c].user = u /\ th[c].friend = f
                    \/ UpdateTheirs(c) /\ th[c].friend = u /\ th[c].user = f

\* What a consumer owes to a cache it owes until it does it.
LEMMA OwedUntilDone ==
  ASSUME Types, [Next]_vars, NEW u \in Users, NEW f \in Users, NEW c \in Consumers,
         Owes(c, u, f), ~Updates(c, u, f)
  PROVE  Owes(c, u, f)' /\ th'[c].op = th[c].op
<1>1. th \in [Consumers -> Task] /\ th[c] \in Task /\ TaskOK(th[c])
  BY ItsTask DEF Types, TypeOK, Task
<1>2. \/ /\ th'[c].pc = th[c].pc /\ th'[c].op = th[c].op
         /\ th'[c].user = th[c].user /\ th'[c].friend = th[c].friend
      \/ UpdateMine(c) \/ UpdateTheirs(c)
  <2>1. ASSUME NEW d \in Consumers, NEW v \in Users, Nick(d, v) PROVE th'[c] = th[c]
    BY <2>1, <1>1 DEF Nick, At, Owes
  <2>2. ASSUME NEW d \in Consumers, NEW v \in Users, NEW g \in Users,
               NEW op \in {"add", "accept", "reject", "block"}, Command(d, v, g, op)
        PROVE  th'[c] = th[c]
    BY <2>2, <1>1 DEF Command, At, Owes
  <2>3. ASSUME NEW v \in Users, Disconnect(v)
        PROVE  /\ th'[c].op = th[c].op /\ th'[c].user = th[c].user
               /\ th'[c].friend = th[c].friend /\ th'[c].pc = th[c].pc
    BY <2>3, <1>1 DEF Disconnect, Task
  <2>4. ASSUME NEW d \in Consumers, Continue(d), d # c PROVE th'[c] = th[c]
    BY <2>4, <1>1 DEF Continue, SetUserId, GetFriendIds, LoadFriendCache, AddFriend,
       AcceptFriend, RejectFriend, BlockFriend, DbThrows, UpdateMine, UpdateTheirs, Goto, Finish
  <2>5. ASSUME Continue(c) PROVE UpdateMine(c) \/ UpdateTheirs(c)
    BY <2>5 DEF Continue, Owes, SetUserId, GetFriendIds, LoadFriendCache, AddFriend,
       AcceptFriend, RejectFriend, BlockFriend, DbThrows, Doing, At
  <2>6. CASE UNCHANGED vars
    BY <2>6 DEF vars
  <2> QED
    BY <2>1, <2>2, <2>3, <2>4, <2>5, <2>6 DEF Next
<1>3. CASE UpdateMine(c)
  <2>1. th[c].pc = "mine" /\ th'[c] = [th[c] EXCEPT !.pc = "theirs"]
    BY <1>1, <1>3 DEF UpdateMine, At, Goto
  <2>2. th[c].user = f /\ th[c].friend = u
    BY <1>3, <2>1 DEF Updates, Owes
  <2> QED
    BY <1>1, <2>1, <2>2 DEF Owes, Task
<1>4. ~UpdateTheirs(c)
  BY DEF UpdateTheirs, At, Updates, Owes
<1> QED
  BY <1>2, <1>3, <1>4 DEF Owes

\* Only a new session, the end of one, or a block between the two takes a friend out
\* of a cache.
LEMMA LeavesCache ==
  ASSUME Types, [Next]_vars, NEW u \in Users, NEW f \in Users, Found(u), seat'[u] # "off",
         f \in cache[u], f \notin cache'[u]
  PROVE  \E c \in Consumers : Updates(c, u, f) /\ th[c].op = "block"
<1>1. cache \in [Users -> SUBSET Users] /\ seat \in [Users -> {"off", "named", "known", "on"}]
  BY DEF Types, TypeOK
<1>2. ASSUME NEW c \in Consumers, NEW v \in Users, Nick(c, v) PROVE FALSE
  <2>1. v # u
    BY <1>2 DEF Nick, Found
  <2> QED
    BY <2>1, <1>1, <1>2 DEF Nick
<1>3. ASSUME NEW v \in Users, Disconnect(v) PROVE FALSE
  <2>1. v # u
    BY <1>1, <1>3 DEF Disconnect
  <2> QED
    BY <2>1, <1>1, <1>3 DEF Disconnect
<1>4. PICK c \in Consumers : LoadFriendCache(c) \/ UpdateMine(c) \/ UpdateTheirs(c)
  <2>1. cache' # cache
    OBVIOUS
  <2> QED
    BY <2>1, <1>2, <1>3 DEF Next, vars, Continue, Command, SetUserId, GetFriendIds, AddFriend,
       AcceptFriend, RejectFriend, BlockFriend, DbThrows
<1>5. th[c].user \in Users /\ (th[c].pc # "load" => th[c].friend \in Users /\ th[c].op \in {"accept", "block"})
  BY <1>4, ItsTask DEF TaskOK, LoadFriendCache, UpdateMine, UpdateTheirs, At
<1>6. ~LoadFriendCache(c)
  BY <1>1, <1>5 DEF LoadFriendCache
<1>7. CASE UpdateMine(c)
  BY <1>1, <1>5, <1>7 DEF UpdateMine, UpdateCache, At, Updates
<1>8. CASE UpdateTheirs(c)
  BY <1>1, <1>5, <1>8 DEF UpdateTheirs, UpdateCache, At, Updates
<1> QED
  BY <1>4, <1>6, <1>7, <1>8

\* A friend who is in the cache, or on the way there, still is, as long as they are friends
\* and the session lives.
LEMMA Kept ==
  ASSUME Types, BlocksOK, [Next]_vars, NEW u \in Users, NEW f \in Users,
         Found(u), seat'[u] # "off", AreFriends(u, f)',
         AreFriends(u, f) => f \in cache[u] \/ Adding(u, f)
  PROVE  f \in cache'[u] \/ Adding(u, f)'
<1>1. CASE ~AreFriends(u, f)
  BY <1>1, NewFriends
<1>2. CASE f \in cache[u]
  <2> SUFFICES ASSUME f \notin cache'[u] PROVE FALSE
    OBVIOUS
  <2>1. PICK c \in Consumers : Updates(c, u, f) /\ th[c].op = "block"
    BY <1>2, LeavesCache
  <2>2. row' = row /\ th[c].pc \in {"mine", "theirs"}
    BY <2>1 DEF Updates, UpdateMine, UpdateTheirs, At
  <2>3. row[<<u, f>>] # "ACCEPTED" /\ row[<<f, u>>] # "ACCEPTED"
    BY <2>1, <2>2 DEF BlocksOK, Updates
  <2> QED
    BY <2>2, <2>3 DEF AreFriends
<1>3. CASE Adding(u, f)
  <2>1. PICK c \in Consumers : th[c].op = "accept" /\ Owes(c, u, f)
    BY <1>3 DEF Adding, At, Owes
  <2>2. CASE Updates(c, u, f)
    <3>1. UpdateCache(c, u, f)
      BY <2>2 DEF Updates, UpdateMine, UpdateTheirs
    <3>2. cache' = [cache EXCEPT ![u] = cache[u] \cup {f}]
      BY <2>1, <3>1 DEF UpdateCache
    <3>3. cache \in [Users -> SUBSET Users]
      BY DEF Types, TypeOK
    <3>4. f \in cache'[u]
      BY <3>2, <3>3
    <3> QED
      BY <3>4
  <2>3. CASE ~Updates(c, u, f)
    <3>1. Owes(c, u, f)' /\ th'[c].op = "accept"
      BY <2>1, <2>3, OwedUntilDone
    <3> QED
      BY <3>1 DEF Adding, At, Owes
  <2> QED
    BY <2>2, <2>3
<1> QED
  BY <1>1, <1>2, <1>3

\* A consumer that has ids to load has them since before the step, or has read them in it.
LEMMA AtLoad ==
  ASSUME Types, [Next]_vars, NEW c \in Consumers, th'[c].pc = "load", th'[c].alive
  PROVE  /\ th[c].user \in Users /\ th'[c].user = th[c].user
         /\ \/ th'[c] = th[c]
            \/ row' = row /\ th'[c].ids = {f \in Users : AreFriends(th[c].user, f)}
<1>1. th \in [Consumers -> Task]
  BY DEF Types, TypeOK, Task
<1>2. /\ th'[c].user = th[c].user
      /\ \/ th'[c] = th[c]
         \/ /\ row' = row /\ th'[c].ids = {f \in Users : AreFriends(th[c].user, f)}
            /\ th[c].pc = "get_ids"
  <2>1. ASSUME NEW d \in Consumers, NEW u \in Users, Nick(d, u) PROVE th'[c] = th[c]
    BY <2>1, <1>1 DEF Nick, Idle
  <2>2. ASSUME NEW d \in Consumers, NEW u \in Users, NEW f \in Users,
               NEW op \in {"add", "accept", "reject", "block"}, Command(d, u, f, op)
        PROVE  th'[c] = th[c]
    BY <2>2, <1>1 DEF Command, Idle
  <2>3. ASSUME NEW u \in Users, Disconnect(u) PROVE th'[c] = th[c]
    BY <2>3, <1>1 DEF Disconnect, Task
  <2>4. ASSUME NEW d \in Consumers, Continue(d), d # c PROVE th'[c] = th[c]
    BY <2>4, <1>1 DEF Continue, SetUserId, GetFriendIds, LoadFriendCache, AddFriend,
       AcceptFriend, RejectFriend, BlockFriend, DbThrows, UpdateMine, UpdateTheirs, Goto, Finish
  <2>5. ASSUME Continue(c)
        PROVE  /\ row' = row /\ th[c].pc = "get_ids" /\ th'[c].user = th[c].user
               /\ th'[c].ids = {f \in Users : AreFriends(th[c].user, f)}
    <3>1. /\ th' # [th EXCEPT ![c] = Idle]
          /\ \A pc \in {"get_ids", "mine", "theirs"} : th' # [th EXCEPT ![c].pc = pc]
      BY <1>1 DEF Idle, Task
    <3>2. GetFriendIds(c)
      BY <2>5, <3>1 DEF Continue, SetUserId, LoadFriendCache, AddFriend,
         AcceptFriend, RejectFriend, BlockFriend, DbThrows, UpdateMine, UpdateTheirs, Goto, Finish
    <3> DEFINE F == {f \in Users : AreFriends(th[c].user, f)}
    <3>3. /\ th' = [th EXCEPT ![c].pc = "load", ![c].ids = F]
          /\ row' = row /\ th[c].pc = "get_ids"
      BY <3>1, <3>2 DEF GetFriendIds, At, Finish
    <3> HIDE DEF F
    <3>4. th'[c].ids = F /\ th'[c].user = th[c].user
      BY <3>3, <1>1 DEF Task
    <3> QED
      BY <3>3, <3>4 DEF F
  <2>6. CASE UNCHANGED vars
    BY <2>6 DEF vars
  <2> QED
    BY <2>1, <2>2, <2>3, <2>4, <2>5, <2>6 DEF Next
<1>3. th[c].pc \in {"load", "get_ids"}
  BY <1>2
<1> QED
  BY <1>2, <1>3, ItsTask DEF TaskOK

\* Between GetFriendIds and LoadFriendCache the cache of the new session collects what is
\* accepted meanwhile, and no block takes a friend out of it.
LEMMA NextLoads == IInv /\ SessionsOK' /\ [Next]_vars => LoadsOK'
<1> SUFFICES ASSUME IInv, SessionsOK', [Next]_vars, NEW c \in Consumers, th'[c].pc = "load",
                    th'[c].alive, NEW u \in Users, th'[c].user = u,
                    NEW f \in Users, AreFriends(u, f)'
             PROVE  f \in th'[c].ids \/ f \in cache'[u] \/ Adding(u, f)'
  <2> SUFFICES ASSUME IInv, [Next]_vars, NEW c \in Consumers, th'[c].pc = "load", th'[c].alive
               PROVE  th'[c].user \in Users
    BY SMTT(30) DEF LoadsOK, AreFriends, Adding
  <2> QED
    BY AtLoad DEF IInv
<1>1. Types /\ BlocksOK
  BY DEF IInv
<1>2. /\ th[c].user = u
      /\ \/ th'[c] = th[c]
         \/ row' = row /\ th'[c].ids = {g \in Users : AreFriends(u, g)}
  BY <1>1, AtLoad
<1>3. CASE th'[c] = th[c]
  <2>1. AreFriends(u, f) => f \in th[c].ids \/ f \in cache[u] \/ Adding(u, f)
    BY <1>2, <1>3 DEF IInv, LoadsOK
  <2>2. Found(u)
    BY <1>2, <1>3 DEF IInv, SessionsOK, Serves, Found
  <2>3. seat'[u] # "off"
    BY DEF SessionsOK, Serves
  <2> QED
    BY <1>1, <1>3, <2>1, <2>2, <2>3, Kept
<1>4. CASE row' = row /\ th'[c].ids = {g \in Users : AreFriends(u, g)}
  BY <1>4 DEF AreFriends
<1> QED
  BY <1>2, <1>3, <1>4

\* Only LoadFriendCache marks a session as loaded.
LEMMA Loaded ==
  ASSUME Types, [Next]_vars, NEW u \in Users, seat[u] # "on", seat'[u] = "on"
  PROVE  \E c \in Consumers : LoadFriendCache(c) /\ th[c].user = u /\ th[c].alive
<1>1. seat \in [Users -> {"off", "named", "known", "on"}]
  BY DEF Types, TypeOK
<1>2. ASSUME NEW c \in Consumers, NEW v \in Users, Nick(c, v) PROVE FALSE
  BY <1>1, <1>2 DEF Nick
<1>3. ASSUME NEW v \in Users, Disconnect(v) PROVE FALSE
  BY <1>1, <1>3 DEF Disconnect
<1>4. PICK c \in Consumers : SetUserId(c) \/ LoadFriendCache(c)
  <2>1. seat' # seat
    OBVIOUS
  <2> QED
    BY <2>1, <1>2, <1>3 DEF Next, vars, Continue, Command, GetFriendIds, AddFriend,
       AcceptFriend, RejectFriend, BlockFriend, DbThrows, UpdateMine, UpdateTheirs
<1>5. th[c].user \in Users
  BY <1>4, ItsTask DEF TaskOK, SetUserId, LoadFriendCache, At
<1>6. ~SetUserId(c)
  BY <1>1, <1>5 DEF SetUserId
<1>7. th[c].user = u /\ th[c].alive
  BY <1>1, <1>4, <1>5, <1>6 DEF LoadFriendCache
<1> QED
  BY <1>4, <1>6, <1>7

\* A step keeps the loaded caches complete, and LoadFriendCache makes one so.
LEMMA NextComplete == IInv /\ [Next]_vars => CacheComplete'
<1> SUFFICES ASSUME IInv, [Next]_vars, NEW u \in Users, NEW f \in Users,
                    seat'[u] = "on", AreFriends(u, f)'
             PROVE  f \in cache'[u] \/ Adding(u, f)'
    BY DEF CacheComplete
<1>1. Types /\ BlocksOK /\ seat'[u] # "off"
  BY DEF IInv
<1>2. CASE seat[u] = "on"
  <2>1. AreFriends(u, f) => f \in cache[u] \/ Adding(u, f)
    BY <1>2 DEF IInv, CacheComplete
  <2> QED
    BY <1>1, <1>2, <2>1, Kept DEF Found
<1>3. CASE seat[u] # "on"
  <2>1. PICK c \in Consumers : LoadFriendCache(c) /\ th[c].user = u /\ th[c].alive
    BY <1>1, <1>3, Loaded
  <2>2. row' = row /\ th[c].pc = "load"
    BY <2>1 DEF LoadFriendCache, At
  <2>3. Found(u)
    BY <2>1, <1>3 DEF LoadFriendCache
  <2>4. f \in th[c].ids \cup cache[u] \/ Adding(u, f)
    BY <2>1, <2>2 DEF IInv, LoadsOK, AreFriends
  <2>5. th[c].ids \subseteq cache'[u]
    BY <2>1, <2>3, <1>1 DEF LoadFriendCache, Types, TypeOK
  <2> QED
    BY <1>1, <2>3, <2>4, <2>5, Kept
<1> QED
  BY <1>2, <1>3

\* FriendsComplete: no friend is missing from a loaded cache, except while the one who
\* accepted the request is on the way to put it there.
THEOREM FriendsComplete == ASSUME ~Overlap PROVE Spec => []CacheComplete
<1>1. IInv /\ [Next]_vars => IInv'
  <2> SUFFICES ASSUME IInv, [Next]_vars PROVE IInv'
    OBVIOUS
  <2>1. Types' /\ SessionsOK' /\ BlocksOK'
    BY NextTypes, NextSessions, NextBlocks DEF IInv
  <2>2. LoadsOK' /\ CacheComplete'
    BY <2>1, NextLoads, NextComplete
  <2> QED
    BY <2>1, <2>2 DEF IInv
<1>2. IInv => CacheComplete
  BY DEF IInv
<1> QED
  BY <1>1, <1>2, InitIInv, PTL DEF Spec
=============================================================================
