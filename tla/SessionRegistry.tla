-------------------------- MODULE SessionRegistry --------------------------
(***************************************************************************)
(* SessionManager's indexes and the steps of the shard consumers on them.  *)
(* Every SessionManager method runs under lock_ and is one step here; a    *)
(* handler of Consumer is a sequence of such steps, between which other    *)
(* consumers and the network workers (Create, Destroy) run.                *)
(***************************************************************************)
EXTENDS Naturals, FiniteSets

CONSTANTS
  Slots,     \* the entries of the session pool
  MaxId,     \* bound: at most MaxId sessions are ever created
  NShards,   \* the number of shard queues, each with one consumer
  Names,     \* the valid nicknames
  UserIds,   \* bound: the user ids the database can hand out
  IdSpace,   \* the session ids that differ on the wire: 2^16
  NoName, NoSlot,
  Lossy      \* TRUE: a Send may find the send buffer full and drop its packet

ASSUME RegistryAssumption ==
  /\ MaxId \in Nat
  /\ NShards \in Nat \ {0} /\ IdSpace \in Nat \ {0}
  /\ UserIds \subseteq Nat \ {0}
  /\ NoName \notin Names
  /\ NoSlot \notin Slots
  /\ Lossy \in BOOLEAN

NoUser == 0
Ids    == 1..MaxId
Shards == 0..(NShards - 1)

ShardOf(sid) == sid % NShards

VARIABLES
  free,      \* the pool's free slots (a stack in the code: any order here)
  slot,      \* the Session objects, which keep their fields when freed
  byId, byName, byUserId,   \* the three indexes; NoSlot or 0 when absent
  nextId,    \* the id of the next session
  users,     \* the users table: the id registered for a name, or NoUser
  known,     \* known[s]: the <<session, name>> lines the client of s received
  w          \* w[c]: what consumer c is doing

vars == <<free, slot, byId, byName, byUserId, nextId, users, known, w>>

At(pc, s, n, u) == [pc |-> pc, sid |-> s, nm |-> n, uid |-> u]
Idle == At("idle", 0, NoName, NoUser)

Init == /\ free = Slots
        /\ slot = [i \in Slots |-> [sid |-> 0, name |-> NoName, userId |-> NoUser]]
        /\ byId = [s \in Ids |-> NoSlot]
        /\ byName = [n \in Names |-> 0]
        /\ byUserId = [u \in UserIds |-> 0]
        /\ nextId = 1
        /\ users = [n \in Names |-> NoUser]
        /\ known = [s \in Ids |-> {}]
        /\ w = [c \in Shards |-> Idle]

-----------------------------------------------------------------------------
\* Reads of the indexes, each under a shared lock.

Live(s)  == byId[s] # NoSlot
Named(s) == Live(s) /\ slot[byId[s]].name # NoName       \* IsNamed
UserOf(s) == IF Live(s) THEN slot[byId[s]].userId ELSE NoUser  \* GetUserId
NamedSessions == {s \in Ids : Named(s)}
Line(s) == <<s, slot[byId[s]].name>>    \* "NICK <id> <name>"

\* Which of the packets sent to several sessions (or of several packets to one)
\* find room in the send buffer.
Delivered(S) == IF Lossy THEN SUBSET S ELSE {S}

\* The header of a chat line has 16 bits for the id of the speaker.
WireId(s) == s % IdSpace

NameMapTruncated(r) == {<<WireId(l[1]), l[2]>> : l \in known[r]}

\* The name map of the client of r: it takes a NICK line whose id parses as 16 bits.
NameMap(r) == {l \in known[r] : l[1] < IdSpace}

\* The names under which the client of r shows a chat line of s; with none, and an id
\* other than 0, it shows the number.
ShownAs(r, s) == {l[2] : l \in {m \in NameMap(r) : m[1] = WireId(s)}}

Erase(index, key) ==
  IF key \in DOMAIN index THEN [index EXCEPT ![key] = 0] ELSE index

Goto(c, pc) == w' = [w EXCEPT ![c].pc = pc]
Finish(c)   == w' = [w EXCEPT ![c] = Idle]

QueuedAnyShard(c) == 1..(nextId - 1)

\* A message of any session ever created may still sit in its shard's queue,
\* also when the session is gone.
Queued(c) == {s \in 1..(nextId - 1) : ShardOf(s) = c}

-----------------------------------------------------------------------------
\* The network workers.

InitKeepsName(i) ==
  slot' = [slot EXCEPT ![i] = [@ EXCEPT !.sid = nextId]]

InitAfterIncrement(i) ==
  slot' = [slot EXCEPT ![i] = [sid |-> nextId + 1, name |-> NoName, userId |-> NoUser]]

\* Session::Init resets every field of the reused object.
InitSlot(i) ==
  slot' = [slot EXCEPT ![i] = [sid |-> nextId, name |-> NoName, userId |-> NoUser]]

AllocWithoutPop(i) == i \in free /\ UNCHANGED free

\* ObjectPool::Alloc; with no free slot, Create returns nullptr and changes nothing.
Alloc(i) == i \in free /\ free' = free \ {i}

Create ==
  /\ nextId <= MaxId
  /\ \E i \in Slots : /\ Alloc(i)
                      /\ InitSlot(i)
                      /\ byId' = [byId EXCEPT ![nextId] = i]
  /\ nextId' = nextId + 1
  /\ UNCHANGED <<byName, byUserId, users, known, w>>

Unindex(i) ==
  /\ byId' = [byId EXCEPT ![slot[i].sid] = NoSlot]
  /\ byName' = Erase(byName, slot[i].name)
  /\ byUserId' = Erase(byUserId, slot[i].userId)

\* The last reference to a closing session is released (SessionLifecycle says
\* when). Its client is gone, and what it knew with it.
Destroy ==
  \E i \in Slots \ free :
    /\ Unindex(i)
    /\ free' = free \cup {i}
    /\ known' = [known EXCEPT ![slot[i].sid] = {}]
    /\ UNCHANGED <<slot, nextId, users, w>>

-----------------------------------------------------------------------------
\* Consumer::HandleNick, one action per call that reads or writes shared state.

NickCheck(c) ==
  /\ w[c].pc = "idle"
  /\ \E s \in Queued(c), n \in Names :
       /\ ~Named(s)
       /\ w' = [w EXCEPT ![c] = At("login", s, n, NoUser)]
  /\ UNCHANGED <<free, slot, byId, byName, byUserId, nextId, users, known>>

\* Database::LoginOrRegister: the row of this name, inserted if there is none.
Login(c) ==
  /\ w[c].pc = "login"
  /\ \E u \in UserIds :
       /\ \/ users[w[c].nm] = u
          \/ users[w[c].nm] = NoUser /\ \A n \in Names : users[n] # u
       /\ users' = [users EXCEPT ![w[c].nm] = u]
       /\ w' = [w EXCEPT ![c] = At("setname", w[c].sid, w[c].nm, u)]
  /\ UNCHANGED <<free, slot, byId, byName, byUserId, nextId, known>>

LoginFails(c) ==
  /\ w[c].pc = "login"
  /\ Finish(c)
  /\ UNCHANGED <<free, slot, byId, byName, byUserId, nextId, users, known>>

NameTaken(c) == byName[w[c].nm] # 0

SetNameUnchecked(c) ==
  /\ w[c].pc = "setname"
  /\ Live(w[c].sid)
  /\ slot' = [slot EXCEPT ![byId[w[c].sid]].name = w[c].nm]
  /\ byName' = [byName EXCEPT ![w[c].nm] = w[c].sid]
  /\ Goto(c, "setuser")
  /\ UNCHANGED <<free, byId, byUserId, nextId, users, known>>

SetName(c) ==
  /\ w[c].pc = "setname"
  /\ ~NameTaken(c) /\ Live(w[c].sid)
  /\ slot' = [slot EXCEPT ![byId[w[c].sid]].name = w[c].nm]
  /\ byName' = [byName EXCEPT ![w[c].nm] = w[c].sid]
  /\ Goto(c, "setuser")
  /\ UNCHANGED <<free, byId, byUserId, nextId, users, known>>

SetNameRefused(c) ==
  /\ w[c].pc = "setname"
  /\ NameTaken(c) \/ ~Live(w[c].sid)
  /\ Finish(c)
  /\ UNCHANGED <<free, slot, byId, byName, byUserId, nextId, users, known>>

SetUserId(c) ==
  /\ w[c].pc = "setuser"
  /\ IF Live(w[c].sid)
       THEN /\ slot' = [slot EXCEPT ![byId[w[c].sid]].userId = w[c].uid]
            /\ byUserId' = [byUserId EXCEPT ![w[c].uid] = w[c].sid]
       ELSE UNCHANGED <<slot, byUserId>>
  /\ Goto(c, "friends")
  /\ UNCHANGED <<free, byId, byName, nextId, users, known>>

\* GetFriendIds, then LoadFriendCache (the cache itself is in Friends).
LoadFriends(c) ==
  /\ w[c].pc = "friends"
  /\ Goto(c, "roster")
  /\ UNCHANGED <<free, slot, byId, byName, byUserId, nextId, users, known>>

\* GetFriendIds throws: Loop catches it and drops the rest of the handler.
LoadFriendsFails(c) ==
  /\ w[c].pc = "friends"
  /\ Finish(c)
  /\ UNCHANGED <<free, slot, byId, byName, byUserId, nextId, users, known>>

SendRosterTo(c) ==
  /\ w[c].pc = "roster"
  /\ IF Live(w[c].sid)
       THEN \E R \in Delivered(NamedSessions \ {w[c].sid}) :
              known' = [known EXCEPT ![w[c].sid] = @ \cup {Line(s) : s \in R}]
       ELSE UNCHANGED known
  /\ Goto(c, "announce")
  /\ UNCHANGED <<free, slot, byId, byName, byUserId, nextId, users>>

BroadcastToOthers(c) ==
  \E R \in Delivered({s \in NamedSessions : <<s, slot[byId[s]].name>> \in known[s]}
                     \cup {w[c].sid}) :
    known' = [s \in Ids |-> IF s \in R THEN known[s] \cup {<<w[c].sid, w[c].nm>>}
                                       ELSE known[s]]

\* SessionManager::Broadcast: to the sessions that have a name at this moment.
Broadcast(c) ==
  \E R \in Delivered(NamedSessions) :
    known' = [s \in Ids |-> IF s \in R THEN known[s] \cup {<<w[c].sid, w[c].nm>>}
                                       ELSE known[s]]

Announce(c) ==
  /\ w[c].pc = "announce"
  /\ Broadcast(c)
  /\ Finish(c)
  /\ UNCHANGED <<free, slot, byId, byName, byUserId, nextId, users>>

-----------------------------------------------------------------------------
\* Every other command and a chat line: IsNamed, then GetUserId, then work
\* on behalf of that user (the database, the ranking, the friends). A chat line is
\* broadcast in between, which changes nothing here.

CommandCheck(c) ==
  /\ w[c].pc = "idle"
  /\ \E s \in Queued(c) :
       /\ Named(s)
       /\ w' = [w EXCEPT ![c] = At("user", s, NoName, NoUser)]
  /\ UNCHANGED <<free, slot, byId, byName, byUserId, nextId, users, known>>

CommandUser(c) ==
  /\ w[c].pc = "user"
  /\ w' = [w EXCEPT ![c] = At("act", w[c].sid, NoName, UserOf(w[c].sid))]
  /\ UNCHANGED <<free, slot, byId, byName, byUserId, nextId, users, known>>

CommandDone(c) ==
  /\ w[c].pc = "act"
  /\ Finish(c)
  /\ UNCHANGED <<free, slot, byId, byName, byUserId, nextId, users, known>>

HandleNick(c) == \/ NickCheck(c) \/ Login(c) \/ LoginFails(c)
                 \/ SetName(c) \/ SetNameRefused(c) \/ SetUserId(c)
                 \/ LoadFriends(c) \/ LoadFriendsFails(c)
                 \/ SendRosterTo(c) \/ Announce(c)

Command(c) == CommandCheck(c) \/ CommandUser(c) \/ CommandDone(c)

Next == \/ Create
        \/ Destroy
        \/ \E c \in Shards : HandleNick(c) \/ Command(c)

Spec == Init /\ [][Next]_vars

\* A consumer in the middle of a handler always takes its next step.
FairSpec == Spec /\ \A c \in Shards : WF_vars(w[c].pc # "idle" /\ (HandleNick(c) \/ Command(c)))

-----------------------------------------------------------------------------
Pcs == {"idle", "login", "setname", "setuser", "friends", "roster", "announce",
        "user", "act"}

\* Every variable stays in its range.
TypeOK ==
  /\ free \subseteq Slots
  /\ slot \in [Slots -> [sid : 0..MaxId, name : Names \cup {NoName},
                         userId : UserIds \cup {NoUser}]]
  /\ byId \in [Ids -> Slots \cup {NoSlot}]
  /\ byName \in [Names -> 0..MaxId]
  /\ byUserId \in [UserIds -> 0..MaxId]
  /\ nextId \in 1..(MaxId + 1)
  /\ users \in [Names -> UserIds \cup {NoUser}]
  /\ known \in [Ids -> SUBSET (Ids \X Names)]
  /\ w \in [Shards -> [pc : Pcs, sid : 0..MaxId, nm : Names \cup {NoName},
                       uid : UserIds \cup {NoUser}]]

IdIndexExact ==
  /\ \A s \in Ids : Live(s) => byId[s] \notin free /\ slot[byId[s]].sid = s
  /\ \A i \in Slots \ free : slot[i].sid \in Ids /\ byId[slot[i].sid] = i

NameIndexExact ==
  /\ \A n \in Names : byName[n] # 0 => /\ Live(byName[n])
                                       /\ slot[byId[byName[n]]].name = n
  /\ \A s \in Ids : Named(s) => byName[slot[byId[s]].name] = s

UserIndexExact ==
  /\ \A u \in UserIds : byUserId[u] # 0 => /\ Live(byUserId[u])
                                           /\ slot[byId[byUserId[u]]].userId = u
  /\ \A s \in Ids : UserOf(s) # NoUser => byUserId[UserOf(s)] = s

\* The three indexes and the pool describe the same sessions: an entry of an
\* index leads to the live session it names, a live session is found under its
\* id, its name and its user, and a freed slot is in none of them, whatever
\* logins, refusals, disconnections and reuses of the slot happen in between.
MapsCoherent == IdIndexExact /\ NameIndexExact /\ UserIndexExact

\* A session acts for the account registered under its own name, and no two
\* live sessions act for one account: the "already online" check of SetName
\* holds although the user id is fetched before it and stored after it.
OneSessionPerUser ==
  /\ \A s \in Ids : UserOf(s) # NoUser =>
       Named(s) /\ users[slot[byId[s]].name] = UserOf(s)
  /\ \A s, t \in Ids : UserOf(s) # NoUser /\ UserOf(s) = UserOf(t) => s = t

\* A session that has its name keeps it, and its user, until it is destroyed:
\* SetName does not look at the session's name again after IsNamed said it has
\* none, so this rests on one consumer handling all packets of a session.
IdentityStable ==
  [][\A s \in Ids : Named(s) /\ Live(s)' =>
        /\ slot'[byId'[s]].name = slot[byId[s]].name
        /\ UserOf(s) # NoUser => UserOf(s)' = UserOf(s)]_vars

\* A command works for the user of the session that sent it, never for nobody
\* and never for the next owner of the slot, as long as that session lives.
CommandActsForItsUser ==
  \A c \in Shards : w[c].pc = "act" /\ Live(w[c].sid) =>
    w[c].uid # NoUser /\ w[c].uid = UserOf(w[c].sid)

Announced(s) == Named(s) /\ Line(s) \in known[s]

\* Two clients that are both in (each saw its own announcement) know each
\* other's name: no login falls between the roster, which is sent once, and the
\* announcements that follow it.
RosterComplete ==
  \A s, t \in Ids : Announced(s) /\ Announced(t) => Line(t) \in known[s]

\* A client that is in shows the chat lines of another that is in under his name and
\* no other, at any time, as long as the speaker's id fits in the header. (A session
\* with a larger id is shown under the name of a former session, or by a number.)
SpeakerShown ==
  \A r, s \in Ids : Announced(r) /\ Announced(s) /\ s < IdSpace =>
    ShownAs(r, s) = {slot[byId[s]].name}

\* One user's packets are handled by one thread at a time.
OneConsumerPerUser ==
  \A c, d \in Shards :
    (w[c].pc = "act" /\ w[d].pc = "act" /\ w[c].uid # NoUser /\ w[c].uid = w[d].uid)
      => c = d

\* A session that got its name is announced to the others, or goes away.
LoginAnnounced == \A s \in Ids : Named(s) ~> (Announced(s) \/ ~Live(s))

Pool == INSTANCE SessionPool
          WITH owner <- [i \in Slots |-> IF i \in free THEN 0 ELSE slot[i].sid]

\* The registry hands out a slot to one session at a time and an id once.
ImplementsPool == Pool!Spec
=============================================================================
