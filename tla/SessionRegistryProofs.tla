----------------------- MODULE SessionRegistryProofs -----------------------
(***************************************************************************)
(* Proofs about SessionRegistry, for every pool, shard count and number of *)
(* users. IInv is the inductive invariant: the three exact indexes, what   *)
(* each consumer may assume between two steps of a handler, and what the   *)
(* clients were told.                                                      *)
(***************************************************************************)
EXTENDS SessionRegistry, TLAPS

Ordered == \A s \in Ids : Live(s) => s < nextId

UsersInjective == \A m, n \in Names : users[m] # NoUser /\ users[m] = users[n] => m = n

AccountOK == \A s \in Ids : UserOf(s) # NoUser =>
                Named(s) /\ users[slot[byId[s]].name] = UserOf(s)

\* Only between SetName and SetUserId has a session a name and no user.
NamedHasUser == \A s \in Ids : Named(s) /\ UserOf(s) = NoUser =>
                  \E c \in Shards : w[c].pc = "setuser" /\ w[c].sid = s

NickPcs == {"login", "setname", "setuser", "friends", "roster", "announce"}

OwnPackets == \A c \in Shards : w[c].pc # "idle" =>
                w[c].sid \in Ids /\ w[c].sid < nextId /\ ShardOf(w[c].sid) = c

LoginOK == \A c \in Shards :
  /\ w[c].pc \in NickPcs => w[c].nm \in Names
  /\ w[c].pc \in NickPcs \ {"login"} => w[c].uid # NoUser /\ users[w[c].nm] = w[c].uid

BeforeName == \A c \in Shards : w[c].pc \in {"login", "setname"} => ~Named(w[c].sid)

AfterName == \A c \in Shards :
  w[c].pc \in {"setuser", "friends", "roster", "announce"} /\ Live(w[c].sid) =>
    /\ slot[byId[w[c].sid]].name = w[c].nm
    /\ slot[byId[w[c].sid]].userId = IF w[c].pc = "setuser" THEN NoUser ELSE w[c].uid

CommandOK == \A c \in Shards :
  /\ w[c].pc = "user" /\ Live(w[c].sid) => slot[byId[w[c].sid]].userId # NoUser
  /\ w[c].pc = "act" /\ Live(w[c].sid) =>
       w[c].uid # NoUser /\ w[c].uid = slot[byId[w[c].sid]].userId

\* What a client was told of a session that still lives is true.
KnownTrue == \A s, t \in Ids, n \in Names : <<t, n>> \in known[s] =>
  t < nextId /\ (Live(t) => slot[byId[t]].name = n)

IInv == /\ TypeOK /\ MapsCoherent /\ Ordered /\ UsersInjective /\ AccountOK
        /\ NamedHasUser /\ OwnPackets /\ LoginOK /\ BeforeName /\ AfterName
        /\ CommandOK /\ KnownTrue

\* A session that was sent its roster has the line of every announced session.
RosterSent == \A c \in Shards, t \in Ids :
  w[c].pc = "announce" /\ Live(w[c].sid) /\ Announced(t) => Line(t) \in known[w[c].sid]

-----------------------------------------------------------------------------
\* The invariant holds at the start: empty indexes, all slots free.
LEMMA InitIInv == Init => IInv
<1> SUFFICES ASSUME Init PROVE IInv
    OBVIOUS
<1> USE RegistryAssumption DEF Init, Ids, Live, Named, UserOf, NoUser, Idle, At
<1>1. TypeOK
  BY DEF TypeOK, Pcs
<1>2. MapsCoherent
  BY DEF MapsCoherent, IdIndexExact, NameIndexExact, UserIndexExact
<1>3. Ordered /\ UsersInjective /\ AccountOK /\ NamedHasUser
  BY DEF Ordered, UsersInjective, AccountOK, NamedHasUser
<1>4. OwnPackets /\ LoginOK /\ BeforeName /\ AfterName /\ CommandOK
  BY DEF OwnPackets, LoginOK, BeforeName, AfterName, CommandOK, NickPcs
<1>5. KnownTrue
  BY DEF KnownTrue
<1> QED
  BY <1>1, <1>2, <1>3, <1>4, <1>5 DEF IInv

\* A consumer that goes on to its next call stays in range.
LEMMA MovesOn ==
  ASSUME TypeOK, NEW c \in Shards, NEW p \in Pcs, w' = [w EXCEPT ![c].pc = p]
  PROVE  w' \in [Shards -> [pc : Pcs, sid : 0..MaxId, nm : Names \cup {NoName}, uid : UserIds \cup {NoUser}]]
<1> DEFINE State == [pc : Pcs, sid : 0..MaxId, nm : Names \cup {NoName}, uid : UserIds \cup {NoUser}]
<1>1. w \in [Shards -> State]
  BY DEF TypeOK
<1>2. [w[c] EXCEPT !.pc = p] \in State
  BY <1>1
<1> HIDE DEF State
<1>3. w' = [w EXCEPT ![c] = [w[c] EXCEPT !.pc = p]]
  OBVIOUS
<1>4. w' \in [Shards -> State]
  BY <1>1, <1>2, <1>3
<1> QED BY <1>4 DEF State

\* SessionManager::Create keeps the invariant: the slot and the id are fresh.
LEMMA CreateStep == IInv /\ Create => IInv'
<1> SUFFICES ASSUME IInv, Create PROVE IInv'
    OBVIOUS
<1> USE RegistryAssumption DEF Ids, Live, Named, UserOf, NoUser
<1>1. TypeOK BY DEF IInv
<1>2. PICK i \in free : /\ free' = free \ {i}
                        /\ slot' = [slot EXCEPT ![i] = [sid |-> nextId, name |-> NoName, userId |-> NoUser]]
                        /\ byId' = [byId EXCEPT ![nextId] = i]
  BY DEF Create, Alloc, InitSlot
<1>3. nextId \in Ids /\ i \in Slots
  BY <1>1 DEF Create, TypeOK
<1>4. UNCHANGED <<byName, byUserId, users, known, w>> /\ nextId' = nextId + 1
  BY DEF Create
<1>5. TypeOK'
  BY <1>1, <1>2, <1>3, <1>4 DEF TypeOK
<1>6. \A s \in Ids : Live(s) => byId[s] # i /\ s # nextId /\ byId[s] \in Slots
  BY <1>1, <1>2 DEF IInv, MapsCoherent, IdIndexExact, Ordered, TypeOK
<1>7. \A s \in Ids : s # nextId => byId'[s] = byId[s] /\ (Live(s) => slot'[byId[s]] = slot[byId[s]])
  BY <1>1, <1>2, <1>3, <1>6 DEF TypeOK
<1>8. byId'[nextId] = i /\ slot'[i] = [sid |-> nextId, name |-> NoName, userId |-> NoUser]
  BY <1>1, <1>2, <1>3 DEF TypeOK
<1>9. MapsCoherent'
  <2>1. IdIndexExact'
    BY <1>1, <1>2, <1>3, <1>6, <1>7, <1>8 DEF TypeOK, IInv, MapsCoherent, IdIndexExact
  <2>2. NameIndexExact'
    <3> NameIndexExact
      BY DEF IInv, MapsCoherent
    <3>1. ASSUME NEW n \in Names, byName'[n] # 0
          PROVE  byId'[byName'[n]] # NoSlot /\ slot'[byId'[byName'[n]]].name = n
      <4>1. byName[n] \in Ids /\ byName'[n] = byName[n] /\ Live(byName[n])
        BY <1>1, <1>4, <3>1 DEF TypeOK, NameIndexExact
      <4> QED BY <1>6, <1>7, <4>1 DEF NameIndexExact
    <3>2. ASSUME NEW s \in Ids, byId'[s] # NoSlot, slot'[byId'[s]].name # NoName
          PROVE  byName'[slot'[byId'[s]].name] = s
      <4>1. s # nextId /\ Live(s)
        BY <1>7, <1>8, <3>2
      <4> QED BY <1>4, <1>6, <1>7, <3>2, <4>1 DEF NameIndexExact
    <3> QED BY <3>1, <3>2 DEF NameIndexExact
  <2>3. UserIndexExact'
    <3> UserIndexExact
      BY DEF IInv, MapsCoherent
    <3>1. ASSUME NEW u \in UserIds, byUserId'[u] # 0
          PROVE  byId'[byUserId'[u]] # NoSlot /\ slot'[byId'[byUserId'[u]]].userId = u
      <4>1. byUserId[u] \in Ids /\ byUserId'[u] = byUserId[u] /\ Live(byUserId[u])
        BY <1>1, <1>4, <3>1 DEF TypeOK, UserIndexExact
      <4> QED BY <1>6, <1>7, <4>1 DEF UserIndexExact
    <3>2. ASSUME NEW s \in Ids, byId'[s] # NoSlot, slot'[byId'[s]].userId # NoUser
          PROVE  byUserId'[slot'[byId'[s]].userId] = s
      <4>1. s # nextId /\ Live(s)
        BY <1>7, <1>8, <3>2
      <4> QED BY <1>4, <1>6, <1>7, <3>2, <4>1 DEF UserIndexExact
    <3> QED BY <3>1, <3>2 DEF UserIndexExact
  <2> QED BY <2>1, <2>2, <2>3 DEF MapsCoherent
<1>10. Ordered'
  BY <1>1, <1>4, <1>7, <1>8 DEF TypeOK, IInv, Ordered
<1>11. UsersInjective' /\ LoginOK'
  BY <1>4 DEF IInv, UsersInjective, LoginOK
<1>12. AccountOK'
  BY <1>4, <1>6, <1>7, <1>8 DEF IInv, AccountOK
<1>13. NamedHasUser'
  BY <1>4, <1>6, <1>7, <1>8 DEF IInv, NamedHasUser
<1>14. OwnPackets'
  BY <1>1, <1>4 DEF IInv, OwnPackets, TypeOK
<1>15. \A c \in Shards : w[c].pc # "idle" => w[c].sid \in Ids /\ w[c].sid # nextId
  BY <1>1 DEF IInv, OwnPackets, TypeOK
<1>16. BeforeName'
  BY <1>4, <1>6, <1>7, <1>15 DEF IInv, BeforeName
<1>17. AfterName'
  BY <1>4, <1>6, <1>7, <1>15 DEF IInv, AfterName
<1>18. CommandOK'
  BY <1>4, <1>6, <1>7, <1>15 DEF IInv, CommandOK
<1>19. KnownTrue'
  BY <1>1, <1>4, <1>6, <1>7, <1>8 DEF TypeOK, IInv, KnownTrue
<1> QED
  BY <1>5, <1>9, <1>10, <1>11, <1>12, <1>13, <1>14, <1>16, <1>17, <1>18, <1>19 DEF IInv

\* SessionManager::Destroy keeps it: what it erases are the entries of its own session.
LEMMA DestroyStep == IInv /\ Destroy => IInv'
<1> SUFFICES ASSUME IInv, Destroy PROVE IInv'
    OBVIOUS
<1> USE RegistryAssumption DEF Ids, Live, Named, UserOf, NoUser
<1>1. TypeOK /\ MapsCoherent
  BY DEF IInv
<1>2. PICK i \in Slots \ free :
         /\ Unindex(i) /\ free' = free \cup {i}
         /\ known' = [known EXCEPT ![slot[i].sid] = {}]
         /\ UNCHANGED <<slot, nextId, users, w>>
  BY DEF Destroy
<1> DEFINE s0 == slot[i].sid
<1>3. s0 \in Ids /\ byId[s0] = i /\ Live(s0)
  BY <1>1, <1>2 DEF TypeOK, MapsCoherent, IdIndexExact
<1>4. byId'[s0] = NoSlot /\ \A s \in Ids : s # s0 => byId'[s] = byId[s]
  BY <1>1, <1>2, <1>3 DEF TypeOK, Unindex
<1>5. \A n \in Names : byName'[n] = IF n = slot[i].name THEN 0 ELSE byName[n]
  BY <1>1, <1>2 DEF TypeOK, Unindex, Erase
<1>6. \A u \in UserIds : byUserId'[u] = IF u = slot[i].userId THEN 0 ELSE byUserId[u]
  BY <1>1, <1>2 DEF TypeOK, Unindex, Erase
<1>7. TypeOK'
  BY <1>1, <1>2, <1>3 DEF TypeOK, Unindex, Erase
<1>8. IdIndexExact'
  <2>1. IdIndexExact BY <1>1 DEF MapsCoherent
  <2>2. ASSUME NEW s \in Ids, byId'[s] # NoSlot PROVE byId[s] \notin free' /\ slot[byId[s]].sid = s
    <3>1. s # s0 /\ Live(s)
      BY <1>4, <2>2
    <3>2. byId[s] \notin free /\ slot[byId[s]].sid = s
      BY <2>1, <3>1 DEF IdIndexExact
    <3> QED BY <1>2, <3>1, <3>2
  <2>3. ASSUME NEW j \in Slots \ free' PROVE slot[j].sid \in Ids /\ byId'[slot[j].sid] = j
    <3>1. j \in Slots \ free /\ j # i
      BY <1>2, <2>3
    <3>2. slot[j].sid \in Ids /\ byId[slot[j].sid] = j
      BY <2>1, <3>1 DEF IdIndexExact
    <3> QED BY <1>3, <1>4, <3>1, <3>2
  <2> QED BY <1>2, <1>4, <2>2, <2>3 DEF IdIndexExact
<1>9. NameIndexExact'
  <2>1. ASSUME NEW n \in Names, byName'[n] # 0
        PROVE  byId'[byName'[n]] # NoSlot /\ slot'[byId'[byName'[n]]].name = n
    <3>1. n # slot[i].name /\ byName'[n] = byName[n] /\ byName[n] \in Ids
      BY <1>1, <1>5, <2>1 DEF TypeOK
    <3>2. Live(byName[n]) /\ slot[byId[byName[n]]].name = n
      BY <1>1, <2>1, <3>1 DEF MapsCoherent, NameIndexExact
    <3> QED BY <1>2, <1>3, <1>4, <3>1, <3>2
  <2>2. ASSUME NEW s \in Ids, byId'[s] # NoSlot, slot'[byId'[s]].name # NoName
        PROVE  byName'[slot'[byId'[s]].name] = s
    <3>1. s # s0 /\ byId'[s] = byId[s] /\ slot'[byId'[s]] = slot[byId[s]] /\ Named(s)
      BY <1>2, <1>4, <2>2
    <3>2. slot[byId[s]].name \in Names
      BY <1>1, <3>1 DEF TypeOK
    <3>3. slot[byId[s]].name # slot[i].name
      BY <1>1, <1>3, <3>1 DEF MapsCoherent, NameIndexExact
    <3> QED BY <1>1, <1>5, <3>1, <3>2, <3>3 DEF MapsCoherent, NameIndexExact
  <2> QED BY <2>1, <2>2 DEF NameIndexExact
<1>10. UserIndexExact'
  <2>1. ASSUME NEW u \in UserIds, byUserId'[u] # 0
        PROVE  byId'[byUserId'[u]] # NoSlot /\ slot'[byId'[byUserId'[u]]].userId = u
    <3>1. u # slot[i].userId /\ byUserId'[u] = byUserId[u] /\ byUserId[u] \in Ids
      BY <1>1, <1>6, <2>1 DEF TypeOK
    <3>2. Live(byUserId[u]) /\ slot[byId[byUserId[u]]].userId = u
      BY <1>1, <2>1, <3>1 DEF MapsCoherent, UserIndexExact
    <3> QED BY <1>2, <1>3, <1>4, <3>1, <3>2
  <2>2. ASSUME NEW s \in Ids, byId'[s] # NoSlot, slot'[byId'[s]].userId # NoUser
        PROVE  byUserId'[slot'[byId'[s]].userId] = s
    <3>1. s # s0 /\ byId'[s] = byId[s] /\ slot'[byId'[s]] = slot[byId[s]] /\ Live(s)
      BY <1>2, <1>4, <2>2
    <3>2. slot[byId[s]].userId \in UserIds
      <4>1. byId[s] \in Slots /\ slot[byId[s]].userId # NoUser
        BY <1>1, <2>2, <3>1 DEF TypeOK
      <4>2. slot[byId[s]].userId \in UserIds \cup {NoUser}
        BY <1>1, <4>1 DEF TypeOK
      <4> QED BY <4>1, <4>2
    <3>3. slot[byId[s]].userId # slot[i].userId
      BY <1>1, <1>3, <2>2, <3>1 DEF MapsCoherent, UserIndexExact
    <3> QED BY <1>1, <1>6, <2>2, <3>1, <3>2, <3>3 DEF MapsCoherent, UserIndexExact
  <2> QED BY <2>1, <2>2 DEF UserIndexExact
<1>11. Ordered' /\ UsersInjective' /\ LoginOK'
  BY <1>2, <1>4 DEF IInv, Ordered, UsersInjective, LoginOK
<1>12. AccountOK' /\ NamedHasUser'
  BY <1>2, <1>4 DEF IInv, AccountOK, NamedHasUser
<1>13. OwnPackets'
  BY <1>2 DEF IInv, OwnPackets
<1>14. \A c \in Shards : w[c].pc # "idle" => w[c].sid \in Ids
  BY <1>1 DEF IInv, OwnPackets
<1>15. BeforeName' /\ AfterName' /\ CommandOK'
  BY <1>2, <1>4, <1>14 DEF IInv, BeforeName, AfterName, CommandOK
<1>16. KnownTrue'
  <2>1. \A s \in Ids : known'[s] \subseteq known[s]
    BY <1>1, <1>2, <1>3 DEF TypeOK
  <2> QED BY <1>2, <1>4, <2>1 DEF IInv, KnownTrue
<1> QED
  BY <1>7, <1>8, <1>9, <1>10, <1>11, <1>12, <1>13, <1>15, <1>16 DEF IInv, MapsCoherent

-----------------------------------------------------------------------------
\* The steps of a handler that leave the indexes alone.

\* A step that leaves the slots and the maps alone leaves the indexes coherent.
LEMMA IndexesKept ==
  ASSUME IInv, UNCHANGED <<free, slot, byId, byName, byUserId, nextId>>
  PROVE  MapsCoherent' /\ Ordered'
<1> SUFFICES ASSUME MapsCoherent, Ordered PROVE MapsCoherent' /\ Ordered'
    BY DEF IInv
<1> USE DEF Live, Named, UserOf
<1> QED
  BY DEF MapsCoherent, IdIndexExact, NameIndexExact, UserIndexExact, Ordered

\* A step that leaves the slots, the maps and the table alone keeps what is said of them.
LEMMA TablesKept ==
  ASSUME IInv, UNCHANGED <<free, slot, byId, byName, byUserId, nextId, users, known>>
  PROVE  MapsCoherent' /\ Ordered' /\ UsersInjective' /\ AccountOK' /\ KnownTrue'
<1>1. MapsCoherent' /\ Ordered'
  BY IndexesKept
<1>2. UsersInjective' /\ AccountOK' /\ KnownTrue'
  BY DEF IInv, UsersInjective, AccountOK, KnownTrue, Live, Named, UserOf
<1> QED
  BY <1>1, <1>2

\* A handler that ends, with an answer or without, keeps the invariant.
LEMMA FinishStep ==
  ASSUME NEW c \in Shards, IInv, w[c].pc # "setuser", Finish(c),
         UNCHANGED <<free, slot, byId, byName, byUserId, nextId, users, known>>
  PROVE  IInv'
<1>1. MapsCoherent' /\ Ordered' /\ UsersInjective' /\ AccountOK' /\ KnownTrue'
  BY TablesKept
<1>2. TypeOK /\ w' = [w EXCEPT ![c] = Idle]
  BY DEF IInv, Finish
<1>3. TypeOK'
  BY <1>2, RegistryAssumption DEF TypeOK, Idle, At, Pcs
<1>4. w'[c].pc = "idle" /\ \A d \in Shards : d # c => w'[d] = w[d]
  BY <1>2 DEF TypeOK, Idle, At
<1>5. NamedHasUser'
  BY <1>4 DEF IInv, NamedHasUser, Live, Named, UserOf
<1>6. OwnPackets' /\ LoginOK' /\ BeforeName' /\ AfterName' /\ CommandOK'
  BY <1>4 DEF IInv, OwnPackets, LoginOK, BeforeName, AfterName, CommandOK, NickPcs,
              Live, Named, UserOf
<1> QED
  BY <1>1, <1>3, <1>5, <1>6 DEF IInv

\* IsNamed and the read of the name keep it.
LEMMA NickCheckStep == ASSUME NEW c \in Shards, IInv, NickCheck(c) PROVE IInv'
<1>1. PICK s \in Queued(c), n \in Names :
         ~Named(s) /\ w' = [w EXCEPT ![c] = At("login", s, n, NoUser)]
  BY DEF NickCheck
<1>2. s \in Ids /\ s < nextId /\ ShardOf(s) = c /\ TypeOK
  BY RegistryAssumption DEF Queued, IInv, TypeOK, Ids
<1>3. MapsCoherent' /\ Ordered' /\ UsersInjective' /\ AccountOK' /\ KnownTrue'
  BY TablesKept DEF NickCheck
<1>4. TypeOK'
  BY <1>1, <1>2, RegistryAssumption DEF NickCheck, TypeOK, Idle, At, Pcs, Ids
<1>5. /\ w'[c].pc = "login" /\ w'[c].sid = s /\ w'[c].nm = n /\ w[c].pc = "idle"
      /\ \A d \in Shards : d # c => w'[d] = w[d]
  BY <1>1, <1>2 DEF NickCheck, TypeOK, At
<1>6. NamedHasUser'
  BY <1>5 DEF NickCheck, IInv, NamedHasUser, Live, Named, UserOf
<1>7. OwnPackets' /\ BeforeName'
  BY <1>1, <1>2, <1>5 DEF NickCheck, IInv, OwnPackets, BeforeName, Live, Named
<1>8. LoginOK' /\ AfterName' /\ CommandOK'
  BY <1>5 DEF NickCheck, IInv, LoginOK, AfterName, CommandOK, NickPcs, Live
<1> QED
  BY <1>3, <1>4, <1>6, <1>7, <1>8 DEF IInv

\* LoginOrRegister keeps it: the user id it returns is the one of the name.
LEMMA LoginStep == ASSUME NEW c \in Shards, IInv, Login(c) PROVE IInv'
<1>1. PICK u \in UserIds :
         /\ \/ users[w[c].nm] = u
            \/ users[w[c].nm] = NoUser /\ \A n \in Names : users[n] # u
         /\ users' = [users EXCEPT ![w[c].nm] = u]
         /\ w' = [w EXCEPT ![c] = At("setname", w[c].sid, w[c].nm, u)]
  BY DEF Login
<1>2. TypeOK /\ w[c].nm \in Names /\ w[c].pc = "login" /\ u # NoUser
  BY RegistryAssumption DEF Login, IInv, LoginOK, NickPcs, NoUser
<1>3. /\ \A n \in Names : n # w[c].nm => users'[n] = users[n]
      /\ users'[w[c].nm] = u
      /\ \A n \in Names : users[n] # NoUser => users'[n] = users[n]
  BY <1>1, <1>2 DEF TypeOK
<1>4. MapsCoherent' /\ Ordered'
  BY IndexesKept DEF Login
<1>5. UsersInjective'
  BY <1>1, <1>2, <1>3 DEF IInv, UsersInjective
<1>6. \A s \in Ids : Named(s) => slot[byId[s]].name \in Names
  BY <1>2 DEF TypeOK, Named, Live
<1>7. AccountOK'
  BY <1>3, <1>6 DEF Login, IInv, AccountOK, Live, Named, UserOf
<1>8. TypeOK'
  BY <1>1, <1>2 DEF Login, TypeOK, Pcs, At
<1>9. /\ w'[c].pc = "setname" /\ w'[c].sid = w[c].sid /\ w'[c].nm = w[c].nm /\ w'[c].uid = u
      /\ \A d \in Shards : d # c => w'[d] = w[d]
  BY <1>1, <1>2 DEF TypeOK, At
<1>10. NamedHasUser' /\ KnownTrue'
  BY <1>2, <1>9 DEF Login, IInv, NamedHasUser, KnownTrue, Live, Named, UserOf
<1>11. OwnPackets' /\ BeforeName'
  <2>1. OwnPackets /\ BeforeName BY DEF IInv
  <2>2. OwnPackets' BY <1>2, <1>9, <2>1 DEF Login, OwnPackets
  <2>3. BeforeName' BY <1>2, <1>9, <2>1 DEF Login, BeforeName, Live, Named
  <2> QED BY <2>2, <2>3
<1>13. AfterName'
  <2>1. AfterName BY DEF IInv
  <2> QED BY <1>2, <1>9, <2>1 DEF Login, AfterName, Live
<1>14. CommandOK'
  <2>1. CommandOK BY DEF IInv
  <2> QED BY <1>2, <1>9, <2>1 DEF Login, CommandOK, Live
<1>12. LoginOK'
  BY <1>2, <1>3, <1>9 DEF IInv, LoginOK, NickPcs
<1> QED
  BY <1>4, <1>5, <1>7, <1>8, <1>10, <1>11, <1>12, <1>13, <1>14 DEF IInv

\* The load of the friend cache keeps it: no index is touched.
LEMMA LoadFriendsStep == ASSUME NEW c \in Shards, IInv, LoadFriends(c) PROVE IInv'
<1>1. TypeOK /\ w' = [w EXCEPT ![c].pc = "roster"] /\ w[c].pc = "friends"
  BY DEF IInv, LoadFriends, Goto
<1>2. MapsCoherent' /\ Ordered' /\ UsersInjective' /\ AccountOK' /\ KnownTrue'
  BY TablesKept DEF LoadFriends
<1>3. TypeOK'
  <2>1. w' \in [Shards -> [pc : Pcs, sid : 0..MaxId, nm : Names \cup {NoName}, uid : UserIds \cup {NoUser}]]
    BY <1>1, MovesOn DEF Pcs
  <2> QED BY <1>1, <2>1 DEF LoadFriends, TypeOK
<1>4. /\ w'[c].pc = "roster" /\ w'[c].sid = w[c].sid /\ w'[c].nm = w[c].nm /\ w'[c].uid = w[c].uid
      /\ \A d \in Shards : d # c => w'[d] = w[d]
  BY <1>1 DEF TypeOK
<1>5. NamedHasUser' /\ OwnPackets' /\ BeforeName'
  BY <1>1, <1>4 DEF LoadFriends, IInv, NamedHasUser, OwnPackets, BeforeName, Live, Named, UserOf
<1>6. AfterName' /\ CommandOK' /\ LoginOK'
  BY <1>1, <1>4 DEF LoadFriends, IInv, AfterName, CommandOK, LoginOK, NickPcs, Live
<1> QED
  BY <1>2, <1>3, <1>5, <1>6 DEF IInv

\* SendRosterTo keeps it: the lines sent are those of live sessions.
LEMMA SendRosterStep == ASSUME NEW c \in Shards, IInv, SendRosterTo(c) PROVE IInv'
<1>1. TypeOK /\ w' = [w EXCEPT ![c].pc = "announce"] /\ w[c].pc = "roster"
  BY DEF IInv, SendRosterTo, Goto
<1>2. PICK R \in SUBSET NamedSessions :
        known' = IF Live(w[c].sid)
                   THEN [known EXCEPT ![w[c].sid] = @ \cup {Line(s) : s \in R}]
                   ELSE known
  BY DEF SendRosterTo, Delivered
<1>3. MapsCoherent' /\ Ordered'
  BY IndexesKept DEF SendRosterTo
<1>4. UsersInjective' /\ AccountOK'
  BY DEF SendRosterTo, IInv, UsersInjective, AccountOK, Live, Named, UserOf
<1>5. \A s \in R : s \in Ids /\ s < nextId /\ Line(s) = <<s, slot[byId[s]].name>>
                   /\ slot[byId[s]].name \in Names
  BY <1>1, <1>2 DEF IInv, Ordered, NamedSessions, Named, Live, Line, TypeOK
<1>6. TypeOK'
  <2>1. {Line(s) : s \in R} \subseteq Ids \X Names
    BY <1>5 DEF Line
  <2>2. known' \in [Ids -> SUBSET (Ids \X Names)]
    BY <1>1, <1>2, <2>1 DEF TypeOK
  <2>3. w' \in [Shards -> [pc : Pcs, sid : 0..MaxId, nm : Names \cup {NoName}, uid : UserIds \cup {NoUser}]]
    BY <1>1, MovesOn DEF Pcs
  <2> QED BY <1>1, <2>2, <2>3 DEF SendRosterTo, TypeOK
<1>7. KnownTrue'
  <2>1. ASSUME NEW s \in Ids, NEW t \in Ids, NEW n \in Names, <<t, n>> \in known'[s]
        PROVE  t < nextId /\ (Live(t) => slot[byId[t]].name = n)
    <3>1. CASE known'[s] = known[s]
      BY <2>1, <3>1 DEF IInv, KnownTrue
    <3>2. CASE known'[s] # known[s]
      <4>1. known'[s] = known[s] \cup {Line(x) : x \in R}
        BY <1>1, <1>2, <3>2 DEF TypeOK
      <4>2. CASE <<t, n>> \in known[s]
        BY <4>2 DEF IInv, KnownTrue
      <4>3. CASE \E x \in R : <<t, n>> = Line(x)
        BY <1>5, <4>3 DEF Line
      <4> QED BY <2>1, <4>1, <4>2, <4>3
    <3> QED BY <3>1, <3>2
  <2> QED BY <2>1 DEF SendRosterTo, KnownTrue, Live
<1>8. /\ w'[c].pc = "announce" /\ w'[c].sid = w[c].sid /\ w'[c].nm = w[c].nm /\ w'[c].uid = w[c].uid
      /\ \A d \in Shards : d # c => w'[d] = w[d]
  BY <1>1 DEF TypeOK
<1>9. NamedHasUser' /\ OwnPackets' /\ BeforeName'
  BY <1>1, <1>8 DEF SendRosterTo, IInv, NamedHasUser, OwnPackets, BeforeName, Live, Named, UserOf
<1>10. AfterName' /\ CommandOK' /\ LoginOK'
  BY <1>1, <1>8 DEF SendRosterTo, IInv, AfterName, CommandOK, LoginOK, NickPcs, Live
<1> QED
  BY <1>3, <1>4, <1>6, <1>7, <1>9, <1>10 DEF IInv

\* The announcement keeps it: the line sent is that of the session, if it lives.
LEMMA AnnounceStep == ASSUME NEW c \in Shards, IInv, Announce(c) PROVE IInv'
<1>1. TypeOK /\ w' = [w EXCEPT ![c] = Idle] /\ w[c].pc = "announce"
  BY DEF IInv, Announce, Finish
<1>2. PICK R \in SUBSET NamedSessions :
        known' = [s \in Ids |-> IF s \in R THEN known[s] \cup {<<w[c].sid, w[c].nm>>}
                                           ELSE known[s]]
  BY DEF Announce, Broadcast, Delivered
<1>3. MapsCoherent' /\ Ordered'
  BY IndexesKept DEF Announce
<1>4. UsersInjective' /\ AccountOK'
  BY DEF Announce, IInv, UsersInjective, AccountOK, Live, Named, UserOf
<1>5. /\ w[c].sid \in Ids /\ w[c].sid < nextId /\ w[c].nm \in Names
      /\ Live(w[c].sid) => slot[byId[w[c].sid]].name = w[c].nm
  BY <1>1 DEF IInv, OwnPackets, LoginOK, AfterName, NickPcs
<1>6. TypeOK'
  <2>1. known' \in [Ids -> SUBSET (Ids \X Names)]
    BY <1>1, <1>2, <1>5 DEF TypeOK
  <2> QED BY <1>1, <2>1, RegistryAssumption DEF Announce, TypeOK, Pcs, Idle, At
<1>7. KnownTrue'
  <2>1. ASSUME NEW s \in Ids, NEW t \in Ids, NEW n \in Names, <<t, n>> \in known'[s]
        PROVE  t < nextId /\ (Live(t) => slot[byId[t]].name = n)
    <3>1. known'[s] = known[s] \/ known'[s] = known[s] \cup {<<w[c].sid, w[c].nm>>}
      BY <1>2
    <3>2. <<t, n>> \in known[s] \/ <<t, n>> = <<w[c].sid, w[c].nm>>
      BY <2>1, <3>1
    <3> QED BY <1>5, <3>2 DEF IInv, KnownTrue
  <2> QED BY <2>1 DEF Announce, KnownTrue, Live
<1>8. w'[c].pc = "idle" /\ \A d \in Shards : d # c => w'[d] = w[d]
  BY <1>1 DEF TypeOK, Idle, At
<1>9. NamedHasUser' /\ OwnPackets' /\ BeforeName'
  BY <1>1, <1>8 DEF Announce, IInv, NamedHasUser, OwnPackets, BeforeName, Live, Named, UserOf
<1>10. AfterName' /\ CommandOK' /\ LoginOK'
  BY <1>1, <1>8 DEF Announce, IInv, AfterName, CommandOK, LoginOK, NickPcs, Live
<1> QED
  BY <1>3, <1>4, <1>6, <1>7, <1>9, <1>10 DEF IInv

\* The check at the head of a command keeps it.
LEMMA CommandCheckStep == ASSUME NEW c \in Shards, IInv, CommandCheck(c) PROVE IInv'
<1>1. PICK s \in Queued(c) :
         Named(s) /\ w' = [w EXCEPT ![c] = At("user", s, NoName, NoUser)]
  BY DEF CommandCheck
<1>2. s \in Ids /\ s < nextId /\ ShardOf(s) = c /\ TypeOK
  BY RegistryAssumption DEF Queued, IInv, TypeOK, Ids
<1>3. MapsCoherent' /\ Ordered' /\ UsersInjective' /\ AccountOK' /\ KnownTrue'
  BY TablesKept DEF CommandCheck
<1>4. TypeOK'
  BY <1>1, <1>2, RegistryAssumption DEF CommandCheck, TypeOK, At, Pcs, Ids
<1>5. /\ w'[c].pc = "user" /\ w'[c].sid = s /\ w[c].pc = "idle"
      /\ \A d \in Shards : d # c => w'[d] = w[d]
  BY <1>1, <1>2 DEF CommandCheck, TypeOK, At
<1>6. UserOf(s) # NoUser
  <2> SUFFICES ASSUME UserOf(s) = NoUser PROVE FALSE
      OBVIOUS
  <2>1. PICK d \in Shards : w[d].pc = "setuser" /\ w[d].sid = s
    BY <1>1, <1>2 DEF IInv, NamedHasUser
  <2> QED BY <1>2, <1>5, <2>1 DEF IInv, OwnPackets
<1>7. NamedHasUser' /\ OwnPackets' /\ BeforeName'
  BY <1>2, <1>5 DEF CommandCheck, IInv, NamedHasUser, OwnPackets, BeforeName, Live, Named, UserOf
<1>8. AfterName' /\ LoginOK'
  BY <1>5 DEF CommandCheck, IInv, AfterName, LoginOK, NickPcs, Live
<1>9. CommandOK'
  <2>1. CommandOK BY DEF IInv
  <2>2. slot[byId[s]].userId # NoUser
    BY <1>1, <1>6 DEF Named, UserOf
  <2> QED BY <1>5, <2>1, <2>2 DEF CommandCheck, CommandOK, Live
<1> QED
  BY <1>3, <1>4, <1>7, <1>8, <1>9 DEF IInv

\* GetUserId keeps it: a named session of this shard has its user by now.
LEMMA CommandUserStep == ASSUME NEW c \in Shards, IInv, CommandUser(c) PROVE IInv'
<1>1. TypeOK /\ w[c].pc = "user"
      /\ w' = [w EXCEPT ![c] = At("act", w[c].sid, NoName, UserOf(w[c].sid))]
  BY DEF IInv, CommandUser
<1>2. w[c].sid \in Ids
  BY <1>1 DEF IInv, OwnPackets
<1>3. MapsCoherent' /\ Ordered' /\ UsersInjective' /\ AccountOK' /\ KnownTrue'
  BY TablesKept DEF CommandUser
<1>4. UserOf(w[c].sid) \in UserIds \cup {NoUser}
  BY <1>1, <1>2 DEF TypeOK, UserOf, Live
<1>5. TypeOK'
  BY <1>1, <1>4, RegistryAssumption DEF CommandUser, TypeOK, At, Pcs
<1>6. /\ w'[c].pc = "act" /\ w'[c].sid = w[c].sid /\ w'[c].uid = UserOf(w[c].sid)
      /\ \A d \in Shards : d # c => w'[d] = w[d]
  BY <1>1 DEF TypeOK, At
<1>7. NamedHasUser'
  <2>1. NamedHasUser BY DEF IInv
  <2>2. \A d \in Shards : w[d].pc = "setuser" => w'[d] = w[d]
    BY <1>1, <1>6
  <2> QED BY <2>1, <2>2 DEF CommandUser, NamedHasUser, Live, Named, UserOf
<1>10. OwnPackets' /\ BeforeName'
  BY <1>1, <1>6 DEF CommandUser, IInv, OwnPackets, BeforeName, Live, Named
<1>8. AfterName' /\ LoginOK'
  <2>1. AfterName /\ LoginOK BY DEF IInv
  <2>2. AfterName' BY <1>6, <2>1 DEF CommandUser, AfterName, Live
  <2>3. LoginOK' BY <1>6, <2>1 DEF CommandUser, LoginOK, NickPcs
  <2> QED BY <2>2, <2>3
<1>9. CommandOK'
  <2>1. Live(w[c].sid) =>
          UserOf(w[c].sid) = slot[byId[w[c].sid]].userId /\ UserOf(w[c].sid) # NoUser
    BY <1>1 DEF IInv, CommandOK, UserOf
  <2> QED BY <1>1, <1>6, <2>1 DEF CommandUser, IInv, CommandOK, Live
<1> QED
  BY <1>3, <1>5, <1>7, <1>8, <1>9, <1>10 DEF IInv

-----------------------------------------------------------------------------
\* The two steps that write a session and its index entry.

\* SetName keeps it: the name was free under the lock, and the session had none.
LEMMA SetNameStep == ASSUME NEW c \in Shards, IInv, SetName(c) PROVE IInv'
<1> USE RegistryAssumption DEF Ids, Live, NoUser
<1> DEFINE s0 == w[c].sid
           i  == byId[s0]
           nm == w[c].nm
<1>1. TypeOK /\ MapsCoherent /\ w[c].pc = "setname"
  BY DEF IInv, SetName
<1>2. s0 \in Ids /\ i \in Slots /\ i \notin free /\ slot[i].sid = s0 /\ nm \in Names /\ byName[nm] = 0
  BY <1>1 DEF SetName, NameTaken, IInv, OwnPackets, LoginOK, NickPcs, MapsCoherent, IdIndexExact, TypeOK
<1>3. slot[i].name = NoName /\ slot[i].userId = NoUser
  BY <1>1, <1>2 DEF SetName, IInv, BeforeName, AccountOK, Named, UserOf
<1>4. /\ slot' = [slot EXCEPT ![i].name = nm]
      /\ byName' = [byName EXCEPT ![nm] = s0]
      /\ w' = [w EXCEPT ![c].pc = "setuser"]
      /\ UNCHANGED <<free, byId, byUserId, nextId, users, known>>
  BY DEF SetName, Goto
<1>5. slot'[i].name = nm /\ slot'[i].userId = NoUser /\ slot'[i].sid = s0
  BY <1>1, <1>2, <1>3, <1>4 DEF TypeOK
<1>6. /\ \A j \in Slots : j # i => slot'[j] = slot[j]
      /\ \A s \in Ids : Live(s) /\ s # s0 => byId[s] # i /\ byId[s] \in Slots /\ slot'[byId[s]] = slot[byId[s]]
      /\ \A j \in Slots : slot'[j].sid = slot[j].sid /\ slot'[j].userId = slot[j].userId
  BY <1>1, <1>2, <1>4 DEF TypeOK, MapsCoherent, IdIndexExact
<1>7. byName'[nm] = s0 /\ \A n \in Names : n # nm => byName'[n] = byName[n]
  BY <1>1, <1>2, <1>4 DEF TypeOK
<1>8. TypeOK'
  <2>1. slot' \in [Slots -> [sid : 0..MaxId, name : Names \cup {NoName}, userId : UserIds \cup {NoUser}]]
    <3> DEFINE Object == [sid : 0..MaxId, name : Names \cup {NoName}, userId : UserIds \cup {NoUser}]
    <3>1. slot \in [Slots -> Object]
      BY <1>1 DEF TypeOK
    <3>2. [slot[i] EXCEPT !.name = nm] \in Object
      BY <1>2, <3>1
    <3> HIDE DEF Object
    <3>3. slot' = [slot EXCEPT ![i] = [slot[i] EXCEPT !.name = nm]]
      BY <1>4
    <3>4. slot' \in [Slots -> Object]
      BY <1>2, <3>1, <3>2, <3>3
    <3> QED BY <3>4 DEF Object
  <2>2. byName' \in [Names -> 0..MaxId]
    BY <1>1, <1>2, <1>4 DEF TypeOK
  <2>3. w' \in [Shards -> [pc : Pcs, sid : 0..MaxId, nm : Names \cup {NoName}, uid : UserIds \cup {NoUser}]]
    BY <1>1, <1>4, MovesOn DEF Pcs
  <2> QED BY <1>1, <1>4, <2>1, <2>2, <2>3 DEF TypeOK
<1>9. IdIndexExact'
  <2>1. IdIndexExact BY <1>1 DEF MapsCoherent
  <2>2. \A s \in Ids : Live(s) => byId[s] \in Slots
    BY <1>1 DEF TypeOK
  <2> QED BY <1>4, <1>6, <2>1, <2>2 DEF IdIndexExact
<1>10. NameIndexExact'
  <2>1. ASSUME NEW n \in Names, byName'[n] # 0
        PROVE  byId'[byName'[n]] # NoSlot /\ slot'[byId'[byName'[n]]].name = n
    <3>1. CASE n = nm
      BY <1>2, <1>4, <1>5, <1>7, <3>1 DEF SetName
    <3>2. CASE n # nm
      <4>1. byName'[n] = byName[n] /\ byName[n] \in Ids /\ Live(byName[n]) /\ slot[byId[byName[n]]].name = n
        BY <1>1, <1>7, <2>1, <3>2 DEF TypeOK, MapsCoherent, NameIndexExact
      <4>2. byName[n] # s0
        BY <1>1, <1>2, <1>3, <4>1
      <4>3. byId'[byName[n]] = byId[byName[n]] /\ slot'[byId[byName[n]]] = slot[byId[byName[n]]]
        BY <1>4, <1>6, <4>1, <4>2
      <4> QED BY <4>1, <4>3
    <3> QED BY <3>1, <3>2
  <2>2. ASSUME NEW s \in Ids, byId'[s] # NoSlot, slot'[byId'[s]].name # NoName
        PROVE  byName'[slot'[byId'[s]].name] = s
    <3>1. CASE s = s0
      BY <1>4, <1>5, <1>7, <3>1
    <3>2. CASE s # s0
      <4>1. byId'[s] = byId[s] /\ slot'[byId[s]] = slot[byId[s]] /\ slot[byId[s]].name \in Names
        BY <1>1, <1>4, <1>6, <2>2, <3>2 DEF TypeOK
      <4>2. byName[slot[byId[s]].name] = s
        BY <1>1, <1>4, <2>2, <4>1 DEF MapsCoherent, NameIndexExact, Named
      <4> QED BY <1>2, <1>7, <4>1, <4>2
    <3> QED BY <3>1, <3>2
  <2> QED BY <2>1, <2>2 DEF NameIndexExact, Named
<1>11. UserIndexExact'
  <2>1. UserIndexExact /\ \A u \in UserIds : byUserId[u] # 0 => byUserId[u] \in Ids
    BY <1>1 DEF MapsCoherent, TypeOK
  <2>2. \A s \in Ids : UserOf(s)' = UserOf(s)
    BY <1>1, <1>4, <1>6 DEF TypeOK, UserOf
  <2>3. \A s \in Ids : Live(s) => slot'[byId'[s]].userId = slot[byId[s]].userId
    BY <1>1, <1>4, <1>6 DEF TypeOK
  <2> QED BY <1>4, <2>1, <2>2, <2>3 DEF UserIndexExact
<1>12. Ordered' /\ UsersInjective'
  BY <1>4 DEF IInv, Ordered, UsersInjective
<1>13. AccountOK'
  <2>1. AccountOK BY DEF IInv
  <2>2. ASSUME NEW s \in Ids, byId[s] # NoSlot, slot'[byId[s]].userId # NoUser
        PROVE  slot'[byId[s]].name # NoName /\ users[slot'[byId[s]].name] = slot'[byId[s]].userId
    BY <1>5, <1>6, <2>1, <2>2 DEF AccountOK, Named, UserOf
  <2> QED BY <1>4, <2>2 DEF AccountOK, Named, UserOf
<1>14. /\ w'[c].pc = "setuser" /\ w'[c].sid = s0 /\ w'[c].nm = nm /\ w'[c].uid = w[c].uid
       /\ \A d \in Shards : d # c => w'[d] = w[d]
  BY <1>1, <1>4 DEF TypeOK
<1>15. \A d \in Shards : d # c /\ w[d].pc # "idle" => w[d].sid # s0 /\ w[d].sid \in Ids
  BY <1>1 DEF IInv, OwnPackets
<1>16. NamedHasUser'
  <2>1. NamedHasUser BY DEF IInv
  <2>2. ASSUME NEW s \in Ids, byId[s] # NoSlot, slot'[byId[s]].name # NoName, slot'[byId[s]].userId = NoUser
        PROVE  \E d \in Shards : w'[d].pc = "setuser" /\ w'[d].sid = s
    <3>1. CASE s = s0
      BY <1>14, <3>1
    <3>2. CASE s # s0
      <4>1. PICK d \in Shards : w[d].pc = "setuser" /\ w[d].sid = s
        BY <1>6, <2>1, <2>2, <3>2 DEF NamedHasUser, Named, UserOf
      <4> QED BY <1>1, <1>14, <4>1
    <3> QED BY <3>1, <3>2
  <2> QED BY <1>4, <2>2 DEF NamedHasUser, Named, UserOf
<1>17. OwnPackets' /\ LoginOK'
  BY <1>1, <1>4, <1>14 DEF IInv, OwnPackets, LoginOK, NickPcs
<1>18. BeforeName'
  <2>1. BeforeName BY DEF IInv
  <2>2. ASSUME NEW d \in Shards, d # c, w[d].pc \in {"login", "setname"} PROVE ~Named(w[d].sid)'
    <3>1. ~Named(w[d].sid) /\ w[d].sid \in Ids /\ w[d].sid # s0
      BY <1>15, <2>1, <2>2 DEF BeforeName
    <3>2. w'[d] = w[d]
      BY <1>14, <2>2
    <3>3. byId'[w[d].sid] = byId[w[d].sid]
      BY <1>4
    <3>4. Live(w[d].sid) => slot'[byId[w[d].sid]] = slot[byId[w[d].sid]]
      BY <1>6, <3>1
    <3> QED BY <3>1, <3>2, <3>3, <3>4 DEF Named
  <2> QED BY <1>14, <2>2 DEF BeforeName
<1>19. AfterName'
  <2>1. AfterName BY DEF IInv
  <2>2. ASSUME NEW d \in Shards, d # c, w[d].pc # "idle", Live(w[d].sid)
        PROVE  slot'[byId'[w[d].sid]] = slot[byId[w[d].sid]]
    BY <1>4, <1>6, <1>15, <2>2
  <2>3. ASSUME NEW d \in Shards, w'[d].pc \in {"setuser", "friends", "roster", "announce"},
              byId'[w'[d].sid] # NoSlot
       PROVE  /\ slot'[byId'[w'[d].sid]].name = w'[d].nm
              /\ slot'[byId'[w'[d].sid]].userId = IF w'[d].pc = "setuser" THEN NoUser ELSE w'[d].uid
    <3>1. CASE d = c
      BY <1>4, <1>5, <1>14, <3>1
    <3>2. CASE d # c
      <4>1. w'[d] = w[d] /\ byId' = byId
        BY <1>4, <1>14, <3>2
      <4> QED BY <2>1, <2>2, <2>3, <3>2, <4>1 DEF AfterName
    <3> QED BY <3>1, <3>2
  <2> QED BY <2>3 DEF AfterName
<1>20. CommandOK'
  <2>1. CommandOK BY DEF IInv
  <2>2. ASSUME NEW d \in Shards, d # c, w[d].pc # "idle", Live(w[d].sid)
        PROVE  slot'[byId'[w[d].sid]] = slot[byId[w[d].sid]]
    BY <1>4, <1>6, <1>15, <2>2
  <2>3. ASSUME NEW d \in Shards, w'[d].pc \in {"user", "act"}, byId'[w'[d].sid] # NoSlot
        PROVE  /\ d # c /\ w'[d] = w[d] /\ Live(w[d].sid)
               /\ slot'[byId'[w'[d].sid]] = slot[byId[w[d].sid]]
    <3>1. d # c
      BY <1>14, <2>3
    <3>2. w'[d] = w[d] /\ byId' = byId
      BY <1>4, <1>14, <3>1
    <3> QED BY <2>2, <2>3, <3>1, <3>2
  <2> QED BY <2>1, <2>3 DEF CommandOK
<1>21. KnownTrue'
  <2>1. KnownTrue BY DEF IInv
  <2>2. ASSUME NEW s \in Ids, NEW n \in Names PROVE <<s0, n>> \notin known[s]
    BY <1>2, <1>3, <2>1 DEF KnownTrue, SetName
  <2> QED BY <1>4, <1>6, <2>1, <2>2 DEF KnownTrue
<1> QED
  BY <1>8, <1>9, <1>10, <1>11, <1>12, <1>13, <1>16, <1>17, <1>18, <1>19, <1>20, <1>21
     DEF IInv, MapsCoherent

\* SetUserId keeps it: since SetName the session has the name of this user.
LEMMA SetUserIdStep == ASSUME NEW c \in Shards, IInv, SetUserId(c) PROVE IInv'
<1> USE RegistryAssumption DEF Ids, Live, NoUser
<1> DEFINE s0 == w[c].sid
           i  == byId[s0]
           u0 == w[c].uid
<1>1. TypeOK /\ MapsCoherent /\ w[c].pc = "setuser"
  BY DEF IInv, SetUserId
<1>2. s0 \in Ids /\ w[c].nm \in Names /\ u0 \in UserIds /\ users[w[c].nm] = u0
  BY <1>1 DEF IInv, OwnPackets, LoginOK, NickPcs, TypeOK
<1>3. /\ w' = [w EXCEPT ![c].pc = "friends"]
      /\ UNCHANGED <<free, byId, byName, nextId, users, known>>
  BY DEF SetUserId, Goto
<1>4. /\ w'[c].pc = "friends" /\ w'[c].sid = s0 /\ w'[c].nm = w[c].nm /\ w'[c].uid = u0
      /\ \A d \in Shards : d # c => w'[d] = w[d]
  BY <1>1, <1>3 DEF TypeOK
<1>5. w' \in [Shards -> [pc : Pcs, sid : 0..MaxId, nm : Names \cup {NoName}, uid : UserIds \cup {NoUser}]]
  BY <1>1, <1>3, MovesOn DEF Pcs
<1>6. OwnPackets' /\ LoginOK' /\ Ordered' /\ UsersInjective'
  BY <1>1, <1>3, <1>4 DEF IInv, OwnPackets, LoginOK, NickPcs, Ordered, UsersInjective
<1>7. \A d \in Shards : d # c /\ w[d].pc # "idle" => w[d].sid # s0 /\ w[d].sid \in Ids
  BY <1>1 DEF IInv, OwnPackets
<1>8. CASE ~Live(s0)
  <2>1. UNCHANGED <<slot, byUserId>>
    BY <1>8 DEF SetUserId
  <2>2. TypeOK'
    BY <1>1, <1>3, <1>5, <2>1 DEF TypeOK
  <2>3. MapsCoherent'
    BY <1>3, <2>1, IndexesKept
  <2>4. AccountOK' /\ KnownTrue'
    BY <1>3, <2>1 DEF IInv, AccountOK, KnownTrue, Named, UserOf
  <2>5. NamedHasUser'
    <3>1. NamedHasUser BY DEF IInv
    <3>2. ASSUME NEW s \in Ids, Named(s), UserOf(s) = NoUser
          PROVE  \E d \in Shards : w'[d].pc = "setuser" /\ w'[d].sid = s
      <4>1. PICK d \in Shards : w[d].pc = "setuser" /\ w[d].sid = s
        BY <3>1, <3>2 DEF NamedHasUser
      <4>2. d # c
        BY <1>8, <3>2, <4>1 DEF Named
      <4> QED BY <1>4, <4>1, <4>2
    <3> QED BY <1>3, <2>1, <3>2 DEF NamedHasUser, Named, UserOf
  <2>6. BeforeName'
    <3>1. BeforeName BY DEF IInv
    <3> QED BY <1>3, <1>4, <2>1, <3>1 DEF BeforeName, Named
  <2>7. AfterName'
    <3>1. AfterName BY DEF IInv
    <3> QED BY <1>3, <1>4, <1>8, <2>1, <3>1 DEF AfterName
  <2>8. CommandOK'
    <3>1. CommandOK BY DEF IInv
    <3> QED BY <1>3, <1>4, <2>1, <3>1 DEF CommandOK
  <2> QED BY <1>6, <2>2, <2>3, <2>4, <2>5, <2>6, <2>7, <2>8 DEF IInv
<1>9. CASE Live(s0)
  <2>1. slot' = [slot EXCEPT ![i].userId = u0] /\ byUserId' = [byUserId EXCEPT ![u0] = s0]
    BY <1>9 DEF SetUserId
  <2>2. /\ i \in Slots /\ i \notin free /\ slot[i].sid = s0
        /\ slot[i].name = w[c].nm /\ slot[i].userId = NoUser
    BY <1>1, <1>2, <1>9 DEF MapsCoherent, IdIndexExact, TypeOK, IInv, AfterName
  <2>3. slot'[i].name = w[c].nm /\ slot'[i].userId = u0 /\ slot'[i].sid = s0
    BY <1>1, <2>1, <2>2 DEF TypeOK
  <2>4. /\ \A j \in Slots : j # i => slot'[j] = slot[j]
        /\ \A s \in Ids : Live(s) /\ s # s0 => byId[s] # i /\ byId[s] \in Slots /\ slot'[byId[s]] = slot[byId[s]]
        /\ \A j \in Slots : slot'[j].sid = slot[j].sid /\ slot'[j].name = slot[j].name
    <3>1. \A j \in Slots : j # i => slot'[j] = slot[j]
      BY <1>1, <2>1 DEF TypeOK
    <3>2. \A j \in Slots : slot'[j].sid = slot[j].sid /\ slot'[j].name = slot[j].name
      BY <1>1, <2>1 DEF TypeOK
    <3>3. ASSUME NEW s \in Ids, Live(s), s # s0 PROVE byId[s] # i /\ byId[s] \in Slots
      <4>1. byId[s] \in Slots
        BY <1>1, <3>3 DEF TypeOK
      <4>2. slot[byId[s]].sid = s
        BY <1>1, <3>3 DEF MapsCoherent, IdIndexExact
      <4> QED BY <2>2, <3>3, <4>1, <4>2
    <3> QED BY <3>1, <3>2, <3>3
  <2>5. byUserId'[u0] = s0 /\ \A u \in UserIds : u # u0 => byUserId'[u] = byUserId[u]
    BY <1>1, <1>2, <2>1 DEF TypeOK
  <2>6. \A s \in Ids : Live(s) => slot'[byId'[s]].name = slot[byId[s]].name
    BY <1>1, <1>3, <2>4 DEF TypeOK
  <2>7. TypeOK'
    <3> DEFINE Object == [sid : 0..MaxId, name : Names \cup {NoName}, userId : UserIds \cup {NoUser}]
    <3>2. \A r \in Object, u \in UserIds : [r EXCEPT !.userId = u] \in Object
      OBVIOUS
    <3>3. slot[i] \in Object
      BY <1>1, <2>2 DEF TypeOK
    <3>1. slot' \in [Slots -> Object]
      BY <1>1, <1>2, <2>1, <2>2, <3>2, <3>3 DEF TypeOK
    <3>4. byUserId' \in [UserIds -> 0..MaxId]
      BY <1>1, <1>2, <2>1 DEF TypeOK
    <3> QED BY <1>1, <1>3, <1>5, <3>1, <3>4 DEF TypeOK
  <2>8. IdIndexExact'
    BY <1>1, <1>3, <2>4 DEF MapsCoherent, IdIndexExact, TypeOK
  <2>9. NameIndexExact'
    <3>1. NameIndexExact /\ \A n \in Names : byName[n] # 0 => byName[n] \in Ids
      BY <1>1 DEF MapsCoherent, TypeOK
    <3> QED BY <1>3, <2>6, <3>1 DEF NameIndexExact, Named
  \* No other session has this user: it would have this session's name.
  <2>10. \A s \in Ids : Live(s) /\ slot[byId[s]].userId = u0 => s = s0
    <3> SUFFICES ASSUME NEW s \in Ids, Live(s), slot[byId[s]].userId = u0 PROVE s = s0
        OBVIOUS
    <3>1. Named(s) /\ users[slot[byId[s]].name] = u0
      BY <1>2 DEF IInv, AccountOK, UserOf
    <3>2. slot[byId[s]].name = w[c].nm
      BY <1>1, <1>2, <3>1 DEF IInv, UsersInjective, Named, TypeOK
    <3>3. byName[w[c].nm] = s /\ byName[w[c].nm] = s0
      BY <1>1, <1>2, <1>9, <2>2, <3>1, <3>2 DEF MapsCoherent, NameIndexExact, Named
    <3> QED BY <3>3
  <2>11. UserIndexExact'
    <3>1. ASSUME NEW u \in UserIds, byUserId'[u] # 0
          PROVE  byId'[byUserId'[u]] # NoSlot /\ slot'[byId'[byUserId'[u]]].userId = u
      <4>1. CASE u = u0
        BY <1>3, <1>9, <2>3, <2>5, <4>1
      <4>2. CASE u # u0
        <5>1. byUserId'[u] = byUserId[u] /\ byUserId[u] \in Ids /\ Live(byUserId[u])
              /\ slot[byId[byUserId[u]]].userId = u
          <6>1. byUserId'[u] = byUserId[u] /\ byUserId[u] \in Ids
            BY <1>1, <2>5, <3>1, <4>2 DEF TypeOK
          <6> QED BY <1>1, <3>1, <6>1 DEF MapsCoherent, UserIndexExact
        <5>2. byUserId[u] # s0
          BY <1>1, <1>2, <2>2, <5>1
        <5> QED BY <1>3, <2>4, <5>1, <5>2
      <4> QED BY <4>1, <4>2
    <3>2. ASSUME NEW s \in Ids, byId'[s] # NoSlot, slot'[byId'[s]].userId # NoUser
          PROVE  byUserId'[slot'[byId'[s]].userId] = s
      <4>1. CASE s = s0
        BY <1>3, <2>3, <2>5, <4>1
      <4>2. CASE s # s0
        <5>1. byId'[s] = byId[s] /\ slot'[byId[s]] = slot[byId[s]] /\ slot[byId[s]].userId \in UserIds
          BY <1>1, <1>3, <2>4, <3>2, <4>2 DEF TypeOK
        <5>2. byUserId[slot[byId[s]].userId] = s /\ slot[byId[s]].userId # u0
          BY <1>1, <1>3, <2>10, <3>2, <4>2, <5>1 DEF MapsCoherent, UserIndexExact, UserOf
        <5> QED BY <2>5, <5>1, <5>2
      <4> QED BY <4>1, <4>2
    <3> QED BY <3>1, <3>2 DEF UserIndexExact, UserOf
  <2>12. AccountOK'
    <3>1. AccountOK BY DEF IInv
    <3>2. ASSUME NEW s \in Ids, byId[s] # NoSlot, slot'[byId[s]].userId # NoUser
          PROVE  slot'[byId[s]].name # NoName /\ users[slot'[byId[s]].name] = slot'[byId[s]].userId
      BY <1>2, <2>3, <2>4, <3>1, <3>2 DEF AccountOK, Named, UserOf
    <3> QED BY <1>3, <3>2 DEF AccountOK, Named, UserOf
  <2>13. NamedHasUser'
    <3>1. NamedHasUser BY DEF IInv
    <3>2. ASSUME NEW s \in Ids, byId[s] # NoSlot, slot'[byId[s]].name # NoName, slot'[byId[s]].userId = NoUser
          PROVE  \E d \in Shards : w'[d].pc = "setuser" /\ w'[d].sid = s
      <4>1. s # s0
        BY <1>2, <2>3, <3>2
      <4>2. PICK d \in Shards : w[d].pc = "setuser" /\ w[d].sid = s
        BY <2>4, <3>1, <3>2, <4>1 DEF NamedHasUser, Named, UserOf
      <4> QED BY <1>1, <1>4, <4>1, <4>2
    <3> QED BY <1>3, <3>2 DEF NamedHasUser, Named, UserOf
  <2>14. BeforeName'
    <3>1. BeforeName BY DEF IInv
    <3> QED BY <1>3, <1>4, <1>7, <2>4, <3>1 DEF BeforeName, Named
  <2>15. AfterName'
    <3>1. AfterName BY DEF IInv
    <3>2. ASSUME NEW d \in Shards, d # c, w[d].pc # "idle", Live(w[d].sid)
          PROVE  slot'[byId'[w[d].sid]] = slot[byId[w[d].sid]]
      BY <1>3, <1>7, <2>4, <3>2
    <3>3. ASSUME NEW d \in Shards, w'[d].pc \in {"setuser", "friends", "roster", "announce"},
                byId'[w'[d].sid] # NoSlot
         PROVE  /\ slot'[byId'[w'[d].sid]].name = w'[d].nm
                /\ slot'[byId'[w'[d].sid]].userId = IF w'[d].pc = "setuser" THEN NoUser ELSE w'[d].uid
      <4>1. CASE d = c
        BY <1>3, <1>4, <2>3, <4>1
      <4>2. CASE d # c
        <5>1. w'[d] = w[d] /\ byId' = byId
          BY <1>3, <1>4, <4>2
        <5> QED BY <3>1, <3>2, <3>3, <4>2, <5>1 DEF AfterName
      <4> QED BY <4>1, <4>2
    <3> QED BY <3>3 DEF AfterName
  <2>16. CommandOK'
    <3>1. CommandOK BY DEF IInv
    <3> QED BY <1>3, <1>4, <1>7, <2>4, <3>1 DEF CommandOK
  <2>17. KnownTrue'
    <3>1. KnownTrue BY DEF IInv
    <3> QED BY <1>3, <2>6, <3>1 DEF KnownTrue
  <2> QED
    BY <1>6, <2>7, <2>8, <2>9, <2>11, <2>12, <2>13, <2>14, <2>15, <2>16, <2>17 DEF IInv, MapsCoherent
<1> QED
  BY <1>8, <1>9

-----------------------------------------------------------------------------
\* Every step of the registry keeps the invariant.
LEMMA NextIInv == IInv /\ [Next]_vars => IInv'
<1> SUFFICES ASSUME IInv, [Next]_vars PROVE IInv'
    OBVIOUS
<1>1. CASE Create
  BY <1>1, CreateStep
<1>2. CASE Destroy
  BY <1>2, DestroyStep
<1>3. ASSUME NEW c \in Shards, HandleNick(c) PROVE IInv'
  <2>1. CASE NickCheck(c) BY <2>1, NickCheckStep
  <2>2. CASE Login(c) BY <2>2, LoginStep
  <2>3. CASE LoginFails(c) BY <2>3, FinishStep DEF LoginFails
  <2>4. CASE SetName(c) BY <2>4, SetNameStep
  <2>5. CASE SetNameRefused(c) BY <2>5, FinishStep DEF SetNameRefused
  <2>6. CASE SetUserId(c) BY <2>6, SetUserIdStep
  <2>7. CASE LoadFriends(c) BY <2>7, LoadFriendsStep
  <2>8. CASE LoadFriendsFails(c) BY <2>8, FinishStep DEF LoadFriendsFails
  <2>9. CASE SendRosterTo(c) BY <2>9, SendRosterStep
  <2>10. CASE Announce(c) BY <2>10, AnnounceStep
  <2> QED
    BY <1>3, <2>1, <2>2, <2>3, <2>4, <2>5, <2>6, <2>7, <2>8, <2>9, <2>10 DEF HandleNick
<1>4. ASSUME NEW c \in Shards, Command(c) PROVE IInv'
  <2>1. CASE CommandCheck(c) BY <2>1, CommandCheckStep
  <2>2. CASE CommandUser(c) BY <2>2, CommandUserStep
  <2>3. CASE CommandDone(c) BY <2>3, FinishStep DEF CommandDone
  <2> QED
    BY <1>4, <2>1, <2>2, <2>3 DEF Command
<1>5. CASE UNCHANGED vars
  <2> USE <1>5 DEF vars, IInv
  <2>1. TypeOK' BY DEF TypeOK
  <2>2. MapsCoherent' /\ Ordered' /\ UsersInjective' /\ AccountOK' /\ KnownTrue'
    BY TablesKept
  <2>3. NamedHasUser' /\ BeforeName'
    BY DEF NamedHasUser, BeforeName, Live, Named, UserOf
  <2>4. OwnPackets' /\ LoginOK' /\ AfterName' /\ CommandOK'
    BY DEF OwnPackets, LoginOK, AfterName, CommandOK, Live
  <2> QED BY <2>1, <2>2, <2>3, <2>4
<1> QED
  BY <1>1, <1>2, <1>3, <1>4, <1>5 DEF Next

\* The inductive invariant holds in every behaviour.
THEOREM Invariance == Spec => []IInv
<1>1. Init => IInv
  BY InitIInv
<1>2. IInv /\ [Next]_vars => IInv'
  BY NextIInv
<1> QED
  BY <1>1, <1>2, PTL DEF Spec

\* The ranges of the variables, for every pool and any number of sessions.
THEOREM TypeCorrect == Spec => []TypeOK
<1>1. IInv => TypeOK
  BY DEF IInv
<1> QED
  BY <1>1, Invariance, PTL

\* SessionManager's three indexes and the pool always describe the same
\* sessions, whatever Create, Destroy, SetName and SetUserId interleave.
THEOREM IndexesCoherent == Spec => []MapsCoherent
<1>1. IInv => MapsCoherent
  BY DEF IInv
<1> QED
  BY <1>1, Invariance, PTL

\* No two live sessions act for one account ("already online").
THEOREM OneSession == Spec => []OneSessionPerUser
<1>1. IInv => OneSessionPerUser
  BY DEF IInv, OneSessionPerUser, AccountOK, MapsCoherent, UserIndexExact
<1> QED
  BY <1>1, Invariance, PTL

\* A command never works for another user than that of its session, although
\* IsNamed and GetUserId are two separate looks at the registry.
THEOREM CommandsAttributed == Spec => []CommandActsForItsUser
<1>1. IInv => CommandActsForItsUser
  <2> SUFFICES ASSUME IInv, NEW c \in Shards, w[c].pc = "act", Live(w[c].sid)
               PROVE  w[c].uid # NoUser /\ w[c].uid = UserOf(w[c].sid)
      BY DEF CommandActsForItsUser
  <2> QED BY DEF IInv, CommandOK, UserOf
<1> QED
  BY <1>1, Invariance, PTL

-----------------------------------------------------------------------------
\* A session keeps its name and its user: SetName only meets sessions without a
\* name, because their packets all pass through one consumer.
THEOREM IdentitiesStable == Spec => IdentityStable
<1> DEFINE Kept == \A s \in Ids : Named(s) /\ Live(s)' =>
                     /\ slot'[byId'[s]].name = slot[byId[s]].name
                     /\ UserOf(s) # NoUser => UserOf(s)' = UserOf(s)
<1>1. IInv /\ [Next]_vars => [Kept]_vars
  <2> SUFFICES ASSUME IInv, Next, NEW s \in Ids,
                      byId[s] # NoSlot, slot[byId[s]].name # NoName, byId'[s] # NoSlot
               PROVE  /\ slot'[byId'[s]].name = slot[byId[s]].name
                      /\ slot[byId[s]].userId # NoUser => slot'[byId'[s]].userId = slot[byId[s]].userId
      BY DEF Named, Live, UserOf
  <2>1. TypeOK /\ byId[s] \in Slots \ free /\ slot[byId[s]].sid = s /\ s < nextId
    BY DEF IInv, MapsCoherent, IdIndexExact, Ordered, Live, TypeOK
  <2>2. CASE Create
    BY <2>1, <2>2 DEF Create, Alloc, InitSlot, TypeOK, Ids
  <2>3. CASE Destroy
    <3>1. PICK i \in Slots \ free : Unindex(i) /\ slot' = slot
      BY <2>3 DEF Destroy
    <3> QED BY <2>1, <3>1 DEF Unindex, TypeOK
  <2>4. ASSUME NEW c \in Shards, SetName(c)
        PROVE  byId'[s] = byId[s] /\ slot'[byId[s]] = slot[byId[s]]
    <3>1. w[c].sid # s /\ w[c].sid \in Ids
      BY <2>4 DEF SetName, IInv, BeforeName, OwnPackets, Named, Live
    <3>2. byId[w[c].sid] # byId[s]
      BY <2>1, <2>4, <3>1 DEF SetName, IInv, MapsCoherent, IdIndexExact
    <3> QED BY <2>1, <2>4, <3>2 DEF SetName, TypeOK
  <2>5. ASSUME NEW c \in Shards, SetUserId(c)
        PROVE  /\ byId'[s] = byId[s] /\ slot'[byId[s]].name = slot[byId[s]].name
               /\ slot[byId[s]].userId # NoUser => slot'[byId[s]] = slot[byId[s]]
    <3>1. CASE ~Live(w[c].sid)
      BY <2>5, <3>1 DEF SetUserId
    <3>2. CASE Live(w[c].sid)
      <4>1. slot' = [slot EXCEPT ![byId[w[c].sid]].userId = w[c].uid] /\ byId' = byId
        BY <2>5, <3>2 DEF SetUserId
      <4>2. slot[byId[w[c].sid]].userId = NoUser
        BY <2>5, <3>2 DEF SetUserId, IInv, AfterName
      <4> QED BY <2>1, <4>1, <4>2 DEF TypeOK
    <3> QED BY <3>1, <3>2
  <2>6. ASSUME UNCHANGED <<slot, byId>>
        PROVE  byId'[s] = byId[s] /\ slot'[byId[s]] = slot[byId[s]]
    BY <2>6
  <2>7. ASSUME NEW c \in Shards, HandleNick(c) \/ Command(c)
        PROVE  SetName(c) \/ SetUserId(c) \/ UNCHANGED <<slot, byId>>
    BY <2>7 DEF HandleNick, Command, NickCheck, Login, LoginFails, SetNameRefused, LoadFriends,
                LoadFriendsFails, SendRosterTo, Announce, CommandCheck, CommandUser, CommandDone
  <2> QED
    BY <2>2, <2>3, <2>4, <2>5, <2>6, <2>7 DEF Next
<1> QED
  BY <1>1, Invariance, PTL DEF Spec, IdentityStable

-----------------------------------------------------------------------------
\* The roster. RosterComplete needs RosterSent: what holds between SendRosterTo
\* and Broadcast, when the session is named but not announced yet.

\* A step that changes no session and tells no client anything keeps RosterSent.
LEMMA QuietStep ==
  ASSUME RosterComplete, RosterSent,
         \A s \in Ids : /\ byId'[s] # NoSlot /\ slot'[byId'[s]].name # NoName
                       /\ <<s, slot'[byId'[s]].name>> \in known'[s]
                       => /\ byId[s] # NoSlot /\ slot'[byId'[s]].name = slot[byId[s]].name
                          /\ known'[s] = known[s],
         \A c \in Shards : w'[c].pc = "announce" /\ byId'[w'[c].sid] # NoSlot
                       => /\ w[c].pc = "announce" /\ w'[c].sid = w[c].sid
                          /\ byId[w[c].sid] # NoSlot /\ known'[w[c].sid] = known[w[c].sid]
  PROVE  RosterComplete' /\ RosterSent'
<1>1. RosterComplete'
  BY DEF RosterComplete, Announced, Named, Live, Line
<1>2. RosterSent'
  BY DEF RosterSent, Announced, Named, Live, Line
<1> QED
  BY <1>1, <1>2

\* A new session is not announced, and knows nobody yet.
LEMMA RosterCreate ==
  ASSUME IInv, RosterComplete, RosterSent, Create PROVE RosterComplete' /\ RosterSent'
<1>1. TypeOK BY DEF IInv
<1>2. PICK i \in free : /\ slot' = [slot EXCEPT ![i] = [sid |-> nextId, name |-> NoName, userId |-> NoUser]]
                        /\ byId' = [byId EXCEPT ![nextId] = i]
  BY DEF Create, Alloc, InitSlot
<1>3. nextId \in Ids /\ i \in Slots /\ UNCHANGED <<known, w>>
  BY <1>1, RegistryAssumption DEF Create, TypeOK, Ids
<1>4. \A s \in Ids : Live(s) => byId[s] # i /\ byId[s] \in Slots
  BY <1>1, <1>2 DEF IInv, MapsCoherent, IdIndexExact, TypeOK, Live
<1>5. byId'[nextId] = i /\ slot'[i].name = NoName
  BY <1>1, <1>2, <1>3 DEF TypeOK
<1>6. \A s \in Ids : s # nextId =>
        byId'[s] = byId[s] /\ (byId[s] # NoSlot => slot'[byId[s]] = slot[byId[s]])
  BY <1>1, <1>2, <1>3, <1>4 DEF TypeOK, Live
<1>7. \A c \in Shards : w[c].pc = "announce" => w[c].sid \in Ids /\ w[c].sid # nextId
  BY <1>1 DEF IInv, OwnPackets, TypeOK, Ids
<1>8. \A s \in Ids : byId'[s] # NoSlot /\ slot'[byId'[s]].name # NoName =>
        byId[s] # NoSlot /\ slot'[byId'[s]].name = slot[byId[s]].name
  BY <1>5, <1>6
<1>9. \A c \in Shards : w[c].pc = "announce" => byId'[w[c].sid] = byId[w[c].sid]
  BY <1>6, <1>7
<1> QED
  BY <1>3, <1>8, <1>9, QuietStep

\* A session that ends is no longer to be known.
LEMMA RosterDestroy ==
  ASSUME IInv, RosterComplete, RosterSent, Destroy PROVE RosterComplete' /\ RosterSent'
<1>1. TypeOK /\ MapsCoherent BY DEF IInv
<1>2. PICK i \in Slots \ free : /\ byId' = [byId EXCEPT ![slot[i].sid] = NoSlot]
                                /\ known' = [known EXCEPT ![slot[i].sid] = {}]
                                /\ UNCHANGED <<slot, w>>
  BY DEF Destroy, Unindex
<1>3. slot[i].sid \in Ids
  BY <1>1 DEF MapsCoherent, IdIndexExact
<1>4. \A s \in Ids : byId'[s] # NoSlot => byId'[s] = byId[s] /\ known'[s] = known[s]
  BY <1>1, <1>2, <1>3 DEF TypeOK
<1>5. \A c \in Shards : w[c].pc = "announce" => w[c].sid \in Ids
  BY DEF IInv, OwnPackets
<1>6. \A s \in Ids : byId'[s] # NoSlot =>
        byId[s] # NoSlot /\ slot'[byId'[s]].name = slot[byId[s]].name /\ known'[s] = known[s]
  BY <1>2, <1>4
<1> QED
  BY <1>2, <1>5, <1>6, QuietStep

\* A session that gets its name is not announced yet.
LEMMA RosterSetName ==
  ASSUME IInv, RosterComplete, RosterSent, NEW c \in Shards, SetName(c)
  PROVE  RosterComplete' /\ RosterSent'
<1>1. TypeOK /\ w[c].sid \in Ids /\ w[c].nm \in Names /\ Live(w[c].sid) /\ ~Named(w[c].sid)
      /\ UNCHANGED <<byId, known>> /\ slot' = [slot EXCEPT ![byId[w[c].sid]].name = w[c].nm]
      /\ w' = [w EXCEPT ![c].pc = "setuser"]
  BY DEF IInv, SetName, OwnPackets, LoginOK, NickPcs, BeforeName, Goto
<1>2. \A s \in Ids : Live(s) /\ s # w[c].sid => slot'[byId[s]] = slot[byId[s]]
  BY <1>1 DEF IInv, MapsCoherent, IdIndexExact, TypeOK, Live
<1>3. \A n \in Names : <<w[c].sid, n>> \notin known[w[c].sid]
  BY <1>1, RegistryAssumption DEF IInv, KnownTrue, Named
<1>4. slot'[byId[w[c].sid]].name = w[c].nm
  BY <1>1 DEF TypeOK, Live
<1>5. \A d \in Shards : w'[d].pc = "announce" => w'[d] = w[d]
  BY <1>1 DEF TypeOK
<1>6. \A s \in Ids : /\ byId[s] # NoSlot /\ slot'[byId[s]].name # NoName
                     /\ <<s, slot'[byId[s]].name>> \in known[s]
                     => slot'[byId[s]].name = slot[byId[s]].name
  BY <1>1, <1>2, <1>3, <1>4 DEF Live
<1> QED
  BY <1>1, <1>5, <1>6, QuietStep

\* Nor is one that gets its user id.
LEMMA RosterSetUserId ==
  ASSUME IInv, RosterComplete, RosterSent, NEW c \in Shards, SetUserId(c)
  PROVE  RosterComplete' /\ RosterSent'
<1>1. TypeOK /\ UNCHANGED <<byId, known>> /\ w' = [w EXCEPT ![c].pc = "friends"]
  BY DEF IInv, SetUserId, Goto
<1>2. \A j \in Slots : slot'[j].name = slot[j].name
  <2>1. slot' = slot \/ slot' = [slot EXCEPT ![byId[w[c].sid]].userId = w[c].uid]
    BY DEF SetUserId
  <2> QED BY <1>1, <2>1 DEF TypeOK
<1>3. \A d \in Shards : w'[d].pc = "announce" => w'[d] = w[d]
  BY <1>1 DEF TypeOK
<1>4. \A s \in Ids : byId[s] # NoSlot => slot'[byId[s]].name = slot[byId[s]].name
  BY <1>1, <1>2 DEF TypeOK
<1> QED
  BY <1>1, <1>3, <1>4, QuietStep

\* The steps that move only the consumer, and not to "announce".
LEMMA RosterOther ==
  ASSUME IInv, RosterComplete, RosterSent, NEW c \in Shards, UNCHANGED <<byId, slot, known>>,
         NEW r, w' = [w EXCEPT ![c] = r], r.pc # "announce"
  PROVE  RosterComplete' /\ RosterSent'
<1>1. \A d \in Shards : w'[d].pc = "announce" => w'[d] = w[d]
  BY DEF IInv, TypeOK
<1> QED
  BY <1>1, QuietStep

\* The roster has the line of every announced session.
LEMMA RosterSend ==
  ASSUME ~Lossy, IInv, RosterComplete, RosterSent, NEW c \in Shards, SendRosterTo(c)
  PROVE  RosterComplete' /\ RosterSent'
<1> DEFINE s0 == w[c].sid
<1>1. TypeOK /\ s0 \in Ids /\ UNCHANGED <<byId, slot>> /\ w' = [w EXCEPT ![c].pc = "announce"]
  BY DEF IInv, SendRosterTo, OwnPackets, Goto
<1>2. /\ w'[c].pc = "announce" /\ w'[c].sid = s0
      /\ \A d \in Shards : d # c => w'[d] = w[d]
      /\ \A d \in Shards : d # c /\ w[d].pc = "announce" => w[d].sid # s0 /\ w[d].sid \in Ids
  BY <1>1 DEF TypeOK, IInv, OwnPackets, SendRosterTo
<1>3. CASE ~Live(s0)
  <2>1. known' = known
    BY <1>3 DEF SendRosterTo
  <2>2. RosterComplete'
    BY <1>1, <2>1 DEF RosterComplete, Announced, Named, Live, Line
  <2>3. RosterSent'
    BY <1>1, <1>2, <1>3, <2>1 DEF RosterSent, Announced, Named, Live, Line
  <2> QED BY <2>2, <2>3
<1>4. CASE Live(s0)
  <2>1. known' = [known EXCEPT ![s0] = @ \cup {Line(s) : s \in NamedSessions \ {s0}}]
    BY <1>4 DEF SendRosterTo, Delivered
  <2>2. /\ \A s \in Ids : s # s0 => known'[s] = known[s]
        /\ known'[s0] = known[s0] \cup {Line(s) : s \in NamedSessions \ {s0}}
    BY <1>1, <2>1 DEF TypeOK
  <2>3. \A t \in Ids : Line(t) \in known'[t] /\ Named(t) => Announced(t)
    BY <2>2 DEF Announced, Line
  <2>4. \A t \in Ids : Announced(t) => Line(t) \in known'[s0]
    BY <2>2 DEF Announced, NamedSessions
  <2>5. \A s, t \in Ids : Announced(s) /\ Announced(t) => Line(t) \in known'[s]
    BY <2>2, <2>4 DEF RosterComplete
  <2>6. RosterComplete'
    BY <1>1, <2>3, <2>5 DEF RosterComplete, Announced, Named, Live, Line
  <2>7. \A d \in Shards, t \in Ids :
          w'[d].pc = "announce" /\ byId[w'[d].sid] # NoSlot /\ Announced(t) => Line(t) \in known'[w'[d].sid]
    BY <1>2, <2>2, <2>4 DEF RosterSent, Live
  <2>8. RosterSent'
    BY <1>1, <2>3, <2>7 DEF RosterSent, Announced, Named, Live, Line
  <2> QED BY <2>6, <2>8
<1> QED
  BY <1>3, <1>4

\* An announcement reaches every session past its roster.
LEMMA RosterAnnounce ==
  ASSUME ~Lossy, IInv, RosterComplete, RosterSent, NEW c \in Shards, Announce(c)
  PROVE  RosterComplete' /\ RosterSent'
<1> DEFINE s0 == w[c].sid
           l0 == <<w[c].sid, w[c].nm>>
<1>1. TypeOK /\ s0 \in Ids /\ UNCHANGED <<byId, slot>> /\ w' = [w EXCEPT ![c] = Idle]
      /\ w[c].pc = "announce" /\ (Live(s0) => l0 = Line(s0))
  BY DEF IInv, Announce, OwnPackets, Finish, AfterName, Line
<1>2. known' = [s \in Ids |-> IF s \in NamedSessions THEN known[s] \cup {l0} ELSE known[s]]
  BY DEF Announce, Broadcast, Delivered
<1>3. /\ \A s \in Ids : Named(s) => known'[s] = known[s] \cup {l0}
      /\ \A s \in Ids : known[s] \subseteq known'[s]
  BY <1>2 DEF NamedSessions
<1>4. \A s \in Ids : Named(s) => s = s0 \/ Line(s) # l0
  BY DEF Line
<1>5. \A s, t \in Ids : Named(s) /\ Line(s) \in known'[s] /\ Named(t) /\ Line(t) \in known'[t]
                        => Line(t) \in known'[s]
  <2> SUFFICES ASSUME NEW s \in Ids, NEW t \in Ids, Named(s), Line(s) \in known'[s],
                      Named(t), Line(t) \in known'[t]
               PROVE  Line(t) \in known'[s]
      OBVIOUS
  <2>1. CASE t = s0
    BY <1>1, <1>3, <2>1 DEF Named
  <2>2. CASE t # s0
    <3>1. Announced(t)
      BY <1>3, <1>4, <2>2 DEF Announced
    <3>2. CASE s = s0
      BY <1>1, <1>3, <3>1, <3>2 DEF RosterSent, Named
    <3>3. CASE s # s0
      <4>1. Announced(s)
        BY <1>3, <1>4, <3>3 DEF Announced
      <4> QED BY <1>3, <3>1, <4>1 DEF RosterComplete
    <3> QED BY <3>2, <3>3
  <2> QED BY <2>1, <2>2
<1>6. RosterComplete'
  BY <1>1, <1>5 DEF RosterComplete, Announced, Named, Live, Line
<1>7. \A d \in Shards : w'[d].pc = "announce" => w'[d] = w[d] /\ w[d].sid \in Ids
  BY <1>1 DEF IInv, TypeOK, OwnPackets, Idle, At
<1>8. \A d \in Shards, t \in Ids :
        w'[d].pc = "announce" /\ Live(w[d].sid) /\ Named(t) /\ Line(t) \in known'[t]
          => Line(t) \in known'[w[d].sid]
  <2> SUFFICES ASSUME NEW d \in Shards, NEW t \in Ids, w'[d].pc = "announce", Live(w[d].sid),
                      Named(t), Line(t) \in known'[t]
               PROVE  Line(t) \in known'[w[d].sid]
      OBVIOUS
  <2>1. w[d].pc = "announce" /\ w[d].sid \in Ids /\ Named(w[d].sid)
    <3>1. w[d].pc = "announce" /\ w[d].sid \in Ids
      BY <1>7
    <3>2. slot[byId[w[d].sid]].name = w[d].nm /\ w[d].nm \in Names
      BY <3>1 DEF IInv, AfterName, LoginOK, NickPcs
    <3> QED BY <3>1, <3>2, RegistryAssumption DEF Named
  <2>2. CASE t = s0
    BY <1>1, <1>3, <2>1, <2>2 DEF Named
  <2>3. CASE t # s0
    <3>1. Announced(t)
      BY <1>3, <1>4, <2>3 DEF Announced
    <3> QED BY <1>3, <2>1, <3>1 DEF RosterSent
  <2> QED BY <2>2, <2>3
<1>9. RosterSent'
  BY <1>1, <1>7, <1>8 DEF RosterSent, Announced, Named, Live, Line
<1> QED
  BY <1>6, <1>9

\* When no send buffer overflows, a client that is in knows the name of every
\* other session that is in: no login slips between roster and announcements.
THEOREM RosterIsComplete == ASSUME ~Lossy PROVE Spec => []RosterComplete
<1> DEFINE RInv == IInv /\ RosterComplete /\ RosterSent
<1>1. Init => RInv
  <2>1. Init => RosterComplete
    BY DEF Init, RosterComplete, Announced, Named, Live
  <2>2. Init => RosterSent
    BY DEF Init, RosterSent, Announced, Named, Live, Idle, At
  <2> QED BY <2>1, <2>2, InitIInv
<1>2. RInv /\ [Next]_vars => RInv'
  <2> SUFFICES ASSUME IInv, RosterComplete, RosterSent, [Next]_vars
               PROVE  RosterComplete' /\ RosterSent'
      BY NextIInv
  <2>1. CASE Create
    BY <2>1, RosterCreate
  <2>2. CASE Destroy
    BY <2>2, RosterDestroy
  <2>3. ASSUME NEW c \in Shards, HandleNick(c) \/ Command(c)
        PROVE  RosterComplete' /\ RosterSent'
    <3>1. CASE SetName(c) BY <3>1, RosterSetName
    <3>2. CASE SetUserId(c) BY <3>2, RosterSetUserId
    <3>3. CASE SendRosterTo(c) BY <3>3, RosterSend
    <3>4. CASE Announce(c) BY <3>4, RosterAnnounce
    <3>5. CASE NickCheck(c) BY <3>5, RosterOther DEF NickCheck, At
    <3>6. CASE Login(c)
      <4>1. PICK u : w' = [w EXCEPT ![c] = At("setname", w[c].sid, w[c].nm, u)]
        BY <3>6 DEF Login
      <4>2. At("setname", w[c].sid, w[c].nm, u).pc # "announce"
        BY DEF At
      <4> QED BY <3>6, <4>1, <4>2, RosterOther DEF Login
    <3>7. CASE LoadFriends(c)
      <4>1. w' = [w EXCEPT ![c] = [@ EXCEPT !.pc = "roster"]]
        BY <3>7 DEF LoadFriends, Goto
      <4>2. [w[c] EXCEPT !.pc = "roster"].pc # "announce"
        BY DEF IInv, TypeOK
      <4> QED BY <3>7, <4>1, <4>2, RosterOther DEF LoadFriends
    <3>8. CASE LoginFails(c) \/ SetNameRefused(c) \/ LoadFriendsFails(c) \/ CommandDone(c)
      BY <3>8, RosterOther
         DEF LoginFails, SetNameRefused, LoadFriendsFails, CommandDone, Finish, Idle, At
    <3>9. CASE CommandCheck(c) BY <3>9, RosterOther DEF CommandCheck, At
    <3>10. CASE CommandUser(c)
      <4>1. At("act", w[c].sid, NoName, UserOf(w[c].sid)).pc # "announce"
        BY DEF At
      <4> QED BY <3>10, <4>1, RosterOther DEF CommandUser
    <3> QED
      BY <2>3, <3>1, <3>2, <3>3, <3>4, <3>5, <3>6, <3>7, <3>8, <3>9, <3>10 DEF HandleNick, Command
  <2>4. CASE UNCHANGED vars
    BY <2>4 DEF vars, RosterComplete, RosterSent, Announced, Named, Live, Line
  <2> QED
    BY <2>1, <2>2, <2>3, <2>4 DEF Next
<1>3. RInv => RosterComplete
  OBVIOUS
<1> QED
  BY <1>1, <1>2, <1>3, PTL DEF Spec

\* For ids that fit in the header, what a client was told of a speaker is the truth,
\* and when no buffer overflows it was told: the line appears under his name only.
THEOREM SpeakersShown == ASSUME ~Lossy PROVE Spec => []SpeakerShown
<1>1. IInv /\ RosterComplete => SpeakerShown
  <2> SUFFICES ASSUME IInv, RosterComplete, NEW r \in Ids, NEW s \in Ids,
                      Announced(r), Announced(s), s < IdSpace
               PROVE  ShownAs(r, s) = {slot[byId[s]].name}
      BY DEF SpeakerShown
  <2>1. s \in Nat /\ IdSpace \in Nat \ {0} /\ s < IdSpace
    BY RegistryAssumption DEF Ids
  <2>2. WireId(s) = s
    BY <2>1 DEF WireId
  <2>3. known[r] \subseteq Ids \X Names
    BY DEF IInv, TypeOK
  <2>4. Line(s) \in known[r] /\ Live(s)
    BY DEF RosterComplete, Announced, Named
  <2>5. <<s, slot[byId[s]].name>> \in NameMap(r)
    BY <2>4 DEF NameMap, Line
  <2>6. \A m \in NameMap(r) : m[1] = s => m[2] = slot[byId[s]].name
    <3> SUFFICES ASSUME NEW m \in NameMap(r), m[1] = s
                 PROVE  m[2] = slot[byId[s]].name
        OBVIOUS
    <3>1. m \in known[r]
      BY DEF NameMap
    <3>2. m \in Ids \X Names
      BY <2>3, <3>1
    <3>3. m = <<s, m[2]>> /\ m[2] \in Names
      BY <3>2
    <3>4. <<s, m[2]>> \in known[r]
      BY <3>1, <3>3
    <3> HIDE DEF NameMap
    <3> QED BY <2>4, <3>3, <3>4 DEF IInv, KnownTrue
  <2> QED BY <2>2, <2>5, <2>6 DEF ShownAs
<1> QED
  BY <1>1, Invariance, RosterIsComplete, PTL

-----------------------------------------------------------------------------
\* Every step of the registry opens or releases one slot of the abstract pool,
\* or leaves it as it is: a slot belongs to one session at a time.
THEOREM PoolImplemented == Spec => ImplementsPool
<1> DEFINE Owner == [i \in Slots |-> IF i \in free THEN 0 ELSE slot[i].sid]
<1>1. Init => Pool!Init
  BY DEF Init, Pool!Init
<1>2. IInv /\ [Next]_vars => [Pool!Next]_Pool!vars
  <2> SUFFICES ASSUME IInv, [Next]_vars PROVE Pool!Next \/ (Owner' = Owner /\ nextId' = nextId)
      BY DEF Pool!vars
  <2>1. TypeOK /\ \A i \in Slots \ free : slot[i].sid \in Ids
    BY DEF IInv, MapsCoherent, IdIndexExact
  <2>2. CASE Create
    <3>1. PICK i \in Slots :
             /\ i \in free /\ free' = free \ {i} /\ nextId <= MaxId /\ nextId' = nextId + 1
             /\ slot' = [slot EXCEPT ![i] = [sid |-> nextId, name |-> NoName, userId |-> NoUser]]
      BY <2>2 DEF Create, Alloc, InitSlot
    <3>2. Owner' = [Owner EXCEPT ![i] = nextId] /\ Owner[i] = 0
      BY <2>1, <3>1 DEF TypeOK
    <3> QED BY <3>1, <3>2 DEF Pool!Next, Pool!Open
  <2>3. CASE Destroy
    <3>1. PICK i \in Slots \ free : free' = free \cup {i} /\ UNCHANGED <<slot, nextId>>
      BY <2>3 DEF Destroy
    <3>2. Owner[i] # 0
      BY <2>1, <3>1, RegistryAssumption DEF Ids
    <3>3. Owner' = [Owner EXCEPT ![i] = 0]
      <4>1. Owner' = [j \in Slots |-> IF j \in free \cup {i} THEN 0 ELSE slot[j].sid]
        BY <3>1
      <4> QED BY <4>1
    <3> QED BY <3>1, <3>2, <3>3 DEF Pool!Next, Pool!Release
  <2>4. ASSUME free' = free, nextId' = nextId, \A i \in Slots : slot'[i].sid = slot[i].sid
        PROVE  Owner' = Owner /\ nextId' = nextId
    BY <2>4
  <2>5. ASSUME NEW c \in Shards, HandleNick(c) \/ Command(c)
        PROVE  free' = free /\ nextId' = nextId /\ \A i \in Slots : slot'[i].sid = slot[i].sid
    <3>1. CASE SetName(c)
      BY <2>1, <3>1 DEF SetName, TypeOK
    <3>2. CASE SetUserId(c)
      <4>1. slot' = slot \/ slot' = [slot EXCEPT ![byId[w[c].sid]].userId = w[c].uid]
        BY <3>2 DEF SetUserId
      <4> QED BY <2>1, <3>2, <4>1 DEF SetUserId, TypeOK
    <3>3. CASE UNCHANGED <<free, slot, nextId>>
      BY <3>3
    <3> QED
      BY <2>5, <3>1, <3>2, <3>3
         DEF HandleNick, Command, NickCheck, Login, LoginFails, SetNameRefused, LoadFriends,
             LoadFriendsFails, SendRosterTo, Announce, CommandCheck, CommandUser, CommandDone
  <2>6. CASE UNCHANGED vars
    BY <2>6 DEF vars
  <2> QED
    BY <2>2, <2>3, <2>4, <2>5, <2>6 DEF Next
<1> QED
  BY <1>1, <1>2, Invariance, PTL DEF Spec, Pool!Spec, ImplementsPool
=============================================================================
