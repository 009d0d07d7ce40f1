# Verification of content-server

TLA+ models of the chat server in `src/`, the TLC runs that check them, and TLAPS proofs
about them. Line numbers are those of the repository's files. `PROJECT.json` lists the
runs, the lines each definition models, one mutation per property that TLC must catch,
the findings, the hazards and the theorems.

## The system

Clients send one line of chat per packet over TCP. A few IOCP worker threads
(`NetworkCore`) accept connections and move bytes; each connection is a `Session` taken
from a fixed pool. The packets of a session go to the queue of shard `sessionId % 8`,
whose single `Consumer` thread carries out the commands against PostgreSQL, Redis and the
`SessionManager`, and answers by `Session::Send`.

| component | state | operations | interacts with | hard because |
|---|---|---|---|---|
| `NetworkCore` | listening socket, IOCP, 8 accept contexts, workers | accept, dequeue completions, destroy | calls `Session`, `SessionManager` | completions of one session on several workers, in any order |
| `Session` | `closing_`, `pendingIO_`, `sending_`, two ring buffers, name, user id, friend set | `PostRecv`, `OnRecv`, `PostSend`, `Send`, `OnSend`, `Close`, `CompleteIO` | workers and all consumers; pushes on its shard queue | references are counted by hand; two atomics decide about destruction; objects are reused |
| `SessionManager` | `byId_`, `byName_`, `byUserId_`, pool, shard queues | create, destroy, names, users, broadcasts, friend caches | under one reader-writer lock | a handler is several critical sections |
| shard queues, `Consumer` threads | queue, `stopping_`, the thread | push, pop, stop | every worker, the other consumers, `main` | condition variable, shutdown |
| login (`HandleNick`) | none of its own | six calls in sequence | database, registry, ranking | each call can fail, and others run in between |
| friends | table `friendships`, a set in each session | add, accept, reject, block, list, message | database, registry | the cache follows the table without a common lock |
| chat reward, inventory, enhancement | tables `users`, `items`, Redis set `lb:power` | reward, drop, enhance, rank | database, Redis | several transactions, a crash or another consumer between them |
| `Ranking` | Redis: sorted set `lb:power`, hash `user:name` | update, name, rebuild, rank, rows | all consumers, `main` at start | any call may fail and is then forgotten; several trips per reply |
| clients, bot | name map | | the wire | ids are cut to 16 bits |

What makes each correct:

* life cycle: `pendingIO_` counts exactly the references that exist; a slot goes back to
  the pool once, when nobody uses the session, and it does go back (the code breaks all three
  on some sessions, see the failing runs; elsewhere they hold);
* streams: the peer gets the accepted packets whole and in order; the consumers get the
  client's packets whole and in order; nothing stays in a buffer for ever;
* registry: the indexes and the pool describe the same sessions; a name and a user have
  one session; a session acts for its own user only; clients that are in know each other;
* shards: the packets of a session are handled in order, all of them, and the shutdown ends;
* friends: a friend message goes to the friends who are on line, to all and to no others;
* economy: no level for nothing, none below its price (the code breaks that one when two
  consumers act for a user), no gold from nowhere, no power beyond its column;
* ranking: a score that follows the items, a name for everybody in it, replies that are whole;
* accepts: a context is posted again after every accept, however it ends.

## Modules

| module | models | state | actions |
|---|---|---|---|
| `SessionPool` | what the session layer promises (abstract) | who owns each slot, the next id | `Open`, `Release` |
| `SessionRegistry` (`MCRegistry`) | `SessionManager`, `ObjectPool`, `HandleNick`, the head of every other command | the Session objects in their slots, the three maps, the users table, what each client was told (so also the client's name map), what each consumer is doing | one per call that takes `lock_` or reads the database |
| `SessionLifecycle` (`MCLifecycle`) | the accept contexts, `Session` and the worker loop at the grain of `pendingIO_`, `closing_`, `sendLock_`, `lock_` | contexts posted and lost, flags, counts, issued operations, a program counter per thread; which sessions were `deaf` or sent to too `early` | one per access |
| `RingBuffer` | `RingBuffer.cpp` | operators on a record | |
| `ByteStream` | what a send path promises (abstract) | bytes accepted, bytes received | |
| `SendStream` | `Send`, `PostSend`, `OnSend` on the bytes | send buffer, `sending_`, the WSASend and its region | one per method; the kernel sends the region or a first part of it, or fails |
| `RecvStream` | `OnRecv`, `PostRecv` on the bytes | receive buffer, room offered, packets queued | one per completion, per turn of `OnRecv`'s loop, per `PostRecv`; a receive may fail, and the send side close the session |
| `ShardQueue` | `MPMCQueue`, `Consumer::Loop`, `ShardServer::Stop`, `SessionManager::Post`, `NetworkCore::Stop` | queues, waiting threads, messages sent and handled, null completions, the step of `main` | one per critical section of `mutex_` and one per notification |
| `Friends` | friend commands, login's cache load, caches | rows, caches, steps of the consumers | one per transaction or locked call |
| `Economy` | reward, drop, enhancement in the database | gold, items, steps of the consumers | one per transaction, and a crash |
| `Leaderboard` | `Ranking`, the ranking commands, the rebuild in `main` | total power in the database, scores and names in Redis, steps of the consumers; whose writes failed (`missed`, `nameless`) or met another's (`crossed`) | one per round trip to Redis, and a crash with a rebuild cut short anywhere |
| `Totals` | sums over a sequence: the bytes of a reply, the price of all levels | one operator | |
| `SessionRegistryProofs`, `SessionLifecycleProofs`, `ShardQueueProofs`, `FriendsProofs`, `EconomyProofs`, `LeaderboardProofs` | | | theorems about the module each is named after |
| `StreamProofs` | | | lemmas about the operators of `RingBuffer`, and on them the theorems about `SendStream` and `RecvStream` |
| `SequenceLemmas` | | | induction and recursion over positions, sequences, totals: what the other proofs need to know of data |

`SendStream` and `RecvStream` prefix the names they would share (`SendSpec`, `RecvSpec`,
`sendBuffer`, `recvBuffer`, ...), because one module proves theorems about both and one, `MCStreams`, checks
both. They share nothing but `closing_`, which each lets the other direction set at any time,
so a behaviour of `MCStreams` is one of one direction or of the other.

The modules share a design: a method that runs under a lock, or a database transaction, is
one step; a handler is a sequence of steps, kept in a record per thread (`w` or `th`) whose
`pc` names the next call. Where several modules need one mechanism, one models it and the
others name it: `SessionLifecycle` decides when `Destroy` of `SessionRegistry` happens and
guarantees one receive and one send at a time, on which `RecvStream` and `SendStream` rest;
`ShardQueue` justifies that a consumer of `SessionRegistry` or `Friends` works on any queued
packet of its own shard, one at a time. `Economy` ends where a total is to be published,
and `Leaderboard` begins there with the transaction that computed it. In these two a user
may come back on another consumer at any moment, as `registry_users` shows. `SessionRegistry`
implements `SessionPool`, and `SendStream` implements `ByteStream`.

## Runs

Passing:

| run | question | instance |
|---|---|---|
| `registry` | indexes, uniqueness, attribution, roster, names shown, pool | 2 slots, 3 sessions, 2 shards, 2 names, ids of one bit on the wire (`IdSpace` = 2): reuse of a slot, a third session of the first one's shard, a name taken and free again, an id whose narrowed value is 0 and one whose narrowed value is that of a former session |
| `lifecycle` | references, destruction, reuse of a slot | 1 slot, 2 connections, 2 workers, 2 consumers, 2 accept contexts, 2 packets of buffer; receive buffers that fill and whispers that come too early are among the behaviours |
| `lifecycle_live` | references to a closing session are given back, and accepts go on, in the end | 1 slot, 2 connections (so a full pool), 1 worker, which may have to wait for `lock_` in `Create` and `Destroy`, 2 consumers that may hold it, 2 accept contexts, 2 packets of buffer |
| `streams` | both directions of a session on bytes | rings of 9 cells. Sending: packets of 1, 2, 3, 5 bytes, 24 in all, so that the ring wraps twice and is full and one short of full; an operation completes with any part of its region. Receiving: header 2 of which one byte is the id, packets up to 4, sizes 0 to 5, 4 packets: split headers, impossible sizes, one byte short of the last cell and the last cell; the session may be closed from either side at any step. The receive ring never wraps: the code offers the kernel `Size - tail - 1` cells and never more, so the tail stays where the room ended (`recvstream_deaf`) |
| `shards` | order, wake-ups, draining, shutdown | 2 shards, 2 workers, 2 sessions with 2 packets each, trades between shards |
| `friends` | no friend missed, blocks | 2 users, 2 consumers, all rows reachable; the protocol is per pair of users |
| `economy` | ranges, no level for nothing | 1 user (all statements name the user's own rows), 2 consumers that may both be in a command for him, 2 items, 10 gold at price unit 1: enough to raise both items twice, or one three times; a column that ends at 9, so that a second or third success on an item does not fit |
| `leaderboard` | scores, names, rows, replies | 2 users, 2 consumers that may both be in a command for one user and of which one reads, totals up to 2, a transaction that adds nothing (`Enhance` rounds) or one or two; 2 rows, a window of 1: a tie, a user without items, a window cut at the top (with two users it always begins there); packets of 7 bytes for a heading of 4 and rows of 3 or, without a name, 4: a cut before the first row and between rows |

Failing, each with a finding in `PROJECT.json`:

| run | property | what the trace shows |
|---|---|---|
| `lifecycle_race` | `UsedIsReclaimed` | a consumer's failed send takes the last reference: the session is never destroyed |
| `recvstream_deaf` | `AllInputTaken` | the tail of the receive buffer never wraps: once a connection has sent `BUFFER_SIZE - 1` bytes in its life, no receive is posted any more |
| `registry_users` | `OneConsumerPerUser` | a user who reconnects is served by two consumers |
| `friends_stale` | `CacheSound` | accept and block cross: a blocked user stays in the cache |

Where a property fails on some behaviours of the code, the passing run does not leave them
out. The behaviours are in the model, history variables say where they occurred, and the
property is stated for the rest:

* `deaf` and `early` (`SessionLifecycle`). A session is deaf once `PostRecv` found no room, which
  every connection meets that sends `BUFFER_SIZE - 1` bytes (`recvstream_deaf`); it is early
  when a message was sent to it before its first receive was posted. Such a session has no
  reference of its own, and a worker that has taken the count to 0 can be overtaken before it
  reads `closing_`: its slot can be handed out twice. A
  slot is `Sound` when its session was neither and nothing is left in it of one that
  was: no operation, no thread, no id in `byId_` (`Untouched`). The properties of `lifecycle`
  and `ReferencesDrain` are about the sound slots, `AcceptsGoOn` about all.
* `crossed` (`Leaderboard`): the users whose last total was computed while another consumer was
  about to write an earlier one. `RankFollows` excuses a wrong score for them, for a failed
  write and for nothing else; that a score is at most the total it holds for all.

Two behaviours are switched by a constant instead. The passing runs switch them off, so they
say what holds without them:

* `Lossy` (`SessionRegistry`): a packet of the roster or an announcement may be dropped
  because the send buffer is full. With TRUE `RosterComplete` and `SpeakerShown` fail.
* `Overlap` (`Friends`): a user may be back on another consumer while the old one is still in a
  command for him, which `registry_users` shows to be possible. With TRUE `CacheComplete`
  fails: a block that is finished late removes a new friend. `BlockHolds` does not depend
  on it. Commands of two users cross freely with FALSE too (`friends_stale`).

Five more properties are stated in the modules and have no run; TLC refutes each when it is
added to the `.cfg` named here:

| property | `.cfg` | what its trace shows |
|---|---|---|
| `DeafNotReused` | `lifecycle` | the receive buffer of a session is full, so it lives with a count of 0 between sends: a worker gets count 0 and is about to read `closing_`, a consumer's send fails, a second worker closes the session and gets count 0 as well; both destroy it, and its slot is handed out while a new session lives in it |
| `EarlyNotReused` | `lifecycle` | a whisper is sent before the accepting worker has posted the first receive: the same outcome |
| `LevelsPaid` | `economy` | two consumers of one user read the level of one item: two levels are bought, each at the price of the first |
| `ScoreIsCurrent` | `leaderboard` | two consumers of one user have totals to write: the older one is written last and stays |
| `LoginAnnounced` | `registry`, with `FairSpec` | an exception of `GetFriendIds` leaves a named session unannounced |

Larger instances checked by hand without error: `registry` with 3 slots, 4 sessions and
`IdSpace` 3 (2.3 million states); all properties of the two `lifecycle` runs with 2 workers,
1 consumer, 1 context and 1 packet of buffer (0.5 million states).

Bounds: `MaxId` (sessions created), `MaxUsed` (packets in a send buffer), `MaxBytes`,
`MaxPackets`, `MaxSent`, `MaxItems`, `MaxEarned`, `MaxPower` limit the length of a run; the bounded
counter guards one action in each module and never a property. `Readers` bounds who asks for
the ranking: a reader changes nothing that others see. Runs with
`CHECK_DEADLOCK FALSE` are those in which the program may rest when the bound is reached or
the server has stopped.

## Fairness

* `SessionLifecycle`: a thread that is inside a handler goes on, and gets `sendLock_` when it is
  free again and again (strong fairness). Nothing in the code keeps two consumers from
  overlapping in the shared `lock_` for ever, which would keep a worker out of `Create` and
  `Destroy`; that they do not is an assumption of its own, `[]<>(NoReaders \/ ~WriterWaits)`,
  which a `shared_mutex` that queues a waiting writer before later readers warrants.
  The completion of an operation whose socket is closed is
  dequeued, strongly fair because the completion port is a queue and accepts cannot overtake
  it for ever. Nothing is assumed of operations on an open socket, nor of new connections.
* `SendStream`: the kernel completes a send or fails it, that is, a peer that stops reading
  for ever is cut off by TCP; the completion is handled.
* `RecvStream` (in `recvstream_deaf`), `Friends`, `ShardQueue`: a thread that can run does. No client
  has to send, disconnect or come back, and no failure has to happen or to stop happening.
* `StopReturns` is checked with clients that send a bounded number of packets. The code
  needs that too: `main` stops the consumers while the network still runs, and `Pop` only
  gives up on an empty queue. `main` is done when the workers, which take one null
  completion each, are joined too.
* `Economy` and `Leaderboard` state no liveness: any step may be the last before a crash.

## What is proved

Every theorem holds for all values of the constants that the `ASSUME` of its module admits:
any number of slots, threads, shards, sessions, users, every ring size, every packet length,
every bound. Where a theorem assumes that `Lossy` or `Overlap` is FALSE, the table says so; where the
property itself is about some of the states only, the table says which.

| module | theorems | property | condition |
|---|---|---|---|
| `SessionRegistryProofs` | `TypeCorrect`, `IndexesCoherent`, `OneSession`, `CommandsAttributed` | `TypeOK`, `MapsCoherent`, `OneSessionPerUser`, `CommandActsForItsUser` | |
| | `RosterIsComplete`, `SpeakersShown` | `RosterComplete`, `SpeakerShown` | `~Lossy` |
| | `IdentitiesStable`, `PoolImplemented` | `IdentityStable`, `ImplementsPool` (a refinement) | |
| `SessionLifecycleProofs` | `LifecycleTypes`, `PendingIsExact`, `ContextsNotShared`, `DestroyedByTheLast`, `SlotsFreedOnce` | `TypeOK`, `PendingExact`, `OneOperationEach`, `NoDangling`, `FreedOnce` | the properties are about the slots in `Sound` |
| `StreamProofs` | `SendTypes`, `SendLosesNoWakeup`, `RegionIntact` | `SendTypeOK`, `NoLostWakeup`, `InFlightIntact` | |
| | `SendImplementsStream` | `ImplementsStream` (a refinement) | |
| | `RecvTypes`, `PacketsArriveIntact`, `NoByteIsLost` | `RecvTypeOK`, `PacketsIntact`, `NothingLost` | |
| | `OneBufferInAll`, `DeafForEver` | a connection receives `Size - 1` bytes in its life and never one more; from there it hands nothing on | |
| `ShardQueueProofs` | `ShardTypes`, `NoWakeupIsLost`, `PacketsInOrder`, `ConsumersEndDrained` | `TypeOK`, `NoLostWakeup`, `SessionOrder`, `EndsDrained` | |
| `FriendsProofs` | `FriendsTypes`, `FriendsBlockHolds` | `TypeOK`, `BlockHolds` | |
| | `FriendsComplete` | `CacheComplete` | `~Overlap` |
| `EconomyProofs` | `EconomyTypes` | `TypeOK` | |
| | `NoLevelForNothing` | `NoLevelIsFree` | |
| `LeaderboardProofs` | `LeaderboardTypes`, `RankedHaveNames`, `OwnRowIsMarked` | `TypeOK`, `NamesKept`, `OwnRowMarked` | |
| | `ScoreFollowsPower` | `RankFollows` | that the score is the total: for users not in `crossed` |
| | `RepliesAreWhole` | `ReplyWhole` | |

Every safety property that a passing run checks is stated by a theorem here.

The conditions are needed: TLC finds `RosterComplete`, `SpeakerShown` and `CacheComplete`
violated without theirs, and the section on the runs tells what happens outside `Sound` and
to users in `crossed`.
Each module has an invariant (`IInv`; `SendInv` and `RecvInv` in `StreamProofs`) with
`Init => IInv` and `IInv /\ [Next]_vars => IInv'`, proved with one step per action; the
properties follow from it (`FriendsTypes` and `FriendsBlockHolds` from its typing part
alone). What it says beyond the properties is what the code relies on and writes down
nowhere:

* **Registry.** The coherence of the indexes is not inductive: `SetUserId` writes `byUserId_`
  long after `SetName` has checked the name, so `IInv` also says what each consumer between
  two calls knows: that the session it works for is of its shard; that, from `SetName` on,
  the session if it lives carries the name the consumer was given, and no user until
  `SetUserId`; that the user id it holds is the one the table gives for that name. Uniqueness
  of a user then follows from uniqueness of the name. For the roster, `RosterSent` says that
  a session past its roster knows every session announced before, and will hear of the
  others. For the names shown, every line a client was told names a session under the one
  name it ever had, and ids below `IdSpace` are their own narrowed form.
* **Life cycle.** All of it is said of the slots in `Sound`. `PendingExact` says that the count
  is right; why nobody uses a session once a worker has destroyed it takes more. A session
  that is open and not closing has its receive pending, or with one worker (`RecvAlive`,
  `RecvToken`): this is what a deaf session loses. There is one send, and its flag is set
  (`SendToken`). So a count of 0 means that the session is closing, and the worker that
  brought it there is the only one that has not yet passed its last use (`LastAlone`):
  nothing posts on a closing session without undoing it, and the consumers that send hold
  the lock `Destroy` needs (`SendersLive`). While the first receive is posted only the
  accepting worker knows the session (`FirstPost`), which an early message breaks. A slot is
  back in `Sound` when `Create` finds nothing of the old session in it; from then on no id of
  that session leads there (`NoStrays`). `PendingExact` is a sum of cardinalities per
  slot: `OneMoves` says how a set that gains or loses one thread changes its size.
* **Ring.** `StreamProofs` states each operation on `Contents`, the bytes held in order:
  `Write` appends across the wrap (`WriteAppends`), `MoveHead` drops (`MoveHeadDrops`), the
  linear region at the head is a prefix (`LinearRead`). The proofs about the streams argue on
  contents and not on indexes.
* **Send stream.** The account of the bytes is what makes it inductive: the buffer holds the
  last `UsedSize` bytes accepted, the peer has all before them, and also those of the region
  under way once the kernel is done with it (`BytesOK`, `OperationOK`). Each step is then a
  step of `ByteStream`, or changes nothing of it.
* **Receive stream.** All is said of `Unqueued`, the buffer followed by the wire: a receive does
  not change it, the client appends a packet, `Frame` takes one off the front. `NothingLost`
  says that each byte follows its neighbour; what is inductive is that around every byte lies
  its whole packet and that the packet due comes first (`InOrder`).
  `OnRecv` writes the id of the session over that of the client while the packet is copied, so
  what is queued is the packet with its header stamped (`Stamped`). The session may be closed
  from the other side at any step, which stops `PostRecv` and not the loop of `OnRecv`.
  The finding of `recvstream_deaf` is proved for every ring size too: no room offered
  reaches the last cell, so the tail is the number of bytes received in the life of the
  connection (`OneBuffer`), and `PostRecv` offers nothing once it is on the last cell.
* **Shards.** For the wake-ups the types suffice: whoever makes a queue ready owes the
  notification from that step on. The order is argued on `Line`, the message in hand and
  the queue: `Push` appends, `Take` changes nothing, the end of a handler drops the head. So
  a consumer that finds its queue empty has handled all packets that were sent on its
  sessions, whoever pushed them and whenever it was told to stop (`ConsumersEndDrained`).
* **Friends.** That no friend is missed rests on three facts, in this order: a user with
  a command under way is served by nobody else (`SessionsOK`, from `~Overlap`); while a block
  is on its way to the caches the two are not friends (`BlocksOK`); what the table did not
  have when the ids of a login were read is in the cache already or on its way there
  (`LoadsOK`).
* **Economy.** The account is kept per level: a unit of the price for each level of each item
  is never more than the gold that was spent. The price in a consumer's hand was computed from
  a level read one transaction earlier, and another consumer may have raised the item since,
  so that it is not the next level's price; but it is a unit at least (`CommandOK`), and the
  gold is checked and taken in the transaction that raises the level.
* **Ranking.** A total in a consumer's hand is never more than the user's present one, and is that
  one unless the user is `crossed` (`TotalsOK`); everybody who is on line, has a command under way or is ranked was given a
  name once, or the write of it failed (`NamesOK`). A row is marked by its place: the lemmas
  `RanksDiffer` and `PlacesHeld` say that the ranks of the sorted set are the places 1 to
  the number of ranked users, each held by one (a pigeonhole argument on cardinalities), from
  which the place of a user inside the window follows, also where the top cuts it.
* **Replies.** `Cut` is the invariant of the loop that builds a reply: the packets so far have
  the lines so far, none is too long, and only the very first may be empty. A line that does
  not fit finds a last packet that is not empty, since every line fits in a packet alone
  (`AddLineCuts`). That a reply waits with one line at least is an invariant of the model
  (`ReplyLines`): the heading is always there.
* **Induction over data.** `Total`, `Packets` and `FlattenSeq` are recursive functions of a
  position, and what they compute is proved in `SequenceLemmas` and `LeaderboardProofs`
  without the induction theorems of the library, whose operator parameter the provers cannot
  instantiate: `Induction` is about a set of numbers, and follows from the well-foundedness of
  `<` by taking a least counterexample; `Iteration` says that a function defined step by step
  exists, for steps given as a function of functions. A recursive function is a `CHOOSE`:
  `TotalIs` and `FlattenIs` show that the chosen one satisfies its equation and agrees with any
  other that does.

Only model-checked: the liveness properties (`ReferencesDrain`, `AcceptsGoOn`, `AllReceived`,
`AllHandled`, `StopReturns`, `FriendsHear`), which need fairness and ENABLED, out of this
prover's reach; and, being false, the properties of the failing runs.

## What is not modelled

* Sockets as handles, `setsockopt`, IOCP association, error codes: a socket is open or closed.
  `Session::Close` twice on one session is therefore harmless in the model; in the code the
  second `closesocket` may hit a handle the system has reused. `closing_ = true` and the
  `closesocket` after it are one step, and so is `OnRecv` up to `PostRecv` in `SessionLifecycle`
  (`RecvStream` has its loop turn by turn): a consumer may send to the session before, between
  and after, and meets what it meets before or after.
* PostgreSQL and Redis: a transaction is one atomic step that happens or throws, a Redis
  write happens or fails. The schema is not in the repository; defaults (`PENDING`, the power
  of a new item) are taken from the statements that use them.
* Formatting of replies, parsing of commands, the random numbers (any outcome is allowed).
* Memory ordering: the atomics are sequentially consistent in the code.
* Socket set-up in `NetworkCore::Start`: straight-line OS calls before any thread runs. Its
  result is ignored by `main`; the life cycle allows a start with no context posted.
* `HandleFriendList`, `ShowInventory`, `GetNames`: they read and change nothing, and only the
  wording of one reply depends on them. The handling of trade messages is a stub in the code.
* Who hears the chat line of a session between its `SetName` and its announcement: the client
  shows a number then, since it has no name yet for the id.
* The terminal client apart from its name map: a user interface. The bot: a load generator,
  an input to the server and not a part of it.

## Plan

Done: the modules above, in the order registry, life cycle, streams, shards, friends,
economy, leaderboard; the accept contexts and the end of the workers; the narrowed ids;
and the theorems of the section above.

What is left:

1. The send buffer in the registry: the roster against a buffer of a given size, instead of
   `Lossy`.
2. A composition of registry and friends, where the session of a user is the one of the
   registry, and of `Economy` and `Leaderboard`, where the total published is the one of the
   items.
3. The liveness properties, should the prover learn ENABLED.
