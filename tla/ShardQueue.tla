----------------------------- MODULE ShardQueue -----------------------------
(***************************************************************************)
(* The shards: one MPMCQueue and one Consumer thread each. The network     *)
(* workers push the packets of a session on the queue sid % NShards, a     *)
(* consumer that handles a trade command posts to the shard of the other   *)
(* session, and the main thread stops the consumers one after the other,   *)
(* then the workers; until then these go on pushing on the stopped queues. *)
(* Steps are the critical sections of mutex_ and the notifications, which  *)
(* come after the mutex is released. A condition variable may wake a       *)
(* waiter for no reason.                                                   *)
(***************************************************************************)
EXTENDS Naturals, Sequences, FiniteSets, SequencesExt

CONSTANTS
  NShards,    \* consumers, each with its queue
  Sessions,   \* session ids
  Workers,    \* the IOCP worker threads
  MaxSent,    \* bound: packets one session sends
  NoSession   \* a worker that is not pushing

ASSUME ShardAssumption ==
  /\ NShards \in Nat \ {0} /\ MaxSent \in Nat
  /\ Sessions \subseteq Nat \ {0} /\ NoSession \notin Sessions /\ IsFiniteSet(Workers)

Shards == 0..(NShards - 1)
Shard(sid) == sid % NShards

\* Packet n of session sid; a trade request for a session (0: nobody of that name).
Client(sid, n)  == [to |-> sid, n |-> n]
Trade(sid)      == [to |-> sid, n |-> 0]
Messages        == [to : Sessions \cup {0}, n : 0..MaxSent]

VARIABLES
  queue,     \* queue_ of each shard
  stopping,  \* stopping_
  con,       \* each consumer: "pop", "wait" in cv_, "handle", "notify" after a Post, "exit"
  hand,      \* the message it handles, as a sequence of at most one
  posted,    \* the shard it has pushed on and not yet notified
  pushing,   \* pushing[w]: the session whose packet worker w pushed and not yet notified
  sent,      \* packets each session sent
  handled,   \* packets of each session that were handled
  quits,     \* null completions in the completion port
  out,       \* the workers that have left their loop
  main,      \* the main thread: "run", "stop", "notify", "join", "core", "workers", "done"
  at         \* the consumer it is stopping

vars == <<queue, stopping, con, hand, posted, pushing, sent, handled, quits, out, main, at>>

worker == <<pushing, sent>>
stopper == <<stopping, quits, out, main, at>>

Init == /\ queue = [s \in Shards |-> <<>>] /\ stopping = [s \in Shards |-> FALSE]
        /\ con = [s \in Shards |-> "pop"] /\ hand = [s \in Shards |-> <<>>]
        /\ posted = [s \in Shards |-> 0]
        /\ pushing = [w \in Workers |-> NoSession]
        /\ sent = [i \in Sessions |-> 0] /\ handled = [i \in Sessions |-> 0]
        /\ quits = 0 /\ out = {} /\ main = "run" /\ at = 0

-----------------------------------------------------------------------------
Push(s, m) == queue' = [queue EXCEPT ![s] = Append(@, m)]

\* notify_one and notify_all: each queue has a single waiter.
Notify(s) == con' = [con EXCEPT ![s] = IF @ = "wait" THEN "pop" ELSE @]

PacketSilent(w, i) ==
  /\ w \notin out /\ pushing[w] = NoSession /\ sent[i] < MaxSent
  /\ \A v \in Workers : pushing[v] # i
  /\ sent' = [sent EXCEPT ![i] = @ + 1]
  /\ Push(Shard(i), Client(i, sent[i] + 1))
  /\ UNCHANGED <<pushing, con, hand, posted, handled, stopper>>

\* OnRecv pushes a packet; one worker at a time is in the OnRecv of a session.
Packet(w, i) ==
  /\ w \notin out /\ pushing[w] = NoSession /\ sent[i] < MaxSent
  /\ \A v \in Workers : pushing[v] # i
  /\ sent' = [sent EXCEPT ![i] = @ + 1]
  /\ Push(Shard(i), Client(i, sent[i] + 1))
  /\ pushing' = [pushing EXCEPT ![w] = i]
  /\ UNCHANGED <<con, hand, posted, handled, stopper>>

NotifyPacket(w) ==
  /\ pushing[w] # NoSession
  /\ Notify(Shard(pushing[w]))
  /\ pushing' = [pushing EXCEPT ![w] = NoSession]
  /\ UNCHANGED <<queue, hand, posted, sent, handled, stopper>>

\* A worker that dequeues a completion without an OVERLAPPED leaves its loop.
Quit(w) ==
  /\ w \notin out /\ pushing[w] = NoSession /\ quits > 0
  /\ quits' = quits - 1 /\ out' = out \cup {w}
  /\ UNCHANGED <<queue, stopping, con, hand, posted, worker, handled, main, at>>

-----------------------------------------------------------------------------
\* The predicate of Pop's wait.
Ready(s) == queue[s] # <<>> \/ stopping[s]

Wait(s) ==
  /\ con[s] = "pop" /\ ~Ready(s)
  /\ con' = [con EXCEPT ![s] = "wait"]
  /\ UNCHANGED <<queue, hand, posted, worker, handled, stopper>>

SpuriousWake(s) ==
  /\ con[s] = "wait"
  /\ con' = [con EXCEPT ![s] = "pop"]
  /\ UNCHANGED <<queue, hand, posted, worker, handled, stopper>>

TakeLast(s) ==
  /\ con[s] = "pop" /\ Ready(s) /\ queue[s] # <<>>
  /\ hand' = [hand EXCEPT ![s] = <<Last(queue[s])>>]
  /\ queue' = [queue EXCEPT ![s] = Front(@)]
  /\ con' = [con EXCEPT ![s] = "handle"]
  /\ UNCHANGED <<posted, worker, handled, stopper>>

Take(s) ==
  /\ con[s] = "pop" /\ Ready(s) /\ queue[s] # <<>>
  /\ hand' = [hand EXCEPT ![s] = <<Head(queue[s])>>]
  /\ queue' = [queue EXCEPT ![s] = Tail(@)]
  /\ con' = [con EXCEPT ![s] = "handle"]
  /\ UNCHANGED <<posted, worker, handled, stopper>>

ExitOnStop(s) ==
  /\ con[s] = "pop" /\ stopping[s]
  /\ con' = [con EXCEPT ![s] = "exit"]
  /\ UNCHANGED <<queue, hand, posted, worker, handled, stopper>>

\* Pop returns false and the thread ends: only when nothing is left.
Exit(s) ==
  /\ con[s] = "pop" /\ Ready(s) /\ queue[s] = <<>>
  /\ con' = [con EXCEPT ![s] = "exit"]
  /\ UNCHANGED <<queue, hand, posted, worker, handled, stopper>>

\* The message in hand is done with; Loop catches what Handle throws.
Done(s) ==
  /\ hand' = [hand EXCEPT ![s] = <<>>]
  /\ handled' = LET m == hand[s][1] IN
       IF m.n = 0 THEN handled ELSE [handled EXCEPT ![m.to] = @ + 1]

Handle(s) ==
  /\ con[s] = "handle"
  /\ Done(s)
  /\ con' = [con EXCEPT ![s] = "pop"]
  /\ UNCHANGED <<queue, posted, worker, stopper>>

\* HandleTrade: a client's command that posts to the shard of another session.
HandleTrade(s) ==
  /\ con[s] = "handle" /\ hand[s][1].n # 0
  /\ \E i \in Sessions \cup {0} :
       /\ Push(Shard(i), Trade(i))
       /\ posted' = [posted EXCEPT ![s] = Shard(i)]
  /\ con' = [con EXCEPT ![s] = "notify"]
  /\ UNCHANGED <<hand, worker, handled, stopper>>

NotifyTrade(s) ==
  /\ con[s] = "notify"
  /\ Done(s)
  /\ con' = [r \in Shards |-> IF r = s \/ (r = posted[s] /\ con[r] = "wait") THEN "pop"
                                                                        ELSE con[r]]
  /\ posted' = [posted EXCEPT ![s] = 0]
  /\ UNCHANGED <<queue, worker, stopper>>

-----------------------------------------------------------------------------
BeginStop ==
  /\ main = "run" /\ main' = "stop"
  /\ UNCHANGED <<queue, stopping, con, hand, posted, worker, handled, quits, out, at>>

\* MPMCQueue::Stop of the consumer at.
StopQueue ==
  /\ main = "stop"
  /\ stopping' = [stopping EXCEPT ![at] = TRUE]
  /\ main' = "notify"
  /\ UNCHANGED <<queue, con, hand, posted, worker, handled, quits, out, at>>

NotifyStop ==
  /\ main = "notify"
  /\ Notify(at)
  /\ main' = "join"
  /\ UNCHANGED <<queue, stopping, hand, posted, worker, handled, quits, out, at>>

JoinPastEnd ==
  /\ main = "join" /\ con[at] = "exit"
  /\ at' = at + 1
  /\ main' = IF at < NShards THEN "stop" ELSE "core"
  /\ UNCHANGED <<queue, stopping, con, hand, posted, worker, handled, quits, out>>

\* thread_.join() returns and the loop of ShardServer::Stop goes on.
Join ==
  /\ main = "join" /\ con[at] = "exit"
  /\ IF at + 1 < NShards THEN at' = at + 1 /\ main' = "stop"
                         ELSE UNCHANGED at /\ main' = "core"
  /\ UNCHANGED <<queue, stopping, con, hand, posted, worker, handled, quits, out>>

StopCoreOnce ==
  /\ main = "core" /\ main' = "workers"
  /\ quits' = 1
  /\ UNCHANGED <<queue, stopping, con, hand, posted, worker, handled, out, at>>

\* NetworkCore::Stop, called when main returns: one null completion per worker ...
StopCore ==
  /\ main = "core" /\ main' = "workers"
  /\ quits' = Cardinality(Workers)
  /\ UNCHANGED <<queue, stopping, con, hand, posted, worker, handled, out, at>>

\* ... and join() on all of them. The queues, members of sessions, go after that.
JoinWorkers ==
  /\ main = "workers" /\ out = Workers
  /\ main' = "done"
  /\ UNCHANGED <<queue, stopping, con, hand, posted, worker, handled, quits, out, at>>

-----------------------------------------------------------------------------
Consume(s) == Wait(s) \/ Take(s) \/ Exit(s) \/ Handle(s) \/ HandleTrade(s) \/ NotifyTrade(s)

Stop == StopQueue \/ NotifyStop \/ Join \/ StopCore \/ JoinWorkers

Next == \/ \E w \in Workers, i \in Sessions : Packet(w, i)
        \/ \E w \in Workers : NotifyPacket(w) \/ Quit(w)
        \/ \E s \in Shards : Consume(s) \/ SpuriousWake(s)
        \/ BeginStop \/ Stop

Spec == Init /\ [][Next]_vars

\* Threads that can run do; nobody must send, stop the server or wake for no reason.
FairSpec == /\ Spec
            /\ \A w \in Workers : WF_vars(NotifyPacket(w)) /\ WF_vars(Quit(w))
            /\ \A s \in Shards : WF_vars(Consume(s))
            /\ WF_vars(Stop)

-----------------------------------------------------------------------------
TypeOK ==
  /\ queue \in [Shards -> Seq(Messages)]
  /\ stopping \in [Shards -> BOOLEAN]
  /\ con \in [Shards -> {"pop", "wait", "handle", "notify", "exit"}]
  /\ hand \in [Shards -> {<<>>} \cup {<<m>> : m \in Messages}]
  /\ posted \in [Shards -> Shards]
  /\ pushing \in [Workers -> Sessions \cup {NoSession}]
  /\ sent \in [Sessions -> 0..MaxSent] /\ handled \in [Sessions -> 0..MaxSent]
  /\ quits \in 0..Cardinality(Workers) /\ out \subseteq Workers
  /\ main \in {"run", "stop", "notify", "join", "core", "workers", "done"} /\ at \in Shards

\* Somebody is about to notify the waiter of shard s.
NotifyDue(s) == \/ \E w \in Workers : pushing[w] # NoSession /\ Shard(pushing[w]) = s
                \/ \E r \in Shards : con[r] = "notify" /\ posted[r] = s
                \/ main = "notify" /\ at = s

\* A consumer never sleeps on work: when its queue has a message, or it must
\* stop, and it is in the wait of Pop, a notification is on its way.
NoLostWakeup == \A s \in Shards : con[s] = "wait" /\ Ready(s) => NotifyDue(s)

\* What a shard still has to handle, the message in hand first.
Line(s) == hand[s] \o queue[s]

\* The packets of a session that were sent and not yet handled are with its own
\* shard, each once and in the order they were sent.
SessionOrder ==
  /\ \A s \in Shards : \A k \in 1..Len(Line(s)) :
       LET m == Line(s)[k] IN m.n # 0 =>
         /\ s = Shard(m.to) /\ m.to \in Sessions
         /\ handled[m.to] < m.n /\ m.n <= sent[m.to]
         /\ \A j \in 1..(k - 1) : Line(s)[j].to = m.to => Line(s)[j].n < m.n
  /\ \A i \in Sessions : handled[i] <= sent[i] /\ \A n \in (handled[i] + 1)..sent[i] :
       \E k \in 1..Len(Line(Shard(i))) : Line(Shard(i))[k] = Client(i, n)

\* Stop drains: when a consumer ends, every packet of its sessions that any worker has
\* pushed by then was handled, those included that came after it was told to stop, while
\* other consumers still posted to it.
EndsDrained == [][\A s \in Shards : con[s] # "exit" /\ con'[s] = "exit" =>
                    stopping[s] /\ \A i \in Sessions : Shard(i) = s => handled[i] = sent[i]]_vars

\* Every packet that is on a queue while its consumer runs is handled, shutdown or not.
AllHandled == \A i \in Sessions : \A n \in 1..MaxSent :
                sent[i] >= n /\ con[Shard(i)] # "exit" ~> handled[i] >= n

\* Once the clients send no more (MaxSent), a shutdown ends: no consumer and no
\* worker is left waiting, and none waits for another.
StopReturns == main # "run" ~> main = "done"
=============================================================================
