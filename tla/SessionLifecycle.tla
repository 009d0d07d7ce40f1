-------------------------- MODULE SessionLifecycle --------------------------
(***************************************************************************)
(* The life of a Session: a worker that dequeues an accept takes a slot of *)
(* the pool for it and posts the accept context again, the workers and the *)
(* consumers do I/O on the session, and the worker whose CompleteIO finds  *)
(* it closing with no I/O left destroys it. Steps are the                  *)
(* accesses to shared state: pendingIO_ and closing_ are separate atomics, *)
(* sendBuffer_ and sending_ are under sendLock_, the registry is under     *)
(* lock_, which a consumer holds (shared) during every Send.               *)
(***************************************************************************)
EXTENDS Integers, FiniteSets

CONSTANTS
  Slots,      \* the entries of the session pool
  MaxId,      \* bound: at most MaxId sessions are created
  Workers,    \* the IOCP worker threads
  Senders,    \* the consumer threads, which call Session::Send
  NContexts,  \* accept contexts
  MaxUsed,    \* bound: packets a send buffer holds
  NoThread, NoSlot

ASSUME LifecycleAssumption ==
  /\ MaxId \in Nat /\ NContexts \in Nat /\ MaxUsed \in Nat \ {0}
  /\ Workers \cap Senders = {} /\ NoThread \notin Workers \cup Senders
  /\ NoSlot \notin Slots
  /\ IsFiniteSet(Workers) /\ IsFiniteSet(Senders)

Threads == Workers \cup Senders

VARIABLES
  posted,    \* accept contexts with an AcceptEx under way
  lost,      \* accept contexts whose PostAccept failed: nobody posts them again
  live,      \* live[i]: slot i is in byId_
  avail,     \* avail[i]: how often i is on the pool's free stack
  strays,    \* slots that an id of an earlier session in byId_ still leads to
  nextId,
  closing, pending, sending,   \* closing_, pendingIO_, sending_ of each slot
  used,      \* packets in sendBuffer_
  inflight,  \* how many of them the outstanding WSASend covers
  lockBy,    \* the holder of sendLock_
  recvOut, sendOut,            \* WSARecv / WSASend issued and not dequeued
  open,      \* open[i]: socket_ has not been closed
  spoken,    \* spoken[i]: a packet of the client was queued: it may have a name
  th,        \* th[t]: what thread t does, and for which slot
  \* History, read by the properties alone: the sessions on which the accounting of
  \* references cannot be relied on any more.
  deaf,      \* PostRecv found no room and posted no receive
  early      \* a message was sent before the first receive was posted

vars == <<posted, lost, live, avail, strays, nextId, closing, pending, sending, used, inflight,
          lockBy, recvOut, sendOut, open, spoken, th, deaf, early>>

accepts  == <<posted, lost>>
registry == <<live, avail, strays, nextId>>
buffer   == <<sending, used, inflight>>
kernel   == <<recvOut, sendOut>>
history  == <<deaf, early>>

Idle == [pc |-> "idle", job |-> "none", slot |-> NoSlot, count |-> 0, todo |-> {}]

\* PostAccept for each context; a failure here is ignored like any later one, and
\* main goes on also when Start has failed and none is posted.
PrepareAccepts == posted \in 0..NContexts /\ lost = NContexts - posted

Init ==
  /\ PrepareAccepts
  /\ live = [i \in Slots |-> FALSE] /\ avail = [i \in Slots |-> 1]
  /\ strays = {} /\ nextId = 1
  /\ closing = [i \in Slots |-> FALSE] /\ pending = [i \in Slots |-> 0]
  /\ sending = [i \in Slots |-> FALSE] /\ used = [i \in Slots |-> 0]
  /\ inflight = [i \in Slots |-> 0] /\ lockBy = [i \in Slots |-> NoThread]
  /\ recvOut = [i \in Slots |-> 0] /\ sendOut = [i \in Slots |-> 0]
  /\ open = [i \in Slots |-> FALSE] /\ spoken = [i \in Slots |-> FALSE]
  /\ th = [t \in Threads |-> Idle]
  /\ deaf = {} /\ early = {}

-----------------------------------------------------------------------------
At(t, pc) == th[t].pc = pc
Slot(t)   == th[t].slot
Goto(t, pc) == th' = [th EXCEPT ![t].pc = pc]

\* lock_: writers (Create, Destroy) wait until no consumer is inside a send.
NoReaders == \A s \in Senders : At(s, "idle")

\* A worker in CompleteIO that counted down, and not to 0: its last read decides nothing.
Past(t) == At(t, "last") /\ th[t].count # 0

Repost == [Idle EXCEPT !.pc = "repost", !.job = "accept"]

AfterPostAlways(t) == IF th[t].job = "deliver" THEN [th EXCEPT ![t].pc = "pick"]
                                               ELSE [th EXCEPT ![t].pc = "complete"]

\* Where PostRecv and PostSend return to: the accept path posts its context again,
\* a worker goes on to CompleteIO, a consumer to the next session of its broadcast.
AfterPost(t) == CASE th[t].job = "accept"  -> [th EXCEPT ![t] = Repost]
                  [] th[t].job = "io"      -> [th EXCEPT ![t].pc = "complete"]
                  [] th[t].job = "deliver" -> [th EXCEPT ![t].pc = "pick"]

Unlock(t) == lockBy' = [i \in Slots |-> IF lockBy[i] = t THEN NoThread ELSE lockBy[i]]
Return(t) == th' = AfterPost(t) /\ Unlock(t)

-----------------------------------------------------------------------------
\* ObjectPool::Alloc: a slot of the free stack, taken off it.
Alloc(i) == avail[i] > 0 /\ avail' = [avail EXCEPT ![i] = @ - 1]

\* A worker takes a completed AcceptEx: OnAcceptComplete, which waits for lock_ in
\* SessionManager::Create; or it failed, and the worker posts the context again.
Creating == {t \in Workers : At(t, "create")}

DequeueAccept(t) ==
  /\ At(t, "idle")
  /\ posted > 0 /\ posted' = posted - 1
  /\ \/ /\ nextId + Cardinality(Creating) <= MaxId
        /\ th' = [th EXCEPT ![t] = [Idle EXCEPT !.pc = "create", !.job = "accept"]]
     \/ th' = [th EXCEPT ![t] = Repost]
  /\ UNCHANGED <<lost, registry, closing, pending, buffer, lockBy, kernel, open, spoken, history>>

\* Nothing is left of the sessions that slot i held before.
Untouched(i) ==
  /\ ~live[i] /\ avail[i] = 1 /\ i \notin strays
  /\ recvOut[i] = 0 /\ sendOut[i] = 0
  /\ \A t \in Threads : Slot(t) = i => Past(t)

\* SessionManager::Create with a slot: ObjectPool::Alloc, Session::Init and byId_[id];
\* then the association with the IOCP. An id that still leads to the slot stays.
Create(t) ==
  /\ At(t, "create") /\ NoReaders
  /\ \E i \in Slots :
       /\ Alloc(i)
       /\ live' = [live EXCEPT ![i] = TRUE]
       /\ strays' = IF live[i] THEN strays \cup {i} ELSE strays
       /\ closing' = [closing EXCEPT ![i] = FALSE]
       /\ pending' = [pending EXCEPT ![i] = 0]
       /\ sending' = [sending EXCEPT ![i] = FALSE]
       /\ used' = [used EXCEPT ![i] = 0]
       /\ open' = [open EXCEPT ![i] = TRUE]
       /\ spoken' = [spoken EXCEPT ![i] = FALSE]
       /\ th' = [th EXCEPT ![t] = [@ EXCEPT !.pc = "recv_check", !.slot = i]]
       /\ LET fresh == {j \in {i} : Untouched(j)}
          IN deaf' = deaf \ fresh /\ early' = early \ fresh
  /\ nextId' = nextId + 1
  /\ UNCHANGED <<accepts, inflight, lockBy, kernel>>

AcceptForgotten(t) ==
  /\ At(t, "create") /\ NoReaders /\ \A i \in Slots : avail[i] = 0
  /\ th' = [th EXCEPT ![t] = Idle]
  /\ UNCHANGED <<accepts, registry, closing, pending, buffer, lockBy, kernel, open, spoken,
                 history>>

\* Create finds no free slot: the worker closes the client's socket.
CreateRefused(t) ==
  /\ At(t, "create") /\ NoReaders /\ \A i \in Slots : avail[i] = 0
  /\ th' = [th EXCEPT ![t] = Repost]
  /\ UNCHANGED <<accepts, registry, closing, pending, buffer, lockBy, kernel, open, spoken,
                 history>>

\* PostAccept, at the end of every accept. Its result is ignored: when there is no
\* socket, or AcceptEx fails at once, the context is out of service.
PostAccept(t) ==
  /\ At(t, "repost")
  /\ \/ posted' = posted + 1 /\ UNCHANGED lost
     \/ lost' = lost + 1 /\ UNCHANGED posted
  /\ th' = [th EXCEPT ![t] = Idle]
  /\ UNCHANGED <<registry, closing, pending, buffer, lockBy, kernel, open, spoken, history>>

\* GetQueuedCompletionStatus returns a completion of slot i. An operation on a
\* closed socket may still have succeeded before; on an open one it fails, or
\* a receive gives 0 bytes, when the peer is gone.
DequeueRecv(t, i) ==
  /\ At(t, "idle") /\ recvOut[i] > 0
  /\ recvOut' = [recvOut EXCEPT ![i] = @ - 1]
  /\ \E pc \in {"on_recv", "close"} :
       th' = [th EXCEPT ![t] = [Idle EXCEPT !.pc = pc, !.job = "io", !.slot = i]]
  /\ UNCHANGED <<accepts, registry, closing, pending, buffer, lockBy, sendOut, open, spoken, history>>

DequeueSend(t, i) ==
  /\ At(t, "idle") /\ sendOut[i] > 0
  /\ sendOut' = [sendOut EXCEPT ![i] = @ - 1]
  /\ \E pc \in {"on_send", "close"} :
       th' = [th EXCEPT ![t] = [Idle EXCEPT !.pc = pc, !.job = "io", !.slot = i]]
  /\ UNCHANGED <<accepts, registry, closing, pending, buffer, lockBy, recvOut, open, spoken, history>>

\* OnRecv: the packets that are complete go to the shard queue, and a header with an
\* impossible size behind them closes the session; then PostRecv either way.
OnRecv(t) ==
  /\ At(t, "on_recv")
  /\ \/ spoken' = [spoken EXCEPT ![Slot(t)] = TRUE]
     \/ UNCHANGED spoken
  /\ \/ /\ closing' = [closing EXCEPT ![Slot(t)] = TRUE]
        /\ open' = [open EXCEPT ![Slot(t)] = FALSE]
     \/ UNCHANGED <<closing, open>>
  /\ Goto(t, "recv_check")
  /\ UNCHANGED <<accepts, registry, pending, buffer, lockBy, kernel, history>>

\* PostRecv: if (closing_) return; if (freeSize <= 0) return; the buffer of a new
\* session has room (RecvStream says when it has none).
RecvCheck(t) ==
  /\ At(t, "recv_check")
  /\ \/ closing[Slot(t)] /\ Return(t) /\ UNCHANGED deaf
     \/ /\ ~closing[Slot(t)] /\ th[t].job = "io"
        /\ Return(t)
        /\ deaf' = deaf \cup {Slot(t)}
     \/ ~closing[Slot(t)] /\ Goto(t, "recv_inc") /\ UNCHANGED <<lockBy, deaf>>
  /\ UNCHANGED <<accepts, registry, closing, pending, buffer, kernel, open, spoken, early>>

RecvInc(t) ==
  /\ At(t, "recv_inc")
  /\ pending' = [pending EXCEPT ![Slot(t)] = @ + 1]
  /\ Goto(t, "recv_io")
  /\ UNCHANGED <<accepts, registry, closing, buffer, lockBy, kernel, open, spoken, history>>

\* WSARecv is accepted on an open socket, or fails at once.
RecvIo(t) ==
  /\ At(t, "recv_io")
  /\ \/ /\ open[Slot(t)]
        /\ recvOut' = [recvOut EXCEPT ![Slot(t)] = @ + 1]
        /\ Return(t)
     \/ Goto(t, "undo") /\ UNCHANGED <<recvOut, lockBy>>
  /\ UNCHANGED <<accepts, registry, closing, pending, buffer, sendOut, open, spoken, history>>

\* OnSend: moveHead, then the next PostSend or sending_ = false. A head moved past the
\* tail (by a send of the slot's earlier session) makes the ring look used to that size.
OnSend(t) ==
  /\ At(t, "on_send") /\ lockBy[Slot(t)] = NoThread
  /\ LET i == Slot(t)
         left == IF inflight[i] <= used[i] THEN used[i] - inflight[i]
                                           ELSE used[i] + MaxUsed + 1 - inflight[i]
     IN /\ used' = [used EXCEPT ![i] = left]
        /\ inflight' = [inflight EXCEPT ![i] = 0]
        /\ IF left # 0
             THEN /\ lockBy' = [lockBy EXCEPT ![i] = t]
                  /\ Goto(t, "send_check")
                  /\ UNCHANGED sending
             ELSE /\ sending' = [sending EXCEPT ![i] = FALSE]
                  /\ Goto(t, "complete")
                  /\ UNCHANGED lockBy
  /\ UNCHANGED <<accepts, registry, closing, pending, kernel, open, spoken, history>>

\* PostSend: if (closing_) return; if there is nothing to send, sending_ = false.
SendCheck(t) ==
  /\ At(t, "send_check")
  /\ \/ closing[Slot(t)] /\ Return(t) /\ UNCHANGED sending
     \/ /\ ~closing[Slot(t)] /\ used[Slot(t)] = 0
        /\ sending' = [sending EXCEPT ![Slot(t)] = FALSE]
        /\ Return(t)
     \/ ~closing[Slot(t)] /\ used[Slot(t)] # 0 /\ Goto(t, "send_inc") /\ UNCHANGED <<sending, lockBy>>
  /\ UNCHANGED <<accepts, registry, closing, pending, used, inflight, kernel, open, spoken,
                 history>>

\* ++pendingIO_; the operation covers the linear part of what is in the buffer
\* (SendStream says which part that is).
SendInc(t) ==
  /\ At(t, "send_inc")
  /\ pending' = [pending EXCEPT ![Slot(t)] = @ + 1]
  /\ \E n \in 1..used[Slot(t)] : inflight' = [inflight EXCEPT ![Slot(t)] = n]
  /\ Goto(t, "send_io")
  /\ UNCHANGED <<accepts, registry, closing, sending, used, lockBy, kernel, open, spoken, history>>

SendIo(t) ==
  /\ At(t, "send_io")
  /\ \/ /\ open[Slot(t)]
        /\ sendOut' = [sendOut EXCEPT ![Slot(t)] = @ + 1]
        /\ Return(t)
     \/ Goto(t, "undo") /\ UNCHANGED <<sendOut, lockBy>>
  /\ UNCHANGED <<accepts, registry, closing, pending, buffer, recvOut, open, spoken, history>>

UndoNothing(t) ==
  /\ At(t, "undo")
  /\ Goto(t, "close")
  /\ UNCHANGED <<accepts, registry, closing, pending, buffer, lockBy, kernel, open, spoken, history>>

\* A WSARecv or WSASend that failed at once: --pendingIO_, then Close().
Undo(t) ==
  /\ At(t, "undo")
  /\ pending' = [pending EXCEPT ![Slot(t)] = @ - 1]
  /\ Goto(t, "close")
  /\ UNCHANGED <<accepts, registry, closing, buffer, lockBy, kernel, open, spoken, history>>

\* Session::Close, after a failed post or a completion that failed.
Close(t) ==
  /\ At(t, "close")
  /\ closing' = [closing EXCEPT ![Slot(t)] = TRUE]
  /\ open' = [open EXCEPT ![Slot(t)] = FALSE]
  /\ Return(t)
  /\ UNCHANGED <<accepts, registry, pending, buffer, kernel, spoken, history>>

\* CompleteIO: int count = --pendingIO_;
Release(t) ==
  /\ At(t, "complete")
  /\ pending' = [pending EXCEPT ![Slot(t)] = @ - 1]
  /\ th' = [th EXCEPT ![t] = [@ EXCEPT !.pc = "last", !.count = pending[Slot(t)] - 1]]
  /\ UNCHANGED <<accepts, registry, closing, buffer, lockBy, kernel, open, spoken, history>>

LastWithoutCount(t) == closing[Slot(t)]

\* ... return closing_ && count == 0;
IsLast(t) == closing[Slot(t)] /\ th[t].count = 0

CompleteIO(t) ==
  /\ At(t, "last")
  /\ th' = [th EXCEPT ![t] = IF IsLast(t) THEN [@ EXCEPT !.pc = "destroy"] ELSE Idle]
  /\ UNCHANGED <<accepts, registry, closing, pending, buffer, lockBy, kernel, open, spoken, history>>

\* CloseSession: SessionManager::Destroy.
Destroy(t) ==
  /\ At(t, "destroy") /\ NoReaders
  /\ live' = [live EXCEPT ![Slot(t)] = FALSE]
  /\ avail' = [avail EXCEPT ![Slot(t)] = @ + 1]
  /\ th' = [th EXCEPT ![t] = Idle]
  /\ UNCHANGED <<accepts, strays, nextId, closing, pending, buffer, lockBy, kernel, open, spoken,
                 history>>

-----------------------------------------------------------------------------
\* A consumer: Broadcast, SendTo, SendToFriends, SendRosterTo take lock_ shared
\* and Send to some sessions. All but a whisper go to sessions that have sent a
\* packet, or to the sender; a whisper goes to the session with the id that was typed,
\* which may be one whose first receive the accepting worker has not posted yet.
Targets == {i \in Slots : live[i] \/ i \in strays}
Deliveries == ((SUBSET {i \in Targets : spoken[i]}) \cup {{i} : i \in Targets}) \ {{}}

Accepted(i) == \E t \in Workers : Slot(t) = i /\ th[t].job = "accept"

LockRegistry(s) ==
  /\ At(s, "idle")
  /\ \E T \in Deliveries :
       /\ th' = [th EXCEPT ![s] = [Idle EXCEPT !.pc = "pick", !.job = "deliver", !.todo = T]]
       /\ early' = early \cup {i \in T : Accepted(i)}
  /\ UNCHANGED <<accepts, registry, closing, pending, buffer, lockBy, kernel, open, spoken, deaf>>

SendWithoutFlag(s) ==
  /\ At(s, "pick")
  /\ \E i \in th[s].todo :
       /\ lockBy[i] = NoThread
       /\ used[i] < MaxUsed
       /\ used' = [used EXCEPT ![i] = @ + 1]
       /\ lockBy' = [lockBy EXCEPT ![i] = s]
       /\ th' = [th EXCEPT ![s].pc = "send_check", ![s].slot = i, ![s].todo = @ \ {i}]
       /\ UNCHANGED sending
  /\ UNCHANGED <<accepts, registry, closing, pending, inflight, kernel, open, spoken, history>>

\* Session::Send, up to PostSend: dropped when the buffer is full; PostSend
\* only if no send is under way.
Send(s) ==
  /\ At(s, "pick")
  /\ \E i \in th[s].todo :
       /\ lockBy[i] = NoThread
       /\ LET fits == used[i] < MaxUsed IN
          /\ used' = IF fits THEN [used EXCEPT ![i] = @ + 1] ELSE used
          /\ IF fits /\ ~sending[i]
               THEN /\ sending' = [sending EXCEPT ![i] = TRUE]
                    /\ lockBy' = [lockBy EXCEPT ![i] = s]
                    /\ th' = [th EXCEPT ![s].pc = "send_check", ![s].slot = i, ![s].todo = @ \ {i}]
               ELSE /\ th' = [th EXCEPT ![s].todo = @ \ {i}]
                    /\ UNCHANGED <<sending, lockBy>>
  /\ UNCHANGED <<accepts, registry, closing, pending, inflight, kernel, open, spoken, history>>

UnlockRegistry(s) ==
  /\ At(s, "pick") /\ th[s].todo = {}
  /\ th' = [th EXCEPT ![s] = Idle]
  /\ UNCHANGED <<accepts, registry, closing, pending, buffer, lockBy, kernel, open, spoken, history>>

-----------------------------------------------------------------------------
Post(t) == \/ RecvCheck(t) \/ RecvInc(t) \/ RecvIo(t)
           \/ SendCheck(t) \/ SendInc(t) \/ SendIo(t)
           \/ Undo(t) \/ Close(t)

Complete(t) == \/ OnRecv(t) \/ OnSend(t) \/ Post(t) \/ PostAccept(t)
               \/ Create(t) \/ CreateRefused(t)
               \/ Release(t) \/ CompleteIO(t) \/ Destroy(t)

Deliver(s) == LockRegistry(s) \/ Send(s) \/ Post(s) \/ UnlockRegistry(s)

Dequeue(t, i) == DequeueRecv(t, i) \/ DequeueSend(t, i)

Next == \/ \E t \in Workers : DequeueAccept(t) \/ Complete(t)
        \/ \E t \in Workers, i \in Slots : Dequeue(t, i)
        \/ \E s \in Senders : Deliver(s)

Spec == Init /\ [][Next]_vars

\* A thread that is in the middle of something goes on, and gets sendLock_ when it is
\* free again and again; an operation ends once its socket is closed, and its completion
\* is dequeued, for the port hands completions out in the order they came, however many
\* accepts keep the workers busy. Consumers that overlap in lock_ for ever could keep a
\* writer out: it is assumed that they do not, as a shared_mutex that queues a waiting
\* writer before later readers warrants. Nothing is assumed of an operation on an open
\* socket: a silent client may leave it pending for ever.
WriterWaits == \E t \in Workers : At(t, "create") \/ At(t, "destroy")

Fairness ==
  /\ \A t \in Workers : SF_vars(Complete(t))
  /\ \A i \in Slots : SF_vars(\E t \in Workers : ~open[i] /\ Dequeue(t, i))
  /\ \A s \in Senders : SF_vars(Post(s) \/ Send(s) \/ UnlockRegistry(s))
  /\ []<>(NoReaders \/ ~WriterWaits)

FairSpec == Spec /\ Fairness

-----------------------------------------------------------------------------
Pcs == {"idle", "create", "repost", "recv_check", "recv_inc", "recv_io", "send_check", "send_inc",
        "send_io", "on_recv", "on_send", "undo", "close", "complete", "last", "destroy", "pick"}

ThreadState == [pc : Pcs, job : {"none", "accept", "io", "deliver"},
                slot : Slots \cup {NoSlot}, count : Int, todo : SUBSET Slots]

\* The slots whose session was neither deaf nor sent to too early, and which holds
\* nothing of an earlier one that was. The properties are about these; on the others the
\* code breaks each of them (DeafNotReused, EarlyNotReused).
Sound == Slots \ (deaf \cup early)

\* Every variable stays in its range; in particular pendingIO_ is never negative.
TypeOK ==
  /\ posted \in 0..NContexts /\ lost \in 0..NContexts
  /\ live \in [Slots -> BOOLEAN] /\ avail \in [Slots -> Nat]
  /\ strays \subseteq Slots /\ nextId \in Nat
  /\ closing \in [Slots -> BOOLEAN] /\ sending \in [Slots -> BOOLEAN]
  /\ pending \in [Slots -> Int] /\ \A i \in Sound : pending[i] >= 0
  /\ used \in [Slots -> 0..MaxUsed] /\ inflight \in [Slots -> 0..MaxUsed]
  /\ lockBy \in [Slots -> Threads \cup {NoThread}]
  /\ recvOut \in [Slots -> Nat] /\ sendOut \in [Slots -> Nat]
  /\ open \in [Slots -> BOOLEAN] /\ spoken \in [Slots -> BOOLEAN]
  /\ th \in [Threads -> ThreadState]
  /\ deaf \subseteq Slots /\ early \subseteq Slots

\* The threads that hold a reference to slot i: a worker from the completion it
\* dequeued until it releases it, and any thread from ++pendingIO_ until the
\* operation is issued or undone.
Completing(i) == {t \in Workers : Slot(t) = i /\ th[t].job = "io" /\ ~At(t, "last") /\ ~At(t, "destroy")}
Posting(i)    == {t \in Threads : Slot(t) = i /\ th[t].pc \in {"recv_io", "send_io", "undo"}}

\* pendingIO_ is exactly the number of operations under way and threads that
\* must still give their reference back.
PendingExact ==
  \A i \in Sound : live[i] =>
    pending[i] = recvOut[i] + sendOut[i] + Cardinality(Completing(i)) + Cardinality(Posting(i))

\* recvContext_ and sendContext_ are each used by one operation at a time: one
\* receive, and one send (sending_), whoever of workers and consumers posts it.
OneOperationEach == \A i \in Sound : recvOut[i] <= 1 /\ sendOut[i] <= 1

\* A slot that was given back is used by nobody: no operation of it is under
\* way, and no thread will touch the session (a worker past its decrement reads
\* closing_ once more, which decides nothing unless its count was 0).
NoDangling ==
  \A i \in Sound : ~live[i] =>
    /\ recvOut[i] = 0 /\ sendOut[i] = 0
    /\ \A t \in Threads : Slot(t) = i /\ ~At(t, "idle") => Past(t)

\* A slot is on the free stack once when no session lives in it, else not at all.
FreedOnce == \A i \in Sound : avail[i] = IF live[i] THEN 0 ELSE 1

\* Once a session is closing, all references to it are given back.
ReferencesDrain == \A i \in Slots : closing[i] ~> (pending[i] = 0 \/ ~closing[i] \/ i \notin Sound)

\* The server goes on accepting until all contexts are lost, whatever the sessions and
\* the consumers do, also with the pool full: a worker that took an accept, and then waits
\* for lock_ in Create, posts its context again on every path.
AcceptsGoOn == []<>(posted > 0 \/ lost = NContexts)

\* The slot of a disconnected session that has been in use (so that it survived its first
\* PostRecv) is given back to the pool.
UsedIsReclaimed ==
  \A i \in Slots : (live[i] /\ closing[i] /\ spoken[i] /\ i \in Sound) ~> (~live[i] \/ i \notin Sound)

\* ObjectPool hands out slots of sessions that are gone: a slot with a live session is
\* not on the free stack, unless a message came too early. It fails: two workers may both
\* destroy a session whose PostRecv found no room.
DeafNotReused == \A i \in Slots : live[i] /\ i \notin early => avail[i] = 0

\* The same unless a receive buffer was full. It fails too: a session that is sent to
\* before its first receive may be destroyed while the accepting worker uses it.
EarlyNotReused == \A i \in Slots : live[i] /\ i \notin deaf => avail[i] = 0
=============================================================================
