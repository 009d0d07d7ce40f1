----------------------- MODULE SessionLifecycleProofs -----------------------
(***************************************************************************)
(* Proofs about SessionLifecycle, for any number of slots, workers,        *)
(* consumers and accept contexts. IInv is the inductive invariant: what a  *)
(* thread may be doing, who may touch a session while its first receive is *)
(* posted, that a live session is closing or has somebody on its receive   *)
(* path, and what a worker that saw the count at 0 may rely on. It is     *)
(* about the slots in Sound, as the properties are: a session whose buffer *)
(* was full (deaf) or that was sent to before its first receive (early) is *)
(* outside, and so is a slot while anything of such a session is left.     *)
(***************************************************************************)
EXTENDS SessionLifecycle, FiniteSetTheorems, TLAPS

RecvPcs == {"on_recv", "recv_check", "recv_inc", "recv_io"}
SendPcs == {"on_send", "send_check", "send_inc", "send_io"}

\* What a thread may be doing, by its kind and its job.
ThreadOK ==
  /\ \A t \in Threads :
       /\ th[t].pc \notin {"idle", "create", "repost", "pick"} => Slot(t) \in Slots
       /\ At(t, "idle") => Slot(t) = NoSlot /\ th[t].job = "none" /\ th[t].todo = {}
       /\ At(t, "create") \/ At(t, "repost") =>
            Slot(t) = NoSlot /\ th[t].job = "accept" /\ th[t].todo = {}
  /\ \A t \in Workers :
       /\ th[t].job \in {"none", "accept", "io"} /\ ~At(t, "pick")
       /\ th[t].job = "none" => At(t, "idle")
       /\ th[t].job = "io" => th[t].pc \notin {"idle", "create", "repost"}
       /\ th[t].job = "accept" =>
            th[t].pc \in {"create", "repost", "recv_check", "recv_inc", "recv_io", "undo", "close"}
  /\ \A s \in Senders :
       /\ th[s].pc \in {"idle", "pick", "send_check", "send_inc", "send_io", "undo", "close"}
       /\ ~At(s, "idle") => th[s].job = "deliver"

\* An accept context is posted, lost, or in the hands of a worker.
Accepting == {t \in Workers : th[t].job = "accept"}
ContextsExact == posted + lost + Cardinality(Accepting) = NContexts

\* The sessions that the consumers send to, and those the workers are at, live.
SendersLive == \A s \in Senders, i \in Sound :
  i \in th[s].todo \/ (Slot(s) = i /\ ~At(s, "idle")) => live[i]

WorkersLive == \A t \in Workers, i \in Sound : Slot(t) = i => live[i] \/ Past(t)

\* While the first receive is posted, only the accepting worker knows the session.
FirstPost == \A t \in Workers, i \in Sound :
  Slot(t) = i /\ th[t].job = "accept" =>
    /\ live[i] /\ ~sending[i] /\ recvOut[i] = 0 /\ sendOut[i] = 0
    /\ \A u \in Workers \ {t} : Slot(u) = i => Past(u)
    /\ \A s \in Senders : i \notin th[s].todo /\ Slot(s) # i

\* Close sets the flag and closes the socket in one call.
OpenExact == \A i \in Sound : live[i] => (open[i] <=> ~closing[i])

\* There is one receive of a session, pending or in the hands of one thread, ...
Receiving(t, i) == Slot(t) = i /\ th[t].pc \in RecvPcs

RecvToken == \A i \in Sound :
  /\ \A t \in Threads : Receiving(t, i) => recvOut[i] = 0
  /\ \A t, u \in Threads : Receiving(t, i) /\ Receiving(u, i) => t = u

\* ... and one send, whose flag is set.
SendingOn(t, i) == Slot(t) = i /\ th[t].pc \in SendPcs

SendToken == \A i \in Sound :
  /\ sendOut[i] # 0 => sending[i]
  /\ \A t \in Threads : SendingOn(t, i) => sendOut[i] = 0 /\ sending[i]
  /\ \A t, u \in Threads : SendingOn(t, i) /\ SendingOn(u, i) => t = u

\* A session that is not closing is received for, or a worker is about to close it.
RecvAlive == \A i \in Sound : live[i] /\ ~closing[i] =>
  \/ recvOut[i] # 0
  \/ \E t \in Workers : Slot(t) = i /\ th[t].pc \in RecvPcs \cup {"undo", "close"}

\* A worker that saw the count at 0 is the only one left, and stays so: the session
\* is closing, so that nothing can be posted any more.
Zero(t) == (At(t, "last") /\ th[t].count = 0) \/ At(t, "destroy")

LastAlone == \A t \in Workers, i \in Sound : Slot(t) = i /\ Zero(t) =>
  /\ live[i] /\ closing[i] /\ recvOut[i] = 0 /\ sendOut[i] = 0
  /\ \A u \in Workers \ {t} : Slot(u) = i => Past(u)

\* Only the id of its own session leads to a sound slot.
NoStrays == strays \cap Sound = {}

IInv == /\ TypeOK /\ ThreadOK /\ ContextsExact /\ SendersLive /\ WorkersLive
        /\ FirstPost /\ OpenExact /\ OneOperationEach /\ RecvToken /\ SendToken
        /\ RecvAlive /\ LastAlone /\ NoStrays
        /\ PendingExact /\ NoDangling /\ FreedOnce


\* A set that changes by at most one element: what that does to its size.
LEMMA OneMoves ==
  ASSUME NEW S, NEW T, NEW x, IsFiniteSet(S), S \ {x} = T \ {x}
  PROVE  /\ IsFiniteSet(T) /\ Cardinality(S) \in Nat /\ Cardinality(T) \in Nat
         /\ Cardinality(T) + (IF x \in S THEN 1 ELSE 0)
              = Cardinality(S) + (IF x \in T THEN 1 ELSE 0)
<1>1. IsFiniteSet(S \ {x}) /\ IsFiniteSet(T)
  <2>1. IsFiniteSet(S \ {x})
    BY FS_RemoveElement
  <2>2. T = S \ {x} \/ T = (S \ {x}) \cup {x}
    OBVIOUS
  <2>. QED  BY <2>1, <2>2, FS_AddElement
<1>2. \A R : IsFiniteSet(R) => /\ Cardinality(R) \in Nat
                               /\ x \in R => Cardinality(R) = Cardinality(R \ {x}) + 1
                               /\ x \notin R => R \ {x} = R
  <2>. SUFFICES ASSUME NEW R, IsFiniteSet(R)
                PROVE  /\ Cardinality(R) \in Nat
                       /\ x \in R => Cardinality(R) = Cardinality(R \ {x}) + 1
                       /\ x \notin R => R \ {x} = R
    OBVIOUS
  <2>1. Cardinality(R) \in Nat
    BY FS_CardinalityType
  <2>2. ASSUME x \in R PROVE Cardinality(R \ {x}) = Cardinality(R) - 1
    BY <2>2, FS_RemoveElement
  <2>. QED  BY <2>1, <2>2
<1>. QED  BY <1>1, <1>2

\* What is left of a ring of m + 1 cells when the head moves on.
LEMMA WrappedDifference ==
  ASSUME NEW m \in Nat, NEW a \in 0..m, NEW b \in 0..m
  PROVE  (IF b <= a THEN a - b ELSE a + m + 1 - b) \in 0..m
OBVIOUS

\* A step of thread t moves only t in and out of the sets that are counted.
Others(t) == \A u \in Threads \ {t} : th'[u] = th[u]

Holds(t, i) == IF /\ t \in Workers /\ Slot(t) = i /\ th[t].job = "io"
                  /\ th[t].pc \notin {"last", "destroy"} THEN 1 ELSE 0
Posts(t, i) == IF Slot(t) = i /\ th[t].pc \in {"recv_io", "send_io", "undo"} THEN 1 ELSE 0
Accepts(t)  == IF t \in Workers /\ th[t].job = "accept" THEN 1 ELSE 0

\* The sets of threads that the counts are about are finite.
LEMMA FiniteSets ==
  /\ \A i \in Slots : IsFiniteSet(Completing(i)) /\ IsFiniteSet(Posting(i))
  /\ IsFiniteSet(Accepting)
<1>1. IsFiniteSet(Threads)
  BY LifecycleAssumption, FS_Union DEF Threads
<1>. QED  BY <1>1, LifecycleAssumption, FS_Subset DEF Completing, Posting, Accepting, Threads

\* How the counts of references to slot i change in a step of thread t: by what t held
\* before and holds after it.
LEMMA CountsMove ==
  ASSUME NEW t \in Threads, NEW i \in Slots, Others(t)
  PROVE  /\ Cardinality(Completing(i)) \in Nat /\ Cardinality(Completing(i)') \in Nat
         /\ Cardinality(Posting(i)) \in Nat /\ Cardinality(Posting(i)') \in Nat
         /\ Cardinality(Completing(i)') + Holds(t, i)
              = Cardinality(Completing(i)) + Holds(t, i)'
         /\ Cardinality(Posting(i)') + Posts(t, i)
              = Cardinality(Posting(i)) + Posts(t, i)'
<1>1. IsFiniteSet(Completing(i)) /\ IsFiniteSet(Posting(i))
  BY FiniteSets
<1>2. Completing(i) \ {t} = Completing(i)' \ {t}
  BY DEF Completing, Others, Slot, At, Threads
<1>3. Posting(i) \ {t} = Posting(i)' \ {t}
  BY DEF Posting, Others, Slot, Threads
<1>4. /\ Holds(t, i) = IF t \in Completing(i) THEN 1 ELSE 0
      /\ Holds(t, i)' = IF t \in Completing(i)' THEN 1 ELSE 0
      /\ Posts(t, i) = IF t \in Posting(i) THEN 1 ELSE 0
      /\ Posts(t, i)' = IF t \in Posting(i)' THEN 1 ELSE 0
  BY DEF Completing, Posting, Holds, Posts, Slot, At
<1>5. /\ Cardinality(Completing(i)) \in Nat /\ Cardinality(Completing(i)') \in Nat
      /\ Cardinality(Completing(i)') + (IF t \in Completing(i) THEN 1 ELSE 0)
              = Cardinality(Completing(i)) + (IF t \in Completing(i)' THEN 1 ELSE 0)
  BY <1>1, <1>2, OneMoves
<1>6. /\ Cardinality(Posting(i)) \in Nat /\ Cardinality(Posting(i)') \in Nat
      /\ Cardinality(Posting(i)') + (IF t \in Posting(i) THEN 1 ELSE 0)
              = Cardinality(Posting(i)) + (IF t \in Posting(i)' THEN 1 ELSE 0)
  BY <1>1, <1>3, OneMoves
<1>. QED  BY <1>4, <1>5, <1>6

\* The same for the workers that hold an accept context.
LEMMA AcceptingMoves ==
  ASSUME NEW t \in Threads, Others(t)
  PROVE  /\ Cardinality(Accepting) \in Nat /\ Cardinality(Accepting') \in Nat
         /\ Cardinality(Accepting') + Accepts(t) = Cardinality(Accepting) + Accepts(t)'
<1>1. Accepting \ {t} = Accepting' \ {t}
  BY DEF Accepting, Others, Threads
<1>2. /\ Accepts(t) = IF t \in Accepting THEN 1 ELSE 0
      /\ Accepts(t)' = IF t \in Accepting' THEN 1 ELSE 0
  BY DEF Accepting, Accepts
<1>3. /\ Cardinality(Accepting) \in Nat /\ Cardinality(Accepting') \in Nat
      /\ Cardinality(Accepting') + (IF t \in Accepting THEN 1 ELSE 0)
              = Cardinality(Accepting) + (IF t \in Accepting' THEN 1 ELSE 0)
  BY <1>1, FiniteSets, OneMoves
<1>. QED  BY <1>2, <1>3

\* A set with an element counts 1 at least, one with two different elements 2.
LEMMA TwoElements ==
  ASSUME NEW S, IsFiniteSet(S), NEW x \in S
  PROVE  /\ Cardinality(S) \in Nat /\ Cardinality(S) >= 1
         /\ \A y \in S : x # y => Cardinality(S) >= 2
<1>1. IsFiniteSet(S \ {x}) /\ Cardinality(S \ {x}) = Cardinality(S) - 1
  BY FS_RemoveElement
<1>2. Cardinality(S) \in Nat /\ Cardinality(S \ {x}) \in Nat
  BY <1>1, FS_CardinalityType
<1>3. ASSUME NEW y \in S, x # y PROVE Cardinality(S) >= 2
  <2>1. /\ IsFiniteSet((S \ {x}) \ {y})
        /\ Cardinality((S \ {x}) \ {y}) = Cardinality(S \ {x}) - 1
    BY <1>1, <1>3, FS_RemoveElement
  <2>. QED  BY <1>1, <1>2, <2>1, FS_CardinalityType
<1>. QED  BY <1>1, <1>2, <1>3

\* Who holds a reference to a session finds it live, and the reference counted.
LEMMA ReferenceCounts ==
  ASSUME IInv, NEW t \in Threads, NEW i \in Sound, Holds(t, i) = 1 \/ Posts(t, i) = 1
  PROVE  /\ live[i] /\ pending[i] \in Nat /\ pending[i] >= 1
<1>. i \in Slots
  BY DEF Sound
<1>1. live[i]
  BY DEF IInv, WorkersLive, SendersLive, Past, Holds, Posts, Threads, At, Slot
<1>2. IsFiniteSet(Completing(i)) /\ IsFiniteSet(Posting(i))
  BY FiniteSets
<1>3. t \in Completing(i) \/ t \in Posting(i)
  BY DEF Holds, Posts, Completing, Posting, At, Slot
<1>4. /\ Cardinality(Completing(i)) \in Nat /\ Cardinality(Posting(i)) \in Nat
      /\ Cardinality(Completing(i)) >= 1 \/ Cardinality(Posting(i)) >= 1
  BY <1>2, <1>3, TwoElements, FS_CardinalityType
<1>5. recvOut[i] \in Nat /\ sendOut[i] \in Nat
  BY DEF IInv, TypeOK
<1>. QED  BY <1>1, <1>4, <1>5 DEF IInv, PendingExact

\* A worker with an accept context finds that context counted.
LEMMA ContextCounts ==
  ASSUME IInv, NEW t \in Threads, Accepts(t) = 1
  PROVE  posted + lost + 1 <= NContexts
<1>1. t \in Accepting /\ IsFiniteSet(Accepting)
  BY FiniteSets DEF Accepts, Accepting
<1>2. Cardinality(Accepting) \in Nat /\ Cardinality(Accepting) >= 1
  BY <1>1, TwoElements
<1>. QED  BY <1>2, LifecycleAssumption DEF IInv, TypeOK, ContextsExact

\* What a step does to the record of its thread.
NowAt(t, pc, job, slot, todo) ==
  /\ th' \in [Threads -> ThreadState] /\ Others(t)
  /\ th'[t].pc = pc /\ th'[t].job = job /\ th'[t].slot = slot /\ th'[t].todo = todo

GoesTo(t, pc) == NowAt(t, pc, th[t].job, th[t].slot, th[t].todo)

\* Goto changes where the thread is and nothing else of it.
LEMMA GotoFacts ==
  ASSUME TypeOK, NEW t \in Threads, NEW pc \in Pcs, Goto(t, pc)
  PROVE  GoesTo(t, pc)
BY DEF TypeOK, Goto, GoesTo, NowAt, Others, ThreadState

\* What a thread is when it does nothing.
LEMMA IdleState == Idle \in ThreadState
<1>1. 0 \in Int /\ {} \in SUBSET Slots
  OBVIOUS
<1>. QED  BY <1>1 DEF Idle, ThreadState, Pcs

\* A thread that is done forgets its slot.
LEMMA IdleFacts ==
  ASSUME TypeOK, NEW t \in Threads, th' = [th EXCEPT ![t] = Idle]
  PROVE  NowAt(t, "idle", "none", NoSlot, {})
BY DEF TypeOK, Idle, NowAt, Others, ThreadState, Pcs

\* A worker that will post its accept context again forgets its slot.
LEMMA RepostFacts ==
  ASSUME TypeOK, NEW t \in Threads, th' = [th EXCEPT ![t] = Repost]
  PROVE  NowAt(t, "repost", "accept", NoSlot, {})
<1>1. th \in [Threads -> ThreadState]
  BY DEF TypeOK
<1>2. Repost \in ThreadState
  BY IdleState DEF Repost, ThreadState, Pcs
<1>3. Repost.pc = "repost" /\ Repost.job = "accept" /\ Repost.slot = NoSlot /\ Repost.todo = {}
  BY DEF Repost, Idle
<1>. QED  BY <1>1, <1>2, <1>3 DEF NowAt, Others

\* A worker that will create a session has no slot yet.
LEMMA CreatingFacts ==
  ASSUME TypeOK, NEW t \in Threads,
         th' = [th EXCEPT ![t] = [Idle EXCEPT !.pc = "create", !.job = "accept"]]
  PROVE  NowAt(t, "create", "accept", NoSlot, {})
<1>. DEFINE r == [Idle EXCEPT !.pc = "create", !.job = "accept"]
<1>1. th \in [Threads -> ThreadState]
  BY DEF TypeOK
<1>2. r \in ThreadState
  BY IdleState DEF ThreadState, Pcs
<1>3. r.pc = "create" /\ r.job = "accept" /\ r.slot = NoSlot /\ r.todo = {}
  BY DEF Idle
<1>. HIDE DEF r
<1>4. th' = [th EXCEPT ![t] = r]
  BY DEF r
<1>. QED  BY <1>1, <1>2, <1>3, <1>4 DEF NowAt, Others

\* Nobody else starts or stops to receive or to send in a step of thread t.
LEMMA TokensOfOthers ==
  ASSUME NEW t \in Threads, Others(t)
  PROVE  \A u \in Threads \ {t}, i \in Slots : /\ Receiving(u, i)' <=> Receiving(u, i)
                                               /\ SendingOn(u, i)' <=> SendingOn(u, i)
BY DEF Others, Receiving, SendingOn, Slot

\* A worker that begins with slot i.
LEMMA StartFacts ==
  ASSUME TypeOK, NEW t \in Threads, NEW pc \in Pcs, NEW job \in {"accept", "io"}, NEW i \in Slots,
         th' = [th EXCEPT ![t] = [Idle EXCEPT !.pc = pc, !.job = job, !.slot = i]]
  PROVE  NowAt(t, pc, job, i, {})
<1>. DEFINE r == [Idle EXCEPT !.pc = pc, !.job = job, !.slot = i]
<1>1. th \in [Threads -> ThreadState]
  BY DEF TypeOK
<1>2. r \in ThreadState
  BY IdleState DEF ThreadState
<1>3. r.pc = pc /\ r.job = job /\ r.slot = i /\ r.todo = {}
  BY DEF Idle
<1>. HIDE DEF r
<1>4. th' = [th EXCEPT ![t] = r]
  BY DEF r
<1>. QED  BY <1>1, <1>2, <1>3, <1>4 DEF NowAt, Others

\* Where a thread returns to from PostRecv and PostSend.
Returns(t) ==
  /\ lockBy' \in [Slots -> Threads \cup {NoThread}]
  /\ \/ t \in Workers /\ th[t].job = "accept" /\ NowAt(t, "repost", "accept", NoSlot, {})
     \/ t \in Workers /\ th[t].job = "io" /\ GoesTo(t, "complete")
     \/ t \in Senders /\ th[t].job = "deliver" /\ GoesTo(t, "pick")

\* PostRecv and PostSend return to one of these, and release sendLock_.
LEMMA ReturnFacts ==
  ASSUME TypeOK, ThreadOK, NEW t \in Threads, Return(t), Slot(t) \in Slots
  PROVE  Returns(t)
<1>1. lockBy' \in [Slots -> Threads \cup {NoThread}]
  BY DEF TypeOK, Return, Unlock
<1>2. \/ t \in Workers /\ th[t].job \in {"accept", "io"}
      \/ t \in Senders /\ th[t].job = "deliver"
  BY LifecycleAssumption DEF ThreadOK, Threads, At, Slot
<1>3. CASE t \in Workers /\ th[t].job = "accept"
  <2>1. th' = [th EXCEPT ![t] = Repost]
    BY <1>3 DEF Return, AfterPost
  <2>. QED  BY <1>1, <1>3, <2>1, RepostFacts DEF Returns
<1>4. CASE t \in Workers /\ th[t].job = "io"
  <2>1. Goto(t, "complete")
    BY <1>4 DEF Return, AfterPost, Goto
  <2>. QED  BY <1>1, <1>4, <2>1, GotoFacts DEF Returns, Pcs
<1>5. CASE t \in Senders /\ th[t].job = "deliver"
  <2>1. Goto(t, "pick")
    BY <1>5 DEF Return, AfterPost, Goto
  <2>. QED  BY <1>1, <1>5, <2>1, GotoFacts DEF Returns, Pcs
<1>. QED  BY <1>2, <1>3, <1>4, <1>5


\* Returning from a post leaves an accept context where it was, and the slot or none.
LEMMA ReturnsKeep ==
  ASSUME NEW t \in Threads, Returns(t)
  PROVE  /\ Accepts(t)' = Accepts(t) /\ Others(t)
         /\ th'[t].slot \in {Slot(t), NoSlot} /\ th'[t].job = th[t].job
         /\ th'[t].job = "accept" => th'[t].slot = NoSlot \/ t \notin Workers
BY LifecycleAssumption DEF Returns, GoesTo, NowAt, Accepts, Slot, Threads

\* A sound slot off the free stack is not live, so nobody but threads past their last use
\* is at it, and nothing of it is under way: resetting it disturbs nobody. A slot becomes
\* sound again only when the same is so.
LEMMA CreateStep ==
  ASSUME IInv, NEW t \in Workers, Create(t)
  PROVE  IInv'
<1>. t \in Threads /\ TypeOK /\ ThreadOK
  BY DEF IInv, Threads
<1>1. PICK p \in Slots :
      /\ At(t, "create") /\ NoReaders /\ avail[p] > 0
      /\ posted' = posted /\ nextId' = nextId + 1
      /\ avail' = [avail EXCEPT ![p] = @ - 1] /\ live' = [live EXCEPT ![p] = TRUE]
      /\ closing' = [closing EXCEPT ![p] = FALSE] /\ pending' = [pending EXCEPT ![p] = 0]
      /\ sending' = [sending EXCEPT ![p] = FALSE] /\ used' = [used EXCEPT ![p] = 0]
      /\ inflight' = inflight /\ open' = [open EXCEPT ![p] = TRUE]
      /\ spoken' = [spoken EXCEPT ![p] = FALSE]
      /\ strays' = IF live[p] THEN strays \cup {p} ELSE strays
      /\ \/ Untouched(p) /\ deaf' = deaf \ {p} /\ early' = early \ {p}
         \/ ~Untouched(p) /\ deaf' = deaf /\ early' = early
      /\ NowAt(t, "recv_check", "accept", p, {})
      /\ lost' = lost /\ lockBy' = lockBy /\ recvOut' = recvOut /\ sendOut' = sendOut
  <2>1. PICK p \in Slots :
          /\ Alloc(p)
          /\ live' = [live EXCEPT ![p] = TRUE]
          /\ strays' = IF live[p] THEN strays \cup {p} ELSE strays
          /\ closing' = [closing EXCEPT ![p] = FALSE]
          /\ pending' = [pending EXCEPT ![p] = 0]
          /\ sending' = [sending EXCEPT ![p] = FALSE]
          /\ used' = [used EXCEPT ![p] = 0]
          /\ open' = [open EXCEPT ![p] = TRUE]
          /\ spoken' = [spoken EXCEPT ![p] = FALSE]
          /\ th' = [th EXCEPT ![t] = [@ EXCEPT !.pc = "recv_check", !.slot = p]]
          /\ deaf' = deaf \ {j \in {p} : Untouched(j)}
          /\ early' = early \ {j \in {p} : Untouched(j)}
    BY DEF Create
  <2>2. NowAt(t, "recv_check", "accept", p, {})
    <3>1. th[t].job = "accept" /\ th[t].todo = {}
      BY DEF Create, ThreadOK, At
    <3>. DEFINE r == [th[t] EXCEPT !.pc = "recv_check", !.slot = p]
    <3>2. th \in [Threads -> ThreadState]
      BY DEF TypeOK
    <3>3. r \in ThreadState
      BY <3>2 DEF ThreadState, Pcs
    <3>4. r.pc = "recv_check" /\ r.job = "accept" /\ r.slot = p /\ r.todo = {}
      BY <3>1, <3>2 DEF ThreadState
    <3>5. th' = [th EXCEPT ![t] = r]
      BY <2>1
    <3>. HIDE DEF r
    <3>. QED  BY <3>2, <3>3, <3>4, <3>5 DEF NowAt, Others
  <2>3. \/ Untouched(p) /\ deaf' = deaf \ {p} /\ early' = early \ {p}
        \/ ~Untouched(p) /\ deaf' = deaf /\ early' = early
    BY <2>1
  <2>. QED  BY <2>1, <2>2, <2>3 DEF Create, Alloc, accepts, kernel
<1>a. p \in Sound => Untouched(p)
  BY <1>1, LifecycleAssumption
  DEF IInv, TypeOK, ThreadOK, FreedOnce, NoDangling, NoStrays, NoReaders, Untouched, At, Slot,
      Threads
<1>b. /\ Sound \subseteq Slots /\ Sound' \subseteq Sound \cup {p}
      /\ p \in Sound' => Untouched(p)
  BY <1>1, <1>a DEF Sound
<1>c. /\ deaf' \subseteq Slots /\ early' \subseteq Slots /\ strays' \subseteq Slots
      /\ p \in Sound' => strays' = strays /\ p \notin strays
      /\ strays' \subseteq strays \cup {p}
  BY <1>1, <1>b DEF TypeOK, Untouched
<1>2. p \in Sound' =>
        /\ ~live[p] /\ avail[p] = 1 /\ recvOut[p] = 0 /\ sendOut[p] = 0
        /\ \A u \in Threads : Slot(u) = p => u \in Workers /\ Past(u)
  BY <1>1, <1>b, LifecycleAssumption DEF Untouched, NoReaders, ThreadOK, Past, At, Slot, Threads
<1>3. PendingExact'
  <2>. SUFFICES ASSUME NEW i \in Sound', live'[i]
                PROVE  pending'[i] = recvOut'[i] + sendOut'[i] + Cardinality(Completing(i)')
                                       + Cardinality(Posting(i)')
    BY DEF PendingExact
  <2>1. CASE i = p
    <3>1. Completing(i)' = {} /\ Posting(i)' = {}
      BY <1>1, <1>2, <2>1 DEF Completing, Posting, Past, NowAt, Others, At, Slot, Threads
    <3>2. pending'[i] = 0 /\ recvOut'[i] = 0 /\ sendOut'[i] = 0
      BY <1>1, <1>2, <2>1 DEF TypeOK
    <3>. QED  BY <3>1, <3>2, FS_EmptySet
  <2>2. CASE i # p
    <3>1. /\ i \in Sound /\ live[i] /\ pending'[i] = pending[i]
          /\ recvOut'[i] = recvOut[i] /\ sendOut'[i] = sendOut[i]
      BY <1>1, <1>b, <2>2 DEF TypeOK
    <3>2. Completing(i)' = Completing(i) /\ Posting(i)' = Posting(i)
      BY <1>1, <1>b, <2>2, LifecycleAssumption
      DEF ThreadOK, Completing, Posting, NowAt, Others, At, Slot, Threads
    <3>. QED  BY <3>1, <3>2 DEF IInv, PendingExact
  <2>. QED  BY <2>1, <2>2
<1>4. ContextsExact'
  BY LifecycleAssumption, <1>1, AcceptingMoves
  DEF IInv, TypeOK, ContextsExact, Accepts, ThreadOK, NowAt, Others, NoReaders, At, Slot, Threads
<1>. USE LifecycleAssumption DEF NowAt, Others, NoReaders, At, Slot, Threads
<1>5. TypeOK'
  BY <1>1, <1>b, <1>c DEF IInv, TypeOK
<1>6. ThreadOK'
  BY <1>1, <1>2, <1>b DEF IInv, ThreadOK
<1>7. SendersLive'
  <2>1. \A s \in Senders : th'[s].todo = {} /\ th'[s].pc = "idle"
    BY <1>1 DEF ThreadOK
  <2>. QED  BY <2>1 DEF SendersLive
<1>8. WorkersLive'
  BY <1>1, <1>2, <1>b DEF IInv, WorkersLive, TypeOK, Past
<1>9. FirstPost'
  <2>1. \A s \in Senders : th'[s].todo = {} /\ th'[s].slot = NoSlot
    BY <1>1 DEF ThreadOK
  <2>. SUFFICES ASSUME NEW w \in Workers, NEW i \in Sound', th'[w].slot = i,
                       th'[w].job = "accept"
                PROVE  /\ live'[i] /\ ~sending'[i] /\ recvOut'[i] = 0 /\ sendOut'[i] = 0
                       /\ \A u \in Workers \ {w} : Slot(u)' = i => Past(u)'
    BY <1>b, <2>1 DEF FirstPost
  <2>2. CASE w = t
    BY <1>1, <1>2, <2>2 DEF TypeOK, Past
  <2>3. CASE w # t
    <3>1. i # p /\ i \in Sound /\ th[w].slot = i /\ th[w].job = "accept"
      BY <1>1, <1>2, <1>b, <2>3 DEF ThreadOK, Past
    <3>2. /\ live[i] /\ ~sending[i] /\ recvOut[i] = 0 /\ sendOut[i] = 0
          /\ \A u \in Workers \ {w} : Slot(u) = i => Past(u)
      BY <3>1 DEF IInv, FirstPost
    <3>. QED  BY <1>1, <3>1, <3>2 DEF TypeOK, Past
  <2>. QED  BY <2>2, <2>3
<1>10. OpenExact'
  BY <1>1, <1>2, <1>b DEF IInv, OpenExact, TypeOK
<1>11. RecvToken'
  BY <1>1, <1>2, <1>b DEF IInv, RecvToken, Receiving, RecvPcs, NoDangling, Past
<1>12. SendToken'
  BY <1>1, <1>2, <1>b DEF IInv, SendToken, SendingOn, SendPcs, NoDangling, Past
<1>13. RecvAlive'
  BY <1>1, <1>2, <1>b DEF IInv, RecvAlive, RecvPcs
<1>14. LastAlone'
  BY <1>1, <1>2, <1>b DEF IInv, LastAlone, Past, Zero
<1>15. NoStrays'
  BY <1>1, <1>b, <1>c DEF IInv, NoStrays
<1>16. NoDangling'
  BY <1>1, <1>2, <1>b DEF IInv, NoDangling, Past, TypeOK
<1>17. FreedOnce'
  BY <1>1, <1>2, <1>b DEF IInv, FreedOnce, TypeOK
<1>18. OneOperationEach'
  BY <1>1, <1>2, <1>b DEF IInv, OneOperationEach
<1>. QED
  BY <1>3, <1>4, <1>5, <1>6, <1>7, <1>8, <1>9, <1>10, <1>11, <1>12, <1>13, <1>14, <1>15, <1>16,
     <1>17, <1>18
  DEF IInv

\* The context stays with the worker, which will post it again.
LEMMA CreateRefusedStep ==
  ASSUME IInv, NEW t \in Workers, CreateRefused(t)
  PROVE  IInv'
<1>. t \in Threads /\ TypeOK /\ ThreadOK
  BY DEF IInv, Threads
<1>. /\ Sound' = Sound /\ Sound \subseteq Slots
     /\ deaf' = deaf /\ early' = early /\ strays' = strays
  BY DEF CreateRefused, history, registry, Sound
<1>1. /\ At(t, "create") /\ posted' = posted
      /\ NowAt(t, "repost", "accept", NoSlot, {})
      /\ lost' = lost /\ live' = live /\ avail' = avail /\ nextId' = nextId
      /\ closing' = closing /\ pending' = pending /\ sending' = sending /\ used' = used
      /\ inflight' = inflight /\ lockBy' = lockBy /\ recvOut' = recvOut
      /\ sendOut' = sendOut /\ open' = open /\ spoken' = spoken
  BY RepostFacts DEF CreateRefused, accepts, registry, buffer, kernel, At, Goto, Slot
<1>3. PendingExact'
  <2>. SUFFICES ASSUME NEW i \in Sound', live'[i]
                PROVE  pending'[i] = recvOut'[i] + sendOut'[i] + Cardinality(Completing(i)')
                                       + Cardinality(Posting(i)')
    BY DEF PendingExact
  <2>. QED  BY LifecycleAssumption, <1>1, CountsMove
            DEF IInv, TypeOK, PendingExact, Holds, Posts, ThreadOK, NowAt, Others, At, Slot,
                Threads
<1>4. ContextsExact'
  <2>1. Accepts(t)' = 1 /\ Accepts(t) = 1
    BY <1>1 DEF Accepts, ThreadOK, NowAt, At
  <2>2. posted \in Int /\ lost \in Int /\ Others(t)
    BY <1>1 DEF TypeOK, NowAt
  <2>. QED  BY <1>1, <2>1, <2>2, AcceptingMoves DEF IInv, ContextsExact
<1>. USE LifecycleAssumption DEF NowAt, Others, At, Slot, Threads
<1>5. TypeOK'
  BY <1>1 DEF IInv, TypeOK
<1>6. ThreadOK'
  BY <1>1 DEF IInv, ThreadOK
<1>7. SendersLive'
  BY <1>1 DEF IInv, SendersLive
<1>8. WorkersLive'
  BY <1>1 DEF IInv, WorkersLive, Past
<1>9. FirstPost'
  BY <1>1 DEF IInv, FirstPost, Past
<1>10. RecvToken'
  BY <1>1 DEF IInv, RecvToken, Receiving
<1>11. SendToken'
  BY <1>1 DEF IInv, SendToken, SendingOn
<1>12. RecvAlive'
  BY <1>1 DEF IInv, RecvAlive, RecvPcs
<1>13. LastAlone'
  BY <1>1 DEF IInv, LastAlone, Past, Zero
<1>14. NoDangling'
  BY <1>1 DEF IInv, NoDangling, Past
<1>15. OpenExact' /\ OneOperationEach' /\ NoStrays' /\ FreedOnce'
  BY <1>1 DEF IInv, OpenExact, OneOperationEach, NoStrays, FreedOnce
<1>. QED
  BY <1>3, <1>4, <1>5, <1>6, <1>7, <1>8, <1>9, <1>10, <1>11, <1>12, <1>13, <1>14, <1>15 DEF IInv

\* A context passes from the port to the worker.
LEMMA DequeueAcceptStep ==
  ASSUME IInv, NEW t \in Workers, DequeueAccept(t)
  PROVE  IInv'
<1>. t \in Threads /\ TypeOK /\ ThreadOK
  BY DEF IInv, Threads
<1>. /\ Sound' = Sound /\ Sound \subseteq Slots
     /\ deaf' = deaf /\ early' = early /\ strays' = strays
  BY DEF DequeueAccept, history, registry, Sound
<1>1. /\ At(t, "idle")
      /\ posted > 0 /\ posted' = posted - 1
      /\ NowAt(t, "create", "accept", NoSlot, {}) \/ NowAt(t, "repost", "accept", NoSlot, {})
      /\ lost' = lost /\ live' = live /\ avail' = avail /\ nextId' = nextId
      /\ closing' = closing /\ pending' = pending /\ sending' = sending /\ used' = used
      /\ inflight' = inflight /\ lockBy' = lockBy /\ recvOut' = recvOut
      /\ sendOut' = sendOut /\ open' = open /\ spoken' = spoken
  BY RepostFacts, CreatingFacts DEF DequeueAccept, accepts, registry, buffer, kernel, At, Goto, Slot
<1>3. PendingExact'
  <2>. SUFFICES ASSUME NEW i \in Sound', live'[i]
                PROVE  pending'[i] = recvOut'[i] + sendOut'[i] + Cardinality(Completing(i)')
                                       + Cardinality(Posting(i)')
    BY DEF PendingExact
  <2>. QED  BY LifecycleAssumption, <1>1, CountsMove
            DEF IInv, TypeOK, PendingExact, Holds, Posts, ThreadOK, NowAt, Others, At, Slot,
                Threads
<1>4. ContextsExact'
  BY LifecycleAssumption, <1>1, AcceptingMoves
  DEF IInv, TypeOK, ContextsExact, Accepts, ThreadOK, NowAt, Others, At, Slot, Threads
<1>. USE LifecycleAssumption DEF NowAt, Others, At, Slot, Threads
<1>5. TypeOK'
  BY <1>1 DEF IInv, TypeOK
<1>6. ThreadOK'
  BY <1>1 DEF IInv, ThreadOK
<1>7. SendersLive'
  BY <1>1 DEF IInv, SendersLive
<1>8. WorkersLive'
  BY <1>1 DEF IInv, WorkersLive, Past
<1>9. FirstPost'
  BY <1>1 DEF IInv, FirstPost, Past
<1>10. RecvToken'
  BY <1>1 DEF IInv, RecvToken, Receiving
<1>11. SendToken'
  BY <1>1 DEF IInv, SendToken, SendingOn
<1>12. RecvAlive'
  BY <1>1 DEF IInv, RecvAlive, RecvPcs
<1>13. LastAlone'
  BY <1>1 DEF IInv, LastAlone, Past, Zero
<1>14. NoDangling'
  BY <1>1 DEF IInv, NoDangling, Past
<1>15. OpenExact' /\ OneOperationEach' /\ NoStrays' /\ FreedOnce'
  BY <1>1 DEF IInv, OpenExact, OneOperationEach, NoStrays, FreedOnce
<1>. QED
  BY <1>3, <1>4, <1>5, <1>6, <1>7, <1>8, <1>9, <1>10, <1>11, <1>12, <1>13, <1>14, <1>15 DEF IInv

\* The context a worker held is posted or lost, and counted once either way.
LEMMA PostAcceptStep ==
  ASSUME IInv, NEW t \in Workers, PostAccept(t)
  PROVE  IInv'
<1>. t \in Threads /\ TypeOK /\ ThreadOK
  BY DEF IInv, Threads
<1>. /\ Sound' = Sound /\ Sound \subseteq Slots
     /\ deaf' = deaf /\ early' = early /\ strays' = strays
  BY DEF PostAccept, history, registry, Sound
<1>1. /\ At(t, "repost")
      /\ \/ posted' = posted + 1 /\ lost' = lost
         \/ lost' = lost + 1 /\ posted' = posted
      /\ NowAt(t, "idle", "none", NoSlot, {})
      /\ live' = live /\ avail' = avail /\ nextId' = nextId /\ closing' = closing
      /\ pending' = pending /\ sending' = sending /\ used' = used /\ inflight' = inflight
      /\ lockBy' = lockBy /\ recvOut' = recvOut /\ sendOut' = sendOut /\ open' = open
      /\ spoken' = spoken
  BY IdleFacts DEF PostAccept, accepts, registry, buffer, kernel, At, Goto, Slot
<1>3. PendingExact'
  <2>. SUFFICES ASSUME NEW i \in Sound', live'[i]
                PROVE  pending'[i] = recvOut'[i] + sendOut'[i] + Cardinality(Completing(i)')
                                       + Cardinality(Posting(i)')
    BY DEF PendingExact
  <2>. QED  BY LifecycleAssumption, <1>1, CountsMove
            DEF IInv, TypeOK, PendingExact, Holds, Posts, ThreadOK, NowAt, Others, At, Slot,
                Threads
<1>4. ContextsExact'
  BY LifecycleAssumption, <1>1, AcceptingMoves
  DEF IInv, TypeOK, ContextsExact, Accepts, ThreadOK, NowAt, Others, At, Slot, Threads
<1>5. TypeOK'
  BY LifecycleAssumption, <1>1, ContextCounts DEF IInv, TypeOK, ThreadOK, Accepts, NowAt, At
<1>. USE LifecycleAssumption DEF NowAt, Others, At, Slot, Threads
<1>6. ThreadOK'
  BY <1>1 DEF IInv, ThreadOK
<1>7. SendersLive'
  BY <1>1 DEF IInv, SendersLive
<1>8. WorkersLive'
  BY <1>1 DEF IInv, WorkersLive, Past
<1>9. FirstPost'
  BY <1>1 DEF IInv, FirstPost, Past
<1>10. RecvToken'
  BY <1>1 DEF IInv, RecvToken, Receiving
<1>11. SendToken'
  BY <1>1 DEF IInv, SendToken, SendingOn
<1>12. RecvAlive'
  BY <1>1 DEF IInv, RecvAlive, RecvPcs
<1>13. LastAlone'
  BY <1>1 DEF IInv, LastAlone, Past, Zero
<1>14. NoDangling'
  BY <1>1 DEF IInv, NoDangling, Past
<1>15. OpenExact' /\ OneOperationEach' /\ NoStrays' /\ FreedOnce'
  BY <1>1 DEF IInv, OpenExact, OneOperationEach, NoStrays, FreedOnce
<1>. QED
  BY <1>3, <1>4, <1>5, <1>6, <1>7, <1>8, <1>9, <1>10, <1>11, <1>12, <1>13, <1>14, <1>15 DEF IInv

\* The reference of the pending receive passes to the worker.
LEMMA DequeueRecvStep ==
  ASSUME IInv, NEW t \in Workers, NEW j \in Slots, DequeueRecv(t, j)
  PROVE  IInv'
<1>. t \in Threads /\ TypeOK /\ ThreadOK
  BY DEF IInv, Threads
<1>. /\ Sound' = Sound /\ Sound \subseteq Slots
     /\ deaf' = deaf /\ early' = early /\ strays' = strays
  BY DEF DequeueRecv, history, registry, Sound
<1>1. /\ At(t, "idle") /\ recvOut[j] > 0
      /\ recvOut' = [recvOut EXCEPT ![j] = @ - 1]
      /\ NowAt(t, "on_recv", "io", j, {}) \/ NowAt(t, "close", "io", j, {})
      /\ posted' = posted /\ lost' = lost /\ live' = live /\ avail' = avail
      /\ nextId' = nextId /\ closing' = closing /\ pending' = pending
      /\ sending' = sending /\ used' = used /\ inflight' = inflight /\ lockBy' = lockBy
      /\ sendOut' = sendOut /\ open' = open /\ spoken' = spoken
  BY StartFacts DEF DequeueRecv, Pcs, accepts, registry, buffer, kernel, At, Goto, Slot
<1>3. PendingExact'
  <2>. SUFFICES ASSUME NEW i \in Sound', live'[i]
                PROVE  pending'[i] = recvOut'[i] + sendOut'[i] + Cardinality(Completing(i)')
                                       + Cardinality(Posting(i)')
    BY DEF PendingExact
  <2>1. /\ Cardinality(Completing(i)) \in Nat /\ Cardinality(Completing(i)') \in Nat
        /\ Cardinality(Posting(i)) \in Nat /\ Cardinality(Posting(i)') \in Nat
        /\ Cardinality(Completing(i)') + Holds(t, i)
             = Cardinality(Completing(i)) + Holds(t, i)'
        /\ Cardinality(Posting(i)') + Posts(t, i) = Cardinality(Posting(i)) + Posts(t, i)'
    BY <1>1, CountsMove DEF NowAt, Others
  <2>2. CASE i = j
    BY LifecycleAssumption, <1>1, <2>1, <2>2
    DEF PendingExact, Holds, Posts, IInv, TypeOK, ThreadOK, NowAt, Others, At, Slot, Threads
  <2>3. CASE i # j
    BY LifecycleAssumption, <1>1, <2>1, <2>3
    DEF PendingExact, Holds, Posts, IInv, TypeOK, ThreadOK, NowAt, Others, At, Slot, Threads
  <2>. QED  BY <2>2, <2>3
<1>4. ContextsExact'
  BY LifecycleAssumption, <1>1, AcceptingMoves
  DEF IInv, TypeOK, ContextsExact, Accepts, ThreadOK, NowAt, Others, At, Slot, Threads
<1>5. RecvToken'
  <2>1. \A u \in Threads \ {t}, i \in Slots : Receiving(u, i)' <=> Receiving(u, i)
    BY <1>1, TokensOfOthers DEF NowAt
  <2>2. \A i \in Slots : Receiving(t, i)' => i = j
    BY <1>1, LifecycleAssumption DEF ThreadOK, Receiving, RecvPcs, At, Slot, Threads, NowAt
  <2>. QED  BY <1>1, <2>1, <2>2 DEF IInv, TypeOK, RecvToken, OneOperationEach
<1>. USE LifecycleAssumption DEF NowAt, Others, At, Slot, Threads
<1>6. TypeOK'
  BY <1>1 DEF IInv, TypeOK
<1>7. ThreadOK'
  BY <1>1 DEF IInv, ThreadOK
<1>8. SendersLive'
  BY <1>1 DEF IInv, SendersLive
<1>9. WorkersLive'
  BY <1>1 DEF IInv, WorkersLive, Past, NoDangling
<1>10. FirstPost'
  BY <1>1 DEF IInv, FirstPost, Past
<1>11. OneOperationEach'
  BY <1>1 DEF IInv, OneOperationEach, TypeOK
<1>12. SendToken'
  BY <1>1 DEF IInv, SendToken, SendingOn, SendPcs
<1>13. RecvAlive'
  BY <1>1 DEF IInv, RecvAlive, RecvPcs
<1>14. LastAlone'
  BY <1>1 DEF IInv, LastAlone, Past, Zero
<1>15. NoDangling'
  BY <1>1 DEF IInv, NoDangling, Past
<1>16. OpenExact' /\ NoStrays' /\ FreedOnce'
  BY <1>1 DEF IInv, OpenExact, NoStrays, FreedOnce
<1>. QED
  BY <1>3, <1>4, <1>5, <1>6, <1>7, <1>8, <1>9, <1>10, <1>11, <1>12, <1>13, <1>14, <1>15, <1>16
  DEF IInv

\* The reference of the pending send passes to the worker.
LEMMA DequeueSendStep ==
  ASSUME IInv, NEW t \in Workers, NEW j \in Slots, DequeueSend(t, j)
  PROVE  IInv'
<1>. t \in Threads /\ TypeOK /\ ThreadOK
  BY DEF IInv, Threads
<1>. /\ Sound' = Sound /\ Sound \subseteq Slots
     /\ deaf' = deaf /\ early' = early /\ strays' = strays
  BY DEF DequeueSend, history, registry, Sound
<1>1. /\ At(t, "idle") /\ sendOut[j] > 0
      /\ sendOut' = [sendOut EXCEPT ![j] = @ - 1]
      /\ NowAt(t, "on_send", "io", j, {}) \/ NowAt(t, "close", "io", j, {})
      /\ posted' = posted /\ lost' = lost /\ live' = live /\ avail' = avail
      /\ nextId' = nextId /\ closing' = closing /\ pending' = pending
      /\ sending' = sending /\ used' = used /\ inflight' = inflight /\ lockBy' = lockBy
      /\ recvOut' = recvOut /\ open' = open /\ spoken' = spoken
  BY StartFacts DEF DequeueSend, Pcs, accepts, registry, buffer, kernel, At, Goto, Slot
<1>3. PendingExact'
  <2>. SUFFICES ASSUME NEW i \in Sound', live'[i]
                PROVE  pending'[i] = recvOut'[i] + sendOut'[i] + Cardinality(Completing(i)')
                                       + Cardinality(Posting(i)')
    BY DEF PendingExact
  <2>1. /\ Cardinality(Completing(i)) \in Nat /\ Cardinality(Completing(i)') \in Nat
        /\ Cardinality(Posting(i)) \in Nat /\ Cardinality(Posting(i)') \in Nat
        /\ Cardinality(Completing(i)') + Holds(t, i)
             = Cardinality(Completing(i)) + Holds(t, i)'
        /\ Cardinality(Posting(i)') + Posts(t, i) = Cardinality(Posting(i)) + Posts(t, i)'
    BY <1>1, CountsMove DEF NowAt, Others
  <2>2. CASE i = j
    BY LifecycleAssumption, <1>1, <2>1, <2>2
    DEF PendingExact, Holds, Posts, IInv, TypeOK, ThreadOK, NowAt, Others, At, Slot, Threads
  <2>3. CASE i # j
    BY LifecycleAssumption, <1>1, <2>1, <2>3
    DEF PendingExact, Holds, Posts, IInv, TypeOK, ThreadOK, NowAt, Others, At, Slot, Threads
  <2>. QED  BY <2>2, <2>3
<1>4. ContextsExact'
  BY LifecycleAssumption, <1>1, AcceptingMoves
  DEF IInv, TypeOK, ContextsExact, Accepts, ThreadOK, NowAt, Others, At, Slot, Threads
<1>5. SendToken'
  <2>1. \A u \in Threads \ {t}, i \in Slots : SendingOn(u, i)' <=> SendingOn(u, i)
    BY <1>1, TokensOfOthers DEF NowAt
  <2>2. \A i \in Slots : SendingOn(t, i)' => i = j
    BY <1>1, LifecycleAssumption DEF ThreadOK, SendingOn, SendPcs, At, Slot, Threads, NowAt
  <2>. QED  BY SMTT(30), <1>1, <2>1, <2>2 DEF IInv, TypeOK, SendToken, OneOperationEach
<1>. USE LifecycleAssumption DEF NowAt, Others, At, Slot, Threads
<1>6. TypeOK'
  BY <1>1 DEF IInv, TypeOK
<1>7. ThreadOK'
  BY <1>1 DEF IInv, ThreadOK
<1>8. SendersLive'
  BY <1>1 DEF IInv, SendersLive
<1>9. WorkersLive'
  BY <1>1 DEF IInv, WorkersLive, Past, NoDangling
<1>10. FirstPost'
  BY <1>1 DEF IInv, FirstPost, Past
<1>11. OneOperationEach'
  BY <1>1 DEF IInv, OneOperationEach, TypeOK
<1>12. RecvToken'
  BY <1>1 DEF IInv, RecvToken, Receiving, RecvPcs
<1>13. RecvAlive'
  BY <1>1 DEF IInv, RecvAlive, RecvPcs
<1>14. LastAlone'
  BY <1>1 DEF IInv, LastAlone, Past, Zero
<1>15. NoDangling'
  BY <1>1 DEF IInv, NoDangling, Past
<1>16. OpenExact' /\ NoStrays' /\ FreedOnce'
  BY <1>1 DEF IInv, OpenExact, NoStrays, FreedOnce
<1>. QED
  BY <1>3, <1>4, <1>5, <1>6, <1>7, <1>8, <1>9, <1>10, <1>11, <1>12, <1>13, <1>14, <1>15, <1>16
  DEF IInv

\* The worker keeps the receive; closing here is by the holder of a reference.
LEMMA OnRecvStep ==
  ASSUME IInv, NEW t \in Threads, OnRecv(t)
  PROVE  IInv'
<1>. t \in Threads /\ TypeOK /\ ThreadOK
  BY DEF IInv, Threads
<1>. /\ Sound' = Sound /\ Sound \subseteq Slots
     /\ deaf' = deaf /\ early' = early /\ strays' = strays
  BY DEF OnRecv, history, registry, Sound
<1>1. /\ At(t, "on_recv")
      /\ GoesTo(t, "recv_check")
      /\ spoken' = [spoken EXCEPT ![Slot(t)] = TRUE] \/ spoken' = spoken
      /\ \/ /\ closing' = [closing EXCEPT ![Slot(t)] = TRUE]
            /\ open' = [open EXCEPT ![Slot(t)] = FALSE]
         \/ closing' = closing /\ open' = open
      /\ posted' = posted /\ lost' = lost /\ live' = live /\ avail' = avail
      /\ nextId' = nextId /\ pending' = pending /\ sending' = sending /\ used' = used
      /\ inflight' = inflight /\ lockBy' = lockBy /\ recvOut' = recvOut
      /\ sendOut' = sendOut
  BY GotoFacts DEF OnRecv, Pcs, accepts, registry, buffer, kernel, At, Goto, Slot
<1>2. Slot(t) \in Slots
  BY <1>1 DEF ThreadOK, At
<1>3. PendingExact'
  <2>. SUFFICES ASSUME NEW i \in Sound', live'[i]
                PROVE  pending'[i] = recvOut'[i] + sendOut'[i] + Cardinality(Completing(i)')
                                       + Cardinality(Posting(i)')
    BY DEF PendingExact
  <2>1. /\ Cardinality(Completing(i)) \in Nat /\ Cardinality(Completing(i)') \in Nat
        /\ Cardinality(Posting(i)) \in Nat /\ Cardinality(Posting(i)') \in Nat
        /\ Cardinality(Completing(i)') + Holds(t, i)
             = Cardinality(Completing(i)) + Holds(t, i)'
        /\ Cardinality(Posting(i)') + Posts(t, i) = Cardinality(Posting(i)) + Posts(t, i)'
    BY <1>1, CountsMove DEF GoesTo, NowAt, Others
  <2>2. CASE i = Slot(t)
    BY LifecycleAssumption, <1>1, <1>2, <2>1, <2>2
    DEF PendingExact, Holds, Posts, IInv, TypeOK, ThreadOK, GoesTo, NowAt, Others, At, Slot,
        Threads
  <2>3. CASE i # Slot(t)
    BY LifecycleAssumption, <1>1, <1>2, <2>1, <2>3
    DEF PendingExact, Holds, Posts, IInv, TypeOK, ThreadOK, GoesTo, NowAt, Others, At, Slot,
        Threads
  <2>. QED  BY <2>2, <2>3
<1>4. ContextsExact'
  <2>1. Accepts(t)' = Accepts(t) /\ Accepts(t) \in Nat
    BY LifecycleAssumption, <1>1, <1>2 DEF ThreadOK, Accepts, GoesTo, NowAt, Others, At, Threads
  <2>. QED  BY <1>1, <2>1, AcceptingMoves DEF IInv, TypeOK, ContextsExact, GoesTo, NowAt, Others
<1>5. RecvToken'
  <2>1. \A u \in Threads \ {t}, i \in Slots : Receiving(u, i)' <=> Receiving(u, i)
    BY <1>1, TokensOfOthers DEF GoesTo, NowAt
  <2>2. \A i \in Slots : Receiving(t, i)' => Receiving(t, i)
    BY <1>1, <1>2, LifecycleAssumption
    DEF ThreadOK, Receiving, RecvPcs, At, Slot, Threads, GoesTo, NowAt
  <2>. QED  BY SMTT(30), <1>1, <2>1, <2>2 DEF IInv, TypeOK, RecvToken, OneOperationEach
<1>. USE LifecycleAssumption DEF GoesTo, NowAt, Others, At, Slot, Threads
<1>6. TypeOK'
  BY <1>1, <1>2 DEF IInv, TypeOK
<1>7. ThreadOK'
  BY <1>1, <1>2 DEF IInv, ThreadOK
<1>8. SendersLive'
  BY <1>1, <1>2 DEF IInv, SendersLive, TypeOK
<1>9. WorkersLive'
  BY <1>1, <1>2 DEF IInv, WorkersLive, Past
<1>10. FirstPost'
  BY <1>1, <1>2 DEF IInv, FirstPost, TypeOK, ThreadOK, Past
<1>11. OpenExact'
  BY <1>1, <1>2 DEF IInv, OpenExact, TypeOK
<1>12. SendToken'
  BY <1>1, <1>2 DEF IInv, SendToken, SendingOn, SendPcs
<1>13. RecvAlive'
  BY <1>1, <1>2 DEF IInv, RecvAlive, TypeOK, RecvPcs
<1>14. LastAlone'
  BY <1>1, <1>2 DEF IInv, LastAlone, TypeOK, Past, Zero
<1>15. NoDangling'
  BY <1>1, <1>2 DEF IInv, NoDangling, Past
<1>16. OneOperationEach' /\ NoStrays' /\ FreedOnce'
  BY <1>1 DEF IInv, OneOperationEach, NoStrays, FreedOnce
<1>. QED
  BY <1>3, <1>4, <1>5, <1>6, <1>7, <1>8, <1>9, <1>10, <1>11, <1>12, <1>13, <1>14, <1>15, <1>16
  DEF IInv

\* On a closing session the receive ends here, and so it does without room, which makes
\* the session deaf; otherwise the worker goes on.
LEMMA RecvCheckStep ==
  ASSUME IInv, NEW t \in Threads, RecvCheck(t)
  PROVE  IInv'
<1>. t \in Threads /\ TypeOK /\ ThreadOK
  BY DEF IInv, Threads
<1>2. Slot(t) \in Slots
  BY DEF RecvCheck, ThreadOK, At
<1>. /\ Sound' \subseteq Sound /\ Sound \subseteq Slots
     /\ deaf' \subseteq Slots /\ early' = early /\ strays' = strays
  BY <1>2 DEF RecvCheck, registry, Sound, TypeOK
<1>1. /\ At(t, "recv_check")
      /\ \/ closing[Slot(t)] /\ Returns(t)
         \/ Slot(t) \notin Sound' /\ Returns(t)
         \/ ~closing[Slot(t)] /\ GoesTo(t, "recv_inc") /\ lockBy' = lockBy
      /\ posted' = posted /\ lost' = lost /\ live' = live /\ avail' = avail
      /\ nextId' = nextId /\ closing' = closing /\ pending' = pending
      /\ sending' = sending /\ used' = used /\ inflight' = inflight /\ recvOut' = recvOut
      /\ sendOut' = sendOut /\ open' = open /\ spoken' = spoken
  BY <1>2, GotoFacts, ReturnFacts
  DEF RecvCheck, Sound, Pcs, accepts, registry, buffer, kernel, At, Goto, Slot
<1>3. PendingExact'
  <2>. SUFFICES ASSUME NEW i \in Sound', live'[i]
                PROVE  pending'[i] = recvOut'[i] + sendOut'[i] + Cardinality(Completing(i)')
                                       + Cardinality(Posting(i)')
    BY DEF PendingExact
  <2>1. /\ Cardinality(Completing(i)) \in Nat /\ Cardinality(Completing(i)') \in Nat
        /\ Cardinality(Posting(i)) \in Nat /\ Cardinality(Posting(i)') \in Nat
        /\ Cardinality(Completing(i)') + Holds(t, i)
             = Cardinality(Completing(i)) + Holds(t, i)'
        /\ Cardinality(Posting(i)') + Posts(t, i) = Cardinality(Posting(i)) + Posts(t, i)'
    BY <1>1, CountsMove DEF Returns, GoesTo, NowAt, Others
  <2>2. CASE i = Slot(t)
    BY SMTT(30), LifecycleAssumption, <1>1, <1>2, <2>1, <2>2
    DEF PendingExact, Holds, Posts, IInv, TypeOK, ThreadOK, Returns, GoesTo, NowAt, Others, At,
        Slot, Threads
  <2>3. CASE i # Slot(t)
    BY LifecycleAssumption, <1>1, <1>2, <2>1, <2>3
    DEF PendingExact, Holds, Posts, IInv, TypeOK, ThreadOK, Returns, GoesTo, NowAt, Others, At,
        Slot, Threads
  <2>. QED  BY <2>2, <2>3
<1>4. ContextsExact'
  BY LifecycleAssumption, <1>1, AcceptingMoves
  DEF IInv, TypeOK, ContextsExact, Accepts, ThreadOK, Returns, GoesTo, NowAt, Others, At, Slot,
      Threads
<1>. USE LifecycleAssumption DEF Returns, GoesTo, NowAt, Others, At, Slot, Threads
<1>5. TypeOK'
  BY <1>1, <1>2 DEF IInv, TypeOK
<1>6. ThreadOK'
  BY <1>1, <1>2 DEF IInv, ThreadOK
<1>7. SendersLive'
  BY <1>1, <1>2 DEF IInv, SendersLive
<1>8. WorkersLive'
  BY <1>1, <1>2 DEF IInv, WorkersLive, Past
<1>9. FirstPost'
  BY <1>1, <1>2 DEF IInv, FirstPost, Past
<1>10. RecvToken'
  BY <1>1, <1>2 DEF IInv, RecvToken, Receiving, RecvPcs
<1>11. SendToken'
  BY <1>1, <1>2 DEF IInv, SendToken, SendingOn, SendPcs
<1>12. RecvAlive'
  BY <1>1, <1>2 DEF IInv, RecvAlive, RecvPcs
<1>13. LastAlone'
  BY <1>1, <1>2 DEF IInv, LastAlone, Past, Zero
<1>14. NoDangling'
  BY <1>1, <1>2 DEF IInv, NoDangling, Past
<1>15. OpenExact' /\ OneOperationEach' /\ NoStrays' /\ FreedOnce'
  BY <1>1 DEF IInv, OpenExact, OneOperationEach, NoStrays, FreedOnce
<1>. QED
  BY <1>3, <1>4, <1>5, <1>6, <1>7, <1>8, <1>9, <1>10, <1>11, <1>12, <1>13, <1>14, <1>15 DEF IInv

\* The reference is counted before the operation is issued.
LEMMA RecvIncStep ==
  ASSUME IInv, NEW t \in Threads, RecvInc(t)
  PROVE  IInv'
<1>. t \in Threads /\ TypeOK /\ ThreadOK
  BY DEF IInv, Threads
<1>. /\ Sound' = Sound /\ Sound \subseteq Slots
     /\ deaf' = deaf /\ early' = early /\ strays' = strays
  BY DEF RecvInc, history, registry, Sound
<1>1. /\ At(t, "recv_inc")
      /\ pending' = [pending EXCEPT ![Slot(t)] = @ + 1]
      /\ GoesTo(t, "recv_io")
      /\ posted' = posted /\ lost' = lost /\ live' = live /\ avail' = avail
      /\ nextId' = nextId /\ closing' = closing /\ sending' = sending /\ used' = used
      /\ inflight' = inflight /\ lockBy' = lockBy /\ recvOut' = recvOut
      /\ sendOut' = sendOut /\ open' = open /\ spoken' = spoken
  BY GotoFacts DEF RecvInc, Pcs, accepts, registry, buffer, kernel, At, Goto, Slot
<1>2. Slot(t) \in Slots
  BY <1>1 DEF ThreadOK, At
<1>3. PendingExact'
  <2>. SUFFICES ASSUME NEW i \in Sound', live'[i]
                PROVE  pending'[i] = recvOut'[i] + sendOut'[i] + Cardinality(Completing(i)')
                                       + Cardinality(Posting(i)')
    BY DEF PendingExact
  <2>1. /\ Cardinality(Completing(i)) \in Nat /\ Cardinality(Completing(i)') \in Nat
        /\ Cardinality(Posting(i)) \in Nat /\ Cardinality(Posting(i)') \in Nat
        /\ Cardinality(Completing(i)') + Holds(t, i)
             = Cardinality(Completing(i)) + Holds(t, i)'
        /\ Cardinality(Posting(i)') + Posts(t, i) = Cardinality(Posting(i)) + Posts(t, i)'
    BY <1>1, CountsMove DEF GoesTo, NowAt, Others
  <2>2. CASE i = Slot(t)
    <3>1. /\ Holds(t, i)' = Holds(t, i) /\ Holds(t, i) \in Nat
          /\ Posts(t, i) = 0 /\ Posts(t, i)' = 1
      BY LifecycleAssumption, <1>1, <1>2, <2>2
      DEF PendingExact, Holds, Posts, IInv, TypeOK, ThreadOK, GoesTo, NowAt, Others, At, Slot,
          Threads
    <3>2. pending'[i] = pending[i] + 1 /\ recvOut'[i] = recvOut[i] /\ sendOut'[i] = sendOut[i]
      BY <1>1, <1>2, <2>2 DEF TypeOK
    <3>3. /\ pending[i] = recvOut[i] + sendOut[i] + Cardinality(Completing(i))
                          + Cardinality(Posting(i))
          /\ recvOut[i] \in Nat /\ sendOut[i] \in Nat
      <4>1. live[i]
        BY <1>1
      <4>2. recvOut[i] \in Nat /\ sendOut[i] \in Nat
        BY DEF TypeOK
      <4>. QED  BY <4>1, <4>2 DEF IInv, PendingExact
    <3>. QED  BY <2>1, <3>1, <3>2, <3>3
  <2>3. CASE i # Slot(t)
    BY LifecycleAssumption, <1>1, <1>2, <2>1, <2>3
    DEF PendingExact, Holds, Posts, IInv, TypeOK, ThreadOK, GoesTo, NowAt, Others, At, Slot,
        Threads
  <2>. QED  BY <2>2, <2>3
<1>4. ContextsExact'
  <2>1. Accepts(t)' = Accepts(t) /\ Accepts(t) \in Nat
    BY LifecycleAssumption, <1>1, <1>2 DEF ThreadOK, Accepts, GoesTo, NowAt, Others, At, Threads
  <2>. QED  BY <1>1, <2>1, AcceptingMoves DEF IInv, TypeOK, ContextsExact, GoesTo, NowAt, Others
<1>. USE LifecycleAssumption DEF GoesTo, NowAt, Others, At, Slot, Threads
<1>5. TypeOK'
  BY <1>1, <1>2 DEF IInv, TypeOK
<1>6. ThreadOK'
  BY <1>1, <1>2 DEF IInv, ThreadOK
<1>7. SendersLive'
  BY <1>1, <1>2 DEF IInv, SendersLive
<1>8. WorkersLive'
  BY <1>1, <1>2 DEF IInv, WorkersLive, Past
<1>9. FirstPost'
  BY <1>1, <1>2 DEF IInv, FirstPost, Past
<1>10. RecvToken'
  BY <1>1, <1>2 DEF IInv, RecvToken, Receiving, RecvPcs
<1>11. SendToken'
  BY <1>1, <1>2 DEF IInv, SendToken, SendingOn, SendPcs
<1>12. RecvAlive'
  BY <1>1, <1>2 DEF IInv, RecvAlive, RecvPcs
<1>13. LastAlone'
  BY <1>1, <1>2 DEF IInv, LastAlone, Past, Zero
<1>14. NoDangling'
  BY <1>1, <1>2 DEF IInv, NoDangling, Past
<1>15. OpenExact' /\ OneOperationEach' /\ NoStrays' /\ FreedOnce'
  BY <1>1 DEF IInv, OpenExact, OneOperationEach, NoStrays, FreedOnce
<1>. QED
  BY <1>3, <1>4, <1>5, <1>6, <1>7, <1>8, <1>9, <1>10, <1>11, <1>12, <1>13, <1>14, <1>15 DEF IInv

\* The reference passes to the operation on an open socket, or is taken back.
LEMMA RecvIoStep ==
  ASSUME IInv, NEW t \in Threads, RecvIo(t)
  PROVE  IInv'
<1>. t \in Threads /\ TypeOK /\ ThreadOK
  BY DEF IInv, Threads
<1>. /\ Sound' = Sound /\ Sound \subseteq Slots
     /\ deaf' = deaf /\ early' = early /\ strays' = strays
  BY DEF RecvIo, history, registry, Sound
<1>2. Slot(t) \in Slots
  BY DEF RecvIo, ThreadOK, At
<1>1. /\ At(t, "recv_io")
      /\ \/ /\ open[Slot(t)] /\ recvOut' = [recvOut EXCEPT ![Slot(t)] = @ + 1]
            /\ Returns(t)
         \/ GoesTo(t, "undo") /\ recvOut' = recvOut /\ lockBy' = lockBy
      /\ posted' = posted /\ lost' = lost /\ live' = live /\ avail' = avail
      /\ nextId' = nextId /\ closing' = closing /\ pending' = pending
      /\ sending' = sending /\ used' = used /\ inflight' = inflight /\ sendOut' = sendOut
      /\ open' = open /\ spoken' = spoken
  BY <1>2, GotoFacts, ReturnFacts DEF RecvIo, Pcs, accepts, registry, buffer, kernel, At, Goto, Slot
<1>3. PendingExact'
  <2>. SUFFICES ASSUME NEW i \in Sound', live'[i]
                PROVE  pending'[i] = recvOut'[i] + sendOut'[i] + Cardinality(Completing(i)')
                                       + Cardinality(Posting(i)')
    BY DEF PendingExact
  <2>1. /\ Cardinality(Completing(i)) \in Nat /\ Cardinality(Completing(i)') \in Nat
        /\ Cardinality(Posting(i)) \in Nat /\ Cardinality(Posting(i)') \in Nat
        /\ Cardinality(Completing(i)') + Holds(t, i)
             = Cardinality(Completing(i)) + Holds(t, i)'
        /\ Cardinality(Posting(i)') + Posts(t, i) = Cardinality(Posting(i)) + Posts(t, i)'
    BY <1>1, CountsMove DEF Returns, GoesTo, NowAt, Others
  <2>2. CASE i = Slot(t)
    <3>1. /\ Holds(t, i)' = Holds(t, i) /\ Holds(t, i) \in Nat
          /\ Posts(t, i) = 1
          /\ \/ Posts(t, i)' = 1 /\ recvOut'[i] = recvOut[i]
             \/ Posts(t, i)' = 0 /\ recvOut'[i] = recvOut[i] + 1
      BY LifecycleAssumption, <1>1, <1>2, <2>2
      DEF PendingExact, Holds, Posts, IInv, TypeOK, ThreadOK, Returns, GoesTo, NowAt, Others, At,
          Slot, Threads
    <3>2. pending'[i] = pending[i] /\ sendOut'[i] = sendOut[i]
      BY <1>1, <1>2, <2>2 DEF TypeOK
    <3>3. /\ pending[i] = recvOut[i] + sendOut[i] + Cardinality(Completing(i))
                          + Cardinality(Posting(i))
          /\ recvOut[i] \in Nat /\ sendOut[i] \in Nat
      <4>1. live[i]
        BY <1>1
      <4>2. recvOut[i] \in Nat /\ sendOut[i] \in Nat
        BY DEF TypeOK
      <4>. QED  BY <4>1, <4>2 DEF IInv, PendingExact
    <3>. QED  BY <2>1, <3>1, <3>2, <3>3
  <2>3. CASE i # Slot(t)
    BY LifecycleAssumption, <1>1, <1>2, <2>1, <2>3
    DEF PendingExact, Holds, Posts, IInv, TypeOK, ThreadOK, Returns, GoesTo, NowAt, Others, At,
        Slot, Threads
  <2>. QED  BY <2>2, <2>3
<1>4. ContextsExact'
  BY SMTT(30), LifecycleAssumption, <1>1, AcceptingMoves
  DEF IInv, TypeOK, ContextsExact, Accepts, ThreadOK, Returns, GoesTo, NowAt, Others, At, Slot,
      Threads
<1>5. RecvToken'
  <2>1. \A u \in Threads \ {t}, i \in Slots : Receiving(u, i)' <=> Receiving(u, i)
    BY <1>1, TokensOfOthers DEF Returns, GoesTo, NowAt
  <2>2. \A i \in Slots : ~Receiving(t, i)' /\ (Receiving(t, i) <=> i = Slot(t))
    BY <1>1, <1>2, LifecycleAssumption
    DEF ThreadOK, Receiving, RecvPcs, At, Slot, Threads, Returns, GoesTo, NowAt
  <2>. QED  BY <1>1, <2>1, <2>2 DEF IInv, TypeOK, RecvToken, OneOperationEach
<1>. USE LifecycleAssumption DEF Returns, GoesTo, NowAt, Others, At, Slot, Threads
<1>6. TypeOK'
  BY <1>1, <1>2 DEF IInv, TypeOK, RecvToken, Receiving, RecvPcs
<1>7. ThreadOK'
  BY <1>1, <1>2 DEF IInv, ThreadOK
<1>8. SendersLive'
  BY <1>1, <1>2 DEF IInv, SendersLive
<1>9. WorkersLive'
  BY <1>1, <1>2 DEF IInv, WorkersLive, Past
<1>10. FirstPost'
  BY <1>1, <1>2 DEF IInv, FirstPost, TypeOK, Past, SendersLive
<1>11. OneOperationEach'
  BY <1>1, <1>2 DEF IInv, OneOperationEach, TypeOK, RecvToken, Receiving, RecvPcs
<1>12. SendToken'
  BY <1>1, <1>2 DEF IInv, SendToken, SendingOn, SendPcs
<1>13. RecvAlive'
  BY <1>1, <1>2 DEF IInv, RecvAlive, TypeOK
<1>14. LastAlone'
  BY <1>1, <1>2 DEF IInv, LastAlone, TypeOK, Past, Zero, OpenExact
<1>15. NoDangling'
  BY <1>1, <1>2 DEF IInv, NoDangling, Past, TypeOK
<1>16. OpenExact' /\ NoStrays' /\ FreedOnce'
  BY <1>1 DEF IInv, OpenExact, NoStrays, FreedOnce
<1>. QED
  BY <1>3, <1>4, <1>5, <1>6, <1>7, <1>8, <1>9, <1>10, <1>11, <1>12, <1>13, <1>14, <1>15, <1>16
  DEF IInv

\* The worker keeps the send, or gives it up with the flag when nothing is left.
LEMMA OnSendStep ==
  ASSUME IInv, NEW t \in Threads, OnSend(t)
  PROVE  IInv'
<1>. t \in Threads /\ TypeOK /\ ThreadOK
  BY DEF IInv, Threads
<1>. /\ Sound' = Sound /\ Sound \subseteq Slots
     /\ deaf' = deaf /\ early' = early /\ strays' = strays
  BY DEF OnSend, history, registry, Sound
<1>1. /\ At(t, "on_send")
      /\ inflight' = [inflight EXCEPT ![Slot(t)] = 0]
      /\ \E n \in 0..MaxUsed : used' = [used EXCEPT ![Slot(t)] = n]
      /\ \/ /\ lockBy' = [lockBy EXCEPT ![Slot(t)] = t]
            /\ GoesTo(t, "send_check") /\ sending' = sending
         \/ /\ sending' = [sending EXCEPT ![Slot(t)] = FALSE]
            /\ GoesTo(t, "complete") /\ lockBy' = lockBy
      /\ posted' = posted /\ lost' = lost /\ live' = live /\ avail' = avail
      /\ nextId' = nextId /\ closing' = closing /\ pending' = pending
      /\ recvOut' = recvOut /\ sendOut' = sendOut /\ open' = open /\ spoken' = spoken
  <2>. DEFINE i == Slot(t)
              left == IF inflight[i] <= used[i] THEN used[i] - inflight[i]
                                                ELSE used[i] + MaxUsed + 1 - inflight[i]
  <2>1. i \in Slots
    BY DEF OnSend, ThreadOK, At
  <2>2. left \in 0..MaxUsed
    BY <2>1, LifecycleAssumption, WrappedDifference DEF TypeOK
  <2>3. used' = [used EXCEPT ![i] = left]
    BY DEF OnSend
  <2>4. \E n \in 0..MaxUsed : used' = [used EXCEPT ![Slot(t)] = n]
    BY <2>2, <2>3
  <2>. QED  BY <2>4, GotoFacts DEF OnSend, Pcs, accepts, registry, kernel, At, Goto, Slot
<1>2. Slot(t) \in Slots
  BY <1>1 DEF ThreadOK, At
<1>3. PendingExact'
  <2>. SUFFICES ASSUME NEW i \in Sound', live'[i]
                PROVE  pending'[i] = recvOut'[i] + sendOut'[i] + Cardinality(Completing(i)')
                                       + Cardinality(Posting(i)')
    BY DEF PendingExact
  <2>1. /\ Cardinality(Completing(i)) \in Nat /\ Cardinality(Completing(i)') \in Nat
        /\ Cardinality(Posting(i)) \in Nat /\ Cardinality(Posting(i)') \in Nat
        /\ Cardinality(Completing(i)') + Holds(t, i)
             = Cardinality(Completing(i)) + Holds(t, i)'
        /\ Cardinality(Posting(i)') + Posts(t, i) = Cardinality(Posting(i)) + Posts(t, i)'
    BY <1>1, CountsMove DEF GoesTo, NowAt, Others
  <2>2. CASE i = Slot(t)
    BY SMTT(30), LifecycleAssumption, <1>1, <1>2, <2>1, <2>2
    DEF PendingExact, Holds, Posts, IInv, TypeOK, ThreadOK, GoesTo, NowAt, Others, At, Slot,
        Threads
  <2>3. CASE i # Slot(t)
    BY LifecycleAssumption, <1>1, <1>2, <2>1, <2>3
    DEF PendingExact, Holds, Posts, IInv, TypeOK, ThreadOK, GoesTo, NowAt, Others, At, Slot,
        Threads
  <2>. QED  BY <2>2, <2>3
<1>4. ContextsExact'
  <2>1. Accepts(t)' = Accepts(t) /\ Accepts(t) \in Nat
    BY LifecycleAssumption, <1>1, <1>2 DEF ThreadOK, Accepts, GoesTo, NowAt, Others, At, Threads
  <2>. QED  BY <1>1, <2>1, AcceptingMoves DEF IInv, TypeOK, ContextsExact, GoesTo, NowAt, Others
<1>5. TypeOK'
  <2>2. 0 \in 0..MaxUsed
    BY LifecycleAssumption
  <2>3. used' \in [Slots -> 0..MaxUsed] /\ inflight' \in [Slots -> 0..MaxUsed]
    BY <1>1, <1>2, <2>2 DEF TypeOK
  <2>. QED  BY ZenonT(40), <1>1, <1>2, <2>3 DEF TypeOK, GoesTo, NowAt
<1>6. RecvToken'
  <2>1. \A u \in Threads \ {t}, i \in Slots : Receiving(u, i)' <=> Receiving(u, i)
    BY <1>1, TokensOfOthers DEF GoesTo, NowAt
  <2>2. \A i \in Slots : ~Receiving(t, i)'
    BY <1>1, <1>2, LifecycleAssumption
    DEF ThreadOK, Receiving, RecvPcs, At, Slot, Threads, GoesTo, NowAt
  <2>. QED  BY <1>1, <2>1, <2>2 DEF IInv, TypeOK, RecvToken, OneOperationEach
<1>7. SendToken'
  <2>1. \A u \in Threads \ {t}, i \in Slots : SendingOn(u, i)' <=> SendingOn(u, i)
    BY <1>1, TokensOfOthers DEF GoesTo, NowAt
  <2>2. \A i \in Slots : /\ SendingOn(t, i) <=> i = Slot(t)
                         /\ SendingOn(t, i)' => i = Slot(t) /\ sending' = sending
    BY <1>1, <1>2, LifecycleAssumption
    DEF ThreadOK, SendingOn, SendPcs, At, Slot, Threads, GoesTo, NowAt
  <2>. QED  BY <1>1, <1>2, <2>1, <2>2 DEF IInv, TypeOK, SendToken
<1>. USE LifecycleAssumption DEF GoesTo, NowAt, Others, At, Slot, Threads
<1>8. ThreadOK'
  BY <1>1, <1>2 DEF IInv, ThreadOK
<1>9. SendersLive'
  BY <1>1, <1>2 DEF IInv, SendersLive
<1>10. WorkersLive'
  BY <1>1, <1>2 DEF IInv, WorkersLive, Past
<1>11. FirstPost'
  <2>1. \A u \in Workers, i \in Sound : Slot(u) = i /\ th[u].job = "accept" => u # t /\ Slot(t) # i
    BY <1>1, <1>2 DEF IInv, FirstPost, ThreadOK, Past
  <2>2. \A i \in Slots \ {Slot(t)} : sending'[i] = sending[i]
    BY <1>1, <1>2 DEF TypeOK
  <2>3. th'[t].slot \in {Slot(t), NoSlot} /\ th'[t].todo = th[t].todo
    BY <1>1, <1>2
  <2>4. th'[t].job = th[t].job /\ \A u \in Threads \ {t} : th'[u] = th[u]
    BY <1>1
  <2>5. recvOut' = recvOut /\ sendOut' = sendOut /\ live' = live
    BY <1>1
  <2>. QED  BY <2>1, <2>2, <2>3, <2>4, <2>5 DEF IInv, FirstPost, Past
<1>12. RecvAlive'
  BY <1>1, <1>2 DEF IInv, RecvAlive, RecvPcs
<1>13. LastAlone'
  BY <1>1, <1>2 DEF IInv, LastAlone, Past, Zero
<1>14. NoStrays'
  BY <1>1, <1>2 DEF IInv, NoStrays, TypeOK
<1>15. NoDangling'
  BY <1>1, <1>2 DEF IInv, NoDangling, Past
<1>16. OpenExact' /\ OneOperationEach' /\ FreedOnce'
  BY <1>1 DEF IInv, OpenExact, OneOperationEach, FreedOnce
<1>. QED
  BY <1>3, <1>4, <1>5, <1>6, <1>7, <1>8, <1>9, <1>10, <1>11, <1>12, <1>13, <1>14, <1>15, <1>16
  DEF IInv

\* On a closing session the send ends here, with the flag left on; with nothing to send,
\* with the flag off.
LEMMA SendCheckStep ==
  ASSUME IInv, NEW t \in Threads, SendCheck(t)
  PROVE  IInv'
<1>. t \in Threads /\ TypeOK /\ ThreadOK
  BY DEF IInv, Threads
<1>. /\ Sound' = Sound /\ Sound \subseteq Slots
     /\ deaf' = deaf /\ early' = early /\ strays' = strays
  BY DEF SendCheck, history, registry, Sound
<1>2. Slot(t) \in Slots
  BY DEF SendCheck, ThreadOK, At
<1>1. /\ At(t, "send_check")
      /\ \/ closing[Slot(t)] /\ Returns(t) /\ sending' = sending
         \/ Returns(t) /\ sending' = [sending EXCEPT ![Slot(t)] = FALSE]
         \/ ~closing[Slot(t)] /\ GoesTo(t, "send_inc") /\ lockBy' = lockBy /\ sending' = sending
      /\ posted' = posted /\ lost' = lost /\ live' = live /\ avail' = avail
      /\ nextId' = nextId /\ closing' = closing /\ pending' = pending
      /\ used' = used /\ inflight' = inflight /\ recvOut' = recvOut
      /\ sendOut' = sendOut /\ open' = open /\ spoken' = spoken
  BY <1>2, GotoFacts, ReturnFacts DEF SendCheck, Pcs, accepts, registry, buffer, kernel, At, Goto, Slot
<1>3. PendingExact'
  <2>. SUFFICES ASSUME NEW i \in Sound', live'[i]
                PROVE  pending'[i] = recvOut'[i] + sendOut'[i] + Cardinality(Completing(i)')
                                       + Cardinality(Posting(i)')
    BY DEF PendingExact
  <2>1. /\ Cardinality(Completing(i)) \in Nat /\ Cardinality(Completing(i)') \in Nat
        /\ Cardinality(Posting(i)) \in Nat /\ Cardinality(Posting(i)') \in Nat
        /\ Cardinality(Completing(i)') + Holds(t, i)
             = Cardinality(Completing(i)) + Holds(t, i)'
        /\ Cardinality(Posting(i)') + Posts(t, i) = Cardinality(Posting(i)) + Posts(t, i)'
    BY <1>1, CountsMove DEF Returns, GoesTo, NowAt, Others
  <2>2. CASE i = Slot(t)
    BY LifecycleAssumption, <1>1, <1>2, <2>1, <2>2
    DEF PendingExact, Holds, Posts, IInv, TypeOK, ThreadOK, Returns, GoesTo, NowAt, Others, At,
        Slot, Threads
  <2>3. CASE i # Slot(t)
    BY LifecycleAssumption, <1>1, <1>2, <2>1, <2>3
    DEF PendingExact, Holds, Posts, IInv, TypeOK, ThreadOK, Returns, GoesTo, NowAt, Others, At,
        Slot, Threads
  <2>. QED  BY <2>2, <2>3
<1>4. ContextsExact'
  BY LifecycleAssumption, <1>1, AcceptingMoves
  DEF IInv, TypeOK, ContextsExact, Accepts, ThreadOK, Returns, GoesTo, NowAt, Others, At, Slot,
      Threads
<1>5. RecvToken'
  <2>1. \A u \in Threads \ {t}, i \in Slots : Receiving(u, i)' <=> Receiving(u, i)
    BY <1>1, TokensOfOthers DEF Returns, GoesTo, NowAt
  <2>2. \A i \in Slots : ~Receiving(t, i)'
    BY <1>1, <1>2, LifecycleAssumption
    DEF ThreadOK, Receiving, RecvPcs, At, Slot, Threads, Returns, GoesTo, NowAt
  <2>. QED  BY <1>1, <2>1, <2>2 DEF IInv, TypeOK, RecvToken, OneOperationEach
<1>a. /\ th' \in [Threads -> ThreadState] /\ Others(t) /\ th'[t].job = th[t].job
      /\ th'[t].slot \in {Slot(t), NoSlot}
      /\ th[t].job # "accept" \/ t \notin Workers
  BY <1>1, ReturnsKeep DEF Returns, GoesTo, NowAt, ThreadOK, At, Slot
<1>11. SendToken'
  <2>1. \A u \in Threads \ {t}, i \in Slots : SendingOn(u, i)' <=> SendingOn(u, i)
    BY <1>a, TokensOfOthers
  <2>2. SendingOn(t, Slot(t)) /\ \A i \in Slots : SendingOn(t, i) => i = Slot(t)
    BY <1>1 DEF SendingOn, SendPcs, At
  <2>3. \A i \in Slots : SendingOn(t, i)' => i = Slot(t) /\ sending' = sending
    BY <1>1, <1>2, LifecycleAssumption
    DEF SendingOn, SendPcs, Returns, GoesTo, NowAt, ThreadOK, At, Slot, Threads
  <2>4. \A i \in Slots : i # Slot(t) => sending'[i] = sending[i]
    BY <1>1, <1>2 DEF TypeOK
  <2>5. Slot(t) \in Sound => sendOut[Slot(t)] = 0
    BY <2>2 DEF IInv, SendToken
  <2>6. ASSUME NEW i \in Sound, sendOut'[i] # 0 PROVE sending'[i]
    BY <1>1, <2>4, <2>5, <2>6 DEF IInv, SendToken
  <2>7. ASSUME NEW i \in Sound, NEW u \in Threads, SendingOn(u, i)'
        PROVE  sendOut'[i] = 0 /\ sending'[i]
    <3>1. CASE u = t
      BY <1>1, <2>2, <2>3, <2>7, <3>1 DEF IInv, SendToken
    <3>2. CASE u # t
      <4>1. SendingOn(u, i) /\ i # Slot(t)
        BY <2>1, <2>2, <2>7, <3>2 DEF IInv, SendToken
      <4>. QED  BY <1>1, <2>4, <4>1 DEF IInv, SendToken
    <3>. QED  BY <3>1, <3>2
  <2>8. ASSUME NEW i \in Sound, NEW u \in Threads, NEW w \in Threads, SendingOn(u, i)',
               SendingOn(w, i)'
        PROVE  u = w
    <3>1. SendingOn(u, i) /\ SendingOn(w, i)
      BY <2>1, <2>2, <2>3, <2>8
    <3>. QED  BY <3>1 DEF IInv, SendToken
  <2>. QED  BY <2>6, <2>7, <2>8 DEF SendToken
<1>9. WorkersLive'
  <2>. SUFFICES ASSUME NEW w \in Workers, NEW i \in Sound, th'[w].slot = i
                PROVE  live[i] \/ Past(w)'
    BY <1>1 DEF WorkersLive, Slot
  <2>1. w \in Threads /\ i \in Slots
    BY DEF Threads
  <2>2. CASE w = t
    BY <1>1, <1>a, <2>1, <2>2, LifecycleAssumption DEF IInv, WorkersLive, Past, At, Slot
  <2>3. CASE w # t
    BY <1>a, <2>1, <2>3 DEF IInv, WorkersLive, Others, Past, At, Slot
  <2>. QED  BY <2>2, <2>3
<1>10. FirstPost'
  <2>. SUFFICES ASSUME NEW w \in Workers, NEW i \in Sound, th'[w].slot = i,
                       th'[w].job = "accept"
                PROVE  /\ live[i] /\ ~sending'[i] /\ recvOut[i] = 0 /\ sendOut[i] = 0
                       /\ \A u \in Workers \ {w} : th'[u].slot = i => Past(u)'
                       /\ \A s \in Senders : i \notin th'[s].todo /\ th'[s].slot # i
    BY <1>1 DEF FirstPost, Slot
  <2>1. w \in Threads /\ w # t /\ i \in Slots /\ th[w] = th'[w]
    BY <1>a DEF Threads, Others
  <2>2. /\ live[i] /\ ~sending[i] /\ recvOut[i] = 0 /\ sendOut[i] = 0
        /\ \A u \in Workers \ {w} : Slot(u) = i => Past(u)
        /\ \A s \in Senders : i \notin th[s].todo /\ Slot(s) # i
    BY <2>1 DEF IInv, FirstPost, Slot
  <2>3. Slot(t) # i /\ th'[t].slot # i
    BY <1>1, <1>a, <2>1, <2>2, LifecycleAssumption DEF Past, At, Threads
  <2>4. th'[t].todo = th[t].todo \/ th'[t].todo = {}
    BY <1>1 DEF Returns, GoesTo, NowAt
  <2>5. ~sending'[i]
    BY <1>1, <2>2 DEF TypeOK
  <2>6. \A u \in Workers \ {w} : th'[u].slot = i => Past(u)'
    BY <1>a, <2>2, <2>3 DEF Others, Past, At, Slot, Threads
  <2>7. \A s \in Senders : i \notin th'[s].todo /\ th'[s].slot # i
    BY <1>a, <2>2, <2>3, <2>4 DEF Others, Slot, Threads
  <2>. QED  BY <2>2, <2>5, <2>6, <2>7
<1>. USE LifecycleAssumption DEF Returns, GoesTo, NowAt, Others, At, Slot, Threads
<1>6. TypeOK'
  BY <1>1, <1>2 DEF IInv, TypeOK
<1>7. ThreadOK'
  BY <1>1, <1>2 DEF IInv, ThreadOK
<1>8. SendersLive'
  BY <1>1, <1>2 DEF IInv, SendersLive
<1>12. RecvAlive'
  BY <1>1, <1>2 DEF IInv, RecvAlive, RecvPcs
<1>13. LastAlone'
  BY <1>1, <1>2 DEF IInv, LastAlone, Past, Zero
<1>14. NoDangling'
  BY <1>1, <1>2 DEF IInv, NoDangling, Past
<1>15. OpenExact' /\ OneOperationEach' /\ NoStrays' /\ FreedOnce'
  BY <1>1 DEF IInv, OpenExact, OneOperationEach, NoStrays, FreedOnce
<1>. QED
  BY <1>3, <1>4, <1>5, <1>6, <1>7, <1>8, <1>9, <1>10, <1>11, <1>12, <1>13, <1>14, <1>15 DEF IInv

\* The reference is counted before the operation is issued.
LEMMA SendIncStep ==
  ASSUME IInv, NEW t \in Threads, SendInc(t)
  PROVE  IInv'
<1>. t \in Threads /\ TypeOK /\ ThreadOK
  BY DEF IInv, Threads
<1>. /\ Sound' = Sound /\ Sound \subseteq Slots
     /\ deaf' = deaf /\ early' = early /\ strays' = strays
  BY DEF SendInc, history, registry, Sound
<1>1. /\ At(t, "send_inc")
      /\ pending' = [pending EXCEPT ![Slot(t)] = @ + 1]
      /\ \E n \in 1..used[Slot(t)] : inflight' = [inflight EXCEPT ![Slot(t)] = n]
      /\ GoesTo(t, "send_io")
      /\ posted' = posted /\ lost' = lost /\ live' = live /\ avail' = avail
      /\ nextId' = nextId /\ closing' = closing /\ sending' = sending /\ used' = used
      /\ lockBy' = lockBy /\ recvOut' = recvOut /\ sendOut' = sendOut /\ open' = open
      /\ spoken' = spoken
  BY GotoFacts DEF SendInc, Pcs, accepts, registry, buffer, kernel, At, Goto, Slot
<1>2. Slot(t) \in Slots
  BY <1>1 DEF ThreadOK, At
<1>3. PendingExact'
  <2>. SUFFICES ASSUME NEW i \in Sound', live'[i]
                PROVE  pending'[i] = recvOut'[i] + sendOut'[i] + Cardinality(Completing(i)')
                                       + Cardinality(Posting(i)')
    BY DEF PendingExact
  <2>1. /\ Cardinality(Completing(i)) \in Nat /\ Cardinality(Completing(i)') \in Nat
        /\ Cardinality(Posting(i)) \in Nat /\ Cardinality(Posting(i)') \in Nat
        /\ Cardinality(Completing(i)') + Holds(t, i)
             = Cardinality(Completing(i)) + Holds(t, i)'
        /\ Cardinality(Posting(i)') + Posts(t, i) = Cardinality(Posting(i)) + Posts(t, i)'
    BY <1>1, CountsMove DEF GoesTo, NowAt, Others
  <2>2. CASE i = Slot(t)
    <3>1. /\ Holds(t, i)' = Holds(t, i) /\ Holds(t, i) \in Nat
          /\ Posts(t, i) = 0 /\ Posts(t, i)' = 1
      BY LifecycleAssumption, <1>1, <1>2, <2>2
      DEF PendingExact, Holds, Posts, IInv, TypeOK, ThreadOK, GoesTo, NowAt, Others, At, Slot,
          Threads
    <3>2. pending'[i] = pending[i] + 1 /\ recvOut'[i] = recvOut[i] /\ sendOut'[i] = sendOut[i]
      BY <1>1, <1>2, <2>2 DEF TypeOK
    <3>3. /\ pending[i] = recvOut[i] + sendOut[i] + Cardinality(Completing(i))
                          + Cardinality(Posting(i))
          /\ recvOut[i] \in Nat /\ sendOut[i] \in Nat
      <4>1. live[i]
        BY <1>1
      <4>2. recvOut[i] \in Nat /\ sendOut[i] \in Nat
        BY DEF TypeOK
      <4>. QED  BY <4>1, <4>2 DEF IInv, PendingExact
    <3>. QED  BY <2>1, <3>1, <3>2, <3>3
  <2>3. CASE i # Slot(t)
    BY LifecycleAssumption, <1>1, <1>2, <2>1, <2>3
    DEF PendingExact, Holds, Posts, IInv, TypeOK, ThreadOK, GoesTo, NowAt, Others, At, Slot,
        Threads
  <2>. QED  BY <2>2, <2>3
<1>4. ContextsExact'
  <2>1. Accepts(t)' = Accepts(t) /\ Accepts(t) \in Nat
    BY LifecycleAssumption, <1>1, <1>2 DEF ThreadOK, Accepts, GoesTo, NowAt, Others, At, Threads
  <2>2. th \in [Threads -> ThreadState] /\ th' \in [Threads -> ThreadState] /\ Others(t)
    BY <1>1 DEF TypeOK, GoesTo, NowAt
  <2>3. /\ Cardinality(Accepting) \in Nat /\ Cardinality(Accepting') \in Nat
        /\ Cardinality(Accepting') = Cardinality(Accepting)
    BY <2>1, <2>2, AcceptingMoves DEF Others
  <2>. QED  BY <1>1, <2>3 DEF IInv, ContextsExact
<1>. USE LifecycleAssumption DEF GoesTo, NowAt, Others, At, Slot, Threads
<1>5. TypeOK'
  BY <1>1, <1>2 DEF IInv, TypeOK
<1>6. ThreadOK'
  BY <1>1, <1>2 DEF IInv, ThreadOK
<1>7. SendersLive'
  BY <1>1, <1>2 DEF IInv, SendersLive
<1>8. WorkersLive'
  BY <1>1, <1>2 DEF IInv, WorkersLive, Past
<1>9. FirstPost'
  BY <1>1, <1>2 DEF IInv, FirstPost, Past
<1>10. RecvToken'
  BY <1>1, <1>2 DEF IInv, RecvToken, Receiving, RecvPcs
<1>11. SendToken'
  BY <1>1, <1>2 DEF IInv, SendToken, SendingOn, SendPcs
<1>12. RecvAlive'
  BY <1>1, <1>2 DEF IInv, RecvAlive, RecvPcs
<1>13. LastAlone'
  BY <1>1, <1>2 DEF IInv, LastAlone, Past, Zero
<1>14. NoStrays'
  BY <1>1, <1>2 DEF IInv, NoStrays
<1>15. NoDangling'
  BY <1>1, <1>2 DEF IInv, NoDangling, Past
<1>16. OpenExact' /\ OneOperationEach' /\ FreedOnce'
  BY <1>1 DEF IInv, OpenExact, OneOperationEach, FreedOnce
<1>. QED
  BY <1>3, <1>4, <1>5, <1>6, <1>7, <1>8, <1>9, <1>10, <1>11, <1>12, <1>13, <1>14, <1>15, <1>16
  DEF IInv

\* The reference passes to the operation on an open socket, or is taken back.
LEMMA SendIoStep ==
  ASSUME IInv, NEW t \in Threads, SendIo(t)
  PROVE  IInv'
<1>. t \in Threads /\ TypeOK /\ ThreadOK
  BY DEF IInv, Threads
<1>. /\ Sound' = Sound /\ Sound \subseteq Slots
     /\ deaf' = deaf /\ early' = early /\ strays' = strays
  BY DEF SendIo, history, registry, Sound
<1>2. Slot(t) \in Slots
  BY DEF SendIo, ThreadOK, At
<1>1. /\ At(t, "send_io")
      /\ \/ /\ open[Slot(t)] /\ sendOut' = [sendOut EXCEPT ![Slot(t)] = @ + 1]
            /\ Returns(t)
         \/ GoesTo(t, "undo") /\ sendOut' = sendOut /\ lockBy' = lockBy
      /\ posted' = posted /\ lost' = lost /\ live' = live /\ avail' = avail
      /\ nextId' = nextId /\ closing' = closing /\ pending' = pending
      /\ sending' = sending /\ used' = used /\ inflight' = inflight /\ recvOut' = recvOut
      /\ open' = open /\ spoken' = spoken
  BY <1>2, GotoFacts, ReturnFacts DEF SendIo, Pcs, accepts, registry, buffer, kernel, At, Goto, Slot
<1>3. PendingExact'
  <2>. SUFFICES ASSUME NEW i \in Sound', live'[i]
                PROVE  pending'[i] = recvOut'[i] + sendOut'[i] + Cardinality(Completing(i)')
                                       + Cardinality(Posting(i)')
    BY DEF PendingExact
  <2>1. /\ Cardinality(Completing(i)) \in Nat /\ Cardinality(Completing(i)') \in Nat
        /\ Cardinality(Posting(i)) \in Nat /\ Cardinality(Posting(i)') \in Nat
        /\ Cardinality(Completing(i)') + Holds(t, i)
             = Cardinality(Completing(i)) + Holds(t, i)'
        /\ Cardinality(Posting(i)') + Posts(t, i) = Cardinality(Posting(i)) + Posts(t, i)'
    BY <1>1, CountsMove DEF Returns, GoesTo, NowAt, Others
  <2>2. CASE i = Slot(t)
    <3>1. /\ Holds(t, i)' = Holds(t, i) /\ Holds(t, i) \in Nat
          /\ Posts(t, i) = 1
          /\ \/ Posts(t, i)' = 1 /\ sendOut'[i] = sendOut[i]
             \/ Posts(t, i)' = 0 /\ sendOut'[i] = sendOut[i] + 1
      BY LifecycleAssumption, <1>1, <1>2, <2>2
      DEF PendingExact, Holds, Posts, IInv, TypeOK, ThreadOK, Returns, GoesTo, NowAt, Others, At,
          Slot, Threads
    <3>2. pending'[i] = pending[i] /\ recvOut'[i] = recvOut[i]
      BY <1>1, <1>2, <2>2 DEF TypeOK
    <3>3. /\ pending[i] = recvOut[i] + sendOut[i] + Cardinality(Completing(i))
                          + Cardinality(Posting(i))
          /\ recvOut[i] \in Nat /\ sendOut[i] \in Nat
      <4>1. live[i]
        BY <1>1
      <4>2. recvOut[i] \in Nat /\ sendOut[i] \in Nat
        BY DEF TypeOK
      <4>. QED  BY <4>1, <4>2 DEF IInv, PendingExact
    <3>. QED  BY <2>1, <3>1, <3>2, <3>3
  <2>3. CASE i # Slot(t)
    BY LifecycleAssumption, <1>1, <1>2, <2>1, <2>3
    DEF PendingExact, Holds, Posts, IInv, TypeOK, ThreadOK, Returns, GoesTo, NowAt, Others, At,
        Slot, Threads
  <2>. QED  BY <2>2, <2>3
<1>4. ContextsExact'
  BY LifecycleAssumption, <1>1, AcceptingMoves
  DEF IInv, TypeOK, ContextsExact, Accepts, ThreadOK, Returns, GoesTo, NowAt, Others, At, Slot,
      Threads
<1>5. SendToken'
  <2>1. \A u \in Threads \ {t}, i \in Slots : SendingOn(u, i)' <=> SendingOn(u, i)
    BY <1>1, TokensOfOthers DEF Returns, GoesTo, NowAt
  <2>2. \A i \in Slots : ~SendingOn(t, i)' /\ (SendingOn(t, i) <=> i = Slot(t))
    BY <1>1, <1>2, LifecycleAssumption
    DEF ThreadOK, SendingOn, SendPcs, At, Slot, Threads, Returns, GoesTo, NowAt
  <2>. QED  BY <1>1, <2>1, <2>2 DEF IInv, TypeOK, SendToken, OneOperationEach
<1>. USE LifecycleAssumption DEF Returns, GoesTo, NowAt, Others, At, Slot, Threads
<1>6. TypeOK'
  BY <1>1, <1>2 DEF IInv, TypeOK, SendToken, SendingOn, SendPcs
<1>7. ThreadOK'
  BY <1>1, <1>2 DEF IInv, ThreadOK
<1>8. SendersLive'
  BY <1>1, <1>2 DEF IInv, SendersLive
<1>9. WorkersLive'
  BY <1>1, <1>2 DEF IInv, WorkersLive, Past
<1>10. FirstPost'
  BY SMTT(30), <1>1, <1>2 DEF IInv, FirstPost, TypeOK, Past, SendersLive
<1>11. OneOperationEach'
  BY <1>1, <1>2 DEF IInv, OneOperationEach, TypeOK, SendToken, SendingOn, SendPcs
<1>12. RecvToken'
  BY <1>1, <1>2 DEF IInv, RecvToken, Receiving, RecvPcs
<1>13. RecvAlive'
  BY <1>1, <1>2 DEF IInv, RecvAlive, RecvPcs
<1>14. LastAlone'
  BY <1>1, <1>2 DEF IInv, LastAlone, TypeOK, Past, Zero, OpenExact
<1>15. NoDangling'
  BY <1>1, <1>2 DEF IInv, NoDangling, Past, TypeOK
<1>16. OpenExact' /\ NoStrays' /\ FreedOnce'
  BY <1>1 DEF IInv, OpenExact, NoStrays, FreedOnce
<1>. QED
  BY <1>3, <1>4, <1>5, <1>6, <1>7, <1>8, <1>9, <1>10, <1>11, <1>12, <1>13, <1>14, <1>15, <1>16
  DEF IInv

\* The reference of an operation that was not issued is given back.
LEMMA UndoStep ==
  ASSUME IInv, NEW t \in Threads, Undo(t)
  PROVE  IInv'
<1>. t \in Threads /\ TypeOK /\ ThreadOK
  BY DEF IInv, Threads
<1>. /\ Sound' = Sound /\ Sound \subseteq Slots
     /\ deaf' = deaf /\ early' = early /\ strays' = strays
  BY DEF Undo, history, registry, Sound
<1>1. /\ At(t, "undo")
      /\ pending' = [pending EXCEPT ![Slot(t)] = @ - 1]
      /\ GoesTo(t, "close")
      /\ posted' = posted /\ lost' = lost /\ live' = live /\ avail' = avail
      /\ nextId' = nextId /\ closing' = closing /\ sending' = sending /\ used' = used
      /\ inflight' = inflight /\ lockBy' = lockBy /\ recvOut' = recvOut
      /\ sendOut' = sendOut /\ open' = open /\ spoken' = spoken
  BY GotoFacts DEF Undo, Pcs, accepts, registry, buffer, kernel, At, Goto, Slot
<1>2. Slot(t) \in Slots
  BY <1>1 DEF ThreadOK, At
<1>3. PendingExact'
  <2>. SUFFICES ASSUME NEW i \in Sound', live'[i]
                PROVE  pending'[i] = recvOut'[i] + sendOut'[i] + Cardinality(Completing(i)')
                                       + Cardinality(Posting(i)')
    BY DEF PendingExact
  <2>1. /\ Cardinality(Completing(i)) \in Nat /\ Cardinality(Completing(i)') \in Nat
        /\ Cardinality(Posting(i)) \in Nat /\ Cardinality(Posting(i)') \in Nat
        /\ Cardinality(Completing(i)') + Holds(t, i)
             = Cardinality(Completing(i)) + Holds(t, i)'
        /\ Cardinality(Posting(i)') + Posts(t, i) = Cardinality(Posting(i)) + Posts(t, i)'
    BY <1>1, CountsMove DEF GoesTo, NowAt, Others
  <2>2. CASE i = Slot(t)
    <3>1. /\ Holds(t, i)' = Holds(t, i) /\ Holds(t, i) \in Nat
          /\ Posts(t, i) = 1 /\ Posts(t, i)' = 0
      BY LifecycleAssumption, <1>1, <1>2, <2>2
      DEF PendingExact, Holds, Posts, IInv, TypeOK, ThreadOK, GoesTo, NowAt, Others, At, Slot,
          Threads
    <3>2. pending'[i] = pending[i] - 1 /\ recvOut'[i] = recvOut[i] /\ sendOut'[i] = sendOut[i]
      BY <1>1, <1>2, <2>2 DEF TypeOK
    <3>3. /\ pending[i] = recvOut[i] + sendOut[i] + Cardinality(Completing(i))
                          + Cardinality(Posting(i))
          /\ recvOut[i] \in Nat /\ sendOut[i] \in Nat
      <4>1. live[i]
        BY <1>1
      <4>2. recvOut[i] \in Nat /\ sendOut[i] \in Nat
        BY DEF TypeOK
      <4>. QED  BY <4>1, <4>2 DEF IInv, PendingExact
    <3>. QED  BY <2>1, <3>1, <3>2, <3>3
  <2>3. CASE i # Slot(t)
    BY LifecycleAssumption, <1>1, <1>2, <2>1, <2>3
    DEF PendingExact, Holds, Posts, IInv, TypeOK, ThreadOK, GoesTo, NowAt, Others, At, Slot,
        Threads
  <2>. QED  BY <2>2, <2>3
<1>4. ContextsExact'
  <2>1. Accepts(t)' = Accepts(t) /\ Accepts(t) \in Nat
    BY LifecycleAssumption, <1>1, <1>2 DEF ThreadOK, Accepts, GoesTo, NowAt, Others, At, Threads
  <2>. QED  BY <1>1, <2>1, AcceptingMoves DEF IInv, TypeOK, ContextsExact, GoesTo, NowAt, Others
<1>5. TypeOK'
  BY LifecycleAssumption, <1>1, <1>2, ReferenceCounts
  DEF IInv, TypeOK, Posts, GoesTo, NowAt, At, Slot
<1>. USE LifecycleAssumption DEF GoesTo, NowAt, Others, At, Slot, Threads
<1>6. ThreadOK'
  BY <1>1, <1>2 DEF IInv, ThreadOK
<1>7. SendersLive'
  BY <1>1, <1>2 DEF IInv, SendersLive
<1>8. WorkersLive'
  BY <1>1, <1>2 DEF IInv, WorkersLive, Past
<1>9. FirstPost'
  BY <1>1, <1>2 DEF IInv, FirstPost, Past
<1>10. RecvToken'
  BY <1>1, <1>2 DEF IInv, RecvToken, Receiving, RecvPcs
<1>11. SendToken'
  BY <1>1, <1>2 DEF IInv, SendToken, SendingOn, SendPcs
<1>12. RecvAlive'
  BY <1>1, <1>2 DEF IInv, RecvAlive
<1>13. LastAlone'
  BY <1>1, <1>2 DEF IInv, LastAlone, Past, Zero
<1>14. NoDangling'
  BY <1>1, <1>2 DEF IInv, NoDangling, Past
<1>15. OpenExact' /\ OneOperationEach' /\ NoStrays' /\ FreedOnce'
  BY <1>1 DEF IInv, OpenExact, OneOperationEach, NoStrays, FreedOnce
<1>. QED
  BY <1>3, <1>4, <1>5, <1>6, <1>7, <1>8, <1>9, <1>10, <1>11, <1>12, <1>13, <1>14, <1>15 DEF IInv

\* The flag is set and the socket closed in one step.
LEMMA CloseStep ==
  ASSUME IInv, NEW t \in Threads, Close(t)
  PROVE  IInv'
<1>. t \in Threads /\ TypeOK /\ ThreadOK
  BY DEF IInv, Threads
<1>. /\ Sound' = Sound /\ Sound \subseteq Slots
     /\ deaf' = deaf /\ early' = early /\ strays' = strays
  BY DEF Close, history, registry, Sound
<1>2. Slot(t) \in Slots
  BY DEF Close, ThreadOK, At
<1>1. /\ At(t, "close")
      /\ closing' = [closing EXCEPT ![Slot(t)] = TRUE]
      /\ open' = [open EXCEPT ![Slot(t)] = FALSE]
      /\ Returns(t)
      /\ posted' = posted /\ lost' = lost /\ live' = live /\ avail' = avail
      /\ nextId' = nextId /\ pending' = pending /\ sending' = sending /\ used' = used
      /\ inflight' = inflight /\ recvOut' = recvOut /\ sendOut' = sendOut
      /\ spoken' = spoken
  BY <1>2, ReturnFacts DEF Close, accepts, registry, buffer, kernel, At, Goto, Slot
<1>3. PendingExact'
  <2>. SUFFICES ASSUME NEW i \in Sound', live'[i]
                PROVE  pending'[i] = recvOut'[i] + sendOut'[i] + Cardinality(Completing(i)')
                                       + Cardinality(Posting(i)')
    BY DEF PendingExact
  <2>1. /\ Cardinality(Completing(i)) \in Nat /\ Cardinality(Completing(i)') \in Nat
        /\ Cardinality(Posting(i)) \in Nat /\ Cardinality(Posting(i)') \in Nat
        /\ Cardinality(Completing(i)') + Holds(t, i)
             = Cardinality(Completing(i)) + Holds(t, i)'
        /\ Cardinality(Posting(i)') + Posts(t, i) = Cardinality(Posting(i)) + Posts(t, i)'
    BY <1>1, CountsMove DEF Returns, GoesTo, NowAt, Others
  <2>2. CASE i = Slot(t)
    BY SMTT(30), LifecycleAssumption, <1>1, <1>2, <2>1, <2>2
    DEF PendingExact, Holds, Posts, IInv, TypeOK, ThreadOK, Returns, GoesTo, NowAt, Others, At,
        Slot, Threads
  <2>3. CASE i # Slot(t)
    BY LifecycleAssumption, <1>1, <1>2, <2>1, <2>3
    DEF PendingExact, Holds, Posts, IInv, TypeOK, ThreadOK, Returns, GoesTo, NowAt, Others, At,
        Slot, Threads
  <2>. QED  BY <2>2, <2>3
<1>4. ContextsExact'
  <2>1. posted \in Int /\ lost \in Int
    BY DEF TypeOK
  <2>2. Accepts(t)' = Accepts(t) /\ Others(t)
    BY <1>1, ReturnsKeep
  <2>. QED  BY <1>1, <2>1, <2>2, AcceptingMoves DEF IInv, ContextsExact, Accepts
<1>. USE LifecycleAssumption DEF Returns, GoesTo, NowAt, Others, At, Slot, Threads
<1>5. TypeOK'
  BY <1>1, <1>2 DEF IInv, TypeOK
<1>6. ThreadOK'
  BY <1>1, <1>2 DEF IInv, ThreadOK
<1>7. SendersLive'
  BY <1>1, <1>2 DEF IInv, SendersLive
<1>8. WorkersLive'
  BY <1>1, <1>2 DEF IInv, WorkersLive, Past
<1>9. FirstPost'
  BY <1>1, <1>2 DEF IInv, FirstPost, Past
<1>10. OpenExact'
  BY <1>1, <1>2 DEF IInv, OpenExact, TypeOK
<1>11. RecvToken'
  BY <1>1, <1>2 DEF IInv, RecvToken, Receiving, RecvPcs
<1>12. SendToken'
  BY <1>1, <1>2 DEF IInv, SendToken, SendingOn, SendPcs
<1>13. RecvAlive'
  BY <1>1, <1>2 DEF IInv, RecvAlive, TypeOK
<1>14. LastAlone'
  BY <1>1, <1>2 DEF IInv, LastAlone, Past, Zero
<1>15. NoDangling'
  BY <1>1, <1>2 DEF IInv, NoDangling, Past
<1>16. OneOperationEach' /\ NoStrays' /\ FreedOnce'
  BY <1>1 DEF IInv, OneOperationEach, NoStrays, FreedOnce
<1>. QED
  BY <1>3, <1>4, <1>5, <1>6, <1>7, <1>8, <1>9, <1>10, <1>11, <1>12, <1>13, <1>14, <1>15, <1>16
  DEF IInv

\* When the count reaches 0, no operation is under way, no thread is about to issue one,
\* and no other worker is at the session: it is closing, for somebody would be receiving
\* otherwise.
LEMMA ReleaseStep ==
  ASSUME IInv, NEW t \in Workers, Release(t)
  PROVE  IInv'
<1>. t \in Threads /\ TypeOK /\ ThreadOK
  BY DEF IInv, Threads
<1>. /\ Sound' = Sound /\ Sound \subseteq Slots
     /\ deaf' = deaf /\ early' = early /\ strays' = strays
  BY DEF Release, history, registry, Sound
<1>a. At(t, "complete") /\ Slot(t) \in Slots /\ th[t].job = "io"
  BY DEF Release, ThreadOK, At
<1>b. Slot(t) \in Sound =>
        live[Slot(t)] /\ pending[Slot(t)] \in Nat /\ pending[Slot(t)] >= 1
  BY <1>a, ReferenceCounts DEF Holds, At, Slot
<1>1. /\ At(t, "complete")
      /\ pending' = [pending EXCEPT ![Slot(t)] = @ - 1]
      /\ GoesTo(t, "last")
      /\ th'[t].count = pending[Slot(t)] - 1
      /\ posted' = posted /\ lost' = lost /\ live' = live /\ avail' = avail
      /\ nextId' = nextId /\ closing' = closing /\ sending' = sending /\ used' = used
      /\ inflight' = inflight /\ lockBy' = lockBy /\ recvOut' = recvOut
      /\ sendOut' = sendOut /\ open' = open /\ spoken' = spoken
  <2>1. th' = [th EXCEPT ![t] = [@ EXCEPT !.pc = "last", !.count = pending[Slot(t)] - 1]]
    BY DEF Release
  <2>2. pending[Slot(t)] - 1 \in Int
    BY <1>a DEF TypeOK
  <2>3. GoesTo(t, "last") /\ th'[t].count = pending[Slot(t)] - 1
    BY <2>1, <2>2 DEF TypeOK, GoesTo, NowAt, Others, ThreadState, Pcs, Slot
  <2>. QED  BY <2>3 DEF Release, accepts, registry, buffer, kernel
<1>2. Slot(t) \in Slots
  BY <1>1 DEF ThreadOK, At
<1>3. PendingExact'
  <2>. SUFFICES ASSUME NEW i \in Sound', live'[i]
                PROVE  pending'[i] = recvOut'[i] + sendOut'[i] + Cardinality(Completing(i)')
                                       + Cardinality(Posting(i)')
    BY DEF PendingExact
  <2>1. /\ Cardinality(Completing(i)) \in Nat /\ Cardinality(Completing(i)') \in Nat
        /\ Cardinality(Posting(i)) \in Nat /\ Cardinality(Posting(i)') \in Nat
        /\ Cardinality(Completing(i)') + Holds(t, i)
             = Cardinality(Completing(i)) + Holds(t, i)'
        /\ Cardinality(Posting(i)') + Posts(t, i) = Cardinality(Posting(i)) + Posts(t, i)'
    BY <1>1, CountsMove DEF GoesTo, NowAt, Others
  <2>2. CASE i = Slot(t)
    <3>1. Holds(t, i) = 1 /\ Holds(t, i)' = 0 /\ Posts(t, i) = 0 /\ Posts(t, i)' = 0
      BY LifecycleAssumption, <1>1, <1>2, <2>2
      DEF PendingExact, Holds, Posts, IInv, TypeOK, ThreadOK, GoesTo, NowAt, Others, At, Slot,
          Threads
    <3>2. pending'[i] = pending[i] - 1 /\ recvOut'[i] = recvOut[i] /\ sendOut'[i] = sendOut[i]
      BY <1>1, <1>2, <2>2 DEF TypeOK
    <3>3. /\ pending[i] = recvOut[i] + sendOut[i] + Cardinality(Completing(i))
                          + Cardinality(Posting(i))
          /\ recvOut[i] \in Nat /\ sendOut[i] \in Nat
      <4>1. live[i]
        BY <1>1
      <4>2. recvOut[i] \in Nat /\ sendOut[i] \in Nat
        BY DEF TypeOK
      <4>. QED  BY <4>1, <4>2 DEF IInv, PendingExact
    <3>. QED  BY <2>1, <3>1, <3>2, <3>3
  <2>3. CASE i # Slot(t)
    BY LifecycleAssumption, <1>1, <1>2, <2>1, <2>3
    DEF PendingExact, Holds, Posts, IInv, TypeOK, ThreadOK, GoesTo, NowAt, Others, At, Slot,
        Threads
  <2>. QED  BY <2>2, <2>3
<1>4. ContextsExact'
  <2>1. Accepts(t)' = Accepts(t) /\ Accepts(t) \in Nat
    BY LifecycleAssumption, <1>1, <1>2 DEF ThreadOK, Accepts, GoesTo, NowAt, Others, At, Threads
  <2>. QED  BY <1>1, <2>1, AcceptingMoves DEF IInv, TypeOK, ContextsExact, GoesTo, NowAt, Others
<1>5. TypeOK'
  <2>1. pending' \in [Slots -> Int] /\ \A i \in Sound' : pending'[i] >= 0
    BY <1>1, <1>2, <1>b DEF TypeOK
  <2>. QED  BY <1>1, <2>1 DEF TypeOK, GoesTo, NowAt
<1>6. LastAlone'
  <2>. SUFFICES ASSUME NEW u \in Workers, NEW i \in Sound', Slot(u)' = i, Zero(u)'
                PROVE  /\ live'[i] /\ closing'[i] /\ recvOut'[i] = 0 /\ sendOut'[i] = 0
                       /\ \A v \in Workers \ {u} : Slot(v)' = i => Past(v)'
    BY DEF LastAlone
  <2>1. CASE u # t
    BY <1>1, <1>2, <2>1 DEF IInv, LastAlone, Zero, Past, GoesTo, NowAt, Others, At, Slot, Threads
  <2>2. CASE u = t
    <3>1. i = Slot(t) /\ live[i] /\ pending[i] = 1
      BY <1>1, <1>b, <2>2 DEF TypeOK, Zero, GoesTo, NowAt, At, Slot
    <3>2. IsFiniteSet(Completing(i)) /\ IsFiniteSet(Posting(i)) /\ t \in Completing(i)
      BY <1>a, <3>1, FiniteSets DEF Completing, At, Slot
    <3>3. /\ Cardinality(Completing(i)) \in Nat /\ Cardinality(Completing(i)) >= 1
          /\ Cardinality(Posting(i)) \in Nat
          /\ \A v \in Completing(i) : v # t => Cardinality(Completing(i)) >= 2
          /\ \A v \in Posting(i) : Cardinality(Posting(i)) >= 1
      BY <3>2, TwoElements, FS_CardinalityType
    <3>4. recvOut[i] \in Nat /\ sendOut[i] \in Nat
      BY DEF TypeOK
    <3>5. /\ recvOut[i] = 0 /\ sendOut[i] = 0
          /\ Completing(i) = {t} /\ Posting(i) = {}
      BY <3>1, <3>2, <3>3, <3>4 DEF IInv, PendingExact
    <3>6. \A v \in Workers \ {t} : Slot(v) = i => Past(v)
      <4>. SUFFICES ASSUME NEW v \in Workers \ {t}, Slot(v) = i, ~Past(v) PROVE FALSE
        OBVIOUS
      <4>1. th[v].job # "io" \/ Zero(v)
        BY <3>5 DEF Completing, Past, Zero, At
      <4>2. th[v].job # "io"
        BY <1>a, <3>1, <4>1 DEF IInv, LastAlone, Past, At
      <4>3. th[v].job = "accept"
        BY <4>2, LifecycleAssumption DEF ThreadOK, TypeOK, At, Slot, Threads
      <4>. QED  BY <1>a, <3>1, <4>3 DEF IInv, FirstPost, Past, At
    <3>7. closing[i]
      BY <1>a, <3>1, <3>5, <3>6 DEF IInv, RecvAlive, RecvPcs, Past, At
    <3>. QED  BY <1>1, <2>2, <3>1, <3>5, <3>6, <3>7
              DEF Past, GoesTo, NowAt, Others, At, Slot, Threads
  <2>. QED  BY <2>1, <2>2
<1>. USE LifecycleAssumption DEF GoesTo, NowAt, Others, At, Slot, Threads
<1>7. ThreadOK'
  BY <1>1, <1>2 DEF IInv, ThreadOK
<1>8. SendersLive'
  BY <1>1, <1>2 DEF IInv, SendersLive
<1>9. WorkersLive'
  BY <1>1, <1>2 DEF IInv, WorkersLive, Past
<1>10. FirstPost'
  BY <1>1, <1>2 DEF IInv, FirstPost, Past
<1>11. RecvToken'
  BY <1>1, <1>2 DEF IInv, RecvToken, Receiving, RecvPcs
<1>12. SendToken'
  BY <1>1, <1>2 DEF IInv, SendToken, SendingOn, SendPcs
<1>13. RecvAlive'
  BY <1>1, <1>2 DEF IInv, RecvAlive, RecvPcs
<1>14. NoDangling'
  BY <1>1, <1>2 DEF IInv, NoDangling, Past
<1>15. OpenExact' /\ OneOperationEach' /\ NoStrays' /\ FreedOnce'
  BY <1>1 DEF IInv, OpenExact, OneOperationEach, NoStrays, FreedOnce
<1>. QED
  BY <1>3, <1>4, <1>5, <1>6, <1>7, <1>8, <1>9, <1>10, <1>11, <1>12, <1>13, <1>14, <1>15 DEF IInv

\* The flag that is read with a count of 0 is the one of the same session.
LEMMA CompleteIOStep ==
  ASSUME IInv, NEW t \in Workers, CompleteIO(t)
  PROVE  IInv'
<1>. t \in Threads /\ TypeOK /\ ThreadOK
  BY DEF IInv, Threads
<1>. /\ Sound' = Sound /\ Sound \subseteq Slots
     /\ deaf' = deaf /\ early' = early /\ strays' = strays
  BY DEF CompleteIO, history, registry, Sound
<1>1. /\ At(t, "last")
      /\ \/ closing[Slot(t)] /\ th[t].count = 0 /\ GoesTo(t, "destroy") /\ th'[t].count = 0
         \/ ~(closing[Slot(t)] /\ th[t].count = 0) /\ NowAt(t, "idle", "none", NoSlot, {})
      /\ posted' = posted /\ lost' = lost /\ live' = live /\ avail' = avail
      /\ nextId' = nextId /\ closing' = closing /\ pending' = pending
      /\ sending' = sending /\ used' = used /\ inflight' = inflight /\ lockBy' = lockBy
      /\ recvOut' = recvOut /\ sendOut' = sendOut /\ open' = open /\ spoken' = spoken
  BY ZenonT(40), IdleFacts
  DEF CompleteIO, GoesTo, NowAt, Others, ThreadState, Pcs, TypeOK, IsLast, accepts, registry,
      buffer, kernel, At, Goto, Slot
<1>2. Slot(t) \in Slots
  BY <1>1 DEF ThreadOK, At
<1>3. PendingExact'
  <2>. SUFFICES ASSUME NEW i \in Sound', live'[i]
                PROVE  pending'[i] = recvOut'[i] + sendOut'[i] + Cardinality(Completing(i)')
                                       + Cardinality(Posting(i)')
    BY DEF PendingExact
  <2>1. /\ Cardinality(Completing(i)) \in Nat /\ Cardinality(Completing(i)') \in Nat
        /\ Cardinality(Posting(i)) \in Nat /\ Cardinality(Posting(i)') \in Nat
        /\ Cardinality(Completing(i)') + Holds(t, i)
             = Cardinality(Completing(i)) + Holds(t, i)'
        /\ Cardinality(Posting(i)') + Posts(t, i) = Cardinality(Posting(i)) + Posts(t, i)'
    BY <1>1, CountsMove DEF GoesTo, NowAt, Others
  <2>2. CASE i = Slot(t)
    BY LifecycleAssumption, <1>1, <1>2, <2>1, <2>2
    DEF PendingExact, Holds, Posts, IInv, TypeOK, ThreadOK, GoesTo, NowAt, Others, At, Slot,
        Threads
  <2>3. CASE i # Slot(t)
    BY LifecycleAssumption, <1>1, <1>2, <2>1, <2>3
    DEF PendingExact, Holds, Posts, IInv, TypeOK, ThreadOK, GoesTo, NowAt, Others, At, Slot,
        Threads
  <2>. QED  BY <2>2, <2>3
<1>4. ContextsExact'
  BY LifecycleAssumption, <1>1, AcceptingMoves
  DEF IInv, TypeOK, ContextsExact, Accepts, ThreadOK, GoesTo, NowAt, Others, At, Slot, Threads
<1>. USE LifecycleAssumption DEF GoesTo, NowAt, Others, At, Slot, Threads
<1>5. TypeOK'
  BY <1>1, <1>2 DEF IInv, TypeOK
<1>6. ThreadOK'
  BY <1>1, <1>2 DEF IInv, ThreadOK
<1>7. SendersLive'
  BY <1>1, <1>2 DEF IInv, SendersLive
<1>8. WorkersLive'
  BY <1>1, <1>2 DEF IInv, WorkersLive, Past
<1>9. FirstPost'
  BY <1>1, <1>2 DEF IInv, FirstPost, Past
<1>10. RecvToken'
  BY <1>1, <1>2 DEF IInv, RecvToken, Receiving, RecvPcs
<1>11. SendToken'
  BY <1>1, <1>2 DEF IInv, SendToken, SendingOn, SendPcs
<1>12. RecvAlive'
  BY <1>1, <1>2 DEF IInv, RecvAlive, RecvPcs
<1>13. LastAlone'
  BY <1>1, <1>2 DEF IInv, LastAlone, Past, Zero
<1>14. NoDangling'
  BY <1>1, <1>2 DEF IInv, NoDangling, Past
<1>15. OpenExact' /\ OneOperationEach' /\ NoStrays' /\ FreedOnce'
  BY <1>1 DEF IInv, OpenExact, OneOperationEach, NoStrays, FreedOnce
<1>. QED
  BY <1>3, <1>4, <1>5, <1>6, <1>7, <1>8, <1>9, <1>10, <1>11, <1>12, <1>13, <1>14, <1>15 DEF IInv

\* The worker that destroys is alone: the consumers are out of the registry.
LEMMA DestroyStep ==
  ASSUME IInv, NEW t \in Workers, Destroy(t)
  PROVE  IInv'
<1>. t \in Threads /\ TypeOK /\ ThreadOK
  BY DEF IInv, Threads
<1>. /\ Sound' = Sound /\ Sound \subseteq Slots
     /\ deaf' = deaf /\ early' = early /\ strays' = strays
  BY DEF Destroy, history, registry, Sound
<1>1. /\ At(t, "destroy") /\ NoReaders
      /\ live' = [live EXCEPT ![Slot(t)] = FALSE]
      /\ avail' = [avail EXCEPT ![Slot(t)] = @ + 1]
      /\ NowAt(t, "idle", "none", NoSlot, {})
      /\ posted' = posted /\ lost' = lost /\ nextId' = nextId /\ closing' = closing
      /\ pending' = pending /\ sending' = sending /\ used' = used /\ inflight' = inflight
      /\ lockBy' = lockBy /\ recvOut' = recvOut /\ sendOut' = sendOut /\ open' = open
      /\ spoken' = spoken
  BY IdleFacts DEF Destroy, accepts, registry, buffer, kernel, At, Goto, Slot
<1>2. Slot(t) \in Slots
  BY <1>1 DEF ThreadOK, At
<1>3. PendingExact'
  <2>. SUFFICES ASSUME NEW i \in Sound', live'[i]
                PROVE  pending'[i] = recvOut'[i] + sendOut'[i] + Cardinality(Completing(i)')
                                       + Cardinality(Posting(i)')
    BY DEF PendingExact
  <2>1. /\ Cardinality(Completing(i)) \in Nat /\ Cardinality(Completing(i)') \in Nat
        /\ Cardinality(Posting(i)) \in Nat /\ Cardinality(Posting(i)') \in Nat
        /\ Cardinality(Completing(i)') + Holds(t, i)
             = Cardinality(Completing(i)) + Holds(t, i)'
        /\ Cardinality(Posting(i)') + Posts(t, i) = Cardinality(Posting(i)) + Posts(t, i)'
    BY <1>1, CountsMove DEF NowAt, Others, NoReaders
  <2>2. CASE i = Slot(t)
    BY LifecycleAssumption, <1>1, <1>2, <2>1, <2>2
    DEF PendingExact, Holds, Posts, IInv, TypeOK, ThreadOK, NowAt, Others, NoReaders, At, Slot,
        Threads
  <2>3. CASE i # Slot(t)
    BY LifecycleAssumption, <1>1, <1>2, <2>1, <2>3
    DEF PendingExact, Holds, Posts, IInv, TypeOK, ThreadOK, NowAt, Others, NoReaders, At, Slot,
        Threads
  <2>. QED  BY <2>2, <2>3
<1>4. ContextsExact'
  BY LifecycleAssumption, <1>1, AcceptingMoves
  DEF IInv, TypeOK, ContextsExact, Accepts, ThreadOK, NowAt, Others, NoReaders, At, Slot, Threads
<1>. USE LifecycleAssumption DEF NowAt, Others, NoReaders, At, Slot, Threads
<1>5. TypeOK'
  BY <1>1, <1>2 DEF IInv, TypeOK
<1>6. ThreadOK'
  BY <1>1, <1>2 DEF IInv, ThreadOK
<1>7. SendersLive'
  BY <1>1, <1>2 DEF IInv, SendersLive, ThreadOK
<1>8. WorkersLive'
  BY <1>1, <1>2 DEF IInv, WorkersLive, Past, LastAlone, Zero
<1>9. FirstPost'
  BY <1>1, <1>2 DEF IInv, FirstPost, Past
<1>10. OpenExact'
  BY <1>1, <1>2 DEF IInv, OpenExact
<1>11. RecvToken'
  BY <1>1, <1>2 DEF IInv, RecvToken, Receiving
<1>12. SendToken'
  BY <1>1, <1>2 DEF IInv, SendToken, SendingOn
<1>13. RecvAlive'
  BY <1>1, <1>2 DEF IInv, RecvAlive, RecvPcs
<1>14. LastAlone'
  BY <1>1, <1>2 DEF IInv, LastAlone, Past, Zero
<1>15. NoDangling'
  BY <1>1, <1>2 DEF IInv, NoDangling, Past, LastAlone, Zero
<1>16. FreedOnce'
  BY <1>1, <1>2 DEF IInv, FreedOnce, TypeOK, LastAlone, Zero
<1>17. OneOperationEach' /\ NoStrays'
  BY <1>1 DEF IInv, OneOperationEach, NoStrays
<1>. QED
  BY <1>3, <1>4, <1>5, <1>6, <1>7, <1>8, <1>9, <1>10, <1>11, <1>12, <1>13, <1>14, <1>15, <1>16,
     <1>17
  DEF IInv

\* A consumer picks sessions that live; the first receive of those that stay sound is
\* posted.
LEMMA LockRegistryStep ==
  ASSUME IInv, NEW t \in Senders, LockRegistry(t)
  PROVE  IInv'
<1>. t \in Threads /\ TypeOK /\ ThreadOK
  BY DEF IInv, Threads
<1>1. PICK T \in SUBSET Slots :
      /\ At(t, "idle")
      /\ \A i \in T : live[i] \/ i \in strays
      /\ early' = early \cup {i \in T : Accepted(i)}
      /\ NowAt(t, "pick", "deliver", NoSlot, T)
      /\ posted' = posted /\ lost' = lost /\ live' = live /\ avail' = avail
      /\ nextId' = nextId /\ closing' = closing /\ pending' = pending
      /\ sending' = sending /\ used' = used /\ inflight' = inflight /\ lockBy' = lockBy
      /\ recvOut' = recvOut /\ sendOut' = sendOut /\ open' = open /\ spoken' = spoken
  <2>1. PICK T \in Deliveries :
          /\ th' = [th EXCEPT ![t] = [Idle EXCEPT !.pc = "pick", !.job = "deliver", !.todo = T]]
          /\ early' = early \cup {i \in T : Accepted(i)}
    BY DEF LockRegistry
  <2>2. T \in SUBSET Slots /\ \A i \in T : live[i] \/ i \in strays
    <3>. DEFINE S == {i \in Targets : spoken[i]}
    <3>. DEFINE R == {{i} : i \in Targets}
    <3>1. T \in ((SUBSET S) \cup R) \ {{}}
      BY <2>1 DEF Deliveries
    <3>2. T \in SUBSET Targets
      <4>1. S \subseteq Targets /\ \A U \in R : U \subseteq Targets
        OBVIOUS
      <4>. HIDE DEF S, R
      <4>2. T \in SUBSET S \/ T \in R
        BY <3>1
      <4>. QED  BY <4>1, <4>2
    <3>. QED  BY <3>2 DEF Targets
  <2>3. NowAt(t, "pick", "deliver", NoSlot, T)
    <3>. DEFINE r == [Idle EXCEPT !.pc = "pick", !.job = "deliver", !.todo = T]
    <3>1. r \in ThreadState
      BY <2>2, IdleState DEF ThreadState, Pcs
    <3>2. r.pc = "pick" /\ r.job = "deliver" /\ r.slot = NoSlot /\ r.todo = T
      BY DEF Idle
    <3>. HIDE DEF r
    <3>3. th' = [th EXCEPT ![t] = r] /\ th \in [Threads -> ThreadState]
      BY <2>1 DEF r, TypeOK
    <3>. QED  BY <3>1, <3>2, <3>3 DEF NowAt, Others
  <2>. QED  BY <2>1, <2>2, <2>3 DEF LockRegistry, accepts, registry, buffer, kernel, At
<1>. /\ Sound' \subseteq Sound /\ Sound \subseteq Slots
     /\ early' \subseteq Slots /\ deaf' = deaf /\ strays' = strays
  BY <1>1 DEF LockRegistry, registry, Sound, TypeOK
<1>2. \A i \in T : i \in Sound' => live[i] /\ ~Accepted(i)
  BY <1>1 DEF Sound, IInv, NoStrays
<1>3. PendingExact'
  <2>. SUFFICES ASSUME NEW i \in Sound', live'[i]
                PROVE  pending'[i] = recvOut'[i] + sendOut'[i] + Cardinality(Completing(i)')
                                       + Cardinality(Posting(i)')
    BY DEF PendingExact
  <2>. QED  BY LifecycleAssumption, <1>1, CountsMove
            DEF IInv, TypeOK, PendingExact, Holds, Posts, ThreadOK, NowAt, Others, At, Slot,
                Threads
<1>4. ContextsExact'
  BY LifecycleAssumption, <1>1, AcceptingMoves
  DEF IInv, TypeOK, ContextsExact, Accepts, ThreadOK, NowAt, Others, At, Slot, Threads
<1>. USE LifecycleAssumption DEF NowAt, Others, At, Slot, Threads
<1>5. TypeOK'
  BY <1>1 DEF IInv, TypeOK
<1>6. ThreadOK'
  BY <1>1 DEF IInv, ThreadOK
<1>7. SendersLive'
  BY <1>1, <1>2 DEF IInv, SendersLive
<1>8. WorkersLive'
  BY <1>1 DEF IInv, WorkersLive, Past
<1>9. FirstPost'
  BY <1>1, <1>2 DEF IInv, FirstPost, Past, Accepted
<1>10. RecvToken'
  BY <1>1 DEF IInv, RecvToken, Receiving
<1>11. SendToken'
  BY <1>1 DEF IInv, SendToken, SendingOn
<1>12. RecvAlive'
  BY <1>1 DEF IInv, RecvAlive
<1>13. LastAlone'
  BY <1>1 DEF IInv, LastAlone, Past, Zero
<1>14. NoDangling'
  BY <1>1 DEF IInv, NoDangling, Past
<1>15. OpenExact' /\ OneOperationEach' /\ NoStrays' /\ FreedOnce'
  BY <1>1 DEF IInv, OpenExact, OneOperationEach, NoStrays, FreedOnce
<1>. QED
  BY <1>3, <1>4, <1>5, <1>6, <1>7, <1>8, <1>9, <1>10, <1>11, <1>12, <1>13, <1>14, <1>15 DEF IInv

\* A consumer starts a send only when the flag was off, and turns it on.
LEMMA SendStep ==
  ASSUME IInv, NEW t \in Senders, Send(t)
  PROVE  IInv'
<1>. t \in Threads /\ TypeOK /\ ThreadOK
  BY DEF IInv, Threads
<1>. /\ Sound' = Sound /\ Sound \subseteq Slots
     /\ deaf' = deaf /\ early' = early /\ strays' = strays
  BY DEF Send, history, registry, Sound
<1>a. PICK p \in th[t].todo :
        /\ used' = IF used[p] < MaxUsed THEN [used EXCEPT ![p] = @ + 1] ELSE used
        /\ IF used[p] < MaxUsed /\ ~sending[p]
             THEN /\ sending' = [sending EXCEPT ![p] = TRUE]
                  /\ lockBy' = [lockBy EXCEPT ![p] = t]
                  /\ th' = [th EXCEPT ![t].pc = "send_check", ![t].slot = p, ![t].todo = @ \ {p}]
             ELSE /\ th' = [th EXCEPT ![t].todo = @ \ {p}]
                  /\ UNCHANGED <<sending, lockBy>>
  BY DEF Send
<1>1. /\ At(t, "pick") /\ p \in Slots
      /\ \/ /\ ~sending[p] /\ sending' = [sending EXCEPT ![p] = TRUE]
            /\ used[p] < MaxUsed /\ used' = [used EXCEPT ![p] = @ + 1]
            /\ lockBy' = [lockBy EXCEPT ![p] = t]
            /\ NowAt(t, "send_check", th[t].job, p, th[t].todo \ {p})
         \/ /\ used' = used \/ (used[p] < MaxUsed /\ used' = [used EXCEPT ![p] = @ + 1])
            /\ sending' = sending /\ lockBy' = lockBy
            /\ NowAt(t, "pick", th[t].job, Slot(t), th[t].todo \ {p})
      /\ posted' = posted /\ lost' = lost /\ live' = live /\ avail' = avail
      /\ nextId' = nextId /\ closing' = closing /\ pending' = pending
      /\ inflight' = inflight /\ recvOut' = recvOut /\ sendOut' = sendOut /\ open' = open
      /\ spoken' = spoken
  <2>1. At(t, "pick") /\ p \in Slots
    BY <1>a DEF Send, TypeOK, ThreadState
  <2>2. CASE used[p] < MaxUsed /\ ~sending[p]
    <3>1. NowAt(t, "send_check", th[t].job, p, th[t].todo \ {p})
      <4>1. th' = [th EXCEPT ![t].pc = "send_check", ![t].slot = p, ![t].todo = @ \ {p}]
        BY <1>a, <2>2
      <4>2. th \in [Threads -> ThreadState]
        BY DEF TypeOK
      <4>. QED  BY <2>1, <4>1, <4>2 DEF NowAt, Others, ThreadState, Pcs
    <3>. QED  BY <1>a, <2>1, <2>2, <3>1 DEF Send, accepts, registry, kernel
  <2>3. CASE ~(used[p] < MaxUsed /\ ~sending[p])
    <3>1. NowAt(t, "pick", th[t].job, Slot(t), th[t].todo \ {p})
      <4>1. th' = [th EXCEPT ![t].todo = @ \ {p}]
        BY <1>a, <2>3
      <4>. QED  BY ZenonT(40), <2>1, <4>1 DEF TypeOK, NowAt, Others, ThreadState, Pcs, At, Slot
    <3>. QED  BY <1>a, <2>1, <2>3, <3>1 DEF Send, accepts, registry, kernel
  <2>. QED  BY <2>2, <2>3
<1>2. p \in Sound => live[p]
  BY <1>a, <1>1 DEF IInv, SendersLive
<1>3. PendingExact'
  <2>. SUFFICES ASSUME NEW i \in Sound', live'[i]
                PROVE  pending'[i] = recvOut'[i] + sendOut'[i] + Cardinality(Completing(i)')
                                       + Cardinality(Posting(i)')
    BY DEF PendingExact
  <2>1. /\ Cardinality(Completing(i)) \in Nat /\ Cardinality(Completing(i)') \in Nat
        /\ Cardinality(Posting(i)) \in Nat /\ Cardinality(Posting(i)') \in Nat
        /\ Cardinality(Completing(i)') + Holds(t, i)
             = Cardinality(Completing(i)) + Holds(t, i)'
        /\ Cardinality(Posting(i)') + Posts(t, i) = Cardinality(Posting(i)) + Posts(t, i)'
    BY <1>1, CountsMove DEF NowAt, Others
  <2>2. CASE i = p
    BY LifecycleAssumption, <1>1, <1>2, <2>1, <2>2
    DEF PendingExact, Holds, Posts, IInv, TypeOK, ThreadOK, NowAt, Others, At, Slot, Threads
  <2>3. CASE i # p
    BY LifecycleAssumption, <1>1, <1>2, <2>1, <2>3
    DEF PendingExact, Holds, Posts, IInv, TypeOK, ThreadOK, NowAt, Others, At, Slot, Threads
  <2>. QED  BY <2>2, <2>3
<1>4. ContextsExact'
  BY LifecycleAssumption, <1>1, AcceptingMoves
  DEF IInv, TypeOK, ContextsExact, Accepts, ThreadOK, NowAt, Others, At, Slot, Threads
<1>5. TypeOK'
  <2>1. used' \in [Slots -> 0..MaxUsed]
    <3>1. \A n \in 0..MaxUsed : n < MaxUsed => n + 1 \in 0..MaxUsed
      BY LifecycleAssumption
    <3>. QED  BY <1>1, <3>1 DEF TypeOK
  <2>2. sending' \in [Slots -> BOOLEAN] /\ lockBy' \in [Slots -> Threads \cup {NoThread}]
    <3>1. sending' = sending \/ sending' = [sending EXCEPT ![p] = TRUE]
      BY <1>1
    <3>2. lockBy' = lockBy \/ lockBy' = [lockBy EXCEPT ![p] = t]
      BY <1>1
    <3>3. sending \in [Slots -> BOOLEAN] /\ lockBy \in [Slots -> Threads \cup {NoThread}]
      BY DEF TypeOK
    <3>4. sending' \in [Slots -> BOOLEAN]
      BY <3>1, <3>3
    <3>5. lockBy' \in [Slots -> Threads \cup {NoThread}]
      BY <3>2, <3>3
    <3>. QED  BY <3>4, <3>5
  <2>3. th' \in [Threads -> ThreadState]
    BY <1>1 DEF NowAt
  <2>. QED  BY <1>1, <2>1, <2>2, <2>3 DEF TypeOK
<1>6. RecvToken'
  <2>1. \A u \in Threads \ {t}, i \in Slots : Receiving(u, i)' <=> Receiving(u, i)
    BY <1>1, TokensOfOthers DEF NowAt
  <2>2. \A i \in Slots : ~Receiving(t, i)'
    BY <1>1, LifecycleAssumption DEF ThreadOK, Receiving, RecvPcs, At, Slot, Threads, NowAt
  <2>. QED  BY <1>1, <2>1, <2>2 DEF IInv, TypeOK, RecvToken, OneOperationEach
<1>7. SendToken'
  <2>1. \A u \in Threads \ {t}, i \in Slots : SendingOn(u, i)' <=> SendingOn(u, i)
    BY <1>1, TokensOfOthers DEF NowAt
  <2>2. \A i \in Slots : SendingOn(t, i)' => /\ i = p /\ sending' = [sending EXCEPT ![p] = TRUE]
                                             /\ ~sending[p]
    BY <1>1, LifecycleAssumption DEF ThreadOK, SendingOn, SendPcs, At, Slot, Threads, NowAt
  <2>. QED  BY <1>1, <2>1, <2>2 DEF IInv, TypeOK, SendToken, OneOperationEach
<1>. USE LifecycleAssumption DEF NowAt, Others, At, Slot, Threads
<1>8. ThreadOK'
  BY <1>1, <1>2 DEF IInv, ThreadOK
<1>9. SendersLive'
  BY <1>1, <1>2 DEF IInv, SendersLive
<1>10. WorkersLive'
  BY <1>1, <1>2 DEF IInv, WorkersLive, Past
<1>11. FirstPost'
  <2>1. \A u \in Workers, i \in Sound : Slot(u) = i /\ th[u].job = "accept" => i # p
    BY DEF IInv, FirstPost
  <2>2. \A i \in Slots \ {p} : sending'[i] = sending[i]
    BY <1>1 DEF TypeOK
  <2>3. /\ th'[t].slot \in {Slot(t), p} /\ th'[t].todo \subseteq th[t].todo
        /\ \A u \in Threads \ {t} : th'[u] = th[u]
    BY <1>1
  <2>4. t \notin Workers
    OBVIOUS
  <2>5. recvOut' = recvOut /\ sendOut' = sendOut /\ live' = live
    BY <1>1
  <2>. QED  BY <2>1, <2>2, <2>3, <2>4, <2>5 DEF IInv, FirstPost, Past
<1>12. RecvAlive'
  BY <1>1, <1>2 DEF IInv, RecvAlive
<1>13. LastAlone'
  BY <1>1, <1>2 DEF IInv, LastAlone, Past, Zero
<1>14. NoStrays'
  BY <1>1, <1>2 DEF IInv, NoStrays, TypeOK
<1>15. NoDangling'
  BY <1>1, <1>2 DEF IInv, NoDangling, Past
<1>16. OpenExact' /\ OneOperationEach' /\ FreedOnce'
  BY <1>1 DEF IInv, OpenExact, OneOperationEach, FreedOnce
<1>. QED
  BY <1>3, <1>4, <1>5, <1>6, <1>7, <1>8, <1>9, <1>10, <1>11, <1>12, <1>13, <1>14, <1>15, <1>16
  DEF IInv

\* A consumer leaves when it has been through its list.
LEMMA UnlockRegistryStep ==
  ASSUME IInv, NEW t \in Senders, UnlockRegistry(t)
  PROVE  IInv'
<1>. t \in Threads /\ TypeOK /\ ThreadOK
  BY DEF IInv, Threads
<1>. /\ Sound' = Sound /\ Sound \subseteq Slots
     /\ deaf' = deaf /\ early' = early /\ strays' = strays
  BY DEF UnlockRegistry, history, registry, Sound
<1>1. /\ At(t, "pick")
      /\ NowAt(t, "idle", "none", NoSlot, {})
      /\ posted' = posted /\ lost' = lost /\ live' = live /\ avail' = avail
      /\ nextId' = nextId /\ closing' = closing /\ pending' = pending
      /\ sending' = sending /\ used' = used /\ inflight' = inflight /\ lockBy' = lockBy
      /\ recvOut' = recvOut /\ sendOut' = sendOut /\ open' = open /\ spoken' = spoken
  BY IdleFacts DEF UnlockRegistry, accepts, registry, buffer, kernel, At, Goto, Slot
<1>3. PendingExact'
  <2>. SUFFICES ASSUME NEW i \in Sound', live'[i]
                PROVE  pending'[i] = recvOut'[i] + sendOut'[i] + Cardinality(Completing(i)')
                                       + Cardinality(Posting(i)')
    BY DEF PendingExact
  <2>. QED  BY LifecycleAssumption, <1>1, CountsMove
            DEF IInv, TypeOK, PendingExact, Holds, Posts, ThreadOK, NowAt, Others, At, Slot,
                Threads
<1>4. ContextsExact'
  BY LifecycleAssumption, <1>1, AcceptingMoves
  DEF IInv, TypeOK, ContextsExact, Accepts, ThreadOK, NowAt, Others, At, Slot, Threads
<1>. USE LifecycleAssumption DEF NowAt, Others, At, Slot, Threads
<1>5. TypeOK'
  BY <1>1 DEF IInv, TypeOK
<1>6. ThreadOK'
  BY <1>1 DEF IInv, ThreadOK
<1>7. SendersLive'
  BY <1>1 DEF IInv, SendersLive
<1>8. WorkersLive'
  BY <1>1 DEF IInv, WorkersLive, Past
<1>9. FirstPost'
  BY <1>1 DEF IInv, FirstPost, Past
<1>10. RecvToken'
  BY <1>1 DEF IInv, RecvToken, Receiving
<1>11. SendToken'
  BY <1>1 DEF IInv, SendToken, SendingOn
<1>12. RecvAlive'
  BY <1>1 DEF IInv, RecvAlive
<1>13. LastAlone'
  BY <1>1 DEF IInv, LastAlone, Past, Zero
<1>14. NoDangling'
  BY <1>1 DEF IInv, NoDangling, Past
<1>15. OpenExact' /\ OneOperationEach' /\ NoStrays' /\ FreedOnce'
  BY <1>1 DEF IInv, OpenExact, OneOperationEach, NoStrays, FreedOnce
<1>. QED
  BY <1>3, <1>4, <1>5, <1>6, <1>7, <1>8, <1>9, <1>10, <1>11, <1>12, <1>13, <1>14, <1>15 DEF IInv

-----------------------------------------------------------------------------
\* Start leaves no session and no thread in the middle of anything.
LEMMA InitInvariant == Init => IInv
<1>. SUFFICES ASSUME Init PROVE IInv
  OBVIOUS
<1>. USE LifecycleAssumption DEF Init
<1>1. TypeOK
  BY DEF TypeOK, PrepareAccepts, ThreadState, Pcs, Idle, Sound
<1>2. \A t \in Threads : At(t, "idle") /\ Slot(t) = NoSlot /\ th[t].job = "none" /\ th[t].todo = {}
  BY DEF Idle, At, Slot
<1>3. ThreadOK /\ SendersLive /\ WorkersLive /\ FirstPost /\ RecvToken /\ SendToken /\ LastAlone
  BY <1>2 DEF ThreadOK, SendersLive, WorkersLive, FirstPost, RecvToken, SendToken, LastAlone,
              Receiving, SendingOn, RecvPcs, SendPcs, At, Slot, Threads, Sound
<1>4. ContextsExact
  <2>1. Accepting = {}
    BY <1>2 DEF Accepting, Threads
  <2>. QED  BY <2>1, FS_EmptySet DEF ContextsExact, PrepareAccepts
<1>5. OpenExact /\ OneOperationEach /\ RecvAlive /\ NoStrays /\ PendingExact /\ FreedOnce
  BY DEF OpenExact, OneOperationEach, RecvAlive, NoStrays, PendingExact, FreedOnce, Sound
<1>6. NoDangling
  BY <1>2 DEF NoDangling, Sound
<1>. QED  BY <1>1, <1>3, <1>4, <1>5, <1>6 DEF IInv

\* Every step of the workers and of the consumers keeps the invariant.
LEMMA NextInvariant ==
  ASSUME IInv, [Next]_vars
  PROVE  IInv'
<1>1. ASSUME NEW t \in Threads, Post(t) PROVE IInv'
  BY <1>1, RecvCheckStep, RecvIncStep, RecvIoStep, SendCheckStep, SendIncStep, SendIoStep,
     UndoStep, CloseStep DEF Post
<1>2. ASSUME NEW t \in Workers, Complete(t) PROVE IInv'
  <2>. t \in Threads
    BY DEF Threads
  <2>. QED  BY <1>1, <1>2, OnRecvStep, OnSendStep, PostAcceptStep, CreateStep, CreateRefusedStep,
               ReleaseStep, CompleteIOStep, DestroyStep DEF Complete
<1>3. ASSUME NEW t \in Workers, DequeueAccept(t) PROVE IInv'
  BY <1>3, DequeueAcceptStep
<1>4. ASSUME NEW t \in Workers, NEW i \in Slots, Dequeue(t, i) PROVE IInv'
  BY <1>4, DequeueRecvStep, DequeueSendStep DEF Dequeue
<1>5. ASSUME NEW s \in Senders, Deliver(s) PROVE IInv'
  <2>. s \in Threads
    BY DEF Threads
  <2>. QED  BY <1>1, <1>5, LockRegistryStep, SendStep, UnlockRegistryStep DEF Deliver
<1>6. CASE UNCHANGED vars
  BY <1>6 DEF vars, IInv, TypeOK, ThreadOK, ContextsExact, Accepting, SendersLive, WorkersLive,
              FirstPost, OpenExact, OneOperationEach, RecvToken, Receiving, SendToken, SendingOn,
              RecvAlive, LastAlone, Zero, Past, NoStrays, PendingExact, Completing, Posting,
              NoDangling, FreedOnce, Sound, At, Slot
<1>. QED  BY <1>2, <1>3, <1>4, <1>5, <1>6 DEF Next

\* So the invariant holds throughout.
LEMMA Invariant == Spec => []IInv
<1>1. IInv /\ [Next]_vars => IInv'
  BY NextInvariant
<1>. QED  BY InitInvariant, <1>1, PTL DEF Spec

\* pendingIO_, the buffers, the free stack and the records of the threads stay in their
\* ranges: the pendingIO_ of a slot in Sound is never decremented below 0.
THEOREM LifecycleTypes == Spec => []TypeOK
<1>1. IInv => TypeOK
  BY DEF IInv
<1>. QED  BY Invariant, <1>1, PTL

\* As long as no receive was left out for want of room and nothing was sent before the
\* first receive (a slot in Sound), pendingIO_ counts exactly the operations under way and
\* the threads that must still give a reference back, for any number of workers and
\* consumers (PostRecv, PostSend, CompleteIO).
THEOREM PendingIsExact == Spec => []PendingExact
<1>1. IInv => PendingExact
  BY DEF IInv
<1>. QED  BY Invariant, <1>1, PTL

\* On a slot in Sound, the one recvContext_ and the one sendContext_ of the session are
\* never used by two operations at a time, although any worker and any consumer may post
\* them.
THEOREM ContextsNotShared == Spec => []OneOperationEach
<1>1. IInv => OneOperationEach
  BY DEF IInv
<1>. QED  BY Invariant, <1>1, PTL

\* No operation and no thread is left at a slot in Sound that was given back to the pool:
\* the worker that destroys such a session is the last one, whatever the others do
\* meanwhile. Without the condition the code does not give this.
THEOREM DestroyedByTheLast == Spec => []NoDangling
<1>1. IInv => NoDangling
  BY DEF IInv
<1>. QED  BY Invariant, <1>1, PTL

\* A session in a slot in Sound is destroyed once: the slot is on the free stack once, or
\* not at all while the session is live (SessionManager::Destroy, ObjectPool::Free).
\* Without the condition two workers may destroy it.
THEOREM SlotsFreedOnce == Spec => []FreedOnce
<1>1. IInv => FreedOnce
  BY DEF IInv
<1>. QED  BY Invariant, <1>1, PTL
=============================================================================
