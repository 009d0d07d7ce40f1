-------------------------- MODULE ShardQueueProofs --------------------------
(***************************************************************************)
(* Proofs about ShardQueue, for any number of shards, sessions, workers    *)
(* and packets. The wake-up argument needs the types only; the order of    *)
(* the packets is argued on Line(s), the message in hand followed by the   *)
(* queue: Push appends to it, Take leaves it as it is, Done drops its head.*)
(***************************************************************************)
EXTENDS ShardQueue, FiniteSetTheorems, TLAPS

\* A consumer has a message in hand exactly while it handles it, and the packet that
\* makes it post to another shard is a client's.
HandOK == \A s \in Shards :
  /\ con[s] \in {"handle", "notify"} <=> hand[s] # <<>>
  /\ con[s] = "notify" => hand[s][1].n # 0

IInv == TypeOK /\ HandOK /\ NoLostWakeup /\ SessionOrder

\* Every session has its shard.
LEMMA ShardInRange == \A sid \in Nat : Shard(sid) \in Shards
BY ShardAssumption DEF Shard, Shards

\* With nothing in hand the line of a shard is its queue.
LEMMA LineOfQueue ==
  ASSUME TypeOK, NEW s \in Shards, hand[s] = <<>>
  PROVE  Line(s) = queue[s]
BY DEF TypeOK, Line

\* Otherwise it is the message in hand and, shifted by one, the queue.
LEMMA LineOfHand ==
  ASSUME TypeOK, NEW s \in Shards, hand[s] # <<>>
  PROVE  /\ hand[s] = <<hand[s][1]>> /\ hand[s][1] \in Messages
         /\ Line(s) \in Seq(Messages) /\ Len(Line(s)) = Len(queue[s]) + 1
         /\ Line(s)[1] = hand[s][1] /\ Tail(Line(s)) = queue[s]
         /\ \A k \in 1..Len(queue[s]) : Line(s)[k + 1] = queue[s][k]
<1>1. PICK m \in Messages : hand[s] = <<m>>
  BY DEF TypeOK
<1>2. queue[s] \in Seq(Messages)
  BY DEF TypeOK
<1>3. Line(s) = <<m>> \o queue[s]
  BY <1>1 DEF Line
<1>. QED  BY <1>1, <1>2, <1>3

\* In both cases it is a sequence of messages.
LEMMA LineType ==
  ASSUME TypeOK, NEW s \in Shards
  PROVE  Line(s) \in Seq(Messages)
BY LineOfQueue, LineOfHand DEF TypeOK

\* Push appends to the line of the shard.
LEMMA PushLine ==
  ASSUME TypeOK, NEW s \in Shards, NEW m \in Messages, Push(s, m), hand' = hand
  PROVE  \A r \in Shards : Line(r)' = IF r = s THEN Append(Line(r), m) ELSE Line(r)
<1>. SUFFICES ASSUME NEW r \in Shards
              PROVE  Line(r)' = IF r = s THEN Append(Line(r), m) ELSE Line(r)
  OBVIOUS
<1>1. CASE r # s
  BY <1>1 DEF TypeOK, Push, Line
<1>2. CASE r = s /\ hand[r] = <<>>
  BY <1>2 DEF TypeOK, Push, Line
<1>3. CASE r = s /\ hand[r] # <<>>
  <2>1. PICK h \in Messages : hand[r] = <<h>>
    BY <1>3 DEF TypeOK
  <2>2. queue[r] \in Seq(Messages) /\ queue'[r] = Append(queue[r], m)
    BY <1>3 DEF TypeOK, Push
  <2>3. <<h>> \o Append(queue[r], m) = Append(<<h>> \o queue[r], m)
    BY <2>2
  <2>. QED  BY <1>3, <2>1, <2>2, <2>3 DEF Line
<1>. QED  BY <1>1, <1>2, <1>3

\* Take moves the head of the queue to the hand: the line is the same.
LEMMA TakeLine ==
  ASSUME TypeOK, NEW s \in Shards, hand[s] = <<>>, queue[s] # <<>>,
         hand' = [hand EXCEPT ![s] = <<Head(queue[s])>>],
         queue' = [queue EXCEPT ![s] = Tail(@)]
  PROVE  \A r \in Shards : Line(r)' = Line(r)
<1>. SUFFICES ASSUME NEW r \in Shards PROVE Line(r)' = Line(r)
  OBVIOUS
<1>1. CASE r # s
  BY <1>1 DEF TypeOK, Line
<1>2. CASE r = s
  <2>1. queue[s] \in Seq(Messages)
    BY DEF TypeOK
  <2>2. <<Head(queue[s])>> \o Tail(queue[s]) = queue[s]
    BY <2>1
  <2>3. Line(s)' = <<Head(queue[s])>> \o Tail(queue[s])
    BY DEF TypeOK, Line
  <2>. QED  BY <1>2, <2>2, <2>3, LineOfQueue
<1>. QED  BY <1>1, <1>2

\* Nothing of a line and of the counters changes: the order is kept.
LEMMA OrderKept ==
  ASSUME SessionOrder, \A r \in Shards : Line(r)' = Line(r), sent' = sent, handled' = handled,
         TypeOK
  PROVE  SessionOrder'
<1>1. \A i \in Sessions : Shard(i) \in Shards
  BY ShardInRange, ShardAssumption
<1>. QED  BY <1>1 DEF SessionOrder

\* A message at the end of a line: the next packet of its session, on its own shard, or
\* one of another shard.
LEMMA OrderPushed ==
  ASSUME TypeOK, SessionOrder, NEW s \in Shards, NEW m \in Messages, handled' = handled,
         \A r \in Shards : Line(r)' = IF r = s THEN Append(Line(r), m) ELSE Line(r),
         \/ m.n = 0 /\ sent' = sent
         \/ /\ m.to \in Sessions /\ s = Shard(m.to) /\ m.n = sent[m.to] + 1
            /\ sent' = [sent EXCEPT ![m.to] = @ + 1]
  PROVE  SessionOrder'
<1>1. \A i \in Sessions : Shard(i) \in Shards
  BY ShardInRange, ShardAssumption
<1>2. \A r \in Shards : Line(r) \in Seq(Messages)
  BY LineType
<1>3. \A i \in Sessions : /\ sent[i] \in Nat /\ handled[i] \in Nat
                          /\ sent'[i] = IF m.n # 0 /\ m.to = i THEN sent[i] + 1 ELSE sent[i]
  <2>1. sent \in [Sessions -> 0..MaxSent] /\ handled \in [Sessions -> 0..MaxSent]
    BY DEF TypeOK
  <2>2. \A i \in Sessions : sent[i] \in Nat /\ handled[i] \in Nat
    BY <2>1
  <2>. QED  BY <2>1, <2>2
<1>4. \A i \in Sessions : sent'[i] \in Nat /\ sent[i] <= sent'[i] /\ handled[i] <= sent'[i]
  BY <1>3 DEF SessionOrder
<1>5. \A r \in Shards : /\ Len(Line(r)') \in Nat /\ Len(Line(r)) \in Nat
                        /\ Len(Line(r)) <= Len(Line(r)')
                        /\ \A k \in 1..Len(Line(r)) : Line(r)'[k] = Line(r)[k]
  BY <1>2
<1>6. /\ Len(Line(s)') = Len(Line(s)) + 1 /\ Line(s)'[Len(Line(s)) + 1] = m
      /\ \A r \in Shards : r # s => Len(Line(r)') = Len(Line(r))
  BY <1>2
<1>7. ASSUME NEW r \in Shards, NEW k \in 1..Len(Line(r)'), Line(r)'[k].n # 0
      PROVE  LET p == Line(r)'[k] IN
               /\ r = Shard(p.to) /\ p.to \in Sessions
               /\ handled[p.to] < p.n /\ p.n <= sent'[p.to]
               /\ \A j \in 1..(k - 1) : Line(r)'[j].to = p.to => Line(r)'[j].n < p.n
  <2>1. CASE k \in 1..Len(Line(r))
    <3>. DEFINE q == Line(r)[k]
    <3>1. Line(r)'[k] = q /\ q \in Messages
      BY <1>2, <1>5, <2>1
    <3>2. /\ r = Shard(q.to) /\ q.to \in Sessions /\ handled[q.to] < q.n /\ q.n <= sent[q.to]
          /\ \A j \in 1..(k - 1) : Line(r)[j].to = q.to => Line(r)[j].n < q.n
      BY <1>7, <2>1, <3>1 DEF SessionOrder
    <3>3. q.n <= sent'[q.to]
      BY <1>3, <1>4, <3>1, <3>2 DEF Messages
    <3>4. \A j \in 1..(k - 1) : Line(r)'[j] = Line(r)[j]
      BY <1>5, <2>1
    <3>. QED  BY <3>1, <3>2, <3>3, <3>4
  <2>2. CASE k \notin 1..Len(Line(r))
    <3>1. r = s /\ k = Len(Line(s)) + 1 /\ Line(r)'[k] = m
      BY <1>5, <1>6, <2>2
    <3>2. /\ m.to \in Sessions /\ s = Shard(m.to) /\ m.n = sent[m.to] + 1
          /\ sent'[m.to] = sent[m.to] + 1
      BY <1>7, <3>1 DEF TypeOK
    <3>3. handled[m.to] < m.n
      BY <1>3, <3>2 DEF SessionOrder
    <3>4. ASSUME NEW j \in 1..(k - 1), Line(r)'[j].to = m.to PROVE Line(r)'[j].n < m.n
      <4>1. j \in 1..Len(Line(s)) /\ Line(r)'[j] = Line(s)[j] /\ Line(s)[j] \in Messages
        BY <1>2, <1>5, <3>1
      <4>2. Line(s)[j].n # 0 => Line(s)[j].n <= sent[m.to]
        BY <3>4, <4>1 DEF SessionOrder
      <4>. QED  BY <1>3, <3>2, <4>1, <4>2 DEF Messages
    <3>. QED  BY <1>3, <3>1, <3>2, <3>3, <3>4
  <2>. QED  BY <2>1, <2>2
<1>8. ASSUME NEW i \in Sessions, NEW n \in (handled[i] + 1)..sent'[i]
      PROVE  \E k \in 1..Len(Line(Shard(i))') : Line(Shard(i))'[k] = Client(i, n)
  <2>1. CASE n <= sent[i]
    <3>1. PICK k \in 1..Len(Line(Shard(i))) : Line(Shard(i))[k] = Client(i, n)
      BY <1>3, <2>1 DEF SessionOrder
    <3>. QED  BY <1>1, <1>5, <3>1
  <2>2. CASE ~(n <= sent[i])
    <3>1. m.n # 0 /\ i = m.to /\ n = m.n /\ s = Shard(i)
      BY SMTT(30), <1>3, <2>2 DEF TypeOK
    <3>2. m = Client(i, n)
      BY <3>1 DEF Messages, Client
    <3>. QED  BY <1>1, <1>5, <1>6, <3>1, <3>2
  <2>. QED  BY <2>1, <2>2
<1>. QED  BY <1>4, <1>7, <1>8 DEF SessionOrder

\* The message in hand is the next packet of its session, or one of another shard.
LEMMA HeadIsNext ==
  ASSUME TypeOK, SessionOrder, NEW s \in Shards, hand[s] # <<>>, hand[s][1].n # 0
  PROVE  LET m == hand[s][1] IN
           /\ m.to \in Sessions /\ m.n = handled[m.to] + 1 /\ m.n <= sent[m.to]
           /\ s = Shard(m.to)
<1>. DEFINE m == hand[s][1]
<1>1. /\ Line(s)[1] = m /\ m \in Messages /\ Line(s) \in Seq(Messages)
      /\ Len(Line(s)) \in Nat /\ 1 \in 1..Len(Line(s))
  <2>1. Len(queue[s]) \in Nat
    BY DEF TypeOK
  <2>. QED  BY <2>1, LineOfHand
<1>2. m.to \in Sessions /\ s = Shard(m.to) /\ handled[m.to] < m.n /\ m.n <= sent[m.to]
  BY <1>1 DEF SessionOrder
<1>3. handled[m.to] \in Nat /\ sent[m.to] \in Nat /\ m.n \in Nat
  <2>1. handled \in [Sessions -> 0..MaxSent] /\ sent \in [Sessions -> 0..MaxSent]
    BY DEF TypeOK
  <2>. QED  BY <1>1, <1>2, <2>1 DEF Messages
<1>4. PICK k \in 1..Len(Line(s)) : Line(s)[k] = Client(m.to, handled[m.to] + 1)
  BY SMTT(30), <1>2, <1>3 DEF SessionOrder
<1>5. Line(s)[k].to = m.to /\ Line(s)[k].n = handled[m.to] + 1
  BY <1>4 DEF Client
<1>6. CASE k = 1
  BY <1>1, <1>2, <1>5, <1>6
<1>7. CASE k # 1
  <2>1. 1 \in 1..(k - 1)
    BY <1>7
  <2>2. Line(s)[1].n < Line(s)[k].n
    BY <1>1, <1>3, <1>5, <2>1 DEF SessionOrder
  <2>. QED  BY <1>1, <1>2, <1>3, <1>5, <2>2
<1>. QED  BY <1>6, <1>7

\* A consumer is done with the message in hand: it is dropped from the line, and the
\* packets of its session that are left are those after it.
LEMMA OrderDone ==
  ASSUME TypeOK, SessionOrder, NEW s \in Shards, hand[s] # <<>>, Done(s),
         queue' = queue, sent' = sent
  PROVE  SessionOrder' /\ handled' \in [Sessions -> 0..MaxSent]
<1>. DEFINE m == hand[s][1]
<1>1. \A i \in Sessions : Shard(i) \in Shards
  BY ShardInRange, ShardAssumption
<1>2. \A r \in Shards : Line(r) \in Seq(Messages)
  BY LineType
<1>3. /\ Line(s)[1] = m /\ m \in Messages /\ Line(s)' = queue[s]
      /\ queue[s] \in Seq(Messages) /\ Len(Line(s)) = Len(queue[s]) + 1
      /\ \A k \in 1..Len(queue[s]) : Line(s)[k + 1] = queue[s][k]
  BY LineOfHand DEF TypeOK, Done, Line
<1>4. \A r \in Shards : r # s => Line(r)' = Line(r)
  BY DEF TypeOK, Done, Line
<1>5. \A i \in Sessions : sent[i] \in Nat /\ handled[i] \in Nat /\ sent[i] <= MaxSent
  <2>1. handled \in [Sessions -> 0..MaxSent] /\ sent \in [Sessions -> 0..MaxSent]
    BY DEF TypeOK
  <2>. QED  BY <2>1
<1>6. m.n # 0 => /\ m.to \in Sessions /\ m.n = handled[m.to] + 1 /\ m.n <= sent[m.to]
                 /\ s = Shard(m.to)
  BY HeadIsNext
<1>7. \A i \in Sessions :
        handled'[i] = IF m.n # 0 /\ i = m.to THEN handled[i] + 1 ELSE handled[i]
  BY <1>6 DEF TypeOK, Done
<1>8. handled' \in [Sessions -> 0..MaxSent]
  <2>1. ASSUME m.n # 0 PROVE handled[m.to] + 1 \in 0..MaxSent
    <3>1. MaxSent \in Nat
      BY ShardAssumption
    <3>2. /\ handled[m.to] \in Nat /\ sent[m.to] \in Nat /\ sent[m.to] <= MaxSent
          /\ handled[m.to] + 1 <= sent[m.to]
      BY <1>5, <1>6, <2>1
    <3>. QED  BY <3>1, <3>2
  <2>2. handled \in [Sessions -> 0..MaxSent]
    BY DEF TypeOK
  <2>. QED  BY <1>6, <2>1, <2>2 DEF Done
<1>9. \A i \in Sessions : handled'[i] \in Nat /\ handled[i] <= handled'[i] /\ handled'[i] <= sent[i]
  BY <1>5, <1>6, <1>7 DEF SessionOrder
\* What is left of the line of s, at its old positions.
<1>10. ASSUME NEW r \in Shards, NEW k \in 1..Len(Line(r)'), Line(r)'[k].n # 0
       PROVE  LET p == Line(r)'[k] IN
                /\ r = Shard(p.to) /\ p.to \in Sessions
                /\ handled'[p.to] < p.n /\ p.n <= sent[p.to]
                /\ \A j \in 1..(k - 1) : Line(r)'[j].to = p.to => Line(r)'[j].n < p.n
  <2>. DEFINE p == Line(r)'[k]
  <2>1. CASE r = s
    <3>1. /\ k + 1 \in 1..Len(Line(s)) /\ Line(s)[k + 1] = p /\ p \in Messages
          /\ 1 \in 1..((k + 1) - 1)
          /\ \A j \in 1..(k - 1) : j + 1 \in 1..((k + 1) - 1) /\ Line(s)[j + 1] = Line(r)'[j]
      <4>1. Len(queue[s]) \in Nat /\ k \in 1..Len(queue[s]) /\ p = queue[s][k]
        BY <1>3, <2>1
      <4>2. p \in Messages
        BY <1>3, <4>1
      <4>3. \A j \in 1..(k - 1) : j \in 1..Len(queue[s]) /\ j + 1 \in 1..((k + 1) - 1)
        BY <4>1
      <4>4. k + 1 \in 1..Len(Line(s)) /\ 1 \in 1..((k + 1) - 1)
        BY <1>3, <4>1
      <4>. QED  BY <1>3, <2>1, <4>1, <4>2, <4>3, <4>4
    <3>2. /\ s = Shard(p.to) /\ p.to \in Sessions /\ handled[p.to] < p.n /\ p.n <= sent[p.to]
          /\ \A j \in 1..((k + 1) - 1) : Line(s)[j].to = p.to => Line(s)[j].n < p.n
      BY <1>10, <3>1 DEF SessionOrder
    <3>3. handled'[p.to] < p.n
      <4>1. CASE m.n # 0 /\ p.to = m.to
        <5>1. m.n < p.n
          BY <1>3, <3>1, <3>2, <4>1
        <5>. QED  BY <1>6, <1>7, <3>2, <4>1, <5>1
      <4>2. CASE ~(m.n # 0 /\ p.to = m.to)
        BY <1>7, <3>2, <4>2
      <4>. QED  BY <4>1, <4>2
    <3>. QED  BY <2>1, <3>1, <3>2, <3>3
  <2>2. CASE r # s
    <3>1. Line(r)' = Line(r)
      BY <1>4, <2>2
    <3>2. /\ r = Shard(p.to) /\ p.to \in Sessions /\ handled[p.to] < p.n /\ p.n <= sent[p.to]
          /\ \A j \in 1..(k - 1) : Line(r)[j].to = p.to => Line(r)[j].n < p.n
      BY <1>10, <3>1 DEF SessionOrder
    <3>3. handled'[p.to] = handled[p.to]
      BY <1>6, <1>7, <2>2, <3>2
    <3>. QED  BY <3>1, <3>2, <3>3
  <2>. QED  BY <2>1, <2>2
<1>11. ASSUME NEW i \in Sessions, NEW n \in (handled'[i] + 1)..sent[i]
       PROVE  \E k \in 1..Len(Line(Shard(i))') : Line(Shard(i))'[k] = Client(i, n)
  <2>1. PICK k \in 1..Len(Line(Shard(i))) : Line(Shard(i))[k] = Client(i, n)
    BY <1>5, <1>9 DEF SessionOrder
  <2>2. CASE Shard(i) = s
    <3>1. k # 1
      <4>1. CASE m.n # 0 /\ i = m.to
        BY <1>3, <1>5, <1>6, <1>7, <2>1, <2>2, <4>1 DEF Client
      <4>2. CASE ~(m.n # 0 /\ i = m.to)
        BY <1>3, <1>9, <2>1, <2>2, <4>2 DEF Client
      <4>. QED  BY <4>1, <4>2
    <3>2. k - 1 \in 1..Len(queue[s]) /\ Line(s)[(k - 1) + 1] = queue[s][k - 1]
      BY SMTT(30), <1>3, <2>1, <2>2, <3>1
    <3>3. queue[s][k - 1] = Client(i, n)
      BY <2>1, <2>2, <3>2
    <3>. QED  BY <1>3, <2>2, <3>2, <3>3
  <2>3. CASE Shard(i) # s
    BY <1>1, <1>4, <2>1, <2>3
  <2>. QED  BY <2>2, <2>3
<1>. QED  BY <1>8, <1>9, <1>10, <1>11 DEF SessionOrder

-----------------------------------------------------------------------------
\* A step that leaves the queues, the hands and the packet counters alone keeps the order.
LEMMA OrderUntouched ==
  ASSUME TypeOK, SessionOrder, UNCHANGED <<queue, hand, sent, handled>>
  PROVE  SessionOrder'
<1>1. \A r \in Shards : Line(r)' = Line(r)
  BY DEF Line
<1>. QED  BY <1>1, OrderKept

\* The number of workers, the number of shards and the bound are numbers.
LEMMA Numbers == /\ Cardinality(Workers) \in Nat /\ NShards \in Nat \ {0} /\ MaxSent \in Nat
                 /\ 0 \in Shards /\ NoSession \notin Sessions
                 /\ \A i \in Sessions \cup {0} : i \in Nat /\ Shard(i) \in Shards
<1>1. Cardinality(Workers) \in Nat
  BY ShardAssumption, FS_CardinalityType
<1>. QED  BY <1>1, ShardAssumption, ShardInRange DEF Shards

\* A worker pushes a packet at the end of the line of the session's shard, and owes it a
\* notification.
LEMMA PacketStep ==
  ASSUME IInv, NEW w \in Workers, NEW i \in Sessions, Packet(w, i)
  PROVE  IInv'
<1>. DEFINE m == Client(i, sent[i] + 1)
<1>. USE Numbers DEF IInv
<1>1. sent[i] \in Nat /\ sent[i] + 1 \in 0..MaxSent
  <2>1. sent[i] \in 0..MaxSent
    BY DEF TypeOK
  <2>. QED  BY <2>1 DEF Packet
<1>2. m \in Messages /\ m.to = i /\ m.n = sent[i] + 1 /\ m.n # 0
  BY <1>1 DEF Messages, Client
<1>3. TypeOK'
  <2>1. queue' \in [Shards -> Seq(Messages)]
    <3>1. Append(queue[Shard(i)], m) \in Seq(Messages)
      BY <1>2 DEF TypeOK
    <3>. QED  BY <3>1 DEF Packet, Push, TypeOK
  <2>2. sent' \in [Sessions -> 0..MaxSent]
    BY <1>1 DEF Packet, TypeOK
  <2>. QED  BY <2>1, <2>2 DEF Packet, stopper, TypeOK
<1>4. HandOK'
  BY DEF Packet, HandOK
<1>5. NoLostWakeup'
  <2>1. pushing'[w] = i /\ i # NoSession /\ \A v \in Workers : v # w => pushing'[v] = pushing[v]
    BY DEF Packet, TypeOK
  <2>2. NotifyDue(Shard(i))'
    BY <2>1 DEF NotifyDue
  <2>3. ASSUME NEW s \in Shards, s # Shard(i), con[s] = "wait", Ready(s)' PROVE NotifyDue(s)'
    <3>1. NotifyDue(s)
      BY <2>3 DEF Packet, Push, stopper, Ready, NoLostWakeup, TypeOK
    <3>. QED  BY <2>1, <3>1 DEF NotifyDue, Packet, stopper
  <2>. QED  BY <2>2, <2>3 DEF NoLostWakeup, Packet
<1>6. SessionOrder'
  <2>1. \A r \in Shards : Line(r)' = IF r = Shard(i) THEN Append(Line(r), m) ELSE Line(r)
    BY <1>2, PushLine DEF Packet
  <2>. QED  BY <1>2, <2>1, OrderPushed DEF Packet
<1>. QED  BY <1>3, <1>4, <1>5, <1>6

\* A worker notifies the consumer of the shard it has pushed on: nobody waits there now.
LEMMA NotifyPacketStep ==
  ASSUME IInv, NEW w \in Workers, NotifyPacket(w)
  PROVE  IInv'
<1>. USE Numbers DEF IInv
<1>0. Shard(pushing[w]) \in Shards
  BY DEF NotifyPacket, TypeOK
<1>1. TypeOK'
  BY <1>0 DEF NotifyPacket, Notify, stopper, TypeOK
<1>2. \A s \in Shards : /\ con'[s] = "wait" => con[s] = "wait" /\ s # Shard(pushing[w])
                        /\ con[s] # "wait" => con'[s] = con[s]
                        /\ con[s] = "wait" => con'[s] \in {"wait", "pop"}
  BY <1>0 DEF NotifyPacket, Notify, TypeOK
<1>3. HandOK'
  BY <1>2 DEF NotifyPacket, HandOK
<1>4. NoLostWakeup'
  <2>1. \A v \in Workers : v # w => pushing'[v] = pushing[v]
    BY DEF NotifyPacket, TypeOK
  <2>2. ASSUME NEW s \in Shards, con'[s] = "wait", Ready(s)' PROVE NotifyDue(s)'
    <3>1. NotifyDue(s) /\ s # Shard(pushing[w])
      BY <1>2, <2>2 DEF NotifyPacket, stopper, Ready, NoLostWakeup
    <3>. QED  BY <1>2, <2>1, <3>1 DEF NotifyDue, NotifyPacket, stopper
  <2>. QED  BY <2>2 DEF NoLostWakeup
<1>5. SessionOrder'
  BY OrderUntouched DEF NotifyPacket
<1>. QED  BY <1>1, <1>3, <1>4, <1>5

\* A worker leaves its loop.
LEMMA QuitStep ==
  ASSUME IInv, NEW w \in Workers, Quit(w)
  PROVE  IInv'
<1>. USE Numbers DEF IInv
<1>1. quits' \in 0..Cardinality(Workers)
  BY DEF Quit, TypeOK
<1>2. TypeOK'
  BY <1>1 DEF Quit, worker, TypeOK
<1>3. HandOK' /\ NoLostWakeup'
  BY DEF Quit, worker, HandOK, NoLostWakeup, NotifyDue, Ready
<1>4. SessionOrder'
  BY OrderUntouched DEF Quit, worker
<1>. QED  BY <1>2, <1>3, <1>4

\* The consumer's own steps in Pop, the message in hand untouched: it waits only when there
\* is nothing to wake it up for.
LEMMA PopStep ==
  ASSUME IInv, NEW s \in Shards, Wait(s) \/ SpuriousWake(s) \/ Exit(s)
  PROVE  IInv'
<1>. USE DEF IInv
<1>1. /\ con' = [con EXCEPT ![s] = con'[s]] /\ con'[s] \in {"wait", "pop", "exit"}
      /\ con[s] \in {"pop", "wait"} /\ (con'[s] = "wait" => ~Ready(s))
      /\ UNCHANGED <<queue, hand, posted, worker, handled, stopper>>
  BY DEF Wait, SpuriousWake, Exit, TypeOK
<1>2. TypeOK'
  BY <1>1 DEF worker, stopper, TypeOK
<1>3. HandOK'
  BY <1>1 DEF HandOK, TypeOK
<1>4. NoLostWakeup'
  <2>1. ASSUME NEW r \in Shards, con'[r] = "wait", Ready(r)' PROVE NotifyDue(r)'
    <3>1. r # s /\ con[r] = "wait" /\ Ready(r)
      BY <1>1, <2>1 DEF Ready, stopper, TypeOK
    <3>2. NotifyDue(r)
      BY <3>1 DEF NoLostWakeup
    <3>. QED  BY <1>1, <3>2 DEF NotifyDue, worker, stopper, TypeOK
  <2>. QED  BY <2>1 DEF NoLostWakeup
<1>5. SessionOrder'
  BY <1>1, OrderUntouched DEF worker
<1>. QED  BY <1>2, <1>3, <1>4, <1>5

\* Take: the head of the queue is in hand now.
LEMMA TakeStep ==
  ASSUME IInv, NEW s \in Shards, Take(s)
  PROVE  IInv'
<1>. USE DEF IInv
<1>1. /\ con[s] = "pop" /\ hand[s] = <<>> /\ queue[s] # <<>> /\ queue[s] \in Seq(Messages)
      /\ Head(queue[s]) \in Messages /\ Tail(queue[s]) \in Seq(Messages)
  <2>1. con[s] = "pop" /\ hand[s] = <<>> /\ queue[s] # <<>> /\ queue[s] \in Seq(Messages)
    BY DEF Take, TypeOK, HandOK
  <2>. QED  BY <2>1
<1>2. /\ con' = [con EXCEPT ![s] = "handle"] /\ hand' = [hand EXCEPT ![s] = <<Head(queue[s])>>]
      /\ queue' = [queue EXCEPT ![s] = Tail(@)]
      /\ UNCHANGED <<posted, worker, handled, stopper>>
  BY DEF Take
<1>3. TypeOK'
  BY <1>1, <1>2 DEF worker, stopper, TypeOK
<1>4. HandOK'
  BY <1>1, <1>2 DEF HandOK, TypeOK
<1>5. NoLostWakeup'
  <2>1. ASSUME NEW r \in Shards, con'[r] = "wait", Ready(r)' PROVE NotifyDue(r)'
    <3>1. r # s /\ con[r] = "wait" /\ Ready(r)
      BY <1>2, <2>1 DEF Ready, stopper, TypeOK
    <3>2. NotifyDue(r)
      BY <3>1 DEF NoLostWakeup
    <3>. QED  BY <1>1, <1>2, <3>2 DEF NotifyDue, worker, stopper, TypeOK
  <2>. QED  BY <2>1 DEF NoLostWakeup
<1>6. SessionOrder'
  <2>1. \A r \in Shards : Line(r)' = Line(r)
    BY <1>1, <1>2, TakeLine
  <2>. QED  BY <1>2, <2>1, OrderKept DEF worker
<1>. QED  BY <1>3, <1>4, <1>5, <1>6

\* The consumer is done with its message, after the notification it may owe.
LEMMA DoneStep ==
  ASSUME IInv, NEW s \in Shards, Handle(s) \/ NotifyTrade(s)
  PROVE  IInv'
<1>. USE Numbers DEF IInv
<1>1. /\ con[s] \in {"handle", "notify"} /\ hand[s] # <<>> /\ Done(s)
      /\ UNCHANGED <<queue, worker, stopper>>
  BY DEF Handle, NotifyTrade, HandOK
<1>2. /\ con'[s] = "pop" /\ con' \in [Shards -> {"pop", "wait", "handle", "notify", "exit"}]
      /\ posted' \in [Shards -> Shards]
      /\ \A r \in Shards \ {s} :
           /\ posted'[r] = posted[r]
           /\ con'[r] = con[r] \/ (con[r] = "wait" /\ con'[r] = "pop")
           /\ con'[r] = "wait" => ~(con[s] = "notify" /\ posted[s] = r)
  <2>0. /\ con \in [Shards -> {"pop", "wait", "handle", "notify", "exit"}]
        /\ posted \in [Shards -> Shards]
    BY DEF TypeOK
  <2>1. CASE Handle(s)
    BY <2>0, <2>1 DEF Handle
  <2>2. CASE NotifyTrade(s)
    BY <2>0, <2>2 DEF NotifyTrade
  <2>. QED  BY <2>1, <2>2
<1>3. hand' = [hand EXCEPT ![s] = <<>>]
  BY <1>1 DEF Done
<1>4. SessionOrder' /\ handled' \in [Sessions -> 0..MaxSent]
  BY <1>1, OrderDone DEF worker
<1>5. TypeOK'
  BY <1>1, <1>2, <1>3, <1>4 DEF worker, stopper, TypeOK
<1>6. HandOK'
  BY <1>2, <1>3 DEF HandOK, TypeOK
<1>7. NoLostWakeup'
  <2>1. ASSUME NEW r \in Shards, con'[r] = "wait", Ready(r)' PROVE NotifyDue(r)'
    <3>1. /\ r # s /\ con[r] = "wait" /\ Ready(r) /\ ~(con[s] = "notify" /\ posted[s] = r)
      BY <1>1, <1>2, <2>1 DEF Ready, stopper
    <3>2. NotifyDue(r)
      BY <3>1 DEF NoLostWakeup
    <3>3. ASSUME NEW q \in Shards, con[q] = "notify", posted[q] = r
          PROVE  con'[q] = "notify" /\ posted'[q] = r
      BY <1>2, <3>1, <3>3
    <3>. QED  BY <1>1, <3>2, <3>3 DEF NotifyDue, worker, stopper
  <2>. QED  BY <2>1 DEF NoLostWakeup
<1>. QED  BY <1>4, <1>5, <1>6, <1>7

\* A trade command pushes on another shard, which may be its own, and owes it a notification.
LEMMA HandleTradeStep ==
  ASSUME IInv, NEW s \in Shards, HandleTrade(s)
  PROVE  IInv'
<1>. USE Numbers DEF IInv
<1>1. PICK i \in Sessions \cup {0} :
        Push(Shard(i), Trade(i)) /\ posted' = [posted EXCEPT ![s] = Shard(i)]
  BY DEF HandleTrade
<1>2. /\ con[s] = "handle" /\ hand[s] # <<>> /\ hand[s][1].n # 0
      /\ con' = [con EXCEPT ![s] = "notify"]
      /\ UNCHANGED <<hand, worker, handled, stopper>>
  BY DEF HandleTrade, HandOK
<1>3. Trade(i) \in Messages /\ Trade(i).n = 0
  BY DEF Trade, Messages
<1>4. TypeOK'
  <2>1. queue' \in [Shards -> Seq(Messages)]
    <3>1. Append(queue[Shard(i)], Trade(i)) \in Seq(Messages)
      BY <1>3 DEF TypeOK
    <3>. QED  BY <1>1, <3>1 DEF Push, TypeOK
  <2>. QED  BY <1>1, <1>2, <2>1 DEF worker, stopper, TypeOK
<1>5. HandOK'
  BY <1>2 DEF HandOK, TypeOK
<1>6. NoLostWakeup'
  <2>1. /\ con'[s] = "notify" /\ posted'[s] = Shard(i)
        /\ \A r \in Shards \ {s} : con'[r] = con[r] /\ posted'[r] = posted[r]
    BY <1>1, <1>2 DEF TypeOK
  <2>2. NotifyDue(Shard(i))'
    BY <2>1 DEF NotifyDue
  <2>3. ASSUME NEW r \in Shards, r # Shard(i), con'[r] = "wait", Ready(r)' PROVE NotifyDue(r)'
    <3>1. NotifyDue(r)
      BY <1>1, <1>2, <2>1, <2>3 DEF Push, stopper, Ready, NoLostWakeup, TypeOK
    <3>. QED  BY <1>2, <2>1, <3>1 DEF NotifyDue, worker, stopper
  <2>. QED  BY <2>2, <2>3 DEF NoLostWakeup
<1>7. SessionOrder'
  <2>1. \A r \in Shards : Line(r)' = IF r = Shard(i) THEN Append(Line(r), Trade(i)) ELSE Line(r)
    BY <1>1, <1>2, <1>3, PushLine
  <2>. QED  BY <1>2, <1>3, <2>1, OrderPushed DEF worker
<1>. QED  BY <1>4, <1>5, <1>6, <1>7

\* The main thread's steps: StopQueue owes a notification, which NotifyStop pays.
LEMMA MainStep ==
  ASSUME IInv, BeginStop \/ Stop
  PROVE  IInv'
<1>. USE Numbers DEF IInv
<1>1. UNCHANGED <<queue, hand, posted, worker, handled, out>>
  BY DEF BeginStop, Stop, StopQueue, NotifyStop, Join, StopCore, JoinWorkers
<1>2. SessionOrder'
  BY <1>1, OrderUntouched DEF worker
<1>3. TypeOK'
  <2>1. CASE BeginStop
    BY <2>1 DEF BeginStop, worker, TypeOK
  <2>2. CASE StopQueue
    BY <2>2 DEF StopQueue, worker, TypeOK
  <2>3. CASE NotifyStop
    BY <2>3 DEF NotifyStop, Notify, worker, TypeOK
  <2>4. CASE Join
    <3>1. at' \in Shards
      BY <2>4 DEF Join, TypeOK, Shards
    <3>. QED  BY <2>4, <3>1 DEF Join, worker, TypeOK
  <2>5. CASE StopCore
    BY <2>5 DEF StopCore, worker, TypeOK
  <2>6. CASE JoinWorkers
    BY <2>6 DEF JoinWorkers, worker, TypeOK
  <2>. QED  BY <2>1, <2>2, <2>3, <2>4, <2>5, <2>6 DEF Stop
<1>4. HandOK' /\ NoLostWakeup'
  <2>1. CASE BeginStop \/ Join \/ StopCore \/ JoinWorkers
    <3>1. main # "notify" /\ UNCHANGED <<con, stopping>>
      BY <2>1 DEF BeginStop, Join, StopCore, JoinWorkers
    <3>. QED  BY <1>1, <3>1 DEF HandOK, NoLostWakeup, NotifyDue, Ready, worker
  <2>2. CASE StopQueue
    <3>1. /\ main' = "notify" /\ main = "stop" /\ UNCHANGED <<con, at>>
          /\ \A r \in Shards \ {at} : stopping'[r] = stopping[r]
      BY <2>2 DEF StopQueue, TypeOK
    <3>2. ASSUME NEW r \in Shards, con'[r] = "wait", Ready(r)' PROVE NotifyDue(r)'
      <4>1. CASE r = at
        BY <3>1, <4>1 DEF NotifyDue
      <4>2. CASE r # at
        BY <1>1, <3>1, <3>2, <4>2 DEF NotifyDue, NoLostWakeup, Ready, worker
      <4>. QED  BY <4>1, <4>2
    <3>. QED  BY <1>1, <3>1, <3>2 DEF HandOK, NoLostWakeup
  <2>3. CASE NotifyStop
    <3>1. /\ UNCHANGED stopping /\ con'[at] # "wait"
          /\ \A r \in Shards : con'[r] = con[r] \/ (con[r] = "wait" /\ con'[r] = "pop")
          /\ \A r \in Shards \ {at} : con'[r] = con[r]
      <4>1. con \in [Shards -> {"pop", "wait", "handle", "notify", "exit"}] /\ at \in Shards
        BY DEF TypeOK
      <4>2. con' = [con EXCEPT ![at] = IF @ = "wait" THEN "pop" ELSE @] /\ UNCHANGED stopping
        BY <2>3 DEF NotifyStop, Notify
      <4>. QED  BY <4>1, <4>2
    <3>2. HandOK'
      BY <1>1, <3>1 DEF HandOK
    <3>3. ASSUME NEW r \in Shards, con'[r] = "wait", Ready(r)' PROVE NotifyDue(r)'
      <4>1. r # at /\ con[r] = "wait" /\ NotifyDue(r)
        BY <1>1, <3>1, <3>3 DEF NoLostWakeup, Ready
      <4>2. \A q \in Shards : con[q] = "notify" => con'[q] = "notify"
        BY <3>1
      <4>. QED  BY <1>1, <4>1, <4>2 DEF NotifyDue, worker
    <3>. QED  BY <3>2, <3>3 DEF NoLostWakeup
  <2>. QED  BY <2>1, <2>2, <2>3 DEF Stop
<1>. QED  BY <1>2, <1>3, <1>4

-----------------------------------------------------------------------------
\* At the start every consumer is about to look at its empty queue.
LEMMA InitInvariant == Init => IInv
<1>. SUFFICES ASSUME Init PROVE IInv
  OBVIOUS
<1>1. TypeOK
  <2>1. 0 \in 0..MaxSent /\ 0 \in 0..Cardinality(Workers)
    BY Numbers
  <2>. QED  BY <2>1, Numbers DEF Init, TypeOK
<1>2. HandOK /\ NoLostWakeup
  BY DEF Init, HandOK, NoLostWakeup
<1>3. SessionOrder
  <2>1. \A s \in Shards : Line(s) = <<>>
    BY DEF Init, Line
  <2>2. \A i \in Sessions : handled[i] = 0 /\ sent[i] = 0
    BY DEF Init
  <2>. QED  BY <2>1, <2>2 DEF SessionOrder
<1>. QED  BY <1>1, <1>2, <1>3 DEF IInv

\* Every step keeps the invariant.
LEMMA NextInvariant == IInv /\ [Next]_vars => IInv'
<1>. SUFFICES ASSUME IInv, [Next]_vars PROVE IInv'
  OBVIOUS
<1>1. CASE \E w \in Workers, i \in Sessions : Packet(w, i)
  BY <1>1, PacketStep
<1>2. CASE \E w \in Workers : NotifyPacket(w) \/ Quit(w)
  BY <1>2, NotifyPacketStep, QuitStep
<1>3. CASE \E s \in Shards : Consume(s) \/ SpuriousWake(s)
  BY <1>3, PopStep, TakeStep, DoneStep, HandleTradeStep DEF Consume
<1>4. CASE BeginStop \/ Stop
  BY <1>4, MainStep
<1>5. CASE UNCHANGED vars
  <2>1. SessionOrder'
    BY <1>5, OrderUntouched DEF vars, IInv
  <2>. QED  BY <1>5, <2>1 DEF vars, IInv, TypeOK, HandOK, NoLostWakeup, NotifyDue, Ready
<1>. QED  BY <1>1, <1>2, <1>3, <1>4, <1>5 DEF Next

\* The inductive invariant holds in every reachable state.
LEMMA Invariant == Spec => []IInv
BY InitInvariant, NextInvariant, PTL DEF Spec

\* Types: in particular no counter of a session passes what it sent, and no consumer has
\* more than one message in hand.
THEOREM ShardTypes == Spec => []TypeOK
<1>1. IInv => TypeOK
  BY DEF IInv
<1>. QED  BY <1>1, Invariant, PTL

\* MPMCQueue::Push and Stop notify after they have let go of mutex_, and a consumer that
\* Pop put to sleep may be woken for nothing: even so no consumer sleeps on work while
\* nobody is about to notify it.
THEOREM NoWakeupIsLost == Spec => []NoLostWakeup
<1>1. IInv => NoLostWakeup
  BY DEF IInv
<1>. QED  BY <1>1, Invariant, PTL

\* The packets of a session go through one shard and are handled in the order they were
\* received, none lost and none twice, whatever the other sessions, the trade messages
\* between shards and a shutdown in the middle do.
THEOREM PacketsInOrder == Spec => []SessionOrder
<1>1. IInv => SessionOrder
  BY DEF IInv
<1>. QED  BY <1>1, Invariant, PTL

\* With an empty line a shard has handled all that its sessions sent.
LEMMA NothingLeft ==
  ASSUME TypeOK, SessionOrder, NEW s \in Shards, Line(s) = <<>>,
         NEW i \in Sessions, Shard(i) = s
  PROVE  handled[i] = sent[i]
<1>1. handled[i] \in Nat /\ sent[i] \in Nat /\ handled[i] <= sent[i]
  BY ShardAssumption DEF TypeOK, SessionOrder
<1>2. ASSUME handled[i] < sent[i] PROVE FALSE
  <2>1. sent[i] \in (handled[i] + 1)..sent[i]
    BY <1>1, <1>2
  <2>2. \E k \in 1..Len(Line(s)) : Line(s)[k] = Client(i, sent[i])
    BY <2>1 DEF SessionOrder
  <2>. QED  BY <2>2
<1>. QED  BY <1>1, <1>2

\* A consumer thread ends only when it was told to, with every packet that its sessions
\* have sent handled (MPMCQueue::Pop, Consumer::Loop).
THEOREM ConsumersEndDrained == Spec => EndsDrained
<1>1. ASSUME IInv, [Next]_vars, NEW s \in Shards, con[s] # "exit", con'[s] = "exit"
      PROVE  stopping[s] /\ \A i \in Sessions : Shard(i) = s => handled[i] = sent[i]
  <2>. USE DEF IInv
  <2>1. CASE \E r \in Shards : Exit(r)
    <3>1. PICK r \in Shards : Exit(r)
      BY <2>1
    <3>2. r = s
      BY <1>1, <3>1 DEF Exit, TypeOK
    <3>3. stopping[s] /\ queue[s] = <<>> /\ hand[s] = <<>>
      BY <1>1, <3>1, <3>2 DEF Exit, Ready, HandOK
    <3>4. Line(s) = <<>>
      BY <1>1, <3>3, LineOfQueue
    <3>. QED  BY <1>1, <3>3, <3>4, NothingLeft
  <2>2. CASE ~\E r \in Shards : Exit(r)
    <3>1. ASSUME NEW r \in Shards, Consume(r) \/ SpuriousWake(r) PROVE con'[s] # "exit"
      BY <1>1, <2>2, <3>1 DEF Consume, Wait, SpuriousWake, Take, Handle, HandleTrade,
                              NotifyTrade, TypeOK
    <3>2. ASSUME NEW w \in Workers, NotifyPacket(w) \/ Quit(w) PROVE con'[s] # "exit"
      BY <1>1, <3>2 DEF NotifyPacket, Notify, Quit, TypeOK
    <3>3. ASSUME BeginStop \/ Stop PROVE con'[s] # "exit"
      BY <1>1, <3>3 DEF BeginStop, Stop, StopQueue, NotifyStop, Notify, Join, StopCore,
                        JoinWorkers, TypeOK
    <3>4. ASSUME NEW w \in Workers, NEW i \in Sessions, Packet(w, i) PROVE con'[s] # "exit"
      BY <1>1, <3>4 DEF Packet
    <3>. QED  BY <1>1, <3>1, <3>2, <3>3, <3>4 DEF Next, vars
  <2>. QED  BY <2>1, <2>2
<1>2. IInv /\ [Next]_vars =>
        [\A s \in Shards : con[s] # "exit" /\ con'[s] = "exit" =>
           stopping[s] /\ \A i \in Sessions : Shard(i) = s => handled[i] = sent[i]]_vars
  BY <1>1
<1>. QED  BY <1>2, Invariant, PTL DEF Spec, EndsDrained
=============================================================================
