---------------------------- MODULE Leaderboard ----------------------------
(***************************************************************************)
(* The ranking: a sorted set and a name hash in Redis, beside the database *)
(* that has the truth. A consumer writes a total after the transaction     *)
(* that changed it and a name at login; the ranking commands read with two *)
(* or three round trips, between which others write; main rebuilds both    *)
(* keys when the server starts. Every Redis call may fail, which Ranking   *)
(* logs and forgets. A call that fails after Redis has done it is, for     *)
(* this code, one that succeeds.                                           *)
(***************************************************************************)
EXTENDS Totals, SequencesExt, FiniteSetsExt

CONSTANTS
  Users,      \* user ids, in the order Redis gives to members of equal score
  Consumers,
  Readers,    \* bound: the consumers that are asked for the ranking. One that reads
              \* changes nothing the others see, so a single reader is enough
  Gains,      \* what one transaction may add to the power of a user
  MaxPower,   \* bound: total power of a user
  TopN,       \* rows of /r: 20
  Span,       \* rows before and after one's own: SPAN, 5
  HeadBytes, RowBytes, UnknownBytes,   \* bytes of a heading, of a row, of a row without name
  MaxBody,    \* bytes of Packet::message
  NoConsumer, Unranked

ASSUME LeaderboardAssumption ==
  /\ Users \subseteq Nat /\ IsFiniteSet(Users) /\ Gains \subseteq Nat /\ MaxPower \in Nat
  /\ TopN \in Nat \ {0} /\ Span \in Nat
  /\ MaxBody \in Nat /\ {HeadBytes, RowBytes, UnknownBytes} \subseteq 1..MaxBody
  /\ Readers \subseteq Consumers /\ NoConsumer \notin Consumers /\ Unranked \notin Nat

VARIABLES
  power,      \* SUM(power) of the items of each user; 0: he has none
  score,      \* lb:power
  named,      \* the users that have a field in user:name
  missed,     \* the users whose last score was not written
  nameless,   \* the users whose name was not written since
  crossed,    \* the users whose last total was computed while another consumer was
              \* about to write an earlier one
  home,       \* the consumer of the user's session
  th          \* what each consumer does

vars == <<power, score, named, missed, nameless, crossed, home, th>>
redis == <<score, named, missed, nameless>>

Idle == [pc |-> "idle", user |-> 0, total |-> 0, rank |-> -1, rows |-> <<>>, lines |-> <<>>]

Init == /\ power = [u \in Users |-> 0] /\ score = [u \in Users |-> Unranked]
        /\ named = {} /\ missed = {} /\ nameless = {} /\ crossed = {}
        /\ home = [u \in Users |-> NoConsumer] /\ th = [c \in Consumers |-> Idle]

-----------------------------------------------------------------------------
At(c, pc) == th[c].pc = pc
Finish(c) == th' = [th EXCEPT ![c] = Idle]
Begin(c, pc, u) == th' = [th EXCEPT ![c] = [Idle EXCEPT !.pc = pc, !.user = u]]

\* The sorted set from the highest score down, and its part from start to stop:
\* a negative index counts from the end.
Above(u) == {v \in Users : /\ score[v] # Unranked
                           /\ score[v] > score[u] \/ (score[v] = score[u] /\ v > u)}

Board == LET ranked == {u \in Users : score[u] # Unranked} IN
         [k \in 1..Cardinality(ranked) |->
            CHOOSE u \in ranked : Cardinality(Above(u)) = k - 1]

ZRevRange(start, stop) ==
  LET n == Len(Board)
      Index(i) == IF i < 0 THEN Max({0, n + i}) ELSE i
  IN  [k \in 1..Max({0, Min({Index(stop), n - 1}) - Index(start) + 1}) |->
         Board[Index(start) + k]]

RankNow(u) == IF score[u] = Unranked THEN -1 ELSE Cardinality(Above(u))

-----------------------------------------------------------------------------
\* HandleNick, from SetUserId to Ranking::SetName. A user who is back may be on another
\* consumer, while the old one is still in a command for him.
Login(c, u) ==
  /\ At(c, "idle") /\ home[u] = NoConsumer
  /\ home' = [home EXCEPT ![u] = c]
  /\ \/ named' = named \cup {u} /\ nameless' = nameless \ {u}
     \/ nameless' = nameless \cup {u} /\ UNCHANGED named
  /\ UNCHANGED <<power, score, missed, crossed, th>>

Disconnect(u) ==
  /\ home[u] # NoConsumer
  /\ home' = [home EXCEPT ![u] = NoConsumer]
  /\ UNCHANGED <<power, redis, crossed, th>>

Writes(c, u) == At(c, "update") /\ th[c].user = u

\* DropItem, or EnhanceItem with success: the total is read in the transaction. It may
\* be what it was (ROUND), and is not 0: the user has an item now.
Commit(c, u) ==
  /\ At(c, "idle") /\ home[u] = c
  /\ \E g \in Gains :
       /\ power[u] + g \in 1..MaxPower
       /\ power' = [power EXCEPT ![u] = @ + g]
       /\ th' = [th EXCEPT ![c] = [Idle EXCEPT !.pc = "update", !.user = u,
                                               !.total = power[u] + g]]
  /\ crossed' = IF \E d \in Consumers \ {c} : Writes(d, u) THEN crossed \cup {u}
                                                         ELSE crossed \ {u}
  /\ UNCHANGED <<redis, home>>

UpdateAdds(c) ==
  /\ At(c, "update")
  /\ LET u == th[c].user IN
     score' = [score EXCEPT ![u] = th[c].total + IF @ = Unranked THEN 0 ELSE @]
  /\ Finish(c)
  /\ UNCHANGED <<power, named, missed, nameless, crossed, home>>

\* Ranking::Update: ZADD.
Update(c) ==
  /\ At(c, "update")
  /\ LET u == th[c].user IN
     \/ score' = [score EXCEPT ![u] = th[c].total] /\ missed' = missed \ {u}
     \/ missed' = missed \cup {u} /\ UNCHANGED score
  /\ Finish(c)
  /\ UNCHANGED <<power, named, nameless, crossed, home>>

-----------------------------------------------------------------------------
\* /r and /r me.
ShowRanker(c, u) ==
  /\ c \in Readers /\ At(c, "idle") /\ home[u] = c
  /\ Begin(c, "top", u)
  /\ UNCHANGED <<power, redis, crossed, home>>

ShowMyRank(c, u) ==
  /\ c \in Readers /\ At(c, "idle") /\ home[u] = c
  /\ Begin(c, "rank_of", u)
  /\ UNCHANGED <<power, redis, crossed, home>>

\* RankOf: ZREVRANK. A failure, or no rank, is answered "not ranked yet".
RankOf(c) ==
  /\ At(c, "rank_of")
  /\ LET rank == RankNow(th[c].user) IN
     \/ rank >= 0 /\ th' = [th EXCEPT ![c].pc = "top", ![c].rank = rank]
     \/ Finish(c)
  /\ UNCHANGED <<power, redis, crossed, home>>

FirstUnclipped(rank) == IF rank < 0 THEN 0 ELSE rank - Span

\* The first row asked for: /r has no rank of its own (-1) and asks from the top.
First(rank) == Max({0, rank - Span})

\* The lines of a reply by their length, a heading first.
Lines(rows) == <<HeadBytes>> \o
               [k \in DOMAIN rows |-> IF rows[k] \in named THEN RowBytes ELSE UnknownBytes]

AnswerWith(c, rows) ==
  th' = [th EXCEPT ![c] = [Idle EXCEPT !.pc = "reply", !.user = th[c].user,
                                       !.lines = Lines(rows)]]

\* Top returned no rows: /r says the ranking is empty, /r me sends its heading alone.
AnswerEmpty(c) == IF th[c].rank < 0 THEN Finish(c) ELSE AnswerWith(c, <<>>)

\* Top, first trip: ZREVRANGE.
Top(c) ==
  /\ At(c, "top")
  /\ LET rank == th[c].rank
         rows == ZRevRange(First(rank), IF rank < 0 THEN TopN - 1 ELSE rank + Span)
     IN \/ rows # <<>> /\ th' = [th EXCEPT ![c].pc = "names", ![c].rows = rows]
        \/ AnswerEmpty(c)
  /\ UNCHANGED <<power, redis, crossed, home>>

\* Top, second trip: HMGET. When it fails, Top returns no rows at all.
Names(c) ==
  /\ At(c, "names")
  /\ AnswerWith(c, th[c].rows) \/ AnswerEmpty(c)
  /\ UNCHANGED <<power, redis, crossed, home>>

Bytes(body) == Total(body)

AddLineLosing(out, line) ==
  IF Bytes(Last(out)) + line > MaxBody THEN Append(out, <<>>)
                                       ELSE Append(Front(out), Append(Last(out), line))

\* A line that does not fit starts the next packet.
AddLine(out, line) ==
  IF Bytes(Last(out)) + line > MaxBody THEN Append(out, <<line>>)
                                       ELSE Append(Front(out), Append(Last(out), line))

\* What SendError is called with: the loop adds one line after the other.
Packets(lines) ==
  LET upto[k \in 0..Len(lines)] == IF k = 0 THEN << <<>> >>
                                            ELSE AddLine(upto[k - 1], lines[k])
  IN  upto[Len(lines)]

Reply(c) ==
  /\ At(c, "reply")
  /\ Finish(c)
  /\ UNCHANGED <<power, redis, crossed, home>>

-----------------------------------------------------------------------------
Ranked == {u \in Users : power[u] > 0}    \* the rows of GetAllPower

RestartOnly ==
  /\ home' = [u \in Users |-> NoConsumer] /\ th' = [c \in Consumers |-> Idle]
  /\ crossed' = {} /\ UNCHANGED <<power, redis>>

RestartUnnamed ==
  /\ home' = [u \in Users |-> NoConsumer] /\ th' = [c \in Consumers |-> Idle]
  /\ score' = [u \in Users |-> IF u \in Ranked THEN power[u] ELSE Unranked]
  /\ named' = {}
  /\ missed' = {} /\ nameless' = {} /\ crossed' = {} /\ UNCHANGED power

\* A crash and the next start: main reads all totals and Rebuild sends DEL, DEL,
\* ZADD and HMSET (the first two, when there is nothing to add) before there is a
\* session. Redis may be gone after any number of them; the server starts anyway.
Restart ==
  /\ home' = [u \in Users |-> NoConsumer] /\ th' = [c \in Consumers |-> Idle]
  /\ \E done \in 0..4 :
       /\ score' = CASE done = 0 -> score
                     [] done \in {1, 2} -> [u \in Users |-> Unranked]
                     [] OTHER -> [u \in Users |-> IF u \in Ranked THEN power[u] ELSE Unranked]
       /\ named' = CASE done < 2 -> named [] done \in {2, 3} -> {} [] OTHER -> Ranked
       /\ missed' = IF done < 3 THEN Users ELSE {}
       /\ nameless' = CASE done < 2 -> nameless [] done \in {2, 3} -> Users [] OTHER -> {}
  /\ crossed' = {} /\ UNCHANGED power

-----------------------------------------------------------------------------
Continue(c) == Update(c) \/ RankOf(c) \/ Top(c) \/ Names(c) \/ Reply(c)

Next == \/ \E c \in Consumers, u \in Users :
             Login(c, u) \/ Commit(c, u) \/ ShowRanker(c, u) \/ ShowMyRank(c, u)
        \/ \E c \in Consumers : Continue(c)
        \/ \E u \in Users : Disconnect(u)
        \/ Restart

Spec == Init /\ [][Next]_vars

-----------------------------------------------------------------------------
\* Every variable stays in its range.
TypeOK ==
  /\ power \in [Users -> 0..MaxPower] /\ score \in [Users -> 0..MaxPower \cup {Unranked}]
  /\ named \subseteq Users /\ missed \subseteq Users /\ nameless \subseteq Users
  /\ crossed \subseteq Users
  /\ home \in [Users -> Consumers \cup {NoConsumer}]
  /\ th \in [Consumers ->
       [pc : {"idle", "update", "rank_of", "top", "names", "reply"},
        user : Users \cup {0}, total : 0..MaxPower, rank : -1..(Cardinality(Users) - 1),
        rows : Seq(Users), lines : Seq({HeadBytes, RowBytes, UnknownBytes})]]

Current(u) == IF power[u] = 0 THEN Unranked ELSE power[u]
Updating(u) == \E c \in Consumers : Writes(c, u) /\ th[c].total = power[u]

\* The score of a user is never more than his items are worth. It is his total power, or
\* a consumer is about to write it, or the last write of it failed, or two consumers had
\* totals of his to write at once: a write that succeeds makes up for all failed ones,
\* a command that nothing crosses for all crossed ones, and the next start for a crash
\* between the transaction and the write.
RankFollows ==
  \A u \in Users : /\ score[u] # Unranked => score[u] <= power[u]
                   /\ \/ score[u] = Current(u) \/ Updating(u)
                      \/ u \in missed \/ u \in crossed

\* What README.md says of the score: it is the present power of the user, unless a write
\* was missed. It fails: two consumers at work for one user may write the older total
\* last.
ScoreIsCurrent == \A u \in Users : score[u] = Current(u) \/ Updating(u) \/ u \in missed

\* A user in the ranking has a name there, unless writing it failed: a rebuild, which
\* names only the users with items, takes no name that will be needed.
NamesKept == \A u \in Users : score[u] # Unranked => u \in named \/ u \in nameless

\* /r me marks the row of the rank it read: if the user still has that rank when the
\* rows are read, the row is there and is his, also at the top of the board, where
\* the window is cut, and with fewer rows than asked for.
OwnRowMarked ==
  [][\A c \in Consumers :
       (At(c, "top") /\ At(c, "names")' /\ th[c].rank >= 0 /\ RankNow(th[c].user) = th[c].rank) =>
         LET k == th[c].rank - First(th[c].rank) + 1
         IN  k \in DOMAIN th'[c].rows /\ th'[c].rows[k] = th[c].user]_vars

\* A reply is cut into packets that MakePacket does not truncate, none is empty, and
\* together they have all lines in order.
ReplyWhole ==
  \A c \in Consumers : At(c, "reply") =>
    LET out == Packets(th[c].lines) IN
    /\ FlattenSeq(out) = th[c].lines
    /\ \A k \in DOMAIN out : out[k] # <<>> /\ Bytes(out[k]) <= MaxBody
=============================================================================
