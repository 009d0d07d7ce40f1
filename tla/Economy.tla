------------------------------ MODULE Economy ------------------------------
(***************************************************************************)
(* What one user owns in the database, gold and items, which chatting and  *)
(* enhancing change. A handler is a sequence of transactions, and other    *)
(* consumers may run between them; all statements name the user's own      *)
(* rows, so one user is enough. The program may crash between any two. The *)
(* total power that a handler goes on to publish is Leaderboard's subject. *)
(***************************************************************************)
EXTENDS Totals

CONSTANTS
  Consumers,
  Rewards,     \* the gold one line of chat may earn
  Mults,       \* a success multiplies the power by so many hundredths: 120 to 125
  DropPower,   \* the power of a new item
  IntMax,      \* the largest value of the power column: 2^31 - 1
  PriceUnit,   \* the price of level n + 1 is PriceUnit * (n + 1)
  MaxItems, MaxEarned,   \* bounds: items dropped, gold earned
  NoConsumer

ASSUME EconomyAssumption ==
  /\ Rewards \subseteq Nat /\ Mults \subseteq Nat /\ IntMax \in Nat /\ DropPower \in 0..IntMax
  /\ PriceUnit \in Nat \ {0} /\ MaxItems \in Nat /\ MaxEarned \in Nat
  /\ NoConsumer \notin Consumers

VARIABLES
  gold,     \* users.gold
  items,    \* the user's rows of items
  home,     \* the consumer of the user's session
  th,       \* what each consumer does
  earned    \* the gold earned so far

vars == <<gold, items, home, th, earned>>

Idle == [pc |-> "idle", item |-> 0, price |-> 0]

Init == /\ gold = 0 /\ items = <<>>
        /\ home = NoConsumer /\ th = [c \in Consumers |-> Idle] /\ earned = 0

-----------------------------------------------------------------------------
At(c, pc) == th[c].pc = pc
Goto(c, pc) == th' = [th EXCEPT ![c].pc = pc]
Finish(c) == th' = [th EXCEPT ![c] = Idle]

\* The user may be back on another consumer before the consumer of the old session is
\* done with a command: nobody makes him wait.
Connect(c) ==
  /\ home = NoConsumer
  /\ home' = c
  /\ UNCHANGED <<gold, items, th, earned>>

\* The session is gone; a consumer in a command already has the user id.
Disconnect ==
  /\ home # NoConsumer
  /\ home' = NoConsumer
  /\ UNCHANGED <<gold, items, th, earned>>

\* RewardChat and HandleEnhance up to GetUserId.
Chat(c) ==
  /\ At(c, "idle") /\ home = c
  /\ Goto(c, "gold")
  /\ UNCHANGED <<gold, items, home, earned>>

Enhance(c) ==
  /\ At(c, "idle") /\ home = c
  /\ \E i \in 1..MaxItems : th' = [th EXCEPT ![c] = [Idle EXCEPT !.pc = "item", !.item = i]]
  /\ UNCHANGED <<gold, items, home, earned>>

\* One line in fifty drops an item as well.
AddGold(c) ==
  /\ At(c, "gold")
  /\ \E n \in Rewards : /\ earned + n <= MaxEarned
                        /\ gold' = gold + n /\ earned' = earned + n
  /\ Goto(c, "drop") \/ Finish(c)
  /\ UNCHANGED <<items, home>>

DropItem(c) ==
  /\ At(c, "drop") /\ Len(items) < MaxItems
  /\ items' = Append(items, [level |-> 0, power |-> DropPower])
  /\ Finish(c)
  /\ UNCHANGED <<gold, home, earned>>

GetItemFree(c) ==
  /\ At(c, "item")
  /\ LET i == th[c].item IN
     th' = [th EXCEPT ![c] =
       IF i \notin DOMAIN items THEN Idle
       ELSE [@ EXCEPT !.pc = "enhance", !.price = PriceUnit * items[i].level]]
  /\ UNCHANGED <<gold, items, home, earned>>

\* HandleEnhance reads the level and fixes the price; it has no such item if the
\* user does not own it. Another consumer may enhance the item before the next step.
GetItem(c) ==
  /\ At(c, "item")
  /\ LET i == th[c].item IN
     th' = [th EXCEPT ![c] =
       IF i \notin DOMAIN items THEN Idle
       ELSE [@ EXCEPT !.pc = "enhance", !.price = PriceUnit * (items[i].level + 1)]]
  /\ UNCHANGED <<gold, items, home, earned>>

GrownUnchecked(power) == {(power * m + 50) \div 100 : m \in Mults}

\* ROUND(power * mult)::int, which throws when the result does not fit.
Grown(power) == {p \in {(power * m + 50) \div 100 : m \in Mults} : p <= IntMax}

\* EnhanceItem: gold and item in one transaction, which is refused when the gold
\* is short; a failed attempt is paid and leaves level and power.
EnhanceItem(c) ==
  /\ At(c, "enhance")
  /\ LET i == th[c].item IN
     \/ gold < th[c].price /\ UNCHANGED <<gold, items>>
     \/ /\ gold >= th[c].price /\ gold' = gold - th[c].price
        /\ \/ UNCHANGED items
           \/ \E p \in Grown(items[i].power) :
                items' = [items EXCEPT ![i] = [level |-> @.level + 1, power |-> p]]
  /\ Finish(c)
  /\ UNCHANGED <<home, earned>>

\* A transaction that throws changes nothing and ends the handler.
DbThrows(c) ==
  /\ th[c].pc \in {"gold", "drop", "item", "enhance"}
  /\ Finish(c)
  /\ UNCHANGED <<gold, items, home, earned>>

\* A crash, and the next start, which changes nothing in the database.
Restart ==
  /\ home' = NoConsumer /\ th' = [c \in Consumers |-> Idle]
  /\ UNCHANGED <<gold, items, earned>>

Continue(c) == \/ AddGold(c) \/ DropItem(c) \/ GetItem(c) \/ EnhanceItem(c)
               \/ DbThrows(c)

Next == \/ \E c \in Consumers : Connect(c) \/ Chat(c) \/ Enhance(c) \/ Continue(c)
        \/ Disconnect \/ Restart

Spec == Init /\ [][Next]_vars

-----------------------------------------------------------------------------
\* Every variable stays in its range: gold is never negative, power fits its column.
TypeOK ==
  /\ gold \in 0..MaxEarned /\ earned \in 0..MaxEarned
  /\ items \in Seq([level : Nat, power : 0..IntMax]) /\ Len(items) <= MaxItems
  /\ home \in Consumers \cup {NoConsumer}
  /\ th \in [Consumers -> [pc : {"idle", "gold", "drop", "item", "enhance"},
                           item : 0..MaxItems, price : Nat]]

\* A unit of the price for each level of each item.
LeastFor(its) == Total([i \in DOMAIN its |-> PriceUnit * its[i].level])

\* No level is had for nothing: whatever the order of commands, crashes and failed
\* transactions, with two consumers in commands for the user at once, each level was paid
\* with a unit at least, and with gold that was earned.
NoLevelIsFree == LeastFor(items) <= earned - gold

\* What the levels cost at their own prices: level n was bought at n units.
CostOf(level) == PriceUnit * ((level * (level + 1)) \div 2)
PaidFor(its) == Total([i \in DOMAIN its |-> CostOf(its[i].level)])

\* Every level was paid at its own price: nothing is decided by what was read in an
\* earlier transaction. The code breaks this when two consumers act for the user.
LevelsPaid == PaidFor(items) <= earned - gold
=============================================================================
