--------------------------- MODULE EconomyProofs ---------------------------
(***************************************************************************)
(* Proofs about Economy, for every set of rewards, multipliers and         *)
(* consumers and every bound. The account is a sum over the items: the     *)
(* price HandleEnhance fixed may no longer be that of the item's next      *)
(* level when the transaction runs, for two consumers may be busy with the *)
(* user, but it is that of some level, and so a unit at least.             *)
(***************************************************************************)
EXTENDS Economy, SequenceLemmas

Item == [level : Nat, power : 0..IntMax]

\* The item of a command is one that the user can own; before the transaction he owns
\* it, and the price is that of a level.
CommandOK(c) ==
  /\ At(c, "item") => th[c].item \in 1..MaxItems
  /\ At(c, "enhance") => th[c].item \in DOMAIN items /\ th[c].price >= PriceUnit

\* The sum of what the items are worth when a level l is worth v[l].
Worth(its, v) == Total([i \in DOMAIN its |-> v[its[i].level]])

AtLeast == [l \in Nat |-> PriceUnit * l]

\* What the gold, the items and the gold earned have to do with each other.
Account == gold <= earned /\ NoLevelIsFree

IInv == TypeOK /\ (\A c \in Consumers : CommandOK(c)) /\ Account

-----------------------------------------------------------------------------
\* A new item of level 0 is worth what that level is.
LEMMA WorthOfNew ==
  ASSUME NEW v \in [Nat -> Int], NEW its \in Seq(Item), NEW it \in Item
  PROVE  Worth(Append(its, it), v) = Worth(its, v) + v[it.level] /\ Worth(its, v) \in Int
<1>. DEFINE n == Len(its)
            s == [i \in DOMAIN its |-> v[its[i].level]]
            r == [i \in DOMAIN Append(its, it) |-> v[Append(its, it)[i].level]]
<1>1. n \in Nat /\ DOMAIN its = 1..n /\ \A i \in 1..n : its[i] \in Item
  OBVIOUS
<1>2. s \in Seq(Int) /\ Len(s) = n
  <2>1. \A i \in 1..n : v[its[i].level] \in Int
    BY <1>1 DEF Item
  <2>2. s \in [1..n -> Int]
    BY <1>1, <2>1
  <2>. HIDE DEF s, n
  <2>. QED  BY <1>1, <2>2, FunctionAsSeq
<1>3. v[it.level] \in Int
  BY DEF Item
<1>4. r = Append(s, v[it.level])
  <2>1. /\ DOMAIN Append(its, it) = 1..(n + 1) /\ Append(its, it)[n + 1] = it
        /\ \A i \in 1..n : Append(its, it)[i] = its[i]
    BY <1>1
  <2>2. r = [i \in 1..(n + 1) |-> IF i = n + 1 THEN v[it.level] ELSE v[its[i].level]]
    BY <1>1, <2>1
  <2>3. \A i \in 1..n : s[i] = v[its[i].level]
    BY <1>1
  <2>. HIDE DEF r, s, n
  <2>. QED  BY <1>1, <1>2, <1>3, <2>2, <2>3
<1>5. Worth(its, v) = Total(s) /\ Worth(Append(its, it), v) = Total(r)
  BY DEF Worth
<1>. HIDE DEF r, s
<1>. QED  BY <1>2, <1>3, <1>4, <1>5, TotalAppend

\* An item of another level.
LEMMA WorthOfChanged ==
  ASSUME NEW v \in [Nat -> Int], NEW its \in Seq(Item), NEW i \in DOMAIN its, NEW it \in Item
  PROVE  Worth([its EXCEPT ![i] = it], v) = Worth(its, v) - v[its[i].level] + v[it.level]
<1>. DEFINE n == Len(its)
            s == [k \in DOMAIN its |-> v[its[k].level]]
            changed == [its EXCEPT ![i] = it]
            r == [k \in DOMAIN changed |-> v[changed[k].level]]
<1>1. n \in Nat /\ DOMAIN its = 1..n /\ i \in 1..n /\ \A k \in 1..n : its[k] \in Item
  OBVIOUS
<1>2. s \in Seq(Int) /\ Len(s) = n
  <2>1. \A k \in 1..n : v[its[k].level] \in Int
    BY <1>1 DEF Item
  <2>2. s \in [1..n -> Int]
    BY <1>1, <2>1
  <2>. HIDE DEF s, n
  <2>. QED  BY <1>1, <2>2, FunctionAsSeq
<1>3. v[it.level] \in Int
  BY DEF Item
<1>4. r = [s EXCEPT ![i] = v[it.level]] /\ s[i] = v[its[i].level]
  <2>1. DOMAIN changed = 1..n /\ \A k \in 1..n : changed[k] = IF k = i THEN it ELSE its[k]
    BY <1>1
  <2>2. r = [k \in 1..n |-> IF k = i THEN v[it.level] ELSE v[its[k].level]]
    BY <1>1, <2>1
  <2>3. s = [k \in 1..n |-> v[its[k].level]]
    BY <1>1
  <2>. HIDE DEF r, s, n
  <2>. QED  BY <1>1, <2>2, <2>3
<1>5. Worth(its, v) = Total(s) /\ Worth([its EXCEPT ![i] = it], v) = Total(r)
  BY DEF Worth
<1>. HIDE DEF r, s
<1>6. i \in 1..Len(s)
  BY <1>1, <1>2
<1>7. Total([s EXCEPT ![i] = v[it.level]]) = Total(s) - s[i] + v[it.level]
  BY <1>2, <1>3, <1>6, TotalExcept
<1>. QED  BY <1>4, <1>5, <1>7

\* No items, no worth.
LEMMA WorthOfNone == \A v : Worth(<<>>, v) = 0
<1>. TAKE v
<1>1. [i \in DOMAIN <<>> |-> v[<<>>[i].level]] = <<>>
  OBVIOUS
<1>. QED  BY <1>1, TotalEmpty DEF Worth

\* The next level is worth a unit more.
LEMMA NextLevel ==
  ASSUME NEW l \in Nat
  PROVE  /\ AtLeast \in [Nat -> Int] /\ AtLeast[0] = 0
         /\ PriceUnit \in Nat /\ PriceUnit > 0
         /\ AtLeast[l + 1] = AtLeast[l] + PriceUnit
<1>1. PriceUnit \in Nat /\ PriceUnit > 0
  BY EconomyAssumption
<1>. QED  BY <1>1 DEF AtLeast

-----------------------------------------------------------------------------
\* The parts of the types that the steps need.
LEMMA Facts ==
  ASSUME TypeOK
  PROVE  /\ gold \in Nat /\ gold <= MaxEarned /\ earned \in Nat /\ earned <= MaxEarned
         /\ items \in Seq(Item) /\ Len(items) \in Nat /\ DOMAIN items = 1..Len(items)
         /\ MaxEarned \in Nat /\ MaxItems \in Nat /\ PriceUnit \in Nat /\ PriceUnit > 0
         /\ NoConsumer \notin Consumers
BY EconomyAssumption DEF TypeOK, Item

\* NoLevelIsFree in the terms of the lemmas on Worth.
LEMMA LeastIsWorth ==
  ASSUME NEW its \in Seq(Item)
  PROVE  LeastFor(its) = Worth(its, AtLeast)
<1>1. \A i \in DOMAIN its : its[i].level \in Nat
  <2>1. \A i \in DOMAIN its : its[i] \in Item
    OBVIOUS
  <2>. QED  BY <2>1 DEF Item
<1>2. [i \in DOMAIN its |-> PriceUnit * its[i].level]
        = [i \in DOMAIN its |-> AtLeast[its[i].level]]
  BY <1>1 DEF AtLeast
<1>. QED  BY <1>2 DEF LeastFor, Worth

\* Nothing is bought and no item changes.
LEMMA AccountUntouched ==
  ASSUME Account, UNCHANGED <<gold, items, earned>>
  PROVE  Account'
BY DEF Account, NoLevelIsFree

\* Gold is earned.
LEMMA AccountEarned ==
  ASSUME TypeOK, Account, NEW n \in Nat, gold' = gold + n, earned' = earned + n, items' = items
  PROVE  Account'
<1>1. gold \in Int /\ earned \in Int /\ earned' - gold' = earned - gold
  BY Facts
<1>2. gold' <= earned'
  BY <1>1, Facts DEF Account
<1>. QED  BY <1>1, <1>2 DEF Account, NoLevelIsFree

\* An item is dropped.
LEMMA AccountDropped ==
  ASSUME TypeOK, Account, NEW it \in Item, it.level = 0,
         items' = Append(items, it), UNCHANGED <<gold, earned>>
  PROVE  Account'
<1>1. items \in Seq(Item) /\ items' \in Seq(Item)
  BY Facts
<1>2. Worth(items', AtLeast) = Worth(items, AtLeast)
  <2>1. 0 \in Nat
    OBVIOUS
  <2>2. AtLeast \in [Nat -> Int] /\ AtLeast[0] = 0
    BY <2>1, NextLevel
  <2>3. /\ Worth(Append(items, it), AtLeast) = Worth(items, AtLeast) + AtLeast[it.level]
        /\ Worth(items, AtLeast) \in Int
    BY <1>1, <2>2, WorthOfNew
  <2>. QED  BY <2>2, <2>3
<1>3. LeastFor(items') = LeastFor(items)
  BY <1>1, <1>2, LeastIsWorth
<1>. QED  BY <1>3 DEF Account, NoLevelIsFree

\* An attempt that fails is paid.
LEMMA AccountPaid ==
  ASSUME TypeOK, Account, NEW price \in Nat, gold' = gold - price, UNCHANGED <<items, earned>>
  PROVE  Account'
<1>1. /\ gold' <= gold /\ earned - gold <= earned' - gold' /\ gold' <= earned'
      /\ earned - gold \in Int /\ earned' - gold' \in Int
  BY Facts DEF Account
<1>2. LeastFor(items) \in Int
  <2>1. 0 \in Nat /\ [level |-> 0, power |-> DropPower] \in Item
    BY EconomyAssumption DEF Item
  <2>. QED  BY <2>1, Facts, NextLevel, WorthOfNew, LeastIsWorth
<1>. QED  BY <1>1, <1>2 DEF Account, NoLevelIsFree

\* A level is bought, for a unit at the least.
LEMMA AccountBought ==
  ASSUME TypeOK, Account, NEW i \in DOMAIN items, NEW it \in Item, NEW price \in Nat,
         it.level = items[i].level + 1, items' = [items EXCEPT ![i] = it],
         price >= PriceUnit, gold' = gold - price, earned' = earned
  PROVE  Account'
<1>. DEFINE l == items[i].level
<1>1. items \in Seq(Item) /\ items' \in Seq(Item) /\ l \in Nat
  <2>1. items \in Seq(Item)
    BY Facts
  <2>2. items' \in Seq(Item) /\ items[i] \in Item
    BY <2>1
  <2>. QED  BY <2>1, <2>2 DEF Item
<1>2. /\ AtLeast \in [Nat -> Int] /\ PriceUnit \in Nat /\ PriceUnit > 0
      /\ AtLeast[l + 1] = AtLeast[l] + PriceUnit
  BY <1>1, NextLevel
<1>3. Worth(items', AtLeast) = Worth(items, AtLeast) - AtLeast[l] + AtLeast[l + 1]
  <2>. DEFINE changed == [items EXCEPT ![i] = it]
  <2>1. Worth(changed, AtLeast)
          = Worth(items, AtLeast) - AtLeast[items[i].level] + AtLeast[it.level]
    BY <1>1, <1>2, WorthOfChanged
  <2>2. items' = changed
    OBVIOUS
  <2>. HIDE DEF changed
  <2>. QED  BY <2>1, <2>2
<1>4. Worth(items, AtLeast) \in Int
  BY <1>1, <1>2, WorthOfNew
<1>5. AtLeast[l] \in Int
  BY <1>1, <1>2
<1>6. gold \in Nat /\ earned \in Nat /\ gold <= earned
  BY Facts DEF Account
<1>7. LeastFor(items) = Worth(items, AtLeast) /\ LeastFor(items') = Worth(items', AtLeast)
  BY <1>1, LeastIsWorth
<1>. HIDE DEF l
<1>8. Worth(items', AtLeast) = Worth(items, AtLeast) + PriceUnit
  BY <1>2, <1>3, <1>4, <1>5
<1>. QED  BY <1>2, <1>4, <1>6, <1>7, <1>8 DEF Account, NoLevelIsFree

-----------------------------------------------------------------------------
\* What the other consumers hold of the items stays good when the items do not change.
LEMMA CommandsKept ==
  ASSUME IInv, NEW c \in Consumers, NEW r, th' = [th EXCEPT ![c] = r], items' = items,
         r.pc = "item" => r.item \in 1..MaxItems,
         r.pc = "enhance" => r.item \in DOMAIN items /\ r.price >= PriceUnit
  PROVE  \A d \in Consumers : CommandOK(d)'
<1>1. \A d \in Consumers : th'[d] = IF d = c THEN r ELSE th[d]
  BY DEF IInv, TypeOK
<1>. TAKE d \in Consumers
<1>2. CASE d = c
  BY <1>1, <1>2 DEF CommandOK, At
<1>3. CASE d # c
  BY <1>1, <1>3 DEF IInv, CommandOK, At
<1>. QED  BY <1>2, <1>3

\* The records a consumer goes through.
Thread == [pc : {"idle", "gold", "drop", "item", "enhance"}, item : 0..MaxItems, price : Nat]

\* What a consumer does has its type, also when it goes on to the gold or to the drop.
LEMMA ThreadTypes ==
  ASSUME TypeOK
  PROVE  /\ th \in [Consumers -> Thread] /\ Idle \in Thread /\ Idle.pc = "idle"
         /\ \A c \in Consumers : [th[c] EXCEPT !.pc = "gold"] \in Thread
                              /\ [th[c] EXCEPT !.pc = "drop"] \in Thread
<1>1. th \in [Consumers -> Thread]
  BY DEF TypeOK, Thread
<1>2. Idle \in Thread /\ Idle.pc = "idle"
  BY Facts DEF Thread, Idle
<1>3. \A c \in Consumers : [th[c] EXCEPT !.pc = "gold"] \in Thread
  BY <1>1 DEF Thread
<1>4. \A c \in Consumers : [th[c] EXCEPT !.pc = "drop"] \in Thread
  BY <1>1 DEF Thread
<1>. QED  BY <1>1, <1>2, <1>3, <1>4

-----------------------------------------------------------------------------
\* A new session of the user on any consumer.
LEMMA ConnectStep ==
  ASSUME IInv, NEW c \in Consumers, Connect(c)
  PROVE  IInv'
<1>1. TypeOK'
  BY DEF IInv, TypeOK, Connect
<1>2. (\A d \in Consumers : CommandOK(d)')
  BY DEF IInv, CommandOK, Connect, At
<1>3. Account'
  BY AccountUntouched DEF IInv, Connect
<1>. QED  BY <1>1, <1>2, <1>3 DEF IInv

\* The session is gone; a command of its own may still be under way.
LEMMA DisconnectStep ==
  ASSUME IInv, Disconnect
  PROVE  IInv'
<1>1. TypeOK'
  BY DEF IInv, TypeOK, Disconnect
<1>2. (\A d \in Consumers : CommandOK(d)')
  BY DEF IInv, CommandOK, Disconnect, At
<1>3. Account'
  BY AccountUntouched DEF IInv, Disconnect
<1>. QED  BY <1>1, <1>2, <1>3 DEF IInv

\* A chat line that gets a reward.
LEMMA ChatStep ==
  ASSUME IInv, NEW c \in Consumers, Chat(c)
  PROVE  IInv'
<1>. DEFINE r == [th[c] EXCEPT !.pc = "gold"]
<1>1. th' = [th EXCEPT ![c] = r] /\ home' = home /\ items' = items /\ home = c /\ r.pc = "gold"
  BY ThreadTypes DEF Chat, Goto, IInv, Thread
<1>2. r \in Thread
  BY ThreadTypes DEF IInv
<1>. HIDE DEF r
<1>3. TypeOK'
  BY <1>1, <1>2 DEF IInv, TypeOK, Thread, Chat
<1>4. \A d \in Consumers : CommandOK(d)'
  BY <1>1, CommandsKept
<1>5. Account'
  BY AccountUntouched DEF IInv, Chat
<1>. QED  BY <1>3, <1>4, <1>5 DEF IInv

\* An enhancement is asked for.
LEMMA EnhanceStep ==
  ASSUME IInv, NEW c \in Consumers, Enhance(c)
  PROVE  IInv'
<1>1. PICK i \in 1..MaxItems : th' = [th EXCEPT ![c] = [Idle EXCEPT !.pc = "item", !.item = i]]
  BY DEF Enhance
<1>. DEFINE r == [Idle EXCEPT !.pc = "item", !.item = i]
<1>2. r \in Thread /\ r.pc = "item" /\ r.item = i
  <2>1. i \in 0..MaxItems
    BY Facts DEF IInv
  <2>2. Idle \in Thread
    BY ThreadTypes DEF IInv
  <2>. QED  BY <2>1, <2>2 DEF Thread
<1>3. th' = [th EXCEPT ![c] = r] /\ home' = home /\ items' = items /\ home = c
  BY <1>1 DEF Enhance
<1>. HIDE DEF r
<1>4. TypeOK'
  BY <1>2, <1>3 DEF IInv, TypeOK, Thread, Enhance
<1>5. \A d \in Consumers : CommandOK(d)'
  BY <1>2, <1>3, CommandsKept
<1>6. Account'
  BY AccountUntouched DEF IInv, Enhance
<1>. QED  BY <1>4, <1>5, <1>6 DEF IInv

\* A consumer becomes idle, and the items stay.
LEMMA Finished ==
  ASSUME IInv, NEW c \in Consumers, Finish(c)
  PROVE  /\ th' \in [Consumers -> Thread]
         /\ (items' = items => \A d \in Consumers : CommandOK(d)')
<1>1. /\ th' = [th EXCEPT ![c] = Idle] /\ th \in [Consumers -> Thread]
      /\ Idle \in Thread /\ Idle.pc = "idle"
  BY ThreadTypes DEF IInv, Finish
<1>2. th' \in [Consumers -> Thread]
  BY <1>1
<1>3. items' = items => \A d \in Consumers : CommandOK(d)'
  BY <1>1, CommandsKept
<1>. QED  BY <1>2, <1>3

\* The reward is paid, and the drop follows or not.
LEMMA AddGoldStep ==
  ASSUME IInv, NEW c \in Consumers, AddGold(c)
  PROVE  IInv'
<1>1. PICK n \in Rewards : earned + n <= MaxEarned /\ gold' = gold + n /\ earned' = earned + n
  BY DEF AddGold
<1>2. n \in Nat /\ home' = home /\ items' = items
  BY EconomyAssumption DEF AddGold
<1>3. gold' \in 0..MaxEarned /\ earned' \in 0..MaxEarned
  BY <1>1, <1>2, Facts DEF IInv, Account
<1>4. Account'
  BY <1>1, <1>2, AccountEarned DEF IInv
<1>5. th' \in [Consumers -> Thread] /\ \A d \in Consumers : CommandOK(d)'
  <2>1. CASE Finish(c)
    BY <1>2, <2>1, Finished
  <2>2. CASE Goto(c, "drop")
    <3>. DEFINE r == [th[c] EXCEPT !.pc = "drop"]
    <3>1. /\ th \in [Consumers -> Thread] /\ r \in Thread /\ r.pc = "drop" /\ ~At(c, "idle")
          /\ th' = [th EXCEPT ![c] = r]
      BY <2>2, ThreadTypes DEF IInv, Thread, Goto, AddGold, At
    <3>. HIDE DEF r
    <3>2. \A d \in Consumers : CommandOK(d)'
      BY <1>2, <3>1, CommandsKept
    <3>. QED  BY <3>1, <3>2
  <2>. QED  BY <2>1, <2>2 DEF AddGold
<1>6. TypeOK'
  BY <1>2, <1>3, <1>5 DEF IInv, TypeOK, Thread
<1>. QED  BY <1>4, <1>5, <1>6 DEF IInv

\* An item is dropped: a row more, of level 0.
LEMMA DropItemStep ==
  ASSUME IInv, NEW c \in Consumers, DropItem(c)
  PROVE  IInv'
<1>. DEFINE it == [level |-> 0, power |-> DropPower]
<1>1. it \in Item /\ it.level = 0
  BY EconomyAssumption DEF Item
<1>2. /\ items' = Append(items, it) /\ Len(items) < MaxItems
      /\ Finish(c) /\ UNCHANGED <<gold, home, earned>>
  BY DEF DropItem
<1>. HIDE DEF it
<1>3. items \in Seq(Item) /\ Len(items) \in Nat /\ MaxItems \in Nat
  BY Facts DEF IInv
<1>4. /\ items' \in Seq(Item) /\ Len(items') <= MaxItems
      /\ \A k \in DOMAIN items : k \in DOMAIN items' /\ items'[k] = items[k]
  BY <1>1, <1>2, <1>3
<1>5. Account'
  BY <1>1, <1>2, AccountDropped DEF IInv
<1>6. th' \in [Consumers -> Thread]
  BY <1>2, Finished
<1>7. TypeOK'
  BY <1>2, <1>4, <1>6 DEF IInv, TypeOK, Thread, Item
<1>8. ASSUME NEW d \in Consumers PROVE CommandOK(d)'
  <2>1. CASE d = c
    BY <1>2, <2>1 DEF CommandOK, At, Finish, Idle, IInv, TypeOK
  <2>2. CASE d # c
    <3>1. th'[d] = th[d]
      BY <1>2, <2>2 DEF Finish, IInv, TypeOK
    <3>2. CommandOK(d)
      BY DEF IInv
    <3>. QED  BY <1>4, <3>1, <3>2 DEF CommandOK, At
  <2>. QED  BY <2>1, <2>2
<1>. QED  BY <1>5, <1>6, <1>7, <1>8 DEF IInv

\* The price is that of the level read, and a unit at least.
LEMMA GetItemStep ==
  ASSUME IInv, NEW c \in Consumers, GetItem(c)
  PROVE  IInv'
<1>. DEFINE i == th[c].item
            cost == PriceUnit * (items[i].level + 1)
            r == IF i \notin DOMAIN items THEN Idle
                 ELSE [th[c] EXCEPT !.pc = "enhance", !.price = cost]
<1>1. /\ th' = [th EXCEPT ![c] = r] /\ UNCHANGED <<gold, items, home, earned>>
      /\ ~At(c, "idle")
  BY DEF GetItem, At
<1>2. /\ r \in Thread /\ r.pc \in {"idle", "enhance"}
      /\ r.pc = "enhance" => r.item \in DOMAIN items /\ r.price = cost /\ r.item = i /\ cost >= PriceUnit
  <2>1. CASE i \notin DOMAIN items
    BY <2>1, ThreadTypes DEF IInv, Idle
  <2>2. CASE i \in DOMAIN items
    <3>1. items[i].level \in Nat
      <4>1. items[i] \in Item
        BY <2>2, Facts DEF IInv
      <4>. QED  BY <4>1 DEF Item
    <3>2. cost \in Nat /\ cost >= PriceUnit
      <4>. DEFINE l == items[i].level
      <4>1. l \in Nat /\ PriceUnit \in Nat
        BY <3>1, Facts DEF IInv
      <4>. HIDE DEF l
      <4>2. PriceUnit * (l + 1) = PriceUnit * l + PriceUnit /\ PriceUnit * l \in Nat
        BY <4>1
      <4>3. PriceUnit * (l + 1) \in Nat /\ PriceUnit * (l + 1) >= PriceUnit
        BY <4>1, <4>2
      <4>. QED  BY <4>3 DEF l
    <3>3. th[c] \in Thread
      BY ThreadTypes DEF IInv
    <3>. HIDE DEF cost
    <3>4. r = [pc |-> "enhance", item |-> i, price |-> cost] /\ i \in 0..MaxItems
      BY <2>2, <3>3 DEF Thread
    <3>. HIDE DEF r, i
    <3>. QED  BY <2>2, <3>2, <3>4 DEF Thread
  <2>. QED  BY <2>1, <2>2
<1>3. r.pc = "enhance" => r.item \in DOMAIN items /\ r.price >= PriceUnit
  BY <1>2
<1>. HIDE DEF r
<1>4. TypeOK'
  BY <1>1, <1>2 DEF IInv, TypeOK, Thread
<1>5. \A d \in Consumers : CommandOK(d)'
  BY <1>1, <1>2, <1>3, CommandsKept
<1>6. Account'
  BY <1>1, AccountUntouched DEF IInv
<1>. QED  BY <1>4, <1>5, <1>6 DEF IInv

\* The transaction is refused, or the attempt is paid and fails, or a level is bought.
LEMMA EnhanceItemStep ==
  ASSUME IInv, NEW c \in Consumers, EnhanceItem(c)
  PROVE  IInv'
<1>. DEFINE i == th[c].item
            price == th[c].price
<1>1. Finish(c) /\ home' = home /\ earned' = earned
  BY DEF EnhanceItem
<1>2. th' \in [Consumers -> Thread]
  BY <1>1, Finished
<1>3. At(c, "enhance") /\ i \in DOMAIN items /\ price \in Nat /\ price >= PriceUnit
  BY ThreadTypes DEF EnhanceItem, IInv, CommandOK, Thread
<1>4. /\ items \in Seq(Item) /\ gold \in Nat /\ gold <= MaxEarned /\ MaxEarned \in Nat
  BY Facts DEF IInv
<1>5. CASE items' = items
  <2>1. gold' = gold \/ (gold >= price /\ gold' = gold - price)
    BY DEF EnhanceItem
  <2>2. gold' \in 0..MaxEarned
    BY <1>3, <1>4, <2>1
  <2>3. Account'
    BY <1>1, <1>3, <1>5, <2>1, AccountUntouched, AccountPaid DEF IInv
  <2>4. \A d \in Consumers : CommandOK(d)'
    BY <1>1, <1>5, Finished
  <2>5. TypeOK'
    BY <1>1, <1>2, <1>5, <2>2 DEF IInv, TypeOK, Thread
  <2>. QED  BY <1>2, <2>3, <2>4, <2>5 DEF IInv
<1>6. CASE items' # items
  <2>1. PICK p \in Grown(items[i].power) :
          items' = [items EXCEPT ![i] = [level |-> @.level + 1, power |-> p]]
    BY <1>6 DEF EnhanceItem
  <2>2. gold >= price /\ gold' = gold - price
    BY <1>6 DEF EnhanceItem
  <2>. DEFINE it == [level |-> items[i].level + 1, power |-> p]
  <2>3. items[i] \in Item /\ items[i].level \in Nat /\ items[i].power \in Nat
    <3>1. items[i] \in Item
      BY <1>3, <1>4
    <3>2. IntMax \in Nat
      BY EconomyAssumption
    <3>. QED  BY <3>1, <3>2 DEF Item
  <2>4. p \in 0..IntMax
    <3>1. PICK m \in Mults : p = (items[i].power * m + 50) \div 100 /\ p <= IntMax
      BY DEF Grown
    <3>2. m \in Nat /\ IntMax \in Nat
      BY EconomyAssumption
    <3>3. items[i].power * m + 50 \in Nat
      BY <2>3, <3>2
    <3>4. p \in Nat
      BY <3>1, <3>3
    <3>. QED  BY <3>1, <3>2, <3>4
  <2>5. it \in Item /\ it.level = items[i].level + 1 /\ items' = [items EXCEPT ![i] = it]
    BY <2>1, <2>3, <2>4 DEF Item
  <2>. HIDE DEF it
  <2>6. Account'
    BY <1>1, <1>3, <2>2, <2>5, AccountBought DEF IInv
  <2>7. items' \in Seq(Item) /\ Len(items') = Len(items) /\ DOMAIN items' = DOMAIN items
    BY <1>3, <1>4, <2>5
  <2>8. gold' \in 0..MaxEarned
    BY <1>3, <1>4, <2>2
  <2>9. TypeOK'
    BY <1>1, <1>2, <2>7, <2>8 DEF IInv, TypeOK, Thread, Item
  <2>10. ASSUME NEW d \in Consumers PROVE CommandOK(d)'
    <3>1. CASE d = c
      BY <1>1, <3>1 DEF CommandOK, At, Finish, Idle, IInv, TypeOK
    <3>2. CASE d # c
      <4>1. th'[d] = th[d] /\ CommandOK(d)
        BY <1>1, <3>2 DEF Finish, IInv, TypeOK
      <4>. QED  BY <2>7, <4>1 DEF CommandOK, At
    <3>. QED  BY <3>1, <3>2
  <2>. QED  BY <1>2, <2>6, <2>9, <2>10 DEF IInv
<1>. QED  BY <1>5, <1>6

\* A transaction that throws leaves the tables as they were.
LEMMA DbThrowsStep ==
  ASSUME IInv, NEW c \in Consumers, DbThrows(c)
  PROVE  IInv'
<1>1. Finish(c) /\ UNCHANGED <<gold, items, home, earned>>
  BY DEF DbThrows
<1>2. th' \in [Consumers -> Thread] /\ \A d \in Consumers : CommandOK(d)'
  BY <1>1, Finished
<1>3. TypeOK'
  BY <1>1, <1>2 DEF IInv, TypeOK, Thread
<1>4. Account'
  BY <1>1, AccountUntouched DEF IInv
<1>. QED  BY <1>2, <1>3, <1>4 DEF IInv

\* A crash ends the command and leaves the tables as they were.
LEMMA RestartStep ==
  ASSUME IInv, Restart
  PROVE  IInv'
<1>1. /\ th' = [c \in Consumers |-> Idle] /\ home' = NoConsumer /\ UNCHANGED <<gold, items, earned>>
  BY DEF Restart
<1>2. Idle \in Thread /\ Idle.pc = "idle"
  BY ThreadTypes DEF IInv
<1>3. TypeOK'
  BY <1>1, <1>2 DEF IInv, TypeOK, Thread
<1>4. \A d \in Consumers : CommandOK(d)'
  BY <1>1, <1>2 DEF CommandOK, At
<1>5. Account'
  BY <1>1, AccountUntouched DEF IInv
<1>. QED  BY <1>3, <1>4, <1>5 DEF IInv

-----------------------------------------------------------------------------
\* A user without gold and items, whom nobody serves.
LEMMA InitInvariant == Init => IInv
<1>. SUFFICES ASSUME Init PROVE IInv
  OBVIOUS
<1>1. /\ MaxEarned \in Nat /\ MaxItems \in Nat /\ PriceUnit \in Nat /\ 0 \in Nat
  BY EconomyAssumption
<1>2. items \in Seq(Item) /\ Len(items) = 0
  BY DEF Init
<1>3. TypeOK
  BY <1>1, <1>2 DEF Init, TypeOK, Idle, Item
<1>4. \A c \in Consumers : CommandOK(c)
  BY DEF Init, CommandOK, At, Idle
<1>5. Worth(items, AtLeast) = 0
  BY WorthOfNone DEF Init
<1>6. LeastFor(items) = 0
  BY <1>2, <1>5, LeastIsWorth
<1>7. Account
  BY <1>6 DEF Init, Account, NoLevelIsFree
<1>. QED  BY <1>3, <1>4, <1>7 DEF IInv

\* Every step keeps the invariant.
LEMMA NextInvariant == IInv /\ [Next]_vars => IInv'
<1>. SUFFICES ASSUME IInv, [Next]_vars PROVE IInv'
  OBVIOUS
<1>1. ASSUME NEW c \in Consumers, Connect(c) \/ Chat(c) \/ Enhance(c) \/ Continue(c)
      PROVE  IInv'
  BY <1>1, ConnectStep, ChatStep, EnhanceStep, AddGoldStep, DropItemStep, GetItemStep,
     EnhanceItemStep, DbThrowsStep DEF Continue
<1>2. CASE Disconnect \/ Restart
  BY <1>2, DisconnectStep, RestartStep
<1>3. CASE UNCHANGED vars
  <2>1. Account'
    BY <1>3, AccountUntouched DEF IInv, vars
  <2>. QED  BY <1>3, <2>1 DEF vars, IInv, TypeOK, CommandOK, At
<1>. QED  BY <1>1, <1>2, <1>3 DEF Next

\* The inductive invariant holds in every reachable state.
LEMMA Invariant == Spec => []IInv
BY InitInvariant, NextInvariant, PTL DEF Spec

\* Gold is never negative, and the power of an item stays within its column.
THEOREM EconomyTypes == Spec => []TypeOK
<1>1. IInv => TypeOK
  BY DEF IInv
<1>. QED  BY <1>1, Invariant, PTL

\* Whatever consumers are in commands for the user at once, every level of every item was
\* paid with a unit of the price at least, and with gold that he earned: EnhanceItem checks
\* the gold in its own transaction, and a price once read is that of some level.
THEOREM NoLevelForNothing == Spec => []NoLevelIsFree
<1>1. IInv => NoLevelIsFree
  BY DEF IInv, Account
<1>. QED  BY <1>1, Invariant, PTL
=============================================================================
