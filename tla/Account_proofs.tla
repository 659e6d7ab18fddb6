-------------------------- MODULE Account_proofs --------------------------
(***************************************************************************)
(* Proofs about Account for any number of matches, requests, failures and  *)
(* timeouts.                                                               *)
(***************************************************************************)
EXTENDS Account, TLAPS

\* The outcome of a match: the rank moves by one at most, and not beyond a floor.
Fair(r, m, after) ==
    /\ after[1] \in Ranks /\ after[2] \in 0..MedalsPerRank
    /\ after[1] > r => after[1] = r + 1 /\ r % RankDownLimit # 0

\* A result that is being saved is computed from the present rank.
SaverInv ==
    /\ saver.rank \in Ranks /\ saver.medal \in 0..MedalsPerRank
    /\ saver.at \in {"slots", "chest", "ladder"} =>
          (saver.rank > rank => saver.rank = rank + 1 /\ rank % RankDownLimit # 0)

\* RankInRange without the arenas
RanksInv ==
    /\ rank \in Ranks /\ medal \in 0..MedalsPerRank
    /\ \A p \in Places : slots[p].rank \in Ranks
    /\ \A h \in Handlers : job[h].rank \in Ranks

\* A copy of the card that is going to be written is within the limit, too.
CopiesCapped ==
    \A h \in Handlers :
        job[h].at \in {"store", "upgrade"} => job[h].card.level + RelativeLv < LevelMax

AccountInv == TypeOK /\ RanksInv /\ SaverInv /\ LevelCapped /\ CopiesCapped

\* ArenaFromRank has an arena for every rank up to InitialRank.
LEMMA ArenaExists == ASSUME NEW r \in Ranks PROVE Arena(r) \in 0..ArenaCount-1
<1> DEFINE d == (r - 1) \div RanksPerArena
<1>a. /\ InitialRank \in Nat /\ RanksPerArena \in Nat \ {0} /\ ArenaCount \in Nat \ {0}
      /\ InitialRank = RanksPerArena * (ArenaCount - 1)
  BY AccountAssumption
<1> USE <1>a DEF Ranks
<1>1. CASE r = 0
  BY <1>1 DEF Arena
<1>2. CASE r # 0
  <2>1. r - 1 \in Nat /\ r <= InitialRank
    BY <1>2
  <2>2. d \in Nat /\ RanksPerArena * d <= r - 1
    BY <2>1
  <2>3. SUFFICES d < ArenaCount - 1
    BY <1>2, <2>2 DEF Arena
  <2> HIDE DEF d
  <2>4. SUFFICES ASSUME d >= ArenaCount - 1 PROVE FALSE
    BY <2>2
  <2>5. PICK k \in Nat : d = ArenaCount - 1 + k
    BY <2>2, <2>4
  <2>6. RanksPerArena * d = RanksPerArena * (ArenaCount - 1) + RanksPerArena * k
    BY <2>5
  <2>7. RanksPerArena * k >= 0
    BY <2>5
  <2>8. RanksPerArena * d >= InitialRank
    BY <2>6, <2>7
  <2> QED
    BY <2>1, <2>2, <2>8
<1> QED
  BY <1>1, <1>2

\* What the lemmas below need of the constants
LEMMA Numbers ==
    /\ RankDownLimit \in Nat \ {0} /\ MedalsPerRank \in Nat \ {0}
    /\ InitialRank \in Nat /\ InitialRank % RankDownLimit = 0
    /\ LevelMax \in Nat /\ RelativeLv \in Nat
    /\ InitialLevel \in Nat /\ InitialLevel + RelativeLv < LevelMax
    /\ InitialHolding \in Nat /\ InitialCoin \in Nat /\ InitialCash \in Nat
    /\ StartRanks \subseteq Ranks /\ StartOrder \in Nat
BY AccountAssumption DEF Ranks

\* A win and a loss.
LEMMA WinFair ==
  ASSUME NEW r \in Ranks, NEW m \in 0..MedalsPerRank PROVE Fair(r, m, AfterWin(r, m))
<1> USE Numbers DEF Ranks
<1> DEFINE a == AfterWin(r, m)
<1>1. CASE r = 0
  <2>1. a = <<r, m>>
    BY <1>1 DEF AfterWin
  <2>2. a[1] = r /\ a[2] = m
    BY <2>1
  <2> QED
    BY <2>2 DEF Fair
<1>2. CASE r > 0 /\ m < MedalsPerRank
  <2>1. a = <<r, m + 1>>
    BY <1>2 DEF AfterWin
  <2>2. a[1] = r /\ a[2] = m + 1
    BY <2>1
  <2> QED
    BY <1>2, <2>2 DEF Fair
<1>3. CASE r > 0 /\ m >= MedalsPerRank
  <2>1. a = <<r - 1, 1>>
    BY <1>3 DEF AfterWin
  <2>2. a[1] = r - 1 /\ a[2] = 1
    BY <2>1
  <2> QED
    BY <1>3, <2>2 DEF Fair
<1> QED
  BY <1>1, <1>2, <1>3

LEMMA LossFair ==
  ASSUME NEW r \in Ranks, NEW m \in 0..MedalsPerRank PROVE Fair(r, m, AfterLoss(r, m))
<1> USE Numbers DEF Ranks
<1> DEFINE a == AfterLoss(r, m)
<1>1. CASE m > 0
  <2>1. a = <<r, m - 1>>
    BY <1>1 DEF AfterLoss
  <2>2. a[1] = r /\ a[2] = m - 1
    BY <2>1
  <2> QED
    BY <1>1, <2>2 DEF Fair
<1>2. CASE m = 0 /\ r % RankDownLimit = 0
  <2>1. a = <<r, m>>
    BY <1>2 DEF AfterLoss
  <2>2. a[1] = r /\ a[2] = m
    BY <2>1
  <2> QED
    BY <2>2 DEF Fair
<1>3. CASE m = 0 /\ r % RankDownLimit # 0
  <2>1. r # InitialRank
    BY <1>3
  <2>2. r + 1 \in Ranks
    BY <2>1
  <2>3. a = <<r + 1, MedalsPerRank - 1>>
    BY <1>3 DEF AfterLoss
  <2>4. a[1] = r + 1 /\ a[2] = MedalsPerRank - 1
    BY <2>3
  <2> QED
    BY <1>3, <2>2, <2>4 DEF Fair
<1> QED
  BY <1>1, <1>2, <1>3

\* The outcome of a match is fair to the present rank, also if some of it could not be read.
LEMMA ReadFair ==
  ASSUME RanksInv, NEW won \in BOOLEAN, NEW E
  PROVE  LET r == Got(E, "rank", rank)
             m == Got(E, "medal", medal)
         IN  Fair(rank, medal, IF won THEN AfterWin(r, m) ELSE AfterLoss(r, m))
<1> DEFINE r == Got(E, "rank", rank)
           m == Got(E, "medal", medal)
           after == IF won THEN AfterWin(r, m) ELSE AfterLoss(r, m)
<1>0. SUFFICES Fair(rank, medal, after)
  OBVIOUS
<1>1. r \in Ranks /\ m \in 0..MedalsPerRank /\ (r = rank \/ r = 0)
  BY Numbers DEF RanksInv, Got, Ranks
<1> HIDE DEF r, m
<1>2. Fair(r, m, after)
  BY <1>1, WinFair, LossFair
<1> HIDE DEF after
<1>3. CASE r = rank
  BY <1>2, <1>3 DEF Fair
<1>4. CASE r = 0
  <2>1. 0 % RankDownLimit = 0
    BY Numbers
  <2>2. rank \in Nat /\ after[1] \in Nat
    BY <1>2, Numbers DEF RanksInv, Fair, Ranks
  <2>3. after[1] <= rank
    BY <1>2, <1>4, <2>1, <2>2 DEF Fair
  <2> QED
    BY <1>2, <2>2, <2>3 DEF Fair
<1> QED
  BY <1>1, <1>3, <1>4

\* The records of a handler and a saver that do nothing
LEMMA IdleTyped == Idle \in Job /\ NotSaving \in Saver
<1>1. <<"battle", 1>> \in Places
  BY AccountAssumption DEF Places, Kinds
<1> QED
  BY <1>1 DEF Idle, NotSaving, Job, Saver, NoChest, Chest, Card, Gain, HandlerAt

\* The counts after commands of saveResult that were refused
LEMMA FailureCounts == ASSUME NEW E PROVE Failure(E) \in Nat
BY DEF Failure

LEMMA CountTyped ==
  ASSUME TypeOK, NEW f \in Nat
  PROVE  /\ [count EXCEPT !.fails = @ + f]
               \in [requests : Nat, matches : Nat, fails : Nat, timeouts : Nat]
         /\ [count EXCEPT !.matches = @ + 1, !.fails = @ + f]
               \in [requests : Nat, matches : Nat, fails : Nat, timeouts : Nat]
<1> DEFINE Counts == [requests : Nat, matches : Nat, fails : Nat, timeouts : Nat]
           c == [count EXCEPT !.matches = @ + 1]
<1>1. count \in Counts
  BY DEF TypeOK
<1>2. c \in Counts
  BY <1>1
<1>3. \A d \in Counts : [d EXCEPT !.fails = @ + f] \in Counts
  OBVIOUS
<1>4. [count EXCEPT !.matches = @ + 1, !.fails = @ + f] = [c EXCEPT !.fails = @ + f]
  BY <1>1
<1> HIDE DEF c, Counts
<1>5. [count EXCEPT !.fails = @ + f] \in Counts /\ [c EXCEPT !.fails = @ + f] \in Counts
  BY <1>1, <1>2, <1>3
<1> QED
  BY <1>4, <1>5 DEF Counts

\* The chest a match brings is one of the table.
LEMMA AwardedNamed ==
  ASSUME NEW won \in BOOLEAN, NEW o \in Nat PROVE Awarded(won, o % OrderLength) \in ChestNames
BY DEF Awarded, ChestOrder, ChestNames

LEMMA AccountInit == Init => AccountInv
<1> SUFFICES ASSUME Init PROVE AccountInv
  OBVIOUS
<1> USE Numbers
<1>1. TypeOK
  <2>2. rank \in Int /\ medal \in Int /\ medalChest \in Nat /\ order \in Nat /\ freeDue \in BOOLEAN
        /\ coin \in Int /\ cash \in Int /\ card \in Card /\ waits \in Handlers \cup {Nobody}
        /\ earned \in Nat /\ count \in [requests : Nat, matches : Nat, fails : Nat, timeouts : Nat]
    <3>1. rank \in Int
      BY DEF Init, Ranks
    <3> QED
      BY <3>1 DEF Init, Card
  <2>3. slots \in [Places -> Chest]
    BY DEF Init, NoChest, Chest
  <2>4. job \in [Handlers -> Job]
    BY IdleTyped DEF Init
  <2>5. saver \in Saver
    BY IdleTyped DEF Init
  <2> QED
    BY <2>2, <2>3, <2>4, <2>5 DEF TypeOK
<1>2. RanksInv
  <2>1. 0 \in Ranks /\ NoChest.rank = 0 /\ Idle.rank = 0
    BY DEF Ranks, NoChest, Idle
  <2>2. rank \in Ranks /\ medal \in 0..MedalsPerRank
    BY DEF Init
  <2> QED
    BY <2>1, <2>2 DEF Init, RanksInv
<1>3. SaverInv
  BY DEF Init, SaverInv, Ranks, NotSaving
<1>4. LevelCapped /\ CopiesCapped
  BY DEF Init, LevelCapped, CopiesCapped, Idle
<1> QED
  BY <1>1, <1>2, <1>3, <1>4 DEF AccountInv

\* Records whose fields are replaced
LEMMA JobUpdate ==
  ASSUME NEW j \in Job, NEW a \in HandlerAt, NEW r \in Int, NEW g \in Gain, NEW c \in Card
  PROVE  /\ [j EXCEPT !.at = a, !.rank = r, !.gain = g] \in Job
         /\ [j EXCEPT !.at = a, !.rank = r, !.gain = g, !.card = c] \in Job
BY DEF Job

LEMMA SaverUpdate ==
  ASSUME NEW s \in Saver, NEW won \in BOOLEAN, NEW r \in Int, NEW m \in Int, NEW k \in Nat
  PROVE  [s EXCEPT !.at = "slots", !.won = won, !.rank = r, !.medal = m, !.medals = k] \in Saver
<1> DEFINE t == [s EXCEPT !.at = "slots", !.won = won]
<1>1. t \in Saver
  BY DEF Saver
<1>2. [s EXCEPT !.at = "slots", !.won = won, !.rank = r, !.medal = m, !.medals = k]
        = [t EXCEPT !.rank = r, !.medal = m, !.medals = k]
  OBVIOUS
<1> HIDE DEF t
<1>3. [t EXCEPT !.rank = r, !.medal = m, !.medals = k] \in Saver
  BY <1>1 DEF Saver
<1> QED
  BY <1>2, <1>3

\* What a handler's step does to the jobs.
LEMMA HandlerTyped ==
  ASSUME TypeOK, NEW h \in Handlers,
         \/ \E j \in Job : Begin(h, j) \/ Goto(h, j)
         \/ Reply(h)
         \/ /\ End(h) \/ \E j \in Job : Proceed(h, j)
            /\ count' = [count EXCEPT !.fails = @ + 1]
  PROVE  /\ job' \in [Handlers -> Job]
         /\ waits' \in Handlers \cup {Nobody}
         /\ count' \in [requests : Nat, matches : Nat, fails : Nat, timeouts : Nat]
BY IdleTyped DEF TypeOK, Begin, Goto, Proceed, Reply, End

\* The parts of TypeOK the steps of a handler leave alone or touch one by one
LEMMA TypeStep == TypeOK /\ RanksInv /\ [Next]_vars => TypeOK'
<1> SUFFICES ASSUME TypeOK, RanksInv, [Next]_vars PROVE TypeOK'
  OBVIOUS
<1> USE DEF ladderVars, chestVars, purseVars
<1>1. ASSUME NEW h \in Handlers, OpenFree(h) PROVE TypeOK'
  <2>1. [Idle EXCEPT !.at = "rank", !.what = "free"] \in Job
    BY IdleTyped DEF Job, HandlerAt
  <2> QED
    BY <1>1, <2>1, HandlerTyped DEF OpenFree, TypeOK
<1>2. ASSUME NEW h \in Handlers, OpenMedal(h) PROVE TypeOK'
  <2>1. [Idle EXCEPT !.at = "rank", !.what = "medal"] \in Job
    BY IdleTyped DEF Job, HandlerAt
  <2> QED
    BY <1>2, <2>1, HandlerTyped DEF OpenMedal, TypeOK
<1>3. ASSUME NEW h \in Handlers, OpenSlot(h) PROVE TypeOK'
  <2>1. PICK p \in Places :
          LET found == [Idle EXCEPT !.what = "slot", !.place = p, !.chest = slots[p],
                                    !.rank = slots[p].rank]
          IN  \/ Begin(h, [found EXCEPT !.at = "reward"])
              \/ \E price \in Prices : Begin(h, [found EXCEPT !.at = "cash", !.due = price])
    BY <1>3 DEF OpenSlot
  <2> DEFINE found == [Idle EXCEPT !.what = "slot", !.place = p, !.chest = slots[p],
                                   !.rank = slots[p].rank]
  <2>2. slots[p] \in Chest
    BY DEF TypeOK
  <2>3. found \in Job
    BY <2>2, IdleTyped DEF Job, Chest
  <2> HIDE DEF found
  <2>4. /\ [found EXCEPT !.at = "reward"] \in Job
        /\ \A price \in Prices : [found EXCEPT !.at = "cash", !.due = price] \in Job
    BY <2>3, AccountAssumption DEF Job, HandlerAt
  <2>5. \E j \in Job : Begin(h, j)
    BY <2>1, <2>4 DEF found
  <2> QED
    BY <1>3, <2>5, HandlerTyped DEF OpenSlot, TypeOK
<1>4. ASSUME NEW h \in Handlers, CheckCash(h) PROVE TypeOK'
  <2>1. [job[h] EXCEPT !.at = "reward"] \in Job
    BY DEF TypeOK, Job, HandlerAt
  <2> QED
    BY <1>4, <2>1, HandlerTyped DEF CheckCash, TypeOK
<1>5. ASSUME NEW h \in Handlers, GetRank(h) PROVE TypeOK'
  <2>1. [job[h] EXCEPT !.at = "reward", !.rank = rank] \in Job
    BY DEF TypeOK, Job, HandlerAt
  <2> QED
    BY <1>5, <2>1, HandlerTyped DEF GetRank, TypeOK
<1>6. ASSUME NEW h \in Handlers, OpenChest(h) PROVE TypeOK'
  <2>1. CASE Goto(h, [job[h] EXCEPT !.at = "panic"])
    <3>1. [job[h] EXCEPT !.at = "panic"] \in Job
      BY DEF TypeOK, Job, HandlerAt
    <3> QED
      BY <1>6, <2>1, <3>1, HandlerTyped DEF OpenChest, TypeOK
  <2>2. ASSUME NEW g \in Gains,
               Goto(h, IF g.copies = 0 THEN [job[h] EXCEPT !.at = "pay", !.rank = 0, !.gain = g]
                       ELSE [job[h] EXCEPT !.at = "store", !.rank = 0, !.gain = g, !.card = card])
        PROVE  TypeOK'
    <3>1. g \in Gain
      BY AccountAssumption
    <3>2. /\ [job[h] EXCEPT !.at = "pay", !.rank = 0, !.gain = g] \in Job
          /\ [job[h] EXCEPT !.at = "store", !.rank = 0, !.gain = g, !.card = card] \in Job
      <4>1. job[h] \in Job /\ card \in Card
        BY DEF TypeOK
      <4>2. "pay" \in HandlerAt /\ "store" \in HandlerAt /\ 0 \in Int
        BY DEF HandlerAt
      <4> QED
        BY <3>1, <4>1, <4>2, JobUpdate, Zenon
    <3>3. \E j \in Job : Goto(h, j)
      BY <2>2, <3>2
    <3> QED
      BY <1>6, <3>3, HandlerTyped DEF OpenChest, TypeOK
  <2> QED
    BY <1>6, <2>1, <2>2 DEF OpenChest
<1>7. ASSUME NEW h \in Handlers, StoreCard(h) PROVE TypeOK'
  <2>1. [job[h] EXCEPT !.at = "pay", !.card = Idle.card] \in Job
    BY IdleTyped DEF TypeOK, Job, HandlerAt
  <2>2. [job[h].card EXCEPT !.holding = @ + job[h].gain.copies] \in Card
    BY DEF TypeOK, Job, Card, Gain
  <2>3. card' \in Card
    BY <1>7, <2>2 DEF StoreCard
  <2> QED
    BY <1>7, <2>1, <2>3, HandlerTyped DEF StoreCard, TypeOK
<1>8. ASSUME NEW h \in Handlers, Pay(h) PROVE TypeOK'
  <2>1. [job[h] EXCEPT !.at = IF job[h].what = "slot" THEN "charge" ELSE "remove",
                       !.gain = Idle.gain] \in Job
    BY IdleTyped DEF TypeOK, Job, HandlerAt
  <2>2. coin' \in Int /\ cash' \in Int
    BY <1>8 DEF Pay, TypeOK, Job, Gain
  <2> QED
    BY <1>8, <2>1, <2>2, HandlerTyped DEF Pay, TypeOK
<1>9. ASSUME NEW h \in Handlers, Charge(h) PROVE TypeOK'
  <2>1. [job[h] EXCEPT !.at = "remove"] \in Job
    BY DEF TypeOK, Job, HandlerAt
  <2>2. cash' \in Int
    BY <1>9 DEF Charge, TypeOK, Job
  <2> QED
    BY <1>9, <2>1, <2>2, HandlerTyped DEF Charge, TypeOK
<1>20. ASSUME NEW h \in Handlers, Unpaid(h) PROVE TypeOK'
  <2>1. [job[h] EXCEPT !.at = "remove"] \in Job
    BY DEF TypeOK, Job, HandlerAt
  <2> QED
    BY <1>20, <2>1, HandlerTyped DEF Unpaid, TypeOK
<1>10. ASSUME NEW h \in Handlers, Remove(h) PROVE TypeOK'
  <2>1. slots' \in [Places -> Chest] /\ medalChest' \in Nat /\ earned' \in Nat /\ freeDue' \in BOOLEAN
    <3>1. NoChest \in Chest
      BY DEF NoChest, Chest
    <3>2. Emptied(job[h].place) \in [Places -> Chest]
      BY <3>1 DEF Emptied, TypeOK
    <3> QED
      BY <1>10, <3>2 DEF Remove, TypeOK
  <2> QED
    BY <1>10, <2>1, HandlerTyped DEF Remove, TypeOK
<1>11. ASSUME NEW h \in Handlers, GetCoin(h) PROVE TypeOK'
  <2>1. [Idle EXCEPT !.at = "card", !.what = "upgrade", !.coin = coin] \in Job
    BY IdleTyped DEF TypeOK, Job, HandlerAt
  <2> QED
    BY <1>11, <2>1, HandlerTyped DEF GetCoin, TypeOK
<1>12. ASSUME NEW h \in Handlers, GetCard(h) PROVE TypeOK'
  <2> DEFINE left == card.holding - CardCost[card.level]
             i == PriceIndex(card.level)
             paid == [job[h] EXCEPT !.at = "upgrade", !.due = CoinCost[i],
                                    !.card = [level |-> card.level + 1, holding |-> left]]
  <2>1. [job[h] EXCEPT !.at = "panic"] \in Job
    BY DEF TypeOK, Job, HandlerAt
  <2>2. ASSUME ~IsLevelMax(card.level), i \in DOMAIN CoinCost PROVE paid \in Job
    <3>1. card.level \in 0..LevelMax-2
      BY <2>2, Numbers DEF IsLevelMax, TypeOK, Card
    <3>2. left \in Int /\ CoinCost[i] \in Nat
      <4>1. CardCost[card.level] \in Nat
        BY <3>1, AccountAssumption
      <4>2. CoinCost[i] \in Nat
        BY <2>2, AccountAssumption
      <4> QED
        BY <4>1, <4>2 DEF TypeOK, Card
    <3>3. [level |-> card.level + 1, holding |-> left] \in Card
      BY <3>1, <3>2, Numbers DEF Card
    <3> QED
      BY <3>2, <3>3 DEF TypeOK, Job, HandlerAt
  <2>3. Reply(h) \/ \E j \in Job : Goto(h, j)
    BY <1>12, <2>1, <2>2 DEF GetCard
  <2> QED
    BY <1>12, <2>3, HandlerTyped DEF GetCard, TypeOK
<1>13. ASSUME NEW h \in Handlers, Upgrade(h) PROVE TypeOK'
  <2>1. coin' \in Int /\ card' \in Card
    BY <1>13 DEF Upgrade, TypeOK, Job
  <2> QED
    BY <1>13, <2>1, HandlerTyped DEF Upgrade, TypeOK
<1>14. ASSUME NEW h \in Handlers, Recover(h) PROVE TypeOK'
  BY <1>14, HandlerTyped DEF Recover, TypeOK
<1>15. ASSUME NEW h \in Handlers, Fail(h) PROVE TypeOK'
  BY <1>15, HandlerTyped DEF Fail, TypeOK
<1>16. CASE SaveResult
  <2>1. CASE ReadAccount
    <3>1. PICK won \in BOOLEAN, E \in SUBSET {"rank", "medal", "medal-chest"} :
            LET r == Got(E, "rank", rank)
                m == Got(E, "medal", medal)
                k == Got(E, "medal-chest", medalChest)
                after == IF won THEN AfterWin(r, m) ELSE AfterLoss(r, m)
            IN  /\ count' = [count EXCEPT !.matches = @ + 1, !.fails = @ + Failure(E)]
                /\ saver' = [NotSaving EXCEPT !.at = "slots", !.won = won, !.rank = after[1],
                                !.medal = after[2], !.medals = IF won THEN k + 1 ELSE k]
      BY <2>1 DEF ReadAccount
    <3> DEFINE r == Got(E, "rank", rank)
               m == Got(E, "medal", medal)
               k == Got(E, "medal-chest", medalChest)
               after == IF won THEN AfterWin(r, m) ELSE AfterLoss(r, m)
    <3>2. Fair(rank, medal, after)
      BY ReadFair
    <3>3. after[1] \in Int /\ after[2] \in Int
      BY <3>2, Numbers DEF Fair, Ranks
    <3>4. NotSaving \in Saver /\ k \in Nat
      BY IdleTyped DEF TypeOK, Got
    <3> HIDE DEF after, k
    <3>5. (IF won THEN k + 1 ELSE k) \in Nat
      BY <3>4
    <3>6. [NotSaving EXCEPT !.at = "slots", !.won = won, !.rank = after[1], !.medal = after[2],
                            !.medals = IF won THEN k + 1 ELSE k] \in Saver
      BY <3>3, <3>4, <3>5, SaverUpdate, Zenon
    <3>7. saver' \in Saver
      BY <3>1, <3>6 DEF after, k
    <3>8. count' \in [requests : Nat, matches : Nat, fails : Nat, timeouts : Nat]
      BY <3>1, CountTyped, FailureCounts
    <3> QED
      BY <2>1, <3>7, <3>8 DEF ReadAccount, TypeOK
  <2>2. CASE ChooseSlot
    <3>1. [saver EXCEPT !.at = "ladder"] \in Saver
      BY DEF TypeOK, Saver
    <3>2. \A p \in Places : [saver EXCEPT !.at = "chest", !.place = p] \in Saver
      BY DEF TypeOK, Saver
    <3> DEFINE E == EmptySlots(IF saver.won THEN "battle" ELSE "feeble")
    <3>3. E \subseteq Places
      BY DEF EmptySlots
    <3>5. saver' \in Saver
      BY <2>2, <3>1, <3>2, <3>3 DEF ChooseSlot
    <3> QED
      BY <2>2, <3>5 DEF ChooseSlot, TypeOK
  <2>3. CASE AwardChest
    <3>1. PICK E \in SUBSET {"get", "slot", "set"} :
            LET i == Got(E, "get", order) % OrderLength IN
            /\ count' = [count EXCEPT !.fails = @ + Failure(E)]
            /\ slots' = IF "slot" \in E THEN slots ELSE [slots EXCEPT ![saver.place] =
                  [name |-> Awarded(saver.won, i), n |-> count.matches, rank |-> saver.rank]]
            /\ order' = IF saver.won /\ "set" \notin E THEN i + 1 ELSE order
      BY <2>3 DEF AwardChest
    <3> DEFINE o == Got(E, "get", order)
               i == o % OrderLength
               chest == [name |-> Awarded(saver.won, i), n |-> count.matches, rank |-> saver.rank]
    <3>2. slots' \in [Places -> Chest] /\ order' \in Nat
      <4>1. o \in Nat
        BY DEF Got, TypeOK
      <4>2. i \in Nat
        BY <4>1 DEF OrderLength
      <4>3. chest \in Chest
        BY <4>1, AwardedNamed DEF TypeOK, Saver, Chest
      <4> HIDE DEF o, chest
      <4>4. slots' \in [Places -> Chest]
        BY <3>1, <4>3 DEF TypeOK, o, chest
      <4>5. order' \in Nat
        BY <3>1, <4>2 DEF TypeOK, o
      <4> QED
        BY <4>4, <4>5
    <3>4. count' \in [requests : Nat, matches : Nat, fails : Nat, timeouts : Nat]
      BY <3>1, CountTyped, FailureCounts
    <3>3. saver' \in Saver
      BY <2>3 DEF AwardChest, TypeOK, Saver
    <3> QED
      BY <2>3, <3>2, <3>3, <3>4 DEF AwardChest, TypeOK
  <2>4. CASE SaveLadder
    <3>1. rank' \in Int /\ medal' \in Int
      BY <2>4 DEF SaveLadder, TypeOK, Saver
    <3>2. count' \in [requests : Nat, matches : Nat, fails : Nat, timeouts : Nat]
      BY <2>4, CountTyped, FailureCounts DEF SaveLadder
    <3>3. saver' \in Saver
      BY <2>4 DEF SaveLadder, TypeOK, Saver
    <3> QED
      BY <2>4, <3>1, <3>2, <3>3 DEF SaveLadder, TypeOK
  <2>5. CASE SaveMedals
    BY <2>5, IdleTyped DEF SaveMedals, TypeOK, Saver
  <2>6. CASE SaverFails
    BY <2>6, IdleTyped DEF SaverFails, TypeOK
  <2> QED
    BY <1>16, <2>1, <2>2, <2>3, <2>4, <2>5, <2>6 DEF SaveResult
<1>17. CASE TimeOut
  BY <1>17 DEF TimeOut, TypeOK
<1>18. CASE FreeDue
  BY <1>18 DEF FreeDue, TypeOK
<1>19. CASE UNCHANGED vars
  BY <1>19 DEF vars, TypeOK
<1> QED
  BY <1>1, <1>2, <1>3, <1>4, <1>5, <1>6, <1>7, <1>8, <1>9, <1>10, <1>11, <1>12, <1>13,
     <1>14, <1>15, <1>16, <1>17, <1>18, <1>19, <1>20 DEF Next, Handle

\* A handler goes on with a rank and a copy that are in range.
GoodJob(j) == /\ j.rank \in Ranks
              /\ j.at \in {"store", "upgrade"} => j.card.level + RelativeLv < LevelMax

LEMMA JobsGood ==
  ASSUME TypeOK, RanksInv, CopiesCapped, NEW h \in Handlers,
         \/ \E j \in Job : GoodJob(j) /\ (Begin(h, j) \/ Goto(h, j) \/ Proceed(h, j))
         \/ End(h)
  PROVE  (\A k \in Handlers : job'[k].rank \in Ranks) /\ CopiesCapped'
<1>1. GoodJob(Idle)
  BY Numbers DEF GoodJob, Idle, Ranks
<1>2. \A k \in Handlers : GoodJob(job[k])
  BY DEF RanksInv, CopiesCapped, GoodJob
<1>3. \A k \in Handlers : GoodJob(job'[k])
  BY <1>1, <1>2 DEF TypeOK, Begin, Goto, Proceed, End
<1> QED
  BY <1>3 DEF GoodJob, CopiesCapped

\* The steps of a handler
LEMMA HandlerStep ==
  ASSUME AccountInv, NEW h \in Handlers, Handle(h)
  PROVE  RanksInv' /\ SaverInv' /\ LevelCapped' /\ CopiesCapped'
<1> USE DEF AccountInv
<1> DEFINE Rest == UNCHANGED <<rank, medal, saver>>
           Jobs == (\A k \in Handlers : job'[k].rank \in Ranks) /\ CopiesCapped'
<1>1. Rest
  BY DEF Handle, OpenFree, OpenMedal, OpenSlot, CheckCash, GetRank, OpenChest, StoreCard, Pay,
         Charge, Unpaid, Remove, GetCoin, GetCard, Upgrade, Recover, Fail, ladderVars
<1>2. SaverInv'
  BY <1>1 DEF SaverInv
<1>3. CASE Remove(h)
  <2>1. Jobs
    BY <1>3, JobsGood DEF Remove, Reply
  <2>2. \A p \in Places : slots'[p].rank \in Ranks
    BY <1>3, Numbers DEF Remove, Emptied, NoChest, TypeOK, RanksInv, Ranks
  <2>3. card' = card
    BY <1>3 DEF Remove, purseVars
  <2> QED
    BY <1>1, <1>2, <2>1, <2>2, <2>3 DEF RanksInv, LevelCapped
<1>4. CASE ~Remove(h)
  <2>1. slots' = slots
    BY <1>4 DEF Handle, OpenFree, OpenMedal, OpenSlot, CheckCash, GetRank, OpenChest, StoreCard, Pay,
         Charge, Unpaid, GetCoin, GetCard, Upgrade, Recover, Fail, chestVars
  <2>2. SUFFICES Jobs /\ LevelCapped'
    BY <1>1, <1>2, <2>1 DEF RanksInv
  <2>3. CASE StoreCard(h)
    <3>1. card' = [job[h].card EXCEPT !.holding = @ + job[h].gain.copies]
      BY <2>3 DEF StoreCard
    <3>2. job[h].card \in Card /\ job[h].card.level + RelativeLv < LevelMax
      BY <2>3 DEF StoreCard, CopiesCapped, TypeOK, Job
    <3>3. card'.level = job[h].card.level
      BY <3>1, <3>2 DEF Card
    <3>4. /\ [job[h] EXCEPT !.at = "pay", !.card = Idle.card] \in Job
          /\ GoodJob([job[h] EXCEPT !.at = "pay", !.card = Idle.card])
      BY IdleTyped DEF GoodJob, TypeOK, Job, HandlerAt, RanksInv
    <3>5. Jobs
      BY <2>3, <3>4, JobsGood DEF StoreCard
    <3> QED
      BY <3>2, <3>3, <3>5 DEF LevelCapped
  <2>4. CASE Upgrade(h)
    <3>1. card' = job[h].card /\ job[h].card.level + RelativeLv < LevelMax
      BY <2>4 DEF Upgrade, CopiesCapped
    <3>2. Jobs
      BY <2>4, JobsGood DEF Upgrade, Reply
    <3> QED
      BY <3>1, <3>2 DEF LevelCapped
  <2>5. CASE ~StoreCard(h) /\ ~Upgrade(h)
    <3>1. card' = card
      BY <1>4, <2>5 DEF Handle, OpenFree, OpenMedal, OpenSlot, CheckCash, GetRank, OpenChest, Pay,
         Charge, Unpaid, GetCoin, GetCard, Recover, Fail, purseVars
    <3>2. LevelCapped'
      BY <3>1 DEF LevelCapped
    <3>3. CASE OpenFree(h) \/ OpenMedal(h) \/ GetCoin(h)
      <4> DEFINE free == [Idle EXCEPT !.at = "rank", !.what = "free"]
                 medals == [Idle EXCEPT !.at = "rank", !.what = "medal"]
                 buy == [Idle EXCEPT !.at = "card", !.what = "upgrade", !.coin = coin]
      <4>1. free \in Job /\ medals \in Job /\ buy \in Job
        BY IdleTyped DEF Job, HandlerAt, TypeOK
      <4>2. GoodJob(free) /\ GoodJob(medals) /\ GoodJob(buy)
        BY Numbers DEF GoodJob, Idle, Ranks
      <4> QED
        BY <3>2, <3>3, <4>1, <4>2, JobsGood DEF OpenFree, OpenMedal, GetCoin
    <3>4. CASE OpenSlot(h)
      <4>1. PICK p \in Places :
              LET found == [Idle EXCEPT !.what = "slot", !.place = p, !.chest = slots[p],
                                        !.rank = slots[p].rank]
              IN  \/ Begin(h, [found EXCEPT !.at = "reward"])
                  \/ \E price \in Prices : Begin(h, [found EXCEPT !.at = "cash", !.due = price])
        BY <3>4 DEF OpenSlot
      <4> DEFINE found == [Idle EXCEPT !.what = "slot", !.place = p, !.chest = slots[p],
                                       !.rank = slots[p].rank]
      <4>2. slots[p] \in Chest /\ slots[p].rank \in Ranks
        BY DEF TypeOK, RanksInv
      <4>3. found \in Job /\ found.rank \in Ranks
        BY <4>2, IdleTyped DEF Job, Chest
      <4> HIDE DEF found
      <4>4. /\ [found EXCEPT !.at = "reward"] \in Job
            /\ \A price \in Prices : [found EXCEPT !.at = "cash", !.due = price] \in Job
        BY <4>3, AccountAssumption DEF Job, HandlerAt
      <4>5. /\ GoodJob([found EXCEPT !.at = "reward"])
            /\ \A price \in Prices : GoodJob([found EXCEPT !.at = "cash", !.due = price])
        BY <4>3 DEF GoodJob, Job
      <4>6. \E j \in Job : GoodJob(j) /\ Begin(h, j)
        BY <4>1, <4>4, <4>5 DEF found
      <4> QED
        BY <3>2, <4>6, JobsGood
    <3>5. CASE CheckCash(h) \/ GetRank(h) \/ Pay(h) \/ Charge(h) \/ Unpaid(h)
      <4> DEFINE checked == [job[h] EXCEPT !.at = "reward"]
                 ranked == [job[h] EXCEPT !.at = "reward", !.rank = rank]
                 paid == [job[h] EXCEPT !.at = IF job[h].what = "slot" THEN "charge" ELSE "remove",
                                        !.gain = Idle.gain]
                 charged == [job[h] EXCEPT !.at = "remove"]
      <4>1. checked \in Job /\ ranked \in Job /\ paid \in Job /\ charged \in Job
        BY IdleTyped DEF TypeOK, Job, HandlerAt
      <4>2. GoodJob(checked) /\ GoodJob(ranked) /\ GoodJob(paid) /\ GoodJob(charged)
        BY DEF GoodJob, TypeOK, Job, RanksInv
      <4> QED
        BY <3>2, <3>5, <4>1, <4>2, JobsGood DEF CheckCash, GetRank, Pay, Charge, Unpaid, Reply
    <3>6. CASE OpenChest(h)
      <4>1. CASE Goto(h, [job[h] EXCEPT !.at = "panic"])
        <5>1. /\ [job[h] EXCEPT !.at = "panic"] \in Job
              /\ GoodJob([job[h] EXCEPT !.at = "panic"])
          BY DEF TypeOK, Job, HandlerAt, GoodJob, RanksInv
        <5> QED
          BY <3>2, <4>1, <5>1, JobsGood
      <4>2. ASSUME NEW g \in Gains,
                   Goto(h, IF g.copies = 0 THEN [job[h] EXCEPT !.at = "pay", !.rank = 0, !.gain = g]
                           ELSE [job[h] EXCEPT !.at = "store", !.rank = 0, !.gain = g, !.card = card])
            PROVE  Jobs
        <5> DEFINE empty == [job[h] EXCEPT !.at = "pay", !.rank = 0, !.gain = g]
                   found == [job[h] EXCEPT !.at = "store", !.rank = 0, !.gain = g, !.card = card]
        <5>1. job[h] \in Job /\ card \in Card /\ g \in Gain
          BY AccountAssumption DEF TypeOK
        <5>2. "pay" \in HandlerAt /\ "store" \in HandlerAt /\ 0 \in Int
          BY DEF HandlerAt
        <5>3. empty \in Job /\ found \in Job
          BY <5>1, <5>2, JobUpdate, Zenon
        <5>4. GoodJob(empty)
          BY <5>1, Numbers DEF GoodJob, Job, Ranks
        <5>5. GoodJob(found)
          BY <5>1, Numbers DEF GoodJob, Job, Ranks, LevelCapped
        <5> HIDE DEF empty, found
        <5>6. Goto(h, empty) \/ Goto(h, found)
          BY <4>2 DEF empty, found
        <5> QED
          BY <5>3, <5>4, <5>5, <5>6, JobsGood
      <4> QED
        BY <3>2, <3>6, <4>1, <4>2 DEF OpenChest
    <3>7. CASE GetCard(h)
      <4> DEFINE left == card.holding - CardCost[card.level]
                 i == PriceIndex(card.level)
                 dead == [job[h] EXCEPT !.at = "panic"]
                 paid == [job[h] EXCEPT !.at = "upgrade", !.due = CoinCost[i],
                                        !.card = [level |-> card.level + 1, holding |-> left]]
      <4>1. dead \in Job /\ GoodJob(dead)
        BY DEF TypeOK, Job, HandlerAt, GoodJob, RanksInv
      <4>2. ASSUME ~IsLevelMax(card.level), i \in DOMAIN CoinCost
            PROVE  paid \in Job /\ GoodJob(paid)
        <5>1. card.level \in 0..LevelMax-2
          BY <4>2, Numbers DEF IsLevelMax, TypeOK, Card
        <5>2. CardCost[card.level] \in Nat /\ CoinCost[i] \in Nat
          BY <4>2, <5>1, AccountAssumption
        <5>3. left \in Int
          BY <5>2 DEF TypeOK, Card
        <5>4. [level |-> card.level + 1, holding |-> left] \in Card
          BY <5>1, <5>3, Numbers DEF Card
        <5>5. paid \in Job
          BY <5>2, <5>4 DEF TypeOK, Job, HandlerAt
        <5>6. card.level + RelativeLv <= LevelMax - 2
          BY <4>2, AccountAssumption DEF PriceIndex
        <5>7. job[h] \in Job /\ job[h].rank \in Ranks
          BY DEF TypeOK, RanksInv
        <5>8. paid.rank \in Ranks /\ paid.card.level = card.level + 1
          BY <5>7 DEF Job
        <5> QED
          BY <5>1, <5>5, <5>6, <5>8, Numbers DEF GoodJob
      <4>3. Reply(h) \/ \E j \in Job : GoodJob(j) /\ Goto(h, j)
        BY <3>7, <4>1, <4>2 DEF GetCard
      <4> QED
        BY <3>2, <4>3, JobsGood DEF Reply
    <3>8. CASE Recover(h) \/ Fail(h)
      BY <3>2, <3>8, JobsGood DEF Recover, Fail, Reply
    <3> QED
      BY <1>4, <2>5, <3>3, <3>4, <3>5, <3>6, <3>7, <3>8 DEF Handle
  <2> QED
    BY <2>3, <2>4, <2>5
<1> QED
  BY <1>3, <1>4

\* The steps of saveResult
LEMMA SaverStep ==
  ASSUME AccountInv, SaveResult
  PROVE  RanksInv' /\ SaverInv' /\ LevelCapped' /\ CopiesCapped'
<1> USE DEF AccountInv, purseVars
<1>1. LevelCapped' /\ CopiesCapped' /\ UNCHANGED job
  BY DEF SaveResult, ReadAccount, ChooseSlot, AwardChest, SaveLadder, SaveMedals, SaverFails,
         LevelCapped, CopiesCapped
<1>2. CASE ReadAccount
  <2>1. PICK won \in BOOLEAN, E \in SUBSET {"rank", "medal", "medal-chest"} :
          LET r == Got(E, "rank", rank)
              m == Got(E, "medal", medal)
              k == Got(E, "medal-chest", medalChest)
              after == IF won THEN AfterWin(r, m) ELSE AfterLoss(r, m)
          IN  saver' = [NotSaving EXCEPT !.at = "slots", !.won = won, !.rank = after[1],
                           !.medal = after[2], !.medals = IF won THEN k + 1 ELSE k]
    BY <1>2 DEF ReadAccount
  <2> DEFINE r == Got(E, "rank", rank)
             m == Got(E, "medal", medal)
             after == IF won THEN AfterWin(r, m) ELSE AfterLoss(r, m)
  <2>2. Fair(rank, medal, after)
    BY ReadFair
  <2> HIDE DEF after
  <2>3. saver'.rank = after[1] /\ saver'.medal = after[2]
    BY <2>1 DEF NotSaving, after
  <2>4. UNCHANGED <<rank, medal, slots>>
    BY <1>2 DEF ReadAccount, ladderVars, chestVars
  <2> QED
    BY <1>1, <2>2, <2>3, <2>4 DEF Fair, SaverInv, RanksInv
<1>3. CASE ChooseSlot
  <2>1. UNCHANGED <<rank, medal, slots>>
    BY <1>3 DEF ChooseSlot, ladderVars, chestVars
  <2>2. saver'.rank = saver.rank /\ saver'.medal = saver.medal /\ saver.at = "slots"
    BY <1>3 DEF ChooseSlot, TypeOK, Saver
  <2> QED
    BY <1>1, <2>1, <2>2 DEF SaverInv, RanksInv
<1>4. CASE AwardChest
  <2>1. UNCHANGED <<rank, medal>>
    BY <1>4 DEF AwardChest, ladderVars
  <2>2. saver'.rank = saver.rank /\ saver'.medal = saver.medal /\ saver.at = "chest"
    BY <1>4 DEF AwardChest, TypeOK, Saver
  <2>3. \A p \in Places : slots'[p].rank \in Ranks
    BY <1>4 DEF AwardChest, TypeOK, SaverInv, RanksInv
  <2> QED
    BY <1>1, <2>1, <2>2, <2>3 DEF SaverInv, RanksInv
<1>5. CASE SaveLadder
  <2>1. rank' \in {rank, saver.rank} /\ medal' \in {medal, saver.medal} /\ slots' = slots
    BY <1>5 DEF SaveLadder, chestVars
  <2>2. saver'.rank = saver.rank /\ saver'.medal = saver.medal /\ saver'.at = "medals"
    BY <1>5 DEF SaveLadder, TypeOK, Saver
  <2> QED
    BY <1>1, <2>1, <2>2 DEF SaverInv, RanksInv
<1>6. CASE SaveMedals \/ SaverFails
  <2>1. UNCHANGED <<rank, medal, slots>> /\ saver' = NotSaving
    BY <1>6 DEF SaveMedals, SaverFails, ladderVars, chestVars
  <2>2. saver'.rank = 0 /\ saver'.medal = 0 /\ saver'.at = "idle"
    BY <2>1 DEF NotSaving
  <2> QED
    BY <1>1, <2>1, <2>2, Numbers DEF SaverInv, RanksInv, Ranks
<1> QED
  BY <1>2, <1>3, <1>4, <1>5, <1>6 DEF SaveResult

LEMMA AccountStep == AccountInv /\ [Next]_vars => AccountInv'
<1> SUFFICES ASSUME AccountInv, [Next]_vars PROVE AccountInv'
  OBVIOUS
<1>1. TypeOK'
  BY TypeStep DEF AccountInv
<1>2. RanksInv' /\ SaverInv' /\ LevelCapped' /\ CopiesCapped'
  <2>1. CASE TimeOut \/ FreeDue \/ UNCHANGED vars
    BY <2>1 DEF TimeOut, FreeDue, vars, ladderVars, chestVars, purseVars, AccountInv, RanksInv,
                SaverInv, LevelCapped, CopiesCapped
  <2> QED
    BY <2>1, HandlerStep, SaverStep DEF Next
<1> QED
  BY <1>1, <1>2 DEF AccountInv

\* Account's invariant: ranks are in range, a result being saved is at most a rank away
\* from the present one, and every copy of a card is within the limit.
THEOREM AccountInvariant == Spec => []AccountInv
<1>1. Init => AccountInv
  BY AccountInit
<1>2. AccountInv /\ [Next]_vars => AccountInv'
  BY AccountStep
<1> QED
  BY <1>1, <1>2, PTL DEF Spec

\* The types of all variables of the account.
THEOREM AccountTypes == Spec => []TypeOK
<1>1. AccountInv => TypeOK
  BY DEF AccountInv
<1> QED
  BY <1>1, AccountInvariant, PTL

\* Whatever the number of ranks, medals and matches, saveResult keeps rank and medals in
\* range and every chest is opened in an arena that exists.
THEOREM RanksStay == Spec => []RankInRange
<1>1. AccountInv => RankInRange
  BY ArenaExists DEF AccountInv, RanksInv, RankInRange
<1> QED
  BY <1>1, AccountInvariant, PTL

\* A rank that RankDownLimit divides is never lost.
THEOREM FloorsStay == Spec => FloorHolds
<1>1. AccountInv /\ [Next]_vars => [rank' > rank => rank' = rank + 1 /\ rank % RankDownLimit # 0]_vars
  <2> SUFFICES ASSUME AccountInv, [Next]_vars
               PROVE  rank' > rank => rank' = rank + 1 /\ rank % RankDownLimit # 0
    OBVIOUS
  <2>1. CASE SaveLadder
    <3>1. rank' \in {rank, saver.rank} /\ saver.at = "ladder"
      BY <2>1 DEF SaveLadder
    <3>2. rank \in Int
      BY DEF AccountInv, TypeOK
    <3> QED
      BY <3>1, <3>2 DEF AccountInv, SaverInv
  <2>2. CASE ~SaveLadder
    <3>1. rank' = rank
      BY <2>2 DEF Next, Handle, OpenFree, OpenMedal, OpenSlot, CheckCash, GetRank, OpenChest,
            StoreCard, Pay, Charge, Unpaid, Remove, GetCoin, GetCard, Upgrade, Recover, Fail, SaveResult,
            ReadAccount, ChooseSlot, AwardChest, SaveMedals, SaverFails, TimeOut, FreeDue, vars,
            ladderVars
    <3>2. rank \in Int
      BY DEF AccountInv, TypeOK
    <3> QED
      BY <3>1, <3>2
  <2> QED
    BY <2>1, <2>2
<1> QED
  BY <1>1, AccountInvariant, PTL DEF Spec, FloorHolds

\* No sequence of upgrades, also side by side, takes a card above its highest level.
THEOREM LevelsStay == Spec => []LevelCapped
<1>1. AccountInv => LevelCapped
  BY DEF AccountInv
<1> QED
  BY <1>1, AccountInvariant, PTL

----------------------------------------------------------------------------
(* While no handler has outlived its time-out, at most one is busy. *)

\* What the busy handler has read still holds of the slots and the balances.
Sound(j, chests, coins, dims) ==
    /\ j.what = "slot" => j.chest = chests[j.place] /\ j.chest # NoChest
    /\ j.at \in {"rank", "reward", "store", "pay", "charge"} => j.due <= dims
    /\ j.at = "card" => j.coin <= coins
    /\ j.at = "upgrade" => j.due <= coins

\* The same after a step
SoundAfter(j) == Sound(j, slots', coin', cash')

Alone ==
    count.timeouts = 0 =>
        /\ coin >= 0 /\ cash >= 0
        /\ \A h \in Handlers : job[h].at # "idle" => waits = h /\ Sound(job[h], slots, coin, cash)

\* The slot saveResult has chosen is empty until it fills it.
SlotReserved == saver.at = "chest" => slots[saver.place] = NoChest

\* No copy of the card is below zero.
Holdings ==
    /\ card.holding >= 0
    /\ \A h \in Handlers : job[h].at \in {"store", "upgrade"} => job[h].card.holding >= 0

PurseInv == AccountInv /\ Alone /\ SlotReserved /\ Holdings

LEMMA PurseInit == Init => PurseInv
<1> SUFFICES ASSUME Init PROVE PurseInv
  OBVIOUS
<1>1. AccountInv
  BY AccountInit
<1>2. Alone
  BY Numbers DEF Init, Alone, Idle
<1>3. SlotReserved
  BY DEF Init, SlotReserved, NotSaving
<1>4. Holdings
  BY Numbers DEF Init, Holdings, Idle
<1> QED
  BY <1>1, <1>2, <1>3, <1>4 DEF PurseInv

\* A step of a handler leaves it the only busy one.
LEMMA StaysAlone ==
  ASSUME TypeOK, Alone, NEW h \in Handlers, count.timeouts = 0,
         \/ \E j \in Job : SoundAfter(j) /\ (Begin(h, j) \/ ((Goto(h, j) \/ Proceed(h, j)) /\ job[h].at # "idle"))
         \/ job[h].at # "idle" /\ End(h)
  PROVE  \A k \in Handlers : job'[k].at # "idle" => waits' = k /\ SoundAfter(job'[k])
<1>1. \A k \in Handlers : k # h => job[k].at = "idle"
  <2>1. waits = Nobody \/ waits = h
    BY DEF Begin, Alone
  <2> QED
    BY <2>1, AccountAssumption DEF Alone
<1>2. \A k \in Handlers : k # h => job'[k].at = "idle"
  BY <1>1 DEF Begin, Goto, Proceed, End, TypeOK
<1>3. job'[h].at # "idle" => waits' = h /\ SoundAfter(job'[h])
  <2>1. CASE End(h)
    BY <2>1 DEF End, TypeOK, Idle
  <2>2. ASSUME NEW j \in Job, SoundAfter(j),
               Begin(h, j) \/ ((Goto(h, j) \/ Proceed(h, j)) /\ job[h].at # "idle")
        PROVE  waits' = h /\ SoundAfter(job'[h])
    <3>1. job'[h] = j
      BY <2>2 DEF Begin, Goto, Proceed, TypeOK
    <3>2. waits' = h
      BY <2>2 DEF Begin, Goto, Proceed, Alone
    <3> QED
      BY <2>2, <3>1, <3>2 DEF Sound, SoundAfter
  <2> QED
    BY <2>1, <2>2
<1> QED
  BY <1>2, <1>3

LEMMA AloneHandler ==
  ASSUME PurseInv, NEW h \in Handlers, Handle(h)
  PROVE  Alone'
<1> USE DEF PurseInv, AccountInv
<1>1. SUFFICES ASSUME count.timeouts = 0
               PROVE  /\ coin' >= 0 /\ cash' >= 0
                      /\ \A k \in Handlers : job'[k].at # "idle" => waits' = k /\ SoundAfter(job'[k])
  <2>1. count'.timeouts = count.timeouts
    BY DEF Handle, OpenFree, OpenMedal, OpenSlot, CheckCash, GetRank, OpenChest, StoreCard, Pay,
           Charge, Unpaid, Remove, GetCoin, GetCard, Upgrade, Recover, Fail, Begin, Goto, Proceed, Reply, TypeOK
  <2> QED
    BY <2>1 DEF Alone, SoundAfter
<1> DEFINE Busy == \A k \in Handlers : job'[k].at # "idle" => waits' = k /\ SoundAfter(job'[k])
<1>2. coin \in Int /\ cash \in Int /\ coin >= 0 /\ cash >= 0 /\ job[h] \in Job
  BY <1>1 DEF Alone, TypeOK
<1>3. job[h].at # "idle" => Sound(job[h], slots, coin, cash)
  BY <1>1 DEF Alone
<1>4. CASE OpenFree(h) \/ OpenMedal(h) \/ GetCoin(h)
  <2> DEFINE free == [Idle EXCEPT !.at = "rank", !.what = "free"]
             medals == [Idle EXCEPT !.at = "rank", !.what = "medal"]
             buy == [Idle EXCEPT !.at = "card", !.what = "upgrade", !.coin = coin]
  <2>1. free \in Job /\ medals \in Job /\ buy \in Job
    BY IdleTyped DEF Job, HandlerAt, TypeOK
  <2>2. UNCHANGED <<coin, cash>>
    BY <1>4 DEF OpenFree, OpenMedal, GetCoin, purseVars
  <2>3. SoundAfter(free) /\ SoundAfter(medals) /\ SoundAfter(buy)
    BY <1>2, <2>2 DEF Sound, SoundAfter, Idle
  <2>4. \E j \in Job : SoundAfter(j) /\ Begin(h, j)
    BY <1>4, <2>1, <2>3 DEF OpenFree, OpenMedal, GetCoin
  <2>5. Busy
    BY <1>1, <2>4, StaysAlone, Zenon
  <2> QED
    BY <1>2, <2>2, <2>5
<1>5. CASE OpenSlot(h)
  <2>1. PICK p \in Places :
          /\ slots[p] # NoChest
          /\ LET found == [Idle EXCEPT !.what = "slot", !.place = p, !.chest = slots[p],
                                       !.rank = slots[p].rank]
             IN  \/ Begin(h, [found EXCEPT !.at = "reward"])
                 \/ \E price \in Prices : Begin(h, [found EXCEPT !.at = "cash", !.due = price])
    BY <1>5 DEF OpenSlot
  <2> DEFINE found == [Idle EXCEPT !.what = "slot", !.place = p, !.chest = slots[p],
                                   !.rank = slots[p].rank]
  <2>2. UNCHANGED <<coin, cash, slots>>
    BY <1>5 DEF OpenSlot, purseVars, chestVars
  <2>3. slots[p] \in Chest
    BY DEF TypeOK
  <2>4. /\ found \in Job /\ found.what = "slot" /\ found.place = p
        /\ found.chest = slots[p] /\ found.due = 0
    BY <2>3, IdleTyped DEF Job, Chest, Idle
  <2> HIDE DEF found
  <2>5. /\ [found EXCEPT !.at = "reward"] \in Job
        /\ \A price \in Prices : [found EXCEPT !.at = "cash", !.due = price] \in Job
    BY <2>4, AccountAssumption DEF Job, HandlerAt
  <2>6. SoundAfter([found EXCEPT !.at = "reward"])
    BY <1>2, <2>1, <2>2, <2>4 DEF Sound, SoundAfter, Job
  <2>7. \A price \in Prices : SoundAfter([found EXCEPT !.at = "cash", !.due = price])
    BY <2>1, <2>2, <2>4 DEF Sound, SoundAfter, Job
  <2>8. \E j \in Job : SoundAfter(j) /\ Begin(h, j)
    BY <2>1, <2>5, <2>6, <2>7 DEF found
  <2>9. Busy
    BY <1>1, <2>8, StaysAlone, Zenon
  <2> QED
    BY <1>2, <2>2, <2>9
<1>6. CASE CheckCash(h) \/ GetRank(h)
  <2> DEFINE checked == [job[h] EXCEPT !.at = "reward"]
             ranked == [job[h] EXCEPT !.at = "reward", !.rank = rank]
  <2>1. UNCHANGED <<coin, cash, slots>>
    BY <1>6 DEF CheckCash, GetRank, purseVars, chestVars
  <2>2. checked \in Job /\ ranked \in Job
    BY DEF TypeOK, Job, HandlerAt
  <2>3. job[h].at # "idle"
    BY <1>6 DEF CheckCash, GetRank
  <2>4. CASE CheckCash(h) /\ Affordable(h)
    <3>1. SoundAfter(checked)
      BY <1>2, <1>3, <2>1, <2>3, <2>4 DEF Sound, SoundAfter, Job, Affordable
    <3> QED
      BY <1>1, <1>2, <2>1, <2>2, <2>3, <2>4, <3>1, StaysAlone DEF CheckCash
  <2>5. CASE CheckCash(h) /\ ~Affordable(h)
    BY <1>1, <1>2, <2>1, <2>3, <2>5, StaysAlone DEF CheckCash, Reply
  <2>6. CASE GetRank(h)
    <3>1. SoundAfter(ranked)
      BY <1>2, <1>3, <2>1, <2>3, <2>6 DEF Sound, SoundAfter, Job, GetRank
    <3> QED
      BY <1>1, <1>2, <2>1, <2>2, <2>3, <2>6, <3>1, StaysAlone DEF GetRank
  <2> QED
    BY <1>6, <2>4, <2>5, <2>6
<1>7. CASE OpenChest(h)
  <2>1. UNCHANGED <<coin, cash, slots>> /\ job[h].at = "reward"
    BY <1>7 DEF OpenChest, purseVars, chestVars
  <2>2. CASE Goto(h, [job[h] EXCEPT !.at = "panic"])
    <3>1. [job[h] EXCEPT !.at = "panic"] \in Job /\ SoundAfter([job[h] EXCEPT !.at = "panic"])
      BY <1>2, <1>3, <2>1 DEF Job, HandlerAt, Sound, SoundAfter
    <3> QED
      BY <1>1, <1>2, <2>1, <2>2, <3>1, StaysAlone
  <2>3. ASSUME NEW g \in Gains,
               Goto(h, IF g.copies = 0 THEN [job[h] EXCEPT !.at = "pay", !.rank = 0, !.gain = g]
                       ELSE [job[h] EXCEPT !.at = "store", !.rank = 0, !.gain = g, !.card = card])
        PROVE  Busy
    <3> DEFINE empty == [job[h] EXCEPT !.at = "pay", !.rank = 0, !.gain = g]
               found == [job[h] EXCEPT !.at = "store", !.rank = 0, !.gain = g, !.card = card]
    <3>1. job[h] \in Job /\ card \in Card /\ g \in Gain
      BY AccountAssumption DEF TypeOK
    <3>2. "pay" \in HandlerAt /\ "store" \in HandlerAt /\ 0 \in Int
      BY DEF HandlerAt
    <3>3. empty \in Job /\ found \in Job
      BY <3>1, <3>2, JobUpdate, Zenon
    <3>4. SoundAfter(empty)
      BY <1>3, <2>1, <3>1 DEF Sound, SoundAfter, Job
    <3>5. SoundAfter(found)
      BY <1>3, <2>1, <3>1 DEF Sound, SoundAfter, Job
    <3> HIDE DEF empty, found
    <3>6. Goto(h, empty) \/ Goto(h, found)
      BY <2>3 DEF empty, found
    <3> QED
      BY <1>1, <2>1, <3>3, <3>4, <3>5, <3>6, StaysAlone
  <2> QED
    BY <1>2, <1>7, <2>1, <2>2, <2>3 DEF OpenChest
<1>8. CASE StoreCard(h)
  <2> DEFINE j == [job[h] EXCEPT !.at = "pay", !.card = Idle.card]
  <2>1. UNCHANGED <<coin, cash, slots>> /\ job[h].at = "store" /\ Goto(h, j)
    BY <1>8 DEF StoreCard, chestVars
  <2>2. j \in Job
    BY IdleTyped DEF TypeOK, Job, HandlerAt
  <2>3. SoundAfter(j)
    BY <1>2, <1>3, <2>1 DEF Sound, SoundAfter, Job
  <2> HIDE DEF j
  <2> QED
    BY <1>1, <1>2, <2>1, <2>2, <2>3, StaysAlone
<1>9. CASE Pay(h)
  <2> DEFINE j == [job[h] EXCEPT !.at = IF job[h].what = "slot" THEN "charge" ELSE "remove",
                                 !.gain = Idle.gain]
  <2>1. slots' = slots /\ job[h].at = "pay" /\ Goto(h, j)
    BY <1>9 DEF Pay, chestVars
  <2>2. coin' \in Int /\ cash' \in Int /\ coin' >= coin /\ cash' >= cash
    BY <1>2, <1>9 DEF Pay, Job, Gain
  <2>3. j \in Job
    BY IdleTyped DEF TypeOK, Job, HandlerAt
  <2>4. SoundAfter(j)
    BY <1>2, <1>3, <2>1, <2>2 DEF Sound, SoundAfter, Job
  <2> HIDE DEF j
  <2> QED
    BY <1>1, <1>2, <2>1, <2>2, <2>3, <2>4, StaysAlone
<1>10. CASE Charge(h)
  <2> DEFINE j == [job[h] EXCEPT !.at = "remove"]
  <2>1. UNCHANGED <<coin, slots>> /\ cash' = cash - job[h].due /\ job[h].at = "charge" /\ Goto(h, j)
    BY <1>10 DEF Charge, chestVars
  <2>2. cash' >= 0
    BY <1>2, <1>3, <2>1 DEF Sound, SoundAfter, Job
  <2>3. j \in Job
    BY DEF TypeOK, Job, HandlerAt
  <2>4. SoundAfter(j)
    BY <1>2, <1>3, <2>1 DEF Sound, SoundAfter, Job
  <2> HIDE DEF j
  <2> QED
    BY <1>1, <1>2, <2>1, <2>2, <2>3, <2>4, StaysAlone
<1>14. CASE Unpaid(h)
  <2> DEFINE j == [job[h] EXCEPT !.at = "remove"]
  <2>1. UNCHANGED <<coin, cash, slots>> /\ job[h].at = "charge" /\ Proceed(h, j)
    BY <1>14 DEF Unpaid, chestVars, purseVars
  <2>2. j \in Job
    BY DEF TypeOK, Job, HandlerAt
  <2>3. SoundAfter(j)
    BY <1>2, <1>3, <2>1 DEF Sound, SoundAfter, Job
  <2> HIDE DEF j
  <2> QED
    BY <1>1, <1>2, <2>1, <2>2, <2>3, StaysAlone
<1>11. CASE GetCard(h)
  <2> DEFINE left == card.holding - CardCost[card.level]
             i == PriceIndex(card.level)
             dead == [job[h] EXCEPT !.at = "panic"]
             paid == [job[h] EXCEPT !.at = "upgrade", !.due = CoinCost[i],
                                    !.card = [level |-> card.level + 1, holding |-> left]]
  <2>1. UNCHANGED <<coin, cash, slots>> /\ job[h].at = "card"
    BY <1>11 DEF GetCard, purseVars, chestVars
  <2>2. dead \in Job /\ SoundAfter(dead)
    BY <1>2, <1>3, <2>1 DEF Sound, SoundAfter, Job, HandlerAt
  <2>3. ASSUME ~IsLevelMax(card.level), i \in DOMAIN CoinCost, CoinCost[i] <= job[h].coin
        PROVE  paid \in Job /\ SoundAfter(paid)
    <3>1. card.level \in 0..LevelMax-2
      BY <2>3, Numbers DEF IsLevelMax, TypeOK, Card
    <3>2. CardCost[card.level] \in Nat /\ CoinCost[i] \in Nat
      BY <2>3, <3>1, AccountAssumption
    <3>3. left \in Int
      BY <3>2 DEF TypeOK, Card
    <3>4. [level |-> card.level + 1, holding |-> left] \in Card
      BY <3>1, <3>3, Numbers DEF Card
    <3>5. paid \in Job
      BY <3>2, <3>4 DEF TypeOK, Job, HandlerAt
    <3>6. job[h].coin <= coin /\ job[h].coin \in Int
      BY <1>2, <1>3, <2>1 DEF Sound, SoundAfter, Job
    <3>7. CoinCost[i] <= coin
      BY <1>2, <2>3, <3>2, <3>6
    <3>8. paid.due = CoinCost[i] /\ paid.at = "upgrade" /\ paid.what = job[h].what
          /\ paid.chest = job[h].chest /\ paid.place = job[h].place
      BY <1>2 DEF Job
    <3> QED
      BY <1>3, <2>1, <3>5, <3>7, <3>8 DEF Sound, SoundAfter
  <2>4. Reply(h) \/ \E j \in Job : SoundAfter(j) /\ Goto(h, j)
    <3>1. \/ Reply(h) \/ Goto(h, dead)
          \/ ~IsLevelMax(card.level) /\ i \in DOMAIN CoinCost /\ ~(CoinCost[i] > job[h].coin) /\ Goto(h, paid)
      BY <1>11 DEF GetCard
    <3>2. i \in DOMAIN CoinCost => CoinCost[i] \in Nat
      BY AccountAssumption
    <3>3. job[h].coin \in Int
      BY <1>2 DEF Job
    <3> HIDE DEF dead, paid, i
    <3> QED
      BY <2>2, <2>3, <3>1, <3>2, <3>3
  <2> QED
    BY <1>1, <1>2, <2>1, <2>4, StaysAlone DEF Reply
<1>12. CASE Upgrade(h)
  <2>1. cash' = cash /\ coin' = coin - job[h].due /\ job[h].at = "upgrade" /\ End(h)
    BY <1>12 DEF Upgrade, Reply
  <2>2. coin' >= 0
    BY <1>2, <1>3, <2>1 DEF Sound, SoundAfter, Job
  <2> QED
    BY <1>1, <1>2, <2>1, <2>2, StaysAlone
<1>13. CASE Remove(h) \/ Recover(h) \/ Fail(h)
  <2>1. UNCHANGED <<coin, cash>> /\ job[h].at # "idle" /\ End(h)
    BY <1>13 DEF Remove, Recover, Fail, Reply, purseVars
  <2> QED
    BY <1>1, <1>2, <2>1, StaysAlone
<1> QED
  BY <1>4, <1>5, <1>6, <1>7, <1>8, <1>9, <1>10, <1>11, <1>12, <1>13, <1>14 DEF Handle

\* Only copies that are not below zero are read and computed.
LEMMA HoldingsHandler ==
  ASSUME PurseInv, NEW h \in Handlers, Handle(h)
  PROVE  Holdings'
<1> USE DEF PurseInv, AccountInv
<1> DEFINE Fit(j) == j.at \in {"store", "upgrade"} => j.card.holding >= 0
<1>1. job[h] \in Job /\ card \in Card /\ card.holding >= 0 /\ \A k \in Handlers : Fit(job[k])
  BY DEF TypeOK, Holdings
<1>2. SUFFICES card'.holding >= 0 /\ Fit(job'[h])
  <2>1. \A k \in Handlers : k # h => job'[k] = job[k]
    BY DEF Handle, OpenFree, OpenMedal, OpenSlot, CheckCash, GetRank, OpenChest, StoreCard, Pay,
           Charge, Unpaid, Remove, GetCoin, GetCard, Upgrade, Recover, Fail, Begin, Goto, Proceed, Reply, End, TypeOK
  <2> QED
    BY <1>1, <2>1 DEF Holdings
<1>3. CASE StoreCard(h)
  <2>1. card'.holding = job[h].card.holding + job[h].gain.copies /\ job[h].at = "store"
    BY <1>1, <1>3 DEF StoreCard, Job, Card
  <2>2. job'[h].at = "pay"
    BY <1>1, <1>3 DEF StoreCard, Goto, Proceed, Job, TypeOK
  <2> QED
    BY <1>1, <2>1, <2>2 DEF Job, Card, Gain
<1>4. CASE Upgrade(h)
  BY <1>1, <1>4 DEF Upgrade, Reply, End, Idle, TypeOK
<1>5. CASE GetCard(h)
  <2> DEFINE left == card.holding - CardCost[card.level]
  <2>1. card' = card
    BY <1>5 DEF GetCard, purseVars
  <2>2. job'[h].at \in {"store", "upgrade"} => left >= 0 /\ job'[h].card.holding = left
    <3>1. ~IsLevelMax(card.level) => left \in Int
      <4>1. ~IsLevelMax(card.level) => card.level \in 0..LevelMax-2
        BY <1>1, Numbers DEF IsLevelMax, Card
      <4> QED
        BY <1>1, <4>1, AccountAssumption DEF Card
    <3> DEFINE i == PriceIndex(card.level)
               dead == [job[h] EXCEPT !.at = "panic"]
               paid == [job[h] EXCEPT !.at = "upgrade", !.due = CoinCost[i],
                                      !.card = [level |-> card.level + 1, holding |-> left]]
    <3>2. \/ job'[h] = Idle \/ job'[h] = dead
          \/ ~IsLevelMax(card.level) /\ ~(left < 0) /\ job'[h] = paid
      BY <1>5 DEF GetCard, Goto, Proceed, Reply, End, TypeOK
    <3>3. /\ Idle.at = "idle" /\ dead.at = "panic"
          /\ paid.card.holding = left
      BY <1>1 DEF Idle, Job
    <3> HIDE DEF i, dead, paid
    <3> HIDE DEF left
    <3> QED
      BY <3>1, <3>2, <3>3
  <2> QED
    BY <1>1, <2>1, <2>2
<1>6. CASE OpenChest(h)
  <2>1. card' = card
    BY <1>6 DEF OpenChest, purseVars
  <2>2. CASE Goto(h, [job[h] EXCEPT !.at = "panic"])
    <3>1. job'[h].at = "panic"
      BY <1>1, <2>2 DEF Goto, Proceed, TypeOK, Job
    <3> QED
      BY <1>1, <2>1, <3>1
  <2>3. ASSUME NEW g \in Gains,
               Goto(h, IF g.copies = 0 THEN [job[h] EXCEPT !.at = "pay", !.rank = 0, !.gain = g]
                       ELSE [job[h] EXCEPT !.at = "store", !.rank = 0, !.gain = g, !.card = card])
        PROVE  Fit(job'[h])
    <3> DEFINE empty == [job[h] EXCEPT !.at = "pay", !.rank = 0, !.gain = g]
               found == [job[h] EXCEPT !.at = "store", !.rank = 0, !.gain = g, !.card = card]
    <3>1. empty.at = "pay" /\ found.card = card
      BY <1>1 DEF Job
    <3> HIDE DEF empty, found
    <3>2. job'[h] = empty \/ job'[h] = found
      BY <2>3 DEF Goto, Proceed, TypeOK, empty, found
    <3> QED
      BY <1>1, <3>1, <3>2
  <2> QED
    BY <1>1, <1>6, <2>1, <2>2, <2>3 DEF OpenChest
<1>7. CASE Handle(h) /\ ~(StoreCard(h) \/ Upgrade(h) \/ GetCard(h) \/ OpenChest(h))
  <2>1. card' = card
    BY <1>7 DEF Handle, OpenFree, OpenMedal, OpenSlot, CheckCash, GetRank, Pay,
           Charge, Unpaid, Remove, GetCoin, Recover, Fail, purseVars
  <2>2. CASE OpenFree(h) \/ OpenMedal(h) \/ GetCoin(h)
    <3> DEFINE free == [Idle EXCEPT !.at = "rank", !.what = "free"]
               medals == [Idle EXCEPT !.at = "rank", !.what = "medal"]
               buy == [Idle EXCEPT !.at = "card", !.what = "upgrade", !.coin = coin]
    <3>1. free.at = "rank" /\ medals.at = "rank" /\ buy.at = "card"
      BY IdleTyped DEF Job
    <3> HIDE DEF free, medals, buy
    <3>2. Begin(h, free) \/ Begin(h, medals) \/ Begin(h, buy)
      BY <2>2 DEF OpenFree, OpenMedal, GetCoin, free, medals, buy
    <3>3. job'[h].at \in {"rank", "card"}
      BY <3>1, <3>2 DEF Begin, TypeOK
    <3> QED
      BY <1>1, <2>1, <3>3
  <2>3. CASE OpenSlot(h)
    <3>1. PICK p \in Places :
            LET found == [Idle EXCEPT !.what = "slot", !.place = p, !.chest = slots[p],
                                      !.rank = slots[p].rank]
            IN  \/ Begin(h, [found EXCEPT !.at = "reward"])
                \/ \E price \in Prices : Begin(h, [found EXCEPT !.at = "cash", !.due = price])
      BY <2>3 DEF OpenSlot
    <3> DEFINE found == [Idle EXCEPT !.what = "slot", !.place = p, !.chest = slots[p],
                                     !.rank = slots[p].rank]
    <3>2. found \in Job
      BY IdleTyped DEF Job, TypeOK, Chest
    <3> HIDE DEF found
    <3>3. /\ [found EXCEPT !.at = "reward"].at = "reward"
          /\ \A price \in Prices : [found EXCEPT !.at = "cash", !.due = price].at = "cash"
      BY <3>2 DEF Job
    <3>4. \/ job'[h] = [found EXCEPT !.at = "reward"]
          \/ \E price \in Prices : job'[h] = [found EXCEPT !.at = "cash", !.due = price]
      BY <3>1 DEF Begin, TypeOK, found
    <3>5. job'[h].at \in {"reward", "cash"}
      BY <3>3, <3>4
    <3> QED
      BY <1>1, <2>1, <3>5
  <2>4. CASE CheckCash(h) \/ GetRank(h) \/ Pay(h) \/ Charge(h) \/ Unpaid(h)
    <3> DEFINE checked == [job[h] EXCEPT !.at = "reward"]
               ranked == [job[h] EXCEPT !.at = "reward", !.rank = rank]
               paid == [job[h] EXCEPT !.at = IF job[h].what = "slot" THEN "charge" ELSE "remove",
                                      !.gain = Idle.gain]
               charged == [job[h] EXCEPT !.at = "remove"]
    <3>1. /\ checked.at = "reward" /\ ranked.at = "reward" /\ paid.at \in {"charge", "remove"}
          /\ charged.at = "remove" /\ Idle.at = "idle"
      BY <1>1 DEF Job, Idle
    <3> HIDE DEF checked, ranked, paid, charged
    <3>2. job'[h] \in {checked, ranked, paid, charged, Idle}
      BY <2>4 DEF CheckCash, GetRank, Pay, Charge, Unpaid, Goto, Proceed, Reply, End, TypeOK,
                  checked, ranked, paid, charged
    <3>3. job'[h].at \in {"idle", "reward", "charge", "remove"}
      BY <3>1, <3>2
    <3> QED
      BY <1>1, <2>1, <3>3
  <2>5. CASE Remove(h) \/ Recover(h) \/ Fail(h)
    <3>1. job'[h].at = "idle"
      BY <2>5 DEF Remove, Recover, Fail, Reply, End, Idle, TypeOK
    <3> QED
      BY <1>1, <2>1, <3>1
  <2> QED
    BY <1>7, <2>2, <2>3, <2>4, <2>5 DEF Handle
<1> QED
  BY <1>3, <1>4, <1>5, <1>6, <1>7

\* saveResult takes an empty slot, and nobody else fills one.
LEMMA ReservedStep == PurseInv /\ [Next]_vars => SlotReserved'
<1> SUFFICES ASSUME PurseInv, [Next]_vars PROVE SlotReserved'
  OBVIOUS
<1> USE DEF PurseInv, AccountInv
<1>1. CASE \E h \in Handlers : Handle(h)
  <2>1. PICK h \in Handlers : Handle(h)
    BY <1>1
  <2>2. saver' = saver
    BY <2>1 DEF Handle, OpenFree, OpenMedal, OpenSlot, CheckCash, GetRank, OpenChest, StoreCard, Pay,
           Charge, Unpaid, Remove, GetCoin, GetCard, Upgrade, Recover, Fail
  <2>3. \A p \in Places : slots'[p] = slots[p] \/ slots'[p] = NoChest
    BY <2>1 DEF Handle, OpenFree, OpenMedal, OpenSlot, CheckCash, GetRank, OpenChest, StoreCard, Pay,
           Charge, Unpaid, Remove, GetCoin, GetCard, Upgrade, Recover, Fail, chestVars, Emptied, TypeOK
  <2>4. saver.place \in Places
    BY DEF TypeOK, Saver
  <2> QED
    BY <2>2, <2>3, <2>4 DEF SlotReserved
<1>2. CASE ChooseSlot
  <2>1. slots' = slots /\ saver \in Saver
    BY <1>2 DEF ChooseSlot, chestVars, TypeOK
  <2>2. CASE saver' = [saver EXCEPT !.at = "ladder"]
    BY <2>1, <2>2 DEF SlotReserved, Saver
  <2>3. ASSUME NEW p \in Places, slots[p] = NoChest,
               saver' = [saver EXCEPT !.at = "chest", !.place = p]
        PROVE  SlotReserved'
    <3>1. saver'.place = p
      BY <2>1, <2>3 DEF Saver
    <3> QED
      BY <2>1, <2>3, <3>1 DEF SlotReserved
  <2> QED
    BY <1>2, <2>2, <2>3 DEF ChooseSlot, EmptySlots
<1>3. CASE ReadAccount \/ AwardChest \/ SaveLadder \/ SaveMedals \/ SaverFails
  <2>1. saver'.at \in {"slots", "ladder", "medals", "idle"}
    BY <1>3, IdleTyped DEF ReadAccount, AwardChest, SaveLadder, SaveMedals, SaverFails, TypeOK,
                           Saver, NotSaving
  <2> QED
    BY <2>1 DEF SlotReserved
<1>4. CASE TimeOut \/ FreeDue \/ UNCHANGED vars
  BY <1>4 DEF TimeOut, FreeDue, vars, chestVars, SlotReserved
<1> QED
  BY <1>1, <1>2, <1>3, <1>4 DEF Next, SaveResult

LEMMA PurseStep == PurseInv /\ [Next]_vars => PurseInv'
<1> SUFFICES ASSUME PurseInv, [Next]_vars PROVE PurseInv'
  OBVIOUS
<1>1. AccountInv' /\ SlotReserved'
  BY AccountStep, ReservedStep DEF PurseInv
<1>2. Alone' /\ Holdings'
  <2>1. CASE \E h \in Handlers : Handle(h)
    BY <2>1, AloneHandler, HoldingsHandler
  <2>2. CASE SaveResult
    <3>1. UNCHANGED <<coin, cash, card, job, waits>> /\ count'.timeouts = count.timeouts
      BY <2>2 DEF SaveResult, ReadAccount, ChooseSlot, AwardChest, SaveLadder, SaveMedals,
                  SaverFails, purseVars, PurseInv, AccountInv, TypeOK
    <3>2. \A p \in Places : slots[p] # NoChest => slots'[p] = slots[p]
      BY <2>2 DEF SaveResult, ReadAccount, ChooseSlot, AwardChest, SaveLadder, SaveMedals,
                  SaverFails, chestVars, PurseInv, SlotReserved, AccountInv, TypeOK
    <3>3. \A h \in Handlers : job[h].place \in Places
      BY DEF PurseInv, AccountInv, TypeOK, Job
    <3> QED
      BY <3>1, <3>2, <3>3 DEF PurseInv, Alone, Holdings, Sound
  <2>3. CASE TimeOut
    <3>1. count'.timeouts # 0
      BY <2>3 DEF TimeOut, PurseInv, AccountInv, TypeOK
    <3> QED
      BY <2>3, <3>1 DEF TimeOut, PurseInv, Alone, Holdings, purseVars
  <2>4. CASE FreeDue \/ UNCHANGED vars
    BY <2>4 DEF FreeDue, vars, purseVars, PurseInv, Alone, Holdings, Sound
  <2> QED
    BY <2>1, <2>2, <2>3, <2>4 DEF Next
<1> QED
  BY <1>1, <1>2 DEF PurseInv

\* The invariant of the purse: while no handler has outlived its time-out, the only busy
\* handler has read what is still there.
THEOREM PurseInvariant == Spec => []PurseInv
<1> QED
  BY PurseInit, PurseStep, PTL DEF Spec

\* While no handler has outlived its time-out, nothing is spent that is not there, although
\* the checks of openChest and cardUpgrade come long before they pay.
THEOREM BalancesHold == Spec => []Balances
<1>1. PurseInv => Balances
  BY DEF PurseInv, Alone, Holdings, Balances
<1> QED
  BY <1>1, PurseInvariant, PTL

\* While no handler has outlived its time-out, a chest disappears only when the very chest
\* was opened, although saveResult fills slots meanwhile.
THEOREM ChestsStay == Spec => ChestsKept
<1> DEFINE Opened(p) == /\ slots'[p] = NoChest
                        /\ \E h \in Handlers : /\ job[h].at = "remove" /\ job[h].what = "slot"
                                               /\ job[h].place = p /\ job[h].chest = slots[p]
           Kept == count.timeouts = 0 =>
                       \A p \in Places : slots[p] # NoChest /\ slots'[p] # slots[p] => Opened(p)
<1>1. PurseInv /\ [Next]_vars => [Kept]_vars
  <2> SUFFICES ASSUME PurseInv, [Next]_vars, count.timeouts = 0, NEW p \in Places,
                      slots[p] # NoChest, slots'[p] # slots[p]
               PROVE  Opened(p)
    OBVIOUS
  <2> USE DEF PurseInv, AccountInv
  <2>1. ~SaveResult
    BY DEF SaveResult, ReadAccount, ChooseSlot, AwardChest, SaveLadder, SaveMedals,
           SaverFails, chestVars, SlotReserved, TypeOK
  <2>2. PICK h \in Handlers : Remove(h)
    BY <2>1 DEF Next, Handle, OpenFree, OpenMedal, OpenSlot, CheckCash, GetRank, OpenChest,
           StoreCard, Pay, Charge, Unpaid, GetCoin, GetCard, Upgrade, Recover, Fail, TimeOut, FreeDue,
           vars, chestVars
  <2>3. slots' = Emptied(job[h].place) /\ job[h].what = "slot" /\ job[h].at = "remove"
    BY <2>2 DEF Remove
  <2>4. p = job[h].place /\ slots'[p] = NoChest
    BY <2>3 DEF Emptied, TypeOK
  <2> QED
    BY <2>3, <2>4 DEF Alone, Sound
<1> QED
  BY <1>1, PurseInvariant, PTL DEF Spec, ChestsKept

-----------------------------------------------------------------------------
(* Every chest can be opened: no draw of OpenChest is out of range.        *)

\* What OpenChest needs of the table: however many of the three extra cards are drawn,
\* the common ones alone are enough for all bundles, and there are few of the others.
Bounded(info, arena) ==
    /\ \A r \in Rarities \ {"Common"} : info.guaranteed[r][arena + 1] \in Nat
    /\ info.guaranteed.Legendary[arena + 1] <= 3
    /\ info.bundleMin \in 2..5 /\ info.cards[arena + 1] \in Nat
    /\ info.cards[arena + 1] - info.guaranteed.Rare[arena + 1]
         - info.guaranteed.Epic[arena + 1] - info.guaranteed.Legendary[arena + 1] - 3
           >= info.bundleMin
    /\ info.cash # {} /\ info.gold # {}

LEMMA TableBounded ==
    ASSUME NEW name \in ChestNames, NEW arena \in 0..5
    PROVE  Bounded(Table(name), arena)
<1> arena \in {0, 1, 2, 3, 4, 5}
  OBVIOUS
<1>1. CASE name = "Silver"
  BY <1>1, SMTT(30) DEF Table, Bounded, Rarities, None
<1>2. CASE name = "Gold"
  BY <1>2, SMTT(30) DEF Table, Bounded, Rarities, None
<1>3. CASE name = "Diamond"
  BY <1>3, SMTT(30) DEF Table, Bounded, Rarities, None
<1>4. CASE name = "D-Matter"
  BY <1>4, SMTT(30) DEF Table, Bounded, Rarities, None
<1>5. CASE name = "E-Matter"
  BY <1>5, SMTT(30) DEF Table, Bounded, Rarities, None
<1>6. CASE name = "Free"
  BY <1>6, SMTT(30) DEF Table, Bounded, Rarities, None
<1>7. CASE name = "Medal"
  BY <1>7, SMTT(30) DEF Table, Bounded, Rarities, None
<1>8. CASE name = "Training"
  BY <1>8, SMTT(30) DEF Table, Bounded, Rarities, None
<1> QED
  BY <1>1, <1>2, <1>3, <1>4, <1>5, <1>6, <1>7, <1>8, Zenon DEF ChestNames

\* The numbers of cards OpenChest comes to
LEMMA CardsCounted ==
    ASSUME NEW name \in ChestNames, NEW arena \in 0..5, NEW x \in Extras(Table(name), arena)
    PROVE  LET cards == CardCount(Table(name), arena, x) IN
           /\ cards \in [Rarities -> Nat]
           /\ cards.Common >= Table(name).bundleMin /\ cards.Legendary <= 4
<1> DEFINE info == Table(name)
           special == [r \in DOMAIN x |-> info.guaranteed[r][arena + 1] + x[r]]
           common == info.cards[arena + 1] - special.Rare - special.Epic - special.Legendary
<1>1. x \in [Rarities \ {"Common"} -> 0..1]
  BY DEF Extras
<1>2. Bounded(info, arena)
  BY TableBounded
<1> HIDE DEF info
<1>3. \A r \in Rarities \ {"Common"} :
          special[r] \in Nat /\ special[r] <= info.guaranteed[r][arena + 1] + 1
  BY <1>1, <1>2 DEF Bounded
<1>4. special.Legendary <= 4
  BY <1>1, <1>2 DEF Bounded, Rarities
<1> HIDE DEF special
<1>5. common \in Nat /\ common >= info.bundleMin
  BY <1>2, <1>3 DEF Bounded, Rarities
<1>6. CardCount(info, arena, x) = [r \in Rarities |-> IF r = "Common" THEN common ELSE special[r]]
  BY DEF CardCount, special
<1> HIDE DEF common
<1> QED
  BY <1>3, <1>4, <1>5, <1>6 DEF info, Rarities

\* There is a way to split the cards into bundles: all further bundles may be common ones.
LEMMA BundlesExist ==
    ASSUME NEW info, NEW cards \in [Rarities -> Nat], info.bundleMin \in 2..5,
           cards.Common >= info.bundleMin
    PROVE  BundleCounts(info, cards) # {}
<1> DEFINE held == Held(cards)
           due == BundlesDue(info, cards)
           b == [held EXCEPT !.Common = due - held.Rare - held.Epic - held.Legendary]
<1>1. /\ held \in [Rarities -> 0..1] /\ held.Common = 1
      /\ \A r \in Rarities : held[r] = 1 <=> cards[r] > 0
  BY DEF Held, Rarities
<1> HIDE DEF held
<1>2. /\ due \in Nat /\ due >= Total(held)
      /\ due = info.bundleMin \/ due = Total(held)
      /\ Total(held) = held.Common + held.Rare + held.Epic + held.Legendary
  BY <1>1 DEF BundlesDue, Total, held, Rarities
<1> HIDE DEF due
<1>3. b \in [Rarities -> 0..due] /\ Total(b) = due
  BY <1>1, <1>2 DEF Total, Rarities
<1>4. b.Common \in 1..cards.Common
  BY <1>1, <1>2 DEF Rarities
<1>5. \A r \in Rarities : IF cards[r] > 0 THEN b[r] \in 1..cards[r] ELSE b[r] = 0
  BY <1>1, <1>4 DEF Rarities
<1>6. b \in BundleCounts(info, cards)
  BY <1>3, <1>5 DEF BundleCounts, due
<1> QED
  BY <1>6

\* Every chest can be opened in every arena.
LEMMA ChestsOpenable ==
    ASSUME NEW name \in ChestNames, NEW arena \in 0..5
    PROVE  <<name, arena>> \in Openable
<1> DEFINE info == Table(name)
<1>1. Bounded(info, arena)
  BY TableBounded
<1>2. info.bundleMin \in 2..5 /\ info.cash # {} /\ info.gold # {}
  BY <1>1 DEF Bounded
<1> HIDE DEF info
<1>3. ASSUME NEW x \in Extras(info, arena)
      PROVE  LET cards == CardCount(info, arena, x) IN
             /\ BundleCounts(info, cards) # {}
             /\ \A b \in BundleCounts(info, cards) : Drawn(b, cards, arena)
  <2> DEFINE cards == CardCount(info, arena, x)
  <2>1. cards \in [Rarities -> Nat] /\ cards.Common >= info.bundleMin /\ cards.Legendary <= 4
    BY CardsCounted DEF info
  <2> HIDE DEF cards
  <2>2. BundleCounts(info, cards) # {}
    BY <1>2, <2>1, BundlesExist
  <2>3. BundlesDue(info, cards) \in 0..5
    BY <1>2, <2>1 DEF BundlesDue, Total, Held, Rarities
  <2>4. ASSUME NEW b \in BundleCounts(info, cards), NEW r \in Rarities, b[r] > 0
        PROVE  b[r] <= PoolSize(r, arena) /\ b[r] - 1 <= cards[r] - 1
    <3>1. b[r] \in 0..5 /\ b[r] <= cards[r]
      BY <2>1, <2>3, <2>4 DEF BundleCounts
    <3>2. CASE r = "Legendary"
      BY <2>1, <3>1, <3>2 DEF PoolSize
    <3>3. CASE r # "Legendary"
      BY <2>1, <3>1, <3>3 DEF PoolSize, Rarities
    <3> QED
      BY <3>2, <3>3
  <2>5. \A b \in BundleCounts(info, cards) : Drawn(b, cards, arena)
    BY <2>4 DEF Drawn
  <2> QED
    BY <2>2, <2>5 DEF cards
<1>4. Opens(name, arena)
  BY <1>2, <1>3 DEF Opens, info
<1>5. [name |-> name, arena |-> arena] \in [name : ChestNames, arena : 0..5]
  OBVIOUS
<1> QED
  BY <1>4, <1>5 DEF Openable

\* What a handler is doing fits what it was asked for, and its chest is one of the table.
Fitting(j) ==
    /\ j.what = "slot" => j.chest.name \in ChestNames
    /\ j.at = "cash" => j.what = "slot"
    /\ j.at = "rank" => j.what \in {"free", "medal"}
    /\ j.at = "reward" => j.what \in {"free", "medal", "slot"}
    /\ j.at \in {"card", "panic"} => j.what = "upgrade"

ChestInv ==
    /\ \A p \in Places : slots[p] # NoChest => slots[p].name \in ChestNames
    /\ \A h \in Handlers : Fitting(job[h])

LEMMA ChestInit == Init => ChestInv
BY DEF Init, ChestInv, Fitting, Idle

\* A handler that goes on fittingly
LEMMA FittingStep ==
    ASSUME TypeOK, ChestInv, NEW h \in Handlers,
           \/ \E j : Fitting(j) /\ (Begin(h, j) \/ Goto(h, j) \/ Proceed(h, j))
           \/ End(h)
    PROVE  \A k \in Handlers : Fitting(job'[k])
<1>1. Fitting(Idle)
  BY DEF Fitting, Idle
<1> QED
  BY <1>1 DEF TypeOK, ChestInv, Begin, Goto, Proceed, End

LEMMA ChestHandler ==
    ASSUME AccountInv, ChestInv, NEW h \in Handlers, Handle(h)
    PROVE  \A k \in Handlers : Fitting(job'[k])
<1> USE DEF AccountInv
<1>1. job[h] \in Job /\ Fitting(job[h])
  BY DEF TypeOK, ChestInv
<1>2. CASE OpenFree(h) \/ OpenMedal(h) \/ GetCoin(h)
  <2>1. /\ Fitting([Idle EXCEPT !.at = "rank", !.what = "free"])
        /\ Fitting([Idle EXCEPT !.at = "rank", !.what = "medal"])
        /\ Fitting([Idle EXCEPT !.at = "card", !.what = "upgrade", !.coin = coin])
    BY DEF Fitting, Idle
  <2> QED
    BY <1>2, <2>1, FittingStep DEF OpenFree, OpenMedal, GetCoin
<1>3. CASE OpenSlot(h)
  <2>1. PICK p \in Places :
          LET found == [Idle EXCEPT !.what = "slot", !.place = p, !.chest = slots[p],
                                    !.rank = slots[p].rank]
          IN  /\ slots[p] # NoChest
              /\ \/ Begin(h, [found EXCEPT !.at = "reward"])
                 \/ \E price \in Prices : Begin(h, [found EXCEPT !.at = "cash", !.due = price])
    BY <1>3 DEF OpenSlot
  <2> DEFINE found == [Idle EXCEPT !.what = "slot", !.place = p, !.chest = slots[p],
                                   !.rank = slots[p].rank]
  <2>2. slots[p].name \in ChestNames
    BY <2>1 DEF ChestInv
  <2>3. /\ Fitting([found EXCEPT !.at = "reward"])
        /\ \A price \in Prices : Fitting([found EXCEPT !.at = "cash", !.due = price])
    BY <2>2 DEF Fitting, Idle
  <2> HIDE DEF found
  <2>4. \E j : Fitting(j) /\ Begin(h, j)
    BY <2>1, <2>3 DEF found
  <2> QED
    BY <2>4, FittingStep
<1>4. CASE CheckCash(h) \/ GetRank(h) \/ StoreCard(h) \/ Pay(h) \/ Charge(h) \/ Unpaid(h)
  <2>1. /\ job[h].at \in {"cash", "rank"} => /\ Fitting([job[h] EXCEPT !.at = "reward"])
                                             /\ Fitting([job[h] EXCEPT !.at = "reward", !.rank = rank])
        /\ Fitting([job[h] EXCEPT !.at = "pay", !.card = Idle.card])
        /\ Fitting([job[h] EXCEPT !.at = IF job[h].what = "slot" THEN "charge" ELSE "remove",
                                  !.gain = Idle.gain])
        /\ Fitting([job[h] EXCEPT !.at = "remove"])
    BY <1>1 DEF Fitting, Job
  <2> QED
    BY <1>4, <2>1, FittingStep DEF CheckCash, GetRank, StoreCard, Pay, Charge, Unpaid, Reply
<1>5. CASE OpenChest(h)
  <2>1. ChestName(job[h]) \in ChestNames
    BY <1>1, <1>5 DEF OpenChest, Fitting, ChestName, ChestNames
  <2>2. Arena(job[h].rank) \in 0..5
    <3>1. Arena(job[h].rank) \in 0..ArenaCount-1
      BY ArenaExists DEF RanksInv
    <3> QED
      BY <3>1, AccountAssumption
  <2>3. PICK g \in Gains :
          Goto(h, IF g.copies = 0 THEN [job[h] EXCEPT !.at = "pay", !.rank = 0, !.gain = g]
                  ELSE [job[h] EXCEPT !.at = "store", !.rank = 0, !.gain = g, !.card = card])
    BY <1>5, <2>1, <2>2, ChestsOpenable DEF OpenChest
  <2>4. /\ Fitting([job[h] EXCEPT !.at = "pay", !.rank = 0, !.gain = g])
        /\ Fitting([job[h] EXCEPT !.at = "store", !.rank = 0, !.gain = g, !.card = card])
    BY <1>1 DEF Fitting, Job
  <2> QED
    BY <2>3, <2>4, FittingStep
<1>6. CASE GetCard(h)
  <2>1. /\ Fitting([job[h] EXCEPT !.at = "panic"])
        /\ \A due, c : Fitting([job[h] EXCEPT !.at = "upgrade", !.due = due, !.card = c])
    BY <1>1, <1>6 DEF GetCard, Fitting, Job
  <2> QED
    BY <1>6, <2>1, FittingStep DEF GetCard, Reply
<1>7. CASE Remove(h) \/ Upgrade(h) \/ Recover(h) \/ Fail(h)
  BY <1>7, FittingStep DEF Remove, Upgrade, Recover, Fail, Reply
<1> QED
  BY <1>2, <1>3, <1>4, <1>5, <1>6, <1>7 DEF Handle

LEMMA ChestStep == AccountInv /\ ChestInv /\ [Next]_vars => ChestInv'
<1> SUFFICES ASSUME AccountInv, ChestInv, [Next]_vars
             PROVE  ChestInv'
  OBVIOUS
<1>1. \A h \in Handlers : Fitting(job'[h])
  <2>1. CASE \E h \in Handlers : Handle(h)
    BY <2>1, ChestHandler
  <2>2. CASE SaveResult \/ TimeOut \/ FreeDue \/ UNCHANGED vars
    BY <2>2 DEF ChestInv, SaveResult, ReadAccount, ChooseSlot, AwardChest, SaveLadder, SaveMedals,
       SaverFails, TimeOut, FreeDue, vars
  <2> QED
    BY <2>1, <2>2 DEF Next
<1>2. \A p \in Places : slots'[p] # NoChest => slots'[p].name \in ChestNames
  <2>1. CASE AwardChest
    <3>1. PICK E \in SUBSET {"get", "slot", "set"} :
            slots' = IF "slot" \in E THEN slots ELSE [slots EXCEPT ![saver.place] =
                       [name |-> Awarded(saver.won, Got(E, "get", order) % OrderLength),
                        n |-> count.matches, rank |-> saver.rank]]
      BY <2>1 DEF AwardChest
    <3>2. Got(E, "get", order) \in Nat /\ saver.won \in BOOLEAN
      BY DEF Got, AccountInv, TypeOK, Saver
    <3>3. Awarded(saver.won, Got(E, "get", order) % OrderLength) \in ChestNames
      BY <3>2, AwardedNamed
    <3> QED
      BY <3>1, <3>3 DEF AccountInv, TypeOK, ChestInv
  <2>2. CASE \E h \in Handlers : Remove(h)
    BY <2>2 DEF Remove, Emptied, AccountInv, TypeOK, ChestInv
  <2>3. CASE ~AwardChest /\ ~\E h \in Handlers : Remove(h)
    <3>1. slots' = slots
      BY <2>3 DEF Next, Handle, OpenFree, OpenMedal, OpenSlot, CheckCash, GetRank, OpenChest,
         StoreCard, Pay, Charge, Unpaid, GetCoin, GetCard, Upgrade, Recover, Fail, SaveResult, ReadAccount,
         ChooseSlot, SaveLadder, SaveMedals, SaverFails, TimeOut, FreeDue, vars, chestVars
    <3> QED
      BY <3>1 DEF ChestInv
  <2> QED
    BY <2>1, <2>2, <2>3
<1> QED
  BY <1>1, <1>2 DEF ChestInv

\* No chest that is won or due makes OpenChest panic: whatever is drawn, in every arena, its
\* calls of Intn and Perm are in range.
THEOREM EveryChestOpens == Spec => []ChestsOpen
<1>1. ChestInv => ChestsOpen
  BY DEF ChestInv, Fitting, ChestsOpen
<1> QED
  BY <1>1, ChestInit, ChestStep, AccountInvariant, PTL DEF Spec
=============================================================================
