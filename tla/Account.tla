------------------------------ MODULE Account ------------------------------
(***************************************************************************)
(* What redis keeps of one person, and the programs that change it: the    *)
(* lobby's handlers that open chests (pkg/lobby/chest.go) and upgrade      *)
(* cards (pkg/lobby/edit.go), and the game server's saveResult             *)
(* (pkg/game/server.go).                                                   *)
(*                                                                         *)
(* None of them takes a lock.  Each reads some keys, computes, and writes  *)
(* some keys, command by command, so that a command of another program may *)
(* come in between, and stops half-way when redis fails.  Where the code   *)
(* does not look at the error of a command, it goes on.                    *)
(*                                                                         *)
(* The app sends a request when the one before it was answered.  A handler *)
(* that takes too long is answered for by http.TimeoutHandler and goes on, *)
(* next to the handler of the following request.  The game server saves    *)
(* one result of the person at a time (OneEach of GameServer).             *)
(*                                                                         *)
(* One card stands for all: what one key of "<id>:cards" holds.            *)
(***************************************************************************)
EXTENDS Integers, FiniteSetsExt, Chests

CONSTANTS
    Handlers,       \* goroutines that serve the requests of this person
    Nobody,         \* the app waits for no handler
    SlotCount,      \* slots for chests of each kind
    InitialRank, RankDownLimit, MedalsPerRank,
    RanksPerArena, ArenaCount,
    RequiredMedals, \* RequiredMedalsForMedalChest
    LevelMax,
    RelativeLv,     \* RelativeLvByRarity of the card
    \* of newUser, or of a later time:
    InitialLevel, InitialHolding, InitialCoin, InitialCash, StartRanks, StartOrder,
    CardCost, CoinCost,     \* the tables of upgrade.go
    Gains,          \* what a chest may add: coin, cash and copies of the card
    Prices,         \* what it may cost to open a chest early
    MaxRequests, MaxMatches, MaxFails, MaxTimeouts  \* bounds

Kinds == {"battle", "feeble"}
Places == Kinds \X (1..SlotCount)
Gain == [coin : Nat, cash : Nat, copies : Nat]

ASSUME AccountAssumption ==
    /\ Nobody \notin Handlers
    /\ SlotCount \in Nat \ {0} /\ RequiredMedals \in Nat
    /\ RankDownLimit \in Nat \ {0} /\ MedalsPerRank \in Nat \ {0}
    /\ InitialRank \in Nat /\ InitialRank % RankDownLimit = 0
    /\ RanksPerArena \in Nat \ {0} /\ ArenaCount \in 1..6
    /\ InitialRank = RanksPerArena * (ArenaCount - 1)
    /\ LevelMax \in Nat /\ RelativeLv \in Nat
    /\ InitialLevel \in Nat /\ InitialLevel + RelativeLv < LevelMax
    /\ InitialHolding \in Nat /\ InitialCoin \in Nat /\ InitialCash \in Nat
    /\ StartRanks \subseteq 0..InitialRank /\ StartOrder \in Nat
    /\ CardCost \in [0..LevelMax-2 -> Nat] /\ CoinCost \in [0..LevelMax-2 -> Nat]
    /\ Gains \subseteq Gain /\ Prices \subseteq Nat
    /\ {MaxRequests, MaxMatches, MaxFails, MaxTimeouts} \subseteq Nat

VARIABLES
    rank, medal, medalChest,    \* keys of these names
    slots,      \* "<id>:battle-chest-slots" and "<id>:feeble-chest-slots"
    order,      \* battle-chest-order
    freeDue,    \* the time of free-chest is long enough ago
    coin, cash, \* galacticoin and dimensium
    card,       \* an entry of cards: level and holding
    job,        \* what each handler is doing
    waits,      \* the handler the app waits for
    saver,      \* what saveResult is doing
    earned,     \* history: medals saved since the last medal chest was opened
    count       \* numbers of requests, matches, failures and timeouts so far

ladderVars == <<rank, medal>>
chestVars == <<medalChest, slots, order, freeDue, earned>>
purseVars == <<coin, cash, card>>
vars == <<rank, medal, medalChest, slots, order, freeDue, coin, cash, card,
          job, waits, saver, earned, count>>

\* A chest: its name, the number of the match it was won in and the rank at that time.
NoChest == [name |-> "none", n |-> 0, rank |-> 0]

\* A handler that has nothing to do; the fields are the local variables.
Idle == [at |-> "idle", what |-> "none", place |-> <<"battle", 1>>, chest |-> NoChest,
         due |-> 0, rank |-> 0, coin |-> 0, card |-> [level |-> 0, holding |-> 0],
         gain |-> [coin |-> 0, cash |-> 0, copies |-> 0]]
NotSaving == [at |-> "idle", won |-> FALSE, rank |-> 0, medal |-> 0, medals |-> 0,
              place |-> <<"battle", 1>>]

\* newUser
Init ==
    /\ rank \in StartRanks /\ medal = 0 /\ medalChest = 0
    /\ slots = [p \in Places |-> NoChest]
    /\ order = StartOrder /\ freeDue = TRUE
    /\ coin = InitialCoin /\ cash = InitialCash
    /\ card = [level |-> InitialLevel, holding |-> InitialHolding]
    /\ job = [h \in Handlers |-> Idle]
    /\ waits = Nobody
    /\ saver = NotSaving
    /\ earned = 0
    /\ count = [requests |-> 0, matches |-> 0, fails |-> 0, timeouts |-> 0]

----------------------------------------------------------------------------
\* Requests and answers

\* A handler gets a request from the app and goes on with j.
Begin(h, j) ==
    /\ job[h].at = "idle" /\ waits = Nobody
    /\ count.requests < MaxRequests
    /\ count' = [count EXCEPT !.requests = @ + 1]
    /\ job' = [job EXCEPT ![h] = j]
    /\ waits' = h

\* The handler goes on with j, with or without an error.
Proceed(h, j) == job' = [job EXCEPT ![h] = j] /\ UNCHANGED waits

Goto(h, j) == Proceed(h, j) /\ UNCHANGED count

\* The handler ends, with or without an error.
End(h) ==
    /\ job' = [job EXCEPT ![h] = Idle]
    /\ waits' = IF waits = h THEN Nobody ELSE waits

Reply(h) == End(h) /\ UNCHANGED count

\* The app is answered that the handler has timed out; the handler does not notice.
TimeOut ==
    /\ waits # Nobody /\ count.timeouts < MaxTimeouts
    /\ waits' = Nobody
    /\ count' = [count EXCEPT !.timeouts = @ + 1]
    /\ UNCHANGED <<ladderVars, chestVars, purseVars, job, saver>>

\* A redis command fails, or the lobby is killed: what was written stays.
Fail(h) ==
    /\ job[h].at # "idle" /\ count.fails < MaxFails
    /\ count' = [count EXCEPT !.fails = @ + 1]
    /\ End(h)
    /\ UNCHANGED <<ladderVars, chestVars, purseVars, saver>>

\* Time passes.
FreeDue ==
    /\ ~freeDue /\ freeDue' = TRUE
    /\ UNCHANGED <<ladderVars, medalChest, slots, order, earned, purseVars,
                   job, waits, saver, count>>

----------------------------------------------------------------------------
\* openChest

\* The chest to open is there and it is time: the first reads and checks.  A request
\* that does not pass them changes nothing.
OpenFree(h) ==
    /\ freeDue
    /\ Begin(h, [Idle EXCEPT !.at = "rank", !.what = "free"])
    /\ UNCHANGED <<ladderVars, chestVars, purseVars, saver>>

OpenMedal(h) ==
    /\ medalChest >= RequiredMedals
    /\ Begin(h, [Idle EXCEPT !.at = "rank", !.what = "medal"])
    /\ UNCHANGED <<ladderVars, chestVars, purseVars, saver>>

\* LINDEX: the chest of a slot.  Either its time is up or it costs cash.
OpenSlot(h) ==
    /\ \E p \in Places :
          LET found == [Idle EXCEPT !.what = "slot", !.place = p, !.chest = slots[p],
                                    !.rank = slots[p].rank]
          IN  /\ slots[p] # NoChest
              /\ \/ Begin(h, [found EXCEPT !.at = "reward"])
                 \/ \E price \in Prices : Begin(h, [found EXCEPT !.at = "cash", !.due = price])
    /\ UNCHANGED <<ladderVars, chestVars, purseVars, saver>>

\* Faulty variant: the cash is not looked at.
AffordableAlways(h) == TRUE

\* "not enough cash for chest open"
Affordable(h) == cash >= job[h].due

CheckCash(h) ==
    /\ job[h].at = "cash"
    /\ IF Affordable(h) THEN Goto(h, [job[h] EXCEPT !.at = "reward"]) ELSE Reply(h)
    /\ UNCHANGED <<ladderVars, chestVars, purseVars, saver>>

\* A free or a medal chest is opened in the arena of the present rank.
GetRank(h) ==
    /\ job[h].at = "rank"
    /\ Goto(h, [job[h] EXCEPT !.at = "reward", !.rank = rank])
    /\ UNCHANGED <<ladderVars, chestVars, purseVars, saver>>

\* ArenaFromRank
Arena(r) == IF r = 0 THEN ArenaCount - 1
            ELSE ArenaCount - ((r - 1) \div RanksPerArena + 2)

\* The chest that is opened
ChestName(j) == CASE j.what = "free" -> "Free"
                  [] j.what = "medal" -> "Medal"
                  [] OTHER -> j.chest.name

\* OpenChest decides what is inside, and the card is read (HGET) if it is inside.
OpenChest(h) ==
    /\ job[h].at = "reward"
    /\ \/ /\ <<ChestName(job[h]), Arena(job[h].rank)>> \notin Openable
          /\ Goto(h, [job[h] EXCEPT !.at = "panic"])
       \/ \E g \in Gains :
             Goto(h, IF g.copies = 0 THEN [job[h] EXCEPT !.at = "pay", !.rank = 0, !.gain = g]
                     ELSE [job[h] EXCEPT !.at = "store", !.rank = 0, !.gain = g, !.card = card])
    /\ UNCHANGED <<ladderVars, chestVars, purseVars, saver>>

\* HSET
StoreCard(h) ==
    /\ job[h].at = "store"
    /\ card' = [job[h].card EXCEPT !.holding = @ + job[h].gain.copies]
    /\ Goto(h, [job[h] EXCEPT !.at = "pay", !.card = Idle.card])
    /\ UNCHANGED <<ladderVars, chestVars, coin, cash, saver>>

\* MULTI, INCRBY twice, EXEC
Pay(h) ==
    /\ job[h].at = "pay"
    /\ coin' = coin + job[h].gain.coin
    /\ cash' = cash + job[h].gain.cash
    /\ Goto(h, [job[h] EXCEPT !.at = IF job[h].what = "slot" THEN "charge" ELSE "remove",
                              !.gain = Idle.gain])
    /\ UNCHANGED <<ladderVars, chestVars, card, saver>>

\* DECRBY
Charge(h) ==
    /\ job[h].at = "charge"
    /\ cash' = cash - job[h].due
    /\ Goto(h, [job[h] EXCEPT !.at = "remove"])
    /\ UNCHANGED <<ladderVars, chestVars, coin, card, saver>>

\* DECRBY fails, which openChest does not notice.
Unpaid(h) ==
    /\ job[h].at = "charge" /\ count.fails < MaxFails
    /\ count' = [count EXCEPT !.fails = @ + 1]
    /\ Proceed(h, [job[h] EXCEPT !.at = "remove"])
    /\ UNCHANGED <<ladderVars, chestVars, purseVars, saver>>

\* LSET: the slot is empty, whatever is in it by now.
Emptied(p) == [slots EXCEPT ![p] = NoChest]

\* The chest is removed.  (If that command fails, the answer is the same and the chest
\* stays, as in Fail.)
Remove(h) ==
    /\ job[h].at = "remove"
    /\ freeDue' = (freeDue /\ job[h].what # "free")
    /\ slots' = IF job[h].what = "slot" THEN Emptied(job[h].place) ELSE slots
    /\ medalChest' = IF job[h].what = "medal" THEN 0 ELSE medalChest
    /\ earned' = IF job[h].what = "medal" THEN 0 ELSE earned
    /\ Reply(h)
    /\ UNCHANGED <<ladderVars, order, purseVars, saver>>

----------------------------------------------------------------------------
\* cardUpgrade

GetCoin(h) ==
    /\ Begin(h, [Idle EXCEPT !.at = "card", !.what = "upgrade", !.coin = coin])
    /\ UNCHANGED <<ladderVars, chestVars, purseVars, saver>>

\* IsLevelMax, called with the rarity of the entry, which is never stored: the level
\* relative to the other rarities does not count.
IsLevelMax(level) == level + 1 >= LevelMax

\* Faulty variant: the price is looked up like the level, without the rarity.
PriceIndexPlain(level) == level

\* The index CoinCostNextLevel uses, with the rarity of data.Cards
PriceIndex(level) == level + RelativeLv

\* HGET and the checks; a price beyond the table is a panic.
GetCard(h) ==
    /\ job[h].at = "card"
    /\ LET left == card.holding - CardCost[card.level]
           i == PriceIndex(card.level)
       IN  IF IsLevelMax(card.level) \/ left < 0 THEN Reply(h)
           ELSE IF i \notin DOMAIN CoinCost THEN Goto(h, [job[h] EXCEPT !.at = "panic"])
           ELSE IF CoinCost[i] > job[h].coin THEN Reply(h)
           ELSE Goto(h, [job[h] EXCEPT !.at = "upgrade", !.due = CoinCost[i],
                                       !.card = [level |-> card.level + 1, holding |-> left]])
    /\ UNCHANGED <<ladderVars, chestVars, purseVars, saver>>

\* MULTI, DECRBY, HSET, EXEC
Upgrade(h) ==
    /\ job[h].at = "upgrade"
    /\ coin' = coin - job[h].due
    /\ card' = job[h].card
    /\ Reply(h)
    /\ UNCHANGED <<ladderVars, chestVars, cash, saver>>

\* The panic ends the handler; net/http keeps the lobby alive.
Recover(h) ==
    /\ job[h].at = "panic"
    /\ Reply(h)
    /\ UNCHANGED <<ladderVars, chestVars, purseVars, saver>>

----------------------------------------------------------------------------
\* saveResult

\* Faulty variant: the limit is not looked at.
AfterLossUnlimited(r, m) == IF m > 0 THEN <<r, m - 1>> ELSE <<r + 1, MedalsPerRank - 1>>

\* Rank and medals after a match that was won or lost; 0 is the best rank, and the ranks
\* that RankDownLimit divides are not lost again.
AfterWin(r, m) ==
    CASE r = 0 -> <<r, m>>
      [] r > 0 /\ m < MedalsPerRank -> <<r, m + 1>>
      [] r > 0 /\ m >= MedalsPerRank -> <<r - 1, 1>>
AfterLoss(r, m) ==
    CASE m > 0 -> <<r, m - 1>>
      [] m = 0 /\ r % RankDownLimit # 0 -> <<r + 1, MedalsPerRank - 1>>
      [] m = 0 /\ r % RankDownLimit = 0 -> <<r, m>>

\* redis refuses the commands of saveResult named in E, which does not notice: together they
\* are one failure.
Failure(E) == IF E = {} THEN 0 ELSE 1
Refused(E) == count.fails + Failure(E) <= MaxFails

\* What a GET returns: 0 if it is refused
Got(E, name, value) == IF name \in E THEN 0 ELSE value

\* A match that is not a draw is over: GET three times.
ReadAccount ==
    /\ saver.at = "idle"
    /\ count.matches < MaxMatches
    /\ \E won \in BOOLEAN, E \in SUBSET {"rank", "medal", "medal-chest"} :
          LET r == Got(E, "rank", rank)
              m == Got(E, "medal", medal)
              k == Got(E, "medal-chest", medalChest)
              after == IF won THEN AfterWin(r, m) ELSE AfterLoss(r, m)
          IN  /\ Refused(E)
              /\ count' = [count EXCEPT !.matches = @ + 1, !.fails = @ + Failure(E)]
              /\ saver' = [NotSaving EXCEPT !.at = "slots", !.won = won, !.rank = after[1],
                              !.medal = after[2], !.medals = IF won THEN k + 1 ELSE k]
    /\ UNCHANGED <<ladderVars, chestVars, purseVars, job, waits>>

\* Faulty variant: the chest goes to the first slot, also if it is taken.
EmptySlotsTaken(kind) == {<<kind, i>> : i \in 1..SlotCount}

\* LRANGE: the empty slots of a kind
EmptySlots(kind) == {p \in Places : p[1] = kind /\ slots[p] = NoChest}

\* The first empty slot gets the chest; if there is none, there is no chest.
ChooseSlot ==
    /\ saver.at = "slots"
    /\ LET E == EmptySlots(IF saver.won THEN "battle" ELSE "feeble") IN
       \/ E = {} /\ saver' = [saver EXCEPT !.at = "ladder"]
       \/ \E p \in E : /\ \A q \in E : p[2] <= q[2]
                      /\ saver' = [saver EXCEPT !.at = "chest", !.place = p]
    /\ UNCHANGED <<ladderVars, chestVars, purseVars, job, waits, count>>

\* The chest a match brings, the place of battle chests in their order being i
Awarded(won, i) == IF won THEN ChestOrder(i) ELSE "Silver"

\* GET of the order of battle chests, which only saveResult uses, LSET, and SET of the order
AwardChest ==
    /\ saver.at = "chest"
    /\ \E E \in SUBSET (IF saver.won THEN {"get", "slot", "set"} ELSE {"slot"}) :
          LET i == Got(E, "get", order) % OrderLength IN
          /\ Refused(E)
          /\ count' = [count EXCEPT !.fails = @ + Failure(E)]
          /\ slots' = IF "slot" \in E THEN slots ELSE [slots EXCEPT ![saver.place] =
                [name |-> Awarded(saver.won, i), n |-> count.matches, rank |-> saver.rank]]
          /\ order' = IF saver.won /\ "set" \notin E THEN i + 1 ELSE order
    /\ saver' = [saver EXCEPT !.at = "ladder"]
    /\ UNCHANGED <<ladderVars, medalChest, freeDue, earned, purseVars, job, waits>>

\* SET of rank and medal
SaveLadder ==
    /\ saver.at = "ladder"
    /\ \E E \in SUBSET {"rank", "medal"} :
          /\ Refused(E)
          /\ count' = [count EXCEPT !.fails = @ + Failure(E)]
          /\ rank' = IF "rank" \in E THEN rank ELSE saver.rank
          /\ medal' = IF "medal" \in E THEN medal ELSE saver.medal
    /\ saver' = [saver EXCEPT !.at = "medals"]
    /\ UNCHANGED <<chestVars, purseVars, job, waits>>

\* SET of medal-chest.  (If it fails, nobody notices that saveResult ends without it, as in
\* SaverFails.)
SaveMedals ==
    /\ saver.at = "medals"
    /\ medalChest' = saver.medals
    /\ earned' = IF saver.won THEN earned + 1 ELSE earned
    /\ saver' = NotSaving
    /\ UNCHANGED <<ladderVars, slots, order, freeDue, purseVars, job, waits, count>>

\* The game server dies in between, as it does when LRANGE fails.
SaverFails ==
    /\ saver.at # "idle" /\ count.fails < MaxFails
    /\ count' = [count EXCEPT !.fails = @ + 1]
    /\ saver' = NotSaving
    /\ UNCHANGED <<ladderVars, chestVars, purseVars, job, waits>>

SaveResult == ReadAccount \/ ChooseSlot \/ AwardChest \/ SaveLadder \/ SaveMedals \/ SaverFails

Handle(h) ==
    \/ OpenFree(h) \/ OpenMedal(h) \/ OpenSlot(h) \/ CheckCash(h) \/ GetRank(h)
    \/ OpenChest(h) \/ StoreCard(h) \/ Pay(h) \/ Charge(h) \/ Unpaid(h) \/ Remove(h)
    \/ GetCoin(h) \/ GetCard(h) \/ Upgrade(h) \/ Recover(h) \/ Fail(h)

Next ==
    \/ \E h \in Handlers : Handle(h)
    \/ SaveResult \/ TimeOut \/ FreeDue

Spec == Init /\ [][Next]_vars

----------------------------------------------------------------------------
Level == 0..LevelMax-1
Ranks == 0..InitialRank
Card == [level : Nat, holding : Int]
Chest == [name : ChestNames \cup {"none"}, n : Nat, rank : Int]
HandlerAt == {"idle", "cash", "rank", "reward", "store", "pay", "charge", "remove",
              "card", "upgrade", "panic"}
Job == [at : HandlerAt, what : {"none", "free", "medal", "slot", "upgrade"},
        place : Places, chest : Chest, due : Nat, rank : Int, coin : Int, card : Card, gain : Gain]
Saver == [at : {"idle", "slots", "chest", "ladder", "medals"}, won : BOOLEAN,
          rank : Int, medal : Int, medals : Nat, place : Places]

\* Types of all variables.
TypeOK ==
    /\ rank \in Int /\ medal \in Int /\ medalChest \in Nat
    /\ slots \in [Places -> Chest] /\ order \in Nat
    /\ freeDue \in BOOLEAN
    /\ coin \in Int /\ cash \in Int /\ card \in Card
    /\ job \in [Handlers -> Job]
    /\ waits \in Handlers \cup {Nobody}
    /\ saver \in Saver
    /\ earned \in Nat
    /\ count \in [requests : Nat, matches : Nat, fails : Nat, timeouts : Nat]

\* However many matches are won and lost, rank and medals stay in their ranges, and every
\* chest is opened in an arena that exists: ArenaFromRank is only defined up to
\* InitialRank, and nothing in saveResult looks at that limit.
RankInRange ==
    /\ rank \in Ranks /\ medal \in 0..MedalsPerRank
    /\ \A p \in Places : slots[p].rank \in Ranks
    /\ \A h \in Handlers : job[h].rank \in Ranks /\ Arena(job[h].rank) \in 0..ArenaCount-1

\* Every chest that can be won or is due can be opened, in every arena and whatever is
\* drawn: OpenChest (chest.go:192) never asks for a random number below zero, for more cards
\* than the pool has, or for more bundles than cards.
ChestsOpen == \A h \in Handlers : job[h].at = "panic" => job[h].what = "upgrade"

\* A rank that RankDownLimit divides, once reached, is never lost again, also when a
\* result is saved only in part.
FloorHolds == [][rank' > rank => rank' = rank + 1 /\ rank % RankDownLimit # 0]_vars

\* As long as no handler has outlived its time-out: a chest disappears only when the very
\* chest was opened and paid out, although results are saved meanwhile.
ChestsKept ==
    [][count.timeouts = 0 =>
          \A p \in Places : slots[p] # NoChest /\ slots'[p] # slots[p] =>
              /\ slots'[p] = NoChest
              /\ \E h \in Handlers : /\ job[h].at = "remove" /\ job[h].what = "slot"
                                     /\ job[h].place = p /\ job[h].chest = slots[p]]_vars

\* As long as no handler has outlived its time-out: nothing is spent that is not there,
\* although it is looked at long before it is spent.
Balances ==
    /\ count.timeouts = 0 => coin >= 0 /\ cash >= 0
    /\ card.holding >= 0

\* A card never gets above the highest level of its rarity, though the check of the level
\* does not know the rarity, and whatever upgrades run side by side.
LevelCapped == card.level + RelativeLv < LevelMax

\* "medals earned after last chest open" (redis.go:29)
MedalsSinceOpen == medalChest = earned

\* "card level is max" (edit.go:105): an upgrade beyond the highest level is refused.
CapRefused == \A h \in Handlers : job[h].at # "panic"
=============================================================================
