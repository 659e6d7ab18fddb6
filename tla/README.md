# Space Knights: a verification project

TLA+ models of the servers of Space Knights (a real-time card battle for two
players), TLC configurations that check them on small instances, and theorems
about them proved with TLAPS. Every definition is translated from the Go source
(`src/cmd`, `src/pkg`); `PROJECT.json` maps each one to its lines.

## The system

Four programs and a redis server:

    app ──HTTP──> lobby ────────┐
     │                          v
     │                        redis <── matchmaker (a Lua script, once a second)
     │                          ^            │ TCP: one line with a game config
     │                          │            v
     ├──TCP──> notifier <─PUB/SUB── game server
     └──TCP──────────────────────────> game server

* The **lobby** (`cmd/lobby`, `pkg/lobby`) serves HTTP requests: login, decks,
  card upgrades, chests, match requests. All state is in redis.
* The **matchmaker** (`cmd/matchmaker`) pairs waiting players by a script that
  redis runs, and sends each pair to the game server.
* The **game server** (`cmd/game`, `pkg/game`) runs matches in lockstep: the
  server executes the actions of a step, broadcasts them with a hash, and every
  app replays them. It writes the result to redis.
* The **notifier** (`cmd/notifier`) holds a connection to each player outside of
  a match and tells the player about a game that was created or still runs.

### Components, their state, and what makes them correct

| Component | State | Operations | Hard because | Correct if |
|---|---|---|---|---|
| Match loop `pkg/game/game.go` | step, actions by step, sent history, player→client, quit | Run, Join, Leave, Apply, Update, broadcast, Over | one goroutine against many, unbuffered and shared channels, end of the match | history complete, replay = broadcast, answers reach the requester, no panic, nobody blocks |
| Client connection `client.go` | conn, its read deadline, id | auth, join, read loop, Write, Stop, leave, close | the deadline is written by two goroutines | a stopped client ends |
| Player `player.go` | hand, pending, emptyIdx, drawTimer, energy, knightIds, score | Do, Update, OnKnightDead | repeated reports of a death, several actions in a step | cards conserved, slots refilled, no draw from nothing, score right |
| The bot `player.go` UpdateAI | patience, the action it added to the next step | UpdateAI, AddActionToNextStep | picks in one step, acts in the next; takes a target for granted | never aims at nil, can pay what it picked, keeps playing |
| Tiles and paths `player.go`, `tileoccupier.go`, `nav/thanatos.go`, `unit.go` | occupied tiles, positions | TileValid, FindUnoccupiedTileRect, FindPath, FindTarget | two sides that see the map mirrored, the funnel of the path | bodies do not overlap, a way never leads into a wall, units arrive |
| Rooms `server.go` | games, wait groups, `<id>:game` keys | listenLobby, runGame, removeGame, Stop | two goroutines per game, crash, shutdown order | players can rejoin, keys end with the game, Stop is complete |
| Result `server.go` saveResult | rank, medal, medal-chest, chest slots | once per match | no lock against the lobby | ranks in range, floors kept, chests kept |
| Notifier | map of connections, deadlines | connect, heartbeat, subscribe, shutdown | registration races publication, replacement and its own subscription | a registered player misses a game only if redis kept it from the notifier; shutdown ends |
| Matchmaker, match requests | hash match-queue, nextgameid | request, cancel, script, createMatch | greedy pairing, crash after removal | one fate per request, fitting pairs, no starvation, distinct numbers |
| Chests `lobby/chest.go` | chest keys, purse, cards | openChest, OpenChest | many commands without a transaction, time-outs; draws from tables | a chest is paid once, balances hold, no draw out of range |
| Upgrades `lobby/edit.go` | coin, cards | cardUpgrade | check-then-act | level capped, balance holds |
| Router, login, token | none / session | ServeHTTP, login, VerifyToken | time-out handler | – |
| Battlefield `game.go`, `unit.go`, ~45 unit files | units, tiles, bullets, skills | Update, CastSkill, Occupy, Release, Destroy | tiles handed on between castings, spawns and deaths | no "already occupied" / "owner not match" panic |
| `physics`, `fixed`, `djb2` | bodies, numbers | Step, Mul, … | fixed-point arithmetic | same result on every machine |
| `pkg/data` | tables | lookups | boundaries of tables | indices in range |
| `cmd/replay`, `cmd/export`, `cmd/chest-opener` | – | tools | – | – |
| App `src/client` (Godot) | mirrors `pkg/game` | – | – | – |

## Modules

| Module | Models | State and actions in the code |
|---|---|---|
| `GameSession` | one match: `game.Run` and the goroutines of its clients | `pc`: where a client's goroutine is in `client.Run`; `deadline`: the last `SetReadDeadline`; `gpc`: `game.Run`; `client`, `actions`, `sent`, `step`: the fields of those names; `reply`: the answer being sent on `joined`, `left` or `applied`. `HandleJoin`, `HandleLeave`, `HandleApply`, `Tick`, `End` are the branches of the select and the end of `Run`; `Receive` is the other end of a reply channel |
| `StepFeed` | what a match promises: one feed, each subscriber sees a prefix | abstract specification; `GameSession` implements it with `feed <- sent`, `view <- got` |
| `Player` | the cards, energy and score of one player | `Do`, `Update`, `OnKnightDead` are the methods; `EndStep` is `removeDeadUnits` |
| `Bot` | who plays the cards; EXTENDS `Player` | `Person`: the actions of a connection, as in `Player`; `BotDo`: the action of the last step is executed; `BotUpdate` with `UpdateAI`; `era`: the part of the match; `queued`: what `AddActionToNextStep` holds; `rival`: the score of the opponent |
| `Paths` | the map and the way over it | pure operators: `Location`, `Portal`, `FindPath`, `NextCornerInPath` (the funnel) in whole pixels |
| `Field` | where knights, buildings and one squire stand; EXTENDS `Paths` | `buildings`, `dead`, `squire`; `PlayBuilding`, `PlaySquire` with `TileValid` and `FindUnoccupiedTileRect`; `Walk` with `FindTarget` and `moveTo`; `OnKnightDead`, `Destroy` |
| `GameServer` | the rooms | `stage[g]`: how far the lobby goroutine and the game goroutine of a game are; `key`: `<player>:game`; `topic`: the redis channel "match"; `stop`: `server.Stop` |
| `Notifier` | the notifier, composed with `GameServer` (`INSTANCE`) | `at[c]`: the goroutine of a connection; `clients`: the map; `expired[c]`: its deadline has passed; `subscribed`: `psc.Subscribe` has taken effect; `mail`: the published game being passed on; `main`: the main goroutine. `Deliver` is redis: what is published before `Subscribe` is dropped; `missed[c]` records what a connection cannot learn of because of that, or because its `Check` failed |
| `MatchQueue` | match requests and matchmaker | `queue`: the hash; `Pairs(o)`: the loop of the Lua script over the sorted entries `o`; `jobs`: goroutines in `createMatch` |
| `Account` | one account in redis under the lobby's handlers and `saveResult` | one action for each redis command (or transaction), local variables in `job[h]` and `saver` |
| `Chests` | the contents of chests: the tables of `pkg/data/chest.go`, `OpenChest` | pure operators over all outcomes of the draws; `Account` opens with them |
| `Units` | what the 47 kinds of unit do to one another | one record for each unit file: layer, attack, shield, explosion, card, help as the leader |
| `Battle` | the battlefield, one thread | `phase`, `todo`: how far `game.Update` is, down to a part of one unit's `Update`; `calls`: the stack of loops over victims, because `TakeDamage` of a unit that explodes calls `TakeDamage` of others; `units[id]`: hit points, layer, `freeze`, `cast`, tiles, the fuse of a missile; `occupied`, `unitIds`, `bullets`, `skills`, `deathToll`: the fields of `game`; `knightIds`, `score`: of the players; `panicked`: `Occupy` or `Release` has panicked. `CastBuild`, `CastArea` … are the steps in which skills act; `EndStep` removes what is dead or expired |
| `MC*` | instances for TLC (`Queue` and its values are all in the configuration) | – |
| `*_proofs` | theorems about `GameSession`, `Player` and `Bot` (both in `Player_proofs`), `GameServer`, `Notifier`, `MatchQueue`, `Account` with `Chests`, `Battle`, and `Field` with `Paths` | – |

Operators whose comment begins with "Faulty variant" are plausible mistakes in
the operator that follows them. The specifications do not use them; substituting
one for its operator must violate the property `PROJECT.json` names in
"mutants", which shows that the property depends on that code.

### Abstractions worth knowing

* **Atomicity.** In `GameSession` a branch of the select is one action: it only
  touches the game's own fields and connection deadlines, so another goroutine's
  step can be moved before or after it. In `Account`, `Notifier` and
  `GameServer` every redis command, lock section or deadline change is an action.
* **What a write does.** `conn.Write` to a peer that is gone either fails (and
  stops the client) or is swallowed. A write that blocks on a full TCP window is
  not modelled.
* **The battlefield** is left open in `GameSession` and `Player`: an update
  accepts any subset of the actions of a step, knights die whenever they like,
  and the match may end at any step. The opening animation (no updates for six
  seconds) only delays the first tick.
* **`Battle`** in turn leaves open where units are, who is in range, and when an
  attack hits: a ready unit may hit any set of enemies, or none. A hit takes one
  hit point; a shield may take it instead. Cards are played whenever the knight
  can cast and tiles are free; hand and energy are `Player`'s. So `Battle` has
  every order of hits, deaths, castings and explosions the geometry allows, and
  more; a property that holds there does not depend on the geometry.
  Leaders that change the strength of others (`AddStatRatio`) have no effect in it.
* **Bot.** It never connects, so `GameSession.Tick` has none of its actions.
  `Bot` leaves open what the bot sees of the opponent (energy, whether squires
  are on the field), whether a free tile is found, and whether `Do` refuses the
  action for its tile. The opponent's knights die whenever they like.
* **`Field`** uses the real map, its 20 by 32 tiles, and the real positions and
  sizes; integers are pixels where the code has tenths of a pixel. A walk is cut
  into stretches: half of the way to the next corner, or just about there (`Pace`
  pixels beside it in every direction). What the physics does to a squire is an
  external operator, `Pushed`: a shield pushes it out; other bodies do not hinder
  it, but it cannot pass a building in a hole (`InTheWay`). A building stands at
  once when its card is played (the cast in between is `Battle`'s), and a knight
  that casts stays a target. Of the tiles a player may ask for the run takes
  three, for both teams; squires have the radii 15 and 55 (the code: 15 to 55).
* **`Chests`** leaves open which cards of a rarity are drawn. How many there
  are, into how many bundles they are split, and every argument of `Intn` and
  `Perm` is computed for all outcomes of the draws.
* **Ids** are what authentication yields; `auth` accepts any id whose token
  equals it, as the code does today.
* **One account, one card** in `Account`: keys of different users are
  independent and so are the fields of the hash of cards. The app serialises
  its requests (`lobby_request.gd`), so two handlers of one account run side by
  side only after a time-out.
* **Errors of redis.** A command whose error the code looks at ends its handler
  (`Fail`) or program (`SaverFails`, `Crash`). Where the error is ignored, the code
  goes on, and so does the model: a GET of `saveResult` or of the notifier then
  yields nothing (0), and a write is missing (`Got`, `Unpaid`, the sets `E` in
  `Account`, `Check` in `Notifier`). Of the last command of a handler, or of
  `saveResult`, the model need not tell an ignored error from an end of the process.
  Any commands that are refused in one action count as one failure.
* **History variables** (`got`, `told`, `missed`, `earned`, `cancelled`, `created`,
  `lost`, the numbers of requests) exist for the properties only.

## Runs

Times are for two workers.

| Run | Checks | Instance | States |
|---|---|---|---|
| `Session` | `NoPanic CompleteHistory ReplayIsBroadcast ReplyGoesToRequester LeaveKeepsSuccessor ImplementsFeed RequestsReturn StoppedReaderLeaves GameEnds` | 2 connections, 1 player, 1 stranger, 2 steps, 1 input | 125 k, 150 s |
| `SessionStop` | `ClientsLeaveEndedGame` **violated** | 1 connection | – |
| `Bot` | `CardsConserved DrawNeverPanics KnightCardHasKnight PickAffordable BotFindsTarget SlotsRefilled BotKeepsPlaying` | 4 cards in 3 deals, 2 slots, 3 knights; a person or the bot | 153 k, 60 s |
| `Field` | `BodiesApart PathClear NoDetour Arrives` | the real map, an archsapper or none as Red's leader, 2 deaths, 1 building, 1 squire | 60 k, 105 s |
| `Rooms` | `RejoinPossible NoKeyLeftBehind StopLeavesNothing` | 3 games sharing 3 players, 1 crash | 12 k, 3 s |
| `TwoGames` | `RunningKeyKept` **violated** | the same without a crash, players may be in two games | – |
| `Notify` | `RegisteredOpen NoMissedGame` | 2 connections, 2 players, 2 games; the subscriber starts at any time, look-ups may fail; the game server asks, runs and publishes, its shutdown left out | 2.6 M, 95 s |
| `NotifierStop` | `StopsAllClients` **violated** | 1 connection | – |
| `Queue` | `OneFate GamesNumberedApart NoneLeftBehind OldestFirst EveryoneServed` | 3 players, ranks 0, 1, 3, 3 requests, 1 crash, times 1, 2, 3 | 31 k, 50 s |
| `Battle` | `TilesKept CastersUntouched BlastsBounded KnightsCounted` | 10 matches of 2 to 4 knights, 6 tiles and an obstacle, 2 cards, at most 6 units by spawning, 3 steps and 1 of overtime, one hit point each | 0.54 M, 60 s |
| `Account` | `RankInRange Balances LevelCapped ChestsOpen FloorHolds ChestsKept` | 2 handlers, 1 slot of each kind, 6 arenas of one rank, 2 requests, 2 matches from rank 1, 3 or 5, 1 failure (noticed or not), 1 time-out | 1.2 M, 45 s |
| `MedalRace` | `MedalsSinceOpen` **violated** | the same, no failure, no time-out | – |

No run checks a type invariant: `TypeOK` of every module with proofs is a theorem
(see below), for every size of the instance.

Why the bounds are enough to be interesting: two connections suffice for
replacing, for late leaves and for stealing an answer, since the game serves one
request at a time; two steps give a past, a present and a future step (its
safety is proved for all sizes, so that the run can be small enough for its
liveness); three knights and two slots let all cards a dead knight takes away be
pending, in the hand, or split; three games of which any two share a player cover reconnection
across games; three players whose ranks differ by 0, 1, 2 or 3 meet every case
of `matchable`, and one of them is always picked before, after, or left (that
two pairs are made at once takes four players; the safety properties hold for
four players and requests as well, 74 k states up to symmetry, but liveness is
out of reach there, so the run has three); two matches fill and carry over the
medals of a rank, upwards and downwards, at a floor and between floors, and from the
three ranks the run starts with they reach all six arenas of one rank each, with a
chest and a copy of the card that date from another one.

In `Battle` a cast has a step before it acts, one in which it acts, and one (for
a laser, a second one that hits) before it ends; a match has three steps and one
of overtime, and one hit kills, so that deaths fall into every step of a cast.
Each match of `MCMatches` brings together two things that may disturb each
other, and the leaders that keep the match going. A missile that explodes twice
is among the states: with 1 in the place of 2, `BlastsBounded` is violated.

In `Field` the asked tiles are one in the own half, where knights are in the way, and
two about the middle of the map (one of them in a hole), which are valid only when
the opponent's wing on that side is dead; at most two wings die, so that a squire sees each pattern of
targets on each side of the map. A squire starts on either side, goes through
either hole, upwards or downwards, and may be on any point where a stretch ends
when a target dies or a building appears.

Deadlock is checked where the system should not stop (`Session`, `Bot`; a match
that has ended may stutter by `Finished` or `BotEnd`). The servers, the queue, the
squire and the account simply have nothing more to do when the bounded requests are used up, and
a battle when it is over, so their configurations switch it off. (`TakeDamage`
and `Return` always have a next step, and every loop in `Battle` is over a list
that gets shorter; `BlastsBounded` bounds the number of loops.)

### What the violations show

1. **A stop that is lost** (`SessionStop`). `client.Run` clears the read deadline
   after `join` has returned (`client.go:55`). If the match ends in between, the
   deadline by which `game.Run` stops its clients is overwritten; the goroutine
   reads until the peer closes, and `server.Stop` ("wait clients") hangs.
2. **A key of a running game deleted** (`TwoGames`). `removeGame` deletes
   `<player>:game` whatever it holds (`server.go:354`). A player who requested a
   second match while the first ran can no longer rejoin the second.
3. **Connections that are not stopped** (`NotifierStop`). "stop all clients"
   (`notifier/main.go:178`) misses connections that are not in the map yet, were
   removed from it by the end of an older connection of the same player
   (`main.go:113`), or set a new deadline right after (`main.go:106`).
4. **Spent medals come back** (`MedalRace`). `saveResult` writes `medal-chest`
   from a value it read before the lobby reset it (`server.go:261`, `339`;
   `chest.go:177`), against "medals earned after last chest open" (`redis.go:29`).

A fifth disagreement is stated but has no run: `CapRefused` in `Account`. The
limit check of `cardUpgrade` uses the rarity of the stored card, which is never
set, so that at the highest level of a rare card the price table is indexed
beyond its end instead of answering "card level is max" (`edit.go:104-113`).
`LevelCapped`, that no card gets above the limit, holds all the same.

### How a player misses a game

The notifier does not promise that every player learns of a game, and no comment or
doc of the code does. There are three ways not to, which the code has:

* **At the start.** Connections are accepted and look up their key (`main.go:62-104`)
  before another goroutine has run `psc.Subscribe` (`main.go:133`). Redis drops what
  is published before that: a player who looked before the game was recorded is
  registered and is never told.
* **A failed look-up.** The error of GET is ignored (`main.go:201`): the player is not
  told of a game that was published before. One that is published afterwards still
  comes by the channel.
* **A deleted entry.** A connection whose entry was deleted by the end of its
  predecessor (`main.go:113`) is not in the map.

`NoMissedGame` says that there is no fourth way: a connection in the map that is past
its look-up has been told of its game, or is about to be, unless the game is in
`missed`, to which `Deliver` adds a game only while the notifier has not subscribed,
and `Check` only when the look-up fails. With `missed` it also says which games are
lost: those of connections that looked up before the game was recorded, or
that had been published before the failed look-up, and no later ones.

## Fairness

* `GameSession`: weak fairness for each client's own steps (`Proceed`): Go runs
  every goroutine that can run, and `auth`/`join` have a deadline of a second, so
  `GiveUp` is among them. Strong fairness for the handling of each client's
  request and for `Tick`: the `select` of `Run` chooses at random among the
  channels that are ready and serves the senders of a channel in order, so a
  request or a tick that is ready again and again is taken. What the remote end
  does (`Remote`) is not fair.
* `Bot`: steps keep coming (`WF` of the updates, of the end of a step, and of the
  bot's action, which is executed before the update), from the ticker. Which cards
  are drawn and what the opponent does is not fair: `BotKeepsPlaying` rests on the
  bot's patience alone.
* `Field`: every unit is updated in every step (`WF` of `Walk`), and a building
  that a card has brought loses hit points in every step (`WF` of `Decay`). Deaths
  and cards are not fair.
* `Notifier`: weak fairness for each goroutine; a read ends by a line, an error
  or its deadline (`Read`), which of them is left open.
* `MatchQueue`: time passes, the ticker fires, goroutines proceed. Crashes,
  requests and cancellations are not fair.

## Proofs

`tlapm` proves every obligation of these modules for all values of the constants
that satisfy the module's assumption.

* `GameSession_proofs`. `SessionInvariant` rests on `TypeInv /\ SessionInv`.
  `CompleteHistory` alone is not inductive: that a joining client gets exactly
  `sent` needs that a client which has not joined has received nothing
  (`Pending`), and that a broadcast reaches exactly the up-to-date needs that a
  player's client is an accepted, open connection (`Attached`). That in turn
  needs that only one request is answered at a time (`OneRequest`) and that only
  players pass join (`Members`). From it follow `NeverPanics`,
  `HistoryComplete`, `ReplayFaithful`, and the action properties `AnswersMatch`
  and `SuccessorKept`. `FeedImplemented`: initial states map to initial states,
  a `Tick` to `Publish`, an accepted join to `CatchUp`, the rest to stutters.
* `Player_proofs`. The heart is `Balance`: pending cards minus empty slots is
  the size of the deck minus that of the hand minus the number of dead wing
  knights; as there are two wing knights and at least two more cards than slots,
  `drawCard` never finds `pending` empty. `Listed` ties the ids the player keeps
  to the knights on the field. `RemoveAtProperties` is the lemma about removal
  from a sequence.
  The bot, in the same module: `BotPlaysByTheRules` (`BotSpec => Spec`): its steps
  are steps of `Player` or leave it alone, so that the theorems about players
  hold of the bot as well. `BotFindsTarget` needs `GoesOn`: a match that goes on
  while the opponent has no knight left is one in which the bot has none either,
  and then `Listed` and the cards that die with a knight leave no spell to aim.
* `GameServer_proofs`. `Rejoin` assumes `OneEach`; without it the run `TwoGames`
  is the counterexample. The invariant says which games are registered and
  whose keys may still be there, by stage.
* `Notifier_proofs`. `NotifierServesServer` shows that the notifier, its own part
  hidden, is the game server with a subscriber, which brings `ServerInv` over
  (`INSTANCE GameServer_proofs`). `Informed` is `NoMissedGame` with the message on
  its way: what is still in the topic, looked up for the connection that is in
  the map now, or in `missed`. It is inductive because a connection reads the key only
  after it is in the map, and the key is written before the game is published
  (`Published`): whatever a connection has not found in redis is published later, and
  then redis passes it on (`Deliver`) or the notifier has not subscribed.
  `NobodyMissesAGame` assumes `OneEach`.
* `MatchQueue_proofs`. `Fates` says where each number of a request is: queue,
  cancelled, job, created, lost, exactly one of them. The loop of the script is a
  recursive function (`Rounds`); what it leaves in the queue is proved by induction
  over its rounds. The library's induction theorems take a predicate as a
  parameter; `Induction` therefore speaks of a set, and is derived from the
  existence of a least element (`WFMin`). `Fair` says what each round did: its entry
  had been picked in an earlier round, or got the closest of those that fitted and
  had not been picked, or there was none. It stays true as pairs are added, whoever
  is taken later, which the set `taken` alone does not tell; with the order of the
  list it gives `OldestFirst`.
* `Account_proofs`. The ladder's invariant covers the values in flight: ranks
  held by handlers, by chests and by `saveResult` between its read and its
  write. `FloorsStay` needs that `saveResult`'s copy is at most one rank below
  the present one, and only from a rank that is no floor; a rank that could not be
  read counts as 0, which is a floor and never below the present one (`ReadFair`). `LevelsStay` holds
  because `CoinCostNextLevel` panics before a level beyond the table is stored.
  `PurseInvariant` is about what the one busy handler has read: while none has
  outlived its time-out, no other handler is busy (`Alone`), so that the balance it
  has checked is still there when it pays (`Balances`), and the chest it pays out
  is still in its slot when it is removed, since `saveResult` fills a slot only if
  it is empty (`ChestsKept`). `EveryChestOpens` is about the tables: in each row the
  common cards alone are enough for all bundles, however many extra cards of the
  other rarities are drawn (`Bounded`), so that the loop of `OpenChest` always finds
  a candidate and no argument of `Intn` or `Perm` is too small; a handler that
  panics is therefore one that upgrades (`Fitting`).
* `Battle_proofs`. `BattleInvariant`, for every grid, army and length of a match.
  `Placed`: `occupied` says of each tile exactly who has it among its tiles or its
  site; a site is kept exactly by a builder that casts and whose building does not
  stand yet (`Sound`). `Counted`: `knightIds` are the living knights. `CallsOK` is
  about the stack of loops over victims: a loop may kill units that loops below it
  on the stack still have to come back to. `BlastsOK` bounds explosions: a missile
  explodes when its fuse has burnt and when it is shot, and `blasts` alone would
  not be inductive, as an explosion counts before the unit is marked as dead; so it
  is charged to the loop that is still on the stack (`Pending`). Without the stack
  in the invariant, `Return` would not preserve it.
* `Field_proofs`, about the real map, for every set of tiles players ask for, every
  offset of a card and any numbers of buildings and deaths.
  - `BodiesStayApart`. The invariant speaks of tiles (`Apart`): every building stands
    in the middle of a square of tiles inside the map, and shares none with an
    obstacle, a living knight or another building. Building looks for room in
    `occupied` and deaths only free tiles, so this is inductive. That bodies with
    disjoint tiles do not overlap needs that each body lies within its tiles
    (`Stands`) although a knight's rectangle, of even size, is not centred on it and
    is mirrored for the other team. Two ready cannons are 350 pixels apart, and their
    tiles are those of no knight.
  - `PathsAreClear`. A squire may be anywhere (`SquireOnMap`), also where a shield
    has pushed it; the theorem holds for every point with a location, every target
    and every radius. The corner is the near end of the first portal, of the second
    one, or the target (`FunnelOfThree`, `Ends`), with what the crosses have been
    found to be. A segment misses a wall when both ends are on one side of it, or
    when it passes the near corners of the wall on the outside (`RightMisses`,
    `LeftMisses`); `SideBetween` carries the side of a portal's end at one edge of
    the row over to the other edge.
  - `NoSquireTurnsAside`, the converse: if the straight line is clear, then it
    passes each portal between its ends (`ClearOnRight`, `ClearOnLeft`: a line that
    starts on one side of a wall and meets it nowhere stays on that side of its
    corners), so the funnel never closes before the target. `LinesKeepOrder` orders
    the ends of the two portals as the squire sees them. `NoDetour` speaks of squires
    between the left and the right edge: a card's offsets may put one beyond, from
    where a line may pass outside of the map.

Assumptions on constants are named in each module (`SessionAssumption`,
`PlayerAssumption`, `BotAssumption`, `ServerAssumption`, `NotifierAssumption`,
`QueueAssumption`, `AccountAssumption`, `BattleAssumption`, `FieldAssumption`) and
evaluated by TLC in every run. `PlayerAssumption` asks for two more dealt cards than slots (8 and 4 in
the game) and distinct cards in a deck, as the app sends them; `deckSet`
(`edit.go:48`) stores what it is sent, and neither it nor the game server enforces
this, so for other decks nothing is claimed; `AccountAssumption` for an initial rank
that is a floor and a number of arenas that fits it (25, 5, 6); `BattleAssumption`
for knights that start on different tiles and cards that send squires;
`FieldAssumption` for radii below 75 pixels, half of the width of a hole (the largest
squire has 55).

Proved but in no run, because the runs' properties depend on them or lie closer
to the code's hazards: the inductive invariants, the types of every module
(`TypeCorrect`, `PlayerInvariant`, `ServerTypes`, `NotifierTypes`, `QueueTypes`,
`BotHasTypes`, `AccountTypes`, `BattleTypes`), and `EmptySlotsListed`,
`EnergyInRange` and `ScoreCountsKnights` of `Player`, whose score is checked
against the battlefield as `KnightsCounted`.

Only model-checked: liveness and everything that needs ENABLED (`RequestsReturn`,
`StoppedReaderLeaves`, `GameEnds`, `SlotsRefilled`, `BotKeepsPlaying`, `Arrives`,
`EveryoneServed`). Every invariant and every action property that a passing run
checks is a theorem as well; a run then shows it is not vacuous (each has a mutant
that violates it), and the theorem that the bounds of the run hide nothing.

## Not modelled

* **physics, fixed, djb2**: sequential numeric code with its own tests; no state is
  shared. Of a collision `Field` keeps what it does to a squire at a shield.
* **The timing of attacks** (`attack`, `preAttackDelay`, charging, absorbing),
  slowing down (`MakeSlow`) and the strengths of units: `Battle` lets any ready
  unit hit anybody, so that its properties do not depend on them.
* **Login, tokens, routes, deck selection**: no state is shared that a property
  could relate; a deck is overwritten by what the app sends.
* **The bot's deck**, which cards a chest holds, and which tile the bot wishes for.
* **Panics of the notifier** when its subscription or redis fails (`main.go:134`, `163`,
  `187`), and an interrupt before `psc.Subscribe` has been sent: the program ends, or is
  ending, and nothing it keeps outlives it.
* **A write that blocks** on a connection nobody reads: when the kernel blocks is
  outside of this code.
* **Tools** in `cmd`, and the **app**.

## Plan

*Done*: all components named under "Modules", with theorems for each of them. What is
left:

1. A run for `CapRefused`; one for the leader that answers deaths, which misses a
   footman when the toll jumps over a multiple of `perdeaths` within a step
   (`tombstone.go:86-91`); the matchmaker's shutdown, which waits for goroutines
   that wait for the game server.
2. `Battle` composed with `Player` in one run, so that `Do`, `CanCastSkill` and
   `OnKnightDead` meet, and the proof that each is the other's environment.
3. A module `Attack` for the cycle of an attack (freezing and losing the target in
   the middle), which `Battle` leaves open.
