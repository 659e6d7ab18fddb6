------------------------------- MODULE Battle -------------------------------
(***************************************************************************)
(* The battlefield of a match: game.Update and what it calls in the unit   *)
(* files of pkg/game, on one thread.                                       *)
(*                                                                         *)
(* "phase" is the part of game.Update that runs, "todo" what its loop has  *)
(* still to visit, and "calls" the stack of loops over victims: TakeDamage *)
(* may call TakeDamage of others, since some units explode when they die,  *)
(* and the outer loop goes on afterwards with what the inner one left.     *)
(* Units that died stay on the field until the end of the step, and are    *)
(* updated and hit as if they lived.                                       *)
(*                                                                         *)
(* Left open: who is near whom, when an attack hits, and how fast a        *)
(* building decays; a hit takes one hit point, or none of a shielded unit. *)
(***************************************************************************)
EXTENDS Units, Integers, Sequences, FiniteSets, SequencesExt

CONSTANTS
    Teams,          \* Blue and Red
    Tiles,          \* the grid
    Obstacles,      \* tiles of the map's obstacles
    Sites,          \* the sets of tiles a building may take
    Matches,        \* what the players may begin with: see Init
    Health,         \* the hit points each kind begins with
    CastDelay, CastDuration,    \* precastdelay and castduration of a skill
    LaserEnd,       \* last step of a cast in which a laser hits
    FreezeTime,     \* freezeduration
    CloudTime,      \* damageduration, the duration of a cloud
    BulletLife,     \* bulletlifetime
    PerDeaths, PerStep, SpawnDelay,     \* when a leader sends units
    PlayTime, OverTime,
    MaxUnits, MaxActions    \* bounds on the units and the cards of a match

wingScore == 1
leaderScore == 3
Free == 0
Obstacle == -1

ASSUME BattleAssumption ==
    /\ Obstacles \subseteq Tiles /\ Sites \subseteq (SUBSET Tiles) \ {{}}
    /\ \A m \in Matches :
           /\ m.army \in Seq([kind : KindNames, team : Teams, tiles : SUBSET (Tiles \ Obstacles),
                             leader : BOOLEAN])
           /\ \A i, j \in DOMAIN m.army : i # j => m.army[i].tiles \cap m.army[j].tiles = {}
           /\ m.cards \in [Teams -> SUBSET {k \in KindNames : Kind[k].type = "Squire"}]
    /\ Health \in [KindNames -> Nat \ {0}]
    /\ CastDelay \in Nat /\ CastDuration \in Nat /\ CastDelay < CastDuration
    /\ LaserEnd \in (CastDelay + 1)..CastDuration
    /\ {FreezeTime, CloudTime, BulletLife, SpawnDelay, PlayTime, OverTime, MaxUnits, MaxActions} \subseteq Nat
    /\ PerDeaths \in Nat \ {0} /\ PerStep \in Nat \ {0} /\ PlayTime # 0

VARIABLES
    step, phase, todo, calls,           \* where game.Update is
    units, unitIds, unitCounter,        \* the units on the field
    occupied,       \* the owner of each tile
    bullets, skills,
    deathToll,      \* units other than knights each team has lost
    knightIds, score,                   \* of each team's player
    panicked,       \* Occupy or Release has panicked
    cards, acted    \* each player's cards for squires; number of cards played

progress == <<step, phase, todo, calls>>
fieldVars == <<units, unitIds, unitCounter, occupied, panicked>>
shots == <<bullets, skills>>
tally == <<deathToll, knightIds, score>>
hands == <<cards, acted>>
vars == <<progress, fieldVars, shots, tally, hands>>

Is(id) == Kind[units[id].kind]

NewUnit(name, team, tiles) ==
    [kind |-> name, team |-> team, hp |-> Health[name], layer |-> Kind[name].layer,
     freeze |-> 0, fuse |-> "off", cast |-> 0, tiles |-> tiles, site |-> {},
     leader |-> FALSE, stays |-> FALSE, toll |-> 0, blasts |-> 0]

\* What a match begins with: a knight, with its tiles and whether it is the leader, or a
\* cannon that a leader has set up and that does not decay.
Enlisted(m) ==
    [NewUnit(m.kind, m.team, m.tiles) EXCEPT !.leader = m.leader, !.stays = Kind[m.kind].type = "Building"]

Cloud(team) == [team |-> team, left |-> CloudTime]
LeaderClouds(army) ==
    LET spraying == SelectSeq(army, LAMBDA m : m.leader /\ Kind[m.kind].support = "clouds")
    IN [i \in DOMAIN spraying |-> Cloud(spraying[i].team)]

Init ==
    \E m \in Matches : LET army == m.army IN
        /\ units = [i \in DOMAIN army |-> Enlisted(army[i])]
        /\ unitIds = [i \in DOMAIN army |-> i]
        /\ unitCounter = Len(army)
        /\ occupied = [t \in Tiles |->
               IF t \in Obstacles THEN Obstacle
               ELSE IF \E i \in DOMAIN army : t \in army[i].tiles
                    THEN CHOOSE i \in DOMAIN army : t \in army[i].tiles ELSE Free]
        /\ skills = LeaderClouds(army)
        /\ knightIds = [p \in Teams |->
               {i \in DOMAIN army : army[i].team = p /\ Kind[army[i].kind].type = "Knight"}]
        /\ score = [p \in Teams |-> leaderScore + wingScore * 2]
        /\ deathToll = [p \in Teams |-> 0]
        /\ bullets = <<>> /\ panicked = FALSE /\ cards = m.cards /\ acted = 0
        /\ step = 0 /\ phase = "do" /\ todo = <<>> /\ calls = <<>>
-----------------------------------------------------------------------------
(* Tiles.                                                                  *)

Occupied(tiles) == \E t \in tiles : occupied[t] # Free
NotOwned(tiles, id) == \E t \in tiles : occupied[t] # id
Owned(tiles, id) == [t \in Tiles |-> IF t \in tiles THEN id ELSE occupied[t]]

(* Units.                                                                  *)

\* AddUnit, while unit "id" becomes "after" (or 0: none does).
AddUnit(name, team, tiles, id, after) ==
    LET new == unitCounter + 1
    IN /\ unitCounter' = new
       /\ unitIds' = Append(unitIds, new)
       /\ units' = [i \in DOMAIN units \cup {new} |->
              IF i = new THEN NewUnit(name, team, tiles) ELSE IF i = id THEN after ELSE units[i]]

Become(id, after) ==
    /\ units' = [units EXCEPT ![id] = after]
    /\ UNCHANGED <<unitIds, unitCounter>>

Enemies(team) == {v \in DOMAIN units : units[v].team # team}

\* A loop over the units it reaches, made by "id" (0 for a bullet or a cloud).  It may
\* also freeze them; "then" is what follows it.
Loop(id, reached, freezes, then) ==
    [by |-> id, victims |-> SelectSeq(unitIds, LAMBDA v : v \in reached),
     freezes |-> freezes, then |-> then]
-----------------------------------------------------------------------------
(* Cards, before the units are updated (Player.Do).                        *)

Acting == phase = "do" /\ acted < MaxActions /\ ~panicked

\* A squire of a card; one of several squires takes as many steps.
Deploy(team) ==
    /\ Acting /\ acted' = acted + 1
    /\ \E name \in cards[team] : AddUnit(name, team, {}, 0, 0)
    /\ UNCHANGED <<progress, cards, occupied, panicked, shots, tally>>

\* A knight begins to cast; one that will build takes the tiles now.
CastSkill(id) ==
    /\ Acting /\ acted' = acted + 1
    /\ id \in knightIds[units[id].team] /\ ~units[id].leader /\ units[id].cast <= 0
    /\ \E site \in IF Is(id).skill = "build" THEN Sites ELSE {{}} :
           /\ ~Occupied(site)
           /\ occupied' = Owned(site, id)
           /\ Become(id, [units[id] EXCEPT !.cast = @ + 1, !.layer = "Casting", !.site = site])
    /\ UNCHANGED <<progress, cards, panicked, shots, tally>>

\* What Update does for a unit, in order: a leader sends units, a building decays.
Parts(id) ==
    (IF units[id].leader /\ Is(id).support \in {"deaths", "period"} THEN <<"support">> ELSE <<>>)
    \o (IF Is(id).type = "Building" /\ ~units[id].stays THEN <<"decay">> ELSE <<>>) \o <<"act">>

Visits(id) == [i \in DOMAIN Parts(id) |-> [id |-> id, part |-> Parts(id)[i]]]

StartUpdates ==
    /\ phase = "do" /\ ~panicked
    /\ phase' = "units"
    /\ todo' = FlattenSeq([i \in DOMAIN unitIds |-> Visits(unitIds[i])])
    /\ UNCHANGED <<step, calls, fieldVars, shots, tally, hands>>
-----------------------------------------------------------------------------
(* Units (Update of the unit files).                                       *)

\* The loop of game.Update goes on to the part of this unit's Update.
Visit(id, part) ==
    /\ phase = "units" /\ calls = <<>> /\ todo # <<>> /\ ~panicked
    /\ Head(todo) = [id |-> id, part |-> part]
    /\ todo' = Tail(todo)
    /\ UNCHANGED <<step, phase, tally, hands>>

Frozen(id) == units[id].freeze > 0 /\ units[id].fuse = "off"
Quiet == UNCHANGED <<calls, shots>>
SameTiles == UNCHANGED <<occupied, panicked>>

\* A leader sends a unit when enough have died; it notes at how many that was.
SupportAfterDeaths(id) ==
    LET toll == deathToll[units[id].team]
    IN /\ Is(id).support = "deaths" /\ Visit(id, "support")
       /\ IF toll # units[id].toll /\ toll % PerDeaths = 0
          THEN AddUnit(Is(id).sends, units[id].team, {}, id, [units[id] EXCEPT !.toll = toll])
          ELSE UNCHANGED <<units, unitIds, unitCounter>>
       /\ Quiet /\ SameTiles

\* A leader that is not frozen sends a unit at regular steps.
SupportAtIntervals(id) ==
    /\ Is(id).support = "period" /\ Visit(id, "support")
    /\ IF ~Frozen(id) /\ step >= SpawnDelay /\ (step - SpawnDelay) % PerStep = 0
       THEN AddUnit(Is(id).sends, units[id].team, {}, id, units[id])
       ELSE UNCHANGED <<units, unitIds, unitCounter>>
    /\ Quiet /\ SameTiles

\* A building loses hit points, also while it is frozen.
Decay(id) ==
    /\ Visit(id, "decay")
    /\ \E vs \in SUBSET {id} : calls' = <<Loop(id, vs, FALSE, "none")>>
    /\ UNCHANGED <<fieldVars, shots>>

Thaw(id) ==
    /\ Visit(id, "act") /\ Frozen(id)
    /\ Become(id, [units[id] EXCEPT !.freeze = @ - 1])
    /\ Quiet /\ SameTiles

Casting(id) == Visit(id, "act") /\ ~Frozen(id) /\ units[id].cast > 0

\* The last lines of a step of a cast.
CastOn(u) ==
    IF u.cast > CastDuration
    THEN [u EXCEPT !.cast = 0, !.layer = Kind[u.kind].layer]
    ELSE [u EXCEPT !.cast = @ + 1]

\* A laser hits for several steps, every other skill acts in one.
CastActs(id) ==
    IF Is(id).skill = "laser" THEN units[id].cast > CastDelay /\ units[id].cast <= LaserEnd
    ELSE units[id].cast = CastDelay + 1

CastWait(id) ==
    /\ Casting(id) /\ ~CastActs(id)
    /\ Become(id, CastOn(units[id]))
    /\ Quiet /\ SameTiles

\* The building gets the tiles that its knight has kept for it.
CastBuild(id) ==
    LET site == units[id].site
    IN /\ Casting(id) /\ CastActs(id) /\ Is(id).skill = "build"
       /\ panicked' = NotOwned(site, id)
       /\ occupied' = Owned(site, unitCounter + 1)
       /\ AddUnit(Is(id).makes, units[id].team, site, id, CastOn([units[id] EXCEPT !.site = {}]))
       /\ Quiet

CastDeploy(id) ==
    /\ Casting(id) /\ CastActs(id) /\ Is(id).skill = "deploy"
    /\ AddUnit(Is(id).makes, units[id].team, {}, id, CastOn(units[id]))
    /\ Quiet /\ SameTiles

CastCloud(id) ==
    /\ Casting(id) /\ CastActs(id) /\ Is(id).skill = "cloud"
    /\ skills' = Append(skills, Cloud(units[id].team))
    /\ Become(id, CastOn(units[id]))
    /\ UNCHANGED <<calls, bullets>> /\ SameTiles

CastArea(id) ==
    /\ Casting(id) /\ CastActs(id) /\ Is(id).skill \in {"area", "emp", "laser"}
    /\ \E vs \in SUBSET Enemies(units[id].team) :
           calls' = <<Loop(id, vs, Is(id).skill = "emp", "cast")>>
    /\ UNCHANGED <<fieldVars, shots>>

\* Freeze, of a unit that does not cast.
Freeze(u) ==
    IF u.layer # "Casting" /\ u.freeze < FreezeTime THEN [u EXCEPT !.freeze = FreezeTime] ELSE u

CastFreeze(id) ==
    /\ Casting(id) /\ CastActs(id) /\ Is(id).skill = "freeze"
    /\ \E vs \in SUBSET Enemies(units[id].team) :
           units' = [i \in DOMAIN units |->
               IF i = id THEN CastOn(units[id]) ELSE IF i \in vs THEN Freeze(units[i]) ELSE units[i]]
    /\ UNCHANGED <<unitIds, unitCounter>> /\ Quiet /\ SameTiles
-----------------------------------------------------------------------------
(* Attacks.  When one hits is left open.                                   *)

Ready(id) == Visit(id, "act") /\ ~Frozen(id) /\ units[id].cast <= 0

Idle(id) ==
    /\ Ready(id) /\ units[id].fuse = "off"
    /\ UNCHANGED <<fieldVars, calls, shots>>

\* A veiled unit drops the veil to attack and puts it on again.
Veil(id) ==
    /\ Ready(id) /\ Is(id).armour = "veil"
    /\ \E l \in {"Normal", Is(id).layer} : Become(id, [units[id] EXCEPT !.layer = l])
    /\ Quiet /\ SameTiles

Hit(id) ==
    /\ Ready(id) /\ Is(id).hits \in {"strike", "sweep"}
    /\ \E vs \in SUBSET Enemies(units[id].team) :
           /\ vs # {} /\ (Is(id).hits = "strike" => Cardinality(vs) = 1)
           /\ calls' = <<Loop(id, vs, FALSE, "none")>>
    /\ UNCHANGED <<fieldVars, shots>>

Fire(id) ==
    /\ Ready(id) /\ Is(id).hits \in {"shot", "shell", "round"}
    /\ Is(id).armour = "veil" => units[id].layer = "Normal"
    /\ \E v \in Enemies(units[id].team), splash \in BOOLEAN :
           /\ Is(id).hits = "shot" => ~splash
           /\ Is(id).hits = "shell" => splash
           /\ bullets' = Append(bullets,
                  [target |-> v, team |-> units[v].team, life |-> BulletLife, splash |-> splash])
    /\ UNCHANGED <<fieldVars, calls, skills>>

\* A building sends a unit (MaxUnits bounds the field).
Spawn(id) ==
    /\ Ready(id) /\ Is(id).type = "Building" /\ Is(id).makes # "no" /\ unitCounter < MaxUnits
    /\ AddUnit(Is(id).makes, units[id].team, {}, id, units[id])
    /\ Quiet /\ SameTiles

\* A missile near an enemy lights its fuse and is no longer stopped by frost.
Light(id) ==
    /\ Ready(id) /\ Is(id).blast = "fuse" /\ units[id].fuse = "off"
    /\ Enemies(units[id].team) # {}
    /\ Become(id, [units[id] EXCEPT !.fuse = "lit"])
    /\ Quiet /\ SameTiles

Burn(id) ==
    /\ Ready(id) /\ units[id].fuse \in {"lit", "burnt"}
    /\ UNCHANGED <<fieldVars, calls, shots>>

Explode(id) ==
    /\ Ready(id) /\ units[id].fuse = "lit"
    /\ \E vs \in SUBSET Enemies(units[id].team) : calls' = <<Loop(id, vs, FALSE, "burn")>>
    /\ Become(id, [units[id] EXCEPT !.blasts = @ + 1])
    /\ SameTiles /\ UNCHANGED shots
-----------------------------------------------------------------------------
(* TakeDamage, and the loops it is called from.                            *)

\* (Faulty variant: a hit reaches a unit in any layer but the ether.)
ExposedInCast(u) == Kind[u.kind].armour = "shield" \/ u.layer # "Ether"

\* Whether a hit in the unit's layer reaches it at all.
Exposed(u) == Kind[u.kind].armour = "shield" \/ u.layer = "Normal"

\* The hit points a hit may leave: a shield may take it.
HpAfterHit(u) ==
    LET less == IF u.hp > 0 THEN u.hp - 1 ELSE 0
    IN IF ~Exposed(u) THEN {u.hp} ELSE IF Kind[u.kind].armour = "hull" THEN {less} ELSE {u.hp, less}

\* (Faulty variant: every hit on a dead unit counts as its death.)
DiesAgain(u, hp) == hp = 0

\* Whether a hit that leaves "hp" kills the unit: one that is dead does not die again.
Dies(u, hp) == u.hp > 0 /\ hp = 0

\* Whether a unit explodes as it dies.
Explosive(u) == Kind[u.kind].blast = "death" \/ u.fuse = "lit"

\* (Faulty variant: the knight stays in knightIds.)
OnKnightDeadScored(id) ==
    /\ score' = [score EXCEPT ![units[id].team] = @ - IF units[id].leader THEN leaderScore ELSE wingScore]
    /\ UNCHANGED knightIds

OnKnightDead(id) ==
    LET p == units[id].team
    IN /\ knightIds' = [knightIds EXCEPT ![p] = @ \ {id}]
       /\ score' = [score EXCEPT ![p] = @ - IF units[id].leader THEN leaderScore ELSE wingScore]

\* The innermost loop calls TakeDamage of its next victim, which may start a loop of its
\* own; then it may freeze the victim, which TakeDamage does not look at.
TakeDamage(id) ==
    LET u == units[id]
        loop == Head(calls)
        rest == <<[loop EXCEPT !.victims = Tail(@)]>> \o Tail(calls)
    IN /\ calls # <<>> /\ loop.victims # <<>> /\ id = Head(loop.victims)
       /\ \E hp \in HpAfterHit(u) :
              LET hit == [u EXCEPT !.hp = hp]
                  after == IF loop.freezes THEN Freeze(hit) ELSE hit
              IN /\ IF Dies(u, hp) /\ Explosive(u)
                    THEN /\ \E vs \in SUBSET Enemies(u.team) :
                                calls' = <<Loop(id, vs, FALSE, IF u.fuse = "lit" THEN "spent" ELSE "none")>> \o rest
                         /\ Become(id, [after EXCEPT !.blasts = @ + 1])
                    ELSE calls' = rest /\ Become(id, after)
                 /\ IF hp = 0 /\ id \in knightIds[u.team]
                    THEN OnKnightDead(id) ELSE UNCHANGED <<knightIds, score>>
       /\ UNCHANGED <<step, phase, todo, deathToll, hands, shots>> /\ SameTiles

\* A loop is over: a missile that exploded is dead, and one that exploded at all will not
\* do so again; a cast goes on.
Return ==
    LET loop == Head(calls)
        u == units[loop.by]
    IN /\ calls # <<>> /\ loop.victims = <<>>
       /\ calls' = Tail(calls)
       /\ CASE loop.then = "burn" -> Become(loop.by, [u EXCEPT !.hp = 0, !.fuse = "burnt"])
            [] loop.then = "spent" -> Become(loop.by, [u EXCEPT !.fuse = "burnt"])
            [] loop.then = "cast" -> Become(loop.by, CastOn(u))
            [] loop.then = "none" -> UNCHANGED <<units, unitIds, unitCounter>>
       /\ UNCHANGED <<step, phase, todo, tally, hands, shots>> /\ SameTiles
-----------------------------------------------------------------------------
(* Bullets and clouds, and the end of the step.                            *)

\* The loop of game.Update ends and the one over the next list begins.
NextLoop ==
    /\ phase \in {"units", "bullets"} /\ todo = <<>> /\ calls = <<>> /\ ~panicked
    /\ phase' = IF phase = "units" THEN "bullets" ELSE "skills"
    /\ todo' = [i \in DOMAIN (IF phase = "units" THEN bullets ELSE skills) |-> i]
    /\ UNCHANGED <<step, calls, fieldVars, shots, tally, hands>>

\* A bullet flies; it hits its target if that is still there, or units near where it was.
BulletUpdate ==
    LET b == bullets[Head(todo)]
        near == IF b.splash THEN SUBSET {v \in DOMAIN units : units[v].team = b.team}
                ELSE {{b.target} \cap DOMAIN units}
    IN /\ phase = "bullets" /\ calls = <<>> /\ todo # <<>>
       /\ todo' = Tail(todo)
       /\ IF b.life <= 0 THEN \E vs \in near : calls' = <<Loop(0, vs, FALSE, "none")>>
                         ELSE UNCHANGED calls
       /\ bullets' = [bullets EXCEPT ![Head(todo)].life = @ - 1]
       /\ UNCHANGED <<step, phase, skills, fieldVars, tally, hands>>

\* A cloud hurts the enemies in it, once in a second.
CloudUpdate ==
    LET d == skills[Head(todo)]
    IN /\ phase = "skills" /\ calls = <<>> /\ todo # <<>>
       /\ todo' = Tail(todo)
       /\ \E vs \in SUBSET Enemies(d.team) : calls' = <<Loop(0, vs, FALSE, "none")>>
       /\ skills' = [skills EXCEPT ![Head(todo)].left = @ - 1]
       /\ UNCHANGED <<step, phase, bullets, fieldVars, tally, hands>>

\* What g.Over returns after "n" steps.
Over(n) ==
    IF n < PlayTime THEN \E p \in Teams : score[p] < leaderScore
    ELSE n < PlayTime + OverTime => \E p, q \in Teams : score[p] # score[q]

Dead == {i \in DOMAIN units : units[i].hp <= 0}

\* (Faulty variant: a building's Destroy without Release.)
HeldByKnights(id) == IF Is(id).type = "Knight" THEN units[id].tiles \cup units[id].site ELSE {}

\* The tiles a unit releases when it is destroyed.
Held(id) == units[id].tiles \cup units[id].site

EndStep ==
    /\ phase = "skills" /\ todo = <<>> /\ calls = <<>> /\ ~panicked
    /\ units' = [i \in DOMAIN units \ Dead |-> units[i]]
    /\ unitIds' = SelectSeq(unitIds, LAMBDA i : i \notin Dead)
    /\ deathToll' = [p \in Teams |-> deathToll[p]
           + Cardinality({i \in Dead : units[i].team = p /\ Is(i).type # "Knight"})]
    /\ panicked' = \E i \in Dead : NotOwned(Held(i), i)
    /\ occupied' = [t \in Tiles |-> IF \E i \in Dead : t \in Held(i) THEN Free ELSE occupied[t]]
    /\ bullets' = SelectSeq(bullets, LAMBDA b : b.life >= 0)
    /\ skills' = SelectSeq(skills, LAMBDA d : d.left > 0)
    /\ step' = step + 1
    /\ phase' = IF Over(step + 1) THEN "over" ELSE "do"
    /\ UNCHANGED <<todo, calls, unitCounter, knightIds, score, hands>>
-----------------------------------------------------------------------------
UnitUpdate(id) ==
    \/ SupportAfterDeaths(id) \/ SupportAtIntervals(id) \/ Decay(id) \/ Thaw(id)
    \/ CastWait(id) \/ CastBuild(id) \/ CastDeploy(id) \/ CastCloud(id) \/ CastArea(id)
    \/ CastFreeze(id) \/ Idle(id) \/ Veil(id) \/ Hit(id) \/ Fire(id) \/ Spawn(id)
    \/ Light(id) \/ Burn(id) \/ Explode(id)

Next ==
    \/ \E team \in Teams : Deploy(team)
    \/ \E id \in DOMAIN units : CastSkill(id) \/ UnitUpdate(id) \/ TakeDamage(id)
    \/ StartUpdates \/ Return \/ NextLoop \/ BulletUpdate \/ CloudUpdate \/ EndStep

Spec == Init /\ [][Next]_vars
-----------------------------------------------------------------------------
TypeOK ==
    /\ step \in 0..PlayTime + OverTime /\ phase \in {"do", "units", "bullets", "skills", "over"}
    /\ DOMAIN units \subseteq 1..unitCounter /\ unitCounter \in Nat
    /\ \A i \in DOMAIN units :
           /\ units[i].kind \in KindNames /\ units[i].team \in Teams
           /\ units[i].hp \in 0..Health[units[i].kind]
           /\ units[i].layer \in {"Normal", "Ether", "Casting"}
           /\ units[i].fuse \in {"off", "lit", "burnt"}
           /\ units[i].freeze \in 0..FreezeTime /\ units[i].cast \in 0..CastDuration + 1
    /\ occupied \in [Tiles -> {Obstacle, Free} \cup 1..unitCounter]
    /\ deathToll \in [Teams -> Nat] /\ score \in [Teams -> Int]
    /\ panicked \in BOOLEAN /\ acted \in 0..MaxActions

\* Neither Occupy nor Release panics, and a tile has an owner exactly as long as the
\* knight, the building or the knight about to build there is on the field.
TilesKept ==
    /\ ~panicked
    /\ \A t \in Tiles, i \in DOMAIN units : occupied[t] = i <=> t \in units[i].tiles \cup units[i].site
    /\ \A t \in Tiles : occupied[t] \in {Free, Obstacle} \cup DOMAIN units

\* Nothing that happens while a knight casts, an explosion of its victims included, kills
\* it: it keeps the tiles it has taken until the building stands there.
CastersUntouched ==
    \A i \in DOMAIN units : units[i].cast > 0 =>
        /\ units[i].hp > 0 /\ units[i].layer = "Casting"
        /\ Is(i).skill = "build" => (units[i].site # {} <=> units[i].cast <= CastDelay + 1)

\* Explosions that set each other off end: a unit that explodes when it dies does so once,
\* and a missile twice at most, when its own explosion brings one upon itself.
BlastsBounded ==
    \A i \in DOMAIN units : units[i].blasts <= IF Is(i).blast = "fuse" THEN 2 ELSE 1

\* Whatever kills a knight, its player loses the score of it once, and at once.
KnightsCounted ==
    \A p \in Teams : knightIds[p] = {i \in DOMAIN units :
        units[i].team = p /\ Is(i).type = "Knight" /\ units[i].hp > 0}
=============================================================================
