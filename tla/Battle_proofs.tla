--------------------------- MODULE Battle_proofs ---------------------------
(***************************************************************************)
(* The battlefield keeps its units, its tiles and its knights consistent,  *)
(* for every grid, every army and every length of a match.                 *)
(***************************************************************************)
EXTENDS Battle, FiniteSetTheorems, TLAPS

-----------------------------------------------------------------------------
(* The inductive invariant.                                                *)

UnitType ==
    [kind : KindNames, team : Teams, hp : Nat, layer : {"Normal", "Ether", "Casting"},
     freeze : 0..FreezeTime, fuse : {"off", "lit", "burnt"}, cast : 0..CastDuration + 1,
     tiles : SUBSET Tiles, site : SUBSET Tiles, leader : BOOLEAN, stays : BOOLEAN,
     toll : Nat, blasts : Nat]

Knight(u) == Kind[u.kind].type = "Knight"

\* What is true of each unit by itself: only a living knight casts, and one that will build
\* keeps a site, apart from its own tiles, until the building stands there.
Sound(u) ==
    /\ u.hp <= Health[u.kind]
    /\ u.cast > 0 => u.hp > 0 /\ u.layer = "Casting" /\ Knight(u)
    /\ u.site # {} <=> Kind[u.kind].skill = "build" /\ u.cast > 0 /\ u.cast <= CastDelay + 1
    /\ u.tiles \cap u.site = {}

\* The units "us", of which "n" were ever made, hold the tiles that "oc" says.
Placed(us, n, oc) ==
    /\ n \in Nat /\ DOMAIN us \subseteq 1..n /\ us \in [DOMAIN us -> UnitType]
    /\ \A i \in DOMAIN us : Sound(us[i])
    /\ oc \in [Tiles -> {Obstacle, Free} \cup 1..n]
    /\ \A t \in Tiles, i \in DOMAIN us : oc[t] = i <=> t \in us[i].tiles \cup us[i].site
    /\ \A t \in Tiles : oc[t] \in {Free, Obstacle} \cup DOMAIN us

\* The knights that live are those that count.
Counted(us, kn) ==
    /\ kn \in [Teams -> SUBSET Nat]
    /\ \A p \in Teams : kn[p] = {i \in DOMAIN us : us[i].team = p /\ Knight(us[i]) /\ us[i].hp > 0}

\* What a loop over victims may count on when it ends: see Return.
CallOK(c, us, last) ==
    /\ c = [by |-> c.by, victims |-> c.victims, freezes |-> c.freezes, then |-> c.then]
    /\ c.then \in {"none", "burn", "spent", "cast"}
    /\ c.then \in {"burn", "spent"} => c.by \in DOMAIN us /\ Kind[us[c.by].kind].blast = "fuse"
    /\ c.then = "spent" => us[c.by].hp = 0
    /\ c.then = "cast" =>
           last /\ c.by \in DOMAIN us /\ us[c.by].cast > 0 /\ Kind[us[c.by].kind].skill # "build"

CallsOK(cs, us) ==
    /\ \E S : cs \in Seq(S)
    /\ \A k \in 1..Len(cs) : CallOK(cs[k], us, k = Len(cs))

\* A loop of unit "i" is on the stack that ends with "then".
Pending(cs, i, then) == \E k \in 1..Len(cs) : cs[k].by = i /\ cs[k].then = then

\* How often a unit may have exploded: once for each of its explosions that is still on
\* the stack, until it has burnt out or is dead.
BlastOK(u, burning, spent) ==
    IF Kind[u.kind].blast # "fuse"
    THEN u.fuse = "off" /\ u.blasts <= (IF u.hp = 0 THEN 1 ELSE 0)
    ELSE /\ u.fuse = "off" => u.blasts = 0
         /\ u.fuse = "lit" => u.blasts <= (IF u.hp = 0 /\ spent THEN 1 ELSE 0) + (IF burning THEN 1 ELSE 0)
         /\ u.fuse = "burnt" => u.blasts <= 2 /\ u.hp = 0

BlastsOK(cs, us) ==
    \A i \in DOMAIN us : BlastOK(us[i], Pending(cs, i, "burn"), Pending(cs, i, "spent"))

Control ==
    /\ step \in 0..PlayTime + OverTime /\ phase \in {"do", "units", "bullets", "skills", "over"}
    /\ phase # "over" => step < PlayTime + OverTime
    /\ calls # <<>> => phase \in {"units", "bullets", "skills"}
    /\ deathToll \in [Teams -> Nat] /\ score \in [Teams -> Int]
    /\ panicked = FALSE /\ acted \in 0..MaxActions
    /\ cards \in [Teams -> SUBSET {k \in KindNames : Kind[k].type = "Squire"}]

BattleInv ==
    /\ Control
    /\ Placed(units, unitCounter, occupied)
    /\ Counted(units, knightIds)
    /\ CallsOK(calls, units)
    /\ BlastsOK(calls, units)

-----------------------------------------------------------------------------
(* The kinds of units.                                                     *)

Makes(k) == k \in KindNames /\ Kind[k].type # "Knight"

\* A unit is hit in the layers Normal and Ether, a knight has no shield and does not
\* explode, and what is sent or made is a unit that is not a knight.
Fine(K) ==
    /\ K.layer \in {"Normal", "Ether"}
    /\ K.type = "Knight" => K.armour = "hull" /\ K.blast # "fuse"
    /\ K.support \in {"deaths", "period"} => Makes(K.sends)
    /\ K.skill \in {"build", "deploy"} \/ (K.type = "Building" /\ K.makes # "no") => Makes(K.makes)

\* Every unit file has these properties.
LEMMA KindFacts == \A k \in KindNames : Fine(Kind[k])
<1>1. /\ Makes("footman") /\ Makes("sentry") /\ Makes("pixie") /\ Makes("micromissile")
      /\ Makes("beholder") /\ Makes("barrack") /\ Makes("blastturret") /\ Makes("cannon")
      /\ Makes("sentryshelter") /\ Makes("pixiegeode")
  <2>1. Makes("footman") /\ Makes("sentry") /\ Makes("pixie")
    BY DEF Makes, KindNames, Kind, Footman, Sentry, Pixie, Plain
  <2>2. Makes("micromissile")
    BY DEF Makes, KindNames, Kind, Micromissile, Plain
  <2>3. Makes("beholder") /\ Makes("barrack") /\ Makes("blastturret")
    BY DEF Makes, KindNames, Kind, Beholder, Barrack, Blastturret, Building, Plain
  <2>4. Makes("cannon") /\ Makes("sentryshelter") /\ Makes("pixiegeode")
    BY DEF Makes, KindNames, Kind, Cannon, Sentryshelter, Pixiegeode, Building, Plain
  <2> QED
    BY <2>1, <2>2, <2>3, <2>4
<1>2. Gunner = [type |-> "Knight", layer |-> "Normal", hits |-> "round", armour |-> "hull",
                blast |-> "no", skill |-> "no", makes |-> "no", support |-> "ratio", sends |-> "no"]
  <2> DEFINE A == [type |-> "Knight", layer |-> "Normal", hits |-> "strike", armour |-> "hull",
                   blast |-> "no", skill |-> "no", makes |-> "no", support |-> "no", sends |-> "no"]
             C == [type |-> "Knight", layer |-> "Normal", hits |-> "round", armour |-> "hull",
                   blast |-> "no", skill |-> "no", makes |-> "no", support |-> "no", sends |-> "no"]
  <2>1. [Plain EXCEPT !.type = "Knight"] = A
    BY DEF Plain
  <2>2. [A EXCEPT !.hits = "round"] = C
    OBVIOUS
  <2>3. Gunner = [[[Plain EXCEPT !.type = "Knight"] EXCEPT !.hits = "round"] EXCEPT !.support = "ratio"]
    BY DEF Gunner
  <2>4. Gunner = [C EXCEPT !.support = "ratio"]
    BY <2>1, <2>2, <2>3
  <2> QED
    BY <2>4
<1>3. Beamer = [type |-> "Knight", layer |-> "Normal", hits |-> "sweep", armour |-> "hull",
                blast |-> "no", skill |-> "no", makes |-> "no", support |-> "ratio", sends |-> "no"]
  BY <1>2 DEF Beamer
<1>4. Fine(Absorber) /\ Fine(Archer) /\ Fine(Archmage) /\ Fine(Azero)
  BY <1>1 DEF Fine, Absorber, Plain, Archer, Archmage, Azero
<1>5. Fine(Berserker) /\ Fine(Blaster) /\ Fine(Champion) /\ Fine(Drillram)
  BY <1>1 DEF Fine, Berserker, Plain, Blaster, Champion, Drillram
<1>6. Fine(Enforcer) /\ Fine(Felhound) /\ Fine(Footman) /\ Fine(Gargoyle)
  BY <1>1 DEF Fine, Enforcer, Plain, Felhound, Footman, Gargoyle
<1>7. Fine(Gargoyleking) /\ Fine(Giant) /\ Fine(Heavymissile) /\ Fine(Jouster)
  BY <1>1 DEF Fine, Gargoyleking, Plain, Giant, Heavymissile, Micromissile, Jouster
<1>8. Fine(Micromissile) /\ Fine(Nukemissile) /\ Fine(Ogre) /\ Fine(Panzerkunstler)
  BY <1>1 DEF Fine, Micromissile, Plain, Nukemissile, Ogre, Panzerkunstler
<1>9. Fine(Pixie) /\ Fine(Psabu) /\ Fine(Sentry) /\ Fine(Shadowvision)
  BY <1>1 DEF Fine, Pixie, Plain, Psabu, Sentry, Shadowvision
<1>10. Fine(Starfire) /\ Fine(Trainee) /\ Fine(Voidcreeper) /\ Fine(Wasp)
  BY <1>1 DEF Fine, Starfire, Plain, Trainee, Voidcreeper, Wasp
<1>11. Fine(Barrack) /\ Fine(Beholder) /\ Fine(Blastturret)
  BY <1>1 DEF Fine, Barrack, Building, Plain, Beholder, Blastturret
<1>12. Fine(Cannon) /\ Fine(Pixiegeode) /\ Fine(Sentryshelter)
  BY <1>1 DEF Fine, Cannon, Building, Plain, Pixiegeode, Sentryshelter
<1>13. Fine(Archengineer) /\ Fine(Archsapper) /\ Fine(Frost)
  BY <1>1, <1>2 DEF Fine, Archengineer, Archsapper, Frost
<1>14. Fine(Ironcoffin) /\ Fine(Judge) /\ Fine(Lancer)
  BY <1>1, <1>2 DEF Fine, Ironcoffin, Judge, Lancer
<1>15. Fine(Legion) /\ Fine(Pixieking) /\ Fine(Valkyrie)
  BY <1>1, <1>2 DEF Fine, Legion, Pixieking, Valkyrie
<1>16. Fine(Astra) /\ Fine(Buran)
  BY <1>1, <1>3 DEF Fine, Astra, Buran
<1>17. Fine(Nagmash) /\ Fine(Tombstone)
  BY <1>1, <1>3 DEF Fine, Nagmash, Tombstone
<1> QED
  BY <1>4, <1>5, <1>6, <1>7, <1>8, <1>9, <1>10, <1>11, <1>12, <1>13, <1>14, <1>15, <1>16,
     <1>17 DEF Kind, KindNames

-----------------------------------------------------------------------------
(* Changes of the units while no loop over victims runs.                   *)

\* Between two updates: the part of the invariant about the units.
Settled(us, n, oc, kn) == Placed(us, n, oc) /\ Counted(us, kn) /\ BlastsOK(<<>>, us)

\* Unit "n + 1" joins the others.
Grown(us, n, new) == [i \in DOMAIN us \cup {n + 1} |-> IF i = n + 1 THEN new ELSE us[i]]

\* "v" is "u" in all that the tiles, the score and the explosions depend on.
Alike(u, v) ==
    /\ v.kind = u.kind /\ v.team = u.team /\ v.hp = u.hp /\ v.tiles = u.tiles /\ v.site = u.site
    /\ v.fuse = u.fuse /\ v.blasts = u.blasts

\* With no loop on the stack, nothing is pending.
LEMMA NoneCalled ==
    ASSUME NEW us
    PROVE  /\ CallsOK(<<>>, us)
           /\ \A i, then : ~Pending(<<>>, i, then)
<1>1. <<>> \in Seq({}) /\ Len(<<>>) = 0
  OBVIOUS
<1> QED
  BY <1>1 DEF CallsOK, Pending

LEMMA BlastsAlone ==
    ASSUME NEW us
    PROVE  BlastsOK(<<>>, us) <=> \A i \in DOMAIN us : BlastOK(us[i], FALSE, FALSE)
<1>1. \A i : Pending(<<>>, i, "burn") = FALSE /\ Pending(<<>>, i, "spent") = FALSE
  <2>1. \A i : ~Pending(<<>>, i, "burn") /\ ~Pending(<<>>, i, "spent")
    BY NoneCalled
  <2> QED
    BY <2>1 DEF Pending
<1> QED
  BY <1>1, Zenon DEF BlastsOK

\* Changes of units that leave the field as it is.
LEMMA SettledAlike ==
    ASSUME NEW us, NEW n, NEW oc, NEW kn, Settled(us, n, oc, kn),
           NEW vs \in [DOMAIN us -> UnitType],
           \A i \in DOMAIN us : Alike(us[i], vs[i]) /\ Sound(vs[i])
    PROVE  Settled(vs, n, oc, kn)
<1>1. DOMAIN vs = DOMAIN us
  OBVIOUS
<1>2. Placed(vs, n, oc)
  BY <1>1 DEF Settled, Placed, Alike
<1>3. Counted(vs, kn)
  <2>1. \A p \in Teams :
            {i \in DOMAIN us : us[i].team = p /\ Knight(us[i]) /\ us[i].hp > 0}
              = {i \in DOMAIN vs : vs[i].team = p /\ Knight(vs[i]) /\ vs[i].hp > 0}
    BY <1>1 DEF Alike, Knight
  <2> QED
    BY <2>1 DEF Settled, Counted
<1>4. BlastsOK(<<>>, vs)
  BY <1>1, BlastsAlone DEF Settled, Alike, BlastOK
<1> QED
  BY <1>2, <1>3, <1>4 DEF Settled

\* A unit that has just been made.
Fits(u, k, team, tiles) ==
    /\ u \in UnitType /\ Sound(u) /\ BlastOK(u, FALSE, FALSE)
    /\ u.kind = k /\ u.team = team /\ u.tiles = tiles /\ u.site = {} /\ u.hp > 0 /\ u.cast = 0

LEMMA NewUnitFits ==
    ASSUME NEW k \in KindNames, NEW team \in Teams, NEW tiles \in SUBSET Tiles
    PROVE  Fits(NewUnit(k, team, tiles), k, team, tiles)
<1>1. Kind[k].layer \in {"Normal", "Ether"}
  BY KindFacts DEF Fine
<1>2. Health[k] \in Nat \ {0} /\ FreezeTime \in Nat /\ CastDuration \in Nat
  BY BattleAssumption
<1> DEFINE u == NewUnit(k, team, tiles)
<1>3. /\ u.kind = k /\ u.team = team /\ u.hp = Health[k] /\ u.layer = Kind[k].layer /\ u.freeze = 0
      /\ u.fuse = "off" /\ u.cast = 0 /\ u.tiles = tiles /\ u.site = {} /\ u.blasts = 0
  BY DEF NewUnit
<1>4. u \in UnitType
  BY <1>1, <1>2 DEF NewUnit, UnitType
<1> HIDE DEF u
<1>5. Sound(u)
  BY <1>2, <1>3 DEF Sound
<1>6. BlastOK(u, FALSE, FALSE)
  BY <1>2, <1>3 DEF BlastOK
<1>7. u.hp > 0
  BY <1>2, <1>3
<1>8. Fits(u, k, team, tiles)
  BY <1>3, <1>4, <1>5, <1>6, <1>7, Zenon DEF Fits
<1> QED
  BY <1>8 DEF u

\* A unit without tiles that is not a knight joins.
LEMMA SettledGrown ==
    ASSUME NEW us, NEW n, NEW oc, NEW kn, Settled(us, n, oc, kn),
           NEW k, Makes(k), NEW team \in Teams
    PROVE  Settled(Grown(us, n, NewUnit(k, team, {})), n + 1, oc, kn)
<1> DEFINE u == NewUnit(k, team, {})
           vs == Grown(us, n, u)
<1>0. Fits(u, k, team, {}) /\ Kind[k].type # "Knight"
  BY NewUnitFits DEF Makes
<1> HIDE DEF u
<1>1. /\ u \in UnitType /\ Sound(u) /\ BlastOK(u, FALSE, FALSE)
      /\ u.tiles = {} /\ u.site = {} /\ ~Knight(u)
  BY <1>0 DEF Knight, Fits
<1>2. n \in Nat /\ DOMAIN us \subseteq 1..n /\ n + 1 \notin DOMAIN us
  BY DEF Settled, Placed
<1>3. /\ DOMAIN vs = DOMAIN us \cup {n + 1} /\ vs[n + 1] = u
      /\ \A i \in DOMAIN us : vs[i] = us[i]
  BY <1>2 DEF Grown
<1>4. vs \in [DOMAIN vs -> UnitType]
  BY <1>1, <1>2 DEF Grown, Settled, Placed
<1> HIDE DEF vs
<1>5. Placed(vs, n + 1, oc)
  <2>1. n + 1 \in Nat /\ DOMAIN vs \subseteq 1..(n + 1)
    BY <1>2, <1>3
  <2>2. \A i \in DOMAIN vs : Sound(vs[i])
    BY <1>1, <1>3 DEF Settled, Placed
  <2>3. oc \in [Tiles -> {Obstacle, Free} \cup 1..n]
    BY DEF Settled, Placed
  <2>4. oc \in [Tiles -> {Obstacle, Free} \cup 1..(n + 1)]
    BY <1>2, <2>3
  <2>5. \A t \in Tiles : oc[t] # n + 1
    BY <1>2, <2>3 DEF Obstacle, Free
  <2>6. \A t \in Tiles, i \in DOMAIN vs : oc[t] = i <=> t \in vs[i].tiles \cup vs[i].site
    BY <1>1, <1>3, <2>5 DEF Settled, Placed
  <2>7. \A t \in Tiles : oc[t] \in {Free, Obstacle} \cup DOMAIN vs
    BY <1>3 DEF Settled, Placed
  <2> QED
    BY <1>4, <2>1, <2>2, <2>4, <2>6, <2>7 DEF Placed
<1>6. Counted(vs, kn)
  <2>1. \A p \in Teams :
            {i \in DOMAIN us : us[i].team = p /\ Knight(us[i]) /\ us[i].hp > 0}
              = {i \in DOMAIN vs : vs[i].team = p /\ Knight(vs[i]) /\ vs[i].hp > 0}
    BY <1>1, <1>3
  <2> QED
    BY <2>1 DEF Settled, Counted
<1>7. BlastsOK(<<>>, vs)
  BY <1>1, <1>3, BlastsAlone DEF Settled
<1> QED
  BY <1>5, <1>6, <1>7 DEF Settled, vs, u

-----------------------------------------------------------------------------
(* What the steps of a unit make of it.                                    *)

\* "v" may take the place of "u" on the field.
Replaces(v, u) == v \in UnitType /\ Sound(v) /\ Alike(u, v)

LEMMA TypesOfNumbers ==
    /\ CastDelay \in Nat /\ CastDuration \in Nat /\ CastDelay < CastDuration /\ FreezeTime \in Nat
    /\ \A k \in KindNames : Health[k] \in Nat \ {0}
    /\ \A k \in KindNames : Kind[k].layer \in {"Normal", "Ether"}
<1>1. \A k \in KindNames : Kind[k].layer \in {"Normal", "Ether"}
  BY KindFacts DEF Fine
<1> QED
  BY <1>1, BattleAssumption

\* One step of a cast leaves the knight's site alone, unless the building is due.
LEMMA CastOnReplaces ==
    ASSUME NEW u \in UnitType, Sound(u), u.cast > 0,
           Kind[u.kind].skill = "build" => u.cast # CastDelay + 1
    PROVE  Replaces(CastOn(u), u)
<1> DEFINE v == CastOn(u)
<1>1. /\ u.cast \in 0..CastDuration + 1 /\ u.kind \in KindNames /\ u.hp \in Nat /\ u.tiles \in SUBSET Tiles
      /\ u.site \in SUBSET Tiles
  BY DEF UnitType
<1>2. CASE u.cast > CastDuration
  <2>1. v = [u EXCEPT !.cast = 0, !.layer = Kind[u.kind].layer]
    BY <1>2 DEF CastOn
  <2> HIDE DEF v
  <2>0. Kind[u.kind].layer \in {"Normal", "Ether", "Casting"} /\ 0 \in 0..CastDuration + 1
    BY <1>1, TypesOfNumbers
  <2>2. v \in UnitType /\ v.cast = 0
    BY <2>1, <2>0 DEF UnitType
  <2>3. Alike(u, v)
    BY <2>1 DEF Alike, UnitType
  <2>4. Sound(v)
    BY <1>1, <1>2, <2>2, <2>3, TypesOfNumbers DEF Sound, Alike
  <2> QED
    BY <2>2, <2>3, <2>4 DEF Replaces, v
<1>3. CASE ~(u.cast > CastDuration)
  <2>1. v = [u EXCEPT !.cast = @ + 1]
    BY <1>3 DEF CastOn
  <2>2. v \in UnitType /\ v.cast = u.cast + 1 /\ v.layer = u.layer
    BY <2>1, <1>1, <1>3, TypesOfNumbers DEF UnitType
  <2>3. Alike(u, v)
    BY <2>1 DEF Alike, UnitType
  <2>4. Sound(v)
    BY <1>1, <1>3, <2>2, <2>3, TypesOfNumbers DEF Sound, Alike, Knight
  <2> QED
    BY <2>2, <2>3, <2>4 DEF Replaces
<1> QED
  BY <1>2, <1>3

LEMMA FreezeReplaces ==
    ASSUME NEW u \in UnitType, Sound(u)
    PROVE  Replaces(Freeze(u), u) /\ Freeze(u).cast = u.cast
<1>1. Freeze(u) \in UnitType /\ Freeze(u).cast = u.cast /\ Freeze(u).layer = u.layer
  BY TypesOfNumbers DEF Freeze, UnitType
<1>2. Alike(u, Freeze(u))
  BY DEF Alike, Freeze, UnitType
<1>3. Sound(Freeze(u))
  BY <1>1, <1>2 DEF Sound, Alike, Knight
<1> QED
  BY <1>1, <1>2, <1>3 DEF Replaces

\* The other changes: frost that thaws, a veil, and the count of a leader.
LEMMA OthersReplace ==
    ASSUME NEW u \in UnitType, Sound(u)
    PROVE  /\ Replaces(u, u)
           /\ u.freeze > 0 => Replaces([u EXCEPT !.freeze = @ - 1], u)
           /\ u.cast <= 0 => \A l \in {"Normal", Kind[u.kind].layer} : Replaces([u EXCEPT !.layer = l], u)
           /\ \A toll \in Nat : Replaces([u EXCEPT !.toll = toll], u)
<1>0. u.kind \in KindNames /\ u.freeze \in 0..FreezeTime /\ u.cast \in 0..CastDuration + 1
  BY DEF UnitType
<1>1. Replaces(u, u)
  BY DEF Replaces, Alike
<1>2. ASSUME u.freeze > 0 PROVE Replaces([u EXCEPT !.freeze = @ - 1], u)
  <2> DEFINE v == [u EXCEPT !.freeze = @ - 1]
  <2>1. v \in UnitType /\ Alike(u, v) /\ v.cast = u.cast /\ v.layer = u.layer
    BY <1>2, <1>0, TypesOfNumbers DEF UnitType, Alike
  <2> HIDE DEF v
  <2>2. Sound(v)
    BY <2>1 DEF Sound, Alike, Knight
  <2> QED
    BY <2>1, <2>2 DEF Replaces, v
<1>3. ASSUME u.cast <= 0, NEW l \in {"Normal", Kind[u.kind].layer} PROVE Replaces([u EXCEPT !.layer = l], u)
  <2> DEFINE v == [u EXCEPT !.layer = l]
  <2>1. v \in UnitType /\ Alike(u, v) /\ v.cast = u.cast
    BY <1>0, TypesOfNumbers DEF UnitType, Alike
  <2> HIDE DEF v
  <2>2. Sound(v)
    BY <1>0, <1>3, <2>1, TypesOfNumbers DEF Sound, Alike, Knight
  <2> QED
    BY <2>1, <2>2 DEF Replaces, v
<1>4. ASSUME NEW toll \in Nat PROVE Replaces([u EXCEPT !.toll = toll], u)
  <2> DEFINE v == [u EXCEPT !.toll = toll]
  <2>1. v \in UnitType /\ Alike(u, v) /\ v.cast = u.cast /\ v.layer = u.layer
    BY DEF UnitType, Alike
  <2> HIDE DEF v
  <2>2. Sound(v)
    BY <2>1 DEF Sound, Alike, Knight
  <2> QED
    BY <2>1, <2>2 DEF Replaces, v
<1> QED
  BY <1>1, <1>2, <1>3, <1>4

\* What "id" becomes may take its place: so the field stays settled.
LEMMA SettledBecome ==
    ASSUME NEW us, NEW n, NEW oc, NEW kn, Settled(us, n, oc, kn),
           NEW id \in DOMAIN us, NEW v, Replaces(v, us[id])
    PROVE  Settled([us EXCEPT ![id] = v], n, oc, kn)
<1> DEFINE vs == [us EXCEPT ![id] = v]
<1>1. us \in [DOMAIN us -> UnitType] /\ \A i \in DOMAIN us : Sound(us[i])
  BY DEF Settled, Placed
<1>2. vs \in [DOMAIN us -> UnitType]
  BY <1>1 DEF Replaces
<1>3. \A i \in DOMAIN us : Alike(us[i], vs[i]) /\ Sound(vs[i])
  BY <1>1 DEF Replaces, Alike
<1> HIDE DEF vs
<1>4. Settled(vs, n, oc, kn)
  BY <1>2, <1>3, SettledAlike
<1> QED
  BY <1>4 DEF vs

-----------------------------------------------------------------------------
(* The steps of the units.                                                 *)

\* The invariant when no loop over victims runs, in this state and in the next.
LEMMA QuietInv ==
    ASSUME calls = <<>>
    PROVE  BattleInv <=> Control /\ Settled(units, unitCounter, occupied, knightIds)
BY NoneCalled DEF BattleInv, Settled

LEMMA QuietInvNext ==
    ASSUME Control', calls' = <<>>, Settled(units', unitCounter', occupied', knightIds')
    PROVE  BattleInv'
BY NoneCalled DEF BattleInv, Settled

\* One loop on the stack.
LEMMA OneCall ==
    ASSUME NEW c, NEW us, CallOK(c, us, TRUE)
    PROVE  /\ CallsOK(<<c>>, us)
           /\ \A i, then : Pending(<<c>>, i, then) <=> c.by = i /\ c.then = then
<1>1. <<c>> \in Seq({c}) /\ Len(<<c>>) = 1 /\ <<c>>[1] = c /\ 1..1 = {1}
  OBVIOUS
<1>2. \A k \in 1..Len(<<c>>) : k = 1 /\ <<c>>[k] = c /\ (k = Len(<<c>>)) = TRUE
  BY <1>1
<1>3. \A k \in 1..Len(<<c>>) : CallOK(<<c>>[k], us, k = Len(<<c>>))
  BY <1>2, Zenon
<1> QED
  BY <1>1, <1>3 DEF CallsOK, Pending

\* A loop of which nobody awaits the end.
LEMMA PlainLoop ==
    ASSUME NEW id, NEW vs, NEW freezes, NEW us
    PROVE  CallOK(Loop(id, vs, freezes, "none"), us, TRUE)
<1> DEFINE c == Loop(id, vs, freezes, "none")
<1>1. c.then = "none" /\ c = [by |-> c.by, victims |-> c.victims, freezes |-> c.freezes, then |-> c.then]
  BY DEF Loop
<1> HIDE DEF c
<1>2. CallOK(c, us, TRUE)
  BY <1>1 DEF CallOK
<1> QED
  BY <1>2 DEF c

\* A step that only starts a loop which does not come from an explosion.
LEMMA LoopStarted ==
    ASSUME Control', Settled(units, unitCounter, occupied, knightIds),
           UNCHANGED <<units, unitCounter, occupied, knightIds>>,
           NEW c, calls' = <<c>>, CallOK(c, units, TRUE), c.then \notin {"burn", "spent"}
    PROVE  BattleInv'
<1>1. CallsOK(<<c>>, units) /\ \A i : ~Pending(<<c>>, i, "burn") /\ ~Pending(<<c>>, i, "spent")
  BY OneCall
<1>2. \A i : Pending(<<c>>, i, "burn") = FALSE /\ Pending(<<c>>, i, "spent") = FALSE
  BY <1>1 DEF Pending
<1>3. BlastsOK(<<c>>, units)
  <2>1. \A i \in DOMAIN units : BlastOK(units[i], FALSE, FALSE)
    BY BlastsAlone DEF Settled
  <2> QED
    BY <1>2, <2>1, Zenon DEF BlastsOK
<1>4. BlastsOK(calls, units)' /\ CallsOK(calls, units)'
  BY <1>1, <1>3
<1> QED
  BY <1>4 DEF BattleInv, Settled

\* Within the loops of game.Update only the tally of the knights changes.
LEMMA ControlKept ==
    ASSUME Control, phase \in {"units", "bullets", "skills"}, panicked' = FALSE,
           UNCHANGED <<step, phase, deathToll, score, cards, acted>>
    PROVE  Control'
BY DEF Control

\* The steps that leave the units alone, or change them one by one.
LEMMA UnitsSettled ==
    ASSUME BattleInv, NEW id \in DOMAIN units, NEW part, Visit(id, part), calls' = <<>>,
           panicked' = FALSE, Settled(units', unitCounter', occupied', knightIds)
    PROVE  BattleInv'
<1>1. Control'
  BY ControlKept DEF BattleInv, Visit, tally, hands
<1>2. knightIds' = knightIds
  BY DEF Visit, tally
<1> QED
  BY <1>1, <1>2, QuietInvNext

\* A unit whose update runs is typed and sound.
LEMMA Visited ==
    ASSUME BattleInv, NEW id \in DOMAIN units, NEW part, Visit(id, part)
    PROVE  /\ calls = <<>> /\ ~panicked /\ phase = "units"
           /\ Settled(units, unitCounter, occupied, knightIds)
           /\ units[id] \in UnitType /\ Sound(units[id])
           /\ Fine(Is(id)) /\ units[id].kind \in KindNames /\ units[id].team \in Teams
<1>1. calls = <<>> /\ ~panicked /\ phase = "units"
  BY DEF Visit
<1>2. Settled(units, unitCounter, occupied, knightIds)
  BY <1>1, QuietInv
<1>3. units[id] \in UnitType /\ Sound(units[id])
  BY <1>2 DEF Settled, Placed
<1>4. units[id].kind \in KindNames /\ units[id].team \in Teams
  BY <1>3 DEF UnitType
<1> QED
  BY <1>1, <1>2, <1>3, <1>4, KindFacts DEF Is

\* A unit without tiles is added, while "id" becomes something that may take its place.
LEMMA UnitAdded ==
    ASSUME Settled(units, unitCounter, occupied, knightIds), NEW id \in DOMAIN units, NEW after,
           Replaces(after, units[id]), NEW name, Makes(name), NEW team \in Teams,
           AddUnit(name, team, {}, id, after)
    PROVE  Settled(units', unitCounter', occupied, knightIds)
<1> DEFINE vs == [units EXCEPT ![id] = after]
<1>1. Settled(vs, unitCounter, occupied, knightIds)
  BY SettledBecome
<1>2. Settled(Grown(vs, unitCounter, NewUnit(name, team, {})), unitCounter + 1, occupied, knightIds)
  BY <1>1, SettledGrown
<1>3. unitCounter + 1 \notin DOMAIN units
  BY DEF Settled, Placed
<1>4. units' = Grown(vs, unitCounter, NewUnit(name, team, {}))
  BY <1>3 DEF AddUnit, Grown
<1> QED
  BY <1>2, <1>4 DEF AddUnit

\* The building takes the site over from the knight that kept it.
LEMMA BuildKeeps ==
    ASSUME BattleInv, NEW id \in DOMAIN units, CastBuild(id)
    PROVE  BattleInv'
<1> DEFINE u == units[id]
           site == u.site
           v == CastOn([u EXCEPT !.site = {}])
           new == unitCounter + 1
           b == NewUnit(Is(id).makes, u.team, site)
<1>1. Visit(id, "act") /\ u.cast > 0 /\ u.cast = CastDelay + 1 /\ Kind[u.kind].skill = "build"
  BY DEF CastBuild, Casting, CastActs, Is
<1>2. /\ Settled(units, unitCounter, occupied, knightIds)
      /\ u \in UnitType /\ Sound(u) /\ Fine(Kind[u.kind]) /\ u.team \in Teams
  BY <1>1, Visited DEF Is
<1>3. Makes(Is(id).makes)
  BY <1>1, <1>2 DEF Fine, Is
<1>4. Fits(b, Is(id).makes, u.team, site) /\ ~Knight(b)
  <2>1. site \in SUBSET Tiles /\ Is(id).makes \in KindNames
    BY <1>2, <1>3 DEF UnitType, Makes
  <2>2. Fits(b, Is(id).makes, u.team, site)
    BY <2>1, <1>2, NewUnitFits
  <2> HIDE DEF b
  <2> QED
    BY <2>2, <1>3 DEF Fits, Makes, Knight
<1>5. /\ v \in UnitType /\ Sound(v) /\ v.kind = u.kind /\ v.team = u.team /\ v.hp = u.hp
      /\ v.tiles = u.tiles /\ v.site = {} /\ v.fuse = u.fuse /\ v.blasts = u.blasts
  <2> DEFINE w == [u EXCEPT !.site = {}]
  <2>1. w \in UnitType /\ w.site = {} /\ w.cast = u.cast /\ w.layer = u.layer /\ Alike([u EXCEPT !.site = {}], w)
    BY <1>2 DEF UnitType, Alike
  <2>2. /\ w.kind = u.kind /\ w.team = u.team /\ w.hp = u.hp /\ w.tiles = u.tiles
        /\ w.fuse = u.fuse /\ w.blasts = u.blasts
    BY <1>2 DEF UnitType
  <2> HIDE DEF w
  <2>3. u.cast \in 0..CastDuration + 1 /\ u.cast <= CastDuration /\ ~(w.cast > CastDuration)
    BY <1>1, <1>2, <2>1, TypesOfNumbers DEF UnitType
  <2>4. CastOn(w) = [w EXCEPT !.cast = @ + 1]
    BY <2>3 DEF CastOn
  <2>5. /\ CastOn(w) \in UnitType /\ Alike(w, CastOn(w)) /\ CastOn(w).cast = u.cast + 1
        /\ CastOn(w).layer = u.layer
    BY <2>1, <2>3, <2>4, TypesOfNumbers DEF UnitType, Alike
  <2>6. Sound(CastOn(w))
    BY <1>1, <1>2, <2>1, <2>2, <2>3, <2>5, TypesOfNumbers DEF Sound, Alike, Knight
  <2> QED
    BY <2>1, <2>2, <2>5, <2>6 DEF Alike, w
<1> HIDE DEF v, b
<1>6. /\ units' = [i \in DOMAIN units \cup {new} |-> IF i = new THEN b ELSE IF i = id THEN v ELSE units[i]]
      /\ unitCounter' = new /\ occupied' = Owned(site, new) /\ panicked' = NotOwned(site, id)
  BY DEF CastBuild, AddUnit, v, b
<1>7. unitCounter \in Nat /\ DOMAIN units \subseteq 1..unitCounter /\ new \notin DOMAIN units
  BY <1>2 DEF Settled, Placed
<1>8. /\ DOMAIN units' = DOMAIN units \cup {new} /\ units'[new] = b /\ units'[id] = v
      /\ \A i \in DOMAIN units : i # id => units'[i] = units[i]
  BY <1>6, <1>7
<1>9. Placed(units', unitCounter', occupied')
  <2>1. unitCounter' \in Nat /\ DOMAIN units' \subseteq 1..unitCounter'
    BY <1>6, <1>7, <1>8
  <2>2. \A i \in DOMAIN units' : units'[i] \in UnitType /\ Sound(units'[i])
    BY <1>2, <1>4, <1>5, <1>8 DEF Fits, Settled, Placed
  <2>3. units' \in [DOMAIN units' -> UnitType]
    BY <1>6, <2>2
  <2>4. occupied \in [Tiles -> {Obstacle, Free} \cup 1..unitCounter]
    BY <1>2 DEF Settled, Placed
  <2>5. occupied' \in [Tiles -> {Obstacle, Free} \cup 1..unitCounter']
    BY <1>6, <1>7, <2>4 DEF Owned
  <2>6. \A t \in Tiles : occupied'[t] = IF t \in site THEN new ELSE occupied[t]
    BY <1>6 DEF Owned
  <2>7. \A t \in Tiles : occupied[t] # new
    BY <1>7, <2>4 DEF Obstacle, Free
  <2>8. \A t \in Tiles, i \in DOMAIN units : occupied[t] = i <=> t \in units[i].tiles \cup units[i].site
    BY <1>2 DEF Settled, Placed
  <2>9. \A t \in Tiles : occupied'[t] = new <=> t \in units'[new].tiles \cup units'[new].site
    BY <1>4, <1>8, <2>6, <2>7 DEF Fits
  <2>10. \A t \in Tiles : occupied'[t] = id <=> t \in units'[id].tiles \cup units'[id].site
    <3>1. u.tiles \cap site = {}
      BY <1>2 DEF Sound
    <3> QED
      BY <1>5, <1>7, <1>8, <2>6, <2>8, <3>1
  <2>11. \A t \in Tiles, i \in DOMAIN units : i # id =>
             (occupied'[t] = i <=> t \in units'[i].tiles \cup units'[i].site)
    BY <1>7, <1>8, <2>6, <2>8
  <2>12. \A t \in Tiles, i \in DOMAIN units' : occupied'[t] = i <=> t \in units'[i].tiles \cup units'[i].site
    BY <1>8, <2>9, <2>10, <2>11
  <2>13. \A t \in Tiles : occupied'[t] \in {Free, Obstacle} \cup DOMAIN units'
    BY <1>2, <1>8, <2>6 DEF Settled, Placed
  <2> QED
    BY <2>1, <2>2, <2>3, <2>5, <2>12, <2>13 DEF Placed
<1>10. Counted(units', knightIds')
  <2>1. knightIds' = knightIds
    BY <1>1 DEF Visit, tally
  <2>2. \A p \in Teams :
            {i \in DOMAIN units : units[i].team = p /\ Knight(units[i]) /\ units[i].hp > 0}
              = {i \in DOMAIN units' : units'[i].team = p /\ Knight(units'[i]) /\ units'[i].hp > 0}
    BY <1>4, <1>5, <1>7, <1>8 DEF Knight
  <2> QED
    BY <1>2, <2>1, <2>2 DEF Settled, Counted
<1>11. BlastsOK(<<>>, units')
  <2>1. BlastOK(v, FALSE, FALSE)
    BY <1>2, <1>5, BlastsAlone DEF Settled, BlastOK
  <2>2. BlastOK(b, FALSE, FALSE)
    BY <1>4 DEF Fits
  <2> QED
    BY <1>2, <1>8, <2>1, <2>2, BlastsAlone DEF Settled
<1>12. panicked' = FALSE
  BY <1>2, <1>6 DEF Settled, Placed, NotOwned, Sound, UnitType
<1>13. Control'
  BY <1>1, <1>12, ControlKept DEF BattleInv, Visit, tally, hands
<1>14. calls' = <<>>
  BY <1>1 DEF CastBuild, Quiet, Visit
<1> QED
  BY <1>9, <1>10, <1>11, <1>13, <1>14, QuietInvNext DEF Settled

\* A unit keeps its tiles: the field stays in place.
LEMMA PlacedBecome ==
    ASSUME NEW us, NEW n, NEW oc, Placed(us, n, oc), NEW id \in DOMAIN us,
           NEW v \in UnitType, Sound(v), v.tiles = us[id].tiles, v.site = us[id].site
    PROVE  Placed([us EXCEPT ![id] = v], n, oc)
<1> DEFINE vs == [us EXCEPT ![id] = v]
<1>1. us \in [DOMAIN us -> UnitType]
  BY DEF Placed
<1>2. vs \in [DOMAIN vs -> UnitType] /\ DOMAIN vs = DOMAIN us
  BY <1>1
<1>3. vs[id] = v /\ \A i \in DOMAIN us : i # id => vs[i] = us[i]
  OBVIOUS
<1> HIDE DEF vs
<1>4. Placed(vs, n, oc)
  BY <1>2, <1>3 DEF Placed
<1> QED
  BY <1>4 DEF vs

\* A unit lives on, or is no knight: the same knights count.
LEMMA CountedBecome ==
    ASSUME NEW us, NEW kn, Counted(us, kn), NEW id \in DOMAIN us,
           NEW v, v.kind = us[id].kind, v.team = us[id].team,
           Knight(v) => v.hp = us[id].hp
    PROVE  Counted([us EXCEPT ![id] = v], kn)
<1> DEFINE vs == [us EXCEPT ![id] = v]
<1>1. DOMAIN vs = DOMAIN us /\ vs[id] = v /\ \A i \in DOMAIN us : i # id => vs[i] = us[i]
  OBVIOUS
<1> HIDE DEF vs
<1>2. \A p \in Teams :
          {i \in DOMAIN us : us[i].team = p /\ Knight(us[i]) /\ us[i].hp > 0}
            = {i \in DOMAIN vs : vs[i].team = p /\ Knight(vs[i]) /\ vs[i].hp > 0}
  BY <1>1 DEF Knight
<1>3. Counted(vs, kn)
  BY <1>2 DEF Counted
<1> QED
  BY <1>3 DEF vs

\* A missile does not explode when it lights its fuse: it had not exploded before.
LEMMA LightKeeps ==
    ASSUME BattleInv, NEW id \in DOMAIN units, Light(id)
    PROVE  BattleInv'
<1> DEFINE u == units[id]
           v == [u EXCEPT !.fuse = "lit"]
<1>1. Visit(id, "act") /\ calls' = calls /\ panicked' = panicked /\ occupied' = occupied
  BY DEF Light, Ready, Quiet, SameTiles
<1>2. /\ Settled(units, unitCounter, occupied, knightIds) /\ calls = <<>>
      /\ u \in UnitType /\ Sound(u)
  BY <1>1, Visited
<1>3. units' = [units EXCEPT ![id] = v] /\ unitCounter' = unitCounter
  BY DEF Light, Become
<1>4. /\ v \in UnitType /\ v.kind = u.kind /\ v.team = u.team /\ v.hp = u.hp /\ v.tiles = u.tiles
      /\ v.site = u.site /\ v.cast = u.cast /\ v.layer = u.layer /\ v.blasts = u.blasts /\ v.fuse = "lit"
  BY <1>2 DEF UnitType
<1> HIDE DEF v
<1>5. Sound(v)
  BY <1>2, <1>4 DEF Sound, Knight
<1>6. /\ units \in [DOMAIN units -> UnitType] /\ DOMAIN units' = DOMAIN units /\ units'[id] = v
      /\ \A i \in DOMAIN units : i # id => units'[i] = units[i]
  BY <1>2, <1>3 DEF Settled, Placed
<1>7. Placed(units', unitCounter', occupied')
  BY <1>1, <1>2, <1>3, <1>4, <1>5, PlacedBecome DEF Settled
<1>8. Counted(units', knightIds')
  BY <1>1, <1>2, <1>3, <1>4, CountedBecome DEF Settled, Placed, Visit, tally
<1>9. BlastsOK(<<>>, units')
  <2>1. Kind[u.kind].blast = "fuse" /\ u.fuse = "off"
    BY DEF Light, Is
  <2>2. u.blasts = 0
    BY <1>2, <2>1, BlastsAlone DEF Settled, BlastOK
  <2>3. BlastOK(v, FALSE, FALSE)
    BY <1>4, <2>1, <2>2 DEF BlastOK
  <2> QED
    BY <1>2, <1>6, <2>3, BlastsAlone DEF Settled
<1>10. Control'
  BY <1>1, <1>2, ControlKept DEF BattleInv, Control, Visit, tally, hands
<1> QED
  BY <1>1, <1>2, <1>7, <1>8, <1>9, <1>10, QuietInvNext DEF Settled

\* A missile whose fuse burns down explodes for the first time.
LEMMA ExplodeKeeps ==
    ASSUME BattleInv, NEW id \in DOMAIN units, Explode(id)
    PROVE  BattleInv'
<1> DEFINE u == units[id]
           v == [u EXCEPT !.blasts = @ + 1]
<1>1. Visit(id, "act") /\ panicked' = panicked /\ occupied' = occupied /\ u.fuse = "lit"
  BY DEF Explode, Ready, SameTiles
<1>2. /\ Settled(units, unitCounter, occupied, knightIds) /\ calls = <<>>
      /\ u \in UnitType /\ Sound(u)
  BY <1>1, Visited
<1>3. units' = [units EXCEPT ![id] = v] /\ unitCounter' = unitCounter
  BY DEF Explode, Become
<1>4. /\ v \in UnitType /\ v.kind = u.kind /\ v.team = u.team /\ v.hp = u.hp /\ v.tiles = u.tiles
      /\ v.site = u.site /\ v.cast = u.cast /\ v.layer = u.layer /\ v.blasts = u.blasts + 1 /\ v.fuse = "lit"
  BY <1>1, <1>2 DEF UnitType
<1> HIDE DEF v
<1>5. Sound(v)
  BY <1>2, <1>4 DEF Sound, Knight
<1>6. /\ units \in [DOMAIN units -> UnitType] /\ DOMAIN units' = DOMAIN units /\ units'[id] = v
      /\ \A i \in DOMAIN units : i # id => units'[i] = units[i]
  BY <1>2, <1>3 DEF Settled, Placed
<1>7. Placed(units', unitCounter', occupied')
  BY <1>1, <1>2, <1>3, <1>4, <1>5, PlacedBecome DEF Settled
<1>8. Counted(units', knightIds')
  BY <1>1, <1>2, <1>3, <1>4, CountedBecome DEF Settled, Placed, Visit, tally
<1>9. PICK c : calls' = <<c>> /\ \E vs : c = Loop(id, vs, FALSE, "burn")
  BY DEF Explode
<1>10. /\ c.by = id /\ c.then = "burn"
       /\ c = [by |-> c.by, victims |-> c.victims, freezes |-> c.freezes, then |-> c.then]
  BY <1>9 DEF Loop
<1>11. \A i \in DOMAIN units : BlastOK(units[i], FALSE, FALSE)
  BY <1>2, BlastsAlone DEF Settled
<1>12. Kind[u.kind].blast = "fuse" /\ u.blasts = 0
  BY <1>1, <1>2, <1>11 DEF BlastOK, UnitType
<1>13. CallOK(c, units', TRUE)
  BY <1>4, <1>6, <1>10, <1>12 DEF CallOK
<1>14. /\ CallsOK(<<c>>, units')
       /\ \A i, then : Pending(<<c>>, i, then) <=> c.by = i /\ c.then = then
  BY <1>13, OneCall
<1>15. BlastsOK(<<c>>, units')
  <2>1. Pending(<<c>>, id, "burn")
    BY <1>10, <1>14
  <2>2. BlastOK(v, Pending(<<c>>, id, "burn"), Pending(<<c>>, id, "spent"))
    BY <1>4, <1>12, <2>1 DEF BlastOK
  <2>3. \A i \in DOMAIN units : i # id =>
            Pending(<<c>>, i, "burn") = FALSE /\ Pending(<<c>>, i, "spent") = FALSE
    <3>1. \A i \in DOMAIN units : i # id => ~Pending(<<c>>, i, "burn") /\ ~Pending(<<c>>, i, "spent")
      BY <1>10, <1>14
    <3> QED
      BY <3>1 DEF Pending
  <2>4. \A i \in DOMAIN units : i # id =>
            BlastOK(units'[i], Pending(<<c>>, i, "burn"), Pending(<<c>>, i, "spent"))
    BY <1>6, <1>11, <2>3, Zenon
  <2> QED
    BY <1>6, <2>2, <2>4, Zenon DEF BlastsOK
<1>16. Control'
  BY <1>1, <1>2, ControlKept DEF BattleInv, Control, Visit, tally, hands
<1>17. CallsOK(calls, units)' /\ BlastsOK(calls, units)'
  BY <1>9, <1>14, <1>15
<1> QED
  BY <1>7, <1>8, <1>16, <1>17 DEF BattleInv

\* Every part of a unit's update keeps the invariant.
LEMMA UpdateKeeps ==
    ASSUME BattleInv, NEW id \in DOMAIN units, UnitUpdate(id)
    PROVE  BattleInv'
<1> DEFINE u == units[id]
<1>1. PICK part : Visit(id, part)
  BY DEF UnitUpdate, SupportAfterDeaths, SupportAtIntervals, Decay, Thaw, CastWait, CastBuild,
         CastDeploy, CastCloud, CastArea, CastFreeze, Casting, Idle, Veil, Hit, Fire, Spawn, Light,
         Burn, Explode, Ready
<1>2. /\ calls = <<>> /\ phase = "units"
      /\ Settled(units, unitCounter, occupied, knightIds)
      /\ u \in UnitType /\ Sound(u) /\ Fine(Kind[u.kind]) /\ u.team \in Teams
  BY <1>1, Visited DEF Is
<1>3. panicked = FALSE
  BY DEF BattleInv, Control
<1>4. knightIds' = knightIds
  BY <1>1 DEF Visit, tally
<1>5. u.cast \in 0..CastDuration + 1 /\ u.freeze \in Nat
  BY <1>2, TypesOfNumbers DEF UnitType
<1> HIDE DEF u
\* Nothing about the units changes.
<1>6. CASE UNCHANGED <<fieldVars, calls>>
  <2>1. /\ units' = units /\ unitCounter' = unitCounter /\ occupied' = occupied
        /\ panicked' = panicked /\ calls' = calls
    BY <1>6 DEF fieldVars
  <2> QED
    BY <1>1, <1>2, <1>3, <2>1, UnitsSettled
\* One unit changes, or several become frozen.
<1>7. ASSUME NEW after, Replaces(after, u), Become(id, after), calls' = calls, SameTiles
      PROVE  BattleInv'
  <2>1. units' = [units EXCEPT ![id] = after] /\ unitCounter' = unitCounter
    BY <1>7 DEF Become
  <2>2. Settled(units', unitCounter', occupied, knightIds)
    BY <1>2, <1>7, <2>1, SettledBecome DEF u
  <2> QED
    BY <1>1, <1>2, <1>3, <1>7, <2>2, UnitsSettled DEF SameTiles
<1>8. ASSUME NEW after, Replaces(after, u), NEW name, Makes(name),
             AddUnit(name, u.team, {}, id, after), calls' = calls, SameTiles
      PROVE  BattleInv'
  <2>1. Settled(units', unitCounter', occupied, knightIds)
    BY <1>2, <1>8, UnitAdded DEF u
  <2> QED
    BY <1>1, <1>2, <1>3, <1>8, <2>1, UnitsSettled DEF SameTiles
\* A loop starts that is not part of an explosion.
<1>9. ASSUME UNCHANGED fieldVars, NEW c, calls' = <<c>>, CallOK(c, units, TRUE),
             c.then \notin {"burn", "spent"}
      PROVE  BattleInv'
  <2>1. UNCHANGED <<units, unitCounter, occupied, knightIds>> /\ panicked' = FALSE
    BY <1>3, <1>4, <1>9 DEF fieldVars
  <2>2. Control'
    BY <1>1, <1>2, <2>1, ControlKept DEF BattleInv, Visit, tally, hands
  <2> QED
    BY <1>2, <1>9, <2>1, <2>2, LoopStarted
<1>10. ASSUME NEW vs, UNCHANGED fieldVars, calls' = <<Loop(id, vs, FALSE, "none")>> PROVE BattleInv'
  <2>1. Loop(id, vs, FALSE, "none").then = "none"
    BY DEF Loop
  <2> QED
    BY <1>9, <1>10, <2>1, PlainLoop
<1>11. ASSUME SupportAfterDeaths(id) PROVE BattleInv'
  <2>1. /\ Is(id).support = "deaths" /\ calls' = calls /\ SameTiles
        /\ LET toll == deathToll[u.team]
           IN IF toll # u.toll /\ toll % PerDeaths = 0
              THEN AddUnit(Is(id).sends, u.team, {}, id, [u EXCEPT !.toll = toll])
              ELSE UNCHANGED <<units, unitIds, unitCounter>>
    BY <1>11, Zenon DEF SupportAfterDeaths, Quiet, u
  <2>2. deathToll[u.team] \in Nat /\ Makes(Is(id).sends)
    BY <1>2, <2>1 DEF BattleInv, Control, Fine, Is, u
  <2>3. CASE AddUnit(Is(id).sends, u.team, {}, id, [u EXCEPT !.toll = deathToll[u.team]])
    BY <1>2, <1>8, <2>1, <2>2, <2>3, OthersReplace
  <2>4. CASE UNCHANGED <<units, unitIds, unitCounter>>
    BY <1>6, <2>1, <2>4 DEF SameTiles, fieldVars
  <2> QED
    BY <2>1, <2>3, <2>4
<1>12. ASSUME SupportAtIntervals(id) PROVE BattleInv'
  <2>1. /\ Is(id).support = "period" /\ calls' = calls /\ SameTiles
        /\ \/ AddUnit(Is(id).sends, u.team, {}, id, u)
           \/ UNCHANGED <<units, unitIds, unitCounter>>
    BY <1>12 DEF SupportAtIntervals, Quiet, u
  <2>2. Makes(Is(id).sends)
    BY <1>2, <2>1 DEF Fine, Is, u
  <2>3. CASE AddUnit(Is(id).sends, u.team, {}, id, u)
    BY <1>2, <1>8, <2>1, <2>2, <2>3, OthersReplace
  <2>4. CASE UNCHANGED <<units, unitIds, unitCounter>>
    BY <1>6, <2>1, <2>4 DEF SameTiles, fieldVars
  <2> QED
    BY <2>1, <2>3, <2>4
<1>13. ASSUME Decay(id) PROVE BattleInv'
  BY <1>10, <1>13 DEF Decay
<1>14. ASSUME Thaw(id) PROVE BattleInv'
  <2>1. u.freeze > 0 /\ Become(id, [u EXCEPT !.freeze = @ - 1]) /\ calls' = calls /\ SameTiles
    BY <1>14 DEF Thaw, Frozen, Quiet, u
  <2> QED
    BY <1>2, <1>7, <2>1, OthersReplace
<1>15. ASSUME CastWait(id) PROVE BattleInv'
  <2>1. u.cast > 0 /\ Become(id, CastOn(u)) /\ calls' = calls /\ SameTiles
    BY <1>15 DEF CastWait, Casting, Quiet, u
  <2>2. Kind[u.kind].skill = "build" => u.cast # CastDelay + 1
    BY <1>15 DEF CastWait, CastActs, Is, u
  <2> QED
    BY <1>2, <1>7, <2>1, <2>2, CastOnReplaces
<1>16. ASSUME CastDeploy(id) PROVE BattleInv'
  <2>1. /\ u.cast > 0 /\ Is(id).skill = "deploy" /\ calls' = calls /\ SameTiles
        /\ AddUnit(Is(id).makes, u.team, {}, id, CastOn(u))
    BY <1>16 DEF CastDeploy, Casting, Quiet, u
  <2>2. Makes(Is(id).makes) /\ Kind[u.kind].skill # "build"
    BY <1>2, <2>1 DEF Fine, Is, u
  <2> QED
    BY <1>2, <1>8, <2>1, <2>2, CastOnReplaces
<1>17. ASSUME CastCloud(id) PROVE BattleInv'
  <2>1. u.cast > 0 /\ Is(id).skill = "cloud" /\ Become(id, CastOn(u)) /\ calls' = calls /\ SameTiles
    BY <1>17 DEF CastCloud, Casting, u
  <2>2. Kind[u.kind].skill # "build"
    BY <2>1 DEF Is, u
  <2> QED
    BY <1>2, <1>7, <2>1, <2>2, CastOnReplaces
<1>18. ASSUME CastArea(id) PROVE BattleInv'
  <2>1. PICK vs : calls' = <<Loop(id, vs, Is(id).skill = "emp", "cast")>>
    BY <1>18 DEF CastArea
  <2> DEFINE c == Loop(id, vs, Is(id).skill = "emp", "cast")
  <2>2. /\ c.by = id /\ c.then = "cast"
        /\ c = [by |-> c.by, victims |-> c.victims, freezes |-> c.freezes, then |-> c.then]
    BY DEF Loop
  <2> HIDE DEF c
  <2>3. u.cast > 0 /\ Kind[u.kind].skill # "build" /\ UNCHANGED fieldVars
    BY <1>18 DEF CastArea, Casting, Is, u
  <2>4. CallOK(c, units, TRUE)
    BY <2>2, <2>3 DEF CallOK, u
  <2>5. calls' = <<c>>
    BY <2>1 DEF c
  <2> QED
    BY <1>9, <2>2, <2>3, <2>4, <2>5
<1>19. ASSUME CastFreeze(id) PROVE BattleInv'
  <2>1. PICK vs \in SUBSET Enemies(u.team) :
            units' = [i \in DOMAIN units |->
                IF i = id THEN CastOn(units[id]) ELSE IF i \in vs THEN Freeze(units[i]) ELSE units[i]]
    BY <1>19 DEF CastFreeze, u
  <2>2. /\ u.cast > 0 /\ Kind[u.kind].skill # "build" /\ SameTiles /\ calls' = calls
        /\ unitCounter' = unitCounter
    BY <1>19 DEF CastFreeze, Casting, Quiet, Is, u
  <2>3. Replaces(CastOn(units[id]), units[id])
    BY <1>2, <2>2, CastOnReplaces DEF u
  <2>4. \A i \in DOMAIN units : units[i] \in UnitType /\ Sound(units[i])
    BY <1>2 DEF Settled, Placed
  <2>5. \A i \in DOMAIN units : Replaces(Freeze(units[i]), units[i]) /\ Replaces(units[i], units[i])
    BY <2>4, FreezeReplaces, OthersReplace
  <2>6. \A i \in DOMAIN units : Replaces(units'[i], units[i])
    BY <2>1, <2>3, <2>5
  <2>7. units' \in [DOMAIN units -> UnitType]
    BY <2>1, <2>6 DEF Replaces
  <2>8. Settled(units', unitCounter', occupied, knightIds)
    BY <1>2, <2>2, <2>6, <2>7, SettledAlike DEF Replaces
  <2> QED
    BY <1>1, <1>2, <1>3, <2>2, <2>8, UnitsSettled DEF SameTiles
<1>20. ASSUME Veil(id) PROVE BattleInv'
  <2>1. /\ u.cast <= 0 /\ calls' = calls /\ SameTiles
        /\ \E l \in {"Normal", Kind[u.kind].layer} : Become(id, [u EXCEPT !.layer = l])
    BY <1>20 DEF Veil, Ready, Quiet, Is, u
  <2> QED
    BY <1>2, <1>7, <2>1, OthersReplace
<1>21. ASSUME Hit(id) PROVE BattleInv'
  BY <1>10, <1>21 DEF Hit
<1>22. ASSUME Idle(id) \/ Fire(id) \/ Burn(id) PROVE BattleInv'
  BY <1>6, <1>22 DEF Idle, Fire, Burn
<1>23. ASSUME Spawn(id) PROVE BattleInv'
  <2>1. /\ Is(id).type = "Building" /\ Is(id).makes # "no" /\ calls' = calls /\ SameTiles
        /\ AddUnit(Is(id).makes, u.team, {}, id, u)
    BY <1>23 DEF Spawn, Quiet, u
  <2>2. Makes(Is(id).makes)
    BY <1>2, <2>1 DEF Fine, Is, u
  <2> QED
    BY <1>2, <1>8, <2>1, <2>2, OthersReplace
<1> QED
  BY <1>11, <1>12, <1>13, <1>14, <1>15, <1>16, <1>17, <1>18, <1>19, <1>20, <1>21, <1>22, <1>23,
     BuildKeeps, LightKeeps, ExplodeKeeps DEF UnitUpdate

-----------------------------------------------------------------------------
(* Cards, and the steps between the loops.                                 *)

\* While cards are played no loop runs.
LEMMA ActingFacts ==
    ASSUME BattleInv, phase = "do"
    PROVE  calls = <<>> /\ panicked = FALSE /\ Settled(units, unitCounter, occupied, knightIds)
<1>1. calls = <<>> /\ panicked = FALSE
  BY DEF BattleInv, Control
<1> QED
  BY <1>1, QuietInv

LEMMA ActedFacts ==
    ASSUME BattleInv, Acting, acted' = acted + 1, UNCHANGED <<progress, cards, deathToll, score>>,
           panicked' = FALSE
    PROVE  Control' /\ calls' = <<>>
<1>1. MaxActions \in Nat /\ acted' \in 0..MaxActions
  BY BattleAssumption DEF BattleInv, Control, Acting
<1> QED
  BY <1>1 DEF BattleInv, Control, Acting, progress

LEMMA DeployKeeps ==
    ASSUME BattleInv, NEW team \in Teams, Deploy(team)
    PROVE  BattleInv'
<1>1. /\ Acting /\ acted' = acted + 1 /\ UNCHANGED <<progress, cards, deathToll, score>>
      /\ occupied' = occupied /\ panicked' = panicked /\ knightIds' = knightIds
  BY DEF Deploy, tally
<1>2. panicked = FALSE /\ Settled(units, unitCounter, occupied, knightIds)
  BY <1>1, ActingFacts DEF Acting
<1>3. Control' /\ calls' = <<>>
  BY <1>1, <1>2, ActedFacts
<1>4. PICK name \in cards[team] : AddUnit(name, team, {}, 0, 0)
  BY DEF Deploy
<1>5. Makes(name)
  BY <1>4 DEF BattleInv, Control, Makes
<1>6. DOMAIN units \subseteq 1..unitCounter /\ unitCounter \in Nat
  BY <1>2 DEF Settled, Placed
<1>7. units' = Grown(units, unitCounter, NewUnit(name, team, {})) /\ unitCounter' = unitCounter + 1
  BY <1>4, <1>6 DEF AddUnit, Grown
<1>8. Settled(units', unitCounter', occupied', knightIds')
  BY <1>1, <1>2, <1>5, <1>7, SettledGrown
<1> QED
  BY <1>3, <1>8, QuietInvNext

\* The knight that begins to cast lives; the tiles it takes were free.
LEMMA CastSkillKeeps ==
    ASSUME BattleInv, NEW id \in DOMAIN units, CastSkill(id)
    PROVE  BattleInv'
<1> DEFINE u == units[id]
<1>1. /\ Acting /\ acted' = acted + 1 /\ UNCHANGED <<progress, cards, deathToll, score>>
      /\ panicked' = panicked /\ knightIds' = knightIds
      /\ id \in knightIds[u.team] /\ u.cast <= 0
  BY DEF CastSkill, tally
<1>2. panicked = FALSE /\ Settled(units, unitCounter, occupied, knightIds)
  BY <1>1, ActingFacts DEF Acting
<1>3. Control' /\ calls' = <<>>
  BY <1>1, <1>2, ActedFacts
<1>4. PICK site \in IF Kind[u.kind].skill = "build" THEN Sites ELSE {{}} :
          /\ ~Occupied(site) /\ occupied' = Owned(site, id)
          /\ Become(id, [u EXCEPT !.cast = @ + 1, !.layer = "Casting", !.site = site])
  BY DEF CastSkill, Is
<1> DEFINE v == [u EXCEPT !.cast = @ + 1, !.layer = "Casting", !.site = site]
<1>5. u \in UnitType /\ Sound(u) /\ u.team \in Teams /\ u.kind \in KindNames
  BY <1>2 DEF Settled, Placed, UnitType
<1>6. Knight(u) /\ u.hp > 0
  BY <1>1, <1>2, <1>5 DEF Settled, Counted
<1>7. /\ site \in SUBSET Tiles /\ (site # {} <=> Kind[u.kind].skill = "build")
      /\ \A t \in site : occupied[t] = Free
  BY <1>4, BattleAssumption DEF Occupied
<1>8. u.cast = 0 /\ u.site = {}
  BY <1>1, <1>5 DEF UnitType, Sound
<1>9. /\ v \in UnitType /\ v.kind = u.kind /\ v.team = u.team /\ v.hp = u.hp /\ v.tiles = u.tiles
      /\ v.site = site /\ v.cast = 1 /\ v.layer = "Casting" /\ v.fuse = u.fuse /\ v.blasts = u.blasts
  <2>1. 1 \in 0..CastDuration + 1 /\ u.cast + 1 = 1
    BY <1>8, TypesOfNumbers
  <2>2. v = [u EXCEPT !.cast = 1, !.layer = "Casting", !.site = site]
    BY <1>5, <2>1
  <2> HIDE DEF u, v
  <2> QED
    BY <1>5, <1>7, <2>1, <2>2 DEF UnitType
<1> HIDE DEF v
<1>10. units' = [units EXCEPT ![id] = v] /\ unitCounter' = unitCounter
  BY <1>4 DEF Become, v
<1>11. /\ units \in [DOMAIN units -> UnitType] /\ DOMAIN units' = DOMAIN units /\ units'[id] = v
       /\ \A i \in DOMAIN units : i # id => units'[i] = units[i]
  BY <1>2, <1>10 DEF Settled, Placed
<1>12. DOMAIN units \subseteq 1..unitCounter /\ unitCounter \in Nat /\ id \in Nat \ {0}
  BY <1>2 DEF Settled, Placed
<1>13. \A t \in u.tiles : t \notin site
  BY <1>2, <1>5, <1>7, <1>12 DEF Settled, Placed, UnitType, Free
<1>14. Sound(v)
  <2>1. v.tiles \cap v.site = {}
    BY <1>9, <1>13
  <2>2. 1 <= CastDelay + 1
    BY TypesOfNumbers
  <2> QED
    BY <1>5, <1>6, <1>7, <1>9, <2>1, <2>2 DEF Sound, Knight
<1>15. Placed(units', unitCounter', occupied')
  <2>1. units' \in [DOMAIN units' -> UnitType]
    BY <1>9, <1>10, <1>11
  <2>2. \A i \in DOMAIN units' : Sound(units'[i])
    BY <1>2, <1>11, <1>14 DEF Settled, Placed
  <2>3. occupied \in [Tiles -> {Obstacle, Free} \cup 1..unitCounter]
    BY <1>2 DEF Settled, Placed
  <2>4. \A t \in Tiles : occupied'[t] = IF t \in site THEN id ELSE occupied[t]
    BY <1>4 DEF Owned
  <2>5. occupied' \in [Tiles -> {Obstacle, Free} \cup 1..unitCounter]
    BY <1>4, <1>12, <2>3 DEF Owned
  <2>6. \A t \in Tiles, i \in DOMAIN units : occupied[t] = i <=> t \in units[i].tiles \cup units[i].site
    BY <1>2 DEF Settled, Placed
  <2>7. \A t \in Tiles : occupied'[t] = id <=> t \in units'[id].tiles \cup units'[id].site
    BY <1>7, <1>8, <1>9, <1>11, <2>4, <2>6
  <2>8. \A t \in Tiles, i \in DOMAIN units : i # id =>
            (occupied'[t] = i <=> t \in units'[i].tiles \cup units'[i].site)
    BY <1>7, <1>11, <1>12, <2>4, <2>6 DEF Free
  <2>9. \A t \in Tiles, i \in DOMAIN units' : occupied'[t] = i <=> t \in units'[i].tiles \cup units'[i].site
    BY <1>11, <2>7, <2>8
  <2>10. \A t \in Tiles : occupied'[t] \in {Free, Obstacle} \cup DOMAIN units'
    BY <1>2, <1>11, <2>4 DEF Settled, Placed
  <2> QED
    BY <1>10, <1>11, <1>12, <2>1, <2>2, <2>5, <2>9, <2>10 DEF Placed
<1>16. Counted(units', knightIds')
  BY <1>1, <1>2, <1>9, <1>10, CountedBecome DEF Settled
<1>17. BlastsOK(<<>>, units')
  <2>1. BlastOK(v, FALSE, FALSE)
    BY <1>2, <1>9, BlastsAlone DEF Settled, BlastOK
  <2> QED
    BY <1>2, <1>11, <2>1, BlastsAlone DEF Settled
<1> QED
  BY <1>3, <1>15, <1>16, <1>17, QuietInvNext DEF Settled

\* The loops of game.Update begin with no loop over victims, and change no unit.
LEMMA LoopsKeep ==
    ASSUME BattleInv, StartUpdates \/ NextLoop
    PROVE  BattleInv'
<1>1. UNCHANGED <<units, unitCounter, occupied, knightIds, calls>> /\ phase' \in {"units", "bullets", "skills"}
  BY DEF StartUpdates, NextLoop, fieldVars, tally
<1>2. phase # "over"
  BY DEF StartUpdates, NextLoop
<1>3. Control'
  BY <1>1, <1>2 DEF BattleInv, Control, StartUpdates, NextLoop, fieldVars, tally, hands
<1> QED
  BY <1>1, <1>3 DEF BattleInv

\* A bullet or a cloud starts at most one loop.
LEMMA ShotsKeep ==
    ASSUME BattleInv, BulletUpdate \/ CloudUpdate
    PROVE  BattleInv'
<1>1. /\ calls = <<>> /\ phase \in {"bullets", "skills"}
      /\ UNCHANGED <<step, phase, units, unitCounter, occupied, panicked, deathToll, knightIds, score, cards, acted>>
  BY DEF BulletUpdate, CloudUpdate, fieldVars, tally, hands
<1>2. Control' /\ Settled(units, unitCounter, occupied, knightIds)
  BY <1>1, ControlKept, QuietInv DEF BattleInv, Control
<1>3. calls' = <<>> \/ \E vs : calls' = <<Loop(0, vs, FALSE, "none")>>
  BY <1>1 DEF BulletUpdate, CloudUpdate
<1>4. CASE calls' = <<>>
  BY <1>1, <1>2, <1>4, QuietInvNext
<1>5. ASSUME NEW vs, calls' = <<Loop(0, vs, FALSE, "none")>> PROVE BattleInv'
  <2>1. Loop(0, vs, FALSE, "none").then = "none"
    BY DEF Loop
  <2> QED
    BY <1>1, <1>2, <1>5, <2>1, PlainLoop, LoopStarted
<1> QED
  BY <1>3, <1>4, <1>5

-----------------------------------------------------------------------------
(* Damage, and the stack of loops.                                         *)

\* A sequence with something before it, or without its first element.
LEMMA Pushed ==
    ASSUME NEW S, NEW s \in Seq(S), NEW a
    PROVE  LET r == <<a>> \o s
           IN /\ r \in Seq(S \cup {a}) /\ Len(r) = Len(s) + 1 /\ r[1] = a
              /\ \A k \in 1..Len(s) : r[k + 1] = s[k]
OBVIOUS

LEMMA Popped ==
    ASSUME NEW S, NEW s \in Seq(S), s # <<>>
    PROVE  /\ Tail(s) \in Seq(S) /\ Len(Tail(s)) = Len(s) - 1 /\ Head(s) = s[1]
           /\ Len(s) \in Nat \ {0}
           /\ \A k \in 1..(Len(s) - 1) : Tail(s)[k] = s[k + 1]
OBVIOUS

\* Two stacks that differ in the victims still to come.
SameCalls(cs, ds) ==
    /\ \E S : ds \in Seq(S)
    /\ Len(ds) = Len(cs)
    /\ \A k \in 1..Len(cs) :
           /\ ds[k].by = cs[k].by /\ ds[k].then = cs[k].then
           /\ ds[k] = [by |-> ds[k].by, victims |-> ds[k].victims, freezes |-> ds[k].freezes, then |-> ds[k].then]

LEMMA SamePending ==
    ASSUME NEW cs, NEW ds, SameCalls(cs, ds), NEW i, NEW then
    PROVE  Pending(ds, i, then) <=> Pending(cs, i, then)
BY DEF SameCalls, Pending

\* The units may change as TakeDamage changes them.
LEMMA SameCallsOK ==
    ASSUME NEW cs, NEW ds, NEW us, NEW vs, CallsOK(cs, us), SameCalls(cs, ds), DOMAIN vs = DOMAIN us,
           \A i \in DOMAIN us :
               /\ vs[i].kind = us[i].kind /\ vs[i].cast = us[i].cast
               /\ us[i].hp = 0 => vs[i].hp = 0
    PROVE  CallsOK(ds, vs)
<1>1. ASSUME NEW k \in 1..Len(ds) PROVE CallOK(ds[k], vs, k = Len(ds))
  <2>1. k \in 1..Len(cs) /\ Len(ds) = Len(cs)
    BY DEF SameCalls
  <2>2. CallOK(cs[k], us, k = Len(cs))
    BY <2>1 DEF CallsOK
  <2> QED
    BY <2>1, <2>2 DEF SameCalls, CallOK
<1> QED
  BY <1>1 DEF CallsOK, SameCalls

\* The loop goes on to its next victim.
LEMMA NextVictim ==
    ASSUME NEW cs, NEW us, CallsOK(cs, us), cs # <<>>
    PROVE  SameCalls(cs, <<[Head(cs) EXCEPT !.victims = Tail(@)]>> \o Tail(cs))
<1>1. PICK S : cs \in Seq(S)
  BY DEF CallsOK
<1> DEFINE l == [Head(cs) EXCEPT !.victims = Tail(@)]
           ds == <<l>> \o Tail(cs)
<1>2. /\ Tail(cs) \in Seq(S) /\ Len(Tail(cs)) = Len(cs) - 1 /\ Head(cs) = cs[1]
      /\ Len(cs) \in Nat \ {0}
      /\ \A k \in 1..(Len(cs) - 1) : Tail(cs)[k] = cs[k + 1]
  BY <1>1, Popped
<1>3. \A k \in 1..Len(cs) : cs[k] = [by |-> cs[k].by, victims |-> cs[k].victims,
                                     freezes |-> cs[k].freezes, then |-> cs[k].then]
  BY DEF CallsOK, CallOK
<1>4. /\ l.by = cs[1].by /\ l.then = cs[1].then
      /\ l = [by |-> l.by, victims |-> l.victims, freezes |-> l.freezes, then |-> l.then]
  <2>1. 1 \in 1..Len(cs)
    BY <1>2
  <2>2. Head(cs) = [by |-> cs[1].by, victims |-> cs[1].victims,
                    freezes |-> cs[1].freezes, then |-> cs[1].then]
    BY <1>2, <1>3, <2>1
  <2> DEFINE c == [by |-> cs[1].by, victims |-> cs[1].victims,
                   freezes |-> cs[1].freezes, then |-> cs[1].then]
             t == Tail(Head(cs).victims)
  <2>3. l = [c EXCEPT !.victims = t]
    BY <2>2
  <2> HIDE DEF l, t
  <2>4. l = [by |-> cs[1].by, victims |-> t, freezes |-> cs[1].freezes, then |-> cs[1].then]
    BY <2>3
  <2> QED
    BY <2>4
<1> HIDE DEF l
<1>5. /\ ds \in Seq(S \cup {l}) /\ Len(ds) = Len(cs) /\ ds[1] = l
      /\ \A k \in 1..(Len(cs) - 1) : ds[k + 1] = cs[k + 1]
  BY <1>2, Pushed
<1> HIDE DEF ds
<1>6. ASSUME NEW k \in 1..Len(cs) PROVE k = 1 \/ (k - 1 \in 1..(Len(cs) - 1) /\ ds[k] = cs[k])
  <2>1. CASE k # 1
    <3>1. k - 1 \in 1..(Len(cs) - 1) /\ (k - 1) + 1 = k
      BY <1>2, <2>1
    <3> QED
      BY <1>5, <3>1
  <2> QED
    BY <2>1
<1>7. SameCalls(cs, ds)
  BY <1>3, <1>4, <1>5, <1>6 DEF SameCalls
<1> QED
  BY <1>7 DEF ds, l

\* A unit after a hit that leaves "hp".
After(u, hp, freezes) == IF freezes THEN Freeze([u EXCEPT !.hp = hp]) ELSE [u EXCEPT !.hp = hp]

\* A hit never reaches a knight that casts.
LEMMA HitFacts ==
    ASSUME NEW u \in UnitType, Sound(u), NEW hp \in HpAfterHit(u), NEW freezes
    PROVE  LET a == After(u, hp, freezes)
           IN /\ a \in UnitType /\ Sound(a) /\ a.hp = hp /\ a.kind = u.kind /\ a.team = u.team
              /\ a.tiles = u.tiles /\ a.site = u.site /\ a.cast = u.cast /\ a.fuse = u.fuse
              /\ a.blasts = u.blasts
              /\ hp \in Nat /\ hp <= u.hp
<1>1. u.hp \in Nat /\ u.kind \in KindNames /\ u.cast \in Nat
  BY TypesOfNumbers DEF UnitType
<1>2. hp \in Nat /\ hp <= u.hp
  BY <1>1 DEF HpAfterHit
<1>3. u.cast > 0 => hp = u.hp
  <2>1. Fine(Kind[u.kind])
    BY <1>1, KindFacts
  <2>2. ASSUME u.cast > 0 PROVE ~Exposed(u)
    BY <2>1, <2>2 DEF Sound, Fine, Exposed, Knight
  <2> QED
    BY <2>2 DEF HpAfterHit
<1> DEFINE h == [u EXCEPT !.hp = hp]
           a == After(u, hp, freezes)
<1>4. /\ h \in UnitType /\ h.hp = hp /\ h.kind = u.kind /\ h.team = u.team /\ h.tiles = u.tiles
      /\ h.site = u.site /\ h.cast = u.cast /\ h.fuse = u.fuse /\ h.blasts = u.blasts
      /\ h.layer = u.layer
  BY <1>2 DEF UnitType
<1>5. a = IF freezes THEN Freeze(h) ELSE h
  BY DEF After
<1> HIDE DEF h, a
<1>6. u.hp <= Health[u.kind] /\ Health[u.kind] \in Nat
  BY <1>1, TypesOfNumbers DEF Sound
<1>7. Sound(h)
  BY <1>1, <1>2, <1>3, <1>4, <1>6 DEF Sound, Knight
<1>8. Replaces(Freeze(h), h) /\ Freeze(h).cast = h.cast
  BY <1>4, <1>7, FreezeReplaces
<1>9. a \in UnitType /\ Sound(a) /\ Alike(h, a) /\ a.cast = h.cast
  BY <1>4, <1>5, <1>7, <1>8 DEF Replaces, Alike
<1> QED
  BY <1>2, <1>4, <1>9 DEF Alike, a

\* The explosions of one unit, before and after a hit: "more" if the hit makes it explode.
LEMMA BlastAfterHit ==
    ASSUME NEW u \in UnitType, NEW hp \in HpAfterHit(u), NEW v,
           v.kind = u.kind, v.hp = hp, v.fuse = u.fuse,
           NEW burning \in BOOLEAN, NEW spent \in BOOLEAN, BlastOK(u, burning, spent)
    PROVE  /\ ~(Dies(u, hp) /\ Explosive(u)) /\ v.blasts = u.blasts => BlastOK(v, burning, spent)
           /\ Dies(u, hp) /\ Explosive(u) /\ v.blasts = u.blasts + 1
                => BlastOK(v, burning, u.fuse = "lit")
<1>1. u.hp \in Nat /\ u.blasts \in Nat /\ u.fuse \in {"off", "lit", "burnt"}
  BY DEF UnitType
<1>2. hp \in Nat /\ hp <= u.hp
  BY <1>1 DEF HpAfterHit
<1>3. ASSUME ~(Dies(u, hp) /\ Explosive(u)), v.blasts = u.blasts PROVE BlastOK(v, burning, spent)
  BY <1>1, <1>2, <1>3 DEF BlastOK, Dies, Explosive
<1>4. ASSUME Dies(u, hp), Explosive(u), v.blasts = u.blasts + 1 PROVE BlastOK(v, burning, u.fuse = "lit")
  BY <1>1, <1>2, <1>4 DEF BlastOK, Dies, Explosive
<1> QED
  BY <1>3, <1>4

LEMMA TakeDamageKeeps ==
    ASSUME BattleInv, NEW id \in DOMAIN units, TakeDamage(id)
    PROVE  BattleInv'
<1> DEFINE u == units[id]
           loop == Head(calls)
           rest == <<[loop EXCEPT !.victims = Tail(@)]>> \o Tail(calls)
           explodes(hp) == Dies(u, hp) /\ Explosive(u)
           after(hp) == After(u, hp, loop.freezes)
           then == IF u.fuse = "lit" THEN "spent" ELSE "none"
<1>1. /\ Placed(units, unitCounter, occupied) /\ Counted(units, knightIds) /\ Control
      /\ CallsOK(calls, units) /\ BlastsOK(calls, units)
  BY DEF BattleInv
<1>2. /\ units \in [DOMAIN units -> UnitType] /\ u \in UnitType /\ Sound(u)
      /\ u.kind \in KindNames /\ u.team \in Teams /\ u.hp \in Nat
  BY <1>1 DEF Placed, UnitType
<1>3. calls # <<>> /\ UNCHANGED <<step, phase, deathToll, cards, acted, occupied, panicked>>
  BY DEF TakeDamage, hands, SameTiles
<1>4. PICK hp \in HpAfterHit(u) :
          /\ IF explodes(hp)
             THEN /\ \E vs \in SUBSET Enemies(u.team) : calls' = <<Loop(id, vs, FALSE, then)>> \o rest
                  /\ Become(id, [after(hp) EXCEPT !.blasts = @ + 1])
             ELSE calls' = rest /\ Become(id, after(hp))
          /\ IF hp = 0 /\ id \in knightIds[u.team]
             THEN OnKnightDead(id) ELSE UNCHANGED <<knightIds, score>>
  BY DEF TakeDamage, After
<1> DEFINE a == after(hp)
           v == IF explodes(hp) THEN [a EXCEPT !.blasts = @ + 1] ELSE a
<1>5. /\ a \in UnitType /\ Sound(a) /\ a.hp = hp /\ a.kind = u.kind /\ a.team = u.team
      /\ a.tiles = u.tiles /\ a.site = u.site /\ a.cast = u.cast /\ a.fuse = u.fuse
      /\ a.blasts = u.blasts
      /\ hp \in Nat /\ hp <= u.hp
  BY <1>2, HitFacts
<1>6. units' = [units EXCEPT ![id] = v] /\ unitCounter' = unitCounter
  BY <1>4 DEF Become
<1>7. (explodes(hp) => \E vs : calls' = <<Loop(id, vs, FALSE, then)>> \o rest) /\ (~explodes(hp) => calls' = rest)
  BY <1>4
<1> HIDE DEF a
<1>8. /\ v \in UnitType /\ v.hp = hp /\ v.kind = u.kind /\ v.team = u.team /\ v.layer = a.layer
      /\ v.tiles = u.tiles /\ v.site = u.site /\ v.cast = u.cast /\ v.fuse = u.fuse
      /\ v.blasts = IF explodes(hp) THEN u.blasts + 1 ELSE u.blasts
  BY <1>5 DEF UnitType
<1> HIDE DEF v, explodes, after, rest
<1>9. Sound(v)
  BY <1>5, <1>8 DEF Sound, Knight
<1>10. /\ DOMAIN units' = DOMAIN units /\ units'[id] = v
       /\ \A i \in DOMAIN units : i # id => units'[i] = units[i]
  BY <1>2, <1>6
<1>11. Placed(units', unitCounter', occupied')
  BY <1>1, <1>3, <1>6, <1>8, <1>9, PlacedBecome
<1>12. Counted(units', knightIds') /\ score' \in [Teams -> Int]
  <2> DEFINE live(us, p) == {i \in DOMAIN us : us[i].team = p /\ Knight(us[i]) /\ us[i].hp > 0}
  <2>1. \A p \in Teams : knightIds[p] = live(units, p)
    BY <1>1 DEF Counted
  <2>2. CASE hp = 0 /\ id \in knightIds[u.team]
    <3>1. /\ knightIds' = [knightIds EXCEPT ![u.team] = @ \ {id}]
          /\ score' = [score EXCEPT ![u.team] = @ - IF u.leader THEN leaderScore ELSE wingScore]
      BY <1>4, <2>2 DEF OnKnightDead
    <3>2. live(units', u.team) = live(units, u.team) \ {id}
      BY <1>8, <1>10, <2>2 DEF Knight
    <3>3. \A p \in Teams : p # u.team => live(units', p) = live(units, p)
      BY <1>8, <1>10 DEF Knight
    <3>4. knightIds' \in [Teams -> SUBSET Nat]
      BY <1>1, <1>2, <3>1 DEF Counted
    <3>5. \A p \in Teams : knightIds'[p] = live(units', p)
      BY <1>1, <1>2, <2>1, <3>1, <3>2, <3>3 DEF Counted
    <3>6. score' \in [Teams -> Int]
      BY <1>1, <1>2, <3>1 DEF Control, leaderScore, wingScore
    <3> QED
      BY <3>4, <3>5, <3>6 DEF Counted
  <2>3. CASE ~(hp = 0 /\ id \in knightIds[u.team])
    <3>1. knightIds' = knightIds /\ score' = score
      BY <1>4, <2>3
    <3>2. Knight(u) => (u.hp > 0 <=> hp > 0)
      BY <1>2, <1>5, <2>1, <2>3
    <3>3. \A p \in Teams : live(units', p) = live(units, p)
      BY <1>8, <1>10, <3>2 DEF Knight
    <3> QED
      BY <1>1, <2>1, <3>1, <3>3 DEF Counted, Control
  <2> QED
    BY <2>2, <2>3
<1>13. Control'
  BY <1>1, <1>3, <1>12 DEF Control
<1>14. SameCalls(calls, rest)
  BY <1>1, <1>3, NextVictim DEF rest
<1>15. CallsOK(rest, units')
  <2>1. \A i \in DOMAIN units :
            /\ units'[i].kind = units[i].kind /\ units'[i].cast = units[i].cast
            /\ units[i].hp = 0 => units'[i].hp = 0
    BY <1>2, <1>5, <1>8, <1>10
  <2> QED
    BY <1>1, <1>10, <1>14, <2>1, SameCallsOK
<1>16. ASSUME NEW i \in DOMAIN units
       PROVE  BlastOK(units[i], Pending(rest, i, "burn"), Pending(rest, i, "spent"))
  <2>1. Pending(rest, i, "burn") = Pending(calls, i, "burn") /\ Pending(rest, i, "spent") = Pending(calls, i, "spent")
    <3>1. /\ Pending(rest, i, "burn") <=> Pending(calls, i, "burn")
          /\ Pending(rest, i, "spent") <=> Pending(calls, i, "spent")
      BY <1>14, SamePending
    <3> QED
      BY <3>1 DEF Pending
  <2> QED
    BY <1>1, <2>1, Zenon DEF BlastsOK
<1>17. Pending(rest, id, "burn") \in BOOLEAN /\ Pending(rest, id, "spent") \in BOOLEAN
  BY DEF Pending
<1>18. CASE ~explodes(hp)
  <2>1. calls' = rest
    BY <1>7, <1>18
  <2>2. BlastOK(v, Pending(rest, id, "burn"), Pending(rest, id, "spent"))
    BY <1>2, <1>4, <1>8, <1>16, <1>17, <1>18, BlastAfterHit DEF explodes
  <2>3. BlastsOK(rest, units')
    BY <1>10, <1>16, <2>2, Zenon DEF BlastsOK
  <2>4. CallsOK(calls, units)' /\ BlastsOK(calls, units)'
    BY <1>15, <2>1, <2>3
  <2> QED
    BY <1>11, <1>12, <1>13, <2>4 DEF BattleInv
<1>19. CASE explodes(hp)
  <2>1. PICK vs : calls' = <<Loop(id, vs, FALSE, then)>> \o rest
    BY <1>7, <1>19
  <2> DEFINE c == Loop(id, vs, FALSE, then)
             ds == <<c>> \o rest
  <2>2. /\ c.by = id /\ c.then = then
        /\ c = [by |-> c.by, victims |-> c.victims, freezes |-> c.freezes, then |-> c.then]
    BY DEF Loop
  <2> HIDE DEF c
  <2>3. PICK S : rest \in Seq(S)
    BY <1>15 DEF CallsOK
  <2>4. /\ ds \in Seq(S \cup {c}) /\ Len(ds) = Len(rest) + 1 /\ ds[1] = c
        /\ \A k \in 1..Len(rest) : ds[k + 1] = rest[k]
    BY <2>3, Pushed
  <2> HIDE DEF ds
  <2>5. Len(rest) \in Nat /\ Len(rest) # 0
    BY <1>1, <1>3, <1>14, <2>3 DEF SameCalls, CallsOK
  <2>6. u.hp > 0 /\ hp = 0 /\ (Kind[u.kind].blast = "death" \/ u.fuse = "lit")
    BY <1>19 DEF explodes, Dies, Explosive
  <2>7. u.fuse = "lit" => Kind[u.kind].blast = "fuse"
    BY <1>16 DEF BlastOK
  <2>8. CallOK(c, units', FALSE)
    BY <1>8, <1>10, <2>2, <2>6, <2>7 DEF CallOK
  <2>9. CallsOK(ds, units')
    <3>1. ASSUME NEW k \in 1..Len(ds) PROVE CallOK(ds[k], units', k = Len(ds))
      <4>1. CASE k = 1
        BY <2>4, <2>5, <2>8, <4>1 DEF CallOK
      <4>2. CASE k # 1
        <5>1. k - 1 \in 1..Len(rest) /\ (k - 1) + 1 = k /\ (k - 1 = Len(rest) <=> k = Len(ds))
          BY <2>4, <2>5, <4>2
        <5>2. ds[k] = rest[k - 1]
          BY <2>4, <5>1
        <5>3. CallOK(rest[k - 1], units', k - 1 = Len(rest))
          BY <1>15, <5>1 DEF CallsOK
        <5> QED
          BY <5>1, <5>2, <5>3 DEF CallOK
      <4> QED
        BY <4>1, <4>2
    <3> QED
      BY <2>4, <3>1 DEF CallsOK
  <2>10. \A i, t : Pending(ds, i, t) <=> Pending(rest, i, t) \/ (i = id /\ t = then)
    <3>1. ASSUME NEW i, NEW t, Pending(ds, i, t) PROVE Pending(rest, i, t) \/ (i = id /\ t = then)
      <4>1. PICK k \in 1..Len(ds) : ds[k].by = i /\ ds[k].then = t
        BY <3>1 DEF Pending
      <4>2. CASE k = 1
        BY <2>2, <2>4, <4>1, <4>2
      <4>3. CASE k # 1
        <5>1. k - 1 \in 1..Len(rest) /\ (k - 1) + 1 = k
          BY <2>4, <2>5, <4>3
        <5> QED
          BY <2>4, <4>1, <5>1 DEF Pending
      <4> QED
        BY <4>2, <4>3
    <3>2. ASSUME NEW i, NEW t, Pending(rest, i, t) PROVE Pending(ds, i, t)
      <4>1. PICK k \in 1..Len(rest) : rest[k].by = i /\ rest[k].then = t
        BY <3>2 DEF Pending
      <4>2. k + 1 \in 1..Len(ds) /\ ds[k + 1] = rest[k]
        BY <2>4, <2>5
      <4> QED
        BY <4>1, <4>2 DEF Pending
    <3>3. Pending(ds, id, then)
      <4>1. 1 \in 1..Len(ds)
        BY <2>4, <2>5
      <4> QED
        BY <2>2, <2>4, <4>1 DEF Pending
    <3> QED
      BY <3>1, <3>2, <3>3
  <2>11. \A i \in DOMAIN units : i # id =>
             BlastOK(units'[i], Pending(ds, i, "burn"), Pending(ds, i, "spent"))
    <3>1. \A i \in DOMAIN units : i # id =>
              /\ Pending(ds, i, "burn") <=> Pending(rest, i, "burn")
              /\ Pending(ds, i, "spent") <=> Pending(rest, i, "spent")
      BY <2>10
    <3>2. \A i \in DOMAIN units : i # id =>
              Pending(ds, i, "burn") = Pending(rest, i, "burn") /\ Pending(ds, i, "spent") = Pending(rest, i, "spent")
      BY <3>1 DEF Pending
    <3> QED
      BY <1>10, <1>16, <3>2, Zenon
  <2>12. BlastOK(v, Pending(ds, id, "burn"), Pending(ds, id, "spent"))
    <3>1. Pending(ds, id, "burn") <=> Pending(rest, id, "burn")
      BY <2>10
    <3>2. Pending(ds, id, "burn") = Pending(rest, id, "burn")
      BY <3>1 DEF Pending
    <3>3. BlastOK(v, Pending(rest, id, "burn"), u.fuse = "lit")
      BY <1>2, <1>4, <1>8, <1>16, <1>17, <1>19, BlastAfterHit DEF explodes
    <3>4. CASE u.fuse = "lit"
      <4>1. Pending(ds, id, "spent")
        BY <2>10, <3>4
      <4>2. Pending(ds, id, "spent") = (u.fuse = "lit")
        BY <3>4, <4>1 DEF Pending
      <4> QED
        BY <3>2, <3>3, <4>2, Zenon
    <3>5. CASE u.fuse # "lit"
      <4>1. BlastOK(v, Pending(ds, id, "burn"), u.fuse = "lit")
        BY <3>2, <3>3, Zenon
      <4> HIDE DEF u
      <4> QED
        BY <1>8, <3>5, <4>1 DEF BlastOK
    <3> QED
      BY <3>4, <3>5
  <2>13. BlastsOK(ds, units')
    BY <1>10, <2>11, <2>12, Zenon DEF BlastsOK
  <2>14. CallsOK(calls, units)' /\ BlastsOK(calls, units)'
    BY <2>1, <2>9, <2>13 DEF ds, c
  <2> QED
    BY <1>11, <1>12, <1>13, <2>14 DEF BattleInv
<1> QED
  BY <1>18, <1>19

\* The loop that ends leaves the stack.
LEMMA Returned ==
    ASSUME NEW cs, NEW us, CallsOK(cs, us), cs # <<>>
    PROVE  /\ CallsOK(Tail(cs), us) /\ SameCalls(Tail(cs), Tail(cs))
           /\ CallOK(Head(cs), us, FALSE) \/ (CallOK(Head(cs), us, TRUE) /\ Tail(cs) = <<>>)
           /\ \A i, t : Pending(cs, i, t) <=> Pending(Tail(cs), i, t) \/ (Head(cs).by = i /\ Head(cs).then = t)
<1>1. PICK S : cs \in Seq(S)
  BY DEF CallsOK
<1> DEFINE ds == Tail(cs)
           c == Head(cs)
<1>2. /\ ds \in Seq(S) /\ Len(ds) = Len(cs) - 1 /\ c = cs[1] /\ Len(cs) \in Nat \ {0}
      /\ \A k \in 1..(Len(cs) - 1) : ds[k] = cs[k + 1]
  BY <1>1, Popped
<1> HIDE DEF ds, c
<1>3. CallsOK(ds, us)
  <2>1. ASSUME NEW k \in 1..Len(ds) PROVE CallOK(ds[k], us, k = Len(ds))
    <3>1. k + 1 \in 1..Len(cs) /\ ds[k] = cs[k + 1] /\ (k = Len(ds) <=> k + 1 = Len(cs))
      BY <1>2
    <3>2. CallOK(cs[k + 1], us, k + 1 = Len(cs))
      BY <3>1 DEF CallsOK
    <3> QED
      BY <3>1, <3>2 DEF CallOK
  <2> QED
    BY <1>2, <2>1 DEF CallsOK
<1>4. SameCalls(ds, ds)
  BY <1>2, <1>3 DEF CallsOK, CallOK, SameCalls
<1>5. CallOK(c, us, FALSE) \/ (CallOK(c, us, TRUE) /\ ds = <<>>)
  <2>1. 1 \in 1..Len(cs) /\ CallOK(c, us, 1 = Len(cs))
    BY <1>2 DEF CallsOK
  <2>2. CASE 1 = Len(cs)
    BY <1>2, <2>1, <2>2 DEF CallOK
  <2>3. CASE 1 # Len(cs)
    BY <2>1, <2>3 DEF CallOK
  <2> QED
    BY <2>2, <2>3
<1>6. ASSUME NEW i, NEW t
      PROVE  Pending(cs, i, t) <=> Pending(ds, i, t) \/ (c.by = i /\ c.then = t)
  <2>1. ASSUME Pending(cs, i, t) PROVE Pending(ds, i, t) \/ (c.by = i /\ c.then = t)
    <3>1. PICK k \in 1..Len(cs) : cs[k].by = i /\ cs[k].then = t
      BY <2>1 DEF Pending
    <3>2. CASE k = 1
      BY <1>2, <3>1, <3>2
    <3>3. CASE k # 1
      <4>1. k - 1 \in 1..Len(ds) /\ k - 1 \in 1..(Len(cs) - 1) /\ (k - 1) + 1 = k
        BY <1>2, <3>3
      <4>2. ds[k - 1] = cs[k]
        BY <1>2, <4>1
      <4> QED
        BY <3>1, <4>1, <4>2 DEF Pending
    <3> QED
      BY <3>2, <3>3
  <2>2. ASSUME Pending(ds, i, t) PROVE Pending(cs, i, t)
    <3>1. PICK k \in 1..Len(ds) : ds[k].by = i /\ ds[k].then = t
      BY <2>2 DEF Pending
    <3>2. k + 1 \in 1..Len(cs) /\ ds[k] = cs[k + 1]
      BY <1>2
    <3> QED
      BY <3>1, <3>2 DEF Pending
  <2>3. ASSUME c.by = i, c.then = t PROVE Pending(cs, i, t)
    <3>1. 1 \in 1..Len(cs)
      BY <1>2
    <3> QED
      BY <1>2, <2>3, <3>1 DEF Pending
  <2> QED
    BY <2>1, <2>2, <2>3
<1> QED
  BY <1>3, <1>4, <1>5, <1>6 DEF ds, c

\* A loop that ends burns its missile out, or lets its knight go on.
LEMMA ReturnKeeps ==
    ASSUME BattleInv, Return
    PROVE  BattleInv'
<1> DEFINE c == Head(calls)
           ds == Tail(calls)
           id == c.by
           u == units[id]
<1>1. /\ Placed(units, unitCounter, occupied) /\ Counted(units, knightIds) /\ Control
      /\ CallsOK(calls, units) /\ BlastsOK(calls, units)
  BY DEF BattleInv
<1>2. /\ calls # <<>> /\ calls' = ds
      /\ UNCHANGED <<step, phase, deathToll, score, knightIds, cards, acted, occupied, panicked>>
  BY DEF Return, hands, tally, SameTiles
<1>3. /\ c.then = "burn" => Become(id, [u EXCEPT !.hp = 0, !.fuse = "burnt"])
      /\ c.then = "spent" => Become(id, [u EXCEPT !.fuse = "burnt"])
      /\ c.then = "cast" => Become(id, CastOn(u))
      /\ c.then = "none" => UNCHANGED <<units, unitIds, unitCounter>>
  BY DEF Return
<1>4. /\ CallsOK(ds, units) /\ SameCalls(ds, ds)
      /\ CallOK(c, units, FALSE) \/ (CallOK(c, units, TRUE) /\ ds = <<>>)
      /\ \A i, t : Pending(calls, i, t) <=> Pending(ds, i, t) \/ (id = i /\ c.then = t)
  BY <1>1, <1>2, Returned
<1>5. Control'
  BY <1>1, <1>2 DEF Control
<1>6. units \in [DOMAIN units -> UnitType] /\ \A i \in DOMAIN units : Sound(units[i])
  BY <1>1 DEF Placed
<1> HIDE DEF c, ds
\* Whoever did not start this loop may have exploded as often as before.
<1>7. ASSUME NEW i \in DOMAIN units, c.then \in {"burn", "spent"} => id # i
      PROVE  BlastOK(units[i], Pending(ds, i, "burn"), Pending(ds, i, "spent"))
  <2>1. /\ Pending(calls, i, "burn") <=> Pending(ds, i, "burn")
        /\ Pending(calls, i, "spent") <=> Pending(ds, i, "spent")
    BY <1>4, <1>7
  <2>2. /\ Pending(calls, i, "burn") = Pending(ds, i, "burn")
        /\ Pending(calls, i, "spent") = Pending(ds, i, "spent")
    BY <2>1 DEF Pending
  <2> QED
    BY <1>1, <2>2, Zenon DEF BlastsOK
<1>8. CASE c.then = "none"
  <2>1. units' = units /\ unitCounter' = unitCounter
    BY <1>3, <1>8
  <2>2. BlastsOK(ds, units)
    <3>1. \A i \in DOMAIN units : BlastOK(units[i], Pending(ds, i, "burn"), Pending(ds, i, "spent"))
      BY <1>7, <1>8
    <3> QED
      BY <3>1, Zenon DEF BlastsOK
  <2> QED
    BY <1>1, <1>2, <1>4, <1>5, <2>1, <2>2 DEF BattleInv
<1>9. CASE c.then = "cast"
  <2>1. ds = <<>> /\ id \in DOMAIN units /\ u.cast > 0 /\ Kind[u.kind].skill # "build"
    BY <1>4, <1>9 DEF CallOK
  <2>2. BlastsOK(<<>>, units)
    <3>1. \A i \in DOMAIN units : BlastOK(units[i], Pending(ds, i, "burn"), Pending(ds, i, "spent"))
      BY <1>7, <1>9
    <3> QED
      BY <2>1, <3>1, Zenon DEF BlastsOK
  <2>3. Settled(units, unitCounter, occupied, knightIds)
    BY <1>1, <2>2 DEF Settled
  <2>4. Replaces(CastOn(u), u)
    BY <1>6, <2>1, CastOnReplaces
  <2>5. units' = [units EXCEPT ![id] = CastOn(u)] /\ unitCounter' = unitCounter
    BY <1>3, <1>9 DEF Become
  <2>6. Settled(units', unitCounter', occupied', knightIds')
    BY <1>2, <2>1, <2>3, <2>4, <2>5, SettledBecome
  <2> QED
    BY <1>2, <1>5, <2>1, <2>6, QuietInvNext
<1>10. CASE c.then \in {"burn", "spent"}
  <2> DEFINE v == IF c.then = "burn" THEN [u EXCEPT !.hp = 0, !.fuse = "burnt"] ELSE [u EXCEPT !.fuse = "burnt"]
  <2>1. /\ id \in DOMAIN units /\ Kind[u.kind].blast = "fuse"
        /\ c.then = "spent" => u.hp = 0
    BY <1>4, <1>10 DEF CallOK
  <2>2. u \in UnitType /\ Sound(u) /\ u.kind \in KindNames
    BY <1>6, <2>1 DEF UnitType
  <2>3. ~Knight(u)
    BY <2>1, <2>2, KindFacts DEF Fine, Knight
  <2>4. /\ v \in UnitType /\ v.kind = u.kind /\ v.team = u.team /\ v.hp = 0 /\ v.tiles = u.tiles
        /\ v.site = u.site /\ v.cast = u.cast /\ v.layer = u.layer /\ v.blasts = u.blasts /\ v.fuse = "burnt"
    BY <1>10, <2>1, <2>2 DEF UnitType
  <2>5. units' = [units EXCEPT ![id] = v] /\ unitCounter' = unitCounter
    BY <1>3, <1>10 DEF Become
  <2> HIDE DEF v
  <2>6. Sound(v)
    <3>1. Health[u.kind] \in Nat
      BY <2>2, TypesOfNumbers
    <3>2. u.cast \in Nat
      BY <2>2, TypesOfNumbers DEF UnitType
    <3> HIDE DEF u
    <3> QED
      BY <2>2, <2>3, <2>4, <3>1, <3>2 DEF Sound, Knight
  <2>7. /\ DOMAIN units' = DOMAIN units /\ units'[id] = v
        /\ \A i \in DOMAIN units : i # id => units'[i] = units[i]
    BY <1>6, <2>1, <2>5
  <2>8. Placed(units', unitCounter', occupied')
    BY <1>1, <1>2, <2>1, <2>4, <2>5, <2>6, PlacedBecome
  <2>9. Counted(units', knightIds')
    BY <1>1, <1>2, <2>1, <2>3, <2>4, <2>5, CountedBecome DEF Knight
  <2>10. CallsOK(ds, units')
    <3>1. \A i \in DOMAIN units :
              /\ units'[i].kind = units[i].kind /\ units'[i].cast = units[i].cast
              /\ units[i].hp = 0 => units'[i].hp = 0
      BY <2>4, <2>7
    <3> QED
      BY <1>4, <2>7, <3>1, SameCallsOK
  <2>11. BlastOK(v, Pending(ds, id, "burn"), Pending(ds, id, "spent"))
    <3>1. u.blasts \in Nat /\ u.fuse \in {"off", "lit", "burnt"}
      BY <2>2 DEF UnitType
    <3>2. BlastOK(u, Pending(calls, id, "burn"), Pending(calls, id, "spent"))
      BY <1>1, <2>1, Zenon DEF BlastsOK
    <3>3. u.blasts <= 2
      BY <2>1, <3>1, <3>2 DEF BlastOK
    <3> QED
      BY <2>1, <2>4, <3>3 DEF BlastOK
  <2>12. BlastsOK(ds, units')
    <3>1. \A i \in DOMAIN units : i # id =>
              BlastOK(units'[i], Pending(ds, i, "burn"), Pending(ds, i, "spent"))
      BY <1>7, <2>7
    <3> QED
      BY <2>7, <2>11, <3>1, Zenon DEF BlastsOK
  <2>13. CallsOK(calls, units)' /\ BlastsOK(calls, units)'
    BY <1>2, <2>10, <2>12
  <2> QED
    BY <1>5, <2>8, <2>9, <2>13 DEF BattleInv
<1>11. c.then \in {"none", "burn", "spent", "cast"}
  BY <1>4 DEF CallOK
<1> QED
  BY <1>8, <1>9, <1>10, <1>11

\* The dead leave the field and the tiles they held.
LEMMA EndStepKeeps ==
    ASSUME BattleInv, EndStep
    PROVE  BattleInv'
<1>1. /\ calls = <<>> /\ calls' = <<>> /\ phase = "skills" /\ panicked = FALSE
      /\ UNCHANGED <<unitCounter, knightIds, score, cards, acted>>
  BY DEF EndStep, hands, BattleInv, Control
<1>2. Settled(units, unitCounter, occupied, knightIds) /\ Control
  BY <1>1, QuietInv
<1>3. units' = [i \in DOMAIN units \ Dead |-> units[i]]
  BY DEF EndStep
<1>4. DOMAIN units' = DOMAIN units \ Dead /\ \A i \in DOMAIN units \ Dead : units'[i] = units[i]
  BY <1>3
<1>5. /\ unitCounter \in Nat /\ DOMAIN units \subseteq 1..unitCounter
      /\ units \in [DOMAIN units -> UnitType] /\ \A i \in DOMAIN units : Sound(units[i])
      /\ occupied \in [Tiles -> {Obstacle, Free} \cup 1..unitCounter]
      /\ \A t \in Tiles, i \in DOMAIN units : occupied[t] = i <=> t \in units[i].tiles \cup units[i].site
      /\ \A t \in Tiles : occupied[t] \in {Free, Obstacle} \cup DOMAIN units
  BY <1>2 DEF Settled, Placed
<1>6. \A i \in DOMAIN units : Held(i) \subseteq Tiles /\ (i \in Dead <=> units[i].hp <= 0)
  BY <1>5 DEF Held, UnitType, Dead
<1>7. Placed(units', unitCounter', occupied')
  <2>1. units' \in [DOMAIN units' -> UnitType]
    BY <1>3, <1>5
  <2>2. occupied' = [t \in Tiles |-> IF \E i \in Dead : t \in Held(i) THEN Free ELSE occupied[t]]
    BY DEF EndStep
  <2>3. occupied' \in [Tiles -> {Obstacle, Free} \cup 1..unitCounter]
    BY <1>5, <2>2
  <2>4. \A t \in Tiles, i \in DOMAIN units' : occupied'[t] = i <=> t \in units'[i].tiles \cup units'[i].site
    <3>1. SUFFICES ASSUME NEW t \in Tiles, NEW i \in DOMAIN units'
                   PROVE  occupied'[t] = i <=> t \in units[i].tiles \cup units[i].site
      BY <1>4
    <3>2. i \in DOMAIN units /\ i \notin Dead /\ i # Free
      BY <1>4, <1>5 DEF Free
    <3>3. CASE \E j \in Dead : t \in Held(j)
      <4>1. PICK j \in Dead : t \in units[j].tiles \cup units[j].site
        BY <3>3 DEF Held
      <4>2. occupied[t] = j /\ j # i
        BY <1>5, <3>2, <4>1 DEF Dead
      <4>3. occupied'[t] = Free
        BY <2>2, <3>3
      <4> QED
        BY <1>5, <3>2, <4>2, <4>3
    <3>4. CASE ~\E j \in Dead : t \in Held(j)
      <4>1. occupied'[t] = occupied[t]
        BY <2>2, <3>4
      <4> QED
        BY <1>5, <3>2, <4>1
    <3> QED
      BY <3>3, <3>4
  <2>5. \A t \in Tiles : occupied'[t] \in {Free, Obstacle} \cup DOMAIN units'
    <3>1. SUFFICES ASSUME NEW t \in Tiles, ~\E i \in Dead : t \in Held(i)
                   PROVE  occupied[t] \in {Free, Obstacle} \cup DOMAIN units'
      BY <2>2
    <3>2. occupied[t] \notin Dead
      BY <1>5, <3>1 DEF Held, Dead
    <3> QED
      BY <1>4, <1>5, <3>2
  <2> QED
    BY <1>1, <1>4, <1>5, <2>1, <2>3, <2>4, <2>5 DEF Placed
<1>8. Counted(units', knightIds')
  <2>1. \A p \in Teams :
            {i \in DOMAIN units : units[i].team = p /\ Knight(units[i]) /\ units[i].hp > 0}
              = {i \in DOMAIN units' : units'[i].team = p /\ Knight(units'[i]) /\ units'[i].hp > 0}
    <3>1. \A i \in DOMAIN units : units[i].hp \in Nat
      BY <1>5 DEF UnitType
    <3> QED
      BY <1>4, <1>6, <3>1
  <2> QED
    BY <1>1, <1>2, <2>1 DEF Settled, Counted
<1>9. BlastsOK(<<>>, units')
  BY <1>2, <1>4, BlastsAlone DEF Settled
<1>10. panicked' = FALSE
  <2>1. \A i \in Dead : ~NotOwned(Held(i), i)
    BY <1>5, <1>6 DEF NotOwned, Held, Dead
  <2> QED
    BY <2>1 DEF EndStep
<1>11. deathToll' \in [Teams -> Nat]
  <2>1. IsFiniteSet(1..unitCounter)
    BY <1>5, FS_Interval
  <2>2. ASSUME NEW p PROVE Cardinality({i \in Dead : units[i].team = p /\ Is(i).type # "Knight"}) \in Nat
    <3>1. {i \in Dead : units[i].team = p /\ Is(i).type # "Knight"} \subseteq 1..unitCounter
      BY <1>5 DEF Dead
    <3> QED
      BY <2>1, <3>1, FS_Subset, FS_CardinalityType
  <2>3. deathToll' = [p \in Teams |-> deathToll[p]
            + Cardinality({i \in Dead : units[i].team = p /\ Is(i).type # "Knight"})]
    BY DEF EndStep
  <2>4. deathToll \in [Teams -> Nat]
    BY <1>2 DEF Control
  <2> DEFINE lost(p) == Cardinality({i \in Dead : units[i].team = p /\ Is(i).type # "Knight"})
  <2>5. \A p \in Teams : lost(p) \in Nat
    BY <2>2
  <2>6. deathToll' = [p \in Teams |-> deathToll[p] + lost(p)]
    BY <2>3
  <2> HIDE DEF lost
  <2> QED
    BY <2>4, <2>5, <2>6
<1>12. /\ step' = step + 1 /\ step' \in 0..PlayTime + OverTime
       /\ phase' \in {"do", "over"} /\ (phase' # "over" => step' < PlayTime + OverTime)
  <2>1. step \in Nat /\ step < PlayTime + OverTime /\ PlayTime \in Nat /\ OverTime \in Nat
    BY <1>1, <1>2, BattleAssumption DEF Control
  <2>2. step' = step + 1 /\ phase' = IF Over(step + 1) THEN "over" ELSE "do"
    BY DEF EndStep
  <2>3. ~Over(step + 1) => step + 1 < PlayTime + OverTime
    BY <2>1 DEF Over
  <2> QED
    BY <2>1, <2>2, <2>3
<1>13. Control'
  BY <1>1, <1>2, <1>10, <1>11, <1>12 DEF Control
<1> QED
  BY <1>1, <1>7, <1>8, <1>9, <1>13, QuietInvNext DEF Settled

-----------------------------------------------------------------------------
(* The theorems.                                                           *)

\* Every army may begin a match.
LEMMA BattleInit == Init => BattleInv
<1> SUFFICES ASSUME Init PROVE BattleInv
  OBVIOUS
<1>1. PICK m \in Matches : LET army == m.army IN
        /\ units = [i \in DOMAIN army |-> Enlisted(army[i])]
        /\ unitCounter = Len(army)
        /\ occupied = [t \in Tiles |->
               IF t \in Obstacles THEN Obstacle
               ELSE IF \E i \in DOMAIN army : t \in army[i].tiles
                    THEN CHOOSE i \in DOMAIN army : t \in army[i].tiles ELSE Free]
        /\ knightIds = [p \in Teams |->
               {i \in DOMAIN army : army[i].team = p /\ Kind[army[i].kind].type = "Knight"}]
        /\ cards = m.cards
  BY DEF Init
<1>2. /\ score = [p \in Teams |-> leaderScore + wingScore * 2] /\ deathToll = [p \in Teams |-> 0]
      /\ panicked = FALSE /\ acted = 0 /\ step = 0 /\ phase = "do" /\ calls = <<>>
  BY DEF Init
<1> DEFINE army == m.army
<1>3. /\ army \in Seq([kind : KindNames, team : Teams, tiles : SUBSET (Tiles \ Obstacles), leader : BOOLEAN])
      /\ \A i, j \in DOMAIN army : i # j => army[i].tiles \cap army[j].tiles = {}
      /\ cards \in [Teams -> SUBSET {k \in KindNames : Kind[k].type = "Squire"}]
  BY <1>1, BattleAssumption
<1>4. /\ units = [i \in DOMAIN army |-> Enlisted(army[i])] /\ unitCounter = Len(army)
      /\ knightIds = [p \in Teams |->
             {i \in DOMAIN army : army[i].team = p /\ Kind[army[i].kind].type = "Knight"}]
      /\ \A t \in Tiles : occupied[t] = IF t \in Obstacles THEN Obstacle
             ELSE IF \E i \in DOMAIN army : t \in army[i].tiles
                  THEN CHOOSE i \in DOMAIN army : t \in army[i].tiles ELSE Free
      /\ DOMAIN occupied = Tiles /\ occupied = [t \in Tiles |-> occupied[t]]
  BY <1>1
<1> HIDE DEF army
<1>5. unitCounter \in Nat /\ DOMAIN army = 1..unitCounter /\ DOMAIN units = 1..unitCounter
  BY <1>3, <1>4
<1>6. ASSUME NEW i \in DOMAIN army
      PROVE  /\ units[i] \in UnitType /\ Sound(units[i]) /\ BlastOK(units[i], FALSE, FALSE)
             /\ units[i].kind = army[i].kind /\ units[i].team = army[i].team /\ units[i].hp > 0
             /\ units[i].tiles = army[i].tiles /\ units[i].site = {}
             /\ army[i].tiles \subseteq Tiles \ Obstacles
  <2> DEFINE a == army[i]
             n == NewUnit(a.kind, a.team, a.tiles)
             e == [n EXCEPT !.leader = a.leader, !.stays = Kind[a.kind].type = "Building"]
  <2>1. /\ a.kind \in KindNames /\ a.team \in Teams /\ a.tiles \subseteq Tiles \ Obstacles
        /\ a.leader \in BOOLEAN
    <3>1. army[i] \in [kind : KindNames, team : Teams, tiles : SUBSET (Tiles \ Obstacles), leader : BOOLEAN]
      <4> DEFINE R == [kind : KindNames, team : Teams, tiles : SUBSET (Tiles \ Obstacles), leader : BOOLEAN]
      <4>1. army \in Seq(R)
        BY <1>3
      <4> HIDE DEF R
      <4>2. army[i] \in R
        BY <1>6, <4>1
      <4> QED
        BY <4>2 DEF R
    <3> QED
      BY <3>1
  <2>2. units[i] = e
    BY <1>4 DEF Enlisted
  <2> HIDE DEF a
  <2>3. Fits(n, a.kind, a.team, a.tiles)
    BY <2>1, NewUnitFits
  <2> HIDE DEF n
  <2>4. n \in UnitType /\ Sound(n) /\ BlastOK(n, FALSE, FALSE)
    BY <2>3 DEF Fits
  <2>5. /\ e \in UnitType /\ Alike(n, e) /\ e.cast = n.cast /\ e.layer = n.layer
    BY <2>1, <2>4 DEF UnitType, Alike
  <2>6. n.kind = a.kind /\ n.team = a.team /\ n.tiles = a.tiles /\ n.site = {} /\ n.hp > 0
    BY <2>3 DEF Fits
  <2> HIDE DEF e
  <2>7. Sound(e) /\ BlastOK(e, FALSE, FALSE)
    BY <2>4, <2>5 DEF Sound, Alike, Knight, BlastOK
  <2> QED
    BY <2>1, <2>2, <2>5, <2>6, <2>7 DEF Alike, a
<1>7. Control
  <2>1. PlayTime \in Nat /\ OverTime \in Nat /\ PlayTime # 0 /\ MaxActions \in Nat
    BY BattleAssumption
  <2> QED
    BY <1>2, <1>3, <2>1 DEF Control, leaderScore, wingScore
<1>8. Placed(units, unitCounter, occupied)
  <2>1. units \in [DOMAIN units -> UnitType] /\ \A i \in DOMAIN units : Sound(units[i])
    BY <1>4, <1>5, <1>6
  <2>2. ASSUME NEW t \in Tiles
        PROVE  /\ occupied[t] \in {Free, Obstacle} \cup DOMAIN units
               /\ \A i \in DOMAIN units : occupied[t] = i <=> t \in units[i].tiles \cup units[i].site
    <3>0. ASSUME NEW i \in DOMAIN units
          PROVE  /\ i \in 1..unitCounter /\ i # Obstacle /\ i # Free
                 /\ units[i].tiles \cup units[i].site = army[i].tiles
                 /\ army[i].tiles \subseteq Tiles \ Obstacles
      <4>1. i \in DOMAIN army /\ i \in 1..unitCounter
        BY <1>5
      <4>2. i # Obstacle /\ i # Free
        BY <1>5, <4>1 DEF Obstacle, Free
      <4>3. units[i].tiles = army[i].tiles /\ units[i].site = {} /\ army[i].tiles \subseteq Tiles \ Obstacles
        BY <1>6, <4>1
      <4> QED
        BY <4>1, <4>2, <4>3
    <3>1. CASE t \in Obstacles
      <4>1. occupied[t] = Obstacle
        BY <1>4, <3>1
      <4> QED
        BY <3>0, <3>1, <4>1
    <3>2. CASE t \notin Obstacles /\ \E i \in DOMAIN army : t \in army[i].tiles
      <4>1. occupied[t] \in DOMAIN army /\ t \in army[occupied[t]].tiles
        BY <1>4, <3>2
      <4>2. \A i \in DOMAIN army : t \in army[i].tiles => i = occupied[t]
        BY <1>3, <4>1
      <4> QED
        BY <1>5, <3>0, <4>1, <4>2
    <3>3. CASE t \notin Obstacles /\ ~\E i \in DOMAIN army : t \in army[i].tiles
      <4>1. occupied[t] = Free
        BY <1>4, <3>3
      <4> QED
        BY <1>5, <3>0, <3>3, <4>1
    <3> QED
      BY <3>1, <3>2, <3>3
  <2>3. occupied \in [Tiles -> {Obstacle, Free} \cup 1..unitCounter]
    BY <1>4, <1>5, <2>2
  <2> QED
    BY <1>5, <2>1, <2>2, <2>3 DEF Placed
<1>9. Counted(units, knightIds)
  <2>1. \A p \in Teams :
            {i \in DOMAIN army : army[i].team = p /\ Kind[army[i].kind].type = "Knight"}
              = {i \in DOMAIN units : units[i].team = p /\ Knight(units[i]) /\ units[i].hp > 0}
    BY <1>5, <1>6 DEF Knight
  <2>2. knightIds \in [Teams -> SUBSET Nat]
    BY <1>4, <1>5
  <2> QED
    BY <1>4, <2>1, <2>2 DEF Counted
<1>10. BlastsOK(<<>>, units)
  BY <1>5, <1>6, BlastsAlone
<1> QED
  BY <1>2, <1>7, <1>8, <1>9, <1>10, QuietInv DEF Settled

\* Every step keeps the invariant: one line for each step of game.Update.
LEMMA BattleNext == BattleInv /\ [Next]_vars => BattleInv'
<1> SUFFICES ASSUME BattleInv, [Next]_vars PROVE BattleInv'
  OBVIOUS
<1>1. ASSUME NEW team \in Teams, Deploy(team) PROVE BattleInv'
  BY <1>1, DeployKeeps
<1>2. ASSUME NEW id \in DOMAIN units, CastSkill(id) PROVE BattleInv'
  BY <1>2, CastSkillKeeps
<1>3. ASSUME NEW id \in DOMAIN units, UnitUpdate(id) PROVE BattleInv'
  BY <1>3, UpdateKeeps
<1>4. ASSUME NEW id \in DOMAIN units, TakeDamage(id) PROVE BattleInv'
  BY <1>4, TakeDamageKeeps
<1>5. CASE StartUpdates \/ NextLoop
  BY <1>5, LoopsKeep
<1>6. CASE Return
  BY <1>6, ReturnKeeps
<1>7. CASE BulletUpdate \/ CloudUpdate
  BY <1>7, ShotsKeep
<1>8. CASE EndStep
  BY <1>8, EndStepKeeps
<1>9. CASE UNCHANGED vars
  BY <1>9 DEF vars, progress, fieldVars, shots, tally, hands, BattleInv, Control, Placed, Counted,
              CallsOK, BlastsOK
<1> QED
  BY <1>1, <1>2, <1>3, <1>4, <1>5, <1>6, <1>7, <1>8, <1>9 DEF Next

\* The invariant holds in every state of game.Update, between any two of its steps.
THEOREM BattleInvariant == Spec => []BattleInv
BY BattleInit, BattleNext, PTL DEF Spec

\* Every variable keeps its type, whatever the players and the units do.
THEOREM BattleTypes == Spec => []TypeOK
<1>1. BattleInv => TypeOK
  <2> SUFFICES ASSUME BattleInv PROVE TypeOK
    OBVIOUS
  <2>1. ASSUME NEW i \in DOMAIN units
        PROVE  /\ units[i].kind \in KindNames /\ units[i].team \in Teams
               /\ units[i].hp \in 0..Health[units[i].kind]
               /\ units[i].layer \in {"Normal", "Ether", "Casting"}
               /\ units[i].fuse \in {"off", "lit", "burnt"}
               /\ units[i].freeze \in 0..FreezeTime /\ units[i].cast \in 0..CastDuration + 1
    <3>1. units[i] \in UnitType /\ Sound(units[i])
      BY DEF BattleInv, Placed
    <3>2. units[i].kind \in KindNames
      BY <3>1 DEF UnitType
    <3>3. Health[units[i].kind] \in Nat
      BY <3>2, TypesOfNumbers
    <3> QED
      BY <3>1, <3>3 DEF UnitType, Sound
  <2> QED
    BY <2>1 DEF TypeOK, BattleInv, Control, Placed
<1> QED
  BY <1>1, BattleInvariant, PTL

\* Occupy and Release never panic, and a tile belongs to who stands or will build on it.
THEOREM TilesAreKept == Spec => []TilesKept
<1>1. BattleInv => TilesKept
  BY DEF BattleInv, Control, Placed, TilesKept
<1> QED
  BY <1>1, BattleInvariant, PTL

\* Nobody can kill a knight while it casts, so its building always gets its tiles.
THEOREM CastersStayUntouched == Spec => []CastersUntouched
<1>1. BattleInv => CastersUntouched
  <2> SUFFICES ASSUME BattleInv, NEW i \in DOMAIN units, units[i].cast > 0
               PROVE  /\ units[i].hp > 0 /\ units[i].layer = "Casting"
                      /\ Is(i).skill = "build" => (units[i].site # {} <=> units[i].cast <= CastDelay + 1)
    BY DEF CastersUntouched
  <2>1. Sound(units[i])
    BY DEF BattleInv, Placed
  <2> QED
    BY <2>1 DEF Sound, Is
<1> QED
  BY <1>1, BattleInvariant, PTL

\* Explosions that set each other off end: no unit explodes more often than twice.
THEOREM ExplosionsEnd == Spec => []BlastsBounded
<1>1. BattleInv => BlastsBounded
  <2> SUFFICES ASSUME BattleInv, NEW i \in DOMAIN units
               PROVE  units[i].blasts <= IF Is(i).blast = "fuse" THEN 2 ELSE 1
    BY DEF BlastsBounded
  <2>1. units[i].blasts \in Nat /\ units[i].fuse \in {"off", "lit", "burnt"}
    BY DEF BattleInv, Placed, UnitType
  <2>2. BlastOK(units[i], Pending(calls, i, "burn"), Pending(calls, i, "spent"))
    BY Zenon DEF BattleInv, BlastsOK
  <2> QED
    BY <2>1, <2>2 DEF BlastOK, Is
<1> QED
  BY <1>1, BattleInvariant, PTL

\* A knight counts as long as it lives, whatever kills it.
THEOREM KnightsCountOnce == Spec => []KnightsCounted
<1>1. BattleInv => KnightsCounted
  BY DEF BattleInv, Counted, KnightsCounted, Knight, Is
<1> QED
  BY <1>1, BattleInvariant, PTL
=============================================================================
