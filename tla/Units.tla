------------------------------- MODULE Units -------------------------------
(***************************************************************************)
(* What the units of pkg/game do to one another, one record for each file  *)
(* of a unit.  Geometry, numbers and the timing of attacks are left open,  *)
(* so a record names                                                       *)
(*   type    Knight, Squire or Building (a building decays)                *)
(*   layer   the layer it is in when it does nothing else                  *)
(*   hits    "strike" one enemy; "sweep" the enemies in an area; send a    *)
(*           bullet that hits its target ("shot") or also those near it    *)
(*           ("shell"), or that depends on the leader ("round"); or "no"   *)
(*   armour  "hull": hit points, hit in layer Normal only; "shield": takes *)
(*           damage first, in any layer; "veil": a shield that checks it   *)
(*   blast   it damages all enemies around it when it dies ("death"), or   *)
(*           when its fuse burns down or it dies with the fuse lit         *)
(*           ("fuse"), or never                                            *)
(*   skill   what its card does, "build", "deploy", "area", "freeze",      *)
(*           "emp", "laser" or "cloud", with the unit it makes             *)
(*   support what it does as the leader: "deaths" and "period" send units  *)
(*           while the match runs, the others act when it is set up        *)
(***************************************************************************)
EXTENDS Naturals

Plain == [type |-> "Squire", layer |-> "Normal", hits |-> "strike", armour |-> "hull",
          blast |-> "no", skill |-> "no", makes |-> "no", support |-> "no", sends |-> "no"]

\* Squires.
Archer == [Plain EXCEPT !.hits = "shot"]
Starfire == [Plain EXCEPT !.hits = "shot"]
Sentry == [Plain EXCEPT !.hits = "shot"]
Archmage == [Plain EXCEPT !.hits = "shell"]
Azero == [Plain EXCEPT !.hits = "shell"]
Blaster == [Plain EXCEPT !.hits = "shell"]
Footman == Plain
Berserker == Plain
Drillram == Plain
Felhound == Plain
Giant == Plain
Ogre == Plain
Jouster == Plain
Pixie == Plain  \* sets its layer in an attack, to the one it is in
Absorber == [Plain EXCEPT !.hits = "sweep"]
Enforcer == [Plain EXCEPT !.hits = "sweep"]
Panzerkunstler == [Plain EXCEPT !.hits = "sweep"]
Trainee == [Plain EXCEPT !.armour = "shield"]
Gargoyle == [Plain EXCEPT !.armour = "shield"]
Gargoyleking == [Plain EXCEPT !.armour = "shield"]
Champion == [Plain EXCEPT !.armour = "shield", !.hits = "sweep"]
Psabu == [Plain EXCEPT !.armour = "shield", !.hits = "sweep"]
Shadowvision == [Plain EXCEPT !.layer = "Ether", !.armour = "veil", !.hits = "shell"]
Wasp == [Plain EXCEPT !.armour = "shield", !.blast = "death"]
Voidcreeper == [Plain EXCEPT !.hits = "sweep", !.blast = "death"]
Micromissile == [Plain EXCEPT !.hits = "no", !.blast = "fuse"]
Heavymissile == Micromissile
Nukemissile == Micromissile

\* Buildings; the last three send units.
Building == [Plain EXCEPT !.type = "Building"]
Cannon == [Building EXCEPT !.hits = "shot"]
Blastturret == [Building EXCEPT !.hits = "shell"]
Beholder == Building
Barrack == [Building EXCEPT !.hits = "no", !.makes = "footman"]
Sentryshelter == [Building EXCEPT !.hits = "no", !.makes = "sentry"]
Pixiegeode == [Building EXCEPT !.hits = "no", !.makes = "pixie"]

\* Knights.
Gunner == [Plain EXCEPT !.type = "Knight", !.hits = "round", !.support = "ratio"]
Archengineer == [Gunner EXCEPT !.skill = "build", !.makes = "blastturret"]
Archsapper == [Gunner EXCEPT !.skill = "build", !.makes = "cannon", !.support = "cannons"]
Ironcoffin == [Gunner EXCEPT !.skill = "build", !.makes = "sentryshelter",
                  !.support = "period", !.sends = "sentry"]
Pixieking == [Gunner EXCEPT !.skill = "build", !.makes = "pixiegeode",
                  !.support = "period", !.sends = "pixie"]
Frost == [Gunner EXCEPT !.skill = "freeze"]
Judge == [Gunner EXCEPT !.skill = "area"]
Legion == [Gunner EXCEPT !.skill = "area"]
Lancer == [Gunner EXCEPT !.skill = "cloud", !.support = "clouds"]
Valkyrie == [Gunner EXCEPT !.skill = "emp", !.support = "period", !.sends = "micromissile"]

\* A beam hits its target, or with a leader's help also those near it.
Beamer == [Gunner EXCEPT !.hits = "sweep"]
Astra == [Beamer EXCEPT !.skill = "laser"]
Buran == [Beamer EXCEPT !.skill = "build", !.makes = "beholder"]
Nagmash == [Beamer EXCEPT !.skill = "deploy", !.makes = "footman",
                !.support = "period", !.sends = "footman"]
Tombstone == [Beamer EXCEPT !.skill = "build", !.makes = "barrack",
                  !.support = "deaths", !.sends = "footman"]

Kind == [
    absorber |-> Absorber, archengineer |-> Archengineer, archer |-> Archer,
    archmage |-> Archmage, archsapper |-> Archsapper, astra |-> Astra, azero |-> Azero,
    barrack |-> Barrack, beholder |-> Beholder, berserker |-> Berserker,
    blaster |-> Blaster, blastturret |-> Blastturret, buran |-> Buran, cannon |-> Cannon,
    champion |-> Champion, drillram |-> Drillram, enforcer |-> Enforcer,
    felhound |-> Felhound, footman |-> Footman, frost |-> Frost, gargoyle |-> Gargoyle,
    gargoyleking |-> Gargoyleking, giant |-> Giant, heavymissile |-> Heavymissile,
    ironcoffin |-> Ironcoffin, jouster |-> Jouster, judge |-> Judge, lancer |-> Lancer,
    legion |-> Legion, micromissile |-> Micromissile, nagmash |-> Nagmash,
    nukemissile |-> Nukemissile, ogre |-> Ogre, panzerkunstler |-> Panzerkunstler,
    pixie |-> Pixie, pixiegeode |-> Pixiegeode, pixieking |-> Pixieking, psabu |-> Psabu,
    sentry |-> Sentry, sentryshelter |-> Sentryshelter, shadowvision |-> Shadowvision,
    starfire |-> Starfire, tombstone |-> Tombstone, trainee |-> Trainee,
    valkyrie |-> Valkyrie, voidcreeper |-> Voidcreeper, wasp |-> Wasp]

KindNames == DOMAIN Kind
=============================================================================
