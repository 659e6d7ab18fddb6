------------------------------- MODULE Field -------------------------------
(***************************************************************************)
(* Where the units of a match stand and where they go: the tiles that      *)
(* knights and buildings take (tileoccupier.go, player.go, game.go) and    *)
(* the way of one squire to its targets (unit.go, nav/thanatos.go).        *)
(*                                                                         *)
(* Cards, energy and casts are in Player and Battle; here a player may     *)
(* play a building or the squire at any time, and a unit may die at any    *)
(* time.  A wing that dies leaves its tiles at the end of the step it died *)
(* in, before any card is played.  Leaders stay: the match ends with them. *)
(* Collisions of bodies (pkg/physics) are left out, except that a shield   *)
(* pushes a squire back and that none gets past a building in a hole.      *)
(***************************************************************************)
EXTENDS Paths, FiniteSetsExt

CONSTANTS
    Sappers,        \* the sets of teams whose leader may be an archsapper
    AskedTiles,     \* the tiles a player of Blue may ask for
    Offsets,        \* offsetX and offsetY of a squire of a card
    Radii,          \* radius of a squire
    Sight, Reach,   \* sight and attackrange of the squire
    Pace,           \* how near to a corner a squire passes it
    MaxDead, MaxBuildings   \* bounds on the wings that die and the buildings played

Teams == {"Blue", "Red"}
Sides == {"Left", "Center", "Right"}
opponent == [Blue |-> "Red", Red |-> "Blue"]

knightTileNum == 4
BuildingTileNum == 3
maxTileFindDistance == 5
KnightRadius == 95      \* the largest
BuildingRadius == 60

ASSUME FieldAssumption ==
    /\ Sappers \subseteq SUBSET Teams
    /\ \A t \in AskedTiles : t.x \in Int /\ t.y \in Int
    /\ \A o \in Offsets : o.x \in Int /\ o.y \in Int
    /\ Radii \subseteq 0..74        \* half a hole is 75 pixels wide; the data have 15 to 55
    /\ {Sight, Reach, Pace, MaxDead, MaxBuildings} \subseteq Nat

VARIABLES
    dead,       \* the wings that have died: knightIds[side] = 0
    buildings,  \* the buildings on the field
    played,     \* how many have been played
    squire      \* the squire, or NoSquire

vars == <<dead, buildings, played, squire>>

NoSquire == [team |-> "none"]
-----------------------------------------------------------------------------
(* Tiles.                                                                  *)

Flip(p) == Point(Width - p.x, Height - p.y)     \* FlipX and FlipY
FlipTile(t) == Point(TileNumX - 1 - t.x, TileNumY - 1 - t.y)
ForTeam(team, p, flipped) == IF team = "Red" THEN flipped ELSE p

PosFromTile(t) == Point(t.x * TileSize + TileSize \div 2, t.y * TileSize + TileSize \div 2)
TileFromPos(p) == Point(Max({0, Min({p.x \div TileSize, TileNumX - 1})}),
                        Max({0, Min({p.y \div TileSize, TileNumY - 1})}))

\* (Faulty variant: the last column and row of an odd size are missing.)
RectTilesShort(t, nx, ny) ==
    {Point(x, y) : x \in t.x - nx \div 2 .. t.x + nx \div 2 - 1,
                   y \in t.y - ny \div 2 .. t.y + ny \div 2 - 1}

\* A tileRect: minX, maxX, minY, maxY
RectTiles(t, nx, ny) ==
    {Point(x, y) : x \in t.x - nx \div 2 .. t.x + (nx + 1) \div 2 - 1,
                   y \in t.y - ny \div 2 .. t.y + (ny + 1) \div 2 - 1}

\* createMapObstacles
Obstacles ==
    UNION {RectTiles(TileFromPos(Point((s.l + s.r) \div 2, CenterY)), (s.r - s.l) \div TileSize,
                     (ShieldBottom - ShieldTop) \div TileSize) : s \in Shields}

\* addKnight
initialKnightPosition ==
    [Left |-> Point(200, 1350), Center |-> Point(500, 1450), Right |-> Point(800, 1350)]
KnightPos(team, side) ==
    ForTeam(team, initialKnightPosition[side], Flip(initialKnightPosition[side]))
Knights == (Teams \X Sides) \ dead

KnightTiles ==
    [k \in Teams \X Sides |-> RectTiles(TileFromPos(KnightPos(k[1], k[2])), knightTileNum, knightTileNum)]
BuildingTiles(b) == RectTiles(TileFromPos(b.pos), BuildingTileNum, BuildingTileNum)

Occupied(tiles) ==
    \/ tiles \cap Obstacles # {}
    \/ \E k \in Knights : tiles \cap KnightTiles[k] # {}
    \/ \E b \in buildings : tiles \cap BuildingTiles(b) # {}

KnightDead(team, side) == <<team, side>> \in dead

\* TileValid, of what is not a spell: the own half of the map, and the other one up to four
\* rows beyond its middle on the side where the opponent's wing is dead.
TileValid(team, tile) ==
    LET t == ForTeam(team, tile, FlipTile(tile))
        maxX == TileNumX - 1
        maxY == TileNumY - 1
        opponentSide == IF t.x < maxX \div 2 + 1 THEN "Right" ELSE "Left"
    IN /\ t.x \in 0..maxX /\ t.y \in 0..maxY
       /\ t.y >= maxY \div 2 - 4
       /\ t.y < maxY \div 2 + 2 => KnightDead(opponent[team], opponentSide)

TileRectValid(team, tiles) == \A t \in tiles : TileValid(team, t)

Abs(n) == IF n < 0 THEN -n ELSE n

\* The tiles at a distance from one, and the first of some in the order of the loops
Ring(tile, d) ==
    LET box == {Point(x, y) : x \in tile.x - d .. tile.x + d, y \in tile.y - d .. tile.y + d}
    IN {t \in box : Abs(t.x - tile.x) + Abs(t.y - tile.y) = d}
First(tiles) == CHOOSE t \in tiles : \A u \in tiles : t.x < u.x \/ (t.x = u.x /\ t.y <= u.y)

\* FindUnoccupiedTileRect, of size n: the closest tile where there is room, if any
FindUnoccupiedTileRect(team, tile, n) ==
    LET Room(t) == \E tiles \in {RectTiles(t, n, n)} : TileRectValid(team, tiles) /\ ~Occupied(tiles)
        Free(d) == {t \in Ring(tile, d) : Room(t)}
        distances == 0..maxTileFindDistance-1
        Closest == CHOOSE d \in distances : Free(d) # {} /\ \A e \in distances : e < d => Free(e) = {}
    IN IF \A d \in distances : Free(d) = {} THEN {} ELSE {First(Free(Closest))}

Building(team, pos, stays) == [team |-> team, pos |-> pos, stays |-> stays]

\* SetAsLeader of an archsapper: two cannons that do not decay
ReadyCannons(team) ==
    {Building(team, ForTeam(team, p, Flip(p)), TRUE) : p \in {Point(325, 1075), Point(675, 1075)}}

Init ==
    /\ \E teams \in Sappers : buildings = UNION {ReadyCannons(t) : t \in teams}
    /\ dead = {} /\ played = 0 /\ squire = NoSquire
-----------------------------------------------------------------------------
(* The way of the squire.                                                  *)

\* A shield pushes out what is in it: from the wall of a hole, or to the nearer side of
\* the row.
Pushed(p, radius) ==
    LET beside == {h \in DOMAIN Holes : p.x >= Holes[h].l /\ p.x <= Holes[h].r}
        Inside(h) == Max({Holes[h].l + radius, Min({Holes[h].r - radius, p.x})})
    IN IF p.y < ShieldTop \/ p.y > ShieldBottom THEN p
       ELSE IF beside # {} THEN Point(Inside(CHOOSE h \in beside : TRUE), p.y)
       ELSE Point(p.x, IF p.y < CenterY THEN ShieldTop - Pace ELSE ShieldBottom + Pace)

Square(n) == n * n
squaredDistance(p, q) == Square(p.x - q.x) + Square(p.y - q.y)

\* The knights and the buildings of the other team; canSee: a knight is seen from anywhere.
Enemies(s) ==
    {[pos |-> KnightPos(k[1], k[2]), radius |-> KnightRadius] : k \in {k \in Knights : k[1] # s.team}}
    \cup {[pos |-> b.pos, radius |-> BuildingRadius] : b \in
            {b \in buildings : /\ b.team # s.team
                               /\ squaredDistance(s.pos, b.pos) < Square(Sight + BuildingRadius)}}

\* findTarget: the nearest
Nearest(s, enemies) ==
    {t \in enemies : \A e \in enemies : squaredDistance(s.pos, t.pos) <= squaredDistance(s.pos, e.pos)}
Targets(s) == UNION {Nearest(s, enemies) : enemies \in {Enemies(s)}}

withinRange(s, t) == squaredDistance(s.pos, t.pos) < Square(Reach + t.radius)

Corner(s, t) == FindNextCornerInPath(s.pos, t.pos, s.radius)
Located(s) == Location(s.pos, s.radius) # "nowhere"

Half(p, q) == Point((p.x + q.x) \div 2, (p.y + q.y) \div 2)
Far(p, q) == squaredDistance(p, q) > Square(8 * Pace)

\* Where moveTo may bring the squire in a while: half the way to the next corner, or just
\* about there.  Beside a shield it is bound for the target itself, and slides along.
Ahead(s, t, corner) ==
    IF ~Located(s)
    THEN {Point(s.pos.x, s.pos.y + IF t.pos.y < s.pos.y THEN -3 * Pace ELSE 3 * Pace)}
    ELSE IF Far(s.pos, corner) THEN {Half(s.pos, corner)}
    ELSE {Point(corner.x + dx, corner.y + dy) : dx \in {-Pace, Pace}, dy \in {-Pace, Pace}}

\* A building in a hole that is between two places
InTheWay(p, q) ==
    \E b \in buildings :
        /\ b.pos.y > ShieldTop - TileSize /\ b.pos.y < ShieldBottom + TileSize
        /\ \E h \in DOMAIN Holes : b.pos.x > Holes[h].l /\ b.pos.x < Holes[h].r
        /\ (b.pos.x < CenterX) = (p.x < CenterX)
        /\ Min({p.y, q.y}) <= b.pos.y /\ Max({p.y, q.y}) >= b.pos.y

Walk ==
    /\ squire # NoSquire
    /\ \E t \in Targets(squire) :
           /\ ~withinRange(squire, t)
           /\ \E path \in {FindPath(squire.pos, t.pos, squire.radius)} :
              \E corner \in {NextCornerInPath(path, squire.pos)} :
                  \E p \in {Pushed(p, squire.radius) : p \in Ahead(squire, t, corner)} :
                      /\ ~InTheWay(squire.pos, p)
                      /\ squire' = [squire EXCEPT !.pos = p]
    /\ UNCHANGED <<dead, buildings, played>>
-----------------------------------------------------------------------------
(* Cards and deaths.                                                       *)

\* The tile a card played by this team goes to.
PlayedAt(team, tile, n) ==
    IF TileRectValid(team, RectTiles(tile, n, n)) THEN FindUnoccupiedTileRect(team, tile, n) ELSE {}

\* A knight builds on the tiles it took when it began to cast.
PlayBuilding(team, tile) ==
    /\ played < MaxBuildings
    /\ \E at \in PlayedAt(team, tile, BuildingTileNum) :
           buildings' = buildings \cup {Building(team, PosFromTile(at), FALSE)}
    /\ played' = played + 1
    /\ UNCHANGED <<dead, squire>>

PlaySquire(team, tile) ==
    /\ squire = NoSquire
    /\ \E at \in PlayedAt(team, tile, 1), o \in Offsets, radius \in Radii :
           LET p == PosFromTile(at)
           IN squire' = [team |-> team, radius |-> radius,
                         pos |-> Pushed(Point(p.x + o.x, p.y + o.y), radius)]
    /\ UNCHANGED <<dead, buildings, played>>

OnKnightDead(team, side) ==
    /\ side # "Center" /\ Cardinality(dead) < MaxDead
    /\ dead' = dead \cup {<<team, side>>}
    /\ UNCHANGED <<buildings, played, squire>>

Destroy(b) ==
    /\ buildings' = buildings \ {b}
    /\ UNCHANGED <<dead, played, squire>>

\* A building that a card has brought loses hit points in every step.
Decay == \E b \in buildings : ~b.stays /\ Destroy(b)

Next ==
    \/ \E team \in Teams, tile \in AskedTiles :
           LET t == ForTeam(team, tile, FlipTile(tile)) IN PlayBuilding(team, t) \/ PlaySquire(team, t)
    \/ \E k \in Knights : OnKnightDead(k[1], k[2])
    \/ \E b \in buildings : Destroy(b)
    \/ Walk

Spec == Init /\ [][Next]_vars

\* game.Update updates every unit in every step.
FairSpec == Spec /\ WF_vars(Walk) /\ WF_vars(Decay)
-----------------------------------------------------------------------------
\* The bodies that do not move: the knights at home, the buildings and the shields
Body(pos, radius) ==
    [l |-> pos.x - radius, r |-> pos.x + radius, t |-> pos.y - radius, b |-> pos.y + radius]
Bodies ==
    {Body(KnightPos(k[1], k[2]), KnightRadius) : k \in Knights}
    \cup {Body(b.pos, BuildingRadius) : b \in buildings}
    \cup {[l |-> s.l, r |-> s.r, t |-> ShieldTop, b |-> ShieldBottom] : s \in Shields}

\* No two of the bodies that stand on tiles overlap on the map, in pixels, wherever players
\* of both teams ask for a place and whatever was there and died: the tiles a rectangle
\* takes, and the place in pixels the unit gets, agree for both teams.
BodiesApart ==
    \A a \in Bodies :
        /\ a.l >= 0 /\ a.r <= Width /\ a.t >= 0 /\ a.b <= Height
        /\ \A c \in Bodies \ {a} : a.r <= c.l \/ c.r <= a.l \/ a.b <= c.t \/ c.b <= a.t

\* A segment goes through the inside of a box
Meets(box, p, q) ==
    LET d == Minus(q, p)
        sides == {Cross(d, Minus(Point(x, y), p)) : x \in {box.l, box.r}, y \in {box.t, box.b}}
    IN /\ Max({p.x, q.x}) > box.l /\ Min({p.x, q.x}) < box.r
       /\ Max({p.y, q.y}) > box.t /\ Min({p.y, q.y}) < box.b
       /\ (\E v \in sides : v > 0) /\ (\E v \in sides : v < 0)

\* A shield, grown by the squire's radius on the walls of the holes
Grown(s, radius) ==
    [l |-> IF s.l = 0 THEN 0 ELSE s.l - radius, r |-> IF s.r = Width THEN Width ELSE s.r + radius,
     t |-> ShieldTop, b |-> ShieldBottom]
Clear(p, q, radius) == \A s \in Shields : ~Meets(Grown(s, radius), p, q)

\* The way to the next corner of the path never leads into a shield, nor closer to the wall
\* of a hole than the squire's radius, wherever the squire is and whatever target it has.
PathClear ==
    squire # NoSquire /\ Located(squire) =>
        \A t \in Targets(squire) : Clear(squire.pos, Corner(squire, t), squire.radius)

\* A squire on the map that could walk straight to its target, through the hole of its own
\* side if one lies between, does not turn aside.
NoDetour ==
    squire # NoSquire /\ Located(squire) /\ squire.pos.x \in 0..Width =>
        \A t \in Targets(squire) :
            /\ Clear(squire.pos, t.pos, squire.radius)
            /\ (squire.pos.x < CenterX <=> t.pos.x < CenterX)
            => Corner(squire, t) = t.pos

\* A squire keeps getting within range of an enemy: whatever dies or is built on the way, it
\* is never sent to and fro between two holes or two targets, and no building keeps it from
\* a hole for ever.
Arrives ==
    squire # NoSquire ~> squire # NoSquire /\ \E t \in Targets(squire) : withinRange(squire, t)
=============================================================================
