---------------------------- MODULE Field_proofs ----------------------------
(* Proofs about Field and Paths. *)
EXTENDS Field, SequenceTheorems, WellFoundedInduction, TLAPS

----------------------------------------------------------------------------
(* Numbers                                                                 *)

LEMMA MaxOfTwo ==
    ASSUME NEW a \in Int, NEW b \in Int
    PROVE  Max({a, b}) = IF a >= b THEN a ELSE b
<1> DEFINE m == IF a >= b THEN a ELSE b
<1>1. m \in {a, b} /\ \A y \in {a, b} : m >= y
  OBVIOUS
<1>2. \A x \in {a, b} : (\A y \in {a, b} : x >= y) => x = m
  OBVIOUS
<1> QED
  BY <1>1, <1>2 DEF Max

LEMMA MinOfTwo ==
    ASSUME NEW a \in Int, NEW b \in Int
    PROVE  Min({a, b}) = IF a <= b THEN a ELSE b
<1> DEFINE m == IF a <= b THEN a ELSE b
<1>1. m \in {a, b} /\ \A y \in {a, b} : m <= y
  OBVIOUS
<1>2. \A x \in {a, b} : (\A y \in {a, b} : x <= y) => x = m
  OBVIOUS
<1> QED
  BY <1>1, <1>2 DEF Min

\* Every set of integers that is bounded from below has a least element.
LEMMA LeastInteger ==
    ASSUME NEW T, NEW low \in Int, T # {}, \A x \in T : x \in Int /\ x >= low
    PROVE  \E x \in T : \A y \in T : x <= y
<1> DEFINE Less == OpToRel(<, Nat)
           S == {x - low : x \in T}
<1>1. IsWellFoundedOn(Less, Nat)
  BY NatLessThanWellFounded
<1>2. \A x, y \in Nat : <<x, y>> \in Less <=> x < y
  BY DEF OpToRel
<1>3. S \subseteq Nat /\ S # {}
  OBVIOUS
<1>4. PICK x \in T : \A y \in S : <<y, x - low>> \notin Less
  <2> HIDE DEF Less
  <2>1. \E z \in S : \A y \in S : <<y, z>> \notin Less
    <3> HIDE DEF S
    <3> QED
      BY <1>1, <1>3, WFMin
  <2> QED
    BY <2>1, Zenon
<1>5. \A y \in T : ~(y - low < x - low)
  <2> SUFFICES ASSUME NEW y \in T
               PROVE  ~(y - low < x - low)
    OBVIOUS
  <2>1. y - low \in Nat /\ x - low \in Nat /\ y - low \in S
    OBVIOUS
  <2> HIDE DEF Less, S
  <2> QED
    BY <2>1, <1>2, <1>4, Zenon
<1> QED
  BY <1>5

----------------------------------------------------------------------------
(* Tiles                                                                   *)

Rect(x1, x2, y1, y2) == {Point(x, y) : x \in x1..x2, y \in y1..y2}

LEMMA PointFields ==
    /\ \A x, y : Point(x, y).x = x /\ Point(x, y).y = y
    /\ \A x, y, v, w : Point(x, y) = Point(v, w) => x = v /\ y = w
BY DEF Point

LEMMA TileFormula ==
    ASSUME NEW p
    PROVE  TileFromPos(p) = Point(Max({0, Min({p.x \div 50, 19})}), Max({0, Min({p.y \div 50, 31})}))
<1>1. TileNumX - 1 = 19 /\ TileNumY - 1 = 31 /\ TileSize = 50
  BY DEF TileNumX, TileNumY, TileSize
<1> QED
  BY <1>1, Zenon DEF TileFromPos

LEMMA TileOfPoint ==
    ASSUME NEW i \in 0..19, NEW j \in 0..31, NEW x \in Int, NEW y \in Int,
           50 * i <= x, x < 50 * i + 50, 50 * j <= y, y < 50 * j + 50
    PROVE  TileFromPos(Point(x, y)) = Point(i, j)
<1>1. x \div 50 = i /\ y \div 50 = j
  OBVIOUS
<1> DEFINE p == Point(x, y)
<1>2. p.x = x /\ p.y = y
  BY PointFields
<1> HIDE DEF p
<1>3. TileFromPos(p) = Point(Max({0, Min({i, 19})}), Max({0, Min({j, 31})}))
  <2>1. p.x \div 50 = i /\ p.y \div 50 = j
    BY <1>1, <1>2, Zenon
  <2> QED
    BY <2>1, TileFormula, Zenon
<1>4. Min({i, 19}) = i /\ Min({j, 31}) = j /\ Max({0, i}) = i /\ Max({0, j}) = j
  BY MinOfTwo, MaxOfTwo
<1>5. TileFromPos(p) = Point(Max({0, i}), Max({0, j}))
  BY <1>3, <1>4
<1>6. TileFromPos(p) = Point(i, j)
  BY <1>4, <1>5
<1> QED
  BY <1>6 DEF p

LEMMA TileOfCentre ==
    ASSUME NEW x \in 0..19, NEW y \in 0..31
    PROVE  /\ PosFromTile(Point(x, y)) = Point(x * 50 + 25, y * 50 + 25)
           /\ TileFromPos(PosFromTile(Point(x, y))) = Point(x, y)
<1>1. PosFromTile(Point(x, y)) = Point(x * 50 + 25, y * 50 + 25)
  BY PointFields DEF PosFromTile, TileSize
<1> DEFINE v == x * 50 + 25
           w == y * 50 + 25
<1>2. /\ v \in Int /\ w \in Int
      /\ 50 * x <= v /\ v < 50 * x + 50 /\ 50 * y <= w /\ w < 50 * y + 50
  OBVIOUS
<1> HIDE DEF v, w
<1>3. TileFromPos(Point(v, w)) = Point(x, y)
  BY <1>2, TileOfPoint
<1> QED
  BY <1>1, <1>3 DEF v, w

\* Two rectangles of tiles without a tile in common lie beside or above each other.
LEMMA RectsApart ==
    ASSUME NEW a1 \in Int, NEW a2 \in Int, NEW b1 \in Int, NEW b2 \in Int,
           NEW c1 \in Int, NEW c2 \in Int, NEW d1 \in Int, NEW d2 \in Int,
           a1 <= a2, b1 <= b2, c1 <= c2, d1 <= d2,
           Rect(a1, a2, b1, b2) \cap Rect(c1, c2, d1, d2) = {}
    PROVE  a2 < c1 \/ c2 < a1 \/ b2 < d1 \/ d2 < b1
<1> SUFFICES ASSUME a2 >= c1, c2 >= a1, b2 >= d1, d2 >= b1
             PROVE  FALSE
  OBVIOUS
<1> DEFINE x == IF a1 >= c1 THEN a1 ELSE c1
           y == IF b1 >= d1 THEN b1 ELSE d1
<1>1. x \in a1..a2 /\ x \in c1..c2 /\ y \in b1..b2 /\ y \in d1..d2
  OBVIOUS
<1> HIDE DEF x, y
<1>2. Point(x, y) \in Rect(a1, a2, b1, b2) /\ Point(x, y) \in Rect(c1, c2, d1, d2)
  BY <1>1 DEF Rect
<1> QED
  BY <1>2

\* The body stands on the tiles, all of which are on the map.
Stands(body, tiles) ==
    \E x1, x2 \in 0..19, y1, y2 \in 0..31 :
        /\ x1 <= x2 /\ y1 <= y2
        /\ tiles = Rect(x1, x2, y1, y2)
        /\ body.l \in Int /\ body.r \in Int /\ body.t \in Int /\ body.b \in Int
        /\ body.l >= 50 * x1 /\ body.r <= 50 * x2 + 50
        /\ body.t >= 50 * y1 /\ body.b <= 50 * y2 + 50

BodiesOverlap(a, c) == ~(a.r <= c.l \/ c.r <= a.l \/ a.b <= c.t \/ c.b <= a.t)

LEMMA StandApart ==
    ASSUME NEW a, NEW c, NEW T, NEW U, Stands(a, T), Stands(c, U), T \cap U = {}
    PROVE  ~BodiesOverlap(a, c)
<1>1. PICK a1, a2 \in 0..19, b1, b2 \in 0..31 :
        /\ a1 <= a2 /\ b1 <= b2
        /\ T = Rect(a1, a2, b1, b2)
        /\ a.l \in Int /\ a.r \in Int /\ a.t \in Int /\ a.b \in Int
        /\ a.l >= 50 * a1 /\ a.r <= 50 * a2 + 50
        /\ a.t >= 50 * b1 /\ a.b <= 50 * b2 + 50
  BY DEF Stands
<1>2. PICK c1, c2 \in 0..19, d1, d2 \in 0..31 :
        /\ c1 <= c2 /\ d1 <= d2
        /\ U = Rect(c1, c2, d1, d2)
        /\ c.l \in Int /\ c.r \in Int /\ c.t \in Int /\ c.b \in Int
        /\ c.l >= 50 * c1 /\ c.r <= 50 * c2 + 50
        /\ c.t >= 50 * d1 /\ c.b <= 50 * d2 + 50
  BY DEF Stands
<1>3. a2 < c1 \/ c2 < a1 \/ b2 < d1 \/ d2 < b1
  BY <1>1, <1>2, RectsApart
<1> QED
  BY <1>1, <1>2, <1>3 DEF BodiesOverlap

LEMMA StandOnMap ==
    ASSUME NEW a, NEW T, Stands(a, T)
    PROVE  a.l >= 0 /\ a.r <= Width /\ a.t >= 0 /\ a.b <= Height
BY DEF Stands, Width, Height, TileSize, TileNumX, TileNumY

LEMMA RectOfSize ==
    ASSUME NEW x \in Int, NEW y \in Int
    PROVE  /\ RectTiles(Point(x, y), 1, 1) = Rect(x, x, y, y)
           /\ RectTiles(Point(x, y), 3, 3) = Rect(x - 1, x + 1, y - 1, y + 1)
           /\ RectTiles(Point(x, y), 4, 4) = Rect(x - 2, x + 1, y - 2, y + 1)
           /\ RectTiles(Point(x, y), 3, 2) = Rect(x - 1, x + 1, y - 1, y)
           /\ RectTiles(Point(x, y), 8, 2) = Rect(x - 4, x + 3, y - 1, y)
<1>1. \A nx, ny : RectTiles(Point(x, y), nx, ny) =
         Rect(x - nx \div 2, x + (nx + 1) \div 2 - 1, y - ny \div 2, y + (ny + 1) \div 2 - 1)
  BY PointFields, SMTT(30) DEF RectTiles, Rect
<1>2. RectTiles(Point(x, y), 1, 1) = Rect(x, x, y, y)
  BY <1>1
<1>3. RectTiles(Point(x, y), 3, 3) = Rect(x - 1, x + 1, y - 1, y + 1)
  BY <1>1
<1>4. RectTiles(Point(x, y), 4, 4) = Rect(x - 2, x + 1, y - 2, y + 1)
  BY <1>1
<1>5. RectTiles(Point(x, y), 3, 2) = Rect(x - 1, x + 1, y - 1, y)
  BY <1>1
<1>6. RectTiles(Point(x, y), 8, 2) = Rect(x - 4, x + 3, y - 1, y)
  BY <1>1
<1> QED
  BY <1>2, <1>3, <1>4, <1>5, <1>6

LEMMA MapSizes ==
    /\ Width = 1000 /\ Height = 1600 /\ CenterX = 500 /\ CenterY = 800
    /\ ShieldTop = 750 /\ ShieldBottom = 850
    /\ Holes.lefthole.l = 150 /\ Holes.lefthole.r = 300
    /\ Holes.righthole.l = 700 /\ Holes.righthole.r = 850
<1>1. Width = 1000 /\ Height = 1600
  BY DEF Width, Height, TileSize, TileNumX, TileNumY
<1>2. CenterX = 500 /\ CenterY = 800
  BY <1>1 DEF CenterX, CenterY
<1>3. ShieldTop = 750 /\ ShieldBottom = 850
  BY <1>1 DEF ShieldTop, ShieldBottom, TileSize
<1>4. /\ Holes.lefthole.l = 150 /\ Holes.lefthole.r = 300
      /\ Holes.righthole.l = 700 /\ Holes.righthole.r = 850
  BY <1>1 DEF Holes, TileSize
<1> QED
  BY <1>1, <1>2, <1>3, <1>4

LEMMA ShieldsAre ==
    /\ Shields = {[l |-> 0, r |-> 150], [l |-> 300, r |-> 700], [l |-> 850, r |-> 1000]}
BY MapSizes DEF Shields

\* The pixels of a knight at home, a square of 190
Home(team, side) ==
    CASE side = "Left" -> IF team = "Blue" THEN Point(200, 1350) ELSE Point(800, 250)
      [] side = "Center" -> IF team = "Blue" THEN Point(500, 1450) ELSE Point(500, 150)
      [] OTHER -> IF team = "Blue" THEN Point(800, 1350) ELSE Point(200, 250)

LEMMA KnightsAtHome ==
    \A team \in Teams, side \in Sides : KnightPos(team, side) = Home(team, side)
BY MapSizes DEF KnightPos, Home, Teams, Sides, ForTeam, Flip, initialKnightPosition, Point

LEMMA KnightRect ==
    ASSUME NEW team \in Teams, NEW side \in Sides
    PROVE  \E i \in 4..16, j \in {3, 5, 27, 29} :
               /\ KnightPos(team, side) = Point(50 * i, 50 * j)
               /\ KnightTiles[<<team, side>>] = Rect(i - 2, i + 1, j - 2, j + 1)
<1>1. PICK i \in 4..16, j \in {3, 5, 27, 29} : Home(team, side) = Point(50 * i, 50 * j)
  <2>1. /\ 50 * 4 = 200 /\ 50 * 10 = 500 /\ 50 * 16 = 800
        /\ 50 * 27 = 1350 /\ 50 * 29 = 1450 /\ 50 * 5 = 250 /\ 50 * 3 = 150
    OBVIOUS
  <2>2. side = "Left" \/ side = "Center" \/ side = "Right"
    BY DEF Sides
  <2>3. CASE side = "Left"
    BY <2>1, <2>3 DEF Home
  <2>4. CASE side = "Center"
    BY <2>1, <2>4 DEF Home
  <2>5. CASE side = "Right"
    BY <2>1, <2>5 DEF Home
  <2> QED
    BY <2>2, <2>3, <2>4, <2>5
<1> DEFINE p == Point(50 * i, 50 * j)
<1>2. TileFromPos(p) = Point(i, j)
  BY TileOfPoint
<1>3. KnightPos(team, side) = p
  BY <1>1, KnightsAtHome
<1>4. KnightTiles[<<team, side>>] = RectTiles(TileFromPos(p), 4, 4)
  BY <1>3 DEF KnightTiles, knightTileNum
<1>5. RectTiles(Point(i, j), 4, 4) = Rect(i - 2, i + 1, j - 2, j + 1)
  BY RectOfSize
<1>6. KnightTiles[<<team, side>>] = Rect(i - 2, i + 1, j - 2, j + 1)
  BY <1>2, <1>4, <1>5, Zenon
<1> QED
  BY <1>3, <1>6

LEMMA KnightStands ==
    ASSUME NEW team \in Teams, NEW side \in Sides
    PROVE  Stands(Body(KnightPos(team, side), KnightRadius), KnightTiles[<<team, side>>])
<1>1. PICK i \in 4..16, j \in {3, 5, 27, 29} :
          /\ KnightPos(team, side) = Point(50 * i, 50 * j)
          /\ KnightTiles[<<team, side>>] = Rect(i - 2, i + 1, j - 2, j + 1)
  BY KnightRect
<1> DEFINE i1 == i - 2  i2 == i + 1  j1 == j - 2  j2 == j + 1
           a == Body(KnightPos(team, side), KnightRadius)
<1>2. a.l = 50 * i - 95 /\ a.r = 50 * i + 95 /\ a.t = 50 * j - 95 /\ a.b = 50 * j + 95
  BY <1>1, PointFields DEF Body, KnightRadius
<1> HIDE DEF a
<1>3. /\ i1 \in 0..19 /\ i2 \in 0..19 /\ j1 \in 0..31 /\ j2 \in 0..31
      /\ i1 <= i2 /\ j1 <= j2
      /\ a.l \in Int /\ a.r \in Int /\ a.t \in Int /\ a.b \in Int
      /\ a.l >= 50 * i1 /\ a.r <= 50 * i2 + 50
      /\ a.t >= 50 * j1 /\ a.b <= 50 * j2 + 50
  BY <1>2
<1>4. KnightTiles[<<team, side>>] = Rect(i1, i2, j1, j2)
  BY <1>1
<1> HIDE DEF i1, i2, j1, j2
<1>5. Stands(a, Rect(i1, i2, j1, j2))
  BY <1>3 DEF Stands
<1> QED
  BY <1>4, <1>5, Zenon DEF a

LEMMA KnightsApart ==
    ASSUME NEW t1 \in Teams, NEW t2 \in Teams, NEW s1 \in Sides, NEW s2 \in Sides,
           t1 # t2 \/ s1 # s2
    PROVE  ~BodiesOverlap(Body(KnightPos(t1, s1), KnightRadius), Body(KnightPos(t2, s2), KnightRadius))
<1> DEFINE p == Home(t1, s1)
           q == Home(t2, s2)
<1>1. /\ p.x \in {200, 500, 800} /\ p.y \in {1350, 1450, 250, 150}
      /\ q.x \in {200, 500, 800} /\ q.y \in {1350, 1450, 250, 150}
  BY PointFields DEF Home, Teams, Sides
<1>2. (t1 = "Blue" <=> p.y > 800) /\ (t2 = "Blue" <=> q.y > 800)
  BY PointFields DEF Home, Teams, Sides
<1>3. t1 = t2 /\ s1 # s2 => p.x # q.x
  BY PointFields DEF Home, Teams, Sides
<1>4. KnightPos(t1, s1) = p /\ KnightPos(t2, s2) = q
  BY KnightsAtHome
<1> HIDE DEF p, q
<1>5. ~BodiesOverlap(Body(p, KnightRadius), Body(q, KnightRadius))
  <2>1. t1 = t2 => p.x # q.x
    BY <1>3
  <2>2. t1 # t2 => (p.y > 800 /\ q.y < 800) \/ (p.y < 800 /\ q.y > 800)
    BY <1>1, <1>2 DEF Teams
  <2> QED
    BY <1>1, <2>1, <2>2 DEF BodiesOverlap, Body, KnightRadius
<1> QED
  BY <1>4, <1>5

\* The shields stand on the obstacles of the map.
ShieldBody(s) == [l |-> s.l, r |-> s.r, t |-> ShieldTop, b |-> ShieldBottom]
ShieldTiles(s) ==
    RectTiles(TileFromPos(Point((s.l + s.r) \div 2, CenterY)), (s.r - s.l) \div TileSize,
              (ShieldBottom - ShieldTop) \div TileSize)

LEMMA ShieldStands ==
    ASSUME NEW s \in Shields
    PROVE  /\ Stands(ShieldBody(s), ShieldTiles(s)) /\ ShieldTiles(s) \subseteq Obstacles
           /\ \A t \in ShieldTiles(s) : t.y \in 15..16
<1>1. ShieldTiles(s) \subseteq Obstacles
  BY DEF Obstacles, ShieldTiles
<1>2. /\ ShieldBody(s).l = s.l /\ ShieldBody(s).r = s.r
      /\ ShieldBody(s).t = 750 /\ ShieldBody(s).b = 850
  BY MapSizes DEF ShieldBody
<1>3. (850 - 750) \div 50 = 2
  OBVIOUS
<1>4. ASSUME NEW x1 \in 0..19, NEW x2 \in 0..19, x1 <= x2, s.l = 50 * x1, s.r = 50 * x2 + 50,
             NEW m \in 0..999, m = (s.l + s.r) \div 2, NEW n, n = (s.r - s.l) \div 50,
             NEW i \in 0..19, 50 * i <= m, m < 50 * i + 50,
             RectTiles(Point(i, 16), n, 2) = Rect(x1, x2, 15, 16)
      PROVE  Stands(ShieldBody(s), ShieldTiles(s)) /\ \A t \in ShieldTiles(s) : t.y \in 15..16
  <2> DEFINE q == Point(m, 800)
  <2>1. TileFromPos(q) = Point(i, 16)
    <3>1. m \in Int /\ 50 * i <= m /\ m < 50 * i + 50
      BY <1>4
    <3>2. 16 \in 0..31 /\ 800 \in Int /\ 50 * 16 <= 800 /\ 800 < 50 * 16 + 50
      OBVIOUS
    <3> QED
      BY <3>1, <3>2, TileOfPoint
  <2>2. ShieldTiles(s) = RectTiles(TileFromPos(q), n, 2)
    <3>1. CenterY = 800 /\ TileSize = 50 /\ (ShieldBottom - ShieldTop) \div TileSize = 2
      BY <1>3, MapSizes DEF TileSize
    <3> QED
      BY <1>4, <3>1 DEF ShieldTiles
  <2> HIDE DEF q
  <2>3. ShieldTiles(s) = Rect(x1, x2, 15, 16)
    BY <1>4, <2>1, <2>2, Zenon
  <2> DEFINE a == ShieldBody(s)
  <2>4. /\ a.l \in Int /\ a.r \in Int /\ a.t \in Int /\ a.b \in Int
        /\ a.l >= 50 * x1 /\ a.r <= 50 * x2 + 50
        /\ a.t >= 50 * 15 /\ a.b <= 50 * 16 + 50
    BY <1>2, <1>4
  <2> HIDE DEF a
  <2>5. 15 \in 0..31 /\ 16 \in 0..31 /\ 15 <= 16
    OBVIOUS
  <2>6. Stands(a, Rect(x1, x2, 15, 16))
    BY <1>4, <2>4, <2>5 DEF Stands
  <2>7. \A t \in Rect(x1, x2, 15, 16) : t.y \in 15..16
    BY PointFields DEF Rect
  <2> QED
    BY <2>3, <2>6, <2>7 DEF a
<1>5. s = [l |-> 0, r |-> 150] \/ s = [l |-> 300, r |-> 700] \/ s = [l |-> 850, r |-> 1000]
  BY ShieldsAre
<1>6. CASE s = [l |-> 0, r |-> 150]
  <2>1. /\ 0 \in 0..19 /\ 2 \in 0..19 /\ 0 <= 2 /\ s.l = 50 * 0 /\ s.r = 50 * 2 + 50
        /\ 75 \in 0..999 /\ 75 = (s.l + s.r) \div 2 /\ 3 = (s.r - s.l) \div 50
        /\ 1 \in 0..19 /\ 50 * 1 <= 75 /\ 75 < 50 * 1 + 50
    BY <1>6
  <2>2. RectTiles(Point(1, 16), 3, 2) = Rect(0, 2, 15, 16)
    BY RectOfSize
  <2>4. Stands(ShieldBody(s), ShieldTiles(s)) /\ \A t \in ShieldTiles(s) : t.y \in 15..16
    BY <1>4, <2>1, <2>2
  <2> QED
    BY <1>1, <2>4
<1>7. CASE s = [l |-> 300, r |-> 700]
  <2>1. /\ 6 \in 0..19 /\ 13 \in 0..19 /\ 6 <= 13 /\ s.l = 50 * 6 /\ s.r = 50 * 13 + 50
        /\ 500 \in 0..999 /\ 500 = (s.l + s.r) \div 2 /\ 8 = (s.r - s.l) \div 50
        /\ 10 \in 0..19 /\ 50 * 10 <= 500 /\ 500 < 50 * 10 + 50
    BY <1>7
  <2>2. RectTiles(Point(10, 16), 8, 2) = Rect(6, 13, 15, 16)
    BY RectOfSize
  <2>4. Stands(ShieldBody(s), ShieldTiles(s)) /\ \A t \in ShieldTiles(s) : t.y \in 15..16
    BY <1>4, <2>1, <2>2
  <2> QED
    BY <1>1, <2>4
<1>8. CASE s = [l |-> 850, r |-> 1000]
  <2>1. /\ 17 \in 0..19 /\ 19 \in 0..19 /\ 17 <= 19 /\ s.l = 50 * 17 /\ s.r = 50 * 19 + 50
        /\ 925 \in 0..999 /\ 925 = (s.l + s.r) \div 2 /\ 3 = (s.r - s.l) \div 50
        /\ 18 \in 0..19 /\ 50 * 18 <= 925 /\ 925 < 50 * 18 + 50
    BY <1>8
  <2>2. RectTiles(Point(18, 16), 3, 2) = Rect(17, 19, 15, 16)
    BY RectOfSize
  <2>4. Stands(ShieldBody(s), ShieldTiles(s)) /\ \A t \in ShieldTiles(s) : t.y \in 15..16
    BY <1>4, <2>1, <2>2
  <2> QED
    BY <1>1, <2>4
<1> QED
  BY <1>5, <1>6, <1>7, <1>8

LEMMA ObstacleRows ==
    \A t \in Obstacles : t.y \in 15..16
BY ShieldStands, Zenon DEF Obstacles, ShieldTiles

\* No knight stands near the row of shields.
LEMMA KnightRows ==
    ASSUME NEW k \in Teams \X Sides, NEW t \in KnightTiles[k]
    PROVE  t.y \in Int /\ (t.y <= 6 \/ t.y >= 25)
<1>1. PICK team \in Teams, side \in Sides : k = <<team, side>>
  OBVIOUS
<1>2. PICK i \in 4..16, j \in {3, 5, 27, 29} : KnightTiles[k] = Rect(i - 2, i + 1, j - 2, j + 1)
  BY <1>1, KnightRect
<1>3. PICK x \in i - 2..i + 1, y \in j - 2..j + 1 : t = Point(x, y)
  BY <1>2 DEF Rect
<1>4. t.y = y
  BY <1>3, PointFields
<1> QED
  BY <1>3, <1>4

----------------------------------------------------------------------------
(* A free place                                                            *)

\* The first of some tiles in the order of the loops is one of them.
LEMMA FirstIsOne ==
    ASSUME NEW tiles, tiles # {}, NEW lx \in Int, NEW ly \in Int,
           \A t \in tiles : t.x \in Int /\ t.y \in Int /\ t.x >= lx /\ t.y >= ly
    PROVE  First(tiles) \in tiles
<1> DEFINE X == {t.x : t \in tiles}
<1>1. PICK x \in X : \A v \in X : x <= v
  <2>1. X # {} /\ \A v \in X : v \in Int /\ v >= lx
    OBVIOUS
  <2> HIDE DEF X
  <2> QED
    BY <2>1, LeastInteger
<1> DEFINE Y == {t.y : t \in {u \in tiles : u.x = x}}
<1>2. PICK y \in Y : \A v \in Y : y <= v
  <2>1. Y # {} /\ \A v \in Y : v \in Int /\ v >= ly
    OBVIOUS
  <2> HIDE DEF X, Y
  <2> QED
    BY <2>1, LeastInteger
<1>3. PICK t \in tiles : t.x = x /\ t.y = y
  OBVIOUS
<1>4. \A u \in tiles : t.x < u.x \/ (t.x = u.x /\ t.y <= u.y)
  <2> SUFFICES ASSUME NEW u \in tiles
               PROVE  x < u.x \/ (x = u.x /\ y <= u.y)
    BY <1>3
  <2>1. x <= u.x /\ x \in Int
    BY <1>1
  <2>2. CASE u.x = x
    <3>1. u.y \in Y
      BY <2>2
    <3>2. y <= u.y
      BY <1>2, <3>1
    <3> QED
      BY <2>2, <3>2
  <2>3. CASE u.x # x
    BY <2>1, <2>3
  <2> QED
    BY <2>2, <2>3
<1> HIDE DEF X, Y
<1> QED
  BY <1>3, <1>4 DEF First

\* What the search finds is a place in the valid part of the map where nothing stands.
LEMMA FoundIsFree ==
    ASSUME NEW team, NEW tile, tile.x \in Int, tile.y \in Int, NEW n,
           NEW t \in FindUnoccupiedTileRect(team, tile, n)
    PROVE  /\ \E x, y \in Int : t = Point(x, y)
           /\ TileRectValid(team, RectTiles(t, n, n)) /\ ~Occupied(RectTiles(t, n, n))
<1> DEFINE Room(u) == \E tiles \in {RectTiles(u, n, n)} : TileRectValid(team, tiles) /\ ~Occupied(tiles)
           Free(d) == {u \in Ring(tile, d) : Room(u)}
           distances == 0..maxTileFindDistance-1
           Closest == CHOOSE d \in distances : Free(d) # {} /\ \A e \in distances : e < d => Free(e) = {}
<1>1. FindUnoccupiedTileRect(team, tile, n) =
        IF \A d \in distances : Free(d) = {} THEN {} ELSE {First(Free(Closest))}
  BY Zenon DEF FindUnoccupiedTileRect
<1>2. ~(\A d \in distances : Free(d) = {}) /\ t = First(Free(Closest))
  <2> HIDE DEF Free, Closest, distances
  <2> QED
    BY <1>1, Zenon
<1>3. \E d \in distances : Free(d) # {} /\ \A e \in distances : e < d => Free(e) = {}
  <2> DEFINE D == {d \in distances : Free(d) # {}}
  <2> HIDE DEF Free, Closest
  <2>1. D # {} /\ \A d \in D : d \in Int /\ d >= 0
    BY <1>2 DEF maxTileFindDistance
  <2>2. \E d \in D : \A e \in D : d <= e
    <3> HIDE DEF D
    <3> QED
      BY <2>1, LeastInteger
  <2>3. PICK d \in D : \A e \in D : d <= e
    BY <2>2
  <2>4. \A e \in distances : e < d => Free(e) = {}
    BY <2>3
  <2> QED
    BY <2>3, <2>4
<1>4. Closest \in distances /\ Free(Closest) # {}
  <2> HIDE DEF Free, distances
  <2> QED
    BY <1>3
<1>5. Closest \in Int
  <2> HIDE DEF Closest, Free
  <2> QED
    BY <1>4 DEF maxTileFindDistance
<1> HIDE DEF Closest
<1>6. ASSUME NEW u \in Free(Closest)
      PROVE  \E x, y \in Int : u = Point(x, y) /\ x >= tile.x - Closest /\ y >= tile.y - Closest
  <2> HIDE DEF Room
  <2>1. u \in Ring(tile, Closest)
    OBVIOUS
  <2> QED
    BY <1>5, <2>1 DEF Ring
<1>7. First(Free(Closest)) \in Free(Closest)
  <2> DEFINE F == Free(Closest)
  <2>1. \A u \in F : /\ u.x \in Int /\ u.y \in Int
                     /\ u.x >= tile.x - Closest /\ u.y >= tile.y - Closest
    BY <1>6, PointFields
  <2>2. tile.x - Closest \in Int /\ tile.y - Closest \in Int
    BY <1>5
  <2>3. F # {}
    BY <1>4
  <2> HIDE DEF F
  <2>4. First(F) \in F
    BY <2>1, <2>2, <2>3, FirstIsOne
  <2> QED
    BY <2>4 DEF F
<1>8. t \in Free(Closest)
  BY <1>2, <1>7, Zenon
<1>9. \E x, y \in Int : t = Point(x, y)
  BY <1>6, <1>8
<1>10. Room(t)
  BY <1>8
<1> QED
  BY <1>9, <1>10

----------------------------------------------------------------------------
(* Bodies stay apart                                                       *)

\* A building stands in the middle of three by three tiles of the map.
OnTiles(b) == \E x \in 1..18, y \in 1..30 : b.pos = PosFromTile(Point(x, y))

\* Every building is on tiles of its own.
Apart ==
    /\ \A b \in buildings : OnTiles(b)
    /\ \A b \in buildings : BuildingTiles(b) \cap Obstacles = {}
    /\ \A b \in buildings, k \in Knights : BuildingTiles(b) \cap KnightTiles[k] = {}
    /\ \A b, c \in buildings : b = c \/ BuildingTiles(b) \cap BuildingTiles(c) = {}

LEMMA TilesOfBuilding ==
    ASSUME NEW b, NEW x \in 1..18, NEW y \in 1..30, b.pos = PosFromTile(Point(x, y))
    PROVE  /\ b.pos = Point(x * 50 + 25, y * 50 + 25)
           /\ BuildingTiles(b) = RectTiles(Point(x, y), BuildingTileNum, BuildingTileNum)
           /\ BuildingTiles(b) = Rect(x - 1, x + 1, y - 1, y + 1)
<1>1. b.pos = Point(x * 50 + 25, y * 50 + 25) /\ TileFromPos(b.pos) = Point(x, y)
  BY TileOfCentre
<1>2. BuildingTiles(b) = RectTiles(Point(x, y), BuildingTileNum, BuildingTileNum)
  BY <1>1, Zenon DEF BuildingTiles
<1>3. RectTiles(Point(x, y), BuildingTileNum, BuildingTileNum) = Rect(x - 1, x + 1, y - 1, y + 1)
  BY RectOfSize DEF BuildingTileNum
<1> QED
  BY <1>1, <1>2, <1>3

LEMMA BuildingStands ==
    ASSUME NEW b, OnTiles(b)
    PROVE  Stands(Body(b.pos, BuildingRadius), BuildingTiles(b))
<1>1. PICK x \in 1..18, y \in 1..30 : b.pos = PosFromTile(Point(x, y))
  BY DEF OnTiles
<1>2. /\ b.pos = Point(x * 50 + 25, y * 50 + 25)
      /\ BuildingTiles(b) = Rect(x - 1, x + 1, y - 1, y + 1)
  BY <1>1, TilesOfBuilding
<1> DEFINE i1 == x - 1  i2 == x + 1  j1 == y - 1  j2 == y + 1
           a == Body(b.pos, BuildingRadius)
<1>3. a.l = 50 * x - 35 /\ a.r = 50 * x + 85 /\ a.t = 50 * y - 35 /\ a.b = 50 * y + 85
  BY <1>2, PointFields DEF Body, BuildingRadius
<1> HIDE DEF a
<1>4. /\ i1 \in 0..19 /\ i2 \in 0..19 /\ j1 \in 0..31 /\ j2 \in 0..31
      /\ i1 <= i2 /\ j1 <= j2
      /\ a.l \in Int /\ a.r \in Int /\ a.t \in Int /\ a.b \in Int
      /\ a.l >= 50 * i1 /\ a.r <= 50 * i2 + 50
      /\ a.t >= 50 * j1 /\ a.b <= 50 * j2 + 50
  BY <1>3
<1>5. BuildingTiles(b) = Rect(i1, i2, j1, j2)
  BY <1>2
<1> HIDE DEF i1, i2, j1, j2
<1>6. Stands(a, Rect(i1, i2, j1, j2))
  BY <1>4 DEF Stands
<1> QED
  BY <1>5, <1>6, Zenon DEF a

LEMMA ApartEnough ==
    ASSUME Apart
    PROVE  BodiesApart
<1> DEFINE KB(k) == Body(KnightPos(k[1], k[2]), KnightRadius)
           BB(b) == Body(b.pos, BuildingRadius)
<1>1. \A k \in Knights : Stands(KB(k), KnightTiles[k])
  <2> SUFFICES ASSUME NEW k \in Knights
               PROVE  Stands(KB(k), KnightTiles[k])
    OBVIOUS
  <2>1. PICK team \in Teams, side \in Sides : k = <<team, side>>
    BY DEF Knights
  <2> QED
    BY <2>1, KnightStands
<1>2. \A b \in buildings : Stands(BB(b), BuildingTiles(b))
  BY BuildingStands DEF Apart
<1>3. \A s \in Shields : Stands(ShieldBody(s), ShieldTiles(s)) /\ ShieldTiles(s) \subseteq Obstacles
  BY ShieldStands
<1>4. \A a \in Bodies : \/ \E k \in Knights : a = KB(k)
                        \/ \E b \in buildings : a = BB(b)
                        \/ \E s \in Shields : a = ShieldBody(s)
  BY DEF Bodies, ShieldBody
<1>5. \A k, j \in Knights : k = j \/ ~BodiesOverlap(KB(k), KB(j))
  <2> SUFFICES ASSUME NEW k \in Knights, NEW j \in Knights, k # j
               PROVE  ~BodiesOverlap(KB(k), KB(j))
    OBVIOUS
  <2>1. PICK t1 \in Teams, s1 \in Sides : k = <<t1, s1>>
    BY DEF Knights
  <2>2. PICK t2 \in Teams, s2 \in Sides : j = <<t2, s2>>
    BY DEF Knights
  <2>3. t1 # t2 \/ s1 # s2
    BY <2>1, <2>2
  <2> QED
    BY <2>1, <2>2, <2>3, KnightsApart
<1>6. \A k \in Knights, b \in buildings : ~BodiesOverlap(KB(k), BB(b)) /\ ~BodiesOverlap(BB(b), KB(k))
  <2> SUFFICES ASSUME NEW k \in Knights, NEW b \in buildings
               PROVE  ~BodiesOverlap(KB(k), BB(b)) /\ ~BodiesOverlap(BB(b), KB(k))
    OBVIOUS
  <2> DEFINE T == KnightTiles[k]  U == BuildingTiles(b)
  <2>1. U \cap T = {} /\ T \cap U = {}
    BY DEF Apart
  <2>2. Stands(KB(k), T) /\ Stands(BB(b), U)
    BY <1>1, <1>2
  <2> HIDE DEF T, U, KB, BB
  <2> QED
    BY <2>1, <2>2, StandApart
<1>7. \A b, c \in buildings : b = c \/ ~BodiesOverlap(BB(b), BB(c))
  <2> SUFFICES ASSUME NEW b \in buildings, NEW c \in buildings, b # c
               PROVE  ~BodiesOverlap(BB(b), BB(c))
    OBVIOUS
  <2>1. BuildingTiles(b) \cap BuildingTiles(c) = {}
    BY DEF Apart
  <2> HIDE DEF KB, BB
  <2> QED
    BY <1>2, <2>1, StandApart
<1>8. \A s \in Shields, b \in buildings :
          ~BodiesOverlap(ShieldBody(s), BB(b)) /\ ~BodiesOverlap(BB(b), ShieldBody(s))
  <2> SUFFICES ASSUME NEW s \in Shields, NEW b \in buildings
               PROVE  ~BodiesOverlap(ShieldBody(s), BB(b)) /\ ~BodiesOverlap(BB(b), ShieldBody(s))
    OBVIOUS
  <2> DEFINE T == ShieldTiles(s)  U == BuildingTiles(b)
  <2>1. U \cap T = {} /\ T \cap U = {}
    BY <1>3 DEF Apart
  <2>2. Stands(ShieldBody(s), T) /\ Stands(BB(b), U)
    BY <1>2, <1>3
  <2> HIDE DEF T, U, KB, BB
  <2> QED
    BY <2>1, <2>2, StandApart
<1>9. \A s \in Shields, k \in Knights :
          ~BodiesOverlap(ShieldBody(s), KB(k)) /\ ~BodiesOverlap(KB(k), ShieldBody(s))
  <2> SUFFICES ASSUME NEW s \in Shields, NEW k \in Knights
               PROVE  ~BodiesOverlap(ShieldBody(s), KB(k)) /\ ~BodiesOverlap(KB(k), ShieldBody(s))
    OBVIOUS
  <2>1. PICK team \in Teams, side \in Sides : k = <<team, side>>
    BY DEF Knights
  <2>2. PICK i \in 4..16, j \in {3, 5, 27, 29} : KnightPos(team, side) = Point(50 * i, 50 * j)
    BY KnightRect
  <2>3. KB(k).t = 50 * j - 95 /\ KB(k).b = 50 * j + 95
    BY <2>1, <2>2, PointFields DEF Body, KnightRadius
  <2>4. ShieldBody(s).t = 750 /\ ShieldBody(s).b = 850
    BY MapSizes DEF ShieldBody
  <2> HIDE DEF KB
  <2> QED
    BY <2>3, <2>4 DEF BodiesOverlap
<1>10. \A s, r \in Shields : s = r \/ ~BodiesOverlap(ShieldBody(s), ShieldBody(r))
  BY ShieldsAre DEF BodiesOverlap, ShieldBody
<1> HIDE DEF KB, BB
<1>11. \A a, c \in Bodies : a = c \/ ~BodiesOverlap(a, c)
  BY <1>4, <1>5, <1>6, <1>7, <1>8, <1>9, <1>10
<1>12. \A a \in Bodies : a.l >= 0 /\ a.r <= Width /\ a.t >= 0 /\ a.b <= Height
  BY <1>1, <1>2, <1>3, <1>4, StandOnMap
<1> QED
  BY <1>11, <1>12 DEF BodiesApart, BodiesOverlap

\* The cannons of an archsapper stand apart.
LEMMA CannonsOnTiles ==
    ASSUME NEW team \in Teams, NEW b \in ReadyCannons(team)
    PROVE  \E x \in {6, 13}, y \in {21, 10} :
               /\ b = Building(team, PosFromTile(Point(x, y)), TRUE)
               /\ b.pos = PosFromTile(Point(x, y))
               /\ (team = "Blue" <=> y = 21)
<1> DEFINE near == Point(325, 1075)
           far == Point(675, 1075)
<1>1. /\ PosFromTile(Point(6, 21)) = near /\ PosFromTile(Point(13, 21)) = far
      /\ PosFromTile(Point(13, 10)) = Point(675, 525) /\ PosFromTile(Point(6, 10)) = Point(325, 525)
  BY DEF PosFromTile, Point, TileSize
<1>2. Flip(near) = Point(675, 525) /\ Flip(far) = Point(325, 525)
  BY MapSizes, PointFields DEF Flip
<1>3. PICK p \in {near, far} : b = Building(team, ForTeam(team, p, Flip(p)), TRUE)
  <2>1. ReadyCannons(team) = {Building(team, ForTeam(team, p, Flip(p)), TRUE) : p \in {near, far}}
    BY DEF ReadyCannons
  <2> HIDE DEF near, far
  <2> QED
    BY <2>1
<1> HIDE DEF near, far
<1>4. b.pos = ForTeam(team, p, Flip(p))
  BY <1>3 DEF Building
<1>5. PICK x \in {6, 13}, y \in {21, 10} :
          ForTeam(team, p, Flip(p)) = PosFromTile(Point(x, y)) /\ (team = "Blue" <=> y = 21)
  <2>1. CASE team = "Blue"
    <3>1. ForTeam(team, p, Flip(p)) = p
      BY <2>1 DEF ForTeam
    <3>2. \E x \in {6, 13} : p = PosFromTile(Point(x, 21))
      BY <1>1
    <3> QED
      BY <2>1, <3>1, <3>2
  <2>2. CASE team = "Red"
    <3>1. ForTeam(team, p, Flip(p)) = Flip(p)
      BY <2>2 DEF ForTeam
    <3>2. \E x \in {6, 13} : Flip(p) = PosFromTile(Point(x, 10))
      BY <1>1, <1>2
    <3> QED
      BY <2>2, <3>1, <3>2
  <2> QED
    BY <2>1, <2>2 DEF Teams
<1> QED
  BY <1>3, <1>4, <1>5

LEMMA InitApart ==
    ASSUME Init
    PROVE  Apart
<1>1. PICK teams \in Sappers : buildings = UNION {ReadyCannons(t) : t \in teams}
  BY DEF Init
<1>2. teams \subseteq Teams
  BY FieldAssumption
<1>3. ASSUME NEW b \in buildings
      PROVE  \E team \in Teams, x \in {6, 13}, y \in {21, 10} :
                 /\ b = Building(team, PosFromTile(Point(x, y)), TRUE)
                 /\ b.pos = PosFromTile(Point(x, y))
                 /\ (team = "Blue" <=> y = 21)
  <2>1. PICK team \in teams : b \in ReadyCannons(team)
    BY <1>1
  <2> QED
    BY <1>2, <2>1, CannonsOnTiles
<1>4. ASSUME NEW b, NEW x \in {6, 13}, NEW y \in {21, 10}, b.pos = PosFromTile(Point(x, y))
      PROVE  OnTiles(b) /\ BuildingTiles(b) = Rect(x - 1, x + 1, y - 1, y + 1)
  <2>1. x \in 1..18 /\ y \in 1..30
    OBVIOUS
  <2> QED
    BY <1>4, <2>1, TilesOfBuilding DEF OnTiles
<1>5. ASSUME NEW x \in {6, 13}, NEW y \in {21, 10}, NEW t \in Rect(x - 1, x + 1, y - 1, y + 1)
      PROVE  /\ t.x \in x - 1..x + 1 /\ t.y \in y - 1..y + 1
             /\ ~(t.y \in 15..16) /\ ~(t.y <= 6 \/ t.y >= 25)
  BY PointFields DEF Rect
<1>6. \A b \in buildings : OnTiles(b)
  BY <1>3, <1>4
<1>7. \A b \in buildings : BuildingTiles(b) \cap Obstacles = {}
  <2> SUFFICES ASSUME NEW b \in buildings, NEW t \in BuildingTiles(b), t \in Obstacles
               PROVE  FALSE
    OBVIOUS
  <2>1. PICK x \in {6, 13}, y \in {21, 10} : b.pos = PosFromTile(Point(x, y))
    BY <1>3
  <2>2. ~(t.y \in 15..16)
    BY <1>4, <1>5, <2>1
  <2> QED
    BY <2>2, ObstacleRows
<1>8. \A b \in buildings, k \in Knights : BuildingTiles(b) \cap KnightTiles[k] = {}
  <2> SUFFICES ASSUME NEW b \in buildings, NEW k \in Knights, NEW t \in BuildingTiles(b), t \in KnightTiles[k]
               PROVE  FALSE
    OBVIOUS
  <2>1. PICK x \in {6, 13}, y \in {21, 10} : b.pos = PosFromTile(Point(x, y))
    BY <1>3
  <2>2. ~(t.y <= 6 \/ t.y >= 25)
    BY <1>4, <1>5, <2>1
  <2>3. k \in Teams \X Sides
    BY DEF Knights
  <2> QED
    BY <2>2, <2>3, KnightRows
<1>9. \A b, c \in buildings : b = c \/ BuildingTiles(b) \cap BuildingTiles(c) = {}
  <2> SUFFICES ASSUME NEW b \in buildings, NEW c \in buildings,
                      NEW t \in BuildingTiles(b), t \in BuildingTiles(c)
               PROVE  b = c
    OBVIOUS
  <2>1. PICK t1 \in Teams, x1 \in {6, 13}, y1 \in {21, 10} :
          /\ b = Building(t1, PosFromTile(Point(x1, y1)), TRUE)
          /\ b.pos = PosFromTile(Point(x1, y1))
          /\ (t1 = "Blue" <=> y1 = 21)
    BY <1>3
  <2>2. PICK t2 \in Teams, x2 \in {6, 13}, y2 \in {21, 10} :
          /\ c = Building(t2, PosFromTile(Point(x2, y2)), TRUE)
          /\ c.pos = PosFromTile(Point(x2, y2))
          /\ (t2 = "Blue" <=> y2 = 21)
    BY <1>3
  <2>3. t.x \in x1 - 1..x1 + 1 /\ t.y \in y1 - 1..y1 + 1
    BY <1>4, <1>5, <2>1
  <2>4. t.x \in x2 - 1..x2 + 1 /\ t.y \in y2 - 1..y2 + 1
    BY <1>4, <1>5, <2>2
  <2>5. x1 = x2 /\ y1 = y2
    BY <2>3, <2>4
  <2>6. t1 = t2
    BY <2>1, <2>2, <2>5 DEF Teams
  <2> QED
    BY <2>1, <2>2, <2>5, <2>6
<1> QED
  BY <1>6, <1>7, <1>8, <1>9 DEF Apart

\* A rectangle of three by three valid tiles has a tile around its middle on all sides.
LEMMA ValidMiddle ==
    ASSUME NEW team, NEW x \in Int, NEW y \in Int,
           TileRectValid(team, RectTiles(Point(x, y), 3, 3))
    PROVE  x \in 1..18 /\ y \in 1..30
<1>1. \A t \in Rect(x - 1, x + 1, y - 1, y + 1) : TileValid(team, t)
  BY RectOfSize DEF TileRectValid
<1>2. TileNumX = 20 /\ TileNumY = 32
  BY DEF TileNumX, TileNumY
<1>3. ASSUME NEW v \in Int, NEW w \in Int, TileValid(team, Point(v, w))
      PROVE  v \in 0..19 /\ w \in 0..31
  <2> DEFINE t == ForTeam(team, Point(v, w), FlipTile(Point(v, w)))
  <2>1. t.x \in 0..19 /\ t.y \in 0..31
    BY <1>2, <1>3 DEF TileValid
  <2>2. t = Point(v, w) \/ t = Point(19 - v, 31 - w)
    BY <1>2, PointFields DEF ForTeam, FlipTile
  <2> HIDE DEF t
  <2> QED
    BY <2>1, <2>2, PointFields
<1>4. Point(x - 1, y - 1) \in Rect(x - 1, x + 1, y - 1, y + 1)
  BY DEF Rect
<1>5. Point(x + 1, y + 1) \in Rect(x - 1, x + 1, y - 1, y + 1)
  BY DEF Rect
<1>6. x - 1 \in 0..19 /\ y - 1 \in 0..31
  BY <1>1, <1>3, <1>4
<1>7. x + 1 \in 0..19 /\ y + 1 \in 0..31
  BY <1>1, <1>3, <1>5
<1> QED
  BY <1>6, <1>7

LEMMA BuildStaysApart ==
    ASSUME Apart, NEW team, NEW tile, tile.x \in Int, tile.y \in Int, PlayBuilding(team, tile)
    PROVE  Apart'
<1>1. PICK at \in PlayedAt(team, tile, 3) :
        buildings' = buildings \cup {Building(team, PosFromTile(at), FALSE)}
  BY DEF PlayBuilding, BuildingTileNum
<1>2. at \in FindUnoccupiedTileRect(team, tile, 3)
  BY DEF PlayedAt
<1>3. PICK x, y \in Int : at = Point(x, y)
  BY <1>2, FoundIsFree
<1>4. TileRectValid(team, RectTiles(at, 3, 3)) /\ ~Occupied(RectTiles(at, 3, 3))
  BY <1>2, FoundIsFree
<1>5. x \in 1..18 /\ y \in 1..30
  BY <1>3, <1>4, ValidMiddle
<1> DEFINE n == Building(team, PosFromTile(at), FALSE)
<1>6. n.pos = PosFromTile(Point(x, y))
  BY <1>3 DEF Building
<1>7. BuildingTiles(n) = RectTiles(at, 3, 3)
  BY <1>3, <1>5, <1>6, TilesOfBuilding DEF BuildingTileNum
<1>8. OnTiles(n)
  BY <1>5, <1>6 DEF OnTiles
<1>9. buildings' = buildings \cup {n}
  BY <1>1
<1> HIDE DEF n
<1>10. /\ BuildingTiles(n) \cap Obstacles = {}
       /\ \A k \in Knights : BuildingTiles(n) \cap KnightTiles[k] = {}
       /\ \A b \in buildings : BuildingTiles(n) \cap BuildingTiles(b) = {}
  BY <1>4, <1>7 DEF Occupied
<1>11. Knights' = Knights
  BY DEF PlayBuilding, Knights
<1>12. /\ \A b \in buildings' : OnTiles(b)
       /\ \A b \in buildings' : BuildingTiles(b) \cap Obstacles = {}
  BY <1>8, <1>9, <1>10 DEF Apart
<1>13. \A b \in buildings', k \in Knights' : BuildingTiles(b) \cap KnightTiles[k] = {}
  BY <1>9, <1>10, <1>11 DEF Apart
<1>14. \A b, c \in buildings' : b = c \/ BuildingTiles(b) \cap BuildingTiles(c) = {}
  <2>1. \A b \in buildings : BuildingTiles(b) \cap BuildingTiles(n) = {}
    BY <1>10
  <2> QED
    BY <1>9, <1>10, <2>1 DEF Apart
<1> QED
  BY <1>12, <1>13, <1>14 DEF Apart

LEMMA FewerStayApart ==
    ASSUME Apart, buildings' \subseteq buildings, Knights' \subseteq Knights
    PROVE  Apart'
BY DEF Apart

LEMMA AskedInside ==
    ASSUME NEW tile \in AskedTiles, NEW team \in Teams
    PROVE  /\ ForTeam(team, tile, FlipTile(tile)).x \in Int
           /\ ForTeam(team, tile, FlipTile(tile)).y \in Int
BY FieldAssumption, PointFields DEF ForTeam, FlipTile, TileNumX, TileNumY

LEMMA StepApart ==
    ASSUME Apart, [Next]_vars
    PROVE  Apart'
<1>1. CASE UNCHANGED vars
  BY <1>1, FewerStayApart DEF vars, Knights
<1>2. ASSUME NEW team \in Teams, NEW tile \in AskedTiles,
             PlayBuilding(team, ForTeam(team, tile, FlipTile(tile)))
      PROVE  Apart'
  BY <1>2, AskedInside, BuildStaysApart
<1>3. ASSUME NEW team, NEW tile, PlaySquire(team, tile)
      PROVE  Apart'
  BY <1>3, FewerStayApart DEF PlaySquire, Knights
<1>4. ASSUME NEW team, NEW side, OnKnightDead(team, side)
      PROVE  Apart'
  BY <1>4, FewerStayApart DEF OnKnightDead, Knights
<1>5. ASSUME NEW b, Destroy(b)
      PROVE  Apart'
  BY <1>5, FewerStayApart DEF Destroy, Knights
<1>6. CASE Walk
  BY <1>6, FewerStayApart DEF Walk, Knights
<1> QED
  BY <1>1, <1>2, <1>3, <1>4, <1>5, <1>6 DEF Next

\* Whatever the players build and whatever dies, no two of the bodies that stand on tiles
\* overlap, and all of them are on the map.
THEOREM BodiesStayApart == Spec => []BodiesApart
<1>1. Init => Apart
  BY InitApart
<1>2. Apart /\ [Next]_vars => Apart'
  BY StepApart
<1>3. Apart => BodiesApart
  BY ApartEnough
<1> QED
  BY <1>1, <1>2, <1>3, PTL DEF Spec

----------------------------------------------------------------------------
(* The funnel                                                              *)

Points == [x : Int, y : Int]

LEMMA PointIsPoint ==
    /\ \A x, y \in Int : Point(x, y) \in Points
    /\ \A p \in Points : p.x \in Int /\ p.y \in Int /\ p = Point(p.x, p.y)
BY DEF Points, Point

\* Seen from s, b lies to the right of a (> 0), to the left of it (< 0), or behind it.
Turn(s, a, b) == Cross(Minus(a, s), Minus(b, s))

LEMMA TurnBehind ==
    ASSUME NEW s \in Points, NEW a \in Points
    PROVE  Turn(s, a, a) = 0
<1>1. s.x \in Int /\ s.y \in Int /\ a.x \in Int /\ a.y \in Int
  BY PointIsPoint
<1> DEFINE v == a.x - s.x  w == a.y - s.y
<1>2. Turn(s, a, a) = v * w - w * v
  BY PointFields DEF Turn, Cross, Minus
<1>3. v \in Int /\ w \in Int
  BY <1>1
<1> HIDE DEF v, w
<1> QED
  BY <1>2, <1>3

Leads(path, start, funnel) ==
    funnel = [i \in 1..Len(path) |->
                IF i = 1 THEN [found |-> FALSE, left |-> path[1].left, right |-> path[1].right]
                ELSE Narrow(start, funnel[i - 1], path[i])]

LEMMA CornerOfFunnel ==
    ASSUME NEW path, NEW start, NEW g, Leads(path, start, g)
    PROVE  \E f : Leads(path, start, f) /\ NextCornerInPath(path, start) = f[Len(path)].left
<1> DEFINE f == CHOOSE h : h = [i \in 1..Len(path) |->
                IF i = 1 THEN [found |-> FALSE, left |-> path[1].left, right |-> path[1].right]
                ELSE Narrow(start, h[i - 1], path[i])]
<1>1. NextCornerInPath(path, start) = f[Len(path)].left
  BY Zenon DEF NextCornerInPath
<1>2. f = CHOOSE h : Leads(path, start, h)
  BY Zenon DEF Leads
<1> HIDE DEF f
<1>3. Leads(path, start, f)
  BY <1>2, Zenon
<1> QED
  BY <1>1, <1>3, Zenon

\* The funnel of two portals, and of three
LEMMA FunnelOfTwo ==
    ASSUME NEW P, NEW Q, NEW s
    PROVE  NextCornerInPath(<<P, Q>>, s) =
             Narrow(s, [found |-> FALSE, left |-> P.left, right |-> P.right], Q).left
<1> DEFINE path == <<P, Q>>
           a == [found |-> FALSE, left |-> P.left, right |-> P.right]
           b == Narrow(s, a, Q)
           g == [i \in {1, 2} |-> IF i = 1 THEN a ELSE b]
<1>1. Len(path) = 2 /\ path[1] = P /\ path[2] = Q /\ 1..Len(path) = {1, 2}
  OBVIOUS
<1>2. Leads(path, s, g)
  <2>1. g = [i \in {1, 2} |-> IF i = 1 THEN a ELSE b]
    BY Zenon
  <2>2. \A i \in {1, 2} : i # 1 => Narrow(s, g[i - 1], path[i]) = b
    <3>1. g[2 - 1] = a
      OBVIOUS
    <3> QED
      BY <1>1, <3>1
  <2> HIDE DEF path, a, b, g
  <2>3. g = [i \in 1..Len(path) |-> IF i = 1 THEN a ELSE Narrow(s, g[i - 1], path[i])]
    BY <1>1, <2>1, <2>2
  <2> QED
    BY <1>1, <2>3 DEF Leads, a
<1> HIDE DEF path, g
<1>3. PICK f : Leads(path, s, f) /\ NextCornerInPath(path, s) = f[Len(path)].left
  BY <1>2, CornerOfFunnel
<1>4. f[1] = a /\ f[2] = Narrow(s, f[1], path[2])
  <2> DEFINE e(i) == IF i = 1 THEN a ELSE Narrow(s, f[i - 1], path[i])
  <2>1. a = [found |-> FALSE, left |-> path[1].left, right |-> path[1].right]
    BY <1>1
  <2> HIDE DEF a
  <2>2. f = [i \in 1..Len(path) |-> e(i)]
    BY <1>3, <2>1, Zenon DEF Leads
  <2> HIDE DEF e
  <2>3. \A i \in {1, 2} : f[i] = e(i)
    BY <1>1, <2>2
  <2>4. 2 - 1 = 1 /\ 3 - 1 = 2
    OBVIOUS
  <2> QED
    BY <2>3, <2>4 DEF e
<1> HIDE DEF a
<1>5. NextCornerInPath(path, s) = Narrow(s, a, Q).left
  BY <1>1, <1>3, <1>4
<1> QED
  BY <1>5 DEF path, a

LEMMA FunnelOfThree ==
    ASSUME NEW P, NEW Q, NEW R, NEW s
    PROVE  NextCornerInPath(<<P, Q, R>>, s) =
             Narrow(s, Narrow(s, [found |-> FALSE, left |-> P.left, right |-> P.right], Q), R).left
<1> DEFINE path == <<P, Q, R>>
           a == [found |-> FALSE, left |-> P.left, right |-> P.right]
           b == Narrow(s, a, Q)
           c == Narrow(s, b, R)
           g == [i \in {1, 2, 3} |-> IF i = 1 THEN a ELSE IF i = 2 THEN b ELSE c]
<1>1. Len(path) = 3 /\ path[1] = P /\ path[2] = Q /\ path[3] = R /\ 1..Len(path) = {1, 2, 3}
  OBVIOUS
<1>2. Leads(path, s, g)
  <2>1. g = [i \in {1, 2, 3} |-> IF i = 1 THEN a ELSE IF i = 2 THEN b ELSE c]
    BY Zenon
  <2>2. \A i \in {1, 2, 3} : i # 1 => Narrow(s, g[i - 1], path[i]) = IF i = 2 THEN b ELSE c
    <3>1. g[2 - 1] = a /\ g[3 - 1] = b
      OBVIOUS
    <3> HIDE DEF path, g
    <3> QED
      BY <1>1, <3>1
  <2> HIDE DEF path, a, b, c, g
  <2>3. g = [i \in 1..Len(path) |-> IF i = 1 THEN a ELSE Narrow(s, g[i - 1], path[i])]
    BY <1>1, <2>1, <2>2
  <2> QED
    BY <1>1, <2>3 DEF Leads, a
<1> HIDE DEF path, g
<1>3. PICK f : Leads(path, s, f) /\ NextCornerInPath(path, s) = f[Len(path)].left
  BY <1>2, CornerOfFunnel
<1>4. f[1] = a /\ f[2] = Narrow(s, f[1], path[2]) /\ f[3] = Narrow(s, f[2], path[3])
  <2> DEFINE e(i) == IF i = 1 THEN a ELSE Narrow(s, f[i - 1], path[i])
  <2>1. a = [found |-> FALSE, left |-> path[1].left, right |-> path[1].right]
    BY <1>1
  <2> HIDE DEF a
  <2>2. f = [i \in 1..Len(path) |-> e(i)]
    BY <1>3, <2>1, Zenon DEF Leads
  <2> HIDE DEF e
  <2>3. \A i \in {1, 2, 3} : f[i] = e(i)
    BY <1>1, <2>2
  <2>4. 2 - 1 = 1 /\ 3 - 1 = 2
    OBVIOUS
  <2> QED
    BY <2>3, <2>4 DEF e
<1> HIDE DEF a
<1>5. NextCornerInPath(path, s) = Narrow(s, Narrow(s, a, Q), R).left
  BY <1>1, <1>3, <1>4
<1> QED
  BY <1>5 DEF path, a

LEMMA FunnelOfOne ==
    ASSUME NEW P, NEW s
    PROVE  NextCornerInPath(<<P>>, s) = P.left
<1> DEFINE path == <<P>>
           a == [found |-> FALSE, left |-> P.left, right |-> P.right]
           g == [i \in {1} |-> a]
<1>1. Len(path) = 1 /\ path[1] = P /\ 1..Len(path) = {1}
  OBVIOUS
<1>2. Leads(path, s, g)
  <2>1. g = [i \in {1} |-> a]
    BY Zenon
  <2> HIDE DEF path, g
  <2> QED
    BY <1>1, <2>1 DEF Leads
<1> HIDE DEF path, g
<1>3. PICK f : Leads(path, s, f) /\ NextCornerInPath(path, s) = f[Len(path)].left
  BY <1>2, CornerOfFunnel
<1>4. f[1] = a
  BY <1>1, <1>3 DEF Leads
<1> QED
  BY <1>1, <1>3, <1>4 DEF path

\* One round of the loop, in terms of turns
LeftIn(s, l, l2) == Turn(s, l, l2) >= 0
RightIn(s, r, r2) == Turn(s, r, r2) <= 0
NewLeft(s, l, l2) == IF LeftIn(s, l, l2) THEN l2 ELSE l
NewRight(s, r, r2) == IF RightIn(s, r, r2) THEN r2 ELSE r
BeyondRight(s, l, r, l2) == LeftIn(s, l, l2) /\ Turn(s, r, l2) > 0
BeyondLeft(s, l, r, l2, r2) == RightIn(s, r, r2) /\ Turn(s, NewLeft(s, l, l2), r2) < 0

Funnel(f, l, r) == [found |-> f, left |-> l, right |-> r]
Gate(l, r) == [left |-> l, right |-> r]
Goal(t) == Gate(t, t)

Narrowed(s, l, r, l2, r2) ==
    IF BeyondRight(s, l, r, l2) THEN Funnel(TRUE, r, r)
    ELSE IF BeyondLeft(s, l, r, l2, r2) THEN Funnel(TRUE, NewLeft(s, l, l2), NewLeft(s, l, l2))
    ELSE Funnel(FALSE, NewLeft(s, l, l2), NewRight(s, r, r2))

LEMMA NarrowIs ==
    ASSUME NEW s, NEW l, NEW r, NEW l2, NEW r2
    PROVE  Narrow(s, Funnel(FALSE, l, r), Gate(l2, r2)) = Narrowed(s, l, r, l2, r2)
<1> DEFINE f == Funnel(FALSE, l, r)
           p == Gate(l2, r2)
<1>1. f.found = FALSE /\ f.left = l /\ f.right = r /\ p.left = l2 /\ p.right = r2
  BY DEF Funnel, Gate
<1> HIDE DEF f, p
<1> DEFINE left == Minus(l, s)
           right == Minus(r, s)
           newLeft == Minus(l2, s)
           newRight == Minus(r2, s)
           leftIn == Cross(left, newLeft) >= 0
           narrowed == IF leftIn THEN l2 ELSE l
           rightIn == Cross(right, newRight) <= 0
<1>2. Narrow(s, f, p) =
        IF leftIn /\ Cross(right, newLeft) > 0 THEN [found |-> TRUE, left |-> r, right |-> r]
        ELSE IF rightIn /\ Cross(Minus(narrowed, s), newRight) < 0
             THEN [found |-> TRUE, left |-> narrowed, right |-> narrowed]
        ELSE [found |-> FALSE, left |-> narrowed, right |-> IF rightIn THEN r2 ELSE r]
  <2>1. Narrow(s, f, p) =
        IF f.found THEN f
        ELSE IF leftIn /\ Cross(right, newLeft) > 0 THEN [found |-> TRUE, left |-> r, right |-> r]
        ELSE IF rightIn /\ Cross(Minus(narrowed, s), newRight) < 0
             THEN [found |-> TRUE, left |-> narrowed, right |-> narrowed]
        ELSE [found |-> FALSE, left |-> narrowed, right |-> IF rightIn THEN r2 ELSE r]
    BY <1>1 DEF Narrow
  <2> QED
    BY <1>1, <2>1
<1>3. (leftIn <=> LeftIn(s, l, l2)) /\ (rightIn <=> RightIn(s, r, r2))
  BY DEF LeftIn, RightIn, Turn
<1>4. narrowed = NewLeft(s, l, l2) /\ (IF rightIn THEN r2 ELSE r) = NewRight(s, r, r2)
  BY <1>3 DEF NewLeft, NewRight
<1>5. /\ Cross(right, newLeft) = Turn(s, r, l2)
      /\ Cross(Minus(narrowed, s), newRight) = Turn(s, narrowed, r2)
  BY DEF Turn
<1> HIDE DEF left, right, newLeft, newRight, leftIn, rightIn, narrowed
<1> QED
  BY <1>2, <1>3, <1>4, <1>5 DEF BeyondRight, BeyondLeft, Narrowed, Funnel, f, p

\* The corner that the loop returns when its last portal is the goal
Ends(s, l, r, t, c) ==
    /\ c \in {l, r} \/ (c = t /\ Turn(s, l, t) >= 0 /\ Turn(s, r, t) <= 0)
    /\ Turn(s, l, t) >= 0 /\ Turn(s, r, t) <= 0 => c = t

LEMMA NarrowToGoal ==
    ASSUME NEW s \in Points, NEW l \in Points, NEW r \in Points, NEW t \in Points
    PROVE  Ends(s, l, r, t, Narrow(s, Funnel(FALSE, l, r), Goal(t)).left)
<1> DEFINE c == Narrow(s, Funnel(FALSE, l, r), Goal(t)).left
<1>1. c = IF BeyondRight(s, l, r, t) THEN r ELSE NewLeft(s, l, t)
  <2>1. c = Narrowed(s, l, r, t, t).left
    BY NarrowIs DEF Goal
  <2> QED
    BY <2>1 DEF Narrowed, Funnel
<1> HIDE DEF c
<1>2. Turn(s, l, t) \in Int /\ Turn(s, r, t) \in Int
  <2>1. \A a \in Points : Turn(s, a, t) = (a.x - s.x) * (t.y - s.y) - (a.y - s.y) * (t.x - s.x)
    BY PointFields DEF Turn, Cross, Minus
  <2>2. \A a \in Points : a.x \in Int /\ a.y \in Int
    BY PointIsPoint
  <2> QED
    BY <2>1, <2>2
<1>3. c \in {l, r} \/ (c = t /\ Turn(s, l, t) >= 0 /\ Turn(s, r, t) <= 0)
  BY <1>1, <1>2 DEF BeyondRight, NewLeft, LeftIn
<1>4. Turn(s, l, t) >= 0 /\ Turn(s, r, t) <= 0 => c = t
  BY <1>1, <1>2 DEF BeyondRight, NewLeft, LeftIn
<1> QED
  BY <1>3, <1>4 DEF Ends, c

\* The corner of a path through one portal
CornerOne(s, a, t) == NextCornerInPath(<<a, Goal(t)>>, s)

LEMMA ThroughOne ==
    ASSUME NEW s \in Points, NEW l \in Points, NEW r \in Points, NEW t \in Points
    PROVE  Ends(s, l, r, t, CornerOne(s, Gate(l, r), t))
<1>1. Gate(l, r).left = l /\ Gate(l, r).right = r
  BY DEF Gate
<1>2. CornerOne(s, Gate(l, r), t) = Narrow(s, Funnel(FALSE, l, r), Goal(t)).left
  BY <1>1, FunnelOfTwo DEF Funnel, CornerOne
<1> QED
  BY <1>2, NarrowToGoal

\* The corner of a path through two portals
CornerTwo(s, a, b, t) == NextCornerInPath(<<a, b, Goal(t)>>, s)
CornerThrough(s, l, r, l2, r2, t) == CornerTwo(s, Gate(l, r), Gate(l2, r2), t)

LEMMA ThroughTwo ==
    ASSUME NEW s \in Points, NEW l \in Points, NEW r \in Points, NEW l2 \in Points, NEW r2 \in Points,
           NEW t \in Points, NEW c, c = CornerThrough(s, l, r, l2, r2, t)
    PROVE  /\ BeyondRight(s, l, r, l2) => c = r
           /\ ~BeyondRight(s, l, r, l2) /\ BeyondLeft(s, l, r, l2, r2) => c = NewLeft(s, l, l2)
           /\ ~BeyondRight(s, l, r, l2) /\ ~BeyondLeft(s, l, r, l2, r2)
                => Ends(s, NewLeft(s, l, l2), NewRight(s, r, r2), t, c)
<1> DEFINE b == Narrowed(s, l, r, l2, r2)
<1>1. Gate(l, r).left = l /\ Gate(l, r).right = r
  BY DEF Gate
<1>2. c = Narrow(s, Narrow(s, Funnel(FALSE, l, r), Gate(l2, r2)), Goal(t)).left
  BY <1>1, FunnelOfThree DEF Funnel, CornerTwo, CornerThrough
<1>3. c = Narrow(s, b, Goal(t)).left
  BY <1>2, NarrowIs
<1>4. b.found = TRUE => Narrow(s, b, Goal(t)) = b
  BY DEF Narrow
<1>5. BeyondRight(s, l, r, l2) => c = r
  BY <1>3, <1>4 DEF Narrowed, Funnel
<1>6. ~BeyondRight(s, l, r, l2) /\ BeyondLeft(s, l, r, l2, r2) => c = NewLeft(s, l, l2)
  BY <1>3, <1>4 DEF Narrowed, Funnel
<1>7. ASSUME ~BeyondRight(s, l, r, l2), ~BeyondLeft(s, l, r, l2, r2)
      PROVE  Ends(s, NewLeft(s, l, l2), NewRight(s, r, r2), t, c)
  <2>1. b = Funnel(FALSE, NewLeft(s, l, l2), NewRight(s, r, r2))
    BY <1>7 DEF Narrowed
  <2>2. NewLeft(s, l, l2) \in Points /\ NewRight(s, r, r2) \in Points
    BY DEF NewLeft, NewRight
  <2> HIDE DEF b
  <2> QED
    BY <1>3, <2>1, <2>2, NarrowToGoal
<1> QED
  BY <1>5, <1>6, <1>7

----------------------------------------------------------------------------
(* Segments and walls                                                      *)

\* On which side of the line from p to q the point (x, y) lies
SideOf(p, q, x, y) == (q.x - p.x) * (y - p.y) - (q.y - p.y) * (x - p.x)

LEMMA SideIsInt ==
    ASSUME NEW p \in Points, NEW q \in Points, NEW x \in Int, NEW y \in Int
    PROVE  /\ p.x \in Int /\ p.y \in Int /\ q.x \in Int /\ q.y \in Int
           /\ SideOf(p, q, x, y) \in Int
BY DEF Points, SideOf

LEMMA TurnIsSide ==
    ASSUME NEW s \in Points, NEW t \in Points, NEW x \in Int, NEW y \in Int
    PROVE  Turn(s, Point(x, y), t) = -SideOf(s, t, x, y)
<1>1. s.x \in Int /\ s.y \in Int /\ t.x \in Int /\ t.y \in Int
  BY PointIsPoint
<1> DEFINE a == x - s.x  b == y - s.y  c == t.x - s.x  d == t.y - s.y
<1>2. Turn(s, Point(x, y), t) = a * d - b * c
  BY PointFields DEF Turn, Cross, Minus
<1>3. SideOf(s, t, x, y) = c * b - d * a
  BY DEF SideOf
<1>4. a \in Int /\ b \in Int /\ c \in Int /\ d \in Int
  BY <1>1
<1> HIDE DEF a, b, c, d
<1> QED
  BY <1>2, <1>3, <1>4

LEMMA Products ==
    /\ \A a, b \in Int : a >= 0 /\ b >= 0 => a * b >= 0
    /\ \A a, b \in Int : a > 0 /\ b > 0 => a * b > 0
    /\ \A a, b \in Int : a <= 0 /\ b >= 0 => a * b <= 0
    /\ \A a, b \in Int : a >= 0 /\ b <= 0 => a * b <= 0
    /\ \A a, b \in Int : a < 0 /\ b > 0 => a * b < 0
    /\ \A a, b \in Int : a > 0 /\ b < 0 => a * b < 0
    /\ \A a, b \in Int : a <= 0 /\ b <= 0 => a * b >= 0
    /\ \A a, b \in Int : a < 0 /\ b < 0 => a * b > 0
    /\ \A a, b \in Int : a * b \in Int
OBVIOUS

LEMMA Distribute ==
    ASSUME NEW a \in Int, NEW b \in Int, NEW c \in Int
    PROVE  /\ (a + b) * c = a * c + b * c /\ (a - b) * c = a * c - b * c
           /\ c * (a + b) = c * a + c * b /\ c * (a - b) = c * a - c * b
OBVIOUS

\* The side changes with the point.
LEMMA SideMoves ==
    ASSUME NEW p \in Points, NEW q \in Points, NEW x \in Int, NEW y \in Int, NEW v \in Int, NEW w \in Int
    PROVE  SideOf(p, q, v, w) = SideOf(p, q, x, y) + (q.x - p.x) * (w - y) - (q.y - p.y) * (v - x)
<1>1. p.x \in Int /\ p.y \in Int /\ q.x \in Int /\ q.y \in Int
  BY PointIsPoint
<1> DEFINE c == q.x - p.x  d == q.y - p.y
<1>2. c \in Int /\ d \in Int
  BY <1>1
<1>3. SideOf(p, q, v, w) = c * (w - p.y) - d * (v - p.x) /\ SideOf(p, q, x, y) = c * (y - p.y) - d * (x - p.x)
  BY DEF SideOf
<1> HIDE DEF c, d
<1>4. c * (w - p.y) = c * (y - p.y) + c * (w - y)
  <2>1. (w - p.y) = (y - p.y) + (w - y)
    BY <1>1
  <2>2. c * ((y - p.y) + (w - y)) = c * (y - p.y) + c * (w - y)
    BY <1>1, <1>2, Distribute
  <2> QED
    BY <2>1, <2>2
<1>5. d * (v - p.x) = d * (x - p.x) + d * (v - x)
  <2>1. (v - p.x) = (x - p.x) + (v - x)
    BY <1>1
  <2>2. d * ((x - p.x) + (v - x)) = d * (x - p.x) + d * (v - x)
    BY <1>1, <1>2, Distribute
  <2> QED
    BY <2>1, <2>2
<1>6. /\ c * (y - p.y) \in Int /\ c * (w - y) \in Int
      /\ d * (x - p.x) \in Int /\ d * (v - x) \in Int
  BY <1>1, <1>2
<1>7. SideOf(p, q, v, w) = SideOf(p, q, x, y) + c * (w - y) - d * (v - x)
  BY <1>3, <1>4, <1>5, <1>6
<1> QED
  BY <1>7 DEF c, d

\* The side is that of a mean of the ends of the segment.
LEMMA SideBetween ==
    ASSUME NEW p \in Points, NEW q \in Points, NEW x \in Int, NEW y \in Int
    PROVE  SideOf(p, q, x, y) = (p.x - x) * (q.y - y) + (q.x - x) * (y - p.y)
<1>1. p.x \in Int /\ p.y \in Int /\ q.x \in Int /\ q.y \in Int
  BY PointIsPoint
<1> DEFINE a == p.x - x  b == q.x - x  c == y - p.y  e == q.y - y
<1>2. a \in Int /\ b \in Int /\ c \in Int /\ e \in Int
  BY <1>1
<1>3. /\ q.x - p.x = b - a /\ q.y - p.y = c + e /\ x - p.x = -a
  BY <1>1
<1>4. SideOf(p, q, x, y) = (b - a) * c - (c + e) * (-a)
  BY <1>3 DEF SideOf
<1> HIDE DEF a, b, c, e
<1>5. (b - a) * c = b * c - a * c /\ (c + e) * (-a) = -(c * a) - e * a
  BY <1>2
<1>6. a * c = c * a /\ a * e = e * a /\ b * c \in Int /\ a * c \in Int /\ a * e \in Int
  BY <1>2
<1>7. SideOf(p, q, x, y) = a * e + b * c
  BY <1>4, <1>5, <1>6
<1> QED
  BY <1>7 DEF a, b, c, e

LEMMA MeetsIs ==
    ASSUME NEW p \in Points, NEW q \in Points, NEW l \in Int, NEW r \in Int, NEW t \in Int, NEW b \in Int,
           NEW box, box = [l |-> l, r |-> r, t |-> t, b |-> b]
    PROVE  Meets(box, p, q) <=>
             /\ (p.x > l \/ q.x > l) /\ (p.x < r \/ q.x < r)
             /\ (p.y > t \/ q.y > t) /\ (p.y < b \/ q.y < b)
             /\ \E x \in {l, r}, y \in {t, b} : SideOf(p, q, x, y) > 0
             /\ \E x \in {l, r}, y \in {t, b} : SideOf(p, q, x, y) < 0
<1>1. box.l = l /\ box.r = r /\ box.t = t /\ box.b = b
  OBVIOUS
<1>2. p.x \in Int /\ p.y \in Int /\ q.x \in Int /\ q.y \in Int
  BY PointIsPoint
<1> DEFINE S(x, y) == Cross(Minus(q, p), Minus(Point(x, y), p))
<1>3. \A x, y : S(x, y) = SideOf(p, q, x, y)
  BY PointFields DEF Cross, Minus, SideOf
<1> DEFINE sides == {S(x, y) : x \in {l, r}, y \in {t, b}}
<1>4. Meets(box, p, q) <=>
        /\ Max({p.x, q.x}) > l /\ Min({p.x, q.x}) < r
        /\ Max({p.y, q.y}) > t /\ Min({p.y, q.y}) < b
        /\ (\E v \in sides : v > 0) /\ (\E v \in sides : v < 0)
  BY <1>1 DEF Meets
<1>5. /\ Max({p.x, q.x}) > l <=> p.x > l \/ q.x > l
      /\ Min({p.x, q.x}) < r <=> p.x < r \/ q.x < r
  BY <1>2, MaxOfTwo, MinOfTwo
<1>6. /\ Max({p.y, q.y}) > t <=> p.y > t \/ q.y > t
      /\ Min({p.y, q.y}) < b <=> p.y < b \/ q.y < b
  BY <1>2, MaxOfTwo, MinOfTwo
<1> HIDE DEF S
<1>7. /\ (\E v \in sides : v > 0) <=> \E x \in {l, r}, y \in {t, b} : S(x, y) > 0
      /\ (\E v \in sides : v < 0) <=> \E x \in {l, r}, y \in {t, b} : S(x, y) < 0
  OBVIOUS
<1> HIDE DEF sides
<1> QED
  BY <1>3, <1>4, <1>5, <1>6, <1>7

\* Between the rows 750 and 850 the segment keeps to the right, or to the left, of a wall.
RightOf(p, q, x) ==
    \/ p.x >= x /\ q.x >= x
    \/ p.y < q.y /\ SideOf(p, q, x, 750) >= 0 /\ SideOf(p, q, x, 850) >= 0
    \/ p.y > q.y /\ SideOf(p, q, x, 750) <= 0 /\ SideOf(p, q, x, 850) <= 0
LeftOf(p, q, x) ==
    \/ p.x <= x /\ q.x <= x
    \/ p.y < q.y /\ SideOf(p, q, x, 750) <= 0 /\ SideOf(p, q, x, 850) <= 0
    \/ p.y > q.y /\ SideOf(p, q, x, 750) >= 0 /\ SideOf(p, q, x, 850) >= 0

Wall(l, r) == [l |-> l, r |-> r, t |-> 750, b |-> 850]

LEMMA RightMisses ==
    ASSUME NEW p \in Points, NEW q \in Points, NEW l \in Int, NEW r \in Int, NEW x \in Int,
           l <= r, r <= x, RightOf(p, q, x)
    PROVE  ~Meets(Wall(l, r), p, q)
<1>1. p.x \in Int /\ p.y \in Int /\ q.x \in Int /\ q.y \in Int
  BY PointIsPoint
<1>2. SUFFICES ASSUME Meets(Wall(l, r), p, q)
               PROVE  FALSE
  OBVIOUS
<1>3. /\ p.x < r \/ q.x < r
      /\ \E v \in {l, r}, w \in {750, 850} : SideOf(p, q, v, w) > 0
      /\ \E v \in {l, r}, w \in {750, 850} : SideOf(p, q, v, w) < 0
  BY <1>2, MeetsIs DEF Wall
<1>4. ASSUME NEW v \in {l, r}, NEW w \in {750, 850}
      PROVE  /\ SideOf(p, q, v, w) = SideOf(p, q, x, w) + (q.y - p.y) * (x - v)
             /\ (q.y - p.y) * (x - v) \in Int
             /\ p.y < q.y => (q.y - p.y) * (x - v) >= 0
             /\ p.y > q.y => (q.y - p.y) * (x - v) <= 0
             /\ SideOf(p, q, x, w) \in Int
  <2> DEFINE d == q.y - p.y  e == x - v  c == q.x - p.x
  <2>1. d \in Int /\ e \in Int /\ e >= 0 /\ c \in Int /\ v \in Int /\ w \in Int
    BY <1>1
  <2>2. SideOf(p, q, v, w) = SideOf(p, q, x, w) + c * (w - w) - d * (v - x)
    BY <2>1, SideMoves
  <2>3. SideOf(p, q, x, w) \in Int
    BY SideIsInt
  <2>4. w - w = 0 /\ v - x = -e
    BY <2>1
  <2>5. (p.y < q.y => d >= 0) /\ (p.y > q.y => d <= 0)
    BY <1>1
  <2> HIDE DEF c, d, e
  <2>6. c * 0 = 0 /\ d * (-e) = -(d * e) /\ d * e \in Int
    BY <2>1
  <2>7. SideOf(p, q, v, w) = SideOf(p, q, x, w) + d * e
    BY <2>2, <2>3, <2>4, <2>6
  <2>8. (p.y < q.y => d * e >= 0) /\ (p.y > q.y => d * e <= 0)
    BY <2>1, <2>5, Products
  <2> QED
    BY <2>3, <2>6, <2>7, <2>8 DEF d, e
<1>5. CASE p.x >= x /\ q.x >= x
  BY <1>1, <1>3, <1>5
<1>6. CASE p.y < q.y /\ SideOf(p, q, x, 750) >= 0 /\ SideOf(p, q, x, 850) >= 0
  <2>1. \A v \in {l, r}, w \in {750, 850} : SideOf(p, q, v, w) >= 0
    BY <1>4, <1>6
  <2> QED
    BY <1>3, <2>1, SideIsInt
<1>7. CASE p.y > q.y /\ SideOf(p, q, x, 750) <= 0 /\ SideOf(p, q, x, 850) <= 0
  <2>1. \A v \in {l, r}, w \in {750, 850} : SideOf(p, q, v, w) <= 0
    BY <1>4, <1>7
  <2> QED
    BY <1>3, <2>1, SideIsInt
<1> QED
  BY <1>5, <1>6, <1>7 DEF RightOf

LEMMA LeftMisses ==
    ASSUME NEW p \in Points, NEW q \in Points, NEW l \in Int, NEW r \in Int, NEW x \in Int,
           l <= r, x <= l, LeftOf(p, q, x)
    PROVE  ~Meets(Wall(l, r), p, q)
<1>1. p.x \in Int /\ p.y \in Int /\ q.x \in Int /\ q.y \in Int
  BY PointIsPoint
<1>2. SUFFICES ASSUME Meets(Wall(l, r), p, q)
               PROVE  FALSE
  OBVIOUS
<1>3. /\ p.x > l \/ q.x > l
      /\ \E v \in {l, r}, w \in {750, 850} : SideOf(p, q, v, w) > 0
      /\ \E v \in {l, r}, w \in {750, 850} : SideOf(p, q, v, w) < 0
  BY <1>2, MeetsIs DEF Wall
<1>4. ASSUME NEW v \in {l, r}, NEW w \in {750, 850}
      PROVE  /\ SideOf(p, q, v, w) = SideOf(p, q, x, w) - (q.y - p.y) * (v - x)
             /\ (q.y - p.y) * (v - x) \in Int
             /\ p.y < q.y => (q.y - p.y) * (v - x) >= 0
             /\ p.y > q.y => (q.y - p.y) * (v - x) <= 0
             /\ SideOf(p, q, x, w) \in Int
  <2> DEFINE d == q.y - p.y  e == v - x  c == q.x - p.x
  <2>1. d \in Int /\ e \in Int /\ e >= 0 /\ c \in Int /\ v \in Int /\ w \in Int
    BY <1>1
  <2>2. SideOf(p, q, v, w) = SideOf(p, q, x, w) + c * (w - w) - d * (v - x)
    BY <2>1, SideMoves
  <2>3. SideOf(p, q, x, w) \in Int
    BY SideIsInt
  <2>4. w - w = 0 /\ v - x = e
    BY <2>1
  <2>5. (p.y < q.y => d >= 0) /\ (p.y > q.y => d <= 0)
    BY <1>1
  <2> HIDE DEF c, d, e
  <2>6. c * 0 = 0 /\ d * e \in Int
    BY <2>1
  <2>7. SideOf(p, q, v, w) = SideOf(p, q, x, w) - d * e
    BY <2>2, <2>3, <2>4, <2>6
  <2>8. (p.y < q.y => d * e >= 0) /\ (p.y > q.y => d * e <= 0)
    BY <2>1, <2>5, Products
  <2> QED
    BY <2>3, <2>6, <2>7, <2>8 DEF d, e
<1>5. CASE p.x <= x /\ q.x <= x
  BY <1>1, <1>3, <1>5
<1>6. CASE p.y < q.y /\ SideOf(p, q, x, 750) <= 0 /\ SideOf(p, q, x, 850) <= 0
  <2>1. \A v \in {l, r}, w \in {750, 850} : SideOf(p, q, v, w) <= 0
    BY <1>4, <1>6
  <2> QED
    BY <1>3, <2>1, SideIsInt
<1>7. CASE p.y > q.y /\ SideOf(p, q, x, 750) >= 0 /\ SideOf(p, q, x, 850) >= 0
  <2>1. \A v \in {l, r}, w \in {750, 850} : SideOf(p, q, v, w) >= 0
    BY <1>4, <1>7
  <2> QED
    BY <1>3, <2>1, SideIsInt
<1> QED
  BY <1>5, <1>6, <1>7 DEF LeftOf

\* The walls of the holes for a squire of this radius
WallsOf(radius) == {Wall(0, 150 + radius), Wall(300 - radius, 700 + radius), Wall(850 - radius, 1000)}

LEMMA GrownShields ==
    ASSUME NEW radius \in 0..74
    PROVE  {Grown(s, radius) : s \in Shields} = WallsOf(radius)
<1>1. Grown([l |-> 0, r |-> 150], radius) = Wall(0, 150 + radius)
  BY MapSizes DEF Grown, Wall
<1>2. Grown([l |-> 300, r |-> 700], radius) = Wall(300 - radius, 700 + radius)
  BY MapSizes DEF Grown, Wall
<1>3. Grown([l |-> 850, r |-> 1000], radius) = Wall(850 - radius, 1000)
  BY MapSizes DEF Grown, Wall
<1> DEFINE a == [l |-> 0, r |-> 150]  b == [l |-> 300, r |-> 700]  c == [l |-> 850, r |-> 1000]
<1>4. Shields = {a, b, c}
  BY ShieldsAre
<1> HIDE DEF a, b, c
<1>5. {Grown(s, radius) : s \in Shields} = {Grown(a, radius), Grown(b, radius), Grown(c, radius)}
  BY <1>4
<1> QED
  BY <1>1, <1>2, <1>3, <1>5 DEF a, b, c, WallsOf

LEMMA ClearIs ==
    ASSUME NEW radius \in 0..74, NEW p, NEW q
    PROVE  Clear(p, q, radius) <=> \A w \in WallsOf(radius) : ~Meets(w, p, q)
BY GrownShields, Zenon DEF Clear

\* The holes for a squire of this radius: from left to right
HoleL(hole, radius) == Holes[hole].l + radius
HoleR(hole, radius) == Holes[hole].r - radius

LEMMA HoleSides ==
    ASSUME NEW radius \in 0..74
    PROVE  /\ DOMAIN Holes = {"lefthole", "righthole"}
           /\ HoleL("lefthole", radius) = 150 + radius /\ HoleR("lefthole", radius) = 300 - radius
           /\ HoleL("righthole", radius) = 700 + radius /\ HoleR("righthole", radius) = 850 - radius
           /\ \A h \in DOMAIN Holes : /\ HoleL(h, radius) \in Int /\ HoleR(h, radius) \in Int
                                      /\ HoleL(h, radius) < HoleR(h, radius)
<1>1. DOMAIN Holes = {"lefthole", "righthole"}
  BY DEF Holes
<1>2. /\ HoleL("lefthole", radius) = 150 + radius /\ HoleR("lefthole", radius) = 300 - radius
      /\ HoleL("righthole", radius) = 700 + radius /\ HoleR("righthole", radius) = 850 - radius
  BY MapSizes DEF HoleL, HoleR
<1> QED
  BY <1>1, <1>2

\* A segment is clear if it stays above or below the row of shields, or goes through a hole.
LEMMA ClearThrough ==
    ASSUME NEW radius \in 0..74, NEW p \in Points, NEW q \in Points, NEW h \in DOMAIN Holes,
           RightOf(p, q, HoleL(h, radius)), LeftOf(p, q, HoleR(h, radius))
    PROVE  Clear(p, q, radius)
<1> DEFINE A == Wall(0, 150 + radius)
           B == Wall(300 - radius, 700 + radius)
           C == Wall(850 - radius, 1000)
<1>1. CASE h = "lefthole"
  <2>1. RightOf(p, q, 150 + radius) /\ LeftOf(p, q, 300 - radius)
    BY <1>1, HoleSides
  <2>2. ~Meets(A, p, q)
    BY <2>1, RightMisses
  <2>3. ~Meets(B, p, q)
    BY <2>1, LeftMisses
  <2>4. ~Meets(C, p, q)
    BY <2>1, LeftMisses
  <2> QED
    <3>1. \A w \in WallsOf(radius) : ~Meets(w, p, q)
      BY <2>2, <2>3, <2>4 DEF WallsOf
    <3> QED
      BY <3>1, ClearIs
<1>2. CASE h = "righthole"
  <2>1. RightOf(p, q, 700 + radius) /\ LeftOf(p, q, 850 - radius)
    BY <1>2, HoleSides
  <2>2. ~Meets(A, p, q)
    BY <2>1, RightMisses
  <2>3. ~Meets(B, p, q)
    BY <2>1, RightMisses
  <2>4. ~Meets(C, p, q)
    BY <2>1, LeftMisses
  <2> QED
    <3>1. \A w \in WallsOf(radius) : ~Meets(w, p, q)
      BY <2>2, <2>3, <2>4 DEF WallsOf
    <3> QED
      BY <3>1, ClearIs
<1> QED
  BY <1>1, <1>2, HoleSides

LEMMA ClearBeside ==
    ASSUME NEW radius \in 0..74, NEW p \in Points, NEW q \in Points,
           (p.y <= 750 /\ q.y <= 750) \/ (p.y >= 850 /\ q.y >= 850)
    PROVE  Clear(p, q, radius)
<1>1. ASSUME NEW l \in Int, NEW r \in Int
      PROVE  ~Meets(Wall(l, r), p, q)
  <2>1. p.y \in Int /\ q.y \in Int
    BY PointIsPoint
  <2>2. Meets(Wall(l, r), p, q) => (p.y > 750 \/ q.y > 750) /\ (p.y < 850 \/ q.y < 850)
    BY MeetsIs DEF Wall
  <2> QED
    BY <2>1, <2>2
<1>2. \A w \in WallsOf(radius) : ~Meets(w, p, q)
  BY <1>1 DEF WallsOf
<1> QED
  BY <1>2, ClearIs

----------------------------------------------------------------------------
(* The way of a squire                                                     *)

GateDown(h, y, radius) == Gate(Point(HoleR(h, radius), y), Point(HoleL(h, radius), y))
GateUp(h, y, radius) == Gate(Point(HoleL(h, radius), y), Point(HoleR(h, radius), y))

LEMMA LocationIs ==
    ASSUME NEW p \in Points, NEW radius \in 0..74
    PROVE  /\ Location(p, radius) \in {"top", "bottom", "lefthole", "righthole", "nowhere"}
           /\ Location(p, radius) = "top" <=> p.y < 750
           /\ Location(p, radius) = "bottom" <=> p.y > 850
           /\ \A h \in DOMAIN Holes : Location(p, radius) = h =>
                  /\ p.y >= 750 /\ p.y <= 850 /\ p.x > HoleL(h, radius) /\ p.x < HoleR(h, radius)
<1>1. p.x \in Int /\ p.y \in Int
  BY PointIsPoint
<1>2. \A h \in DOMAIN Holes : InHole(p, h, radius) <=> p.x > HoleL(h, radius) /\ p.x < HoleR(h, radius)
  BY DEF InHole, HoleL, HoleR
<1> QED
  BY <1>1, <1>2, MapSizes, HoleSides DEF Location

LEMMA PortalsAre ==
    ASSUME NEW s, NEW radius, NEW src, NEW dst
    PROVE  /\ src = "top" /\ dst = "bottom" =>
                  PortalsBetween(src, dst, s, radius) =
                      <<GateDown(HoleOnSide(s), 750, radius), GateDown(HoleOnSide(s), 850, radius)>>
           /\ src = "bottom" /\ dst = "top" =>
                  PortalsBetween(src, dst, s, radius) =
                      <<GateUp(HoleOnSide(s), 850, radius), GateUp(HoleOnSide(s), 750, radius)>>
           /\ src = "top" /\ dst \in DOMAIN Holes =>
                  PortalsBetween(src, dst, s, radius) =
                      <<GateDown(dst, 750, radius)>>
           /\ src = "bottom" /\ dst \in DOMAIN Holes =>
                  PortalsBetween(src, dst, s, radius) =
                      <<GateUp(dst, 850, radius)>>
           /\ src \in DOMAIN Holes /\ dst = "top" =>
                  PortalsBetween(src, dst, s, radius) =
                      <<GateUp(src, 750, radius)>>
           /\ src \in DOMAIN Holes /\ dst = "bottom" =>
                  PortalsBetween(src, dst, s, radius) =
                      <<GateDown(src, 850, radius)>>
           /\ src \in DOMAIN Holes /\ dst \in DOMAIN Holes \ {src} /\ s.y < 800 =>
                  PortalsBetween(src, dst, s, radius) =
                      <<GateUp(src, 750, radius), GateDown(dst, 750, radius)>>
           /\ src \in DOMAIN Holes /\ dst \in DOMAIN Holes \ {src} /\ ~(s.y < 800) =>
                  PortalsBetween(src, dst, s, radius) =
                      <<GateDown(src, 850, radius), GateUp(dst, 850, radius)>>
           /\ src = dst /\ src \in {"top", "bottom", "lefthole", "righthole"} =>
                  PortalsBetween(src, dst, s, radius) =
                      <<>>
<1> DEFINE hole == HoleOnSide(s)
           TopDown(h) == Portal(h, ShieldTop, TRUE, radius)
           BottomUp(h) == Portal(h, ShieldBottom, FALSE, radius)
           TopUp(h) == Portal(h, ShieldTop, FALSE, radius)
           BottomDown(h) == Portal(h, ShieldBottom, TRUE, radius)
           across == IF s.y < CenterY THEN <<TopUp(src), TopDown(dst)>> ELSE <<BottomDown(src), BottomUp(dst)>>
           portals ==
             CASE src = "top" /\ dst = "bottom" -> <<TopDown(hole), BottomDown(hole)>>
               [] src = "bottom" /\ dst = "top" -> <<BottomUp(hole), TopUp(hole)>>
               [] src = "top" /\ dst \in DOMAIN Holes -> <<TopDown(dst)>>
               [] src = "bottom" /\ dst \in DOMAIN Holes -> <<BottomUp(dst)>>
               [] src \in DOMAIN Holes /\ dst = "top" -> <<TopUp(src)>>
               [] src \in DOMAIN Holes /\ dst = "bottom" -> <<BottomDown(src)>>
               [] src \in DOMAIN Holes /\ dst \in DOMAIN Holes \ {src} -> across
               [] OTHER -> <<>>
<1>1. PortalsBetween(src, dst, s, radius) = portals
  BY DEF PortalsBetween
<1>2. \A h : /\ TopDown(h) = GateDown(h, 750, radius) /\ BottomUp(h) = GateUp(h, 850, radius)
             /\ BottomDown(h) = GateDown(h, 850, radius) /\ TopUp(h) = GateUp(h, 750, radius)
  <2>1. ShieldTop = 750 /\ ShieldBottom = 850
    BY MapSizes
  <2> SUFFICES ASSUME NEW h
               PROVE  /\ TopDown(h) = GateDown(h, 750, radius) /\ BottomUp(h) = GateUp(h, 850, radius)
                      /\ BottomDown(h) = GateDown(h, 850, radius) /\ TopUp(h) = GateUp(h, 750, radius)
    OBVIOUS
  <2> QED
    BY <2>1 DEF Portal, GateDown, GateUp, Gate, HoleL, HoleR
<1>3. DOMAIN Holes = {"lefthole", "righthole"}
  BY DEF Holes
<1>4. CenterY = 800
  BY MapSizes
<1> HIDE DEF TopDown, BottomUp, TopUp, BottomDown, hole, across
<1>5. ASSUME src = "top" /\ dst = "bottom"
      PROVE  portals = <<TopDown(hole), BottomDown(hole)>>
  BY <1>3, <1>5
<1>6. ASSUME src = "bottom" /\ dst = "top"
      PROVE  portals = <<BottomUp(hole), TopUp(hole)>>
  BY <1>3, <1>6
<1>7. ASSUME src = "top" /\ dst \in DOMAIN Holes
      PROVE  portals = <<TopDown(dst)>>
  BY <1>3, <1>7
<1>8. ASSUME src = "bottom" /\ dst \in DOMAIN Holes
      PROVE  portals = <<BottomUp(dst)>>
  BY <1>3, <1>8
<1>9. ASSUME src \in DOMAIN Holes /\ dst = "top"
      PROVE  portals = <<TopUp(src)>>
  BY <1>3, <1>9
<1>10. ASSUME src \in DOMAIN Holes /\ dst = "bottom"
      PROVE  portals = <<BottomDown(src)>>
  BY <1>3, <1>10
<1>11. ASSUME src \in DOMAIN Holes /\ dst \in DOMAIN Holes \ {src} /\ s.y < 800
      PROVE  portals = <<TopUp(src), TopDown(dst)>>
  <2>1. portals = across
    BY <1>3, <1>11
  <2>2. across = <<TopUp(src), TopDown(dst)>>
    BY <1>4, <1>11 DEF across
  <2> QED
    BY <2>1, <2>2
<1>12. ASSUME src \in DOMAIN Holes /\ dst \in DOMAIN Holes \ {src} /\ ~(s.y < 800)
      PROVE  portals = <<BottomDown(src), BottomUp(dst)>>
  <2>1. portals = across
    BY <1>3, <1>12
  <2>2. across = <<BottomDown(src), BottomUp(dst)>>
    BY <1>4, <1>12 DEF across
  <2> QED
    BY <2>1, <2>2
<1>13. ASSUME src = dst /\ src \in {"top", "bottom", "lefthole", "righthole"}
      PROVE  portals = <<>>
  BY <1>3, <1>13
<1> HIDE DEF portals
<1> QED
  BY <1>1, <1>2, <1>5, <1>6, <1>7, <1>8, <1>9, <1>10, <1>11, <1>12, <1>13 DEF hole

\* Append to a path of one portal or of two
LEMMA Appended ==
    ASSUME NEW S, NEW p \in Seq(S), NEW g \in S, NEW q, q = Append(p, g)
    PROVE  /\ q \in Seq(S) /\ Len(q) = Len(p) + 1 /\ q[Len(p) + 1] = g
           /\ \A i \in 1..Len(p) : q[i] = p[i]
<1>1. LET r == Append(p, g)
      IN  r \in Seq(S) /\ Len(r) = Len(p) + 1 /\ r[Len(p) + 1] = g /\ \A i \in 1..Len(p) : r[i] = p[i]
  BY AppendProperties
<1> QED
  BY <1>1

LEMMA AppendedToOne ==
    ASSUME NEW a, NEW g
    PROVE  Append(<<a>>, g) = <<a, g>>
<1> DEFINE S == {a, g}
           p == <<a>>
           r == <<a, g>>
           q == Append(p, g)
<1>1. p \in Seq(S) /\ Len(p) = 1 /\ p[1] = a /\ g \in S
  OBVIOUS
<1>2. r \in Seq(S) /\ Len(r) = 2 /\ r[1] = a /\ r[2] = g
  OBVIOUS
<1>3. q = Append(p, g)
  OBVIOUS
<1> HIDE DEF p, r, S, q
<1>4. q \in Seq(S) /\ Len(q) = Len(p) + 1 /\ q[Len(p) + 1] = g /\ \A i \in 1..Len(p) : q[i] = p[i]
  BY <1>1, <1>3, Appended
<1>5. Len(q) = 2 /\ q[2] = g /\ q[1] = a
  BY <1>1, <1>4
<1>6. \A i \in 1..Len(q) : q[i] = r[i]
  BY <1>2, <1>5
<1>7. q = r
  BY <1>2, <1>4, <1>5, <1>6, SeqEqual
<1> QED
  BY <1>7 DEF p, q, r

LEMMA AppendedToTwo ==
    ASSUME NEW a, NEW b, NEW g
    PROVE  Append(<<a, b>>, g) = <<a, b, g>>
<1> DEFINE S == {a, b, g}
           p == <<a, b>>
           r == <<a, b, g>>
           q == Append(p, g)
<1>1. p \in Seq(S) /\ Len(p) = 2 /\ p[1] = a /\ p[2] = b /\ g \in S
  OBVIOUS
<1>2. r \in Seq(S) /\ Len(r) = 3 /\ r[1] = a /\ r[2] = b /\ r[3] = g
  OBVIOUS
<1>3. q = Append(p, g)
  OBVIOUS
<1> HIDE DEF p, r, S, q
<1>4. q \in Seq(S) /\ Len(q) = Len(p) + 1 /\ q[Len(p) + 1] = g /\ \A i \in 1..Len(p) : q[i] = p[i]
  BY <1>1, <1>3, Appended
<1>5. Len(q) = 3 /\ q[3] = g
  BY <1>1, <1>4
<1>6. q[1] = a /\ q[2] = b
  BY <1>1, <1>4
<1>7. \A i \in 1..Len(q) : q[i] = r[i]
  BY <1>1, <1>2, <1>5, <1>6
<1>8. q = r
  BY <1>2, <1>4, <1>5, <1>7, SeqEqual
<1> QED
  BY <1>8 DEF p, q, r

LEMMA PathIs ==
    ASSUME NEW s, NEW t, NEW radius
    PROVE  /\ PortalsBetween(Location(s, radius), Location(t, radius), s, radius) = <<>>
                => FindPath(s, t, radius) = <<Goal(t)>>
           /\ \A a : PortalsBetween(Location(s, radius), Location(t, radius), s, radius) = <<a>>
                => FindPath(s, t, radius) = <<a, Goal(t)>>
           /\ \A a, b : PortalsBetween(Location(s, radius), Location(t, radius), s, radius) = <<a, b>>
                => FindPath(s, t, radius) = <<a, b, Goal(t)>>
<1> DEFINE path == PortalsBetween(Location(s, radius), Location(t, radius), s, radius)
<1>1. FindPath(s, t, radius) = Append(path, Goal(t))
  BY DEF FindPath, Goal, Gate
<1>2. Append(<<>>, Goal(t)) = <<Goal(t)>>
  OBVIOUS
<1> HIDE DEF path
<1>3. path = <<>> => FindPath(s, t, radius) = <<Goal(t)>>
  BY <1>1, <1>2, Zenon
<1>4. \A a : path = <<a>> => FindPath(s, t, radius) = <<a, Goal(t)>>
  BY <1>1, AppendedToOne, Zenon
<1>5. \A a, b : path = <<a, b>> => FindPath(s, t, radius) = <<a, b, Goal(t)>>
  BY <1>1, AppendedToTwo, Zenon
<1> QED
  BY <1>3, <1>4, <1>5, Zenon DEF path

\* How a segment passes a wall: the end at the nearer row and a side are enough.
LEMMA PassRight ==
    ASSUME NEW p \in Points, NEW q \in Points, NEW x \in Int
    PROVE  /\ p.y < q.y /\ q.x >= x /\ SideOf(p, q, x, 750) >= 0 => RightOf(p, q, x)
           /\ p.y < q.y /\ p.x >= x /\ SideOf(p, q, x, 850) >= 0 => RightOf(p, q, x)
           /\ p.y > q.y /\ q.x >= x /\ SideOf(p, q, x, 850) <= 0 => RightOf(p, q, x)
           /\ p.y > q.y /\ p.x >= x /\ SideOf(p, q, x, 750) <= 0 => RightOf(p, q, x)
<1>1. p.x \in Int /\ q.x \in Int
  BY PointIsPoint
<1>2. SideOf(p, q, x, 750) \in Int /\ SideOf(p, q, x, 850) \in Int
  BY SideIsInt
<1>3. SideOf(p, q, x, 850) = SideOf(p, q, x, 750) + (q.x - p.x) * 100
  <2>1. SideOf(p, q, x, 850) = SideOf(p, q, x, 750) + (q.x - p.x) * (850 - 750) - (q.y - p.y) * (x - x)
    BY SideMoves
  <2>2. (q.y - p.y) * (x - x) = 0 /\ 850 - 750 = 100
    BY PointIsPoint
  <2> QED
    BY <1>1, <1>2, <2>1, <2>2
<1> QED
  BY <1>1, <1>2, <1>3 DEF RightOf

LEMMA PassLeft ==
    ASSUME NEW p \in Points, NEW q \in Points, NEW x \in Int
    PROVE  /\ p.y < q.y /\ q.x <= x /\ SideOf(p, q, x, 750) <= 0 => LeftOf(p, q, x)
           /\ p.y < q.y /\ p.x <= x /\ SideOf(p, q, x, 850) <= 0 => LeftOf(p, q, x)
           /\ p.y > q.y /\ q.x <= x /\ SideOf(p, q, x, 850) >= 0 => LeftOf(p, q, x)
           /\ p.y > q.y /\ p.x <= x /\ SideOf(p, q, x, 750) >= 0 => LeftOf(p, q, x)
<1>1. p.x \in Int /\ q.x \in Int
  BY PointIsPoint
<1>2. SideOf(p, q, x, 750) \in Int /\ SideOf(p, q, x, 850) \in Int
  BY SideIsInt
<1>3. SideOf(p, q, x, 850) = SideOf(p, q, x, 750) + (q.x - p.x) * 100
  <2>1. SideOf(p, q, x, 850) = SideOf(p, q, x, 750) + (q.x - p.x) * (850 - 750) - (q.y - p.y) * (x - x)
    BY SideMoves
  <2>2. (q.y - p.y) * (x - x) = 0 /\ 850 - 750 = 100
    BY PointIsPoint
  <2> QED
    BY <1>1, <1>2, <2>1, <2>2
<1> QED
  BY <1>1, <1>2, <1>3 DEF LeftOf

\* A segment that has passed the wall on one side of it at a row, coming from the other
\* side, ends on that side.
LEMMA Crossed ==
    ASSUME NEW p \in Points, NEW q \in Points, NEW x \in Int, NEW y \in Int
    PROVE  /\ p.y < y /\ y < q.y /\ p.x <= x /\ SideOf(p, q, x, y) >= 0 => q.x >= x
           /\ p.y < y /\ y < q.y /\ p.x >= x /\ SideOf(p, q, x, y) <= 0 => q.x <= x
           /\ p.y > y /\ y > q.y /\ p.x <= x /\ SideOf(p, q, x, y) <= 0 => q.x >= x
           /\ p.y > y /\ y > q.y /\ p.x >= x /\ SideOf(p, q, x, y) >= 0 => q.x <= x
<1> DEFINE a == p.x - x  b == q.y - y  c == q.x - x  d == y - p.y
<1>1. p.x \in Int /\ p.y \in Int /\ q.x \in Int /\ q.y \in Int
  BY PointIsPoint
<1>2. SideOf(p, q, x, y) = a * b + c * d
  BY SideBetween
<1>3. a \in Int /\ b \in Int /\ c \in Int /\ d \in Int
  BY <1>1
<1> HIDE DEF a, b, c, d
<1>4. a * b \in Int /\ c * d \in Int
  BY <1>3
<1>5. /\ b > 0 /\ d > 0 /\ a <= 0 /\ c < 0 => a * b + c * d < 0
      /\ b > 0 /\ d > 0 /\ a >= 0 /\ c > 0 => a * b + c * d > 0
  BY <1>3, <1>4, Products
<1>6. /\ b < 0 /\ d < 0 /\ a <= 0 /\ c < 0 => a * b + c * d > 0
      /\ b < 0 /\ d < 0 /\ a >= 0 /\ c > 0 => a * b + c * d < 0
  BY <1>3, <1>4, Products
<1> QED
  BY <1>1, <1>2, <1>4, <1>5, <1>6 DEF a, b, c, d

\* Turns to the ends of portals
LEMMA TurnToSide ==
    ASSUME NEW s \in Points, NEW t \in Points, NEW x \in Int, NEW y \in Int
    PROVE  /\ Turn(s, Point(x, y), t) >= 0 <=> SideOf(s, t, x, y) <= 0
           /\ Turn(s, Point(x, y), t) <= 0 <=> SideOf(s, t, x, y) >= 0
           /\ Turn(s, Point(x, y), t) \in Int
BY TurnIsSide, SideIsInt

LEMMA TurnInRow ==
    ASSUME NEW s \in Points, NEW a \in Int, NEW b \in Int, NEW y \in Int
    PROVE  Turn(s, Point(a, y), Point(b, y)) = (y - s.y) * (a - b)
<1>1. s.x \in Int /\ s.y \in Int
  BY PointIsPoint
<1> DEFINE h == y - s.y  v == a - s.x  w == b - s.x
<1>2. Turn(s, Point(a, y), Point(b, y)) = v * h - h * w
  BY PointFields DEF Turn, Cross, Minus
<1>3. h \in Int /\ v \in Int /\ w \in Int /\ a - b = v - w
  BY <1>1
<1>4. h * (v - w) = h * v - h * w
  BY <1>3, Distribute
<1>5. Turn(s, Point(a, y), Point(b, y)) = h * (v - w)
  BY <1>2, <1>3, <1>4
<1> QED
  BY <1>3, <1>5

LEMMA TurnInColumn ==
    ASSUME NEW s \in Points, NEW x \in Int, NEW y \in Int, NEW z \in Int
    PROVE  Turn(s, Point(x, y), Point(x, z)) = (x - s.x) * (z - y)
<1>1. s.x \in Int /\ s.y \in Int
  BY PointIsPoint
<1> DEFINE h == x - s.x  v == z - s.y  w == y - s.y
<1>2. Turn(s, Point(x, y), Point(x, z)) = h * v - w * h
  BY PointFields DEF Turn, Cross, Minus
<1>3. h \in Int /\ v \in Int /\ w \in Int /\ z - y = v - w
  BY <1>1
<1>4. h * (v - w) = h * v - h * w
  BY <1>3, Distribute
<1>5. Turn(s, Point(x, y), Point(x, z)) = h * (v - w)
  BY <1>2, <1>3, <1>4
<1> QED
  BY <1>3, <1>5

\* A squire in a hole keeps to it.
LEMMA ClearInHole ==
    ASSUME NEW radius \in 0..74, NEW p \in Points, NEW q \in Points, NEW h \in DOMAIN Holes,
           p.x >= HoleL(h, radius), p.x <= HoleR(h, radius), q.x >= HoleL(h, radius), q.x <= HoleR(h, radius)
    PROVE  Clear(p, q, radius)
<1>1. RightOf(p, q, HoleL(h, radius)) /\ LeftOf(p, q, HoleR(h, radius))
  BY DEF RightOf, LeftOf
<1> QED
  BY <1>1, ClearThrough

\* One portal: a squire that enters a hole, or leaves it
LEMMA EnterDown ==
    ASSUME NEW radius \in 0..74, NEW s \in Points, NEW t \in Points, NEW c, NEW h \in DOMAIN Holes,
           s.y < 750, t.y >= 750, t.x >= HoleL(h, radius), t.x <= HoleR(h, radius),
           Ends(s, Point(HoleR(h, radius), 750), Point(HoleL(h, radius), 750), t, c)
    PROVE  c \in Points /\ Clear(s, c, radius)
<1> DEFINE L == HoleL(h, radius)  R == HoleR(h, radius)
<1>1. L \in Int /\ R \in Int /\ s.y \in Int /\ t.y \in Int
  <2>1. L \in Int /\ R \in Int
    BY HoleSides
  <2> QED
    BY <2>1, PointIsPoint
<1> HIDE DEF L, R
<1>2. Ends(s, Point(R, 750), Point(L, 750), t, c)
  BY DEF L, R
<1>3. CASE c \in {Point(R, 750), Point(L, 750)}
  <2>1. c \in Points /\ c.y = 750
    BY <1>1, <1>3, PointIsPoint, PointFields
  <2> QED
    BY <1>1, <2>1, ClearBeside
<1>4. CASE c = t /\ Turn(s, Point(R, 750), t) >= 0 /\ Turn(s, Point(L, 750), t) <= 0
  <2>1. SideOf(s, t, R, 750) <= 0 /\ SideOf(s, t, L, 750) >= 0
    BY <1>1, <1>4, TurnToSide
  <2>2. s.y < t.y /\ t.x >= L /\ t.x <= R
    BY <1>1 DEF L, R
  <2>3. RightOf(s, t, L)
    BY <1>1, <2>1, <2>2, PassRight
  <2>4. LeftOf(s, t, R)
    BY <1>1, <2>1, <2>2, PassLeft
  <2> QED
    BY <1>4, <2>3, <2>4, ClearThrough DEF L, R
<1> QED
  BY <1>2, <1>3, <1>4 DEF Ends

LEMMA EnterUp ==
    ASSUME NEW radius \in 0..74, NEW s \in Points, NEW t \in Points, NEW c, NEW h \in DOMAIN Holes,
           s.y > 850, t.y <= 850, t.x >= HoleL(h, radius), t.x <= HoleR(h, radius),
           Ends(s, Point(HoleL(h, radius), 850), Point(HoleR(h, radius), 850), t, c)
    PROVE  c \in Points /\ Clear(s, c, radius)
<1> DEFINE L == HoleL(h, radius)  R == HoleR(h, radius)
<1>1. L \in Int /\ R \in Int /\ s.y \in Int /\ t.y \in Int
  <2>1. L \in Int /\ R \in Int
    BY HoleSides
  <2> QED
    BY <2>1, PointIsPoint
<1> HIDE DEF L, R
<1>2. Ends(s, Point(L, 850), Point(R, 850), t, c)
  BY DEF L, R
<1>3. CASE c \in {Point(L, 850), Point(R, 850)}
  <2>1. c \in Points /\ c.y = 850
    BY <1>1, <1>3, PointIsPoint, PointFields
  <2> QED
    BY <1>1, <2>1, ClearBeside
<1>4. CASE c = t /\ Turn(s, Point(L, 850), t) >= 0 /\ Turn(s, Point(R, 850), t) <= 0
  <2>1. SideOf(s, t, L, 850) <= 0 /\ SideOf(s, t, R, 850) >= 0
    BY <1>1, <1>4, TurnToSide
  <2>2. s.y > t.y /\ t.x >= L /\ t.x <= R
    BY <1>1 DEF L, R
  <2>3. RightOf(s, t, L)
    BY <1>1, <2>1, <2>2, PassRight
  <2>4. LeftOf(s, t, R)
    BY <1>1, <2>1, <2>2, PassLeft
  <2> QED
    BY <1>4, <2>3, <2>4, ClearThrough DEF L, R
<1> QED
  BY <1>2, <1>3, <1>4 DEF Ends

LEMMA LeaveUp ==
    ASSUME NEW radius \in 0..74, NEW s \in Points, NEW t \in Points, NEW c, NEW h \in DOMAIN Holes,
           s.y >= 750, t.y < 750, s.x >= HoleL(h, radius), s.x <= HoleR(h, radius),
           Ends(s, Point(HoleL(h, radius), 750), Point(HoleR(h, radius), 750), t, c)
    PROVE  c \in Points /\ Clear(s, c, radius)
<1> DEFINE L == HoleL(h, radius)  R == HoleR(h, radius)
<1>1. L \in Int /\ R \in Int /\ L < R /\ s.y \in Int /\ t.y \in Int
  <2>1. L \in Int /\ R \in Int /\ L < R
    BY HoleSides
  <2> QED
    BY <2>1, PointIsPoint
<1>2. s.x >= L /\ s.x <= R
  OBVIOUS
<1> HIDE DEF L, R
<1>3. Ends(s, Point(L, 750), Point(R, 750), t, c)
  BY DEF L, R
<1>4. CASE c \in {Point(L, 750), Point(R, 750)}
  <2>1. c \in Points /\ c.x \in {L, R}
    BY <1>1, <1>4, PointIsPoint, PointFields
  <2>2. c.x >= L /\ c.x <= R
    BY <1>1, <2>1
  <2> QED
    BY <1>2, <2>1, <2>2, ClearInHole DEF L, R
<1>5. CASE c = t /\ Turn(s, Point(L, 750), t) >= 0 /\ Turn(s, Point(R, 750), t) <= 0
  <2>1. SideOf(s, t, L, 750) <= 0 /\ SideOf(s, t, R, 750) >= 0
    BY <1>1, <1>5, TurnToSide
  <2>2. s.y > t.y
    BY <1>1
  <2>3. RightOf(s, t, L)
    BY <1>1, <1>2, <2>1, <2>2, PassRight
  <2>4. LeftOf(s, t, R)
    BY <1>1, <1>2, <2>1, <2>2, PassLeft
  <2> QED
    BY <1>5, <2>3, <2>4, ClearThrough DEF L, R
<1> QED
  BY <1>3, <1>4, <1>5 DEF Ends

LEMMA LeaveDown ==
    ASSUME NEW radius \in 0..74, NEW s \in Points, NEW t \in Points, NEW c, NEW h \in DOMAIN Holes,
           s.y <= 850, t.y > 850, s.x >= HoleL(h, radius), s.x <= HoleR(h, radius),
           Ends(s, Point(HoleR(h, radius), 850), Point(HoleL(h, radius), 850), t, c)
    PROVE  c \in Points /\ Clear(s, c, radius)
<1> DEFINE L == HoleL(h, radius)  R == HoleR(h, radius)
<1>1. L \in Int /\ R \in Int /\ L < R /\ s.y \in Int /\ t.y \in Int
  <2>1. L \in Int /\ R \in Int /\ L < R
    BY HoleSides
  <2> QED
    BY <2>1, PointIsPoint
<1>2. s.x >= L /\ s.x <= R
  OBVIOUS
<1> HIDE DEF L, R
<1>3. Ends(s, Point(R, 850), Point(L, 850), t, c)
  BY DEF L, R
<1>4. CASE c \in {Point(R, 850), Point(L, 850)}
  <2>1. c \in Points /\ c.x \in {L, R}
    BY <1>1, <1>4, PointIsPoint, PointFields
  <2>2. c.x >= L /\ c.x <= R
    BY <1>1, <2>1
  <2> QED
    BY <1>2, <2>1, <2>2, ClearInHole DEF L, R
<1>5. CASE c = t /\ Turn(s, Point(R, 850), t) >= 0 /\ Turn(s, Point(L, 850), t) <= 0
  <2>1. SideOf(s, t, R, 850) <= 0 /\ SideOf(s, t, L, 850) >= 0
    BY <1>1, <1>5, TurnToSide
  <2>2. s.y < t.y
    BY <1>1
  <2>3. RightOf(s, t, L)
    BY <1>1, <1>2, <2>1, <2>2, PassRight
  <2>4. LeftOf(s, t, R)
    BY <1>1, <1>2, <2>1, <2>2, PassLeft
  <2> QED
    BY <1>5, <2>3, <2>4, ClearThrough DEF L, R
<1> QED
  BY <1>3, <1>4, <1>5 DEF Ends

\* The corners of the paths through two portals
DownThrough(s, t, h, radius) ==
    CornerTwo(s, GateDown(h, 750, radius), GateDown(h, 850, radius), t)
UpThrough(s, t, h, radius) ==
    CornerTwo(s, GateUp(h, 850, radius), GateUp(h, 750, radius), t)
AcrossTheTop(s, t, h, g, radius) ==
    CornerTwo(s, GateUp(h, 750, radius), GateDown(g, 750, radius), t)
AcrossTheBottom(s, t, h, g, radius) ==
    CornerTwo(s, GateDown(h, 850, radius), GateUp(g, 850, radius), t)

\* Two portals: a squire that has to go through a hole
LEMMA PassDown ==
    ASSUME NEW radius \in 0..74, NEW s \in Points, NEW t \in Points, NEW h \in DOMAIN Holes,
           s.y < 750, t.y > 850
    PROVE  DownThrough(s, t, h, radius) \in Points /\ Clear(s, DownThrough(s, t, h, radius), radius)
<1>0. SUFFICES ASSUME NEW c, c = DownThrough(s, t, h, radius)
             PROVE  c \in Points /\ Clear(s, c, radius)
  OBVIOUS
<1> DEFINE L == HoleL(h, radius)  R == HoleR(h, radius)
           l == Point(R, 750)  r == Point(L, 750)  l2 == Point(R, 850)  r2 == Point(L, 850)
<1>1. L \in Int /\ R \in Int /\ L < R
  BY HoleSides
<1>2. s.x \in Int /\ s.y \in Int /\ t.x \in Int /\ t.y \in Int
  BY PointIsPoint
<1>3. c = CornerThrough(s, l, r, l2, r2, t)
  BY <1>0 DEF DownThrough, CornerThrough, GateDown
<1> HIDE DEF L, R
<1>4. /\ l \in Points /\ r \in Points /\ l2 \in Points /\ r2 \in Points
      /\ l.y = 750 /\ r.y = 750 /\ l2.y = 850 /\ r2.y = 850
      /\ l2.x = R /\ r2.x = L
  BY <1>1, PointIsPoint, PointFields
<1>5. LeftIn(s, l, l2) <=> s.x <= R
  <2>1. Turn(s, l, l2) = (R - s.x) * (850 - 750)
    BY <1>1, TurnInColumn
  <2> QED
    BY <1>1, <1>2, <2>1 DEF LeftIn
<1>6. RightIn(s, r, r2) <=> s.x >= L
  <2>1. Turn(s, r, r2) = (L - s.x) * (850 - 750)
    BY <1>1, TurnInColumn
  <2> QED
    BY <1>1, <1>2, <2>1 DEF RightIn
<1>7. Turn(s, l2, r2) > 0
  <2>1. Turn(s, l2, r2) = (850 - s.y) * (R - L)
    BY <1>1, TurnInRow
  <2>2. /\ 850 - s.y > 0 /\ R - L > 0 /\ 850 - s.y \in Int /\ R - L \in Int
    BY <1>1, <1>2
  <2> HIDE DEF l2, r2
  <2> QED
    BY <2>1, <2>2, Products
<1> HIDE DEF l, r, l2, r2
<1>8. s.y # t.y /\ s.y < t.y /\ s.y < 750 /\ 750 < t.y
  BY <1>2
\* A corner at the near end of the hole, and one at its far end
<1>9. c \in {l, r} => c \in Points /\ Clear(s, c, radius)
  BY <1>2, <1>4, ClearBeside
<1>10. ASSUME s.x <= R, Turn(s, r, l2) <= 0
       PROVE  Clear(s, l2, radius)
  <2>1. SideOf(s, l2, L, 750) >= 0
    BY <1>1, <1>4, <1>10, TurnToSide DEF r
  <2>2. RightOf(s, l2, L)
    <3>1. s.y < l2.y /\ l2.x >= L
      BY <1>1, <1>2, <1>4
    <3> QED
      BY <1>1, <1>4, <2>1, <3>1, PassRight
  <2>3. LeftOf(s, l2, R)
    BY <1>1, <1>4, <1>10 DEF LeftOf
  <2> QED
    BY <1>4, <2>2, <2>3, ClearThrough DEF L, R
<1>11. ASSUME s.x >= L, (s.x <= R) \/ Turn(s, l, r2) >= 0
       PROVE  Clear(s, r2, radius)
  <2>1. LeftOf(s, r2, R)
    <3>1. CASE s.x <= R
      BY <1>1, <1>4, <3>1 DEF LeftOf
    <3>2. CASE Turn(s, l, r2) >= 0
      <4>1. SideOf(s, r2, R, 750) <= 0
        BY <1>1, <1>4, <3>2, TurnToSide DEF l
      <4>2. s.y < r2.y /\ r2.x <= R
        BY <1>1, <1>2, <1>4
      <4> QED
        BY <1>1, <1>4, <4>1, <4>2, PassLeft
    <3> QED
      BY <1>11, <3>1, <3>2
  <2>2. RightOf(s, r2, L)
    BY <1>1, <1>4, <1>11 DEF RightOf
  <2> QED
    BY <1>4, <2>1, <2>2, ClearThrough DEF L, R
<1>12. /\ BeyondRight(s, l, r, l2) => c = r
       /\ ~BeyondRight(s, l, r, l2) /\ BeyondLeft(s, l, r, l2, r2) => c = NewLeft(s, l, l2)
       /\ ~BeyondRight(s, l, r, l2) /\ ~BeyondLeft(s, l, r, l2, r2)
            => Ends(s, NewLeft(s, l, l2), NewRight(s, r, r2), t, c)
  <2>1. l \in Points /\ r \in Points /\ l2 \in Points /\ r2 \in Points
    BY <1>4
  <2> QED
    BY <1>3, <2>1, ThroughTwo
<1>13. CASE BeyondRight(s, l, r, l2)
  BY <1>9, <1>12, <1>13
<1>14. CASE ~BeyondRight(s, l, r, l2) /\ BeyondLeft(s, l, r, l2, r2)
  <2>1. c = NewLeft(s, l, l2)
    BY <1>12, <1>14, Zenon
  <2>2. Turn(s, NewLeft(s, l, l2), r2) < 0
    BY <1>14 DEF BeyondLeft
  <2>3. c # l2
    <3>1. \A n \in Int : ~(n > 0 /\ n < 0)
      OBVIOUS
    <3>2. Turn(s, l2, r2) \in Int
      BY <1>1, <1>4, TurnToSide DEF l2
    <3> QED
      BY <1>7, <2>1, <2>2, <3>1, <3>2
  <2> QED
    BY <1>9, <2>1, <2>3 DEF NewLeft
<1>15. CASE ~BeyondRight(s, l, r, l2) /\ ~BeyondLeft(s, l, r, l2, r2)
  <2> DEFINE fl == NewLeft(s, l, l2)  fr == NewRight(s, r, r2)
  <2>1. Ends(s, fl, fr, t, c)
    BY <1>12, <1>15, Zenon
  <2>2. fl = IF s.x <= R THEN l2 ELSE l
    BY <1>5 DEF NewLeft
  <2>3. fr = IF s.x >= L THEN r2 ELSE r
    BY <1>6 DEF NewRight
  <2> HIDE DEF fl, fr
  <2>4. CASE c = fl
    <3>1. (s.x <= R) => Turn(s, r, l2) <= 0
      <4>1. Turn(s, r, l2) \in Int
        BY <1>1, <1>4, TurnToSide DEF r
      <4> QED
        BY <1>5, <1>15, <4>1 DEF BeyondRight
    <3> QED
      BY <1>4, <1>9, <1>10, <2>2, <2>4, <3>1
  <2>5. CASE c = fr
    <3>1. s.x >= L => (s.x <= R) \/ Turn(s, l, r2) >= 0
      <4>1. Turn(s, l, r2) \in Int
        BY <1>1, <1>4, TurnToSide DEF l
      <4> QED
        BY <1>5, <1>6, <1>15, <4>1 DEF BeyondLeft, NewLeft
    <3> QED
      BY <1>4, <1>9, <1>11, <2>3, <2>5, <3>1
  <2>6. CASE c = t /\ Turn(s, fl, t) >= 0 /\ Turn(s, fr, t) <= 0
    <3>1. LeftOf(s, t, R)
      <4>1. CASE s.x <= R
        <5>1. SideOf(s, t, R, 850) <= 0
          BY <1>1, <2>2, <2>6, <4>1, TurnToSide DEF l2
        <5> QED
          BY <1>1, <1>8, <4>1, <5>1, PassLeft
      <4>2. CASE ~(s.x <= R)
        <5>1. SideOf(s, t, R, 750) <= 0
          BY <1>1, <2>2, <2>6, <4>2, TurnToSide DEF l
        <5>2. s.x >= R
          BY <1>1, <1>2, <4>2
        <5>3. t.x <= R
          BY <1>1, <1>8, <5>1, <5>2, Crossed
        <5> QED
          BY <1>1, <1>8, <5>1, <5>3, PassLeft
      <4> QED
        BY <4>1, <4>2
    <3>2. RightOf(s, t, L)
      <4>1. CASE s.x >= L
        <5>1. SideOf(s, t, L, 850) >= 0
          BY <1>1, <2>3, <2>6, <4>1, TurnToSide DEF r2
        <5> QED
          BY <1>1, <1>8, <4>1, <5>1, PassRight
      <4>2. CASE ~(s.x >= L)
        <5>1. SideOf(s, t, L, 750) >= 0
          BY <1>1, <2>3, <2>6, <4>2, TurnToSide DEF r
        <5>2. s.x <= L
          BY <1>1, <1>2, <4>2
        <5>3. t.x >= L
          BY <1>1, <1>8, <5>1, <5>2, Crossed
        <5> QED
          BY <1>1, <1>8, <5>1, <5>3, PassRight
      <4> QED
        BY <4>1, <4>2
    <3> QED
      BY <2>6, <3>1, <3>2, ClearThrough DEF L, R
  <2> QED
    BY <2>1, <2>4, <2>5, <2>6 DEF Ends
<1> QED
  BY <1>13, <1>14, <1>15

LEMMA PassUp ==
    ASSUME NEW radius \in 0..74, NEW s \in Points, NEW t \in Points, NEW h \in DOMAIN Holes,
           s.y > 850, t.y < 750
    PROVE  UpThrough(s, t, h, radius) \in Points /\ Clear(s, UpThrough(s, t, h, radius), radius)
<1>0. SUFFICES ASSUME NEW c, c = UpThrough(s, t, h, radius)
             PROVE  c \in Points /\ Clear(s, c, radius)
  OBVIOUS
<1> DEFINE L == HoleL(h, radius)  R == HoleR(h, radius)
           l == Point(L, 850)  r == Point(R, 850)  l2 == Point(L, 750)  r2 == Point(R, 750)
<1>1. L \in Int /\ R \in Int /\ L < R
  BY HoleSides
<1>2. s.x \in Int /\ s.y \in Int /\ t.x \in Int /\ t.y \in Int
  BY PointIsPoint
<1>3. c = CornerThrough(s, l, r, l2, r2, t)
  BY <1>0 DEF UpThrough, CornerThrough, GateUp
<1> HIDE DEF L, R
<1>4. /\ l \in Points /\ r \in Points /\ l2 \in Points /\ r2 \in Points
      /\ l.y = 850 /\ r.y = 850 /\ l2.y = 750 /\ r2.y = 750
      /\ l2.x = L /\ r2.x = R
  BY <1>1, PointIsPoint, PointFields
<1>5. LeftIn(s, l, l2) <=> s.x >= L
  <2>1. Turn(s, l, l2) = (L - s.x) * (750 - 850)
    BY <1>1, TurnInColumn
  <2> QED
    BY <1>1, <1>2, <2>1 DEF LeftIn
<1>6. RightIn(s, r, r2) <=> s.x <= R
  <2>1. Turn(s, r, r2) = (R - s.x) * (750 - 850)
    BY <1>1, TurnInColumn
  <2> QED
    BY <1>1, <1>2, <2>1 DEF RightIn
<1>7. Turn(s, l2, r2) > 0
  <2>1. Turn(s, l2, r2) = (750 - s.y) * (L - R)
    BY <1>1, TurnInRow
  <2>2. /\ 750 - s.y < 0 /\ L - R < 0 /\ 750 - s.y \in Int /\ L - R \in Int
    BY <1>1, <1>2
  <2> HIDE DEF l2, r2
  <2> QED
    BY <2>1, <2>2, Products
<1> HIDE DEF l, r, l2, r2
<1>8. s.y # t.y /\ s.y > t.y /\ s.y > 850 /\ 850 > t.y
  BY <1>2
\* A corner at the near end of the hole, and one at its far end
<1>9. c \in {l, r} => c \in Points /\ Clear(s, c, radius)
  BY <1>2, <1>4, ClearBeside
<1>10. ASSUME s.x >= L, Turn(s, r, l2) <= 0
       PROVE  Clear(s, l2, radius)
  <2>1. SideOf(s, l2, R, 850) >= 0
    BY <1>1, <1>4, <1>10, TurnToSide DEF r
  <2>2. LeftOf(s, l2, R)
    <3>1. s.y > l2.y /\ l2.x <= R
      BY <1>1, <1>2, <1>4
    <3> QED
      BY <1>1, <1>4, <2>1, <3>1, PassLeft
  <2>3. RightOf(s, l2, L)
    BY <1>1, <1>4, <1>10 DEF RightOf
  <2> QED
    BY <1>4, <2>2, <2>3, ClearThrough DEF L, R
<1>11. ASSUME s.x <= R, (s.x >= L) \/ Turn(s, l, r2) >= 0
       PROVE  Clear(s, r2, radius)
  <2>1. RightOf(s, r2, L)
    <3>1. CASE s.x >= L
      BY <1>1, <1>4, <3>1 DEF RightOf
    <3>2. CASE Turn(s, l, r2) >= 0
      <4>1. SideOf(s, r2, L, 850) <= 0
        BY <1>1, <1>4, <3>2, TurnToSide DEF l
      <4>2. s.y > r2.y /\ r2.x >= L
        BY <1>1, <1>2, <1>4
      <4> QED
        BY <1>1, <1>4, <4>1, <4>2, PassRight
    <3> QED
      BY <1>11, <3>1, <3>2
  <2>2. LeftOf(s, r2, R)
    BY <1>1, <1>4, <1>11 DEF LeftOf
  <2> QED
    BY <1>4, <2>1, <2>2, ClearThrough DEF L, R
<1>12. /\ BeyondRight(s, l, r, l2) => c = r
       /\ ~BeyondRight(s, l, r, l2) /\ BeyondLeft(s, l, r, l2, r2) => c = NewLeft(s, l, l2)
       /\ ~BeyondRight(s, l, r, l2) /\ ~BeyondLeft(s, l, r, l2, r2)
            => Ends(s, NewLeft(s, l, l2), NewRight(s, r, r2), t, c)
  <2>1. l \in Points /\ r \in Points /\ l2 \in Points /\ r2 \in Points
    BY <1>4
  <2> QED
    BY <1>3, <2>1, ThroughTwo
<1>13. CASE BeyondRight(s, l, r, l2)
  BY <1>9, <1>12, <1>13
<1>14. CASE ~BeyondRight(s, l, r, l2) /\ BeyondLeft(s, l, r, l2, r2)
  <2>1. c = NewLeft(s, l, l2)
    BY <1>12, <1>14, Zenon
  <2>2. Turn(s, NewLeft(s, l, l2), r2) < 0
    BY <1>14 DEF BeyondLeft
  <2>3. c # l2
    <3>1. \A n \in Int : ~(n > 0 /\ n < 0)
      OBVIOUS
    <3>2. Turn(s, l2, r2) \in Int
      BY <1>1, <1>4, TurnToSide DEF l2
    <3> QED
      BY <1>7, <2>1, <2>2, <3>1, <3>2
  <2> QED
    BY <1>9, <2>1, <2>3 DEF NewLeft
<1>15. CASE ~BeyondRight(s, l, r, l2) /\ ~BeyondLeft(s, l, r, l2, r2)
  <2> DEFINE fl == NewLeft(s, l, l2)  fr == NewRight(s, r, r2)
  <2>1. Ends(s, fl, fr, t, c)
    BY <1>12, <1>15, Zenon
  <2>2. fl = IF s.x >= L THEN l2 ELSE l
    BY <1>5 DEF NewLeft
  <2>3. fr = IF s.x <= R THEN r2 ELSE r
    BY <1>6 DEF NewRight
  <2> HIDE DEF fl, fr
  <2>4. CASE c = fl
    <3>1. (s.x >= L) => Turn(s, r, l2) <= 0
      <4>1. Turn(s, r, l2) \in Int
        BY <1>1, <1>4, TurnToSide DEF r
      <4> QED
        BY <1>5, <1>15, <4>1 DEF BeyondRight
    <3> QED
      BY <1>4, <1>9, <1>10, <2>2, <2>4, <3>1
  <2>5. CASE c = fr
    <3>1. s.x <= R => (s.x >= L) \/ Turn(s, l, r2) >= 0
      <4>1. Turn(s, l, r2) \in Int
        BY <1>1, <1>4, TurnToSide DEF l
      <4> QED
        BY <1>5, <1>6, <1>15, <4>1 DEF BeyondLeft, NewLeft
    <3> QED
      BY <1>4, <1>9, <1>11, <2>3, <2>5, <3>1
  <2>6. CASE c = t /\ Turn(s, fl, t) >= 0 /\ Turn(s, fr, t) <= 0
    <3>1. RightOf(s, t, L)
      <4>1. CASE s.x >= L
        <5>1. SideOf(s, t, L, 750) <= 0
          BY <1>1, <2>2, <2>6, <4>1, TurnToSide DEF l2
        <5> QED
          BY <1>1, <1>8, <4>1, <5>1, PassRight
      <4>2. CASE ~(s.x >= L)
        <5>1. SideOf(s, t, L, 850) <= 0
          BY <1>1, <2>2, <2>6, <4>2, TurnToSide DEF l
        <5>2. s.x <= L
          BY <1>1, <1>2, <4>2
        <5>3. t.x >= L
          BY <1>1, <1>8, <5>1, <5>2, Crossed
        <5> QED
          BY <1>1, <1>8, <5>1, <5>3, PassRight
      <4> QED
        BY <4>1, <4>2
    <3>2. LeftOf(s, t, R)
      <4>1. CASE s.x <= R
        <5>1. SideOf(s, t, R, 750) >= 0
          BY <1>1, <2>3, <2>6, <4>1, TurnToSide DEF r2
        <5> QED
          BY <1>1, <1>8, <4>1, <5>1, PassLeft
      <4>2. CASE ~(s.x <= R)
        <5>1. SideOf(s, t, R, 850) >= 0
          BY <1>1, <2>3, <2>6, <4>2, TurnToSide DEF r
        <5>2. s.x >= R
          BY <1>1, <1>2, <4>2
        <5>3. t.x <= R
          BY <1>1, <1>8, <5>1, <5>2, Crossed
        <5> QED
          BY <1>1, <1>8, <5>1, <5>3, PassLeft
      <4> QED
        BY <4>1, <4>2
    <3> QED
      BY <2>6, <3>1, <3>2, ClearThrough DEF L, R
  <2> QED
    BY <2>1, <2>4, <2>5, <2>6 DEF Ends
<1> QED
  BY <1>13, <1>14, <1>15

\* From one hole to the other one, around the shield between them
LEMMA AcrossTop ==
    ASSUME NEW radius \in 0..74, NEW s \in Points, NEW t \in Points,
           NEW h \in DOMAIN Holes, NEW g \in DOMAIN Holes, h # g,
           s.y >= 750, s.x > HoleL(h, radius), s.x < HoleR(h, radius)
    PROVE  AcrossTheTop(s, t, h, g, radius) \in Points /\ Clear(s, AcrossTheTop(s, t, h, g, radius), radius)
<1>0. SUFFICES ASSUME NEW c, c = AcrossTheTop(s, t, h, g, radius)
             PROVE  c \in Points /\ Clear(s, c, radius)
  OBVIOUS
<1> DEFINE L == HoleL(h, radius)  R == HoleR(h, radius)
           M == HoleL(g, radius)  N == HoleR(g, radius)
           l == Point(L, 750)  r == Point(R, 750)  l2 == Point(N, 750)  r2 == Point(M, 750)
           a == 750 - s.y
<1>1. /\ L \in Int /\ R \in Int /\ M \in Int /\ N \in Int /\ L < R /\ M < N
      /\ R < M \/ N < L
  BY HoleSides
<1>2. s.x \in Int /\ s.y \in Int /\ t.x \in Int /\ t.y \in Int /\ s.x > L /\ s.x < R
  BY PointIsPoint
<1>3. c = CornerThrough(s, l, r, l2, r2, t)
  BY <1>0 DEF AcrossTheTop, CornerThrough, GateUp, GateDown
<1> HIDE DEF L, R, M, N
<1>4. /\ l \in Points /\ r \in Points /\ l2 \in Points /\ r2 \in Points
      /\ l.y = 750 /\ r.y = 750 /\ l2.y = 750 /\ r2.y = 750
      /\ l.x = L /\ r.x = R
  BY <1>1, PointIsPoint, PointFields
<1>5. a \in Int /\ a <= 0
  BY <1>2
<1>6. /\ Turn(s, l, l2) = a * (L - N) /\ Turn(s, r, l2) = a * (R - N)
      /\ Turn(s, r, r2) = a * (R - M) /\ Turn(s, l, r2) = a * (L - M)
  BY <1>1, TurnInRow
<1>7. Turn(s, l2, r2) = a * (N - M)
  BY <1>1, TurnInRow
<1>8. /\ Turn(s, l2, t) = (N - s.x) * (t.y - s.y) - a * (t.x - s.x)
      /\ Turn(s, r2, t) = (M - s.x) * (t.y - s.y) - a * (t.x - s.x)
  BY PointFields DEF Turn, Cross, Minus
<1> HIDE DEF a, l, r, l2, r2
<1>9. /\ BeyondRight(s, l, r, l2) => c = r
      /\ ~BeyondRight(s, l, r, l2) /\ BeyondLeft(s, l, r, l2, r2) => c = NewLeft(s, l, l2)
      /\ ~BeyondRight(s, l, r, l2) /\ ~BeyondLeft(s, l, r, l2, r2)
           => Ends(s, NewLeft(s, l, l2), NewRight(s, r, r2), t, c)
  <2>1. l \in Points /\ r \in Points /\ l2 \in Points /\ r2 \in Points
    BY <1>4
  <2> QED
    BY <1>3, <2>1, ThroughTwo
\* Before it has reached the end of its hole, a squire goes there.
<1>10. c \in {l, r} => c \in Points /\ Clear(s, c, radius)
  <2> SUFFICES ASSUME c \in {l, r}
               PROVE  c \in Points /\ Clear(s, c, radius)
    OBVIOUS
  <2>1. c \in Points /\ c.x >= L /\ c.x <= R
    BY <1>1, <1>4
  <2>2. s.x >= L /\ s.x <= R
    BY <1>1, <1>2
  <2> QED
    BY <2>1, <2>2, ClearInHole DEF L, R
<1>11. CASE a # 0 /\ R < M
  <2>1. Turn(s, l, l2) >= 0 /\ Turn(s, r, l2) > 0
    <3> DEFINE u == L - N  v == R - N
    <3>1. a < 0 /\ u \in Int /\ v \in Int /\ u < 0 /\ v < 0
      BY <1>1, <1>5, <1>11
    <3>2. Turn(s, l, l2) = a * u /\ Turn(s, r, l2) = a * v
      BY <1>6
    <3> HIDE DEF u, v
    <3>3. a * u >= 0 /\ a * v > 0
      BY <1>5, <3>1, Products
    <3> QED
      BY <3>2, <3>3
  <2>2. BeyondRight(s, l, r, l2)
    BY <2>1 DEF BeyondRight, LeftIn
  <2> QED
    BY <1>9, <1>10, <2>2
<1>12. CASE a # 0 /\ N < L
  <2>1. Turn(s, l, l2) < 0 /\ Turn(s, r, r2) < 0 /\ Turn(s, l, r2) < 0
    <3> DEFINE u == L - N  v == R - M  w == L - M
    <3>1. /\ a < 0 /\ u \in Int /\ v \in Int /\ w \in Int
          /\ u > 0 /\ v > 0 /\ w > 0
      BY <1>1, <1>5, <1>12
    <3>2. Turn(s, l, l2) = a * u /\ Turn(s, r, r2) = a * v /\ Turn(s, l, r2) = a * w
      BY <1>6
    <3> HIDE DEF u, v, w
    <3>3. a * u < 0 /\ a * v < 0 /\ a * w < 0
      BY <1>5, <3>1, Products
    <3> QED
      BY <3>2, <3>3
  <2>2. /\ Turn(s, l, l2) \in Int /\ Turn(s, r, r2) \in Int
    <3> DEFINE u == L - N  v == R - M
    <3>1. u \in Int /\ v \in Int
      BY <1>1
    <3>2. Turn(s, l, l2) = a * u /\ Turn(s, r, r2) = a * v
      BY <1>6
    <3> HIDE DEF u, v
    <3> QED
      BY <1>5, <3>1, <3>2
  <2>3. ~LeftIn(s, l, l2) /\ RightIn(s, r, r2)
    BY <2>1, <2>2 DEF LeftIn, RightIn
  <2>4. NewLeft(s, l, l2) = l /\ ~BeyondRight(s, l, r, l2)
    BY <2>3 DEF NewLeft, BeyondRight
  <2>5. BeyondLeft(s, l, r, l2, r2)
    BY <2>1, <2>3, <2>4 DEF BeyondLeft
  <2> QED
    BY <1>9, <1>10, <2>4, <2>5
\* At the end of its hole, it goes along the row, if it goes to the other hole at all.
<1>13. CASE a = 0
  <2>1. /\ Turn(s, l, l2) = 0 /\ Turn(s, r, l2) = 0 /\ Turn(s, r, r2) = 0
        /\ Turn(s, l, r2) = 0 /\ Turn(s, l2, r2) = 0
    BY <1>1, <1>6, <1>7, <1>13
  <2>2. NewLeft(s, l, l2) = l2 /\ NewRight(s, r, r2) = r2
    BY <2>1 DEF NewLeft, NewRight, LeftIn, RightIn
  <2>3. ~BeyondRight(s, l, r, l2) /\ ~BeyondLeft(s, l, r, l2, r2)
    BY <2>1, <2>2 DEF BeyondRight, BeyondLeft
  <2>4. Ends(s, l2, r2, t, c)
    BY <1>9, <2>2, <2>3
  <2>5. s.y = 750
    BY <1>2, <1>13 DEF a
  <2>6. CASE c \in {l2, r2}
    BY <1>4, <2>5, <2>6, ClearBeside
  <2>7. CASE c = t /\ Turn(s, l2, t) >= 0 /\ Turn(s, r2, t) <= 0
    <3> DEFINE u == N - s.x  v == M - s.x  w == t.y - s.y
    <3>1. u \in Int /\ v \in Int /\ w \in Int /\ t.x - s.x \in Int
      BY <1>1, <1>2
    <3>2. (u > 0 /\ v > 0) \/ (u < 0 /\ v < 0)
      BY <1>1, <1>2
    <3>3. Turn(s, l2, t) = u * w - 0 * (t.x - s.x) /\ Turn(s, r2, t) = v * w - 0 * (t.x - s.x)
      BY <1>8, <1>13
    <3> HIDE DEF u, v, w
    <3>4. u * w \in Int /\ v * w \in Int /\ 0 * (t.x - s.x) = 0
      BY <3>1
    <3>5. u * w >= 0 /\ v * w <= 0
      BY <2>7, <3>3, <3>4
    <3>6. ~(w > 0)
      BY <3>1, <3>2, <3>4, <3>5, Products
    <3>7. ~(w < 0)
      BY <3>1, <3>2, <3>4, <3>5, Products
    <3>8. t.y = s.y
      <4>1. w = 0
        BY <3>1, <3>6, <3>7
      <4> QED
        BY <1>2, <4>1 DEF w
    <3>9. s.y <= 750 /\ t.y <= 750
      BY <2>5, <3>8
    <3>10. Clear(s, t, radius)
      BY <3>9, ClearBeside
    <3> QED
      BY <2>7, <3>10
  <2> QED
    BY <2>4, <2>6, <2>7 DEF Ends
<1> QED
  BY <1>1, <1>11, <1>12, <1>13

LEMMA AcrossBottom ==
    ASSUME NEW radius \in 0..74, NEW s \in Points, NEW t \in Points,
           NEW h \in DOMAIN Holes, NEW g \in DOMAIN Holes, h # g,
           s.y <= 850, s.x > HoleL(h, radius), s.x < HoleR(h, radius)
    PROVE  AcrossTheBottom(s, t, h, g, radius) \in Points /\ Clear(s, AcrossTheBottom(s, t, h, g, radius), radius)
<1>0. SUFFICES ASSUME NEW c, c = AcrossTheBottom(s, t, h, g, radius)
             PROVE  c \in Points /\ Clear(s, c, radius)
  OBVIOUS
<1> DEFINE L == HoleL(h, radius)  R == HoleR(h, radius)
           M == HoleL(g, radius)  N == HoleR(g, radius)
           l == Point(R, 850)  r == Point(L, 850)  l2 == Point(M, 850)  r2 == Point(N, 850)
           a == 850 - s.y
<1>1. /\ L \in Int /\ R \in Int /\ M \in Int /\ N \in Int /\ L < R /\ M < N
      /\ R < M \/ N < L
  BY HoleSides
<1>2. s.x \in Int /\ s.y \in Int /\ t.x \in Int /\ t.y \in Int /\ s.x > L /\ s.x < R
  BY PointIsPoint
<1>3. c = CornerThrough(s, l, r, l2, r2, t)
  BY <1>0 DEF AcrossTheBottom, CornerThrough, GateDown, GateUp
<1> HIDE DEF L, R, M, N
<1>4. /\ l \in Points /\ r \in Points /\ l2 \in Points /\ r2 \in Points
      /\ l.y = 850 /\ r.y = 850 /\ l2.y = 850 /\ r2.y = 850
      /\ l.x = R /\ r.x = L
  BY <1>1, PointIsPoint, PointFields
<1>5. a \in Int /\ a >= 0
  BY <1>2
<1>6. /\ Turn(s, l, l2) = a * (R - M) /\ Turn(s, r, l2) = a * (L - M)
      /\ Turn(s, r, r2) = a * (L - N) /\ Turn(s, l, r2) = a * (R - N)
  BY <1>1, TurnInRow
<1>7. Turn(s, l2, r2) = a * (M - N)
  BY <1>1, TurnInRow
<1>8. /\ Turn(s, l2, t) = (M - s.x) * (t.y - s.y) - a * (t.x - s.x)
      /\ Turn(s, r2, t) = (N - s.x) * (t.y - s.y) - a * (t.x - s.x)
  BY PointFields DEF Turn, Cross, Minus
<1> HIDE DEF a, l, r, l2, r2
<1>9. /\ BeyondRight(s, l, r, l2) => c = r
      /\ ~BeyondRight(s, l, r, l2) /\ BeyondLeft(s, l, r, l2, r2) => c = NewLeft(s, l, l2)
      /\ ~BeyondRight(s, l, r, l2) /\ ~BeyondLeft(s, l, r, l2, r2)
           => Ends(s, NewLeft(s, l, l2), NewRight(s, r, r2), t, c)
  <2>1. l \in Points /\ r \in Points /\ l2 \in Points /\ r2 \in Points
    BY <1>4
  <2> QED
    BY <1>3, <2>1, ThroughTwo
\* Before it has reached the end of its hole, a squire goes there.
<1>10. c \in {l, r} => c \in Points /\ Clear(s, c, radius)
  <2> SUFFICES ASSUME c \in {l, r}
               PROVE  c \in Points /\ Clear(s, c, radius)
    OBVIOUS
  <2>1. c \in Points /\ c.x >= L /\ c.x <= R
    BY <1>1, <1>4
  <2>2. s.x >= L /\ s.x <= R
    BY <1>1, <1>2
  <2> QED
    BY <2>1, <2>2, ClearInHole DEF L, R
<1>11. CASE a # 0 /\ N < L
  <2>1. Turn(s, l, l2) >= 0 /\ Turn(s, r, l2) > 0
    <3> DEFINE u == R - M  v == L - M
    <3>1. a > 0 /\ u \in Int /\ v \in Int /\ u > 0 /\ v > 0
      BY <1>1, <1>5, <1>11
    <3>2. Turn(s, l, l2) = a * u /\ Turn(s, r, l2) = a * v
      BY <1>6
    <3> HIDE DEF u, v
    <3>3. a * u >= 0 /\ a * v > 0
      BY <1>5, <3>1, Products
    <3> QED
      BY <3>2, <3>3
  <2>2. BeyondRight(s, l, r, l2)
    BY <2>1 DEF BeyondRight, LeftIn
  <2> QED
    BY <1>9, <1>10, <2>2
<1>12. CASE a # 0 /\ R < M
  <2>1. Turn(s, l, l2) < 0 /\ Turn(s, r, r2) < 0 /\ Turn(s, l, r2) < 0
    <3> DEFINE u == R - M  v == L - N  w == R - N
    <3>1. /\ a > 0 /\ u \in Int /\ v \in Int /\ w \in Int
          /\ u < 0 /\ v < 0 /\ w < 0
      BY <1>1, <1>5, <1>12
    <3>2. Turn(s, l, l2) = a * u /\ Turn(s, r, r2) = a * v /\ Turn(s, l, r2) = a * w
      BY <1>6
    <3> HIDE DEF u, v, w
    <3>3. a * u < 0 /\ a * v < 0 /\ a * w < 0
      BY <1>5, <3>1, Products
    <3> QED
      BY <3>2, <3>3
  <2>2. /\ Turn(s, l, l2) \in Int /\ Turn(s, r, r2) \in Int
    <3> DEFINE u == R - M  v == L - N
    <3>1. u \in Int /\ v \in Int
      BY <1>1
    <3>2. Turn(s, l, l2) = a * u /\ Turn(s, r, r2) = a * v
      BY <1>6
    <3> HIDE DEF u, v
    <3> QED
      BY <1>5, <3>1, <3>2
  <2>3. ~LeftIn(s, l, l2) /\ RightIn(s, r, r2)
    BY <2>1, <2>2 DEF LeftIn, RightIn
  <2>4. NewLeft(s, l, l2) = l /\ ~BeyondRight(s, l, r, l2)
    BY <2>3 DEF NewLeft, BeyondRight
  <2>5. BeyondLeft(s, l, r, l2, r2)
    BY <2>1, <2>3, <2>4 DEF BeyondLeft
  <2> QED
    BY <1>9, <1>10, <2>4, <2>5
\* At the end of its hole, it goes along the row, if it goes to the other hole at all.
<1>13. CASE a = 0
  <2>1. /\ Turn(s, l, l2) = 0 /\ Turn(s, r, l2) = 0 /\ Turn(s, r, r2) = 0
        /\ Turn(s, l, r2) = 0 /\ Turn(s, l2, r2) = 0
    BY <1>1, <1>6, <1>7, <1>13
  <2>2. NewLeft(s, l, l2) = l2 /\ NewRight(s, r, r2) = r2
    BY <2>1 DEF NewLeft, NewRight, LeftIn, RightIn
  <2>3. ~BeyondRight(s, l, r, l2) /\ ~BeyondLeft(s, l, r, l2, r2)
    BY <2>1, <2>2 DEF BeyondRight, BeyondLeft
  <2>4. Ends(s, l2, r2, t, c)
    BY <1>9, <2>2, <2>3
  <2>5. s.y = 850
    BY <1>2, <1>13 DEF a
  <2>6. CASE c \in {l2, r2}
    BY <1>4, <2>5, <2>6, ClearBeside
  <2>7. CASE c = t /\ Turn(s, l2, t) >= 0 /\ Turn(s, r2, t) <= 0
    <3> DEFINE u == M - s.x  v == N - s.x  w == t.y - s.y
    <3>1. u \in Int /\ v \in Int /\ w \in Int /\ t.x - s.x \in Int
      BY <1>1, <1>2
    <3>2. (u > 0 /\ v > 0) \/ (u < 0 /\ v < 0)
      BY <1>1, <1>2
    <3>3. Turn(s, l2, t) = u * w - 0 * (t.x - s.x) /\ Turn(s, r2, t) = v * w - 0 * (t.x - s.x)
      BY <1>8, <1>13
    <3> HIDE DEF u, v, w
    <3>4. u * w \in Int /\ v * w \in Int /\ 0 * (t.x - s.x) = 0
      BY <3>1
    <3>5. u * w >= 0 /\ v * w <= 0
      BY <2>7, <3>3, <3>4
    <3>6. ~(w > 0)
      BY <3>1, <3>2, <3>4, <3>5, Products
    <3>7. ~(w < 0)
      BY <3>1, <3>2, <3>4, <3>5, Products
    <3>8. t.y = s.y
      <4>1. w = 0
        BY <3>1, <3>6, <3>7
      <4> QED
        BY <1>2, <4>1 DEF w
    <3>9. s.y >= 850 /\ t.y >= 850
      BY <2>5, <3>8
    <3>10. Clear(s, t, radius)
      BY <3>9, ClearBeside
    <3> QED
      BY <2>7, <3>10
  <2> QED
    BY <2>4, <2>6, <2>7 DEF Ends
<1> QED
  BY <1>1, <1>11, <1>12, <1>13

\* The portals of a path
One(a) == <<a>>
Two(a, b) == <<a, b>>

\* Wherever a squire and its target are, the segment to the next corner is clear.
LEMMA CornerClear ==
    ASSUME NEW radius \in 0..74, NEW s \in Points, NEW t \in Points, NEW c,
           c = FindNextCornerInPath(s, t, radius),
           Location(s, radius) # "nowhere", Location(t, radius) # "nowhere"
    PROVE  c \in Points /\ Clear(s, c, radius)
<1> DEFINE src == Location(s, radius)
           dst == Location(t, radius)
           portals == PortalsBetween(src, dst, s, radius)
           hole == HoleOnSide(s)
<1>1. c = NextCornerInPath(FindPath(s, t, radius), s)
  BY DEF FindNextCornerInPath
<1>2. s.x \in Int /\ s.y \in Int /\ t.x \in Int /\ t.y \in Int
  BY PointIsPoint
<1>3. DOMAIN Holes = {"lefthole", "righthole"}
  BY DEF Holes
<1>4. /\ src \in {"top", "bottom"} \cup DOMAIN Holes
      /\ dst \in {"top", "bottom"} \cup DOMAIN Holes
  BY <1>3, LocationIs
<1>5. /\ src = "top" <=> s.y < 750
      /\ src = "bottom" <=> s.y > 850
      /\ dst = "top" <=> t.y < 750
      /\ dst = "bottom" <=> t.y > 850
  BY LocationIs
<1>6. src \in DOMAIN Holes =>
        /\ s.y >= 750 /\ s.y <= 850
        /\ s.x > HoleL(src, radius) /\ s.x < HoleR(src, radius)
        /\ s.x >= HoleL(src, radius) /\ s.x <= HoleR(src, radius)
  <2> SUFFICES ASSUME src \in DOMAIN Holes
               PROVE  /\ s.y >= 750 /\ s.y <= 850
                      /\ s.x > HoleL(src, radius) /\ s.x < HoleR(src, radius)
                      /\ s.x >= HoleL(src, radius) /\ s.x <= HoleR(src, radius)
    OBVIOUS
  <2>1. s.y >= 750 /\ s.y <= 850 /\ s.x > HoleL(src, radius) /\ s.x < HoleR(src, radius)
    BY LocationIs
  <2>2. HoleL(src, radius) \in Int /\ HoleR(src, radius) \in Int
    BY HoleSides
  <2> HIDE DEF src
  <2> QED
    BY <1>2, <2>1, <2>2
<1>7. dst \in DOMAIN Holes =>
        /\ t.y >= 750 /\ t.y <= 850
        /\ t.x >= HoleL(dst, radius) /\ t.x <= HoleR(dst, radius)
  <2> SUFFICES ASSUME dst \in DOMAIN Holes
               PROVE  /\ t.y >= 750 /\ t.y <= 850
                      /\ t.x >= HoleL(dst, radius) /\ t.x <= HoleR(dst, radius)
    OBVIOUS
  <2>1. t.y >= 750 /\ t.y <= 850 /\ t.x > HoleL(dst, radius) /\ t.x < HoleR(dst, radius)
    BY LocationIs
  <2>2. HoleL(dst, radius) \in Int /\ HoleR(dst, radius) \in Int
    BY HoleSides
  <2> HIDE DEF dst
  <2> QED
    BY <1>2, <2>1, <2>2
<1>8. /\ src = "top" /\ dst = "bottom" =>
           portals = Two(GateDown(hole, 750, radius), GateDown(hole, 850, radius))
      /\ src = "bottom" /\ dst = "top" =>
           portals = Two(GateUp(hole, 850, radius), GateUp(hole, 750, radius))
      /\ src = "top" /\ dst \in DOMAIN Holes => portals = One(GateDown(dst, 750, radius))
      /\ src = "bottom" /\ dst \in DOMAIN Holes => portals = One(GateUp(dst, 850, radius))
      /\ src \in DOMAIN Holes /\ dst = "top" => portals = One(GateUp(src, 750, radius))
      /\ src \in DOMAIN Holes /\ dst = "bottom" => portals = One(GateDown(src, 850, radius))
      /\ src \in DOMAIN Holes /\ dst \in DOMAIN Holes \ {src} /\ s.y < 800 =>
           portals = Two(GateUp(src, 750, radius), GateDown(dst, 750, radius))
      /\ src \in DOMAIN Holes /\ dst \in DOMAIN Holes \ {src} /\ ~(s.y < 800) =>
           portals = Two(GateDown(src, 850, radius), GateUp(dst, 850, radius))
      /\ src = dst /\ src \in {"top", "bottom", "lefthole", "righthole"} => portals = <<>>
  BY PortalsAre DEF One, Two
<1>9. hole \in DOMAIN Holes
  BY <1>3 DEF HoleOnSide
<1>10. /\ portals = <<>> => c = NextCornerInPath(<<Goal(t)>>, s)
       /\ \A a : portals = One(a) => c = CornerOne(s, a, t)
       /\ \A a, b : portals = Two(a, b) => c = CornerTwo(s, a, b, t)
  <2>1. /\ portals = <<>> => FindPath(s, t, radius) = <<Goal(t)>>
        /\ \A a : portals = <<a>> => FindPath(s, t, radius) = <<a, Goal(t)>>
        /\ \A a, b : portals = <<a, b>> => FindPath(s, t, radius) = <<a, b, Goal(t)>>
    BY PathIs
  <2> HIDE DEF portals
  <2> QED
    BY <1>1, <2>1 DEF One, Two, CornerOne, CornerTwo
<1> HIDE DEF src, dst, portals, hole
<1>11. ASSUME src = dst
       PROVE  c \in Points /\ Clear(s, c, radius)
  <2>1. portals = <<>>
    BY <1>3, <1>4, <1>8, <1>11
  <2>2. c = t
    BY <1>10, <2>1, FunnelOfOne DEF Goal, Gate
  <2>3. CASE src \in {"top", "bottom"}
    BY <1>2, <1>5, <1>11, <2>2, <2>3, ClearBeside
  <2>4. CASE src \in DOMAIN Holes
    BY <1>6, <1>7, <1>11, <2>2, <2>4, ClearInHole
  <2> QED
    BY <1>4, <2>3, <2>4
<1>12. ASSUME src = "top", dst = "bottom"
       PROVE  c \in Points /\ Clear(s, c, radius)
  <2>1. c = CornerTwo(s, GateDown(hole, 750, radius), GateDown(hole, 850, radius), t)
    BY <1>8, <1>10, <1>12
  <2>2. s.y < 750 /\ t.y > 850
    BY <1>5, <1>12
  <2> QED
    <3>1. DownThrough(s, t, hole, radius) \in Points /\ Clear(s, DownThrough(s, t, hole, radius), radius)
      BY <1>9, <2>2, PassDown
    <3> QED
      BY <2>1, <3>1 DEF DownThrough
<1>13. ASSUME src = "bottom", dst = "top"
       PROVE  c \in Points /\ Clear(s, c, radius)
  <2>1. c = CornerTwo(s, GateUp(hole, 850, radius), GateUp(hole, 750, radius), t)
    BY <1>8, <1>10, <1>13
  <2>2. s.y > 850 /\ t.y < 750
    BY <1>5, <1>13
  <2> QED
    <3>1. UpThrough(s, t, hole, radius) \in Points /\ Clear(s, UpThrough(s, t, hole, radius), radius)
      BY <1>9, <2>2, PassUp
    <3> QED
      BY <2>1, <3>1 DEF UpThrough
<1>14. ASSUME NEW h \in DOMAIN Holes, NEW y \in Int
       PROVE  /\ \A a, b : a = Point(HoleR(h, radius), y) /\ b = Point(HoleL(h, radius), y)
                    /\ c = CornerOne(s, GateDown(h, y, radius), t) => Ends(s, a, b, t, c)
              /\ \A a, b : a = Point(HoleL(h, radius), y) /\ b = Point(HoleR(h, radius), y)
                    /\ c = CornerOne(s, GateUp(h, y, radius), t) => Ends(s, a, b, t, c)
  <2>1. Point(HoleR(h, radius), y) \in Points /\ Point(HoleL(h, radius), y) \in Points
    <3>1. HoleR(h, radius) \in Int /\ HoleL(h, radius) \in Int
      BY HoleSides
    <3> QED
      BY <3>1, PointIsPoint
  <2> QED
    <3> DEFINE a == Point(HoleR(h, radius), y)  b == Point(HoleL(h, radius), y)
    <3>1. Ends(s, a, b, t, CornerOne(s, Gate(a, b), t)) /\ Ends(s, b, a, t, CornerOne(s, Gate(b, a), t))
      BY <2>1, ThroughOne
    <3>2. GateDown(h, y, radius) = Gate(a, b) /\ GateUp(h, y, radius) = Gate(b, a)
      BY DEF GateDown, GateUp
    <3> HIDE DEF a, b
    <3> QED
      BY <3>1, <3>2 DEF a, b
<1>15. ASSUME src = "top", dst \in DOMAIN Holes
       PROVE  c \in Points /\ Clear(s, c, radius)
  <2>1. c = CornerOne(s, GateDown(dst, 750, radius), t)
    BY <1>8, <1>10, <1>15
  <2>2. Ends(s, Point(HoleR(dst, radius), 750), Point(HoleL(dst, radius), 750), t, c)
    BY <1>14, <1>15, <2>1
  <2> QED
    BY <1>5, <1>7, <1>15, <2>2, EnterDown
<1>16. ASSUME src = "bottom", dst \in DOMAIN Holes
       PROVE  c \in Points /\ Clear(s, c, radius)
  <2>1. c = CornerOne(s, GateUp(dst, 850, radius), t)
    BY <1>8, <1>10, <1>16
  <2>2. Ends(s, Point(HoleL(dst, radius), 850), Point(HoleR(dst, radius), 850), t, c)
    BY <1>14, <1>16, <2>1
  <2> QED
    BY <1>5, <1>7, <1>16, <2>2, EnterUp
<1>17. ASSUME src \in DOMAIN Holes, dst = "top"
       PROVE  c \in Points /\ Clear(s, c, radius)
  <2>1. c = CornerOne(s, GateUp(src, 750, radius), t)
    BY <1>8, <1>10, <1>17
  <2>2. Ends(s, Point(HoleL(src, radius), 750), Point(HoleR(src, radius), 750), t, c)
    BY <1>14, <1>17, <2>1
  <2> QED
    BY <1>5, <1>6, <1>17, <2>2, LeaveUp
<1>18. ASSUME src \in DOMAIN Holes, dst = "bottom"
       PROVE  c \in Points /\ Clear(s, c, radius)
  <2>1. c = CornerOne(s, GateDown(src, 850, radius), t)
    BY <1>8, <1>10, <1>18
  <2>2. Ends(s, Point(HoleR(src, radius), 850), Point(HoleL(src, radius), 850), t, c)
    BY <1>14, <1>18, <2>1
  <2> QED
    BY <1>5, <1>6, <1>18, <2>2, LeaveDown
<1>19. ASSUME src \in DOMAIN Holes, dst \in DOMAIN Holes, src # dst
       PROVE  c \in Points /\ Clear(s, c, radius)
  <2>1. CASE s.y < 800
    <3>1. c = CornerTwo(s, GateUp(src, 750, radius), GateDown(dst, 750, radius), t)
      BY <1>8, <1>10, <1>19, <2>1
    <3>2. /\ s.y >= 750 /\ s.y <= 850
          /\ s.x > HoleL(src, radius) /\ s.x < HoleR(src, radius)
      BY <1>6, <1>19
    <3> QED
      <4>1. AcrossTheTop(s, t, src, dst, radius) \in Points /\ Clear(s, AcrossTheTop(s, t, src, dst, radius), radius)
        BY <1>19, <3>2, AcrossTop
      <4> QED
        BY <3>1, <4>1 DEF AcrossTheTop
  <2>2. CASE ~(s.y < 800)
    <3>1. c = CornerTwo(s, GateDown(src, 850, radius), GateUp(dst, 850, radius), t)
      BY <1>8, <1>10, <1>19, <2>2
    <3>2. /\ s.y >= 750 /\ s.y <= 850
          /\ s.x > HoleL(src, radius) /\ s.x < HoleR(src, radius)
      BY <1>6, <1>19
    <3> QED
      <4>1. AcrossTheBottom(s, t, src, dst, radius) \in Points /\ Clear(s, AcrossTheBottom(s, t, src, dst, radius), radius)
        BY <1>19, <3>2, AcrossBottom
      <4> QED
        BY <3>1, <4>1 DEF AcrossTheBottom
  <2> QED
    BY <2>1, <2>2
<1> QED
  BY <1>4, <1>11, <1>12, <1>13, <1>15, <1>16, <1>17, <1>18, <1>19

\* Every target is somewhere on the map.
LEMMA KnightLocated ==
    ASSUME NEW team \in Teams, NEW side \in Sides, NEW radius \in 0..74
    PROVE  KnightPos(team, side) \in Points /\ Location(KnightPos(team, side), radius) # "nowhere"
<1>1. PICK i \in 4..16, j \in {3, 5, 27, 29} : KnightPos(team, side) = Point(50 * i, 50 * j)
  BY KnightRect
<1> DEFINE p == KnightPos(team, side)
<1>2. p \in Points /\ p.y = 50 * j
  BY <1>1, PointIsPoint, PointFields
<1>3. p.y < 750 \/ p.y > 850
  BY <1>2
<1> HIDE DEF p
<1>4. Location(p, radius) # "nowhere"
  BY <1>2, <1>3, LocationIs
<1> QED
  BY <1>2, <1>4 DEF p

LEMMA BuildingLocated ==
    ASSUME Apart, NEW b \in buildings, NEW radius \in 0..74
    PROVE  b.pos \in Points /\ Location(b.pos, radius) # "nowhere"
<1>1. PICK x \in 1..18, y \in 1..30 : b.pos = PosFromTile(Point(x, y))
  BY DEF Apart, OnTiles
<1>2. b.pos = Point(x * 50 + 25, y * 50 + 25)
  BY <1>1, TilesOfBuilding
<1> DEFINE p == b.pos
           a == Body(p, BuildingRadius)
<1>3. p \in Points /\ p.x = x * 50 + 25 /\ p.y = y * 50 + 25
  BY <1>2, PointIsPoint, PointFields
<1>4. a.l = p.x - 60 /\ a.r = p.x + 60 /\ a.t = p.y - 60 /\ a.b = p.y + 60
  BY DEF Body, BuildingRadius
<1>5. \A s \in Shields : ~BodiesOverlap(a, ShieldBody(s))
  <2> SUFFICES ASSUME NEW s \in Shields
               PROVE  ~BodiesOverlap(a, ShieldBody(s))
    OBVIOUS
  <2>1. Stands(a, BuildingTiles(b))
    BY BuildingStands DEF Apart
  <2>2. Stands(ShieldBody(s), ShieldTiles(s)) /\ ShieldTiles(s) \subseteq Obstacles
    BY ShieldStands
  <2>3. BuildingTiles(b) \cap ShieldTiles(s) = {}
    BY <2>2 DEF Apart
  <2> HIDE DEF a
  <2> QED
    BY <2>1, <2>2, <2>3, StandApart
<1> HIDE DEF a, p
<1>6. \A l, r \in Int : [l |-> l, r |-> r] \in Shields => a.r <= l \/ r <= a.l \/ a.b <= 750 \/ 850 <= a.t
  <2> SUFFICES ASSUME NEW l \in Int, NEW r \in Int, [l |-> l, r |-> r] \in Shields
               PROVE  a.r <= l \/ r <= a.l \/ a.b <= 750 \/ 850 <= a.t
    OBVIOUS
  <2> DEFINE s == [l |-> l, r |-> r]
  <2>1. ~BodiesOverlap(a, ShieldBody(s))
    BY <1>5
  <2>2. /\ ShieldBody(s).l = l /\ ShieldBody(s).r = r
        /\ ShieldBody(s).t = 750 /\ ShieldBody(s).b = 850
    BY MapSizes DEF ShieldBody
  <2> HIDE DEF s
  <2> QED
    BY <2>1, <2>2 DEF BodiesOverlap
<1>7. CASE p.y < 750 \/ p.y > 850
  BY <1>3, <1>7, LocationIs DEF p
<1>8. CASE p.y >= 750 /\ p.y <= 850
  <2>1. a.r <= 0 \/ 150 <= a.l
    BY <1>3, <1>4, <1>6, <1>8, ShieldsAre
  <2>2. a.r <= 300 \/ 700 <= a.l
    BY <1>3, <1>4, <1>6, <1>8, ShieldsAre
  <2>3. a.r <= 850 \/ 1000 <= a.l
    BY <1>3, <1>4, <1>6, <1>8, ShieldsAre
  <2>4. p.x = 225 \/ p.x = 775
    BY <1>3, <1>4, <2>1, <2>2, <2>3
  <2>5. InHole(p, "lefthole", radius) \/ InHole(p, "righthole", radius)
    BY <2>4, MapSizes DEF InHole
  <2> QED
    BY <1>3, <2>5 DEF Location, p
<1> QED
  BY <1>3, <1>7, <1>8

LEMMA TargetsLocated ==
    ASSUME Apart, NEW s, NEW t \in Targets(s), NEW radius \in 0..74
    PROVE  t.pos \in Points /\ Location(t.pos, radius) # "nowhere"
<1>1. t \in Enemies(s)
  BY DEF Targets, Nearest
<1>2. \/ \E k \in Knights : t.pos = KnightPos(k[1], k[2])
      \/ \E b \in buildings : t.pos = b.pos
  BY <1>1 DEF Enemies
<1>3. CASE \E k \in Knights : t.pos = KnightPos(k[1], k[2])
  <2>1. PICK k \in Knights : t.pos = KnightPos(k[1], k[2])
    BY <1>3
  <2>2. k[1] \in Teams /\ k[2] \in Sides
    BY DEF Knights
  <2> QED
    BY <2>1, <2>2, KnightLocated
<1>4. CASE \E b \in buildings : t.pos = b.pos
  BY <1>4, BuildingLocated
<1> QED
  BY <1>2, <1>3, <1>4

\* The squire is at a point of the map, and fits into the holes.
Squires == [team : Teams, radius : 0..74, pos : Points]
SquireOnMap == squire \in {NoSquire} \cup Squires

LEMMA PushedIsPoint ==
    ASSUME NEW p \in Points, NEW radius \in 0..74
    PROVE  Pushed(p, radius) \in Points
<1> DEFINE beside == {h \in DOMAIN Holes : p.x >= Holes[h].l /\ p.x <= Holes[h].r}
           Inside(h) == Max({Holes[h].l + radius, Min({Holes[h].r - radius, p.x})})
           outside == IF p.y < CenterY THEN ShieldTop - Pace ELSE ShieldBottom + Pace
<1>1. p.x \in Int /\ p.y \in Int
  BY PointIsPoint
<1>2. \A h \in DOMAIN Holes : Inside(h) \in Int
  <2> SUFFICES ASSUME NEW h \in DOMAIN Holes
               PROVE  Inside(h) \in Int
    OBVIOUS
  <2>1. HoleL(h, radius) \in Int /\ HoleR(h, radius) \in Int
    BY HoleSides
  <2>2. Min({HoleR(h, radius), p.x}) \in Int
    BY <1>1, <2>1, MinOfTwo
  <2>3. Max({HoleL(h, radius), Min({HoleR(h, radius), p.x})}) \in Int
    BY <2>1, <2>2, MaxOfTwo
  <2> QED
    BY <2>3 DEF HoleL, HoleR
<1>3. outside \in Int
  BY MapSizes, FieldAssumption
<1>4. Pushed(p, radius) =
        IF p.y < ShieldTop \/ p.y > ShieldBottom THEN p
        ELSE IF beside # {} THEN Point(Inside(CHOOSE h \in beside : TRUE), p.y)
        ELSE Point(p.x, outside)
  BY DEF Pushed
<1>5. beside # {} => (CHOOSE h \in beside : TRUE) \in DOMAIN Holes
  OBVIOUS
<1> HIDE DEF Inside, outside, beside
<1> QED
  BY <1>1, <1>2, <1>3, <1>4, <1>5, PointIsPoint

LEMMA InitSquire ==
    ASSUME Init
    PROVE  SquireOnMap
BY DEF Init, SquireOnMap

LEMMA PlaySquireOnMap ==
    ASSUME NEW team \in Teams, NEW tile, tile.x \in Int, tile.y \in Int, PlaySquire(team, tile)
    PROVE  SquireOnMap'
<1>1. PICK at \in PlayedAt(team, tile, 1), o \in Offsets, radius \in Radii :
          LET p == PosFromTile(at)
          IN squire' = [team |-> team, radius |-> radius,
                        pos |-> Pushed(Point(p.x + o.x, p.y + o.y), radius)]
  BY DEF PlaySquire
<1>2. at \in FindUnoccupiedTileRect(team, tile, 1)
  BY DEF PlayedAt
<1> DEFINE p == PosFromTile(at)
           q == Point(p.x + o.x, p.y + o.y)
<1>3. p.x \in Int /\ p.y \in Int
  <2>1. PICK x, y \in Int : at = Point(x, y)
    BY <1>2, FoundIsFree
  <2>2. p = Point(x * 50 + 25, y * 50 + 25)
    BY <2>1, PointFields DEF PosFromTile, TileSize
  <2> HIDE DEF p
  <2> QED
    BY <2>2, PointFields
<1>4. o.x \in Int /\ o.y \in Int /\ radius \in 0..74
  BY FieldAssumption
<1> HIDE DEF p
<1>5. q \in Points
  BY <1>3, <1>4, PointIsPoint
<1> HIDE DEF q
<1>6. Pushed(q, radius) \in Points
  BY <1>4, <1>5, PushedIsPoint
<1>7. squire' = [team |-> team, radius |-> radius, pos |-> Pushed(q, radius)]
  BY <1>1 DEF q, p
<1> QED
  BY <1>4, <1>6, <1>7 DEF SquireOnMap, Squires

LEMMA WalkOnMap ==
    ASSUME Apart, SquireOnMap, Walk
    PROVE  SquireOnMap'
<1>0. PICK t \in Targets(squire) :
        \E q \in Ahead(squire, t, Corner(squire, t)) :
            squire' = [squire EXCEPT !.pos = Pushed(q, squire.radius)]
  BY DEF Walk, Corner, FindNextCornerInPath
<1>1. PICK q \in Ahead(squire, t, Corner(squire, t)) :
        squire' = [squire EXCEPT !.pos = Pushed(q, squire.radius)]
  BY <1>0
<1>2. squire \in Squires
  BY DEF Walk, SquireOnMap
<1> DEFINE s == squire.pos
           radius == squire.radius
           corner == Corner(squire, t)
           p == Pushed(q, radius)
<1>3. s \in Points /\ radius \in 0..74
  BY <1>2 DEF Squires
<1>4. t.pos \in Points /\ Location(t.pos, radius) # "nowhere"
  BY <1>3, TargetsLocated
<1>5. q \in Ahead(squire, t, corner)
  BY <1>1
<1>6. s.x \in Int /\ s.y \in Int /\ t.pos.y \in Int /\ Pace \in Int
  BY <1>3, <1>4, PointIsPoint, FieldAssumption
<1>7. q \in Points
  <2>1. CASE ~Located(squire)
    <3> DEFINE step == IF t.pos.y < s.y THEN -3 * Pace ELSE 3 * Pace
    <3>1. q = Point(s.x, s.y + step)
      BY <1>5, <2>1 DEF Ahead
    <3>2. s.y + step \in Int
      BY <1>6
    <3> QED
      BY <1>6, <3>1, <3>2, PointIsPoint
  <2>2. CASE Located(squire)
    <3>1. corner = FindNextCornerInPath(s, t.pos, radius)
      BY DEF Corner
    <3>2. Location(s, radius) # "nowhere"
      BY <2>2 DEF Located
    <3>3. corner \in Points
      BY <1>3, <1>4, <3>1, <3>2, CornerClear
    <3> HIDE DEF corner
    <3>4. corner.x \in Int /\ corner.y \in Int
      BY <3>3, PointIsPoint
    <3>5. CASE Far(s, corner)
      <4>1. q = Half(s, corner)
        BY <1>5, <2>2, <3>5 DEF Ahead
      <4>2. q = Point((s.x + corner.x) \div 2, (s.y + corner.y) \div 2)
        BY <4>1 DEF Half
      <4>3. (s.x + corner.x) \div 2 \in Int /\ (s.y + corner.y) \div 2 \in Int
        BY <1>6, <3>4
      <4> QED
        BY <4>2, <4>3, PointIsPoint
    <3>6. CASE ~Far(s, corner)
      <4>1. PICK dx \in {-Pace, Pace}, dy \in {-Pace, Pace} : q = Point(corner.x + dx, corner.y + dy)
        BY <1>5, <2>2, <3>6 DEF Ahead
      <4>2. corner.x + dx \in Int /\ corner.y + dy \in Int
        BY <1>6, <3>4
      <4> QED
        BY <4>1, <4>2, PointIsPoint
    <3> QED
      BY <3>5, <3>6
  <2> QED
    BY <2>1, <2>2
<1>8. p \in Points
  BY <1>3, <1>7, PushedIsPoint
<1>9. squire' \in Squires
  BY <1>1, <1>2, <1>8 DEF Squires
<1> QED
  BY <1>9 DEF SquireOnMap

LEMMA StepOnMap ==
    ASSUME Apart, SquireOnMap, [Next]_vars
    PROVE  SquireOnMap'
<1>1. ASSUME UNCHANGED squire
      PROVE  SquireOnMap'
  BY <1>1 DEF SquireOnMap
<1>2. CASE UNCHANGED vars
  BY <1>1, <1>2 DEF vars
<1>3. ASSUME NEW team, NEW tile, PlayBuilding(team, tile)
      PROVE  SquireOnMap'
  BY <1>1, <1>3 DEF PlayBuilding
<1>4. ASSUME NEW team \in Teams, NEW tile \in AskedTiles,
             PlaySquire(team, ForTeam(team, tile, FlipTile(tile)))
      PROVE  SquireOnMap'
  BY <1>4, AskedInside, PlaySquireOnMap
<1>5. ASSUME NEW team, NEW side, OnKnightDead(team, side)
      PROVE  SquireOnMap'
  BY <1>1, <1>5 DEF OnKnightDead
<1>6. ASSUME NEW b, Destroy(b)
      PROVE  SquireOnMap'
  BY <1>1, <1>6 DEF Destroy
<1>7. CASE Walk
  BY <1>7, WalkOnMap
<1> QED
  BY <1>2, <1>3, <1>4, <1>5, <1>6, <1>7 DEF Next

\* The inductive invariant of the field
FieldInv == Apart /\ SquireOnMap

LEMMA FieldInvariant == Spec => []FieldInv
<1>1. Init => FieldInv
  BY InitApart, InitSquire DEF FieldInv
<1>2. FieldInv /\ [Next]_vars => FieldInv'
  BY StepApart, StepOnMap DEF FieldInv
<1> QED
  BY <1>1, <1>2, PTL DEF Spec

\* A squire that follows the corners of its path never walks into a shield, nor closer to
\* the wall of a hole than its radius, wherever it stands and whatever target it has.
THEOREM PathsAreClear == Spec => []PathClear
<1>1. FieldInv => PathClear
  <2> SUFFICES ASSUME FieldInv, squire # NoSquire, Located(squire), NEW t \in Targets(squire)
               PROVE  Clear(squire.pos, Corner(squire, t), squire.radius)
    BY DEF PathClear
  <2>1. squire.pos \in Points /\ squire.radius \in 0..74
    BY DEF FieldInv, SquireOnMap, Squires
  <2>2. t.pos \in Points /\ Location(t.pos, squire.radius) # "nowhere"
    BY <2>1, TargetsLocated DEF FieldInv
  <2>3. Location(squire.pos, squire.radius) # "nowhere"
    BY DEF Located
  <2> QED
    BY <2>1, <2>2, <2>3, CornerClear DEF Corner
<1> QED
  BY <1>1, FieldInvariant, PTL

----------------------------------------------------------------------------
(* No detours                                                              *)

\* A segment may be looked at from both ends.
LEMMA SideReversed ==
    ASSUME NEW p \in Points, NEW q \in Points, NEW x \in Int, NEW y \in Int
    PROVE  SideOf(q, p, x, y) = -SideOf(p, q, x, y)
<1> DEFINE a == p.x - x  b == q.y - y  c == q.x - x  d == y - p.y
<1>1. p.x \in Int /\ p.y \in Int /\ q.x \in Int /\ q.y \in Int
  BY PointIsPoint
<1>2. SideOf(p, q, x, y) = a * b + c * d
  BY SideBetween
<1>3. SideOf(q, p, x, y) = c * (-d) + a * (-b)
  <2>1. SideOf(q, p, x, y) = c * (p.y - y) + a * (y - q.y)
    BY SideBetween
  <2>2. p.y - y = -d /\ y - q.y = -b
    BY <1>1
  <2> QED
    BY <2>1, <2>2
<1>4. a \in Int /\ b \in Int /\ c \in Int /\ d \in Int
  BY <1>1
<1> HIDE DEF a, b, c, d
<1>5. c * (-d) = -(c * d) /\ a * (-b) = -(a * b) /\ c * d \in Int /\ a * b \in Int
  BY <1>4
<1> QED
  BY <1>2, <1>3, <1>4, <1>5

LEMMA ClearReversed ==
    ASSUME NEW p \in Points, NEW q \in Points, NEW radius \in 0..74, Clear(p, q, radius)
    PROVE  Clear(q, p, radius)
<1>1. ASSUME NEW l \in Int, NEW r \in Int, Meets(Wall(l, r), q, p)
      PROVE  Meets(Wall(l, r), p, q)
  <2>1. /\ (q.x > l \/ p.x > l) /\ (q.x < r \/ p.x < r)
        /\ (q.y > 750 \/ p.y > 750) /\ (q.y < 850 \/ p.y < 850)
        /\ \E x \in {l, r}, y \in {750, 850} : SideOf(q, p, x, y) > 0
        /\ \E x \in {l, r}, y \in {750, 850} : SideOf(q, p, x, y) < 0
    BY <1>1, MeetsIs DEF Wall
  <2>2. \A x \in {l, r}, y \in {750, 850} :
          SideOf(q, p, x, y) = -SideOf(p, q, x, y) /\ SideOf(p, q, x, y) \in Int
    BY SideReversed, SideIsInt
  <2>3. /\ \E x \in {l, r}, y \in {750, 850} : SideOf(p, q, x, y) < 0
        /\ \E x \in {l, r}, y \in {750, 850} : SideOf(p, q, x, y) > 0
    BY <2>1, <2>2
  <2> QED
    BY <2>1, <2>3, MeetsIs DEF Wall
<1>2. \A w \in WallsOf(radius) : \E l, r \in Int : w = Wall(l, r)
  BY DEF WallsOf
<1>3. \A w \in WallsOf(radius) : ~Meets(w, p, q)
  BY ClearIs
<1>4. \A w \in WallsOf(radius) : ~Meets(w, q, p)
  BY <1>1, <1>2, <1>3
<1> QED
  BY <1>4, ClearIs

\* A segment that begins and ends to the right of the left side of a wall, or to the left
\* of its right side, and is clear of it: it passes on the other side.
LEMMA ClearOnRight ==
    ASSUME NEW p \in Points, NEW q \in Points, NEW a \in Int, NEW x \in Int, NEW y \in {750, 850},
           p.y < 750, q.y > 850, p.x >= a, q.x >= a, p.x > a \/ q.x > a,
           ~Meets(Wall(a, x), p, q)
    PROVE  SideOf(p, q, x, y) >= 0
<1>1. p.x \in Int /\ p.y \in Int /\ q.x \in Int /\ q.y \in Int
  BY PointIsPoint
<1>2. SUFFICES ASSUME ~(SideOf(p, q, x, y) >= 0)
               PROVE  FALSE
  OBVIOUS
<1>3. SideOf(p, q, x, y) < 0
  BY <1>2, SideIsInt
<1> DEFINE c == p.x - x  d == q.y - y  e == q.x - x  f == y - p.y  g == p.x - a  h == q.x - a
<1>4. /\ c \in Int /\ d \in Int /\ e \in Int /\ f \in Int /\ g \in Int /\ h \in Int
      /\ d > 0 /\ f > 0 /\ g >= 0 /\ h >= 0 /\ (g > 0 \/ h > 0)
  BY <1>1
<1>5. SideOf(p, q, x, y) = c * d + e * f /\ SideOf(p, q, a, y) = g * d + h * f
  BY SideBetween
<1>6. (c >= 0 <=> ~(p.x < x)) /\ (e >= 0 <=> ~(q.x < x))
  BY <1>1
<1> HIDE DEF c, d, e, f, g, h
<1>7. p.x < x \/ q.x < x
  <2>1. ~(c >= 0 /\ e >= 0)
    <3> SUFFICES ASSUME c >= 0, e >= 0
                 PROVE  FALSE
      OBVIOUS
    <3>1. c * d >= 0 /\ e * f >= 0 /\ c * d \in Int /\ e * f \in Int
      BY <1>4, Products
    <3> QED
      BY <1>3, <1>5, <3>1
  <2> QED
    BY <1>6, <2>1
<1>8. SideOf(p, q, a, y) > 0
  <2>1. /\ g * d >= 0 /\ h * f >= 0 /\ g * d \in Int /\ h * f \in Int
        /\ g > 0 => g * d > 0
        /\ h > 0 => h * f > 0
    BY <1>4, Products
  <2> QED
    BY <1>4, <1>5, <2>1
<1>9. Meets(Wall(a, x), p, q)
  <2>1. /\ p.x > a \/ q.x > a
        /\ p.y > 750 \/ q.y > 750
        /\ p.y < 850 \/ q.y < 850
    BY <1>1
  <2>2. \E v \in {a, x}, w \in {750, 850} : SideOf(p, q, v, w) > 0
    BY <1>8
  <2>3. \E v \in {a, x}, w \in {750, 850} : SideOf(p, q, v, w) < 0
    BY <1>3
  <2> QED
    BY <1>7, <2>1, <2>2, <2>3, MeetsIs DEF Wall
<1> QED
  BY <1>9

LEMMA ClearOnLeft ==
    ASSUME NEW p \in Points, NEW q \in Points, NEW a \in Int, NEW x \in Int, NEW y \in {750, 850},
           p.y < 750, q.y > 850, p.x <= a, q.x <= a, p.x < a \/ q.x < a,
           ~Meets(Wall(x, a), p, q)
    PROVE  SideOf(p, q, x, y) <= 0
<1>1. p.x \in Int /\ p.y \in Int /\ q.x \in Int /\ q.y \in Int
  BY PointIsPoint
<1>2. SUFFICES ASSUME ~(SideOf(p, q, x, y) <= 0)
               PROVE  FALSE
  OBVIOUS
<1>3. SideOf(p, q, x, y) > 0
  BY <1>2, SideIsInt
<1> DEFINE c == p.x - x  d == q.y - y  e == q.x - x  f == y - p.y  g == p.x - a  h == q.x - a
<1>4. /\ c \in Int /\ d \in Int /\ e \in Int /\ f \in Int /\ g \in Int /\ h \in Int
      /\ d > 0 /\ f > 0 /\ g <= 0 /\ h <= 0 /\ (g < 0 \/ h < 0)
  BY <1>1
<1>5. SideOf(p, q, x, y) = c * d + e * f /\ SideOf(p, q, a, y) = g * d + h * f
  BY SideBetween
<1>6. (c <= 0 <=> ~(p.x > x)) /\ (e <= 0 <=> ~(q.x > x))
  BY <1>1
<1> HIDE DEF c, d, e, f, g, h
<1>7. p.x > x \/ q.x > x
  <2>1. ~(c <= 0 /\ e <= 0)
    <3> SUFFICES ASSUME c <= 0, e <= 0
                 PROVE  FALSE
      OBVIOUS
    <3>1. c * d <= 0 /\ e * f <= 0 /\ c * d \in Int /\ e * f \in Int
      BY <1>4, Products
    <3> QED
      BY <1>3, <1>5, <3>1
  <2> QED
    BY <1>6, <2>1
<1>8. SideOf(p, q, a, y) < 0
  <2>1. /\ g * d <= 0 /\ h * f <= 0 /\ g * d \in Int /\ h * f \in Int
        /\ g < 0 => g * d < 0
        /\ h < 0 => h * f < 0
    BY <1>4, Products
  <2> QED
    BY <1>4, <1>5, <2>1
<1>9. Meets(Wall(x, a), p, q)
  <2>1. /\ p.x < a \/ q.x < a
        /\ p.y > 750 \/ q.y > 750
        /\ p.y < 850 \/ q.y < 850
    BY <1>1
  <2>2. \E v \in {x, a}, w \in {750, 850} : SideOf(p, q, v, w) < 0
    BY <1>8
  <2>3. \E v \in {x, a}, w \in {750, 850} : SideOf(p, q, v, w) > 0
    BY <1>3
  <2> QED
    BY <1>7, <2>1, <2>2, <2>3, MeetsIs DEF Wall
<1> QED
  BY <1>9

\* The line to a point that lies between two others: at another row it lies between the
\* lines to them.
OrderKept(u, d, a, b, m, n) ==
    /\ u \in Int /\ d \in Int /\ a \in Int /\ b \in Int /\ m \in Int /\ n \in Int
    /\ d > 0 /\ a > 0 /\ b > 0
    /\ u * a >= d * n /\ u * b <= d * m
    => m * a >= n * b

LEMMA OrderOfLines ==
    ASSUME NEW u \in Int, NEW d \in Int, NEW a \in Int, NEW b \in Int, NEW m \in Int, NEW n \in Int,
           d > 0, a > 0, b > 0, u * a >= d * n, u * b <= d * m
    PROVE  m * a >= n * b
<1>1. (u * a) * b >= (d * n) * b
  <2> DEFINE v == u * a  w == d * n
  <2>1. v \in Int /\ w \in Int /\ v >= w
    OBVIOUS
  <2> HIDE DEF v, w
  <2>2. (v - w) * b >= 0 /\ (v - w) * b = v * b - w * b /\ v * b \in Int /\ w * b \in Int
    BY <2>1, Products, Distribute
  <2> QED
    BY <2>2 DEF v, w
<1>2. (u * b) * a <= (d * m) * a
  <2> DEFINE v == u * b  w == d * m
  <2>1. v \in Int /\ w \in Int /\ v <= w
    OBVIOUS
  <2> HIDE DEF v, w
  <2>2. (w - v) * a >= 0 /\ (w - v) * a = w * a - v * a /\ v * a \in Int /\ w * a \in Int
    BY <2>1, Products, Distribute
  <2> QED
    BY <2>2 DEF v, w
<1>3. (u * a) * b = (u * b) * a /\ (d * n) * b = d * (n * b) /\ (d * m) * a = d * (m * a)
  OBVIOUS
<1> DEFINE v == m * a  w == n * b
<1>4. v \in Int /\ w \in Int
  OBVIOUS
<1>5. d * w <= d * v
  <2> DEFINE e == (u * a) * b
  <2>1. e \in Int /\ e >= d * w /\ e <= d * v
    BY <1>1, <1>2, <1>3
  <2>2. d * w \in Int /\ d * v \in Int
    BY <1>4
  <2> HIDE DEF e, v, w
  <2> QED
    BY <2>1, <2>2
<1> HIDE DEF v, w
<1>6. ~(v - w < 0)
  <2> SUFFICES ASSUME v - w < 0
               PROVE  FALSE
    OBVIOUS
  <2>1. d * (v - w) < 0 /\ d * (v - w) = d * v - d * w /\ d * v \in Int /\ d * w \in Int
    BY <1>4, Products, Distribute
  <2> QED
    BY <1>5, <2>1
<1> QED
  BY <1>4, <1>6 DEF v, w

LEMMA LinesKeepOrder ==
    ASSUME NEW u, NEW d, NEW a, NEW b, NEW m, NEW n
    PROVE  OrderKept(u, d, a, b, m, n)
  BY OrderOfLines DEF OrderKept

\* The walls of a hole
LEMMA WallsBeside ==
    ASSUME NEW radius \in 0..74, NEW p \in Points, NEW q \in Points, NEW h \in DOMAIN Holes,
           Clear(p, q, radius)
    PROVE  \E a, b \in Int :
               /\ a < HoleL(h, radius) /\ b > HoleR(h, radius)
               /\ ~Meets(Wall(a, HoleL(h, radius)), p, q) /\ ~Meets(Wall(HoleR(h, radius), b), p, q)
               /\ h = "lefthole" => a = 0 /\ b > 500
               /\ h = "righthole" => a < 500 /\ b = 1000
<1>1. /\ ~Meets(Wall(0, 150 + radius), p, q) /\ ~Meets(Wall(300 - radius, 700 + radius), p, q)
      /\ ~Meets(Wall(850 - radius, 1000), p, q)
  BY ClearIs DEF WallsOf
<1>2. CASE h = "lefthole"
  <2>1. HoleL(h, radius) = 150 + radius /\ HoleR(h, radius) = 300 - radius
    BY <1>2, HoleSides
  <2>2. /\ 0 < HoleL(h, radius) /\ 700 + radius > HoleR(h, radius)
        /\ ~Meets(Wall(0, HoleL(h, radius)), p, q) /\ ~Meets(Wall(HoleR(h, radius), 700 + radius), p, q)
        /\ 700 + radius > 500 /\ 700 + radius \in Int
    BY <1>1, <2>1
  <2> QED
    BY <1>2, <2>2
<1>3. CASE h = "righthole"
  <2>1. HoleL(h, radius) = 700 + radius /\ HoleR(h, radius) = 850 - radius
    BY <1>3, HoleSides
  <2>2. /\ 300 - radius < HoleL(h, radius) /\ 1000 > HoleR(h, radius)
        /\ ~Meets(Wall(300 - radius, HoleL(h, radius)), p, q) /\ ~Meets(Wall(HoleR(h, radius), 1000), p, q)
        /\ 300 - radius < 500 /\ 300 - radius \in Int
    BY <1>1, <2>1
  <2> QED
    BY <1>3, <2>2
<1> QED
  BY <1>2, <1>3, HoleSides

\* A segment that is clear and ends in a hole enters it between its walls.
LEMMA ClearIntoHoleDown ==
    ASSUME NEW radius \in 0..74, NEW p \in Points, NEW q \in Points, NEW h \in DOMAIN Holes,
           p.y < 750, q.y >= 750, q.y <= 850, q.x > HoleL(h, radius), q.x < HoleR(h, radius),
           Clear(p, q, radius)
    PROVE  SideOf(p, q, HoleL(h, radius), 750) >= 0 /\ SideOf(p, q, HoleR(h, radius), 750) <= 0
<1> DEFINE L == HoleL(h, radius)  R == HoleR(h, radius)
<1>1. L \in Int /\ R \in Int
  BY HoleSides
<1>2. PICK a, b \in Int : a < L /\ b > R /\ ~Meets(Wall(a, L), p, q) /\ ~Meets(Wall(R, b), p, q)
  BY WallsBeside
<1>3. q.x > L /\ q.x < R
  OBVIOUS
<1>4. p.x \in Int /\ p.y \in Int /\ q.x \in Int /\ q.y \in Int
  BY PointIsPoint
<1> HIDE DEF L, R
<1>5. ASSUME NEW x \in {L, R}
      PROVE  /\ SideOf(p, q, x, 750) = (p.x - x) * (q.y - 750) + (q.x - x) * (750 - p.y)
             /\ SideOf(p, q, x, 850) = (p.x - x) * (q.y - 850) + (q.x - x) * (850 - p.y)
  BY <1>1, SideBetween
<1>6. ~(SideOf(p, q, L, 750) < 0)
  <2> SUFFICES ASSUME SideOf(p, q, L, 750) < 0
               PROVE  FALSE
    OBVIOUS
  <2> DEFINE c == p.x - L  d == q.y - 750  e == q.x - L  f == 750 - p.y  g == q.y - 850  k == 850 - p.y
  <2>1. /\ c \in Int /\ d \in Int /\ e \in Int /\ f \in Int /\ g \in Int /\ k \in Int
        /\ e > 0 /\ d >= 0 /\ f > 0 /\ g <= 0 /\ k > 0
    BY <1>1, <1>3, <1>4
  <2>2. SideOf(p, q, L, 750) = c * d + e * f /\ SideOf(p, q, L, 850) = c * g + e * k
    BY <1>5
  <2>3. (c < 0 <=> p.x < L) /\ (d # 0 <=> q.y # 750)
    BY <1>1, <1>4
  <2> HIDE DEF c, d, e, f, g, k
  <2>4. c * d \in Int /\ e * f \in Int /\ c * g \in Int /\ e * k \in Int
    BY <2>1
  <2>5. e * f > 0 /\ e * k > 0
    BY <2>1, Products
  <2>6. c * d < 0
    BY <2>2, <2>4, <2>5
  <2>7. c < 0 /\ d # 0
    BY <2>1, <2>4, <2>6, Products
  <2>8. c * g >= 0
    BY <2>1, <2>7, Products
  <2>9. SideOf(p, q, L, 850) > 0
    BY <2>2, <2>4, <2>5, <2>8
  <2>10. p.x < L /\ q.y > 750
    BY <1>4, <2>3, <2>7
  <2>11. Meets(Wall(a, L), p, q)
    <3>1. /\ p.y > 750 \/ q.y > 750
          /\ p.y < 850 \/ q.y < 850
      BY <1>4, <2>10
    <3>2. (p.x > a \/ q.x > a) /\ (p.x < L \/ q.x < L)
      BY <1>1, <1>2, <1>3, <1>4, <2>10
    <3>3. /\ \E x \in {a, L}, y \in {750, 850} : SideOf(p, q, x, y) > 0
          /\ \E x \in {a, L}, y \in {750, 850} : SideOf(p, q, x, y) < 0
      BY <2>9
    <3> QED
      BY <1>1, <1>2, <3>1, <3>2, <3>3, MeetsIs DEF Wall
  <2> QED
    BY <1>2, <2>11
<1>7. ~(SideOf(p, q, R, 750) > 0)
  <2> SUFFICES ASSUME SideOf(p, q, R, 750) > 0
               PROVE  FALSE
    OBVIOUS
  <2> DEFINE c == p.x - R  d == q.y - 750  e == q.x - R  f == 750 - p.y  g == q.y - 850  k == 850 - p.y
  <2>1. /\ c \in Int /\ d \in Int /\ e \in Int /\ f \in Int /\ g \in Int /\ k \in Int
        /\ e < 0 /\ d >= 0 /\ f > 0 /\ g <= 0 /\ k > 0
    BY <1>1, <1>3, <1>4
  <2>2. SideOf(p, q, R, 750) = c * d + e * f /\ SideOf(p, q, R, 850) = c * g + e * k
    BY <1>5
  <2>3. (c > 0 <=> p.x > R) /\ (d # 0 <=> q.y # 750)
    BY <1>1, <1>4
  <2> HIDE DEF c, d, e, f, g, k
  <2>4. c * d \in Int /\ e * f \in Int /\ c * g \in Int /\ e * k \in Int
    BY <2>1
  <2>5. e * f < 0 /\ e * k < 0
    BY <2>1, Products
  <2>6. c * d > 0
    BY <2>2, <2>4, <2>5
  <2>7. c > 0 /\ d # 0
    BY <2>1, <2>4, <2>6, Products
  <2>8. c * g <= 0
    BY <2>1, <2>7, Products
  <2>9. SideOf(p, q, R, 850) < 0
    BY <2>2, <2>4, <2>5, <2>8
  <2>10. p.x > R /\ q.y > 750
    BY <1>4, <2>3, <2>7
  <2>11. Meets(Wall(R, b), p, q)
    <3>1. /\ p.y > 750 \/ q.y > 750
          /\ p.y < 850 \/ q.y < 850
      BY <1>4, <2>10
    <3>2. (p.x > R \/ q.x > R) /\ (p.x < b \/ q.x < b)
      BY <1>1, <1>2, <1>3, <1>4, <2>10
    <3>3. /\ \E x \in {R, b}, y \in {750, 850} : SideOf(p, q, x, y) > 0
          /\ \E x \in {R, b}, y \in {750, 850} : SideOf(p, q, x, y) < 0
      BY <2>9
    <3> QED
      BY <1>1, <1>2, <3>1, <3>2, <3>3, MeetsIs DEF Wall
  <2> QED
    BY <1>2, <2>11
<1>8. SideOf(p, q, L, 750) \in Int /\ SideOf(p, q, R, 750) \in Int
  BY <1>1, SideIsInt
<1> QED
  BY <1>6, <1>7, <1>8 DEF L, R

LEMMA ClearIntoHoleUp ==
    ASSUME NEW radius \in 0..74, NEW p \in Points, NEW q \in Points, NEW h \in DOMAIN Holes,
           p.y > 850, q.y >= 750, q.y <= 850, q.x > HoleL(h, radius), q.x < HoleR(h, radius),
           Clear(p, q, radius)
    PROVE  SideOf(p, q, HoleL(h, radius), 850) <= 0 /\ SideOf(p, q, HoleR(h, radius), 850) >= 0
<1> DEFINE L == HoleL(h, radius)  R == HoleR(h, radius)
<1>1. L \in Int /\ R \in Int
  BY HoleSides
<1>2. PICK a, b \in Int : a < L /\ b > R /\ ~Meets(Wall(a, L), p, q) /\ ~Meets(Wall(R, b), p, q)
  BY WallsBeside
<1>3. q.x > L /\ q.x < R
  OBVIOUS
<1>4. p.x \in Int /\ p.y \in Int /\ q.x \in Int /\ q.y \in Int
  BY PointIsPoint
<1> HIDE DEF L, R
<1>5. ASSUME NEW x \in {L, R}
      PROVE  /\ SideOf(p, q, x, 750) = (p.x - x) * (q.y - 750) + (q.x - x) * (750 - p.y)
             /\ SideOf(p, q, x, 850) = (p.x - x) * (q.y - 850) + (q.x - x) * (850 - p.y)
  BY <1>1, SideBetween
<1>6. ~(SideOf(p, q, L, 850) > 0)
  <2> SUFFICES ASSUME SideOf(p, q, L, 850) > 0
               PROVE  FALSE
    OBVIOUS
  <2> DEFINE c == p.x - L  d == q.y - 850  e == q.x - L  f == 850 - p.y  g == q.y - 750  k == 750 - p.y
  <2>1. /\ c \in Int /\ d \in Int /\ e \in Int /\ f \in Int /\ g \in Int /\ k \in Int
        /\ e > 0 /\ d <= 0 /\ f < 0 /\ g >= 0 /\ k < 0
    BY <1>1, <1>3, <1>4
  <2>2. SideOf(p, q, L, 850) = c * d + e * f /\ SideOf(p, q, L, 750) = c * g + e * k
    BY <1>5
  <2>3. (c < 0 <=> p.x < L) /\ (d # 0 <=> q.y # 850)
    BY <1>1, <1>4
  <2> HIDE DEF c, d, e, f, g, k
  <2>4. c * d \in Int /\ e * f \in Int /\ c * g \in Int /\ e * k \in Int
    BY <2>1
  <2>5. e * f < 0 /\ e * k < 0
    BY <2>1, Products
  <2>6. c * d > 0
    BY <2>2, <2>4, <2>5
  <2>7. c < 0 /\ d # 0
    BY <2>1, <2>4, <2>6, Products
  <2>8. c * g <= 0
    BY <2>1, <2>7, Products
  <2>9. SideOf(p, q, L, 750) < 0
    BY <2>2, <2>4, <2>5, <2>8
  <2>10. p.x < L /\ q.y < 850
    BY <1>4, <2>3, <2>7
  <2>11. Meets(Wall(a, L), p, q)
    <3>1. /\ p.y > 750 \/ q.y > 750
          /\ p.y < 850 \/ q.y < 850
      BY <1>4, <2>10
    <3>2. (p.x > a \/ q.x > a) /\ (p.x < L \/ q.x < L)
      BY <1>1, <1>2, <1>3, <1>4, <2>10
    <3>3. /\ \E x \in {a, L}, y \in {750, 850} : SideOf(p, q, x, y) > 0
          /\ \E x \in {a, L}, y \in {750, 850} : SideOf(p, q, x, y) < 0
      BY <2>9
    <3> QED
      BY <1>1, <1>2, <3>1, <3>2, <3>3, MeetsIs DEF Wall
  <2> QED
    BY <1>2, <2>11
<1>7. ~(SideOf(p, q, R, 850) < 0)
  <2> SUFFICES ASSUME SideOf(p, q, R, 850) < 0
               PROVE  FALSE
    OBVIOUS
  <2> DEFINE c == p.x - R  d == q.y - 850  e == q.x - R  f == 850 - p.y  g == q.y - 750  k == 750 - p.y
  <2>1. /\ c \in Int /\ d \in Int /\ e \in Int /\ f \in Int /\ g \in Int /\ k \in Int
        /\ e < 0 /\ d <= 0 /\ f < 0 /\ g >= 0 /\ k < 0
    BY <1>1, <1>3, <1>4
  <2>2. SideOf(p, q, R, 850) = c * d + e * f /\ SideOf(p, q, R, 750) = c * g + e * k
    BY <1>5
  <2>3. (c > 0 <=> p.x > R) /\ (d # 0 <=> q.y # 850)
    BY <1>1, <1>4
  <2> HIDE DEF c, d, e, f, g, k
  <2>4. c * d \in Int /\ e * f \in Int /\ c * g \in Int /\ e * k \in Int
    BY <2>1
  <2>5. e * f > 0 /\ e * k > 0
    BY <2>1, Products
  <2>6. c * d < 0
    BY <2>2, <2>4, <2>5
  <2>7. c > 0 /\ d # 0
    BY <2>1, <2>4, <2>6, Products
  <2>8. c * g >= 0
    BY <2>1, <2>7, Products
  <2>9. SideOf(p, q, R, 750) > 0
    BY <2>2, <2>4, <2>5, <2>8
  <2>10. p.x > R /\ q.y < 850
    BY <1>4, <2>3, <2>7
  <2>11. Meets(Wall(R, b), p, q)
    <3>1. /\ p.y > 750 \/ q.y > 750
          /\ p.y < 850 \/ q.y < 850
      BY <1>4, <2>10
    <3>2. (p.x > R \/ q.x > R) /\ (p.x < b \/ q.x < b)
      BY <1>1, <1>2, <1>3, <1>4, <2>10
    <3>3. /\ \E x \in {R, b}, y \in {750, 850} : SideOf(p, q, x, y) > 0
          /\ \E x \in {R, b}, y \in {750, 850} : SideOf(p, q, x, y) < 0
      BY <2>9
    <3> QED
      BY <1>1, <1>2, <3>1, <3>2, <3>3, MeetsIs DEF Wall
  <2> QED
    BY <1>2, <2>11
<1>8. SideOf(p, q, L, 850) \in Int /\ SideOf(p, q, R, 850) \in Int
  BY <1>1, SideIsInt
<1> QED
  BY <1>6, <1>7, <1>8 DEF L, R

\* A squire whose line to the target goes through a hole has no corner before the target.
LEMMA StraightDown ==
    ASSUME NEW radius \in 0..74, NEW s \in Points, NEW t \in Points, NEW h \in DOMAIN Holes,
           s.y < 750, t.y > 850,
           \A y \in {750, 850} : SideOf(s, t, HoleL(h, radius), y) >= 0 /\ SideOf(s, t, HoleR(h, radius), y) <= 0
    PROVE  DownThrough(s, t, h, radius) = t
<1>0. SUFFICES ASSUME NEW c, c = DownThrough(s, t, h, radius)
             PROVE  c = t
  OBVIOUS
<1> DEFINE L == HoleL(h, radius)  R == HoleR(h, radius)
           l == Point(R, 750)  r == Point(L, 750)  l2 == Point(R, 850)  r2 == Point(L, 850)
<1>1. L \in Int /\ R \in Int /\ L < R
  BY HoleSides
<1>2. s.x \in Int /\ s.y \in Int /\ t.x \in Int /\ t.y \in Int
  BY PointIsPoint
<1>3. c = CornerThrough(s, l, r, l2, r2, t)
  BY <1>0 DEF DownThrough, CornerThrough, GateDown
<1>4. \A y \in {750, 850} : SideOf(s, t, L, y) >= 0 /\ SideOf(s, t, R, y) <= 0
  OBVIOUS
<1> HIDE DEF L, R
<1>5. l \in Points /\ r \in Points /\ l2 \in Points /\ r2 \in Points
  BY <1>1, PointIsPoint
<1>6. LeftIn(s, l, l2) <=> s.x <= R
  <2>1. Turn(s, l, l2) = (R - s.x) * (850 - 750)
    BY <1>1, TurnInColumn
  <2> QED
    BY <1>1, <1>2, <2>1 DEF LeftIn
<1>7. Turn(s, l2, r2) > 0
  <2>1. Turn(s, l2, r2) = (850 - s.y) * (R - L)
    BY <1>1, TurnInRow
  <2>2. /\ 850 - s.y > 0 /\ R - L > 0 /\ 850 - s.y \in Int /\ R - L \in Int
    BY <1>1, <1>2
  <2> HIDE DEF l2, r2
  <2> QED
    BY <2>1, <2>2, Products
\* The line to the target, in terms of its distances from the walls
<1> DEFINE u == t.x - s.x  d == t.y - s.y  v == 750 - s.y  w == 850 - s.y
           m == R - s.x  n == L - s.x
<1>8. /\ u \in Int /\ d \in Int /\ v \in Int /\ w \in Int /\ m \in Int /\ n \in Int
      /\ d > 0 /\ v > 0 /\ w > 0
  BY <1>1, <1>2
<1>9. /\ SideOf(s, t, L, 750) = (u * v - d * n) /\ SideOf(s, t, R, 750) = (u * v - d * m)
      /\ SideOf(s, t, L, 850) = (u * w - d * n) /\ SideOf(s, t, R, 850) = (u * w - d * m)
  BY DEF SideOf
<1>10. /\ Turn(s, r, l2) = n * w - v * m
       /\ Turn(s, l, r2) = m * w - v * n
  BY PointFields DEF Turn, Cross, Minus
<1> HIDE DEF u, d, v, w, m, n
<1>11. /\ u * v \in Int /\ u * w \in Int /\ d * m \in Int /\ d * n \in Int
       /\ m * v \in Int /\ m * w \in Int /\ n * v \in Int /\ n * w \in Int
  BY <1>8
<1>12. /\ u * v >= d * n /\ u * v <= d * m
       /\ u * w >= d * n /\ u * w <= d * m
  <2>1. /\ SideOf(s, t, L, 750) >= 0 /\ SideOf(s, t, R, 750) <= 0
        /\ SideOf(s, t, L, 850) >= 0 /\ SideOf(s, t, R, 850) <= 0
    BY <1>4
  <2> QED
    BY <1>9, <1>11, <2>1
<1>13. m * v >= n * w /\ m * w >= n * v
  <2>1. OrderKept(u, d, v, w, m, n) /\ OrderKept(u, d, w, v, m, n)
    BY LinesKeepOrder
  <2> QED
    BY <1>8, <1>12, <2>1, Zenon DEF OrderKept
<1>14. ~(Turn(s, r, l2) > 0) /\ ~(Turn(s, l, r2) < 0)
  <2>1. v * m = m * v /\ v * n = n * v /\ w * m = m * w /\ w * n = n * w
    BY <1>8
  <2> DEFINE i == m * v  j == m * w  k == n * v  o == n * w
  <2>2. i \in Int /\ j \in Int /\ k \in Int /\ o \in Int /\ i >= o /\ j >= k
    BY <1>11, <1>13
  <2>3. Turn(s, r, l2) = o - i /\ Turn(s, l, r2) = j - k
    BY <1>10, <2>1
  <2> HIDE DEF i, j, k, o, l, r, l2, r2
  <2> QED
    BY <2>2, <2>3
<1>15. Turn(s, l2, r2) \in Int
  BY <1>1, <1>5, TurnToSide DEF l2
<1> HIDE DEF l, r, l2, r2
<1>16. ~BeyondRight(s, l, r, l2)
  BY <1>14 DEF BeyondRight
<1>17. ~BeyondLeft(s, l, r, l2, r2)
  <2>1. \A i \in Int : ~(i > 0 /\ i < 0)
    OBVIOUS
  <2>2. ~(Turn(s, l2, r2) < 0)
    BY <1>7, <1>15, <2>1
  <2> QED
    BY <1>14, <2>2 DEF BeyondLeft, NewLeft
<1>18. Ends(s, NewLeft(s, l, l2), NewRight(s, r, r2), t, c)
  <2>1. ~BeyondRight(s, l, r, l2) /\ ~BeyondLeft(s, l, r, l2, r2)
           => Ends(s, NewLeft(s, l, l2), NewRight(s, r, r2), t, c)
    BY <1>3, <1>5, ThroughTwo
  <2> QED
    BY <1>16, <1>17, <2>1
<1>19. Turn(s, NewLeft(s, l, l2), t) >= 0 /\ Turn(s, NewRight(s, r, r2), t) <= 0
  <2>1. Turn(s, l, t) >= 0 /\ Turn(s, l2, t) >= 0
    BY <1>1, <1>4, TurnToSide DEF l, l2
  <2>2. Turn(s, r, t) <= 0 /\ Turn(s, r2, t) <= 0
    BY <1>1, <1>4, TurnToSide DEF r, r2
  <2> QED
    BY <2>1, <2>2 DEF NewLeft, NewRight
<1> QED
  BY <1>18, <1>19 DEF Ends

LEMMA StraightUp ==
    ASSUME NEW radius \in 0..74, NEW s \in Points, NEW t \in Points, NEW h \in DOMAIN Holes,
           s.y > 850, t.y < 750,
           \A y \in {750, 850} : SideOf(s, t, HoleL(h, radius), y) <= 0 /\ SideOf(s, t, HoleR(h, radius), y) >= 0
    PROVE  UpThrough(s, t, h, radius) = t
<1>0. SUFFICES ASSUME NEW c, c = UpThrough(s, t, h, radius)
             PROVE  c = t
  OBVIOUS
<1> DEFINE L == HoleL(h, radius)  R == HoleR(h, radius)
           l == Point(L, 850)  r == Point(R, 850)  l2 == Point(L, 750)  r2 == Point(R, 750)
<1>1. L \in Int /\ R \in Int /\ L < R
  BY HoleSides
<1>2. s.x \in Int /\ s.y \in Int /\ t.x \in Int /\ t.y \in Int
  BY PointIsPoint
<1>3. c = CornerThrough(s, l, r, l2, r2, t)
  BY <1>0 DEF UpThrough, CornerThrough, GateUp
<1>4. \A y \in {750, 850} : SideOf(s, t, L, y) <= 0 /\ SideOf(s, t, R, y) >= 0
  OBVIOUS
<1> HIDE DEF L, R
<1>5. l \in Points /\ r \in Points /\ l2 \in Points /\ r2 \in Points
  BY <1>1, PointIsPoint
<1>6. LeftIn(s, l, l2) <=> s.x >= L
  <2>1. Turn(s, l, l2) = (L - s.x) * (750 - 850)
    BY <1>1, TurnInColumn
  <2> QED
    BY <1>1, <1>2, <2>1 DEF LeftIn
<1>7. Turn(s, l2, r2) > 0
  <2>1. Turn(s, l2, r2) = (750 - s.y) * (L - R)
    BY <1>1, TurnInRow
  <2>2. /\ 750 - s.y < 0 /\ L - R < 0 /\ 750 - s.y \in Int /\ L - R \in Int
    BY <1>1, <1>2
  <2> HIDE DEF l2, r2
  <2> QED
    BY <2>1, <2>2, Products
\* The line to the target, in terms of its distances from the walls
<1> DEFINE u == t.x - s.x  d == s.y - t.y  v == s.y - 750  w == s.y - 850
           m == R - s.x  n == L - s.x
<1>8. /\ u \in Int /\ d \in Int /\ v \in Int /\ w \in Int /\ m \in Int /\ n \in Int
      /\ d > 0 /\ v > 0 /\ w > 0
  BY <1>1, <1>2
<1>9. /\ SideOf(s, t, L, 750) = -(u * v - d * n) /\ SideOf(s, t, R, 750) = -(u * v - d * m)
      /\ SideOf(s, t, L, 850) = -(u * w - d * n) /\ SideOf(s, t, R, 850) = -(u * w - d * m)
  <2>1. /\ SideOf(s, t, L, 750) = u * (750 - s.y) - (t.y - s.y) * n /\ SideOf(s, t, R, 750) = u * (750 - s.y) - (t.y - s.y) * m
        /\ SideOf(s, t, L, 850) = u * (850 - s.y) - (t.y - s.y) * n /\ SideOf(s, t, R, 850) = u * (850 - s.y) - (t.y - s.y) * m
    BY DEF SideOf
  <2>2. 750 - s.y = -v /\ 850 - s.y = -w /\ t.y - s.y = -d
    BY <1>2
  <2> HIDE DEF u, d, v, w, m, n
  <2>3. /\ u * (-v) = -(u * v) /\ u * (-w) = -(u * w) /\ (-d) * n = -(d * n) /\ (-d) * m = -(d * m)
        /\ u * v \in Int /\ u * w \in Int /\ d * m \in Int /\ d * n \in Int
    BY <1>8
  <2> QED
    BY <2>1, <2>2, <2>3
<1>10. /\ Turn(s, r, l2) = w * n - m * v
       /\ Turn(s, l, r2) = w * m - n * v
  <2>1. /\ Turn(s, r, l2) = m * (750 - s.y) - (850 - s.y) * n
        /\ Turn(s, l, r2) = n * (750 - s.y) - (850 - s.y) * m
    BY PointFields DEF Turn, Cross, Minus
  <2>2. 750 - s.y = -v /\ 850 - s.y = -w
    BY <1>2
  <2> HIDE DEF u, d, v, w, m, n
  <2>3. /\ m * (-v) = -(m * v) /\ n * (-v) = -(n * v) /\ (-w) * n = -(w * n) /\ (-w) * m = -(w * m)
        /\ m * v \in Int /\ n * v \in Int /\ w * n \in Int /\ w * m \in Int
    BY <1>8
  <2> QED
    BY <2>1, <2>2, <2>3
<1> HIDE DEF u, d, v, w, m, n
<1>11. /\ u * v \in Int /\ u * w \in Int /\ d * m \in Int /\ d * n \in Int
       /\ m * v \in Int /\ m * w \in Int /\ n * v \in Int /\ n * w \in Int
  BY <1>8
<1>12. /\ u * v >= d * n /\ u * v <= d * m
       /\ u * w >= d * n /\ u * w <= d * m
  <2>1. /\ SideOf(s, t, L, 750) <= 0 /\ SideOf(s, t, R, 750) >= 0
        /\ SideOf(s, t, L, 850) <= 0 /\ SideOf(s, t, R, 850) >= 0
    BY <1>4
  <2> QED
    BY <1>9, <1>11, <2>1
<1>13. m * v >= n * w /\ m * w >= n * v
  <2>1. OrderKept(u, d, v, w, m, n) /\ OrderKept(u, d, w, v, m, n)
    BY LinesKeepOrder
  <2> QED
    BY <1>8, <1>12, <2>1, Zenon DEF OrderKept
<1>14. ~(Turn(s, r, l2) > 0) /\ ~(Turn(s, l, r2) < 0)
  <2>1. v * m = m * v /\ v * n = n * v /\ w * m = m * w /\ w * n = n * w
    BY <1>8
  <2> DEFINE i == m * v  j == m * w  k == n * v  o == n * w
  <2>2. i \in Int /\ j \in Int /\ k \in Int /\ o \in Int /\ i >= o /\ j >= k
    BY <1>11, <1>13
  <2>3. Turn(s, r, l2) = o - i /\ Turn(s, l, r2) = j - k
    BY <1>10, <2>1
  <2> HIDE DEF i, j, k, o, l, r, l2, r2
  <2> QED
    BY <2>2, <2>3
<1>15. Turn(s, l2, r2) \in Int
  BY <1>1, <1>5, TurnToSide DEF l2
<1> HIDE DEF l, r, l2, r2
<1>16. ~BeyondRight(s, l, r, l2)
  BY <1>14 DEF BeyondRight
<1>17. ~BeyondLeft(s, l, r, l2, r2)
  <2>1. \A i \in Int : ~(i > 0 /\ i < 0)
    OBVIOUS
  <2>2. ~(Turn(s, l2, r2) < 0)
    BY <1>7, <1>15, <2>1
  <2> QED
    BY <1>14, <2>2 DEF BeyondLeft, NewLeft
<1>18. Ends(s, NewLeft(s, l, l2), NewRight(s, r, r2), t, c)
  <2>1. ~BeyondRight(s, l, r, l2) /\ ~BeyondLeft(s, l, r, l2, r2)
           => Ends(s, NewLeft(s, l, l2), NewRight(s, r, r2), t, c)
    BY <1>3, <1>5, ThroughTwo
  <2> QED
    BY <1>16, <1>17, <2>1
<1>19. Turn(s, NewLeft(s, l, l2), t) >= 0 /\ Turn(s, NewRight(s, r, r2), t) <= 0
  <2>1. Turn(s, l, t) >= 0 /\ Turn(s, l2, t) >= 0
    BY <1>1, <1>4, TurnToSide DEF l, l2
  <2>2. Turn(s, r, t) <= 0 /\ Turn(s, r2, t) <= 0
    BY <1>1, <1>4, TurnToSide DEF r, r2
  <2> QED
    BY <2>1, <2>2 DEF NewLeft, NewRight
<1> QED
  BY <1>18, <1>19 DEF Ends

\* Two points of one half of the map, of which at least one is not on its edge
SameHalf(p, q, h) ==
    /\ p.x >= 0 /\ p.x <= 1000 /\ q.x >= 0 /\ q.x <= 1000
    /\ (p.x > 0 /\ p.x < 1000) \/ (q.x > 0 /\ q.x < 1000)
    /\ h = "lefthole" => p.x < 500 /\ q.x < 500
    /\ h = "righthole" => p.x >= 500 /\ q.x >= 500

\* A line that is clear from above the row of shields to below it, in one half of the map,
\* goes between the walls of the hole of this half.
LEMMA ClearBetweenWalls ==
    ASSUME NEW radius \in 0..74, NEW p \in Points, NEW q \in Points, NEW h \in DOMAIN Holes,
           p.y < 750, q.y > 850, SameHalf(p, q, h), Clear(p, q, radius), NEW y \in {750, 850}
    PROVE  SideOf(p, q, HoleL(h, radius), y) >= 0 /\ SideOf(p, q, HoleR(h, radius), y) <= 0
<1> DEFINE L == HoleL(h, radius)  R == HoleR(h, radius)
<1>1. L \in Int /\ R \in Int
  BY HoleSides
<1>2. p.x \in Int /\ p.y \in Int /\ q.x \in Int /\ q.y \in Int
  BY PointIsPoint
<1>3. h = "lefthole" \/ h = "righthole"
  BY HoleSides
<1>4. PICK a \in Int, b \in Int :
               /\ a < L /\ b > R
               /\ ~Meets(Wall(a, L), p, q) /\ ~Meets(Wall(R, b), p, q)
               /\ h = "lefthole" => a = 0 /\ b > 500
               /\ h = "righthole" => a < 500 /\ b = 1000
  BY WallsBeside
<1> HIDE DEF L, R
<1>5. /\ p.x >= a /\ q.x >= a /\ (p.x > a \/ q.x > a)
      /\ p.x <= b /\ q.x <= b /\ (p.x < b \/ q.x < b)
  BY <1>2, <1>3, <1>4 DEF SameHalf
<1>6. SideOf(p, q, L, y) >= 0
  BY <1>1, <1>4, <1>5, ClearOnRight
<1>7. SideOf(p, q, R, y) <= 0
  BY <1>1, <1>4, <1>5, ClearOnLeft
<1> QED
  BY <1>6, <1>7 DEF L, R

\* The squire's next corner is the target itself when the line to it is clear and stays in
\* one half of the map.
LEMMA StraightToTarget ==
    ASSUME NEW radius \in 0..74, NEW s \in Points, NEW t \in Points, NEW c,
           c = FindNextCornerInPath(s, t, radius),
           Location(s, radius) # "nowhere", Location(t, radius) # "nowhere",
           Clear(s, t, radius),
           s.x >= 0, s.x <= 1000, t.x > 0, t.x < 1000, s.x < 500 <=> t.x < 500
    PROVE  c = t
<1> DEFINE src == Location(s, radius)
           dst == Location(t, radius)
           portals == PortalsBetween(src, dst, s, radius)
           hole == HoleOnSide(s)
<1>1. c = NextCornerInPath(FindPath(s, t, radius), s)
  BY DEF FindNextCornerInPath
<1>2. s.x \in Int /\ s.y \in Int /\ t.x \in Int /\ t.y \in Int
  BY PointIsPoint
<1>3. DOMAIN Holes = {"lefthole", "righthole"}
  BY DEF Holes
<1>4. /\ src \in {"top", "bottom"} \cup DOMAIN Holes
      /\ dst \in {"top", "bottom"} \cup DOMAIN Holes
  BY <1>3, LocationIs
<1>5. /\ src = "top" <=> s.y < 750
      /\ src = "bottom" <=> s.y > 850
      /\ dst = "top" <=> t.y < 750
      /\ dst = "bottom" <=> t.y > 850
  BY LocationIs
<1>6. src \in DOMAIN Holes =>
        /\ s.y >= 750 /\ s.y <= 850
        /\ s.x > HoleL(src, radius) /\ s.x < HoleR(src, radius)
        /\ s.x >= HoleL(src, radius) /\ s.x <= HoleR(src, radius)
  <2> SUFFICES ASSUME src \in DOMAIN Holes
               PROVE  /\ s.y >= 750 /\ s.y <= 850
                      /\ s.x > HoleL(src, radius) /\ s.x < HoleR(src, radius)
                      /\ s.x >= HoleL(src, radius) /\ s.x <= HoleR(src, radius)
    OBVIOUS
  <2>1. s.y >= 750 /\ s.y <= 850 /\ s.x > HoleL(src, radius) /\ s.x < HoleR(src, radius)
    BY LocationIs
  <2>2. HoleL(src, radius) \in Int /\ HoleR(src, radius) \in Int
    BY HoleSides
  <2> HIDE DEF src
  <2> QED
    BY <1>2, <2>1, <2>2
<1>7. dst \in DOMAIN Holes =>
        /\ t.y >= 750 /\ t.y <= 850
        /\ t.x > HoleL(dst, radius) /\ t.x < HoleR(dst, radius)
  <2> SUFFICES ASSUME dst \in DOMAIN Holes
               PROVE  /\ t.y >= 750 /\ t.y <= 850
                      /\ t.x > HoleL(dst, radius) /\ t.x < HoleR(dst, radius)
    OBVIOUS
  <2>1. t.y >= 750 /\ t.y <= 850 /\ t.x > HoleL(dst, radius) /\ t.x < HoleR(dst, radius)
    BY LocationIs
  <2>2. HoleL(dst, radius) \in Int /\ HoleR(dst, radius) \in Int
    BY HoleSides
  <2> HIDE DEF dst
  <2> QED
    BY <1>2, <2>1, <2>2
<1>8. /\ src = "top" /\ dst = "bottom" =>
           portals = Two(GateDown(hole, 750, radius), GateDown(hole, 850, radius))
      /\ src = "bottom" /\ dst = "top" =>
           portals = Two(GateUp(hole, 850, radius), GateUp(hole, 750, radius))
      /\ src = "top" /\ dst \in DOMAIN Holes => portals = One(GateDown(dst, 750, radius))
      /\ src = "bottom" /\ dst \in DOMAIN Holes => portals = One(GateUp(dst, 850, radius))
      /\ src \in DOMAIN Holes /\ dst = "top" => portals = One(GateUp(src, 750, radius))
      /\ src \in DOMAIN Holes /\ dst = "bottom" => portals = One(GateDown(src, 850, radius))
      /\ src \in DOMAIN Holes /\ dst \in DOMAIN Holes \ {src} /\ s.y < 800 =>
           portals = Two(GateUp(src, 750, radius), GateDown(dst, 750, radius))
      /\ src \in DOMAIN Holes /\ dst \in DOMAIN Holes \ {src} /\ ~(s.y < 800) =>
           portals = Two(GateDown(src, 850, radius), GateUp(dst, 850, radius))
      /\ src = dst /\ src \in {"top", "bottom", "lefthole", "righthole"} => portals = <<>>
  BY PortalsAre DEF One, Two
<1>9. hole \in DOMAIN Holes
  BY <1>3 DEF HoleOnSide
<1>10. /\ portals = <<>> => c = NextCornerInPath(<<Goal(t)>>, s)
       /\ \A a : portals = One(a) => c = CornerOne(s, a, t)
       /\ \A a, b : portals = Two(a, b) => c = CornerTwo(s, a, b, t)
  <2>1. /\ portals = <<>> => FindPath(s, t, radius) = <<Goal(t)>>
        /\ \A a : portals = <<a>> => FindPath(s, t, radius) = <<a, Goal(t)>>
        /\ \A a, b : portals = <<a, b>> => FindPath(s, t, radius) = <<a, b, Goal(t)>>
    BY PathIs
  <2> HIDE DEF portals
  <2> QED
    BY <1>1, <2>1 DEF One, Two, CornerOne, CornerTwo
<1> HIDE DEF src, dst, portals, hole
<1>11. ASSUME NEW h \in DOMAIN Holes, NEW y \in Int
       PROVE  /\ \A a, b : a = Point(HoleR(h, radius), y) /\ b = Point(HoleL(h, radius), y)
                    /\ c = CornerOne(s, GateDown(h, y, radius), t) => Ends(s, a, b, t, c)
              /\ \A a, b : a = Point(HoleL(h, radius), y) /\ b = Point(HoleR(h, radius), y)
                    /\ c = CornerOne(s, GateUp(h, y, radius), t) => Ends(s, a, b, t, c)
  <2>1. Point(HoleR(h, radius), y) \in Points /\ Point(HoleL(h, radius), y) \in Points
    <3>1. HoleR(h, radius) \in Int /\ HoleL(h, radius) \in Int
      BY HoleSides
    <3> QED
      BY <3>1, PointIsPoint
  <2> QED
    <3> DEFINE a == Point(HoleR(h, radius), y)  b == Point(HoleL(h, radius), y)
    <3>1. Ends(s, a, b, t, CornerOne(s, Gate(a, b), t)) /\ Ends(s, b, a, t, CornerOne(s, Gate(b, a), t))
      BY <2>1, ThroughOne
    <3>2. GateDown(h, y, radius) = Gate(a, b) /\ GateUp(h, y, radius) = Gate(b, a)
      BY DEF GateDown, GateUp
    <3> HIDE DEF a, b
    <3> QED
      BY <3>1, <3>2 DEF a, b
<1>12. /\ c = NextCornerInPath(<<Goal(t)>>, s) => c = t
       /\ \A h \in DOMAIN Holes : SameHalf(s, t, h) <=> SameHalf(t, s, h)
  BY FunnelOfOne DEF Goal, Gate, SameHalf
<1>13. SameHalf(s, t, hole)
  <2>1. s.x < 500 => hole = "lefthole"
    BY MapSizes DEF HoleOnSide, hole
  <2>2. ~(s.x < 500) => hole = "righthole"
    BY MapSizes DEF HoleOnSide, hole
  <2> QED
    BY <1>2, <2>1, <2>2 DEF SameHalf
<1>14. Clear(t, s, radius)
  BY ClearReversed
<1>15. \A h \in DOMAIN Holes : HoleL(h, radius) \in Int /\ HoleR(h, radius) \in Int
  BY HoleSides
<1>16. ASSUME NEW h \in DOMAIN Holes, NEW y \in {750, 850}
       PROVE  /\ SideOf(t, s, HoleL(h, radius), y) = -SideOf(s, t, HoleL(h, radius), y)
              /\ SideOf(t, s, HoleR(h, radius), y) = -SideOf(s, t, HoleR(h, radius), y)
              /\ SideOf(s, t, HoleL(h, radius), y) \in Int /\ SideOf(s, t, HoleR(h, radius), y) \in Int
  BY <1>15, SideReversed, SideIsInt
<1>17. CASE src = dst
  <2>1. portals = <<>>
    BY <1>3, <1>4, <1>8, <1>17
  <2> QED
    BY <1>10, <1>12, <2>1
<1>18. CASE src = "top" /\ dst = "bottom"
  <2>1. c = DownThrough(s, t, hole, radius)
    BY <1>8, <1>10, <1>18 DEF DownThrough
  <2>2. s.y < 750 /\ t.y > 850
    BY <1>5, <1>18
  <2>3. \A y \in {750, 850} : /\ SideOf(s, t, HoleL(hole, radius), y) >= 0
                              /\ SideOf(s, t, HoleR(hole, radius), y) <= 0
    BY <1>9, <1>13, <2>2, ClearBetweenWalls
  <2> QED
    BY <1>9, <2>1, <2>2, <2>3, StraightDown
<1>19. CASE src = "bottom" /\ dst = "top"
  <2>1. c = UpThrough(s, t, hole, radius)
    BY <1>8, <1>10, <1>19 DEF UpThrough
  <2>2. s.y > 850 /\ t.y < 750
    BY <1>5, <1>19
  <2>3. \A y \in {750, 850} : /\ SideOf(t, s, HoleL(hole, radius), y) >= 0
                              /\ SideOf(t, s, HoleR(hole, radius), y) <= 0
    BY <1>9, <1>12, <1>13, <1>14, <2>2, ClearBetweenWalls
  <2>4. \A y \in {750, 850} : /\ SideOf(s, t, HoleL(hole, radius), y) <= 0
                              /\ SideOf(s, t, HoleR(hole, radius), y) >= 0
    BY <1>9, <1>16, <2>3
  <2> QED
    BY <1>9, <2>1, <2>2, <2>4, StraightUp
<1>20. CASE src = "top" /\ dst \in DOMAIN Holes
  <2>1. c = CornerOne(s, GateDown(dst, 750, radius), t)
    BY <1>8, <1>10, <1>20
  <2>2. Ends(s, Point(HoleR(dst, radius), 750), Point(HoleL(dst, radius), 750), t, c)
    BY <1>11, <1>20, <2>1
  <2>3. SideOf(s, t, HoleR(dst, radius), 750) <= 0 /\ SideOf(s, t, HoleL(dst, radius), 750) >= 0
    BY <1>5, <1>7, <1>20, ClearIntoHoleDown
  <2>4. Turn(s, Point(HoleR(dst, radius), 750), t) >= 0 /\ Turn(s, Point(HoleL(dst, radius), 750), t) <= 0
    BY <1>15, <1>20, <2>3, TurnToSide
  <2> QED
    BY <2>2, <2>4 DEF Ends
<1>21. CASE src = "bottom" /\ dst \in DOMAIN Holes
  <2>1. c = CornerOne(s, GateUp(dst, 850, radius), t)
    BY <1>8, <1>10, <1>21
  <2>2. Ends(s, Point(HoleL(dst, radius), 850), Point(HoleR(dst, radius), 850), t, c)
    BY <1>11, <1>21, <2>1
  <2>3. SideOf(s, t, HoleL(dst, radius), 850) <= 0 /\ SideOf(s, t, HoleR(dst, radius), 850) >= 0
    BY <1>5, <1>7, <1>21, ClearIntoHoleUp
  <2>4. Turn(s, Point(HoleL(dst, radius), 850), t) >= 0 /\ Turn(s, Point(HoleR(dst, radius), 850), t) <= 0
    BY <1>15, <1>21, <2>3, TurnToSide
  <2> QED
    BY <2>2, <2>4 DEF Ends
<1>22. CASE src \in DOMAIN Holes /\ dst = "top"
  <2>1. c = CornerOne(s, GateUp(src, 750, radius), t)
    BY <1>8, <1>10, <1>22
  <2>2. Ends(s, Point(HoleL(src, radius), 750), Point(HoleR(src, radius), 750), t, c)
    BY <1>11, <1>22, <2>1
  <2>3. SideOf(s, t, HoleL(src, radius), 750) <= 0 /\ SideOf(s, t, HoleR(src, radius), 750) >= 0
    <3>1. SideOf(t, s, HoleL(src, radius), 750) >= 0 /\ SideOf(t, s, HoleR(src, radius), 750) <= 0
      BY <1>5, <1>6, <1>14, <1>22, ClearIntoHoleDown
    <3> QED
      BY <1>16, <1>22, <3>1
  <2>4. Turn(s, Point(HoleL(src, radius), 750), t) >= 0 /\ Turn(s, Point(HoleR(src, radius), 750), t) <= 0
    BY <1>15, <1>22, <2>3, TurnToSide
  <2> QED
    BY <2>2, <2>4 DEF Ends
<1>23. CASE src \in DOMAIN Holes /\ dst = "bottom"
  <2>1. c = CornerOne(s, GateDown(src, 850, radius), t)
    BY <1>8, <1>10, <1>23
  <2>2. Ends(s, Point(HoleR(src, radius), 850), Point(HoleL(src, radius), 850), t, c)
    BY <1>11, <1>23, <2>1
  <2>3. SideOf(s, t, HoleR(src, radius), 850) <= 0 /\ SideOf(s, t, HoleL(src, radius), 850) >= 0
    <3>1. SideOf(t, s, HoleR(src, radius), 850) >= 0 /\ SideOf(t, s, HoleL(src, radius), 850) <= 0
      BY <1>5, <1>6, <1>14, <1>23, ClearIntoHoleUp
    <3> QED
      BY <1>16, <1>23, <3>1
  <2>4. Turn(s, Point(HoleR(src, radius), 850), t) >= 0 /\ Turn(s, Point(HoleL(src, radius), 850), t) <= 0
    BY <1>15, <1>23, <2>3, TurnToSide
  <2> QED
    BY <2>2, <2>4 DEF Ends
<1>24. ~(src \in DOMAIN Holes /\ dst \in DOMAIN Holes /\ src # dst)
  <2>1. src = "lefthole" /\ dst = "righthole" => s.x < 300 - radius /\ t.x > 700 + radius
    BY <1>3, <1>6, <1>7, HoleSides
  <2>2. src = "righthole" /\ dst = "lefthole" => s.x > 700 + radius /\ t.x < 300 - radius
    BY <1>3, <1>6, <1>7, HoleSides
  <2> QED
    BY <1>2, <1>3, <2>1, <2>2
<1> QED
  BY <1>4, <1>17, <1>18, <1>19, <1>20, <1>21, <1>22, <1>23, <1>24

\* No target is on the edge of the map, nor beside it.
LEMMA TargetsInside ==
    ASSUME Apart, NEW s, NEW t \in Targets(s)
    PROVE  t.pos.x > 0 /\ t.pos.x < 1000
<1>1. t \in Enemies(s)
  BY DEF Targets, Nearest
<1>2. \/ \E k \in Knights : t.pos = KnightPos(k[1], k[2])
      \/ \E b \in buildings : t.pos = b.pos
  BY <1>1 DEF Enemies
<1>3. CASE \E k \in Knights : t.pos = KnightPos(k[1], k[2])
  <2>1. PICK k \in Knights : t.pos = KnightPos(k[1], k[2])
    BY <1>3
  <2>2. k[1] \in Teams /\ k[2] \in Sides
    BY DEF Knights
  <2>3. \E i \in 4..16, j \in {3, 5, 27, 29} : KnightPos(k[1], k[2]) = Point(50 * i, 50 * j)
    BY <2>2, KnightRect, Zenon
  <2>4. PICK i \in 4..16, j \in {3, 5, 27, 29} : t.pos = Point(50 * i, 50 * j)
    BY <2>1, <2>3
  <2>5. t.pos.x = 50 * i
    BY <2>4, PointFields
  <2> QED
    BY <2>5
<1>4. CASE \E b \in buildings : t.pos = b.pos
  <2>1. PICK b \in buildings : t.pos = b.pos
    BY <1>4
  <2>2. PICK x \in 1..18, y \in 1..30 : b.pos = PosFromTile(Point(x, y))
    BY DEF Apart, OnTiles
  <2>3. b.pos = Point(x * 50 + 25, y * 50 + 25)
    BY <2>2, TilesOfBuilding
  <2>4. t.pos.x = x * 50 + 25
    BY <2>1, <2>3, PointFields
  <2> QED
    BY <2>4
<1> QED
  BY <1>2, <1>3, <1>4

\* A squire on the map that could walk straight to its target, through the hole of its own
\* half if one lies between, never turns aside.
THEOREM NoSquireTurnsAside == Spec => []NoDetour
<1>1. FieldInv => NoDetour
  <2> SUFFICES ASSUME FieldInv, squire # NoSquire, Located(squire), squire.pos.x \in 0..Width,
                      NEW t \in Targets(squire), Clear(squire.pos, t.pos, squire.radius),
                      (squire.pos.x < CenterX <=> t.pos.x < CenterX)
               PROVE  Corner(squire, t) = t.pos
    BY DEF NoDetour
  <2>1. squire.pos \in Points /\ squire.radius \in 0..74
    BY DEF FieldInv, SquireOnMap, Squires
  <2>2. t.pos \in Points /\ Location(t.pos, squire.radius) # "nowhere"
    BY <2>1, TargetsLocated DEF FieldInv
  <2>3. t.pos.x > 0 /\ t.pos.x < 1000
    BY TargetsInside DEF FieldInv
  <2>4. squire.pos.x >= 0 /\ squire.pos.x <= 1000 /\ (squire.pos.x < 500 <=> t.pos.x < 500)
    <3>1. Width = 1000 /\ CenterX = 500
      BY MapSizes
    <3>2. squire.pos.x \in 0..1000
      BY <3>1
    <3>3. squire.pos.x >= 0 /\ squire.pos.x <= 1000
      <4> DEFINE x == squire.pos.x
      <4>1. x \in 0..1000
        BY <3>2
      <4> HIDE DEF x
      <4>2. x >= 0 /\ x <= 1000
        BY <4>1
      <4> QED
        BY <4>2 DEF x
    <3>4. squire.pos.x < 500 <=> t.pos.x < 500
      BY <3>1
    <3> QED
      BY <3>3, <3>4
  <2>5. Location(squire.pos, squire.radius) # "nowhere"
    BY DEF Located
  <2> QED
    BY <2>1, <2>2, <2>3, <2>4, <2>5, StraightToTarget DEF Corner
<1> QED
  BY <1>1, FieldInvariant, PTL

============================================================================
