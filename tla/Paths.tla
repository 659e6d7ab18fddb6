------------------------------- MODULE Paths -------------------------------
(***************************************************************************)
(* The map "Thanatos" and the way of a unit over it (pkg/nav/thanatos.go). *)
(* A row of three shields crosses the map; ground units get from the top   *)
(* to the bottom through the left hole or the right one.  Positions are in *)
(* pixels, Y grows downwards.  The code computes in fixed point numbers of *)
(* a tenth of a pixel, all sizes of the map being whole pixels.            *)
(***************************************************************************)
EXTENDS Integers, Sequences

TileSize == 50      \* TileSizeInPixel
TileNumX == 20
TileNumY == 32
Width == TileSize * TileNumX
Height == TileSize * TileNumY
CenterX == Width \div 2
CenterY == Height \div 2

\* Where top ends and bottom begins: the row of shields and holes
ShieldTop == Height \div 2 - TileSize
ShieldBottom == Height \div 2 + TileSize

\* The holes and the shields between and beside them
Holes == [lefthole |-> [l |-> 3 * TileSize, r |-> 6 * TileSize],
          righthole |-> [l |-> Width - 6 * TileSize, r |-> Width - 3 * TileSize]]
Shields == {[l |-> 0, r |-> Holes.lefthole.l],
            [l |-> Holes.lefthole.r, r |-> Holes.righthole.l],
            [l |-> Holes.righthole.r, r |-> Width]}

Point(x, y) == [x |-> x, y |-> y]
Minus(a, b) == Point(a.x - b.x, a.y - b.y)
Cross(a, b) == a.x * b.y - a.y * b.x

\* A unit of this radius fits into the hole at this place.
InHole(pos, hole, radius) == pos.x > Holes[hole].l + radius /\ pos.x < Holes[hole].r - radius

\* getLocation; "nowhere" is nil.
Location(pos, radius) ==
    IF pos.y < ShieldTop THEN "top"
    ELSE IF pos.y > ShieldBottom THEN "bottom"
    ELSE IF InHole(pos, "lefthole", radius) THEN "lefthole"
    ELSE IF InHole(pos, "righthole", radius) THEN "righthole"
    ELSE "nowhere"

\* (Faulty variant: left and right are those of a unit that goes upwards.)
PortalUp(hole, y, down, radius) ==
    [left |-> Point(Holes[hole].l + radius, y), right |-> Point(Holes[hole].r - radius, y)]

\* (Faulty variant: a portal is as wide as its hole.)
PortalWide(hole, y, down, radius) ==
    LET near == Point(Holes[hole].l, y)
        far == Point(Holes[hole].r, y)
    IN  IF down THEN [left |-> far, right |-> near] ELSE [left |-> near, right |-> far]

\* The eight portals, after narrowPath: an end of a hole, as one sees it who goes
\* through it downwards or upwards.
Portal(hole, y, down, radius) ==
    LET near == Point(Holes[hole].l + radius, y)
        far == Point(Holes[hole].r - radius, y)
    IN  IF down THEN [left |-> far, right |-> near] ELSE [left |-> near, right |-> far]

\* (Faulty variant: the hole on the other side.)
HoleAcross(from) == IF from.x < CenterX THEN "righthole" ELSE "lefthole"

\* The hole on the side of the unit
HoleOnSide(from) == IF from.x < CenterX THEN "lefthole" ELSE "righthole"

\* The portals between two areas, for a unit that is in the first of them
PortalsBetween(src, dst, from, radius) ==
    LET hole == HoleOnSide(from)
        TopToHole(h) == Portal(h, ShieldTop, TRUE, radius)
        BottomToHole(h) == Portal(h, ShieldBottom, FALSE, radius)
        HoleToTop(h) == Portal(h, ShieldTop, FALSE, radius)
        HoleToBottom(h) == Portal(h, ShieldBottom, TRUE, radius)
    IN  CASE src = "top" /\ dst = "bottom" -> <<TopToHole(hole), HoleToBottom(hole)>>
          [] src = "bottom" /\ dst = "top" -> <<BottomToHole(hole), HoleToTop(hole)>>
          [] src = "top" /\ dst \in DOMAIN Holes -> <<TopToHole(dst)>>
          [] src = "bottom" /\ dst \in DOMAIN Holes -> <<BottomToHole(dst)>>
          [] src \in DOMAIN Holes /\ dst = "top" -> <<HoleToTop(src)>>
          [] src \in DOMAIN Holes /\ dst = "bottom" -> <<HoleToBottom(src)>>
          [] src \in DOMAIN Holes /\ dst \in DOMAIN Holes \ {src} ->
               IF from.y < CenterY THEN <<HoleToTop(src), TopToHole(dst)>>
                                   ELSE <<HoleToBottom(src), BottomToHole(dst)>>
          [] OTHER -> <<>>

\* findPath: the portals on the way, and the goal
FindPath(from, to, radius) ==
    Append(PortalsBetween(Location(from, radius), Location(to, radius), from, radius),
           [left |-> to, right |-> to])

\* One round of the loop of nextCornerInPath: the funnel between left and right is
\* narrowed by a portal, until the portal lies beyond one of its sides.
Narrow(start, funnel, portal) ==
    LET left == Minus(funnel.left, start)
        right == Minus(funnel.right, start)
        newLeft == Minus(portal.left, start)
        newRight == Minus(portal.right, start)
        leftIn == Cross(left, newLeft) >= 0
        narrowed == IF leftIn THEN portal.left ELSE funnel.left
        rightIn == Cross(right, newRight) <= 0
        Found(corner) == [found |-> TRUE, left |-> corner, right |-> corner]
    IN  IF funnel.found THEN funnel
        ELSE IF leftIn /\ Cross(right, newLeft) > 0 THEN Found(funnel.right)
        ELSE IF rightIn /\ Cross(Minus(narrowed, start), newRight) < 0 THEN Found(narrowed)
        ELSE [found |-> FALSE, left |-> narrowed,
              right |-> IF rightIn THEN portal.right ELSE funnel.right]

\* The funnel after the first i portals of the path, and where it closes
NextCornerInPath(path, start) ==
    LET funnel[i \in 1..Len(path)] ==
          IF i = 1 THEN [found |-> FALSE, left |-> path[1].left, right |-> path[1].right]
          ELSE Narrow(start, funnel[i - 1], path[i])
    IN  funnel[Len(path)].left

FindNextCornerInPath(from, to, radius) == NextCornerInPath(FindPath(from, to, radius), from)
=============================================================================
