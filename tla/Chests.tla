------------------------------ MODULE Chests ------------------------------
(***************************************************************************)
(* What is in a chest: the tables of pkg/data/chest.go and OpenChest of    *)
(* pkg/lobby/chest.go.  Each entry of a table has a value for each arena,  *)
(* the first one at 1.                                                     *)
(*                                                                         *)
(* Opening a chest first decides how many cards of each rarity it holds,   *)
(* then into how many different cards ("bundles") those of a rarity are    *)
(* split, then draws the cards.  Which cards they are is left out.         *)
(***************************************************************************)
EXTENDS Integers

Rarities == {"Common", "Rare", "Epic", "Legendary"}
ChestNames == {"Silver", "Gold", "Diamond", "D-Matter", "E-Matter", "Free", "Medal", "Training"}

\* Cards of each rarity, CardPool: all of them can be found from the first arena on.
PoolSize(rarity, arena) ==
    CASE rarity = "Common" -> 11
      [] rarity = "Rare" -> 18
      [] rarity = "Epic" -> 10
      [] rarity = "Legendary" -> 4

\* The arenas whose table has a chance for one more card of the rarity, from lowest on,
\* but for those in without.
From(lowest, without) == (lowest..6) \ without

Never == {}
None == <<0, 0, 0, 0, 0, 0>>

(***************************************************************************)
(* The table of chests: cards in all, the cards of each rarity that are    *)
(* guaranteed, the arenas where there may be one more, the number of       *)
(* different cards, the cash, and the gold for each card.                  *)
(***************************************************************************)
Table(name) ==
    CASE name = "Silver" -> [
           cards |-> <<7, 8, 9, 10, 12, 13>>,
           guaranteed |-> [Rare |-> <<0, 0, 1, 1, 1, 1>>, Epic |-> None,
                           Legendary |-> None],
           extra |-> [Rare |-> From(1, {3}), Epic |-> From(1, {}), Legendary |-> From(2, {})],
           bundleMin |-> 2, cash |-> 0..0, gold |-> 7..8]
      [] name = "Gold" -> [
           cards |-> <<14, 16, 18, 21, 23, 26>>,
           guaranteed |-> [Rare |-> <<3, 4, 4, 5, 5, 6>>, Epic |-> None,
                           Legendary |-> None],
           extra |-> [Rare |-> From(1, {2}), Epic |-> From(1, {}), Legendary |-> From(2, {})],
           bundleMin |-> 3, cash |-> 0..0, gold |-> 14..16]
      [] name = "Diamond" -> [
           cards |-> <<89, 93, 97, 101, 105, 109>>,
           guaranteed |-> [Rare |-> <<14, 15, 16, 16, 17, 18>>, Epic |-> <<1, 1, 1, 2, 2, 2>>,
                           Legendary |-> None],
           extra |-> [Rare |-> Never, Epic |-> Never, Legendary |-> From(2, {})],
           bundleMin |-> 5, cash |-> 0..0, gold |-> 5..5]
      [] name = "D-Matter" -> [
           cards |-> <<178, 186, 194, 202, 210, 218>>,
           guaranteed |-> [Rare |-> <<35, 37, 38, 40, 42, 43>>, Epic |-> <<5, 6, 6, 6, 7, 7>>,
                           Legendary |-> None],
           extra |-> [Rare |-> Never, Epic |-> Never, Legendary |-> From(2, {})],
           bundleMin |-> 5, cash |-> 0..0, gold |-> 7..7]
      [] name = "E-Matter" -> [
           cards |-> <<260, 270, 280, 290, 300, 310>>,
           guaranteed |-> [Rare |-> <<52, 54, 56, 58, 60, 62>>, Epic |-> <<17, 18, 18, 19, 20, 20>>,
                           Legendary |-> <<0, 0, 0, 0, 1, 1>>],
           extra |-> [Rare |-> Never, Epic |-> Never, Legendary |-> {2, 3, 4}],
           bundleMin |-> 5, cash |-> 0..0, gold |-> 12..12]
      [] name = "Free" -> [
           cards |-> <<5, 6, 7, 8, 9, 11>>,
           guaranteed |-> [Rare |-> <<0, 0, 0, 0, 0, 1>>, Epic |-> None,
                           Legendary |-> None],
           extra |-> [Rare |-> From(1, {6}), Epic |-> From(1, {}), Legendary |-> From(2, {})],
           bundleMin |-> 2, cash |-> 2..4, gold |-> 7..8]
      [] name = "Medal" -> [
           cards |-> <<27, 32, 37, 42, 46, 51>>,
           guaranteed |-> [Rare |-> <<4, 5, 6, 7, 7, 8>>, Epic |-> None,
                           Legendary |-> None],
           extra |-> [Rare |-> From(1, {4}), Epic |-> From(1, {}), Legendary |-> From(2, {})],
           bundleMin |-> 4, cash |-> 3..5, gold |-> 14..16]
      [] name = "Training" -> [
           cards |-> <<5, 5, 5, 5, 5, 6>>,
           guaranteed |-> [Rare |-> <<0, 0, 0, 0, 0, 1>>, Epic |-> None,
                           Legendary |-> None],
           extra |-> [Rare |-> From(1, {}), Epic |-> From(1, {}), Legendary |-> {6}],
           bundleMin |-> 2, cash |-> 0..0, gold |-> 2..3]

\* ChestOrder: the chests that victories bring, over and over.
DiamondAt == {
    3, 6, 14, 18, 23, 25, 30, 35, 38, 43, 46, 54, 58, 63, 65, 70, 75, 78, 86, 91,
    94, 98, 103, 105, 110, 115, 118, 123, 126, 134, 138, 143, 145, 150, 155, 163,
    166, 171, 174, 178, 183, 185, 195, 198, 206, 211, 214, 218, 223, 225, 235, 238}
DMatterAt == {51, 158, 190, 230}
EMatterAt == {11, 83, 131, 203}
OrderLength == 240
ChestOrder(i) ==
    CASE i \in DiamondAt -> "Diamond"
      [] i \in DMatterAt -> "D-Matter"
      [] i \in EMatterAt -> "E-Matter"
      [] OTHER -> "Gold"

----------------------------------------------------------------------------
\* The outcomes of the draws for one more card of a rarity
Extras(info, arena) ==
    {x \in [Rarities \ {"Common"} -> 0..1] :
        \A r \in DOMAIN x : x[r] = 1 => arena + 1 \in info.extra[r]}

\* Cards of each rarity: the common ones are the rest.
CardCount(info, arena, x) ==
    LET special == [r \in DOMAIN x |-> info.guaranteed[r][arena + 1] + x[r]]
        common == info.cards[arena + 1] - special.Rare - special.Epic - special.Legendary
    IN  [r \in Rarities |-> IF r = "Common" THEN common ELSE special[r]]

Total(number) == number.Common + number.Rare + number.Epic + number.Legendary

\* Each rarity the chest holds is at least one bundle.
Held(cards) == [r \in Rarities |-> IF cards[r] > 0 THEN 1 ELSE 0]

\* The number of bundles there have to be
BundlesDue(info, cards) ==
    IF info.bundleMin > Total(Held(cards)) THEN info.bundleMin ELSE Total(Held(cards))

\* Faulty variant: a rarity is split further than it has cards.
BundleCountsUnlimited(info, cards) ==
    {b \in [Rarities -> 0..BundlesDue(info, cards)] :
        /\ \A r \in Rarities : b[r] > 0 <=> cards[r] > 0
        /\ Total(b) = BundlesDue(info, cards)}

\* How the loop may have split them: again and again one of the rarities that have more
\* cards than bundles is drawn and gets one more.  There is no result if it has to draw
\* from none of them, which panics.
BundleCounts(info, cards) ==
    {b \in [Rarities -> 0..BundlesDue(info, cards)] :
        /\ \A r \in Rarities : IF cards[r] > 0 THEN b[r] \in 1..cards[r] ELSE b[r] = 0
        /\ Total(b) = BundlesDue(info, cards)}

\* The cards of a rarity are drawn without repetition, and their number is cut at
\* different places: too few cards in the pool, or too few to cut, are a panic.
Drawn(b, cards, arena) ==
    \A r \in Rarities : b[r] > 0 => b[r] <= PoolSize(r, arena) /\ b[r] - 1 <= cards[r] - 1

\* OpenChest does not panic, whatever is drawn.
Opens(name, arena) ==
    LET info == Table(name) IN
    /\ info.cash # {} /\ info.gold # {}
    /\ \A x \in Extras(info, arena) :
          LET cards == CardCount(info, arena, x) IN
          /\ BundleCounts(info, cards) # {}
          /\ \A b \in BundleCounts(info, cards) : Drawn(b, cards, arena)

\* The chests and arenas for which that is so
Openable == {<<o.name, o.arena>> :
                o \in {o \in [name : ChestNames, arena : 0..5] : Opens(o.name, o.arena)}}
=============================================================================
