----------------------------- MODULE MCBattle ------------------------------
EXTENDS Battle

M(name, team, tiles, leader) == [kind |-> name, team |-> team, tiles |-> tiles, leader |-> leader]
Match(army, blue, red) ==
    [army |-> army, cards |-> [p \in {"Blue", "Red"} |-> IF p = "Blue" THEN blue ELSE red]]

MCTeams == {"Blue", "Red"}
MCTiles == 0..6
MCObstacles == {0}
MCSites == {{4}, {4, 6}, {0, 6}}

\* Missiles against what explodes when it dies; a leader that answers deaths; cannons and
\* clouds of a leader; a veil; frost on a builder; a barrack and a leader that sends
\* footmen; a cloud; an EMP; a laser and footmen; two builders that want the same tiles.
MCMatches == {
    Match(<<M("astra", "Blue", {1}, TRUE), M("buran", "Red", {3}, TRUE)>>, {"micromissile"}, {"wasp"}),
    Match(<<M("tombstone", "Blue", {1}, TRUE), M("buran", "Blue", {2}, FALSE),
            M("astra", "Red", {3}, TRUE)>>, {}, {}),
    Match(<<M("archsapper", "Blue", {1}, TRUE), M("cannon", "Blue", {4}, FALSE),
            M("lancer", "Red", {3}, TRUE)>>, {}, {}),
    Match(<<M("legion", "Blue", {1}, TRUE), M("astra", "Red", {3}, TRUE)>>, {"shadowvision"}, {}),
    Match(<<M("astra", "Blue", {1}, TRUE), M("frost", "Blue", {2}, FALSE),
            M("buran", "Red", {3}, FALSE), M("astra", "Red", {5}, TRUE)>>, {}, {}),
    Match(<<M("astra", "Blue", {1}, TRUE), M("tombstone", "Blue", {2}, FALSE),
            M("nagmash", "Red", {3}, TRUE)>>, {}, {}),
    Match(<<M("astra", "Blue", {1}, TRUE), M("lancer", "Blue", {2}, FALSE),
            M("astra", "Red", {3}, TRUE)>>, {}, {}),
    Match(<<M("astra", "Blue", {1}, TRUE), M("valkyrie", "Blue", {2}, FALSE),
            M("astra", "Red", {5}, TRUE)>>, {}, {"wasp"}),
    Match(<<M("buran", "Blue", {1}, TRUE), M("astra", "Blue", {2}, FALSE),
            M("nagmash", "Red", {3}, FALSE), M("astra", "Red", {5}, TRUE)>>, {}, {}),
    Match(<<M("astra", "Blue", {1}, TRUE), M("buran", "Blue", {2}, FALSE),
            M("buran", "Red", {3}, FALSE), M("astra", "Red", {5}, TRUE)>>, {}, {})}
MCHealth == [k \in KindNames |-> 1]
=============================================================================
