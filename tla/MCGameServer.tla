--------------------------- MODULE MCGameServer ---------------------------
(* Three games of three players: any two games share a player. *)
EXTENDS GameServer, TLC

CONSTANTS p1, p2, p3, g1, g2, g3

MCSides == (g1 :> {p1, p2}) @@ (g2 :> {p1, p3}) @@ (g3 :> {p2})
=============================================================================
