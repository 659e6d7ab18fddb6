---------------------------- MODULE MCNotifier ----------------------------
(* Two players who meet in one game, then one of them plays against the bot. *)
EXTENDS Notifier, TLC

CONSTANTS p1, p2, g1, g2

MCSides == (g1 :> {p1, p2}) @@ (g2 :> {p1})
ConnSymmetry == Permutations(Conns)
=============================================================================
