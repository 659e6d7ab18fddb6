----------------------------- MODULE MCAccount -----------------------------
(* A ladder of one rank for each of the six arenas, cheap upgrades, and chests that hold a coin and a copy. *)
EXTENDS Account, TLC

HandlerSymmetry == Permutations(Handlers)

MCCardCost == [i \in 0..LevelMax-2 |-> 1]
MCCoinCost == [i \in 0..LevelMax-2 |-> 1]
MCGains == {[coin |-> 1, cash |-> 0, copies |-> 1]}
=============================================================================
