------------------------------- MODULE MCBot -------------------------------
(* A small deck for TLC: two squires, two wing knights and two slots. *)
EXTENDS Bot

CONSTANTS s1, s2

MCCost == [c \in Cards |-> IF c \in Squires THEN 3 ELSE 1]

\* The wing knights are dealt to the hand, or wait, or one of each.
MCDecks == {<<s1, s2, LeftKnight, RightKnight>>,
            <<LeftKnight, RightKnight, s1, s2>>,
            <<LeftKnight, s2, RightKnight, s1>>}
=============================================================================
