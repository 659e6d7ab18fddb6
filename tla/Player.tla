------------------------------ MODULE Player ------------------------------
(***************************************************************************)
(* The state one player has in a match: pkg/game/player.go.                *)
(*                                                                         *)
(* A step of the match (game.Update) has three parts, which "phase"        *)
(* separates: the actions of the step are executed one by one (Do), the    *)
(* player is updated (energy, drawing a card), and the units are updated,  *)
(* which may kill knights and report each death any number of times        *)
(* (OnKnightDead is called by every damage a dead knight still takes       *)
(* before removeDeadUnits).                                                *)
(*                                                                         *)
(* The battlefield decides which tiles are free, when a knight can cast    *)
(* and when it dies; here those are left open.                             *)
(***************************************************************************)
EXTENDS Integers, Sequences, SequencesExt

CONSTANTS
    Squires,        \* cards that summon units or cast a spell
    LeftKnight,     \* the cards of the two wing knights
    RightKnight,
    Leader,         \* the center knight, whose card is never dealt
    NoCard,         \* an empty slot of the hand
    Decks,          \* the orders in which the cards may be given
    DeckSize,       \* number of cards that are dealt
    HandSize,       \* handSize
    DrawInterval,   \* drawInterval
    MaxEnergy,      \* maxEnergy
    StartEnergy,    \* startEnergy
    EnergyPerFrame, \* energyPerFrame
    Cost            \* the energy each card costs

Wings == {LeftKnight, RightKnight}
Knights == Wings \cup {Leader}
Cards == Squires \cup Wings
Slots == 1..HandSize

ASSUME PlayerAssumption ==
    /\ LeftKnight # RightKnight /\ Leader \notin Cards \cup {NoCard}
    /\ Wings \cap Squires = {} /\ NoCard \notin Cards
    /\ HandSize \in Nat \ {0} /\ DeckSize \in Nat
    /\ DeckSize - HandSize >= 2
    /\ DrawInterval \in Nat
    /\ MaxEnergy \in Nat /\ StartEnergy \in 0..MaxEnergy /\ EnergyPerFrame \in Nat
    /\ Cost \in [Cards -> Nat]
    /\ \A d \in Decks :
          /\ d \in [1..DeckSize -> Cards]
          /\ \A i, j \in 1..DeckSize : d[i] = d[j] => i = j
          /\ \A c \in Cards : \E i \in 1..DeckSize : d[i] = c

VARIABLES
    phase,      \* which part of the step is executed
    boosted,    \* game.step > EnergyBoostAfter
    energy,     \* player.energy
    hand,       \* player.hand
    pending,    \* player.pending
    emptyIdx,   \* player.emptyIdx
    drawTimer,  \* player.drawTimer; below 0 it is as good as 0
    knightIds,  \* the knights whose entry in player.knightIds is not 0
    score,      \* player.score
    field,      \* the player's knights that are in game.units
    dying       \* those of them that are dead and not removed yet

worldVars == <<phase, boosted, field, dying>>
vars == <<phase, boosted, energy, hand, pending, emptyIdx, drawTimer,
          knightIds, score, field, dying>>

LeaderScore == 3
WingScore == 1

\* newPlayer: the first cards fill the hand, the others wait.
Init ==
    /\ phase = "actions"
    /\ boosted = FALSE
    /\ energy = StartEnergy
    /\ \E deck \in Decks :
          /\ hand = [i \in Slots |-> deck[i]]
          /\ pending = [i \in 1..DeckSize - HandSize |-> deck[HandSize + i]]
    /\ emptyIdx = <<>>
    /\ drawTimer = 0
    /\ knightIds = Knights
    /\ score = LeaderScore + 2 * WingScore
    /\ field = Knights
    /\ dying = {}

----------------------------------------------------------------------------
\* The energy check of Do.
Affordable(card) == energy >= Cost[card]

\* findKnight: the knight a card belongs to, if it is there
HasKnight(card) == card \in Wings => card \in knightIds \cap field

\* Faulty variant: the last slot to become empty is filled first.
FreedFirst(slot) == <<slot>> \o emptyIdx

\* removeCardFromHand: the slot queues up for the next card.
Freed(slot) == Append(emptyIdx, slot)

\* An action Do accepts: the card is in the hand and can be paid, the tiles are
\* free and the knight can cast (both decided elsewhere).
Do(slot) ==
    LET card == hand[slot] IN
    /\ phase = "actions"
    /\ card # NoCard
    /\ Affordable(card)
    /\ HasKnight(card)
    /\ energy' = energy - Cost[card]
    /\ hand' = [hand EXCEPT ![slot] = NoCard]
    /\ emptyIdx' = Freed(slot)
    /\ pending' = Append(pending, card)
    /\ UNCHANGED <<drawTimer, knightIds, score, worldVars>>

\* The energy after an update, doubled late in the match and limited.
Regained ==
    LET more == energy + (IF boosted THEN 2 * EnergyPerFrame ELSE EnergyPerFrame)
    IN  IF more > MaxEnergy THEN MaxEnergy ELSE more

\* canDrawCard
CanDraw == drawTimer <= 0 /\ Len(emptyIdx) > 0

\* Update of the player: the first slot that became empty gets the card that has
\* waited longest; pending[0] panics when there is none.
Update ==
    /\ phase = "actions"
    /\ phase' = IF CanDraw /\ pending = <<>> THEN "panic" ELSE "units"
    /\ energy' = Regained
    /\ \/ /\ CanDraw /\ pending # <<>>
          /\ hand' = [hand EXCEPT ![Head(emptyIdx)] = Head(pending)]
          /\ emptyIdx' = Tail(emptyIdx)
          /\ pending' = Tail(pending)
          /\ drawTimer' = DrawInterval
       \/ /\ ~(CanDraw /\ pending # <<>>)
          /\ drawTimer' = IF drawTimer > 0 THEN drawTimer - 1 ELSE 0
          /\ UNCHANGED <<hand, emptyIdx, pending>>
    /\ UNCHANGED <<boosted, knightIds, score, field, dying>>

\* What the death of a knight costs.
Worth(knight) == IF knight = Leader THEN LeaderScore ELSE WingScore

\* The score after a report of a death: only the first one finds the knight's id.
ScoreAfter(knight) == IF knight \in knightIds THEN score - Worth(knight) ELSE score

\* findCard: a card is at most once in the hand or among the pending ones.
InHand(card) == \E i \in Slots : hand[i] = card
IsPending(card) == \E i \in DOMAIN pending : pending[i] = card
SlotOf(card) == CHOOSE i \in Slots : hand[i] = card
PlaceOf(card) == CHOOSE i \in DOMAIN pending : pending[i] = card

\* Faulty variants: only a card in the hand is taken away; with the card, those that
\* wait before it are lost.
PendingKept(knight) == pending
PendingCut(knight) ==
    IF IsPending(knight) THEN SubSeq(pending, PlaceOf(knight) + 1, Len(pending)) ELSE pending

\* The pending cards without that of the dead knight.
PendingAfter(knight) ==
    IF IsPending(knight) THEN RemoveAt(pending, PlaceOf(knight)) ELSE pending

\* Damage to a knight that is dead, now or since earlier in this step.
OnKnightDead(knight) ==
    /\ phase = "units"
    /\ knight \in field
    /\ dying' = dying \cup {knight}
    /\ score' = ScoreAfter(knight)
    /\ knightIds' = knightIds \ {knight}
    /\ IF InHand(knight)
       THEN /\ hand' = [hand EXCEPT ![SlotOf(knight)] = NoCard]
            /\ emptyIdx' = Freed(SlotOf(knight))
       ELSE UNCHANGED <<hand, emptyIdx>>
    /\ pending' = PendingAfter(knight)
    /\ UNCHANGED <<phase, boosted, energy, drawTimer, field>>

\* The rest of the step: removeDeadUnits and the step counter.
EndStep ==
    /\ phase = "units"
    /\ phase' = "actions"
    /\ field' = field \ dying
    /\ dying' = {}
    /\ boosted' \in {b \in BOOLEAN : boosted => b}
    /\ UNCHANGED <<energy, hand, pending, emptyIdx, drawTimer, knightIds, score>>

Next ==
    \/ \E slot \in Slots : Do(slot)
    \/ Update
    \/ \E knight \in Knights : OnKnightDead(knight)
    \/ EndStep

Spec == Init /\ [][Next]_vars

\* The ticker of game.Run keeps the steps coming, and a step runs to its end.
FairSpec == Spec /\ WF_vars(Update) /\ WF_vars(EndStep)

----------------------------------------------------------------------------
\* Types of all variables.
TypeOK ==
    /\ phase \in {"actions", "units", "panic"}
    /\ boosted \in BOOLEAN
    /\ energy \in Int
    /\ hand \in [Slots -> Cards \cup {NoCard}]
    /\ pending \in Seq(Cards)
    /\ emptyIdx \in Seq(Slots)
    /\ drawTimer \in 0..DrawInterval
    /\ knightIds \in SUBSET Knights
    /\ score \in Int
    /\ field \in SUBSET Knights
    /\ dying \in SUBSET Knights

\* The cards a player may still use.
Live == Squires \cup (knightIds \cap Wings)

\* Every card of the player is in exactly one place, in the hand or pending, for the
\* whole match, and the card of a knight is there exactly until the knight dies.
CardsConserved ==
    /\ \A c \in Cards : (c \in Live) <=> (InHand(c) \/ IsPending(c))
    /\ \A i, j \in Slots : hand[i] = hand[j] => i = j \/ hand[i] = NoCard
    /\ \A i, j \in DOMAIN pending : pending[i] = pending[j] => i = j
    /\ \A i \in Slots, j \in DOMAIN pending : hand[i] # pending[j]

\* emptyIdx names every empty slot once, so that no slot is lost or filled twice.
EmptySlotsListed ==
    /\ \A i \in Slots : hand[i] = NoCard <=> \E k \in DOMAIN emptyIdx : emptyIdx[k] = i
    /\ \A k, l \in DOMAIN emptyIdx : emptyIdx[k] = emptyIdx[l] => k = l

\* There is always a card to draw for an empty slot: drawCard does not index an
\* empty slice even after both wing knights have died.
DrawNeverPanics == phase # "panic"

\* Several cards used in one step never overdraw the energy.
EnergyInRange == energy \in 0..MaxEnergy

\* The score counts the living knights, however often a death was reported.
ScoreCountsKnights ==
    score = (IF Leader \in knightIds THEN LeaderScore ELSE 0)
          + (IF LeftKnight \in knightIds THEN WingScore ELSE 0)
          + (IF RightKnight \in knightIds THEN WingScore ELSE 0)

\* "should not be here since we already check card in hand" (player.go:422): a
\* knight whose card the player still has can be found when the card is used.
KnightCardHasKnight ==
    phase = "actions" => \A c \in Cards : InHand(c) \/ IsPending(c) => HasKnight(c)
=============================================================================
