--------------------------- MODULE Player_proofs ---------------------------
(***************************************************************************)
(* Proofs about Player for every deck, hand size and energy: no card is    *)
(* lost or doubled, drawing never panics, energy and score stay right; and *)
(* about Bot for every patience and way the match may go.                  *)
(***************************************************************************)
EXTENDS Bot, SequenceTheorems, TLAPS

\* Number of dead wing knights
DeadWings == (IF LeftKnight \in knightIds THEN 0 ELSE 1)
           + (IF RightKnight \in knightIds THEN 0 ELSE 1)

\* Every empty slot has a pending card to spare: what a dead knight takes away
\* leaves enough. This is the counting argument behind DrawNeverPanics.
Balance == Len(pending) - Len(emptyIdx) = DeckSize - HandSize - DeadWings

\* Knights still listed are on the field and not dying.
Listed == knightIds \cap dying = {} /\ knightIds \subseteq field
          /\ (phase = "actions" => dying = {})
          /\ field \subseteq knightIds \cup dying

PlayerInv ==
    /\ TypeOK
    /\ Balance
    /\ Listed
    /\ CardsConserved
    /\ EmptySlotsListed
    /\ DrawNeverPanics
    /\ EnergyInRange
    /\ ScoreCountsKnights

\* Removing the card at one place of a sequence.
LEMMA RemoveAtProperties ==
    ASSUME NEW S, NEW s \in Seq(S), NEW i \in 1..Len(s)
    PROVE  /\ RemoveAt(s, i) \in Seq(S)
           /\ Len(RemoveAt(s, i)) = Len(s) - 1
           /\ \A j \in 1..Len(s) - 1 :
                 RemoveAt(s, i)[j] = IF j < i THEN s[j] ELSE s[j + 1]
<1> DEFINE a == SubSeq(s, 1, i - 1)
           b == SubSeq(s, i + 1, Len(s))
<1>0. Len(s) \in Nat /\ i \in Int /\ 1 <= i /\ i <= Len(s)
  OBVIOUS
<1>1. \A j \in 1..Len(s) : s[j] \in S
  OBVIOUS
<1>2. /\ a \in Seq(S) /\ Len(a) = i - 1
      /\ \A j \in 1..i - 1 : a[j] = s[j]
  BY <1>1, SubSeqProperties
<1>3. /\ b \in Seq(S) /\ Len(b) = Len(s) - i
      /\ \A j \in 1..Len(s) - i : b[j] = s[j + i]
  <2>1. i + 1 \in Int /\ Len(s) \in Int /\ \A j \in i + 1..Len(s) : s[j] \in S
    BY <1>1
  <2>2. /\ b \in Seq(S)
        /\ Len(b) = IF i + 1 <= Len(s) THEN Len(s) - (i + 1) + 1 ELSE 0
        /\ \A j \in 1..Len(s) - (i + 1) + 1 : b[j] = s[(i + 1) + j - 1]
    BY <2>1, SubSeqProperties
  <2> QED BY <2>2
<1> HIDE DEF a, b
<1>4. /\ a \o b \in Seq(S)
      /\ Len(a \o b) = Len(a) + Len(b)
      /\ \A j \in 1..Len(a) + Len(b) : (a \o b)[j] = IF j <= Len(a) THEN a[j] ELSE b[j - Len(a)]
  BY <1>2, <1>3, ConcatProperties
<1>5. RemoveAt(s, i) = a \o b
  BY DEF RemoveAt, a, b
<1>6. ASSUME NEW j \in 1..Len(s) - 1
      PROVE  (a \o b)[j] = IF j < i THEN s[j] ELSE s[j + 1]
  <2>1. CASE j < i
    BY <1>2, <1>3, <1>4, <2>1
  <2>2. CASE ~(j < i)
    <3>1. j - Len(a) \in 1..Len(s) - i /\ (j - Len(a)) + i = j + 1
      BY <1>0, <1>2, <2>2
    <3>2. j \in 1..Len(a) + Len(b) /\ ~(j <= Len(a))
      BY <1>0, <1>2, <1>3, <2>2
    <3>3. (a \o b)[j] = b[j - Len(a)] /\ b[j - Len(a)] = s[(j - Len(a)) + i]
      BY <1>3, <1>4, <3>1, <3>2
    <3> QED BY <2>2, <3>1, <3>3
  <2> QED BY <2>1, <2>2
<1>7. Len(a) + Len(b) = Len(s) - 1
  BY <1>0, <1>2, <1>3
<1> QED BY <1>4, <1>5, <1>6, <1>7

\* Appending to a sequence, element by element.
LEMMA AppendPlaces ==
    ASSUME NEW S, NEW s \in Seq(S), NEW e \in S
    PROVE  /\ Append(s, e) \in Seq(S)
           /\ Len(Append(s, e)) = Len(s) + 1
           /\ DOMAIN Append(s, e) = 1..Len(s) + 1
           /\ \A j \in 1..Len(s) : Append(s, e)[j] = s[j]
           /\ Append(s, e)[Len(s) + 1] = e
  OBVIOUS

\* Dropping the first element of a sequence.
LEMMA TailPlaces ==
    ASSUME NEW S, NEW s \in Seq(S), s # <<>>
    PROVE  /\ Tail(s) \in Seq(S)
           /\ Head(s) = s[1] /\ Head(s) \in S
           /\ Len(Tail(s)) = Len(s) - 1 /\ Len(s) \in Nat \ {0}
           /\ DOMAIN Tail(s) = 1..Len(s) - 1
           /\ \A j \in 1..Len(s) - 1 : Tail(s)[j] = s[j + 1]
  OBVIOUS

\* The parts of the assumption about the constants, for the steps below.
LEMMA Constants ==
    /\ HandSize \in Nat \ {0} /\ DeckSize \in Nat /\ DeckSize - HandSize \in Nat
    /\ DeckSize - HandSize >= 2 /\ DrawInterval \in Nat /\ MaxEnergy \in Nat
    /\ StartEnergy \in Nat /\ StartEnergy <= MaxEnergy /\ EnergyPerFrame \in Nat
    /\ Cost \in [Cards -> Nat]
    /\ NoCard \notin Cards /\ LeftKnight # RightKnight
    /\ Leader # LeftKnight /\ Leader # RightKnight
    /\ LeftKnight \in Cards /\ RightKnight \in Cards /\ Leader \notin Cards /\ Leader # NoCard
    /\ LeftKnight \notin Squires /\ RightKnight \notin Squires
    /\ Cards = Squires \cup {LeftKnight, RightKnight}
    /\ Knights = {LeftKnight, RightKnight, Leader}
BY PlayerAssumption DEF Cards, Wings, Knights

LEMMA PlayerInit == Init => PlayerInv
<1> SUFFICES ASSUME Init PROVE PlayerInv
  OBVIOUS
<1> DEFINE rest == DeckSize - HandSize
<1>0. rest \in Nat /\ HandSize \in Nat /\ DeckSize \in Nat /\ NoCard \notin Cards
  BY Constants
<1>1. PICK deck \in Decks :
         /\ hand = [i \in Slots |-> deck[i]]
         /\ pending = [i \in 1..rest |-> deck[HandSize + i]]
  BY DEF Init
<1>2. /\ deck \in [1..DeckSize -> Cards]
      /\ \A i, j \in 1..DeckSize : deck[i] = deck[j] => i = j
      /\ \A c \in Cards : \E i \in 1..DeckSize : deck[i] = c
  BY PlayerAssumption
<1>3. /\ \A i \in 1..HandSize : i \in 1..DeckSize
      /\ \A i \in 1..rest : HandSize + i \in 1..DeckSize
  BY <1>0, Constants
<1>4. hand \in [Slots -> Cards]
  BY <1>1, <1>2, <1>3 DEF Slots
<1>5. pending \in [1..rest -> Cards]
  BY <1>1, <1>2, <1>3
<1>6. pending \in Seq(Cards) /\ DOMAIN pending = 1..rest /\ Len(pending) = rest
  <2> HIDE DEF rest
  <2>1. pending \in Seq(Cards)
    BY <1>0, <1>5, SMT
  <2>2. DOMAIN pending = 1..rest
    BY <1>5
  <2>3. Len(pending) = rest
    BY <1>0, <2>1, <2>2
  <2> QED BY <2>1, <2>2, <2>3
<1>7. \A i \in Slots : hand[i] \in Cards /\ hand[i] # NoCard
  BY <1>0, <1>4
<1>8. TypeOK
  <2>1. hand \in [Slots -> Cards \cup {NoCard}]
    BY <1>4
  <2>2. energy \in Int /\ score \in Int /\ drawTimer \in 0..DrawInterval
    BY Constants DEF Init, LeaderScore, WingScore
  <2>3. emptyIdx \in Seq(Slots)
    BY DEF Init
  <2> QED BY <1>6, <2>1, <2>2, <2>3 DEF TypeOK, Init
<1>9. CardsConserved
  <2>1. \A c \in Cards : InHand(c) \/ IsPending(c)
    <3> SUFFICES ASSUME NEW c \in Cards PROVE InHand(c) \/ IsPending(c)
      OBVIOUS
    <3>1. PICK k \in 1..DeckSize : deck[k] = c
      BY <1>2
    <3>2. CASE k \in Slots
      BY <1>1, <3>1, <3>2 DEF InHand
    <3>3. CASE k \notin Slots
      <4>1. k - HandSize \in 1..rest /\ HandSize + (k - HandSize) = k
        BY <1>0, <3>3 DEF Slots
      <4>2. pending[k - HandSize] = c
        BY <1>1, <3>1, <4>1
      <4> QED BY <1>6, <4>1, <4>2 DEF IsPending
    <3> QED BY <3>2, <3>3
  <2>2. \A i, j \in Slots : hand[i] = hand[j] => i = j \/ hand[i] = NoCard
    BY <1>1, <1>2, <1>3 DEF Slots
  <2>3. \A i, j \in 1..rest : pending[i] = pending[j] => i = j
    <3> SUFFICES ASSUME NEW i \in 1..rest, NEW j \in 1..rest, pending[i] = pending[j]
                 PROVE  i = j
      OBVIOUS
    <3>1. HandSize + i = HandSize + j
      BY <1>1, <1>2, <1>3
    <3> QED BY <1>0, <3>1
  <2>4. \A i \in Slots, j \in 1..rest : hand[i] # pending[j]
    <3> SUFFICES ASSUME NEW i \in Slots, NEW j \in 1..rest PROVE hand[i] # pending[j]
      OBVIOUS
    <3>1. i \in 1..DeckSize /\ HandSize + j \in 1..DeckSize /\ i # HandSize + j
      BY <1>0, <1>3 DEF Slots
    <3>2. hand[i] = deck[i] /\ pending[j] = deck[HandSize + j]
      BY <1>1
    <3> QED BY <1>2, <3>1, <3>2
  <2>5. \A c \in Cards : c \in Live
    BY Constants DEF Init, Live, Wings
  <2> QED BY <1>6, <2>1, <2>2, <2>3, <2>4, <2>5 DEF CardsConserved
<1>10. EmptySlotsListed
  <2>1. DOMAIN emptyIdx = {}
    BY DEF Init
  <2> QED BY <1>7, <2>1 DEF EmptySlotsListed
<1>11. Balance
  <2>1. DeadWings = 0 /\ Len(emptyIdx) = 0
    BY Constants DEF Init, DeadWings
  <2> QED BY <1>0, <1>6, <2>1 DEF Balance
<1>12. Listed /\ DrawNeverPanics /\ EnergyInRange /\ ScoreCountsKnights
  BY Constants DEF Init, Listed, DrawNeverPanics, EnergyInRange, ScoreCountsKnights,
     LeaderScore, WingScore
<1> QED BY <1>8, <1>9, <1>10, <1>11, <1>12 DEF PlayerInv

\* A slot that becomes empty is listed once more, at the end.
LEMMA SlotFreed ==
    ASSUME PlayerInv, NEW slot \in Slots, hand[slot] # NoCard,
           hand' = [hand EXCEPT ![slot] = NoCard],
           emptyIdx' = Append(emptyIdx, slot)
    PROVE  /\ hand' \in [Slots -> Cards \cup {NoCard}]
           /\ hand'[slot] = NoCard
           /\ \A i \in Slots : i # slot => hand'[i] = hand[i]
           /\ emptyIdx' \in Seq(Slots) /\ Len(emptyIdx') = Len(emptyIdx) + 1
           /\ EmptySlotsListed'
<1>1. /\ hand \in [Slots -> Cards \cup {NoCard}] /\ emptyIdx \in Seq(Slots)
      /\ DOMAIN emptyIdx = 1..Len(emptyIdx) /\ Len(emptyIdx) \in Nat
      /\ EmptySlotsListed
  BY DEF PlayerInv, TypeOK
<1>2. /\ hand' \in [Slots -> Cards \cup {NoCard}]
      /\ hand'[slot] = NoCard
      /\ \A i \in Slots : i # slot => hand'[i] = hand[i]
  BY <1>1
<1>3. /\ emptyIdx' \in Seq(Slots) /\ Len(emptyIdx') = Len(emptyIdx) + 1
      /\ DOMAIN emptyIdx' = 1..Len(emptyIdx) + 1
      /\ \A j \in 1..Len(emptyIdx) : emptyIdx'[j] = emptyIdx[j]
      /\ emptyIdx'[Len(emptyIdx) + 1] = slot
  BY <1>1, AppendPlaces
<1>4. \A k \in 1..Len(emptyIdx) : emptyIdx[k] # slot
  BY <1>1 DEF EmptySlotsListed
<1>5. ASSUME NEW i \in Slots
      PROVE  hand'[i] = NoCard <=> \E k \in DOMAIN emptyIdx' : emptyIdx'[k] = i
  <2>1. CASE i = slot
    BY <1>1, <1>2, <1>3, <2>1
  <2>2. CASE i # slot
    <3>1. hand'[i] = NoCard <=> \E k \in 1..Len(emptyIdx) : emptyIdx[k] = i
      BY <1>1, <1>2, <2>2 DEF EmptySlotsListed
    <3> QED BY <1>1, <1>3, <2>2, <3>1
  <2> QED BY <2>1, <2>2
<1>6. \A k, l \in DOMAIN emptyIdx' : emptyIdx'[k] = emptyIdx'[l] => k = l
  <2>1. \A k, l \in 1..Len(emptyIdx) : emptyIdx[k] = emptyIdx[l] => k = l
    BY <1>1 DEF EmptySlotsListed
  <2> QED BY <1>1, <1>3, <1>4, <2>1
<1> QED BY <1>2, <1>3, <1>5, <1>6 DEF EmptySlotsListed

\* Using a card: it moves from its slot to the end of the pending cards.
LEMMA DoStep ==
    ASSUME PlayerInv, NEW slot \in Slots, Do(slot)
    PROVE  PlayerInv'
<1> DEFINE card == hand[slot]
<1> USE DEF PlayerInv
<1>1. /\ card \in Cards /\ card # NoCard /\ NoCard \notin Cards
      /\ hand \in [Slots -> Cards \cup {NoCard}]
      /\ pending \in Seq(Cards) /\ emptyIdx \in Seq(Slots)
      /\ Len(pending) \in Nat /\ Len(emptyIdx) \in Nat
      /\ DOMAIN pending = 1..Len(pending) /\ DOMAIN emptyIdx = 1..Len(emptyIdx)
  BY Constants DEF Do, TypeOK
<1>2. /\ hand' \in [Slots -> Cards \cup {NoCard}]
      /\ hand'[slot] = NoCard
      /\ \A i \in Slots : i # slot => hand'[i] = hand[i]
      /\ emptyIdx' \in Seq(Slots) /\ Len(emptyIdx') = Len(emptyIdx) + 1
      /\ EmptySlotsListed'
  <2>1. hand' = [hand EXCEPT ![slot] = NoCard] /\ emptyIdx' = Append(emptyIdx, slot)
    BY DEF Do, Freed
  <2> QED BY <1>1, <2>1, SlotFreed
<1>3. /\ pending' \in Seq(Cards) /\ Len(pending') = Len(pending) + 1
      /\ DOMAIN pending' = 1..Len(pending) + 1
      /\ \A j \in 1..Len(pending) : pending'[j] = pending[j]
      /\ pending'[Len(pending) + 1] = card
  <2>1. pending' = Append(pending, card)
    BY DEF Do
  <2> HIDE DEF card
  <2> QED BY <1>1, <2>1, AppendPlaces
<1>4. UNCHANGED <<drawTimer, knightIds, score, phase, boosted, field, dying>>
  BY DEF Do, worldVars
<1>5. energy' \in 0..MaxEnergy
  <2>1. Cost[card] \in Nat /\ energy \in 0..MaxEnergy /\ MaxEnergy \in Nat
    BY <1>1, Constants DEF EnergyInRange
  <2>2. energy >= Cost[card] /\ energy' = energy - Cost[card]
    BY DEF Do, Affordable
  <2> QED BY <2>1, <2>2
<1>6. TypeOK'
  BY <1>2, <1>3, <1>4, <1>5 DEF TypeOK
<1>7. CardsConserved'
  <2>1. Live' = Live
    BY <1>4 DEF Live
  <2>2. ASSUME NEW c \in Cards PROVE c \in Live <=> (InHand(c) \/ IsPending(c))'
    <3>1. c \in Live <=> InHand(c) \/ IsPending(c)
      BY DEF CardsConserved
    <3>2. InHand(c) => (InHand(c) \/ IsPending(c))'
      BY <1>1, <1>2, <1>3 DEF InHand, IsPending
    <3>3. IsPending(c) => IsPending(c)'
      BY <1>1, <1>3 DEF IsPending
    <3>4. InHand(c)' => InHand(c)
      BY <1>1, <1>2 DEF InHand
    <3>5. IsPending(c)' => IsPending(c) \/ InHand(c)
      <4> SUFFICES ASSUME NEW j \in 1..Len(pending) + 1, pending'[j] = c
                   PROVE  IsPending(c) \/ InHand(c)
        BY <1>3 DEF IsPending
      <4>1. CASE j \in 1..Len(pending)
        BY <1>1, <1>3, <4>1 DEF IsPending
      <4>2. CASE j = Len(pending) + 1
        BY <1>3, <4>2 DEF InHand
      <4> QED BY <1>1, <4>1, <4>2
    <3> QED BY <3>1, <3>2, <3>3, <3>4, <3>5
  <2>3. \A i, j \in Slots : hand'[i] = hand'[j] => i = j \/ hand'[i] = NoCard
    BY <1>2 DEF CardsConserved
  <2>4. ASSUME NEW i \in DOMAIN pending', NEW j \in DOMAIN pending', pending'[i] = pending'[j]
        PROVE  i = j
    <3>1. \A k \in 1..Len(pending) : pending[k] # card
      BY <1>1 DEF CardsConserved
    <3>2. \A k, l \in 1..Len(pending) : pending[k] = pending[l] => k = l
      BY <1>1 DEF CardsConserved
    <3> HIDE DEF card
    <3> QED BY <1>1, <1>3, <2>4, <3>1, <3>2
  <2>5. ASSUME NEW i \in Slots, NEW j \in DOMAIN pending' PROVE hand'[i] # pending'[j]
    <3>1. \A k \in 1..Len(pending) : pending[k] # hand[i] /\ pending[k] \in Cards
      BY <1>1 DEF CardsConserved
    <3>2. i # slot => hand[i] # card
      BY <1>1 DEF CardsConserved
    <3> HIDE DEF card
    <3> QED BY <1>1, <1>2, <1>3, <3>1, <3>2
  <2> QED BY <2>1, <2>2, <2>3, <2>4, <2>5 DEF CardsConserved
<1>8. Balance'
  <2>1. DeadWings' = DeadWings /\ DeadWings \in Int
    BY <1>4 DEF DeadWings
  <2>2. Len(pending') - Len(emptyIdx') = Len(pending) - Len(emptyIdx)
    BY <1>1, <1>2, <1>3
  <2> QED BY <2>1, <2>2 DEF Balance
<1>9. Listed' /\ DrawNeverPanics' /\ EnergyInRange' /\ ScoreCountsKnights'
  BY <1>4, <1>5 DEF Listed, DrawNeverPanics, EnergyInRange, ScoreCountsKnights
<1> QED BY <1>2, <1>6, <1>7, <1>8, <1>9

\* There is a pending card for every empty slot: of the DeckSize - HandSize cards that
\* wait at first, the dead knights take at most two, and one more than the empty
\* slots would still be needed to run out.
LEMMA PendingLeft ==
    ASSUME PlayerInv, Len(emptyIdx) > 0
    PROVE  pending # <<>>
<1>1. Len(pending) \in Nat /\ Len(emptyIdx) \in Nat
  BY DEF PlayerInv, TypeOK
<1>2. DeadWings <= 2 /\ DeadWings \in Nat
  BY DEF DeadWings
<1>3. Len(pending) > 0
  BY <1>1, <1>2, Constants DEF PlayerInv, Balance
<1> QED BY <1>3

\* The card that has waited longest goes to the slot that has been empty longest.
LEMMA DrawStep ==
    ASSUME PlayerInv, pending # <<>>, emptyIdx # <<>>,
           hand' = [hand EXCEPT ![Head(emptyIdx)] = Head(pending)],
           emptyIdx' = Tail(emptyIdx), pending' = Tail(pending),
           UNCHANGED knightIds
    PROVE  /\ hand' \in [Slots -> Cards \cup {NoCard}]
           /\ pending' \in Seq(Cards)
           /\ emptyIdx' \in Seq(Slots)
           /\ CardsConserved' /\ EmptySlotsListed' /\ Balance'
<1> DEFINE slot == Head(emptyIdx)
           card == Head(pending)
<1>1. /\ NoCard \notin Cards
      /\ hand \in [Slots -> Cards \cup {NoCard}]
      /\ pending \in Seq(Cards) /\ emptyIdx \in Seq(Slots)
      /\ DOMAIN pending = 1..Len(pending) /\ DOMAIN emptyIdx = 1..Len(emptyIdx)
      /\ CardsConserved /\ EmptySlotsListed /\ Balance
  BY Constants DEF PlayerInv, TypeOK
<1>2. /\ pending' \in Seq(Cards) /\ card = pending[1] /\ card \in Cards
      /\ Len(pending') = Len(pending) - 1 /\ Len(pending) \in Nat \ {0}
      /\ DOMAIN pending' = 1..Len(pending) - 1
      /\ \A j \in 1..Len(pending) - 1 : pending'[j] = pending[j + 1]
  BY <1>1, TailPlaces
<1>3. /\ emptyIdx' \in Seq(Slots) /\ slot = emptyIdx[1] /\ slot \in Slots
      /\ Len(emptyIdx') = Len(emptyIdx) - 1 /\ Len(emptyIdx) \in Nat \ {0}
      /\ DOMAIN emptyIdx' = 1..Len(emptyIdx) - 1
      /\ \A j \in 1..Len(emptyIdx) - 1 : emptyIdx'[j] = emptyIdx[j + 1]
  BY <1>1, TailPlaces
<1>4. hand' = [hand EXCEPT ![slot] = card]
  OBVIOUS
<1> HIDE DEF slot, card
<1>5. /\ hand' \in [Slots -> Cards \cup {NoCard}]
      /\ hand'[slot] = card
      /\ \A i \in Slots : i # slot => hand'[i] = hand[i]
  BY <1>1, <1>2, <1>3, <1>4
<1>6. hand[slot] = NoCard
  <2>1. 1 \in DOMAIN emptyIdx
    BY <1>1, <1>3
  <2> QED BY <1>1, <1>3, <2>1 DEF EmptySlotsListed
<1>7. \A k, l \in 1..Len(pending) : pending[k] = pending[l] => k = l
  BY <1>1 DEF CardsConserved
<1>8. \A k \in 1..Len(pending), i \in Slots : hand[i] # pending[k]
  BY <1>1 DEF CardsConserved
<1>9. CardsConserved'
  <2>1. Live' = Live
    BY DEF Live
  <2>2. ASSUME NEW c \in Cards PROVE c \in Live <=> (InHand(c) \/ IsPending(c))'
    <3>1. c \in Live <=> InHand(c) \/ IsPending(c)
      BY <1>1 DEF CardsConserved
    <3>2. InHand(c) => InHand(c)'
      BY <1>1, <1>5, <1>6 DEF InHand
    <3>3. IsPending(c) => (InHand(c) \/ IsPending(c))'
      <4> SUFFICES ASSUME NEW j \in 1..Len(pending), pending[j] = c
                   PROVE  (InHand(c) \/ IsPending(c))'
        BY <1>1 DEF IsPending
      <4>1. CASE j = 1
        BY <1>2, <1>3, <1>5, <4>1 DEF InHand
      <4>2. CASE j # 1
        <5>1. j - 1 \in 1..Len(pending) - 1 /\ (j - 1) + 1 = j
          BY <1>2, <4>2
        <5> QED BY <1>2, <5>1 DEF IsPending
      <4> QED BY <4>1, <4>2
    <3>4. InHand(c)' => InHand(c) \/ IsPending(c)
      <4>1. 1 \in DOMAIN pending
        BY <1>1, <1>2
      <4> QED BY <1>2, <1>5, <4>1 DEF InHand, IsPending
    <3>5. IsPending(c)' => IsPending(c)
      <4>1. \A j \in 1..Len(pending) - 1 : j + 1 \in 1..Len(pending)
        BY <1>2
      <4> QED BY <1>1, <1>2, <4>1 DEF IsPending
    <3> QED BY <3>1, <3>2, <3>3, <3>4, <3>5
  <2>3. \A i, j \in Slots : hand'[i] = hand'[j] => i = j \/ hand'[i] = NoCard
    <3>1. \A i \in Slots : hand[i] # card
      BY <1>2, <1>8
    <3>2. \A i, j \in Slots : hand[i] = hand[j] => i = j \/ hand[i] = NoCard
      BY <1>1 DEF CardsConserved
    <3> QED BY <1>5, <3>1, <3>2
  <2>4. ASSUME NEW i \in DOMAIN pending', NEW j \in DOMAIN pending', pending'[i] = pending'[j]
        PROVE  i = j
    <3>1. pending[i + 1] = pending[j + 1] /\ i + 1 \in 1..Len(pending) /\ j + 1 \in 1..Len(pending)
      BY <1>2, <2>4
    <3>2. i + 1 = j + 1
      BY <1>7, <3>1
    <3> QED BY <1>2, <3>2
  <2>5. ASSUME NEW i \in Slots, NEW j \in DOMAIN pending' PROVE hand'[i] # pending'[j]
    <3>1. pending'[j] = pending[j + 1] /\ j + 1 \in 1..Len(pending) /\ j + 1 # 1
      BY <1>2
    <3>2. pending[j + 1] # card
      BY <1>2, <1>7, <3>1
    <3> QED BY <1>5, <1>8, <3>1, <3>2
  <2> QED BY <2>1, <2>2, <2>3, <2>4, <2>5 DEF CardsConserved
<1>10. EmptySlotsListed'
  <2>1. \A k, l \in 1..Len(emptyIdx) : emptyIdx[k] = emptyIdx[l] => k = l
    BY <1>1 DEF EmptySlotsListed
  <2>2. ASSUME NEW i \in Slots
        PROVE  hand'[i] = NoCard <=> \E k \in DOMAIN emptyIdx' : emptyIdx'[k] = i
    <3>1. CASE i = slot
      <4>1. hand'[i] # NoCard
        BY <1>1, <1>2, <1>5, <3>1
      <4>2. ASSUME NEW k \in DOMAIN emptyIdx' PROVE emptyIdx'[k] # i
        <5>1. emptyIdx'[k] = emptyIdx[k + 1] /\ k + 1 \in 1..Len(emptyIdx) /\ k + 1 # 1
          BY <1>3
        <5> QED BY <1>3, <2>1, <3>1, <5>1
      <4> QED BY <4>1, <4>2
    <3>2. CASE i # slot
      <4>1. hand'[i] = NoCard <=> \E k \in 1..Len(emptyIdx) : emptyIdx[k] = i
        BY <1>1, <1>5, <3>2 DEF EmptySlotsListed
      <4>2. ASSUME NEW k \in 1..Len(emptyIdx), emptyIdx[k] = i
            PROVE  \E l \in DOMAIN emptyIdx' : emptyIdx'[l] = i
        <5>1. k - 1 \in 1..Len(emptyIdx) - 1 /\ (k - 1) + 1 = k
          BY <1>3, <3>2, <4>2
        <5> QED BY <1>3, <4>2, <5>1
      <4>3. ASSUME NEW l \in DOMAIN emptyIdx', emptyIdx'[l] = i
            PROVE  \E k \in 1..Len(emptyIdx) : emptyIdx[k] = i
        <5>1. l + 1 \in 1..Len(emptyIdx)
          BY <1>3
        <5> QED BY <1>3, <4>3, <5>1
      <4> QED BY <4>1, <4>2, <4>3
    <3> QED BY <3>1, <3>2
  <2>3. ASSUME NEW k \in DOMAIN emptyIdx', NEW l \in DOMAIN emptyIdx', emptyIdx'[k] = emptyIdx'[l]
        PROVE  k = l
    <3>1. k + 1 \in 1..Len(emptyIdx) /\ l + 1 \in 1..Len(emptyIdx)
      BY <1>3
    <3>2. k + 1 = l + 1
      BY <1>3, <2>1, <2>3, <3>1
    <3> QED BY <1>3, <3>2
  <2> QED BY <2>2, <2>3 DEF EmptySlotsListed
<1>11. Balance'
  <2>1. DeadWings' = DeadWings
    BY DEF DeadWings
  <2>2. Len(pending') - Len(emptyIdx') = Len(pending) - Len(emptyIdx)
    BY <1>2, <1>3
  <2> QED BY <1>1, <2>1, <2>2 DEF Balance
<1> QED BY <1>2, <1>3, <1>5, <1>9, <1>10, <1>11

\* The player's own part of a step: there is always a card for the slot to fill.
LEMMA UpdateStep ==
    ASSUME PlayerInv, Update
    PROVE  PlayerInv'
<1>1. ~(CanDraw /\ pending = <<>>)
  BY PendingLeft DEF CanDraw
<1>2. /\ phase = "actions" /\ phase' = "units"
      /\ UNCHANGED <<boosted, knightIds, score, field, dying>>
  BY <1>1 DEF Update
<1>3. energy' \in 0..MaxEnergy
  <2>1. energy \in 0..MaxEnergy /\ MaxEnergy \in Nat /\ EnergyPerFrame \in Nat
    BY Constants DEF PlayerInv, EnergyInRange
  <2>2. energy' = Regained
    BY DEF Update
  <2> QED BY <2>1, <2>2 DEF Regained
<1>4. /\ hand' \in [Slots -> Cards \cup {NoCard}]
      /\ pending' \in Seq(Cards)
      /\ emptyIdx' \in Seq(Slots)
      /\ drawTimer' \in 0..DrawInterval
      /\ CardsConserved' /\ EmptySlotsListed' /\ Balance'
  <2>1. drawTimer \in 0..DrawInterval /\ DrawInterval \in Nat
    BY Constants DEF PlayerInv, TypeOK
  <2>2. CASE CanDraw
    <3>1. emptyIdx # <<>> /\ pending # <<>>
      BY <1>1, <2>2 DEF CanDraw
    <3>2. /\ hand' = [hand EXCEPT ![Head(emptyIdx)] = Head(pending)]
          /\ emptyIdx' = Tail(emptyIdx) /\ pending' = Tail(pending)
          /\ drawTimer' = DrawInterval
      BY <2>2, <3>1 DEF Update
    <3> QED BY <1>2, <2>1, <3>1, <3>2, DrawStep
  <2>3. CASE ~CanDraw
    <3>1. /\ UNCHANGED <<hand, emptyIdx, pending>>
          /\ drawTimer' = IF drawTimer > 0 THEN drawTimer - 1 ELSE 0
      BY <2>3 DEF Update
    <3>2. drawTimer' \in 0..DrawInterval
      BY <2>1, <3>1
    <3>3. DeadWings' = DeadWings /\ Live' = Live
      BY <1>2 DEF DeadWings, Live
    <3>4. CardsConserved' /\ EmptySlotsListed' /\ Balance'
      BY <3>1, <3>3
      DEF PlayerInv, CardsConserved, EmptySlotsListed, Balance, InHand, IsPending
    <3> QED BY <3>1, <3>2, <3>4 DEF PlayerInv, TypeOK
  <2> QED BY <2>2, <2>3
<1>5. TypeOK'
  BY <1>2, <1>3, <1>4 DEF PlayerInv, TypeOK
<1>6. Listed' /\ DrawNeverPanics' /\ EnergyInRange' /\ ScoreCountsKnights'
  BY <1>2, <1>3
  DEF PlayerInv, Listed, DrawNeverPanics, EnergyInRange, ScoreCountsKnights
<1> QED BY <1>4, <1>5, <1>6 DEF PlayerInv

\* A dead knight takes its card along, once, wherever the card is.
LEMMA OnKnightDeadStep ==
    ASSUME PlayerInv, NEW knight \in Knights, OnKnightDead(knight)
    PROVE  PlayerInv'
<1>1. /\ NoCard \notin Cards
      /\ hand \in [Slots -> Cards \cup {NoCard}]
      /\ pending \in Seq(Cards) /\ emptyIdx \in Seq(Slots)
      /\ Len(pending) \in Nat /\ Len(emptyIdx) \in Nat
      /\ DOMAIN pending = 1..Len(pending)
      /\ CardsConserved /\ EmptySlotsListed /\ Balance
  BY Constants DEF PlayerInv, TypeOK
<1>2. /\ phase = "units" /\ knight \in field
      /\ UNCHANGED <<phase, boosted, energy, drawTimer, field>>
      /\ dying' = dying \cup {knight} /\ knightIds' = knightIds \ {knight}
  BY DEF OnKnightDead
<1>3. score' \in Int /\ ScoreCountsKnights'
  <2>1. score' = IF knight \in knightIds THEN score - Worth(knight) ELSE score
    BY DEF OnKnightDead, ScoreAfter
  <2> QED BY <1>2, <2>1, Constants
      DEF PlayerInv, ScoreCountsKnights, Worth, LeaderScore, WingScore
<1>4. Listed' /\ DrawNeverPanics' /\ EnergyInRange'
  BY <1>2 DEF PlayerInv, Listed, DrawNeverPanics, EnergyInRange
<1>5. /\ hand' \in [Slots -> Cards \cup {NoCard}]
      /\ pending' \in Seq(Cards) /\ emptyIdx' \in Seq(Slots)
      /\ CardsConserved' /\ EmptySlotsListed' /\ Balance'
  <2>1. CASE ~InHand(knight) /\ ~IsPending(knight)
    <3>1. UNCHANGED <<hand, emptyIdx, pending>>
      BY <2>1 DEF OnKnightDead, PendingAfter
    <3>2. knight \notin knightIds \cap Wings
      BY <1>1, <2>1, Constants DEF CardsConserved, Live, Wings
    <3>3. DeadWings' = DeadWings /\ Live' = Live
      BY <1>2, <3>2 DEF DeadWings, Live, Wings
    <3> QED BY <1>1, <3>1, <3>3
        DEF CardsConserved, EmptySlotsListed, Balance, InHand, IsPending
  <2>2. CASE InHand(knight) \/ IsPending(knight)
    <3>1. knight \in Cards
      <4>1. InHand(knight) => knight \in Cards
        BY <1>1, Constants DEF InHand
      <4>2. IsPending(knight) => knight \in Cards
        BY <1>1 DEF IsPending
      <4> QED BY <2>2, <4>1, <4>2
    <3>2. knight \in knightIds \cap Wings
      BY <1>1, <2>2, <3>1, Constants DEF CardsConserved, Live, Wings
    <3>3. DeadWings' = DeadWings + 1 /\ Live' = Live \ {knight} /\ DeadWings \in Int
      BY <1>2, <3>2, Constants DEF DeadWings, Live, Wings
    <3>4. CASE InHand(knight)
      <4> DEFINE slot == SlotOf(knight)
      <4>1. slot \in Slots /\ hand[slot] = knight /\ hand[slot] # NoCard
        BY <1>1, <3>1, <3>4 DEF InHand, SlotOf
      <4>2. ~IsPending(knight)
        BY <1>1, <4>1 DEF CardsConserved, IsPending
      <4>3. /\ hand' = [hand EXCEPT ![slot] = NoCard]
            /\ emptyIdx' = Append(emptyIdx, slot) /\ pending' = pending
        BY <3>4, <4>2 DEF OnKnightDead, PendingAfter, Freed
      <4> HIDE DEF slot
      <4>4. /\ hand' \in [Slots -> Cards \cup {NoCard}]
            /\ hand'[slot] = NoCard
            /\ \A i \in Slots : i # slot => hand'[i] = hand[i]
            /\ emptyIdx' \in Seq(Slots) /\ Len(emptyIdx') = Len(emptyIdx) + 1
            /\ EmptySlotsListed'
        BY <4>1, <4>3, SlotFreed
      <4>5. CardsConserved'
        <5>1. \A i \in Slots : hand[i] = knight => i = slot
          BY <1>1, <4>1 DEF CardsConserved
        <5>2. ASSUME NEW c \in Cards PROVE (c \in Live)' <=> (InHand(c) \/ IsPending(c))'
          <6>1. c \in Live <=> InHand(c) \/ IsPending(c)
            BY <1>1 DEF CardsConserved
          <6>2. InHand(c)' <=> InHand(c) /\ c # knight
            BY <1>1, <4>1, <4>4, <5>1 DEF InHand
          <6>3. IsPending(c)' <=> IsPending(c)
            BY <4>3 DEF IsPending
          <6> QED BY <3>3, <4>2, <6>1, <6>2, <6>3
        <5>3. \A i, j \in Slots : hand'[i] = hand'[j] => i = j \/ hand'[i] = NoCard
          BY <1>1, <4>4 DEF CardsConserved
        <5>4. /\ \A i, j \in DOMAIN pending' : pending'[i] = pending'[j] => i = j
              /\ \A j \in DOMAIN pending' : pending'[j] \in Cards
          BY <1>1, <4>3 DEF CardsConserved
        <5>5. \A i \in Slots, j \in DOMAIN pending' : hand'[i] # pending'[j]
          BY <1>1, <4>3, <4>4, <5>4 DEF CardsConserved
        <5> QED BY <5>2, <5>3, <5>4, <5>5 DEF CardsConserved
      <4>6. Balance'
        BY <1>1, <3>3, <4>3, <4>4, Constants DEF Balance
      <4> QED BY <1>1, <4>3, <4>4, <4>5, <4>6
    <3>5. CASE ~InHand(knight)
      <4> DEFINE place == PlaceOf(knight)
      <4>1. place \in 1..Len(pending) /\ pending[place] = knight
        BY <1>1, <2>2, <3>5 DEF IsPending, PlaceOf
      <4>2. UNCHANGED <<hand, emptyIdx>> /\ pending' = RemoveAt(pending, place)
        BY <2>2, <3>5 DEF OnKnightDead, PendingAfter
      <4> HIDE DEF place
      <4>3. /\ pending' \in Seq(Cards) /\ Len(pending') = Len(pending) - 1
            /\ \A j \in 1..Len(pending) - 1 :
                  pending'[j] = IF j < place THEN pending[j] ELSE pending[j + 1]
        BY <1>1, <4>1, <4>2, RemoveAtProperties
      <4>4. DOMAIN pending' = 1..Len(pending) - 1
        BY <4>3
      <4>5. \A k, l \in 1..Len(pending) : pending[k] = pending[l] => k = l
        BY <1>1 DEF CardsConserved
      <4> DEFINE old(j) == IF j < place THEN j ELSE j + 1
      <4>6. \A j \in 1..Len(pending) - 1 :
               /\ old(j) \in 1..Len(pending) /\ old(j) # place /\ pending'[j] = pending[old(j)]
        <5> SUFFICES ASSUME NEW j \in 1..Len(pending) - 1
                     PROVE  /\ old(j) \in 1..Len(pending) /\ old(j) # place
                            /\ pending'[j] = pending[old(j)]
          OBVIOUS
        <5>1. CASE j < place
          BY <1>1, <4>1, <4>3, <5>1
        <5>2. CASE ~(j < place)
          BY <1>1, <4>1, <4>3, <5>2
        <5> QED BY <5>1, <5>2
      <4>7. \A i, j \in 1..Len(pending) - 1 : old(i) = old(j) => i = j
        BY <1>1, <4>1
      <4>8. \A k \in 1..Len(pending) : k # place =>
               \E j \in 1..Len(pending) - 1 : old(j) = k
        <5> SUFFICES ASSUME NEW k \in 1..Len(pending), k # place
                     PROVE  \E j \in 1..Len(pending) - 1 : old(j) = k
          OBVIOUS
        <5>1. CASE k < place
          <6>1. k \in 1..Len(pending) - 1 /\ old(k) = k
            BY <1>1, <4>1, <5>1
          <6> QED BY <6>1
        <5>2. CASE ~(k < place)
          <6>1. k - 1 \in 1..Len(pending) - 1 /\ old(k - 1) = k
            BY <1>1, <4>1, <5>2
          <6> QED BY <6>1
        <5> QED BY <5>1, <5>2
      <4> HIDE DEF old
      <4>9. CardsConserved'
        <5>1. ASSUME NEW c \in Cards PROVE (c \in Live)' <=> (InHand(c) \/ IsPending(c))'
          <6>1. c \in Live <=> InHand(c) \/ IsPending(c)
            BY <1>1 DEF CardsConserved
          <6>2. InHand(c)' <=> InHand(c)
            BY <4>2 DEF InHand
          <6>3. IsPending(c)' => IsPending(c) /\ c # knight
            BY <1>1, <4>1, <4>4, <4>5, <4>6 DEF IsPending
          <6>4. IsPending(c) /\ c # knight => IsPending(c)'
            BY <1>1, <4>1, <4>4, <4>6, <4>8 DEF IsPending
          <6> QED BY <3>3, <3>5, <6>1, <6>2, <6>3, <6>4
        <5>2. \A i, j \in Slots : hand'[i] = hand'[j] => i = j \/ hand'[i] = NoCard
          BY <1>1, <4>2 DEF CardsConserved
        <5>3. \A i, j \in DOMAIN pending' : pending'[i] = pending'[j] => i = j
          BY <4>4, <4>5, <4>6, <4>7
        <5>4. \A i \in Slots, j \in DOMAIN pending' : hand'[i] # pending'[j]
          BY <1>1, <4>2, <4>4, <4>6 DEF CardsConserved
        <5> QED BY <5>1, <5>2, <5>3, <5>4 DEF CardsConserved
      <4>10. Balance'
        <5>1. Len(emptyIdx') = Len(emptyIdx)
          BY <4>2
        <5>2. Len(pending') - Len(emptyIdx') = Len(pending) - Len(emptyIdx) - 1
          BY <1>1, <4>3, <5>1
        <5>3. DeckSize \in Int /\ HandSize \in Int
          BY Constants
        <5> QED BY <1>1, <3>3, <5>2, <5>3 DEF Balance
      <4>11. EmptySlotsListed'
        BY <1>1, <4>2 DEF EmptySlotsListed
      <4> QED BY <1>1, <4>2, <4>3, <4>9, <4>10, <4>11
    <3> QED BY <3>4, <3>5
  <2> QED BY <2>1, <2>2
<1>6. TypeOK'
  BY <1>2, <1>3, <1>5 DEF PlayerInv, TypeOK
<1> QED BY <1>3, <1>4, <1>5, <1>6 DEF PlayerInv

\* The end of a step and a stutter leave the cards alone.
LEMMA OtherSteps ==
    ASSUME PlayerInv, EndStep \/ UNCHANGED vars
    PROVE  PlayerInv'
<1>1. /\ UNCHANGED <<energy, hand, pending, emptyIdx, drawTimer, knightIds, score>>
      /\ TypeOK' /\ DrawNeverPanics' /\ Listed'
  BY DEF PlayerInv, TypeOK, DrawNeverPanics, Listed, EndStep, vars
<1>2. CardsConserved' /\ EmptySlotsListed' /\ Balance'
  BY <1>1 DEF PlayerInv, CardsConserved, EmptySlotsListed, Balance, InHand, IsPending,
     DeadWings, Live
<1> QED BY <1>1, <1>2 DEF PlayerInv, EnergyInRange, ScoreCountsKnights

\* The inductive invariant of a player.
THEOREM PlayerInvariant == Spec => []PlayerInv
<1>1. PlayerInv /\ [Next]_vars => PlayerInv'
  <2> SUFFICES ASSUME PlayerInv, [Next]_vars PROVE PlayerInv'
    OBVIOUS
  <2>1. CASE \E slot \in Slots : Do(slot)
    BY <2>1, DoStep
  <2>2. CASE Update
    BY <2>2, UpdateStep
  <2>3. CASE \E knight \in Knights : OnKnightDead(knight)
    BY <2>3, OnKnightDeadStep
  <2>4. CASE EndStep \/ UNCHANGED vars
    BY <2>4, OtherSteps
  <2> QED BY <2>1, <2>2, <2>3, <2>4 DEF Next
<1> QED BY PlayerInit, <1>1, PTL DEF Spec

\* No card of a player is lost, doubled or kept after its knight's death, whatever the
\* deck (useCard, drawCard, OnKnightDead).
THEOREM CardsStay == Spec => []CardsConserved
BY PlayerInvariant, PTL DEF PlayerInv

\* No empty slot is lost or listed twice (removeCardFromHand, drawCard).
THEOREM SlotsListed == Spec => []EmptySlotsListed
BY PlayerInvariant, PTL DEF PlayerInv

\* drawCard never indexes an empty slice.
THEOREM DrawSafe == Spec => []DrawNeverPanics
BY PlayerInvariant, PTL DEF PlayerInv

\* The energy stays between 0 and maxEnergy (Do, Update).
THEOREM EnergyBounded == Spec => []EnergyInRange
BY PlayerInvariant, PTL DEF PlayerInv

\* The score is what the living knights are worth (OnKnightDead).
THEOREM ScoreRight == Spec => []ScoreCountsKnights
BY PlayerInvariant, PTL DEF PlayerInv

\* findKnight always finds the knight of a card that can be used (Do).
THEOREM KnightFound == Spec => []KnightCardHasKnight
<1>1. PlayerInv => KnightCardHasKnight
  BY Constants
  DEF PlayerInv, KnightCardHasKnight, CardsConserved, Listed, HasKnight, Live, Wings
<1> QED BY PlayerInvariant, <1>1, PTL

-----------------------------------------------------------------------------
(* The bot.                                                                *)

\* Types of what Bot adds to Player.
BotTypes ==
    /\ isBot \in BOOLEAN
    /\ tick \in 0..ThinkInterval-1
    /\ era \in {"opening", "play", "overtime"}
    /\ patience \in Int
    /\ queued \in Cards \cup {NoCard} /\ picked \in BOOLEAN
    /\ rival \in 0..FullScore
    /\ over \in BOOLEAN /\ crashed \in BOOLEAN

\* A card the bot has picked is paid for: nothing is spent before it is played.
PickPaid == queued # NoCard => Affordable(queued)

\* A match that goes on at the end of a step has both leaders, or equal scores in overtime.
GoesOn ==
    isBot /\ ~over /\ phase = "actions" =>
        IF era = "overtime" THEN score = rival ELSE rival >= LeaderScore

BotInv ==
    /\ BotTypes
    /\ PickPaid
    /\ GoesOn
    /\ ~isBot => queued = NoCard
    /\ ~crashed

\* The bot plays within the rules for a player: each of its steps is one of Player, or
\* leaves the player alone.
THEOREM BotPlaysByTheRules == BotSpec => Spec
<1>1. BotInit => Init
  BY DEF BotInit
<1>2. [BotNext]_allVars => [Next]_vars
  <2> SUFFICES ASSUME [BotNext]_allVars
               PROVE  [Next]_vars
    OBVIOUS
  <2>1. CASE UNCHANGED allVars
    BY <2>1 DEF allVars
  <2>2. CASE BotNext
    BY <2>2 DEF BotNext, Person, BotDo, BotUpdate, BotKnightDead, RivalKnightDead, BotEndStep,
       BotEnd, Next, allVars
  <2> QED
    BY <2>1, <2>2
<1> QED
  BY <1>1, <1>2, PTL DEF BotSpec, Spec

LEMMA PlayerHere == BotSpec => []PlayerInv
BY BotPlaysByTheRules, PlayerInvariant, PTL

LEMMA BotStarts == BotInit => BotInv
<1> SUFFICES ASSUME BotInit
             PROVE  BotInv
  OBVIOUS
<1>1. tick \in 0..ThinkInterval-1 /\ patience \in Int
  BY BotAssumption DEF BotInit
<1>2. rival \in 0..FullScore /\ rival >= LeaderScore
  BY DEF BotInit, FullScore, LeaderScore, WingScore
<1> QED
  BY <1>1, <1>2 DEF BotInit, BotInv, BotTypes, PickPaid, GoesOn

\* With no knight and no squire of the opponent on the field of a match that goes on, no
\* spell is in the bot's hand: it has lost the knights they belong to.
LEMMA SpellHasTarget ==
    ASSUME PlayerInv, PlayerInv', BotInv, Playing, Update, rival = 0,
           NEW c \in Spells, \E i \in Slots : hand'[i] = c
    PROVE  FALSE
<1>1. phase = "actions" /\ score' = score /\ knightIds' = knightIds
  BY DEF Update
<1>2. score = 0
  BY <1>1 DEF BotInv, GoesOn, Playing, LeaderScore
<1>3. c \in Wings /\ c \in Cards
  BY BotAssumption DEF Cards
<1>4. c \in Live'
  <2>1. InHand(c)'
    BY DEF InHand
  <2> QED
    BY <1>3, <2>1 DEF PlayerInv, CardsConserved
<1>5. c \in knightIds
  BY <1>1, <1>3, <1>4, PlayerAssumption DEF Live, Wings
<1>6. ScoreCountsKnights
  BY DEF PlayerInv
<1> QED
  BY <1>2, <1>3, <1>5, <1>6 DEF ScoreCountsKnights, LeaderScore, WingScore, Wings

LEMMA BotUpdateStep ==
    ASSUME PlayerInv, PlayerInv', BotInv, BotUpdate
    PROVE  BotInv'
<1> USE DEF BotInv, BotUpdate
<1>1. /\ queued = NoCard /\ Playing /\ Update /\ UpdateAI
      /\ UNCHANGED <<isBot, tick, era, rival, over>>
      /\ phase' # "actions"
  BY DEF Update
<1>2. NoCard \notin Cards /\ Spells \subseteq Wings /\ Patiences \subseteq Nat
      /\ Cost \in [Cards -> Nat] /\ energy' \in Int /\ patience \in Int
  BY BotAssumption, PlayerAssumption DEF PlayerInv, TypeOK, BotTypes
<1>3. \/ picked' = FALSE /\ UNCHANGED <<patience, queued, crashed>>
      \/ \E p \in Patiences \cup {patience} :
            /\ picked' = FALSE /\ patience' = p - 1 /\ UNCHANGED <<queued, crashed>>
      \/ \E enemy \in 0..MaxEnergy, p \in Patiences \cup {patience} :
            /\ picked' = TRUE /\ patience' = p
            /\ \E c \in Candidates(enemy), squires, found \in BOOLEAN : Pick(c, squires, found)
  BY <1>1 DEF UpdateAI
<1>4. CASE UNCHANGED <<queued, crashed>> /\ picked' \in BOOLEAN /\ patience' \in Int
  BY <1>1, <1>4 DEF BotTypes, PickPaid, GoesOn
<1>5. ASSUME NEW enemy \in 0..MaxEnergy, NEW p \in Patiences \cup {patience},
             picked' = TRUE, patience' = p,
             NEW c \in Candidates(enemy), NEW squires \in BOOLEAN, NEW found \in BOOLEAN,
             Pick(c, squires, found)
      PROVE  BotInv'
  <2>1. c \in Cards /\ (\E i \in Slots : hand'[i] = c) /\ energy' - Cost[c] >= 0
    BY DEF Candidates, EnergyAfterUse
  <2>2. ~(c \in Spells /\ ~HasUnits(squires))
    <3> SUFFICES ASSUME c \in Spells, ~HasUnits(squires)
                 PROVE  FALSE
      OBVIOUS
    <3>1. rival = 0
      BY DEF HasUnits, BotTypes, FullScore, LeaderScore, WingScore
    <3> QED
      BY <1>1, <2>1, <3>1, SpellHasTarget
  <2>3. crashed' = FALSE /\ queued' \in {NoCard, c}
    BY <2>2, <1>5 DEF Pick
  <2>4. Cost[c] \in Nat
    BY <1>2, <2>1
  <2>5. PickPaid'
    BY <1>2, <2>1, <2>3, <2>4 DEF PickPaid, Affordable
  <2>6. patience' \in Int
    BY <1>2, <1>5
  <2>7. BotTypes'
    BY <1>1, <1>5, <2>1, <2>3, <2>6 DEF BotTypes
  <2> QED
    BY <1>1, <2>3, <2>5, <2>7 DEF GoesOn, Playing
<1>6. CASE picked' = FALSE /\ UNCHANGED <<patience, queued, crashed>>
  BY <1>2, <1>4, <1>6
<1>7. CASE \E p \in Patiences \cup {patience} :
             picked' = FALSE /\ patience' = p - 1 /\ UNCHANGED <<queued, crashed>>
  <2>1. patience' \in Int
    BY <1>2, <1>7
  <2> QED
    BY <1>4, <1>7, <2>1
<1> QED
  BY <1>3, <1>5, <1>6, <1>7

LEMMA BotEndStepStep ==
    ASSUME PlayerInv, BotInv, BotEndStep
    PROVE  BotInv'
<1> USE DEF BotInv, BotEndStep
<1>1. /\ UNCHANGED <<isBot, patience, queued, picked, rival, crashed, energy, score>>
      /\ era' \in {"opening", "play", "overtime"}
  BY DEF EndStep, NextEra, BotTypes
<1>2. tick' \in 0..ThinkInterval-1
  <2>1. \A n \in Nat, k \in Nat \ {0} : n % k \in 0..k-1
    OBVIOUS
  <2> QED
    BY <2>1, BotAssumption DEF BotTypes
<1>3. over' \in BOOLEAN /\ (~over' => ~OverInEra(era'))
  BY DEF OverInEra
<1>4. BotTypes'
  BY <1>1, <1>2, <1>3 DEF BotTypes
<1>5. PickPaid'
  BY <1>1 DEF PickPaid, Affordable
<1>6. GoesOn'
  <2>1. rival \in Int /\ score \in Int
    BY DEF BotTypes, FullScore, LeaderScore, WingScore, PlayerInv, TypeOK
  <2> QED
    BY <1>1, <1>3, <2>1 DEF GoesOn, OverInEra, LeaderScore
<1> QED
  BY <1>1, <1>4, <1>5, <1>6

\* The bot never dereferences nil, and its picks stay paid, however the match goes.
THEOREM BotInvariant == BotSpec => []BotInv
<1>1. PlayerInv /\ PlayerInv' /\ BotInv /\ [BotNext]_allVars => BotInv'
  <2> SUFFICES ASSUME PlayerInv, PlayerInv', BotInv, [BotNext]_allVars
               PROVE  BotInv'
    OBVIOUS
  <2>1. CASE UNCHANGED allVars
    BY <2>1 DEF allVars, vars, botVars, BotInv, BotTypes, PickPaid, Affordable, GoesOn
  <2>2. CASE Person
    BY <2>2 DEF Person, botVars, BotInv, BotTypes, PickPaid, Affordable, GoesOn
  <2>3. CASE BotDo
    <3>1. /\ queued' = NoCard /\ UNCHANGED <<isBot, tick, era, patience, picked, rival, over, crashed>>
          /\ phase = "actions" /\ score' = score
      BY <2>3 DEF BotDo, Do, vars
    <3> QED
      BY <3>1 DEF BotInv, BotTypes, PickPaid, GoesOn
  <2>4. CASE BotUpdate
    BY <2>4, BotUpdateStep
  <2>5. CASE BotKnightDead
    BY <2>5 DEF BotKnightDead, OnKnightDead, botVars, BotInv, BotTypes, PickPaid, Affordable, GoesOn
  <2>6. CASE RivalKnightDead
    <3>1. rival' \in 0..FullScore
      <4>1. rival >= LeaderScore => rival - LeaderScore \in 0..FullScore
        BY DEF BotInv, BotTypes, FullScore, LeaderScore, WingScore
      <4>2. rival % LeaderScore >= WingScore => rival - WingScore \in 0..FullScore
        BY DEF BotInv, BotTypes, FullScore, LeaderScore, WingScore
      <4> QED
        BY <2>6, <4>1, <4>2 DEF RivalKnightDead
    <3>2. /\ UNCHANGED <<vars, isBot, tick, era, patience, queued, picked, over, crashed>>
          /\ phase = "units"
      BY <2>6 DEF RivalKnightDead
    <3> QED
      BY <3>1, <3>2 DEF vars, BotInv, BotTypes, PickPaid, Affordable, GoesOn
  <2>7. CASE BotEndStep
    BY <2>7, BotEndStepStep
  <2>8. CASE BotEnd
    BY <2>1, <2>8 DEF BotEnd
  <2> QED
    BY <2>1, <2>2, <2>3, <2>4, <2>5, <2>6, <2>7, <2>8 DEF BotNext
<1> QED
  BY <1>1, BotStarts, PlayerHere, PTL DEF BotSpec

\* The variables keep their types.
THEOREM BotHasTypes == BotSpec => []BotTypeOK
<1>1. PlayerInv /\ BotInv => BotTypeOK
  BY DEF PlayerInv, BotInv, BotTypes, BotTypeOK
<1> QED
  BY <1>1, PlayerHere, BotInvariant, PTL

\* UpdateAI always finds a unit to aim a spell at.
THEOREM SpellsHaveTargets == BotSpec => []BotFindsTarget
<1>1. BotInv => BotFindsTarget
  BY DEF BotInv, BotFindsTarget
<1> QED
  BY <1>1, BotInvariant, PTL

\* A card the bot picked in one step can be paid in the next.
THEOREM PicksStayAffordable == BotSpec => []PickAffordable
<1>1. BotInv => PickAffordable
  BY PlayerAssumption DEF BotInv, PickPaid, PickAffordable
<1> QED
  BY <1>1, BotInvariant, PTL
=============================================================================
