------------------------- MODULE MatchQueue_proofs -------------------------
(* Proofs about MatchQueue. *)
EXTENDS MatchQueue, FiniteSetTheorems, WellFoundedInduction, TLAPS

----------------------------------------------------------------------------
(* Natural numbers                                                         *)

\* Every set of natural numbers has a least element.
LEMMA LeastNatural ==
    ASSUME NEW T, T \subseteq Nat, T # {}
    PROVE  \E x \in T : \A y \in T : x <= y
<1> DEFINE Less == OpToRel(<, Nat)
<1>1. IsWellFoundedOn(Less, Nat)
  BY NatLessThanWellFounded
<1>2. \A x, y \in Nat : <<x, y>> \in Less <=> x < y
  BY DEF OpToRel
<1> HIDE DEF Less
<1>3. PICK x \in T : \A y \in T : <<y, x>> \notin Less
  BY <1>1, WFMin
<1>4. \A y \in T : ~(y < x)
  BY <1>2, <1>3, Zenon
<1> QED
  BY <1>4

\* Induction: a set that has 0 and with n also n + 1 has all natural numbers.
LEMMA Induction ==
    ASSUME NEW S, 0 \in S, \A n \in Nat : n \in S => n + 1 \in S
    PROVE  Nat \subseteq S
<1> SUFFICES ASSUME Nat \ S # {}
             PROVE  FALSE
  OBVIOUS
<1>1. PICK x \in Nat \ S : \A y \in Nat \ S : x <= y
  <2> DEFINE T == Nat \ S
  <2>1. T \subseteq Nat /\ T # {}
    OBVIOUS
  <2> HIDE DEF T
  <2>2. \E x \in T : \A y \in T : x <= y
    BY <2>1, LeastNatural
  <2> QED
    BY <2>2 DEF T
<1>2. x # 0 /\ x - 1 \in Nat
  OBVIOUS
<1>3. x - 1 \in S
  BY <1>1, <1>2
<1>4. (x - 1) + 1 \in S
  BY <1>2, <1>3
<1> QED
  BY <1>4

----------------------------------------------------------------------------
(* The loop of the script                                                  *)

\* The partner that is picked is one of the candidates, and none of them is closer in rank.
LEMMA ClosestIsCandidate ==
    ASSUME NEW o, NEW i, NEW C, C \subseteq Nat, C # {},
           \A k \in C : RankDiff(o[i], o[k]) \in Nat
    PROVE  /\ Closest(o, i, C) \in C
           /\ \A k \in C : RankDiff(o[i], o[Closest(o, i, C)]) <= RankDiff(o[i], o[k])
<1> DEFINE D(k) == RankDiff(o[i], o[k])
           T == {D(k) : k \in C}
<1>1. T \subseteq Nat /\ T # {}
  OBVIOUS
<1> HIDE DEF T
<1>2. PICK d \in T : \A e \in T : d <= e
  BY <1>1, LeastNatural
<1> DEFINE U == {k \in C : D(k) = d}
<1>3. U \subseteq Nat /\ U # {}
  BY <1>2 DEF T
<1> HIDE DEF U
<1>4. PICK j \in U : \A k \in U : j <= k
  BY <1>3, LeastNatural
<1>5. j \in C /\ D(j) = d
  BY <1>4 DEF U
<1>6. ASSUME NEW k \in C
      PROVE  D(j) < D(k) \/ (D(j) = D(k) /\ j <= k)
  <2>1. d \in Nat /\ D(k) \in Nat /\ d <= D(k)
    BY <1>1, <1>2 DEF T
  <2>2. D(k) = d => j <= k
    BY <1>4 DEF U
  <2> QED
    BY <1>5, <2>1, <2>2
<1> DEFINE Best(x) == \A k \in C : D(x) < D(k) \/ (D(x) = D(k) /\ x <= k)
<1>7. Closest(o, i, C) = CHOOSE x \in C : Best(x)
  BY DEF Closest
<1>8. j \in C /\ Best(j)
  BY <1>5, <1>6
<1> HIDE DEF Best
<1>9. Closest(o, i, C) \in C /\ Best(Closest(o, i, C))
  BY <1>7, <1>8
<1> DEFINE x == Closest(o, i, C)
<1> HIDE DEF x, D
<1>10. ASSUME NEW k \in C
       PROVE  D(x) <= D(k)
  <2>1. D(k) \in Nat /\ D(x) \in Nat
    BY <1>9 DEF D, x
  <2>2. D(x) < D(k) \/ D(x) = D(k)
    BY <1>9 DEF Best, x
  <2> QED
    BY <2>1, <2>2
<1> QED
  BY <1>9, <1>10 DEF x, D

Start == [taken |-> {}, pairs |-> {}]

\* The recursion of the loop over a list of entries is well defined.
LEMMA RoundsDefined ==
    ASSUME NEW o, Len(o) \in Nat
    PROVE  Rounds(o) = [i \in 0..Len(o) |->
                          IF i = 0 THEN Start ELSE Round(o, i, Rounds(o)[i - 1])]
<1> DEFINE Loop(n, g) == [i \in 0..n |-> IF i = 0 THEN Start ELSE Round(o, i, g[i - 1])]
           S == {n \in Nat : \E g : g = Loop(n, g)}
<1>1. 0 \in S
  <2> DEFINE g == [i \in 0..0 |-> Start]
  <2>1. g = Loop(0, g)
    OBVIOUS
  <2> QED
    BY <2>1
<1>2. ASSUME NEW n \in Nat, n \in S
      PROVE  n + 1 \in S
  <2>1. PICK g : g = Loop(n, g)
    BY <1>2
  <2> DEFINE h == [i \in 0..n + 1 |-> IF i = n + 1 THEN Round(o, n + 1, g[n]) ELSE g[i]]
  <2>2. ASSUME NEW i \in 0..n + 1
        PROVE  h[i] = IF i = 0 THEN Start ELSE Round(o, i, h[i - 1])
    <3> HIDE DEF Loop
    <3>1. CASE i = n + 1
      <4>1. h[i - 1] = g[n] /\ h[i] = Round(o, n + 1, g[n])
        BY <3>1
      <4> QED
        BY <3>1, <4>1
    <3>2. CASE i # n + 1
      <4>1. i \in 0..n /\ h[i] = g[i] /\ (i # 0 => i - 1 \in 0..n + 1 /\ h[i - 1] = g[i - 1])
        BY <3>2
      <4>2. g[i] = IF i = 0 THEN Start ELSE Round(o, i, g[i - 1])
        BY <2>1, <4>1 DEF Loop
      <4> QED
        BY <4>1, <4>2
    <3> QED
      BY <3>1, <3>2
  <2>3. h = Loop(n + 1, h)
    BY <2>2, Zenon
  <2> HIDE DEF h, Loop
  <2> QED
    BY <2>3
<1> HIDE DEF S
<1>3. Nat \subseteq S
  BY <1>1, <1>2, Induction
<1>4. \E g : g = Loop(Len(o), g)
  BY <1>3 DEF S
<1> QED
  BY <1>4, Zenon DEF Rounds, Start

----------------------------------------------------------------------------
(* What the loop has found after each round                                *)

\* No two entries of the queue are of the same request or the same player.
Apart(entries) ==
    \A d, e \in entries : d.n = e.n \/ d.who = e.who => d = e

\* A list of different entries of the queue
Listing(o) ==
    /\ Len(o) \in Nat
    /\ o \in [1..Len(o) -> queue]
    /\ \A i, j \in 1..Len(o) : o[i] = o[j] => i = j
    /\ queue \subseteq Entry /\ Apart(queue)

Ends(m) == {m[1], m[2]} \ {Bot}

\* A pair is made of an entry the loop has come to, and a later one that is taken or the bot.
Found(o, i, st, m) ==
    \E a \in 1..i :
        \/ m = <<o[a].n, Bot>>
        \/ \E b \in st.taken : a < b /\ m = <<o[a].n, o[b].n>>

\* An entry the loop has come to is taken, or leads a pair, or no later one that fits it is
\* left and it has not waited long.
Settled(o, a, st) ==
    \/ a \in st.taken
    \/ \E m \in st.pairs : m[1] = o[a].n
    \/ /\ o[a].wait <= T3
       /\ \A b \in a+1..Len(o) : Matchable(o[a], o[b]) => b \in st.taken

RoundInv(o, i, st) ==
    /\ st.taken \subseteq 1..Len(o)
    /\ \A m \in st.pairs : Found(o, i, st, m)
    /\ \A m, k \in st.pairs : m = k \/ Ends(m) \cap Ends(k) = {}
    /\ \A b \in st.taken : \E m \in st.pairs : m[2] = o[b].n
    /\ \A a \in 1..i : Settled(o, a, st)

\* Different places of the list hold different requests.
LEMMA PlacesApart ==
    ASSUME NEW o, Listing(o), NEW a \in 1..Len(o), NEW b \in 1..Len(o), o[a].n = o[b].n
    PROVE  a = b
BY DEF Listing, Apart

\* Entries that are settled stay settled as the loop goes on.
LEMMA SettledStay ==
    ASSUME NEW o, NEW i \in Nat \ {0}, NEW st, NEW new,
           st.taken \subseteq new.taken, st.pairs \subseteq new.pairs,
           \A a \in 1..i - 1 : Settled(o, a, st), Settled(o, i, new)
    PROVE  \A a \in 1..i : Settled(o, a, new)
<1>1. ASSUME NEW a, Settled(o, a, st)
      PROVE  Settled(o, a, new)
  BY <1>1 DEF Settled
<1>2. \A a \in 1..i : a = i \/ a \in 1..i - 1
  OBVIOUS
<1> QED
  BY <1>1, <1>2

\* Every round keeps what the loop has found.
LEMMA RoundKeeps ==
    ASSUME NEW o, Listing(o), NEW i \in 1..Len(o), NEW st, RoundInv(o, i - 1, st),
           st = [taken |-> st.taken, pairs |-> st.pairs]
    PROVE  /\ RoundInv(o, i, Round(o, i, st))
           /\ Round(o, i, st) = [taken |-> Round(o, i, st).taken, pairs |-> Round(o, i, st).pairs]
<1> DEFINE C == Candidates(o, i, st.taken)
           L == Len(o)
<1>0. /\ L \in Nat
      /\ \A a \in 1..L : o[a] \in queue /\ o[a].n \in Nat /\ o[a].n # Bot /\ o[a].wait \in Nat /\ o[a].rank \in Nat
  BY QueueAssumption DEF Listing, Entry, Requests, Bot, MaxWait
<1>1. CASE i \in st.taken
  <2>1. Round(o, i, st) = st
    BY <1>1 DEF Round
  <2>2. Settled(o, i, st)
    BY <1>1 DEF Settled
  <2>3. \A m \in st.pairs : Found(o, i, st, m)
    BY <1>0 DEF RoundInv, Found
  <2>4. \A a \in 1..i : Settled(o, a, st)
    BY <1>0, <2>2 DEF RoundInv
  <2> QED
    BY <2>1, <2>3, <2>4 DEF RoundInv
<1>2. CASE i \notin st.taken /\ C # {}
  <2> DEFINE j == Closest(o, i, C)
             pair == <<o[i].n, o[j].n>>
             new == [taken |-> st.taken \cup {j}, pairs |-> st.pairs \cup {pair}]
  <2>1. Round(o, i, st) = new
    BY <1>2 DEF Round
  <2>2. j \in C
    <3>1. C \subseteq Nat
      BY <1>0 DEF Candidates
    <3>2. \A k \in C : RankDiff(o[i], o[k]) \in Nat
      BY <1>0 DEF Candidates, RankDiff
    <3> HIDE DEF C
    <3> QED
      BY <1>2, <3>1, <3>2, ClosestIsCandidate
  <2>3. j \in 1..L /\ i < j /\ j \notin st.taken
    BY <1>0, <2>2 DEF Candidates
  <2> HIDE DEF j, C
  <2>4. new.taken \subseteq 1..L
    BY <2>3 DEF RoundInv
  <2>5. \A m \in new.pairs : Found(o, i, new, m)
    <3>1. Found(o, i, new, pair)
      BY <2>3 DEF Found
    <3>2. \A m \in st.pairs : Found(o, i, new, m)
      BY <1>0 DEF RoundInv, Found
    <3> QED
      BY <3>1, <3>2
  <2>6. ASSUME NEW m \in st.pairs
        PROVE  Ends(m) \cap Ends(pair) = {}
    <3>1. PICK a \in 1..i - 1 :
             \/ m = <<o[a].n, Bot>>
             \/ \E b \in st.taken : a < b /\ m = <<o[a].n, o[b].n>>
      BY DEF RoundInv, Found
    <3>2. a \in 1..L /\ a # i /\ a # j
      BY <1>0, <2>3, <3>1
    <3>3. o[a].n # o[i].n /\ o[a].n # o[j].n
      BY <2>3, <3>2, PlacesApart
    <3>4. \A b \in st.taken : o[b].n # o[i].n /\ o[b].n # o[j].n
      BY <1>2, <2>3, PlacesApart DEF RoundInv
    <3> QED
      BY <3>1, <3>3, <3>4 DEF Ends
  <2>7. \A m, k \in new.pairs : m = k \/ Ends(m) \cap Ends(k) = {}
    <3>1. \A m, k \in st.pairs : m = k \/ Ends(m) \cap Ends(k) = {}
      BY DEF RoundInv
    <3> HIDE DEF pair
    <3>2. \A m \in st.pairs : Ends(m) \cap Ends(pair) = {} /\ Ends(pair) \cap Ends(m) = {}
      BY <2>6
    <3> QED
      BY <3>1, <3>2
  <2>8. \A b \in new.taken : \E m \in new.pairs : m[2] = o[b].n
    <3>1. pair \in new.pairs /\ pair[2] = o[j].n
      OBVIOUS
    <3>2. \A b \in st.taken : \E m \in st.pairs : m[2] = o[b].n
      BY DEF RoundInv
    <3>3. st.pairs \subseteq new.pairs /\ new.taken = st.taken \cup {j}
      OBVIOUS
    <3> HIDE DEF new, pair
    <3> QED
      BY <3>1, <3>2, <3>3
  <2>9. \A a \in 1..i : Settled(o, a, new)
    <3>1. pair \in new.pairs /\ pair[1] = o[i].n
      OBVIOUS
    <3>2. st.taken \subseteq new.taken /\ st.pairs \subseteq new.pairs
      OBVIOUS
    <3> HIDE DEF new, pair
    <3>3. Settled(o, i, new)
      BY <3>1 DEF Settled
    <3>4. \A a \in 1..i - 1 : Settled(o, a, st)
      BY DEF RoundInv
    <3> QED
      BY <3>2, <3>3, <3>4, SettledStay
  <2>10. new = [taken |-> new.taken, pairs |-> new.pairs]
    OBVIOUS
  <2> HIDE DEF new
  <2>11. RoundInv(o, i, new)
    BY <2>4, <2>5, <2>7, <2>8, <2>9 DEF RoundInv
  <2> QED
    BY <2>1, <2>10, <2>11
<1>3. CASE i \notin st.taken /\ C = {}
  <2>1. \A b \in i+1..L : Matchable(o[i], o[b]) => b \in st.taken
    BY <1>3 DEF Candidates
  <2>2. CASE ~AloneTooLong(o[i])
    <3>1. Round(o, i, st) = st
      BY <1>3, <2>2 DEF Round
    <3>2. Settled(o, i, st)
      BY <1>0, <2>1, <2>2, QueueAssumption DEF Settled, AloneTooLong
    <3>3. \A m \in st.pairs : Found(o, i, st, m)
      BY <1>0 DEF RoundInv, Found
    <3>4. \A a \in 1..i : Settled(o, a, st)
      BY <1>0, <3>2 DEF RoundInv
    <3> QED
      BY <3>1, <3>3, <3>4 DEF RoundInv
  <2>3. CASE AloneTooLong(o[i])
    <3> DEFINE pair == <<o[i].n, Bot>>
               new == [taken |-> st.taken, pairs |-> st.pairs \cup {pair}]
    <3>1. Round(o, i, st) = new
      BY <1>3, <2>3 DEF Round
    <3>2. \A m \in new.pairs : Found(o, i, new, m)
      <4>1. Found(o, i, new, pair)
        BY DEF Found
      <4>2. \A m \in st.pairs : Found(o, i, new, m)
        BY <1>0 DEF RoundInv, Found
      <4> QED
        BY <4>1, <4>2
    <3>3. ASSUME NEW m \in st.pairs
          PROVE  Ends(m) \cap Ends(pair) = {}
      <4>1. PICK a \in 1..i - 1 :
               \/ m = <<o[a].n, Bot>>
               \/ \E b \in st.taken : a < b /\ m = <<o[a].n, o[b].n>>
        BY DEF RoundInv, Found
      <4>2. o[a].n # o[i].n
        BY <1>0, <4>1, PlacesApart
      <4>3. \A b \in st.taken : o[b].n # o[i].n
        BY <1>3, PlacesApart DEF RoundInv
      <4> QED
        BY <4>1, <4>2, <4>3 DEF Ends
    <3>4. \A m, k \in new.pairs : m = k \/ Ends(m) \cap Ends(k) = {}
      <4>1. \A m, k \in st.pairs : m = k \/ Ends(m) \cap Ends(k) = {}
        BY DEF RoundInv
      <4> HIDE DEF pair
      <4>2. \A m \in st.pairs : Ends(m) \cap Ends(pair) = {} /\ Ends(pair) \cap Ends(m) = {}
        BY <3>3
      <4> QED
        BY <4>1, <4>2
    <3>5. \A a \in 1..i : Settled(o, a, new)
      <4>1. pair \in new.pairs /\ pair[1] = o[i].n
        OBVIOUS
      <4>2. st.taken \subseteq new.taken /\ st.pairs \subseteq new.pairs
        OBVIOUS
      <4> HIDE DEF new, pair
      <4>3. Settled(o, i, new)
        BY <4>1 DEF Settled
      <4>4. \A a \in 1..i - 1 : Settled(o, a, st)
        BY DEF RoundInv
      <4> QED
        BY <4>2, <4>3, <4>4, SettledStay
    <3>6. \A b \in new.taken : \E m \in new.pairs : m[2] = o[b].n
      BY DEF RoundInv
    <3>7. new.taken \subseteq 1..L /\ new = [taken |-> new.taken, pairs |-> new.pairs]
      BY DEF RoundInv
    <3> HIDE DEF new
    <3>8. RoundInv(o, i, new)
      BY <3>2, <3>4, <3>5, <3>6, <3>7 DEF RoundInv
    <3> QED
      BY <3>1, <3>7, <3>8
  <2> QED
    BY <2>2, <2>3
<1> QED
  BY <1>1, <1>2, <1>3

\* An entry had been picked before the c-th round.
Picked(o, c, x, pairs) == \E a \in 1..c - 1 : <<o[a].n, o[x].n>> \in pairs

\* The c-th round did what it should: its entry had been picked, or got the closest in rank
\* of those that fitted it and had not been picked, or there was none.
Fair(o, c, pairs) ==
    \/ Picked(o, c, c, pairs)
    \/ \E b \in c+1..Len(o) :
          /\ <<o[c].n, o[b].n>> \in pairs
          /\ \A x \in c+1..Len(o) : Matchable(o[c], o[x]) =>
                Picked(o, c, x, pairs) \/ RankDiff(o[c], o[b]) <= RankDiff(o[c], o[x])
    \/ \A x \in c+1..Len(o) : Matchable(o[c], o[x]) => Picked(o, c, x, pairs)

\* What a round did stays right as the loop goes on.
LEMMA FairStays ==
    ASSUME NEW o, NEW c, NEW p, NEW q, p \subseteq q, Fair(o, c, p)
    PROVE  Fair(o, c, q)
<1>1. \A x : Picked(o, c, x, p) => Picked(o, c, x, q)
  BY DEF Picked
<1>2. CASE Picked(o, c, c, p)
  BY <1>1, <1>2 DEF Fair
<1>3. ASSUME NEW b \in c+1..Len(o), <<o[c].n, o[b].n>> \in p,
             \A x \in c+1..Len(o) : Matchable(o[c], o[x]) =>
                Picked(o, c, x, p) \/ RankDiff(o[c], o[b]) <= RankDiff(o[c], o[x])
      PROVE  Fair(o, c, q)
  BY <1>1, <1>3, Zenon DEF Fair
<1>4. CASE \A x \in c+1..Len(o) : Matchable(o[c], o[x]) => Picked(o, c, x, p)
  BY <1>1, <1>4, Zenon DEF Fair
<1> QED
  BY <1>2, <1>3, <1>4, Zenon DEF Fair

\* What is taken has been picked in an earlier round.
LEMMA TakenWerePicked ==
    ASSUME NEW o, Listing(o), NEW i \in 1..Len(o), NEW st, RoundInv(o, i - 1, st), NEW b \in st.taken
    PROVE  Picked(o, i, b, st.pairs)
<1>0. /\ b \in 1..Len(o)
      /\ \A a \in 1..Len(o) : o[a].n # Bot
  <2>1. /\ b \in 1..Len(o)
        /\ \A a \in 1..Len(o) : o[a] \in queue
    BY DEF Listing, RoundInv
  <2>2. \A e \in queue : e.n # Bot
    BY QueueAssumption DEF Listing, Entry, Requests, Bot
  <2> QED
    BY <2>1, <2>2
<1>1. PICK m \in st.pairs : m[2] = o[b].n
  BY DEF RoundInv
<1>2. PICK a \in 1..i - 1 :
         \/ m = <<o[a].n, Bot>>
         \/ \E d \in st.taken : a < d /\ m = <<o[a].n, o[d].n>>
  BY DEF RoundInv, Found
<1>3. m # <<o[a].n, Bot>>
  BY <1>0, <1>1
<1>4. m = <<o[a].n, o[b].n>>
  BY <1>1, <1>2, <1>3
<1> QED
  BY <1>4 DEF Picked

\* Every round is fair.
LEMMA RoundIsFair ==
    ASSUME NEW o, Listing(o), NEW i \in 1..Len(o), NEW st, RoundInv(o, i - 1, st),
           \A c \in 1..i - 1 : Fair(o, c, st.pairs)
    PROVE  \A c \in 1..i : Fair(o, c, Round(o, i, st).pairs)
<1> DEFINE C == Candidates(o, i, st.taken)
           L == Len(o)
           new == Round(o, i, st)
           j == Closest(o, i, C)
<1>0. L \in Nat /\ \A a \in 1..L : o[a].rank \in Nat
  BY QueueAssumption DEF Listing, Entry
<1>1. \A b \in st.taken : Picked(o, i, b, st.pairs)
  BY TakenWerePicked
<1>2. st.pairs \subseteq new.pairs
  BY DEF Round
<1> SUFFICES Fair(o, i, new.pairs)
  <2>1. \A c \in 1..i - 1 : Fair(o, c, new.pairs)
    BY <1>2, FairStays
  <2>2. \A c \in 1..i : c = i \/ c \in 1..i - 1
    OBVIOUS
  <2> HIDE DEF new
  <2> QED
    BY <2>1, <2>2 DEF new
<1>3. CASE i \in st.taken
  <2>1. Fair(o, i, st.pairs)
    BY <1>1, <1>3 DEF Fair
  <2> QED
    BY <1>2, <2>1, FairStays
<1>4. CASE i \notin st.taken /\ C # {}
  <2>1. new.pairs = st.pairs \cup {<<o[i].n, o[j].n>>}
    BY <1>4 DEF Round
  <2>2. j \in C /\ \A k \in C : RankDiff(o[i], o[j]) <= RankDiff(o[i], o[k])
    <3>1. C \subseteq Nat
      BY <1>0 DEF Candidates
    <3>2. \A k \in C : RankDiff(o[i], o[k]) \in Nat
      BY <1>0 DEF Candidates, RankDiff
    <3> HIDE DEF C
    <3> QED
      BY <1>4, <3>1, <3>2, ClosestIsCandidate
  <2> HIDE DEF j, new
  <2>3. j \in i+1..L
    BY <2>2 DEF Candidates
  <2>4. \A x \in i+1..L : Matchable(o[i], o[x]) => x \in st.taken \/ x \in C
    BY DEF Candidates
  <2>5. \A x : Picked(o, i, x, st.pairs) => Picked(o, i, x, new.pairs)
    BY <1>2 DEF Picked
  <2> HIDE DEF C
  <2>6. ASSUME NEW x \in i+1..L, Matchable(o[i], o[x])
        PROVE  Picked(o, i, x, new.pairs) \/ RankDiff(o[i], o[j]) <= RankDiff(o[i], o[x])
    BY <1>1, <2>2, <2>4, <2>5, <2>6
  <2>7. <<o[i].n, o[j].n>> \in new.pairs
    BY <2>1
  <2> QED
    BY <2>3, <2>6, <2>7, Zenon DEF Fair
<1>5. CASE i \notin st.taken /\ C = {}
  <2>1. \A x \in i+1..L : Matchable(o[i], o[x]) => x \in st.taken
    BY <1>5 DEF Candidates
  <2>2. Fair(o, i, st.pairs)
    BY <1>1, <2>1, Zenon DEF Fair
  <2> QED
    BY <1>2, <2>2, FairStays
<1> QED
  BY <1>3, <1>4, <1>5

\* So the invariant of the loop holds when it ends.
LEMMA LoopInvariant ==
    ASSUME NEW o, Listing(o)
    PROVE  /\ \E taken : RoundInv(o, Len(o), [taken |-> taken, pairs |-> Pairs(o)])
           /\ \A c \in 1..Len(o) : Fair(o, c, Pairs(o))
<1> DEFINE R == Rounds(o)
           L == Len(o)
           Good(i) == /\ R[i] = [taken |-> R[i].taken, pairs |-> R[i].pairs]
                      /\ RoundInv(o, i, R[i])
                      /\ \A c \in 1..i : Fair(o, c, R[i].pairs)
           S == {i \in Nat : i \in 0..L => Good(i)}
<1>1. L \in Nat
  BY DEF Listing
<1>2. \A i \in 0..L : R[i] = IF i = 0 THEN Start ELSE Round(o, i, R[i - 1])
  BY <1>1, RoundsDefined
<1> HIDE DEF R
<1>3. 0 \in S
  <2>1. R[0] = Start
    BY <1>1, <1>2
  <2> QED
    BY <1>1, <2>1 DEF Start, RoundInv
<1>4. ASSUME NEW i \in Nat, i \in S
      PROVE  i + 1 \in S
  <2> SUFFICES ASSUME i + 1 \in 0..L
               PROVE  Good(i + 1)
    OBVIOUS
  <2>1. Good(i) /\ i + 1 \in 1..L /\ (i + 1) - 1 = i
    BY <1>1, <1>4
  <2>2. R[i + 1] = Round(o, i + 1, R[i])
    BY <1>2, <2>1
  <2> QED
    BY <2>1, <2>2, RoundKeeps, RoundIsFair
<1> HIDE DEF S
<1>5. L \in S
  BY <1>1, <1>3, <1>4, Induction
<1>6. Good(L)
  BY <1>1, <1>5 DEF S
<1>7. R[L].pairs = Pairs(o)
  BY DEF R, Pairs
<1>8. RoundInv(o, L, [taken |-> R[L].taken, pairs |-> Pairs(o)])
  BY <1>6, <1>7
<1>9. \A c \in 1..L : Fair(o, c, Pairs(o))
  BY <1>6, <1>7
<1> QED
  BY <1>8, <1>9

----------------------------------------------------------------------------
(* What becomes of the requests                                            *)

Queued == {e.n : e \in queue}

\* No request is in two games, and a game that was asked for is no longer being created.
JobsApart ==
    /\ \A j, k \in jobs \cup created : j = k \/ RequestsOf({j}) \cap RequestsOf({k}) = {}
    /\ jobs \cap created = {}
    /\ \A j \in created : j.game # Unnumbered

\* The numbers the games got are old ones, and different.
NumbersApart ==
    /\ \A j \in jobs \cup created : j.game <= gameId
    /\ \A j, k \in jobs \cup created : j.game = k.game => j = k \/ j.game = Unnumbered

\* The requests so far are shared out among the queue, the games and two histories.
Fates(all, q, g, c, l) ==
    /\ q \cup g \cup c \cup l = all
    /\ q \cap g = {} /\ q \cap c = {} /\ q \cap l = {}
    /\ g \cap c = {} /\ g \cap l = {} /\ c \cap l = {}

QueueInv ==
    /\ TypeOK
    /\ Apart(queue)
    /\ JobsApart
    /\ NumbersApart
    /\ Fates(1..requests, Queued, RequestsOf(jobs \cup created), cancelled, lost)

\* The queue is finite.
LEMMA QueueFinite ==
    ASSUME queue \subseteq Entry, Apart(queue)
    PROVE  IsFiniteSet(queue) /\ Cardinality(queue) \in Nat
<1> DEFINE f == [e \in queue |-> e.n]
<1>1. f \in Injection(queue, 1..MaxRequests)
  BY DEF Injection, IsInjective, Apart, Entry, Requests
<1>2. IsFiniteSet(1..MaxRequests)
  BY QueueAssumption, FS_Interval
<1> QED
  BY <1>1, <1>2, FS_Injection, FS_CardinalityType

\* An order of the script lists every entry of the queue.
LEMMA SortedListing ==
    ASSUME queue \subseteq Entry, Apart(queue), NEW o \in Sorted
    PROVE  Listing(o) /\ \A e \in queue : \E i \in 1..Len(o) : o[i] = e
<1> DEFINE c == Cardinality(queue)
<1>1. IsFiniteSet(queue) /\ c \in Nat
  BY QueueFinite
<1>2. o \in [1..c -> queue] /\ \A i, j \in 1..c : i < j => o[i] # o[j]
  BY DEF Sorted
<1>3. IsFiniteSet(1..c) /\ Cardinality(1..c) = c
  BY <1>1, FS_Interval
<1>4. o \in Injection(1..c, queue)
  BY <1>1, <1>2 DEF Injection, IsInjective
<1>5. o \in Surjection(1..c, queue)
  BY <1>1, <1>3, <1>4, FS_Injection
<1> HIDE DEF c
<1>6. Len(o) = c
  BY <1>1, <1>2
<1>7. \A i, j \in 1..c : o[i] = o[j] => i = j
  BY <1>4 DEF Injection, IsInjective
<1>8. \A e \in queue : \E i \in 1..c : o[i] = e
  BY <1>5 DEF Surjection
<1> QED
  BY <1>1, <1>2, <1>6, <1>7, <1>8 DEF Listing

\* What the script returns: pairs of waiting requests, or of one and the bot, that have no
\* request in common.
LEMMA PairsFound ==
    ASSUME queue \subseteq Entry, Apart(queue), NEW o \in Sorted
    PROVE  /\ \A m \in Pairs(o) : /\ m = <<m[1], m[2]>>
                                  /\ m[1] \in Queued /\ m[2] \in Queued \cup {Bot}
           /\ \A m, k \in Pairs(o) : m = k \/ Ends(m) \cap Ends(k) = {}
<1>1. Listing(o)
  BY SortedListing
<1>2. PICK taken : RoundInv(o, Len(o), [taken |-> taken, pairs |-> Pairs(o)])
  BY <1>1, LoopInvariant
<1> DEFINE st == [taken |-> taken, pairs |-> Pairs(o)]
<1>3. st.taken = taken /\ st.pairs = Pairs(o)
  OBVIOUS
<1> HIDE DEF st
<1>4. \A a \in 1..Len(o) : o[a].n \in Queued
  BY <1>1 DEF Listing, Queued
<1>5. ASSUME NEW m \in Pairs(o)
      PROVE  /\ m = <<m[1], m[2]>>
             /\ m[1] \in Queued /\ m[2] \in Queued \cup {Bot}
  <2>1. Found(o, Len(o), st, m) /\ st.taken \subseteq 1..Len(o)
    BY <1>2, <1>3 DEF RoundInv, st
  <2> QED
    BY <1>4, <2>1 DEF Found
<1>6. \A m, k \in Pairs(o) : m = k \/ Ends(m) \cap Ends(k) = {}
  BY <1>2 DEF RoundInv
<1> QED
  BY <1>5, <1>6

LEMMA RequestsOfEach ==
    ASSUME NEW J, NEW n
    PROVE  n \in RequestsOf(J) <=> \E j \in J : n \in RequestsOf({j})
BY DEF RequestsOf

LEMMA RequestsOfUnion ==
    ASSUME NEW J, NEW K
    PROVE  RequestsOf(J \cup K) = RequestsOf(J) \cup RequestsOf(K)
BY DEF RequestsOf

LEMMA QueueInit == Init => QueueInv
BY QueueAssumption DEF Init, QueueInv, TypeOK, Apart, JobsApart, NumbersApart, Fates, Queued,
   RequestsOf

LEMMA RequestStep ==
    ASSUME QueueInv, NEW p \in Players, Request(p)
    PROVE  QueueInv'
<1> USE DEF QueueInv, Request
<1>1. PICK r \in Ranks :
         queue' = queue \cup {[n |-> requests + 1, who |-> p, rank |-> r, wait |-> 0]}
  OBVIOUS
<1> DEFINE new == [n |-> requests + 1, who |-> p, rank |-> r, wait |-> 0]
<1>2. new \in Entry /\ new.n = requests + 1 /\ new.who = p
  BY QueueAssumption DEF Entry, Requests, MaxWait, TypeOK
<1>3. queue' = queue \cup {new}
  BY <1>1
<1> HIDE DEF new
<1>4. TypeOK'
  <2>1. requests' \in 0..MaxRequests /\ queue' \subseteq Entry
    BY <1>2, <1>3, QueueAssumption DEF TypeOK
  <2> QED
    BY <2>1 DEF TypeOK, Job
<1>5. \A e \in queue : e.n \in 1..requests /\ e.who # p
  BY DEF Fates, Queued, NotQueued
<1>6. Apart(queue)'
  <2>1. requests \in Nat
    BY QueueAssumption DEF TypeOK
  <2>2. \A e \in queue : e.n # new.n /\ e.who # new.who
    BY <1>2, <1>5, <2>1
  <2> QED
    BY <1>3, <2>2 DEF Apart
<1>7. JobsApart' /\ NumbersApart'
  BY DEF JobsApart, NumbersApart
<1>8. Fates(1..requests, Queued, RequestsOf(jobs \cup created), cancelled, lost)'
  <2>1. Queued' = Queued \cup {requests + 1}
    BY <1>2, <1>3 DEF Queued
  <2>2. requests \in Nat /\ requests' = requests + 1
    BY QueueAssumption DEF TypeOK
  <2>3. (1..requests)' = 1..requests \cup {requests + 1} /\ requests + 1 \notin 1..requests
    BY <2>2
  <2>4. RequestsOf(jobs \cup created)' = RequestsOf(jobs \cup created)
    BY DEF RequestsOf
  <2>5. Fates(1..requests \cup {requests + 1}, Queued \cup {requests + 1},
              RequestsOf(jobs \cup created), cancelled, lost)
    BY <2>3 DEF Fates
  <2> QED
    BY <2>1, <2>3, <2>4, <2>5 DEF Fates
<1> QED
  BY <1>4, <1>6, <1>7, <1>8

LEMMA CancelStep ==
    ASSUME QueueInv, NEW p \in Players, Cancel(p)
    PROVE  QueueInv'
<1> USE DEF QueueInv, Cancel
<1>1. PICK e \in queue : /\ queue' = queue \ {e}
                         /\ cancelled' = cancelled \cup {e.n}
  OBVIOUS
<1>2. TypeOK'
  BY <1>1 DEF TypeOK, Entry
<1>3. Apart(queue)'
  BY <1>1 DEF Apart
<1>4. JobsApart' /\ NumbersApart'
  BY DEF JobsApart, NumbersApart
<1>5. Fates(1..requests, Queued, RequestsOf(jobs \cup created), cancelled, lost)'
  <2>1. Queued' = Queued \ {e.n} /\ e.n \in Queued
    BY <1>1 DEF Queued, Apart
  <2>2. RequestsOf(jobs \cup created)' = RequestsOf(jobs \cup created)
    BY DEF RequestsOf
  <2>3. Fates(1..requests, Queued \ {e.n}, RequestsOf(jobs \cup created),
              cancelled \cup {e.n}, lost)
    BY <2>1 DEF Fates
  <2> QED
    BY <1>1, <2>1, <2>2, <2>3 DEF Fates
<1> QED
  BY <1>2, <1>3, <1>4, <1>5

LEMMA SecondStep ==
    ASSUME QueueInv, Second
    PROVE  QueueInv'
<1> USE DEF QueueInv, Second
<1> DEFINE Older(e) == [e EXCEPT !.wait = IF @ < MaxWait THEN @ + 1 ELSE @]
<1>1. ASSUME NEW e \in Entry
      PROVE  Older(e) \in Entry /\ Older(e).n = e.n /\ Older(e).who = e.who
  <2>1. MaxWait \in Nat /\ e.wait \in 0..MaxWait
    BY QueueAssumption DEF MaxWait, Entry
  <2>2. (IF e.wait < MaxWait THEN e.wait + 1 ELSE e.wait) \in 0..MaxWait
    BY <2>1
  <2> QED
    BY <2>2 DEF Entry
<1>2. queue' = {Older(e) : e \in queue}
  OBVIOUS
<1> HIDE DEF Older
<1>3. queue \subseteq Entry
  BY DEF TypeOK
<1>4. TypeOK'
  BY <1>1, <1>2, <1>3 DEF TypeOK, Job
<1>5. Apart(queue)'
  BY <1>1, <1>2, <1>3 DEF Apart
<1>6. JobsApart' /\ NumbersApart'
  BY DEF JobsApart, NumbersApart
<1>7. Fates(1..requests, Queued, RequestsOf(jobs \cup created), cancelled, lost)'
  <2>1. Queued' = Queued
    BY <1>1, <1>2, <1>3 DEF Queued
  <2>2. RequestsOf(jobs \cup created)' = RequestsOf(jobs \cup created)
    BY DEF RequestsOf
  <2> QED
    BY <2>1, <2>2 DEF Fates
<1> QED
  BY <1>4, <1>5, <1>6, <1>7

LEMMA NumberGameStep ==
    ASSUME QueueInv, NEW j \in jobs, NumberGame(j)
    PROVE  QueueInv'
<1> USE DEF QueueInv, NumberGame
<1> DEFINE new == [j EXCEPT !.game = gameId + 1]
<1>1. gameId \in Nat /\ j \in Job /\ \A k \in jobs \cup created : k.game \in Nat
  BY DEF TypeOK, Job
<1>2. new \in Job /\ new.game = gameId + 1 /\ RequestsOf({new}) = RequestsOf({j})
  BY <1>1 DEF Job, RequestsOf
<1>3. jobs' = (jobs \ {j}) \cup {new} /\ gameId' = gameId + 1
  BY DEF Stored
<1> HIDE DEF new
<1>4. \A k \in jobs \cup created : k.game <= gameId
  BY DEF NumbersApart
<1>5. j \notin created
  BY DEF JobsApart
<1>6. (jobs \cup created)' = ((jobs \cup created) \ {j}) \cup {new}
  BY <1>3, <1>5
<1>7. TypeOK'
  BY <1>1, <1>2, <1>3 DEF TypeOK, Entry
<1>8. Apart(queue)'
  BY DEF Apart
<1>9. JobsApart'
  <2>1. new \notin created
    BY <1>1, <1>2, <1>4
  <2>2. (jobs \cap created)' = {}
    BY <1>3, <2>1 DEF JobsApart
  <2>3. \A k \in (jobs \cup created) \ {j} :
           RequestsOf({k}) \cap RequestsOf({new}) = {} /\ RequestsOf({new}) \cap RequestsOf({k}) = {}
    BY <1>2 DEF JobsApart
  <2>4. \A k, m \in (jobs \cup created)' : k = m \/ RequestsOf({k}) \cap RequestsOf({m}) = {}
    BY <1>6, <2>3 DEF JobsApart
  <2>5. \A k \in created' : k.game # Unnumbered
    BY DEF JobsApart
  <2> QED
    BY <2>2, <2>4, <2>5 DEF JobsApart, RequestsOf
<1>10. NumbersApart'
  <2>1. \A k \in jobs \cup created : k.game # new.game /\ k.game <= gameId + 1
    BY <1>1, <1>2, <1>4
  <2>2. new.game <= gameId + 1
    BY <1>1, <1>2
  <2> QED
    BY <1>3, <1>6, <2>1, <2>2 DEF NumbersApart
<1>11. Fates(1..requests, Queued, RequestsOf(jobs \cup created), cancelled, lost)'
  <2>1. Queued' = Queued
    BY DEF Queued
  <2>2. RequestsOf(jobs \cup created)' = RequestsOf(jobs \cup created)
    <3> DEFINE J == jobs \cup created
               K == (J \ {j}) \cup {new}
    <3>1. J = (J \ {j}) \cup {j}
      OBVIOUS
    <3>2. RequestsOf(K) = RequestsOf(J \ {j}) \cup RequestsOf({new})
      BY RequestsOfUnion
    <3>3. RequestsOf((J \ {j}) \cup {j}) = RequestsOf(J \ {j}) \cup RequestsOf({j})
      BY RequestsOfUnion
    <3>4. RequestsOf(K) = RequestsOf(J)
      BY <1>2, <3>1, <3>2, <3>3
    <3> QED
      BY <1>6, <3>4 DEF RequestsOf
  <2> QED
    BY <2>1, <2>2 DEF Fates
<1> QED
  BY <1>7, <1>8, <1>9, <1>10, <1>11

LEMMA RequestGameStep ==
    ASSUME QueueInv, NEW j \in jobs, RequestGame(j)
    PROVE  QueueInv'
<1> USE DEF QueueInv, RequestGame
<1>1. (jobs \cup created)' = jobs \cup created
  OBVIOUS
<1>2. TypeOK'
  BY DEF TypeOK, Entry, Job
<1>3. Apart(queue)'
  BY DEF Apart
<1>4. JobsApart' /\ NumbersApart'
  BY <1>1 DEF JobsApart, NumbersApart
<1>5. Fates(1..requests, Queued, RequestsOf(jobs \cup created), cancelled, lost)'
  <2>1. Queued' = Queued /\ RequestsOf(jobs \cup created)' = RequestsOf(jobs \cup created)
    BY <1>1 DEF Queued, RequestsOf
  <2> QED
    BY <2>1 DEF Fates
<1> QED
  BY <1>2, <1>3, <1>4, <1>5

LEMMA CrashStep ==
    ASSUME QueueInv, Crash
    PROVE  QueueInv'
<1> USE DEF QueueInv, Crash
<1>1. RequestsOf(jobs) \subseteq Requests
  BY DEF RequestsOf, TypeOK, Job
<1>2. TypeOK'
  BY <1>1, QueueAssumption DEF TypeOK, Entry, Job
<1>3. Apart(queue)'
  BY DEF Apart
<1>4. JobsApart' /\ NumbersApart'
  BY DEF JobsApart, NumbersApart
<1>5. Fates(1..requests, Queued, RequestsOf(jobs \cup created), cancelled, lost)'
  <2>1. Queued' = Queued /\ RequestsOf(jobs \cup created)' = RequestsOf(created)
    BY DEF Queued, RequestsOf
  <2>2. RequestsOf(jobs \cup created) = RequestsOf(jobs) \cup RequestsOf(created)
    BY RequestsOfUnion
  <2>3. RequestsOf(jobs) \cap RequestsOf(created) = {}
    <3> SUFFICES ASSUME NEW n \in RequestsOf(jobs), n \in RequestsOf(created)
                 PROVE  FALSE
      OBVIOUS
    <3>1. PICK j \in jobs : n \in RequestsOf({j})
      BY RequestsOfEach
    <3>2. PICK k \in created : n \in RequestsOf({k})
      BY RequestsOfEach
    <3>3. j # k /\ j \in jobs \cup created /\ k \in jobs \cup created
      BY DEF JobsApart
    <3> QED
      BY <3>1, <3>2, <3>3 DEF JobsApart
  <2> QED
    BY <2>1, <2>2, <2>3 DEF Fates
<1> QED
  BY <1>2, <1>3, <1>4, <1>5

LEMMA MatchMakeStep ==
    ASSUME QueueInv, MatchMake
    PROVE  QueueInv'
<1> USE DEF QueueInv, MatchMake
<1>1. PICK o \in Sorted :
         /\ queue' = {e \in queue : \A m \in Pairs(o) : e.n # m[1] /\ e.n # m[2]}
         /\ jobs' = jobs \cup {[first |-> m[1], second |-> m[2], game |-> Unnumbered] : m \in Pairs(o)}
  OBVIOUS
<1> DEFINE P == Pairs(o)
           New(m) == [first |-> m[1], second |-> m[2], game |-> Unnumbered]
           J == {New(m) : m \in P}
<1>2. queue \subseteq Entry /\ Apart(queue)
  BY DEF TypeOK
<1>3. /\ \A m \in P : m = <<m[1], m[2]>> /\ m[1] \in Queued /\ m[2] \in Queued \cup {Bot}
      /\ \A m, k \in P : m = k \/ Ends(m) \cap Ends(k) = {}
  BY <1>2, PairsFound
<1>4. Queued \subseteq Requests /\ Bot \notin Queued
  BY <1>2 DEF Queued, Entry, Requests, Bot
<1> HIDE DEF P
<1>5. ASSUME NEW m \in P
      PROVE  /\ New(m) \in Job /\ New(m).game = Unnumbered
             /\ RequestsOf({New(m)}) = Ends(m) /\ Ends(m) \subseteq Queued
  <2>1. m[1] \in Requests /\ m[2] \in Requests \cup {Bot} /\ Unnumbered \in Nat
    BY <1>3, <1>4 DEF Unnumbered
  <2> QED
    BY <1>3, <2>1 DEF Job, RequestsOf, Ends
<1>6. /\ queue' = {e \in queue : \A m \in P : e.n # m[1] /\ e.n # m[2]}
      /\ jobs' = jobs \cup J
  BY <1>1 DEF P
<1> HIDE DEF New
<1>7. J \subseteq Job /\ \A j \in J : j.game = Unnumbered /\ RequestsOf({j}) \subseteq Queued
  BY <1>5
<1>8. \A j, k \in J : j = k \/ RequestsOf({j}) \cap RequestsOf({k}) = {}
  BY <1>3, <1>5
<1>9. RequestsOf(J) = UNION {Ends(m) : m \in P}
  <2>1. \A n : n \in RequestsOf(J) <=> \E j \in J : n \in RequestsOf({j})
    BY RequestsOfEach
  <2>2. \A m \in P : RequestsOf({New(m)}) = Ends(m)
    BY <1>5
  <2>3. \A j : j \in J <=> \E m \in P : j = New(m)
    OBVIOUS
  <2> HIDE DEF J
  <2>4. ASSUME NEW n
        PROVE  n \in RequestsOf(J) <=> \E m \in P : n \in Ends(m)
    <3>1. ASSUME NEW m \in P, n \in Ends(m)
          PROVE  n \in RequestsOf(J)
      BY <2>1, <2>2, <2>3, <3>1
    <3>2. ASSUME NEW j \in J, n \in RequestsOf({j})
          PROVE  \E m \in P : n \in Ends(m)
      BY <2>2, <2>3, <3>2
    <3> QED
      BY <2>1, <3>1, <3>2
  <2> QED
    BY <2>4
<1>10. TypeOK'
  BY <1>6, <1>7 DEF TypeOK, Entry, Job
<1>11. Apart(queue)'
  BY <1>6 DEF Apart
<1> HIDE DEF J
<1>12. JobsApart'
  <2>1. \A j \in jobs \cup created : RequestsOf({j}) \cap Queued = {}
    BY RequestsOfEach DEF Fates
  <2>2. \A j \in jobs \cup created, k \in J : RequestsOf({j}) \cap RequestsOf({k}) = {}
    BY <1>7, <2>1
  <2>3. J \cap created = {}
    BY <1>7 DEF JobsApart
  <2>4. (jobs \cup created)' = (jobs \cup created) \cup J
    BY <1>6
  <2>5. \A j, k \in jobs \cup created : j = k \/ RequestsOf({j}) \cap RequestsOf({k}) = {}
    BY DEF JobsApart
  <2>6. (\A j, k \in jobs \cup created : j = k \/ RequestsOf({j}) \cap RequestsOf({k}) = {})'
    BY <1>8, <2>2, <2>4, <2>5
  <2> QED
    BY <1>6, <2>3, <2>6 DEF JobsApart
<1>13. NumbersApart'
  BY <1>6, <1>7 DEF NumbersApart, TypeOK, Unnumbered
<1>14. Fates(1..requests, Queued, RequestsOf(jobs \cup created), cancelled, lost)'
  <2> DEFINE N == UNION {Ends(m) : m \in P}
  <2>1. N \subseteq Queued
    BY <1>5
  <2>2. Queued' = Queued \ N
    <3>1. \A e \in queue : e \in queue' <=> e.n \notin N
      BY <1>3, <1>4, <1>6 DEF Ends, Queued
    <3>2. queue' \subseteq queue
      BY <1>6
    <3> HIDE DEF N
    <3> QED
      BY <1>2, <3>1, <3>2 DEF Queued, Apart
  <2>3. RequestsOf(jobs \cup created)' = RequestsOf(jobs \cup created) \cup N
    <3>1. (jobs \cup created)' = (jobs \cup created) \cup J
      BY <1>6
    <3>2. RequestsOf((jobs \cup created) \cup J) = RequestsOf(jobs \cup created) \cup N
      BY <1>9, RequestsOfUnion
    <3> QED
      BY <3>1, <3>2 DEF RequestsOf
  <2> HIDE DEF N
  <2> QED
    BY <2>1, <2>2, <2>3 DEF Fates
<1> QED
  BY <1>10, <1>11, <1>12, <1>13, <1>14

\* The invariant holds for any numbers of players, requests and crashes.
THEOREM QueueInvariant == Spec => []QueueInv
<1>1. QueueInv /\ [Next]_vars => QueueInv'
  <2> SUFFICES ASSUME QueueInv, [Next]_vars
               PROVE  QueueInv'
    OBVIOUS
  <2>1. CASE UNCHANGED vars
    BY <2>1 DEF vars, QueueInv, TypeOK, Entry, Job, Apart, JobsApart, NumbersApart, Fates,
       Queued, RequestsOf
  <2>2. CASE Next
    BY <2>2, RequestStep, CancelStep, SecondStep, MatchMakeStep, NumberGameStep,
       RequestGameStep, CrashStep DEF Next
  <2> QED
    BY <2>1, <2>2
<1> QED
  BY <1>1, QueueInit, PTL DEF Spec

----------------------------------------------------------------------------
(* The properties                                                          *)

LEMMA CountOne ==
    ASSUME NEW S, \A x, y \in S : x = y
    PROVE  Cardinality(S) = IF S = {} THEN 0 ELSE 1
<1>1. CASE S = {}
  BY <1>1, FS_EmptySet
<1>2. CASE S # {}
  <2>1. PICK x \in S : TRUE
    BY <1>2
  <2>2. S = {x}
    BY <2>1
  <2> QED
    BY <1>2, <2>2, FS_Singleton
<1> QED
  BY <1>1, <1>2

\* The variables keep their types.
THEOREM QueueTypes == Spec => []TypeOK
<1>1. QueueInv => TypeOK
  BY DEF QueueInv
<1> QED
  BY <1>1, QueueInvariant, PTL

\* However many players ask, cancel and are paired, and whenever the matchmaker crashes, no
\* request is forgotten or served twice.
THEOREM EveryRequestHasOneFate == Spec => []OneFate
<1>1. QueueInv => OneFate
  <2> SUFFICES ASSUME QueueInv, NEW n \in 1..requests
               PROVE  Cardinality({e \in queue : e.n = n})
                      + Cardinality({j \in jobs \cup created : n \in RequestsOf({j})})
                      + Cardinality({n} \cap cancelled) + Cardinality({n} \cap lost) = 1
    BY DEF OneFate, QueueInv, Apart
  <2> DEFINE One(B) == IF B THEN 1 ELSE 0
             Q == {e \in queue : e.n = n}
             G == {j \in jobs \cup created : n \in RequestsOf({j})}
  <2>1. Cardinality(Q) = One(n \in Queued)
    <3>1. \A d, e \in Q : d = e
      BY DEF QueueInv, Apart
    <3>2. Q = {} <=> n \notin Queued
      BY DEF Queued
    <3> HIDE DEF Q
    <3> QED
      BY <3>1, <3>2, CountOne
  <2>2. Cardinality(G) = One(n \in RequestsOf(jobs \cup created))
    <3>1. \A j, k \in G : j = k
      BY DEF QueueInv, JobsApart
    <3>2. n \in RequestsOf(jobs \cup created) <=> \E j \in jobs \cup created : n \in RequestsOf({j})
      BY RequestsOfEach
    <3>3. G = {} <=> n \notin RequestsOf(jobs \cup created)
      BY <3>2
    <3> HIDE DEF G
    <3> QED
      BY <3>1, <3>3, CountOne
  <2>3. Cardinality({n} \cap cancelled) = One(n \in cancelled)
    <3>1. ({n} \cap cancelled = {}) <=> n \notin cancelled
      OBVIOUS
    <3> QED
      BY <3>1, CountOne
  <2>4. Cardinality({n} \cap lost) = One(n \in lost)
    <3>1. ({n} \cap lost = {}) <=> n \notin lost
      OBVIOUS
    <3> QED
      BY <3>1, CountOne
  <2>5. One(n \in Queued) + One(n \in RequestsOf(jobs \cup created)) + One(n \in cancelled)
        + One(n \in lost) = 1
    <3> DEFINE g == RequestsOf(jobs \cup created)
    <3>1. Fates(1..requests, Queued, g, cancelled, lost)
      BY DEF QueueInv
    <3> HIDE DEF g
    <3>2. \/ n \in Queued /\ n \notin g /\ n \notin cancelled /\ n \notin lost
          \/ n \notin Queued /\ n \in g /\ n \notin cancelled /\ n \notin lost
          \/ n \notin Queued /\ n \notin g /\ n \in cancelled /\ n \notin lost
          \/ n \notin Queued /\ n \notin g /\ n \notin cancelled /\ n \in lost
      BY <3>1 DEF Fates
    <3>3. One(n \in Queued) + One(n \in g) + One(n \in cancelled) + One(n \in lost) = 1
      BY <3>2
    <3> QED
      BY <3>3 DEF g
  <2> HIDE DEF One
  <2> QED
    BY <2>1, <2>2, <2>3, <2>4, <2>5
<1> QED
  BY <1>1, QueueInvariant, PTL

\* Any number of goroutines that number their games get different numbers.
THEOREM GamesGetDifferentNumbers == Spec => []GamesNumberedApart
<1>1. QueueInv => GamesNumberedApart
  BY DEF QueueInv, NumbersApart, GamesNumberedApart
<1> QED
  BY <1>1, QueueInvariant, PTL

\* The loop leaves nobody who could have been matched, in whatever order sort returns the
\* entries that are equally old.
LEMMA NobodyIsLeft ==
    ASSUME queue \subseteq Entry, Apart(queue), NEW o \in Sorted,
           NEW left, left = {e \in queue : \A m \in Pairs(o) : e.n # m[1] /\ e.n # m[2]}
    PROVE  /\ \A d, e \in left : d # e => ~Matchable(d, e)
           /\ \A e \in left : e.wait <= T3
<1>1. Listing(o) /\ \A e \in queue : \E i \in 1..Len(o) : o[i] = e
  BY SortedListing
<1>2. PICK taken : RoundInv(o, Len(o), [taken |-> taken, pairs |-> Pairs(o)])
  BY <1>1, LoopInvariant
<1> DEFINE st == [taken |-> taken, pairs |-> Pairs(o)]
           L == Len(o)
<1>3. st.taken = taken /\ st.pairs = Pairs(o) /\ L \in Nat
  BY <1>1 DEF Listing
<1>4. /\ taken \subseteq 1..L
      /\ \A b \in taken : \E m \in Pairs(o) : m[2] = o[b].n
      /\ \A a \in 1..L : Settled(o, a, st)
  BY <1>2, <1>3 DEF RoundInv
<1> HIDE DEF st
<1>5. ASSUME NEW a \in 1..L, o[a] \in left
      PROVE  /\ a \notin taken
             /\ o[a].wait <= T3
             /\ \A b \in a+1..L : Matchable(o[a], o[b]) => b \in taken
  <2>1. \A m \in Pairs(o) : o[a].n # m[1] /\ o[a].n # m[2]
    BY <1>5
  <2>2. a \notin taken
    BY <1>4, <2>1
  <2> QED
    BY <1>3, <1>4, <2>1, <2>2 DEF Settled
<1>6. \A e \in left : \E a \in 1..L : o[a] = e
  BY <1>1
<1>7. ASSUME NEW d \in left, NEW e \in left, d # e, Matchable(d, e)
      PROVE  FALSE
  <2>1. PICK a \in 1..L, b \in 1..L : o[a] = d /\ o[b] = e
    BY <1>6
  <2>2. Matchable(e, d)
    <3>1. d.rank \in Nat /\ e.rank \in Nat
      BY QueueAssumption DEF Entry
    <3>2. RankDiff(d, e) = RankDiff(e, d)
      BY <3>1 DEF RankDiff
    <3> QED
      BY <1>7, <3>2 DEF Matchable
  <2>3. a \in b+1..L \/ b \in a+1..L
    BY <1>3, <1>7, <2>1
  <2> QED
    BY <1>5, <1>7, <2>1, <2>2, <2>3
<1> QED
  BY <1>5, <1>6, <1>7

\* Only the script makes new games.
LEMMA MadeByScript ==
    ASSUME QueueInv, Next, Made # {}
    PROVE  \E o \in Sorted :
              /\ queue' = {e \in queue : \A m \in Pairs(o) : e.n # m[1] /\ e.n # m[2]}
              /\ jobs' = jobs \cup {[first |-> m[1], second |-> m[2], game |-> Unnumbered] : m \in Pairs(o)}
<1>1. PICK j \in jobs' \ jobs : j.game = Unnumbered
  BY DEF Made
<1>2. ASSUME NEW k \in jobs, NumberGame(k)
      PROVE  FALSE
  <2>1. gameId \in Nat /\ k \in Job
    BY DEF QueueInv, TypeOK
  <2>2. [k EXCEPT !.game = gameId + 1].game = gameId + 1
    BY <2>1 DEF Job
  <2>3. j = [k EXCEPT !.game = gameId + 1]
    BY <1>1, <1>2 DEF NumberGame
  <2> QED
    BY <1>1, <2>1, <2>2, <2>3 DEF Unnumbered
<1>3. MatchMake
  BY <1>1, <1>2 DEF Next, Request, Cancel, Second, Crash, RequestGame
<1>4. PICK pairs \in {Pairs(o) : o \in Sorted} :
         /\ queue' = {e \in queue : \A m \in pairs : e.n # m[1] /\ e.n # m[2]}
         /\ jobs' = jobs \cup {[first |-> m[1], second |-> m[2], game |-> Unnumbered] : m \in pairs}
  BY <1>3 DEF MatchMake
<1> QED
  BY <1>4

\* The script leaves nobody in the queue who could have been matched, however long it is.
THEOREM ScriptLeavesNobody == Spec => NoneLeftBehind
<1> DEFINE None == /\ \A d, e \in queue' : d # e => ~Matchable(d, e)
                   /\ \A e \in queue' : e.wait <= T3
<1>1. QueueInv /\ [Next]_vars => [Made # {} => None]_vars
  <2> SUFFICES ASSUME QueueInv, Next, Made # {}
               PROVE  None
    BY DEF vars
  <2>1. PICK o \in Sorted :
           queue' = {e \in queue : \A m \in Pairs(o) : e.n # m[1] /\ e.n # m[2]}
    BY MadeByScript
  <2> QED
    BY <2>1, NobodyIsLeft DEF QueueInv, TypeOK
<1> QED
  BY <1>1, QueueInvariant, PTL DEF Spec, NoneLeftBehind

----------------------------------------------------------------------------
(* The order of the pairs                                                  *)

\* The entries at two places of the list are a pair; the one at a place has no partner.
Paired(o, a, b) == a \in 1..Len(o) /\ b \in 1..Len(o) /\ <<o[a].n, o[b].n>> \in Pairs(o)
Without(o, c) ==
    /\ c \in 1..Len(o)
    /\ \/ \A m \in Pairs(o) : o[c].n # m[1] /\ o[c].n # m[2]
       \/ <<o[c].n, Bot>> \in Pairs(o)

\* A place is in one pair at most, and the first of a pair stands before the second.
LEMMA PairsOfPlaces ==
    ASSUME queue \subseteq Entry, Apart(queue), NEW o \in Sorted
    PROVE  /\ \A a, b : Paired(o, a, b) => a < b
           /\ \A a, b, c, d : Paired(o, a, b) /\ Paired(o, c, d) /\ (a = c \/ a = d \/ b = c \/ b = d)
                                 => a = c /\ b = d
           /\ \A a, b, c : Paired(o, a, b) /\ Without(o, c) => c # a /\ c # b
<1>1. Listing(o)
  BY SortedListing
<1>2. PICK taken : RoundInv(o, Len(o), [taken |-> taken, pairs |-> Pairs(o)])
  BY <1>1, LoopInvariant
<1> DEFINE st == [taken |-> taken, pairs |-> Pairs(o)]
           L == Len(o)
<1>3. st.taken = taken /\ st.pairs = Pairs(o) /\ taken \subseteq 1..L /\ L \in Nat
  BY <1>1, <1>2 DEF RoundInv, Listing
<1>4. \A a \in 1..L : o[a].n # Bot
  <2>1. \A a \in 1..L : o[a] \in queue
    BY <1>1 DEF Listing
  <2> QED
    BY <2>1, QueueAssumption DEF Entry, Requests, Bot
<1>5. /\ \A m \in Pairs(o) : Found(o, L, st, m)
      /\ \A m, k \in Pairs(o) : m = k \/ Ends(m) \cap Ends(k) = {}
  BY <1>2 DEF RoundInv
<1> HIDE DEF st
<1>6. \A a, b \in 1..L : o[a].n = o[b].n => a = b
  BY <1>1, PlacesApart
<1>7. ASSUME NEW a, NEW b, Paired(o, a, b)
      PROVE  a < b
  <2>1. a \in 1..L /\ b \in 1..L /\ <<o[a].n, o[b].n>> \in Pairs(o)
    BY <1>7 DEF Paired
  <2>2. PICK c \in 1..L : \/ <<o[a].n, o[b].n>> = <<o[c].n, Bot>>
                          \/ \E d \in taken : c < d /\ <<o[a].n, o[b].n>> = <<o[c].n, o[d].n>>
    BY <1>3, <1>5, <2>1 DEF Found
  <2>3. PICK d \in taken : c < d /\ o[a].n = o[c].n /\ o[b].n = o[d].n
    BY <1>4, <2>1, <2>2
  <2>4. a = c /\ b = d
    BY <1>3, <1>6, <2>1, <2>3
  <2> QED
    BY <2>3, <2>4
<1>8. ASSUME NEW a, NEW b, NEW c, NEW d, Paired(o, a, b), Paired(o, c, d),
             a = c \/ a = d \/ b = c \/ b = d
      PROVE  a = c /\ b = d
  <2>1. /\ a \in 1..L /\ b \in 1..L /\ <<o[a].n, o[b].n>> \in Pairs(o)
        /\ c \in 1..L /\ d \in 1..L /\ <<o[c].n, o[d].n>> \in Pairs(o)
    BY <1>8 DEF Paired
  <2>2. Ends(<<o[a].n, o[b].n>>) \cap Ends(<<o[c].n, o[d].n>>) # {}
    BY <1>4, <1>8, <2>1 DEF Ends
  <2>3. <<o[a].n, o[b].n>> = <<o[c].n, o[d].n>>
    BY <1>5, <2>1, <2>2
  <2> QED
    BY <1>6, <2>1, <2>3
<1>9. ASSUME NEW a, NEW b, NEW c, Paired(o, a, b), Without(o, c), c = a \/ c = b
      PROVE  FALSE
  <2>1. a \in 1..L /\ b \in 1..L /\ c \in 1..L /\ <<o[a].n, o[b].n>> \in Pairs(o)
    BY <1>9 DEF Paired, Without
  <2>2. <<o[c].n, Bot>> \in Pairs(o)
    BY <1>9, <2>1 DEF Without
  <2>3. Ends(<<o[a].n, o[b].n>>) \cap Ends(<<o[c].n, Bot>>) # {}
    BY <1>4, <1>9, <2>1 DEF Ends
  <2>4. <<o[a].n, o[b].n>> = <<o[c].n, Bot>>
    BY <1>5, <2>1, <2>2, <2>3
  <2> QED
    BY <1>4, <2>1, <2>4
<1> QED
  BY <1>7, <1>8, <1>9

\* Who has waited longer stands before.
LEMMA LongerIsBefore ==
    ASSUME queue \subseteq Entry, Apart(queue), NEW o \in Sorted,
           NEW a \in 1..Len(o), NEW b \in 1..Len(o), o[a].wait > o[b].wait
    PROVE  a < b
<1>1. o \in [1..Len(o) -> queue] /\ Len(o) \in Nat
  BY SortedListing DEF Listing
<1>2. \A i, j \in 1..Len(o) : i < j => o[i].wait >= o[j].wait
  BY <1>1 DEF Sorted
<1>3. o[a].wait \in Nat /\ o[b].wait \in Nat
  <2>1. o[a] \in queue /\ o[b] \in queue
    BY <1>1
  <2> QED
    BY <2>1, QueueAssumption DEF Entry, MaxWait
<1> QED
  BY <1>2, <1>3

\* A place that had been picked before the round of another
LEMMA PickedBefore ==
    ASSUME NEW o, NEW c \in 1..Len(o), NEW x \in 1..Len(o), Len(o) \in Nat, Picked(o, c, x, Pairs(o))
    PROVE  \E a \in 1..Len(o) : a < c /\ Paired(o, a, x)
<1>1. PICK a \in 1..c - 1 : <<o[a].n, o[x].n>> \in Pairs(o)
  BY DEF Picked
<1>2. a \in 1..Len(o) /\ a < c
  OBVIOUS
<1> QED
  BY <1>1, <1>2 DEF Paired

\* Who has no partner and has waited longer than the first of a pair fits neither of them.
LEMMA LeftFitNone ==
    ASSUME queue \subseteq Entry, Apart(queue), NEW o \in Sorted,
           NEW a, NEW b, Paired(o, a, b), NEW c, Without(o, c), o[c].wait > o[a].wait
    PROVE  ~Matchable(o[c], o[a]) /\ ~Matchable(o[c], o[b])
<1>1. Listing(o) /\ Len(o) \in Nat /\ a \in 1..Len(o) /\ b \in 1..Len(o) /\ c \in 1..Len(o)
  BY SortedListing DEF Paired, Without, Listing
<1>2. c < a /\ a < b
  BY <1>1, LongerIsBefore, PairsOfPlaces
<1>3. Fair(o, c, Pairs(o))
  BY <1>1, LoopInvariant
<1>4. ASSUME NEW x \in {a, b}, Matchable(o[c], o[x])
      PROVE  FALSE
  <2>1. x \in 1..Len(o) /\ x \in c+1..Len(o)
    BY <1>1, <1>2
  <2>2. \A d : ~Paired(o, d, c) /\ ~Paired(o, c, d)
    BY PairsOfPlaces
  <2>3. ~Picked(o, c, c, Pairs(o))
    BY <1>1, <2>2, PickedBefore
  <2>4. \A d \in c+1..Len(o) : <<o[c].n, o[d].n>> \notin Pairs(o)
    <3> SUFFICES ASSUME NEW d \in c+1..Len(o), <<o[c].n, o[d].n>> \in Pairs(o)
                 PROVE  FALSE
      OBVIOUS
    <3>1. d \in 1..Len(o)
      BY <1>1
    <3>2. Paired(o, c, d)
      BY <1>1, <3>1 DEF Paired
    <3> QED
      BY <2>2, <3>2
  <2>5. Picked(o, c, x, Pairs(o))
    BY <1>3, <1>4, <2>1, <2>3, <2>4, Zenon DEF Fair
  <2>6. PICK d \in 1..Len(o) : d < c /\ Paired(o, d, x)
    BY <1>1, <2>1, <2>5, PickedBefore
  <2>7. d = a
    BY <1>4, <2>6, PairsOfPlaces
  <2> QED
    BY <1>1, <1>2, <2>6, <2>7
<1> QED
  BY <1>4

\* Nobody is closer in rank to the first of a pair than the second, among those who have
\* waited less and are left, or were paired after them.
LEMMA NobodyIsCloser ==
    ASSUME queue \subseteq Entry, Apart(queue), NEW o \in Sorted,
           NEW a, NEW b, Paired(o, a, b), NEW x \in 1..Len(o), o[x].wait < o[a].wait,
           \/ Without(o, x)
           \/ \E c, d : Paired(o, c, d) /\ o[c].wait < o[a].wait /\ x \in {c, d},
           Matchable(o[a], o[x])
    PROVE  RankDiff(o[a], o[b]) <= RankDiff(o[a], o[x])
<1>1. Listing(o) /\ Len(o) \in Nat /\ a \in 1..Len(o) /\ b \in 1..Len(o)
  BY SortedListing DEF Paired, Listing
<1>2. \A e \in 1..Len(o) : o[e].wait \in Nat
  <2>1. \A e \in 1..Len(o) : o[e] \in queue
    BY <1>1 DEF Listing
  <2> QED
    BY <2>1, QueueAssumption DEF Entry, MaxWait
<1>3. \A e \in 1..Len(o) : o[e].wait < o[a].wait => a < e
  BY <1>1, <1>2, LongerIsBefore
<1>4. a < x /\ x \in a+1..Len(o)
  BY <1>1, <1>3
<1>5. ~Picked(o, a, x, Pairs(o))
  <2> SUFFICES ASSUME NEW e \in 1..Len(o), e < a, Paired(o, e, x)
               PROVE  FALSE
    BY <1>1, PickedBefore
  <2>1. ~Without(o, x)
    BY PairsOfPlaces
  <2>2. PICK c, d : Paired(o, c, d) /\ o[c].wait < o[a].wait /\ x \in {c, d}
    BY <2>1
  <2>3. c \in 1..Len(o) /\ a < c
    BY <1>3, <2>2 DEF Paired
  <2>4. e = c
    BY <2>2, PairsOfPlaces
  <2> QED
    BY <1>1, <2>3, <2>4
<1>6. ~Picked(o, a, a, Pairs(o))
  <2> SUFFICES ASSUME NEW e \in 1..Len(o), e < a, Paired(o, e, a)
               PROVE  FALSE
    BY <1>1, PickedBefore
  <2>1. e = a
    BY PairsOfPlaces
  <2> QED
    BY <1>1, <2>1
<1>7. Fair(o, a, Pairs(o))
  BY <1>1, LoopInvariant
<1>8. PICK c \in a+1..Len(o) : /\ <<o[a].n, o[c].n>> \in Pairs(o)
                               /\ RankDiff(o[a], o[c]) <= RankDiff(o[a], o[x])
  BY <1>4, <1>5, <1>6, <1>7, Zenon DEF Fair
<1>9. Paired(o, a, c)
  BY <1>1, <1>8 DEF Paired
<1>10. c = b
  BY <1>9, PairsOfPlaces
<1> QED
  BY <1>8, <1>10

\* The pairs that the script has just made, and those it left, as places of the list
LEMMA PlacesOfMade ==
    ASSUME queue \subseteq Entry, Apart(queue), NEW o \in Sorted,
           queue' = {e \in queue : \A m \in Pairs(o) : e.n # m[1] /\ e.n # m[2]},
           jobs' = jobs \cup {[first |-> m[1], second |-> m[2], game |-> Unnumbered] : m \in Pairs(o)}
    PROVE  /\ \A m \in MadePairs : \E a, b : Paired(o, a, b) /\ m = <<o[a], o[b]>>
           /\ \A e \in Left : \E c : Without(o, c) /\ e = o[c]
<1>1. Listing(o) /\ \A e \in queue : \E i \in 1..Len(o) : o[i] = e
  BY SortedListing
<1>2. \A m \in Pairs(o) : m = <<m[1], m[2]>> /\ m[1] \in Queued /\ m[2] \in Queued \cup {Bot}
  BY PairsFound
<1>3. ASSUME NEW n \in Queued
      PROVE  \E a \in 1..Len(o) : o[a].n = n /\ EntryOf(n) = o[a]
  <2>1. PICK e \in queue : e.n = n
    BY DEF Queued
  <2>2. \A d \in queue : d.n = n => d = e
    BY <2>1 DEF Apart
  <2>3. EntryOf(n) = e
    BY <2>1, <2>2 DEF EntryOf
  <2> QED
    BY <1>1, <2>1, <2>3
<1>4. ASSUME NEW j \in Made
      PROVE  \E m \in Pairs(o) : j.first = m[1] /\ j.second = m[2]
  BY DEF Made
<1>5. ASSUME NEW m \in MadePairs
      PROVE  \E a, b : Paired(o, a, b) /\ m = <<o[a], o[b]>>
  <2>1. PICK j \in Made : j.second # Bot /\ m = <<EntryOf(j.first), EntryOf(j.second)>>
    BY DEF MadePairs
  <2>2. PICK k \in Pairs(o) : j.first = k[1] /\ j.second = k[2]
    BY <1>4
  <2>3. k = <<k[1], k[2]>> /\ k[1] \in Queued /\ k[2] \in Queued
    BY <1>2, <2>1, <2>2
  <2>4. PICK a \in 1..Len(o) : o[a].n = k[1] /\ EntryOf(k[1]) = o[a]
    BY <1>3, <2>3
  <2>5. PICK b \in 1..Len(o) : o[b].n = k[2] /\ EntryOf(k[2]) = o[b]
    BY <1>3, <2>3
  <2> QED
    BY <2>1, <2>2, <2>3, <2>4, <2>5 DEF Paired
<1>6. ASSUME NEW e \in MadeAlone
      PROVE  \E c : Without(o, c) /\ e = o[c]
  <2>1. PICK j \in Made : j.second = Bot /\ e = EntryOf(j.first)
    BY DEF MadeAlone
  <2>2. PICK k \in Pairs(o) : j.first = k[1] /\ j.second = k[2]
    BY <1>4
  <2>3. k = <<k[1], Bot>> /\ k[1] \in Queued
    BY <1>2, <2>1, <2>2
  <2>4. PICK a \in 1..Len(o) : o[a].n = k[1] /\ EntryOf(k[1]) = o[a]
    BY <1>3, <2>3
  <2> QED
    BY <2>1, <2>2, <2>3, <2>4 DEF Without
<1>7. ASSUME NEW e \in queue'
      PROVE  \E c : Without(o, c) /\ e = o[c]
  BY <1>1 DEF Without
<1> QED
  BY <1>5, <1>6, <1>7 DEF Left

\* Whatever the queue and the order of those who came in the same second: of two players who
\* are matched neither fits someone who has waited longer and is left, or gets the bot, and
\* nobody gets an opponent further away in rank than one who came later and was free.
THEOREM OldestAreServedFirst == Spec => OldestFirst
<1>1. QueueInv /\ [Next]_vars
      => [Made # {} => \A m \in MadePairs : NobodyPassedOver(m) /\ NobodyCloser(m)]_vars
  <2> SUFFICES ASSUME QueueInv, Next, Made # {}, NEW m \in MadePairs
               PROVE  NobodyPassedOver(m) /\ NobodyCloser(m)
    BY DEF vars
  <2>1. PICK o \in Sorted :
           /\ queue' = {e \in queue : \A k \in Pairs(o) : e.n # k[1] /\ e.n # k[2]}
           /\ jobs' = jobs \cup {[first |-> k[1], second |-> k[2], game |-> Unnumbered] : k \in Pairs(o)}
    BY MadeByScript
  <2>2. queue \subseteq Entry /\ Apart(queue)
    BY DEF QueueInv, TypeOK
  <2>3. /\ \A k \in MadePairs : \E a, b : Paired(o, a, b) /\ k = <<o[a], o[b]>>
        /\ \A e \in Left : \E c : Without(o, c) /\ e = o[c]
    BY <2>1, <2>2, PlacesOfMade
  <2>4. PICK a, b : Paired(o, a, b) /\ m = <<o[a], o[b]>>
    BY <2>3
  <2>5. m[1] = o[a] /\ m[2] = o[b]
    BY <2>4
  <2>6. NobodyPassedOver(m)
    <3> SUFFICES ASSUME NEW e \in Left, e.wait > m[1].wait
                 PROVE  ~Matchable(e, m[1]) /\ ~Matchable(e, m[2])
      BY DEF NobodyPassedOver
    <3>1. PICK c : Without(o, c) /\ e = o[c]
      BY <2>3
    <3>2. o[c].wait > o[a].wait
      BY <2>5, <3>1
    <3>3. ~Matchable(o[c], o[a]) /\ ~Matchable(o[c], o[b])
      BY <2>2, <2>4, <3>1, <3>2, LeftFitNone
    <3> QED
      BY <2>5, <3>1, <3>3
  <2>7. NobodyCloser(m)
    <3> SUFFICES ASSUME NEW d, \/ d \in Left
                               \/ \E k \in MadePairs : k[1].wait < m[1].wait /\ d \in {k[1], k[2]},
                        d.wait < m[1].wait, Matchable(m[1], d)
                 PROVE  RankDiff(m[1], m[2]) <= RankDiff(m[1], d)
      BY DEF NobodyCloser
    <3>1. PICK x \in 1..Len(o) :
             /\ d = o[x]
             /\ \/ Without(o, x)
                \/ \E i, j : Paired(o, i, j) /\ o[i].wait < o[a].wait /\ x \in {i, j}
      <4>1. CASE d \in Left
        <5>1. PICK c : Without(o, c) /\ d = o[c]
          BY <2>3, <4>1
        <5> QED
          BY <5>1 DEF Without
      <4>2. CASE \E k \in MadePairs : k[1].wait < m[1].wait /\ d \in {k[1], k[2]}
        <5>1. PICK k \in MadePairs : k[1].wait < m[1].wait /\ d \in {k[1], k[2]}
          BY <4>2
        <5>2. PICK i, j : Paired(o, i, j) /\ k = <<o[i], o[j]>>
          BY <2>3
        <5>3. /\ o[i].wait < o[a].wait /\ (d = o[i] \/ d = o[j])
              /\ i \in 1..Len(o) /\ j \in 1..Len(o)
          BY <2>5, <5>1, <5>2 DEF Paired
        <5> QED
          BY <5>2, <5>3
      <4> QED
        BY <4>1, <4>2
    <3>2. o[x].wait < o[a].wait /\ Matchable(o[a], o[x])
      BY <2>5, <3>1
    <3>3. RankDiff(o[a], o[b]) <= RankDiff(o[a], o[x])
      BY <2>2, <2>4, <3>1, <3>2, NobodyIsCloser
    <3> QED
      BY <2>5, <3>1, <3>3
  <2> QED
    BY <2>6, <2>7
<1> QED
  BY <1>1, QueueInvariant, PTL DEF Spec, OldestFirst
=============================================================================
