------------------------- MODULE GameServer_proofs -------------------------
(***************************************************************************)
(* Proofs about GameServer for any number of games, players and crashes.   *)
(***************************************************************************)
EXTENDS GameServer, TLAPS

\* At work, so that its players are in no other game where OneEach holds
Busy(g) == stage[g] \notin Released

\* Rival games are not at work together.
Exclusive == OneEach => \A g \in Games : \A h \in Rivals(g) : ~Busy(g) \/ ~Busy(h)

\* A game is registered from its start until removeGame.
InDirectory == \A g \in Games : stage[g] \in Running \cup {"over"} => g \in games

\* What Stop has waited for is done and stays so: nothing is asked for any more.
Drained ==
    /\ stop \notin {"up", "lobbyClosed"} => \A g \in Games : stage[g] \notin Announcing
    /\ stop = "stopped" => GamesDone

\* A key names a game of its player.
KeyOwner == \A p \in Players : key[p] # NoGame => p \in Sides[key[p]]

ServerInv ==
    /\ TypeOK
    /\ Exclusive
    /\ InDirectory
    /\ Drained
    /\ KeyOwner
    /\ (OneEach => RejoinPossible)
    /\ NoKeyLeftBehind

LEMMA ServerInit == Init => ServerInv
BY ServerAssumption
DEF Init, ServerInv, TypeOK, Exclusive, Busy, Released, InDirectory, Running, Drained,
    KeyOwner, RejoinPossible, NoKeyLeftBehind, Stage

\* Every step keeps the types.
LEMMA TypeStep == TypeOK /\ [Next]_serverVars => TypeOK'
<1> SUFFICES ASSUME TypeOK, [Next]_serverVars PROVE TypeOK'
  OBVIOUS
<1> USE ServerAssumption DEF TypeOK
<1>1. ASSUME NEW g \in Games, Ask(g) \/ Proceed(g) PROVE TypeOK'
  <2>1. CASE Publish(g)
    <3>1. topic' \in Seq(Games)
      BY <2>1 DEF Publish
    <3> QED
      BY <2>1, <3>1 DEF Publish, Advance, Stage
  <2>2. CASE ~Publish(g)
    BY <1>1, <2>2 DEF Ask, Proceed, Register, Record, GameOver, Forget, Clear, SaveResult,
       Advance, Recorded, Cleared, Stage
  <2> QED
    BY <2>1, <2>2
<1>2. CASE StopLobby \/ StopClients \/ Stopped
  BY <1>2 DEF StopLobby, StopClients, LobbyDone, Stopped
<1>3. CASE Crash
  BY <1>3 DEF Crash, Stage
<1>4. CASE Received
  <2>1. topic' \in Seq(Games)
    BY <1>4 DEF Received
  <2> QED BY <1>4, <2>1 DEF Received
<1>5. CASE UNCHANGED serverVars
  BY <1>5 DEF serverVars
<1> QED BY <1>1, <1>2, <1>3, <1>4, <1>5 DEF Next, ServerNext

\* A game that moves on: only its own stage changes.
LEMMA StageMoves ==
    ASSUME TypeOK, NEW g \in Games, Ask(g) \/ Proceed(g)
    PROVE  \A h \in Games : h # g => stage'[h] = stage[h]
BY DEF TypeOK, Ask, Proceed, Register, Record, Publish, GameOver, Forget, Clear, SaveResult,
   Advance

LEMMA ExclusiveStep == TypeOK /\ Exclusive /\ [Next]_serverVars => Exclusive'
<1> SUFFICES ASSUME TypeOK, Exclusive, [Next]_serverVars PROVE Exclusive'
  OBVIOUS
<1>1. ASSUME NEW g \in Games, Ask(g) PROVE Exclusive'
  BY <1>1, StageMoves DEF TypeOK, Ask, Advance, Exclusive, Busy, Rivals
<1>2. ASSUME NEW g \in Games, Proceed(g) PROVE Exclusive'
  <2>1. Busy(g) \/ ~Busy(g)'
    BY <1>2 DEF TypeOK, Busy, Released, Proceed, Register, Record, Publish, GameOver, Forget,
       Clear, SaveResult, Advance
  <2> QED BY <1>2, <2>1, StageMoves DEF Exclusive, Busy, Rivals
<1>3. CASE Crash
  BY <1>3 DEF Crash, TypeOK, Exclusive, Busy, Rivals, Released, Announcing, Running, Ending
<1>4. CASE StopLobby \/ StopClients \/ Stopped \/ Received \/ UNCHANGED serverVars
  BY <1>4 DEF StopLobby, StopClients, Stopped, Received, serverVars, Exclusive, Busy, Rivals
<1> QED BY <1>1, <1>2, <1>3, <1>4 DEF Next, ServerNext

LEMMA DirectoryStep ==
    TypeOK /\ InDirectory /\ Drained /\ [Next]_serverVars => InDirectory' /\ Drained'
<1> SUFFICES ASSUME TypeOK, InDirectory, Drained, [Next]_serverVars
             PROVE  InDirectory' /\ Drained'
  OBVIOUS
<1> USE DEF TypeOK, InDirectory, Drained, GamesDone, Announcing, Running, Ending
<1>1. ASSUME NEW g \in Games, Ask(g) PROVE InDirectory' /\ Drained'
  BY <1>1 DEF Ask, Advance
<1>2. ASSUME NEW g \in Games, Register(g) \/ Record(g) \/ Publish(g)
      PROVE  InDirectory' /\ Drained'
  BY <1>2 DEF Register, Record, Publish, Advance
<1>3. ASSUME NEW g \in Games, GameOver(g) \/ Forget(g) \/ Clear(g) \/ SaveResult(g)
      PROVE  InDirectory' /\ Drained'
  BY <1>3 DEF GameOver, Forget, Clear, SaveResult, Advance
<1>4. CASE StopLobby \/ StopClients \/ Stopped
  BY <1>4 DEF StopLobby, StopClients, LobbyDone, Stopped
<1>5. CASE Crash
  BY <1>5 DEF Crash
<1>6. CASE Received \/ UNCHANGED serverVars
  BY <1>6 DEF Received, serverVars
<1> QED BY <1>1, <1>2, <1>3, <1>4, <1>5, <1>6 DEF Next, ServerNext, Proceed

\* The keys: with OneEach, the game whose keys are written or deleted has no rival that
\* runs; and only the keys of its own players are touched.
LEMMA KeyStep == ServerInv /\ [Next]_serverVars
                 => KeyOwner' /\ (OneEach => RejoinPossible)' /\ NoKeyLeftBehind'
<1> SUFFICES ASSUME ServerInv, [Next]_serverVars
             PROVE  KeyOwner' /\ (OneEach => RejoinPossible)' /\ NoKeyLeftBehind'
  OBVIOUS
<1>0. /\ TypeOK /\ TypeOK' /\ KeyOwner /\ NoKeyLeftBehind /\ Exclusive
      /\ (OneEach => RejoinPossible) /\ InDirectory /\ InDirectory'
      /\ NoGame \notin Games /\ \A g \in Games : Sides[g] \subseteq Players
  BY TypeStep, DirectoryStep, ServerAssumption DEF ServerInv
<1>1. ASSUME NEW g \in Games, NEW h \in Games, h # g, OneEach, Busy(g),
             stage[h] \in {"recorded", "announced"}
      PROVE  Sides[g] \cap Sides[h] = {}
  BY <1>0, <1>1 DEF Exclusive, Busy, Released, Rivals
<1>2. ASSUME NEW g \in Games, Record(g)
      PROVE  KeyOwner' /\ (OneEach => RejoinPossible)' /\ NoKeyLeftBehind'
  <2>1. /\ stage[g] = "registered" /\ stage'[g] = "recorded" /\ games' = games
        /\ \A h \in Games : h # g => stage'[h] = stage[h]
        /\ \A p \in Players : key'[p] = IF p \in Sides[g] THEN g ELSE key[p]
    BY <1>0, <1>2 DEF Record, Advance, Recorded, TypeOK
  <2>2. Busy(g)
    BY <2>1 DEF Busy, Released
  <2>3. KeyOwner' /\ NoKeyLeftBehind'
    BY <1>0, <2>1 DEF KeyOwner, NoKeyLeftBehind, TypeOK
  <2>4. ASSUME OneEach, NEW h \in Games, NEW p \in Sides[h], stage'[h] \in {"recorded", "announced"}
        PROVE  key'[p] = h /\ h \in games'
    <3>1. CASE h = g
      BY <1>0, <2>1, <3>1 DEF InDirectory, Running
    <3>2. CASE h # g
      BY <1>0, <1>1, <2>1, <2>2, <2>4, <3>2 DEF RejoinPossible
    <3> QED BY <3>1, <3>2
  <2> QED BY <2>3, <2>4 DEF RejoinPossible
<1>3. ASSUME NEW g \in Games, Clear(g)
      PROVE  KeyOwner' /\ (OneEach => RejoinPossible)' /\ NoKeyLeftBehind'
  <2>1. /\ stage[g] = "forgotten" /\ stage'[g] = "cleared" /\ games' = games
        /\ \A h \in Games : h # g => stage'[h] = stage[h]
        /\ \A p \in Players : key'[p] = IF p \in Sides[g] THEN NoGame ELSE key[p]
    BY <1>0, <1>3 DEF Clear, Advance, Cleared, TypeOK
  <2>2. Busy(g)
    BY <2>1 DEF Busy, Released
  <2>3. KeyOwner' /\ NoKeyLeftBehind'
    BY <1>0, <2>1 DEF KeyOwner, NoKeyLeftBehind, TypeOK
  <2>4. ASSUME OneEach, NEW h \in Games, NEW p \in Sides[h], stage'[h] \in {"recorded", "announced"}
        PROVE  key'[p] = h /\ h \in games'
    BY <1>0, <1>1, <2>1, <2>2, <2>4 DEF RejoinPossible
  <2> QED BY <2>3, <2>4 DEF RejoinPossible
<1>4. ASSUME NEW g \in Games,
             \/ Ask(g) \/ Register(g) \/ Publish(g)
             \/ GameOver(g) \/ Forget(g) \/ SaveResult(g)
      PROVE  KeyOwner' /\ (OneEach => RejoinPossible)' /\ NoKeyLeftBehind'
  <2>1. /\ key' = key
        /\ \A h \in Games : h # g => stage'[h] = stage[h]
        /\ \A h \in Games : h # g => (h \in games' <=> h \in games)
    BY <1>0, <1>4 DEF Ask, Register, Publish, GameOver, Forget, SaveResult, Advance, TypeOK
  <2>2. /\ stage'[g] \in {"recorded", "announced"} =>
              stage[g] \in {"recorded", "announced"}
        /\ stage[g] \in {"recorded", "announced", "over", "forgotten", "lost"} =>
              stage'[g] \in {"recorded", "announced", "over", "forgotten", "lost"}
    BY <1>0, <1>4 DEF Ask, Register, Publish, GameOver, Forget, SaveResult, Advance, TypeOK
  <2>3. KeyOwner' /\ NoKeyLeftBehind'
    BY <1>0, <2>1, <2>2 DEF KeyOwner, NoKeyLeftBehind, TypeOK
  <2>4. ASSUME NEW h \in Games, stage'[h] \in {"recorded", "announced"}
        PROVE  h \in games' /\ stage[h] \in {"recorded", "announced"}
    BY <1>0, <2>1, <2>2, <2>4 DEF InDirectory, Running
  <2>5. (OneEach => RejoinPossible)'
    BY <1>0, <2>1, <2>4 DEF RejoinPossible
  <2> QED BY <2>3, <2>5
<1>5. CASE Crash
  <2>1. /\ key' = key
        /\ \A h \in Games : stage'[h] \notin {"recorded", "announced"}
        /\ \A h \in Games : stage[h] \in {"recorded", "announced", "over", "forgotten", "lost"}
                            => stage'[h] = "lost"
    BY <1>0, <1>5 DEF Crash, TypeOK, Announcing, Running, Ending
  <2> QED BY <1>0, <2>1 DEF KeyOwner, NoKeyLeftBehind, RejoinPossible, TypeOK
<1>6. CASE StopLobby \/ StopClients \/ Stopped \/ Received \/ UNCHANGED serverVars
  <2>1. UNCHANGED <<stage, games, key>>
    BY <1>6 DEF StopLobby, StopClients, Stopped, Received, serverVars
  <2> QED BY <1>0, <2>1 DEF KeyOwner, NoKeyLeftBehind, RejoinPossible
<1> QED BY <1>2, <1>3, <1>4, <1>5, <1>6 DEF Next, ServerNext, Proceed

\* The inductive invariant of the rooms.
THEOREM ServerInvariant == Spec => []ServerInv
<1>1. ServerInv /\ [Next]_serverVars => ServerInv'
  BY TypeStep, ExclusiveStep, DirectoryStep, KeyStep DEF ServerInv
<1> QED BY ServerInit, <1>1, PTL DEF Spec

\* The variables keep their types.
THEOREM ServerTypes == Spec => []TypeOK
BY ServerInvariant, PTL DEF ServerInv

\* If no player is in two games at once, the key of a player in a running game leads
\* there, also after crashes (runGame, removeGame).
THEOREM Rejoin == OneEach /\ Spec => []RejoinPossible
<1> SUFFICES ASSUME OneEach PROVE Spec => []RejoinPossible
  OBVIOUS
<1>1. ServerInv => RejoinPossible
  BY DEF ServerInv
<1> QED BY ServerInvariant, <1>1, PTL

\* Keys never outlive a game that the server could end itself (removeGame).
THEOREM KeysEnd == Spec => []NoKeyLeftBehind
BY ServerInvariant, PTL DEF ServerInv

\* Stop leaves no game running and no result unsaved, whenever games are asked for
\* (the order of the wait groups in Stop).
THEOREM StopComplete == Spec => []StopLeavesNothing
<1>1. ServerInv => StopLeavesNothing
  <2> SUFFICES ASSUME ServerInv, stop = "stopped", NEW g \in Games
               PROVE  stage[g] \in {"none", "saved", "lost"}
    BY DEF StopLeavesNothing
  <2> QED BY DEF ServerInv, TypeOK, Drained, GamesDone, Stage, Announcing, Running, Ending
<1> QED BY ServerInvariant, <1>1, PTL
=============================================================================
