---------------------------- MODULE GameServer ----------------------------
(***************************************************************************)
(* The rooms of the game server (pkg/game/server.go): how a game that the  *)
(* matchmaker asks for is started, made known to its players through redis,*)
(* and taken down, and how the server stops.                               *)
(*                                                                         *)
(* A game is handled by two goroutines.  The one of the lobby connection   *)
(* registers the game, writes "<player>:game" for reconnecting players and *)
(* publishes the game to the notifier; the other one runs the game, then   *)
(* removes it and its keys and saves the result.  A game lasts minutes and *)
(* the three redis commands of the first take milliseconds, so the game is *)
(* over only after they are done.  What happens inside a game is           *)
(* GameSession.                                                            *)
(***************************************************************************)
EXTENDS Naturals, Sequences

CONSTANTS
    Players,    \* ids of people; the bot never connects and its key is never read
    Games,      \* the configurations the matchmaker sends, one for each game id
    NoGame,     \* a key that does not exist
    Sides,      \* the players of each game
    OneEach,    \* a player is in one game at a time: nothing in the code sees to it
    MaxCrashes  \* bound: crashes of the game server

ASSUME ServerAssumption ==
    /\ NoGame \notin Games
    /\ Sides \in [Games -> SUBSET Players]
    /\ OneEach \in BOOLEAN
    /\ MaxCrashes \in Nat

VARIABLES
    stage,      \* how far the two goroutines of each game are
    games,      \* server.games
    key,        \* the redis keys <player>:game
    topic,      \* games published to "match" that are on their way to the notifier
    stop,       \* how far server.Stop is
    crashes     \* number of crashes so far

serverVars == <<stage, games, key, topic, stop, crashes>>

\* "asked": the lobby connection is accepted and its packet is read.
Stage == {"none", "asked", "registered", "recorded", "announced",
          "over", "forgotten", "cleared", "saved", "lost"}

\* The goroutine of the lobby connection is at work; so is that of the game; it is
\* past Run.
Announcing == {"asked", "registered", "recorded"}
Running == {"registered", "recorded", "announced"}
Ending == {"over", "forgotten", "cleared"}

Init ==
    /\ stage = [g \in Games |-> "none"]
    /\ games = {}
    /\ key = [p \in Players |-> NoGame]
    /\ topic = <<>>
    /\ stop = "up"
    /\ crashes = 0

----------------------------------------------------------------------------
Advance(g, from, to) ==
    /\ stage[g] = from
    /\ stage' = [stage EXCEPT ![g] = to]

\* Games whose players g would take away
Rivals(g) == {h \in Games : h # g /\ Sides[h] \cap Sides[g] # {}}

\* A game of these stages no longer keeps its players from another one.
Released == {"none", "cleared", "saved", "lost"}

\* The goroutine of a lobby connection: the listener accepts it and it reads the
\* configuration.  OneEach: the players ask for a match only outside of a game.
Ask(g) ==
    /\ stop = "up"
    /\ OneEach => \A h \in Rivals(g) : stage[h] \in Released
    /\ Advance(g, "none", "asked")
    /\ UNCHANGED <<games, key, topic, stop, crashes>>

\* runGame: NewGame, the goroutine of the game is started and the game registered.
Register(g) ==
    /\ Advance(g, "asked", "registered")
    /\ games' = games \cup {g}
    /\ UNCHANGED <<key, topic, stop, crashes>>

\* Faulty variant: only one of the two keys is written.
RecordedForOne(g) ==
    [p \in Players |-> IF Sides[g] # {} /\ p = CHOOSE q \in Sides[g] : TRUE THEN g ELSE key[p]]

\* The keys once the configuration is written to those of both players.
Recorded(g) == [p \in Players |-> IF p \in Sides[g] THEN g ELSE key[p]]

\* MSET
Record(g) ==
    /\ Advance(g, "registered", "recorded")
    /\ key' = Recorded(g)
    /\ UNCHANGED <<games, topic, stop, crashes>>

\* PUBLISH: whether the notifier is subscribed or not, in which case redis drops the game
Publish(g) ==
    /\ Advance(g, "recorded", "announced")
    /\ topic' \in {topic, Append(topic, g)}
    /\ UNCHANGED <<games, key, stop, crashes>>

\* game.Run returns.
GameOver(g) ==
    /\ Advance(g, "announced", "over")
    /\ UNCHANGED <<games, key, topic, stop, crashes>>

\* removeGame, first half: joins of this game are refused from now on.
Forget(g) ==
    /\ Advance(g, "over", "forgotten")
    /\ games' = games \ {g}
    /\ UNCHANGED <<key, topic, stop, crashes>>

\* Faulty variant: only one of the two keys is deleted.
ClearedForOne(g) ==
    [p \in Players |-> IF Sides[g] # {} /\ p = CHOOSE q \in Sides[g] : TRUE THEN NoGame ELSE key[p]]

\* The keys once those of both players are deleted, whatever they hold.
Cleared(g) == [p \in Players |-> IF p \in Sides[g] THEN NoGame ELSE key[p]]

\* removeGame, second half: DEL
Clear(g) ==
    /\ Advance(g, "forgotten", "cleared")
    /\ key' = Cleared(g)
    /\ UNCHANGED <<games, topic, stop, crashes>>

\* saveResult: the replay and the outcome are in redis (see Account).
SaveResult(g) ==
    /\ Advance(g, "cleared", "saved")
    /\ UNCHANGED <<games, key, topic, stop, crashes>>

----------------------------------------------------------------------------
\* Stop: the listener of the lobby is closed ...
StopLobby ==
    /\ stop = "up"
    /\ stop' = "lobbyClosed"
    /\ UNCHANGED <<stage, games, key, topic, crashes>>

\* Faulty variant: the lobby connections are not waited for.
LobbyUnwaited == stop = "lobbyClosed"

\* ... the goroutines of its connections are waited for (lwg) ...
LobbyDone == stop = "lobbyClosed" /\ \A g \in Games : stage[g] \notin Announcing

StopClients ==
    /\ LobbyDone
    /\ stop' = "lobbyDrained"
    /\ UNCHANGED <<stage, games, key, topic, crashes>>

\* ... and then those of the clients (cwg, see GameSession) and of the games (gwg).
\* The game is counted before its goroutine starts.
GamesDone == \A g \in Games : stage[g] \notin Running \cup Ending

Stopped ==
    /\ stop = "lobbyDrained" /\ GamesDone
    /\ stop' = "stopped"
    /\ UNCHANGED <<stage, games, key, topic, crashes>>

\* The process dies, by a panic or a signal it does not handle, and is started
\* again: the games are gone and their keys stay.
Crash ==
    /\ crashes < MaxCrashes /\ stop # "stopped"
    /\ crashes' = crashes + 1
    /\ stage' = [g \in Games |->
                   IF stage[g] \in Announcing \cup Running \cup Ending THEN "lost" ELSE stage[g]]
    /\ games' = {}
    /\ stop' = "up"
    /\ UNCHANGED <<key, topic>>

----------------------------------------------------------------------------
\* What the goroutines of the server do on their own
Proceed(g) ==
    \/ Register(g) \/ Record(g) \/ Publish(g)
    \/ GameOver(g) \/ Forget(g) \/ Clear(g) \/ SaveResult(g)

ServerNext ==
    \/ \E g \in Games : Ask(g) \/ Proceed(g)
    \/ StopLobby \/ StopClients \/ Stopped \/ Crash

\* The subscriber of the notifier, which is all that is needed of it here
Received ==
    /\ topic # <<>>
    /\ topic' = Tail(topic)
    /\ UNCHANGED <<stage, games, key, stop, crashes>>

Next == ServerNext \/ Received

Spec == Init /\ [][Next]_serverVars

----------------------------------------------------------------------------
\* Types of all variables.
TypeOK ==
    /\ stage \in [Games -> Stage]
    /\ games \in SUBSET Games
    /\ key \in [Players -> Games \cup {NoGame}]
    /\ topic \in Seq(Games)
    /\ stop \in {"up", "lobbyClosed", "lobbyDrained", "stopped"}
    /\ crashes \in 0..MaxCrashes

\* "record game config for reconnect" (server.go:218): while a game runs, the keys of
\* its players lead them back to it, also after the server has crashed.
RejoinPossible ==
    \A g \in Games : \A p \in Sides[g] :
        stage[g] \in {"recorded", "announced"} => key[p] = g /\ g \in games

\* The same where a player can be in two games at once, as match.request allows: no
\* goroutine takes away the key of a game that still runs.
RunningKeyKept ==
    [][\A p \in Players :
          key[p] # NoGame /\ key'[p] = NoGame
              => stage[key[p]] \notin {"recorded", "announced"}]_serverVars

\* "delete game config to prevent reconnect" (server.go:349): no key names a game whose
\* goroutine has ended, unless the server crashed during that game.
NoKeyLeftBehind ==
    \A p \in Players :
        key[p] # NoGame => stage[key[p]] \in {"recorded", "announced", "over", "forgotten", "lost"}

\* "prevent game creation", "wait running games" (server.go:166, 178): when Stop has
\* returned, no game runs or is still to be created, and every result is saved.
StopLeavesNothing ==
    stop = "stopped" => \A g \in Games : stage[g] \in {"none", "saved", "lost"}
=============================================================================
