----------------------------- MODULE Notifier -----------------------------
(***************************************************************************)
(* The notifier (cmd/notifier/main.go): it keeps a connection to every     *)
(* player outside of a match and tells the player about a game, either the *)
(* one recorded in redis when the player connects, or a game the game      *)
(* server (GameServer) publishes meanwhile.                                *)
(*                                                                         *)
(* One goroutine serves each connection, one receives the published games, *)
(* and the main goroutine stops them.  They share the map clients, guarded *)
(* by a mutex, and the read deadlines of the connections, which are not.   *)
(* Connections are served before the subscription is in effect, and what   *)
(* is published without a subscriber is lost.                              *)
(***************************************************************************)
EXTENDS Naturals, Sequences

CONSTANTS
    Conns,      \* connections to the notifier
    NoConn,     \* the nil connection of a player who is not connected
    NoPlayer,   \* the user of a connection that has not authenticated
    \* the constants of GameServer
    Players, Games, NoGame, Sides, OneEach, MaxCrashes

VARIABLES
    stage, games, key, topic, stop, crashes,    \* those of GameServer
    at,         \* where the goroutine of each connection stands
    user,       \* the id each connection has authenticated as
    expired,    \* the read deadline of the connection has passed
    clients,    \* the map clients
    told,       \* history: the games each open connection was told about
    subscribed, \* the subscription to "match" is in effect
    mail,       \* the published game the subscriber is passing on
    missed,     \* history: the games redis kept from each open connection
    main        \* how far the main goroutine is

Server == INSTANCE GameServer

ASSUME NotifierAssumption ==
    /\ NoConn \notin Conns /\ NoPlayer \notin Players
    /\ Server!ServerAssumption

serverVars == <<stage, games, key, topic, stop, crashes>>
connVars == <<at, user, expired, told, missed>>
vars == <<stage, games, key, topic, stop, crashes, at, user, expired, clients, told,
          missed, subscribed, mail, main>>

Init ==
    /\ Server!Init
    /\ at = [c \in Conns |-> "none"]
    /\ user = [c \in Conns |-> NoPlayer]
    /\ expired = [c \in Conns |-> FALSE]
    /\ clients = [p \in Players |-> NoConn]
    /\ told = [c \in Conns |-> {}]
    /\ missed = [c \in Conns |-> {}]
    /\ subscribed = FALSE
    /\ mail = [game |-> NoGame, todo |-> {}, conn |-> NoConn]
    /\ main = "serving"

----------------------------------------------------------------------------
\* The goroutine of a connection

Step(c, from, to) == at[c] = from /\ at' = [at EXCEPT ![c] = to]

Accept(c) ==
    /\ main = "serving"
    /\ Step(c, "none", "auth")
    /\ UNCHANGED <<user, expired, told, missed, clients, subscribed, mail, main, serverVars>>

\* The first line is wrong or late.
AuthFails(c) ==
    /\ Step(c, "auth", "closed")
    /\ UNCHANGED <<user, expired, told, missed, clients, subscribed, mail, main, serverVars>>

\* The connection takes the place of the one the player had, whose read is cut short.
Auth(c) ==
    /\ Step(c, "auth", "check")
    /\ \E p \in Players :
          /\ user' = [user EXCEPT ![c] = p]
          /\ expired' = [d \in Conns |-> expired[d] \/ d = clients[p]]
          /\ clients' = [clients EXCEPT ![p] = c]
    /\ UNCHANGED <<told, missed, subscribed, mail, main, serverVars>>

\* Faulty variant: a game recorded before the player connected is not looked up.
NothingRecorded(c) == {}

\* The game recorded for the player of the connection, if there is one
RecordedGame(c) == {key[user[c]]} \ {NoGame}

\* The games of the player of the connection that have been published and still run
PublishedGames(c) == {g \in Games : stage[g] = "announced" /\ user[c] \in Sides[g]}

\* checkAndSendGameConfig: PrevGameExists.  The error of GET is ignored: the connection goes
\* on as if nothing were recorded, which differs only if something is.
Check(c) ==
    /\ Step(c, "check", "arm")
    /\ \E found \in {RecordedGame(c), {}} :
          /\ told' = [told EXCEPT ![c] = @ \cup found]
          /\ missed' = IF found = RecordedGame(c) THEN missed
                       ELSE [missed EXCEPT ![c] = PublishedGames(c)]
    /\ UNCHANGED <<user, expired, clients, subscribed, mail, main, serverVars>>

\* The deadline of the next read, a minute from now, replaces whatever was set.
Arm(c) ==
    /\ Step(c, "arm", "read")
    /\ expired' = [expired EXCEPT ![c] = FALSE]
    /\ UNCHANGED <<user, told, missed, clients, subscribed, mail, main, serverVars>>

\* A line was read.  (One that the reader had buffered when the deadline passed might
\* as well have been read just before it.)
Heartbeat(c) ==
    /\ ~expired[c]
    /\ Step(c, "read", "arm")
    /\ UNCHANGED <<user, expired, told, missed, clients, subscribed, mail, main, serverVars>>

\* The deadline has passed, by itself or because it was moved, or the connection is
\* broken.
ReadFails(c) ==
    /\ Step(c, "read", "failed")
    /\ UNCHANGED <<user, expired, told, missed, clients, subscribed, mail, main, serverVars>>

\* Faulty variant: the map keeps the connection.
KeptOnError(c) == clients

\* The entry of the player is deleted, also if it is another connection by now.
Unregistered(c) == [clients EXCEPT ![user[c]] = NoConn]

Close(c) ==
    /\ Step(c, "failed", "closed")
    /\ clients' = Unregistered(c)
    /\ told' = [told EXCEPT ![c] = {}]
    /\ missed' = [missed EXCEPT ![c] = {}]
    /\ UNCHANGED <<user, expired, subscribed, mail, main, serverVars>>

----------------------------------------------------------------------------
\* The goroutine of the subscriber

\* psc.Subscribe takes effect, at any time after connections are accepted.  Once main has
\* unsubscribed, a subscription is of no use: the goroutine ends.
Subscribe ==
    /\ ~subscribed /\ main \in {"serving", "deaf"}
    /\ subscribed' = TRUE
    /\ UNCHANGED <<connVars, clients, mail, main, serverVars>>

\* Once main has unsubscribed ("waiting"), what is still on its way may come or not.
Receive ==
    /\ mail.todo = {} /\ topic # <<>>
    /\ main # "exited"
    /\ mail' = [game |-> Head(topic), todo |-> Sides[Head(topic)], conn |-> NoConn]
    /\ topic' = Tail(topic)
    /\ UNCHANGED <<stage, games, key, stop, crashes, connVars, clients, subscribed, main>>

\* Players still to be told once p was looked up
TodoAfter(p) == IF clients[p] = NoConn THEN mail.todo \ {p} ELSE mail.todo

\* The connection of one player is looked up under the lock ...
LookUp(p) ==
    /\ p \in mail.todo /\ mail.conn = NoConn
    /\ mail' = [mail EXCEPT !.conn = clients[p], !.todo = TodoAfter(p)]
    /\ UNCHANGED <<connVars, clients, subscribed, main, serverVars>>

\* ... and written to without it: GameCreated.  A closed connection is no harm.
Tell ==
    /\ mail.conn # NoConn
    /\ told' = [c \in Conns |-> IF c = mail.conn /\ at[c] # "closed"
                                THEN told[c] \cup {mail.game} ELSE told[c]]
    /\ mail' = [mail EXCEPT !.conn = NoConn, !.todo = @ \ {user[mail.conn]}]
    /\ UNCHANGED <<at, user, expired, missed, clients, subscribed, main, serverVars>>

----------------------------------------------------------------------------
\* The main goroutine, after the signal

StopListening ==
    /\ main = "serving" /\ main' = "deaf"
    /\ UNCHANGED <<connVars, clients, subscribed, mail, serverVars>>

\* "stop all clients": the reads of all connections in the map are cut short; then the
\* subscriber is unsubscribed.
StopClients ==
    /\ main = "deaf" /\ main' = "waiting"
    /\ expired' = [c \in Conns |-> expired[c] \/ \E p \in Players : clients[p] = c]
    /\ UNCHANGED <<at, user, told, missed, clients, subscribed, mail, serverVars>>

\* wg.Wait, and the subscriber has seen that it is unsubscribed.
Exit ==
    /\ main = "waiting" /\ main' = "exited"
    /\ \A c \in Conns : at[c] \in {"none", "closed"}
    /\ mail.todo = {}
    /\ UNCHANGED <<connVars, clients, subscribed, mail, serverVars>>

----------------------------------------------------------------------------
Read(c) == Heartbeat(c) \/ ReadFails(c)
Proceed(c) == AuthFails(c) \/ Auth(c) \/ Check(c) \/ Arm(c) \/ Close(c)
Subscriber == Subscribe \/ Receive \/ Tell \/ \E p \in Players : LookUp(p)

\* The game server at work.  Its shutdown only keeps it from being asked for games.
GameServing == (\E g \in Games : Server!Ask(g) \/ Server!Proceed(g)) \/ Server!Crash

\* What the game server publishes now
Publishing == {g \in Games : stage[g] # "announced" /\ stage'[g] = "announced"}

\* redis passes a game on to the notifier if it has subscribed.  If not, it drops the game,
\* and connections that have looked up their key before do not learn of it.
Deliver ==
    /\ \A g \in Publishing : topic' = IF subscribed THEN Append(topic, g) ELSE topic
    /\ missed' = [c \in Conns |->
          IF subscribed \/ at[c] \notin {"arm", "read", "failed"} THEN missed[c]
          ELSE missed[c] \cup {g \in Publishing : user[c] \in Sides[g]}]

Next ==
    \/ \E c \in Conns : Accept(c) \/ Proceed(c) \/ Read(c)
    \/ Subscriber
    \/ StopListening \/ StopClients \/ Exit
    \/ /\ GameServing /\ Deliver
       /\ UNCHANGED <<at, user, expired, told, clients, subscribed, mail, main>>

Spec == Init /\ [][Next]_vars

\* Every goroutine proceeds; a read ends by a line, an error or its deadline.  Whether
\* a line or an error comes is up to the remote end, and so is the signal.
Fairness ==
    /\ \A c \in Conns : WF_vars(Proceed(c)) /\ WF_vars(Read(c))
    /\ WF_vars(Subscriber) /\ WF_vars(StopClients) /\ WF_vars(Exit)

FairSpec == Spec /\ Fairness

----------------------------------------------------------------------------
\* Types of the notifier's variables.
TypeOK ==
    /\ at \in [Conns -> {"none", "auth", "check", "arm", "read", "failed", "closed"}]
    /\ user \in [Conns -> Players \cup {NoPlayer}]
    /\ expired \in [Conns -> BOOLEAN]
    /\ clients \in [Players -> Conns \cup {NoConn}]
    /\ told \in [Conns -> SUBSET Games]
    /\ mail \in [game : Games \cup {NoGame}, todo : SUBSET Players, conn : Conns \cup {NoConn}]
    /\ main \in {"serving", "deaf", "waiting", "exited"}
    /\ missed \in [Conns -> SUBSET Games] /\ subscribed \in BOOLEAN

\* The connection a player has in the map is one that authenticated as that player and
\* is not closed, although each of several connections of the player deletes the entry.
RegisteredOpen ==
    \A p \in Players :
        clients[p] # NoConn =>
            /\ user[clients[p]] = p
            /\ at[clients[p]] \in {"check", "arm", "read", "failed"}

\* The subscriber still has to pass game g on to p.
OnItsWay(g, p) ==
    \/ \E i \in DOMAIN topic : topic[i] = g
    \/ mail.game = g /\ p \in mail.todo

\* Until it shuts down, no player misses a game, but for two reasons: a connection that is in
\* the map and past the look-up has been told, or is about to be, about the game the player is
\* in, unless that game was published after the look-up and before the notifier subscribed, or
\* before the look-up and GET failed.  A game that is created while the player connects is
\* otherwise found in redis or passed on by the subscriber, because the keys are written before
\* the game is published and the connection is registered before the keys are read.
NoMissedGame ==
    main \in {"serving", "deaf"} => \A p \in Players, g \in Games :
        /\ clients[p] # NoConn /\ at[clients[p]] \in {"arm", "read", "failed"}
        /\ p \in Sides[g] /\ stage[g] = "announced"
        => g \in told[clients[p]] \/ OnItsWay(g, p) \/ g \in missed[clients[p]]

\* "stop all clients" (main.go:178): after the signal every connection is closed.
StopsAllClients == (main = "waiting") ~> (main = "exited")
=============================================================================
