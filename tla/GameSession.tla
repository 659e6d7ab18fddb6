---------------------------- MODULE GameSession ----------------------------
(***************************************************************************)
(* One running match of the game server: the goroutine of game.Run         *)
(* (pkg/game/game.go) and the goroutines of the TCP clients attached to it *)
(* (pkg/game/client.go).                                                   *)
(*                                                                         *)
(* The two sides meet on unbuffered channels.  A client sends a request on *)
(* joinc, leavec or applyc, the game handles it and answers on a reply     *)
(* channel (joined, left, applied) that ALL clients share.  The game also  *)
(* writes to the clients' connections and "stops" a client by moving the   *)
(* read deadline of its connection into the past, while the client's own   *)
(* goroutine sets the same deadline.                                       *)
(*                                                                         *)
(* A handler of the game touches only the game's own state and the         *)
(* deadlines of the connections, so each is one action: whatever another   *)
(* goroutine does meanwhile can be moved before or after it.  What the     *)
(* actions do to the battlefield is left out: an update accepts some of    *)
(* the actions of its step and may end the game.                           *)
(***************************************************************************)
EXTENDS Naturals, Sequences

CONSTANTS
    Clients,    \* the connections accepted by the server
    Players,    \* ids of the players in the configuration of the game
    Strangers,  \* ids that authenticate but are not in this game
    NoClient,   \* the nil Client
    NoId,       \* the id of a client that has not authenticated
    MaxStep,    \* bound: the game is over at this step at the latest
    MaxInputs   \* bound: inputs the connections send in all

ASSUME SessionAssumption ==
    /\ NoClient \notin Clients
    /\ Players \cap Strangers = {}
    /\ NoId \notin Players \cup Strangers
    /\ MaxStep \in Nat \ {0}
    /\ MaxInputs \in Nat

VARIABLES
    pc,         \* where the goroutine of each client stands
    id,         \* client.id
    deadline,   \* read deadline of the connection
    gone,       \* the remote end has disconnected
    inputs,     \* number of inputs read so far, numbering the actions
    want,       \* the input a client is handing to game.Apply
    got,        \* history: the packets the remote end received
    gpc,        \* where the goroutine of the game stands
    over,       \* game.Over()
    step,       \* game.step
    client,     \* player.client of each player
    actions,    \* game.actions
    sent,       \* game.sent
    reply       \* the answer the game is sending on a reply channel

clientVars == <<pc, id, deadline, gone, inputs, want, got>>
gameVars == <<gpc, over, step, client, actions, sent, reply>>
vars == <<pc, id, deadline, gone, inputs, want, got,
          gpc, over, step, client, actions, sent, reply>>

Ids == Players \cup Strangers
Steps == 0..MaxStep
Action == [id : Ids, from : Clients, n : 1..MaxInputs]
Input == [step : Steps, action : Action]
Packet == [step : Steps, actions : SUBSET Action]
Reply == [chan : {"joined", "left", "applied"}, ok : BOOLEAN, to : Clients]

ClientPC == {"auth", "join", "joinSend", "joinWait", "arm", "read",
             "applySend", "applyWait", "leaveSend", "leaveWait", "close", "closed"}

(***************************************************************************)
(* NewGame and newClient.  A client that has not connected yet and one     *)
(* that has not authenticated yet look the same to the game.               *)
(***************************************************************************)
Init ==
    /\ pc = [c \in Clients |-> "auth"]
    /\ id = [c \in Clients |-> NoId]
    /\ deadline = [c \in Clients |-> "timed"]
    /\ gone = [c \in Clients |-> FALSE]
    /\ inputs = 0
    /\ want = [c \in Clients |-> <<>>]
    /\ got = [c \in Clients |-> <<>>]
    /\ gpc = "select"
    /\ over = FALSE
    /\ step = 0
    /\ client = [p \in Players |-> NoClient]
    /\ actions = [s \in Steps |-> {}]
    /\ sent = <<>>
    /\ reply = <<>>

----------------------------------------------------------------------------
\* The goroutine of a client

Goto(c, to) == pc' = [pc EXCEPT ![c] = to]

\* auth: any id whose token equals it (the real check is still to be written).
Auth(c) ==
    /\ pc[c] = "auth"
    /\ \E i \in Ids : id' = [id EXCEPT ![c] = i]
    /\ Goto(c, "join")
    /\ UNCHANGED <<deadline, gone, inputs, want, got, gameVars>>

\* join: the packet names this game and findGame knows it.
FindGame(c) ==
    /\ pc[c] = "join"
    /\ Goto(c, "joinSend")
    /\ UNCHANGED <<id, deadline, gone, inputs, want, got, gameVars>>

\* auth or join fails: the second is over, a packet is malformed, the token is
\* wrong, or no such game is registered.  leave is not deferred yet.
GiveUp(c) ==
    /\ pc[c] \in {"auth", "join"}
    /\ Goto(c, "close")
    /\ UNCHANGED <<id, deadline, gone, inputs, want, got, gameVars>>

\* Run clears the deadline once join has returned, whatever it was.
ClearDeadline(c) ==
    /\ pc[c] = "arm"
    /\ deadline' = [deadline EXCEPT ![c] = "none"]
    /\ Goto(c, "read")
    /\ UNCHANGED <<id, gone, inputs, want, got, gameVars>>

\* The sender of an action is the authenticated id, whatever the packet says.
Stamp(c, wireId) == [id |-> id[c], from |-> c, n |-> inputs + 1]

\* A line was read, possibly one that the reader had already buffered.
ReadInput(c) ==
    /\ pc[c] = "read"
    /\ inputs < MaxInputs
    /\ \E s \in Steps, i \in Ids :
          want' = [want EXCEPT ![c] = [step |-> s, action |-> Stamp(c, i)]]
    /\ inputs' = inputs + 1
    /\ Goto(c, "applySend")
    /\ UNCHANGED <<id, deadline, gone, got, gameVars>>

\* Faulty variant: the loop goes on after a timeout.
ReadErrorUnlessTimeout(c) ==
    /\ pc[c] = "read"
    /\ gone[c]
    /\ Goto(c, "leaveSend")
    /\ UNCHANGED <<id, deadline, gone, inputs, want, got, gameVars>>

\* ReadBytes fails: the deadline has passed or the remote end is gone.
ReadError(c) ==
    /\ pc[c] = "read"
    /\ deadline[c] = "past" \/ gone[c]
    /\ Goto(c, "leaveSend")
    /\ UNCHANGED <<id, deadline, gone, inputs, want, got, gameVars>>

\* A line that does not parse also ends the loop.
BadInput(c) ==
    /\ pc[c] = "read"
    /\ Goto(c, "leaveSend")
    /\ UNCHANGED <<id, deadline, gone, inputs, want, got, gameVars>>

\* Faulty variant: a client that comes too late looks for the game again.
JoinRetried(c) ==
    /\ pc[c] = "joinSend" /\ gpc = "quit"
    /\ Goto(c, "join")
    /\ UNCHANGED <<id, deadline, gone, inputs, want, got, gameVars>>

\* Join, Leave and Apply take the other branch of their select once the game
\* has closed its quit channel.
JoinEnded(c) ==
    /\ pc[c] = "joinSend" /\ gpc = "quit"
    /\ Goto(c, "close")
    /\ UNCHANGED <<id, deadline, gone, inputs, want, got, gameVars>>

ApplyEnded(c) ==
    /\ pc[c] = "applySend" /\ gpc = "quit"
    /\ Goto(c, "leaveSend")
    /\ UNCHANGED <<id, deadline, gone, inputs, want, got, gameVars>>

LeaveEnded(c) ==
    /\ pc[c] = "leaveSend" /\ gpc = "quit"
    /\ Goto(c, "close")
    /\ UNCHANGED <<id, deadline, gone, inputs, want, got, gameVars>>

\* The receive on a reply channel: any client waiting on it may get the answer.
Receive(c, at, chan, to) ==
    /\ pc[c] = at
    /\ gpc = "reply" /\ reply.chan = chan
    /\ Goto(c, to)
    /\ gpc' = "select"
    /\ reply' = <<>>
    /\ UNCHANGED <<id, deadline, gone, inputs, want, got,
                   over, step, client, actions, sent>>

\* Faulty variant: Apply returns without waiting for its answer.
AppliedUnheard(c) ==
    /\ pc[c] = "applyWait"
    /\ Goto(c, "read")
    /\ UNCHANGED <<id, deadline, gone, inputs, want, got, gameVars>>

Joined(c) == Receive(c, "joinWait", "joined", IF reply.ok THEN "arm" ELSE "close")
Applied(c) == Receive(c, "applyWait", "applied", "read")
Left(c) == Receive(c, "leaveWait", "left", "close")

CloseConn(c) ==
    /\ pc[c] = "close"
    /\ Goto(c, "closed")
    /\ UNCHANGED <<id, deadline, gone, inputs, want, got, gameVars>>

\* The remote end goes away (a crash, a lost network, the app in background).
Disconnect(c) ==
    /\ ~gone[c] /\ pc[c] # "closed"
    /\ gone' = [gone EXCEPT ![c] = TRUE]
    /\ UNCHANGED <<pc, id, deadline, inputs, want, got, gameVars>>

----------------------------------------------------------------------------
\* The goroutine of the game

\* Faulty variant: answers are handed over by a goroutine of their own.
ReceivingEarly == gpc \in {"select", "reply"} /\ ~over

\* The select of Run is reached only while the game is not over.
Receiving == gpc = "select" /\ ~over

\* Stop and Write panic on a connection that closeConn has closed.
Closed(c) == pc[c] = "closed"

\* client.Stop on every client of S.
Stop(S) == deadline' = [c \in Clients |-> IF c \in S THEN "past" ELSE deadline[c]]

\* The answer is handed over before the loop goes on.
Answer(chan, ok, c) == reply' = [chan |-> chan, ok |-> ok, to |-> c]

\* A panic in the game's goroutine ends the process; nothing matters after it.
PanicIf(bad, next) == gpc' = IF bad THEN "panic" ELSE next

\* player.client of the player a joining client claims to be
Existing(c) == client[id[c]]

\* A write to a connection whose remote end is gone fails, and then stops the
\* client, or is swallowed by the network.
WriteFails(S) == {F \in SUBSET S : \A c \in F : gone[c]}

\* The same client joins a second time, or the one to replace is already closed.
BadJoin(c) == Existing(c) = c \/ (Existing(c) # NoClient /\ Closed(Existing(c)))

\* Faulty variants: the steps so far are not sent, or without the first one.
HistorySkipped(c) == got[c]
HistoryFromSecond(c) == IF gone[c] \/ sent = <<>> THEN got[c] ELSE got[c] \o Tail(sent)

\* What the joining client has received once g.sent is written to it.
History(c) == IF gone[c] THEN got[c] ELSE got[c] \o sent

HandleJoin(c) ==
    /\ Receiving
    /\ pc[c] = "joinSend"
    /\ Goto(c, "joinWait")
    /\ \/ /\ id[c] \notin Players
          /\ Answer("joined", FALSE, c)
          /\ gpc' = "reply"
          /\ UNCHANGED <<deadline, got, client>>
       \/ /\ id[c] \in Players
          /\ \E F \in WriteFails({c}) : Stop({Existing(c)} \cup F)
          /\ client' = [client EXCEPT ![id[c]] = c]
          /\ got' = [got EXCEPT ![c] = History(c)]
          /\ Answer("joined", TRUE, c)
          /\ PanicIf(BadJoin(c), "reply")
    /\ UNCHANGED <<id, gone, inputs, want, over, step, actions, sent>>

\* Faulty variants: whoever leaves detaches the player's client; nobody is detached.
LeaveDetachesAny(c) == [p \in Players |-> IF p = id[c] THEN NoClient ELSE client[p]]
LeaveDetachesNone(c) == client

\* The clients of the players after c has left: only c itself is detached.
Remaining(c) ==
    [p \in Players |-> IF p = id[c] /\ client[p] = c THEN NoClient ELSE client[p]]

HandleLeave(c) ==
    /\ Receiving
    /\ pc[c] = "leaveSend"
    /\ Goto(c, "leaveWait")
    /\ client' = Remaining(c)
    /\ Answer("left", id[c] \in Players, c)
    /\ gpc' = "reply"
    /\ UNCHANGED <<id, deadline, gone, inputs, want, got, over, step, actions, sent>>

\* Faulty variant: an input lands in the step it names, even a past one.
LandingAsAsked(s) == s

\* An input for a past step is executed in the current one.
LandingStep(s) == IF step > s THEN step ELSE s

HandleApply(c) ==
    /\ Receiving
    /\ pc[c] = "applySend"
    /\ Goto(c, "applyWait")
    /\ actions' = [actions EXCEPT ![LandingStep(want[c].step)] = @ \cup {want[c].action}]
    /\ want' = [want EXCEPT ![c] = <<>>]
    /\ Answer("applied", TRUE, c)
    /\ gpc' = "reply"
    /\ UNCHANGED <<id, deadline, gone, inputs, got, over, step, client, sent>>

\* The clients the game writes to and stops.
Current == {client[p] : p \in Players} \ {NoClient}

\* A closed connection among those the game is about to write to or to stop
StaleClient == \E c \in Current : Closed(c)

\* Update looks up the player of each action of the step: there must be one.
OrphanAction == \E a \in actions[step] : a.id \notin Players

\* A tick: Update executes the actions of the step that player.Do accepts and
\* drops the others, broadcast sends the step to every client and appends it to
\* what a client that joins later is sent.
Tick ==
    /\ Receiving
    /\ \E accepted \in SUBSET actions[step] :
          LET packet == [step |-> step, actions |-> accepted] IN
          /\ actions' = [actions EXCEPT ![step] = accepted]
          /\ sent' = Append(sent, packet)
          /\ got' = [c \in Clients |->
                       IF c \in Current /\ ~gone[c] THEN Append(got[c], packet) ELSE got[c]]
    /\ \E F \in WriteFails(Current) : Stop(F)
    /\ step' = step + 1
    /\ over' \in {o \in BOOLEAN : step + 1 = MaxStep => o}
    /\ PanicIf(OrphanAction \/ StaleClient, "select")
    /\ UNCHANGED <<pc, id, gone, inputs, want, client, reply>>

\* The loop ends: every current client is stopped and quit is closed.
End ==
    /\ gpc = "select" /\ over
    /\ Stop(Current)
    /\ PanicIf(StaleClient, "quit")
    /\ UNCHANGED <<pc, id, gone, inputs, want, got,
                   over, step, client, actions, sent, reply>>

\* Everything has ended: the game's goroutine and those of all clients.
Finished ==
    /\ gpc = "quit"
    /\ \A c \in Clients : Closed(c)
    /\ UNCHANGED vars

----------------------------------------------------------------------------
\* Steps a goroutine takes without waiting for the remote end.
Proceed(c) ==
    \/ GiveUp(c) \/ ClearDeadline(c) \/ ReadError(c)
    \/ JoinEnded(c) \/ ApplyEnded(c) \/ LeaveEnded(c)
    \/ Joined(c) \/ Applied(c) \/ Left(c) \/ CloseConn(c)

\* What the remote end does.
Remote(c) ==
    \/ Auth(c) \/ FindGame(c) \/ ReadInput(c) \/ BadInput(c) \/ Disconnect(c)

Handle(c) == HandleJoin(c) \/ HandleLeave(c) \/ HandleApply(c)

Next ==
    \/ \E c \in Clients : Proceed(c) \/ Remote(c) \/ Handle(c)
    \/ Tick \/ End \/ Finished

Spec == Init /\ [][Next]_vars

(***************************************************************************)
(* The Go scheduler runs every goroutine that can run, and the select of   *)
(* Run picks at random among the channels that are ready and serves the    *)
(* senders of a channel in order: a request or a tick that is ready again  *)
(* and again is taken.  GiveUp is fair because auth and join have a        *)
(* deadline of one second.                                                 *)
(***************************************************************************)
Fairness ==
    /\ \A c \in Clients : WF_vars(Proceed(c)) /\ SF_vars(Handle(c))
    /\ SF_vars(Tick) /\ WF_vars(End)

FairSpec == Spec /\ Fairness

----------------------------------------------------------------------------
\* Types of all variables.
TypeOK ==
    /\ pc \in [Clients -> ClientPC]
    /\ id \in [Clients -> Ids \cup {NoId}]
    /\ deadline \in [Clients -> {"timed", "none", "past"}]
    /\ gone \in [Clients -> BOOLEAN]
    /\ inputs \in 0..MaxInputs
    /\ want \in [Clients -> Input \cup {<<>>}]
    /\ got \in [Clients -> Seq(Packet)]
    /\ gpc \in {"select", "reply", "quit", "panic"}
    /\ over \in BOOLEAN
    /\ step \in Steps
    /\ client \in [Players -> Clients \cup {NoClient}]
    /\ actions \in [Steps -> SUBSET Action]
    /\ sent \in Seq(Packet)
    /\ reply \in Reply \cup {<<>>}

\* The server never panics: Run (game.go) never stops or writes to a connection
\* its owner has closed, never meets the same client joining twice, and never
\* executes an action of an id that is not a player, although the connection is
\* closed by another goroutine and the action is written by the remote end.
NoPanic == gpc # "panic"

\* "send previous game states" (game.go:287): whenever the game is between two
\* events, the client a player currently has received every step since the
\* first, once and in order, however often the player reconnected.
CompleteHistory ==
    \A p \in Players :
        client[p] # NoClient /\ ~gone[client[p]] => got[client[p]] = sent

\* What was broadcast for a step is what the replay records for it for ever:
\* no action is added to a step after it was executed (handleApply's maximum).
ReplayIsBroadcast ==
    /\ Len(sent) = step
    /\ \A k \in 1..Len(sent) : sent[k] = [step |-> k - 1, actions |-> actions[k - 1]]

\* The reply channels are shared by all clients, yet an answer is received by the
\* client whose request it answers.
ReplyGoesToRequester ==
    [][\A c \in Clients :
          pc[c] \in {"joinWait", "applyWait", "leaveWait"} /\ pc'[c] # pc[c]
              => reply.to = c]_vars

\* A player loses its client only when that very client leaves: the late leave of
\* a replaced connection does not detach its successor (handleLeave).
LeaveKeepsSuccessor ==
    [][\A p \in Players :
          client[p] # NoClient /\ client'[p] = NoClient
              => pc[client[p]] = "leaveSend" /\ pc'[client[p]] = "leaveWait"]_vars

\* No goroutine stays blocked in Join, Leave or Apply, also when the game ends at
\* that moment and nobody receives from the channels any more.
RequestsReturn ==
    \A c \in Clients :
        pc[c] \in {"joinSend", "joinWait", "applySend", "applyWait", "leaveSend", "leaveWait"}
            ~> pc[c] \in {"arm", "read", "close"}

\* Stopping a client that is in its read loop makes its goroutine end.
StoppedReaderLeaves ==
    \A c \in Clients : (pc[c] = "read" /\ deadline[c] = "past") ~> pc[c] = "closed"

\* The game ends, whatever its clients do.
GameEnds == <>(gpc = "quit")

\* Once the game has ended, every client is stopped and its goroutine ends: this
\* is what server.Stop waits for ("wait clients", server.go:172).
ClientsLeaveEndedGame ==
    \A c \in Clients : (gpc = "quit") ~> (pc[c] = "closed")

\* Where a client may stand while it is the client of a player.
InGame == {"joinWait", "arm", "read", "applySend", "applyWait", "leaveSend"}

\* Where a client stands only after its join was accepted.
PastJoin == {"arm", "read", "applySend", "applyWait", "leaveSend", "leaveWait"}

\* The reply channel a client waits on.
WaitsOn(chan) == CASE chan = "joined" -> "joinWait"
                   [] chan = "applied" -> "applyWait"
                   [] chan = "left" -> "leaveWait"

\* One client waits for an answer, the one the game is answering.
OneRequest ==
    /\ gpc = "reply" => reply \in Reply /\ pc[reply.to] = WaitsOn(reply.chan)
    /\ \A c \in Clients :
          pc[c] \in {"joinWait", "applyWait", "leaveWait"} => gpc = "reply" /\ reply.to = c

\* While the game runs, a player's client is one that authenticated as that player,
\* was accepted and has not left: its connection is open.
Attached ==
    gpc # "quit" =>
        \A p \in Players :
            client[p] # NoClient =>
                /\ id[client[p]] = p
                /\ pc[client[p]] \in InGame
                /\ pc[client[p]] = "joinWait" => reply.ok

\* Only players get past join, and only their actions are queued.
Members ==
    /\ \A c \in Clients :
          /\ pc[c] \in PastJoin => id[c] \in Players
          /\ pc[c] = "joinWait" /\ reply.ok => id[c] \in Players
          /\ pc[c] = "applySend" => want[c].action.id \in Players
    /\ \A s \in Steps : \A a \in actions[s] : a.id \in Players

\* A client that has not joined has received nothing.
Pending == \A c \in Clients : pc[c] \in {"auth", "join", "joinSend"} => got[c] = <<>>

\* The loop ends in time.
InTime == ~over => step < MaxStep

\* A client that is past auth has an id, and one that applies has an input.
Identified ==
    \A c \in Clients :
        /\ pc[c] \notin {"auth", "close", "closed"} => id[c] \in Ids
        /\ pc[c] = "applySend" => want[c] \in Input

\* The inductive invariant behind NoPanic, CompleteHistory and ReplayIsBroadcast.
SessionInv ==
    /\ NoPanic
    /\ Identified
    /\ InTime
    /\ OneRequest
    /\ Attached
    /\ Members
    /\ Pending
    /\ CompleteHistory
    /\ ReplayIsBroadcast

----------------------------------------------------------------------------
\* What the players are promised: a single feed of steps (StepFeed.tla).
Feed == INSTANCE StepFeed WITH Subscribers <- Clients, Packets <- Packet,
                               feed <- sent, view <- got

ImplementsFeed == Feed!Spec
=============================================================================
