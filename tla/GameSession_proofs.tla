------------------------ MODULE GameSession_proofs ------------------------
(***************************************************************************)
(* Proofs about GameSession for any number of connections, players, steps  *)
(* and inputs: types, the inductive invariant SessionInv and what follows  *)
(* from it, the two action properties, and the refinement of StepFeed.     *)
(***************************************************************************)
EXTENDS GameSession, TLAPS

\* Every handler of a client's goroutine and of the game that changes the state.
LEMMA ActionCases ==
    ASSUME Next
    PROVE  \/ \E c \in Clients : Proceed(c)
           \/ \E c \in Clients : Remote(c)
           \/ \E c \in Clients : HandleJoin(c)
           \/ \E c \in Clients : HandleLeave(c)
           \/ \E c \in Clients : HandleApply(c)
           \/ Tick
           \/ End
           \/ UNCHANGED vars
  BY DEF Next, Handle, Finished

\* An input that a client stamps is an action, numbered within the bound.
LEMMA StampType ==
    ASSUME TypeOK, NEW c \in Clients, NEW i \in Ids, inputs < MaxInputs, id[c] \in Ids
    PROVE  Stamp(c, i) \in Action
  BY SessionAssumption DEF TypeOK, Stamp, Action

\* The types alone are not inductive: a client that reads must have an id, and
\* the loop must have seen that the last step was the last.
TypeInv == TypeOK /\ Identified /\ InTime

LEMMA TypeInit == Init => TypeInv
<1> SUFFICES ASSUME Init PROVE TypeInv
  OBVIOUS
<1> USE SessionAssumption DEF Init
<1>1. pc \in [Clients -> ClientPC] /\ id \in [Clients -> Ids \cup {NoId}]
  BY DEF ClientPC
<1>2. got \in [Clients -> Seq(Packet)] /\ sent \in Seq(Packet)
  OBVIOUS
<1>3. actions \in [Steps -> SUBSET Action] /\ step \in Steps /\ inputs \in 0..MaxInputs
  BY DEF Steps
<1>4. /\ deadline \in [Clients -> {"timed", "none", "past"}]
      /\ gone \in [Clients -> BOOLEAN]
      /\ want \in [Clients -> Input \cup {<<>>}]
      /\ client \in [Players -> Clients \cup {NoClient}]
      /\ reply \in Reply \cup {<<>>}
  OBVIOUS
<1>5. Identified /\ InTime
  BY DEF Identified, InTime
<1> QED BY <1>1, <1>2, <1>3, <1>4, <1>5 DEF TypeInv, TypeOK

LEMMA TypeStep == TypeInv /\ [Next]_vars => TypeInv'
<1> SUFFICES ASSUME TypeInv, [Next]_vars PROVE TypeInv'
  OBVIOUS
<1> USE SessionAssumption DEF TypeInv, TypeOK, Identified, InTime, ClientPC
<1>1. ASSUME NEW c \in Clients, Proceed(c) PROVE TypeInv'
  <2>1. CASE GiveUp(c) \/ ReadError(c) \/ JoinEnded(c) \/ ApplyEnded(c) \/ LeaveEnded(c) \/ CloseConn(c)
    BY <2>1 DEF GiveUp, ReadError, JoinEnded, ApplyEnded, LeaveEnded, CloseConn, Goto, gameVars
  <2>2. CASE ClearDeadline(c)
    BY <2>2 DEF ClearDeadline, Goto, gameVars
  <2>3. CASE Joined(c)
    BY <2>3 DEF Joined, Receive, Goto
  <2>4. CASE Applied(c)
    BY <2>4 DEF Applied, Receive, Goto
  <2>5. CASE Left(c)
    BY <2>5 DEF Left, Receive, Goto
  <2> QED BY <1>1, <2>1, <2>2, <2>3, <2>4, <2>5 DEF Proceed
<1>2. ASSUME NEW c \in Clients, Remote(c) PROVE TypeInv'
  <2>1. CASE Auth(c)
    BY <2>1 DEF Auth, Goto, gameVars
  <2>2. CASE FindGame(c) \/ BadInput(c)
    BY <2>2 DEF FindGame, BadInput, Goto, gameVars
  <2>3. CASE ReadInput(c)
    <3>1. PICK s \in Steps, i \in Ids :
             want' = [want EXCEPT ![c] = [step |-> s, action |-> Stamp(c, i)]]
      BY <2>3 DEF ReadInput
    <3>2. [step |-> s, action |-> Stamp(c, i)] \in Input
      BY <2>3, StampType DEF ReadInput, Input
    <3> QED BY <2>3, <3>1, <3>2 DEF ReadInput, Goto, gameVars
  <2>4. CASE Disconnect(c)
    BY <2>4 DEF Disconnect, gameVars
  <2> QED BY <1>2, <2>1, <2>2, <2>3, <2>4 DEF Remote
<1>3. ASSUME NEW c \in Clients, HandleJoin(c) PROVE TypeInv'
  <2>1. History(c) \in Seq(Packet)
    BY DEF History
  <2>2. pc' = [pc EXCEPT ![c] = "joinWait"] /\ pc[c] = "joinSend"
    BY <1>3 DEF HandleJoin, Goto
  <2>3. UNCHANGED <<id, gone, inputs, want, over, step, actions, sent>>
    BY <1>3 DEF HandleJoin
  <2>4. deadline' \in [Clients -> {"timed", "none", "past"}]
    BY <1>3 DEF HandleJoin, Stop
  <2>7. got' \in [Clients -> Seq(Packet)]
    BY <1>3, <2>1 DEF HandleJoin
  <2>5. client' \in [Players -> Clients \cup {NoClient}]
    BY <1>3 DEF HandleJoin
  <2>6. gpc' \in {"select", "reply", "quit", "panic"}
    BY <1>3 DEF HandleJoin, PanicIf
  <2>8. reply' \in Reply
    <3>1. PICK ok \in BOOLEAN : Answer("joined", ok, c)
      BY <1>3 DEF HandleJoin
    <3> QED BY <3>1 DEF Answer, Reply
  <2> QED BY <2>2, <2>3, <2>4, <2>5, <2>6, <2>7, <2>8
<1>4. ASSUME NEW c \in Clients, HandleLeave(c) PROVE TypeInv'
  <2>1. client' \in [Players -> Clients \cup {NoClient}] /\ reply' \in Reply
    BY <1>4 DEF HandleLeave, Remaining, Answer, Reply
  <2> QED BY <1>4, <2>1 DEF HandleLeave, Goto
<1>5. ASSUME NEW c \in Clients, HandleApply(c) PROVE TypeInv'
  <2>1. LandingStep(want[c].step) \in Steps /\ want[c].action \in Action
    BY <1>5 DEF HandleApply, LandingStep, Input
  <2>2. actions' \in [Steps -> SUBSET Action] /\ reply' \in Reply
    BY <1>5, <2>1 DEF HandleApply, Answer, Reply
  <2>3. want' \in [Clients -> Input \cup {<<>>}]
    BY <1>5 DEF HandleApply
  <2> QED BY <1>5, <2>2, <2>3 DEF HandleApply, Goto
<1>6. CASE Tick
  <2>1. PICK accepted \in SUBSET actions[step] :
           /\ actions' = [actions EXCEPT ![step] = accepted]
           /\ sent' = Append(sent, [step |-> step, actions |-> accepted])
           /\ got' = [c \in Clients |->
                        IF c \in Current /\ ~gone[c]
                        THEN Append(got[c], [step |-> step, actions |-> accepted]) ELSE got[c]]
    BY <1>6 DEF Tick
  <2>2. [step |-> step, actions |-> accepted] \in Packet
    BY DEF Packet
  <2>3. /\ actions' \in [Steps -> SUBSET Action]
        /\ sent' \in Seq(Packet)
        /\ got' \in [Clients -> Seq(Packet)]
    BY <2>1, <2>2
  <2>4. deadline' \in [Clients -> {"timed", "none", "past"}]
    BY <1>6 DEF Tick, Stop
  <2>5. step' \in Steps
    BY <1>6 DEF Tick, Receiving, Steps
  <2>6. over' \in BOOLEAN /\ InTime'
    BY <1>6, <2>5 DEF Tick, Receiving, Steps
  <2> QED BY <1>6, <2>3, <2>4, <2>5, <2>6 DEF Tick, PanicIf
<1>7. CASE End
  BY <1>7 DEF End, Stop, PanicIf
<1>8. CASE UNCHANGED vars
  BY <1>8 DEF vars
<1> QED BY <1>1, <1>2, <1>3, <1>4, <1>5, <1>6, <1>7, <1>8, ActionCases

\* The variables keep their types.
THEOREM TypeCorrect == Spec => []TypeOK
<1>1. TypeInv => TypeOK
  BY DEF TypeInv
<1>2. QED BY <1>1, TypeInit, TypeStep, PTL DEF Spec

----------------------------------------------------------------------------
\* SessionInv holds when the server creates the game.
LEMMA SessionInit == Init => SessionInv
<1> SUFFICES ASSUME Init PROVE SessionInv
  OBVIOUS
<1>1. Identified /\ InTime
  BY TypeInit DEF TypeInv
<1>2. NoPanic /\ OneRequest /\ Attached /\ Members /\ Pending /\ CompleteHistory
  BY DEF Init, NoPanic, OneRequest, Attached, Members, PastJoin, Pending, CompleteHistory
<1>3. ReplayIsBroadcast
  BY DEF Init, ReplayIsBroadcast
<1> QED BY <1>1, <1>2, <1>3 DEF SessionInv

\* Steps of a client's goroutine that move only its pc, forward inside the game or
\* out of a game that has ended, keep the invariant.
LEMMA ProceedKeeps ==
    ASSUME TypeInv, TypeInv', SessionInv, NEW c \in Clients, Proceed(c)
    PROVE  SessionInv'
<1> USE DEF TypeInv, SessionInv
<1>0. NoPanic' /\ UNCHANGED <<id, inputs, want, got, gone, over, step, client, actions, sent>>
  BY DEF Proceed, GiveUp, ClearDeadline, ReadError, JoinEnded, ApplyEnded, LeaveEnded,
         Joined, Applied, Left, CloseConn, Receive, Goto, gameVars, NoPanic
<1>1. Pending' /\ CompleteHistory' /\ ReplayIsBroadcast'
  BY <1>0 DEF Pending, CompleteHistory, ReplayIsBroadcast, Proceed, GiveUp, ClearDeadline, ReadError,
         JoinEnded, ApplyEnded, LeaveEnded, Joined, Applied, Left, CloseConn, Receive, Goto, TypeOK
<1>2. CASE Joined(c) \/ Applied(c) \/ Left(c)
  <2>1. /\ gpc = "reply" /\ reply.to = c /\ gpc' = "select"
        /\ pc' = [pc EXCEPT ![c] = pc'[c]]
        /\ \/ pc[c] = "joinWait" /\ reply.ok /\ pc'[c] = "arm"
           \/ pc[c] = "joinWait" /\ ~reply.ok /\ pc'[c] = "close"
           \/ pc[c] = "applyWait" /\ pc'[c] = "read"
           \/ pc[c] = "leaveWait" /\ pc'[c] = "close"
    BY <1>2 DEF Joined, Applied, Left, Receive, Goto, OneRequest, TypeOK
  <2>2. OneRequest'
    BY <2>1 DEF OneRequest, TypeOK, ClientPC
  <2>5. \A d \in Clients \ {c} : pc'[d] = pc[d] /\ pc[d] \notin {"joinWait", "applyWait", "leaveWait"}
    BY <2>1 DEF OneRequest, TypeOK
  <2>6. pc'[c] # "joinWait"
    BY <2>1
  <2>3. Attached'
    <3> SUFFICES ASSUME NEW p \in Players, client[p] # NoClient
                 PROVE  id[client[p]] = p /\ pc'[client[p]] \in InGame /\ pc'[client[p]] # "joinWait"
      BY <1>0 DEF Attached
    <3>1. /\ client[p] \in Clients /\ id[client[p]] = p /\ pc[client[p]] \in InGame
          /\ pc[client[p]] = "joinWait" => reply.ok
      BY <2>1 DEF Attached, TypeOK
    <3>2. CASE client[p] = c
      BY <2>1, <3>1, <3>2 DEF InGame, TypeOK
    <3>3. CASE client[p] # c
      BY <2>5, <3>1, <3>3
    <3> QED BY <3>2, <3>3
  <2>4. Members'
    <3>1. \A d \in Clients : pc'[d] # "joinWait"
      BY <2>5, <2>6
    <3>2. pc'[c] \in PastJoin => id[c] \in Players
      BY <2>1 DEF Members, PastJoin, TypeOK
    <3> QED BY <1>0, <2>1, <2>5, <3>1, <3>2 DEF Members
  <2> QED BY <1>0, <1>1, <2>2, <2>3, <2>4
<1>3. CASE ~(Joined(c) \/ Applied(c) \/ Left(c))
  <2>1. /\ UNCHANGED <<gpc, reply>>
        /\ pc' = [pc EXCEPT ![c] = pc'[c]]
        /\ \/ pc[c] \in {"auth", "join", "close"} /\ pc'[c] \in {"close", "closed"}
           \/ pc[c] = "arm" /\ pc'[c] = "read"
           \/ pc[c] = "read" /\ pc'[c] = "leaveSend"
           \/ /\ gpc = "quit"
              /\ \/ pc[c] \in {"joinSend", "leaveSend"} /\ pc'[c] = "close"
                 \/ pc[c] = "applySend" /\ pc'[c] = "leaveSend"
    BY <1>3 DEF Proceed, GiveUp, ClearDeadline, ReadError, JoinEnded, ApplyEnded, LeaveEnded,
                CloseConn, Goto, gameVars, TypeOK
  <2>2. OneRequest'
    BY <2>1 DEF OneRequest, TypeOK, ClientPC, WaitsOn, Reply
  <2>3. Attached'
    <3> SUFFICES ASSUME gpc # "quit", NEW p \in Players, client[p] # NoClient
                 PROVE  /\ id[client[p]] = p /\ pc'[client[p]] \in InGame
                        /\ pc'[client[p]] = "joinWait" => reply.ok
      BY <1>0, <2>1 DEF Attached
    <3>1. /\ client[p] \in Clients /\ id[client[p]] = p /\ pc[client[p]] \in InGame
          /\ pc[client[p]] = "joinWait" => reply.ok
      BY DEF Attached, TypeOK
    <3> QED BY <2>1, <3>1 DEF InGame, TypeOK
  <2>4. Members'
    BY <1>0, <2>1 DEF Members, PastJoin, TypeOK, ClientPC
  <2> QED BY <1>0, <1>1, <2>2, <2>3, <2>4
<1> QED BY <1>2, <1>3

\* So does what the remote end does.
LEMMA RemoteKeeps ==
    ASSUME TypeInv, TypeInv', SessionInv, NEW c \in Clients, Remote(c)
    PROVE  SessionInv'
<1> USE DEF TypeInv, SessionInv
<1>1. /\ NoPanic' /\ UNCHANGED <<gpc, reply, got, over, step, client, actions, sent>>
      /\ pc' = [pc EXCEPT ![c] = pc'[c]]
      /\ \/ pc[c] = "auth" /\ pc'[c] = "join" /\ UNCHANGED <<want, gone>>
            /\ \E i \in Ids : id' = [id EXCEPT ![c] = i]
         \/ pc[c] = "join" /\ pc'[c] = "joinSend" /\ UNCHANGED <<id, want, gone>>
         \/ pc[c] = "read" /\ pc'[c] = "leaveSend" /\ UNCHANGED <<id, want, gone>>
         \/ /\ pc[c] = "read" /\ pc'[c] = "applySend" /\ UNCHANGED <<id, gone>>
            /\ \E i \in Ids, s \in Steps :
                  want' = [want EXCEPT ![c] = [step |-> s, action |-> Stamp(c, i)]]
         \/ pc'[c] = pc[c] /\ UNCHANGED <<id, want>> /\ gone' = [gone EXCEPT ![c] = TRUE]
  BY DEF Remote, Auth, FindGame, ReadInput, BadInput, Disconnect, Goto, gameVars, NoPanic, TypeOK
<1>2. OneRequest'
  BY <1>1 DEF OneRequest, TypeOK, ClientPC, WaitsOn, Reply
<1>3. Attached'
  BY <1>1 DEF Attached, InGame, TypeOK, ClientPC
<1>4. Members'
  BY <1>1 DEF Members, PastJoin, TypeOK, ClientPC, Stamp
<1>5. Pending' /\ CompleteHistory' /\ ReplayIsBroadcast'
  BY <1>1 DEF Pending, CompleteHistory, ReplayIsBroadcast, TypeOK, ClientPC
<1> QED BY <1>1, <1>2, <1>3, <1>4, <1>5

\* The game's handlers.  A join replaces the client of the player and sends it the
\* steps so far; the replaced one is attached, hence open.
LEMMA JoinKeeps ==
    ASSUME TypeInv, TypeInv', SessionInv, NEW c \in Clients, HandleJoin(c)
    PROVE  SessionInv'
<1> USE DEF TypeInv, SessionInv
<1>1. /\ gpc = "select" /\ pc[c] = "joinSend" /\ pc' = [pc EXCEPT ![c] = "joinWait"]
      /\ UNCHANGED <<id, gone, inputs, want, over, step, actions, sent>>
  BY DEF HandleJoin, Receiving, Goto
<1>2. \A d \in Clients : pc[d] \notin {"joinWait", "applyWait", "leaveWait"}
  BY <1>1 DEF OneRequest
<1>3. CASE id[c] \notin Players
  <2>1. /\ reply' = [chan |-> "joined", ok |-> FALSE, to |-> c] /\ gpc' = "reply"
        /\ UNCHANGED <<got, client>>
    BY <1>3 DEF HandleJoin, Answer
  <2>2. NoPanic' /\ OneRequest'
    BY <1>1, <1>2, <2>1 DEF NoPanic, OneRequest, WaitsOn, Reply, TypeOK
  <2>3. Attached'
    BY <1>1, <1>2, <2>1 DEF Attached, InGame, TypeOK
  <2>4. Members'
    BY <1>1, <1>2, <2>1 DEF Members, PastJoin, TypeOK
  <2>5. Pending' /\ CompleteHistory' /\ ReplayIsBroadcast'
    BY <1>1, <2>1 DEF Pending, CompleteHistory, ReplayIsBroadcast, TypeOK
  <2> QED BY <2>2, <2>3, <2>4, <2>5
<1>4. CASE id[c] \in Players
  <2>1. /\ reply' = [chan |-> "joined", ok |-> TRUE, to |-> c]
        /\ client' = [client EXCEPT ![id[c]] = c]
        /\ got' = [got EXCEPT ![c] = History(c)]
        /\ gpc' = IF BadJoin(c) THEN "panic" ELSE "reply"
    BY <1>4 DEF HandleJoin, Answer, PanicIf
  <2>2. ~BadJoin(c)
    <3>1. client[id[c]] # NoClient => pc[client[id[c]]] \in InGame
      BY <1>1, <1>4 DEF Attached
    <3>2. c # NoClient /\ pc[c] \notin InGame /\ "closed" \notin InGame
      BY <1>1, SessionAssumption DEF InGame
    <3> QED BY <3>1, <3>2 DEF BadJoin, Existing, Closed
  <2>3. NoPanic' /\ OneRequest'
    BY <1>1, <1>2, <2>1, <2>2 DEF NoPanic, OneRequest, WaitsOn, Reply, TypeOK
  <2>4. Attached'
    BY <1>1, <1>2, <1>4, <2>1 DEF Attached, InGame, TypeOK
  <2>5. Members'
    BY <1>1, <1>2, <1>4, <2>1 DEF Members, PastJoin, TypeOK
  <2>6. ~gone[c] => History(c) = sent
    <3>1. got[c] = <<>> /\ sent \in Seq(Packet)
      BY <1>1 DEF Pending, TypeOK
    <3> QED BY <3>1 DEF History
  <2>7. CompleteHistory'
    BY <1>1, <1>4, <2>1, <2>6 DEF CompleteHistory, Attached, TypeOK
  <2>8. Pending' /\ ReplayIsBroadcast'
    BY <1>1, <2>1 DEF Pending, ReplayIsBroadcast, TypeOK
  <2> QED BY <2>3, <2>4, <2>5, <2>7, <2>8
<1> QED BY <1>3, <1>4

\* A leave detaches its client and nobody else.
LEMMA LeaveKeeps ==
    ASSUME TypeInv, TypeInv', SessionInv, NEW c \in Clients, HandleLeave(c)
    PROVE  SessionInv'
<1> USE DEF TypeInv, SessionInv
<1>1. /\ gpc = "select" /\ gpc' = "reply"
      /\ pc[c] = "leaveSend" /\ pc' = [pc EXCEPT ![c] = "leaveWait"]
      /\ reply' = [chan |-> "left", ok |-> id[c] \in Players, to |-> c]
      /\ client' = Remaining(c)
      /\ UNCHANGED <<id, gone, inputs, want, got, over, step, actions, sent>>
  BY DEF HandleLeave, Receiving, Goto, Answer
<1>2. \A d \in Clients : pc[d] \notin {"joinWait", "applyWait", "leaveWait"}
  BY <1>1 DEF OneRequest
<1>3. \A p \in Players : client'[p] \in {client[p], NoClient} /\ client'[p] # c
  BY <1>1, SessionAssumption DEF Remaining, Attached, TypeOK
<1>4. NoPanic' /\ OneRequest'
  BY <1>1, <1>2 DEF NoPanic, OneRequest, WaitsOn, Reply, TypeOK
<1>5. Attached'
  BY <1>1, <1>2, <1>3 DEF Attached, InGame, TypeOK
<1>6. Members'
  BY <1>1, <1>2 DEF Members, PastJoin, TypeOK
<1>7. Pending' /\ CompleteHistory' /\ ReplayIsBroadcast'
  BY <1>1, <1>3 DEF Pending, CompleteHistory, ReplayIsBroadcast, TypeOK
<1> QED BY <1>4, <1>5, <1>6, <1>7

\* An input lands in the current step or in a later one, and is a player's.
LEMMA ApplyKeeps ==
    ASSUME TypeInv, TypeInv', SessionInv, NEW c \in Clients, HandleApply(c)
    PROVE  SessionInv'
<1> USE DEF TypeInv, SessionInv
<1> DEFINE at == LandingStep(want[c].step)
<1>1. /\ gpc = "select" /\ gpc' = "reply"
      /\ pc[c] = "applySend" /\ pc' = [pc EXCEPT ![c] = "applyWait"]
      /\ reply' = [chan |-> "applied", ok |-> TRUE, to |-> c]
      /\ actions' = [actions EXCEPT ![at] = @ \cup {want[c].action}]
      /\ want' = [want EXCEPT ![c] = <<>>]
      /\ UNCHANGED <<id, gone, inputs, got, over, step, client, sent>>
  BY DEF HandleApply, Receiving, Goto, Answer
<1>2. \A d \in Clients : pc[d] \notin {"joinWait", "applyWait", "leaveWait"}
  BY <1>1 DEF OneRequest
<1>3. at \in Steps /\ at >= step
  BY <1>1 DEF LandingStep, Identified, Input, Steps, TypeOK
<1>4. want[c].action.id \in Players
  BY <1>1 DEF Members
<1>5. NoPanic' /\ OneRequest'
  BY <1>1, <1>2 DEF NoPanic, OneRequest, WaitsOn, Reply, TypeOK
<1>6. Attached'
  BY <1>1, <1>2 DEF Attached, InGame, TypeOK
<1>7. Members'
  <2>1. \A s \in Steps : \A a \in actions'[s] : a.id \in Players
    BY <1>1, <1>3, <1>4 DEF Members, TypeOK
  <2> QED BY <1>1, <1>2, <2>1 DEF Members, PastJoin, TypeOK
<1>8. ReplayIsBroadcast'
  <2>1. \A k \in 1..Len(sent) : actions'[k - 1] = actions[k - 1]
    BY <1>1, <1>3 DEF ReplayIsBroadcast, TypeOK, Steps
  <2> QED BY <1>1, <2>1 DEF ReplayIsBroadcast
<1>9. Pending' /\ CompleteHistory'
  BY <1>1 DEF Pending, CompleteHistory, TypeOK
<1> QED BY <1>5, <1>6, <1>7, <1>8, <1>9

\* No attached client is closed while the game runs.
LEMMA NobodyStale == ASSUME TypeInv, SessionInv, gpc # "quit" PROVE ~StaleClient
  BY DEF SessionInv, Attached, InGame, StaleClient, Current, Closed

\* A tick appends the executed step to every feed.
LEMMA TickKeeps ==
    ASSUME TypeInv, TypeInv', SessionInv, Tick
    PROVE  SessionInv'
<1> USE DEF TypeInv, SessionInv
<1>1. /\ gpc = "select" /\ ~over /\ step < MaxStep /\ step \in Nat
      /\ step' = step + 1
      /\ UNCHANGED <<pc, id, gone, inputs, want, client, reply>>
  BY DEF Tick, Receiving, InTime, TypeOK, Steps
<1>2. PICK packet \in Packet :
         /\ packet = [step |-> step, actions |-> packet.actions]
         /\ packet.actions \subseteq actions[step]
         /\ actions' = [actions EXCEPT ![step] = packet.actions]
         /\ sent' = Append(sent, packet)
         /\ got' = [c \in Clients |->
                      IF c \in Current /\ ~gone[c] THEN Append(got[c], packet) ELSE got[c]]
  BY DEF Tick, Packet, TypeOK
<1>3. gpc' = "select"
  <2>1. ~OrphanAction
    BY DEF OrphanAction, Members, TypeOK
  <2>2. ~StaleClient
    BY <1>1, NobodyStale
  <2> QED BY <1>1, <2>1, <2>2 DEF Tick, PanicIf
<1>4. NoPanic' /\ OneRequest' /\ Attached'
  BY <1>1, <1>3 DEF NoPanic, OneRequest, Attached
<1>5. Members'
  BY <1>1, <1>2 DEF Members, TypeOK
<1>6. Pending'
  <2>1. \A d \in Current : pc[d] \in InGame
    BY <1>1 DEF Attached, Current
  <2>2. ASSUME NEW d \in Clients, pc[d] \in {"auth", "join", "joinSend"} PROVE got'[d] = <<>>
    <3>1. d \notin Current
      BY <2>1, <2>2 DEF InGame
    <3> QED BY <1>2, <2>2, <3>1 DEF Pending
  <2> QED BY <1>1, <2>2 DEF Pending
<1>7. CompleteHistory'
  BY <1>1, <1>2 DEF CompleteHistory, Current, TypeOK
<1>8. ReplayIsBroadcast'
  <2>1. Len(sent') = step' /\ sent'[step + 1] = packet
    BY <1>1, <1>2 DEF ReplayIsBroadcast, TypeOK
  <2>2. ASSUME NEW k \in 1..Len(sent') PROVE sent'[k] = [step |-> k - 1, actions |-> actions'[k - 1]]
    <3>1. CASE k = step + 1
      BY <1>1, <1>2, <2>1, <3>1 DEF TypeOK, Steps
    <3>2. CASE k # step + 1
      <4>1. k \in 1..Len(sent) /\ sent'[k] = sent[k]
        BY <1>1, <1>2, <2>1, <3>2 DEF ReplayIsBroadcast, TypeOK
      <4>2. actions'[k - 1] = actions[k - 1]
        BY <1>1, <1>2, <3>2, <4>1 DEF ReplayIsBroadcast, TypeOK, Steps
      <4> QED BY <4>1, <4>2 DEF ReplayIsBroadcast
    <3> QED BY <3>1, <3>2
  <2> QED BY <2>1, <2>2 DEF ReplayIsBroadcast
<1> QED BY <1>4, <1>5, <1>6, <1>7, <1>8

\* The end of the loop only stops clients.
LEMMA EndKeeps ==
    ASSUME TypeInv, TypeInv', SessionInv, End
    PROVE  SessionInv'
<1>1. gpc = "select" /\ gpc' = "quit"
  BY NobodyStale DEF End, PanicIf
<1>2. UNCHANGED <<pc, id, gone, inputs, want, got, over, step, client, actions, sent, reply>>
  BY DEF End
<1> QED BY <1>1, <1>2 DEF SessionInv, TypeInv, NoPanic, Identified, InTime, OneRequest, Attached,
                          Members, Pending, CompleteHistory, ReplayIsBroadcast

LEMMA SessionStep == TypeInv /\ SessionInv /\ [Next]_vars => TypeInv' /\ SessionInv'
<1> SUFFICES ASSUME TypeInv, SessionInv, [Next]_vars PROVE TypeInv' /\ SessionInv'
  OBVIOUS
<1>1. TypeInv'
  BY TypeStep
<1>2. CASE UNCHANGED vars
  BY <1>2, <1>1 DEF vars, SessionInv, NoPanic, Identified, InTime, OneRequest, Attached, Members,
                    Pending, CompleteHistory, ReplayIsBroadcast
<1> QED BY <1>1, <1>2, ActionCases, ProceedKeeps, RemoteKeeps, JoinKeeps, LeaveKeeps, ApplyKeeps,
           TickKeeps, EndKeeps

\* SessionInv is an invariant of the match.
THEOREM SessionInvariant == Spec => [](TypeInv /\ SessionInv)
<1>1. Init => TypeInv /\ SessionInv
  BY TypeInit, SessionInit
<1>2. QED BY <1>1, SessionStep, PTL DEF Spec

\* No goroutine of the server panics on a closed connection, a client that joins
\* twice or an action of nobody.
THEOREM NeverPanics == Spec => []NoPanic
  BY SessionInvariant, PTL DEF SessionInv

\* The current client of every player has received every step.
THEOREM HistoryComplete == Spec => []CompleteHistory
  BY SessionInvariant, PTL DEF SessionInv

\* The replay records exactly what was broadcast.
THEOREM ReplayFaithful == Spec => []ReplayIsBroadcast
  BY SessionInvariant, PTL DEF SessionInv

----------------------------------------------------------------------------
\* An answer on a shared channel reaches the client that asked.
THEOREM AnswersMatch == Spec => ReplyGoesToRequester
<1>1. TypeInv /\ SessionInv =>
         \A c \in Clients :
            pc[c] \in {"joinWait", "applyWait", "leaveWait"} => gpc = "reply" /\ reply.to = c
  BY DEF SessionInv, OneRequest
<1>2. TypeInv /\ SessionInv =>
         [\A c \in Clients :
             pc[c] \in {"joinWait", "applyWait", "leaveWait"} /\ pc'[c] # pc[c]
                => reply.to = c]_vars
  BY <1>1
<1> QED BY <1>2, SessionInvariant, PTL DEF ReplyGoesToRequester

\* Nobody but the leaving client itself is detached.
THEOREM SuccessorKept == Spec => LeaveKeepsSuccessor
<1> DEFINE Kept ==
       \A p \in Players :
          client[p] # NoClient /\ client'[p] = NoClient
             => pc[client[p]] = "leaveSend" /\ pc'[client[p]] = "leaveWait"
<1>1. ASSUME TypeInv, Next PROVE Kept
  <2> USE <1>1 DEF TypeInv, TypeOK
  <2>1. ASSUME NEW c \in Clients, HandleLeave(c) PROVE Kept
    BY <2>1 DEF HandleLeave, Remaining, Goto
  <2>2. ASSUME NEW c \in Clients, HandleJoin(c) PROVE Kept
    BY <2>2, SessionAssumption DEF HandleJoin
  <2>3. ASSUME UNCHANGED client PROVE Kept
    BY <2>3
  <2>4. \/ UNCHANGED client
        \/ \E c \in Clients : HandleLeave(c) \/ HandleJoin(c)
    BY DEF Next, Proceed, Remote, Handle, HandleApply, Tick, End, Finished, GiveUp, ClearDeadline,
           ReadError, JoinEnded, ApplyEnded, LeaveEnded, Joined, Applied, Left, CloseConn, Receive,
           Auth, FindGame, ReadInput, BadInput, Disconnect, gameVars, vars
  <2> QED BY <2>1, <2>2, <2>3, <2>4
<1>2. TypeInv /\ SessionInv /\ [Next]_vars => [Kept]_vars
  BY <1>1
<1> QED BY <1>2, SessionInvariant, PTL DEF Spec, LeaveKeepsSuccessor

----------------------------------------------------------------------------
\* A match implements the feed of steps it promises: every step of the server
\* publishes the next one, brings one client up to date, or changes neither.
THEOREM FeedImplemented == Spec => ImplementsFeed
<1>1. Init => Feed!Init
  BY DEF Init, Feed!Init
<1>2. ASSUME TypeInv, SessionInv, [Next]_vars PROVE [Feed!Next]_<<sent, got>>
  <2> USE <1>2 DEF TypeInv
  <2>1. ASSUME NEW c \in Clients, HandleJoin(c) PROVE Feed!Next \/ UNCHANGED <<sent, got>>
    <3>1. UNCHANGED sent /\ pc[c] = "joinSend"
      BY <2>1 DEF HandleJoin
    <3>2. got[c] = <<>> /\ sent \in Seq(Packet)
      BY <3>1 DEF SessionInv, Pending, TypeOK
    <3>3. UNCHANGED got \/ got' = [got EXCEPT ![c] = sent]
      <4>1. History(c) \in {got[c], sent}
        BY <3>2 DEF History
      <4>2. UNCHANGED got \/ got' = [got EXCEPT ![c] = History(c)]
        BY <2>1 DEF HandleJoin
      <4> QED BY <4>1, <4>2 DEF TypeOK
    <3>4. CASE got' = [got EXCEPT ![c] = sent]
      BY <3>1, <3>2, <3>4 DEF Feed!Next, Feed!CatchUp
    <3> QED BY <3>1, <3>3, <3>4
  <2>2. ASSUME Tick PROVE Feed!Next
    <3>1. PICK packet \in Packet :
             /\ sent' = Append(sent, packet)
             /\ got' = [c \in Clients |->
                          IF c \in Current /\ ~gone[c] THEN Append(got[c], packet) ELSE got[c]]
      BY <2>2 DEF Tick, Packet, TypeOK
    <3> DEFINE to == {c \in Current : ~gone[c]}
    <3>2. to \in SUBSET Clients
      BY DEF Current, TypeOK
    <3>3. \A s \in to : got[s] = sent
      BY DEF SessionInv, CompleteHistory, Current
    <3>4. /\ sent' \in Seq(Packet)
          /\ Len(sent') = Len(sent) + 1
          /\ \A k \in 1..Len(sent) : sent'[k] = sent[k]
      BY <3>1 DEF TypeOK
    <3>5. got' = [s \in Clients |-> IF s \in to THEN sent' ELSE got[s]]
      BY <3>1, <3>3
    <3>6. Feed!Publish(to)
      BY <3>3, <3>4, <3>5 DEF Feed!Publish
    <3> QED BY <3>2, <3>6 DEF Feed!Next
  <2>3. \/ UNCHANGED <<sent, got>>
        \/ Tick
        \/ \E c \in Clients : HandleJoin(c)
    BY DEF Next, Proceed, Remote, Handle, HandleLeave, HandleApply, End, Finished, GiveUp,
           ClearDeadline, ReadError, JoinEnded, ApplyEnded, LeaveEnded, Joined, Applied, Left,
           CloseConn, Receive, Auth, FindGame, ReadInput, BadInput, Disconnect, gameVars, vars
  <2> QED BY <2>1, <2>2, <2>3
<1> QED BY <1>1, <1>2, SessionInvariant, PTL DEF Spec, ImplementsFeed, Feed!Spec
=============================================================================
