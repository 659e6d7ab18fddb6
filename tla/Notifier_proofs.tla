-------------------------- MODULE Notifier_proofs --------------------------
(***************************************************************************)
(* Proofs about Notifier for any number of connections, games and players. *)
(* What is proved of the game server in GameServer_proofs is used here.    *)
(***************************************************************************)
EXTENDS Notifier, TLAPS

Rooms == INSTANCE GameServer_proofs

\* The states of a connection that is in the map, and past the look-up in redis
Open == {"check", "arm", "read", "failed"}
Served == {"arm", "read", "failed"}

\* The subscriber passes a game on to its players.  The connection it has looked up belongs
\* to one of them, also if it was closed or replaced meanwhile.
MailInv ==
    /\ mail.todo # {} => mail.game \in Games /\ mail.todo \subseteq Sides[mail.game]
    /\ mail.conn # NoConn => /\ user[mail.conn] \in mail.todo
                             /\ at[mail.conn] \in Open \cup {"closed"}

\* What is on its way was published, after its keys were written.
Unpublished == {"none", "asked", "registered", "recorded"}
Published ==
    \A g \in Games :
        \/ \E i \in DOMAIN topic : topic[i] = g
        \/ mail.todo # {} /\ mail.game = g
        => stage[g] \notin Unpublished

\* The subscriber will tell the player on the present connection: not if it has looked up
\* one that was replaced since.
WillTell(g, p) ==
    \/ \E i \in DOMAIN topic : topic[i] = g
    \/ /\ mail.game = g /\ p \in mail.todo
       /\ mail.conn # NoConn /\ user[mail.conn] = p => mail.conn = clients[p]

Informed ==
    \A p \in Players, g \in Games :
        /\ clients[p] # NoConn /\ at[clients[p]] \in Served
        /\ p \in Sides[g] /\ stage[g] = "announced"
        => g \in told[clients[p]] \/ WillTell(g, p) \/ g \in missed[clients[p]]

\* A connection that is open has authenticated.
Authenticated == \A c \in Conns : at[c] \in Open => user[c] \in Players

NotifierInv ==
    TypeOK /\ Authenticated /\ RegisteredOpen /\ MailInv /\ Published /\ (OneEach => Informed)

\* Seen from the game server, every step of the notifier is a step of the server, the
\* receipt of a game, or nothing.
LEMMA ServerStep == [Next]_vars => [Rooms!Next]_Rooms!serverVars
<1> SUFFICES ASSUME [Next]_vars
             PROVE  [Rooms!Next]_Rooms!serverVars
  OBVIOUS
<1>1. CASE GameServing
  BY <1>1 DEF GameServing, Rooms!Next, Rooms!ServerNext, Rooms!Ask, Server!Ask,
     Rooms!Advance, Server!Advance, Rooms!Rivals, Server!Rivals, Rooms!Released, Server!Released,
     Rooms!Proceed, Server!Proceed, Rooms!Register, Server!Register, Rooms!Record, Server!Record,
     Rooms!Recorded, Server!Recorded, Rooms!Publish, Server!Publish, Rooms!GameOver,
     Server!GameOver, Rooms!Forget, Server!Forget, Rooms!Clear, Server!Clear, Rooms!Cleared,
     Server!Cleared, Rooms!SaveResult, Server!SaveResult, Rooms!Crash, Server!Crash,
     Rooms!Announcing, Server!Announcing, Rooms!Running, Server!Running, Rooms!Ending,
     Server!Ending
<1>2. CASE Receive
  BY <1>2 DEF Receive, Rooms!Next, Rooms!Received
<1>3. CASE UNCHANGED serverVars
  BY <1>3 DEF serverVars, Rooms!serverVars
<1>4. CASE \E c \in Conns : Accept(c) \/ Proceed(c) \/ Read(c)
  BY <1>3, <1>4 DEF Accept, Proceed, AuthFails, Auth, Check, Arm, Close, Read, Heartbeat, ReadFails
<1>5. CASE Subscribe \/ Tell \/ (\E p \in Players : LookUp(p)) \/ StopListening \/ StopClients \/ Exit
  BY <1>3, <1>5 DEF Subscribe, Tell, LookUp, StopListening, StopClients, Exit
<1>6. CASE UNCHANGED vars
  BY <1>3, <1>6 DEF vars, serverVars
<1> QED
  BY <1>1, <1>2, <1>4, <1>5, <1>6 DEF Next, Subscriber

\* The invariant of the game server holds next to the notifier.
LEMMA ServerInvariantHere == Spec => []Rooms!ServerInv
<1>1. Init => Rooms!Init
  BY DEF Init, Server!Init, Rooms!Init
<1>2. Spec => Rooms!Spec
  BY <1>1, ServerStep, PTL DEF Spec, Rooms!Spec
<1>3. Rooms!ServerAssumption
  BY NotifierAssumption DEF Server!ServerAssumption, Rooms!ServerAssumption
<1>4. Rooms!Spec => []Rooms!ServerInv
  BY <1>3, Rooms!ServerInvariant
<1> QED
  BY <1>2, <1>4, PTL

LEMMA NotifierInit == Init => NotifierInv
<1> SUFFICES ASSUME Init PROVE NotifierInv
  OBVIOUS
<1>1. TypeOK
  BY DEF Init, TypeOK
<1>2. Authenticated /\ RegisteredOpen /\ MailInv
  BY NotifierAssumption DEF Init, Authenticated, RegisteredOpen, MailInv, Open
<1>3. Published /\ Informed
  BY DEF Init, Server!Init, Published, Informed
<1> QED
  BY <1>1, <1>2, <1>3 DEF NotifierInv

\* What is used of the game server's invariant.
ServerFacts ==
    /\ stage \in [Games -> Rooms!Stage]
    /\ key \in [Players -> Games \cup {NoGame}]
    /\ topic \in Seq(Games)
    /\ OneEach => \A g \in Games : \A p \in Sides[g] : stage[g] = "announced" => key[p] = g

LEMMA ServerKnown == Rooms!ServerInv => ServerFacts
BY DEF Rooms!ServerInv, Rooms!TypeOK, Rooms!RejoinPossible, ServerFacts

----------------------------------------------------------------------------
(* The goroutine of a connection *)

\* A connection that moves on without touching the map keeps the invariant.
LEMMA MovesStep ==
    ASSUME NotifierInv, ServerFacts, NEW c \in Conns,
           Accept(c) \/ AuthFails(c) \/ Heartbeat(c) \/ ReadFails(c) \/ Arm(c)
    PROVE  NotifierInv'
<1> USE DEF NotifierInv
<1>1. /\ UNCHANGED <<user, told, missed, clients, subscribed, mail, main, serverVars>>
      /\ expired' \in [Conns -> BOOLEAN]
  BY DEF Accept, AuthFails, Heartbeat, ReadFails, Arm, Step, TypeOK
<1>2. PICK from, to : /\ at[c] = from /\ at' = [at EXCEPT ![c] = to]
                      /\ \/ from = "none" /\ to = "auth"
                         \/ from = "auth" /\ to = "closed"
                         \/ from \in Served /\ to \in Served
  BY DEF Accept, AuthFails, Heartbeat, ReadFails, Arm, Step, Served
<1>3. TypeOK'
  BY <1>1, <1>2 DEF TypeOK, Served, serverVars
<1>4. \A d \in Conns : /\ at[d] \in Open <=> at'[d] \in Open
                       /\ at[d] \in Served <=> at'[d] \in Served
                       /\ at[d] = "closed" => at'[d] = "closed"
  BY <1>2 DEF TypeOK, Open, Served
<1>5. RegisteredOpen'
  BY <1>1, <1>4 DEF RegisteredOpen, Open, TypeOK
<1>6. MailInv'
  BY <1>1, <1>4 DEF MailInv, TypeOK
<1>7. Published'
  BY <1>1 DEF Published, serverVars
<1>8. (OneEach => Informed)'
  BY <1>1, <1>4 DEF Informed, WillTell, serverVars, TypeOK
<1>9. Authenticated'
  BY <1>1, <1>4 DEF Authenticated, TypeOK
<1> QED
  BY <1>3, <1>5, <1>6, <1>7, <1>8, <1>9

LEMMA AuthStep ==
    ASSUME NotifierInv, ServerFacts, NEW c \in Conns, Auth(c)
    PROVE  NotifierInv'
<1> USE DEF NotifierInv
<1>1. PICK p \in Players :
         /\ user' = [user EXCEPT ![c] = p]
         /\ expired' = [d \in Conns |-> expired[d] \/ d = clients[p]]
         /\ clients' = [clients EXCEPT ![p] = c]
  BY DEF Auth
<1>2. /\ at[c] = "auth" /\ at' = [at EXCEPT ![c] = "check"]
      /\ UNCHANGED <<told, missed, subscribed, mail, main, serverVars>>
  BY DEF Auth, Step
<1>3. TypeOK'
  BY <1>1, <1>2 DEF TypeOK
<1>4. \A q \in Players : clients[q] # c
  BY <1>2, NotifierAssumption DEF RegisteredOpen
<1>5. RegisteredOpen'
  BY <1>1, <1>2, <1>4, NotifierAssumption DEF RegisteredOpen, TypeOK
<1>6. mail.conn # c
  BY <1>2, NotifierAssumption DEF MailInv, Open
<1>7. MailInv'
  BY <1>1, <1>2, <1>6 DEF MailInv, TypeOK
<1>8. Published'
  BY <1>2 DEF Published, serverVars
<1>9. (OneEach => Informed)'
  <2> SUFFICES ASSUME OneEach, NEW q \in Players, NEW g \in Games, clients'[q] # NoConn,
                      at'[clients'[q]] \in Served, q \in Sides[g], stage'[g] = "announced"
               PROVE  g \in told'[clients'[q]] \/ WillTell(g, q)' \/ g \in missed'[clients'[q]]
    BY DEF Informed
  <2>1. q # p
    BY <1>1, <1>2 DEF TypeOK, Served
  <2>2. clients'[q] = clients[q] /\ at'[clients[q]] = at[clients[q]]
    BY <1>1, <1>2, <1>4, <2>1 DEF TypeOK
  <2>3. g \in told[clients[q]] \/ WillTell(g, q) \/ g \in missed[clients[q]]
    BY <1>2, <2>2 DEF Informed, serverVars
  <2>4. mail.conn # NoConn => user'[mail.conn] = user[mail.conn]
    BY <1>1, <1>6 DEF TypeOK
  <2>5. WillTell(g, q) => WillTell(g, q)'
    BY <1>2, <2>2, <2>4 DEF WillTell, serverVars
  <2> QED
    BY <1>2, <2>2, <2>3, <2>5
<1>10. Authenticated'
  BY <1>1, <1>2 DEF Authenticated, TypeOK, Open
<1> QED
  BY <1>3, <1>5, <1>7, <1>8, <1>9, <1>10

\* The look-up finds the game the player is in, since its keys are written by then.
LEMMA CheckStep ==
    ASSUME NotifierInv, ServerFacts, NEW c \in Conns, Check(c)
    PROVE  NotifierInv'
<1> USE DEF NotifierInv
<1>1. /\ at[c] = "check" /\ at' = [at EXCEPT ![c] = "arm"]
      /\ UNCHANGED <<user, expired, clients, subscribed, mail, main, serverVars>>
  BY DEF Check, Step
<1>a. PICK found \in {{key[user[c]]} \ {NoGame}, {}} :
         /\ told' = [told EXCEPT ![c] = @ \cup found]
         /\ missed' = IF found = {key[user[c]]} \ {NoGame} THEN missed
                      ELSE [missed EXCEPT ![c] = PublishedGames(c)]
  BY DEF Check, RecordedGame
<1>2. TypeOK'
  <2>1. user[c] \in Players
    BY <1>1 DEF Authenticated, Open
  <2>2. found \in SUBSET Games
    BY <2>1 DEF ServerFacts
  <2>3. missed' \in [Conns -> SUBSET Games]
    BY <1>a DEF TypeOK, PublishedGames
  <2> QED
    BY <1>1, <1>a, <2>2, <2>3 DEF TypeOK
<1>3. RegisteredOpen'
  BY <1>1 DEF RegisteredOpen, TypeOK
<1>4. MailInv'
  BY <1>1 DEF MailInv, TypeOK, Open
<1>5. Published'
  BY <1>1 DEF Published, serverVars
<1>6. (OneEach => Informed)'
  <2> SUFFICES ASSUME OneEach, NEW q \in Players, NEW g \in Games, clients'[q] # NoConn,
                      at'[clients'[q]] \in Served, q \in Sides[g], stage'[g] = "announced"
               PROVE  g \in told'[clients'[q]] \/ WillTell(g, q)' \/ g \in missed'[clients'[q]]
    BY DEF Informed
  <2>1. clients'[q] = clients[q] /\ clients[q] \in Conns /\ stage[g] = "announced"
    BY <1>1 DEF TypeOK, serverVars
  <2>2. CASE clients[q] = c
    <3>1. user[c] = q
      BY <2>1, <2>2 DEF RegisteredOpen
    <3>2. key[q] = g /\ g # NoGame
      BY <2>1, NotifierAssumption DEF ServerFacts, Server!ServerAssumption
    <3>3. CASE found = {key[user[c]]} \ {NoGame}
      BY <1>a, <2>1, <2>2, <3>1, <3>2, <3>3 DEF TypeOK
    <3>4. CASE found # {key[user[c]]} \ {NoGame}
      BY <1>a, <2>1, <2>2, <3>1, <3>4 DEF TypeOK, PublishedGames
    <3> QED
      BY <3>3, <3>4
  <2>3. CASE clients[q] # c
    <3>1. /\ at'[clients[q]] = at[clients[q]] /\ told'[clients[q]] = told[clients[q]]
          /\ missed'[clients[q]] = missed[clients[q]]
      BY <1>1, <1>a, <2>1, <2>3 DEF TypeOK
    <3>2. WillTell(g, q) => WillTell(g, q)'
      BY <1>1 DEF WillTell, serverVars
    <3> QED
      BY <2>1, <3>1, <3>2 DEF Informed
  <2> QED
    BY <2>2, <2>3
<1>7. Authenticated'
  BY <1>1 DEF Authenticated, TypeOK, Open
<1> QED
  BY <1>2, <1>3, <1>4, <1>5, <1>6, <1>7

LEMMA CloseStep ==
    ASSUME NotifierInv, ServerFacts, NEW c \in Conns, Close(c)
    PROVE  NotifierInv'
<1> USE DEF NotifierInv
<1>1. /\ at[c] = "failed" /\ at' = [at EXCEPT ![c] = "closed"]
      /\ clients' = [clients EXCEPT ![user[c]] = NoConn]
      /\ told' = [told EXCEPT ![c] = {}] /\ missed' = [missed EXCEPT ![c] = {}]
      /\ UNCHANGED <<user, expired, subscribed, mail, main, serverVars>>
  BY DEF Close, Step, Unregistered
<1>2. TypeOK'
  BY <1>1 DEF TypeOK
<1>3. \A q \in Players : clients'[q] # NoConn =>
          /\ clients'[q] = clients[q] /\ clients[q] \in Conns /\ clients[q] # c
          /\ at'[clients[q]] = at[clients[q]]
          /\ told'[clients[q]] = told[clients[q]] /\ missed'[clients[q]] = missed[clients[q]]
  BY <1>1 DEF TypeOK, RegisteredOpen
<1>4. RegisteredOpen'
  BY <1>1, <1>3 DEF RegisteredOpen, TypeOK
<1>5. MailInv'
  BY <1>1 DEF MailInv, TypeOK
<1>6. Published'
  BY <1>1 DEF Published, serverVars
<1>7. (OneEach => Informed)'
  BY <1>1, <1>3 DEF Informed, WillTell, serverVars
<1>8. Authenticated'
  BY <1>1 DEF Authenticated, TypeOK, Open
<1> QED
  BY <1>2, <1>4, <1>5, <1>6, <1>7, <1>8

----------------------------------------------------------------------------
(* The goroutine of the subscriber *)

LEMMA SubscribeStep ==
    ASSUME NotifierInv, Subscribe
    PROVE  NotifierInv'
BY DEF Subscribe, NotifierInv, connVars, serverVars, TypeOK, Authenticated, RegisteredOpen, MailInv,
   Published, Informed, WillTell

LEMMA ReceiveStep ==
    ASSUME NotifierInv, ServerFacts, Receive
    PROVE  NotifierInv'
<1> USE DEF NotifierInv
<1> DEFINE h == Head(topic)
<1>1. /\ mail.todo = {} /\ topic # <<>> /\ topic' = Tail(topic)
      /\ mail' = [game |-> h, todo |-> Sides[h], conn |-> NoConn]
      /\ UNCHANGED <<stage, games, key, stop, crashes, at, user, expired, told, missed, clients,
                     subscribed, main>>
  BY DEF Receive, connVars
<1>2. /\ h \in Games /\ Len(topic) \in Nat /\ 1 \in DOMAIN topic /\ h = topic[1]
      /\ DOMAIN topic = 1..Len(topic)
  BY <1>1 DEF ServerFacts
<1>3. \A i \in DOMAIN topic' : i + 1 \in DOMAIN topic /\ topic'[i] = topic[i + 1]
  BY <1>1, <1>2 DEF ServerFacts
<1>4. \A i \in DOMAIN topic : i # 1 => i - 1 \in DOMAIN topic' /\ topic'[i - 1] = topic[i]
  BY <1>1, <1>2 DEF ServerFacts
<1> HIDE DEF h
<1>5. Sides[h] \subseteq Players
  BY <1>2, NotifierAssumption DEF Server!ServerAssumption
<1>6. TypeOK'
  BY <1>1, <1>2, <1>5 DEF TypeOK
<1>7. RegisteredOpen'
  BY <1>1 DEF RegisteredOpen
<1>8. MailInv'
  BY <1>1, <1>2 DEF MailInv
<1>9. Published'
  BY <1>1, <1>2, <1>3 DEF Published
<1>10. (OneEach => Informed)'
  <2> SUFFICES ASSUME OneEach, NEW q \in Players, NEW g \in Games, clients[q] # NoConn,
                      at[clients[q]] \in Served, q \in Sides[g], stage[g] = "announced"
               PROVE  g \in told[clients[q]] \/ WillTell(g, q)' \/ g \in missed[clients[q]]
    BY <1>1 DEF Informed
  <2>1. \/ g \in told[clients[q]] \/ g \in missed[clients[q]]
        \/ \E i \in DOMAIN topic : topic[i] = g
    BY <1>1 DEF Informed, WillTell
  <2>2. ASSUME NEW i \in DOMAIN topic, topic[i] = g
        PROVE  WillTell(g, q)'
    <3>1. CASE i = 1
      BY <1>1, <1>2, <2>2, <3>1 DEF WillTell
    <3>2. CASE i # 1
      BY <1>4, <2>2, <3>2 DEF WillTell
    <3> QED
      BY <3>1, <3>2
  <2> QED
    BY <2>1, <2>2
<1>11. Authenticated'
  BY <1>1 DEF Authenticated
<1> QED
  BY <1>6, <1>7, <1>8, <1>9, <1>10, <1>11

LEMMA LookUpStep ==
    ASSUME NotifierInv, ServerFacts, NEW p \in Players, LookUp(p)
    PROVE  NotifierInv'
<1> USE DEF NotifierInv
<1>1. /\ p \in mail.todo /\ mail.conn = NoConn
      /\ mail' = [mail EXCEPT !.conn = clients[p],
                              !.todo = IF clients[p] = NoConn THEN mail.todo \ {p} ELSE mail.todo]
      /\ UNCHANGED <<at, user, expired, told, missed, clients, subscribed, main, serverVars>>
  BY DEF LookUp, TodoAfter, connVars
<1>2. /\ mail'.game = mail.game /\ mail'.conn = clients[p]
      /\ mail'.todo = IF clients[p] = NoConn THEN mail.todo \ {p} ELSE mail.todo
  BY <1>1 DEF TypeOK
<1>3. TypeOK'
  BY <1>1 DEF TypeOK
<1>4. RegisteredOpen'
  BY <1>1 DEF RegisteredOpen
<1>5. MailInv'
  BY <1>1, <1>2 DEF MailInv, RegisteredOpen, Open
<1>6. Published'
  BY <1>1, <1>2 DEF Published, serverVars
<1>7. (OneEach => Informed)'
  <2> SUFFICES ASSUME OneEach, NEW q \in Players, NEW g \in Games, clients[q] # NoConn,
                      at[clients[q]] \in Served, q \in Sides[g], stage[g] = "announced"
               PROVE  g \in told[clients[q]] \/ WillTell(g, q)' \/ g \in missed[clients[q]]
    BY <1>1 DEF Informed, serverVars
  <2>1. g \in told[clients[q]] \/ WillTell(g, q) \/ g \in missed[clients[q]]
    BY DEF Informed
  <2>2. user[clients[q]] = q
    BY DEF RegisteredOpen
  <2>3. WillTell(g, q) => WillTell(g, q)'
    BY <1>1, <1>2, <2>2 DEF WillTell, RegisteredOpen, serverVars
  <2> QED
    BY <2>1, <2>3
<1>8. Authenticated'
  BY <1>1 DEF Authenticated
<1> QED
  BY <1>3, <1>4, <1>5, <1>6, <1>7, <1>8

\* A connection that has taken the place of the one that was looked up has found the game
\* itself.
LEMMA TellStep ==
    ASSUME NotifierInv, ServerFacts, Tell
    PROVE  NotifierInv'
<1> USE DEF NotifierInv
<1> DEFINE u == user[mail.conn]
<1>1. /\ mail.conn # NoConn
      /\ told' = [c \in Conns |-> IF c = mail.conn /\ at[c] # "closed"
                                  THEN told[c] \cup {mail.game} ELSE told[c]]
      /\ mail' = [mail EXCEPT !.conn = NoConn, !.todo = @ \ {u}]
      /\ UNCHANGED <<at, user, expired, missed, clients, subscribed, main, serverVars>>
  BY DEF Tell
<1>2. /\ mail'.game = mail.game /\ mail'.conn = NoConn /\ mail'.todo = mail.todo \ {u}
      /\ mail.game \in Games /\ mail.conn \in Conns
  BY <1>1 DEF TypeOK, MailInv
<1>3. TypeOK'
  BY <1>1, <1>2 DEF TypeOK
<1>4. RegisteredOpen'
  BY <1>1 DEF RegisteredOpen
<1>5. MailInv'
  BY <1>2 DEF MailInv
<1>6. Published'
  BY <1>1, <1>2 DEF Published, serverVars
<1>7. (OneEach => Informed)'
  <2> SUFFICES ASSUME OneEach, NEW q \in Players, NEW g \in Games, clients[q] # NoConn,
                      at[clients[q]] \in Served, q \in Sides[g], stage[g] = "announced"
               PROVE  g \in told'[clients[q]] \/ WillTell(g, q)' \/ g \in missed[clients[q]]
    BY <1>1 DEF Informed, serverVars
  <2>1. clients[q] \in Conns /\ at[clients[q]] # "closed"
    BY DEF TypeOK, Served
  <2>2. told[clients[q]] \subseteq told'[clients[q]]
    BY <1>1, <2>1
  <2>3. CASE mail.game = g /\ q = u /\ mail.conn = clients[q]
    BY <1>1, <2>1, <2>3
  <2>4. CASE WillTell(g, q) /\ ~(mail.game = g /\ q = u /\ mail.conn = clients[q])
    BY <1>1, <1>2, <2>4 DEF WillTell, serverVars
  <2> QED
    BY <2>2, <2>3, <2>4 DEF Informed
<1>8. Authenticated'
  BY <1>1 DEF Authenticated
<1> QED
  BY <1>3, <1>4, <1>5, <1>6, <1>7, <1>8

----------------------------------------------------------------------------
(* The main goroutine and the game server *)

LEMMA MainStep ==
    ASSUME NotifierInv, StopListening \/ StopClients \/ Exit
    PROVE  NotifierInv'
<1> USE DEF NotifierInv
<1>1. /\ UNCHANGED <<at, user, told, missed, clients, subscribed, mail, serverVars>>
      /\ expired' \in [Conns -> BOOLEAN]
      /\ main' \in {"deaf", "waiting", "exited"}
  BY DEF StopListening, StopClients, Exit, connVars, TypeOK
<1>2. TypeOK'
  BY <1>1 DEF TypeOK
<1> QED
  BY <1>1, <1>2 DEF Authenticated, RegisteredOpen, MailInv, Published, Informed, WillTell, serverVars

LEMMA ServingStep ==
    ASSUME NotifierInv, ServerFacts, GameServing, Deliver,
           UNCHANGED <<at, user, expired, told, clients, subscribed, mail, main>>
    PROVE  NotifierInv'
<1> USE DEF NotifierInv
<1>0. /\ missed' \in [Conns -> SUBSET Games]
      /\ \A c \in Conns : missed[c] \subseteq missed'[c]
  BY DEF Deliver, Publishing, TypeOK
<1>1. TypeOK' /\ Authenticated' /\ RegisteredOpen' /\ MailInv'
  BY <1>0 DEF TypeOK, Authenticated, RegisteredOpen, MailInv
<1>2. SUFFICES Published' /\ (OneEach => Informed)'
  BY <1>1
<1>3. \A q \in Players : clients[q] # NoConn => clients[q] \in Conns
  BY DEF TypeOK
<1>4. ASSUME UNCHANGED topic,
             \A h \in Games : /\ stage'[h] = "announced" => stage[h] = "announced"
                              /\ stage[h] \notin Unpublished => stage'[h] \notin Unpublished
      PROVE  Published' /\ (OneEach => Informed)'
  <2>1. Published'
    BY <1>4 DEF Published
  <2>2. (OneEach => Informed)'
    BY <1>0, <1>3, <1>4 DEF Informed, WillTell
  <2> QED
    BY <2>1, <2>2
<1>5. ASSUME NEW g \in Games, Server!Publish(g)
      PROVE  Published' /\ (OneEach => Informed)'
  <2>1. /\ stage[g] = "recorded" /\ stage' = [stage EXCEPT ![g] = "announced"]
        /\ stage'[g] = "announced" /\ g \in Publishing
    BY <1>5 DEF Server!Publish, Server!Advance, ServerFacts, Publishing
  <2>2. \A h \in Games : h # g => stage'[h] = stage[h]
    BY <2>1 DEF ServerFacts
  <2>3. topic' = IF subscribed THEN Append(topic, g) ELSE topic
    BY <2>1 DEF Deliver
  <2>4. /\ \A i \in DOMAIN topic : i \in DOMAIN topic' /\ topic'[i] = topic[i]
        /\ \A i \in DOMAIN topic' : topic'[i] = g \/ (i \in DOMAIN topic /\ topic'[i] = topic[i])
        /\ subscribed => \E i \in DOMAIN topic' : topic'[i] = g
    <3>1. CASE subscribed
      <4>1. /\ topic' \in Seq(Games) /\ Len(topic) \in Nat /\ Len(topic') = Len(topic) + 1
            /\ DOMAIN topic = 1..Len(topic) /\ DOMAIN topic' = 1..Len(topic) + 1
        BY <2>3, <3>1 DEF ServerFacts
      <4>2. /\ topic'[Len(topic) + 1] = g
            /\ \A i \in 1..Len(topic) : topic'[i] = topic[i]
        BY <2>3, <3>1 DEF ServerFacts
      <4> QED
        BY <4>1, <4>2
    <3>2. CASE ~subscribed
      BY <2>3, <3>2
    <3> QED
      BY <3>1, <3>2
  <2>5. Published'
    BY <2>1, <2>2, <2>4 DEF Published, Unpublished
  <2>6. (OneEach => Informed)'
    <3> SUFFICES ASSUME OneEach, NEW q \in Players, NEW h \in Games, clients[q] # NoConn,
                        at[clients[q]] \in Served, q \in Sides[h], stage'[h] = "announced"
                 PROVE  h \in told[clients[q]] \/ WillTell(h, q)' \/ h \in missed'[clients[q]]
      BY DEF Informed
    <3>1. CASE h = g /\ subscribed
      BY <2>4, <3>1 DEF WillTell
    <3>2. CASE h = g /\ ~subscribed
      <4>1. user[clients[q]] = q /\ clients[q] \in Conns
        BY <1>3 DEF RegisteredOpen
      <4> QED
        BY <2>1, <3>2, <4>1 DEF Deliver, Served
    <3>3. CASE h # g
      <4>1. h \in told[clients[q]] \/ WillTell(h, q) \/ h \in missed[clients[q]]
        BY <2>2, <3>3 DEF Informed
      <4>2. WillTell(h, q) => WillTell(h, q)'
        BY <2>4 DEF WillTell
      <4> QED
        BY <1>0, <1>3, <4>1, <4>2
    <3> QED
      BY <3>1, <3>2, <3>3
  <2> QED
    BY <2>5, <2>6
<1>6. ASSUME NEW g \in Games,
             \/ Server!Ask(g) \/ Server!Register(g) \/ Server!Record(g)
             \/ Server!GameOver(g) \/ Server!Forget(g) \/ Server!Clear(g) \/ Server!SaveResult(g)
      PROVE  Published' /\ (OneEach => Informed)'
  BY <1>4, <1>6 DEF Server!Ask, Server!Register, Server!Record, Server!GameOver, Server!Forget,
     Server!Clear, Server!SaveResult, Server!Advance, ServerFacts, Unpublished
<1>7. CASE Server!Crash
  BY <1>4, <1>7 DEF Server!Crash, ServerFacts, Unpublished, Server!Announcing, Server!Running,
     Server!Ending
<1> QED
  BY <1>5, <1>6, <1>7 DEF GameServing, Server!Proceed

----------------------------------------------------------------------------
\* The inductive invariant of the notifier, next to the game server's.
THEOREM NotifierInvariant == Spec => []NotifierInv
<1>1. NotifierInv /\ ServerFacts /\ [Next]_vars => NotifierInv'
  <2> SUFFICES ASSUME NotifierInv, ServerFacts, [Next]_vars
               PROVE  NotifierInv'
    OBVIOUS
  <2>1. CASE UNCHANGED vars
    BY <2>1 DEF vars, NotifierInv, TypeOK, Authenticated, RegisteredOpen, MailInv, Published,
       Informed, WillTell
  <2>2. CASE Next
    BY <2>2, MovesStep, AuthStep, CheckStep, CloseStep, SubscribeStep, ReceiveStep, LookUpStep, TellStep,
       MainStep, ServingStep DEF Next, Read, Proceed, Subscriber
  <2> QED
    BY <2>1, <2>2
<1> QED
  BY <1>1, NotifierInit, ServerInvariantHere, ServerKnown, PTL DEF Spec

\* The variables keep their types.
THEOREM NotifierTypes == Spec => []TypeOK
<1>1. NotifierInv => TypeOK
  BY DEF NotifierInv
<1> QED
  BY <1>1, NotifierInvariant, PTL

\* However many connections of a player come and go, the one in the map is the player's and
\* not closed.
THEOREM RegisteredAreOpen == Spec => []RegisteredOpen
<1>1. NotifierInv => RegisteredOpen
  BY DEF NotifierInv
<1> QED
  BY <1>1, NotifierInvariant, PTL

\* If no player is in two games at once, nobody who is registered misses a game that was
\* created while the player connected, was connected twice or was looked up, also when the
\* game server crashes, but for games that redis kept from the connection: one published before
\* the notifier subscribed and after the look-up, or one the look-up failed to find.
THEOREM NobodyMissesAGame == OneEach /\ Spec => []NoMissedGame
<1> SUFFICES ASSUME OneEach
             PROVE  Spec => []NoMissedGame
  OBVIOUS
<1>1. NotifierInv => NoMissedGame
  BY DEF NotifierInv, Informed, WillTell, NoMissedGame, OnItsWay, Served
<1> QED
  BY <1>1, NotifierInvariant, PTL

\* With its own part hidden, the notifier is the game server with a subscriber: it takes the
\* games out of the topic in their order and does nothing else to the server.
THEOREM NotifierServesServer == Spec => Server!Spec
<1>1. Init => Server!Init
  BY DEF Init
<1>2. [Next]_vars => [Server!Next]_Server!serverVars
  <2> SUFFICES ASSUME [Next]_vars
               PROVE  [Server!Next]_Server!serverVars
    OBVIOUS
  <2>1. CASE GameServing
    BY <2>1 DEF GameServing, Server!Next, Server!ServerNext
  <2>2. CASE Receive
    BY <2>2 DEF Receive, Server!Next, Server!Received
  <2>3. CASE UNCHANGED serverVars
    BY <2>3 DEF serverVars, Server!serverVars
  <2>4. CASE \E c \in Conns : Accept(c) \/ Proceed(c) \/ Read(c)
    BY <2>3, <2>4 DEF Accept, Proceed, AuthFails, Auth, Check, Arm, Close, Read, Heartbeat,
       ReadFails
  <2>5. CASE Subscribe \/ Tell \/ (\E p \in Players : LookUp(p)) \/ StopListening \/ StopClients \/ Exit
    BY <2>3, <2>5 DEF Subscribe, Tell, LookUp, StopListening, StopClients, Exit
  <2>6. CASE UNCHANGED vars
    BY <2>3, <2>6 DEF vars, serverVars
  <2> QED
    BY <2>1, <2>2, <2>4, <2>5, <2>6 DEF Next, Subscriber
<1> QED
  BY <1>1, <1>2, PTL DEF Spec, Server!Spec
=============================================================================
