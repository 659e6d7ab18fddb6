---------------------------- MODULE MatchQueue ----------------------------
(***************************************************************************)
(* Finding an opponent: the lobby's match requests (pkg/lobby/match.go)    *)
(* and the matchmaker (cmd/matchmaker/main.go).                            *)
(*                                                                         *)
(* The lobby keeps the waiting players in a redis hash.  Once a second the *)
(* matchmaker runs a script in redis that pairs them, oldest request first,*)
(* and removes the pairs from the hash; a goroutine for each pair then     *)
(* numbers the game and asks the game server for it.  Redis runs a script  *)
(* or a command alone, so each is one action.                              *)
(*                                                                         *)
(* Requests are numbered here, so that the same player's requests can be   *)
(* told apart; the program does not number them.                           *)
(***************************************************************************)
EXTENDS Integers, Sequences, FiniteSets

CONSTANTS
    Players,        \* ids of the players
    Ranks,          \* the ranks a player may have when requesting
    T1, T2, T3,     \* the waiting times the script is called with
    D1, D2,         \* the differences in rank it is called with
    MaxRequests,    \* bound: requests accepted in all
    MaxCrashes      \* bound: crashes of the matchmaker

ASSUME QueueAssumption ==
    /\ Ranks \subseteq Nat
    /\ T1 \in Nat /\ T2 \in Nat /\ T3 \in Nat /\ T1 <= T2 /\ T2 <= T3
    /\ D1 \in Nat /\ D2 \in Nat /\ D1 <= D2
    /\ MaxRequests \in Nat /\ MaxCrashes \in Nat

VARIABLES
    queue,      \* the hash match-queue: one entry for each waiting player
    requests,   \* number of requests accepted so far
    cancelled,  \* history: the requests that were cancelled
    jobs,       \* the goroutines in createMatch: a pair and the game's number
    created,    \* history: the games the game server was asked for
    lost,       \* history: the requests a crash has made away with
    gameId,     \* nextgameid
    crashes     \* number of crashes so far

vars == <<queue, requests, cancelled, jobs, created, lost, gameId, crashes>>

Requests == 1..MaxRequests
Bot == 0        \* stands for the second request of a game against the bot
Unnumbered == 0 \* the number of a game before INCR

\* Waiting longer than this makes no difference to the script.
MaxWait == T3 + 1

Entry == [n : Requests, who : Players, rank : Ranks, wait : 0..MaxWait]
Job == [first : Requests, second : Requests \cup {Bot}, game : Nat]

Init ==
    /\ queue = {}
    /\ requests = 0
    /\ cancelled = {}
    /\ jobs = {}
    /\ created = {}
    /\ lost = {}
    /\ gameId = 0
    /\ crashes = 0

----------------------------------------------------------------------------
\* HSETNX sets the entry only if there is none: "already queued".
NotQueued(p) == \A e \in queue : e.who # p

\* match.request: the rank is read and pushed with the current time.
Request(p) ==
    /\ requests < MaxRequests
    /\ NotQueued(p)
    /\ requests' = requests + 1
    /\ \E r \in Ranks :
          queue' = queue \cup {[n |-> requests + 1, who |-> p, rank |-> r, wait |-> 0]}
    /\ UNCHANGED <<cancelled, jobs, created, lost, gameId, crashes>>

\* match.cancel: too late once the script has taken the entry.
Cancel(p) ==
    /\ \E e \in queue :
          /\ e.who = p
          /\ queue' = queue \ {e}
          /\ cancelled' = cancelled \cup {e.n}
    /\ UNCHANGED <<requests, jobs, created, lost, gameId, crashes>>

\* A second passes.
Second ==
    /\ queue' = {[e EXCEPT !.wait = IF @ < MaxWait THEN @ + 1 ELSE @] : e \in queue}
    /\ queue' # queue
    /\ UNCHANGED <<requests, cancelled, jobs, created, lost, gameId, crashes>>

----------------------------------------------------------------------------
\* The script

RankDiff(a, b) == IF a.rank < b.rank THEN b.rank - a.rank ELSE a.rank - b.rank

\* matchable: the longer both have waited, the further apart they may be.
Matchable(a, b) ==
    \/ RankDiff(a, b) < D1
    \/ RankDiff(a, b) < D2 /\ a.wait > T1 /\ b.wait > T1
    \/ RankDiff(a, b) >= D2 /\ a.wait > T2 /\ b.wait > T2

\* The entries as table.sort may order them: by time, equal times in any order.
Sorted == {o \in [1..Cardinality(queue) -> queue] :
              \A i, j \in DOMAIN o : i < j => o[i] # o[j] /\ o[i].wait >= o[j].wait}

\* Faulty variant: the last one that fits is picked, however far away.
LastOf(o, i, C) == CHOOSE j \in C : \A k \in C : k <= j

\* The first of the closest in rank among the candidates C for the i-th entry.
Closest(o, i, C) ==
    CHOOSE j \in C : \A k \in C :
        \/ RankDiff(o[i], o[j]) < RankDiff(o[i], o[k])
        \/ RankDiff(o[i], o[j]) = RankDiff(o[i], o[k]) /\ j <= k

\* Faulty variants: a player who is picked is tried again; nobody gets the bot.
CandidatesAll(o, i, taken) == {j \in i+1..Len(o) : Matchable(o[i], o[j])}
NeverAlone(e) == FALSE

\* Later entries that are not picked yet and fit the i-th
Candidates(o, i, taken) == {j \in i+1..Len(o) : j \notin taken /\ Matchable(o[i], o[j])}

\* An entry nobody fits is matched with the bot in the end.
AloneTooLong(e) == e.wait > T3

\* One round of the loop, for the i-th entry: "taken" are the places that were set to nil
\* before, "pairs" the pairs of requests found so far.
Round(o, i, before) ==
    LET C == Candidates(o, i, before.taken)
        j == Closest(o, i, C)
    IN  IF i \in before.taken THEN before
        ELSE IF C # {}
        THEN [taken |-> before.taken \cup {j},
              pairs |-> before.pairs \cup {<<o[i].n, o[j].n>>}]
        ELSE IF AloneTooLong(o[i])
        THEN [before EXCEPT !.pairs = @ \cup {<<o[i].n, Bot>>}]
        ELSE before

\* The loop over the entries, oldest first
Rounds(o) ==
    LET loop[i \in 0..Len(o)] ==
          IF i = 0 THEN [taken |-> {}, pairs |-> {}] ELSE Round(o, i, loop[i - 1])
    IN  loop

\* The pairs of requests the script returns for the order o.
Pairs(o) == Rounds(o)[Len(o)].pairs

\* matchMake: the script pairs the players and removes them, a goroutine is started for
\* each pair.
MatchMake ==
    /\ \E pairs \in {Pairs(o) : o \in Sorted} \ {{}} :
          /\ queue' = {e \in queue : \A m \in pairs : e.n # m[1] /\ e.n # m[2]}
          /\ jobs' = jobs \cup {[first |-> m[1], second |-> m[2], game |-> Unnumbered] : m \in pairs}
    /\ UNCHANGED <<requests, cancelled, created, lost, gameId, crashes>>

----------------------------------------------------------------------------
\* Faulty variant of INCR: the new value is not stored.
StoredNever == gameId

\* nextgameid after INCR
Stored == gameId + 1

\* createMatch: the data of both players are read and the game gets its number ...
NumberGame(j) ==
    /\ j.game = Unnumbered
    /\ gameId' = Stored
    /\ jobs' = (jobs \ {j}) \cup {[j EXCEPT !.game = gameId + 1]}
    /\ UNCHANGED <<queue, requests, cancelled, created, lost, crashes>>

\* ... and requestToGameServer sends it.
RequestGame(j) ==
    /\ j.game # Unnumbered
    /\ jobs' = jobs \ {j}
    /\ created' = created \cup {j}
    /\ UNCHANGED <<queue, requests, cancelled, lost, gameId, crashes>>

RequestsOf(J) == (UNION {{j.first, j.second} : j \in J}) \ {Bot}

\* Any goroutine panics, for one when the game server cannot be reached, and takes the
\* process down; it is started again.  The script has removed the pairs already.
Crash ==
    /\ crashes < MaxCrashes
    /\ crashes' = crashes + 1
    /\ jobs' = {}
    /\ lost' = lost \cup RequestsOf(jobs)
    /\ UNCHANGED <<queue, requests, cancelled, created, gameId>>

Next ==
    \/ \E p \in Players : Request(p) \/ Cancel(p)
    \/ Second \/ MatchMake \/ Crash
    \/ \E j \in jobs : NumberGame(j) \/ RequestGame(j)

Spec == Init /\ [][Next]_vars

\* Time passes, the ticker of the matchmaker fires, and its goroutines proceed.
Fairness ==
    /\ WF_vars(Second) /\ WF_vars(MatchMake)
    /\ WF_vars(\E j \in jobs : NumberGame(j)) /\ WF_vars(\E j \in jobs : RequestGame(j))

FairSpec == Spec /\ Fairness

----------------------------------------------------------------------------
\* Types of all variables.
TypeOK ==
    /\ queue \subseteq Entry
    /\ requests \in 0..MaxRequests
    /\ cancelled \subseteq Requests /\ lost \subseteq Requests
    /\ jobs \subseteq Job /\ created \subseteq Job
    /\ gameId \in Nat
    /\ crashes \in 0..MaxCrashes

\* No request is forgotten or served twice: it is in the queue, cancelled, in exactly one
\* game that is being created or was asked for, or a crash has lost it; and a player
\* waits with one request at a time.
OneFate ==
    /\ \A n \in 1..requests :
          Cardinality({e \in queue : e.n = n})
          + Cardinality({j \in jobs \cup created : n \in RequestsOf({j})})
          + Cardinality({n} \cap cancelled) + Cardinality({n} \cap lost) = 1
    /\ \A d, e \in queue : d.who = e.who => d = e

\* Two games never get the same number, with any number of goroutines at INCR.
GamesNumberedApart ==
    \A i, j \in jobs \cup created : i.game = j.game => i = j \/ i.game = Unnumbered

\* The jobs the script has just created, the entries of their requests, with a person and
\* with the bot
Made == {j \in jobs' \ jobs : j.game = Unnumbered}
EntryOf(n) == CHOOSE e \in queue : e.n = n
MadePairs == {<<EntryOf(j.first), EntryOf(j.second)>> : j \in {k \in Made : k.second # Bot}}
MadeAlone == {EntryOf(j.first) : j \in {k \in Made : k.second = Bot}}

\* The script leaves nobody in the queue who could have been matched: no two that fit,
\* and no one who has waited longer than T3.
NoneLeftBehind ==
    [][Made # {} =>
          /\ \A d, e \in queue' : d # e => ~Matchable(d, e)
          /\ \A e \in queue' : e.wait <= T3]_vars

\* Who is left without a match, or with the bot, fits neither of a pair, having waited
\* longer than both.
Left == queue' \cup MadeAlone
NobodyPassedOver(m) ==
    \A e \in Left : e.wait > m[1].wait /\ e.wait > m[2].wait
                      => ~Matchable(e, m[1]) /\ ~Matchable(e, m[2])

\* Nobody is closer in rank to the first of a pair than the second is, among those who have
\* waited less and were free: they are left, or in a pair of somebody who waited less.
NobodyCloser(m) ==
    LET later == {k \in MadePairs : k[1].wait < m[1].wait}
    IN  \A d \in Left \cup UNION {{k[1], k[2]} : k \in later} :
            d.wait < m[1].wait /\ Matchable(m[1], d)
                => RankDiff(m[1], m[2]) <= RankDiff(m[1], d)

\* The pairs are made oldest first: of two players who are matched, neither fits someone
\* who has waited longer than both and is left without a match or with the bot; and nobody
\* is matched further away than with someone who waited less and was still free, since
\* that one is left as well or was matched with somebody who waited less.
OldestFirst ==
    [][Made # {} => \A m \in MadePairs : NobodyPassedOver(m) /\ NobodyCloser(m)]_vars

\* A queue in which somebody waits is empty in the end, and so are the goroutines that
\* create games: everyone gets an opponent, at worst the bot, however often others are
\* preferred.
EveryoneServed == (queue # {} \/ jobs # {}) ~> (queue = {} /\ jobs = {})
=============================================================================
