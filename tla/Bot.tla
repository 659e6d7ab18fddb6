-------------------------------- MODULE Bot --------------------------------
(***************************************************************************)
(* Who plays a player's cards (pkg/game/player.go, UpdateAI).  A person's  *)
(* actions come through a connection, several in a step (Player).  The bot *)
(* has no connection: at the end of its own update it may pick a card, and *)
(* adds the action to the NEXT step (AddActionToNextStep), where it is     *)
(* executed like any other.  Meanwhile the units are updated, so a knight  *)
(* whose card was picked may die.                                          *)
(*                                                                         *)
(* The opponent is what the bot looks at: its energy, which is left open,  *)
(* and whether it has units.  How long a match goes on depends on the      *)
(* scores of both (Over).  A person's hand is watched without that.        *)
(***************************************************************************)
EXTENDS Player

CONSTANTS
    Spells,         \* the wing knights whose skill is aimed at a unit; the others build
    ThinkInterval,  \* the bot thinks in every such step
    FirstPatience,  \* patience of newPlayer
    Patiences,      \* PATIENCE_MIN + rand.Intn(PATIENCE_MAX)
    EnergyGap,      \* ENERGY_GAP
    RivalReady      \* energy of the opponent above which the bot waits at first

ASSUME BotAssumption ==
    /\ Spells \subseteq Wings
    /\ ThinkInterval \in Nat \ {0}
    /\ FirstPatience \in Nat /\ Patiences \subseteq Nat /\ Patiences # {}
    /\ EnergyGap \in Nat /\ RivalReady \in Nat

VARIABLES
    isBot,      \* the id of the player is "bot"
    tick,       \* game.step % ThinkInterval
    era,        \* the part of the match: step < 180, step < PlayTime, later
    patience,   \* player.patience
    queued,     \* the card of the action the bot added to the next step, or NoCard
    picked,     \* history: in the last update the bot had cards to pick from
    rival,      \* score of the opponent
    over,       \* game.Over()
    crashed     \* the bot has dereferenced nil, and the server is down

botVars == <<tick, era, patience, queued, picked, rival, over, crashed>>
allVars == <<vars, botVars, isBot>>

FullScore == LeaderScore + 2 * WingScore

BotInit ==
    /\ Init
    /\ isBot \in BOOLEAN
    /\ tick = 0 /\ era = "opening"
    /\ patience = FirstPatience
    /\ queued = NoCard /\ picked = FALSE
    /\ rival = FullScore
    /\ over = FALSE /\ crashed = FALSE

----------------------------------------------------------------------------
\* A person's cards: whatever Player allows.
Person == ~isBot /\ Next /\ UNCHANGED <<isBot, botVars>>

\* The bot's match goes on.
Playing == isBot /\ ~over /\ ~crashed

\* The action of the bot is executed.  Do may refuse it: the card is gone with its
\* knight, the tile is not valid, or the knight is casting.
BotDo ==
    /\ Playing /\ queued # NoCard
    /\ \/ \E slot \in Slots : hand[slot] = queued /\ Do(slot)
       \/ phase = "actions" /\ UNCHANGED vars
    /\ queued' = NoCard
    /\ UNCHANGED <<isBot, tick, era, patience, picked, rival, over, crashed>>

\* What is left after the card, once the update has added energy and drawn a card
EnergyAfterUse(card) == energy' - Cost[card]

\* Faulty variants: the price is not looked at; the bot never loses its patience.
CandidatesUnpaid(enemy) ==
    {c \in Cards : /\ \E i \in Slots : hand'[i] = c
                   /\ patience > 0 => enemy - EnergyAfterUse(c) <= EnergyGap}
CandidatesForEver(enemy) ==
    {c \in Cards : /\ \E i \in Slots : hand'[i] = c
                   /\ EnergyAfterUse(c) >= 0
                   /\ enemy - EnergyAfterUse(c) <= EnergyGap}

\* Cards the bot may pick: it can pay them and, while it is patient, does not fall too
\* far behind the opponent.
Candidates(enemy) ==
    {c \in Cards : /\ \E i \in Slots : hand'[i] = c
                   /\ EnergyAfterUse(c) >= 0
                   /\ patience > 0 => enemy - EnergyAfterUse(c) <= EnergyGap}

\* The opponent has a unit on the field: a knight, or one that was played.
HasUnits(squires) == rival > 0 \/ squires

\* Pick a card.  A spell is aimed at the opponent's most expensive unit, which is nil
\* if there is none; for another card a free tile near a random one has to be found.
Pick(card, squires, found) ==
    /\ crashed' = (card \in Spells /\ ~HasUnits(squires))
    /\ queued' = IF crashed' \/ (card \notin Spells /\ ~found) THEN NoCard ELSE card

\* UpdateAI thinks about the state the update has left.
Waits(enemy) == tick # 0 \/ (era = "opening" /\ enemy > RivalReady)

UpdateAI ==
    \E enemy \in 0..MaxEnergy :
       \/ /\ Waits(enemy)
          /\ picked' = FALSE
          /\ UNCHANGED <<patience, queued, crashed>>
       \/ /\ ~Waits(enemy)
          /\ picked' = (Candidates(enemy) # {})
          /\ \E p \in IF patience < 0 THEN Patiences ELSE {patience} :
                \/ /\ ~picked'
                   /\ patience' = p - 1
                   /\ UNCHANGED <<queued, crashed>>
                \/ /\ picked'
                   /\ patience' = p
                   /\ \E c \in Candidates(enemy), squires, found \in BOOLEAN :
                         Pick(c, squires, found)

\* Update of the player, when the actions of the step are executed
BotUpdate ==
    /\ Playing /\ queued = NoCard
    /\ Update
    /\ UpdateAI
    /\ UNCHANGED <<isBot, tick, era, rival, over>>

\* The bot's knights die as Player says ...
BotKnightDead ==
    /\ Playing
    /\ \E knight \in Knights : OnKnightDead(knight)
    /\ UNCHANGED <<isBot, botVars>>

\* ... and so do the opponent's.
RivalKnightDead ==
    /\ Playing /\ phase = "units"
    /\ \/ rival >= LeaderScore /\ rival' = rival - LeaderScore
       \/ rival % LeaderScore >= WingScore /\ rival' = rival - WingScore
    /\ UNCHANGED <<vars, isBot, tick, era, patience, queued, picked, over, crashed>>

\* Faulty variant: overtime is played to its end.
OverAtTheEnd(e) == e # "overtime" /\ (score < LeaderScore \/ rival < LeaderScore)

\* Over, at a step before the end of overtime
OverInEra(e) ==
    IF e = "overtime" THEN score # rival
    ELSE score < LeaderScore \/ rival < LeaderScore

\* The parts of the match that may come after a step
NextEra == CASE era = "opening" -> {"opening", "play"}
             [] era = "play" -> {"play", "overtime"}
             [] era = "overtime" -> {"overtime"}

\* The rest of the step; the end of overtime ends the match.
BotEndStep ==
    /\ Playing
    /\ EndStep
    /\ tick' = (tick + 1) % ThinkInterval
    /\ era' \in NextEra
    /\ era' = "opening" => ~boosted'
    /\ era' = "overtime" => boosted'
    /\ over' = OverInEra(era') \/ (era' = "overtime" /\ over' = TRUE)
    /\ UNCHANGED <<isBot, patience, queued, picked, rival, crashed>>

\* A match that is over, or a server that is down, stays so.
BotEnd == isBot /\ (over \/ crashed) /\ UNCHANGED allVars

BotNext ==
    \/ Person
    \/ BotDo \/ BotUpdate \/ BotKnightDead \/ RivalKnightDead \/ BotEndStep \/ BotEnd

BotSpec == BotInit /\ [][BotNext]_allVars

(***************************************************************************)
(* The ticker keeps the steps coming, and a step runs to its end.          *)
(***************************************************************************)
BotFairness ==
    /\ WF_allVars(Person /\ (Update \/ EndStep))
    /\ WF_allVars(BotDo) /\ WF_allVars(BotUpdate) /\ WF_allVars(BotEndStep)

BotFairSpec == BotSpec /\ BotFairness

----------------------------------------------------------------------------
\* Types of all variables.
BotTypeOK ==
    /\ TypeOK
    /\ isBot \in BOOLEAN
    /\ tick \in 0..ThinkInterval-1
    /\ era \in {"opening", "play", "overtime"}
    /\ patience \in Int
    /\ queued \in Cards \cup {NoCard} /\ picked \in BOOLEAN
    /\ rival \in 0..FullScore
    /\ over \in BOOLEAN /\ crashed \in BOOLEAN

\* A card the bot picked after its update can still be paid when the action is executed
\* in the next step: what is refused there is refused for its tile or its knight.
PickAffordable ==
    \A c \in Cards :
        phase = "actions" /\ queued = c /\ InHand(c) => Affordable(c)

\* UpdateAI takes a unit of the opponent for granted when it aims a spell
\* (player.go:217), and nil would take the server down.  There always is one: while a
\* knight of the opponent lives it is one, and in a match that goes on without one the bot
\* has lost its knights as well, and with them the cards of their spells.
BotFindsTarget == ~crashed

\* Past the opening, the bot does not hold back for ever, however much energy the
\* opponent saves: it loses its patience before it can be starved of candidates.
BotKeepsPlaying == (isBot /\ era # "opening") ~> (picked \/ over \/ crashed)

\* A slot that becomes empty is filled again, whatever cards are used meanwhile.
SlotsRefilled == \A i \in Slots : hand[i] = NoCard ~> (hand[i] # NoCard \/ over \/ crashed)
=============================================================================
