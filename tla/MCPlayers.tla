-------------------------------- MODULE MCPlayers --------------------------------
(* The jobs that write to players and the rules of their alert channels, which  *)
(* share nothing: `which` says whose behaviour this is, and the others keep     *)
(* their initial state.                                                         *)
(* TradeNotices: a day of one and a half minutes; two recipients, one per tick.  *)
EXTENDS TradeNotices, ShinyRequests, ShinyAccess, ShinyAlerts, PoracleRules

VARIABLE which

MCTo == [p \in Pairs |-> IF p = "a" THEN 1 ELSE 2]

playersVars == <<which, tradeVars, requestVars, shinyVars, alertVars, ruleVars>>

TradeOnly(A) ==
    which = "trade" /\ A /\ UNCHANGED <<which, requestVars, shinyVars, alertVars, ruleVars>>
RequestOnly(A) ==
    which = "request" /\ A /\ UNCHANGED <<which, tradeVars, shinyVars, alertVars, ruleVars>>
AccessOnly(A) ==
    which = "access" /\ A /\ UNCHANGED <<which, tradeVars, requestVars, alertVars, ruleVars>>
AlertsOnly(A) ==
    which = "alerts" /\ A /\ UNCHANGED <<which, tradeVars, requestVars, shinyVars, ruleVars>>
RulesOnly(A) ==
    which = "rules" /\ A /\ UNCHANGED <<which, tradeVars, requestVars, shinyVars, alertVars>>

\* The components whose initial state is not unique have one of theirs where they rest.
PlayersInit ==
    /\ which \in {"trade", "request", "access", "alerts", "rules"}
    /\ TradeInit /\ RequestInit /\ ShinyInit /\ AlertInit /\ RulesInit
    /\ which # "trade" => sender = "dm"
    /\ which # "access" => on
    /\ which # "alerts" => mark = 0
    /\ which # "rules" => \A c \in Channels : humans[c] = "unknown"

PlayersNext ==
    \/ TradeOnly(TradeNext)
    \/ RequestOnly(RequestNext)
    \/ AccessOnly(ShinyNext)
    \/ AlertsOnly(AlertsNext)
    \/ RulesOnly(RulesNext)

SendStep == \E p \in Pairs : SendDM(To[p]) \/ PostMatches(To[p])

PlayersFairSpec ==
    /\ PlayersInit /\ [][PlayersNext]_playersVars
    /\ WF_tradeVars(which = "trade" /\ TradeTick)
    /\ WF_tradeVars(which = "trade" /\ SendStep)
    /\ WF_tradeVars(which = "trade" /\ Passes)
    /\ WF_requestVars(which = "request" /\ TimerStep)
    /\ WF_shinyVars(which = "access" /\ HolderStep)
    /\ WF_shinyVars(which = "access" /\ TickStep)

\* Every variable of the components keeps its type.
PlayersTypeOK ==
    TradeTypeOK /\ RequestTypeOK /\ ShinyTypeOK /\ AlertTypeOK /\ RulesTypeOK

\* Nobody waits for ever: not a trade, a request, a save, nor a channel to be hidden.
PlayersAreServed ==
    EveryTradeIsTold /\ EveryRequestIsPosted /\ OffIsHidden /\ SavesAreConfirmed
===============================================================================
