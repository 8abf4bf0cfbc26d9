------------------------------ MODULE MCOperations ------------------------------
(* The components behind the channels, which share nothing: `which` says whose   *)
(* behaviour this is, and the others keep their initial state.                   *)
(* MapAlerts: units of 2.5 minutes, an outage after 10 and a cooldown of 15.     *)
(* StackRecovery: the ladder of the code, 5 and 15 minutes, in units of 5.       *)
(* MonitoringRelay: two of the three alerts are about the same name.             *)
(* DatabaseConnector: two queries and a transaction of two statements.           *)
(* PublicReplies: two questions and one slot.                                    *)
EXTENDS MapAlerts, StackRecovery, MonitoringRelay, ScannerUpdate, DatabaseConnector,
        PublicReplies

CONSTANTS q1, q2, t

VARIABLE which

FiveFifteen == <<1, 3>>
MCName == [k \in Checks |-> IF k = "c" THEN 2 ELSE 1]

partVars == <<vars, stackVars, relayVars, updateVars, connVars, replyVars>>
allVars  == <<which, partVars>>

OperationsInit ==
    /\ which \in {"map", "stack", "relay", "update", "connector", "public"}
    /\ Init /\ StackInit /\ RelayInit /\ UpdateInit /\ ConnInit /\ RepliesInit
    /\ which # "stack" => ~inUse /\ ~enabled
    /\ which # "update" => kind = "db"

OperationsNext ==
    \/ /\ which = "map" /\ Next
       /\ UNCHANGED <<which, stackVars, relayVars, updateVars, connVars, replyVars>>
    \/ /\ which = "stack" /\ StackNext
       /\ UNCHANGED <<which, vars, relayVars, updateVars, connVars, replyVars>>
    \/ /\ which = "relay" /\ RelayNext
       /\ UNCHANGED <<which, vars, stackVars, updateVars, connVars, replyVars>>
    \/ /\ which = "update" /\ UpdateNext
       /\ UNCHANGED <<which, vars, stackVars, relayVars, connVars, replyVars>>
    \/ /\ which = "connector" /\ ConnNext
       /\ UNCHANGED <<which, vars, stackVars, relayVars, updateVars, replyVars>>
    \/ /\ which = "public" /\ RepliesNext
       /\ UNCHANGED <<which, vars, stackVars, relayVars, updateVars, connVars>>

\* The fairness of each component's own specification.
OperationsFairSpec ==
    /\ OperationsInit /\ [][OperationsNext]_allVars
    /\ WF_vars(which = "map" /\ Tick) /\ WF_vars(which = "map" /\ (Starve \/ Flow))
    /\ WF_stackVars(which = "stack" /\ Observe)
    /\ WF_stackVars(which = "stack" /\ TimePasses)
    /\ SF_stackVars(which = "stack" /\ Allowed)
    /\ \A c \in Calls : WF_connVars(which = "connector" /\ CallStep(c))
    /\ WF_replyVars(which = "public" /\ SomeAnswer)
    /\ WF_replyVars(which = "public" /\ WorkerStep)

\* Every variable of the components keeps its type.
OperationsTypeOK ==
    /\ TypeOK /\ StackTypeOK /\ RelayTypeOK /\ UpdateTypeOK /\ ConnTypeOK
    /\ RepliesTypeOK

\* Nobody who asks is left waiting: neither a caller of the database nor a member with a
\* question.
EveryoneIsAnswered == EveryCallSettles /\ EveryQuestionIsAnswered
===============================================================================
