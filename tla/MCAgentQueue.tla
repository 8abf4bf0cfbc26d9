----------------------------- MODULE MCAgentQueue -----------------------------
(* AgentQueue on small instances; the bounds come from the configurations. *)
EXTENDS AgentQueue

\* Two jobs are told of, and one of them may ask twice.  A third one is there for the limit of
\* two: behaviours that have it are those in which the bot has delivered nothing, which neither
\* the limit nor the worker looks at, and in which every job asks once.
Untold ==
    /\ mail = {}
    /\ \A j \in Jobs : notified[j] = {} /\ \A r \in Revs : sends[j][r] = 0

AskTwice == {j \in Jobs : ViewRev(j) > 1}

QueueSpec ==
    Init /\ [][Next /\ (IF submitted > 2 THEN Untold /\ AskTwice = {}
                                         ELSE \A i, j \in AskTwice : i = j)']_vars
===============================================================================
