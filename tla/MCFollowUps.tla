------------------------------ MODULE MCFollowUps ------------------------------
(* Work that others do, and that the bot follows to its end and tells of; the    *)
(* two parts share nothing: `which` says whose behaviour this is, and the other  *)
(* keeps its initial state.                                                      *)
(* LureJobs: two lure types for one stop; two jobs may share a lock key.         *)
(* OwnerRuns: two messages.                                                      *)
EXTENDS LureJobs, OwnerRuns

CONSTANTS normal, mossy, stop

VARIABLE which

BothTypes == {normal, mossy}
OneType == {normal}
OneStop == {stop}
SameKey == [o \in Orders |-> stop]

followVars == <<which, vars, runVars>>

FollowInit == which \in {"lures", "owner"} /\ Init /\ RunInit

FollowNext ==
    \/ which = "lures" /\ Next /\ UNCHANGED <<which, runVars>>
    \/ which = "owner" /\ RunNext /\ UNCHANGED <<which, vars>>

\* The fairness of each component's own specification.
FollowFairSpec ==
    /\ FollowInit /\ [][FollowNext]_followVars
    /\ WF_vars(which = "lures" /\ Poller)
    /\ \A j \in Commands :
          /\ WF_vars(which = "lures" /\ server[j] \in Open /\ ServerWorks(j))
          /\ SF_vars(which = "lures" /\ Poll(j))
          /\ SF_vars(which = "lures" /\ Announce(j))
    /\ \A m \in Msgs : WF_runVars(which = "owner" /\ TurnStep(m))

\* The lures alone.
LuresSpec == FollowInit /\ which = "lures" /\ [][FollowNext]_followVars

\* Every variable of the components keeps its type.
FollowTypeOK == TypeOK /\ RunTypeOK

\* Nothing that was begun is left: every lure job that is on record is followed to its outcome,
\* and every message of the owner to its end (FollowedToTheEnd and EveryTurnEnds in one).
NothingIsLeft == []<>(NothingOpen /\ NobodyWaits)
===============================================================================
