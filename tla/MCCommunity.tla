------------------------------- MODULE MCCommunity -------------------------------
(* What the bot keeps for its members, in components that share nothing here:    *)
(* `which` says whose behaviour this is, and the others keep their initial state. *)
(* EventNotices: copies of one event, and another event beside them, which is to *)
(* start at moment 1 unless the feed moves it.                                   *)
(* TrapChannel: one author wrote twice.                                          *)
EXTENDS EventNotices, ScanAreas, SpawnHistory, TrapChannel, Membership, TLC

CONSTANTS c1, c2, c3, other

VARIABLE which

Symmetry == Permutations({c1, c2, c3})
MCAuthor == [m \in Traps |-> IF m = 3 THEN "b" ELSE "a"]

communityVars == <<which, vars, areaVars, historyVars, trapVars, memberVars>>

\* A component whose initial state is not unique has one of them where it rests.
CommunityInit ==
    /\ which \in {"calendar", "areas", "history", "trap", "members"}
    /\ Init /\ AreasInit /\ HistoryInit /\ TrapInit /\ MembershipInit
    /\ which = "calendar" => feed[other].start = 1
    /\ which # "calendar" => feed = [e \in Events |-> Unlisted]
    /\ which # "areas" => registry = {} /\ drawn = NoFence
    /\ which # "trap" => modChannel
    /\ which # "members" => inGuild = {}

CommunityNext ==
    \/ /\ which = "calendar" /\ Next
       /\ UNCHANGED <<which, areaVars, historyVars, trapVars, memberVars>>
    \/ /\ which = "areas" /\ AreasNext
       /\ UNCHANGED <<which, vars, historyVars, trapVars, memberVars>>
    \/ /\ which = "history" /\ HistoryNext
       /\ UNCHANGED <<which, vars, areaVars, trapVars, memberVars>>
    \/ /\ which = "trap" /\ TrapNext
       /\ UNCHANGED <<which, vars, areaVars, historyVars, memberVars>>
    \/ /\ which = "members" /\ MembershipNext
       /\ UNCHANGED <<which, vars, areaVars, historyVars, trapVars>>

CommunitySpec == CommunityInit /\ [][CommunityNext]_communityVars

\* Every variable of the components keeps its type.
CommunityTypeOK ==
    TypeOK /\ AreasTypeOK /\ HistoryTypeOK /\ TrapTypeOK /\ MembershipTypeOK

\* The site knows who is a member (MarksAreKept), and the trap leaves no ban behind
\* (TrapHolds).
MembersAreKept == MarksAreKept /\ TrapHolds
==================================================================================
