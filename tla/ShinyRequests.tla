----------------------------- MODULE ShinyRequests -----------------------------
(***************************************************************************)
(* Requests for access to the shiny map.  The site keeps one per player; a *)
(* timer's run posts each request, with two buttons, and each failed       *)
(* association to the moderators (pokedex_moderation_alert); a button      *)
(* decides the request it was made for (shiny_access_requests).  A request *)
(* or a failure is known by its time stamp.                                *)
(***************************************************************************)
EXTENDS Integers, FiniteSets

CONSTANTS
    Players,
    MaxStamps,   \* bound: requests and failed associations
    MaxBroken,   \* bound: runs of the timer that fail or die
    MaxReturns   \* bound: returns of a player while one stamp stands

ASSUME ShinyRequestsAssumption ==
    MaxStamps \in Nat /\ MaxBroken \in Nat /\ MaxReturns \in Nat

VARIABLES
    entries,   \* trade_player, and when the association failed; 0 is NULL
    files,     \* the two state files: what was told already
    timer,     \* the timer's run
    \* observation
    posted,    \* messages that named a stamp, of each kind
    decided,   \* decisions committed for a request
    slips,     \* runs that broke between a message and its record
    back,      \* times that the player of a stamp left and came back
    stamps, broken

requestVars == <<entries, files, timer, posted, decided, slips, back, stamps, broken>>

Stamps == 1..MaxStamps
Notices == {"requests", "failures"}
Other(n) == IF n = "requests" THEN "failures" ELSE "requests"

NoRun == [step |-> "read", at |-> "requests", found |-> {}, sent |-> {}]

RequestTypeOK ==
    /\ entries \in [Players -> [request : 0..MaxStamps, failure : 0..MaxStamps,
                             access : BOOLEAN, left : BOOLEAN]]
    /\ files \in [Notices -> SUBSET Stamps]
    /\ timer \in [step : {"read", "send", "save"}, at : Notices, found : SUBSET Stamps,
                  sent : SUBSET Stamps]
    /\ posted \in [Notices -> [Stamps -> Nat]] /\ decided \in [Stamps -> Nat]
    /\ back \in [Stamps -> 0..MaxReturns]
    /\ slips \in 0..MaxBroken /\ stamps \in 0..MaxStamps /\ broken \in 0..MaxBroken

RequestInit ==
    /\ entries = [p \in Players |-> [request |-> 0, failure |-> 0, access |-> FALSE, left |-> FALSE]]
    /\ files = [n \in Notices |-> {}] /\ timer = NoRun
    /\ posted = [n \in Notices |-> [s \in Stamps |-> 0]] /\ decided = [s \in Stamps |-> 0]
    /\ back = [s \in Stamps |-> 0] /\ slips = 0 /\ stamps = 0 /\ broken = 0

-------------------------------------------------------------------------------
(* The site, the linker, and the bot's record of who is in the guild.        *)

SiteSets(p, change) == entries' = [entries EXCEPT ![p] = change]
Stamped == stamps < MaxStamps /\ stamps' = stamps + 1

\* A request, which replaces one that is pending.
RequestAccess(p) ==
    /\ ~entries[p].access /\ ~entries[p].left /\ Stamped
    /\ SiteSets(p, [entries[p] EXCEPT !.request = stamps + 1])
    /\ UNCHANGED <<files, timer, posted, decided, slips, back, broken>>

LoseAccess(p) ==
    /\ entries[p].access
    /\ SiteSets(p, [entries[p] EXCEPT !.access = FALSE])
    /\ UNCHANGED <<files, timer, posted, decided, slips, back, stamps, broken>>

Leave(p) ==
    /\ ~entries[p].left
    /\ SiteSets(p, [entries[p] EXCEPT !.left = TRUE])
    /\ UNCHANGED <<files, timer, posted, decided, slips, back, stamps, broken>>

\* The mark goes and the request stays: what the timer forgot meanwhile is new to it.
Return(p) ==
    /\ entries[p].left /\ \A s \in Stamps : back[s] < MaxReturns
    /\ SiteSets(p, [entries[p] EXCEPT !.left = FALSE])
    /\ back' = [s \in Stamps |-> IF s \in {entries[p].request, entries[p].failure}
                                 THEN back[s] + 1 ELSE back[s]]
    /\ UNCHANGED <<files, timer, posted, decided, slips, stamps, broken>>

LinkFails(p) ==
    /\ entries[p].access /\ entries[p].failure = 0 /\ Stamped
    /\ SiteSets(p, [entries[p] EXCEPT !.failure = stamps + 1])
    /\ UNCHANGED <<files, timer, posted, decided, slips, back, broken>>

-------------------------------------------------------------------------------
(* The timer's run: requests, then failures, each with its own query.        *)

Pending == {entries[p].request : p \in {q \in Players : ~entries[q].left /\ ~entries[q].access}} \ {0}
Failed  == {entries[p].failure : p \in {q \in Players : ~entries[q].left /\ entries[q].access}} \ {0}
Rows(n) == IF n = "failures" THEN Failed ELSE Pending

\* What was told and still stands stays in the file.
ReadRows ==
    /\ timer.step = "read"
    /\ LET found == Rows(timer.at)
           sent  == files[timer.at] \intersect found
       IN timer' = [timer EXCEPT !.step = IF found = sent THEN "save" ELSE "send",
                                 !.found = found, !.sent = sent]
    /\ UNCHANGED <<entries, files, posted, decided, slips, back, stamps, broken>>

\* One message each, oldest first.
Oldest(s) == s \in timer.found \ timer.sent /\ \A t \in timer.found \ timer.sent : s <= t

Posts(s) == posted' = [posted EXCEPT ![timer.at][s] = @ + 1]

SendNotice(s) ==
    /\ timer.step = "send" /\ Oldest(s)
    /\ Posts(s)
    /\ timer' = [timer EXCEPT !.step = "save", !.sent = @ \union {s}]
    /\ UNCHANGED <<entries, files, decided, slips, back, stamps, broken>>

\* The file is replaced after each message.
SaveSent ==
    /\ timer.step = "save"
    /\ files' = [files EXCEPT ![timer.at] = timer.sent]
    /\ timer' = IF timer.sent # timer.found THEN [timer EXCEPT !.step = "send"]
                ELSE [NoRun EXCEPT !.at = Other(timer.at)]
    /\ UNCHANGED <<entries, posted, decided, slips, back, stamps, broken>>

\* Discord, the database or the disk refuses, and the other kind has its turn; the message may
\* have landed.  A run that dies begins anew.
RunBreaks ==
    /\ broken < MaxBroken /\ broken' = broken + 1
    /\ timer' \in {NoRun, [NoRun EXCEPT !.at = Other(timer.at)]}
    /\ \/ timer.step # "save" /\ UNCHANGED <<posted, slips>>
       \/ timer.step = "save" /\ slips' = slips + 1 /\ UNCHANGED posted
       \/ timer.step = "send" /\ slips' = slips + 1 /\ \E s \in Stamps : Oldest(s) /\ Posts(s)
    /\ UNCHANGED <<entries, files, decided, back, stamps>>

-------------------------------------------------------------------------------
(* on_interaction and decide_request: the row is locked, decided and         *)
(* committed as one.  Messages keep their buttons when Discord refuses the   *)
(* edit, and two moderators may press at once.                               *)

\* Mutant of MayDecide: any message of the player decides.
MayDecideAny(p, s) == entries[p].request # 0 /\ ~entries[p].access /\ ~entries[p].left

\* Still there, undecided, and the request the button was made for.
MayDecide(p, s) == entries[p].request = s /\ ~entries[p].access /\ ~entries[p].left

Asked(p, s) == s \in Stamps /\ posted["requests"][s] > 0

\* Accepting a player whose association had failed queues a new one.
DecideRequest(p, s, accept) ==
    /\ Asked(p, s) /\ MayDecide(p, s)
    /\ SiteSets(p, [entries[p] EXCEPT !.access = accept, !.request = 0,
                               !.failure = IF accept THEN 0 ELSE @])
    /\ decided' = [decided EXCEPT ![s] = @ + 1]
    /\ UNCHANGED <<files, timer, posted, slips, back, stamps, broken>>

-------------------------------------------------------------------------------
TimerStep == ReadRows \/ SaveSent \/ \E s \in Stamps : SendNotice(s)

RequestNext ==
    \/ \E p \in Players : RequestAccess(p) \/ LoseAccess(p) \/ Leave(p) \/ Return(p) \/ LinkFails(p)
    \/ \E p \in Players, s \in Stamps, accept \in BOOLEAN : DecideRequest(p, s, accept)
    \/ TimerStep \/ RunBreaks

RequestSpec == RequestInit /\ [][RequestNext]_requestVars

-------------------------------------------------------------------------------
(* Properties.                                                               *)

\* A request is decided once, whoever presses the buttons of whichever message; and a message is
\* repeated only when a run broke between the message and its record, or when its player left and
\* came back.
OneDecisionEach ==
    \A s \in Stamps : /\ decided[s] <= 1
                     /\ \A n \in Notices : posted[n][s] <= 1 + slips + back[s]

\* Every request reaches the moderators, and every failed association, unless it is over before:
\* again and again there is none they have not had.
EveryRequestIsPosted ==
    []<>(\A n \in Notices : \A s \in Rows(n) : posted[n][s] > 0)
===============================================================================
