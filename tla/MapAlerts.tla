------------------------------- MODULE MapAlerts -------------------------------
(***************************************************************************)
(* The owner and the dashboard hear about a map without Pokémon:           *)
(* ScannerStatus.rename_voice_channels, trigger_all_down_action and        *)
(* trigger_map_restored_action, in production. Nothing else reads or       *)
(* writes their state, so one tick is one step; Discord and Home Assistant *)
(* may refuse, Discord may deliver a DM and lose its answer, which the bot *)
(* takes for a refusal, and the process may restart between ticks.         *)
(*                                                                         *)
(* A unit of time is some minutes: at least one tick falls in each.       *)
(***************************************************************************)
EXTENDS Integers

CONSTANTS
    Stale,        \* STALE_POKEMON_THRESHOLD, in units
    Cooldown,     \* ALL_DOWN_REQUEST_COOLDOWN, in units
    MaxRefusals,  \* bound: notices Discord refuses
    MaxUnsure,    \* bound: notices Discord delivers without an answer
    MaxFailures,  \* bound: webhook calls and readings that fail
    MaxRestarts,  \* bound: restarts of the bot
    MaxOutages    \* bound: outages

ASSUME MapAlertsAssumption ==
    /\ Stale \in Nat \ {0} /\ Cooldown \in Nat \ {0}
    /\ MaxRefusals \in Nat /\ MaxUnsure \in Nat /\ MaxFailures \in Nat
    /\ MaxRestarts \in Nat /\ MaxOutages \in Nat

VARIABLES
    gap,       \* units since the last Pokémon, up to Stale
    cool,      \* units left of the cooldown
    alerted,   \* map_down_alerted
    downSent,  \* _map_down_discord_sent
    upSent,    \* _map_restored_dashboard_sent
    dashboard, \* input_boolean.pokemon_map_down
    \* observation
    word,      \* the last DM the owner got
    sure,      \* notify_owner said that he got it
    downs, ups,\* DMs of this outage: from one loss of Pokémon to the next
    carried,   \* down DMs of earlier outages without their recovery DM, 0 or 1
    ticked,    \* a tick has run in this unit
    unsure,    \* DMs so far that he got and notify_owner denied
    refusals, failures, restarts, outages

memory == <<cool, alerted, downSent, upSent>>
owner  == <<word, sure, downs, ups, carried, unsure>>
bounds == <<refusals, failures, restarts, outages>>
vars   == <<gap, memory, dashboard, owner, ticked, bounds>>

Flags ==
    /\ alerted \in BOOLEAN /\ downSent \in BOOLEAN /\ upSent \in BOOLEAN
    /\ ticked \in BOOLEAN /\ sure \in BOOLEAN

Ranges ==
    /\ gap \in 0..Stale
    /\ cool \in 0..Cooldown
    /\ dashboard \in {"up", "down"}
    /\ word \in {"none", "down", "up"}
    /\ downs \in Nat /\ ups \in Nat /\ carried \in 0..1
    /\ unsure \in 0..MaxUnsure
    /\ refusals \in 0..MaxRefusals /\ failures \in 0..MaxFailures
    /\ restarts \in 0..MaxRestarts /\ outages \in 0..MaxOutages

TypeOK == Flags /\ Ranges

Init ==
    /\ gap = 0
    /\ cool = 0
    /\ alerted = FALSE /\ downSent = FALSE /\ upSent = FALSE
    /\ dashboard = "up"
    /\ word = "none" /\ sure = TRUE /\ downs = 0 /\ ups = 0 /\ carried = 0 /\ unsure = 0
    /\ ticked = FALSE
    /\ refusals = 0 /\ failures = 0 /\ restarts = 0 /\ outages = 0

-------------------------------------------------------------------------------
\* A down DM without its recovery DM.
Open == IF word = "down" THEN 1 ELSE 0

\* A unit of the cooldown.
Cools == IF cool > 0 THEN cool - 1 ELSE 0

\* A unit without Pokémon; an outage begins with the first one.
Starve ==
    /\ ticked
    /\ gap = 0 => outages < MaxOutages
    /\ outages' = IF gap = 0 THEN outages + 1 ELSE outages
    /\ IF gap = 0
       THEN /\ downs' = 0 /\ ups' = 0
            /\ carried' = Open
       ELSE UNCHANGED <<downs, ups, carried>>
    /\ gap' = IF gap < Stale THEN gap + 1 ELSE gap
    /\ cool' = Cools
    /\ ticked' = FALSE
    /\ UNCHANGED <<alerted, downSent, upSent, dashboard, word, sure, unsure>>
    /\ UNCHANGED <<refusals, failures, restarts>>

\* A unit with Pokémon.
Flow ==
    /\ ticked
    /\ gap' = 0
    /\ cool' = Cools
    /\ ticked' = FALSE
    /\ UNCHANGED <<alerted, downSent, upSent, dashboard, owner, bounds>>

\* fetch_data never raises: a webhook that fails is logged.
Webhook(state) ==
    \/ dashboard' = state /\ UNCHANGED failures
    \/ failures < MaxFailures /\ failures' = failures + 1 /\ UNCHANGED dashboard

Lands(w) ==
    /\ word' = w
    /\ downs' = IF w = "down" THEN downs + 1 ELSE downs
    /\ ups' = IF w = "up" THEN ups + 1 ELSE ups
    /\ UNCHANGED <<carried, refusals>>

\* notify_owner says True.
Accepted(w) == Lands(w) /\ sure' = TRUE /\ UNCHANGED unsure

\* It says False: Discord refused the DM, ...
Refused ==
    /\ refusals < MaxRefusals
    /\ refusals' = refusals + 1
    /\ UNCHANGED owner

\* ... or delivered it, and the answer timed out or the connection broke.
Denied(w) == Lands(w) /\ sure' = FALSE /\ unsure < MaxUnsure /\ unsure' = unsure + 1

\* Mutants of TellDown: the flag is not looked at; the flag is set before
\* Discord accepts.
TellDown_Again ==
    \/ Accepted("down") /\ downSent' = TRUE
    \/ (Refused \/ Denied("down")) /\ downSent' = FALSE

TellDown_Presumed ==
    \/ ~downSent /\ Accepted("down") /\ downSent' = TRUE
    \/ ~downSent /\ (Refused \/ Denied("down")) /\ downSent' = TRUE
    \/ downSent /\ UNCHANGED <<downSent, owner, refusals>>

\* The DM is tried again until one was accepted, as far as the bot was told.
TellDown ==
    \/ ~downSent /\ Accepted("down") /\ downSent' = TRUE
    \/ ~downSent /\ (Refused \/ Denied("down")) /\ downSent' = FALSE
    \/ downSent /\ UNCHANGED <<downSent, owner, refusals>>

Stalled == gap >= Stale

\* trigger_all_down_action.
AllDown ==
    /\ Stalled
    /\ cool = 0
    /\ cool' = Cooldown
    /\ alerted' = TRUE
    /\ upSent' = FALSE
    /\ Webhook("down")
    /\ TellDown
    /\ UNCHANGED <<gap, restarts, outages>>

\* The recovery stays pending until its DM is accepted, as far as the bot was told.
Forget ==
    \/ /\ downSent
       /\ Accepted("up") /\ downSent' = FALSE /\ alerted' = FALSE
    \/ /\ downSent
       /\ Refused \/ Denied("up")
       /\ UNCHANGED <<downSent, alerted>>
    \/ ~downSent /\ alerted' = FALSE /\ UNCHANGED <<downSent, owner, refusals>>

\* trigger_map_restored_action: the dashboard is told once, delivered or not.
Restored ==
    /\ ~Stalled
    /\ alerted
    /\ IF upSent
       THEN UNCHANGED <<upSent, dashboard, failures>>
       ELSE upSent' = TRUE /\ Webhook("up")
    /\ Forget
    /\ UNCHANGED <<gap, cool, restarts, outages>>

\* Nothing to say: the cooldown runs, or nobody was alerted.
Quiet ==
    /\ \/ Stalled /\ cool > 0
       \/ ~Stalled /\ ~alerted
    /\ UNCHANGED <<gap, memory, dashboard, owner, bounds>>

\* The query of the last Pokémon fails: neither branch runs.
Unread ==
    /\ failures < MaxFailures
    /\ failures' = failures + 1
    /\ UNCHANGED <<gap, memory, dashboard, owner, refusals, restarts, outages>>

Tick ==
    /\ AllDown \/ Restored \/ Quiet \/ Unread
    /\ ticked' = TRUE

Restart ==
    /\ restarts < MaxRestarts
    /\ restarts' = restarts + 1
    /\ cool' = 0
    /\ alerted' = FALSE /\ downSent' = FALSE /\ upSent' = FALSE
    /\ UNCHANGED <<gap, dashboard, owner, ticked, refusals, failures, outages>>

Next == Starve \/ Flow \/ Tick \/ Restart

Spec == Init /\ [][Next]_vars

\* Time passes, and the scheduler ticks in every unit of it.
FairSpec == Spec /\ WF_vars(Tick) /\ WF_vars(Starve \/ Flow)

-------------------------------------------------------------------------------
\* Over any sequence of outages, refusals and pending recoveries of one process,
\* an outage has at most one down DM and one recovery DM of its own and the two
\* kinds alternate, but for as many DMs as the bot was told had failed when they had
\* not.  The flag is what the owner heard last, or the opposite if that was denied.
OneOfEach ==
    restarts = 0 =>
        /\ downs <= 1 + unsure
        /\ ups <= downs + carried - Open + unsure
        /\ downs + carried - Open <= ups + unsure
        /\ downSent <=> ((word = "down") <=> sure)

\* The owner is never left with a "down" nobody means to correct: a word that is
\* still "down" keeps the recovery pending, unless the bot was told that he did not
\* get it.
RecoveryPending == (restarts = 0 /\ word = "down" /\ sure) => alerted

\* The DMs of one process tell the story of its outages.
TruthfulDMs == OneOfEach /\ RecoveryPending

\* A flowing map that stays so is the owner's last word in the end, and the
\* dashboard's too when no call failed.  A restart forgets both, and so does a down
\* DM that landed and was denied.
RecoveryIsTold ==
    <>[](gap < Stale /\ restarts = 0) =>
        <>[](/\ word # "down" \/ ~sure
             /\ failures = 0 => dashboard = "up")

\* An outage that lasts is told, however many DMs were refused or denied; but not if
\* the recovery before it was told, denied, and still pending when the outage began.
OutageIsTold == (<>[](gap = Stale)) => <>[](word = "down" \/ (word = "up" /\ ~sure))

\* What lasts is heard, in both directions.
OwnerHearsInTheEnd == RecoveryIsTold /\ OutageIsTold
===============================================================================
