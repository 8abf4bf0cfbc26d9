---------------------------- MODULE StatusChannel ----------------------------
(***************************************************************************)
(* The voice channel whose name shows whether the map is being scanned     *)
(* (modules/scanner_status.py, the end of rename_voice_channels). Every    *)
(* tick sums the workers of the areas Dragonite reports on into a status   *)
(* and renames the channel when it differs from the name last written.     *)
(* Discord takes RenameBudget renames in a window, so attempts are counted *)
(* and a rename past the budget waits for a later tick.                    *)
(*                                                                         *)
(* Times are ages in ticks; RenameWindow is the window of 600 seconds.     *)
(***************************************************************************)
EXTENDS Integers, Sequences, FiniteSets, Functions

CONSTANTS
    Zones,         \* areas of the registry that are active
    Workers,       \* workers an area expects at most
    RenameBudget,
    RenameWindow

ASSUME StatusChannelAssumption ==
    /\ IsFiniteSet(Zones)
    /\ Workers \in Nat
    /\ {RenameBudget, RenameWindow} \subseteq Nat \ {0}

Statuses == {"green", "red", "cross"}
Unwritten == "unwritten"

VARIABLES
    showing,     \* the name of the channel
    written,   \* channelStatusName
    attempts,  \* ages of _rename_attempts, oldest first
    patches,   \* observation: ages of the renames sent by this process
    current,   \* observation: the status of the last tick
    steady,    \* observation: ticks since it changed or a rename failed
    doubt      \* observation: a rename that failed had taken effect

channelVars == <<showing, written, attempts, patches, current, steady, doubt>>

-------------------------------------------------------------------------------
\* get_workers_with_issues: what is known of an area. One that is missing from
\* the answer, or whose whole answer is missing, is unknown.
Unknown == [down |-> -1, expected |-> -1]
WorkerCounts == {c \in [down: 0..Workers, expected: 0..Workers] : c.down <= c.expected}
Readings == [Zones -> WorkerCounts \union {Unknown}]

Total(reading, f(_)) == FoldFunction(LAMBDA c, sum: f(c) + sum, 0, reading)

\* _get_combined_status_indicator: nothing is guessed when an area is unknown.
Indicator(reading) ==
    LET down == Total(reading, LAMBDA c : c.down)
        expected == Total(reading, LAMBDA c : c.expected)
    IN  IF Zones = {} \/ Unknown \in Range(reading) THEN "unknown"
        ELSE IF expected > 0 /\ down >= expected THEN "red" ELSE "green"

\* get_status_message: no data and a phone that is gone both show the cross.
Message(indicator, connected) ==
    IF indicator = "unknown" \/ (indicator = "red" /\ ~connected) THEN "cross"
    ELSE indicator

-------------------------------------------------------------------------------
ChannelTypeOK ==
    /\ showing \in Statuses \union {Unwritten}
    /\ written \in Statuses \union {Unwritten}
    /\ {attempts, patches} \subseteq Seq(0..RenameWindow)
    /\ current \in Statuses \union {Unwritten}
    /\ steady \in 0..RenameWindow
    /\ doubt \in BOOLEAN

ChannelInit ==
    /\ showing = Unwritten /\ written = Unwritten /\ current = Unwritten
    /\ attempts = <<>> /\ patches = <<>>
    /\ steady = 0 /\ doubt = FALSE

\* _rename_budget_available: a tick later, what left the window at the front is
\* popped, up to the first that did not.
Popped(ages) ==
    CHOOSE n \in 0..Len(ages) :
        /\ \A i \in 1..n : ages[i] + 1 >= RenameWindow
        /\ n < Len(ages) => ages[n + 1] + 1 < RenameWindow

Recent(ages) ==
    [i \in 1..(Len(ages) - Popped(ages)) |-> ages[Popped(ages) + i] + 1]

BudgetAvailable(ages) == Len(ages) < RenameBudget
ShouldUpdate(status) == status # written

\* A timeout is taken for Discord's rate limit: the window counts as spent.
Spent(ages, how) ==
    ages \o [i \in 1..(IF how = "timeout" THEN RenameBudget + 1 ELSE 1) |-> 0]

\* channel.edit: it may take effect although the call fails.
Outcomes == {"ok", "timeout", "error"}

Rename(status, how, landed) ==
    LET left == Recent(attempts) IN
    /\ how = "ok" => landed
    /\ showing' = IF landed THEN status ELSE showing
    /\ written' = IF how = "ok" THEN status ELSE written
    /\ attempts' = Spent(left, how)
    /\ patches' = Append(Recent(patches), 0)
    /\ doubt' = (how # "ok" /\ (doubt \/ landed))
    /\ steady' = IF how # "ok" \/ status # current THEN 0
                 ELSE IF steady < RenameWindow THEN steady + 1 ELSE steady

\* Nothing to write, no budget left, or (`found` is FALSE) no channel.
Keep(status, found) ==
    LET left == Recent(attempts) IN
    /\ attempts' = IF ShouldUpdate(status) THEN left ELSE
                   [i \in DOMAIN attempts |->
                        IF attempts[i] < RenameWindow THEN attempts[i] + 1 ELSE attempts[i]]
    /\ patches' = Recent(patches)
    /\ steady' = IF ~found \/ status # current THEN 0
                 ELSE IF steady < RenameWindow THEN steady + 1 ELSE steady
    /\ UNCHANGED <<showing, written, doubt>>

RenameVoiceChannel(reading, connected) ==
    LET status  == Message(Indicator(reading), connected)
        renames == ShouldUpdate(status) /\ BudgetAvailable(Recent(attempts))
    IN  /\ current' = status
        /\ \/ ~renames /\ Keep(status, TRUE)
           \/ renames /\ Keep(status, FALSE)
           \/ /\ renames
              /\ \E how \in Outcomes, landed \in BOOLEAN : Rename(status, how, landed)

\* A new process has no name written and no attempt counted.
ChannelRestart ==
    /\ written' = Unwritten /\ attempts' = <<>> /\ patches' = <<>>
    /\ steady' = 0
    /\ UNCHANGED <<showing, current, doubt>>

ChannelNext ==
    \/ \E reading \in Readings, connected \in BOOLEAN :
           RenameVoiceChannel(reading, connected)
    \/ ChannelRestart

-------------------------------------------------------------------------------
\* One process never sends more renames in a window than Discord takes.
WithinBudget == Len(patches) <= RenameBudget

\* A status that has lasted for a window, in which no rename failed, is on the
\* channel, unless an earlier rename took effect that was taken for failed.
StatusIsShown == steady >= RenameWindow /\ ~doubt => showing = current

\* What the bot takes the channel's name to be is right, with the same exception.
WrittenIsShown == written # Unwritten /\ ~doubt => showing = written

\* What the status channel promises its readers.
ChannelIsRight == WithinBudget /\ StatusIsShown /\ WrittenIsShown

=============================================================================
