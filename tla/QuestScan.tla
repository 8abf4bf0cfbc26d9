------------------------------- MODULE QuestScan -------------------------------
(***************************************************************************)
(* The daily quest scan as the bot sees it: Scheduled._check_quest_scan_   *)
(* progress, one tick a minute, over ScannerManager's row (last_scanned_   *)
(* date, scanned) and ScannerStatus's plateau detector. The scanner itself *)
(* is outside: the number of live quests of an area climbs to a ceiling,   *)
(* and at midnight yesterday's rows may still read as valid for a while.   *)
(*                                                                         *)
(* Every await whose failure or interleaving matters is a step of its own. *)
(* A step that raises ends the tick (_run_tick_step logs it).              *)
(***************************************************************************)
EXTENDS Integers, FiniteSets, Functions

CONSTANTS
    Areas,         \* active registry areas
    MaxCount,      \* bound: quests of an area
    PlateauTicks,  \* PLATEAU_TICKS
    StuckTicks,    \* STUCK_TICKS
    QuietTicks,    \* PLATEAU_RESET_QUIET_PERIOD, in ticks
    FloorNum, FloorDen,  \* COMPLETION_FLOOR
    LeftoverTicks, \* bound: ticks yesterday's rows outlive midnight
    MaxDays,       \* bound: midnights
    MaxTroubles    \* bound: of all kinds together, see troubles

ASSUME QuestScanAssumption ==
    /\ IsFiniteSet(Areas) /\ Areas # {}
    /\ {MaxCount, FloorNum, FloorDen, PlateauTicks} \subseteq Nat \ {0}
    /\ FloorNum <= FloorDen
    /\ StuckTicks \in Nat /\ StuckTicks >= PlateauTicks
    /\ {QuietTicks, LeftoverTicks, MaxDays, MaxTroubles} \subseteq Nat

Counts == 0..MaxCount
None == -1

VARIABLES
    \* the scanner
    count,     \* live quests of each area
    leftover,  \* areas whose live quests are yesterday's
    moved,     \* areas whose count changed since the last check
    alive,     \* a worker is executing
    \* the poliswag row
    rolled,    \* last_scanned_date is before today
    scanned,   \* scanned = 1
    expected,  \* quest_expected_<area>
    \* ScannerStatus and Scheduled, in memory
    prev, flat,   \* _quest_plateau
    quiet,     \* ticks left of the quiet period
    cache,     \* _expected_totals, or None in every area
    embedded,  \* _last_progress_embed_state
    pointer,   \* quest_scanning_message is set
    \* the tick
    pc,        \* which await it is at
    seen,      \* the counts it read
    toRecord,  \* areas whose total is still to be recorded
    \* the channel
    shown,     \* what the scan's message in QUEST_CHANNEL says
    \* observation
    still,     \* ticks the true count of an area has not moved
    lit,       \* the scanner was alive at one of those ticks
    age,       \* ticks since midnight, while leftovers are there
    old, stood,\* areas of an earlier day, and `still`, when `seen` was read
    rescanned, \* a !scan was accepted since `seen` was read
    finished,  \* the scan asked for last (midnight, !scan) was completed
    lost,      \* the last completion notice failed or was cut off (or is of an
               \* earlier process)
    days, troubles

scanner == <<count, leftover, moved, alive, age>>
row     == <<rolled, scanned, expected>>
plateau == <<prev, flat, quiet>>
memory  == <<plateau, cache, embedded, pointer>>
stillness == <<still, lit>>
reading == <<seen, toRecord, old, stood>>
ghost   == <<finished, lost>>
bounds  == <<days, troubles>>
vars    == <<scanner, row, memory, pc, reading, shown, stillness, rescanned, ghost, bounds>>

\* A !scan; a step that raises; a failure between the two writes of a day change;
\* a restart of the bot.
Troubles == {"rescan", "fault", "start", "crash"}

Trouble(k) ==
    /\ FoldFunction(+, 0, troubles) < MaxTroubles
    /\ troubles' = [troubles EXCEPT ![k] = @ + 1]

Zero == [a \in Areas |-> 0]
NoCounts == [a \in Areas |-> None]

TypeOK ==
    /\ count \in [Areas -> Counts]
    /\ leftover \subseteq Areas /\ moved \subseteq Areas /\ alive \in BOOLEAN
    /\ age \in 0..LeftoverTicks
    /\ rolled \in BOOLEAN /\ scanned \in BOOLEAN /\ expected \in [Areas -> Counts]
    /\ prev \in [Areas -> Counts \cup {None}] /\ flat \in [Areas -> 0..StuckTicks]
    /\ quiet \in 0..QuietTicks
    /\ cache \in [Areas -> Counts] \cup {NoCounts}
    /\ embedded \in [Areas -> Counts] \cup {NoCounts}
    /\ pointer \in BOOLEAN
    /\ pc \in {"idle", "reopen", "announce", "check", "alive", "tracked", "export",
               "mark", "record", "show", "progress"}
    /\ seen \in [Areas -> Counts]
    /\ toRecord \subseteq Areas /\ old \subseteq Areas
    /\ shown \in {"none", "started", "progress", "done", "deleted"}
    /\ still \in [Areas -> 0..StuckTicks] /\ stood \in [Areas -> 0..StuckTicks]
    /\ lit \in [Areas -> BOOLEAN]
    /\ rescanned \in BOOLEAN /\ finished \in BOOLEAN /\ lost \in BOOLEAN
    /\ days \in 0..MaxDays /\ troubles \in [Troubles -> 0..MaxTroubles]

Init ==
    /\ count = Zero /\ leftover = {} /\ moved = {} /\ alive \in BOOLEAN /\ age = 0
    /\ rolled = TRUE /\ scanned \in BOOLEAN
    /\ expected \in [Areas -> Counts]
    /\ prev = NoCounts /\ flat = Zero /\ quiet = QuietTicks
    /\ cache = NoCounts /\ embedded = NoCounts /\ pointer = FALSE
    /\ pc = "idle" /\ seen = Zero /\ toRecord = {} /\ old = {} /\ stood = Zero
    /\ shown = "none" /\ still = Zero /\ lit = [a \in Areas |-> FALSE]
    /\ rescanned = FALSE /\ finished = FALSE /\ lost = TRUE
    /\ days = 0 /\ troubles = [k \in Troubles |-> 0]

-------------------------------------------------------------------------------
\* The scanner, the calendar and the mods.

Scan(a) ==
    /\ a \notin leftover \cup moved
    /\ count[a] < MaxCount
    /\ count' = [count EXCEPT ![a] = @ + 1]
    /\ moved' = moved \cup {a}
    /\ still' = [still EXCEPT ![a] = 0] /\ lit' = [lit EXCEPT ![a] = FALSE]
    /\ UNCHANGED <<leftover, alive, age, row, memory, pc, reading, shown, rescanned, ghost, bounds>>

\* Yesterday's rows are cleared.
Drain(a) ==
    /\ a \in leftover
    /\ count' = [count EXCEPT ![a] = 0]
    /\ leftover' = leftover \ {a}
    /\ moved' = moved \cup {a}
    /\ still' = [still EXCEPT ![a] = 0] /\ lit' = [lit EXCEPT ![a] = FALSE]
    /\ UNCHANGED <<alive, age, row, memory, pc, reading, shown, rescanned, ghost, bounds>>

Lives ==
    /\ alive' = ~alive
    /\ UNCHANGED <<count, leftover, moved, age, row, memory, pc, reading, shown, stillness>>
    /\ UNCHANGED <<rescanned, ghost, bounds>>

Midnight ==
    /\ days < MaxDays
    /\ ~rolled
    /\ days' = days + 1
    /\ rolled' = TRUE
    /\ leftover' = {a \in Areas : count[a] > 0}
    /\ age' = 0
    /\ finished' = FALSE
    /\ UNCHANGED <<count, moved, alive, scanned, expected, memory, pc, reading, shown>>
    /\ UNCHANGED <<stillness, rescanned, lost, troubles>>

\* !scan, accepted by Dragonite: the mode is reopened, the plateau is not.
Rescan ==
    /\ Trouble("rescan")
    /\ scanned' = FALSE
    /\ rescanned' = TRUE
    /\ finished' = FALSE
    /\ UNCHANGED <<scanner, rolled, expected, memory, pc, reading, shown, stillness>>
    /\ UNCHANGED <<lost, days>>

MessageDeleted ==
    /\ shown \notin {"none", "deleted"}
    /\ shown' = "deleted"
    /\ UNCHANGED <<scanner, row, memory, pc, reading, stillness, rescanned, ghost, bounds>>

-------------------------------------------------------------------------------
\* A step that raises: the rest of the tick's step is skipped.
Raise ==
    /\ Trouble("fault")
    /\ pc' = "idle"
    /\ UNCHANGED days

CapTick(n) == IF n < StuckTicks THEN n + 1 ELSE n

\* A minute has passed. Leftovers are gone after LeftoverTicks of them.
Tick ==
    /\ pc = "idle"
    /\ leftover # {} => age < LeftoverTicks
    /\ age' = IF leftover # {} THEN age + 1 ELSE age
    /\ still' = [a \in Areas |-> CapTick(still[a])]
    /\ lit' = [a \in Areas |-> lit[a] \/ alive]
    /\ quiet' = IF quiet > 0 THEN quiet - 1 ELSE 0
    /\ pc' = IF rolled THEN "reopen" ELSE "check"
    /\ UNCHANGED <<count, leftover, moved, alive, scanned, expected, prev, flat, cache, embedded>>
    /\ UNCHANGED <<pointer, reading, shown, rescanned, ghost, bounds>>
    \* is_day_change's first write, update_last_scanned_date, belongs to the
    \* same step: nothing else writes the date.
    /\ rolled' = FALSE

\* Mutant of ResetPlateau: the quiet period is not restarted.
ResetPlateau_NoQuiet ==
    /\ prev' = [a \in Areas |-> None]
    /\ flat' = Zero
    /\ quiet' = quiet

ResetPlateau ==
    /\ prev' = NoCounts
    /\ flat' = Zero
    /\ quiet' = QuietTicks

\* start_pokestop_scan's second write, then reset_quest_plateau.
Reopen ==
    /\ pc = "reopen"
    /\ scanned' = FALSE
    /\ ResetPlateau
    /\ pc' = "announce"
    /\ UNCHANGED <<scanner, rolled, expected, cache, embedded, pointer, reading, shown>>
    /\ UNCHANGED <<stillness, rescanned, ghost, bounds>>

ReopenFails ==
    /\ pc = "reopen"
    /\ Trouble("start")
    /\ pc' = "idle"
    /\ UNCHANGED <<scanner, row, memory, reading, shown, stillness, rescanned, ghost>>
    /\ UNCHANGED days

Announce ==
    /\ pc = "announce"
    /\ \/ /\ shown' = "started"
          /\ pointer' = TRUE
          /\ pc' = "idle"
          /\ UNCHANGED bounds
       \/ /\ Raise
          /\ UNCHANGED <<shown, pointer>>
    /\ UNCHANGED <<scanner, row, plateau, cache, embedded, reading, stillness, rescanned, ghost>>

-------------------------------------------------------------------------------
\* is_quest_scanning_complete.

Totals == IF cache # NoCounts THEN cache ELSE expected

\* Mutant of Flat: counts past the window.
Flat_Uncapped(a) == IF count[a] = prev[a] THEN flat[a] + 1 ELSE 0

\* _update_plateau, its counter, as far as the windows tell values apart.
Flat(a) == IF count[a] = prev[a] THEN (IF flat[a] < StuckTicks THEN flat[a] + 1 ELSE flat[a])
           ELSE 0

\* Mutants of Plateaued: one flat check is enough; no way out for a shrunk map.
Plateaued_OneTick(a, totals) ==
    /\ count[a] > 0
    /\ Flat(a) >= 1
    /\ count[a] * FloorDen >= totals[a] * FloorNum

Plateaued_NeverStuck(a, totals) ==
    /\ count[a] > 0
    /\ Flat(a) >= PlateauTicks
    /\ totals[a] > 0
    /\ count[a] * FloorDen >= totals[a] * FloorNum

Plateaued(a, totals) ==
    /\ count[a] > 0
    /\ \/ /\ Flat(a) >= PlateauTicks
          /\ totals[a] > 0
          /\ count[a] * FloorDen >= totals[a] * FloorNum
       \/ Flat(a) >= StuckTicks

\* A restarted process looks the message up by its title.
FindMessage == pointer' = (pointer \/ shown \notin {"none", "deleted"})

\* The counts and the plateau, against the given totals.
Judge(totals) ==
    /\ seen' = count
    \* past midnight with the row still on yesterday, the verdict is
    \* yesterday's: the next tick reopens the mode
    /\ old' = IF rolled THEN {} ELSE leftover
    /\ stood' = still
    /\ rescanned' = FALSE
    /\ prev' = count
    /\ flat' = [a \in Areas |-> Flat(a)]
    /\ pc' = IF \A a \in Areas : Plateaued(a, totals) THEN "alive" ELSE "progress"

Check ==
    /\ pc = "check"
    /\ FindMessage
    /\ moved' = {}
    /\ \/ /\ quiet > 0 \/ scanned
          /\ pc' = "idle"
          /\ UNCHANGED <<prev, flat, cache, seen, old, stood, rescanned, bounds>>
       \/ /\ quiet = 0 /\ ~scanned
          /\ Judge(Totals)
          /\ cache' = Totals
          /\ UNCHANGED bounds
       \* the row could not be read: no totals this time, and none kept
       \/ /\ quiet = 0 /\ ~scanned /\ cache = NoCounts
          /\ Trouble("fault")
          /\ Judge(Zero)
          /\ UNCHANGED <<cache, days>>
    /\ UNCHANGED <<count, leftover, alive, age, row, quiet, embedded, toRecord, shown>>
    /\ UNCHANGED <<stillness, ghost>>

\* A query of the scanner database or of the row fails: no verdict.
CheckFails ==
    /\ pc = "check"
    /\ FindMessage
    /\ Raise
    /\ UNCHANGED <<scanner, row, plateau, cache, embedded, reading, shown, stillness>>
    /\ UNCHANGED <<rescanned, ghost>>

\* _is_scanner_alive, read after the counts; no answer counts as dark.
Alive == IF alive THEN {"tracked", "progress"} ELSE {"progress"}

AskAlive ==
    /\ pc = "alive"
    /\ \E next \in Alive :
         /\ pc' = next
         /\ IF next = "progress" /\ alive
            THEN Trouble("fault")
            ELSE UNCHANGED troubles
    /\ UNCHANGED <<scanner, row, memory, reading, shown, stillness, rescanned, ghost, days>>

-------------------------------------------------------------------------------
\* A completed scan.

\* check_tracked, which may also fail after its first message.
Tracked ==
    /\ pc = "tracked"
    /\ \/ pc' = "export" /\ UNCHANGED bounds
       \/ Raise
    /\ UNCHANGED <<scanner, row, memory, reading, shown, stillness, rescanned, ghost>>

Export ==
    /\ pc = "export"
    /\ \/ pc' = "mark" /\ UNCHANGED bounds
       \/ Raise
    /\ UNCHANGED <<scanner, row, memory, reading, shown, stillness, rescanned, ghost>>

\* update_quest_scanning_state, whatever was asked since the counts were read.
Mark ==
    /\ pc = "mark"
    /\ \/ /\ scanned' = TRUE
          /\ finished' = (finished \/ (~rescanned /\ ~rolled))
          /\ lost' = FALSE
          /\ toRecord' = Areas
          /\ pc' = "record"
          /\ UNCHANGED bounds
       \/ /\ Raise
          /\ UNCHANGED <<scanned, finished, lost, toRecord>>
    /\ UNCHANGED <<scanner, rolled, expected, memory, seen, old, stood, shown, stillness>>
    /\ UNCHANGED rescanned

\* record_quest_scan_completion, area by area: a failed write (an area without
\* a column) is logged, and the total kept in memory.
Record(a) ==
    /\ pc = "record"
    /\ a \in toRecord
    /\ cache' = [Totals EXCEPT ![a] = seen[a]]
    /\ toRecord' = toRecord \ {a}
    /\ \/ /\ expected' = [expected EXCEPT ![a] = seen[a]]
          /\ UNCHANGED troubles
       \/ /\ Trouble("fault")
          /\ UNCHANGED expected
    /\ UNCHANGED <<scanner, rolled, scanned, plateau, embedded, pointer, pc, seen, old, stood>>
    /\ UNCHANGED <<shown, stillness, rescanned, ghost, days>>

Recorded ==
    /\ pc = "record"
    /\ toRecord = {}
    /\ ResetPlateau
    /\ embedded' = NoCounts
    /\ pc' = "show"
    /\ UNCHANGED <<scanner, row, cache, pointer, reading, shown, stillness, rescanned, ghost, bounds>>

\* Mutant of Show: a deleted message is dropped, and not sent again.
Show_NoResend(text) ==
    /\ shown' = IF shown = "deleted" THEN "none" ELSE text
    /\ pointer' = (shown # "deleted")

\* Edit the message; one that is gone, or none, is sent anew.
Show(text) ==
    /\ shown' = text
    /\ pointer' = TRUE

ShowDone ==
    /\ pc = "show"
    /\ \/ /\ Show("done")
          /\ pc' = "idle"
          /\ UNCHANGED <<lost, bounds>>
       \/ /\ Raise
          /\ lost' = TRUE
          /\ pointer' = (pointer /\ shown # "deleted")
          /\ UNCHANGED shown
    /\ UNCHANGED <<scanner, row, plateau, cache, embedded, reading, stillness, rescanned>>
    /\ UNCHANGED finished

\* Not complete: the progress embed, unless it would say the same.
ShowProgress ==
    /\ pc = "progress"
    /\ embedded' = seen
    /\ IF embedded = seen /\ pointer
       THEN pc' = "idle" /\ UNCHANGED <<shown, pointer, bounds>>
       ELSE \/ /\ Show("progress")
               /\ pc' = "idle"
               /\ UNCHANGED bounds
            \/ /\ Raise
               /\ pointer' = (pointer /\ shown # "deleted")
               /\ UNCHANGED shown
    /\ UNCHANGED <<scanner, row, plateau, cache, reading, stillness, rescanned, ghost>>

-------------------------------------------------------------------------------
\* The process dies and starts again: memory and the tick are gone.
Restart ==
    /\ prev' = NoCounts /\ flat' = Zero /\ quiet' = QuietTicks
    /\ cache' = NoCounts /\ embedded' = NoCounts /\ pointer' = FALSE
    /\ pc' = "idle" /\ toRecord' = {}
    /\ lost' = (lost \/ pc \in {"record", "show"})
    \* a day change cut between its writes counts as a start fault
    /\ Trouble(IF pc = "reopen" THEN "start" ELSE "crash")
    /\ UNCHANGED <<scanner, row, seen, old, stood, shown, stillness, rescanned, finished, days>>

Steps ==
    \/ Tick \/ Reopen \/ Announce \/ Check \/ AskAlive \/ Tracked \/ Export \/ Mark
    \/ (\E a \in Areas : Record(a)) \/ Recorded \/ ShowDone \/ ShowProgress

Next ==
    \/ Steps
    \/ \E a \in Areas : Scan(a) \/ Drain(a)
    \/ Lives \/ Midnight \/ Rescan \/ MessageDeleted
    \/ ReopenFails \/ CheckFails \/ Restart

\* The scheduler ticks every minute; the scanner clears yesterday's rows.
Fairness == WF_vars(Steps) /\ \A a \in Areas : WF_vars(Drain(a))

Spec == Init /\ [][Next]_vars
FairSpec == Spec /\ Fairness

-------------------------------------------------------------------------------
\* A scan is completed only after every area's true count stood still for the
\* whole plateau: restarts, !scan, a day change and failed checks do not
\* shorten it.
DoneMeansFlat ==
    pc = "tracked" => \A a \in Areas : stood[a] >= PlateauTicks /\ seen[a] > 0

\* Yesterday's rows are never completed as today's scan, unless the day change
\* itself was cut between its writes.
NoLeftoverDone == (pc = "tracked" /\ troubles["start"] = 0) => old = {}

\* A completion is about today's counts, and they stood still.
DoneIsReal == DoneMeansFlat /\ NoLeftoverDone

\* A scan that was completed says so in the channel, unless the notice itself
\* failed or was cut off, or a mod deleted it.
DoneIsShown ==
    (scanned /\ ~lost /\ ~rolled /\ pc \in {"idle", "check"} /\ troubles["start"] = 0)
        => shown \in {"done", "deleted"}

\* A plateau that was spent wholly in the dark, a crash of the scanner, is never
\* completed as a scan.
NoCrashDone == pc = "tracked" => \A a \in Areas : lit[a]

\* The scan of every day, and every !scan, is completed once the scanner stays
\* up, however far below the recorded total its ceiling is. Two ways to lose one
\* are left out: a day change cut between its two writes, and a !scan accepted
\* after the counts of the verdict that then closes the mode.
EveryDayIsFinished ==
    (<>[]alive /\ [](troubles["start"] = 0)) =>
        <>[](finished \/ (rescanned /\ scanned) \/ \E a \in Areas : count[a] = 0)
===============================================================================
