---------------------------- MODULE SpawnHistory ----------------------------
(***************************************************************************)
(* The recorder of spawns (modules/spawn_history.py, run every 30 seconds  *)
(* by cogs/spawn_history.py). Each capture copies what the scanner has of  *)
(* the last Retention hours in one transaction, and notes as a gap a pause *)
(* longer than MaxGap, in which a spawn may have come and gone. A report   *)
(* is about a window of hours that ends with the last capture, and says    *)
(* whether the window is complete.                                         *)
(*                                                                         *)
(* A spawn may change its variant (pokemon_id, form_id and costume_id).    *)
(* Its IV and its odds are here the variant they belong to.                *)
(***************************************************************************)
EXTENDS Naturals, FiniteSets

CONSTANTS
    Spawns, Variants,
    Retention,     \* RETENTION_HOURS
    MaxGap,        \* MAX_POLL_GAP
    Life,          \* how long the scanner keeps a row at least
    LastMoment     \* bound: the clock

ASSUME HistoryAssumption ==
    /\ {Retention, MaxGap, Life, LastMoment} \subseteq Nat
    /\ Retention > 0 /\ MaxGap <= Life
    /\ "none" \notin Variants

Unmeasured == "no IV"
NotThere == [variant |-> "none", iv |-> Unmeasured, odds |-> "none"]

VARIABLES
    clock,
    seen,        \* seen[s]: first_seen_timestamp, LastMoment + 1 before it appears
    scanned,     \* the scanner's row of each spawn
    recorded,    \* spawn_history
    collecting,  \* spawn_history_state: started_at and last_capture_at
    gaps         \* spawn_history_gap

historyVars == <<clock, seen, scanned, recorded, collecting, gaps>>

Rows == [variant : Variants \union {"none"}, iv : Variants \union {Unmeasured},
         odds : Variants \union {"none"}]
Moments == 0..LastMoment
Uncollected == [started |-> 0, last |-> 0, known |-> FALSE]

HistoryTypeOK ==
    /\ clock \in Moments /\ seen \in [Spawns -> 0..LastMoment + 1]
    /\ {scanned, recorded} \subseteq [Spawns -> Rows]
    /\ collecting \in [started : Moments, last : Moments, known : BOOLEAN]
    /\ gaps \subseteq Moments \X Moments

HistoryInit ==
    /\ clock = 0 /\ seen = [s \in Spawns |-> LastMoment + 1]
    /\ scanned = [s \in Spawns |-> NotThere] /\ recorded = scanned
    /\ collecting = Uncollected /\ gaps = {}

-----------------------------------------------------------------------------
\* The scanner: spawns appear, are measured, change, and are forgotten.
Appears(s) ==
    /\ seen[s] > LastMoment
    /\ seen' = [seen EXCEPT ![s] = clock]
    /\ \E v \in Variants : scanned' = [scanned EXCEPT ![s].variant = v]
    /\ UNCHANGED <<clock, recorded, collecting, gaps>>

Rescanned(s) ==
    /\ scanned[s] # NotThere
    /\ \E v \in Variants, measured \in BOOLEAN :
          scanned' = [scanned EXCEPT ![s].variant = v,
                                     ![s].iv = IF measured THEN v ELSE Unmeasured]
    /\ UNCHANGED <<clock, seen, recorded, collecting, gaps>>

Forgotten(s) ==
    /\ scanned[s] # NotThere /\ clock > seen[s] + Life
    /\ scanned' = [scanned EXCEPT ![s] = NotThere]
    /\ UNCHANGED <<clock, seen, recorded, collecting, gaps>>

ClockTicks ==
    /\ clock < LastMoment /\ clock' = clock + 1
    /\ UNCHANGED <<seen, scanned, recorded, collecting, gaps>>

-----------------------------------------------------------------------------
\* Mutant of Upsert: the variant is assigned first, and nothing looks changed.
UpsertFirst(old, spawn) ==
    [variant |-> spawn.variant,
     odds |-> IF old = NotThere THEN spawn.variant ELSE old.odds,
     iv |-> IF spawn.iv # Unmeasured THEN spawn.iv ELSE old.iv]

\* capture_sql, ON DUPLICATE KEY UPDATE: the assignments are made in their order,
\* and the variant is the last of them. The odds of a variant stay those of its
\* first capture, a measured IV is not lost to a later spawn without one.
Upsert(old, spawn) ==
    LET changed == old.variant # spawn.variant
    IN  [variant |-> spawn.variant,
         odds |-> IF changed THEN spawn.variant ELSE old.odds,
         iv |-> IF changed \/ spawn.iv # Unmeasured THEN spawn.iv ELSE old.iv]

Old(moment) == moment + Retention < clock

\* capture: one transaction, or nothing of it. The first one starts the state.
Paused == collecting.known /\ clock - collecting.last > MaxGap

NewGaps == IF Paused THEN {<<collecting.last, clock>>} ELSE {}

Capture ==
    /\ collecting' = [known |-> TRUE, last |-> clock,
          started |-> IF collecting.known THEN collecting.started ELSE clock]
    /\ gaps' = {g \in gaps \union NewGaps : ~Old(g[2])}
    /\ recorded' = [s \in Spawns |->
          IF Old(seen[s]) THEN NotThere
          ELSE IF scanned[s] = NotThere THEN recorded[s]
          ELSE Upsert(recorded[s], scanned[s])]
    /\ UNCHANGED <<clock, seen, scanned>>

HistoryNext ==
    \/ \E s \in Spawns : Appears(s) \/ Rescanned(s) \/ Forgotten(s)
    \/ ClockTicks \/ Capture

HistorySpec == HistoryInit /\ [][HistoryNext]_historyVars

-----------------------------------------------------------------------------
\* window_metadata: [start, end) and whether it is complete.
WindowEnd == collecting.last
Complete(hours) ==
    /\ collecting.known
    /\ collecting.started + hours <= WindowEnd
    /\ \A g \in gaps : ~(g[1] < WindowEnd /\ g[2] + hours > WindowEnd)

\* A window called complete has every spawn that appeared in it, although the
\* recorder only looks now and then and the scanner forgets.
WindowsAreWhole ==
    \A hours \in 1..Retention, s \in Spawns :
        Complete(hours) /\ seen[s] + hours >= WindowEnd /\ seen[s] < WindowEnd
            => recorded[s] # NotThere

\* What is stored of a spawn is of one variant: no odds, and no IV, of another.
OneVariantEach ==
    \A s \in Spawns :
        /\ recorded[s].odds = recorded[s].variant
        /\ recorded[s].iv \in {Unmeasured, recorded[s].variant}

HistoryIsTrue == WindowsAreWhole /\ OneVariantEach
=============================================================================
