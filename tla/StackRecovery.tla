----------------------------- MODULE StackRecovery -----------------------------
(***************************************************************************)
(* The scanner's self-healing (modules/stack_recovery.py, fed every tick   *)
(* by ScannerStatus.rename_voice_channels): a map that is down climbs a    *)
(* ladder of two rungs, guarded by the accounts that are still logged in.  *)
(*                                                                         *)
(* Every await of observe() is a step of its own: what Dragonite, rotom-ng *)
(* and the phone say, the accounts and the setting may change in between.  *)
(* Production only.  A notice that Discord does not take, or that has no    *)
(* channel to go to, is swallowed: the ladder goes on as if it had gone out. *)
(***************************************************************************)
EXTENDS Integers, FiniteSets

CONSTANTS
    Ladder,       \* when each of the two rungs is due, in units of time
    MaxCrashes,   \* bound: restarts of the bot
    MaxRaises,    \* bound: exceptions that leave observe()
    MaxSwallowed  \* bound: notices that the channel never got

ASSUME StackRecoveryAssumption ==
    /\ Ladder \in [1..2 -> Nat \ {0}]
    /\ Ladder[1] < Ladder[2]
    /\ MaxCrashes \in Nat
    /\ MaxRaises \in Nat
    /\ MaxSwallowed \in Nat

\* What a tick reads: Dragonite's answer, rotom-ng's workers, the phone.
Readings == {"scanning", "dragonite_silent", "rotom_silent", "phone_broken",
             "phone_unreachable", "phone_healthy", "all_red"}

Rungs == 1..2
Words == {"none", "down", "waiting", "deferred", "recovered"}
MaxNotices == 6

VARIABLES
    reading,      \* what the sources say now
    inUse,        \* an account or a worker is in use
    enabled,      \* auto_recreate_enabled
    episode,      \* _red_since is set
    age,          \* time since _red_since, up to the last rung
    attempts,     \* _recovery_attempts
    waitTold,     \* _wait_announced
    deferTold,    \* _session_wait_announced
    at,           \* where observe() is
    tick,         \* the reading and the due rungs this tick acts on
    containersOk, \* recreate_services succeeded
    \* observation
    ran,          \* ran[r]: recoveries begun at rung r in this episode
    checked,      \* the counts were zero after the last recreation of this tick
    lastWord,     \* the last notice of the channel
    notices,      \* notices sent or swallowed in this episode, up to MaxNotices + 1
    unclosed,     \* the last notice that the map is back was swallowed
    swallowed,
    crashes, raises

env          == <<reading, inUse, enabled>>
episodeState == <<episode, age, attempts, waitTold, deferTold>>
run          == <<at, tick, containersOk>>
channel      == <<lastWord, notices, unclosed, swallowed>>
stackVars    == <<env, episodeState, run, ran, checked, channel, crashes, raises>>

NoTick == [reading |-> "scanning", due |-> 0]

StackTypeOK ==
    /\ reading \in Readings
    /\ inUse \in BOOLEAN /\ enabled \in BOOLEAN
    /\ episode \in BOOLEAN
    /\ age \in 0..Ladder[2]
    /\ attempts \in 0..2
    /\ waitTold \in BOOLEAN /\ deferTold \in BOOLEAN
    /\ at \in {"idle", "guard", "recreate", "recheck", "apps"}
    /\ tick \in [reading : Readings, due : 0..2]
    /\ containersOk \in BOOLEAN
    /\ ran \in [Rungs -> Nat]
    /\ checked \in BOOLEAN
    /\ lastWord \in Words
    /\ notices \in 0..MaxNotices + 1
    /\ unclosed \in BOOLEAN
    /\ swallowed \in 0..MaxSwallowed
    /\ crashes \in 0..MaxCrashes /\ raises \in 0..MaxRaises

StackInit ==
    /\ reading = "scanning"
    /\ inUse \in BOOLEAN
    /\ enabled \in BOOLEAN
    /\ episode = FALSE
    /\ age = 0
    /\ attempts = 0
    /\ waitTold = FALSE
    /\ deferTold = FALSE
    /\ at = "idle"
    /\ tick = NoTick
    /\ containersOk = TRUE
    /\ ran = [r \in Rungs |-> 0]
    /\ checked = FALSE
    /\ lastWord = "none"
    /\ notices = 0
    /\ unclosed = FALSE
    /\ swallowed = 0
    /\ crashes = 0
    /\ raises = 0

-------------------------------------------------------------------------------
\* The world, and the admins' commands.  The reading and the setting may change while a
\* tick is under way, but no step looks at them then.

ReadingChanges ==
    /\ at = "idle"
    /\ reading' \in Readings \ {reading}
    /\ UNCHANGED <<inUse, enabled, episodeState, run, ran, checked, channel, crashes, raises>>

AccountsChange ==
    /\ inUse' = ~inUse
    /\ UNCHANGED <<reading, enabled, episodeState, run, ran, checked, channel, crashes, raises>>

SettingChanges ==
    /\ at = "idle"
    /\ enabled' = ~enabled
    /\ UNCHANGED <<reading, inUse, episodeState, run, ran, checked, channel, crashes, raises>>

TimePasses ==
    /\ episode
    /\ age < Ladder[2]
    /\ age' = age + 1
    /\ UNCHANGED <<env, episode, attempts, waitTold, deferTold, run, ran, checked>>
    /\ UNCHANGED <<channel, crashes, raises>>

-------------------------------------------------------------------------------
\* _diagnose: the worker count decides before Dragonite's colours do, and the
\* phone is asked only when no worker is left.
Problem(r) ==
    CASE r = "scanning" -> "none"
      [] r \in {"dragonite_silent", "rotom_silent"} -> "stack"
      [] r = "phone_broken" -> "phone"
      [] r = "phone_unreachable" -> "unreachable"
      [] r = "phone_healthy" -> "link"
      [] r = "all_red" -> "no_data"

Action(problem, rung) ==
    CASE problem = "phone" /\ rung = 1 -> "apps"
      [] problem = "link" /\ rung = 1 -> "none"
      [] problem \in {"no_data", "unreachable"} -> "none"
      [] OTHER -> "full"

\* Mutant of Due: one rung more than the elapsed time makes due.
Due_OffByOne(a) == 1 + Cardinality({r \in Rungs : a >= Ladder[r]})

Due(a) == Cardinality({r \in Rungs : a >= Ladder[r]})

\* The channel reads the notice, or the failed send is only logged.
Hears(w) ==
    \/ lastWord' = w /\ UNCHANGED swallowed
    \/ /\ swallowed < MaxSwallowed
       /\ swallowed' = swallowed + 1
       /\ UNCHANGED lastWord

Notify(w) ==
    /\ Hears(w)
    /\ notices' = IF notices > MaxNotices THEN notices ELSE notices + 1
    /\ UNCHANGED unclosed

\* The word that the map is back, if `said`.
Closes(said) ==
    IF said
    THEN Hears("recovered") /\ unclosed' = (swallowed' # swallowed)
    ELSE UNCHANGED <<lastWord, unclosed, swallowed>>

\* Mutant of Recovered: only spent rungs count as an announced episode.
Recovered_OnlyRungs ==
    /\ at = "idle"
    /\ Problem(reading) = "none"
    /\ Closes(episode /\ attempts > 0)
    /\ notices' = 0
    /\ episode' = FALSE
    /\ age' = 0
    /\ attempts' = 0
    /\ waitTold' = FALSE
    /\ deferTold' = FALSE
    /\ ran' = [r \in Rungs |-> 0]
    /\ UNCHANGED <<env, run, checked, crashes, raises>>

\* A tick that finds the map scanning closes the episode, and says so when the
\* channel heard of it.
Recovered ==
    /\ at = "idle"
    /\ Problem(reading) = "none"
    /\ Closes(episode /\ (attempts > 0 \/ waitTold \/ deferTold))
    /\ notices' = 0
    /\ episode' = FALSE
    /\ age' = 0
    /\ attempts' = 0
    /\ waitTold' = FALSE
    /\ deferTold' = FALSE
    /\ ran' = [r \in Rungs |-> 0]
    /\ UNCHANGED <<env, run, checked, crashes, raises>>

\* A tick that finds a problem starts the episode if none is open...
Down ==
    /\ at = "idle"
    /\ Problem(reading) # "none"
    /\ episode' = TRUE
    /\ UNCHANGED <<env, age, attempts, ran, checked, crashes, raises>>

\* ... and does nothing while the setting is off, no rung is due, the rung has
\* no action, or the channel knows already that there is nothing to do.
Waits ==
    /\ Down
    /\ \/ ~enabled
       \/ Due(age) <= attempts
       \/ /\ Action(Problem(reading), Due(age)) = "none"
          /\ Problem(reading) = "link" \/ waitTold
    /\ UNCHANGED <<waitTold, deferTold, run, channel>>

AnnounceWaiting ==
    /\ Down
    /\ enabled
    /\ Due(age) > attempts
    /\ Problem(reading) \in {"no_data", "unreachable"}
    /\ Action(Problem(reading), Due(age)) = "none"
    /\ ~waitTold
    /\ waitTold' = TRUE
    /\ Notify("waiting")
    /\ UNCHANGED <<deferTold, run>>

Recover ==
    /\ Down
    /\ enabled
    /\ Due(age) > attempts
    /\ Action(Problem(reading), Due(age)) # "none"
    /\ at' = "guard"
    /\ tick' = [reading |-> reading, due |-> Due(age)]
    /\ UNCHANGED <<waitTold, deferTold, containersOk, channel>>

-------------------------------------------------------------------------------
\* _sessions_allow_reset: two fresh counts, both zero.

SessionsFree ==
    /\ ~inUse
    /\ deferTold' = FALSE
    /\ checked' = TRUE

\* Accounts in use, or an endpoint that did not answer; said once.
SessionsHeld ==
    IF deferTold
    THEN UNCHANGED <<deferTold, channel>>
    ELSE deferTold' = TRUE /\ Notify("deferred")

Begins == ran' = [ran EXCEPT ![tick.due] = @ + 1]

Allowed ==
    /\ at = "guard"
    /\ SessionsFree
    /\ Begins
    /\ at' = IF Action(Problem(tick.reading), tick.due) = "full" THEN "recreate" ELSE "apps"
    /\ containersOk' = TRUE
    /\ UNCHANGED <<env, episode, age, attempts, waitTold, tick, channel, crashes, raises>>

\* Mutant of Deferred: it spends the rung.
Deferred_Spends ==
    /\ at = "guard"
    /\ SessionsHeld
    /\ at' = "idle"
    /\ attempts' = tick.due
    /\ tick' = NoTick
    /\ UNCHANGED <<env, episode, age, waitTold, containersOk, ran, checked>>
    /\ UNCHANGED <<crashes, raises>>

Deferred ==
    /\ at = "guard"
    /\ SessionsHeld
    /\ at' = "idle"
    /\ tick' = NoTick
    /\ UNCHANGED <<env, episode, age, attempts, waitTold, containersOk, ran, checked>>
    /\ UNCHANGED <<crashes, raises>>

\* Mutant of Recreate: the apps follow without a second look at the sessions.
Recreate_NoRecheck ==
    /\ at = "recreate"
    /\ containersOk' \in BOOLEAN
    /\ checked' = FALSE
    /\ at' = "apps"
    /\ UNCHANGED <<env, episodeState, tick, ran, channel, crashes, raises>>

\* recreate_services succeeds or not; the phone is next either way.
Recreate ==
    /\ at = "recreate"
    /\ containersOk' \in BOOLEAN
    /\ checked' = FALSE
    /\ at' = "recheck"
    /\ UNCHANGED <<env, episodeState, tick, ran, channel, crashes, raises>>

AllowedAgain ==
    /\ at = "recheck"
    /\ SessionsFree
    /\ at' = "apps"
    /\ UNCHANGED <<env, episode, age, attempts, waitTold, tick, containersOk>>
    /\ UNCHANGED <<ran, channel, crashes, raises>>

\* The rungs that are due are spent, not just one of them.
\* (Spend_One is the mutant.)
Spend_One == attempts' = attempts + 1
Spend == attempts' = tick.due

\* The recreated controller logged accounts in: the rung ends without the phone,
\* with the notice of the deferral (unless it was said) and that of the rung; either
\* may be swallowed.
HeldAgain ==
    /\ at = "recheck"
    /\ deferTold' = TRUE
    /\ \E held \in IF deferTold THEN {0} ELSE 0..1, down \in 0..1 :
          /\ swallowed + held + down <= MaxSwallowed
          /\ swallowed' = swallowed + held + down
          /\ lastWord' = IF down = 0 THEN "down"
                         ELSE IF deferTold \/ held = 1 THEN lastWord ELSE "deferred"
    /\ notices' = LET n == notices + (IF deferTold THEN 1 ELSE 2)
                  IN  IF n > MaxNotices THEN MaxNotices + 1 ELSE n
    /\ Spend
    /\ at' = "idle"
    /\ tick' = NoTick
    /\ checked' = FALSE
    /\ UNCHANGED <<env, episode, age, waitTold, containersOk, ran, unclosed, crashes, raises>>

\* restart_scanner_apps returns, whether it worked or not.
Apps ==
    /\ at = "apps"
    /\ Notify("down")
    /\ Spend
    /\ at' = "idle"
    /\ tick' = NoTick
    /\ checked' = FALSE
    /\ UNCHANGED <<env, episode, age, waitTold, deferTold, containersOk, ran>>
    /\ UNCHANGED <<crashes, raises>>

\* Only RuntimeError is caught: an adb that cannot be started leaves observe(),
\* and the tick logs it and goes on.
AppsRaises ==
    /\ at = "apps"
    /\ raises < MaxRaises
    /\ raises' = raises + 1
    /\ at' = "idle"
    /\ tick' = NoTick
    /\ checked' = FALSE
    /\ UNCHANGED <<env, episodeState, containersOk, ran, channel, crashes>>

\* The bot restarts: the episode was only in memory.
BotRestart ==
    /\ crashes < MaxCrashes
    /\ crashes' = crashes + 1
    /\ episode' = FALSE
    /\ age' = 0
    /\ attempts' = 0
    /\ waitTold' = FALSE
    /\ deferTold' = FALSE
    /\ at' = "idle"
    /\ tick' = NoTick
    /\ containersOk' = TRUE
    /\ ran' = [r \in Rungs |-> 0]
    /\ checked' = FALSE
    /\ notices' = 0
    /\ UNCHANGED <<env, lastWord, unclosed, swallowed, raises>>

-------------------------------------------------------------------------------
World == ReadingChanges \/ AccountsChange \/ SettingChanges \/ TimePasses

Observe ==
    \/ Recovered \/ Waits \/ AnnounceWaiting \/ Recover
    \/ Allowed \/ Deferred \/ Recreate \/ AllowedAgain \/ HeldAgain \/ Apps

StackNext == World \/ Observe \/ AppsRaises \/ BotRestart

StackSpec == StackInit /\ [][StackNext]_stackVars

\* The scheduler ticks, time passes, and free sessions are found free at times.
StackFairness ==
    /\ WF_stackVars(Observe)
    /\ WF_stackVars(TimePasses)
    /\ SF_stackVars(Allowed)

StackFairSpec == StackSpec /\ StackFairness

-------------------------------------------------------------------------------
\* Properties.

\* The ladder of one episode.  A rung is spent only once it was due.  Unless an
\* exception left a rung unspent, no rung recovers twice ("each used at most
\* once"), deferred or late as it may be, and the channel gets a bounded number
\* of notices, however long the map is down.
LadderKept ==
    /\ attempts > 0 => episode /\ age >= Ladder[attempts]
    /\ at # "idle" => episode /\ age >= Ladder[tick.due]
    /\ raises = 0 => (\A r \in Rungs : ran[r] <= 1) /\ notices <= MaxNotices

\* The phone's apps are reset only after the counts were read as zero, and read as
\* zero again after the containers came back.  An account that logs in between that
\* reading and the reset is reset with the phone: no step looks again.
CheckedSinceRecreate == at \in {"recreate", "apps"} => checked

\* The last word of the channel is "down", "waiting" or "deferred" after a closed
\* episode only if the notice that the map is back was itself swallowed, whichever of
\* the others had gone out; a restart or an exception in between forgets that they did.
LastWordIsRecovered ==
    ~episode /\ crashes = 0 /\ raises = 0 /\ ~unclosed => lastWord \in {"none", "recovered"}

\* What the ladder, its session checks and its last word promise together.
RecoveryIsOrderly == LadderKept /\ CheckedSinceRecreate /\ LastWordIsRecovered

\* A restartable outage that lasts while the sessions are free and the setting
\* is on is recovered at the last rung, whatever was deferred before.
LastingOutageIsRecovered ==
    <>[](/\ Problem(reading) \in {"phone", "stack", "link"}
         /\ enabled
         /\ ~inUse) => <>(ran[2] > 0)
===============================================================================
