--------------------------- MODULE OperationsProofs ---------------------------
(***************************************************************************)
(* The safety properties of the bot's operations, for every value of their *)
(* constants: the ladder of the stack recovery, the monitoring relay, the  *)
(* scanner update, the owner's runs, the public replies and the map        *)
(* alerts.  Each section has the inductive invariant of one specification, *)
(* a lemma for each step that it survives it, and the theorems.            *)
(***************************************************************************)
EXTENDS StackRecovery, MonitoringRelay, ScannerUpdate, OwnerRuns, PublicReplies,
        MapAlerts, FiniteSetTheorems, SequenceTheorems, WellFoundedInduction, TLAPS

-------------------------------------------------------------------------------
\* A set of naturals has a least element ...
LEMMA HasLeast ==
    ASSUME NEW T, T \subseteq Nat, T # {}
    PROVE  \E x \in T : \A y \in T : x <= y
<1> DEFINE R == OpToRel(<, Nat)
<1>1. IsWellFoundedOn(R, Nat)
    BY NatLessThanWellFounded
<1>2. PICK x \in T : \A y \in T : ~(<<y, x>> \in R)
    <2> HIDE DEF R
    <2>1. QED
        BY <1>1, WFMin
<1>3. \A y \in T : ~(y < x)
    BY <1>2 DEF OpToRel
<1> HIDE DEF R
<1>4. \A y \in T : x <= y
    BY <1>3
<1>5. QED
    BY <1>4

\* ... and one with a bound has a greatest.
LEMMA HasNewest ==
    ASSUME NEW N \in Nat, NEW S, S \subseteq 0..N, S # {}
    PROVE  \E x \in S : \A y \in S : y <= x
<1> DEFINE T == {N - x : x \in S}
<1>1. T \subseteq Nat
    <2>1. \A x \in S : N - x \in Nat
        OBVIOUS
    <2>2. QED
        BY <2>1
<1>2. T # {}
    OBVIOUS
<1>3. PICK t \in T : \A y \in T : t <= y
    BY <1>1, <1>2, HasLeast
<1>4. PICK x \in S : t = N - x
    BY <1>3
<1>5. \A y \in S : N - x <= N - y
    BY <1>3, <1>4
<1>6. QED
    BY <1>5

-------------------------------------------------------------------------------
USE StackRecoveryAssumption DEF StackRecoveryAssumption

\* StackRecovery.  What the invariants of the ladder rest on.

\* A tick past its guard: a recovery of this rung is under way.
Recovering == at \in {"recreate", "recheck", "apps"}

\* The rung of a tick is due, acts, and was not spent before.
TickInv ==
    at # "idle" =>
        /\ tick.due \in Rungs /\ tick.due > attempts
        /\ episode /\ age >= Ladder[tick.due]

\* Rungs that are not spent have not been recovered at, but for the one whose
\* recovery is under way.
RungsInv ==
    raises = 0 =>
        \A r \in Rungs :
            /\ ran[r] <= 1
            /\ r > attempts /\ ~(Recovering /\ r = tick.due) => ran[r] = 0

AsOne(b) == IF b THEN 1 ELSE 0

\* Two notices for each rung spent, one while a rung is at work, one for each of
\* the two flags that are set: never more than MaxNotices.
NoticesInv ==
    /\ raises = 0 => notices <= 2 * attempts + AsOne(Recovering)
                                  + AsOne(waitTold) + AsOne(deferTold)
    /\ Recovering => ~deferTold

\* An open word is one that the end of the episode will take back, or try to.
WordInv ==
    crashes = 0 /\ raises = 0 /\ ~unclosed /\ lastWord \notin {"none", "recovered"} =>
        /\ episode
        /\ attempts > 0 \/ waitTold \/ deferTold \/ Recovering

StackInv ==
    /\ StackTypeOK /\ TickInv /\ RungsInv /\ NoticesInv /\ WordInv
    /\ attempts > 0 => episode /\ age >= Ladder[attempts]
    /\ CheckedSinceRecreate



\* How many rungs an age makes due.
LEMMA DueValues ==
    ASSUME NEW a \in Nat
    PROVE  Due(a) = IF a >= Ladder[2] THEN 2 ELSE IF a >= Ladder[1] THEN 1 ELSE 0
<1>1. Ladder[1] \in Nat /\ Ladder[2] \in Nat /\ Rungs = {1, 2}
    BY DEF Rungs
<1>2. Cardinality({}) = 0 /\ Cardinality({1}) = 1 /\ Cardinality({1, 2}) = 2
    <2>1. IsFiniteSet({1}) /\ Cardinality({1}) = 1 /\ Cardinality({}) = 0
        BY FS_Singleton, FS_EmptySet
    <2>2. {1, 2} = {1} \union {2} /\ 2 \notin {1}
        OBVIOUS
    <2>3. QED
        <3>1. Cardinality({1} \union {2}) = 2
            BY <2>1, <2>2, FS_AddElement
        <3>2. QED
            BY <2>1, <2>2, <3>1
<1>3. CASE a >= Ladder[2]
    <2>1. {r \in Rungs : a >= Ladder[r]} = {1, 2}
        BY <1>1, <1>3
    <2>2. QED
        BY <1>2, <1>3, <2>1 DEF Due
<1>4. CASE ~(a >= Ladder[2]) /\ a >= Ladder[1]
    <2>1. {r \in Rungs : a >= Ladder[r]} = {1}
        BY <1>1, <1>4
    <2>2. QED
        BY <1>2, <1>4, <2>1 DEF Due
<1>5. CASE ~(a >= Ladder[2]) /\ ~(a >= Ladder[1])
    <2>1. {r \in Rungs : a >= Ladder[r]} = {}
        BY <1>1, <1>5
    <2>2. QED
        BY <1>2, <1>5, <2>1 DEF Due
<1>6. QED
    BY <1>3, <1>4, <1>5

\* The rungs that are due are those the age has reached.
LEMMA DueIsAge ==
    ASSUME NEW a \in Nat, NEW d, d = Due(a), d > 0
    PROVE  d \in Rungs /\ a >= Ladder[d]
BY DueValues DEF Rungs

\* No tick is a tick of no reading.
LEMMA NoTickType == NoTick \in [reading : Readings, due : 0..2]
BY DEF NoTick, Readings

\* The counts of a fresh episode.
LEMMA Zeros ==
    /\ 0 \in 0..Ladder[2] /\ 0 \in 0..2 /\ 0 \in 0..MaxNotices + 1
    /\ 0 \in 0..MaxCrashes /\ 0 \in 0..MaxRaises /\ 0 \in 0..MaxSwallowed
BY DEF MaxNotices

\* A fresh process has run no rung and told nothing.
LEMMA StackStarts == StackInit => StackInv
<1> SUFFICES ASSUME StackInit PROVE StackInv
    OBVIOUS
<1>1. ran \in [Rungs -> Nat] /\ reading \in Readings
    BY DEF StackInit, Readings
<1>2. StackTypeOK
    BY <1>1, NoTickType, Zeros DEF StackInit, StackTypeOK, Words
<1>3. TickInv /\ RungsInv /\ NoticesInv /\ WordInv /\ CheckedSinceRecreate
    BY DEF StackInit, TickInv, RungsInv, NoticesInv, WordInv, CheckedSinceRecreate,
           Recovering, AsOne
<1>4. QED
    BY <1>2, <1>3 DEF StackInit, StackInv

\* The types, and the ladder's numbers as numbers.
LEMMA StackTypes ==
    ASSUME StackTypeOK
    PROVE  /\ age \in Nat /\ attempts \in 0..2 /\ notices \in Nat
           /\ Ladder[1] \in Nat /\ Ladder[2] \in Nat
           /\ raises \in Nat /\ crashes \in Nat
           /\ tick.due \in 0..2
           /\ swallowed \in 0..MaxSwallowed
BY DEF StackTypeOK

\* A notice leaves the word of the channel and the count of the swallowed ones typed.
LEMMA HeardTypes ==
    ASSUME StackTypeOK, NEW w \in Words, Hears(w)
    PROVE  lastWord' \in Words /\ swallowed' \in 0..MaxSwallowed
BY DEF Hears, StackTypeOK

\* Every step leaves the ladder well typed.
LEMMA StackTypeStep == StackInv /\ [StackNext]_stackVars => StackTypeOK'
<1> SUFFICES ASSUME StackInv, [StackNext]_stackVars PROVE StackTypeOK'
    OBVIOUS
<1> USE DEF StackInv
<1>1. CASE UNCHANGED stackVars \/ ReadingChanges \/ AccountsChange \/ SettingChanges
    <2>1. inUse' \in BOOLEAN /\ enabled' \in BOOLEAN /\ reading' \in Readings
        BY <1>1 DEF ReadingChanges, AccountsChange, SettingChanges, StackTypeOK,
            stackVars, env
    <2>2. UNCHANGED <<episodeState, run, ran, checked, channel, crashes, raises>>
        BY <1>1 DEF ReadingChanges, AccountsChange, SettingChanges, stackVars
    <2>3. QED
        BY <2>1, <2>2 DEF StackTypeOK, episodeState, run, channel
<1>2. CASE TimePasses
    BY <1>2, StackTypes DEF TimePasses, StackTypeOK, env, run, channel
<1>3. CASE Recovered \/ BotRestart
    <2>1. ran' \in [Rungs -> Nat] /\ age' = 0
        BY <1>3 DEF Recovered, BotRestart
    <2>2. CASE Recovered
        <3>1. lastWord' \in Words /\ swallowed' \in 0..MaxSwallowed
            BY <2>2, HeardTypes DEF Recovered, Closes, StackTypeOK, Words
        <3>2. unclosed' \in BOOLEAN
            BY <2>2 DEF Recovered, Closes, StackTypeOK
        <3>3. QED
            BY <2>1, <2>2, <3>1, <3>2, Zeros DEF Recovered, StackTypeOK, env, run
    <2>3. CASE BotRestart
        <3>1. crashes' \in 0..MaxCrashes
            BY <2>3 DEF BotRestart, StackTypeOK
        <3>2. QED
            BY <2>1, <2>3, <3>1, Zeros, NoTickType DEF BotRestart, StackTypeOK, env
    <2>4. QED
        BY <1>3, <2>2, <2>3
<1>4. CASE Waits \/ AnnounceWaiting
    <2>1. CASE Waits
        BY <2>1 DEF Waits, Down, StackTypeOK, env, run, channel
    <2>2. CASE AnnounceWaiting
        <3>1. notices' \in 0..MaxNotices + 1
            BY <2>2, StackTypes DEF AnnounceWaiting, Notify, Hears, StackTypeOK, MaxNotices
        <3>2. lastWord' \in Words /\ swallowed' \in 0..MaxSwallowed
            BY <2>2, HeardTypes DEF AnnounceWaiting, Notify, StackTypeOK, Words
        <3>3. QED
            BY <2>2, <3>1, <3>2 DEF AnnounceWaiting, Down, Notify, StackTypeOK, env, run
    <2>3. QED
        BY <1>4, <2>1, <2>2
<1>5. CASE Recover
    <2>1. tick' \in [reading : Readings, due : 0..2]
        BY <1>5, DueValues, StackTypes DEF Recover, StackTypeOK
    <2>2. QED
        BY <1>5, <2>1 DEF Recover, Down, StackTypeOK, env, channel
<1>6. CASE Allowed
    <2>1. ran' \in [Rungs -> Nat]
        <3>1. \A r \in Rungs : ran[r] + 1 \in Nat
            BY DEF StackTypeOK
        <3>2. QED
            BY <1>6, <3>1 DEF Allowed, Begins, StackTypeOK
    <2>2. QED
        BY <1>6, <2>1 DEF Allowed, SessionsFree, StackTypeOK, env, channel
<1>7. CASE Deferred
    <2>1. notices' \in 0..MaxNotices + 1
        BY <1>7, StackTypes DEF Deferred, SessionsHeld, Notify, Hears, StackTypeOK, channel, MaxNotices
    <2>2. lastWord' \in Words /\ swallowed' \in 0..MaxSwallowed
        BY <1>7, HeardTypes DEF Deferred, SessionsHeld, Notify, StackTypeOK, channel, Words
    <2>3. deferTold' \in BOOLEAN /\ unclosed' \in BOOLEAN
        BY <1>7 DEF Deferred, SessionsHeld, Notify, StackTypeOK, channel
    <2>4. QED
        BY <1>7, <2>1, <2>2, <2>3, NoTickType DEF Deferred, StackTypeOK, env
<1>8. CASE Recreate \/ AllowedAgain
    BY <1>8 DEF Recreate, AllowedAgain, SessionsFree, StackTypeOK, env, episodeState, channel
<1>9. CASE HeldAgain
    <2>1. notices' \in 0..MaxNotices + 1
        BY <1>9, StackTypes DEF HeldAgain, MaxNotices
    <2>2. lastWord' \in Words /\ swallowed' \in 0..MaxSwallowed
        <3>1. \A held, down \in 0..1 : swallowed + held + down >= 0
            BY StackTypes
        <3>2. QED
            BY <1>9, <3>1, StackTypes DEF HeldAgain, StackTypeOK, Words
    <2>3. QED
        BY <1>9, <2>1, <2>2, NoTickType, StackTypes DEF HeldAgain, Spend, StackTypeOK, env
<1>10. CASE Apps \/ AppsRaises
    <2>1. CASE Apps
        <3>1. notices' \in 0..MaxNotices + 1
            BY <2>1, StackTypes DEF Apps, Notify, Hears, StackTypeOK, MaxNotices
        <3>2. lastWord' \in Words /\ swallowed' \in 0..MaxSwallowed
            BY <2>1, HeardTypes DEF Apps, Notify, StackTypeOK, Words
        <3>3. QED
            BY <2>1, <3>1, <3>2, NoTickType, StackTypes
               DEF Apps, Notify, Spend, StackTypeOK, env
    <2>2. CASE AppsRaises
        <3>1. raises' \in 0..MaxRaises
            BY <2>2 DEF AppsRaises, StackTypeOK
        <3>2. QED
            BY <2>2, <3>1, NoTickType DEF AppsRaises, StackTypeOK, env, episodeState, channel
    <2>3. QED
        BY <1>10, <2>1, <2>2
<1>11. QED
    BY <1>1, <1>2, <1>3, <1>4, <1>5, <1>6, <1>7, <1>8, <1>9, <1>10
       DEF StackNext, World, Observe

\* Every step of the ladder keeps its invariant.
LEMMA StackStep == StackInv /\ [StackNext]_stackVars => StackInv'
<1> SUFFICES ASSUME StackInv, [StackNext]_stackVars PROVE StackInv'
    OBVIOUS
<1>0. StackTypeOK'
    BY StackTypeStep
<1> USE <1>0 DEF StackInv
<1>1. CASE UNCHANGED stackVars \/ ReadingChanges \/ AccountsChange \/ SettingChanges
    BY <1>1
       DEF ReadingChanges, AccountsChange, SettingChanges, stackVars, env, episodeState,
           run, channel, TickInv, RungsInv, NoticesInv, WordInv, CheckedSinceRecreate,
           Recovering, AsOne
<1>2. CASE TimePasses
    <2>1. /\ episode /\ age' = age + 1
          /\ UNCHANGED <<episode, attempts, waitTold, deferTold, at, tick, ran, checked,
                         lastWord, notices, unclosed, crashes, raises>>
        BY <1>2 DEF TimePasses, run, channel
    <2>2. TickInv' /\ (attempts' > 0 => episode' /\ age' >= Ladder[attempts'])
        BY <2>1, StackTypes DEF TickInv, Rungs
    <2>3. RungsInv' /\ NoticesInv' /\ WordInv' /\ CheckedSinceRecreate'
        BY <2>1 DEF RungsInv, NoticesInv, WordInv, CheckedSinceRecreate, Recovering, AsOne
    <2>4. QED
        BY <2>2, <2>3
<1>3. CASE Recovered
    <2>1. /\ at = "idle" /\ at' = "idle" /\ episode' = FALSE /\ attempts' = 0
          /\ waitTold' = FALSE /\ deferTold' = FALSE /\ notices' = 0
          /\ ran' = [r \in Rungs |-> 0]
          /\ UNCHANGED <<tick, checked, crashes, raises>>
        BY <1>3 DEF Recovered, run
    <2>2. WordInv'
        <3>1. CASE episode /\ (attempts > 0 \/ waitTold \/ deferTold)
            <4>1. \/ lastWord' = "recovered"
                  \/ unclosed' = (swallowed' # swallowed) /\ swallowed' = swallowed + 1
                BY <1>3, <3>1 DEF Recovered, Closes, Hears
            <4>2. swallowed + 1 # swallowed
                BY StackTypes
            <4>3. lastWord' = "recovered" \/ unclosed'
                BY <4>1, <4>2
            <4>4. QED
                BY <4>3 DEF WordInv
        <3>2. CASE ~(episode /\ (attempts > 0 \/ waitTold \/ deferTold))
            <4>1. lastWord' = lastWord /\ unclosed' = unclosed
                BY <1>3, <3>2 DEF Recovered, Closes
            <4>2. QED
                BY <2>1, <3>2, <4>1 DEF WordInv, Recovering
        <3>3. QED
            BY <3>1, <3>2
    <2>3. QED
        BY <2>1, <2>2, StackTypes
           DEF TickInv, RungsInv, NoticesInv, CheckedSinceRecreate, Recovering, AsOne
<1>4. CASE BotRestart
    BY <1>4, StackTypes
       DEF BotRestart, env, TickInv, RungsInv, NoticesInv, WordInv,
           CheckedSinceRecreate, Recovering, AsOne
<1>5. CASE Waits
    BY <1>5, StackTypes
       DEF Waits, Down, run, channel, TickInv, RungsInv, NoticesInv, WordInv,
           CheckedSinceRecreate, Recovering, AsOne
<1>6. CASE AnnounceWaiting
    BY <1>6, StackTypes
       DEF AnnounceWaiting, Down, Notify, Hears, run, TickInv, RungsInv, NoticesInv, WordInv,
           CheckedSinceRecreate, Recovering, AsOne
<1>7. CASE Recover
    <2>1. /\ at = "idle" /\ at' = "guard" /\ episode' = TRUE
          /\ tick'.due = Due(age) /\ Due(age) > attempts
          /\ UNCHANGED <<age, attempts, waitTold, deferTold, ran, checked, lastWord,
                         notices, unclosed, crashes, raises>>
        BY <1>7 DEF Recover, Down, channel
    <2>2. TickInv'
        <3>1. Due(age) > 0
            BY <2>1, StackTypes, DueValues
        <3>2. QED
            BY <2>1, <3>1, DueIsAge, StackTypes DEF TickInv
    <2>3. RungsInv' /\ NoticesInv' /\ WordInv' /\ CheckedSinceRecreate'
        BY <2>1 DEF RungsInv, NoticesInv, WordInv, CheckedSinceRecreate, Recovering, AsOne
    <2>4. QED
        BY <2>1, <2>2, <2>3
<1>8. CASE Allowed
    <2>1. /\ at = "guard" /\ at' \in {"recreate", "apps"} /\ deferTold' = FALSE
          /\ checked' = TRUE /\ ran' = [ran EXCEPT ![tick.due] = @ + 1]
          /\ UNCHANGED <<episode, age, attempts, waitTold, tick, lastWord, notices,
                         unclosed, crashes, raises>>
        BY <1>8 DEF Allowed, SessionsFree, Begins, channel
    <2>2. RungsInv'
        BY <2>1, StackTypes DEF RungsInv, TickInv, StackTypeOK, Recovering
    <2>3. TickInv' /\ NoticesInv' /\ WordInv' /\ CheckedSinceRecreate'
        BY <2>1, StackTypes
           DEF TickInv, NoticesInv, WordInv, CheckedSinceRecreate, Recovering, AsOne
    <2>4. QED
        BY <2>1, <2>2, <2>3
<1>9. CASE Deferred
    BY <1>9, StackTypes
       DEF Deferred, SessionsHeld, Notify, Hears, channel, TickInv, RungsInv, NoticesInv,
           WordInv, CheckedSinceRecreate, Recovering, AsOne
<1>10. CASE Recreate
    BY <1>10
       DEF Recreate, episodeState, channel, TickInv, RungsInv, NoticesInv, WordInv,
           CheckedSinceRecreate, Recovering, AsOne
<1>11. CASE AllowedAgain
    BY <1>11, StackTypes
       DEF AllowedAgain, SessionsFree, channel, TickInv, RungsInv, NoticesInv, WordInv,
           CheckedSinceRecreate, Recovering, AsOne
<1>12. CASE HeldAgain \/ Apps
    <2>1. /\ at \in {"recheck", "apps"} /\ at' = "idle" /\ attempts' = tick.due
          /\ tick.due \in Rungs /\ tick.due > attempts
          /\ episode /\ age >= Ladder[tick.due]
          /\ UNCHANGED <<episode, age, waitTold, ran, crashes, raises>>
        BY <1>12 DEF HeldAgain, Apps, Spend, Notify, Hears, TickInv
    <2>2. RungsInv'
        BY <2>1, StackTypes DEF RungsInv, Recovering, Rungs
    <2>3. NoticesInv'
        <3>1. CASE HeldAgain
            <4>1. ~deferTold /\ deferTold' /\ notices' <= notices + 2 /\ notices' \in Nat
                BY <3>1, StackTypes DEF HeldAgain, NoticesInv, Recovering, MaxNotices
            <4>2. QED
                BY <2>1, <4>1, StackTypes DEF NoticesInv, Recovering, AsOne, Rungs
        <3>2. CASE Apps
            BY <2>1, <3>2, StackTypes DEF Apps, Notify, Hears, NoticesInv, Recovering, AsOne, Rungs
        <3>3. QED
            BY <1>12, <3>1, <3>2
    <2>4. TickInv' /\ WordInv' /\ CheckedSinceRecreate'
        BY <2>1, StackTypes DEF TickInv, WordInv, CheckedSinceRecreate, Rungs
    <2>5. QED
        BY <2>1, <2>2, <2>3, <2>4
<1>13. CASE AppsRaises
    <2>1. raises' > 0 /\ raises' \in Nat
        BY <1>13, StackTypes DEF AppsRaises
    <2>2. QED
        BY <1>13, <2>1
           DEF AppsRaises, episodeState, channel, TickInv, RungsInv, NoticesInv, WordInv,
               CheckedSinceRecreate, Recovering
<1>14. QED
    BY <1>1, <1>2, <1>3, <1>4, <1>5, <1>6, <1>7, <1>8, <1>9, <1>10, <1>11, <1>12, <1>13
       DEF StackNext, World, Observe

\* The ladder climbs in order and stays bounded, the phone is reset only after the
\* counts were read as zero, and a closed episode leaves no "down" behind unless the
\* notice that takes it back was swallowed.
THEOREM LadderIsOrderly == StackSpec => []RecoveryIsOrderly
<1>1. StackInv => RecoveryIsOrderly
    <2> SUFFICES ASSUME StackInv PROVE RecoveryIsOrderly
        OBVIOUS
    <2>1. LadderKept
        <3>1. raises = 0 => notices <= MaxNotices
            BY StackTypes DEF StackInv, NoticesInv, TickInv, Recovering, AsOne, MaxNotices, Rungs
        <3>2. QED
            BY <3>1 DEF StackInv, LadderKept, TickInv, RungsInv
    <2>2. LastWordIsRecovered
        BY DEF StackInv, StackTypeOK, WordInv, LastWordIsRecovered
    <2>3. QED
        BY <2>1, <2>2 DEF StackInv, RecoveryIsOrderly
<1>2. QED
    BY <1>1, StackStarts, StackStep, PTL DEF StackSpec

-------------------------------------------------------------------------------
USE MonitoringRelayAssumption DEF MonitoringRelayAssumption

\* MonitoringRelay.  A request is one record, and functions are from some checks.
RelayJobs == [step : {"idle", "send", "save", "final"}, batch : Some(Status),
         state : Some(Records), todo : SUBSET Checks, group : SUBSET Checks]

RelayTypes ==
    /\ alert \in [Checks -> Status \union {"quiet"}]
    /\ known \in Some(Records)
    /\ job \in RelayJobs
    /\ heard \in [Checks -> Status \union {"none"}]
    /\ answered \in Some(Status)

\* The last the owner heard of an alert is what f remembers of it.
Remembers(f, k) == heard[k] = IF k \in DOMAIN f THEN f[k].status ELSE "none"

\* The file is behind only by the group whose DM has just gone out...
RelayFile == \A k \in Checks \ excused : k \notin job.group => Remembers(known, k)

\* ... what is in memory is not...
RelayMemory == job.step # "idle" => \A k \in Checks \ excused : Remembers(job.state, k)

\* ... and what is left to do is what the owner has not heard of the batch.
HasHeard(k, batch) == heard[k] = batch[k] \/ (heard[k] = "none" /\ batch[k] = "resolved")

RelayBatch ==
    /\ job.step # "idle" =>
          \A k \in DOMAIN job.batch \ excused :
              k \notin job.todo \ job.group => HasHeard(k, job.batch)
    /\ job.step = "final" => job.todo = {}
    /\ job.step # "save" => job.group = {}
    /\ job.step = "idle" =>
          \A k \in DOMAIN answered \ excused : HasHeard(k, answered)
    /\ job.step # "idle" => DOMAIN answered = {}
    /\ job.todo \subseteq DOMAIN job.batch
    /\ job.group \subseteq job.todo

RelayInv == RelayTypes /\ RelayFile /\ RelayMemory /\ RelayBatch

\* What Some means, for a proof.
LEMMA SomeIs ==
    ASSUME NEW S, NEW f
    PROVE  f \in Some(S) <=> DOMAIN f \subseteq Checks /\ f \in [DOMAIN f -> S]
BY DEF Some

\* The function from no check is one of them.
LEMMA NoneIsSome ==
    ASSUME NEW S
    PROVE  NoneOf \in Some(S) /\ DOMAIN NoneOf = {}
BY SomeIs DEF NoneOf

\* No request is a request with nothing to do.
LEMMA NoJobIsJob ==
    /\ NoJob \in RelayJobs
    /\ NoJob.step = "idle" /\ NoJob.todo = {} /\ NoJob.group = {}
BY NoneIsSome DEF NoJob, RelayJobs

\* Taking a part of a function is such a function again.
LEMMA WithinIsSome ==
    ASSUME NEW S, NEW f, f \in Some(S), NEW D
    PROVE  /\ Within(f, D) \in Some(S)
           /\ DOMAIN Within(f, D) = DOMAIN f \intersect D
           /\ \A k \in DOMAIN f \intersect D : Within(f, D)[k] = f[k]
<1>1. DOMAIN f \subseteq Checks /\ f \in [DOMAIN f -> S]
    BY SomeIs
<1>2. /\ DOMAIN Within(f, D) = DOMAIN f \intersect D
      /\ \A k \in DOMAIN f \intersect D : Within(f, D)[k] = f[k]
    BY DEF Within
<1>3. Within(f, D) \in [DOMAIN f \intersect D -> S]
    BY <1>1 DEF Within
<1>4. QED
    BY <1>1, <1>2, <1>3, SomeIs

\* What the steps below read of the types.
LEMMA RelayShapes ==
    ASSUME RelayTypes
    PROVE  /\ job \in RelayJobs
           /\ DOMAIN known \subseteq Checks /\ known \in [DOMAIN known -> Records]
           /\ DOMAIN job.state \subseteq Checks /\ job.state \in [DOMAIN job.state -> Records]
           /\ DOMAIN job.batch \subseteq Checks /\ job.batch \in [DOMAIN job.batch -> Status]
           /\ job.todo \subseteq Checks /\ job.group \subseteq Checks
           /\ \A k \in Checks : heard[k] \in Status \union {"none"}
BY SomeIs DEF RelayTypes, RelayJobs

\* A remembered alert grows older, and stays as it was heard.
LEMMA AgesKeeps ==
    ASSUME RelayInv, NEW k \in Checks, Ages(k)
    PROVE  RelayInv'
<1> USE DEF RelayInv
<1>1. /\ k \in DOMAIN known /\ known[k].age <= Retention /\ known[k] \in Records
      /\ known' = [known EXCEPT ![k].age = @ + 1]
      /\ UNCHANGED <<alert, job, heard, answered, excused>>
    BY RelayShapes DEF Ages
<1>2. DOMAIN known' = DOMAIN known
    BY <1>1
<1>3. [known[k] EXCEPT !.age = @ + 1] \in Records
    BY <1>1 DEF Records
<1>4. known' \in [DOMAIN known -> Records]
    BY <1>1, <1>3, RelayShapes
<1>5. known' \in Some(Records)
    BY <1>2, <1>4, SomeIs, RelayShapes
<1>6. \A j \in DOMAIN known : known'[j].status = known[j].status
    BY <1>1, RelayShapes DEF Records
<1>7. RelayFile'
    BY <1>1, <1>2, <1>6 DEF RelayFile, Remembers
<1>8. RelayTypes' /\ RelayMemory' /\ RelayBatch'
    BY <1>1, <1>5 DEF RelayTypes, RelayMemory, RelayBatch, Remembers, HasHeard
<1>9. QED
    BY <1>7, <1>8

\* The state a request works with remembers what the file does, but for what is
\* too old, and the news is what the owner has not heard.
LEMMA PostKeeps ==
    ASSUME RelayInv, NEW S \in SUBSET Checks, Post(S)
    PROVE  RelayInv'
<1> USE DEF RelayInv
<1> DEFINE batch == [k \in S |-> alert[k]]
           state == Retained
           news == News(batch, state)
           fresh == [k \in DOMAIN state |->
                        IF k \in S \ news /\ batch[k] = state[k].status
                        THEN Fresh(k, batch[k]) ELSE state[k]]
<1>1. /\ job.step = "idle" /\ \A k \in S : alert[k] # "quiet"
      /\ job' = [step |-> IF news = {} THEN "final" ELSE "send", batch |-> batch,
                 state |-> fresh, todo |-> news, group |-> {}]
      /\ answered' = NoneOf
      /\ excused' = excused \union {k \in DOMAIN known : known[k].age > Retention}
      /\ UNCHANGED <<alert, known, heard>>
    BY DEF Post
<1>2. batch \in [S -> Status] /\ batch \in Some(Status) /\ DOMAIN batch = S
    <2>1. \A k \in S : alert[k] \in Status
        BY <1>1 DEF RelayTypes
    <2>2. QED
        BY <2>1, SomeIs
<1>3. /\ state \in Some(Records) /\ DOMAIN state \subseteq DOMAIN known
      /\ state \in [DOMAIN state -> Records] /\ DOMAIN state \subseteq Checks
      /\ \A k \in DOMAIN state : state[k] = known[k]
      /\ \A k \in DOMAIN known \ DOMAIN state : k \in excused'
    <2>1. known \in Some(Records)
        BY DEF RelayTypes
    <2>2. /\ state \in Some(Records)
          /\ DOMAIN state = DOMAIN known \intersect
                                {k \in DOMAIN known : known[k].age <= Retention}
          /\ \A k \in DOMAIN known \intersect
                          {k \in DOMAIN known : known[k].age <= Retention} :
                state[k] = known[k]
        BY <2>1, WithinIsSome DEF Retained
    <2>3. \A k \in DOMAIN known : known[k].age \in Nat
        BY RelayShapes DEF Records
    <2>4. QED
        BY <1>1, <2>2, <2>3, SomeIs
<1>4. news \subseteq S
    BY <1>2 DEF News
<1>5. /\ DOMAIN fresh = DOMAIN state /\ fresh \in Some(Records)
      /\ \A k \in DOMAIN state : fresh[k].status = state[k].status
    <2>1. \A k \in DOMAIN state : fresh[k] \in Records /\ fresh[k].status = state[k].status
        BY <1>2, <1>3 DEF Fresh, Records
    <2>2. DOMAIN fresh = DOMAIN state
        OBVIOUS
    <2>3. fresh \in [DOMAIN state -> Records]
        BY <2>1
    <2>4. QED
        BY <1>3, <2>1, <2>2, <2>3, SomeIs
<1> HIDE DEF batch, state, news, fresh
<1>6. job' \in RelayJobs
    BY <1>1, <1>2, <1>4, <1>5 DEF RelayJobs
<1>7. /\ job'.step \in {"send", "final"} /\ job'.step = "final" => job'.todo = {}
      /\ job'.batch = batch /\ job'.state = fresh /\ job'.todo = news /\ job'.group = {}
    BY <1>1
<1>8. RelayTypes'
    BY <1>1, <1>6, NoneIsSome DEF RelayTypes
<1>9. job.group = {} /\ \A k \in Checks \ excused : Remembers(known, k)
    BY <1>1 DEF RelayBatch, RelayFile
<1>10. RelayFile'
    BY <1>1, <1>9 DEF RelayFile, Remembers
<1>11. RelayMemory'
    BY <1>1, <1>3, <1>5, <1>7, <1>9 DEF RelayMemory, Remembers
<1>12. ASSUME NEW k \in S \ excused', k \notin news
       PROVE  HasHeard(k, batch)'
    <2>1. heard[k] = (IF k \in DOMAIN state THEN state[k].status ELSE "none")
        BY <1>1, <1>3, <1>9, <1>12 DEF Remembers
    <2>2. IF k \in DOMAIN state THEN state[k].status = batch[k] ELSE batch[k] # "firing"
        BY <1>2, <1>12 DEF news, News
    <2>3. batch[k] \in Status
        BY <1>2
    <2>4. heard[k] = batch[k] \/ (heard[k] = "none" /\ batch[k] = "resolved")
        BY <2>1, <2>2, <2>3 DEF Status
    <2>5. batch' = batch
        BY <1>1 DEF batch
    <2>6. QED
        BY <1>1, <2>4, <2>5 DEF HasHeard
<1>13. RelayBatch'
    <2>1. batch' = batch
        BY <1>1 DEF batch
    <2>2. \A k \in DOMAIN job'.batch \ excused' :
              k \notin job'.todo \ job'.group => HasHeard(k, job.batch)'
        BY <1>2, <1>7, <1>12, <2>1 DEF HasHeard
    <2>3. QED
        BY <1>1, <1>2, <1>4, <1>7, <2>2, NoneIsSome DEF RelayBatch
<1>14. QED
    BY <1>8, <1>10, <1>11, <1>13

\* A DM that goes out is what the owner hears; its group is not on file yet.
LEMMA SendGroupKeeps ==
    ASSUME RelayInv, NEW k \in Checks, SendGroup(k)
    PROVE  RelayInv'
<1> USE DEF RelayInv
<1> DEFINE group == GroupOf(k)
           noted == [j \in DOMAIN job.state \union group |->
                        IF j \in group THEN Fresh(j, job.batch[j]) ELSE job.state[j]]
<1>1. /\ job.step = "send" /\ k \in job.todo
      /\ UNCHANGED <<alert, known, answered>>
    BY DEF SendGroup
<1>2. PICK kept \in SUBSET DOMAIN noted :
          /\ job' = [job EXCEPT !.step = "save", !.state = Within(noted, kept), !.group = group]
          /\ heard' = [j \in Checks |-> IF j \in group THEN job.batch[j] ELSE heard[j]]
          /\ excused' = (excused \ (group \intersect kept)) \union (DOMAIN noted \ kept)
    BY DEF SendGroup
<1>3. group \subseteq job.todo /\ group \subseteq DOMAIN job.batch /\ group \subseteq Checks
    BY RelayShapes DEF GroupOf, RelayBatch
<1>4. DOMAIN noted = DOMAIN job.state \union group
    OBVIOUS
<1>5. noted \in Some(Records)
    <2>1. \A j \in DOMAIN noted : noted[j] \in Records
        BY <1>3, RelayShapes DEF Fresh, Records
    <2>2. noted \in [DOMAIN noted -> Records]
        BY <2>1
    <2>3. QED
        BY <1>3, <1>4, <2>2, SomeIs, RelayShapes
<1>6. /\ \A j \in group : noted[j].status = job.batch[j]
      /\ \A j \in DOMAIN job.state \ group : noted[j] = job.state[j]
    BY DEF Fresh
<1> HIDE DEF group, noted
<1>7. /\ Within(noted, kept) \in Some(Records) /\ DOMAIN Within(noted, kept) = kept
      /\ \A j \in kept : Within(noted, kept)[j] = noted[j]
    <2>1. DOMAIN noted \intersect kept = kept
        BY <1>2
    <2>2. /\ Within(noted, kept) \in Some(Records)
          /\ DOMAIN Within(noted, kept) = DOMAIN noted \intersect kept
          /\ \A j \in DOMAIN noted \intersect kept : Within(noted, kept)[j] = noted[j]
        BY <1>5, WithinIsSome
    <2>3. QED
        BY <2>1, <2>2
<1>8. /\ job' \in RelayJobs
      /\ job'.step = "save" /\ job'.state = Within(noted, kept) /\ job'.group = group
      /\ job'.batch = job.batch /\ job'.todo = job.todo
    BY <1>2, <1>3, <1>7, RelayShapes DEF RelayJobs
<1>9. \A j \in Checks : heard'[j] = IF j \in group THEN job.batch[j] ELSE heard[j]
    BY <1>2
<1>10. RelayTypes'
    <2>1. \A j \in group : job.batch[j] \in Status
        BY <1>3, RelayShapes
    <2>2. heard' \in [Checks -> Status \union {"none"}]
        BY <1>2, <2>1, RelayShapes
    <2>3. QED
        BY <1>1, <1>8, <2>2 DEF RelayTypes
<1>11. \A j \in Checks \ excused' : j \notin group => j \notin excused
    BY <1>2
<1>12. RelayFile'
    <2>1. job.group = {}
        BY <1>1 DEF RelayBatch
    <2>2. QED
        BY <1>1, <1>8, <1>9, <1>11, <2>1 DEF RelayFile, Remembers
<1>13. RelayMemory'
    <2>1. ASSUME NEW j \in Checks \ excused'
          PROVE  Remembers(job.state, j)'
        <3>1. CASE j \in group
            <4>1. j \in kept
                BY <1>2, <1>4, <2>1, <3>1
            <4>2. QED
                BY <1>6, <1>7, <1>8, <1>9, <3>1, <4>1 DEF Remembers
        <3>2. CASE j \notin group
            <4>1. Remembers(job.state, j)
                BY <1>1, <1>11, <2>1, <3>2 DEF RelayMemory
            <4>2. j \in kept <=> j \in DOMAIN job.state
                BY <1>2, <1>4, <2>1, <3>2
            <4>3. QED
                BY <1>6, <1>7, <1>8, <1>9, <3>2, <4>1, <4>2 DEF Remembers
        <3>3. QED
            BY <3>1, <3>2
    <2>2. QED
        BY <2>1 DEF RelayMemory
<1>14. RelayBatch'
    <2>1. ASSUME NEW j \in DOMAIN job.batch \ excused', j \notin job.todo \ group
          PROVE  HasHeard(j, job.batch)'
        <3>1. j \in Checks
            BY RelayShapes
        <3>2. CASE j \in group
            BY <1>8, <1>9, <3>1, <3>2 DEF HasHeard
        <3>3. CASE j \notin group
            <4>1. HasHeard(j, job.batch)
                BY <1>1, <1>11, <2>1, <3>1, <3>3 DEF RelayBatch
            <4>2. QED
                BY <1>8, <1>9, <3>1, <3>3, <4>1 DEF HasHeard
        <3>4. QED
            BY <3>2, <3>3
    <2>2. DOMAIN answered' = {}
        BY <1>1 DEF RelayBatch
    <2>3. job'.todo \subseteq DOMAIN job'.batch
        BY <1>8 DEF RelayBatch
    <2>4. QED
        BY <1>3, <1>8, <2>1, <2>2, <2>3 DEF RelayBatch
<1>15. QED
    BY <1>10, <1>12, <1>13, <1>14

\* The group is on file, and what is left to do is the rest.
LEMMA SaveKeeps ==
    ASSUME RelayInv, Save
    PROVE  RelayInv'
<1> USE DEF RelayInv
<1>1. /\ job.step = "save" /\ known' = job.state
      /\ job' = [job EXCEPT !.todo = job.todo \ job.group, !.group = {},
                            !.step = IF job.todo \ job.group = {} THEN "final" ELSE "send"]
      /\ UNCHANGED <<alert, heard, answered, excused>>
    BY DEF Save
<1>2. /\ job' \in RelayJobs
      /\ job'.step \in {"send", "final"} /\ job'.step = "final" => job'.todo = {}
      /\ job'.batch = job.batch /\ job'.state = job.state
      /\ job'.todo = job.todo \ job.group /\ job'.group = {}
    BY <1>1, RelayShapes DEF RelayJobs
<1>3. RelayTypes'
    BY <1>1, <1>2 DEF RelayTypes, RelayJobs
<1>4. RelayFile' /\ RelayMemory'
    BY <1>1, <1>2 DEF RelayFile, RelayMemory, Remembers
<1>5. RelayBatch'
    BY <1>1, <1>2 DEF RelayBatch, HasHeard
<1>6. QED
    BY <1>3, <1>4, <1>5

\* A batch is answered once nothing of it is left to do.
LEMMA Answer200Keeps ==
    ASSUME RelayInv, Answer200
    PROVE  RelayInv'
<1> USE DEF RelayInv
<1>1. /\ job.step = "final" /\ known' = job.state /\ answered' = job.batch /\ job' = NoJob
      /\ UNCHANGED <<alert, heard, excused>>
    BY DEF Answer200
<1>2. RelayTypes'
    BY <1>1, NoJobIsJob DEF RelayTypes, RelayJobs
<1>3. RelayFile' /\ RelayMemory'
    BY <1>1, NoJobIsJob DEF RelayFile, RelayMemory, Remembers
<1>4. RelayBatch'
    BY <1>1, NoJobIsJob DEF RelayBatch, HasHeard
<1>5. QED
    BY <1>2, <1>3, <1>4

\* A request that ends without an answer: what it told and did not record is excused.
LEMMA EndsKeeps ==
    ASSUME RelayInv, DMRefused \/ BreaksOff
    PROVE  RelayInv'
<1> USE DEF RelayInv
<1>1. /\ job.step # "idle" /\ job' = NoJob
      /\ UNCHANGED <<alert, known, answered>>
      /\ heard' \in [Checks -> Status \union {"none"}]
      /\ excused \union job.group \subseteq excused'
      /\ \A k \in Checks \ excused' : heard'[k] = heard[k]
    <2>1. CASE DMRefused
        BY <2>1, RelayShapes DEF DMRefused, RelayTypes, RelayBatch
    <2>2. CASE BreaksOff
        <3>1. CASE job.step = "send"
            <4>1. PICK k \in job.todo :
                    /\ heard' = [j \in Checks |->
                                    IF j \in GroupOf(k) THEN job.batch[j] ELSE heard[j]]
                    /\ excused' = excused \union GroupOf(k)
                BY <2>2, <3>1 DEF BreaksOff
            <4>2. job.group = {}
                BY <3>1 DEF RelayBatch
            <4>3. \A j \in GroupOf(k) : job.batch[j] \in Status
                BY RelayShapes DEF GroupOf, RelayBatch
            <4>4. heard' \in [Checks -> Status \union {"none"}]
                BY <4>1, <4>3, RelayShapes
            <4>5. QED
                BY <2>2, <3>1, <4>1, <4>2, <4>4 DEF BreaksOff
        <3>2. CASE job.step # "send"
            BY <2>2, <3>2 DEF BreaksOff, RelayTypes
        <3>3. QED
            BY <3>1, <3>2
    <2>3. QED
        BY <2>1, <2>2
<1>2. RelayTypes'
    BY <1>1, NoJobIsJob DEF RelayTypes
<1>3. RelayFile' /\ RelayMemory'
    BY <1>1, NoJobIsJob DEF RelayFile, RelayMemory, Remembers
<1>4. RelayBatch'
    BY <1>1, NoJobIsJob DEF RelayBatch
<1>5. QED
    BY <1>2, <1>3, <1>4

\* At the start nothing was heard and nothing is remembered.
LEMMA RelayStarts == RelayInit => RelayInv
<1> SUFFICES ASSUME RelayInit PROVE RelayInv
    OBVIOUS
<1>1. RelayTypes
    BY NoneIsSome, NoJobIsJob DEF RelayInit, RelayTypes
<1>2. RelayFile /\ RelayMemory /\ RelayBatch
    BY NoneIsSome, NoJobIsJob DEF RelayInit, RelayFile, RelayMemory, RelayBatch, Remembers
<1>3. QED
    BY <1>1, <1>2 DEF RelayInv

\* Every step of the relay keeps its invariant.
LEMMA RelayStep == RelayInv /\ [RelayNext]_relayVars => RelayInv'
<1> SUFFICES ASSUME RelayInv, [RelayNext]_relayVars PROVE RelayInv'
    OBVIOUS
<1>1. ASSUME NEW k \in Checks, Turns(k)
      PROVE  RelayInv'
    <2>1. alert' \in [Checks -> Status \union {"quiet"}]
        BY <1>1 DEF Turns, RelayInv, RelayTypes, Status
    <2>2. UNCHANGED <<known, job, heard, answered, excused>>
        BY <1>1 DEF Turns
    <2>3. QED
        BY <2>1, <2>2 DEF RelayInv, RelayTypes, RelayFile, RelayMemory, RelayBatch,
                          Remembers, HasHeard
<1>2. CASE UNCHANGED relayVars
    BY <1>2 DEF relayVars, RelayInv, RelayTypes, RelayFile, RelayMemory, RelayBatch,
                Remembers, HasHeard
<1>3. QED
    BY <1>1, <1>2, AgesKeeps, PostKeeps, SendGroupKeeps, SaveKeeps, Answer200Keeps,
       EndsKeeps DEF RelayNext

\* What the relay remembers, and what it answered with 200, is what the owner was
\* told: for any alerts, groups and limits.
THEOREM OwnerIsTold == RelaySpec => []OwnerKnows
<1>1. RelayInv => OwnerKnows
    BY RelayShapes, SomeIs
       DEF RelayInv, RelayTypes, RelayFile, RelayBatch, OwnerKnows, Remembers, HasHeard
<1>2. QED
    BY <1>1, RelayStarts, RelayStep, PTL DEF RelaySpec

-------------------------------------------------------------------------------
USE ScannerUpdateAssumption DEF ScannerUpdateAssumption

\* ScannerUpdate.  The script is one record.
CheckSteps == {"verify", "save", "write", "prune", "tell", "sign"}
HookSteps  == {"backup", "up", "ready", "tag", "done"}
ScriptJobs == [step : {"idle"} \union CheckSteps \union HookSteps,
               record : Record, failed : BOOLEAN, moved : BOOLEAN]

UpdateTypes ==
    /\ kind \in {"db", "scanner", "report"}
    /\ remote \in Versions /\ running \in Versions /\ plain \in Versions
    /\ pinned \in BOOLEAN
    /\ staged \in SUBSET Versions /\ previous \in SUBSET Versions
    /\ file \in Record /\ override \in OrNone
    /\ script \in ScriptJobs

\* What a record names is there.
Held(r) ==
    /\ r.downloaded => r.candidate \in staged /\ r.candidate > Composed
    /\ r.rollback # None => r.rollback \in previous
    /\ r.candidate <= Candidate
    /\ r.pending /\ kind # "report" => r.downloaded

RecordsHeld ==
    /\ Held(file)
    /\ script.step \in {"verify", "save", "write", "prune"} =>
          Held(script.record) /\ (kind = "report" => ~script.record.downloaded)
    /\ kind = "report" => ~file.downloaded
    /\ script.step \in HookSteps => kind = "db" /\ script.record = file /\ file.downloaded
    /\ script.step = "prune" => file = script.record
    /\ script.failed => script.step \in {"save", "write", "tell", "sign"}

\* The override, and a container that was made of one, are of a candidate ...
ImagesHeld ==
    /\ override # None => override \in staged /\ override > Composed /\ override <= Candidate
    /\ running <= Candidate /\ Composed <= running
    /\ pinned => running > Composed
    /\ pinned /\ running = Candidate => running \in staged
    /\ kind = "scanner" => plain = Composed /\ (~pinned => running = Composed)
    /\ kind = "report" => ~pinned

\* ... that the check under way keeps, if it still is the candidate.
CheckKeeps ==
    script.step \in {"verify", "save", "write", "prune"} /\ ~script.failed =>
        LET r == script.record
        IN  /\ running <= r.candidate /\ override <= r.candidate
            /\ pinned /\ running = r.candidate => r.downloaded
            /\ kind = "scanner" /\ override = r.candidate => r.downloaded
            /\ script.step \in {"write", "prune"} /\ override # None =>
                  r.downloaded /\ override = r.candidate

\* A database that a normal start would not bring up is still queued, or was dropped.
StartHeld ==
    kind = "db" =>
        /\ plain # running => (file.pending /\ file.downloaded) \/ dropped
        /\ script.step \in HookSteps => file.pending
        /\ script.step \in {"ready", "tag", "done"} => running = file.candidate
        /\ script.step = "done" => plain = running

UpdateInv == UpdateTypes /\ RecordsHeld /\ ImagesHeld /\ CheckKeeps /\ StartHeld

\* The candidate is a version, and not below the composed one.
LEMMA CandidateIs ==
    ASSUME UpdateTypes
    PROVE  Candidate \in Versions /\ Composed <= Candidate /\ Candidate \in OrNone
           /\ Candidate # None
BY DEF UpdateTypes, Candidate, Versions, OrNone, Composed, None

\* The script is one record of its four parts.
LEMMA ScriptIs ==
    ASSUME UpdateTypes
    PROVE  /\ script \in ScriptJobs /\ script.record \in Record /\ file \in Record
           /\ script = [step |-> script.step, record |-> script.record,
                        failed |-> script.failed, moved |-> script.moved]
BY DEF UpdateTypes, ScriptJobs

\* No script is a script with no record.
LEMMA OffIs ==
    /\ NoRecord \in Record /\ Off \in ScriptJobs
    /\ Off.step = "idle" /\ Off.record = NoRecord /\ Off.failed = FALSE /\ Off.moved = FALSE
BY DEF Off, NoRecord, Record, ScriptJobs, OrNone

\* The script enters a step, and keeps the rest.
LEMMA EnterIs ==
    ASSUME UpdateTypes, NEW s \in {"idle"} \union CheckSteps \union HookSteps, Enter(s)
    PROVE  /\ script' \in ScriptJobs
           /\ script'.step = s /\ script'.record = script.record
           /\ script'.failed = script.failed /\ script'.moved = script.moved
BY DEF UpdateTypes, ScriptJobs, Enter

\* Images and files unchanged, the script is over or goes on.
LEMMA LeavesFiles ==
    ASSUME UpdateInv,
           UNCHANGED <<kind, remote, running, plain, pinned, staged, previous, file, override>>,
           script' \in ScriptJobs, dropped => dropped',
           \/ script'.step = "idle" /\ ~script'.failed
           \/ script'.step \in {"tell", "sign"}
    PROVE  UpdateInv'
<1> USE DEF UpdateInv, CheckSteps, HookSteps
<1>1. UpdateTypes'
    BY DEF UpdateTypes, ScriptJobs
<1>2. RecordsHeld'
    BY DEF RecordsHeld, Held, Candidate
<1>3. ImagesHeld'
    BY DEF ImagesHeld, Candidate
<1>4. CheckKeeps' /\ StartHeld'
    BY DEF CheckKeeps, StartHeld
<1>5. QED
    BY <1>1, <1>2, <1>3, <1>4

\* At the start the composed image runs, and no file names another.
LEMMA UpdateStarts ==
    ASSUME UpdateInit
    PROVE  UpdateInv
<1>1. /\ kind \in {"db", "scanner", "report"}
      /\ remote \in 0..Composed
      /\ running = Composed /\ plain = Composed /\ pinned = FALSE
      /\ staged = {} /\ previous = {} /\ override = None
      /\ file = NoRecord /\ script = Off
    BY DEF UpdateInit, Composed
<1>0. Composed \in Versions /\ 0..Composed \subseteq Versions /\ None \in OrNone
    BY DEF Versions, OrNone, Composed
<1>2. UpdateTypes
    <2>1. pinned \in BOOLEAN
        BY <1>1, Zenon
    <2>2. /\ remote \in Versions /\ running \in Versions /\ plain \in Versions
          /\ staged \in SUBSET Versions /\ previous \in SUBSET Versions
          /\ override \in OrNone
        BY <1>0, <1>1
    <2>3. file \in Record /\ script \in ScriptJobs
        BY <1>1, OffIs
    <2>4. QED
        BY <1>1, <2>1, <2>2, <2>3 DEF UpdateTypes
<1>3. Held(NoRecord)
    <2>1. /\ ~NoRecord.downloaded /\ ~NoRecord.pending
          /\ NoRecord.rollback = None /\ NoRecord.candidate = None
        BY DEF NoRecord
    <2>2. None <= Candidate
        BY <1>2, CandidateIs DEF None, Versions
    <2>3. QED
        BY <2>1, <2>2 DEF Held
<1>4. RecordsHeld
    BY <1>1, <1>3, OffIs DEF RecordsHeld, HookSteps, NoRecord
<1>5. ImagesHeld
    <2>1. ~pinned
        BY <1>1, Zenon
    <2>2. Composed <= Candidate /\ Composed <= Composed
        BY <1>2, CandidateIs DEF Composed
    <2>3. QED
        BY <1>1, <2>1, <2>2 DEF ImagesHeld
<1>6. CheckKeeps /\ StartHeld
    BY <1>1, OffIs DEF CheckKeeps, StartHeld, HookSteps
<1>7. QED
    BY <1>2, <1>4, <1>5, <1>6 DEF UpdateInv

\* A newer version moves the candidate away from what runs and is held.
LEMMA PublishesKeeps ==
    ASSUME UpdateInv, Publishes
    PROVE  UpdateInv'
<1> USE DEF UpdateInv
<1>1. /\ remote' = remote + 1 /\ remote' \in Versions
      /\ UNCHANGED <<kind, running, plain, pinned, staged, previous, file, override, script,
                     dropped>>
    BY DEF Publishes, UpdateTypes, Versions, docker
<1>2. /\ Candidate' \in Nat /\ Candidate \in Nat
      /\ Candidate' >= Candidate
      /\ Candidate' # Candidate => Candidate' > Candidate
    BY <1>1 DEF UpdateTypes, Versions, Candidate, Composed
<1>3. UpdateTypes'
    BY <1>1 DEF UpdateTypes
<1>4. ASSUME NEW r \in Record, Held(r)
      PROVE  Held(r)'
    BY <1>1, <1>2, <1>4 DEF Held, Record, OrNone, Versions, None
<1>5. RecordsHeld'
    BY <1>1, <1>4, ScriptIs DEF RecordsHeld
<1>6. ImagesHeld'
    BY <1>1, <1>2 DEF ImagesHeld, UpdateTypes, OrNone, Versions, None
<1>7. CheckKeeps' /\ StartHeld'
    BY <1>1 DEF CheckKeeps, StartHeld
<1>8. QED
    BY <1>3, <1>5, <1>6, <1>7

\* The recovery makes the container of the override, which is held.
LEMMA RecoversKeeps ==
    ASSUME UpdateInv, Recovers
    PROVE  UpdateInv'
<1> USE DEF UpdateInv
<1>1. /\ kind = "scanner"
      /\ running' = IF override = None THEN plain ELSE override
      /\ pinned' = (override # None)
      /\ script' = [script EXCEPT !.moved = script.step = "verify"]
      /\ UNCHANGED <<kind, remote, plain, staged, previous, file, override, dropped>>
    BY DEF Recovers
<1>2. /\ script' \in ScriptJobs
      /\ script'.step = script.step /\ script'.record = script.record
      /\ script'.failed = script.failed
    BY <1>1 DEF UpdateTypes, ScriptJobs
<1>3. UpdateTypes'
    <2>1. running' \in Versions
        BY <1>1 DEF UpdateTypes, OrNone
    <2>2. QED
        BY <1>1, <1>2, <2>1 DEF UpdateTypes
<1>4. RecordsHeld'
    BY <1>1, <1>2 DEF RecordsHeld, Held, Candidate
<1>5. ImagesHeld'
    <2>1. plain = Composed /\ Composed <= Candidate /\ Candidate' = Candidate
        BY <1>1, CandidateIs DEF ImagesHeld, Candidate
    <2>2. CASE override = None
        <3>1. ~pinned' /\ running' = Composed /\ Composed <= Composed
            <4>1. ~pinned'
                BY <1>1, <2>2, Zenon
            <4>2. QED
                BY <1>1, <2>1, <2>2, <4>1 DEF Composed
        <3>2. QED
            BY <1>1, <2>1, <2>2, <3>1 DEF ImagesHeld
    <2>3. CASE override # None
        <3>1. running' = override /\ override > Composed /\ override <= Candidate
              /\ override \in staged /\ Composed <= override
            BY <1>1, <2>3 DEF ImagesHeld, Composed, UpdateTypes, OrNone, Versions
        <3>2. pinned' = TRUE
            BY <1>1, <2>3
        <3>3. QED
            BY <1>1, <2>1, <2>3, <3>1, <3>2 DEF ImagesHeld
    <2>4. QED
        BY <2>2, <2>3
<1>6. CheckKeeps'
    <2>1. ASSUME script.step \in {"verify", "save", "write", "prune"}, ~script.failed
          PROVE  running' <= script.record.candidate
        <3>1. CASE override = None
            BY <1>1, <2>1, <3>1 DEF CheckKeeps, ImagesHeld, UpdateTypes, Versions, Composed,
                                    Record, ScriptJobs, OrNone, None
        <3>2. CASE override # None
            BY <1>1, <2>1, <3>2 DEF CheckKeeps
        <3>3. QED
            BY <3>1, <3>2
    <2>2. QED
        BY <1>1, <1>2, <2>1 DEF CheckKeeps
<1>7. StartHeld'
    BY <1>1 DEF StartHeld
<1>8. QED
    BY <1>3, <1>4, <1>5, <1>6, <1>7

\* A check's record names what is there, or will be once it is staged.
LEMMA CheckedIs ==
    ASSUME UpdateInv
    PROVE  /\ Checked \in Record /\ Checked.candidate = Candidate
           /\ Checked.rollback = file.rollback
           /\ Checked.pending <=> running # Candidate
           /\ Checked.downloaded => /\ kind # "report" /\ Candidate > Composed
                                    /\ Candidate \in staged
           /\ kind # "report" /\ pinned /\ running = Candidate => Checked.downloaded
<1> USE DEF UpdateInv
<1>1. /\ Candidate \in OrNone /\ file.rollback \in OrNone
    BY CandidateIs, ScriptIs DEF Record
<1>2. /\ Checked \in Record /\ Checked.candidate = Candidate
      /\ Checked.rollback = file.rollback
      /\ Checked.pending = (running # Candidate)
      /\ Checked.downloaded = (/\ kind # "report"
                               /\ \/ file.candidate = Candidate /\ file.downloaded
                                  \/ running = Candidate /\ pinned)
    BY <1>1 DEF Checked, Record
<1>3. file.candidate = Candidate /\ file.downloaded =>
          Candidate > Composed /\ Candidate \in staged
    BY DEF RecordsHeld, Held
<1>4. running = Candidate /\ pinned => Candidate > Composed /\ Candidate \in staged
    BY DEF ImagesHeld
<1>5. Checked.downloaded => kind # "report" /\ Candidate > Composed /\ Candidate \in staged
    BY <1>2, <1>3, <1>4, Zenon
<1>6. kind # "report" /\ pinned /\ running = Candidate => Checked.downloaded
    BY <1>2, Zenon
<1>7. QED
    BY <1>2, <1>5, <1>6, Zenon

\* A check looks at what runs, and downloads a newer version.
LEMMA StageKeeps ==
    ASSUME UpdateInv, Stage
    PROVE  UpdateInv'
<1> USE DEF UpdateInv
<1> DEFINE fetch == Checked.pending /\ kind # "report"
           made == IF fetch THEN [Checked EXCEPT !.downloaded = TRUE, !.rollback = running]
                   ELSE Checked
<1>1. /\ script.step = "idle"
      /\ script' = [Off EXCEPT !.step = "verify", !.record = made]
      /\ staged' = IF fetch THEN staged \union {Candidate} ELSE staged
      /\ previous' = IF fetch THEN previous \union {running} ELSE previous
      /\ UNCHANGED <<kind, remote, running, plain, pinned, file, override, dropped>>
    BY DEF Stage
<1>2. /\ running \in Versions /\ running \in OrNone /\ Candidate \in Versions
      /\ Candidate # None /\ running # None /\ Composed <= running /\ running <= Candidate
      /\ Candidate' = Candidate /\ Composed <= Candidate /\ Candidate \in Nat
    BY <1>1, CandidateIs
    DEF UpdateTypes, OrNone, Versions, None, Candidate, ImagesHeld
<1>3. /\ made \in Record /\ made.candidate = Candidate
      /\ made.downloaded => kind # "report" /\ Candidate > Composed /\ Candidate \in staged'
      /\ made.rollback # None => made.rollback \in previous'
      /\ made.pending /\ kind # "report" => made.downloaded
      /\ kind # "report" /\ pinned /\ running = Candidate => made.downloaded
      /\ kind # "report" /\ running # Candidate => made.downloaded
      /\ kind = "report" => ~made.downloaded
    <2>1. CASE fetch
        <3>1. made = [Checked EXCEPT !.downloaded = TRUE, !.rollback = running]
            BY <2>1
        <3>2. /\ made \in Record /\ made.candidate = Candidate /\ made.downloaded = TRUE
              /\ made.rollback = running /\ made.pending = Checked.pending
            BY <1>2, <3>1, CheckedIs DEF Record
        <3>3. running # Candidate /\ Candidate > Composed
            BY <1>2, <2>1, CheckedIs DEF Composed, Versions
        <3>4. QED
            BY <1>1, <2>1, <3>2, <3>3
    <2>2. CASE ~fetch
        <3>1. made = Checked
            BY <2>2
        <3>2. file.rollback # None => file.rollback \in previous
            BY DEF RecordsHeld, Held
        <3>3. QED
            BY <1>1, <2>2, <3>1, <3>2, CheckedIs
    <2>3. QED
        BY <2>1, <2>2
<1>4. PICK r \in Record : r = made
    BY <1>3
<1> HIDE DEF made
<1>5. /\ script' \in ScriptJobs /\ script'.step = "verify" /\ script'.record = r
      /\ ~script'.failed
    BY <1>1, <1>3, <1>4, OffIs DEF ScriptJobs, CheckSteps
<1>6. staged \subseteq staged' /\ previous \subseteq previous'
      /\ staged' \in SUBSET Versions /\ previous' \in SUBSET Versions
    BY <1>1, <1>2 DEF UpdateTypes
<1>7. UpdateTypes'
    BY <1>1, <1>5, <1>6 DEF UpdateTypes
<1>8. RecordsHeld'
    <2>1. Held(r)' /\ Held(file)'
        BY <1>1, <1>2, <1>3, <1>4, <1>6 DEF RecordsHeld, Held, Versions
    <2>2. QED
        BY <1>1, <1>3, <1>4, <1>5, <2>1 DEF RecordsHeld, HookSteps
<1>9. ImagesHeld'
    BY <1>1, <1>2, <1>6 DEF ImagesHeld
<1>10. CheckKeeps'
    <2>1. override <= Candidate
        BY <1>2 DEF ImagesHeld, None, Versions
    <2>2. kind = "scanner" /\ override = Candidate => r.downloaded
        <3>1. ASSUME kind = "scanner", override = Candidate, running = Candidate
              PROVE  pinned
            BY <1>2, <3>1 DEF ImagesHeld, Composed, Versions
        <3>2. QED
            BY <1>3, <1>4, <3>1
    <2>3. kind = "report" /\ pinned /\ running = Candidate => r.downloaded
        BY DEF ImagesHeld
    <2>4. QED
        BY <1>1, <1>2, <1>3, <1>4, <1>5, <2>1, <2>2, <2>3 DEF CheckKeeps
<1>11. StartHeld'
    BY <1>1, <1>5 DEF StartHeld, HookSteps
<1>12. QED
    BY <1>7, <1>8, <1>9, <1>10, <1>11

\* A check that fails goes on with the old record.
LEMMA FailsKeeps ==
    ASSUME UpdateInv, script.step \in {"idle", "verify"},
           script' = [Off EXCEPT !.step = "save", !.record = file, !.failed = TRUE],
           UNCHANGED <<kind, remote, running, plain, pinned, staged, previous, file, override,
                       dropped>>
    PROVE  UpdateInv'
<1> USE DEF UpdateInv
<1>1. /\ script' \in ScriptJobs /\ script'.step = "save" /\ script'.record = file
      /\ script'.failed
    BY OffIs, ScriptIs DEF ScriptJobs, CheckSteps
<1>2. Candidate' = Candidate
    BY DEF Candidate
<1>3. UpdateTypes'
    BY <1>1 DEF UpdateTypes
<1>4. RecordsHeld'
    BY <1>1, <1>2 DEF RecordsHeld, Held, HookSteps
<1>5. ImagesHeld'
    BY <1>2 DEF ImagesHeld
<1>6. CheckKeeps' /\ StartHeld'
    BY <1>1 DEF CheckKeeps, StartHeld, HookSteps
<1>7. QED
    BY <1>3, <1>4, <1>5, <1>6

\* The adopted rollback is an old tag that is there.
LEMMA AdoptedIs ==
    ASSUME UpdateInv, NEW r \in Record, Held(r)
    PROVE  /\ Adopted(r) \in Record /\ Held(Adopted(r))
           /\ Adopted(r).candidate = r.candidate /\ Adopted(r).downloaded = r.downloaded
<1> USE DEF UpdateInv
<1>1. CASE r.rollback # None \/ previous = {} \/ kind = "report"
    BY <1>1 DEF Adopted
<1>2. CASE ~(r.rollback # None \/ previous = {} \/ kind = "report")
    <2>1. previous \subseteq 0..Newest /\ previous # {} /\ Newest \in Nat
        BY <1>2 DEF UpdateTypes, Versions
    <2>2. \E v \in previous : \A w \in previous : w <= v
        BY <2>1, HasNewest
    <2>3. PICK v \in previous : Adopted(r) = [r EXCEPT !.rollback = v]
        BY <1>2, <2>2 DEF Adopted
    <2>4. v \in OrNone
        BY DEF UpdateTypes, OrNone
    <2>5. QED
        BY <2>3, <2>4 DEF Held, Record
<1>3. QED
    BY <1>1, <1>2

\* A container that was exchanged fails the check; otherwise its record goes on.
LEMMA VerifyKeeps ==
    ASSUME UpdateInv, Verify
    PROVE  UpdateInv'
<1> USE DEF UpdateInv
<1>1. /\ script.step = "verify"
      /\ UNCHANGED <<kind, remote, running, plain, pinned, staged, previous, file, override,
                     dropped>>
    BY DEF Verify, docker
<1>2. CASE script.moved
    BY <1>1, <1>2, FailsKeeps DEF Verify
<1>3. CASE ~script.moved
    <2>1. script' = [script EXCEPT !.step = "save", !.record = Adopted(@)]
        BY <1>3 DEF Verify
    <2>2. Held(script.record) /\ script.record \in Record
        BY <1>1, ScriptIs DEF RecordsHeld
    <2>3. PICK r \in Record :
              /\ r = Adopted(script.record) /\ Held(r)
              /\ r.candidate = script.record.candidate
              /\ r.downloaded = script.record.downloaded
        BY <2>2, AdoptedIs
    <2>4. /\ script' \in ScriptJobs /\ script'.step = "save"
          /\ script'.record = r /\ script'.failed = script.failed
        BY <2>1, <2>3, ScriptIs DEF ScriptJobs, CheckSteps
    <2>5. Candidate' = Candidate
        BY <1>1 DEF Candidate
    <2>6. UpdateTypes'
        BY <1>1, <2>4 DEF UpdateTypes
    <2>7. RecordsHeld'
        <3>1. Held(r)' /\ Held(file)'
            BY <1>1, <2>3, <2>4, <2>5 DEF RecordsHeld, Held
        <3>2. QED
            BY <1>1, <2>3, <2>4, <3>1 DEF RecordsHeld, HookSteps
    <2>8. ImagesHeld'
        BY <1>1, <2>5 DEF ImagesHeld
    <2>9. CheckKeeps'
        BY <1>1, <2>3, <2>4 DEF CheckKeeps
    <2>10. StartHeld'
        BY <1>1, <2>4 DEF StartHeld, HookSteps
    <2>11. QED
        BY <2>6, <2>7, <2>8, <2>9, <2>10
<1>4. QED
    BY <1>2, <1>3

\* The override names the record's candidate, or nothing.
LEMMA SaveOverridesKeeps ==
    ASSUME UpdateInv, SaveOverrides
    PROVE  UpdateInv'
<1> USE DEF UpdateInv
<1>1. /\ script.step = "save"
      /\ UNCHANGED <<kind, remote, running, plain, pinned, staged, previous, file, dropped>>
    BY DEF SaveOverrides, docker
<1>2. CASE Released /\ UNCHANGED override
    BY <1>1, <1>2, LeavesFiles, OffIs DEF Released
<1>3. CASE /\ override' = IF script.record.downloaded THEN script.record.candidate ELSE None
           /\ Enter("write")
    <2>1. /\ script' \in ScriptJobs /\ script'.step = "write"
          /\ script'.record = script.record /\ script'.failed = script.failed
        BY <1>3, EnterIs DEF CheckSteps
    <2>2. Held(script.record) /\ script.record \in Record /\ Candidate' = Candidate
        BY <1>1, ScriptIs DEF RecordsHeld, Candidate
    <2>3. override' \in OrNone
        BY <1>3, <2>2 DEF Record, OrNone
    <2>4. UpdateTypes'
        BY <1>1, <2>1, <2>3 DEF UpdateTypes
    <2>5. RecordsHeld'
        BY <1>1, <2>1, <2>2 DEF RecordsHeld, Held, HookSteps
    <2>6. ImagesHeld'
        <3>1. override' # None =>
                  override' \in staged /\ override' > Composed /\ override' <= Candidate
            BY <1>3, <2>2 DEF Held
        <3>2. QED
            BY <1>1, <2>2, <3>1 DEF ImagesHeld
    <2>7. CheckKeeps'
        <3>1. CASE script.record.downloaded
            BY <1>1, <1>3, <2>1, <2>2, <3>1 DEF CheckKeeps, Record, OrNone, Versions, None
        <3>2. CASE ~script.record.downloaded
            <4>1. override' = None
                BY <1>3, <3>2
            <4>2. None <= script.record.candidate
                BY <2>2 DEF Record, OrNone, Versions, None
            <4>3. ASSUME ~script.failed, kind = "scanner", override' = script.record.candidate
                  PROVE  FALSE
                <5>1. running <= None /\ running \in Versions
                    BY <1>1, <4>1, <4>3 DEF CheckKeeps, UpdateTypes
                <5>2. QED
                    BY <5>1 DEF Versions, None
            <4>4. QED
                BY <1>1, <2>1, <4>1, <4>2, <4>3 DEF CheckKeeps
        <3>3. QED
            BY <3>1, <3>2
    <2>8. StartHeld'
        BY <1>1, <2>1 DEF StartHeld, HookSteps
    <2>9. QED
        BY <2>4, <2>5, <2>6, <2>7, <2>8
<1>4. QED
    BY <1>2, <1>3 DEF SaveOverrides

\* The record is the file's; an update it drops is one a normal start would not bring up.
LEMMA WriteStateKeeps ==
    ASSUME UpdateInv, WriteState
    PROVE  UpdateInv'
<1> USE DEF UpdateInv
<1>1. /\ script.step = "write" /\ file' = script.record
      /\ dropped' = (dropped \/ (file.pending /\ ~script.record.pending /\ running # plain))
      /\ Enter(IF kind = "report" \/ script.failed THEN "tell" ELSE "prune")
      /\ UNCHANGED <<kind, remote, running, plain, pinned, staged, previous, override>>
    BY DEF WriteState, docker
<1>2. PICK s \in {"tell", "prune"} :
          Enter(s) /\ (s = "prune" => kind # "report" /\ ~script.failed)
    BY <1>1
<1>3. /\ script' \in ScriptJobs /\ script'.step = s
      /\ script'.record = script.record /\ script'.failed = script.failed
    BY <1>2, EnterIs DEF CheckSteps
<1>4. Held(script.record) /\ script.record \in Record /\ Candidate' = Candidate
    BY <1>1, ScriptIs DEF RecordsHeld, Candidate
<1>5. UpdateTypes'
    BY <1>1, <1>3, <1>4 DEF UpdateTypes
<1>6. RecordsHeld'
    <2>1. Held(file)' /\ Held(script.record)'
        BY <1>1, <1>3, <1>4 DEF Held
    <2>2. kind = "report" => ~script.record.downloaded
        BY <1>1 DEF RecordsHeld
    <2>3. QED
        BY <1>1, <1>2, <1>3, <2>1, <2>2 DEF RecordsHeld, HookSteps
<1>7. ImagesHeld'
    BY <1>1, <1>4 DEF ImagesHeld
<1>8. CheckKeeps'
    BY <1>1, <1>3 DEF CheckKeeps
<1>9. StartHeld'
    <2>1. ASSUME kind = "db", plain # running, ~script.record.pending
          PROVE  dropped'
        BY <1>1, <2>1, Zenon DEF StartHeld
    <2>2. kind = "db" /\ script.record.pending => script.record.downloaded
        BY <1>4 DEF Held
    <2>3. QED
        BY <1>1, <1>3, <2>1, <2>2 DEF StartHeld, HookSteps
<1>10. QED
    BY <1>5, <1>6, <1>7, <1>8, <1>9

\* What is pruned is named by no file.
LEMMA PruneKeeps ==
    ASSUME UpdateInv, Prune
    PROVE  UpdateInv'
<1> USE DEF UpdateInv
<1>1. /\ script.step = "prune" /\ Enter("tell")
      /\ UNCHANGED <<kind, remote, running, plain, pinned, file, override, dropped>>
    BY DEF Prune
<1>2. PICK kept \in SUBSET (staged \ Keep) : staged' = (staged \intersect Keep) \union kept
    BY DEF Prune
<1>3. /\ script' \in ScriptJobs /\ script'.step = "tell"
      /\ script'.record = script.record /\ script'.failed = script.failed
    BY <1>1, EnterIs DEF CheckSteps
<1>4. /\ Held(file) /\ file = script.record /\ ~script.failed /\ Candidate' = Candidate
      /\ script.record \in Record
    BY <1>1, ScriptIs DEF RecordsHeld, Candidate
<1>5. staged' \in SUBSET Versions
    BY <1>2 DEF UpdateTypes
<1>6. /\ previous' \in SUBSET Versions
      /\ file.rollback # None => file.rollback \in previous'
    BY <1>4 DEF Prune, UpdateTypes, Held
<1>7. file.downloaded => file.candidate \in staged'
    BY <1>2, <1>4 DEF Keep, Held
<1>8. UpdateTypes'
    BY <1>1, <1>3, <1>5, <1>6 DEF UpdateTypes
<1>9. RecordsHeld'
    BY <1>1, <1>3, <1>4, <1>6, <1>7 DEF RecordsHeld, Held, HookSteps
<1>10. ImagesHeld'
    <2>1. override # None => override = file.candidate /\ file.downloaded
        BY <1>1, <1>4 DEF CheckKeeps
    <2>2. pinned /\ running = Candidate => running \in staged'
        <3>1. running <= file.candidate /\ file.candidate <= Candidate
            BY <1>1, <1>4 DEF CheckKeeps, Held
        <3>2. running = Candidate => running = file.candidate
            BY <1>4, <3>1, CandidateIs DEF UpdateTypes, Record, OrNone, Versions, None
        <3>3. pinned /\ running = file.candidate => file.downloaded
            BY <1>1, <1>4 DEF CheckKeeps
        <3>4. QED
            BY <1>7, <3>2, <3>3
    <2>3. QED
        BY <1>1, <1>4, <1>7, <2>1, <2>2 DEF ImagesHeld
<1>11. CheckKeeps' /\ StartHeld'
    BY <1>1, <1>3 DEF CheckKeeps, StartHeld, HookSteps
<1>12. QED
    BY <1>8, <1>9, <1>10, <1>11

\* The DM and its note touch no image and no record.
LEMMA TellKeeps ==
    ASSUME UpdateInv, Tell \/ Sign
    PROVE  UpdateInv'
<1>1. /\ UNCHANGED <<kind, remote, running, plain, pinned, staged, previous, file, override>>
      /\ dropped' = dropped
      /\ Enter("sign") \/ Released
    BY DEF Tell, Sign, docker
<1>2. CASE Enter("sign")
    <2>1. script' \in ScriptJobs /\ script'.step = "sign"
        BY <1>2, EnterIs DEF UpdateInv, CheckSteps
    <2>2. QED
        BY <1>1, <2>1, LeavesFiles
<1>3. CASE Released
    BY <1>1, <1>3, LeavesFiles, OffIs DEF Released
<1>4. QED
    BY <1>1, <1>2, <1>3

\* A script that ends, by itself or not, leaves the files fit.
LEMMA ReleasedKeeps ==
    ASSUME UpdateInv, Released,
           UNCHANGED <<kind, remote, running, plain, pinned, staged, previous, file, override,
                       dropped>>
    PROVE  UpdateInv'
BY LeavesFiles, OffIs DEF Released

\* The hook takes the queued record, whose candidate is there.
LEMMA EnterHookKeeps ==
    ASSUME UpdateInv, EnterHook
    PROVE  UpdateInv'
<1> USE DEF UpdateInv
<1>1. /\ kind = "db" /\ script.step = "idle" /\ file.pending /\ file.downloaded
      /\ UNCHANGED <<kind, remote, running, plain, pinned, staged, previous, file, override,
                     dropped>>
    BY DEF EnterHook, docker, Queued
<1>2. CASE Gives
    BY <1>1, <1>2, ReleasedKeeps DEF Gives
<1>3. CASE script' = [Off EXCEPT !.record = file,
                          !.step = IF running = file.candidate THEN "ready" ELSE "backup"]
    <2>1. /\ script' \in ScriptJobs /\ script'.record = file /\ ~script'.failed
          /\ script'.step = IF running = file.candidate THEN "ready" ELSE "backup"
        BY <1>3, OffIs, ScriptIs DEF ScriptJobs, HookSteps
    <2>2. Candidate' = Candidate
        BY <1>1 DEF Candidate
    <2>3. UpdateTypes'
        BY <1>1, <2>1 DEF UpdateTypes
    <2>4. RecordsHeld'
        BY <1>1, <2>1, <2>2 DEF RecordsHeld, Held
    <2>5. ImagesHeld'
        BY <1>1, <2>2 DEF ImagesHeld
    <2>6. CheckKeeps'
        BY <2>1 DEF CheckKeeps
    <2>7. StartHeld'
        BY <1>1, <2>1 DEF StartHeld
    <2>8. QED
        BY <2>3, <2>4, <2>5, <2>6, <2>7
<1>4. QED
    BY <1>2, <1>3 DEF EnterHook

\* The dump changes nothing that the record names.
LEMMA BackupKeeps ==
    ASSUME UpdateInv, Backup
    PROVE  UpdateInv'
<1> USE DEF UpdateInv
<1>1. /\ script.step = "backup"
      /\ UNCHANGED <<kind, remote, running, plain, pinned, staged, previous, file, override,
                     dropped>>
    BY DEF Backup, docker
<1>2. CASE Gives
    BY <1>1, <1>2, ReleasedKeeps DEF Gives
<1>3. CASE Enter("up")
    <2>1. /\ script' \in ScriptJobs /\ script'.step = "up"
          /\ script'.record = script.record /\ script'.failed = script.failed
        BY <1>3, EnterIs DEF HookSteps
    <2>2. UpdateTypes' /\ RecordsHeld' /\ ImagesHeld'
        BY <1>1, <2>1 DEF UpdateTypes, RecordsHeld, Held, ImagesHeld, HookSteps, Candidate
    <2>3. CheckKeeps' /\ StartHeld'
        BY <1>1, <2>1 DEF CheckKeeps, StartHeld, HookSteps
    <2>4. QED
        BY <2>2, <2>3
<1>4. QED
    BY <1>2, <1>3 DEF Backup

\* The container is made of a queued candidate: the record stays queued.
LEMMA UpKeeps ==
    ASSUME UpdateInv, Up
    PROVE  UpdateInv'
<1> USE DEF UpdateInv
<1>1. /\ script.step = "up"
      /\ UNCHANGED <<kind, remote, plain, staged, previous, file, override, dropped>>
    BY DEF Up
<1>2. CASE Gives /\ UNCHANGED <<running, pinned>>
    BY <1>1, <1>2, ReleasedKeeps DEF Gives
<1>3. CASE running' = script.record.candidate /\ pinned' = TRUE /\ Enter("ready")
    <2>1. /\ script' \in ScriptJobs /\ script'.step = "ready"
          /\ script'.record = script.record /\ script'.failed = script.failed
        BY <1>3, EnterIs DEF HookSteps
    <2>2. /\ script.record = file /\ file.downloaded /\ Held(file) /\ kind = "db"
          /\ Candidate' = Candidate /\ file.pending
        BY <1>1 DEF RecordsHeld, HookSteps, Candidate, StartHeld
    <2>3. /\ running' = file.candidate /\ file.candidate \in staged
          /\ file.candidate > Composed /\ file.candidate <= Candidate
          /\ running' \in Versions /\ Composed <= running'
        <3>1. /\ running' = file.candidate /\ file.candidate \in staged
              /\ file.candidate > Composed /\ file.candidate <= Candidate
            BY <1>3, <2>2 DEF Held
        <3>2. running' \in Versions
            BY <3>1 DEF UpdateTypes
        <3>3. QED
            BY <3>1, <3>2 DEF Versions, Composed
    <2>4. UpdateTypes'
        <3>1. pinned' \in BOOLEAN
            BY <1>3
        <3>2. QED
            BY <1>1, <2>1, <2>3, <3>1 DEF UpdateTypes
    <2>5. RecordsHeld'
        BY <1>1, <2>1, <2>2 DEF RecordsHeld, Held, HookSteps
    <2>6. ImagesHeld'
        BY <1>1, <2>2, <2>3 DEF ImagesHeld
    <2>7. CheckKeeps'
        BY <2>1 DEF CheckKeeps
    <2>8. StartHeld'
        BY <1>1, <2>1, <2>2, <2>3 DEF StartHeld
    <2>9. QED
        BY <2>4, <2>5, <2>6, <2>7, <2>8
<1>4. QED
    BY <1>2, <1>3 DEF Up

\* A database that answers is the candidate.
LEMMA WaitReadyKeeps ==
    ASSUME UpdateInv, WaitReady
    PROVE  UpdateInv'
<1> USE DEF UpdateInv
<1>1. /\ script.step = "ready"
      /\ UNCHANGED <<kind, remote, running, plain, pinned, staged, previous, file, override,
                     dropped>>
    BY DEF WaitReady, docker
<1>2. CASE Gives
    BY <1>1, <1>2, ReleasedKeeps DEF Gives
<1>3. CASE Enter("tag")
    <2>1. /\ script' \in ScriptJobs /\ script'.step = "tag"
          /\ script'.record = script.record /\ script'.failed = script.failed
        BY <1>3, EnterIs DEF HookSteps
    <2>2. UpdateTypes' /\ RecordsHeld' /\ ImagesHeld'
        BY <1>1, <2>1 DEF UpdateTypes, RecordsHeld, Held, ImagesHeld, HookSteps, Candidate
    <2>3. CheckKeeps' /\ StartHeld'
        BY <1>1, <2>1 DEF CheckKeeps, StartHeld, HookSteps
    <2>4. QED
        BY <2>2, <2>3
<1>4. QED
    BY <1>2, <1>3 DEF WaitReady

\* From here on a normal start brings up what runs ...
LEMMA TagPlainKeeps ==
    ASSUME UpdateInv, TagPlain
    PROVE  UpdateInv'
<1> USE DEF UpdateInv
<1>1. /\ script.step = "tag" /\ plain' = script.record.candidate /\ Enter("done")
      /\ UNCHANGED <<kind, remote, running, pinned, staged, previous, file, override>>
    BY DEF TagPlain
<1>2. /\ script' \in ScriptJobs /\ script'.step = "done"
      /\ script'.record = script.record /\ script'.failed = script.failed
    BY <1>1, EnterIs DEF HookSteps
<1>3. /\ kind = "db" /\ script.record = file /\ running = file.candidate
      /\ plain' = running /\ Candidate' = Candidate
    BY <1>1 DEF RecordsHeld, HookSteps, StartHeld, Candidate
<1>4. UpdateTypes'
    BY <1>1, <1>2, <1>3 DEF UpdateTypes
<1>5. RecordsHeld'
    BY <1>1, <1>2, <1>3 DEF RecordsHeld, Held, HookSteps
<1>6. ImagesHeld'
    BY <1>1, <1>3 DEF ImagesHeld
<1>7. CheckKeeps' /\ StartHeld'
    BY <1>1, <1>2, <1>3 DEF CheckKeeps, StartHeld, HookSteps
<1>8. QED
    BY <1>4, <1>5, <1>6, <1>7

\* ... and only then does the record leave the queue.
LEMMA AppliedKeeps ==
    ASSUME UpdateInv, Applied
    PROVE  UpdateInv'
<1> USE DEF UpdateInv
<1>1. /\ script.step = "done" /\ file' = [script.record EXCEPT !.pending = FALSE] /\ Released
      /\ UNCHANGED <<kind, remote, running, plain, pinned, staged, previous, override, dropped>>
    BY DEF Applied, docker
<1>2. /\ kind = "db" /\ script.record = file /\ plain = running /\ Candidate' = Candidate
      /\ script' = Off /\ Held(file)
    BY <1>1 DEF RecordsHeld, HookSteps, StartHeld, Candidate, Released
<1>3. /\ file' \in Record /\ file'.candidate = file.candidate /\ ~file'.pending
      /\ file'.downloaded = file.downloaded /\ file'.rollback = file.rollback
    BY <1>1, <1>2, ScriptIs DEF Record
<1>4. UpdateTypes'
    BY <1>1, <1>2, <1>3, OffIs DEF UpdateTypes
<1>5. RecordsHeld'
    <2>1. Held(file)'
        BY <1>1, <1>2, <1>3 DEF Held
    <2>2. QED
        BY <1>1, <1>2, <2>1, OffIs DEF RecordsHeld, HookSteps
<1>6. ImagesHeld'
    BY <1>1, <1>2 DEF ImagesHeld
<1>7. CheckKeeps' /\ StartHeld'
    BY <1>1, <1>2, OffIs DEF CheckKeeps, StartHeld, HookSteps
<1>8. QED
    BY <1>4, <1>5, <1>6, <1>7

\* Every step of both scripts, and of the host, keeps the invariant.
LEMMA UpdateStep ==
    ASSUME UpdateInv, [UpdateNext]_updateVars
    PROVE  UpdateInv'
<1>1. CASE Shutdown \/ Cancelled \/ UNCHANGED updateVars
    <2>1. UNCHANGED <<kind, remote, running, plain, pinned, staged, previous, file, override,
                      script, dropped>>
        BY <1>1 DEF Shutdown, Cancelled, updateVars, docker
    <2>2. Candidate' = Candidate
        BY <2>1 DEF Candidate
    <2>3. UpdateTypes' /\ RecordsHeld'
        BY <2>1, <2>2 DEF UpdateInv, UpdateTypes, RecordsHeld, Held
    <2>4. ImagesHeld' /\ CheckKeeps' /\ StartHeld'
        BY <2>1, <2>2 DEF UpdateInv, ImagesHeld, CheckKeeps, StartHeld
    <2>5. QED
        BY <2>3, <2>4 DEF UpdateInv
<1>2. CASE Publishes \/ Recovers
    BY <1>2, PublishesKeeps, RecoversKeeps
<1>3. CASE Cut
    BY <1>3, ReleasedKeeps DEF Cut, docker
<1>4. CASE Stage \/ Verify
    BY <1>4, StageKeeps, VerifyKeeps
<1>5. CASE StageFails
    BY <1>5, FailsKeeps DEF StageFails, docker
<1>6. CASE SaveOverrides \/ WriteState \/ Prune
    BY <1>6, SaveOverridesKeeps, WriteStateKeeps, PruneKeeps
<1>7. CASE Tell \/ Sign
    BY <1>7, TellKeeps
<1>8. CASE EnterHook \/ Backup \/ Up
    BY <1>8, EnterHookKeeps, BackupKeeps, UpKeeps
<1>9. CASE WaitReady \/ TagPlain \/ Applied
    BY <1>9, WaitReadyKeeps, TagPlainKeeps, AppliedKeeps
<1>10. QED
    BY <1>1, <1>2, <1>3, <1>4, <1>5, <1>6, <1>7, <1>8, <1>9 DEF UpdateNext

\* Whatever version is published and wherever a script of scripts/scanner-update or
\* scripts/scanner-db-shutdown is cut off: the images that the override and state.json name are
\* there, and a normal start brings up the database that runs, unless its update is still queued
\* or a check has dropped it.
THEOREM UpdatesAlwaysFit == UpdateSpec => []UpdatesFit
<1>1. UpdateInit => UpdateInv
    BY UpdateStarts
<1>2. UpdateInv /\ [UpdateNext]_updateVars => UpdateInv'
    BY UpdateStep
<1>3. UpdateInv => UpdatesFit
    <2>1. UpdateInv => NamedIsThere
        BY DEF UpdateInv, RecordsHeld, Held, ImagesHeld, NamedIsThere
    <2>2. UpdateInv => OrdinaryStart
        BY DEF UpdateInv, StartHeld, OrdinaryStart, Queued
    <2>3. QED
        BY <2>1, <2>2 DEF UpdatesFit
<1>4. QED
    BY <1>1, <1>2, <1>3, PTL DEF UpdateSpec

-------------------------------------------------------------------------------
USE OwnerRunsAssumption DEF OwnerRunsAssumption

\* OwnerRuns.  The waiters of the lock are the queued turns, each of them once.
QueueIsTurns ==
    /\ \A i, j \in DOMAIN queue : queue[i] = queue[j] => i = j
    /\ \A i \in DOMAIN queue : turn[queue[i]] = "queued"
    /\ \A m \in Msgs : turn[m] = "queued" => \E i \in DOMAIN queue : queue[i] = m

\* A text that the server may still take, or that it took no more often than counted as lost
\* or as clicked late.
Untaken(m) ==
    \/ turn[m] \in {"new", "guiding", "alone", "left"}
    \/ runs[m] = "none" /\ turn[m] \in {"queued", "post"}

\* It was taken no more often than that, any other once more.
TakenOnce(m) ==
    /\ took[m] <= 1 + retaken[m]
    /\ Untaken(m) => took[m] <= retaken[m]
    /\ turn[m] \in {"posted", "poll", "ask", "back"} => runs[m] # "none"

\* The turn has a result that it will say, now or when it is back from the queue.
Says(m) ==
    \/ turn[m] \in {"poll", "ask"}
    \/ turn[m] = "tell" /\ answer[m] = "text"
    \/ m \in recorded /\ turn[m] \in {"left", "back", "queued", "post", "posted"}

\* A run that is not yet recorded has neither a file nor a result, a recorded one keeps its
\* file till it was delivered ...
OnFile(m) ==
    /\ m \notin recorded => /\ delivered[m] = 0 /\ m \notin records /\ m \notin recovery.todo
                            /\ ~Says(m) /\ turn[m] # "forget"
    /\ m \in recorded => /\ turn[m] \notin {"new", "guiding", "alone"}
                         /\ m \in records \/ delivered[m] > 0 \/ m \in expired
    /\ turn[m] = "forget" => delivered[m] > 0

\* ... and whoever may still deliver it counts: recovery, the turn, or the file at rest.
One(b) == IF b THEN 1 ELSE 0
Rests(m) ==
    m \in records /\ m \notin recovery.todo /\ ~Says(m) /\ turn[m] # "forget"

Load(m) == One(m \in recovery.todo) + One(Says(m)) + One(Rests(m))

Account(m) ==
    /\ TakenOnce(m)
    /\ OnFile(m)
    /\ delivered[m] + Load(m) <= 1 + retold[m]

TurnStates ==
    {"new", "guiding", "alone", "queued", "left", "back", "tell", "forget", "over"} \union InLock
Answers == {"none", "text", "unavailable", "busy"}

RunTypes ==
    /\ turn \in [Msgs -> TurnStates]
    /\ queue \in Seq(Msgs)
    /\ card \in [Msgs -> {"none", "queued", "admitting", "running", "closed"}]
    /\ answer \in [Msgs -> Answers]
    /\ runs \in [Msgs -> {"none", "waiting", "running", "asking", "answered", "ended"}]
    /\ records \in SUBSET Msgs /\ recorded \in SUBSET Msgs /\ expired \in SUBSET Msgs
    /\ recovery \in [todo : SUBSET Msgs, listed : BOOLEAN]
    /\ took \in [Msgs -> Nat] /\ delivered \in [Msgs -> Nat]
    /\ retaken \in [Msgs -> Nat] /\ retold \in [Msgs -> Nat]

RunInv ==
    /\ RunTypes
    /\ QueueIsTurns
    /\ ~recovery.listed => recovery.todo = {}
    /\ \A m \in Msgs : Account(m)

\* The waiters are messages.
LEMMA WaitersAre ==
    ASSUME RunTypes
    PROVE  DOMAIN queue = 1..Len(queue) /\ Len(queue) \in Nat
           /\ \A i \in DOMAIN queue : queue[i] \in Msgs
BY DEF RunTypes

\* The queue stays as it is while nobody begins or ceases to wait.
LEMMA QueueStays ==
    ASSUME RunTypes, QueueIsTurns, UNCHANGED queue,
           \A m \in Msgs : turn'[m] = "queued" <=> turn[m] = "queued"
    PROVE  QueueIsTurns'
BY WaitersAre DEF QueueIsTurns

\* A turn that begins to wait is the last of the queue.
LEMMA QueueGrows ==
    ASSUME RunTypes, QueueIsTurns, NEW m \in Msgs, turn[m] # "queued",
           queue' = Append(queue, m), turn' = [turn EXCEPT ![m] = "queued"]
    PROVE  QueueIsTurns' /\ queue' \in Seq(Msgs)
<1>1. /\ queue' \in Seq(Msgs) /\ DOMAIN queue' = 1..Len(queue) + 1
      /\ queue'[Len(queue) + 1] = m
      /\ \A i \in DOMAIN queue : queue'[i] = queue[i]
    <2>1. queue \in Seq(Msgs) /\ DOMAIN queue = 1..Len(queue)
        BY WaitersAre DEF RunTypes
    <2>2. QED
        BY <2>1
<1>2. DOMAIN queue' = DOMAIN queue \union {Len(queue) + 1}
    BY <1>1, WaitersAre
<1>3. \A i \in DOMAIN queue : queue[i] # m
    BY DEF QueueIsTurns
<1>4. \A i, j \in DOMAIN queue' : queue'[i] = queue'[j] => i = j
    BY <1>1, <1>2, <1>3 DEF QueueIsTurns
<1>5. /\ turn'[m] = "queued"
      /\ \A n \in Msgs \ {m} : turn'[n] = turn[n]
    BY DEF RunTypes
<1>6. \A i \in DOMAIN queue' : turn'[queue'[i]] = "queued"
    BY <1>1, <1>2, <1>3, <1>5, WaitersAre DEF QueueIsTurns
<1>7. \A n \in Msgs : turn'[n] = "queued" => \E i \in DOMAIN queue' : queue'[i] = n
    BY <1>1, <1>2, <1>5 DEF QueueIsTurns
<1>8. QED
    BY <1>1, <1>4, <1>6, <1>7 DEF QueueIsTurns

\* A queue without the one place, whose turn no longer waits.
LEMMA QueueShrinks ==
    ASSUME RunTypes, QueueIsTurns, NEW place \in DOMAIN queue,
           queue' = [i \in 1..Len(queue) - 1 |-> IF i < place THEN queue[i] ELSE queue[i + 1]],
           turn'[queue[place]] # "queued",
           \A n \in Msgs \ {queue[place]} : turn'[n] = turn[n]
    PROVE  QueueIsTurns' /\ queue' \in Seq(Msgs)
<1> DEFINE Was(i) == IF i < place THEN i ELSE i + 1
<1>1. DOMAIN queue' = 1..Len(queue) - 1 /\ Len(queue) \in Nat \ {0}
    BY WaitersAre
<1>2. \A i \in DOMAIN queue' : Was(i) \in DOMAIN queue /\ Was(i) # place
    BY <1>1, WaitersAre
<1>3. \A i \in DOMAIN queue' : queue'[i] = queue[Was(i)]
    BY <1>1
<1>4. \A i \in DOMAIN queue' : queue'[i] \in Msgs /\ queue'[i] # queue[place]
    BY <1>2, <1>3, WaitersAre DEF QueueIsTurns
<1>5. queue' \in Seq(Msgs)
    BY <1>1, <1>4, Len(queue) - 1 \in Nat
<1>6. \A i, j \in DOMAIN queue' : queue'[i] = queue'[j] => i = j
    <2>1. \A i, j \in DOMAIN queue' : queue'[i] = queue'[j] => Was(i) = Was(j)
        BY <1>2, <1>3 DEF QueueIsTurns
    <2>2. \A i, j \in DOMAIN queue' : Was(i) = Was(j) => i = j
        BY <1>1, WaitersAre
    <2>3. QED
        BY <2>1, <2>2
<1>7. \A i \in DOMAIN queue' : turn'[queue'[i]] = "queued"
    BY <1>2, <1>3, <1>4 DEF QueueIsTurns
<1>8. ASSUME NEW n \in Msgs, turn'[n] = "queued"
      PROVE  \E i \in DOMAIN queue' : queue'[i] = n
    <2>1. turn[n] = "queued" /\ n # queue[place]
        BY <1>8
    <2>2. PICK j \in DOMAIN queue : queue[j] = n
        BY <2>1 DEF QueueIsTurns
    <2>3. CASE j < place
        BY <2>2, <2>3, <1>1, <1>3, WaitersAre
    <2>4. CASE j > place
        <3>1. j - 1 \in DOMAIN queue' /\ Was(j - 1) = j
            BY <2>4, <1>1, WaitersAre
        <3>2. QED
            BY <3>1, <2>2, <1>3
    <2>5. QED
        BY <2>1, <2>2, <2>3, <2>4, WaitersAre
<1>9. QED
    BY <1>5, <1>6, <1>7, <1>8 DEF QueueIsTurns

\* What a step leaves of a message.
Spares(n) ==
    /\ turn'[n] = turn[n] /\ answer'[n] = answer[n]
    /\ runs'[n] = "none" <=> runs[n] = "none"
    /\ took'[n] = took[n] /\ retaken'[n] = retaken[n]
    /\ n \in recorded' <=> n \in recorded
    /\ n \in expired => n \in expired'

\* What it leaves of its result.
Rested(n) ==
    /\ delivered'[n] = delivered[n] /\ retold'[n] = retold[n]
    /\ n \in records' <=> n \in records
    /\ n \in recovery'.todo <=> n \in recovery.todo

\* What the load is made of, and its bounds.
LEMMA LoadIs ==
    ASSUME NEW m \in Msgs
    PROVE  /\ Load(m) \in 0..3
           /\ Says(m) => Load(m) = 1 + One(m \in recovery.todo)
           /\ ~Says(m) => Load(m) = One(m \in recovery.todo) + One(Rests(m))
           /\ One(m \in recovery.todo) \in 0..1 /\ One(Rests(m)) \in 0..1
BY DEF Load, One, Says, Rests

\* A message that a step does not concern keeps its account.
LEMMA AccountStays ==
    ASSUME RunInv, NEW n \in Msgs, Spares(n), Rested(n)
    PROVE  Account(n)'
<1>1. Account(n)
    BY DEF RunInv
<1>2. (Says(n)' <=> Says(n)) /\ (Rests(n)' <=> Rests(n)) /\ (Untaken(n)' <=> Untaken(n))
    BY DEF Spares, Rested, Says, Rests, Untaken
<1>3. Load(n)' = Load(n)
    BY <1>2 DEF Rested, Load, One
<1>4. TakenOnce(n)'
    BY <1>1, <1>2 DEF Spares, Account, TakenOnce
<1>5. OnFile(n)'
    BY <1>1, <1>2 DEF Spares, Rested, Account, OnFile
<1>6. QED
    BY <1>1, <1>3, <1>4, <1>5 DEF Account, Rested

\* A step of one message.
LEMMA OneStep ==
    ASSUME RunInv, RunTypes', QueueIsTurns', NEW m \in Msgs,
           \A n \in Msgs \ {m} : Spares(n) /\ Rested(n),
           recovery'.listed = recovery.listed, recovery'.todo \subseteq recovery.todo,
           Account(m)'
    PROVE  RunInv'
<1>1. \A n \in Msgs : Account(n)'
    BY AccountStays
<1>2. QED
    BY <1>1 DEF RunInv

\* A step that takes its turn no closer to a result keeps what the message owes.
LEMMA OwesNoMore ==
    ASSUME RunInv, NEW m \in Msgs, Rested(m), TakenOnce(m)',
           m \in recorded' <=> m \in recorded, m \in expired => m \in expired',
           turn[m] # "forget", turn'[m] # "forget",
           turn'[m] \in {"new", "guiding", "alone"} => turn[m] \in {"new", "guiding", "alone"},
           Says(m)' => Says(m)
    PROVE  Account(m)'
<1>1. /\ Account(m)
      /\ delivered[m] \in Nat /\ retold[m] \in Nat
    BY DEF RunInv, RunTypes
<1>2. OnFile(m)'
    BY <1>1 DEF Account, OnFile, Rested
<1>3. Load(m)' <= Load(m)
    <2>1. CASE Says(m)'
        BY <2>1, LoadIs DEF Load, One, Rests, Rested
    <2>2. CASE ~Says(m)'
        <3>1. Rests(m)' => Says(m) \/ Rests(m)
            BY <2>2 DEF Rests, Rested
        <3>2. QED
            BY <2>2, <3>1 DEF Load, One, Rested
    <2>3. QED
        BY <2>1, <2>2
<1>4. Load(m) \in 0..3 /\ Load(m)' \in 0..3
    BY DEF Load, One
<1>5. delivered'[m] + Load(m)' <= 1 + retold'[m]
    BY <1>1, <1>3, <1>4 DEF Account, Rested
<1>6. QED
    BY <1>2, <1>5 DEF Account

\* The turn of a message goes on, and no more than that.
LEMMA TurnGoesOn ==
    ASSUME RunInv, NEW m \in Msgs, NEW w \in TurnStates \ {"forget"},
           turn' = [turn EXCEPT ![m] = w], QueueIsTurns', queue' \in Seq(Msgs),
           card' \in [Msgs -> {"none", "queued", "admitting", "running", "closed"}],
           UNCHANGED <<answer, records, recovery, recorded, delivered, expired, retold>>,
           runs' \in [Msgs -> {"none", "waiting", "running", "asking", "answered", "ended"}],
           took' \in [Msgs -> Nat], retaken' \in [Msgs -> Nat],
           \A n \in Msgs \ {m} : /\ runs'[n] = runs[n] /\ took'[n] = took[n]
                                 /\ retaken'[n] = retaken[n],
           turn[m] # "forget", TakenOnce(m)',
           w \in {"new", "guiding", "alone"} => turn[m] \in {"new", "guiding", "alone"},
           Says(m)' => Says(m)
    PROVE  RunInv'
<1>1. turn' \in [Msgs -> TurnStates] /\ turn'[m] = w
      /\ \A n \in Msgs \ {m} : turn'[n] = turn[n]
    BY DEF RunInv, RunTypes
<1>2. RunTypes'
    BY <1>1 DEF RunInv, RunTypes
<1>3. \A n \in Msgs \ {m} : Spares(n) /\ Rested(n)
    BY <1>1 DEF Spares, Rested
<1>4. Account(m)'
    <2>1. Rested(m)
        BY DEF Rested
    <2>2. QED
        BY <1>1, <2>1, OwesNoMore
<1>5. QED
    BY <1>2, <1>3, <1>4, OneStep

\* A turn that was not waiting enters the queue, or is told that it is full.
LEMMA EnterReplyIs ==
    ASSUME RunInv, NEW m \in Msgs, turn[m] # "queued", EnterReply(m)
    PROVE  /\ turn' \in [Msgs -> TurnStates] /\ answer' \in [Msgs -> Answers]
           /\ \A n \in Msgs \ {m} : turn'[n] = turn[n] /\ answer'[n] = answer[n]
           /\ turn'[m] \in {"queued", "tell"}
           /\ turn'[m] = "tell" => answer'[m] = "busy"
           /\ queue' \in Seq(Msgs) /\ QueueIsTurns'
<1>0. turn \in [Msgs -> TurnStates] /\ {"queued", "tell"} \subseteq TurnStates
      /\ answer \in [Msgs -> Answers] /\ "busy" \in Answers
      /\ queue \in Seq(Msgs) /\ RunTypes /\ QueueIsTurns
    BY DEF RunInv, RunTypes, TurnStates, Answers
<1>1. CASE Waiting >= MaxPending
    <2>1. /\ turn' = [turn EXCEPT ![m] = "tell"]
          /\ answer' = [answer EXCEPT ![m] = "busy"]
          /\ queue' = queue
        BY <1>1 DEF EnterReply
    <2>2. QueueIsTurns'
        BY <1>0, <2>1, QueueStays
    <2>3. QED
        BY <1>0, <2>1, <2>2
<1>2. CASE ~(Waiting >= MaxPending)
    <2>1. /\ turn' = [turn EXCEPT ![m] = "queued"]
          /\ queue' = Append(queue, m)
          /\ answer' = answer
        BY <1>2 DEF EnterReply
    <2>2. QueueIsTurns' /\ queue' \in Seq(Msgs)
        BY <1>0, <2>1, QueueGrows
    <2>3. QED
        BY <1>0, <2>1, <2>2
<1>3. QED
    BY <1>1, <1>2

\* A text that enters the queue owes what it owed.
LEMMA EnterReplyKeeps ==
    ASSUME RunInv, NEW m \in Msgs, EnterReply(m),
           turn[m] \in {"new", "guiding", "alone", "left", "back"},
           card' \in [Msgs -> {"none", "queued", "admitting", "running", "closed"}],
           UNCHANGED <<records, recovery, runs, recorded, delivered, expired, retold>>,
           took' \in [Msgs -> Nat], retaken' \in [Msgs -> Nat],
           \A n \in Msgs \ {m} : took'[n] = took[n] /\ retaken'[n] = retaken[n],
           took'[m] <= 1 + retaken'[m],
           runs[m] = "none" => took'[m] <= retaken'[m]
    PROVE  RunInv'
<1>1. /\ turn' \in [Msgs -> TurnStates] /\ answer' \in [Msgs -> Answers]
      /\ \A n \in Msgs \ {m} : turn'[n] = turn[n] /\ answer'[n] = answer[n]
      /\ turn'[m] \in {"queued", "tell"}
      /\ turn'[m] = "tell" => answer'[m] = "busy"
      /\ queue' \in Seq(Msgs) /\ QueueIsTurns'
    BY EnterReplyIs
<1>2. RunTypes'
    BY <1>1 DEF RunInv, RunTypes
<1>3. \A n \in Msgs \ {m} : Spares(n) /\ Rested(n)
    BY <1>1 DEF Spares, Rested
<1>4. TakenOnce(m)'
    BY <1>1 DEF TakenOnce, Untaken
<1>5. Says(m)' => Says(m)
    <2>1. m \in recorded => turn[m] \in {"left", "back"}
        BY DEF RunInv, Account, OnFile
    <2>2. QED
        BY <1>1, <2>1 DEF Says
<1>6. Account(m)'
    <2>1. Rested(m)
        BY DEF Rested
    <2>2. QED
        BY <1>1, <1>4, <1>5, <2>1, OwesNoMore
<1>7. QED
    BY <1>1, <1>2, <1>3, <1>6, OneStep

\* A turn of its own is a text that enters the queue with a card.
LEMMA NewTurnKeeps ==
    ASSUME RunInv, NEW m \in Msgs, NewTurn(m), turn[m] \in {"new", "guiding", "alone"},
           UNCHANGED <<records, recovery, runs, recorded, delivered, expired, retold>>,
           took' \in [Msgs -> Nat], retaken' \in [Msgs -> Nat],
           \A n \in Msgs \ {m} : took'[n] = took[n] /\ retaken'[n] = retaken[n],
           took'[m] <= 1 + retaken'[m],
           runs[m] = "none" => took'[m] <= retaken'[m]
    PROVE  RunInv'
<1>1. PICK c \in {"queued", "admitting"} : card' = [card EXCEPT ![m] = c]
    BY DEF NewTurn, Emits
<1>2. card' \in [Msgs -> {"none", "queued", "admitting", "running", "closed"}]
    BY <1>1 DEF RunInv, RunTypes
<1>3. QED
    BY <1>2, EnterReplyKeeps DEF NewTurn

\* Guidance is taken once, but for an answer that is lost, which counts as such.
LEMMA SteersIs ==
    ASSUME RunInv, NEW m \in Msgs, turn[m] \in {"guiding", "left"}, NEW a,
           NEW accepted \in BOOLEAN, Steers(m, a, accepted)
    PROVE  /\ took' \in [Msgs -> Nat] /\ retaken' \in [Msgs -> Nat]
           /\ \A n \in Msgs \ {m} : took'[n] = took[n] /\ retaken'[n] = retaken[n]
           /\ took'[m] <= 1 + retaken'[m]
           /\ ~accepted => took'[m] <= retaken'[m]
<1>1. /\ took \in [Msgs -> Nat] /\ retaken \in [Msgs -> Nat]
      /\ took[m] <= retaken[m]
    BY DEF RunInv, RunTypes, Account, TakenOnce, Untaken
<1>2. CASE accepted /\ took' = [took EXCEPT ![m] = @ + 1] /\ retaken' = retaken
    BY <1>1, <1>2
<1>3. CASE took' = took /\ retaken' = retaken
    BY <1>1, <1>3
<1>4. CASE /\ took' = [took EXCEPT ![m] = @ + 1]
           /\ retaken' = [retaken EXCEPT ![m] = @ + 1]
    BY <1>1, <1>4
<1>5. QED
    BY <1>2, <1>3, <1>4 DEF Steers

\* A message that arrives becomes guidance or a turn.
LEMMA HandleKeeps ==
    ASSUME RunInv, NEW m \in Msgs, Handle(m)
    PROVE  RunInv'
<1>1. /\ turn[m] = "new"
      /\ UNCHANGED <<active, records, recovery, runs>>
      /\ UNCHANGED <<took, recorded, delivered, expired, retaken, retold>>
    BY DEF Handle, observed
<1>2. /\ RunTypes /\ QueueIsTurns /\ took[m] <= retaken[m] /\ took[m] <= 1 + retaken[m]
    BY <1>1 DEF RunInv, RunTypes, Account, TakenOnce, Untaken
<1>3. CASE NewTurn(m)
    BY <1>1, <1>2, <1>3, NewTurnKeeps DEF RunTypes
<1>4. CASE turn' = [turn EXCEPT ![m] = "guiding"] /\ UNCHANGED <<queue, card, answer>>
    <2>1. turn'[m] = "guiding"
        BY <1>2, <1>4 DEF RunTypes
    <2>2. QueueIsTurns'
        BY <1>1, <1>2, <1>4, QueueStays DEF RunTypes
    <2>3. TakenOnce(m)' /\ ~Says(m)'
        <3>1. m \notin recorded
            BY <1>1 DEF RunInv, Account, OnFile
        <3>2. QED
            BY <1>1, <1>2, <2>1, <3>1 DEF TakenOnce, Says
    <2>4. QED
        BY <1>1, <1>2, <1>4, <2>2, <2>3, TurnGoesOn DEF RunTypes, TurnStates
<1>5. QED
    BY <1>3, <1>4 DEF Handle

\* A text that was taken as guidance is over, with or without a card to close.
LEMMA TakenAsGuidance ==
    ASSUME RunInv, NEW m \in Msgs, turn[m] \in {"guiding", "left"},
           turn' = [turn EXCEPT ![m] = "over"],
           card' = card \/ card' = [card EXCEPT ![m] = "closed"],
           UNCHANGED <<queue, answer, records, recovery, runs, recorded, delivered, expired, retold>>,
           took' \in [Msgs -> Nat] /\ retaken' \in [Msgs -> Nat],
           \A n \in Msgs \ {m} : took'[n] = took[n] /\ retaken'[n] = retaken[n],
           took'[m] <= 1 + retaken'[m]
    PROVE  RunInv'
<1>1. RunTypes /\ QueueIsTurns
    BY DEF RunInv
<1>2. turn'[m] = "over" /\ card' \in [Msgs -> {"none", "queued", "admitting", "running", "closed"}]
    BY <1>1 DEF RunTypes
<1>3. QueueIsTurns'
    BY <1>1, QueueStays DEF RunTypes
<1>4. TakenOnce(m)' /\ ~Says(m)'
    BY <1>2 DEF TakenOnce, Untaken, Says
<1>5. QED
    BY <1>1, <1>2, <1>3, <1>4, TurnGoesOn DEF RunTypes, TurnStates

\* Guidance is taken, or the message becomes a turn.
LEMMA SteerActiveKeeps ==
    ASSUME RunInv, NEW m \in Msgs, SteerActive(m)
    PROVE  RunInv'
<1>1. /\ turn[m] = "guiding"
      /\ UNCHANGED <<records, recovery, runs, recorded, delivered, expired, retold>>
    BY DEF SteerActive
<1>2. PICK a \in Msgs, accepted \in BOOLEAN :
          /\ Steers(m, a, accepted)
          /\ IF accepted THEN turn' = [turn EXCEPT ![m] = "over"]
                              /\ UNCHANGED <<queue, card, answer>>
             ELSE NewTurn(m)
    BY DEF SteerActive, Steerable
<1>3. /\ took' \in [Msgs -> Nat] /\ retaken' \in [Msgs -> Nat]
      /\ \A n \in Msgs \ {m} : took'[n] = took[n] /\ retaken'[n] = retaken[n]
      /\ took'[m] <= 1 + retaken'[m]
      /\ ~accepted => took'[m] <= retaken'[m]
    BY <1>1, <1>2, SteersIs
<1>4. CASE accepted
    BY <1>1, <1>2, <1>3, <1>4, TakenAsGuidance
<1>5. CASE ~accepted
    BY <1>1, <1>2, <1>3, <1>5, NewTurnKeeps
<1>6. QED
    BY <1>4, <1>5

\* A turn that is shown as queued is taken out for the guidance of another.
LEMMA SteerQueuedKeeps ==
    ASSUME RunInv, NEW m \in Msgs, SteerQueued(m)
    PROVE  RunInv'
<1>1. /\ turn[m] = "guiding"
      /\ UNCHANGED <<queue, answer, records, recovery, runs, recorded, delivered, expired, retold>>
    BY DEF SteerQueued
<1>2. PICK a \in Msgs, accepted \in BOOLEAN :
          /\ turn[a] = "poll"
          /\ Steers(m, a, accepted)
          /\ turn' = [turn EXCEPT ![m] = IF accepted THEN "over" ELSE "alone",
                                  ![a] = IF accepted THEN "over" ELSE "back"]
          /\ card' = IF accepted THEN [card EXCEPT ![a] = "closed"] ELSE card
    BY DEF SteerQueued, Steerable
<1>3. /\ took' \in [Msgs -> Nat] /\ retaken' \in [Msgs -> Nat]
      /\ \A n \in Msgs \ {m} : took'[n] = took[n] /\ retaken'[n] = retaken[n]
      /\ took'[m] <= 1 + retaken'[m]
      /\ ~accepted => took'[m] <= retaken'[m]
    BY <1>1, <1>2, SteersIs
<1>4. PICK w \in {"over", "alone"}, u \in {"over", "back"} :
          turn' = [turn EXCEPT ![m] = w, ![a] = u] /\ (w = "alone" => ~accepted)
    BY <1>2
<1>5. /\ a # m /\ turn'[m] = w /\ turn'[a] = u
      /\ \A n \in Msgs \ {m, a} : turn'[n] = turn[n]
    BY <1>1, <1>2, <1>4 DEF RunInv, RunTypes
<1>6. RunTypes'
    <2>1. turn' \in [Msgs -> TurnStates]
        BY <1>4 DEF RunInv, RunTypes, TurnStates
    <2>2. card' \in [Msgs -> {"none", "queued", "admitting", "running", "closed"}]
        BY <1>2 DEF RunInv, RunTypes
    <2>3. QED
        BY <1>1, <1>3, <2>1, <2>2 DEF RunInv, RunTypes
<1>7. QueueIsTurns'
    <2>1. \A n \in Msgs : turn'[n] = "queued" <=> turn[n] = "queued"
        BY <1>1, <1>2, <1>5
    <2>2. QED
        BY <1>1, <2>1, QueueStays DEF RunInv
<1>8. \A n \in Msgs \ {m, a} : Account(n)'
    <2>1. \A n \in Msgs \ {m, a} : Spares(n) /\ Rested(n)
        BY <1>1, <1>3, <1>5 DEF Spares, Rested
    <2>2. QED
        BY <2>1, AccountStays
<1>9. Account(m)'
    <2>1. Rested(m) /\ m \notin recorded
        BY <1>1 DEF Rested, RunInv, Account, OnFile
    <2>2. TakenOnce(m)' /\ ~Says(m)'
        BY <1>1, <1>3, <1>4, <1>5, <2>1 DEF TakenOnce, Untaken, Says
    <2>3. QED
        BY <1>1, <1>5, <2>1, <2>2, OwesNoMore
<1>10. Account(a)'
    <2>1. Rested(a) /\ Says(a)
        BY <1>1, <1>2 DEF Rested, Says
    <2>2. TakenOnce(a)'
        <3>1. runs[a] # "none" /\ took[a] <= 1 + retaken[a]
            BY <1>2 DEF RunInv, Account, TakenOnce
        <3>2. QED
            BY <1>1, <1>3, <1>5, <3>1 DEF TakenOnce, Untaken
    <2>3. QED
        BY <1>1, <1>2, <1>5, <2>1, <2>2, OwesNoMore
<1>11. \A n \in Msgs : Account(n)'
    BY <1>8, <1>9, <1>10
<1>12. QED
    BY <1>1, <1>6, <1>7, <1>11 DEF RunInv

\* What was refused or taken out enters the queue; so does guidance without a running turn.
LEMMA RequeuesKeeps ==
    ASSUME RunInv, NEW m \in Msgs, Requeues(m) \/ GuidesNothing(m)
    PROVE  RunInv'
<1>1. /\ UNCHANGED <<records, recovery, runs>>
      /\ UNCHANGED <<took, recorded, delivered, expired, retaken, retold>>
    BY DEF Requeues, GuidesNothing, observed
<1>2. /\ turn[m] \in {"guiding", "alone", "back"}
      /\ turn[m] # "back" => NewTurn(m)
      /\ turn[m] = "back" => EnterReply(m) /\ card' = card
    BY DEF Requeues, GuidesNothing
<1>3. /\ RunTypes /\ took[m] <= 1 + retaken[m]
      /\ turn[m] # "back" => took[m] <= retaken[m]
      /\ turn[m] = "back" => runs[m] # "none"
    BY <1>2 DEF RunInv, Account, TakenOnce, Untaken
<1>4. CASE turn[m] # "back"
    BY <1>1, <1>2, <1>3, <1>4, NewTurnKeeps DEF RunTypes
<1>5. CASE turn[m] = "back"
    BY <1>1, <1>2, <1>3, <1>5, EnterReplyKeeps DEF RunTypes
<1>6. QED
    BY <1>4, <1>5

\* The turn of a card shown as queued leaves, and its place in the queue goes; a text that the
\* agent took counts as clicked late.
LEMMA RedirectKeeps ==
    ASSUME RunInv, NEW m \in Msgs, Redirect(m)
    PROVE  RunInv'
<1>1. /\ turn[m] \in {"queued", "poll"} /\ turn' = [turn EXCEPT ![m] = "left"]
      /\ turn[m] = "queued" => queue' = Without(m)
      /\ turn[m] # "queued" => queue' = queue
      /\ retaken' = [retaken EXCEPT ![m] = IF runs[m] = "none" THEN @ ELSE @ + 1]
      /\ UNCHANGED <<card, answer, records, recovery, runs, took, recorded, delivered, expired,
                     retold>>
    BY DEF Redirect
<1>2. RunTypes /\ QueueIsTurns
    BY DEF RunInv
<1>3. /\ turn'[m] = "left" /\ \A n \in Msgs \ {m} : turn'[n] = turn[n]
    BY <1>1, <1>2 DEF RunTypes
<1>4. QueueIsTurns' /\ queue' \in Seq(Msgs)
    <2>1. CASE turn[m] = "queued"
        <3>1. PICK place \in DOMAIN queue :
                  /\ queue[place] = m
                  /\ place = CHOOSE i \in DOMAIN queue : queue[i] = m
            BY <1>2, <2>1 DEF QueueIsTurns
        <3>2. queue' = [i \in 1..Len(queue) - 1 |-> IF i < place THEN queue[i]
                                                     ELSE queue[i + 1]]
            BY <1>1, <2>1, <3>1 DEF Without
        <3>3. QED
            BY <1>2, <1>3, <3>1, <3>2, QueueShrinks
    <2>2. CASE turn[m] # "queued"
        BY <1>1, <1>2, <1>3, <2>2, QueueStays DEF RunTypes
    <2>3. QED
        BY <2>1, <2>2
<1>5. /\ retaken' \in [Msgs -> Nat]
      /\ \A n \in Msgs \ {m} : retaken'[n] = retaken[n]
      /\ retaken'[m] = IF runs[m] = "none" THEN retaken[m] ELSE retaken[m] + 1
      /\ took[m] \in Nat /\ retaken[m] \in Nat
    BY <1>1, <1>2 DEF RunTypes
<1>6. TakenOnce(m)'
    <2>1. /\ took[m] <= 1 + retaken[m]
          /\ runs[m] = "none" => took[m] <= retaken[m]
        BY <1>1 DEF RunInv, Account, TakenOnce, Untaken
    <2>2. took[m] <= retaken'[m]
        BY <1>5, <2>1
    <2>3. QED
        BY <1>1, <1>3, <1>5, <2>2 DEF TakenOnce
<1>7. Says(m)' => Says(m)
    BY <1>1, <1>3 DEF Says
<1>8. QED
    BY <1>1, <1>2, <1>4, <1>5, <1>6, <1>7, TurnGoesOn DEF RunTypes, TurnStates

\* A click after the turn's end counts as clicked late.
LEMMA RedirectLateKeeps ==
    ASSUME RunInv, NEW m \in Msgs, RedirectLate(m)
    PROVE  RunInv'
<1>1. /\ turn[m] = "tell" /\ turn' = turn
      /\ card' = [card EXCEPT ![m] = "closed"]
      /\ retaken' = [retaken EXCEPT ![m] = @ + 1]
      /\ took' = took \/ took' = [took EXCEPT ![m] = @ + 1]
      /\ UNCHANGED <<queue, answer, records, recovery, runs, recorded, delivered, expired, retold>>
    BY DEF RedirectLate, Finish, Emits
<1>2. RunTypes /\ QueueIsTurns /\ took[m] <= 1 + retaken[m]
    BY DEF RunInv, Account, TakenOnce
<1>3. /\ took' \in [Msgs -> Nat] /\ retaken' \in [Msgs -> Nat]
      /\ \A n \in Msgs \ {m} : took'[n] = took[n] /\ retaken'[n] = retaken[n]
      /\ took'[m] <= 1 + retaken'[m]
    <2>1. CASE took' = took
        BY <1>1, <1>2, <2>1 DEF RunTypes
    <2>2. CASE took' = [took EXCEPT ![m] = @ + 1]
        BY <1>1, <1>2, <2>2 DEF RunTypes
    <2>3. QED
        BY <1>1, <2>1, <2>2
<1>4. card' \in [Msgs -> {"none", "queued", "admitting", "running", "closed"}]
    BY <1>1, <1>2 DEF RunTypes
<1>5. turn' = [turn EXCEPT ![m] = "tell"]
    BY <1>1, <1>2 DEF RunTypes
<1>6. QueueIsTurns' /\ TakenOnce(m)' /\ (Says(m)' => Says(m))
    BY <1>1, <1>2, <1>3, QueueStays DEF TakenOnce, Untaken, Says
<1>7. QED
    BY <1>1, <1>2, <1>3, <1>4, <1>5, <1>6, TurnGoesOn DEF RunTypes, TurnStates

\* ... and one it refuses is a turn in the queue again.
LEMMA RedirectedKeeps ==
    ASSUME RunInv, NEW m \in Msgs, Redirected(m)
    PROVE  RunInv'
<1>1. /\ turn[m] = "left"
      /\ UNCHANGED <<records, recovery, runs, recorded, delivered, expired, retold>>
    BY DEF Redirected
<1>2. PICK accepted \in BOOLEAN, a \in Msgs :
          /\ Steers(m, a, accepted)
          /\ IF accepted
             THEN /\ turn' = [turn EXCEPT ![m] = "over"]
                  /\ Finish(m)
                  /\ UNCHANGED <<queue, answer>>
             ELSE EnterReply(m) /\ UNCHANGED card
    BY DEF Redirected
<1>3. /\ took' \in [Msgs -> Nat] /\ retaken' \in [Msgs -> Nat]
      /\ \A n \in Msgs \ {m} : took'[n] = took[n] /\ retaken'[n] = retaken[n]
      /\ took'[m] <= 1 + retaken'[m]
      /\ ~accepted => took'[m] <= retaken'[m]
    BY <1>1, <1>2, SteersIs
<1>4. CASE accepted
    BY <1>1, <1>2, <1>3, <1>4, TakenAsGuidance DEF Finish, Emits
<1>5. CASE ~accepted
    <2>1. EnterReply(m) /\ card' = card
        BY <1>2, <1>5
    <2>2. card' \in [Msgs -> {"none", "queued", "admitting", "running", "closed"}]
        BY <2>1 DEF RunInv, RunTypes
    <2>3. QED
        BY <1>1, <1>3, <1>5, <2>1, <2>2, EnterReplyKeeps
<1>6. QED
    BY <1>4, <1>5

\* The head of the queue takes the lock.
LEMMA StartTurnKeeps ==
    ASSUME RunInv, NEW m \in Msgs, StartTurn(m)
    PROVE  RunInv'
<1>0. RunTypes /\ QueueIsTurns
    BY DEF RunInv
<1>1. /\ queue # <<>> /\ Head(queue) = m
      /\ queue' = Tail(queue)
      /\ turn' = [turn EXCEPT ![m] = "post"]
      /\ card' = [card EXCEPT ![m] = "admitting"]
      /\ UNCHANGED <<answer, records, recovery, runs>>
      /\ UNCHANGED <<took, recorded, delivered, expired, retaken, retold>>
    BY DEF StartTurn, observed, Emits
<1>2. /\ 1 \in DOMAIN queue /\ queue[1] = m /\ turn[m] = "queued"
      /\ Tail(queue) = [i \in 1..Len(queue) - 1 |-> queue[i + 1]]
    <2>1. queue \in Seq(Msgs) /\ queue # <<>>
        BY <1>0, <1>1 DEF RunTypes
    <2>2. 1 \in DOMAIN queue /\ queue[1] = m
        BY <1>1, <2>1
    <2>3. Tail(queue) = [i \in 1..Len(queue) - 1 |-> queue[i + 1]]
        <3>1. /\ Tail(queue) \in Seq(Msgs) /\ Len(Tail(queue)) = Len(queue) - 1
              /\ \A i \in 1..Len(Tail(queue)) : Tail(queue)[i] = queue[i + 1]
            BY <2>1, HeadTailProperties
        <3>2. Tail(queue) = [i \in 1..Len(Tail(queue)) |-> Tail(queue)[i]]
            BY <3>1, LenProperties
        <3>3. QED
            BY <3>1, <3>2
    <2>4. QED
        BY <1>0, <2>2, <2>3 DEF QueueIsTurns
<1>3. turn'[m] = "post" /\ \A n \in Msgs \ {m} : turn'[n] = turn[n]
    BY <1>0, <1>1 DEF RunTypes
<1>4. QueueIsTurns' /\ queue' \in Seq(Msgs)
    <2>1. queue' = [i \in 1..Len(queue) - 1 |-> IF i < 1 THEN queue[i] ELSE queue[i + 1]]
        BY <1>0, <1>1, <1>2, WaitersAre
    <2>2. QED
        BY <1>0, <1>2, <1>3, <2>1, QueueShrinks
<1>5. card' \in [Msgs -> {"none", "queued", "admitting", "running", "closed"}]
    BY <1>0, <1>1 DEF RunTypes
<1>6. TakenOnce(m)' /\ (Says(m)' => Says(m))
    BY <1>1, <1>2, <1>3 DEF RunInv, Account, TakenOnce, Untaken, Says
<1>7. QED
    BY <1>0, <1>1, <1>2, <1>4, <1>5, <1>6, TurnGoesOn DEF RunTypes, TurnStates, InLock

\* The server takes the text as a run, unless it has it already.
LEMMA PostRunKeeps ==
    ASSUME RunInv, NEW m \in Msgs, PostRun(m)
    PROVE  RunInv'
<1>1. /\ turn[m] = "post" /\ turn' = [turn EXCEPT ![m] = "posted"]
      /\ UNCHANGED <<queue, card, active, answer, records, recovery, recorded, delivered,
                     expired, retaken, retold>>
    BY DEF PostRun
<1>2. /\ RunTypes /\ QueueIsTurns /\ took[m] <= 1 + retaken[m]
      /\ runs[m] = "none" => took[m] <= retaken[m]
    BY <1>1 DEF RunInv, Account, TakenOnce, Untaken
<1>3. turn'[m] = "posted" /\ \A n \in Msgs \ {m} : turn'[n] = turn[n]
    BY <1>1, <1>2 DEF RunTypes
<1>4. QueueIsTurns'
    BY <1>1, <1>2, <1>3, QueueStays
<1>5. /\ runs' \in [Msgs -> {"none", "waiting", "running", "asking", "answered", "ended"}]
      /\ took' \in [Msgs -> Nat]
      /\ \A n \in Msgs \ {m} : runs'[n] = runs[n] /\ took'[n] = took[n]
      /\ runs'[m] # "none" /\ took'[m] <= 1 + retaken[m]
    <2>1. CASE runs[m] = "none"
        <3>1. PICK status \in {"waiting", "running"} : runs' = [runs EXCEPT ![m] = status]
            BY <2>1 DEF PostRun
        <3>2. took' = [took EXCEPT ![m] = @ + 1]
            BY <2>1 DEF PostRun
        <3>3. QED
            BY <1>2, <2>1, <3>1, <3>2 DEF RunTypes
    <2>2. CASE runs[m] # "none"
        BY <1>2, <2>2 DEF PostRun, RunTypes
    <2>3. QED
        BY <2>1, <2>2
<1>6. TakenOnce(m)' /\ (Says(m)' => Says(m))
    BY <1>1, <1>3, <1>5 DEF TakenOnce, Untaken, Says
<1>7. QED
    BY <1>1, <1>2, <1>4, <1>5, <1>6, TurnGoesOn DEF RunTypes, TurnStates, InLock

\* With the file, the turn owes the owner a result.
LEMMA AdmitKeeps ==
    ASSUME RunInv, NEW m \in Msgs, Admit(m)
    PROVE  RunInv'
<1>0. RunTypes /\ QueueIsTurns /\ Account(m)
    BY DEF RunInv
<1>1. /\ turn[m] = "posted" /\ turn' = [turn EXCEPT ![m] = "poll"]
      /\ card' = [card EXCEPT ![m] = "running"]
      /\ records' = records \union {m} /\ recorded' = recorded \union {m}
      /\ UNCHANGED <<queue, answer, recovery, runs, took, delivered, expired, retaken, retold>>
    BY DEF Admit, Emits
<1>2. /\ turn'[m] = "poll" /\ m \in records' /\ m \in recorded'
      /\ \A n \in Msgs \ {m} : turn'[n] = turn[n]
    BY <1>0, <1>1 DEF RunTypes
<1>3. RunTypes'
    <2>1. turn' \in [Msgs -> TurnStates]
        BY <1>0, <1>1 DEF RunTypes, TurnStates, InLock
    <2>2. QED
        BY <1>0, <1>1, <2>1 DEF RunTypes
<1>4. QueueIsTurns'
    BY <1>0, <1>1, <1>2, QueueStays
<1>5. \A n \in Msgs \ {m} : Spares(n) /\ Rested(n)
    BY <1>1, <1>2 DEF Spares, Rested
<1>6. TakenOnce(m)' /\ OnFile(m)'
    BY <1>0, <1>1, <1>2 DEF Account, TakenOnce, Untaken, OnFile
<1>7. delivered'[m] + Load(m)' <= 1 + retold'[m]
    <2>1. Load(m)' = 1 + One(m \in recovery.todo)
        BY <1>1, <1>2 DEF Load, One, Says, Rests
    <2>2. CASE m \in recorded
        <3>1. Load(m) = 1 + One(m \in recovery.todo)
            BY <1>1, <2>2, LoadIs DEF Says
        <3>2. QED
            BY <1>0, <1>1, <2>1, <3>1 DEF Account
    <2>3. CASE m \notin recorded
        <3>1. delivered[m] = 0 /\ One(m \in recovery.todo) = 0 /\ retold[m] \in Nat
            BY <1>0, <2>3 DEF Account, OnFile, One, RunTypes
        <3>2. QED
            BY <1>1, <2>1, <3>1
    <2>4. QED
        BY <2>2, <2>3
<1>8. QED
    BY <1>1, <1>3, <1>4, <1>5, <1>6, <1>7, OneStep DEF Account

\* The lock is free again: what the turn has to say is the run's result, or that there is none.
LEMMA LeavesKeeps ==
    ASSUME RunInv, NEW m \in Msgs, NEW what \in {"text", "unavailable"}, Leaves(m, what),
           \/ turn[m] \in {"poll", "ask"}
           \/ turn[m] \in {"post", "posted"} /\ what = "unavailable"
    PROVE  RunInv'
<1>0. RunTypes /\ QueueIsTurns /\ Account(m)
    BY DEF RunInv
<1>1. /\ turn' = [turn EXCEPT ![m] = "tell"]
      /\ answer' = [answer EXCEPT ![m] = what]
      /\ UNCHANGED <<queue, card, records, recovery, runs>>
      /\ UNCHANGED <<took, recorded, delivered, expired, retaken, retold>>
    BY DEF Leaves, observed
<1>2. /\ turn'[m] = "tell" /\ answer'[m] = what
      /\ \A n \in Msgs \ {m} : turn'[n] = turn[n] /\ answer'[n] = answer[n]
    BY <1>0, <1>1 DEF RunTypes
<1>3. RunTypes'
    <2>1. turn' \in [Msgs -> TurnStates] /\ answer' \in [Msgs -> Answers]
        BY <1>0, <1>1 DEF RunTypes, TurnStates, Answers
    <2>2. QED
        BY <1>0, <1>1, <2>1 DEF RunTypes
<1>4. QueueIsTurns'
    BY <1>0, <1>1, <1>2, QueueStays
<1>5. \A n \in Msgs \ {m} : Spares(n) /\ Rested(n)
    BY <1>1, <1>2 DEF Spares, Rested
<1>6. Rested(m) /\ TakenOnce(m)'
    BY <1>0, <1>1, <1>2 DEF Rested, Account, TakenOnce, Untaken
<1>7. Says(m)' => Says(m)
    BY <1>1, <1>2 DEF Says
<1>8. Account(m)'
    BY <1>1, <1>2, <1>6, <1>7, OwesNoMore
<1>9. QED
    BY <1>1, <1>3, <1>4, <1>5, <1>8, OneStep

\* Between two polls.
LEMMA PollingKeeps ==
    ASSUME RunInv, NEW m \in Msgs, turn[m] \in {"poll", "ask"},
           NEW w \in {"poll", "ask"}, turn' = [turn EXCEPT ![m] = w],
           card' \in [Msgs -> {"none", "queued", "admitting", "running", "closed"}],
           runs' = runs \/ runs' = [runs EXCEPT ![m] = "answered"],
           UNCHANGED <<queue, answer, records, recovery, observed>>
    PROVE  RunInv'
<1>0. RunTypes /\ QueueIsTurns /\ Account(m)
    BY DEF RunInv
<1>1. UNCHANGED <<took, recorded, delivered, expired, retaken, retold>>
    BY DEF observed
<1>2. turn'[m] = w /\ \A n \in Msgs \ {m} : turn'[n] = turn[n]
    BY <1>0 DEF RunTypes
<1>3. /\ runs' \in [Msgs -> {"none", "waiting", "running", "asking", "answered", "ended"}]
      /\ \A n \in Msgs \ {m} : runs'[n] = runs[n]
      /\ runs'[m] # "none"
    <2>1. runs[m] # "none"
        BY <1>0 DEF Account, TakenOnce
    <2>2. CASE runs' = runs
        BY <1>0, <2>1, <2>2 DEF RunTypes
    <2>3. CASE runs' = [runs EXCEPT ![m] = "answered"]
        BY <1>0, <2>3 DEF RunTypes
    <2>4. QED
        BY <2>2, <2>3
<1>4. QueueIsTurns'
    BY <1>0, <1>2, QueueStays
<1>5. TakenOnce(m)' /\ (Says(m)' => Says(m))
    BY <1>0, <1>1, <1>2, <1>3 DEF Account, TakenOnce, Untaken, Says
<1>6. QED
    BY <1>0, <1>1, <1>3, <1>4, <1>5, TurnGoesOn DEF RunTypes, TurnStates, InLock

\* A decision goes back to polling, or the turn has no result.
LEMMA DecideKeeps ==
    ASSUME RunInv, NEW m \in Msgs, Decide(m)
    PROVE  RunInv'
<1>1. turn[m] = "ask"
    BY DEF Decide
<1>2. CASE Leaves(m, "unavailable")
    BY <1>1, <1>2, LeavesKeeps
<1>3. CASE /\ runs' = [runs EXCEPT ![m] = "answered"]
           /\ turn' = [turn EXCEPT ![m] = "poll"]
           /\ UNCHANGED <<queue, card, active, answer, records, recovery, observed, runBounds>>
    BY <1>1, <1>3, PollingKeeps DEF RunInv, RunTypes
<1>4. QED
    BY <1>2, <1>3 DEF Decide

\* The status the server gives changes the card alone, or with it the wait for an approval.
LEMMA PollSeesKeeps ==
    ASSUME RunInv, NEW m \in Msgs, PollAsked(m) \/ PollShows(m)
    PROVE  RunInv'
<1>1. PICK status \in {"queued", "running"} : card' = [card EXCEPT ![m] = status]
    BY DEF PollAsked, PollShows, Emits
<1>2. card' \in [Msgs -> {"none", "queued", "admitting", "running", "closed"}]
    BY <1>1 DEF RunInv, RunTypes
<1>3. /\ turn[m] = "poll"
      /\ UNCHANGED <<queue, answer, records, recovery, runs, observed>>
    BY DEF PollAsked, PollShows
<1>4. PICK w \in {"poll", "ask"} : turn' = [turn EXCEPT ![m] = w]
    <2>1. turn = [turn EXCEPT ![m] = "poll"]
        BY <1>3 DEF RunInv, RunTypes
    <2>2. QED
        BY <2>1 DEF PollAsked, PollShows
<1>5. QED
    BY <1>2, <1>3, <1>4, PollingKeeps

\* A result that is said counts once less as owed and once more as delivered; one that arrived
\* unseen is owed again, and counts as told again.
LEMMA RespondKeeps ==
    ASSUME RunInv, NEW m \in Msgs, Respond(m)
    PROVE  RunInv'
<1>0. RunTypes /\ QueueIsTurns /\ Account(m)
    BY DEF RunInv
<1>1. /\ turn[m] = "tell" /\ card' = [card EXCEPT ![m] = "closed"] /\ Delivers(m)
      /\ answer' = [answer EXCEPT ![m] = "none"]
      /\ UNCHANGED <<queue, records, recovery, runs, took, recorded, expired, retaken>>
    BY DEF Respond, Finish, Emits
<1>2. PICK w \in {"forget", "over"}, more \in 0..1, twice \in 0..1 :
          /\ turn' = [turn EXCEPT ![m] = w]
          /\ delivered' = [delivered EXCEPT ![m] = @ + more]
          /\ retold' = [retold EXCEPT ![m] = @ + twice]
          /\ more = 1 => answer[m] = "text"
          /\ w = "forget" => more = 1
          /\ more = 1 /\ w = "over" => twice = 1
    <2>1. /\ delivered = [delivered EXCEPT ![m] = @ + 0]
          /\ retold = [retold EXCEPT ![m] = @ + 0]
        BY <1>0 DEF RunTypes
    <2>2. CASE /\ delivered' = [delivered EXCEPT ![m] = IF answer[m] = "text" THEN @ + 1 ELSE @]
               /\ turn' = [turn EXCEPT ![m] = IF answer[m] = "text" THEN "forget" ELSE "over"]
               /\ retold' = retold
        <3>1. CASE answer[m] = "text"
            BY <2>1, <2>2, <3>1
        <3>2. CASE answer[m] # "text"
            <4>1. delivered' = delivered
                BY <1>0, <2>2, <3>2 DEF RunTypes
            <4>2. /\ turn' = [turn EXCEPT ![m] = "over"]
                  /\ delivered' = [delivered EXCEPT ![m] = @ + 0]
                  /\ retold' = [retold EXCEPT ![m] = @ + 0]
                BY <2>1, <2>2, <3>2, <4>1
            <4>3. 0 \in 0..1 /\ "over" \in {"forget", "over"}
                OBVIOUS
            <4>4. QED
                BY <4>2, <4>3
        <3>3. QED
            BY <3>1, <3>2
    <2>3. CASE turn' = [turn EXCEPT ![m] = "over"] /\ UNCHANGED <<delivered, retold>>
        BY <2>1, <2>3
    <2>4. CASE /\ answer[m] = "text" /\ turn' = [turn EXCEPT ![m] = "over"]
               /\ delivered' = [delivered EXCEPT ![m] = @ + 1]
               /\ retold' = [retold EXCEPT ![m] = @ + 1]
        BY <2>4
    <2>5. QED
        BY <1>1, <2>2, <2>3, <2>4 DEF Delivers, ArrivesUnseen
<1>3. /\ turn'[m] = w /\ \A n \in Msgs \ {m} : turn'[n] = turn[n]
      /\ \A n \in Msgs \ {m} : answer'[n] = answer[n]
      /\ delivered'[m] = delivered[m] + more /\ retold'[m] = retold[m] + twice
      /\ \A n \in Msgs \ {m} : delivered'[n] = delivered[n] /\ retold'[n] = retold[n]
      /\ delivered[m] \in Nat /\ retold[m] \in Nat
    BY <1>0, <1>1, <1>2 DEF RunTypes
<1>4. RunTypes'
    <2>1. delivered' \in [Msgs -> Nat] /\ retold' \in [Msgs -> Nat]
        BY <1>0, <1>2 DEF RunTypes
    <2>2. turn' \in [Msgs -> TurnStates]
        BY <1>0, <1>2 DEF RunTypes, TurnStates
    <2>3. answer' \in [Msgs -> Answers]
        BY <1>0, <1>1 DEF RunTypes, Answers
    <2>4. QED
        BY <1>0, <1>1, <2>1, <2>2, <2>3 DEF RunTypes
<1>5. QueueIsTurns'
    BY <1>0, <1>1, <1>3, QueueStays
<1>6. \A n \in Msgs \ {m} : Spares(n) /\ Rested(n)
    BY <1>1, <1>3 DEF Spares, Rested
<1>7. TakenOnce(m)'
    BY <1>0, <1>1, <1>3 DEF Account, TakenOnce, Untaken
<1>8. OnFile(m)'
    <2>1. ~Says(m)'
        BY <1>1, <1>3 DEF Says
    <2>2. m \notin recorded => more = 0
        BY <1>0, <1>1, <1>2 DEF Account, OnFile, Says
    <2>3. w = "forget" => delivered'[m] > 0
        BY <1>2, <1>3
    <2>4. m \notin recorded => delivered'[m] = 0 /\ w # "forget"
        BY <1>0, <1>2, <1>3, <2>2 DEF Account, OnFile
    <2>5. m \in recorded => m \in records \/ delivered'[m] > 0 \/ m \in expired
        BY <1>0, <1>3 DEF Account, OnFile
    <2>6. QED
        BY <1>0, <1>1, <1>3, <2>1, <2>3, <2>4, <2>5 DEF Account, OnFile
<1>9. delivered'[m] + Load(m)' <= 1 + retold'[m]
    <2>1. Load(m)' + more <= Load(m) + twice
        <3>1. Load(m)' <= Load(m)
            BY <1>1, <1>3 DEF Load, One, Says, Rests
        <3>2. w = "forget" => Load(m)' + 1 <= Load(m)
            BY <1>1, <1>2, <1>3 DEF Load, One, Says, Rests
        <3>3. QED
            BY <1>2, <3>1, <3>2, LoadIs DEF Load, One
    <2>2. Load(m) \in 0..3 /\ Load(m)' \in 0..3
        BY DEF Load, One
    <2>3. QED
        BY <1>0, <1>3, <2>1, <2>2 DEF Account
<1>10. QED
    BY <1>1, <1>4, <1>5, <1>6, <1>7, <1>8, <1>9, OneStep DEF Account

\* What is forgotten was delivered.
LEMMA ForgetRecordKeeps ==
    ASSUME RunInv, NEW m \in Msgs, ForgetRecord(m)
    PROVE  RunInv'
<1>0. RunTypes /\ QueueIsTurns /\ Account(m)
    BY DEF RunInv
<1>1. /\ turn[m] = "forget" /\ records' = records \ {m}
      /\ turn' = [turn EXCEPT ![m] = "over"]
      /\ UNCHANGED <<queue, card, answer, recovery, runs, took, recorded, delivered, expired,
                     retaken, retold>>
    BY DEF ForgetRecord, observed
<1>2. turn'[m] = "over" /\ \A n \in Msgs \ {m} : turn'[n] = turn[n]
    BY <1>0, <1>1 DEF RunTypes
<1>3. RunTypes'
    BY <1>0, <1>1 DEF RunTypes, TurnStates
<1>4. QueueIsTurns'
    BY <1>0, <1>1, <1>2, QueueStays
<1>5. \A n \in Msgs \ {m} : Spares(n) /\ Rested(n)
    BY <1>1, <1>2 DEF Spares, Rested
<1>6. TakenOnce(m)' /\ OnFile(m)'
    BY <1>0, <1>1, <1>2 DEF Account, TakenOnce, Untaken, OnFile, Says
<1>7. Load(m)' <= Load(m) /\ delivered[m] \in Nat /\ Load(m) \in 0..3 /\ Load(m)' \in 0..3
    BY <1>0, <1>1, <1>2 DEF Load, One, Says, Rests, RunTypes
<1>8. delivered'[m] + Load(m)' <= 1 + retold'[m]
    BY <1>0, <1>1, <1>7 DEF Account, RunTypes
<1>9. QED
    BY <1>1, <1>3, <1>4, <1>5, <1>6, <1>8, OneStep DEF Account

\* Recovery delivers a result and forgets it, or leaves the file for the next process, also
\* that of a result that arrived unseen.
LEMMA RecoverRunKeeps ==
    ASSUME RunInv, NEW m \in Msgs, RecoverRun(m)
    PROVE  RunInv'
<1>0. RunTypes /\ QueueIsTurns /\ Account(m)
    BY DEF RunInv
<1>1. /\ m \in recovery.todo /\ recovery' = [recovery EXCEPT !.todo = @ \ {m}]
      /\ UNCHANGED <<turn, queue, card, answer, runs, took, recorded, expired, retaken>>
    BY DEF RecoverRun
<1>2. /\ recovery' \in [todo : SUBSET Msgs, listed : BOOLEAN]
      /\ recovery'.todo = recovery.todo \ {m} /\ recovery'.listed = recovery.listed
    <2>1. recovery \in [todo : SUBSET Msgs, listed : BOOLEAN]
        BY <1>0 DEF RunTypes
    <2>2. recovery.todo \ {m} \in SUBSET Msgs
        BY <2>1
    <2>3. QED
        BY <1>1, <2>1, <2>2
<1>3. PICK more \in 0..1, twice \in 0..1 :
          /\ delivered' = [delivered EXCEPT ![m] = @ + more]
          /\ retold' = [retold EXCEPT ![m] = @ + twice]
          /\ \/ more = 1 /\ twice = 0 /\ records' = records \ {m}
             \/ more = twice /\ records' = records
    <2>1. /\ delivered = [delivered EXCEPT ![m] = @ + 0]
          /\ retold = [retold EXCEPT ![m] = @ + 0]
        BY <1>0 DEF RunTypes
    <2>2. CASE /\ records' = records \ {m} /\ delivered' = [delivered EXCEPT ![m] = @ + 1]
               /\ retold' = retold
        BY <2>1, <2>2
    <2>3. CASE UNCHANGED <<records, delivered, retold>>
        BY <2>1, <2>3
    <2>4. CASE /\ records' = records /\ delivered' = [delivered EXCEPT ![m] = @ + 1]
               /\ retold' = [retold EXCEPT ![m] = @ + 1]
        BY <2>4
    <2>5. QED
        BY <2>2, <2>3, <2>4 DEF RecoverRun, ArrivesUnseen
<1>4. /\ delivered'[m] = delivered[m] + more /\ retold'[m] = retold[m] + twice
      /\ \A n \in Msgs \ {m} : delivered'[n] = delivered[n] /\ retold'[n] = retold[n]
      /\ delivered[m] \in Nat /\ retold[m] \in Nat
    BY <1>0, <1>3 DEF RunTypes
<1>5. RunTypes'
    <2>1. delivered' \in [Msgs -> Nat] /\ retold' \in [Msgs -> Nat] /\ records' \in SUBSET Msgs
        BY <1>0, <1>3 DEF RunTypes
    <2>2. QED
        BY <1>0, <1>1, <1>2, <2>1 DEF RunTypes
<1>6. QueueIsTurns'
    BY <1>0, <1>1, QueueStays
<1>7. \A n \in Msgs \ {m} : Spares(n) /\ Rested(n)
    BY <1>1, <1>2, <1>3, <1>4 DEF Spares, Rested
<1>8. TakenOnce(m)'
    BY <1>0, <1>1 DEF Account, TakenOnce, Untaken
<1>9. OnFile(m)'
    <2>1. m \in recorded /\ (Says(m)' <=> Says(m))
        BY <1>0, <1>1 DEF Account, OnFile, Says
    <2>2. m \in records' \/ delivered'[m] > 0 \/ m \in expired
        BY <1>0, <1>3, <1>4, <2>1 DEF Account, OnFile
    <2>3. turn[m] = "forget" => delivered'[m] > 0
        BY <1>0, <1>4 DEF Account, OnFile
    <2>4. QED
        BY <1>0, <1>1, <2>1, <2>2, <2>3 DEF Account, OnFile
<1>10. delivered'[m] + Load(m)' <= 1 + retold'[m]
    <2>1. Load(m)' + more <= Load(m) + twice
        <3>1. Load(m)' <= Load(m)
            BY <1>1, <1>2, <1>3 DEF Load, One, Says, Rests
        <3>2. records' = records \ {m} => Load(m)' + 1 <= Load(m)
            BY <1>1, <1>2 DEF Load, One, Says, Rests
        <3>3. Load(m) \in 0..3 /\ Load(m)' \in 0..3
            BY DEF Load, One
        <3>4. QED
            BY <1>3, <3>1, <3>2, <3>3
    <2>2. Load(m) \in 0..3 /\ Load(m)' \in 0..3
        BY DEF Load, One
    <2>3. QED
        BY <1>0, <1>4, <2>1, <2>2 DEF Account
<1>11. QED
    BY <1>1, <1>2, <1>5, <1>6, <1>7, <1>8, <1>9, <1>10, OneStep DEF Account

\* The process dies: what it was about to deliver or to forget stays on file.
LEMMA BotDiesKeeps ==
    ASSUME RunInv, BotDies
    PROVE  RunInv'
<1>0. RunTypes
    BY DEF RunInv
<1>1. /\ turn' = [m \in Msgs |-> IF turn[m] = "new" THEN "new" ELSE "over"]
      /\ queue' = <<>>
      /\ card' = [m \in Msgs |-> "none"] /\ answer' = [m \in Msgs |-> "none"]
      /\ recovery' = [todo |-> {}, listed |-> FALSE]
      /\ retold' = [m \in Msgs |-> IF turn[m] = "forget" THEN retold[m] + 1 ELSE retold[m]]
      /\ UNCHANGED <<records, runs, took, recorded, delivered, expired, retaken>>
    BY DEF BotDies
<1>2. /\ turn' \in [Msgs -> TurnStates] /\ queue' \in Seq(Msgs)
      /\ recovery' \in [todo : SUBSET Msgs, listed : BOOLEAN]
      /\ recovery'.todo = {}
    BY <1>1 DEF TurnStates
<1>3. \A m \in Msgs : /\ retold'[m] \in Nat /\ retold[m] \in Nat /\ delivered[m] \in Nat
                      /\ retold'[m] = IF turn[m] = "forget" THEN retold[m] + 1 ELSE retold[m]
                      /\ turn'[m] \in {"new", "over"}
                      /\ turn'[m] = "new" => turn[m] = "new"
    BY <1>0, <1>1 DEF RunTypes
<1>4. RunTypes'
    <2>1. retold' \in [Msgs -> Nat]
        BY <1>1, <1>3
    <2>2. QED
        BY <1>0, <1>1, <1>2, <2>1 DEF RunTypes, Answers
<1>5. QueueIsTurns'
    <2>1. DOMAIN queue' = {}
        BY <1>1
    <2>2. QED
        BY <1>3, <2>1 DEF QueueIsTurns
<1>6. ASSUME NEW m \in Msgs
      PROVE  Account(m)'
    <2>1. Account(m)
        BY DEF RunInv
    <2>2. ~Says(m)' /\ turn'[m] # "forget"
        BY <1>3 DEF Says
    <2>3. TakenOnce(m)'
        BY <1>1, <1>3, <2>1 DEF Account, TakenOnce, Untaken
    <2>4. OnFile(m)'
        BY <1>1, <1>2, <1>3, <2>1, <2>2 DEF Account, OnFile
    <2>5. Load(m)' = One(m \in records)
        BY <1>1, <1>2, <2>2 DEF Load, One, Rests
    <2>6. turn[m] # "forget" => One(m \in records) <= Load(m)
        BY DEF Load, One, Rests
    <2>7. Load(m) \in 0..3 /\ One(m \in records) \in 0..1
        BY DEF Load, One
    <2>8. delivered'[m] + Load(m)' <= 1 + retold'[m]
        BY <1>1, <1>3, <2>1, <2>5, <2>6, <2>7 DEF Account
    <2>9. QED
        BY <2>3, <2>4, <2>8 DEF Account
<1>7. QED
    BY <1>1, <1>2, <1>4, <1>5, <1>6 DEF RunInv

\* Recovery takes over what is on file; a live run among it may be delivered twice.
LEMMA ListPendingKeeps ==
    ASSUME RunInv, ListPending
    PROVE  RunInv'
<1>0. RunTypes /\ QueueIsTurns
    BY DEF RunInv
<1>1. PICK old \in SUBSET {m \in records : ~Live(m)} :
          /\ recovery' = [todo |-> records \ old, listed |-> TRUE]
          /\ records' = records \ old
          /\ expired' = expired \union old
    BY DEF ListPending
<1>2. /\ ~recovery.listed
      /\ retold' = [m \in Msgs |-> IF m \in records /\ Live(m) THEN retold[m] + 1
                                   ELSE retold[m]]
      /\ UNCHANGED <<turn, queue, card, answer, runs, took, recorded, delivered, retaken>>
    BY DEF ListPending
<1>3. recovery.todo = {} /\ recovery'.todo = records \ old /\ recovery'.listed = TRUE
    BY <1>1, <1>2 DEF RunInv
<1>4. \A m \in Msgs : /\ retold'[m] \in Nat /\ retold[m] \in Nat /\ delivered[m] \in Nat
                      /\ retold'[m] = IF m \in records /\ Live(m) THEN retold[m] + 1
                                      ELSE retold[m]
    BY <1>0, <1>2 DEF RunTypes
<1>5. RunTypes'
    <2>1. retold' \in [Msgs -> Nat]
        BY <1>2, <1>4
    <2>2. /\ recovery' \in [todo : SUBSET Msgs, listed : BOOLEAN]
          /\ records' \in SUBSET Msgs /\ expired' \in SUBSET Msgs
        BY <1>0, <1>1 DEF RunTypes
    <2>3. QED
        BY <1>0, <1>2, <2>1, <2>2 DEF RunTypes
<1>6. QueueIsTurns'
    BY <1>0, <1>2, QueueStays
<1>7. ASSUME NEW m \in Msgs
      PROVE  Account(m)'
    <2>1. Account(m)
        BY DEF RunInv
    <2>2. (Says(m)' <=> Says(m)) /\ turn'[m] = turn[m]
        BY <1>2 DEF Says
    <2>3. TakenOnce(m)'
        BY <1>2, <2>1 DEF Account, TakenOnce, Untaken
    <2>4. OnFile(m)'
        BY <1>1, <1>2, <1>3, <2>1, <2>2 DEF Account, OnFile
    <2>5. Load(m) \in 0..3 /\ Load(m)' \in 0..3
        BY DEF Load, One
    <2>6. CASE m \in records /\ Live(m)
        <3>1. Load(m)' <= Load(m) + 1
            BY <1>1, <1>3, <2>2, <2>6 DEF Load, One, Rests
        <3>2. delivered'[m] + Load(m)' <= 1 + retold'[m]
            BY <1>2, <1>4, <2>1, <2>5, <2>6, <3>1 DEF Account
        <3>3. QED
            BY <2>3, <2>4, <3>2 DEF Account
    <2>7. CASE m \notin records \/ ~Live(m)
        <3>1. m \in records => ~Says(m) /\ turn[m] # "forget"
            BY <2>7 DEF Live, Says
        <3>2. Load(m)' <= Load(m)
            BY <1>1, <1>3, <2>2, <3>1 DEF Load, One, Rests
        <3>3. delivered'[m] + Load(m)' <= 1 + retold'[m]
            BY <1>2, <1>4, <2>1, <2>5, <2>7, <3>2 DEF Account
        <3>4. QED
            BY <2>3, <2>4, <3>3 DEF Account
    <2>8. QED
        BY <2>6, <2>7
<1>8. QED
    BY <1>3, <1>5, <1>6, <1>7 DEF RunInv

\* A step of the server alone, or none: a run that the server has it keeps.
LEMMA ServerKeeps ==
    ASSUME RunInv, UNCHANGED client, UNCHANGED observed,
           runs' \in [Msgs -> {"none", "waiting", "running", "asking", "answered", "ended"}],
           \A n \in Msgs : runs'[n] = "none" <=> runs[n] = "none"
    PROVE  RunInv'
<1>1. /\ UNCHANGED <<turn, queue, card, answer, records, recovery>>
      /\ UNCHANGED <<took, recorded, delivered, expired, retaken, retold>>
    BY DEF client, observed
<1>2. RunTypes' /\ QueueIsTurns'
    BY <1>1, QueueStays DEF RunInv, RunTypes
<1>3. \A n \in Msgs : Spares(n) /\ Rested(n)
    BY <1>1 DEF Spares, Rested
<1>4. \A n \in Msgs : Account(n)'
    BY <1>3, AccountStays
<1>5. QED
    BY <1>1, <1>2, <1>4 DEF RunInv

\* At the start no message was taken or recorded.
LEMMA RunStarts ==
    ASSUME RunInit
    PROVE  RunInv
<1>1. /\ turn = [m \in Msgs |-> "new"] /\ queue = <<>>
      /\ card = [m \in Msgs |-> "none"] /\ answer = [m \in Msgs |-> "none"]
      /\ runs = [m \in Msgs |-> "none"]
      /\ records = {} /\ recorded = {} /\ expired = {}
      /\ recovery = [todo |-> {}, listed |-> FALSE]
      /\ took = [m \in Msgs |-> 0] /\ delivered = took /\ retaken = took /\ retold = took
    BY DEF RunInit
<1>2. RunTypes
    BY <1>1 DEF RunTypes, TurnStates, Answers
<1>3. QueueIsTurns
    BY <1>1 DEF QueueIsTurns
<1>4. ASSUME NEW m \in Msgs
      PROVE  Account(m)
    <2>1. TakenOnce(m) /\ OnFile(m)
        BY <1>1 DEF TakenOnce, OnFile, Says
    <2>2. Load(m) = 0
        BY <1>1 DEF Load, One, Says, Rests
    <2>3. QED
        BY <1>1, <2>1, <2>2 DEF Account
<1>5. QED
    BY <1>1, <1>2, <1>3, <1>4 DEF RunInv

\* Every step of the conversation keeps its invariant.
LEMMA RunStep ==
    ASSUME RunInv, [RunNext]_runVars
    PROVE  RunInv'
<1>1. ASSUME NEW m \in Msgs, WorksOn(m) \/ Ends(m) \/ Asks(m) \/ StopRun(m) \/ RecoverDenies(m)
      PROVE  RunInv'
    <2>1. UNCHANGED client /\ UNCHANGED observed
        BY <1>1 DEF WorksOn, Ends, Asks, StopRun, RecoverDenies
    <2>2. runs[m] # "none" /\ \E s \in {"running", "asking", "answered", "ended"} :
                                  runs' = [runs EXCEPT ![m] = s]
        BY <1>1 DEF WorksOn, Ends, Asks, StopRun, RecoverDenies, InProgress
    <2>3. /\ runs' \in [Msgs -> {"none", "waiting", "running", "asking", "answered", "ended"}]
          /\ \A n \in Msgs : runs'[n] = "none" <=> runs[n] = "none"
        BY <2>2 DEF RunInv, RunTypes
    <2>4. QED
        BY <2>1, <2>3, ServerKeeps
<1>2. ASSUME NEW m \in Msgs, TurnStep(m)
      PROVE  RunInv'
    <2>1. CASE SteerActive(m) \/ SteerQueued(m) \/ GuidesNothing(m) \/ Requeues(m)
        BY <2>1, SteerActiveKeeps, SteerQueuedKeeps, RequeuesKeeps
    <2>2. CASE Redirected(m) \/ StartTurn(m)
        BY <2>2, RedirectedKeeps, StartTurnKeeps
    <2>3. CASE PostRun(m) \/ Admit(m)
        BY <2>3, PostRunKeeps, AdmitKeeps
    <2>4. CASE NotAdmitted(m)
        BY <2>4, LeavesKeeps DEF NotAdmitted
    <2>5. CASE PollEnds(m) \/ PollBreaks(m)
        BY <2>5, LeavesKeeps DEF PollEnds, PollBreaks
    <2>6. CASE PollAsked(m) \/ PollShows(m) \/ Decide(m)
        BY <2>6, PollSeesKeeps, DecideKeeps
    <2>7. CASE Respond(m) \/ ForgetRecord(m)
        BY <2>7, RespondKeeps, ForgetRecordKeeps
    <2>8. QED
        BY <1>2, <2>1, <2>2, <2>3, <2>4, <2>5, <2>6, <2>7 DEF TurnStep
<1>3. ASSUME NEW m \in Msgs, Handle(m) \/ Redirect(m) \/ RedirectLate(m) \/ RecoverRun(m)
      PROVE  RunInv'
    BY <1>3, HandleKeeps, RedirectKeeps, RedirectLateKeeps, RecoverRunKeeps
<1>4. CASE BotDies \/ ListPending
    BY <1>4, BotDiesKeeps, ListPendingKeeps
<1>5. CASE UNCHANGED runVars
    <2>1. runs' = runs /\ UNCHANGED client /\ UNCHANGED observed
        BY <1>5 DEF runVars
    <2>2. QED
        BY <2>1, ServerKeeps DEF RunInv, RunTypes
<1>6. QED
    BY <1>1, <1>2, <1>3, <1>4, <1>5 DEF RunNext

\* A text that the agent took is not run as well, but for an answer that was lost or a click on
\* a turn already taken; and every result of a recorded run is on record, was delivered or was
\* too old, and is delivered once more only for what `retold` counts: steer_active, steer and
\* _request of modules/hermes_client.py with recover_pending, whatever answer is lost and
\* whenever the bot dies.
THEOREM EachRunOnce == RunSpec => []OneRunOneResult
<1>1. RunInit => RunInv
    BY RunStarts
<1>2. RunInv /\ [RunNext]_runVars => RunInv'
    BY RunStep
<1>3. RunInv => OneRunOneResult
    <2>1. ASSUME RunInv, NEW m \in Msgs
          PROVE  /\ took[m] <= 1 + retaken[m]
                 /\ delivered[m] <= 1 + retold[m]
                 /\ m \in recorded => m \in records \/ delivered[m] > 0 \/ m \in expired
        <3>1. Account(m) /\ delivered[m] \in Nat /\ retold[m] \in Nat /\ Load(m) \in 0..3
            BY <2>1 DEF RunInv, RunTypes, Load, One
        <3>2. QED
            BY <3>1 DEF Account, TakenOnce, OnFile
    <2>2. RunInv => recorded \subseteq Msgs
        BY DEF RunInv, RunTypes
    <2>3. QED
        BY <2>1, <2>2 DEF OneRunOneResult, TextRunsOnce, ResultKept
<1>4. QED
    BY <1>1, <1>2, <1>3, PTL DEF RunSpec

-------------------------------------------------------------------------------
\* PublicReplies.
Parts == {"line", "facts", "sorry", "cut"}

RepliesTypes ==
    /\ stage \in [Questions -> Awaited \union {"unasked", "done", "gone"}]
    /\ about \in [Questions -> {"map", "facts"}]
    /\ facts \in [Questions -> BOOLEAN]
    /\ reply \in [Questions -> SUBSET Parts]
    /\ elapsed \in [Questions -> Nat] /\ spent \in [Questions -> Nat]
    /\ lineJob \in [Questions -> TERMINAL \union {"none", "queued", "running"}]
    /\ cancel \in [Questions -> BOOLEAN]

\* Before the line is asked for there is no job, and before the end no reply.
RepliesOrdered ==
    \A a \in Questions :
        /\ stage[a] \in {"unasked", "map", "facts", "model"} => lineJob[a] = "none"
        /\ stage[a] # "done" => reply[a] = {}

\* A question that has one lookup to do is never late: what the timeouts leave of Outer.
InBudget ==
    \A a \in Questions :
        /\ stage[a] = "unasked" => elapsed[a] = 0 /\ spent[a] = 0
        /\ stage[a] = "facts" => about[a] = "facts"
        /\ stage[a] = "map" => elapsed[a] <= spent[a] /\ spent[a] <= Lookup
        /\ stage[a] = "model" => spent[a] = 0
        /\ stage[a] = "model" /\ about[a] = "map" => elapsed[a] <= Lookup
        /\ stage[a] = "poll" => spent[a] <= Wait
        /\ stage[a] = "poll" /\ about[a] = "map" => elapsed[a] <= Lookup + spent[a]

\* The worker's job is one that runs.
JobAtWork ==
    /\ worker = "public" => writing \in Questions /\ lineJob[writing] = "running"
    /\ worker # "public" => writing = NoAsk

RepliesInv == RepliesTypes /\ RepliesOrdered /\ InBudget /\ QueueIsSwept /\ FactsAreTold

\* The assumption on the timeouts, one by one.
LEMMA TimesAreNat == /\ Lookup \in Nat /\ Wait \in Nat /\ Outer \in Nat
                     /\ Wait + Lookup < Outer /\ Lookup <= Wait + 1
BY RepliesAssumption

\* The worker, and what the bot knows besides the answers, change no answer.
LEMMA WorkerMoves ==
    ASSUME RepliesInv, UNCHANGED <<askVars, spent, cancel>>,
           lineJob' \in [Questions -> TERMINAL \union {"none", "queued", "running"}],
           \A a \in Questions : InQueue(a)' => InQueue(a),
           \A a \in Questions : lineJob[a] = "none" => lineJob'[a] = "none"
    PROVE  RepliesInv'
BY DEF RepliesInv, RepliesTypes, RepliesOrdered, InBudget, QueueIsSwept, FactsAreTold, askVars

\* One answer takes a step, and the others none.
LEMMA OneAnswer ==
    ASSUME RepliesInv, RepliesTypes', NEW a \in Questions,
           \A b \in Questions \ {a} :
               /\ stage'[b] = stage[b] /\ about'[b] = about[b] /\ facts'[b] = facts[b]
               /\ reply'[b] = reply[b] /\ elapsed'[b] = elapsed[b] /\ spent'[b] = spent[b]
               /\ lineJob'[b] = lineJob[b] /\ cancel'[b] = cancel[b],
           stage'[a] \in {"unasked", "map", "facts", "model"} => lineJob'[a] = "none",
           stage'[a] # "done" => reply'[a] = {},
           stage'[a] # "unasked",
           stage'[a] = "facts" => about'[a] = "facts",
           stage'[a] = "map" => elapsed'[a] <= spent'[a] /\ spent'[a] <= Lookup,
           stage'[a] = "model" => spent'[a] = 0,
           stage'[a] = "model" /\ about'[a] = "map" => elapsed'[a] <= Lookup,
           stage'[a] = "poll" => spent'[a] <= Wait,
           stage'[a] = "poll" /\ about'[a] = "map" => elapsed'[a] <= Lookup + spent'[a],
           stage'[a] = "done" /\ InQueue(a)' => cancel'[a],
           stage'[a] = "done" /\ facts'[a] => "facts" \in reply'[a] \/ reply'[a] = {"cut"},
           about'[a] = "map" => "cut" \notin reply'[a]
    PROVE  RepliesInv'
<1>1. RepliesOrdered'
    BY DEF RepliesInv, RepliesOrdered
<1>2. InBudget'
    BY DEF RepliesInv, InBudget
<1>3. QueueIsSwept'
    BY DEF RepliesInv, QueueIsSwept, InQueue
<1>4. FactsAreTold'
    BY DEF RepliesInv, FactsAreTold
<1>5. QED
    BY <1>1, <1>2, <1>3, <1>4 DEF RepliesInv

\* The reply of an answer whose job, if any, has ended or is marked.
LEMMA ReplyKeeps ==
    ASSUME RepliesInv, NEW a \in Questions, NEW parts \in SUBSET Parts, Reply(a, parts),
           UNCHANGED <<about, facts, lineJob>>,
           cancel' = cancel \/ LeaveJob(a),
           InQueue(a) => LeaveJob(a),
           facts[a] => "facts" \in parts \/ parts = {"cut"},
           about[a] = "map" => "cut" \notin parts
    PROVE  RepliesInv'
<1> USE DEF RepliesInv
<1>1. /\ stage' = [stage EXCEPT ![a] = "done"]
      /\ reply' = [reply EXCEPT ![a] = parts]
      /\ elapsed' = [elapsed EXCEPT ![a] = 0]
      /\ spent' = [spent EXCEPT ![a] = IF InQueue(a) THEN @ ELSE 0]
    BY DEF Reply
<1>2. /\ cancel' \in [Questions -> BOOLEAN]
      /\ \A b \in Questions \ {a} : cancel'[b] = cancel[b]
      /\ InQueue(a) => cancel'[a]
    <2>1. CASE cancel' = cancel /\ ~InQueue(a)
        BY <2>1 DEF RepliesTypes
    <2>2. CASE LeaveJob(a)
        <3>1. cancel' = [cancel EXCEPT ![a] = cancel[a] \/ lineJob[a] \notin TERMINAL]
            BY <2>2 DEF LeaveJob
        <3>2. InQueue(a) => lineJob[a] \notin TERMINAL
            BY DEF InQueue, TERMINAL
        <3>3. QED
            BY <3>1, <3>2, Zenon DEF RepliesTypes
    <2>3. QED
        BY <2>1, <2>2
<1>3. RepliesTypes'
    <2>1. stage' \in [Questions -> Awaited \union {"unasked", "done", "gone"}]
        BY <1>1 DEF RepliesTypes
    <2>2. reply' \in [Questions -> SUBSET Parts]
        BY <1>1 DEF RepliesTypes
    <2>3. elapsed' \in [Questions -> Nat] /\ spent' \in [Questions -> Nat]
        BY <1>1 DEF RepliesTypes
    <2>4. QED
        BY <1>2, <2>1, <2>2, <2>3 DEF RepliesTypes
<1>4. /\ stage'[a] = "done" /\ reply'[a] = parts
      /\ InQueue(a)' = InQueue(a)
      /\ \A b \in Questions \ {a} : /\ stage'[b] = stage[b] /\ reply'[b] = reply[b]
                                    /\ elapsed'[b] = elapsed[b] /\ spent'[b] = spent[b]
    BY <1>1 DEF RepliesTypes, InQueue
<1>5. QED
    BY <1>2, <1>3, <1>4, OneAnswer

\* An answer is never empty: the facts are in it, and it is not the apology for a cut.
LEMMA ComposeIs ==
    ASSUME NEW a \in Questions, NEW line
    PROVE  /\ Compose(a, line) \in SUBSET Parts
           /\ facts[a] => "facts" \in Compose(a, line)
           /\ "cut" \notin Compose(a, line)
BY DEF Compose, Parts

\* A new question has its whole budget.
LEMMA QuestionKeeps ==
    ASSUME RepliesInv, NEW a \in Questions, Question(a)
    PROVE  RepliesInv'
<1> USE DEF RepliesInv
<1>1. /\ stage[a] = "unasked" /\ stage' = [stage EXCEPT ![a] = "map"]
      /\ UNCHANGED <<facts, reply, elapsed, spent, lineJob, cancel>>
    BY DEF Question, queueVars
<1>2. PICK topic \in {"map", "facts"} : about' = [about EXCEPT ![a] = topic]
    BY DEF Question
<1>3. RepliesTypes'
    BY <1>1, <1>2 DEF RepliesTypes, Awaited
<1>4. /\ stage'[a] = "map" /\ lineJob[a] = "none" /\ reply[a] = {}
      /\ elapsed[a] = 0 /\ spent[a] = 0
      /\ \A b \in Questions \ {a} : stage'[b] = stage[b] /\ about'[b] = about[b]
    BY <1>1, <1>2 DEF RepliesTypes, RepliesOrdered, InBudget
<1>5. QED
    BY <1>1, <1>3, <1>4, OneAnswer, TimesAreNat

\* The look at the map used no more than its timeout.
LEMMA LookAtMapKeeps ==
    ASSUME RepliesInv, NEW a \in Questions, LookAtMap(a)
    PROVE  RepliesInv'
<1> USE DEF RepliesInv
<1>1. /\ stage[a] = "map"
      /\ stage' = [stage EXCEPT ![a] = IF about[a] = "facts" THEN "facts" ELSE "model"]
      /\ spent' = [spent EXCEPT ![a] = 0]
      /\ UNCHANGED <<about, facts, reply, elapsed, lineJob, cancel>>
    BY DEF LookAtMap, queueVars
<1>2. RepliesTypes'
    BY <1>1 DEF RepliesTypes, Awaited
<1>3. /\ stage'[a] \in {"facts", "model"} /\ (stage'[a] = "facts" => about[a] = "facts")
      /\ lineJob[a] = "none" /\ reply[a] = {} /\ spent'[a] = 0
      /\ \A b \in Questions \ {a} : stage'[b] = stage[b] /\ spent'[b] = spent[b]
    BY <1>1 DEF RepliesTypes, RepliesOrdered
<1>4. elapsed[a] <= Lookup
    BY <1>1, TimesAreNat DEF InBudget, RepliesTypes
<1>5. QED
    BY <1>1, <1>2, <1>3, <1>4, OneAnswer

\* Only a question about more than the map looks further.
LEMMA LookFactsUpKeeps ==
    ASSUME RepliesInv, NEW a \in Questions, LookFactsUp(a)
    PROVE  RepliesInv'
<1> USE DEF RepliesInv
<1>1. /\ stage[a] = "facts" /\ stage' = [stage EXCEPT ![a] = "model"]
      /\ spent' = [spent EXCEPT ![a] = 0]
      /\ UNCHANGED <<about, reply, elapsed, lineJob, cancel>>
    BY DEF LookFactsUp, queueVars
<1>2. PICK found \in BOOLEAN : facts' = [facts EXCEPT ![a] = found]
    BY DEF LookFactsUp
<1>3. RepliesTypes'
    BY <1>1, <1>2 DEF RepliesTypes, Awaited
<1>4. /\ stage'[a] = "model" /\ about[a] = "facts" /\ lineJob[a] = "none" /\ reply[a] = {}
      /\ spent'[a] = 0
      /\ \A b \in Questions \ {a} : /\ stage'[b] = stage[b] /\ spent'[b] = spent[b]
                                    /\ facts'[b] = facts[b]
    BY <1>1, <1>2 DEF RepliesTypes, RepliesOrdered, InBudget
<1>5. QED
    BY <1>1, <1>3, <1>4, OneAnswer

\* The wait for the line begins at zero.
LEMMA SubmitLineKeeps ==
    ASSUME RepliesInv, NEW a \in Questions, SubmitLine(a)
    PROVE  RepliesInv'
<1> USE DEF RepliesInv
<1>1. /\ stage[a] = "model" /\ stage' = [stage EXCEPT ![a] = "poll"]
      /\ lineJob' = [lineJob EXCEPT ![a] = "queued"]
      /\ UNCHANGED <<about, facts, reply, elapsed, spent, cancel>>
    BY DEF SubmitLine
<1>2. RepliesTypes'
    BY <1>1 DEF RepliesTypes, Awaited
<1>3. /\ stage'[a] = "poll" /\ reply[a] = {} /\ spent[a] = 0
      /\ about[a] = "map" => elapsed[a] <= Lookup + spent[a]
      /\ \A b \in Questions \ {a} : stage'[b] = stage[b] /\ lineJob'[b] = lineJob[b]
    BY <1>1, TimesAreNat DEF RepliesTypes, RepliesOrdered, InBudget
<1>4. QED
    BY <1>1, <1>2, <1>3, OneAnswer, TimesAreNat

\* Without a line the facts are told.
LEMMA NoLineKeeps ==
    ASSUME RepliesInv, NEW a \in Questions, NoLine(a)
    PROVE  RepliesInv'
<1>1. /\ stage[a] = "model" /\ Reply(a, Compose(a, "none"))
      /\ UNCHANGED <<about, facts, lineJob, cancel>>
    BY DEF NoLine, queueVars
<1>2. ~InQueue(a)
    BY <1>1 DEF RepliesInv, RepliesOrdered, InQueue
<1>3. QED
    BY <1>1, <1>2, ComposeIs, ReplyKeeps

\* A result that is read, or given up, ends the answer and marks the job.
LEMMA ReadsKeep ==
    ASSUME RepliesInv, NEW a \in Questions, ReadResult(a) \/ GiveUp(a)
    PROVE  RepliesInv'
<1>1. UNCHANGED <<about, facts, lineJob>> /\ LeaveJob(a)
    BY DEF ReadResult, GiveUp
<1>2. PICK line \in {"good", "refused", "none"} : Reply(a, Compose(a, line))
    BY DEF ReadResult, GiveUp
<1>3. QED
    BY <1>1, <1>2, ComposeIs, ReplyKeeps

\* What is cut had more than one lookup to do.
LEMMA CutOffKeeps ==
    ASSUME RepliesInv, NEW a \in Questions, CutOff(a)
    PROVE  RepliesInv'
<1>1. /\ stage[a] \in Awaited /\ elapsed[a] = Outer /\ Reply(a, {"cut"})
      /\ IF stage[a] = "poll" THEN LeaveJob(a) ELSE UNCHANGED cancel
      /\ UNCHANGED <<about, facts, lineJob>>
    BY DEF CutOff
<1>2. about[a] # "map"
    BY <1>1, TimesAreNat DEF RepliesInv, InBudget, RepliesTypes, Awaited
<1>3. stage[a] # "poll" => ~InQueue(a)
    BY <1>1 DEF RepliesInv, RepliesOrdered, InQueue, Awaited
<1>4. {"cut"} \in SUBSET Parts
    BY DEF Parts
<1>5. QED
    BY <1>1, <1>2, <1>3, <1>4, ReplyKeeps

\* A question that was under way is gone with the bot.
LEMMA BotFallsKeeps ==
    ASSUME RepliesInv, BotFalls
    PROVE  RepliesInv'
<1> USE DEF RepliesInv
<1>1. /\ stage' = [a \in Questions |-> IF stage[a] \in Awaited THEN "gone" ELSE stage[a]]
      /\ elapsed' = [a \in Questions |-> 0]
      /\ spent' = [a \in Questions |-> IF InQueue(a) THEN spent[a] ELSE 0]
      /\ UNCHANGED <<about, facts, reply, lineJob, cancel>>
    BY DEF BotFalls, queueVars
<1>2. RepliesTypes'
    <2>1. stage' \in [Questions -> Awaited \union {"unasked", "done", "gone"}]
        BY <1>1 DEF RepliesTypes
    <2>2. elapsed' \in [Questions -> Nat] /\ spent' \in [Questions -> Nat]
        BY <1>1 DEF RepliesTypes
    <2>3. QED
        BY <1>1, <2>1, <2>2 DEF RepliesTypes
<1>3. \A a \in Questions : /\ stage'[a] \in {"unasked", "done", "gone"}
                           /\ stage'[a] \in {"unasked", "done"} => stage'[a] = stage[a]
                           /\ stage[a] = "done" => stage'[a] = "done"
    BY <1>1 DEF RepliesTypes, Awaited
<1>4. RepliesOrdered'
    BY <1>1, <1>3 DEF RepliesOrdered
<1>5. InBudget'
    BY <1>1, <1>3 DEF InBudget, RepliesOrdered, InQueue
<1>6. QueueIsSwept' /\ FactsAreTold'
    BY <1>1, <1>3 DEF QueueIsSwept, FactsAreTold, InQueue
<1>7. QED
    BY <1>2, <1>4, <1>5, <1>6

\* No timeout is passed by, and what passes counts for the stage it passes in.
LEMMA TimeKeeps ==
    ASSUME RepliesInv, TimeGoesOn
    PROVE  RepliesInv'
<1> USE DEF RepliesInv
<1>1. /\ \A a \in Questions : InTime(a)
      /\ elapsed' = [a \in Questions |->
             IF stage[a] \in Awaited THEN elapsed[a] + 1 ELSE elapsed[a]]
      /\ spent' = [a \in Questions |->
             IF Pending(a) /\ spent[a] <= Wait THEN spent[a] + 1 ELSE spent[a]]
      /\ UNCHANGED <<stage, about, facts, reply, lineJob, cancel>>
    BY DEF TimeGoesOn, queueVars
<1>2. RepliesTypes'
    <2>1. elapsed' \in [Questions -> Nat] /\ spent' \in [Questions -> Nat]
        BY <1>1, TimesAreNat DEF RepliesTypes
    <2>2. QED
        BY <1>1, <2>1 DEF RepliesTypes
<1>3. ASSUME NEW a \in Questions
      PROVE  /\ stage[a] = "unasked" => elapsed'[a] = 0 /\ spent'[a] = 0
             /\ stage[a] = "map" => elapsed'[a] <= spent'[a] /\ spent'[a] <= Lookup
             /\ stage[a] # "model"
             /\ stage[a] = "poll" => spent'[a] <= Wait
             /\ stage[a] = "poll" /\ about[a] = "map" => elapsed'[a] <= Lookup + spent'[a]
    <2>1. /\ elapsed[a] \in Nat /\ spent[a] \in Nat /\ Lookup \in Nat /\ Wait \in Nat
          /\ InTime(a)
        BY <1>1, TimesAreNat DEF RepliesTypes
    <2>2. stage[a] # "model"
        BY <2>1 DEF InTime
    <2>3. CASE stage[a] = "unasked"
        BY <1>1, <2>1, <2>3 DEF Awaited, Pending, InQueue, InBudget, RepliesOrdered
    <2>4. CASE stage[a] = "map"
        <3>1. /\ spent[a] < Lookup /\ elapsed[a] <= spent[a]
              /\ elapsed'[a] = elapsed[a] + 1
              /\ spent'[a] = IF spent[a] <= Wait THEN spent[a] + 1 ELSE spent[a]
            BY <1>1, <2>1, <2>4 DEF Awaited, Pending, InTime, InBudget
        <3>2. QED
            BY <2>1, <2>4, <3>1, TimesAreNat
    <2>5. CASE stage[a] = "poll"
        <3>1. /\ spent[a] < Wait /\ elapsed'[a] = elapsed[a] + 1 /\ spent'[a] = spent[a] + 1
              /\ about[a] = "map" => elapsed[a] <= Lookup + spent[a]
            BY <1>1, <2>1, <2>5 DEF Awaited, Pending, InTime, InBudget
        <3>2. QED
            BY <2>1, <2>5, <3>1
    <2>6. QED
        BY <2>2, <2>3, <2>4, <2>5
<1>4. InBudget'
    BY <1>1, <1>3 DEF InBudget
<1>5. RepliesOrdered' /\ QueueIsSwept' /\ FactsAreTold'
    BY <1>1 DEF RepliesOrdered, QueueIsSwept, FactsAreTold, InQueue
<1>6. QED
    BY <1>2, <1>4, <1>5

\* A worker's step ends only the job that it runs.
LEMMA WorkerKeeps ==
    ASSUME RepliesInv, JobAtWork,
           \/ \E a \in Questions : TakeJob(a)
           \/ OwnerJob \/ WorkerStep \/ WorkerFalls \/ UNCHANGED replyVars
    PROVE  RepliesInv' /\ JobAtWork'
<1>1. UNCHANGED <<askVars, spent, cancel>>
    BY DEF TakeJob, OwnerJob, WorkerStep, EndJob, OwnerJobEnds, Heartbeat, WorkerStarts,
           WorkerFalls, replyVars, queueVars
<1>2. lineJob \in [Questions -> TERMINAL \union {"none", "queued", "running"}]
    BY DEF RepliesInv, RepliesTypes
<1>3. ASSUME NEW a \in Questions, TakeJob(a)
      PROVE  RepliesInv' /\ JobAtWork'
    <2>1. /\ worker = "idle" /\ lineJob[a] = "queued"
          /\ \/ /\ lineJob' = [lineJob EXCEPT ![a] = "cancelled"]
                /\ UNCHANGED <<worker, writing>>
             \/ /\ lineJob' = [lineJob EXCEPT ![a] = "running"]
                /\ worker' = "public" /\ writing' = a
        BY <1>3 DEF TakeJob
    <2>2. RepliesInv'
        BY <1>1, <1>2, <2>1, WorkerMoves DEF InQueue, TERMINAL
    <2>3. JobAtWork'
        BY <1>2, <2>1 DEF JobAtWork
    <2>4. QED
        BY <2>2, <2>3
<1>4. CASE EndJob
    <2>1. PICK how \in {"completed", "failed", "cancelled"} :
              lineJob' = [lineJob EXCEPT ![writing] = how]
        BY <1>4 DEF EndJob
    <2>2. writing \in Questions /\ lineJob[writing] = "running"
        BY <1>4 DEF EndJob, JobAtWork
    <2>3. RepliesInv'
        BY <1>1, <1>2, <2>1, <2>2, WorkerMoves DEF InQueue, TERMINAL
    <2>4. JobAtWork'
        BY <1>4 DEF EndJob, Rest, JobAtWork
    <2>5. QED
        BY <2>3, <2>4
<1>5. CASE OwnerJob \/ OwnerJobEnds \/ Heartbeat \/ UNCHANGED replyVars
    <2>1. lineJob' = lineJob
        BY <1>5 DEF OwnerJob, OwnerJobEnds, Heartbeat, replyVars, queueVars
    <2>2. RepliesInv'
        BY <1>1, <1>2, <2>1, WorkerMoves DEF InQueue
    <2>3. JobAtWork'
        BY <1>5, <2>1 DEF OwnerJob, OwnerJobEnds, Heartbeat, Rest, replyVars, workerVars,
                          JobAtWork
    <2>4. QED
        BY <2>2, <2>3
<1>6. CASE WorkerFalls
    <2>1. \/ lineJob' = lineJob
          \/ lineJob' = [a \in Questions |-> IF a = writing THEN "cancelled" ELSE lineJob[a]]
        BY <1>6 DEF WorkerFalls
    <2>2. \A a \in Questions : a = writing => lineJob[a] = "running"
        BY RepliesAssumption DEF JobAtWork
    <2>3. RepliesInv'
        BY <1>1, <1>2, <2>1, <2>2, WorkerMoves DEF InQueue, TERMINAL
    <2>4. JobAtWork'
        BY <1>6 DEF WorkerFalls, JobAtWork
    <2>5. QED
        BY <2>3, <2>4
<1>7. CASE WorkerStarts
    <2>1. lineJob' = [a \in Questions |->
                         IF lineJob[a] = "running" THEN "interrupted" ELSE lineJob[a]]
        BY <1>7 DEF WorkerStarts
    <2>2. RepliesInv'
        BY <1>1, <1>2, <2>1, WorkerMoves DEF InQueue, TERMINAL
    <2>3. JobAtWork'
        BY <1>7 DEF WorkerStarts, Rest, JobAtWork
    <2>4. QED
        BY <2>2, <2>3
<1>8. QED
    BY <1>3, <1>4, <1>5, <1>6, <1>7 DEF WorkerStep

\* What the bot does leaves the job that runs as it is.
LEMMA BotLeavesJob ==
    ASSUME RepliesInv, JobAtWork,
           \/ \E a \in Questions : Question(a) \/ BotStep(a)
           \/ BotFalls \/ TimeGoesOn
    PROVE  JobAtWork'
<1>1. UNCHANGED <<worker, writing>>
    BY DEF Question, BotStep, LookAtMap, LookFactsUp, NoLine, SubmitLine, ReadResult, GiveUp,
           CutOff, BotFalls, TimeGoesOn, workerVars
<1>2. CASE lineJob' = lineJob
    BY <1>1, <1>2 DEF JobAtWork
<1>3. ASSUME NEW a \in Questions, SubmitLine(a)
      PROVE  JobAtWork'
    <2>1. /\ lineJob[a] = "none" /\ lineJob' = [lineJob EXCEPT ![a] = "queued"]
          /\ lineJob \in [Questions -> TERMINAL \union {"none", "queued", "running"}]
        BY <1>3 DEF SubmitLine, RepliesInv, RepliesOrdered, RepliesTypes
    <2>2. QED
        BY <1>1, <2>1 DEF JobAtWork
<1>4. QED
    BY <1>2, <1>3 DEF Question, BotStep, LookAtMap, LookFactsUp, NoLine, ReadResult, GiveUp,
                      CutOff, BotFalls, TimeGoesOn, queueVars

\* Every step of the bot and of the worker keeps the invariant.
LEMMA RepliesStep ==
    ASSUME RepliesInv, JobAtWork, [RepliesNext]_replyVars
    PROVE  RepliesInv' /\ JobAtWork'
<1>1. CASE \E a \in Questions : Question(a) \/ BotStep(a)
    <2>1. RepliesInv'
        BY <1>1, QuestionKeeps, LookAtMapKeeps, LookFactsUpKeeps, NoLineKeeps, SubmitLineKeeps,
           ReadsKeep, CutOffKeeps DEF BotStep
    <2>2. QED
        BY <1>1, <2>1, BotLeavesJob
<1>2. CASE BotFalls \/ TimeGoesOn
    BY <1>2, BotFallsKeeps, TimeKeeps, BotLeavesJob
<1>3. CASE \/ \E a \in Questions : TakeJob(a)
           \/ OwnerJob \/ WorkerStep \/ WorkerFalls \/ UNCHANGED replyVars
    BY <1>3, WorkerKeeps
<1>4. QED
    BY <1>1, <1>2, <1>3 DEF RepliesNext

\* No job of the public queue is left behind unmarked, facts that were read are told unless the
\* whole answer was cut, and a question with one lookup to do is never cut: the budgets of
\* modules/public_conversation.py and modules/conversation_model.py add up for every length of
\* the timeouts that keeps Wait + Lookup < Outer.
THEOREM RepliesStaySound == RepliesFairSpec => []RepliesAreSound
<1>1. RepliesInit => RepliesInv /\ JobAtWork
    BY DEF RepliesInit, RepliesInv, RepliesTypes, RepliesOrdered, InBudget, QueueIsSwept,
           FactsAreTold, JobAtWork, InQueue
<1>2. RepliesInv /\ JobAtWork /\ [RepliesNext]_replyVars => (RepliesInv /\ JobAtWork)'
    BY RepliesStep
<1>3. RepliesInv => RepliesAreSound
    BY DEF RepliesInv, RepliesAreSound
<1>4. QED
    BY <1>1, <1>2, <1>3, PTL DEF RepliesFairSpec

-------------------------------------------------------------------------------
\* Map alerts.  OneOfEach is not inductive: that a second down DM cannot follow
\* the recovery of the same outage rests on when a recovery may be sent, which
\* OutageShape keeps; and a DM is repeated only when the one before it was denied,
\* so that one is still counted as owed by Slack.

\* A down DM of this outage is sent at its full length, or the map is back; and
\* with the recovery sent too, it is back.
OutageShape ==
    restarts = 0 =>
        /\ downs >= 1 => gap \in {0, Stale}
        /\ (downs >= 1 /\ word # "down") => gap = 0

\* 1 while the last DM said w and was denied: it may be repeated.
Slack(w) == IF ~sure /\ word = w THEN 1 ELSE 0

Denials ==
    restarts = 0 =>
        /\ downs + Slack("down") <= 1 + unsure
        /\ ups + Slack("up") <= downs + carried - Open + unsure
        /\ downs + carried - Open + Slack("down") <= ups + unsure
        /\ ~sure => unsure >= 1 /\ word # "none"
        /\ downSent <=> ((word = "down") <=> sure)

AlertInv == TypeOK /\ Denials /\ RecoveryPending /\ OutageShape

USE MapAlertsAssumption DEF MapAlertsAssumption

LEMMA InitAlert == Init => AlertInv
<1> SUFFICES ASSUME Init PROVE AlertInv
  OBVIOUS
<1>1. Flags
  BY DEF Init, Flags
<1>2. Ranges
  BY DEF Init, Ranges
<1>3. Denials /\ RecoveryPending /\ OutageShape
  BY DEF Init, Denials, Slack, RecoveryPending, OutageShape, Open
<1> QED
  BY <1>1, <1>2, <1>3 DEF AlertInv, TypeOK

LEMMA StarveAlert ==
    ASSUME AlertInv, Starve
    PROVE  AlertInv'
<1>1. Flags'
  BY DEF AlertInv, TypeOK, Flags, Starve
<1>2. Ranges'
  BY DEF AlertInv, TypeOK, Ranges, Starve, Cools, Open
<1>3. Denials'
  <2>1. /\ word' = word /\ sure' = sure /\ downSent' = downSent /\ unsure' = unsure
        /\ restarts' = restarts /\ unsure \in Nat
    BY DEF AlertInv, TypeOK, Ranges, Starve
  <2>2. Slack("down")' = Slack("down") /\ Slack("up")' = Slack("up") /\ Open' = Open
    BY <2>1 DEF Slack, Open
  <2>3. restarts = 0 => Slack("down") <= unsure /\ Slack("up") <= unsure
    BY <2>1 DEF AlertInv, Denials, Slack
  <2>4. Slack("down") \in 0..1 /\ Slack("up") \in 0..1 /\ Open \in 0..1
    BY DEF Slack, Open
  <2>5. CASE gap = 0
    <3>1. downs' = 0 /\ ups' = 0 /\ carried' = Open
      BY <2>5 DEF Starve
    <3> QED
      BY <2>1, <2>2, <2>3, <2>4, <3>1 DEF AlertInv, Denials
  <2>6. CASE gap # 0
    <3>1. downs' = downs /\ ups' = ups /\ carried' = carried
      BY <2>6 DEF Starve
    <3> QED
      BY <2>1, <2>2, <3>1 DEF AlertInv, Denials
  <2> QED
    BY <2>5, <2>6
<1>4. RecoveryPending'
  BY DEF AlertInv, Starve, RecoveryPending
<1>5. OutageShape'
  BY DEF AlertInv, TypeOK, Ranges, Starve, OutageShape
<1> QED
  BY <1>1, <1>2, <1>3, <1>4, <1>5 DEF AlertInv, TypeOK

LEMMA FlowAlert ==
    ASSUME AlertInv, Flow
    PROVE  AlertInv'
<1>1. Flags'
  BY DEF AlertInv, TypeOK, Flags, Flow, owner
<1>2. Ranges'
  BY DEF AlertInv, TypeOK, Ranges, Flow, Cools, owner, bounds
<1>3. Denials' /\ RecoveryPending'
  BY DEF AlertInv, Flow, Denials, Slack, RecoveryPending, Open, owner, bounds
<1>4. OutageShape'
  BY DEF AlertInv, Flow, OutageShape, owner, bounds
<1> QED
  BY <1>1, <1>2, <1>3, <1>4 DEF AlertInv, TypeOK

\* A DM that reaches the owner, whatever the bot was told of it.  It says what he
\* has just heard only if that was denied.
LEMMA LandsAlert ==
    ASSUME AlertInv, NEW w \in {"down", "up"}, Lands(w),
           \/ sure' = TRUE /\ unsure' = unsure
           \/ sure' = FALSE /\ unsure < MaxUnsure /\ unsure' = unsure + 1,
           w = "down" => ~downSent /\ gap = Stale,
           w = "up" => downSent /\ gap # Stale,
           downSent' = ((w = "down") <=> sure'),
           gap' = gap, restarts' = restarts
    PROVE  /\ word' \in {"down", "up"} /\ downs' \in Nat /\ ups' \in Nat
           /\ carried' \in 0..1 /\ refusals' = refusals
           /\ unsure' \in 0..MaxUnsure /\ sure' \in BOOLEAN
           /\ Denials' /\ OutageShape'
<1>1. /\ sure \in BOOLEAN /\ downSent \in BOOLEAN
      /\ downs \in Nat /\ ups \in Nat /\ carried \in 0..1 /\ unsure \in 0..MaxUnsure
  BY DEF AlertInv, TypeOK, Flags, Ranges
<1>2. word' = w /\ carried' = carried /\ refusals' = refusals
  BY DEF Lands
<1> DEFINE Said == /\ ~sure' => unsure' >= 1 /\ word' # "none"
                   /\ downSent' <=> ((word' = "down") <=> sure')
<1>5. /\ Said /\ unsure' \in 0..MaxUnsure /\ sure' \in BOOLEAN
      /\ restarts # 0 => Denials' /\ OutageShape'
  <2>1. sure' \in BOOLEAN /\ (~sure' => unsure' >= 1) /\ unsure' \in 0..MaxUnsure
    <3>1. CASE sure' = TRUE /\ unsure' = unsure
      BY <1>1, <3>1
    <3>2. CASE sure' = FALSE /\ unsure < MaxUnsure /\ unsure' = unsure + 1
      <4>1. unsure' \in 1..MaxUnsure
        BY <1>1, <3>2
      <4>2. unsure' >= 1 /\ unsure' \in 0..MaxUnsure
        BY <1>1, <4>1
      <4>3. sure' \in BOOLEAN
        BY <3>2
      <4> QED
        BY <4>2, <4>3
    <3> QED
      BY <3>1, <3>2
  <2>2. word' # "none"
    BY <1>2
  <2>3. downSent' <=> ((word' = "down") <=> sure')
    BY <1>2
  <2>4. restarts # 0 => Denials' /\ OutageShape'
    BY DEF Denials, OutageShape
  <2> QED
    BY <2>1, <2>2, <2>3, <2>4
<1> HIDE DEF Said
<1>3. CASE w = "down"
  <2>1. downs' = downs + 1 /\ ups' = ups
    BY <1>3 DEF Lands
  <2>2. restarts = 0 => \/ sure /\ word # "down" /\ downs = 0
                        \/ ~sure /\ word = "down"
    BY <1>1, <1>3 DEF AlertInv, Denials, OutageShape
  <2>3. restarts = 0 => OutageShape'
    BY <1>2, <1>3 DEF OutageShape
  <2>4. Open' = 1 /\ Slack("up")' = 0
    BY <1>2, <1>3 DEF Open, Slack
  <2>5. Slack("down")' = unsure' - unsure
    BY <1>1, <1>2, <1>3 DEF Slack
  <2>6. unsure' >= unsure /\ unsure' \in Nat
    BY <1>1
  <2>7. ASSUME restarts = 0, sure, word # "down", downs = 0 PROVE Denials'
    <3>1. Open = 0 /\ Slack("up") = 0 /\ Slack("down") = 0
      BY <2>7 DEF Open, Slack
    <3>2. /\ ups <= downs + carried + unsure
          /\ downs + carried <= ups + unsure
      BY <1>1, <2>7, <3>1 DEF AlertInv, Denials
    <3>3. /\ downs' + Slack("down")' <= 1 + unsure'
          /\ ups' + Slack("up")' <= downs' + carried' - Open' + unsure'
          /\ downs' + carried' - Open' + Slack("down")' <= ups' + unsure'
      BY <1>1, <1>2, <2>1, <2>4, <2>5, <2>6, <2>7, <3>2
    <3> QED
      BY <1>5, <3>3 DEF Denials, Said
  <2>8. ASSUME restarts = 0, ~sure, word = "down" PROVE Denials'
    <3>1. Open = 1 /\ Slack("up") = 0 /\ Slack("down") = 1
      BY <2>8 DEF Open, Slack
    <3>2. /\ downs + 1 <= 1 + unsure
          /\ ups <= downs + carried - 1 + unsure
          /\ downs + carried - 1 + 1 <= ups + unsure
      BY <1>1, <2>8, <3>1 DEF AlertInv, Denials
    <3>3. /\ downs' + Slack("down")' <= 1 + unsure'
          /\ ups' + Slack("up")' <= downs' + carried' - Open' + unsure'
          /\ downs' + carried' - Open' + Slack("down")' <= ups' + unsure'
      BY <1>1, <1>2, <2>1, <2>4, <2>5, <2>6, <3>2
    <3> QED
      BY <1>5, <3>3 DEF Denials, Said
  <2> QED
    <3>1. Denials' /\ OutageShape'
      BY <1>5, <2>2, <2>3, <2>7, <2>8
    <3> QED
      BY <1>1, <1>2, <1>3, <1>5, <2>1, <3>1
<1>4. CASE w = "up"
  <2>1. downs' = downs /\ ups' = ups + 1
    BY <1>4 DEF Lands
  <2>2. restarts = 0 => \/ sure /\ word = "down"
                        \/ ~sure /\ word = "up"
    <3>1. restarts = 0 => (~sure => word \in {"down", "up"})
      BY DEF AlertInv, TypeOK, Ranges, Denials
    <3> QED
      BY <1>1, <1>4, <3>1 DEF AlertInv, Denials
  <2>3. OutageShape'
    BY <1>1, <1>2, <1>4, <2>1 DEF AlertInv, OutageShape
  <2>4. Open' = 0 /\ Slack("down")' = 0
    BY <1>2, <1>4 DEF Open, Slack
  <2>5. Slack("up")' = unsure' - unsure
    BY <1>1, <1>2, <1>4 DEF Slack
  <2>6. unsure' >= unsure /\ unsure' \in Nat
    BY <1>1
  <2>7. ASSUME restarts = 0, sure, word = "down" PROVE Denials'
    <3>1. Open = 1 /\ Slack("up") = 0 /\ Slack("down") = 0
      BY <2>7 DEF Open, Slack
    <3>2. /\ downs <= 1 + unsure
          /\ ups <= downs + carried - 1 + unsure
          /\ downs + carried - 1 <= ups + unsure
      BY <1>1, <2>7, <3>1 DEF AlertInv, Denials
    <3>3. /\ downs' + Slack("down")' <= 1 + unsure'
          /\ ups' + Slack("up")' <= downs' + carried' - Open' + unsure'
          /\ downs' + carried' - Open' + Slack("down")' <= ups' + unsure'
      BY <1>1, <1>2, <2>1, <2>4, <2>5, <2>6, <3>2
    <3> QED
      BY <1>5, <3>3 DEF Denials, Said
  <2>8. ASSUME restarts = 0, ~sure, word = "up" PROVE Denials'
    <3>1. Open = 0 /\ Slack("up") = 1 /\ Slack("down") = 0
      BY <2>8 DEF Open, Slack
    <3>2. /\ downs <= 1 + unsure
          /\ ups + 1 <= downs + carried + unsure
          /\ downs + carried <= ups + unsure
      BY <1>1, <2>8, <3>1 DEF AlertInv, Denials
    <3>3. /\ downs' + Slack("down")' <= 1 + unsure'
          /\ ups' + Slack("up")' <= downs' + carried' - Open' + unsure'
          /\ downs' + carried' - Open' + Slack("down")' <= ups' + unsure'
      BY <1>1, <1>2, <2>1, <2>4, <2>5, <2>6, <3>2
    <3> QED
      BY <1>5, <3>3 DEF Denials, Said
  <2> QED
    <3>1. Denials' /\ OutageShape'
      BY <1>5, <2>2, <2>3, <2>7, <2>8
    <3> QED
      BY <1>1, <1>2, <1>4, <1>5, <2>1, <3>1
<1> QED
  BY <1>3, <1>4

LEMMA AllDownAlert ==
    ASSUME AlertInv, AllDown, ticked' = TRUE
    PROVE  AlertInv'
<1>1. /\ alerted' = TRUE /\ upSent' = FALSE
      /\ gap = Stale /\ gap' = gap /\ gap # 0
      /\ cool' = Cooldown /\ restarts' = restarts /\ outages' = outages
  BY DEF AlertInv, TypeOK, Ranges, AllDown, Stalled
<1>2. dashboard' \in {"up", "down"} /\ failures' \in 0..MaxFailures
  BY DEF AlertInv, TypeOK, Ranges, AllDown, Webhook
<1>3. RecoveryPending'
  BY <1>1 DEF RecoveryPending
<1>4. CASE \/ ~downSent /\ Accepted("down") /\ downSent' = TRUE
           \/ ~downSent /\ Denied("down") /\ downSent' = FALSE
  <2>1. /\ Lands("down") /\ ~downSent
        /\ \/ sure' = TRUE /\ unsure' = unsure
           \/ sure' = FALSE /\ unsure < MaxUnsure /\ unsure' = unsure + 1
        /\ downSent' = (("down" = "down") <=> sure')
    BY <1>4 DEF Accepted, Denied
  <2>2. /\ word' \in {"down", "up"} /\ downs' \in Nat /\ ups' \in Nat
        /\ carried' \in 0..1 /\ refusals' = refusals
        /\ unsure' \in 0..MaxUnsure /\ sure' \in BOOLEAN
        /\ Denials' /\ OutageShape'
    BY <1>1, <2>1, LandsAlert
  <2>3. Flags'
    BY <1>1, <1>4, <2>2 DEF AlertInv, TypeOK, Flags
  <2>4. Ranges'
    BY <1>1, <1>2, <2>2 DEF AlertInv, TypeOK, Ranges
  <2> QED
    BY <1>3, <2>2, <2>3, <2>4 DEF AlertInv, TypeOK
<1>5. CASE (~downSent /\ Refused /\ downSent' = FALSE) \/ (downSent /\ UNCHANGED <<downSent, owner, refusals>>)
  <2>1. /\ word' = word /\ sure' = sure /\ downs' = downs /\ ups' = ups /\ carried' = carried
        /\ unsure' = unsure /\ refusals' \in 0..MaxRefusals
    BY <1>5 DEF AlertInv, TypeOK, Ranges, Refused, owner
  <2>2. downSent' \in BOOLEAN /\ (downSent' <=> downSent)
    BY <1>5 DEF AlertInv, TypeOK, Flags
  <2>3. Flags'
    BY <1>1, <2>1, <2>2 DEF AlertInv, TypeOK, Flags
  <2>4. Ranges'
    BY <1>1, <1>2, <2>1 DEF AlertInv, TypeOK, Ranges
  <2>5. Denials' /\ OutageShape'
    BY <1>1, <2>1, <2>2 DEF AlertInv, Denials, Slack, OutageShape, Open
  <2> QED
    BY <1>3, <2>3, <2>4, <2>5 DEF AlertInv, TypeOK
<1> QED
  BY <1>4, <1>5 DEF AllDown, TellDown

LEMMA RestoredAlert ==
    ASSUME AlertInv, Restored, ticked' = TRUE
    PROVE  AlertInv'
<1>1. /\ gap # Stale /\ gap' = gap /\ cool' = cool
      /\ restarts' = restarts /\ outages' = outages
  BY DEF AlertInv, TypeOK, Ranges, Restored, Stalled
<1>2. dashboard' \in {"up", "down"} /\ failures' \in 0..MaxFailures
  BY DEF AlertInv, TypeOK, Ranges, Restored, Webhook
<1>3. upSent' \in BOOLEAN /\ alerted
  BY DEF AlertInv, TypeOK, Flags, Restored
<1>4. CASE \/ downSent /\ Accepted("up") /\ downSent' = FALSE /\ alerted' = FALSE
           \/ downSent /\ Denied("up") /\ UNCHANGED <<downSent, alerted>>
  <2>1. /\ Lands("up") /\ downSent
        /\ \/ sure' = TRUE /\ unsure' = unsure
           \/ sure' = FALSE /\ unsure < MaxUnsure /\ unsure' = unsure + 1
        /\ word' = "up" /\ alerted' \in BOOLEAN /\ downSent' \in BOOLEAN
    BY <1>3, <1>4 DEF Accepted, Denied, Lands, AlertInv, TypeOK, Flags
  <2>2. downSent' = (("up" = "down") <=> sure')
    BY <1>4 DEF Accepted, Denied, AlertInv, TypeOK, Flags
  <2>3. /\ word' \in {"down", "up"} /\ downs' \in Nat /\ ups' \in Nat
        /\ carried' \in 0..1 /\ refusals' = refusals
        /\ unsure' \in 0..MaxUnsure /\ sure' \in BOOLEAN
        /\ Denials' /\ OutageShape'
    BY <1>1, <2>1, <2>2, LandsAlert
  <2>4. Flags'
    BY <1>3, <2>1, <2>3 DEF AlertInv, TypeOK, Flags
  <2>5. Ranges'
    BY <1>1, <1>2, <2>3 DEF AlertInv, TypeOK, Ranges
  <2>6. RecoveryPending'
    BY <2>1 DEF RecoveryPending
  <2> QED
    BY <2>3, <2>4, <2>5, <2>6 DEF AlertInv, TypeOK
<1>5. CASE downSent /\ Refused /\ UNCHANGED <<downSent, alerted>>
  <2>1. /\ word' = word /\ sure' = sure /\ downs' = downs /\ ups' = ups /\ carried' = carried
        /\ unsure' = unsure /\ refusals' \in 0..MaxRefusals
    BY <1>5 DEF AlertInv, TypeOK, Ranges, Refused, owner
  <2>2. Flags'
    BY <1>3, <1>5, <2>1 DEF AlertInv, TypeOK, Flags
  <2>3. Ranges'
    BY <1>1, <1>2, <2>1 DEF AlertInv, TypeOK, Ranges
  <2>4. Denials' /\ RecoveryPending' /\ OutageShape'
    BY <1>1, <1>5, <2>1 DEF AlertInv, Denials, Slack, RecoveryPending, OutageShape, Open
  <2> QED
    BY <2>2, <2>3, <2>4 DEF AlertInv, TypeOK
<1>6. CASE ~downSent /\ alerted' = FALSE /\ UNCHANGED <<downSent, owner, refusals>>
  <2>1. /\ word' = word /\ sure' = sure /\ downs' = downs /\ ups' = ups /\ carried' = carried
        /\ unsure' = unsure /\ refusals' = refusals
    BY <1>6 DEF owner
  <2>2. Flags'
    BY <1>3, <1>6, <2>1 DEF AlertInv, TypeOK, Flags
  <2>3. Ranges'
    BY <1>1, <1>2, <2>1 DEF AlertInv, TypeOK, Ranges
  <2>4. Denials' /\ OutageShape'
    BY <1>1, <1>6, <2>1 DEF AlertInv, Denials, Slack, OutageShape, Open
  <2>5. RecoveryPending'
    BY <1>1, <1>6, <2>1 DEF AlertInv, TypeOK, Flags, Denials, RecoveryPending
  <2> QED
    BY <2>2, <2>3, <2>4, <2>5 DEF AlertInv, TypeOK
<1> QED
  BY <1>4, <1>5, <1>6 DEF Restored, Forget

LEMMA StepAlert == AlertInv /\ [Next]_vars => AlertInv'
<1> SUFFICES ASSUME AlertInv, [Next]_vars PROVE AlertInv'
  OBVIOUS
<1>1. CASE Starve
  BY <1>1, StarveAlert
<1>2. CASE Flow
  BY <1>2, FlowAlert
<1>3. CASE Tick
  <2>1. CASE AllDown
    BY <1>3, <2>1, AllDownAlert DEF Tick
  <2>2. CASE Restored
    BY <1>3, <2>2, RestoredAlert DEF Tick
  <2>3. CASE Quiet
    BY <1>3, <2>3 DEF Tick, Quiet, memory, owner, bounds, AlertInv, TypeOK, Flags, Ranges,
                      Denials, Slack, RecoveryPending, OutageShape, Open
  <2>4. CASE Unread
    <3>1. Flags'
      BY <1>3, <2>4 DEF Tick, Unread, memory, owner, AlertInv, TypeOK, Flags
    <3>2. Ranges'
      BY <2>4 DEF Unread, memory, owner, AlertInv, TypeOK, Ranges
    <3>3. Denials' /\ RecoveryPending' /\ OutageShape'
      BY <2>4 DEF Unread, memory, owner, AlertInv, Denials, Slack, RecoveryPending, OutageShape, Open
    <3> QED
      BY <3>1, <3>2, <3>3 DEF AlertInv, TypeOK
  <2> QED
    BY <1>3, <2>1, <2>2, <2>3, <2>4 DEF Tick
<1>4. CASE Restart
  <2>1. Flags'
    BY <1>4 DEF Restart, owner, AlertInv, TypeOK, Flags
  <2>2. Ranges' /\ restarts' # 0
    BY <1>4 DEF Restart, owner, AlertInv, TypeOK, Ranges
  <2> QED
    BY <2>1, <2>2 DEF AlertInv, TypeOK, Denials, RecoveryPending, OutageShape
<1>5. CASE UNCHANGED vars
  BY <1>5 DEF vars, memory, owner, bounds, AlertInv, TypeOK, Flags, Ranges, Denials, Slack,
              RecoveryPending, OutageShape, Open
<1> QED
  BY <1>1, <1>2, <1>3, <1>4, <1>5 DEF Next

LEMMA AlwaysAlert == Spec => []AlertInv
BY InitAlert, StepAlert, PTL DEF Spec

\* What the owed repeats leave of the story.
LEMMA AlertMeans == AlertInv => OneOfEach
<1> SUFFICES ASSUME AlertInv, restarts = 0 PROVE OneOfEach
  BY DEF OneOfEach
<1>1. Slack("down") \in Nat /\ Slack("up") \in Nat /\ Open \in Nat
  BY DEF Slack, Open
<1>2. downs \in Nat /\ ups \in Nat /\ carried \in Nat /\ unsure \in Nat
  BY DEF AlertInv, TypeOK, Ranges
<1> QED
  BY <1>1, <1>2 DEF AlertInv, Denials, OneOfEach

\* In one process, an outage has at most one down DM and one recovery DM of its
\* own, and the two kinds alternate, but for one DM more for each that landed though
\* notify_owner returned False (trigger_all_down_action, trigger_map_restored_action).
THEOREM DMsAlternate == Spec => []OneOfEach
BY AlertMeans, AlwaysAlert, PTL

\* In one process, an owner who was told "down", and the bot knows it, has a recovery
\* pending (map_down_alerted).
THEOREM DownIsPending == Spec => []RecoveryPending
<1>1. AlertInv => RecoveryPending
  BY DEF AlertInv
<1> QED
  BY <1>1, AlwaysAlert, PTL

\* The DMs of one process alternate, and a word that is still "down" has a
\* recovery pending: but for what was denied, the flags of the code are the owner's
\* story.
THEOREM DMsAreTruthful == Spec => []TruthfulDMs
<1>1. AlertInv => TruthfulDMs
  BY AlertMeans DEF AlertInv, TruthfulDMs
<1> QED
  BY <1>1, AlwaysAlert, PTL
===============================================================================
