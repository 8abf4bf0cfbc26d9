------------------------------- MODULE LureJobs -------------------------------
(***************************************************************************)
(* !lure: jobs placed on the PoliSnatch server, followed by the bot        *)
(* (cogs/lures.py, modules/polisnatch_jobs.py, polisnatch_store.py and     *)
(* lure_locks.py).  The server owns a job; the bot keeps a ledger row per  *)
(* job, a poller task that follows the open rows and announces outcomes,   *)
(* and a lock per stop that already has a lure.                            *)
(*                                                                         *)
(* A job bears the number of the command that created it.  An order is a   *)
(* stop with a lure type, what the server takes duplicates by; the lock is *)
(* per key, coordinates to two decimals whatever the type.                 *)
(***************************************************************************)
EXTENDS Integers, FiniteSets

CONSTANTS
    Orders, Keys, KeyOf,   \* the lock key of every order
    MaxCommands,           \* bound: !lure commands
    MaxFaults              \* bound: crashes, failed database writes, lost answers

ASSUME LureJobsAssumption ==
    /\ KeyOf \in [Orders -> Keys]
    /\ MaxCommands \in Nat
    /\ MaxFaults \in Nat

Commands == 1..MaxCommands
Open == {"queued", "claimed"}
Outcomes == {"verified", "unverified", "failed"}   \* done, done, and the rest
Terminal == Outcomes \union {"unknown_job"}
NoOrder == "none"

VARIABLES
    server,       \* the server's state of every job
    \* the database
    row,          \* row[j]: state of j's row of polisnatch_job
    home,         \* home[j]: the command whose message the row holds
    notified,     \* rows with a notified_at
    lock,         \* keys locked in lure_lock
    \* the bot
    cmd,          \* cmd[c]: where a command is, its order and its job
    phase,        \* where JobPoller._run is
    todo,         \* open rows of this tick that are still to be polled
    errors,       \* one of them failed
    delay,        \* the interval the tick chose
    blind,        \* the tick could not read the open rows
    news,         \* rows of this tick that are still to be announced
    wake,         \* the asyncio event
    \* observation
    told,         \* told[j]: outcomes Discord accepted for j
    sends,        \* sends[j]: how often
    kept,         \* keys lock() was called for, within its 30 minutes
    faults

db   == <<row, home, notified, lock>>
loop == <<phase, todo, errors, delay, blind, news>>
obs  == <<told, sends, kept>>
vars == <<server, db, cmd, loop, wake, obs, faults>>

TypeOK ==
    /\ server \in [Commands -> Open \union Outcomes \union {"none", "purged"}]
    /\ row \in [Commands -> Open \union Terminal \union {"none"}]
    /\ home \in [Commands -> 0..MaxCommands]
    /\ notified \subseteq Commands
    /\ lock \subseteq Keys
    /\ cmd \in [Commands -> [pc : {"idle", "asked", "replied", "over"},
                             order : Orders \union {NoOrder},
                             job : 0..MaxCommands]]
    /\ phase \in {"awake", "poll", "announce", "ticked", "sleep"}
    /\ todo \subseteq Commands
    /\ errors \in BOOLEAN
    /\ delay \in {"poll", "error", "idle"}
    /\ blind \in BOOLEAN
    /\ news \subseteq Commands
    /\ wake \in BOOLEAN
    /\ told \in [Commands -> SUBSET Terminal]
    /\ sends \in [Commands -> Nat]
    /\ kept \subseteq Keys
    /\ faults \in 0..MaxFaults

Init ==
    /\ server = [j \in Commands |-> "none"]
    /\ row = [j \in Commands |-> "none"]
    /\ home = [j \in Commands |-> 0]
    /\ notified = {}
    /\ lock = {}
    /\ cmd = [c \in Commands |-> [pc |-> "idle", order |-> NoOrder, job |-> 0]]
    /\ phase = "awake"
    /\ todo = {}
    /\ errors = FALSE
    /\ delay = "idle"
    /\ blind = FALSE
    /\ news = {}
    /\ wake = FALSE
    /\ told = [j \in Commands |-> {}]
    /\ sends = [j \in Commands |-> 0]
    /\ kept = {}
    /\ faults = 0

Key(j) == KeyOf[cmd[j].order]

Fault == faults < MaxFaults /\ faults' = faults + 1

-------------------------------------------------------------------------------
\* The server and the game.

ServerWorks(j) ==
    /\ \/ server[j] = "queued" /\ server' = [server EXCEPT ![j] = "claimed"]
       \/ server[j] \in Open
          /\ \E o \in Outcomes : server' = [server EXCEPT ![j] = o]
    /\ UNCHANGED <<db, cmd, loop, wake, obs, faults>>

\* Finished jobs are forgotten after a while.
ServerPurges(j) ==
    /\ server[j] \in Outcomes
    /\ server' = [server EXCEPT ![j] = "purged"]
    /\ UNCHANGED <<db, cmd, loop, wake, obs, faults>>

\* locked_until is over: 30 minutes after the lock was written.
LockExpires(k) ==
    /\ k \in kept
    /\ kept' = kept \ {k}
    /\ lock' = lock \ {k}
    /\ UNCHANGED <<server, row, home, notified, cmd, loop, wake, told, sends, faults>>

-------------------------------------------------------------------------------
\* The command: a look at the lock, then two calls that wait.

\* lure_locks.status: nothing but a lock leaves a row, so there is no cooldown.
Ask(c, o) ==
    /\ cmd[c].pc = "idle"
    /\ \A b \in 1..(c - 1) : cmd[b].pc # "idle"
    /\ KeyOf[o] \notin lock
    /\ cmd' = [cmd EXCEPT ![c].pc = "asked", ![c].order = o]
    /\ UNCHANGED <<server, db, loop, wake, told, sends, kept, faults>>

\* The server answers with a new job, or with the one in flight for the order.
SameOrder(c) ==
    {j \in Commands : server[j] \in Open /\ cmd[j].order = cmd[c].order}

Accept(c, pc) ==
    IF SameOrder(c) = {}
    THEN /\ server' = [server EXCEPT ![c] = "queued"]
         /\ cmd' = [cmd EXCEPT ![c].pc = pc, ![c].job = c]
    ELSE /\ UNCHANGED server
         /\ \E j \in SameOrder(c) : cmd' = [cmd EXCEPT ![c].pc = pc, ![c].job = j]

Submitted(c) ==
    /\ cmd[c].pc = "asked"
    /\ Accept(c, "replied")
    /\ UNCHANGED <<db, loop, wake, obs, faults>>

\* The answer was lost on the way, or the server refused.
SubmitFails(c) ==
    /\ cmd[c].pc = "asked"
    /\ \/ cmd' = [cmd EXCEPT ![c].pc = "over"] /\ UNCHANGED server
       \/ Accept(c, "over")
    /\ UNCHANGED <<db, loop, wake, obs, faults>>

\* Mutant of Record: the last requester takes the row over.
Record_Replaces(c) ==
    LET j == cmd[c].job
    IN  /\ row' = [row EXCEPT ![j] = "queued"]
        /\ home' = [home EXCEPT ![j] = c]
        /\ notified' = notified \ {j}

\* INSERT ... ON DUPLICATE KEY UPDATE job_id = job_id.
Record(c) ==
    LET j == cmd[c].job
    IN  IF row[j] = "none"
        THEN /\ row' = [row EXCEPT ![j] = "queued"]
             /\ home' = [home EXCEPT ![j] = c]
             /\ UNCHANGED notified
        ELSE UNCHANGED <<row, home, notified>>

\* The answer's message is out; the row and the wake-up follow without a wait.
Recorded(c) ==
    /\ cmd[c].pc = "replied"
    /\ cmd' = [cmd EXCEPT ![c].pc = "over"]
    /\ Record(c)
    /\ wake' = TRUE
    /\ UNCHANGED <<server, lock, loop, obs, faults>>

\* The message could not be sent, or the row could not be written: the job runs
\* on unknown to the ledger.  A duplicate wakes the poller all the same.
RecordFails(c) ==
    /\ cmd[c].pc = "replied"
    /\ Fault
    /\ cmd' = [cmd EXCEPT ![c].pc = "over"]
    /\ wake' \in {wake, wake \/ cmd[c].job # c}
    /\ UNCHANGED <<server, db, loop, obs>>

-------------------------------------------------------------------------------
\* JobPoller._run.

OpenRows == {j \in Commands : row[j] \in Open}
Unnotified == {j \in Commands : row[j] \in Terminal /\ j \notin notified}

\* Mutant of Tick: what is not announced yet is polled again.
Tick_Unnotified ==
    /\ phase = "awake"
    /\ phase' = "poll"
    /\ todo' = OpenRows \union Unnotified
    /\ errors' = FALSE
    /\ blind' = FALSE
    /\ delay' = IF todo' = {} THEN "idle" ELSE "poll"
    /\ UNCHANGED <<server, db, cmd, news, wake, obs, faults>>

Tick ==
    /\ phase = "awake"
    /\ phase' = "poll"
    /\ todo' = OpenRows
    /\ errors' = FALSE
    /\ blind' = FALSE
    /\ delay' = IF OpenRows = {} THEN "idle" ELSE "poll"
    /\ UNCHANGED <<server, db, cmd, news, wake, obs, faults>>

\* open_jobs() raised: the tick ends with no job seen.
TickBlind ==
    /\ phase = "awake"
    /\ Fault
    /\ phase' = "ticked"
    /\ errors' = TRUE
    /\ blind' = TRUE
    /\ delay' = "idle"
    /\ UNCHANGED <<server, db, cmd, todo, news, wake, obs>>

\* Mutant of Reported: a 404 is not turned into an outcome.
Reported_Raw(j) == server[j]

\* The state a GET reports: 404 becomes the outcome unknown_job.
Reported(j) == IF server[j] = "purged" THEN "unknown_job" ELSE server[j]

\* Mutant of Poll: a 404 is an error like the others.
Poll_404(j) ==
    /\ phase = "poll"
    /\ j \in todo
    /\ server[j] # "purged"
    /\ todo' = todo \ {j}
    /\ row' = [row EXCEPT ![j] = Reported(j)]
    /\ UNCHANGED <<server, home, notified, lock, cmd, phase, errors, delay>>
    /\ UNCHANGED <<blind, news, wake, obs, faults>>

Poll(j) ==
    /\ phase = "poll"
    /\ j \in todo
    /\ todo' = todo \ {j}
    /\ row' = [row EXCEPT ![j] = Reported(j)]
    /\ UNCHANGED <<server, home, notified, lock, cmd, phase, errors, delay>>
    /\ UNCHANGED <<blind, news, wake, obs, faults>>

\* Unreachable, refused, a state the bot does not know, or a failed save.
PollFails(j) ==
    /\ phase = "poll"
    /\ j \in todo
    /\ todo' = todo \ {j}
    /\ errors' = TRUE
    /\ UNCHANGED <<server, db, cmd, phase, delay, blind, news, wake, obs, faults>>

\* Every row had its turn: on to what is to be announced, if it can be read.
Polled ==
    /\ phase = "poll"
    /\ todo = {}
    /\ phase' = "announce"
    /\ news' = Unnotified
    /\ UNCHANGED <<server, db, cmd, todo, errors, delay, blind, wake, obs, faults>>

PolledBlind ==
    /\ phase = "poll"
    /\ todo = {}
    /\ Fault
    /\ phase' = "ticked"
    /\ UNCHANGED <<server, db, cmd, todo, errors, delay, blind, news, wake, obs>>

Locks(k) == lock' = lock \union {k} /\ kept' = kept \union {k}
Clears(k) == lock' = lock \ {k} /\ UNCHANGED kept

\* Mutant of Settle: every placed lure locks its stop.
Settle_Unverified(j) ==
    /\ IF row[j] \in {"verified", "unverified"} THEN Locks(Key(j)) ELSE Clears(Key(j))

\* _settle: a verified lure locks its key, anything else clears it.
Settle(j) ==
    /\ IF row[j] = "verified" THEN Locks(Key(j)) ELSE Clears(Key(j))

SettleFails(j) ==
    /\ Fault
    /\ UNCHANGED <<lock, kept>>

Mark(j) == notified' = notified \union {j} /\ UNCHANGED faults

Accepted(j) ==
    /\ told' = [told EXCEPT ![j] = @ \union {row[j]}]
    /\ sends' = [sends EXCEPT ![j] = @ + 1]

\* _deliver edits the command's message or sends a fresh one; when the channel
\* is gone it only logs.  Settle and mark follow without a wait, and may fail.
Announce(j) ==
    /\ phase = "announce"
    /\ j \in news
    /\ news' = news \ {j}
    /\ Accepted(j) \/ UNCHANGED <<told, sends>>
    /\ \/ Settle(j) /\ Mark(j)
       \/ Settle(j) /\ Fault /\ UNCHANGED notified
       \/ SettleFails(j) /\ notified' = notified \union {j}
    /\ UNCHANGED <<server, row, home, cmd, phase, todo, errors, delay, blind, wake>>

\* Nothing of it reached Discord, or the channel could not be looked up: next tick.
AnnounceFails(j) ==
    /\ phase = "announce"
    /\ j \in news
    /\ news' = news \ {j}
    /\ UNCHANGED <<server, db, cmd, phase, todo, errors, delay, blind, wake, obs, faults>>

\* Discord took the message, or the edit, and the call raised: the row stays
\* unannounced and is neither settled nor marked, so the next tick tells it again.
AnswerLost(j) ==
    /\ phase = "announce"
    /\ j \in news
    /\ Fault
    /\ news' = news \ {j}
    /\ Accepted(j)
    /\ UNCHANGED <<server, db, cmd, phase, todo, errors, delay, blind, wake, kept>>

AnnouncedAll ==
    /\ phase = "announce"
    /\ news = {}
    /\ phase' = "ticked"
    /\ UNCHANGED <<server, db, cmd, todo, errors, delay, blind, news, wake, obs, faults>>

Delay == IF delay = "poll" /\ errors THEN "error" ELSE delay

\* Mutant of Sleep: the event is cleared before the wait.
Sleep_ClearsFirst ==
    /\ phase = "ticked"
    /\ wake' = FALSE
    /\ delay' = Delay
    /\ errors' = FALSE
    /\ phase' = "sleep"
    /\ UNCHANGED <<server, db, cmd, todo, blind, news, obs, faults>>

\* _sleep returns at once when the event was set during the tick.
Sleep ==
    /\ phase = "ticked"
    /\ wake' = FALSE
    /\ delay' = Delay
    /\ errors' = FALSE
    /\ phase' = IF wake THEN "awake" ELSE "sleep"
    /\ UNCHANGED <<server, db, cmd, todo, blind, news, obs, faults>>

\* The event, or the end of the interval.
Awake ==
    /\ phase = "sleep"
    /\ phase' = "awake"
    /\ wake' = FALSE
    /\ delay' = "idle"
    /\ blind' = FALSE
    /\ UNCHANGED <<server, db, cmd, todo, errors, news, obs, faults>>

\* The process dies: commands in flight are lost, the poller starts afresh.
Dies ==
    /\ Fault
    /\ cmd' = [c \in Commands |->
                 IF cmd[c].pc \in {"asked", "replied"}
                 THEN [cmd[c] EXCEPT !.pc = "over"] ELSE cmd[c]]
    /\ phase' = "awake"
    /\ todo' = {}
    /\ errors' = FALSE
    /\ delay' = "idle"
    /\ blind' = FALSE
    /\ news' = {}
    /\ wake' = FALSE
    /\ UNCHANGED <<server, db, kept>>

BotRestart == Dies /\ UNCHANGED <<told, sends>>

\* ... right after Discord accepted an outcome, before it is settled.
DiesAnnouncing(j) ==
    /\ phase = "announce"
    /\ j \in news
    /\ Accepted(j)
    /\ Dies

-------------------------------------------------------------------------------
Environment ==
    \/ \E j \in Commands : ServerWorks(j) \/ ServerPurges(j)
    \/ \E k \in Keys : LockExpires(k)

Lure ==
    \E c \in Commands :
        \/ \E o \in Orders : Ask(c, o)
        \/ Submitted(c) \/ SubmitFails(c) \/ Recorded(c) \/ RecordFails(c)

Poller ==
    \/ Tick \/ TickBlind \/ Polled \/ PolledBlind \/ AnnouncedAll \/ Sleep \/ Awake
    \/ \E j \in Commands :
          \/ Poll(j) \/ PollFails(j)
          \/ Announce(j) \/ AnnounceFails(j) \/ AnswerLost(j)

Next ==
    \/ Environment \/ Lure \/ Poller
    \/ BotRestart \/ \E j \in Commands : DiesAnnouncing(j)

Spec == Init /\ [][Next]_vars

\* The poller task never stops and its calls are bounded by timeouts; the server
\* finishes its jobs, answers some poll of each, and Discord accepts some edit.
Fairness ==
    /\ WF_vars(Poller)
    /\ \A j \in Commands :
          /\ WF_vars(server[j] \in Open /\ ServerWorks(j))
          /\ SF_vars(Poll(j))
          /\ SF_vars(Announce(j))

FairSpec == Spec /\ Fairness

-------------------------------------------------------------------------------
\* Properties.

\* Every announcement of one job tells the same outcome: a repeat after a crash,
\* a duplicate's record or a purge on the server never changes the story; and an
\* outcome is told again only after a crash, a failed write or an answer of Discord
\* that was lost.
OneStory ==
    \A j \in Commands : Cardinality(told[j]) <= 1 /\ sends[j] <= 1 + faults

\* A stop is locked only for a lure the server verified for that stop, not for a
\* failed job of the same key, an expired lock, or a job the server lost.
LockedWasVerified ==
    \A k \in lock : k \in kept /\ \E j \in Commands : row[j] = "verified" /\ Key(j) = k

\* The poller never settles for its idle interval on a job recorded meanwhile:
\* asleep for 30 seconds with the event unset, nothing is open.
IdleMeansNothingOpen ==
    phase = "sleep" /\ delay = "idle" /\ ~wake /\ ~blind => OpenRows = {}

\* Announcements, locks and the poller's sleep agree with the jobs.
JobsAreTold == OneStory /\ LockedWasVerified /\ IdleMeansNothingOpen

\* Every recorded job is followed to an outcome and the outcome is settled,
\* across restarts, purged jobs and failed calls: again and again none is left.
NothingOpen == \A j \in Commands : row[j] # "none" => j \in notified
FollowedToTheEnd == []<>NothingOpen

\* What lure_locks says of a lock: it lasts for the lure's lifetime.
LockLasts == kept \subseteq lock

===============================================================================
