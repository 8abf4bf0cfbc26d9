------------------------------ MODULE AgentQueue ------------------------------
(***************************************************************************)
(* The owner's agent jobs: a directory of files shared by the Discord bot  *)
(* (modules/agent_jobs.py, cogs/agents.py) and a worker process on the     *)
(* host (scripts/agent_worker.py).  The two never lock against each other: *)
(* the bot writes requests, continuations, cancel marks and notification   *)
(* marks, the worker writes results, and each decides from what it last    *)
(* read of the other's files.                                              *)
(*                                                                         *)
(* Jobs are numbered in the order of their "created" stamps, and a job's   *)
(* prompt, provider and destination are left out.  Either process may die  *)
(* between any two file writes; what is on disk survives.                  *)
(***************************************************************************)
EXTENDS Integers, FiniteSets

CONSTANTS
    MaxJobs,      \* bound: how many jobs are ever submitted
    MaxRev,       \* bound: how many questions one job may ask
    MaxPending,   \* the limit of AgentJobs.submit (5 in the code)
    MaxFaults     \* bound: crashes, stops, failed marker writes and lost answers

ASSUME AgentQueueAssumption ==
    /\ MaxJobs \in Nat
    /\ MaxRev \in Nat
    /\ MaxPending \in Nat
    /\ MaxFaults \in Nat

Jobs == 1..MaxJobs
Revs == 0..MaxRev

Terminal == {"completed", "failed", "cancelled", "interrupted"}
ResultStates == Terminal \union {"none", "running", "waiting_input"}

VARIABLES
    \* files
    submitted,    \* 1..submitted are the jobs that have a request.json
    result,       \* result[j]: state and revision of result.json
    cont,         \* cont[j]: revision of continuation.json, 0 without one
    cancels,      \* jobs that have a cancel mark
    notified,     \* notified[j]: revisions that have a notification mark
    worktrees,    \* jobs that have a branch and a worktree
    beat,         \* worker.json as the bot judges it
    \* the worker process
    worker,       \* where the worker is
    able,         \* the worker found the provider's binary when it started
    stopping,     \* STOPPING: a SIGTERM was received
    batch,        \* what is left of the snapshot of this pass
    cur,          \* the snapshot of the job being run
    \* the bot process
    resuming,     \* a resume() between its read and its write
    mail,         \* what is left of the snapshot of deliver_results
    mailer,       \* where deliver_results is with the newest of mail
    \* observation
    sends,        \* sends[j][r]: messages Discord accepted for revision r
    faults        \* faults so far

files  == <<submitted, result, cont, cancels, notified, worktrees, beat>>
wvars  == <<worker, able, stopping, batch, cur>>
bvars  == <<resuming, mail, mailer, sends>>
vars   == <<files, wvars, bvars, faults>>

NoJob == [job |-> 0, state |-> "none", rev |-> 0]
NoResume == [job |-> 0, rev |-> 0]

-------------------------------------------------------------------------------
\* What AgentJobs.get makes of a job's files.

Queued(j) == cont[j] > result[j].rev \/ result[j].state = "none"

ViewState(j) == IF Queued(j) THEN "queued" ELSE result[j].state
ViewRev(j) == IF cont[j] > result[j].rev THEN cont[j] ELSE result[j].rev

View(j) == [job |-> j, state |-> ViewState(j), rev |-> ViewRev(j)]

Known == 1..submitted
Pending == {j \in Known : ViewState(j) \notin Terminal}

Views == [job : Jobs, state : ResultStates \union {"queued"}, rev : Revs]

TypeOK ==
    /\ submitted \in 0..MaxJobs
    /\ result \in [Jobs -> [state : ResultStates, rev : Revs]]
    /\ cont \in [Jobs -> Revs]
    /\ cancels \subseteq Jobs
    /\ notified \in [Jobs -> SUBSET Revs]
    /\ worktrees \subseteq Jobs
    /\ beat \in {"absent", "ready", "unable", "stale"}
    /\ worker \in {"down", "idle", "pass", "prepared", "running"}
    /\ able \in BOOLEAN
    /\ stopping \in BOOLEAN
    /\ batch \subseteq Views
    /\ cur \in Views \union {NoJob}
    /\ resuming \in [job : Jobs, rev : Revs] \union {NoResume}
    /\ mail \subseteq Views
    /\ mailer \in {"send", "sent"}
    /\ sends \in [Jobs -> [Revs -> Nat]]
    /\ faults \in 0..MaxFaults

Init ==
    /\ submitted = 0
    /\ result = [j \in Jobs |-> [state |-> "none", rev |-> 0]]
    /\ cont = [j \in Jobs |-> 0]
    /\ cancels = {}
    /\ notified = [j \in Jobs |-> {}]
    /\ worktrees = {}
    /\ beat = "absent"
    /\ worker = "down"
    /\ able = FALSE
    /\ stopping = FALSE
    /\ batch = {}
    /\ cur = NoJob
    /\ resuming = NoResume
    /\ mail = {}
    /\ mailer = "send"
    /\ sends = [j \in Jobs |-> [r \in Revs |-> 0]]
    /\ faults = 0

-------------------------------------------------------------------------------
\* The bot's commands.  The event loop runs one at a time, so none starts
\* between the read and the write of a resume.

\* Mutant of Submit: a job that waits for an answer does not count.
Submit_Waiting ==
    /\ resuming = NoResume
    /\ submitted < MaxJobs
    /\ beat = "ready"
    /\ Cardinality({j \in Pending : ViewState(j) # "waiting_input"}) < MaxPending
    /\ submitted' = submitted + 1
    /\ UNCHANGED <<result, cont, cancels, notified, worktrees, beat>>
    /\ UNCHANGED <<wvars, bvars, faults>>

\* AgentJobs.submit: an online worker with the provider, under the limit.
Submit ==
    /\ resuming = NoResume
    /\ submitted < MaxJobs
    /\ beat = "ready"
    /\ Cardinality(Pending) < MaxPending
    /\ submitted' = submitted + 1
    /\ UNCHANGED <<result, cont, cancels, notified, worktrees, beat>>
    /\ UNCHANGED <<wvars, bvars, faults>>

\* AgentJobs.resume reads the job's files...
ResumeRead(j) ==
    /\ resuming = NoResume
    /\ j \in Known
    /\ ViewState(j) = "waiting_input"
    /\ ViewRev(j) < MaxRev
    /\ resuming' = [job |-> j, rev |-> ViewRev(j) + 1]
    /\ UNCHANGED <<files, wvars, mail, mailer, sends, faults>>

\* ... and writes continuation.json from what it read.
ResumeWrite ==
    /\ resuming # NoResume
    /\ cont' = [cont EXCEPT ![resuming.job] = resuming.rev]
    /\ resuming' = NoResume
    /\ UNCHANGED <<submitted, result, cancels, notified, worktrees, beat>>
    /\ UNCHANGED <<wvars, mail, mailer, sends, faults>>

Cancel(j) ==
    /\ resuming = NoResume
    /\ j \in Known \ cancels
    /\ ViewState(j) \notin Terminal
    /\ cancels' = cancels \union {j}
    /\ UNCHANGED <<submitted, result, cont, notified, worktrees, beat>>
    /\ UNCHANGED <<wvars, bvars, faults>>

-------------------------------------------------------------------------------
\* deliver_results: a snapshot, then one message and one mark per job.  The
\* snapshot is the state at the start of the tick; each send awaits Discord.

\* Mutant of Deliverable: questions are not told.
Deliverable_NoQuestions(j) ==
    ViewState(j) \in Terminal /\ ViewRev(j) \notin notified[j]

Deliverable(j) ==
    /\ ViewState(j) \in Terminal \union {"waiting_input"}
    /\ ViewRev(j) \notin notified[j]

DeliverBegin ==
    /\ resuming = NoResume
    /\ mail = {}
    /\ mail' = {View(j) : j \in {k \in Known : Deliverable(k)}}
    /\ mail' # {}
    /\ UNCHANGED <<files, wvars, resuming, mailer, sends, faults>>

Newest(m) == m \in mail /\ \A o \in mail : o.job <= m.job

\* The destination could not be fetched or Discord refused: next tick.
SendFails(m) ==
    /\ resuming = NoResume
    /\ mailer = "send"
    /\ Newest(m)
    /\ mail' = mail \ {m}
    /\ UNCHANGED <<files, wvars, resuming, mailer, sends, faults>>

SendSucceeds(m) ==
    /\ resuming = NoResume
    /\ mailer = "send"
    /\ Newest(m)
    /\ sends' = [sends EXCEPT ![m.job][m.rev] = @ + 1]
    /\ mailer' = "sent"
    /\ UNCHANGED <<files, wvars, resuming, mail, faults>>

\* Discord posted the message and the call raised: its answer was lost, and the
\* next tick sends it again.
AnswerLost(m) ==
    /\ resuming = NoResume
    /\ mailer = "send"
    /\ Newest(m)
    /\ faults < MaxFaults
    /\ sends' = [sends EXCEPT ![m.job][m.rev] = @ + 1]
    /\ mail' = mail \ {m}
    /\ faults' = faults + 1
    /\ UNCHANGED <<files, wvars, resuming, mailer>>

\* Mutant of Mark: the revision of now is marked, not the one that was told.
Mark_Now(m) ==
    /\ resuming = NoResume
    /\ mailer = "sent"
    /\ Newest(m)
    /\ notified' = [notified EXCEPT ![m.job] = @ \union {ViewRev(m.job)}]
    /\ mail' = mail \ {m}
    /\ mailer' = "send"
    /\ UNCHANGED <<submitted, result, cont, cancels, worktrees, beat>>
    /\ UNCHANGED <<wvars, resuming, sends, faults>>

Mark(m) ==
    /\ resuming = NoResume
    /\ mailer = "sent"
    /\ Newest(m)
    /\ notified' = [notified EXCEPT ![m.job] = @ \union {m.rev}]
    /\ mail' = mail \ {m}
    /\ mailer' = "send"
    /\ UNCHANGED <<submitted, result, cont, cancels, worktrees, beat>>
    /\ UNCHANGED <<wvars, resuming, sends, faults>>

\* touch() raised OSError: the message is out and the mark is not.
MarkFails(m) ==
    /\ resuming = NoResume
    /\ mailer = "sent"
    /\ Newest(m)
    /\ faults < MaxFaults
    /\ mail' = mail \ {m}
    /\ mailer' = "send"
    /\ faults' = faults + 1
    /\ UNCHANGED <<files, wvars, resuming, sends>>

\* The bot restarts: what it held in memory is gone.
BotRestart ==
    /\ faults < MaxFaults
    /\ resuming # NoResume \/ mail # {}
    /\ resuming' = NoResume
    /\ mail' = {}
    /\ mailer' = "send"
    /\ faults' = faults + 1
    /\ UNCHANGED <<files, wvars, sends>>

-------------------------------------------------------------------------------
\* The worker.  Only the holder of worker.lock runs, and only it writes
\* results; every finish() also refreshes the heartbeat.

Online == IF able THEN "ready" ELSE "unable"

Finish(j, state, rev) == result' = [result EXCEPT ![j] = [state |-> state, rev |-> rev]]

\* Mutants of WorkerStart: no recover(); a result that forgets the revision it had
\* reached.
WorkerStart_NoRecover(found) ==
    /\ worker = "down"
    /\ worker' = "idle"
    /\ able' = found
    /\ stopping' = FALSE
    /\ UNCHANGED <<files, batch, cur, bvars, faults>>

WorkerStart_Revision0(found) ==
    /\ worker = "down"
    /\ worker' = "idle"
    /\ able' = found
    /\ stopping' = FALSE
    /\ result' = [j \in Jobs |-> IF result[j].state = "running"
                                 THEN [state |-> "interrupted", rev |-> 0]
                                 ELSE result[j]]
    /\ UNCHANGED <<submitted, cont, cancels, notified, worktrees, beat>>
    /\ UNCHANGED <<batch, cur, bvars, faults>>

\* The lock is taken, the binaries are looked up and recover() closes what a
\* dead worker left running, keeping the revision it had reached.
WorkerStart(found) ==
    /\ worker = "down"
    /\ worker' = "idle"
    /\ able' = found
    /\ stopping' = FALSE
    /\ result' = [j \in Jobs |-> IF result[j].state = "running"
                                 THEN [result[j] EXCEPT !.state = "interrupted"]
                                 ELSE result[j]]
    /\ UNCHANGED <<submitted, cont, cancels, notified, worktrees, beat>>
    /\ UNCHANGED <<batch, cur, bvars, faults>>

\* Mutant of BeginPass: only jobs without a result are taken.
BeginPass_OnlyNew ==
    /\ worker = "idle"
    /\ ~stopping
    /\ worker' = "pass"
    /\ beat' = Online
    /\ batch' = {View(j) : j \in {k \in Pending : result[k].state = "none"}}
    /\ UNCHANGED <<submitted, result, cont, cancels, notified, worktrees>>
    /\ UNCHANGED <<able, stopping, cur, bvars, faults>>

\* One round of run(): heartbeat, then the jobs that are not terminal.
BeginPass ==
    /\ worker = "idle"
    /\ ~stopping
    /\ worker' = "pass"
    /\ beat' = Online
    /\ batch' = {View(j) : j \in Pending}
    /\ UNCHANGED <<submitted, result, cont, cancels, notified, worktrees>>
    /\ UNCHANGED <<able, stopping, cur, bvars, faults>>

EndPass ==
    /\ worker = "pass"
    /\ batch = {}
    /\ worker' = "idle"
    /\ UNCHANGED <<files, able, stopping, batch, cur, bvars, faults>>

Oldest(b) == b \in batch /\ \A o \in batch : b.job <= o.job

\* run_job is called with the snapshot b, whatever the files say by now.
Takes(b) ==
    /\ worker = "pass"
    /\ ~stopping
    /\ Oldest(b)

\* run_job returns at once, with a result or without one.
RunJobReturns(b) ==
    /\ batch' = batch \ {b}
    /\ UNCHANGED <<submitted, cont, cancels, notified, beat>>
    /\ UNCHANGED <<worker, able, stopping, cur, bvars, faults>>

\* The provider's binary is gone since the request was accepted.
RefuseJob(b) ==
    /\ Takes(b)
    /\ ~able
    /\ Finish(b.job, "failed", b.rev)
    /\ RunJobReturns(b)
    /\ UNCHANGED worktrees

\* Mutant of CancelJob: a job that waits for its owner is not cancelled.
CancelJob_NotWaiting(b) ==
    /\ Takes(b)
    /\ able
    /\ b.job \in cancels
    /\ b.state # "waiting_input"
    /\ Finish(b.job, "cancelled", b.rev)
    /\ RunJobReturns(b)
    /\ UNCHANGED worktrees

CancelJob(b) ==
    /\ Takes(b)
    /\ able
    /\ b.job \in cancels
    /\ Finish(b.job, "cancelled", b.rev)
    /\ RunJobReturns(b)
    /\ UNCHANGED worktrees

LeaveWaiting(b) ==
    /\ Takes(b)
    /\ able
    /\ b.job \notin cancels
    /\ b.state = "waiting_input"
    /\ RunJobReturns(b)
    /\ UNCHANGED <<result, worktrees>>

\* Mutant of Runnable: a job that waits for its owner is run again.
Runnable_Waiting(b) == able /\ b.job \notin cancels

Runnable(b) == able /\ b.job \notin cancels /\ b.state # "waiting_input"

\* A first run creates its branch and worktree, a resumed one reuses them.
PrepareJob(b) ==
    /\ Takes(b)
    /\ Runnable(b)
    /\ (b.rev = 0) <=> (b.job \notin worktrees)
    /\ worktrees' = worktrees \union {b.job}
    /\ worker' = "prepared"
    /\ cur' = b
    /\ batch' = batch \ {b}
    /\ UNCHANGED <<submitted, result, cont, cancels, notified, beat>>
    /\ UNCHANGED <<able, stopping, bvars, faults>>

\* git refused (a branch left by a dead worker is enough), or the worktree of
\* a resumed job is gone.
PrepareFails(b) ==
    /\ Takes(b)
    /\ Runnable(b)
    /\ b.rev = 0 \/ b.job \notin worktrees
    /\ Finish(b.job, "failed", b.rev)
    /\ RunJobReturns(b)
    /\ UNCHANGED worktrees

\* result.json says running, and the agent's process is started.
StartAgent ==
    /\ worker = "prepared"
    /\ worker' = "running"
    /\ beat' = Online
    /\ Finish(cur.job, "running", cur.rev)
    /\ UNCHANGED <<submitted, cont, cancels, notified, worktrees>>
    /\ UNCHANGED <<able, stopping, batch, cur, bvars, faults>>

\* The way out of run_job once the agent's process is over.
AgentOver(state) ==
    /\ worker = "running"
    /\ worker' = "pass"
    /\ cur' = NoJob
    /\ beat' = Online
    /\ Finish(cur.job, state, cur.rev)
    /\ UNCHANGED <<submitted, cont, cancels, notified, worktrees>>
    /\ UNCHANGED <<able, stopping, batch, bvars, faults>>

\* The process exits by itself, cancelled meanwhile or not...
AgentExits == \E state \in {"completed", "waiting_input", "failed"} : AgentOver(state)

\* ... or the poll loop ends it: STOPPING first, then a cancel mark, then the
\* deadline.
AgentInterrupted == stopping /\ AgentOver("interrupted")
AgentCancelled == ~stopping /\ cur.job \in cancels /\ AgentOver("cancelled")
AgentTimesOut == ~stopping /\ cur.job \notin cancels /\ AgentOver("failed")

\* SIGTERM only sets STOPPING; a job being prepared is still started.
Sigterm ==
    /\ worker # "down"
    /\ ~stopping
    /\ faults < MaxFaults
    /\ stopping' = TRUE
    /\ faults' = faults + 1
    /\ UNCHANGED <<files, worker, able, batch, cur, bvars>>

WorkerStops ==
    /\ stopping
    /\ worker \in {"idle", "pass"}
    /\ worker' = "down"
    /\ stopping' = FALSE
    /\ batch' = {}
    /\ beat' = "absent"
    /\ UNCHANGED <<submitted, result, cont, cancels, notified, worktrees>>
    /\ UNCHANGED <<able, cur, bvars, faults>>

\* Killed, or the host went down: worker.json stays as it was.
WorkerCrash ==
    /\ worker # "down"
    /\ faults < MaxFaults
    /\ faults' = faults + 1
    /\ worker' = "down"
    /\ stopping' = FALSE
    /\ batch' = {}
    /\ cur' = NoJob
    /\ UNCHANGED <<files, able, bvars>>

\* 30 seconds without a heartbeat: nobody writes one, or git is slow.
BeatExpires ==
    /\ beat \in {"ready", "unable"}
    /\ worker \in {"down", "prepared"}
    /\ beat' = "stale"
    /\ UNCHANGED <<submitted, result, cont, cancels, notified, worktrees>>
    /\ UNCHANGED <<wvars, bvars, faults>>

-------------------------------------------------------------------------------
BotCommand ==
    \/ Submit
    \/ \E j \in Jobs : ResumeRead(j) \/ Cancel(j)
    \/ ResumeWrite

Deliver ==
    \/ DeliverBegin
    \/ \E m \in mail : \/ SendFails(m) \/ SendSucceeds(m) \/ AnswerLost(m)
                      \/ Mark(m) \/ MarkFails(m)

TakeJob ==
    \E b \in batch :
        \/ RefuseJob(b) \/ CancelJob(b) \/ LeaveWaiting(b)
        \/ PrepareJob(b) \/ PrepareFails(b)

RunAgent == StartAgent \/ AgentExits \/ AgentInterrupted \/ AgentCancelled \/ AgentTimesOut

WorkerStep ==
    \/ \E found \in BOOLEAN : WorkerStart(found)
    \/ BeginPass \/ TakeJob \/ EndPass \/ RunAgent \/ WorkerStops

Next ==
    \/ BotCommand \/ Deliver \/ BotRestart
    \/ WorkerStep \/ Sigterm \/ WorkerCrash \/ BeatExpires

Spec == Init /\ [][Next]_vars

\* The worker is kept running and its loop never blocks for good (every agent
\* has a deadline); deliver_results ticks, and Discord does not refuse one
\* message for ever.  Nothing makes the owner submit, answer or cancel.
Fairness ==
    /\ WF_vars(WorkerStep)
    /\ WF_vars(ResumeWrite)
    /\ WF_vars(DeliverBegin)
    /\ \A j \in Jobs : SF_vars(\E m \in mail : m.job = j /\ SendSucceeds(m))
    /\ WF_vars(\E m \in mail : SendSucceeds(m) \/ SendFails(m) \/ Mark(m))

FairSpec == Spec /\ Fairness

-------------------------------------------------------------------------------
\* Properties.

\* run() works through the queue one job at a time: no two results say
\* running, whatever crashed, and a live worker's only running job is the one
\* it holds.
OneRunning ==
    /\ \A i, j \in Jobs :
          result[i].state = "running" /\ result[j].state = "running" => i = j
    /\ \A j \in Jobs :
          result[j].state = "running" /\ worker # "down"
              => worker = "running" /\ cur.job = j

\* A job is closed for good by its outcome.  A failure is closed for good only
\* once the job is cancelled too: a job refused for a missing binary can cross
\* with its owner's answer, and is then taken again when the binary is back.
Closed(j) ==
    /\ result[j].state \in Terminal
    /\ result[j].state = "failed" => j \in cancels /\ cur.job # j

\* What the bot lets in.  The limit of submit() holds at every moment, although
\* answers reopen jobs.  An answer belongs to the question it was given to: a
\* continuation is at most one revision ahead of its result, and one that
\* crosses with the end of its job finds the job cancelled or failed, never
\* completed or interrupted.
Admission ==
    /\ Cardinality(Pending) <= MaxPending
    /\ \A j \in Jobs :
          /\ cont[j] <= result[j].rev + 1
          /\ result[j].state \in Terminal /\ cont[j] > result[j].rev
                => j \in cancels \/ result[j].state = "failed"

\* A notification mark means the message of that revision really was accepted
\* by Discord: no outcome is marked as told and lost.
MarkedMeansTold ==
    \A j \in Jobs : \A r \in notified[j] : sends[j][r] > 0

\* A revision is told more than once only when a crash, a failed mark or a lost
\* answer of Discord came between a message and its mark.
RepeatsNeedFaults ==
    \A j \in Jobs, r \in Revs : sends[j][r] <= 1 + faults

\* The owner is told of each revision, not of another one in its place, and again
\* only at the price of a fault, whatever happens to the job while it is told.
TellingIsMarked == MarkedMeansTold /\ RepeatsNeedFaults

\* A cancel mark ends the job, whatever the worker and the owner do next.  A mark
\* is never taken away: that the job is over again and again is that it ends.
CancelEnds ==
    \A j \in Jobs : []<>(j \in cancels => result[j].state \in Terminal /\ ~Queued(j))

\* A job that was accepted is finished or asks its owner something, and again after
\* each of his answers, though another job is before it in the queue.
AcceptedIsAnswered ==
    \A j \in Jobs :
        []<>(j \in Known => ViewState(j) \in Terminal \union {"waiting_input"})

\* The owner hears of every question and every outcome, unless he answered
\* before he was told: no job stays at a revision he does not know.
EveryRevisionTold ==
    \A j \in Jobs :
        []<>(ViewState(j) \in Terminal \union {"waiting_input"}
                => ViewRev(j) \in notified[j])

\* What the owner waits for, each as long as it takes.
OwnerIsServed == CancelEnds /\ AcceptedIsAnswered /\ EveryRevisionTold

\* The promise of AgentLifecycle, read off the files.
Phase(j) ==
    IF j \notin Known THEN "unknown"
    ELSE IF Closed(j) THEN "closed"
    ELSE IF Queued(j) THEN "queued"
    ELSE IF result[j].state = "failed" THEN "failed"
    ELSE IF result[j].state = "waiting_input" THEN "waiting"
    ELSE "running"

Lifecycle == INSTANCE AgentLifecycle WITH phase <- [j \in Jobs |-> Phase(j)]

\* Files, snapshots, crashes and races implement the one-at-a-time lifecycle; so
\* what is closed never runs again: not by a stale snapshot of the worker, a late
\* answer of the owner, a cancellation that raced the answer, or recover().
ImplementsLifecycle == Lifecycle!Spec
===============================================================================
