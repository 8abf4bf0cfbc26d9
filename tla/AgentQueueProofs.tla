--------------------------- MODULE AgentQueueProofs ---------------------------
(***************************************************************************)
(* What AgentQueue.tla keeps for every number of jobs, questions and       *)
(* faults: its types, one job at a time, and what the notification marks   *)
(* say about the messages that were sent.                                  *)
(***************************************************************************)
EXTENDS AgentQueue, FiniteSetTheorems, TLAPS

USE AgentQueueAssumption DEF AgentQueueAssumption

-------------------------------------------------------------------------------
\* The snapshot of a known job is a view.
LEMMA ViewIsView ==
    ASSUME TypeOK, NEW j \in Known
    PROVE  View(j) \in Views
BY DEF TypeOK, Known, View, ViewState, ViewRev, Views, Queued, Jobs, Revs,
       ResultStates, Terminal

\* Writing a result keeps the type of the results.
LEMMA FinishType ==
    ASSUME TypeOK, NEW j, NEW state \in ResultStates, NEW rev \in Revs,
           Finish(j, state, rev)
    PROVE  result' \in [Jobs -> [state : ResultStates, rev : Revs]]
BY DEF TypeOK, Finish

LEMMA TypeInit == Init => TypeOK
<1> SUFFICES ASSUME Init PROVE TypeOK
    OBVIOUS
<1>1. 0 \in Revs /\ "none" \in ResultStates /\ 0 \in 0..MaxJobs /\ 0 \in 0..MaxFaults
    BY DEF Revs, ResultStates
<1>2. result \in [Jobs -> [state : ResultStates, rev : Revs]]
    BY <1>1 DEF Init
<1>3. sends \in [Jobs -> [Revs -> Nat]] /\ notified \in [Jobs -> SUBSET Revs]
    BY DEF Init
<1>4. QED
    BY <1>1, <1>2, <1>3 DEF Init, TypeOK

-------------------------------------------------------------------------------
\* Types are kept by every step of the bot...
LEMMA TypeBot ==
    ASSUME TypeOK, BotCommand \/ Deliver \/ BotRestart
    PROVE  TypeOK'
<1> USE DEF TypeOK, files, wvars, bvars
<1>1. CASE Submit
    BY <1>1 DEF Submit
<1>2. ASSUME NEW j \in Jobs, ResumeRead(j)
      PROVE  TypeOK'
    <2>1. ViewRev(j) \in 0..MaxRev
        BY DEF ViewRev, Revs
    <2>2. resuming' \in [job : Jobs, rev : Revs]
        BY <1>2, <2>1 DEF ResumeRead, Revs
    <2>3. QED
        BY <1>2, <2>2 DEF ResumeRead
<1>3. ASSUME NEW j \in Jobs, Cancel(j)
      PROVE  TypeOK'
    BY <1>3 DEF Cancel
<1>4. CASE ResumeWrite
    BY <1>4 DEF ResumeWrite
<1>5. CASE DeliverBegin
    <2>1. mail' \subseteq Views
        BY <1>5, ViewIsView DEF DeliverBegin
    <2>2. QED
        BY <1>5, <2>1 DEF DeliverBegin
<1>6. ASSUME NEW m \in mail, SendFails(m)
      PROVE  TypeOK'
    BY <1>6 DEF SendFails
<1>7. ASSUME NEW m \in mail, SendSucceeds(m)
      PROVE  TypeOK'
    <2>1. m.job \in Jobs /\ m.rev \in Revs
        BY DEF Views
    <2>2. sends' \in [Jobs -> [Revs -> Nat]]
        BY <1>7, <2>1 DEF SendSucceeds
    <2>3. QED
        BY <1>7, <2>2 DEF SendSucceeds
<1>8. ASSUME NEW m \in mail, Mark(m)
      PROVE  TypeOK'
    <2>1. m.job \in Jobs /\ m.rev \in Revs
        BY DEF Views
    <2>2. QED
        BY <1>8, <2>1 DEF Mark
<1>9. ASSUME NEW m \in mail, MarkFails(m)
      PROVE  TypeOK'
    BY <1>9 DEF MarkFails
<1>10. CASE BotRestart
    BY <1>10 DEF BotRestart
<1>11. ASSUME NEW m \in mail, AnswerLost(m)
      PROVE  TypeOK'
    <2>1. m.job \in Jobs /\ m.rev \in Revs
        BY DEF Views
    <2>2. sends' \in [Jobs -> [Revs -> Nat]]
        BY <1>11, <2>1 DEF AnswerLost
    <2>3. QED
        BY <1>11, <2>2 DEF AnswerLost
<1>12. QED
    BY <1>1, <1>2, <1>3, <1>4, <1>5, <1>6, <1>7, <1>8, <1>9, <1>10, <1>11
       DEF BotCommand, Deliver

\* ... by every way out of run_job that writes a result...
LEMMA TypeTake ==
    ASSUME TypeOK, TakeJob
    PROVE  TypeOK'
<1>1. PICK b \in batch : \/ RefuseJob(b) \/ CancelJob(b) \/ LeaveWaiting(b)
                         \/ PrepareJob(b) \/ PrepareFails(b)
    BY DEF TakeJob
<1>2. b \in Views /\ b.job \in Jobs /\ b.rev \in Revs
    BY <1>1 DEF TypeOK, Views
<1>3. ASSUME Finish(b.job, "failed", b.rev) \/ Finish(b.job, "cancelled", b.rev),
             RunJobReturns(b), UNCHANGED worktrees
      PROVE  TypeOK'
    <2>1. result' \in [Jobs -> [state : ResultStates, rev : Revs]]
        BY <1>2, <1>3, FinishType DEF ResultStates, Terminal
    <2>2. QED
        BY <1>3, <2>1 DEF TypeOK, RunJobReturns, bvars
<1>4. CASE LeaveWaiting(b)
    BY <1>4 DEF TypeOK, LeaveWaiting, RunJobReturns, bvars
<1>5. CASE PrepareJob(b)
    BY <1>2, <1>5 DEF TypeOK, PrepareJob, bvars
<1>6. QED
    BY <1>1, <1>3, <1>4, <1>5 DEF RefuseJob, CancelJob, PrepareFails

\* ... and by the agent's run.
LEMMA TypeRun ==
    ASSUME TypeOK, RunAgent
    PROVE  TypeOK'
<1>1. cur.rev \in Revs
    BY DEF TypeOK, Views, NoJob, Revs
<1>2. CASE StartAgent
    <2>1. result' \in [Jobs -> [state : ResultStates, rev : Revs]]
        BY <1>1, <1>2, FinishType DEF StartAgent, ResultStates
    <2>2. QED
        BY <1>2, <2>1 DEF TypeOK, StartAgent, Online, bvars
<1>3. ASSUME NEW state \in {"completed", "waiting_input", "failed", "interrupted", "cancelled"},
             AgentOver(state)
      PROVE  TypeOK'
    <2>1. result' \in [Jobs -> [state : ResultStates, rev : Revs]]
        BY <1>1, <1>3, FinishType DEF AgentOver, ResultStates, Terminal
    <2>2. QED
        BY <1>3, <2>1 DEF TypeOK, AgentOver, Online, bvars
<1>4. QED
    BY <1>2, <1>3
       DEF RunAgent, AgentExits, AgentInterrupted, AgentCancelled, AgentTimesOut

LEMMA TypeWorker ==
    ASSUME TypeOK, WorkerStep \/ Sigterm \/ WorkerCrash \/ BeatExpires
    PROVE  TypeOK'
<1> USE DEF TypeOK, files, wvars, bvars
<1>1. ASSUME NEW found \in BOOLEAN, WorkerStart(found)
      PROVE  TypeOK'
    <2>1. result' \in [Jobs -> [state : ResultStates, rev : Revs]]
        BY <1>1 DEF WorkerStart, ResultStates, Terminal
    <2>2. QED
        BY <1>1, <2>1 DEF WorkerStart
<1>2. CASE BeginPass
    <2>1. batch' \subseteq Views
        BY <1>2, ViewIsView DEF BeginPass, Pending
    <2>2. QED
        BY <1>2, <2>1 DEF BeginPass, Online
<1>3. CASE EndPass
    BY <1>3 DEF EndPass
<1>4. CASE WorkerStops
    BY <1>4 DEF WorkerStops
<1>5. CASE Sigterm
    BY <1>5 DEF Sigterm
<1>6. CASE WorkerCrash
    <2>1. faults' \in 0..MaxFaults
        BY <1>6 DEF WorkerCrash
    <2>2. QED
        BY <1>6, <2>1 DEF WorkerCrash, NoJob
<1>7. CASE BeatExpires
    BY <1>7 DEF BeatExpires
<1>8. QED
    BY <1>1, <1>2, <1>3, <1>4, <1>5, <1>6, <1>7, TypeTake, TypeRun DEF WorkerStep

LEMMA TypeStep == TypeOK /\ [Next]_vars => TypeOK'
<1>1. CASE UNCHANGED vars
    BY <1>1 DEF TypeOK, vars, files, wvars, bvars
<1>2. QED
    BY <1>1, TypeBot, TypeWorker DEF Next

\* Every reachable state has the types of TypeOK.
THEOREM TypeCorrect == Spec => []TypeOK
BY TypeInit, TypeStep, PTL DEF Spec

-------------------------------------------------------------------------------
\* OneRunning is inductive together with the types: recover() leaves nothing
\* running, and a live worker starts a second agent only after it closed the
\* first.
LEMMA OneRunningStep == TypeOK /\ OneRunning /\ [Next]_vars => OneRunning'
<1> SUFFICES ASSUME TypeOK, OneRunning, [Next]_vars PROVE OneRunning'
    OBVIOUS
<1> USE DEF OneRunning
<1>1. CASE UNCHANGED <<result, worker, cur>>
    BY <1>1
<1>2. ASSUME NEW found \in BOOLEAN, WorkerStart(found)
      PROVE  OneRunning'
    <2>1. \A j \in Jobs : result'[j].state # "running"
        BY <1>2 DEF WorkerStart, TypeOK
    <2>2. QED
        BY <2>1
<1>3. ASSUME NEW b \in batch, NEW state \in {"failed", "cancelled"},
             worker = "pass", Finish(b.job, state, b.rev), UNCHANGED <<worker, cur>>
      PROVE  OneRunning'
    BY <1>3 DEF Finish, TypeOK
<1>4. CASE TakeJob
    <2>1. PICK b \in batch : \/ RefuseJob(b) \/ CancelJob(b) \/ LeaveWaiting(b)
                             \/ PrepareJob(b) \/ PrepareFails(b)
        BY <1>4 DEF TakeJob
    <2>2. CASE LeaveWaiting(b)
        BY <1>1, <2>2 DEF LeaveWaiting, RunJobReturns
    <2>3. CASE PrepareJob(b)
        BY <2>3 DEF PrepareJob, Takes
    <2>4. QED
        BY <1>3, <2>1, <2>2, <2>3
           DEF RefuseJob, CancelJob, PrepareFails, RunJobReturns, Takes
<1>5. CASE StartAgent
    <2>1. \A j \in Jobs : result[j].state # "running"
        BY <1>5 DEF StartAgent
    <2>2. QED
        BY <1>5, <2>1 DEF StartAgent, Finish, TypeOK
<1>6. ASSUME NEW state \in {"completed", "waiting_input", "failed", "interrupted", "cancelled"},
             AgentOver(state)
      PROVE  OneRunning'
    <2>1. \A j \in Jobs : result'[j].state # "running"
        BY <1>6 DEF AgentOver, Finish, TypeOK
    <2>2. QED
        BY <2>1
<1>7. CASE WorkerCrash
    BY <1>7 DEF WorkerCrash, files
<1>8. CASE BotCommand \/ Deliver \/ BotRestart \/ Sigterm \/ BeatExpires
    BY <1>1, <1>8
       DEF BotCommand, Submit, ResumeRead, ResumeWrite, Cancel, Deliver,
           DeliverBegin, SendFails, SendSucceeds, AnswerLost, Mark, MarkFails, BotRestart,
           Sigterm, BeatExpires, files, wvars
<1>9. CASE UNCHANGED vars
    BY <1>1, <1>9 DEF vars, files, wvars
<1>10. CASE BeginPass \/ EndPass \/ WorkerStops
    BY <1>10 DEF BeginPass, EndPass, WorkerStops, files
<1>11. QED
    BY <1>2, <1>4, <1>5, <1>6, <1>7, <1>8, <1>9, <1>10
       DEF Next, WorkerStep, RunAgent, AgentExits, AgentInterrupted,
           AgentCancelled, AgentTimesOut

\* No two results ever say running, and a live worker holds the one that does:
\* for any number of jobs, questions and crashes.
THEOREM OneAtATime == Spec => []OneRunning
<1>1. Init => OneRunning
    BY DEF Init, OneRunning
<1>2. QED
    BY <1>1, OneRunningStep, TypeInit, TypeStep, PTL DEF Spec

-------------------------------------------------------------------------------
\* What delivery relies on between a message and its mark: a tick holds one
\* entry per job, none of them marked yet, and only the newest can be out.
MailInv ==
    /\ \A m, n \in mail : m.job = n.job => m = n
    /\ \A m \in mail : m.rev \notin notified[m.job]
    /\ mailer = "sent" => \E m \in mail : Newest(m)

\* The revision is marked, or its message is out and the mark comes next.
Told(j, r) ==
    \/ r \in notified[j]
    \/ mailer = "sent" /\ \E m \in mail : Newest(m) /\ m.job = j /\ m.rev = r

\* Each message of a revision but the one its mark stands for cost a fault, and
\* what counts as told was accepted at least once.
SendsInv ==
    \A j \in Jobs, r \in Revs :
        /\ sends[j][r] <= faults + 1
        /\ sends[j][r] > faults => Told(j, r)
        /\ Told(j, r) => sends[j][r] > 0

DeliveryInv == TypeOK /\ MailInv /\ SendsInv

LEMMA MailType ==
    ASSUME TypeOK, NEW m \in mail
    PROVE  m \in Views /\ m.job \in Jobs /\ m.rev \in Revs
BY DEF TypeOK, Views

\* Delivery's own state is all that MailInv and SendsInv read.
LEMMA DeliveryFrame ==
    ASSUME MailInv, SendsInv, UNCHANGED <<mail, mailer, notified, sends, faults>>
    PROVE  MailInv' /\ SendsInv'
BY DEF MailInv, SendsInv, Told, Newest

\* A fault that leaves messages and marks alone only weakens SendsInv.
LEMMA DeliveryFault ==
    ASSUME TypeOK, MailInv, SendsInv, UNCHANGED <<mail, mailer, notified, sends>>,
           faults' = faults + 1
    PROVE  MailInv' /\ SendsInv'
<1>1. MailInv'
    BY DEF MailInv, Newest
<1>2. \A j \in Jobs, r \in Revs : sends[j][r] \in Nat
    BY DEF TypeOK
<1>3. SendsInv'
    BY <1>2 DEF SendsInv, Told, Newest, TypeOK
<1>4. QED
    BY <1>1, <1>3

\* A message that is out and loses its place in the tick: one fault pays for it.
LEMMA DeliveryLoses ==
    ASSUME TypeOK, MailInv, SendsInv, UNCHANGED <<notified, sends>>,
           mail' \subseteq mail, mailer' = "send", faults' = faults + 1
    PROVE  MailInv' /\ SendsInv'
<1>1. MailInv'
    BY DEF MailInv
<1>2. ASSUME NEW j \in Jobs, NEW r \in Revs
      PROVE  /\ sends'[j][r] <= faults' + 1
             /\ sends'[j][r] > faults' => Told(j, r)'
             /\ Told(j, r)' => sends'[j][r] > 0
    <2>1. sends[j][r] \in Nat /\ faults \in Nat
        BY DEF TypeOK
    <2>2. sends[j][r] <= faults + 1 /\ (Told(j, r) => sends[j][r] > 0)
        BY DEF SendsInv
    <2>3. Told(j, r)' => Told(j, r)
        BY DEF Told
    <2>4. QED
        BY <2>1, <2>2, <2>3
<1>3. QED
    BY <1>1, <1>2 DEF SendsInv

LEMMA DeliveryDeliver == DeliveryInv /\ Deliver => MailInv' /\ SendsInv'
<1> SUFFICES ASSUME TypeOK, MailInv, SendsInv, Deliver PROVE MailInv' /\ SendsInv'
    BY DEF DeliveryInv
<1>0. \A j \in Jobs, r \in Revs : sends[j][r] \in Nat
    BY DEF TypeOK
<1>1. CASE DeliverBegin
    <2>1. mailer = "send" /\ mailer' = "send"
        BY <1>1 DEF DeliverBegin, MailInv, TypeOK
    <2>2. UNCHANGED <<notified, sends, faults>>
        BY <1>1 DEF DeliverBegin, files
    <2>3. MailInv'
        BY <1>1, <2>1, <2>2 DEF DeliverBegin, MailInv, View, Deliverable
    <2>4. SendsInv'
        BY <2>1, <2>2 DEF SendsInv, Told
    <2>5. QED
        BY <2>3, <2>4
<1>2. ASSUME NEW m \in mail, SendFails(m)
      PROVE  MailInv' /\ SendsInv'
    <2>1. mailer = "send" /\ mailer' = "send" /\ UNCHANGED <<notified, sends, faults>>
        BY <1>2 DEF SendFails, files
    <2>2. MailInv'
        BY <1>2, <2>1 DEF SendFails, MailInv
    <2>3. SendsInv'
        BY <2>1 DEF SendsInv, Told
    <2>4. QED
        BY <2>2, <2>3
<1>3. ASSUME NEW m \in mail, SendSucceeds(m)
      PROVE  MailInv' /\ SendsInv'
    <2>1. /\ Newest(m) /\ mailer = "send" /\ mailer' = "sent"
          /\ UNCHANGED <<mail, notified, faults>>
        BY <1>3 DEF SendSucceeds, files
    <2>2. MailInv'
        BY <2>1 DEF MailInv, Newest
    <2>3. ASSUME NEW j \in Jobs, NEW r \in Revs
          PROVE  /\ sends'[j][r] <= faults' + 1
                 /\ sends'[j][r] > faults' => Told(j, r)'
                 /\ Told(j, r)' => sends'[j][r] > 0
        <3>1. CASE j = m.job /\ r = m.rev
            <4>1. sends'[j][r] = sends[j][r] + 1
                BY <1>3, <3>1 DEF SendSucceeds, TypeOK
            <4>2. ~Told(j, r)
                BY <2>1, <3>1 DEF Told, MailInv
            <4>3. sends[j][r] \in Nat /\ faults \in Nat /\ sends[j][r] <= faults
                BY <1>0, <4>2 DEF SendsInv, TypeOK
            <4>4. Told(j, r)'
                BY <2>1, <3>1 DEF Told, Newest
            <4>5. QED
                BY <2>1, <4>1, <4>3, <4>4
        <3>2. CASE ~(j = m.job /\ r = m.rev)
            <4>1. sends'[j][r] = sends[j][r]
                BY <1>3, <3>2, MailType DEF SendSucceeds, TypeOK
            <4>2. Told(j, r)' <=> Told(j, r)
                <5>1. \A n \in mail : Newest(n) => n = m
                    BY <2>1, MailType DEF Newest, MailInv, Jobs
                <5>2. ASSUME Told(j, r)' PROVE Told(j, r)
                    BY <2>1, <3>2, <5>1, <5>2 DEF Told, Newest
                <5>3. ASSUME Told(j, r) PROVE Told(j, r)'
                    BY <2>1, <5>3 DEF Told
                <5>4. QED
                    BY <5>2, <5>3
            <4>3. QED
                BY <2>1, <4>1, <4>2 DEF SendsInv
        <3>3. QED
            BY <3>1, <3>2
    <2>4. QED
        BY <2>2, <2>3 DEF SendsInv
<1>4. ASSUME NEW m \in mail, Mark(m)
      PROVE  MailInv' /\ SendsInv'
    <2>1. /\ Newest(m) /\ mailer = "sent" /\ mailer' = "send"
          /\ mail' = mail \ {m} /\ UNCHANGED <<sends, faults>>
          /\ notified' = [notified EXCEPT ![m.job] = @ \union {m.rev}]
        BY <1>4 DEF Mark
    <2>2. \A n \in mail : Newest(n) => n = m
        BY <2>1, MailType DEF Newest, MailInv, Jobs
    <2>3. ASSUME NEW j \in Jobs, NEW r \in Revs
          PROVE  Told(j, r)' <=> Told(j, r)
        BY <2>1, <2>2, MailType DEF Told, TypeOK
    <2>4. MailInv'
        <3>1. \A n \in mail' : n.rev \notin notified'[n.job]
            BY <2>1, MailType DEF MailInv, TypeOK
        <3>2. QED
            BY <2>1, <3>1 DEF MailInv
    <2>5. SendsInv'
        BY <2>1, <2>3 DEF SendsInv
    <2>6. QED
        BY <2>4, <2>5
<1>5. ASSUME NEW m \in mail, MarkFails(m)
      PROVE  MailInv' /\ SendsInv'
    BY <1>5, DeliveryLoses DEF MarkFails, files
<1>6. ASSUME NEW m \in mail, AnswerLost(m)
      PROVE  MailInv' /\ SendsInv'
    <2>1. /\ Newest(m) /\ mailer = "send" /\ mailer' = "send"
          /\ mail' = mail \ {m} /\ faults' = faults + 1 /\ UNCHANGED notified
          /\ sends' = [sends EXCEPT ![m.job][m.rev] = @ + 1]
        BY <1>6 DEF AnswerLost, files
    <2>2. MailInv'
        BY <2>1 DEF MailInv
    <2>3. ASSUME NEW j \in Jobs, NEW r \in Revs
          PROVE  /\ sends'[j][r] <= faults' + 1
                 /\ sends'[j][r] > faults' => Told(j, r)'
                 /\ Told(j, r)' => sends'[j][r] > 0
        <3>1. Told(j, r)' <=> Told(j, r)
            BY <2>1 DEF Told
        <3>2. /\ sends[j][r] \in Nat /\ faults \in Nat
              /\ sends[j][r] <= faults + 1
              /\ sends[j][r] > faults => Told(j, r)
              /\ Told(j, r) => sends[j][r] > 0
            BY <1>0 DEF SendsInv, TypeOK
        <3>3. CASE j = m.job /\ r = m.rev
            <4>1. sends'[j][r] = sends[j][r] + 1
                BY <2>1, <3>3 DEF TypeOK
            <4>2. ~Told(j, r)
                BY <2>1, <3>3 DEF Told, MailInv
            <4>3. QED
                BY <2>1, <3>1, <3>2, <4>1, <4>2
        <3>4. CASE ~(j = m.job /\ r = m.rev)
            <4>1. sends'[j][r] = sends[j][r]
                BY <2>1, <3>4, MailType DEF TypeOK
            <4>2. QED
                BY <2>1, <3>1, <3>2, <4>1
        <3>5. QED
            BY <3>3, <3>4
    <2>4. QED
        BY <2>2, <2>3 DEF SendsInv
<1>7. QED
    BY <1>1, <1>2, <1>3, <1>4, <1>5, <1>6 DEF Deliver

LEMMA DeliveryStep == DeliveryInv /\ [Next]_vars => DeliveryInv'
<1> SUFFICES ASSUME DeliveryInv, [Next]_vars PROVE MailInv' /\ SendsInv'
    BY TypeStep DEF DeliveryInv
<1> USE DEF DeliveryInv
<1>1. CASE Deliver
    BY <1>1, DeliveryDeliver
<1>2. CASE BotRestart
    BY <1>2, DeliveryLoses DEF BotRestart, files
<1>3. CASE Sigterm \/ WorkerCrash
    BY <1>3, DeliveryFault DEF Sigterm, WorkerCrash, files, bvars
<1>4. CASE BotCommand \/ BeatExpires \/ UNCHANGED vars
    BY <1>4, DeliveryFrame
       DEF BotCommand, Submit, ResumeRead, ResumeWrite, Cancel, BeatExpires,
           vars, files, bvars
<1>5. CASE WorkerStep
    <2>1. CASE TakeJob
        BY <2>1, DeliveryFrame
           DEF TakeJob, RefuseJob, CancelJob, LeaveWaiting, PrepareJob,
               PrepareFails, RunJobReturns, bvars
    <2>2. CASE RunAgent
        BY <2>2, DeliveryFrame
           DEF RunAgent, StartAgent, AgentExits, AgentInterrupted,
               AgentCancelled, AgentTimesOut, AgentOver, bvars
    <2>3. QED
        BY <1>5, <2>1, <2>2, DeliveryFrame
           DEF WorkerStep, WorkerStart, BeginPass, EndPass, WorkerStops, files, bvars
<1>6. QED
    BY <1>1, <1>2, <1>3, <1>4, <1>5 DEF Next

LEMMA DeliveryInit == Init => DeliveryInv
<1> SUFFICES ASSUME Init PROVE MailInv /\ SendsInv
    BY TypeInit DEF DeliveryInv
<1>1. MailInv
    BY DEF Init, MailInv
<1>2. SendsInv
    BY DEF Init, SendsInv, Told
<1>3. QED
    BY <1>1, <1>2

LEMMA DeliveryInvariant == Spec => []DeliveryInv
BY DeliveryInit, DeliveryStep, PTL DEF Spec

\* Whatever crashes, nothing is marked as told that Discord did not accept.
THEOREM MarkedWasTold == Spec => []MarkedMeansTold
<1>1. DeliveryInv => MarkedMeansTold
    <2> SUFFICES ASSUME DeliveryInv, NEW j \in Jobs, NEW r \in notified[j]
                 PROVE  sends[j][r] > 0
        BY DEF MarkedMeansTold
    <2>1. r \in Revs
        BY DEF DeliveryInv, TypeOK
    <2>2. QED
        BY <2>1 DEF DeliveryInv, SendsInv, Told
<1>2. QED
    BY <1>1, DeliveryInvariant, PTL

\* A revision is sent at most once more than there were faults: without a crash, a
\* failed mark or a lost answer, exactly-once is what the marks give.
THEOREM RepeatsCostFaults == Spec => []RepeatsNeedFaults
<1>1. DeliveryInv => RepeatsNeedFaults
    <2> SUFFICES ASSUME DeliveryInv, NEW j \in Jobs, NEW r \in Revs
                 PROVE  sends[j][r] <= 1 + faults
        BY DEF RepeatsNeedFaults
    <2>1. sends[j][r] <= faults + 1 /\ sends[j][r] \in Nat /\ faults \in Nat
        BY DEF DeliveryInv, SendsInv, TypeOK
    <2>2. QED
        BY <2>1
<1>2. QED
    BY <1>1, DeliveryInvariant, PTL

\* Both together: the marks stand for what the owner was told of each revision.
THEOREM TellingStaysMarked == Spec => []TellingIsMarked
BY MarkedWasTold, RepeatsCostFaults, PTL DEF TellingIsMarked
-------------------------------------------------------------------------------
\* What ties the files, the worker's snapshots and a half-done answer together.

\* One job's files: an unknown job has none, an answer is at most one revision
\* ahead of the result, and it can only cross with a refusal or a cancellation.
FilesInv ==
    \A j \in Jobs :
        /\ j \notin Known => result[j].state = "none" /\ j \notin cancels
        /\ result[j].state = "none" => result[j].rev = 0 /\ cont[j] = 0
        /\ cont[j] <= result[j].rev + 1
        /\ result[j].state \in {"running", "completed", "interrupted"}
              => cont[j] <= result[j].rev
        /\ result[j].state = "cancelled" => j \in cancels

\* What the worker can rely on of a snapshot it has not taken yet.
StillTrue(b) ==
    /\ b.job \in Known
    /\ \/ b.state = "queued" /\ Queued(b.job) /\ b.rev = ViewRev(b.job)
       \/ b.state = "waiting_input" /\ result[b.job].state = "waiting_input"
             /\ b.rev = result[b.job].rev

BatchInv ==
    /\ \A b \in batch : StillTrue(b) /\ b.job # cur.job
    /\ \A b, o \in batch : b.job = o.job => b = o

CurInv ==
    /\ worker \notin {"prepared", "running"} => cur = NoJob
    /\ worker = "prepared" =>
          /\ cur.job \in Known
          /\ Queued(cur.job)
          /\ cur.rev = ViewRev(cur.job)
          /\ result[cur.job].state \in {"none", "waiting_input", "failed"}
    /\ worker = "running" =>
          /\ cur.job \in Known
          /\ result[cur.job].state = "running"
          /\ result[cur.job].rev = cur.rev

\* A resume() between its read and its write: its question may have been
\* refused or cancelled meanwhile, never answered or run.
ResumeInv ==
    resuming # NoResume =>
        /\ resuming.job \in Known
        /\ resuming.job # cur.job
        /\ resuming.rev = result[resuming.job].rev + 1
        /\ cont[resuming.job] <= result[resuming.job].rev
        /\ result[resuming.job].state \in {"waiting_input", "failed", "cancelled"}

\* The jobs that count against the limit, the one being answered included.
Owed == Pending \union {j \in Known : j = resuming.job}

HeldInv == FilesInv /\ BatchInv /\ CurInv /\ ResumeInv

QueueInv == TypeOK /\ OneRunning /\ HeldInv

\* Everything a step must keep; only a submission adds to the jobs owed.
Kept == FilesInv' /\ BatchInv' /\ CurInv' /\ ResumeInv' /\ Owed' \subseteq Owed

\* The types the steps below read.
LEMMA QueueTypes ==
    ASSUME TypeOK
    PROVE  /\ submitted \in Nat /\ submitted <= MaxJobs /\ Known \subseteq Jobs
           /\ \A j \in Jobs : cont[j] \in Nat /\ result[j].rev \in Nat
           /\ \A b \in batch : b.job \in Jobs /\ b.rev \in Nat
           /\ cur.rev \in Nat
           /\ resuming.job \in Nat /\ resuming.rev \in Nat
           /\ resuming # NoResume => resuming.job \in Jobs
           /\ 0 \notin Known
<1> USE DEF Jobs, Revs
<1>1. /\ submitted \in Nat /\ submitted <= MaxJobs /\ Known \subseteq Jobs
      /\ 0 \notin Known
    BY DEF TypeOK, Known
<1>2. \A j \in Jobs : cont[j] \in Nat /\ result[j].rev \in Nat
    BY DEF TypeOK
<1>3. \A v \in Views : v.job \in Jobs /\ v.rev \in Nat
    BY DEF Views
<1>4. batch \subseteq Views /\ cur \in Views \union {NoJob}
    BY DEF TypeOK
<1>5. cur.rev \in Nat
    BY <1>3, <1>4 DEF NoJob
<1>6. CASE resuming = NoResume
    BY <1>1, <1>2, <1>3, <1>4, <1>5, <1>6 DEF NoResume
<1>7. CASE resuming \in [job : Jobs, rev : Revs]
    BY <1>1, <1>2, <1>3, <1>4, <1>5, <1>7
<1>8. QED
    BY <1>6, <1>7 DEF TypeOK

\* Steps that leave what the invariant reads alone.
LEMMA QueueFrame ==
    ASSUME HeldInv,
           UNCHANGED <<submitted, result, cont, cancels, worker, batch, cur, resuming>>
    PROVE  Kept
BY DEF HeldInv, Kept, FilesInv, BatchInv, CurInv, ResumeInv, StillTrue, Queued,
       ViewRev, ViewState, Owed, Pending, Known

LEMMA ResumeReadKeeps ==
    ASSUME QueueInv, NEW j \in Jobs, ResumeRead(j)
    PROVE  Kept
<1> USE DEF QueueInv, HeldInv
<1>1. /\ resuming' = [job |-> j, rev |-> ViewRev(j) + 1]
      /\ j \in Known /\ ViewState(j) = "waiting_input"
      /\ UNCHANGED <<submitted, result, cont, cancels, worker, batch, cur>>
    BY DEF ResumeRead, files, wvars
<1>2. result[j].state = "waiting_input" /\ cont[j] <= result[j].rev /\ ~Queued(j)
    BY <1>1, QueueTypes DEF ViewState, Queued
<1>3. j # cur.job
    BY <1>1, <1>2, QueueTypes DEF CurInv, NoJob
<1>4. ResumeInv'
    BY <1>1, <1>2, <1>3, QueueTypes DEF ResumeInv, ViewRev, Known
<1>5. FilesInv' /\ BatchInv' /\ CurInv'
    BY <1>1 DEF FilesInv, BatchInv, CurInv, StillTrue, Queued, ViewRev, Known
<1>6. Pending' = Pending /\ j \in Pending
    BY <1>1 DEF Pending, Known, ViewState, Queued, Terminal
<1>7. Owed' \subseteq Owed
    BY <1>1, <1>6 DEF Owed, Known
<1>8. QED
    BY <1>4, <1>5, <1>7 DEF Kept

LEMMA ResumeWriteKeeps ==
    ASSUME QueueInv, ResumeWrite
    PROVE  Kept
<1> USE DEF QueueInv, HeldInv
<1> DEFINE j == resuming.job
<1>1. /\ resuming # NoResume /\ resuming' = NoResume
      /\ cont' = [cont EXCEPT ![j] = resuming.rev]
      /\ UNCHANGED <<submitted, result, cancels, worker, batch, cur>>
    BY DEF ResumeWrite, wvars
<1>2. /\ j \in Known /\ j \in Jobs /\ j # cur.job
      /\ result[j].state \in {"waiting_input", "failed", "cancelled"}
      /\ resuming.rev = result[j].rev + 1 /\ ~Queued(j)
    BY <1>1, QueueTypes DEF ResumeInv, Queued
<1>3. cont' = [cont EXCEPT ![j] = result[j].rev + 1]
    BY <1>1, <1>2
<1>4. cont'[j] = result[j].rev + 1 /\ \A k \in Jobs \ {j} : cont'[k] = cont[k]
    BY <1>2, <1>3 DEF TypeOK
<1>5. FilesInv'
    BY <1>1, <1>2, <1>4, QueueTypes DEF FilesInv, Known
<1>6. BatchInv'
    <2>1. ASSUME NEW b \in batch PROVE StillTrue(b)'
        <3>1. StillTrue(b) /\ b.job \in Jobs
            BY QueueTypes DEF BatchInv
        <3>2. CASE b.job = j
            BY <1>1, <1>2, <3>1, <3>2 DEF StillTrue, Known
        <3>3. CASE b.job # j
            BY <1>1, <1>4, <3>1, <3>3 DEF StillTrue, Known, Queued, ViewRev
        <3>4. QED
            BY <3>2, <3>3
    <2>2. QED
        BY <1>1, <2>1 DEF BatchInv
<1>7. CurInv'
    BY <1>1, <1>2, <1>4, QueueTypes DEF CurInv, Known, Queued, ViewRev
<1>8. ResumeInv'
    BY <1>1 DEF ResumeInv
<1>9. Owed' \subseteq Owed
    BY <1>1, <1>2, <1>4, QueueTypes DEF Owed, Pending, Known, ViewState, Queued, NoResume
<1>10. QED
    BY <1>5, <1>6, <1>7, <1>8, <1>9 DEF Kept

LEMMA CancelKeeps ==
    ASSUME QueueInv, NEW j \in Jobs, Cancel(j)
    PROVE  Kept
<1> USE DEF QueueInv, HeldInv
<1>1. /\ j \in Known /\ cancels' = cancels \union {j}
      /\ UNCHANGED <<submitted, result, cont, worker, batch, cur, resuming>>
    BY DEF Cancel, wvars, bvars
<1>2. FilesInv'
    BY <1>1 DEF FilesInv, Known
<1>3. BatchInv' /\ CurInv' /\ ResumeInv' /\ Owed' = Owed
    BY <1>1 DEF BatchInv, CurInv, ResumeInv, StillTrue, Queued, ViewRev, ViewState,
                Owed, Pending, Known
<1>4. QED
    BY <1>2, <1>3 DEF Kept

LEMMA BotRestartKeeps ==
    ASSUME QueueInv, BotRestart
    PROVE  Kept
<1> USE DEF QueueInv, HeldInv
<1>1. /\ resuming' = NoResume
      /\ UNCHANGED <<submitted, result, cont, cancels, worker, batch, cur>>
    BY DEF BotRestart, files, wvars
<1>2. FilesInv' /\ BatchInv' /\ CurInv' /\ ResumeInv' /\ Pending' = Pending
    BY <1>1 DEF FilesInv, BatchInv, CurInv, ResumeInv, StillTrue, Queued, ViewRev,
                ViewState, Pending, Known
<1>3. Owed' \subseteq Owed
    BY <1>1, <1>2, QueueTypes DEF Owed, NoResume, Known
<1>4. QED
    BY <1>2, <1>3 DEF Kept

LEMMA WorkerStartKeeps ==
    ASSUME QueueInv, NEW found \in BOOLEAN, WorkerStart(found)
    PROVE  Kept
<1> USE DEF QueueInv, HeldInv
<1>1. /\ worker = "down" /\ worker' = "idle" /\ cur = NoJob
      /\ UNCHANGED <<submitted, cont, cancels, batch, cur, resuming>>
    BY DEF WorkerStart, bvars, CurInv
<1>2. \A j \in Jobs :
          /\ result'[j].rev = result[j].rev
          /\ result[j].state = "running" => result'[j].state = "interrupted"
          /\ result[j].state # "running" => result'[j].state = result[j].state
    BY DEF WorkerStart, TypeOK
<1>3. FilesInv'
    BY <1>1, <1>2 DEF FilesInv, Known
<1>4. BatchInv'
    BY <1>1, <1>2, QueueTypes DEF BatchInv, StillTrue, Queued, ViewRev, Known
<1>5. CurInv'
    BY <1>1 DEF CurInv
<1>6. ResumeInv'
    BY <1>1, <1>2, QueueTypes DEF ResumeInv, Known
<1>7. Owed' \subseteq Owed
    BY <1>1, <1>2, QueueTypes DEF Owed, Pending, ViewState, Queued, Known, Terminal
<1>8. QED
    BY <1>3, <1>4, <1>5, <1>6, <1>7 DEF Kept

\* A new pass reads views that hold at that moment: nothing runs.
LEMMA BeginPassKeeps ==
    ASSUME QueueInv, BeginPass
    PROVE  Kept
<1> USE DEF QueueInv, HeldInv
<1>1. /\ worker = "idle" /\ worker' = "pass" /\ cur = NoJob
      /\ batch' = {View(j) : j \in Pending}
      /\ UNCHANGED <<submitted, result, cont, cancels, cur, resuming>>
    BY DEF BeginPass, bvars, CurInv
<1>2. ASSUME NEW j \in Pending
      PROVE  /\ View(j).job = j
             /\ View(j).job # cur.job
             /\ StillTrue(View(j))
    <2>1. j \in Known /\ j \in Jobs /\ ViewState(j) \notin Terminal
        BY QueueTypes DEF Pending
    <2>2. result[j].state # "running"
        BY <1>1, <2>1 DEF OneRunning
    <2>3. result[j].state \in ResultStates
        BY <2>1 DEF TypeOK
    <2>4. j # cur.job
        BY <1>1, <2>1, QueueTypes DEF NoJob
    <2>5. CASE Queued(j)
        BY <2>1, <2>4, <2>5 DEF View, ViewState, StillTrue
    <2>6. CASE ~Queued(j)
        BY <2>1, <2>2, <2>3, <2>4, <2>6, QueueTypes
           DEF View, ViewState, ViewRev, StillTrue, Queued, ResultStates
    <2>7. QED
        BY <2>4, <2>5, <2>6 DEF View
<1>3. BatchInv'
    <2>1. \A b \in batch' : b \in {View(j) : j \in Pending}
        BY <1>1
    <2>2. \A b \in batch' : StillTrue(b) /\ b.job # cur.job
        BY <1>2, <2>1
    <2>3. \A b, o \in batch' : b.job = o.job => b = o
        BY <1>2, <2>1
    <2>4. QED
        BY <1>1, <2>2, <2>3 DEF BatchInv, StillTrue, Queued, ViewRev, Known
<1>4. FilesInv' /\ CurInv' /\ ResumeInv' /\ Owed' = Owed
    BY <1>1 DEF FilesInv, CurInv, ResumeInv, Queued, ViewRev, ViewState, Owed, Pending, Known
<1>5. QED
    BY <1>3, <1>4 DEF Kept

\* run_job refuses or cancels the job it was called with.
LEMMA FinishKeeps ==
    ASSUME QueueInv, NEW b \in batch, worker = "pass",
           NEW state \in {"failed", "cancelled"},
           state = "cancelled" => b.job \in cancels,
           Finish(b.job, state, b.rev), batch' = batch \ {b},
           UNCHANGED <<submitted, cont, cancels, worker, cur, resuming>>
    PROVE  Kept
<1> USE DEF QueueInv, HeldInv
<1> DEFINE j == b.job
<1>1. j \in Known /\ j \in Jobs /\ j # cur.job /\ StillTrue(b) /\ b.rev \in Nat
    BY QueueTypes DEF BatchInv, StillTrue
<1>2. /\ result'[j].state = state /\ result'[j].rev = b.rev
      /\ \A k \in Jobs \ {j} : result'[k] = result[k]
    BY <1>1 DEF Finish, TypeOK
<1>3. cont[j] <= b.rev + 1 /\ cont[j] \in Nat
    BY <1>1, QueueTypes DEF StillTrue, ViewRev, FilesInv
<1>4. FilesInv'
    <2>1. ASSUME NEW k \in Jobs, k # j
          PROVE  /\ k \notin Known' => result'[k].state = "none" /\ k \notin cancels'
                 /\ result'[k].state = "none" => result'[k].rev = 0 /\ cont'[k] = 0
                 /\ cont'[k] <= result'[k].rev + 1
                 /\ result'[k].state \in {"running", "completed", "interrupted"}
                      => cont'[k] <= result'[k].rev
                 /\ result'[k].state = "cancelled" => k \in cancels'
        BY <1>2, <2>1 DEF FilesInv, Known
    <2>2. QED
        BY <1>1, <1>2, <1>3, <2>1 DEF FilesInv, Known
<1>5. BatchInv'
    <2>1. ASSUME NEW o \in batch, o # b PROVE StillTrue(o)' /\ o.job # cur'.job
        <3>1. o.job # j /\ o.job \in Jobs /\ StillTrue(o) /\ o.job # cur.job
            BY <2>1, QueueTypes DEF BatchInv
        <3>2. result'[o.job] = result[o.job]
            BY <1>2, <3>1
        <3>3. QED
            BY <3>1, <3>2 DEF StillTrue, Queued, ViewRev, Known
    <2>2. QED
        BY <2>1 DEF BatchInv
<1>6. CurInv'
    BY DEF CurInv
<1>7. ResumeInv'
    <2>1. CASE resuming.job = j
        <3>1. resuming # NoResume => b.rev = result[j].rev
            BY <1>1, <2>1, QueueTypes DEF StillTrue, ResumeInv, Queued, FilesInv
        <3>2. QED
            BY <1>1, <1>2, <2>1, <3>1 DEF ResumeInv, Known
    <2>2. CASE resuming.job # j
        BY <1>2, <2>2, QueueTypes DEF ResumeInv, Known
    <2>3. QED
        BY <2>1, <2>2
<1>8. j \in Pending
    BY <1>1, QueueTypes DEF StillTrue, Pending, ViewState, Terminal
<1>9. Owed' \subseteq Owed
    BY <1>2, <1>8, QueueTypes DEF Owed, Pending, ViewState, Queued, Known
<1>10. QED
    BY <1>4, <1>5, <1>6, <1>7, <1>9 DEF Kept

LEMMA TakeKeeps ==
    ASSUME QueueInv, TakeJob
    PROVE  Kept
<1> USE DEF QueueInv, HeldInv
<1>1. PICK b \in batch : \/ RefuseJob(b) \/ CancelJob(b) \/ LeaveWaiting(b)
                         \/ PrepareJob(b) \/ PrepareFails(b)
    BY DEF TakeJob
<1>2. worker = "pass" /\ cur = NoJob
    BY <1>1 DEF RefuseJob, CancelJob, LeaveWaiting, PrepareJob, PrepareFails, Takes, CurInv
<1>3. CASE RefuseJob(b) \/ CancelJob(b) \/ PrepareFails(b)
    BY <1>2, <1>3, FinishKeeps
       DEF RefuseJob, CancelJob, PrepareFails, RunJobReturns, bvars
<1>4. ASSUME batch' = batch \ {b}, UNCHANGED <<submitted, result, cont, cancels, resuming>>
      PROVE  /\ FilesInv' /\ Owed' = Owed
             /\ \A o \in batch' : StillTrue(o)' /\ o.job # b.job
             /\ \A o, p \in batch' : o.job = p.job => o = p
    BY <1>4 DEF FilesInv, Owed, BatchInv, StillTrue, Queued, ViewRev, ViewState, Pending, Known
<1>5. CASE LeaveWaiting(b)
    <2>1. /\ batch' = batch \ {b}
          /\ UNCHANGED <<submitted, result, cont, cancels, worker, cur, resuming>>
        BY <1>5 DEF LeaveWaiting, RunJobReturns, bvars
    <2>2. BatchInv' /\ CurInv' /\ ResumeInv'
        BY <1>2, <1>4, <2>1 DEF BatchInv, CurInv, ResumeInv, Known
    <2>3. QED
        BY <1>4, <2>1, <2>2 DEF Kept
<1>6. CASE PrepareJob(b)
    <2>1. /\ batch' = batch \ {b} /\ worker' = "prepared" /\ cur' = b
          /\ b.job \notin cancels /\ b.state # "waiting_input"
          /\ UNCHANGED <<submitted, result, cont, cancels, resuming>>
        BY <1>6 DEF PrepareJob, Runnable, bvars
    <2>2. /\ b.job \in Known /\ b.job \in Jobs
          /\ Queued(b.job) /\ b.rev = ViewRev(b.job)
        BY <2>1, QueueTypes DEF BatchInv, StillTrue
    <2>3. result[b.job].state \in {"none", "waiting_input", "failed"}
        <3>1. result[b.job].state \in ResultStates
            BY <2>2 DEF TypeOK
        <3>2. cont[b.job] \in Nat /\ result[b.job].rev \in Nat
            BY <2>2, QueueTypes
        <3>3. QED
            BY <2>1, <2>2, <3>1, <3>2 DEF FilesInv, Queued, ResultStates, Terminal
    <2>4. CurInv'
        BY <2>1, <2>2, <2>3 DEF CurInv, Queued, ViewRev, Known
    <2>5. BatchInv'
        BY <1>4, <2>1 DEF BatchInv
    <2>6. ResumeInv'
        BY <2>1, <2>2, QueueTypes DEF ResumeInv, Queued, Known
    <2>7. QED
        BY <1>4, <2>1, <2>4, <2>5, <2>6 DEF Kept
<1>7. QED
    BY <1>1, <1>3, <1>5, <1>6

LEMMA StartAgentKeeps ==
    ASSUME QueueInv, StartAgent
    PROVE  Kept
<1> USE DEF QueueInv, HeldInv
<1> DEFINE j == cur.job
<1>1. /\ worker = "prepared" /\ worker' = "running"
      /\ Finish(j, "running", cur.rev)
      /\ UNCHANGED <<submitted, cont, cancels, batch, cur, resuming>>
    BY DEF StartAgent, bvars
<1>2. j \in Known /\ j \in Jobs /\ Queued(j) /\ cur.rev = ViewRev(j)
    BY <1>1, QueueTypes DEF CurInv
<1>3. /\ result'[j].state = "running" /\ result'[j].rev = cur.rev
      /\ \A k \in Jobs \ {j} : result'[k] = result[k]
    BY <1>1, <1>2 DEF Finish, TypeOK
<1>4. cont[j] <= cur.rev /\ cont[j] \in Nat /\ cur.rev \in Nat
    BY <1>2, QueueTypes DEF ViewRev
<1>5. FilesInv'
    BY <1>1, <1>2, <1>3, <1>4 DEF FilesInv, Known
<1>6. BatchInv'
    BY <1>1, <1>3, QueueTypes DEF BatchInv, StillTrue, Queued, ViewRev, Known
<1>7. CurInv'
    BY <1>1, <1>2, <1>3 DEF CurInv, Known
<1>8. ResumeInv'
    BY <1>1, <1>3, QueueTypes DEF ResumeInv, Known
<1>9. Owed' \subseteq Owed
    <2>1. j \in Pending
        BY <1>2 DEF Pending, ViewState, Terminal
    <2>2. QED
        BY <1>1, <1>3, <2>1, QueueTypes DEF Owed, Pending, ViewState, Queued, Known
<1>10. QED
    BY <1>5, <1>6, <1>7, <1>8, <1>9 DEF Kept

LEMMA AgentOverKeeps ==
    ASSUME QueueInv,
           NEW state \in {"completed", "waiting_input", "failed", "interrupted", "cancelled"},
           AgentOver(state), state = "cancelled" => cur.job \in cancels
    PROVE  Kept
<1> USE DEF QueueInv, HeldInv
<1> DEFINE j == cur.job
<1>1. /\ worker = "running" /\ worker' = "pass" /\ cur' = NoJob
      /\ Finish(j, state, cur.rev)
      /\ UNCHANGED <<submitted, cont, cancels, batch, resuming>>
    BY DEF AgentOver, bvars
<1>2. /\ j \in Known /\ j \in Jobs
      /\ result[j].state = "running" /\ result[j].rev = cur.rev
    BY <1>1, QueueTypes DEF CurInv
<1>3. /\ result'[j].state = state /\ result'[j].rev = cur.rev
      /\ \A k \in Jobs \ {j} : result'[k] = result[k]
    BY <1>1, <1>2 DEF Finish, TypeOK
<1>4. cont[j] <= cur.rev /\ cont[j] \in Nat /\ cur.rev \in Nat
    BY <1>2, QueueTypes DEF FilesInv
<1>5. FilesInv'
    BY <1>1, <1>2, <1>3, <1>4 DEF FilesInv, Known
<1>6. BatchInv'
    BY <1>1, <1>3, QueueTypes DEF BatchInv, StillTrue, Queued, ViewRev, Known, NoJob
<1>7. CurInv'
    BY <1>1 DEF CurInv
<1>8. ResumeInv'
    BY <1>1, <1>3, QueueTypes DEF ResumeInv, Known, NoJob
<1>9. Owed' \subseteq Owed
    <2>1. j \in Pending
        BY <1>2, <1>4 DEF Pending, ViewState, Queued, Terminal
    <2>2. QED
        BY <1>1, <1>3, <2>1, QueueTypes DEF Owed, Pending, ViewState, Queued, Known
<1>10. QED
    BY <1>5, <1>6, <1>7, <1>8, <1>9 DEF Kept

\* What the worker held is forgotten; the files stay.
LEMMA WorkerEndKeeps ==
    ASSUME QueueInv, WorkerStops \/ WorkerCrash
    PROVE  Kept
<1> USE DEF QueueInv, HeldInv
<1>1. /\ worker' = "down" /\ batch' = {} /\ cur' = NoJob
      /\ UNCHANGED <<submitted, result, cont, cancels, resuming>>
    BY DEF WorkerStops, WorkerCrash, files, bvars, CurInv
<1>2. FilesInv' /\ BatchInv' /\ CurInv' /\ Owed' = Owed
    BY <1>1 DEF FilesInv, BatchInv, CurInv, Owed, Pending, ViewState, Queued, Known
<1>3. ResumeInv'
    BY <1>1, QueueTypes DEF ResumeInv, Known, NoJob
<1>4. QED
    BY <1>2, <1>3 DEF Kept

LEMMA EndPassKeeps ==
    ASSUME QueueInv, EndPass
    PROVE  Kept
<1> USE DEF QueueInv, HeldInv
<1>1. /\ worker = "pass" /\ worker' = "idle"
      /\ UNCHANGED <<submitted, result, cont, cancels, batch, cur, resuming>>
    BY DEF EndPass, files, bvars
<1>2. QED
    BY <1>1 DEF Kept, FilesInv, BatchInv, CurInv, ResumeInv, StillTrue, Queued,
                ViewRev, ViewState, Owed, Pending, Known

\* A submission adds a job without a result, and no answer is half done.
LEMMA SubmitKeeps ==
    ASSUME QueueInv, Submit
    PROVE  /\ HeldInv'
           /\ Owed = Pending /\ Owed' = Pending \union {submitted + 1}
<1> USE DEF QueueInv, HeldInv
<1>1. /\ resuming = NoResume /\ submitted < MaxJobs
      /\ submitted' = submitted + 1
      /\ UNCHANGED <<result, cont, cancels, worker, batch, cur, resuming>>
    BY DEF Submit, wvars, bvars
<1>2. /\ Known' = Known \union {submitted + 1} /\ submitted + 1 \in Jobs
      /\ submitted + 1 \notin Known
    BY <1>1, QueueTypes DEF Known, Jobs
<1>3. result[submitted + 1].state = "none"
    BY <1>2 DEF FilesInv
<1>4. FilesInv' /\ BatchInv' /\ CurInv' /\ ResumeInv'
    BY <1>1, <1>2 DEF FilesInv, BatchInv, CurInv, ResumeInv, StillTrue, Queued, ViewRev
<1>5. Owed = Pending /\ Owed' = Pending'
    BY <1>1, <1>2, QueueTypes DEF Owed, NoResume, Known
<1>6. Pending' = Pending \union {submitted + 1}
    BY <1>1, <1>2, <1>3 DEF Pending, ViewState, Queued, Terminal
<1>7. QED
    BY <1>4, <1>5, <1>6

LEMMA QueueNext ==
    ASSUME QueueInv, [Next]_vars, ~Submit
    PROVE  Kept
<1> USE DEF QueueInv
<1>1. CASE Deliver
    BY <1>1, QueueFrame
       DEF Deliver, DeliverBegin, SendFails, SendSucceeds, AnswerLost, Mark, MarkFails,
           files, wvars
<1>2. CASE Sigterm \/ BeatExpires \/ UNCHANGED vars
    BY <1>2, QueueFrame DEF Sigterm, BeatExpires, vars, files, wvars, bvars
<1>3. CASE BotCommand
    BY <1>3, ResumeReadKeeps, CancelKeeps, ResumeWriteKeeps DEF BotCommand
<1>4. CASE RunAgent
    BY <1>4, StartAgentKeeps, AgentOverKeeps
       DEF RunAgent, AgentExits, AgentInterrupted, AgentCancelled, AgentTimesOut
<1>5. CASE WorkerStep
    BY <1>4, <1>5, WorkerStartKeeps, BeginPassKeeps, TakeKeeps, EndPassKeeps,
       WorkerEndKeeps DEF WorkerStep
<1>6. QED
    BY <1>1, <1>2, <1>3, <1>5, BotRestartKeeps, WorkerEndKeeps DEF Next

LEMMA QueueStep == QueueInv /\ [Next]_vars => QueueInv'
<1> SUFFICES ASSUME QueueInv, [Next]_vars PROVE HeldInv'
    BY TypeStep, OneRunningStep DEF QueueInv
<1>1. QED
    BY SubmitKeeps, QueueNext DEF Kept, HeldInv

LEMMA QueueInit == Init => QueueInv
<1> SUFFICES ASSUME Init PROVE OneRunning /\ HeldInv
    BY TypeInit DEF QueueInv
<1>1. OneRunning /\ BatchInv /\ CurInv /\ ResumeInv
    BY DEF Init, OneRunning, BatchInv, CurInv, ResumeInv
<1>2. FilesInv
    BY DEF Init, FilesInv
<1>3. QED
    BY <1>1, <1>2 DEF HeldInv

LEMMA QueueInvariant == Spec => []QueueInv
BY QueueInit, QueueStep, PTL DEF Spec

-------------------------------------------------------------------------------
\* The jobs owed are finitely many, and never more than the limit.
WithinLimit == Cardinality(Owed) <= MaxPending

LEMMA OwedFinite ==
    ASSUME TypeOK
    PROVE  /\ IsFiniteSet(Owed) /\ IsFiniteSet(Pending)
           /\ Cardinality(Owed) \in Nat /\ Pending \subseteq Owed
<1>1. Owed \subseteq Known /\ Pending \subseteq Owed /\ IsFiniteSet(Known)
    <2>1. IsFiniteSet(Known)
        BY QueueTypes, FS_Interval DEF Known
    <2>2. QED
        BY <2>1 DEF Owed, Pending
<1>2. QED
    BY <1>1, FS_Subset, FS_CardinalityType

LEMMA LimitStep ==
    ASSUME QueueInv, WithinLimit, [Next]_vars
    PROVE  WithinLimit'
<1> USE DEF QueueInv
<1>1. CASE Submit
    <2>1. Owed = Pending /\ Owed' = Owed \union {submitted + 1}
        BY <1>1, SubmitKeeps
    <2>2. Cardinality(Owed) < MaxPending
        BY <1>1, <2>1 DEF Submit
    <2>3. /\ Cardinality(Owed) \in Nat
          /\ Cardinality(Owed') \in {Cardinality(Owed), Cardinality(Owed) + 1}
        <3>1. IsFiniteSet(Owed) /\ Cardinality(Owed) \in Nat
            BY OwedFinite
        <3>2. QED
            BY <2>1, <3>1, FS_AddElement
    <2>4. QED
        BY <2>2, <2>3 DEF WithinLimit
<1>2. CASE ~Submit
    <2>1. Owed' \subseteq Owed
        BY <1>2, QueueNext DEF Kept
    <2>2. Cardinality(Owed') <= Cardinality(Owed) /\ Cardinality(Owed') \in Nat
        BY <2>1, OwedFinite, FS_Subset, FS_CardinalityType
    <2>3. QED
        BY <2>2, OwedFinite DEF WithinLimit
<1>3. QED
    BY <1>1, <1>2

\* The limit of submit() holds at every moment, and an answer never reopens
\* what completed or was interrupted.
THEOREM LimitAndAnswersHold == Spec => []Admission
<1>1. Init => WithinLimit
    <2> SUFFICES ASSUME Init PROVE WithinLimit
        OBVIOUS
    <2>1. Owed = {}
        BY DEF Init, Owed, Pending, Known
    <2>2. QED
        BY <2>1, FS_EmptySet DEF WithinLimit
<1>2. QueueInv /\ WithinLimit => Admission
    <2> SUFFICES ASSUME QueueInv, WithinLimit PROVE Admission
        OBVIOUS
    <2>1. Cardinality(Pending) <= MaxPending
        <3>1. Cardinality(Pending) <= Cardinality(Owed) /\ Cardinality(Pending) \in Nat
            BY OwedFinite, FS_Subset, FS_CardinalityType DEF QueueInv
        <3>2. QED
            BY <3>1, OwedFinite DEF WithinLimit, QueueInv
    <2>2. ASSUME NEW j \in Jobs
          PROVE  /\ cont[j] <= result[j].rev + 1
                 /\ result[j].state \in Terminal /\ cont[j] > result[j].rev
                       => j \in cancels \/ result[j].state = "failed"
        BY QueueTypes DEF QueueInv, HeldInv, FilesInv, Terminal
    <2>3. QED
        BY <2>1, <2>2 DEF Admission
<1>3. QED
    BY <1>1, <1>2, LimitStep, QueueInvariant, PTL DEF Spec
-------------------------------------------------------------------------------
\* The refinement of AgentLifecycle.
PhaseNow == [j \in Jobs |-> Phase(j)]

\* What Phase makes of a known job's files.
LEMMA PhaseValues ==
    ASSUME NEW j \in Known
    PROVE  /\ Closed(j) => Phase(j) = "closed"
           /\ ~Closed(j) /\ Queued(j) => Phase(j) = "queued"
           /\ ~Closed(j) /\ ~Queued(j) =>
                 /\ result[j].state = "failed" => Phase(j) = "failed"
                 /\ result[j].state = "waiting_input" => Phase(j) = "waiting"
                 /\ result[j].state = "running" => Phase(j) = "running"
BY DEF Phase

\* A job whose files and place at the worker stay is where it was.
LEMMA PhaseSame ==
    ASSUME NEW k, result'[k] = result[k], cont'[k] = cont[k],
           k \in Known' <=> k \in Known,
           k \in cancels' <=> k \in cancels,
           k = cur'.job <=> k = cur.job
    PROVE  Phase(k)' = Phase(k)
BY DEF Phase, Closed, Queued

\* Only a result that says running puts a job in phase running.
LEMMA RunningPhase ==
    ASSUME TypeOK, NEW k \in Jobs, Phase(k) = "running"
    PROVE  result[k].state = "running"
<1>1. result[k].state \in ResultStates
    BY DEF TypeOK
<1>2. QED
    BY <1>1 DEF Phase, Closed, Queued, ResultStates, Terminal

\* The moves of AgentLifecycle, as what becomes of one job.
LEMMA OneMoves ==
    ASSUME NEW j \in Jobs,
           \A k \in Jobs \ {j} : Phase(k)' = Phase(k),
           \/ Phase(j)' = Phase(j)
           \/ Phase(j) \in {"unknown", "waiting", "failed"} /\ Phase(j)' = "queued"
           \/ Phase(j) = "running" /\ Phase(j)' = "waiting"
           \/ /\ Phase(j) \in {"queued", "running", "waiting"}
              /\ Phase(j)' \in {"failed", "closed"}
           \/ /\ Phase(j) = "queued" /\ Phase(j)' = "running"
              /\ \A k \in Jobs : Phase(k) # "running"
    PROVE  [Lifecycle!Next]_PhaseNow
<1>1. PhaseNow' = [PhaseNow EXCEPT ![j] = Phase(j)']
    BY DEF PhaseNow
<1>2. PhaseNow[j] = Phase(j) /\ \A k \in Jobs : PhaseNow[k] = Phase(k)
    BY DEF PhaseNow
<1>3. CASE Phase(j)' = Phase(j)
    BY <1>3 DEF PhaseNow
<1> USE <1>1, <1>2 DEF Lifecycle!Move, Lifecycle!Next, PhaseNow
<1>4. CASE Phase(j) \in {"unknown", "waiting", "failed"} /\ Phase(j)' = "queued"
    BY <1>4 DEF Lifecycle!Submit, Lifecycle!Answer, Lifecycle!Reopen
<1>5. CASE Phase(j) = "running" /\ Phase(j)' = "waiting"
    BY <1>5 DEF Lifecycle!Ask
<1>6. CASE /\ Phase(j) \in {"queued", "running", "waiting"}
           /\ Phase(j)' \in {"failed", "closed"}
    BY <1>6 DEF Lifecycle!Fail, Lifecycle!Close
<1>7. CASE /\ Phase(j) = "queued" /\ Phase(j)' = "running"
           /\ \A k \in Jobs : Phase(k) # "running"
    BY <1>7 DEF Lifecycle!Start
<1>8. QED
    BY <1>3, <1>4, <1>5, <1>6, <1>7

LEMMA NoneMoves ==
    ASSUME UNCHANGED <<submitted, result, cont, cancels, cur>>
    PROVE  [Lifecycle!Next]_PhaseNow
<1>1. \A k \in Jobs : Phase(k)' = Phase(k)
    BY PhaseSame DEF Known
<1>2. QED
    BY <1>1 DEF PhaseNow

LEMMA CommandMoves ==
    ASSUME QueueInv, BotCommand
    PROVE  [Lifecycle!Next]_PhaseNow
<1> USE DEF QueueInv, HeldInv
<1>1. CASE Submit
    <2>0. PICK j \in Jobs : j = submitted + 1
        BY <1>1, QueueTypes DEF Submit, Jobs
    <2>1. /\ submitted' = j /\ j \notin Known
          /\ Known' = Known \union {j}
          /\ UNCHANGED <<result, cont, cancels, cur>>
        BY <1>1, <2>0, QueueTypes DEF Submit, wvars, Known
    <2>2. \A k \in Jobs \ {j} : Phase(k)' = Phase(k)
        BY <2>1, PhaseSame
    <2>3. Phase(j) = "unknown" /\ Phase(j)' = "queued"
        BY <2>1 DEF FilesInv, Phase, Closed, Queued, Terminal
    <2>4. QED
        BY <2>1, <2>2, <2>3, OneMoves
<1>2. ASSUME NEW j \in Jobs, ResumeRead(j)
      PROVE  [Lifecycle!Next]_PhaseNow
    BY <1>2, NoneMoves DEF ResumeRead, files, wvars
<1>3. ASSUME NEW j \in Jobs, Cancel(j)
      PROVE  [Lifecycle!Next]_PhaseNow
    <2>1. /\ j \in Known /\ ViewState(j) \notin Terminal
          /\ cancels' = cancels \union {j}
          /\ UNCHANGED <<submitted, result, cont, cur>>
        BY <1>3 DEF Cancel, wvars
    <2>2. \A k \in Jobs \ {j} : Phase(k)' = Phase(k)
        BY <2>1, PhaseSame DEF Known
    <2>3. Phase(j)' = Phase(j) \/ (Phase(j) = "queued" /\ Phase(j)' = "closed")
        <3>1. CASE Queued(j)
            BY <2>1, <3>1 DEF Phase, Closed, Queued, Known
        <3>2. CASE ~Queued(j)
            BY <2>1, <3>2 DEF Phase, Closed, Queued, Known, ViewState, Terminal
        <3>3. QED
            BY <3>1, <3>2
    <2>4. QED
        BY <2>2, <2>3, OneMoves
<1>4. CASE ResumeWrite
    <2>0. PICK j \in Jobs : j = resuming.job
        BY <1>4, QueueTypes DEF ResumeWrite
    <2>1. /\ j \in Known /\ j # cur.job
          /\ result[j].state \in {"waiting_input", "failed", "cancelled"}
          /\ ~Queued(j)
          /\ UNCHANGED <<submitted, result, cancels, cur>>
        BY <1>4, <2>0, QueueTypes DEF ResumeWrite, ResumeInv, Queued, wvars
    <2>2. \A k \in Jobs \ {j} : cont'[k] = cont[k]
        BY <1>4, <2>0 DEF ResumeWrite, TypeOK
    <2>3. \A k \in Jobs \ {j} : Phase(k)' = Phase(k)
        BY <2>1, <2>2, PhaseSame DEF Known
    <2>4. cont'[j] > result'[j].rev
        BY <1>4, <2>0, <2>1, QueueTypes DEF ResumeWrite, ResumeInv, TypeOK
    <2>5. \/ Phase(j)' = Phase(j)
          \/ Phase(j) \in {"waiting", "failed"} /\ Phase(j)' = "queued"
        <3>1. CASE Closed(j)
            BY <2>1, <3>1 DEF Phase, Closed, Known
        <3>2. CASE ~Closed(j)
            BY <2>1, <2>4, <3>2 DEF Phase, Closed, Queued, Known, Terminal
        <3>3. QED
            BY <3>1, <3>2
    <2>6. QED
        BY <2>1, <2>3, <2>5, OneMoves
<1>5. QED
    BY <1>1, <1>2, <1>3, <1>4 DEF BotCommand

\* recover() closes the one job that was running, if there was one.
LEMMA StartMoves ==
    ASSUME QueueInv, NEW found \in BOOLEAN, WorkerStart(found)
    PROVE  [Lifecycle!Next]_PhaseNow
<1> USE DEF QueueInv, HeldInv
<1>1. UNCHANGED <<submitted, cont, cancels, cur>>
    BY DEF WorkerStart
<1>2. \A k \in Jobs : result[k].state # "running" => result'[k] = result[k]
    BY DEF WorkerStart
<1>3. \A k \in Jobs : result[k].state # "running" => Phase(k)' = Phase(k)
    BY <1>1, <1>2, PhaseSame DEF Known
<1>4. CASE \A k \in Jobs : result[k].state # "running"
    BY <1>3, <1>4 DEF PhaseNow
<1>5. ASSUME NEW j \in Jobs, result[j].state = "running"
      PROVE  [Lifecycle!Next]_PhaseNow
    <2>1. \A k \in Jobs \ {j} : Phase(k)' = Phase(k)
        BY <1>3, <1>5 DEF OneRunning
    <2>2. j \in Known /\ cont[j] <= result[j].rev
        BY <1>5 DEF FilesInv
    <2>3. Phase(j) = "running"
        BY <1>5, <2>2, QueueTypes DEF Phase, Closed, Queued, Terminal
    <2>4. result'[j].state = "interrupted"
        BY <1>5 DEF WorkerStart, TypeOK
    <2>5. Phase(j)' = "closed"
        BY <1>1, <2>2, <2>4 DEF Phase, Closed, Known, Terminal
    <2>6. QED
        BY <2>1, <2>3, <2>5, OneMoves
<1>6. QED
    BY <1>4, <1>5

\* A job that was taken and refused or cancelled.
LEMMA FinishMoves ==
    ASSUME QueueInv, NEW b \in batch, worker = "pass",
           NEW state \in {"failed", "cancelled"},
           Finish(b.job, state, b.rev), UNCHANGED <<submitted, cont, cancels, cur>>
    PROVE  [Lifecycle!Next]_PhaseNow
<1> USE DEF QueueInv, HeldInv
<1> DEFINE j == b.job
<1>1. j \in Known /\ j \in Jobs /\ j # cur.job /\ StillTrue(b)
    BY QueueTypes DEF BatchInv, StillTrue
<1>2. /\ result'[j].state = state /\ result'[j].rev = b.rev
      /\ \A k \in Jobs \ {j} : result'[k] = result[k]
    BY <1>1 DEF Finish, TypeOK
<1>3. \A k \in Jobs \ {j} : Phase(k)' = Phase(k)
    BY <1>2, PhaseSame DEF Known
<1>4. Phase(j)' = IF state = "cancelled" \/ j \in cancels THEN "closed"
                  ELSE IF cont[j] > b.rev THEN "queued" ELSE "failed"
    BY <1>1, <1>2 DEF Phase, Closed, Queued, Known, Terminal
<1>5. Closed(j) => state = "cancelled" \/ j \in cancels
    <2>1. result[j].state \in {"completed", "interrupted"} => FALSE
        BY <1>1, QueueTypes DEF StillTrue, Queued, FilesInv
    <2>2. QED
        BY <1>1, <2>1 DEF Closed, FilesInv, Terminal
<1>6. ~Closed(j) => Phase(j) \in {"queued", "waiting"}
    BY <1>1, PhaseValues DEF StillTrue
<1>7. cont[j] > b.rev /\ ~Closed(j) => Phase(j) = "queued"
    <2>1. cont[j] > b.rev => Queued(j)
        BY <1>1, QueueTypes DEF StillTrue, Queued
    <2>2. QED
        BY <1>1, <2>1, PhaseValues
<1>8. Closed(j) => Phase(j)' = Phase(j)
    BY <1>1, <1>4, <1>5, PhaseValues
<1>9. QED
    BY <1>1, <1>3, <1>4, <1>6, <1>7, <1>8, OneMoves

LEMMA TakeMoves ==
    ASSUME QueueInv, TakeJob
    PROVE  [Lifecycle!Next]_PhaseNow
<1> USE DEF QueueInv, HeldInv
<1>1. PICK b \in batch : \/ RefuseJob(b) \/ CancelJob(b) \/ LeaveWaiting(b)
                         \/ PrepareJob(b) \/ PrepareFails(b)
    BY DEF TakeJob
<1>2. CASE RefuseJob(b) \/ CancelJob(b) \/ PrepareFails(b)
    BY <1>2, FinishMoves
       DEF RefuseJob, CancelJob, PrepareFails, Takes, RunJobReturns
<1>3. CASE LeaveWaiting(b)
    BY <1>3, NoneMoves DEF LeaveWaiting, RunJobReturns
<1>4. CASE PrepareJob(b)
    <2> DEFINE j == b.job
    <2>1. /\ cur = NoJob /\ cur' = b /\ j \notin cancels
          /\ UNCHANGED <<submitted, result, cont, cancels>>
        BY <1>4 DEF PrepareJob, Takes, Runnable, CurInv
    <2>2. j \in Known /\ j \in Jobs /\ j # cur.job
        BY QueueTypes DEF BatchInv, StillTrue
    <2>3. \A k \in Jobs \ {j} : Phase(k)' = Phase(k)
        BY <2>1, PhaseSame, QueueTypes DEF Known, NoJob, Jobs
    <2>4. Phase(j)' = Phase(j)
        BY <2>1, <2>2 DEF Phase, Closed, Queued, Known
    <2>5. QED
        BY <2>2, <2>3, <2>4, OneMoves
<1>5. QED
    BY <1>1, <1>2, <1>3, <1>4

LEMMA AgentMoves ==
    ASSUME QueueInv, RunAgent
    PROVE  [Lifecycle!Next]_PhaseNow
<1> USE DEF QueueInv, HeldInv
<1>0. cur.job \in Jobs
    BY QueueTypes
       DEF RunAgent, StartAgent, AgentExits, AgentInterrupted, AgentCancelled,
           AgentTimesOut, AgentOver, CurInv
<1>j. PICK j \in Jobs : j = cur.job
    BY <1>0
<1>1. CASE StartAgent
    <2>1. /\ worker = "prepared" /\ Finish(j, "running", cur.rev)
          /\ UNCHANGED <<submitted, cont, cancels, cur>>
        BY <1>1, <1>j DEF StartAgent
    <2>2. /\ j \in Known /\ j \in Jobs /\ Queued(j) /\ cur.rev = ViewRev(j)
          /\ result[j].state \in {"none", "waiting_input", "failed"}
        BY <1>j, <2>1, QueueTypes DEF CurInv
    <2>3. /\ result'[j].state = "running" /\ result'[j].rev = cur.rev
          /\ \A k \in Jobs \ {j} : result'[k] = result[k]
        BY <2>1, <2>2 DEF Finish, TypeOK
    <2>4. \A k \in Jobs \ {j} : Phase(k)' = Phase(k)
        BY <2>1, <2>3, PhaseSame DEF Known
    <2>5. Phase(j) = "queued"
        BY <1>j, <2>2 DEF Phase, Closed, Terminal
    <2>6. cont[j] <= cur.rev /\ cont[j] \in Nat /\ cur.rev \in Nat
        BY <2>2, QueueTypes DEF ViewRev
    <2>7. Phase(j)' = "running"
        BY <2>1, <2>2, <2>3, <2>6 DEF Phase, Closed, Queued, Known, Terminal
    <2>8. \A k \in Jobs : Phase(k) # "running"
        BY <2>1, RunningPhase DEF OneRunning
    <2>9. QED
        BY <2>2, <2>4, <2>5, <2>7, <2>8, OneMoves
<1>2. ASSUME NEW state \in {"completed", "waiting_input", "failed", "interrupted", "cancelled"},
             AgentOver(state)
      PROVE  [Lifecycle!Next]_PhaseNow
    <2>1. /\ worker = "running" /\ Finish(j, state, cur.rev) /\ cur' = NoJob
          /\ UNCHANGED <<submitted, cont, cancels>>
        BY <1>2, <1>j DEF AgentOver
    <2>2. /\ j \in Known /\ j \in Jobs
          /\ result[j].state = "running" /\ result[j].rev = cur.rev
        BY <1>j, <2>1, QueueTypes DEF CurInv
    <2>3. /\ result'[j].state = state /\ result'[j].rev = cur.rev
          /\ \A k \in Jobs \ {j} : result'[k] = result[k]
        BY <2>1, <2>2 DEF Finish, TypeOK
    <2>4. \A k \in Jobs \ {j} : Phase(k)' = Phase(k)
        BY <1>j, <2>1, <2>3, PhaseSame DEF Known, NoJob, Jobs
    <2>5. cont[j] <= cur.rev /\ cont[j] \in Nat /\ cur.rev \in Nat
        BY <2>2, QueueTypes DEF FilesInv
    <2>6. Phase(j) = "running"
        BY <2>2, <2>5, PhaseValues DEF Closed, Queued, Terminal
    <2>7. Phase(j)' \in {"waiting", "failed", "closed"}
        BY <2>1, <2>2, <2>3, <2>5 DEF Phase, Closed, Queued, Known, Terminal
    <2>8. QED
        BY <2>2, <2>4, <2>6, <2>7, OneMoves
<1>3. QED
    BY <1>1, <1>2
       DEF RunAgent, AgentExits, AgentInterrupted, AgentCancelled, AgentTimesOut

\* A crash closes for good the failure that was about to be run again after it
\* was cancelled; whatever else the worker held stays where the files say.
LEMMA CrashMoves ==
    ASSUME QueueInv, WorkerCrash
    PROVE  [Lifecycle!Next]_PhaseNow
<1> USE DEF QueueInv, HeldInv
<1>1. cur' = NoJob /\ UNCHANGED <<submitted, result, cont, cancels>>
    BY DEF WorkerCrash, files
<1>2. CASE cur = NoJob
    BY <1>1, <1>2, NoneMoves
<1>3. CASE cur # NoJob
    <2>0. PICK j \in Jobs : j = cur.job
        BY <1>3, QueueTypes DEF CurInv
    <2>1. j \in Known
        BY <1>3, <2>0 DEF CurInv
    <2>2. \A k \in Jobs \ {j} : Phase(k)' = Phase(k)
        BY <1>1, <2>0, PhaseSame DEF Known, NoJob, Jobs
    <2>3. CASE worker = "prepared"
        <3>1. Phase(j) = "queued"
            BY <2>0, <2>1, <2>3, PhaseValues DEF CurInv, Closed, Terminal
        <3>2. Phase(j)' \in {"queued", "closed"}
            BY <1>1, <2>0, <2>1, <2>3 DEF CurInv, Phase, Closed, Queued, Known
        <3>3. QED
            BY <2>1, <2>2, <3>1, <3>2, OneMoves
    <2>4. CASE worker = "running"
        <3>1. result[j].state = "running"
            BY <2>0, <2>4 DEF CurInv
        <3>2. Phase(j)' = Phase(j)
            BY <1>1, <2>1, <3>1 DEF Phase, Closed, Queued, Known, Terminal
        <3>3. QED
            BY <2>1, <2>2, <3>2, OneMoves
    <2>5. QED
        BY <1>3, <2>3, <2>4 DEF CurInv
<1>4. QED
    BY <1>2, <1>3

LEMMA LifecycleStep == QueueInv /\ [Next]_vars => [Lifecycle!Next]_PhaseNow
<1> SUFFICES ASSUME QueueInv, [Next]_vars PROVE [Lifecycle!Next]_PhaseNow
    OBVIOUS
<1>1. CASE Deliver \/ BotRestart \/ Sigterm \/ BeatExpires \/ UNCHANGED vars
    BY <1>1, NoneMoves
       DEF Deliver, DeliverBegin, SendFails, SendSucceeds, AnswerLost, Mark, MarkFails,
           BotRestart, Sigterm, BeatExpires, vars, files, wvars
<1>2. CASE WorkerStep
    BY <1>2, StartMoves, TakeMoves, AgentMoves, NoneMoves
       DEF WorkerStep, BeginPass, EndPass, WorkerStops, files
<1>3. QED
    BY <1>1, <1>2, CommandMoves, CrashMoves DEF Next

\* The queue of files implements the lifecycle: one job runs at a time, and what
\* is closed stays closed, whatever crashes and whoever acts on a stale view.
THEOREM QueueIsLifecycle == Spec => ImplementsLifecycle
<1>1. Init => Lifecycle!Init
    BY DEF Init, Lifecycle!Init, Phase, Known
<1>2. QED
    BY <1>1, QueueInvariant, LifecycleStep, PTL
       DEF Spec, ImplementsLifecycle, Lifecycle!Spec, PhaseNow
===============================================================================
