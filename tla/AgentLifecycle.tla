---------------------------- MODULE AgentLifecycle ----------------------------
(***************************************************************************)
(* What the owner is promised about an agent job (modules/agent_jobs.py):  *)
(* a job is queued, run by an executor that runs one job at a time, may    *)
(* stop to ask the owner a question and be queued again by the answer, and *)
(* once it is closed it stays closed; only a failure can be reopened, by   *)
(* an answer.  AgentQueue, which has the files, the snapshots, the crashes *)
(* and the races, is shown to implement it.                                *)
(***************************************************************************)
CONSTANT Jobs           \* the jobs that may ever be submitted

VARIABLE phase          \* phase[j]: where job j stands

Phases == {"unknown", "queued", "running", "waiting", "failed", "closed"}

TypeOK == phase \in [Jobs -> Phases]

Init == phase = [j \in Jobs |-> "unknown"]

Move(j, from, to) ==
    /\ phase[j] \in from
    /\ phase' = [phase EXCEPT ![j] = to]

Submit(j) == Move(j, {"unknown"}, "queued")

\* One at a time: a job starts only while no other one runs.
Start(j) ==
    /\ \A k \in Jobs : phase[k] # "running"
    /\ Move(j, {"queued"}, "running")

Ask(j) == Move(j, {"running"}, "waiting")

Answer(j) == Move(j, {"waiting"}, "queued")

\* Refused, or the run failed.
Fail(j) == Move(j, {"queued", "running", "waiting"}, "failed")

\* The answer to a question crosses with the refusal of the job.
Reopen(j) == Move(j, {"failed"}, "queued")

\* Completed, cancelled or interrupted: for good.
Close(j) == Move(j, {"queued", "running", "waiting"}, "closed")

Next ==
    \E j \in Jobs :
        \/ Submit(j) \/ Start(j) \/ Ask(j) \/ Answer(j)
        \/ Fail(j) \/ Reopen(j) \/ Close(j)

Spec == Init /\ [][Next]_phase
===============================================================================
