--------------------------- MODULE PublicReplies ---------------------------
(***************************************************************************)
(* Questions members put to the bot by tagging it (cogs/mentions.py and    *)
(* modules/public_conversation.py). An answer is made of what the bot      *)
(* looked up itself, the facts, and of a line a model wrote. The line is   *)
(* asked of the host's worker through files (modules/conversation_model.py *)
(* and run_public_job of scripts/agent_worker.py), which also works for    *)
(* the owner; the bot gives up on it, and the caller on the whole answer.  *)
(*                                                                         *)
(* Times are in coarse units that keep the order of the code's sums.       *)
(* Which questions are refused (cooldowns, private topics) and what the    *)
(* texts say is left out.                                                  *)
(***************************************************************************)
EXTENDS Naturals, FiniteSets

CONSTANTS
    Questions,       \* what is asked, each of them once
    Slots,           \* asyncio.Semaphore(2)
    Lookup,          \* the timeout of a lookup, 5 seconds
    Wait,            \* of the line, 35 seconds, in the bot and in the worker
    RunTime,         \* of the model's process, 30 seconds
    Outer,           \* of the whole answer, 42 seconds
    Hold,            \* retry_after, 60 seconds
    MaxFalls         \* bound: of the bot and the worker together

NoAsk == "none"

ASSUME RepliesAssumption ==
    /\ IsFiniteSet(Questions)
    /\ {Slots, Lookup, Wait, RunTime, Outer, Hold, MaxFalls} \subseteq Nat
    /\ Lookup > 0 /\ RunTime > 0 /\ Wait >= RunTime /\ Wait + Lookup < Outer
    /\ Lookup <= Wait + 1
    /\ NoAsk \notin Questions

VARIABLES
    stage,      \* where each answer is
    about,      \* what is asked: the map, or the calendar or the statistics
    facts,      \* the facts were read
    reply,      \* what the reply is made of
    elapsed,    \* since the question
    spent,      \* in this stage; of a job, since it was submitted
    hold,       \* what is left of retry_after
    lineJob,    \* the job of each question in the public queue
    cancel,     \* its cancel mark
    worker,     \* what the worker does
    writing,    \* the question whose job it runs
    runFor,     \* for how long
    busySign,   \* worker.json names an active job
    falls

askVars    == <<stage, about, facts, reply, elapsed>>
queueVars  == <<lineJob, cancel>>
workerVars == <<worker, writing, runFor, busySign>>
replyVars  == <<askVars, spent, hold, queueVars, workerVars, falls>>

TERMINAL == {"completed", "failed", "cancelled", "interrupted"}
Awaited == {"map", "facts", "model", "poll"}
InQueue(a) == lineJob[a] \in {"queued", "running"}
Polling == {a \in Questions : stage[a] = "poll"}

RepliesTypeOK ==
    /\ stage \in [Questions -> Awaited \union {"unasked", "done", "gone"}]
    /\ about \in [Questions -> {"map", "facts"}] /\ facts \in [Questions -> BOOLEAN]
    /\ reply \in [Questions -> SUBSET {"line", "facts", "sorry", "cut"}]
    /\ elapsed \in [Questions -> 0..Outer]
    /\ spent \in [Questions -> 0..Wait + 1] /\ hold \in 0..Hold
    /\ lineJob \in [Questions -> TERMINAL \union {"none", "queued", "running"}]
    /\ cancel \in [Questions -> BOOLEAN]
    /\ worker \in {"down", "idle", "public", "owner"}
    /\ writing \in Questions \union {NoAsk}
    /\ runFor \in 0..RunTime /\ busySign \in BOOLEAN /\ falls \in 0..MaxFalls

RepliesInit ==
    /\ stage = [a \in Questions |-> "unasked"] /\ about = [a \in Questions |-> "map"]
    /\ facts = [a \in Questions |-> FALSE] /\ reply = [a \in Questions |-> {}]
    /\ elapsed = [a \in Questions |-> 0] /\ spent = [a \in Questions |-> 0] /\ hold = 0
    /\ lineJob = [a \in Questions |-> "none"] /\ cancel = [a \in Questions |-> FALSE]
    /\ worker = "idle" /\ writing = NoAsk /\ runFor = 0 /\ busySign = FALSE /\ falls = 0

-----------------------------------------------------------------------------
\* The bot.

\* Mentions.handle: whatever goes wrong, there is one reply.
Reply(a, parts) ==
    /\ stage' = [stage EXCEPT ![a] = "done"]
    /\ reply' = [reply EXCEPT ![a] = parts]
    /\ elapsed' = [elapsed EXCEPT ![a] = 0]
    /\ spent' = [spent EXCEPT ![a] = IF InQueue(a) THEN @ ELSE 0]

\* The end of PublicConversation.reply: a line the screening refuses is dropped,
\* and so is one that denies the facts at hand.
Compose(a, line) ==
    LET parts == {part \in {"line", "facts"} :
                    IF part = "line" THEN line = "good" ELSE facts[a]}
    IN  IF parts = {} THEN {"sorry"} ELSE parts

Question(a) ==
    /\ stage[a] = "unasked"
    /\ stage' = [stage EXCEPT ![a] = "map"]
    /\ \E topic \in {"map", "facts"} : about' = [about EXCEPT ![a] = topic]
    /\ UNCHANGED <<facts, reply, elapsed, spent, hold, queueVars, workerVars, falls>>

\* The snapshot of the map is asked for whatever the question is; then the events
\* or the statistics. A lookup answers, fails or is cut at its timeout.
LookAtMap(a) ==
    /\ stage[a] = "map"
    /\ stage' = [stage EXCEPT ![a] = IF about[a] = "facts" THEN "facts" ELSE "model"]
    /\ spent' = [spent EXCEPT ![a] = 0]
    /\ UNCHANGED <<about, facts, reply, elapsed, hold, queueVars, workerVars, falls>>

LookFactsUp(a) ==
    /\ stage[a] = "facts"
    /\ stage' = [stage EXCEPT ![a] = "model"]
    /\ \E found \in BOOLEAN :
          /\ found => spent[a] < Lookup
          /\ facts' = [facts EXCEPT ![a] = found]
    /\ spent' = [spent EXCEPT ![a] = 0]
    /\ UNCHANGED <<about, reply, elapsed, hold, queueVars, workerVars, falls>>

\* ConversationModel.line up to its first await: no line when both slots are
\* taken, after a failure, or while the worker says it is at work; a worker that
\* has not been heard of is a failure.
Silent == Cardinality(Polling) >= Slots \/ hold > 0

NoLine(a) ==
    /\ stage[a] = "model"
    /\ \/ Silent /\ UNCHANGED hold
       \/ ~Silent /\ busySign /\ UNCHANGED hold
       \/ ~Silent /\ ~busySign /\ worker = "down" /\ hold' = Hold
    /\ Reply(a, Compose(a, "none"))
    /\ UNCHANGED <<about, facts, queueVars, workerVars, falls>>

SubmitLine(a) ==
    /\ stage[a] = "model" /\ ~Silent /\ ~busySign
    /\ stage' = [stage EXCEPT ![a] = "poll"]
    /\ lineJob' = [lineJob EXCEPT ![a] = "queued"]
    /\ UNCHANGED <<about, facts, reply, elapsed, spent, hold, cancel>>
    /\ UNCHANGED <<workerVars, falls>>

\* The finally of line: a job that has not ended is marked.
LeaveJob(a) == cancel' = [cancel EXCEPT ![a] = @ \/ lineJob[a] \notin TERMINAL]

ReadResult(a) ==
    /\ stage[a] = "poll" /\ lineJob[a] \in TERMINAL
    /\ \/ lineJob[a] = "completed" /\ UNCHANGED hold
          /\ \E line \in {"good", "refused"} : Reply(a, Compose(a, line))
       \/ lineJob[a] # "completed" /\ hold' = Hold /\ Reply(a, Compose(a, "none"))
    /\ LeaveJob(a)
    /\ UNCHANGED <<about, facts, lineJob, workerVars, falls>>

GiveUp(a) ==
    /\ stage[a] = "poll" /\ lineJob[a] \notin TERMINAL /\ spent[a] = Wait
    /\ hold' = Hold
    /\ Reply(a, Compose(a, "none"))
    /\ LeaveJob(a)
    /\ UNCHANGED <<about, facts, lineJob, workerVars, falls>>

\* Mutant of CutOff: the job is left in the queue as it is.
CutOffUnmarked(a) ==
    /\ stage[a] \in Awaited /\ elapsed[a] = Outer
    /\ Reply(a, {"cut"})
    /\ UNCHANGED <<about, facts, hold, queueVars, workerVars, falls>>

\* The timeout around the whole answer. It cancels whatever is under way: the facts
\* go with it, what is told is an apology (here "cut"), and the failure is not one
\* that holds the model back.
CutOff(a) ==
    /\ stage[a] \in Awaited /\ elapsed[a] = Outer
    /\ Reply(a, {"cut"})
    /\ IF stage[a] = "poll" THEN LeaveJob(a) ELSE UNCHANGED cancel
    /\ UNCHANGED <<about, facts, hold, lineJob, workerVars, falls>>

BotFalls ==
    /\ falls < MaxFalls /\ falls' = falls + 1
    /\ stage' = [a \in Questions |-> IF stage[a] \in Awaited THEN "gone" ELSE stage[a]]
    /\ elapsed' = [a \in Questions |-> 0] /\ hold' = 0
    /\ spent' = [a \in Questions |-> IF InQueue(a) THEN spent[a] ELSE 0]
    /\ UNCHANGED <<about, facts, reply, queueVars, workerVars>>

-----------------------------------------------------------------------------
\* The worker.

\* One public job: dropped when it was given up or nobody can wait for it any more.
TakeJob(a) ==
    /\ worker = "idle" /\ lineJob[a] = "queued"
    /\ IF cancel[a] \/ spent[a] > Wait
       THEN /\ lineJob' = [lineJob EXCEPT ![a] = "cancelled"]
            /\ UNCHANGED <<worker, writing>>
       ELSE /\ lineJob' = [lineJob EXCEPT ![a] = "running"]
            /\ worker' = "public" /\ writing' = a
    /\ UNCHANGED <<askVars, spent, hold, cancel, runFor, busySign, falls>>

Rest == worker' = "idle" /\ writing' = NoAsk /\ runFor' = 0 /\ busySign' = FALSE

\* Its process ends, or is ended for its mark or its time.
EndJob ==
    /\ worker = "public"
    /\ \E how \in {"completed", "failed", "cancelled"} :
          /\ (how = "cancelled") = cancel[writing]
          /\ how = "completed" => runFor < RunTime
          /\ lineJob' = [lineJob EXCEPT ![writing] = how]
    /\ Rest
    /\ UNCHANGED <<askVars, spent, hold, cancel, falls>>

\* A job of the owner, which may take long.
OwnerJob ==
    /\ worker = "idle" /\ worker' = "owner"
    /\ UNCHANGED <<askVars, spent, hold, queueVars, writing, runFor, busySign, falls>>

OwnerJobEnds ==
    /\ worker = "owner" /\ Rest
    /\ UNCHANGED <<askVars, spent, hold, queueVars, falls>>

Heartbeat ==
    /\ worker \in {"public", "owner"} /\ ~busySign /\ busySign' = TRUE
    /\ UNCHANGED <<askVars, spent, hold, queueVars, worker, writing, runFor, falls>>

\* Killed, worker.json stays as it was; stopped, the job at hand is cancelled and
\* the file removed.
WorkerFalls ==
    /\ worker # "down" /\ falls < MaxFalls /\ falls' = falls + 1
    /\ worker' = "down" /\ writing' = NoAsk /\ runFor' = 0
    /\ \/ UNCHANGED <<lineJob, busySign>>
       \/ /\ lineJob' = [a \in Questions |->
                          IF a = writing THEN "cancelled" ELSE lineJob[a]]
          /\ busySign' = FALSE
    /\ UNCHANGED <<askVars, spent, hold, cancel>>

\* recover: what was running when the worker fell is not run again.
WorkerStarts ==
    /\ worker = "down" /\ Rest
    /\ lineJob' = [a \in Questions |->
          IF lineJob[a] = "running" THEN "interrupted" ELSE lineJob[a]]
    /\ UNCHANGED <<askVars, spent, hold, cancel, falls>>

-----------------------------------------------------------------------------
\* Polls of a fraction of a second are over before the next unit, and timeouts fire;
\* a queued job may wait for the worker's round.
InTime(a) ==
    /\ stage[a] # "model"
    /\ stage[a] \in Awaited => elapsed[a] < Outer
    /\ stage[a] \in {"map", "facts"} => spent[a] < Lookup
    /\ stage[a] = "poll" => spent[a] < Wait /\ InQueue(a)

WorkerInTime == worker = "public" => runFor < RunTime /\ ~cancel[writing]

Pending(a) == stage[a] \in Awaited \/ InQueue(a)

TimeGoesOn ==
    /\ WorkerInTime /\ \A a \in Questions : InTime(a)
    /\ (\E a \in Questions : Pending(a)) \/ hold > 0
    /\ elapsed' = [a \in Questions |->
          IF stage[a] \in Awaited THEN elapsed[a] + 1 ELSE elapsed[a]]
    /\ spent' = [a \in Questions |->
          IF Pending(a) /\ spent[a] <= Wait THEN spent[a] + 1 ELSE spent[a]]
    /\ runFor' = IF worker = "public" THEN runFor + 1 ELSE runFor
    /\ hold' = IF hold > 0 THEN hold - 1 ELSE 0
    /\ UNCHANGED <<stage, about, facts, reply, queueVars>>
    /\ UNCHANGED <<worker, writing, busySign, falls>>

BotStep(a) ==
    \/ LookAtMap(a) \/ LookFactsUp(a) \/ NoLine(a) \/ SubmitLine(a)
    \/ ReadResult(a) \/ GiveUp(a) \/ CutOff(a)

WorkerStep == EndJob \/ OwnerJobEnds \/ Heartbeat \/ WorkerStarts

RepliesNext ==
    \/ \E a \in Questions : Question(a) \/ BotStep(a) \/ TakeJob(a)
    \/ OwnerJob \/ WorkerStep \/ WorkerFalls \/ BotFalls \/ TimeGoesOn

\* The event loop runs and time passes; the worker does what it has begun.
SomeAnswer == (\E a \in Questions : BotStep(a)) \/ TimeGoesOn

RepliesFairSpec ==
    /\ RepliesInit /\ [][RepliesNext]_replyVars
    /\ WF_replyVars(SomeAnswer) /\ WF_replyVars(WorkerStep)

-----------------------------------------------------------------------------
\* No job is left behind unmarked: one the bot no longer waits for, for whatever
\* reason, is never started, and stopped when it runs.
QueueIsSwept ==
    \A a \in Questions : stage[a] = "done" /\ InQueue(a) => cancel[a]

\* "Local calendar/statistics facts remain authoritative": facts that were read are
\* told, with the model or without, except by an answer cut at Outer; and one that
\* has a single lookup to do is never cut, as the timeouts add up.
FactsAreTold ==
    \A a \in Questions :
        /\ stage[a] = "done" /\ facts[a] => "facts" \in reply[a] \/ reply[a] = {"cut"}
        /\ about[a] = "map" => "cut" \notin reply[a]

RepliesAreSound == QueueIsSwept /\ FactsAreTold

\* Every question, asked once here, comes to be answered unless the bot falls: by the
\* worker's line, without it, or late, whatever the worker is about.
EveryQuestionIsAnswered == <>[](\A a \in Questions : stage[a] \notin Awaited)
=============================================================================
