------------------------------- MODULE OwnerRuns -------------------------------
(***************************************************************************)
(* The owner's conversation with an agent, Hermes or Claude: cogs/hermes.py *)
(* and modules/hermes_client.py.  A message is a turn of its own or goes to *)
(* the running turn as guidance; one turn runs at a time; the agent's       *)
(* server runs it to its end whatever the bot does; a file per admitted run *)
(* lets the next process deliver what this one did not.                     *)
(***************************************************************************)
EXTENDS Integers, Sequences, FiniteSets

CONSTANTS
    Msgs,        \* the owner's messages
    MaxPending,  \* turns in reply(): 6
    MaxLost,     \* bound: answers of the server or of Discord that get lost
    MaxUpsets    \* bound: clicks on a queued card and restarts of the bot, together

ASSUME OwnerRunsAssumption ==
    /\ MaxPending \in Nat \ {0} /\ MaxLost \in Nat /\ MaxUpsets \in Nat

VARIABLES
    turn,      \* where each message is
    queue,     \* turns waiting for the client's lock, in order
    card,      \* progress.status, as far as the buttons read it
    active,    \* active_run
    answer,    \* what the turn will say
    runs,      \* the server: each message's run
    records,   \* the files of admitted runs
    recovery,  \* recover_pending of this process: its records still to poll
    \* observation
    took,      \* times the server took the text, as a run or as guidance
    recorded,  \* runs whose file was once written
    delivered, \* times the result was delivered
    expired,   \* records dropped for their age
    retaken,   \* answers to guidance lost, and clicks on a turn already taken, per message
    retold,    \* deliveries not known or not forgotten, and live runs recovered, per message
    lostAnswers, upsets

client    == <<turn, queue, card, active, answer, records, recovery>>
observed  == <<took, recorded, delivered, expired, retaken, retold>>
runBounds == <<lostAnswers, upsets>>
runVars   == <<client, runs, observed, runBounds>>

NoRun == "none"
InLock == {"post", "posted", "poll", "ask"}
Holder(m) == turn[m] \in InLock
Live(m) == turn[m] \notin {"new", "over"}
Waiting == Cardinality({m \in Msgs : turn[m] \in InLock \union {"queued"}})

RunTypeOK ==
    /\ turn \in [Msgs -> {"new", "guiding", "alone", "queued", "left", "back", "tell", "forget",
                         "over"} \union InLock]
    /\ queue \in Seq(Msgs) /\ active \in Msgs \union {NoRun}
    /\ card \in [Msgs -> {"none", "queued", "admitting", "running", "closed"}]
    /\ answer \in [Msgs -> {"none", "text", "unavailable", "busy"}]
    /\ runs \in [Msgs -> {"none", "waiting", "running", "asking", "answered", "ended"}]
    /\ {records, recorded, expired} \subseteq SUBSET Msgs
    /\ recovery \in [todo : SUBSET Msgs, listed : BOOLEAN]
    /\ {took, delivered, retaken, retold} \subseteq [Msgs -> Nat]
    /\ lostAnswers \in 0..MaxLost /\ upsets \in 0..MaxUpsets

RunInit ==
    /\ turn = [m \in Msgs |-> "new"] /\ queue = <<>> /\ active = NoRun
    /\ card = [m \in Msgs |-> "none"] /\ answer = [m \in Msgs |-> "none"]
    /\ runs = [m \in Msgs |-> "none"] /\ records = {}
    /\ recovery = [todo |-> {}, listed |-> FALSE]
    /\ took = [m \in Msgs |-> 0] /\ delivered = took /\ retaken = took /\ retold = took
    /\ recorded = {} /\ expired = {}
    /\ lostAnswers = 0 /\ upsets = 0

-------------------------------------------------------------------------------
(* The server.                                                               *)

InProgress(m) == runs[m] \in {"waiting", "running", "asking", "answered"}

Ends(m) ==
    /\ InProgress(m)
    /\ runs' = [runs EXCEPT ![m] = "ended"]
    /\ UNCHANGED <<client, observed, runBounds>>

\* A run that the server showed as queued is worked on.
WorksOn(m) ==
    /\ runs[m] = "waiting"
    /\ runs' = [runs EXCEPT ![m] = "running"]
    /\ UNCHANGED <<client, observed, runBounds>>

\* An approval; a run needs no more than one.
Asks(m) ==
    /\ runs[m] = "running"
    /\ runs' = [runs EXCEPT ![m] = "asking"]
    /\ UNCHANGED <<client, observed, runBounds>>

\* stop: the button of a card whose run is known.
StopRun(m) == card[m] = "running" /\ turn[m] \in {"poll", "ask"} /\ Ends(m)

\* A text reaches the run of message a as guidance: taken, refused, or taken and
\* the answer lost, which the bot cannot tell from a refusal.
Steers(m, a, accepted) ==
    \/ /\ accepted /\ InProgress(a)
       /\ took' = [took EXCEPT ![m] = @ + 1]
       /\ UNCHANGED <<retaken, lostAnswers>>
    \/ ~accepted /\ UNCHANGED <<took, retaken, lostAnswers>>
    \/ /\ ~accepted /\ InProgress(a) /\ lostAnswers < MaxLost
       /\ lostAnswers' = lostAnswers + 1
       /\ took' = [took EXCEPT ![m] = @ + 1]
       /\ retaken' = [retaken EXCEPT ![m] = @ + 1]

-------------------------------------------------------------------------------
(* handle: a message arrives.                                                *)

\* The turn a message may guide: the active one, or one that is being admitted.
Steerable == {m \in Msgs : /\ turn[m] \in InLock \union {"queued"}
                           /\ m = active \/ card[m] \in {"admitting", "running"}}

\* reply: at most MaxPending turns wait for the lock.
EnterReply(m) ==
    IF Waiting >= MaxPending
    THEN /\ turn' = [turn EXCEPT ![m] = "tell"]
         /\ answer' = [answer EXCEPT ![m] = "busy"]
         /\ UNCHANGED queue
    ELSE /\ turn' = [turn EXCEPT ![m] = "queued"]
         /\ queue' = Append(queue, m)
         /\ UNCHANGED answer

\* The card shows what it hears of its turn.
Emits(m, event) == card' = [card EXCEPT ![m] = event]

\* A turn of its own; its card says whether others are ahead.
NewTurn(m) ==
    /\ EnterReply(m)
    /\ Emits(m, IF Waiting > 0 THEN "queued" ELSE "admitting")

\* A plain message guides what runs; "+" asks for a turn of its own.
Handle(m) ==
    /\ turn[m] = "new"
    /\ \/ /\ Steerable # {}
          /\ turn' = [turn EXCEPT ![m] = "guiding"]
          /\ UNCHANGED <<queue, card, answer>>
       \/ NewTurn(m)
    /\ UNCHANGED <<active, records, recovery, runs, observed, runBounds>>

\* steer_active: the running turn takes the message, or it becomes a turn.
SteerActive(m) ==
    /\ turn[m] = "guiding"
    /\ \E a \in Steerable :
          /\ active = a /\ card[a] = "running"
          /\ \E accepted \in BOOLEAN :
                /\ Steers(m, a, accepted)
                /\ IF accepted THEN turn' = [turn EXCEPT ![m] = "over"]
                                    /\ UNCHANGED <<queue, card, answer>>
                   ELSE NewTurn(m)
    /\ UNCHANGED <<active, records, recovery, runs, recorded, delivered, expired, retold, upsets>>

\* The running turn is one that the server shows as queued: it is taken out as if it still
\* waited, and is over with its result on file only, or back in the queue.
SteerQueued(m) ==
    /\ turn[m] = "guiding"
    /\ \E a \in Steerable :
          /\ active = a /\ turn[a] = "poll" /\ card[a] = "queued"
          /\ \E accepted \in BOOLEAN :
                /\ Steers(m, a, accepted)
                /\ turn' = [turn EXCEPT ![m] = IF accepted THEN "over" ELSE "alone",
                                        ![a] = IF accepted THEN "over" ELSE "back"]
                /\ card' = IF accepted THEN [card EXCEPT ![a] = "closed"] ELSE card
    /\ active' = NoRun
    /\ UNCHANGED <<queue, answer, records, recovery, runs, recorded, delivered, expired, retold,
                   upsets>>

\* What was refused then is a turn of its own, and what was taken out waits again.
Requeues(m) ==
    /\ \/ turn[m] = "alone" /\ NewTurn(m)
       \/ turn[m] = "back" /\ EnterReply(m) /\ UNCHANGED card
    /\ UNCHANGED <<active, records, recovery, runs, observed, runBounds>>

\* Nothing runs any more, or its run is not admitted within ADMIT_WAIT.
GuidesNothing(m) ==
    /\ turn[m] = "guiding" /\ active \notin Steerable
    /\ NewTurn(m)
    /\ UNCHANGED <<active, records, recovery, runs, observed, runBounds>>

-------------------------------------------------------------------------------
(* The card of a turn shown as queued: "Enviar à tarefa atual".                       *)

\* The queue without m: a waiter of the lock that is cancelled.
Without(m) ==
    LET place == CHOOSE i \in DOMAIN queue : queue[i] = m
    IN  [i \in 1..Len(queue) - 1 |-> IF i < place THEN queue[i] ELSE queue[i + 1]]

\* The turn leaves the queue first; or it leaves the lock, if it is one that the agent took
\* and shows as queued.
Redirect(m) ==
    /\ card[m] = "queued" /\ turn[m] \in {"queued", "poll"} /\ active # NoRun /\ upsets < MaxUpsets
    /\ upsets' = upsets + 1
    /\ turn' = [turn EXCEPT ![m] = "left"]
    /\ IF turn[m] = "queued"
       THEN queue' = Without(m) /\ UNCHANGED active
       ELSE active' = NoRun /\ UNCHANGED queue
    /\ retaken' = [retaken EXCEPT ![m] = IF runs[m] = "none" THEN @ ELSE @ + 1]
    /\ UNCHANGED <<card, answer, records, recovery, runs, took, recorded, delivered, expired,
                   retold, lostAnswers>>

\* The last thing a card says.
Finish(m) == Emits(m, "closed")

\* A click that was under way when the turn ended: nothing is left to take out.
RedirectLate(m) ==
    /\ card[m] = "queued" /\ turn[m] = "tell" /\ upsets < MaxUpsets
    /\ \E a \in Msgs, accepted \in BOOLEAN :
          /\ active = a
          /\ \/ accepted /\ InProgress(a) /\ took' = [took EXCEPT ![m] = @ + 1]
             \/ ~accepted /\ UNCHANGED took
    /\ upsets' = upsets + 1
    /\ retaken' = [retaken EXCEPT ![m] = @ + 1]
    /\ Finish(m)
    /\ UNCHANGED <<turn, queue, active, answer, records, recovery, runs, recorded, delivered,
                   expired, retold, lostAnswers>>

\* Mutant of Redirected: a refused turn is not put back.
RedirectedLost(m) ==
    /\ turn[m] = "left"
    /\ \E accepted \in BOOLEAN, a \in Msgs :
          /\ Steers(m, a, accepted)
          /\ IF accepted THEN turn' = [turn EXCEPT ![m] = "over"] ELSE UNCHANGED turn
    /\ UNCHANGED <<queue, card, active, answer, records, recovery, runs, recorded, delivered, expired,
                   retold, upsets>>

\* Mutant of Redirected: the turn is back in the queue either way.
RedirectedAgain(m) ==
    /\ turn[m] = "left"
    /\ \E accepted \in BOOLEAN, a \in Msgs : Steers(m, a, accepted)
    /\ EnterReply(m)
    /\ UNCHANGED <<card, active, records, recovery, runs, recorded, delivered, expired, retold,
                   upsets>>

\* The run that was active takes the text, or the turn is back in the queue.
Redirected(m) ==
    /\ turn[m] = "left"
    /\ \E accepted \in BOOLEAN, a \in Msgs :
          /\ Steers(m, a, accepted)
          /\ IF accepted
             THEN /\ turn' = [turn EXCEPT ![m] = "over"]
                  /\ Finish(m)
                  /\ UNCHANGED <<queue, answer>>
             ELSE EnterReply(m) /\ UNCHANGED card
    /\ UNCHANGED <<active, records, recovery, runs, recorded, delivered, expired, retold, upsets>>

-------------------------------------------------------------------------------
(* _request: the lock's holder.                                              *)

\* The card hears of it before the first await: the turn cannot leave while it is admitted.
StartTurn(m) ==
    /\ queue # <<>> /\ Head(queue) = m /\ ~\E h \in Msgs : Holder(h)
    /\ queue' = Tail(queue)
    /\ turn' = [turn EXCEPT ![m] = "post"]
    /\ Emits(m, "admitting")
    /\ UNCHANGED <<active, answer, records, recovery, runs, observed, runBounds>>

\* POST /v1/runs reaches the server; a second try has the same Idempotency-Key.
PostRun(m) ==
    /\ turn[m] = "post"
    /\ turn' = [turn EXCEPT ![m] = "posted"]
    /\ IF runs[m] = "none"
       THEN /\ \E status \in {"waiting", "running"} : runs' = [runs EXCEPT ![m] = status]
            /\ took' = [took EXCEPT ![m] = @ + 1]
       ELSE UNCHANGED <<runs, took>>
    /\ UNCHANGED <<queue, card, active, answer, records, recovery, recorded, delivered, expired,
                   retaken, retold, runBounds>>

\* The run is recorded before anything else is done with it.
Admit(m) ==
    /\ turn[m] = "posted"
    /\ records' = records \union {m} /\ recorded' = recorded \union {m}
    /\ active' = m
    /\ Emits(m, "running")
    /\ turn' = [turn EXCEPT ![m] = "poll"]
    /\ UNCHANGED <<queue, answer, recovery, runs, took, delivered, expired, retaken, retold,
                   runBounds>>

\* The lock is free again, and the turn has something to say.
Leaves(m, what) ==
    /\ turn' = [turn EXCEPT ![m] = "tell"]
    /\ answer' = [answer EXCEPT ![m] = what]
    /\ active' = NoRun
    /\ UNCHANGED <<queue, card, records, recovery, runs, observed, runBounds>>

\* No answer to the POST, or no room for the record.
NotAdmitted(m) == turn[m] \in {"post", "posted"} /\ Leaves(m, "unavailable")

\* _poll: a terminal status ends it, a failure or RUN_TIMEOUT too.
PollEnds(m) == turn[m] = "poll" /\ runs[m] = "ended" /\ Leaves(m, "text")
PollBreaks(m) == turn[m] = "poll" /\ Leaves(m, "unavailable")

\* The card shows the status that the server gives, also "queued" for a turn it took.
PollShows(m) ==
    /\ turn[m] = "poll" /\ runs[m] # "ended"
    /\ LET status == IF runs[m] = "waiting" THEN "queued" ELSE "running"
       IN  card[m] # status /\ Emits(m, status)
    /\ UNCHANGED <<turn, queue, active, answer, records, recovery, runs, observed, runBounds>>

PollAsked(m) ==
    /\ turn[m] = "poll" /\ runs[m] = "asking"
    /\ turn' = [turn EXCEPT ![m] = "ask"]
    /\ Emits(m, "running")
    /\ UNCHANGED <<queue, active, answer, records, recovery, runs, observed, runBounds>>

\* The owner decides, or 275 seconds decide for him; the server may have moved on.
Decide(m) ==
    /\ turn[m] = "ask"
    /\ \/ /\ runs[m] = "asking"
          /\ runs' = [runs EXCEPT ![m] = "answered"]
          /\ turn' = [turn EXCEPT ![m] = "poll"]
          /\ UNCHANGED <<queue, card, active, answer, records, recovery, observed, runBounds>>
       \/ Leaves(m, "unavailable")

\* A result arrived as a whole although a send of it raised: its record stays.
ArrivesUnseen(m) ==
    /\ lostAnswers < MaxLost
    /\ lostAnswers' = lostAnswers + 1
    /\ delivered' = [delivered EXCEPT ![m] = @ + 1]
    /\ retold' = [retold EXCEPT ![m] = @ + 1]

\* The answer reaches the owner, or a send of one of its parts raised, arrived or not.
Delivers(m) ==
    \/ /\ delivered' = [delivered EXCEPT ![m] = IF answer[m] = "text" THEN @ + 1 ELSE @]
       /\ turn' = [turn EXCEPT ![m] = IF answer[m] = "text" THEN "forget" ELSE "over"]
       /\ UNCHANGED <<retold, lostAnswers>>
    \/ turn' = [turn EXCEPT ![m] = "over"] /\ UNCHANGED <<delivered, retold, lostAnswers>>
    \/ /\ answer[m] = "text" /\ ArrivesUnseen(m)
       /\ turn' = [turn EXCEPT ![m] = "over"]

\* finish and respond: a result that was delivered is forgotten.
Respond(m) ==
    /\ turn[m] = "tell"
    /\ Finish(m)
    /\ Delivers(m)
    /\ answer' = [answer EXCEPT ![m] = "none"]
    /\ UNCHANGED <<queue, active, records, recovery, runs, took, recorded, expired, retaken, upsets>>

ForgetRecord(m) ==
    /\ turn[m] = "forget"
    /\ records' = records \ {m}
    /\ turn' = [turn EXCEPT ![m] = "over"]
    /\ UNCHANGED <<queue, card, active, answer, recovery, runs, observed, runBounds>>

-------------------------------------------------------------------------------
(* Restart and recovery.                                                     *)

\* The process dies; what it was about to forget will be delivered again.
BotDies ==
    /\ upsets < MaxUpsets
    /\ upsets' = upsets + 1
    /\ turn' = [m \in Msgs |-> IF turn[m] = "new" THEN "new" ELSE "over"]
    /\ queue' = <<>> /\ active' = NoRun
    /\ card' = [m \in Msgs |-> "none"] /\ answer' = [m \in Msgs |-> "none"]
    /\ recovery' = [todo |-> {}, listed |-> FALSE]
    /\ retold' = [m \in Msgs |-> IF turn[m] = "forget" THEN retold[m] + 1 ELSE retold[m]]
    /\ UNCHANGED <<records, runs, took, recorded, delivered, expired, retaken, lostAnswers>>

\* list_pending, once the bot is ready; a turn of this process may be admitted by then.
ListPending ==
    /\ ~recovery.listed
    /\ \E old \in SUBSET {m \in records : ~Live(m)} :
          /\ recovery' = [todo |-> records \ old, listed |-> TRUE]
          /\ records' = records \ old
          /\ expired' = expired \union old
    /\ retold' = [m \in Msgs |-> IF m \in records /\ Live(m) THEN retold[m] + 1 ELSE retold[m]]
    /\ UNCHANGED <<turn, queue, card, active, answer, runs, took, recorded, delivered, retaken,
                   runBounds>>

\* A run is polled to its end and delivered; otherwise its record stays, also if the
\* result arrived although a send of it raised.
RecoverRun(m) ==
    /\ m \in recovery.todo
    /\ recovery' = [recovery EXCEPT !.todo = @ \ {m}]
    /\ \/ /\ runs[m] = "ended"
          /\ records' = records \ {m}
          /\ delivered' = [delivered EXCEPT ![m] = @ + 1]
          /\ UNCHANGED <<retold, lostAnswers>>
       \/ UNCHANGED <<records, delivered, retold, lostAnswers>>
       \/ runs[m] = "ended" /\ ArrivesUnseen(m) /\ UNCHANGED records
    /\ UNCHANGED <<turn, queue, card, active, answer, runs, took, recorded, expired, retaken,
                   upsets>>

\* Nobody is asked during recovery.
RecoverDenies(m) ==
    /\ m \in recovery.todo /\ runs[m] = "asking"
    /\ runs' = [runs EXCEPT ![m] = "answered"]
    /\ UNCHANGED <<client, observed, runBounds>>

-------------------------------------------------------------------------------
TurnStep(m) ==
    \/ SteerActive(m) \/ SteerQueued(m) \/ GuidesNothing(m) \/ Redirected(m) \/ Requeues(m)
    \/ StartTurn(m) \/ PostRun(m) \/ Admit(m) \/ NotAdmitted(m)
    \/ PollEnds(m) \/ PollBreaks(m) \/ PollShows(m) \/ PollAsked(m) \/ Decide(m)
    \/ Respond(m) \/ ForgetRecord(m)

RunNext ==
    \/ \E m \in Msgs : \/ WorksOn(m) \/ Ends(m) \/ Asks(m) \/ StopRun(m)
                       \/ Handle(m) \/ Redirect(m) \/ RedirectLate(m) \/ TurnStep(m)
                       \/ RecoverRun(m) \/ RecoverDenies(m)
    \/ BotDies \/ ListPending

RunSpec == RunInit /\ [][RunNext]_runVars

-------------------------------------------------------------------------------
(* Properties.                                                               *)

\* A message is worked on once: a text that the agent took as guidance is not run as well.  It
\* is taken once more only for an answer to guidance that got lost, or for a click on a turn
\* that the agent had taken already, or that had ended.
TextRunsOnce == \A m \in Msgs : took[m] <= 1 + retaken[m]

\* Every result of a recorded run is still on record, was delivered or was too old; none is
\* delivered once more but for a delivery whose send raised, a death before it was forgotten, or
\* a run of this process that recovery found on file.
ResultKept ==
    \A m \in recorded :
        /\ m \in records \/ delivered[m] > 0 \/ m \in expired
        /\ delivered[m] <= 1 + retold[m]

\* Each message is run once, and its result reaches the owner once.
OneRunOneResult == TextRunsOnce /\ ResultKept

\* Every message of the owner comes to an end, again and again all of them: a turn that left the
\* queue is not forgotten, and no turn keeps the lock.
NobodyWaits == \A m \in Msgs : ~Live(m)
EveryTurnEnds == []<>NobodyWaits
===============================================================================
