--------------------------- MODULE DatabaseConnector ---------------------------
(***************************************************************************)
(* The connection every part of the bot shares                             *)
(* (modules/database_connector.py). Coroutines queue for an asyncio.Lock;  *)
(* the holder's statements run in a worker thread, which goes on when the  *)
(* caller is cancelled, and the lock comes back only when it ends.         *)
(*                                                                         *)
(* A call is one query, or a transaction of several. The server may lose   *)
(* the connection or refuse at every round trip, and a commit that was     *)
(* sent before the connection was lost may still take effect later.        *)
(***************************************************************************)
EXTENDS Integers, Sequences, FiniteSets

CONSTANTS
    Calls,     \* the calls ever made
    Tx,        \* those of execute_transaction; the others are one query
    TxSize,    \* statements of a transaction
    Retries,   \* attempts of a query (3 in the code)
    NoCall

ASSUME DatabaseConnectorAssumption ==
    /\ Tx \subseteq Calls
    /\ TxSize \in Nat \ {0}
    /\ Retries \in Nat \ {0}
    /\ NoCall \notin Calls

VARIABLES
    call,     \* what became of the coroutine of c
    waiters,  \* coroutines waiting for the lock, first come first served
    lock,     \* _lock: the call that holds it
    thread,   \* where the worker thread of c is
    attempt,  \* attempts it has used up
    link,     \* the connection
    work,     \* statements of c executed and not committed on this session
    applied,  \* observation: statements of c in the database
    limbo     \* calls whose commit went out on a connection that was lost

conn == <<link, work, applied, limbo>>
connVars == <<call, waiters, lock, thread, attempt, conn>>

Ended    == {"ok", "raised", "exceeded"}
Settled  == Ended \union {"cancelled"}
Busy     == {"ping", "run", "undo"}

Size(c) == IF c \in Tx THEN TxSize ELSE 1

ConnTypeOK ==
    /\ call \in [Calls -> {"new", "queued", "held", "orphaned"} \union Settled]
    /\ waiters \in Seq(Calls)
    /\ lock \in Calls \union {NoCall}
    /\ thread \in [Calls -> {"off"} \union Busy \union Ended]
    /\ attempt \in [Calls -> 0..Retries]
    /\ link \in {"up", "down"}
    /\ work \in [Calls -> Nat]
    /\ applied \in [Calls -> Nat]
    /\ limbo \in SUBSET Calls

Nothing == [c \in Calls |-> 0]

ConnInit ==
    /\ call = [c \in Calls |-> "new"]
    /\ waiters = <<>>
    /\ lock = NoCall
    /\ thread = [c \in Calls |-> "off"]
    /\ attempt = Nothing
    /\ link = "up"
    /\ work = Nothing
    /\ applied = Nothing
    /\ limbo = {}

-------------------------------------------------------------------------------
\* The coroutines: _run_serialized.

Submit(c) ==
    /\ call[c] = "new"
    /\ call' = [call EXCEPT ![c] = "queued"]
    /\ waiters' = Append(waiters, c)
    /\ UNCHANGED <<lock, thread, attempt, conn>>

\* The lock is taken and the thread started without an await between.
Acquire(c) ==
    /\ lock = NoCall
    /\ call[c] = "queued"
    /\ waiters # <<>> /\ c = Head(waiters)
    /\ waiters' = Tail(waiters)
    /\ lock' = c
    /\ call' = [call EXCEPT ![c] = "held"]
    /\ thread' = [thread EXCEPT ![c] = "ping"]
    /\ UNCHANGED <<attempt, conn>>

\* The coroutine resumes with the thread's result.
Return(c) ==
    /\ call[c] = "held"
    /\ thread[c] \in Ended
    /\ call' = [call EXCEPT ![c] = thread[c]]
    /\ lock' = NoCall
    /\ UNCHANGED <<waiters, thread, attempt, conn>>

CancelQueued(c) ==
    /\ call[c] = "queued"
    /\ call' = [call EXCEPT ![c] = "cancelled"]
    /\ \E i \in 1..Len(waiters) :
          /\ waiters[i] = c
          /\ waiters' = SubSeq(waiters, 1, i - 1) \o SubSeq(waiters, i + 1, Len(waiters))
    /\ UNCHANGED <<lock, thread, attempt, conn>>

\* Mutant of CancelHeld: the lock is released with the cancellation.
CancelHeld_ReleasesNow(c) ==
    /\ call[c] = "held"
    /\ call' = [call EXCEPT ![c] = "cancelled"]
    /\ lock' = NoCall
    /\ UNCHANGED <<waiters, thread, attempt, conn>>

\* Only a thread that has ended gives the lock back at once.
CancelHeld(c) ==
    /\ call[c] = "held"
    /\ IF thread[c] \in Ended
       THEN lock' = NoCall /\ call' = [call EXCEPT ![c] = "cancelled"]
       ELSE UNCHANGED lock /\ call' = [call EXCEPT ![c] = "orphaned"]
    /\ UNCHANGED <<waiters, thread, attempt, conn>>

\* Mutant of GivenBack: the callback is not there for a thread that failed.
GivenBack_OkOnly(c) ==
    /\ call[c] = "orphaned"
    /\ thread[c] = "ok"
    /\ call' = [call EXCEPT ![c] = "cancelled"]
    /\ lock' = NoCall
    /\ UNCHANGED <<waiters, thread, attempt, conn>>

\* The done callback of a thread whose caller was cancelled.
GivenBack(c) ==
    /\ call[c] = "orphaned"
    /\ thread[c] \in Ended
    /\ call' = [call EXCEPT ![c] = "cancelled"]
    /\ lock' = NoCall
    /\ UNCHANGED <<waiters, thread, attempt, conn>>

-------------------------------------------------------------------------------
\* The worker thread.

To(c, pc) == thread' = [thread EXCEPT ![c] = pc]

\* _refresh_after_breakage: the handle is closed, and opened again if the
\* server answers. What was not committed dies with the session.
Refresh ==
    /\ link' \in {"up", "down"}
    /\ work' = Nothing

\* Nothing of the call was sent: try again, up to the bound.
Retry(c) ==
    /\ c \notin Tx
    /\ attempt' = [attempt EXCEPT ![c] = @ + 1]
    /\ To(c, IF attempt[c] + 1 = Retries THEN "exceeded" ELSE "ping")
    /\ Refresh
    /\ UNCHANGED <<applied, limbo>>

\* What a commit, or the BEGIN of the next transaction, puts in the database.
Land(calls) ==
    /\ applied' = [c \in Calls |-> IF c \in calls THEN applied[c] + work[c] ELSE applied[c]]
    /\ work' = [c \in Calls |-> IF c \in calls THEN 0 ELSE work[c]]

\* ping(reconnect=True), and for a transaction BEGIN.
PingWorks(c) ==
    /\ thread[c] = "ping"
    /\ link' = "up"
    /\ IF link = "up" /\ c \in Tx THEN Land(Calls) ELSE UNCHANGED <<work, applied>>
    /\ To(c, "run")
    /\ UNCHANGED <<attempt, limbo>>

PingLost(c) ==
    /\ thread[c] = "ping"
    /\ Retry(c)

\* A query cleans up after any other error of the ping; a transaction drops
\* the connection for a database error of the ping or a lost BEGIN, and raises
\* as it is for anything else.
PingRaises(c) ==
    /\ thread[c] = "ping"
    /\ IF c \in Tx
       THEN To(c, "raised") /\ (Refresh \/ UNCHANGED <<link, work>>)
       ELSE To(c, "undo") /\ UNCHANGED <<link, work>>
    /\ UNCHANGED <<attempt, applied, limbo>>

\* No cursor: nothing was sent.
CursorLost(c) ==
    /\ thread[c] = "run" /\ work[c] = 0
    /\ Retry(c)

\* Mutant of Breaks: a query whose connection was lost is sent again.
Breaks_Replays(c) ==
    /\ thread[c] = "run"
    /\ link' = "down"
    /\ work' = Nothing
    /\ UNCHANGED applied
    /\ \/ UNCHANGED limbo
       \/ work[c] = Size(c) /\ limbo' = limbo \union {c}
    /\ attempt' = [attempt EXCEPT ![c] = @ + 1]
    /\ To(c, IF attempt[c] + 1 = Retries THEN "exceeded" ELSE "ping")

\* The connection is lost in an execute or in the commit. No replay.
Breaks(c) ==
    /\ thread[c] = "run"
    /\ link' = "down"
    /\ work' = Nothing
    /\ \/ UNCHANGED limbo
       \/ work[c] = Size(c) /\ limbo' = limbo \union {c}
    /\ To(c, "undo")
    /\ UNCHANGED <<attempt, applied>>

\* The server refuses the cursor, an execute or the commit.
Refuses(c) ==
    /\ thread[c] = "run"
    /\ To(c, "undo")
    /\ UNCHANGED <<attempt, conn>>

Execute(c) ==
    /\ thread[c] = "run"
    /\ work[c] < Size(c)
    /\ work' = [work EXCEPT ![c] = @ + 1]
    /\ UNCHANGED <<thread, attempt, link, applied, limbo>>

Commit(c) ==
    /\ thread[c] = "run"
    /\ work[c] = Size(c)
    /\ Land(Calls)
    /\ To(c, "ok")
    /\ UNCHANGED <<attempt, link, limbo>>

\* Mutant of Undo: a connection whose rollback failed is used again.
Undo_KeepsHandle(c) ==
    /\ thread[c] = "undo"
    /\ \/ link = "up" /\ work' = Nothing /\ UNCHANGED link
       \/ UNCHANGED <<link, work>>
    /\ To(c, "raised")
    /\ UNCHANGED <<attempt, applied, limbo>>

\* Roll back; a rollback that fails discards the connection.
Undo(c) ==
    /\ thread[c] = "undo"
    /\ \/ link = "up" /\ work' = Nothing /\ UNCHANGED link
       \/ Refresh
    /\ To(c, "raised")
    /\ UNCHANGED <<attempt, applied, limbo>>

Worker(c) ==
    /\ \/ PingWorks(c) \/ PingLost(c) \/ PingRaises(c) \/ CursorLost(c)
       \/ Execute(c) \/ Breaks(c) \/ Refuses(c) \/ Commit(c) \/ Undo(c)
    /\ UNCHANGED <<call, waiters, lock>>

-------------------------------------------------------------------------------
\* The server settles a commit that went out before the connection was lost.
Late(c) ==
    /\ c \in limbo
    /\ limbo' = limbo \ {c}
    /\ \/ applied' = [applied EXCEPT ![c] = @ + Size(c)]
       \/ UNCHANGED applied
    /\ UNCHANGED <<call, waiters, lock, thread, attempt, link, work>>

ConnNext ==
    \E c \in Calls :
        \/ Submit(c) \/ Acquire(c) \/ Return(c)
        \/ CancelQueued(c) \/ CancelHeld(c) \/ GivenBack(c)
        \/ Worker(c) \/ Late(c)

ConnSpec == ConnInit /\ [][ConnNext]_connVars

\* The event loop runs what is ready, and every wait of the thread is bounded by
\* the connection's timeouts. Nobody has to call or to cancel.
CallStep(c) == Acquire(c) \/ Return(c) \/ GivenBack(c) \/ Worker(c)

ConnFairness == \A c \in Calls : WF_connVars(CallStep(c))

ConnFairSpec == ConnSpec /\ ConnFairness

-------------------------------------------------------------------------------
\* Whoever is cancelled and whenever, the connection, which is not thread-safe,
\* never has two threads on it (_run_serialized).
OneThread == \A c, d \in Calls : (thread[c] \in Busy /\ thread[d] \in Busy) => c = d

\* However the connection fails, the statements of a call are in the database
\* all together or not at all, and never twice: no retry repeats them and no
\* later call commits what an earlier one left behind.
AllOrNothing == \A c \in Calls : applied[c] \in {0, Size(c)}

\* A caller told "ok" has its effect, and one told that the retries ran out can
\* call again: nothing of its call is in the database or on its way there.
AnswerIsTrue ==
    \A c \in Calls :
        /\ call[c] = "ok" => applied[c] = Size(c)
        /\ call[c] = "exceeded" => applied[c] = 0 /\ c \notin limbo

\* Every call is answered, and a cancelled caller's thread gives the connection
\* back: again and again nobody waits for it.
EveryCallSettles ==
    []<>(\A c \in Calls : call[c] \notin {"queued", "held", "orphaned"})

\* The calls keep the contract of CallContract.
Answer == [c \in Calls |-> CASE call[c] \in Settled -> call[c]
                             [] call[c] = "orphaned" -> "cancelled"
                             [] OTHER -> "none"]
Effect == {c \in Calls : applied[c] > 0}

Contract == INSTANCE CallContract WITH answer <- Answer, effect <- Effect

\* Shield, lock, retries and late commits implement the contract a caller relies
\* on: one answer per call, and an answer that is true of its effect.
KeepsContract == Contract!Spec
===============================================================================
