------------------------ MODULE DatabaseConnectorProofs ------------------------
(***************************************************************************)
(* The safety properties of the shared connection, and that it implements  *)
(* CallContract, for any number of calls, statements and retries.          *)
(*                                                                         *)
(* The argument has two layers. LockInv: a busy thread belongs to the call *)
(* that holds the lock, cancelled or not. WorkInv: only a busy thread has  *)
(* uncommitted statements, and what is committed or lost is told apart by  *)
(* where its thread ended; with LockInv, a commit lands one call's work.   *)
(***************************************************************************)
EXTENDS DatabaseConnector, TLAPS

USE DatabaseConnectorAssumption DEF DatabaseConnectorAssumption

Held == {"held", "orphaned"}

LockInv ==
    \A c \in Calls :
        /\ call[c] \in Held => lock = c
        /\ thread[c] \in Busy => call[c] \in Held
        /\ call[c] \in {"new", "queued"} => thread[c] = "off"
        /\ call[c] \in Ended => thread[c] = call[c]

WorkInv ==
    \A c \in Calls :
        /\ work[c] \in 0..Size(c)
        /\ applied[c] \in {0, Size(c)}
        /\ thread[c] \notin {"run", "undo"} => work[c] = 0
        /\ thread[c] \in {"off", "ping", "run", "exceeded"} => applied[c] = 0 /\ c \notin limbo
        /\ thread[c] = "ok" => applied[c] = Size(c) /\ c \notin limbo
        /\ work[c] > 0 => applied[c] = 0 /\ c \notin limbo
        /\ c \in limbo => applied[c] = 0
        /\ thread[c] \in Busy \union {"off"} => attempt[c] < Retries

ConnInv == ConnTypeOK /\ LockInv /\ WorkInv

LEMMA SizeIsPositive == \A c \in Calls : Size(c) \in Nat \ {0}
BY DEF Size

LEMMA InitConn == ConnInit => ConnInv
<1> SUFFICES ASSUME ConnInit PROVE ConnInv
  OBVIOUS
<1>1. ConnTypeOK
  BY DEF ConnInit, ConnTypeOK, Nothing
<1>2. LockInv
  BY DEF ConnInit, LockInv, Held, Busy, Ended
<1>3. WorkInv
  BY SizeIsPositive DEF ConnInit, WorkInv, Nothing, Busy
<1> QED
  BY <1>1, <1>2, <1>3 DEF ConnInv

\* The steps of the coroutines leave the connection alone.
LEMMA CoroutineStep ==
    ASSUME ConnInv, NEW c \in Calls,
           \/ Submit(c) \/ Acquire(c) \/ Return(c)
           \/ CancelQueued(c) \/ CancelHeld(c) \/ GivenBack(c)
    PROVE  ConnInv'
<1>1. CASE Submit(c)
  <2>1. ConnTypeOK'
    BY <1>1 DEF ConnInv, ConnTypeOK, Submit, conn, Settled, Ended
  <2>2. LockInv'
    BY <1>1 DEF ConnInv, ConnTypeOK, LockInv, Submit, Held, Busy, Ended
  <2>3. WorkInv'
    BY <1>1 DEF ConnInv, WorkInv, Submit, conn
  <2> QED
    BY <2>1, <2>2, <2>3 DEF ConnInv
<1>2. CASE Acquire(c)
  <2>1. ConnTypeOK'
    BY <1>2 DEF ConnInv, ConnTypeOK, Acquire, conn, Busy
  <2>2. LockInv'
    BY <1>2 DEF ConnInv, ConnTypeOK, LockInv, Acquire, Held, Busy, Ended
  <2>3. WorkInv'
    BY <1>2 DEF ConnInv, ConnTypeOK, LockInv, WorkInv, Acquire, conn, Busy
  <2> QED
    BY <2>1, <2>2, <2>3 DEF ConnInv
<1>3. CASE Return(c)
  <2>1. ConnTypeOK'
    BY <1>3 DEF ConnInv, ConnTypeOK, Return, conn, Settled
  <2>2. LockInv'
    BY <1>3 DEF ConnInv, ConnTypeOK, LockInv, Return, Held, Busy, Ended
  <2>3. WorkInv'
    BY <1>3 DEF ConnInv, WorkInv, Return, conn
  <2> QED
    BY <2>1, <2>2, <2>3 DEF ConnInv
<1>4. CASE CancelQueued(c)
  <2>1. ConnTypeOK'
    BY <1>4 DEF ConnInv, ConnTypeOK, CancelQueued, conn, Settled
  <2>2. LockInv'
    BY <1>4 DEF ConnInv, ConnTypeOK, LockInv, CancelQueued, Held, Busy, Ended
  <2>3. WorkInv'
    BY <1>4 DEF ConnInv, WorkInv, CancelQueued, conn
  <2> QED
    BY <2>1, <2>2, <2>3 DEF ConnInv
<1>5. CASE CancelHeld(c)
  <2>1. ConnTypeOK'
    BY <1>5 DEF ConnInv, ConnTypeOK, CancelHeld, conn, Settled
  <2>2. LockInv'
    BY <1>5 DEF ConnInv, ConnTypeOK, LockInv, CancelHeld, Held, Busy, Ended
  <2>3. WorkInv'
    BY <1>5 DEF ConnInv, WorkInv, CancelHeld, conn
  <2> QED
    BY <2>1, <2>2, <2>3 DEF ConnInv
<1>6. CASE GivenBack(c)
  <2>1. ConnTypeOK'
    BY <1>6 DEF ConnInv, ConnTypeOK, GivenBack, conn, Settled
  <2>2. LockInv'
    BY <1>6 DEF ConnInv, ConnTypeOK, LockInv, GivenBack, Held, Busy, Ended
  <2>3. WorkInv'
    BY <1>6 DEF ConnInv, WorkInv, GivenBack, conn
  <2> QED
    BY <2>1, <2>2, <2>3 DEF ConnInv
<1> QED
  BY <1>1, <1>2, <1>3, <1>4, <1>5, <1>6

\* A busy thread is the only one with work, and ends where only it can.
LEMMA Alone ==
    ASSUME ConnInv, NEW c \in Calls, thread[c] \in Busy
    PROVE  /\ call[c] \in Held
           /\ \A d \in Calls : d # c => thread[d] \notin Busy /\ work[d] = 0
BY DEF ConnInv, LockInv, WorkInv, Busy

\* LockInv over a step of the worker: the thread goes on or ends.
LEMMA WorkerLock ==
    ASSUME ConnInv, NEW c \in Calls, thread[c] \in Busy,
           NEW pc \in Busy \union Ended, To(c, pc),
           UNCHANGED <<call, waiters, lock>>
    PROVE  LockInv' /\ thread' \in [Calls -> {"off"} \union Busy \union Ended]
<1>1. call[c] \in Held
  BY Alone
<1> QED
  BY <1>1 DEF ConnInv, ConnTypeOK, LockInv, To, Held, Busy, Ended

LEMMA WorkerStep ==
    ASSUME ConnInv, NEW c \in Calls, Worker(c)
    PROVE  ConnInv'
<1>0. UNCHANGED <<call, waiters, lock>>
  BY DEF Worker
<1>1. CASE PingWorks(c)
  <2>1. thread[c] \in Busy /\ To(c, "run") /\ attempt' = attempt /\ limbo' = limbo /\ link' = "up"
    BY <1>1 DEF PingWorks, Busy
  <2>2. \A d \in Calls : work[d] = 0
    BY <1>1, <2>1, Alone DEF ConnInv, WorkInv, PingWorks
  <2>3. work' = work /\ applied' = applied
    BY <1>1, <2>2 DEF PingWorks, Land, ConnInv, ConnTypeOK
  <2>4. LockInv' /\ thread' \in [Calls -> {"off"} \union Busy \union Ended]
    BY <1>0, <2>1, WorkerLock DEF Busy
  <2>5. ConnTypeOK'
    BY <1>0, <2>1, <2>3, <2>4 DEF ConnInv, ConnTypeOK
  <2>6. WorkInv'
    BY <1>1, <2>1, <2>3 DEF ConnInv, ConnTypeOK, WorkInv, To, PingWorks, Busy
  <2> QED
    BY <2>4, <2>5, <2>6 DEF ConnInv
<1>2. CASE PingLost(c) \/ CursorLost(c)
  <2>1. /\ thread[c] \in Busy /\ thread[c] \in {"ping", "run"}
        /\ attempt' = [attempt EXCEPT ![c] = @ + 1]
        /\ Refresh /\ UNCHANGED <<applied, limbo>>
    BY <1>2 DEF PingLost, CursorLost, Retry, Busy
  <2>2. PICK pc \in {"ping", "exceeded"} :
          To(c, pc) /\ (pc = "ping" => attempt[c] + 1 # Retries)
    BY <1>2 DEF PingLost, CursorLost, Retry
  <2>3. attempt[c] \in Nat /\ attempt[c] < Retries /\ Retries \in Nat
    BY <2>1 DEF ConnInv, ConnTypeOK, WorkInv, Busy
  <2>4. LockInv' /\ thread' \in [Calls -> {"off"} \union Busy \union Ended]
    BY <1>0, <2>1, <2>2, WorkerLock DEF Busy, Ended
  <2>5. work' = Nothing /\ link' \in {"up", "down"}
    BY <2>1 DEF Refresh
  <2>6. attempt[c] + 1 \in 0..Retries /\ attempt' \in [Calls -> 0..Retries]
    <3>1. attempt[c] + 1 \in 0..Retries
      BY <2>3
    <3> QED
      BY <2>1, <3>1 DEF ConnInv, ConnTypeOK
  <2>7. ConnTypeOK'
    BY <1>0, <2>1, <2>4, <2>5, <2>6 DEF ConnInv, ConnTypeOK, Nothing
  <2>8. ASSUME NEW d \in Calls PROVE thread'[d] \in Busy \union {"off"} => attempt'[d] < Retries
    <3>1. CASE d = c
      BY <2>1, <2>2, <2>3, <3>1 DEF ConnInv, ConnTypeOK, To, Busy
    <3>2. CASE d # c
      BY <2>1, <2>2, <3>2 DEF ConnInv, ConnTypeOK, WorkInv, To
    <3> QED
      BY <3>1, <3>2
  <2>9. WorkInv'
    BY <2>1, <2>2, <2>5, <2>8, SizeIsPositive DEF ConnInv, ConnTypeOK, WorkInv, To, Nothing
  <2> QED
    BY <2>4, <2>7, <2>9 DEF ConnInv
<1>3. CASE PingRaises(c)
  <2>1. /\ thread[c] \in Busy /\ thread[c] = "ping"
        /\ work' = work \/ work' = Nothing
        /\ link' \in {"up", "down"}
        /\ UNCHANGED <<attempt, applied, limbo>>
    BY <1>3 DEF PingRaises, Busy, Refresh, ConnInv, ConnTypeOK
  <2>2. PICK pc \in {"raised", "undo"} : To(c, pc)
    BY <1>3 DEF PingRaises
  <2>3. LockInv' /\ thread' \in [Calls -> {"off"} \union Busy \union Ended]
    BY <1>0, <2>1, <2>2, WorkerLock DEF Busy, Ended
  <2>4. ConnTypeOK'
    BY <1>0, <2>1, <2>3 DEF ConnInv, ConnTypeOK, Nothing
  <2>5. WorkInv'
    BY <2>1, <2>2, SizeIsPositive DEF ConnInv, ConnTypeOK, WorkInv, To, Nothing, Busy
  <2> QED
    BY <2>3, <2>4, <2>5 DEF ConnInv
<1>4. CASE Execute(c)
  <2>1. /\ thread[c] = "run" /\ thread' = thread /\ work[c] < Size(c)
        /\ work' = [work EXCEPT ![c] = @ + 1]
        /\ UNCHANGED <<attempt, link, applied, limbo>>
    BY <1>4 DEF Execute
  <2>2. ConnTypeOK'
    BY <1>0, <2>1 DEF ConnInv, ConnTypeOK
  <2>3. LockInv'
    BY <1>0, <2>1 DEF ConnInv, LockInv
  <2>4. WorkInv'
    BY <2>1, SizeIsPositive DEF ConnInv, ConnTypeOK, WorkInv
  <2> QED
    BY <2>2, <2>3, <2>4 DEF ConnInv
<1>5. CASE Breaks(c)
  <2>1. /\ thread[c] \in Busy /\ thread[c] = "run" /\ To(c, "undo")
        /\ link' = "down" /\ work' = Nothing
        /\ limbo' = limbo \/ limbo' = limbo \union {c}
        /\ UNCHANGED <<attempt, applied>>
    BY <1>5 DEF Breaks, Busy
  <2>2. LockInv' /\ thread' \in [Calls -> {"off"} \union Busy \union Ended]
    BY <1>0, <2>1, WorkerLock DEF Busy
  <2>3. ConnTypeOK'
    BY <1>0, <2>1, <2>2 DEF ConnInv, ConnTypeOK, Nothing
  <2>4. WorkInv'
    BY <2>1, SizeIsPositive DEF ConnInv, ConnTypeOK, WorkInv, To, Nothing, Busy
  <2> QED
    BY <2>2, <2>3, <2>4 DEF ConnInv
<1>6. CASE Refuses(c)
  <2>1. thread[c] \in Busy /\ thread[c] = "run" /\ To(c, "undo") /\ UNCHANGED <<attempt, conn>>
    BY <1>6 DEF Refuses, Busy
  <2>2. LockInv' /\ thread' \in [Calls -> {"off"} \union Busy \union Ended]
    BY <1>0, <2>1, WorkerLock DEF Busy
  <2>3. ConnTypeOK'
    BY <1>0, <2>1, <2>2 DEF ConnInv, ConnTypeOK, conn
  <2>4. WorkInv'
    BY <2>1 DEF ConnInv, ConnTypeOK, WorkInv, To, conn, Busy
  <2> QED
    BY <2>2, <2>3, <2>4 DEF ConnInv
<1>7. CASE Commit(c)
  <2>1. /\ thread[c] \in Busy /\ thread[c] = "run" /\ work[c] = Size(c)
        /\ To(c, "ok") /\ UNCHANGED <<attempt, link, limbo>>
    BY <1>7 DEF Commit, Busy
  <2>2. \A d \in Calls : d # c => work[d] = 0
    BY <2>1, Alone
  <2>3. /\ work' = Nothing
        /\ applied' = [applied EXCEPT ![c] = Size(c)]
    <3>1. applied \in [Calls -> Nat] /\ Size(c) \in Nat /\ applied[c] + work[c] = Size(c)
      BY <2>1, SizeIsPositive DEF ConnInv, ConnTypeOK, WorkInv
    <3>2. \A d \in Calls : d # c => applied[d] + work[d] = applied[d]
      BY <2>2, <3>1
    <3>3. /\ work' = [d \in Calls |-> 0]
          /\ applied' = [d \in Calls |-> applied[d] + work[d]]
      BY <1>7 DEF Commit, Land
    <3> QED
      BY <3>1, <3>2, <3>3 DEF Nothing
  <2>4. LockInv' /\ thread' \in [Calls -> {"off"} \union Busy \union Ended]
    BY <1>0, <2>1, WorkerLock DEF Ended
  <2>5. ConnTypeOK'
    BY <1>0, <2>1, <2>3, <2>4, SizeIsPositive DEF ConnInv, ConnTypeOK, Nothing
  <2>6. WorkInv'
    BY <2>1, <2>3, SizeIsPositive DEF ConnInv, ConnTypeOK, WorkInv, To, Nothing, Busy
  <2> QED
    BY <2>4, <2>5, <2>6 DEF ConnInv
<1>8. CASE Undo(c)
  <2>1. /\ thread[c] \in Busy /\ To(c, "raised")
        /\ work' = Nothing /\ link' \in {"up", "down"}
        /\ UNCHANGED <<attempt, applied, limbo>>
    BY <1>8 DEF Undo, Busy, Refresh
  <2>2. LockInv' /\ thread' \in [Calls -> {"off"} \union Busy \union Ended]
    BY <1>0, <2>1, WorkerLock DEF Ended
  <2>3. ConnTypeOK'
    BY <1>0, <2>1, <2>2 DEF ConnInv, ConnTypeOK, Nothing
  <2>4. WorkInv'
    BY <2>1, SizeIsPositive DEF ConnInv, ConnTypeOK, WorkInv, To, Nothing, Busy
  <2> QED
    BY <2>2, <2>3, <2>4 DEF ConnInv
<1> QED
  BY <1>1, <1>2, <1>3, <1>4, <1>5, <1>6, <1>7, <1>8 DEF Worker

LEMMA LateStep ==
    ASSUME ConnInv, NEW c \in Calls, Late(c)
    PROVE  ConnInv'
<1>1. /\ c \in limbo /\ applied[c] = 0 /\ limbo' = limbo \ {c}
      /\ applied' = applied \/ applied' = [applied EXCEPT ![c] = Size(c)]
      /\ UNCHANGED <<call, waiters, lock, thread, attempt, link, work>>
  BY SizeIsPositive DEF ConnInv, ConnTypeOK, WorkInv, Late
<1>2. ConnTypeOK'
  BY <1>1, SizeIsPositive DEF ConnInv, ConnTypeOK
<1>3. LockInv'
  BY <1>1 DEF ConnInv, LockInv
<1>4. WorkInv'
  BY <1>1, SizeIsPositive DEF ConnInv, ConnTypeOK, WorkInv
<1> QED
  BY <1>2, <1>3, <1>4 DEF ConnInv

LEMMA StepConn == ConnInv /\ [ConnNext]_connVars => ConnInv'
<1> SUFFICES ASSUME ConnInv, [ConnNext]_connVars PROVE ConnInv'
  OBVIOUS
<1>1. CASE UNCHANGED connVars
  BY <1>1 DEF connVars, conn, ConnInv, ConnTypeOK, LockInv, WorkInv
<1>2. CASE ConnNext
  BY <1>2, CoroutineStep, WorkerStep, LateStep DEF ConnNext
<1> QED
  BY <1>1, <1>2

LEMMA AlwaysConn == ConnSpec => []ConnInv
BY InitConn, StepConn, PTL DEF ConnSpec

\* Whoever is cancelled and whenever, two threads never share the connection
\* (_run_serialized).
THEOREM NeverTwoThreads == ConnSpec => []OneThread
<1>1. ConnInv => OneThread
  BY DEF ConnInv, LockInv, OneThread
<1> QED
  BY <1>1, AlwaysConn, PTL

\* The statements of a call are in the database together or not at all, and
\* once (_execute_query_sync, _transaction_sync).
THEOREM WholeOrNothing == ConnSpec => []AllOrNothing
<1>1. ConnInv => AllOrNothing
  BY DEF ConnInv, WorkInv, AllOrNothing
<1> QED
  BY <1>1, AlwaysConn, PTL

\* "ok" means the effect is there, "Exceeded maximum retry attempts" that it
\* never will be (_execute_query_sync).
THEOREM AnswersAreTrue == ConnSpec => []AnswerIsTrue
<1>1. ConnInv => AnswerIsTrue
  BY DEF ConnInv, LockInv, WorkInv, AnswerIsTrue, Ended
<1> QED
  BY <1>1, AlwaysConn, PTL

-------------------------------------------------------------------------------
\* Refinement: a commit, or the late effect of one, is TakeEffect; every answer
\* is Told; the rest stutters.

LEMMA AnswerOf ==
    ASSUME NEW c \in Calls
    PROVE  /\ call[c] \in {"new", "queued", "held"} => Answer[c] = "none"
           /\ call[c] = "orphaned" => Answer[c] = "cancelled"
           /\ call[c] \in Settled => Answer[c] = call[c]
BY DEF Answer, Settled, Ended

LEMMA EffectOf == ASSUME ConnTypeOK PROVE \A c \in Calls : c \in Effect <=> applied[c] # 0
BY DEF Effect, ConnTypeOK

LEMMA SameAnswer == call' = call => Answer' = Answer
BY DEF Answer

LEMMA SameEffect == applied' = applied => Effect' = Effect
BY DEF Effect

LEMMA AnswerStep ==
    ASSUME ConnInv, NEW c \in Calls,
           NEW a \in Settled, NEW b \in Settled \union {"orphaned"},
           call[c] \in {"queued", "held"}, call' = [call EXCEPT ![c] = b],
           a = IF b = "orphaned" THEN "cancelled" ELSE b,
           applied' = applied
    PROVE  Contract!Told(c, a)
<1>1. Answer[c] = "none"
  BY AnswerOf
<1>2. Answer' = [Answer EXCEPT ![c] = a]
  <2>1. Answer \in [Calls -> {"none"} \union Settled] /\ DOMAIN Answer = Calls
    BY DEF Answer, Settled, Ended
  <2>2. DOMAIN Answer' = Calls
    BY DEF Answer
  <2>3. ASSUME NEW d \in Calls PROVE Answer'[d] = IF d = c THEN a ELSE Answer[d]
    BY DEF Answer, ConnInv, ConnTypeOK, Settled, Ended
  <2>4. Answer' = [d \in Calls |-> IF d = c THEN a ELSE Answer[d]]
    BY <2>3 DEF Answer
  <2> QED
    BY <2>1, <2>4
<1> QED
  BY <1>1, <1>2, SameEffect DEF Contract!Told

LEMMA EffectStep ==
    ASSUME ConnInv, NEW c \in Calls, applied[c] = 0,
           applied' = [applied EXCEPT ![c] = Size(c)],
           call' = call, Answer[c] \notin {"ok", "exceeded"}
    PROVE  Contract!TakeEffect(c)
<1>1. c \notin Effect
  BY EffectOf DEF ConnInv
<1>2. Effect' = Effect \union {c}
  BY SizeIsPositive DEF Effect, ConnInv, ConnTypeOK
<1> QED
  BY <1>1, <1>2, SameAnswer DEF Contract!TakeEffect

LEMMA RefinesStep == ConnInv /\ [ConnNext]_connVars => [Contract!Next]_<<Answer, Effect>>
<1> SUFFICES ASSUME ConnInv, [ConnNext]_connVars
    PROVE  [Contract!Next]_<<Answer, Effect>>
  OBVIOUS
<1>0. ASSUME UNCHANGED <<Answer, Effect>> PROVE [Contract!Next]_<<Answer, Effect>>
  BY <1>0
<1>1. CASE UNCHANGED connVars
  BY <1>1, SameAnswer, SameEffect DEF connVars, conn
<1>2. CASE ConnNext
  <2> PICK c \in Calls :
         \/ Submit(c) \/ Acquire(c) \/ Return(c)
         \/ CancelQueued(c) \/ CancelHeld(c) \/ GivenBack(c)
         \/ Worker(c) \/ Late(c)
    BY <1>2 DEF ConnNext
  <2>1. CASE Submit(c) \/ Acquire(c) \/ GivenBack(c)
    <3>1. applied' = applied
      BY <2>1 DEF Submit, Acquire, GivenBack, conn
    <3>2. Answer' = Answer
      BY <2>1 DEF Submit, Acquire, GivenBack, Answer, ConnInv, ConnTypeOK, Settled, Ended
    <3> QED
      BY <3>1, <3>2, SameEffect
  <2>2. CASE Return(c)
    <3>1. /\ thread[c] \in Ended /\ call[c] = "held" /\ applied' = applied
          /\ call' = [call EXCEPT ![c] = thread[c]]
      BY <2>2 DEF Return, conn
    <3>2. Contract!Told(c, thread[c])
      BY <3>1, AnswerStep DEF Settled, Ended
    <3>3. /\ thread[c] = "ok" => c \in Effect
          /\ thread[c] = "exceeded" => c \notin Effect
      BY <3>1, EffectOf, SizeIsPositive DEF ConnInv, WorkInv
    <3>4. Contract!Succeed(c) \/ Contract!GiveUp(c) \/ Contract!Unsure(c)
      BY <3>1, <3>2, <3>3 DEF Contract!Succeed, Contract!GiveUp, Contract!Unsure, Ended
    <3> QED
      BY <3>4 DEF Contract!Next
  <2>3. CASE CancelQueued(c) \/ CancelHeld(c)
    <3>1. /\ call[c] \in {"queued", "held"} /\ applied' = applied
          /\ \/ call' = [call EXCEPT ![c] = "cancelled"]
             \/ call' = [call EXCEPT ![c] = "orphaned"]
      BY <2>3 DEF CancelQueued, CancelHeld, conn
    <3>2. Contract!Told(c, "cancelled")
      BY <3>1, AnswerStep DEF Settled
    <3> QED
      BY <3>2 DEF Contract!Unsure, Contract!Next
  <2>4. CASE Worker(c)
    <3>0. call' = call
      BY <2>4 DEF Worker
    <3>1. CASE PingWorks(c)
      <4>1. thread[c] \in Busy /\ work[c] = 0
        BY <3>1 DEF PingWorks, Busy, ConnInv, WorkInv
      <4>2. \A d \in Calls : work[d] = 0
        BY <4>1, Alone
      <4>3. applied' = applied
        BY <3>1, <4>2 DEF PingWorks, Land, ConnInv, ConnTypeOK
      <4> QED
        BY <3>0, <4>3, SameAnswer, SameEffect
    <3>2. CASE Commit(c)
      <4>1. thread[c] \in Busy /\ thread[c] = "run" /\ work[c] = Size(c)
        BY <3>2 DEF Commit, Busy
      <4>2. \A d \in Calls : d # c => work[d] = 0
        BY <4>1, Alone
      <4>3. applied[c] = 0 /\ applied' = [applied EXCEPT ![c] = Size(c)]
        <5>1. applied \in [Calls -> Nat] /\ Size(c) \in Nat /\ applied[c] = 0
          BY <4>1, SizeIsPositive DEF ConnInv, ConnTypeOK, WorkInv
        <5>2. applied' = [d \in Calls |-> applied[d] + work[d]]
          BY <3>2 DEF Commit, Land
        <5>3. applied[c] + work[c] = Size(c)
          BY <4>1, <5>1
        <5>4. \A d \in Calls : d # c => applied[d] + work[d] = applied[d]
          BY <4>2, <5>1
        <5> QED
          BY <5>1, <5>2, <5>3, <5>4
      <4>4. call[c] \in Held
        BY <4>1, Alone
      <4>5. Answer[c] \notin {"ok", "exceeded"}
        BY <4>4, AnswerOf DEF Held
      <4> QED
        BY <3>0, <4>3, <4>5, EffectStep DEF Contract!Next
    <3>3. CASE ~PingWorks(c) /\ ~Commit(c)
      <4>1. applied' = applied
        BY <2>4, <3>3 DEF Worker, PingLost, CursorLost, Retry, PingRaises, Execute, Breaks,
                          Refuses, Undo, conn
      <4> QED
        BY <3>0, <4>1, SameAnswer, SameEffect
    <3> QED
      BY <3>1, <3>2, <3>3
  <2>5. CASE Late(c)
    <3>1. call' = call /\ c \in limbo /\ applied[c] = 0
      BY <2>5 DEF Late, ConnInv, WorkInv
    <3>2. applied' = applied \/ applied' = [applied EXCEPT ![c] = Size(c)]
      BY <2>5, <3>1, SizeIsPositive DEF Late, ConnInv, ConnTypeOK
    <3>3. Answer[c] \notin {"ok", "exceeded"}
      <4>1. call[c] \notin {"ok", "exceeded"}
        BY <3>1 DEF ConnInv, LockInv, WorkInv, Ended
      <4> QED
        BY <4>1 DEF Answer, Settled, Ended
    <3> QED
      BY <3>1, <3>2, <3>3, EffectStep, SameAnswer, SameEffect DEF Contract!Next
  <2> QED
    BY <2>1, <2>2, <2>3, <2>4, <2>5
<1> QED
  BY <1>1, <1>2

LEMMA RefinesInit == ConnInit => Contract!Init
BY DEF ConnInit, Contract!Init, Answer, Effect, Nothing, Settled, Ended

\* The connector implements CallContract: whole effects, once, and answers a
\* caller can rely on (DatabaseConnector).
THEOREM ImplementsContract == ConnSpec => KeepsContract
BY RefinesInit, RefinesStep, AlwaysConn, PTL DEF ConnSpec, KeepsContract, Contract!Spec
===============================================================================
