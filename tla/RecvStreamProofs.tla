-------------------------- MODULE RecvStreamProofs --------------------------
(***************************************************************************)
(* Proofs about RecvStream, for every number of calls, every set of codes  *)
(* and session errors, every amount of data and every n and limit.         *)
(***************************************************************************)
EXTENDS RecvStream, FairLockProofs

InLock == AwaitsLock \cup HoldsLock
Exits  == {"aexit_ok", "aexit_exc"}

-----------------------------------------------------------------------------
(* The kinds of steps: a task moves, or it runs.  Every action of a task but the
   last steps of an interrupted read and of __aexit__ is one of the two. *)

Move(t) ==
    \/ PollCancelled(t) \/ PollStart(t) \/ Lock(t) \/ LockGranted(t) \/ Resume(t) \/ Relock(t)
    \/ ExitStore(t) \/ ExitCancel(t) \/ ExitLock(t)
    \/ ExitCheck(t) /\ ~eof

Run(t) ==
    \/ RunReadChunk(t) \/ RunReadZero(t) \/ RunReadAll(t) \/ RunReadExactly(t)
    \/ RunWaitClosed(t)

\* A moving task goes on from its place; nothing else but the token and the mutex changes.
Moved(t) ==
    /\ UNCHANGED <<calls, kind, result, dataVars, pyVars, peerVars, recv_state, sent_code>>
    /\ pc' = [pc EXCEPT ![t] = pc'[t]]
    /\ pc[t] \notin {"uncalled", "done"}
    /\ pc'[t] \in Labels \ {"uncalled", "blocked", "done"}
    /\ pc'[t] \in Fresh => pc[t] \in Fresh
    /\ pc'[t] = "running" => pc[t] \in Fresh \cup {"blocked"}
    /\ pc'[t] \in Exiting => kind[t] \in Exits \/ pc[t] \in Exiting

\* The exception r is true now.
Truthful(r) ==
    \/ r = "StreamClosedLocally" /\ recv_state # "open"
    \/ r = "StreamClosedByPeer" /\ peer = "reset"
    \/ r = "ProtocolError"
    \/ lost # "none" /\ r = map_session_error(lost)

\* A running operation returns without data: at the end of the data, or for an error,
\* or because it asked for none.
Returned(t) ==
    \E r \in Results \ {"none", "data", "StreamTooLongError"} :
        /\ Return(t, r)
        /\ \/ eof /\ r \in {"StopAsyncIteration", "empty"}
           \/ eof /\ r = "StreamIncompleteReadError" /\ kind[t] = "readexactly"
           \/ r = "empty" /\ kind[t] = "read_0"
           \/ r = "ok" /\ kind[t] = "wait_closed"
           \/ Truthful(r)

\* It is the one that finds the end of the data.
Ended(t) ==
    \E r \in {"StopAsyncIteration", "empty", "StreamIncompleteReadError", "data"} :
        /\ ReturnAtEnd(t, r)
        /\ recv_state = "open" /\ ~eof /\ AtEnd
        /\ r = "StreamIncompleteReadError" => kind[t] = "readexactly"
        /\ r = "data" => kind[t] = "read_all"

\* It takes n units, and goes on or returns.
Took(t, n) ==
    /\ recv_state = "open" /\ ~eof /\ n \in 1..Buffered
    /\ Take(t, n)
    /\ UNCHANGED <<eof, recv_state>>
    /\ \/ kind[t] = "anext" /\ Complete(t, "data")
       \/ kind[t] = "read_n" /\ n <= Want /\ Complete(t, "data")
       \/ kind[t] = "read_all" /\ got[t] + n > Limit /\ Complete(t, "StreamTooLongError")
       \/ kind[t] = "read_all" /\ got[t] + n <= Limit /\ UNCHANGED <<taskVars, lockq>>
       \/ kind[t] = "readexactly" /\ got[t] + n = Want /\ Complete(t, "data")
       \/ kind[t] = "readexactly" /\ got[t] + n < Want /\ UNCHANGED <<taskVars, lockq>>

Ran(t) ==
    /\ UNCHANGED <<token, pyVars, peerVars, sent_code>> /\ unordered' \in BOOLEAN
    /\ pc[t] = "running" /\ kind[t] \in Cancellable
    /\ \/ Block(t)
       \/ Returned(t)
       \/ Ended(t)
       \/ \E n \in 1..Buffered : Took(t, n)

LEMMA MoveShape ==
    ASSUME TypeOK, NEW t \in Task, Move(t)
    PROVE  Moved(t)
<1> USE DEF Moved, Goto, TypeOK, Labels, AwaitsLock, HoldsLock, Fresh, Exiting, Exits, dataVars,
            pyVars, peerVars
<1>1. CASE PollCancelled(t) BY <1>1 DEF PollCancelled
<1>2. CASE PollStart(t)     BY <1>2 DEF PollStart
<1>3. CASE Lock(t)          BY <1>3 DEF Lock
<1>4. CASE LockGranted(t)   BY <1>4 DEF LockGranted
<1>5. CASE Resume(t)        BY <1>5 DEF Resume
<1>6. CASE Relock(t)        BY <1>6 DEF Relock
<1>7. CASE ExitStore(t)     BY <1>7 DEF ExitStore
<1>8. CASE ExitCancel(t)    BY <1>8 DEF ExitCancel
<1>9. CASE ExitLock(t)      BY <1>9 DEF ExitLock
<1>10. CASE ExitCheck(t) /\ ~eof BY <1>10 DEF ExitCheck
<1> QED BY <1>1, <1>2, <1>3, <1>4, <1>5, <1>6, <1>7, <1>8, <1>9, <1>10 DEF Move

-----------------------------------------------------------------------------
(* Errors. *)

\* What map_session_error answers for the end of a session.
LEMMA SessionErrorType ==
    ASSUME TypeOK, lost # "none"
    PROVE  map_session_error(lost) \in SessionExceptions
BY RecvConstants DEF TypeOK, map_session_error, map_connection_error, map_send_datagram_error,
   SessionErrors, ConnectionErrors, DatagramErrors, SessionExceptions

\* The exception of a failed read says why it failed.
LEMMA ReadErrorTrue ==
    ASSUME TypeOK, NEW ordered \in BOOLEAN, read_error(ordered) # "none"
    PROVE  /\ map_read_error(read_error(ordered)) \in
                  {"StreamClosedLocally", "StreamClosedByPeer"} \cup SessionExceptions
           /\ Truthful(map_read_error(read_error(ordered)))
           /\ read_error(ordered) \notin {"TooLong", "FinishedEarly"}
<1> DEFINE e == read_error(ordered)
<1>1. CASE e \in {"ClosedStream", "IllegalOrderedRead", "StreamReset"}
  <2>1. (e = "ClosedStream" => recv_state = "stopped") /\ (e = "StreamReset" => peer = "reset")
    BY RecvConstants DEF read_error, TypeOK, SessionErrors, ConnectionErrors
  <2> HIDE DEF e
  <2>2. /\ e = "ClosedStream" => map_read_error(e) = "StreamClosedLocally"
        /\ e = "StreamReset" => map_read_error(e) = "StreamClosedByPeer"
        /\ e = "IllegalOrderedRead" => map_read_error(e) = "ProtocolError"
    BY DEF map_read_error, SessionErrors, ConnectionErrors
  <2>3. map_read_error(e) \in {"StreamClosedLocally", "StreamClosedByPeer"} \cup SessionExceptions
        /\ Truthful(map_read_error(e)) /\ e \notin {"TooLong", "FinishedEarly"}
    BY <1>1, <2>1, <2>2 DEF Truthful, SessionExceptions
  <2> QED BY <2>3 DEF e
<1>2. CASE e \notin {"ClosedStream", "IllegalOrderedRead", "StreamReset"}
  <2>1. e = lost /\ lost # "none" /\ lost \in SessionErrors
    BY <1>2, RecvConstants DEF read_error, TypeOK
  <2>2. map_read_error(lost) = map_session_error(lost)
    BY <2>1 DEF map_read_error, SessionErrors, ConnectionErrors
  <2>3. lost \notin {"TooLong", "FinishedEarly"}
    BY <2>1 DEF SessionErrors, ConnectionErrors
  <2> HIDE DEF e
  <2>4. map_read_error(e) \in {"StreamClosedLocally", "StreamClosedByPeer"} \cup SessionExceptions
        /\ Truthful(map_read_error(e)) /\ e \notin {"TooLong", "FinishedEarly"}
    BY <2>1, <2>2, <2>3, SessionErrorType DEF Truthful
  <2> QED BY <2>4 DEF e
<1> QED BY <1>1, <1>2

\* The buffer is a number of units, and a read without error finds the stream open.
LEMMA BufferType ==
    ASSUME TypeOK, EndInv
    PROVE  /\ arrived \in Nat /\ Len(taken) \in Nat /\ Buffered \in Nat
           /\ \A ordered \in BOOLEAN :
                  ~eof /\ read_error(ordered) = "none" => recv_state = "open"
<1>1. arrived \in Nat /\ Len(taken) \in Nat /\ Buffered \in Nat
  BY RecvConstants DEF TypeOK, Buffered
<1>2. ASSUME NEW ordered \in BOOLEAN, ~eof, read_error(ordered) = "none"
      PROVE  recv_state = "open"
  <2>1. recv_state # "drained"
    BY <1>2 DEF EndInv
  <2>2. recv_state # "stopped"
    BY <1>2 DEF read_error
  <2> QED BY <2>1, <2>2 DEF TypeOK
<1> QED BY <1>1, <1>2

\* What a running operation may do in one step.
LEMMA RunShape ==
    ASSUME TypeOK, EndInv, GotInv, NEW t \in Task, Run(t)
    PROVE  Ran(t)
<1> DEFINE Kept == UNCHANGED <<token, pyVars, peerVars, sent_code>> /\ unordered' \in BOOLEAN
                   /\ pc[t] = "running" /\ kind[t] \in Cancellable
<1>0. /\ Want \in Nat \ {0} /\ Limit \in Nat /\ got[t] \in Nat /\ unordered \in BOOLEAN
      /\ eof \in BOOLEAN
  BY RecvConstants DEF TypeOK
<1>1. CASE RunReadChunk(t)
  <2>0. Kept
    BY <1>1, <1>0 DEF RunReadChunk, Cancellable, AllKinds
  <2> DEFINE at_end == IF kind[t] = "anext" THEN "StopAsyncIteration" ELSE "empty"
             most   == IF kind[t] = "read_n" /\ Want < Buffered THEN Want ELSE Buffered
             error  == read_error(TRUE)
  <2>1. CASE eof /\ Return(t, at_end)
    BY <2>0, <2>1 DEF Ran, Returned, Results
  <2>2. CASE ~eof /\ error # "none" /\ Return(t, map_read_error(error))
    <3>1. map_read_error(error) \in Results \ {"none", "data", "StreamTooLongError"}
          /\ Truthful(map_read_error(error))
      BY <2>2, ReadErrorTrue DEF Results, SessionExceptions
    <3> QED BY <2>0, <2>2, <3>1 DEF Ran, Returned
  <2>3. CASE ~eof /\ error = "none" /\ AtEnd /\ ReturnAtEnd(t, at_end)
    BY <2>0, <2>3, BufferType DEF Ran, Ended
  <2>4. CASE /\ ~eof /\ error = "none" /\ \E n \in 1..most : Take(t, n)
             /\ Complete(t, "data") /\ UNCHANGED <<eof, recv_state>>
    <3>1. PICK n \in 1..most : Take(t, n)
      BY <2>4
    <3>2. n \in 1..Buffered /\ (kind[t] = "read_n" => n <= Want)
      BY <1>0, BufferType
    <3>3. kind[t] \in {"anext", "read_n"} /\ recv_state = "open"
      BY <1>1, <2>4, BufferType DEF RunReadChunk
    <3> QED BY <2>0, <2>4, <3>1, <3>2, <3>3 DEF Ran, Took
  <2>5. CASE Block(t)
    BY <2>0, <2>5 DEF Ran
  <2> QED BY <1>1, <2>1, <2>2, <2>3, <2>4, <2>5 DEF RunReadChunk
<1>2. CASE RunReadZero(t)
  BY <1>0, <1>2 DEF RunReadZero, Ran, Returned, Results, Cancellable, AllKinds
<1>3. CASE RunReadAll(t)
  <2>0. Kept /\ kind[t] = "read_all"
    BY <1>3, <1>0 DEF RunReadAll, Cancellable, AllKinds
  <2> DEFINE error == read_error(FALSE)
  <2>1. CASE eof /\ Return(t, "empty")
    BY <2>0, <2>1 DEF Ran, Returned, Results
  <2>2. CASE ~eof /\ error # "none" /\ Return(t, map_read_to_end_error(error))
    <3>1. /\ map_read_error(error) \in Results \ {"none", "data", "StreamTooLongError"}
          /\ Truthful(map_read_error(error))
          /\ map_read_to_end_error(error) = map_read_error(error)
      BY <2>2, ReadErrorTrue DEF Results, SessionExceptions, map_read_to_end_error
    <3> QED BY <2>0, <2>2, <3>1 DEF Ran, Returned
  <2>3. CASE ~eof /\ error = "none" /\ AtEnd /\ ReturnAtEnd(t, "data")
    BY <2>0, <2>3, BufferType DEF Ran, Ended
  <2>4. CASE /\ ~eof /\ error = "none" /\ Buffered > 0
             /\ Take(t, Buffered)
             /\ IF too_long(t)
                THEN Complete(t, map_read_to_end_error("TooLong"))
                ELSE UNCHANGED <<taskVars, lockq>>
             /\ UNCHANGED <<eof, recv_state>>
    <3>0. Buffered \in Nat /\ recv_state = "open"
      BY <2>4, BufferType
    <3>1. Buffered \in 1..Buffered
      BY <2>4, <3>0
    <3>2. Took(t, Buffered)
      BY <1>0, <2>0, <2>4, <3>0, <3>1 DEF Took, too_long, map_read_to_end_error
    <3> QED BY <2>0, <3>1, <3>2 DEF Ran
  <2>5. CASE Block(t)
    BY <2>0, <2>5 DEF Ran
  <2> QED BY <1>3, <2>1, <2>2, <2>3, <2>4, <2>5 DEF RunReadAll
<1>4. CASE RunReadExactly(t)
  <2>0. Kept /\ kind[t] = "readexactly"
    BY <1>4, <1>0 DEF RunReadExactly, Cancellable, AllKinds
  <2> DEFINE error == read_error(TRUE)
             n == IF Want - got[t] < Buffered THEN Want - got[t] ELSE Buffered
  <2>1. CASE eof /\ Return(t, "StreamIncompleteReadError")
    BY <2>0, <2>1 DEF Ran, Returned, Results
  <2>2. CASE ~eof /\ error # "none" /\ Return(t, map_read_exact_error(error))
    <3>1. /\ map_read_error(error) \in Results \ {"none", "data", "StreamTooLongError"}
          /\ Truthful(map_read_error(error))
          /\ map_read_exact_error(error) = map_read_error(error)
      BY <2>2, ReadErrorTrue DEF Results, SessionExceptions, map_read_exact_error
    <3> QED BY <2>0, <2>2, <3>1 DEF Ran, Returned
  <2>3. CASE /\ ~eof /\ error = "none" /\ AtEnd
             /\ ReturnAtEnd(t, map_read_exact_error("FinishedEarly"))
    BY <2>0, <2>3, BufferType DEF Ran, Ended, map_read_exact_error
  <2>4. CASE /\ ~eof /\ error = "none" /\ Buffered > 0
             /\ Take(t, n)
             /\ IF got[t] + n = Want
                THEN Complete(t, "data")
                ELSE UNCHANGED <<taskVars, lockq>>
             /\ UNCHANGED <<eof, recv_state>>
    <3>1. got[t] < Want
      BY <2>0 DEF GotInv
    <3>2. n \in Nat /\ n \in 1..Buffered /\ got[t] + n <= Want
      BY <1>0, <2>4, <3>1, BufferType
    <3>3. recv_state = "open"
      BY <2>4, BufferType
    <3> HIDE DEF n, error
    <3>4. Took(t, n)
      <4>1. CASE got[t] + n = Want
        BY <2>0, <2>4, <3>2, <3>3, <4>1 DEF Took
      <4>2. CASE got[t] + n # Want
        <5>1. got[t] + n < Want
          BY <1>0, <3>2, <3>3, <4>2
        <5> QED BY <2>0, <2>4, <3>2, <3>3, <4>2, <5>1 DEF Took
      <4> QED BY <4>1, <4>2
    <3> QED BY <2>0, <3>2, <3>4 DEF Ran
  <2>5. CASE Block(t)
    BY <2>0, <2>5 DEF Ran
  <2> QED BY <1>4, <2>1, <2>2, <2>3, <2>4, <2>5 DEF RunReadExactly
<1>5. CASE RunWaitClosed(t)
  <2>0. Kept /\ kind[t] = "wait_closed"
    BY <1>5, <1>0 DEF RunWaitClosed, Cancellable, AllKinds
  <2>1. CASE Return(t, "ok")
    BY <2>0, <2>1 DEF Ran, Returned, Results
  <2>2. CASE lost # "none" /\ Return(t, map_session_error(lost))
    <3>1. map_session_error(lost) \in Results \ {"none", "data", "StreamTooLongError"}
      BY <2>2, SessionErrorType DEF Results, SessionExceptions
    <3> QED BY <2>0, <2>2, <3>1 DEF Ran, Returned, Truthful
  <2>3. CASE Block(t)
    BY <2>0, <2>3 DEF Ran
  <2> QED BY <1>5, <2>1, <2>2, <2>3 DEF RunWaitClosed
<1> QED BY <1>1, <1>2, <1>3, <1>4, <1>5 DEF Run

-----------------------------------------------------------------------------
(* The mutex queue. *)

\* A step that leaves the queue alone.
LEMMA StayStep ==
    ASSUME TypeOK, LockInv, NEW t \in Task, NEW l, Goto(t, l), lockq' = lockq,
           l \in InLock <=> pc[t] \in InLock,
           l \in HoldsLock => Owns(lockq, t)
    PROVE  LockInv' /\ lockq' \in Seq(Task)
<1>1. Disciplined(lockq, Task, pc, InLock, HoldsLock)
  BY DEF LockInv, Disciplined, InLock
<1>2. Disciplined(lockq, Task, [pc EXCEPT ![t] = l], InLock, HoldsLock)
  BY <1>1, StayLemma DEF TypeOK
<1> QED BY <1>2 DEF LockInv, Disciplined, InLock, Goto, TypeOK

\* lock().await.
LEMMA JoinStep ==
    ASSUME TypeOK, LockInv, NEW t \in Task, NEW l, Goto(t, l), lockq' = Acquire(lockq, t),
           pc[t] \notin InLock, l \in InLock,
           l \in HoldsLock => IsFree(lockq)
    PROVE  LockInv' /\ lockq' \in Seq(Task)
<1>1. Disciplined(lockq, Task, pc, InLock, HoldsLock)
  BY DEF LockInv, Disciplined, InLock
<1>2. Acquire(lockq, t) \in Seq(Task)
      /\ Disciplined(Acquire(lockq, t), Task, [pc EXCEPT ![t] = l], InLock, HoldsLock)
  BY <1>1, JoinLemma DEF TypeOK
<1> QED BY <1>2 DEF LockInv, Disciplined, InLock, Goto

\* The future is dropped or completes.
LEMMA LeaveStep ==
    ASSUME TypeOK, LockInv, NEW t \in Task, NEW l, Goto(t, l), lockq' = Leave(lockq, t),
           l \notin InLock
    PROVE  LockInv' /\ lockq' \in Seq(Task)
<1>1. Disciplined(lockq, Task, pc, InLock, HoldsLock)
  BY DEF LockInv, Disciplined, InLock
<1>2. Leave(lockq, t) \in Seq(Task)
      /\ Disciplined(Leave(lockq, t), Task, [pc EXCEPT ![t] = l], InLock, HoldsLock)
  BY <1>1, DropLemma DEF TypeOK, InLock
<1> QED BY <1>2 DEF LockInv, Disciplined, InLock, Goto

LEMMA CompleteStep ==
    ASSUME TypeOK, LockInv, NEW t \in Task, NEW r, Complete(t, r)
    PROVE  LockInv' /\ lockq' \in Seq(Task)
BY LeaveStep DEF Complete, InLock, AwaitsLock, HoldsLock

\* Mutual exclusion: two tasks inside are the same task.
LEMMA OneHolder ==
    ASSUME TypeOK, LockInv, NEW t \in Task, NEW u \in Task,
           Owns(lockq, t), pc[u] \in HoldsLock
    PROVE  u = t
BY DEF LockInv, Owns

\* A task that moves keeps the mutex discipline.
LEMMA MoveLock ==
    ASSUME TypeOK, LockInv, NEW t \in Task, Move(t)
    PROVE  LockInv' /\ lockq' \in Seq(Task)
<1> USE DEF InLock, AwaitsLock, HoldsLock
<1>1. CASE PollCancelled(t)
  BY <1>1, LeaveStep DEF PollCancelled
<1>2. CASE PollStart(t)
  BY <1>2, StayStep DEF PollStart
<1>3. CASE Lock(t)
  <2>1. CASE IsFree(lockq)
    BY <1>3, <2>1, Goto(t, "running"), JoinStep DEF Lock
  <2>2. CASE ~IsFree(lockq)
    BY <1>3, <2>2, Goto(t, "queued"), JoinStep DEF Lock
  <2> QED BY <2>1, <2>2
<1>4. CASE LockGranted(t)
  BY <1>4, StayStep DEF LockGranted
<1>5. CASE Resume(t)
  BY <1>5, Owns(lockq, t), StayStep DEF Resume, LockInv
<1>6. CASE Relock(t)
  <2>1. CASE IsFree(lockq)
    BY <1>6, <2>1, Goto(t, "stopping"), JoinStep DEF Relock
  <2>2. CASE ~IsFree(lockq)
    BY <1>6, <2>2, Goto(t, "stop_queued"), JoinStep DEF Relock
  <2> QED BY <2>1, <2>2
<1>7. CASE ExitStore(t)
  BY <1>7, StayStep DEF ExitStore
<1>8. CASE ExitCancel(t)
  BY <1>8, StayStep DEF ExitCancel
<1>9. CASE ExitLock(t)
  <2>1. CASE IsFree(lockq)
    BY <1>9, <2>1, Goto(t, "exiting"), JoinStep DEF ExitLock
  <2>2. CASE ~IsFree(lockq)
    BY <1>9, <2>2, Goto(t, "exit_queued"), JoinStep DEF ExitLock
  <2> QED BY <2>1, <2>2
<1>10. CASE ExitCheck(t) /\ ~eof
  BY <1>10, StayStep DEF ExitCheck
<1> QED BY <1>1, <1>2, <1>3, <1>4, <1>5, <1>6, <1>7, <1>8, <1>9, <1>10 DEF Move

\* A suspended operation keeps the guard it owns.
LEMMA BlockLock ==
    ASSUME TypeOK, LockInv, NEW t \in Task, pc[t] = "running", Block(t)
    PROVE  LockInv' /\ lockq' \in Seq(Task)
BY Owns(lockq, t), StayStep DEF Block, LockInv, InLock, AwaitsLock, HoldsLock

-----------------------------------------------------------------------------
(* Every step is of one of these kinds. *)

\* A call that ends outside the operation it is for: interrupted, in __aexit__ or dropped.
Left(t) == StopInterrupted(t) \/ ExitRun(t) \/ (ExitCheck(t) /\ eof) \/ DropTask(t)

\* A step of the Python thread or of the peer, or none.
Outside ==
    \/ \E code \in Code : PyStop(code)
    \/ PyStep \/ Peer
    \/ UNCHANGED vars

LEMMA StepCases ==
    ASSUME TypeOK, EndInv, GotInv, [Next]_vars
    PROVE  \/ \E t \in Task : Move(t) /\ Moved(t)
           \/ \E t \in Task : Ran(t)
           \/ \E t \in Task : Left(t)
           \/ \E k \in Kinds : Call(k)
           \/ Outside
<1>1. ASSUME NEW t \in Task, TaskStep(t) PROVE Move(t) \/ Run(t) \/ Left(t)
  BY <1>1 DEF TaskStep, Move, Run, Left
<1>2. ASSUME NEW t \in Task, TaskStep(t) PROVE (Move(t) /\ Moved(t)) \/ Ran(t) \/ Left(t)
  BY <1>1, <1>2, MoveShape, RunShape
<1>3. Python => \/ \E k \in Kinds : Call(k)
                \/ \E code \in Code : PyStop(code)
                \/ \E t \in Task : Left(t)
  BY DEF Python, Left
<1> QED BY <1>2, <1>3 DEF Next, Outside

\* What a step of the Python thread or of the peer leaves alone.
LEMMA OutsideShape ==
    ASSUME Outside
    PROVE  UNCHANGED <<calls, kind, pc, result, lockq, got, taken, eof, unordered>>
BY DEF Outside, PyStop, PyStep, PyStopStore, PyStopCancel, PyStopTry, Peer, PeerData,
   PeerFinish, PeerReset, SessionLost, vars, taskVars, dataVars

\* What a call that ends so leaves alone, and why it may.
LEMMA LeftShape ==
    ASSUME TypeOK, NEW t \in Task, Left(t)
    PROVE  /\ UNCHANGED <<got, taken, eof, unordered, cancel, stop_code, py_pc, stop_arg, arrived,
                          peer, lost>>
           /\ pc[t] \notin {"uncalled", "done"}
           /\ \/ /\ pc[t] \in {"stopping", "stop_queued"} /\ Owns(lockq, t)
                 /\ Complete(t, "StreamClosedLocally") /\ quic_stop(stop_code)
              \/ /\ pc[t] \in {"exiting", "exit_queued"} /\ Owns(lockq, t)
                 /\ Complete(t, "ok") /\ quic_stop(0)
              \/ /\ kind[t] = "aexit_ok" /\ pc[t] = "spawned" /\ eof
                 /\ Complete(t, "ok") /\ UNCHANGED <<recv_state, sent_code>>
              \/ Complete(t, "CancelledError") /\ UNCHANGED <<recv_state, sent_code>>
<1> USE DEF dataVars, token, pyVars, peerVars
<1>1. CASE StopInterrupted(t) BY <1>1 DEF StopInterrupted
<1>2. CASE ExitRun(t)         BY <1>2 DEF ExitRun
<1>3. CASE ExitCheck(t) /\ eof BY <1>3 DEF ExitCheck
<1>4. CASE DropTask(t)        BY <1>4 DEF DropTask, Suspended, AwaitsLock
<1> QED BY <1>1, <1>2, <1>3, <1>4 DEF Left

\* A call takes the next number; its task is spawned.
LEMMA CallShape ==
    ASSUME TypeOK, CallInv, NEW k \in Kinds, Call(k)
    PROVE  /\ calls + 1 \in Task /\ pc[calls + 1] = "uncalled" /\ kind[calls + 1] = "none"
           /\ calls' = calls + 1 /\ k # "none"
           /\ pc' = [pc EXCEPT ![calls + 1] = "spawned"]
           /\ kind' = [kind EXCEPT ![calls + 1] = k]
           /\ UNCHANGED <<result, lockq, got, taken, eof, unordered, cancel, stop_code, py_pc,
                          stop_arg, arrived, peer, lost, recv_state, sent_code>>
<1>1. calls + 1 \in Task /\ calls + 1 > calls
  BY RecvConstants DEF Call, TypeOK, Task
<1>2. pc[calls + 1] = "uncalled" /\ kind[calls + 1] = "none"
  BY <1>1 DEF CallInv
<1> QED BY <1>1, <1>2, RecvConstants
        DEF Call, AllKinds, dataVars, token, pyVars, peerVars

-----------------------------------------------------------------------------
(* One step keeps the types and the mutex discipline. *)

\* Units taken out of the buffer stay within what arrived.
LEMMA TakeType ==
    ASSUME TypeOK, EndInv, GotInv, NEW t \in Task, NEW n \in 1..Buffered, Take(t, n)
    PROVE  /\ n \in Nat /\ n >= 1
           /\ taken' \in Seq(Task) /\ Len(taken') = Len(taken) + n /\ Len(taken') <= arrived
           /\ \A i \in 1..Len(taken') : taken'[i] = IF i <= Len(taken) THEN taken[i] ELSE t
           /\ got' \in [Task -> 0..Units]
           /\ got'[t] = got[t] + n /\ \A u \in Task \ {t} : got'[u] = got[u]
<1>0. /\ arrived \in Nat /\ Len(taken) \in Nat /\ Buffered \in Nat /\ taken \in Seq(Task)
      /\ arrived <= Units /\ Units \in Nat
  BY BufferType, RecvConstants DEF TypeOK
<1>1. n \in Nat /\ n >= 1 /\ Len(taken) + n <= arrived
  BY <1>0 DEF Buffered
<1> DEFINE added == [i \in 1..n |-> t]
<1>2. added \in Seq(Task) /\ Len(added) = n /\ \A i \in 1..n : added[i] = t
  BY <1>1
<1>3. taken' = taken \o added
  BY DEF Take
<1> HIDE DEF added
<1>4. /\ taken' \in Seq(Task) /\ Len(taken') = Len(taken) + Len(added)
      /\ \A i \in 1..(Len(taken) + Len(added)) :
             taken'[i] = IF i <= Len(taken) THEN taken[i] ELSE added[i - Len(taken)]
  BY <1>0, <1>2, <1>3, ConcatProperties
<1>5. ASSUME NEW i \in 1..Len(taken')
      PROVE  taken'[i] = IF i <= Len(taken) THEN taken[i] ELSE t
  <2>1. i \in 1..(Len(taken) + Len(added))
    BY <1>4
  <2>2. CASE i <= Len(taken)
    BY <2>1, <2>2, <1>4
  <2>3. CASE ~(i <= Len(taken))
    <3>1. i - Len(taken) \in 1..n
      BY <2>1, <2>3, <1>0, <1>1, <1>2
    <3> QED BY <2>1, <2>3, <3>1, <1>2, <1>4
  <2> QED BY <2>2, <2>3
<1>6. got[t] \in Nat /\ got[t] <= Len(taken)
  BY DEF TypeOK, GotInv
<1>7. got' = [got EXCEPT ![t] = got[t] + n] /\ got \in [Task -> 0..Units]
  BY DEF Take, TypeOK
<1>8. got[t] + n \in 0..Units
  BY <1>0, <1>1, <1>6
<1> QED BY <1>1, <1>2, <1>4, <1>5, <1>7, <1>8

\* Every step keeps TypeOK and LockInv.
LEMMA LockedStep ==
    ASSUME TypeOK, LockInv, CallInv, TokenInv, EndInv, GotInv, [Next]_vars
    PROVE  TypeOK' /\ LockInv'
<1> USE RecvConstants
<1>1. ASSUME NEW t \in Task, Move(t), Moved(t) PROVE TypeOK' /\ LockInv'
  <2>1. LockInv' /\ lockq' \in Seq(Task)
    BY <1>1, MoveLock
  <2>2. cancel' \in BOOLEAN /\ stop_code' \in Code
    BY <1>1 DEF Move, PollCancelled, PollStart, Lock, LockGranted, Resume, Relock, ExitStore,
       ExitCancel, ExitLock, ExitCheck, token, TypeOK
  <2>3. pc' \in [Task -> Labels]
    BY <1>1 DEF Moved, TypeOK
  <2> QED BY <1>1, <2>1, <2>2, <2>3 DEF Moved, TypeOK, dataVars, pyVars, peerVars
<1>2. ASSUME NEW t \in Task, Ran(t) PROVE TypeOK' /\ LockInv'
  <2> USE DEF Labels, HoldsLock, token, pyVars, peerVars
  <2>1. CASE Block(t)
    <3>1. LockInv' /\ lockq' \in Seq(Task)
      BY <1>2, <2>1, BlockLock DEF Ran
    <3> QED BY <1>2, <2>1, <3>1 DEF Ran, Block, Goto, TypeOK
  <2>2. CASE Returned(t)
    <3>1. PICK r \in Results : Return(t, r)
      BY <2>2 DEF Returned
    <3>2. LockInv' /\ lockq' \in Seq(Task)
      BY <3>1, CompleteStep DEF Return
    <3> QED BY <1>2, <3>1, <3>2 DEF Ran, Return, Complete, Goto, TypeOK
  <2>3. CASE Ended(t)
    <3>1. PICK r \in Results : ReturnAtEnd(t, r)
      BY <2>3 DEF Ended, Results
    <3>2. LockInv' /\ lockq' \in Seq(Task)
      BY <3>1, CompleteStep DEF ReturnAtEnd
    <3> QED BY <1>2, <3>1, <3>2 DEF Ran, ReturnAtEnd, Complete, Goto, TypeOK
  <2>4. ASSUME NEW n \in 1..Buffered, Took(t, n) PROVE TypeOK' /\ LockInv'
    <3>1. /\ taken' \in Seq(Task) /\ Len(taken') <= arrived /\ got' \in [Task -> 0..Units]
          /\ UNCHANGED <<eof, recv_state>>
      BY <2>4, TakeType DEF Took
    <3>2. ASSUME NEW r \in Results, Complete(t, r) PROVE TypeOK' /\ LockInv'
      <4>1. LockInv' /\ lockq' \in Seq(Task)
        BY <3>2, CompleteStep
      <4> QED BY <1>2, <3>1, <3>2, <4>1, SMTT(30) DEF Ran, Complete, Goto, TypeOK
    <3>3. CASE UNCHANGED <<taskVars, lockq>>
      BY <1>2, <3>1, <3>3, SMTT(30) DEF Ran, TypeOK, LockInv, taskVars
    <3> QED BY <2>4, <3>2, <3>3 DEF Took, Results
  <2> QED BY <1>2, <2>1, <2>2, <2>3, <2>4 DEF Ran
<1>3. ASSUME NEW t \in Task, Left(t) PROVE TypeOK' /\ LockInv'
  <2>1. PICK r \in Results : Complete(t, r)
    BY <1>3, LeftShape DEF Results
  <2>2. LockInv' /\ lockq' \in Seq(Task)
    BY <2>1, CompleteStep
  <2>3. recv_state' \in {"open", "drained", "stopped"} /\ sent_code' \in Code \cup {NoCode}
    BY <1>3, LeftShape DEF quic_stop, TypeOK
  <2> QED BY <1>3, <2>1, <2>2, <2>3, LeftShape DEF Complete, Goto, TypeOK, Labels
<1>4. ASSUME NEW k \in Kinds, Call(k) PROVE TypeOK' /\ LockInv'
  <2>1. pc'[calls + 1] \notin InLock /\ pc[calls + 1] \notin InLock
    BY <1>4, CallShape DEF TypeOK, InLock, AwaitsLock, HoldsLock
  <2>2. LockInv' /\ lockq' \in Seq(Task)
    <3>1. PICK u \in Task : Goto(u, "spawned") /\ lockq' = lockq /\ pc[u] \notin InLock
      BY <1>4, <2>1, CallShape DEF Goto
    <3>2. "spawned" \notin InLock /\ "spawned" \notin HoldsLock
      BY DEF InLock, AwaitsLock, HoldsLock
    <3> QED BY <3>1, <3>2, StayStep
  <2>3. calls' \in 0..MaxCalls
    BY <1>4 DEF Call, TypeOK
  <2> QED BY <1>4, <2>2, <2>3, CallShape, ZenonT(30) DEF TypeOK, Labels
<1>5. ASSUME Outside PROVE TypeOK' /\ LockInv'
  <2>1. LockInv'
    BY <1>5, OutsideShape DEF LockInv
  <2>2. CASE \E code \in Code : PyStop(code)
    BY <2>2, <2>1, <1>5, OutsideShape DEF PyStop, TypeOK, token, peerVars
  <2>3. CASE PyStep
    BY <2>3, <2>1, <1>5, OutsideShape DEF PyStep, PyStopStore, PyStopCancel, PyStopTry, quic_stop,
       TypeOK, TokenInv, token, peerVars
  <2>4. CASE Peer
    BY <2>4, <2>1, <1>5, OutsideShape, SMTT(30)
    DEF Peer, PeerData, PeerFinish, PeerReset, SessionLost, TypeOK,
       token, pyVars
  <2>5. CASE UNCHANGED vars
    BY <2>1, <2>5 DEF vars, taskVars, dataVars, token, pyVars, peerVars, TypeOK
  <2> QED BY <1>5, <2>1, <2>2, <2>3, <2>4, <2>5 DEF Outside
<1> QED BY <1>1, <1>2, <1>3, <1>4, <1>5, StepCases

-----------------------------------------------------------------------------
(* One step keeps the other parts of the invariant. *)

\* What a step of a task does to the other tasks: nothing.
LEMMA CompleteShape ==
    ASSUME TypeOK, NEW t \in Task, NEW r, Complete(t, r)
    PROVE  /\ pc'[t] = "done" /\ result'[t] = r
           /\ \A u \in Task \ {t} : pc'[u] = pc[u] /\ result'[u] = result[u]
           /\ UNCHANGED <<calls, kind>>
BY DEF Complete, Goto, TypeOK

\* How a running operation leaves the tasks: its own may end or be suspended.
LEMMA RanShape ==
    ASSUME TypeOK, EndInv, GotInv, NEW t \in Task, Ran(t)
    PROVE  /\ pc[t] = "running" /\ kind[t] \in Cancellable
           /\ pc'[t] \in {"running", "blocked", "done"}
           /\ pc'[t] # "done" => result'[t] = result[t]
           /\ \A u \in Task \ {t} :
                  pc'[u] = pc[u] /\ result'[u] = result[u] /\ got'[u] = got[u]
           /\ UNCHANGED <<calls, kind, cancel, stop_code, py_pc, stop_arg, sent_code, arrived,
                          peer, lost>>
<1> USE DEF Ran, token, pyVars, peerVars
<1>1. CASE Block(t)
  BY <1>1 DEF Block, Goto, TypeOK
<1>2. CASE Returned(t)
  BY <1>2, CompleteShape DEF Returned, Return
<1>3. CASE Ended(t)
  BY <1>3, CompleteShape DEF Ended, ReturnAtEnd
<1>4. ASSUME NEW n \in 1..Buffered, Took(t, n)
      PROVE  /\ pc'[t] \in {"running", "blocked", "done"}
             /\ pc'[t] # "done" => result'[t] = result[t]
             /\ \A u \in Task \ {t} :
                    pc'[u] = pc[u] /\ result'[u] = result[u] /\ got'[u] = got[u]
             /\ UNCHANGED <<calls, kind>>
  <2>1. \A u \in Task \ {t} : got'[u] = got[u]
    BY <1>4, TakeType DEF Took
  <2>2. CASE \E r \in Results : Complete(t, r)
    BY <2>1, <2>2, CompleteShape
  <2>3. CASE UNCHANGED <<taskVars, lockq>>
    BY <2>1, <2>3 DEF taskVars
  <2> QED BY <1>4, <2>2, <2>3 DEF Took, Results
<1> QED BY <1>1, <1>2, <1>3, <1>4

\* CallInv: results and data belong to calls that got that far.
LEMMA CallStep ==
    ASSUME TypeOK, CallInv, EndInv, GotInv, [Next]_vars
    PROVE  CallInv'
<1> USE DEF Fresh, Exiting, Exits
<1>1. ASSUME NEW t \in Task, Move(t), Moved(t) PROVE CallInv'
  <2>1. /\ UNCHANGED <<calls, kind, result, got>>
        /\ \A u \in Task \ {t} : pc'[u] = pc[u]
        /\ pc[t] \notin {"uncalled", "done"} /\ pc'[t] \notin {"uncalled", "done"}
        /\ pc'[t] \in Fresh => pc[t] \in Fresh
        /\ pc'[t] \in Exiting => kind[t] \in Exits \/ pc[t] \in Exiting
    BY <1>1 DEF Moved, TypeOK, dataVars
  <2> QED BY <2>1 DEF CallInv
<1>2. ASSUME NEW t \in Task, Ran(t) PROVE CallInv'
  BY <1>2, RanShape DEF CallInv
<1>3. ASSUME NEW t \in Task, Left(t) PROVE CallInv'
  <2>1. PICK r : Complete(t, r)
    BY <1>3, LeftShape
  <2> QED BY <1>3, <2>1, LeftShape, CompleteShape DEF CallInv
<1>4. ASSUME NEW k \in Kinds, Call(k) PROVE CallInv'
  <2>1. PICK c \in Task : /\ c = calls + 1 /\ pc[c] = "uncalled"
                          /\ pc'[c] = "spawned" /\ \A u \in Task \ {c} : pc'[u] = pc[u]
                          /\ kind'[c] = k /\ \A u \in Task \ {c} : kind'[u] = kind[u]
                          /\ UNCHANGED <<result, got>> /\ calls' = calls + 1
    BY <1>4, CallShape DEF TypeOK
  <2>2. \A u \in Task : u > calls + 1 => u > calls
    BY RecvConstants DEF TypeOK, Task
  <2>3. \A u \in Task : u > calls + 1 => u # c
    BY <2>1, RecvConstants DEF TypeOK, Task
  <2> QED BY <2>1, <2>2, <2>3 DEF CallInv
<1>5. ASSUME Outside PROVE CallInv'
  BY <1>5, OutsideShape DEF CallInv
<1> QED BY <1>1, <1>2, <1>3, <1>4, <1>5, StepCases

\* EndInv: only the read that sees FIN with an empty buffer sets eof.
LEMMA EndStep ==
    ASSUME TypeOK, CallInv, TokenInv, EndInv, GotInv, [Next]_vars
    PROVE  EndInv'
<1> USE DEF EndInv, EndIsReal
<1>1. ASSUME NEW t \in Task, Move(t), Moved(t) PROVE EndInv'
  BY <1>1 DEF Moved, dataVars, peerVars
<1>2. ASSUME NEW t \in Task, Ran(t) PROVE EndInv'
  <2>0. /\ UNCHANGED <<kind, sent_code, arrived, peer>>
        /\ \A u \in Task \ {t} : result'[u] = result[u]
    BY <1>2, RanShape
  <2>1. CASE Block(t)
    BY <2>0, <2>1 DEF Block
  <2>2. CASE Returned(t)
    <3>1. PICK r \in Results :
            /\ Return(t, r)
            /\ \/ eof
               \/ r = "empty" /\ kind[t] = "read_0"
               \/ r = "ok" \/ Truthful(r)
      BY <2>2 DEF Returned
    <3>2. r \in {"StopAsyncIteration", "StreamIncompleteReadError"} \/ r = "empty"
          => ~Truthful(r)
      <4>1. lost # "none" => map_session_error(lost) \in SessionExceptions
        BY SessionErrorType
      <4> QED BY <4>1 DEF Truthful, SessionExceptions
    <3>3. result'[t] = r /\ UNCHANGED <<taken, eof, recv_state>>
      BY <3>1, CompleteShape DEF Return
    <3> QED BY <2>0, <3>1, <3>2, <3>3
  <2>3. CASE Ended(t)
    <3>1. /\ eof' = TRUE /\ recv_state' = "drained" /\ taken' = taken /\ recv_state = "open"
          /\ peer = "finished" /\ Buffered = 0
      BY <2>3 DEF Ended, ReturnAtEnd, AtEnd
    <3>2. Len(taken) = arrived
      BY <3>1, BufferType DEF Buffered
    <3> QED BY <2>0, <3>1, <3>2
  <2>4. ASSUME NEW n \in 1..Buffered, Took(t, n) PROVE EndInv'
    <3>1. ~eof /\ UNCHANGED <<eof, recv_state>>
      BY <2>4 DEF Took
    <3>2. result'[t] \in {result[t], "data", "StreamTooLongError"}
      BY <2>4, CompleteShape DEF Took, taskVars
    <3> QED BY <2>0, <3>1, <3>2
  <2> QED BY <1>2, <2>1, <2>2, <2>3, <2>4 DEF Ran
<1>3. ASSUME NEW t \in Task, Left(t) PROVE EndInv'
  <2>1. /\ UNCHANGED <<taken, eof, arrived, peer, kind>>
        /\ \A u \in Task \ {t} : result'[u] = result[u]
        /\ result'[t] \in {"StreamClosedLocally", "ok", "CancelledError"}
    BY <1>3, LeftShape, CompleteShape
  <2>2. \/ UNCHANGED <<recv_state, sent_code>>
        \/ recv_state = "open" /\ recv_state' = "stopped"
    BY <1>3, LeftShape DEF quic_stop
  <2> QED BY <2>1, <2>2
<1>4. ASSUME NEW k \in Kinds, Call(k) PROVE EndInv'
  <2>1. PICK c \in Task : /\ pc[c] = "uncalled" /\ \A u \in Task \ {c} : kind'[u] = kind[u]
                          /\ UNCHANGED <<result, taken, eof, arrived, peer, recv_state, sent_code>>
    BY <1>4, CallShape DEF TypeOK
  <2>2. result[c] = "none"
    BY <2>1 DEF CallInv
  <2> QED BY <2>1, <2>2
<1>5. ASSUME Outside PROVE EndInv'
  <2>0. UNCHANGED <<kind, result, taken, eof>>
    BY <1>5, OutsideShape
  <2>1. \/ UNCHANGED <<recv_state, sent_code>>
        \/ recv_state = "open" /\ recv_state' = "stopped"
    BY <1>5 DEF Outside, PyStop, PyStep, PyStopStore, PyStopCancel, PyStopTry, quic_stop, Peer,
       PeerData, PeerFinish, PeerReset, SessionLost, vars
  <2>2. eof => UNCHANGED <<arrived, peer>>
    BY <1>5 DEF Outside, PyStop, PyStep, PyStopStore, PyStopCancel, PyStopTry, Peer, PeerData,
       PeerFinish, PeerReset, SessionLost, vars, peerVars
  <2> QED BY <2>0, <2>1, <2>2
<1> QED BY <1>1, <1>2, <1>3, <1>4, <1>5, StepCases

\* TokenInv: the code is there before anybody can act on the token.
LEMMA TokenStep ==
    ASSUME TypeOK, CallInv, TokenInv, EndInv, GotInv, [Next]_vars
    PROVE  TokenInv'
<1> USE DEF TokenInv, StopCodeRequested, Requested
<1>1. ASSUME NEW t \in Task, Move(t), Moved(t) PROVE TokenInv'
  <2>1. /\ UNCHANGED <<kind, py_pc, stop_arg, sent_code>>
        /\ \A u \in Task \ {t} : pc'[u] = pc[u]
    BY <1>1 DEF Moved, TypeOK, pyVars
  <2>2. /\ stop_code' = stop_code \/ (stop_code' = 0 /\ kind[t] = "aexit_exc")
        /\ cancel' = cancel \/ (cancel' = TRUE /\ pc[t] = "exit_cancel" /\ stop_code' = stop_code)
        /\ pc'[t] = "exit_cancel" => stop_code' = 0 /\ kind[t] = "aexit_exc"
        /\ pc'[t] \in {"interrupted", "stopping", "stop_queued"} =>
               cancel \/ pc[t] = "interrupted"
    BY <1>1 DEF Move, PollCancelled, PollStart, Lock, LockGranted, Resume, Relock, ExitStore,
       ExitCancel, ExitLock, ExitCheck, Goto, token, TypeOK
  <2> QED BY <2>1, <2>2
<1>2. ASSUME NEW t \in Task, Ran(t) PROVE TokenInv'
  BY <1>2, RanShape
<1>3. ASSUME NEW t \in Task, Left(t) PROVE TokenInv'
  <2>1. /\ UNCHANGED <<kind, cancel, stop_code, py_pc, stop_arg>>
        /\ pc'[t] = "done" /\ \A u \in Task \ {t} : pc'[u] = pc[u]
    BY <1>3, LeftShape, CompleteShape
  <2>2. \/ sent_code' = sent_code
        \/ pc[t] \in {"stopping", "stop_queued"} /\ sent_code' = stop_code
        \/ pc[t] \in {"exiting", "exit_queued"} /\ sent_code' = 0
    BY <1>3, LeftShape DEF quic_stop
  <2> QED BY <2>1, <2>2 DEF CallInv, Exiting
<1>4. ASSUME NEW k \in Kinds, Call(k) PROVE TokenInv'
  <2>1. PICK c \in Task : /\ kind[c] = "none" /\ pc'[c] = "spawned"
                          /\ \A u \in Task \ {c} : pc'[u] = pc[u] /\ kind'[u] = kind[u]
                          /\ UNCHANGED <<cancel, stop_code, py_pc, stop_arg, sent_code>>
    BY <1>4, CallShape DEF TypeOK
  <2> QED BY <2>1
<1>5. ASSUME Outside PROVE TokenInv'
  <2>0. UNCHANGED <<kind, pc>>
    BY <1>5, OutsideShape
  <2>1. ASSUME NEW code \in Code, PyStop(code) PROVE TokenInv'
    <3>1. stop_arg = NoCode /\ ~cancel
      BY <2>1 DEF PyStop
    <3>2. stop_code # NoCode /\ code # NoCode
      BY RecvConstants DEF TypeOK
    <3> QED BY <2>0, <2>1, <3>1, <3>2 DEF PyStop, token
  <2>2. CASE PyStep
    BY <2>0, <2>2 DEF PyStep, PyStopStore, PyStopCancel, PyStopTry, quic_stop, token
  <2>3. CASE Peer
    BY <2>0, <2>3 DEF Peer, PeerData, PeerFinish, PeerReset, SessionLost, token, pyVars
  <2>4. CASE UNCHANGED vars
    BY <2>0, <2>4 DEF vars, token, pyVars
  <2> QED BY <1>5, <2>1, <2>2, <2>3, <2>4 DEF Outside
<1> QED BY <1>1, <1>2, <1>3, <1>4, <1>5, StepCases

\* An error is not an answer.
LEMMA TruthfulKind ==
    ASSUME TypeOK, NEW r, Truthful(r)
    PROVE  r \in {"StreamClosedLocally", "StreamClosedByPeer"} \cup SessionExceptions
BY SessionErrorType DEF Truthful, SessionExceptions

\* GotInv: a read stops at what it promises.
LEMMA GotStep ==
    ASSUME TypeOK, CallInv, EndInv, GotInv, [Next]_vars
    PROVE  GotInv'
<1> USE DEF GotInv, ReadsKeepPromises
<1>0. \A u \in Task : got[u] \in Nat
  BY DEF TypeOK
<1>1. ASSUME NEW t \in Task, Move(t), Moved(t) PROVE GotInv'
  <2>1. /\ UNCHANGED <<kind, result, got, taken, eof>>
        /\ \A u \in Task \ {t} : pc'[u] = pc[u]
        /\ pc[t] # "done"
    BY <1>1 DEF Moved, TypeOK, dataVars
  <2> QED BY <2>1
<1>2. ASSUME NEW t \in Task, Ran(t) PROVE GotInv'
  <2>0. /\ pc[t] = "running" /\ pc'[t] \in {"running", "blocked", "done"}
        /\ \A u \in Task \ {t} :
               pc'[u] = pc[u] /\ result'[u] = result[u] /\ got'[u] = got[u]
        /\ kind' = kind
        /\ pc'[t] # "done" => result'[t] = result[t]
    BY <1>2, RanShape
  <2>1. CASE Block(t)
    BY <2>0, <2>1 DEF Block
  <2>2. CASE Returned(t)
    <3>1. PICK r \in Results \ {"none", "data", "StreamTooLongError"} :
            /\ Return(t, r)
            /\ r = "StreamIncompleteReadError" => kind[t] = "readexactly"
      BY <2>2, TruthfulKind DEF Returned, SessionExceptions
    <3>2. pc'[t] = "done" /\ result'[t] = r /\ UNCHANGED <<got, taken, eof>>
      BY <3>1, CompleteShape DEF Return
    <3> QED BY <2>0, <3>1, <3>2
  <2>3. CASE Ended(t)
    <3>1. PICK r \in {"StopAsyncIteration", "empty", "StreamIncompleteReadError", "data"} :
            /\ ReturnAtEnd(t, r)
            /\ r = "StreamIncompleteReadError" => kind[t] = "readexactly"
            /\ r = "data" => kind[t] = "read_all"
      BY <2>3 DEF Ended
    <3>2. pc'[t] = "done" /\ result'[t] = r /\ eof' = TRUE /\ UNCHANGED <<got, taken>>
      BY <3>1, CompleteShape DEF ReturnAtEnd
    <3> QED BY <2>0, <3>1, <3>2
  <2>4. ASSUME NEW n \in 1..Buffered, Took(t, n) PROVE GotInv'
    <3>1. /\ n \in Nat /\ n >= 1 /\ Len(taken') = Len(taken) + n /\ Len(taken) \in Nat
          /\ got'[t] = got[t] + n /\ eof' = eof
      BY <2>4, TakeType, BufferType DEF Took
    <3>2. \A u \in Task : got'[u] <= Len(taken')
      BY <1>0, <2>0, <3>1
    <3>3. kind[t] \in {"anext", "read_n"} => got[t] = 0
      BY <2>0
    <3>4. \/ kind[t] = "anext" /\ result'[t] = "data" /\ pc'[t] = "done"
          \/ kind[t] = "read_n" /\ got'[t] <= Want /\ result'[t] = "data" /\ pc'[t] = "done"
          \/ kind[t] = "read_all" /\ got'[t] > Limit /\ result'[t] = "StreamTooLongError"
             /\ pc'[t] = "done"
          \/ kind[t] = "read_all" /\ got'[t] <= Limit /\ result'[t] = result[t]
             /\ pc'[t] = pc[t]
          \/ kind[t] = "readexactly" /\ got'[t] = Want /\ result'[t] = "data" /\ pc'[t] = "done"
          \/ kind[t] = "readexactly" /\ got'[t] < Want /\ result'[t] = result[t]
             /\ pc'[t] = pc[t]
      BY <1>0, <2>4, <3>1, <3>3, CompleteShape DEF Took, taskVars
    <3>5. result[t] = "none"
      BY <2>0 DEF CallInv
    <3>6. kind[t] = "read_n" => got'[t] \in Nat /\ got'[t] >= 1
      BY <1>0, <3>1
    <3>7. Want \in Nat
      BY RecvConstants
    <3> QED BY <2>0, <3>1, <3>2, <3>4, <3>5, <3>6, <3>7
  <2> QED BY <1>2, <2>1, <2>2, <2>3, <2>4 DEF Ran
<1>3. ASSUME NEW t \in Task, Left(t) PROVE GotInv'
  <2>1. /\ UNCHANGED <<kind, got, taken, eof>>
        /\ pc'[t] = "done" /\ result'[t] \in {"StreamClosedLocally", "ok", "CancelledError"}
        /\ \A u \in Task \ {t} : pc'[u] = pc[u] /\ result'[u] = result[u]
    BY <1>3, LeftShape, CompleteShape
  <2> QED BY <2>1
<1>4. ASSUME NEW k \in Kinds, Call(k) PROVE GotInv'
  <2>1. PICK c \in Task : /\ pc[c] = "uncalled" /\ pc'[c] = "spawned"
                          /\ \A u \in Task \ {c} : pc'[u] = pc[u] /\ kind'[u] = kind[u]
                          /\ UNCHANGED <<result, got, taken, eof>>
    BY <1>4, CallShape DEF TypeOK
  <2>2. got[c] = 0 /\ result[c] = "none" /\ 0 < Want /\ 0 <= Limit
    BY <2>1, RecvConstants DEF CallInv, Fresh
  <2> QED BY <2>1, <2>2
<1>5. ASSUME Outside PROVE GotInv'
  BY <1>5, OutsideShape
<1> QED BY <1>1, <1>2, <1>3, <1>4, <1>5, StepCases

\* The units of one read extend the piece that was taken last.
LEMMA TakeKeepsPieces ==
    ASSUME TypeOK, LockInv, EndInv, GotInv, TakenInv, NEW t \in Task,
           NEW n \in 1..Buffered, Ran(t), Took(t, n)
    PROVE  TakenInv'
<1> DEFINE m == Len(taken)
<1>0. /\ m \in Nat /\ DOMAIN taken = 1..m
      /\ pc[t] = "running" /\ pc'[t] \in {"running", "blocked", "done"}
      /\ \A u \in Task \ {t} : pc'[u] = pc[u]
  BY RanShape DEF TypeOK
<1>1. \A u \in Task : pc[u] \in {"running", "blocked"} => u = t
  BY <1>0, OneHolder DEF LockInv, HoldsLock
<1>2. \A i \in 1..m : taken[i] \in Task
  BY <1>0 DEF TypeOK
<1>3. /\ n \in Nat /\ n >= 1 /\ Len(taken') = m + n /\ DOMAIN taken' = 1..(m + n)
      /\ \A i \in 1..(m + n) : taken'[i] = IF i <= m THEN taken[i] ELSE t
  <2>1. taken' \in Seq(Task) /\ n \in Nat /\ n >= 1 /\ Len(taken') = m + n
        /\ \A i \in 1..Len(taken') : taken'[i] = IF i <= m THEN taken[i] ELSE t
    BY TakeType DEF Took
  <2>2. DOMAIN taken' = 1..Len(taken')
    BY <2>1
  <2> QED BY <2>1, <2>2
<1>4. \A i \in 1..m : pc[taken[i]] \notin Fresh
  BY <1>0 DEF TakenInv
<1>5. \A i \in 1..m : taken[i] = t => taken[m] = t
  BY <1>0 DEF TakenInv
<1>6. \A i, j, k \in 1..m : i < j /\ j < k /\ taken[i] = taken[k] => taken[j] = taken[i]
  BY <1>0 DEF TakenInv, ReadsContiguous
<1> HIDE DEF m
<1>7. ASSUME NEW i \in 1..(m + n) PROVE pc'[taken'[i]] \notin Fresh
  BY <1>0, <1>2, <1>3, <1>4 DEF Fresh
<1>8. taken'[m + n] = t
  BY <1>0, <1>3
<1>9. ASSUME NEW u \in Task, pc'[u] \in {"running", "blocked"} PROVE u = t
  BY <1>0, <1>1, <1>9
<1>10. ASSUME NEW i \in 1..(m + n), NEW j \in 1..(m + n), NEW k \in 1..(m + n),
              i < j, j < k, taken'[i] = taken'[k]
       PROVE  taken'[j] = taken'[i]
  <2>1. CASE k <= m
    BY <1>0, <1>3, <1>6, <1>10, <2>1
  <2>2. CASE k > m
    <3>1. taken'[i] = t
      BY <1>0, <1>3, <1>10, <2>2
    <3>2. CASE j > m
      BY <1>0, <1>3, <3>1, <3>2
    <3>3. CASE j <= m
      <4>1. taken[i] = t /\ i \in 1..m /\ j \in 1..m /\ m \in 1..m
        BY <1>0, <1>3, <1>10, <3>1, <3>3
      <4>2. taken[m] = t
        BY <4>1, <1>5
      <4>3. taken[j] = t
        BY <1>0, <4>1, <4>2, <1>6, <1>10
      <4> QED BY <1>0, <1>3, <3>1, <3>3, <4>3
    <3> QED BY <1>0, <1>3, <3>2, <3>3
  <2> QED BY <1>0, <1>3, <2>1, <2>2
<1> QED BY <1>3, <1>7, <1>8, <1>9, <1>10 DEF TakenInv, ReadsContiguous

\* TakenInv: nobody but the owner of the mutex takes data.
LEMMA TakenStep ==
    ASSUME TypeOK, LockInv, CallInv, EndInv, GotInv, TakenInv, [Next]_vars
    PROVE  TakenInv'
<1> USE DEF Fresh
<1>0. \A i \in DOMAIN taken : taken[i] \in Task
  BY DEF TypeOK
<1>1. ASSUME NEW t \in Task, Move(t), Moved(t) PROVE TakenInv'
  <2>1. /\ taken' = taken
        /\ \A u \in Task \ {t} : pc'[u] = pc[u]
        /\ pc'[t] \in Fresh => pc[t] \in Fresh
        /\ pc'[t] = "running" => pc[t] \in Fresh \cup {"blocked"}
        /\ pc'[t] # "blocked"
    BY <1>1 DEF Moved, TypeOK, dataVars
  <2>2. pc[t] \in Fresh => \A i \in DOMAIN taken : taken[i] # t
    BY DEF TakenInv
  <2> QED BY <1>0, <2>1, <2>2 DEF TakenInv, ReadsContiguous
<1>2. ASSUME NEW t \in Task, Ran(t) PROVE TakenInv'
  <2>1. CASE taken' = taken
    BY <1>0, <1>2, <2>1, RanShape DEF TakenInv, ReadsContiguous
  <2>2. CASE \E n \in 1..Buffered : Took(t, n)
    BY <1>2, <2>2, TakeKeepsPieces
  <2> QED BY <1>2, <2>1, <2>2 DEF Ran, Block, Returned, Return, Ended, ReturnAtEnd
<1>3. ASSUME NEW t \in Task, Left(t) PROVE TakenInv'
  <2>1. taken' = taken /\ pc'[t] = "done" /\ \A u \in Task \ {t} : pc'[u] = pc[u]
    BY <1>3, LeftShape, CompleteShape
  <2> QED BY <1>0, <2>1 DEF TakenInv, ReadsContiguous
<1>4. ASSUME NEW k \in Kinds, Call(k) PROVE TakenInv'
  <2>1. PICK c \in Task : /\ pc[c] = "uncalled" /\ pc'[c] = "spawned" /\ taken' = taken
                          /\ \A u \in Task \ {c} : pc'[u] = pc[u]
    BY <1>4, CallShape DEF TypeOK
  <2>2. \A i \in DOMAIN taken : taken[i] # c
    BY <2>1 DEF TakenInv
  <2> QED BY <1>0, <2>1, <2>2 DEF TakenInv, ReadsContiguous
<1>5. ASSUME Outside PROVE TakenInv'
  BY <1>5, OutsideShape DEF TakenInv, ReadsContiguous
<1> QED BY <1>1, <1>2, <1>3, <1>4, <1>5, StepCases

\* The stream never reopens, a reset is final, and so is the end of the session.
LEMMA NeverUndone ==
    ASSUME TypeOK, EndInv, GotInv, [Next]_vars
    PROVE  /\ recv_state # "open" => recv_state' # "open"
           /\ peer = "reset" => peer' = "reset"
           /\ lost # "none" => lost' = lost
<1>1. ASSUME NEW t \in Task, Move(t), Moved(t) PROVE UNCHANGED <<recv_state, peer, lost>>
  BY <1>1 DEF Moved, peerVars
<1>2. ASSUME NEW t \in Task, Ran(t)
      PROVE  UNCHANGED <<peer, lost>> /\ (recv_state' = recv_state \/ recv_state' = "drained")
  BY <1>2 DEF Ran, Block, Returned, Return, Ended, ReturnAtEnd, Took, peerVars
<1>3. ASSUME NEW t \in Task, Left(t)
      PROVE  UNCHANGED <<peer, lost>> /\ (recv_state' = recv_state \/ recv_state' = "stopped")
  BY <1>3, LeftShape DEF quic_stop
<1>4. ASSUME NEW k \in Kinds, Call(k) PROVE UNCHANGED <<recv_state, peer, lost>>
  BY <1>4 DEF Call, peerVars
<1>5. ASSUME Outside
      PROVE  /\ recv_state # "open" => recv_state' # "open"
             /\ peer = "reset" => peer' = "reset"
             /\ lost # "none" => lost' = lost
  BY <1>5 DEF Outside, PyStop, PyStep, PyStopStore, PyStopCancel, PyStopTry, quic_stop, Peer,
     PeerData, PeerFinish, PeerReset, SessionLost, vars, peerVars
<1> QED BY <1>1, <1>2, <1>3, <1>4, <1>5, StepCases

\* ExceptionsAreTrue: what an exception says is true when it is raised, and stays true.
LEMMA ExceptionStep ==
    ASSUME TypeOK, EndInv, GotInv, ExceptionsAreTrue, [Next]_vars
    PROVE  ExceptionsAreTrue'
<1> DEFINE Silent(r) ==
        r \notin {"StreamClosedLocally", "StreamClosedByPeer"}
                     \cup (SessionExceptions \ {"ProtocolError"})
<1>1. ASSUME result' = result PROVE ExceptionsAreTrue'
  BY <1>1, NeverUndone DEF ExceptionsAreTrue
<1>2. ASSUME NEW t \in Task, NEW r, Complete(t, r), Silent(r) PROVE ExceptionsAreTrue'
  BY <1>2, NeverUndone, CompleteShape DEF ExceptionsAreTrue
<1>3. ASSUME NEW t \in Task, Ran(t) PROVE ExceptionsAreTrue'
  <2>1. CASE Block(t)
    BY <1>1, <2>1 DEF Block
  <2>2. CASE Returned(t)
    <3>1. PICK r : Complete(t, r) /\ (Silent(r) \/ Truthful(r))
      BY <2>2 DEF Returned, Return, SessionExceptions
    <3>2. CASE Truthful(r)
      <4>1. /\ result'[t] = r /\ \A u \in Task \ {t} : result'[u] = result[u]
        BY <3>1, CompleteShape
      <4>2. /\ r = "StreamClosedLocally" => recv_state # "open"
            /\ r = "StreamClosedByPeer" => peer = "reset"
            /\ r \in SessionExceptions \ {"ProtocolError"} =>
                   lost # "none" /\ r = map_session_error(lost)
        BY <3>2, SessionErrorType DEF Truthful, SessionExceptions
      <4> QED BY <4>1, <4>2, NeverUndone DEF ExceptionsAreTrue
    <3> QED BY <1>2, <3>1, <3>2
  <2>3. CASE Ended(t)
    BY <1>2, <2>3 DEF Ended, ReturnAtEnd, SessionExceptions
  <2>4. ASSUME NEW n \in 1..Buffered, Took(t, n) PROVE ExceptionsAreTrue'
    <3>1. CASE \E r \in {"data", "StreamTooLongError"} : Complete(t, r)
      BY <1>2, <3>1 DEF SessionExceptions
    <3>2. CASE UNCHANGED <<taskVars, lockq>>
      BY <1>1, <3>2 DEF taskVars
    <3> QED BY <2>4, <3>1, <3>2 DEF Took
  <2> QED BY <1>3, <2>1, <2>2, <2>3, <2>4 DEF Ran
<1>4. ASSUME NEW t \in Task, Left(t) PROVE ExceptionsAreTrue'
  <2>1. CASE Complete(t, "StreamClosedLocally") /\ quic_stop(stop_code)
    <3>1. recv_state' # "open"
      BY <2>1 DEF quic_stop
    <3>2. result'[t] = "StreamClosedLocally" /\ \A u \in Task \ {t} : result'[u] = result[u]
      BY <2>1, CompleteShape
    <3> QED BY <3>1, <3>2, NeverUndone DEF ExceptionsAreTrue, SessionExceptions
  <2>2. CASE \E r \in {"ok", "CancelledError"} : Complete(t, r)
    BY <1>2, <2>2 DEF SessionExceptions
  <2> QED BY <1>4, <2>1, <2>2, LeftShape
<1>5. ASSUME NEW t \in Task, Moved(t) PROVE ExceptionsAreTrue'
  BY <1>1, <1>5 DEF Moved
<1>6. ASSUME NEW k \in Kinds, Call(k) PROVE ExceptionsAreTrue'
  BY <1>1, <1>6 DEF Call
<1>7. ASSUME Outside PROVE ExceptionsAreTrue'
  BY <1>1, <1>7, OutsideShape
<1> QED BY <1>3, <1>4, <1>5, <1>6, <1>7, StepCases

\* ExitStops: __aexit__ stops the stream before it returns, and nobody reopens it.
LEMMA ExitStep ==
    ASSUME TypeOK, CallInv, EndInv, GotInv, ExitStops, [Next]_vars
    PROVE  ExitStops'
<1> USE DEF ExitStops
<1>1. ASSUME NEW t \in Task, Moved(t) PROVE ExitStops'
  BY <1>1 DEF Moved
<1>2. ASSUME NEW t \in Task, Ran(t) PROVE ExitStops'
  BY <1>2, RanShape, NeverUndone DEF Cancellable
<1>3. ASSUME NEW t \in Task, Left(t) PROVE ExitStops'
  <2>1. /\ kind' = kind /\ \A u \in Task \ {t} : result'[u] = result[u]
        /\ result'[t] = "ok" => recv_state' # "open"
    <3>1. CASE quic_stop(stop_code) \/ quic_stop(0)
      BY <1>3, <3>1, LeftShape, CompleteShape DEF quic_stop
    <3>2. CASE eof /\ UNCHANGED <<recv_state, sent_code>>
      BY <1>3, <3>2, LeftShape, CompleteShape DEF EndInv
    <3>3. CASE Complete(t, "CancelledError")
      BY <3>3, CompleteShape
    <3> QED BY <1>3, <3>1, <3>2, <3>3, LeftShape
  <2> QED BY <2>1, NeverUndone
<1>4. ASSUME NEW k \in Kinds, Call(k) PROVE ExitStops'
  <2>1. PICK c \in Task : /\ pc[c] = "uncalled" /\ \A u \in Task \ {c} : kind'[u] = kind[u]
                          /\ UNCHANGED <<result, recv_state>>
    BY <1>4, CallShape DEF TypeOK
  <2>2. result[c] = "none"
    BY <2>1 DEF CallInv
  <2> QED BY <2>1, <2>2
<1>5. ASSUME Outside PROVE ExitStops'
  BY <1>5, OutsideShape, NeverUndone
<1> QED BY <1>1, <1>2, <1>3, <1>4, <1>5, StepCases

-----------------------------------------------------------------------------
(* The theorems. *)

\* The invariant holds when a RecvStream is created.
LEMMA InitInv == Init => IndInv
<1> SUFFICES ASSUME Init PROVE IndInv
  OBVIOUS
<1> USE RecvConstants
<1>1. TypeOK
  <2>1. /\ calls \in 0..MaxCalls /\ lockq \in Seq(Task) /\ taken \in Seq(Task)
        /\ got \in [Task -> 0..Units] /\ arrived \in 0..Units /\ Len(taken) <= arrived
    BY DEF Init
  <2>2. /\ kind \in [Task -> Kinds \cup {"none"}] /\ pc \in [Task -> Labels]
        /\ result \in [Task -> Results]
    BY DEF Init, Labels, Results
  <2> QED BY <2>1, <2>2 DEF Init, TypeOK
<1>2. LockInv
  BY DEF Init, LockInv, Distinct, ToSet, AwaitsLock, HoldsLock, Task
<1>3. CallInv /\ TokenInv /\ EndInv
  BY DEF Init, CallInv, TokenInv, Requested, StopCodeRequested, EndInv, EndIsReal, Fresh, Exiting,
     Task
<1>4. GotInv /\ TakenInv
  <2>1. Len(taken) = 0 /\ DOMAIN taken = {}
    BY DEF Init
  <2> QED BY <2>1 DEF Init, GotInv, ReadsKeepPromises, TakenInv, ReadsContiguous, Fresh, Task
<1>5. ExceptionsAreTrue /\ ExitStops
  BY DEF Init, ExceptionsAreTrue, ExitStops, SessionExceptions, Task
<1> QED BY <1>1, <1>2, <1>3, <1>4, <1>5 DEF IndInv

\* Every step of the stream keeps the invariant.
LEMMA StepInv == IndInv /\ [Next]_vars => IndInv'
BY LockedStep, CallStep, TokenStep, EndStep, GotStep, TakenStep, ExceptionStep, ExitStep
   DEF IndInv

\* The invariant holds in every reachable state.
THEOREM Invariance == Spec => []IndInv
BY InitInv, StepInv, PTL DEF Spec

\* Every variable keeps its type, for any number of calls and any constants.
THEOREM TypeCorrect == Spec => []TypeOK
<1>1. IndInv => TypeOK
  BY DEF IndInv
<1> QED BY <1>1, Invariance, PTL

\* The mutex of a RecvStream is never leaked nor shared, whatever is interrupted by
\* stop() or __aexit__ or dropped by asyncio.
THEOREM MutexDiscipline == Spec => []LockInv
<1>1. IndInv => LockInv
  BY DEF IndInv
<1> QED BY <1>1, Invariance, PTL

\* Exceptions are truthful: StreamClosedLocally only from a stream that is stopped or at
\* its end, StreamClosedByPeer only after RESET_STREAM, session errors as they were.
THEOREM TruthfulExceptions == Spec => []ExceptionsAreTrue
<1>1. IndInv => ExceptionsAreTrue
  BY DEF IndInv
<1> QED BY <1>1, Invariance, PTL

\* No read reports the end of the data, and eof is not set, before FIN is there and
\* every unit was taken.
THEOREM EndNeverEarly == Spec => []EndIsReal
<1>1. IndInv => EndIsReal
  BY DEF IndInv, EndInv
<1> QED BY <1>1, Invariance, PTL

\* readexactly(n), read(n) and read(-1) answer with as much as they promise, for every n
\* and every limit.
THEOREM PromisesKept == Spec => []ReadsKeepPromises
<1>1. IndInv => ReadsKeepPromises
  BY DEF IndInv, GotInv
<1> QED BY <1>1, Invariance, PTL

\* Concurrent reads never share out the stream: what one read takes is consecutive.
THEOREM Contiguity == Spec => []ReadsContiguous
<1>1. IndInv => ReadsContiguous
  BY DEF IndInv, TakenInv
<1> QED BY <1>1, Invariance, PTL

\* STOP_SENDING carries a code the program asked for, whichever of the racing stop(),
\* __aexit__ and interrupted reads sends it.
THEOREM CodeRequested == Spec => []StopCodeRequested
<1>1. IndInv => StopCodeRequested
  BY DEF IndInv, TokenInv
<1> QED BY <1>1, Invariance, PTL

\* __aexit__ returns with the stream stopped or read to its end.
THEOREM ExitLeavesEnded == Spec => []ExitStops
<1>1. IndInv => ExitStops
  BY DEF IndInv
<1> QED BY <1>1, Invariance, PTL
=============================================================================
