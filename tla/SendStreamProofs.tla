-------------------------- MODULE SendStreamProofs --------------------------
(***************************************************************************)
(* Proofs about SendStream, for every number of calls, every set of codes, *)
(* priorities and session errors, and every data size and credit window.   *)
(***************************************************************************)
EXTENDS SendStream, FairLockProofs

InLock == AwaitsLock \cup HoldsLock

-----------------------------------------------------------------------------
(* The mutex queue: a step leaves it alone, joins it or leaves it. *)

\* A step inside or outside the mutex that does not touch the queue.
LEMMA StayStep ==
    ASSUME TypeOK, LockInv, NEW t \in Task, NEW l, Goto(t, l), lockq' = lockq,
           l \in InLock <=> pc[t] \in InLock,
           l \in HoldsLock => Owns(lockq, t)
    PROVE  LockInv'
<1>1. pc' = [pc EXCEPT ![t] = l] /\ pc \in [Task -> Labels]
  BY DEF TypeOK, Goto
<1>2. {u \in Task : pc'[u] \in InLock} = {u \in Task : pc[u] \in InLock}
  BY <1>1
<1>3. \A u \in Task : pc'[u] \in HoldsLock => Owns(lockq, u)
  BY <1>1 DEF LockInv
<1> QED BY <1>2, <1>3 DEF LockInv, InLock

\* lock().await: the task owns the mutex if it was free and waits otherwise.
LEMMA JoinStep ==
    ASSUME TypeOK, LockInv, NEW t \in Task, NEW l, Goto(t, l), lockq' = Acquire(lockq, t),
           pc[t] \notin InLock, l \in InLock,
           l \in HoldsLock => IsFree(lockq)
    PROVE  LockInv' /\ lockq' \in Seq(Task)
<1>1. pc' = [pc EXCEPT ![t] = l] /\ pc \in [Task -> Labels] /\ lockq \in Seq(Task)
  BY DEF TypeOK, Goto
<1>2. Distinct(lockq) /\ t \notin ToSet(lockq)
  BY DEF LockInv, InLock
<1>3. /\ lockq' \in Seq(Task)
      /\ Distinct(lockq')
      /\ ToSet(lockq') = ToSet(lockq) \cup {t}
      /\ \A u : Owns(lockq, u) => Owns(lockq', u)
      /\ IsFree(lockq) => Owns(lockq', t)
  BY <1>1, <1>2, AcquireLemma
<1>4. {u \in Task : pc'[u] \in InLock} = {u \in Task : pc[u] \in InLock} \cup {t}
  BY <1>1
<1>5. \A u \in Task : pc'[u] \in HoldsLock => Owns(lockq', u)
  BY <1>1, <1>3 DEF LockInv
<1> QED BY <1>3, <1>4, <1>5 DEF LockInv, InLock

\* Dropping the guard or the place in the queue.
LEMMA LeaveStep ==
    ASSUME TypeOK, LockInv, NEW t \in Task, NEW l, Goto(t, l), lockq' = Leave(lockq, t),
           l \notin InLock
    PROVE  LockInv' /\ lockq' \in Seq(Task)
<1>1. pc' = [pc EXCEPT ![t] = l] /\ pc \in [Task -> Labels] /\ lockq \in Seq(Task)
  BY DEF TypeOK, Goto
<1>2. Distinct(lockq)
  BY DEF LockInv
<1>3. /\ lockq' \in Seq(Task)
      /\ Distinct(lockq')
      /\ ToSet(lockq') = ToSet(lockq) \ {t}
      /\ \A u : u # t /\ Owns(lockq, u) => Owns(lockq', u)
  BY <1>1, <1>2, LeaveLemma
<1>4. {u \in Task : pc'[u] \in InLock} = {u \in Task : pc[u] \in InLock} \ {t}
  BY <1>1
<1>5. \A u \in Task : pc'[u] \in HoldsLock => Owns(lockq', u)
  BY <1>1, <1>3 DEF LockInv, InLock
<1> QED BY <1>3, <1>4, <1>5 DEF LockInv, InLock

\* Mutual exclusion: two tasks inside are the same task.
LEMMA OneHolder ==
    ASSUME TypeOK, LockInv, NEW t \in Task, NEW u \in Task,
           Owns(lockq, t), pc[u] \in HoldsLock
    PROVE  u = t
BY DEF LockInv, Owns

-----------------------------------------------------------------------------
(* Type correctness. *)

\* The exceptions the write path can raise.
LEMMA WriteErrorType ==
    ASSUME TypeOK, write_error # "none"
    PROVE  map_write_error(write_error) \in Results
BY SendConstants DEF TypeOK, write_error, map_write_error, map_session_error,
   map_connection_error, map_send_datagram_error, SessionErrors, ConnectionErrors,
   DatagramErrors, Results, SessionExceptions

LEMMA SessionErrorType ==
    ASSUME TypeOK, lost # "none"
    PROVE  map_session_error(lost) \in SessionExceptions
BY SendConstants DEF TypeOK, map_session_error,
   map_connection_error, map_send_datagram_error, SessionErrors, ConnectionErrors,
   DatagramErrors, SessionExceptions

\* Handing over units stays within the data and the credit.
LEMMA AcceptType ==
    ASSUME TypeOK, NEW t \in Task, AcceptUnits(t)
    PROVE  /\ Accepted(t) \in 0..Size
           /\ left' \in [Task -> 0..Size]
           /\ credit' \in 0..Window
           /\ wire' \in Seq(Task)
<1>1. left[t] \in 0..Size /\ credit \in 0..Window /\ Size \in Nat /\ Window \in Nat
  BY SendConstants DEF TypeOK
<1>2. Accepted(t) \in 0..Size /\ left[t] - Accepted(t) \in 0..Size
      /\ credit - Accepted(t) \in 0..Window
  BY <1>1 DEF Accepted
<1>3. [i \in 1..Accepted(t) |-> t] \in Seq(Task)
  BY <1>2
<1>4. wire' \in Seq(Task)
  BY <1>3, ConcatProperties DEF TypeOK, AcceptUnits
<1> QED BY <1>1, <1>2, <1>4 DEF AcceptUnits, TypeOK

-----------------------------------------------------------------------------
(* One step keeps the types and the mutex discipline. *)

\* Every step of a task, of the Python thread or of the peer keeps TypeOK and LockInv.
LEMMA LockedStep ==
    ASSUME TypeOK, LockInv, CallInv, TokenInv, [Next]_vars
    PROVE  TypeOK' /\ LockInv'
<1> USE SendConstants
<1>1. ASSUME NEW t \in Task, PollCancelled(t) PROVE TypeOK' /\ LockInv'
  <2>1. Goto(t, "interrupted") /\ lockq' = Leave(lockq, t)
    BY <1>1 DEF PollCancelled
  <2>2. LockInv' /\ lockq' \in Seq(Task)
    BY <2>1, LeaveStep DEF InLock, AwaitsLock, HoldsLock
  <2> QED BY <1>1, <2>2 DEF PollCancelled, TypeOK, Goto, Labels, AwaitsLock, HoldsLock,
      atomics, pyVars, quicVars
<1>2. ASSUME NEW t \in Task, PollStart(t) PROVE TypeOK' /\ LockInv'
  <2>1. pc[t] \notin InLock /\ Goto(t, "locking") /\ lockq' = lockq
    BY <1>2 DEF PollStart, InLock, AwaitsLock, HoldsLock
  <2>2. LockInv'
    BY <2>1, StayStep DEF InLock, AwaitsLock, HoldsLock
  <2> QED BY <1>2, <2>2 DEF PollStart, TypeOK, Goto, Labels, AwaitsLock, HoldsLock, atomics,
      pyVars, quicVars
<1>3. ASSUME NEW t \in Task, Lock(t) PROVE TypeOK' /\ LockInv'
  <2>1. pc[t] \notin InLock /\ lockq' = Acquire(lockq, t)
        /\ Goto(t, IF IsFree(lockq) THEN "locked" ELSE "queued")
    BY <1>3 DEF Lock, InLock, AwaitsLock, HoldsLock
  <2>2. LockInv' /\ lockq' \in Seq(Task)
    <3>1. CASE IsFree(lockq)
      BY <2>1, <3>1, Goto(t, "locked"), JoinStep DEF InLock, AwaitsLock, HoldsLock
    <3>2. CASE ~IsFree(lockq)
      BY <2>1, <3>2, Goto(t, "queued"), JoinStep DEF InLock, AwaitsLock, HoldsLock
    <3> QED BY <3>1, <3>2
  <2> QED BY <1>3, <2>2 DEF Lock, TypeOK, Goto, Labels, AwaitsLock, HoldsLock, atomics,
      pyVars, quicVars
<1>4. ASSUME NEW t \in Task, LockGranted(t) PROVE TypeOK' /\ LockInv'
  <2>1. Owns(lockq, t) /\ pc[t] \in InLock /\ Goto(t, "locked") /\ lockq' = lockq
    BY <1>4 DEF LockGranted, LockInv, InLock, AwaitsLock, HoldsLock
  <2>2. LockInv'
    BY <2>1, StayStep DEF InLock, HoldsLock
  <2> QED BY <1>4, <2>2 DEF LockGranted, TypeOK, Goto, Labels, AwaitsLock, HoldsLock,
      atomics, pyVars, quicVars
<1>5. ASSUME NEW t \in Task, SyncPriority(t) PROVE TypeOK' /\ LockInv'
  <2>1. Owns(lockq, t) /\ pc[t] \in InLock /\ Goto(t, "running") /\ lockq' = lockq
    BY <1>5 DEF SyncPriority, LockInv, InLock, AwaitsLock, HoldsLock
  <2>2. LockInv'
    BY <2>1, StayStep DEF InLock, HoldsLock
  <2> QED BY <1>5, <2>2 DEF SyncPriority, TypeOK, Goto, Labels, AwaitsLock, HoldsLock,
      quic_set_priority, pyVars
<1>6. ASSUME NEW t \in Task, Resume(t) PROVE TypeOK' /\ LockInv'
  <2>1. Owns(lockq, t) /\ pc[t] \in InLock /\ Goto(t, "running") /\ lockq' = lockq
    BY <1>6 DEF Resume, LockInv, InLock, AwaitsLock, HoldsLock
  <2>2. LockInv'
    BY <2>1, StayStep DEF InLock, HoldsLock
  <2> QED BY <1>6, <2>2 DEF Resume, TypeOK, Goto, Labels, AwaitsLock, HoldsLock, atomics,
      pyVars, quicVars
<1>7. ASSUME NEW t \in Task, Relock(t) PROVE TypeOK' /\ LockInv'
  <2>1. pc[t] \notin InLock /\ lockq' = Acquire(lockq, t)
        /\ Goto(t, IF IsFree(lockq) THEN "resetting" ELSE "reset_queued")
    BY <1>7 DEF Relock, InLock, AwaitsLock, HoldsLock
  <2>2. LockInv' /\ lockq' \in Seq(Task)
    <3>1. CASE IsFree(lockq)
      BY <2>1, <3>1, Goto(t, "resetting"), JoinStep DEF InLock, AwaitsLock, HoldsLock
    <3>2. CASE ~IsFree(lockq)
      BY <2>1, <3>2, Goto(t, "reset_queued"), JoinStep DEF InLock, AwaitsLock, HoldsLock
    <3> QED BY <3>1, <3>2
  <2> QED BY <1>7, <2>2 DEF Relock, TypeOK, Goto, Labels, AwaitsLock, HoldsLock, atomics,
      pyVars, quicVars
<1>8. ASSUME NEW t \in Task, ResetInterrupted(t) PROVE TypeOK' /\ LockInv'
  <2>1. Goto(t, "done") /\ lockq' = Leave(lockq, t)
    BY <1>8 DEF ResetInterrupted, Complete
  <2>2. LockInv' /\ lockq' \in Seq(Task)
    BY <2>1, LeaveStep DEF InLock, AwaitsLock, HoldsLock
  <2> QED BY <1>8, <2>2 DEF ResetInterrupted, TypeOK, Goto, Labels, AwaitsLock, HoldsLock,
      quic_reset, Complete, Results, atomics, pyVars
<1>9. ASSUME NEW t \in Task, ExitStore(t) PROVE TypeOK' /\ LockInv'
  <2>1. pc[t] \notin InLock /\ Goto(t, "exit_cancel") /\ lockq' = lockq
    BY <1>9 DEF ExitStore, InLock, AwaitsLock, HoldsLock
  <2>2. LockInv'
    BY <2>1, StayStep DEF InLock, AwaitsLock, HoldsLock
  <2> QED BY <1>9, <2>2 DEF ExitStore, TypeOK, Goto, Labels, AwaitsLock, HoldsLock, pyVars,
      quicVars
<1>10. ASSUME NEW t \in Task, ExitCancel(t) PROVE TypeOK' /\ LockInv'
  <2>1. pc[t] \notin InLock /\ Goto(t, "exit_lock") /\ lockq' = lockq
    BY <1>10 DEF ExitCancel, InLock, AwaitsLock, HoldsLock
  <2>2. LockInv'
    BY <2>1, StayStep DEF InLock, AwaitsLock, HoldsLock
  <2> QED BY <1>10, <2>2 DEF ExitCancel, TypeOK, Goto, Labels, AwaitsLock, HoldsLock,
      pyVars, quicVars
<1>11. ASSUME NEW t \in Task, ExitLock(t) PROVE TypeOK' /\ LockInv'
  <2>1. pc[t] \notin InLock /\ lockq' = Acquire(lockq, t)
        /\ Goto(t, IF IsFree(lockq) THEN "exiting" ELSE "exit_queued")
    BY <1>11 DEF ExitLock, InLock, AwaitsLock, HoldsLock
  <2>2. LockInv' /\ lockq' \in Seq(Task)
    <3>1. CASE IsFree(lockq)
      BY <2>1, <3>1, Goto(t, "exiting"), JoinStep DEF InLock, AwaitsLock, HoldsLock
    <3>2. CASE ~IsFree(lockq)
      BY <2>1, <3>2, Goto(t, "exit_queued"), JoinStep DEF InLock, AwaitsLock, HoldsLock
    <3> QED BY <3>1, <3>2
  <2> QED BY <1>11, <2>2 DEF ExitLock, TypeOK, Goto, Labels, AwaitsLock, HoldsLock, atomics,
      pyVars, quicVars
<1>12. ASSUME NEW t \in Task, ExitRun(t) PROVE TypeOK' /\ LockInv'
  <2>1. Goto(t, "done") /\ lockq' = Leave(lockq, t)
    BY <1>12 DEF ExitRun, Complete
  <2>2. LockInv' /\ lockq' \in Seq(Task)
    BY <2>1, LeaveStep DEF InLock, AwaitsLock, HoldsLock
  <2> QED BY <1>12, <2>2 DEF ExitRun, TypeOK, Goto, Labels, AwaitsLock, HoldsLock,
      quic_reset, quic_finish, Complete, Results, atomics, pyVars
<1>13. ASSUME NEW t \in Task, RunFinish(t) PROVE TypeOK' /\ LockInv'
  <2>1. Goto(t, "done") /\ lockq' = Leave(lockq, t)
    BY <1>13 DEF RunFinish, Complete
  <2>2. LockInv' /\ lockq' \in Seq(Task)
    BY <2>1, LeaveStep DEF InLock, AwaitsLock, HoldsLock
  <2> QED BY <1>13, <2>2 DEF RunFinish, TypeOK, Goto, Labels, AwaitsLock, HoldsLock,
      quic_finish, Complete, Results, atomics, pyVars
<1>14. ASSUME NEW t \in Task, DropTask(t) PROVE TypeOK' /\ LockInv'
  <2>1. Goto(t, "done") /\ lockq' = Leave(lockq, t)
    BY <1>14 DEF DropTask, Complete
  <2>2. LockInv' /\ lockq' \in Seq(Task)
    BY <2>1, LeaveStep DEF InLock, AwaitsLock, HoldsLock
  <2> QED BY <1>14, <2>2 DEF DropTask, TypeOK, Goto, Labels, AwaitsLock, HoldsLock,
      Complete, Results, Suspended, atomics, pyVars, quicVars
<1>15. ASSUME NEW t \in Task, RunWrite(t) PROVE TypeOK' /\ LockInv'
  <2>0. Owns(lockq, t) /\ pc[t] = "running"
    BY <1>15 DEF RunWrite, LockInv, HoldsLock
  <2>1. CASE write_error # "none" /\ Complete(t, map_write_error(write_error))
             /\ UNCHANGED <<left, quicVars>>
    <3>1. LockInv' /\ lockq' \in Seq(Task)
      BY <2>1, LeaveStep DEF Complete, InLock, AwaitsLock, HoldsLock
    <3> QED BY <1>15, <2>1, <3>1, WriteErrorType
        DEF RunWrite, Complete, TypeOK, Goto, Labels, atomics, pyVars, quicVars
  <2>2. CASE Block(t)
    <3>1. LockInv'
      BY <2>0, <2>2, StayStep DEF Block, InLock, AwaitsLock, HoldsLock
    <3> QED BY <1>15, <2>2, <3>1
        DEF RunWrite, Block, TypeOK, Goto, Labels, HoldsLock, atomics, pyVars, quicVars
  <2>3. CASE AcceptUnits(t) /\ Complete(t, "ok")
             /\ UNCHANGED <<send_state, sent_code, stopped, lost, send_priority>>
    <3>1. LockInv' /\ lockq' \in Seq(Task)
      BY <2>3, LeaveStep DEF Complete, InLock, AwaitsLock, HoldsLock
    <3>2. left' \in [Task -> 0..Size] /\ credit' \in 0..Window /\ wire' \in Seq(Task)
      BY <2>3, AcceptType
    <3> QED BY <1>15, <2>3, <3>1, <3>2, ZenonT(30)
        DEF RunWrite, Complete, TypeOK, Goto, Labels, Results, atomics, pyVars
  <2>4. CASE AcceptUnits(t) /\ UNCHANGED <<calls, kind, pc, result, lockq>>
             /\ UNCHANGED <<send_state, sent_code, stopped, lost, send_priority>>
    <3>1. LockInv'
      BY <2>4 DEF LockInv
    <3>2. left' \in [Task -> 0..Size] /\ credit' \in 0..Window /\ wire' \in Seq(Task)
      BY <2>4, AcceptType
    <3> QED BY <1>15, <2>4, <3>1, <3>2 DEF RunWrite, TypeOK, atomics, pyVars
  <2> QED BY <1>15, <2>1, <2>2, <2>3, <2>4 DEF RunWrite
<1>16. ASSUME NEW t \in Task, RunWriteSome(t) PROVE TypeOK' /\ LockInv'
  <2>0. Owns(lockq, t) /\ pc[t] = "running"
    BY <1>16 DEF RunWriteSome, LockInv, HoldsLock
  <2>1. CASE write_error # "none" /\ Complete(t, map_write_error(write_error))
             /\ UNCHANGED <<left, quicVars>>
    <3>1. LockInv' /\ lockq' \in Seq(Task)
      BY <2>1, LeaveStep DEF Complete, InLock, AwaitsLock, HoldsLock
    <3> QED BY <1>16, <2>1, <3>1, WriteErrorType
        DEF RunWriteSome, Complete, TypeOK, Goto, Labels, atomics, pyVars, quicVars
  <2>2. CASE Block(t)
    <3>1. LockInv'
      BY <2>0, <2>2, StayStep DEF Block, InLock, AwaitsLock, HoldsLock
    <3> QED BY <1>16, <2>2, <3>1
        DEF RunWriteSome, Block, TypeOK, Goto, Labels, HoldsLock, atomics, pyVars, quicVars
  <2>3. CASE AcceptUnits(t) /\ Complete(t, "ok")
             /\ UNCHANGED <<send_state, sent_code, stopped, lost, send_priority>>
    <3>1. LockInv' /\ lockq' \in Seq(Task)
      BY <2>3, LeaveStep DEF Complete, InLock, AwaitsLock, HoldsLock
    <3>2. left' \in [Task -> 0..Size] /\ credit' \in 0..Window /\ wire' \in Seq(Task)
      BY <2>3, AcceptType
    <3> QED BY <1>16, <2>3, <3>1, <3>2, ZenonT(30)
        DEF RunWriteSome, Complete, TypeOK, Goto, Labels, Results, atomics, pyVars
  <2> QED BY <1>16, <2>1, <2>2, <2>3 DEF RunWriteSome
<1>17. ASSUME NEW t \in Task, RunWaitClosed(t) PROVE TypeOK' /\ LockInv'
  <2>0. Owns(lockq, t) /\ pc[t] = "running"
    BY <1>17 DEF RunWaitClosed, LockInv, HoldsLock
  <2>1. ASSUME NEW r \in Results, Complete(t, r), UNCHANGED <<left, quicVars>>
        PROVE  TypeOK' /\ LockInv'
    <3>1. LockInv' /\ lockq' \in Seq(Task)
      BY <2>1, LeaveStep DEF Complete, InLock, AwaitsLock, HoldsLock
    <3> QED BY <1>17, <2>1, <3>1
        DEF RunWaitClosed, Complete, TypeOK, Goto, Labels, atomics, pyVars, quicVars
  <2>2. CASE Block(t)
    <3>1. LockInv'
      BY <2>0, <2>2, StayStep DEF Block, InLock, AwaitsLock, HoldsLock
    <3> QED BY <1>17, <2>2, <3>1
        DEF RunWaitClosed, Block, TypeOK, Goto, Labels, HoldsLock, atomics, pyVars, quicVars
  <2>3. "ok" \in Results /\ (lost # "none" => map_session_error(lost) \in Results)
    BY SessionErrorType DEF Results
  <2> QED BY <1>17, <2>1, <2>2, <2>3 DEF RunWaitClosed
<1>18. ASSUME NEW k \in Kinds, Call(k) PROVE TypeOK' /\ LockInv'
  <2>1. calls + 1 \in Task /\ pc[calls + 1] = "uncalled" /\ Goto(calls + 1, "spawned")
        /\ lockq' = lockq
    BY <1>18 DEF Call, TypeOK, CallInv, Task, Goto
  <2>2. LockInv'
    BY <2>1, StayStep DEF InLock, AwaitsLock, HoldsLock
  <2>3. /\ calls' \in 0..MaxCalls
        /\ kind' \in [Task -> Kinds \cup {"none"}]
        /\ pc' \in [Task -> Labels]
    <3>1. calls' \in 0..MaxCalls
      BY <1>18, SendConstants DEF Call, TypeOK
    <3>2. kind' \in [Task -> Kinds \cup {"none"}]
      BY <1>18, <2>1 DEF Call, TypeOK
    <3>3. pc' \in [Task -> Labels]
      BY <1>18, <2>1 DEF Call, TypeOK, Labels
    <3> QED BY <3>1, <3>2, <3>3
  <2> QED BY <1>18, <2>2, <2>3 DEF Call, TypeOK, atomics, pyVars, quicVars
<1>19. ASSUME PyResetStore PROVE TypeOK' /\ LockInv'
  <2>1. UNCHANGED <<pc, lockq>>
    BY <1>19 DEF PyResetStore, taskVars
  <2> QED BY <1>19, <2>1 DEF PyResetStore, TypeOK, LockInv, TokenInv, taskVars, quicVars
<1>20. ASSUME PyResetCancel PROVE TypeOK' /\ LockInv'
  <2>1. UNCHANGED <<pc, lockq>>
    BY <1>20 DEF PyResetCancel, taskVars
  <2> QED BY <1>20, <2>1 DEF PyResetCancel, TypeOK, LockInv, taskVars, quicVars
<1>21. ASSUME PyResetTry PROVE TypeOK' /\ LockInv'
  <2>1. UNCHANGED <<pc, lockq>>
    BY <1>21 DEF PyResetTry, taskVars
  <2> QED BY <1>21, <2>1 DEF PyResetTry, TypeOK, LockInv, quic_reset, taskVars, atomics
<1>22. ASSUME PyPriorityTry PROVE TypeOK' /\ LockInv'
  <2>1. UNCHANGED <<pc, lockq>>
    BY <1>22 DEF PyPriorityTry, taskVars
  <2> QED BY <1>22, <2>1 DEF PyPriorityTry, TypeOK, LockInv, quic_set_priority, taskVars
<1>23. ASSUME NEW code \in Code, PyReset(code) PROVE TypeOK' /\ LockInv'
  <2>1. UNCHANGED <<pc, lockq>>
    BY <1>23 DEF PyReset, taskVars
  <2> QED BY <1>23, <2>1 DEF PyReset, TypeOK, LockInv, taskVars, atomics, quicVars
<1>24. ASSUME NEW v \in Prio, PySetPriority(v) PROVE TypeOK' /\ LockInv'
  <2>1. UNCHANGED <<pc, lockq>>
    BY <1>24 DEF PySetPriority, taskVars
  <2> QED BY <1>24, <2>1 DEF PySetPriority, TypeOK, LockInv, taskVars, quicVars
<1>25. ASSUME PeerStop PROVE TypeOK' /\ LockInv'
  <2>1. UNCHANGED <<pc, lockq>>
    BY <1>25 DEF PeerStop, taskVars
  <2> QED BY <1>25, <2>1 DEF PeerStop, TypeOK, LockInv, taskVars, atomics, pyVars
<1>26. ASSUME PeerCredit PROVE TypeOK' /\ LockInv'
  <2>1. UNCHANGED <<pc, lockq>>
    BY <1>26 DEF PeerCredit, taskVars
  <2> QED BY <1>26, <2>1 DEF PeerCredit, TypeOK, LockInv, taskVars, atomics, pyVars
<1>27. ASSUME PeerAck PROVE TypeOK' /\ LockInv'
  <2>1. UNCHANGED <<pc, lockq>>
    BY <1>27 DEF PeerAck, taskVars
  <2> QED BY <1>27, <2>1 DEF PeerAck, TypeOK, LockInv, taskVars, atomics, pyVars
<1>28. ASSUME NEW e \in LostCauses, SessionLost(e) PROVE TypeOK' /\ LockInv'
  <2>1. UNCHANGED <<pc, lockq>>
    BY <1>28 DEF SessionLost, taskVars
  <2> QED BY <1>28, <2>1 DEF SessionLost, TypeOK, LockInv, taskVars, atomics, pyVars
<1>29. CASE UNCHANGED vars
  BY <1>29 DEF TypeOK, LockInv, vars, taskVars, atomics, pyVars, quicVars
<1> QED
  BY <1>1, <1>2, <1>3, <1>4, <1>5, <1>6, <1>7, <1>8, <1>9, <1>10, <1>11, <1>12, <1>13,
     <1>14, <1>15, <1>16, <1>17, <1>18, <1>19, <1>20, <1>21, <1>22, <1>23, <1>24, <1>25,
     <1>26, <1>27, <1>28, <1>29
  DEF Next, TaskStep, PyStep, Python, Peer

-----------------------------------------------------------------------------
(* What a write and a call change. *)

\* One write on the QUIC stream, by write() or write_some().
LEMMA WriteShape ==
    ASSUME TypeOK, NEW t \in Task, RunWrite(t) \/ RunWriteSome(t)
    PROVE  /\ UNCHANGED <<calls, kind, cancel, reset_code, priority, synced_priority, py_pc,
                          reset_arg, send_state, sent_code, stopped, lost, send_priority>>
           /\ kind[t] \in {"write", "write_some"} /\ pc[t] = "running"
           /\ pc' \in [Task -> {"running", "blocked", "done"} \cup Labels]
           /\ pc'[t] \in {"running", "blocked", "done"}
           /\ \A u \in Task \ {t} : /\ pc'[u] = pc[u] /\ result'[u] = result[u]
                                   /\ left'[u] = left[u]
           /\ pc'[t] # "done" => result'[t] = result[t]
           /\ pc'[t] = "done" =>
                 \/ result'[t] = "ok"
                 \/ write_error # "none" /\ result'[t] = map_write_error(write_error)
           /\ \/ left' = left /\ wire' = wire
              \/ send_state = "ready" /\ AcceptUnits(t)
<1>0. pc \in [Task -> Labels] /\ result \in [Task -> Results] /\ left \in [Task -> 0..Size]
  BY DEF TypeOK
<1>1. CASE write_error # "none" /\ Complete(t, map_write_error(write_error))
           /\ UNCHANGED <<left, quicVars>>
  BY <1>0, <1>1 DEF RunWrite, RunWriteSome, Complete, Goto, atomics, pyVars, quicVars
<1>2. CASE Block(t)
  BY <1>0, <1>2 DEF RunWrite, RunWriteSome, Block, Goto, atomics, pyVars, quicVars
<1>3. CASE /\ write_error = "none" /\ AcceptUnits(t)
           /\ Complete(t, "ok") \/ UNCHANGED <<calls, kind, pc, result, lockq>>
           /\ UNCHANGED <<send_state, sent_code, stopped, lost, send_priority>>
  <2>1. send_state = "ready"
    BY <1>3, SendConstants DEF write_error, TypeOK, SessionErrors, ConnectionErrors
  <2>2. \A u \in Task \ {t} : left'[u] = left[u]
    BY <1>0, <1>3 DEF AcceptUnits
  <2> QED BY <1>0, <1>3, <2>1, <2>2 DEF RunWrite, RunWriteSome, Complete, Goto, atomics, pyVars
<1> QED BY <1>1, <1>2, <1>3 DEF RunWrite, RunWriteSome

\* wait_closed() changes nothing but its own place and result.
LEMMA WaitShape ==
    ASSUME TypeOK, NEW t \in Task, RunWaitClosed(t)
    PROVE  /\ UNCHANGED <<calls, kind, left, cancel, reset_code, priority, synced_priority, py_pc,
                          reset_arg, send_state, sent_code, stopped, lost, credit,
                          send_priority, wire>>
           /\ kind[t] = "wait_closed" /\ pc[t] = "running"
           /\ pc'[t] \in {"blocked", "done"}
           /\ \A u \in Task \ {t} : pc'[u] = pc[u] /\ result'[u] = result[u]
           /\ pc'[t] # "done" => result'[t] = result[t]
           /\ pc'[t] = "done" =>
                 result'[t] = "ok" \/ (lost # "none" /\ result'[t] = map_session_error(lost))
<1>0. pc \in [Task -> Labels] /\ result \in [Task -> Results]
  BY DEF TypeOK
<1>1. CASE Block(t)
  BY <1>0, <1>1 DEF RunWaitClosed, Block, Goto, atomics, pyVars, quicVars
<1>2. CASE Complete(t, "ok") /\ UNCHANGED <<left, quicVars>>
  BY <1>0, <1>2 DEF RunWaitClosed, Complete, Goto, atomics, pyVars, quicVars
<1>3. CASE /\ lost # "none" /\ Complete(t, map_session_error(lost))
           /\ UNCHANGED <<left, quicVars>>
  BY <1>0, <1>3 DEF RunWaitClosed, Complete, Goto, atomics, pyVars, quicVars
<1> QED BY <1>1, <1>2, <1>3 DEF RunWaitClosed

\* A call creates the next task; nothing was known of it before.
LEMMA CallShape ==
    ASSUME TypeOK, CallInv, NEW k \in Kinds, Call(k)
    PROVE  /\ UNCHANGED <<result, left, lockq, atomics, pyVars, quicVars>>
           /\ calls + 1 \in Task /\ calls' = calls + 1
           /\ pc[calls + 1] = "uncalled" /\ kind[calls + 1] = "none"
           /\ result[calls + 1] = "none" /\ left[calls + 1] = Size
           /\ pc'[calls + 1] = "spawned" /\ kind'[calls + 1] = k
           /\ \A u \in Task \ {calls + 1} : pc'[u] = pc[u] /\ kind'[u] = kind[u]
<1>1. calls + 1 \in Task
  BY SendConstants DEF Call, TypeOK, Task
<1>2. /\ pc[calls + 1] = "uncalled" /\ kind[calls + 1] = "none"
      /\ result[calls + 1] = "none" /\ left[calls + 1] = Size
  BY <1>1, SendConstants DEF CallInv, Task, TypeOK, Fresh
<1> QED BY <1>1, <1>2 DEF Call, TypeOK

\* The exception of a failed write says why it failed.
LEMMA WriteErrorTrue ==
    ASSUME TypeOK, write_error # "none"
    PROVE  /\ map_write_error(write_error) = "StreamClosedLocally" => send_state # "ready"
           /\ map_write_error(write_error) = "StreamClosedByPeer" => stopped
           /\ map_write_error(write_error) \in SessionExceptions =>
                 lost # "none" /\ map_write_error(write_error) = map_session_error(lost)
           /\ map_write_error(write_error) # "none"
<1>1. CASE lost # "none"
  <2>1. write_error = lost /\ lost \in SessionErrors
    BY <1>1, SendConstants DEF write_error, TypeOK
  <2>2. map_write_error(lost) = map_session_error(lost)
    BY <2>1 DEF map_write_error, SessionErrors, ConnectionErrors
  <2>3. map_session_error(lost) \in SessionExceptions
    BY <1>1, SessionErrorType
  <2> QED BY <1>1, <2>1, <2>2, <2>3 DEF SessionExceptions
<1>2. CASE lost = "none"
  BY <1>2 DEF write_error, map_write_error, SessionErrors, ConnectionErrors,
     SessionExceptions
<1> QED BY <1>1, <1>2

-----------------------------------------------------------------------------
(* The other parts of the invariant, action by action. *)

\* CallInv: what holds of a task before it is called, before it runs and before it ends.
LEMMA CallStep ==
    ASSUME TypeOK, CallInv, [Next]_vars
    PROVE  CallInv'
<1> USE SendConstants
<1>1. ASSUME NEW t \in Task, PollCancelled(t) PROVE CallInv'
  BY <1>1 DEF PollCancelled, Goto, atomics, pyVars, quicVars, TypeOK, CallInv, Fresh, Task
<1>2. ASSUME NEW t \in Task, PollStart(t) PROVE CallInv'
  BY <1>2 DEF PollStart, Goto, atomics, pyVars, quicVars, TypeOK, CallInv, Fresh, Task
<1>3. ASSUME NEW t \in Task, Lock(t) PROVE CallInv'
  BY <1>3 DEF Lock, Goto, atomics, pyVars, quicVars, TypeOK, CallInv, Fresh, Task
<1>4. ASSUME NEW t \in Task, LockGranted(t) PROVE CallInv'
  BY <1>4 DEF LockGranted, Goto, atomics, pyVars, quicVars, TypeOK, CallInv, Fresh, Task
<1>5. ASSUME NEW t \in Task, SyncPriority(t) PROVE CallInv'
  BY <1>5 DEF SyncPriority, Goto, quic_set_priority, pyVars, TypeOK, CallInv, Fresh, Task
<1>6. ASSUME NEW t \in Task, RunWrite(t) PROVE CallInv'
  BY <1>6, WriteShape DEF CallInv, Fresh
<1>7. ASSUME NEW t \in Task, RunWriteSome(t) PROVE CallInv'
  BY <1>7, WriteShape DEF CallInv, Fresh
<1>8. ASSUME NEW t \in Task, RunFinish(t) PROVE CallInv'
  BY <1>8 DEF RunFinish, Complete, quic_finish, atomics, pyVars, finish_fails, Goto, TypeOK,
     CallInv, Fresh, Task
<1>9. ASSUME NEW t \in Task, RunWaitClosed(t) PROVE CallInv'
  BY <1>9, WaitShape DEF CallInv, Fresh
<1>10. ASSUME NEW t \in Task, Resume(t) PROVE CallInv'
  BY <1>10 DEF Resume, Goto, atomics, pyVars, quicVars, Ready, TypeOK, CallInv, Fresh, Task
<1>11. ASSUME NEW t \in Task, Relock(t) PROVE CallInv'
  BY <1>11 DEF Relock, Goto, atomics, pyVars, quicVars, TypeOK, CallInv, Fresh, Task
<1>12. ASSUME NEW t \in Task, ResetInterrupted(t) PROVE CallInv'
  BY <1>12 DEF ResetInterrupted, Complete, quic_reset, atomics, pyVars, Goto, TypeOK, CallInv,
     Fresh, Task
<1>13. ASSUME NEW t \in Task, ExitStore(t) PROVE CallInv'
  BY <1>13 DEF ExitStore, Goto, pyVars, quicVars, TypeOK, CallInv, Fresh, Task
<1>14. ASSUME NEW t \in Task, ExitCancel(t) PROVE CallInv'
  BY <1>14 DEF ExitCancel, Goto, pyVars, quicVars, TypeOK, CallInv, Fresh, Task
<1>15. ASSUME NEW t \in Task, ExitLock(t) PROVE CallInv'
  BY <1>15 DEF ExitLock, Goto, atomics, pyVars, quicVars, TypeOK, CallInv, Fresh, Task
<1>16. ASSUME NEW t \in Task, ExitRun(t) PROVE CallInv'
  BY <1>16 DEF ExitRun, Complete, quic_reset, quic_finish, atomics, pyVars, Goto, TypeOK,
     CallInv, Fresh, Task
<1>17. ASSUME NEW t \in Task, DropTask(t) PROVE CallInv'
  <2>1. pc[t] # "uncalled"
    BY <1>17 DEF DropTask, Suspended, AwaitsLock
  <2> QED BY <1>17, <2>1 DEF DropTask, Complete, Goto, CallInv, Fresh, TypeOK
<1>18. ASSUME NEW k \in Kinds, Call(k) PROVE CallInv'
  <2>1. calls \in Nat /\ \A u \in Task : u \in Int
    BY SendConstants DEF TypeOK, Task
  <2>2. ASSUME NEW u \in Task, u # calls + 1
        PROVE  pc'[u] = pc[u] /\ kind'[u] = kind[u] /\ result'[u] = result[u]
               /\ left'[u] = left[u] /\ (u > calls' => u > calls)
    BY <1>18, <2>1, <2>2, CallShape
  <2>3. ASSUME NEW u \in Task, u # calls + 1
        PROVE  /\ u > calls' => pc'[u] = "uncalled"
               /\ pc'[u] = "uncalled" => kind'[u] = "none"
               /\ pc'[u] # "done" => result'[u] = "none"
               /\ pc'[u] \in Fresh => left'[u] = Size
    BY <2>2, <2>3 DEF CallInv
  <2>4. /\ ~(calls + 1 > calls')
        /\ pc'[calls + 1] = "spawned"
        /\ result'[calls + 1] = "none" /\ left'[calls + 1] = Size
    BY <1>18, <2>1, CallShape
  <2> QED BY <2>3, <2>4 DEF CallInv
<1>19. ASSUME PyResetStore PROVE CallInv'
  BY <1>19 DEF PyResetStore, taskVars, quicVars, TypeOK, CallInv, Fresh, Task
<1>20. ASSUME PyResetCancel PROVE CallInv'
  BY <1>20 DEF PyResetCancel, taskVars, quicVars, TypeOK, CallInv, Fresh, Task
<1>21. ASSUME PyResetTry PROVE CallInv'
  BY <1>21 DEF PyResetTry, quic_reset, taskVars, atomics, TypeOK, CallInv, Fresh, Task
<1>22. ASSUME PyPriorityTry PROVE CallInv'
  BY <1>22 DEF PyPriorityTry, quic_set_priority, taskVars, TypeOK, CallInv, Fresh, Task
<1>23. ASSUME NEW code \in Code, PyReset(code) PROVE CallInv'
  BY <1>23 DEF PyReset, taskVars, atomics, quicVars, TypeOK, CallInv, Fresh, Task
<1>24. ASSUME NEW v \in Prio, PySetPriority(v) PROVE CallInv'
  BY <1>24 DEF PySetPriority, taskVars, quicVars, TypeOK, CallInv, Fresh, Task
<1>25. ASSUME PeerStop PROVE CallInv'
  BY <1>25 DEF PeerStop, taskVars, atomics, pyVars, TypeOK, CallInv, Fresh, Task
<1>26. ASSUME PeerCredit PROVE CallInv'
  BY <1>26 DEF PeerCredit, taskVars, atomics, pyVars, TypeOK, CallInv, Fresh, Task
<1>27. ASSUME PeerAck PROVE CallInv'
  BY <1>27 DEF PeerAck, taskVars, atomics, pyVars, TypeOK, CallInv, Fresh, Task
<1>28. ASSUME NEW e \in LostCauses, SessionLost(e) PROVE CallInv'
  BY <1>28 DEF SessionLost, taskVars, atomics, pyVars, TypeOK, CallInv, Fresh, Task
<1>29. CASE UNCHANGED vars
  BY <1>29 DEF vars, taskVars, atomics, pyVars, quicVars, TypeOK, CallInv, Fresh, Task
<1> QED
  BY <1>1, <1>2, <1>3, <1>4, <1>5, <1>6, <1>7, <1>8, <1>9, <1>10, <1>11, <1>12, <1>13, <1>14,
     <1>15, <1>16, <1>17, <1>18, <1>19, <1>20, <1>21, <1>22, <1>23, <1>24, <1>25, <1>26,
     <1>27, <1>28, <1>29
  DEF Next, TaskStep, PyStep, Python, Peer

\* TokenInv: whoever cancels the token has stored a code that was asked for, and
\* whoever acts on the token finds that code.
LEMMA TokenStep ==
    ASSUME TypeOK, CallInv, TokenInv, [Next]_vars
    PROVE  TokenInv'
<1> USE SendConstants
<1>1. ASSUME NEW t \in Task, PollCancelled(t) PROVE TokenInv'
  BY <1>1 DEF PollCancelled, Goto, atomics, pyVars, quicVars, TypeOK, CallInv, TokenInv,
     Requested, ResetCodeRequested, Task
<1>2. ASSUME NEW t \in Task, PollStart(t) PROVE TokenInv'
  BY <1>2 DEF PollStart, Goto, atomics, pyVars, quicVars, TypeOK, CallInv, TokenInv,
     Requested, ResetCodeRequested, Task
<1>3. ASSUME NEW t \in Task, Lock(t) PROVE TokenInv'
  BY <1>3 DEF Lock, Goto, atomics, pyVars, quicVars, TypeOK, CallInv, TokenInv, Requested,
     ResetCodeRequested, Task
<1>4. ASSUME NEW t \in Task, LockGranted(t) PROVE TokenInv'
  BY <1>4 DEF LockGranted, Goto, atomics, pyVars, quicVars, TypeOK, CallInv, TokenInv,
     Requested, ResetCodeRequested, Task
<1>5. ASSUME NEW t \in Task, SyncPriority(t) PROVE TokenInv'
  BY <1>5 DEF SyncPriority, Goto, quic_set_priority, pyVars, TypeOK, CallInv, TokenInv,
     Requested, ResetCodeRequested, Task
<1>6. ASSUME NEW t \in Task, RunWrite(t) PROVE TokenInv'
  BY <1>6, WriteShape DEF TokenInv, Requested, ResetCodeRequested
<1>7. ASSUME NEW t \in Task, RunWriteSome(t) PROVE TokenInv'
  BY <1>7, WriteShape DEF TokenInv, Requested, ResetCodeRequested
<1>8. ASSUME NEW t \in Task, RunFinish(t) PROVE TokenInv'
  BY <1>8 DEF RunFinish, Complete, quic_finish, atomics, pyVars, finish_fails, Goto, TypeOK,
     CallInv, TokenInv, Requested, ResetCodeRequested, Task
<1>9. ASSUME NEW t \in Task, RunWaitClosed(t) PROVE TokenInv'
  BY <1>9, WaitShape DEF TokenInv, Requested, ResetCodeRequested
<1>10. ASSUME NEW t \in Task, Resume(t) PROVE TokenInv'
  BY <1>10 DEF Resume, Goto, atomics, pyVars, quicVars, Ready, TypeOK, CallInv, TokenInv,
     Requested, ResetCodeRequested, Task
<1>11. ASSUME NEW t \in Task, Relock(t) PROVE TokenInv'
  BY <1>11 DEF Relock, Goto, atomics, pyVars, quicVars, TypeOK, CallInv, TokenInv, Requested,
     ResetCodeRequested, Task
<1>12. ASSUME NEW t \in Task, ResetInterrupted(t) PROVE TokenInv'
  BY <1>12 DEF ResetInterrupted, Complete, quic_reset, atomics, pyVars, Goto, TypeOK, CallInv,
     TokenInv, Requested, ResetCodeRequested, Task
<1>13. ASSUME NEW t \in Task, ExitStore(t) PROVE TokenInv'
  BY <1>13 DEF ExitStore, Goto, pyVars, quicVars, TypeOK, CallInv, TokenInv, Requested,
     ResetCodeRequested, Task
<1>14. ASSUME NEW t \in Task, ExitCancel(t) PROVE TokenInv'
  BY <1>14 DEF ExitCancel, Goto, pyVars, quicVars, TypeOK, CallInv, TokenInv, Requested,
     ResetCodeRequested, Task
<1>15. ASSUME NEW t \in Task, ExitLock(t) PROVE TokenInv'
  BY <1>15 DEF ExitLock, Goto, atomics, pyVars, quicVars, TypeOK, CallInv, TokenInv,
     Requested, ResetCodeRequested, Task
<1>16. ASSUME NEW t \in Task, ExitRun(t) PROVE TokenInv'
  BY <1>16 DEF ExitRun, Complete, quic_reset, quic_finish, atomics, pyVars, Goto, TypeOK,
     CallInv, TokenInv, Requested, ResetCodeRequested, Task
<1>17. ASSUME NEW t \in Task, DropTask(t) PROVE TokenInv'
  BY <1>17 DEF DropTask, Complete, atomics, pyVars, quicVars, Suspended, Goto, TypeOK,
     CallInv, TokenInv, Requested, ResetCodeRequested, Task
<1>18. ASSUME NEW k \in Kinds, Call(k) PROVE TokenInv'
  <2>1. \A c \in Code : Requested(c) => Requested(c)'
    BY <1>18, CallShape DEF Requested, pyVars
  <2> QED BY <1>18, <2>1, CallShape
      DEF TokenInv, ResetCodeRequested, TypeOK, atomics, pyVars, quicVars
<1>19. ASSUME PyResetStore PROVE TokenInv'
  BY <1>19 DEF PyResetStore, taskVars, quicVars, TypeOK, CallInv, TokenInv, Requested,
     ResetCodeRequested, Task
<1>20. ASSUME PyResetCancel PROVE TokenInv'
  BY <1>20 DEF PyResetCancel, taskVars, quicVars, TypeOK, CallInv, TokenInv, Requested,
     ResetCodeRequested, Task
<1>21. ASSUME PyResetTry PROVE TokenInv'
  BY <1>21 DEF PyResetTry, quic_reset, taskVars, atomics, TypeOK, CallInv, TokenInv,
     Requested, ResetCodeRequested, Task
<1>22. ASSUME PyPriorityTry PROVE TokenInv'
  BY <1>22 DEF PyPriorityTry, quic_set_priority, taskVars, TypeOK, CallInv, TokenInv,
     Requested, ResetCodeRequested, Task
<1>23. ASSUME NEW code \in Code, PyReset(code) PROVE TokenInv'
  BY <1>23 DEF PyReset, taskVars, atomics, quicVars, TypeOK, CallInv, TokenInv, Requested,
     ResetCodeRequested, Task
<1>24. ASSUME NEW v \in Prio, PySetPriority(v) PROVE TokenInv'
  BY <1>24 DEF PySetPriority, taskVars, quicVars, TypeOK, CallInv, TokenInv, Requested,
     ResetCodeRequested, Task
<1>25. ASSUME PeerStop PROVE TokenInv'
  BY <1>25 DEF PeerStop, taskVars, atomics, pyVars, TypeOK, CallInv, TokenInv, Requested,
     ResetCodeRequested, Task
<1>26. ASSUME PeerCredit PROVE TokenInv'
  BY <1>26 DEF PeerCredit, taskVars, atomics, pyVars, TypeOK, CallInv, TokenInv, Requested,
     ResetCodeRequested, Task
<1>27. ASSUME PeerAck PROVE TokenInv'
  BY <1>27 DEF PeerAck, taskVars, atomics, pyVars, TypeOK, CallInv, TokenInv, Requested,
     ResetCodeRequested, Task
<1>28. ASSUME NEW e \in LostCauses, SessionLost(e) PROVE TokenInv'
  BY <1>28 DEF SessionLost, taskVars, atomics, pyVars, TypeOK, CallInv, TokenInv, Requested,
     ResetCodeRequested, Task
<1>29. CASE UNCHANGED vars
  BY <1>29 DEF vars, taskVars, atomics, pyVars, quicVars, TypeOK, CallInv, TokenInv,
     Requested, ResetCodeRequested, Task
<1> QED
  BY <1>1, <1>2, <1>3, <1>4, <1>5, <1>6, <1>7, <1>8, <1>9, <1>10, <1>11, <1>12, <1>13, <1>14,
     <1>15, <1>16, <1>17, <1>18, <1>19, <1>20, <1>21, <1>22, <1>23, <1>24, <1>25, <1>26,
     <1>27, <1>28, <1>29
  DEF Next, TaskStep, PyStep, Python, Peer

\* ExceptionsAreTrue: what an exception says is true when it is raised and stays true.
LEMMA ExceptionStep ==
    ASSUME TypeOK, CallInv, ExceptionsAreTrue, [Next]_vars
    PROVE  ExceptionsAreTrue'
<1> USE SendConstants
<1>1. ASSUME NEW t \in Task, PollCancelled(t) PROVE ExceptionsAreTrue'
  BY <1>1 DEF PollCancelled, Goto, atomics, pyVars, quicVars, TypeOK, ExceptionsAreTrue,
     SessionExceptions
<1>2. ASSUME NEW t \in Task, PollStart(t) PROVE ExceptionsAreTrue'
  BY <1>2 DEF PollStart, Goto, atomics, pyVars, quicVars, TypeOK, ExceptionsAreTrue,
     SessionExceptions
<1>3. ASSUME NEW t \in Task, Lock(t) PROVE ExceptionsAreTrue'
  BY <1>3 DEF Lock, Goto, atomics, pyVars, quicVars, TypeOK, ExceptionsAreTrue,
     SessionExceptions
<1>4. ASSUME NEW t \in Task, LockGranted(t) PROVE ExceptionsAreTrue'
  BY <1>4 DEF LockGranted, Goto, atomics, pyVars, quicVars, TypeOK, ExceptionsAreTrue,
     SessionExceptions
<1>5. ASSUME NEW t \in Task, SyncPriority(t) PROVE ExceptionsAreTrue'
  BY <1>5 DEF SyncPriority, Goto, quic_set_priority, pyVars, TypeOK, ExceptionsAreTrue,
     SessionExceptions
<1>6. ASSUME NEW t \in Task, RunWrite(t) PROVE ExceptionsAreTrue'
  BY <1>6, WriteShape, WriteErrorTrue DEF ExceptionsAreTrue, SessionExceptions
<1>7. ASSUME NEW t \in Task, RunWriteSome(t) PROVE ExceptionsAreTrue'
  BY <1>7, WriteShape, WriteErrorTrue DEF ExceptionsAreTrue, SessionExceptions
<1>8. ASSUME NEW t \in Task, RunFinish(t) PROVE ExceptionsAreTrue'
  BY <1>8 DEF RunFinish, Complete, quic_finish, atomics, pyVars, finish_fails, Goto, TypeOK,
     ExceptionsAreTrue, SessionExceptions
<1>9. ASSUME NEW t \in Task, RunWaitClosed(t) PROVE ExceptionsAreTrue'
  <2>1. lost # "none" => map_session_error(lost) \in SessionExceptions
    BY SessionErrorType
  <2> QED BY <1>9, <2>1 DEF RunWaitClosed, Complete, Block, Goto, ExceptionsAreTrue,
      SessionExceptions, TypeOK, quicVars
<1>10. ASSUME NEW t \in Task, Resume(t) PROVE ExceptionsAreTrue'
  BY <1>10 DEF Resume, Goto, atomics, pyVars, quicVars, Ready, TypeOK, ExceptionsAreTrue,
     SessionExceptions
<1>11. ASSUME NEW t \in Task, Relock(t) PROVE ExceptionsAreTrue'
  BY <1>11 DEF Relock, Goto, atomics, pyVars, quicVars, TypeOK, ExceptionsAreTrue,
     SessionExceptions
<1>12. ASSUME NEW t \in Task, ResetInterrupted(t) PROVE ExceptionsAreTrue'
  BY <1>12 DEF ResetInterrupted, Complete, quic_reset, atomics, pyVars, Goto, TypeOK,
     ExceptionsAreTrue, SessionExceptions
<1>13. ASSUME NEW t \in Task, ExitStore(t) PROVE ExceptionsAreTrue'
  BY <1>13 DEF ExitStore, Goto, pyVars, quicVars, TypeOK, ExceptionsAreTrue, SessionExceptions
<1>14. ASSUME NEW t \in Task, ExitCancel(t) PROVE ExceptionsAreTrue'
  BY <1>14 DEF ExitCancel, Goto, pyVars, quicVars, TypeOK, ExceptionsAreTrue,
     SessionExceptions
<1>15. ASSUME NEW t \in Task, ExitLock(t) PROVE ExceptionsAreTrue'
  BY <1>15 DEF ExitLock, Goto, atomics, pyVars, quicVars, TypeOK, ExceptionsAreTrue,
     SessionExceptions
<1>16. ASSUME NEW t \in Task, ExitRun(t) PROVE ExceptionsAreTrue'
  BY <1>16 DEF ExitRun, Complete, quic_reset, quic_finish, atomics, pyVars, Goto, TypeOK,
     ExceptionsAreTrue, SessionExceptions
<1>17. ASSUME NEW t \in Task, DropTask(t) PROVE ExceptionsAreTrue'
  BY <1>17 DEF DropTask, Complete, atomics, pyVars, quicVars, Suspended, Goto, TypeOK,
     ExceptionsAreTrue, SessionExceptions
<1>18. ASSUME NEW k \in Kinds, Call(k) PROVE ExceptionsAreTrue'
  BY <1>18 DEF Call, atomics, pyVars, quicVars, TypeOK, ExceptionsAreTrue, SessionExceptions
<1>19. ASSUME PyResetStore PROVE ExceptionsAreTrue'
  BY <1>19 DEF PyResetStore, taskVars, quicVars, TypeOK, ExceptionsAreTrue, SessionExceptions
<1>20. ASSUME PyResetCancel PROVE ExceptionsAreTrue'
  BY <1>20 DEF PyResetCancel, taskVars, quicVars, TypeOK, ExceptionsAreTrue, SessionExceptions
<1>21. ASSUME PyResetTry PROVE ExceptionsAreTrue'
  BY <1>21 DEF PyResetTry, quic_reset, taskVars, atomics, TypeOK, ExceptionsAreTrue,
     SessionExceptions
<1>22. ASSUME PyPriorityTry PROVE ExceptionsAreTrue'
  BY <1>22 DEF PyPriorityTry, quic_set_priority, taskVars, TypeOK, ExceptionsAreTrue,
     SessionExceptions
<1>23. ASSUME NEW code \in Code, PyReset(code) PROVE ExceptionsAreTrue'
  BY <1>23 DEF PyReset, taskVars, atomics, quicVars, TypeOK, ExceptionsAreTrue,
     SessionExceptions
<1>24. ASSUME NEW v \in Prio, PySetPriority(v) PROVE ExceptionsAreTrue'
  BY <1>24 DEF PySetPriority, taskVars, quicVars, TypeOK, ExceptionsAreTrue, SessionExceptions
<1>25. ASSUME PeerStop PROVE ExceptionsAreTrue'
  BY <1>25 DEF PeerStop, taskVars, atomics, pyVars, TypeOK, ExceptionsAreTrue,
     SessionExceptions
<1>26. ASSUME PeerCredit PROVE ExceptionsAreTrue'
  BY <1>26 DEF PeerCredit, taskVars, atomics, pyVars, TypeOK, ExceptionsAreTrue,
     SessionExceptions
<1>27. ASSUME PeerAck PROVE ExceptionsAreTrue'
  BY <1>27 DEF PeerAck, taskVars, atomics, pyVars, TypeOK, ExceptionsAreTrue,
     SessionExceptions
<1>28. ASSUME NEW e \in LostCauses, SessionLost(e) PROVE ExceptionsAreTrue'
  BY <1>28 DEF SessionLost, taskVars, atomics, pyVars, TypeOK, ExceptionsAreTrue,
     SessionExceptions
<1>29. CASE UNCHANGED vars
  BY <1>29 DEF vars, taskVars, atomics, pyVars, quicVars, TypeOK, ExceptionsAreTrue,
     SessionExceptions
<1> QED
  BY <1>1, <1>2, <1>3, <1>4, <1>5, <1>6, <1>7, <1>8, <1>9, <1>10, <1>11, <1>12, <1>13, <1>14,
     <1>15, <1>16, <1>17, <1>18, <1>19, <1>20, <1>21, <1>22, <1>23, <1>24, <1>25, <1>26,
     <1>27, <1>28, <1>29
  DEF Next, TaskStep, PyStep, Python, Peer

\* ExitCloses: __aexit__ returns with the stream closed, and it stays closed.
LEMMA ExitStep ==
    ASSUME TypeOK, CallInv, ExitCloses, [Next]_vars
    PROVE  ExitCloses'
<1> USE SendConstants
<1>1. ASSUME NEW t \in Task, PollCancelled(t) PROVE ExitCloses'
  BY <1>1 DEF PollCancelled, Goto, atomics, pyVars, quicVars, TypeOK, CallInv, ExitCloses,
     Task
<1>2. ASSUME NEW t \in Task, PollStart(t) PROVE ExitCloses'
  BY <1>2 DEF PollStart, Goto, atomics, pyVars, quicVars, TypeOK, CallInv, ExitCloses, Task
<1>3. ASSUME NEW t \in Task, Lock(t) PROVE ExitCloses'
  BY <1>3 DEF Lock, Goto, atomics, pyVars, quicVars, TypeOK, CallInv, ExitCloses, Task
<1>4. ASSUME NEW t \in Task, LockGranted(t) PROVE ExitCloses'
  BY <1>4 DEF LockGranted, Goto, atomics, pyVars, quicVars, TypeOK, CallInv, ExitCloses, Task
<1>5. ASSUME NEW t \in Task, SyncPriority(t) PROVE ExitCloses'
  BY <1>5 DEF SyncPriority, Goto, quic_set_priority, pyVars, TypeOK, CallInv, ExitCloses, Task
<1>6. ASSUME NEW t \in Task, RunWrite(t) PROVE ExitCloses'
  BY <1>6, WriteShape DEF ExitCloses
<1>7. ASSUME NEW t \in Task, RunWriteSome(t) PROVE ExitCloses'
  BY <1>7, WriteShape DEF ExitCloses
<1>8. ASSUME NEW t \in Task, RunFinish(t) PROVE ExitCloses'
  BY <1>8 DEF RunFinish, Complete, quic_finish, atomics, pyVars, finish_fails, Goto, TypeOK,
     CallInv, ExitCloses, Task
<1>9. ASSUME NEW t \in Task, RunWaitClosed(t) PROVE ExitCloses'
  BY <1>9, WaitShape DEF ExitCloses
<1>10. ASSUME NEW t \in Task, Resume(t) PROVE ExitCloses'
  BY <1>10 DEF Resume, Goto, atomics, pyVars, quicVars, Ready, TypeOK, CallInv, ExitCloses,
     Task
<1>11. ASSUME NEW t \in Task, Relock(t) PROVE ExitCloses'
  BY <1>11 DEF Relock, Goto, atomics, pyVars, quicVars, TypeOK, CallInv, ExitCloses, Task
<1>12. ASSUME NEW t \in Task, ResetInterrupted(t) PROVE ExitCloses'
  BY <1>12 DEF ResetInterrupted, Complete, quic_reset, atomics, pyVars, Goto, TypeOK, CallInv,
     ExitCloses, Task
<1>13. ASSUME NEW t \in Task, ExitStore(t) PROVE ExitCloses'
  BY <1>13 DEF ExitStore, Goto, pyVars, quicVars, TypeOK, CallInv, ExitCloses, Task
<1>14. ASSUME NEW t \in Task, ExitCancel(t) PROVE ExitCloses'
  BY <1>14 DEF ExitCancel, Goto, pyVars, quicVars, TypeOK, CallInv, ExitCloses, Task
<1>15. ASSUME NEW t \in Task, ExitLock(t) PROVE ExitCloses'
  BY <1>15 DEF ExitLock, Goto, atomics, pyVars, quicVars, TypeOK, CallInv, ExitCloses, Task
<1>16. ASSUME NEW t \in Task, ExitRun(t) PROVE ExitCloses'
  BY <1>16 DEF ExitRun, Complete, quic_reset, quic_finish, atomics, pyVars, Goto, TypeOK,
     CallInv, ExitCloses, Task
<1>17. ASSUME NEW t \in Task, DropTask(t) PROVE ExitCloses'
  BY <1>17 DEF DropTask, Complete, atomics, pyVars, quicVars, Suspended, Goto, TypeOK,
     CallInv, ExitCloses, Task
<1>18. ASSUME NEW k \in Kinds, Call(k) PROVE ExitCloses'
  BY <1>18, CallShape DEF ExitCloses, quicVars
<1>19. ASSUME PyResetStore PROVE ExitCloses'
  BY <1>19 DEF PyResetStore, taskVars, quicVars, TypeOK, CallInv, ExitCloses, Task
<1>20. ASSUME PyResetCancel PROVE ExitCloses'
  BY <1>20 DEF PyResetCancel, taskVars, quicVars, TypeOK, CallInv, ExitCloses, Task
<1>21. ASSUME PyResetTry PROVE ExitCloses'
  BY <1>21 DEF PyResetTry, quic_reset, taskVars, atomics, TypeOK, CallInv, ExitCloses, Task
<1>22. ASSUME PyPriorityTry PROVE ExitCloses'
  BY <1>22 DEF PyPriorityTry, quic_set_priority, taskVars, TypeOK, CallInv, ExitCloses, Task
<1>23. ASSUME NEW code \in Code, PyReset(code) PROVE ExitCloses'
  BY <1>23 DEF PyReset, taskVars, atomics, quicVars, TypeOK, CallInv, ExitCloses, Task
<1>24. ASSUME NEW v \in Prio, PySetPriority(v) PROVE ExitCloses'
  BY <1>24 DEF PySetPriority, taskVars, quicVars, TypeOK, CallInv, ExitCloses, Task
<1>25. ASSUME PeerStop PROVE ExitCloses'
  BY <1>25 DEF PeerStop, taskVars, atomics, pyVars, TypeOK, CallInv, ExitCloses, Task
<1>26. ASSUME PeerCredit PROVE ExitCloses'
  BY <1>26 DEF PeerCredit, taskVars, atomics, pyVars, TypeOK, CallInv, ExitCloses, Task
<1>27. ASSUME PeerAck PROVE ExitCloses'
  BY <1>27 DEF PeerAck, taskVars, atomics, pyVars, TypeOK, CallInv, ExitCloses, Task
<1>28. ASSUME NEW e \in LostCauses, SessionLost(e) PROVE ExitCloses'
  BY <1>28 DEF SessionLost, taskVars, atomics, pyVars, TypeOK, CallInv, ExitCloses, Task
<1>29. CASE UNCHANGED vars
  BY <1>29 DEF vars, taskVars, atomics, pyVars, quicVars, TypeOK, CallInv, ExitCloses, Task
<1> QED
  BY <1>1, <1>2, <1>3, <1>4, <1>5, <1>6, <1>7, <1>8, <1>9, <1>10, <1>11, <1>12, <1>13, <1>14,
     <1>15, <1>16, <1>17, <1>18, <1>19, <1>20, <1>21, <1>22, <1>23, <1>24, <1>25, <1>26,
     <1>27, <1>28, <1>29
  DEF Next, TaskStep, PyStep, Python, Peer

\* SyncedIsApplied: synced_priority and the priority of the stream change together.
LEMMA SyncStep ==
    ASSUME TypeOK, SyncedIsApplied, [Next]_vars
    PROVE  SyncedIsApplied'
<1> USE SendConstants
<1>1. ASSUME NEW t \in Task, PollCancelled(t) PROVE SyncedIsApplied'
  BY <1>1 DEF PollCancelled, Goto, atomics, pyVars, quicVars, TypeOK, SyncedIsApplied
<1>2. ASSUME NEW t \in Task, PollStart(t) PROVE SyncedIsApplied'
  BY <1>2 DEF PollStart, Goto, atomics, pyVars, quicVars, TypeOK, SyncedIsApplied
<1>3. ASSUME NEW t \in Task, Lock(t) PROVE SyncedIsApplied'
  BY <1>3 DEF Lock, Goto, atomics, pyVars, quicVars, TypeOK, SyncedIsApplied
<1>4. ASSUME NEW t \in Task, LockGranted(t) PROVE SyncedIsApplied'
  BY <1>4 DEF LockGranted, Goto, atomics, pyVars, quicVars, TypeOK, SyncedIsApplied
<1>5. ASSUME NEW t \in Task, SyncPriority(t) PROVE SyncedIsApplied'
  BY <1>5 DEF SyncPriority, Goto, quic_set_priority, pyVars, TypeOK, SyncedIsApplied
<1>6. ASSUME NEW t \in Task, RunWrite(t) PROVE SyncedIsApplied'
  BY <1>6 DEF RunWrite, Complete, Block, AcceptUnits, atomics, pyVars, quicVars, Goto, TypeOK,
     SyncedIsApplied
<1>7. ASSUME NEW t \in Task, RunWriteSome(t) PROVE SyncedIsApplied'
  BY <1>7 DEF RunWriteSome, Complete, Block, AcceptUnits, atomics, pyVars, quicVars, Goto,
     TypeOK, SyncedIsApplied
<1>8. ASSUME NEW t \in Task, RunFinish(t) PROVE SyncedIsApplied'
  BY <1>8 DEF RunFinish, Complete, quic_finish, atomics, pyVars, finish_fails, Goto, TypeOK,
     SyncedIsApplied
<1>9. ASSUME NEW t \in Task, RunWaitClosed(t) PROVE SyncedIsApplied'
  BY <1>9, WaitShape DEF SyncedIsApplied
<1>10. ASSUME NEW t \in Task, Resume(t) PROVE SyncedIsApplied'
  BY <1>10 DEF Resume, Goto, atomics, pyVars, quicVars, Ready, TypeOK, SyncedIsApplied
<1>11. ASSUME NEW t \in Task, Relock(t) PROVE SyncedIsApplied'
  BY <1>11 DEF Relock, Goto, atomics, pyVars, quicVars, TypeOK, SyncedIsApplied
<1>12. ASSUME NEW t \in Task, ResetInterrupted(t) PROVE SyncedIsApplied'
  BY <1>12 DEF ResetInterrupted, Complete, quic_reset, atomics, pyVars, Goto, TypeOK,
     SyncedIsApplied
<1>13. ASSUME NEW t \in Task, ExitStore(t) PROVE SyncedIsApplied'
  BY <1>13 DEF ExitStore, Goto, pyVars, quicVars, TypeOK, SyncedIsApplied
<1>14. ASSUME NEW t \in Task, ExitCancel(t) PROVE SyncedIsApplied'
  BY <1>14 DEF ExitCancel, Goto, pyVars, quicVars, TypeOK, SyncedIsApplied
<1>15. ASSUME NEW t \in Task, ExitLock(t) PROVE SyncedIsApplied'
  BY <1>15 DEF ExitLock, Goto, atomics, pyVars, quicVars, TypeOK, SyncedIsApplied
<1>16. ASSUME NEW t \in Task, ExitRun(t) PROVE SyncedIsApplied'
  BY <1>16 DEF ExitRun, Complete, quic_reset, quic_finish, atomics, pyVars, Goto, TypeOK,
     SyncedIsApplied
<1>17. ASSUME NEW t \in Task, DropTask(t) PROVE SyncedIsApplied'
  BY <1>17 DEF DropTask, Complete, atomics, pyVars, quicVars, Suspended, Goto, TypeOK,
     SyncedIsApplied
<1>18. ASSUME NEW k \in Kinds, Call(k) PROVE SyncedIsApplied'
  BY <1>18 DEF Call, atomics, pyVars, quicVars, TypeOK, SyncedIsApplied
<1>19. ASSUME PyResetStore PROVE SyncedIsApplied'
  BY <1>19 DEF PyResetStore, taskVars, quicVars, TypeOK, SyncedIsApplied
<1>20. ASSUME PyResetCancel PROVE SyncedIsApplied'
  BY <1>20 DEF PyResetCancel, taskVars, quicVars, TypeOK, SyncedIsApplied
<1>21. ASSUME PyResetTry PROVE SyncedIsApplied'
  BY <1>21 DEF PyResetTry, quic_reset, taskVars, atomics, TypeOK, SyncedIsApplied
<1>22. ASSUME PyPriorityTry PROVE SyncedIsApplied'
  BY <1>22 DEF PyPriorityTry, quic_set_priority, taskVars, TypeOK, SyncedIsApplied
<1>23. ASSUME NEW code \in Code, PyReset(code) PROVE SyncedIsApplied'
  BY <1>23 DEF PyReset, taskVars, atomics, quicVars, TypeOK, SyncedIsApplied
<1>24. ASSUME NEW v \in Prio, PySetPriority(v) PROVE SyncedIsApplied'
  BY <1>24 DEF PySetPriority, taskVars, quicVars, TypeOK, SyncedIsApplied
<1>25. ASSUME PeerStop PROVE SyncedIsApplied'
  BY <1>25 DEF PeerStop, taskVars, atomics, pyVars, TypeOK, SyncedIsApplied
<1>26. ASSUME PeerCredit PROVE SyncedIsApplied'
  BY <1>26 DEF PeerCredit, taskVars, atomics, pyVars, TypeOK, SyncedIsApplied
<1>27. ASSUME PeerAck PROVE SyncedIsApplied'
  BY <1>27 DEF PeerAck, taskVars, atomics, pyVars, TypeOK, SyncedIsApplied
<1>28. ASSUME NEW e \in LostCauses, SessionLost(e) PROVE SyncedIsApplied'
  BY <1>28 DEF SessionLost, taskVars, atomics, pyVars, TypeOK, SyncedIsApplied
<1>29. CASE UNCHANGED vars
  BY <1>29 DEF vars, taskVars, atomics, pyVars, quicVars, TypeOK, SyncedIsApplied
<1> QED
  BY <1>1, <1>2, <1>3, <1>4, <1>5, <1>6, <1>7, <1>8, <1>9, <1>10, <1>11, <1>12, <1>13, <1>14,
     <1>15, <1>16, <1>17, <1>18, <1>19, <1>20, <1>21, <1>22, <1>23, <1>24, <1>25, <1>26,
     <1>27, <1>28, <1>29
  DEF Next, TaskStep, PyStep, Python, Peer

\* NoFinMidWrite: FIN is sent by the owner of the mutex, and a write in the middle of
\* its data is the owner.
LEMMA FinStep ==
    ASSUME TypeOK, LockInv, CallInv, NoFinMidWrite, [Next]_vars
    PROVE  NoFinMidWrite'
<1> USE SendConstants
<1>1. ASSUME NEW t \in Task, PollCancelled(t) PROVE NoFinMidWrite'
  BY <1>1 DEF PollCancelled, Goto, atomics, pyVars, quicVars, TypeOK, CallInv, NoFinMidWrite,
     Fresh
<1>2. ASSUME NEW t \in Task, PollStart(t) PROVE NoFinMidWrite'
  BY <1>2 DEF PollStart, Goto, atomics, pyVars, quicVars, TypeOK, CallInv, NoFinMidWrite,
     Fresh
<1>3. ASSUME NEW t \in Task, Lock(t) PROVE NoFinMidWrite'
  BY <1>3 DEF Lock, Goto, atomics, pyVars, quicVars, TypeOK, CallInv, NoFinMidWrite, Fresh
<1>4. ASSUME NEW t \in Task, LockGranted(t) PROVE NoFinMidWrite'
  BY <1>4 DEF LockGranted, Goto, atomics, pyVars, quicVars, TypeOK, CallInv, NoFinMidWrite,
     Fresh
<1>5. ASSUME NEW t \in Task, SyncPriority(t) PROVE NoFinMidWrite'
  BY <1>5 DEF SyncPriority, Goto, quic_set_priority, pyVars, TypeOK, CallInv, NoFinMidWrite,
     Fresh
<1>6. ASSUME NEW t \in Task, RunWrite(t) PROVE NoFinMidWrite'
  BY <1>6, WriteShape DEF NoFinMidWrite, TypeOK
<1>7. ASSUME NEW t \in Task, RunWriteSome(t) PROVE NoFinMidWrite'
  BY <1>7, WriteShape DEF NoFinMidWrite, TypeOK
<1>8. ASSUME NEW t \in Task, RunFinish(t) PROVE NoFinMidWrite'
  <2>1. \A u \in Task : pc[u] \in {"running", "blocked"} => u = t
    BY <1>8, OneHolder DEF RunFinish, LockInv, HoldsLock
  <2> QED BY <1>8, <2>1 DEF RunFinish, Complete, Goto, NoFinMidWrite, TypeOK
<1>9. ASSUME NEW t \in Task, RunWaitClosed(t) PROVE NoFinMidWrite'
  BY <1>9, WaitShape DEF NoFinMidWrite
<1>10. ASSUME NEW t \in Task, Resume(t) PROVE NoFinMidWrite'
  BY <1>10 DEF Resume, Goto, atomics, pyVars, quicVars, Ready, TypeOK, CallInv, NoFinMidWrite,
     Fresh
<1>11. ASSUME NEW t \in Task, Relock(t) PROVE NoFinMidWrite'
  BY <1>11 DEF Relock, Goto, atomics, pyVars, quicVars, TypeOK, CallInv, NoFinMidWrite, Fresh
<1>12. ASSUME NEW t \in Task, ResetInterrupted(t) PROVE NoFinMidWrite'
  BY <1>12 DEF ResetInterrupted, Complete, quic_reset, atomics, pyVars, Goto, TypeOK, CallInv,
     NoFinMidWrite, Fresh
<1>13. ASSUME NEW t \in Task, ExitStore(t) PROVE NoFinMidWrite'
  BY <1>13 DEF ExitStore, Goto, pyVars, quicVars, TypeOK, CallInv, NoFinMidWrite, Fresh
<1>14. ASSUME NEW t \in Task, ExitCancel(t) PROVE NoFinMidWrite'
  BY <1>14 DEF ExitCancel, Goto, pyVars, quicVars, TypeOK, CallInv, NoFinMidWrite, Fresh
<1>15. ASSUME NEW t \in Task, ExitLock(t) PROVE NoFinMidWrite'
  BY <1>15 DEF ExitLock, Goto, atomics, pyVars, quicVars, TypeOK, CallInv, NoFinMidWrite,
     Fresh
<1>16. ASSUME NEW t \in Task, ExitRun(t) PROVE NoFinMidWrite'
  <2>1. \A u \in Task : pc[u] \in {"running", "blocked"} => u = t
    BY <1>16, OneHolder DEF ExitRun, HoldsLock
  <2> QED BY <1>16, <2>1 DEF ExitRun, Complete, Goto, NoFinMidWrite, TypeOK
<1>17. ASSUME NEW t \in Task, DropTask(t) PROVE NoFinMidWrite'
  BY <1>17 DEF DropTask, Complete, atomics, pyVars, quicVars, Suspended, Goto, TypeOK,
     CallInv, NoFinMidWrite, Fresh
<1>18. ASSUME NEW k \in Kinds, Call(k) PROVE NoFinMidWrite'
  BY <1>18 DEF Call, atomics, pyVars, quicVars, TypeOK, CallInv, NoFinMidWrite, Fresh
<1>19. ASSUME PyResetStore PROVE NoFinMidWrite'
  BY <1>19 DEF PyResetStore, taskVars, quicVars, TypeOK, CallInv, NoFinMidWrite, Fresh
<1>20. ASSUME PyResetCancel PROVE NoFinMidWrite'
  BY <1>20 DEF PyResetCancel, taskVars, quicVars, TypeOK, CallInv, NoFinMidWrite, Fresh
<1>21. ASSUME PyResetTry PROVE NoFinMidWrite'
  BY <1>21 DEF PyResetTry, quic_reset, taskVars, atomics, TypeOK, CallInv, NoFinMidWrite,
     Fresh
<1>22. ASSUME PyPriorityTry PROVE NoFinMidWrite'
  BY <1>22 DEF PyPriorityTry, quic_set_priority, taskVars, TypeOK, CallInv, NoFinMidWrite,
     Fresh
<1>23. ASSUME NEW code \in Code, PyReset(code) PROVE NoFinMidWrite'
  BY <1>23 DEF PyReset, taskVars, atomics, quicVars, TypeOK, CallInv, NoFinMidWrite, Fresh
<1>24. ASSUME NEW v \in Prio, PySetPriority(v) PROVE NoFinMidWrite'
  BY <1>24 DEF PySetPriority, taskVars, quicVars, TypeOK, CallInv, NoFinMidWrite, Fresh
<1>25. ASSUME PeerStop PROVE NoFinMidWrite'
  BY <1>25 DEF PeerStop, taskVars, atomics, pyVars, TypeOK, CallInv, NoFinMidWrite, Fresh
<1>26. ASSUME PeerCredit PROVE NoFinMidWrite'
  BY <1>26 DEF PeerCredit, taskVars, atomics, pyVars, TypeOK, CallInv, NoFinMidWrite, Fresh
<1>27. ASSUME PeerAck PROVE NoFinMidWrite'
  BY <1>27 DEF PeerAck, taskVars, atomics, pyVars, TypeOK, CallInv, NoFinMidWrite, Fresh
<1>28. ASSUME NEW e \in LostCauses, SessionLost(e) PROVE NoFinMidWrite'
  BY <1>28 DEF SessionLost, taskVars, atomics, pyVars, TypeOK, CallInv, NoFinMidWrite, Fresh
<1>29. CASE UNCHANGED vars
  BY <1>29 DEF vars, taskVars, atomics, pyVars, quicVars, TypeOK, CallInv, NoFinMidWrite,
     Fresh
<1> QED
  BY <1>1, <1>2, <1>3, <1>4, <1>5, <1>6, <1>7, <1>8, <1>9, <1>10, <1>11, <1>12, <1>13, <1>14,
     <1>15, <1>16, <1>17, <1>18, <1>19, <1>20, <1>21, <1>22, <1>23, <1>24, <1>25, <1>26,
     <1>27, <1>28, <1>29
  DEF Next, TaskStep, PyStep, Python, Peer

\* The units of one write extend the piece that is already at the end of the stream.
LEMMA WriteKeepsWire ==
    ASSUME TypeOK, LockInv, WireInv, NEW t \in Task, RunWrite(t) \/ RunWriteSome(t)
    PROVE  WireInv'
<1> DEFINE n == Accepted(t)
           m == Len(wire)
<1>0. /\ wire \in Seq(Task) /\ m \in Nat /\ DOMAIN wire = 1..m
      /\ pc[t] = "running" /\ pc'[t] \in {"running", "blocked", "done"}
      /\ \A u \in Task \ {t} : pc'[u] = pc[u]
  BY WriteShape DEF TypeOK
<1>1. \A u \in Task : pc[u] \in {"running", "blocked"} => u = t
  BY <1>0, OneHolder DEF LockInv, HoldsLock
<1>2. \A i \in 1..m : wire[i] \in Task
  BY <1>0
<1>3. CASE wire' = wire
  BY <1>0, <1>1, <1>2, <1>3 DEF WireInv, WritesContiguous, Fresh
<1>4. CASE AcceptUnits(t)
  <2>1. n \in Nat
    BY <1>4, AcceptType, SendConstants
  <2> DEFINE added == [i \in 1..n |-> t]
  <2>2. added \in Seq(Task) /\ Len(added) = n
    BY <2>1
  <2>3. /\ wire' \in Seq(Task) /\ Len(wire') = m + n
        /\ \A i \in 1..(m + n) : wire'[i] = IF i <= m THEN wire[i] ELSE added[i - m]
    <3>1. wire' = wire \o added
      BY <1>4 DEF AcceptUnits
    <3> HIDE DEF added
    <3>2. /\ wire \o added \in Seq(Task) /\ Len(wire \o added) = Len(wire) + Len(added)
          /\ \A i \in 1..(Len(wire) + Len(added)) :
                 (wire \o added)[i] = IF i <= Len(wire) THEN wire[i] ELSE added[i - Len(wire)]
      BY <1>0, <2>2, ConcatProperties
    <3> QED BY <2>2, <3>1, <3>2
  <2>4. /\ Len(wire') = m + n /\ DOMAIN wire' = 1..(m + n)
        /\ \A i \in 1..(m + n) : wire'[i] = IF i <= m THEN wire[i] ELSE t
    BY <1>0, <2>1, <2>3
  <2> HIDE DEF n, m, added
  <2>5. \A i \in 1..m : pc[wire[i]] \notin Fresh
    BY <1>0 DEF WireInv, m
  <2>6. \A i \in 1..m : wire[i] = t => wire[m] = t
    BY <1>0 DEF WireInv, m
  <2>7. \A i, j, k \in 1..m : i < j /\ j < k /\ wire[i] = wire[k] => wire[j] = wire[i]
    BY <1>0 DEF WireInv, WritesContiguous, m
  <2>8. ASSUME NEW i \in 1..(m + n) PROVE pc'[wire'[i]] \notin Fresh
    BY <1>0, <1>2, <2>1, <2>4, <2>5 DEF Fresh
  <2>9. ASSUME NEW u \in Task, pc'[u] \in {"running", "blocked"},
               NEW i \in 1..(m + n), wire'[i] = u
        PROVE  wire'[m + n] = u
    <3>1. u = t
      BY <1>0, <1>1, <2>9
    <3>2. CASE n = 0
      BY <1>0, <2>4, <2>6, <2>9, <3>1, <3>2
    <3>3. CASE n > 0
      BY <1>0, <2>1, <2>4, <3>1, <3>3
    <3> QED BY <2>1, <3>2, <3>3
  <2>10. ASSUME NEW i \in 1..(m + n), NEW j \in 1..(m + n), NEW k \in 1..(m + n),
                i < j, j < k, wire'[i] = wire'[k]
         PROVE  wire'[j] = wire'[i]
    <3>1. CASE k <= m
      BY <1>0, <2>1, <2>4, <2>7, <2>10, <3>1
    <3>2. CASE k > m
      <4>1. wire'[i] = t
        BY <1>0, <2>1, <2>4, <2>10, <3>2
      <4>2. CASE j > m
        BY <1>0, <2>1, <2>4, <4>1, <4>2
      <4>3. CASE j <= m
        <5>1. wire[i] = t /\ i \in 1..m /\ j \in 1..m /\ m \in 1..m
          BY <1>0, <2>1, <2>4, <2>10, <4>1, <4>3
        <5>2. wire[m] = t
          BY <5>1, <2>6
        <5>3. wire[j] = t
          BY <1>0, <5>1, <5>2, <2>7, <2>10
        <5> QED BY <1>0, <2>1, <2>4, <4>1, <4>3, <5>3
      <4> QED BY <1>0, <2>1, <4>2, <4>3
    <3> QED BY <1>0, <2>1, <3>1, <3>2
  <2> QED BY <2>4, <2>8, <2>9, <2>10 DEF WireInv, WritesContiguous
<1> QED BY <1>3, <1>4, WriteShape

\* WireInv: nobody but the owner of the mutex extends the stream.
LEMMA WireStep ==
    ASSUME TypeOK, LockInv, CallInv, WireInv, [Next]_vars
    PROVE  WireInv'
<1> USE SendConstants
<1>1. ASSUME NEW t \in Task, PollCancelled(t) PROVE WireInv'
  BY <1>1 DEF PollCancelled, Goto, atomics, pyVars, quicVars, TypeOK, WireInv,
     WritesContiguous, Fresh
<1>2. ASSUME NEW t \in Task, PollStart(t) PROVE WireInv'
  BY <1>2 DEF PollStart, Goto, atomics, pyVars, quicVars, TypeOK, WireInv, WritesContiguous,
     Fresh
<1>3. ASSUME NEW t \in Task, Lock(t) PROVE WireInv'
  BY <1>3 DEF Lock, Goto, atomics, pyVars, quicVars, TypeOK, WireInv, WritesContiguous, Fresh
<1>4. ASSUME NEW t \in Task, LockGranted(t) PROVE WireInv'
  BY <1>4 DEF LockGranted, Goto, atomics, pyVars, quicVars, TypeOK, WireInv, WritesContiguous,
     Fresh
<1>5. ASSUME NEW t \in Task, SyncPriority(t) PROVE WireInv'
  BY <1>5 DEF SyncPriority, Goto, quic_set_priority, pyVars, TypeOK, WireInv,
     WritesContiguous, Fresh
<1>6. ASSUME NEW t \in Task, RunWrite(t) PROVE WireInv'
  BY <1>6, WriteKeepsWire
<1>7. ASSUME NEW t \in Task, RunWriteSome(t) PROVE WireInv'
  BY <1>7, WriteKeepsWire
<1>8. ASSUME NEW t \in Task, RunFinish(t) PROVE WireInv'
  BY <1>8 DEF RunFinish, Complete, quic_finish, atomics, pyVars, finish_fails, Goto, TypeOK,
     WireInv, WritesContiguous, Fresh
<1>9. ASSUME NEW t \in Task, RunWaitClosed(t) PROVE WireInv'
  <2>1. /\ wire' = wire /\ pc[t] = "running"
        /\ pc' = [pc EXCEPT ![t] = "done"] \/ pc' = [pc EXCEPT ![t] = "blocked"]
    BY <1>9 DEF RunWaitClosed, Complete, Block, Goto, quicVars
  <2>2. /\ pc'[t] \in {"done", "blocked"}
        /\ \A u \in Task \ {t} : pc'[u] = pc[u]
    BY <2>1 DEF TypeOK
  <2>3. \A i \in DOMAIN wire : wire[i] \in Task
    BY DEF TypeOK
  <2> QED BY <2>1, <2>2, <2>3 DEF WireInv, WritesContiguous, Fresh
<1>10. ASSUME NEW t \in Task, Resume(t) PROVE WireInv'
  BY <1>10 DEF Resume, Goto, atomics, pyVars, quicVars, Ready, TypeOK, WireInv,
     WritesContiguous, Fresh
<1>11. ASSUME NEW t \in Task, Relock(t) PROVE WireInv'
  BY <1>11 DEF Relock, Goto, atomics, pyVars, quicVars, TypeOK, WireInv, WritesContiguous,
     Fresh
<1>12. ASSUME NEW t \in Task, ResetInterrupted(t) PROVE WireInv'
  BY <1>12 DEF ResetInterrupted, Complete, quic_reset, atomics, pyVars, Goto, TypeOK, WireInv,
     WritesContiguous, Fresh
<1>13. ASSUME NEW t \in Task, ExitStore(t) PROVE WireInv'
  BY <1>13 DEF ExitStore, Goto, pyVars, quicVars, TypeOK, WireInv, WritesContiguous, Fresh
<1>14. ASSUME NEW t \in Task, ExitCancel(t) PROVE WireInv'
  BY <1>14 DEF ExitCancel, Goto, pyVars, quicVars, TypeOK, WireInv, WritesContiguous, Fresh
<1>15. ASSUME NEW t \in Task, ExitLock(t) PROVE WireInv'
  BY <1>15 DEF ExitLock, Goto, atomics, pyVars, quicVars, TypeOK, WireInv, WritesContiguous,
     Fresh
<1>16. ASSUME NEW t \in Task, ExitRun(t) PROVE WireInv'
  BY <1>16 DEF ExitRun, Complete, quic_reset, quic_finish, atomics, pyVars, Goto, TypeOK,
     WireInv, WritesContiguous, Fresh
<1>17. ASSUME NEW t \in Task, DropTask(t) PROVE WireInv'
  BY <1>17 DEF DropTask, Complete, atomics, pyVars, quicVars, Suspended, Goto, TypeOK,
     WireInv, WritesContiguous, Fresh
<1>18. ASSUME NEW k \in Kinds, Call(k) PROVE WireInv'
  <2>1. \A i \in DOMAIN wire : wire[i] \in Task /\ wire[i] # calls + 1
    <3>1. pc[calls + 1] \in Fresh
      BY <1>18, CallShape DEF Fresh
    <3>2. \A i \in DOMAIN wire : wire[i] \in Task
      BY DEF TypeOK
    <3> QED BY <3>1, <3>2 DEF WireInv
  <2> QED BY <1>18, <2>1, CallShape DEF WireInv, WritesContiguous, Fresh, quicVars
<1>19. ASSUME PyResetStore PROVE WireInv'
  BY <1>19 DEF PyResetStore, taskVars, quicVars, TypeOK, WireInv, WritesContiguous, Fresh
<1>20. ASSUME PyResetCancel PROVE WireInv'
  BY <1>20 DEF PyResetCancel, taskVars, quicVars, TypeOK, WireInv, WritesContiguous, Fresh
<1>21. ASSUME PyResetTry PROVE WireInv'
  BY <1>21 DEF PyResetTry, quic_reset, taskVars, atomics, TypeOK, WireInv, WritesContiguous,
     Fresh
<1>22. ASSUME PyPriorityTry PROVE WireInv'
  BY <1>22 DEF PyPriorityTry, quic_set_priority, taskVars, TypeOK, WireInv, WritesContiguous,
     Fresh
<1>23. ASSUME NEW code \in Code, PyReset(code) PROVE WireInv'
  BY <1>23 DEF PyReset, taskVars, atomics, quicVars, TypeOK, WireInv, WritesContiguous, Fresh
<1>24. ASSUME NEW v \in Prio, PySetPriority(v) PROVE WireInv'
  BY <1>24 DEF PySetPriority, taskVars, quicVars, TypeOK, WireInv, WritesContiguous, Fresh
<1>25. ASSUME PeerStop PROVE WireInv'
  BY <1>25 DEF PeerStop, taskVars, atomics, pyVars, TypeOK, WireInv, WritesContiguous, Fresh
<1>26. ASSUME PeerCredit PROVE WireInv'
  BY <1>26 DEF PeerCredit, taskVars, atomics, pyVars, TypeOK, WireInv, WritesContiguous, Fresh
<1>27. ASSUME PeerAck PROVE WireInv'
  BY <1>27 DEF PeerAck, taskVars, atomics, pyVars, TypeOK, WireInv, WritesContiguous, Fresh
<1>28. ASSUME NEW e \in LostCauses, SessionLost(e) PROVE WireInv'
  BY <1>28 DEF SessionLost, taskVars, atomics, pyVars, TypeOK, WireInv, WritesContiguous,
     Fresh
<1>29. CASE UNCHANGED vars
  BY <1>29 DEF vars, taskVars, atomics, pyVars, quicVars, TypeOK, WireInv, WritesContiguous,
     Fresh
<1> QED
  BY <1>1, <1>2, <1>3, <1>4, <1>5, <1>6, <1>7, <1>8, <1>9, <1>10, <1>11, <1>12, <1>13, <1>14,
     <1>15, <1>16, <1>17, <1>18, <1>19, <1>20, <1>21, <1>22, <1>23, <1>24, <1>25, <1>26,
     <1>27, <1>28, <1>29
  DEF Next, TaskStep, PyStep, Python, Peer

-----------------------------------------------------------------------------
(* The theorems. *)

IndInv ==
    /\ TypeOK /\ LockInv /\ CallInv /\ TokenInv /\ WireInv
    /\ ExceptionsAreTrue /\ ExitCloses /\ SyncedIsApplied /\ NoFinMidWrite

\* The invariant holds when a SendStream is created.
LEMMA InitInv == Init => IndInv
<1> SUFFICES ASSUME Init PROVE IndInv
  OBVIOUS
<1> USE SendConstants
<1>1. TypeOK
  <2>1. /\ calls \in 0..MaxCalls /\ lockq \in Seq(Task) /\ wire \in Seq(Task)
        /\ left \in [Task -> 0..Size] /\ credit \in 0..Window
    BY DEF Init
  <2>2. /\ kind \in [Task -> Kinds \cup {"none"}] /\ pc \in [Task -> Labels]
        /\ result \in [Task -> Results]
    BY DEF Init, Labels, Results
  <2> QED BY <2>1, <2>2 DEF Init, TypeOK
<1>2. LockInv
  BY DEF Init, LockInv, Distinct, ToSet, AwaitsLock, HoldsLock, Task
<1>3. CallInv /\ TokenInv /\ WireInv
  BY DEF Init, CallInv, TokenInv, Requested, ResetCodeRequested, WireInv, WritesContiguous,
     Fresh, Task
<1>4. ExceptionsAreTrue /\ ExitCloses /\ SyncedIsApplied /\ NoFinMidWrite
  BY DEF Init, ExceptionsAreTrue, ExitCloses, SyncedIsApplied, NoFinMidWrite,
     SessionExceptions, Task
<1> QED BY <1>1, <1>2, <1>3, <1>4 DEF IndInv

\* Every step of the stream keeps the invariant.
LEMMA StepInv == IndInv /\ [Next]_vars => IndInv'
BY LockedStep, CallStep, TokenStep, WireStep, ExceptionStep, ExitStep, SyncStep, FinStep
   DEF IndInv

\* The invariant holds in every reachable state.
THEOREM Invariance == Spec => []IndInv
BY InitInv, StepInv, PTL DEF Spec

\* Every variable keeps its type, for any number of calls and any constants.
THEOREM TypeCorrect == Spec => []TypeOK
<1>1. IndInv => TypeOK
  BY DEF IndInv
<1> QED BY <1>1, Invariance, PTL

\* The mutex of a SendStream is never leaked nor shared, whatever is interrupted by
\* reset() or __aexit__ or dropped by asyncio.
THEOREM MutexDiscipline == Spec => []LockInv
<1>1. IndInv => LockInv
  BY DEF IndInv
<1> QED BY <1>1, Invariance, PTL

\* Exceptions are truthful: StreamClosedLocally only from a stream that is no longer
\* open, StreamClosedByPeer only after STOP_SENDING, session errors as they were.
THEOREM TruthfulExceptions == Spec => []ExceptionsAreTrue
<1>1. IndInv => ExceptionsAreTrue
  BY DEF IndInv
<1> QED BY <1>1, Invariance, PTL

\* RESET_STREAM carries a code the program asked for, whichever of the racing
\* reset(), __aexit__ and interrupted operations sends it.
THEOREM CodeRequested == Spec => []ResetCodeRequested
<1>1. IndInv => ResetCodeRequested
  BY DEF IndInv, TokenInv
<1> QED BY <1>1, Invariance, PTL

\* Concurrent writes never interleave their data in the stream.
THEOREM Contiguity == Spec => []WritesContiguous
<1>1. IndInv => WritesContiguous
  BY DEF IndInv, WireInv
<1> QED BY <1>1, Invariance, PTL

\* finish() and __aexit__ never send FIN while a write waits for credit or runs with
\* part of its data accepted.
THEOREM FinAfterWrite == Spec => []NoFinMidWrite
<1>1. IndInv => NoFinMidWrite
  BY DEF IndInv
<1> QED BY <1>1, Invariance, PTL

\* __aexit__ returns with the stream closed.
THEOREM ExitLeavesClosed == Spec => []ExitCloses
<1>1. IndInv => ExitCloses
  BY DEF IndInv
<1> QED BY <1>1, Invariance, PTL

\* The cached priority is the priority of the stream.
THEOREM PrioritySynced == Spec => []SyncedIsApplied
<1>1. IndInv => SyncedIsApplied
  BY DEF IndInv
<1> QED BY <1>1, Invariance, PTL
=============================================================================
