----------------------------- MODULE SendStream -----------------------------
(***************************************************************************)
(* src/send_stream.rs: one SendStream object shared by concurrent asyncio  *)
(* calls.  Every async method spawns a tokio task on a multi-threaded      *)
(* runtime; a task runs in polls, and between two polls it awaits either   *)
(* the mutex around the QUIC stream or the QUIC stream itself.  The        *)
(* synchronous methods (reset, the priority setter) run on the Python      *)
(* thread, one at a time, interleaved with the polls.                      *)
(*                                                                         *)
(* The QUIC stream (quinn, external) is send_state, sent_code, stopped,    *)
(* lost, credit, send_priority and wire.  Data is counted in units; the    *)
(* model remembers which call each accepted unit came from.                *)
(***************************************************************************)
EXTENDS FairLock, Errors, Integers, FiniteSets

CONSTANTS
    MaxCalls,    \* bound: number of async calls made on the stream
    Kinds,       \* the async methods called, a subset of AllKinds
    Code,        \* application error codes given to reset()
    NoCode,      \* no code was given or sent yet
    Prio,        \* priorities given to the setter
    Size,        \* units in the data of one write() or write_some()
    Window,      \* bound: units of flow-control credit
    LostCauses   \* the errors with which the session may end

Task     == 1..MaxCalls
AllKinds == {"write", "write_some", "finish", "wait_closed", "aexit_ok", "aexit_exc"}

ASSUME SendConstants ==
    /\ MaxCalls \in Nat
    /\ Kinds \subseteq AllKinds
    /\ Code \subseteq Nat /\ 0 \in Code /\ NoCode \notin Code
    /\ Prio \subseteq Int /\ 0 \in Prio
    /\ Size \in Nat \ {0} /\ Window \in Nat \ {0}
    /\ LostCauses \subseteq SessionErrors

VARIABLES
    calls,            \* async calls made so far: they are the tasks 1..calls
    kind, pc, result, \* per task: the method, where it is, what it returned or raised
    left,             \* per task: units of its data not yet accepted by QUIC
    lockq,            \* inner: the mutex (see FairLock)
    cancel,           \* the CancellationToken
    reset_code, priority, synced_priority,   \* the atomics
    py_pc,            \* where the synchronous method being executed is
    reset_arg,        \* the error_code of the one reset() that was accepted
    send_state, sent_code, stopped, lost, credit, send_priority, wire

taskVars == <<calls, kind, pc, result, left>>
atomics  == <<cancel, reset_code, priority, synced_priority>>
pyVars   == <<py_pc, reset_arg>>
quicVars == <<send_state, sent_code, stopped, lost, credit, send_priority, wire>>
vars     == <<taskVars, lockq, atomics, pyVars, quicVars>>

Cancellable == {"write", "write_some", "finish", "wait_closed"}

\* pc values of a task that owns the mutex or awaits it ...
AwaitsLock == {"queued", "reset_queued", "exit_queued"}
HoldsLock  == {"locked", "running", "blocked", "resetting", "exiting"}
\* ... and those at which a future is suspended, hence can be dropped.
Suspended  == AwaitsLock \cup {"blocked"}
Labels     == {"uncalled", "spawned", "locking", "interrupted", "exit_cancel", "exit_lock",
               "done"} \cup AwaitsLock \cup HoldsLock
Live(t)    == pc[t] \notin {"uncalled", "done"}

Results == {"none", "ok", "CancelledError", "StreamClosedByPeer",
            "StreamClosedLocally"} \cup SessionExceptions

TypeOK ==
    /\ calls \in 0..MaxCalls
    /\ kind \in [Task -> Kinds \cup {"none"}]
    /\ pc \in [Task -> Labels]
    /\ result \in [Task -> Results]
    /\ left \in [Task -> 0..Size]
    /\ lockq \in Seq(Task)
    /\ cancel \in BOOLEAN
    /\ reset_code \in Code
    /\ priority \in Prio /\ synced_priority \in Prio
    /\ py_pc \in {"idle", "reset_store", "reset_cancel", "reset_try", "prio_try"}
    /\ reset_arg \in Code \cup {NoCode}
    /\ send_state \in {"ready", "finished", "reset", "closed"}
    /\ sent_code \in Code \cup {NoCode}
    /\ stopped \in BOOLEAN
    /\ lost \in LostCauses \cup {"none"}
    /\ credit \in 0..Window
    /\ send_priority \in Prio
    /\ wire \in Seq(Task)

Init ==
    /\ calls = 0
    /\ kind = [t \in Task |-> "none"]
    /\ pc = [t \in Task |-> "uncalled"]
    /\ result = [t \in Task |-> "none"]
    /\ left = [t \in Task |-> Size]
    /\ lockq = <<>>
    /\ cancel = FALSE
    /\ reset_code = 0
    /\ priority = 0 /\ synced_priority = 0 /\ send_priority = 0
    /\ py_pc = "idle" /\ reset_arg = NoCode
    /\ send_state = "ready" /\ sent_code = NoCode
    /\ stopped = FALSE /\ lost = "none"
    /\ credit = Window /\ wire = <<>>

-----------------------------------------------------------------------------
(* The QUIC stream, as send_stream.rs uses it (external). *)

\* The error a write reports before it looks at flow control, or "none".
write_error ==
    CASE lost # "none"          -> lost
      [] lost = "none" /\ send_state # "ready" -> "ClosedStream"
      [] lost = "none" /\ send_state = "ready" /\ stopped -> "Stopped"
      [] OTHER                  -> "none"

\* reset(): a finished stream can still be reset; later the error is ClosedStream,
\* which every caller in send_stream.rs ignores.
quic_reset(code) ==
    IF send_state \in {"ready", "finished"}
    THEN send_state' = "reset" /\ sent_code' = code
    ELSE UNCHANGED <<send_state, sent_code>>

\* finish() answers Ok on a stopped stream, without sending FIN.
quic_finish ==
    send_state' = IF send_state = "ready" /\ ~stopped THEN "finished" ELSE send_state

finish_fails == ~stopped /\ send_state # "ready"

\* set_priority() fails, and is ignored, once the stream is forgotten.
quic_set_priority(v) ==
    send_priority' = IF send_state = "closed" THEN send_priority ELSE v

-----------------------------------------------------------------------------
(* Calls and their ends. *)

\* A Python call of an async method: the task is spawned, not yet polled.
Call(k) ==
    /\ py_pc = "idle" /\ calls < MaxCalls
    /\ calls' = calls + 1
    /\ kind' = [kind EXCEPT ![calls + 1] = k]
    /\ pc' = [pc EXCEPT ![calls + 1] = "spawned"]
    /\ UNCHANGED <<result, left, lockq, atomics, pyVars, quicVars>>

Goto(t, l) == pc' = [pc EXCEPT ![t] = l]

\* Faulty variant of Complete: the guard outlives the future.
Complete_KeepsGuard(t, r) ==
    /\ Goto(t, "done")
    /\ result' = [result EXCEPT ![t] = r]
    /\ UNCHANGED <<calls, kind, lockq>>

\* The future completes: the guard it holds, if any, is dropped with it.
Complete(t, r) ==
    /\ Goto(t, "done")
    /\ result' = [result EXCEPT ![t] = r]
    /\ lockq' = Leave(lockq, t)
    /\ UNCHANGED <<calls, kind>>

\* asyncio cancels the caller: pyo3-async-runtimes drops the suspended future,
\* with its guard or its place in the queue (external).
DropTask(t) ==
    /\ pc[t] \in Suspended
    /\ Complete(t, "CancelledError")
    /\ UNCHANGED <<left, atomics, pyVars, quicVars>>

-----------------------------------------------------------------------------
(* cancellable_write: write, write_some, finish and wait_closed. *)

\* Faulty variant of PollCancelled: the handler runs with the write future alive.
PollCancelled_KeepsGuard(t) ==
    /\ kind[t] \in Cancellable /\ pc[t] \in {"spawned", "queued", "blocked"}
    /\ cancel
    /\ Goto(t, "interrupted")
    /\ UNCHANGED <<calls, kind, result, left, lockq, atomics, pyVars, quicVars>>

\* The select! polls the token first, at every poll.  When it fires, the write
\* future is dropped, with its guard or its place in the queue, before the
\* handler of that branch runs.
PollCancelled(t) ==
    /\ kind[t] \in Cancellable /\ pc[t] \in {"spawned", "queued", "blocked"}
    /\ cancel
    /\ lockq' = Leave(lockq, t)
    /\ Goto(t, "interrupted")
    /\ UNCHANGED <<calls, kind, result, left, atomics, pyVars, quicVars>>

\* First poll: the token is not cancelled, go on to lock_owned().
PollStart(t) ==
    /\ kind[t] \in Cancellable /\ pc[t] = "spawned"
    /\ ~cancel
    /\ Goto(t, "locking")
    /\ UNCHANGED <<calls, kind, result, left, lockq, atomics, pyVars, quicVars>>

\* The rest of that poll: own the mutex at once, or be suspended in its queue.
Lock(t) ==
    /\ pc[t] = "locking"
    /\ lockq' = Acquire(lockq, t)
    /\ Goto(t, IF IsFree(lockq) THEN "locked" ELSE "queued")
    /\ UNCHANGED <<calls, kind, result, left, atomics, pyVars, quicVars>>

\* A later poll, the permit having been handed over.
LockGranted(t) ==
    /\ pc[t] = "queued" /\ Owns(lockq, t)
    /\ ~cancel
    /\ Goto(t, "locked")
    /\ UNCHANGED <<calls, kind, result, left, lockq, atomics, pyVars, quicVars>>

\* Before the operation proper, a priority set while the mutex was taken is applied.
SyncPriority(t) ==
    /\ pc[t] = "locked"
    /\ Goto(t, "running")
    /\ IF priority # synced_priority
       THEN quic_set_priority(priority) /\ synced_priority' = priority
       ELSE UNCHANGED <<send_priority, synced_priority>>
    /\ UNCHANGED <<calls, kind, result, left, lockq, cancel, reset_code, priority, pyVars,
                   send_state, sent_code, stopped, lost, credit, wire>>

\* Faulty variant of Accepted: flow control is ignored.
Accepted_IgnoresCredit(t) == left[t]

\* QUIC accepts as many of t's units as the credit allows.
Accepted(t) == IF left[t] < credit THEN left[t] ELSE credit

AcceptUnits(t) ==
    /\ left' = [left EXCEPT ![t] = @ - Accepted(t)]
    /\ credit' = credit - Accepted(t)
    /\ wire' = wire \o [i \in 1..Accepted(t) |-> t]

\* Faulty variant of Block: the mutex is released while the operation waits.
Block_ReleasesGuard(t) ==
    /\ Goto(t, "blocked")
    /\ lockq' = Leave(lockq, t)
    /\ UNCHANGED <<calls, kind, result, left, quicVars>>

\* The operation finds no credit (or nothing to report): it is suspended with
\* the guard it owns.
Block(t) ==
    /\ Goto(t, "blocked")
    /\ UNCHANGED <<calls, kind, result, left, lockq, quicVars>>

\* Faulty variant of RunWrite: one write, as in write_some().
RunWrite_Short(t) ==
    /\ kind[t] = "write" /\ pc[t] = "running"
    /\ \/ /\ write_error # "none"
          /\ Complete(t, map_write_error(write_error))
          /\ UNCHANGED <<left, quicVars>>
       \/ /\ write_error = "none"
          /\ AcceptUnits(t)
          /\ Complete(t, "ok")
          /\ UNCHANGED <<send_state, sent_code, stopped, lost, send_priority>>
    /\ UNCHANGED <<atomics, pyVars>>

\* write(): write_all loops over the stream's write until every unit is accepted.
RunWrite(t) ==
    /\ kind[t] = "write" /\ pc[t] = "running"
    /\ \/ /\ write_error # "none"
          /\ Complete(t, map_write_error(write_error))
          /\ UNCHANGED <<left, quicVars>>
       \/ /\ write_error = "none" /\ credit = 0
          /\ Block(t)
       \/ /\ write_error = "none" /\ credit > 0
          /\ AcceptUnits(t)
          /\ IF Accepted(t) = left[t]
             THEN Complete(t, "ok")
             ELSE UNCHANGED <<calls, kind, pc, result, lockq>>
          /\ UNCHANGED <<send_state, sent_code, stopped, lost, send_priority>>
    /\ UNCHANGED <<atomics, pyVars>>

\* write_some(): one write, at least one unit.
RunWriteSome(t) ==
    /\ kind[t] = "write_some" /\ pc[t] = "running"
    /\ \/ /\ write_error # "none"
          /\ Complete(t, map_write_error(write_error))
          /\ UNCHANGED <<left, quicVars>>
       \/ /\ write_error = "none" /\ credit = 0
          /\ Block(t)
       \/ /\ write_error = "none" /\ credit > 0
          /\ AcceptUnits(t)
          /\ Complete(t, "ok")
          /\ UNCHANGED <<send_state, sent_code, stopped, lost, send_priority>>
    /\ UNCHANGED <<atomics, pyVars>>

\* finish(): never waits once it owns the guard.
RunFinish(t) ==
    /\ kind[t] = "finish" /\ pc[t] = "running"
    /\ Complete(t, IF finish_fails THEN "StreamClosedLocally" ELSE "ok")
    /\ quic_finish
    /\ UNCHANGED <<left, atomics, pyVars, sent_code, stopped, lost, credit, send_priority, wire>>

\* wait_closed(): stopped() reports STOP_SENDING, then a fully acknowledged
\* stream, then the end of the session; otherwise it waits, guard in hand.
RunWaitClosed(t) ==
    /\ kind[t] = "wait_closed" /\ pc[t] = "running"
    /\ \/ /\ stopped \/ send_state = "closed"
          /\ Complete(t, "ok")
          /\ UNCHANGED <<left, quicVars>>
       \/ /\ ~stopped /\ send_state # "closed" /\ lost # "none"
          /\ Complete(t, map_session_error(lost))
          /\ UNCHANGED <<left, quicVars>>
       \/ /\ ~stopped /\ send_state # "closed" /\ lost = "none"
          /\ Block(t)
    /\ UNCHANGED <<atomics, pyVars>>

\* What a suspended operation waits for.
Ready(t) ==
    IF kind[t] = "wait_closed"
    THEN stopped \/ send_state = "closed" \/ lost # "none"
    ELSE write_error # "none" \/ credit > 0

\* The stream wakes the operation: the token is polled first, again.
Resume(t) ==
    /\ pc[t] = "blocked" /\ Ready(t)
    /\ ~cancel
    /\ Goto(t, "running")
    /\ UNCHANGED <<calls, kind, result, left, lockq, atomics, pyVars, quicVars>>

\* The handler of the cancelled branch takes the mutex ...
Relock(t) ==
    /\ pc[t] = "interrupted"
    /\ lockq' = Acquire(lockq, t)
    /\ Goto(t, IF IsFree(lockq) THEN "resetting" ELSE "reset_queued")
    /\ UNCHANGED <<calls, kind, result, left, atomics, pyVars, quicVars>>

\* Faulty variant of ResetInterrupted: it raises and leaves the stream open.
ResetInterrupted_OnlyRaises(t) ==
    /\ pc[t] \in {"resetting", "reset_queued"} /\ Owns(lockq, t)
    /\ Complete(t, "StreamClosedLocally")
    /\ UNCHANGED <<left, atomics, pyVars, quicVars>>

\* ... loads the code, resets the stream and raises.
ResetInterrupted(t) ==
    /\ pc[t] \in {"resetting", "reset_queued"} /\ Owns(lockq, t)
    /\ quic_reset(reset_code)
    /\ Complete(t, "StreamClosedLocally")
    /\ UNCHANGED <<left, atomics, pyVars, stopped, lost, credit, send_priority, wire>>

-----------------------------------------------------------------------------
(* __aexit__ is not interruptible; its errors are ignored. *)

\* With an exception: store the code, then cancel the pending operations.
ExitStore(t) ==
    /\ kind[t] = "aexit_exc" /\ pc[t] = "spawned"
    /\ reset_code' = 0
    /\ Goto(t, "exit_cancel")
    /\ UNCHANGED <<calls, kind, result, left, lockq, cancel, priority, synced_priority,
                   pyVars, quicVars>>

ExitCancel(t) ==
    /\ pc[t] = "exit_cancel"
    /\ cancel' = TRUE
    /\ Goto(t, "exit_lock")
    /\ UNCHANGED <<calls, kind, result, left, lockq, reset_code, priority, synced_priority,
                   pyVars, quicVars>>

\* Faulty variant of ExitLock: try_lock, as in reset().
ExitLock_Tries(t) ==
    /\ pc[t] = "exit_lock" \/ (kind[t] = "aexit_ok" /\ pc[t] = "spawned")
    /\ \/ /\ IsFree(lockq)
          /\ lockq' = Acquire(lockq, t) /\ Goto(t, "exiting")
          /\ UNCHANGED <<calls, kind, result>>
       \/ ~IsFree(lockq) /\ Complete(t, "ok")
    /\ UNCHANGED <<left, atomics, pyVars, quicVars>>

\* Both exits then take the mutex.
ExitLock(t) ==
    /\ pc[t] = "exit_lock" \/ (kind[t] = "aexit_ok" /\ pc[t] = "spawned")
    /\ lockq' = Acquire(lockq, t)
    /\ Goto(t, IF IsFree(lockq) THEN "exiting" ELSE "exit_queued")
    /\ UNCHANGED <<calls, kind, result, left, atomics, pyVars, quicVars>>

ExitRun(t) ==
    /\ pc[t] \in {"exiting", "exit_queued"} /\ Owns(lockq, t)
    /\ IF kind[t] = "aexit_exc"
       THEN quic_reset(0)
       ELSE quic_finish /\ UNCHANGED sent_code
    /\ Complete(t, "ok")
    /\ UNCHANGED <<left, atomics, pyVars, stopped, lost, credit, send_priority, wire>>

-----------------------------------------------------------------------------
(* The synchronous methods, on the Python thread. *)

\* Faulty variant of PyReset: the token is cancelled before the code is stored.
PyReset_CancelsFirst(code) ==
    /\ py_pc = "idle" /\ ~cancel
    /\ py_pc' = "reset_store" /\ reset_arg' = code /\ cancel' = TRUE
    /\ UNCHANGED <<taskVars, lockq, reset_code, priority, synced_priority, quicVars>>

\* reset(error_code): a cancelled token makes it raise and change nothing.
PyReset(code) ==
    /\ py_pc = "idle" /\ ~cancel
    /\ py_pc' = "reset_store" /\ reset_arg' = code
    /\ UNCHANGED <<taskVars, lockq, atomics, quicVars>>

PyResetStore ==
    /\ py_pc = "reset_store"
    /\ reset_code' = reset_arg
    /\ py_pc' = "reset_cancel"
    /\ UNCHANGED <<taskVars, lockq, cancel, priority, synced_priority, reset_arg, quicVars>>

PyResetCancel ==
    /\ py_pc = "reset_cancel"
    /\ cancel' = TRUE
    /\ py_pc' = "reset_try"
    /\ UNCHANGED <<taskVars, lockq, reset_code, priority, synced_priority, reset_arg, quicVars>>

\* try_lock: if the mutex is taken, the RESET is left to its owner.
PyResetTry ==
    /\ py_pc = "reset_try"
    /\ IF IsFree(lockq) THEN quic_reset(reset_arg) ELSE UNCHANGED <<send_state, sent_code>>
    /\ py_pc' = "idle"
    /\ UNCHANGED <<taskVars, lockq, atomics, reset_arg, stopped, lost, credit, send_priority, wire>>

\* The priority setter: the getter reads the atomic stored here.
PySetPriority(v) ==
    /\ py_pc = "idle"
    /\ priority' = v
    /\ py_pc' = "prio_try"
    /\ UNCHANGED <<taskVars, lockq, cancel, reset_code, synced_priority, reset_arg, quicVars>>

\* Faulty variant of PyPriorityTry: synced_priority is stored without the mutex.
PyPriorityTry_AlwaysSynced ==
    /\ py_pc = "prio_try"
    /\ IF IsFree(lockq) THEN quic_set_priority(priority) ELSE UNCHANGED send_priority
    /\ synced_priority' = priority
    /\ py_pc' = "idle"
    /\ UNCHANGED <<taskVars, lockq, cancel, reset_code, priority, reset_arg,
                   send_state, sent_code, stopped, lost, credit, wire>>

\* If the mutex is taken, the value is left to the next operation (SyncPriority).
PyPriorityTry ==
    /\ py_pc = "prio_try"
    /\ IF IsFree(lockq)
       THEN quic_set_priority(priority) /\ synced_priority' = priority
       ELSE UNCHANGED <<send_priority, synced_priority>>
    /\ py_pc' = "idle"
    /\ UNCHANGED <<taskVars, lockq, cancel, reset_code, priority, reset_arg,
                   send_state, sent_code, stopped, lost, credit, wire>>

-----------------------------------------------------------------------------
(* The peer and the connection (external). *)

\* STOP_SENDING reaches a stream that is not forgotten.
PeerStop ==
    /\ lost = "none" /\ send_state # "closed" /\ ~stopped
    /\ stopped' = TRUE
    /\ UNCHANGED <<taskVars, lockq, atomics, pyVars, send_state, sent_code, lost, credit,
                   send_priority, wire>>

\* MAX_STREAM_DATA.
PeerCredit ==
    /\ lost = "none" /\ credit < Window
    /\ credit' = credit + 1
    /\ UNCHANGED <<taskVars, lockq, atomics, pyVars, send_state, sent_code, stopped, lost,
                   send_priority, wire>>

\* The peer acknowledges the FIN or the RESET_STREAM: quinn forgets the stream.
PeerAck ==
    /\ lost = "none" /\ send_state \in {"finished", "reset"}
    /\ send_state' = "closed"
    /\ UNCHANGED <<taskVars, lockq, atomics, pyVars, sent_code, stopped, lost, credit,
                   send_priority, wire>>

SessionLost(e) ==
    /\ lost = "none"
    /\ lost' = e
    /\ UNCHANGED <<taskVars, lockq, atomics, pyVars, send_state, sent_code, stopped, credit,
                   send_priority, wire>>

-----------------------------------------------------------------------------
TaskStep(t) ==
    \/ PollCancelled(t) \/ PollStart(t) \/ Lock(t) \/ LockGranted(t) \/ SyncPriority(t)
    \/ RunWrite(t) \/ RunWriteSome(t) \/ RunFinish(t) \/ RunWaitClosed(t) \/ Resume(t)
    \/ Relock(t) \/ ResetInterrupted(t)
    \/ ExitStore(t) \/ ExitCancel(t) \/ ExitLock(t) \/ ExitRun(t)

\* The rest of a synchronous method that has begun.
PyStep == PyResetStore \/ PyResetCancel \/ PyResetTry \/ PyPriorityTry

Python ==
    \/ \E k \in Kinds : Call(k)
    \/ \E code \in Code : PyReset(code)
    \/ \E v \in Prio : PySetPriority(v)
    \/ \E t \in Task : DropTask(t)

Peer == PeerStop \/ PeerCredit \/ PeerAck \/ \E e \in LostCauses : SessionLost(e)

Next == (\E t \in Task : TaskStep(t)) \/ PyStep \/ Python \/ Peer

\* The runtime polls every task that was woken, and the Python thread finishes
\* the method it executes.
Fairness == (\A t \in Task : WF_vars(TaskStep(t))) /\ WF_vars(PyStep)

Spec == Init /\ [][Next]_vars /\ Fairness

\* A peer that keeps reading and acknowledging.
FairPeer == WF_vars(PeerCredit) /\ WF_vars(PeerAck)

-----------------------------------------------------------------------------
(* Safety. *)

\* The mutex queue holds exactly the tasks that are at a point of the code where
\* a guard is owned or awaited, each once, and only its head is inside: no guard
\* leaks and no two operations touch the QUIC stream at once, whatever is
\* interrupted, dropped or reset (cancellable_write, __aexit__).
LockInv ==
    /\ Distinct(lockq)
    /\ ToSet(lockq) = {t \in Task : pc[t] \in AwaitsLock \cup HoldsLock}
    /\ \A t \in Task : pc[t] \in HoldsLock => Owns(lockq, t)

\* An exception tells the truth about the stream: an operation raises
\* StreamClosedLocally only when the stream is finished, reset or closed for
\* good (in particular the RESET an interrupted operation owes was sent),
\* StreamClosedByPeer only after STOP_SENDING, and a session exception only for
\* the error with which the session ended (map_write_error, map_session_error).
ExceptionsAreTrue ==
    \A t \in Task :
        /\ result[t] = "StreamClosedLocally" => send_state # "ready"
        /\ result[t] = "StreamClosedByPeer" => stopped
        /\ result[t] \in SessionExceptions =>
               lost # "none" /\ result[t] = map_session_error(lost)

\* The program asked for this code: it is the argument of the accepted reset(), or
\* the 0 of a block left with an exception.
Requested(code) ==
    \/ code = reset_arg
    \/ code = 0 /\ \E t \in Task : kind[t] = "aexit_exc"

\* The code in RESET_STREAM is one the program asked for: the argument of the
\* accepted reset(), or 0 when a block was left with an exception.  It is never
\* the initial value of reset_code or a half-published one.
ResetCodeRequested ==
    sent_code # NoCode => Requested(sent_code)

\* The units of one write reach QUIC in one piece: concurrent calls never
\* interleave their data, even when a write waits for credit.
WritesContiguous ==
    \A i, j, k \in DOMAIN wire : i < j /\ j < k /\ wire[i] = wire[k] => wire[j] = wire[i]

\* FIN never cuts a write in two: no write() runs or waits for credit with a
\* part of its data accepted when the stream is finished.  (A write that reset()
\* has interrupted has given up its guard; FIN may come between that and the
\* RESET the write still owes.)
NoFinMidWrite ==
    send_state = "finished" =>
        \A t \in Task : kind[t] = "write" /\ pc[t] \in {"running", "blocked"} =>
            left[t] = Size

\* write() returns only when QUIC has all its data, write_some() when it has
\* some, and what each call handed over is in the stream exactly once.
WriteAllOrRaise ==
    \A t \in Task :
        /\ Cardinality({i \in DOMAIN wire : wire[i] = t}) = Size - left[t]
        /\ kind[t] = "write" /\ result[t] = "ok" => left[t] = 0
        /\ kind[t] = "write_some" /\ result[t] = "ok" => left[t] < Size

\* Leaving an "async with" block closes the stream: when __aexit__ returns, FIN or
\* RESET was sent (FIN is moot on a stream the peer stopped).
ExitCloses ==
    \A t \in Task :
        /\ kind[t] = "aexit_exc" /\ result[t] = "ok" => send_state \in {"reset", "closed"}
        /\ kind[t] = "aexit_ok" /\ result[t] = "ok" => send_state # "ready" \/ stopped

\* synced_priority is the priority QUIC has, so the comparison in
\* cancellable_write never skips an update that is due.
SyncedIsApplied ==
    send_state # "closed" => synced_priority = send_priority

-----------------------------------------------------------------------------
(* Refinement. *)

Abstract == INSTANCE OneWayStream WITH
    Caller <- Task, Amount <- 1..Size, Outcomes <- Results,
    moved <- wire, ended <- (send_state # "ready"), code <- sent_code, outcome <- result

\* send_stream.rs implements a one-way stream: behind the mutex, the token and the
\* polls, writes take turns, nothing follows FIN or RESET, one code is sent, and every
\* call has one outcome.
ImplementsStream == Abstract!Spec

-----------------------------------------------------------------------------
(* The inductive invariant that SendStreamProofs proves (with TypeOK, LockInv,
   ExceptionsAreTrue, ExitCloses, SyncedIsApplied and NoFinMidWrite). *)

\* No data is accepted before the operation runs.
Fresh == {"uncalled", "spawned", "locking", "queued", "locked"}

CallInv ==
    \A t \in Task :
        /\ t > calls => pc[t] = "uncalled"
        /\ pc[t] = "uncalled" => kind[t] = "none"
        /\ pc[t] # "done" => result[t] = "none"
        /\ pc[t] \in Fresh => left[t] = Size

\* The code is published before the token is cancelled, on both paths; only a
\* cancelled token interrupts an operation; reset() is accepted once.
TokenInv ==
    /\ py_pc \in {"reset_store", "reset_cancel", "reset_try"} => reset_arg # NoCode
    /\ py_pc = "reset_try" => cancel
    /\ reset_arg # NoCode /\ py_pc \in {"idle", "prio_try"} => cancel
    /\ cancel => Requested(reset_code)
    /\ py_pc = "reset_cancel" => Requested(reset_code)
    /\ \A t \in Task :
           /\ pc[t] = "exit_cancel" => Requested(reset_code)
           /\ pc[t] \in {"interrupted", "resetting", "reset_queued"} => cancel
    /\ ResetCodeRequested

\* The operation that is inside and has handed over data was the last to do so.
WireInv ==
    /\ \A i \in DOMAIN wire : pc[wire[i]] \notin Fresh
    /\ \A t \in Task : pc[t] \in {"running", "blocked"} =>
           \A i \in DOMAIN wire : wire[i] = t => wire[Len(wire)] = t
    /\ WritesContiguous

\* What SendStreamRefinement adds: only __aexit__ is at its places, write() returns with
\* its last unit, write_some() has handed over nothing until it returns, and a stream
\* without RESET has sent no code.
Exiting == {"exit_cancel", "exit_lock", "exit_queued", "exiting"}

WrittenInv ==
    /\ \A t \in Task :
           /\ pc[t] \in Exiting => kind[t] \in {"aexit_ok", "aexit_exc"}
           /\ kind[t] = "write" /\ pc[t] # "done" => left[t] > 0
           /\ kind[t] = "write_some" /\ pc[t] # "done" => left[t] = Size
    /\ send_state \in {"ready", "finished"} => sent_code = NoCode
    /\ WriteAllOrRaise

-----------------------------------------------------------------------------
(* Liveness. *)

\* Once the token is cancelled every call returns, whatever the peer does:
\* reset() and __aexit__ with an exception leave nobody waiting.
ResetUnblocks ==
    \A t \in Task : cancel /\ Live(t) ~> ~Live(t)

\* With a peer that keeps granting credit, every call returns as long as nobody
\* calls wait_closed() on the stream.
OpsComplete ==
    FairPeer => \A t \in Task : Live(t) ~> ~Live(t) \/ "wait_closed" \in {kind[u] : u \in Task}

-----------------------------------------------------------------------------
(* What comments and documentation say, and the code does not do. *)

\* "If no write/finish is in progress, send RESET_STREAM immediately. Otherwise
\* the interrupted operation will send it when it wakes."  (reset)
ResetIsSent ==
    reset_arg # NoCode /\ py_pc = "idle" /\ (\A t \in Task : ~Live(t)) =>
        send_state \in {"reset", "closed"}

\* "Waits for any in-progress write to complete before sending FIN."  (finish)
FinishWaitsForWrites ==
    \A t, u \in Task :
        /\ kind[t] = "finish" /\ result[t] = "ok" /\ ~stopped
        /\ kind[u] = "write" /\ u < t
        => ~Live(u)

\* finish() waits for writes, nothing else: with a peer that reads, it returns.
FinishCompletes ==
    FairPeer => \A t \in Task : kind[t] = "finish" /\ Live(t) ~> ~Live(t)

\* "On exception, cancels any in-progress write immediately and calls
\* reset(error_code=0)", and reset() on a stream already reset raises and does
\* nothing: once reset(c) has returned, leaving the block with an exception later
\* does not change the code the peer sees.
ResetCodeKept ==
    [](/\ reset_arg # NoCode /\ py_pc = "idle"
       /\ "aexit_exc" \notin {kind[t] : t \in Task}
       => [](sent_code \in {NoCode, reset_arg}))
=============================================================================
