----------------------------- MODULE RecvStream -----------------------------
(***************************************************************************)
(* src/recv_stream.rs: one RecvStream object shared by concurrent asyncio  *)
(* calls.  Tasks, polls, the mutex, the token and the Python thread are as *)
(* in SendStream; the operations read instead of write, and an eof flag    *)
(* that __aexit__ loads without the mutex is added.                        *)
(*                                                                         *)
(* The QUIC stream (quinn, external) is arrived, taken, peer, recv_state,  *)
(* unordered, sent_code and lost.  Data is counted in units, and the model *)
(* remembers which call took each unit out of the receive buffer.          *)
(***************************************************************************)
EXTENDS FairLock, Errors, Integers

CONSTANTS
    MaxCalls,    \* bound: number of async calls made on the stream
    Kinds,       \* the async methods called, a subset of AllKinds
    Code,        \* application error codes given to stop()
    NoCode,      \* no code was given or sent yet
    Units,       \* bound: units of data the peer sends
    Want,        \* the n > 0 of read(n) and readexactly(n)
    Limit,       \* the limit of read(-1)
    LostCauses   \* the errors with which the session may end

Task     == 1..MaxCalls
AllKinds == {"anext", "read_n", "read_0", "read_all", "readexactly", "wait_closed",
             "aexit_ok", "aexit_exc"}

ASSUME RecvConstants ==
    /\ MaxCalls \in Nat
    /\ Kinds \subseteq AllKinds
    /\ Code \subseteq Nat /\ 0 \in Code /\ NoCode \notin Code
    /\ Units \in Nat /\ Want \in Nat \ {0} /\ Limit \in Nat
    /\ LostCauses \subseteq SessionErrors

VARIABLES
    calls,            \* async calls made so far: they are the tasks 1..calls
    kind, pc, result, \* per task: the method, where it is, what it returned or raised
    got,              \* per task: units it took out of the receive buffer
    lockq,            \* inner: the mutex (see FairLock)
    cancel, stop_code, eof,
    py_pc,            \* where the stop() being executed is
    stop_arg,         \* the error_code of the one stop() that was accepted
    arrived,          \* units received
    taken,            \* for each unit taken out of the buffer, the task that did
    peer,             \* what the peer did to the stream, as received
    recv_state,       \* "open", "drained" (end of data reported) or "stopped"
    unordered,        \* an unordered read was made
    sent_code, lost

taskVars == <<calls, kind, pc, result>>
dataVars == <<got, taken, eof, unordered>>
token    == <<cancel, stop_code>>
pyVars   == <<py_pc, stop_arg>>
peerVars == <<arrived, peer, lost>>
vars     == <<taskVars, lockq, dataVars, token, pyVars, peerVars, recv_state, sent_code>>

Cancellable == AllKinds \ {"aexit_ok", "aexit_exc"}

\* pc values of a task that owns the mutex or awaits it ...
AwaitsLock == {"queued", "stop_queued", "exit_queued"}
HoldsLock  == {"running", "blocked", "stopping", "exiting"}
\* ... and those at which a future is suspended, hence can be dropped.
Suspended  == AwaitsLock \cup {"blocked"}
Labels     == {"uncalled", "spawned", "locking", "interrupted", "exit_cancel", "exit_lock",
               "done"} \cup AwaitsLock \cup HoldsLock
Live(t)    == pc[t] \notin {"uncalled", "done"}

Results == {"none", "data", "empty", "ok", "CancelledError", "StopAsyncIteration",
            "StreamClosedByPeer", "StreamClosedLocally", "StreamTooLongError",
            "StreamIncompleteReadError"} \cup SessionExceptions

TypeOK ==
    /\ calls \in 0..MaxCalls
    /\ kind \in [Task -> Kinds \cup {"none"}]
    /\ pc \in [Task -> Labels]
    /\ result \in [Task -> Results]
    /\ got \in [Task -> 0..Units]
    /\ lockq \in Seq(Task)
    /\ cancel \in BOOLEAN /\ eof \in BOOLEAN
    /\ stop_code \in Code
    /\ py_pc \in {"idle", "stop_store", "stop_cancel", "stop_try"}
    /\ stop_arg \in Code \cup {NoCode}
    /\ arrived \in 0..Units
    /\ taken \in Seq(Task) /\ Len(taken) <= arrived
    /\ peer \in {"sending", "finished", "reset"}
    /\ recv_state \in {"open", "drained", "stopped"}
    /\ unordered \in BOOLEAN
    /\ sent_code \in Code \cup {NoCode}
    /\ lost \in LostCauses \cup {"none"}

Init ==
    /\ calls = 0
    /\ kind = [t \in Task |-> "none"]
    /\ pc = [t \in Task |-> "uncalled"]
    /\ result = [t \in Task |-> "none"]
    /\ got = [t \in Task |-> 0]
    /\ lockq = <<>>
    /\ cancel = FALSE /\ stop_code = 0 /\ eof = FALSE
    /\ py_pc = "idle" /\ stop_arg = NoCode
    /\ arrived = 0 /\ taken = <<>>
    /\ peer = "sending" /\ recv_state = "open" /\ unordered = FALSE
    /\ sent_code = NoCode /\ lost = "none"

-----------------------------------------------------------------------------
(* The QUIC stream, as recv_stream.rs uses it (external). *)

Buffered == arrived - Len(taken)

\* The error of a read, or "none": a stopped stream and an ordered read after an
\* unordered one are refused; RESET_STREAM discards the buffer; the end of the
\* session shows once the buffer is empty.
read_error(ordered) ==
    LET refused == recv_state = "open" /\ ordered /\ unordered IN
    CASE recv_state = "stopped" -> "ClosedStream"
      [] refused -> "IllegalOrderedRead"
      [] recv_state = "open" /\ ~refused /\ peer = "reset" -> "StreamReset"
      [] recv_state = "open" /\ ~refused /\ peer = "sending" /\ Buffered = 0 -> lost
      [] OTHER -> "none"

AtEnd    == peer = "finished" /\ Buffered = 0
Starving == peer = "sending" /\ Buffered = 0 /\ lost = "none"

\* Faulty variant of Take: the units are read and stay in the buffer.
Take_Peeks(t, n) ==
    /\ got' = [got EXCEPT ![t] = @ + n]
    /\ UNCHANGED taken

\* n units leave the buffer for t.
Take(t, n) ==
    /\ taken' = taken \o [i \in 1..n |-> t]
    /\ got' = [got EXCEPT ![t] = @ + n]

\* stop(): a drained or stopped stream answers ClosedStream, which is ignored.
quic_stop(code) ==
    IF recv_state = "open"
    THEN recv_state' = "stopped" /\ sent_code' = code
    ELSE UNCHANGED <<recv_state, sent_code>>

-----------------------------------------------------------------------------
(* Calls and their ends. *)

\* A Python call of an async method: the task is spawned, not yet polled.
Call(k) ==
    /\ py_pc = "idle" /\ calls < MaxCalls
    /\ calls' = calls + 1
    /\ kind' = [kind EXCEPT ![calls + 1] = k]
    /\ pc' = [pc EXCEPT ![calls + 1] = "spawned"]
    /\ UNCHANGED <<result, lockq, dataVars, token, pyVars, peerVars, recv_state, sent_code>>

Goto(t, l) == pc' = [pc EXCEPT ![t] = l]

\* Faulty variant of Complete: the guard outlives the future.
Complete_KeepsGuard(t, r) ==
    /\ Goto(t, "done")
    /\ result' = [result EXCEPT ![t] = r]
    /\ UNCHANGED <<calls, kind, lockq>>

\* The future completes: the guard it holds, if any, is dropped with it.
Complete(t, r) ==
    /\ Goto(t, "done")
    /\ result' = [result EXCEPT ![t] = r]
    /\ lockq' = Leave(lockq, t)
    /\ UNCHANGED <<calls, kind>>

\* asyncio cancels the caller: pyo3-async-runtimes drops the suspended future,
\* with its guard or its place in the queue and with the units it has taken
\* (external).
DropTask(t) ==
    /\ pc[t] \in Suspended
    /\ Complete(t, "CancelledError")
    /\ UNCHANGED <<dataVars, token, pyVars, peerVars, recv_state, sent_code>>

-----------------------------------------------------------------------------
(* cancellable_read: __anext__, read, readexactly and wait_closed. *)

\* Faulty variant of PollCancelled: the handler runs with the read future alive.
PollCancelled_KeepsGuard(t) ==
    /\ kind[t] \in Cancellable /\ pc[t] \in {"spawned", "queued", "blocked"}
    /\ cancel
    /\ Goto(t, "interrupted")
    /\ UNCHANGED <<calls, kind, result, lockq, dataVars, token, pyVars, peerVars,
                   recv_state, sent_code>>

\* The select! polls the token first, at every poll; the read future is dropped,
\* with its guard or its place in the queue, before the handler runs.
PollCancelled(t) ==
    /\ kind[t] \in Cancellable /\ pc[t] \in {"spawned", "queued", "blocked"}
    /\ cancel
    /\ lockq' = Leave(lockq, t)
    /\ Goto(t, "interrupted")
    /\ UNCHANGED <<calls, kind, result, dataVars, token, pyVars, peerVars, recv_state, sent_code>>

\* First poll: the token is not cancelled, go on to lock_owned().
PollStart(t) ==
    /\ kind[t] \in Cancellable /\ pc[t] = "spawned"
    /\ ~cancel
    /\ Goto(t, "locking")
    /\ UNCHANGED <<calls, kind, result, lockq, dataVars, token, pyVars, peerVars,
                   recv_state, sent_code>>

\* The rest of that poll: own the mutex at once, or be suspended in its queue.
Lock(t) ==
    /\ pc[t] = "locking"
    /\ lockq' = Acquire(lockq, t)
    /\ Goto(t, IF IsFree(lockq) THEN "running" ELSE "queued")
    /\ UNCHANGED <<calls, kind, result, dataVars, token, pyVars, peerVars, recv_state, sent_code>>

\* A later poll, the permit having been handed over.
LockGranted(t) ==
    /\ pc[t] = "queued" /\ Owns(lockq, t)
    /\ ~cancel
    /\ Goto(t, "running")
    /\ UNCHANGED <<calls, kind, result, lockq, dataVars, token, pyVars, peerVars,
                   recv_state, sent_code>>

\* Faulty variant of Return: every early end is taken for the end of the data.
Return_StoresEof(t, r) == Complete(t, r) /\ eof' = TRUE /\ UNCHANGED <<got, taken, recv_state>>

\* The operation ends without taking data.
Return(t, r) == Complete(t, r) /\ UNCHANGED <<got, taken, eof, recv_state>>

\* The operation ends at the end of the data: quinn forgets the stream, eof is stored.
ReturnAtEnd(t, r) ==
    /\ Complete(t, r)
    /\ eof' = TRUE /\ recv_state' = "drained"
    /\ UNCHANGED <<got, taken>>

\* Faulty variant of Block: the mutex is released while the operation waits.
Block_ReleasesGuard(t) ==
    /\ Goto(t, "blocked")
    /\ lockq' = Leave(lockq, t)
    /\ UNCHANGED <<calls, kind, result, got, taken, eof, recv_state>>

\* The operation is suspended with the guard it owns.
Block(t) ==
    /\ Goto(t, "blocked")
    /\ UNCHANGED <<calls, kind, result, lockq, got, taken, eof, recv_state>>

\* __anext__ and read(n), n > 0: one chunk, of whatever length QUIC has at hand.
RunReadChunk(t) ==
    LET at_end == IF kind[t] = "anext" THEN "StopAsyncIteration" ELSE "empty"
        most   == IF kind[t] = "read_n" /\ Want < Buffered THEN Want ELSE Buffered
        error  == read_error(TRUE)
    IN
    /\ kind[t] \in {"anext", "read_n"} /\ pc[t] = "running"
    /\ \/ eof /\ Return(t, at_end)
       \/ ~eof /\ error # "none" /\ Return(t, map_read_error(error))
       \/ ~eof /\ error = "none" /\ AtEnd /\ ReturnAtEnd(t, at_end)
       \/ /\ ~eof /\ error = "none"
          /\ \E n \in 1..most : Take(t, n)
          /\ Complete(t, "data")
          /\ UNCHANGED <<eof, recv_state>>
       \/ ~eof /\ error = "none" /\ Starving /\ Block(t)
    /\ UNCHANGED <<unordered, token, pyVars, peerVars, sent_code>>

\* read(0).
RunReadZero(t) ==
    /\ kind[t] = "read_0" /\ pc[t] = "running"
    /\ Return(t, "empty")
    /\ UNCHANGED <<unordered, token, pyVars, peerVars, sent_code>>

\* What quinn's read_to_end has gathered exceeds the limit.
too_long(t) == got[t] + Buffered > Limit

\* read(-1): read_to_end makes unordered reads until the end or the limit.
RunReadAll(t) ==
    LET error == read_error(FALSE) IN
    /\ kind[t] = "read_all" /\ pc[t] = "running"
    /\ \/ eof /\ Return(t, "empty")
       \/ ~eof /\ error # "none" /\ Return(t, map_read_to_end_error(error))
       \/ ~eof /\ error = "none" /\ AtEnd /\ ReturnAtEnd(t, "data")
       \/ /\ ~eof /\ error = "none" /\ Buffered > 0
          /\ Take(t, Buffered)
          /\ IF too_long(t)
             THEN Complete(t, map_read_to_end_error("TooLong"))
             ELSE UNCHANGED <<taskVars, lockq>>
          /\ UNCHANGED <<eof, recv_state>>
       \/ ~eof /\ error = "none" /\ Starving /\ Block(t)
    /\ unordered' = (unordered \/ ~eof)
    /\ UNCHANGED <<token, pyVars, peerVars, sent_code>>

\* Faulty variant of RunReadExactly: one read into the buffer is taken for all of it.
RunReadExactly_Short(t) ==
    LET error == read_error(TRUE)
        n     == IF Want - got[t] < Buffered THEN Want - got[t] ELSE Buffered
    IN
    /\ kind[t] = "readexactly" /\ pc[t] = "running"
    /\ \/ eof /\ Return(t, "StreamIncompleteReadError")
       \/ ~eof /\ error # "none" /\ Return(t, map_read_exact_error(error))
       \/ /\ ~eof /\ error = "none" /\ AtEnd
          /\ ReturnAtEnd(t, map_read_exact_error("FinishedEarly"))
       \/ /\ ~eof /\ error = "none" /\ Buffered > 0
          /\ Take(t, n) /\ Complete(t, "data") /\ UNCHANGED <<eof, recv_state>>
       \/ ~eof /\ error = "none" /\ Starving /\ Block(t)
    /\ UNCHANGED <<unordered, token, pyVars, peerVars, sent_code>>

\* readexactly(n), n > 0: ordered reads into a buffer of n.
RunReadExactly(t) ==
    LET error == read_error(TRUE)
        n     == IF Want - got[t] < Buffered THEN Want - got[t] ELSE Buffered
    IN
    /\ kind[t] = "readexactly" /\ pc[t] = "running"
    /\ \/ eof /\ Return(t, "StreamIncompleteReadError")
       \/ ~eof /\ error # "none" /\ Return(t, map_read_exact_error(error))
       \/ /\ ~eof /\ error = "none" /\ AtEnd
          /\ ReturnAtEnd(t, map_read_exact_error("FinishedEarly"))
       \/ /\ ~eof /\ error = "none" /\ Buffered > 0
          /\ Take(t, n)
          /\ IF got[t] + n = Want
             THEN Complete(t, "data")
             ELSE UNCHANGED <<taskVars, lockq>>
          /\ UNCHANGED <<eof, recv_state>>
       \/ ~eof /\ error = "none" /\ Starving /\ Block(t)
    /\ UNCHANGED <<unordered, token, pyVars, peerVars, sent_code>>

\* wait_closed(): received_reset() reports a stream that is stopped or drained, then
\* RESET_STREAM, then the end of the session; otherwise it waits, guard in hand.
RunWaitClosed(t) ==
    LET closed == recv_state # "open" \/ peer = "reset" IN
    /\ kind[t] = "wait_closed" /\ pc[t] = "running"
    /\ \/ closed /\ Return(t, "ok")
       \/ ~closed /\ lost # "none" /\ Return(t, map_session_error(lost))
       \/ ~closed /\ lost = "none" /\ Block(t)
    /\ UNCHANGED <<unordered, token, pyVars, peerVars, sent_code>>

\* What a suspended operation waits for.
Ready(t) ==
    IF kind[t] = "wait_closed"
    THEN peer = "reset" \/ lost # "none"
    ELSE ~Starving

\* The stream wakes the operation: the token is polled first, again.
Resume(t) ==
    /\ pc[t] = "blocked" /\ Ready(t)
    /\ ~cancel
    /\ Goto(t, "running")
    /\ UNCHANGED <<calls, kind, result, lockq, dataVars, token, pyVars, peerVars,
                   recv_state, sent_code>>

\* The handler of the cancelled branch takes the mutex ...
Relock(t) ==
    /\ pc[t] = "interrupted"
    /\ lockq' = Acquire(lockq, t)
    /\ Goto(t, IF IsFree(lockq) THEN "stopping" ELSE "stop_queued")
    /\ UNCHANGED <<calls, kind, result, dataVars, token, pyVars, peerVars, recv_state, sent_code>>

\* Faulty variant of StopInterrupted: it raises and lets the peer go on sending.
StopInterrupted_OnlyRaises(t) ==
    /\ pc[t] \in {"stopping", "stop_queued"} /\ Owns(lockq, t)
    /\ Complete(t, "StreamClosedLocally")
    /\ UNCHANGED <<dataVars, token, pyVars, peerVars, recv_state, sent_code>>

\* ... loads the code, stops the stream and raises.
StopInterrupted(t) ==
    /\ pc[t] \in {"stopping", "stop_queued"} /\ Owns(lockq, t)
    /\ quic_stop(stop_code)
    /\ Complete(t, "StreamClosedLocally")
    /\ UNCHANGED <<dataVars, token, pyVars, peerVars>>

-----------------------------------------------------------------------------
(* __aexit__ is not interruptible; its errors are ignored. *)

\* With an exception: store the code, then cancel the pending operations.
ExitStore(t) ==
    /\ kind[t] = "aexit_exc" /\ pc[t] = "spawned"
    /\ stop_code' = 0
    /\ Goto(t, "exit_cancel")
    /\ UNCHANGED <<calls, kind, result, lockq, dataVars, cancel, pyVars, peerVars,
                   recv_state, sent_code>>

ExitCancel(t) ==
    /\ pc[t] = "exit_cancel"
    /\ cancel' = TRUE
    /\ Goto(t, "exit_lock")
    /\ UNCHANGED <<calls, kind, result, lockq, dataVars, stop_code, pyVars, peerVars,
                   recv_state, sent_code>>

\* Faulty variant of ExitCheck: the test of eof is missing its negation.
ExitCheck_Inverted(t) ==
    /\ kind[t] = "aexit_ok" /\ pc[t] = "spawned"
    /\ \/ ~eof /\ Complete(t, "ok")
       \/ eof /\ Goto(t, "exit_lock") /\ UNCHANGED <<calls, kind, result, lockq>>
    /\ UNCHANGED <<dataVars, token, pyVars, peerVars, recv_state, sent_code>>

\* Without one: nothing to do at the end of the data.
ExitCheck(t) ==
    /\ kind[t] = "aexit_ok" /\ pc[t] = "spawned"
    /\ \/ eof /\ Complete(t, "ok")
       \/ ~eof /\ Goto(t, "exit_lock") /\ UNCHANGED <<calls, kind, result, lockq>>
    /\ UNCHANGED <<dataVars, token, pyVars, peerVars, recv_state, sent_code>>

\* Both exits then take the mutex, even if a read owns it, and stop the stream.
ExitLock(t) ==
    /\ pc[t] = "exit_lock"
    /\ lockq' = Acquire(lockq, t)
    /\ Goto(t, IF IsFree(lockq) THEN "exiting" ELSE "exit_queued")
    /\ UNCHANGED <<calls, kind, result, dataVars, token, pyVars, peerVars, recv_state, sent_code>>

ExitRun(t) ==
    /\ pc[t] \in {"exiting", "exit_queued"} /\ Owns(lockq, t)
    /\ quic_stop(0)
    /\ Complete(t, "ok")
    /\ UNCHANGED <<dataVars, token, pyVars, peerVars>>

-----------------------------------------------------------------------------
(* stop(error_code), on the Python thread. *)

\* Faulty variant of PyStop: the token is cancelled before the code is stored.
PyStop_CancelsFirst(code) ==
    /\ py_pc = "idle" /\ ~cancel
    /\ py_pc' = "stop_store" /\ stop_arg' = code /\ cancel' = TRUE
    /\ UNCHANGED <<taskVars, lockq, dataVars, stop_code, peerVars, recv_state, sent_code>>

\* A cancelled token makes it raise and change nothing.
PyStop(code) ==
    /\ py_pc = "idle" /\ ~cancel
    /\ py_pc' = "stop_store" /\ stop_arg' = code
    /\ UNCHANGED <<taskVars, lockq, dataVars, token, peerVars, recv_state, sent_code>>

PyStopStore ==
    /\ py_pc = "stop_store"
    /\ stop_code' = stop_arg
    /\ py_pc' = "stop_cancel"
    /\ UNCHANGED <<taskVars, lockq, dataVars, cancel, stop_arg, peerVars, recv_state, sent_code>>

PyStopCancel ==
    /\ py_pc = "stop_cancel"
    /\ cancel' = TRUE
    /\ py_pc' = "stop_try"
    /\ UNCHANGED <<taskVars, lockq, dataVars, stop_code, stop_arg, peerVars, recv_state, sent_code>>

\* try_lock: if the mutex is taken, STOP_SENDING is left to its owner.
PyStopTry ==
    /\ py_pc = "stop_try"
    /\ IF IsFree(lockq) THEN quic_stop(stop_arg) ELSE UNCHANGED <<recv_state, sent_code>>
    /\ py_pc' = "idle"
    /\ UNCHANGED <<taskVars, lockq, dataVars, token, stop_arg, peerVars>>

-----------------------------------------------------------------------------
(* The peer and the connection (external).  What arrives for a stream that is
   stopped or drained is ignored. *)

PeerData ==
    /\ lost = "none" /\ recv_state = "open" /\ peer = "sending" /\ arrived < Units
    /\ arrived' = arrived + 1
    /\ UNCHANGED <<taskVars, lockq, dataVars, token, pyVars, peer, lost, recv_state, sent_code>>

PeerFinish ==
    /\ lost = "none" /\ recv_state = "open" /\ peer = "sending"
    /\ peer' = "finished"
    /\ UNCHANGED <<taskVars, lockq, dataVars, token, pyVars, arrived, lost, recv_state, sent_code>>

PeerReset ==
    /\ lost = "none" /\ recv_state = "open" /\ peer # "reset"
    /\ peer' = "reset"
    /\ UNCHANGED <<taskVars, lockq, dataVars, token, pyVars, arrived, lost, recv_state, sent_code>>

SessionLost(e) ==
    /\ lost = "none"
    /\ lost' = e
    /\ UNCHANGED <<taskVars, lockq, dataVars, token, pyVars, arrived, peer, recv_state, sent_code>>

-----------------------------------------------------------------------------
TaskStep(t) ==
    \/ PollCancelled(t) \/ PollStart(t) \/ Lock(t) \/ LockGranted(t)
    \/ RunReadChunk(t) \/ RunReadZero(t) \/ RunReadAll(t) \/ RunReadExactly(t)
    \/ RunWaitClosed(t) \/ Resume(t) \/ Relock(t) \/ StopInterrupted(t)
    \/ ExitStore(t) \/ ExitCancel(t) \/ ExitCheck(t) \/ ExitLock(t) \/ ExitRun(t)

\* The rest of a stop() that has begun.
PyStep == PyStopStore \/ PyStopCancel \/ PyStopTry

Python ==
    \/ \E k \in Kinds : Call(k)
    \/ \E code \in Code : PyStop(code)
    \/ \E t \in Task : DropTask(t)

Peer == PeerData \/ PeerFinish \/ PeerReset \/ \E e \in LostCauses : SessionLost(e)

Next == (\E t \in Task : TaskStep(t)) \/ PyStep \/ Python \/ Peer

\* The runtime polls every task that was woken, and the Python thread finishes
\* the method it executes.
Fairness == (\A t \in Task : WF_vars(TaskStep(t))) /\ WF_vars(PyStep)

Spec == Init /\ [][Next]_vars /\ Fairness

\* A peer that finishes the stream in the end.
FairPeer == WF_vars(PeerFinish)

-----------------------------------------------------------------------------
(* Safety. *)

\* The mutex queue holds exactly the tasks that are at a point of the code where
\* a guard is owned or awaited, each once, and only its head is inside: no guard
\* leaks and no two reads run at once, whatever is interrupted, dropped or stopped
\* (cancellable_read, __aexit__).
LockInv ==
    /\ Distinct(lockq)
    /\ ToSet(lockq) = {t \in Task : pc[t] \in AwaitsLock \cup HoldsLock}
    /\ \A t \in Task : pc[t] \in HoldsLock => Owns(lockq, t)

\* An exception tells the truth about the stream: StreamClosedLocally is raised
\* only on a stream that is stopped or at its end (in particular the STOP_SENDING
\* an interrupted read owes was sent), StreamClosedByPeer only after RESET_STREAM,
\* and a session exception other than ProtocolError only for the error with which
\* the session ended (map_read_error and its callers).
ExceptionsAreTrue ==
    \A t \in Task :
        /\ result[t] = "StreamClosedLocally" => recv_state # "open"
        /\ result[t] = "StreamClosedByPeer" => peer = "reset"
        /\ result[t] \in SessionExceptions \ {"ProtocolError"} =>
               lost # "none" /\ result[t] = map_session_error(lost)

\* The end of the data is never reported early: eof is set, and a read answers with
\* nothing, only when the peer's FIN is there and every unit was taken.
EndIsReal ==
    /\ eof => peer = "finished" /\ Len(taken) = arrived
    /\ \A t \in Task :
           \/ result[t] \in {"StopAsyncIteration", "StreamIncompleteReadError"}
           \/ result[t] = "empty" /\ kind[t] # "read_0"
           => eof

\* A read answers with what it promises: readexactly(n) with n units and its error
\* with fewer, read(-1) with everything up to the end and within the limit.
ReadsKeepPromises ==
    \A t \in Task :
        /\ kind[t] = "readexactly" /\ result[t] = "data" => got[t] = Want
        /\ result[t] = "StreamIncompleteReadError" => got[t] < Want
        /\ kind[t] = "read_n" /\ result[t] = "data" => got[t] \in 1..Want
        /\ kind[t] = "read_all" /\ result[t] = "data" => eof /\ got[t] <= Limit
        /\ result[t] = "StreamTooLongError" => got[t] > Limit

\* The units one read takes are consecutive: concurrent reads never share out the
\* stream unit by unit, even when they wait for more.
ReadsContiguous ==
    \A i, j, k \in DOMAIN taken : i < j /\ j < k /\ taken[i] = taken[k] => taken[j] = taken[i]

\* The program asked for this code: it is the argument of the accepted stop(), or the
\* 0 of a block that was left.
Requested(code) ==
    \/ code = stop_arg
    \/ code = 0 /\ \E t \in Task : kind[t] \in {"aexit_ok", "aexit_exc"}

\* The code in STOP_SENDING is one the program asked for: the argument of the
\* accepted stop(), or the 0 of a block that was left.
StopCodeRequested ==
    sent_code # NoCode => Requested(sent_code)

\* Leaving an "async with" block ends the stream: when __aexit__ returns, the stream
\* was stopped or read to its end.
ExitStops ==
    \A t \in Task :
        kind[t] \in {"aexit_ok", "aexit_exc"} /\ result[t] = "ok" => recv_state # "open"

-----------------------------------------------------------------------------
(* Refinement. *)

Abstract == INSTANCE OneWayStream WITH
    Caller <- Task, Amount <- 1..Units, Outcomes <- Results,
    moved <- taken, ended <- (recv_state # "open"), code <- sent_code, outcome <- result

\* recv_stream.rs implements a one-way stream: behind the mutex, the token and the
\* polls, reads take turns, nothing is read after the end or STOP_SENDING, one code is
\* sent, and every call has one outcome.
ImplementsStream == Abstract!Spec

-----------------------------------------------------------------------------
(* The inductive invariant that RecvStreamProofs proves, with TypeOK, LockInv,
   ExceptionsAreTrue and ExitStops. *)

\* No data is taken before the operation runs.
Fresh   == {"uncalled", "spawned", "locking", "queued"}
Exiting == {"exit_cancel", "exit_lock", "exit_queued", "exiting"}

CallInv ==
    \A t \in Task :
        /\ t > calls => pc[t] = "uncalled"
        /\ pc[t] = "uncalled" => kind[t] = "none"
        /\ pc[t] # "done" => result[t] = "none"
        /\ pc[t] \in Fresh => got[t] = 0
        /\ pc[t] \in Exiting => kind[t] \in {"aexit_ok", "aexit_exc"}

\* The code is published before the token is cancelled, on both paths; only a
\* cancelled token interrupts an operation; stop() is accepted once.
TokenInv ==
    /\ py_pc \in {"stop_store", "stop_cancel", "stop_try"} => stop_arg # NoCode
    /\ py_pc = "stop_try" => cancel
    /\ stop_arg # NoCode /\ py_pc = "idle" => cancel
    /\ cancel => Requested(stop_code)
    /\ py_pc = "stop_cancel" => Requested(stop_code)
    /\ \A t \in Task :
           /\ pc[t] = "exit_cancel" => Requested(stop_code)
           /\ pc[t] \in {"interrupted", "stopping", "stop_queued"} => cancel
    /\ StopCodeRequested

\* eof is what the QUIC stream knows, and only stop() sends a code.
EndInv ==
    /\ eof <=> recv_state = "drained"
    /\ recv_state # "stopped" => sent_code = NoCode
    /\ EndIsReal

\* What a read has gathered while it is under way.
GotInv ==
    /\ \A t \in Task :
           /\ got[t] <= Len(taken)
           /\ kind[t] = "readexactly" /\ pc[t] # "done" => got[t] < Want
           /\ kind[t] = "read_all" /\ pc[t] # "done" => got[t] <= Limit
           /\ kind[t] \notin {"readexactly", "read_all"} /\ pc[t] # "done" => got[t] = 0
    /\ ReadsKeepPromises

\* The read that is inside and has taken data was the last to do so.
TakenInv ==
    /\ \A i \in DOMAIN taken : pc[taken[i]] \notin Fresh
    /\ \A t \in Task : pc[t] \in {"running", "blocked"} =>
           \A i \in DOMAIN taken : taken[i] = t => taken[Len(taken)] = t
    /\ ReadsContiguous

IndInv ==
    /\ TypeOK /\ LockInv /\ CallInv /\ TokenInv /\ EndInv /\ GotInv /\ TakenInv
    /\ ExceptionsAreTrue /\ ExitStops

-----------------------------------------------------------------------------
(* Liveness. *)

\* Once the token is cancelled every call returns, whatever the peer does.
StopUnblocks ==
    \A t \in Task : cancel /\ Live(t) ~> ~Live(t)

\* With a peer that finishes the stream, every call returns as long as nobody calls
\* wait_closed() on it.
OpsComplete ==
    FairPeer => \A t \in Task : Live(t) ~> ~Live(t) \/ "wait_closed" \in {kind[u] : u \in Task}

-----------------------------------------------------------------------------
(* What comments, documentation and tests say, and the code does not do. *)

\* "Clean exit but not at EOF - promptly signal the peer."  (__aexit__)
ExitIsPrompt ==
    \A t \in Task : kind[t] = "aexit_ok" /\ Live(t) ~> ~Live(t)

\* "After asyncio cancellation of read(), the stream is still usable.": no call
\* raises ProtocolError unless the session was lost, the peer reset the stream or a
\* read went over its limit, so a cancelled read alone never breaks a later call.
UsableAfterCancel ==
    \A t \in Task : result[t] = "ProtocolError" =>
        \/ lost # "none" \/ peer = "reset"
        \/ \E u \in Task : result[u] = "StreamTooLongError"
=============================================================================
