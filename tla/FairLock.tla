------------------------------ MODULE FairLock ------------------------------
(***************************************************************************)
(* tokio::sync::Mutex as send_stream.rs and recv_stream.rs use it          *)
(* (external).  The mutex hands its permit to waiters in FIFO order and    *)
(* directly: a release makes the first waiter the owner even before that   *)
(* task is polled, and try_lock fails while anybody owns or awaits it.     *)
(* Hence the whole state is one queue: the owner, then the waiters.        *)
(***************************************************************************)
EXTENDS Naturals, Sequences, SequencesExt

\* lock().await, first poll: take a place in the queue.
Acquire(q, t) == Append(q, t)

\* Dropping the guard, or dropping a future that awaits the guard.
Leave(q, t) == RemoveFirst(q, t)

\* The permit is assigned to t.
Owns(q, t) == q # <<>> /\ Head(q) = t

\* try_lock() succeeds.
IsFree(q) == q = <<>>

\* No task is twice in the queue.
Distinct(q) == \A i, j \in DOMAIN q : q[i] = q[j] => i = j
=============================================================================
