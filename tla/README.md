# Verification of web-transport-quinn-py

TLA+ models of the Python binding to a QUIC/WebTransport stack (`src/`, Rust with pyo3), the TLC
runs that check them and the TLAPS proofs about them. There are two models: one stream object used by
several calls at once (`SendStream`, `RecvStream`, both shown to implement `OneWayStream`), and a server
and a client with the requests and sessions between them (`WebTransport`).

## 1. The system

The binding exposes five classes to asyncio. Every `async` method clones what it needs and hands a
future to `pyo3_async_runtimes::tokio::future_into_py`, which spawns it on a multi-threaded tokio
runtime and gives Python an awaitable. Synchronous methods run on the thread that holds the GIL.

| Component | State | Operations | How it interacts |
|---|---|---|---|
| `SendStream` (`src/send_stream.rs`) | mutex around the QUIC stream, cancellation token, atomics `reset_code`, `priority`, `synced_priority` | `write`, `write_some`, `finish`, `wait_closed`, `reset`, `priority`, `__aexit__` | all calls of one object share the mutex, token and atomics; each calls quinn |
| `RecvStream` (`src/recv_stream.rs`) | mutex, token, atomics `stop_code`, `eof` | `async for`, `read`, `readexactly`, `wait_closed`, `stop`, `__aexit__` | as above |
| `Session` (`src/session.rs`) | a cloneable handle, no lock | open and accept streams, datagrams, `close`, `wait_closed`, `close_reason` | creates streams; its end fails their operations |
| `Server`, `SessionRequest` (`src/server.rs`) | mutex around the acceptor, endpoint; an `Option` holding the request | `accept`, `async for`, `close`, `wait_closed`, `__aexit__`; `accept`, `reject` | creates sessions; the acceptor's mutex is held while waiting |
| `Client` (`src/client.rs`) | endpoint, client handle | `connect`, `close`, `wait_closed`, `__aexit__` | creates sessions |
| error mapping (`src/errors.rs`) | none | one function per Rust error enum | decides which exception a caller sees |
| verifiers, runtime, module registration, Python helpers | none or a process-wide handle | | set-up code |

What is hard: several calls on one stream run at once on several threads; each can be interrupted by
`reset()`/`stop()`, dropped by asyncio cancellation, or parked in the mutex or in quinn; the
synchronous methods use `try_lock` and leave the rest of their work to whoever holds the mutex; the
peer stops, resets, finishes, withholds credit or disappears at any time. What makes a stream correct:
the mutex is neither leaked nor shared; a call that was interrupted leaves the stream closed and says
so truthfully; data of one call is contiguous; the end of the data is reported only at the end;
leaving the `async with` block closes the stream; nobody waits forever after a local close.

Around the streams, the hard part is that the two sides of a connection end at different times and for
different reasons, while calls are waiting on both: a server's accept calls queue on one mutex that is
held while waiting for a client; `close()` and `__aexit__` of `Server`, `Client` and `Session` race with
calls that are setting something up; a request is answered by whichever call takes it; and the idle
timer may be the only thing that ends a wait. Correct means: one answer per request, which is the one the
client learns; all calls on a session report the same end, and something that either side did or a timer
explains it; leaving a block leaves
nothing behind; no session with a server whose certificate the client was not told to accept; closing
calls return whatever the peer does. The list of
hazards, each with its line and the properties aimed at it, is in `PROJECT.json`.

## 2. Modules

* **`FairLock`**: `tokio::sync::Mutex` (external). Tokio hands the permit to waiters in FIFO order and
  directly, so the mutex is one sequence: the owner, then the waiters. `try_lock` succeeds only on the
  empty sequence.
* **`Errors`**: the mapping functions of `errors.rs`, as functions from error variants to exception
  classes. Wrapped enums are flattened.
* **`OneWayStream`**: what one direction of a stream promises to the calls that share it, without mutex,
  token, atomics, polls or flow control.
* **`SendStream`**, **`RecvStream`**: one stream object each. `MCSendStream` and `MCRecvStream` are the
  modules TLC runs.
* **`AsyncCalls`**: the Python program and the tasks that its calls become.
* **`Connections`**: endpoints, the two sides of each connection, the CONNECT request and what waits to
  be accepted (external).
* **`Session`**, **`Server`** (with `SessionRequest`), **`Client`** (with the verifiers): the actions of
  these classes on top of the two modules above.
* **`WebTransport`**: their composition, the specification, its fairness and its properties;
  `MCWebTransport` gives TLC its programs.
* **`FairLockProofs`**, **`SendStreamProofs`**, **`SendStreamRefinement`**, **`RecvStreamProofs`**,
  **`RecvStreamRefinement`**, **`WebTransportProofs`**: theorems (section 5).

Operators named `X_Something` and commented "Faulty variant of X" are not part of a specification:
each is a plausible mistake in `X`, used to make sure that a property can fail.

### State and steps: streams

A *task* is one call of an async method. `pc[t]` is the await point it is suspended at, or the piece of
code it executes next. A poll is cut into several steps wherever another thread can observe or change
something in between: the check of the token, the acquisition of the mutex, the priority
synchronisation, and each access to the QUIC stream are steps of their own.

    spawned --PollStart--> locking --Lock--> locked (or queued --LockGranted--> locked)
            --SyncPriority--> running --Run...--> done, or blocked --Resume--> running
    spawned, queued, blocked --PollCancelled--> interrupted --Relock--> resetting (or reset_queued)
            --ResetInterrupted--> done
    aexit:  spawned [--ExitStore--> exit_cancel --ExitCancel--> exit_lock] --ExitLock-->
            exiting (or exit_queued) --ExitRun--> done
    any suspended point --DropTask--> done (asyncio cancelled the caller)

(`RecvStream` has no priority, so `Lock` leads to `running`; its handler labels are `stopping` and
`stop_queued`; its clean exit starts with `ExitCheck`, the load of `eof`.) `reset()`, `stop()` and the
priority setter are split into store, cancel and try_lock (`py_pc`): the GIL keeps two of them from
interleaving with each other, but not with the tokio threads. A `reset()` or `stop()` that finds the
token cancelled raises and changes nothing, hence has no step.

Data is counted in units. `wire` (resp. `taken`) records, for every unit QUIC accepted (resp. handed
out), the task it came from (went to), so that ordering and loss can be stated. Byte contents, message
texts and the codes of the peer are left out; application error codes of `reset()`/`stop()` are kept.

### State and steps: endpoints and sessions

A *program* is the set of calls it may make (each at most once, in any order in which the objects exist),
those that asyncio may cancel, and the arguments of the two constructors. A call
`[obj, op, conn, side, arg]` names class, method, connection and side; `pc[call]` is where it is:

    uncalled --> done                                       synchronous methods, refused arguments
    uncalled --> spawned --AcceptLock--> accepting --> done       Server.accept, __anext__
    uncalled --> spawned --ConnectStart--> connecting --> done    Client.connect
    uncalled --> responding [--RespondStatus--> closing] --> done SessionRequest.accept, reject
    uncalled --> [spawned -->] waiting --> done                   wait_closed, __aexit__, session calls
    waiting --LostWaker--> asleep                                 a concurrent accept_bi, accept_uni

`responding` starts when the request has been taken out of the object, which happens in the call and not in
the future. `Server.__aexit__` closes the endpoint in the call, `Client.__aexit__` and
`Session.__aexit__` at the first poll of their future (`ClientExitClose`, `SessionExitClose`): the labels
keep that difference. `lockq` is the mutex around the listener and `inner[c]` the `Option` in the
`SessionRequest` of connection `c`. `link[<<c, side>>]` and `reason[<<c, side>>]` are the state of one side of a
connection and the error it ended with, `closing` the sessions whose `close()` was called and whose
teardown has not happened, `http[c]` how far the CONNECT request is. Constructor arguments are kept as far
as the code tells them apart: a timeout is absent, finite or invalid; a certificate and a key are names;
a digest is an injective tag.

### Assumptions about external code

quinn, web-transport-quinn, tokio and pyo3-async-runtimes are not in the repository; they are modelled
from how `src/` uses them and from what its comments say, and the corresponding definitions are marked
external in `PROJECT.json`:

* `select!` with `biased` polls the token first on every poll and drops the losing future, with its
  guard or its place in the mutex queue, before the handler of the winning branch runs;
* a future is dropped by asyncio cancellation only while suspended; spawned tasks start in any order; in the
  endpoints' model only after its first poll, which pyo3-async-runtimes makes before it looks at the
  cancellation;
* a write on a lost connection reports the loss, else on a finished or reset stream `ClosedStream`, else
  on a stopped one `Stopped` (the comment in `map_write_error`); `finish()` on a stopped stream answers
  Ok, also once quinn has forgotten it (upstream may answer `ClosedStream` there; no property depends on
  which); a finished stream can be reset until it is acknowledged;
* a read on a locally stopped stream reports `ClosedStream` (the comment in `map_read_error`);
  `read_to_end` reads unordered, after which ordered reads are refused; RESET_STREAM discards what is
  buffered and is reported by every later read, also after `wait_closed()` has seen it (the truth of
  `StreamClosedByPeer` and of `eof` rests on this); `read_to_end` compares its limit with everything it
  has gathered; buffered data can be read after the session is lost;
* `received_reset()` and `stopped()` return at once on a stream that quinn has forgotten;
* `session.close()` queues a capsule and tears the connection down in the background; `closed()` returns at
  that teardown and the side that closed has `LocallyClosed` as its reason;
* the peer sees a session's close as `WebTransportClosed` and a closed connection as `ApplicationClosed`.
  Once a session exists, it may instead notice that its CONNECT stream broke off before the connection
  reports why, and close the connection itself: then its reason is `LocallyClosed`
  (`tests/integration/test_server.py:382-391` and `test_client.py:454-463` expect this after the close of the
  peer's endpoint), or another error if the closing capsule was cut short (stub, 625-629). A timeout is
  `TimedOut`, or `LocallyClosed` in the same way, or the peer times out first and its close arrives
  (`test_client.py:205-206`). `PeerCloses` and `TimeOut` allow all of these;
* the queue of incoming streams serves any number of concurrent `accept_bi()` (or `accept_uni()`) calls, or
  remembers the waker of one only and leaves another asleep until it is cancelled (`LostWaker`). The stub
  (541-544, 566) says that all but one hang; `tests/browser_interop/test_concurrent_accept.py:3-5` says that
  they must all complete. The model leaves both open;
* dropping the last handle of a connection closes it (the comment in `SessionRequest.reject`): a refused
  or cancelled answer, a cancelled `connect()`, a response with a status other than 200;
* a closed endpoint hands out no further request, makes no connection and refuses those that arrive;
  `wait_idle()` returns when every connection of the endpoint has drained;
* the handshake and the arrival of the CONNECT request are one step, possible whenever the server's endpoint
  is open: a test says that the server must be accepting (`test_client.py:29`), which the model does not
  require, so it has more behaviours and not fewer. A failed handshake leaves the server nothing;
* whether the client's idle timeout applies to the handshake is left open: a comment says it does not, so
  that `connect()` "may hang" (`test_client.py:62-64`), and the same test accepts only `ConnectError` (65).
  In the model a handshake may time out but need not, and no property says that it ends;
* the smaller idle timeout of the two sides counts and `None` disables a side's; keep-alives
  of either side keep two live sides from idling, but do not help against lost packets;
* streams and datagrams that have arrived may be handed out after the session ended; datagrams may be lost.

Not modelled, in the endpoints: a timeout of zero, two sessions on one connection, a stream limit other
than one unaccepted stream of each kind (the second `open_bi()` waits), what the exceptions carry besides their class. In the streams:
zero-length writes and `readexactly(0)`; the implicit finish when a Python object is
collected; the error variants `InvalidStopped` and `InvalidReset`, which `Errors` maps but no step of
the models produces.

## 3. Runs that pass

Each property has a faulty variant of the code that breaks it (`PROJECT.json`, "mutants").

| Run | Instance | Properties |
|---|---|---|
| `send_safety` | 2 calls of any kind, codes {0,7}, priorities {0,1}, 2 units per write, window 1, session lost by either side | `TypeOK`, `LockInv`, `ExceptionsAreTrue`, `ResetCodeRequested`, `ExitCloses`, `SyncedIsApplied`, `WritesContiguous`, `NoFinMidWrite`, `WriteAllOrRaise`, `ImplementsStream` |
| `send_live` | 2 calls of any kind, 2 units, window 1 | `ResetUnblocks`, `OpsComplete` |
| `recv_safety` | 2 calls of any kind, codes {0,7}, 3 units sent, n = 2, limit 2, session lost by timeout or locally | `TypeOK`, `LockInv`, `ExceptionsAreTrue`, `EndIsReal`, `ReadsKeepPromises`, `ReadsContiguous`, `StopCodeRequested`, `ExitStops`, `ImplementsStream` |
| `recv_live` | 2 calls of any kind, 1 unit sent, n = 2 | `StopUnblocks`, `OpsComplete` |
| `endpoints` | 16 programs, up to 2 connections | `TypeOK`, `OneAnswer`, `ExitIsFinal`, `CausesAreTrue`, `Authenticated`, `NoUseAfterExit`, `AcceptsProgress`, `ClosersReturn`, `CloseEndsSession`, `ConnectReturns` |

*Safety of sending.* `LockInv` says the queue of the mutex is exactly the set of calls that are at a point
where the code owns or awaits the guard, each once, and that only its head is inside. `ExceptionsAreTrue`
says that whoever raises `StreamClosedLocally` has a closed stream (so an interrupted call has really
sent the RESET it owes), and similarly for the peer's and the session's errors. `ResetCodeRequested`
needs the store of the code to precede the cancellation of the token. `WritesContiguous`,
`NoFinMidWrite` and `WriteAllOrRaise` are about writes that wait for credit with half of their data
handed over. `NoFinMidWrite` speaks of writes that still hold their guard: a write that `reset()` has
interrupted has released it, and a clean `__aexit__` or a `finish()` past its own token check can send
FIN before the RESET that the interrupted write still owes. `SyncedIsApplied` relates the cached
priority to the one QUIC has. *Receiving* has the analogous properties, and `EndIsReal` (the `eof` flag,
stored in three places and loaded without the mutex in a fourth) and `ReadsKeepPromises` (counts and
limits over several waits).

*Refinement.* `ImplementsStream` is the specification of `OneWayStream` under the mapping
`wire`/`taken` to `moved`, "`send_state` is not ready"/"`recv_state` is not open" to `ended`, `sent_code` to
`code` and `result` to `outcome`. It says of every step of the detailed models what an invariant cannot:
that the stream never carries data again after it ended, that a code once sent is not replaced, that no
call has two outcomes, and that a call whose turn is over does not move data again.

*Endpoints.* `OneAnswer` compares the answer a server's program gave with the one the client learnt, with
two or three calls racing for the request. `ExitIsFinal` is about connections that a concurrent
`connect()` or `accept()` sets up while the block is left. `CausesAreTrue` says that all calls on a side of a
session report the same exception, however the closes and the timer race, and that what they report has an
author: without an idle timeout, `SessionClosedByPeer` needs a close by the peer's program and
`SessionClosedLocally` one by either program; an error of the handshake is never reported on a session. It
does not say that `SessionClosedLocally` was this side's doing, because that is not so (end of section 4). `Authenticated` follows
the constructor's choice of verifier to the sessions that exist. `NoUseAfterExit` is about the teardown
that `close()` only begins. The four liveness properties say that accept calls are neither starved by a
cancelled holder of the mutex nor left behind by a close; that closing calls return without the peer's
help; that a close ends the waiting calls of both sides, an `open_bi()` at the stream limit among them (but
not an accept call that lost its waker, section 2); and that with an idle timeout and without
keep-alives `connect()` does not wait forever for the answer on an established connection.

**Bounds.** Two calls are enough for one to hold the mutex and one to await it, next to `reset()`, the
setter, cancellation and the peer, which are not calls in this sense and happen in every run. Two units
against a window of one make every full write wait once half-way. Three units against n = 2 and a limit
of 2 give short, exact and excessive reads. The theorems of
section 5 remove these bounds for everything but liveness. The receiving runs say `CHECK_DEADLOCK FALSE` because the
bounded calls and data come to an end, `endpoints` because its programs do. Its programs
(`MCWebTransport`) each hold the calls that interact: the accept loop with two clients, a cancellation and
a close; a request with three answers; both sides closing with calls waiting; streams; two calls of a
kind on each side, so that one `open_bi()` waits at the limit and two `accept_bi()` share the queue; datagrams; both
endpoints being left in every order; and a client alone against absent, silent, untrusted or misconfigured
servers. Within a program every order of the calls, polls and network events is explored; calls of
different programs do not meet in a run (the theorems hold for every program). Two connections and two accepting calls are enough for one call to wait
behind another and for one request to be left over.

**Fairness.** Weak fairness for the steps of each task (tokio polls a woken task) and for the synchronous
method in progress (the Python thread finishes what it executes). None for calls, cancellation or the
loss of the session. Nothing is assumed of the peer in the specification: `OpsComplete` and
`FinishCompletes` have a peer that grants credit and acknowledges (or finishes the stream) as their
hypothesis, `ResetUnblocks` and `StopUnblocks` do without. In `WebTransport`, weak fairness of the tasks
together, and of the QUIC stacks' own work (teardown, draining); as a program makes finitely many calls
of finitely many steps, fairness of all of them together is fairness of each. Delivery to the peer
(`FairNetwork`) and the idle timer (`FairTimer`, only of established
connections, and where no keep-alives prevent it) are not part of
the specification: they are hypotheses of `CloseEndsSession` and `ConnectReturns`.
`AcceptsProgress` and `ClosersReturn` need neither.

## 4. Runs that show a disagreement

Each checks one statement of a comment, the stub or a test; TLC finds the behaviour that contradicts it.

| Run | Statement | What happens |
|---|---|---|
| `send_reset_lost` | the interrupted operation sends the RESET that `reset()` could not (`send_stream.rs:156`) | the mutex is held by a call that completes without polling the token again; nobody sends it |
| `send_finish_overtakes` | `finish()` waits for a write in progress (`send_stream.rs:133`) | the task of `finish()` locks first; FIN precedes the data, the write raises |
| `send_finish_hangs` | the same | `wait_closed()` owns the mutex and waits for a peer that waits for FIN |
| `send_reset_code` | leaving the block with an exception calls `reset(0)`, which on a stream already reset changes nothing (stub, 682 and 802) | code 0 replaces the code of a `reset(7)` that returned before the block was left |
| `recv_exit_hangs` | a clean exit promptly signals the peer (`recv_stream.rs:98`) | `__aexit__` waits behind a read of a silent peer |
| `recv_read_after_cancel` | a stream is usable after a cancelled `read()` (`test_stream_reset.py:917`) | an ordered read after a cancelled `read(-1)` raises `ProtocolError` |
| `request_lost` | an answer raises `SessionError` if the request was already answered or the connection was lost (stub, 359) | `reject()` takes the request before it validates the status code (`server.rs:235`): after its `ValueError`, `accept()` raises `SessionError` and the connection is gone |

More disagreements that the models show and that have no run of their own:

* `stop()` can lose its STOP_SENDING as `reset()` loses its RESET_STREAM: the read that holds the mutex when
  `try_lock` fails (`recv_stream.rs:201`) ends with data, or by asyncio cancellation, without polling the token
  again, and nobody sends what the comment (199-200) leaves to "the interrupted read".
* `SessionClosedLocally` does not mean what the stub says ("The local application already closed this
  session.", 134): `map_connection_error` (`errors.rs:115`) reports every `LocallyClosed` so, also that of a
  session which closed its own connection because the peer broke off or a timeout passed. The tests named in
  section 2 expect it.
* The stub and a test contradict each other on concurrent accept calls of one session (section 2).
  `accept_bi()` forwards every call to the upstream queue (`session.rs:67`), where `Server.accept()` would lock.
* A test's comment and its assertion differ on whether `max_idle_timeout` ends a handshake (section 2).
* `reject(200)` is allowed and gives the client a session (which the server then closes).
* `Client.connect()` raises only `ConnectError` or `SessionRejected` (the comment of `map_client_error` says
  why), where the stub (464-470) also lists `SessionTimeout` and `ProtocolError`.

## 5. Proofs

Every safety invariant, the action property and both refinements that the passing runs check on small
instances are theorems for every value of the constants. What is assumed of the constants:
`SendConstants` and `RecvConstants` (a positive data size or count, sets of codes, natural numbers where the
code has unsigned ones) and `ProgramsAssumption` (`WebTransport`: a program has at most one `Server` and one
`Client`, each `connect()` has a connection of its own, and a call belongs to an object and a side that
exist). TLC evaluates all three on the runs. Each theorem rests on an inductive invariant `IndInv`, defined
beside the properties; TLC checked each on the instance of the safety run before it was proved.

**`FairLockProofs`**: what appending to and removing from the mutex queue do to its range, its head and its
distinctness (`AcquireLemma`, `LeaveLemma`), and, on top of that, that a task that stays, joins or drops
out keeps the queue equal to the set of tasks that own or await the guard (`Disciplined`, `StayLemma`,
`JoinLemma`, `DropLemma`). All three models use these.

**`SendStreamProofs`**: `TypeOK`, `LockInv`, `ExceptionsAreTrue`, `ResetCodeRequested`,
`WritesContiguous`, `NoFinMidWrite`, `ExitCloses` and `SyncedIsApplied`. `IndInv` adds to them:

* `CallInv`: results appear only with `done`, and a call hands over no data before it is inside; without
  it, a step that leaves a call unfinished could disturb the properties about results.
* `TokenInv`: on both closing paths the code is published before the token is cancelled, only a
  cancelled token leads to `interrupted`, and `reset()` is accepted once. This is what makes the code
  loaded by `ResetInterrupted` a requested one.
* `WireInv`: a call that is inside and has handed over data was the last one to extend `wire`. Together
  with `LockInv` (nobody else is inside) it gives `WritesContiguous` when that call appends more.

**`SendStreamRefinement`**: `WriteAllOrRaise` and `ImplementsStream`. `WrittenInv`, inductive together
with `IndInv`, says that an unfinished write has something left, that only `__aexit__` is at its labels, and that
a stream which is ready or finished has sent no code; that each unit is on the wire once follows from how one step changes the set of a call's positions, so it needs no
induction over the sequence. The refinement has one step per kind of action: moving data, ending the
stream, completing a call; every other action is a stutter.

**`RecvStreamProofs`** and **`RecvStreamRefinement`**: `TypeOK`, `LockInv`, `ExceptionsAreTrue`, `EndIsReal`,
`ReadsKeepPromises`, `ReadsContiguous`, `StopCodeRequested`, `ExitStops`, `ImplementsStream`. The actions
are first sorted into a few kinds (a task moves, returns, ends the data, takes units, stops the stream).
`CallInv` and `TokenInv` are as for sending; `EndInv` says that `eof` is set exactly when the
QUIC stream is drained, and that only a stopped stream has sent a code; `GotInv` bounds what an
unfinished call can have gathered, which is what the promises of its result follow from; `TakenInv` is
the counterpart of `WireInv`.

**`WebTransportProofs`**: `TypeOK`, `OneAnswer`, `ExitIsFinal`, `CausesAreTrue`, `Authenticated`, and
`NoUseAfterExit`, which is about steps. Each action is reduced once to what it does to a call (`Places`,
`Outcome`), a link (`LinkMove`), an endpoint (`EpMove`), a request (`RequestMove`) and the mutex (`Queue`);
the parts of the invariant follow from these shapes:

* `CallInv`: where a call is tells what it may rely on: a `connect()` that has not been polled has no
  connection, a `Server` or `Client` being left has a closed endpoint, an endpoint exists once its
  constructor has run and is not made twice. `ExitIsFinal` needs it: a closed endpoint opens no link.
* `LinkInv`: a link has an error exactly when it has ended, and keeps it; the errors of a failed handshake
  occur only where the server has no link, so no `Session` can ever report them (as
  `ProtocolError` or a false `SessionClosedByPeer`); a link of the server implies the verifier's consent.
* `RequestInv`: who has taken the request is alone with it, so the status that the client reads has one
  author.
* `CauseInv`: a `close()` in progress has an author on that side; a peer's end has one on the other side, or a
  timeout was set. A local end has an author on this side, or a timeout was set, or the peer's side ended
  first and has an author there. The order matters: a side that is still open and learns of the peer's
  local end knows that the peer's program, or a timeout, is behind it, and not its own. The author is stated by `ClosedForGood`, which unlike `Closed` in the property can never
  become false: a `reject()` counts only once it has sent its status or dropped the connection, as it may
  still fail before.
* `ResultInv`: what a call reported is still so, which turns results of calls at different times into
  statements about one state.

**Only model-checked**: the liveness properties `ResetUnblocks`, `StopUnblocks`, `OpsComplete`,
`AcceptsProgress`, `ClosersReturn`, `CloseEndsSession` and `ConnectReturns`, as liveness under fairness is
out of the prover's reach. The runs of section 4 exhibit single behaviours, for which TLC is the right tool.

## 6. Not modelled, and the plan

1. The safety half of the liveness properties as theorems: what a waiting call waits for exists (the owner
   of a mutex is a call that can go on, a link that a closing call waits for is on its way to its end).
2. The conditions under which the disagreements of section 4 do not occur, as theorems: for which calls a
   `reset()` that returned is always followed by RESET, and when a request is still there.
3. Streams inside sessions: today `SessionLost` is a step of the stream models and the streams a session
   opens are only counted. The two models share nothing else (a stream keeps no reference to its
   `Session` object), so composing them multiplies states without adding an interaction.

Left out for good: the runtime handle and the module registration (declarative), the signature checks of
the verifiers and the generation of certificates (cryptography, handed to libraries), the getters that
only format a value (`local_addr`, `url`, `rtt`, `remote_address`, `max_datagram_size`), type stubs.
