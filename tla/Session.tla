------------------------------- MODULE Session -------------------------------
(***************************************************************************)
(* src/session.rs: the Session objects, one for each link on which the     *)
(* request was accepted.  All methods work on a clone of the inner session *)
(* and none takes a lock, so concurrent calls meet only in the state of    *)
(* the connection.                                                         *)
(***************************************************************************)
EXTENDS AsyncCalls, Connections

LinkOf(t) == <<t.conn, t.side>>

\* The program holds a Session object for link k.
HasSession(k) ==
    \E t \in program.calls : t.obj # "Session" /\ LinkOf(t) = k /\ result[t] = "session"

MayUse(t, op) == MayCall(t, "Session", op) /\ HasSession(LinkOf(t))

\* The session's error, as an exception.
Raise(t) == Ended(LinkOf(t)) /\ Finish(t, map_session_error(reason[LinkOf(t)]))

Opens(op)    == CASE op = "open_bi" -> {"bi"} [] op = "open_uni" -> {"uni"} [] OTHER -> {}
Receives(op) == CASE op = "accept_bi" -> {"bi"} [] op = "accept_uni" -> {"uni"}
                  [] op = "receive_datagram" -> {"datagram"} [] OTHER -> {}

\* The futures of these methods do nothing at their first poll that a later one
\* would not do, so they are suspended from the start.
SessionCall(t) ==
    /\ \E op \in {"open_bi", "open_uni", "accept_bi", "accept_uni", "receive_datagram",
                  "wait_closed"} : MayUse(t, op)
    /\ Goto(t, "waiting")
    /\ UNCHANGED netVars

\* open_bi, open_uni.  Bound: the peer's stream limit is one stream that it has not
\* accepted, so a second one waits.
OpenStream(t) ==
    LET peer == Peer(LinkOf(t)) IN
    \E x \in Opens(t.op) :
        /\ At(t, "Session", t.op, "waiting")
        /\ \/ Raise(t) /\ UNCHANGED netVars
           \/ /\ ~Ended(LinkOf(t)) /\ x \notin inbox[peer]
              /\ inbox' = [inbox EXCEPT ![peer] = @ \cup {x}]
              /\ Finish(t, "stream")
              /\ UNCHANGED <<ep, linkVars, closing, http>>

\* accept_bi, accept_uni, receive_datagram.  What has arrived may still be handed
\* out when the session has ended.
Receive(t) ==
    \E x \in Receives(t.op) :
        /\ At(t, "Session", t.op, "waiting")
        /\ \/ Raise(t) /\ UNCHANGED netVars
           \/ /\ x \in inbox[LinkOf(t)]
              /\ inbox' = [inbox EXCEPT ![LinkOf(t)] = @ \ {x}]
              /\ Finish(t, IF x = "datagram" THEN "data" ELSE "stream")
              /\ UNCHANGED <<ep, linkVars, closing, http>>

\* The stream accept queue may remember only the waker of the call that polled it last
\* (external): then a concurrent call of the same method is not polled again.
LostWaker(t) ==
    /\ t.op \in {"accept_bi", "accept_uni"} /\ At(t, "Session", t.op, "waiting")
    /\ \E u \in program.calls \ {t} : At(u, "Session", t.op, "waiting") /\ LinkOf(u) = LinkOf(t)
    /\ Goto(t, "asleep")
    /\ UNCHANGED netVars

\* send_datagram(data), synchronous: t.arg is "sent", "lost" on the way, or the
\* error with which the connection refuses it.
SendDatagram(t) ==
    LET peer == Peer(LinkOf(t)) IN
    /\ MayUse(t, "send_datagram")
    /\ \/ Raise(t) /\ UNCHANGED netVars
       \/ /\ ~Ended(LinkOf(t)) /\ t.arg \in DatagramErrors
          /\ Finish(t, map_session_error(t.arg))
          /\ UNCHANGED netVars
       \/ /\ ~Ended(LinkOf(t)) /\ t.arg \in {"sent", "lost"}
          /\ inbox' = [inbox EXCEPT ![peer] = IF t.arg = "sent" THEN @ \cup {"datagram"} ELSE @]
          /\ Finish(t, "ok")
          /\ UNCHANGED <<ep, linkVars, closing, http>>

\* Faulty variant of PySessionClose: outside the runtime nothing is set in motion.
PySessionClose_NoRuntime(t) == MayUse(t, "close") /\ Finish(t, "ok") /\ UNCHANGED netVars

\* close(code, reason), synchronous, inside the runtime that runs the teardown.
PySessionClose(t) ==
    /\ MayUse(t, "close")
    /\ SessionClose(LinkOf(t))
    /\ Finish(t, "ok")

\* The close_reason property.
PyCloseReason(t) ==
    /\ MayUse(t, "close_reason")
    /\ \/ Raise(t)
       \/ ~Ended(LinkOf(t)) /\ Finish(t, "None")
    /\ UNCHANGED netVars

SessionExitCall(t) ==
    /\ MayUse(t, "aexit")
    /\ Goto(t, "spawned")
    /\ UNCHANGED netVars

\* __aexit__, first poll.
SessionExitClose(t) ==
    /\ At(t, "Session", "aexit", "spawned")
    /\ SessionClose(LinkOf(t))
    /\ Goto(t, "waiting")

\* Faulty variant of SessionWait: close() is taken for the end of the session.
SessionWait_Early(t) ==
    /\ At(t, "Session", t.op, "waiting") /\ t.op \in {"wait_closed", "aexit"}
    /\ Ended(LinkOf(t)) \/ LinkOf(t) \in closing
    /\ Finish(t, "ok")
    /\ UNCHANGED netVars

\* wait_closed(), and the rest of __aexit__: session.closed().await.
SessionWait(t) ==
    /\ At(t, "Session", t.op, "waiting") /\ t.op \in {"wait_closed", "aexit"}
    /\ Ended(LinkOf(t))
    /\ Finish(t, "ok")
    /\ UNCHANGED netVars

\* A dropped future of a session holds nothing but a clone of the session.
SessionCancel(t) == t.obj = "Session" /\ Cancel(t) /\ UNCHANGED netVars

SessionTask(t) == OpenStream(t) \/ Receive(t) \/ SessionExitClose(t) \/ SessionWait(t)

SessionPython(t) ==
    \/ SessionCall(t) \/ SendDatagram(t) \/ PySessionClose(t) \/ PyCloseReason(t)
    \/ SessionExitCall(t) \/ SessionCancel(t) \/ LostWaker(t)
=============================================================================
