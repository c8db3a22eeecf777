------------------------------- MODULE Server -------------------------------
(***************************************************************************)
(* src/server.rs: the Server object, whose accept() and __anext__ share    *)
(* one listener under a tokio mutex, and the SessionRequest objects they   *)
(* return, each of which can be accepted or rejected once.                 *)
(***************************************************************************)
EXTENDS AsyncCalls, Connections, FairLock

VARIABLES
    lockq,   \* Server.inner: the mutex around the listener (see FairLock)
    inner    \* per connection, SessionRequest.inner: "unborn", "Some" or "None"

serverVars == <<lockq, inner>>

ServerInit == lockq = <<>> /\ inner = [c \in Conn |-> "unborn"]

-----------------------------------------------------------------------------
(* Server(...) and the endpoint. *)

\* max_idle_timeout and keep_alive_interval are "none" (Python's None), "finite", or
\* "invalid" (negative, not a number, or too large for the target type).
ValidTransport(args) ==
    /\ args.max_idle_timeout # "invalid"
    /\ args.keep_alive_interval # "invalid"
    /\ args.congestion_control \in {"default", "throughput", "low_latency"}

\* The constructor.  Whatever argument is refused, ValueError is raised and no
\* endpoint is left behind.
ServerNew(t) ==
    LET args == program.server IN
    /\ MayCall(t, "Server", "new")
    /\ \/ /\ args.bind = "free" /\ args.private_key = args.certificate /\ ValidTransport(args)
          /\ ep' = [ep EXCEPT !["server"] = "open"]
          /\ Finish(t, "ok")
       \/ /\ ~(args.bind = "free" /\ args.private_key = args.certificate /\ ValidTransport(args))
          /\ Finish(t, "ValueError")
          /\ UNCHANGED ep
    /\ UNCHANGED <<linkVars, closing, http, inbox, serverVars>>

MayServe(t, op) == MayCall(t, "Server", op) /\ ep["server"] # "absent"

\* close(code, reason), synchronous; t.arg is "big" for a code of 2^62 or more.
ServerClose(t) ==
    /\ MayServe(t, "close")
    /\ \/ t.arg = "big" /\ Finish(t, "ValueError") /\ UNCHANGED netVars
       \/ t.arg # "big" /\ EndpointClose("server") /\ Finish(t, "ok")
    /\ UNCHANGED serverVars

\* Faulty variant of ServerExit: the block is left without closing the endpoint.
ServerExit_OnlyWaits(t) ==
    /\ MayServe(t, "aexit")
    /\ Goto(t, "waiting")
    /\ UNCHANGED <<netVars, serverVars>>

\* __aexit__ closes the endpoint before its future exists.
ServerExit(t) ==
    /\ MayServe(t, "aexit")
    /\ EndpointClose("server")
    /\ Goto(t, "waiting")
    /\ UNCHANGED serverVars

ServerWaitClosed(t) ==
    /\ MayServe(t, "wait_closed")
    /\ Goto(t, "waiting")
    /\ UNCHANGED <<netVars, serverVars>>

\* The futures of __aexit__ and wait_closed: endpoint.wait_idle().await.
ServerWaitIdle(t) ==
    /\ At(t, "Server", t.op, "waiting") /\ t.op \in {"aexit", "wait_closed"}
    /\ Idle("server")
    /\ Finish(t, "ok")
    /\ UNCHANGED <<netVars, serverVars>>

-----------------------------------------------------------------------------
(* accept() and __anext__. *)

AcceptCall(t) ==
    /\ MayServe(t, "accept") \/ MayServe(t, "anext")
    /\ Goto(t, "spawned")
    /\ UNCHANGED <<netVars, serverVars>>

\* First poll of the future: take a place in the queue of the mutex.
AcceptLock(t) ==
    /\ At(t, "Server", t.op, "spawned")
    /\ lockq' = Acquire(lockq, t)
    /\ Goto(t, "accepting")
    /\ UNCHANGED <<netVars, inner>>

\* The owner of the guard: a client's request becomes a SessionRequest object.
AcceptRequest(t, c) ==
    /\ At(t, "Server", t.op, "accepting") /\ Owns(lockq, t)
    /\ http[c] = "requested"
    /\ http' = [http EXCEPT ![c] = "offered"]
    /\ inner' = [inner EXCEPT ![c] = "Some"]
    /\ lockq' = Leave(lockq, t)
    /\ Finish(t, "request")
    /\ UNCHANGED <<ep, linkVars, closing, inbox>>

\* A closed endpoint has no more requests.
AcceptEnd(t) ==
    /\ At(t, "Server", t.op, "accepting") /\ Owns(lockq, t)
    /\ ep["server"] = "closed"
    /\ lockq' = Leave(lockq, t)
    /\ Finish(t, IF t.op = "accept" THEN "None" ELSE "StopAsyncIteration")
    /\ UNCHANGED <<netVars, inner>>

-----------------------------------------------------------------------------
(* SessionRequest. *)

RequestLink(t) == <<t.conn, "server">>

MayAnswer(t, op) == MayCall(t, "SessionRequest", op) /\ inner[t.conn] # "unborn"

\* Faulty variant of take: the request is used and stays in the object.
take_Clones(c) == inner[c] = "Some" /\ UNCHANGED inner

\* Option::take on a request that is still there.
take(c) == inner[c] = "Some" /\ inner' = [inner EXCEPT ![c] = "None"]

\* Both methods on a request that was taken.
AnswerAgain(t) ==
    /\ MayAnswer(t, "accept") \/ MayAnswer(t, "reject")
    /\ inner[t.conn] = "None"
    /\ Finish(t, "SessionError")
    /\ UNCHANGED <<netVars, serverVars>>

\* Faulty variant of AnswerCall: any number is taken for a status code.
AnswerCall_Unchecked(t) ==
    /\ MayAnswer(t, "accept") \/ MayAnswer(t, "reject")
    /\ take(t.conn)
    /\ Goto(t, "responding")
    /\ UNCHANGED <<netVars, lockq>>

\* accept(), and reject(status_code) with a valid code: the request moves into the
\* future.
AnswerCall(t) ==
    /\ MayAnswer(t, "accept") \/ (MayAnswer(t, "reject") /\ t.arg # "invalid")
    /\ take(t.conn)
    /\ Goto(t, "responding")
    /\ UNCHANGED <<netVars, lockq>>

\* reject(status_code) with an invalid code: the request was taken, and is dropped
\* with the connection's last handle.
RejectInvalid(t) ==
    /\ MayAnswer(t, "reject") /\ t.arg = "invalid"
    /\ take(t.conn)
    /\ CloseLinks({RequestLink(t)})
    /\ Finish(t, "ValueError")
    /\ UNCHANGED <<ep, closing, http, inbox, lockq>>

\* accept's future: request.ok() sends status 200.
RespondOk(t) ==
    /\ At(t, "SessionRequest", "accept", "responding")
    /\ link[RequestLink(t)] = "open"
    /\ http' = [http EXCEPT ![t.conn] = "200"]
    /\ Finish(t, "session")
    /\ UNCHANGED <<ep, linkVars, closing, inbox, serverVars>>

\* Faulty variant of RespondStatus: it waits for the client to close the session.
RespondStatus_LeavesOpen(t) ==
    /\ At(t, "SessionRequest", "reject", "responding")
    /\ link[RequestLink(t)] = "open"
    /\ http' = [http EXCEPT ![t.conn] = t.arg]
    /\ Goto(t, "closing")
    /\ UNCHANGED <<ep, linkVars, closing, inbox, serverVars>>

\* reject's future: the status is sent and the session closed, ...
RespondStatus(t) ==
    /\ At(t, "SessionRequest", "reject", "responding")
    /\ link[RequestLink(t)] = "open"
    /\ http' = [http EXCEPT ![t.conn] = t.arg]
    /\ closing' = closing \cup {RequestLink(t)}
    /\ Goto(t, "closing")
    /\ UNCHANGED <<ep, linkVars, inbox, serverVars>>

\* ... and session.closed().await.
RejectWait(t) ==
    /\ At(t, "SessionRequest", "reject", "closing") /\ Ended(RequestLink(t))
    /\ Finish(t, "ok")
    /\ UNCHANGED <<netVars, serverVars>>

\* The response cannot be sent: the error of the connection or of the write.
RespondFails(t) ==
    /\ At(t, "SessionRequest", t.op, "responding") /\ Ended(RequestLink(t))
    /\ \E e \in {reason[RequestLink(t)], "RequestError"} : Finish(t, map_server_error(e))
    /\ UNCHANGED <<netVars, serverVars>>

-----------------------------------------------------------------------------
\* Faulty variant of ServerCancel: the guard outlives the future.
ServerCancel_KeepsGuard(t) ==
    /\ t.obj \in {"Server", "SessionRequest"}
    /\ IF t.obj = "SessionRequest" THEN CloseLinks({RequestLink(t)}) ELSE UNCHANGED linkVars
    /\ Cancel(t)
    /\ UNCHANGED <<ep, closing, http, inbox, inner, lockq>>

\* A dropped accept gives up its guard or its place in the queue, a dropped answer
\* the connection of its request.
ServerCancel(t) ==
    /\ t.obj \in {"Server", "SessionRequest"}
    /\ IF t.obj = "SessionRequest" THEN CloseLinks({RequestLink(t)}) ELSE UNCHANGED linkVars
    /\ lockq' = Leave(lockq, t)
    /\ Cancel(t)
    /\ UNCHANGED <<ep, closing, http, inbox, inner>>

ServerTask(t) ==
    \/ ServerWaitIdle(t) \/ AcceptLock(t) \/ AcceptEnd(t)
    \/ \E c \in Conn : AcceptRequest(t, c)
    \/ RespondOk(t) \/ RespondStatus(t) \/ RejectWait(t) \/ RespondFails(t)

ServerPython(t) ==
    \/ ServerNew(t) \/ ServerClose(t) \/ ServerExit(t) \/ ServerWaitClosed(t)
    \/ AcceptCall(t) \/ AnswerAgain(t) \/ AnswerCall(t) \/ RejectInvalid(t)
    \/ ServerCancel(t)
=============================================================================
