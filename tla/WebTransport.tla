---------------------------- MODULE WebTransport ----------------------------
(***************************************************************************)
(* The library as a whole: a program that uses a Server and a Client, the  *)
(* requests and sessions between them, and the connections underneath.     *)
(***************************************************************************)
EXTENDS Session, Server, Client, FiniteSets

\* A program has one Server and one Client at most, and its calls belong to objects of
\* this library: a connection of its own for each connect(), a side, a method, and for
\* reject() one of the status codes considered.
ASSUME ProgramsAssumption ==
    \A p \in Programs :
        /\ p.client.no_cert_verification \in BOOLEAN
        /\ \A t \in p.calls :
               /\ t.obj \in {"Server", "Client", "SessionRequest", "Session"} /\ t.side \in Side
               /\ t.obj \in {"Server", "SessionRequest"} => t.side = "server"
               /\ t.obj = "Client" => t.side = "client"
               /\ t.obj \in {"SessionRequest", "Session"} \/ t.op = "connect" => t.conn \in Conn
               /\ t.obj = "SessionRequest" => t.op \in {"accept", "reject"}
               /\ t.op = "connect" => t.obj = "Client"
               /\ t.op = "reject" => t.arg \in {"200", "404", "invalid"}
        /\ \A t, u \in p.calls :
               \/ t.op = "new" /\ u.op = "new" /\ t.obj = u.obj
               \/ t.op = "connect" /\ u.op = "connect" /\ t.conn = u.conn
               => t = u

vars == <<callVars, netVars, serverVars>>

Init == CallsInit /\ ConnectionsInit /\ ServerInit

\* Faulty variant of HasIdleTimeout: the client's setting does not reach its endpoint.
HasIdleTimeout_ServerOnly(c) ==
    link[<<c, "server">>] # "none" /\ program.server.max_idle_timeout = "finite"

\* The transport configurations: the smaller timeout of the two sides counts, and
\* the server's is known once the connection is established.  Whether the client's
\* already counts in the handshake is left open: it may (Timer), it need not (FairTimer).
HasIdleTimeout(c) ==
    \/ program.client.max_idle_timeout = "finite"
    \/ link[<<c, "server">>] # "none" /\ program.server.max_idle_timeout = "finite"

\* Either side's keep-alives keep a connection with two live sides from being idle.
KeptAlive(c) ==
    /\ link[<<c, "client">>] = "open" /\ link[<<c, "server">>] = "open"
    /\ "finite" \in {program.client.keep_alive_interval, program.server.keep_alive_interval}

Handshake(c) ==
    IF verify_server_cert(program.client, program.server.certificate)
    THEN Establish(c)
    ELSE HandshakeFails(c)

-----------------------------------------------------------------------------
\* A poll of the future of call t.
Task(t) ==
    /\ Pending(t)
    /\ \/ ServerTask(t)
       \/ (SessionTask(t) \/ ClientTask(t)) /\ UNCHANGED serverVars

\* The program makes call t, cancels it, or displaces it by another one.
Python(t) ==
    \/ ServerPython(t)
    \/ (SessionPython(t) \/ ClientPython(t)) /\ UNCHANGED serverVars

\* What a side's own QUIC stack does.
Stack(k) == (Teardown(k) \/ Drain(k)) /\ UNCHANGED <<callVars, serverVars>>

\* What needs the peer and the network ...
Deliver(k) == PeerCloses(k) /\ UNCHANGED <<callVars, serverVars>>
Reach(c)   == (Handshake(c) \/ Refuse(c)) /\ UNCHANGED <<callVars, serverVars>>

\* ... and the timer, which also fires when packets are lost for long enough.
Timer(k) == HasIdleTimeout(k[1]) /\ TimeOut(k) /\ UNCHANGED <<callVars, serverVars>>

Next ==
    \/ \E t \in program.calls : Task(t) \/ Python(t)
    \/ \E k \in Links : Stack(k) \/ Deliver(k) \/ Timer(k)
    \/ \E c \in Conn : Reach(c)

\* The runtime polls the futures that can go on, and the QUIC stacks tear down and
\* drain the connections they close.  A program makes finitely many calls, each of
\* finitely many steps, so fairness of all of them together is fairness of each.
Fairness ==
    /\ WF_vars(\E t \in program.calls : Task(t))
    /\ WF_vars(\E k \in Links : Stack(k))

Spec == Init /\ [][Next]_vars /\ Fairness

\* Hypotheses of some liveness properties: a close reaches the peer; an established
\* connection that nothing keeps alive times out.
FairNetwork == WF_vars(\E k \in Links : Deliver(k))
FairTimer   == WF_vars(\E k \in Links :
                          Timer(k) /\ link[<<k[1], "server">>] # "none" /\ ~KeptAlive(k[1]))

-----------------------------------------------------------------------------
Results == {"none", "ok", "None", "request", "session", "stream", "data", "CancelledError",
            "StopAsyncIteration", "ValueError", "SessionError", "ConnectError",
            "SessionRejected", "DatagramTooLargeError", "DatagramNotSupportedError"}
           \cup SessionExceptions

TypeOK ==
    /\ program \in Programs
    /\ pc \in [program.calls -> {"uncalled", "spawned", "accepting", "connecting", "responding",
                         "closing", "waiting", "asleep", "done"}]
    /\ result \in [program.calls -> Results]
    /\ ep \in [Side -> {"absent", "open", "closed"}]
    /\ link \in [Links -> {"none", "open", "closed", "drained"}]
    /\ reason \in [Links -> SessionErrors \cup {"none"}]
    /\ closing \subseteq Links
    /\ http \in [Conn -> {"none", "requested", "offered", "200", "404"}]
    /\ inbox \in [Links -> SUBSET Kind]
    /\ lockq \in Seq(program.calls) /\ Distinct(lockq)
    /\ inner \in [Conn -> {"unborn", "Some", "None"}]

-----------------------------------------------------------------------------
(* Safety. *)

Called(t) == pc[t] # "uncalled"

\* The program on side k[2] did something that ends link k.
Closed(k) ==
    \E t \in program.calls : Called(t) /\
        \/ t.obj = "Session" /\ LinkOf(t) = k /\ t.op \in {"close", "aexit"}
        \/ t.obj \in {"Server", "Client"} /\ t.side = k[2]
           /\ (t.op = "aexit" \/ (t.op = "close" /\ t.arg # "big"))
        \/ t.obj = "SessionRequest" /\ LinkOf(t) = k
           /\ \/ t.op = "reject" /\ result[t] # "SessionError"
              \/ result[t] = "CancelledError"
        \/ t.op = "connect" /\ LinkOf(t) = k /\ result[t] \in {"CancelledError", "SessionRejected"}

\* A request gets one answer, and the client learns that one: at most one call of
\* SessionRequest.accept() or reject() goes through, a connect() that returned a
\* session was answered by accept() (or by reject(200), which the code allows), and
\* one that raised SessionRejected by reject() (SessionRequest.inner is taken once).
OneAnswer ==
    \A c \in Conn :
        LET answers  == {t \in program.calls : t.obj = "SessionRequest" /\ t.conn = c}
            through  == {t \in answers : result[t] \in {"session", "ok"} \/ pc[t] = "closing"}
            outcomes == {result[t] : t \in {u \in program.calls : u.op = "connect" /\ u.conn = c}}
        IN
        /\ Cardinality(through) <= 1
        /\ "session" \in outcomes =>
               \E t \in answers : result[t] = "session" \/ (Called(t) /\ t.arg = "200")
        /\ "SessionRejected" \in outcomes =>
               /\ \E t \in answers : Called(t) /\ t.op = "reject" /\ t.arg # "invalid"
               /\ \A t \in answers : t.op = "accept" => result[t] # "session"

\* Leaving the block of a Server or Client is final: once __aexit__ has returned, the
\* endpoint is closed and every connection it ever had is gone, also one that a
\* concurrent connect() or accept() was setting up (Client.__aexit__ closes the
\* endpoint late, Server.__aexit__ at once).
ExitIsFinal ==
    \A t \in program.calls :
        t.obj \in {"Server", "Client"} /\ t.op = "aexit" /\ result[t] = "ok" =>
            ep[t.side] = "closed" /\ Idle(t.side)

\* What the program is told about the end of a session: all calls on a session (and
\* close_reason) report the same exception, however the closes of the two sides and
\* the timer race, and no session ends by itself.  SessionTimeout is reported only if a
\* timeout was set; SessionClosedByPeer only if the peer's program ended the
\* connection, or a timeout was set (the peer timed out first); SessionClosedLocally
\* only if either program did, or a timeout was set (a session whose connection breaks
\* off may close it itself); ProtocolError only if the peer's session was being closed,
\* never for a handshake's error (map_session_error and its users).
CausesAreTrue ==
    \A t \in program.calls : result[t] \in SessionExceptions =>
        /\ \A u \in program.calls :
               LinkOf(u) = LinkOf(t) /\ result[u] \in SessionExceptions => result[u] = result[t]
        /\ result[t] = "SessionTimeout" => HasIdleTimeout(t.conn)
        /\ result[t] = "SessionClosedByPeer" =>
               Closed(Peer(LinkOf(t))) \/ HasIdleTimeout(t.conn)
        /\ result[t] = "SessionClosedLocally" =>
               Closed(LinkOf(t)) \/ Closed(Peer(LinkOf(t))) \/ HasIdleTimeout(t.conn)
        /\ result[t] = "ProtocolError" => Peer(LinkOf(t)) \in closing

\* A connection never outlives the client's trust in the server: a session, and a
\* SessionRequest on the other side, exist only if the certificate is one the
\* constructor's arguments accept: pinned hashes replace the system's roots.
Authenticated ==
    \A c \in Conn : HasSession(<<c, "client">>) \/ inner[c] # "unborn" =>
        LET args == program.client  cert == program.server.certificate IN
        \/ args.no_cert_verification
        \/ <<"sha256", cert>> \in UNION args.server_certificate_hashes
        \/ args.server_certificate_hashes = {} /\ cert \in TrustedRoots

\* After the block of a Session is left, the session cannot be used: no stream is
\* opened, no datagram sent, and close_reason is set (Session.__aexit__ waits for the
\* teardown that close() only begins).
NoUseAfterExit ==
    [][\A t, exit \in program.calls :
         /\ exit.obj = "Session" /\ exit.op = "aexit" /\ result[exit] = "ok"
         /\ t.obj = "Session" /\ LinkOf(t) = LinkOf(exit) /\ result'[t] # result[t]
         => \/ t.op \in {"close", "wait_closed", "aexit", "accept_bi", "accept_uni",
                         "receive_datagram"}
            \/ result'[t] \notin {"stream", "ok", "None"}]_vars

-----------------------------------------------------------------------------
(* The inductive invariant that WebTransportProofs proves, with TypeOK and
   ExitIsFinal. *)

\* Where a call is tells what the endpoints and its connection are.
CallInv ==
    /\ ToSet(lockq) = {t \in program.calls : pc[t] = "accepting"}
    /\ \A t \in program.calls :
           /\ pc[t] # "done" => result[t] = "none"
           /\ pc[t] = "accepting" => t.obj = "Server"
           /\ t.obj \in {"Server", "Client"} =>
                  IF t.op = "new" THEN pc[t] = "uncalled" => ep[t.side] = "absent"
                                  ELSE Called(t) => ep[t.side] # "absent"
           /\ pc[t] \in {"uncalled", "spawned"} /\ t.op = "connect" =>
                  link[<<t.conn, "client">>] = "none"
           /\ pc[t] = "waiting" /\ t.op = "aexit" /\ t.obj # "Session" => ep[t.side] = "closed"
           /\ pc[t] = "responding" /\ t.op = "reject" => t.arg # "invalid"
           /\ Called(t) /\ t.obj = "Session" => link[<<t.conn, "server">>] # "none"

\* An ended link has an error.  The errors of a handshake are the client's, and only of
\* a connection that the server never had; one it has passed the client's verifier.
LinkInv ==
    /\ \A k \in Links : reason[k] # "none" <=> link[k] \in {"closed", "drained"}
    /\ \A c \in Conn :
           /\ reason[<<c, "client">>] \in {"TransportError", "ConnectionClosed"} =>
                  link[<<c, "server">>] = "none"
           /\ link[<<c, "server">>] # "none" =>
                  verify_server_cert(program.client, program.server.certificate)

\* The calls that answer the request of connection c, and those that have taken it.
AnswersTo(c) == {t \in program.calls : t.obj = "SessionRequest" /\ t.conn = c}
Engaged(t) == pc[t] \in {"responding", "closing"} \/ result[t] \in {"session", "ok"}

\* Who has taken the request is alone with it, and answers it once.
RequestInv ==
    \A c \in Conn :
        /\ link[<<c, "server">>] = "none" => http[c] = "none"
        /\ inner[c] = "unborn" <=> http[c] \in {"none", "requested"}
        /\ \A t \in AnswersTo(c) : Engaged(t) => inner[c] = "None"
        /\ \A t, u \in AnswersTo(c) : Engaged(t) /\ Engaged(u) => t = u
        /\ http[c] \in {"200", "404"} =>
               inner[c] = "None" /\ \A t \in AnswersTo(c) : pc[t] # "responding"
        /\ http[c] = "200" =>
               \E t \in AnswersTo(c) : result[t] = "session" \/ (Called(t) /\ t.arg = "200")
        /\ http[c] = "404" =>
               /\ \E t \in AnswersTo(c) : Called(t) /\ t.op = "reject" /\ t.arg # "invalid"
               /\ \A t \in AnswersTo(c) : t.op = "accept" => result[t] # "session"

\* Closed(k), by a call that can no longer turn out to have failed.
ClosedForGood(k) ==
    \E t \in program.calls : Called(t) /\
        \/ t.obj = "Session" /\ LinkOf(t) = k /\ t.op \in {"close", "aexit"}
        \/ t.obj \in {"Server", "Client"} /\ t.side = k[2]
           /\ (t.op = "aexit" \/ (t.op = "close" /\ t.arg # "big"))
        \/ t.obj = "SessionRequest" /\ LinkOf(t) = k
           /\ \/ t.op = "reject" /\ (pc[t] = "closing" \/ result[t] \in {"ok", "ValueError"})
              \/ result[t] = "CancelledError"
        \/ t.op = "connect" /\ LinkOf(t) = k /\ result[t] \in {"CancelledError", "SessionRejected"}

\* The error of a link says who ended it.  A session that closes its connection because
\* the peer's program ended it does so after the peer's side has ended.
CauseInv ==
    \A k \in Links :
        /\ k \in closing => ClosedForGood(k)
        /\ reason[k] = "LocallyClosed" =>
               \/ ClosedForGood(k) \/ HasIdleTimeout(k[1])
               \/ Ended(Peer(k)) /\ ClosedForGood(Peer(k))
        /\ reason[k] \in {"WebTransportClosed", "ApplicationClosed"} =>
               ClosedForGood(Peer(k)) \/ HasIdleTimeout(k[1])
        /\ reason[k] = "WebTransportOther" => Peer(k) \in closing
        /\ reason[k] = "TimedOut" => HasIdleTimeout(k[1])
        /\ reason[k] \in {"none", "LocallyClosed", "WebTransportClosed", "ApplicationClosed",
                          "WebTransportOther", "TimedOut"}
           \/ (reason[k] \in {"TransportError", "ConnectionClosed"} /\ k[2] = "client")

\* What a call reported is still so.
ResultInv ==
    \A t \in program.calls :
        /\ result[t] = "session" => t.conn \in Conn /\ link[<<t.conn, "server">>] # "none"
        /\ t.op = "connect" /\ result[t] = "session" => http[t.conn] = "200"
        /\ t.op = "connect" /\ result[t] = "SessionRejected" => http[t.conn] = "404"
        /\ result[t] \in SessionExceptions =>
               /\ t.obj \in {"SessionRequest", "Session"} /\ link[<<t.conn, "server">>] # "none"
               /\ Ended(LinkOf(t)) /\ result[t] = map_session_error(reason[LinkOf(t)])
        /\ t.obj = "Session" /\ t.op = "aexit" /\ result[t] = "ok" => Ended(LinkOf(t))

IndInv ==
    /\ TypeOK /\ CallInv /\ LinkInv /\ RequestInv /\ CauseInv /\ ResultInv /\ ExitIsFinal

-----------------------------------------------------------------------------
(* Liveness. *)

\* "These calls return" is stated of all of them at once: in a finite program that is
\* the same as of each.
Waits(Among(_)) == \E t \in program.calls : Among(t) /\ Pending(t)

Accepting(t) == t.obj = "Server" /\ t.op \in {"accept", "anext"}
Requested    == \E c \in Conn : http[c] = "requested"

\* The accept loop: clients' requests are handed out as long as anybody calls accept()
\* or __anext__, even if the call that holds the mutex is cancelled; and a closed
\* endpoint ends all of these calls, those that wait for the mutex too.
AcceptsProgress ==
    /\ Requested /\ Waits(Accepting) ~> ~(Requested /\ Waits(Accepting))
    /\ ep["server"] = "closed" /\ Waits(Accepting) ~> ~Waits(Accepting)

Closer(t) == t.op \in {"aexit", "reject"}

\* "Close from our side so we don't block on client behavior": __aexit__ of a Server,
\* Client or Session and SessionRequest.reject() return, whatever the peer does.
ClosersReturn == Waits(Closer) ~> ~Waits(Closer)

OfClosed(t) ==
    /\ t.obj = "Session" /\ pc[t] # "asleep"
    /\ Closed(LinkOf(t)) \/ Closed(Peer(LinkOf(t)))

\* When either side closes, every call that waits on the session, on both sides, ends,
\* also an open_bi() at the peer's stream limit, provided that closes reach the peer and
\* the idle timer fires.  An accept call that lost its waker is not among them.
CloseEndsSession ==
    FairNetwork /\ FairTimer => (Waits(OfClosed) ~> ~Waits(OfClosed))

TimedConnect(t) ==
    /\ t.op = "connect" /\ link[<<t.conn, "server">>] # "none"
    /\ program.client.max_idle_timeout = "finite"
    /\ program.client.keep_alive_interval = "none"
    /\ program.server.keep_alive_interval = "none"

\* With max_idle_timeout set on the client and no keep-alives, connect() returns or
\* raises once the connection is established, even if the server's program never accepts
\* or never answers the request.
ConnectReturns == FairTimer => (Waits(TimedConnect) ~> ~Waits(TimedConnect))

-----------------------------------------------------------------------------
(* What the documentation says, and the code does not do. *)

\* "SessionError: If the request was already accepted or rejected, or the underlying
\* connection was lost.": a call on a SessionRequest raises SessionError only if
\* an earlier call answered the request (or was cancelled at it), or the connection
\* ended for another reason than a refused argument.
AlreadyAnswered ==
    \A t \in program.calls : t.obj = "SessionRequest" /\ result[t] = "SessionError" =>
        \/ \E u \in program.calls \ {t} :
               /\ u.obj = "SessionRequest" /\ u.conn = t.conn /\ Called(u)
               /\ result[u] # "ValueError"
        \/ reason[RequestLink(t)] \notin {"none", "LocallyClosed"}
        \/ ep["server"] = "closed"
=============================================================================
