------------------------- MODULE WebTransportProofs -------------------------
(***************************************************************************)
(* Proofs about WebTransport, for every set of programs, of connections    *)
(* and of trusted certificates.  Each action is first reduced to what it   *)
(* does to a call, a link and a request; the parts of the invariant follow *)
(* from these shapes.                                                      *)
(***************************************************************************)
EXTENDS WebTransport, FairLockProofs, FiniteSetTheorems

Labels == {"uncalled", "spawned", "accepting", "connecting", "responding", "closing",
           "waiting", "asleep", "done"}

\* Links are pairs, and each is the peer of its peer.
LEMMA LinksLemma ==
    /\ \A k \in Links : k[1] \in Conn /\ k[2] \in Side /\ k = <<k[1], k[2]>>
    /\ \A c \in Conn, s \in Side : <<c, s>> \in Links
    /\ \A k \in Links : Peer(k) \in Links /\ Peer(Peer(k)) = k /\ Peer(k)[1] = k[1]
    /\ \A c \in Conn :
           /\ Peer(<<c, "client">>) = <<c, "server">>
           /\ Peer(<<c, "server">>) = <<c, "client">>
    /\ Side = {"client", "server"}
  BY DEF Links, Side, Peer

\* What the error mappings return.
LEMMA ErrorsLemma ==
    /\ \A e \in SessionErrors : map_session_error(e) \in SessionExceptions
    /\ \A e \in DatagramErrors :
           map_session_error(e) \in {"DatagramTooLargeError", "DatagramNotSupportedError"}
    /\ \A e \in SessionErrors :
           \/ map_server_error(e) = "SessionError"
           \/ map_server_error(e) = map_session_error(e)
    /\ map_server_error("RequestError") = "SessionError"
    /\ map_client_error("WrongStatus") = "SessionRejected"
    /\ map_client_error("EndpointStopping") = "ConnectError"
    /\ \A e \in SessionErrors : map_client_error(e) = "ConnectError"
    /\ "none" \notin SessionErrors
    /\ {"LocallyClosed", "TransportError", "ConnectionClosed", "WebTransportClosed",
        "WebTransportOther", "ApplicationClosed", "TimedOut"} \subseteq SessionErrors
  BY DEF map_session_error, map_connection_error, map_send_datagram_error, map_server_error,
         map_client_error, SessionErrors, ConnectionErrors, DatagramErrors, SessionExceptions

-----------------------------------------------------------------------------
(* Calls. *)

\* What ProgramsAssumption says of a call of the program that runs.
LEMMA CallsLemma ==
    ASSUME TypeOK, NEW t \in program.calls
    PROVE  /\ t.obj \in {"Server", "Client", "SessionRequest", "Session"} /\ t.side \in Side
           /\ t.obj \in {"Server", "SessionRequest"} => t.side = "server"
           /\ t.obj = "Client" => t.side = "client"
           /\ t.obj \in {"SessionRequest", "Session"} \/ t.op = "connect" =>
                  t.conn \in Conn /\ LinkOf(t) \in Links
           /\ t.obj = "SessionRequest" => t.op \in {"accept", "reject"} /\ RequestLink(t) = LinkOf(t)
           /\ t.op = "connect" => t.obj = "Client" /\ LinkOf(t) = <<t.conn, "client">>
           /\ t.op = "reject" => t.arg \in {"200", "404", "invalid"}
  BY ProgramsAssumption, LinksLemma DEF TypeOK, LinkOf, RequestLink

\* A step of call t moves it on, or ends it with a result; a call that has ended takes none.
CallMove(t) ==
    /\ pc[t] # "done"
    /\ \/ \E l \in Labels \ {"uncalled", "done"} : Goto(t, l)
       \/ \E r \in Results \ {"none"} : Finish(t, r)

LEMMA CallShape ==
    ASSUME TypeOK, NEW t \in program.calls, Task(t) \/ Python(t)
    PROVE  CallMove(t)
<1> USE ErrorsLemma, CallsLemma
<1>0. /\ \A k \in Links : Ended(k) => reason[k] \in SessionErrors
      /\ SessionExceptions \subseteq Results \ {"none"}
      /\ {"ok", "None", "request", "session", "stream", "data", "CancelledError",
          "StopAsyncIteration", "ValueError", "SessionError", "ConnectError", "SessionRejected",
          "DatagramTooLargeError", "DatagramNotSupportedError"} \subseteq Results \ {"none"}
  BY DEF TypeOK, Ended, SessionExceptions, Results
<1> HIDE DEF Results
<1>1. CASE Pending(t) /\ ServerTask(t)
  BY <1>1, <1>0 DEF ServerTask, ServerWaitIdle, AcceptLock, AcceptEnd, AcceptRequest, RespondOk,
     RespondStatus, RejectWait, RespondFails, At, Pending, CallMove, Labels
<1>2. CASE ServerPython(t)
  BY <1>2, <1>0 DEF ServerPython, ServerNew, ServerClose, ServerExit, ServerWaitClosed,
     AcceptCall, AnswerAgain, AnswerCall, RejectInvalid, ServerCancel, MayServe, MayAnswer, MayCall,
     Cancel, Pending, CallMove, Labels
<1>3. CASE Pending(t) /\ SessionTask(t)
  BY <1>3, <1>0 DEF SessionTask, OpenStream, Receive, SessionExitClose, SessionWait, Raise,
     At, CallMove, Labels
<1>4. CASE SessionPython(t)
  BY <1>4, <1>0 DEF SessionPython, SessionCall, SendDatagram, PySessionClose, PyCloseReason,
     SessionExitCall, SessionCancel, LostWaker, At, Raise, MayUse, MayCall, Cancel, Pending, CallMove,
     Labels
<1>5. CASE Pending(t) /\ ClientTask(t)
  BY <1>5, <1>0 DEF ClientTask, ClientExitClose, ClientWaitIdle, ConnectStart, ConnectAnswered,
     ConnectFails, At, CallMove, Labels
<1>6. CASE ClientPython(t)
  BY <1>6, <1>0 DEF ClientPython, ClientNew, ClientClose, ClientExitCall, ClientWaitClosed,
     ConnectCall, ClientCancel, MayDial, MayCall, Cancel, Pending, CallMove, Labels
<1> QED BY <1>1, <1>2, <1>3, <1>4, <1>5, <1>6 DEF Task, Python

-----------------------------------------------------------------------------
(* Connections. *)

NetOK ==
    /\ ep \in [Side -> {"absent", "open", "closed"}]
    /\ link \in [Links -> {"none", "open", "closed", "drained"}]
    /\ reason \in [Links -> SessionErrors \cup {"none"}]
    /\ closing \subseteq Links
    /\ http \in [Conn -> {"none", "requested", "offered", "200", "404"}]
    /\ inbox \in [Links -> SUBSET Kind]
    /\ inner \in [Conn -> {"unborn", "Some", "None"}]

\* A step of the QUIC stacks, the network or a timer.
NetStep ==
    \/ \E k \in Links : Stack(k) \/ Deliver(k) \/ Timer(k)
    \/ \E c \in Conn : Reach(c)

LEMMA NetTypes ==
    ASSUME TypeOK, CallInv, Next
    PROVE  NetOK'
<1> USE CallsLemma, ErrorsLemma, LinksLemma
<1>0. /\ NetOK
      /\ \A op : Opens(op) \subseteq Kind /\ Receives(op) \subseteq Kind
      /\ "datagram" \in Kind
      /\ {"client", "server"} \subseteq Side
  BY DEF TypeOK, NetOK, Opens, Receives, Kind
<1> HIDE DEF Kind, Side, SessionErrors, Links
<1> USE DEF NetOK, netVars, linkVars, serverVars
<1>c. ASSUME NEW L, CloseLinks(L)
      PROVE  /\ link' \in [Links -> {"none", "open", "closed", "drained"}]
             /\ reason' \in [Links -> SessionErrors \cup {"none"}]
  BY <1>c, <1>0 DEF CloseLinks
<1>e. ASSUME NEW s \in Side, EndpointClose(s), UNCHANGED serverVars PROVE NetOK'
  BY <1>e, <1>c, <1>0 DEF EndpointClose
<1>1. ASSUME NEW t \in program.calls, ServerTask(t) PROVE NetOK'
  <2>1. CASE \E c \in Conn : AcceptRequest(t, c)
    BY <2>1, <1>0 DEF AcceptRequest
  <2>2. CASE RespondStatus(t)
    <3>1. t.arg \in {"200", "404"} /\ t.conn \in Conn /\ RequestLink(t) \in Links
      <4>1. t.obj = "SessionRequest" /\ t.op = "reject" /\ pc[t] = "responding"
        BY <2>2 DEF RespondStatus, At
      <4>2. t.arg # "invalid"
        BY <4>1 DEF CallInv
      <4> QED BY <4>1, <4>2
    <3> QED BY <3>1, <2>2, <1>0 DEF RespondStatus
  <2>3. CASE RespondOk(t)
    BY <2>3, <1>0 DEF RespondOk, At
  <2> QED BY <1>1, <2>1, <2>2, <2>3, <1>0 DEF ServerTask, ServerWaitIdle, AcceptLock, AcceptEnd,
             RejectWait, RespondFails
<1>2. ASSUME NEW t \in program.calls, ServerPython(t) PROVE NetOK'
  <2>1. CASE ServerNew(t)
    BY <2>1, <1>0 DEF ServerNew
  <2>2. CASE ServerClose(t) \/ ServerExit(t)
    BY <2>2, <1>0, <1>e DEF ServerClose, ServerExit
  <2>3. CASE AnswerCall(t) \/ RejectInvalid(t)
    BY <2>3, <1>0, <1>c DEF AnswerCall, RejectInvalid, take, MayAnswer, MayCall
  <2>4. CASE ServerCancel(t)
    BY <2>4, <1>0, <1>c DEF ServerCancel
  <2> QED BY <1>2, <2>1, <2>2, <2>3, <2>4, <1>0 DEF ServerPython, ServerWaitClosed, AcceptCall,
             AnswerAgain
<1>3. ASSUME NEW t \in program.calls, SessionTask(t), UNCHANGED serverVars PROVE NetOK'
  BY <1>3, <1>0 DEF SessionTask, OpenStream, Receive, SessionExitClose, SessionWait,
     SessionClose, At
<1>4. ASSUME NEW t \in program.calls, SessionPython(t), UNCHANGED serverVars PROVE NetOK'
  BY <1>4, <1>0 DEF SessionPython, SessionCall, SendDatagram, PySessionClose, PyCloseReason,
     SessionExitCall, SessionCancel, LostWaker, SessionClose, MayUse, MayCall
<1>5. ASSUME NEW t \in program.calls, ClientTask(t), UNCHANGED serverVars PROVE NetOK'
  <2>1. CASE ConnectStart(t)
    <3>1. t.op = "connect" /\ <<t.conn, "client">> \in Links
      BY <2>1 DEF ConnectStart, At
    <3>2. link' \in [Links -> {"none", "open", "closed", "drained"}]
      BY <2>1, <3>1, <1>0, ZenonT(30) DEF ConnectStart
    <3> QED BY <2>1, <3>2, <1>5, <1>0 DEF ConnectStart
  <2>2. CASE ConnectAnswered(t)
    <3>1. UNCHANGED linkVars \/ CloseLinks({<<t.conn, "client">>})
      BY <2>2 DEF ConnectAnswered
    <3>2. /\ link' \in [Links -> {"none", "open", "closed", "drained"}]
          /\ reason' \in [Links -> SessionErrors \cup {"none"}]
      BY <3>1, <1>0, <1>c
    <3> QED BY <2>2, <3>2, <1>5, <1>0 DEF ConnectAnswered
  <2> QED BY <1>5, <2>1, <2>2, <1>0, <1>e DEF ClientTask, ClientExitClose, ClientWaitIdle,
             ConnectFails
<1>6. ASSUME NEW t \in program.calls, ClientPython(t), UNCHANGED serverVars PROVE NetOK'
  BY <1>6, <1>0, <1>c, <1>e DEF ClientPython, ClientNew, ClientClose, ClientExitCall,
     ClientWaitClosed, ConnectCall, ClientCancel
<1>7. ASSUME NetStep PROVE NetOK'
  <2>1. ASSUME NEW k \in Links, NEW e \in SessionErrors, NEW state \in {"closed", "drained"},
               EndLink(k, e, state), UNCHANGED serverVars
        PROVE  NetOK'
    BY <2>1, <1>0 DEF EndLink
  <2>2. ASSUME NEW k \in Links, Drain(k), UNCHANGED serverVars PROVE NetOK'
    BY <2>2, <1>0 DEF Drain
  <2>3. ASSUME NEW c \in Conn, Establish(c), UNCHANGED serverVars PROVE NetOK'
    BY <2>3, <1>0 DEF Establish
  <2> QED BY <1>7, <2>1, <2>2, <2>3 DEF NetStep, Stack, Deliver, Timer, Reach, Handshake, Teardown,
             PeerCloses, BrokenOff, TimeOut, HandshakeFails, Refuse
<1> QED BY <1>1, <1>2, <1>3, <1>4, <1>5, <1>6, <1>7 DEF Next, Task, Python, NetStep

-----------------------------------------------------------------------------
(* What a step of a call may rely on. *)

\* Only the calls that take a step change, and what has ended stays as it is.
LEMMA CallFrame ==
    ASSUME TypeOK, CallInv, Next
    PROVE  /\ program' = program
           /\ pc' \in [program.calls -> Labels] /\ result' \in [program.calls -> Results]
           /\ \A t \in program.calls :
                  /\ Called(t) => Called(t)'
                  /\ result[t] # "none" => pc'[t] = pc[t] /\ result'[t] = result[t]
                  /\ pc'[t] # "done" => result'[t] = "none"
                  /\ pc'[t] # pc[t] \/ result'[t] # result[t] => CallMove(t) /\ (Task(t) \/ Python(t))
           /\ \A t, u \in program.calls : pc'[t] # pc[t] /\ pc'[u] # pc[u] => t = u
<1>0. /\ pc \in [program.calls -> Labels] /\ result \in [program.calls -> Results]
      /\ \A t \in program.calls : pc[t] # "done" => result[t] = "none"
      /\ "done" \in Labels /\ "uncalled" \in Labels
  BY DEF TypeOK, Labels, CallInv
<1>1. CASE UNCHANGED callVars
  BY <1>1, <1>0 DEF callVars, Called
<1>2. ASSUME NEW t \in program.calls, Task(t) \/ Python(t)
      PROVE  /\ program' = program
             /\ pc' \in [program.calls -> Labels] /\ result' \in [program.calls -> Results]
             /\ \A u \in program.calls :
                    /\ Called(u) => Called(u)'
                    /\ result[u] # "none" => pc'[u] = pc[u] /\ result'[u] = result[u]
                    /\ pc'[u] # "done" => result'[u] = "none"
                    /\ pc'[u] # pc[u] \/ result'[u] # result[u] =>
                           CallMove(u) /\ (Task(u) \/ Python(u))
             /\ \A u, v \in program.calls : pc'[u] # pc[u] /\ pc'[v] # pc[v] => u = v
  <2>1. CallMove(t)
    BY <1>2, CallShape
  <2>2. CASE \E l \in Labels \ {"uncalled", "done"} : Goto(t, l)
    BY <2>1, <2>2, <1>2, <1>0, pc[t] # "done" DEF Goto, Called, CallMove
  <2>3. CASE \E r \in Results \ {"none"} : Finish(t, r)
    BY <2>1, <2>3, <1>2, <1>0, pc[t] # "done", ZenonT(30) DEF Finish, Called, CallMove
  <2> QED BY <2>1, <2>2, <2>3 DEF CallMove
<1> QED BY <1>1, <1>2 DEF Next, Stack, Deliver, Timer, Reach

\* Where a call goes, and from where.
Places(t) ==
    /\ t.obj = "SessionRequest" /\ pc[t] = "closing" =>
           pc'[t] = "done" /\ result'[t] \in {"ok", "CancelledError"}
    /\ pc'[t] = "closing" => pc[t] = "responding" /\ t.obj = "SessionRequest" /\ t.op = "reject"
    /\ pc'[t] = "responding" =>
           /\ pc[t] = "uncalled" /\ t.obj = "SessionRequest"
           /\ inner[t.conn] = "Some" /\ inner'[t.conn] = "None"
           /\ t.op = "reject" => t.arg # "invalid"
    /\ pc'[t] = "accepting" => AcceptLock(t)
    /\ pc'[t] = "spawned" => pc[t] = "uncalled"
    /\ pc'[t] = "waiting" /\ t.op = "aexit" /\ t.obj # "Session" => ep'[t.side] = "closed"
    /\ pc[t] = "uncalled" /\ t.obj = "Session" => HasSession(LinkOf(t))
    /\ pc[t] = "uncalled" /\ t.obj \in {"Server", "Client"} /\ t.op # "new" =>
           ep[t.side] # "absent"

LEMMA PlaceShape ==
    ASSUME TypeOK, NEW t \in program.calls, Task(t) \/ Python(t)
    PROVE  Places(t)
<1> USE CallsLemma
<1>0. /\ pc \in [program.calls -> Labels] /\ result \in [program.calls -> Results]
      /\ ep \in [Side -> {"absent", "open", "closed"}] /\ inner \in [Conn -> {"unborn", "Some", "None"}]
      /\ Side = {"client", "server"}
  BY DEF TypeOK, Labels, Side
<1> USE DEF Goto, Finish, Places
<1>1. CASE Pending(t) /\ ServerTask(t)
  <2>1. CASE AcceptLock(t)
    BY <2>1, <1>0, pc[t] = "spawned", pc'[t] = "accepting" DEF AcceptLock, At
  <2> QED BY <2>1, <1>1, <1>0 DEF ServerTask, ServerWaitIdle, AcceptEnd, AcceptRequest, RespondOk,
             RespondStatus, RejectWait, RespondFails, At, Pending
<1>2. CASE ServerPython(t)
  BY <1>2, <1>0 DEF ServerPython, ServerNew, ServerClose, ServerExit, ServerWaitClosed,
     AcceptCall, AnswerAgain, AnswerCall, RejectInvalid, ServerCancel, MayServe, MayAnswer, MayCall,
     Cancel, Pending, take, EndpointClose
<1>3. CASE Pending(t) /\ SessionTask(t)
  BY <1>3, <1>0 DEF SessionTask, OpenStream, Receive, SessionExitClose, SessionWait, Raise,
     At, Pending
<1>4. CASE SessionPython(t)
  BY <1>4, <1>0 DEF SessionPython, SessionCall, SendDatagram, PySessionClose, PyCloseReason,
     SessionExitCall, SessionCancel, LostWaker, At, Raise, MayUse, MayCall, Cancel, Pending
<1>5. CASE Pending(t) /\ ClientTask(t)
  BY <1>5, <1>0 DEF ClientTask, ClientExitClose, ClientWaitIdle, ConnectStart, ConnectAnswered,
     ConnectFails, At, Pending, EndpointClose
<1>6. CASE ClientPython(t)
  BY <1>6, <1>0 DEF ClientPython, ClientNew, ClientClose, ClientExitCall, ClientWaitClosed,
     ConnectCall, ClientCancel, MayDial, MayCall, Cancel, Pending
<1> QED BY <1>1, <1>2, <1>3, <1>4, <1>5, <1>6 DEF Task, Python

\* What the result of a call says of the state in which it ended.
Outcome(t) ==
    LET r == result'[t] IN
    /\ r \in SessionExceptions =>
           /\ t.obj \in {"SessionRequest", "Session"} /\ Ended(LinkOf(t))
           /\ r = map_session_error(reason[LinkOf(t)])
           /\ pc[t] = "responding" \/ t.obj = "Session"
    /\ r = "session" =>
           \/ /\ t.obj = "SessionRequest" /\ t.op = "accept" /\ pc[t] = "responding"
              /\ link[LinkOf(t)] = "open" /\ http'[t.conn] = "200"
           \/ t.op = "connect" /\ http[t.conn] = "200" /\ UNCHANGED http
    /\ t.op = "connect" /\ r = "SessionRejected" =>
           http[t.conn] \notin {"none", "requested", "offered", "200"} /\ UNCHANGED http
    /\ t.obj \in {"Server", "Client"} /\ t.op = "aexit" /\ r = "ok" =>
           pc[t] = "waiting" /\ Idle(t.side) /\ UNCHANGED netVars
    /\ t.obj = "Session" /\ t.op = "aexit" /\ r = "ok" => Ended(LinkOf(t))
    /\ t.obj = "SessionRequest" /\ r = "ok" => pc[t] = "closing"
    /\ t.obj = "Session" /\ r \in {"stream", "ok", "None"} =>
           \/ ~Ended(LinkOf(t))
           \/ t.op \in {"close", "wait_closed", "aexit", "accept_bi", "accept_uni",
                        "receive_datagram"}

LEMMA OutcomeShape ==
    ASSUME TypeOK, NEW t \in program.calls, Task(t) \/ Python(t), result'[t] # "none",
           pc[t] # "done" => result[t] = "none"
    PROVE  Outcome(t)
<1> USE CallsLemma, ErrorsLemma
<1>0. /\ pc \in [program.calls -> Labels] /\ result \in [program.calls -> Results]
      /\ http \in [Conn -> {"none", "requested", "offered", "200", "404"}]
      /\ \A k \in Links : Ended(k) => reason[k] \in SessionErrors
      /\ Side = {"client", "server"}
  BY DEF TypeOK, Labels, Side, Ended
<1>r. SessionExceptions \cap
          {"none", "ok", "None", "request", "session", "stream", "data", "CancelledError",
           "StopAsyncIteration", "ValueError", "SessionError", "ConnectError", "SessionRejected",
           "DatagramTooLargeError", "DatagramNotSupportedError"} = {}
  BY DEF SessionExceptions
<1>o. \A op : /\ Opens(op) # {} => op \in {"open_bi", "open_uni"}
              /\ Receives(op) # {} => op \in {"accept_bi", "accept_uni", "receive_datagram"}
  BY DEF Opens, Receives
<1> USE DEF Goto, Finish, Outcome
<1>1. CASE Pending(t) /\ ServerTask(t)
  BY <1>1, <1>0, <1>r DEF ServerTask, ServerWaitIdle, AcceptLock, AcceptEnd, AcceptRequest,
     RespondOk, RespondStatus, RejectWait, RespondFails, At, Pending
<1>2. CASE ServerPython(t)
  BY <1>2, <1>0, <1>r DEF ServerPython, ServerNew, ServerClose, ServerExit, ServerWaitClosed,
     AcceptCall, AnswerAgain, AnswerCall, RejectInvalid, ServerCancel, MayServe, MayAnswer, MayCall,
     Cancel, Pending
<1>3. CASE Pending(t) /\ SessionTask(t)
  BY <1>3, <1>0, <1>r, <1>o DEF SessionTask, OpenStream, Receive, SessionExitClose, SessionWait,
     Raise, At, Pending
<1>4. CASE SessionPython(t)
  BY <1>4, <1>0, <1>r DEF SessionPython, SessionCall, SendDatagram, PySessionClose, PyCloseReason,
     SessionExitCall, SessionCancel, LostWaker, At, Raise, MayUse, MayCall, Cancel, Pending
<1>5. CASE Pending(t) /\ ClientTask(t)
  BY <1>5, <1>0, <1>r DEF ClientTask, ClientExitClose, ClientWaitIdle, ConnectStart,
     ConnectAnswered, ConnectFails, At, Pending
<1>6. CASE ClientPython(t)
  BY <1>6, <1>0, <1>r DEF ClientPython, ClientNew, ClientClose, ClientExitCall, ClientWaitClosed,
     ConnectCall, ClientCancel, MayDial, MayCall, Cancel, Pending
<1> QED BY <1>1, <1>2, <1>3, <1>4, <1>5, <1>6 DEF Task, Python

-----------------------------------------------------------------------------
(* How links end. *)

\* Who has closed a link has closed it for good.
LEMMA ClosedStays ==
    ASSUME TypeOK, CallInv, Next, NEW k, ClosedForGood(k)
    PROVE  ClosedForGood(k)'
<1>1. PICK t \in program.calls : ClosedForGood(k)!(t)
  BY DEF ClosedForGood
<1>2. /\ program' = program /\ t \in program'.calls
      /\ Called(t)'
      /\ result[t] # "none" => result'[t] = result[t]
      /\ pc'[t] # pc[t] => Task(t) \/ Python(t)
  BY <1>1, CallFrame
<1>3. t.obj = "SessionRequest" /\ pc[t] = "closing" =>
          pc'[t] = "closing" \/ result'[t] \in {"ok", "CancelledError"}
  BY <1>2, PlaceShape DEF Places
<1> QED BY <1>1, <1>2, <1>3 DEF ClosedForGood, LinkOf

\* Link k has just been opened: by its connect(), or by a handshake that succeeded.
Opened(k) ==
    /\ link[k] = "none" /\ link'[k] = "open" /\ reason'[k] = reason[k] /\ ep[k[2]] = "open"
    /\ \/ /\ k[2] = "client"
          /\ \E t \in program.calls : t.op = "connect" /\ LinkOf(t) = k /\ pc'[t] = "connecting"
       \/ /\ k[2] = "server" /\ link[Peer(k)] = "open"
          /\ verify_server_cert(program.client, program.server.certificate)

\* Error e is what link k may end with, given what the programs and the timers did.
Justified(k, e) ==
    \/ /\ e = "LocallyClosed"
       /\ \/ ClosedForGood(k) \/ HasIdleTimeout(k[1])
          \/ Ended(Peer(k)) /\ ClosedForGood(Peer(k))
    \/ /\ e \in {"WebTransportClosed", "ApplicationClosed"}
       /\ ClosedForGood(Peer(k)) \/ HasIdleTimeout(k[1])
    \/ e = "WebTransportOther" /\ Peer(k) \in closing
    \/ e = "TimedOut" /\ HasIdleTimeout(k[1])
    \/ /\ e \in {"TransportError", "ConnectionClosed"}
       /\ k[2] = "client" /\ link[Peer(k)] = "none"

\* Link k has just ended, for a reason: one that was there, or the call that ends it.
JustEnded(k) ==
    /\ link[k] = "open" /\ link'[k] \in {"closed", "drained"}
    /\ \/ Justified(k, reason'[k])
       \/ reason'[k] = "LocallyClosed" /\ ClosedForGood(k)'
    /\ reason'[k] \in {"TransportError", "ConnectionClosed"} => link'[Peer(k)] = "none"
    /\ reason'[k] # "none"

LinkMove(k) ==
    \/ link'[k] = link[k] /\ reason'[k] = reason[k]
    \/ Opened(k)
    \/ JustEnded(k)
    \/ link[k] = "closed" /\ link'[k] = "drained" /\ reason'[k] = reason[k]

\* Endpoint::close, and the drop of a connection, by a call that ends the link for good.
LEMMA CloseLinksLemma ==
    ASSUME NetOK, NEW L, CloseLinks(L), \A k \in L : ClosedForGood(k)'
    PROVE  \A k \in Links : LinkMove(k)
  BY DEF CloseLinks, LinkMove, JustEnded, NetOK

LEMMA LinkShape ==
    ASSUME TypeOK, CallInv, LinkInv, CauseInv, Next
    PROVE  \A k \in Links : LinkMove(k)
<1> USE CallsLemma, LinksLemma
<1>0. NetOK /\ Side = {"client", "server"}
  BY DEF TypeOK, NetOK, Side
<1>u. UNCHANGED linkVars => \A k \in Links : LinkMove(k)
  BY DEF linkVars, LinkMove
<1>f. /\ program' = program
      /\ \A t \in program.calls : t \in program'.calls
  BY CallFrame
<1>1. ASSUME NEW t \in program.calls, Task(t) \/ Python(t) PROVE \A k \in Links : LinkMove(k)
  <2>0. /\ pc \in [program.calls -> Labels] /\ result \in [program.calls -> Results]
    BY DEF TypeOK, Labels
  <2>1. ASSUME NEW s \in Side, EndpointClose(s), t.obj \in {"Server", "Client"}, t.side = s,
               t.op = "aexit" \/ (t.op = "close" /\ t.arg # "big"), Called(t)'
        PROVE  \A k \in Links : LinkMove(k)
    <3>1. \A k \in Conn \X {s} : ClosedForGood(k)'
      BY <2>1, <1>f DEF ClosedForGood
    <3> QED BY <3>1, <2>1, <1>0, CloseLinksLemma DEF EndpointClose
  <2>2. ASSUME CloseLinks({LinkOf(t)}), ClosedForGood(LinkOf(t))'
        PROVE  \A k \in Links : LinkMove(k)
    BY <2>2, <1>0, CloseLinksLemma
  <2>3. CASE ServerTask(t)
    BY <2>3, <1>u DEF ServerTask, ServerWaitIdle, AcceptLock, AcceptEnd, AcceptRequest,
       RespondOk, RespondStatus, RejectWait, RespondFails, netVars
  <2>4. CASE SessionTask(t) \/ SessionPython(t)
    BY <2>4, <1>u DEF SessionTask, OpenStream, Receive, SessionExitClose, SessionWait,
       SessionPython, SessionCall, SendDatagram, PySessionClose, PyCloseReason, SessionExitCall,
       SessionCancel, LostWaker, SessionClose, netVars
  <2>5. CASE ServerPython(t)
    <3>1. CASE ServerClose(t) \/ ServerExit(t)
      BY <3>1, <2>0, <2>1, <1>0, <1>u DEF ServerClose, ServerExit, MayServe, MayCall, Goto, Finish,
         Called, netVars
    <3>2. CASE RejectInvalid(t)
      <4>1. LinkOf(t) = RequestLink(t) /\ t.obj = "SessionRequest" /\ t.op = "reject"
            /\ result'[t] = "ValueError" /\ pc'[t] = "done"
        BY <3>2, <2>0 DEF RejectInvalid, MayAnswer, MayCall, Finish
      <4>2. ClosedForGood(LinkOf(t))'
        BY <4>1, <1>f DEF ClosedForGood, Called, LinkOf
      <4> QED BY <3>2, <4>1, <4>2, <2>2 DEF RejectInvalid
    <3>3. CASE ServerCancel(t)
      <4>1. result'[t] = "CancelledError" /\ pc'[t] = "done"
        BY <3>3, <2>0 DEF ServerCancel, Cancel, Finish
      <4>2. CASE t.obj = "SessionRequest"
        <5>1. ClosedForGood(LinkOf(t))'
          BY <4>1, <4>2, <1>f DEF ClosedForGood, Called, LinkOf
        <5> QED BY <3>3, <4>2, <5>1, <2>2 DEF ServerCancel
      <4> QED BY <3>3, <4>2, <1>u DEF ServerCancel
    <3> QED BY <2>5, <3>1, <3>2, <3>3, <1>u DEF ServerPython, ServerNew, ServerWaitClosed,
               AcceptCall, AnswerAgain, AnswerCall, netVars
  <2>6. CASE ClientTask(t)
    <3>1. CASE ClientExitClose(t)
      BY <3>1, <2>0, <2>1, <1>0 DEF ClientExitClose, At, Goto, Called
    <3>2. CASE ConnectStart(t)
      <4>1. t.op = "connect" /\ LinkOf(t) = <<t.conn, "client">> /\ LinkOf(t) \in Links
            /\ pc[t] = "spawned"
        BY <3>2 DEF ConnectStart, At
      <4>2. link[LinkOf(t)] = "none"
        <5>1. pc[t] \in {"uncalled", "spawned"} /\ t.op = "connect" =>
                  link[<<t.conn, "client">>] = "none"
          BY DEF CallInv
        <5> QED BY <4>1, <5>1
      <4>3. CASE ep["client"] = "open" /\ Goto(t, "connecting")
                 /\ link' = [link EXCEPT ![<<t.conn, "client">>] = "open"]
        <5>1. link' = [link EXCEPT ![LinkOf(t)] = "open"] /\ UNCHANGED reason
              /\ pc'[t] = "connecting" /\ LinkOf(t)[2] = "client"
          BY <4>1, <4>3, <3>2, <2>0 DEF ConnectStart, Goto
        <5>2. Opened(LinkOf(t))
          BY <5>1, <4>1, <4>2, <4>3, <1>0 DEF Opened, NetOK
        <5> QED BY <5>1, <5>2, <1>0 DEF LinkMove, NetOK
      <4> QED BY <3>2, <4>3, <1>u DEF ConnectStart, linkVars
    <3>3. CASE ConnectAnswered(t)
      <4>1. t.op = "connect" /\ LinkOf(t) = <<t.conn, "client">>
        BY <3>3 DEF ConnectAnswered, At
      <4>2. CASE CloseLinks({<<t.conn, "client">>}) /\ Finish(t, map_client_error("WrongStatus"))
        <5>1. result'[t] = "SessionRejected" /\ pc'[t] = "done"
          BY <4>2, <2>0, ErrorsLemma DEF Finish
        <5>2. ClosedForGood(LinkOf(t))'
          BY <5>1, <4>1, <1>f DEF ClosedForGood, Called, LinkOf
        <5> QED BY <4>1, <4>2, <5>2, <2>2
      <4> QED BY <3>3, <4>2, <1>u DEF ConnectAnswered
    <3> QED BY <2>6, <3>1, <3>2, <3>3, <1>u DEF ClientTask, ClientWaitIdle, ConnectFails, netVars
  <2>7. CASE ClientPython(t)
    <3>1. CASE ClientClose(t)
      BY <3>1, <2>0, <2>1, <1>0, <1>u DEF ClientClose, MayDial, MayCall, Finish, Called, netVars
    <3>2. CASE ClientCancel(t)
      <4>1. result'[t] = "CancelledError" /\ pc'[t] = "done"
        BY <3>2, <2>0 DEF ClientCancel, Cancel, Finish
      <4>2. CASE t.op = "connect"
        <5>1. ClosedForGood(LinkOf(t))'
          BY <4>1, <4>2, <1>f DEF ClosedForGood, Called, LinkOf
        <5> QED BY <3>2, <4>2, <5>1, <2>2 DEF ClientCancel
      <4> QED BY <3>2, <4>2, <1>u DEF ClientCancel
    <3> QED BY <2>7, <3>1, <3>2, <1>u DEF ClientPython, ClientNew, ClientExitCall, ClientWaitClosed,
               ConnectCall, netVars
  <2> QED BY <1>1, <2>3, <2>4, <2>5, <2>6, <2>7 DEF Task, Python
<1>2. ASSUME NetStep PROVE \A k \in Links : LinkMove(k)
  <2>1. ASSUME NEW k \in Links, NEW e, NEW state \in {"closed", "drained"}, EndLink(k, e, state),
               Justified(k, e)
        PROVE  \A j \in Links : LinkMove(j)
    <3>1. /\ link' = [link EXCEPT ![k] = state] /\ reason' = [reason EXCEPT ![k] = e]
          /\ link[k] = "open"
      BY <2>1 DEF EndLink
    <3>2. e \in {"TransportError", "ConnectionClosed"} => link'[Peer(k)] = "none"
      BY <2>1, <3>1, <1>0 DEF NetOK, Justified
    <3>3. e # "none"
      BY <2>1 DEF Justified
    <3>4. JustEnded(k)
      BY <2>1, <3>1, <3>2, <3>3, <1>0 DEF JustEnded, NetOK
    <3> QED BY <3>1, <3>4, <1>0 DEF LinkMove, NetOK
  <2>2. ASSUME NEW k \in Links, Teardown(k) PROVE \A j \in Links : LinkMove(j)
    BY <2>2, <2>1 DEF Teardown, CauseInv, Justified
  <2>3. ASSUME NEW k \in Links, Drain(k) PROVE \A j \in Links : LinkMove(j)
    BY <2>3, <1>0 DEF Drain, LinkMove, NetOK
  <2>4. ASSUME NEW k \in Links, PeerCloses(k) PROVE \A j \in Links : LinkMove(j)
    <3>1. link[k] = "open" /\ ~Ended(k)
      BY <2>4 DEF PeerCloses, EndLink, LinkInv, Ended
    <3>2. CASE Peer(k) \in closing /\ EndLink(k, "WebTransportClosed", "closed")
      BY <3>2, <2>1 DEF CauseInv, Justified
    <3>3. CASE /\ reason[Peer(k)] = "LocallyClosed"
               /\ \E e \in {"ApplicationClosed"} \cup BrokenOff(k) : EndLink(k, e, "closed")
      <4>1. PICK e \in {"ApplicationClosed"} \cup BrokenOff(k) : EndLink(k, e, "closed")
        BY <3>3
      <4>2. Ended(Peer(k)) /\ (ClosedForGood(Peer(k)) \/ HasIdleTimeout(k[1]))
        BY <3>1, <3>3 DEF CauseInv, Ended
      <4>3. Justified(k, e)
        BY <4>2 DEF Justified, BrokenOff
      <4> QED BY <4>1, <4>3, <2>1
    <3> QED BY <2>4, <3>2, <3>3 DEF PeerCloses
  <2>5. ASSUME NEW k \in Links, Timer(k) PROVE \A j \in Links : LinkMove(j)
    BY <2>5, <2>1 DEF Timer, TimeOut, Justified
  <2>6. ASSUME NEW c \in Conn, Handshake(c) PROVE \A j \in Links : LinkMove(j)
    <3>1. CASE verify_server_cert(program.client, program.server.certificate)
      <4>1. Establish(c)
        BY <3>1, <2>6 DEF Handshake
      <4>2. Opened(<<c, "server">>)
        BY <3>1, <4>1, <1>0 DEF Opened, Establish, NetOK
      <4> QED BY <4>1, <4>2, <1>0 DEF Establish, LinkMove, NetOK
    <3>2. CASE HandshakeFails(c)
      BY <3>2, <2>1, <1>0 DEF HandshakeFails, Justified
    <3> QED BY <2>6, <3>1, <3>2 DEF Handshake
  <2>7. ASSUME NEW c \in Conn, Refuse(c) PROVE \A j \in Links : LinkMove(j)
    BY <2>7, <2>1, <1>0 DEF Refuse, Justified
  <2> QED BY <1>2, <2>2, <2>3, <2>4, <2>5, <2>6, <2>7 DEF NetStep, Stack, Deliver, Reach
<1> QED BY <1>1, <1>2 DEF Next, NetStep

\* close(), __aexit__ and reject() close a session for good, and no close is taken back.
LEMMA ClosingShape ==
    ASSUME TypeOK, CallInv, Next
    PROVE  /\ \A k \in closing' : k \in closing \/ ClosedForGood(k)'
           /\ closing \subseteq closing'
<1> USE CallsLemma
<1>0. pc \in [program.calls -> Labels] /\ result \in [program.calls -> Results]
  BY DEF TypeOK, Labels
<1>f. program' = program
  BY CallFrame
<1>1. ASSUME NEW t \in program.calls, Task(t) \/ Python(t)
      PROVE  /\ \A k \in closing' : k \in closing \/ ClosedForGood(k)'
             /\ closing \subseteq closing'
  <2>1. CASE RespondStatus(t)
    <3>1. t.obj = "SessionRequest" /\ t.op = "reject" /\ pc'[t] = "closing"
          /\ LinkOf(t) = RequestLink(t)
      BY <2>1, <1>0 DEF RespondStatus, At, Goto
    <3>2. ClosedForGood(LinkOf(t))'
      BY <3>1, <1>f DEF ClosedForGood, Called, LinkOf
    <3> QED BY <2>1, <3>1, <3>2 DEF RespondStatus
  <2>2. ASSUME SessionClose(LinkOf(t)), t.obj = "Session", t.op \in {"close", "aexit"},
               pc'[t] # "uncalled"
        PROVE  /\ \A k \in closing' : k \in closing \/ ClosedForGood(k)'
               /\ closing \subseteq closing'
    <3>1. ClosedForGood(LinkOf(t))'
      BY <2>2, <1>f DEF ClosedForGood, Called, LinkOf
    <3> QED BY <2>2, <3>1 DEF SessionClose
  <2>3. CASE SessionTask(t) \/ SessionPython(t)
    BY <2>3, <2>2, <1>0 DEF SessionTask, OpenStream, Receive, SessionExitClose, SessionWait,
       SessionPython, SessionCall, SendDatagram, PySessionClose, PyCloseReason, SessionExitCall,
       SessionCancel, LostWaker, At, MayUse, MayCall, Goto, Finish, netVars
  <2>4. CASE UNCHANGED closing
    BY <2>4
  <2> QED
    BY <1>1, <2>1, <2>3, <2>4 DEF Task, Python, ServerTask, ServerWaitIdle, AcceptLock, AcceptEnd,
       AcceptRequest, RespondOk, RejectWait, RespondFails, ServerPython, ServerNew, ServerClose,
       ServerExit, ServerWaitClosed, AcceptCall, AnswerAgain, AnswerCall, RejectInvalid,
       ServerCancel, ClientTask, ClientExitClose, ClientWaitIdle, ConnectStart, ConnectAnswered,
       ConnectFails, ClientPython, ClientNew, ClientClose, ClientExitCall, ClientWaitClosed,
       ConnectCall, ClientCancel, EndpointClose, netVars
<1>2. ASSUME NetStep PROVE UNCHANGED closing
  BY <1>2 DEF NetStep, Stack, Deliver, Timer, Reach, Handshake, Teardown, Drain, PeerCloses,
     TimeOut, Establish, HandshakeFails, Refuse, EndLink
<1> QED BY <1>1, <1>2 DEF Next, NetStep

-----------------------------------------------------------------------------
(* Endpoints, requests and the mutex. *)

\* An endpoint is made once, by its constructor, and closed for good.
EpMove(s) ==
    \/ ep'[s] = ep[s]
    \/ ep[s] # "absent" /\ ep'[s] = "closed"
    \/ /\ ep[s] = "absent" /\ ep'[s] = "open"
       /\ \E t \in program.calls :
              t.obj \in {"Server", "Client"} /\ t.op = "new" /\ t.side = s /\ pc'[t] = "done"

LEMMA EpShape ==
    ASSUME TypeOK, CallInv, Next
    PROVE  \A s \in Side : EpMove(s)
<1> USE CallsLemma
<1>0. /\ pc \in [program.calls -> Labels] /\ ep \in [Side -> {"absent", "open", "closed"}]
      /\ Side = {"client", "server"}
  BY DEF TypeOK, Labels, Side
<1>i. \A t \in program.calls : t.obj \in {"Server", "Client"} =>
          IF t.op = "new" THEN pc[t] = "uncalled" => ep[t.side] = "absent"
                          ELSE pc[t] # "uncalled" => ep[t.side] # "absent"
  BY DEF CallInv, Called
<1>u. UNCHANGED ep => \A s \in Side : EpMove(s)
  BY DEF EpMove
<1>1. ASSUME NEW t \in program.calls, Task(t) \/ Python(t) PROVE \A s \in Side : EpMove(s)
  <2>1. ASSUME NEW s \in Side, EndpointClose(s), ep[s] # "absent" PROVE \A r \in Side : EpMove(r)
    BY <2>1, <1>0 DEF EndpointClose, EpMove
  <2>2. CASE ServerNew(t)
    BY <2>2, <1>0, <1>i DEF ServerNew, MayCall, Finish, EpMove
  <2>3. CASE ClientNew(t)
    BY <2>3, <1>0, <1>i DEF ClientNew, MayCall, Finish, EpMove
  <2>4. CASE ServerClose(t) \/ ServerExit(t)
    BY <2>4, <2>1, <1>0, <1>u DEF ServerClose, ServerExit, MayServe, netVars
  <2>5. CASE ClientClose(t)
    BY <2>5, <2>1, <1>0, <1>u DEF ClientClose, MayDial, netVars
  <2>6. CASE ClientExitClose(t)
    <3>1. t.obj = "Client" /\ t.op = "aexit" /\ pc[t] = "spawned" /\ EndpointClose("client")
      BY <2>6 DEF ClientExitClose, At
    <3>2. ep["client"] # "absent"
      BY <3>1, <1>i
    <3> QED BY <3>1, <3>2, <2>1, <1>0
  <2>7. CASE SessionTask(t) \/ SessionPython(t)
    BY <2>7, <1>u DEF SessionTask, OpenStream, Receive, SessionExitClose, SessionWait, SessionClose,
       SessionPython, SessionCall, SendDatagram, PySessionClose, PyCloseReason, SessionExitCall,
       SessionCancel, LostWaker, netVars
  <2> QED
    BY <1>1, <2>2, <2>3, <2>4, <2>5, <2>6, <2>7, <1>u DEF Task, Python, ServerTask, ServerWaitIdle,
       AcceptLock, AcceptEnd, AcceptRequest, RespondOk, RespondStatus, RejectWait, RespondFails,
       ServerPython, ServerWaitClosed, AcceptCall, AnswerAgain, AnswerCall,
       RejectInvalid, ServerCancel, ClientTask, ClientWaitIdle, ConnectStart, ConnectAnswered,
       ConnectFails, ClientPython, ClientExitCall, ClientWaitClosed, ConnectCall,
       ClientCancel, netVars
<1>2. ASSUME NetStep PROVE UNCHANGED ep
  BY <1>2 DEF NetStep, Stack, Deliver, Timer, Reach, Handshake, Teardown, Drain, PeerCloses,
     TimeOut, Establish, HandshakeFails, Refuse, EndLink
<1> QED BY <1>1, <1>2, <1>u DEF Next, NetStep

\* The request of connection c is sent, offered to the program, taken, and answered.
RequestMove(c) ==
    \/ http'[c] = http[c] /\ inner'[c] = inner[c]
    \/ /\ link[<<c, "server">>] = "none" /\ link'[<<c, "server">>] = "open"
       /\ http'[c] = "requested" /\ inner'[c] = inner[c]
    \/ http[c] = "requested" /\ http'[c] = "offered" /\ inner'[c] = "Some"
    \/ http'[c] = http[c] /\ inner[c] = "Some" /\ inner'[c] = "None"
    \/ /\ inner'[c] = inner[c]
       /\ \E t \in AnswersTo(c) :
              /\ pc[t] = "responding"
              /\ \/ t.op = "accept" /\ http'[c] = "200" /\ result'[t] = "session"
                 \/ t.op = "reject" /\ http'[c] = t.arg /\ pc'[t] = "closing"
                    /\ t.arg \in {"200", "404"}

LEMMA RequestShape ==
    ASSUME TypeOK, CallInv, Next
    PROVE  \A c \in Conn : RequestMove(c)
<1> USE CallsLemma
<1>0. /\ pc \in [program.calls -> Labels] /\ result \in [program.calls -> Results]
      /\ NetOK
  BY DEF TypeOK, Labels, NetOK
<1>u. UNCHANGED <<http, inner>> => \A c \in Conn : RequestMove(c)
  BY DEF RequestMove
<1>1. ASSUME NEW t \in program.calls, Task(t) \/ Python(t) PROVE \A c \in Conn : RequestMove(c)
  <2>1. ASSUME NEW d \in Conn, AcceptRequest(t, d) PROVE \A c \in Conn : RequestMove(c)
    BY <2>1, <1>0 DEF AcceptRequest, RequestMove, NetOK
  <2>2. CASE AnswerCall(t) \/ RejectInvalid(t)
    BY <2>2, <1>0 DEF AnswerCall, RejectInvalid, MayAnswer, MayCall, take, RequestMove, NetOK, netVars
  <2>3. CASE RespondOk(t)
    <3>1. /\ t \in AnswersTo(t.conn) /\ t.conn \in Conn /\ t.op = "accept" /\ pc[t] = "responding"
          /\ result'[t] = "session" /\ http' = [http EXCEPT ![t.conn] = "200"] /\ inner' = inner
      BY <2>3, <1>0 DEF RespondOk, At, Finish, AnswersTo, serverVars
    <3>2. RequestMove(t.conn)
      BY <3>1, <1>0 DEF RequestMove, NetOK
    <3> QED BY <3>1, <3>2, <1>0 DEF RequestMove, NetOK
  <2>4. CASE RespondStatus(t)
    <3>1. /\ t \in AnswersTo(t.conn) /\ t.conn \in Conn /\ t.op = "reject" /\ pc[t] = "responding"
          /\ pc'[t] = "closing" /\ http' = [http EXCEPT ![t.conn] = t.arg] /\ inner' = inner
      BY <2>4, <1>0 DEF RespondStatus, At, Goto, AnswersTo, serverVars
    <3>2. t.arg # "invalid"
      BY <3>1 DEF CallInv
    <3>3. t.arg \in {"200", "404"}
      BY <3>1, <3>2
    <3>4. RequestMove(t.conn)
      BY <3>1, <3>3, <1>0 DEF RequestMove, NetOK
    <3> QED BY <3>1, <3>4, <1>0 DEF RequestMove, NetOK
  <2>5. CASE (SessionTask(t) \/ SessionPython(t)) /\ UNCHANGED serverVars
    BY <2>5, <1>u DEF SessionTask, OpenStream, Receive, SessionExitClose, SessionWait, SessionClose,
       SessionPython, SessionCall, SendDatagram, PySessionClose, PyCloseReason, SessionExitCall,
       SessionCancel, LostWaker, netVars, serverVars
  <2>6. CASE (ClientTask(t) \/ ClientPython(t)) /\ UNCHANGED serverVars
    BY <2>6, <1>u DEF ClientTask, ClientExitClose, ClientWaitIdle, ConnectStart, ConnectAnswered,
       ConnectFails, ClientPython, ClientNew, ClientClose, ClientExitCall, ClientWaitClosed,
       ConnectCall, ClientCancel, EndpointClose, netVars, serverVars
  <2> QED
    BY <1>1, <2>1, <2>2, <2>3, <2>4, <2>5, <2>6, <1>u DEF Task, Python, ServerTask, ServerWaitIdle,
       AcceptLock, AcceptEnd, RejectWait, RespondFails, ServerPython, ServerNew, ServerClose,
       ServerExit, ServerWaitClosed, AcceptCall, AnswerAgain, ServerCancel, EndpointClose, netVars,
       serverVars
<1>2. ASSUME NetStep PROVE \A c \in Conn : RequestMove(c)
  <2>1. ASSUME NEW d \in Conn, Establish(d), UNCHANGED serverVars
        PROVE  \A c \in Conn : RequestMove(c)
    <3>1. /\ link[<<d, "server">>] = "none" /\ link' = [link EXCEPT ![<<d, "server">>] = "open"]
          /\ http' = [http EXCEPT ![d] = "requested"] /\ inner' = inner
          /\ <<d, "server">> \in Links
      BY <2>1, LinksLemma DEF Establish, serverVars
    <3>2. RequestMove(d)
      BY <3>1, <1>0 DEF RequestMove, NetOK
    <3>3. \A c \in Conn \ {d} : http'[c] = http[c] /\ inner'[c] = inner[c]
      BY <3>1, <1>0 DEF NetOK
    <3> QED BY <3>2, <3>3 DEF RequestMove
  <2> QED
    BY <1>2, <2>1, <1>u DEF NetStep, Stack, Deliver, Timer, Reach, Handshake, Teardown, Drain,
       PeerCloses, TimeOut, HandshakeFails, Refuse, EndLink, serverVars
<1> QED BY <1>1, <1>2 DEF Next, NetStep

\* The mutex of the listener: who is at "accepting" owns or awaits it.
Queue(q, at) == q \in Seq(program.calls) /\ Disciplined(q, program.calls, at, {"accepting"}, {})

LEMMA LockShape ==
    ASSUME TypeOK, CallInv, Next
    PROVE  Queue(lockq', pc')
<1> USE CallsLemma
<1>0. /\ pc \in [program.calls -> Labels]
      /\ Queue(lockq, pc)
      /\ \A t \in program.calls : pc[t] = "accepting" => t.obj = "Server"
  <2>1. \A x : x \in {"accepting"} <=> x = "accepting"
    OBVIOUS
  <2>2. {t \in program.calls : pc[t] \in {"accepting"}} = {t \in program.calls : pc[t] = "accepting"}
    BY <2>1
  <2> QED BY <2>2 DEF TypeOK, Labels, CallInv, Queue, Disciplined
<1>1. ASSUME NEW t \in program.calls, Task(t) \/ Python(t) PROVE Queue(lockq', pc')
  <2>1. ASSUME lockq' = lockq, pc[t] # "accepting", NEW l \in Labels, l # "accepting",
               pc' = [pc EXCEPT ![t] = l]
        PROVE  Queue(lockq', pc')
    BY <2>1, <1>0, StayLemma DEF Queue
  <2>2. ASSUME NEW l \in Labels, l # "accepting", lockq' = Leave(lockq, t),
               pc' = [pc EXCEPT ![t] = l]
        PROVE  Queue(lockq', pc')
    <3>1. /\ lockq \in Seq(program.calls)
          /\ Disciplined(lockq, program.calls, pc, {"accepting"}, {})
          /\ l \notin {"accepting"} /\ {} \subseteq {"accepting"}
      BY <2>2, <1>0 DEF Queue
    <3>2. /\ Leave(lockq, t) \in Seq(program.calls)
          /\ Disciplined(Leave(lockq, t), program.calls, [pc EXCEPT ![t] = l], {"accepting"}, {})
      BY <3>1, <1>0, DropLemma
    <3> QED BY <3>2, <2>2 DEF Queue
  <2>3. CASE AcceptLock(t)
    <3>1. /\ lockq \in Seq(program.calls)
          /\ Disciplined(lockq, program.calls, pc, {"accepting"}, {})
          /\ pc[t] \notin {"accepting"} /\ "accepting" \in {"accepting"} /\ "accepting" \notin {}
      BY <2>3, <1>0 DEF Queue, AcceptLock, At
    <3>2. /\ Acquire(lockq, t) \in Seq(program.calls)
          /\ Disciplined(Acquire(lockq, t), program.calls, [pc EXCEPT ![t] = "accepting"],
                         {"accepting"}, {})
      BY <3>1, <1>0, JoinLemma
    <3> QED BY <3>2, <2>3 DEF Queue, AcceptLock, Goto
  <2>4. CASE AcceptEnd(t) \/ ServerCancel(t) \/ \E c \in Conn : AcceptRequest(t, c)
    <3>1. lockq' = Leave(lockq, t) /\ pc' = [pc EXCEPT ![t] = "done"]
      BY <2>4 DEF AcceptEnd, ServerCancel, AcceptRequest, Cancel, Finish
    <3> QED BY <3>1, <2>2 DEF Labels
  <2>5. CASE ~AcceptLock(t) /\ ~(AcceptEnd(t) \/ ServerCancel(t) \/ \E c \in Conn : AcceptRequest(t, c))
    <3>1. lockq' = lockq /\ (pc[t] = "accepting" => FALSE)
      <4>1. CASE (SessionTask(t) \/ SessionPython(t)) /\ UNCHANGED serverVars
        BY <4>1, <1>0 DEF SessionTask, OpenStream, Receive, SessionExitClose, SessionWait, At,
           SessionPython, SessionCall, SendDatagram, PySessionClose, PyCloseReason, SessionExitCall,
           SessionCancel, LostWaker, MayUse, MayCall, serverVars
      <4>2. CASE (ClientTask(t) \/ ClientPython(t)) /\ UNCHANGED serverVars
        BY <4>2, <1>0 DEF ClientTask, ClientExitClose, ClientWaitIdle, ConnectStart, At,
           ConnectAnswered, ConnectFails, ClientPython, ClientNew, ClientClose, ClientExitCall,
           ClientWaitClosed, ConnectCall, ClientCancel, MayDial, MayCall, serverVars
      <4>3. CASE ServerTask(t)
        BY <4>3, <2>5, <1>0 DEF ServerTask, ServerWaitIdle, RespondOk, RespondStatus, RejectWait,
           RespondFails, At, serverVars
      <4>4. CASE ServerPython(t)
        BY <4>4, <2>5, <1>0 DEF ServerPython, ServerNew, ServerClose, ServerExit, ServerWaitClosed,
           AcceptCall, AnswerAgain, AnswerCall, RejectInvalid, MayServe, MayAnswer, MayCall,
           serverVars
      <4> QED BY <1>1, <4>1, <4>2, <4>3, <4>4 DEF Task, Python
    <3>2. PICK l \in Labels : pc' = [pc EXCEPT ![t] = l]
      BY <1>1, CallShape DEF CallMove, Goto, Finish, Labels
    <3>3. l # "accepting"
      BY <1>1, <2>5, <3>2, <1>0, PlaceShape DEF Places
    <3> QED BY <3>1, <3>2, <3>3, <2>1
  <2> QED BY <2>3, <2>4, <2>5
<1>2. ASSUME NetStep PROVE lockq' = lockq /\ pc' = pc /\ program' = program
  BY <1>2 DEF NetStep, Stack, Deliver, Timer, Reach, callVars, serverVars
<1> QED BY <1>0, <1>1, <1>2 DEF Next, NetStep, Queue

-----------------------------------------------------------------------------
(* The parts of the invariant. *)

LEMMA TypeStep ==
    ASSUME TypeOK, CallInv, Next
    PROVE  TypeOK'
<1>1. /\ program' = program /\ NetOK' /\ Queue(lockq', pc')
      /\ pc' \in [program.calls -> Labels] /\ result' \in [program.calls -> Results]
  BY CallFrame, NetTypes, LockShape
<1> QED BY <1>1 DEF TypeOK, NetOK, Queue, Disciplined, Labels

LEMMA CallStep ==
    ASSUME TypeOK, CallInv, LinkInv, CauseInv, ResultInv, Next
    PROVE  CallInv'
<1> USE CallsLemma
<1>0. /\ program' = program
      /\ \A t \in program.calls : pc'[t] # pc[t] => Task(t) \/ Python(t)
      /\ \A t \in program.calls : pc'[t] # "done" => result'[t] = "none"
      /\ \A t \in program.calls : pc'[t] = "uncalled" => pc[t] = "uncalled"
  BY CallFrame DEF Called
<1>1. ToSet(lockq') = {t \in program.calls : pc'[t] = "accepting"}
  <2>1. \A x : x \in {"accepting"} <=> x = "accepting"
    OBVIOUS
  <2>2. ToSet(lockq') = {t \in program.calls : pc'[t] \in {"accepting"}}
    BY LockShape DEF Queue, Disciplined
  <2> QED BY <2>1, <2>2
<1>2. ASSUME NEW t \in program.calls PROVE pc'[t] = "accepting" => t.obj = "Server"
  <2>1. pc[t] = "accepting" => t.obj = "Server"
    BY DEF CallInv
  <2>2. pc'[t] # pc[t] => Places(t)
    BY <1>0, PlaceShape
  <2> QED BY <2>1, <2>2 DEF Places, AcceptLock, At
<1>3. ASSUME NEW t \in program.calls, t.obj \in {"Server", "Client"}
      PROVE  IF t.op = "new" THEN pc'[t] = "uncalled" => ep'[t.side] = "absent"
                             ELSE pc'[t] # "uncalled" => ep'[t.side] # "absent"
  <2>1. /\ EpMove(t.side)
        /\ IF t.op = "new" THEN pc[t] = "uncalled" => ep[t.side] = "absent"
                           ELSE pc[t] # "uncalled" => ep[t.side] # "absent"
    BY <1>3, EpShape DEF CallInv, Called
  <2>2. \A u \in program.calls : t.op = "new" /\ u.op = "new" /\ t.obj = u.obj => t = u
    BY ProgramsAssumption DEF TypeOK
  <2>3. \A u \in program.calls : u.obj \in {"Server", "Client"} /\ u.side = t.side => u.obj = t.obj
    BY <1>3
  <2>4. pc'[t] # pc[t] => Places(t)
    BY <1>0, PlaceShape
  <2>5. CASE t.op = "new"
    BY <2>5, <2>1, <2>2, <2>3, <1>0 DEF EpMove
  <2>6. CASE t.op # "new"
    BY <2>6, <2>1, <2>4, <1>3, <1>0 DEF EpMove, Places
  <2> QED BY <2>5, <2>6
<1>4. ASSUME NEW t \in program.calls, pc'[t] \in {"uncalled", "spawned"}, t.op = "connect"
      PROVE  link'[<<t.conn, "client">>] = "none"
  <2>1. <<t.conn, "client">> = LinkOf(t) /\ LinkOf(t) \in Links /\ LinkOf(t)[2] = "client"
    BY <1>4 DEF LinkOf
  <2>2. pc[t] \in {"uncalled", "spawned"}
    BY <1>4, <1>0, PlaceShape DEF Places
  <2>3. link[LinkOf(t)] = "none"
    <3>1. pc[t] \in {"uncalled", "spawned"} /\ t.op = "connect" => link[<<t.conn, "client">>] = "none"
      BY DEF CallInv
    <3> QED BY <1>4, <2>1, <2>2, <3>1
  <2>4. \A u \in program.calls : u.op = "connect" /\ t.op = "connect" /\ t.conn = u.conn => t = u
    BY ProgramsAssumption DEF TypeOK
  <2>5. LinkMove(LinkOf(t))
    BY <2>1, LinkShape
  <2>6. ~Opened(LinkOf(t))
    <3>1. \A u \in program.calls : u.op = "connect" /\ LinkOf(u) = LinkOf(t) => u = t
      BY <2>4, <1>4 DEF LinkOf
    <3> QED BY <3>1, <2>1, <1>4 DEF Opened
  <2> QED BY <2>1, <2>3, <2>5, <2>6 DEF LinkMove, JustEnded
<1>5. ASSUME NEW t \in program.calls, pc'[t] = "waiting", t.op = "aexit", t.obj # "Session"
      PROVE  ep'[t.side] = "closed"
  <2>1. CASE pc'[t] = pc[t]
    <3>1. ep[t.side] = "closed"
      BY <1>5, <2>1, ZenonT(30) DEF CallInv
    <3> QED BY <3>1, EpShape DEF EpMove
  <2>2. CASE pc'[t] # pc[t]
    BY <2>2, <1>0, <1>5, PlaceShape DEF Places
  <2> QED BY <2>1, <2>2
<1>6. ASSUME NEW t \in program.calls, pc'[t] = "responding", t.op = "reject"
      PROVE  t.arg # "invalid"
  <2>1. pc[t] = "responding" => t.arg # "invalid"
    BY <1>6 DEF CallInv
  <2> QED BY <2>1, <1>0, <1>6, PlaceShape DEF Places
<1>7. ASSUME NEW t \in program.calls, pc'[t] # "uncalled", t.obj = "Session"
      PROVE  link'[<<t.conn, "server">>] # "none"
  <2>1. link[<<t.conn, "server">>] # "none"
    <3>1. CASE pc[t] # "uncalled"
      BY <3>1, <1>7 DEF CallInv, Called
    <3>2. CASE pc[t] = "uncalled"
      <4>1. HasSession(LinkOf(t))
        BY <3>2, <1>0, <1>7, PlaceShape DEF Places
      <4>2. PICK u \in program.calls : LinkOf(u) = LinkOf(t) /\ result[u] = "session"
        BY <4>1 DEF HasSession
      <4>3. u.conn = t.conn
        BY <4>2 DEF LinkOf
      <4> QED BY <4>2, <4>3 DEF ResultInv
    <3> QED BY <3>1, <3>2
  <2>2. LinkMove(<<t.conn, "server">>)
    BY <1>7, LinkShape, LinksLemma
  <2> QED BY <2>1, <2>2 DEF LinkMove, Opened, JustEnded
<1> QED BY <1>0, <1>1, <1>2, <1>3, <1>4, <1>5, <1>6, <1>7 DEF CallInv, Called

LEMMA LinkStep ==
    ASSUME TypeOK, CallInv, LinkInv, CauseInv, Next
    PROVE  LinkInv'
<1> USE LinksLemma
<1>0. program' = program /\ NetOK /\ \A k \in Links : LinkMove(k)
  BY CallFrame, LinkShape DEF TypeOK, NetOK
<1>1. ASSUME NEW k \in Links PROVE reason'[k] # "none" <=> link'[k] \in {"closed", "drained"}
  <2>1. reason[k] # "none" <=> link[k] \in {"closed", "drained"}
    BY DEF LinkInv
  <2> QED BY <2>1, <1>0 DEF LinkMove, Opened, JustEnded
<1>2. ASSUME NEW c \in Conn, reason'[<<c, "client">>] \in {"TransportError", "ConnectionClosed"}
      PROVE  link'[<<c, "server">>] = "none"
  <2> DEFINE k == <<c, "client">>
             p == <<c, "server">>
  <2>1. k \in Links /\ p \in Links /\ Peer(k) = p /\ Peer(p) = k /\ k[2] = "client" /\ p[2] = "server"
    OBVIOUS
  <2>2. reason[k] \in {"TransportError", "ConnectionClosed"} => link[p] = "none"
    BY DEF LinkInv
  <2>3. reason[k] # "none" => link[k] # "open"
    BY <2>1 DEF LinkInv
  <2> HIDE DEF k, p
  <2>4. LinkMove(k) /\ LinkMove(p)
    BY <2>1, <1>0
  <2>5. CASE reason'[k] = reason[k]
    <3>1. link[p] = "none" /\ link[k] # "open"
      BY <2>5, <2>2, <2>3, <1>2 DEF k
    <3> QED BY <3>1, <2>1, <2>4 DEF LinkMove, Opened, JustEnded, p
  <2>6. CASE JustEnded(k)
    BY <2>6, <2>1, <1>2 DEF JustEnded, k, p
  <2> QED BY <2>4, <2>5, <2>6 DEF LinkMove, Opened
<1>3. ASSUME NEW c \in Conn, link'[<<c, "server">>] # "none"
      PROVE  verify_server_cert(program.client, program.server.certificate)
  <2>1. LinkMove(<<c, "server">>) /\ <<c, "server">>[2] = "server"
    BY <1>0
  <2>2. link[<<c, "server">>] # "none" =>
            verify_server_cert(program.client, program.server.certificate)
    BY DEF LinkInv
  <2> QED BY <1>3, <2>1, <2>2 DEF LinkMove, Opened, JustEnded
<1> QED BY <1>0, <1>1, <1>2, <1>3 DEF LinkInv, verify_server_cert, ServerFingerprints

\* Only the call that takes the request becomes engaged, and it finds it there.
LEMMA EngagedStep ==
    ASSUME TypeOK, CallInv, Next, NEW c \in Conn, NEW t \in AnswersTo(c), Engaged(t)'
    PROVE  \/ Engaged(t)
           \/ pc[t] # "responding" /\ pc'[t] = "responding" /\ inner[c] = "Some" /\ inner'[c] = "None"
<1>0. t \in program.calls /\ t.obj = "SessionRequest" /\ t.conn = c
  BY DEF AnswersTo
<1>1. CASE pc'[t] = pc[t] /\ result'[t] = result[t]
  BY <1>1 DEF Engaged
<1>2. CASE Task(t) \/ Python(t)
  <2>1. Places(t) /\ (result'[t] # "none" => Outcome(t))
    BY <1>2, <1>0, PlaceShape, OutcomeShape DEF CallInv
  <2> QED BY <2>1, <1>0, CallsLemma DEF Engaged, Places, Outcome
<1> QED BY <1>0, <1>1, <1>2, CallFrame

LEMMA RequestStep ==
    ASSUME TypeOK, CallInv, LinkInv, CauseInv, RequestInv, Next
    PROVE  RequestInv'
<1> USE CallsLemma
<1>0. /\ program' = program /\ NetOK /\ NetOK'
      /\ \A c \in Conn : RequestMove(c) /\ LinkMove(<<c, "server">>)
      /\ \A c : AnswersTo(c)' = AnswersTo(c)
  BY CallFrame, NetTypes, LinksLemma, RequestShape, LinkShape DEF TypeOK, NetOK, AnswersTo
<1>1. ASSUME NEW c \in Conn PROVE link'[<<c, "server">>] = "none" => http'[c] = "none"
  <2>1. /\ link[<<c, "server">>] = "none" => http[c] = "none"
        /\ inner[c] = "unborn" <=> http[c] \in {"none", "requested"}
        /\ \A t \in AnswersTo(c) : Engaged(t) => inner[c] = "None"
    BY DEF RequestInv
  <2>2. link'[<<c, "server">>] = "none" => link[<<c, "server">>] = "none"
    BY <1>0 DEF LinkMove, Opened, JustEnded
  <2> QED BY <2>1, <2>2, <1>0 DEF RequestMove, Engaged
<1>2. ASSUME NEW c \in Conn PROVE inner'[c] = "unborn" <=> http'[c] \in {"none", "requested"}
  <2>1. /\ link[<<c, "server">>] = "none" => http[c] = "none"
        /\ inner[c] = "unborn" <=> http[c] \in {"none", "requested"}
        /\ \A t \in AnswersTo(c) : Engaged(t) => inner[c] = "None"
    BY DEF RequestInv
  <2> QED BY <2>1, <1>0 DEF RequestMove, Engaged
<1>3. ASSUME NEW c \in Conn, NEW t \in AnswersTo(c), Engaged(t)' PROVE inner'[c] = "None"
  <2>1. /\ Engaged(t) => inner[c] = "None"
        /\ inner[c] = "unborn" <=> http[c] \in {"none", "requested"}
    BY DEF RequestInv
  <2>2. CASE Engaged(t)
    BY <2>1, <2>2, <1>0 DEF RequestMove
  <2> QED BY <2>2, <1>3, EngagedStep
<1>4. ASSUME NEW c \in Conn, NEW t \in AnswersTo(c), NEW u \in AnswersTo(c), Engaged(t)', Engaged(u)'
      PROVE  t = u
  <2>1. /\ Engaged(t) => inner[c] = "None"
        /\ Engaged(u) => inner[c] = "None"
        /\ Engaged(t) /\ Engaged(u) => t = u
    BY DEF RequestInv
  <2>2. t \in program.calls /\ u \in program.calls
    BY DEF AnswersTo
  <2>3. pc'[t] # pc[t] /\ pc'[u] # pc[u] => t = u
    BY <2>2, CallFrame
  <2> QED BY <2>1, <2>3, <1>4, EngagedStep
<1>5. ASSUME NEW c \in Conn, http'[c] \in {"200", "404"}
      PROVE  inner'[c] = "None" /\ \A t \in AnswersTo(c) : pc'[t] # "responding"
  <2>1. /\ \A u \in AnswersTo(c) : Engaged(u) => inner[c] = "None"
        /\ \A u, v \in AnswersTo(c) : Engaged(u) /\ Engaged(v) => u = v
        /\ http[c] \in {"200", "404"} =>
               inner[c] = "None" /\ \A u \in AnswersTo(c) : pc[u] # "responding"
    BY DEF RequestInv
  <2>2. inner'[c] = "None" /\ inner[c] = "None"
    BY <2>1, <1>0, <1>5 DEF RequestMove, Engaged
  <2>3. ASSUME NEW t \in AnswersTo(c), pc'[t] = "responding" PROVE FALSE
    <3>1. pc[t] = "responding" /\ Engaged(t)
      BY <2>2, <2>3, <1>5, EngagedStep, CallFrame, PlaceShape DEF Engaged, Places, AnswersTo
    <3>2. http[c] \notin {"200", "404"}
      BY <2>1, <3>1
    <3>3. PICK u \in AnswersTo(c) : pc[u] = "responding"
                                    /\ (result'[u] = "session" \/ pc'[u] = "closing")
      BY <3>2, <1>0, <1>5, <2>2 DEF RequestMove
    <3>4. u = t
      BY <3>1, <3>3, <2>1 DEF Engaged
    <3> QED BY <3>3, <3>4, <2>3, CallFrame DEF AnswersTo
  <2> QED BY <2>2, <2>3
<1>6. ASSUME NEW c \in Conn, http'[c] = "200"
      PROVE  \E t \in AnswersTo(c) : result'[t] = "session" \/ (pc'[t] # "uncalled" /\ t.arg = "200")
  <2>1. CASE http[c] = "200"
    <3>1. PICK t \in AnswersTo(c) : result[t] = "session" \/ (Called(t) /\ t.arg = "200")
      BY <2>1 DEF RequestInv
    <3> QED BY <3>1, CallFrame DEF AnswersTo, Called
  <2>2. CASE http[c] # "200"
    BY <2>2, <1>6, <1>0 DEF RequestMove
  <2> QED BY <2>1, <2>2
<1>7. ASSUME NEW c \in Conn, http'[c] = "404"
      PROVE  /\ \E t \in AnswersTo(c) : pc'[t] # "uncalled" /\ t.op = "reject" /\ t.arg # "invalid"
             /\ \A t \in AnswersTo(c) : t.op = "accept" => result'[t] # "session"
  <2>1. CASE http[c] = "404"
    <3>1. /\ \E t \in AnswersTo(c) : Called(t) /\ t.op = "reject" /\ t.arg # "invalid"
          /\ \A t \in AnswersTo(c) : t.op = "accept" => result[t] # "session"
          /\ \A t \in AnswersTo(c) : pc[t] # "responding"
      BY <2>1 DEF RequestInv
    <3>2. ASSUME NEW t \in AnswersTo(c), t.op = "accept", result'[t] = "session" PROVE FALSE
      <4>1. t \in program.calls /\ result[t] # "session" /\ pc[t] # "responding" /\ t.op # "connect"
        BY <3>1, <3>2 DEF AnswersTo
      <4>2. Task(t) \/ Python(t)
        BY <4>1, <3>2, CallFrame
      <4>3. Outcome(t)
        BY <4>1, <4>2, <3>2, OutcomeShape DEF CallInv
      <4> QED BY <4>1, <4>3, <3>2 DEF Outcome
    <3> QED BY <3>1, <3>2, CallFrame DEF AnswersTo, Called
  <2>2. CASE http[c] # "404"
    <3>1. PICK t \in AnswersTo(c) : pc[t] = "responding" /\ t.op = "reject" /\ pc'[t] = "closing"
                                    /\ t.arg \in {"200", "404"}
      BY <2>2, <1>7, <1>0 DEF RequestMove
    <3>2. Engaged(t)' /\ t.arg # "invalid"
      BY <3>1 DEF Engaged
    <3>3. \A u \in AnswersTo(c) : result'[u] = "session" => u = t
      BY <3>2, <1>4 DEF Engaged
    <3> QED BY <3>1, <3>2, <3>3
  <2> QED BY <2>1, <2>2
<1> QED BY <1>0, <1>1, <1>2, <1>3, <1>4, <1>5, <1>6, <1>7, ZenonT(30) DEF RequestInv, Called

\* A link that the server has is never forgotten, and an error never changes.
LEMMA LinkStays ==
    ASSUME TypeOK, CallInv, LinkInv, CauseInv, Next, NEW k \in Links
    PROVE  /\ link[k] # "none" => link'[k] # "none"
           /\ Ended(k) => Ended(k)' /\ reason'[k] = reason[k]
<1>1. LinkMove(k)
  BY LinkShape
<1>2. Ended(k) => link[k] # "open"
  BY DEF LinkInv, Ended
<1> QED BY <1>1, <1>2 DEF LinkMove, Opened, JustEnded, Ended

LEMMA CauseStep ==
    ASSUME TypeOK, CallInv, LinkInv, CauseInv, Next
    PROVE  CauseInv'
<1> USE LinksLemma
<1>0. program' = program /\ NetOK /\ \A k \in Links : LinkMove(k)
  BY CallFrame, LinkShape DEF TypeOK, NetOK
<1>t. ASSUME NEW c \in Conn, HasIdleTimeout(c) PROVE HasIdleTimeout(c)'
  <2>1. link[<<c, "server">>] # "none" => link'[<<c, "server">>] # "none"
    BY <1>0 DEF LinkMove, Opened, JustEnded
  <2> QED BY <2>1, <1>0, <1>t DEF HasIdleTimeout
<1>1. ASSUME NEW k \in Links
      PROVE  /\ k \in closing' => ClosedForGood(k)'
             /\ reason'[k] = "LocallyClosed" =>
                    \/ ClosedForGood(k)' \/ HasIdleTimeout(k[1])'
                    \/ Ended(Peer(k))' /\ ClosedForGood(Peer(k))'
             /\ reason'[k] \in {"WebTransportClosed", "ApplicationClosed"} =>
                    ClosedForGood(Peer(k))' \/ HasIdleTimeout(k[1])'
             /\ reason'[k] = "WebTransportOther" => Peer(k) \in closing'
             /\ reason'[k] = "TimedOut" => HasIdleTimeout(k[1])'
             /\ \/ reason'[k] \in {"none", "LocallyClosed", "WebTransportClosed",
                                   "ApplicationClosed", "WebTransportOther", "TimedOut"}
                \/ reason'[k] \in {"TransportError", "ConnectionClosed"} /\ k[2] = "client"
  <2>1. CauseInv!(k)
    BY DEF CauseInv
  <2>2. /\ ClosedForGood(k) => ClosedForGood(k)'
        /\ ClosedForGood(Peer(k)) => ClosedForGood(Peer(k))'
        /\ HasIdleTimeout(k[1]) => HasIdleTimeout(k[1])'
        /\ Ended(Peer(k)) => Ended(Peer(k))'
    BY ClosedStays, LinkStays, <1>t
  <2>3. /\ k \in closing' => k \in closing \/ ClosedForGood(k)'
        /\ Peer(k) \in closing => Peer(k) \in closing'
    BY ClosingShape
  <2>4. CASE reason'[k] = reason[k]
    BY <2>1, <2>2, <2>3, <2>4
  <2>5. CASE JustEnded(k)
    BY <2>1, <2>2, <2>3, <2>5 DEF JustEnded, Justified
  <2> QED BY <1>0, <2>4, <2>5 DEF LinkMove, Opened
<1>2. \A k : Peer(k)' = Peer(k)
  BY DEF Peer
<1> QED BY <1>1, <1>2 DEF CauseInv

LEMMA ResultStep ==
    ASSUME TypeOK, CallInv, LinkInv, RequestInv, CauseInv, ResultInv, Next
    PROVE  ResultInv'
<1> USE CallsLemma
<1>0. program' = program /\ NetOK
  BY CallFrame DEF TypeOK, NetOK
<1>h. \A c \in Conn : http[c] \in {"200", "404"} => http'[c] = http[c]
  <2>1. ASSUME NEW c \in Conn, http[c] \in {"200", "404"} PROVE http'[c] = http[c]
    <3>1. /\ link[<<c, "server">>] # "none" /\ RequestMove(c)
          /\ \A t \in AnswersTo(c) : pc[t] # "responding"
      BY <2>1, RequestShape DEF RequestInv
    <3> QED BY <2>1, <3>1 DEF RequestMove
  <2> QED BY <2>1
<1>1. ASSUME NEW t \in program.calls
      PROVE  /\ result'[t] = "session" => t.conn \in Conn /\ link'[<<t.conn, "server">>] # "none"
             /\ t.op = "connect" /\ result'[t] = "session" => http'[t.conn] = "200"
             /\ t.op = "connect" /\ result'[t] = "SessionRejected" => http'[t.conn] = "404"
             /\ result'[t] \in SessionExceptions =>
                    /\ t.obj \in {"SessionRequest", "Session"} /\ link'[<<t.conn, "server">>] # "none"
                    /\ Ended(LinkOf(t))' /\ result'[t] = map_session_error(reason'[LinkOf(t)])
             /\ t.obj = "Session" /\ t.op = "aexit" /\ result'[t] = "ok" => Ended(LinkOf(t))'
  <2>0. /\ t.conn \in Conn => <<t.conn, "server">> \in Links
        /\ "none" \notin SessionExceptions
    BY LinksLemma DEF SessionExceptions
  <2>1. CASE result'[t] = result[t]
    <3>1. /\ result[t] = "session" => t.conn \in Conn /\ link[<<t.conn, "server">>] # "none"
          /\ t.op = "connect" /\ result[t] = "session" => http[t.conn] = "200"
          /\ t.op = "connect" /\ result[t] = "SessionRejected" => http[t.conn] = "404"
          /\ result[t] \in SessionExceptions =>
                 /\ t.obj \in {"SessionRequest", "Session"} /\ link[<<t.conn, "server">>] # "none"
                 /\ Ended(LinkOf(t)) /\ result[t] = map_session_error(reason[LinkOf(t)])
          /\ t.obj = "Session" /\ t.op = "aexit" /\ result[t] = "ok" => Ended(LinkOf(t))
      BY DEF ResultInv
    <3> QED BY <2>0, <2>1, <3>1, <1>h, LinkStays
  <2>2. CASE result'[t] # result[t]
    <3>1. Task(t) \/ Python(t)
      BY <2>2, CallFrame
    <3>2. result'[t] # "none" => Outcome(t)
      BY <3>1, OutcomeShape DEF CallInv
    <3>3. ASSUME result'[t] = "session"
          PROVE  /\ t.conn \in Conn /\ link[<<t.conn, "server">>] # "none"
                 /\ t.op = "connect" => http'[t.conn] = "200"
      <4>1. CASE t.obj = "SessionRequest" /\ link[LinkOf(t)] = "open"
        BY <4>1 DEF LinkOf
      <4>2. CASE t.op = "connect" /\ http[t.conn] = "200" /\ UNCHANGED http
        BY <4>2 DEF RequestInv
      <4> QED BY <3>2, <3>3, <4>1, <4>2 DEF Outcome
    <3>4. ASSUME t.op = "connect", result'[t] = "SessionRejected" PROVE http'[t.conn] = "404"
      <4>1. http[t.conn] \notin {"none", "requested", "offered", "200"} /\ UNCHANGED http
        BY <3>2, <3>4 DEF Outcome
      <4> QED BY <4>1, <3>4, <1>0 DEF NetOK
    <3>5. ASSUME result'[t] \in SessionExceptions
          PROVE  /\ t.obj \in {"SessionRequest", "Session"} /\ link[<<t.conn, "server">>] # "none"
                 /\ Ended(LinkOf(t)) /\ result'[t] = map_session_error(reason[LinkOf(t)])
      <4>1. /\ t.obj \in {"SessionRequest", "Session"} /\ Ended(LinkOf(t))
            /\ result'[t] = map_session_error(reason[LinkOf(t)])
        BY <3>2, <3>5, <2>0 DEF Outcome
      <4>2. CASE t.obj = "SessionRequest"
        <5>1. link[LinkOf(t)] \in {"closed", "drained"} /\ LinkOf(t) = <<t.conn, "server">>
          BY <4>1, <4>2 DEF LinkInv, Ended, LinkOf
        <5> QED BY <5>1, <4>1
      <4>3. CASE t.obj = "Session"
        <5>1. CASE Called(t)
          BY <4>3, <5>1, <4>1 DEF CallInv
        <5>2. CASE ~Called(t)
          <6>1. HasSession(LinkOf(t))
            BY <4>3, <5>2, <3>1, PlaceShape DEF Called, Places
          <6>2. PICK u \in program.calls : LinkOf(u) = LinkOf(t) /\ result[u] = "session"
            BY <6>1 DEF HasSession
          <6>3. u.conn = t.conn
            BY <6>2 DEF LinkOf
          <6> QED BY <4>1, <6>2, <6>3 DEF ResultInv
        <5> QED BY <5>1, <5>2
      <4> QED BY <4>1, <4>2, <4>3
    <3>6. t.obj = "Session" /\ t.op = "aexit" /\ result'[t] = "ok" => Ended(LinkOf(t))
      BY <3>2 DEF Outcome
    <3> QED BY <2>0, <3>3, <3>4, <3>5, <3>6, LinkStays
  <2> QED BY <2>1, <2>2
<1>2. \A t \in program.calls : LinkOf(t)' = LinkOf(t)
  BY DEF LinkOf
<1> HIDE DEF SessionExceptions
<1> QED BY <1>0, <1>1, <1>2 DEF ResultInv

LEMMA ExitStep ==
    ASSUME TypeOK, CallInv, LinkInv, CauseInv, ExitIsFinal, Next
    PROVE  ExitIsFinal'
<1> USE CallsLemma
<1>0. program' = program
  BY CallFrame
<1>1. ASSUME NEW t \in program.calls, t.obj \in {"Server", "Client"}, t.op = "aexit",
             result'[t] = "ok"
      PROVE  ep'[t.side] = "closed" /\ Idle(t.side)'
  <2>1. CASE result'[t] = result[t]
    <3>1. ep[t.side] = "closed" /\ Idle(t.side)
      BY <1>1, <2>1 DEF ExitIsFinal
    <3>2. ep'[t.side] = "closed"
      BY <3>1, EpShape DEF EpMove
    <3>3. ASSUME NEW c \in Conn PROVE link'[<<c, t.side>>] \in {"none", "drained"}
      <4>1. LinkMove(<<c, t.side>>) /\ <<c, t.side>>[2] = t.side
        BY LinkShape, LinksLemma
      <4> QED BY <4>1, <3>1 DEF LinkMove, Opened, JustEnded, Idle
    <3> QED BY <3>2, <3>3 DEF Idle
  <2>2. CASE result'[t] # result[t]
    <3>1. Task(t) \/ Python(t)
      BY <2>2, CallFrame
    <3>2. pc[t] = "waiting" /\ Idle(t.side) /\ UNCHANGED netVars
      BY <1>1, <3>1, OutcomeShape DEF CallInv, Outcome
    <3>3. ep[t.side] = "closed"
      BY <3>2, <1>1 DEF CallInv
    <3> QED BY <3>2, <3>3 DEF netVars, linkVars, Idle
  <2> QED BY <2>1, <2>2
<1> QED BY <1>0, <1>1 DEF ExitIsFinal

-----------------------------------------------------------------------------
(* The theorems. *)

LEMMA InitInv == Init => IndInv
<1> SUFFICES ASSUME Init PROVE IndInv
  OBVIOUS
<1> USE DEF Init, CallsInit, ConnectionsInit, ServerInit
<1>1. TypeOK
  <2>1. lockq \in Seq(program.calls) /\ Distinct(lockq)
    BY DEF Distinct
  <2> QED BY <2>1 DEF TypeOK, Results
<1>2. CallInv
  <2>1. ToSet(lockq) = {}
    BY DEF ToSet
  <2> QED BY <2>1, <1>1, CallsLemma, LinksLemma DEF CallInv, Called
<1>3. LinkInv /\ CauseInv
  BY LinksLemma DEF LinkInv, CauseInv
<1>4. RequestInv
  BY LinksLemma DEF RequestInv, AnswersTo, Engaged
<1>5. ResultInv /\ ExitIsFinal
  BY DEF ResultInv, ExitIsFinal, SessionExceptions
<1> QED BY <1>1, <1>2, <1>3, <1>4, <1>5 DEF IndInv

LEMMA StepInv == IndInv /\ [Next]_vars => IndInv'
<1>1. CASE IndInv /\ Next
  BY <1>1, TypeStep, CallStep, LinkStep, RequestStep, CauseStep, ResultStep, ExitStep DEF IndInv
<1>2. CASE IndInv /\ UNCHANGED vars
  <2>1. UNCHANGED <<program, pc, result, ep, link, reason, closing, http, inbox, lockq, inner>>
    BY <1>2 DEF vars, callVars, netVars, linkVars, serverVars
  <2>2. TypeOK' /\ CallInv' /\ LinkInv' /\ ResultInv' /\ ExitIsFinal'
    BY <2>1, <1>2 DEF IndInv, TypeOK, CallInv, Called, LinkInv, ResultInv, ExitIsFinal, Idle, Ended,
       LinkOf, verify_server_cert, ServerFingerprints
  <2>3. RequestInv'
    <3>1. \A c : AnswersTo(c)' = AnswersTo(c)
      BY <2>1 DEF AnswersTo
    <3>2. \A t : (Engaged(t)' <=> Engaged(t)) /\ (Called(t)' <=> Called(t))
      BY <2>1 DEF Engaged, Called
    <3>3. RequestInv
      BY <1>2 DEF IndInv
    <3>4. ASSUME NEW c \in Conn
          PROVE  /\ link'[<<c, "server">>] = "none" => http'[c] = "none"
                 /\ inner'[c] = "unborn" <=> http'[c] \in {"none", "requested"}
                 /\ \A t \in AnswersTo(c)' : Engaged(t)' => inner'[c] = "None"
                 /\ http'[c] \in {"200", "404"} =>
                        inner'[c] = "None" /\ \A t \in AnswersTo(c)' : pc'[t] # "responding"
      BY <2>1, <3>1, <3>2, <3>3 DEF RequestInv
    <3>5. ASSUME NEW c \in Conn
          PROVE  /\ \A t, u \in AnswersTo(c)' : Engaged(t)' /\ Engaged(u)' => t = u
                 /\ http'[c] = "200" =>
                        \E t \in AnswersTo(c)' : result'[t] = "session" \/ (Called(t)' /\ t.arg = "200")
                 /\ http'[c] = "404" =>
                        /\ \E t \in AnswersTo(c)' : Called(t)' /\ t.op = "reject" /\ t.arg # "invalid"
                        /\ \A t \in AnswersTo(c)' : t.op = "accept" => result'[t] # "session"
      BY <2>1, <3>1, <3>2, <3>3 DEF RequestInv
    <3> QED BY <3>4, <3>5 DEF RequestInv
  <2>4. CauseInv'
    <3>1. \A k : ClosedForGood(k)' <=> ClosedForGood(k)
      BY <2>1 DEF ClosedForGood, Called, LinkOf
    <3>2. \A c : HasIdleTimeout(c)' <=> HasIdleTimeout(c)
      BY <2>1 DEF HasIdleTimeout
    <3>3. CauseInv
      BY <1>2 DEF IndInv
    <3>4. \A k : /\ ClosedForGood(Peer(k))' <=> ClosedForGood(Peer(k))
                 /\ Ended(Peer(k))' <=> Ended(Peer(k))
      BY <2>1, <3>1 DEF Peer, Ended
    <3> QED BY <2>1, <3>1, <3>2, <3>3, <3>4 DEF CauseInv
  <2> QED BY <2>2, <2>3, <2>4 DEF IndInv
<1> QED BY <1>1, <1>2

\* IndInv is an invariant: with its parts about calls, links, requests, causes and
\* results, it is what all other theorems of this module rest on.
THEOREM Invariance == Spec => []IndInv
  BY InitInv, StepInv, PTL DEF Spec

\* The state of the endpoints, connections, requests and calls stays well-formed, for every
\* program; for one, the queue of the listener's mutex holds no call twice.
THEOREM TypeCorrect == Spec => []TypeOK
<1>1. IndInv => TypeOK
  BY DEF IndInv
<1> QED BY <1>1, Invariance, PTL

\* A request gets one answer, and the client's connect() reports that one: SessionRequest.inner
\* is taken once, whichever of accept() and reject() race.
THEOREM SingleAnswer == Spec => []OneAnswer
<1>1. IndInv => OneAnswer
  <2> SUFFICES ASSUME IndInv, NEW c \in Conn
               PROVE  OneAnswer!(c)
    BY DEF OneAnswer
  <2> DEFINE through == {t \in AnswersTo(c) : result[t] \in {"session", "ok"} \/ pc[t] = "closing"}
  <2>0. AnswersTo(c) = {t \in program.calls : t.obj = "SessionRequest" /\ t.conn = c}
    BY DEF AnswersTo
  <2>1. Cardinality(through) <= 1
    <3>1. \A t, u \in through : t = u
      <4>1. \A t, u \in AnswersTo(c) : Engaged(t) /\ Engaged(u) => t = u
        BY DEF IndInv, RequestInv
      <4> QED BY <4>1 DEF Engaged
    <3> HIDE DEF through
    <3>2. CASE through = {}
      BY <3>2, FS_EmptySet
    <3>3. CASE through # {}
      <4>1. PICK x : x \in through
        BY <3>3
      <4>2. through = {x}
        BY <4>1, <3>1
      <4>3. Cardinality({x}) = 1
        BY FS_Singleton
      <4> QED BY <4>2, <4>3
    <3> QED BY <3>2, <3>3
  <2>2. ASSUME NEW u \in program.calls, u.op = "connect", u.conn = c, result[u] = "session"
        PROVE  \E t \in AnswersTo(c) : result[t] = "session" \/ (Called(t) /\ t.arg = "200")
    <3>1. http[c] = "200"
      BY <2>2 DEF IndInv, ResultInv
    <3> QED BY <3>1 DEF IndInv, RequestInv
  <2>3. ASSUME NEW u \in program.calls, u.op = "connect", u.conn = c, result[u] = "SessionRejected"
        PROVE  /\ \E t \in AnswersTo(c) : Called(t) /\ t.op = "reject" /\ t.arg # "invalid"
               /\ \A t \in AnswersTo(c) : t.op = "accept" => result[t] # "session"
    <3>1. http[c] = "404"
      BY <2>3 DEF IndInv, ResultInv
    <3> QED BY <3>1 DEF IndInv, RequestInv
  <2> QED BY <2>0, <2>1, <2>2, <2>3
<1> QED BY <1>1, Invariance, PTL

\* Once __aexit__ of a Server or Client has returned, its endpoint is closed and all its
\* connections are gone, and they stay so.
THEOREM FinalExit == Spec => []ExitIsFinal
<1>1. IndInv => ExitIsFinal
  BY DEF IndInv
<1> QED BY <1>1, Invariance, PTL

\* The exception with which calls on a session and on a request report its end is the same
\* for all of them, and something happened that it may stand for: without a timeout, never
\* SessionTimeout, SessionClosedByPeer only after a close by the peer's program, and
\* SessionClosedLocally only after one by either program.
THEOREM TruthfulCauses == Spec => []CausesAreTrue
<1>1. IndInv => CausesAreTrue
  <2> SUFFICES ASSUME IndInv, NEW t \in program.calls, result[t] \in SessionExceptions
               PROVE  CausesAreTrue!(t)!2
    BY DEF CausesAreTrue
  <2> DEFINE k == LinkOf(t)
  <2>0. TypeOK /\ CallInv /\ LinkInv /\ CauseInv /\ ResultInv
    BY DEF IndInv
  <2>1. /\ t.obj \in {"SessionRequest", "Session"} /\ link[<<t.conn, "server">>] # "none"
        /\ Ended(k) /\ result[t] = map_session_error(reason[k])
    BY <2>0 DEF ResultInv
  <2>2. t.conn \in Conn /\ k \in Links /\ k = <<t.conn, t.side>> /\ k[1] = t.conn
    BY <2>0, <2>1, CallsLemma DEF LinkOf
  <2>3. \A u \in program.calls :
            LinkOf(u) = k /\ result[u] \in SessionExceptions => result[u] = result[t]
    BY <2>0, <2>1 DEF ResultInv
  <2>4. \A j : ClosedForGood(j) => Closed(j)
    <3>1. \A u \in program.calls : pc[u] = "closing" => result[u] = "none"
      BY <2>0 DEF CallInv
    <3> QED BY <3>1 DEF ClosedForGood, Closed
  <2> HIDE DEF k
  <2>5. reason[k] \in {"LocallyClosed", "WebTransportClosed", "ApplicationClosed",
                       "WebTransportOther", "TimedOut"}
    <3>1. \/ reason[k] \in {"none", "LocallyClosed", "WebTransportClosed", "ApplicationClosed",
                            "WebTransportOther", "TimedOut"}
          \/ reason[k] \in {"TransportError", "ConnectionClosed"} /\ k[2] = "client"
      BY <2>0, <2>2 DEF CauseInv
    <3>2. k[2] = "client" => reason[k] \notin {"TransportError", "ConnectionClosed"}
      BY <2>0, <2>1, <2>2 DEF LinkInv
    <3> QED BY <3>1, <3>2, <2>1 DEF Ended
  <2>6. /\ reason[k] = "LocallyClosed" =>
               ClosedForGood(k) \/ ClosedForGood(Peer(k)) \/ HasIdleTimeout(k[1])
        /\ reason[k] \in {"WebTransportClosed", "ApplicationClosed"} =>
               ClosedForGood(Peer(k)) \/ HasIdleTimeout(k[1])
        /\ reason[k] = "WebTransportOther" => Peer(k) \in closing
        /\ reason[k] = "TimedOut" => HasIdleTimeout(k[1])
    BY <2>0, <2>2 DEF CauseInv
  <2>7. /\ reason[k] = "LocallyClosed" => result[t] = "SessionClosedLocally"
        /\ reason[k] \in {"WebTransportClosed", "ApplicationClosed"} =>
               result[t] = "SessionClosedByPeer"
        /\ reason[k] = "WebTransportOther" => result[t] = "ProtocolError"
        /\ reason[k] = "TimedOut" => result[t] = "SessionTimeout"
    BY <2>1 DEF map_session_error, map_connection_error, ConnectionErrors, DatagramErrors
  <2> QED BY <2>2, <2>3, <2>4, <2>5, <2>6, <2>7 DEF k
<1> QED BY <1>1, Invariance, PTL

\* A session of the client, and a SessionRequest of the server, exist only on connections
\* whose certificate the client's constructor arguments accept.
THEOREM OnlyAuthenticated == Spec => []Authenticated
<1>1. IndInv => Authenticated
  <2> SUFFICES ASSUME IndInv, NEW c \in Conn, HasSession(<<c, "client">>) \/ inner[c] # "unborn"
               PROVE  LET args == program.client  cert == program.server.certificate IN
                      \/ args.no_cert_verification
                      \/ <<"sha256", cert>> \in UNION args.server_certificate_hashes
                      \/ args.server_certificate_hashes = {} /\ cert \in TrustedRoots
    BY DEF Authenticated
  <2>0. TypeOK /\ LinkInv /\ RequestInv /\ ResultInv
    BY DEF IndInv
  <2>1. link[<<c, "server">>] # "none"
    <3>1. CASE HasSession(<<c, "client">>)
      <4>1. PICK t \in program.calls : LinkOf(t) = <<c, "client">> /\ result[t] = "session"
        BY <3>1 DEF HasSession
      <4>2. t.conn = c
        BY <4>1 DEF LinkOf
      <4> QED BY <2>0, <4>1, <4>2 DEF ResultInv
    <3>2. CASE inner[c] # "unborn"
      BY <3>2, <2>0 DEF RequestInv
    <3> QED BY <3>1, <3>2
  <2>2. verify_server_cert(program.client, program.server.certificate)
    BY <2>0, <2>1 DEF LinkInv
  <2>3. program.client.no_cert_verification \in BOOLEAN
    BY <2>0, ProgramsAssumption DEF TypeOK
  <2> QED BY <2>2, <2>3 DEF verify_server_cert, ServerFingerprints, sha256
<1> QED BY <1>1, Invariance, PTL

\* After __aexit__ of a Session has returned, no call on that session opens a stream, sends a
\* datagram or finds the session without a close_reason.
THEOREM ExitedUnusable == Spec => NoUseAfterExit
<1>1. ASSUME IndInv, [Next]_vars, NEW t \in program.calls, NEW exit \in program.calls,
             exit.obj = "Session", exit.op = "aexit", result[exit] = "ok",
             t.obj = "Session", LinkOf(t) = LinkOf(exit), result'[t] # result[t]
      PROVE  \/ t.op \in {"close", "wait_closed", "aexit", "accept_bi", "accept_uni",
                          "receive_datagram"}
             \/ result'[t] \notin {"stream", "ok", "None"}
  <2>0. TypeOK /\ CallInv /\ ResultInv /\ Next
    BY <1>1 DEF IndInv, vars, callVars
  <2>1. Task(t) \/ Python(t)
    BY <2>0, <1>1, CallFrame
  <2>2. result'[t] # "none" => Outcome(t)
    BY <2>0, <2>1, OutcomeShape DEF CallInv
  <2>3. Ended(LinkOf(t))
    BY <2>0, <1>1 DEF ResultInv
  <2> QED BY <2>2, <2>3, <1>1 DEF Outcome
<1>2. ASSUME IndInv, [Next]_vars
      PROVE  [\A t, exit \in program.calls :
                /\ exit.obj = "Session" /\ exit.op = "aexit" /\ result[exit] = "ok"
                /\ t.obj = "Session" /\ LinkOf(t) = LinkOf(exit) /\ result'[t] # result[t]
                => \/ t.op \in {"close", "wait_closed", "aexit", "accept_bi", "accept_uni",
                                "receive_datagram"}
                   \/ result'[t] \notin {"stream", "ok", "None"}]_vars
  BY <1>1, <1>2
<1> QED BY <1>2, Invariance, PTL DEF Spec, NoUseAfterExit
=============================================================================
