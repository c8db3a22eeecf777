------------------------------- MODULE Client -------------------------------
(***************************************************************************)
(* src/client.rs: the Client object, its connect(), and the certificate    *)
(* verifiers its constructor chooses from.                                 *)
(***************************************************************************)
EXTENDS AsyncCalls, Connections

CONSTANT TrustedRoots   \* the certificates the system's root store vouches for

\* The digest of a certificate: an injective tag, no other byte string equals it.
sha256(cert) == <<"sha256", cert>>

\* ServerFingerprints: some listed hash is the digest of the certificate.
ServerFingerprints(fingerprints, cert) == sha256(cert) \in fingerprints

NoCertificateVerification(cert) == TRUE

\* Faulty variant of verify_server_cert: a list of hashes only adds to the roots.
verify_server_cert_KeepsRoots(args, cert) ==
    \/ args.no_cert_verification
    \/ \E hashes \in args.server_certificate_hashes : ServerFingerprints(hashes, cert)
    \/ cert \in TrustedRoots

\* The verifier the constructor installs.  server_certificate_hashes is an optional
\* set: {} for Python's None, {H} for the hashes H.
verify_server_cert(args, cert) ==
    CASE args.no_cert_verification -> NoCertificateVerification(cert)
      [] ~args.no_cert_verification /\ args.server_certificate_hashes # {} ->
             \E hashes \in args.server_certificate_hashes : ServerFingerprints(hashes, cert)
      [] OTHER -> cert \in TrustedRoots

ValidClient(args) ==
    /\ args.max_idle_timeout # "invalid"
    /\ args.keep_alive_interval # "invalid"
    /\ args.congestion_control \in {"default", "throughput", "low_latency"}

\* The constructor.
ClientNew(t) ==
    /\ MayCall(t, "Client", "new")
    /\ \/ /\ ValidClient(program.client)
          /\ ep' = [ep EXCEPT !["client"] = "open"]
          /\ Finish(t, "ok")
       \/ ~ValidClient(program.client) /\ Finish(t, "ValueError") /\ UNCHANGED ep
    /\ UNCHANGED <<linkVars, closing, http, inbox>>

MayDial(t, op) == MayCall(t, "Client", op) /\ ep["client"] # "absent"

\* close(code, reason), synchronous; t.arg is "big" for a code of 2^62 or more.
ClientClose(t) ==
    /\ MayDial(t, "close")
    /\ \/ t.arg = "big" /\ Finish(t, "ValueError") /\ UNCHANGED netVars
       \/ t.arg # "big" /\ EndpointClose("client") /\ Finish(t, "ok")

\* __aexit__, unlike the server's, closes the endpoint when its future is polled.
ClientExitCall(t) ==
    /\ MayDial(t, "aexit")
    /\ Goto(t, "spawned")
    /\ UNCHANGED netVars

ClientExitClose(t) ==
    /\ At(t, "Client", "aexit", "spawned")
    /\ EndpointClose("client")
    /\ Goto(t, "waiting")

ClientWaitClosed(t) ==
    /\ MayDial(t, "wait_closed")
    /\ Goto(t, "waiting")
    /\ UNCHANGED netVars

\* endpoint.wait_idle().await, in __aexit__ and wait_closed.
ClientWaitIdle(t) ==
    /\ At(t, "Client", t.op, "waiting") /\ t.op \in {"aexit", "wait_closed"}
    /\ Idle("client")
    /\ Finish(t, "ok")
    /\ UNCHANGED netVars

-----------------------------------------------------------------------------
(* connect(url).  Each call has its connection, t.conn. *)

ConnectCall(t) ==
    /\ MayDial(t, "connect")
    /\ \/ t.arg = "bad_url" /\ Finish(t, "ValueError")
       \/ t.arg # "bad_url" /\ Goto(t, "spawned")
    /\ UNCHANGED netVars

\* First poll: a closed endpoint makes no connection.
ConnectStart(t) ==
    /\ At(t, "Client", "connect", "spawned")
    /\ \/ /\ ep["client"] = "closed"
          /\ Finish(t, map_client_error("EndpointStopping"))
          /\ UNCHANGED link
       \/ /\ ep["client"] = "open"
          /\ link' = [link EXCEPT ![<<t.conn, "client">>] = "open"]
          /\ Goto(t, "connecting")
    /\ UNCHANGED <<ep, reason, closing, http, inbox>>

\* The response arrives: status 200 makes a session, any other one is an error
\* with which the connection is dropped.
ConnectAnswered(t) ==
    /\ At(t, "Client", "connect", "connecting")
    /\ \/ http[t.conn] = "200" /\ Finish(t, "session") /\ UNCHANGED linkVars
       \/ /\ http[t.conn] \notin {"none", "requested", "offered", "200"}
          /\ Finish(t, map_client_error("WrongStatus"))
          /\ CloseLinks({<<t.conn, "client">>})
    /\ UNCHANGED <<ep, closing, http, inbox>>

\* The connection ends before the response is read.
ConnectFails(t) ==
    /\ At(t, "Client", "connect", "connecting") /\ Ended(<<t.conn, "client">>)
    /\ Finish(t, map_client_error(reason[<<t.conn, "client">>]))
    /\ UNCHANGED netVars

-----------------------------------------------------------------------------
\* A dropped connect drops its connection.
ClientCancel(t) ==
    /\ t.obj = "Client"
    /\ IF t.op = "connect" THEN CloseLinks({<<t.conn, "client">>}) ELSE UNCHANGED linkVars
    /\ Cancel(t)
    /\ UNCHANGED <<ep, closing, http, inbox>>

ClientTask(t) ==
    \/ ClientExitClose(t) \/ ClientWaitIdle(t)
    \/ ConnectStart(t) \/ ConnectAnswered(t) \/ ConnectFails(t)

ClientPython(t) ==
    \/ ClientNew(t) \/ ClientClose(t) \/ ClientExitCall(t) \/ ClientWaitClosed(t)
    \/ ConnectCall(t) \/ ClientCancel(t)
=============================================================================
