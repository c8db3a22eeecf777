--------------------------- MODULE MCWebTransport ---------------------------
(* Small programs for TLC: each exercises one group of calls that interact. *)
EXTENDS WebTransport

Call(obj, op, conn, side, arg) ==
    [obj |-> obj, op |-> op, conn |-> conn, side |-> side, arg |-> arg]
server(op)           == Call("Server", op, "-", "server", "-")
client(op)           == Call("Client", op, "-", "client", "-")
connect(c)           == Call("Client", "connect", c, "client", "-")
request(c, op, arg)  == Call("SessionRequest", op, c, "server", arg)
session(s, op)       == Call("Session", op, "c1", s, "-")
datagram(s, arg)     == Call("Session", "send_datagram", "c1", s, arg)

\* Constructor arguments; the server's certificate is trusted by the system.
ServerArgs == [bind |-> "free", private_key |-> "cert", certificate |-> "cert",
               congestion_control |-> "default", max_idle_timeout |-> "none",
               keep_alive_interval |-> "none"]
ClientArgs == [server_certificate_hashes |-> {}, no_cert_verification |-> FALSE,
               congestion_control |-> "low_latency", max_idle_timeout |-> "none",
               keep_alive_interval |-> "none"]
Timed(args)  == [args EXCEPT !.max_idle_timeout = "finite"]
Pinned(cert) == [ClientArgs EXCEPT !.server_certificate_hashes = {{<<"sha256", cert>>}}]

\* The program calls Server(), Client() and calls; it may cancel those of cancels.
Program(calls, cancels, serverArgs, clientArgs) ==
    [calls |-> calls \cup {server("new"), client("new")}, cancels |-> cancels,
     server |-> serverArgs, client |-> clientArgs]

\* One connection with an accepted request, and calls.
InSession(calls, cancels, serverArgs, clientArgs) ==
    Program(calls \cup {connect("c1"), server("accept"), request("c1", "accept", "-")},
            cancels, serverArgs, clientArgs)

\* Two accepting calls, two clients, a close.
AcceptLoop ==
    Program({server("accept"), server("anext"), server("close"), connect("c1"), connect("c2")},
            {server("accept")}, ServerArgs, ClientArgs)

\* A request answered by several calls at once.
Answers ==
    Program({server("accept"), connect("c1"), request("c1", "accept", "-"),
             request("c1", "reject", "404"), request("c1", "reject", "invalid")},
            {connect("c1"), request("c1", "reject", "404"), request("c1", "accept", "-")},
            ServerArgs, Timed(ClientArgs))

\* reject(200) makes a session on the client.
RejectsWith200 ==
    Program({server("anext"), connect("c1"), request("c1", "reject", "200"),
             session("client", "open_uni"), session("client", "close_reason")},
            {}, ServerArgs, ClientArgs)

\* Both sides close while calls of the other are waiting.
Closing ==
    InSession({session("client", "close"), session("server", "aexit"),
               session("client", "accept_bi"), session("server", "wait_closed"),
               session("client", "close_reason"), session("server", "open_uni")},
              {session("client", "accept_bi")}, ServerArgs, ClientArgs)

\* Streams and datagrams.
Streams ==
    InSession({session("client", "open_bi"), session("server", "accept_bi"),
               session("server", "open_uni"), session("client", "accept_uni"),
               session("client", "aexit")},
              {}, Timed(ServerArgs), Pinned("cert"))
Datagrams ==
    InSession({datagram("client", "sent"), datagram("client", "lost"), datagram("client", "TooLarge"),
               datagram("client", "Disabled"), session("server", "receive_datagram"),
               session("client", "aexit")},
              {}, ServerArgs, ClientArgs)

\* Several calls of one kind on a side: the second open_bi waits at the stream limit, and
\* the accepts share one queue.
again(s, op) == Call("Session", op, "c1", s, "again")
Crowded ==
    InSession({session("client", "open_bi"), again("client", "open_bi"),
               session("server", "accept_bi"), again("server", "accept_bi"),
               session("server", "close")},
              {}, ServerArgs, ClientArgs)

\* Both endpoints are closed and left in every order.
Exits ==
    InSession({server("aexit"), client("aexit"), client("wait_closed"), server("wait_closed"),
               session("server", "accept_bi")},
              {client("wait_closed")}, ServerArgs, ClientArgs)
Closes ==
    InSession({client("close"), server("close"), Call("Server", "close", "-", "server", "big"),
               Call("Client", "close", "-", "client", "big"),
               Call("Client", "connect", "c2", "client", "bad_url")},
              {}, ServerArgs, ClientArgs)

\* A client whose timer must end its connect(): the server may never be there.
Alone(calls, serverArgs, clientArgs) ==
    Program({connect("c1"), client("aexit")} \cup calls, {}, serverArgs, clientArgs)

MCPrograms ==
    {AcceptLoop, Answers, RejectsWith200, Closing, Streams, Datagrams, Crowded, Exits, Closes,
     Alone({server("accept")}, ServerArgs, Timed(ClientArgs)),
     Alone({server("accept")}, Timed(ServerArgs),
           [Timed(ClientArgs) EXCEPT !.keep_alive_interval = "finite"]),
     Alone({server("accept")}, ServerArgs, Pinned("other")),
     Alone({server("accept")}, [ServerArgs EXCEPT !.certificate = "fake", !.private_key = "fake"],
           [Pinned("other") EXCEPT !.no_cert_verification = TRUE]),
     Alone({}, [ServerArgs EXCEPT !.bind = "in_use"], ClientArgs),
     Alone({}, [ServerArgs EXCEPT !.private_key = "other"], ClientArgs),
     Alone({}, ServerArgs, [ClientArgs EXCEPT !.congestion_control = "other"])}
=============================================================================
