----------------------------- MODULE Connections -----------------------------
(***************************************************************************)
(* The connections between one client endpoint and one server endpoint, as *)
(* the code in src/ sees them through quinn and web-transport-quinn        *)
(* (external).  A link is one side of a connection, <<c, s>>: the two      *)
(* sides end at different times and for different reasons.                 *)
(***************************************************************************)
EXTENDS Errors, Naturals

CONSTANT Conn   \* bound: the connections, one for each Client.connect()

Side  == {"client", "server"}
Links == Conn \X Side
Kind  == {"bi", "uni", "datagram"}   \* what a session carries to its peer

VARIABLES
    ep,        \* per side: the endpoint is "absent", "open" or "closed"
    link,      \* per link: "none", "open", "closed" (closing or draining), "drained"
    reason,    \* per link: the error it ended with, or "none"
    closing,   \* the links on which the session's close() was called
    http,      \* per connection: how far the CONNECT request is; at last its status
    inbox      \* per link: the streams and datagrams waiting to be accepted

linkVars == <<link, reason>>
netVars  == <<ep, linkVars, closing, http, inbox>>

ConnectionsInit ==
    /\ ep = [s \in Side |-> "absent"]
    /\ link = [k \in Links |-> "none"]
    /\ reason = [k \in Links |-> "none"]
    /\ closing = {}
    /\ http = [c \in Conn |-> "none"]
    /\ inbox = [k \in Links |-> {}]

Peer(k) == <<k[1], IF k[2] = "client" THEN "server" ELSE "client">>

\* The application ends those of the links L that are open: Endpoint::close,
\* or the last handle of a connection is dropped.
CloseLinks(L) ==
    LET ended == {k \in L : link[k] = "open"} IN
    /\ link' = [k \in Links |-> IF k \in ended THEN "closed" ELSE link[k]]
    /\ reason' = [k \in Links |-> IF k \in ended THEN "LocallyClosed" ELSE reason[k]]

\* One link ends with error e.
EndLink(k, e, state) ==
    /\ link[k] = "open"
    /\ link' = [link EXCEPT ![k] = state]
    /\ reason' = [reason EXCEPT ![k] = e]
    /\ UNCHANGED <<ep, closing, http, inbox>>

\* Endpoint::close: no new connections, and all those that exist end.
EndpointClose(s) ==
    /\ ep' = [ep EXCEPT ![s] = "closed"]
    /\ CloseLinks(Conn \X {s})
    /\ UNCHANGED <<closing, http, inbox>>

\* Endpoint::wait_idle returns: every connection is gone, its draining included.
Idle(s) == \A c \in Conn : link[<<c, s>>] \in {"none", "drained"}

\* Session::close: the closing capsule is queued and the connection is torn down
\* in the background; a session that has ended is left alone.
SessionClose(k) ==
    /\ closing' = IF reason[k] = "none" THEN closing \cup {k} ELSE closing
    /\ UNCHANGED <<ep, linkVars, http, inbox>>

\* Session::closed returns, Session::close_reason is known.
Ended(k) == reason[k] # "none"

-----------------------------------------------------------------------------
(* What happens on its own. *)

\* The handshake succeeds, and the CONNECT request reaches the server.
Establish(c) ==
    /\ link[<<c, "client">>] = "open" /\ link[<<c, "server">>] = "none" /\ ep["server"] = "open"
    /\ link' = [link EXCEPT ![<<c, "server">>] = "open"]
    /\ http' = [http EXCEPT ![c] = "requested"]
    /\ UNCHANGED <<ep, reason, closing, inbox>>

\* The client does not accept the server's certificate.
HandshakeFails(c) ==
    /\ link[<<c, "server">>] = "none" /\ ep["server"] = "open"
    /\ EndLink(<<c, "client">>, "TransportError", "closed")

\* A closed server endpoint refuses the connection.
Refuse(c) ==
    /\ link[<<c, "server">>] = "none" /\ ep["server"] = "closed"
    /\ EndLink(<<c, "client">>, "ConnectionClosed", "closed")

\* The second half of Session::close.
Teardown(k) == k \in closing /\ EndLink(k, "LocallyClosed", "closed")

\* A response was sent: a side may have a session, which watches its CONNECT stream.
Answered(c) == http[c] \notin {"none", "requested", "offered"}

\* What a session may end with when its connection breaks off and the session notices
\* before the connection does: it closes the connection itself; or it has read a part
\* of the peer's closing capsule.
BrokenOff(k) ==
    {e \in {"LocallyClosed", "WebTransportOther"} :
        Answered(k[1]) /\ (e = "WebTransportOther" => Peer(k) \in closing)}

\* The peer's capsule, or its CONNECTION_CLOSE, arrives.
PeerCloses(k) ==
    \/ Peer(k) \in closing /\ EndLink(k, "WebTransportClosed", "closed")
    \/ /\ reason[Peer(k)] = "LocallyClosed"
       /\ \E e \in {"ApplicationClosed"} \cup BrokenOff(k) : EndLink(k, e, "closed")

\* Nothing was heard for the idle timeout (possible if one side has set one).
TimeOut(k) ==
    \/ EndLink(k, "TimedOut", "drained")
    \/ Answered(k[1]) /\ EndLink(k, "LocallyClosed", "closed")

\* The draining period of a closed connection is over.
Drain(k) ==
    /\ link[k] = "closed"
    /\ link' = [link EXCEPT ![k] = "drained"]
    /\ UNCHANGED <<ep, reason, closing, http, inbox>>
=============================================================================
