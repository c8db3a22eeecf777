------------------------------- MODULE Errors -------------------------------
(***************************************************************************)
(* src/errors.rs: which Python exception class each Rust error becomes.    *)
(* An error enum that wraps another one (WriteError::SessionError(...),    *)
(* SessionError::ConnectionError(...)) is flattened: the wrapped variant   *)
(* stands for itself, so map_write_error("TimedOut") is the translation of *)
(* WriteError::SessionError(SessionError::ConnectionError(TimedOut)).      *)
(* Codes, reasons and message texts are left out.                          *)
(***************************************************************************)

\* quinn::ConnectionError.
ConnectionErrors == {"TimedOut", "LocallyClosed", "ApplicationClosed",
                     "ConnectionClosed", "Reset", "TransportError",
                     "VersionMismatch", "CidsExhausted"}

\* quinn::SendDatagramError; its ConnectionLost is the connection error itself.
DatagramErrors == {"UnsupportedByPeer", "Disabled", "TooLarge"}

\* web_transport_quinn::SessionError without its datagram variant, which no
\* stream or accept operation produces.
SessionErrors == ConnectionErrors \cup {"WebTransportClosed", "WebTransportOther"}

\* Faulty variant of map_connection_error: every close is blamed on the peer.
map_connection_error_Blames(e) ==
    CASE e = "TimedOut"      -> "SessionTimeout"
      [] e \in {"LocallyClosed", "ApplicationClosed", "ConnectionClosed", "Reset"} ->
             "SessionClosedByPeer"
      [] e \in {"TransportError", "VersionMismatch", "CidsExhausted"} -> "ProtocolError"

map_connection_error(e) ==
    CASE e = "TimedOut"      -> "SessionTimeout"
      [] e = "LocallyClosed" -> "SessionClosedLocally"
      [] e \in {"ApplicationClosed", "ConnectionClosed", "Reset"} -> "SessionClosedByPeer"
      [] e \in {"TransportError", "VersionMismatch", "CidsExhausted"} -> "ProtocolError"

map_send_datagram_error(e) ==
    CASE e \in {"UnsupportedByPeer", "Disabled"} -> "DatagramNotSupportedError"
      [] e = "TooLarge"            -> "DatagramTooLargeError"
      [] e \in ConnectionErrors    -> map_connection_error(e)

map_session_error(e) ==
    CASE e \in ConnectionErrors    -> map_connection_error(e)
      [] e = "WebTransportClosed"  -> "SessionClosedByPeer"
      [] e = "WebTransportOther"   -> "ProtocolError"
      [] e \in DatagramErrors      -> map_send_datagram_error(e)

map_write_error(e) ==
    CASE e = "Stopped"          -> "StreamClosedByPeer"
      [] e = "InvalidStopped"   -> "ProtocolError"
      [] e \in SessionErrors    -> map_session_error(e)
      [] e = "ClosedStream"     -> "StreamClosedLocally"

\* ReadError::Reset, the peer's RESET_STREAM, is "StreamReset" here: the name
\* "Reset" is taken by ConnectionError::Reset.
map_read_error(e) ==
    CASE e = "StreamReset"      -> "StreamClosedByPeer"
      [] e = "InvalidReset"     -> "ProtocolError"
      [] e \in SessionErrors    -> map_session_error(e)
      [] e = "ClosedStream"     -> "StreamClosedLocally"
      [] e = "IllegalOrderedRead" -> "ProtocolError"

map_read_to_end_error(e) ==
    IF e = "TooLong" THEN "StreamTooLongError" ELSE map_read_error(e)

map_read_exact_error(e) ==
    IF e = "FinishedEarly" THEN "StreamIncompleteReadError" ELSE map_read_error(e)

\* Client.connect(): no session exists yet, so every error but the server's status
\* code is a ConnectError.  "WrongStatus" is ProtoError(WrongStatus(Some(status))).
map_client_error(e) == IF e = "WrongStatus" THEN "SessionRejected" ELSE "ConnectError"

\* "RequestError" is any variant of ServerError but Connection.
map_server_error(e) ==
    IF e \in ConnectionErrors THEN map_connection_error(e) ELSE "SessionError"

\* The classes with which an established session reports its end.
SessionExceptions == {"SessionTimeout", "SessionClosedLocally",
                      "SessionClosedByPeer", "ProtocolError"}
=============================================================================
