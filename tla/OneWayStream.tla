---------------------------- MODULE OneWayStream ----------------------------
(***************************************************************************)
(* What one direction of a QUIC stream promises to the calls that share    *)
(* it: the abstract specification that SendStream and RecvStream           *)
(* implement.  Mutex, token, atomics, polls and flow control are gone;     *)
(* what is left is that calls take turns at the stream, each turn in one   *)
(* piece; that the stream ends once and carries nothing afterwards; that   *)
(* at most one error code is ever sent; and that every call has one        *)
(* outcome, which is StreamClosedLocally only on a stream that has ended.  *)
(***************************************************************************)
EXTENDS Naturals, Sequences, SequencesExt

CONSTANTS
    Caller,     \* the calls
    Amount,     \* how many units one step may move
    Outcomes,   \* what a call may return or raise
    Code, NoCode

VARIABLES
    moved,      \* for each unit that went into (out of) the stream, the call it is from (for)
    ended,      \* the stream was closed by this side, or is at its end
    code,       \* the code of RESET_STREAM or STOP_SENDING
    outcome     \* per call: its outcome, or "none"

vars == <<moved, ended, code, outcome>>

Init ==
    /\ moved = <<>> /\ ended = FALSE /\ code = NoCode
    /\ outcome = [t \in Caller |-> "none"]

\* Call t, and no other, has its outcome.
Answer(t) ==
    /\ outcome[t] = "none"
    /\ \E r \in Outcomes : outcome' = [outcome EXCEPT ![t] = r]
    /\ outcome'[t] = "StreamClosedLocally" => ended'

\* Units move for a call without outcome that begins or continues its turn.
Move(t, n) ==
    /\ ~ended /\ outcome[t] = "none"
    /\ moved # <<>> => Last(moved) = t \/ t \notin ToSet(moved)
    /\ moved' = moved \o [i \in 1..n |-> t]
    /\ UNCHANGED <<ended, code>>
    /\ UNCHANGED outcome \/ Answer(t)

\* The stream ends, or a stream that has ended is also reset.
End ==
    /\ ended' = TRUE
    /\ code' = code \/ (code = NoCode /\ code' \in Code)
    /\ UNCHANGED moved
    /\ UNCHANGED outcome \/ \E t \in Caller : Answer(t)

Next ==
    \/ \E t \in Caller, n \in Amount : Move(t, n)
    \/ End
    \/ \E t \in Caller : Answer(t) /\ UNCHANGED <<moved, ended, code>>

Spec == Init /\ [][Next]_vars
=============================================================================
