------------------------ MODULE SendStreamRefinement ------------------------
(***************************************************************************)
(* Every call's data is in the stream exactly once, and SendStream         *)
(* implements OneWayStream: every behaviour of the code, seen through      *)
(* wire, send_state, sent_code and result, is one of the abstract stream.  *)
(***************************************************************************)
EXTENDS SendStreamProofs, FiniteSetTheorems

\* Where the units of call t are in a stream w.
Places(w, t) == {i \in DOMAIN w : w[i] = t}

\* v is the stream w with n units of t at its end.
Extended(v, w, t, n) ==
    /\ Len(v) = Len(w) + n
    /\ \A i \in 1..Len(v) : v[i] = IF i <= Len(w) THEN w[i] ELSE t

\* n units of t at the end of a stream add n to t's units and nothing to others'.
LEMMA CountLemma ==
    ASSUME NEW S, NEW w \in Seq(S), NEW t \in S, NEW n \in Nat,
           NEW v \in Seq(S), Extended(v, w, t, n)
    PROVE  /\ Cardinality(Places(v, t)) = Cardinality(Places(w, t)) + n
           /\ Cardinality(Places(w, t)) \in Nat
           /\ \A u \in S \ {t} : Places(v, u) = Places(w, u)
<1> DEFINE m == Len(w)
<1>0. m \in Nat /\ DOMAIN w = 1..m
  OBVIOUS
<1>1. DOMAIN v = 1..(m + n)
  BY DEF Extended
<1>2. \A i \in 1..(m + n) : v[i] = IF i <= m THEN w[i] ELSE t
  BY DEF Extended
<1> HIDE DEF m
<1>3. Places(v, t) = Places(w, t) \cup ((m + 1)..(m + n))
  <2>1. ASSUME NEW i \in Places(v, t) PROVE i \in Places(w, t) \cup ((m + 1)..(m + n))
    <3>1. i \in 1..(m + n) /\ v[i] = t
      BY <1>1 DEF Places
    <3>2. CASE i <= m
      BY <1>0, <1>2, <3>1, <3>2 DEF Places
    <3>3. CASE ~(i <= m)
      BY <1>0, <3>1, <3>3
    <3> QED BY <3>2, <3>3
  <2>2. ASSUME NEW i \in Places(w, t) PROVE i \in Places(v, t)
    BY <1>0, <1>1, <1>2 DEF Places
  <2>3. ASSUME NEW i \in (m + 1)..(m + n) PROVE i \in Places(v, t)
    <3>1. i \in 1..(m + n) /\ ~(i <= m)
      BY <1>0
    <3> QED BY <1>1, <1>2, <3>1 DEF Places
  <2> QED BY <2>1, <2>2, <2>3
<1>4. Places(w, t) \cap ((m + 1)..(m + n)) = {}
  BY <1>0 DEF Places
<1>5. IsFiniteSet(Places(w, t)) /\ Cardinality(Places(w, t)) \in Nat
  <2>1. IsFiniteSet(1..m)
    BY <1>0, FS_Interval
  <2>2. Places(w, t) \in SUBSET (1..m)
    BY <1>0 DEF Places
  <2>3. IsFiniteSet(Places(w, t))
    BY <2>1, <2>2, FS_Subset
  <2> QED BY <2>3, FS_CardinalityType
<1>6. IsFiniteSet((m + 1)..(m + n)) /\ Cardinality((m + 1)..(m + n)) = n
  <2>1. m + 1 \in Int /\ m + n \in Int
    BY <1>0
  <2>2. /\ IsFiniteSet((m + 1)..(m + n))
        /\ Cardinality((m + 1)..(m + n)) = IF m + 1 > m + n THEN 0 ELSE (m + n) - (m + 1) + 1
    BY <2>1, FS_Interval
  <2> QED BY <1>0, <2>2
<1>7. Cardinality(Places(v, t)) = Cardinality(Places(w, t)) + n
  <2>1. Cardinality(Places(v, t)) = Cardinality(Places(w, t)) + Cardinality((m + 1)..(m + n))
                                    - Cardinality({})
    BY <1>3, <1>4, <1>5, <1>6, FS_Union, ZenonT(30)
  <2> QED BY <1>5, <1>6, <2>1, FS_EmptySet
<1>8. ASSUME NEW u \in S \ {t} PROVE Places(v, u) = Places(w, u)
  BY <1>0, <1>1, <1>2 DEF Places
<1> QED BY <1>5, <1>7, <1>8

-----------------------------------------------------------------------------
(* Every step, as far as the stream and the outcomes of calls are concerned. *)

\* What a step may do to the stream without moving data.
StreamStep ==
    \/ UNCHANGED <<send_state, sent_code>>
    \/ \E code \in Code : quic_reset(code)
    \/ quic_finish /\ UNCHANGED sent_code
    \/ send_state # "ready" /\ send_state' = "closed" /\ UNCHANGED sent_code

\* No call ends and no data moves.
Quiet ==
    /\ UNCHANGED <<kind, result, left, wire>> /\ StreamStep
    /\ \A t \in Task :
           /\ pc'[t] = "done" <=> pc[t] = "done"
           /\ pc'[t] \in Exiting => pc[t] \in Exiting \/ kind[t] \in {"aexit_ok", "aexit_exc"}

\* A call ends without handing over data; it is no successful write.
Ends(t) ==
    \E r \in Results :
        /\ pc[t] # "done" /\ Complete(t, r) /\ UNCHANGED <<left, wire>> /\ StreamStep
        /\ r = "ok" => kind[t] \notin {"write", "write_some"}

\* A write hands over units, and goes on or returns.
Hands(t) ==
    /\ pc[t] = "running" /\ send_state = "ready" /\ credit > 0 /\ AcceptUnits(t)
    /\ UNCHANGED <<kind, send_state, sent_code>>
    /\ \/ kind[t] = "write" /\ Accepted(t) = left[t] /\ Complete(t, "ok")
       \/ kind[t] = "write" /\ Accepted(t) # left[t] /\ UNCHANGED <<pc, result>>
       \/ kind[t] = "write_some" /\ Complete(t, "ok")

\* A task that goes on from its place.
LEMMA GoesOn ==
    ASSUME TypeOK, NEW t \in Task, NEW l \in Labels \ {"done"}, Goto(t, l), pc[t] # "done",
           l \in Exiting => pc[t] \in Exiting \/ kind[t] \in {"aexit_ok", "aexit_exc"},
           UNCHANGED <<kind, result, left, wire, send_state, sent_code>>
    PROVE  Quiet
BY DEF Goto, TypeOK, Quiet, StreamStep

LEMMA WriteKinds ==
    ASSUME TypeOK, NEW t \in Task, RunWrite(t) \/ RunWriteSome(t)
    PROVE  Quiet \/ Ends(t) \/ Hands(t)
<1>1. CASE write_error # "none" /\ Complete(t, map_write_error(write_error))
           /\ UNCHANGED <<left, quicVars>>
  <2>1. map_write_error(write_error) \in Results
    BY <1>1, WriteErrorType
  <2>2. map_write_error(write_error) # "ok"
    BY <1>1, SendConstants DEF TypeOK, write_error, map_write_error, map_session_error,
       map_connection_error, map_send_datagram_error, SessionErrors, ConnectionErrors,
       DatagramErrors
  <2>3. pc[t] # "done"
    BY DEF RunWrite, RunWriteSome
  <2> QED BY <1>1, <2>1, <2>2, <2>3 DEF Ends, StreamStep, quicVars
<1>2. CASE Block(t)
  BY <1>2, GoesOn DEF RunWrite, RunWriteSome, Block, quicVars, Labels, HoldsLock, Exiting
<1>3. CASE /\ write_error = "none" /\ credit > 0 /\ AcceptUnits(t)
           /\ \/ kind[t] = "write" /\ Accepted(t) = left[t] /\ Complete(t, "ok")
              \/ /\ kind[t] = "write" /\ Accepted(t) # left[t]
                 /\ UNCHANGED <<calls, kind, pc, result, lockq>>
              \/ kind[t] = "write_some" /\ Complete(t, "ok")
           /\ UNCHANGED <<send_state, sent_code, stopped, lost, send_priority>>
  <2>1. send_state = "ready"
    BY <1>3, SendConstants DEF write_error, TypeOK, SessionErrors, ConnectionErrors
  <2> QED BY <1>3, <2>1 DEF RunWrite, RunWriteSome, Hands, Complete
<1> QED BY <1>1, <1>2, <1>3 DEF RunWrite, RunWriteSome

LEMMA StepKinds ==
    ASSUME IndInv, WrittenInv, [Next]_vars
    PROVE  \/ Quiet
           \/ \E t \in Task : Ends(t)
           \/ \E t \in Task : Hands(t)
           \/ \E k \in Kinds : Call(k)
<1>0. TypeOK /\ CallInv /\ TokenInv
  BY DEF IndInv
<1> USE DEF Labels, AwaitsLock, HoldsLock, Exiting, atomics, pyVars, quicVars
<1>1. ASSUME NEW t \in Task,
             \/ PollCancelled(t) \/ PollStart(t) \/ Lock(t) \/ LockGranted(t) \/ SyncPriority(t)
             \/ Resume(t) \/ Relock(t) \/ ExitStore(t) \/ ExitCancel(t) \/ ExitLock(t)
      PROVE  Quiet
  <2>1. UNCHANGED <<kind, result, left, wire, send_state, sent_code>> /\ pc[t] # "done"
    BY <1>1 DEF PollCancelled, PollStart, Lock, LockGranted, SyncPriority, Resume, Relock,
       ExitStore, ExitCancel, ExitLock
  <2>2. CASE \E l \in {"interrupted", "locking", "locked", "queued", "running", "resetting",
                       "reset_queued"} : Goto(t, l)
    BY <1>0, <2>1, <2>2, GoesOn
  <2>3. CASE /\ \E l \in Exiting : Goto(t, l)
             /\ pc[t] \in Exiting \/ kind[t] \in {"aexit_ok", "aexit_exc"}
    BY <1>0, <2>1, <2>3, GoesOn
  <2> QED BY <1>1, <2>2, <2>3 DEF PollCancelled, PollStart, Lock, LockGranted, SyncPriority,
          Resume, Relock, ExitStore, ExitCancel, ExitLock
<1>2. ASSUME NEW t \in Task, RunFinish(t) PROVE Ends(t)
  BY <1>2 DEF RunFinish, Ends, StreamStep, Results
<1>3. ASSUME NEW t \in Task, RunWaitClosed(t) PROVE Quiet \/ Ends(t)
  <2>1. CASE Block(t)
    BY <1>0, <1>3, <2>1, GoesOn DEF RunWaitClosed, Block
  <2>2. ASSUME NEW r \in Results, Complete(t, r), UNCHANGED <<left, quicVars>> PROVE Ends(t)
    BY <1>3, <2>2 DEF RunWaitClosed, Ends, StreamStep
  <2>3. "ok" \in Results /\ (lost # "none" => map_session_error(lost) \in Results)
    BY <1>0, SessionErrorType DEF Results
  <2> QED BY <1>3, <2>1, <2>2, <2>3 DEF RunWaitClosed
<1>4. ASSUME NEW t \in Task, ResetInterrupted(t) PROVE Ends(t)
  BY <1>0, <1>4 DEF ResetInterrupted, Ends, StreamStep, Results, TypeOK
<1>5. ASSUME NEW t \in Task, ExitRun(t) PROVE Ends(t)
  <2>1. kind[t] \notin {"write", "write_some"} /\ pc[t] # "done"
    BY <1>5 DEF ExitRun, WrittenInv
  <2>2. StreamStep
    BY <1>5, SendConstants DEF ExitRun, StreamStep
  <2> QED BY <1>5, <2>1, <2>2 DEF ExitRun, Ends, Results
<1>6. ASSUME NEW t \in Task, DropTask(t) PROVE Ends(t)
  BY <1>6 DEF DropTask, Suspended, Ends, StreamStep, Results
<1>7. ASSUME NEW t \in Task, TaskStep(t) PROVE Quiet \/ Ends(t) \/ Hands(t)
  BY <1>0, <1>1, <1>2, <1>3, <1>4, <1>5, <1>7, WriteKinds DEF TaskStep
<1>8. CASE PyStep
  <2>1. UNCHANGED taskVars /\ wire' = wire
    BY <1>8 DEF PyStep, PyResetStore, PyResetCancel, PyResetTry, PyPriorityTry
  <2>2. StreamStep
    <3>1. CASE PyResetTry
      <4>1. reset_arg \in Code
        BY <1>0, <3>1 DEF PyResetTry, TypeOK, TokenInv
      <4> QED BY <3>1, <4>1 DEF PyResetTry, StreamStep
    <3> QED BY <1>8, <3>1
            DEF PyStep, PyResetStore, PyResetCancel, PyPriorityTry, StreamStep
  <2> QED BY <2>1, <2>2 DEF Quiet, taskVars
<1>9. CASE Peer
  <2>1. UNCHANGED taskVars /\ wire' = wire /\ StreamStep
    BY <1>9 DEF Peer, PeerStop, PeerCredit, PeerAck, SessionLost, StreamStep
  <2> QED BY <2>1 DEF Quiet, taskVars
<1>10. CASE UNCHANGED vars
  BY <1>10 DEF vars, taskVars, Quiet, StreamStep
<1>11. ASSUME NEW code \in Code, PyReset(code) PROVE Quiet
  BY <1>11 DEF PyReset, taskVars, Quiet, StreamStep
<1>12. ASSUME NEW v \in Prio, PySetPriority(v) PROVE Quiet
  BY <1>12 DEF PySetPriority, taskVars, Quiet, StreamStep
<1> QED BY <1>6, <1>7, <1>8, <1>9, <1>10, <1>11, <1>12 DEF Next, Python

-----------------------------------------------------------------------------
(* What each call handed over is in the stream exactly once. *)

\* The stream moves away from "ready", once, and only RESET gives it a code.
LEMMA StreamShape ==
    ASSUME TypeOK, WrittenInv, StreamStep
    PROVE  /\ send_state' \in {"ready", "finished"} => sent_code' = NoCode
           /\ \/ UNCHANGED <<send_state, sent_code>>
              \/ /\ send_state' # "ready"
                 /\ sent_code' = sent_code \/ (sent_code = NoCode /\ sent_code' \in Code)
BY DEF TypeOK, WrittenInv, StreamStep, quic_reset, quic_finish

\* What a write hands over is at least a unit, and no more than it has left.
LEMMA HandsShape ==
    ASSUME TypeOK, WrittenInv, NEW t \in Task, Hands(t)
    PROVE  /\ Accepted(t) \in 1..left[t] /\ left[t] \in 1..Size
           /\ wire' = wire \o [i \in 1..Accepted(t) |-> t]
           /\ left'[t] = left[t] - Accepted(t)
           /\ \A u \in Task \ {t} :
                  left'[u] = left[u] /\ pc'[u] = pc[u] /\ result'[u] = result[u]
           /\ \/ pc'[t] = "done" /\ result'[t] = "ok"
              \/ /\ kind[t] = "write" /\ Accepted(t) # left[t]
                 /\ pc'[t] = pc[t] /\ result'[t] = result[t]
           /\ kind[t] = "write" /\ pc'[t] = "done" => Accepted(t) = left[t]
<1>1. left[t] \in 1..Size /\ credit \in Nat /\ credit > 0
  <2>1. left[t] \in 0..Size /\ credit \in Nat /\ Size \in Nat /\ Size > 0
    BY SendConstants DEF TypeOK
  <2>2. left[t] > 0 /\ credit > 0
    BY <2>1 DEF Hands, WrittenInv
  <2> QED BY <2>1, <2>2
<1>2. Accepted(t) \in 1..left[t]
  BY <1>1 DEF Accepted
<1>3. /\ wire' = wire \o [i \in 1..Accepted(t) |-> t]
      /\ left'[t] = left[t] - Accepted(t)
      /\ \A u \in Task \ {t} : left'[u] = left[u]
  BY DEF Hands, AcceptUnits, TypeOK
<1>4. CASE Complete(t, "ok")
  BY <1>1, <1>2, <1>3, <1>4 DEF Hands, Complete, Goto, TypeOK
<1>5. CASE kind[t] = "write" /\ Accepted(t) # left[t] /\ UNCHANGED <<pc, result>>
  <2>1. pc'[t] = "running"
    BY <1>5 DEF Hands
  <2> QED BY <1>1, <1>2, <1>3, <1>5, <2>1
<1> QED BY <1>4, <1>5 DEF Hands

\* Every step keeps WrittenInv.
LEMMA WrittenStep ==
    ASSUME IndInv, WrittenInv, [Next]_vars
    PROVE  WrittenInv'
<1>0. TypeOK /\ CallInv /\ \A t \in Task : left[t] \in Nat
  BY DEF IndInv, TypeOK
<1>1. CASE Quiet
  BY <1>0, <1>1, StreamShape DEF Quiet, WrittenInv, WriteAllOrRaise
<1>2. ASSUME NEW t \in Task, Ends(t) PROVE WrittenInv'
  <2>1. PICK r \in Results : /\ pc[t] # "done" /\ Complete(t, r) /\ UNCHANGED <<left, wire>>
                             /\ StreamStep
                             /\ r = "ok" => kind[t] \notin {"write", "write_some"}
    BY <1>2 DEF Ends
  <2>2. /\ pc'[t] = "done" /\ result'[t] = r /\ kind' = kind
        /\ \A u \in Task \ {t} : pc'[u] = pc[u] /\ result'[u] = result[u]
    BY <1>0, <2>1 DEF Complete, Goto, TypeOK
  <2> QED BY <1>0, <2>1, <2>2, StreamShape DEF WrittenInv, WriteAllOrRaise, Exiting
<1>3. ASSUME NEW t \in Task, Hands(t) PROVE WrittenInv'
  <2> DEFINE n == Accepted(t)
  <2>1. /\ n \in 1..left[t] /\ left[t] \in 1..Size
        /\ wire' = wire \o [i \in 1..n |-> t]
        /\ left'[t] = left[t] - n
        /\ \A u \in Task \ {t} :
               left'[u] = left[u] /\ pc'[u] = pc[u] /\ result'[u] = result[u]
        /\ \/ pc'[t] = "done" /\ result'[t] = "ok"
           \/ kind[t] = "write" /\ n # left[t] /\ pc'[t] = pc[t] /\ result'[t] = result[t]
        /\ kind[t] = "write" /\ pc'[t] = "done" => n = left[t]
    BY <1>0, <1>3, HandsShape
  <2>2. n \in Nat /\ Size \in Nat /\ wire \in Seq(Task)
    BY <1>0, <2>1, SendConstants DEF TypeOK
  <2> HIDE DEF n
  <2>3. /\ Cardinality(Places(wire', t)) = Cardinality(Places(wire, t)) + n
        /\ Cardinality(Places(wire, t)) \in Nat
        /\ \A u \in Task \ {t} : Places(wire', u) = Places(wire, u)
    <3> DEFINE added == [i \in 1..n |-> t]
    <3>1. added \in Seq(Task) /\ Len(added) = n /\ (\A i \in 1..n : added[i] = t)
          /\ Len(wire) \in Nat
      BY <2>2
    <3>2. wire' = wire \o added
      BY <2>1
    <3> HIDE DEF added
    <3>3. /\ wire' \in Seq(Task) /\ Len(wire') = Len(wire) + n
          /\ \A i \in 1..(Len(wire) + n) :
                 wire'[i] = IF i <= Len(wire) THEN wire[i] ELSE added[i - Len(wire)]
      BY <2>2, <3>2, <3>1, ConcatProperties
    <3>4. ASSUME NEW i \in 1..Len(wire')
          PROVE  wire'[i] = IF i <= Len(wire) THEN wire[i] ELSE t
      <4>1. ~(i <= Len(wire)) => i - Len(wire) \in 1..n
        BY <2>2, <3>1, <3>3
      <4> QED BY <3>1, <3>3, <4>1
    <3>5. Extended(wire', wire, t, n)
      BY <3>3, <3>4 DEF Extended
    <3>6. wire' \in Seq(Task) /\ wire \in Seq(Task) /\ n \in Nat
      BY <2>2, <3>3
    <3> QED BY <3>5, <3>6, CountLemma
  <2>4. \A u \in Task : Cardinality(Places(wire, u)) = Size - left[u]
    BY DEF WrittenInv, WriteAllOrRaise, Places
  <2>5. Cardinality(Places(wire', t)) = Size - left'[t]
    BY <1>0, <2>1, <2>2, <2>3, <2>4
  <2>6. \A u \in Task : Cardinality(Places(wire', u)) = Size - left'[u]
    BY <2>1, <2>3, <2>4, <2>5
  <2>7. /\ UNCHANGED <<kind, send_state, sent_code>> /\ pc[t] = "running"
        /\ result[t] = "none" /\ kind[t] \in {"write", "write_some"}
    BY <1>0, <1>3 DEF Hands, CallInv
  <2>8. ASSUME NEW u \in Task
        PROVE  /\ pc'[u] \in Exiting => kind[u] \in {"aexit_ok", "aexit_exc"}
               /\ kind[u] = "write" /\ pc'[u] # "done" => left'[u] > 0
               /\ kind[u] = "write_some" /\ pc'[u] # "done" => left'[u] = Size
               /\ kind[u] = "write" /\ result'[u] = "ok" => left'[u] = 0
               /\ kind[u] = "write_some" /\ result'[u] = "ok" => left'[u] < Size
    <3>1. CASE u # t
      BY <2>1, <3>1 DEF WrittenInv, WriteAllOrRaise
    <3>2. CASE u = t
      <4>1. left'[t] \in Nat /\ left'[t] < Size /\ (n # left[t] => left'[t] > 0)
            /\ (n = left[t] => left'[t] = 0)
        BY <2>1, <2>2
      <4> QED BY <2>1, <2>7, <3>2, <4>1 DEF Exiting
    <3> QED BY <3>1, <3>2
  <2> QED BY <2>6, <2>7, <2>8 DEF WrittenInv, WriteAllOrRaise, Places
<1>4. ASSUME NEW k \in Kinds, Call(k) PROVE WrittenInv'
  <2>1. PICK c \in Task :
          /\ UNCHANGED <<result, left, wire, send_state, sent_code>>
          /\ result[c] = "none" /\ left[c] = Size /\ pc'[c] = "spawned"
          /\ \A u \in Task \ {c} : pc'[u] = pc[u] /\ kind'[u] = kind[u]
    BY <1>0, <1>4, CallShape DEF quicVars
  <2>2. Size > 0
    BY SendConstants
  <2> QED BY <2>1, <2>2 DEF WrittenInv, WriteAllOrRaise, Exiting
<1> QED BY <1>1, <1>2, <1>3, <1>4, StepKinds

\* Nothing is written when a SendStream is created.
LEMMA WrittenInit == Init => WrittenInv
<1> SUFFICES ASSUME Init PROVE WrittenInv
  OBVIOUS
<1>1. \A t \in Task : {i \in DOMAIN wire : wire[i] = t} = {}
  BY DEF Init
<1>2. \A t \in Task : left[t] = Size /\ kind[t] = "none" /\ pc[t] = "uncalled" /\ Size \in Nat
  BY SendConstants DEF Init
<1> QED BY <1>1, <1>2, FS_EmptySet DEF Init, WrittenInv, WriteAllOrRaise, Exiting

\* The invariant, with what a call has handed over, holds in every reachable state.
THEOREM WrittenInvariance == Spec => [](IndInv /\ WrittenInv)
<1>1. IndInv /\ WrittenInv /\ [Next]_vars => (IndInv /\ WrittenInv)'
  BY StepInv, WrittenStep
<1> QED BY <1>1, InitInv, WrittenInit, PTL DEF Spec

\* write() returns only when QUIC has all its data, write_some() when it has some, and
\* what a call handed over is in the stream exactly once, for every size and window.
THEOREM WritesCounted == Spec => []WriteAllOrRaise
<1>1. IndInv /\ WrittenInv => WriteAllOrRaise
  BY DEF WrittenInv
<1> QED BY <1>1, WrittenInvariance, PTL

-----------------------------------------------------------------------------
(* The refinement. *)

\* A call that ends answers, once.
LEMMA AnswerShape ==
    ASSUME IndInv, IndInv', NEW t \in Task, pc[t] # "done", NEW r \in Results, Complete(t, r)
    PROVE  Abstract!Answer(t)
<1>1. result[t] = "none"
  BY DEF IndInv, CallInv
<1>2. result' = [result EXCEPT ![t] = r]
  BY DEF Complete
<1>3. result'[t] = "StreamClosedLocally" => send_state' # "ready"
  BY DEF IndInv, ExceptionsAreTrue
<1> QED BY <1>1, <1>2, <1>3 DEF Abstract!Answer

\* The steps of the code are steps of the abstract stream, or invisible.
LEMMA RefinesStep ==
    ASSUME IndInv, WrittenInv, IndInv', [Next]_vars
    PROVE  [Abstract!Next]_(Abstract!vars)
<1> DEFINE Hidden == UNCHANGED <<wire, send_state, sent_code, result>>
<1>0. TypeOK /\ CallInv /\ WireInv
  BY DEF IndInv
<1>1. Hidden => UNCHANGED Abstract!vars
  BY DEF Abstract!vars
<1>2. ASSUME UNCHANGED wire, StreamStep, UNCHANGED result \/ \E t \in Task : Abstract!Answer(t)
      PROVE  UNCHANGED <<send_state, sent_code>> \/ Abstract!Next
  <2>1. CASE /\ send_state' # "ready"
             /\ sent_code' = sent_code \/ (sent_code = NoCode /\ sent_code' \in Code)
    <3>1. Abstract!End
      BY <1>2, <2>1 DEF Abstract!End
    <3> QED BY <3>1 DEF Abstract!Next
  <2> QED BY <1>0, <1>2, <2>1, StreamShape
<1>3. ASSUME Quiet PROVE Hidden \/ Abstract!Next
  BY <1>2, <1>3 DEF Quiet
<1>4. ASSUME NEW t \in Task, Ends(t) PROVE Abstract!Next
  <2>1. Abstract!Answer(t) /\ UNCHANGED wire /\ StreamStep
    BY <1>4, AnswerShape DEF Ends
  <2>2. CASE UNCHANGED <<send_state, sent_code>>
    BY <2>1, <2>2 DEF Abstract!Next
  <2> QED BY <1>2, <2>1, <2>2
<1>5. ASSUME NEW t \in Task, Hands(t) PROVE Abstract!Next
  <2> DEFINE n == Accepted(t)
  <2>1. n \in 1..left[t] /\ left[t] \in 1..Size /\ wire' = wire \o [i \in 1..n |-> t]
    BY <1>0, <1>5, HandsShape
  <2>2. n \in 1..Size
    BY <2>1, SendConstants
  <2>3. /\ pc[t] = "running" /\ send_state = "ready" /\ UNCHANGED <<send_state, sent_code>>
        /\ result[t] = "none"
    BY <1>0, <1>5 DEF Hands, CallInv
  <2>4. wire # <<>> => Last(wire) = t \/ t \notin ToSet(wire)
    BY <1>0, <2>3 DEF WireInv, Last, ToSet
  <2>5. result' = result \/ Abstract!Answer(t)
    <3>1. CASE Complete(t, "ok")
      BY <2>3, <3>1, AnswerShape DEF Results
    <3> QED BY <1>5, <3>1 DEF Hands
  <2> HIDE DEF n
  <2>6. Abstract!Move(t, n)
    BY <2>1, <2>3, <2>4, <2>5 DEF Abstract!Move, Abstract!Last, Abstract!ToSet, Last, ToSet
  <2> QED BY <2>2, <2>6 DEF Abstract!Next
<1>6. ASSUME NEW k \in Kinds, Call(k) PROVE Hidden
  BY <1>6 DEF Call, quicVars
<1>7. Hidden \/ Abstract!Next
  BY <1>3, <1>4, <1>5, <1>6, StepKinds
<1> HIDE DEF Hidden
<1> QED BY <1>1, <1>7

\* send_stream.rs implements the one-way stream, for every number of calls and all
\* constants: behind the mutex, the token and the polls, writes take turns, nothing
\* follows FIN or RESET, at most one code is sent, and every call has one outcome.
THEOREM Refinement == Spec => ImplementsStream
<1>1. Init => Abstract!Init
  BY DEF Init, Abstract!Init
<1>2. IndInv /\ WrittenInv /\ (IndInv /\ WrittenInv)' /\ [Next]_vars
      => [Abstract!Next]_(Abstract!vars)
  BY RefinesStep
<1> QED BY <1>1, <1>2, WrittenInvariance, PTL DEF Spec, ImplementsStream, Abstract!Spec
=============================================================================
