------------------------ MODULE RecvStreamRefinement ------------------------
(***************************************************************************)
(* RecvStream implements OneWayStream: every behaviour of the code, seen   *)
(* through taken, recv_state, sent_code and result, is one of the abstract *)
(* stream.                                                                 *)
(***************************************************************************)
EXTENDS RecvStreamProofs

\* A call that ends answers, once.
LEMMA AnswerShape ==
    ASSUME IndInv, IndInv', NEW t \in Task, pc[t] # "done", NEW r \in Results, Complete(t, r)
    PROVE  Abstract!Answer(t)
<1>1. result[t] = "none"
  BY DEF IndInv, CallInv
<1>2. result' = [result EXCEPT ![t] = r]
  BY DEF Complete
<1>3. result'[t] = "StreamClosedLocally" => recv_state' # "open"
  BY DEF IndInv, ExceptionsAreTrue
<1> QED BY <1>1, <1>2, <1>3 DEF Abstract!Answer

\* STOP_SENDING ends the stream, with the only code it ever sends.
LEMMA StopShape ==
    ASSUME IndInv, NEW code \in Code, quic_stop(code), UNCHANGED taken
    PROVE  \/ UNCHANGED <<recv_state, sent_code>>
           \/ /\ (recv_state' # "open") = TRUE
              /\ sent_code = NoCode /\ sent_code' \in Code
BY DEF quic_stop, IndInv, EndInv

\* The steps of the code are steps of the abstract stream, or invisible.
LEMMA RefinesStep ==
    ASSUME IndInv, IndInv', [Next]_vars
    PROVE  [Abstract!Next]_(Abstract!vars)
<1> DEFINE Hidden == UNCHANGED <<taken, recv_state, sent_code, result>>
<1>0. TypeOK /\ LockInv /\ CallInv /\ TokenInv /\ EndInv /\ GotInv /\ TakenInv
  BY DEF IndInv
<1>1. Hidden => UNCHANGED Abstract!vars
  BY DEF Abstract!vars
<1>2. ASSUME NEW t \in Task, Move(t), Moved(t) PROVE Hidden
  BY <1>2 DEF Moved, dataVars
<1>3. ASSUME NEW t \in Task, Ran(t) PROVE Hidden \/ Abstract!Next
  <2>0. pc[t] = "running" /\ sent_code' = sent_code
    BY <1>0, <1>3 DEF Ran
  <2>1. CASE Block(t)
    BY <2>0, <2>1 DEF Block
  <2>2. CASE Returned(t)
    <3>1. PICK r \in Results : Complete(t, r) /\ UNCHANGED <<taken, recv_state>>
      BY <2>2 DEF Returned, Return
    <3>2. Abstract!Answer(t)
      BY <2>0, <3>1, AnswerShape
    <3> QED BY <2>0, <3>1, <3>2 DEF Abstract!Next
  <2>3. CASE Ended(t)
    <3>1. PICK r \in Results : /\ Complete(t, r) /\ taken' = taken
                               /\ recv_state' = "drained"
      BY <2>3 DEF Ended, ReturnAtEnd, Results
    <3>2. Abstract!Answer(t)
      BY <2>0, <3>1, AnswerShape
    <3>3. Abstract!End
      BY <2>0, <3>1, <3>2 DEF Abstract!End
    <3> QED BY <3>3 DEF Abstract!Next
  <2>4. ASSUME NEW n \in 1..Buffered, Took(t, n) PROVE Abstract!Next
    <3>1. recv_state = "open" /\ recv_state' = recv_state /\ result[t] = "none"
      BY <1>0, <2>0, <2>4 DEF Took, CallInv
    <3>2. n \in 1..Units
      <4>1. /\ Buffered \in Nat /\ arrived \in 0..Units /\ Len(taken) \in Nat
            /\ Len(taken) <= arrived /\ Units \in Nat
        BY <1>0, BufferType, RecvConstants DEF TypeOK
      <4> QED BY <4>1 DEF Buffered
    <3>3. taken # <<>> => Last(taken) = t \/ t \notin ToSet(taken)
      BY <1>0, <2>0 DEF TakenInv, Last, ToSet
    <3>4. taken' = taken \o [i \in 1..n |-> t]
      BY <2>4 DEF Took, Take
    <3>5. result' = result \/ Abstract!Answer(t)
      <4>1. CASE \E r \in Results : Complete(t, r)
        BY <2>0, <4>1, AnswerShape
      <4>2. CASE UNCHANGED <<taskVars, lockq>>
        BY <4>2 DEF taskVars
      <4> QED BY <2>4, <4>1, <4>2 DEF Took, Results
    <3>6. Abstract!Move(t, n)
      BY <2>0, <3>1, <3>3, <3>4, <3>5 DEF Abstract!Move, Abstract!Last, Abstract!ToSet, Last, ToSet
    <3> QED BY <3>2, <3>6 DEF Abstract!Next
  <2> QED BY <1>3, <2>1, <2>2, <2>3, <2>4 DEF Ran
<1>4. ASSUME NEW t \in Task, Left(t) PROVE Abstract!Next
  <2>1. taken' = taken /\ pc[t] # "done"
    BY <1>0, <1>4, LeftShape
  <2>2. PICK r \in Results : Complete(t, r)
    BY <1>0, <1>4, LeftShape DEF Results
  <2>3. Abstract!Answer(t)
    BY <2>1, <2>2, AnswerShape
  <2>4. CASE UNCHANGED <<recv_state, sent_code>>
    BY <2>1, <2>3, <2>4 DEF Abstract!Next
  <2>5. CASE /\ (recv_state' # "open") = TRUE
             /\ sent_code = NoCode /\ sent_code' \in Code
    <3>1. Abstract!End
      BY <2>1, <2>3, <2>5 DEF Abstract!End
    <3> QED BY <3>1 DEF Abstract!Next
  <2>6. UNCHANGED <<recv_state, sent_code>> \/ quic_stop(stop_code) \/ quic_stop(0)
    BY <1>0, <1>4, LeftShape
  <2>7. stop_code \in Code /\ 0 \in Code
    BY <1>0, RecvConstants DEF TypeOK
  <2> QED BY <2>1, <2>4, <2>5, <2>6, <2>7, StopShape
<1>5. ASSUME NEW k \in Kinds, Call(k) PROVE Hidden
  BY <1>5 DEF Call, dataVars
<1>6. ASSUME Outside PROVE Hidden \/ Abstract!Next
  <2>1. taken' = taken /\ result' = result
    BY <1>6, OutsideShape
  <2>2. UNCHANGED <<recv_state, sent_code>> \/ (py_pc = "stop_try" /\ quic_stop(stop_arg))
    BY <1>6 DEF Outside, PyStop, PyStep, PyStopStore, PyStopCancel, PyStopTry, Peer,
       PeerData, PeerFinish, PeerReset, SessionLost, vars
  <2>3. CASE py_pc = "stop_try" /\ quic_stop(stop_arg)
    <3>1. stop_arg \in Code
      BY <1>0, <2>3 DEF TypeOK, TokenInv
    <3>2. CASE /\ (recv_state' # "open") = TRUE
               /\ sent_code = NoCode /\ sent_code' \in Code
      <4>1. Abstract!End
        BY <2>1, <3>2 DEF Abstract!End
      <4> QED BY <4>1 DEF Abstract!Next
    <3> QED BY <2>1, <2>3, <3>1, <3>2, StopShape
  <2> QED BY <2>1, <2>2, <2>3
<1>7. Hidden \/ Abstract!Next
  BY <1>0, <1>2, <1>3, <1>4, <1>5, <1>6, StepCases
<1> HIDE DEF Hidden
<1> QED BY <1>1, <1>7

\* recv_stream.rs implements the one-way stream, for every number of calls and all
\* constants: behind the mutex, the token and the polls, reads take turns, nothing is
\* read after the end, at most one code is sent, and every call has one outcome.
THEOREM Refinement == Spec => ImplementsStream
<1>1. Init => Abstract!Init
  BY DEF Init, Abstract!Init
<1> QED BY <1>1, RefinesStep, Invariance, PTL DEF Spec, ImplementsStream, Abstract!Spec
=============================================================================
