------------------------------ MODULE AsyncCalls ------------------------------
(***************************************************************************)
(* The Python program that uses the endpoints and the sessions, and the    *)
(* tasks that its calls become.                                            *)
(*                                                                         *)
(* A program is a record: the calls it may make, each at most once and in  *)
(* any order the objects allow; the calls that asyncio may cancel; and the *)
(* arguments of the Server and Client constructors.  A call is a record    *)
(*   [obj, op, conn, side, arg]                                            *)
(* with the class and the method, the connection and the side of it the    *)
(* object belongs to ("-" for the endpoints), and one argument or "-".     *)
(*                                                                         *)
(* A synchronous method is one step.  An asynchronous one is a future      *)
(* handed to tokio by future_into_py (external): it is "spawned", polled   *)
(* by the worker threads, suspended at the labels other than "spawned",    *)
(* and "done" with a result.                                               *)
(***************************************************************************)
EXTENDS Naturals

CONSTANT Programs   \* bound: the programs, one of which is executed

Calls == UNION {p.calls : p \in Programs}

VARIABLES
    program,     \* the program that is executed
    pc, result   \* per call: where it is, what it returned or raised

callVars == <<program, pc, result>>

CallsInit ==
    /\ program \in Programs
    /\ pc = [t \in program.calls |-> "uncalled"]
    /\ result = [t \in program.calls |-> "none"]

\* The program may call method op of class obj, as t.
MayCall(t, obj, op) ==
    /\ pc[t] = "uncalled"
    /\ t.obj = obj /\ t.op = op

At(t, obj, op, label) == t.obj = obj /\ t.op = op /\ pc[t] = label

Goto(t, label) ==
    /\ pc' = [pc EXCEPT ![t] = label]
    /\ UNCHANGED <<program, result>>

\* The call returns, or the future completes, with r.
Finish(t, r) ==
    /\ pc' = [pc EXCEPT ![t] = "done"]
    /\ result' = [result EXCEPT ![t] = r]
    /\ UNCHANGED program

Pending(t) == t \in program.calls /\ pc[t] \notin {"uncalled", "done"}

\* asyncio cancels the caller of a suspended future, which is dropped (external).
Cancel(t) ==
    /\ t \in program.cancels /\ Pending(t) /\ pc[t] # "spawned"
    /\ Finish(t, "CancelledError")
=============================================================================
