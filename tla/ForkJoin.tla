------------------------------ MODULE ForkJoin ------------------------------
(***************************************************************************)
(* What LAUNCH and AWAIT promise to a Logo program, without a scheduler:   *)
(* tasks fork tasks, each runs the procedure its LAUNCH named, and a task  *)
(* that awaits goes on only when every other task has finished.  There is  *)
(* no order between active tasks, no turn and no turtle.  Agents.tla shows *)
(* that agent.c's round-robin scheduler implements this module.            *)
(***************************************************************************)
EXTENDS Naturals

CONSTANTS
  Capacity,   \* how many tasks a run can ever have
  Procs,      \* the procedures a LAUNCH can name
  Main,       \* what the first task runs
  NoProc      \* the code of a task that does not exist

Tasks == 0 .. Capacity - 1

VARIABLES
  count,      \* tasks 0 .. count-1 exist
  status,     \* of each task
  code        \* the procedure each task runs

fjVars == <<count, status, code>>

Statuses == {"none", "active", "joining", "done"}

FJInit ==
  /\ count = 1
  /\ status = [t \in Tasks |-> IF t = 0 THEN "active" ELSE "none"]
  /\ code = [t \in Tasks |-> IF t = 0 THEN Main ELSE NoProc]

\* An active task starts another one running p; it stays active itself.
Fork(t, p) ==
  /\ status[t] = "active"
  /\ count < Capacity
  /\ status' = [status EXCEPT ![count] = "active"]
  /\ code' = [code EXCEPT ![count] = p]
  /\ count' = count + 1

Finish(t) ==
  /\ status[t] = "active"
  /\ status' = [status EXCEPT ![t] = "done"]
  /\ UNCHANGED <<count, code>>

Await(t) ==
  /\ status[t] = "active"
  /\ status' = [status EXCEPT ![t] = "joining"]
  /\ UNCHANGED <<count, code>>

\* The join: everybody else has finished.
Join(t) ==
  /\ status[t] = "joining"
  /\ \A u \in Tasks \ {t} : status[u] \in {"none", "done"}
  /\ status' = [status EXCEPT ![t] = "active"]
  /\ UNCHANGED <<count, code>>

FJNext ==
  \E t \in Tasks :
    \/ \E p \in Procs : Fork(t, p)
    \/ Finish(t)
    \/ Await(t)
    \/ Join(t)

FJSpec == FJInit /\ [][FJNext]_fjVars
=============================================================================
