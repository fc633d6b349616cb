------------------------------ MODULE TaskPool ------------------------------
(***************************************************************************)
(* What emi_thread_pool_submit and emi_thread_pool_destroy promise their   *)
(* callers (src/include/emi_thread.h), whatever threads there are: a call  *)
(* of submit accepts its task or refuses it with -1; a task is run once at *)
(* most, and only if it was accepted; a pool that is being destroyed has   *)
(* nothing left to run, accepts nothing and runs nothing more.             *)
(***************************************************************************)
EXTENDS Naturals

CONSTANT Tasks

VARIABLES
  answer,    \* what became of each submit
  runs,      \* how often each task was run
  closed     \* whether the pool is destroyed

vars == <<answer, runs, closed>>

Init ==
  /\ answer = [k \in Tasks |-> "none"]
  /\ runs = [k \in Tasks |-> 0]
  /\ closed = FALSE

Answer(k, a) ==
  /\ answer[k] = "none" /\ ~closed
  /\ answer' = [answer EXCEPT ![k] = a]
  /\ UNCHANGED <<runs, closed>>

Accept(k) == Answer(k, "accepted")
Refuse(k) == Answer(k, "refused")

RunTask(k) ==
  /\ answer[k] = "accepted" /\ runs[k] = 0 /\ ~closed
  /\ runs' = [runs EXCEPT ![k] = 1]
  /\ UNCHANGED <<answer, closed>>

Close ==
  /\ ~closed
  /\ \A k \in Tasks : answer[k] = "accepted" => runs[k] = 1
  /\ closed' = TRUE
  /\ UNCHANGED <<answer, runs>>

Next == (\E k \in Tasks : Accept(k) \/ Refuse(k) \/ RunTask(k)) \/ Close

Spec == Init /\ [][Next]_vars
=============================================================================
