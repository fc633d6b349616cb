----------------------------- MODULE ThreadPool -----------------------------
(***************************************************************************)
(* The thread pool of emilib (src/src/emi_thread.c): emi_core runs one     *)
(* emi_receive_operation per connection on it, a receiver process one      *)
(* __func_sterotype per message.                                           *)
(*                                                                         *)
(* The list of the pool keeps idle threads at its head.  A submit looks at *)
(* the head only: if that thread is IDLE the task is left in its func and  *)
(* args and the thread is signalled, else a detached thread is created.    *)
(* pool->spinlock guards the list; thread->lock guards func only on the    *)
(* side of the thread, for a submit never takes it.                        *)
(*                                                                         *)
(* All tasks run the same function, so a thread is given a task by its     *)
(* args, and func is only NULL or not.                                     *)
(***************************************************************************)
EXTENDS Integers, Sequences, SequencesExt

CONSTANTS
  Threads,   \* the threads of the pool
  Tasks,     \* the arguments submitted, each by a caller of its own
  Handlers,  \* those submitted by signal handlers (func_sterotype)
  Races,     \* which of the races below may happen
  None       \* no thread, no task

(***************************************************************************)
(* The races of the code:                                                  *)
(*   "lostSignal"    a submit gives a thread its task between the test of  *)
(*                   thread->func and the wait (emi_thread.c:19-20);       *)
(*   "staleArgs"     a thread reads its func between the two stores of a   *)
(*                   submit (emi_thread.c:163-164);                        *)
(*   "earlyDestroy"  the pool is destroyed while a thread has not reached  *)
(*                   its first wait or is not back in the list, which is   *)
(*                   what a failing emi_thread_pool_init does (146);       *)
(*   "heldLock"      the signal whose handler submits interrupts a thread  *)
(*                   that holds pool->spinlock (emi_ifr.c:56).             *)
(***************************************************************************)

ASSUME ThreadsAssumption == IsFiniteSet(Threads) /\ Threads # {}
ASSUME RacesAssumption == Races \subseteq {"lostSignal", "staleArgs", "earlyDestroy", "heldLock"}
ASSUME HandlersAssumption == Handlers \subseteq Tasks
ASSUME NamesAssumption ==
  /\ Threads \cap Tasks = {}
  /\ None \notin Threads \cup Tasks \cup {"destroy"}
  /\ "destroy" \notin Threads \cup Tasks

VARIABLES
  list,      \* pool->head, first entry first
  spin,      \* who holds pool->spinlock: a thread, a task's caller, "destroy"
  status,    \* thread->status
  func,      \* thread->func # NULL
  args,      \* thread->args
  lock,      \* whether thread->lock is held (by the thread itself)
  pc,        \* where each thread is in thread_func
  sub,       \* where each call of emi_thread_pool_submit is
  host,      \* the thread whose signal handler calls submit, if any
  target,    \* the thread a submit gave its task to
  dpc,       \* where the owner is: emi_thread_pool_init, _destroy, or neither
  doomed,    \* the thread it is joining
  ran        \* history: how often each task was run

threadVars == <<status, func, args, lock, pc>>
submitVars == <<sub, host, target>>
destroyVars == <<dpc, doomed>>
vars == <<list, spin, threadVars, submitVars, destroyVars, ran>>

\* A thread is at "none" before it is created.
Labels == {"none", "start", "check", "sleep", "waiting", "woken", "run", "clear",
           "idle", "relist", "move", "out", "exited"}
Created == {t \in Threads : pc[t] # "none"}

\* The control points of a submit; "rejected" is a return of -1.
SubmitLabels == {"new", "called", "locked", "args", "signal", "spawn", "detached", "done",
                 "rejected"}

\* list_add, list_move and list_move_tail.
Place(s, t) == CHOOSE i \in 1 .. Len(s) : s[i] = t
AddToHead(s, t) == <<t>> \o s
MoveToHead(s, t) == <<t>> \o RemoveAt(s, Place(s, t))
MoveToTail(s, t) == Append(RemoveAt(s, Place(s, t)), t)

\* The call of emi_thread_pool_init.
Init ==
  /\ list = <<>> /\ spin = None
  /\ status = [t \in Threads |-> "none"]
  /\ func = [t \in Threads |-> FALSE]
  /\ args = [t \in Threads |-> None]
  /\ lock = [t \in Threads |-> FALSE]
  /\ pc = [t \in Threads |-> "none"]
  /\ sub = [k \in Tasks |-> "new"]
  /\ host = [k \in Tasks |-> None] /\ target = [k \in Tasks |-> None]
  /\ dpc = "init" /\ doomed = None
  /\ ran = [k \in Tasks |-> 0]

Goto(t, l) == pc' = [pc EXCEPT ![t] = l]
SubmitGoto(k, l) == sub' = [sub EXCEPT ![k] = l]
Run(k) == ran' = [ran EXCEPT ![k] = @ + 1]

\* A thread that runs the signal handler does nothing else until it returns.
Interrupted(t) == \E k \in Tasks : host[k] = t
Return(k, l) == SubmitGoto(k, l) /\ host' = [host EXCEPT ![k] = None]

\* Every thread is in its wait, or "earlyDestroy" is allowed.
Settled ==
  "earlyDestroy" \in Races \/ \A t \in Threads : pc[t] \in {"none", "waiting"}

-----------------------------------------------------------------------------
(* emi_thread_pool_init.                                                   *)

\* Which of the threads is created next makes no difference.
NewThread == CHOOSE t \in Threads : pc[t] = "none"

\* Mutant: emi_thread_init leaves the status what malloc returned.
CreateNoStatus(t) ==
  /\ dpc = "init" /\ pc[t] = "none" /\ t = NewThread
  /\ list' = AddToHead(list, t)
  /\ Goto(t, "start")
  /\ UNCHANGED <<spin, status, func, args, lock, submitVars, destroyVars, ran>>

\* emi_thread_create and list_add.
CreateThread(t) ==
  /\ dpc = "init" /\ pc[t] = "none" /\ t = NewThread
  /\ status' = [status EXCEPT ![t] = "IDLE"]
  /\ list' = AddToHead(list, t)
  /\ Goto(t, "start")
  /\ UNCHANGED <<spin, func, args, lock, submitVars, destroyVars, ran>>

InitDone ==
  /\ dpc = "init" /\ Created = Threads
  /\ dpc' = "idle"
  /\ UNCHANGED <<list, spin, threadVars, submitVars, doomed, ran>>

\* A thread cannot be created: destroy those that were.
InitFails ==
  /\ dpc = "init" /\ Created # Threads /\ spin = None
  /\ Settled
  /\ spin' = "destroy"
  /\ dpc' = "next"
  /\ UNCHANGED <<list, threadVars, submitVars, doomed, ran>>

-----------------------------------------------------------------------------
(* thread_func.                                                            *)

\* emi_mutex_lock, the first time and on the way out of emi_cond_wait; a
\* thread told to exit leaves its loop then.
TakeLock(t) ==
  /\ pc[t] \in {"start", "woken"} /\ ~lock[t]
  /\ lock' = [lock EXCEPT ![t] = TRUE]
  /\ Goto(t, IF pc[t] = "woken" /\ status[t] = "EXIT" THEN "out" ELSE "check")
  /\ UNCHANGED <<list, spin, status, func, args, submitVars, destroyVars, ran>>

\* while(thread->func == NULL)
CheckFunc(t) ==
  /\ pc[t] = "check"
  /\ "staleArgs" \in Races \/ ~\E k \in Tasks : sub[k] = "args" /\ target[k] = t
  /\ Goto(t, IF func[t] THEN "run" ELSE "sleep")
  /\ UNCHANGED <<list, spin, status, func, args, lock, submitVars, destroyVars,
                 ran>>

\* emi_cond_wait releases the lock and waits, in one step.
Sleep(t) ==
  /\ pc[t] = "sleep"
  /\ lock' = [lock EXCEPT ![t] = FALSE]
  /\ Goto(t, "waiting")
  /\ UNCHANGED <<list, spin, status, func, args, submitVars, destroyVars, ran>>

\* A wait may end without a signal.
SpuriousWakeup(t) ==
  /\ pc[t] = "waiting"
  /\ Goto(t, "woken")
  /\ UNCHANGED <<list, spin, status, func, args, lock, submitVars, destroyVars,
                 ran>>

RunTask(t) ==
  /\ pc[t] = "run"
  /\ IF args[t] \in Tasks THEN Run(args[t]) ELSE UNCHANGED ran
  /\ Goto(t, "clear")
  /\ UNCHANGED <<list, spin, status, func, args, lock, submitVars, destroyVars>>

\* Mutant: func is not reset.
ClearNothing(t) ==
  /\ pc[t] = "clear"
  /\ Goto(t, "idle")
  /\ UNCHANGED <<list, spin, status, func, args, lock, submitVars, destroyVars, ran>>

ClearFunc(t) ==
  /\ pc[t] = "clear"
  /\ func' = [func EXCEPT ![t] = FALSE]
  /\ Goto(t, "idle")
  /\ UNCHANGED <<list, spin, status, args, lock, submitVars, destroyVars, ran>>

MarkIdle(t) ==
  /\ pc[t] = "idle"
  /\ status' = [status EXCEPT ![t] = "IDLE"]
  /\ Goto(t, "relist")
  /\ UNCHANGED <<list, spin, func, args, lock, submitVars, destroyVars, ran>>

TakeSpin(t) ==
  /\ pc[t] = "relist" /\ spin = None
  /\ spin' = t
  /\ Goto(t, "move")
  /\ UNCHANGED <<list, status, func, args, lock, submitVars, destroyVars, ran>>

\* list_move to the head and emi_spin_unlock.
Relist(t) ==
  /\ pc[t] = "move"
  /\ list' = MoveToHead(list, t)
  /\ spin' = None
  /\ Goto(t, "check")
  /\ UNCHANGED <<status, func, args, lock, submitVars, destroyVars, ran>>

Leave(t) ==
  /\ pc[t] = "out"
  /\ lock' = [lock EXCEPT ![t] = FALSE]
  /\ Goto(t, "exited")
  /\ UNCHANGED <<list, spin, status, func, args, submitVars, destroyVars, ran>>

-----------------------------------------------------------------------------
(* emi_thread_pool_submit.                                                 *)

\* The call: on a thread outside the pool, or from the handler of a signal that
\* interrupts a thread of the pool.  sa_mask is full, so that a handler is not
\* interrupted itself.
Call(k) ==
  /\ sub[k] = "new" /\ dpc = "idle"
  /\ \E t \in Threads \cup {None} :
       /\ t # None =>
            /\ k \in Handlers /\ ~Interrupted(t)
            /\ "heldLock" \in Races \/ pc[t] # "move"
            /\ "lostSignal" \in Races \/ pc[t] # "sleep"
       /\ host' = [host EXCEPT ![k] = t]
  /\ SubmitGoto(k, "called")
  /\ UNCHANGED <<list, spin, threadVars, target, destroyVars, ran>>

SubmitLock(k) ==
  /\ sub[k] = "called" /\ spin = None
  /\ spin' = k
  /\ SubmitGoto(k, "locked")
  /\ UNCHANGED <<list, threadVars, host, target, destroyVars, ran>>

\* Mutant: the status of the head is not tested.
SubmitFuncAnyHead(k) ==
  LET t == Head(list) IN
  /\ sub[k] = "locked"
  /\ status' = [status EXCEPT ![t] = "BUSY"]
  /\ func' = [func EXCEPT ![t] = TRUE]
  /\ target' = [target EXCEPT ![k] = t]
  /\ SubmitGoto(k, "args")
  /\ UNCHANGED <<list, spin, args, lock, pc, host, destroyVars, ran>>

\* The head is IDLE: make it BUSY and set its func.
SubmitFunc(k) ==
  LET t == Head(list) IN
  /\ sub[k] = "locked" /\ status[t] = "IDLE"
  /\ "lostSignal" \in Races \/ pc[t] # "sleep"
  /\ status' = [status EXCEPT ![t] = "BUSY"]
  /\ func' = [func EXCEPT ![t] = TRUE]
  /\ target' = [target EXCEPT ![k] = t]
  /\ SubmitGoto(k, "args")
  /\ UNCHANGED <<list, spin, args, lock, pc, host, destroyVars, ran>>

\* Set its args, move it to the tail and unlock.
SubmitArgs(k) ==
  LET t == target[k] IN
  /\ sub[k] = "args"
  /\ args' = [args EXCEPT ![t] = k]
  /\ list' = MoveToTail(list, t)
  /\ spin' = None
  /\ SubmitGoto(k, "signal")
  /\ UNCHANGED <<status, func, lock, pc, host, target, destroyVars, ran>>

\* Mutant: no signal.
SubmitNoSignal(k) ==
  /\ sub[k] = "signal"
  /\ Return(k, "done")
  /\ UNCHANGED <<list, spin, threadVars, target, destroyVars, ran>>

\* emi_cond_signal, lost on a thread that does not wait.
SubmitSignal(k) ==
  LET t == target[k] IN
  /\ sub[k] = "signal"
  /\ pc' = [pc EXCEPT ![t] = IF @ = "waiting" THEN "woken" ELSE @]
  /\ Return(k, "done")
  /\ UNCHANGED <<list, spin, status, func, args, lock, target, destroyVars, ran>>

\* The head is not IDLE: create a thread for the task.
SubmitSpawn(k) ==
  /\ sub[k] = "locked" /\ status[Head(list)] # "IDLE"
  /\ spin' = None
  /\ SubmitGoto(k, "spawn")
  /\ UNCHANGED <<list, threadVars, host, target, destroyVars, ran>>

\* pthread_create succeeds, or fails and the task is dropped.
SubmitCreate(k) ==
  /\ sub[k] = "spawn"
  /\ \E l \in {"detached", "rejected"} : Return(k, l)
  /\ UNCHANGED <<list, spin, threadVars, target, destroyVars, ran>>

\* The detached thread runs the task.
RunDetached(k) ==
  /\ sub[k] = "detached"
  /\ Run(k)
  /\ SubmitGoto(k, "done")
  /\ UNCHANGED <<list, spin, threadVars, host, target, destroyVars>>

-----------------------------------------------------------------------------
(* emi_thread_pool_destroy, called by the owner once nothing is submitted   *)
(* any more and every submitted task was run, or by emi_thread_pool_init.  *)

DestroyLock ==
  /\ dpc = "idle" /\ spin = None
  /\ \A k \in Tasks :
       sub[k] \in {"new", "rejected"} \/ (sub[k] = "done" /\ ran[k] > 0)
  /\ Settled
  /\ spin' = "destroy"
  /\ dpc' = "next"
  /\ UNCHANGED <<list, threadVars, submitVars, doomed, ran>>

\* Mutant: no signal.
DestroyNoSignal ==
  /\ dpc = "next" /\ list # <<>>
  /\ LET t == Head(list) IN
       /\ ~lock[t]
       /\ status' = [status EXCEPT ![t] = "EXIT"]
       /\ doomed' = t
  /\ list' = Tail(list)
  /\ dpc' = "join"
  /\ UNCHANGED <<spin, func, args, lock, pc, submitVars, ran>>

\* list_del, then EXIT and a signal under the lock of the thread.
DestroyThread ==
  /\ dpc = "next" /\ list # <<>>
  /\ LET t == Head(list) IN
       /\ ~lock[t]
       /\ status' = [status EXCEPT ![t] = "EXIT"]
       /\ pc' = [pc EXCEPT ![t] = IF @ = "waiting" THEN "woken" ELSE @]
       /\ doomed' = t
  /\ list' = Tail(list)
  /\ dpc' = "join"
  /\ UNCHANGED <<spin, func, args, lock, submitVars, ran>>

\* pthread_join.
DestroyJoin ==
  /\ dpc = "join" /\ pc[doomed] = "exited"
  /\ doomed' = None
  /\ dpc' = "next"
  /\ UNCHANGED <<list, spin, threadVars, submitVars, ran>>

DestroyUnlock ==
  /\ dpc = "next" /\ list = <<>>
  /\ spin' = None
  /\ dpc' = "done"
  /\ UNCHANGED <<list, threadVars, submitVars, doomed, ran>>

-----------------------------------------------------------------------------
Thread(t) ==
  /\ ~Interrupted(t)
  /\ \/ TakeLock(t) \/ CheckFunc(t) \/ Sleep(t) \/ RunTask(t) \/ ClearFunc(t)
     \/ MarkIdle(t) \/ TakeSpin(t) \/ Relist(t) \/ Leave(t)

Submit(k) ==
  \/ SubmitLock(k) \/ SubmitFunc(k) \/ SubmitArgs(k) \/ SubmitSignal(k)
  \/ SubmitSpawn(k) \/ SubmitCreate(k) \/ RunDetached(k)

Create == (\E t \in Threads : CreateThread(t)) \/ InitDone \/ InitFails
Destroy == DestroyThread \/ DestroyJoin \/ DestroyUnlock

\* The pool is destroyed and nothing is left to do.
Destroyed == dpc = "done" /\ UNCHANGED vars

Next ==
  \/ \E t \in Threads : Thread(t) \/ SpuriousWakeup(t)
  \/ \E k \in Tasks : Call(k) \/ Submit(k)
  \/ Create
  \/ DestroyLock \/ Destroy
  \/ Destroyed

\* A thread, a submit and the owner of the pool each do one thing at a time, and
\* what they are at happens if it is possible time and again: a lock that is
\* released again and again is got in the end.  Nobody owes a spurious wakeup,
\* a call of submit or one of emi_thread_pool_destroy.
Fairness ==
  /\ \A t \in Threads : SF_vars(Thread(t))
  /\ \A k \in Tasks : SF_vars(Submit(k))
  /\ WF_vars(Create)
  /\ SF_vars(Destroy)

Spec == Init /\ [][Next]_vars /\ Fairness

-----------------------------------------------------------------------------
\* Every variable has its type.
TypeOK ==
  /\ list \in Seq(Threads)
  /\ spin \in Threads \cup Tasks \cup {"destroy", None}
  /\ status \in [Threads -> {"none", "IDLE", "BUSY", "EXIT"}]
  /\ \A t \in Threads : status[t] = "none" <=> pc[t] = "none"
  /\ func \in [Threads -> BOOLEAN]
  /\ args \in [Threads -> Tasks \cup {None}]
  /\ lock \in [Threads -> BOOLEAN]
  /\ pc \in [Threads -> Labels]
  /\ sub \in [Tasks -> SubmitLabels]
  /\ host \in [Tasks -> Threads \cup {None}]
  /\ target \in [Tasks -> Threads \cup {None}]
  /\ dpc \in {"init", "idle", "next", "join", "done"} /\ doomed \in Threads \cup {None}
  /\ ran \in [Tasks -> Nat]

\* Outside a submit all threads are in the list, once each, from the end of
\* emi_thread_pool_init until the pool is destroyed (emi_thread.c:32-34, 166): whichever way list_move and
\* list_move_tail interleave, no thread drops out of the pool.
ListIsWhole ==
  dpc = "idle" => Len(list) = Cardinality(Threads) /\ ToSet(list) = Threads

\* A submit that was given a thread keeps it: until the thread runs the task
\* its func and args are not overwritten, and no other submit takes it for
\* IDLE (emi_thread.c:28-30, 156-164).
NoTaskLost ==
  \A k \in Tasks :
    target[k] # None /\ sub[k] \in {"signal", "done"} /\ ran[k] = 0 =>
      LET t == target[k] IN func[t] /\ args[t] = k /\ status[t] = "BUSY"

\* A task is run once at most, and only when its submit has handed it over:
\* a thread never runs with the args of an earlier task (emi_thread.c:26, 163).
RunsOnce ==
  \A k \in Tasks :
    /\ ran[k] <= 1
    /\ ran[k] = 1 => sub[k] \in {"signal", "done"}

\* A thread whose status is IDLE has no task, whatever the order in which the
\* thread and the submits change the two (emi_thread.c:29-30, 161-163).
IdleHasNoTask == \A t \in Threads : status[t] = "IDLE" => ~func[t]

\* Every task that is submitted is run, or refused with -1
\* (emi_thread.c:156-183).
EveryTaskRuns ==
  []<>(\A k \in Tasks :
         sub[k] \in {"new", "rejected"} \/ (sub[k] = "done" /\ ran[k] = 1))

\* The destruction of a pool, by its owner or by an initialisation that failed,
\* joins all of its threads and returns (emi_thread.c:71-84, 107-120, 146).
DestroyEnds == dpc = "next" ~> dpc = "done"

\* The pool as its callers see it: a submit that found an IDLE thread or created
\* one has accepted its task.
AnswerAt(l) ==
  CASE l \in {"new", "called", "locked", "spawn"} -> "none"
    [] l = "rejected" -> "refused"
    [] OTHER -> "accepted"

Pool == INSTANCE TaskPool WITH
  answer <- [k \in Tasks |-> AnswerAt(sub[k])],
  runs <- ran,
  closed <- dpc \notin {"init", "idle"}

\* The threads, the list and the two locks together do what TaskPool promises:
\* whichever way submits, threads and the destruction interleave, a refused task
\* is never run, an accepted one never twice, and none after the pool is gone
\* (emi_thread.c:11-41, 107-120, 150-188).
ImplementsTaskPool == Pool!Spec
-----------------------------------------------------------------------------
(* What the proofs of the properties above rest on.                        *)

\* pool->spinlock is held where the code holds it.
SpinHeld ==
  /\ \A k \in Tasks : sub[k] \in {"locked", "args"} <=> spin = k
  /\ \A t \in Threads : pc[t] = "move" <=> spin = t
  /\ dpc \in {"next", "join"} <=> spin = "destroy"

\* The list holds threads that were created, and all of them while it is made.
ListMade ==
  /\ ToSet(list) \subseteq Created
  /\ dpc = "init" => ToSet(list) = Created /\ Len(list) = Cardinality(Created)

\* The list loses the threads the destruction has joined, and no other.
ListShrinks ==
  /\ dpc # "join" => doomed = None
  /\ dpc = "done" => list = <<>>
  /\ dpc # "idle" =>
       \A t \in Created : t \in ToSet(list) \/ t = doomed \/ pc[t] = "exited"

\* While the list is being made or emptied no submit is under way.
Quiet ==
  dpc # "idle" =>
    \A k \in Tasks :
      sub[k] \in {"new", "rejected"} \/ (sub[k] = "done" /\ ran[k] > 0)

\* A thread marked IDLE is not running and has nothing to run, nor has one
\* about to be marked.
IdleIsFree ==
  \A t \in Threads :
    /\ status[t] = "IDLE" => ~func[t] /\ pc[t] \notin {"run", "clear", "idle"}
    /\ pc[t] \in {"none", "idle"} => ~func[t]

\* A submit has a thread from the moment it found one IDLE, and is known to a
\* thread once it has set the args.
TargetSet ==
  /\ \A k \in Tasks :
       /\ target[k] = None =>
            sub[k] \notin {"args", "signal"}
       /\ target[k] # None => sub[k] \in {"args", "signal", "done"}
       /\ sub[k] \notin {"signal", "done", "rejected"} => ran[k] = 0
  /\ \A t \in Threads : args[t] # None => sub[args[t]] \in {"signal", "done"}

Waits(k) == target[k] # None /\ ran[k] = 0

\* A thread with a task that it has not run is busy with this task only.
TaskKept ==
  \A k \in Tasks : Waits(k) =>
    LET t == target[k] IN
      /\ func[t] /\ status[t] = "BUSY" /\ pc[t] \notin {"clear", "idle"}
      /\ sub[k] # "args" => args[t] = k
      /\ sub[k] = "args" => pc[t] # "run"

\* No thread has two tasks that it has not run.
OneTask ==
  \A j, k \in Tasks : Waits(j) /\ Waits(k) /\ target[j] = target[k] => j = k

\* A thread with a func has a task that it has not run.
FuncIsTask ==
  \A t \in Threads :
    func[t] /\ pc[t] # "clear" => \E k \in Tasks : Waits(k) /\ target[k] = t

\* A thread about to run a task, or that runs it, has a func.
RunHasFunc == \A t \in Threads : pc[t] \in {"run", "clear"} => func[t]

ListInv == SpinHeld /\ ListMade /\ ListIsWhole /\ ListShrinks /\ Quiet /\ TargetSet
TaskInv == IdleIsFree /\ TaskKept /\ OneTask /\ FuncIsTask /\ RunHasFunc /\ RunsOnce
=============================================================================
