------------------------------ MODULE EmiCore ------------------------------
(***************************************************************************)
(* The message service of emilib: the daemon emi_core (src/src/emi_core.c) *)
(* together with the receiver side of the library (src/src/emi_ifr.c) and  *)
(* the client side of a request (src/src/emi_if.c).                        *)
(*                                                                         *)
(* Every accepted connection is served by a thread of its own that runs    *)
(* emi_receive_operation; pc[c] is where the thread of connection c is.    *)
(* A registration enters a node (msg, pid) in the message table.  A send   *)
(* counts the nodes of its message, hands its shared-memory area to each   *)
(* of their processes through that process' slot pididx[p] and a SIGUSR2,  *)
(* and then polls the count in the area until the receivers, and the       *)
(* purging of receivers that have gone, brought it down to zero.           *)
(*                                                                         *)
(* A node of the table is named by the registration that allocated it, and *)
(* the order of the nodes in a hash chain is abstracted: a traversal       *)
(* visits them in any order.  The thread pools are modelled by ThreadPool; *)
(* here every task gets a thread.  The payload is left out.                *)
(***************************************************************************)
EXTENDS Integers, FiniteSets

CONSTANTS
  Procs,          \* receiver processes that have called emi_init
  Msgs,           \* message numbers
  Areas,          \* blocks of the shared buffer that hold one emi_msg each
  Workers,        \* threads of a receiver that run __func_sterotype
  Registrations,  \* connections that carry EMI_MSG_CMD_REGISTER
  Sends,          \* connections that carry a message
  Blocking,       \* the sends with EMI_MSG_MODE_BLOCK
  ProcOf,         \* ProcOf[r]: the process that registers (msg->cmd)
  MsgOf,          \* MsgOf[c]: the message number of the request
  Bucket,         \* Bucket[m]: __hash32(m)
  Before,         \* Before[c]: requests that returned before c is issued
  Mortal,         \* the processes that may exit
  Death,          \* "beforeSends": they exit before the first send; "anytime"
  MayFail,        \* whether reads and malloc may fail
  PromptUnlock,   \* whether no poll falls between emi_ifr.c:106 and 107
  CountMod,       \* number of values of the eu32 msg->count
  NoArea,         \* the zero that pididx[p] holds when it is free
  NoConn          \* no thread

Conns == Registrations \cup Sends

ASSUME ConnsAssumption ==
  /\ Registrations \cap Sends = {}
  /\ Blocking \subseteq Sends
  /\ ProcOf \in [Registrations -> Procs]
  /\ MsgOf \in [Conns -> Msgs]
  /\ Before \in [Conns -> SUBSET Conns]
  /\ Mortal \subseteq Procs
  /\ IsFiniteSet(Registrations) /\ Msgs # {}
  /\ Death \in {"beforeSends", "anytime"}
  /\ MayFail \in BOOLEAN
  /\ PromptUnlock \in BOOLEAN

ASSUME SentinelAssumption == NoArea \notin Areas /\ NoConn \notin Conns

ASSUME CountAssumption == CountMod \in Nat /\ CountMod > 1

VARIABLES
  table,           \* the nodes of msg_table_head
  readers, writer, \* who holds msg_table_lock
  pididx,          \* the slot of each process in shared memory
  pididx_lock,     \* the thread that holds the slot's mutex
  signal,          \* whether a SIGUSR2 is pending for the process
  used,            \* the allocated areas
  mem,             \* the emi_msg in each area
  pc,              \* where the thread of each connection is
  msg_pos,         \* the area of each connection
  todo,            \* nodes the thread's traversal has yet to visit
  map,             \* the node the thread is delivering to
  max_exit_receiver,
  proc,            \* "alive", "zombie" (exited, not reaped) or "gone"
  func_list,       \* the messages each process has a function for
  worker,          \* the threads of each process
  reply,           \* what emi_core wrote back to the client
  result,          \* what the client's call returned
  outcome          \* history: what became of each send at each process

tableVars  == <<table, readers, writer>>
slotVars   == <<pididx, pididx_lock, signal>>
memVars    == <<used, mem>>
threadVars == <<msg_pos, todo, map, max_exit_receiver>>
procVars   == <<proc, func_list, worker>>
clientVars == <<reply, result>>

vars == <<tableVars, slotVars, memVars, pc, threadVars, procVars, clientVars,
          outcome>>

-----------------------------------------------------------------------------
(* States of the parts.                                                    *)

\* An emi_msg: message number, MODE_BLOCK, RET_SUCCEEDED, count, spin lock.
MsgAreas == [msg : Msgs, block : BOOLEAN, succeeded : BOOLEAN,
             count : 0 .. CountMod - 1, locked : BOOLEAN]

WorkerStates == [phase : {"idle", "queued", "ran", "unlocking"},
                 area : Areas \cup {NoArea}, ret : {0, -1}]

IdleWorker == [phase |-> "idle", area |-> NoArea, ret |-> 0]

\* The control points of emi_receive_operation, "idle" before the accept and
\* "done" after emi_close.
Labels == {"idle", "receive", "check", "insert", "mutex", "answer",
           "count", "rdlock", "slot", "signal", "await", "poll", "wrlock",
           "purge", "verdict", "ret", "free", "done"}

\* A thread of a send between counting the receivers and seeing count = 0.
Delivering == {"rdlock", "slot", "signal", "await", "poll", "wrlock", "purge"}

\* The nodes that emi_hsearch and the test map->msg == msg_pos->msg select.
Matching(m) == {n \in table : MsgOf[n] = m}

\* emi_hinsert_unique_lock: a node that makes the registration fail.
Conflicting(r) == {n \in table : /\ Bucket[MsgOf[n]] = Bucket[MsgOf[r]]
                                 /\ ProcOf[n] = ProcOf[r]}

\* The threads that can take a task; which of them does is immaterial.
IdleWorkers(p) == {w \in Workers : worker[p][w].phase = "idle"}

\* msg->count-- on an eu32.
Decrement(n) == (n + CountMod - 1) % CountMod

\* Whose message an area holds.
Owner(a) == {c \in Sends : msg_pos[c] = a /\ a # NoArea}

Goto(c, l) == pc' = [pc EXCEPT ![c] = l]

Store(a, m) == mem' = [mem EXCEPT ![a] = m]

SetSucceeded(c, b) ==
  Store(msg_pos[c], [mem[msg_pos[c]] EXCEPT !.succeeded = b])

Record(a, p, what) ==
  outcome' = [c \in Sends |-> IF c \in Owner(a)
                              THEN [outcome[c] EXCEPT ![p] = what]
                              ELSE outcome[c]]

Init ==
  /\ table = {} /\ readers = {} /\ writer = NoConn
  /\ pididx = [p \in Procs |-> NoArea]
  /\ pididx_lock = [p \in Procs |-> NoConn]
  /\ signal = [p \in Procs |-> FALSE]
  /\ used = {}
  /\ mem \in [Areas -> {[msg |-> CHOOSE m \in Msgs : TRUE, block |-> FALSE,
                         succeeded |-> FALSE, count |-> 0, locked |-> FALSE]}]
  /\ pc = [c \in Conns |-> "idle"]
  /\ msg_pos = [c \in Conns |-> NoArea]
  /\ todo = [c \in Conns |-> {}]
  /\ map = [c \in Conns |-> NoConn]
  /\ max_exit_receiver = [c \in Conns |-> 0]
  /\ proc = [p \in Procs |-> "alive"]
  /\ func_list = [p \in Procs |-> {}]
  /\ worker = [p \in Procs |-> [w \in Workers |-> IdleWorker]]
  /\ reply = [c \in Conns |-> "none"]
  /\ result = [c \in Conns |-> "none"]
  /\ outcome = [c \in Sends |-> [p \in Procs |-> "none"]]

-----------------------------------------------------------------------------
(* The clients: __emi_msg_register and emi_msg_send.                       *)

\* Connect and write the request.  A send without MODE_BLOCK returns 0 then.
ClientOpen(c) ==
  /\ pc[c] = "idle"
  /\ \A b \in Before[c] : result[b] # "none"
  /\ c \in Registrations => proc[ProcOf[c]] = "alive"
  /\ c \in Sends /\ Death = "beforeSends" => \A p \in Mortal : proc[p] = "gone"
  /\ Goto(c, "receive")
  /\ result' = [result EXCEPT ![c] =
                  IF c \in Sends \ Blocking THEN "ok" ELSE "none"]
  /\ UNCHANGED <<tableVars, slotVars, memVars, threadVars, procVars, reply,
                 outcome>>

\* Read the answer, or the end of the stream when emi_core closed without one.
ClientFinish(c) ==
  /\ pc[c] # "idle" /\ result[c] = "none"
  /\ reply[c] # "none" \/ pc[c] = "done"
  /\ c \in Registrations => proc[ProcOf[c]] = "alive"
  /\ \E ok \in {"ok", "fail"} :
       /\ reply[c] # "succeeded" => ok = "fail"
       /\ reply[c] = "succeeded" /\ ~(MayFail /\ c \in Registrations) => ok = "ok"
       /\ result' = [result EXCEPT ![c] = ok]
       /\ func_list' = IF c \in Registrations /\ ok = "ok"
                       THEN [func_list EXCEPT ![ProcOf[c]] = @ \cup {MsgOf[c]}]
                       ELSE func_list
  /\ UNCHANGED <<tableVars, slotVars, memVars, pc, threadVars, proc, worker,
                 reply, outcome>>

-----------------------------------------------------------------------------
(* emi_receive_operation: the area of the message.                         *)

\* alloc_shared_msg and emi_msg_read into a free area.
Receive(c) ==
  /\ pc[c] = "receive"
  /\ \E a \in Areas \ used :
       /\ used' = used \cup {a}
       /\ msg_pos' = [msg_pos EXCEPT ![c] = a]
       /\ Store(a, [msg |-> MsgOf[c], block |-> c \in Blocking,
                    succeeded |-> FALSE, count |-> 0, locked |-> FALSE])
  /\ \/ Goto(c, IF c \in Registrations THEN "check" ELSE "count")
     \/ MayFail /\ Goto(c, "free")       \* emi_msg_read or alloc_msg_map fails
  /\ UNCHANGED <<tableVars, slotVars, todo, map, max_exit_receiver, procVars,
                 clientVars, outcome>>

\* alloc_shared_msg returns NULL: goto e1.
NoSpace(c) ==
  /\ pc[c] = "receive"
  /\ used = Areas
  /\ Goto(c, "done")
  /\ UNCHANGED <<tableVars, slotVars, memVars, threadVars, procVars,
                 clientVars, outcome>>

\* e0 and e1: free_shared_msg and emi_close.
Release(c) ==
  /\ pc[c] = "free"
  /\ used' = used \ {msg_pos[c]}
  /\ msg_pos' = [msg_pos EXCEPT ![c] = NoArea]
  /\ Goto(c, "done")
  /\ UNCHANGED <<tableVars, slotVars, mem, todo, map, max_exit_receiver,
                 procVars, clientVars, outcome>>

-----------------------------------------------------------------------------
(* emi_receive_operation: a registration.                                  *)

\* Mutant: the search is left out.
RegisterCheckNone(r) ==
  /\ pc[r] = "check"
  /\ Goto(r, "insert")
  /\ UNCHANGED <<tableVars, slotVars, memVars, threadVars, procVars, clientVars,
                 outcome>>

\* The unlocked search of emi_hinsert_unique_lock.
RegisterCheck(r) ==
  /\ pc[r] = "check"
  /\ IF Conflicting(r) # {}
       THEN Goto(r, "answer") /\ SetSucceeded(r, FALSE)
       ELSE Goto(r, "insert") /\ UNCHANGED mem
  /\ UNCHANGED <<tableVars, slotVars, used, threadVars, procVars, clientVars,
                 outcome>>

\* emi_hinsert between emi_rwlock_wrlock and emi_rwlock_unlock.
RegisterInsert(r) ==
  /\ pc[r] = "insert"
  /\ readers = {} /\ writer = NoConn
  /\ table' = table \cup {r}
  /\ Goto(r, "mutex")
  /\ UNCHANGED <<readers, writer, slotVars, memVars, threadVars, procVars,
                 clientVars, outcome>>

\* Mutant: the mutex is left locked.
RegisterMutexLocked(r) ==
  /\ pc[r] = "mutex"
  /\ pididx_lock' = [pididx_lock EXCEPT ![ProcOf[r]] = r]
  /\ SetSucceeded(r, TRUE)
  /\ Goto(r, "answer")
  /\ UNCHANGED <<tableVars, pididx, signal, used, threadVars, procVars,
                 clientVars, outcome>>

\* emi_mutex_init, whatever the state of the mutex.
RegisterMutexInit(r) ==
  /\ pc[r] = "mutex"
  /\ pididx_lock' = [pididx_lock EXCEPT ![ProcOf[r]] = NoConn]
  /\ SetSucceeded(r, TRUE)
  /\ Goto(r, "answer")
  /\ UNCHANGED <<tableVars, pididx, signal, used, threadVars, procVars,
                 clientVars, outcome>>

\* emi_msg_write_payload (registration) or emi_msg_write_ret (blocking send).
Answer(c) ==
  /\ pc[c] \in {"answer", "ret"}
  /\ reply' = [reply EXCEPT ![c] =
                 IF mem[msg_pos[c]].succeeded THEN "succeeded" ELSE "failed"]
  /\ Goto(c, "free")
  /\ UNCHANGED <<tableVars, slotVars, memVars, threadVars, procVars, result,
                 outcome>>

-----------------------------------------------------------------------------
(* emi_receive_operation: a send.                                          *)

\* Where a send goes once its verdict is known.
AfterVerdict(c) == IF mem[msg_pos[c]].block THEN "ret" ELSE "free"

\* The unlocked search that counts the receivers.
CountReceivers(c) ==
  LET n == Cardinality(Matching(MsgOf[c])) % CountMod IN
  /\ pc[c] = "count"
  /\ Store(msg_pos[c],
           [mem[msg_pos[c]] EXCEPT !.count = n, !.succeeded = n > 0])
  /\ max_exit_receiver' = [max_exit_receiver EXCEPT ![c] = n]
  /\ Goto(c, IF n > 0 THEN "rdlock" ELSE AfterVerdict(c))
  /\ UNCHANGED <<tableVars, slotVars, used, msg_pos, todo, map, procVars,
                 clientVars, outcome>>

\* emi_rwlock_rdlock; the chain cannot change until ReadUnlock.
ReadLock(c) ==
  /\ pc[c] = "rdlock"
  /\ writer = NoConn
  /\ readers' = readers \cup {c}
  /\ todo' = [todo EXCEPT ![c] = Matching(MsgOf[c])]
  /\ Goto(c, "slot")
  /\ UNCHANGED <<table, writer, slotVars, memVars, msg_pos, map,
                 max_exit_receiver, procVars, clientVars, outcome>>

\* Take the slot of the next receiver and put the offset of the area in it.
PutSlot(c) ==
  /\ pc[c] = "slot"
  /\ \E n \in todo[c] :
       /\ pididx_lock[ProcOf[n]] = NoConn
       /\ pididx_lock' = [pididx_lock EXCEPT ![ProcOf[n]] = c]
       /\ pididx' = [pididx EXCEPT ![ProcOf[n]] = msg_pos[c]]
       /\ map' = [map EXCEPT ![c] = n]
       /\ todo' = [todo EXCEPT ![c] = @ \ {n}]
  /\ Goto(c, "signal")
  /\ UNCHANGED <<tableVars, signal, memVars, msg_pos, max_exit_receiver,
                 procVars, clientVars, outcome>>

\* kill(map->pid, SIGUSR2): it succeeds on a zombie, which never sees it.
Kill(c) ==
  LET p == ProcOf[map[c]] IN
  /\ pc[c] = "signal"
  /\ IF proc[p] = "gone"
       THEN pididx' = [pididx EXCEPT ![p] = NoArea] /\ UNCHANGED signal
       ELSE signal' = [signal EXCEPT ![p] = proc[p] = "alive" \/ @]
            /\ UNCHANGED pididx
  /\ Goto(c, "await")
  /\ UNCHANGED <<tableVars, pididx_lock, memVars, threadVars, procVars,
                 clientVars, outcome>>

\* Mutant: the thread does not wait for the zero.
AwaitNothing(c) ==
  LET p == ProcOf[map[c]] IN
  /\ pc[c] = "await"
  /\ pididx_lock' = [pididx_lock EXCEPT ![p] = NoConn]
  /\ map' = [map EXCEPT ![c] = NoConn]
  /\ Goto(c, "slot")
  /\ UNCHANGED <<tableVars, pididx, signal, memVars, msg_pos, todo,
                 max_exit_receiver, procVars, clientVars, outcome>>

\* The receiver zeroed its slot: unlock the slot and go on.
AwaitZero(c) ==
  LET p == ProcOf[map[c]] IN
  /\ pc[c] = "await"
  /\ pididx[p] = NoArea
  /\ pididx_lock' = [pididx_lock EXCEPT ![p] = NoConn]
  /\ map' = [map EXCEPT ![c] = NoConn]
  /\ Goto(c, "slot")
  /\ UNCHANGED <<tableVars, pididx, signal, memVars, msg_pos, todo,
                 max_exit_receiver, procVars, clientVars, outcome>>

\* Mutant: only a blocking send waits for its receivers.
ReadUnlockNoWait(c) ==
  /\ pc[c] = "slot" /\ todo[c] = {}
  /\ readers' = readers \ {c}
  /\ Goto(c, IF c \in Blocking THEN "poll" ELSE "verdict")
  /\ UNCHANGED <<table, writer, slotVars, memVars, threadVars, procVars,
                 clientVars, outcome>>

ReadUnlock(c) ==
  /\ pc[c] = "slot" /\ todo[c] = {}
  /\ readers' = readers \ {c}
  /\ Goto(c, "poll")
  /\ UNCHANGED <<table, writer, slotVars, memVars, threadVars, procVars,
                 clientVars, outcome>>

\* Mutants: the last receiver is not waited for; the receivers that have not
\* answered are sent the message again.
PollAllButOne(c) ==
  /\ pc[c] = "poll"
  /\ Goto(c, IF mem[msg_pos[c]].count <= 1 THEN "verdict" ELSE "wrlock")
  /\ UNCHANGED <<tableVars, slotVars, memVars, threadVars, procVars,
                 clientVars, outcome>>

PollSendsAgain(c) ==
  /\ pc[c] = "poll"
  /\ Goto(c, IF mem[msg_pos[c]].count = 0 THEN "verdict" ELSE "rdlock")
  /\ UNCHANGED <<tableVars, slotVars, memVars, threadVars, procVars,
                 clientVars, outcome>>

\* while(msg_pos->count), read without the lock of the message.
Poll(c) ==
  LET m == mem[msg_pos[c]] IN
  /\ pc[c] = "poll"
  /\ m.count = 0 /\ PromptUnlock => ~m.locked
  /\ Goto(c, IF m.count = 0 THEN "verdict" ELSE "wrlock")
  /\ UNCHANGED <<tableVars, slotVars, memVars, threadVars, procVars,
                 clientVars, outcome>>

WriteLock(c) ==
  /\ pc[c] = "wrlock"
  /\ readers = {} /\ writer = NoConn
  /\ writer' = c
  /\ todo' = [todo EXCEPT ![c] = Matching(MsgOf[c])]
  /\ Goto(c, "purge")
  /\ UNCHANGED <<table, readers, slotVars, memVars, msg_pos, map,
                 max_exit_receiver, procVars, clientVars, outcome>>

\* Mutants: the result of kill is not looked at; the receiver is not counted off.
PurgeAnybody(c) ==
  /\ pc[c] = "purge"
  /\ \E n \in todo[c] :
       /\ ~mem[msg_pos[c]].locked
       /\ Store(msg_pos[c], [mem[msg_pos[c]] EXCEPT !.count = Decrement(@)])
       /\ max_exit_receiver' = [max_exit_receiver EXCEPT ![c] = @ - 1]
       /\ table' = table \ {n}
       /\ todo' = [todo EXCEPT ![c] = @ \ {n}]
  /\ UNCHANGED <<readers, writer, slotVars, used, pc, msg_pos, map, procVars,
                 clientVars, outcome>>

PurgeNodeOnly(c) ==
  /\ pc[c] = "purge"
  /\ \E n \in todo[c] :
       /\ proc[ProcOf[n]] = "gone"
       /\ max_exit_receiver' = [max_exit_receiver EXCEPT ![c] = @ - 1]
       /\ table' = table \ {n}
       /\ todo' = [todo EXCEPT ![c] = @ \ {n}]
  /\ UNCHANGED <<readers, writer, slotVars, memVars, pc, msg_pos, map, procVars,
                 clientVars, outcome>>

\* kill(map->pid, 0) fails: count the receiver off and free its node.
PurgeGone(c) ==
  /\ pc[c] = "purge"
  /\ \E n \in todo[c] :
       /\ proc[ProcOf[n]] = "gone"
       /\ ~mem[msg_pos[c]].locked
       /\ Store(msg_pos[c], [mem[msg_pos[c]] EXCEPT !.count = Decrement(@)])
       /\ max_exit_receiver' = [max_exit_receiver EXCEPT ![c] = @ - 1]
       /\ table' = table \ {n}
       /\ todo' = [todo EXCEPT ![c] = @ \ {n}]
  /\ UNCHANGED <<readers, writer, slotVars, used, pc, msg_pos, map, procVars,
                 clientVars, outcome>>

\* kill(map->pid, 0) succeeds: leave the node.
PurgeKeep(c) ==
  /\ pc[c] = "purge"
  /\ \E n \in todo[c] :
       /\ proc[ProcOf[n]] # "gone"
       /\ todo' = [todo EXCEPT ![c] = @ \ {n}]
  /\ UNCHANGED <<tableVars, slotVars, memVars, pc, msg_pos, map,
                 max_exit_receiver, procVars, clientVars, outcome>>

WriteUnlock(c) ==
  /\ pc[c] = "purge" /\ todo[c] = {}
  /\ writer' = NoConn
  /\ Goto(c, "poll")
  /\ UNCHANGED <<table, readers, slotVars, memVars, threadVars, procVars,
                 clientVars, outcome>>

\* Mutant: the last living receiver is taken for gone.
VerdictOffByOne(c) ==
  /\ pc[c] = "verdict"
  /\ IF max_exit_receiver[c] <= 1 THEN SetSucceeded(c, FALSE) ELSE UNCHANGED mem
  /\ Goto(c, AfterVerdict(c))
  /\ UNCHANGED <<tableVars, slotVars, used, threadVars, procVars, clientVars,
                 outcome>>

\* All receivers are exit receivers: the send fails.
Verdict(c) ==
  /\ pc[c] = "verdict"
  /\ IF max_exit_receiver[c] = 0 THEN SetSucceeded(c, FALSE) ELSE UNCHANGED mem
  /\ Goto(c, AfterVerdict(c))
  /\ UNCHANGED <<tableVars, slotVars, used, threadVars, procVars, clientVars,
                 outcome>>

-----------------------------------------------------------------------------
(* A receiver process.                                                     *)

\* func_sterotype, on SIGUSR2: read the slot, zero it, submit the message.
\* While the slot is not zero only this handler changes it, so the three are
\* one step.
TakeSignal(p) ==
  /\ proc[p] = "alive" /\ signal[p]
  /\ signal' = [signal EXCEPT ![p] = FALSE]
  /\ pididx' = [pididx EXCEPT ![p] = NoArea]
  /\ IdleWorkers(p) # {}
  /\ worker' = [worker EXCEPT ![p][CHOOSE w \in IdleWorkers(p) : TRUE] =
                  [phase |-> "queued", area |-> pididx[p], ret |-> 0]]
  /\ Record(pididx[p], p, "taken")
  /\ UNCHANGED <<tableVars, pididx_lock, memVars, pc, threadVars, proc,
                 func_list, clientVars>>

\* __func_sterotype: look up the function and run it; without one ret is -1.
RunHandler(p, w) ==
  LET a == worker[p][w].area IN
  /\ worker[p][w].phase = "queued" /\ a # NoArea
  /\ \E ret \in {0, -1} :
       /\ mem[a].msg \notin func_list[p] => ret = -1
       /\ worker' = [worker EXCEPT ![p][w] =
                       [@ EXCEPT !.phase = "ran", !.ret = ret]]
  /\ UNCHANGED <<tableVars, slotVars, memVars, pc, threadVars, proc, func_list,
                 clientVars, outcome>>

\* Mutants: SUCCEEDED is kept on failure; only a success is counted off.
CountOffAlwaysGood(p, w) ==
  LET a == worker[p][w].area IN
  /\ worker[p][w].phase = "ran"
  /\ ~mem[a].locked
  /\ Store(a, [mem[a] EXCEPT !.locked = TRUE, !.count = Decrement(@)])
  /\ worker' = [worker EXCEPT ![p][w] = [@ EXCEPT !.phase = "unlocking"]]
  /\ Record(a, p, IF worker[p][w].ret # 0 THEN "bad" ELSE "good")
  /\ UNCHANGED <<tableVars, slotVars, used, pc, threadVars, proc, func_list,
                 clientVars>>

CountOffOnSuccess(p, w) ==
  LET a == worker[p][w].area
      failed == worker[p][w].ret # 0 IN
  /\ worker[p][w].phase = "ran"
  /\ ~mem[a].locked
  /\ Store(a, [mem[a] EXCEPT !.locked = TRUE,
                             !.succeeded = @ /\ ~(mem[a].block /\ failed),
                             !.count = IF failed THEN @ ELSE Decrement(@)])
  /\ worker' = [worker EXCEPT ![p][w] = [@ EXCEPT !.phase = "unlocking"]]
  /\ Record(a, p, IF failed THEN "bad" ELSE "good")
  /\ UNCHANGED <<tableVars, slotVars, used, pc, threadVars, proc, func_list,
                 clientVars>>

\* Lock the message, withdraw SUCCEEDED on failure, count itself off.
CountOff(p, w) ==
  LET a == worker[p][w].area
      failed == worker[p][w].ret # 0 IN
  /\ worker[p][w].phase = "ran"
  /\ ~mem[a].locked
  /\ Store(a, [mem[a] EXCEPT !.locked = TRUE,
                             !.succeeded = @ /\ ~(mem[a].block /\ failed),
                             !.count = Decrement(@)])
  /\ worker' = [worker EXCEPT ![p][w] = [@ EXCEPT !.phase = "unlocking"]]
  /\ Record(a, p, IF failed THEN "bad" ELSE "good")
  /\ UNCHANGED <<tableVars, slotVars, used, pc, threadVars, proc, func_list,
                 clientVars>>

\* emi_spin_unlock(&shmsg->lock), on whatever the area holds by now.
Unlock(p, w) ==
  LET a == worker[p][w].area IN
  /\ worker[p][w].phase = "unlocking"
  /\ Store(a, [mem[a] EXCEPT !.locked = FALSE])
  /\ worker' = [worker EXCEPT ![p][w] = IdleWorker]
  /\ UNCHANGED <<tableVars, slotVars, used, pc, threadVars, proc, func_list,
                 clientVars, outcome>>

\* The process exits; its threads stop where they are.
Die(p) ==
  /\ p \in Mortal /\ proc[p] = "alive"
  /\ Death = "beforeSends" =>
       \A r \in Registrations : ProcOf[r] = p => result[r] # "none"
  /\ proc' = [proc EXCEPT ![p] = "zombie"]
  /\ worker' = [worker EXCEPT ![p] = [w \in Workers |-> IdleWorker]]
  /\ signal' = [signal EXCEPT ![p] = FALSE]
  /\ UNCHANGED <<tableVars, pididx, pididx_lock, memVars, pc, threadVars,
                 func_list, clientVars, outcome>>

\* Its parent waits for it: from now on kill fails.
Reap(p) ==
  /\ proc[p] = "zombie"
  /\ proc' = [proc EXCEPT ![p] = "gone"]
  /\ UNCHANGED <<tableVars, slotVars, memVars, pc, threadVars, func_list,
                 worker, clientVars, outcome>>

-----------------------------------------------------------------------------
\* The arms of emi_receive_operation, and what they share.
Register(r) == RegisterCheck(r) \/ RegisterInsert(r) \/ RegisterMutexInit(r)

Deliver(s) ==
  \/ CountReceivers(s) \/ ReadLock(s) \/ PutSlot(s) \/ Kill(s) \/ AwaitZero(s)
  \/ ReadUnlock(s) \/ Poll(s) \/ WriteLock(s) \/ PurgeGone(s) \/ PurgeKeep(s)
  \/ WriteUnlock(s) \/ Verdict(s)

CoreThread(c) ==
  \/ Receive(c) \/ NoSpace(c) \/ Answer(c) \/ Release(c)
  \/ c \in Registrations /\ Register(c)
  \/ c \in Sends /\ Deliver(c)

Client(c) == ClientOpen(c) \/ ClientFinish(c)

WorkerStep(p, w) == RunHandler(p, w) \/ CountOff(p, w) \/ Unlock(p, w)

\* Every request was served: the daemon waits in accept.
Accepting ==
  /\ \A c \in Conns : pc[c] = "done" /\ result[c] # "none"
  /\ \A p \in Procs, w \in Workers : worker[p][w].phase = "idle"
  /\ UNCHANGED vars

Next ==
  \/ \E c \in Conns : CoreThread(c) \/ Client(c)
  \/ \E p \in Procs : TakeSignal(p) \/ Die(p) \/ Reap(p)
  \/ \E p \in Procs, w \in Workers : WorkerStep(p, w)
  \/ Accepting

\* A thread that can run is run, a signal is delivered, a client reads its
\* answer, a zombie is reaped.  Opening a connection and exiting are choices.
Fairness ==
  /\ \A c \in Conns : WF_vars(CoreThread(c)) /\ WF_vars(ClientFinish(c))
  /\ \A p \in Procs : WF_vars(TakeSignal(p)) /\ WF_vars(Reap(p))
  /\ \A p \in Procs, w \in Workers : WF_vars(WorkerStep(p, w))

Spec == Init /\ [][Next]_vars /\ Fairness
-----------------------------------------------------------------------------
(* Type invariant.                                                         *)

\* Every variable has its type.
TypeOK ==
  /\ table \subseteq Registrations
  /\ readers \subseteq Sends /\ writer \in Sends \cup {NoConn}
  /\ pididx \in [Procs -> Areas \cup {NoArea}]
  /\ pididx_lock \in [Procs -> Sends \cup {NoConn}]
  /\ signal \in [Procs -> BOOLEAN]
  /\ used \subseteq Areas
  /\ mem \in [Areas -> MsgAreas]
  /\ pc \in [Conns -> Labels]
  /\ msg_pos \in [Conns -> Areas \cup {NoArea}]
  /\ todo \in [Conns -> SUBSET Registrations]
  /\ map \in [Conns -> Registrations \cup {NoConn}]
  /\ max_exit_receiver \in [Conns -> Int]
  /\ proc \in [Procs -> {"alive", "zombie", "gone"}]
  /\ func_list \in [Procs -> SUBSET Msgs]
  /\ worker \in [Procs -> [Workers -> WorkerStates]]
  /\ reply \in [Conns -> {"none", "succeeded", "failed"}]
  /\ result \in [Conns -> {"none", "ok", "fail"}]
  /\ outcome \in [Sends -> [Procs -> {"none", "taken", "good", "bad"}]]

(* Safety.                                                                 *)

\* The slot of a process is only in use between PutSlot and AwaitZero of the
\* one thread that holds its mutex: the slot holds that thread's area, and a
\* pending SIGUSR2 finds it there (emi_core.c:213-230, emi_ifr.c:46-54).
SlotDiscipline ==
  /\ \A p \in Procs : pididx[p] # NoArea =>
       /\ pididx_lock[p] # NoConn
       /\ pididx[p] = msg_pos[pididx_lock[p]]
  /\ \A c \in Sends : pc[c] \in {"signal", "await"} =>
       pididx_lock[ProcOf[map[c]]] = c
  /\ \A p \in Procs : signal[p] => pididx[p] # NoArea

\* While a send is delivered the count of its area is the number of nodes
\* whose process has still to count itself off or to be purged
\* (emi_core.c:199-262, emi_ifr.c:106): it neither runs ahead, which frees
\* the area early, nor lags behind, which blocks the sender for ever.
CountExact ==
  \A c \in Sends : pc[c] \in Delivering =>
    mem[msg_pos[c]].count =
      Cardinality({n \in Matching(MsgOf[c]) :
                     outcome[c][ProcOf[n]] \in {"none", "taken"}})

\* A handler that has not counted itself off works on an allocated area whose
\* send is still waiting for it (emi_core.c:238, 289).
NoEarlyFree ==
  \A p \in Procs, w \in Workers :
    worker[p][w].phase \in {"queued", "ran"} =>
      /\ worker[p][w].area \in used
      /\ \E c \in Owner(worker[p][w].area) :
           pc[c] \in Delivering /\ outcome[c][p] = "taken"

\* alloc_shared_msg returns an "empty area": no thread of a receiver refers to
\* an area before the send it was allocated for dispatches it
\* (emi_core.c:136-142).
AreaIsEmpty ==
  \A c \in Conns : pc[c] \in {"check", "insert", "mutex", "count", "rdlock"} =>
    \A p \in Procs, w \in Workers : worker[p][w].area # msg_pos[c]

\* "Make sure msg_map with the same pid and msgnum are not in msg_table"
\* (emi_core.c:166-169): a process has at most one node for a message.
UniqueRegistration ==
  \A m, n \in table : ProcOf[m] = ProcOf[n] /\ MsgOf[m] = MsgOf[n] => m = n

\* A blocking send returns 0 only if a receiver ran its function and every
\* process that took the message ran it successfully
\* (emi_core.c:207, 264-277, emi_ifr.c:94-102, emi_if.c:118-123).
SuccessIsEarned ==
  \A c \in Blocking : result[c] = "ok" =>
    /\ \E p \in Procs : outcome[c][p] = "good"
    /\ \A p \in Procs : outcome[c][p] \in {"none", "good"}

\* A blocking send returns -1 only for a reason: emi_core gave no answer, a
\* handler failed, or no living receiver was there (emi_core.c:264-272).
FailureIsDue ==
  \A c \in Blocking : result[c] = "fail" =>
    \/ reply[c] = "none"
    \/ \E p \in Procs : outcome[c][p] = "bad"
    \/ \A p \in Procs : outcome[c][p] = "none"

-----------------------------------------------------------------------------
(* What the invariants rest on, for the proofs.                            *)

\* The processes that get a message registered all they ever will before the
\* message is sent: the environment in which the slots keep their discipline.
RegistrationsFirst ==
  \A s \in Sends, n, r \in Registrations :
    MsgOf[n] = MsgOf[s] /\ ProcOf[n] = ProcOf[r] => r \in Before[s]

\* A process registers for one message from one thread at a time.
RegistrationsSerial ==
  \A q, r \in Registrations :
    q # r /\ ProcOf[q] = ProcOf[r] /\ MsgOf[q] = MsgOf[r] =>
      q \in Before[r] \/ r \in Before[q]

\* A request is only issued after those it waits for returned, it has no result
\* before it is issued, and a registration that was answered is at its end.
Ordered ==
  /\ \A c \in Conns : pc[c] = "idle" => result[c] = "none"
  /\ \A c \in Conns : pc[c] # "idle" => \A b \in Before[c] : result[b] # "none"
  /\ \A r \in Registrations :
       reply[r] # "none" \/ result[r] # "none" => pc[r] \in {"free", "done"}

\* A send visits nodes of its message only, and it has an area.
Addressed ==
  \A c \in Sends :
    /\ \A n \in todo[c] : MsgOf[n] = MsgOf[c]
    /\ pc[c] \in {"signal", "await"} =>
         map[c] \in Registrations /\ MsgOf[map[c]] = MsgOf[c]
    /\ pc[c] \in Delivering \cup {"count"} => msg_pos[c] \in Areas

\* A locked slot has one holder, which is delivering to that process; until
\* it calls kill the slot holds its area and no signal is pending.
SlotHeld ==
  /\ SlotDiscipline
  /\ \A p \in Procs : pididx_lock[p] # NoConn =>
       LET c == pididx_lock[p] IN
         c \in Sends /\ pc[c] \in {"signal", "await"} /\ ProcOf[map[c]] = p
  /\ \A c \in Sends : pc[c] = "signal" =>
       LET p == ProcOf[map[c]] IN pididx[p] = msg_pos[c] /\ ~signal[p]

\* A send waits for a slot that still holds its area, or was taken, or whose
\* process is gone.
Acknowledged ==
  \A c \in Sends : pc[c] = "await" =>
    LET p == ProcOf[map[c]] IN
      pididx[p] = msg_pos[c] \/ outcome[c][p] # "none" \/ proc[p] = "gone"

SlotInv == TypeOK /\ Ordered /\ Addressed /\ SlotHeld /\ Acknowledged

\* A registration about to insert its node has no rival in the table.
UniqueInv ==
  /\ TypeOK /\ Ordered /\ UniqueRegistration
  /\ \A r \in Registrations : pc[r] = "insert" =>
       \A n \in table : ~(ProcOf[n] = ProcOf[r] /\ MsgOf[n] = MsgOf[r])

-----------------------------------------------------------------------------
(* What a step may never do.                                               *)

\* "emi_core will wait the zero to make sure the this process recieved the
\* signal" (emi_ifr.c:53): a thread leaves its wait for a slot only when the
\* receiver has taken the message, or is gone.
WaitIsAcknowledged ==
  [][\A c \in Sends : pc[c] = "await" /\ pc'[c] = "slot" =>
       LET p == ProcOf[map[c]] IN outcome[c][p] # "none" \/ proc[p] = "gone"]_vars

\* A node leaves the table only when its process is gone and while a purge
\* holds the table for writing (emi_core.c:240-258).
OnlyGoneArePurged ==
  [][\A n \in table \ table' : proc[ProcOf[n]] = "gone" /\ writer # NoConn]_vars

(* Liveness.                                                               *)

\* Every request is served to the end: whatever was accepted, its thread closes
\* the connection and the client's call returns, so the service always comes
\* back to rest (emi_core.c:226, 238, 288-292, emi_if.c:113).
EveryRequestEnds ==
  []<>(\A c \in Conns : \/ pc[c] = "idle"
                        \/ pc[c] = "done" /\ result[c] # "none")
-----------------------------------------------------------------------------
(* What the service promises its users: MessageService.                    *)

Stage(c) == IF pc[c] \in Delivering THEN "open"
            ELSE IF pc[c] \in {"verdict", "ret", "free", "done"} THEN "over"
            ELSE "new"

\* The receivers that have yet to count themselves off or to be purged.
Awaited(c) == IF pc[c] \notin Delivering THEN {}
              ELSE {ProcOf[n] : n \in {q \in Matching(MsgOf[c]) :
                                  outcome[c][ProcOf[q]] \in {"none", "taken"}}}

Service == INSTANCE MessageService WITH
  registered <- {<<ProcOf[n], MsgOf[n]>> : n \in table},
  gone <- {p \in Procs : proc[p] = "gone"},
  stage <- [c \in Sends |-> Stage(c)],
  awaited <- [c \in Sends |-> Awaited(c)],
  verdict <- [c \in Blocking |-> result[c]]

\* The service implements MessageService: the bare count of an area, which each
\* receiver takes one from and a purge corrects, ends a send exactly when all the
\* processes registered at its beginning have handled it once or are gone, and a
\* blocking caller gets 0 exactly when the handlers have earned it
\* (emi_core.c:199-286, emi_ifr.c:83-110, emi_if.c:112-123).
ImplementsMessageService == Service!Spec
=============================================================================
