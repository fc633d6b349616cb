---------------------------- MODULE ServiceProofs ----------------------------
(***************************************************************************)
(* The theorems about the count and the areas of EmiCore, on which the     *)
(* results of ResultProofs rest.  They hold for any number of processes,   *)
(* messages, areas, threads and requests, if the receivers of a message    *)
(* are registered before it is sent and whoever exits does so before the   *)
(* first send and is met by one send of each message only.                 *)
(***************************************************************************)
EXTENDS EmiCoreProofs

\* Processes exit before the sends, and two sends of one message never purge.
ExitsAreCalm ==
  /\ Death = "beforeSends"
  /\ Mortal = {} \/ \A c, d \in Sends : MsgOf[c] = MsgOf[d] => c = d

\* The receivers of a message can be counted in msg->count.
CountFits ==
  \A m \in Msgs : Cardinality({r \in Registrations : MsgOf[r] = m}) < CountMod

\* The environment in which the service keeps its promises.
CalmService ==
  RegistrationsFirst /\ RegistrationsSerial /\ ExitsAreCalm /\ CountFits

\* The stages of a send that has counted its receivers.
Dispatched == Delivering \cup {"verdict", "ret", "free", "done"}

\* An area belongs to the one connection that allocated it.
AreasOwned ==
  /\ \A c \in Conns : msg_pos[c] # NoArea => msg_pos[c] \in used
  /\ \A c, d \in Conns : msg_pos[c] = msg_pos[d] /\ msg_pos[c] # NoArea => c = d
  /\ \A c \in Conns : pc[c] \in {"idle", "receive", "done"} <=> msg_pos[c] = NoArea

\* Who exits is gone before the first send and has nothing to do with any.
Calm ==
  /\ \A p \in Procs : proc[p] # "alive" => p \in Mortal
  /\ (\E c \in Sends : pc[c] # "idle") => \A p \in Mortal : proc[p] = "gone"
  /\ \A p \in Mortal :
       /\ ~signal[p]
       /\ \A w \in Workers : worker[p][w].phase = "idle"
       /\ \A c \in Sends : outcome[c][p] = "none"

\* A send reaches each receiver at most once.
ReachedOnce(c) ==
  /\ pc[c] \notin Dispatched \ {"rdlock"} => \A p \in Procs : outcome[c][p] = "none"
  /\ pc[c] \in {"slot", "signal", "await"} =>
       \A n \in todo[c] : n \in table /\ outcome[c][ProcOf[n]] = "none"
  /\ pc[c] \in {"signal", "await"} => map[c] \in table /\ map[c] \notin todo[c]
  /\ pc[c] = "signal" \/ (pc[c] = "await" /\ pididx[ProcOf[map[c]]] # NoArea) =>
       outcome[c][ProcOf[map[c]]] = "none"
  /\ pc[c] \in Delivering \cup {"verdict"} =>
       \A p \in Procs : outcome[c][p] # "none" =>
         \E n \in Matching(MsgOf[c]) : ProcOf[n] = p

EachReachedOnce == \A c \in Sends : ReachedOnce(c)

\* A thread of a receiver that has yet to count itself off works for a send that
\* waits for it, and no other thread of the process works for the same.
WorkersServe ==
  /\ \A p \in Procs, w \in Workers : worker[p][w].phase \in {"queued", "ran"} =>
       \E c \in Sends : /\ msg_pos[c] = worker[p][w].area /\ pc[c] \in Delivering
                        /\ outcome[c][p] = "taken"
  /\ \A p \in Procs : \A v, w \in Workers :
       /\ v # w
       /\ worker[p][v].phase \in {"queued", "ran"}
       /\ worker[p][w].phase \in {"queued", "ran"}
       => worker[p][v].area # worker[p][w].area

\* A purge has the table for itself and visits nodes that are in it.
Purging ==
  \A c \in Sends : pc[c] = "purge" => writer = c /\ todo[c] \subseteq table

\* The nodes whose process has yet to count itself off or to be purged.
Pending(c) ==
  {n \in Matching(MsgOf[c]) : outcome[c][ProcOf[n]] \in {"none", "taken"}}

\* With PromptUnlock, a thread that has yet to unlock a message holds the lock of
\* a send that still waits, and idle threads refer to no area.
UnlockServes(p, w) ==
  /\ worker[p][w].phase = "idle" => worker[p][w].area = NoArea
  /\ worker[p][w].phase = "unlocking" =>
       \E c \in Sends : /\ msg_pos[c] = worker[p][w].area /\ pc[c] \in Delivering
                        /\ outcome[c][p] \in {"good", "bad"}
                        /\ mem[msg_pos[c]].locked

UnlocksServe ==
  /\ \A p \in Procs, w \in Workers : UnlockServes(p, w)
  /\ \A p, q \in Procs, v, w \in Workers :
       /\ ~(p = q /\ v = w)
       /\ worker[p][v].phase = "unlocking" /\ worker[q][w].phase = "unlocking"
       => worker[p][v].area # worker[q][w].area

ServiceInv ==
  /\ SlotInv /\ UniqueInv
  /\ AreasOwned /\ Calm /\ Purging
  /\ EachReachedOnce
  /\ WorkersServe /\ CountExact

USE DEF Conns

-----------------------------------------------------------------------------
(* What the steps that matter do.                                          *)

\* While a send is under way nobody registers for its message any more.
LEMMA NobodyRegisters ==
  ASSUME TypeOK, Ordered, RegistrationsFirst,
         NEW c \in Sends, pc[c] # "idle",
         NEW r \in Registrations, pc[r] \notin {"free", "done"}
  PROVE  MsgOf[r] # MsgOf[c]
  BY DEF Ordered, RegistrationsFirst

\* A purge takes a node that no other send is about and that was not reached.
LEMMA PurgeIsCalm ==
  ASSUME TypeOK, Addressed, Calm, ExitsAreCalm,
         NEW d \in Sends, NEW n \in todo[d], proc[ProcOf[n]] = "gone"
  PROVE  /\ \A c \in Sends : c # d => MsgOf[c] # MsgOf[n]
         /\ \A c \in Sends : outcome[c][ProcOf[n]] = "none"
         /\ ProcOf[n] \in Mortal
<1>1. n \in Registrations /\ MsgOf[n] = MsgOf[d]
  BY DEF TypeOK, Addressed
<1>2. ProcOf[n] \in Procs
  BY <1>1, ConnsAssumption
<1>3. ProcOf[n] \in Mortal
  BY <1>2 DEF Calm
<1> QED
  BY <1>1, <1>3 DEF Calm, ExitsAreCalm

\* What the step of a process that takes a signal does to send c.
Taken(c, p) ==
  /\ pc[c] = "await" /\ map[c] \in table /\ ProcOf[map[c]] = p
  /\ MsgOf[map[c]] = MsgOf[c]
  /\ pididx[p] = msg_pos[c] /\ msg_pos[c] \in Areas
  /\ pididx_lock[p] = c
  /\ outcome[c][p] = "none"
  /\ outcome' = [outcome EXCEPT ![c][p] = "taken"]

\* What the step of a thread that counts itself off does to send c.
CountedOff(c, p, w, how) ==
  /\ pc[c] \in Delivering /\ msg_pos[c] = worker[p][w].area
  /\ msg_pos[c] \in Areas
  /\ outcome[c][p] = "taken"
  /\ outcome' = [outcome EXCEPT ![c][p] = how]
  /\ how = (IF worker[p][w].ret # 0 THEN "bad" ELSE "good")

\* An area tells its connection.
LEMMA OneOwner ==
  ASSUME AreasOwned, NEW c \in Conns, NEW d \in Conns,
         msg_pos[c] = msg_pos[d], msg_pos[c] \in Areas
  PROVE  c = d
  BY SentinelAssumption DEF AreasOwned

\* A process that takes a signal takes the message of the one send that waits
\* for it, for the first time.
LEMMA TakeEffect ==
  ASSUME ServiceInv, NEW p \in Procs, TakeSignal(p)
  PROVE  \E c \in Sends : Taken(c, p)
<1> USE ConnsAssumption, SentinelAssumption
<1>1. signal[p] /\ pididx[p] # NoArea /\ pididx_lock[p] # NoConn
  BY DEF TakeSignal, ServiceInv, SlotInv, SlotHeld, SlotDiscipline
<1>2. PICK c \in Sends : c = pididx_lock[p]
  BY <1>1 DEF ServiceInv, SlotInv, SlotHeld
<1>3. pc[c] \in {"signal", "await"} /\ ProcOf[map[c]] = p /\ pididx[p] = msg_pos[c]
  BY <1>1, <1>2 DEF ServiceInv, SlotInv, SlotHeld, SlotDiscipline
<1>4. pc[c] = "await"
  BY <1>1, <1>3 DEF ServiceInv, SlotInv, SlotHeld
<1>5. MsgOf[map[c]] = MsgOf[c] /\ msg_pos[c] \in Areas
  BY <1>4 DEF ServiceInv, SlotInv, Addressed, Delivering
<1>6. map[c] \in table /\ outcome[c][p] = "none"
  BY <1>1, <1>3, <1>4 DEF ServiceInv, EachReachedOnce, ReachedOnce
<1>7. Owner(pididx[p]) = {c}
  BY <1>3, <1>5 DEF Owner, ServiceInv, AreasOwned
<1>8. outcome' = [outcome EXCEPT ![c][p] = "taken"]
  <2>1. outcome' = [s \in Sends |-> IF s = c THEN [outcome[s] EXCEPT ![p] = "taken"]
                                     ELSE outcome[s]]
    BY <1>7 DEF TakeSignal, Record
  <2>2. outcome = [s \in Sends |-> outcome[s]]
    BY DEF ServiceInv, SlotInv, TypeOK
  <2> QED
    BY <2>1, <2>2
<1> QED
  BY <1>2, <1>3, <1>4, <1>5, <1>6, <1>8 DEF Taken

\* A thread counts itself off a send that waits for it.
LEMMA CountOffEffect ==
  ASSUME ServiceInv, NEW p \in Procs, NEW w \in Workers, CountOff(p, w)
  PROVE  \E c \in Sends, how \in {"good", "bad"} : CountedOff(c, p, w, how)
<1> USE ConnsAssumption, SentinelAssumption
<1>1. PICK c \in Sends : /\ msg_pos[c] = worker[p][w].area /\ pc[c] \in Delivering
                         /\ outcome[c][p] = "taken"
  BY DEF CountOff, ServiceInv, WorkersServe
<1>2. msg_pos[c] \in Areas
  BY <1>1 DEF ServiceInv, SlotInv, Addressed
<1>3. Owner(worker[p][w].area) = {c}
  BY <1>1, <1>2 DEF Owner, ServiceInv, AreasOwned
<1> DEFINE how == IF worker[p][w].ret # 0 THEN "bad" ELSE "good"
<1>4. outcome' = [outcome EXCEPT ![c][p] = how]
  <2>1. outcome' = [s \in Sends |-> IF s = c THEN [outcome[s] EXCEPT ![p] = how]
                                     ELSE outcome[s]]
    BY <1>3 DEF CountOff, Record
  <2>2. outcome = [s \in Sends |-> outcome[s]]
    BY DEF ServiceInv, SlotInv, TypeOK
  <2> HIDE DEF how
  <2> QED
    BY <2>1, <2>2
<1> QED
  BY <1>1, <1>2, <1>4 DEF CountedOff

\* The receivers of a send that are pending can be counted.
LEMMA PendingIsCounted ==
  ASSUME TypeOK, CountFits, NEW c \in Sends
  PROVE  /\ IsFiniteSet(Pending(c)) /\ IsFiniteSet(Matching(MsgOf[c]))
         /\ Cardinality(Pending(c)) \in 0 .. CountMod - 1
         /\ Cardinality(Matching(MsgOf[c])) \in 0 .. CountMod - 1
<1> DEFINE All == {r \in Registrations : MsgOf[r] = MsgOf[c]}
<1>1. IsFiniteSet(All) /\ Cardinality(All) < CountMod
  BY ConnsAssumption, FS_Subset DEF CountFits
<1>2. Pending(c) \subseteq All /\ Matching(MsgOf[c]) \subseteq All
  BY DEF Pending, Matching, TypeOK
<1> HIDE DEF All
<1>3. ASSUME NEW S \in SUBSET All
      PROVE  IsFiniteSet(S) /\ Cardinality(S) \in 0 .. CountMod - 1
  <2>1. IsFiniteSet(S) /\ Cardinality(S) <= Cardinality(All)
    BY <1>1, FS_Subset
  <2>2. Cardinality(S) \in Nat /\ Cardinality(All) \in Nat
    BY <1>1, <2>1, FS_CardinalityType
  <2> QED
    BY <1>1, <2>1, <2>2, CountAssumption
<1> QED
  BY <1>2, <1>3

\* A count of zero means that every receiver that took the message is done.
LEMMA ZeroIsReached ==
  ASSUME ServiceInv, CountFits, NEW c \in Sends, pc[c] \in Delivering,
         mem[msg_pos[c]].count = 0
  PROVE  /\ Pending(c) = {}
         /\ \A p \in Procs : outcome[c][p] # "taken"
<1>1. TypeOK
  BY DEF ServiceInv, SlotInv
<1>2. Cardinality(Pending(c)) = 0
  BY DEF ServiceInv, CountExact, Pending
<1>3. Pending(c) = {}
  BY <1>1, <1>2, PendingIsCounted, FS_EmptySet
<1>4. ASSUME NEW p \in Procs, outcome[c][p] = "taken" PROVE FALSE
  <2>1. PICK n \in Matching(MsgOf[c]) : ProcOf[n] = p
    BY <1>4 DEF ServiceInv, EachReachedOnce, ReachedOnce
  <2> QED
    BY <1>3, <1>4, <2>1 DEF Pending
<1> QED
  BY <1>3, <1>4

\* Only CountReceivers, CountOff and PurgeGone change a count.
LEMMA CountIsKept ==
  ASSUME TypeOK
  PROVE  /\ \A c \in Conns, b \in BOOLEAN : SetSucceeded(c, b) =>
              \A a \in Areas : mem'[a].count = mem[a].count
         /\ \A p \in Procs, w \in Workers : Unlock(p, w) =>
              \A a \in Areas : mem'[a].count = mem[a].count
<1>1. \A a \in Areas : mem[a] \in MsgAreas /\ mem \in [Areas -> MsgAreas]
  BY DEF TypeOK
<1>2. ASSUME NEW b, NEW m, Store(b, m),
             b \in Areas => m.count = mem[b].count
      PROVE  \A a \in Areas : mem'[a].count = mem[a].count
  BY <1>1, <1>2 DEF Store
<1>3. ASSUME NEW c \in Conns, NEW b \in BOOLEAN, SetSucceeded(c, b)
      PROVE  \A a \in Areas : mem'[a].count = mem[a].count
  <2> DEFINE m == [mem[msg_pos[c]] EXCEPT !.succeeded = b]
  <2>1. msg_pos[c] \in Areas => m.count = mem[msg_pos[c]].count
    BY <1>1 DEF MsgAreas
  <2> QED
    BY <1>2, <1>3, <2>1 DEF SetSucceeded
<1>4. ASSUME NEW p \in Procs, NEW w \in Workers, Unlock(p, w)
      PROVE  \A a \in Areas : mem'[a].count = mem[a].count
  <2> DEFINE b == worker[p][w].area
             m == [mem[b] EXCEPT !.locked = FALSE]
  <2>1. b \in Areas => m.count = mem[b].count
    BY <1>1 DEF MsgAreas
  <2>2. Store(b, m)
    BY <1>4 DEF Unlock
  <2> QED
    BY <1>2, <2>1, <2>2
<1> QED
  BY <1>3, <1>4

\* SetSucceeded does not touch the lock.
LEMMA LockIsKept ==
  ASSUME TypeOK
  PROVE  \A c \in Conns, b \in BOOLEAN : SetSucceeded(c, b) =>
            \A a \in Areas : mem'[a].locked = mem[a].locked
  BY DEF TypeOK, MsgAreas, SetSucceeded, Store

\* Counts below CountMod are not wrapped.
LEMMA ModIsSelf == \A n \in 0 .. CountMod - 1 : n % CountMod = n
  BY CountAssumption

\* Taking one away, within the range of the count.
LEMMA DecrementIsMinus ==
  \A n \in 1 .. CountMod - 1 : Decrement(n) = n - 1
<1> SUFFICES ASSUME NEW n \in 1 .. CountMod - 1 PROVE Decrement(n) = n - 1
  OBVIOUS
<1>1. n + CountMod - 1 = (n - 1) + 1 * CountMod /\ n - 1 \in 0 .. CountMod - 1
  BY CountAssumption
<1> QED
  BY <1>1, CountAssumption DEF Decrement

\* One receiver of a send is done with: its count is one less.
LEMMA OneLess ==
  ASSUME TypeOK, CountFits, NEW c \in Sends, NEW n \in Pending(c)
  PROVE  Decrement(Cardinality(Pending(c))) = Cardinality(Pending(c) \ {n})
<1>1. /\ IsFiniteSet(Pending(c)) /\ Cardinality(Pending(c)) \in 0 .. CountMod - 1
  BY PendingIsCounted
<1>2. Cardinality(Pending(c)) # 0
  BY <1>1, FS_EmptySet
<1>3. Cardinality(Pending(c) \ {n}) = Cardinality(Pending(c)) - 1
  BY <1>1, FS_RemoveElement
<1> QED
  BY <1>1, <1>2, <1>3, DecrementIsMinus, CountAssumption

-----------------------------------------------------------------------------
(* Each part of the invariant is kept.                                     *)

\* Areas keep their owners.
LEMMA AreasStep ==
  ASSUME TypeOK, AreasOwned, [Next]_vars
  PROVE  AreasOwned'
<1> USE ConnsAssumption, SentinelAssumption DEF TypeOK, AreasOwned, Labels,
          tableVars, slotVars, memVars, threadVars, procVars, clientVars, Goto
<1>1. ASSUME NEW c \in Conns, ClientOpen(c) PROVE AreasOwned'
  BY <1>1 DEF ClientOpen
<1>2. ASSUME NEW c \in Conns, ClientFinish(c) PROVE AreasOwned'
  BY <1>2 DEF ClientFinish
<1>3. ASSUME NEW c \in Conns, Receive(c) PROVE AreasOwned'
  BY <1>3 DEF Receive
<1>4. ASSUME NEW c \in Conns, NoSpace(c) PROVE AreasOwned'
  BY <1>4 DEF NoSpace
<1>5. ASSUME NEW c \in Conns, Answer(c) PROVE AreasOwned'
  BY <1>5 DEF Answer
<1>6. ASSUME NEW c \in Conns, Release(c) PROVE AreasOwned'
  BY <1>6 DEF Release
<1>7. ASSUME NEW c \in Registrations, Register(c) PROVE AreasOwned'
  <2>1. CASE RegisterCheck(c)
    BY <2>1 DEF RegisterCheck, SetSucceeded
  <2>2. CASE RegisterInsert(c)
    BY <2>2 DEF RegisterInsert
  <2>3. CASE RegisterMutexInit(c)
    BY <2>3 DEF RegisterMutexInit, SetSucceeded
  <2> QED
    BY <1>7, <2>1, <2>2, <2>3 DEF Register
<1>8. ASSUME NEW c \in Sends, Deliver(c) PROVE AreasOwned'
  <2>1. CASE CountReceivers(c)
    BY <2>1 DEF CountReceivers, AfterVerdict
  <2>2. CASE ReadLock(c)
    BY <2>2 DEF ReadLock, Matching
  <2>3. CASE PutSlot(c)
    BY <2>3 DEF PutSlot
  <2>4. CASE Kill(c)
    BY <2>4 DEF Kill
  <2>5. CASE AwaitZero(c)
    BY <2>5 DEF AwaitZero
  <2>6. CASE ReadUnlock(c)
    BY <2>6 DEF ReadUnlock
  <2>7. CASE Poll(c)
    BY <2>7 DEF Poll
  <2>8. CASE WriteLock(c)
    BY <2>8 DEF WriteLock, Matching
  <2>9. CASE PurgeGone(c)
    BY <2>9 DEF PurgeGone
  <2>10. CASE PurgeKeep(c)
    BY <2>10 DEF PurgeKeep
  <2>11. CASE WriteUnlock(c)
    BY <2>11 DEF WriteUnlock
  <2>12. CASE Verdict(c)
    BY <2>12 DEF Verdict, AfterVerdict, SetSucceeded
  <2> QED
    BY <1>8, <2>1, <2>2, <2>3, <2>4, <2>5, <2>6, <2>7, <2>8, <2>9,
       <2>10, <2>11, <2>12 DEF Deliver
<1>9. ASSUME NEW p \in Procs, TakeSignal(p) PROVE AreasOwned'
  BY <1>9 DEF TakeSignal, Record, Owner
<1>10. ASSUME NEW p \in Procs, Die(p) PROVE AreasOwned'
  BY <1>10 DEF Die
<1>11. ASSUME NEW p \in Procs, Reap(p) PROVE AreasOwned'
  BY <1>11 DEF Reap
<1>12. ASSUME NEW p \in Procs, NEW w \in Workers, RunHandler(p, w) PROVE AreasOwned'
  BY <1>12 DEF RunHandler
<1>13. ASSUME NEW p \in Procs, NEW w \in Workers, CountOff(p, w) PROVE AreasOwned'
  BY <1>13 DEF CountOff, Record, Owner
<1>14. ASSUME NEW p \in Procs, NEW w \in Workers, Unlock(p, w) PROVE AreasOwned'
  BY <1>14 DEF Unlock
<1>15. CASE UNCHANGED vars
  BY <1>15 DEF vars
<1> QED
  BY <1>1, <1>2, <1>3, <1>4, <1>5, <1>6, <1>7, <1>8, <1>9, <1>10,
     <1>11, <1>12, <1>13, <1>14, <1>15
     DEF Next, CoreThread, Client, WorkerStep, Accepting

\* A purge keeps the table for itself.
LEMMA PurgingStep ==
  ASSUME TypeOK, Purging, [Next]_vars
  PROVE  Purging'
<1> USE ConnsAssumption, SentinelAssumption DEF TypeOK, Purging, Labels,
          tableVars, slotVars, memVars, threadVars, procVars, clientVars, Goto
<1>1. ASSUME NEW c \in Conns, ClientOpen(c) PROVE Purging'
  BY <1>1 DEF ClientOpen
<1>2. ASSUME NEW c \in Conns, ClientFinish(c) PROVE Purging'
  BY <1>2 DEF ClientFinish
<1>3. ASSUME NEW c \in Conns, Receive(c) PROVE Purging'
  BY <1>3 DEF Receive
<1>4. ASSUME NEW c \in Conns, NoSpace(c) PROVE Purging'
  BY <1>4 DEF NoSpace
<1>5. ASSUME NEW c \in Conns, Answer(c) PROVE Purging'
  BY <1>5 DEF Answer
<1>6. ASSUME NEW c \in Conns, Release(c) PROVE Purging'
  BY <1>6 DEF Release
<1>7. ASSUME NEW c \in Registrations, Register(c) PROVE Purging'
  <2>1. CASE RegisterCheck(c)
    BY <2>1 DEF RegisterCheck, SetSucceeded
  <2>2. CASE RegisterInsert(c)
    BY <2>2 DEF RegisterInsert
  <2>3. CASE RegisterMutexInit(c)
    BY <2>3 DEF RegisterMutexInit, SetSucceeded
  <2> QED
    BY <1>7, <2>1, <2>2, <2>3 DEF Register
<1>8. ASSUME NEW c \in Sends, Deliver(c) PROVE Purging'
  <2>1. CASE CountReceivers(c)
    BY <2>1 DEF CountReceivers, AfterVerdict
  <2>2. CASE ReadLock(c)
    BY <2>2 DEF ReadLock, Matching
  <2>3. CASE PutSlot(c)
    BY <2>3 DEF PutSlot
  <2>4. CASE Kill(c)
    BY <2>4 DEF Kill
  <2>5. CASE AwaitZero(c)
    BY <2>5 DEF AwaitZero
  <2>6. CASE ReadUnlock(c)
    BY <2>6 DEF ReadUnlock
  <2>7. CASE Poll(c)
    BY <2>7 DEF Poll
  <2>8. CASE WriteLock(c)
    BY <2>8 DEF WriteLock, Matching
  <2>9. CASE PurgeGone(c)
    BY <2>9 DEF PurgeGone
  <2>10. CASE PurgeKeep(c)
    BY <2>10 DEF PurgeKeep
  <2>11. CASE WriteUnlock(c)
    BY <2>11 DEF WriteUnlock
  <2>12. CASE Verdict(c)
    BY <2>12 DEF Verdict, AfterVerdict, SetSucceeded
  <2> QED
    BY <1>8, <2>1, <2>2, <2>3, <2>4, <2>5, <2>6, <2>7, <2>8, <2>9,
       <2>10, <2>11, <2>12 DEF Deliver
<1>9. ASSUME NEW p \in Procs, TakeSignal(p) PROVE Purging'
  BY <1>9 DEF TakeSignal, Record, Owner
<1>10. ASSUME NEW p \in Procs, Die(p) PROVE Purging'
  BY <1>10 DEF Die
<1>11. ASSUME NEW p \in Procs, Reap(p) PROVE Purging'
  BY <1>11 DEF Reap
<1>12. ASSUME NEW p \in Procs, NEW w \in Workers, RunHandler(p, w) PROVE Purging'
  BY <1>12 DEF RunHandler
<1>13. ASSUME NEW p \in Procs, NEW w \in Workers, CountOff(p, w) PROVE Purging'
  BY <1>13 DEF CountOff, Record, Owner
<1>14. ASSUME NEW p \in Procs, NEW w \in Workers, Unlock(p, w) PROVE Purging'
  BY <1>14 DEF Unlock
<1>15. CASE UNCHANGED vars
  BY <1>15 DEF vars
<1> QED
  BY <1>1, <1>2, <1>3, <1>4, <1>5, <1>6, <1>7, <1>8, <1>9, <1>10,
     <1>11, <1>12, <1>13, <1>14, <1>15
     DEF Next, CoreThread, Client, WorkerStep, Accepting

\* The exits stay calm.
LEMMA CalmStep ==
  ASSUME ServiceInv, ExitsAreCalm, [Next]_vars
  PROVE  Calm'
<1>p. TypeOK /\ Calm
  BY DEF ServiceInv, SlotInv, SlotHeld, UniqueInv
<1> USE <1>p, ConnsAssumption, SentinelAssumption DEF TypeOK, Calm,
          ExitsAreCalm, Labels, tableVars, slotVars, memVars, threadVars, procVars, clientVars, Goto
<1>1. ASSUME NEW c \in Conns, ClientOpen(c) PROVE Calm'
  BY <1>1 DEF ClientOpen
<1>2. ASSUME NEW c \in Conns, ClientFinish(c) PROVE Calm'
  BY <1>2 DEF ClientFinish
<1>3. ASSUME NEW c \in Conns, Receive(c) PROVE Calm'
  BY <1>3 DEF Receive
<1>4. ASSUME NEW c \in Conns, NoSpace(c) PROVE Calm'
  BY <1>4 DEF NoSpace
<1>5. ASSUME NEW c \in Conns, Answer(c) PROVE Calm'
  BY <1>5 DEF Answer
<1>6. ASSUME NEW c \in Conns, Release(c) PROVE Calm'
  BY <1>6 DEF Release
<1>7. ASSUME NEW c \in Registrations, Register(c) PROVE Calm'
  <2>1. CASE RegisterCheck(c)
    BY <2>1 DEF RegisterCheck, SetSucceeded
  <2>2. CASE RegisterInsert(c)
    BY <2>2 DEF RegisterInsert
  <2>3. CASE RegisterMutexInit(c)
    BY <2>3 DEF RegisterMutexInit, SetSucceeded
  <2> QED
    BY <1>7, <2>1, <2>2, <2>3 DEF Register
<1>8. ASSUME NEW c \in Sends, Deliver(c) PROVE Calm'
  <2>1. CASE CountReceivers(c)
    BY <2>1 DEF CountReceivers, AfterVerdict
  <2>2. CASE ReadLock(c)
    BY <2>2 DEF ReadLock, Matching
  <2>3. CASE PutSlot(c)
    BY <2>3 DEF PutSlot
  <2>4. CASE Kill(c)
    <3>1. \A q \in Mortal : proc[q] = "gone"
      BY <2>4 DEF Kill
    <3>2. \A q \in Mortal : signal'[q] = signal[q]
      BY <2>4, <3>1 DEF Kill
    <3>3. /\ UNCHANGED <<proc, worker, outcome>>
          /\ pc' = [pc EXCEPT ![c] = "await"] /\ pc[c] = "signal"
      BY <2>4 DEF Kill
    <3>4. \A d \in Sends : pc'[d] = "idle" => pc[d] = "idle"
      BY <3>3
    <3> QED
      BY <3>1, <3>2, <3>3, <3>4
  <2>5. CASE AwaitZero(c)
    BY <2>5 DEF AwaitZero
  <2>6. CASE ReadUnlock(c)
    BY <2>6 DEF ReadUnlock
  <2>7. CASE Poll(c)
    BY <2>7 DEF Poll
  <2>8. CASE WriteLock(c)
    BY <2>8 DEF WriteLock, Matching
  <2>9. CASE PurgeGone(c)
    BY <2>9 DEF PurgeGone
  <2>10. CASE PurgeKeep(c)
    BY <2>10 DEF PurgeKeep
  <2>11. CASE WriteUnlock(c)
    BY <2>11 DEF WriteUnlock
  <2>12. CASE Verdict(c)
    BY <2>12 DEF Verdict, AfterVerdict, SetSucceeded
  <2> QED
    BY <1>8, <2>1, <2>2, <2>3, <2>4, <2>5, <2>6, <2>7, <2>8, <2>9,
       <2>10, <2>11, <2>12 DEF Deliver
<1>9. ASSUME NEW p \in Procs, TakeSignal(p) PROVE Calm'
  BY <1>9 DEF TakeSignal, Record, Owner
<1>10. ASSUME NEW p \in Procs, Die(p) PROVE Calm'
  <2>1. \A d \in Sends : pc[d] = "idle"
    BY <1>10 DEF Die
  <2>2. p \in Mortal /\ UNCHANGED <<pc, outcome>>
    BY <1>10 DEF Die
  <2>3. \A q \in Procs : q # p => proc'[q] = proc[q]
    BY <1>10 DEF Die
  <2>4. \A q \in Mortal : ~signal'[q]
    BY <1>10 DEF Die
  <2>5. \A q \in Mortal, w \in Workers : worker'[q][w].phase = "idle"
    BY <1>10 DEF Die, IdleWorker
  <2> QED
    BY <2>1, <2>2, <2>3, <2>4, <2>5
<1>11. ASSUME NEW p \in Procs, Reap(p) PROVE Calm'
  BY <1>11 DEF Reap
<1>12. ASSUME NEW p \in Procs, NEW w \in Workers, RunHandler(p, w) PROVE Calm'
  BY <1>12 DEF RunHandler
<1>13. ASSUME NEW p \in Procs, NEW w \in Workers, CountOff(p, w) PROVE Calm'
  BY <1>13 DEF CountOff, Record, Owner
<1>14. ASSUME NEW p \in Procs, NEW w \in Workers, Unlock(p, w) PROVE Calm'
  BY <1>14 DEF Unlock
<1>15. CASE UNCHANGED vars
  BY <1>15 DEF vars
<1> QED
  BY <1>1, <1>2, <1>3, <1>4, <1>5, <1>6, <1>7, <1>8, <1>9, <1>10,
     <1>11, <1>12, <1>13, <1>14, <1>15
     DEF Next, CoreThread, Client, WorkerStep, Accepting

\* A send keeps reaching each receiver once.
LEMMA ReachedStep ==
  ASSUME ServiceInv, RegistrationsFirst, ExitsAreCalm, [Next]_vars
  PROVE  EachReachedOnce'
<1>p. TypeOK /\ Addressed /\ SlotDiscipline /\ UniqueRegistration /\ Calm /\ EachReachedOnce
  BY DEF ServiceInv, SlotInv, SlotHeld, UniqueInv
<1> USE <1>p, ConnsAssumption, SentinelAssumption DEF TypeOK, Addressed,
          EachReachedOnce, ReachedOnce, Dispatched, Delivering, Matching, Labels,
          tableVars, slotVars, memVars, threadVars, procVars, clientVars, Goto
<1>1. ASSUME NEW c \in Conns, ClientOpen(c) PROVE EachReachedOnce'
  BY <1>1 DEF ClientOpen
<1>2. ASSUME NEW c \in Conns, ClientFinish(c) PROVE EachReachedOnce'
  BY <1>2 DEF ClientFinish
<1>3. ASSUME NEW c \in Conns, Receive(c) PROVE EachReachedOnce'
  BY <1>3 DEF Receive
<1>4. ASSUME NEW c \in Conns, NoSpace(c) PROVE EachReachedOnce'
  BY <1>4 DEF NoSpace
<1>5. ASSUME NEW c \in Conns, Answer(c) PROVE EachReachedOnce'
  BY <1>5 DEF Answer
<1>6. ASSUME NEW c \in Conns, Release(c) PROVE EachReachedOnce'
  BY <1>6 DEF Release
<1>7. ASSUME NEW c \in Registrations, Register(c) PROVE EachReachedOnce'
  <2>1. CASE RegisterCheck(c)
    BY <2>1 DEF RegisterCheck, SetSucceeded
  <2>2. CASE RegisterInsert(c)
    BY <2>2 DEF RegisterInsert
  <2>3. CASE RegisterMutexInit(c)
    BY <2>3 DEF RegisterMutexInit, SetSucceeded
  <2> QED
    BY <1>7, <2>1, <2>2, <2>3 DEF Register
<1>8. ASSUME NEW c \in Sends, Deliver(c) PROVE EachReachedOnce'
  <2>1. CASE CountReceivers(c)
    BY <2>1 DEF CountReceivers, AfterVerdict
  <2>2. CASE ReadLock(c)
    BY <2>2 DEF ReadLock, Matching
  <2>3. CASE PutSlot(c)
    <3>1. PICK n \in todo[c] :
            /\ pididx_lock[ProcOf[n]] = NoConn
            /\ pididx' = [pididx EXCEPT ![ProcOf[n]] = msg_pos[c]]
            /\ map' = [map EXCEPT ![c] = n]
            /\ todo' = [todo EXCEPT ![c] = @ \ {n}]
      BY <2>3 DEF PutSlot
    <3>2. /\ pc[c] = "slot" /\ pc' = [pc EXCEPT ![c] = "signal"]
          /\ UNCHANGED <<table, outcome>>
      BY <2>3 DEF PutSlot
    <3>3. n \in table /\ outcome[c][ProcOf[n]] = "none"
      BY <3>2
    <3>4. ASSUME NEW d \in Sends, d # c PROVE ReachedOnce(d)'
      <4>1. pc[d] = "await" => pididx_lock[ProcOf[map[d]]] = d
        BY DEF SlotDiscipline
      <4>2. pc[d] = "await" => ProcOf[map[d]] # ProcOf[n]
        BY <3>1, <4>1
      <4> QED
        BY <3>1, <3>2, <3>4, <4>2
    <3>5. ReachedOnce(c)'
      BY <3>1, <3>2, <3>3
    <3> HIDE DEF ReachedOnce
    <3> QED
      BY <3>4, <3>5
  <2>4. CASE Kill(c)
    BY <2>4 DEF Kill
  <2>5. CASE AwaitZero(c)
    BY <2>5 DEF AwaitZero
  <2>6. CASE ReadUnlock(c)
    BY <2>6 DEF ReadUnlock
  <2>7. CASE Poll(c)
    BY <2>7 DEF Poll
  <2>8. CASE WriteLock(c)
    BY <2>8 DEF WriteLock, Matching
  <2>9. CASE PurgeGone(c)
    <3>1. PICK n \in todo[c] : /\ proc[ProcOf[n]] = "gone"
                               /\ table' = table \ {n}
                               /\ todo' = [todo EXCEPT ![c] = @ \ {n}]
      BY <2>9 DEF PurgeGone
    <3>2. pc[c] = "purge" /\ UNCHANGED <<pc, outcome, map, pididx>>
      BY <2>9 DEF PurgeGone
    <3>3. /\ \A d \in Sends : d # c => MsgOf[d] # MsgOf[n]
          /\ \A d \in Sends : outcome[d][ProcOf[n]] = "none"
      BY <3>1, PurgeIsCalm
    <3> QED
      BY <3>1, <3>2, <3>3
  <2>10. CASE PurgeKeep(c)
    BY <2>10 DEF PurgeKeep
  <2>11. CASE WriteUnlock(c)
    BY <2>11 DEF WriteUnlock
  <2>12. CASE Verdict(c)
    BY <2>12 DEF Verdict, AfterVerdict, SetSucceeded
  <2> QED
    BY <1>8, <2>1, <2>2, <2>3, <2>4, <2>5, <2>6, <2>7, <2>8, <2>9,
       <2>10, <2>11, <2>12 DEF Deliver
<1>9. ASSUME NEW p \in Procs, TakeSignal(p) PROVE EachReachedOnce'
  <2>0. PICK s \in Sends : Taken(s, p)
    BY <1>9, TakeEffect
  <2>1. /\ pc[s] = "await" /\ map[s] \in table /\ ProcOf[map[s]] = p
        /\ MsgOf[map[s]] = MsgOf[s]
        /\ pididx[p] = msg_pos[s] /\ msg_pos[s] \in Areas
        /\ outcome[s][p] = "none"
        /\ outcome' = [outcome EXCEPT ![s][p] = "taken"]
    BY <2>0 DEF Taken
  <2>2. UNCHANGED <<pc, table, todo, map>> /\ pididx' = [pididx EXCEPT ![p] = NoArea]
    BY <1>9 DEF TakeSignal
  <2>3. \A n \in todo[s] : ProcOf[n] # p
    <3>1. \A n \in todo[s] : n \in table /\ MsgOf[n] = MsgOf[s] /\ n # map[s]
      BY <2>1
    <3> QED
      BY <2>1, <3>1 DEF UniqueRegistration
  <2>4. ASSUME NEW d \in Sends, d # s PROVE ReachedOnce(d)'
    BY <2>1, <2>2, <2>4
  <2>5. ReachedOnce(s)'
    BY <2>1, <2>2, <2>3
  <2> HIDE DEF ReachedOnce
  <2> QED
    BY <2>4, <2>5
<1>10. ASSUME NEW p \in Procs, Die(p) PROVE EachReachedOnce'
  BY <1>10 DEF Die
<1>11. ASSUME NEW p \in Procs, Reap(p) PROVE EachReachedOnce'
  BY <1>11 DEF Reap
<1>12. ASSUME NEW p \in Procs, NEW w \in Workers, RunHandler(p, w) PROVE EachReachedOnce'
  BY <1>12 DEF RunHandler
<1>13. ASSUME NEW p \in Procs, NEW w \in Workers, CountOff(p, w) PROVE EachReachedOnce'
  <2>0. PICK s \in Sends, how \in {"good", "bad"} : CountedOff(s, p, w, how)
    BY <1>13, CountOffEffect
  <2>1. /\ pc[s] \in Delivering /\ outcome[s][p] = "taken"
        /\ outcome' = [outcome EXCEPT ![s][p] = how]
    BY <2>0 DEF CountedOff
  <2>2. UNCHANGED <<pc, table, todo, map, pididx>>
    BY <1>13 DEF CountOff
  <2> QED
    BY <2>1, <2>2
<1>14. ASSUME NEW p \in Procs, NEW w \in Workers, Unlock(p, w) PROVE EachReachedOnce'
  BY <1>14 DEF Unlock
<1>15. CASE UNCHANGED vars
  BY <1>15 DEF vars
<1> QED
  BY <1>1, <1>2, <1>3, <1>4, <1>5, <1>6, <1>7, <1>8, <1>9, <1>10,
     <1>11, <1>12, <1>13, <1>14, <1>15
     DEF Next, CoreThread, Client, WorkerStep, Accepting

\* The threads of the receivers keep serving sends that wait for them.
LEMMA WorkersStep ==
  ASSUME ServiceInv, CountFits, [Next]_vars
  PROVE  WorkersServe'
<1>p. TypeOK /\ Addressed /\ AreasOwned /\ WorkersServe
  BY DEF ServiceInv, SlotInv, SlotHeld, UniqueInv
<1> DEFINE Serving(q, v) == worker[q][v].phase \in {"queued", "ran"}
<1>0. ASSUME UNCHANGED outcome,
             \A q \in Procs, v \in Workers :
               Serving(q, v)' => Serving(q, v) /\ worker'[q][v].area = worker[q][v].area,
             \A d \in Sends : pc[d] \in Delivering =>
               pc'[d] \in Delivering /\ msg_pos'[d] = msg_pos[d]
      PROVE  WorkersServe'
  BY <1>p, <1>0 DEF WorkersServe
<1> USE <1>p, ConnsAssumption, SentinelAssumption DEF TypeOK, Addressed,
          WorkersServe, AreasOwned, Delivering, WorkerStates, IdleWorker, Labels,
          tableVars, slotVars, memVars, threadVars, procVars, clientVars, Goto
<1>1. ASSUME NEW c \in Conns, ClientOpen(c) PROVE WorkersServe'
  BY <1>1 DEF ClientOpen
<1>2. ASSUME NEW c \in Conns, ClientFinish(c) PROVE WorkersServe'
  BY <1>2 DEF ClientFinish
<1>3. ASSUME NEW c \in Conns, Receive(c) PROVE WorkersServe'
  <2>1. UNCHANGED <<worker, outcome>>
    BY <1>3 DEF Receive
  <2>2. \A d \in Sends : pc[d] \in Delivering =>
          pc'[d] \in Delivering /\ msg_pos'[d] = msg_pos[d]
    BY <1>3 DEF Receive
  <2> QED
    BY <1>0, <2>1, <2>2
<1>4. ASSUME NEW c \in Conns, NoSpace(c) PROVE WorkersServe'
  BY <1>4 DEF NoSpace
<1>5. ASSUME NEW c \in Conns, Answer(c) PROVE WorkersServe'
  <2>1. UNCHANGED <<worker, outcome>>
    BY <1>5 DEF Answer
  <2>2. \A d \in Sends : pc[d] \in Delivering =>
          pc'[d] \in Delivering /\ msg_pos'[d] = msg_pos[d]
    BY <1>5 DEF Answer
  <2> QED
    BY <1>0, <2>1, <2>2
<1>6. ASSUME NEW c \in Conns, Release(c) PROVE WorkersServe'
  <2>1. UNCHANGED <<worker, outcome>>
    BY <1>6 DEF Release
  <2>2. \A d \in Sends : pc[d] \in Delivering =>
          pc'[d] \in Delivering /\ msg_pos'[d] = msg_pos[d]
    BY <1>6 DEF Release
  <2> QED
    BY <1>0, <2>1, <2>2
<1>7. ASSUME NEW c \in Registrations, Register(c) PROVE WorkersServe'
  <2>1. CASE RegisterCheck(c)
    <3>1. Goto(c, "answer") \/ Goto(c, "insert")
      <4> HIDE DEF Goto
      <4> QED
        BY <2>1 DEF RegisterCheck
    <3>2. \A d \in Sends : pc'[d] = pc[d]
      BY <3>1
    <3>3. UNCHANGED <<worker, outcome, msg_pos>>
      BY <2>1 DEF RegisterCheck
    <3> QED
      BY <1>0, <3>2, <3>3
  <2>2. CASE RegisterInsert(c)
    BY <2>2 DEF RegisterInsert
  <2>3. CASE RegisterMutexInit(c)
    BY <2>3 DEF RegisterMutexInit, SetSucceeded
  <2> QED
    BY <1>7, <2>1, <2>2, <2>3 DEF Register
<1>8. ASSUME NEW c \in Sends, Deliver(c) PROVE WorkersServe'
  <2>1. CASE CountReceivers(c)
    <3>1. UNCHANGED <<worker, outcome>>
      BY <2>1 DEF CountReceivers, AfterVerdict
    <3>2. \A d \in Sends : pc[d] \in Delivering =>
            pc'[d] \in Delivering /\ msg_pos'[d] = msg_pos[d]
      BY <2>1 DEF CountReceivers, AfterVerdict
    <3> QED
      BY <1>0, <3>1, <3>2
  <2>2. CASE ReadLock(c)
    BY <2>2 DEF ReadLock, Matching
  <2>3. CASE PutSlot(c)
    BY <2>3 DEF PutSlot
  <2>4. CASE Kill(c)
    BY <2>4 DEF Kill
  <2>5. CASE AwaitZero(c)
    BY <2>5 DEF AwaitZero
  <2>6. CASE ReadUnlock(c)
    BY <2>6 DEF ReadUnlock
  <2>7. CASE Poll(c)
    <3>1. CASE mem[msg_pos[c]].count = 0
      <4>1. pc[c] = "poll" /\ pc' = [pc EXCEPT ![c] = "verdict"]
            /\ UNCHANGED <<worker, msg_pos, outcome>>
        BY <2>7, <3>1 DEF Poll
      <4>2. \A p \in Procs : outcome[c][p] # "taken"
        BY <3>1, <4>1, ZeroIsReached
      <4> QED
        BY <4>1, <4>2
    <3>2. CASE mem[msg_pos[c]].count # 0
      BY <2>7, <3>2 DEF Poll
    <3> QED
      BY <3>1, <3>2
  <2>8. CASE WriteLock(c)
    BY <2>8 DEF WriteLock, Matching
  <2>9. CASE PurgeGone(c)
    BY <2>9 DEF PurgeGone
  <2>10. CASE PurgeKeep(c)
    BY <2>10 DEF PurgeKeep
  <2>11. CASE WriteUnlock(c)
    BY <2>11 DEF WriteUnlock
  <2>12. CASE Verdict(c)
    <3>1. UNCHANGED <<worker, outcome>>
      BY <2>12 DEF Verdict, AfterVerdict
    <3>2. \A d \in Sends : pc[d] \in Delivering =>
            pc'[d] \in Delivering /\ msg_pos'[d] = msg_pos[d]
      BY <2>12 DEF Verdict, AfterVerdict
    <3> QED
      BY <1>0, <3>1, <3>2
  <2> QED
    BY <1>8, <2>1, <2>2, <2>3, <2>4, <2>5, <2>6, <2>7, <2>8, <2>9,
       <2>10, <2>11, <2>12 DEF Deliver
<1>9. ASSUME NEW p \in Procs, TakeSignal(p) PROVE WorkersServe'
  <2>0. PICK s \in Sends : Taken(s, p)
    BY <1>9, TakeEffect
  <2>1. /\ pc[s] = "await" /\ map[s] \in table /\ ProcOf[map[s]] = p
        /\ pididx[p] = msg_pos[s] /\ msg_pos[s] \in Areas
        /\ outcome[s][p] = "none"
        /\ outcome' = [outcome EXCEPT ![s][p] = "taken"]
    BY <2>0 DEF Taken
  <2>2. PICK x \in IdleWorkers(p) :
          worker' = [worker EXCEPT ![p][x] =
                       [phase |-> "queued", area |-> msg_pos[s], ret |-> 0]]
    <3> DEFINE y == CHOOSE w \in IdleWorkers(p) : TRUE
    <3>1. y \in IdleWorkers(p)
      BY <1>9 DEF TakeSignal
    <3>2. worker' = [worker EXCEPT ![p][y] =
                       [phase |-> "queued", area |-> msg_pos[s], ret |-> 0]]
      BY <1>9, <2>1 DEF TakeSignal
    <3> HIDE DEF y
    <3> QED
      BY <3>1, <3>2
  <2>3. UNCHANGED <<pc, msg_pos>> /\ x \in Workers /\ worker[p][x].phase = "idle"
    BY <1>9, <2>2 DEF TakeSignal, IdleWorkers
  <2>4. \A v \in Workers :
          worker[p][v].phase \in {"queued", "ran"} => worker[p][v].area # msg_pos[s]
    <3>1. ASSUME NEW v \in Workers, worker[p][v].phase \in {"queued", "ran"},
                 worker[p][v].area = msg_pos[s]
          PROVE  FALSE
      <4>1. PICK d \in Sends : msg_pos[d] = msg_pos[s] /\ outcome[d][p] = "taken"
        BY <3>1
      <4>2. d = s
        BY <2>1, <4>1, OneOwner
      <4> QED
        BY <2>1, <4>1, <4>2
    <3> QED
      BY <3>1
  <2>5. \A q \in Procs, v \in Workers :
          /\ q = p /\ v = x => /\ worker'[q][v].phase = "queued"
                               /\ worker'[q][v].area = msg_pos[s]
          /\ ~(q = p /\ v = x) => worker'[q][v] = worker[q][v]
    BY <2>2, <2>3
  <2>6. /\ outcome'[s][p] = "taken"
        /\ \A d \in Sends, q \in Procs : ~(d = s /\ q = p) => outcome'[d][q] = outcome[d][q]
    BY <2>1
  <2>7. ASSUME NEW q \in Procs, NEW v \in Workers,
               worker'[q][v].phase \in {"queued", "ran"}
        PROVE  \E c \in Sends : /\ msg_pos[c] = worker'[q][v].area
                                /\ pc[c] \in Delivering /\ outcome'[c][q] = "taken"
    <3>1. CASE q = p /\ v = x
      <4>1. msg_pos[s] = worker'[q][v].area
        BY <2>5, <3>1
      <4>2. pc[s] \in Delivering /\ outcome'[s][q] = "taken"
        BY <2>1, <2>6, <3>1
      <4> QED
        BY <4>1, <4>2
    <3>2. CASE ~(q = p /\ v = x)
      <4>1. PICK d \in Sends : /\ msg_pos[d] = worker[q][v].area /\ pc[d] \in Delivering
                              /\ outcome[d][q] = "taken"
        BY <2>5, <2>7, <3>2
      <4>2. msg_pos[d] = worker'[q][v].area
        BY <2>5, <3>2, <4>1
      <4>3. outcome'[d][q] = "taken"
        <5>1. CASE d = s /\ q = p
          BY <2>6, <5>1
        <5>2. CASE ~(d = s /\ q = p)
          BY <2>6, <4>1, <5>2
        <5> QED
          BY <5>1, <5>2
      <4> QED
        BY <4>1, <4>2, <4>3
    <3> QED
      BY <3>1, <3>2
  <2>8. ASSUME NEW q \in Procs, NEW u \in Workers, NEW v \in Workers, u # v,
               worker'[q][u].phase \in {"queued", "ran"},
               worker'[q][v].phase \in {"queued", "ran"}
        PROVE  worker'[q][u].area # worker'[q][v].area
    BY <2>4, <2>5, <2>8
  <2> QED
    BY <2>3, <2>7, <2>8
<1>10. ASSUME NEW p \in Procs, Die(p) PROVE WorkersServe'
  BY <1>10 DEF Die
<1>11. ASSUME NEW p \in Procs, Reap(p) PROVE WorkersServe'
  BY <1>11 DEF Reap
<1>12. ASSUME NEW p \in Procs, NEW w \in Workers, RunHandler(p, w) PROVE WorkersServe'
  <2>1. UNCHANGED <<outcome, pc, msg_pos>>
    BY <1>12 DEF RunHandler
  <2>2. PICK r \in {0, -1} :
          worker' = [worker EXCEPT ![p][w] = [@ EXCEPT !.phase = "ran", !.ret = r]]
    BY <1>12 DEF RunHandler
  <2>3. worker[p][w].phase = "queued"
    BY <1>12 DEF RunHandler
  <2>4. \A q \in Procs, v \in Workers :
          Serving(q, v)' => Serving(q, v) /\ worker'[q][v].area = worker[q][v].area
    BY <2>2, <2>3
  <2> QED
    BY <1>0, <2>1, <2>4
<1>13. ASSUME NEW p \in Procs, NEW w \in Workers, CountOff(p, w) PROVE WorkersServe'
  <2>0. PICK s \in Sends, how \in {"good", "bad"} : CountedOff(s, p, w, how)
    BY <1>13, CountOffEffect
  <2>1. /\ pc[s] \in Delivering /\ msg_pos[s] = worker[p][w].area
        /\ msg_pos[s] \in Areas
        /\ outcome[s][p] = "taken"
        /\ outcome' = [outcome EXCEPT ![s][p] = how]
    BY <2>0 DEF CountedOff
  <2>2. /\ worker[p][w].phase = "ran" /\ UNCHANGED <<pc, msg_pos>>
        /\ worker' = [worker EXCEPT ![p][w] = [@ EXCEPT !.phase = "unlocking"]]
    BY <1>13 DEF CountOff
  <2>3. \A q \in Procs, v \in Workers :
          /\ q = p /\ v = w => worker'[q][v].phase = "unlocking"
          /\ ~(q = p /\ v = w) => worker'[q][v] = worker[q][v]
    BY <2>2
  <2>4. \A d \in Sends, q \in Procs : ~(d = s /\ q = p) => outcome'[d][q] = outcome[d][q]
    BY <2>1
  <2>5. \A v \in Workers : v # w /\ worker[p][v].phase \in {"queued", "ran"} =>
          worker[p][v].area # msg_pos[s]
    BY <2>1, <2>2
  <2> QED
    BY <2>1, <2>2, <2>3, <2>4, <2>5
<1>14. ASSUME NEW p \in Procs, NEW w \in Workers, Unlock(p, w) PROVE WorkersServe'
  BY <1>14 DEF Unlock
<1>15. CASE UNCHANGED vars
  BY <1>15 DEF vars
<1> QED
  BY <1>1, <1>2, <1>3, <1>4, <1>5, <1>6, <1>7, <1>8, <1>9, <1>10,
     <1>11, <1>12, <1>13, <1>14, <1>15
     DEF Next, CoreThread, Client, WorkerStep, Accepting

\* The counts stay exact.
LEMMA CountStep ==
  ASSUME ServiceInv, RegistrationsFirst, ExitsAreCalm, CountFits, [Next]_vars
  PROVE  CountExact'
<1>p. TypeOK /\ Addressed /\ AreasOwned /\ CountExact
  BY DEF ServiceInv, SlotInv, SlotHeld, UniqueInv
<1> DEFINE Counted(c) == mem[msg_pos[c]].count = Cardinality(Pending(c))
<1>a. CountExact <=> \A c \in Sends : pc[c] \in Delivering => Counted(c)
  BY DEF CountExact, Pending
<1>b. CountExact' <=> \A c \in Sends : pc'[c] \in Delivering => Counted(c)'
  BY DEF CountExact, Pending
<1> HIDE DEF Counted
<1> DEFINE Kept(c) == /\ pc[c] \in Delivering /\ msg_pos'[c] = msg_pos[c]
                      /\ mem'[msg_pos[c]].count = mem[msg_pos[c]].count
<1>d. ASSUME \A c \in Sends : pc'[c] \in Delivering => Kept(c),
             \A c \in Sends : pc[c] \in Delivering => Pending(c)' = Pending(c)
      PROVE  CountExact'
  BY <1>p, <1>a, <1>b, <1>d DEF Counted
<1>0. ASSUME \A c \in Sends : pc'[c] \in Delivering => Kept(c),
             UNCHANGED <<table, outcome>>
      PROVE  CountExact'
  BY <1>0, <1>d DEF Pending, Matching
<1> USE <1>p, ConnsAssumption, SentinelAssumption DEF TypeOK, Addressed,
          AreasOwned, Delivering, Labels,
          tableVars, slotVars, memVars, threadVars, procVars, clientVars, Goto
<1>1. ASSUME NEW c \in Conns, ClientOpen(c) PROVE CountExact'
  <2>1. UNCHANGED <<table, outcome>>
    BY <1>1 DEF ClientOpen
  <2>2. \A d \in Sends : pc'[d] \in Delivering => Kept(d)
    BY <1>1 DEF ClientOpen
  <2> QED
    BY <1>0, <2>1, <2>2
<1>2. ASSUME NEW c \in Conns, ClientFinish(c) PROVE CountExact'
  <2>1. UNCHANGED <<table, outcome>>
    BY <1>2 DEF ClientFinish
  <2>2. \A d \in Sends : pc'[d] \in Delivering => Kept(d)
    BY <1>2 DEF ClientFinish
  <2> QED
    BY <1>0, <2>1, <2>2
<1>3. ASSUME NEW c \in Conns, Receive(c) PROVE CountExact'
  <2>1. pc[c] = "receive" /\ UNCHANGED <<table, outcome>>
    BY <1>3 DEF Receive
  <2>2. PICK a \in Areas \ used : /\ \A b \in Areas : b # a => mem'[b] = mem[b]
                                  /\ msg_pos' = [msg_pos EXCEPT ![c] = a]
    BY <1>3 DEF Receive, Store
  <2>3. pc'[c] \in {"check", "count", "free"} /\ \A d \in Conns : d # c => pc'[d] = pc[d]
    BY <1>3 DEF Receive
  <2>4. ASSUME NEW d \in Sends, pc'[d] \in Delivering PROVE Kept(d)
    <3>1. d # c /\ pc[d] \in Delivering
      BY <2>3, <2>4
    <3>2. msg_pos[d] \in Areas /\ msg_pos[d] \in used
      BY <3>1
    <3> QED
      BY <2>2, <3>1, <3>2
  <2> QED
    BY <1>0, <2>1, <2>4
<1>4. ASSUME NEW c \in Conns, NoSpace(c) PROVE CountExact'
  <2>1. UNCHANGED <<table, outcome>>
    BY <1>4 DEF NoSpace
  <2>2. \A d \in Sends : pc'[d] \in Delivering => Kept(d)
    BY <1>4 DEF NoSpace
  <2> QED
    BY <1>0, <2>1, <2>2
<1>5. ASSUME NEW c \in Conns, Answer(c) PROVE CountExact'
  <2>1. UNCHANGED <<table, outcome>>
    BY <1>5 DEF Answer
  <2>2. \A d \in Sends : pc'[d] \in Delivering => Kept(d)
    BY <1>5 DEF Answer
  <2> QED
    BY <1>0, <2>1, <2>2
<1>6. ASSUME NEW c \in Conns, Release(c) PROVE CountExact'
  <2>1. UNCHANGED <<table, outcome>>
    BY <1>6 DEF Release
  <2>2. \A d \in Sends : pc'[d] \in Delivering => Kept(d)
    BY <1>6 DEF Release
  <2> QED
    BY <1>0, <2>1, <2>2
<1>7. ASSUME NEW c \in Registrations, Register(c) PROVE CountExact'
  <2>1. CASE RegisterCheck(c)
    <3>1. Goto(c, "answer") \/ Goto(c, "insert")
      <4> HIDE DEF Goto
      <4> QED
        BY <2>1 DEF RegisterCheck
    <3>2. \A d \in Sends : pc'[d] = pc[d]
      BY <3>1
    <3>3. UNCHANGED <<table, outcome, msg_pos>> /\ (SetSucceeded(c, FALSE) \/ UNCHANGED mem)
      BY <2>1 DEF RegisterCheck
    <3>4. \A d \in Sends : pc'[d] \in Delivering => Kept(d)
      BY <3>2, <3>3, CountIsKept
    <3> QED
      BY <1>0, <3>3, <3>4
  <2>2. CASE RegisterInsert(c)
    <3>1. /\ pc[c] = "insert" /\ pc' = [pc EXCEPT ![c] = "mutex"]
          /\ table' = table \cup {c} /\ UNCHANGED <<mem, msg_pos, outcome>>
      BY <2>2 DEF RegisterInsert
    <3>2. \A d \in Sends : pc'[d] \in Delivering => Kept(d)
      BY <3>1
    <3>3. \A d \in Sends : pc[d] \in Delivering => MsgOf[c] # MsgOf[d]
      <4>1. Ordered
        BY DEF ServiceInv, SlotInv
      <4> HIDE DEF TypeOK
      <4> QED
        BY <1>p, <3>1, <4>1, NobodyRegisters
    <3>4. \A d \in Sends : pc[d] \in Delivering => Pending(d)' = Pending(d)
      BY <3>1, <3>3 DEF Pending, Matching
    <3> QED
      BY <1>d, <3>2, <3>4
  <2>3. CASE RegisterMutexInit(c)
    <3>1. UNCHANGED <<table, outcome>>
      BY <2>3 DEF RegisterMutexInit
    <3>2. \A d \in Sends : pc'[d] \in Delivering => Kept(d)
      BY <2>3, CountIsKept DEF RegisterMutexInit
    <3> QED
      BY <1>0, <3>1, <3>2
  <2> QED
    BY <1>7, <2>1, <2>2, <2>3 DEF Register
<1>8. ASSUME NEW c \in Sends, Deliver(c) PROVE CountExact'
  <2>1. CASE CountReceivers(c)
    <3> DEFINE n == Cardinality(Matching(MsgOf[c]))
    <3>1. n \in 0 .. CountMod - 1
      BY PendingIsCounted
    <3>2. n % CountMod = n
      BY <3>1, ModIsSelf
    <3>3. /\ pc[c] = "count" /\ UNCHANGED <<table, outcome, msg_pos>>
          /\ mem' = [mem EXCEPT ![msg_pos[c]] =
                       [mem[msg_pos[c]] EXCEPT !.count = n, !.succeeded = n > 0]]
      BY <2>1, <3>2 DEF CountReceivers, Store
    <3>4. /\ \A d \in Sends : d # c => pc'[d] = pc[d]
          /\ pc'[c] \in {"rdlock", "ret", "free"}
      BY <2>1 DEF CountReceivers, AfterVerdict
    <3>5. Pending(c) = Matching(MsgOf[c])
      <4>1. ReachedOnce(c)
        BY DEF ServiceInv, EachReachedOnce
      <4>2. \A p \in Procs : outcome[c][p] = "none"
        BY <3>3, <4>1 DEF ReachedOnce, Dispatched
      <4> QED
        BY <4>2 DEF Pending, Matching
    <3>6. Counted(c)'
      <4>1. Pending(c)' = Pending(c)
        BY <3>3 DEF Pending, Matching
      <4>2. mem'[msg_pos[c]].count = n
        BY <3>3 DEF MsgAreas
      <4> QED
        BY <3>3, <3>5, <4>1, <4>2 DEF Counted
    <3>7. ASSUME NEW d \in Sends, d # c, pc'[d] \in Delivering PROVE Counted(d)'
      <4>1. pc[d] \in Delivering /\ msg_pos[d] # msg_pos[c]
        BY <3>3, <3>4, <3>7 DEF AreasOwned
      <4>2. Pending(d)' = Pending(d)
        BY <3>3 DEF Pending, Matching
      <4> QED
        BY <1>a, <3>3, <4>1, <4>2 DEF Counted
    <3> QED
      BY <1>b, <3>6, <3>7
  <2>2. CASE ReadLock(c)
    <3>1. UNCHANGED <<table, outcome>>
      BY <2>2 DEF ReadLock, Matching
    <3>2. \A d \in Sends : pc'[d] \in Delivering => Kept(d)
      BY <2>2 DEF ReadLock, Matching
    <3> QED
      BY <1>0, <3>1, <3>2
  <2>3. CASE PutSlot(c)
    <3>1. UNCHANGED <<table, outcome>>
      BY <2>3 DEF PutSlot
    <3>2. \A d \in Sends : pc'[d] \in Delivering => Kept(d)
      BY <2>3 DEF PutSlot
    <3> QED
      BY <1>0, <3>1, <3>2
  <2>4. CASE Kill(c)
    <3>1. UNCHANGED <<table, outcome>>
      BY <2>4 DEF Kill
    <3>2. \A d \in Sends : pc'[d] \in Delivering => Kept(d)
      BY <2>4 DEF Kill
    <3> QED
      BY <1>0, <3>1, <3>2
  <2>5. CASE AwaitZero(c)
    <3>1. UNCHANGED <<table, outcome>>
      BY <2>5 DEF AwaitZero
    <3>2. \A d \in Sends : pc'[d] \in Delivering => Kept(d)
      BY <2>5 DEF AwaitZero
    <3> QED
      BY <1>0, <3>1, <3>2
  <2>6. CASE ReadUnlock(c)
    <3>1. UNCHANGED <<table, outcome>>
      BY <2>6 DEF ReadUnlock
    <3>2. \A d \in Sends : pc'[d] \in Delivering => Kept(d)
      BY <2>6 DEF ReadUnlock
    <3> QED
      BY <1>0, <3>1, <3>2
  <2>7. CASE Poll(c)
    <3>1. UNCHANGED <<table, outcome>>
      BY <2>7 DEF Poll
    <3>2. \A d \in Sends : pc'[d] \in Delivering => Kept(d)
      BY <2>7 DEF Poll
    <3> QED
      BY <1>0, <3>1, <3>2
  <2>8. CASE WriteLock(c)
    <3>1. UNCHANGED <<table, outcome>>
      BY <2>8 DEF WriteLock, Matching
    <3>2. \A d \in Sends : pc'[d] \in Delivering => Kept(d)
      BY <2>8 DEF WriteLock, Matching
    <3> QED
      BY <1>0, <3>1, <3>2
  <2>9. CASE PurgeGone(c)
    <3>1. PICK n \in todo[c] : /\ proc[ProcOf[n]] = "gone"
                               /\ table' = table \ {n}
                               /\ mem' = [mem EXCEPT ![msg_pos[c]] =
                                    [mem[msg_pos[c]] EXCEPT !.count = Decrement(@)]]
      BY <2>9 DEF PurgeGone, Store
    <3>2. pc[c] = "purge" /\ UNCHANGED <<pc, outcome, msg_pos>>
      BY <2>9 DEF PurgeGone
    <3>3. /\ \A d \in Sends : d # c => MsgOf[d] # MsgOf[n]
          /\ \A d \in Sends : outcome[d][ProcOf[n]] = "none"
      <4>1. Calm
        BY DEF ServiceInv
      <4> HIDE DEF TypeOK, Addressed
      <4> QED
        BY <1>p, <3>1, <4>1, PurgeIsCalm
    <3>4. n \in Pending(c)
      <4>1. n \in table
        BY <3>1, <3>2 DEF ServiceInv, Purging
      <4> QED
        BY <3>1, <3>3, <4>1 DEF Pending, Matching
    <3>5. Pending(c)' = Pending(c) \ {n}
      BY <3>1, <3>2 DEF Pending, Matching
    <3>6. Counted(c)'
      <4>1. mem'[msg_pos[c]].count = Decrement(mem[msg_pos[c]].count)
        BY <3>1, <3>2 DEF MsgAreas
      <4>2. mem[msg_pos[c]].count = Cardinality(Pending(c))
        BY <1>a, <3>2 DEF Counted
      <4> QED
        BY <3>2, <3>4, <3>5, <4>1, <4>2, OneLess DEF Counted
    <3>7. ASSUME NEW d \in Sends, d # c, pc'[d] \in Delivering PROVE Counted(d)'
      <4>1. pc[d] \in Delivering /\ msg_pos[d] # msg_pos[c]
        BY <3>2, <3>7 DEF AreasOwned
      <4>2. Pending(d)' = Pending(d)
        BY <3>1, <3>2, <3>3, <3>7 DEF Pending, Matching
      <4> QED
        BY <1>a, <3>1, <3>2, <4>1, <4>2 DEF Counted
    <3> QED
      BY <1>b, <3>6, <3>7
  <2>10. CASE PurgeKeep(c)
    <3>1. UNCHANGED <<table, outcome>>
      BY <2>10 DEF PurgeKeep
    <3>2. \A d \in Sends : pc'[d] \in Delivering => Kept(d)
      BY <2>10 DEF PurgeKeep
    <3> QED
      BY <1>0, <3>1, <3>2
  <2>11. CASE WriteUnlock(c)
    <3>1. UNCHANGED <<table, outcome>>
      BY <2>11 DEF WriteUnlock
    <3>2. \A d \in Sends : pc'[d] \in Delivering => Kept(d)
      BY <2>11 DEF WriteUnlock
    <3> QED
      BY <1>0, <3>1, <3>2
  <2>12. CASE Verdict(c)
    <3>1. UNCHANGED <<table, outcome>>
      BY <2>12 DEF Verdict, AfterVerdict
    <3>2. \A d \in Sends : pc'[d] \in Delivering => Kept(d)
      BY <2>12, CountIsKept DEF Verdict, AfterVerdict
    <3> QED
      BY <1>0, <3>1, <3>2
  <2> QED
    BY <1>8, <2>1, <2>2, <2>3, <2>4, <2>5, <2>6, <2>7, <2>8, <2>9,
       <2>10, <2>11, <2>12 DEF Deliver
<1>9. ASSUME NEW p \in Procs, TakeSignal(p) PROVE CountExact'
  <2>0. PICK s \in Sends : Taken(s, p)
    BY <1>9, TakeEffect
  <2>1. /\ pc[s] = "await" /\ map[s] \in table /\ ProcOf[map[s]] = p
        /\ pididx[p] = msg_pos[s] /\ msg_pos[s] \in Areas
        /\ outcome[s][p] = "none"
        /\ outcome' = [outcome EXCEPT ![s][p] = "taken"]
    BY <2>0 DEF Taken
  <2>2. UNCHANGED <<pc, table, mem, msg_pos>>
    BY <1>9 DEF TakeSignal
  <2>3. \A d \in Sends : Pending(d)' = Pending(d)
    BY <2>1, <2>2 DEF Pending, Matching
  <2> QED
    BY <1>d, <2>2, <2>3
<1>10. ASSUME NEW p \in Procs, Die(p) PROVE CountExact'
  <2>1. UNCHANGED <<table, outcome>>
    BY <1>10 DEF Die
  <2>2. \A d \in Sends : pc'[d] \in Delivering => Kept(d)
    BY <1>10 DEF Die
  <2> QED
    BY <1>0, <2>1, <2>2
<1>11. ASSUME NEW p \in Procs, Reap(p) PROVE CountExact'
  <2>1. UNCHANGED <<table, outcome>>
    BY <1>11 DEF Reap
  <2>2. \A d \in Sends : pc'[d] \in Delivering => Kept(d)
    BY <1>11 DEF Reap
  <2> QED
    BY <1>0, <2>1, <2>2
<1>12. ASSUME NEW p \in Procs, NEW w \in Workers, RunHandler(p, w) PROVE CountExact'
  <2>1. UNCHANGED <<table, outcome>>
    BY <1>12 DEF RunHandler
  <2>2. \A d \in Sends : pc'[d] \in Delivering => Kept(d)
    BY <1>12 DEF RunHandler
  <2> QED
    BY <1>0, <2>1, <2>2
<1>13. ASSUME NEW p \in Procs, NEW w \in Workers, CountOff(p, w) PROVE CountExact'
  <2>0. PICK s \in Sends, how \in {"good", "bad"} : CountedOff(s, p, w, how)
    BY <1>13, CountOffEffect
  <2>1. /\ pc[s] \in Delivering /\ msg_pos[s] = worker[p][w].area
        /\ msg_pos[s] \in Areas
        /\ outcome[s][p] = "taken"
        /\ outcome' = [outcome EXCEPT ![s][p] = how]
    BY <2>0 DEF CountedOff
  <2>2. PICK n \in Matching(MsgOf[s]) : ProcOf[n] = p
    <3>1. ReachedOnce(s)
      BY DEF ServiceInv, EachReachedOnce
    <3> QED
      BY <2>1, <3>1 DEF ReachedOnce
  <2>3. /\ UNCHANGED <<pc, table, msg_pos>>
        /\ mem' = [mem EXCEPT ![msg_pos[s]] =
             [mem[msg_pos[s]] EXCEPT !.locked = TRUE,
                !.succeeded = @ /\ ~(mem[msg_pos[s]].block /\ worker[p][w].ret # 0),
                !.count = Decrement(@)]]
    BY <1>13, <2>1 DEF CountOff, Store
  <2>4. n \in Pending(s)
    BY <2>1, <2>2 DEF Pending
  <2>5. Pending(s)' = Pending(s) \ {n}
    <3>1. \A q \in Matching(MsgOf[s]) : ProcOf[q] = p => q = n
      BY <2>2 DEF Matching, ServiceInv, UniqueInv, UniqueRegistration
    <3>2. /\ outcome'[s][p] \in {"good", "bad"}
          /\ \A q \in Procs : q # p => outcome'[s][q] = outcome[s][q]
      BY <2>1
    <3> QED
      BY <2>2, <2>3, <3>1, <3>2 DEF Pending, Matching
  <2>6. Counted(s)'
    <3>1. mem'[msg_pos[s]].count = Decrement(mem[msg_pos[s]].count)
      BY <2>1, <2>3 DEF MsgAreas
    <3>2. mem[msg_pos[s]].count = Cardinality(Pending(s))
      BY <1>a, <2>1 DEF Counted
    <3> QED
      BY <2>3, <2>4, <2>5, <3>1, <3>2, OneLess DEF Counted
  <2>7. ASSUME NEW d \in Sends, d # s, pc'[d] \in Delivering PROVE Counted(d)'
    <3>1. pc[d] \in Delivering /\ msg_pos[d] # msg_pos[s]
      BY <2>1, <2>3, <2>7 DEF AreasOwned
    <3>2. Pending(d)' = Pending(d)
      BY <2>1, <2>3, <2>7 DEF Pending, Matching
    <3> QED
      BY <1>a, <2>3, <3>1, <3>2 DEF Counted
  <2> QED
    BY <1>b, <2>6, <2>7
<1>14. ASSUME NEW p \in Procs, NEW w \in Workers, Unlock(p, w) PROVE CountExact'
  <2>1. UNCHANGED <<table, outcome>>
    BY <1>14 DEF Unlock
  <2>2. \A d \in Sends : pc'[d] \in Delivering => Kept(d)
    BY <1>14, CountIsKept DEF Unlock
  <2> QED
    BY <1>0, <2>1, <2>2
<1>15. CASE UNCHANGED vars
  <2>1. UNCHANGED <<table, outcome>>
    BY <1>15 DEF vars
  <2>2. \A d \in Sends : pc'[d] \in Delivering => Kept(d)
    BY <1>15 DEF vars
  <2> QED
    BY <1>0, <2>1, <2>2
<1> QED
  BY <1>1, <1>2, <1>3, <1>4, <1>5, <1>6, <1>7, <1>8, <1>9, <1>10,
     <1>11, <1>12, <1>13, <1>14, <1>15
     DEF Next, CoreThread, Client, WorkerStep, Accepting

\* The threads that unlock keep serving sends that wait.
LEMMA UnlocksStep ==
  ASSUME ServiceInv, UnlocksServe, PromptUnlock, [Next]_vars
  PROVE  UnlocksServe'
<1>p. TypeOK /\ Addressed /\ AreasOwned /\ WorkersServe
  BY DEF ServiceInv, SlotInv
<1> DEFINE Freeing(p, w) == worker[p][w].phase = "unlocking"
<1>0. ASSUME UNCHANGED <<worker, outcome>>,
             \A d \in Sends : pc[d] \in Delivering /\ mem[msg_pos[d]].locked =>
               /\ pc'[d] \in Delivering /\ msg_pos'[d] = msg_pos[d]
               /\ mem'[msg_pos[d]].locked
      PROVE  UnlocksServe'
  <2>1. \A p \in Procs, w \in Workers : UnlockServes(p, w)'
    BY <1>0 DEF UnlocksServe, UnlockServes
  <2> QED
    BY <1>0, <2>1 DEF UnlocksServe
<1>s. ASSUME UNCHANGED <<pc, msg_pos, mem>>,
             \A d \in Sends, q \in Procs :
               outcome[d][q] \in {"good", "bad"} => outcome'[d][q] = outcome[d][q],
             \A q \in Procs, v \in Workers :
               worker'[q][v].phase \in {"idle", "unlocking"} =>
                 \/ worker'[q][v].phase = "idle" /\ worker'[q][v].area = NoArea
                 \/ worker'[q][v] = worker[q][v]
      PROVE  UnlocksServe'
  <2>1. \A p \in Procs, w \in Workers : UnlockServes(p, w)'
    BY <1>s DEF UnlocksServe, UnlockServes
  <2> QED
    BY <1>s, <2>1 DEF UnlocksServe
<1> USE <1>p, ConnsAssumption, SentinelAssumption DEF TypeOK, Addressed,
          AreasOwned, Delivering, WorkerStates, IdleWorker, Labels,
          tableVars, slotVars, memVars, threadVars, procVars, clientVars, Goto
<1>1. ASSUME NEW c \in Conns, ClientOpen(c) PROVE UnlocksServe'
  <2>1. UNCHANGED <<worker, outcome>>
    BY <1>1 DEF ClientOpen
  <2>2. \A d \in Sends : pc[d] \in Delivering /\ mem[msg_pos[d]].locked =>
          /\ pc'[d] \in Delivering /\ msg_pos'[d] = msg_pos[d]
          /\ mem'[msg_pos[d]].locked
    BY <1>1 DEF ClientOpen
  <2> QED
    BY <1>0, <2>1, <2>2
<1>2. ASSUME NEW c \in Conns, ClientFinish(c) PROVE UnlocksServe'
  <2>1. UNCHANGED <<worker, outcome>>
    BY <1>2 DEF ClientFinish
  <2>2. \A d \in Sends : pc[d] \in Delivering /\ mem[msg_pos[d]].locked =>
          /\ pc'[d] \in Delivering /\ msg_pos'[d] = msg_pos[d]
          /\ mem'[msg_pos[d]].locked
    BY <1>2 DEF ClientFinish
  <2> QED
    BY <1>0, <2>1, <2>2
<1>3. ASSUME NEW c \in Conns, Receive(c) PROVE UnlocksServe'
  <2>1. pc[c] = "receive" /\ UNCHANGED <<worker, outcome>>
    BY <1>3 DEF Receive
  <2>2. PICK a \in Areas \ used : /\ \E m : mem' = [mem EXCEPT ![a] = m]
                                  /\ msg_pos' = [msg_pos EXCEPT ![c] = a]
    BY <1>3 DEF Receive, Store
  <2>3. \A d \in Conns : d # c => pc'[d] = pc[d]
    BY <1>3 DEF Receive
  <2>4. ASSUME NEW d \in Sends, pc[d] \in Delivering
        PROVE  /\ d # c /\ pc'[d] = pc[d] /\ msg_pos'[d] = msg_pos[d]
               /\ mem'[msg_pos[d]] = mem[msg_pos[d]]
    <3>1. d # c /\ msg_pos[d] \in Areas /\ msg_pos[d] \in used
      BY <2>1, <2>4
    <3> QED
      BY <2>2, <2>3, <3>1
  <2> QED
    BY <1>0, <2>1, <2>4
<1>4. ASSUME NEW c \in Conns, NoSpace(c) PROVE UnlocksServe'
  <2>1. UNCHANGED <<worker, outcome>>
    BY <1>4 DEF NoSpace
  <2>2. \A d \in Sends : pc[d] \in Delivering /\ mem[msg_pos[d]].locked =>
          /\ pc'[d] \in Delivering /\ msg_pos'[d] = msg_pos[d]
          /\ mem'[msg_pos[d]].locked
    BY <1>4 DEF NoSpace
  <2> QED
    BY <1>0, <2>1, <2>2
<1>5. ASSUME NEW c \in Conns, Answer(c) PROVE UnlocksServe'
  <2>1. UNCHANGED <<worker, outcome>>
    BY <1>5 DEF Answer
  <2>2. \A d \in Sends : pc[d] \in Delivering /\ mem[msg_pos[d]].locked =>
          /\ pc'[d] \in Delivering /\ msg_pos'[d] = msg_pos[d]
          /\ mem'[msg_pos[d]].locked
    BY <1>5 DEF Answer
  <2> QED
    BY <1>0, <2>1, <2>2
<1>6. ASSUME NEW c \in Conns, Release(c) PROVE UnlocksServe'
  <2>1. UNCHANGED <<worker, outcome>>
    BY <1>6 DEF Release
  <2>2. \A d \in Sends : pc[d] \in Delivering /\ mem[msg_pos[d]].locked =>
          /\ pc'[d] \in Delivering /\ msg_pos'[d] = msg_pos[d]
          /\ mem'[msg_pos[d]].locked
    BY <1>6 DEF Release
  <2> QED
    BY <1>0, <2>1, <2>2
<1>7. ASSUME NEW c \in Registrations, Register(c) PROVE UnlocksServe'
  <2>1. CASE RegisterCheck(c)
    <3>1. Goto(c, "answer") \/ Goto(c, "insert")
      <4> HIDE DEF Goto
      <4> QED
        BY <2>1 DEF RegisterCheck
    <3>2. \A d \in Sends : pc'[d] = pc[d]
      BY <3>1
    <3>3. UNCHANGED <<worker, outcome, msg_pos>> /\ (SetSucceeded(c, FALSE) \/ UNCHANGED mem)
      BY <2>1 DEF RegisterCheck
    <3>4. \A d \in Sends : pc[d] \in Delivering => mem'[msg_pos[d]].locked = mem[msg_pos[d]].locked
      BY <3>3, LockIsKept
    <3> QED
      BY <1>0, <3>2, <3>3, <3>4
  <2>2. CASE RegisterInsert(c)
    <3>1. UNCHANGED <<worker, outcome>>
      BY <2>2 DEF RegisterInsert
    <3>2. \A d \in Sends : pc[d] \in Delivering /\ mem[msg_pos[d]].locked =>
            /\ pc'[d] \in Delivering /\ msg_pos'[d] = msg_pos[d]
            /\ mem'[msg_pos[d]].locked
      BY <2>2 DEF RegisterInsert
    <3> QED
      BY <1>0, <3>1, <3>2
  <2>3. CASE RegisterMutexInit(c)
    <3>1. UNCHANGED <<worker, outcome>>
      BY <2>3 DEF RegisterMutexInit
    <3>2. \A d \in Sends : pc[d] \in Delivering /\ mem[msg_pos[d]].locked =>
            /\ pc'[d] \in Delivering /\ msg_pos'[d] = msg_pos[d]
            /\ mem'[msg_pos[d]].locked
      BY <2>3, LockIsKept DEF RegisterMutexInit
    <3> QED
      BY <1>0, <3>1, <3>2
  <2> QED
    BY <1>7, <2>1, <2>2, <2>3 DEF Register
<1>8. ASSUME NEW c \in Sends, Deliver(c) PROVE UnlocksServe'
  <2>1. CASE CountReceivers(c)
    <3>1. pc[c] = "count" /\ UNCHANGED <<worker, outcome, msg_pos>>
      BY <2>1 DEF CountReceivers
    <3>2. \A d \in Sends : d # c => pc'[d] = pc[d]
      BY <2>1 DEF CountReceivers
    <3>3. \A a \in Areas : mem'[a].locked = mem[a].locked
      BY <2>1 DEF CountReceivers, Store, MsgAreas
    <3> QED
      BY <1>0, <3>1, <3>2, <3>3
  <2>2. CASE ReadLock(c)
    <3>1. UNCHANGED <<worker, outcome>>
      BY <2>2 DEF ReadLock, Matching
    <3>2. \A d \in Sends : pc[d] \in Delivering /\ mem[msg_pos[d]].locked =>
            /\ pc'[d] \in Delivering /\ msg_pos'[d] = msg_pos[d]
            /\ mem'[msg_pos[d]].locked
      BY <2>2 DEF ReadLock, Matching
    <3> QED
      BY <1>0, <3>1, <3>2
  <2>3. CASE PutSlot(c)
    <3>1. UNCHANGED <<worker, outcome>>
      BY <2>3 DEF PutSlot
    <3>2. \A d \in Sends : pc[d] \in Delivering /\ mem[msg_pos[d]].locked =>
            /\ pc'[d] \in Delivering /\ msg_pos'[d] = msg_pos[d]
            /\ mem'[msg_pos[d]].locked
      BY <2>3 DEF PutSlot
    <3> QED
      BY <1>0, <3>1, <3>2
  <2>4. CASE Kill(c)
    <3>1. UNCHANGED <<worker, outcome>>
      BY <2>4 DEF Kill
    <3>2. \A d \in Sends : pc[d] \in Delivering /\ mem[msg_pos[d]].locked =>
            /\ pc'[d] \in Delivering /\ msg_pos'[d] = msg_pos[d]
            /\ mem'[msg_pos[d]].locked
      BY <2>4 DEF Kill
    <3> QED
      BY <1>0, <3>1, <3>2
  <2>5. CASE AwaitZero(c)
    <3>1. UNCHANGED <<worker, outcome>>
      BY <2>5 DEF AwaitZero
    <3>2. \A d \in Sends : pc[d] \in Delivering /\ mem[msg_pos[d]].locked =>
            /\ pc'[d] \in Delivering /\ msg_pos'[d] = msg_pos[d]
            /\ mem'[msg_pos[d]].locked
      BY <2>5 DEF AwaitZero
    <3> QED
      BY <1>0, <3>1, <3>2
  <2>6. CASE ReadUnlock(c)
    <3>1. UNCHANGED <<worker, outcome>>
      BY <2>6 DEF ReadUnlock
    <3>2. \A d \in Sends : pc[d] \in Delivering /\ mem[msg_pos[d]].locked =>
            /\ pc'[d] \in Delivering /\ msg_pos'[d] = msg_pos[d]
            /\ mem'[msg_pos[d]].locked
      BY <2>6 DEF ReadUnlock
    <3> QED
      BY <1>0, <3>1, <3>2
  <2>7. CASE Poll(c)
    <3>1. ~mem[msg_pos[c]].locked \/ mem[msg_pos[c]].count # 0
      BY <2>7 DEF Poll
    <3>2. UNCHANGED <<worker, outcome, msg_pos, mem>> /\ pc[c] = "poll"
      BY <2>7 DEF Poll
    <3>3. \A d \in Sends : d # c => pc'[d] = pc[d]
      BY <2>7 DEF Poll
    <3>4. mem[msg_pos[c]].count # 0 => pc'[c] = "wrlock"
      BY <2>7 DEF Poll
    <3> QED
      BY <1>0, <3>1, <3>2, <3>3, <3>4
  <2>8. CASE WriteLock(c)
    <3>1. UNCHANGED <<worker, outcome>>
      BY <2>8 DEF WriteLock, Matching
    <3>2. \A d \in Sends : pc[d] \in Delivering /\ mem[msg_pos[d]].locked =>
            /\ pc'[d] \in Delivering /\ msg_pos'[d] = msg_pos[d]
            /\ mem'[msg_pos[d]].locked
      BY <2>8 DEF WriteLock, Matching
    <3> QED
      BY <1>0, <3>1, <3>2
  <2>9. CASE PurgeGone(c)
    <3>1. UNCHANGED <<pc, worker, outcome, msg_pos>>
      BY <2>9 DEF PurgeGone
    <3>2. \A a \in Areas : mem'[a].locked = mem[a].locked
      BY <2>9 DEF PurgeGone, Store, MsgAreas
    <3> QED
      BY <1>0, <3>1, <3>2
  <2>10. CASE PurgeKeep(c)
    <3>1. UNCHANGED <<worker, outcome>>
      BY <2>10 DEF PurgeKeep
    <3>2. \A d \in Sends : pc[d] \in Delivering /\ mem[msg_pos[d]].locked =>
            /\ pc'[d] \in Delivering /\ msg_pos'[d] = msg_pos[d]
            /\ mem'[msg_pos[d]].locked
      BY <2>10 DEF PurgeKeep
    <3> QED
      BY <1>0, <3>1, <3>2
  <2>11. CASE WriteUnlock(c)
    <3>1. UNCHANGED <<worker, outcome>>
      BY <2>11 DEF WriteUnlock
    <3>2. \A d \in Sends : pc[d] \in Delivering /\ mem[msg_pos[d]].locked =>
            /\ pc'[d] \in Delivering /\ msg_pos'[d] = msg_pos[d]
            /\ mem'[msg_pos[d]].locked
      BY <2>11 DEF WriteUnlock
    <3> QED
      BY <1>0, <3>1, <3>2
  <2>12. CASE Verdict(c)
    <3>1. UNCHANGED <<worker, outcome>>
      BY <2>12 DEF Verdict, AfterVerdict
    <3>2. \A d \in Sends : pc[d] \in Delivering /\ mem[msg_pos[d]].locked =>
            /\ pc'[d] \in Delivering /\ msg_pos'[d] = msg_pos[d]
            /\ mem'[msg_pos[d]].locked
      BY <2>12, LockIsKept DEF Verdict, AfterVerdict
    <3> QED
      BY <1>0, <3>1, <3>2
  <2> QED
    BY <1>8, <2>1, <2>2, <2>3, <2>4, <2>5, <2>6, <2>7, <2>8, <2>9,
       <2>10, <2>11, <2>12 DEF Deliver
<1>9. ASSUME NEW p \in Procs, TakeSignal(p) PROVE UnlocksServe'
  <2>0. PICK s \in Sends : Taken(s, p)
    BY <1>9, TakeEffect
  <2>1. outcome[s][p] = "none" /\ outcome' = [outcome EXCEPT ![s][p] = "taken"]
    BY <2>0 DEF Taken
  <2> DEFINE x == CHOOSE w \in IdleWorkers(p) : TRUE
  <2>2. x \in Workers /\ worker[p][x].phase = "idle"
    BY <1>9 DEF TakeSignal, IdleWorkers
  <2>3. worker' = [worker EXCEPT ![p][x] =
                     [phase |-> "queued", area |-> pididx[p], ret |-> 0]]
    BY <1>9 DEF TakeSignal
  <2> HIDE DEF x
  <2>4. UNCHANGED <<pc, msg_pos, mem>>
    BY <1>9 DEF TakeSignal
  <2>5. \A d \in Sends, q \in Procs :
          outcome[d][q] \in {"good", "bad"} => outcome'[d][q] = outcome[d][q]
    BY <2>1
  <2>6. \A q \in Procs, v \in Workers :
          worker'[q][v].phase \in {"idle", "unlocking"} => worker'[q][v] = worker[q][v]
    BY <2>2, <2>3
  <2> QED
    BY <1>s, <2>4, <2>5, <2>6
<1>10. ASSUME NEW p \in Procs, Die(p) PROVE UnlocksServe'
  <2>1. UNCHANGED <<pc, msg_pos, mem, outcome>>
    BY <1>10 DEF Die
  <2>2. \A q \in Procs, v \in Workers :
          worker'[q][v] = IdleWorker \/ worker'[q][v] = worker[q][v]
    BY <1>10 DEF Die
  <2>3. \A q \in Procs, v \in Workers :
          \/ worker'[q][v].phase = "idle" /\ worker'[q][v].area = NoArea
          \/ worker'[q][v] = worker[q][v]
    BY <2>2
  <2> HIDE DEF IdleWorker
  <2> QED
    BY <1>s, <2>1, <2>3
<1>11. ASSUME NEW p \in Procs, Reap(p) PROVE UnlocksServe'
  <2>1. UNCHANGED <<worker, outcome>>
    BY <1>11 DEF Reap
  <2>2. \A d \in Sends : pc[d] \in Delivering /\ mem[msg_pos[d]].locked =>
          /\ pc'[d] \in Delivering /\ msg_pos'[d] = msg_pos[d]
          /\ mem'[msg_pos[d]].locked
    BY <1>11 DEF Reap
  <2> QED
    BY <1>0, <2>1, <2>2
<1>12. ASSUME NEW p \in Procs, NEW w \in Workers, RunHandler(p, w) PROVE UnlocksServe'
  <2>1. UNCHANGED <<pc, msg_pos, mem, outcome>>
    BY <1>12 DEF RunHandler
  <2>2. /\ worker'[p][w].phase = "ran"
        /\ \A q \in Procs, v \in Workers :
             ~(q = p /\ v = w) => worker'[q][v] = worker[q][v]
    BY <1>12 DEF RunHandler
  <2>3. \A q \in Procs, v \in Workers :
          worker'[q][v].phase \in {"idle", "unlocking"} => worker'[q][v] = worker[q][v]
    BY <2>2
  <2> QED
    BY <1>s, <2>1, <2>3
<1>13. ASSUME NEW p \in Procs, NEW w \in Workers, CountOff(p, w) PROVE UnlocksServe'
  <2>0. PICK s \in Sends, how \in {"good", "bad"} : CountedOff(s, p, w, how)
    BY <1>13, CountOffEffect
  <2>1. /\ pc[s] \in Delivering /\ msg_pos[s] = worker[p][w].area
        /\ msg_pos[s] \in Areas /\ outcome[s][p] = "taken"
        /\ outcome' = [outcome EXCEPT ![s][p] = how]
    BY <2>0 DEF CountedOff
  <2>2. UNCHANGED <<pc, msg_pos>>
    BY <1>13 DEF CountOff
  <2>3. /\ ~mem[msg_pos[s]].locked /\ mem'[msg_pos[s]].locked
        /\ \A a \in Areas : mem[a].locked => mem'[a].locked
    BY <1>13, <2>1 DEF CountOff, Store, MsgAreas
  <2>4. /\ worker'[p][w].phase = "unlocking" /\ worker'[p][w].area = msg_pos[s]
        /\ \A q \in Procs, v \in Workers :
             ~(q = p /\ v = w) => worker'[q][v] = worker[q][v]
    BY <1>13, <2>1 DEF CountOff
  <2>5. outcome'[s][p] \in {"good", "bad"}
    BY <2>1
  <2>6. \A d \in Sends, q \in Procs :
          outcome[d][q] \in {"good", "bad"} => outcome'[d][q] = outcome[d][q]
    BY <2>1
  <2>7. \A q \in Procs, v \in Workers : Freeing(q, v) => worker[q][v].area # msg_pos[s]
    BY <2>3 DEF UnlocksServe, UnlockServes
  <2>8. ASSUME NEW q \in Procs, NEW v \in Workers PROVE UnlockServes(q, v)'
    <3>1. CASE q = p /\ v = w
      BY <2>1, <2>2, <2>3, <2>4, <2>5, <3>1 DEF UnlockServes
    <3>2. CASE ~(q = p /\ v = w)
      <4>1. worker'[q][v] = worker[q][v] /\ UnlockServes(q, v)
        BY <2>4, <3>2 DEF UnlocksServe
      <4> QED
        <5>1. CASE worker[q][v].phase # "unlocking"
          BY <4>1, <5>1 DEF UnlockServes
        <5>2. CASE worker[q][v].phase = "unlocking"
          <6>1. PICK d \in Sends : /\ msg_pos[d] = worker[q][v].area /\ pc[d] \in Delivering
                                  /\ outcome[d][q] \in {"good", "bad"}
                                  /\ mem[msg_pos[d]].locked
            BY <4>1, <5>2 DEF UnlockServes
          <6>2. mem'[msg_pos[d]].locked
            BY <2>3, <6>1
          <6> QED
            <7>1. outcome'[d][q] \in {"good", "bad"}
              BY <2>6, <6>1
            <7>2. pc'[d] \in Delivering /\ msg_pos'[d] = worker'[q][v].area
              BY <2>2, <4>1, <6>1
            <7>3. mem'[msg_pos'[d]].locked /\ worker'[q][v].phase = "unlocking"
              BY <2>2, <4>1, <5>2, <6>2
            <7> QED
              BY <7>1, <7>2, <7>3 DEF UnlockServes
        <5> QED
          BY <5>1, <5>2
    <3> QED
      BY <3>1, <3>2
  <2>9. ASSUME NEW q \in Procs, NEW r \in Procs, NEW u \in Workers, NEW v \in Workers,
               ~(q = r /\ u = v),
               worker'[q][u].phase = "unlocking", worker'[r][v].phase = "unlocking"
        PROVE  worker'[q][u].area # worker'[r][v].area
    <3>1. CASE ~(q = p /\ u = w) /\ ~(r = p /\ v = w)
      BY <2>4, <2>9, <3>1 DEF UnlocksServe
    <3>2. CASE q = p /\ u = w
      BY <2>4, <2>7, <2>9, <3>2
    <3>3. CASE r = p /\ v = w
      BY <2>4, <2>7, <2>9, <3>3
    <3> QED
      BY <3>1, <3>2, <3>3
  <2> QED
    BY <2>8, <2>9 DEF UnlocksServe
<1>14. ASSUME NEW p \in Procs, NEW w \in Workers, Unlock(p, w) PROVE UnlocksServe'
  <2>1. UNCHANGED <<pc, msg_pos, outcome>> /\ Freeing(p, w)
    BY <1>14 DEF Unlock
  <2>2. /\ worker'[p][w] = IdleWorker
        /\ \A q \in Procs, v \in Workers :
             ~(q = p /\ v = w) => worker'[q][v] = worker[q][v]
    BY <1>14 DEF Unlock
  <2>3. \A a \in Areas : a # worker[p][w].area => mem'[a] = mem[a]
    BY <1>14 DEF Unlock, Store
  <2>4. ASSUME NEW q \in Procs, NEW v \in Workers, worker'[q][v].phase = "unlocking"
        PROVE  /\ Freeing(q, v) /\ worker'[q][v] = worker[q][v]
               /\ worker[q][v].area # worker[p][w].area
    BY <2>1, <2>2, <2>4 DEF UnlocksServe
  <2>5. ASSUME NEW q \in Procs, NEW v \in Workers PROVE UnlockServes(q, v)'
    <3>1. CASE q = p /\ v = w
      BY <2>2, <3>1 DEF UnlockServes
    <3>2. CASE ~(q = p /\ v = w)
      <4>1. worker'[q][v] = worker[q][v] /\ UnlockServes(q, v)
        BY <2>2, <3>2 DEF UnlocksServe
      <4> QED
        <5>1. CASE worker[q][v].phase # "unlocking"
          BY <4>1, <5>1 DEF UnlockServes
        <5>2. CASE worker[q][v].phase = "unlocking"
          <6>1. PICK d \in Sends : /\ msg_pos[d] = worker[q][v].area /\ pc[d] \in Delivering
                                  /\ outcome[d][q] \in {"good", "bad"}
                                  /\ mem[msg_pos[d]].locked
            BY <4>1, <5>2 DEF UnlockServes
          <6>2. mem'[msg_pos[d]].locked
            BY <2>3, <2>4, <4>1, <5>2, <6>1
          <6> QED
            BY <2>1, <4>1, <5>2, <6>1, <6>2 DEF UnlockServes
        <5> QED
          BY <5>1, <5>2
    <3> QED
      BY <3>1, <3>2
  <2> QED
    BY <2>4, <2>5 DEF UnlocksServe
<1>15. CASE UNCHANGED vars
  <2>1. UNCHANGED <<worker, outcome>>
    BY <1>15 DEF vars
  <2>2. \A d \in Sends : pc[d] \in Delivering /\ mem[msg_pos[d]].locked =>
          /\ pc'[d] \in Delivering /\ msg_pos'[d] = msg_pos[d]
          /\ mem'[msg_pos[d]].locked
    BY <1>15 DEF vars
  <2> QED
    BY <1>0, <2>1, <2>2
<1> QED
  BY <1>1, <1>2, <1>3, <1>4, <1>5, <1>6, <1>7, <1>8, <1>9, <1>10,
     <1>11, <1>12, <1>13, <1>14, <1>15
     DEF Next, CoreThread, Client, WorkerStep, Accepting

-----------------------------------------------------------------------------
(* The theorems.                                                           *)

\* The invariant holds initially.
LEMMA ServiceInit == Init => ServiceInv
<1> SUFFICES ASSUME Init PROVE ServiceInv
  OBVIOUS
<1> USE ConnsAssumption, SentinelAssumption DEF Init
<1>1. TypeOK
  BY InitType
<1>2. Ordered /\ Addressed /\ SlotHeld /\ Acknowledged
  BY DEF Ordered, Addressed, SlotHeld, SlotDiscipline, Acknowledged, Delivering
<1>3. UniqueInv
  BY <1>1, <1>2 DEF UniqueInv, UniqueRegistration
<1>4. AreasOwned
  BY DEF AreasOwned
<1>5. Calm
  BY DEF Calm, IdleWorker
<1>6. Purging
  BY DEF Purging
<1>7. EachReachedOnce
  BY DEF EachReachedOnce, ReachedOnce, Dispatched, Delivering
<1>8. WorkersServe
  BY DEF WorkersServe, IdleWorker
<1>9. CountExact
  BY DEF CountExact, Delivering
<1> QED
  BY <1>1, <1>2, <1>3, <1>4, <1>5, <1>6, <1>7, <1>8, <1>9 DEF ServiceInv, SlotInv

\* It is kept by every step.
LEMMA ServiceStep ==
  ASSUME CalmService, ServiceInv, [Next]_vars
  PROVE  ServiceInv'
<1> USE DEF CalmService
<1>1. SlotInv /\ UniqueInv /\ TypeOK /\ AreasOwned /\ Purging
  BY DEF ServiceInv, SlotInv
<1>2. SlotInv'
  BY <1>1, NextType, OrderedStep, AddressedStep, SlotStep, AcknowledgedStep
     DEF SlotInv
<1>3. UniqueInv'
  BY <1>1, UniqueStep
<1>4. AreasOwned'
  BY <1>1, AreasStep
<1>5. Calm'
  BY CalmStep
<1>6. Purging'
  BY <1>1, PurgingStep
<1>7. EachReachedOnce'
  BY ReachedStep
<1>8. WorkersServe'
  BY WorkersStep
<1>9. CountExact'
  BY CountStep
<1> QED
  BY <1>2, <1>3, <1>4, <1>5, <1>6, <1>7, <1>8, <1>9 DEF ServiceInv

\* It holds in every state.
LEMMA ServiceHolds ==
  ASSUME CalmService
  PROVE  Spec => []ServiceInv
<1>1. ServiceInv /\ [Next]_vars => ServiceInv'
  BY ServiceStep
<1> QED
  BY <1>1, ServiceInit, PTL DEF Spec

\* The count of an area is always the number of its receivers that have yet to
\* count themselves off or to be purged (emi_core.c:199-262, emi_ifr.c:106).
THEOREM CountIsExact ==
  ASSUME CalmService
  PROVE  Spec => []CountExact
<1>1. ServiceInv => CountExact
  BY DEF ServiceInv
<1> QED
  BY <1>1, ServiceHolds, PTL

\* No area is freed under a handler that has not counted itself off
\* (emi_core.c:238, 289).
THEOREM AreasAreNotFreedEarly ==
  ASSUME CalmService
  PROVE  Spec => []NoEarlyFree
<1>1. ServiceInv => NoEarlyFree
  <2> SUFFICES ASSUME ServiceInv, NEW p \in Procs, NEW w \in Workers,
                      worker[p][w].phase \in {"queued", "ran"}
               PROVE  /\ worker[p][w].area \in used
                      /\ \E c \in Owner(worker[p][w].area) :
                           pc[c] \in Delivering /\ outcome[c][p] = "taken"
    BY DEF NoEarlyFree
  <2>1. PICK c \in Sends : /\ msg_pos[c] = worker[p][w].area /\ pc[c] \in Delivering
                           /\ outcome[c][p] = "taken"
    BY DEF ServiceInv, WorkersServe
  <2>2. msg_pos[c] \in Areas
    BY <2>1 DEF ServiceInv, SlotInv, Addressed
  <2>3. msg_pos[c] # NoArea /\ msg_pos[c] \in used
    BY <2>2, SentinelAssumption DEF ServiceInv, AreasOwned
  <2> QED
    BY <2>1, <2>3 DEF Owner
<1> QED
  BY <1>1, ServiceHolds, PTL

\* If no poll falls between the count-- of a receiver and its unlock, nobody
\* refers to an area that is handed out (emi_core.c:136-142, emi_ifr.c:106-107).
THEOREM AreasAreEmpty ==
  ASSUME CalmService, PromptUnlock
  PROVE  Spec => []AreaIsEmpty
<1>1. Init => UnlocksServe
  BY DEF Init, UnlocksServe, UnlockServes, IdleWorker
<1>2. ServiceInv /\ UnlocksServe /\ [Next]_vars => UnlocksServe'
  BY UnlocksStep
<1>3. ServiceInv /\ UnlocksServe => AreaIsEmpty
  <2> SUFFICES ASSUME ServiceInv, UnlocksServe, NEW c \in Conns,
                      pc[c] \in {"check", "insert", "mutex", "count", "rdlock"},
                      NEW p \in Procs, NEW w \in Workers,
                      worker[p][w].area = msg_pos[c]
               PROVE  FALSE
    BY DEF AreaIsEmpty
  <2>1. msg_pos[c] # NoArea /\ msg_pos[c] \in Areas
    BY DEF ServiceInv, SlotInv, TypeOK, AreasOwned
  <2>2. \A d \in Sends : msg_pos[d] = msg_pos[c] => d = c
    BY <2>1, OneOwner DEF ServiceInv
  <2>3. c \in Sends => outcome[c][p] = "none"
    BY DEF ServiceInv, EachReachedOnce, ReachedOnce, Dispatched, Delivering
  <2>4. worker[p][w].phase \in {"idle", "queued", "ran", "unlocking"}
    BY DEF ServiceInv, SlotInv, TypeOK, WorkerStates
  <2>5. CASE worker[p][w].phase = "idle"
    BY <2>1, <2>5 DEF UnlocksServe, UnlockServes
  <2>6. CASE worker[p][w].phase \in {"queued", "ran"}
    BY <2>2, <2>3, <2>6 DEF ServiceInv, WorkersServe
  <2>7. CASE worker[p][w].phase = "unlocking"
    BY <2>2, <2>3, <2>7 DEF UnlocksServe, UnlockServes
  <2> QED
    BY <2>4, <2>5, <2>6, <2>7
<1> QED
  BY <1>1, <1>2, <1>3, ServiceHolds, PTL DEF Spec

\* Whatever happens, a node leaves the table only when its process is gone and
\* while a purge holds the table for writing (emi_core.c:240-258).
THEOREM OnlyTheGoneArePurged == Spec => OnlyGoneArePurged
<1> DEFINE Step == \A n \in table \ table' :
                     proc[ProcOf[n]] = "gone" /\ writer # NoConn
<1>1. Init => Purging
  BY DEF Init, Purging
<1>2. TypeOK /\ Purging /\ [Next]_vars => Purging'
  BY PurgingStep
<1>3. TypeOK /\ Purging /\ [Next]_vars => [Step]_vars
  <2> SUFFICES ASSUME TypeOK, Purging, Next, NEW n \in table, n \notin table'
               PROVE  proc[ProcOf[n]] = "gone" /\ writer # NoConn
    OBVIOUS
  <2>1. PICK c \in Conns : CoreThread(c)
    BY DEF Next, Client, ClientOpen, ClientFinish, TakeSignal, Die, Reap,
           WorkerStep, RunHandler, CountOff, Unlock, Accepting, vars, tableVars
  <2>2. c \in Sends /\ PurgeGone(c)
    BY <2>1
       DEF CoreThread, Receive, NoSpace, Answer, Release, Register, RegisterCheck,
           RegisterInsert, RegisterMutexInit, Deliver, CountReceivers, ReadLock,
           PutSlot, Kill, AwaitZero, ReadUnlock, Poll, WriteLock, PurgeKeep,
           WriteUnlock, Verdict, tableVars
  <2>3. writer = c /\ c # NoConn
    BY <2>2, SentinelAssumption DEF PurgeGone, Purging
  <2> QED
    BY <2>2, <2>3 DEF PurgeGone
<1> QED
  BY <1>1, <1>2, <1>3, TypeCorrect, PTL DEF Spec, OnlyGoneArePurged

=============================================================================
