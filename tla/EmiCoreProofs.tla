--------------------------- MODULE EmiCoreProofs ---------------------------
(***************************************************************************)
(* Proofs about EmiCore, for any processes, messages, areas and requests.  *)
(***************************************************************************)
EXTENDS EmiCore, FiniteSetTheorems, TLAPS

USE DEF Conns

-----------------------------------------------------------------------------
(* Type correctness.                                                       *)

\* A count is taken modulo CountMod.
LEMMA CountType ==
  /\ TypeOK => \A m : Cardinality(Matching(m)) % CountMod \in 0 .. CountMod - 1
  /\ \A n \in 0 .. CountMod - 1 : Decrement(n) \in 0 .. CountMod - 1
<1>1. ASSUME TypeOK, NEW m
      PROVE  Cardinality(Matching(m)) % CountMod \in 0 .. CountMod - 1
  <2>1. Matching(m) \subseteq Registrations
    BY <1>1 DEF Matching, TypeOK
  <2>2. IsFiniteSet(Matching(m))
    BY <2>1, FS_Subset, ConnsAssumption
  <2>3. Cardinality(Matching(m)) \in Nat
    BY <2>2, FS_CardinalityType
  <2> QED
    BY <2>3, CountAssumption
<1>2. \A n \in 0 .. CountMod - 1 : Decrement(n) \in 0 .. CountMod - 1
  BY CountAssumption DEF Decrement
<1> QED
  BY <1>1, <1>2

\* Storing a message into an area keeps the type of the memory.
LEMMA StoreType ==
  ASSUME TypeOK, NEW a, NEW m, a \in Areas => m \in MsgAreas, Store(a, m)
  PROVE  mem' \in [Areas -> MsgAreas]
  BY DEF TypeOK, Store

\* The updates that the steps make to a message.
LEMMA AreaType ==
  ASSUME NEW m \in MsgAreas, NEW b \in BOOLEAN, NEW n \in 0 .. CountMod - 1
  PROVE  /\ [m EXCEPT !.succeeded = b] \in MsgAreas
         /\ [m EXCEPT !.locked = FALSE] \in MsgAreas
         /\ [m EXCEPT !.count = n] \in MsgAreas
         /\ [m EXCEPT !.count = n, !.succeeded = b] \in MsgAreas
         /\ [m EXCEPT !.locked = TRUE, !.succeeded = b, !.count = n] \in MsgAreas
  BY DEF MsgAreas

\* The updates that a thread of a receiver makes to its state.
LEMMA WorkerType ==
  ASSUME NEW s \in WorkerStates, NEW r \in {0, -1}
  PROVE  /\ [s EXCEPT !.phase = "ran", !.ret = r] \in WorkerStates
         /\ [s EXCEPT !.phase = "unlocking"] \in WorkerStates
  BY DEF WorkerStates

\* SetSucceeded keeps the type of the memory.
LEMMA SetSucceededType ==
  ASSUME TypeOK, NEW c, NEW b \in BOOLEAN, SetSucceeded(c, b)
  PROVE  mem' \in [Areas -> MsgAreas]
<1> DEFINE a == msg_pos[c]
<1>1. CountMod > 0 /\ 0 \in 0 .. CountMod - 1
  BY CountAssumption
<1>2. a \in Areas => [mem[a] EXCEPT !.succeeded = b] \in MsgAreas
  BY <1>1, AreaType DEF TypeOK
<1> QED
  BY <1>2, StoreType DEF SetSucceeded

\* Initially every variable has its type.
LEMMA InitType == Init => TypeOK
<1> SUFFICES ASSUME Init PROVE TypeOK
  OBVIOUS
<1>1. mem \in [Areas -> MsgAreas]
  <2> DEFINE m0 == [msg |-> CHOOSE m \in Msgs : TRUE, block |-> FALSE,
                    succeeded |-> FALSE, count |-> 0, locked |-> FALSE]
  <2>1. (CHOOSE m \in Msgs : TRUE) \in Msgs
    BY ConnsAssumption
  <2>2. m0 \in MsgAreas
    BY <2>1, CountAssumption DEF MsgAreas
  <2>3. mem \in [Areas -> {m0}]
    BY DEF Init
  <2> HIDE DEF m0
  <2> QED
    BY <2>2, <2>3
<1>2. worker \in [Procs -> [Workers -> WorkerStates]]
  BY DEF Init, WorkerStates, IdleWorker
<1> QED
  BY <1>1, <1>2, ConnsAssumption DEF Init, TypeOK, Labels

\* Every step keeps the types.
LEMMA NextType == TypeOK /\ [Next]_vars => TypeOK'
<1> SUFFICES ASSUME TypeOK, [Next]_vars PROVE TypeOK'
  OBVIOUS
<1> USE ConnsAssumption DEF TypeOK, Goto, tableVars, slotVars, memVars,
                            threadVars, procVars, clientVars, Labels
<1>1. ASSUME NEW c \in Conns, ClientOpen(c) PROVE TypeOK'
  BY <1>1 DEF ClientOpen
<1>2. ASSUME NEW c \in Conns, ClientFinish(c) PROVE TypeOK'
  BY <1>2 DEF ClientFinish
<1>3. ASSUME NEW c \in Conns, Receive(c) PROVE TypeOK'
  <2>1. PICK a \in Areas \ used :
          /\ used' = used \cup {a}
          /\ msg_pos' = [msg_pos EXCEPT ![c] = a]
          /\ Store(a, [msg |-> MsgOf[c], block |-> c \in Blocking,
                       succeeded |-> FALSE, count |-> 0, locked |-> FALSE])
    BY <1>3 DEF Receive
  <2>2. [msg |-> MsgOf[c], block |-> c \in Blocking,
         succeeded |-> FALSE, count |-> 0, locked |-> FALSE] \in MsgAreas
    BY CountAssumption DEF MsgAreas
  <2>3. mem' \in [Areas -> MsgAreas]
    BY <2>1, <2>2, StoreType
  <2> QED
    BY <1>3, <2>1, <2>3 DEF Receive
<1>4. ASSUME NEW c \in Conns, NoSpace(c) PROVE TypeOK'
  BY <1>4 DEF NoSpace
<1>5. ASSUME NEW c \in Conns, Answer(c) PROVE TypeOK'
  BY <1>5 DEF Answer
<1>6. ASSUME NEW c \in Conns, Release(c) PROVE TypeOK'
  BY <1>6 DEF Release
<1>7. ASSUME NEW c \in Registrations, Register(c) PROVE TypeOK'
  <2>1. CASE RegisterCheck(c)
    BY <2>1, SetSucceededType DEF RegisterCheck
  <2>2. CASE RegisterInsert(c)
    BY <2>2 DEF RegisterInsert
  <2>3. CASE RegisterMutexInit(c)
    BY <2>3, SetSucceededType DEF RegisterMutexInit
  <2> QED
    BY <1>7, <2>1, <2>2, <2>3 DEF Register
<1>8. ASSUME NEW c \in Sends, Deliver(c) PROVE TypeOK'
  <2>1. CASE CountReceivers(c)
    <3> DEFINE n == Cardinality(Matching(MsgOf[c])) % CountMod
               a == msg_pos[c]
    <3>1. n \in 0 .. CountMod - 1
      BY CountType
    <3>2. AfterVerdict(c) \in {"ret", "free"}
      BY DEF AfterVerdict
    <3>3. a \in Areas => [mem[a] EXCEPT !.count = n, !.succeeded = n > 0] \in MsgAreas
      <4>1. (n > 0) \in BOOLEAN
        OBVIOUS
      <4>2. a \in Areas => mem[a] \in MsgAreas
        OBVIOUS
      <4> HIDE DEF n, a
      <4> QED
        BY <3>1, <4>1, <4>2, AreaType
    <3>4. mem' \in [Areas -> MsgAreas]
      BY <2>1, <3>3, StoreType DEF CountReceivers
    <3>5. n \in Int
      BY <3>1, CountAssumption
    <3> HIDE DEF n
    <3> QED
      BY <2>1, <3>2, <3>4, <3>5 DEF CountReceivers, n
  <2>2. CASE ReadLock(c)
    BY <2>2 DEF ReadLock, Matching
  <2>3. CASE PutSlot(c)
    BY <2>3 DEF PutSlot
  <2>4. CASE Kill(c)
    BY <2>4 DEF Kill
  <2>5. CASE AwaitZero(c)
    BY <2>5 DEF AwaitZero
  <2>6. CASE ReadUnlock(c)
    BY <2>6 DEF ReadUnlock
  <2>7. CASE Poll(c)
    BY <2>7 DEF Poll
  <2>8. CASE WriteLock(c)
    BY <2>8 DEF WriteLock, Matching
  <2>9. CASE PurgeGone(c)
    <3> DEFINE a == msg_pos[c]
    <3>1. a \in Areas => mem[a].count \in 0 .. CountMod - 1
      BY DEF MsgAreas
    <3>2. a \in Areas =>
            [mem[a] EXCEPT !.count = Decrement(mem[a].count)] \in MsgAreas
      BY <3>1, CountType, AreaType
    <3>3. mem' \in [Areas -> MsgAreas]
      BY <2>9, <3>2, StoreType DEF PurgeGone
    <3> QED
      BY <2>9, <3>3 DEF PurgeGone
  <2>10. CASE PurgeKeep(c)
    BY <2>10 DEF PurgeKeep
  <2>11. CASE WriteUnlock(c)
    BY <2>11 DEF WriteUnlock
  <2>12. CASE Verdict(c)
    BY <2>12, SetSucceededType DEF Verdict, AfterVerdict
  <2> QED
    BY <1>8, <2>1, <2>2, <2>3, <2>4, <2>5, <2>6, <2>7, <2>8, <2>9, <2>10,
       <2>11, <2>12 DEF Deliver
<1>9. ASSUME NEW p \in Procs, TakeSignal(p) PROVE TypeOK'
  BY <1>9 DEF TakeSignal, WorkerStates, IdleWorkers, Record
<1>10. ASSUME NEW p \in Procs, Die(p) PROVE TypeOK'
  BY <1>10 DEF Die, WorkerStates, IdleWorker
<1>11. ASSUME NEW p \in Procs, Reap(p) PROVE TypeOK'
  BY <1>11 DEF Reap
<1>12. ASSUME NEW p \in Procs, NEW w \in Workers, RunHandler(p, w) PROVE TypeOK'
  <2> DEFINE s == worker[p][w]
  <2>1. PICK r \in {0, -1} :
          worker' = [worker EXCEPT ![p][w] = [s EXCEPT !.phase = "ran", !.ret = r]]
    BY <1>12 DEF RunHandler
  <2>2. worker' \in [Procs -> [Workers -> WorkerStates]]
    <3>1. s \in WorkerStates
      OBVIOUS
    <3> HIDE DEF s
    <3>2. [s EXCEPT !.phase = "ran", !.ret = r] \in WorkerStates
      BY <3>1, WorkerType
    <3> QED
      BY <2>1, <3>2
  <2> QED
    BY <1>12, <2>2 DEF RunHandler
<1>13. ASSUME NEW p \in Procs, NEW w \in Workers, CountOff(p, w) PROVE TypeOK'
  <2> DEFINE a == worker[p][w].area
             failed == worker[p][w].ret # 0
  <2>1. a \in Areas => mem[a] \in MsgAreas /\ mem[a].count \in 0 .. CountMod - 1
    BY DEF MsgAreas
  <2>2. a \in Areas =>
          [mem[a] EXCEPT !.locked = TRUE,
             !.succeeded = mem[a].succeeded /\ ~(mem[a].block /\ failed),
             !.count = Decrement(mem[a].count)] \in MsgAreas
    BY <2>1, CountType, AreaType
  <2>3. mem' \in [Areas -> MsgAreas]
    BY <1>13, <2>2, StoreType DEF CountOff
  <2>4. [worker[p][w] EXCEPT !.phase = "unlocking"] \in WorkerStates
    <3>1. worker[p][w] \in WorkerStates
      OBVIOUS
    <3> QED
      BY <3>1, WorkerType
  <2>5. worker' \in [Procs -> [Workers -> WorkerStates]]
    BY <1>13, <2>4 DEF CountOff
  <2> QED
    BY <1>13, <2>3, <2>5 DEF CountOff, Record
<1>14. ASSUME NEW p \in Procs, NEW w \in Workers, Unlock(p, w) PROVE TypeOK'
  <2> DEFINE a == worker[p][w].area
  <2>1. 0 \in 0 .. CountMod - 1
    BY CountAssumption
  <2>2. a \in Areas => [mem[a] EXCEPT !.locked = FALSE] \in MsgAreas
    BY <2>1, AreaType
  <2>3. mem' \in [Areas -> MsgAreas]
    BY <1>14, <2>2, StoreType DEF Unlock
  <2>4. IdleWorker \in WorkerStates
    BY DEF WorkerStates, IdleWorker
  <2> QED
    BY <1>14, <2>3, <2>4 DEF Unlock
<1>15. CASE UNCHANGED vars
  BY <1>15 DEF vars
<1> QED
  BY <1>1, <1>2, <1>3, <1>4, <1>5, <1>6, <1>7, <1>8, <1>9, <1>10, <1>11,
     <1>12, <1>13, <1>14, <1>15
     DEF Next, CoreThread, Client, WorkerStep, Accepting

\* Every variable keeps its type in every behaviour.
THEOREM TypeCorrect == Spec => []TypeOK
  BY InitType, NextType, PTL DEF Spec
-----------------------------------------------------------------------------
(* The order of the requests, and what a send visits.                      *)

\* The requests keep their order.
LEMMA OrderedStep ==
  ASSUME TypeOK, Ordered, [Next]_vars
  PROVE  Ordered'
<1> USE ConnsAssumption, SentinelAssumption DEF TypeOK, Ordered, Labels, tableVars, slotVars, memVars, threadVars,
          procVars, clientVars, Goto
<1>1. ASSUME NEW c \in Conns, ClientOpen(c) PROVE Ordered'
  <2>1. \A b \in Conns : result[b] # "none" => result'[b] # "none"
    BY <1>1 DEF ClientOpen
  <2>2. \A d \in Conns : pc'[d] # "idle" => \A b \in Before[d] : result'[b] # "none"
    BY <1>1, <2>1 DEF ClientOpen
  <2>3. c \in Registrations => result'[c] = "none" /\ reply'[c] = "none"
    BY <1>1 DEF ClientOpen
  <2>4. \A r \in Registrations : reply'[r] # "none" \/ result'[r] # "none" =>
                                  pc'[r] \in {"free", "done"}
    BY <1>1, <2>3 DEF ClientOpen
  <2>5. \A d \in Conns : pc'[d] = "idle" => result'[d] = "none"
    BY <1>1 DEF ClientOpen
  <2> QED
    BY <2>2, <2>4, <2>5
<1>2. ASSUME NEW c \in Conns, ClientFinish(c) PROVE Ordered'
  BY <1>2 DEF ClientFinish
<1>3. ASSUME NEW c \in Conns, Receive(c) PROVE Ordered'
  <2>1. pc[c] = "receive" /\ UNCHANGED <<reply, result>>
    BY <1>3 DEF Receive
  <2>2. \A d \in Conns : d # c => pc'[d] = pc[d]
    BY <1>3 DEF Receive
  <2>3. pc'[c] # "idle"
    BY <1>3 DEF Receive
  <2> QED
    BY <2>1, <2>2, <2>3
<1>4. ASSUME NEW c \in Conns, NoSpace(c) PROVE Ordered'
  BY <1>4 DEF NoSpace
<1>5. ASSUME NEW c \in Conns, Answer(c) PROVE Ordered'
  BY <1>5 DEF Answer
<1>6. ASSUME NEW c \in Conns, Release(c) PROVE Ordered'
  BY <1>6 DEF Release
<1>7. ASSUME NEW c \in Registrations, Register(c) PROVE Ordered'
  <2>1. CASE RegisterCheck(c)
    <3> HIDE DEF Goto
    <3>1. Goto(c, "answer") \/ Goto(c, "insert")
      BY <2>1 DEF RegisterCheck
    <3>2. pc[c] = "check" /\ UNCHANGED <<reply, result>>
      BY <2>1 DEF RegisterCheck
    <3>3. /\ pc'[c] \in {"answer", "insert"}
          /\ \A d \in Conns : d # c => pc'[d] = pc[d]
      BY <3>1 DEF Goto
    <3> QED
      BY <3>2, <3>3
  <2>2. CASE RegisterInsert(c)
    BY <2>2 DEF RegisterInsert
  <2>3. CASE RegisterMutexInit(c)
    BY <2>3 DEF RegisterMutexInit, SetSucceeded
  <2> QED
    BY <1>7, <2>1, <2>2, <2>3 DEF Register
<1>8. ASSUME NEW c \in Sends, Deliver(c) PROVE Ordered'
  <2>1. CASE CountReceivers(c)
    BY <2>1 DEF CountReceivers, AfterVerdict
  <2>2. CASE ReadLock(c)
    BY <2>2 DEF ReadLock, Matching
  <2>3. CASE PutSlot(c)
    BY <2>3 DEF PutSlot
  <2>4. CASE Kill(c)
    BY <2>4 DEF Kill
  <2>5. CASE AwaitZero(c)
    BY <2>5 DEF AwaitZero
  <2>6. CASE ReadUnlock(c)
    BY <2>6 DEF ReadUnlock
  <2>7. CASE Poll(c)
    BY <2>7 DEF Poll
  <2>8. CASE WriteLock(c)
    BY <2>8 DEF WriteLock, Matching
  <2>9. CASE PurgeGone(c)
    BY <2>9 DEF PurgeGone
  <2>10. CASE PurgeKeep(c)
    BY <2>10 DEF PurgeKeep
  <2>11. CASE WriteUnlock(c)
    BY <2>11 DEF WriteUnlock
  <2>12. CASE Verdict(c)
    BY <2>12 DEF Verdict, AfterVerdict
  <2> QED
    BY <1>8, <2>1, <2>2, <2>3, <2>4, <2>5, <2>6, <2>7, <2>8, <2>9,
       <2>10, <2>11, <2>12 DEF Deliver
<1>9. ASSUME NEW p \in Procs, TakeSignal(p) PROVE Ordered'
  BY <1>9 DEF TakeSignal, Record, Owner
<1>10. ASSUME NEW p \in Procs, Die(p) PROVE Ordered'
  BY <1>10 DEF Die
<1>11. ASSUME NEW p \in Procs, Reap(p) PROVE Ordered'
  BY <1>11 DEF Reap
<1>12. ASSUME NEW p \in Procs, NEW w \in Workers, RunHandler(p, w) PROVE Ordered'
  BY <1>12 DEF RunHandler
<1>13. ASSUME NEW p \in Procs, NEW w \in Workers, CountOff(p, w) PROVE Ordered'
  BY <1>13 DEF CountOff, Record
<1>14. ASSUME NEW p \in Procs, NEW w \in Workers, Unlock(p, w) PROVE Ordered'
  BY <1>14 DEF Unlock
<1>15. CASE UNCHANGED vars
  BY <1>15 DEF vars
<1> QED
  BY <1>1, <1>2, <1>3, <1>4, <1>5, <1>6, <1>7, <1>8, <1>9, <1>10,
     <1>11, <1>12, <1>13, <1>14, <1>15
     DEF Next, CoreThread, Client, WorkerStep, Accepting

\* A send keeps visiting nodes of its message.
LEMMA AddressedStep ==
  ASSUME TypeOK, Addressed, [Next]_vars
  PROVE  Addressed'
<1> USE ConnsAssumption, SentinelAssumption DEF TypeOK, Addressed, Delivering, Labels, tableVars, slotVars, memVars, threadVars,
          procVars, clientVars, Goto
<1>1. ASSUME NEW c \in Conns, ClientOpen(c) PROVE Addressed'
  BY <1>1 DEF ClientOpen
<1>2. ASSUME NEW c \in Conns, ClientFinish(c) PROVE Addressed'
  BY <1>2 DEF ClientFinish
<1>3. ASSUME NEW c \in Conns, Receive(c) PROVE Addressed'
  BY <1>3 DEF Receive
<1>4. ASSUME NEW c \in Conns, NoSpace(c) PROVE Addressed'
  BY <1>4 DEF NoSpace
<1>5. ASSUME NEW c \in Conns, Answer(c) PROVE Addressed'
  BY <1>5 DEF Answer
<1>6. ASSUME NEW c \in Conns, Release(c) PROVE Addressed'
  BY <1>6 DEF Release
<1>7. ASSUME NEW c \in Registrations, Register(c) PROVE Addressed'
  <2>1. CASE RegisterCheck(c)
    BY <2>1 DEF RegisterCheck, SetSucceeded
  <2>2. CASE RegisterInsert(c)
    BY <2>2 DEF RegisterInsert
  <2>3. CASE RegisterMutexInit(c)
    BY <2>3 DEF RegisterMutexInit, SetSucceeded
  <2> QED
    BY <1>7, <2>1, <2>2, <2>3 DEF Register
<1>8. ASSUME NEW c \in Sends, Deliver(c) PROVE Addressed'
  <2>1. CASE CountReceivers(c)
    BY <2>1 DEF CountReceivers, AfterVerdict
  <2>2. CASE ReadLock(c)
    BY <2>2 DEF ReadLock, Matching
  <2>3. CASE PutSlot(c)
    BY <2>3 DEF PutSlot
  <2>4. CASE Kill(c)
    BY <2>4 DEF Kill
  <2>5. CASE AwaitZero(c)
    BY <2>5 DEF AwaitZero
  <2>6. CASE ReadUnlock(c)
    BY <2>6 DEF ReadUnlock
  <2>7. CASE Poll(c)
    BY <2>7 DEF Poll
  <2>8. CASE WriteLock(c)
    BY <2>8 DEF WriteLock, Matching
  <2>9. CASE PurgeGone(c)
    BY <2>9 DEF PurgeGone
  <2>10. CASE PurgeKeep(c)
    BY <2>10 DEF PurgeKeep
  <2>11. CASE WriteUnlock(c)
    BY <2>11 DEF WriteUnlock
  <2>12. CASE Verdict(c)
    BY <2>12 DEF Verdict, AfterVerdict
  <2> QED
    BY <1>8, <2>1, <2>2, <2>3, <2>4, <2>5, <2>6, <2>7, <2>8, <2>9,
       <2>10, <2>11, <2>12 DEF Deliver
<1>9. ASSUME NEW p \in Procs, TakeSignal(p) PROVE Addressed'
  BY <1>9 DEF TakeSignal, Record, Owner
<1>10. ASSUME NEW p \in Procs, Die(p) PROVE Addressed'
  BY <1>10 DEF Die
<1>11. ASSUME NEW p \in Procs, Reap(p) PROVE Addressed'
  BY <1>11 DEF Reap
<1>12. ASSUME NEW p \in Procs, NEW w \in Workers, RunHandler(p, w) PROVE Addressed'
  BY <1>12 DEF RunHandler
<1>13. ASSUME NEW p \in Procs, NEW w \in Workers, CountOff(p, w) PROVE Addressed'
  BY <1>13 DEF CountOff, Record
<1>14. ASSUME NEW p \in Procs, NEW w \in Workers, Unlock(p, w) PROVE Addressed'
  BY <1>14 DEF Unlock
<1>15. CASE UNCHANGED vars
  BY <1>15 DEF vars
<1> QED
  BY <1>1, <1>2, <1>3, <1>4, <1>5, <1>6, <1>7, <1>8, <1>9, <1>10,
     <1>11, <1>12, <1>13, <1>14, <1>15
     DEF Next, CoreThread, Client, WorkerStep, Accepting

-----------------------------------------------------------------------------
(* The slots.                                                              *)

\* The slots keep their discipline.
LEMMA SlotStep ==
  ASSUME SlotInv, RegistrationsFirst, [Next]_vars
  PROVE  SlotHeld'
<1> USE ConnsAssumption, SentinelAssumption DEF SlotInv, TypeOK, Ordered, Addressed, SlotHeld,
          SlotDiscipline, RegistrationsFirst, Delivering, Labels, tableVars, slotVars, memVars, threadVars,
          procVars, clientVars, Goto
<1>1. ASSUME NEW c \in Conns, ClientOpen(c) PROVE SlotHeld'
  BY <1>1 DEF ClientOpen
<1>2. ASSUME NEW c \in Conns, ClientFinish(c) PROVE SlotHeld'
  BY <1>2 DEF ClientFinish
<1>3. ASSUME NEW c \in Conns, Receive(c) PROVE SlotHeld'
  <2>0. pc[c] = "receive" /\ c # NoConn
    BY <1>3 DEF Receive
  <2>1. \A p \in Procs : pididx_lock[p] # c
    BY <2>0
  <2>2. \A d \in Conns : d # c => pc'[d] = pc[d] /\ msg_pos'[d] = msg_pos[d]
    BY <1>3 DEF Receive
  <2>3. pc'[c] \notin {"signal", "await"}
    BY <1>3 DEF Receive
  <2>4. UNCHANGED <<pididx, pididx_lock, signal, map>>
    BY <1>3 DEF Receive
  <2>5. \A d \in Conns : pc'[d] \in {"signal", "await"} =>
          d # c /\ pc'[d] = pc[d] /\ msg_pos'[d] = msg_pos[d]
    BY <2>2, <2>3
  <2>6. \A p \in Procs : pididx_lock[p] # NoConn =>
          /\ pc'[pididx_lock[p]] = pc[pididx_lock[p]]
          /\ msg_pos'[pididx_lock[p]] = msg_pos[pididx_lock[p]]
    BY <2>1, <2>2
  <2>7. SlotDiscipline'
    BY <2>4, <2>5, <2>6
  <2> QED
    BY <2>4, <2>5, <2>6, <2>7
<1>4. ASSUME NEW c \in Conns, NoSpace(c) PROVE SlotHeld'
  BY <1>4 DEF NoSpace
<1>5. ASSUME NEW c \in Conns, Answer(c) PROVE SlotHeld'
  BY <1>5 DEF Answer
<1>6. ASSUME NEW c \in Conns, Release(c) PROVE SlotHeld'
  BY <1>6 DEF Release
<1>7. ASSUME NEW c \in Registrations, Register(c) PROVE SlotHeld'
  <2>1. CASE RegisterCheck(c)
    <3> HIDE DEF Goto
    <3>0. Goto(c, "answer") \/ Goto(c, "insert")
      BY <2>1 DEF RegisterCheck
    <3>1. \A s \in Sends : pc'[s] = pc[s]
      BY <3>0 DEF Goto
    <3>2. UNCHANGED <<pididx, pididx_lock, signal, map, msg_pos>>
      BY <2>1 DEF RegisterCheck
    <3> QED
      BY <3>1, <3>2
  <2>2. CASE RegisterInsert(c)
    BY <2>2 DEF RegisterInsert
  <2>3. CASE RegisterMutexInit(c)
    <3>1. pididx_lock[ProcOf[c]] = NoConn
      <4> SUFFICES ASSUME pididx_lock[ProcOf[c]] # NoConn PROVE FALSE
        OBVIOUS
      <4>1. PICK s \in Sends : /\ pc[s] \in {"signal", "await"}
                               /\ ProcOf[map[s]] = ProcOf[c]
        OBVIOUS
      <4>2. map[s] \in Registrations /\ MsgOf[map[s]] = MsgOf[s]
        BY <4>1
      <4>3. c \in Before[s]
        BY <4>1, <4>2
      <4>4. s \in Conns /\ pc[s] # "idle"
        BY <4>1
      <4>5. result[c] # "none"
        BY <4>3, <4>4
      <4> QED
        BY <2>3, <4>5 DEF RegisterMutexInit
    <3>2. \A s \in Sends : pc'[s] = pc[s]
      BY <2>3 DEF RegisterMutexInit
    <3>3. UNCHANGED <<pididx, pididx_lock, signal, map, msg_pos>>
      BY <2>3, <3>1 DEF RegisterMutexInit
    <3> QED
      BY <3>2, <3>3
  <2> QED
    BY <1>7, <2>1, <2>2, <2>3 DEF Register
<1>8. ASSUME NEW c \in Sends, Deliver(c) PROVE SlotHeld'
  <2>1. CASE CountReceivers(c)
    BY <2>1 DEF CountReceivers, AfterVerdict
  <2>2. CASE ReadLock(c)
    BY <2>2 DEF ReadLock, Matching
  <2>3. CASE PutSlot(c)
    BY <2>3 DEF PutSlot
  <2>4. CASE Kill(c)
    <3> DEFINE p == ProcOf[map[c]]
    <3>1. /\ p \in Procs /\ pididx_lock[p] = c
          /\ pididx[p] = msg_pos[c] /\ ~signal[p] /\ msg_pos[c] # NoArea
      BY <2>4 DEF Kill
    <3>2. /\ pc' = [pc EXCEPT ![c] = "await"]
          /\ UNCHANGED <<pididx_lock, map, msg_pos>>
      BY <2>4 DEF Kill
    <3>3. CASE proc[p] = "gone"
      <4>1. pididx' = [pididx EXCEPT ![p] = NoArea] /\ UNCHANGED signal
        BY <2>4, <3>3 DEF Kill
      <4> QED
        BY <2>4, <3>1, <3>2, <4>1 DEF Kill
    <3>4. CASE proc[p] # "gone"
      <4>1. UNCHANGED pididx /\ \A q \in Procs : q # p => signal'[q] = signal[q]
        BY <2>4, <3>4 DEF Kill
      <4>2. \A s \in Sends : s # c => pc'[s] = pc[s]
        BY <3>2
      <4>3. pc'[c] = "await" /\ pc[c] = "signal"
        BY <2>4, <3>2 DEF Kill
      <4>4. SlotDiscipline'
        BY <3>1, <3>2, <4>1, <4>2, <4>3
      <4>5. \A s \in Sends : pc'[s] = "signal" => ProcOf[map[s]] # p
        BY <3>1, <4>2, <4>3
      <4> QED
        BY <3>2, <4>1, <4>2, <4>3, <4>4, <4>5
    <3> QED
      BY <3>3, <3>4
  <2>5. CASE AwaitZero(c)
    BY <2>5 DEF AwaitZero
  <2>6. CASE ReadUnlock(c)
    BY <2>6 DEF ReadUnlock
  <2>7. CASE Poll(c)
    BY <2>7 DEF Poll
  <2>8. CASE WriteLock(c)
    BY <2>8 DEF WriteLock, Matching
  <2>9. CASE PurgeGone(c)
    BY <2>9 DEF PurgeGone
  <2>10. CASE PurgeKeep(c)
    BY <2>10 DEF PurgeKeep
  <2>11. CASE WriteUnlock(c)
    BY <2>11 DEF WriteUnlock
  <2>12. CASE Verdict(c)
    BY <2>12 DEF Verdict, AfterVerdict
  <2> QED
    BY <1>8, <2>1, <2>2, <2>3, <2>4, <2>5, <2>6, <2>7, <2>8, <2>9,
       <2>10, <2>11, <2>12 DEF Deliver
<1>9. ASSUME NEW p \in Procs, TakeSignal(p) PROVE SlotHeld'
  BY <1>9 DEF TakeSignal, Record, Owner
<1>10. ASSUME NEW p \in Procs, Die(p) PROVE SlotHeld'
  BY <1>10 DEF Die
<1>11. ASSUME NEW p \in Procs, Reap(p) PROVE SlotHeld'
  BY <1>11 DEF Reap
<1>12. ASSUME NEW p \in Procs, NEW w \in Workers, RunHandler(p, w) PROVE SlotHeld'
  BY <1>12 DEF RunHandler
<1>13. ASSUME NEW p \in Procs, NEW w \in Workers, CountOff(p, w) PROVE SlotHeld'
  BY <1>13 DEF CountOff, Record
<1>14. ASSUME NEW p \in Procs, NEW w \in Workers, Unlock(p, w) PROVE SlotHeld'
  BY <1>14 DEF Unlock
<1>15. CASE UNCHANGED vars
  BY <1>15 DEF vars
<1> QED
  BY <1>1, <1>2, <1>3, <1>4, <1>5, <1>6, <1>7, <1>8, <1>9, <1>10,
     <1>11, <1>12, <1>13, <1>14, <1>15
     DEF Next, CoreThread, Client, WorkerStep, Accepting

\* The waits keep being acknowledged.
LEMMA AcknowledgedStep ==
  ASSUME SlotInv, [Next]_vars
  PROVE  Acknowledged'
<1> USE ConnsAssumption, SentinelAssumption DEF SlotInv, TypeOK, Addressed, SlotHeld, SlotDiscipline,
          Acknowledged, Delivering, Labels, tableVars, slotVars, memVars, threadVars,
          procVars, clientVars, Goto
<1>1. ASSUME NEW c \in Conns, ClientOpen(c) PROVE Acknowledged'
  BY <1>1 DEF ClientOpen
<1>2. ASSUME NEW c \in Conns, ClientFinish(c) PROVE Acknowledged'
  BY <1>2 DEF ClientFinish
<1>3. ASSUME NEW c \in Conns, Receive(c) PROVE Acknowledged'
  BY <1>3 DEF Receive
<1>4. ASSUME NEW c \in Conns, NoSpace(c) PROVE Acknowledged'
  BY <1>4 DEF NoSpace
<1>5. ASSUME NEW c \in Conns, Answer(c) PROVE Acknowledged'
  BY <1>5 DEF Answer
<1>6. ASSUME NEW c \in Conns, Release(c) PROVE Acknowledged'
  BY <1>6 DEF Release
<1>7. ASSUME NEW c \in Registrations, Register(c) PROVE Acknowledged'
  <2>1. CASE RegisterCheck(c)
    BY <2>1 DEF RegisterCheck, SetSucceeded
  <2>2. CASE RegisterInsert(c)
    BY <2>2 DEF RegisterInsert
  <2>3. CASE RegisterMutexInit(c)
    BY <2>3 DEF RegisterMutexInit, SetSucceeded
  <2> QED
    BY <1>7, <2>1, <2>2, <2>3 DEF Register
<1>8. ASSUME NEW c \in Sends, Deliver(c) PROVE Acknowledged'
  <2>1. CASE CountReceivers(c)
    BY <2>1 DEF CountReceivers, AfterVerdict
  <2>2. CASE ReadLock(c)
    BY <2>2 DEF ReadLock, Matching
  <2>3. CASE PutSlot(c)
    BY <2>3 DEF PutSlot
  <2>4. CASE Kill(c)
    BY <2>4 DEF Kill
  <2>5. CASE AwaitZero(c)
    BY <2>5 DEF AwaitZero
  <2>6. CASE ReadUnlock(c)
    BY <2>6 DEF ReadUnlock
  <2>7. CASE Poll(c)
    BY <2>7 DEF Poll
  <2>8. CASE WriteLock(c)
    BY <2>8 DEF WriteLock, Matching
  <2>9. CASE PurgeGone(c)
    BY <2>9 DEF PurgeGone
  <2>10. CASE PurgeKeep(c)
    BY <2>10 DEF PurgeKeep
  <2>11. CASE WriteUnlock(c)
    BY <2>11 DEF WriteUnlock
  <2>12. CASE Verdict(c)
    BY <2>12 DEF Verdict, AfterVerdict
  <2> QED
    BY <1>8, <2>1, <2>2, <2>3, <2>4, <2>5, <2>6, <2>7, <2>8, <2>9,
       <2>10, <2>11, <2>12 DEF Deliver
<1>9. ASSUME NEW p \in Procs, TakeSignal(p) PROVE Acknowledged'
  BY <1>9 DEF TakeSignal, Record, Owner
<1>10. ASSUME NEW p \in Procs, Die(p) PROVE Acknowledged'
  BY <1>10 DEF Die
<1>11. ASSUME NEW p \in Procs, Reap(p) PROVE Acknowledged'
  BY <1>11 DEF Reap
<1>12. ASSUME NEW p \in Procs, NEW w \in Workers, RunHandler(p, w) PROVE Acknowledged'
  BY <1>12 DEF RunHandler
<1>13. ASSUME NEW p \in Procs, NEW w \in Workers, CountOff(p, w) PROVE Acknowledged'
  BY <1>13 DEF CountOff, Record
<1>14. ASSUME NEW p \in Procs, NEW w \in Workers, Unlock(p, w) PROVE Acknowledged'
  BY <1>14 DEF Unlock
<1>15. CASE UNCHANGED vars
  BY <1>15 DEF vars
<1> QED
  BY <1>1, <1>2, <1>3, <1>4, <1>5, <1>6, <1>7, <1>8, <1>9, <1>10,
     <1>11, <1>12, <1>13, <1>14, <1>15
     DEF Next, CoreThread, Client, WorkerStep, Accepting

\* The slot invariant holds initially and is kept by every step.
LEMMA SlotInvariance ==
  ASSUME RegistrationsFirst
  PROVE  Spec => []SlotInv
<1>1. Init => SlotInv
  <2> SUFFICES ASSUME Init PROVE SlotInv
    OBVIOUS
  <2>1. TypeOK
    BY InitType
  <2>2. Ordered /\ Addressed /\ SlotHeld /\ Acknowledged
    BY ConnsAssumption, SentinelAssumption
       DEF Init, Ordered, Addressed, SlotHeld, SlotDiscipline, Acknowledged,
           Delivering
  <2> QED
    BY <2>1, <2>2 DEF SlotInv
<1>2. SlotInv /\ [Next]_vars => SlotInv'
  BY NextType, OrderedStep, AddressedStep, SlotStep, AcknowledgedStep
     DEF SlotInv
<1> QED
  BY <1>1, <1>2, PTL DEF Spec

\* If every process registers before its messages are sent, a slot always
\* holds the area of the one send that owns it, and a signal finds it there.
THEOREM SlotsAreDisciplined ==
  ASSUME RegistrationsFirst
  PROVE  Spec => []SlotDiscipline
<1>1. SlotInv => SlotDiscipline
  BY DEF SlotInv, SlotHeld
<1> QED
  BY <1>1, SlotInvariance, PTL

\* Under the same condition emi_core leaves its wait for a receiver only when
\* the receiver has taken the message or is gone.
THEOREM WaitsAreAcknowledged ==
  ASSUME RegistrationsFirst
  PROVE  Spec => WaitIsAcknowledged
<1> DEFINE Step == \A c \in Sends : pc[c] = "await" /\ pc'[c] = "slot" =>
                     LET p == ProcOf[map[c]] IN
                       outcome[c][p] # "none" \/ proc[p] = "gone"
<1>1. SlotInv /\ [Next]_vars => [Step]_vars
  <2> SUFFICES ASSUME SlotInv, Next, NEW c \in Sends,
                      pc[c] = "await", pc'[c] = "slot"
               PROVE  LET p == ProcOf[map[c]] IN
                        outcome[c][p] # "none" \/ proc[p] = "gone"
    OBVIOUS
  <2>1. AwaitZero(c)
    <3>1. pc \in [Conns -> Labels]
      BY DEF SlotInv, TypeOK
    <3>2. PICK d \in Conns : CoreThread(d) \/ Client(d)
      BY DEF Next, TakeSignal, Die, Reap, WorkerStep, RunHandler, CountOff,
             Unlock, Accepting, vars, threadVars, procVars, clientVars
    <3>3. CASE Client(d)
      BY <3>1, <3>3 DEF Client, ClientOpen, ClientFinish, Goto
    <3>4. CASE CoreThread(d)
      <4>1. c = d
        BY <3>1, <3>4
           DEF CoreThread, Receive, NoSpace, Answer, Release, Register,
               RegisterCheck, RegisterInsert, RegisterMutexInit, Deliver,
               CountReceivers, ReadLock, PutSlot, Kill, AwaitZero, ReadUnlock,
               Poll, WriteLock, PurgeGone, PurgeKeep, WriteUnlock, Verdict, Goto
      <4>2. Deliver(c)
        BY <3>4, <4>1, ConnsAssumption
           DEF CoreThread, Receive, NoSpace, Answer, Release
      <4> QED
        BY <4>2
           DEF Deliver, CountReceivers, ReadLock, PutSlot, Kill, ReadUnlock,
               Poll, WriteLock, PurgeGone, PurgeKeep, WriteUnlock, Verdict
    <3> QED
      BY <3>2, <3>3, <3>4
  <2>2. msg_pos[c] # NoArea
    BY SentinelAssumption DEF SlotInv, Addressed, Delivering
  <2> QED
    BY <2>1, <2>2 DEF SlotInv, Acknowledged, AwaitZero
<1> QED
  BY <1>1, SlotInvariance, PTL DEF Spec, WaitIsAcknowledged

-----------------------------------------------------------------------------
(* The table.                                                              *)

\* Two registrations of one process for one message are never under way
\* together.
LEMMA OneAtATime ==
  ASSUME TypeOK, Ordered, RegistrationsSerial,
         NEW q \in Registrations, NEW r \in Registrations, q # r,
         ProcOf[q] = ProcOf[r], MsgOf[q] = MsgOf[r],
         pc[q] \notin {"idle", "free", "done"}, pc[r] # "idle"
  PROVE  pc[r] \in {"free", "done"}
  BY DEF Ordered, RegistrationsSerial

\* The table keeps one node per process and message.
LEMMA UniqueStep ==
  ASSUME UniqueInv, RegistrationsSerial, [Next]_vars
  PROVE  UniqueInv'
<1> USE ConnsAssumption DEF Goto, tableVars, Labels
<1>1. TypeOK' /\ Ordered'
  BY NextType, OrderedStep DEF UniqueInv
<1>2. ASSUME NEW c \in Registrations, RegisterCheck(c) PROVE UniqueInv'
  <2>1. CASE Conflicting(c) = {}
    <3>1. pc' = [pc EXCEPT ![c] = "insert"] /\ UNCHANGED table
      BY <1>2, <2>1 DEF RegisterCheck
    <3>2. \A n \in table : ~(ProcOf[n] = ProcOf[c] /\ MsgOf[n] = MsgOf[c])
      BY <2>1 DEF Conflicting
    <3> QED
      <4>1. \A r \in Registrations : pc'[r] = "insert" => r = c \/ pc[r] = "insert"
        BY <3>1 DEF UniqueInv, TypeOK
      <4>2. UniqueRegistration'
        BY <3>1 DEF UniqueInv, UniqueRegistration
      <4> QED
        BY <1>1, <3>1, <3>2, <4>1, <4>2 DEF UniqueInv
  <2>2. CASE Conflicting(c) # {}
    <3>1. pc' = [pc EXCEPT ![c] = "answer"] /\ UNCHANGED table
      BY <1>2, <2>2 DEF RegisterCheck
    <3> QED
      BY <1>1, <3>1 DEF UniqueInv, UniqueRegistration, TypeOK
  <2> QED
    BY <2>1, <2>2
<1>3. ASSUME NEW c \in Registrations, RegisterInsert(c) PROVE UniqueInv'
  <2>1. /\ pc[c] = "insert" /\ pc' = [pc EXCEPT ![c] = "mutex"]
        /\ table' = table \cup {c}
    BY <1>3 DEF RegisterInsert
  <2>2. UniqueRegistration'
    BY <2>1 DEF UniqueInv, UniqueRegistration, TypeOK
  <2>3. ASSUME NEW r \in Registrations, pc'[r] = "insert", NEW n \in table'
        PROVE  ~(ProcOf[n] = ProcOf[r] /\ MsgOf[n] = MsgOf[r])
    <3>1. pc[r] = "insert" /\ r # c
      BY <2>1, <2>3 DEF UniqueInv, TypeOK
    <3>2. CASE n \in table
      BY <3>1, <3>2 DEF UniqueInv
    <3>3. CASE n = c
      BY <2>1, <3>1, <3>3, OneAtATime DEF UniqueInv
    <3> QED
      BY <2>1, <3>2, <3>3
  <2> QED
    BY <1>1, <2>2, <2>3 DEF UniqueInv
<1>4. ASSUME table' \subseteq table,
             \A r \in Registrations : pc'[r] = "insert" => pc[r] = "insert"
      PROVE  UniqueInv'
  BY <1>1, <1>4 DEF UniqueInv, UniqueRegistration
<1> DEFINE Tame == /\ table' \subseteq table
                   /\ \A r \in Registrations : pc'[r] = "insert" => pc[r] = "insert"
<1>5. ASSUME NEW c \in Conns, ClientOpen(c) \/ ClientFinish(c) PROVE Tame
  BY <1>5 DEF ClientOpen, ClientFinish, UniqueInv, TypeOK
<1>6. ASSUME NEW c \in Conns, Receive(c) \/ NoSpace(c) \/ Answer(c) \/ Release(c)
      PROVE  Tame
  BY <1>6 DEF Receive, NoSpace, Answer, Release, UniqueInv, TypeOK
<1>7. ASSUME NEW c \in Registrations, RegisterMutexInit(c) PROVE Tame
  BY <1>7 DEF RegisterMutexInit, UniqueInv, TypeOK
<1>8. ASSUME NEW c \in Sends, Deliver(c) PROVE Tame
  <2>1. \A r \in Registrations : pc'[r] = pc[r]
    BY <1>8 DEF Deliver, UniqueInv, TypeOK, CountReceivers, ReadLock, PutSlot,
                Kill, AwaitZero, ReadUnlock, Poll, WriteLock, PurgeGone,
                PurgeKeep, WriteUnlock, Verdict
  <2>2. table' \subseteq table
    BY <1>8 DEF Deliver, CountReceivers, ReadLock, PutSlot, Kill, AwaitZero,
                ReadUnlock, Poll, WriteLock, PurgeGone, PurgeKeep, WriteUnlock,
                Verdict
  <2> QED
    BY <2>1, <2>2
<1>9. ASSUME NEW p \in Procs, TakeSignal(p) \/ Die(p) \/ Reap(p) PROVE Tame
  BY <1>9 DEF TakeSignal, Die, Reap
<1>10. ASSUME NEW p \in Procs, NEW w \in Workers, WorkerStep(p, w) PROVE Tame
  BY <1>10 DEF WorkerStep, RunHandler, CountOff, Unlock
<1>11. CASE UNCHANGED vars
  BY <1>4, <1>11 DEF vars
<1> QED
  BY <1>2, <1>3, <1>4, <1>5, <1>6, <1>7, <1>8, <1>9, <1>10, <1>11
     DEF Next, CoreThread, Client, Register, Accepting

\* If no process registers for one message from two threads at once, the table
\* never holds two nodes for the same process and message.
THEOREM RegistrationsAreUnique ==
  ASSUME RegistrationsSerial
  PROVE  Spec => []UniqueRegistration
<1>1. Init => UniqueInv
  <2>1. Init => Ordered /\ UniqueRegistration /\ \A r \in Registrations : pc[r] # "insert"
    BY DEF Init, Ordered, UniqueRegistration
  <2> QED
    BY <2>1, InitType DEF UniqueInv
<1>2. UniqueInv /\ [Next]_vars => UniqueInv'
  BY UniqueStep
<1>3. UniqueInv => UniqueRegistration
  BY DEF UniqueInv
<1> QED
  BY <1>1, <1>2, <1>3, PTL DEF Spec
=============================================================================
