---------------------------- MODULE ResultProofs -----------------------------
(***************************************************************************)
(* What a caller is told, and that EmiCore implements MessageService, in   *)
(* the environment of ServiceProofs.                                       *)
(***************************************************************************)
EXTENDS ServiceProofs

\* Somebody handled the message, and nobody who took it failed.
Earned(c) ==
  /\ \E p \in Procs : outcome[c][p] = "good"
  /\ \A p \in Procs : outcome[c][p] \in {"none", "good"}

\* A send never registers, and its area remembers whether it blocks.
SendPath(c) ==
  /\ pc[c] \notin {"check", "insert", "mutex", "answer"}
  /\ pc[c] \notin {"idle", "receive", "done"} =>
       (mem[msg_pos[c]].block <=> c \in Blocking)
  /\ pc[c] = "ret" => c \in Blocking

\* Until the verdict, SUCCEEDED tells whether a handler failed and
\* max_exit_receiver how many nodes are left; from then on nobody is awaited.
Judging(c) ==
  /\ pc[c] \in Delivering \cup {"verdict"} =>
       /\ c \in Blocking =>
            (mem[msg_pos[c]].succeeded <=> \A p \in Procs : outcome[c][p] # "bad")
       /\ max_exit_receiver[c] = Cardinality(Matching(MsgOf[c]))
  /\ pc[c] \in {"verdict", "ret", "free", "done"} =>
       \A p \in Procs : outcome[c][p] # "taken"
  /\ pc[c] = "verdict" => Pending(c) = {}

\* After the verdict the area, the answer and the result say what was earned.
Judged(c) ==
  c \in Blocking =>
    /\ pc[c] = "ret" => (mem[msg_pos[c]].succeeded <=> Earned(c))
    /\ reply[c] # "none" =>
         pc[c] \in {"free", "done"} /\ (reply[c] = "succeeded" <=> Earned(c))
    /\ pc[c] \in {"free", "done"} /\ reply[c] = "none" =>
         \A p \in Procs : outcome[c][p] = "none"
    /\ result[c] # "none" =>
         pc[c] \in {"free", "done"} /\ (result[c] = "ok" <=> Earned(c))

ResultOf(c) == SendPath(c) /\ Judging(c) /\ Judged(c)

ResultInv == ServiceInv /\ \A c \in Sends : ResultOf(c)

USE DEF Conns

-----------------------------------------------------------------------------
(* What a step of somebody else leaves alone.                              *)

\* All that ResultOf looks at.
Framed(d) ==
  /\ pc'[d] = pc[d] /\ msg_pos'[d] = msg_pos[d] /\ outcome'[d] = outcome[d]
  /\ max_exit_receiver'[d] = max_exit_receiver[d]
  /\ reply'[d] = reply[d] /\ result'[d] = result[d]
  /\ pc[d] \notin {"idle", "receive", "done"} =>
       /\ mem'[msg_pos[d]].block = mem[msg_pos[d]].block
       /\ mem'[msg_pos[d]].succeeded = mem[msg_pos[d]].succeeded
  /\ pc[d] # "idle" => Matching(MsgOf[d])' = Matching(MsgOf[d])

LEMMA FramedResult ==
  ASSUME NEW d \in Sends, ResultOf(d), Framed(d)
  PROVE  ResultOf(d)'
<1>1. SendPath(d)'
  BY DEF ResultOf, SendPath, Framed
<1>2. pc[d] # "idle" => Pending(d)' = Pending(d)
  BY DEF Framed, Pending
<1>3. Judging(d)'
  BY <1>2 DEF ResultOf, Judging, Framed, Delivering
<1>4. Earned(d)' <=> Earned(d)
  BY DEF Earned, Framed
<1>5. Judged(d)'
  BY <1>4 DEF ResultOf, Judged, Framed
<1> QED
  BY <1>1, <1>3, <1>5 DEF ResultOf

\* A connection that is under way has an area, of its own.
LEMMA OwnArea ==
  ASSUME ServiceInv, NEW d \in Conns, pc[d] \notin {"idle", "receive", "done"}
  PROVE  /\ msg_pos[d] \in Areas /\ msg_pos[d] \in used
         /\ \A c \in Conns : c # d => msg_pos[c] # msg_pos[d]
  BY DEF ServiceInv, SlotInv, TypeOK, AreasOwned

\* A store to another area, or one that keeps both flags, does not matter.
LEMMA StoreElsewhere ==
  ASSUME TypeOK, NEW a \in Areas, NEW b, NEW m, Store(b, m),
         a # b \/ (m.block = mem[b].block /\ m.succeeded = mem[b].succeeded)
  PROVE  /\ mem'[a].block = mem[a].block
         /\ mem'[a].succeeded = mem[a].succeeded
  BY DEF TypeOK, Store

\* A step of a connection leaves the other sends alone.
LEMMA OthersFramed ==
  ASSUME ServiceInv, CalmService, NEW c \in Conns, CoreThread(c) \/ Client(c),
         NEW d \in Sends, d # c
  PROVE  Framed(d)
<1>p. TypeOK /\ Addressed /\ Ordered /\ Calm
  BY DEF ServiceInv, SlotInv
<1> USE <1>p, ConnsAssumption, SentinelAssumption
<1> USE DEF tableVars, slotVars, memVars, threadVars, procVars, clientVars, Goto
<1>1. /\ pc'[d] = pc[d] /\ msg_pos'[d] = msg_pos[d] /\ outcome' = outcome
      /\ max_exit_receiver'[d] = max_exit_receiver[d]
      /\ reply'[d] = reply[d] /\ result'[d] = result[d]
  <2>1. CASE Client(c)
    BY <2>1 DEF Client, ClientOpen, ClientFinish, TypeOK
  <2>2. CASE CoreThread(c)
    BY <2>2 DEF CoreThread, Receive, NoSpace, Answer, Release, Register,
                RegisterCheck, RegisterInsert, RegisterMutexInit, Deliver,
                CountReceivers, ReadLock, PutSlot, Kill, AwaitZero, ReadUnlock,
                Poll, WriteLock, PurgeGone, PurgeKeep, WriteUnlock, Verdict, TypeOK
  <2> QED
    BY <2>1, <2>2
<1>2. ASSUME pc[d] \notin {"idle", "receive", "done"}
      PROVE  /\ mem'[msg_pos[d]].block = mem[msg_pos[d]].block
             /\ mem'[msg_pos[d]].succeeded = mem[msg_pos[d]].succeeded
  <2>1. UNCHANGED mem \/ \E b, m : Store(b, m) /\ (b = msg_pos[c] \/ b \notin used)
    BY DEF CoreThread, Client, ClientOpen, ClientFinish, Receive, NoSpace, Answer,
           Release, Register, RegisterCheck, RegisterInsert, RegisterMutexInit,
           Deliver, CountReceivers, ReadLock, PutSlot, Kill, AwaitZero, ReadUnlock,
           Poll, WriteLock, PurgeGone, PurgeKeep, WriteUnlock, Verdict, SetSucceeded
  <2>2. msg_pos[d] \in Areas /\ msg_pos[d] \in used /\ msg_pos[c] # msg_pos[d]
    BY <1>2, OwnArea
  <2> QED
    BY <2>1, <2>2, StoreElsewhere
<1>3. ASSUME pc[d] # "idle" PROVE Matching(MsgOf[d])' = Matching(MsgOf[d])
  <2>1. CASE UNCHANGED table
    BY <2>1 DEF Matching
  <2>2. CASE c \in Registrations /\ RegisterInsert(c)
    <3>1. table' = table \cup {c} /\ pc[c] = "insert"
      BY <2>2 DEF RegisterInsert
    <3>2. MsgOf[c] # MsgOf[d]
      BY <1>3, <2>2, <3>1, NobodyRegisters DEF CalmService
    <3> QED
      BY <3>1, <3>2 DEF Matching
  <2>3. CASE c \in Sends /\ PurgeGone(c)
    <3>1. PICK n \in todo[c] : proc[ProcOf[n]] = "gone" /\ table' = table \ {n}
      BY <2>3 DEF PurgeGone
    <3>2. MsgOf[d] # MsgOf[n]
      BY <2>3, <3>1, PurgeIsCalm DEF CalmService
    <3> QED
      BY <3>1, <3>2 DEF Matching
  <2> QED
    BY <2>1, <2>2, <2>3
       DEF CoreThread, Client, ClientOpen, ClientFinish, Receive, NoSpace, Answer,
           Release, Register, RegisterCheck, RegisterMutexInit,
           Deliver, CountReceivers, ReadLock, PutSlot, Kill, AwaitZero, ReadUnlock,
           Poll, WriteLock, PurgeKeep, WriteUnlock, Verdict
<1> QED
  BY <1>1, <1>2, <1>3 DEF Framed

-----------------------------------------------------------------------------
(* What a send's own steps do.                                             *)

\* Before the dispatch nobody has the message.
LEMMA NothingYet ==
  ASSUME ServiceInv, NEW c \in Sends, pc[c] \in {"idle", "receive", "count"}
  PROVE  \A p \in Procs : outcome[c][p] = "none"
  BY DEF ServiceInv, EachReachedOnce, ReachedOnce, Dispatched, Delivering

\* The caller opens, and later reads its result.
LEMMA OwnClient ==
  ASSUME ResultInv, NEW c \in Sends, ClientOpen(c) \/ ClientFinish(c)
  PROVE  ResultOf(c)'
<1>p. ServiceInv /\ TypeOK /\ ResultOf(c)
  BY DEF ResultInv, ServiceInv, SlotInv
<1> USE <1>p, ConnsAssumption
<1> USE DEF tableVars, slotVars, memVars, threadVars, procVars, clientVars, Goto
<1>1. CASE ClientOpen(c)
  <2>1. pc[c] = "idle" /\ pc'[c] = "receive" /\ UNCHANGED <<mem, outcome, reply>>
    BY <1>1 DEF ClientOpen, TypeOK
  <2>2. c \in Blocking => result'[c] = "none"
    BY <1>1 DEF ClientOpen, TypeOK
  <2> QED
    BY <2>1, <2>2 DEF ResultOf, SendPath, Judging, Judged, Delivering
<1>2. CASE ClientFinish(c)
  <2>1. UNCHANGED <<pc, mem, msg_pos, outcome, reply, table, max_exit_receiver>>
    BY <1>2 DEF ClientFinish
  <2>2. /\ result'[c] \in {"ok", "fail"}
        /\ result'[c] = "ok" <=> reply[c] = "succeeded"
        /\ reply[c] # "none" \/ pc[c] = "done"
    BY <1>2 DEF ClientFinish, TypeOK
  <2>3. Earned(c)' <=> Earned(c)
    BY <2>1 DEF Earned
  <2>4. c \in Blocking => pc[c] \in {"free", "done"} /\ (result'[c] = "ok" <=> Earned(c))
    BY <2>2 DEF ResultOf, Judged, Earned
  <2>5. SendPath(c)'
    BY <2>1 DEF ResultOf, SendPath
  <2>6. Judging(c)'
    BY <2>1 DEF ResultOf, Judging, Matching, Pending
  <2>7. Judged(c)'
    BY <2>1, <2>3, <2>4 DEF ResultOf, Judged
  <2> QED
    BY <2>5, <2>6, <2>7 DEF ResultOf
<1> QED
  BY <1>1, <1>2

\* The message gets an area or none, and loses it.
LEMMA OwnArrival ==
  ASSUME ResultInv, NEW c \in Sends, Receive(c) \/ NoSpace(c) \/ Release(c)
  PROVE  ResultOf(c)'
<1>p. ServiceInv /\ TypeOK /\ ResultOf(c)
  BY DEF ResultInv, ServiceInv, SlotInv
<1> USE <1>p, ConnsAssumption
<1> USE DEF tableVars, slotVars, memVars, threadVars, procVars, clientVars, Goto
<1>0. UNCHANGED <<outcome, reply, result>>
  BY DEF Receive, NoSpace, Release
<1>1. Earned(c)' <=> Earned(c)
  BY <1>0 DEF Earned
<1>2. CASE Receive(c)
  <2>1. PICK a \in Areas :
          /\ msg_pos' = [msg_pos EXCEPT ![c] = a]
          /\ mem' = [mem EXCEPT ![a] = [msg |-> MsgOf[c], block |-> c \in Blocking,
                       succeeded |-> FALSE, count |-> 0, locked |-> FALSE]]
    BY <1>2 DEF Receive, Store
  <2>2. pc[c] = "receive" /\ pc'[c] \in {"count", "free"}
    BY <1>2 DEF Receive, TypeOK
  <2>3. mem'[msg_pos'[c]].block <=> c \in Blocking
    BY <2>1 DEF TypeOK
  <2>4. SendPath(c)'
    BY <2>2, <2>3 DEF SendPath
  <2>5. \A p \in Procs : outcome'[c][p] = "none"
    BY <1>0, <2>2, NothingYet
  <2>6. Judging(c)'
    BY <2>2, <2>5 DEF Judging, Delivering
  <2>7. Judged(c)'
    BY <1>0, <2>2, <2>5 DEF ResultOf, Judged
  <2> QED
    BY <2>4, <2>6, <2>7 DEF ResultOf
<1>3. CASE NoSpace(c)
  <2>1. pc[c] = "receive" /\ pc'[c] = "done"
    BY <1>3 DEF NoSpace, TypeOK
  <2>2. \A p \in Procs : outcome'[c][p] = "none"
    BY <1>0, <2>1, NothingYet
  <2> QED
    BY <1>0, <2>1, <2>2 DEF ResultOf, SendPath, Judging, Judged, Delivering
<1>4. CASE Release(c)
  <2>1. pc[c] = "free" /\ pc'[c] = "done"
    BY <1>4 DEF Release, TypeOK
  <2> QED
    BY <1>0, <1>1, <2>1 DEF ResultOf, SendPath, Judging, Judged, Delivering
<1> QED
  BY <1>2, <1>3, <1>4

\* The answer tells what the area says.
LEMMA OwnAnswer ==
  ASSUME ResultInv, NEW c \in Sends, Answer(c)
  PROVE  ResultOf(c)'
<1>p. ServiceInv /\ TypeOK /\ ResultOf(c)
  BY DEF ResultInv, ServiceInv, SlotInv
<1> USE <1>p, ConnsAssumption
<1> USE DEF tableVars, slotVars, memVars, threadVars, procVars, clientVars, Goto
<1>1. UNCHANGED <<outcome, result, mem, msg_pos>>
  BY DEF Answer
<1>2. Earned(c)' <=> Earned(c)
  BY <1>1 DEF Earned
<1>3. pc[c] = "ret" /\ pc'[c] = "free"
  BY DEF Answer, ResultOf, SendPath, TypeOK
<1>4. /\ reply'[c] \in {"succeeded", "failed"}
      /\ reply'[c] = "succeeded" <=> mem[msg_pos[c]].succeeded
  BY DEF Answer, TypeOK
<1>5. SendPath(c)' /\ Judging(c)'
  BY <1>1, <1>3 DEF ResultOf, SendPath, Judging, Delivering
<1>6. Judged(c)'
  BY <1>1, <1>2, <1>3, <1>4 DEF ResultOf, Judged
<1> QED
  BY <1>5, <1>6 DEF ResultOf

\* SUCCEEDED is set if there is a receiver, and the receivers are counted.
LEMMA OwnCount ==
  ASSUME ResultInv, CountFits, NEW c \in Sends, CountReceivers(c)
  PROVE  ResultOf(c)'
<1>p. ServiceInv /\ TypeOK /\ ResultOf(c)
  BY DEF ResultInv, ServiceInv, SlotInv
<1> USE <1>p, ConnsAssumption
<1> USE DEF tableVars, slotVars, memVars, threadVars, procVars, clientVars, Goto
<1> DEFINE n == Cardinality(Matching(MsgOf[c]))
           m == [mem[msg_pos[c]] EXCEPT !.count = n, !.succeeded = n > 0]
<1>1. n \in 0 .. CountMod - 1 /\ n % CountMod = n
  BY PendingIsCounted, ModIsSelf
<1>2. /\ pc[c] = "count" /\ UNCHANGED <<outcome, result, reply, msg_pos, table>>
      /\ mem' = [mem EXCEPT ![msg_pos[c]] = m]
      /\ max_exit_receiver' = [max_exit_receiver EXCEPT ![c] = n]
  BY <1>1 DEF CountReceivers, Store
<1>3. msg_pos[c] \in Areas
  BY <1>2, OwnArea
<1>4. /\ mem'[msg_pos[c]].block = mem[msg_pos[c]].block
      /\ mem'[msg_pos[c]].succeeded = (n > 0)
  BY <1>2, <1>3 DEF TypeOK, MsgAreas
<1>5. \A p \in Procs : outcome'[c][p] = "none"
  BY <1>2, NothingYet
<1>6. mem[msg_pos[c]].block <=> c \in Blocking
  BY <1>2 DEF ResultOf, SendPath
<1>7. Matching(MsgOf[c])' = Matching(MsgOf[c]) /\ max_exit_receiver'[c] = n
  BY <1>2 DEF Matching, TypeOK
<1> HIDE DEF m
<1>8. CASE n > 0
  <2>1. pc'[c] = "rdlock"
    BY <1>1, <1>8 DEF CountReceivers, TypeOK
  <2>2. SendPath(c)'
    BY <1>2, <1>4, <1>6, <2>1 DEF SendPath
  <2>3. Judging(c)'
    BY <1>2, <1>4, <1>5, <1>7, <1>8, <2>1 DEF Judging
  <2>4. Judged(c)'
    BY <1>2, <2>1 DEF ResultOf, Judged
  <2> QED
    BY <2>2, <2>3, <2>4 DEF ResultOf
<1>9. CASE ~(n > 0)
  <2>1. pc'[c] = IF c \in Blocking THEN "ret" ELSE "free"
    BY <1>1, <1>6, <1>9 DEF CountReceivers, AfterVerdict, TypeOK
  <2>2. SendPath(c)'
    BY <1>2, <1>4, <1>6, <2>1 DEF SendPath
  <2>3. Judging(c)'
    BY <1>5, <2>1 DEF Judging, Delivering
  <2>4. ~Earned(c)'
    BY <1>5 DEF Earned
  <2>5. Judged(c)'
    BY <1>2, <1>4, <1>9, <2>1, <2>4 DEF ResultOf, Judged
  <2> QED
    BY <2>2, <2>3, <2>5 DEF ResultOf
<1> QED
  BY <1>8, <1>9

\* The deliveries, the polls and the purges.
LEMMA OwnDelivery ==
  ASSUME ResultInv, CountFits, NEW c \in Sends,
         \/ ReadLock(c) \/ PutSlot(c) \/ Kill(c) \/ AwaitZero(c) \/ ReadUnlock(c)
         \/ Poll(c) \/ WriteLock(c) \/ PurgeKeep(c) \/ WriteUnlock(c)
  PROVE  ResultOf(c)'
<1>p. ServiceInv /\ TypeOK /\ ResultOf(c)
  BY DEF ResultInv, ServiceInv, SlotInv
<1> USE <1>p, ConnsAssumption
<1> USE DEF tableVars, slotVars, memVars, threadVars, procVars, clientVars, Goto
<1>1. UNCHANGED <<outcome, mem, msg_pos, table, max_exit_receiver, reply, result>>
  BY DEF ReadLock, PutSlot, Kill, AwaitZero, ReadUnlock, Poll, WriteLock,
         PurgeKeep, WriteUnlock
<1>2. Matching(MsgOf[c])' = Matching(MsgOf[c]) /\ Pending(c)' = Pending(c)
  BY <1>1 DEF Matching, Pending
<1>3. pc[c] \in Delivering /\ pc'[c] \in Delivering \cup {"verdict"}
  BY DEF ReadLock, PutSlot, Kill, AwaitZero, ReadUnlock, Poll, WriteLock,
         PurgeKeep, WriteUnlock, Delivering, TypeOK
<1>4. pc'[c] = "verdict" => mem[msg_pos[c]].count = 0
  BY DEF ReadLock, PutSlot, Kill, AwaitZero, ReadUnlock, Poll, WriteLock,
         PurgeKeep, WriteUnlock, TypeOK
<1>5. pc'[c] = "verdict" => Pending(c) = {} /\ \A p \in Procs : outcome[c][p] # "taken"
  BY <1>3, <1>4, ZeroIsReached
<1>6. SendPath(c)'
  BY <1>1, <1>3 DEF ResultOf, SendPath, Delivering
<1>7. Judging(c)'
  BY <1>1, <1>2, <1>3, <1>5 DEF ResultOf, Judging, Delivering
<1>8. Judged(c)'
  BY <1>1, <1>3 DEF ResultOf, Judged, Delivering
<1> QED
  BY <1>6, <1>7, <1>8 DEF ResultOf

\* A purge takes the receiver off both counts.
LEMMA OwnPurge ==
  ASSUME ResultInv, CalmService, NEW c \in Sends, PurgeGone(c)
  PROVE  ResultOf(c)'
<1>p. ServiceInv /\ TypeOK /\ Addressed /\ Calm /\ Purging /\ ResultOf(c)
  BY DEF ResultInv, ServiceInv, SlotInv
<1> USE <1>p, ConnsAssumption
<1> USE DEF tableVars, slotVars, memVars, threadVars, procVars, clientVars, Goto
<1>1. PICK n \in todo[c] :
        /\ table' = table \ {n}
        /\ Store(msg_pos[c], [mem[msg_pos[c]] EXCEPT !.count = Decrement(@)])
        /\ max_exit_receiver' = [max_exit_receiver EXCEPT ![c] = @ - 1]
  BY DEF PurgeGone
<1>2. pc[c] = "purge" /\ UNCHANGED <<pc, outcome, msg_pos, reply, result>>
  BY DEF PurgeGone
<1>3. n \in Matching(MsgOf[c])
  BY <1>1, <1>2 DEF Addressed, Purging, Matching
<1>4. Matching(MsgOf[c])' = Matching(MsgOf[c]) \ {n}
  BY <1>1 DEF Matching
<1>5. Cardinality(Matching(MsgOf[c]) \ {n}) = Cardinality(Matching(MsgOf[c])) - 1
  BY <1>3, PendingIsCounted, FS_RemoveElement DEF CalmService
<1>6. max_exit_receiver'[c] = Cardinality(Matching(MsgOf[c])')
  BY <1>1, <1>2, <1>4, <1>5 DEF TypeOK, ResultOf, Judging, Delivering
<1>7. /\ mem'[msg_pos[c]].block = mem[msg_pos[c]].block
      /\ mem'[msg_pos[c]].succeeded = mem[msg_pos[c]].succeeded
  <2>1. msg_pos[c] \in Areas
    BY <1>2, OwnArea
  <2> QED
    BY <1>1, <2>1 DEF TypeOK, Store, MsgAreas
<1>8. SendPath(c)'
  BY <1>2, <1>7 DEF ResultOf, SendPath
<1>9. Judging(c)'
  BY <1>2, <1>6, <1>7 DEF ResultOf, Judging, Delivering
<1>10. Judged(c)'
  BY <1>2 DEF ResultOf, Judged
<1> QED
  BY <1>8, <1>9, <1>10 DEF ResultOf

\* The verdict: without a living receiver the send has failed.
LEMMA OwnVerdict ==
  ASSUME ResultInv, CountFits, NEW c \in Sends, Verdict(c)
  PROVE  ResultOf(c)'
<1>p. ServiceInv /\ TypeOK /\ ResultOf(c)
  BY DEF ResultInv, ServiceInv, SlotInv
<1> USE <1>p, ConnsAssumption
<1> USE DEF tableVars, slotVars, memVars, threadVars, procVars, clientVars, Goto
<1>1. pc[c] = "verdict" /\ UNCHANGED <<outcome, msg_pos, table, reply, result>>
  BY DEF Verdict
<1>2. msg_pos[c] \in Areas
  BY <1>1, OwnArea
<1>3. mem[msg_pos[c]].block <=> c \in Blocking
  BY <1>1 DEF ResultOf, SendPath
<1>4. pc'[c] = IF c \in Blocking THEN "ret" ELSE "free"
  BY <1>3 DEF Verdict, AfterVerdict, TypeOK
<1>5. /\ mem'[msg_pos[c]].block = mem[msg_pos[c]].block
      /\ mem'[msg_pos[c]].succeeded <=>
           max_exit_receiver[c] # 0 /\ mem[msg_pos[c]].succeeded
  BY <1>2 DEF Verdict, SetSucceeded, Store, TypeOK, MsgAreas
<1>6. max_exit_receiver[c] = 0 <=> Matching(MsgOf[c]) = {}
  <2>1. max_exit_receiver[c] = Cardinality(Matching(MsgOf[c]))
    BY <1>1 DEF ResultOf, Judging
  <2> QED
    BY <2>1, PendingIsCounted, FS_EmptySet
<1>7. Matching(MsgOf[c]) # {} <=> \E p \in Procs : outcome[c][p] # "none"
  <2>1. ASSUME NEW q \in Matching(MsgOf[c]) PROVE outcome[c][ProcOf[q]] # "none"
    BY <1>1, <2>1 DEF ResultOf, Judging, Pending
  <2>2. \A q \in Matching(MsgOf[c]) : ProcOf[q] \in Procs
    BY DEF Matching, TypeOK
  <2>3. ASSUME NEW p \in Procs, outcome[c][p] # "none" PROVE Matching(MsgOf[c]) # {}
    BY <1>1, <2>3 DEF ServiceInv, EachReachedOnce, ReachedOnce
  <2> QED
    BY <2>1, <2>2, <2>3
<1>8. \A p \in Procs : outcome[c][p] \in {"none", "good", "bad"}
  BY <1>1 DEF ResultOf, Judging, TypeOK
<1>9. c \in Blocking =>
        (mem[msg_pos[c]].succeeded <=> \A p \in Procs : outcome[c][p] # "bad")
  BY <1>1 DEF ResultOf, Judging
<1>10. c \in Blocking => (mem'[msg_pos[c]].succeeded <=> Earned(c))
  BY <1>5, <1>6, <1>7, <1>8, <1>9 DEF Earned
<1>11. Earned(c)' <=> Earned(c)
  BY <1>1 DEF Earned
<1>12. SendPath(c)'
  BY <1>1, <1>3, <1>4, <1>5 DEF SendPath
<1>13. Judging(c)'
  BY <1>1, <1>4, <1>8 DEF Judging, Delivering
<1>14. Judged(c)'
  BY <1>1, <1>4, <1>10, <1>11 DEF ResultOf, Judged
<1> QED
  BY <1>12, <1>13, <1>14 DEF ResultOf

-----------------------------------------------------------------------------
(* What the receivers do.                                                  *)

\* A process that takes the message leaves the verdict open.
LEMMA TakeResult ==
  ASSUME ResultInv, NEW p \in Procs, TakeSignal(p), NEW d \in Sends
  PROVE  ResultOf(d)'
<1>p. ServiceInv /\ TypeOK /\ ResultOf(d)
  BY DEF ResultInv, ServiceInv, SlotInv
<1> USE <1>p
<1> USE DEF tableVars, slotVars, memVars, threadVars, procVars, clientVars
<1>1. UNCHANGED <<pc, mem, msg_pos, table, max_exit_receiver, reply, result>>
  BY DEF TakeSignal
<1>2. PICK s \in Sends : Taken(s, p)
  BY TakeEffect
<1>3. pc[s] = "await" /\ outcome' = [outcome EXCEPT ![s][p] = "taken"]
      /\ outcome[s][p] = "none"
  BY <1>2 DEF Taken
<1>4. CASE d # s
  <2>1. outcome'[d] = outcome[d]
    BY <1>3, <1>4 DEF TypeOK
  <2>2. Framed(d)
    BY <1>1, <2>1 DEF Framed, Matching
  <2> QED
    BY <2>2, FramedResult
<1>5. CASE d = s
  <2>1. \A q \in Procs : outcome'[d][q] = "bad" <=> outcome[d][q] = "bad"
    BY <1>3, <1>5 DEF TypeOK
  <2>2. SendPath(d)'
    BY <1>1 DEF ResultOf, SendPath
  <2>3. Judging(d)'
    BY <1>1, <1>3, <1>5, <2>1 DEF ResultOf, Judging, Matching
  <2>4. Judged(d)'
    BY <1>1, <1>3, <1>5 DEF ResultOf, Judged
  <2> QED
    BY <2>2, <2>3, <2>4 DEF ResultOf
<1> QED
  BY <1>4, <1>5

\* A thread that counts itself off withdraws SUCCEEDED exactly if it failed.
LEMMA CountOffResult ==
  ASSUME ResultInv, NEW p \in Procs, NEW w \in Workers, CountOff(p, w), NEW d \in Sends
  PROVE  ResultOf(d)'
<1>p. ServiceInv /\ TypeOK /\ ResultOf(d)
  BY DEF ResultInv, ServiceInv, SlotInv
<1> USE <1>p, ConnsAssumption
<1> USE DEF tableVars, slotVars, memVars, threadVars, procVars, clientVars
<1>1. UNCHANGED <<pc, msg_pos, table, max_exit_receiver, reply, result>>
  BY DEF CountOff
<1>2. PICK s \in Sends, how \in {"good", "bad"} : CountedOff(s, p, w, how)
  BY CountOffEffect
<1>3. /\ pc[s] \in Delivering /\ msg_pos[s] = worker[p][w].area /\ msg_pos[s] \in Areas
      /\ outcome[s][p] = "taken" /\ outcome' = [outcome EXCEPT ![s][p] = how]
      /\ how = "bad" <=> worker[p][w].ret # 0
  BY <1>2 DEF CountedOff
<1>4. Store(msg_pos[s], [mem[msg_pos[s]] EXCEPT !.locked = TRUE,
        !.succeeded = @ /\ ~(mem[msg_pos[s]].block /\ worker[p][w].ret # 0),
        !.count = Decrement(@)])
  BY <1>3 DEF CountOff
<1>5. CASE d # s
  <2>1. outcome'[d] = outcome[d]
    BY <1>3, <1>5 DEF TypeOK
  <2>2. pc[d] \notin {"idle", "receive", "done"} => mem'[msg_pos[d]] = mem[msg_pos[d]]
    <3>1. ASSUME pc[d] \notin {"idle", "receive", "done"}
          PROVE  msg_pos[d] \in Areas /\ msg_pos[s] # msg_pos[d]
      BY <1>5, <3>1, OwnArea
    <3> QED
      BY <1>4, <3>1 DEF Store, TypeOK
  <2>3. Framed(d)
    BY <1>1, <2>1, <2>2 DEF Framed, Matching
  <2> QED
    BY <2>3, FramedResult
<1>6. CASE d = s
  <2>1. /\ mem'[msg_pos[d]].block = mem[msg_pos[d]].block
        /\ mem'[msg_pos[d]].succeeded <=>
             mem[msg_pos[d]].succeeded /\ ~(mem[msg_pos[d]].block /\ how = "bad")
    <3> DEFINE a == msg_pos[s]
               b == mem[a].succeeded /\ ~(mem[a].block /\ worker[p][w].ret # 0)
               n == Decrement(mem[a].count)
    <3>1. a \in Areas /\ mem \in [Areas -> MsgAreas]
      BY <1>3 DEF TypeOK
    <3>2. mem' = [mem EXCEPT ![a] = [mem[a] EXCEPT !.locked = TRUE, !.succeeded = b,
                                                    !.count = n]]
      BY <1>4 DEF Store
    <3>3. b <=> mem[a].succeeded /\ ~(mem[a].block /\ how = "bad")
      BY <1>3
    <3> HIDE DEF b, n
    <3>4. mem'[a].block = mem[a].block /\ mem'[a].succeeded = b
      BY <3>1, <3>2 DEF MsgAreas
    <3> QED
      BY <1>1, <1>6, <3>3, <3>4
  <2>2. \A q \in Procs : outcome'[d][q] = (IF q = p THEN how ELSE outcome[d][q])
    BY <1>3, <1>6 DEF TypeOK
  <2>3. mem[msg_pos[d]].block <=> d \in Blocking
    BY <1>3, <1>6 DEF ResultOf, SendPath, Delivering
  <2>4. SendPath(d)'
    BY <1>1, <2>1 DEF ResultOf, SendPath
  <2>5. d \in Blocking => (mem'[msg_pos[d]].succeeded <=>
                             \A q \in Procs : outcome'[d][q] # "bad")
    BY <1>3, <1>6, <2>1, <2>2, <2>3 DEF ResultOf, Judging
  <2>6. Judging(d)'
    BY <1>1, <1>3, <1>6, <2>5 DEF ResultOf, Judging, Matching, Delivering
  <2>7. Judged(d)'
    BY <1>1, <1>3, <1>6 DEF ResultOf, Judged, Delivering
  <2> QED
    BY <2>4, <2>6, <2>7 DEF ResultOf
<1> QED
  BY <1>5, <1>6

\* The other steps of a receiver change nothing a result depends on.
LEMMA OtherResult ==
  ASSUME ResultInv, NEW p \in Procs, NEW d \in Sends,
         Die(p) \/ Reap(p) \/ \E w \in Workers : RunHandler(p, w) \/ Unlock(p, w)
  PROVE  ResultOf(d)'
<1>p. ServiceInv /\ TypeOK /\ ResultOf(d)
  BY DEF ResultInv, ServiceInv, SlotInv
<1> USE <1>p
<1> USE DEF tableVars, slotVars, memVars, threadVars, procVars, clientVars
<1>1. UNCHANGED <<pc, msg_pos, table, outcome, max_exit_receiver, reply, result>>
  BY DEF Die, Reap, RunHandler, Unlock
<1>2. \A a \in Areas : /\ mem'[a].block = mem[a].block
                       /\ mem'[a].succeeded = mem[a].succeeded
  <2>1. ASSUME NEW w \in Workers, Unlock(p, w), NEW a \in Areas
        PROVE  /\ mem'[a].block = mem[a].block
               /\ mem'[a].succeeded = mem[a].succeeded
    BY <2>1 DEF Unlock, Store, TypeOK, MsgAreas
  <2>2. (\E w \in Workers : Unlock(p, w)) \/ UNCHANGED mem
    BY DEF Die, Reap, RunHandler
  <2> QED
    BY <2>1, <2>2
<1>3. pc[d] \notin {"idle", "receive", "done"} => msg_pos[d] \in Areas
  BY OwnArea
<1>4. Framed(d)
  BY <1>1, <1>2, <1>3 DEF Framed, Matching
<1> QED
  BY <1>4, FramedResult

-----------------------------------------------------------------------------
(* What a caller is told.                                                  *)

\* Every step keeps the results right.
LEMMA ResultStep ==
  ASSUME CalmService, ResultInv, [Next]_vars
  PROVE  ResultInv'
<1>1. ServiceInv /\ ServiceInv'
  BY ServiceStep DEF ResultInv
<1>2. SUFFICES ASSUME NEW d \in Sends PROVE ResultOf(d)'
  BY <1>1 DEF ResultInv
<1>3. ResultOf(d) /\ CountFits
  BY DEF ResultInv, CalmService
<1>4. ASSUME NEW c \in Conns, CoreThread(c) \/ Client(c) PROVE ResultOf(d)'
  <2>1. CASE c # d
    BY <1>1, <1>3, <1>4, <2>1, OthersFramed, FramedResult
  <2>2. CASE c = d
    BY <1>3, <1>4, <2>2, ConnsAssumption, OwnClient, OwnArrival, OwnAnswer, OwnCount,
       OwnDelivery, OwnPurge, OwnVerdict DEF CoreThread, Client, Deliver
  <2> QED
    BY <2>1, <2>2
<1>5. ASSUME NEW p \in Procs, TakeSignal(p) \/ Die(p) \/ Reap(p) PROVE ResultOf(d)'
  BY <1>5, TakeResult, OtherResult
<1>6. ASSUME NEW p \in Procs, NEW w \in Workers, WorkerStep(p, w) PROVE ResultOf(d)'
  BY <1>6, CountOffResult, OtherResult DEF WorkerStep
<1>7. CASE UNCHANGED vars
  <2>1. Framed(d)
    BY <1>7 DEF vars, tableVars, memVars, threadVars, clientVars, Framed, Matching
  <2> QED
    BY <1>3, <2>1, FramedResult
<1> QED
  BY <1>4, <1>5, <1>6, <1>7 DEF Next, Accepting

\* The results are right in every state.
LEMMA ResultsHold ==
  ASSUME CalmService
  PROVE  Spec => []ResultInv
<1>1. Init => ResultInv
  <2>1. Init => \A c \in Sends : ResultOf(c)
    BY ConnsAssumption
       DEF Init, ResultOf, SendPath, Judging, Judged, Delivering
  <2> QED
    BY <2>1, ServiceInit DEF ResultInv
<1>2. ResultInv /\ [Next]_vars => ResultInv'
  BY ResultStep
<1> QED
  BY <1>1, <1>2, PTL DEF Spec

\* A blocking send returns 0 only if a receiver ran its function and every
\* process that took the message ran it successfully
\* (emi_core.c:264-277, emi_ifr.c:94-102, emi_if.c:118-123).
THEOREM SuccessesAreEarned ==
  ASSUME CalmService
  PROVE  Spec => []SuccessIsEarned
<1>1. ResultInv => SuccessIsEarned
  BY ConnsAssumption DEF ResultInv, ResultOf, Judged, Earned, SuccessIsEarned
<1> QED
  BY <1>1, ResultsHold, PTL

\* A blocking send returns -1 only for a reason (emi_core.c:264-272).
THEOREM FailuresAreDue ==
  ASSUME CalmService
  PROVE  Spec => []FailureIsDue
<1>1. ResultInv => FailureIsDue
  <2> SUFFICES ASSUME ResultInv, NEW c \in Blocking, result[c] = "fail"
               PROVE  \/ \E p \in Procs : outcome[c][p] = "bad"
                      \/ \A p \in Procs : outcome[c][p] = "none"
    BY DEF FailureIsDue
  <2>1. c \in Sends /\ ResultOf(c)
    BY ConnsAssumption DEF ResultInv
  <2>2. ~Earned(c) /\ \A p \in Procs : outcome[c][p] # "taken"
    BY <2>1 DEF ResultOf, Judging, Judged
  <2>3. \A p \in Procs : outcome[c][p] \in {"none", "taken", "good", "bad"}
    BY <2>1 DEF ResultInv, ServiceInv, SlotInv, TypeOK
  <2> QED
    BY <2>2, <2>3 DEF Earned
<1> QED
  BY <1>1, ResultsHold, PTL

-----------------------------------------------------------------------------
(* The service implements MessageService.                                  *)

\* What the mapping shows of send d stays.
Quiet(d) ==
  /\ Stage(d)' = Stage(d) /\ Awaited(d)' = Awaited(d)
  /\ outcome'[d] = outcome[d]
  /\ d \in Blocking => result'[d] = result[d]

\* The awaited processes are those of the pending nodes.
LEMMA AwaitedIsPending ==
  ASSUME NEW c \in Sends
  PROVE  Awaited(c) = IF pc[c] \in Delivering THEN {ProcOf[n] : n \in Pending(c)} ELSE {}
  BY DEF Awaited, Pending

LEMMA FramedIsQuiet ==
  ASSUME NEW d \in Sends, Framed(d)
  PROVE  Quiet(d)
<1>1. Stage(d)' = Stage(d)
  BY DEF Framed, Stage
<1>2. Awaited(d)' = Awaited(d)
  <2>1. CASE pc[d] \in Delivering
    BY <2>1 DEF Framed, Awaited, Delivering
  <2>2. CASE pc[d] \notin Delivering
    BY <2>2 DEF Framed, Awaited
  <2> QED
    BY <2>1, <2>2
<1> QED
  BY <1>1, <1>2 DEF Quiet, Framed

\* Nothing that the mapping shows changes.
LEMMA QuietStep ==
  ASSUME TypeOK, TypeOK', \A d \in Sends : Quiet(d), UNCHANGED <<table, proc>>
  PROVE  UNCHANGED Service!vars
<1>1. outcome' = outcome
  BY DEF TypeOK, Quiet
<1> QED
  BY <1>1, ConnsAssumption DEF Service!vars, Quiet

\* What the mapping shows of all sends, when it changes for c only.
LEMMA OneMoves ==
  ASSUME NEW c \in Sends, \A d \in Sends : d # c => Quiet(d)
  PROVE  /\ [d \in Sends |-> Stage(d)]' =
              [[d \in Sends |-> Stage(d)] EXCEPT ![c] = Stage(c)']
         /\ [d \in Sends |-> Awaited(d)]' =
              [[d \in Sends |-> Awaited(d)] EXCEPT ![c] = Awaited(c)']
         /\ [d \in Blocking |-> result[d]]' =
              [[d \in Blocking |-> result[d]] EXCEPT ![c] = result'[c]]
  BY ConnsAssumption DEF Quiet

\* A step of a send that only its stage and its awaited receivers show.
LEMMA StageMoves ==
  ASSUME TypeOK, NEW c \in Sends, \A d \in Sends : d # c => Quiet(d),
         UNCHANGED <<table, proc, outcome, result>>,
         NEW from, NEW to, Stage(c) = from, Stage(c)' = to
  PROVE  /\ Service!Goto(c, from, to)
         /\ UNCHANGED <<{<<ProcOf[n], MsgOf[n]>> : n \in table},
                        {p \in Procs : proc[p] = "gone"}, outcome,
                        [d \in Blocking |-> result[d]]>>
<1>1. Service!Goto(c, from, to)
  BY OneMoves DEF Service!Goto
<1> QED
  BY <1>1

\* A step of a send that leaves the mapping of that send alone.
LEMMA OwnQuiet ==
  ASSUME ResultInv, NEW c \in Sends,
         \/ ClientOpen(c) \/ (c \notin Blocking /\ ClientFinish(c))
         \/ Answer(c) \/ Release(c) \/ Verdict(c)
         \/ Receive(c) /\ pc'[c] = "count"
         \/ ReadLock(c) \/ PutSlot(c) \/ Kill(c) \/ AwaitZero(c) \/ ReadUnlock(c)
         \/ Poll(c) /\ pc'[c] = "wrlock"
         \/ WriteLock(c) \/ PurgeKeep(c) \/ WriteUnlock(c)
  PROVE  Quiet(c) /\ UNCHANGED <<table, proc>>
<1>p. TypeOK /\ ResultOf(c)
  BY DEF ResultInv, ServiceInv, SlotInv
<1> USE <1>p, ConnsAssumption
<1> USE DEF tableVars, slotVars, memVars, threadVars, procVars, clientVars, Goto
<1>1. UNCHANGED <<table, proc, outcome>>
  BY DEF ClientOpen, ClientFinish, Answer, Release, Verdict, Receive, ReadLock,
         PutSlot, Kill, AwaitZero, ReadUnlock, Poll, WriteLock, PurgeKeep, WriteUnlock
<1>2. c \in Blocking => result'[c] = result[c]
  <2>1. CASE ClientOpen(c)
    BY <2>1 DEF ClientOpen, ResultInv, ServiceInv, SlotInv, Ordered, TypeOK
  <2>2. CASE ~ClientOpen(c) /\ ~ClientFinish(c)
    BY <2>2 DEF Answer, Release, Verdict, Receive, ReadLock, PutSlot, Kill,
                AwaitZero, ReadUnlock, Poll, WriteLock, PurgeKeep, WriteUnlock
  <2> QED
    BY <2>1, <2>2 DEF Answer, Release, Verdict, Receive, ReadLock, PutSlot, Kill,
                AwaitZero, ReadUnlock, Poll, WriteLock, PurgeKeep, WriteUnlock
<1>3. /\ pc[c] \in Delivering <=> pc'[c] \in Delivering
      /\ pc[c] \in {"verdict", "ret", "free", "done"} <=>
           pc'[c] \in {"verdict", "ret", "free", "done"}
  <2>1. CASE ClientOpen(c) \/ ClientFinish(c)
    BY <2>1 DEF ClientOpen, ClientFinish, Delivering, TypeOK
  <2>2. CASE Answer(c) \/ Release(c) \/ Verdict(c) \/ (Receive(c) /\ pc'[c] = "count")
    BY <2>2 DEF Answer, Release, Verdict, AfterVerdict, Receive, Delivering, TypeOK,
                ResultOf, SendPath
  <2>3. CASE \/ ReadLock(c) \/ PutSlot(c) \/ Kill(c) \/ AwaitZero(c) \/ ReadUnlock(c)
             \/ Poll(c) /\ pc'[c] = "wrlock"
             \/ WriteLock(c) \/ PurgeKeep(c) \/ WriteUnlock(c)
    <3>1. pc[c] \in Delivering /\ pc'[c] \in Delivering
      BY <2>3 DEF ReadLock, PutSlot, Kill, AwaitZero, ReadUnlock, Poll, WriteLock,
                  PurgeKeep, WriteUnlock, Delivering, TypeOK
    <3> QED
      BY <3>1 DEF Delivering
  <2> QED
    BY <2>1, <2>2, <2>3
<1>4. Stage(c)' = Stage(c)
  BY <1>3 DEF Stage, Delivering
<1>5. Awaited(c)' = Awaited(c)
  BY <1>1, <1>3 DEF Awaited, Matching
<1> QED
  BY <1>1, <1>2, <1>4, <1>5 DEF Quiet

\* A step of a send is a step of MessageService, or nobody sees it.
LEMMA SendMaps ==
  ASSUME CalmService, ResultInv, ResultInv', NEW c \in Sends, CoreThread(c) \/ Client(c)
  PROVE  [Service!Next]_(Service!vars)
<1>p. ServiceInv /\ TypeOK /\ TypeOK' /\ ResultOf(c) /\ CountFits
  BY DEF ResultInv, ServiceInv, SlotInv, CalmService
<1>q. \A d \in Sends : d # c => Quiet(d)
  BY <1>p, OthersFramed, FramedIsQuiet, ConnsAssumption
<1> USE <1>p, <1>q, ConnsAssumption
<1> USE DEF tableVars, slotVars, memVars, threadVars, procVars, clientVars, Goto
<1>1. CASE Quiet(c) /\ UNCHANGED <<table, proc>>
  BY <1>1, QuietStep
<1>2. CASE ClientFinish(c) /\ c \in Blocking
  <2>1. UNCHANGED <<table, proc, outcome, pc>> /\ result[c] = "none"
    BY <1>2 DEF ClientFinish
  <2>2. result'[c] \in {"ok", "fail"}
    BY <1>2 DEF ClientFinish, TypeOK
  <2>3. pc[c] \in {"free", "done"} /\ (result'[c] = "ok" <=> Earned(c))
    <3>1. Judged(c)'
      BY DEF ResultInv, ResultOf
    <3> QED
      BY <1>2, <2>1, <2>2, <3>1 DEF Judged, Earned
  <2>4. Stage(c) = "over" /\ Stage(c)' = "over" /\ Awaited(c) = {} /\ Awaited(c)' = {}
    BY <2>1, <2>3 DEF Stage, Awaited, Delivering
  <2>5. UNCHANGED <<[d \in Sends |-> Stage(d)], [d \in Sends |-> Awaited(d)]>>
    BY <2>4 DEF Quiet
  <2>6. result'[c] = IF Service!Earned(c) THEN "ok" ELSE "fail"
    BY <2>2, <2>3 DEF Earned, Service!Earned
  <2>7. Service!Return(c)
    BY <1>2, <2>1, <2>4, <2>5, <2>6, OneMoves DEF Service!Return
  <2> QED
    BY <1>2, <2>7 DEF Service!Next
<1>3. CASE \/ Receive(c) /\ pc'[c] = "free"
           \/ NoSpace(c)
           \/ CountReceivers(c) /\ pc'[c] # "rdlock"
  <2>1. UNCHANGED <<table, proc, outcome, result>>
    BY <1>3 DEF Receive, NoSpace, CountReceivers
  <2>2. pc[c] \in {"receive", "count"} /\ pc'[c] \in {"ret", "free", "done"}
    BY <1>3 DEF Receive, NoSpace, CountReceivers, AfterVerdict, TypeOK
  <2>3. Stage(c) = "new" /\ Stage(c)' = "over" /\ Awaited(c) = {} /\ Awaited(c)' = {}
    BY <2>2 DEF Stage, Awaited, Delivering
  <2>4. UNCHANGED [d \in Sends |-> Awaited(d)]
    BY <2>3, OneMoves
  <2>5. Service!Drop(c)
    BY <2>1, <2>3, <2>4, StageMoves DEF Service!Drop
  <2> QED
    BY <2>5 DEF Service!Next
<1>4. CASE CountReceivers(c) /\ pc'[c] = "rdlock"
  <2>1. UNCHANGED <<table, proc, outcome, result>> /\ pc[c] = "count"
    BY <1>4 DEF CountReceivers
  <2>2. Stage(c) = "new" /\ Stage(c)' = "open"
    BY <1>4, <2>1 DEF Stage, Delivering
  <2>3. \A p \in Procs : outcome[c][p] = "none"
    BY <2>1, NothingYet
  <2>4. \A n \in Matching(MsgOf[c]) : ProcOf[n] \in Procs /\ outcome[c][ProcOf[n]] = "none"
    BY <2>3 DEF Matching, TypeOK
  <2>5. Awaited(c)' = {ProcOf[n] : n \in Matching(MsgOf[c])}
    BY <1>4, <2>1, <2>4 DEF Awaited, Matching, Delivering
  <2>6. {ProcOf[n] : n \in Matching(MsgOf[c])} =
          {p \in Procs : <<p, MsgOf[c]>> \in {<<ProcOf[n], MsgOf[n]>> : n \in table}}
    BY <2>4 DEF Matching
  <2>7. Service!Open(c)
    BY <2>1, <2>2, <2>5, <2>6, OneMoves, StageMoves DEF Service!Open
  <2> QED
    BY <2>7 DEF Service!Next
<1>5. CASE Poll(c) /\ pc'[c] # "wrlock"
  <2>1. UNCHANGED <<table, proc, outcome, result>> /\ pc[c] = "poll"
    BY <1>5 DEF Poll
  <2>2. pc'[c] = "verdict" /\ mem[msg_pos[c]].count = 0
    BY <1>5 DEF Poll, TypeOK
  <2>3. Stage(c) = "open" /\ Stage(c)' = "over" /\ Awaited(c)' = {}
    BY <2>1, <2>2 DEF Stage, Awaited, Delivering
  <2>4. Awaited(c) = {}
    BY <2>1, <2>2, ZeroIsReached, AwaitedIsPending DEF Delivering
  <2>5. UNCHANGED [d \in Sends |-> Awaited(d)]
    BY <2>3, <2>4, OneMoves
  <2>6. Service!Close(c)
    BY <2>1, <2>3, <2>4, <2>5, StageMoves DEF Service!Close
  <2> QED
    BY <2>6 DEF Service!Next
<1>6. CASE PurgeGone(c)
  <2>1. UNCHANGED <<pc, proc, outcome, result>> /\ pc[c] = "purge"
    BY <1>6 DEF PurgeGone
  <2>2. PICK n \in todo[c] : proc[ProcOf[n]] = "gone" /\ table' = table \ {n}
    BY <1>6 DEF PurgeGone
  <2>3. n \in table /\ ProcOf[n] \in Procs /\ MsgOf[n] = MsgOf[c] /\ MsgOf[n] \in Msgs
    BY <2>1, <2>2 DEF ServiceInv, SlotInv, Purging, Addressed, TypeOK
  <2>4. \A q \in table : ProcOf[q] = ProcOf[n] /\ MsgOf[q] = MsgOf[n] => q = n
    BY <2>3 DEF ServiceInv, UniqueInv, UniqueRegistration
  <2>5. {<<ProcOf[q], MsgOf[q]>> : q \in table}' =
          {<<ProcOf[q], MsgOf[q]>> : q \in table} \ {<<ProcOf[n], MsgOf[n]>>}
    BY <2>2, <2>4
  <2>6. Awaited(c)' = Awaited(c) \ {ProcOf[n]}
    BY <2>1, <2>2, <2>3, <2>4 DEF Awaited, Matching
  <2>7. \A d \in Sends : d # c => MsgOf[d] # MsgOf[n]
    BY <2>2, PurgeIsCalm DEF ServiceInv, SlotInv, CalmService
  <2>8. [d \in Sends |-> Awaited(d)]' =
          [d \in Sends |-> IF MsgOf[d] = MsgOf[n] THEN Awaited(d) \ {ProcOf[n]}
                           ELSE Awaited(d)]
    BY <2>3, <2>6, <2>7 DEF Quiet
  <2>9. UNCHANGED [d \in Sends |-> Stage(d)]
    BY <2>1 DEF Stage
  <2>10. Service!Forget(ProcOf[n], MsgOf[n])
    BY <2>1, <2>2, <2>3, <2>5, <2>8, <2>9 DEF Service!Forget
  <2> QED
    BY <2>3, <2>10 DEF Service!Next
<1> QED
  BY <1>1, <1>2, <1>3, <1>4, <1>5, <1>6, OwnQuiet
     DEF CoreThread, Client, Deliver, Receive, NoSpace, TypeOK

\* A registration appears when its node is inserted.
LEMMA RegistrationMaps ==
  ASSUME CalmService, ResultInv, ResultInv', NEW r \in Registrations,
         CoreThread(r) \/ Client(r)
  PROVE  [Service!Next]_(Service!vars)
<1>p. ServiceInv /\ TypeOK /\ TypeOK'
  BY DEF ResultInv, ServiceInv, SlotInv
<1>q. \A d \in Sends : Framed(d) /\ Quiet(d)
  BY <1>p, OthersFramed, FramedIsQuiet, ConnsAssumption
<1> USE <1>p, <1>q, ConnsAssumption
<1> USE DEF tableVars, slotVars, memVars, threadVars, procVars, clientVars, Goto
<1>1. CASE UNCHANGED <<table, proc>>
  BY <1>1, QuietStep
<1>2. CASE RegisterInsert(r)
  <2>1. UNCHANGED <<proc, outcome, result>> /\ pc[r] = "insert" /\ table' = table \cup {r}
    BY <1>2 DEF RegisterInsert
  <2>2. ProcOf[r] \in Procs /\ MsgOf[r] \in Msgs
    OBVIOUS
  <2>3. <<ProcOf[r], MsgOf[r]>> \notin {<<ProcOf[n], MsgOf[n]>> : n \in table}
    BY <2>1 DEF ServiceInv, UniqueInv
  <2>4. {<<ProcOf[n], MsgOf[n]>> : n \in table}' =
          {<<ProcOf[n], MsgOf[n]>> : n \in table} \cup {<<ProcOf[r], MsgOf[r]>>}
    BY <2>1
  <2>5. UNCHANGED <<[d \in Sends |-> Stage(d)], [d \in Sends |-> Awaited(d)]>>
    BY DEF Quiet
  <2>6. Service!Register(ProcOf[r], MsgOf[r])
    BY <2>1, <2>3, <2>4, <2>5 DEF Service!Register
  <2> QED
    BY <2>2, <2>6 DEF Service!Next
<1> QED
  BY <1>1, <1>2 DEF CoreThread, Client, ClientOpen, ClientFinish, Receive, NoSpace,
     Answer, Release, Register, RegisterCheck, RegisterMutexInit

\* A receiver takes the message and handles it.
LEMMA TakeMaps ==
  ASSUME ResultInv, NEW p \in Procs, TakeSignal(p)
  PROVE  [Service!Next]_(Service!vars)
<1>p. TypeOK
  BY DEF ResultInv, ServiceInv, SlotInv
<1> USE <1>p, ConnsAssumption
<1> USE DEF tableVars, slotVars, memVars, threadVars, procVars, clientVars
<1>1. UNCHANGED <<pc, table, proc, result>> /\ proc[p] = "alive"
  BY DEF TakeSignal
<1>2. PICK c \in Sends : Taken(c, p)
  BY TakeEffect DEF ResultInv
<1>3. /\ pc[c] = "await" /\ map[c] \in Matching(MsgOf[c]) /\ ProcOf[map[c]] = p
      /\ outcome[c][p] = "none" /\ outcome' = [outcome EXCEPT ![c][p] = "taken"]
  BY <1>2 DEF Taken, Matching
<1>4. Stage(c) = "open" /\ p \in Awaited(c)
  BY <1>3 DEF Stage, Awaited, Delivering
<1>5. ASSUME NEW d \in Sends PROVE Awaited(d)' = Awaited(d)
  <2>1. \A q \in Procs : outcome'[d][q] \in {"none", "taken"} <=>
                         outcome[d][q] \in {"none", "taken"}
    BY <1>3 DEF TypeOK
  <2>2. \A n \in table : ProcOf[n] \in Procs
    BY DEF TypeOK
  <2> QED
    BY <1>1, <2>1, <2>2 DEF Awaited, Matching
<1>6. UNCHANGED <<[d \in Sends |-> Stage(d)], [d \in Sends |-> Awaited(d)]>>
  BY <1>1, <1>5 DEF Stage
<1>7. Service!Take(c, p)
  BY <1>1, <1>3, <1>4, <1>6 DEF Service!Take
<1> QED
  BY <1>7 DEF Service!Next

LEMMA CountOffMaps ==
  ASSUME ResultInv, NEW p \in Procs, NEW w \in Workers, CountOff(p, w)
  PROVE  [Service!Next]_(Service!vars)
<1>p. TypeOK
  BY DEF ResultInv, ServiceInv, SlotInv
<1> USE <1>p, ConnsAssumption
<1> USE DEF tableVars, slotVars, memVars, threadVars, procVars, clientVars
<1>1. UNCHANGED <<pc, table, proc, result>>
  BY DEF CountOff
<1>2. PICK c \in Sends, how \in {"good", "bad"} : CountedOff(c, p, w, how)
  BY CountOffEffect DEF ResultInv
<1>3. /\ pc[c] \in Delivering /\ outcome[c][p] = "taken"
      /\ outcome' = [outcome EXCEPT ![c][p] = how]
  BY <1>2 DEF CountedOff
<1>4. Stage(c) = "open"
  BY <1>3 DEF Stage
<1>5. ASSUME NEW d \in Sends, d # c PROVE Awaited(d)' = Awaited(d)
  <2>1. outcome'[d] = outcome[d]
    BY <1>3, <1>5 DEF TypeOK
  <2> QED
    BY <1>1, <2>1 DEF Awaited, Matching
<1>6. Awaited(c)' = Awaited(c) \ {p}
  <2>1. \A q \in Procs : outcome'[c][q] \in {"none", "taken"} <=>
                         q # p /\ outcome[c][q] \in {"none", "taken"}
    BY <1>3 DEF TypeOK
  <2>2. \A n \in table : ProcOf[n] \in Procs
    BY DEF TypeOK
  <2> QED
    BY <1>1, <1>3, <2>1, <2>2 DEF Awaited, Matching
<1>7. [d \in Sends |-> Awaited(d)]' =
        [[d \in Sends |-> Awaited(d)] EXCEPT ![c] = @ \ {p}]
  BY <1>5, <1>6
<1>8. UNCHANGED [d \in Sends |-> Stage(d)]
  BY <1>1 DEF Stage
<1>9. Service!Handle(c, p, how)
  BY <1>1, <1>3, <1>4, <1>7, <1>8 DEF Service!Handle
<1> QED
  BY <1>9 DEF Service!Next

\* The other steps of a process: only its end is seen.
LEMMA ProcessMaps ==
  ASSUME ResultInv, NEW p \in Procs,
         Die(p) \/ Reap(p) \/ \E w \in Workers : RunHandler(p, w) \/ Unlock(p, w)
  PROVE  [Service!Next]_(Service!vars)
<1>p. TypeOK
  BY DEF ResultInv, ServiceInv, SlotInv
<1> USE <1>p, ConnsAssumption
<1> USE DEF tableVars, slotVars, memVars, threadVars, procVars, clientVars
<1>1. UNCHANGED <<pc, table, outcome, result>> /\ (Die(p) \/ Reap(p) \/ UNCHANGED proc)
  <2>1. CASE \E w \in Workers : RunHandler(p, w)
    BY <2>1, Zenon DEF RunHandler
  <2>2. CASE \E w \in Workers : Unlock(p, w)
    BY <2>2 DEF Unlock
  <2>3. CASE Die(p) \/ Reap(p)
    BY <2>3 DEF Die, Reap
  <2> QED
    BY <2>1, <2>2, <2>3
<1>2. UNCHANGED <<[d \in Sends |-> Stage(d)], [d \in Sends |-> Awaited(d)]>>
  BY <1>1 DEF Stage, Awaited, Matching
<1>3. CASE Reap(p)
  <2>1. proc[p] = "zombie" /\ proc' = [proc EXCEPT ![p] = "gone"]
    BY <1>3 DEF Reap
  <2>2. {q \in Procs : proc[q] = "gone"}' = {q \in Procs : proc[q] = "gone"} \cup {p}
    BY <2>1 DEF TypeOK
  <2>3. Service!Leave(p)
    BY <1>1, <1>2, <2>1, <2>2 DEF Service!Leave
  <2> QED
    BY <2>3 DEF Service!Next
<1>4. CASE ~Reap(p)
  <2>1. UNCHANGED {q \in Procs : proc[q] = "gone"}
    <3>1. CASE Die(p)
      <4>1. \A q \in Procs : proc'[q] = "gone" <=> proc[q] = "gone"
        BY <3>1 DEF Die, TypeOK
      <4> QED
        BY <4>1
    <3> QED
      BY <1>1, <1>4, <3>1
  <2> QED
    BY <1>1, <1>2, <2>1 DEF Service!vars
<1> QED
  BY <1>3, <1>4

\* The service implements MessageService: a send ends exactly when each of the
\* processes registered at its beginning has handled the message once or is gone,
\* and a blocking caller gets 0 exactly when the handlers have earned it
\* (emi_core.c:199-286, emi_ifr.c:83-110, emi_if.c:112-123).
THEOREM CoreImplementsMessageService ==
  ASSUME CalmService
  PROVE  Spec => ImplementsMessageService
<1>1. Init => Service!Init
  BY ConnsAssumption DEF Init, Service!Init, Stage, Awaited, Delivering
<1>2. ASSUME ResultInv, ResultInv', [Next]_vars PROVE [Service!Next]_(Service!vars)
  <2>1. ASSUME NEW c \in Conns, CoreThread(c) \/ Client(c)
        PROVE  [Service!Next]_(Service!vars)
    BY <1>2, <2>1, SendMaps, RegistrationMaps
  <2>2. ASSUME NEW p \in Procs, TakeSignal(p) \/ Die(p) \/ Reap(p)
        PROVE  [Service!Next]_(Service!vars)
    BY <1>2, <2>2, TakeMaps, ProcessMaps
  <2>3. ASSUME NEW p \in Procs, NEW w \in Workers, WorkerStep(p, w)
        PROVE  [Service!Next]_(Service!vars)
    BY <1>2, <2>3, CountOffMaps, ProcessMaps DEF WorkerStep
  <2>4. CASE UNCHANGED vars
    BY <2>4 DEF vars, tableVars, procVars, clientVars, Service!vars, Stage, Awaited,
                Matching
  <2> QED
    BY <1>2, <2>1, <2>2, <2>3, <2>4 DEF Next, Accepting
<1> QED
  BY <1>1, <1>2, ResultsHold, PTL DEF Spec, ImplementsMessageService, Service!Spec
=============================================================================
