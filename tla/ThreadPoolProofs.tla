-------------------------- MODULE ThreadPoolProofs --------------------------
(***************************************************************************)
(* Proofs about ThreadPool, for every number of threads and tasks.         *)
(***************************************************************************)
EXTENDS ThreadPool, FiniteSetTheorems, SequenceTheorems, TLAPS

USE DEF vars, threadVars, submitVars, destroyVars

-----------------------------------------------------------------------------
(* list_move and list_move_tail.                                           *)

LEMMA InSequence ==
  ASSUME NEW S, NEW s \in Seq(S), NEW x
  PROVE  x \in ToSet(s) <=> \E i \in 1 .. Len(s) : s[i] = x
<1>1. DOMAIN s = 1 .. Len(s)
  OBVIOUS
<1> QED
  BY <1>1 DEF ToSet

LEMMA PlaceIsThere ==
  ASSUME NEW S, NEW s \in Seq(S), NEW t, t \in ToSet(s)
  PROVE  Place(s, t) \in 1 .. Len(s) /\ s[Place(s, t)] = t
<1>1. \E i \in 1 .. Len(s) : s[i] = t
  BY InSequence
<1> QED
  BY <1>1 DEF Place

LEMMA RemovePlace ==
  ASSUME NEW S, NEW s \in Seq(S), NEW t, t \in ToSet(s)
  PROVE  /\ RemoveAt(s, Place(s, t)) \in Seq(S)
         /\ Len(RemoveAt(s, Place(s, t))) = Len(s) - 1
         /\ ToSet(s) = {t} \cup ToSet(RemoveAt(s, Place(s, t)))
<1> DEFINE p == Place(s, t)
           r == RemoveAt(s, p)
<1>1. p \in 1 .. Len(s) /\ s[p] = t
  BY PlaceIsThere
<1>2. /\ r \in Seq(S)
      /\ Len(r) = Len(s) - 1
      /\ \A i \in 1 .. Len(r) : r[i] = IF i < p THEN s[i] ELSE s[i + 1]
  <2> DEFINE a == SubSeq(s, 1, p - 1)
             b == SubSeq(s, p + 1, Len(s))
  <2>1. /\ a \in Seq(S) /\ Len(a) = p - 1
        /\ \A i \in 1 .. p - 1 : a[i] = s[i]
    BY <1>1, SubSeqProperties
  <2>2. /\ b \in Seq(S) /\ Len(b) = Len(s) - p
        /\ \A i \in 1 .. Len(s) - p : b[i] = s[p + i]
    BY <1>1, SubSeqProperties
  <2>3. r = a \o b
    BY DEF RemoveAt
  <2> HIDE DEF a, b, r, p
  <2>4. /\ r \in Seq(S) /\ Len(r) = Len(a) + Len(b)
        /\ \A i \in 1 .. Len(a) + Len(b) :
             r[i] = IF i <= Len(a) THEN a[i] ELSE b[i - Len(a)]
    BY <2>1, <2>2, <2>3, ConcatProperties
  <2>5. ASSUME NEW i \in 1 .. Len(r)
        PROVE  r[i] = IF i < p THEN s[i] ELSE s[i + 1]
    <3>1. CASE i < p
      <4>1. i \in 1 .. p - 1 /\ i <= Len(a) /\ i \in 1 .. Len(a) + Len(b)
        BY <1>1, <2>1, <2>2, <2>4, <3>1
      <4> QED
        BY <2>1, <2>4, <3>1, <4>1
    <3>2. CASE i >= p
      <4>1. i - Len(a) \in 1 .. Len(s) - p /\ p + (i - Len(a)) = i + 1
        BY <1>1, <2>1, <2>2, <2>4, <3>2
      <4>2. b[i - Len(a)] = s[p + (i - Len(a))]
        BY <2>2, <4>1
      <4> QED
        BY <1>1, <2>1, <2>2, <2>4, <3>2, <4>1, <4>2
    <3> QED
      BY <1>1, <3>1, <3>2
  <2> QED
    BY <1>1, <2>1, <2>2, <2>4, <2>5
<1> HIDE DEF p, r
<1>3. ASSUME NEW i \in 1 .. Len(s), s[i] # t
      PROVE  \E j \in 1 .. Len(r) : r[j] = s[i]
  <2>1. CASE i < p
    BY <1>1, <1>2, <2>1
  <2>2. CASE i > p
    <3>1. i - 1 \in 1 .. Len(r) /\ r[i - 1] = s[i]
      BY <1>1, <1>2, <2>2
    <3> QED
      BY <3>1
  <2> QED
    BY <1>1, <1>3, <2>1, <2>2
<1>4. ASSUME NEW j \in 1 .. Len(r)
      PROVE  \E i \in 1 .. Len(s) : r[j] = s[i]
  BY <1>1, <1>2
<1>5. ToSet(s) = {t} \cup ToSet(r)
  <2>1. ASSUME NEW x PROVE x \in ToSet(s) <=> x = t \/ x \in ToSet(r)
    <3>1. x \in ToSet(s) <=> \E i \in 1 .. Len(s) : s[i] = x
      BY InSequence
    <3>2. x \in ToSet(r) <=> \E i \in 1 .. Len(r) : r[i] = x
      BY <1>2, InSequence
    <3>3. ASSUME x \in ToSet(r) PROVE x \in ToSet(s)
      BY <1>4, <3>1, <3>2, <3>3
    <3>4. ASSUME x \in ToSet(s), x # t PROVE x \in ToSet(r)
      BY <1>3, <3>1, <3>2, <3>4
    <3> QED
      BY <3>3, <3>4
  <2> QED
    BY <2>1
<1> QED
  BY <1>2, <1>5 DEF p, r

\* Adding an entry (list.h:20-33).
LEMMA Adds ==
  ASSUME NEW S, NEW s \in Seq(S), NEW t \in S
  PROVE  /\ AddToHead(s, t) \in Seq(S) /\ Len(AddToHead(s, t)) = Len(s) + 1
         /\ ToSet(AddToHead(s, t)) = {t} \cup ToSet(s)
<1> DEFINE q == <<t>> \o s
<1>1. q \in Seq(S) /\ Len(q) = Len(s) + 1
  OBVIOUS
<1>2. /\ q[1] = t
      /\ \A i \in 1 .. Len(s) : q[i + 1] = s[i]
      /\ \A i \in 2 .. Len(s) + 1 : q[i] = s[i - 1]
  OBVIOUS
<1> HIDE DEF q
<1>3. ASSUME NEW x
      PROVE  x \in ToSet(q) <=> x = t \/ x \in ToSet(s)
  <2>1. x \in ToSet(s) <=> \E i \in 1 .. Len(s) : s[i] = x
    BY InSequence
  <2>2. x \in ToSet(q) <=> \E i \in 1 .. Len(s) + 1 : q[i] = x
    BY <1>1, InSequence
  <2>3. ASSUME NEW i \in 1 .. Len(s)
        PROVE  \E j \in 1 .. Len(s) + 1 : q[j] = s[i]
    <3>1. i + 1 \in 1 .. Len(s) + 1
      OBVIOUS
    <3> QED
      BY <1>2, <3>1
  <2>4. ASSUME NEW i \in 1 .. Len(s) + 1
        PROVE  q[i] = t \/ \E j \in 1 .. Len(s) : q[i] = s[j]
    <3>1. CASE i = 1
      BY <1>2, <3>1
    <3>2. CASE i \in 2 .. Len(s) + 1
      <4>1. i - 1 \in 1 .. Len(s)
        BY <3>2
      <4> QED
        BY <1>2, <3>2, <4>1
    <3> QED
      BY <3>1, <3>2
  <2>5. 1 \in 1 .. Len(s) + 1
    OBVIOUS
  <2> QED
    BY <1>2, <2>1, <2>2, <2>3, <2>4, <2>5
<1> QED
  BY <1>1, <1>3 DEF AddToHead, q

\* Moving an entry keeps the entries of a list and their number
\* (list.h:66-77).
LEMMA Moves ==
  ASSUME NEW S, NEW s \in Seq(S), NEW t \in S, t \in ToSet(s)
  PROVE  /\ MoveToHead(s, t) \in Seq(S) /\ MoveToTail(s, t) \in Seq(S)
         /\ Len(MoveToHead(s, t)) = Len(s) /\ Len(MoveToTail(s, t)) = Len(s)
         /\ ToSet(MoveToHead(s, t)) = ToSet(s) /\ ToSet(MoveToTail(s, t)) = ToSet(s)
<1> DEFINE r == RemoveAt(s, Place(s, t))
<1>1. r \in Seq(S) /\ Len(r) = Len(s) - 1 /\ ToSet(s) = {t} \cup ToSet(r)
  BY RemovePlace
<1> HIDE DEF r
<1>2. /\ <<t>> \o r \in Seq(S) /\ Len(<<t>> \o r) = Len(s)
      /\ ToSet(<<t>> \o r) = ToSet(s)
  BY <1>1, Adds DEF AddToHead
<1>3. /\ Append(r, t) \in Seq(S) /\ Len(Append(r, t)) = Len(s)
      /\ ToSet(Append(r, t)) = ToSet(s)
  <2>1. /\ Append(r, t) \in Seq(S) /\ Len(Append(r, t)) = Len(r) + 1
        /\ \A i \in 1 .. Len(r) : Append(r, t)[i] = r[i]
        /\ Append(r, t)[Len(r) + 1] = t
    BY <1>1, AppendProperties
  <2>2. ASSUME NEW x
        PROVE  x \in ToSet(Append(r, t)) <=> x = t \/ x \in ToSet(r)
    <3>1. \A i \in 1 .. Len(r) + 1 : i \in 1 .. Len(r) \/ i = Len(r) + 1
      BY <1>1
    <3>2. Len(r) + 1 \in 1 .. Len(r) + 1
      BY <1>1
    <3>3. \A i \in 1 .. Len(r) : i \in 1 .. Len(r) + 1
      BY <1>1
    <3> QED
      <4>1. x \in ToSet(r) <=> \E i \in 1 .. Len(r) : r[i] = x
        BY <1>1, InSequence
      <4>2. x \in ToSet(Append(r, t)) <=>
              \E i \in 1 .. Len(r) + 1 : Append(r, t)[i] = x
        <5> DEFINE q == Append(r, t)
        <5>1. q \in Seq(S) /\ Len(q) = Len(r) + 1
          BY <2>1
        <5> HIDE DEF q
        <5>2. x \in ToSet(q) <=> \E i \in 1 .. Len(q) : q[i] = x
          BY <5>1, InSequence
        <5> QED
          BY <5>1, <5>2 DEF q
      <4> QED
        BY <2>1, <3>1, <3>2, <3>3, <4>1, <4>2
  <2> QED
    BY <1>1, <2>1, <2>2
<1> QED
  BY <1>2, <1>3 DEF MoveToHead, MoveToTail, r

-----------------------------------------------------------------------------
(* Types, the spin lock and the list.                                      *)

LEMMA InitList == Init => TypeOK /\ ListInv
<1> SUFFICES ASSUME Init PROVE TypeOK /\ ListInv
  OBVIOUS
<1>1. list = <<>> /\ ToSet(list) = {} /\ Created = {}
  BY DEF Init, ToSet, Created
<1>2. Cardinality(Created) = 0
  BY <1>1, FS_EmptySet
<1>3. TypeOK
  BY NamesAssumption DEF Init, TypeOK, Labels, SubmitLabels
<1>4. ListMade /\ ListIsWhole /\ ListShrinks
  BY <1>1, <1>2 DEF Init, ListMade, ListIsWhole, ListShrinks
<1> QED
  BY <1>3, <1>4, NamesAssumption DEF Init, ListInv, SpinHeld, Quiet, TargetSet

\* A step that creates no thread leaves the set of those created alone.
LEMMA SameCreated ==
  ASSUME \A t \in Threads : pc'[t] = "none" <=> pc[t] = "none"
  PROVE  Created' = Created
BY DEF Created

\* Nor does a step that leaves the list and the destruction alone disturb what is
\* known of the list.
LEMMA SameList ==
  ASSUME ListInv, UNCHANGED <<list, dpc, doomed>>,
         \A t \in Threads : pc'[t] = "none" <=> pc[t] = "none",
         \A t \in Threads : pc[t] = "exited" => pc'[t] = "exited"
  PROVE  ListMade' /\ ListIsWhole' /\ ListShrinks'
<1>1. Created' = Created
  BY SameCreated
<1> QED
  BY <1>1 DEF ListInv, ListMade, ListIsWhole, ListShrinks, Created

LEMMA HeadThread ==
  ASSUME TypeOK, list # <<>>
  PROVE  /\ Head(list) \in Threads /\ Tail(list) \in Seq(Threads)
         /\ ToSet(list) = {Head(list)} \cup ToSet(Tail(list))
<1> DEFINE h == Head(list)
           r == Tail(list)
<1>1. list \in Seq(Threads)
  BY DEF TypeOK
<1>2. /\ h \in Threads /\ r \in Seq(Threads)
      /\ h = list[1] /\ Len(list) \in Nat /\ Len(list) # 0
      /\ Len(r) = Len(list) - 1
      /\ \A i \in 1 .. Len(r) : r[i] = list[i + 1]
  BY <1>1, HeadTailProperties
<1> HIDE DEF h, r
<1>3. ASSUME NEW x
      PROVE  x \in ToSet(list) <=> x = h \/ x \in ToSet(r)
  <2>1. x \in ToSet(list) <=> \E i \in 1 .. Len(list) : list[i] = x
    BY <1>1, InSequence
  <2>2. x \in ToSet(r) <=> \E i \in 1 .. Len(r) : r[i] = x
    BY <1>2, InSequence
  <2>3. 1 \in 1 .. Len(list)
    BY <1>2
  <2>4. ASSUME NEW i \in 1 .. Len(list), i # 1
        PROVE  i - 1 \in 1 .. Len(r) /\ list[i] = r[i - 1]
    BY <1>2, <2>4
  <2>5. ASSUME NEW i \in 1 .. Len(r)
        PROVE  i + 1 \in 1 .. Len(list) /\ list[i + 1] = r[i]
    BY <1>2
  <2> QED
    BY <1>2, <2>1, <2>2, <2>3, <2>4, <2>5
<1> QED
  BY <1>2, <1>3 DEF h, r

\* A submit that holds the spin lock finds a thread of the pool.
LEMMA LockedList ==
  ASSUME TypeOK, ListInv, NEW k \in Tasks, sub[k] \in {"locked", "args"}
  PROVE  dpc = "idle" /\ list # <<>> /\ ToSet(list) = Threads
<1>1. dpc = "idle"
  BY NamesAssumption DEF TypeOK, ListInv, SpinHeld, Quiet
<1>2. ToSet(list) = Threads
  BY <1>1 DEF ListInv, ListIsWhole
<1>3. list # <<>>
  BY <1>2, ThreadsAssumption, InSequence DEF TypeOK
<1> QED
  BY <1>1, <1>2, <1>3

\* A task that is run was run once more, and no other task was.
LEMMA RunCounts ==
  ASSUME TypeOK, NEW k \in Tasks, Run(k)
  PROVE  /\ ran' \in [Tasks -> Nat]
         /\ ran'[k] = ran[k] + 1
         /\ \A j \in Tasks : j # k => ran'[j] = ran[j]
<1>1. ran \in [Tasks -> Nat] /\ ran[k] + 1 \in Nat
  BY DEF TypeOK
<1> QED
  BY <1>1 DEF Run

\* One step of a thread.
LEMMA ThreadKeepsList ==
  ASSUME TypeOK, ListInv, NEW t \in Threads, Thread(t) \/ SpuriousWakeup(t)
  PROVE  TypeOK' /\ ListInv'
<1> USE NamesAssumption
<1>1. CASE TakeLock(t) \/ CheckFunc(t) \/ Sleep(t) \/ SpuriousWakeup(t)
  <2>1. TypeOK'
    BY <1>1 DEF TypeOK, TakeLock, CheckFunc, Sleep, SpuriousWakeup, Goto, Labels
  <2>2. SpinHeld'
    BY <1>1 DEF TypeOK, ListInv, SpinHeld, TakeLock, CheckFunc, Sleep, SpuriousWakeup,
       Goto
  <2>3. ListMade' /\ ListIsWhole' /\ ListShrinks'
    <3>1. /\ \A j \in Threads : pc'[j] = "none" <=> pc[j] = "none"
          /\ \A j \in Threads : pc[j] = "exited" => pc'[j] = "exited"
      BY <1>1 DEF TypeOK, TakeLock, CheckFunc, Sleep, SpuriousWakeup, Goto
    <3> QED
      BY <1>1, <3>1, SameList DEF TakeLock, CheckFunc, Sleep, SpuriousWakeup
  <2>4. Quiet' /\ TargetSet'
    BY <1>1 DEF TypeOK, ListInv, Quiet, TargetSet, TakeLock, CheckFunc, Sleep,
       SpuriousWakeup
  <2> QED
    BY <2>1, <2>2, <2>3, <2>4 DEF ListInv
<1>2. CASE ClearFunc(t) \/ MarkIdle(t) \/ TakeSpin(t) \/ Leave(t)
  <2>1. TypeOK'
    BY <1>2 DEF TypeOK, ClearFunc, MarkIdle, TakeSpin, Leave, Goto, Labels
  <2>2. SpinHeld'
    BY <1>2 DEF TypeOK, ListInv, SpinHeld, ClearFunc, MarkIdle, TakeSpin, Leave, Goto
  <2>3. ListMade' /\ ListIsWhole' /\ ListShrinks'
    <3>1. /\ \A j \in Threads : pc'[j] = "none" <=> pc[j] = "none"
          /\ \A j \in Threads : pc[j] = "exited" => pc'[j] = "exited"
      BY <1>2 DEF TypeOK, ClearFunc, MarkIdle, TakeSpin, Leave, Goto
    <3> QED
      BY <1>2, <3>1, SameList DEF ClearFunc, MarkIdle, TakeSpin, Leave
  <2>4. Quiet' /\ TargetSet'
    BY <1>2 DEF TypeOK, ListInv, Quiet, TargetSet, ClearFunc, MarkIdle, TakeSpin, Leave
  <2> QED
    BY <2>1, <2>2, <2>3, <2>4 DEF ListInv
<1>3. CASE Relist(t)
  <2>1. dpc \in {"init", "idle"}
    <3>1. dpc \notin {"next", "join"}
      BY <1>3 DEF ListInv, SpinHeld, Relist
    <3>2. CASE dpc = "done"
      <4>1. ToSet(list) = {} /\ t \in Created /\ doomed = None
        BY <1>3, <3>2 DEF ListInv, ListShrinks, ToSet, Created, Relist
      <4>2. pc[t] = "exited"
        BY <3>2, <4>1 DEF ListInv, ListShrinks
      <4> QED
        BY <1>3, <4>2 DEF Relist
    <3> QED
      BY <3>1, <3>2 DEF TypeOK
  <2>2. t \in ToSet(list)
    <3>1. t \in Created
      BY <1>3 DEF Relist, Created
    <3> QED
      BY <2>1, <3>1 DEF ListInv, ListMade, ListIsWhole
  <2>3. /\ list' \in Seq(Threads) /\ ToSet(list') = ToSet(list)
        /\ Len(list') = Len(list)
    BY <1>3, <2>2, Moves DEF TypeOK, Relist
  <2>4. TypeOK'
    BY <1>3, <2>3 DEF TypeOK, Relist, Goto, Labels
  <2>5. SpinHeld'
    BY <1>3 DEF TypeOK, ListInv, SpinHeld, Relist, Goto
  <2>6. ListMade' /\ ListIsWhole' /\ ListShrinks'
    <3>1. /\ \A j \in Threads : pc'[j] = "none" <=> pc[j] = "none"
          /\ \A j \in Threads : pc[j] = "exited" => pc'[j] = "exited"
      BY <1>3 DEF TypeOK, Relist, Goto
    <3>2. Created' = Created
      BY <3>1, SameCreated
    <3> QED
      BY <1>3, <2>1, <2>3, <3>1, <3>2 DEF ListInv, ListMade, ListIsWhole, ListShrinks,
         Relist, Created
  <2>7. Quiet' /\ TargetSet'
    BY <1>3 DEF ListInv, Quiet, TargetSet, Relist
  <2> QED
    BY <2>4, <2>5, <2>6, <2>7 DEF ListInv
<1>4. CASE RunTask(t)
  <2>1. /\ ran' \in [Tasks -> Nat]
        /\ \A j \in Tasks : ran'[j] = ran[j] \/ ran'[j] = ran[j] + 1
    <3>1. CASE args[t] \in Tasks
      BY <1>4, <3>1, RunCounts DEF RunTask
    <3>2. CASE args[t] \notin Tasks
      BY <1>4, <3>2 DEF TypeOK, RunTask
    <3> QED
      BY <3>1, <3>2
  <2>2. TypeOK'
    BY <1>4, <2>1 DEF TypeOK, RunTask, Goto, Labels
  <2>3. SpinHeld'
    BY <1>4 DEF TypeOK, ListInv, SpinHeld, RunTask, Goto
  <2>4. ListMade' /\ ListIsWhole' /\ ListShrinks'
    <3>1. /\ \A j \in Threads : pc'[j] = "none" <=> pc[j] = "none"
          /\ \A j \in Threads : pc[j] = "exited" => pc'[j] = "exited"
      BY <1>4 DEF TypeOK, RunTask, Goto
    <3> QED
      BY <1>4, <3>1, SameList DEF RunTask
  <2>5. Quiet'
    <3>1. ASSUME NEW j \in Tasks, ran[j] > 0 PROVE ran'[j] > 0
      <4>1. ran[j] \in Nat /\ (ran'[j] = ran[j] \/ ran'[j] = ran[j] + 1)
        BY <2>1 DEF TypeOK
      <4> QED
        BY <3>1, <4>1
    <3> QED
      BY <1>4, <3>1 DEF ListInv, Quiet, RunTask
  <2>6. TargetSet'
    <3>1. ASSUME NEW j \in Tasks, sub[j] \notin {"signal", "done", "rejected"}
          PROVE  ran'[j] = ran[j]
      <4>1. j # args[t]
        BY <3>1 DEF ListInv, TargetSet
      <4>2. CASE args[t] \in Tasks
        BY <1>4, <4>1, <4>2, RunCounts DEF RunTask
      <4>3. CASE args[t] \notin Tasks
        BY <1>4, <4>3 DEF RunTask
      <4> QED
        BY <4>2, <4>3
    <3> QED
      BY <1>4, <3>1 DEF ListInv, TargetSet, RunTask
  <2> QED
    BY <2>2, <2>3, <2>4, <2>5, <2>6 DEF ListInv
<1> QED
  BY <1>1, <1>2, <1>3, <1>4 DEF Thread

\* One step of a submit.
LEMMA SubmitKeepsList ==
  ASSUME TypeOK, ListInv, NEW k \in Tasks, Submit(k)
  PROVE  TypeOK' /\ ListInv'
<1> USE NamesAssumption
<1>1. CASE SubmitLock(k) \/ SubmitSpawn(k) \/ SubmitCreate(k)
  <2>1. TypeOK'
    BY <1>1 DEF TypeOK, SubmitLock, SubmitSpawn, SubmitCreate, SubmitGoto,
       SubmitLabels, Return
  <2>2. SpinHeld'
    <3>1. CASE SubmitLock(k)
      BY <3>1 DEF TypeOK, ListInv, SpinHeld, SubmitLock, SubmitGoto
    <3>2. CASE SubmitSpawn(k)
      BY <3>2 DEF TypeOK, ListInv, SpinHeld, SubmitSpawn, SubmitGoto
    <3>3. CASE SubmitCreate(k)
      BY <3>3 DEF TypeOK, ListInv, SpinHeld, SubmitCreate, SubmitGoto, Return
    <3> QED
      BY <1>1, <3>1, <3>2, <3>3
  <2>3. ListMade' /\ ListIsWhole' /\ ListShrinks'
    BY <1>1, SameList DEF SubmitLock, SubmitSpawn, SubmitCreate
  <2>4. Quiet'
    BY <1>1 DEF TypeOK, ListInv, Quiet, SubmitLock, SubmitSpawn, SubmitCreate,
       SubmitGoto, Return
  <2>5. TargetSet'
    <3>1. PICK l \in SubmitLabels \ {"args", "signal", "done"} :
            sub' = [sub EXCEPT ![k] = l] /\ (ran[k] = 0)
      BY <1>1 DEF ListInv, TargetSet, SubmitLock, SubmitSpawn, SubmitCreate,
         SubmitGoto, SubmitLabels, Return
    <3>2. target[k] = None /\ sub[k] \notin {"signal", "done"}
      BY <1>1 DEF TypeOK, ListInv, TargetSet, SubmitLock, SubmitSpawn, SubmitCreate
    <3>3. target' = target /\ ran' = ran /\ args' = args
      BY <1>1 DEF SubmitLock, SubmitSpawn, SubmitCreate
    <3> QED
      BY <3>1, <3>2, <3>3 DEF TypeOK, ListInv, TargetSet, SubmitLabels
  <2> QED
    BY <2>1, <2>2, <2>3, <2>4, <2>5 DEF ListInv
<1>2. CASE SubmitFunc(k)
  <2>1. Head(list) \in Threads /\ dpc = "idle"
    BY <1>2, LockedList, HeadThread DEF SubmitFunc
  <2>2. TypeOK'
    BY <1>2, <2>1 DEF TypeOK, SubmitFunc, SubmitGoto, SubmitLabels
  <2>3. SpinHeld'
    BY <1>2 DEF TypeOK, ListInv, SpinHeld, SubmitFunc, SubmitGoto
  <2>4. ListMade' /\ ListIsWhole' /\ ListShrinks'
    BY <1>2, SameList DEF SubmitFunc
  <2>5. Quiet' /\ TargetSet'
    BY <1>2, <2>1 DEF TypeOK, ListInv, Quiet, TargetSet, SubmitFunc, SubmitGoto
  <2> QED
    BY <2>2, <2>3, <2>4, <2>5 DEF ListInv
<1>3. CASE SubmitArgs(k)
  <2>1. /\ dpc = "idle" /\ ToSet(list) = Threads
        /\ Len(list) = Cardinality(Threads) /\ target[k] \in Threads
    BY <1>3, LockedList DEF TypeOK, ListInv, ListIsWhole, TargetSet, SubmitArgs
  <2>2. /\ list' \in Seq(Threads) /\ ToSet(list') = Threads
        /\ Len(list') = Cardinality(Threads)
    BY <1>3, <2>1, Moves DEF TypeOK, SubmitArgs
  <2>3. TypeOK'
    BY <1>3, <2>1, <2>2 DEF TypeOK, SubmitArgs, SubmitGoto, SubmitLabels
  <2>4. SpinHeld'
    BY <1>3 DEF TypeOK, ListInv, SpinHeld, SubmitArgs, SubmitGoto
  <2>5. ListMade' /\ ListIsWhole' /\ ListShrinks'
    BY <1>3, <2>1, <2>2 DEF ListInv, ListMade, ListIsWhole, ListShrinks, SubmitArgs,
       Created
  <2>6. Quiet' /\ TargetSet'
    BY <1>3, <2>1 DEF TypeOK, ListInv, Quiet, TargetSet, SubmitArgs, SubmitGoto
  <2> QED
    BY <2>3, <2>4, <2>5, <2>6 DEF ListInv
<1>4. CASE SubmitSignal(k)
  <2>1. TypeOK'
    BY <1>4 DEF TypeOK, SubmitSignal, SubmitGoto, Return, SubmitLabels, Labels
  <2>2. SpinHeld'
    BY <1>4 DEF TypeOK, ListInv, SpinHeld, SubmitSignal, SubmitGoto, Return
  <2>3. ListMade' /\ ListIsWhole' /\ ListShrinks'
    <3>1. /\ \A j \in Threads : pc'[j] = "none" <=> pc[j] = "none"
          /\ \A j \in Threads : pc[j] = "exited" => pc'[j] = "exited"
      BY <1>4 DEF TypeOK, SubmitSignal
    <3> QED
      BY <1>4, <3>1, SameList DEF SubmitSignal
  <2>4. Quiet' /\ TargetSet'
    BY <1>4 DEF TypeOK, ListInv, Quiet, TargetSet, SubmitSignal, SubmitGoto, Return
  <2> QED
    BY <2>1, <2>2, <2>3, <2>4 DEF ListInv
<1>5. CASE RunDetached(k)
  <2>1. /\ ran' \in [Tasks -> Nat] /\ ran'[k] = ran[k] + 1
        /\ \A j \in Tasks : j # k => ran'[j] = ran[j]
    BY <1>5, RunCounts DEF RunDetached
  <2>2. TypeOK'
    BY <1>5, <2>1 DEF TypeOK, RunDetached, SubmitGoto, SubmitLabels
  <2>3. SpinHeld'
    BY <1>5 DEF TypeOK, ListInv, SpinHeld, RunDetached, SubmitGoto
  <2>4. ListMade' /\ ListIsWhole' /\ ListShrinks'
    BY <1>5, SameList DEF RunDetached
  <2>5. Quiet' /\ TargetSet'
    BY <1>5, <2>1 DEF TypeOK, ListInv, Quiet, TargetSet, RunDetached, SubmitGoto
  <2> QED
    BY <2>2, <2>3, <2>4, <2>5 DEF ListInv
<1> QED
  BY <1>1, <1>2, <1>3, <1>4, <1>5 DEF Submit

LEMMA CallKeepsList ==
  ASSUME TypeOK, ListInv, NEW k \in Tasks, Call(k)
  PROVE  TypeOK' /\ ListInv'
<1> USE NamesAssumption
<1>1. TypeOK'
  BY DEF TypeOK, Call, SubmitGoto, SubmitLabels
<1>2. SpinHeld'
  BY DEF TypeOK, ListInv, SpinHeld, Call, SubmitGoto
<1>3. ListMade' /\ ListIsWhole' /\ ListShrinks'
  BY SameList DEF Call
<1>4. Quiet' /\ TargetSet'
  BY DEF TypeOK, ListInv, Quiet, TargetSet, Call, SubmitGoto
<1> QED
  BY <1>1, <1>2, <1>3, <1>4 DEF ListInv

\* One step of emi_thread_pool_init.
LEMMA CreateKeepsList ==
  ASSUME TypeOK, ListInv, Create
  PROVE  TypeOK' /\ ListInv'
<1> USE NamesAssumption
<1>1. ASSUME NEW t \in Threads, CreateThread(t)
      PROVE  TypeOK' /\ ListInv'
  <2>1. /\ list' \in Seq(Threads) /\ Len(list') = Len(list) + 1
        /\ ToSet(list') = {t} \cup ToSet(list)
    BY <1>1, Adds DEF TypeOK, CreateThread
  <2>2. Created' = {t} \cup Created /\ t \notin Created
    BY <1>1 DEF TypeOK, CreateThread, Created, Goto
  <2>3. Cardinality(Created') = Cardinality(Created) + 1
    <3>1. IsFiniteSet(Created)
      BY ThreadsAssumption, FS_Subset DEF Created
    <3> QED
      BY <2>2, <3>1, FS_AddElement
  <2>4. TypeOK'
    BY <1>1, <2>1 DEF TypeOK, CreateThread, Goto, Labels
  <2>5. SpinHeld'
    BY <1>1 DEF TypeOK, ListInv, SpinHeld, CreateThread, Goto
  <2>6. ListMade' /\ ListIsWhole'
    BY <1>1, <2>1, <2>2, <2>3 DEF ListInv, ListMade, ListIsWhole, CreateThread
  <2>7. ListShrinks' /\ Quiet' /\ TargetSet'
    BY <1>1, <2>1, <2>2 DEF ListInv, ListMade, ListShrinks, Quiet, TargetSet, CreateThread
  <2> QED
    BY <2>4, <2>5, <2>6, <2>7 DEF ListInv
<1>2. CASE InitDone \/ InitFails
  <2>1. TypeOK'
    BY <1>2 DEF TypeOK, InitDone, InitFails
  <2>2. SpinHeld'
    BY <1>2 DEF TypeOK, ListInv, SpinHeld, InitDone, InitFails
  <2>3. Created' = Created
    BY <1>2 DEF InitDone, InitFails, Created
  <2>4. ListMade' /\ ListIsWhole'
    BY <1>2, <2>3 DEF ListInv, ListMade, ListIsWhole, InitDone, InitFails
  <2>5. ListShrinks' /\ Quiet' /\ TargetSet'
    BY <1>2, <2>3 DEF ListInv, ListMade, ListShrinks, Quiet, TargetSet, InitDone,
       InitFails
  <2> QED
    BY <2>1, <2>2, <2>4, <2>5 DEF ListInv
<1> QED
  BY <1>1, <1>2 DEF Create

\* One step of the destruction of the pool.
LEMMA DestroyKeepsList ==
  ASSUME TypeOK, ListInv, DestroyLock \/ Destroy
  PROVE  TypeOK' /\ ListInv'
<1> USE NamesAssumption
<1>1. CASE DestroyLock \/ DestroyJoin \/ DestroyUnlock
  <2>1. TypeOK'
    BY <1>1 DEF TypeOK, DestroyLock, DestroyJoin, DestroyUnlock
  <2>2. SpinHeld'
    BY <1>1 DEF TypeOK, ListInv, SpinHeld, DestroyLock, DestroyJoin, DestroyUnlock
  <2>3. Created' = Created
    BY <1>1 DEF DestroyLock, DestroyJoin, DestroyUnlock, Created
  <2>4. ListMade' /\ ListIsWhole' /\ ListShrinks'
    <3>1. CASE DestroyLock
      <4>1. Created \subseteq Threads
        BY DEF Created
      <4> QED
        BY <2>3, <3>1, <4>1 DEF ListInv, ListMade, ListIsWhole, ListShrinks, DestroyLock
    <3>2. CASE DestroyJoin
      BY <2>3, <3>2 DEF ListInv, ListMade, ListIsWhole, ListShrinks, DestroyJoin
    <3>3. CASE DestroyUnlock
      BY <2>3, <3>3 DEF ListInv, ListMade, ListIsWhole, ListShrinks, DestroyUnlock
    <3> QED
      BY <1>1, <3>1, <3>2, <3>3
  <2>5. Quiet' /\ TargetSet'
    BY <1>1 DEF TypeOK, ListInv, Quiet, TargetSet, DestroyLock, DestroyJoin,
       DestroyUnlock
  <2> QED
    BY <2>1, <2>2, <2>4, <2>5 DEF ListInv
<1>2. CASE DestroyThread
  <2>1. /\ Head(list) \in Threads /\ Tail(list) \in Seq(Threads)
        /\ ToSet(list) = {Head(list)} \cup ToSet(Tail(list))
    BY <1>2, HeadThread DEF DestroyThread
  <2>2. pc[Head(list)] # "none"
    BY <2>1 DEF ListInv, ListMade, Created
  <2>3. TypeOK'
    BY <1>2, <2>1, <2>2 DEF TypeOK, DestroyThread, Labels
  <2>4. SpinHeld'
    BY <1>2 DEF TypeOK, ListInv, SpinHeld, DestroyThread
  <2>5. /\ \A j \in Threads : pc'[j] = "none" <=> pc[j] = "none"
        /\ \A j \in Threads : pc[j] = "exited" => pc'[j] = "exited"
    BY <1>2 DEF TypeOK, DestroyThread
  <2>6. Created' = Created
    BY <2>5, SameCreated
  <2>7. dpc' = "join" /\ dpc = "next" /\ doomed' = Head(list) /\ list' = Tail(list)
    BY <1>2 DEF DestroyThread
  <2>8. ListMade' /\ ListIsWhole'
    BY <2>1, <2>6, <2>7 DEF ListInv, ListMade, ListIsWhole
  <2>9. ListShrinks'
    BY <2>1, <2>5, <2>6, <2>7 DEF ListInv, ListShrinks, Created
  <2>10. Quiet' /\ TargetSet'
    BY <1>2 DEF ListInv, Quiet, TargetSet, DestroyThread
  <2> QED
    BY <2>3, <2>4, <2>8, <2>9, <2>10 DEF ListInv
<1> QED
  BY <1>1, <1>2 DEF Destroy

LEMMA NextKeepsList == TypeOK /\ ListInv /\ [Next]_vars => TypeOK' /\ ListInv'
<1> SUFFICES ASSUME TypeOK, ListInv, [Next]_vars
             PROVE  TypeOK' /\ ListInv'
  OBVIOUS
<1>1. CASE UNCHANGED vars
  BY <1>1 DEF TypeOK, ListInv, SpinHeld, ListMade, ListIsWhole, ListShrinks, Quiet,
     TargetSet, Created
<1> QED
  BY <1>1, ThreadKeepsList, CallKeepsList, SubmitKeepsList, CreateKeepsList,
     DestroyKeepsList DEF Next, Destroyed

\* Every variable of the pool has its type in every reachable state.
THEOREM PoolTypeCorrect == Spec => []TypeOK
<1> QED
  BY InitList, NextKeepsList, PTL DEF Spec

\* No thread drops out of the list of the pool, however list_move and
\* list_move_tail interleave, with any number of threads and tasks and with
\* all the races.
THEOREM PoolKeepsThreads == Spec => []ListIsWhole
<1>1. TypeOK /\ ListInv => ListIsWhole
  BY DEF ListInv
<1> QED
  BY <1>1, InitList, NextKeepsList, PTL DEF Spec

-----------------------------------------------------------------------------
(* IDLE threads.                                                           *)

LEMMA IdleStep ==
  TypeOK /\ ListInv /\ IdleIsFree /\ [Next]_vars => IdleIsFree'
<1> SUFFICES ASSUME TypeOK, ListInv, IdleIsFree, [Next]_vars
             PROVE  IdleIsFree'
  OBVIOUS
<1>1. ASSUME NEW t \in Threads, Thread(t) \/ SpuriousWakeup(t) PROVE IdleIsFree'
  <2>1. CASE TakeLock(t) \/ CheckFunc(t) \/ Sleep(t) \/ SpuriousWakeup(t) \/ RunTask(t)
    BY <2>1 DEF TypeOK, IdleIsFree, TakeLock, CheckFunc, Sleep, SpuriousWakeup, RunTask,
       Goto
  <2>2. CASE ClearFunc(t) \/ MarkIdle(t) \/ TakeSpin(t) \/ Relist(t) \/ Leave(t)
    BY <2>2 DEF TypeOK, IdleIsFree, ClearFunc, MarkIdle, TakeSpin, Relist, Leave, Goto
  <2> QED
    BY <1>1, <2>1, <2>2 DEF Thread
<1>2. ASSUME NEW k \in Tasks, Submit(k) PROVE IdleIsFree'
  <2>1. CASE SubmitFunc(k)
    <3>1. Head(list) \in Threads
      BY <2>1, LockedList, HeadThread DEF SubmitFunc
    <3> QED
      BY <2>1, <3>1 DEF TypeOK, IdleIsFree, SubmitFunc
  <2>2. CASE SubmitSignal(k)
    BY <2>2 DEF TypeOK, IdleIsFree, SubmitSignal
  <2>3. CASE ~(SubmitFunc(k) \/ SubmitSignal(k))
    BY <1>2, <2>3 DEF IdleIsFree, Submit, SubmitLock, SubmitArgs, SubmitSpawn,
       SubmitCreate, RunDetached
  <2> QED
    BY <2>1, <2>2, <2>3
<1>3. CASE DestroyLock \/ Destroy
  BY <1>3, HeadThread DEF TypeOK, IdleIsFree, Destroy, DestroyLock, DestroyThread,
     DestroyJoin, DestroyUnlock
<1>4. CASE Create
  <2>1. ASSUME NEW t \in Threads, CreateThread(t) PROVE IdleIsFree'
    BY <2>1 DEF TypeOK, IdleIsFree, CreateThread, Goto
  <2> QED
    BY <1>4, <2>1 DEF IdleIsFree, Create, InitDone, InitFails
<1>5. CASE UNCHANGED vars \/ \E k \in Tasks : Call(k)
  BY <1>5 DEF IdleIsFree, Call
<1> QED
  BY <1>1, <1>2, <1>3, <1>4, <1>5 DEF Next, Destroyed

\* A thread that a submit may take has no task, with all the races.
THEOREM IdleThreadsHaveNoTask == Spec => []IdleHasNoTask
<1>1. Init => TypeOK /\ ListInv /\ IdleIsFree
  BY InitList DEF Init, IdleIsFree
<1>2. TypeOK /\ ListInv /\ IdleIsFree /\ [Next]_vars
        => (TypeOK /\ ListInv /\ IdleIsFree)'
  BY NextKeepsList, IdleStep
<1>3. IdleIsFree => IdleHasNoTask
  BY DEF IdleIsFree, IdleHasNoTask
<1> QED
  BY <1>1, <1>2, <1>3, PTL DEF Spec

-----------------------------------------------------------------------------
(* Tasks, when a thread that sees its func sees its args too.              *)

LEMMA InitTask == Init => TaskInv
<1> SUFFICES ASSUME Init PROVE TaskInv
  OBVIOUS
<1> QED
  BY DEF Init, TaskInv, IdleIsFree, TaskKept, OneTask, FuncIsTask, RunHasFunc, RunsOnce,
     Waits

\* The task a thread runs is the one that it was given and has not run.
LEMMA RunsItsTask ==
  ASSUME TypeOK, TaskInv, NEW t \in Threads, pc[t] = "run"
  PROVE  /\ args[t] \in Tasks /\ Waits(args[t]) /\ target[args[t]] = t
         /\ \A j \in Tasks : Waits(j) /\ target[j] = t => j = args[t]
<1>1. PICK k \in Tasks : Waits(k) /\ target[k] = t
  BY DEF TaskInv, FuncIsTask, RunHasFunc
<1>2. \A j \in Tasks : Waits(j) /\ target[j] = t => args[t] = j
  BY DEF TaskInv, TaskKept
<1> QED
  BY <1>1, <1>2

LEMMA TaskThreadStep ==
  ASSUME "staleArgs" \notin Races, TypeOK, ListInv, TaskInv, IdleIsFree',
         NEW t \in Threads, Thread(t) \/ SpuriousWakeup(t)
  PROVE  TaskInv'
<1> USE NamesAssumption
<1>1. CASE TakeLock(t) \/ Sleep(t) \/ SpuriousWakeup(t) \/ TakeSpin(t) \/ Relist(t)
           \/ Leave(t)
  <2>1. /\ UNCHANGED <<status, func, args, sub, target, ran>>
        /\ \E l \in Labels \ {"run", "clear", "idle"} : Goto(t, l)
        /\ pc[t] \notin {"run", "clear", "idle"}
    BY <1>1 DEF TakeLock, Sleep, SpuriousWakeup, TakeSpin, Relist, Leave, Labels
  <2>2. TaskKept' /\ FuncIsTask'
    BY <2>1 DEF TypeOK, TaskInv, TaskKept, FuncIsTask, Waits, Goto
  <2>4. OneTask'
    BY <2>1 DEF TaskInv, OneTask, Waits
  <2>3. RunHasFunc' /\ RunsOnce'
    BY <2>1 DEF TypeOK, TaskInv, RunHasFunc, RunsOnce, Goto
  <2> QED
    BY <2>2, <2>3, <2>4 DEF TaskInv
<1>2. CASE CheckFunc(t)
  <2>1. TaskKept'
    BY <1>2 DEF TypeOK, TaskInv, TaskKept, Waits, CheckFunc, Goto
  <2>2. FuncIsTask'
    BY <1>2 DEF TypeOK, TaskInv, FuncIsTask, Waits, CheckFunc, Goto
  <2>4. OneTask'
    BY <1>2 DEF TaskInv, OneTask, Waits, CheckFunc
  <2>3. RunHasFunc' /\ RunsOnce'
    BY <1>2 DEF TypeOK, TaskInv, RunHasFunc, RunsOnce, CheckFunc, Goto
  <2> QED
    BY <2>1, <2>2, <2>3, <2>4 DEF TaskInv
<1>3. CASE RunTask(t)
  <2> DEFINE k == args[t]
  <2>1. /\ k \in Tasks /\ Waits(k) /\ target[k] = t
        /\ \A j \in Tasks : Waits(j) /\ target[j] = t => j = k
    BY <1>3, RunsItsTask DEF RunTask
  <2>2. sub[k] \in {"signal", "done"}
    BY <1>3, <2>1 DEF TaskInv, TaskKept, ListInv, TargetSet, RunTask
  <2>3. /\ ran' \in [Tasks -> Nat] /\ ran'[k] = 1
        /\ \A j \in Tasks : j # k => ran'[j] = ran[j]
    BY <1>3, <2>1, RunCounts DEF RunTask, Waits
  <2>4. pc' = [pc EXCEPT ![t] = "clear"] /\ UNCHANGED <<status, func, args, sub, target>>
    BY <1>3 DEF RunTask, Goto
  <2> HIDE DEF k
  <2>5. \A j \in Tasks : Waits(j)' => Waits(j) /\ j # k /\ target[j] # t
    BY <2>1, <2>3, <2>4 DEF Waits
  <2>6. \A j \in Tasks : Waits(j) /\ target[j] # t => Waits(j)'
    BY <2>1, <2>3, <2>4 DEF Waits
  <2>7. TaskKept'
    BY <2>4, <2>5 DEF TypeOK, TaskInv, TaskKept
  <2>8. FuncIsTask'
    BY <2>4, <2>6 DEF TypeOK, TaskInv, FuncIsTask
  <2>9. RunHasFunc'
    BY <1>3, <2>4 DEF TypeOK, TaskInv, RunHasFunc, RunTask
  <2>10. RunsOnce'
    BY <2>1, <2>2, <2>3, <2>4 DEF TaskInv, RunsOnce
  <2>11. OneTask'
    BY <2>4, <2>5 DEF TaskInv, OneTask
  <2> QED
    BY <2>7, <2>8, <2>9, <2>10, <2>11 DEF TaskInv
<1>4. CASE ClearFunc(t) \/ MarkIdle(t)
  <2>1. /\ UNCHANGED <<args, sub, target, ran>>
        /\ pc[t] \in {"clear", "idle"} /\ (\A j \in Threads \ {t} :
             pc'[j] = pc[j] /\ func'[j] = func[j] /\ status'[j] = status[j])
        /\ ~func'[t] /\ pc'[t] \in {"idle", "relist"}
    BY <1>4 DEF TypeOK, TaskInv, IdleIsFree, ClearFunc, MarkIdle, Goto
  <2>2. \A j \in Tasks : Waits(j) => target[j] \in Threads \ {t}
    BY <2>1 DEF TypeOK, TaskInv, TaskKept, Waits
  <2>3. \A j \in Tasks : Waits(j)' <=> Waits(j)
    BY <2>1 DEF Waits
  <2>4. TaskKept'
    BY <2>1, <2>2, <2>3 DEF TaskInv, TaskKept
  <2>5. FuncIsTask'
    BY <2>1, <2>3 DEF TaskInv, FuncIsTask
  <2>6. RunHasFunc' /\ RunsOnce'
    BY <2>1 DEF TaskInv, RunHasFunc, RunsOnce
  <2>7. OneTask'
    BY <2>1, <2>3 DEF TaskInv, OneTask
  <2> QED
    BY <2>4, <2>5, <2>6, <2>7 DEF TaskInv
<1> QED
  BY <1>1, <1>2, <1>3, <1>4 DEF Thread

LEMMA TaskSubmitStep ==
  ASSUME TypeOK, ListInv, TaskInv, IdleIsFree', NEW k \in Tasks, Submit(k)
  PROVE  TaskInv'
<1> USE NamesAssumption
<1>1. CASE SubmitLock(k) \/ SubmitSpawn(k) \/ SubmitCreate(k) \/ RunDetached(k)
  <2>1. UNCHANGED <<status, func, args, pc, target>> /\ target[k] = None
    BY <1>1 DEF TypeOK, ListInv, TargetSet, SubmitLock, SubmitSpawn, SubmitCreate,
       RunDetached
  <2>2. \A j \in Tasks : j # k => ran'[j] = ran[j] /\ sub'[j] = sub[j]
    BY <1>1, RunCounts DEF TypeOK, SubmitLock, SubmitSpawn, SubmitCreate, RunDetached,
       SubmitGoto, Return
  <2>3. \A j \in Tasks : (Waits(j)' <=> Waits(j)) /\ (Waits(j) => j # k)
    BY <2>1, <2>2 DEF Waits
  <2>4. TaskKept' /\ FuncIsTask' /\ RunHasFunc'
    BY <2>1, <2>2, <2>3 DEF TaskInv, TaskKept, FuncIsTask, RunHasFunc
  <2>5. ran[k] = 0
    BY <1>1 DEF ListInv, TargetSet, SubmitLock, SubmitSpawn, SubmitCreate, RunDetached
  <2>6. ran'[k] <= 1 /\ (ran'[k] = 1 => sub'[k] = "done")
    <3>1. CASE RunDetached(k)
      BY <2>5, <3>1, RunCounts DEF TypeOK, RunDetached, SubmitGoto
    <3>2. CASE SubmitLock(k) \/ SubmitSpawn(k) \/ SubmitCreate(k)
      BY <2>5, <3>2 DEF SubmitLock, SubmitSpawn, SubmitCreate
    <3> QED
      BY <1>1, <3>1, <3>2
  <2>7. RunsOnce'
    BY <2>2, <2>6 DEF TaskInv, RunsOnce
  <2>8. OneTask'
    BY <2>1, <2>3 DEF TaskInv, OneTask
  <2> QED
    BY <2>4, <2>7, <2>8 DEF TaskInv
<1>2. CASE SubmitFunc(k)
  <2> DEFINE h == Head(list)
  <2>1. h \in Threads
    BY <1>2, LockedList, HeadThread DEF SubmitFunc
  <2>2. /\ status' = [status EXCEPT ![h] = "BUSY"] /\ func' = [func EXCEPT ![h] = TRUE]
        /\ target' = [target EXCEPT ![k] = h] /\ sub' = [sub EXCEPT ![k] = "args"]
        /\ UNCHANGED <<args, pc, ran>> /\ status[h] = "IDLE" /\ sub[k] = "locked"
    BY <1>2 DEF SubmitFunc, SubmitGoto
  <2> HIDE DEF h
  <2>3. pc[h] \notin {"run", "clear", "idle"}
    BY <2>1, <2>2 DEF TaskInv, IdleIsFree
  <2>4. /\ Waits(k)' /\ \A j \in Tasks : j # k => (Waits(j)' <=> Waits(j))
        /\ \A j \in Tasks : Waits(j) => target[j] # h
    <3>1. ran[k] = 0
      BY <2>2 DEF ListInv, TargetSet
    <3>2. h # None
      BY <2>1, NamesAssumption
    <3> QED
      BY <2>1, <2>2, <3>1, <3>2 DEF TypeOK, Waits, TaskInv, TaskKept
  <2>5. ~Waits(k)
    BY <2>2 DEF ListInv, TargetSet, Waits
  <2>6. TaskKept'
    <3>1. ASSUME NEW j \in Tasks, j # k, Waits(j)
          PROVE  /\ target'[j] = target[j] /\ target[j] \in Threads \ {h}
                 /\ sub'[j] = sub[j] /\ func'[target[j]] = func[target[j]]
                 /\ status'[target[j]] = status[target[j]]
      BY <2>1, <2>2, <2>4, <3>1 DEF TypeOK, Waits
    <3>2. target'[k] = h /\ func'[h] /\ status'[h] = "BUSY" /\ sub'[k] = "args"
      BY <2>1, <2>2 DEF TypeOK
    <3> QED
      BY <2>2, <2>3, <2>4, <3>1, <3>2 DEF TaskInv, TaskKept
  <2>7. FuncIsTask'
    <3>1. ASSUME NEW t \in Threads, t # h, func'[t], pc'[t] # "clear"
          PROVE  \E j \in Tasks : Waits(j)' /\ target'[j] = t
      <4>1. func[t] /\ pc[t] # "clear"
        BY <2>1, <2>2, <3>1 DEF TypeOK
      <4>2. PICK j \in Tasks : Waits(j) /\ target[j] = t
        BY <4>1 DEF TaskInv, FuncIsTask
      <4> QED
        BY <2>2, <2>4, <2>5, <4>2 DEF TypeOK
    <3>2. Waits(k)' /\ target'[k] = h
      BY <2>2, <2>4 DEF TypeOK
    <3> QED
      BY <3>1, <3>2 DEF FuncIsTask
  <2>8. RunHasFunc' /\ RunsOnce'
    BY <2>1, <2>2, <2>3 DEF TypeOK, TaskInv, RunHasFunc, RunsOnce, ListInv, TargetSet
  <2>9. OneTask'
    <3>1. ASSUME NEW i \in Tasks, NEW j \in Tasks, Waits(i)', Waits(j)',
                 target'[i] = target'[j]
          PROVE  i = j
      <4>1. target'[k] = h /\ \A l \in Tasks \ {k} : target'[l] = target[l]
        BY <2>2 DEF TypeOK
      <4>2. CASE i = k \/ j = k
        BY <2>4, <3>1, <4>1, <4>2
      <4>3. CASE i # k /\ j # k
        BY <2>4, <3>1, <4>1, <4>3 DEF TaskInv, OneTask
      <4> QED
        BY <4>2, <4>3
    <3> QED
      BY <3>1 DEF OneTask
  <2> QED
    BY <2>6, <2>7, <2>8, <2>9 DEF TaskInv
<1>3. CASE SubmitArgs(k)
  <2> DEFINE t == target[k]
  <2>1. t \in Threads /\ Waits(k)
    BY <1>3 DEF TypeOK, ListInv, TargetSet, SubmitArgs, Waits
  <2>2. /\ args' = [args EXCEPT ![t] = k] /\ sub' = [sub EXCEPT ![k] = "signal"]
        /\ UNCHANGED <<status, func, pc, target, ran>>
    BY <1>3 DEF SubmitArgs, SubmitGoto
  <2> HIDE DEF t
  <2>3. \A j \in Tasks : Waits(j)' <=> Waits(j)
    BY <2>2 DEF Waits
  <2>4. \A j \in Tasks : j # k /\ Waits(j) => target[j] # t
    BY <2>1 DEF TaskInv, OneTask, t
  <2>5. TaskKept'
    BY <2>1, <2>2, <2>3, <2>4 DEF TypeOK, TaskInv, TaskKept, t
  <2>6. FuncIsTask' /\ RunHasFunc'
    BY <2>2, <2>3 DEF TaskInv, FuncIsTask, RunHasFunc
  <2>7. RunsOnce'
    BY <2>2 DEF TypeOK, TaskInv, RunsOnce
  <2>8. OneTask'
    BY <2>2, <2>3 DEF TaskInv, OneTask
  <2> QED
    BY <2>5, <2>6, <2>7, <2>8 DEF TaskInv
<1>4. CASE SubmitSignal(k)
  <2>1. /\ sub' = [sub EXCEPT ![k] = "done"] /\ sub[k] = "signal"
        /\ UNCHANGED <<status, func, args, target, ran>>
        /\ \A t \in Threads : pc'[t] = pc[t] \/ (pc[t] = "waiting" /\ pc'[t] = "woken")
    BY <1>4 DEF TypeOK, SubmitSignal, SubmitGoto, Return
  <2>2. \A j \in Tasks : Waits(j)' <=> Waits(j)
    BY <2>1 DEF Waits
  <2>3. TaskKept'
    BY <2>1, <2>2 DEF TypeOK, TaskInv, TaskKept, Waits
  <2>4. OneTask' /\ FuncIsTask'
    BY <2>1, <2>2 DEF TaskInv, OneTask, FuncIsTask
  <2>5. RunHasFunc' /\ RunsOnce'
    BY <2>1 DEF TypeOK, TaskInv, RunHasFunc, RunsOnce
  <2> QED
    BY <2>3, <2>4, <2>5 DEF TaskInv
<1> QED
  BY <1>1, <1>2, <1>3, <1>4 DEF Submit

LEMMA TaskDestroyStep ==
  ASSUME TypeOK, ListInv, TaskInv, Create \/ DestroyLock \/ Destroy, IdleIsFree', Quiet'
  PROVE  TaskInv'
<1>1. UNCHANGED <<sub, target, ran, func, args>>
  BY DEF Create, CreateThread, InitDone, InitFails, Destroy, DestroyLock, DestroyThread,
     DestroyJoin, DestroyUnlock
<1>2. \A t \in Threads :
        pc'[t] = pc[t] \/ (pc[t] # "clear" /\ pc'[t] \notin {"run", "clear", "idle"})
  BY DEF TypeOK, Create, CreateThread, InitDone, InitFails, Goto, Destroy, DestroyLock,
     DestroyThread, DestroyJoin, DestroyUnlock
<1>3. dpc # "idle" \/ dpc' # "idle"
  BY DEF Create, CreateThread, InitDone, InitFails, Destroy, DestroyLock, DestroyThread,
     DestroyJoin, DestroyUnlock
<1>4. \A j \in Tasks : sub[j] \in {"new", "rejected"} \/ ran[j] # 0
  <2>1. \A j \in Tasks : sub[j] \in {"new", "rejected"} \/ ran[j] > 0
    BY <1>1, <1>3 DEF ListInv, Quiet
  <2> QED
    BY <2>1
<1>5. \A j \in Tasks : ~Waits(j)
  BY <1>4 DEF ListInv, TargetSet, Waits
<1>6. \A j \in Tasks : ~Waits(j)'
  BY <1>1, <1>5 DEF Waits
<1>7. TaskKept' /\ OneTask' /\ FuncIsTask'
  BY <1>1, <1>2, <1>5, <1>6 DEF TaskInv, TaskKept, OneTask, FuncIsTask
<1>8. RunHasFunc' /\ RunsOnce'
  BY <1>1, <1>2 DEF TaskInv, RunHasFunc, RunsOnce
<1> QED
  BY <1>7, <1>8 DEF TaskInv

LEMMA TaskInvariance ==
  ASSUME "staleArgs" \notin Races
  PROVE  Spec => [](TypeOK /\ ListInv /\ TaskInv)
<1>1. Init => TypeOK /\ ListInv /\ TaskInv
  BY InitList, InitTask
<1>2. ASSUME TypeOK, ListInv, TaskInv, [Next]_vars
      PROVE  TypeOK' /\ ListInv' /\ TaskInv'
  <2>1. TypeOK' /\ ListInv'
    BY <1>2, NextKeepsList
  <2>2. IdleIsFree'
    BY <1>2, IdleStep DEF TaskInv
  <2>3. CASE UNCHANGED vars \/ \E k \in Tasks : Call(k)
    <3>1. /\ \A k \in Tasks : Waits(k)' <=> Waits(k)
          /\ UNCHANGED <<status, func, args, pc, target, ran>>
      BY <2>3 DEF Waits, Call
    <3>2. \A k \in Tasks :
            sub'[k] = sub[k] \/ (sub[k] = "new" /\ sub'[k] = "called")
      BY <1>2, <2>3 DEF TypeOK, Call, SubmitGoto
    <3>3. \A k \in Tasks : Waits(k) => sub[k] # "new"
      BY <1>2 DEF ListInv, TargetSet, Waits
    <3>4. TaskKept'
      BY <1>2, <3>1, <3>2, <3>3 DEF TaskInv, TaskKept
    <3>5. OneTask' /\ FuncIsTask'
      BY <1>2, <3>1 DEF TaskInv, OneTask, FuncIsTask
    <3>6. RunHasFunc' /\ RunsOnce'
      BY <1>2, <3>1, <3>2 DEF TaskInv, RunHasFunc, RunsOnce
    <3> QED
      BY <2>1, <2>2, <3>4, <3>5, <3>6 DEF TaskInv
  <2>4. Quiet'
    BY <2>1 DEF ListInv
  <2> QED
    BY <1>2, <2>1, <2>2, <2>3, <2>4, TaskThreadStep, TaskSubmitStep, TaskDestroyStep
       DEF Next, Destroyed
<1> QED
  BY <1>1, <1>2, PTL DEF Spec

\* A submitted task is run once at most and never before it is handed over,
\* provided that a thread that sees its func also sees its args; the other
\* races may happen.
THEOREM TasksRunOnce ==
  ASSUME "staleArgs" \notin Races
  PROVE  Spec => []RunsOnce
<1>1. TaskInv => RunsOnce
  BY DEF TaskInv
<1> QED
  BY <1>1, TaskInvariance, PTL

\* Under the same proviso a task that was handed over stays with its thread
\* until the thread runs it.
THEOREM TasksAreKept ==
  ASSUME "staleArgs" \notin Races
  PROVE  Spec => []NoTaskLost
<1>1. TypeOK /\ ListInv /\ TaskInv => NoTaskLost
  BY DEF TaskInv, TaskKept, Waits, NoTaskLost
<1> QED
  BY <1>1, TaskInvariance, PTL

-----------------------------------------------------------------------------
(* The pool implements TaskPool.                                           *)

\* A step of a submit answers its caller and no other.
LEMMA AnswerStep ==
  ASSUME TypeOK, NEW k \in Tasks, NEW l, SubmitGoto(k, l)
  PROVE  [j \in Tasks |-> AnswerAt(sub'[j])] =
           [[j \in Tasks |-> AnswerAt(sub[j])] EXCEPT ![k] = AnswerAt(l)]
BY DEF TypeOK, SubmitGoto

\* A submit that has not answered keeps the pool open.
LEMMA PoolIsOpen ==
  ASSUME ListInv, NEW k \in Tasks, sub[k] \notin {"new", "rejected"}, ran[k] = 0
  PROVE  dpc = "idle"
BY DEF ListInv, Quiet

LEMMA PoolStep ==
  ASSUME "staleArgs" \notin Races, TypeOK, ListInv, TaskInv, [Next]_vars
  PROVE  [Pool!Next]_(Pool!vars)
<1> USE DEF Pool!vars
<1>1. ASSUME NEW t \in Threads, Thread(t) \/ SpuriousWakeup(t)
      PROVE  [Pool!Next]_(Pool!vars)
  <2>1. CASE RunTask(t)
    <3> DEFINE k == args[t]
    <3>1. k \in Tasks /\ ran[k] = 0 /\ target[k] # None
      BY <2>1, RunsItsTask DEF RunTask, Waits
    <3>2. sub[k] \in {"args", "signal", "done"}
      BY <3>1 DEF ListInv, TargetSet
    <3>3. dpc = "idle"
      BY <3>1, <3>2, PoolIsOpen
    <3>4. ran' = [ran EXCEPT ![k] = 1] /\ UNCHANGED <<sub, dpc>>
      BY <2>1, <3>1 DEF RunTask, Run, TypeOK
    <3> HIDE DEF k
    <3>5. Pool!RunTask(k)
      BY <3>1, <3>2, <3>3, <3>4 DEF Pool!RunTask, AnswerAt
    <3> QED
      BY <3>1, <3>5 DEF Pool!Next
  <2>2. CASE ~RunTask(t)
    <3>1. UNCHANGED <<sub, ran, dpc>>
      BY <1>1, <2>2 DEF Thread, TakeLock, CheckFunc, Sleep, SpuriousWakeup, ClearFunc,
         MarkIdle, TakeSpin, Relist, Leave
    <3> QED
      BY <3>1
  <2> QED
    BY <2>1, <2>2
<1>2. ASSUME NEW k \in Tasks, Call(k) \/ Submit(k)
      PROVE  [Pool!Next]_(Pool!vars)
  <2>1. CASE Call(k) \/ SubmitLock(k) \/ SubmitArgs(k) \/ SubmitSignal(k) \/ SubmitSpawn(k)
    <3>1. PICK l \in SubmitLabels : SubmitGoto(k, l) /\ AnswerAt(l) = AnswerAt(sub[k])
      BY <2>1 DEF Call, SubmitLock, SubmitArgs, SubmitSignal, SubmitSpawn, AnswerAt,
         SubmitLabels, Return
    <3>2. UNCHANGED [j \in Tasks |-> AnswerAt(sub[j])]
      BY <3>1, AnswerStep
    <3> QED
      BY <2>1, <3>2 DEF Call, SubmitLock, SubmitArgs, SubmitSignal, SubmitSpawn
  <2>2. CASE SubmitFunc(k) \/ SubmitCreate(k)
    <3>1. sub[k] \in {"locked", "spawn"} /\ UNCHANGED <<ran, dpc>>
      BY <2>2 DEF SubmitFunc, SubmitCreate
    <3>2. dpc = "idle"
      BY <3>1, PoolIsOpen DEF ListInv, TargetSet
    <3>3. PICK l \in {"args", "detached", "rejected"} : SubmitGoto(k, l)
      BY <2>2 DEF SubmitFunc, SubmitCreate, Return
    <3>4. Pool!Answer(k, AnswerAt(l))
      BY <3>1, <3>2, <3>3, AnswerStep DEF Pool!Answer, AnswerAt
    <3>5. AnswerAt(l) \in {"accepted", "refused"}
      BY <3>3 DEF AnswerAt
    <3> QED
      BY <3>4, <3>5 DEF Pool!Next, Pool!Accept, Pool!Refuse
  <2>3. CASE RunDetached(k)
    <3>1. sub[k] = "detached" /\ ran[k] = 0 /\ UNCHANGED dpc
      BY <2>3 DEF RunDetached, ListInv, TargetSet
    <3>2. dpc = "idle"
      BY <3>1, PoolIsOpen
    <3>3. ran' = [ran EXCEPT ![k] = 1] /\ SubmitGoto(k, "done")
      BY <2>3, <3>1 DEF RunDetached, Run, TypeOK
    <3>4. UNCHANGED [j \in Tasks |-> AnswerAt(sub[j])]
      <4>1. AnswerAt("done") = AnswerAt(sub[k])
        BY <3>1 DEF AnswerAt
      <4> QED
        BY <3>3, <4>1, AnswerStep
    <3>5. Pool!RunTask(k)
      BY <3>1, <3>2, <3>3, <3>4 DEF Pool!RunTask, AnswerAt
    <3> QED
      BY <3>5 DEF Pool!Next
  <2> QED
    BY <1>2, <2>1, <2>2, <2>3 DEF Submit
<1>3. CASE InitFails \/ DestroyLock
  <2>1. dpc \in {"init", "idle"} /\ dpc' = "next" /\ UNCHANGED <<sub, ran>>
    BY <1>3 DEF InitFails, DestroyLock
  <2>2. ASSUME NEW k \in Tasks PROVE AnswerAt(sub[k]) = "accepted" => ran[k] = 1
    <3>1. sub[k] \in {"new", "rejected"} \/ ran[k] > 0
      BY <1>3 DEF InitFails, DestroyLock, ListInv, Quiet
    <3>2. ran[k] \in Nat /\ ran[k] <= 1
      BY DEF TypeOK, TaskInv, RunsOnce
    <3> QED
      BY <3>1, <3>2 DEF AnswerAt
  <2>3. Pool!Close
    BY <2>1, <2>2 DEF Pool!Close
  <2> QED
    BY <2>3 DEF Pool!Next
<1>4. CASE Destroy \/ InitDone \/ \E t \in Threads : CreateThread(t)
  BY <1>4 DEF Destroy, DestroyThread, DestroyJoin, DestroyUnlock, InitDone, CreateThread
<1>5. CASE UNCHANGED vars
  BY <1>5
<1> QED
  BY <1>1, <1>2, <1>3, <1>4, <1>5 DEF Next, Create, Destroyed

\* Unless a thread sees its func before its args, the pool keeps the promise of
\* TaskPool, for any number of threads and tasks, on failed initialisations and
\* whichever of the other races happen.
THEOREM PoolImplementsTaskPool ==
  ASSUME "staleArgs" \notin Races
  PROVE  Spec => ImplementsTaskPool
<1>1. Init => Pool!Init
  BY DEF Init, Pool!Init, AnswerAt
<1>2. TypeOK /\ ListInv /\ TaskInv /\ [Next]_vars => [Pool!Next]_(Pool!vars)
  BY PoolStep
<1> QED
  BY <1>1, <1>2, TaskInvariance, PTL DEF Spec, ImplementsTaskPool, Pool!Spec

=============================================================================
