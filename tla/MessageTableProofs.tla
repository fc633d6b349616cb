------------------------- MODULE MessageTableProofs -------------------------
(***************************************************************************)
(* Proofs about MessageTable: its types, that every chain is whole, that a *)
(* walk which no purge disturbs is complete, that only a disturbed walk    *)
(* reads a freed node, and that only refused registrations leak.           *)
(***************************************************************************)
EXTENDS MessageTable, FiniteSetTheorems, FunctionTheorems, TLAPS

-----------------------------------------------------------------------------
(* The inductive invariant.                                                *)

WriteLabels == {"link", "publish", "wrunlock", "purge", "unlink", "clear", "free"}

\* Registrations and sends are at labels of their own.
Labelled ==
  /\ \A r \in Registrations :
       pc[r] \in {"new", "search", "wrlock", "link", "publish", "wrunlock", "inserted",
                  "refused", "nomem", "wild"}
  /\ \A s \in Sends :
       pc[s] \in {"new", "count", "rdlock", "notify", "poll", "wrlock", "purge",
                  "unlink", "clear", "free", "end", "wild"}

\* Who holds the lock is where it is needed, and a writer is alone.
Locked ==
  /\ \A t \in Threads : writer = t <=> pc[t] \in WriteLabels
  /\ \A t \in Threads : t \in readers <=> pc[t] = "notify"
  /\ readers # {} => writer = None

\* A registration has the node that it fills until the node is published, and
\* the purge the node that it frees.
Owned ==
  /\ \A n \in Nodes : heap[n] # None =>
       /\ node[heap[n]] = n /\ pc[heap[n]] \notin {"new", "nomem"}
       /\ \/ n \in members
          \/ pc[heap[n]] \notin {"wrunlock", "inserted"}
          \/ writer \in Sends /\ pos[writer] = n /\ pc[writer] \in {"clear", "free"}
  /\ \A n \in members : heap[n] # None /\ pc[heap[n]] \in {"wrunlock", "inserted"}
  /\ \A r \in Registrations : pc[r] \in {"search", "wrlock", "link", "publish", "refused"} =>
       node[r] \in Nodes /\ heap[node[r]] = r
  /\ \A s \in Sends : pc[s] \in {"clear", "free"} =>
       /\ pos[s] \in Nodes \ members /\ heap[pos[s]] # None
       /\ pc[heap[pos[s]]] \in {"wrunlock", "inserted"}

\* A purge and a walk under the lock are never disturbed, and what was is the
\* only one that reads freed memory.
Raced ==
  /\ \A t \in disturbed : pc[t] \notin {"notify", "purge", "unlink", "clear", "free"}
  /\ \A t \in Threads : pc[t] = "wild" => t \in disturbed

\* Between the halves of an insertion the node leads into the chain.
Prepared ==
  \A r \in Registrations : pc[r] = "publish" => next[node[r]] = first[Chain(r)]

\* s has the nodes of a chain, each once.
Enumerates(b, s) ==
  /\ \E k \in Nat : s \in [1 .. k -> InChain(b)]
  /\ \A i, j \in DOMAIN s : s[i] = s[j] => i = j
  /\ \A n \in InChain(b) : \E i \in DOMAIN s : s[i] = n

\* pprev leads back through s, to the node about to be published if there is one.
LinkedBack(b, s) ==
  /\ \A i \in DOMAIN s : i > 1 => pprev[s[i]] = s[i - 1]
  /\ 1 \in DOMAIN s =>
       /\ \A r \in Registrations :
            pc[r] = "publish" /\ Chain(r) = b => pprev[s[1]] = node[r]
       /\ (\A r \in Registrations : ~(pc[r] = "publish" /\ Chain(r) = b)) => pprev[s[1]] = b

\* The nodes of a chain from a place on.
Rest(s, i) == {s[j] : j \in {j \in DOMAIN s : i <= j}}

\* A walk that is at n and has yet to visit the nodes of rest is on its way.
Reaches(s, n, rest) == \E i \in Nat \ {0} : n = At(s, i) /\ rest = Rest(s, i)

WalkLabels == {"search", "count", "notify", "purge", "unlink"}

\* A walk that was not disturbed is somewhere in the chain, with the rest of it
\* before it; one that takes its node out knows where to go on.
Walks(t, s) ==
  /\ pc[t] \in WalkLabels /\ t \notin disturbed => Reaches(s, pos[t], left[t])
  /\ pc[t] = "unlink" => pos[t] # None /\ tmp[t] = next[pos[t]]
  /\ pc[t] \in {"clear", "free"} => Reaches(s, tmp[t], left[t] \ {pos[t]})

Chained(b, s) ==
  /\ Enumerates(b, s) /\ Linked(b, s) /\ LinkedBack(b, s)
  /\ \A t \in Threads : Chain(t) = b => Walks(t, s)

Chains == \A b \in Buckets : \E s : Chained(b, s)

TableInv ==
  /\ TypeOK /\ Labelled /\ Locked /\ Owned /\ Raced /\ Prepared
  /\ Chains
-----------------------------------------------------------------------------
(* What the invariant says of a walk.                                      *)

\* The actions that leave the nodes as they are, of a thread t.
QuietStep(t) ==
  \/ t \in Registrations /\ (AllocFails(t) \/ Refuse(t) \/ Search(t) \/ SearchDone(t)
                             \/ InsertLock(t) \/ InsertUnlock(t))
  \/ t \in Sends /\ (Notification(t) \/ Poll(t))
  \/ t \in Sends /\ (PurgeLock(t) \/ PurgeKeep(t) \/ PurgeGone(t) \/ PurgeUnlock(t))
  \/ ReadFreed(t)

\* A walk that was not disturbed is at a node of its chain.
LEMMA WalkIsInChain ==
  ASSUME TableInv, NEW t \in Threads, pc[t] \in WalkLabels, t \notin disturbed,
         pos[t] # None
  PROVE  pos[t] \in InChain(Chain(t)) /\ pos[t] \in members /\ heap[pos[t]] # None
<1>1. Chain(t) \in Buckets
  BY DEF Chain, Buckets
<1>2. PICK s : Chained(Chain(t), s)
  BY <1>1 DEF TableInv, Chains
<1>3. PICK i \in Nat \ {0} : pos[t] = At(s, i)
  BY <1>2 DEF Chained, Walks, Reaches
<1>4. i \in DOMAIN s /\ pos[t] = s[i]
  BY <1>3 DEF At
<1>5. pos[t] \in InChain(Chain(t))
  BY <1>2, <1>4 DEF Chained, Enumerates
<1> QED
  BY <1>5 DEF InChain, TableInv, Owned

\* A purge unlinks a node of its chain.
LEMMA UnlinkIsInChain ==
  ASSUME TableInv, NEW t \in Threads, pc[t] = "unlink"
  PROVE  /\ t \in Sends /\ writer = t /\ t \notin disturbed
         /\ pos[t] \in InChain(Chain(t)) /\ pos[t] \in members /\ pos[t] \in Nodes
<1>1. t \in Sends /\ writer = t
  BY DEF TableInv, Locked, Labelled, WriteLabels, Threads
<1>2. t \notin disturbed
  BY DEF TableInv, Raced
<1>3. Chain(t) \in Buckets
  BY DEF Chain, Buckets
<1>4. pos[t] # None
  BY <1>3 DEF TableInv, Chains, Chained, Walks
<1> QED
  BY <1>1, <1>2, <1>4, WalkIsInChain DEF WalkLabels, TableInv, TypeOK

\* Only a disturbed walk without the lock meets a freed node.
LEMMA FreedMeansDisturbed ==
  ASSUME TableInv, NEW t \in Threads, ReadFreed(t)
  PROVE  t \in disturbed /\ pc[t] \in {"search", "count"}
BY WalkIsInChain DEF ReadFreed, WalkLabels, TableInv, Raced

-----------------------------------------------------------------------------
(* Types, labels, the lock.                                                *)

LEMMA TypesStep ==
  ASSUME TableInv, NEW t \in Threads, Step(t)
  PROVE  TypeOK'
<1> USE DEF TypeOK
<1>1. TypeOK
  BY DEF TableInv
<1>2. first[Chain(t)] \in Nodes \cup {None} /\ Chain(t) \in Buckets /\ InChain(Chain(t)) \subseteq Nodes
  BY <1>1 DEF Chain, Buckets, InChain
<1>3. CASE t \in Registrations /\ Register(t)
  <2>1. CASE Alloc(t)
    BY <1>1, <1>2, <1>3, <2>1 DEF Alloc, Begin, Goto, Labels, lockVars
  <2>2. CASE AllocFails(t) \/ Refuse(t) \/ SearchDone(t)
    BY <1>1, <2>2 DEF AllocFails, Refuse, SearchDone, Goto, Labels, lockVars, links, walkVars
  <2>3. CASE Search(t)
    BY <1>1, <2>3 DEF Search, AtNode, Advance, Goto, Labels, lockVars, links
  <2>4. CASE InsertLock(t) \/ InsertUnlock(t)
    BY <1>1, <2>4 DEF InsertLock, InsertUnlock, Unlock, Goto, Labels, links, walkVars
  <2>5. CASE Link(t)
    BY <1>1, <1>2, <1>3, <2>5 DEF Link, Goto, Labels, lockVars, walkVars
  <2>6. CASE Publish(t)
    <3>1. node[t] \in Nodes
      BY <1>3, <2>6 DEF Publish, TableInv, Owned
    <3> QED
      BY <1>1, <1>2, <1>3, <2>6, <3>1 DEF Publish, Goto, Labels, lockVars, walkVars
  <2> QED
    BY <1>3, <2>1, <2>2, <2>3, <2>4, <2>5, <2>6 DEF Register
<1>4. CASE t \in Sends /\ (Notification(t) \/ Poll(t))
  <2>1. CASE CountBegin(t) \/ NotifyLock(t)
    BY <1>1, <1>2, <2>1 DEF CountBegin, NotifyLock, Begin, Goto, Labels, lockVars, links
  <2>2. CASE Count(t) \/ Notify(t)
    BY <1>1, <2>2 DEF Count, Notify, AtNode, Advance, lockVars, links
  <2>3. CASE CountDone(t) \/ NotifyUnlock(t) \/ Poll(t)
    BY <1>1, <2>3 DEF CountDone, NotifyUnlock, Poll, Unlock, Goto, Labels, lockVars, links, walkVars
  <2> QED
    BY <1>4, <2>1, <2>2, <2>3 DEF Notification
<1>5. CASE t \in Sends /\ Purge(t)
  <2>1. CASE PurgeLock(t)
    BY <1>1, <1>2, <2>1 DEF PurgeLock, Begin, Goto, Labels, links
  <2>2. CASE PurgeKeep(t) \/ PurgeGone(t) \/ PurgeUnlock(t)
    BY <1>1, <2>2 DEF PurgeKeep, PurgeGone, PurgeUnlock, AtNode, Advance, Unlock, Goto, Labels,
       lockVars, links, walkVars
  <2>3. CASE Unlink(t)
    <3>1. pos[t] \in Nodes
      BY <2>3, UnlinkIsInChain DEF Unlink
    <3>2. disturbed' \subseteq Threads
      BY <1>1, <2>3 DEF Unlink, Walking
    <3> QED
      BY <1>1, <2>3, <3>1, <3>2 DEF Unlink, Goto, Labels, lockVars
  <2>4. CASE Clear(t)
    BY <1>1, <2>4 DEF Clear, Goto, Labels, lockVars, walkVars
  <2>5. CASE Free(t)
    BY <1>1, <2>5 DEF Free, Advance, Goto, Labels, lockVars, links
  <2> QED
    BY <1>5, <2>1, <2>2, <2>3, <2>4, <2>5 DEF Purge
<1>6. CASE ReadFreed(t)
  BY <1>1, <1>6 DEF ReadFreed, Goto, Labels, lockVars, links, walkVars
<1> QED
  BY <1>3, <1>4, <1>5, <1>6 DEF Step

\* Every thread moves between labels of its kind, takes the lock when it is free
\* and gives back its own.
LEMMA LabelsStep ==
  ASSUME TableInv, NEW t \in Threads, Step(t)
  PROVE  Labelled' /\ Locked'
<1>1. /\ pc \in [Threads -> Labels] /\ readers \subseteq Threads
      /\ Labelled /\ Locked /\ None \notin Threads
  BY TableNames DEF TableInv, TypeOK
<1> USE DEF Labelled, Locked, Goto, Threads, WriteLabels
<1>2. CASE t \in Registrations /\ Register(t)
  <2>1. CASE Alloc(t) \/ AllocFails(t)
    <3>1. /\ pc[t] = "new" /\ UNCHANGED lockVars
          /\ pc' = [pc EXCEPT ![t] = "search"] \/ pc' = [pc EXCEPT ![t] = "nomem"]
      BY <2>1 DEF Alloc, AllocFails, Begin
    <3> QED
      BY <1>1, <1>2, <3>1, TableNames DEF lockVars
  <2>2. CASE Refuse(t) \/ Search(t) \/ SearchDone(t)
    BY <1>1, <1>2, <2>2 DEF Refuse, Search, SearchDone, AtNode, AtEnd, lockVars
  <2>3. CASE InsertLock(t)
    <3>1. /\ pc[t] = "wrlock" /\ readers = {} /\ writer = None /\ writer' = t /\ readers' = {}
          /\ pc' = [pc EXCEPT ![t] = "link"]
      BY <2>3 DEF InsertLock
    <3> QED
      BY <1>1, <1>2, <3>1, TableNames
  <2>4. CASE Link(t) \/ Publish(t)
    BY <1>1, <1>2, <2>4 DEF Link, Publish, lockVars
  <2>5. CASE InsertUnlock(t)
    BY <1>1, <1>2, <2>5, TableNames DEF InsertUnlock, Unlock
  <2> QED
    BY <1>2, <2>1, <2>2, <2>3, <2>4, <2>5 DEF Register
<1>3. CASE t \in Sends /\ (Notification(t) \/ Poll(t))
  <2>1. CASE CountBegin(t) \/ Count(t) \/ CountDone(t) \/ Notify(t) \/ Poll(t)
    <3>1. /\ UNCHANGED lockVars /\ pc[t] \notin WriteLabels
          /\ \/ UNCHANGED pc
             \/ /\ pc[t] \in {"new", "count", "poll"}
                /\ \E l \in {"count", "end", "rdlock", "wrlock"} : pc' = [pc EXCEPT ![t] = l]
      BY <2>1 DEF CountBegin, Count, CountDone, Notify, Poll, Begin, AtNode, AtEnd
    <3> QED
      BY <1>1, <1>3, <3>1, TableNames DEF lockVars
  <2>2. CASE NotifyLock(t)
    BY <1>1, <1>3, <2>2 DEF NotifyLock, Begin
  <2>3. CASE NotifyUnlock(t)
    BY <1>1, <1>3, <2>3, TableNames DEF NotifyUnlock, AtEnd, Unlock
  <2> QED
    BY <1>3, <2>1, <2>2, <2>3 DEF Notification
<1>4. CASE t \in Sends /\ Purge(t)
  <2>1. CASE PurgeLock(t)
    <3>1. /\ pc[t] = "wrlock" /\ readers = {} /\ writer = None /\ writer' = t /\ readers' = {}
          /\ pc' = [pc EXCEPT ![t] = "purge"]
      BY <2>1 DEF PurgeLock, Begin
    <3> QED
      BY <1>1, <1>4, <3>1, TableNames
  <2>2. CASE PurgeKeep(t) \/ PurgeGone(t) \/ Unlink(t) \/ Clear(t) \/ Free(t)
    BY <1>1, <1>4, <2>2 DEF PurgeKeep, PurgeGone, Unlink, Clear, Free, AtNode, lockVars
  <2>3. CASE PurgeUnlock(t)
    BY <1>1, <1>4, <2>3, TableNames DEF PurgeUnlock, AtEnd, Unlock
  <2> QED
    BY <1>4, <2>1, <2>2, <2>3 DEF Purge
<1>5. CASE ReadFreed(t)
  BY <1>1, <1>5, FreedMeansDisturbed DEF ReadFreed, lockVars
<1> QED
  BY <1>2, <1>3, <1>4, <1>5 DEF Step

\* A purge disturbs only walks without the lock, since it has the lock itself.
LEMMA RacedStep ==
  ASSUME TableInv, NEW t \in Threads, Step(t)
  PROVE  Raced'
<1>1. pc \in [Threads -> Labels] /\ Labelled /\ Raced /\ disturbed \subseteq Threads
  BY DEF TableInv, TypeOK
<1> USE DEF Labelled, Raced, Goto, Threads
<1>2. CASE t \in Registrations /\ Register(t)
  <2>1. CASE Alloc(t)
    BY <1>1, <1>2, <2>1 DEF Alloc, Begin
  <2>2. CASE Search(t)
    BY <1>1, <1>2, <2>2 DEF Search, Advance
  <2>3. CASE AllocFails(t) \/ Refuse(t) \/ SearchDone(t)
    BY <1>1, <1>2, <2>3 DEF AllocFails, Refuse, SearchDone, AtNode, AtEnd, walkVars
  <2>4. CASE InsertLock(t) \/ Link(t) \/ Publish(t) \/ InsertUnlock(t)
    BY <1>1, <1>2, <2>4 DEF InsertLock, Link, Publish, InsertUnlock, walkVars
  <2> QED
    BY <1>2, <2>1, <2>2, <2>3, <2>4 DEF Register
<1>3. CASE t \in Sends /\ (Notification(t) \/ Poll(t))
  <2>1. CASE CountBegin(t) \/ NotifyLock(t)
    BY <1>1, <1>3, <2>1 DEF CountBegin, NotifyLock, Begin
  <2>2. CASE Count(t) \/ Notify(t)
    BY <1>1, <1>3, <2>2 DEF Count, Notify, Advance
  <2>3. CASE CountDone(t) \/ NotifyUnlock(t) \/ Poll(t)
    BY <1>1, <1>3, <2>3 DEF CountDone, NotifyUnlock, Poll, AtEnd, walkVars
  <2> QED
    BY <1>3, <2>1, <2>2, <2>3 DEF Notification
<1>4. CASE t \in Sends /\ Purge(t)
  <2>1. CASE PurgeLock(t)
    BY <1>1, <1>4, <2>1 DEF PurgeLock, Begin
  <2>2. CASE PurgeKeep(t) \/ PurgeGone(t) \/ PurgeUnlock(t) \/ Clear(t) \/ Free(t)
    BY <1>1, <1>4, <2>2 DEF PurgeKeep, PurgeGone, PurgeUnlock, Clear, Free, AtNode, AtEnd, Advance, walkVars
  <2>3. CASE Unlink(t)
    <3>1. pc' = [pc EXCEPT ![t] = "clear"] /\ pc[t] = "unlink" /\ t \notin disturbed
          /\ \A u \in disturbed' \ disturbed : pc[u] \in {"search", "count", "notify"}
      BY <2>3, UnlinkIsInChain DEF Unlink, Walking
    <3>2. \A u \in Threads : pc[u] # "notify"
      BY <3>1, UnlinkIsInChain, TableNames DEF TableInv, Locked
    <3>3. disturbed' \subseteq Threads
      BY <1>1, <2>3 DEF Unlink, Walking
    <3>4. \A u \in disturbed : u \in disturbed'
      BY <2>3 DEF Unlink
    <3> QED
      BY <1>1, <3>1, <3>2, <3>3, <3>4
  <2> QED
    BY <1>4, <2>1, <2>2, <2>3 DEF Purge
<1>5. CASE ReadFreed(t)
  BY <1>1, <1>5, FreedMeansDisturbed DEF ReadFreed, walkVars
<1> QED
  BY <1>2, <1>3, <1>4, <1>5 DEF Step

\* Nobody changes a chain between the halves of an insertion.
LEMMA PreparedStep ==
  ASSUME TableInv, NEW t \in Threads, Step(t)
  PROVE  Prepared'
<1>1. /\ pc \in [Threads -> Labels] /\ next \in [Nodes -> Nodes \cup {None}]
      /\ Labelled /\ Prepared /\ Owned /\ Locked /\ None \notin Threads
  BY TableNames DEF TableInv, TypeOK
<1> SUFFICES ASSUME NEW r \in Registrations, pc'[r] = "publish"
             PROVE  next'[node'[r]] = first'[Chain(r)]
  BY DEF Prepared, Chain
<1> USE DEF Goto, Threads
<1>2. CASE pc[r] # "publish"
  <2>1. t = r /\ Link(t)
    BY <1>1, <1>2 DEF Labelled, Step, Register, Alloc, AllocFails, Refuse, Search, SearchDone,
       InsertLock, Link, Publish, InsertUnlock, Notification, CountBegin, Count, CountDone,
       NotifyLock, Notify, NotifyUnlock, Poll, Purge, PurgeLock, PurgeKeep, PurgeGone, Unlink,
       Clear, Free, PurgeUnlock, ReadFreed, Begin
  <2>2. node[r] \in Nodes
    BY <1>1, <2>1 DEF Link, Owned
  <2> QED
    BY <1>1, <2>1, <2>2 DEF Link
<1>3. CASE pc[r] = "publish"
  <2>1. next[node[r]] = first[Chain(r)] /\ node[r] \in Nodes /\ heap[node[r]] = r /\ writer = r
    BY <1>1, <1>3 DEF Prepared, Owned, Locked, WriteLabels
  <2>2. t # r
    BY <1>1, <1>3 DEF Labelled, Step, Register, Alloc, AllocFails, Refuse, Search, SearchDone,
       InsertLock, Link, Publish, InsertUnlock, Notification, CountBegin, Count, CountDone,
       NotifyLock, Notify, NotifyUnlock, Poll, Purge, PurgeLock, PurgeKeep, PurgeGone, Unlink,
       Clear, Free, PurgeUnlock, ReadFreed, Begin, AtNode, AtEnd
  <2>3. pc[t] \notin WriteLabels
    BY <1>1, <2>1, <2>2 DEF Locked
  <2>4. /\ node'[r] = node[r] /\ first' = first
        /\ \A n \in Nodes : next'[n] = next[n] \/ heap[n] = None
    BY <1>1, <2>2, <2>3 DEF TableInv, TypeOK, WriteLabels, Step, Register, Alloc, AllocFails, Refuse,
       Search, SearchDone, InsertLock, Link, Publish, InsertUnlock, Notification, CountBegin, Count,
       CountDone, NotifyLock, Notify, NotifyUnlock, Poll, Purge, PurgeLock, PurgeKeep, PurgeGone,
       Unlink, Clear, Free, PurgeUnlock, ReadFreed, Begin, AtNode, AtEnd, links
  <2> QED
    BY <1>1, <2>1, <2>4, TableNames
<1> QED
  BY <1>2, <1>3

-----------------------------------------------------------------------------
(* Who owns the nodes.                                                     *)

\* A quiet step moves one thread, between labels that say the same of its node.
LEMMA QuietMoves ==
  ASSUME TableInv, NEW t \in Threads, QuietStep(t)
  PROVE  /\ UNCHANGED <<heap, links, node, members>>
         /\ pc[t] \notin {"clear", "free", "unlink", "link", "publish", "inserted"}
         /\ pc'[t] \notin {"clear", "free", "publish", "new"}
         /\ \A u \in Threads \ {t} : pc'[u] = pc[u] /\ pos'[u] = pos[u] /\ tmp'[u] = tmp[u]
                                     /\ left'[u] = left[u] /\ (u \in disturbed' <=> u \in disturbed)
         /\ writer \notin {None, t} => writer' = writer
         /\ t \in Registrations =>
              /\ pc[t] = "new" <=> pc'[t] = "nomem"
              /\ pc[t] = "wrunlock" <=> pc'[t] = "inserted"
              /\ pc'[t] # "wrunlock"
              /\ pc'[t] \in {"search", "wrlock", "link", "refused"} =>
                   pc[t] \in {"search", "wrlock"}
<1>1. /\ pc \in [Threads -> Labels] /\ pos \in [Threads -> Nodes \cup {None}]
      /\ tmp \in [Threads -> Nodes \cup {None}] /\ left \in [Threads -> SUBSET Nodes]
      /\ Labelled
  BY DEF TableInv, TypeOK
<1> USE DEF Goto, Labelled
<1>2. CASE t \in Registrations /\ (AllocFails(t) \/ Refuse(t) \/ SearchDone(t) \/ InsertLock(t))
  BY <1>1, <1>2, TableNames DEF AllocFails, Refuse, SearchDone, InsertLock, AtNode, AtEnd, walkVars, lockVars
<1>3. CASE t \in Registrations /\ (Search(t) \/ InsertUnlock(t))
  BY <1>1, <1>3, TableNames DEF Search, InsertUnlock, AtNode, Advance, Unlock, walkVars, lockVars
<1>4. CASE t \in Sends /\ (CountBegin(t) \/ CountDone(t) \/ NotifyLock(t) \/ Poll(t))
  BY <1>1, <1>4, TableNames DEF CountBegin, CountDone, NotifyLock, Poll, Begin, AtEnd, walkVars, lockVars
<1>5. CASE t \in Sends /\ (Count(t) \/ Notify(t) \/ NotifyUnlock(t))
  BY <1>1, <1>5, TableNames DEF Count, Notify, NotifyUnlock, AtNode, AtEnd, Advance, Unlock, walkVars, lockVars
<1>6. CASE t \in Sends /\ (PurgeLock(t) \/ PurgeKeep(t))
  BY <1>1, <1>6, TableNames DEF PurgeLock, PurgeKeep, Begin, AtNode, Advance, lockVars
<1>7. CASE t \in Sends /\ (PurgeGone(t) \/ PurgeUnlock(t))
  BY <1>1, <1>7, TableNames DEF PurgeGone, PurgeUnlock, AtNode, AtEnd, Unlock, walkVars, lockVars
<1>8. CASE ReadFreed(t)
  BY <1>1, <1>8, FreedMeansDisturbed DEF ReadFreed, walkVars, lockVars
<1> QED
  BY <1>2, <1>3, <1>4, <1>5, <1>6, <1>7, <1>8 DEF QuietStep, Notification

LEMMA OwnedStep ==
  ASSUME TableInv, NEW t \in Threads, Step(t)
  PROVE  Owned'
<1>1. /\ pc \in [Threads -> Labels] /\ heap \in [Nodes -> Registrations \cup {None}]
      /\ node \in [Registrations -> Nodes \cup {None}] /\ members \subseteq Nodes
      /\ pos \in [Threads -> Nodes \cup {None}]
      /\ Labelled /\ Owned /\ Locked /\ None \notin Threads \cup Nodes
      /\ Registrations \cap Sends = {} /\ Registrations \subseteq Threads /\ Sends \subseteq Threads
  BY TableNames DEF TableInv, TypeOK, Threads
<1> USE DEF Goto
<1>2. CASE QuietStep(t)
  <2>1. heap' = heap /\ node' = node /\ members' = members
    BY <1>2, QuietMoves
  <2>2. ASSUME NEW n \in Nodes, heap[n] # None
        PROVE  /\ node[heap[n]] = n /\ pc'[heap[n]] \notin {"new", "nomem"}
               /\ \/ n \in members
                  \/ pc'[heap[n]] \notin {"wrunlock", "inserted"}
                  \/ writer' \in Sends /\ pos'[writer'] = n /\ pc'[writer'] \in {"clear", "free"}
    <3>1. heap[n] \in Registrations
      BY <1>1, <2>2
    <3>2. CASE writer \in Sends /\ pos[writer] = n /\ pc[writer] \in {"clear", "free"}
      <4>1. writer # t /\ writer # None
        BY <1>1, <1>2, <3>2, QuietMoves
      <4> QED
        BY <1>1, <1>2, <2>2, <3>1, <3>2, <4>1, QuietMoves DEF Owned
    <3> QED
      BY <1>1, <1>2, <2>2, <3>1, <3>2, QuietMoves DEF Owned
  <2>3. ASSUME NEW n \in members PROVE heap[n] # None /\ pc'[heap[n]] \in {"wrunlock", "inserted"}
    <3>1. heap[n] \in Registrations
      BY <1>1, <2>3 DEF Owned
    <3> QED
      BY <1>1, <1>2, <2>3, <3>1, QuietMoves DEF Owned
  <2>4. ASSUME NEW r \in Registrations, pc'[r] \in {"search", "wrlock", "link", "publish", "refused"}
        PROVE  node[r] \in Nodes /\ heap[node[r]] = r
    BY <1>1, <1>2, <2>4, QuietMoves DEF Owned
  <2>5. ASSUME NEW s \in Sends, pc'[s] \in {"clear", "free"}
        PROVE  /\ pos'[s] \in Nodes \ members /\ heap[pos'[s]] # None
               /\ pc'[heap[pos'[s]]] \in {"wrunlock", "inserted"}
    <3>1. s # t /\ pos'[s] = pos[s] /\ pc[s] \in {"clear", "free"}
      BY <1>1, <1>2, <2>5, QuietMoves
    <3>2. heap[pos[s]] \in Registrations /\ pc[heap[pos[s]]] \in {"wrunlock", "inserted"}
      BY <1>1, <3>1 DEF Owned
    <3> QED
      BY <1>1, <1>2, <3>1, <3>2, QuietMoves DEF Owned
  <2> QED
    BY <2>1, <2>2, <2>3, <2>4, <2>5 DEF Owned
<1>3. CASE t \in Registrations /\ Alloc(t)
  <2>1. PICK n \in Nodes : /\ heap[n] = None
                           /\ heap' = [heap EXCEPT ![n] = t]
                           /\ node' = [node EXCEPT ![t] = n]
    BY <1>3 DEF Alloc
  <2>2. /\ pc[t] = "new" /\ pc' = [pc EXCEPT ![t] = "search"]
        /\ members' = members /\ writer' = writer
        /\ \A u \in Threads \ {t} : pos'[u] = pos[u]
    BY <1>1, <1>3 DEF Alloc, Begin, lockVars
  <2>3. \A m \in Nodes \ {n} : heap[m] # None => heap[m] # t
    BY <1>1, <2>2 DEF Owned
  <2>4. n \notin members
    BY <2>1 DEF TableInv, Owned
  <2> QED
    BY <1>1, <1>3, <2>1, <2>2, <2>3, <2>4 DEF Owned
<1>4. CASE t \in Registrations /\ Link(t)
  BY <1>1, <1>4 DEF Owned, Link, lockVars, walkVars
<1>5. CASE t \in Registrations /\ Publish(t)
  BY <1>1, <1>5 DEF Owned, Publish, lockVars, walkVars
<1>6. CASE t \in Sends /\ Unlink(t)
  <2>1. /\ t \in Sends /\ writer = t /\ pos[t] \in members
        /\ pc' = [pc EXCEPT ![t] = "clear"] /\ members' = members \ {pos[t]}
        /\ UNCHANGED <<heap, node, pos, writer>>
    BY <1>6, UnlinkIsInChain DEF Unlink, lockVars
  <2>2. \A u \in Sends \ {t} : pc[u] \notin {"clear", "free"}
    BY <1>1, <2>1 DEF Locked, WriteLabels
  <2> QED
    BY <1>1, <2>1, <2>2 DEF Owned
<1>7. CASE t \in Sends /\ Clear(t)
  BY <1>1, <1>7 DEF Owned, Clear, lockVars, walkVars
<1>8. CASE t \in Sends /\ Free(t)
  <2>1. /\ pc[t] = "free" /\ writer = t
        /\ heap' = [heap EXCEPT ![pos[t]] = None]
        /\ pc' = [pc EXCEPT ![t] = "purge"] /\ UNCHANGED <<node, members, writer>>
    BY <1>1, <1>8 DEF Free, lockVars, Locked, WriteLabels
  <2>2. \A u \in Sends \ {t} : pc[u] \notin {"clear", "free"}
    BY <1>1, <2>1 DEF Locked, WriteLabels
  <2> QED
    BY <1>1, <1>8, <2>1, <2>2 DEF Owned
<1> QED
  BY <1>2, <1>3, <1>4, <1>5, <1>6, <1>7, <1>8 DEF Step, Register, Purge, QuietStep

-----------------------------------------------------------------------------
(* The chains: steps that leave them as they are.                          *)

\* A walk that begins has the whole chain before it.
LEMMA ReachesFirst ==
  ASSUME NEW b, NEW s, Enumerates(b, s), Linked(b, s)
  PROVE  Reaches(s, first[b], InChain(b))
<1>1. PICK k \in Nat : s \in [1 .. k -> InChain(b)]
  BY DEF Enumerates
<1>2. InChain(b) = Rest(s, 1)
  BY <1>1 DEF Enumerates, Rest
<1>3. first[b] = At(s, 1)
  BY DEF Linked
<1> QED
  BY <1>2, <1>3 DEF Reaches

\* One that goes on leaves the node it was at behind.
LEMMA ReachesNext ==
  ASSUME NEW b, NEW s, Enumerates(b, s), Linked(b, s), NEW n, NEW rest,
         Reaches(s, n, rest), n # None
  PROVE  Reaches(s, next[n], rest \ {n})
<1>1. PICK k \in Nat : s \in [1 .. k -> InChain(b)]
  BY DEF Enumerates
<1>2. PICK i \in Nat \ {0} : n = At(s, i) /\ rest = Rest(s, i)
  BY DEF Reaches
<1>3. i \in 1 .. k /\ n = s[i] /\ next[n] = At(s, i + 1)
  BY <1>1, <1>2 DEF At, Linked
<1>4. \A j \in 1 .. k : s[j] = s[i] => j = i
  BY <1>1, <1>3 DEF Enumerates
<1>5. Rest(s, i) \ {s[i]} = Rest(s, i + 1)
  BY <1>1, <1>3, <1>4 DEF Rest
<1> QED
  BY <1>2, <1>3, <1>5 DEF Reaches

\* One that is at its end has nothing before it.
LEMMA ReachesEnd ==
  ASSUME NEW b, NEW s, Enumerates(b, s), NEW rest, Reaches(s, None, rest),
         None \notin InChain(b)
  PROVE  rest = {}
<1>1. PICK k \in Nat : s \in [1 .. k -> InChain(b)]
  BY DEF Enumerates
<1>2. PICK i \in Nat \ {0} : None = At(s, i) /\ rest = Rest(s, i)
  BY DEF Reaches
<1>3. i \notin 1 .. k
  BY <1>1, <1>2 DEF At
<1> QED
  BY <1>1, <1>2, <1>3 DEF Rest

\* What a chain is made of is left as it is.
SameChain(b) ==
  /\ InChain(b)' = InChain(b) /\ first'[b] = first[b]
  /\ \A n \in InChain(b) : next'[n] = next[n] /\ pprev'[n] = pprev[n]
  /\ \A r \in Registrations :
       /\ Chain(r) = b => (pc'[r] = "publish" <=> pc[r] = "publish")
       /\ pc[r] = "publish" => node'[r] = node[r]

\* A thread walks on as before.
SameWalk(u) ==
  /\ pc'[u] = pc[u] /\ pos'[u] = pos[u] /\ tmp'[u] = tmp[u] /\ left'[u] = left[u]
  /\ u \in disturbed => u \in disturbed'

LEMMA LinksKept ==
  ASSUME NEW b, NEW s, Enumerates(b, s), Linked(b, s), LinkedBack(b, s), SameChain(b)
  PROVE  Enumerates(b, s)' /\ Linked(b, s)' /\ LinkedBack(b, s)'
<1>1. PICK k \in Nat : s \in [1 .. k -> InChain(b)]
  BY DEF Enumerates
<1>2. \A i \in DOMAIN s : s[i] \in InChain(b)
  BY <1>1
<1>3. Enumerates(b, s)'
  BY <1>1 DEF Enumerates, SameChain
<1>4. Linked(b, s)'
  BY <1>2 DEF Linked, SameChain, At
<1>5. LinkedBack(b, s)'
  <2>1. ASSUME NEW i \in DOMAIN s, i > 1 PROVE pprev'[s[i]] = s[i - 1]
    BY <1>2, <2>1 DEF LinkedBack, SameChain
  <2>2. ASSUME 1 \in DOMAIN s, NEW r \in Registrations, pc'[r] = "publish", Chain(r) = b
        PROVE  pprev'[s[1]] = node'[r]
    BY <1>2, <2>2 DEF LinkedBack, SameChain
  <2>3. ASSUME 1 \in DOMAIN s, \A r \in Registrations : ~(pc'[r] = "publish" /\ Chain(r) = b)
        PROVE  pprev'[s[1]] = b
    BY <1>2, <2>3 DEF LinkedBack, SameChain
  <2> QED
    BY <2>1, <2>2, <2>3 DEF LinkedBack, Chain
<1> QED
  BY <1>3, <1>4, <1>5

LEMMA WalksKept ==
  ASSUME NEW u, NEW s, Walks(u, s), SameWalk(u),
         pc[u] = "unlink" => next'[pos[u]] = next[pos[u]]
  PROVE  Walks(u, s)'
<1>1. pc'[u] = pc[u] /\ (u \notin disturbed' => u \notin disturbed)
  BY DEF SameWalk
<1> QED
  BY <1>1 DEF Walks, SameWalk, Reaches, At, Rest

\* A step of one thread that leaves a chain as it is.
LEMMA ChainKept ==
  ASSUME TableInv, NEW t \in Threads, NEW b \in Buckets, SameChain(b),
         \A u \in Threads \ {t} : SameWalk(u),
         \A s : Chained(b, s) /\ Chain(t) = b => Walks(t, s)'
  PROVE  \E s : Chained(b, s)'
<1>1. PICK s : Chained(b, s)
  BY DEF TableInv, Chains
<1>2. Enumerates(b, s)' /\ Linked(b, s)' /\ LinkedBack(b, s)'
  BY <1>1, LinksKept DEF Chained
<1>3. ASSUME NEW u \in Threads, Chain(u) = b PROVE Walks(u, s)'
  <2>1. pc[u] = "unlink" => next'[pos[u]] = next[pos[u]]
    BY <1>3, UnlinkIsInChain DEF SameChain
  <2> QED
    BY <1>1, <1>3, <2>1, WalksKept DEF Chained
<1>4. Chained(b, s)'
  BY <1>2, <1>3 DEF Chained, Chain
<1> QED
  BY <1>4

\* One that leaves all of them.
LEMMA ChainsKept ==
  ASSUME TableInv, NEW t \in Threads,
         \A b \in Buckets : SameChain(b),
         \A u \in Threads \ {t} : SameWalk(u),
         \A s : Chained(Chain(t), s) => Walks(t, s)'
  PROVE  Chains'
<1> SUFFICES ASSUME NEW b \in Buckets PROVE \E s : Chained(b, s)'
  BY DEF Chains, Buckets, Chain
<1> QED
  BY ChainKept

\* A thread that begins, goes on or stops walks as the chain leads.
LEMMA BeginWalks ==
  ASSUME TableInv, NEW t \in Threads, NEW l \in {"search", "count", "notify", "purge"},
         Begin(t, l), NEW s, Chained(Chain(t), s)
  PROVE  Walks(t, s)'
<1>1. Reaches(s, first[Chain(t)], InChain(Chain(t)))
  BY ReachesFirst DEF Chained
<1>2. pos'[t] = first[Chain(t)] /\ left'[t] = InChain(Chain(t)) /\ pc'[t] = l
  BY DEF Begin, Goto, TableInv, TypeOK
<1> QED
  BY <1>1, <1>2 DEF Walks, Reaches, At, Rest

LEMMA AdvanceWalks ==
  ASSUME TableInv, NEW t \in Threads, pc[t] \in {"search", "count", "notify", "purge"},
         pos[t] # None, Advance(t, next[pos[t]]), UNCHANGED pc,
         NEW s, Chained(Chain(t), s)
  PROVE  Walks(t, s)'
<1>1. pos'[t] = next[pos[t]] /\ left'[t] = left[t] \ {pos[t]} /\ disturbed' = disturbed
  BY DEF Advance, TableInv, TypeOK
<1>2. ASSUME t \notin disturbed PROVE Reaches(s, pos'[t], left'[t])
  <2>1. Reaches(s, pos[t], left[t])
    BY <1>2 DEF Chained, Walks, WalkLabels
  <2> QED
    BY <1>1, <2>1, ReachesNext DEF Chained
<1> QED
  BY <1>1, <1>2 DEF Walks, Reaches, At, Rest

LEMMA QuietWalks ==
  ASSUME TableInv, NEW t \in Threads, QuietStep(t), NEW s, Chained(Chain(t), s)
  PROVE  Walks(t, s)'
<1>1. pc \in [Threads -> Labels] /\ tmp \in [Threads -> Nodes \cup {None}]
  BY DEF TableInv, TypeOK
<1>2. CASE \E l \in {"search", "count", "notify", "purge"} : Begin(t, l)
  BY <1>2, BeginWalks
<1>3. CASE /\ pc[t] \in {"search", "count", "notify", "purge"} /\ pos[t] # None
           /\ Advance(t, next[pos[t]]) /\ UNCHANGED pc
  BY <1>3, AdvanceWalks
<1>4. CASE pc'[t] \notin WalkLabels \cup {"clear", "free"}
  BY <1>4 DEF Walks, WalkLabels
<1>5. CASE t \in Sends /\ PurgeGone(t)
  <2>1. /\ pc[t] = "purge" /\ pc'[t] = "unlink" /\ pos[t] # None
        /\ tmp'[t] = next[pos[t]] /\ UNCHANGED <<pos, left, disturbed, next>>
    BY <1>1, <1>5 DEF PurgeGone, AtNode, Goto, links
  <2>2. t \notin disturbed
    BY <2>1 DEF TableInv, Raced
  <2>3. Reaches(s, pos[t], left[t])
    BY <2>1, <2>2 DEF Chained, Walks, WalkLabels
  <2> QED
    BY <2>1, <2>3 DEF Walks, Reaches, At, Rest
<1>6. CASE t \in Registrations /\ Search(t)
  BY <1>3, <1>6 DEF Search, AtNode
<1>7. CASE t \in Sends /\ (Count(t) \/ Notify(t) \/ PurgeKeep(t))
  BY <1>3, <1>7 DEF Count, Notify, PurgeKeep, AtNode
<1>8. CASE t \in Sends /\ (CountBegin(t) \/ NotifyLock(t) \/ PurgeLock(t))
  BY <1>2, <1>8 DEF CountBegin, NotifyLock, PurgeLock
<1>9. CASE \/ t \in Registrations /\ (AllocFails(t) \/ Refuse(t) \/ SearchDone(t)
                                     \/ InsertLock(t) \/ InsertUnlock(t))
           \/ t \in Sends /\ (CountDone(t) \/ NotifyUnlock(t) \/ Poll(t) \/ PurgeUnlock(t))
           \/ ReadFreed(t)
  BY <1>1, <1>4, <1>9 DEF AllocFails, Refuse, SearchDone, InsertLock, InsertUnlock, CountDone,
     NotifyUnlock, Poll, PurgeUnlock, ReadFreed, Goto, WalkLabels
<1> QED
  BY <1>5, <1>6, <1>7, <1>8, <1>9 DEF QuietStep, Notification

LEMMA QuietChains ==
  ASSUME TableInv, NEW t \in Threads, QuietStep(t)
  PROVE  Chains'
<1>1. \A b \in Buckets : SameChain(b)
  <2>1. \A r \in Registrations : pc'[r] = "publish" <=> pc[r] = "publish"
    BY QuietMoves DEF Threads
  <2> QED
    BY <2>1, QuietMoves DEF SameChain, InChain, links, Chain
<1>2. \A u \in Threads \ {t} : SameWalk(u)
  BY QuietMoves DEF SameWalk
<1> QED
  BY <1>1, <1>2, QuietWalks, ChainsKept

\* The node that malloc returns is in no chain.
LEMMA AllocChains ==
  ASSUME TableInv, NEW t \in Registrations, Alloc(t)
  PROVE  Chains'
<1>1. PICK n \in Nodes :
        /\ heap[n] = None /\ heap' = [heap EXCEPT ![n] = t]
        /\ next' = [next EXCEPT ![n] = None] /\ pprev' = [pprev EXCEPT ![n] = None]
        /\ node' = [node EXCEPT ![t] = n]
  BY DEF Alloc
<1>2. /\ pc[t] = "new" /\ Begin(t, "search") /\ UNCHANGED <<first, members>>
  BY DEF Alloc
<1>3. TypeOK /\ t \in Threads
  BY DEF TableInv, Threads
<1>4. n \notin members /\ \A m \in members : m \in Nodes
  BY <1>1, <1>3 DEF TableInv, Owned, TypeOK
<1>5. \A m \in members : heap'[m] = heap[m] /\ next'[m] = next[m] /\ pprev'[m] = pprev[m]
  BY <1>1, <1>3, <1>4 DEF TypeOK
<1>6. \A u \in Threads \ {t} : SameWalk(u)
  BY <1>2, <1>3 DEF Begin, Goto, SameWalk, TypeOK
<1>7. \A b \in Buckets : SameChain(b)
  <2>1. ASSUME NEW r \in Registrations
        PROVE  (pc'[r] = "publish" <=> pc[r] = "publish")
               /\ (pc[r] = "publish" => node'[r] = node[r])
    BY <1>1, <1>2, <1>3 DEF Begin, Goto, TypeOK, Threads
  <2> QED
    BY <1>2, <1>5, <2>1 DEF SameChain, InChain, Chain
<1> QED
  BY <1>2, <1>3, <1>6, <1>7, BeginWalks, ChainsKept

\* The node that a purge clears and frees is in no chain any more.
LEMMA ClearChains ==
  ASSUME TableInv, NEW t \in Sends, Clear(t)
  PROVE  Chains'
<1>1. /\ pc[t] = "clear" /\ pc' = [pc EXCEPT ![t] = "free"]
      /\ next' = [next EXCEPT ![pos[t]] = None] /\ pprev' = [pprev EXCEPT ![pos[t]] = None]
      /\ UNCHANGED <<heap, first, members, node, walkVars>>
  BY DEF Clear, Goto
<1>2. TypeOK /\ t \in Threads /\ pos[t] \notin members
  BY <1>1 DEF TableInv, Threads, Owned
<1>3. \A b \in Buckets : SameChain(b)
  <2>1. \A r \in Registrations : pc'[r] = "publish" <=> pc[r] = "publish"
    BY <1>1, <1>2 DEF TypeOK, Threads
  <2>2. \A m \in members : next'[m] = next[m] /\ pprev'[m] = pprev[m]
    BY <1>1, <1>2 DEF TypeOK
  <2> QED
    BY <1>1, <2>1, <2>2 DEF SameChain, InChain, Chain
<1>4. \A u \in Threads \ {t} : SameWalk(u)
  BY <1>1, <1>2 DEF SameWalk, walkVars, TypeOK
<1>5. ASSUME NEW s, Chained(Chain(t), s) PROVE Walks(t, s)'
  <2>1. Reaches(s, tmp[t], left[t] \ {pos[t]})
    BY <1>1, <1>2, <1>5 DEF Chained, Walks
  <2>2. pc'[t] = "free"
    BY <1>1, <1>2 DEF TypeOK
  <2> QED
    BY <1>1, <2>1, <2>2 DEF Walks, WalkLabels, walkVars, Reaches, At, Rest
<1> QED
  BY <1>2, <1>3, <1>4, <1>5, ChainsKept

LEMMA FreeChains ==
  ASSUME TableInv, NEW t \in Sends, Free(t)
  PROVE  Chains'
<1>1. /\ pc[t] = "free" /\ pc' = [pc EXCEPT ![t] = "purge"]
      /\ heap' = [heap EXCEPT ![pos[t]] = None]
      /\ Advance(t, tmp[t]) /\ UNCHANGED <<links, members, node>>
  BY DEF Free, Goto
<1>2. TypeOK /\ t \in Threads /\ pos[t] \notin members
  BY <1>1 DEF TableInv, Threads, Owned
<1>3. \A b \in Buckets : SameChain(b)
  <2>1. \A r \in Registrations : pc'[r] = "publish" <=> pc[r] = "publish"
    BY <1>1, <1>2 DEF TypeOK, Threads
  <2>2. \A m \in members : heap'[m] = heap[m]
    BY <1>1, <1>2 DEF TypeOK
  <2> QED
    BY <1>1, <2>1, <2>2 DEF SameChain, InChain, Chain, links
<1>4. \A u \in Threads \ {t} : SameWalk(u)
  BY <1>1, <1>2 DEF SameWalk, Advance, TypeOK
<1>5. ASSUME NEW s, Chained(Chain(t), s) PROVE Walks(t, s)'
  <2>1. Reaches(s, tmp[t], left[t] \ {pos[t]})
    BY <1>1, <1>2, <1>5 DEF Chained, Walks
  <2>2. pc'[t] = "purge" /\ pos'[t] = tmp[t] /\ left'[t] = left[t] \ {pos[t]}
    BY <1>1, <1>2 DEF TypeOK, Advance
  <2> QED
    BY <2>1, <2>2 DEF Walks, Reaches, At, Rest
<1> QED
  BY <1>2, <1>3, <1>4, <1>5, ChainsKept

-----------------------------------------------------------------------------
(* The chains: insertion and removal.                                      *)

\* The first half of an insertion turns the first node back to the new one.
LEMMA LinkChains ==
  ASSUME TableInv, NEW t \in Registrations, Link(t)
  PROVE  Chains'
<1> DEFINE n == node[t]
           c == Chain(t)
           f == first[c]
<1>1. /\ pc[t] = "link" /\ pc' = [pc EXCEPT ![t] = "publish"]
      /\ next' = [next EXCEPT ![n] = f]
      /\ pprev' = IF f = None THEN pprev ELSE [pprev EXCEPT ![f] = n]
      /\ UNCHANGED <<heap, first, lockVars, walkVars, node, members>>
  BY DEF Link, Goto
<1>2. TypeOK /\ t \in Threads /\ c \in Buckets
  BY DEF TableInv, Threads, Chain, Buckets
<1>3. n \notin members /\ writer = t
  BY <1>1, <1>2 DEF TableInv, Owned, Locked, WriteLabels
<1>4. \A r \in Registrations : pc[r] # "publish" /\ (pc'[r] = "publish" <=> r = t)
  BY <1>1, <1>2, <1>3 DEF TableInv, TypeOK, Locked, WriteLabels, Threads
<1>5. \A u \in Threads \ {t} : SameWalk(u)
  BY <1>1, <1>2 DEF SameWalk, walkVars, TypeOK
<1>6. \A m \in members : next'[m] = next[m] /\ (m # f => pprev'[m] = pprev[m])
  BY <1>1, <1>2, <1>3 DEF TypeOK
<1>7. \A b : InChain(b)' = InChain(b)
  BY <1>1 DEF InChain, Chain
<1> HIDE DEF n, c, f
<1> SUFFICES ASSUME NEW b \in Buckets PROVE \E s : Chained(b, s)'
  BY DEF Chains, Buckets, Chain
<1>8. CASE b # c
  <2>1. f # None => f \in InChain(c)
    <3>1. PICK s : Chained(c, s)
      BY <1>2 DEF TableInv, Chains
    <3> QED
      BY <3>1 DEF f, Chained, Linked, At, Enumerates
  <2>2. f \notin InChain(b)
    BY <1>2, <1>8, <2>1, TableNames DEF InChain, TypeOK, TableInv
  <2>3. \A m \in InChain(b) : next'[m] = next[m] /\ pprev'[m] = pprev[m]
    BY <1>6, <2>2 DEF InChain
  <2>4. SameChain(b)
    BY <1>1, <1>4, <1>7, <1>8, <2>3 DEF SameChain, c
  <2> QED
    BY <1>2, <1>5, <1>8, <2>4, ChainKept DEF c
<1>9. CASE b = c
  <2>1. PICK s : Chained(b, s)
    BY DEF TableInv, Chains
  <2>2. PICK k \in Nat : s \in [1 .. k -> InChain(b)]
    BY <2>1 DEF Chained, Enumerates
  <2>3. \A i \in 1 .. k : s[i] \in members /\ s[i] # None /\ s[i] \in Nodes
    BY <1>2, <2>2, TableNames DEF InChain, TypeOK
  <2>4. Enumerates(b, s)'
    BY <1>7, <2>1 DEF Chained, Enumerates
  <2>5. Linked(b, s)'
    BY <1>1, <1>6, <2>1, <2>2, <2>3 DEF Chained, Linked, At
  <2>6. LinkedBack(b, s)'
    <3>1. f = At(s, 1)
      BY <1>9, <2>1 DEF f, Chained, Linked
    <3>2. ASSUME NEW i \in 1 .. k, i > 1 PROVE pprev'[s[i]] = s[i - 1]
      <4>1. 1 \in 1 .. k /\ s[i] # s[1]
        BY <2>1, <2>2, <3>2 DEF Chained, Enumerates
      <4>2. f = s[1]
        BY <2>2, <3>1, <4>1 DEF At
      <4> QED
        BY <1>6, <2>1, <2>2, <2>3, <3>2, <4>1, <4>2 DEF Chained, LinkedBack
    <3>3. 1 \in 1 .. k => pprev'[s[1]] = n
      BY <1>1, <1>2, <2>2, <2>3, <3>1 DEF At, TypeOK
    <3>4. node' = node
      BY <1>1
    <3> QED
      BY <1>4, <1>9, <2>2, <3>2, <3>3, <3>4 DEF LinkedBack, n, c, Chain
  <2>7. ASSUME NEW u \in Threads, Chain(u) = b PROVE Walks(u, s)'
    <3>1. CASE u = t
      BY <1>1, <1>2, <3>1 DEF Walks, WalkLabels, TypeOK
    <3>2. CASE u # t
      <4>1. pc[u] # "unlink"
        BY <1>3, <3>2, UnlinkIsInChain
      <4> QED
        BY <1>5, <2>1, <2>7, <3>2, <4>1, WalksKept DEF Chained
    <3> QED
      BY <3>1, <3>2
  <2>8. Chained(b, s)'
    BY <2>4, <2>5, <2>6, <2>7 DEF Chained, Chain
  <2> QED
    BY <2>8
<1> QED
  BY <1>8, <1>9

\* A node in front of a chain moves all others one place on.
LEMMA ReachesBehind ==
  ASSUME NEW k \in Nat, NEW s, DOMAIN s = 1 .. k, NEW z, DOMAIN z = 1 .. k + 1,
         \A i \in 1 .. k : z[i + 1] = s[i], NEW n, NEW rest, Reaches(s, n, rest)
  PROVE  Reaches(z, n, rest)
<1>1. PICK i \in Nat \ {0} : n = At(s, i) /\ rest = Rest(s, i)
  BY DEF Reaches
<1>2. n = At(z, i + 1)
  BY <1>1 DEF At
<1>3. Rest(s, i) = Rest(z, i + 1)
  <2>1. ASSUME NEW j \in 1 .. k, i <= j PROVE s[j] \in Rest(z, i + 1)
    <3>1. j + 1 \in 1 .. k + 1 /\ i + 1 <= j + 1 /\ z[j + 1] = s[j]
      BY <2>1
    <3> QED
      BY <3>1 DEF Rest
  <2>2. ASSUME NEW j \in 1 .. k + 1, i + 1 <= j PROVE z[j] \in Rest(s, i)
    <3>1. j - 1 \in 1 .. k /\ i <= j - 1 /\ z[(j - 1) + 1] = s[j - 1] /\ (j - 1) + 1 = j
      BY <2>2
    <3> QED
      BY <3>1 DEF Rest
  <2> QED
    BY <2>1, <2>2 DEF Rest
<1>4. i + 1 \in Nat \ {0}
  OBVIOUS
<1> QED
  BY <1>1, <1>2, <1>3, <1>4 DEF Reaches

\* The second half of an insertion puts the node in front of its chain.
LEMMA PublishChains ==
  ASSUME TableInv, NEW t \in Registrations, Publish(t)
  PROVE  Chains'
<1> DEFINE n == node[t]
           c == Chain(t)
<1>1. /\ pc[t] = "publish" /\ pc' = [pc EXCEPT ![t] = "wrunlock"]
      /\ first' = [first EXCEPT ![c] = n]
      /\ pprev' = [pprev EXCEPT ![n] = c]
      /\ members' = members \cup {n}
      /\ UNCHANGED <<heap, next, lockVars, walkVars, node>>
  BY DEF Publish, Goto
<1>2. TypeOK /\ t \in Threads /\ c \in Buckets
  BY DEF TableInv, Threads, Chain, Buckets
<1>3. n \in Nodes /\ n \notin members /\ heap[n] = t /\ next[n] = first[c]
  BY <1>1 DEF TableInv, Owned, Prepared
<1>4. writer = t
  BY <1>1, <1>2 DEF TableInv, Locked, WriteLabels
<1>5. \A r \in Registrations : pc'[r] # "publish" /\ (pc[r] = "publish" <=> r = t)
  BY <1>1, <1>2, <1>4 DEF TableInv, TypeOK, Locked, WriteLabels, Threads
<1>6. \A u \in Threads \ {t} : SameWalk(u)
  BY <1>1, <1>2 DEF SameWalk, walkVars, TypeOK
<1>7. \A m \in members : next'[m] = next[m] /\ pprev'[m] = pprev[m]
  BY <1>1, <1>2, <1>3 DEF TypeOK
<1>8. \A b : InChain(b)' = IF b = c THEN InChain(c) \cup {n} ELSE InChain(b)
  BY <1>1, <1>3 DEF InChain, Chain, c
<1> HIDE DEF n, c
<1> SUFFICES ASSUME NEW b \in Buckets PROVE \E s : Chained(b, s)'
  BY DEF Chains, Buckets, Chain
<1>9. CASE b # c
  <2>1. first'[b] = first[b]
    BY <1>1, <1>2, <1>9 DEF TypeOK
  <2>2. SameChain(b)
    BY <1>1, <1>5, <1>7, <1>8, <1>9, <2>1 DEF SameChain, InChain, c
  <2> QED
    BY <1>2, <1>6, <1>9, <2>2, ChainKept DEF c
<1>10. CASE b = c
  <2>1. PICK s : Chained(b, s)
    BY DEF TableInv, Chains
  <2>2. PICK k \in Nat : s \in [1 .. k -> InChain(b)]
    BY <2>1 DEF Chained, Enumerates
  <2>3. \A i \in 1 .. k : s[i] \in members /\ s[i] # n
    BY <1>3, <2>2 DEF InChain
  <2>4. PICK z :
          /\ z \in [1 .. k + 1 -> InChain(b) \cup {n}] /\ z[1] = n
          /\ \A i \in 1 .. k : z[i + 1] = s[i]
    <3> DEFINE new == [i \in 1 .. k + 1 |-> IF i = 1 THEN n ELSE s[i - 1]]
    <3>1. new \in [1 .. k + 1 -> InChain(b) \cup {n}]
      BY <2>2
    <3>2. new[1] = n /\ \A i \in 1 .. k : new[i + 1] = s[i]
      OBVIOUS
    <3> QED
      BY <3>1, <3>2
  <2>5. /\ DOMAIN z = 1 .. k + 1
        /\ \A i \in 1 .. k + 1 : i # 1 => i - 1 \in 1 .. k /\ z[i] = s[i - 1]
    <3>1. ASSUME NEW i \in 1 .. k + 1, i # 1 PROVE i - 1 \in 1 .. k /\ z[i] = s[i - 1]
      <4>1. i - 1 \in 1 .. k /\ (i - 1) + 1 = i
        BY <3>1
      <4> QED
        BY <2>4, <4>1
    <3> QED
      BY <2>4, <3>1
  <2>6. Enumerates(b, z)'
    <3>1. k + 1 \in Nat /\ InChain(b)' = InChain(b) \cup {n}
      BY <1>8, <1>10
    <3>2. \A i, j \in 1 .. k + 1 : z[i] = z[j] => i = j
      <4>1. \A i, j \in 1 .. k : s[i] = s[j] => i = j
        BY <2>1, <2>2 DEF Chained, Enumerates
      <4>2. \A i \in 1 .. k + 1 : i # 1 => z[i] # n
        BY <2>3, <2>5
      <4>3. ASSUME NEW i \in 1 .. k + 1, NEW j \in 1 .. k + 1, i # 1, j # 1, z[i] = z[j]
            PROVE  i = j
        <5>1. i - 1 = j - 1
          BY <2>5, <4>1, <4>3
        <5> QED
          BY <5>1
      <4> QED
        BY <2>4, <4>2, <4>3
    <3>3. ASSUME NEW m \in InChain(b) \cup {n} PROVE \E i \in 1 .. k + 1 : z[i] = m
      <4>1. CASE m = n
        BY <2>4, <2>5, <4>1
      <4>2. CASE m # n
        <5>1. PICK i \in 1 .. k : s[i] = m
          BY <2>1, <2>2, <3>3, <4>2 DEF Chained, Enumerates
        <5> QED
          BY <2>4, <2>5, <5>1
      <4> QED
        BY <4>1, <4>2
    <3> QED
      BY <2>4, <2>5, <3>1, <3>2, <3>3 DEF Enumerates
  <2>7. Linked(b, z)'
    <3>1. first'[b] = n /\ next'[n] = At(s, 1)
      BY <1>1, <1>2, <1>3, <1>10, <2>1 DEF TypeOK, Chained, Linked
    <3>2. ASSUME NEW i \in 1 .. k PROVE next'[z[i + 1]] = At(s, i + 1)
      <4>1. z[i + 1] = s[i] /\ next'[s[i]] = next[s[i]]
        BY <1>7, <2>3, <2>4
      <4>2. next[s[i]] = At(s, i + 1)
        BY <2>1, <2>2 DEF Chained, Linked
      <4> QED
        BY <4>1, <4>2
    <3>3. \A i \in Nat \ {0} : At(z, i + 1) = At(s, i)
      BY <2>2, <2>4, <2>5 DEF At
    <3>4. ASSUME NEW i \in 1 .. k + 1 PROVE next'[z[i]] = At(z, i + 1)
      <4>1. CASE i = 1
        BY <2>4, <2>5, <3>1, <3>3, <4>1
      <4>2. CASE i # 1
        <5>1. i - 1 \in 1 .. k /\ (i - 1) + 1 = i /\ i \in Nat \ {0}
          BY <4>2
        <5> QED
          BY <3>2, <3>3, <5>1
      <4> QED
        BY <4>1, <4>2
    <3> QED
      BY <2>4, <2>5, <3>1, <3>4 DEF Linked, At
  <2>8. LinkedBack(b, z)'
    <3>1. ASSUME NEW i \in 1 .. k + 1, i > 1 PROVE pprev'[z[i]] = z[i - 1]
      <4>1. i - 1 \in 1 .. k /\ z[i] = s[i - 1] /\ z[i] \in members
        BY <2>3, <2>4, <2>5, <3>1
      <4>2. CASE i - 1 = 1
        <5>1. pprev[s[1]] = n
          BY <1>1, <1>10, <2>1, <2>2, <4>1, <4>2 DEF Chained, LinkedBack, n, c
        <5> QED
          BY <1>7, <2>4, <2>5, <4>1, <4>2, <5>1
      <4>3. CASE i - 1 > 1
        <5>1. pprev[s[i - 1]] = s[(i - 1) - 1]
          BY <2>1, <2>2, <4>1, <4>3 DEF Chained, LinkedBack
        <5>2. z[i - 1] = s[(i - 1) - 1]
          BY <2>5, <4>3
        <5> QED
          BY <1>7, <4>1, <5>1, <5>2
      <4> QED
        BY <4>1, <4>2, <4>3
    <3>2. pprev'[z[1]] = b
      BY <1>1, <1>2, <1>3, <1>10, <2>4, <2>5 DEF TypeOK
    <3> QED
      BY <1>5, <2>4, <2>5, <3>1, <3>2 DEF LinkedBack
  <2>9. ASSUME NEW u \in Threads, Chain(u) = b PROVE Walks(u, z)'
    <3>1. CASE u = t
      BY <1>1, <1>2, <3>1 DEF Walks, WalkLabels, TypeOK
    <3>2. CASE u # t
      <4>1. pc[u] # "unlink"
        BY <1>4, <3>2, UnlinkIsInChain
      <4>2. Walks(u, s)
        BY <2>1, <2>9 DEF Chained
      <4>3. \A p, rest : Reaches(s, p, rest) => Reaches(z, p, rest)
        BY <2>2, <2>4, <2>5, ReachesBehind
      <4>4. Walks(u, z)
        BY <4>1, <4>2, <4>3 DEF Walks
      <4> QED
        BY <1>6, <3>2, <4>1, <4>4, WalksKept
    <3> QED
      BY <3>1, <3>2
  <2>10. Chained(b, z)'
    BY <2>6, <2>7, <2>8, <2>9 DEF Chained, Chain
  <2> QED
    BY <2>10
<1> QED
  BY <1>9, <1>10

\* z is s without its place m.
Without(z, s, k, m) ==
  /\ DOMAIN z = 1 .. k - 1
  /\ \A i \in 1 .. k - 1 : z[i] = IF i < m THEN s[i] ELSE s[i + 1]

LEMMA WithoutPlaces ==
  ASSUME NEW k \in Nat, NEW m \in 1 .. k, NEW s, NEW z, DOMAIN s = 1 .. k, Without(z, s, k, m)
  PROVE  /\ \A i \in Nat \ {0} : At(z, i) = IF i < m THEN At(s, i) ELSE At(s, i + 1)
         /\ Rest(z, m) = Rest(s, m + 1)
<1>1. ASSUME NEW i \in Nat \ {0}
      PROVE  At(z, i) = IF i < m THEN At(s, i) ELSE At(s, i + 1)
  BY DEF Without, At
<1>2. ASSUME NEW j \in 1 .. k - 1, m <= j PROVE z[j] \in Rest(s, m + 1)
  <2>1. j + 1 \in 1 .. k /\ m + 1 <= j + 1 /\ z[j] = s[j + 1]
    BY <1>2 DEF Without
  <2> QED
    BY <2>1 DEF Rest
<1>3. ASSUME NEW j \in 1 .. k, m + 1 <= j PROVE s[j] \in Rest(z, m)
  <2>1. j - 1 \in 1 .. k - 1 /\ m <= j - 1 /\ (j - 1) + 1 = j
    BY <1>3
  <2>2. z[j - 1] = s[j]
    BY <2>1 DEF Without
  <2> QED
    BY <2>1, <2>2 DEF Rest, Without
<1>4. Rest(z, m) = Rest(s, m + 1)
  BY <1>2, <1>3 DEF Rest, Without
<1> QED
  BY <1>1, <1>4

\* What a purge does to the chain of the node that it takes out.
LEMMA UnlinkChain ==
  ASSUME TableInv, NEW t \in Sends, Unlink(t), NEW s, Chained(Chain(t), s)
  PROVE  /\ \E z : Chained(Chain(t), z)'
         /\ \A x \in Nodes \ InChain(Chain(t)) : next'[x] = next[x] /\ pprev'[x] = pprev[x]
         /\ \A b \in Buckets \ {Chain(t)} : first'[b] = first[b]
<1> DEFINE n == pos[t]
           c == Chain(t)
<1>1. /\ pc[t] = "unlink" /\ pc' = [pc EXCEPT ![t] = "clear"]
      /\ IF pprev[n] \in Buckets
           THEN first' = [first EXCEPT ![pprev[n]] = next[n]] /\ UNCHANGED next
           ELSE next' = [next EXCEPT ![pprev[n]] = next[n]] /\ UNCHANGED first
      /\ pprev' = IF next[n] = None THEN pprev ELSE [pprev EXCEPT ![next[n]] = pprev[n]]
      /\ members' = members \ {n}
      /\ disturbed' = disturbed \cup Walking(Chain(heap[n]))
      /\ UNCHANGED <<heap, lockVars, pos, tmp, left, node>>
  BY DEF Unlink, Goto
<1>2. TypeOK /\ t \in Threads /\ c \in Buckets /\ Registrations \cap Sends = {}
  BY TableNames DEF TableInv, Threads, Chain, Buckets
<1>3. n \in InChain(c) /\ n \in Nodes /\ t \notin disturbed /\ writer = t /\ Chain(heap[n]) = c
  BY <1>1, <1>2, UnlinkIsInChain DEF InChain
<1>4. \A r \in Registrations : pc[r] # "publish" /\ pc'[r] # "publish"
  BY <1>1, <1>2, <1>3 DEF TableInv, TypeOK, Locked, WriteLabels, Threads
<1>5. InChain(c)' = InChain(c) \ {n}
  BY <1>1 DEF InChain, Chain
<1> HIDE DEF n, c
<1>6. PICK k \in Nat : s \in [1 .. k -> InChain(c)]
  BY DEF Chained, Enumerates, c
<1>7. /\ \A i \in 1 .. k : s[i] \in InChain(c) /\ s[i] \in Nodes /\ s[i] # None /\ s[i] \notin Buckets
      /\ \A i, j \in 1 .. k : s[i] = s[j] => i = j
  BY <1>2, <1>6, TableNames DEF InChain, TypeOK, Chained, Enumerates, c
<1>8. PICK m \in 1 .. k : s[m] = n
  BY <1>3, <1>6 DEF Chained, Enumerates, c
<1>9. /\ first[c] = At(s, 1) /\ \A i \in 1 .. k : next[s[i]] = At(s, i + 1)
      /\ \A i \in 1 .. k : i > 1 => pprev[s[i]] = s[i - 1]
      /\ 1 \in 1 .. k => pprev[s[1]] = c
  BY <1>4, <1>6 DEF Chained, Linked, LinkedBack, c
<1>10. next[n] = At(s, m + 1) /\ (m = 1 => pprev[n] = c)
       /\ (m # 1 => m - 1 \in 1 .. k /\ pprev[n] = s[m - 1] /\ pprev[n] \notin Buckets)
  BY <1>7, <1>8, <1>9
<1>11. /\ first'[c] = IF m = 1 THEN next[n] ELSE first[c]
       /\ \A b \in Buckets \ {c} : first'[b] = first[b]
       /\ \A x \in Nodes : next'[x] = IF m # 1 /\ x = s[m - 1] THEN next[n] ELSE next[x]
  <2>1. first \in [Buckets -> Nodes \cup {None}] /\ next \in [Nodes -> Nodes \cup {None}]
    BY <1>2 DEF TypeOK
  <2>2. CASE m = 1
    BY <1>1, <1>2, <1>10, <2>1, <2>2
  <2>3. CASE m # 1
    BY <1>1, <1>2, <1>10, <2>1, <2>3
  <2> QED
    BY <2>2, <2>3
<1>12. \A x \in Nodes : pprev'[x] = IF m + 1 \in 1 .. k /\ x = s[m + 1] THEN pprev[n] ELSE pprev[x]
  <2>1. pprev \in [Nodes -> Nodes \cup Buckets \cup {None}] /\ None \notin Nodes
    BY <1>2, TableNames DEF TypeOK
  <2>2. CASE m + 1 \in 1 .. k
    BY <1>1, <1>6, <1>7, <1>10, <2>1, <2>2 DEF At
  <2>3. CASE m + 1 \notin 1 .. k
    BY <1>1, <1>6, <1>10, <2>1, <2>3 DEF At
  <2> QED
    BY <2>2, <2>3
<1>13. \A x \in Nodes \ InChain(c) : next'[x] = next[x] /\ pprev'[x] = pprev[x]
  BY <1>7, <1>10, <1>11, <1>12
<1>14. PICK z : z \in [1 .. k - 1 -> InChain(c) \ {n}] /\ Without(z, s, k, m)
  <2> DEFINE short == [i \in 1 .. k - 1 |-> IF i < m THEN s[i] ELSE s[i + 1]]
  <2>1. ASSUME NEW i \in 1 .. k - 1 PROVE short[i] \in InChain(c) \ {n}
    <3>1. CASE i < m
      BY <1>7, <1>8, <3>1
    <3>2. CASE ~(i < m)
      <4>1. i + 1 \in 1 .. k /\ i + 1 # m
        BY <3>2
      <4> QED
        BY <1>7, <1>8, <3>2, <4>1
    <3> QED
      BY <3>1, <3>2
  <2>2. short \in [1 .. k - 1 -> InChain(c) \ {n}]
    BY <2>1
  <2>3. Without(short, s, k, m)
    BY DEF Without
  <2> HIDE DEF short
  <2> QED
    BY <2>2, <2>3
<1>15. /\ \A i \in Nat \ {0} : At(z, i) = IF i < m THEN At(s, i) ELSE At(s, i + 1)
       /\ Rest(z, m) = Rest(s, m + 1)
  BY <1>6, <1>14, WithoutPlaces
<1>16. /\ DOMAIN z = 1 .. k - 1 /\ k - 1 \in Nat
       /\ \A i \in 1 .. k - 1 : z[i] \in Nodes /\ z[i] = IF i < m THEN s[i] ELSE s[i + 1]
       /\ \A i \in 1 .. k - 1 : ~(i < m) => i + 1 \in 1 .. k
  BY <1>2, <1>14 DEF Without, InChain, TypeOK
<1>17. Enumerates(c, z)'
  <2>1. ASSUME NEW i \in 1 .. k - 1, NEW j \in 1 .. k - 1, z[i] = z[j] PROVE i = j
    <3>1. CASE i < m /\ j < m
      BY <1>7, <1>16, <2>1, <3>1
    <3>2. CASE i < m /\ ~(j < m)
      BY <1>7, <1>16, <2>1, <3>2
    <3>3. CASE ~(i < m) /\ j < m
      BY <1>7, <1>16, <2>1, <3>3
    <3>4. CASE ~(i < m) /\ ~(j < m)
      <4>1. i + 1 = j + 1
        BY <1>7, <1>16, <2>1, <3>4
      <4> QED
        BY <4>1
    <3> QED
      BY <3>1, <3>2, <3>3, <3>4
  <2>2. ASSUME NEW x \in InChain(c) \ {n} PROVE \E i \in 1 .. k - 1 : z[i] = x
    <3>1. PICK j \in 1 .. k : s[j] = x
      BY <1>6, <2>2 DEF Chained, Enumerates, c
    <3>2. CASE j < m
      BY <1>16, <3>1, <3>2
    <3>3. CASE j > m
      <4>1. j - 1 \in 1 .. k - 1 /\ ~(j - 1 < m) /\ (j - 1) + 1 = j
        BY <3>3
      <4> QED
        BY <1>16, <3>1, <4>1
    <3> QED
      BY <1>8, <2>2, <3>1, <3>2, <3>3
  <2> QED
    BY <1>5, <1>14, <1>16, <2>1, <2>2 DEF Enumerates
<1>18. Linked(c, z)'
  <2>1. first'[c] = At(z, 1)
    BY <1>9, <1>10, <1>11, <1>15
  <2>2. ASSUME NEW i \in 1 .. k - 1 PROVE next'[z[i]] = At(z, i + 1)
    <3>1. CASE i < m - 1
      <4>1. z[i] = s[i] /\ s[i] # s[m - 1] /\ i \in 1 .. k
        BY <1>7, <1>16, <3>1
      <4>2. next'[z[i]] = At(s, i + 1)
        BY <1>9, <1>11, <1>16, <4>1
      <4>3. i + 1 \in Nat \ {0} /\ i + 1 < m
        BY <3>1
      <4> QED
        BY <1>15, <4>2, <4>3
    <3>2. CASE i = m - 1
      BY <1>10, <1>11, <1>15, <1>16, <3>2
    <3>3. CASE ~(i < m)
      <4>1. z[i] = s[i + 1] /\ i + 1 \in 1 .. k
        BY <1>16, <3>3
      <4>2. m # 1 => s[i + 1] # s[m - 1]
        BY <1>7, <1>10, <3>3, <4>1
      <4>3. next'[z[i]] = At(s, (i + 1) + 1)
        BY <1>9, <1>11, <1>16, <4>1, <4>2
      <4> QED
        BY <1>15, <3>3, <4>3
    <3> QED
      BY <3>1, <3>2, <3>3
  <2> QED
    BY <1>16, <2>1, <2>2 DEF Linked, At
<1>19. LinkedBack(c, z)'
  <2>1. ASSUME NEW i \in 1 .. k - 1 PROVE pprev'[z[i]] = IF i = 1 THEN c ELSE z[i - 1]
    <3>1. CASE i < m
      <4>1. z[i] = s[i] /\ (m + 1 \in 1 .. k => s[i] # s[m + 1])
        BY <1>7, <1>16, <3>1
      <4>2. pprev'[z[i]] = pprev[s[i]]
        BY <1>12, <1>16, <4>1
      <4> QED
        BY <1>9, <1>16, <3>1, <4>2
    <3>2. CASE i = m
      <4>1. z[i] = s[m + 1] /\ m + 1 \in 1 .. k
        BY <1>16, <3>2
      <4>2. pprev'[z[i]] = pprev[n]
        BY <1>12, <1>16, <4>1
      <4>3. m # 1 => m - 1 \in 1 .. k - 1 /\ z[m - 1] = s[m - 1]
        BY <1>16
      <4> QED
        BY <1>10, <3>2, <4>2, <4>3
    <3>3. CASE i > m
      <4>1. z[i] = s[i + 1] /\ i + 1 \in 1 .. k /\ (m + 1 \in 1 .. k => s[i + 1] # s[m + 1])
        BY <1>7, <1>16, <3>3
      <4>2. pprev'[z[i]] = pprev[s[i + 1]]
        BY <1>12, <1>16, <4>1
      <4>3. pprev[s[i + 1]] = s[(i + 1) - 1] /\ (i + 1) - 1 = i
        BY <1>9, <4>1
      <4>4. i # 1 /\ i - 1 \in 1 .. k - 1 /\ z[i - 1] = s[(i - 1) + 1] /\ (i - 1) + 1 = i
        BY <1>16, <3>3
      <4> QED
        BY <4>2, <4>3, <4>4
    <3> QED
      BY <3>1, <3>2, <3>3
  <2> QED
    BY <1>4, <1>16, <2>1 DEF LinkedBack, Chain
<1>20. ASSUME NEW u \in Threads, Chain(u) = c PROVE Walks(u, z)'
  <2>1. CASE u = t
    <3>1. Reaches(s, n, left[t]) /\ tmp[t] = next[n]
      BY <1>1, <1>2, <1>3 DEF Chained, Walks, WalkLabels, n
    <3>2. PICK i \in Nat \ {0} : n = At(s, i) /\ left[t] = Rest(s, i)
      BY <3>1 DEF Reaches
    <3>3. i = m
      BY <1>6, <1>7, <1>8, <3>2 DEF At
    <3>4. left[t] \ {n} = Rest(s, m + 1)
      BY <1>6, <1>7, <1>8, <3>2, <3>3 DEF Rest
    <3>5. tmp[t] = At(z, m)
      BY <1>10, <1>15, <3>1
    <3>6. Reaches(z, tmp[t], left[t] \ {n})
      BY <1>15, <3>4, <3>5 DEF Reaches
    <3>7. pc'[t] = "clear" /\ tmp' = tmp /\ left' = left /\ pos'[t] = n
      BY <1>1, <1>2 DEF TypeOK, n
    <3> QED
      BY <2>1, <3>6, <3>7 DEF Walks, WalkLabels, Reaches, At, Rest
  <2>2. CASE u # t
    <3>1. pc[u] \notin WriteLabels /\ pc'[u] = pc[u]
      BY <1>1, <1>2, <1>3, <2>2 DEF TableInv, TypeOK, Locked
    <3>2. pc[u] \in WalkLabels => u \in disturbed'
      BY <1>1, <1>3, <1>20, <3>1 DEF Walking, WalkLabels, WriteLabels
    <3> QED
      BY <3>1, <3>2 DEF Walks, WriteLabels
  <2> QED
    BY <2>1, <2>2
<1>21. Chained(c, z)'
  BY <1>17, <1>18, <1>19, <1>20 DEF Chained, Chain, c
<1> QED
  BY <1>11, <1>13, <1>21 DEF c

LEMMA UnlinkChains ==
  ASSUME TableInv, NEW t \in Sends, Unlink(t)
  PROVE  Chains'
<1>1. TypeOK /\ t \in Threads /\ Chain(t) \in Buckets /\ Registrations \cap Sends = {}
  BY TableNames DEF TableInv, Threads, Chain, Buckets
<1>2. PICK s : Chained(Chain(t), s)
  BY <1>1 DEF TableInv, Chains
<1>3. /\ pc[t] = "unlink" /\ pc' = [pc EXCEPT ![t] = "clear"]
      /\ members' = members \ {pos[t]} /\ disturbed \subseteq disturbed'
      /\ UNCHANGED <<heap, pos, tmp, left, node>>
  BY DEF Unlink, Goto
<1>4. \A u \in Threads \ {t} : SameWalk(u)
  BY <1>1, <1>3 DEF SameWalk, TypeOK
<1> SUFFICES ASSUME NEW b \in Buckets PROVE \E z : Chained(b, z)'
  BY DEF Chains, Buckets, Chain
<1>5. CASE b = Chain(t)
  BY <1>2, <1>5, UnlinkChain
<1>6. CASE b # Chain(t)
  <2>1. InChain(b)' = InChain(b)
    BY <1>1, <1>3, <1>6, UnlinkIsInChain DEF InChain, Chain
  <2>2. \A x \in InChain(b) : x \in Nodes \ InChain(Chain(t))
    BY <1>1, <1>6 DEF InChain, TypeOK
  <2>3. \A r \in Registrations : pc'[r] = "publish" <=> pc[r] = "publish"
    BY <1>1, <1>3 DEF TypeOK, Threads
  <2>4. SameChain(b)
    BY <1>2, <1>3, <1>6, <2>1, <2>2, <2>3, UnlinkChain DEF SameChain
  <2> QED
    BY <1>1, <1>4, <1>6, <2>4, ChainKept
<1> QED
  BY <1>5, <1>6

-----------------------------------------------------------------------------
(* The invariant, and what follows from it.                                *)

\* It holds at first: every chain is empty.
LEMMA TableInit == Init => TableInv
<1> SUFFICES ASSUME Init PROVE TableInv
  OBVIOUS
<1>1. TypeOK
  BY DEF Init, TypeOK, Labels, Threads
<1>2. Labelled /\ Locked /\ Owned /\ Raced /\ Prepared
  BY TableNames DEF Init, Labelled, Locked, Owned, Raced, Prepared, WriteLabels, Threads
<1>3. Chains
  <2> SUFFICES ASSUME NEW b \in Buckets PROVE \E s : Chained(b, s)
    BY DEF Chains
  <2>1. InChain(b) = {} /\ first[b] = None
    BY DEF Init, InChain
  <2>2. PICK s : s \in [1 .. 0 -> InChain(b)]
    <3>1. [i \in 1 .. 0 |-> None] \in [1 .. 0 -> InChain(b)]
      OBVIOUS
    <3> QED
      BY <3>1
  <2>3. DOMAIN s = {}
    BY <2>2
  <2>4. Enumerates(b, s) /\ Linked(b, s) /\ LinkedBack(b, s)
    BY <2>1, <2>2, <2>3 DEF Enumerates, Linked, LinkedBack, At
  <2>5. \A t \in Threads : Walks(t, s)
    BY DEF Init, Walks, WalkLabels
  <2> QED
    BY <2>4, <2>5 DEF Chained
<1> QED
  BY <1>1, <1>2, <1>3 DEF TableInv

\* The exit of a process leaves everything but the set of those that are gone.
LEMMA TableUnchanged ==
  ASSUME TableInv, gone' \subseteq Procs,
         UNCHANGED <<heap, links, lockVars, pc, walkVars, node, count, members>>
  PROVE  TableInv'
<1>1. TypeOK'
  BY DEF TableInv, TypeOK, links, lockVars, walkVars
<1>2. Labelled' /\ Locked' /\ Owned' /\ Raced'
  BY DEF TableInv, Labelled, Locked, Owned, Raced, lockVars, walkVars
<1>3. Prepared'
  BY DEF TableInv, Prepared, links, Chain
<1>4. Chains'
  <2> SUFFICES ASSUME NEW b \in Buckets PROVE \E s : Chained(b, s)'
    BY DEF Chains, Buckets, Chain
  <2>1. PICK s : Chained(b, s)
    BY DEF TableInv, Chains
  <2>2. SameChain(b) /\ \A u \in Threads : SameWalk(u)
    BY DEF SameChain, SameWalk, InChain, Chain, links, walkVars
  <2>3. Enumerates(b, s)' /\ Linked(b, s)' /\ LinkedBack(b, s)'
    BY <2>1, <2>2, LinksKept DEF Chained
  <2>4. ASSUME NEW u \in Threads, Chain(u) = b PROVE Walks(u, s)'
    BY <2>1, <2>2, <2>4, WalksKept DEF Chained, links
  <2>5. Chained(b, s)'
    BY <2>3, <2>4 DEF Chained, Chain
  <2> QED
    BY <2>5
<1> QED
  BY <1>1, <1>2, <1>3, <1>4 DEF TableInv

LEMMA ChainsStep ==
  ASSUME TableInv, NEW t \in Threads, Step(t)
  PROVE  Chains'
BY QuietChains, AllocChains, LinkChains, PublishChains, UnlinkChains, ClearChains, FreeChains
   DEF Step, Register, Purge, QuietStep

\* Every step keeps it.
LEMMA TableStep == TableInv /\ [Next]_vars => TableInv'
<1> SUFFICES ASSUME TableInv, [Next]_vars PROVE TableInv'
  OBVIOUS
<1>1. ASSUME NEW t \in Threads, Step(t) PROVE TableInv'
  BY <1>1, TypesStep, LabelsStep, OwnedStep, RacedStep, PreparedStep, ChainsStep DEF TableInv
<1>2. ASSUME NEW p \in Procs, Exit(p) PROVE TableInv'
  BY <1>2, TableUnchanged DEF Exit, TableInv, TypeOK
<1>3. CASE UNCHANGED vars
  BY <1>3, TableUnchanged DEF vars, TableInv, TypeOK
<1> QED
  BY <1>1, <1>2, <1>3 DEF Next, Done

\* It holds in every state.
LEMMA TableHolds == Spec => []TableInv
BY TableInit, TableStep, PTL DEF Spec

\* Every variable has its type, in the middle of every operation.
THEOREM TableTypeCorrect == Spec => []TypeOK
<1>1. TableInv => TypeOK
  BY DEF TableInv
<1> QED
  BY <1>1, TableHolds, PTL

\* A chain that is enumerated by s has as many nodes as s has places.
LEMMA EnumeratesAll ==
  ASSUME NEW b, NEW s, Enumerates(b, s)
  PROVE  s \in SetToSeqs(InChain(b))
<1>1. PICK k \in Nat : s \in [1 .. k -> InChain(b)]
  BY DEF Enumerates
<1>2. s \in Bijection(1 .. k, InChain(b))
  BY <1>1 DEF Enumerates, Bijection, Injection, Surjection, IsInjective
<1>3. IsFiniteSet(1 .. k) /\ Cardinality(1 .. k) = k
  BY FS_Interval
<1>4. Cardinality(InChain(b)) = k
  BY <1>2, <1>3, FS_Bijection DEF ExistsBijection
<1> QED
  BY <1>1, <1>4 DEF Enumerates, SetToSeqs

\* next leads through the nodes of a chain, each once, at every moment; pprev
\* leads back when nobody has the lock for writing (emi_hash.h:37-44, 73-86).
THEOREM ChainsStayWhole == Spec => []ChainsAreWhole
<1>1. ASSUME TableInv PROVE ChainsAreWhole
  <2> USE <1>1
  <2>1. ASSUME NEW b \in Buckets PROVE \E s \in SetToSeqs(InChain(b)) : Linked(b, s)
    BY EnumeratesAll DEF TableInv, Chains, Chained
  <2>2. ASSUME writer = None, NEW n \in members
        PROVE  IF pprev[n] \in Buckets THEN first[pprev[n]] = n
               ELSE pprev[n] \in members /\ next[pprev[n]] = n
    <3> DEFINE b == Chain(heap[n])
    <3>1. n \in InChain(b) /\ n \in Nodes /\ b \in Buckets
      BY <2>2 DEF TableInv, TypeOK, Owned, InChain, Chain, Buckets, Threads
    <3>2. \A r \in Registrations : pc[r] # "publish"
      BY <2>2, TableNames DEF TableInv, Locked, WriteLabels, Threads
    <3> HIDE DEF b
    <3>3. PICK s : Chained(b, s)
      BY <3>1 DEF TableInv, Chains
    <3>4. PICK k \in Nat : s \in [1 .. k -> InChain(b)]
      BY <3>3 DEF Chained, Enumerates
    <3>5. PICK i \in 1 .. k : s[i] = n
      BY <3>1, <3>3, <3>4 DEF Chained, Enumerates
    <3>6. CASE i = 1
      <4>1. pprev[n] = b /\ first[b] = n
        BY <3>2, <3>3, <3>4, <3>5, <3>6 DEF Chained, Linked, LinkedBack, At
      <4> QED
        BY <3>1, <4>1
    <3>7. CASE i # 1
      <4>1. i - 1 \in 1 .. k /\ (i - 1) + 1 = i /\ i > 1
        BY <3>7
      <4>2. pprev[n] = s[i - 1] /\ next[s[i - 1]] = n
        BY <3>3, <3>4, <3>5, <4>1 DEF Chained, Linked, LinkedBack, At
      <4>3. s[i - 1] \in members /\ s[i - 1] \notin Buckets
        BY <3>4, <4>1, TableNames DEF InChain, TableInv, TypeOK
      <4> QED
        BY <4>2, <4>3
    <3> QED
      BY <3>6, <3>7
  <2> QED
    BY <2>1, <2>2 DEF ChainsAreWhole
<1> QED
  BY <1>1, TableHolds, PTL

\* A walk that no purge disturbs, and every walk under the lock, visits all nodes
\* that its chain had when it began (emi_core.c:199, 211; emi_hash.c:48-54).
THEOREM WalksMissNothing == Spec => []WalksAreComplete
<1>1. ASSUME TableInv PROVE WalksAreComplete
  <2> SUFFICES ASSUME NEW t \in Threads
               PROVE  /\ t \in disturbed => t \notin readers
                      /\ pc[t] \in {"search", "count", "notify", "purge"} /\ pos[t] = None =>
                           t \in disturbed \/ left[t] = {}
    BY DEF WalksAreComplete
  <2> USE <1>1
  <2>1. t \in disturbed => t \notin readers
    BY DEF TableInv, Locked, Raced
  <2>2. ASSUME pc[t] \in {"search", "count", "notify", "purge"}, pos[t] = None, t \notin disturbed
        PROVE  left[t] = {}
    <3>1. PICK s : Chained(Chain(t), s)
      BY DEF TableInv, Chains, Chain, Buckets
    <3>2. Reaches(s, None, left[t])
      BY <2>2, <3>1 DEF Chained, Walks, WalkLabels
    <3>3. None \notin InChain(Chain(t))
      BY TableNames DEF InChain, TableInv, TypeOK
    <3> QED
      BY <3>1, <3>2, <3>3, ReachesEnd DEF Chained
  <2> QED
    BY <2>1, <2>2
<1> QED
  BY <1>1, TableHolds, PTL

\* Freed memory is read by a walk that a purge disturbed, without the lock, and by
\* nobody else (emi_core.c:199, 242; emi_hash.c:48).
THEOREM FreedIsReadInRacesOnly == Spec => []FreedIsReadByRaceOnly
<1>1. TableInv => FreedIsReadByRaceOnly
  BY DEF TableInv, Raced, Locked, WriteLabels, FreedIsReadByRaceOnly
<1> QED
  BY <1>1, TableHolds, PTL

\* No node leaks but that of a registration that was refused
\* (emi_core.c:159-173, emi_hash.c:10-16).
THEOREM RefusedIsTheOnlyLeak == Spec => []OnlyRefusedLeak
<1>1. TableInv => OnlyRefusedLeak
  BY DEF TableInv, Owned, OnlyRefusedLeak
<1> QED
  BY <1>1, TableHolds, PTL
=============================================================================
