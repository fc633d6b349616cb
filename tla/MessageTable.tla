---------------------------- MODULE MessageTable ----------------------------
(***************************************************************************)
(* The table of registrations of emi_core as it is in memory               *)
(* (src/src/emi_hash.c, src/include/emi_hash.h): an array of heads, each   *)
(* with a chain of struct msg_map linked by next and pprev.  EmiCore takes *)
(* it for a set whose searches are atomic; this module shows how far that  *)
(* is so.                                                                  *)
(*                                                                         *)
(* Registrations search a chain without the lock and insert under          *)
(* msg_table_lock; sends count their receivers without the lock, notify    *)
(* them under the read lock and purge those that are gone under the write  *)
(* lock, freeing their nodes.                                              *)
(***************************************************************************)
EXTENDS Naturals, FiniteSets, SequencesExt

CONSTANTS
  Registrations, Sends,
  MsgOf, ProcOf,   \* the message of each, the process of a registration
  Bucket,          \* __hash32, of each message
  Nodes,           \* the struct msg_map that malloc can return
  None

Threads == Registrations \cup Sends
Buckets == {Bucket[MsgOf[t]] : t \in Threads}
Procs == {ProcOf[r] : r \in Registrations}

ASSUME TableNames ==
  /\ Registrations \cap Sends = {} /\ Nodes \cap Buckets = {}
  /\ None \notin Threads \cup Nodes \cup Buckets
  /\ IsFiniteSet(Nodes)

VARIABLES
  heap,            \* whose registration each node holds, None if it is free
  first,           \* hlist_head.first
  next, pprev,     \* hlist_node: pprev is the node or the head that points to it
  readers, writer, \* who holds msg_table_lock
  pc, pos, tmp,    \* where each thread is, its map and its tmp
  node,            \* the node of each registration
  count,           \* msg_pos->count as the search left it
  gone,            \* the processes that have exited and were waited for
  members,         \* history: the nodes that were inserted and not taken out
  left,            \* history: the nodes a walk found in its chain, not yet visited
  disturbed        \* history: walks during which a node left the chain

links == <<first, next, pprev>>
lockVars == <<readers, writer>>
walkVars == <<pos, tmp, left, disturbed>>
vars == <<heap, links, lockVars, pc, walkVars, node, count, gone, members>>

Labels == {"new", "search", "wrlock", "link", "publish", "wrunlock", "inserted",
           "refused", "nomem",
           "count", "rdlock", "notify", "poll", "purge", "unlink", "clear",
           "free", "end", "wild"}

Chain(t) == Bucket[MsgOf[t]]

\* The nodes linked in the chain of a bucket.
InChain(b) == {n \in members : Chain(heap[n]) = b}

\* init_msg_table_lock.
Init ==
  /\ heap = [n \in Nodes |-> None]
  /\ first = [b \in Buckets |-> None]
  /\ next = [n \in Nodes |-> None] /\ pprev = [n \in Nodes |-> None]
  /\ readers = {} /\ writer = None
  /\ pc = [t \in Threads |-> "new"]
  /\ pos = [t \in Threads |-> None] /\ tmp = [t \in Threads |-> None]
  /\ node = [r \in Registrations |-> None]
  /\ count = [s \in Sends |-> 0]
  /\ gone = {} /\ members = {}
  /\ left = [t \in Threads |-> {}] /\ disturbed = {}

Goto(t, l) == pc' = [pc EXCEPT ![t] = l]

\* emi_rwlock_unlock, of either kind.
Unlock(t) ==
  /\ writer' = IF writer = t THEN None ELSE writer
  /\ readers' = readers \ {t}

-----------------------------------------------------------------------------
(* The walks: hlist_for_each_entry.                                        *)

Begin(t, l) ==
  /\ pos' = [pos EXCEPT ![t] = first[Chain(t)]]
  /\ left' = [left EXCEPT ![t] = InChain(Chain(t))]
  /\ disturbed' = disturbed \ {t}
  /\ UNCHANGED tmp
  /\ Goto(t, l)

Advance(t, n) ==
  /\ pos' = [pos EXCEPT ![t] = n]
  /\ left' = [left EXCEPT ![t] = @ \ {pos[t]}]
  /\ UNCHANGED <<tmp, disturbed>>

AtNode(t, l) == pc[t] = l /\ pos[t] # None /\ heap[pos[t]] # None
AtEnd(t, l)  == pc[t] = l /\ pos[t] = None

\* The node was freed: what the thread reads is undefined.
ReadFreed(t) ==
  /\ pc[t] \in {"search", "count", "notify", "purge"}
  /\ pos[t] # None /\ heap[pos[t]] = None
  /\ Goto(t, "wild")
  /\ UNCHANGED <<heap, links, lockVars, walkVars, node, count, gone, members>>

-----------------------------------------------------------------------------
(* A registration: emi_hinsert_unique_lock.                                *)

\* alloc_msg_map and msg_map_init; the search begins.
Alloc(r) ==
  /\ pc[r] = "new"
  /\ \E n \in Nodes :
       /\ heap[n] = None
       /\ heap' = [heap EXCEPT ![n] = r]
       /\ next' = [next EXCEPT ![n] = None] /\ pprev' = [pprev EXCEPT ![n] = None]
       /\ node' = [node EXCEPT ![r] = n]
  /\ Begin(r, "search")
  /\ UNCHANGED <<first, lockVars, count, gone, members>>

\* Mutant: the result of malloc is not tested.
AllocUntested(r) ==
  /\ pc[r] = "new"
  /\ Begin(r, "search")
  /\ UNCHANGED <<heap, links, lockVars, node, count, gone, members>>

AllocFails(r) ==
  /\ pc[r] = "new"
  /\ Goto(r, "nomem")
  /\ UNCHANGED <<heap, links, lockVars, walkVars, node, count, gone, members>>

\* The chain has a node of the process: -1, and the new node is left behind.
Refuse(r) ==
  /\ AtNode(r, "search") /\ ProcOf[heap[pos[r]]] = ProcOf[r]
  /\ Goto(r, "refused")
  /\ UNCHANGED <<heap, links, lockVars, walkVars, node, count, gone, members>>

Search(r) ==
  /\ AtNode(r, "search") /\ ProcOf[heap[pos[r]]] # ProcOf[r]
  /\ Advance(r, next[pos[r]])
  /\ UNCHANGED <<heap, links, lockVars, pc, node, count, gone, members>>

SearchDone(r) ==
  /\ AtEnd(r, "search")
  /\ Goto(r, "wrlock")
  /\ UNCHANGED <<heap, links, lockVars, walkVars, node, count, gone, members>>

InsertLock(r) ==
  /\ pc[r] = "wrlock" /\ r \in Registrations
  /\ readers = {} /\ writer = None
  /\ writer' = r
  /\ Goto(r, "link")
  /\ UNCHANGED <<heap, links, readers, walkVars, node, count, gone, members>>

\* hlist_add_head: prepare the node, then make it the first.
Link(r) ==
  LET n == node[r]
      f == first[Chain(r)] IN
  /\ pc[r] = "link"
  /\ next' = [next EXCEPT ![n] = f]
  /\ pprev' = IF f = None THEN pprev ELSE [pprev EXCEPT ![f] = n]
  /\ Goto(r, "publish")
  /\ UNCHANGED <<heap, first, lockVars, walkVars, node, count, gone, members>>

Publish(r) ==
  LET n == node[r] IN
  /\ pc[r] = "publish"
  /\ first' = [first EXCEPT ![Chain(r)] = n]
  /\ pprev' = [pprev EXCEPT ![n] = Chain(r)]
  /\ members' = members \cup {n}
  /\ Goto(r, "wrunlock")
  /\ UNCHANGED <<heap, next, lockVars, walkVars, node, count, gone>>

InsertUnlock(r) ==
  /\ pc[r] = "wrunlock"
  /\ Unlock(r)
  /\ Goto(r, "inserted")
  /\ UNCHANGED <<heap, links, walkVars, node, count, gone, members>>

-----------------------------------------------------------------------------
(* A send: emi_receive_operation.                                          *)

\* The unlocked search that counts the receivers.
CountBegin(s) ==
  /\ pc[s] = "new" /\ s \in Sends
  /\ Begin(s, "count")
  /\ UNCHANGED <<heap, links, lockVars, node, count, gone, members>>

Count(s) ==
  /\ AtNode(s, "count")
  /\ count' = IF MsgOf[heap[pos[s]]] = MsgOf[s] THEN [count EXCEPT ![s] = @ + 1]
              ELSE count
  /\ Advance(s, next[pos[s]])
  /\ UNCHANGED <<heap, links, lockVars, pc, node, gone, members>>

CountDone(s) ==
  /\ AtEnd(s, "count")
  /\ Goto(s, IF count[s] = 0 THEN "end" ELSE "rdlock")
  /\ UNCHANGED <<heap, links, lockVars, walkVars, node, count, gone, members>>

NotifyLock(s) ==
  /\ pc[s] = "rdlock" /\ writer = None
  /\ readers' = readers \cup {s}
  /\ Begin(s, "notify")
  /\ UNCHANGED <<heap, links, writer, node, count, gone, members>>

\* The slot, the signal and the acknowledgement of a receiver are in EmiCore.
Notify(s) ==
  /\ AtNode(s, "notify")
  /\ Advance(s, next[pos[s]])
  /\ UNCHANGED <<heap, links, lockVars, pc, node, count, gone, members>>

NotifyUnlock(s) ==
  /\ AtEnd(s, "notify")
  /\ Unlock(s)
  /\ Goto(s, "poll")
  /\ UNCHANGED <<heap, links, walkVars, node, count, gone, members>>

\* while(msg_pos->count): all receivers have counted themselves off, or not yet.
Poll(s) ==
  /\ pc[s] = "poll"
  /\ \E l \in {"end", "wrlock"} : Goto(s, l)
  /\ UNCHANGED <<heap, links, lockVars, walkVars, node, count, gone, members>>

\* Mutant: the purge takes the lock for reading only.
PurgeLockShared(s) ==
  /\ pc[s] = "wrlock" /\ s \in Sends
  /\ writer = None
  /\ readers' = readers \cup {s}
  /\ Begin(s, "purge")
  /\ UNCHANGED <<heap, links, writer, node, count, gone, members>>

PurgeLock(s) ==
  /\ pc[s] = "wrlock" /\ s \in Sends
  /\ readers = {} /\ writer = None
  /\ writer' = s
  /\ Begin(s, "purge")
  /\ UNCHANGED <<heap, links, readers, node, count, gone, members>>

IsGone(s, n) == MsgOf[heap[n]] = MsgOf[s] /\ ProcOf[heap[n]] \in gone

\* kill(map->pid, 0) succeeds, or the message is another one.
PurgeKeep(s) ==
  /\ AtNode(s, "purge")
  /\ ~IsGone(s, pos[s])
  /\ Advance(s, next[pos[s]])
  /\ UNCHANGED <<heap, links, lockVars, pc, node, count, gone, members>>

\* It fails.  hlist_for_each_entry_safe has read next beforehand.
PurgeGone(s) ==
  /\ AtNode(s, "purge")
  /\ IsGone(s, pos[s])
  /\ tmp' = [tmp EXCEPT ![s] = next[pos[s]]]
  /\ Goto(s, "unlink")
  /\ UNCHANGED <<heap, links, lockVars, pos, left, disturbed, node, count, gone,
                 members>>

\* The walks of a chain that a node leaves.
Walking(b) ==
  {t \in Threads : pc[t] \in {"search", "count", "notify"} /\ Chain(t) = b}

\* Mutant: pprev of the next node is not set.
UnlinkForward(s) ==
  LET n == pos[s] IN
  /\ pc[s] = "unlink"
  /\ IF pprev[n] \in Buckets
       THEN first' = [first EXCEPT ![pprev[n]] = next[n]] /\ UNCHANGED next
       ELSE next' = [next EXCEPT ![pprev[n]] = next[n]] /\ UNCHANGED first
  /\ members' = members \ {n}
  /\ disturbed' = disturbed \cup Walking(Chain(heap[n]))
  /\ Goto(s, "clear")
  /\ UNCHANGED <<heap, pprev, lockVars, pos, tmp, left, node, count, gone>>

\* __hlist_del.
Unlink(s) ==
  LET n == pos[s] IN
  /\ pc[s] = "unlink"
  /\ IF pprev[n] \in Buckets
       THEN first' = [first EXCEPT ![pprev[n]] = next[n]] /\ UNCHANGED next
       ELSE next' = [next EXCEPT ![pprev[n]] = next[n]] /\ UNCHANGED first
  /\ pprev' = IF next[n] = None THEN pprev
              ELSE [pprev EXCEPT ![next[n]] = pprev[n]]
  /\ members' = members \ {n}
  /\ disturbed' = disturbed \cup Walking(Chain(heap[n]))
  /\ Goto(s, "clear")
  /\ UNCHANGED <<heap, lockVars, pos, tmp, left, node, count, gone>>

\* INIT_HLIST_NODE.
Clear(s) ==
  /\ pc[s] = "clear"
  /\ next' = [next EXCEPT ![pos[s]] = None]
  /\ pprev' = [pprev EXCEPT ![pos[s]] = None]
  /\ Goto(s, "free")
  /\ UNCHANGED <<heap, first, lockVars, walkVars, node, count, gone, members>>

\* Mutant: hlist_for_each_entry, which reads next of the node it has freed.
FreeNotSafe(s) ==
  /\ pc[s] = "free"
  /\ heap' = [heap EXCEPT ![pos[s]] = None]
  /\ Goto(s, "purge")
  /\ UNCHANGED <<links, lockVars, walkVars, node, count, gone, members>>

\* Mutant: the node is not freed.
FreeNothing(s) ==
  /\ pc[s] = "free"
  /\ Advance(s, tmp[s])
  /\ Goto(s, "purge")
  /\ UNCHANGED <<heap, links, lockVars, node, count, gone, members>>

\* free; the walk goes on at tmp.
Free(s) ==
  /\ pc[s] = "free"
  /\ heap' = [heap EXCEPT ![pos[s]] = None]
  /\ Advance(s, tmp[s])
  /\ Goto(s, "purge")
  /\ UNCHANGED <<links, lockVars, node, count, gone, members>>

PurgeUnlock(s) ==
  /\ AtEnd(s, "purge")
  /\ Unlock(s)
  /\ Goto(s, "poll")
  /\ UNCHANGED <<heap, links, walkVars, node, count, gone, members>>

-----------------------------------------------------------------------------
Exit(p) ==
  /\ p \notin gone
  /\ gone' = gone \cup {p}
  /\ UNCHANGED <<heap, links, lockVars, pc, walkVars, node, count, members>>

Register(r) ==
  \/ Alloc(r) \/ AllocFails(r) \/ Refuse(r) \/ Search(r) \/ SearchDone(r)
  \/ InsertLock(r) \/ Link(r) \/ Publish(r) \/ InsertUnlock(r)

Notification(s) ==
  \/ CountBegin(s) \/ Count(s) \/ CountDone(s)
  \/ NotifyLock(s) \/ Notify(s) \/ NotifyUnlock(s)

Purge(s) ==
  \/ PurgeLock(s) \/ PurgeKeep(s) \/ PurgeGone(s) \/ Unlink(s) \/ Clear(s)
  \/ Free(s) \/ PurgeUnlock(s)

Step(t) ==
  \/ t \in Registrations /\ Register(t)
  \/ t \in Sends /\ (Notification(t) \/ Poll(t) \/ Purge(t))
  \/ ReadFreed(t)

Ended(t) == pc[t] \in {"inserted", "refused", "nomem", "end", "wild"}

Done == (\A t \in Threads : Ended(t)) /\ UNCHANGED vars

Next ==
  \/ \E t \in Threads : Step(t)
  \/ \E p \in Procs : Exit(p)
  \/ Done

Spec == Init /\ [][Next]_vars

-----------------------------------------------------------------------------
\* Every variable has its type.
TypeOK ==
  /\ heap \in [Nodes -> Registrations \cup {None}]
  /\ first \in [Buckets -> Nodes \cup {None}]
  /\ next \in [Nodes -> Nodes \cup {None}]
  /\ pprev \in [Nodes -> Nodes \cup Buckets \cup {None}]
  /\ readers \subseteq Threads /\ writer \in Threads \cup {None}
  /\ pc \in [Threads -> Labels]
  /\ pos \in [Threads -> Nodes \cup {None}] /\ tmp \in [Threads -> Nodes \cup {None}]
  /\ node \in [Registrations -> Nodes \cup {None}]
  /\ count \in [Sends -> Nat]
  /\ gone \subseteq Procs /\ members \subseteq Nodes
  /\ left \in [Threads -> SUBSET Nodes] /\ disturbed \subseteq Threads

\* What is at a place of a chain, None behind its end.
At(s, i) == IF i \in DOMAIN s THEN s[i] ELSE None

\* next leads from the head of the chain through s and no further.
Linked(b, s) ==
  /\ first[b] = At(s, 1)
  /\ \A i \in DOMAIN s : next[s[i]] = At(s, i + 1)

\* Following next from the head of a chain meets the nodes that were inserted in
\* it and not purged, each once, at every moment, in the middle of an insertion
\* or a purge as well: a search without the lock that starts now finds them all.
\* While nobody holds the lock for writing, pprev of each leads to what points to
\* it, so that the next purge unlinks the right one (emi_hash.h:37-44, 73-86).
ChainsAreWhole ==
  /\ \A b \in Buckets : \E s \in SetToSeqs(InChain(b)) : Linked(b, s)
  /\ writer = None =>
       \A n \in members :
         IF pprev[n] \in Buckets THEN first[pprev[n]] = n
         ELSE pprev[n] \in members /\ next[pprev[n]] = n

\* A search visits every node that its chain had when it began, unless a purge
\* takes one out meanwhile, and no purge does while the search holds the lock:
\* insertions never hide a receiver from a send (emi_core.c:199, 211;
\* emi_hash.c:48-54).
WalksAreComplete ==
  \A t \in Threads :
    /\ t \in disturbed => t \notin readers
    /\ pc[t] \in {"search", "count", "notify", "purge"} /\ pos[t] = None =>
         t \in disturbed \/ left[t] = {}

\* A node is read after it was freed by nobody who holds the lock, and by a search
\* without it only if a purge took a node out of its chain while it walked
\* (emi_core.c:199, 242; emi_hash.c:48).
FreedIsReadByRaceOnly ==
  \A t \in Threads :
    pc[t] = "wild" => t \in disturbed /\ t \notin readers /\ writer # t

\* A node that is allocated is in a chain, in the hands of its registration or
\* of the purge that frees it, or was left behind by a registration that was
\* refused (emi_core.c:159-173, emi_hash.c:10-16): nothing else leaks.
OnlyRefusedLeak ==
  \A n \in Nodes :
    heap[n] # None =>
      \/ n \in members
      \/ node[heap[n]] = n /\ pc[heap[n]] # "inserted"
      \/ writer \in Sends /\ pos[writer] = n /\ pc[writer] \in {"clear", "free"}

=============================================================================
