-------------------------- MODULE ReturnDataProofs --------------------------
(***************************************************************************)
(* The theorems about the memory behind a message, for any number of       *)
(* clients, receivers, blocks and sizes.  The first part is about the      *)
(* blocks, the second about what the client reads back of the answer.      *)
(***************************************************************************)
EXTENDS ReturnData, SequenceTheorems, FiniteSetTheorems, WellFoundedInduction, TLAPS

Entry == [block : Blocks, size : Sizes, from : Receivers]

\* What the proofs need of the types.
MemoryTypes ==
  /\ cmsg = [c \in Clients |-> cmsg[c]] /\ reply = [c \in Clients |-> reply[c]]
  /\ pc \in [Clients -> {"alloc", "realloc", "serve", "write", "free", "closed"}]
  /\ msg \in [Clients -> [block : Blocks \cup {None}, flag : SUBSET Flags, retsize : Nat]]
  /\ data \in [Clients -> Blocks \cup {None}]
  /\ retdata \in [Clients -> Seq(Entry)]
  /\ left \in [Clients -> SUBSET Receivers]
  /\ used \subseteq Blocks

\* How the flags and sizes of a message that is not yet freed tell its memory.
Marked(c) ==
  /\ pc[c] \in {"alloc", "closed"} => msg[c] = NoMsg /\ data[c] = None /\ retdata[c] = <<>>
  /\ pc[c] \notin {"alloc", "closed"} => msg[c].block # None
  /\ pc[c] = "realloc" => "allocdata" \notin msg[c].flag /\ retdata[c] = <<>>
  /\ "allocdata" \in msg[c].flag <=> data[c] # None
  /\ msg[c].retsize = 0 <=> retdata[c] = <<>>

\* Where a message is, for its client and its receivers.
Placed(c) ==
  /\ left[c] # {} => pc[c] = "serve"
  /\ pc[c] = "alloc" => cmsg[c] = Fresh
  /\ pc[c] \in {"alloc", "realloc", "serve", "write"} => reply[c] = NoReply

MemoryInv ==
  /\ MemoryTypes
  /\ \A c \in Clients : Marked(c) /\ Placed(c)
  /\ BlocksAreOwned
  /\ NoWildFree
-----------------------------------------------------------------------------
(* Lists of return data.                                                   *)

\* An entry put before a list of return data.
LEMMA Prepended ==
  ASSUME NEW s \in Seq(Entry), NEW e \in Entry
  PROVE  /\ <<e>> \o s \in Seq(Entry)
         /\ <<e>> \o s # <<>>
         /\ \A i \in DOMAIN (<<e>> \o s) :
              \/ i = 1 /\ (<<e>> \o s)[i] = e
              \/ i - 1 \in DOMAIN s /\ (<<e>> \o s)[i] = s[i - 1]
         /\ Len(<<e>> \o s) = Len(s) + 1
<1>1. <<e>> \in Seq(Entry) /\ Len(<<e>>) = 1 /\ <<e>>[1] = e
  OBVIOUS
<1>2. /\ <<e>> \o s \in Seq(Entry)
      /\ Len(<<e>> \o s) = 1 + Len(s)
      /\ \A i \in 1 .. 1 + Len(s) :
           (<<e>> \o s)[i] = IF i <= 1 THEN <<e>>[i] ELSE s[i - 1]
  BY <1>1, ConcatProperties
<1>3. Len(s) \in Nat /\ DOMAIN s = 1 .. Len(s)
  BY LenProperties
<1>4. DOMAIN (<<e>> \o s) = 1 .. 1 + Len(s)
  BY <1>2, LenProperties
<1>5. <<e>> \o s # <<>>
  BY <1>2, <1>3, EmptySeq
<1>6. ASSUME NEW i \in DOMAIN (<<e>> \o s)
      PROVE  \/ i = 1 /\ (<<e>> \o s)[i] = e
             \/ i - 1 \in DOMAIN s /\ (<<e>> \o s)[i] = s[i - 1]
  <2>1. i \in 1 .. 1 + Len(s)
    BY <1>4
  <2>2. (<<e>> \o s)[i] = IF i <= 1 THEN <<e>>[i] ELSE s[i - 1]
    BY <2>1, <1>2
  <2>3. CASE i = 1
    BY <2>2, <2>3, <1>1
  <2>4. CASE i # 1
    <3>1. i - 1 \in 1 .. Len(s) /\ ~(i <= 1)
      BY <2>1, <2>4, <1>3
    <3> QED
      BY <3>1, <2>2, <1>3
  <2> QED
    BY <2>3, <2>4
<1>7. Len(<<e>> \o s) = Len(s) + 1
  BY <1>2, <1>3
<1> QED
  BY <1>2, <1>5, <1>6, <1>7

-----------------------------------------------------------------------------
(* Who owns the blocks.                                                    *)

\* A block that was free may be given one use.
LEMMA OwnedAfterAlloc ==
  ASSUME BlocksAreOwned, NEW c \in Clients, NEW b, b \notin used, NEW k,
         used' = used \cup {b},
         \A d \in Clients : \A h \in Held(d)' :
           h[2] = None \/ h \in Held(d) \/ (d = c /\ h = <<k, b>>)
  PROVE  BlocksAreOwned'
BY DEF BlocksAreOwned

\* The blocks of one message may be freed, all or some of them.
LEMMA OwnedAfterFree ==
  ASSUME BlocksAreOwned, NEW c \in Clients, NEW B,
         B \subseteq {h[2] : h \in Held(c)},
         used' = used \ B,
         \A h \in Held(c)' : h[2] = None,
         \A d \in Clients \ {c} : Held(d)' = Held(d)
  PROVE  BlocksAreOwned'
BY DEF BlocksAreOwned

\* Nothing that concerns the blocks changes.
LEMMA OwnedAsBefore ==
  ASSUME BlocksAreOwned, used' = used, \A c \in Clients : Held(c)' = Held(c)
  PROVE  BlocksAreOwned'
BY DEF BlocksAreOwned

-----------------------------------------------------------------------------
(* One client's memory.  Each action changes that of one client.           *)

\* What belongs to another client stays as it was.
Others(c) ==
  \A d \in Clients \ {c} :
    /\ pc'[d] = pc[d] /\ msg'[d] = msg[d] /\ data'[d] = data[d]
    /\ retdata'[d] = retdata[d] /\ left'[d] = left[d]
    /\ cmsg'[d] = cmsg[d] /\ reply'[d] = reply[d]

\* It is enough to look at the client of the action.
LEMMA OneClient ==
  ASSUME NEW c \in Clients, \A d \in Clients : Marked(d) /\ Placed(d),
         Others(c), Marked(c)', Placed(c)'
  PROVE  \A d \in Clients : (Marked(d) /\ Placed(d))'
<1> SUFFICES ASSUME NEW d \in Clients, d # c PROVE (Marked(d) /\ Placed(d))'
  OBVIOUS
<1> QED
  BY DEF Others, Marked, Placed

\* The blocks of the others are the same.
LEMMA HeldByOthers ==
  ASSUME NEW c \in Clients, Others(c)
  PROVE  \A d \in Clients \ {c} : Held(d)' = Held(d)
BY DEF Others, Held

\* The blocks are used as before when no message changes what it refers to.
LEMMA HeldAsBefore ==
  ASSUME NEW c \in Clients, msg'[c].block = msg[c].block, UNCHANGED <<data, retdata>>
  PROVE  Held(c)' = Held(c)
BY DEF Held

-----------------------------------------------------------------------------
(* The actions.                                                            *)

\* A new message has no memory yet.
LEMMA SendStep ==
  ASSUME MemoryInv, NEW c \in Clients, Send(c)
  PROVE  MemoryInv'
<1> USE DEF MemoryInv
<1>1. MemoryTypes'
  BY DEF Send, MemoryTypes, msgVars
<1>2. Others(c)
  BY DEF Send, Others, msgVars, MemoryTypes
<1>3. Marked(c)' /\ Placed(c)'
  BY NoneAssumption DEF Send, Marked, Placed, msgVars, MemoryTypes
<1>4. BlocksAreOwned'
  <2>1. \A d \in Clients : Held(d)' = Held(d)
    BY DEF Send, msgVars, Held
  <2> QED
    BY <2>1, OwnedAsBefore DEF Send, msgVars
<1>5. NoWildFree'
  BY DEF Send, msgVars, NoWildFree
<1> QED
  BY <1>1, <1>2, <1>3, <1>4, <1>5, OneClient

\* The area gets a block that was free.
LEMMA AllocMsgStep ==
  ASSUME MemoryInv, NEW c \in Clients, AllocMsg(c)
  PROVE  MemoryInv'
<1> USE DEF MemoryInv
<1>1. PICK b \in Blocks \ used :
        /\ used' = used \cup {b}
        /\ msg' = [msg EXCEPT ![c] = [block |-> b, flag |-> cmsg[c].flag,
                                      retsize |-> cmsg[c].retsize]]
  BY DEF AllocMsg
<1>2. /\ pc[c] = "alloc" /\ pc' = [pc EXCEPT ![c] = "realloc"]
      /\ UNCHANGED <<cmsg, data, retdata, wild, left, reply>>
  BY DEF AllocMsg, clientVars
<1>3. cmsg[c].flag = {} /\ cmsg[c].retsize = 0
  BY <1>2 DEF Placed, Fresh
<1>4. MemoryTypes'
  BY <1>1, <1>2, <1>3 DEF MemoryTypes
<1>5. Others(c)
  BY <1>1, <1>2 DEF Others, MemoryTypes
<1>6. msg'[c] = [block |-> b, flag |-> {}, retsize |-> 0]
  BY <1>1, <1>3 DEF MemoryTypes
<1>7. Marked(c)' /\ Placed(c)'
  <2>1. pc'[c] = "realloc" /\ b # None
    BY <1>1, <1>2, NoneAssumption DEF MemoryTypes
  <2>2. data[c] = None /\ retdata[c] = <<>> /\ left[c] = {} /\ reply[c] = NoReply
    BY <1>2 DEF Marked, Placed
  <2> QED
    BY <1>2, <1>6, <2>1, <2>2 DEF Marked, Placed
<1>8. BlocksAreOwned'
  <2>1. \A h \in Held(c)' : h[2] = None \/ h = <<-1, b>>
    <3>1. data'[c] = None /\ retdata'[c] = <<>>
      BY <1>2 DEF Marked
    <3> QED
      BY <1>6, <3>1 DEF Held
  <2>2. \A d \in Clients : \A h \in Held(d)' :
          h[2] = None \/ h \in Held(d) \/ (d = c /\ h = <<-1, b>>)
    BY <1>5, <2>1, HeldByOthers
  <2> QED
    BY <1>1, <2>2, OwnedAfterAlloc
<1>9. NoWildFree'
  BY <1>2 DEF NoWildFree
<1> QED
  BY <1>4, <1>5, <1>7, <1>8, <1>9, OneClient

\* Nothing was allocated.
LEMMA RefuseMsgStep ==
  ASSUME MemoryInv, NEW c \in Clients, RefuseMsg(c)
  PROVE  MemoryInv'
<1> USE DEF MemoryInv
<1>1. MemoryTypes'
  BY DEF RefuseMsg, MemoryTypes, msgVars, clientVars
<1>2. Others(c)
  BY DEF RefuseMsg, Others, msgVars, clientVars, MemoryTypes
<1>3. Marked(c)' /\ Placed(c)'
  BY DEF RefuseMsg, Marked, Placed, msgVars, clientVars, MemoryTypes
<1>4. BlocksAreOwned'
  <2>1. \A d \in Clients : Held(d)' = Held(d)
    BY DEF RefuseMsg, msgVars, Held
  <2> QED
    BY <2>1, OwnedAsBefore DEF RefuseMsg, msgVars
<1>5. NoWildFree'
  BY DEF RefuseMsg, msgVars, NoWildFree
<1> QED
  BY <1>1, <1>2, <1>3, <1>4, <1>5, OneClient

\* The data stays in the area.
LEMMA ReallocKeepStep ==
  ASSUME MemoryInv, NEW c \in Clients, ReallocKeep(c)
  PROVE  MemoryInv'
<1> USE DEF MemoryInv
<1>1. /\ pc[c] = "realloc" /\ pc' = [pc EXCEPT ![c] = "serve"]
      /\ msg' = [msg EXCEPT ![c].flag = @ \cup {"succeeded"}]
      /\ left' = [left EXCEPT ![c] = Receivers]
      /\ UNCHANGED <<cmsg, data, retdata, used, wild, reply>>
  BY DEF ReallocKeep, Dispatch, clientVars
<1>2. MemoryTypes'
  <2>1. msg[c].flag \cup {"succeeded"} \in SUBSET Flags
    BY DEF MemoryTypes, Flags
  <2>2. msg' \in [Clients -> [block : Blocks \cup {None}, flag : SUBSET Flags, retsize : Nat]]
    BY <1>1, <2>1 DEF MemoryTypes
  <2> QED
    BY <1>1, <2>2 DEF MemoryTypes
<1>3. Others(c)
  BY <1>1 DEF Others, MemoryTypes
<1>4. /\ msg'[c].block = msg[c].block /\ msg'[c].retsize = msg[c].retsize
      /\ msg'[c].flag = msg[c].flag \cup {"succeeded"}
      /\ pc'[c] = "serve"
  BY <1>1 DEF MemoryTypes
<1>5. Marked(c)' /\ Placed(c)'
  BY <1>1, <1>4 DEF Marked, Placed
<1>6. BlocksAreOwned'
  BY <1>1, <1>3, <1>4, HeldAsBefore, HeldByOthers, OwnedAsBefore
<1>7. NoWildFree'
  BY <1>1 DEF NoWildFree
<1> QED
  BY <1>2, <1>3, <1>5, <1>6, <1>7, OneClient

\* The data gets a block that was free, and the flag that says so.
LEMMA ReallocMoveStep ==
  ASSUME MemoryInv, NEW c \in Clients, ReallocMove(c)
  PROVE  MemoryInv'
<1> USE DEF MemoryInv
<1>1. PICK b \in Blocks \ used :
        used' = used \cup {b} /\ data' = [data EXCEPT ![c] = b]
  BY DEF ReallocMove
<1>2. /\ pc[c] = "realloc" /\ pc' = [pc EXCEPT ![c] = "serve"]
      /\ msg' = [msg EXCEPT ![c].flag = @ \cup {"allocdata", "succeeded"}]
      /\ left' = [left EXCEPT ![c] = Receivers]
      /\ UNCHANGED <<cmsg, retdata, reply>>
  BY DEF ReallocMove, Dispatch, clientVars
<1>3. MemoryTypes'
  <2> DEFINE f == msg[c].flag \cup {"allocdata", "succeeded"}
  <2>1. f \in SUBSET Flags /\ msg' = [msg EXCEPT ![c].flag = f]
    BY <1>2 DEF MemoryTypes, Flags
  <2> HIDE DEF f
  <2>2. msg' \in [Clients -> [block : Blocks \cup {None}, flag : SUBSET Flags, retsize : Nat]]
    BY <1>1, <1>2, <2>1 DEF MemoryTypes
  <2> QED
    BY <1>1, <1>2, <2>2 DEF MemoryTypes
<1>4. Others(c)
  BY <1>1, <1>2 DEF Others, MemoryTypes
<1>5. /\ msg'[c].block = msg[c].block /\ msg'[c].retsize = msg[c].retsize
      /\ msg'[c].flag = msg[c].flag \cup {"allocdata", "succeeded"}
      /\ pc'[c] = "serve" /\ data'[c] = b /\ b # None
  BY <1>1, <1>2, NoneAssumption DEF MemoryTypes
<1>6. Marked(c)' /\ Placed(c)'
  BY <1>2, <1>5 DEF Marked, Placed
<1>7. BlocksAreOwned'
  <2>1. \A h \in Held(c)' : h \in Held(c) \/ h = <<0, b>>
    BY <1>2, <1>5 DEF Held
  <2>2. \A d \in Clients : \A h \in Held(d)' :
          h[2] = None \/ h \in Held(d) \/ (d = c /\ h = <<0, b>>)
    BY <1>4, <2>1, HeldByOthers
  <2> QED
    BY <1>1, <2>2, OwnedAfterAlloc
<1>8. NoWildFree'
  BY <1>2 DEF ReallocMove, NoWildFree, Marked
<1> QED
  BY <1>3, <1>4, <1>6, <1>7, <1>8, OneClient

\* Nothing was allocated for the data.
LEMMA ReallocRefuseStep ==
  ASSUME MemoryInv, NEW c \in Clients, ReallocRefuse(c)
  PROVE  MemoryInv'
<1> USE DEF MemoryInv
<1>1. /\ pc[c] = "realloc" /\ pc' = [pc EXCEPT ![c] = "free"]
      /\ msg' = [msg EXCEPT ![c].flag = @ \ {"succeeded"}]
      /\ UNCHANGED <<cmsg, data, retdata, used, wild, left, reply>>
  BY DEF ReallocRefuse, clientVars
<1>2. MemoryTypes'
  BY <1>1 DEF MemoryTypes
<1>3. Others(c)
  BY <1>1 DEF Others, MemoryTypes
<1>4. /\ msg'[c].block = msg[c].block /\ msg'[c].retsize = msg[c].retsize
      /\ msg'[c].flag = msg[c].flag \ {"succeeded"}
      /\ pc'[c] = "free"
  BY <1>1 DEF MemoryTypes
<1>5. Marked(c)' /\ Placed(c)'
  BY <1>1, <1>4 DEF Marked, Placed
<1>6. BlocksAreOwned'
  BY <1>1, <1>3, <1>4, HeldAsBefore, HeldByOthers, OwnedAsBefore
<1>7. NoWildFree'
  BY <1>1 DEF NoWildFree
<1> QED
  BY <1>2, <1>3, <1>5, <1>6, <1>7, OneClient

\* Return data gets a block that was free, and the size that says so.
LEMMA RetdataAllocStep ==
  ASSUME MemoryInv, NEW c \in Clients, NEW p \in Receivers, RetdataAlloc(c, p)
  PROVE  MemoryInv'
<1> USE DEF MemoryInv
<1>1. PICK b \in Blocks \ used, n \in Sizes :
        /\ used' = used \cup {b}
        /\ retdata' = [retdata EXCEPT ![c] = <<[block |-> b, size |-> n, from |-> p]>> \o @]
        /\ msg' = [msg EXCEPT ![c].retsize = @ + n + Header]
  BY DEF RetdataAlloc
<1>2. /\ p \in left[c]
      /\ UNCHANGED <<cmsg, pc, data, wild, left, reply>>
  BY DEF RetdataAlloc, clientVars
<1> DEFINE e == [block |-> b, size |-> n, from |-> p]
           old == retdata[c]
           new == <<e>> \o old
<1>3. e \in Entry /\ old \in Seq(Entry)
  BY <1>1 DEF Entry, MemoryTypes
<1>4. /\ new \in Seq(Entry) /\ new # <<>>
      /\ \A i \in DOMAIN new :
           \/ i = 1 /\ new[i] = e
           \/ i - 1 \in DOMAIN old /\ new[i] = old[i - 1]
      /\ Len(new) = Len(old) + 1
  BY <1>3, Prepended
<1>5. retdata' = [retdata EXCEPT ![c] = new] /\ retdata'[c] = new
  BY <1>1 DEF MemoryTypes
<1> HIDE DEF new
<1>6. /\ msg'[c].block = msg[c].block /\ msg'[c].flag = msg[c].flag
      /\ msg'[c].retsize \in Nat \ {0}
  BY <1>1, SizesAssumption DEF MemoryTypes
<1>7. MemoryTypes'
  <2>1. retdata' \in [Clients -> Seq(Entry)]
    BY <1>4, <1>5 DEF MemoryTypes
  <2>2. msg' \in [Clients -> [block : Blocks \cup {None}, flag : SUBSET Flags, retsize : Nat]]
    <3>1. msg[c].retsize \in Nat /\ n \in Nat /\ Header \in Nat
      BY SizesAssumption DEF MemoryTypes
    <3>2. msg[c].retsize + n + Header \in Nat
      BY <3>1
    <3> QED
      BY <1>1, <3>2 DEF MemoryTypes
  <2> QED
    BY <1>1, <1>2, <2>1, <2>2 DEF MemoryTypes
<1>8. Others(c)
  BY <1>1, <1>2, <1>5 DEF Others, MemoryTypes
<1>9. Marked(c)' /\ Placed(c)'
  <2>1. pc[c] = "serve" /\ pc'[c] = "serve"
    BY <1>2 DEF Placed
  <2> QED
    BY <1>2, <1>4, <1>5, <1>6, <2>1 DEF Marked, Placed
<1>10. BlocksAreOwned'
  <2> DEFINE k == Len(old) + 1
  <2>1. Len(old) \in Nat
    BY <1>3, LenProperties
  <2>2. ASSUME NEW h \in Held(c)'
        PROVE  h \in Held(c) \/ h = <<k, b>>
    <3>1. CASE h \in {<<-1, msg'[c].block>>, <<0, data'[c]>>}
      BY <3>1, <1>2, <1>6 DEF Held
    <3>2. CASE \E i \in DOMAIN new : h = <<Len(new) + 1 - i, new[i].block>>
      <4>1. PICK i \in DOMAIN new : h = <<Len(new) + 1 - i, new[i].block>>
        BY <3>2
      <4>2. CASE i = 1 /\ new[i] = e
        BY <4>1, <4>2, <1>4, <2>1
      <4>3. CASE i - 1 \in DOMAIN old /\ new[i] = old[i - 1]
        <5>1. i \in Int
          BY <1>4, LenProperties
        <5>2. Len(new) + 1 - i = Len(old) + 1 - (i - 1)
          BY <5>1, <1>4, <2>1
        <5>3. h = <<Len(old) + 1 - (i - 1), old[i - 1].block>>
          BY <4>1, <4>3, <5>2
        <5> QED
          BY <4>3, <5>3 DEF Held
      <4> QED
        BY <1>4, <4>2, <4>3
    <3> QED
      BY <3>1, <3>2, <1>5 DEF Held
  <2>3. \A d \in Clients : \A h \in Held(d)' :
          h[2] = None \/ h \in Held(d) \/ (d = c /\ h = <<k, b>>)
    BY <1>8, <2>2, HeldByOthers
  <2> QED
    BY <1>1, <2>3, OwnedAfterAlloc
<1>11. NoWildFree'
  BY <1>2 DEF NoWildFree
<1> QED
  BY <1>7, <1>8, <1>9, <1>10, <1>11, OneClient

\* Only SUCCEEDED is taken away.
LEMMA RetdataRefuseStep ==
  ASSUME MemoryInv, NEW c \in Clients, NEW p \in Receivers, RetdataRefuse(c, p)
  PROVE  MemoryInv'
<1> USE DEF MemoryInv
<1>1. /\ p \in left[c]
      /\ msg' = [msg EXCEPT ![c].flag = @ \ {"succeeded"}]
      /\ UNCHANGED <<cmsg, pc, data, retdata, used, wild, left, reply>>
  BY DEF RetdataRefuse, clientVars
<1>2. MemoryTypes'
  BY <1>1 DEF MemoryTypes
<1>3. Others(c)
  BY <1>1 DEF Others, MemoryTypes
<1>4. /\ msg'[c].block = msg[c].block /\ msg'[c].retsize = msg[c].retsize
      /\ msg'[c].flag = msg[c].flag \ {"succeeded"}
      /\ pc[c] = "serve"
  BY <1>1 DEF MemoryTypes, Placed
<1>5. Marked(c)' /\ Placed(c)'
  BY <1>1, <1>4 DEF Marked, Placed
<1>6. BlocksAreOwned'
  BY <1>1, <1>3, <1>4, HeldAsBefore, HeldByOthers, OwnedAsBefore
<1>7. NoWildFree'
  BY <1>1 DEF NoWildFree
<1> QED
  BY <1>2, <1>3, <1>5, <1>6, <1>7, OneClient

\* Only SUCCEEDED is taken away, and the receiver.
LEMMA CountOffStep ==
  ASSUME MemoryInv, NEW c \in Clients, NEW p \in Receivers, CountOff(c, p)
  PROVE  MemoryInv'
<1> USE DEF MemoryInv
<1>1. /\ p \in left[c]
      /\ UNCHANGED msg \/ msg' = [msg EXCEPT ![c].flag = @ \ {"succeeded"}]
      /\ left' = [left EXCEPT ![c] = @ \ {p}]
      /\ pc' = [pc EXCEPT ![c] = IF left'[c] # {} THEN @
                                ELSE IF c \in Blocking THEN "write" ELSE "free"]
      /\ UNCHANGED <<cmsg, data, retdata, used, wild, reply>>
  BY DEF CountOff, clientVars
<1>2. MemoryTypes'
  <2>1. msg' \in [Clients -> [block : Blocks \cup {None}, flag : SUBSET Flags, retsize : Nat]]
    <3>1. CASE UNCHANGED msg
      BY <3>1 DEF MemoryTypes
    <3>2. CASE msg' = [msg EXCEPT ![c].flag = @ \ {"succeeded"}]
      BY <3>2 DEF MemoryTypes
    <3> QED
      BY <1>1, <3>1, <3>2
  <2> QED
    BY <1>1, <2>1 DEF MemoryTypes
<1>3. Others(c)
  BY <1>1 DEF Others, MemoryTypes
<1>4. /\ msg'[c].block = msg[c].block /\ msg'[c].retsize = msg[c].retsize
      /\ "allocdata" \in msg'[c].flag <=> "allocdata" \in msg[c].flag
  BY <1>1 DEF MemoryTypes
<1>5. /\ pc[c] = "serve" /\ reply[c] = NoReply
      /\ pc'[c] = IF left'[c] # {} THEN "serve"
                  ELSE IF c \in Blocking THEN "write" ELSE "free"
  BY <1>1 DEF MemoryTypes, Placed
<1>6. Marked(c)' /\ Placed(c)'
  BY <1>1, <1>4, <1>5 DEF Marked, Placed
<1>7. BlocksAreOwned'
  BY <1>1, <1>3, <1>4, HeldAsBefore, HeldByOthers, OwnedAsBefore
<1>8. NoWildFree'
  BY <1>1 DEF NoWildFree
<1> QED
  BY <1>2, <1>3, <1>6, <1>7, <1>8, OneClient

\* The answer leaves the memory as it is.
LEMMA WriteRetStep ==
  ASSUME MemoryInv, NEW c \in Clients, WriteRet(c)
  PROVE  MemoryInv'
<1> USE DEF MemoryInv
<1>1. /\ pc[c] = "write" /\ pc' = [pc EXCEPT ![c] = "free"]
      /\ UNCHANGED <<cmsg, msg, data, retdata, used, wild, left>>
  BY DEF WriteRet, clientVars, msgVars
<1>2. reply' = [d \in Clients |-> reply'[d]] /\ \A d \in Clients \ {c} : reply'[d] = reply[d]
  BY DEF WriteRet, MemoryTypes
<1>3. MemoryTypes'
  BY <1>1, <1>2 DEF MemoryTypes
<1>4. Others(c)
  BY <1>1, <1>2 DEF Others, MemoryTypes
<1>5. Marked(c)' /\ Placed(c)'
  BY <1>1 DEF Marked, Placed, MemoryTypes
<1>6. BlocksAreOwned'
  BY <1>1, <1>4, HeldAsBefore, HeldByOthers, OwnedAsBefore
<1>7. NoWildFree'
  BY <1>1 DEF NoWildFree
<1> QED
  BY <1>3, <1>4, <1>5, <1>6, <1>7, OneClient

\* What FreeMsg frees belongs to the message, and it frees nothing twice.
LEMMA FreedIsHeld ==
  ASSUME MemoryInv, NEW c \in Clients, pc[c] = "free"
  PROVE  /\ DataFreed(c) \cup RetdataFreed(c) \subseteq used \ {msg[c].block}
         /\ DataFreed(c) \cup RetdataFreed(c) \cup {msg[c].block}
              \subseteq {h[2] : h \in Held(c)}
<1> USE DEF MemoryInv
<1>1. <<-1, msg[c].block>> \in Held(c) /\ <<0, data[c]>> \in Held(c) /\ msg[c].block # None
  BY DEF Held, Marked
<1>2. DataFreed(c) \subseteq used \ {msg[c].block} /\ DataFreed(c) \subseteq {data[c]}
  <2>1. CASE "allocdata" \in msg[c].flag
    <3>1. data[c] # None
      BY <2>1 DEF Marked
    <3>2. data[c] \in used /\ data[c] # msg[c].block
      BY <1>1, <3>1 DEF BlocksAreOwned
    <3> QED
      BY <2>1, <3>2 DEF DataFreed
  <2>2. CASE "allocdata" \notin msg[c].flag
    BY <2>2 DEF DataFreed
  <2> QED
    BY <2>1, <2>2
<1>3. /\ RetdataFreed(c) \subseteq used \ {msg[c].block}
      /\ RetdataFreed(c) \subseteq {h[2] : h \in Held(c)}
  <2>1. CASE msg[c].retsize = 0
    BY <2>1 DEF RetdataFreed
  <2>2. CASE msg[c].retsize # 0
    <3>1. retdata[c] \in Seq(Entry) /\ retdata[c] # <<>>
      BY <2>2 DEF Marked, MemoryTypes
    <3>2. /\ Len(retdata[c]) \in Nat \ {0} /\ DOMAIN retdata[c] = 1 .. Len(retdata[c])
          /\ Head(retdata[c]) = retdata[c][1]
      BY <3>1, EmptySeq, LenProperties
    <3>3. 1 \in DOMAIN retdata[c] /\ Len(retdata[c]) + 1 - 1 = Len(retdata[c])
      BY <3>2
    <3> DEFINE h == <<Len(retdata[c]), retdata[c][1].block>>
    <3>4. h \in Held(c) /\ h[1] # -1 /\ h[2] = retdata[c][1].block
      BY <3>2, <3>3 DEF Held
    <3>5. retdata[c][1].block # None
      <4>1. retdata[c][1] \in Entry
        BY <3>1, <3>2, ElementOfSeq
      <4> QED
        BY <4>1, NoneAssumption DEF Entry
    <3>6. retdata[c][1].block \in used /\ retdata[c][1].block # msg[c].block
      <4>1. <<c, h>> # <<c, <<-1, msg[c].block>>>>
        BY <3>4
      <4> QED
        BY <1>1, <3>4, <3>5, <4>1 DEF BlocksAreOwned
    <3>7. RetdataFreed(c) = {h[2]}
      BY <2>2, <3>1, <3>2, <3>4 DEF RetdataFreed
    <3> QED
      BY <3>4, <3>6, <3>7
  <2> QED
    BY <2>1, <2>2
<1>4. msg[c].block \in {h[2] : h \in Held(c)} /\ data[c] \in {h[2] : h \in Held(c)}
  BY <1>1
<1> QED
  BY <1>2, <1>3, <1>4

\* The message gives back what is its own.
LEMMA FreeMsgStep ==
  ASSUME MemoryInv, NEW c \in Clients, FreeMsg(c)
  PROVE  MemoryInv'
<1> USE DEF MemoryInv
<1> DEFINE freed == DataFreed(c) \cup RetdataFreed(c)
<1>1. /\ pc[c] = "free" /\ pc' = [pc EXCEPT ![c] = "closed"]
      /\ used' = used \ (freed \cup {msg[c].block})
      /\ wild' = (wild \/ ~(freed \subseteq used \ {msg[c].block}))
      /\ msg' = [msg EXCEPT ![c] = NoMsg]
      /\ data' = [data EXCEPT ![c] = None]
      /\ retdata' = [retdata EXCEPT ![c] = <<>>]
      /\ UNCHANGED <<cmsg, left, reply>>
  BY DEF FreeMsg, clientVars
<1>2. freed \subseteq used \ {msg[c].block} /\ freed \cup {msg[c].block} \subseteq {h[2] : h \in Held(c)}
  BY <1>1, FreedIsHeld
<1> HIDE DEF freed
<1>3. MemoryTypes'
  <2>1. retdata' \in [Clients -> Seq(Entry)]
    BY <1>1, EmptySeq DEF MemoryTypes
  <2>2. NoMsg \in [block : Blocks \cup {None}, flag : SUBSET Flags, retsize : Nat]
    BY DEF NoMsg
  <2> QED
    BY <1>1, <2>1, <2>2 DEF MemoryTypes
<1>4. Others(c)
  BY <1>1 DEF Others, MemoryTypes
<1>5. msg'[c] = NoMsg /\ data'[c] = None /\ retdata'[c] = <<>> /\ pc'[c] = "closed" /\ left[c] = {}
  BY <1>1 DEF MemoryTypes, Placed
<1>6. Marked(c)' /\ Placed(c)'
  BY <1>1, <1>5 DEF Marked, Placed, NoMsg
<1>7. BlocksAreOwned'
  <2>1. \A h \in Held(c)' : h[2] = None
    BY <1>5 DEF Held, NoMsg
  <2> QED
    BY <1>1, <1>2, <1>4, <2>1, HeldByOthers, OwnedAfterFree
<1>8. NoWildFree'
  BY <1>1, <1>2 DEF NoWildFree
<1> QED
  BY <1>3, <1>4, <1>6, <1>7, <1>8, OneClient

\* The client reads into its own memory.
LEMMA ReadStep ==
  ASSUME MemoryInv, NEW c \in Clients, ReadRet(c) \/ ReadReset(c)
  PROVE  MemoryInv'
<1> USE DEF MemoryInv
<1>1. /\ pc[c] # "alloc"
      /\ UNCHANGED <<pc, msg, data, retdata, used, wild, left, reply>>
      /\ cmsg' = [d \in Clients |-> cmsg'[d]]
      /\ \A d \in Clients \ {c} : cmsg'[d] = cmsg[d]
  BY DEF ReadRet, ReadReset, msgVars, Placed, MemoryTypes
<1>2. MemoryTypes'
  BY <1>1 DEF MemoryTypes
<1>3. Others(c)
  BY <1>1 DEF Others, MemoryTypes
<1>4. Marked(c)' /\ Placed(c)'
  BY <1>1 DEF Marked, Placed
<1>5. BlocksAreOwned'
  BY <1>1, <1>3, HeldAsBefore, HeldByOthers, OwnedAsBefore
<1>6. NoWildFree'
  BY <1>1 DEF NoWildFree
<1> QED
  BY <1>2, <1>3, <1>4, <1>5, <1>6, OneClient

\* With one entry at most nothing of the message is left.
LEMMA FreeMsgFreesAll ==
  ASSUME MemoryInv, NEW c \in Clients, FreeMsg(c), Len(retdata[c]) <= 1
  PROVE  used' = used \ {h[2] : h \in Held(c)}
<1> USE DEF MemoryInv
<1> DEFINE freed == DataFreed(c) \cup RetdataFreed(c)
<1>1. pc[c] = "free" /\ used' = used \ (freed \cup {msg[c].block})
  BY DEF FreeMsg
<1>2. freed \cup {msg[c].block} \subseteq {h[2] : h \in Held(c)}
  BY <1>1, FreedIsHeld
<1>3. ASSUME NEW h \in Held(c), h[2] \in used PROVE h[2] \in freed \cup {msg[c].block}
  <2>1. h[2] # None
    BY <1>3, NoneAssumption DEF MemoryTypes
  <2>2. CASE h = <<-1, msg[c].block>>
    BY <2>2
  <2>3. CASE h = <<0, data[c]>>
    BY <2>1, <2>3 DEF Marked, DataFreed
  <2>4. CASE \E i \in DOMAIN retdata[c] : h = <<Len(retdata[c]) + 1 - i, retdata[c][i].block>>
    <3>1. PICK i \in DOMAIN retdata[c] : h[2] = retdata[c][i].block
      BY <2>4
    <3>2. retdata[c] \in Seq(Entry) /\ Len(retdata[c]) \in Nat /\ i \in 1 .. Len(retdata[c])
      BY <3>1, LenProperties DEF MemoryTypes
    <3>3. i = 1 /\ retdata[c] # <<>>
      BY <3>2, EmptySeq
    <3>4. RetdataFreed(c) = {retdata[c][1].block}
      BY <3>2, <3>3 DEF RetdataFreed, Marked
    <3> QED
      BY <3>1, <3>3, <3>4
  <2> QED
    BY <2>2, <2>3, <2>4 DEF Held
<1> HIDE DEF freed
<1> QED
  BY <1>1, <1>2, <1>3

-----------------------------------------------------------------------------
(* The invariant, and what follows from it.                                *)

\* It holds at first: no message has any memory.
LEMMA MemoryInit == Init => MemoryInv
<1> SUFFICES ASSUME Init PROVE MemoryInv
  OBVIOUS
<1>1. MemoryTypes
  BY EmptySeq DEF Init, MemoryTypes, NoMsg
<1>2. \A c \in Clients : Marked(c) /\ Placed(c)
  BY DEF Init, Marked, Placed, NoMsg
<1>3. BlocksAreOwned
  BY DEF Init, BlocksAreOwned, Held, NoMsg
<1> QED
  BY <1>1, <1>2, <1>3 DEF Init, MemoryInv, NoWildFree

\* Every step keeps it.
LEMMA MemoryStep == MemoryInv /\ [Next]_vars => MemoryInv'
<1> SUFFICES ASSUME MemoryInv, [Next]_vars PROVE MemoryInv'
  OBVIOUS
<1>1. CASE UNCHANGED vars
  <2>1. \A c \in Clients : Held(c)' = Held(c)
    BY <1>1 DEF vars, msgVars, Held
  <2>2. BlocksAreOwned'
    BY <1>1, <2>1, OwnedAsBefore DEF MemoryInv, vars, msgVars
  <2> QED
    BY <1>1, <2>2 DEF MemoryInv, MemoryTypes, Marked, Placed, NoWildFree, vars, clientVars, msgVars
<1>2. ASSUME NEW c \in Clients, Core(c) PROVE MemoryInv'
  BY <1>2, AllocMsgStep, RefuseMsgStep, ReallocKeepStep, ReallocMoveStep, ReallocRefuseStep,
     WriteRetStep, FreeMsgStep DEF Core
<1>3. ASSUME NEW c \in Clients, Client(c) PROVE MemoryInv'
  BY <1>3, SendStep, ReadStep DEF Client
<1>4. ASSUME NEW c \in Clients, NEW p \in Receivers, Receiver(c, p) PROVE MemoryInv'
  BY <1>4, RetdataAllocStep, RetdataRefuseStep, CountOffStep DEF Receiver
<1> QED
  BY <1>1, <1>2, <1>3, <1>4 DEF Next, AtRest

\* It holds in every state.
LEMMA MemoryHolds == Spec => []MemoryInv
BY MemoryInit, MemoryStep, PTL DEF Spec

\* What a message refers to is allocated, for it alone and for one purpose
\* (emi_shbuf.c:190-252, emi_ifr.c:190-203).
THEOREM BlocksHaveOneOwner == Spec => []BlocksAreOwned
<1>1. MemoryInv => BlocksAreOwned
  BY DEF MemoryInv
<1> QED
  BY <1>1, MemoryHolds, PTL

\* Only what is allocated is freed: ALLOCDATA and retsize tell truly what a
\* message has (emi_shbuf.c:205-222).
THEOREM NothingIsFreedTwice == Spec => []NoWildFree
<1>1. MemoryInv => NoWildFree
  BY DEF MemoryInv
<1> QED
  BY <1>1, MemoryHolds, PTL

\* A message with one piece of return data at most leaves nothing behind in the
\* buffer (emi_shbuf.c:205-222).
THEOREM MessagesAreFreedWholly == Spec => FreedCompletely
<1> DEFINE Wholly == \A c \in Clients :
             pc[c] = "free" /\ pc'[c] = "closed" /\ Len(retdata[c]) <= 1 =>
               used' = used \ {h[2] : h \in Held(c)}
<1>1. MemoryInv /\ [Next]_vars => [Wholly]_vars
  <2> SUFFICES ASSUME MemoryInv, Next, NEW c \in Clients,
                      pc[c] = "free", pc'[c] = "closed", Len(retdata[c]) <= 1
               PROVE  used' = used \ {h[2] : h \in Held(c)}
    OBVIOUS
  <2>1. FreeMsg(c)
    <3>1. left[c] = {} /\ pc \in [Clients -> {"alloc", "realloc", "serve", "write", "free", "closed"}]
      BY DEF MemoryInv, Placed, MemoryTypes
    <3>2. ASSUME NEW d \in Clients, Core(d) PROVE FreeMsg(c)
      BY <3>1, <3>2 DEF Core, AllocMsg, RefuseMsg, ReallocKeep, ReallocMove, ReallocRefuse,
         Dispatch, WriteRet, FreeMsg
    <3>3. ASSUME NEW d \in Clients, Client(d) PROVE FALSE
      BY <3>1, <3>3 DEF Client, Send, ReadRet, ReadReset
    <3>4. ASSUME NEW d \in Clients, NEW p \in Receivers, Receiver(d, p) PROVE FALSE
      BY <3>1, <3>4 DEF Receiver, RetdataAlloc, RetdataRefuse, CountOff
    <3> QED
      BY <3>2, <3>3, <3>4 DEF Next, AtRest, vars
  <2> QED
    BY <2>1, FreeMsgFreesAll
<1> QED
  BY <1>1, MemoryHolds, PTL DEF Spec, FreedCompletely

-----------------------------------------------------------------------------
(* Induction and recursion, from the well-founded order of the finite      *)
(* subsets of Nat.                                                         *)

\* A set of numbers that is not empty has a smallest one.
LEMMA LeastNumber ==
  ASSUME NEW T, T \subseteq Nat, T # {}
  PROVE  \E n \in T : \A m \in T : n <= m
<1> DEFINE Below == {0 .. n : n \in T}
<1>1. IsWellFoundedOn(StrictSubsetOrdering(Nat), FiniteSubsetsOf(Nat))
  BY FS_StrictSubsetOrderingWellFounded
<1>2. Below \subseteq FiniteSubsetsOf(Nat)
  <2>1. ASSUME NEW n \in T PROVE 0 .. n \subseteq Nat /\ IsFiniteSet(0 .. n)
    <3>1. 0 \in Int /\ n \in Int
      OBVIOUS
    <3> QED
      BY <3>1, FS_Interval
  <2> QED
    BY <2>1 DEF FiniteSubsetsOf
<1>3. Below # {}
  OBVIOUS
<1>4. \E s \in Below : \A u \in Below : ~(<<u, s>> \in StrictSubsetOrdering(Nat))
  <2> HIDE DEF Below
  <2> QED
    BY <1>1, <1>2, <1>3, WFMin
<1>5. PICK n \in T : \A m \in T : ~(<<0 .. m, 0 .. n>> \in StrictSubsetOrdering(Nat))
  BY <1>4
<1>6. ASSUME NEW m \in T, ~(n <= m) PROVE FALSE
  <2>1. 0 .. m \subseteq 0 .. n /\ n \in 0 .. n /\ n \notin 0 .. m
    BY <1>6
  <2>2. 0 .. m \in SUBSET Nat /\ 0 .. n \in SUBSET Nat
    OBVIOUS
  <2> QED
    BY <2>1, <2>2, <1>5 DEF StrictSubsetOrdering
<1> QED
  BY <1>6

\* Induction over the numbers, for a property given by the set that has it.
LEMMA Induction ==
  ASSUME NEW T, 0 \in T, \A n \in Nat : n \in T => n + 1 \in T
  PROVE  Nat \subseteq T
<1> SUFFICES ASSUME Nat \ T # {} PROVE FALSE
  OBVIOUS
<1>1. PICK n \in Nat \ T : \A m \in Nat \ T : n <= m
  BY LeastNumber
<1>2. n # 0 /\ n - 1 \in Nat /\ ~(n <= n - 1)
  OBVIOUS
<1>3. n - 1 \in T
  BY <1>1, <1>2
<1> QED
  BY <1>2, <1>3

\* f is on 1 .. k what starting from a and taking steps makes.
Recurses(f, k, S, a, step) ==
  /\ f \in [1 .. k -> S]
  /\ \A n \in 1 .. k : f[n] = IF n = 1 THEN a ELSE step[n][f[n - 1]]

\* What is defined from one number to the next exists.
LEMMA Recursion ==
  ASSUME NEW S, NEW a \in S, NEW step \in [Nat -> [S -> S]], NEW k \in Nat
  PROVE  \E f : Recurses(f, k, S, a, step)
<1> DEFINE Q(m, f) == Recurses(f, m, S, a, step)
           T == {m \in Nat : \E f : Q(m, f)}
<1>1. 0 \in T
  <2>1. Q(0, [n \in 1 .. 0 |-> a])
    BY DEF Recurses
  <2> QED
    BY <2>1
<1>2. ASSUME NEW m \in Nat, m \in T PROVE m + 1 \in T
  <2>1. PICK f : Q(m, f)
    BY <1>2
  <2> DEFINE new == IF m = 0 THEN a ELSE step[m + 1][f[m]]
             g == [n \in 1 .. m + 1 |-> IF n = m + 1 THEN new ELSE f[n]]
  <2>2. new \in S
    <3>1. CASE m = 0
      BY <3>1
    <3>2. CASE m # 0
      <4>1. f[m] \in S /\ step[m + 1] \in [S -> S]
        BY <2>1, <3>2 DEF Recurses
      <4> QED
        BY <4>1, <3>2
    <3> QED
      BY <3>1, <3>2
  <2>3. g \in [1 .. m + 1 -> S]
    <3> HIDE DEF new
    <3>1. ASSUME NEW n \in 1 .. m + 1 PROVE (IF n = m + 1 THEN new ELSE f[n]) \in S
      BY <2>1, <2>2 DEF Recurses
    <3> QED
      BY <3>1
  <2>4. ASSUME NEW n \in 1 .. m + 1
        PROVE  g[n] = IF n = 1 THEN a ELSE step[n][g[n - 1]]
    <3>1. CASE n = m + 1
      <4>1. g[n] = new
        BY <3>1
      <4>2. CASE m = 0
        BY <4>1, <4>2, <3>1
      <4>3. CASE m # 0
        <5>1. m \in 1 .. m + 1 /\ n - 1 = m /\ n # 1 /\ m # m + 1
          BY <3>1, <4>3
        <5>2. g[n - 1] = f[m]
          BY <5>1
        <5>3. new = step[n][f[m]]
          BY <3>1, <4>3
        <5> QED
          BY <4>1, <5>1, <5>2, <5>3
      <4> QED
        BY <4>2, <4>3
    <3>2. CASE n # m + 1
      <4>1. n \in 1 .. m /\ g[n] = f[n]
        BY <3>2
      <4>2. n # 1 => n - 1 \in 1 .. m + 1 /\ n - 1 # m + 1
        BY <4>1
      <4>3. n # 1 => g[n - 1] = f[n - 1]
        BY <4>2
      <4> HIDE DEF g, new
      <4> QED
        BY <2>1, <4>1, <4>3 DEF Recurses
    <3> QED
      BY <3>1, <3>2
  <2>5. Q(m + 1, g)
    <3> HIDE DEF g
    <3> QED
      BY <2>3, <2>4 DEF Recurses
  <2>6. m + 1 \in Nat /\ \E h : Q(m + 1, h)
    <3> HIDE DEF Q, g
    <3> QED
      BY <2>5
  <2> QED
    BY <2>6
<1>3. k \in T
  <2> HIDE DEF T
  <2> QED
    BY <1>1, <1>2, Induction
<1>4. PICK f : Q(k, f)
  BY <1>3
<1> QED
  BY <1>4

-----------------------------------------------------------------------------
(* What the client makes of the answer.                                    *)

\* What is sent of an entry of return data.
Piece == [size : Sizes, from : Receivers]

\* An entry has a length, and not 0.
LEMMA LengthType == \A e \in Piece : Length(e) \in Nat \ {0}
<1> SUFFICES ASSUME NEW e \in Piece PROVE Length(e) \in Nat \ {0}
  OBVIOUS
<1>1. e.size \in Nat /\ e.size # 0 /\ Header \in Nat
  BY SizesAssumption DEF Piece
<1> QED
  BY <1>1 DEF Length

\* The first entry starts at 0, and each one where the one before it ends.
LEMMA StartsIs ==
  ASSUME NEW s \in Seq(Piece)
  PROVE  /\ Starts(s) \in [1 .. Len(s) + 1 -> Nat]
         /\ Starts(s)[1] = 0
         /\ \A i \in 1 .. Len(s) : Starts(s)[i + 1] = Starts(s)[i] + Length(s[i])
<1> DEFINE step == [n \in Nat |-> [x \in Nat |->
             IF n - 1 \in 1 .. Len(s) THEN x + Length(s[n - 1]) ELSE x]]
<1>1. Len(s) \in Nat /\ Len(s) + 1 \in Nat /\ s \in [1 .. Len(s) -> Piece]
  BY LenProperties
<1>2. step \in [Nat -> [Nat -> Nat]]
  <2> SUFFICES ASSUME NEW n \in Nat, NEW x \in Nat
               PROVE  (IF n - 1 \in 1 .. Len(s) THEN x + Length(s[n - 1]) ELSE x) \in Nat
    OBVIOUS
  <2>1. CASE n - 1 \in 1 .. Len(s)
    <3>1. Length(s[n - 1]) \in Nat
      BY <1>1, <2>1, LengthType
    <3> QED
      BY <2>1, <3>1
  <2> QED
    BY <2>1
<1>3. PICK f : Recurses(f, Len(s) + 1, Nat, 0, step)
  <2>1. 0 \in Nat
    OBVIOUS
  <2> HIDE DEF step
  <2> QED
    BY <1>1, <1>2, <2>1, Recursion
<1>4. f = [n \in 1 .. Len(s) + 1 |-> IF n = 1 THEN 0 ELSE f[n - 1] + Length(s[n - 1])]
  <2>1. ASSUME NEW n \in 1 .. Len(s) + 1, n # 1
        PROVE  step[n][f[n - 1]] = f[n - 1] + Length(s[n - 1])
    <3>1. n - 1 \in 1 .. Len(s) + 1 /\ n - 1 \in 1 .. Len(s) /\ n \in Nat
      BY <1>1, <2>1
    <3>2. f[n - 1] \in Nat
      BY <1>3, <3>1 DEF Recurses
    <3> QED
      BY <3>1, <3>2
  <2>2. /\ f = [n \in 1 .. Len(s) + 1 |-> f[n]]
        /\ \A n \in 1 .. Len(s) + 1 : f[n] = IF n = 1 THEN 0 ELSE f[n - 1] + Length(s[n - 1])
    <3> HIDE DEF step
    <3> QED
      BY <1>3, <2>1 DEF Recurses
  <2> QED
    BY <2>2
<1> DEFINE start[i \in 1 .. Len(s) + 1] == IF i = 1 THEN 0 ELSE start[i - 1] + Length(s[i - 1])
<1>5. start = [i \in 1 .. Len(s) + 1 |-> IF i = 1 THEN 0 ELSE start[i - 1] + Length(s[i - 1])]
  BY <1>4, Zenon
<1>6. Starts(s) = start
  BY Zenon DEF Starts
<1>7. Starts(s) = [i \in 1 .. Len(s) + 1 |->
                     IF i = 1 THEN 0 ELSE Starts(s)[i - 1] + Length(s[i - 1])]
  BY <1>5, <1>6, Zenon
<1> HIDE DEF start
<1> DEFINE T == {m \in Nat : m + 1 \in 1 .. Len(s) + 1 => Starts(s)[m + 1] \in Nat}
<1>8. Starts(s)[1] = 0
  BY <1>1, <1>7
<1>9. ASSUME NEW i \in 1 .. Len(s) PROVE Starts(s)[i + 1] = Starts(s)[i] + Length(s[i])
  <2>1. i + 1 \in 1 .. Len(s) + 1 /\ i + 1 # 1 /\ (i + 1) - 1 = i
    BY <1>1
  <2> QED
    BY <1>7, <2>1
<1>10. 0 \in T
  BY <1>8
<1>11. ASSUME NEW m \in Nat, m \in T PROVE m + 1 \in T
  <2> SUFFICES ASSUME m + 2 \in 1 .. Len(s) + 1 PROVE Starts(s)[m + 2] \in Nat
    OBVIOUS
  <2>1. m + 1 \in 1 .. Len(s) /\ m + 1 \in 1 .. Len(s) + 1 /\ (m + 1) + 1 = m + 2
    BY <1>1
  <2>2. Starts(s)[m + 1] \in Nat /\ Length(s[m + 1]) \in Nat
    BY <1>1, <1>11, <2>1, LengthType
  <2>3. Starts(s)[m + 2] = Starts(s)[m + 1] + Length(s[m + 1])
    BY <1>9, <2>1
  <2> QED
    BY <2>2, <2>3
<1>12. ASSUME NEW i \in 1 .. Len(s) + 1 PROVE Starts(s)[i] \in Nat
  <2>1. Nat \subseteq T
    <3> HIDE DEF T
    <3> QED
      BY <1>10, <1>11, Induction
  <2>2. i - 1 \in Nat /\ (i - 1) + 1 = i
    BY <1>1
  <2>3. i - 1 \in T
    BY <2>1, <2>2
  <2> QED
    BY <2>2, <2>3
<1>13. Starts(s) \in [1 .. Len(s) + 1 -> Nat]
  <2>1. Starts(s) = [i \in 1 .. Len(s) + 1 |-> Starts(s)[i]]
    BY <1>7
  <2> QED
    BY <2>1, <1>12
<1> QED
  BY <1>8, <1>9, <1>13

\* No two entries start at the same offset.
LEMMA StartsGrow ==
  ASSUME NEW s \in Seq(Piece), NEW i \in 1 .. Len(s) + 1, NEW j \in 1 .. Len(s) + 1, i < j
  PROVE  Starts(s)[i] < Starts(s)[j]
<1> DEFINE T == {m \in Nat : i + m + 1 <= Len(s) + 1 => Starts(s)[i] < Starts(s)[i + m + 1]}
<1>1. Len(s) \in Nat /\ s \in [1 .. Len(s) -> Piece]
  BY LenProperties
<1>2. ASSUME NEW k \in 1 .. Len(s)
      PROVE  Starts(s)[k] \in Nat /\ Starts(s)[k + 1] \in Nat /\ Starts(s)[k] < Starts(s)[k + 1]
  <2>1. Starts(s)[k + 1] = Starts(s)[k] + Length(s[k])
    BY StartsIs
  <2>2. Length(s[k]) \in Nat \ {0}
    BY <1>1, LengthType
  <2>3. Starts(s)[k] \in Nat
    <3>1. k \in 1 .. Len(s) + 1
      BY <1>1
    <3> QED
      BY <3>1, StartsIs
  <2> QED
    BY <2>1, <2>2, <2>3
<1>3. 0 \in T
  <2> SUFFICES ASSUME i + 1 <= Len(s) + 1 PROVE Starts(s)[i] < Starts(s)[i + 1]
    OBVIOUS
  <2>1. i \in 1 .. Len(s)
    BY <1>1
  <2> QED
    BY <1>2, <2>1
<1>4. ASSUME NEW m \in Nat, m \in T PROVE m + 1 \in T
  <2> SUFFICES ASSUME i + (m + 1) + 1 <= Len(s) + 1
               PROVE  Starts(s)[i] < Starts(s)[i + (m + 1) + 1]
    OBVIOUS
  <2>1. i + m + 1 \in 1 .. Len(s) /\ (i + m + 1) + 1 = i + (m + 1) + 1 /\ i + m + 1 <= Len(s) + 1
    BY <1>1
  <2>2. Starts(s)[i] \in Nat
    BY StartsIs
  <2> QED
    BY <1>2, <1>4, <2>1, <2>2
<1>5. Nat \subseteq T
  <2> HIDE DEF T
  <2> QED
    BY <1>3, <1>4, Induction
<1>6. j - i - 1 \in Nat /\ i + (j - i - 1) + 1 = j /\ j <= Len(s) + 1
  BY <1>1
<1>7. j - i - 1 \in T
  BY <1>5, <1>6
<1> QED
  BY <1>6, <1>7

\* An offset leads to an entry or to none.
LEMMA EntryAtType ==
  ASSUME NEW s \in Seq(Piece), NEW o
  PROVE  EntryAt(s, o) \in 0 .. Len(s)
<1> DEFINE here == {i \in DOMAIN s : Starts(s)[i] = o}
<1>1. Len(s) \in Nat /\ DOMAIN s = 1 .. Len(s)
  BY LenProperties
<1>2. CASE here = {}
  BY <1>1, <1>2 DEF EntryAt
<1>3. CASE here # {}
  <2>1. (CHOOSE i \in here : TRUE) \in here
    BY <1>3
  <2> QED
    BY <1>1, <1>3, <2>1 DEF EntryAt
<1> QED
  BY <1>2, <1>3

\* The offset at which an entry starts leads to it.
LEMMA EntryAtStart ==
  ASSUME NEW s \in Seq(Piece), NEW i \in 1 .. Len(s)
  PROVE  EntryAt(s, Starts(s)[i]) = i
<1> DEFINE here == {j \in DOMAIN s : Starts(s)[j] = Starts(s)[i]}
<1>1. Len(s) \in Nat /\ DOMAIN s = 1 .. Len(s)
  BY LenProperties
<1>2. ASSUME NEW j \in here PROVE j = i
  <2>1. i \in 1 .. Len(s) + 1 /\ j \in 1 .. Len(s) + 1
    BY <1>1
  <2>2. ~(i < j) /\ ~(j < i)
    <3>1. Starts(s)[i] \in Nat /\ Starts(s)[j] = Starts(s)[i]
      BY <2>1, StartsIs
    <3>2. ~(Starts(s)[i] < Starts(s)[j]) /\ ~(Starts(s)[j] < Starts(s)[i])
      BY <3>1
    <3> HIDE DEF here
    <3> QED
      BY <2>1, <3>2, StartsGrow
  <2> QED
    BY <2>1, <2>2, <1>1
<1>3. i \in here
  BY <1>1
<1>4. here # {} /\ (CHOOSE j \in here : TRUE) = i
  BY <1>2, <1>3
<1> QED
  BY <1>4 DEF EntryAt

\* The first two entries.
LEMMA FirstEntries ==
  ASSUME NEW s \in Seq(Piece)
  PROVE  /\ Len(s) >= 1 => EntryAt(s, 0) = 1
         /\ Len(s) >= 2 => EntryAt(s, Length(s[1])) = 2
<1>1. Len(s) \in Nat /\ s \in [1 .. Len(s) -> Piece]
  BY LenProperties
<1>2. ASSUME Len(s) >= 1 PROVE EntryAt(s, 0) = 1
  <2>1. 1 \in 1 .. Len(s)
    BY <1>1, <1>2
  <2>2. EntryAt(s, Starts(s)[1]) = 1
    BY <2>1, EntryAtStart
  <2>3. Starts(s)[1] = 0
    BY StartsIs
  <2> QED
    BY <2>2, <2>3
<1>3. ASSUME Len(s) >= 2 PROVE EntryAt(s, Length(s[1])) = 2
  <2>1. 1 \in 1 .. Len(s) /\ 2 \in 1 .. Len(s)
    BY <1>1, <1>3
  <2>2. Starts(s)[1 + 1] = Starts(s)[1] + Length(s[1]) /\ Starts(s)[1] = 0
    BY <2>1, StartsIs
  <2>3. Starts(s)[2] = Length(s[1])
    <3>1. Length(s[1]) \in Nat
      BY <1>1, <2>1, LengthType
    <3> QED
      BY <2>2, <3>1
  <2>4. EntryAt(s, Starts(s)[2]) = 2
    BY <2>1, EntryAtStart
  <2> QED
    BY <2>3, <2>4
<1> QED
  BY <1>2, <1>3

\* What one turn of the loop does.
NextVisit(s, w) ==
  IF w.at = 0 \/ w.left <= Length(s[w.at]) THEN w
  ELSE [at |-> EntryAt(s, NextOffset(s[w.at])), left |-> w.left - Length(s[w.at])]

Visit(s) == [at : 0 .. Len(s), left : Int]

LEMMA NextVisitType ==
  ASSUME NEW s \in Seq(Piece), NEW w \in Visit(s)
  PROVE  NextVisit(s, w) \in Visit(s)
<1>1. Len(s) \in Nat /\ s \in [1 .. Len(s) -> Piece] /\ w.at \in 0 .. Len(s) /\ w.left \in Int
  BY LenProperties DEF Visit
<1>2. CASE w.at = 0 \/ w.left <= Length(s[w.at])
  BY <1>2 DEF NextVisit
<1>3. CASE ~(w.at = 0 \/ w.left <= Length(s[w.at]))
  <2>1. w.at \in 1 .. Len(s)
    BY <1>1, <1>3
  <2>2. Length(s[w.at]) \in Nat
    BY <1>1, <2>1, LengthType
  <2>3. w.left - Length(s[w.at]) \in Int
    BY <1>1, <2>2
  <2>4. EntryAt(s, NextOffset(s[w.at])) \in 0 .. Len(s)
    BY EntryAtType
  <2> QED
    BY <1>3, <2>3, <2>4 DEF NextVisit, Visit
<1> QED
  BY <1>2, <1>3

\* The loop starts with the first entry and takes one turn after the other.
LEMMA VisitsIs ==
  ASSUME NEW s \in Seq(Piece), NEW r \in Nat
  PROVE  /\ Visits(s, r) \in [1 .. r + 1 -> Visit(s)]
         /\ Visits(s, r)[1] = [at |-> EntryAt(s, 0), left |-> r]
         /\ \A n \in 1 .. r : Visits(s, r)[n + 1] = NextVisit(s, Visits(s, r)[n])
<1> DEFINE first == [at |-> EntryAt(s, 0), left |-> r]
           step == [n \in Nat |-> [w \in Visit(s) |-> NextVisit(s, w)]]
<1>1. r + 1 \in Nat /\ 1 \in 1 .. r + 1
  OBVIOUS
<1>2. step \in [Nat -> [Visit(s) -> Visit(s)]] /\ first \in Visit(s)
  BY NextVisitType, EntryAtType DEF Visit
<1>3. PICK f : Recurses(f, r + 1, Visit(s), first, step)
  <2> HIDE DEF step, first
  <2> QED
    BY <1>1, <1>2, Recursion
<1>4. f = [n \in 1 .. r + 1 |->
             IF n = 1 THEN first
             ELSE LET w == f[n - 1] IN
                  IF w.at = 0 \/ w.left <= Length(s[w.at]) THEN w
                  ELSE [at |-> EntryAt(s, NextOffset(s[w.at])),
                        left |-> w.left - Length(s[w.at])]]
  <2>1. ASSUME NEW n \in 1 .. r + 1, n # 1
        PROVE  step[n][f[n - 1]] = NextVisit(s, f[n - 1])
    <3>1. n - 1 \in 1 .. r + 1 /\ n \in Nat
      BY <1>1, <2>1
    <3>2. f[n - 1] \in Visit(s)
      BY <1>3, <3>1 DEF Recurses
    <3> QED
      BY <3>1, <3>2
  <2>2. /\ f = [n \in 1 .. r + 1 |-> f[n]]
        /\ \A n \in 1 .. r + 1 : f[n] = IF n = 1 THEN first ELSE NextVisit(s, f[n - 1])
    <3> HIDE DEF step, first
    <3> QED
      BY <1>3, <2>1 DEF Recurses
  <2> HIDE DEF first
  <2> QED
    BY <2>2 DEF NextVisit
<1> DEFINE walk[n \in 1 .. r + 1] ==
             IF n = 1 THEN [at |-> EntryAt(s, 0), left |-> r]
             ELSE LET w == walk[n - 1] IN
                  IF w.at = 0 \/ w.left <= Length(s[w.at]) THEN w
                  ELSE [at |-> EntryAt(s, NextOffset(s[w.at])),
                        left |-> w.left - Length(s[w.at])]
<1>5. walk = [n \in 1 .. r + 1 |->
                IF n = 1 THEN [at |-> EntryAt(s, 0), left |-> r]
                ELSE LET w == walk[n - 1] IN
                     IF w.at = 0 \/ w.left <= Length(s[w.at]) THEN w
                     ELSE [at |-> EntryAt(s, NextOffset(s[w.at])),
                           left |-> w.left - Length(s[w.at])]]
  BY <1>4, Zenon
<1>6. Visits(s, r) = walk
  BY Zenon DEF Visits
<1>7. Visits(s, r) = [n \in 1 .. r + 1 |->
                        IF n = 1 THEN first ELSE NextVisit(s, Visits(s, r)[n - 1])]
  <2>1. walk = [n \in 1 .. r + 1 |-> IF n = 1 THEN first ELSE NextVisit(s, walk[n - 1])]
    <3> HIDE DEF walk
    <3> QED
      BY <1>5 DEF NextVisit
  <2> HIDE DEF walk
  <2> QED
    BY <1>6, <2>1
<1> HIDE DEF walk
<1>8. Visits(s, r)[1] = first
  BY <1>1, <1>7
<1>9. ASSUME NEW n \in 1 .. r PROVE Visits(s, r)[n + 1] = NextVisit(s, Visits(s, r)[n])
  <2>1. n + 1 \in 1 .. r + 1 /\ n + 1 # 1 /\ (n + 1) - 1 = n
    OBVIOUS
  <2> QED
    BY <1>7, <2>1
<1> DEFINE T == {m \in Nat : m + 1 \in 1 .. r + 1 => Visits(s, r)[m + 1] \in Visit(s)}
<1>10. 0 \in T
  BY <1>2, <1>8
<1>11. ASSUME NEW m \in Nat, m \in T PROVE m + 1 \in T
  <2> SUFFICES ASSUME m + 2 \in 1 .. r + 1 PROVE Visits(s, r)[m + 2] \in Visit(s)
    OBVIOUS
  <2>1. m + 1 \in 1 .. r /\ m + 1 \in 1 .. r + 1 /\ (m + 1) + 1 = m + 2
    OBVIOUS
  <2>2. Visits(s, r)[m + 1] \in Visit(s)
    BY <1>11, <2>1
  <2>3. Visits(s, r)[m + 2] = NextVisit(s, Visits(s, r)[m + 1])
    BY <1>9, <2>1
  <2> QED
    BY <2>2, <2>3, NextVisitType
<1>12. ASSUME NEW n \in 1 .. r + 1 PROVE Visits(s, r)[n] \in Visit(s)
  <2>1. Nat \subseteq T
    <3> HIDE DEF T
    <3> QED
      BY <1>10, <1>11, Induction
  <2>2. n - 1 \in Nat /\ (n - 1) + 1 = n
    OBVIOUS
  <2>3. n - 1 \in T
    BY <2>1, <2>2
  <2> QED
    BY <2>2, <2>3
<1>13. Visits(s, r) \in [1 .. r + 1 -> Visit(s)]
  <2>1. Visits(s, r) = [n \in 1 .. r + 1 |-> Visits(s, r)[n]]
    BY <1>7
  <2> QED
    BY <2>1, <1>12
<1> QED
  BY <1>8, <1>9, <1>13

\* A walk that led out of the return data does not come back.
LEMMA OutForGood ==
  ASSUME NEW s \in Seq(Piece), NEW r \in Nat, NEW n \in 1 .. r + 1,
         Visits(s, r)[n].at = 0
  PROVE  Visits(s, r)[r + 1].at = 0
<1> DEFINE T == {m \in Nat : n + m <= r + 1 => Visits(s, r)[n + m].at = 0}
<1>1. 0 \in T
  OBVIOUS
<1>2. ASSUME NEW m \in Nat, m \in T PROVE m + 1 \in T
  <2> SUFFICES ASSUME n + (m + 1) <= r + 1 PROVE Visits(s, r)[n + (m + 1)].at = 0
    OBVIOUS
  <2>1. n + m \in 1 .. r /\ n + m <= r + 1 /\ (n + m) + 1 = n + (m + 1)
    OBVIOUS
  <2>2. Visits(s, r)[(n + m) + 1] = NextVisit(s, Visits(s, r)[n + m])
    <3> DEFINE k == n + m
    <3>1. k \in 1 .. r
      BY <2>1
    <3> HIDE DEF k
    <3>2. \A j \in 1 .. r : Visits(s, r)[j + 1] = NextVisit(s, Visits(s, r)[j])
      BY VisitsIs
    <3> QED
      BY <3>1, <3>2 DEF k
  <2> QED
    BY <1>2, <2>1, <2>2 DEF NextVisit
<1>3. Nat \subseteq T
  <2> HIDE DEF T
  <2> QED
    BY <1>1, <1>2, Induction
<1>4. r + 1 - n \in Nat /\ n + (r + 1 - n) = r + 1
  OBVIOUS
<1>5. r + 1 - n \in T
  BY <1>3, <1>4
<1> QED
  BY <1>4, <1>5

\* The client reaches return data, or garbage.
LEMMA ReadBackType ==
  ASSUME NEW s \in Seq(Piece), NEW r \in Nat
  PROVE  ReadBack(s, r) = Garbage \/ ReadBack(s, r) \in Seq(Piece)
<1> DEFINE walk == Visits(s, r)
           last == walk[r + 1].at
           First(n) == walk[n].at = last /\ \A k \in 1 .. n - 1 : walk[k].at # last
           end == CHOOSE n \in 1 .. r + 1 : First(n)
<1>1. ReadBack(s, r) = IF r = 0 THEN <<>> ELSE IF last = 0 THEN Garbage
                       ELSE [n \in 1 .. end |-> s[walk[n].at]]
  BY DEF ReadBack
<1>2. CASE r = 0
  BY <1>1, <1>2, EmptySeq
<1>3. CASE r # 0 /\ last = 0
  BY <1>1, <1>3
<1>4. CASE r # 0 /\ last # 0
  <2>1. \E n \in 1 .. r + 1 : First(n)
    <3> DEFINE T == {n \in 1 .. r + 1 : walk[n].at = last}
    <3>1. r + 1 \in T /\ T \subseteq Nat
      OBVIOUS
    <3>2. PICK n \in T : \A m \in T : n <= m
      <4> HIDE DEF T
      <4> QED
        BY <3>1, LeastNumber
    <3>3. ASSUME NEW k \in 1 .. n - 1 PROVE walk[k].at # last
      <4>1. k \in 1 .. r + 1 /\ ~(n <= k)
        OBVIOUS
      <4> QED
        BY <3>2, <4>1
    <3> QED
      BY <3>3
  <2>2. end \in 1 .. r + 1
    <3> HIDE DEF First
    <3> QED
      BY <2>1
  <2>3. ASSUME NEW n \in 1 .. end PROVE s[walk[n].at] \in Piece
    <3>1. n \in 1 .. r + 1
      BY <2>2
    <3>2. walk[n].at # 0
      BY <1>4, <3>1, OutForGood
    <3>3. walk[n] \in Visit(s)
      BY <3>1, VisitsIs
    <3>4. walk[n].at \in 1 .. Len(s) /\ s \in [1 .. Len(s) -> Piece]
      BY <3>2, <3>3, LenProperties DEF Visit
    <3> QED
      BY <3>4
  <2> HIDE DEF end, walk
  <2>4. [n \in 1 .. end |-> s[walk[n].at]] \in Seq(Piece)
    BY <2>2, <2>3, IsASeq
  <2> QED
    BY <1>1, <1>4, <2>4
<1> QED
  BY <1>2, <1>3, <1>4

\* Where the loop ends when it comes to an entry and stays there.
LEMMA ReadBackEnds ==
  ASSUME NEW s \in Seq(Piece), NEW r \in Nat \ {0}, NEW e \in 1 .. r + 1,
         Visits(s, r)[e].at # 0,
         \A n \in e .. r + 1 : Visits(s, r)[n].at = Visits(s, r)[e].at,
         \A n \in 1 .. e - 1 : Visits(s, r)[n].at # Visits(s, r)[e].at
  PROVE  ReadBack(s, r) = [n \in 1 .. e |-> s[Visits(s, r)[n].at]]
<1> DEFINE walk == Visits(s, r)
           last == walk[r + 1].at
           First(n) == walk[n].at = last /\ \A k \in 1 .. n - 1 : walk[k].at # last
           end == CHOOSE n \in 1 .. r + 1 : First(n)
<1>1. ReadBack(s, r) = IF r = 0 THEN <<>> ELSE IF last = 0 THEN Garbage
                       ELSE [n \in 1 .. end |-> s[walk[n].at]]
  BY DEF ReadBack
<1>2. r + 1 \in e .. r + 1
  OBVIOUS
<1>3. last = walk[e].at /\ last # 0
  BY <1>2
<1>4. First(e)
  BY <1>3
<1>5. ASSUME NEW n \in 1 .. r + 1, First(n) PROVE n = e
  <2>1. ~(n < e)
    <3> SUFFICES ASSUME n < e PROVE FALSE
      OBVIOUS
    <3>1. n \in 1 .. e - 1
      OBVIOUS
    <3> QED
      BY <1>3, <1>5, <3>1
  <2>2. ~(e < n)
    <3> SUFFICES ASSUME e < n PROVE FALSE
      OBVIOUS
    <3>1. e \in 1 .. n - 1
      OBVIOUS
    <3> QED
      BY <1>3, <1>5, <3>1
  <2> QED
    BY <2>1, <2>2
<1>6. end = e
  <2> HIDE DEF First
  <2> QED
    BY <1>4, <1>5
<1> HIDE DEF end, last
<1> QED
  BY <1>1, <1>3, <1>6

\* One entry comes back.
LEMMA ReadBackOne ==
  ASSUME NEW s \in Seq(Piece), Len(s) = 1
  PROVE  ReadBack(s, Length(s[1])) = s
<1> DEFINE r == Length(s[1])
           walk == Visits(s, r)
<1>1. s \in [1 .. 1 -> Piece] /\ r \in Nat \ {0}
  BY LenProperties, LengthType
<1> HIDE DEF r
<1>2. walk[1] = [at |-> 1, left |-> r] /\ \A n \in 1 .. r : walk[n + 1] = NextVisit(s, walk[n])
  BY <1>1, VisitsIs, FirstEntries
<1> HIDE DEF walk
<1> DEFINE T == {m \in Nat : m + 1 <= r + 1 => walk[m + 1] = [at |-> 1, left |-> r]}
<1>3. 0 \in T
  BY <1>2
<1>4. ASSUME NEW m \in Nat, m \in T PROVE m + 1 \in T
  <2> SUFFICES ASSUME m + 2 <= r + 1 PROVE walk[m + 2] = [at |-> 1, left |-> r]
    OBVIOUS
  <2> DEFINE k == m + 1
  <2>1. k \in 1 .. r /\ walk[k] = [at |-> 1, left |-> r] /\ m + 2 = k + 1
    BY <1>1, <1>4
  <2> HIDE DEF k
  <2>2. NextVisit(s, walk[k]) = walk[k]
    BY <1>1, <2>1 DEF NextVisit, r
  <2> QED
    BY <1>2, <2>1, <2>2
<1>5. ASSUME NEW n \in 1 .. r + 1 PROVE walk[n].at = 1
  <2>1. Nat \subseteq T
    <3> HIDE DEF T
    <3> QED
      BY <1>3, <1>4, Induction
  <2>2. n - 1 \in Nat /\ (n - 1) + 1 = n /\ n <= r + 1
    BY <1>1
  <2>3. n - 1 \in T
    <3> HIDE DEF T
    <3> QED
      BY <2>1, <2>2
  <2> QED
    BY <2>2, <2>3
<1>6. ReadBack(s, r) = [n \in 1 .. 1 |-> s[walk[n].at]]
  <2>1. 1 \in 1 .. r + 1 /\ walk[1].at = 1 /\ 1 - 1 = 0
    BY <1>1, <1>5
  <2> QED
    BY <1>1, <1>5, <2>1, ReadBackEnds DEF walk
<1>7. ReadBack(s, r) = s
  <2>1. \A n \in 1 .. 1 : s[walk[n].at] = s[n]
    BY <1>1, <1>5
  <2> QED
    BY <1>1, <1>6, <2>1
<1> QED
  BY <1>7 DEF r

\* Two entries come back, and the first two of more if they have one size.
LEMMA ReadBackTwo ==
  ASSUME NEW s \in Seq(Piece), Len(s) >= 2, NEW r \in Nat, r > Length(s[1]),
         r <= Length(s[1]) + Length(s[2]) \/ Length(s[1]) = Length(s[2])
  PROVE  ReadBack(s, r) = <<s[1], s[2]>>
<1> DEFINE walk == Visits(s, r)
<1>1. Len(s) \in Nat /\ s \in [1 .. Len(s) -> Piece] /\ 1 \in 1 .. Len(s) /\ 2 \in 1 .. Len(s)
  BY LenProperties
<1>2. Length(s[1]) \in Nat \ {0} /\ Length(s[2]) \in Nat \ {0}
  BY <1>1, LengthType
<1>3. r \in Nat \ {0, 1} /\ 1 \in 1 .. r /\ 2 \in 1 .. r + 1
  BY <1>2
<1>4. walk[1] = [at |-> 1, left |-> r] /\ \A n \in 1 .. r : walk[n + 1] = NextVisit(s, walk[n])
  BY VisitsIs, FirstEntries
<1>5. walk[2] = [at |-> 2, left |-> r - Length(s[1])]
  <2>1. walk[1 + 1] = NextVisit(s, walk[1])
    BY <1>3, <1>4
  <2>2. NextOffset(s[1]) = Length(s[1])
    BY DEF NextOffset
  <2>3. EntryAt(s, Length(s[1])) = 2
    BY FirstEntries
  <2>4. ~(r <= Length(s[1]))
    BY <1>2
  <2> HIDE DEF walk
  <2> QED
    BY <1>4, <2>1, <2>2, <2>3, <2>4 DEF NextVisit
<1> DEFINE T == {m \in Nat : m + 2 <= r + 1 =>
                   /\ walk[m + 2].at = 2 /\ walk[m + 2].left \in Int
                   /\ walk[m + 2].left <= Length(s[2]) \/ Length(s[1]) = Length(s[2])}
<1>6. 0 \in T
  <2> HIDE DEF walk
  <2> QED
    BY <1>2, <1>5
<1>7. ASSUME NEW m \in Nat, m \in T PROVE m + 1 \in T
  <2> DEFINE k == m + 2
  <2> SUFFICES ASSUME m + 3 <= r + 1
               PROVE  /\ walk[k + 1].at = 2 /\ walk[k + 1].left \in Int
                      /\ walk[k + 1].left <= Length(s[2]) \/ Length(s[1]) = Length(s[2])
    OBVIOUS
  <2>1. /\ k \in 1 .. r /\ walk[k].at = 2 /\ walk[k].left \in Int
        /\ walk[k].left <= Length(s[2]) \/ Length(s[1]) = Length(s[2])
    BY <1>7
  <2> HIDE DEF k, walk
  <2>2. walk[k + 1] = NextVisit(s, walk[k])
    BY <1>4, <2>1
  <2>3. CASE walk[k].left <= Length(s[2])
    BY <2>1, <2>2, <2>3 DEF NextVisit
  <2>4. CASE ~(walk[k].left <= Length(s[2]))
    <3>1. NextOffset(s[2]) = Length(s[1])
      BY <2>1, <2>4 DEF NextOffset
    <3>2. walk[k + 1] = [at |-> 2, left |-> walk[k].left - Length(s[2])]
      BY <2>1, <2>2, <2>4, <3>1, FirstEntries DEF NextVisit
    <3> QED
      BY <1>2, <2>1, <2>4, <3>2
  <2> QED
    BY <2>3, <2>4
<1>8. ASSUME NEW n \in 2 .. r + 1 PROVE walk[n].at = 2
  <2>1. Nat \subseteq T
    <3> HIDE DEF T
    <3> QED
      BY <1>6, <1>7, Induction
  <2>2. n - 2 \in Nat /\ (n - 2) + 2 = n /\ n <= r + 1
    BY <1>3
  <2>3. n - 2 \in T
    <3> HIDE DEF T
    <3> QED
      BY <2>1, <2>2
  <2> QED
    BY <2>2, <2>3
<1>9. ReadBack(s, r) = [n \in 1 .. 2 |-> s[walk[n].at]]
  <2>1. 2 \in 2 .. r + 1
    BY <1>3
  <2>2. \A n \in 2 .. r + 1 : walk[n].at = walk[2].at
    BY <1>8, <2>1
  <2>3. ASSUME NEW n \in 1 .. 2 - 1 PROVE walk[n].at # walk[2].at
    <3>1. n = 1
      OBVIOUS
    <3> HIDE DEF walk
    <3> QED
      BY <1>4, <1>5, <3>1
  <2>4. walk[2].at # 0 /\ 2 \in 1 .. r + 1 /\ r \in Nat \ {0}
    BY <1>3, <1>8, <2>1
  <2> QED
    BY <2>2, <2>3, <2>4, ReadBackEnds
<1>10. walk[1].at = 1 /\ walk[2].at = 2
  <2> HIDE DEF walk
  <2> QED
    BY <1>4, <1>5
<1> HIDE DEF walk
<1>11. ReadBack(s, r) = [n \in 1 .. 2 |-> s[n]]
  BY <1>9, <1>10
<1> QED
  BY <1>11

-----------------------------------------------------------------------------
(* What the client gets.                                                   *)

\* The pieces of data in a list of return data.
Pieces(s) == [i \in DOMAIN s |-> [size |-> s[i].size, from |-> s[i].from]]

\* The retsize that belongs to return data; of more than two entries it only
\* matters that it goes beyond the first two.
Fits(s, n) ==
  /\ Len(s) = 0 => n = 0
  /\ Len(s) = 1 => n = Length(s[1])
  /\ Len(s) = 2 => n = Length(s[1]) + Length(s[2])
  /\ Len(s) > 2 => n > Length(s[1]) + Length(s[2])

DataTypes ==
  /\ cpc \in [Clients -> {"idle", "wait"}]
  /\ sends \in [Clients -> 0 .. MaxSends]
  /\ cmsg \in [Clients -> [flag : SUBSET Flags, retsize : Nat]]
  /\ cdata = [c \in Clients |-> cdata[c]]
  /\ \A c \in Clients : cdata[c] = Garbage \/ cdata[c] \in Seq(Piece)
  /\ result \in [Clients -> {"none", "ok", "fail"}]
  /\ filled \in [Clients -> Seq(Piece)]
  /\ refused \in [Clients -> BOOLEAN]

\* Until the message is freed its list has what the handlers were given, its
\* retsize fits that, and it is not marked SUCCEEDED when one was refused.
Listed(c) ==
  pc[c] \in {"alloc", "realloc", "serve", "write"} =>
    /\ Pieces(retdata[c]) = Reverse(filled[c])
    /\ Fits(Reverse(filled[c]), msg[c].retsize)
    /\ refused[c] => pc[c] \in {"serve", "write"} /\ "succeeded" \notin msg[c].flag

\* The same of the answer, and what the client has made of it.
Answered(c) ==
  /\ cpc[c] = "wait" => c \in Blocking /\ cmsg[c] = Fresh
  /\ reply[c] # NoReply =>
       /\ reply[c] \in [flag : SUBSET Flags, retsize : Nat, retdata : Seq(Piece)]
       /\ reply[c].retdata = Reverse(filled[c])
       /\ Fits(Reverse(filled[c]), reply[c].retsize)
       /\ refused[c] => "succeeded" \notin reply[c].flag
  /\ c \in Blocking /\ cpc[c] = "idle" /\ result[c] = "ok" =>
       /\ reply[c] # NoReply
       /\ "succeeded" \in reply[c].flag
       /\ cdata[c] = ReadBack(reply[c].retdata, reply[c].retsize)

DataInv == DataTypes /\ \A c \in Clients : Listed(c) /\ Answered(c)

-----------------------------------------------------------------------------
\* Return data that is read with the retsize that fits it.
LEMMA ReadBackFits ==
  ASSUME NEW s \in Seq(Piece), NEW n \in Nat, Fits(s, n)
  PROVE  /\ Len(s) <= 2 => ReadBack(s, n) = s
         /\ Len(s) > 2 /\ s[1].size = s[2].size => ReadBack(s, n) = SubSeq(s, 1, 2)
<1>1. Len(s) \in Nat /\ s \in [1 .. Len(s) -> Piece]
  BY LenProperties
<1>2. CASE Len(s) = 0
  <2>1. s = <<>>
    BY <1>2, EmptySeq
  <2> QED
    BY <1>2, <2>1 DEF Fits, ReadBack
<1>3. CASE Len(s) = 1
  BY <1>3, ReadBackOne DEF Fits
<1>4. ASSUME Len(s) >= 2, Len(s) = 2 \/ s[1].size = s[2].size
      PROVE  ReadBack(s, n) = <<s[1], s[2]>>
  <2>1. Length(s[1]) \in Nat \ {0} /\ Length(s[2]) \in Nat \ {0}
    <3>1. 1 \in 1 .. Len(s) /\ 2 \in 1 .. Len(s)
      BY <1>1, <1>4
    <3> QED
      BY <1>1, <3>1, LengthType
  <2>2. CASE Len(s) = 2
    <3>1. n = Length(s[1]) + Length(s[2])
      BY <2>2 DEF Fits
    <3>2. n > Length(s[1]) /\ n <= Length(s[1]) + Length(s[2])
      BY <2>1, <3>1
    <3> QED
      BY <1>4, <3>2, ReadBackTwo
  <2>3. CASE Len(s) > 2
    <3>1. n > Length(s[1]) + Length(s[2])
      BY <2>3 DEF Fits
    <3>2. n > Length(s[1])
      BY <2>1, <3>1
    <3>3. Length(s[1]) = Length(s[2])
      BY <1>1, <1>4, <2>3 DEF Length
    <3> QED
      BY <1>4, <3>2, <3>3, ReadBackTwo
  <2> QED
    BY <1>1, <1>4, <2>2, <2>3
<1>5. CASE Len(s) = 2
  <2>1. s = <<s[1], s[2]>>
    BY <1>1, <1>5
  <2> QED
    BY <1>4, <1>5, <2>1
<1>6. CASE Len(s) > 2
  <2>1. ASSUME s[1].size = s[2].size PROVE ReadBack(s, n) = SubSeq(s, 1, 2)
    <3>1. ReadBack(s, n) = <<s[1], s[2]>>
      BY <1>4, <1>6, <2>1, <1>1
    <3> DEFINE u == SubSeq(s, 1, 2)
    <3>2. u \in Seq(Piece) /\ Len(u) = 2 /\ u[1] = s[1] /\ u[2] = s[2]
      <4>1. \A i \in 1 .. 2 : s[i] \in Piece
        BY <1>1, <1>6
      <4>2. /\ u \in Seq(Piece) /\ Len(u) = IF 1 <= 2 THEN 2 - 1 + 1 ELSE 0
            /\ \A i \in 1 .. 2 - 1 + 1 : u[i] = s[1 + i - 1]
        BY <4>1, SubSeqProperties
      <4>3. u[1] = s[1 + 1 - 1] /\ u[2] = s[1 + 2 - 1]
        BY <4>2
      <4> QED
        BY <4>2, <4>3
    <3> HIDE DEF u
    <3>3. u = <<s[1], s[2]>>
      <4>1. u \in [1 .. 2 -> Piece]
        BY <3>2, LenProperties
      <4> QED
        BY <3>2, <4>1
    <3> QED
      BY <3>1, <3>3 DEF u
  <2> QED
    BY <1>6, <2>1
<1> QED
  BY <1>1, <1>2, <1>3, <1>5, <1>6

\* The reverse of a sequence.
LEMMA ReverseIs ==
  ASSUME NEW S, NEW s \in Seq(S)
  PROVE  /\ Reverse(s) \in Seq(S)
         /\ Len(Reverse(s)) = Len(s)
         /\ \A i \in 1 .. Len(s) : Reverse(s)[i] = s[Len(s) + 1 - i]
<1>1. Len(s) \in Nat /\ s \in [1 .. Len(s) -> S]
  BY LenProperties
<1>2. ASSUME NEW i \in 1 .. Len(s) PROVE s[(Len(s) - i) + 1] \in S
  <2>1. (Len(s) - i) + 1 \in 1 .. Len(s)
    BY <1>1
  <2> QED
    BY <1>1, <2>1
<1>3. Reverse(s) = [i \in 1 .. Len(s) |-> s[(Len(s) - i) + 1]]
  BY DEF Reverse
<1>4. Reverse(s) \in [1 .. Len(s) -> S]
  BY <1>2, <1>3
<1>5. Reverse(s) \in Seq(S)
  BY <1>1, <1>2, <1>3, IsASeq
<1>6. Len(Reverse(s)) = Len(s)
  BY <1>1, <1>4, <1>5, LenProperties
<1>7. ASSUME NEW i \in 1 .. Len(s) PROVE Reverse(s)[i] = s[Len(s) + 1 - i]
  <2>1. (Len(s) - i) + 1 = Len(s) + 1 - i
    BY <1>1
  <2> QED
    BY <1>3, <2>1
<1> QED
  BY <1>5, <1>6, <1>7

\* One more entry is the last that was given and the first of the list.
LEMMA OneMorePiece ==
  ASSUME NEW s \in Seq(Entry), NEW e \in Entry, NEW f \in Seq(Piece),
         Pieces(s) = Reverse(f)
  PROVE  LET p == [size |-> e.size, from |-> e.from] IN
         /\ p \in Piece
         /\ Append(f, p) \in Seq(Piece)
         /\ Pieces(<<e>> \o s) = Reverse(Append(f, p))
         /\ \A n \in Nat : Fits(Reverse(f), n) => Fits(Reverse(Append(f, p)), n + Length(e))
<1> DEFINE p == [size |-> e.size, from |-> e.from]
           t == <<e>> \o s
           g == Append(f, p)
           r == Reverse(f)
           q == Reverse(g)
<1>1. p \in Piece /\ Length(p) = Length(e)
  BY DEF Entry, Piece, Length
<1> HIDE DEF p
<1>2. g \in Seq(Piece) /\ Len(g) = Len(f) + 1 /\ g[Len(f) + 1] = p
      /\ \A i \in 1 .. Len(f) : g[i] = f[i]
  BY <1>1, AppendProperties
<1>3. t \in Seq(Entry) /\ Len(t) = Len(s) + 1
      /\ \A i \in DOMAIN t :
           \/ i = 1 /\ t[i] = e
           \/ i - 1 \in DOMAIN s /\ t[i] = s[i - 1]
  BY Prepended
<1> HIDE DEF g, t
<1>4. /\ Len(f) \in Nat /\ Len(s) \in Nat /\ DOMAIN s = 1 .. Len(s)
      /\ DOMAIN t = 1 .. Len(s) + 1
  BY <1>3, LenProperties
<1>5. /\ r \in Seq(Piece) /\ Len(r) = Len(f)
      /\ \A i \in 1 .. Len(f) : r[i] = f[Len(f) + 1 - i]
  BY ReverseIs
<1>6. /\ q \in Seq(Piece) /\ Len(q) = Len(f) + 1
      /\ \A i \in 1 .. Len(f) + 1 : q[i] = g[Len(f) + 2 - i]
  <2>1. /\ q \in Seq(Piece) /\ Len(q) = Len(f) + 1
        /\ \A i \in 1 .. Len(f) + 1 : q[i] = g[Len(g) + 1 - i]
    BY <1>2, ReverseIs
  <2>2. \A i \in 1 .. Len(f) + 1 : Len(g) + 1 - i = Len(f) + 2 - i
    BY <1>2, <1>4
  <2> QED
    BY <2>1, <2>2
<1> HIDE DEF r, q
<1>7. q[1] = p /\ \A i \in 1 .. Len(f) : q[i + 1] = r[i]
  <2>1. q[1] = p
    BY <1>2, <1>4, <1>6
  <2>2. ASSUME NEW i \in 1 .. Len(f) PROVE q[i + 1] = r[i]
    <3> DEFINE j == Len(f) + 1 - i
    <3>1. i + 1 \in 1 .. Len(f) + 1 /\ Len(f) + 2 - (i + 1) = j /\ j \in 1 .. Len(f)
      BY <1>4
    <3>2. q[i + 1] = g[Len(f) + 2 - (i + 1)] /\ r[i] = f[j]
      BY <1>5, <1>6, <3>1
    <3> HIDE DEF j
    <3> QED
      BY <1>2, <3>1, <3>2
  <2> QED
    BY <2>1, <2>2
<1>8. Len(f) = Len(s) /\ \A i \in 1 .. Len(s) : r[i] = [size |-> s[i].size, from |-> s[i].from]
  <2>1. DOMAIN r = 1 .. Len(f) /\ Pieces(s) = r
    BY <1>5, LenProperties DEF r
  <2>2. 1 .. Len(f) = 1 .. Len(s)
    BY <1>4, <2>1 DEF Pieces
  <2>3. Len(f) = Len(s)
    BY <1>4, <2>2
  <2> QED
    BY <1>4, <2>1, <2>3 DEF Pieces
<1>9. Pieces(t) = q
  <2>1. DOMAIN q = 1 .. Len(s) + 1 /\ q = [i \in 1 .. Len(s) + 1 |-> q[i]]
    <3>1. q \in [1 .. Len(q) -> Piece]
      BY <1>6, LenProperties
    <3> QED
      BY <1>6, <1>8, <3>1
  <2>2. ASSUME NEW i \in 1 .. Len(s) + 1
        PROVE  [size |-> t[i].size, from |-> t[i].from] = q[i]
    <3>1. CASE i = 1 /\ t[i] = e
      BY <3>1, <1>7 DEF p
    <3>2. CASE i - 1 \in DOMAIN s /\ t[i] = s[i - 1]
      <4> DEFINE j == i - 1
      <4>1. j \in 1 .. Len(s) /\ i = j + 1
        BY <1>4, <3>2
      <4>2. t[i] = s[j]
        BY <3>2
      <4> HIDE DEF j
      <4> QED
        BY <1>7, <1>8, <4>1, <4>2
    <3> QED
      BY <1>3, <1>4, <3>1, <3>2
  <2> QED
    BY <1>4, <2>1, <2>2 DEF Pieces
<1>10. ASSUME NEW n \in Nat, Fits(r, n) PROVE Fits(q, n + Length(e))
  <2>1. r \in [1 .. Len(f) -> Piece] /\ Length(e) \in Nat \ {0}
    BY <1>1, <1>5, LenProperties, LengthType
  <2>2. \A i \in 1 .. Len(f) : Length(r[i]) \in Nat \ {0}
    BY <2>1, LengthType
  <2>3. Length(q[1]) = Length(e) /\ \A i \in 1 .. Len(f) : Length(q[i + 1]) = Length(r[i])
    BY <1>1, <1>7
  <2>4. CASE Len(f) = 0
    BY <1>5, <1>6, <1>10, <2>1, <2>3, <2>4 DEF Fits
  <2>5. CASE Len(f) = 1
    <3>1. n = Length(r[1]) /\ 1 \in 1 .. Len(f)
      BY <1>5, <1>10, <2>5 DEF Fits
    <3>2. Length(q[1 + 1]) = n
      BY <2>3, <3>1
    <3>3. Length(q[2]) = n
      BY <3>2
    <3>4. n + Length(e) = Length(q[1]) + Length(q[2])
      BY <2>1, <2>3, <3>3
    <3> QED
      BY <1>6, <2>5, <3>4 DEF Fits
  <2>6. CASE Len(f) > 1
    <3>1. 1 \in 1 .. Len(f) /\ 2 \in 1 .. Len(f)
      BY <1>4, <2>6
    <3>2. Length(q[1 + 1]) = Length(r[1])
      BY <2>3, <3>1
    <3>3. Length(q[2]) = Length(r[1]) /\ Length(r[1]) \in Nat \ {0} /\ Length(r[2]) \in Nat \ {0}
      BY <2>2, <3>1, <3>2
    <3>4. n >= Length(r[1]) + Length(r[2])
      <4>1. Len(f) = 2 \/ Len(f) > 2
        <5>1. ASSUME NEW k \in Nat, k > 1 PROVE k = 2 \/ k > 2
          BY <5>1
        <5> QED
          BY <1>4, <2>6, <5>1
      <4>2. n = Length(r[1]) + Length(r[2]) \/ n > Length(r[1]) + Length(r[2])
        BY <1>5, <1>10, <4>1 DEF Fits
      <4> QED
        BY <3>3, <4>2
    <3>5. n + Length(e) > Length(q[1]) + Length(q[2])
      BY <2>1, <2>3, <3>3, <3>4
    <3> QED
      BY <1>4, <1>6, <2>6, <3>5 DEF Fits
  <2>7. ASSUME NEW k \in Nat PROVE k = 0 \/ k = 1 \/ k > 1
    OBVIOUS
  <2> QED
    BY <1>4, <2>4, <2>5, <2>6, <2>7
<1> QED
  BY <1>1, <1>2, <1>9, <1>10 DEF p, t, g, r, q

-----------------------------------------------------------------------------
(* The actions again.                                                      *)

\* What belongs to another client stays as it was, its answer included.
Aside(c) ==
  \A d \in Clients \ {c} :
    /\ cpc'[d] = cpc[d] /\ cmsg'[d] = cmsg[d] /\ cdata'[d] = cdata[d]
    /\ result'[d] = result[d] /\ pc'[d] = pc[d] /\ msg'[d] = msg[d]
    /\ retdata'[d] = retdata[d] /\ reply'[d] = reply[d]
    /\ filled'[d] = filled[d] /\ refused'[d] = refused[d]

LEMMA OneClientData ==
  ASSUME NEW c \in Clients, \A d \in Clients : Listed(d) /\ Answered(d),
         Aside(c), Listed(c)', Answered(c)'
  PROVE  \A d \in Clients : (Listed(d) /\ Answered(d))'
<1> SUFFICES ASSUME NEW d \in Clients, d # c PROVE (Listed(d) /\ Answered(d))'
  OBVIOUS
<1> QED
  BY DEF Aside, Listed, Answered

\* An answer has flags, unlike NoReply.
LEMMA AnswerIsReply ==
  \A a : a.flag \in SUBSET Flags => a # NoReply
BY DEF Flags, NoReply

\* Nothing is listed of a new message.
LEMMA NothingListed ==
  Pieces(<<>>) = Reverse(<<>>) /\ Fits(Reverse(<<>>), 0)
<1>1. Reverse(<<>>) = <<>>
  <2>1. <<>> \in Seq(Piece) /\ Len(<<>>) = 0
    BY EmptySeq
  <2>2. Reverse(<<>>) \in Seq(Piece) /\ Len(Reverse(<<>>)) = 0
    BY <2>1, ReverseIs
  <2> QED
    BY <2>2, EmptySeq
<1> QED
  BY <1>1 DEF Pieces, Fits

LEMMA SendData ==
  ASSUME MemoryInv, DataInv, NEW c \in Clients, Send(c)
  PROVE  DataInv'
<1> USE DEF DataInv
<1>1. /\ pc[c] = "closed" /\ sends[c] < MaxSends
      /\ cmsg' = [cmsg EXCEPT ![c] = Fresh]
      /\ cpc' = [cpc EXCEPT ![c] = IF c \in Blocking THEN "wait" ELSE "idle"]
      /\ result' = [result EXCEPT ![c] = IF c \in Blocking THEN "none" ELSE "ok"]
      /\ sends' = [sends EXCEPT ![c] = @ + 1]
      /\ cdata' = [cdata EXCEPT ![c] = <<>>]
      /\ pc' = [pc EXCEPT ![c] = "alloc"]
      /\ reply' = [reply EXCEPT ![c] = NoReply]
      /\ filled' = [filled EXCEPT ![c] = <<>>]
      /\ refused' = [refused EXCEPT ![c] = FALSE]
      /\ UNCHANGED <<msg, retdata>>
  BY DEF Send, msgVars
<1>2. DataTypes'
  <2>1. sends' \in [Clients -> 0 .. MaxSends]
    <3>1. sends[c] \in 0 .. MaxSends /\ MaxSends \in Nat
      BY BoundsAssumption DEF DataTypes
    <3>2. sends[c] + 1 \in 0 .. MaxSends
      BY <1>1, <3>1
    <3> QED
      BY <1>1, <3>2 DEF DataTypes
  <2>2. Fresh \in [flag : SUBSET Flags, retsize : Nat]
    BY DEF Fresh
  <2>3. <<>> \in Seq(Piece)
    BY EmptySeq
  <2>4. cmsg' \in [Clients -> [flag : SUBSET Flags, retsize : Nat]]
    BY <1>1, <2>2 DEF DataTypes
  <2>5. filled' \in [Clients -> Seq(Piece)]
    BY <1>1, <2>3 DEF DataTypes
  <2>6. /\ cdata' = [d \in Clients |-> cdata'[d]]
        /\ \A d \in Clients : cdata'[d] = Garbage \/ cdata'[d] \in Seq(Piece)
    BY <1>1, <2>3 DEF DataTypes
  <2> QED
    BY <1>1, <2>1, <2>4, <2>5, <2>6 DEF DataTypes
<1>3. Aside(c)
  BY <1>1 DEF Aside, DataTypes, MemoryInv, MemoryTypes
<1>4. /\ pc'[c] = "alloc" /\ cmsg'[c] = Fresh /\ reply'[c] = NoReply /\ filled'[c] = <<>>
      /\ refused'[c] = FALSE /\ cpc'[c] = (IF c \in Blocking THEN "wait" ELSE "idle")
      /\ msg'[c] = NoMsg /\ retdata'[c] = <<>>
  BY <1>1 DEF DataTypes, MemoryInv, MemoryTypes, Marked
<1>5. Listed(c)'
  BY <1>4, NothingListed DEF Listed, NoMsg
<1>6. Answered(c)'
  BY <1>4 DEF Answered
<1> QED
  BY <1>2, <1>3, <1>5, <1>6, OneClientData

\* Nothing that the client sees changes, nor what the message lists.
LEMMA KeptData ==
  ASSUME MemoryInv, DataInv, NEW c \in Clients,
         UNCHANGED <<clientVars, reply, filled, refused>>,
         \A d \in Clients \ {c} : pc'[d] = pc[d] /\ msg'[d] = msg[d] /\ retdata'[d] = retdata[d],
         Listed(c)'
  PROVE  DataInv'
<1> USE DEF DataInv
<1>1. DataTypes'
  BY DEF DataTypes, clientVars
<1>2. Aside(c)
  BY DEF Aside, clientVars
<1>3. Answered(c)'
  BY DEF Answered, clientVars
<1> QED
  BY <1>1, <1>2, <1>3, OneClientData

LEMMA AllocMsgData ==
  ASSUME MemoryInv, DataInv, NEW c \in Clients, AllocMsg(c)
  PROVE  DataInv'
<1>1. PICK b \in Blocks \ used :
        msg' = [msg EXCEPT ![c] = [block |-> b, flag |-> cmsg[c].flag,
                                   retsize |-> cmsg[c].retsize]]
  BY DEF AllocMsg
<1>2. /\ pc[c] = "alloc" /\ pc' = [pc EXCEPT ![c] = "realloc"]
      /\ UNCHANGED <<clientVars, retdata, reply, filled, refused>>
  BY DEF AllocMsg
<1>3. cmsg[c].retsize = 0 /\ msg[c].retsize = 0
  BY <1>2 DEF MemoryInv, Placed, Marked, Fresh, NoMsg
<1>4. msg'[c].retsize = 0 /\ pc'[c] = "realloc"
  BY <1>1, <1>2, <1>3 DEF MemoryInv, MemoryTypes
<1>5. Listed(c)'
  BY <1>2, <1>3, <1>4 DEF DataInv, Listed
<1>6. \A d \in Clients \ {c} : pc'[d] = pc[d] /\ msg'[d] = msg[d] /\ retdata'[d] = retdata[d]
  BY <1>1, <1>2 DEF MemoryInv, MemoryTypes
<1> QED
  BY <1>2, <1>5, <1>6, KeptData

\* The message is done with.
LEMMA EndData ==
  ASSUME MemoryInv, DataInv, NEW c \in Clients, RefuseMsg(c) \/ ReallocRefuse(c) \/ FreeMsg(c)
  PROVE  DataInv'
<1>1. /\ pc'[c] \in {"free", "closed"} /\ UNCHANGED <<clientVars, reply, filled, refused>>
      /\ \A d \in Clients \ {c} : pc'[d] = pc[d] /\ msg'[d] = msg[d] /\ retdata'[d] = retdata[d]
  BY DEF RefuseMsg, ReallocRefuse, FreeMsg, msgVars, MemoryInv, MemoryTypes
<1>2. Listed(c)'
  BY <1>1 DEF Listed
<1> QED
  BY <1>1, <1>2, KeptData

\* It is given to the receivers, marked SUCCEEDED: no handler was refused yet.
LEMMA DispatchData ==
  ASSUME MemoryInv, DataInv, NEW c \in Clients, ReallocKeep(c) \/ ReallocMove(c)
  PROVE  DataInv'
<1>1. /\ pc[c] = "realloc" /\ pc' = [pc EXCEPT ![c] = "serve"]
      /\ UNCHANGED <<clientVars, retdata, reply, filled, refused>>
      /\ \/ msg' = [msg EXCEPT ![c].flag = @ \cup {"succeeded"}]
         \/ msg' = [msg EXCEPT ![c].flag = @ \cup {"allocdata", "succeeded"}]
  BY DEF ReallocKeep, ReallocMove, Dispatch
<1>2. pc'[c] = "serve" /\ msg'[c].retsize = msg[c].retsize
  BY <1>1 DEF MemoryInv, MemoryTypes
<1>3. Listed(c)'
  BY <1>1, <1>2 DEF DataInv, Listed
<1>4. \A d \in Clients \ {c} : pc'[d] = pc[d] /\ msg'[d] = msg[d] /\ retdata'[d] = retdata[d]
  BY <1>1 DEF MemoryInv, MemoryTypes
<1> QED
  BY <1>1, <1>3, <1>4, KeptData

\* A receiver gets a piece of return data.
LEMMA RetdataAllocData ==
  ASSUME MemoryInv, DataInv, NEW c \in Clients, NEW p \in Receivers, RetdataAlloc(c, p)
  PROVE  DataInv'
<1> USE DEF DataInv
<1>1. PICK b \in Blocks \ used, n \in Sizes :
        /\ retdata' = [retdata EXCEPT ![c] = <<[block |-> b, size |-> n, from |-> p]>> \o @]
        /\ msg' = [msg EXCEPT ![c].retsize = @ + n + Header]
        /\ filled' = [filled EXCEPT ![c] = Append(@, [size |-> n, from |-> p])]
  BY DEF RetdataAlloc
<1>2. p \in left[c] /\ UNCHANGED <<clientVars, pc, reply, refused>>
  BY DEF RetdataAlloc
<1>3. pc[c] = "serve" /\ reply[c] = NoReply
  BY <1>2 DEF MemoryInv, Placed
<1> DEFINE e == [block |-> b, size |-> n, from |-> p]
           q == [size |-> n, from |-> p]
           new == <<e>> \o retdata[c]
           all == Append(filled[c], q)
<1>4. e \in Entry /\ retdata[c] \in Seq(Entry) /\ filled[c] \in Seq(Piece)
      /\ q = [size |-> e.size, from |-> e.from] /\ Length(e) = n + Header
  BY <1>1 DEF MemoryInv, MemoryTypes, DataTypes, Entry, Length
<1>5. Pieces(retdata[c]) = Reverse(filled[c]) /\ Fits(Reverse(filled[c]), msg[c].retsize)
  BY <1>3 DEF Listed
<1>6. msg[c].retsize \in Nat /\ n \in Nat /\ Header \in Nat
  BY SizesAssumption DEF MemoryInv, MemoryTypes
<1> HIDE DEF e, q
<1>7. /\ all \in Seq(Piece) /\ Pieces(new) = Reverse(all)
      /\ Fits(Reverse(all), msg[c].retsize + Length(e))
  BY <1>4, <1>5, <1>6, OneMorePiece
<1>8. retdata'[c] = new /\ filled'[c] = all
  BY <1>1 DEF MemoryInv, MemoryTypes, DataTypes, e, q
<1>9. msg'[c].retsize = msg[c].retsize + Length(e) /\ msg'[c].flag = msg[c].flag
  <2>1. msg'[c].retsize = msg[c].retsize + n + Header /\ msg'[c].flag = msg[c].flag
    BY <1>1 DEF MemoryInv, MemoryTypes
  <2> QED
    BY <1>4, <1>6, <2>1
<1> HIDE DEF new, all
<1>10. Listed(c)'
  BY <1>2, <1>3, <1>7, <1>8, <1>9 DEF Listed
<1>11. Answered(c)'
  BY <1>2, <1>3 DEF Answered, clientVars
<1>12. Aside(c)
  BY <1>1, <1>2 DEF Aside, clientVars, MemoryInv, MemoryTypes, DataTypes
<1>13. DataTypes'
  <2>1. filled' = [filled EXCEPT ![c] = all]
    BY <1>1 DEF all, q
  <2>2. filled' \in [Clients -> Seq(Piece)]
    BY <1>7, <2>1 DEF DataTypes
  <2> QED
    BY <1>2, <2>2 DEF DataTypes, clientVars
<1> QED
  BY <1>10, <1>11, <1>12, <1>13, OneClientData

\* A receiver is refused: SUCCEEDED is taken away with it.
LEMMA RetdataRefuseData ==
  ASSUME MemoryInv, DataInv, NEW c \in Clients, NEW p \in Receivers, RetdataRefuse(c, p)
  PROVE  DataInv'
<1> USE DEF DataInv
<1>1. /\ p \in left[c]
      /\ msg' = [msg EXCEPT ![c].flag = @ \ {"succeeded"}]
      /\ refused' = [refused EXCEPT ![c] = TRUE]
      /\ UNCHANGED <<clientVars, pc, retdata, reply, filled>>
  BY DEF RetdataRefuse
<1>2. pc[c] = "serve" /\ reply[c] = NoReply
  BY <1>1 DEF MemoryInv, Placed
<1>3. msg'[c].retsize = msg[c].retsize /\ "succeeded" \notin msg'[c].flag
  BY <1>1 DEF MemoryInv, MemoryTypes
<1>4. Listed(c)'
  BY <1>1, <1>2, <1>3 DEF Listed
<1>5. Answered(c)'
  BY <1>1, <1>2 DEF Answered, clientVars
<1>6. Aside(c)
  BY <1>1 DEF Aside, clientVars, MemoryInv, MemoryTypes, DataTypes
<1>7. DataTypes'
  BY <1>1 DEF DataTypes, clientVars
<1> QED
  BY <1>4, <1>5, <1>6, <1>7, OneClientData

LEMMA CountOffData ==
  ASSUME MemoryInv, DataInv, NEW c \in Clients, NEW p \in Receivers, CountOff(c, p)
  PROVE  DataInv'
<1>1. /\ p \in left[c]
      /\ UNCHANGED msg \/ msg' = [msg EXCEPT ![c].flag = @ \ {"succeeded"}]
      /\ pc' = [pc EXCEPT ![c] = IF left'[c] # {} THEN @
                                ELSE IF c \in Blocking THEN "write" ELSE "free"]
      /\ UNCHANGED <<clientVars, retdata, reply, filled, refused>>
  BY DEF CountOff
<1>2. pc[c] = "serve" /\ pc'[c] \in {"serve", "write", "free"}
  BY <1>1 DEF MemoryInv, MemoryTypes, Placed
<1>3. msg'[c].retsize = msg[c].retsize /\ msg'[c].flag \subseteq msg[c].flag
  BY <1>1 DEF MemoryInv, MemoryTypes
<1>4. Listed(c)'
  BY <1>1, <1>2, <1>3 DEF DataInv, Listed
<1>5. \A d \in Clients \ {c} : pc'[d] = pc[d] /\ msg'[d] = msg[d] /\ retdata'[d] = retdata[d]
  BY <1>1 DEF MemoryInv, MemoryTypes
<1> QED
  BY <1>1, <1>4, <1>5, KeptData

\* The answer has what the list of the message has.
LEMMA WriteRetData ==
  ASSUME MemoryInv, DataInv, NEW c \in Clients, WriteRet(c)
  PROVE  DataInv'
<1> USE DEF DataInv
<1> DEFINE a == [flag |-> msg[c].flag, retsize |-> msg[c].retsize, retdata |-> Pieces(retdata[c])]
<1>1. /\ pc[c] = "write" /\ pc' = [pc EXCEPT ![c] = "free"]
      /\ reply' = [reply EXCEPT ![c] = a]
      /\ UNCHANGED <<clientVars, msg, retdata, filled, refused>>
  BY DEF WriteRet, msgVars, Pieces
<1>2. reply[c] = NoReply /\ pc'[c] = "free"
  BY <1>1 DEF MemoryInv, MemoryTypes, Placed
<1>3. /\ Pieces(retdata[c]) = Reverse(filled[c]) /\ Fits(Reverse(filled[c]), msg[c].retsize)
      /\ refused[c] => "succeeded" \notin msg[c].flag
  BY <1>1 DEF Listed
<1>4. /\ a.flag = msg[c].flag /\ a.retsize = msg[c].retsize /\ a.retdata = Reverse(filled[c])
      /\ a \in [flag : SUBSET Flags, retsize : Nat, retdata : Seq(Piece)]
  <2>1. Reverse(filled[c]) \in Seq(Piece)
    BY ReverseIs DEF DataTypes
  <2>2. msg[c].flag \in SUBSET Flags /\ msg[c].retsize \in Nat
    BY DEF MemoryInv, MemoryTypes
  <2> QED
    BY <1>3, <2>1, <2>2
<1> HIDE DEF a
<1>5. reply'[c] = a
  BY <1>1 DEF MemoryInv, MemoryTypes
<1>6. Listed(c)'
  BY <1>2 DEF Listed
<1>7. Answered(c)'
  BY <1>1, <1>2, <1>3, <1>4, <1>5 DEF Answered, clientVars
<1>8. Aside(c)
  BY <1>1 DEF Aside, clientVars, MemoryInv, MemoryTypes, DataTypes
<1>9. DataTypes'
  BY <1>1 DEF DataTypes, clientVars
<1> QED
  BY <1>6, <1>7, <1>8, <1>9, OneClientData

\* The client reads the answer, if there is one; if not it has failed.
LEMMA ReadRetData ==
  ASSUME MemoryInv, DataInv, NEW c \in Clients, ReadRet(c)
  PROVE  DataInv'
<1> USE DEF DataInv
<1> DEFINE a == IF reply[c] # NoReply THEN reply[c]
                ELSE [flag |-> cmsg[c].flag, retsize |-> cmsg[c].retsize, retdata |-> <<>>]
<1>1. /\ cpc[c] = "wait" /\ cpc' = [cpc EXCEPT ![c] = "idle"]
      /\ cmsg' = [cmsg EXCEPT ![c] = [flag |-> a.flag, retsize |-> a.retsize]]
      /\ \/ /\ cdata' = [cdata EXCEPT ![c] = ReadBack(a.retdata, a.retsize)]
            /\ result' = [result EXCEPT ![c] = IF "succeeded" \in a.flag THEN "ok" ELSE "fail"]
         \/ /\ result' = [result EXCEPT ![c] = "fail"]
            /\ UNCHANGED cdata
      /\ UNCHANGED <<sends, pc, msg, retdata, reply, filled, refused>>
  BY DEF ReadRet, msgVars
<1>2. a \in [flag : SUBSET Flags, retsize : Nat, retdata : Seq(Piece)]
  <2>1. CASE reply[c] # NoReply
    BY <2>1 DEF Answered
  <2>2. CASE reply[c] = NoReply
    <3>1. <<>> \in Seq(Piece) /\ cmsg[c].flag \in SUBSET Flags /\ cmsg[c].retsize \in Nat
      BY EmptySeq DEF DataTypes
    <3> QED
      BY <2>2, <3>1
  <2> QED
    BY <2>1, <2>2
<1>3. "succeeded" \in a.flag => reply[c] # NoReply /\ a = reply[c]
  <2>1. cmsg[c].flag = {}
    BY <1>1 DEF Answered, Fresh
  <2> QED
    BY <2>1
<1> HIDE DEF a
<1>4. DataTypes'
  <2>1. cmsg' \in [Clients -> [flag : SUBSET Flags, retsize : Nat]]
    <3>1. [flag |-> a.flag, retsize |-> a.retsize] \in [flag : SUBSET Flags, retsize : Nat]
      BY <1>2
    <3> QED
      BY <1>1, <3>1 DEF DataTypes
  <2>2. ReadBack(a.retdata, a.retsize) = Garbage \/ ReadBack(a.retdata, a.retsize) \in Seq(Piece)
    BY <1>2, ReadBackType
  <2>3. /\ cdata' = [d \in Clients |-> cdata'[d]]
        /\ \A d \in Clients : cdata'[d] = Garbage \/ cdata'[d] \in Seq(Piece)
    BY <1>1, <2>2 DEF DataTypes
  <2> QED
    BY <1>1, <2>1, <2>3 DEF DataTypes
<1>5. Aside(c)
  BY <1>1 DEF Aside, DataTypes
<1>6. Listed(c)'
  BY <1>1 DEF Listed
<1>7. Answered(c)'
  <2>1. cpc'[c] = "idle"
    BY <1>1 DEF DataTypes
  <2>2. result'[c] = "ok" => "succeeded" \in a.flag /\ cdata'[c] = ReadBack(a.retdata, a.retsize)
    BY <1>1 DEF DataTypes
  <2> QED
    BY <1>1, <1>3, <2>1, <2>2 DEF Answered
<1> QED
  BY <1>4, <1>5, <1>6, <1>7, OneClientData

LEMMA ReadResetData ==
  ASSUME MemoryInv, DataInv, NEW c \in Clients, ReadReset(c)
  PROVE  DataInv'
<1> USE DEF DataInv
<1>1. /\ cpc[c] = "wait" /\ cpc' = [cpc EXCEPT ![c] = "idle"]
      /\ result' = [result EXCEPT ![c] = "fail"]
      /\ UNCHANGED <<sends, cmsg, cdata, pc, msg, retdata, reply, filled, refused>>
  BY DEF ReadReset, msgVars
<1>2. DataTypes'
  BY <1>1 DEF DataTypes
<1>3. Aside(c)
  BY <1>1 DEF Aside, DataTypes
<1>4. Listed(c)'
  BY <1>1 DEF Listed
<1>5. Answered(c)'
  BY <1>1 DEF Answered, DataTypes
<1> QED
  BY <1>2, <1>3, <1>4, <1>5, OneClientData

-----------------------------------------------------------------------------
(* What follows of the return data.                                        *)

LEMMA DataInit == Init => DataInv
<1> SUFFICES ASSUME Init PROVE DataInv
  OBVIOUS
<1>1. DataTypes
  <2>1. <<>> \in Seq(Piece)
    BY EmptySeq
  <2>2. 0 \in 0 .. MaxSends
    BY BoundsAssumption
  <2>3. Fresh \in [flag : SUBSET Flags, retsize : Nat]
    BY DEF Fresh
  <2> QED
    BY <2>1, <2>2, <2>3 DEF Init, DataTypes
<1>2. \A c \in Clients : Listed(c) /\ Answered(c)
  BY DEF Init, Listed, Answered
<1> QED
  BY <1>1, <1>2 DEF DataInv

LEMMA DataStep == MemoryInv /\ DataInv /\ [Next]_vars => DataInv'
<1> SUFFICES ASSUME MemoryInv, DataInv, [Next]_vars PROVE DataInv'
  OBVIOUS
<1>1. CASE UNCHANGED vars
  BY <1>1 DEF vars, clientVars, msgVars, DataInv, DataTypes, Listed, Answered
<1>2. ASSUME NEW c \in Clients, Core(c) PROVE DataInv'
  BY <1>2, AllocMsgData, EndData, DispatchData, WriteRetData DEF Core
<1>3. ASSUME NEW c \in Clients, Client(c) PROVE DataInv'
  BY <1>3, SendData, ReadRetData, ReadResetData DEF Client
<1>4. ASSUME NEW c \in Clients, NEW p \in Receivers, Receiver(c, p) PROVE DataInv'
  BY <1>4, RetdataAllocData, RetdataRefuseData, CountOffData DEF Receiver
<1> QED
  BY <1>1, <1>2, <1>3, <1>4 DEF Next, AtRest

LEMMA DataHolds == Spec => []DataInv
BY MemoryHolds, DataInit, DataStep, PTL DEF Spec

\* Every variable has its type: what the client reads back is return data, or
\* the garbage the chain led it to (emi_sock.c:107-158).
THEOREM ReturnDataTypeCorrect == Spec => []TypeOK
<1>1. MemoryInv /\ DataInv => TypeOK
  <2> SUFFICES ASSUME MemoryInv, DataInv PROVE TypeOK
    OBVIOUS
  <2>1. wild = FALSE
    BY DEF MemoryInv, NoWildFree
  <2> QED
    BY <2>1 DEF MemoryInv, MemoryTypes, DataInv, DataTypes, TypeOK, Piece, Entry
<1> QED
  BY <1>1, MemoryHolds, DataHolds, PTL

\* A blocking send that returns 0 has all return data of its receivers if there
\* were two entries at most, and none of them was refused; of more entries of
\* one size it has the two last (emi_ifr.c:190-203, emi_sockr.c:57-78,
\* emi_sock.c:107-158).
THEOREM ReturnDataReachesClient == Spec => []ReturnDataArrives
<1>1. DataInv => ReturnDataArrives
  <2> SUFFICES ASSUME DataInv, NEW c \in Blocking, cpc[c] = "idle", result[c] = "ok"
               PROVE  LET all == Reverse(filled[c]) IN
                        /\ ~refused[c]
                        /\ Len(all) <= 2 => cdata[c] = all
                        /\ Len(all) > 2 /\ all[1].size = all[2].size
                             => cdata[c] = SubSeq(all, 1, 2)
    BY DEF ReturnDataArrives
  <2> DEFINE all == Reverse(filled[c])
  <2>1. c \in Clients
    BY ClientsAssumption
  <2>2. /\ cdata[c] = ReadBack(all, reply[c].retsize) /\ ~refused[c]
        /\ Fits(all, reply[c].retsize) /\ reply[c].retsize \in Nat /\ all \in Seq(Piece)
    BY <2>1 DEF DataInv, Answered
  <2> HIDE DEF all
  <2> QED
    BY <2>2, ReadBackFits DEF all
<1> QED
  BY <1>1, DataHolds, PTL
=============================================================================
