----------------------------- MODULE ReturnData -----------------------------
(***************************************************************************)
(* The memory behind a message of emilib: the area of the message itself,  *)
(* the data that does not fit into it (realloc_shared_msg), and the list   *)
(* of return data that the handlers of a blocking message allocate         *)
(* (emi_retdata_alloc); what of it the client reads back, and what is      *)
(* freed (free_shared_msg).                                                *)
(*                                                                         *)
(* Each client sends new messages, one after the other (emi_msg_alloc,     *)
(* emi_msg_init).  Signals, slots and the table are EmiCore's; here a      *)
(* message that was read is with its receivers until each of them counted  *)
(* itself off.  The payload of a message travels with its flags and its    *)
(* retsize (EMI_MSG_PAYLOAD_SIZE), in both directions.                     *)
(***************************************************************************)
EXTENDS Integers, Sequences, FiniteSets, SequencesExt

CONSTANTS
  Clients,     \* the clients, each with its connection and its message
  Blocking,    \* those that set EMI_MSG_MODE_BLOCK
  Receivers,   \* the processes registered for the messages
  Blocks,      \* the blocks of the shared buffer
  Sizes,       \* sizes of return data
  Header,      \* sizeof(struct emi_retdata)
  MaxSends,    \* how often a client sends
  MaxBlocks,   \* how much return data a receiver allocates for one message
  None         \* no block

ASSUME ClientsAssumption == Blocking \subseteq Clients
ASSUME ReceiversAssumption == Receivers # {}
ASSUME SizesAssumption == Sizes \subseteq Nat \ {0} /\ Header \in Nat \ {0}
ASSUME NoneAssumption == None \notin Blocks
ASSUME BoundsAssumption == MaxSends \in Nat /\ MaxBlocks \in Nat

VARIABLES
  cpc,      \* where each client is in emi_msg_send
  sends,    \* how often it has sent
  cmsg,     \* the flags and retsize of its emi_msg
  cdata,    \* the return data it reaches with for_each_retdata
  result,   \* what its last emi_msg_send returned
  pc,       \* where the thread of emi_core that serves the client is
  msg,      \* the emi_msg in the shared buffer: its block, flags and retsize
  data,     \* the block of its data, None while that is in the area itself
  retdata,  \* its list of return data, first entry first
  left,     \* the receivers that have not counted themselves off
  reply,    \* what emi_core wrote back: flags, retsize and return data
  used,     \* the allocated blocks
  wild,     \* history: whether something was freed that was not allocated
  filled,   \* history: the return data the handlers of a send were given
  refused   \* history: whether a handler of the send was refused

clientVars == <<cpc, sends, cmsg, cdata, result>>
msgVars == <<msg, data, retdata, used, wild>>
vars == <<clientVars, pc, msgVars, left, reply, filled, refused>>

Flags == {"succeeded", "allocdata"}
Fresh == [flag |-> {}, retsize |-> 0]
NoMsg == [block |-> None, flag |-> {}, retsize |-> 0]
NoReply == [flag |-> {"none"}, retsize |-> 0, retdata |-> <<>>]

\* What the client reaches when the chain leads out of the return data.
Garbage == <<[size |-> 0, from |-> None]>>

Init ==
  /\ cpc = [c \in Clients |-> "idle"]
  /\ sends = [c \in Clients |-> 0]
  /\ cmsg = [c \in Clients |-> Fresh]
  /\ cdata = [c \in Clients |-> <<>>]
  /\ result = [c \in Clients |-> "none"]
  /\ pc = [c \in Clients |-> "closed"]
  /\ msg = [c \in Clients |-> NoMsg]
  /\ data = [c \in Clients |-> None]
  /\ retdata = [c \in Clients |-> <<>>]
  /\ left = [c \in Clients |-> {}]
  /\ reply = [c \in Clients |-> NoReply]
  /\ used = {}
  /\ wild = FALSE
  /\ filled = [c \in Clients |-> <<>>]
  /\ refused = [c \in Clients |-> FALSE]

-----------------------------------------------------------------------------
(* The client, before its message is served.                               *)

\* emi_msg_send of a new message.
Send(c) ==
  /\ cpc[c] = "idle" /\ pc[c] = "closed" /\ sends[c] < MaxSends
  /\ cmsg' = [cmsg EXCEPT ![c] = Fresh]
  /\ cpc' = [cpc EXCEPT ![c] = IF c \in Blocking THEN "wait" ELSE "idle"]
  /\ result' = [result EXCEPT ![c] = IF c \in Blocking THEN "none" ELSE "ok"]
  /\ sends' = [sends EXCEPT ![c] = @ + 1]
  /\ cdata' = [cdata EXCEPT ![c] = <<>>]
  /\ pc' = [pc EXCEPT ![c] = "alloc"]
  /\ reply' = [reply EXCEPT ![c] = NoReply]
  /\ filled' = [filled EXCEPT ![c] = <<>>]
  /\ refused' = [refused EXCEPT ![c] = FALSE]
  /\ UNCHANGED <<msgVars, left>>

-----------------------------------------------------------------------------
(* emi_core reads the message.                                             *)

\* alloc_shared_msg, and the payload of the client's message.
AllocMsg(c) ==
  /\ pc[c] = "alloc"
  /\ \E b \in Blocks \ used :
       /\ used' = used \cup {b}
       /\ msg' = [msg EXCEPT ![c] = [block |-> b, flag |-> cmsg[c].flag,
                                     retsize |-> cmsg[c].retsize]]
  /\ pc' = [pc EXCEPT ![c] = "realloc"]
  /\ UNCHANGED <<clientVars, data, retdata, wild, left, reply, filled, refused>>

\* alloc_shared_msg returns NULL.
RefuseMsg(c) ==
  /\ pc[c] = "alloc" /\ used = Blocks
  /\ pc' = [pc EXCEPT ![c] = "closed"]
  /\ UNCHANGED <<clientVars, msgVars, left, reply, filled, refused>>

\* The receivers get the message, with SUCCEEDED set.
Dispatch(c) ==
  /\ left' = [left EXCEPT ![c] = Receivers]
  /\ pc' = [pc EXCEPT ![c] = "serve"]

\* The data fits into the area of the message.
ReallocKeep(c) ==
  /\ pc[c] = "realloc"
  /\ msg' = [msg EXCEPT ![c].flag = @ \cup {"succeeded"}]
  /\ Dispatch(c)
  /\ UNCHANGED <<clientVars, data, retdata, used, wild, reply, filled, refused>>

\* It gets a block of its own.  A message that carries ALLOCDATA already has
\* its old data freed, which at this point is in the area.
ReallocMove(c) ==
  /\ pc[c] = "realloc"
  /\ \E b \in Blocks \ used : used' = used \cup {b} /\ data' = [data EXCEPT ![c] = b]
  /\ wild' = (wild \/ "allocdata" \in msg[c].flag)
  /\ msg' = [msg EXCEPT ![c].flag = @ \cup {"allocdata", "succeeded"}]
  /\ Dispatch(c)
  /\ UNCHANGED <<clientVars, retdata, reply, filled, refused>>

\* There is none: emi_msg_read fails.
ReallocRefuse(c) ==
  /\ pc[c] = "realloc" /\ used = Blocks
  /\ msg' = [msg EXCEPT ![c].flag = @ \ {"succeeded"}]
  /\ pc' = [pc EXCEPT ![c] = "free"]
  /\ UNCHANGED <<clientVars, data, retdata, used, wild, left, reply, filled, refused>>

-----------------------------------------------------------------------------
(* The receivers.                                                          *)

Given(c, p) == {i \in DOMAIN filled[c] : filled[c][i].from = p}

\* emi_retdata_alloc, under the lock of the message: the new block is the
\* first of the list.
RetdataAlloc(c, p) ==
  /\ p \in left[c] /\ c \in Blocking /\ Cardinality(Given(c, p)) < MaxBlocks
  /\ \E b \in Blocks \ used, n \in Sizes :
       /\ used' = used \cup {b}
       /\ retdata' = [retdata EXCEPT ![c] = <<[block |-> b, size |-> n, from |-> p]>> \o @]
       /\ msg' = [msg EXCEPT ![c].retsize = @ + n + Header]
       /\ filled' = [filled EXCEPT ![c] = Append(@, [size |-> n, from |-> p])]
  /\ UNCHANGED <<clientVars, pc, data, wild, left, reply, refused>>

\* Mutant: the NULL of emi_alloc becomes an entry of the list.
RetdataRefuseUntested(c, p) ==
  /\ p \in left[c] /\ used = Blocks
  /\ \E n \in Sizes :
       retdata' = [retdata EXCEPT ![c] = <<[block |-> None, size |-> n, from |-> p]>> \o @]
  /\ UNCHANGED <<clientVars, pc, msg, data, used, wild, left, reply, filled, refused>>

\* It is not a blocking message, or the buffer is full: NULL.
RetdataRefuse(c, p) ==
  /\ p \in left[c]
  /\ c \notin Blocking \/ used = Blocks
  /\ msg' = [msg EXCEPT ![c].flag = @ \ {"succeeded"}]
  /\ refused' = [refused EXCEPT ![c] = TRUE]
  /\ UNCHANGED <<clientVars, pc, data, retdata, used, wild, left, reply, filled>>

\* The receiver is done, its handler failed or did not; emi_core goes on when
\* all receivers are done.
CountOff(c, p) ==
  /\ p \in left[c]
  /\ \/ UNCHANGED msg
     \/ c \in Blocking /\ msg' = [msg EXCEPT ![c].flag = @ \ {"succeeded"}]
  /\ left' = [left EXCEPT ![c] = @ \ {p}]
  /\ pc' = [pc EXCEPT ![c] = IF left'[c] # {} THEN @
                             ELSE IF c \in Blocking THEN "write" ELSE "free"]
  /\ UNCHANGED <<clientVars, data, retdata, used, wild, reply, filled, refused>>

-----------------------------------------------------------------------------
(* emi_core answers and frees the message.                                 *)

\* emi_msg_write_ret: the payload and each entry of the list.
WriteRet(c) ==
  /\ pc[c] = "write"
  /\ reply' = [reply EXCEPT ![c] =
       [flag |-> msg[c].flag, retsize |-> msg[c].retsize,
        retdata |-> [i \in DOMAIN retdata[c] |->
                       [size |-> retdata[c][i].size, from |-> retdata[c][i].from]]]]
  /\ pc' = [pc EXCEPT ![c] = "free"]
  /\ UNCHANGED <<clientVars, msgVars, left, filled, refused>>

\* What free_shared_msg frees: the data, the first return data, the message.
DataFreed(c) == IF "allocdata" \in msg[c].flag THEN {data[c]} ELSE {}
RetdataFreed(c) ==
  IF msg[c].retsize = 0 THEN {}
  ELSE IF retdata[c] = <<>> THEN {msg[c].block} ELSE {Head(retdata[c]).block}

\* Mutant: the data of the message is left.
FreeMsgOnly(c) ==
  /\ pc[c] = "free"
  /\ used' = used \ (RetdataFreed(c) \cup {msg[c].block})
  /\ msg' = [msg EXCEPT ![c] = NoMsg]
  /\ data' = [data EXCEPT ![c] = None]
  /\ retdata' = [retdata EXCEPT ![c] = <<>>]
  /\ pc' = [pc EXCEPT ![c] = "closed"]
  /\ UNCHANGED <<clientVars, wild, left, reply, filled, refused>>

\* Mutant: the message is freed before its answer was written.
FreeEarly(c) ==
  /\ pc[c] \in {"write", "free"}
  /\ used' = used \ (DataFreed(c) \cup RetdataFreed(c) \cup {msg[c].block})
  /\ wild' = (wild \/ msg[c].block \notin used)
  /\ pc' = [pc EXCEPT ![c] = IF @ = "free" THEN "closed" ELSE "free"]
  /\ UNCHANGED <<clientVars, msg, data, retdata, left, reply, filled, refused>>

\* free_shared_msg and emi_close.  ALLOCDATA without a block of data frees an
\* address inside the area; a retsize without return data frees the area twice.
FreeMsg(c) ==
  LET freed == DataFreed(c) \cup RetdataFreed(c) IN
  /\ pc[c] = "free"
  /\ used' = used \ (freed \cup {msg[c].block})
  /\ wild' = (wild \/ ~(freed \subseteq used \ {msg[c].block}))
  /\ msg' = [msg EXCEPT ![c] = NoMsg]
  /\ data' = [data EXCEPT ![c] = None]
  /\ retdata' = [retdata EXCEPT ![c] = <<>>]
  /\ pc' = [pc EXCEPT ![c] = "closed"]
  /\ UNCHANGED <<clientVars, left, reply, filled, refused>>

-----------------------------------------------------------------------------
(* The client reads the answer.                                            *)

Length(e) == e.size + Header

\* Where the entries of s start, and where the last one ends.
Starts(s) ==
  LET start[i \in 1 .. Len(s) + 1] ==
        IF i = 1 THEN 0 ELSE start[i - 1] + Length(s[i - 1])
  IN  start

\* The position of the entry of s that starts at an offset, 0 if none does.
EntryAt(s, offset) ==
  LET here == {i \in DOMAIN s : Starts(s)[i] = offset}
  IN  IF here = {} THEN 0 ELSE CHOOSE i \in here : TRUE

\* Mutant: the offset of the next entry leaves the header out.
NextOffsetShort(e) == e.size

\* "update offset": where the entry after e is taken to be.
NextOffset(e) == Length(e)

\* The loop of emi_msg_read_retdata: the entry of s that each turn visits, and how
\* much is then left to read.
Visits(s, retsize) ==
  LET walk[n \in 1 .. retsize + 1] ==
        IF n = 1 THEN [at |-> EntryAt(s, 0), left |-> retsize]
        ELSE LET w == walk[n - 1] IN
             IF w.at = 0 \/ w.left <= Length(s[w.at]) THEN w
             ELSE [at |-> EntryAt(s, NextOffset(s[w.at])),
                   left |-> w.left - Length(s[w.at])]
  IN  walk

\* emi_msg_read_retdata: the entries its loop visits, ended by the one whose
\* next_offset it resets, and what for_each_retdata reaches then.
ReadBack(s, retsize) ==
  LET walk == Visits(s, retsize)
      last == walk[retsize + 1].at
      end == CHOOSE n \in 1 .. retsize + 1 :
               walk[n].at = last /\ \A k \in 1 .. n - 1 : walk[k].at # last
  IN  IF retsize = 0 THEN <<>>
      ELSE IF last = 0 THEN Garbage
      ELSE [n \in 1 .. end |-> s[walk[n].at]]

\* emi_msg_read_ret: without an answer the read ends at once and leaves the
\* message as it is; malloc may fail.
ReadRet(c) ==
  LET answer == IF reply[c] # NoReply THEN reply[c]
                ELSE [flag |-> cmsg[c].flag, retsize |-> cmsg[c].retsize, retdata |-> <<>>]
  IN
  /\ cpc[c] = "wait"
  /\ reply[c] # NoReply \/ pc[c] = "closed"
  /\ cmsg' = [cmsg EXCEPT ![c] = [flag |-> answer.flag, retsize |-> answer.retsize]]
  /\ \/ /\ cdata' = [cdata EXCEPT ![c] = ReadBack(answer.retdata, answer.retsize)]
        /\ result' = [result EXCEPT ![c] =
                        IF "succeeded" \in answer.flag THEN "ok" ELSE "fail"]
     \/ /\ answer.retsize > 0
        /\ result' = [result EXCEPT ![c] = "fail"]
        /\ UNCHANGED cdata
  /\ cpc' = [cpc EXCEPT ![c] = "idle"]
  /\ UNCHANGED <<sends, pc, msgVars, left, reply, filled, refused>>

\* The connection is reset before an answer came.
ReadReset(c) ==
  /\ cpc[c] = "wait" /\ pc[c] = "closed" /\ reply[c] = NoReply
  /\ result' = [result EXCEPT ![c] = "fail"]
  /\ cpc' = [cpc EXCEPT ![c] = "idle"]
  /\ UNCHANGED <<sends, cmsg, cdata, pc, msgVars, left, reply, filled, refused>>

-----------------------------------------------------------------------------
Core(c) ==
  \/ AllocMsg(c) \/ RefuseMsg(c)
  \/ ReallocKeep(c) \/ ReallocMove(c) \/ ReallocRefuse(c)
  \/ WriteRet(c) \/ FreeMsg(c)

Receiver(c, p) == RetdataAlloc(c, p) \/ RetdataRefuse(c, p) \/ CountOff(c, p)

Client(c) == Send(c) \/ ReadRet(c) \/ ReadReset(c)

\* Every client has sent its messages and the daemon has served them.
AtRest ==
  /\ \A c \in Clients : cpc[c] = "idle" /\ pc[c] = "closed" /\ sends[c] = MaxSends
  /\ UNCHANGED vars

Next ==
  \/ \E c \in Clients : Core(c) \/ Client(c)
  \/ \E c \in Clients, p \in Receivers : Receiver(c, p)
  \/ AtRest

Spec == Init /\ [][Next]_vars

-----------------------------------------------------------------------------
\* Every variable has its type.
TypeOK ==
  LET Entries == [size : Sizes, from : Receivers]
      Payload == [flag : SUBSET Flags, retsize : Nat]
  IN
  /\ cpc \in [Clients -> {"idle", "wait"}]
  /\ sends \in [Clients -> 0 .. MaxSends]
  /\ cmsg \in [Clients -> Payload]
  /\ \A c \in Clients : cdata[c] = Garbage \/ cdata[c] \in Seq(Entries)
  /\ result \in [Clients -> {"none", "ok", "fail"}]
  /\ pc \in [Clients -> {"alloc", "realloc", "serve", "write", "free", "closed"}]
  /\ msg \in [Clients -> [block : Blocks \cup {None}, flag : SUBSET Flags, retsize : Nat]]
  /\ data \in [Clients -> Blocks \cup {None}]
  /\ retdata \in [Clients -> Seq([block : Blocks, size : Sizes, from : Receivers])]
  /\ left \in [Clients -> SUBSET Receivers]
  /\ used \subseteq Blocks
  /\ wild \in BOOLEAN
  /\ filled \in [Clients -> Seq(Entries)]
  /\ refused \in [Clients -> BOOLEAN]

\* The blocks a message in the shared buffer refers to, each with its use: -1 for
\* the area, 0 for the data, i for the return data that was i-th to be allocated.
Held(c) ==
  {<<-1, msg[c].block>>, <<0, data[c]>>}
    \cup {<<Len(retdata[c]) + 1 - i, retdata[c][i].block>> : i \in DOMAIN retdata[c]}

\* What a message refers to is allocated, for it alone and for one purpose
\* (emi_shbuf.c:190-252, emi_ifr.c:190-203).
BlocksAreOwned ==
  \A c, d \in Clients : \A h \in Held(c), k \in Held(d) :
    h[2] # None =>
      /\ h[2] \in used
      /\ <<c, h>> # <<d, k>> => h[2] # k[2]

\* emi_free is only called for what emi_alloc returned and was not freed yet;
\* ALLOCDATA marks exactly the messages whose data has a block: "Used for
\* marking if msg->data is allocated, if so the data area should be freed when
\* msg area is freed" (emi_msg.h:43).
NoWildFree == ~wild

\* A message of which no handler, or one, took return data once leaves nothing
\* behind in the buffer, whichever way it ends (emi_shbuf.c:205-222).
FreedCompletely ==
  [][\A c \in Clients : pc[c] = "free" /\ pc'[c] = "closed" /\ Len(retdata[c]) <= 1 =>
       used' = used \ {h[2] : h \in Held(c)}]_vars

\* A blocking send that returns 0 has the return data of its receivers, all of
\* it if there were two entries at most, last allocated first, and no
\* receiver was refused; of more entries of one size it has the two last
\* (emi_ifr.c:190-203, emi_sockr.c:57-78, emi_sock.c:107-158).
ReturnDataArrives ==
  \A c \in Blocking : cpc[c] = "idle" /\ result[c] = "ok" =>
    LET all == Reverse(filled[c]) IN
      /\ ~refused[c]
      /\ Len(all) <= 2 => cdata[c] = all
      /\ Len(all) > 2 /\ all[1].size = all[2].size => cdata[c] = SubSeq(all, 1, 2)

\* Whatever for_each_retdata reaches after a successful send is something a
\* handler returned, as test/emi_test.cpp:305-309 asserts of each entry.
OnlyReturnData ==
  \A c \in Blocking : cpc[c] = "idle" /\ result[c] = "ok" =>
    ToSet(cdata[c]) \subseteq ToSet(filled[c])
=============================================================================
