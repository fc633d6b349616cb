---------------------------- MODULE SharedMemory ----------------------------
(***************************************************************************)
(* The life of the shared memory segment "emilib" in the POSIX build       *)
(* (src/src/emi_shmem.c): daemons that start (src/src/emi_core.c), are     *)
(* terminated (src/src/main.c) or killed and started again, and receivers  *)
(* that initialise (src/src/emi_ifr.c).                                    *)
(*                                                                         *)
(* Nothing ties a segment to the daemon that serves: its name is opened by *)
(* every daemon that starts, before it finds out whether it can serve, and *)
(* removed by whoever fails.  The properties say of each thing that can go *)
(* wrong what it takes; the history variables remember that.               *)
(***************************************************************************)
EXTENDS Naturals, FiniteSets

CONSTANTS
  Daemons,         \* each is one process that runs emi_core
  Receivers,       \* each is one process that runs emi_init
  None,
  MaxLiving        \* bound: the daemons that live at the same time

ASSUME ProcessNames == Daemons \cap Receivers = {} /\ None \notin Daemons \cup Receivers
ASSUME LivingBound == MaxLiving \in Nat

\* A segment is named by the daemon that created it.
Segments == Daemons

VARIABLES
  name,            \* the segment that shm_open("/emilib") finds
  port,            \* the daemon that is bound to emi_port
  dpc, dseg,       \* where a daemon is, and its core_shmid
  rpc, rseg,       \* where a receiver is, and what it maps
  table,           \* the processes registered with each daemon
  taken,           \* the segments whose buffer has handed out its area
  awaited,         \* the receivers that have yet to count off a daemon's message
  users,           \* history: who refers to the area of a segment, for which daemon
  since,           \* history: the receivers that opened after a daemon had
  intruded,        \* history: daemons that lived while another one started
  robbed           \* history: daemons that lived when a receiver removed the name

daemonVars == <<port, dpc, dseg>>
receiverVars == <<rpc, rseg>>
areaVars == <<taken, awaited, users>>
vars == <<name, daemonVars, receiverVars, table, areaVars, since, intruded, robbed>>

Starting == {"open", "map", "bind"}
Living == Starting \cup {"serve", "release", "leave"}
Ended == {"exited", "failed", "refused", "killed"}

Alive == {d \in Daemons : dpc[d] \in Living}

Init ==
  /\ name = None /\ port = None
  /\ dpc = [d \in Daemons |-> "off"] /\ dseg = [d \in Daemons |-> None]
  /\ rpc = [r \in Receivers |-> "off"] /\ rseg = [r \in Receivers |-> None]
  /\ table = [d \in Daemons |-> {}]
  /\ taken = {} /\ awaited = [d \in Daemons |-> {}]
  /\ users = [s \in Segments |-> {}]
  /\ since = [d \in Daemons |-> {}] /\ intruded = {} /\ robbed = {}

\* Mutant: emi_shm_destroy as the FILE build has it, with a path of its own.
DestroyOther(n) == n

\* emi_shm_destroy: shm_unlink; what n leads to does not matter.
Destroy(n) == None

-----------------------------------------------------------------------------
(* A daemon.                                                               *)

DGoto(d, l) == dpc' = [dpc EXCEPT ![d] = l]

\* The process ends: its memory, its connections and its port are gone.  The area
\* of its message stays with the handlers that have it.
End(d, how) ==
  /\ DGoto(d, how)
  /\ port' = IF port = d THEN None ELSE port
  /\ table' = [table EXCEPT ![d] = {}]
  /\ awaited' = [awaited EXCEPT ![d] = {}]
  /\ users' = [s \in Segments |-> users[s] \ {<<d, d>>}]
  /\ since' = [since EXCEPT ![d] = {}]
  /\ robbed' = robbed \ {d}
  /\ UNCHANGED <<dseg, receiverVars, taken, intruded>>

\* The signal handlers are installed, the table is empty.
Start(d) ==
  /\ dpc[d] = "off" /\ Cardinality(Alive) < MaxLiving
  /\ DGoto(d, "open")
  /\ intruded' = IF Alive = {} THEN intruded ELSE intruded \cup Alive \cup {d}
  /\ UNCHANGED <<name, port, dseg, receiverVars, table, areaVars, since, robbed>>

\* Mutant: O_EXCL, as the SYSV build has it.
OpenExclusive(d) ==
  /\ dpc[d] = "open"
  /\ \/ name # None /\ End(d, "refused") /\ UNCHANGED name
     \/ /\ name = None
        /\ name' = d
        /\ dseg' = [dseg EXCEPT ![d] = d]
        /\ DGoto(d, "map")
        /\ UNCHANGED <<port, receiverVars, table, areaVars, since, intruded, robbed>>

\* emi_shm_init with O_CREAT and without O_EXCL: what is there is used again.
Open(d) ==
  /\ dpc[d] = "open"
  /\ name' = IF name = None THEN d ELSE name
  /\ dseg' = [dseg EXCEPT ![d] = name']
  /\ DGoto(d, "map")
  /\ UNCHANGED <<port, receiverVars, table, areaVars, since, intruded, robbed>>

\* ftruncate fails: the name is removed.
TruncateFails(d) ==
  /\ dpc[d] = "open"
  /\ name' = Destroy(name)
  /\ End(d, "failed")

MapFails(d) ==
  /\ dpc[d] = "map"
  /\ name' = Destroy(name)
  /\ End(d, "failed")

\* emi_shm_alloc; then init_emi_buf_lock, whatever is in use.
InitBuffer(d) ==
  /\ dpc[d] = "map"
  /\ taken' = taken \ {dseg[d]}
  /\ DGoto(d, "bind")
  /\ UNCHANGED <<name, port, dseg, receiverVars, table, awaited, users, since,
                 intruded, robbed>>

\* The pool and the socket are there.
Bind(d) ==
  /\ dpc[d] = "bind" /\ port = None
  /\ port' = d
  /\ DGoto(d, "serve")
  /\ UNCHANGED <<name, dseg, receiverVars, table, areaVars, since, intruded, robbed>>

\* Another one serves.  The segment stays.
Refused(d) ==
  /\ dpc[d] = "bind" /\ port # None
  /\ UNCHANGED name
  /\ End(d, "refused")

\* The lock of the buffer, the pool or the socket fails.  The segment stays.
StartFails(d) ==
  /\ dpc[d] = "bind"
  /\ UNCHANGED name
  /\ End(d, "failed")

\* SIGTERM or SIGINT.
Terminate(d) ==
  /\ dpc[d] \in Starting \cup {"serve"}
  /\ DGoto(d, "release")
  /\ UNCHANGED <<name, port, dseg, receiverVars, table, areaVars, since, intruded,
                 robbed>>

\* emi_release, in the signal handler; the threads of the pool go on meanwhile.
Release(d) ==
  /\ dpc[d] = "release"
  /\ name' = IF dseg[d] = None THEN name ELSE Destroy(name)
  /\ DGoto(d, "leave")
  /\ UNCHANGED <<port, dseg, receiverVars, table, areaVars, since, intruded, robbed>>

Exit(d) == dpc[d] = "leave" /\ End(d, "exited") /\ UNCHANGED name

Kill(d) == dpc[d] \in Living /\ End(d, "killed") /\ UNCHANGED name

-----------------------------------------------------------------------------
(* A receiver: emi_init.                                                   *)

RGoto(r, l) == rpc' = [rpc EXCEPT ![r] = l]

\* r is younger than the daemons that are past shm_open.
Noted(r) ==
  since' = [d \in Daemons |->
              IF d \in Alive /\ dseg[d] # None THEN since[d] \cup {r} ELSE since[d]]

\* Mutant: the segment is created when it is not there.
ReceiverCreate(r) ==
  /\ rpc[r] = "off"
  /\ \E s \in Segments :
       /\ IF name = None THEN \A d \in Daemons : dseg[d] # s ELSE s = name
       /\ rseg' = [rseg EXCEPT ![r] = s] /\ name' = s
  /\ Noted(r)
  /\ RGoto(r, "map")
  /\ UNCHANGED <<daemonVars, table, areaVars, intruded, robbed>>

\* Mutant: the result of shm_open is not tested.
ReceiverOpenUntested(r) ==
  /\ rpc[r] = "off"
  /\ rseg' = [rseg EXCEPT ![r] = name]
  /\ Noted(r)
  /\ RGoto(r, "map")
  /\ UNCHANGED <<name, daemonVars, table, areaVars, intruded, robbed>>

\* emi_shm_init without EMI_SHM_CREATE.  If there is no segment, emi_init returns
\* -1 and nothing has changed.
ReceiverOpen(r) ==
  /\ rpc[r] = "off" /\ name # None
  /\ rseg' = [rseg EXCEPT ![r] = name]
  /\ Noted(r)
  /\ RGoto(r, "map")
  /\ UNCHANGED <<name, daemonVars, table, areaVars, intruded, robbed>>

\* Mutant: the name is removed although the pool was set up.
ReadyUnlinked(r) ==
  /\ rpc[r] = "map"
  /\ name' = Destroy(name)
  /\ RGoto(r, "ready")
  /\ UNCHANGED <<daemonVars, rseg, table, areaVars, since, intruded, robbed>>

\* emi_shm_alloc and emi_thread_pool_init.
Ready(r) ==
  /\ rpc[r] = "map"
  /\ RGoto(r, "ready")
  /\ UNCHANGED <<name, daemonVars, rseg, table, areaVars, since, intruded, robbed>>

\* emi_shm_alloc or emi_thread_pool_init fails: emi_init removes the name, which
\* is not the receiver's, and may be called again.
ReceiverFails(r) ==
  /\ rpc[r] = "map"
  /\ name' = Destroy(name)
  /\ rseg' = [rseg EXCEPT ![r] = None]
  /\ since' = [d \in Daemons |-> since[d] \ {r}]
  /\ robbed' = robbed \cup Alive
  /\ RGoto(r, "off")
  /\ UNCHANGED <<daemonVars, table, areaVars, intruded>>

-----------------------------------------------------------------------------
(* The service over the segment; see EmiCore for what is between the steps. *)

Register(r) ==
  /\ rpc[r] = "ready" /\ port # None
  /\ r \notin table[port]
  /\ table' = [table EXCEPT ![port] = @ \cup {r}]
  /\ UNCHANGED <<name, daemonVars, receiverVars, areaVars, since, intruded, robbed>>

\* The area of the segment is allocated.  Each receiver finds its slot and the
\* area in the segment it maps itself.
Send(d) ==
  /\ port = d /\ table[d] # {} /\ dseg[d] \notin taken
  /\ taken' = taken \cup {dseg[d]}
  /\ awaited' = [awaited EXCEPT ![d] = table[d]]
  /\ users' = [s \in Segments |->
                 users[s] \cup {<<d, r>> : r \in {q \in table[d] : rseg[q] = s}}
                          \cup {u \in {<<d, d>>} : s = dseg[d]}]
  /\ UNCHANGED <<name, daemonVars, receiverVars, table, since, intruded, robbed>>

\* The handler is done with the area; it counts the receiver off there.
Handled(r) ==
  /\ rpc[r] = "ready"
  /\ \E d \in Daemons :
       /\ <<d, r>> \in users[rseg[r]]
       /\ users' = [users EXCEPT ![rseg[r]] = @ \ {<<d, r>>}]
       /\ awaited' = IF rseg[r] = dseg[d] THEN [awaited EXCEPT ![d] = @ \ {r}]
                     ELSE awaited
  /\ UNCHANGED <<name, daemonVars, receiverVars, table, taken, since, intruded, robbed>>

FreeArea(d) ==
  /\ port = d /\ <<d, d>> \in users[dseg[d]] /\ awaited[d] = {}
  /\ taken' = taken \ {dseg[d]}
  /\ users' = [users EXCEPT ![dseg[d]] = @ \ {<<d, d>>}]
  /\ UNCHANGED <<name, daemonVars, receiverVars, table, awaited, since, intruded,
                 robbed>>

-----------------------------------------------------------------------------
StartUp(d) ==
  \/ Start(d) \/ Open(d) \/ TruncateFails(d) \/ MapFails(d)
  \/ InitBuffer(d) \/ Bind(d) \/ Refused(d) \/ StartFails(d)

ShutDown(d) == Terminate(d) \/ Release(d) \/ Exit(d) \/ Kill(d)

EmiInit(r) == ReceiverOpen(r) \/ Ready(r) \/ ReceiverFails(r)

AllEnded == (\A d \in Daemons : dpc[d] \in Ended) /\ UNCHANGED vars

Next ==
  \/ \E d \in Daemons : StartUp(d) \/ ShutDown(d) \/ Send(d) \/ FreeArea(d)
  \/ \E r \in Receivers : EmiInit(r) \/ Register(r) \/ Handled(r)
  \/ AllEnded

Spec == Init /\ [][Next]_vars

-----------------------------------------------------------------------------
\* Every variable has its type, and who is past shm_open has a segment.
TypeOK ==
  /\ \A d \in Daemons : dpc[d] \in {"map", "bind", "serve"} => dseg[d] # None
  /\ \A r \in Receivers : rpc[r] # "off" => rseg[r] # None
  /\ name \in Segments \cup {None} /\ port \in Daemons \cup {None}
  /\ dpc \in [Daemons -> {"off"} \cup Living \cup Ended]
  /\ dseg \in [Daemons -> Segments \cup {None}]
  /\ rpc \in [Receivers -> {"off", "map", "ready"}]
  /\ rseg \in [Receivers -> Segments \cup {None}]
  /\ table \in [Daemons -> SUBSET Receivers]
  /\ taken \subseteq Segments
  /\ awaited \in [Daemons -> SUBSET Receivers]
  /\ users \in [Segments -> SUBSET (Daemons \X (Daemons \cup Receivers))]
  /\ since \in [Daemons -> SUBSET Receivers]
  /\ intruded \subseteq Daemons /\ robbed \subseteq Daemons

\* A receiver that initialised while the daemon it registered with was there
\* shares its segment, after any number of kills, terminations and restarts, as
\* long as daemons do not overlap.  Only a receiver that is older than the daemon
\* may wait at a slot nobody writes (emi_shmem.c:68-96, emi_ifr.c:242, emi_core.c:74).
SharesSegment ==
  \A d \in Daemons :
    port = d /\ d \notin intruded =>
      \A r \in table[d] \cap since[d] : rseg[r] = dseg[d]

\* While a daemon serves, new receivers find its segment, unless another daemon
\* was started or a receiver failed in emi_init and removed the name
\* (emi_core.c:45, emi_ifr.c:249, 257).
ServedName ==
  \A d \in Daemons :
    dpc[d] = "serve" /\ d \notin intruded \cup robbed => name = dseg[d]

\* A daemon that starts when no other one lives is not turned away by what former
\* ones left behind, killed or not, and the name that is left when none lives was
\* left by one that was killed or did not come to serve: an orderly end removes it
\* (emi_core.c:36-40, 45, 108; main.c:52-57).
EndsAreClean ==
  /\ \A d \in Daemons : dpc[d] = "refused" => d \in intruded
  /\ name # None /\ Alive = {} =>
       \E d \in Daemons :
         dpc[d] \in {"killed", "failed", "refused"} /\ dseg[d] = name

\* The area a send gets is not in use for the message of another daemon, unless
\* that one was killed and its handlers live on, daemons overlapped, or a receiver
\* reads another segment than its daemon writes (emi_core.c:86, 136-139;
\* emi_shbuf.c:67-81).
NoForeignUse ==
  LET excused(d, u) == \/ dpc[d] = "killed" \/ d \in intruded
                       \/ u \in Receivers /\ rseg[u] # dseg[d]
  IN  \A s \in Segments : \A u, v \in users[s] :
        u[1] = v[1] \/ excused(u[1], u[2]) \/ excused(v[1], v[2])
=============================================================================
