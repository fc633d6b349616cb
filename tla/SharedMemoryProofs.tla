------------------------- MODULE SharedMemoryProofs -------------------------
(***************************************************************************)
(* The theorems about SharedMemory, for any number of daemons and receivers *)
(* and any number of daemons that live at the same time.                   *)
(***************************************************************************)
EXTENDS SharedMemory, TLAPS

\* A daemon has no segment before shm_open, and no receiver is noted for it.
Opened ==
  \A d \in Daemons :
    /\ dpc[d] \in {"off", "open"} => dseg[d] = None
    /\ dseg[d] = None => since[d] = {}

\* The daemon at the port lives.
Bound ==
  port # None => dpc[port] \in {"serve", "release", "leave"} /\ dseg[port] # None

\* Daemons that live at the same time are remembered.
Overlap == \A d, e \in Alive : d # e => d \in intruded

\* A segment that is in use, or has the name, was opened by its creator.
Created ==
  /\ name # None => dseg[name] # None
  /\ \A d \in Daemons : dseg[d] # None => dseg[dseg[d]] # None

\* While a daemon is alone the name leads to its segment or to none, so the
\* receivers that opened after it have its segment.
Shared ==
  \A d \in Alive \ intruded :
    dseg[d] # None =>
      name \in {dseg[d], None} /\ \A r \in since[d] : rseg[r] = dseg[d]

\* The name leads to its segment until the daemon or a receiver removes it.
Named ==
  \A d \in Daemons \ (intruded \cup robbed) :
    dpc[d] \in {"map", "bind", "serve"} => name = dseg[d]

\* A name that is left belongs to a daemon that has yet to remove it, or never
\* will.
Holder ==
  name # None =>
    \E d \in Daemons :
      /\ dseg[d] = name
      /\ dpc[d] \in {"map", "bind", "serve", "release", "killed", "failed", "refused"}

\* Only another one that serves turns a daemon away.
TurnedAway == \A d \in Daemons : dpc[d] = "refused" => d \in intruded

\* After an orderly end the segment has no name.
Removed ==
  \A d \in Daemons :
    dpc[d] \in {"leave", "exited"} /\ dseg[d] # None => name # dseg[d]

\* Of two daemons that have one segment and did not overlap, one left it behind.
Apart ==
  \A d, e \in Daemons \ intruded :
    d # e /\ dseg[d] = dseg[e] /\ dseg[d] # None =>
      \E f \in {d, e} : dpc[f] \in {"killed", "failed", "refused"}

\* Who refers to the area of a segment maps it, and the daemon has served.
UsedBy(u, s) ==
  /\ dpc[u[1]] \in {"serve", "release", "leave", "exited", "killed"}
  /\ u[2] \in Receivers => rpc[u[2]] = "ready" /\ rseg[u[2]] = s
  /\ u[2] \notin Receivers => dseg[u[1]] = s

Used ==
  /\ \A s \in Segments : \A u \in users[s] : UsedBy(u, s)
  /\ \A d \in Daemons : \A r \in table[d] : rpc[r] = "ready"

SegmentInv ==
  /\ TypeOK /\ Opened /\ Bound /\ Overlap /\ Created /\ Shared /\ Named /\ Holder
  /\ TurnedAway /\ Removed /\ Apart /\ Used
-----------------------------------------------------------------------------
\* Every action keeps the types.
LEMMA TypeStep ==
  ASSUME TypeOK, Bound, [Next]_vars
  PROVE  TypeOK'
<1> USE ProcessNames DEF
          TypeOK, daemonVars, receiverVars, areaVars, Segments, Starting,
          Living, Ended, Alive
<1>1. ASSUME NEW d \in Daemons, Start(d) PROVE TypeOK'
  BY <1>1 DEF Start, DGoto
<1>2. ASSUME NEW d \in Daemons, Open(d) PROVE TypeOK'
  BY <1>2 DEF Open, DGoto
<1>3. ASSUME NEW d \in Daemons, TruncateFails(d) PROVE TypeOK'
  BY <1>3 DEF TruncateFails, End, DGoto, Destroy
<1>4. ASSUME NEW d \in Daemons, MapFails(d) PROVE TypeOK'
  BY <1>4 DEF MapFails, End, DGoto, Destroy
<1>5. ASSUME NEW d \in Daemons, InitBuffer(d) PROVE TypeOK'
  BY <1>5 DEF InitBuffer, DGoto
<1>6. ASSUME NEW d \in Daemons, Bind(d) PROVE TypeOK'
  BY <1>6 DEF Bind, DGoto
<1>7. ASSUME NEW d \in Daemons, Refused(d) PROVE TypeOK'
  BY <1>7 DEF Refused, End, DGoto
<1>8. ASSUME NEW d \in Daemons, StartFails(d) PROVE TypeOK'
  BY <1>8 DEF StartFails, End, DGoto
<1>9. ASSUME NEW d \in Daemons, Terminate(d) PROVE TypeOK'
  BY <1>9 DEF Terminate, DGoto
<1>10. ASSUME NEW d \in Daemons, Release(d) PROVE TypeOK'
  BY <1>10 DEF Release, DGoto, Destroy
<1>11. ASSUME NEW d \in Daemons, Exit(d) PROVE TypeOK'
  BY <1>11 DEF Exit, End, DGoto
<1>12. ASSUME NEW d \in Daemons, Kill(d) PROVE TypeOK'
  BY <1>12 DEF Kill, End, DGoto
<1>13. ASSUME NEW d \in Daemons, Send(d) PROVE TypeOK'
  <2>1. \A s \in Segments : users'[s] \subseteq Daemons \X (Daemons \cup Receivers)
    <3> SUFFICES ASSUME NEW s \in Segments, NEW u \in users'[s]
                 PROVE  u \in Daemons \X (Daemons \cup Receivers)
      OBVIOUS
    <3>1. \/ u \in users[s]
          \/ \E r \in table[d] : u = <<d, r>>
          \/ u = <<d, d>>
      BY <1>13 DEF Send
    <3> QED
      BY <3>1
  <2>2. users' \in [Segments -> SUBSET (Daemons \X (Daemons \cup Receivers))]
    BY <1>13, <2>1 DEF Send
  <2>3. table[d] \subseteq Receivers /\ dseg[d] \in Segments
    BY <1>13 DEF Send, Bound
  <2>4. awaited' \in [Daemons -> SUBSET Receivers]
    BY <1>13, <2>3 DEF Send
  <2>5. taken' \subseteq Segments
    BY <1>13, <2>3 DEF Send
  <2>6. UNCHANGED <<name, port, dpc, dseg, rpc, rseg, table, since, intruded, robbed>>
    BY <1>13 DEF Send
  <2> QED
    BY <2>2, <2>4, <2>5, <2>6
<1>14. ASSUME NEW d \in Daemons, FreeArea(d) PROVE TypeOK'
  BY <1>14 DEF FreeArea
<1>15. ASSUME NEW r \in Receivers, ReceiverOpen(r) PROVE TypeOK'
  BY <1>15 DEF ReceiverOpen, RGoto, Noted
<1>16. ASSUME NEW r \in Receivers, Ready(r) PROVE TypeOK'
  BY <1>16 DEF Ready, RGoto
<1>17. ASSUME NEW r \in Receivers, ReceiverFails(r) PROVE TypeOK'
  BY <1>17 DEF ReceiverFails, Destroy, RGoto
<1>18. ASSUME NEW r \in Receivers, Register(r) PROVE TypeOK'
  BY <1>18 DEF Register
<1>19. ASSUME NEW r \in Receivers, Handled(r) PROVE TypeOK'
  BY <1>19 DEF Handled
<1>20. CASE UNCHANGED vars
  BY <1>20 DEF vars
<1> QED
  BY <1>1, <1>2, <1>3, <1>4, <1>5, <1>6, <1>7, <1>8, <1>9, <1>10, <1>11, <1>12,
     <1>13, <1>14, <1>15, <1>16, <1>17, <1>18, <1>19, <1>20
     DEF Next, StartUp, ShutDown, EmiInit, AllEnded

\* Who has a segment.
LEMMA OpenedStep ==
  ASSUME TypeOK, Opened, [Next]_vars
  PROVE  Opened'
<1> USE ProcessNames DEF
          TypeOK, Opened, daemonVars, receiverVars, areaVars, Segments,
          Starting, Living, Alive
<1>1. ASSUME NEW d \in Daemons, Start(d) PROVE Opened'
  BY <1>1 DEF Start, DGoto
<1>2. ASSUME NEW d \in Daemons, Open(d) PROVE Opened'
  BY <1>2 DEF Open, DGoto
<1>3. ASSUME NEW d \in Daemons, TruncateFails(d) PROVE Opened'
  BY <1>3 DEF TruncateFails, End, DGoto, Destroy
<1>4. ASSUME NEW d \in Daemons, MapFails(d) PROVE Opened'
  BY <1>4 DEF MapFails, End, DGoto, Destroy
<1>5. ASSUME NEW d \in Daemons, InitBuffer(d) PROVE Opened'
  BY <1>5 DEF InitBuffer, DGoto
<1>6. ASSUME NEW d \in Daemons, Bind(d) PROVE Opened'
  BY <1>6 DEF Bind, DGoto
<1>7. ASSUME NEW d \in Daemons, Refused(d) PROVE Opened'
  BY <1>7 DEF Refused, End, DGoto
<1>8. ASSUME NEW d \in Daemons, StartFails(d) PROVE Opened'
  BY <1>8 DEF StartFails, End, DGoto
<1>9. ASSUME NEW d \in Daemons, Terminate(d) PROVE Opened'
  BY <1>9 DEF Terminate, DGoto
<1>10. ASSUME NEW d \in Daemons, Release(d) PROVE Opened'
  BY <1>10 DEF Release, DGoto, Destroy
<1>11. ASSUME NEW d \in Daemons, Exit(d) PROVE Opened'
  BY <1>11 DEF Exit, End, DGoto
<1>12. ASSUME NEW d \in Daemons, Kill(d) PROVE Opened'
  BY <1>12 DEF Kill, End, DGoto
<1>13. ASSUME NEW d \in Daemons, Send(d) PROVE Opened'
  BY <1>13 DEF Send
<1>14. ASSUME NEW d \in Daemons, FreeArea(d) PROVE Opened'
  BY <1>14 DEF FreeArea
<1>15. ASSUME NEW r \in Receivers, ReceiverOpen(r) PROVE Opened'
  BY <1>15 DEF ReceiverOpen, RGoto, Noted
<1>16. ASSUME NEW r \in Receivers, Ready(r) PROVE Opened'
  BY <1>16 DEF Ready, RGoto
<1>17. ASSUME NEW r \in Receivers, ReceiverFails(r) PROVE Opened'
  BY <1>17 DEF ReceiverFails, Destroy, RGoto
<1>18. ASSUME NEW r \in Receivers, Register(r) PROVE Opened'
  BY <1>18 DEF Register
<1>19. ASSUME NEW r \in Receivers, Handled(r) PROVE Opened'
  BY <1>19 DEF Handled
<1>20. CASE UNCHANGED vars
  BY <1>20 DEF vars
<1> QED
  BY <1>1, <1>2, <1>3, <1>4, <1>5, <1>6, <1>7, <1>8, <1>9, <1>10, <1>11, <1>12,
     <1>13, <1>14, <1>15, <1>16, <1>17, <1>18, <1>19, <1>20
     DEF Next, StartUp, ShutDown, EmiInit, AllEnded

\* Who has the port.
LEMMA BoundStep ==
  ASSUME TypeOK, Bound, [Next]_vars
  PROVE  Bound'
<1> USE ProcessNames DEF
          TypeOK, Bound, daemonVars, receiverVars, areaVars, Segments,
          Starting, Living
<1>1. ASSUME NEW d \in Daemons, Start(d) PROVE Bound'
  BY <1>1 DEF Start, DGoto
<1>2. ASSUME NEW d \in Daemons, Open(d) PROVE Bound'
  BY <1>2 DEF Open, DGoto
<1>3. ASSUME NEW d \in Daemons, TruncateFails(d) PROVE Bound'
  BY <1>3 DEF TruncateFails, End, DGoto, Destroy
<1>4. ASSUME NEW d \in Daemons, MapFails(d) PROVE Bound'
  BY <1>4 DEF MapFails, End, DGoto, Destroy
<1>5. ASSUME NEW d \in Daemons, InitBuffer(d) PROVE Bound'
  BY <1>5 DEF InitBuffer, DGoto
<1>6. ASSUME NEW d \in Daemons, Bind(d) PROVE Bound'
  BY <1>6 DEF Bind, DGoto
<1>7. ASSUME NEW d \in Daemons, Refused(d) PROVE Bound'
  BY <1>7 DEF Refused, End, DGoto
<1>8. ASSUME NEW d \in Daemons, StartFails(d) PROVE Bound'
  BY <1>8 DEF StartFails, End, DGoto
<1>9. ASSUME NEW d \in Daemons, Terminate(d) PROVE Bound'
  BY <1>9 DEF Terminate, DGoto
<1>10. ASSUME NEW d \in Daemons, Release(d) PROVE Bound'
  BY <1>10 DEF Release, DGoto, Destroy
<1>11. ASSUME NEW d \in Daemons, Exit(d) PROVE Bound'
  BY <1>11 DEF Exit, End, DGoto
<1>12. ASSUME NEW d \in Daemons, Kill(d) PROVE Bound'
  BY <1>12 DEF Kill, End, DGoto
<1>13. ASSUME NEW d \in Daemons, Send(d) PROVE Bound'
  BY <1>13 DEF Send
<1>14. ASSUME NEW d \in Daemons, FreeArea(d) PROVE Bound'
  BY <1>14 DEF FreeArea
<1>15. ASSUME NEW r \in Receivers, ReceiverOpen(r) PROVE Bound'
  BY <1>15 DEF ReceiverOpen, RGoto, Noted
<1>16. ASSUME NEW r \in Receivers, Ready(r) PROVE Bound'
  BY <1>16 DEF Ready, RGoto
<1>17. ASSUME NEW r \in Receivers, ReceiverFails(r) PROVE Bound'
  BY <1>17 DEF ReceiverFails, Destroy, RGoto
<1>18. ASSUME NEW r \in Receivers, Register(r) PROVE Bound'
  BY <1>18 DEF Register
<1>19. ASSUME NEW r \in Receivers, Handled(r) PROVE Bound'
  BY <1>19 DEF Handled
<1>20. CASE UNCHANGED vars
  BY <1>20 DEF vars
<1> QED
  BY <1>1, <1>2, <1>3, <1>4, <1>5, <1>6, <1>7, <1>8, <1>9, <1>10, <1>11, <1>12,
     <1>13, <1>14, <1>15, <1>16, <1>17, <1>18, <1>19, <1>20
     DEF Next, StartUp, ShutDown, EmiInit, AllEnded

\* Daemons that overlap.
LEMMA OverlapStep ==
  ASSUME TypeOK, Overlap, [Next]_vars
  PROVE  Overlap'
<1> USE ProcessNames DEF
          TypeOK, Overlap, daemonVars, receiverVars, areaVars, Segments,
          Starting, Living, Alive, Ended
<1>1. ASSUME NEW d \in Daemons, Start(d) PROVE Overlap'
  BY <1>1 DEF Start, DGoto
<1>2. ASSUME NEW d \in Daemons, Open(d) PROVE Overlap'
  BY <1>2 DEF Open, DGoto
<1>3. ASSUME NEW d \in Daemons, TruncateFails(d) PROVE Overlap'
  BY <1>3 DEF TruncateFails, End, DGoto, Destroy
<1>4. ASSUME NEW d \in Daemons, MapFails(d) PROVE Overlap'
  BY <1>4 DEF MapFails, End, DGoto, Destroy
<1>5. ASSUME NEW d \in Daemons, InitBuffer(d) PROVE Overlap'
  BY <1>5 DEF InitBuffer, DGoto
<1>6. ASSUME NEW d \in Daemons, Bind(d) PROVE Overlap'
  BY <1>6 DEF Bind, DGoto
<1>7. ASSUME NEW d \in Daemons, Refused(d) PROVE Overlap'
  BY <1>7 DEF Refused, End, DGoto
<1>8. ASSUME NEW d \in Daemons, StartFails(d) PROVE Overlap'
  BY <1>8 DEF StartFails, End, DGoto
<1>9. ASSUME NEW d \in Daemons, Terminate(d) PROVE Overlap'
  BY <1>9 DEF Terminate, DGoto
<1>10. ASSUME NEW d \in Daemons, Release(d) PROVE Overlap'
  BY <1>10 DEF Release, DGoto, Destroy
<1>11. ASSUME NEW d \in Daemons, Exit(d) PROVE Overlap'
  BY <1>11 DEF Exit, End, DGoto
<1>12. ASSUME NEW d \in Daemons, Kill(d) PROVE Overlap'
  BY <1>12 DEF Kill, End, DGoto
<1>13. ASSUME NEW d \in Daemons, Send(d) PROVE Overlap'
  BY <1>13 DEF Send
<1>14. ASSUME NEW d \in Daemons, FreeArea(d) PROVE Overlap'
  BY <1>14 DEF FreeArea
<1>15. ASSUME NEW r \in Receivers, ReceiverOpen(r) PROVE Overlap'
  BY <1>15 DEF ReceiverOpen, RGoto, Noted
<1>16. ASSUME NEW r \in Receivers, Ready(r) PROVE Overlap'
  BY <1>16 DEF Ready, RGoto
<1>17. ASSUME NEW r \in Receivers, ReceiverFails(r) PROVE Overlap'
  BY <1>17 DEF ReceiverFails, Destroy, RGoto
<1>18. ASSUME NEW r \in Receivers, Register(r) PROVE Overlap'
  BY <1>18 DEF Register
<1>19. ASSUME NEW r \in Receivers, Handled(r) PROVE Overlap'
  BY <1>19 DEF Handled
<1>20. CASE UNCHANGED vars
  BY <1>20 DEF vars
<1> QED
  BY <1>1, <1>2, <1>3, <1>4, <1>5, <1>6, <1>7, <1>8, <1>9, <1>10, <1>11, <1>12,
     <1>13, <1>14, <1>15, <1>16, <1>17, <1>18, <1>19, <1>20
     DEF Next, StartUp, ShutDown, EmiInit, AllEnded

\* Segments are created once.
LEMMA CreatedStep ==
  ASSUME TypeOK, Created, [Next]_vars
  PROVE  Created'
<1> USE ProcessNames DEF
          TypeOK, Created, daemonVars, receiverVars, areaVars, Segments,
          Starting, Living
<1>1. ASSUME NEW d \in Daemons, Start(d) PROVE Created'
  BY <1>1 DEF Start, DGoto
<1>2. ASSUME NEW d \in Daemons, Open(d) PROVE Created'
  BY <1>2 DEF Open, DGoto
<1>3. ASSUME NEW d \in Daemons, TruncateFails(d) PROVE Created'
  BY <1>3 DEF TruncateFails, End, DGoto, Destroy
<1>4. ASSUME NEW d \in Daemons, MapFails(d) PROVE Created'
  BY <1>4 DEF MapFails, End, DGoto, Destroy
<1>5. ASSUME NEW d \in Daemons, InitBuffer(d) PROVE Created'
  BY <1>5 DEF InitBuffer, DGoto
<1>6. ASSUME NEW d \in Daemons, Bind(d) PROVE Created'
  BY <1>6 DEF Bind, DGoto
<1>7. ASSUME NEW d \in Daemons, Refused(d) PROVE Created'
  BY <1>7 DEF Refused, End, DGoto
<1>8. ASSUME NEW d \in Daemons, StartFails(d) PROVE Created'
  BY <1>8 DEF StartFails, End, DGoto
<1>9. ASSUME NEW d \in Daemons, Terminate(d) PROVE Created'
  BY <1>9 DEF Terminate, DGoto
<1>10. ASSUME NEW d \in Daemons, Release(d) PROVE Created'
  BY <1>10 DEF Release, DGoto, Destroy
<1>11. ASSUME NEW d \in Daemons, Exit(d) PROVE Created'
  BY <1>11 DEF Exit, End, DGoto
<1>12. ASSUME NEW d \in Daemons, Kill(d) PROVE Created'
  BY <1>12 DEF Kill, End, DGoto
<1>13. ASSUME NEW d \in Daemons, Send(d) PROVE Created'
  BY <1>13 DEF Send
<1>14. ASSUME NEW d \in Daemons, FreeArea(d) PROVE Created'
  BY <1>14 DEF FreeArea
<1>15. ASSUME NEW r \in Receivers, ReceiverOpen(r) PROVE Created'
  BY <1>15 DEF ReceiverOpen, RGoto, Noted
<1>16. ASSUME NEW r \in Receivers, Ready(r) PROVE Created'
  BY <1>16 DEF Ready, RGoto
<1>17. ASSUME NEW r \in Receivers, ReceiverFails(r) PROVE Created'
  BY <1>17 DEF ReceiverFails, Destroy, RGoto
<1>18. ASSUME NEW r \in Receivers, Register(r) PROVE Created'
  BY <1>18 DEF Register
<1>19. ASSUME NEW r \in Receivers, Handled(r) PROVE Created'
  BY <1>19 DEF Handled
<1>20. CASE UNCHANGED vars
  BY <1>20 DEF vars
<1> QED
  BY <1>1, <1>2, <1>3, <1>4, <1>5, <1>6, <1>7, <1>8, <1>9, <1>10, <1>11, <1>12,
     <1>13, <1>14, <1>15, <1>16, <1>17, <1>18, <1>19, <1>20
     DEF Next, StartUp, ShutDown, EmiInit, AllEnded

\* The segment of a daemon that is alone.
LEMMA SharedStep ==
  ASSUME TypeOK, Opened, Overlap, Shared, [Next]_vars
  PROVE  Shared'
<1> USE ProcessNames DEF
          TypeOK, Opened, Overlap, Shared, daemonVars, receiverVars, areaVars,
          Segments, Starting, Living, Alive, Ended
<1>1. ASSUME NEW d \in Daemons, Start(d) PROVE Shared'
  BY <1>1 DEF Start, DGoto
<1>2. ASSUME NEW d \in Daemons, Open(d) PROVE Shared'
  BY <1>2 DEF Open, DGoto
<1>3. ASSUME NEW d \in Daemons, TruncateFails(d) PROVE Shared'
  BY <1>3 DEF TruncateFails, End, DGoto, Destroy
<1>4. ASSUME NEW d \in Daemons, MapFails(d) PROVE Shared'
  BY <1>4 DEF MapFails, End, DGoto, Destroy
<1>5. ASSUME NEW d \in Daemons, InitBuffer(d) PROVE Shared'
  BY <1>5 DEF InitBuffer, DGoto
<1>6. ASSUME NEW d \in Daemons, Bind(d) PROVE Shared'
  BY <1>6 DEF Bind, DGoto
<1>7. ASSUME NEW d \in Daemons, Refused(d) PROVE Shared'
  BY <1>7 DEF Refused, End, DGoto
<1>8. ASSUME NEW d \in Daemons, StartFails(d) PROVE Shared'
  BY <1>8 DEF StartFails, End, DGoto
<1>9. ASSUME NEW d \in Daemons, Terminate(d) PROVE Shared'
  BY <1>9 DEF Terminate, DGoto
<1>10. ASSUME NEW d \in Daemons, Release(d) PROVE Shared'
  BY <1>10 DEF Release, DGoto, Destroy
<1>11. ASSUME NEW d \in Daemons, Exit(d) PROVE Shared'
  BY <1>11 DEF Exit, End, DGoto
<1>12. ASSUME NEW d \in Daemons, Kill(d) PROVE Shared'
  BY <1>12 DEF Kill, End, DGoto
<1>13. ASSUME NEW d \in Daemons, Send(d) PROVE Shared'
  BY <1>13 DEF Send
<1>14. ASSUME NEW d \in Daemons, FreeArea(d) PROVE Shared'
  BY <1>14 DEF FreeArea
<1>15. ASSUME NEW r \in Receivers, ReceiverOpen(r) PROVE Shared'
  BY <1>15 DEF ReceiverOpen, RGoto, Noted
<1>16. ASSUME NEW r \in Receivers, Ready(r) PROVE Shared'
  BY <1>16 DEF Ready, RGoto
<1>17. ASSUME NEW r \in Receivers, ReceiverFails(r) PROVE Shared'
  BY <1>17 DEF ReceiverFails, Destroy, RGoto
<1>18. ASSUME NEW r \in Receivers, Register(r) PROVE Shared'
  BY <1>18 DEF Register
<1>19. ASSUME NEW r \in Receivers, Handled(r) PROVE Shared'
  BY <1>19 DEF Handled
<1>20. CASE UNCHANGED vars
  BY <1>20 DEF vars
<1> QED
  BY <1>1, <1>2, <1>3, <1>4, <1>5, <1>6, <1>7, <1>8, <1>9, <1>10, <1>11, <1>12,
     <1>13, <1>14, <1>15, <1>16, <1>17, <1>18, <1>19, <1>20
     DEF Next, StartUp, ShutDown, EmiInit, AllEnded

\* The name of a daemon that is alone.
LEMMA NamedStep ==
  ASSUME TypeOK, Opened, Overlap, Named, [Next]_vars
  PROVE  Named'
<1> USE ProcessNames DEF
          TypeOK, Opened, Overlap, Named, daemonVars, receiverVars, areaVars,
          Segments, Starting, Living, Alive
<1>1. ASSUME NEW d \in Daemons, Start(d) PROVE Named'
  BY <1>1 DEF Start, DGoto
<1>2. ASSUME NEW d \in Daemons, Open(d) PROVE Named'
  BY <1>2 DEF Open, DGoto
<1>3. ASSUME NEW d \in Daemons, TruncateFails(d) PROVE Named'
  BY <1>3 DEF TruncateFails, End, DGoto, Destroy
<1>4. ASSUME NEW d \in Daemons, MapFails(d) PROVE Named'
  BY <1>4 DEF MapFails, End, DGoto, Destroy
<1>5. ASSUME NEW d \in Daemons, InitBuffer(d) PROVE Named'
  BY <1>5 DEF InitBuffer, DGoto
<1>6. ASSUME NEW d \in Daemons, Bind(d) PROVE Named'
  BY <1>6 DEF Bind, DGoto
<1>7. ASSUME NEW d \in Daemons, Refused(d) PROVE Named'
  BY <1>7 DEF Refused, End, DGoto
<1>8. ASSUME NEW d \in Daemons, StartFails(d) PROVE Named'
  BY <1>8 DEF StartFails, End, DGoto
<1>9. ASSUME NEW d \in Daemons, Terminate(d) PROVE Named'
  BY <1>9 DEF Terminate, DGoto
<1>10. ASSUME NEW d \in Daemons, Release(d) PROVE Named'
  BY <1>10 DEF Release, DGoto, Destroy
<1>11. ASSUME NEW d \in Daemons, Exit(d) PROVE Named'
  BY <1>11 DEF Exit, End, DGoto
<1>12. ASSUME NEW d \in Daemons, Kill(d) PROVE Named'
  BY <1>12 DEF Kill, End, DGoto
<1>13. ASSUME NEW d \in Daemons, Send(d) PROVE Named'
  BY <1>13 DEF Send
<1>14. ASSUME NEW d \in Daemons, FreeArea(d) PROVE Named'
  BY <1>14 DEF FreeArea
<1>15. ASSUME NEW r \in Receivers, ReceiverOpen(r) PROVE Named'
  BY <1>15 DEF ReceiverOpen, RGoto, Noted
<1>16. ASSUME NEW r \in Receivers, Ready(r) PROVE Named'
  BY <1>16 DEF Ready, RGoto
<1>17. ASSUME NEW r \in Receivers, ReceiverFails(r) PROVE Named'
  BY <1>17 DEF ReceiverFails, Destroy, RGoto
<1>18. ASSUME NEW r \in Receivers, Register(r) PROVE Named'
  BY <1>18 DEF Register
<1>19. ASSUME NEW r \in Receivers, Handled(r) PROVE Named'
  BY <1>19 DEF Handled
<1>20. CASE UNCHANGED vars
  BY <1>20 DEF vars
<1> QED
  BY <1>1, <1>2, <1>3, <1>4, <1>5, <1>6, <1>7, <1>8, <1>9, <1>10, <1>11, <1>12,
     <1>13, <1>14, <1>15, <1>16, <1>17, <1>18, <1>19, <1>20
     DEF Next, StartUp, ShutDown, EmiInit, AllEnded

\* The name that is left.
LEMMA HolderStep ==
  ASSUME TypeOK, Holder, [Next]_vars
  PROVE  Holder'
<1> USE ProcessNames DEF
          TypeOK, Holder, daemonVars, receiverVars, areaVars, Segments,
          Starting, Living
<1>1. ASSUME NEW d \in Daemons, Start(d) PROVE Holder'
  BY <1>1 DEF Start, DGoto
<1>2. ASSUME NEW d \in Daemons, Open(d) PROVE Holder'
  BY <1>2 DEF Open, DGoto
<1>3. ASSUME NEW d \in Daemons, TruncateFails(d) PROVE Holder'
  BY <1>3 DEF TruncateFails, End, DGoto, Destroy
<1>4. ASSUME NEW d \in Daemons, MapFails(d) PROVE Holder'
  BY <1>4 DEF MapFails, End, DGoto, Destroy
<1>5. ASSUME NEW d \in Daemons, InitBuffer(d) PROVE Holder'
  BY <1>5 DEF InitBuffer, DGoto
<1>6. ASSUME NEW d \in Daemons, Bind(d) PROVE Holder'
  BY <1>6 DEF Bind, DGoto
<1>7. ASSUME NEW d \in Daemons, Refused(d) PROVE Holder'
  BY <1>7 DEF Refused, End, DGoto
<1>8. ASSUME NEW d \in Daemons, StartFails(d) PROVE Holder'
  BY <1>8 DEF StartFails, End, DGoto
<1>9. ASSUME NEW d \in Daemons, Terminate(d) PROVE Holder'
  BY <1>9 DEF Terminate, DGoto
<1>10. ASSUME NEW d \in Daemons, Release(d) PROVE Holder'
  BY <1>10 DEF Release, DGoto, Destroy
<1>11. ASSUME NEW d \in Daemons, Exit(d) PROVE Holder'
  BY <1>11 DEF Exit, End, DGoto
<1>12. ASSUME NEW d \in Daemons, Kill(d) PROVE Holder'
  BY <1>12 DEF Kill, End, DGoto
<1>13. ASSUME NEW d \in Daemons, Send(d) PROVE Holder'
  BY <1>13 DEF Send
<1>14. ASSUME NEW d \in Daemons, FreeArea(d) PROVE Holder'
  BY <1>14 DEF FreeArea
<1>15. ASSUME NEW r \in Receivers, ReceiverOpen(r) PROVE Holder'
  BY <1>15 DEF ReceiverOpen, RGoto, Noted
<1>16. ASSUME NEW r \in Receivers, Ready(r) PROVE Holder'
  BY <1>16 DEF Ready, RGoto
<1>17. ASSUME NEW r \in Receivers, ReceiverFails(r) PROVE Holder'
  BY <1>17 DEF ReceiverFails, Destroy, RGoto
<1>18. ASSUME NEW r \in Receivers, Register(r) PROVE Holder'
  BY <1>18 DEF Register
<1>19. ASSUME NEW r \in Receivers, Handled(r) PROVE Holder'
  BY <1>19 DEF Handled
<1>20. CASE UNCHANGED vars
  BY <1>20 DEF vars
<1> QED
  BY <1>1, <1>2, <1>3, <1>4, <1>5, <1>6, <1>7, <1>8, <1>9, <1>10, <1>11, <1>12,
     <1>13, <1>14, <1>15, <1>16, <1>17, <1>18, <1>19, <1>20
     DEF Next, StartUp, ShutDown, EmiInit, AllEnded

\* Daemons that are turned away.
LEMMA TurnedAwayStep ==
  ASSUME TypeOK, Bound, Overlap, TurnedAway, [Next]_vars
  PROVE  TurnedAway'
<1> USE ProcessNames DEF
          TypeOK, Bound, Overlap, TurnedAway, daemonVars, receiverVars,
          areaVars, Segments, Starting, Living, Alive
<1>1. ASSUME NEW d \in Daemons, Start(d) PROVE TurnedAway'
  BY <1>1 DEF Start, DGoto
<1>2. ASSUME NEW d \in Daemons, Open(d) PROVE TurnedAway'
  BY <1>2 DEF Open, DGoto
<1>3. ASSUME NEW d \in Daemons, TruncateFails(d) PROVE TurnedAway'
  BY <1>3 DEF TruncateFails, End, DGoto, Destroy
<1>4. ASSUME NEW d \in Daemons, MapFails(d) PROVE TurnedAway'
  BY <1>4 DEF MapFails, End, DGoto, Destroy
<1>5. ASSUME NEW d \in Daemons, InitBuffer(d) PROVE TurnedAway'
  BY <1>5 DEF InitBuffer, DGoto
<1>6. ASSUME NEW d \in Daemons, Bind(d) PROVE TurnedAway'
  BY <1>6 DEF Bind, DGoto
<1>7. ASSUME NEW d \in Daemons, Refused(d) PROVE TurnedAway'
  BY <1>7 DEF Refused, End, DGoto
<1>8. ASSUME NEW d \in Daemons, StartFails(d) PROVE TurnedAway'
  BY <1>8 DEF StartFails, End, DGoto
<1>9. ASSUME NEW d \in Daemons, Terminate(d) PROVE TurnedAway'
  BY <1>9 DEF Terminate, DGoto
<1>10. ASSUME NEW d \in Daemons, Release(d) PROVE TurnedAway'
  BY <1>10 DEF Release, DGoto, Destroy
<1>11. ASSUME NEW d \in Daemons, Exit(d) PROVE TurnedAway'
  BY <1>11 DEF Exit, End, DGoto
<1>12. ASSUME NEW d \in Daemons, Kill(d) PROVE TurnedAway'
  BY <1>12 DEF Kill, End, DGoto
<1>13. ASSUME NEW d \in Daemons, Send(d) PROVE TurnedAway'
  BY <1>13 DEF Send
<1>14. ASSUME NEW d \in Daemons, FreeArea(d) PROVE TurnedAway'
  BY <1>14 DEF FreeArea
<1>15. ASSUME NEW r \in Receivers, ReceiverOpen(r) PROVE TurnedAway'
  BY <1>15 DEF ReceiverOpen, RGoto, Noted
<1>16. ASSUME NEW r \in Receivers, Ready(r) PROVE TurnedAway'
  BY <1>16 DEF Ready, RGoto
<1>17. ASSUME NEW r \in Receivers, ReceiverFails(r) PROVE TurnedAway'
  BY <1>17 DEF ReceiverFails, Destroy, RGoto
<1>18. ASSUME NEW r \in Receivers, Register(r) PROVE TurnedAway'
  BY <1>18 DEF Register
<1>19. ASSUME NEW r \in Receivers, Handled(r) PROVE TurnedAway'
  BY <1>19 DEF Handled
<1>20. CASE UNCHANGED vars
  BY <1>20 DEF vars
<1> QED
  BY <1>1, <1>2, <1>3, <1>4, <1>5, <1>6, <1>7, <1>8, <1>9, <1>10, <1>11, <1>12,
     <1>13, <1>14, <1>15, <1>16, <1>17, <1>18, <1>19, <1>20
     DEF Next, StartUp, ShutDown, EmiInit, AllEnded

\* The name after an orderly end.
LEMMA RemovedStep ==
  ASSUME TypeOK, Opened, Created, Removed, [Next]_vars
  PROVE  Removed'
<1> USE ProcessNames DEF
          TypeOK, Opened, Created, Removed, daemonVars, receiverVars, areaVars,
          Segments, Starting, Living
<1>1. ASSUME NEW d \in Daemons, Start(d) PROVE Removed'
  BY <1>1 DEF Start, DGoto
<1>2. ASSUME NEW d \in Daemons, Open(d) PROVE Removed'
  BY <1>2 DEF Open, DGoto
<1>3. ASSUME NEW d \in Daemons, TruncateFails(d) PROVE Removed'
  BY <1>3 DEF TruncateFails, End, DGoto, Destroy
<1>4. ASSUME NEW d \in Daemons, MapFails(d) PROVE Removed'
  BY <1>4 DEF MapFails, End, DGoto, Destroy
<1>5. ASSUME NEW d \in Daemons, InitBuffer(d) PROVE Removed'
  BY <1>5 DEF InitBuffer, DGoto
<1>6. ASSUME NEW d \in Daemons, Bind(d) PROVE Removed'
  BY <1>6 DEF Bind, DGoto
<1>7. ASSUME NEW d \in Daemons, Refused(d) PROVE Removed'
  BY <1>7 DEF Refused, End, DGoto
<1>8. ASSUME NEW d \in Daemons, StartFails(d) PROVE Removed'
  BY <1>8 DEF StartFails, End, DGoto
<1>9. ASSUME NEW d \in Daemons, Terminate(d) PROVE Removed'
  BY <1>9 DEF Terminate, DGoto
<1>10. ASSUME NEW d \in Daemons, Release(d) PROVE Removed'
  BY <1>10 DEF Release, DGoto, Destroy
<1>11. ASSUME NEW d \in Daemons, Exit(d) PROVE Removed'
  BY <1>11 DEF Exit, End, DGoto
<1>12. ASSUME NEW d \in Daemons, Kill(d) PROVE Removed'
  BY <1>12 DEF Kill, End, DGoto
<1>13. ASSUME NEW d \in Daemons, Send(d) PROVE Removed'
  BY <1>13 DEF Send
<1>14. ASSUME NEW d \in Daemons, FreeArea(d) PROVE Removed'
  BY <1>14 DEF FreeArea
<1>15. ASSUME NEW r \in Receivers, ReceiverOpen(r) PROVE Removed'
  BY <1>15 DEF ReceiverOpen, RGoto, Noted
<1>16. ASSUME NEW r \in Receivers, Ready(r) PROVE Removed'
  BY <1>16 DEF Ready, RGoto
<1>17. ASSUME NEW r \in Receivers, ReceiverFails(r) PROVE Removed'
  BY <1>17 DEF ReceiverFails, Destroy, RGoto
<1>18. ASSUME NEW r \in Receivers, Register(r) PROVE Removed'
  BY <1>18 DEF Register
<1>19. ASSUME NEW r \in Receivers, Handled(r) PROVE Removed'
  BY <1>19 DEF Handled
<1>20. CASE UNCHANGED vars
  BY <1>20 DEF vars
<1> QED
  BY <1>1, <1>2, <1>3, <1>4, <1>5, <1>6, <1>7, <1>8, <1>9, <1>10, <1>11, <1>12,
     <1>13, <1>14, <1>15, <1>16, <1>17, <1>18, <1>19, <1>20
     DEF Next, StartUp, ShutDown, EmiInit, AllEnded

\* Daemons with one segment.
LEMMA ApartStep ==
  ASSUME TypeOK, Opened, Overlap, Created, Removed, Apart, [Next]_vars
  PROVE  Apart'
<1> USE ProcessNames DEF
          TypeOK, Opened, Overlap, Created, Removed, Apart, daemonVars,
          receiverVars, areaVars, Segments, Starting, Living, Alive, Ended
<1>1. ASSUME NEW d \in Daemons, Start(d) PROVE Apart'
  BY <1>1 DEF Start, DGoto
<1>2. ASSUME NEW d \in Daemons, Open(d) PROVE Apart'
  BY <1>2 DEF Open, DGoto
<1>3. ASSUME NEW d \in Daemons, TruncateFails(d) PROVE Apart'
  BY <1>3 DEF TruncateFails, End, DGoto, Destroy
<1>4. ASSUME NEW d \in Daemons, MapFails(d) PROVE Apart'
  BY <1>4 DEF MapFails, End, DGoto, Destroy
<1>5. ASSUME NEW d \in Daemons, InitBuffer(d) PROVE Apart'
  BY <1>5 DEF InitBuffer, DGoto
<1>6. ASSUME NEW d \in Daemons, Bind(d) PROVE Apart'
  BY <1>6 DEF Bind, DGoto
<1>7. ASSUME NEW d \in Daemons, Refused(d) PROVE Apart'
  BY <1>7 DEF Refused, End, DGoto
<1>8. ASSUME NEW d \in Daemons, StartFails(d) PROVE Apart'
  BY <1>8 DEF StartFails, End, DGoto
<1>9. ASSUME NEW d \in Daemons, Terminate(d) PROVE Apart'
  BY <1>9 DEF Terminate, DGoto
<1>10. ASSUME NEW d \in Daemons, Release(d) PROVE Apart'
  BY <1>10 DEF Release, DGoto, Destroy
<1>11. ASSUME NEW d \in Daemons, Exit(d) PROVE Apart'
  BY <1>11 DEF Exit, End, DGoto
<1>12. ASSUME NEW d \in Daemons, Kill(d) PROVE Apart'
  BY <1>12 DEF Kill, End, DGoto
<1>13. ASSUME NEW d \in Daemons, Send(d) PROVE Apart'
  BY <1>13 DEF Send
<1>14. ASSUME NEW d \in Daemons, FreeArea(d) PROVE Apart'
  BY <1>14 DEF FreeArea
<1>15. ASSUME NEW r \in Receivers, ReceiverOpen(r) PROVE Apart'
  BY <1>15 DEF ReceiverOpen, RGoto, Noted
<1>16. ASSUME NEW r \in Receivers, Ready(r) PROVE Apart'
  BY <1>16 DEF Ready, RGoto
<1>17. ASSUME NEW r \in Receivers, ReceiverFails(r) PROVE Apart'
  BY <1>17 DEF ReceiverFails, Destroy, RGoto
<1>18. ASSUME NEW r \in Receivers, Register(r) PROVE Apart'
  BY <1>18 DEF Register
<1>19. ASSUME NEW r \in Receivers, Handled(r) PROVE Apart'
  BY <1>19 DEF Handled
<1>20. CASE UNCHANGED vars
  BY <1>20 DEF vars
<1> QED
  BY <1>1, <1>2, <1>3, <1>4, <1>5, <1>6, <1>7, <1>8, <1>9, <1>10, <1>11, <1>12,
     <1>13, <1>14, <1>15, <1>16, <1>17, <1>18, <1>19, <1>20
     DEF Next, StartUp, ShutDown, EmiInit, AllEnded

\* The uses of the areas.
LEMMA UsedStep ==
  ASSUME TypeOK, Opened, Bound, Used, [Next]_vars
  PROVE  Used'
<1> USE ProcessNames DEF
          TypeOK, Opened, Bound, Used, UsedBy, daemonVars, receiverVars,
          areaVars, Segments, Starting, Living
<1>1. ASSUME NEW d \in Daemons, Start(d) PROVE Used'
  BY <1>1 DEF Start, DGoto
<1>2. ASSUME NEW d \in Daemons, Open(d) PROVE Used'
  BY <1>2 DEF Open, DGoto
<1>3. ASSUME NEW d \in Daemons, TruncateFails(d) PROVE Used'
  BY <1>3 DEF TruncateFails, End, DGoto, Destroy
<1>4. ASSUME NEW d \in Daemons, MapFails(d) PROVE Used'
  BY <1>4 DEF MapFails, End, DGoto, Destroy
<1>5. ASSUME NEW d \in Daemons, InitBuffer(d) PROVE Used'
  BY <1>5 DEF InitBuffer, DGoto
<1>6. ASSUME NEW d \in Daemons, Bind(d) PROVE Used'
  BY <1>6 DEF Bind, DGoto
<1>7. ASSUME NEW d \in Daemons, Refused(d) PROVE Used'
  BY <1>7 DEF Refused, End, DGoto
<1>8. ASSUME NEW d \in Daemons, StartFails(d) PROVE Used'
  BY <1>8 DEF StartFails, End, DGoto
<1>9. ASSUME NEW d \in Daemons, Terminate(d) PROVE Used'
  BY <1>9 DEF Terminate, DGoto
<1>10. ASSUME NEW d \in Daemons, Release(d) PROVE Used'
  BY <1>10 DEF Release, DGoto, Destroy
<1>11. ASSUME NEW d \in Daemons, Exit(d) PROVE Used'
  BY <1>11 DEF Exit, End, DGoto
<1>12. ASSUME NEW d \in Daemons, Kill(d) PROVE Used'
  BY <1>12 DEF Kill, End, DGoto
<1>13. ASSUME NEW d \in Daemons, Send(d) PROVE Used'
  <2>1. dpc[d] \in {"serve", "release", "leave"}
    BY <1>13 DEF Send
  <2> SUFFICES ASSUME NEW s \in Segments, NEW u \in users'[s]
               PROVE  UsedBy(u, s)'
    BY <1>13 DEF Send
  <2>2. \/ u \in users[s]
        \/ \E r \in table[d] : u = <<d, r>> /\ rseg[r] = s
        \/ u = <<d, d>> /\ s = dseg[d]
    BY <1>13 DEF Send
  <2> QED
    BY <1>13, <2>1, <2>2 DEF Send
<1>14. ASSUME NEW d \in Daemons, FreeArea(d) PROVE Used'
  BY <1>14 DEF FreeArea
<1>15. ASSUME NEW r \in Receivers, ReceiverOpen(r) PROVE Used'
  BY <1>15 DEF ReceiverOpen, RGoto, Noted
<1>16. ASSUME NEW r \in Receivers, Ready(r) PROVE Used'
  BY <1>16 DEF Ready, RGoto
<1>17. ASSUME NEW r \in Receivers, ReceiverFails(r) PROVE Used'
  BY <1>17 DEF ReceiverFails, Destroy, RGoto
<1>18. ASSUME NEW r \in Receivers, Register(r) PROVE Used'
  BY <1>18 DEF Register
<1>19. ASSUME NEW r \in Receivers, Handled(r) PROVE Used'
  BY <1>19 DEF Handled
<1>20. CASE UNCHANGED vars
  BY <1>20 DEF vars
<1> QED
  BY <1>1, <1>2, <1>3, <1>4, <1>5, <1>6, <1>7, <1>8, <1>9, <1>10, <1>11, <1>12,
     <1>13, <1>14, <1>15, <1>16, <1>17, <1>18, <1>19, <1>20
     DEF Next, StartUp, ShutDown, EmiInit, AllEnded

-----------------------------------------------------------------------------
(* The invariant of the segment, and what follows from it.                 *)

\* It holds at first: nobody has opened anything.
LEMMA InvInit == Init => SegmentInv
BY ProcessNames DEF Init, SegmentInv, TypeOK, Opened, Bound, Overlap, Created, Shared, Named,
   Holder, TurnedAway, Removed, Apart, Used, UsedBy, Segments, Living, Starting, Ended, Alive

\* Every step keeps it.
LEMMA InvStep == SegmentInv /\ [Next]_vars => SegmentInv'
BY TypeStep, OpenedStep, BoundStep, OverlapStep, CreatedStep, SharedStep, NamedStep,
   HolderStep, TurnedAwayStep, RemovedStep, ApartStep, UsedStep DEF SegmentInv

\* It holds in every state.
LEMMA InvHolds == Spec => []SegmentInv
BY InvInit, InvStep, PTL DEF Spec

\* Every variable keeps its type, and who is past shm_open has a segment
\* (emi_core.c:45-54, emi_ifr.c:242-251).
THEOREM SegmentTypeCorrect == Spec => []TypeOK
<1>1. SegmentInv => TypeOK
  BY DEF SegmentInv
<1> QED
  BY <1>1, InvHolds, PTL

\* A receiver that opened the segment while the daemon it registers with was there
\* maps the segment of that daemon, if daemons do not overlap (emi_ifr.c:242).
THEOREM SegmentsAreShared == Spec => []SharesSegment
<1>1. SegmentInv => SharesSegment
  BY ProcessNames DEF SegmentInv, TypeOK, Bound, Shared, SharesSegment, Alive, Living
<1> QED
  BY <1>1, InvHolds, PTL

\* While a daemon serves the name leads to its segment, unless daemons overlapped or
\* a receiver failed in emi_init (emi_ifr.c:249, 257).
THEOREM NamesAreServed == Spec => []ServedName
<1>1. SegmentInv => ServedName
  BY DEF SegmentInv, Named, ServedName
<1> QED
  BY <1>1, InvHolds, PTL

\* A daemon that lives alone is not turned away, and a name that is left when none
\* lives was left by one that did not end in order (emi_core.c:36-40).
THEOREM EndsLeaveNothing == Spec => []EndsAreClean
<1>1. SegmentInv => EndsAreClean
  BY DEF SegmentInv, TurnedAway, Holder, EndsAreClean, Alive, Living, Starting
<1> QED
  BY <1>1, InvHolds, PTL

\* Messages of two daemons are in one area only after a kill, an overlap, or in a
\* receiver that maps another segment than its daemon (emi_core.c:86).
THEOREM AreasAreNotForeign == Spec => []NoForeignUse
<1>1. SegmentInv => NoForeignUse
  <2> SUFFICES ASSUME SegmentInv, NEW s \in Segments, NEW u \in users[s], NEW v \in users[s],
                      u[1] # v[1],
                      dpc[u[1]] # "killed", u[1] \notin intruded,
                      dpc[v[1]] # "killed", v[1] \notin intruded,
                      ~(u[2] \in Receivers /\ rseg[u[2]] # dseg[u[1]]),
                      ~(v[2] \in Receivers /\ rseg[v[2]] # dseg[v[1]])
               PROVE  FALSE
    BY DEF NoForeignUse
  <2>1. u[1] \in Daemons /\ v[1] \in Daemons /\ s # None
    BY ProcessNames DEF SegmentInv, TypeOK, Segments
  <2>2. dseg[u[1]] = s /\ dseg[v[1]] = s
    BY DEF SegmentInv, Used, UsedBy
  <2>3. \E f \in {u[1], v[1]} : dpc[f] \in {"killed", "failed", "refused"}
    BY <2>1, <2>2 DEF SegmentInv, Apart
  <2> QED
    BY <2>3 DEF SegmentInv, Used, UsedBy
<1> QED
  BY <1>1, InvHolds, PTL
=============================================================================
