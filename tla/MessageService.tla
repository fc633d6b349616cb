--------------------------- MODULE MessageService ---------------------------
(***************************************************************************)
(* What emi_core promises the processes that use it                        *)
(* (src/include/emi_if.h, src/include/emi_ifr.h), without slots, signals,  *)
(* areas, counts and locks: a message goes to the processes that are       *)
(* registered for it when it is sent, each of them handles it once, the    *)
(* send is over when each of them handled it or is gone, and a blocking    *)
(* caller then gets the verdict the handlers have earned.                  *)
(***************************************************************************)
CONSTANTS
  Procs, Msgs,
  Sends, Blocking,   \* the sends and those whose caller waits
  MsgOf              \* the message of each send

VARIABLES
  registered,        \* which process is registered for which message
  gone,              \* the processes that have exited
  stage,             \* of each send: "new", "open" or "over"
  awaited,           \* the processes that have yet to handle an open send
  outcome,           \* what became of each send at each process
  verdict            \* what each blocking caller was told

vars == <<registered, gone, stage, awaited, outcome, verdict>>

Init ==
  /\ registered = {} /\ gone = {}
  /\ stage = [c \in Sends |-> "new"]
  /\ awaited = [c \in Sends |-> {}]
  /\ outcome = [c \in Sends |-> [p \in Procs |-> "none"]]
  /\ verdict = [c \in Blocking |-> "none"]

Register(p, m) ==
  /\ <<p, m>> \notin registered
  /\ registered' = registered \cup {<<p, m>>}
  /\ UNCHANGED <<gone, stage, awaited, outcome, verdict>>

Leave(p) ==
  /\ p \notin gone
  /\ gone' = gone \cup {p}
  /\ UNCHANGED <<registered, stage, awaited, outcome, verdict>>

\* A process that is gone is registered no longer, and nobody waits for it.
Forget(p, m) ==
  /\ p \in gone /\ <<p, m>> \in registered
  /\ registered' = registered \ {<<p, m>>}
  /\ awaited' = [c \in Sends |-> IF MsgOf[c] = m THEN awaited[c] \ {p}
                                 ELSE awaited[c]]
  /\ UNCHANGED <<gone, stage, outcome, verdict>>

Goto(c, from, to) == stage[c] = from /\ stage' = [stage EXCEPT ![c] = to]

Open(c) ==
  /\ Goto(c, "new", "open")
  /\ awaited' = [awaited EXCEPT ![c] = {p \in Procs : <<p, MsgOf[c]>> \in registered}]
  /\ UNCHANGED <<registered, gone, outcome, verdict>>

\* There are no receivers, or no room for the message, or it was not received.
Drop(c) ==
  /\ Goto(c, "new", "over")
  /\ UNCHANGED <<registered, gone, awaited, outcome, verdict>>

Take(c, p) ==
  /\ stage[c] = "open" /\ p \in awaited[c] \ gone
  /\ outcome[c][p] = "none"
  /\ outcome' = [outcome EXCEPT ![c][p] = "taken"]
  /\ UNCHANGED <<registered, gone, stage, awaited, verdict>>

Handle(c, p, how) ==
  /\ stage[c] = "open" /\ outcome[c][p] = "taken"
  /\ outcome' = [outcome EXCEPT ![c][p] = how]
  /\ awaited' = [awaited EXCEPT ![c] = @ \ {p}]
  /\ UNCHANGED <<registered, gone, stage, verdict>>

Close(c) ==
  /\ Goto(c, "open", "over")
  /\ awaited[c] = {}
  /\ UNCHANGED <<registered, gone, awaited, outcome, verdict>>

\* Somebody handled it, and nobody failed to.
Earned(c) ==
  /\ \E p \in Procs : outcome[c][p] = "good"
  /\ \A p \in Procs : outcome[c][p] \in {"none", "good"}

Return(c) ==
  /\ stage[c] = "over" /\ verdict[c] = "none"
  /\ verdict' = [verdict EXCEPT ![c] = IF Earned(c) THEN "ok" ELSE "fail"]
  /\ UNCHANGED <<registered, gone, stage, awaited, outcome>>

Next ==
  \/ \E c \in Sends : Open(c) \/ Drop(c) \/ Close(c)
  \/ \E c \in Sends, p \in Procs :
       Take(c, p) \/ \E how \in {"good", "bad"} : Handle(c, p, how)
  \/ \E c \in Blocking : Return(c)
  \/ \E p \in Procs : Leave(p) \/ \E m \in Msgs : Register(p, m) \/ Forget(p, m)

Spec == Init /\ [][Next]_vars
=============================================================================
