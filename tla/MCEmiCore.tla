----------------------------- MODULE MCEmiCore -----------------------------
(* Small instances of EmiCore for TLC.                                     *)
EXTENDS EmiCore, TLC

CONSTANTS p1, p2, m1, m2, r1, r2, r3, r4, s1, s2

\* Two receivers of one message and two senders of it.
DeliveryProcOf == r1 :> p1 @@ r2 :> p2
DeliveryMsgOf == [c \in {r1, r2, s1, s2} |-> m1]
DeliveryBefore == r1 :> {} @@ r2 :> {r1} @@ s1 :> {r1, r2} @@ s2 :> {r1, r2}

\* p1 registers for one message twice and for another one; p2 for the first.
\* One sender for each message.
StaleProcOf == r1 :> p1 @@ r2 :> p2 @@ r3 :> p1 @@ r4 :> p1
StaleMsgOf == r1 :> m1 @@ r2 :> m1 @@ r3 :> m1 @@ r4 :> m2 @@ s1 :> m1 @@ s2 :> m2
StaleBefore == r1 :> {} @@ r2 :> {r1} @@ r3 :> {r1, r2} @@ r4 :> {r1, r2, r3}
               @@ s1 :> {r1, r2, r3, r4} @@ s2 :> {r1, r2, r3, r4}

\* p1 registers for a second message while two sends of the first are on.
SecondProcOf == r1 :> p1 @@ r2 :> p1
SecondMsgOf == r1 :> m1 @@ r2 :> m2 @@ s1 :> m1 @@ s2 :> m1
SecondBefore == r1 :> {} @@ r2 :> {r1} @@ s1 :> {r1} @@ s2 :> {r1}

\* The messages hash to different chains.
TwoBuckets == m1 :> 1 @@ m2 :> 2
=============================================================================
