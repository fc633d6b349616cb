--------------------------- MODULE MCMessageTable ---------------------------
(***************************************************************************)
(* Three registrations and two sends in one chain: two processes register  *)
(* for the message of s1, one of them for s2 too.                           *)
(***************************************************************************)
EXTENDS MessageTable, TLC

CONSTANTS r1, r2, r3, s1, s2, p1, p2, m1, m2, b1, n1, n2, n3

OneChainMsgOf == r1 :> m1 @@ r2 :> m1 @@ r3 :> m2 @@ s1 :> m1 @@ s2 :> m2
OneChainProcOf == r1 :> p1 @@ r2 :> p2 @@ r3 :> p1
OneChain == m1 :> b1 @@ m2 :> b1
NodeSymmetry == Permutations({n1, n2, n3})
=============================================================================
