\* Two messages in one chain; a process registers for both, one of them
\* may be refused; malloc may fail.
SPECIFICATION Spec
CONSTANTS
  r1 = r1
  r2 = r2
  r3 = r3
  s1 = s1
  s2 = s2
  p1 = p1
  p2 = p2
  m1 = m1
  m2 = m2
  b1 = b1
  n1 = n1
  n2 = n2
  n3 = n3
  Registrations = {r1, r2, r3}
  Sends = {s1, s2}
  Nodes = {n1, n2, n3}
  None = None
  MsgOf <- OneChainMsgOf
  ProcOf <- OneChainProcOf
  Bucket <- OneChain
SYMMETRY NodeSymmetry
INVARIANTS
  TypeOK
  ChainsAreWhole
  WalksAreComplete
  FreedIsReadByRaceOnly
  OnlyRefusedLeak
