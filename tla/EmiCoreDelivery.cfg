\* Two senders, two receivers, nobody exits.
SPECIFICATION Spec
CONSTANTS
  p1 = p1
  p2 = p2
  m1 = m1
  m2 = m2
  r1 = r1
  r2 = r2
  r3 = r3
  r4 = r4
  s1 = s1
  s2 = s2
  Procs = {p1, p2}
  Msgs = {m1, m2}
  Areas = {a1, a2}
  Workers = {w1, w2}
  Registrations = {r1, r2}
  Sends = {s1, s2}
  Blocking = {s1}
  ProcOf <- DeliveryProcOf
  MsgOf <- DeliveryMsgOf
  Bucket <- TwoBuckets
  Before <- DeliveryBefore
  Mortal = {}
  Death = "beforeSends"
  MayFail = FALSE
  PromptUnlock = TRUE
  CountMod = 4
  NoArea = NoArea
  NoConn = NoConn
INVARIANTS
  TypeOK
  SlotDiscipline
  CountExact
  NoEarlyFree
  
PROPERTIES
  WaitIsAcknowledged
  ImplementsMessageService
