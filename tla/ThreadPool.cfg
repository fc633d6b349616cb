\* Two threads, three tasks; no race happens.
SPECIFICATION Spec
CONSTANTS
  Threads = {t1, t2}
  Tasks = {k1, k2, k3}
  Handlers = {k1}
  Races = {}
  None = None
INVARIANTS
  TypeOK
  
  NoTaskLost
  
PROPERTIES
  EveryTaskRuns
  
  ImplementsTaskPool
