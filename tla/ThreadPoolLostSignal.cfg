\* Two threads, three tasks; signals may be lost.
SPECIFICATION Spec
CONSTANTS
  Threads = {t1, t2}
  Tasks = {k1, k2, k3}
  Handlers = {k1}
  Races = {"lostSignal"}
  None = None
PROPERTIES
  EveryTaskRuns
