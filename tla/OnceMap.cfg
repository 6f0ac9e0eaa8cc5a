SPECIFICATION Spec
CONSTANTS
  Keys = {k1}
  Tasks = {t1, t2, t3}
  Values = {v1, v2}
  Populators = {t3}
  MaxRegistrations = 2
INVARIANTS TypeOK NoLostWakeup NeverPanics OneJobPerEntry
PROPERTY ImplementsMemo
