SPECIFICATION Spec
CONSTANTS
  Tasks = {t1, t2, t3}
  Late = t3
  Users = {"u", "v"}
  Configs <- MCConfigs
  None = None
INVARIANTS RealmBound UserKept AlwaysCarries
PROPERTY Terminates
CHECK_DEADLOCK FALSE
