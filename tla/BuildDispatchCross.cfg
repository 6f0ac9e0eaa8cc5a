SPECIFICATION Spec
CONSTANTS
  Root = Root
  a = a
  b = b
  c = c
  d = d
  w = w
  a1 = a1
  a2 = a2
  b1 = b1
  c1 = c1
  d1 = d1
  w1 = w1
  Ids <- MCIds
  Reqs <- MCReqs
  IdOf <- MCIdOf
  Sources <- MCSources
  Jobs <- CrossJobs
  BuildSlots = 2
PROPERTY Terminates
CHECK_DEADLOCK FALSE
