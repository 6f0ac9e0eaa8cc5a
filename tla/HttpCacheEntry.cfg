SPECIFICATION Spec
CONSTANTS
    Requests = {r1, r2}
    Modes = {"AllowStale", "MustRevalidate", "None"}
    MaxVersion = 1
    MaxSize = 2
    MaxPolicies = 5
    Shapes <- MCShapes
    MaxDeaths = 1
INVARIANTS PolicyVouches TornByOverlapOnly RevalidatedIsRecent
PROPERTY Terminates
CHECK_DEADLOCK FALSE
