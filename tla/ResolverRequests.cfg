SPECIFICATION Spec
CONSTANTS
    a = a
    b = b
    e = e
    u = u
    sdist = sdist
    Root = Root
    Names = {a, b, e, u, sdist}
    Versions = {1, 2}
    Listed <- MCListed
    Source <- MCSource
    AnyUrl = {b, u}
    AnyIndex = {e}
    Deps <- MCDeps
    Wanted = {a, sdist}
    Builds <- MCBuilds
    BuildRequires <- MCBuildRequires
    Provided <- MCProvided
    Incompatible <- MCIncompatible
    Unreliable <- MCUnreliable
    Fatal = {a, u}
    Unhashed <- MCUnhashed
    Capacity = 2
INVARIANTS WaitsAreServed NoUnregisteredTask
PROPERTIES AnswersAreFinal Terminates
CHECK_DEADLOCK FALSE
