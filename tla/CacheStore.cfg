\* Every command, with random archive ids and with digests.
SPECIFICATION Spec
CONSTANTS
    p1 = p1
    p2 = p2
    wheelA = wheelA
    wheelB = wheelB
    envE = envE
    pkgA = pkgA
    pkgB = pkgB
    None = None
    Procs = {p1, p2}
    HttpSlots = {wheelA}
    BuiltSlots = {wheelB}
    EnvSlots = {envE}
    Packages = {pkgA, pkgB}
    PackageOf <- MCPackageOf
    MaxIds = 2
    Commands = {"use", "clean", "prune", "prune --ci", pkgA}
    Settings <- BothSettings
    MaxDeaths = 1
INVARIANTS RemovesAlone PruneReclaims UsedWhole
PROPERTIES UnlinkedBeforeRemoved Terminates
CHECK_DEADLOCK FALSE
