\* Digests as archive ids; a removing command may be killed halfway.
SPECIFICATION Spec
CONSTANTS
    p1 = p1
    p2 = p2
    wheelA = wheelA
    wheelB = wheelB
    envE = envE
    pkgA = pkgA
    pkgB = pkgB
    None = None
    Procs = {p1, p2}
    HttpSlots = {wheelA}
    BuiltSlots = {}
    EnvSlots = {}
    Packages = {pkgA, pkgB}
    PackageOf <- MCPackageOf
    MaxIds = 1
    Commands = {"use", pkgA}
    Settings <- TornSettings
    MaxDeaths = 1
INVARIANT UsedWhole
CHECK_DEADLOCK FALSE
