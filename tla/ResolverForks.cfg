SPECIFICATION Spec
CONSTANTS
    Pythons = {8, 9}
    Platforms = {"linux", "windows"}
    NameOrder <- Order
    Extras = {"x", "y", "z"}
    Groups = {"g"}
    Versions = {1, 2}
    Problems <- AllProblems
    Root = "root"
INVARIANTS ForksPartition ArenaAtCheckpoint ConflictsApart NothingLost VersionsFit
PROPERTY Terminates
