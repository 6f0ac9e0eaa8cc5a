SPECIFICATION Spec
CONSTANTS
    Pythons = {8, 9}
    Platforms = {"linux", "windows"}
    NameOrder <- Order
    Extras = {"x", "y", "z"}
    Groups = {"g"}
    Versions = {1, 2}
    Problems <- SameName
    Root = "root"
INVARIANT NothingLost
