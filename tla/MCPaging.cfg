SPECIFICATION Spec
CONSTANTS
    Ids = {1, 2, 3, 4, 5}
    Dexes <- MCDexes
    Limit = 2
INVARIANTS WalkIsWhole NothingTwice
PROPERTY WalkEnds
