\* The stack holds the levels of the array, or as many again.
CONSTANTS
    ProfileCount = 3
    LevelCap = 4
SPECIFICATION Spec
INVARIANT LevelsFit
