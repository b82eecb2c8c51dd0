\* The stack holds the levels of the array, or as many again.
CONSTANTS
    ProfileCount = 3
    LevelCap = 4
    Instructions <- MCInstructions
    Texts <- MCTexts
    PassesPerTick = 2
SPECIFICATION FairSpecEither
INVARIANTS StackLeadsBack TempOrMenu
INVARIANTS SplashLasts WritesWhenReady InStep PresenceFound
PROPERTIES ImplementsTree MainLoopReached BootObeyed
