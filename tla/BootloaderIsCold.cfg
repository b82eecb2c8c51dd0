CONSTANTS
    Temps = {80, 210, 239, 260, 410, 490, 1200, 65535}
    Deltas <- MCDeltas
    Deltas32 = {0}
    CountMod = 4
    DeltaMod = 3
    OcalLimit = 1
    OcalSettle = 1
    OcalLate = 1
    OcalExtra = 1
    OcalShort = 1
    OcalFlat = 1
    BeepTicks = 0
    profile <- MCProfile
    FinalTemps <- MCFinalTemps
    Commands = {"PIDTest", "Calibrate60c", "Calibrate120c"}
    ButtonStates = {0, 1, 2, 3}
    HostBoots = TRUE
SPECIFICATION Spec
INVARIANT BootloaderIsCold
