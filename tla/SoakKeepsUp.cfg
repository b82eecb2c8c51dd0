\* One temperature in each band the handler tells apart, and a fault.
CONSTANTS
    Temps = {660, 730}
    Deltas <- MCDeltas
    Deltas32 = {0}
    CountMod = 5
    DeltaMod = 3
    OcalLimit = 1
    OcalSettle = 1
    OcalLate = 1
    OcalExtra = 1
    OcalShort = 1
    OcalFlat = 1
    BeepTicks = 1
    profile <- MCProfile
    FinalTemps <- MCFinalTemps
    Commands = {"RunProfile"}
    ButtonStates = {0, 1, 2}
    HostBoots = TRUE
SPECIFICATION Spec
PROPERTY SoakKeepsUp
