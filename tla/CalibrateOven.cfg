CONSTANTS
    Temps = {250, 1040, 1200}
    Deltas = {63}
    Deltas32 = {0, 1}
    CountMod = 7
    DeltaMod = 4
    OcalLimit = 4
    OcalSettle = 1
    OcalLate = 2
    OcalExtra = 2
    OcalShort = 3
    OcalFlat = 2
    BeepTicks = 0
    profile <- MCProfile
    FinalTemps <- MCFinalTemps
    Commands = {"CalibrateOven", "Calibrate60c"}
    ButtonStates = {0, 1, 2}
    HostBoots = FALSE
SPECIFICATION FairSpec
INVARIANT CountMeetsEnd
PROPERTIES StageLastsLong CalibrationEnds
