\* One temperature in each band the handlers tell apart, and a fault.
CONSTANTS
    Temps = {239, 410, 490, 1200, 65535}
    Deltas <- MCRisesAndFalls
    Deltas32 = {0}
    CountMod = 4
    DeltaMod = 3
    OcalLimit = 1
    OcalSettle = 1
    OcalLate = 1
    OcalExtra = 1
    OcalShort = 1
    OcalFlat = 1
    BeepTicks = 1
    profile <- MCLowProfile
    FinalTemps <- MCFinalTemps
    Commands = {"RunProfile", "PIDTest", "Calibrate60c", "Calibrate120c"}
    ButtonStates = {0, 1, 2, 3}
    HostBoots = TRUE
SPECIFICATION Spec
INVARIANTS TypeOK IdleIsCold HeatNeedsConfirm FaultCutsMains HeatOffStages OverTempStops
PROPERTIES NoSwitchUnderLoad ImplementsContract
