CONSTANTS
    Bank = 4
    BufSize = 4
    Lines <- MCLines
    Asks <- MCAsks
    LongLines <- MCLongLines
    Lengths = {5}
    SettingsLength = 4
    Ahead = 1
    Faultiness = {{}, {"long"}, {"pieces"}, {"slow"}, {"drops"}}
    Requests = {"GetStatus", "GetDescriptor", "SetAddress", "Configure", "Deconfigure",
                "SetFeature", "GetLineEncoding", "SetLineEncoding", "SetLine", "Unknown"}
    Rudeness = {{}, {"unplug"}, {"quick"}, {"reset"}}
SPECIFICATION FairSpecEither
INVARIANTS LinesAsSent ReportsInOrder TransfersTerminated BufferTerminated
INVARIANTS StallsOnlyUnknown 
PROPERTIES PassAdvances RequestAdvances TransfersEnd MainLoopRuns LinesProcessed
CHECK_DEADLOCK FALSE
