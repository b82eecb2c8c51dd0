CONSTANTS
    Bank = 4
    BufSize = 5
    Lines <- MCAlikeLines
    Asks <- MCAlikeAsks
    LongLines = {}
    Lengths = {1}
    SettingsLength = 1
    Ahead = 0
    Faultiness = {{"pieces"}}
    Requests = {}
    Rudeness = {{}}
SPECIFICATION SpecEither
INVARIANT AsksWereSent
CHECK_DEADLOCK FALSE
