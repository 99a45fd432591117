\* Two WSPRlites that are swapped at any moment, and one failure.
CONSTANTS
    Devices = {d1, d2}
    NoDevice = NoDevice
    Callsigns <- MCCanonicalCallsigns
    Upper <- MCIdentity
    Canonical <- MCIdentity
    Vars = {"WSPR_callsign", "WSPR_locator", "ChangeCounter"}
    MaxCounter = 1
    MaxSaves = 2
    MaxConnects = 2
    MaxFailures = 1
SPECIFICATION FairSpec
INVARIANTS SettledInSync
PROPERTIES ConnectReturns
CHECK_DEADLOCK FALSE
