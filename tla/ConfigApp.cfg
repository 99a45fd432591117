\* One WSPRlite, three saves, two things that go wrong.
CONSTANTS
    Devices = {d1}
    NoDevice = NoDevice
    Callsigns <- MCCallsigns
    Upper <- MCUpper
    Canonical <- MCCanonical
    Vars = {"WSPR_callsign", "ChangeCounter"}
    MaxCounter = 2
    MaxSaves = 3
    MaxConnects = 3
    MaxFailures = 2
SPECIFICATION Spec
INVARIANTS TypeOK KeyClashOnlyIfTorn
PROPERTIES LoweredOnlyIfTorn
CHECK_DEADLOCK FALSE
