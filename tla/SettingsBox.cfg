\* A Classic with old firmware and a Flexi that take turns at the program.
CONSTANTS
    Devices = {"classic", "flexi"}
    NoDevice = "none"
    ClassicData <- MCClassicData
    DirectData <- MCDirectData
    LpfKitData <- MCLpfKitData
    ProductId <- MCProductId
    Firmware <- MCFirmware
    Held <- MCHeld
    PickedBands = {"Band_6m", "Band_20m", "Band_60m_52887", "Band_630m"}
    TypedFreqs <- MCTypedFreqs
    Reports = {37}
    Calls <- MCCalls
    Locators <- MCLocators
    TypedDays <- MCTypedDays
    TypedRates <- MCTypedRates
    FallsShort <- MCFallsShort
    TiesDown <- MCTiesDown
    Offsets = {0}
    MaxEdits = 3
SPECIFICATION Spec
INVARIANTS TypeOK SavedFrequencyAllowed SixtyMetresConfirmed SavedBandSupported PowerWithinReach DerivedUpToDate
PROPERTIES SavedSettingsSurvive
CHECK_DEADLOCK FALSE
