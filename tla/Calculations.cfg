\* Every repeat rate over two batches; integers of up to eight binary digits.
CONSTANTS
    MaxSlots = 11
    Radix = 2
    MaxBytes = 8
    Decimal <- MCDecimal
    ClassicData <- MCClassicData
    DirectData <- MCDirectData
    LpfKitData <- MCLpfKitData
SPECIFICATION Spec
INVARIANTS BatchesFair KeysDecode BandsKept BiasesBounded
CHECK_DEADLOCK FALSE
