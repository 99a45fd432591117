\* Files of up to three records around the reset address and the boot sector.
CONSTANTS
    PhysicalSpace = 32
    BootSector = 24
    ResetAddress = 8
    Word = 4
    Bases = {16, 32}
    Offsets = {1, 6, 8, 14}
    Lengths = {1, 2, 4}
    MaxRecords = 3
    MaxChecksums = 2
SPECIFICATION Spec
INVARIANTS BoundsEnclose EveryByteVerified
PROPERTIES ImageSurvivesChecksum
CHECK_DEADLOCK FALSE
