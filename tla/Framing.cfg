\* Two messages out of three and two disturbances of their bytes.
CONSTANTS
    Messages <- MCMessages
    Noise = {1, 4, 16, 129}
    MaxSends = 2
    MaxFaults = 2
SPECIFICATION FramesSpec
INVARIANTS NothingInvented RoundTrip Resynchronises
CHECK_DEADLOCK FALSE
