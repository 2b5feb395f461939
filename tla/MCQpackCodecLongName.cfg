CONSTANTS
    IntValues = {0}
    CapacityArgs = {0, 30, 31, 32, 158, 159, 4096}
    IndexArgs = {0, 1, 30, 31, 62, 63, 64, 98}
    NameLengths = {31}
    ValueLengths = {0, 1, 126, 127}
    DecodeBytes = {0, 31, 63, 127, 128, 255}
    MaxDecodeLen = 0
SPECIFICATION Spec
INVARIANT InstructionRoundTrip
