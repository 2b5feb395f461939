CONSTANTS
    IntValues = {0, 1, 2, 3, 6, 7, 14, 15, 30, 31, 32, 62, 63, 64, 126, 127, 128, 158, 159, 190, 191, 254, 255, 256, 382, 383, 16510, 16511, 16638, 16639, 100000}
    CapacityArgs = {0, 30, 31, 32, 158, 159, 4096}
    IndexArgs = {0, 1, 30, 31, 62, 63, 64, 98}
    NameLengths = {0, 1, 5, 30}
    ValueLengths = {0, 1, 126, 127}
    DecodeBytes = {0, 31, 63, 127, 128, 255}
    MaxDecodeLen = 3
SPECIFICATION Spec
INVARIANTS IntegerCodecSound DecodeMatchesReference InstructionRoundTrip
