SPECIFICATION MCSpec
CONSTANTS
    Widths = {1, 2, 4}
    MaxCount = 3
    Size = 7
    Strings <- MCStrings
    NbBits = 10
    MaxBits = 9
    Slave <- MCSlave
    Messages <- MCMessages
    Damaged <- MCDamaged
    MaxDamage = 3
INVARIANTS NetworkOrder RoundTrip StringBack Stored ReadBack PackAlike ChecksumOfModbus OnlyIntact
CHECK_DEADLOCK FALSE
