SPECIFICATION Spec
CONSTANTS
    Lines <- MCLines
    Numbers <- MCNumbers
    EchoTexts <- MCEchoTexts
    NoEchoTexts <- MCNoEchoTexts
    Commands <- MCCommands
    MaxWire = 2
    MaxShots = 2
    MaxReads = 2
    MaxStarts = 3
INVARIANTS TypeOK OutputsFollow
PROPERTIES PulseEnds Converges
CHECK_DEADLOCK FALSE
