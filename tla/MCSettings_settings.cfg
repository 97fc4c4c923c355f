SPECIFICATION Spec
CONSTANTS
    Systems <- MCSystems
    Built <- MCBuilt
    Logins <- MCLogins
    Names <- MCNames
    Texts <- MCTexts
    MaxTouches = 4
    MaxStarts = 2
    MaxSaves = 2
INVARIANTS TypeOK Playable Remembered Registered
PROPERTY OkKeeps
CHECK_DEADLOCK FALSE
