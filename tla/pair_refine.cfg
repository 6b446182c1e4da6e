\* Concurrent callers, clock, restarts; saves succeed.
CONSTANTS
    Callers = {c1, c2}
    Codes <- MCCodes
    RequestRoles <- MCRequestRoles
    CodeTTL = 1
    TokenTTL = 2
    MaxTokens = 1
    InitialFiles <- MCEmptyFile
    NoCode = NoCode
    Corrupt = Corrupt
    MaxClock = 3
    MaxClaims = 2
    MaxRestarts = 1
    AllowSaveFailure = FALSE
SPECIFICATION Spec
SYMMETRY CallerSymmetry
PROPERTY PairingRefinesAbstract
