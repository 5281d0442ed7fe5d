SPECIFICATION FairSpec
CONSTANTS
    Calls = {c1, c2}
    Names = {p, q}
    OldCode = old
    Asked <- MCAsked
    MaxAttempts = 2
    MaxTroubles = 2
INVARIANTS
    TypeOK
    RejectionHasCause
    QuietRegisterUpdates
PROPERTIES
    AttemptsAreAtomic
    CallsEnd
