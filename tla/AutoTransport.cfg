SPECIFICATION FairSpec
CONSTANTS
    Clients = {c1}
    Kinds <- AllKinds
    Framings <- AllFramings
    MaxCalls = 4
    MaxTroubles = 3
INVARIANTS
    TypeOK
    ExecutedOnce
    AnswerIsTrue
    QuietCallSucceeds
PROPERTIES
    CallsReturn
