SPECIFICATION FairSpec
CONSTANTS
    Requests = {r1, r2}
    Nobody = Nobody
    MaxExpiries = 1
INVARIANTS
    TypeOK
    HealthIsTrue
    ReadyIsTrue
PROPERTIES
    EveryoneIsAnswered
    ProbesEnd
