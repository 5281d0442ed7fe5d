SPECIFICATION Spec
CONSTANTS
    Clients = {c1}
    Kinds <- Helpers
    Framings <- AllFramings
    MaxCalls = 3
    MaxTroubles = 1
INVARIANTS
    LostSessionRecovered
