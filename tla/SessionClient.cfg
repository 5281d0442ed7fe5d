SPECIFICATION FairSpec
CONSTANTS
    Callers = {c1, c2}
    NoCaller = NoCaller
    MaxCalls = 2
    MaxFaults = 2
    Lookalikes = {FALSE}
INVARIANTS
    TypeOK
    SingleLogin
    RefusedTokenGone
    OneExpirySurvived
PROPERTIES
    EffectAtMostOnce
    EveryCallReturns
