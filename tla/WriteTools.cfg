SPECIFICATION Spec
CONSTANTS
    c1 = c1
    c2 = c2
    Calls = {c1, c2}
    Configured <- Allowlists
SYMMETRY Symmetry
INVARIANTS
    TypeOK
    WritesAreLogged
    CountedOnce
    DryRunOnlyLooksUp
PROPERTIES
    OnlyApprovedWrites
