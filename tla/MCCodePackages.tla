--------------------------- MODULE MCCodePackages ---------------------------
(* CodePackages for TLC: two packages that may be cloned into each other.   *)
EXTENDS CodePackages

MCAsked ==
    [tool : {"register"}, name : Names, source : {CHOOSE n \in Names : TRUE}, version : {0}]
    \cup {r \in [tool : {"clone"}, name : Names, source : Names, version : {0}] :
             r.name # r.source}
    \cup [tool : {"revert"}, name : Names, source : {CHOOSE n \in Names : TRUE},
          version : {1, 2}]
=============================================================================
