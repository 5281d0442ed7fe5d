---------------------------- MODULE PackageStore ----------------------------
(***************************************************************************)
(* What the code package tools promise their client, one attempt at a      *)
(* time: register_code_package is an upsert, which adds the given code as  *)
(* the newest version of the package whether or not the package exists;    *)
(* clone_code_package makes a new package of another one's newest version; *)
(* revert_code_package adds an old version again as the newest.  An        *)
(* attempt takes effect at once and at most once, an answer "ok" means it  *)
(* did, an answer "rejected" that it did not.  CodePackages implements     *)
(* this specification.                                                     *)
(***************************************************************************)
EXTENDS Naturals, Sequences

CONSTANTS Calls,  \* calls of the tools, each with code of its own
          Names,  \* names of packages
          OldCode \* the code of packages that are there from the start

VARIABLES packages,   \* packages[n]: the versions of n, none if it does not exist
          request,    \* request[c]: what c asks for
          phase,      \* phase[c]: whether an attempt of c is under way
          effect,     \* effect[c]: whether that attempt took effect
          answer      \* answer[c]: what the latest attempt was answered

vars == <<packages, request, phase, effect, answer>>

\* version is used by revert only, source by clone only.
Requests == [tool : {"register", "clone", "revert"}, name : Names,
             source : Names, version : Nat]
Answers == {"ok", "rejected", "failed"}

Exists(n) == packages[n] # << >>

\* The versions of its package once an attempt of c has taken effect.
Updated(c) ==
    LET r == request[c]
    IN  CASE r.tool = "register" -> Append(packages[r.name], c)
          [] r.tool = "clone" -> <<packages[r.source][Len(packages[r.source])]>>
          [] r.tool = "revert" -> Append(packages[r.name], packages[r.name][r.version])

Possible(c) ==
    LET r == request[c]
    IN  /\ r.tool = "clone" => Exists(r.source) /\ ~Exists(r.name)
        /\ r.tool = "revert" => r.version \in DOMAIN packages[r.name]

Init ==
    /\ packages \in [Names -> Seq(Calls \cup {OldCode})]
    /\ request \in [Calls -> Requests]
    /\ phase = [c \in Calls |-> "idle"]
    /\ effect = [c \in Calls |-> FALSE]
    /\ answer = [c \in Calls |-> "none"]

Call(c) ==
    /\ phase[c] = "idle"
    /\ phase' = [phase EXCEPT ![c] = "calling"]
    /\ effect' = [effect EXCEPT ![c] = FALSE]
    /\ answer' = [answer EXCEPT ![c] = "none"]
    /\ UNCHANGED <<packages, request>>

TakeEffect(c) ==
    /\ phase[c] = "calling" /\ ~effect[c] /\ Possible(c)
    /\ packages' = [packages EXCEPT ![request[c].name] = Updated(c)]
    /\ effect' = [effect EXCEPT ![c] = TRUE]
    /\ UNCHANGED <<request, phase, answer>>

Return(c, a) ==
    /\ phase[c] = "calling"
    /\ a = "ok" => effect[c]
    /\ a = "rejected" => ~effect[c]
    /\ phase' = [phase EXCEPT ![c] = "idle"]
    /\ answer' = [answer EXCEPT ![c] = a]
    /\ UNCHANGED <<packages, request, effect>>

\* Another client of the database deletes the package.
Delete(n) ==
    /\ packages' = [packages EXCEPT ![n] = << >>]
    /\ UNCHANGED <<request, phase, effect, answer>>

Next ==
    \/ \E c \in Calls : \/ Call(c) \/ TakeEffect(c)
                        \/ \E a \in Answers : Return(c, a)
    \/ \E n \in Names : Delete(n)

Spec == Init /\ [][Next]_vars
=============================================================================
