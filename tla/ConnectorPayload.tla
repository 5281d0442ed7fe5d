-------------------------- MODULE ConnectorPayload --------------------------
(***************************************************************************)
(* The payload of a connector tool on its way upstream: what               *)
(* _require_connector_payload (src/src/faircom_mcp/server.py) makes of it, *)
(* what transform_connector_request (src/src/faircom_mcp/api/connectors.py)*)
(* sends, and which connector the audit log names.  The stages of the      *)
(* tools are WriteTools; this is a confirmed and permitted call of one.    *)
(*                                                                         *)
(* A payload is a dictionary of which four things are kept: the names      *)
(* connectorName and inputName (outputName for outputs), the service, the  *)
(* flat Modbus properties, and the same properties nested in "settings".   *)
(* A property has a value or is absent; a name may be blank or padded with *)
(* spaces.  A payload with the name key of the other direction, too, is    *)
(* left out, and so are propertyMapList's entries.                         *)
(***************************************************************************)
CONSTANTS
    Names,         \* connector names, stripped
    Values,        \* values of properties
    Absent,        \* no value
    NestedKeys,    \* properties that are moved into settings
    MirroredKeys,  \* properties that are copied there
    AddressType    \* modbusDataAddressType

Keys == NestedKeys \cup MirroredKeys \cup {AddressType}

InputActions == {"createInput", "alterInput", "deleteInput"}
OutputActions == {"createOutput", "alterOutput", "deleteOutput"}
Actions == InputActions \cup OutputActions
WithSettings == {"createInput", "alterInput", "createOutput", "alterOutput"}
ZeroBased == "zeroBased"

Blank == [text |-> Absent, padded |-> FALSE]
GivenNames == [text : Names, padded : BOOLEAN] \cup {Blank}
Properties == [Keys -> Values \cup {Absent, ZeroBased}]

\* connector: connectorName.  own: inputName or outputName.  good: whether the
\* schema of its service, which is data, is satisfied.  A missing name is blank.
Payloads == [connector : GivenNames, own : GivenNames, modbus : BOOLEAN,
             flat : Properties, settings : Properties, good : BOOLEAN]

VARIABLES
    action,    \* the action of the tool
    payload,   \* what the client passes
    stage,     \* where the call is
    resolved,  \* resolved_payload
    sent,      \* the payload of the request upstream
    target     \* the connector named by the attempt and by the result record

vars == <<action, payload, stage, resolved, sent, target>>
----------------------------------------------------------------------------
\* isinstance(name, str) and name.strip()
Given(name) == name.text # Absent

Strip(name) == [text |-> name.text, padded |-> FALSE]

\* The name transform_connector_request puts in inputName or outputName.
OwnName(p) ==
    IF ~Given(p.own) /\ Given(p.connector) THEN Strip(p.connector) ELSE p.own

\* The settings of a Modbus connector: flat properties win over nested ones,
\* and a new input gets an address type.
Nest(a, p) ==
    [k \in Keys |->
        IF p.flat[k] # Absent THEN p.flat[k]
        ELSE IF k = AddressType /\ a = "createInput" /\ p.settings[k] = Absent
        THEN ZeroBased
        ELSE p.settings[k]]

\* What stays outside.
Unnest(p) == [k \in Keys |-> IF k \in MirroredKeys THEN p.flat[k] ELSE Absent]

\* transform_connector_request
Transform(a, p) ==
    LET nests == p.modbus /\ a \in WithSettings
    IN  [connector |-> Blank, own |-> OwnName(p), modbus |-> p.modbus,
         flat |-> IF nests THEN Unnest(p) ELSE p.flat,
         settings |-> IF nests THEN Nest(a, p) ELSE p.settings,
         good |-> p.good]

\* The first half of _require_connector_payload: each name stands in for the
\* other, and connectorName comes first.
ResolveNames(p) ==
    LET connector == Strip(IF Given(p.connector) THEN p.connector ELSE p.own)
    IN  [p EXCEPT !.connector = connector,
                  !.own = IF Given(p.own) THEN p.own ELSE connector]

\* The payload as it is validated and passed on: outputs are transformed first.
Resolve(a, p) ==
    IF a \in OutputActions THEN Transform(a, ResolveNames(p)) ELSE ResolveNames(p)

\* _validate_connector_schema, of the payload and what became of it.
Valid(a, p) ==
    /\ a = "deleteInput" => Given(p.own) \/ Given(p.connector)
    /\ a = "deleteOutput" => Given(p.connector)
    /\ a \in WithSettings => p.good

\* ConnectorAdapter: deleteOutput alone goes out as it is.
Forward(a, p) == IF a = "deleteOutput" THEN p ELSE Transform(a, p)

\* _connector_target_name
TargetName(p) ==
    IF Given(p.connector) THEN p.connector.text ELSE p.own.text
----------------------------------------------------------------------------
Init ==
    /\ action \in Actions
    /\ payload \in Payloads
    /\ stage = "new"
    /\ resolved = payload
    /\ sent = payload
    /\ target = [attempt |-> Absent, result |-> Absent]

\* The attempt is recorded with the name the payload gives.
RecordAttempt ==
    /\ stage = "new"
    /\ target' = [target EXCEPT !.attempt = TargetName(payload)]
    /\ stage' = "attempted"
    /\ UNCHANGED <<action, payload, resolved, sent>>

\* _require_connector_payload
RequirePayload ==
    /\ stage = "attempted"
    /\ IF /\ Given(payload.connector) \/ Given(payload.own)
          /\ Valid(action, Resolve(action, payload))
       THEN /\ resolved' = Resolve(action, payload)
            /\ stage' = "resolved"
       ELSE stage' = "rejected" /\ UNCHANGED resolved
    /\ UNCHANGED <<action, payload, sent, target>>

\* The write goes out, and its result is recorded with the resolved name.
Send ==
    /\ stage = "resolved"
    /\ sent' = Forward(action, resolved)
    /\ target' = [target EXCEPT !.result = TargetName(resolved)]
    /\ stage' = "sent"
    /\ UNCHANGED <<action, payload, resolved>>

Done == stage \in {"rejected", "sent"} /\ UNCHANGED vars

Next == RecordAttempt \/ RequirePayload \/ Send \/ Done

Spec == Init /\ [][Next]_vars
----------------------------------------------------------------------------
TypeOK ==
    /\ action \in Actions
    /\ payload \in Payloads /\ resolved \in Payloads /\ sent \in Payloads
    /\ stage \in {"new", "attempted", "resolved", "rejected", "sent"}
    /\ target \in [{"attempt", "result"} -> Names \cup {Absent}]

\* The audit log names the connector that is written, in the attempt as in the
\* result, unless the payload gives two names: then inputName or outputName
\* is written, while the attempt, and the result for inputs, say connectorName.
AuditNamesConnector ==
    stage = "sent" =>
        \/ /\ sent.own.text = target.attempt
           /\ sent.own.text = target.result
        \/ /\ Given(payload.connector) /\ Given(payload.own)
           /\ payload.connector.text # payload.own.text

\* What goes out has one name and holds every property where the upstream
\* expects it: of a Modbus connector the ones that are moved are found in
\* settings alone, and no property the client gave, flat or nested, is lost.
SentIsCanonical ==
    stage = "sent" =>
        /\ Given(sent.own) /\ ~Given(sent.connector)
        /\ payload.modbus /\ action \in WithSettings => \A k \in Keys :
              /\ k \notin MirroredKeys => sent.flat[k] = Absent
              /\ payload.flat[k] # Absent => sent.settings[k] = payload.flat[k]
              /\ payload.flat[k] = Absent /\ payload.settings[k] # Absent =>
                    sent.settings[k] = payload.settings[k]

\* Outputs are transformed twice, once before they are validated and once by
\* the adapter; what was validated is what goes out.
ValidatedIsSent == stage = "sent" /\ action \in OutputActions => sent = resolved

\* README.md:382 lists delete_output(payload, confirm_write, dry_run) among the
\* write tools: a payload that names the connector is not turned away.
DeleteOutputDeletes ==
    action = "deleteOutput" /\ Given(payload.connector) => stage # "rejected"
=============================================================================
