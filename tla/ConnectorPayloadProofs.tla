----------------------- MODULE ConnectorPayloadProofs -----------------------
(***************************************************************************)
(* Theorems about ConnectorPayload, for any names, values and properties.  *)
(***************************************************************************)
EXTENDS ConnectorPayload, TLAPS

\* What each stage knows of the payload: the attempt names what the client
\* gave, and what is resolved and sent are functions of that.
StageInv ==
    /\ stage # "new" => target.attempt = TargetName(payload)
    /\ stage \in {"resolved", "sent"} =>
          /\ Given(payload.connector) \/ Given(payload.own)
          /\ resolved = Resolve(action, payload)
          /\ Valid(action, resolved)
    /\ stage = "sent" =>
          /\ sent = Forward(action, resolved)
          /\ target.result = TargetName(resolved)

IInv == TypeOK /\ StageInv
----------------------------------------------------------------------------
LEMMA StripType == ASSUME NEW n \in GivenNames
                   PROVE  Strip(n) \in GivenNames /\ Strip(n).text = n.text
<1>1. Strip(n) = [text |-> n.text, padded |-> FALSE] /\ Strip(n).text = n.text
  BY DEF Strip
<1>2. n.text \in Names \/ n.text = Absent
  BY DEF GivenNames, Blank
<1>3. CASE n.text \in Names
  <2>1. FALSE \in BOOLEAN
    OBVIOUS
  <2>2. [text |-> n.text, padded |-> FALSE] \in [text : Names, padded : BOOLEAN]
    BY <1>3, <2>1, Zenon
  <2>3. QED
    BY <1>1, <2>2, Zenon DEF GivenNames
<1>4. CASE n.text = Absent
  BY <1>1, <1>4, Zenon DEF GivenNames, Blank
<1>5. QED
  BY <1>1, <1>2, <1>3, <1>4

\* What resolving makes of the two names, field by field.
LEMMA ResolveNamesFields ==
    ASSUME NEW p \in Payloads
    PROVE  /\ ResolveNames(p) \in Payloads
           /\ ResolveNames(p).connector.text =
                 IF Given(p.connector) THEN p.connector.text ELSE p.own.text
           /\ ResolveNames(p).own.text =
                 IF Given(p.own) THEN p.own.text ELSE p.connector.text
           /\ ResolveNames(p).modbus = p.modbus
           /\ ResolveNames(p).flat = p.flat
           /\ ResolveNames(p).settings = p.settings
<1> DEFINE given == IF Given(p.connector) THEN p.connector ELSE p.own
           own == IF Given(p.own) THEN p.own ELSE Strip(given)
<1>1. p.connector \in GivenNames /\ p.own \in GivenNames
  BY DEF Payloads
<1>2. given \in GivenNames
  BY <1>1
<1>3. Strip(given) \in GivenNames /\ Strip(given).text = given.text
  BY <1>2, StripType
<1>4. own \in GivenNames
  BY <1>1, <1>3
<1>5. own.text = IF Given(p.own) THEN p.own.text ELSE p.connector.text
  BY <1>1, <1>3 DEF Given, GivenNames, Blank
<1>6. ResolveNames(p) = [p EXCEPT !.connector = Strip(given), !.own = own]
  BY DEF ResolveNames
<1> HIDE DEF given, own
<1>7. ResolveNames(p).connector = Strip(given) /\ ResolveNames(p).own = own
  BY <1>6 DEF Payloads
<1>8. given.text = IF Given(p.connector) THEN p.connector.text ELSE p.own.text
  BY DEF given
<1>9. ResolveNames(p) \in Payloads
  BY <1>3, <1>4, <1>6 DEF Payloads
<1>10. QED
  BY <1>3, <1>5, <1>6, <1>7, <1>8, <1>9 DEF Payloads

\* transform_connector_request returns a payload, without connectorName.
LEMMA TransformFields ==
    ASSUME NEW p \in Payloads, NEW a \in Actions
    PROVE  /\ Transform(a, p) \in Payloads
           /\ Transform(a, p).connector = Blank
           /\ Transform(a, p).own = OwnName(p)
           /\ OwnName(p).text = IF Given(p.own) THEN p.own.text ELSE p.connector.text
           /\ Transform(a, p).modbus = p.modbus
           /\ Transform(a, p).flat =
                 IF p.modbus /\ a \in WithSettings THEN Unnest(p) ELSE p.flat
           /\ Transform(a, p).settings =
                 IF p.modbus /\ a \in WithSettings THEN Nest(a, p) ELSE p.settings
<1>1. /\ p.connector \in GivenNames /\ p.own \in GivenNames
      /\ p.flat \in Properties /\ p.settings \in Properties
      /\ p.modbus \in BOOLEAN /\ p.good \in BOOLEAN
  BY DEF Payloads
<1>2. /\ OwnName(p) \in GivenNames
      /\ OwnName(p).text = IF Given(p.own) THEN p.own.text ELSE p.connector.text
  BY <1>1, StripType DEF OwnName, Given, GivenNames, Blank
<1>3. Unnest(p) \in Properties /\ Nest(a, p) \in Properties
  BY <1>1 DEF Unnest, Nest, Properties
<1>4. Blank \in GivenNames
  BY DEF GivenNames
<1>5. Transform(a, p) \in Payloads
  BY <1>1, <1>2, <1>3, <1>4 DEF Transform, Payloads
<1>6. QED
  BY <1>2, <1>5 DEF Transform

\* Outputs are transformed twice; the second time changes nothing.
LEMMA TransformTwice ==
    ASSUME NEW p \in Payloads, NEW a \in OutputActions
    PROVE  Transform(a, Transform(a, p)) = Transform(a, p)
<1> DEFINE q == Transform(a, p)
<1>1. a \in Actions /\ a # "createInput"
  BY DEF Actions, OutputActions
<1>2. /\ q \in Payloads /\ q.connector = Blank /\ q.own = OwnName(p)
      /\ q.modbus = p.modbus
      /\ q.flat = IF p.modbus /\ a \in WithSettings THEN Unnest(p) ELSE p.flat
      /\ q.settings = IF p.modbus /\ a \in WithSettings THEN Nest(a, p) ELSE p.settings
      /\ q.good = p.good
  BY <1>1, TransformFields DEF Transform
<1> HIDE DEF q
<1>3. OwnName(q) = q.own
  BY <1>2 DEF OwnName, Given, Blank
<1>4. CASE p.modbus /\ a \in WithSettings
  <2>1. Unnest(q) = q.flat
    BY <1>2, <1>4 DEF Unnest
  <2>2. Nest(a, q) = q.settings
    <3>1. \A k \in Keys : Nest(a, q)[k] = q.settings[k]
      BY <1>1, <1>2, <1>4 DEF Nest, Unnest
    <3>2. QED
      BY <1>2, <1>4, <3>1 DEF Nest
  <2>3. QED
    BY <1>2, <1>3, <1>4, <2>1, <2>2 DEF Transform, Payloads
<1>5. CASE ~(p.modbus /\ a \in WithSettings)
  BY <1>2, <1>3, <1>5 DEF Transform, Payloads
<1>6. QED
  BY <1>4, <1>5 DEF q
----------------------------------------------------------------------------
LEMMA InitIInv == Init => IInv
<1> SUFFICES ASSUME Init PROVE IInv
  OBVIOUS
<1>1. target \in [{"attempt", "result"} -> Names \cup {Absent}]
  BY DEF Init
<1>2. QED
  BY <1>1 DEF Init, IInv, TypeOK, StageInv

LEMMA ResolveType ==
    ASSUME NEW p \in Payloads, NEW a \in Actions
    PROVE  Resolve(a, p) \in Payloads
  BY ResolveNamesFields, TransformFields DEF Resolve

LEMMA TargetNameType ==
    ASSUME NEW p \in Payloads
    PROVE  TargetName(p) \in Names \cup {Absent}
<1>1. p.connector.text \in Names \cup {Absent} /\ p.own.text \in Names \cup {Absent}
  BY DEF Payloads, GivenNames, Blank
<1>2. QED
  BY <1>1 DEF TargetName

LEMMA StepIInv == IInv /\ [Next]_vars => IInv'
<1> SUFFICES ASSUME IInv, [Next]_vars PROVE IInv'
  OBVIOUS
<1> USE DEF IInv, TypeOK, StageInv
<1>1. CASE RecordAttempt
  BY <1>1, TargetNameType DEF RecordAttempt
<1>2. CASE RequirePayload
  <2>1. TypeOK'
    BY <1>2, ResolveType DEF RequirePayload
  <2>2. StageInv'
    BY <1>2 DEF RequirePayload
  <2>3. QED
    BY <2>1, <2>2
<1>3. CASE Send
  <2>1. Forward(action, resolved) \in Payloads
    BY TransformFields DEF Forward
  <2>2. TypeOK'
    BY <1>3, <2>1, TargetNameType DEF Send
  <2>3. StageInv'
    BY <1>3 DEF Send
  <2>4. QED
    BY <2>2, <2>3
<1>4. CASE UNCHANGED vars
  BY <1>4 DEF vars
<1>5. QED
  BY <1>1, <1>2, <1>3, <1>4 DEF Next, Done

LEMMA InductiveInvariant == Spec => []IInv
  BY InitIInv, StepIInv, PTL DEF Spec

\* Every variable keeps its type: whatever the payload, what is resolved and
\* sent of it is one, too (transform_connector_request, _require_connector_payload).
THEOREM TypeCorrect == Spec => []TypeOK
<1>1. IInv => TypeOK
  BY DEF IInv
<1>2. QED
  BY <1>1, InductiveInvariant, PTL

\* No confirmed and permitted delete_output is ever sent: its payload reaches
\* the validation without the name the validation demands.
DeleteOutputNeverSent == action = "deleteOutput" => stage # "sent"

THEOREM NoDeleteOutput == Spec => []DeleteOutputNeverSent
<1>1. IInv => DeleteOutputNeverSent
  <2> SUFFICES ASSUME IInv, action = "deleteOutput", stage = "sent" PROVE FALSE
    BY DEF DeleteOutputNeverSent
  <2>1. payload \in Payloads /\ action \in Actions /\ action \in OutputActions
    BY DEF IInv, TypeOK, OutputActions
  <2>2. resolved = Transform(action, ResolveNames(payload)) /\ Given(resolved.connector)
    BY <2>1 DEF IInv, StageInv, Resolve, Valid
  <2>3. resolved.connector = Blank
    BY <2>1, <2>2, ResolveNamesFields, TransformFields
  <2>4. QED
    BY <2>2, <2>3 DEF Given, Blank
<1>2. QED
  BY <1>1, InductiveInvariant, PTL

\* The audit log names the connector that is written, unless the payload gives
\* two different names (_connector_target_name).
THEOREM AuditNames == Spec => []AuditNamesConnector
<1>1. IInv => AuditNamesConnector
  <2> SUFFICES ASSUME IInv, stage = "sent",
                      ~(/\ Given(payload.connector) /\ Given(payload.own)
                        /\ payload.connector.text # payload.own.text)
               PROVE  sent.own.text = target.attempt /\ sent.own.text = target.result
    BY DEF AuditNamesConnector
  <2> DEFINE p == ResolveNames(payload)
  <2>1. /\ payload \in Payloads /\ action \in Actions /\ action # "deleteOutput"
        /\ resolved \in Payloads
    <3>1. action = "deleteOutput" => resolved.connector = Blank /\ Given(resolved.connector)
      BY ResolveNamesFields, TransformFields
         DEF IInv, TypeOK, StageInv, Resolve, Valid, OutputActions
    <3>2. QED
      BY <3>1 DEF IInv, TypeOK, Given, Blank
  <2>2. /\ p \in Payloads
        /\ p.connector.text = target.attempt /\ p.own.text = target.attempt
        /\ Given(p.own)
    BY <2>1, ResolveNamesFields DEF IInv, StageInv, TargetName, Given
  <2> HIDE DEF p
  <2>3. sent.own.text = IF Given(resolved.own) THEN resolved.own.text
                                               ELSE resolved.connector.text
    BY <2>1, TransformFields DEF IInv, StageInv, Forward
  <2>4. CASE action \in OutputActions
    <3>1. resolved.own.text = target.attempt /\ resolved.connector = Blank
      BY <2>1, <2>2, <2>4, TransformFields DEF IInv, StageInv, Resolve, p
    <3>2. QED
      BY <2>2, <2>3, <3>1 DEF IInv, StageInv, TargetName, Given, Blank
  <2>5. CASE action \notin OutputActions
    <3>1. resolved = p
      BY <2>5 DEF IInv, StageInv, Resolve, p
    <3>2. QED
      BY <2>2, <2>3, <3>1 DEF IInv, StageInv, TargetName
  <2>6. QED
    BY <2>4, <2>5
<1>2. QED
  BY <1>1, InductiveInvariant, PTL

\* What was validated of an output is what goes out, although the adapter
\* transforms it once more.
THEOREM ValidatedSent == Spec => []ValidatedIsSent
<1>1. IInv => ValidatedIsSent
  <2> SUFFICES ASSUME IInv, stage = "sent", action \in OutputActions
               PROVE  sent = resolved
    BY DEF ValidatedIsSent
  <2>1. ResolveNames(payload) \in Payloads
    BY ResolveNamesFields DEF IInv, TypeOK
  <2>2. resolved = Transform(action, ResolveNames(payload))
    BY DEF IInv, StageInv, Resolve
  <2>3. Transform(action, resolved) = resolved
    BY <2>1, <2>2, TransformTwice
  <2>4. QED
    BY <2>3 DEF IInv, StageInv, Forward
<1>2. QED
  BY <1>1, InductiveInvariant, PTL

\* What goes out has one name and, of a Modbus connector, every property where
\* the upstream expects it, none lost on the way (transform_connector_request).
THEOREM SentCanonical == Spec => []SentIsCanonical
<1>1. IInv => SentIsCanonical
  <2> SUFFICES ASSUME IInv, stage = "sent" PROVE SentIsCanonical
    BY DEF SentIsCanonical
  <2> DEFINE p == ResolveNames(payload)
  <2>1. /\ p \in Payloads /\ action \in Actions /\ payload \in Payloads
        /\ Given(p.own)
        /\ p.modbus = payload.modbus /\ p.flat = payload.flat
        /\ p.settings = payload.settings
    BY ResolveNamesFields DEF IInv, TypeOK, StageInv, Given
  <2>2. action # "deleteOutput"
    BY ResolveNamesFields, TransformFields
       DEF IInv, TypeOK, StageInv, Resolve, Valid, OutputActions, Given, Blank
  <2>3. sent = Transform(action, resolved)
    BY <2>2 DEF IInv, StageInv, Forward
  <2>4. sent = Transform(action, p)
    <3>1. CASE action \in OutputActions
      BY <2>1, <2>3, <3>1, TransformTwice DEF IInv, StageInv, Resolve
    <3>2. CASE action \notin OutputActions
      BY <2>3, <3>2 DEF IInv, StageInv, Resolve
    <3>3. QED
      BY <3>1, <3>2
  <2> HIDE DEF p
  <2>5. Given(sent.own) /\ ~Given(sent.connector)
    BY <2>1, <2>4, TransformFields DEF Given, Blank
  <2>6. ASSUME payload.modbus, action \in WithSettings, NEW k \in Keys
        PROVE  /\ k \notin MirroredKeys => sent.flat[k] = Absent
               /\ payload.flat[k] # Absent => sent.settings[k] = payload.flat[k]
               /\ payload.flat[k] = Absent /\ payload.settings[k] # Absent =>
                     sent.settings[k] = payload.settings[k]
    <3>1. sent.flat = Unnest(p) /\ sent.settings = Nest(action, p)
      BY <2>1, <2>4, <2>6, TransformFields
    <3>2. QED
      BY <2>1, <2>6, <3>1 DEF Unnest, Nest
  <2>7. QED
    BY <2>5, <2>6 DEF SentIsCanonical
<1>2. QED
  BY <1>1, InductiveInvariant, PTL
=============================================================================
