------------------------- MODULE MCConnectorPayload -------------------------
(* ConnectorPayload for TLC: two names, and a property of each kind.        *)
EXTENDS ConnectorPayload

MCNames == {"a", "b"}
MCNested == {"modbusServer"}
MCMirrored == {"enabled"}
=============================================================================
