-------------------------- MODULE MCAutoTransport --------------------------
(* AutoTransport for TLC; the clients are not interchangeable for liveness. *)
EXTENDS AutoTransport

AllKinds == {"python", "javascript", "jsonOnly"}
Helpers == {"python", "javascript"}
AllFramings == {"sse", "json"}
=============================================================================
