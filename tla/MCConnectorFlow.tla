--------------------------- MODULE MCConnectorFlow ---------------------------
(* Instances of ConnectorFlow for TLC. *)
EXTENDS ConnectorFlow
=============================================================================
