--------------------------- MODULE MCBrokerLink ---------------------------
(* BrokerLink for TLC.                                                     *)
EXTENDS BrokerLink
=============================================================================
