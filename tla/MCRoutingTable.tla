--------------------------- MODULE MCRoutingTable ---------------------------
(* An instance of RoutingTable for TLC. *)
EXTENDS RoutingTable

CONSTANTS c1, c2
=============================================================================
