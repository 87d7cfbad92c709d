----------------------------- MODULE MCVpnClient -----------------------------
(* Small instances of VpnClient. *)
EXTENDS VpnClient
=============================================================================
