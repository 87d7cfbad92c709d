---------------------------- MODULE MCNodePages ----------------------------
(* Two visors, one of them unknown to the hypervisor or both known. *)
EXTENDS NodePages

CONSTANTS a, b
============================================================================
