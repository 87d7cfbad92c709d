---------------------------- MODULE MCVpnManager ----------------------------
(* Two tabs and two servers, one of them in the history of an earlier session. *)
EXTENDS VpnManager, TLC

CONSTANTS s1, s2

Earlier == [version |-> 1, selected |-> s1,
            servers |-> (s1 :> [flag |-> "None", inHistory |-> TRUE, personal |-> FALSE])]
=============================================================================
