--------------------------- MODULE MCManagerStorage ---------------------------
(* Two visors and two tabs. *)
EXTENDS ManagerStorage, TLC

CONSTANTS a, b, l1, t1, t2

\* Data without a hypervisor, with a deleted visor, and data of an early version.
MCLeftovers ==
    {[unscoped |-> [labels |-> (a :> None @@ b :> None),
                    nodes |-> (a :> "unknown" @@ b :> "hidden")],
      legacy |-> [labels |-> (a :> l1 @@ b :> None),
                  nodes |-> (a :> "visible" @@ b :> "unknown")]]}
MCFirstReports == {a :> "offline" @@ b :> "online"}
===============================================================================
