------------------------------ MODULE MCRouter ------------------------------
(* Small instances of Router: incoming edges a, b of one descriptor (the   *)
(* remote dialed twice from the same port), c of another, dialed edge x.   *)
EXTENDS Router, TLC

CONSTANTS a, b, c, x, d1, d2

MCDescOf == (a :> d1) @@ (b :> d1) @@ (c :> d2) @@ (x :> d2)

\* Two groups of one descriptor, of which one may fail, with packets, rules that
\* time out and Close.
Groups == [edges |-> {a, b}, failing |-> {b}, kinds |-> {"data"}, collecting |-> TRUE, closing |-> TRUE]

\* A dial, an incoming edge of the same descriptor and one of another, with Close
\* packets.
Dialing == [edges |-> {b, c, x}, failing |-> {}, kinds |-> {"close"}, collecting |-> FALSE, closing |-> FALSE]

\* One edge of each descriptor, with pings, Close packets and rules that time out.
Single == [edges |-> {a, x}, failing |-> {x}, kinds |-> {"ping", "close"}, collecting |-> TRUE, closing |-> FALSE]

\* More incoming edges than fit, and Close.
Stopping == [edges |-> {a, b, c}, failing |-> {a}, kinds |-> {}, collecting |-> FALSE, closing |-> TRUE]

\* More incoming edges than fit.
Full == [Stopping EXCEPT !.failing = {}, !.closing = FALSE]

MCPlans == {Groups, Dialing, Single, Stopping}
FullPlan == {Full}
=============================================================================
