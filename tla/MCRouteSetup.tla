---------------------------- MODULE MCRouteSetup ----------------------------
(* Small instances of RouteSetup: three visors in a line, A - B - C.       *)
EXTENDS RouteSetup

CONSTANTS A, B, C, p, q

LinePaths == {<<A, B, C>>, <<C, B, A>>}

\* A dial from A to C through B and, at the same time, a ping of B by A (a route
\* from A to A through B); <<A, B>> answers neither.
BothSrc == (p :> A) @@ (q :> A)
BothDst == (p :> C) @@ (q :> A)
BothKeys == (p :> NoPing) @@ (q :> B)
BothPaths == LinePaths \cup {<<A, B, A>>, <<A, B>>}
=============================================================================
