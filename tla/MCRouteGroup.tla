---------------------------- MODULE MCRouteGroup ----------------------------
(* Instances of RouteGroup for TLC. *)
EXTENDS RouteGroup, TLC

NoThreads ==
    [writers |-> {}, readers |-> {}, pingers |-> {}, appClosers |-> {}, errorSetters |-> {},
     gcClosers |-> {}, mayFail |-> FALSE]

\* A writes to a reader; both ends may close at any moment.
Data == [NoThreads EXCEPT !.writers = {A}, !.readers = {B}, !.appClosers = {A, B}]

\* A's consume rule is removed, B's application closes, and the transport may break.
Closing == [NoThreads EXCEPT !.appClosers = {B}, !.gcClosers = {A}, !.mayFail = TRUE]

\* A writes more than B's readCh holds and closes with an error, while B reads and pings.
Reading ==
    [NoThreads EXCEPT !.writers = {A}, !.readers = {B}, !.pingers = {B}, !.appClosers = {A}, !.errorSetters = {A}]

DataPlan == {Data}
LivePlans == {Closing, Reading}
=============================================================================
