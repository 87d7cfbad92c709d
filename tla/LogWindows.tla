----------------------------- MODULE LogWindows -----------------------------
(***************************************************************************)
(* The two modal windows that show logs: NodeLogsComponent, with the log   *)
(* of the visor and a filter by level that is applied to the entries the   *)
(* window has, and LogComponent, with the log of an app and a filter by    *)
(* date that the request carries.  A failed request is repeated for ever.  *)
(***************************************************************************)
EXTENDS Naturals, Sequences, Subsequences

CONSTANTS
    Levels,                      \* importance of the entries, 1 is shown by every filter
    Old,                         \* how many of the first entries the filter by date leaves out
    MaxShown,                    \* maxElementsPerPage, and the limit of LogComponent
    MaxWritten,                  \* bound: entries in the log of the visor
    MaxLoads,                    \* bound: refreshes and changes of the filter
    None

VARIABLES
    logs,                        \* the window
    written                      \* the log at the visor (external)

vars == <<logs, written>>

Days == {"all", "recent"}
Least(a, b) == IF a < b THEN a ELSE b
First(s) == SubSeq(s, 1, Least(Len(s), MaxShown))

\* A defect: one entry too many.
LastAndOneMore(s) == SubSeq(s, Len(s) - Least(Len(s), MaxShown + 1) + 1, Len(s))

\* The entries of an answer that onLogsReceived() of NodeLogsComponent takes.
Last(s) == SubSeq(s, Len(s) - Least(Len(s), MaxShown) + 1, Len(s))

TypeOK ==
    /\ logs.window \in {"node", "app"} /\ logs.open \in BOOLEAN /\ logs.loading \in BOOLEAN
    /\ logs.filtering \in BOOLEAN /\ logs.days \in Days /\ logs.min \in Levels \cup {None}
    /\ logs.loads \in 0 .. MaxLoads
    /\ logs.entries \in Seq(Levels) /\ logs.shown \in Seq(Levels) /\ logs.before \in Seq(Levels)
    /\ logs.request = None \/ logs.request.days \in Days
    /\ written \in Seq(Levels) /\ Len(written) <= MaxWritten

NewRequest(d) == [days |-> d, got |-> None]

\* loadData(): the subscription to an earlier request ends.
LoadData(l) == [l EXCEPT !.loading = TRUE, !.request = NewRequest(l.days)]

\* History: got is the answer that was processed last, with its filter by date,
\* and before what the window of a visor had then.
Init ==
    /\ \E w \in {[window |-> "node", days |-> "all"], [window |-> "app", days |-> "recent"]} :
           logs = LoadData([window |-> w.window, open |-> TRUE, loading |-> TRUE, filtering |-> FALSE,
                            request |-> None, days |-> w.days, min |-> 1, entries |-> <<>>, shown |-> <<>>, before |-> <<>>,
                            got |-> NewRequest(w.days), loads |-> 0])
    /\ written \in UNION {[1 .. n -> Levels] : n \in 0 .. MaxWritten - 1}

-----------------------------------------------------------------------------
\* The visor or the app writes to its log (external).
Write ==
    /\ Len(written) < MaxWritten
    /\ \E i \in Levels : written' = Append(written, i)
    /\ UNCHANGED logs

Pending == logs.open /\ logs.request # None

\* The visor answers with its log, or with the part the filter by date asks for (external).
Answer ==
    /\ Pending /\ logs.request.got = None
    /\ logs' = [logs EXCEPT !.request.got =
                    IF logs.request.days = "all" THEN written ELSE SubSeq(written, Old + 1, Len(written))]
    /\ UNCHANGED written

\* A defect: the entries of the chosen level are left out.
FilterAbove(l) == Picked(l.entries, {i \in DOMAIN l.entries : l.entries[i] > l.min})

\* filter() of NodeLogsComponent.
Filter(l) == Picked(l.entries, {i \in DOMAIN l.entries : l.entries[i] >= l.min})

\* onLogsReceived() of NodeLogsComponent: the newest entries of the answer are
\* added to the ones the window has, also if it has them already.
NodeLogsReceived ==
    /\ Pending /\ logs.window = "node" /\ logs.request.got # None
    /\ LET l == [logs EXCEPT !.loading = FALSE, !.request = None, !.got = logs.request, !.before = logs.entries,
                             !.entries = @ \o Last(logs.request.got)]
       IN  logs' = [l EXCEPT !.shown = IF l.min = None THEN <<>> ELSE Filter(l)]
    /\ UNCHANGED written

\* onLogsReceived() of LogComponent: the first messages of the answer are added.
AppLogsReceived ==
    /\ Pending /\ logs.window = "app" /\ logs.request.got # None
    /\ logs' = [logs EXCEPT !.loading = FALSE, !.request = None, !.got = logs.request,
                            !.entries = @ \o First(logs.request.got)]
    /\ UNCHANGED written

\* onLogsError(): the data is loaded again after connectionRetryDelay.
Retry(l) == LoadData(l)

OnLogsError ==
    /\ Pending
    /\ logs' = Retry(logs)
    /\ UNCHANGED written

\* The update button of NodeLogsComponent.
Refresh ==
    /\ logs.open /\ logs.window = "node" /\ ~logs.filtering /\ logs.loads < MaxLoads
    /\ logs' = [LoadData(logs) EXCEPT !.loads = @ + 1]
    /\ UNCHANGED written

\* showFilters(): with no level the options can not be marked, and it fails.
ShowFilters ==
    /\ logs.open /\ logs.window = "node" /\ ~logs.filtering
    /\ ~logs.loading /\ logs.entries # <<>> /\ logs.min # None
    /\ logs' = [logs EXCEPT !.filtering = TRUE]
    /\ UNCHANGED written

LevelChosen(i) ==
    /\ logs.filtering
    /\ logs' = [logs EXCEPT !.filtering = FALSE, !.min = i, !.shown = Filter([logs EXCEPT !.min = i])]
    /\ UNCHANGED written

\* Closed without a choice there is no level, and filter() fails after it emptied the list.
FiltersDismissed ==
    /\ logs.filtering
    /\ logs' = [logs EXCEPT !.filtering = FALSE, !.min = None, !.shown = <<>>]
    /\ UNCHANGED written

\* A defect: the messages of the old filter stay.
Uncleared(l) == l

Cleared(l) == [l EXCEPT !.entries = <<>>]

\* filter() of LogComponent.
ChangeDays(d) ==
    /\ logs.open /\ logs.window = "app" /\ logs.loads < MaxLoads
    /\ logs' = LoadData([Cleared(logs) EXCEPT !.days = d, !.loads = @ + 1])
    /\ UNCHANGED written

Close ==
    /\ logs.open /\ ~logs.filtering
    /\ logs' = [logs EXCEPT !.open = FALSE]
    /\ UNCHANGED written

Received == NodeLogsReceived \/ AppLogsReceived

Next ==
    \/ Write \/ Answer \/ Received \/ OnLogsError
    \/ Refresh \/ ShowFilters \/ FiltersDismissed \/ Close
    \/ \E i \in Levels : LevelChosen(i)
    \/ \E d \in Days : ChangeDays(d)

-----------------------------------------------------------------------------
(***************************************************************************)
(* Properties                                                              *)
(***************************************************************************)
\* The window of an app shows the answer to its present filter and nothing of
\* an earlier one, whatever requests were cancelled or repeated (loadData(),
\* filter()).
AppLogIsCurrent ==
    logs.window = "app" /\ ~logs.loading =>
        logs.got.days = logs.days /\ logs.entries = First(logs.got.got)

\* The window of a visor has what it had before and the newest entries of the
\* last answer, whatever attempts failed or were cancelled, and what it shows is
\* exactly what its minimum level allows.  So a refresh repeats the entries that
\* both answers have, and the window exceeds maxElementsPerPage, "How many entries
\* the modal window can show" (node-logs.component.ts:118): it grows by up to that
\* number with each refresh of the user, and by no more.
NodeLogIsFiltered ==
    logs.window = "node" /\ ~logs.loading =>
        /\ logs.entries = logs.before \o Last(logs.got.got)
        /\ Len(logs.before) <= MaxShown * logs.loads
        /\ logs.min # None => logs.shown = Picked(logs.entries, {i \in DOMAIN logs.entries : ~(logs.entries[i] < logs.min)})
=============================================================================
