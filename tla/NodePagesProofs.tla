--------------------------- MODULE NodePagesProofs ---------------------------
(***************************************************************************)
(* Proofs about NodePages, for all visors, histories and faults: the       *)
(* variables keep their types, and the data behind the page on screen are  *)
(* being polled.                                                           *)
(*                                                                         *)
(* A navigation is a function of the state (Leave, Enter) and so is an     *)
(* emission (Emit), so the proofs first say what these functions keep and  *)
(* then go through the actions.                                            *)
(***************************************************************************)
EXTENDS NodePages, SequenceTheorems, TLAPS

Entries == [page : Pages, saved : Saved]
Views == [shown : Nodes \union {"list", None}, notFound : BOOLEAN, live : BOOLEAN, lost : BOOLEAN]
Loops == {"off", "wait", "asked"}
Kept == {"data", "nothing"}

\* E is what the subject of a visor may have emitted: "notfound" only until
\* its entry is removed, in the same step.
NodeData(E) == [loop : Loops, last : E, stopped : BOOLEAN, leaked : BOOLEAN]
ListData == [loop : Loops, last : Kept, leaked : BOOLEAN]
Maps(E) == UNION {[D -> NodeData(E)] : D \in SUBSET Nodes}
Histories == Seq(Entries) \ {<<>>}
StatesOf(E) == [hist : Histories, view : Views, map : Maps(E), list : ListData]
States == StatesOf(Kept)

\* ShownIsPolled of a state that a navigation or an emission is making.
PageOf(s) == Last(s.hist).page
Polled(s) ==
    /\ PageOf(s) \in Nodes /\ ~s.view.notFound =>
         s.view.live /\ PageOf(s) \in DOMAIN s.map /\ ~s.map[PageOf(s)].stopped
    /\ PageOf(s) = "list" => s.view.live /\ s.list.loop \in {"wait", "asked"}

Types ==
    /\ State \in States /\ Len(hist) <= MaxHistory
    /\ session \in BOOLEAN /\ forceFail \in BOOLEAN /\ faults \in 0..MaxFaults

\* The invariant is inductive as it stands.
IInv == Types /\ Polled(State)

-----------------------------------------------------------------------------
(* Histories.                                                              *)

\* A history has a last entry; going back leaves the entries before it.
LEMMA HistoryFacts ==
  ASSUME NEW h \in Histories
  PROVE  /\ Len(h) \in Nat \ {0} /\ h \in Seq(Entries)
         /\ Last(h) \in Entries /\ Last(h).page \in Pages /\ Last(h).saved \in Saved
         /\ Front(h) \in Seq(Entries) /\ Len(Front(h)) = Len(h) - 1
<1>1. h \in Seq(Entries) /\ h # <<>>
  BY DEF Histories
<1>2. Len(h) \in Nat \ {0}
  BY <1>1
<1>3. Last(h) \in Entries
  BY <1>1, <1>2 DEF Last
<1>4. Last(h).page \in Pages /\ Last(h).saved \in Saved
  BY <1>3 DEF Entries
<1>5. Front(h) \in Seq(Entries) /\ Len(Front(h)) = Len(h) - 1
  <2>1. \A i \in 1..(Len(h) - 1) : h[i] \in Entries
    BY <1>1, <1>2
  <2>2. Len(h) - 1 \in Int /\ 1 \in Int
    BY <1>2
  <2>3. /\ SubSeq(h, 1, Len(h) - 1) \in Seq(Entries)
        /\ Len(SubSeq(h, 1, Len(h) - 1)) = IF 1 <= Len(h) - 1 THEN Len(h) - 1 - 1 + 1 ELSE 0
    BY <2>1, <2>2, SubSeqProperties
  <2>4. Front(h) = SubSeq(h, 1, Len(h) - 1)
    BY Zenon DEF Front
  <2>. DEFINE f == SubSeq(h, 1, Len(h) - 1)
              n == Len(f)
  <2>5. f \in Seq(Entries) /\ n = IF 1 <= Len(h) - 1 THEN Len(h) - 1 - 1 + 1 ELSE 0
    BY <2>3, Zenon
  <2>. HIDE DEF n, f
  <2>6. n = Len(h) - 1
    <3>1. ASSUME NEW l \in Nat \ {0}, NEW i, i = IF 1 <= l - 1 THEN l - 1 - 1 + 1 ELSE 0
          PROVE  i = l - 1
      BY <3>1
    <3>. QED
      BY <1>2, <2>5, <3>1, Zenon
  <2>. QED
    BY <2>4, <2>5, <2>6, Zenon DEF n, f
<1>. QED
  BY <1>1, <1>2, <1>3, <1>4, <1>5

\* A navigation adds an entry.
LEMMA Appended ==
  ASSUME NEW h \in Seq(Entries), NEW e \in Entries
  PROVE  /\ Append(h, e) \in Histories /\ Last(Append(h, e)) = e
         /\ Len(Append(h, e)) = Len(h) + 1
BY DEF Histories, Last

\* Saving a result leaves the pages of the history alone.
LEMMA SavedInHistory ==
  ASSUME NEW h \in Histories, NEW v \in Saved
  PROVE  LET g == [h EXCEPT ![Len(h)].saved = v]
         IN  /\ g \in Histories /\ Len(g) = Len(h)
             /\ Last(g).page = Last(h).page
<1>. DEFINE e == [h[Len(h)] EXCEPT !.saved = v]
            g == [h EXCEPT ![Len(h)] = e]
<1>1. Len(h) \in Nat \ {0} /\ h \in Seq(Entries) /\ h[Len(h)] \in Entries /\ Last(h) = h[Len(h)]
  BY HistoryFacts DEF Last
<1>2. e \in Entries /\ e.page = h[Len(h)].page
  BY <1>1 DEF Entries
<1>. HIDE DEF e
<1>3. g \in Seq(Entries) /\ Len(g) = Len(h) /\ g[Len(h)] = e
  BY <1>1, <1>2
<1>4. g # <<>>
  BY <1>1, <1>3
<1>5. Last(g) = e
  BY <1>3 DEF Last
<1>6. g \in Histories
  BY <1>3, <1>4 DEF Histories
<1>7. g = [h EXCEPT ![Len(h)].saved = v]
  BY DEF e
<1>. HIDE DEF g
<1>. QED
  BY <1>1, <1>2, <1>3, <1>5, <1>6, <1>7

-----------------------------------------------------------------------------
(* The entries of the polled visors.                                       *)

\* Only visors are in the cache of polled visors.
LEMMA MapFacts ==
  ASSUME NEW E, NEW m \in Maps(E)
  PROVE  /\ DOMAIN m \subseteq Nodes /\ m \in [DOMAIN m -> NodeData(E)]
         /\ \A k \in DOMAIN m : m[k] \in NodeData(E)
BY DEF Maps

\* A cache that is built anew.
LEMMA MapMade ==
  ASSUME NEW E, NEW D \in SUBSET Nodes, NEW m \in [D -> NodeData(E)]
  PROVE  m \in Maps(E) /\ DOMAIN m = D
BY DEF Maps

\* The data of one visor change.
LEMMA MapChanged ==
  ASSUME NEW E, NEW m \in Maps(E), NEW k, NEW d \in NodeData(E)
  PROVE  LET n == [m EXCEPT ![k] = d]
         IN  /\ n \in Maps(E) /\ DOMAIN n = DOMAIN m
             /\ k \in DOMAIN m => n[k] = d
             /\ \A j \in DOMAIN m : j # k => n[j] = m[j]
<1>. DEFINE n == [m EXCEPT ![k] = d]
<1>1. DOMAIN m \in SUBSET Nodes /\ m \in [DOMAIN m -> NodeData(E)]
  BY MapFacts
<1>2. n \in [DOMAIN m -> NodeData(E)]
  BY <1>1
<1>3. n \in Maps(E) /\ DOMAIN n = DOMAIN m
  <2>. HIDE DEF n
  <2>. QED
    BY <1>1, <1>2, MapMade
<1>. QED
  BY <1>1, <1>3

\* A visor that is requested is in the cache, and no stop of it is pending.
LEMMA StartRequestingFacts ==
  ASSUME NEW m \in Maps(Kept), NEW k \in Nodes
  PROVE  LET n == StartRequesting(m, k)
         IN  n \in Maps(Kept) /\ k \in DOMAIN n /\ n[k].last \in Kept /\ n[k].stopped = FALSE
<1>1. CASE k \in DOMAIN m
  <2>. DEFINE d == [m[k] EXCEPT !.stopped = FALSE]
  <2>1. m[k] \in NodeData(Kept)
    BY <1>1, MapFacts
  <2>2. d \in NodeData(Kept) /\ d.stopped = FALSE /\ d.last \in Kept
    BY <2>1 DEF NodeData
  <2>3. StartRequesting(m, k) = [m EXCEPT ![k] = d]
    BY <1>1 DEF StartRequesting
  <2>. HIDE DEF d
  <2>4. [m EXCEPT ![k] = d] \in Maps(Kept) /\ DOMAIN [m EXCEPT ![k] = d] = DOMAIN m
        /\ [m EXCEPT ![k] = d][k] = d
    BY <1>1, <2>2, MapChanged
  <2>. QED
    BY <1>1, <2>2, <2>3, <2>4
<1>2. CASE k \notin DOMAIN m
  <2>. DEFINE D == DOMAIN m \union {k}
              n == [j \in D |-> IF j = k THEN NewNodeData ELSE m[j]]
  <2>1. NewNodeData \in NodeData(Kept) /\ NewNodeData.stopped = FALSE /\ NewNodeData.last \in Kept
    BY DEF NewNodeData, NodeData, Loops, Kept
  <2>2. D \in SUBSET Nodes /\ \A j \in DOMAIN m : m[j] \in NodeData(Kept)
    BY MapFacts
  <2>3. StartRequesting(m, k) = n
    BY <1>2 DEF StartRequesting, WithEntry
  <2>4. n \in [D -> NodeData(Kept)] /\ n[k] = NewNodeData
    BY <2>1, <2>2
  <2>. HIDE DEF n
  <2>. QED
    BY <2>1, <2>2, <2>3, <2>4, MapMade
<1>. QED
  BY <1>1, <1>2

\* A stop leaves the visor in the cache for a while.
LEMMA StopRequestingFacts ==
  ASSUME NEW m \in Maps(Kept), NEW k
  PROVE  StopRequesting(m, k) \in Maps(Kept) /\ DOMAIN StopRequesting(m, k) = DOMAIN m
<1>. DEFINE d == [m[k] EXCEPT !.stopped = TRUE]
<1>1. ASSUME k \in DOMAIN m
      PROVE  d \in NodeData(Kept) /\ StopRequesting(m, k) = [m EXCEPT ![k] = d]
  <2>1. m[k] \in NodeData(Kept)
    BY <1>1, MapFacts
  <2>2. d \in NodeData(Kept)
    BY <2>1 DEF NodeData
  <2>. QED
    BY <1>1, <2>2 DEF StopRequesting
<1>2. k \notin DOMAIN m => StopRequesting(m, k) = m
  BY DEF StopRequesting
<1>. HIDE DEF d
<1>. QED
  BY <1>1, <1>2, MapChanged

\* A visor whose stop expired, or that is unknown, leaves the cache.
LEMMA ForgetFacts ==
  ASSUME NEW m \in Maps(Emissions), NEW k, \A j \in DOMAIN m \ {k} : m[j].last \in Kept
  PROVE  /\ Forget(m, k) \in Maps(Kept) /\ DOMAIN Forget(m, k) = DOMAIN m \ {k}
         /\ \A j \in DOMAIN m \ {k} : Forget(m, k)[j] = m[j]
<1>. DEFINE D == DOMAIN m \ {k}
<1>1. D \in SUBSET Nodes /\ \A j \in D : m[j] \in NodeData(Emissions)
  BY MapFacts
<1>2. \A j \in D : m[j] \in NodeData(Kept)
  BY <1>1 DEF NodeData
<1>3. Forget(m, k) = [j \in D |-> m[j]]
  BY DEF Forget, Restrict
<1>4. Forget(m, k) \in [D -> NodeData(Kept)]
  BY <1>2, <1>3
<1>. QED
  BY <1>1, <1>3, <1>4, MapMade

-----------------------------------------------------------------------------
(* The functions that make and leave a page.                               *)

\* The page of a visor is no other page.
LEMMA PageNames == \A k \in Nodes : k \notin {"list", "settings", "login", "notfound", "nothing"}
BY NodePagesAssumption

\* What the page shows after an emission.
LEMMA ProcessFacts ==
  ASSUME NEW v \in Views, NEW p, NEW src, NEW is, is = "data" => src \in Nodes \union {"list"}
  PROVE  LET w == Process(v, p, src, is)
         IN  /\ w \in Views /\ w.live = v.live
             /\ w.notFound = (v.notFound \/ (is = "notfound" /\ p # "list"))
<1>. DEFINE sh == IF is = "data" /\ ~(p = "list" /\ v.shown \in Nodes) THEN src ELSE v.shown
            nf == v.notFound \/ (is = "notfound" /\ p # "list")
            w == [v EXCEPT !.shown = sh, !.notFound = nf]
<1>1. sh \in Nodes \union {"list", None} /\ nf \in BOOLEAN
  BY DEF Views
<1>2. Process(v, p, src, is) = w
  BY DEF Process, Views
<1>. HIDE DEF sh, nf
<1>3. w \in Views /\ w.live = v.live /\ w.notFound = nf
  BY <1>1 DEF Views
<1>. QED
  BY <1>2, <1>3 DEF nf

\* The parts of a state.
LEMMA StateFacts ==
  ASSUME NEW E, NEW s \in StatesOf(E)
  PROVE  /\ s.hist \in Histories /\ s.view \in Views /\ s.map \in Maps(E) /\ s.list \in ListData
         /\ PageOf(s) \in Pages
<1>1. s.hist \in Histories /\ s.view \in Views /\ s.map \in Maps(E) /\ s.list \in ListData
  BY DEF StatesOf
<1>. QED
  BY <1>1, HistoryFacts DEF PageOf

\* ngOnDestroy of the page on screen.
LEMMA LeaveFacts ==
  ASSUME NEW s \in States
  PROVE  Leave(s) \in States /\ Leave(s).hist = s.hist
<1>. DEFINE p == Last(s.hist).page
            gone == s.view.live /\ s.view.lost
<1>1. s.hist \in Histories /\ s.view \in Views /\ s.map \in Maps(Kept) /\ s.list \in ListData
  BY StateFacts DEF States
<1>2. gone \in BOOLEAN
  BY <1>1 DEF Views
<1>. HIDE DEF gone
<1>3. CASE p = "list"
  <2>. DEFINE l == [s.list EXCEPT !.leaked = @ \/ gone]
  <2>1. l \in ListData
    BY <1>1, <1>2 DEF ListData
  <2>2. Leave(s) = [s EXCEPT !.list = l]
    BY <1>3 DEF Leave, gone
  <2>. HIDE DEF l
  <2>. QED
    BY <2>1, <2>2 DEF States, StatesOf
<1>4. CASE p # "list" /\ p \in Nodes
  <2>. DEFINE m == StopRequesting(s.map, p)
              d == [m[p] EXCEPT !.leaked = @ \/ gone]
              n == IF p \in DOMAIN m THEN [m EXCEPT ![p] = d] ELSE m
  <2>1. m \in Maps(Kept)
    BY <1>1, StopRequestingFacts
  <2>2. Leave(s) = [s EXCEPT !.map = n]
    BY <1>4 DEF Leave, gone
  <2>. HIDE DEF m
  <2>3. p \in DOMAIN m => m[p] \in NodeData(Kept)
    BY <2>1, MapFacts
  <2>4. p \in DOMAIN m => d \in NodeData(Kept)
    BY <1>2, <2>3 DEF NodeData
  <2>. HIDE DEF d, p
  <2>5. n \in Maps(Kept)
    BY <2>1, <2>4, MapChanged
  <2>. HIDE DEF n
  <2>. QED
    BY <2>2, <2>5 DEF States, StatesOf
<1>5. CASE p # "list" /\ p \notin Nodes
  BY <1>5 DEF Leave
<1>. QED
  BY <1>3, <1>4, <1>5

\* A page that was just made listens, unless what it finds saved is that the
\* visor is not known.
LEMMA StartGettingDataFacts ==
  ASSUME NEW s \in States, NEW p, p = PageOf(s), p = "list" \/ (p \in Nodes /\ p \in DOMAIN s.map)
  PROVE  LET t == StartGettingData(s, p)
         IN  /\ t \in States /\ t.map = s.map /\ t.list = s.list
             /\ PageOf(t) = p /\ Len(t.hist) = Len(s.hist)
             /\ t.view.live \/ (t.view.notFound /\ p # "list")
<1>. DEFINE saved == Last(s.hist).saved
            is == IF saved \in {"notfound", "nothing"} THEN saved ELSE "data"
            new == [NewView EXCEPT !.lost = TRUE]
            old == IF saved = None THEN NewView ELSE Process(new, p, saved, is)
            last == IF p = "list" THEN s.list.last ELSE s.map[p].last
            live == [old EXCEPT !.live = TRUE]
            view1 == IF old.notFound THEN old ELSE Process(live, p, p, last)
            value == IF old.notFound THEN s.hist[Len(s.hist)].saved ELSE SavedValue(p, last)
            hist1 == [s.hist EXCEPT ![Len(s.hist)].saved = value]
<1>1. s.hist \in Histories /\ s.view \in Views /\ s.map \in Maps(Kept) /\ s.list \in ListData
  BY StateFacts DEF States
<1>2. saved \in Saved /\ s.hist[Len(s.hist)].saved = saved
  BY <1>1, HistoryFacts DEF Last
<1>3. StartGettingData(s, p) = [s EXCEPT !.view = view1, !.hist = hist1]
  BY <1>1 DEF StartGettingData, States, StatesOf
<1>4. last \in Kept
  <2>1. s.list.last \in Kept
    BY <1>1 DEF ListData
  <2>2. p \in DOMAIN s.map => s.map[p] \in NodeData(Kept)
    BY <1>1, MapFacts
  <2>3. p \in DOMAIN s.map => s.map[p].last \in Kept
    BY <2>2 DEF NodeData
  <2>. QED
    BY <2>1, <2>3
<1>5. NewView \in Views /\ NewView.notFound = FALSE /\ new \in Views /\ new.notFound = FALSE
  BY DEF NewView, Views
<1>6. old \in Views /\ (p = "list" => old.notFound = FALSE)
  <2>1. saved # None /\ is = "data" => saved \in Nodes \union {"list"}
    BY <1>2 DEF Saved
  <2>. HIDE DEF saved, is, new
  <2>2. saved # None => /\ Process(new, p, saved, is) \in Views
                        /\ Process(new, p, saved, is).notFound = (new.notFound \/ (is = "notfound" /\ p # "list"))
    BY <1>5, <2>1, ProcessFacts
  <2>. QED
    BY <1>5, <2>2
<1>. HIDE DEF old, last
<1>7. old.notFound \in BOOLEAN /\ live \in Views /\ live.live = TRUE /\ live.notFound = old.notFound
  BY <1>6 DEF Views
<1>. HIDE DEF live
<1>8. view1 \in Views /\ (view1.live \/ (view1.notFound /\ p # "list"))
  <2>1. Process(live, p, p, last) \in Views /\ Process(live, p, p, last).live = TRUE
    BY <1>7, ProcessFacts
  <2>. QED
    BY <1>6, <2>1
<1>9. value \in Saved
  BY <1>2, <1>4 DEF SavedValue, Saved, Kept
<1>. HIDE DEF value, view1
<1>10. hist1 \in Histories /\ Len(hist1) = Len(s.hist) /\ Last(hist1).page = Last(s.hist).page
  BY <1>1, <1>9, SavedInHistory
<1>. HIDE DEF hist1
<1>. DEFINE t == [s EXCEPT !.view = view1, !.hist = hist1]
<1>11. t \in States /\ t.map = s.map /\ t.list = s.list /\ t.hist = hist1 /\ t.view = view1
  BY <1>8, <1>10 DEF States, StatesOf
<1>. HIDE DEF t
<1>12. PageOf(t) = p /\ Len(t.hist) = Len(s.hist)
  BY <1>10, <1>11 DEF PageOf
<1>13. StartGettingData(s, p) = t
  BY <1>3 DEF t
<1>. QED
  BY <1>8, <1>11, <1>12, <1>13

\* The page on top of the history is made: its data are polled.
LEMMA EnterFacts ==
  ASSUME NEW s \in States
  PROVE  LET t == Enter(s)
         IN  t \in States /\ Polled(t) /\ PageOf(t) = PageOf(s) /\ Len(t.hist) = Len(s.hist)
<1>. DEFINE p == PageOf(s)
<1>1. s.hist \in Histories /\ s.map \in Maps(Kept) /\ s.list \in ListData /\ p \in Pages
  BY StateFacts DEF States
<1>2. Last(s.hist).page = p
  BY DEF PageOf
<1>. HIDE DEF p
<1>3. CASE p = "list"
  <2>. DEFINE l == StartList(s.list)
              u == [s EXCEPT !.list = l]
  <2>1. l \in ListData /\ l.loop \in {"wait", "asked"}
    BY <1>1 DEF StartList, ListData, Loops
  <2>2. Enter(s) = StartGettingData(u, p)
    BY <1>2, <1>3, PageNames DEF Enter
  <2>. HIDE DEF l
  <2>3. u \in States /\ u.hist = s.hist /\ u.list = l
    BY <2>1 DEF States, StatesOf
  <2>. HIDE DEF u
  <2>4. p = PageOf(u)
    BY <1>2, <2>3 DEF PageOf
  <2>. DEFINE t == StartGettingData(u, p)
  <2>5. /\ t \in States /\ t.list = l /\ PageOf(t) = p /\ Len(t.hist) = Len(s.hist)
        /\ t.view.live \/ (t.view.notFound /\ p # "list")
    BY <1>3, <2>3, <2>4, StartGettingDataFacts
  <2>. HIDE DEF t
  <2>6. Polled(t)
    BY <1>3, <2>1, <2>5, PageNames DEF Polled
  <2>. QED
    BY <1>2, <2>2, <2>5, <2>6 DEF t, PageOf
<1>4. CASE p \in Nodes
  <2>. DEFINE m == StartRequesting(s.map, p)
              u == [s EXCEPT !.map = m]
  <2>1. m \in Maps(Kept) /\ p \in DOMAIN m /\ m[p].stopped = FALSE
    BY <1>1, <1>4, StartRequestingFacts
  <2>2. Enter(s) = StartGettingData(u, p)
    BY <1>2, <1>4, PageNames DEF Enter
  <2>. HIDE DEF m
  <2>3. u \in States /\ u.hist = s.hist /\ u.map = m
    BY <2>1 DEF States, StatesOf
  <2>. HIDE DEF u
  <2>4. p = PageOf(u)
    BY <1>2, <2>3 DEF PageOf
  <2>. DEFINE t == StartGettingData(u, p)
  <2>5. /\ t \in States /\ t.map = m /\ PageOf(t) = p /\ Len(t.hist) = Len(s.hist)
        /\ t.view.live \/ (t.view.notFound /\ p # "list")
    BY <1>4, <2>1, <2>3, <2>4, StartGettingDataFacts
  <2>. HIDE DEF t
  <2>6. Polled(t)
    BY <1>4, <2>1, <2>5, PageNames DEF Polled
  <2>. QED
    BY <1>2, <2>2, <2>5, <2>6 DEF t, PageOf
<1>5. CASE p = "login"
  <2>. DEFINE l == StopList(s.list)
              t == [s EXCEPT !.list = l, !.view = NewView]
  <2>1. l \in ListData /\ NewView \in Views
    BY <1>1 DEF StopList, ListData, Loops, NewView, Views
  <2>2. Enter(s) = t
    BY <1>2, <1>5, PageNames DEF Enter
  <2>. HIDE DEF l
  <2>3. t \in States /\ t.hist = s.hist
    BY <2>1 DEF States, StatesOf
  <2>. HIDE DEF t
  <2>4. Polled(t) /\ PageOf(t) = p
    BY <1>2, <1>5, <2>3, PageNames DEF Polled, PageOf
  <2>. QED
    BY <1>2, <2>2, <2>3, <2>4 DEF PageOf
<1>6. CASE p = "settings"
  <2>. DEFINE t == [s EXCEPT !.view = NewView]
  <2>1. NewView \in Views
    BY DEF NewView, Views
  <2>2. Enter(s) = t
    BY <1>2, <1>6, PageNames DEF Enter
  <2>3. t \in States /\ t.hist = s.hist
    BY <2>1 DEF States, StatesOf
  <2>. HIDE DEF t
  <2>4. Polled(t) /\ PageOf(t) = p
    BY <1>2, <1>6, <2>3, PageNames DEF Polled, PageOf
  <2>. QED
    BY <1>2, <2>2, <2>3, <2>4 DEF PageOf
<1>. QED
  BY <1>1, <1>3, <1>4, <1>5, <1>6 DEF Pages

\* A new entry of the history.
LEMMA EntryOfFacts ==
  ASSUME NEW p \in Pages
  PROVE  EntryOf(p) \in Entries
BY DEF EntryOf, Entries, Saved

\* The page is left, the history gets another form, and its last page is made.
LEMMA NavigateFacts ==
  ASSUME NEW s \in States, NEW h \in Histories
  PROVE  LET t == Enter([Leave(s) EXCEPT !.hist = h])
         IN  t \in States /\ Polled(t) /\ PageOf(t) = Last(h).page /\ Len(t.hist) = Len(h)
<1>. DEFINE u == [Leave(s) EXCEPT !.hist = h]
<1>1. u \in States /\ u.hist = h
  BY LeaveFacts DEF States, StatesOf
<1>. HIDE DEF u
<1>2. Enter(u) \in States /\ Polled(Enter(u)) /\ PageOf(Enter(u)) = PageOf(u) /\ Len(Enter(u).hist) = Len(h)
  BY <1>1, EnterFacts
<1>. QED
  BY <1>1, <1>2 DEF u, PageOf

\* Navigation to a page, with an entry more or in place of the last one.
LEMMA PushFacts ==
  ASSUME NEW s \in States, NEW p \in Pages
  PROVE  /\ Push(s, p) \in States /\ Polled(Push(s, p)) /\ Len(Push(s, p).hist) = Len(s.hist) + 1
         /\ Replace(s, p) \in States /\ Polled(Replace(s, p)) /\ Len(Replace(s, p).hist) = Len(s.hist)
<1>. DEFINE h == Append(s.hist, EntryOf(p))
            g == Append(Front(s.hist), EntryOf(p))
<1>1. /\ s.hist \in Seq(Entries) /\ Front(s.hist) \in Seq(Entries)
      /\ Len(s.hist) \in Nat \ {0} /\ Len(Front(s.hist)) = Len(s.hist) - 1
  BY StateFacts, HistoryFacts DEF States
<1>2. h \in Histories /\ Len(h) = Len(s.hist) + 1 /\ g \in Histories /\ Len(g) = Len(Front(s.hist)) + 1
  BY <1>1, EntryOfFacts, Appended
<1>3. Len(g) = Len(s.hist)
  BY <1>1, <1>2
<1>4. Leave(s).hist = s.hist
  BY LeaveFacts
<1>5. /\ [Leave(s) EXCEPT !.hist = Append(@, EntryOf(p))] = [Leave(s) EXCEPT !.hist = h]
      /\ [Leave(s) EXCEPT !.hist = Append(Front(@), EntryOf(p))] = [Leave(s) EXCEPT !.hist = g]
  BY <1>4
<1>6. Push(s, p) = Enter([Leave(s) EXCEPT !.hist = h]) /\ Replace(s, p) = Enter([Leave(s) EXCEPT !.hist = g])
  BY <1>5 DEF Push, Replace
<1>. HIDE DEF h, g
<1>. QED
  BY <1>2, <1>3, <1>6, NavigateFacts

\* The back button.
LEMMA PopFacts ==
  ASSUME NEW s \in States, Len(s.hist) > 1
  PROVE  Pop(s) \in States /\ Polled(Pop(s)) /\ Len(Pop(s).hist) = Len(s.hist) - 1
<1>. DEFINE h == Front(s.hist)
<1>1. h \in Seq(Entries) /\ Len(s.hist) \in Nat \ {0} /\ Len(h) = Len(s.hist) - 1
  BY StateFacts, HistoryFacts DEF States
<1>2. Leave(s).hist = s.hist
  BY LeaveFacts
<1>3. Pop(s) = Enter([Leave(s) EXCEPT !.hist = h])
  BY <1>2 DEF Pop
<1>. HIDE DEF h
<1>4. h \in Histories
  BY <1>1 DEF Histories
<1>. QED
  BY <1>1, <1>3, <1>4, NavigateFacts

\* The redirection to the login page.
LEMMA ToLoginFacts ==
  ASSUME NEW s \in States
  PROVE  ToLogin(s) \in States /\ Polled(ToLogin(s)) /\ Len(ToLogin(s).hist) = Len(s.hist)
<1>1. "login" \in Pages
  BY DEF Pages
<1>2. PageOf(s) = "login" => Polled(s)
  BY PageNames DEF Polled
<1>. QED
  BY <1>1, <1>2, PushFacts DEF ToLogin, PageOf

-----------------------------------------------------------------------------
(* Emissions.                                                              *)

\* An emission changes what is shown, what is saved and who has leaked; it
\* leaves alone what is polled and on screen.
LEMMA EmitFacts ==
  ASSUME NEW E, NEW s \in StatesOf(E), NEW src \in Nodes \union {"list"},
         src \in Nodes => src \in DOMAIN s.map, NEW is \in Emissions
  PROVE  LET t == Emit(s, src, is)
         IN  /\ t \in StatesOf(E) /\ t.list = s.list /\ t.view.live = s.view.live
             /\ PageOf(t) = PageOf(s) /\ Len(t.hist) = Len(s.hist)
             /\ DOMAIN t.map = DOMAIN s.map
             /\ \A k \in DOMAIN s.map : t.map[k].stopped = s.map[k].stopped /\ t.map[k].last = s.map[k].last
             /\ s.view.notFound => t.view.notFound
             /\ src = PageOf(s) /\ src # "list" /\ s.view.live /\ is = "notfound" => t.view.notFound
<1>. DEFINE p == Last(s.hist).page
            own == p = src /\ s.view.live
            leaked == IF src = "list" THEN s.list.leaked ELSE s.map[src].leaked
            toSubject == leaked /\ src # "list" /\ is = "data"
            saved == s.hist[Len(s.hist)].saved
            value == IF (own \/ leaked) /\ ReadsKey(p) THEN SavedValue(src, is) ELSE saved
            hist1 == [s.hist EXCEPT ![Len(s.hist)].saved = value]
            view1 == IF own \/ (toSubject /\ p \in Nodes) THEN Process(s.view, p, src, is) ELSE s.view
            d == [s.map[src] EXCEPT !.leaked = FALSE]
            map1 == IF toSubject /\ p \notin Nodes THEN [s.map EXCEPT ![src] = d] ELSE s.map
            t == [s EXCEPT !.hist = hist1, !.view = view1, !.map = map1]
<1>1. s.hist \in Histories /\ s.view \in Views /\ s.map \in Maps(E) /\ s.list \in ListData
  BY StateFacts
<1>2. Emit(s, src, is) = t
  BY <1>1 DEF Emit, StatesOf
<1>3. value \in Saved
  <2>1. saved \in Saved
    BY <1>1, HistoryFacts DEF Last
  <2>2. SavedValue(src, is) \in Saved
    BY DEF SavedValue, Saved, Emissions
  <2>. QED
    BY <2>1, <2>2
<1>. HIDE DEF value, saved
<1>4. hist1 \in Histories /\ Len(hist1) = Len(s.hist) /\ Last(hist1).page = p
  BY <1>1, <1>3, SavedInHistory
<1>5. /\ view1 \in Views /\ view1.live = s.view.live
      /\ s.view.notFound => view1.notFound
      /\ src = p /\ src # "list" /\ s.view.live /\ is = "notfound" => view1.notFound
  <2>. HIDE DEF leaked, p
  <2>1. LET w == Process(s.view, p, src, is)
        IN  /\ w \in Views /\ w.live = s.view.live
            /\ w.notFound = (s.view.notFound \/ (is = "notfound" /\ p # "list"))
    BY <1>1, ProcessFacts
  <2>. QED
    BY <1>1, <2>1
<1>6. /\ map1 \in Maps(E) /\ DOMAIN map1 = DOMAIN s.map
      /\ \A k \in DOMAIN s.map : map1[k].stopped = s.map[k].stopped /\ map1[k].last = s.map[k].last
  <2>1. CASE toSubject /\ p \notin Nodes
    <3>1. src \in DOMAIN s.map
      BY <2>1
    <3>2. s.map[src] \in NodeData(E)
      BY <1>1, <3>1, MapFacts
    <3>3. d \in NodeData(E) /\ d.stopped = s.map[src].stopped /\ d.last = s.map[src].last
      BY <3>2 DEF NodeData
    <3>4. map1 = [s.map EXCEPT ![src] = d]
      BY <2>1
    <3>. HIDE DEF d, map1
    <3>5. LET n == [s.map EXCEPT ![src] = d]
          IN  /\ n \in Maps(E) /\ DOMAIN n = DOMAIN s.map
              /\ src \in DOMAIN s.map => n[src] = d
              /\ \A j \in DOMAIN s.map : j # src => n[j] = s.map[j]
      BY <1>1, <3>3, MapChanged
    <3>. QED
      BY <3>1, <3>3, <3>4, <3>5
  <2>2. CASE ~(toSubject /\ p \notin Nodes)
    BY <1>1, <2>2
  <2>. QED
    BY <2>1, <2>2
<1>. HIDE DEF hist1, view1, map1
<1>7. t \in StatesOf(E) /\ t.hist = hist1 /\ t.view = view1 /\ t.map = map1 /\ t.list = s.list
  BY <1>4, <1>5, <1>6 DEF StatesOf
<1>. HIDE DEF t
<1>8. PageOf(t) = p /\ PageOf(s) = p
  BY <1>4, <1>7 DEF PageOf
<1>. HIDE DEF p
<1>. QED
  BY <1>2, <1>4, <1>5, <1>6, <1>7, <1>8

\* Polled needs only what an emission leaves alone.
LEMMA PolledKept ==
  ASSUME NEW s, NEW t, Polled(s), PageOf(t) = PageOf(s), t.view.live = s.view.live,
         PageOf(s) = "list" => t.list.loop \in {"wait", "asked"},
         PageOf(s) \in DOMAIN s.map =>
             PageOf(s) \in DOMAIN t.map /\ t.map[PageOf(s)].stopped = s.map[PageOf(s)].stopped,
         s.view.notFound => t.view.notFound
  PROVE  Polled(t)
BY DEF Polled

\* An emission of the subject of a visor.
LEMMA EmitNodeFacts ==
  ASSUME NEW s \in States, NEW k \in DOMAIN s.map, NEW is \in Emissions, NEW loop \in Loops
  PROVE  LET t == EmitNode(s, k, is, loop)
         IN  /\ t \in StatesOf(Emissions) /\ t.list = s.list /\ t.view.live = s.view.live
             /\ PageOf(t) = PageOf(s) /\ Len(t.hist) = Len(s.hist)
             /\ DOMAIN t.map = DOMAIN s.map
             /\ \A j \in DOMAIN s.map : t.map[j].stopped = s.map[j].stopped
             /\ \A j \in DOMAIN s.map \ {k} : t.map[j].last \in Kept
             /\ is \in Kept => t \in States
             /\ s.view.notFound => t.view.notFound
             /\ k = PageOf(s) /\ s.view.live /\ is = "notfound" => t.view.notFound
             /\ Polled(s) => Polled(t)
<1>. DEFINE d == [s.map[k] EXCEPT !.last = is, !.loop = loop]
            m == [s.map EXCEPT ![k] = d]
            u == [s EXCEPT !.map = m]
            t == Emit(u, k, is)
<1>1. s.hist \in Histories /\ s.view \in Views /\ s.map \in Maps(Kept) /\ s.list \in ListData
  BY StateFacts DEF States
<1>2. k \in Nodes /\ s.map[k] \in NodeData(Kept) /\ s.map \in [DOMAIN s.map -> NodeData(Kept)] /\ DOMAIN s.map \in SUBSET Nodes
  BY <1>1, MapFacts
<1>3. EmitNode(s, k, is, loop) = t
  <2>1. [s EXCEPT !.map[k].last = is, !.map[k].loop = loop] = u
    BY <1>1, <1>2 DEF States, StatesOf, NodeData
  <2>. HIDE DEF u
  <2>. QED
    BY <2>1, Zenon DEF EmitNode
<1>4. ASSUME NEW E, is \in E, Kept \subseteq E
      PROVE  /\ u \in StatesOf(E) /\ u.list = s.list /\ u.hist = s.hist /\ u.view = s.view /\ u.map = m
             /\ m \in Maps(E) /\ DOMAIN m = DOMAIN s.map
             /\ \A j \in DOMAIN s.map : m[j].stopped = s.map[j].stopped
             /\ \A j \in DOMAIN s.map \ {k} : m[j].last \in Kept
  <2>1. d \in NodeData(E) /\ d.stopped = s.map[k].stopped
    BY <1>2, <1>4 DEF NodeData
  <2>. HIDE DEF d
  <2>2. \A j \in DOMAIN s.map : s.map[j] \in NodeData(E) /\ s.map[j].last \in Kept
    <3>1. \A j \in DOMAIN s.map : s.map[j] \in NodeData(Kept)
      BY <1>2
    <3>. QED
      BY <1>4, <3>1 DEF NodeData
  <2>3. /\ m \in [DOMAIN s.map -> NodeData(E)]
        /\ \A j \in DOMAIN s.map : m[j].stopped = s.map[j].stopped
        /\ \A j \in DOMAIN s.map \ {k} : m[j] = s.map[j]
    BY <1>2, <2>1, <2>2
  <2>. HIDE DEF m
  <2>4. m \in Maps(E) /\ DOMAIN m = DOMAIN s.map
    BY <1>2, <2>3, MapMade
  <2>5. u \in StatesOf(E) /\ u.list = s.list /\ u.hist = s.hist /\ u.view = s.view /\ u.map = m
    BY <1>1, <2>4 DEF StatesOf, States
  <2>. QED
    BY <2>2, <2>3, <2>4, <2>5
<1>. HIDE DEF m, u
<1>5. ASSUME NEW E, is \in E, Kept \subseteq E
      PROVE  /\ t \in StatesOf(E) /\ t.list = s.list /\ t.view.live = s.view.live
             /\ PageOf(t) = PageOf(s) /\ Len(t.hist) = Len(s.hist)
             /\ DOMAIN t.map = DOMAIN s.map
             /\ \A j \in DOMAIN s.map : t.map[j].stopped = s.map[j].stopped
             /\ \A j \in DOMAIN s.map \ {k} : t.map[j].last \in Kept
             /\ s.view.notFound => t.view.notFound
             /\ k = PageOf(s) /\ s.view.live /\ is = "notfound" => t.view.notFound
  <2>1. u \in StatesOf(E) /\ DOMAIN u.map = DOMAIN s.map /\ PageOf(u) = PageOf(s)
    BY <1>4, <1>5 DEF PageOf
  <2>2. k \in Nodes \union {"list"} /\ k # "list"
    BY <1>2, PageNames
  <2>. DEFINE T(w) ==
             /\ w \in StatesOf(E) /\ w.list = u.list /\ w.view.live = u.view.live
             /\ PageOf(w) = PageOf(u) /\ Len(w.hist) = Len(u.hist)
             /\ DOMAIN w.map = DOMAIN u.map
             /\ \A j \in DOMAIN u.map : w.map[j].stopped = u.map[j].stopped /\ w.map[j].last = u.map[j].last
             /\ u.view.notFound => w.view.notFound
             /\ k = PageOf(u) /\ k # "list" /\ u.view.live /\ is = "notfound" => w.view.notFound
  <2>3. T(t)
    <3>1. k \in Nodes => k \in DOMAIN u.map
      BY <2>1
    <3>. QED
      BY <2>1, <2>2, <3>1, EmitFacts
  <2>. HIDE DEF t
  <2>. QED
    BY <1>4, <1>5, <2>1, <2>2, <2>3
<1>. HIDE DEF t
<1>6. is \in Kept => t \in States
  BY <1>5 DEF States
<1>7. is \in Emissions /\ Kept \subseteq Emissions
  BY DEF Kept, Emissions
<1>8. Polled(s) => Polled(t)
  <2>. SUFFICES ASSUME Polled(s) PROVE Polled(t)
    OBVIOUS
  <2>1. PageOf(s) = "list" => t.list.loop \in {"wait", "asked"}
    BY <1>5, <1>7 DEF Polled
  <2>. QED
    BY <1>5, <1>7, <2>1, PolledKept
<1>. QED
  BY <1>3, <1>5, <1>6, <1>7, <1>8

\* An emission of the list of visors.
LEMMA EmitListFacts ==
  ASSUME NEW s \in States, NEW is \in Kept, NEW loop \in {"wait", "asked"}
  PROVE  LET t == EmitList(s, is, loop)
         IN  t \in States /\ Len(t.hist) = Len(s.hist) /\ (Polled(s) => Polled(t))
<1>. DEFINE l == [s.list EXCEPT !.last = is, !.loop = loop]
            u == [s EXCEPT !.list = l]
            t == Emit(u, "list", is)
<1>1. s.hist \in Histories /\ s.view \in Views /\ s.map \in Maps(Kept) /\ s.list \in ListData
  BY StateFacts DEF States
<1>2. l \in ListData /\ l.loop \in {"wait", "asked"}
  BY <1>1 DEF ListData, Loops
<1>3. EmitList(s, is, loop) = t
  <2>1. [s EXCEPT !.list.last = is, !.list.loop = loop] = u
    BY <1>1 DEF States, StatesOf, ListData
  <2>. HIDE DEF u
  <2>. QED
    BY <2>1, Zenon DEF EmitList
<1>. HIDE DEF l
<1>4. u \in States /\ u.list = l /\ u.hist = s.hist /\ u.view = s.view /\ u.map = s.map
  BY <1>2 DEF States, StatesOf
<1>. HIDE DEF u
<1>5. PageOf(u) = PageOf(s) /\ "list" \in Nodes \union {"list"} /\ "list" \notin Nodes /\ is \in Emissions
  BY <1>4, PageNames DEF PageOf, Kept, Emissions
<1>6. /\ t \in States /\ t.list = u.list /\ t.view.live = u.view.live
      /\ PageOf(t) = PageOf(u) /\ Len(t.hist) = Len(u.hist)
      /\ DOMAIN t.map = DOMAIN u.map
      /\ \A k \in DOMAIN u.map : t.map[k].stopped = u.map[k].stopped
      /\ u.view.notFound => t.view.notFound
  <2>1. u \in StatesOf(Kept) /\ ("list" \in Nodes => "list" \in DOMAIN u.map)
    BY <1>4, <1>5 DEF States
  <2>. QED
    BY <1>5, <2>1, EmitFacts DEF States
<1>. HIDE DEF t
<1>7. Polled(s) => Polled(t)
  BY <1>2, <1>4, <1>5, <1>6, PolledKept
<1>. QED
  BY <1>3, <1>4, <1>6, <1>7

-----------------------------------------------------------------------------
(* The steps.                                                              *)

\* The state after a navigation or an emission is the one it made.
LEMMA PutFacts ==
  ASSUME NEW s \in States, Polled(s), Len(s.hist) <= MaxHistory, Put(s),
         session' \in BOOLEAN, forceFail' \in BOOLEAN, faults' \in 0..MaxFaults
  PROVE  IInv'
<1>1. hist' = s.hist /\ view' = s.view /\ nodesMap' = s.map /\ list' = s.list
  BY DEF Put
<1>2. State' = s
  <2>1. s = [hist |-> s.hist, view |-> s.view, map |-> s.map, list |-> s.list]
    BY DEF States, StatesOf
  <2>2. State' = [hist |-> hist', view |-> view', map |-> nodesMap', list |-> list']
    BY DEF State
  <2>. QED
    BY <1>1, <2>1, <2>2
<1>3. Types'
  BY <1>1, <1>2 DEF Types
<1>4. Polled(State')
  BY <1>2
<1>5. Polled(State)'
  BY <1>4 DEF Polled, PageOf
<1>. QED
  BY <1>3, <1>5 DEF IInv

\* The invariant, part by part.
LEMMA Bounds ==
  ASSUME Types
  PROVE  /\ State \in States /\ State.hist = hist /\ State.view = view
         /\ State.map = nodesMap /\ State.list = list
         /\ hist \in Histories /\ view \in Views /\ nodesMap \in Maps(Kept) /\ list \in ListData
         /\ Len(hist) \in Nat \ {0} /\ MaxHistory \in Nat /\ Len(hist) <= MaxHistory
         /\ (Calm => session' \in BOOLEAN /\ forceFail' \in BOOLEAN /\ faults' \in 0..MaxFaults)
         /\ (Fault => faults' \in 0..MaxFaults)
<1>1. State \in States /\ State.hist = hist /\ State.view = view
      /\ State.map = nodesMap /\ State.list = list
  BY DEF Types, State
<1>2. hist \in Histories /\ view \in Views /\ nodesMap \in Maps(Kept) /\ list \in ListData
  BY <1>1, StateFacts DEF States
<1>3. Len(hist) \in Nat \ {0}
  BY <1>2, HistoryFacts
<1>4. MaxHistory \in Nat /\ MaxFaults \in Nat
  BY NodePagesAssumption
<1>5. faults \in 0..MaxFaults /\ session \in BOOLEAN /\ forceFail \in BOOLEAN /\ Len(hist) <= MaxHistory
  BY DEF Types
<1>6. Fault => faults' \in 0..MaxFaults
  BY <1>4, <1>5 DEF Fault
<1>7. Calm => session' \in BOOLEAN /\ forceFail' \in BOOLEAN /\ faults' \in 0..MaxFaults
  BY <1>5 DEF Calm
<1>. QED
  BY <1>1, <1>2, <1>3, <1>4, <1>5, <1>6, <1>7

\* The first page is the login page, with nothing to poll.
LEMMA InitIInv == Init => IInv
<1>. SUFFICES ASSUME Init PROVE IInv
  OBVIOUS
<1>1. EntryOf("login") \in Entries /\ EntryOf("login").page = "login"
  <2>1. "login" \in Pages
    BY DEF Pages
  <2>. QED
    BY <2>1, EntryOfFacts DEF EntryOf
<1>2. hist \in Histories /\ Last(hist) = EntryOf("login") /\ Len(hist) = 1
  <2>1. hist = Append(<<>>, EntryOf("login"))
    BY DEF Init
  <2>. DEFINE z == <<>>
  <2>2. z \in Seq(Entries) /\ Len(z) = 0
    OBVIOUS
  <2>3. hist \in Histories /\ Last(hist) = EntryOf("login") /\ Len(hist) = Len(z) + 1
    BY <1>1, <2>1, <2>2, Appended
  <2>. QED
    BY <2>2, <2>3
<1>3. view \in Views
  BY DEF Init, NewView, Views
<1>4. nodesMap \in Maps(Kept)
  <2>1. nodesMap \in [{} -> NodeData(Kept)]
    BY DEF Init
  <2>. QED
    BY <2>1, MapMade
<1>5. list \in ListData
  BY DEF Init, NewListData, ListData, Loops, Kept
<1>6. State \in States
  BY <1>2, <1>3, <1>4, <1>5 DEF State, States, StatesOf
<1>7. Len(hist) <= MaxHistory /\ session \in BOOLEAN /\ forceFail \in BOOLEAN /\ faults \in 0..MaxFaults
  <2>1. MaxHistory \in Nat \ {0} /\ MaxFaults \in Nat
    BY NodePagesAssumption
  <2>2. Len(hist) <= MaxHistory
    BY <1>2, <2>1
  <2>3. session \in BOOLEAN /\ forceFail \in BOOLEAN
    BY DEF Init
  <2>4. faults \in 0..MaxFaults
    BY <2>1 DEF Init
  <2>. QED
    BY <2>2, <2>3, <2>4, Zenon
<1>8. Polled(State)
  <2>1. PageOf(State) = "login"
    BY <1>1, <1>2 DEF PageOf, State
  <2>. QED
    BY <2>1, PageNames DEF Polled
<1>. QED
  BY <1>6, <1>7, <1>8 DEF IInv, Types

\* The steps of the user: every navigation makes a page that is polled.
LEMMA UserKeeps == IInv /\ User => IInv'
<1>. SUFFICES ASSUME IInv, User
              PROVE  IInv'
  OBVIOUS
<1>0. Types /\ Polled(State)
  BY DEF IInv
<1>. DEFINE S == State
<1>b. /\ S \in States /\ S.hist = hist /\ S.view = view /\ S.map = nodesMap /\ S.list = list
      /\ hist \in Histories /\ view \in Views /\ nodesMap \in Maps(Kept) /\ list \in ListData
      /\ Len(hist) \in Nat \ {0} /\ MaxHistory \in Nat /\ Len(hist) <= MaxHistory
      /\ (Calm => session' \in BOOLEAN /\ forceFail' \in BOOLEAN /\ faults' \in 0..MaxFaults)
      /\ (Fault => faults' \in 0..MaxFaults)
  BY <1>0, Bounds
<1>t. session \in BOOLEAN /\ forceFail \in BOOLEAN /\ faults \in 0..MaxFaults
  BY <1>0 DEF Types
<1>p. "list" \in Pages /\ "login" \in Pages
  BY DEF Pages
<1>. HIDE DEF S
<1>1. CASE Back
  <2>1. Len(hist) > 1 /\ Calm
    BY <1>1 DEF Back
  <2>. DEFINE h == Append(Front(Front(hist)), Cur)
              u == [Leave(S) EXCEPT !.hist = h]
  <2>2. Front(hist) \in Histories /\ Len(Front(hist)) = Len(hist) - 1 /\ Cur \in Entries
    <3>1. Front(hist) \in Seq(Entries) /\ Len(Front(hist)) = Len(hist) - 1 /\ Cur \in Entries
      BY <1>b, HistoryFacts DEF Cur
    <3>2. Front(hist) # <<>>
      BY <1>b, <2>1, <3>1
    <3>. QED
      BY <3>1, <3>2 DEF Histories
  <2>3. h \in Histories /\ Len(h) = Len(hist) - 1
    <3>1. Front(Front(hist)) \in Seq(Entries) /\ Len(Front(Front(hist))) = Len(hist) - 1 - 1
      BY <2>2, HistoryFacts
    <3>2. h \in Histories /\ Len(h) = Len(Front(Front(hist))) + 1
      BY <2>2, <3>1, Appended
    <3>. QED
      BY <1>b, <3>1, <3>2
  <2>4. [Leave(S) EXCEPT !.hist = Append(Front(Front(@)), Cur)] = u
    <3>1. Leave(S).hist = hist
      BY <1>b, LeaveFacts
    <3>. QED
      BY <3>1
  <2>5. u \in States /\ u.hist = h
    <3>. HIDE DEF h
    <3>. QED
      BY <1>b, <2>3, LeaveFacts DEF States, StatesOf
  <2>. HIDE DEF u, h
  <2>6. Put(Pop(S)) \/ Put(ToLogin(u))
    <3>1. \/ Put(Pop(S))
          \/ Put(ToLogin([Leave(S) EXCEPT !.hist = Append(Front(Front(@)), Cur)]))
      BY <1>1 DEF Back, S
    <3>. QED
      BY <2>4, <3>1
  <2>7. Pop(S) \in States /\ Polled(Pop(S)) /\ Len(Pop(S).hist) = Len(hist) - 1
    BY <1>b, <2>1, PopFacts
  <2>8. ToLogin(u) \in States /\ Polled(ToLogin(u)) /\ Len(ToLogin(u).hist) = Len(hist) - 1
    BY <2>3, <2>5, ToLoginFacts
  <2>9. Len(hist) - 1 <= MaxHistory
    BY <1>b
  <2>. QED
    BY <1>b, <2>1, <2>6, <2>7, <2>8, <2>9, PutFacts
<1>2. CASE Reload
  <2>. DEFINE u == [hist |-> hist, view |-> NewView, map |-> <<>>, list |-> NewListData]
  <2>1. NewView \in Views /\ NewListData \in ListData
    BY DEF NewView, Views, NewListData, ListData, Loops, Kept
  <2>2. <<>> \in Maps(Kept)
    <3>1. <<>> \in [{} -> NodeData(Kept)]
      OBVIOUS
    <3>. QED
      BY <3>1, MapMade
  <2>3. u \in States /\ u.hist = hist
    BY <1>b, <2>1, <2>2 DEF States, StatesOf
  <2>4. Put(Enter(u)) /\ Fault /\ session' = session /\ forceFail' = FALSE
    BY <1>2 DEF Reload
  <2>. HIDE DEF u
  <2>5. Enter(u) \in States /\ Polled(Enter(u)) /\ Len(Enter(u).hist) = Len(hist)
    BY <2>3, EnterFacts
  <2>. QED
    BY <1>b, <1>t, <2>4, <2>5, PutFacts
<1>3. CASE Login
  <2>1. Put(Replace(S, "list")) /\ session' = TRUE /\ forceFail' = FALSE /\ faults' = faults
    BY <1>3 DEF Login, S
  <2>2. Replace(S, "list") \in States /\ Polled(Replace(S, "list")) /\ Len(Replace(S, "list").hist) = Len(hist)
    BY <1>b, <1>p, PushFacts
  <2>. QED
    BY <1>b, <1>t, <2>1, <2>2, PutFacts
<1>4. CASE Logout
  <2>1. Put(Push(S, "login")) /\ session' = FALSE /\ forceFail' = TRUE /\ faults' = faults /\ Len(hist) < MaxHistory
    BY <1>4 DEF Logout, S
  <2>2. Push(S, "login") \in States /\ Polled(Push(S, "login")) /\ Len(Push(S, "login").hist) = Len(hist) + 1
    BY <1>b, <1>p, PushFacts
  <2>3. Len(hist) + 1 <= MaxHistory
    BY <1>b, <2>1
  <2>. QED
    BY <1>b, <1>t, <2>1, <2>2, <2>3, PutFacts
<1>5. CASE ForceDataRefresh
  <2>. DEFINE d == [nodesMap[Page] EXCEPT !.loop = "wait"]
              m == IF Page \in DOMAIN nodesMap THEN [nodesMap EXCEPT ![Page] = d] ELSE nodesMap
              l == IF Page = "list" THEN [list EXCEPT !.loop = "wait"] ELSE list
              u == [S EXCEPT !.map = m, !.list = l]
  <2>1. /\ nodesMap' = m /\ list' = l /\ hist' = hist /\ view' = view /\ session' = session
        /\ forceFail' = forceFail /\ Fault
    BY <1>5 DEF ForceDataRefresh
  <2>2. l \in ListData /\ (l = list \/ l.loop \in {"wait", "asked"})
    BY <1>b DEF ListData, Loops
  <2>3. /\ m \in Maps(Kept) /\ DOMAIN m = DOMAIN nodesMap
        /\ \A k \in DOMAIN nodesMap : m[k].stopped = nodesMap[k].stopped
    <3>1. CASE Page \in DOMAIN nodesMap
      <4>1. nodesMap[Page] \in NodeData(Kept)
        BY <1>b, <3>1, MapFacts
      <4>2. d \in NodeData(Kept) /\ d.stopped = nodesMap[Page].stopped
        BY <4>1 DEF NodeData, Loops
      <4>. HIDE DEF d
      <4>3. LET n == [nodesMap EXCEPT ![Page] = d]
            IN  /\ n \in Maps(Kept) /\ DOMAIN n = DOMAIN nodesMap
                /\ Page \in DOMAIN nodesMap => n[Page] = d
                /\ \A j \in DOMAIN nodesMap : j # Page => n[j] = nodesMap[j]
        BY <1>b, <4>2, MapChanged
      <4>. QED
        BY <3>1, <4>2, <4>3
    <3>2. CASE Page \notin DOMAIN nodesMap
      BY <1>b, <3>2
    <3>. QED
      BY <3>1, <3>2
  <2>. HIDE DEF l, m
  <2>4. u \in States /\ u.map = m /\ u.list = l /\ u.hist = hist /\ u.view = view
    BY <1>b, <2>2, <2>3 DEF States, StatesOf
  <2>. HIDE DEF u
  <2>5. Polled(u)
    <3>1. PageOf(S) = PageOf(u) /\ Polled(S)
      BY <1>0, <1>b, <2>4 DEF PageOf, S
    <3>2. PageOf(S) = "list" => u.list.loop \in {"wait", "asked"}
      BY <1>b, <2>2, <2>4, <3>1 DEF Polled
    <3>. QED
      BY <1>b, <2>3, <2>4, <3>1, <3>2, PolledKept
  <2>6. Put(u)
    BY <2>1, <2>4 DEF Put
  <2>. QED
    BY <1>b, <1>t, <2>1, <2>4, <2>5, <2>6, PutFacts
<1>6. CASE SetRefreshTime
  <2>. DEFINE m == [k \in DOMAIN nodesMap |-> [nodesMap[k] EXCEPT !.loop = "wait"]]
              l == [list EXCEPT !.loop = "wait"]
              u == [S EXCEPT !.map = m, !.list = l]
  <2>1. /\ nodesMap' = m /\ list' = l /\ hist' = hist /\ view' = view /\ session' = session
        /\ forceFail' = forceFail /\ Fault
    BY <1>6 DEF SetRefreshTime
  <2>2. l \in ListData /\ l.loop = "wait"
    BY <1>b DEF ListData, Loops
  <2>3. /\ m \in Maps(Kept) /\ DOMAIN m = DOMAIN nodesMap
        /\ \A k \in DOMAIN nodesMap : m[k].stopped = nodesMap[k].stopped
    <3>1. DOMAIN nodesMap \in SUBSET Nodes /\ \A k \in DOMAIN nodesMap : nodesMap[k] \in NodeData(Kept)
      BY <1>b, MapFacts
    <3>2. \A k \in DOMAIN nodesMap : m[k] \in NodeData(Kept) /\ m[k].stopped = nodesMap[k].stopped
      BY <3>1 DEF NodeData, Loops
    <3>3. m \in [DOMAIN nodesMap -> NodeData(Kept)]
      BY <3>2
    <3>. HIDE DEF m
    <3>. QED
      BY <3>1, <3>2, <3>3, MapMade
  <2>. HIDE DEF l, m
  <2>4. u \in States /\ u.map = m /\ u.list = l /\ u.hist = hist /\ u.view = view
    BY <1>b, <2>2, <2>3 DEF States, StatesOf
  <2>. HIDE DEF u
  <2>5. Polled(u)
    <3>1. PageOf(S) = PageOf(u) /\ Polled(S)
      BY <1>0, <1>b, <2>4 DEF PageOf, S
    <3>. QED
      BY <1>b, <2>2, <2>3, <2>4, <3>1, PolledKept
  <2>6. Put(u)
    BY <2>1, <2>4 DEF Put
  <2>. QED
    BY <1>b, <1>t, <2>1, <2>4, <2>5, <2>6, PutFacts
<1>7. ASSUME NEW p \in Pages, Navigate(p)
      PROVE  IInv'
  <2>1. (Put(ToLogin(S)) \/ Put(Push(S, p))) /\ Calm /\ Len(hist) < MaxHistory
    BY <1>7 DEF Navigate, S
  <2>2. ToLogin(S) \in States /\ Polled(ToLogin(S)) /\ Len(ToLogin(S).hist) = Len(hist)
    BY <1>b, ToLoginFacts
  <2>3. Push(S, p) \in States /\ Polled(Push(S, p)) /\ Len(Push(S, p).hist) = Len(hist) + 1
    BY <1>b, PushFacts
  <2>4. Len(hist) + 1 <= MaxHistory
    BY <1>b, <2>1
  <2>. QED
    BY <1>b, <2>1, <2>2, <2>3, <2>4, PutFacts
<1>. QED
  BY <1>1, <1>2, <1>3, <1>4, <1>5, <1>6, <1>7 DEF User

\* The polling, the session and the checks of it: what is on screen stays
\* polled, and a visor that is not known is told to the page before its entry
\* goes.
LEMMA PollKeeps ==
  ASSUME IInv, PollList \/ Checks \/ Faults \/ \E k \in Nodes : PollNode(k) \/ Expire(k)
  PROVE  IInv'
<1>0. Types /\ Polled(State)
  BY DEF IInv
<1>. DEFINE S == State
<1>b. /\ S \in States /\ S.hist = hist /\ S.view = view /\ S.map = nodesMap /\ S.list = list
      /\ hist \in Histories /\ view \in Views /\ nodesMap \in Maps(Kept) /\ list \in ListData
      /\ Len(hist) \in Nat \ {0} /\ MaxHistory \in Nat /\ Len(hist) <= MaxHistory
      /\ (Calm => session' \in BOOLEAN /\ forceFail' \in BOOLEAN /\ faults' \in 0..MaxFaults)
      /\ (Fault => faults' \in 0..MaxFaults)
  BY <1>0, Bounds
<1>t. session \in BOOLEAN /\ forceFail \in BOOLEAN /\ faults \in 0..MaxFaults
  BY <1>0 DEF Types
<1>p. "list" \in Pages /\ "data" \in Kept /\ "nothing" \in Kept
  BY DEF Pages, Kept
<1>s. Polled(S)
  BY <1>0
<1>n. PageOf(S) = Page
  BY <1>b DEF PageOf, Page, Cur
<1>. HIDE DEF S
<1>m. ASSUME NEW k \in DOMAIN nodesMap, NEW is \in Kept, NEW loop \in Loops
      PROVE  LET t == EmitNode(S, k, is, loop)
             IN  t \in States /\ Polled(t) /\ Len(t.hist) <= MaxHistory
  <2>1. is \in Emissions
    BY DEF Kept, Emissions
  <2>2. LET t == EmitNode(S, k, is, loop)
        IN  t \in States /\ Polled(t) /\ Len(t.hist) = Len(hist)
    BY <1>b, <1>s, <2>1, EmitNodeFacts
  <2>. QED
    BY <1>b, <2>2
<1>l. ASSUME NEW is \in Kept, NEW loop \in {"wait", "asked"}
      PROVE  LET t == EmitList(S, is, loop)
             IN  t \in States /\ Polled(t) /\ Len(t.hist) <= MaxHistory
  <2>1. LET t == EmitList(S, is, loop)
        IN  t \in States /\ Polled(t) /\ Len(t.hist) = Len(hist)
    BY <1>b, <1>s, EmitListFacts
  <2>. QED
    BY <1>b, <2>1
<1>d. ASSUME NEW t \in States, Len(t.hist) <= MaxHistory
      PROVE  Denied(t) \in States /\ Polled(Denied(t)) /\ Len(Denied(t).hist) <= MaxHistory
  BY <1>d, ToLoginFacts DEF Denied
<1>o. "wait" \in Loops /\ "asked" \in Loops
  BY DEF Loops
<1>1. CASE AskList
  <2>1. Put(EmitList(S, "nothing", "asked")) /\ Calm
    BY <1>1 DEF AskList, S
  <2>. QED
    BY <1>b, <1>l, <1>p, <2>1, PutFacts
<1>2. CASE ListAnswered
  <2>1. Put(EmitList(S, "data", "wait")) /\ Calm
    BY <1>2 DEF ListAnswered, S
  <2>. QED
    BY <1>b, <1>l, <1>p, <2>1, PutFacts
<1>3. CASE ListDenied
  <2>1. Put(Denied(EmitList(S, "nothing", "wait"))) /\ Calm
    BY <1>3 DEF ListDenied, S
  <2>. QED
    BY <1>b, <1>l, <1>d, <1>p, <2>1, PutFacts
<1>4. CASE ListFailed
  <2>1. Put(EmitList(S, "nothing", "wait")) /\ Fault /\ session' = session /\ forceFail' = forceFail
    BY <1>4 DEF ListFailed, S
  <2>. QED
    BY <1>b, <1>t, <1>l, <1>p, <2>1, PutFacts
<1>5. CASE SessionChanges
  <2>1. Fault /\ session' = ~session /\ forceFail' = forceFail
    BY <1>5 DEF SessionChanges
  <2>2. session' \in BOOLEAN
    BY <1>t, <2>1
  <2>3. Put(S)
    BY <1>5, <1>b DEF SessionChanges, Put
  <2>. QED
    BY <1>b, <1>s, <1>t, <2>1, <2>2, <2>3, PutFacts
<1>6. ASSUME NEW k \in Nodes, NodeFailed(k)
      PROVE  IInv'
  <2>1. /\ Put(EmitNode(S, k, "nothing", "wait")) /\ Fault /\ session' = session /\ forceFail' = forceFail
        /\ k \in DOMAIN nodesMap
    BY <1>6 DEF NodeFailed, Asked, S
  <2>. QED
    BY <1>b, <1>t, <1>m, <1>p, <1>o, <2>1, PutFacts
<1>7. CASE CheckLogin
  <2>1. (Put(S) \/ Put(Replace(S, "list"))) /\ Calm
    BY <1>7 DEF CheckLogin, S
  <2>2. Replace(S, "list") \in States /\ Polled(Replace(S, "list")) /\ Len(Replace(S, "list").hist) = Len(hist)
    BY <1>b, <1>p, PushFacts
  <2>. QED
    BY <1>b, <1>s, <2>1, <2>2, PutFacts
<1>8. CASE CheckLoginFails
  <2>1. forceFail' = TRUE /\ session' = session /\ faults' = faults
    BY <1>8 DEF CheckLoginFails
  <2>2. Put(S)
    BY <1>8, <1>b DEF CheckLoginFails, Put
  <2>. QED
    BY <1>b, <1>s, <1>t, <2>1, <2>2, PutFacts
<1>9. ASSUME NEW k \in Nodes, AskNode(k)
      PROVE  IInv'
  <2>1. Put(EmitNode(S, k, "nothing", "asked")) /\ Calm /\ k \in DOMAIN nodesMap
    BY <1>9 DEF AskNode, S
  <2>. QED
    BY <1>b, <1>m, <1>p, <1>o, <2>1, PutFacts
<1>10. ASSUME NEW k \in Nodes, NodeAnswered(k)
       PROVE  IInv'
  <2>1. Put(EmitNode(S, k, "data", "wait")) /\ Calm /\ k \in DOMAIN nodesMap
    BY <1>10 DEF NodeAnswered, Asked, S
  <2>. QED
    BY <1>b, <1>m, <1>p, <1>o, <2>1, PutFacts
<1>11. ASSUME NEW k \in Nodes, NodeDenied(k)
       PROVE  IInv'
  <2>1. Put(Denied(EmitNode(S, k, "nothing", "wait"))) /\ Calm /\ k \in DOMAIN nodesMap
    BY <1>11 DEF NodeDenied, Asked, S
  <2>. QED
    BY <1>b, <1>m, <1>d, <1>p, <1>o, <2>1, PutFacts
<1>12. ASSUME NEW k \in Nodes, NodeNotFound(k)
       PROVE  IInv'
  <2>. DEFINE t == EmitNode(S, k, "notfound", "asked")
              m == Forget(t.map, k)
              v == [t.view EXCEPT !.live = @ /\ Last(t.hist).page # k]
              u == [t EXCEPT !.map = m, !.view = v]
  <2>1. k \in DOMAIN nodesMap /\ Calm
    BY <1>12 DEF NodeNotFound, Asked
  <2>2. "notfound" \in Emissions
    BY DEF Emissions
  <2>3. /\ t \in StatesOf(Emissions) /\ t.list = list /\ t.view.live = view.live
        /\ PageOf(t) = Page /\ Len(t.hist) = Len(hist)
        /\ DOMAIN t.map = DOMAIN nodesMap
        /\ \A j \in DOMAIN nodesMap : t.map[j].stopped = nodesMap[j].stopped
        /\ \A j \in DOMAIN nodesMap \ {k} : t.map[j].last \in Kept
        /\ view.notFound => t.view.notFound
        /\ k = Page /\ view.live => t.view.notFound
        /\ Polled(t)
    BY <1>b, <1>s, <1>n, <1>o, <2>1, <2>2, EmitNodeFacts
  <2>4. t.hist \in Histories /\ t.view \in Views /\ t.map \in Maps(Emissions) /\ t.list \in ListData
    BY <2>3, StateFacts
  <2>5. Put(u)
    <3>1. Put([t EXCEPT !.map = Forget(@, k), !.view.live = @ /\ Last(t.hist).page # k])
      BY <1>12 DEF NodeNotFound, S
    <3>. HIDE DEF t
    <3>2. [t EXCEPT !.map = Forget(@, k), !.view.live = @ /\ Last(t.hist).page # k] = u
      BY <2>3 DEF StatesOf
    <3>. HIDE DEF u
    <3>. QED
      BY <3>1, <3>2
  <2>. HIDE DEF t
  <2>6. /\ m \in Maps(Kept) /\ DOMAIN m = DOMAIN nodesMap \ {k}
        /\ \A j \in DOMAIN nodesMap \ {k} : m[j] = t.map[j]
    BY <2>3, <2>4, ForgetFacts
  <2>7. v \in Views /\ v.notFound = t.view.notFound /\ (Page # k => v.live = t.view.live)
    BY <2>3, <2>4 DEF Views, PageOf
  <2>. HIDE DEF m, v
  <2>8. u \in States /\ u.hist = t.hist /\ u.map = m /\ u.view = v /\ u.list = t.list
    BY <2>3, <2>4, <2>6, <2>7 DEF States, StatesOf
  <2>. HIDE DEF u
  <2>9. PageOf(u) = Page
    BY <2>3, <2>8 DEF PageOf
  <2>10. CASE Page = k
    <3>1. v.notFound
      BY <1>s, <1>n, <1>b, <2>3, <2>7, <2>10 DEF Polled
    <3>2. Page # "list"
      BY <2>10, PageNames
    <3>3. Polled(u)
      BY <2>8, <2>9, <3>1, <3>2 DEF Polled
    <3>. QED
      BY <1>b, <2>1, <2>3, <2>5, <2>8, <3>3, PutFacts
  <2>11. CASE Page # k
    <3>1. Polled(u)
      BY <2>3, <2>6, <2>7, <2>8, <2>9, <2>11 DEF Polled
    <3>. QED
      BY <1>b, <2>1, <2>3, <2>5, <2>8, <3>1, PutFacts
  <2>. QED
    BY <2>10, <2>11
<1>13. ASSUME NEW k \in Nodes, Expire(k)
       PROVE  IInv'
  <2>. DEFINE m == Forget(nodesMap, k)
              u == [S EXCEPT !.map = m]
  <2>1. k \in DOMAIN nodesMap /\ nodesMap[k].stopped /\ nodesMap' = m /\ Calm
        /\ hist' = hist /\ view' = view /\ list' = list
    BY <1>13 DEF Expire
  <2>2. \A j \in DOMAIN nodesMap \ {k} : nodesMap[j].last \in Kept
    <3>1. \A j \in DOMAIN nodesMap : nodesMap[j] \in NodeData(Kept)
      BY <1>b, MapFacts
    <3>. QED
      BY <3>1 DEF NodeData
  <2>3. /\ m \in Maps(Kept) /\ DOMAIN m = DOMAIN nodesMap \ {k}
        /\ \A j \in DOMAIN nodesMap \ {k} : m[j] = nodesMap[j]
    <3>1. nodesMap \in Maps(Emissions)
      <4>1. NodeData(Kept) \subseteq NodeData(Emissions)
        BY DEF NodeData, Kept, Emissions
      <4>. QED
        BY <1>b, <4>1 DEF Maps
    <3>. QED
      BY <2>2, <3>1, ForgetFacts
  <2>. HIDE DEF m
  <2>4. u \in States /\ u.hist = hist /\ u.map = m /\ u.view = view /\ u.list = list
    BY <1>b, <2>3 DEF States, StatesOf
  <2>. HIDE DEF u
  <2>5. PageOf(u) = Page
    BY <1>n, <1>b, <2>4 DEF PageOf
  <2>6. Polled(u)
    BY <1>s, <1>n, <1>b, <2>1, <2>3, <2>4, <2>5 DEF Polled
  <2>7. Put(u)
    BY <2>1, <2>4 DEF Put
  <2>. QED
    BY <1>b, <2>1, <2>4, <2>6, <2>7, PutFacts
<1>. QED
  BY <1>1, <1>2, <1>3, <1>4, <1>5, <1>6, <1>7, <1>8, <1>9, <1>10, <1>11, <1>12, <1>13
  DEF PollList, Checks, Faults, PollNode

\* Every step keeps the invariant.
LEMMA NextIInv == IInv /\ [Next]_vars => IInv'
<1>1. ASSUME IInv, UNCHANGED vars
      PROVE  IInv'
  BY <1>1 DEF vars, IInv, Types, Polled, PageOf, State
<1>. QED
  BY <1>1, UserKeeps, PollKeeps DEF Next

\* The pages, the history, the two services and the session keep their types.
THEOREM TypeCorrect == Spec => []TypeOK
<1>1. IInv => TypeOK
  <2>. SUFFICES ASSUME IInv PROVE TypeOK
    OBVIOUS
  <2>1. Types
    BY DEF IInv
  <2>2. /\ hist \in Histories /\ view \in Views /\ nodesMap \in Maps(Kept) /\ list \in ListData
        /\ Len(hist) \in Nat \ {0} /\ MaxHistory \in Nat /\ Len(hist) <= MaxHistory
    BY <2>1, Bounds
  <2>3. Len(hist) \in 1..MaxHistory
    BY <2>2
  <2>4. \A i \in 1..Len(hist) : hist[i] \in Entries
    BY <2>2 DEF Histories
  <2>5. DOMAIN nodesMap \subseteq Nodes /\ \A k \in DOMAIN nodesMap : nodesMap[k] \in NodeData(Kept)
    BY <2>2, MapFacts
  <2>6. session \in BOOLEAN /\ forceFail \in BOOLEAN /\ faults \in 0..MaxFaults
    BY <2>1 DEF Types
  <2>. QED
    BY <2>2, <2>3, <2>4, <2>5, <2>6 DEF TypeOK, Entries, Views, NodeData, ListData, Loops, Kept
<1>. QED
  BY <1>1, InitIInv, NextIInv, PTL DEF Spec

\* The data behind the page on screen are polled, however pages are left and
\* come back from the history, sessions are lost and requests fail
\* (startRequestingData, stopRequestingSpecificNode, finishIfExpired).
THEOREM ShownPolled == Spec => []ShownIsPolled
<1>1. IInv => ShownIsPolled
  <2>. SUFFICES ASSUME IInv PROVE ShownIsPolled
    OBVIOUS
  <2>1. Polled(State) /\ PageOf(State) = Page /\ State.view = view /\ State.map = nodesMap /\ State.list = list
    BY DEF IInv, PageOf, Page, Cur, State
  <2>. QED
    BY <2>1 DEF Polled, ShownIsPolled
<1>. QED
  BY <1>1, InitIInv, NextIInv, PTL DEF Spec
=============================================================================
