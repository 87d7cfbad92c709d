-------------------------- MODULE VpnManagerProofs --------------------------
(***************************************************************************)
(* Proofs about the services behind the pages of the VPN, for any tabs,    *)
(* servers, data of an earlier session, retries and disturbances: the      *)
(* saved data first, then the service that drives the app of the visor.    *)
(***************************************************************************)
EXTENDS VpnManager, TLAPS

-----------------------------------------------------------------------------
(* The saved data: the inductive invariant *)

Copy == [version : 0..MaxVersion, servers : Saved!ServerMaps, selected : Servers \union {None},
         page : {"vpn", "error", "closed"}]
Stores == [version : 0..MaxVersion, servers : Saved!ServerMaps, selected : Servers \union {None}]

\* The data of an earlier session was written by saveData, or there is none.
Given ==
    /\ None \notin Servers /\ VisorPks \subseteq Servers \union {None} /\ MaxVersion \in Nat
    /\ InitialStore \in Stores
    /\ InitialStore.selected \in DOMAIN InitialStore.servers \union {None}
    /\ InitialStore.version = 0 => InitialStore.servers = <<>> /\ InitialStore.selected = None

\* A dialog, a form or a request is about a server.
HeldKnown == \A t \in Tabs : held[t].why # "none" => held[t].pk \in Servers /\ held[t].server \in Saved!LocalServer

\* The versions of the copies never run ahead, and tell a list from another one.
Copies ==
    /\ store.version = 0 => store.servers = <<>> /\ store.selected = None
    /\ \A t \in Tabs :
          /\ tab[t].version <= store.version
          /\ Saved!Working(t) /\ tab[t].version = store.version => tab[t].servers = store.servers

StoreInv == Saved!TypeOK /\ HeldKnown /\ Copies /\ Saved!NoSaveRefused

\* As long as the visor has a server: once a server is selected, one stays so.
Selection ==
    /\ Saved!SelectedIsSaved
    /\ \A t \in Tabs :
          /\ tab[t].selected # None => store.selected # None
          /\ Saved!Working(t) /\ tab[t].version = store.version => tab[t].selected = store.selected

-----------------------------------------------------------------------------
(* What a step does to the storage and to the copy of its tab *)

\* The flag and the personal data of pk in a list, and who may take them away.
KeepsData(t, pk, before, after) ==
    /\ \/ Saved!Answered(t, pk)
       \/ Saved!FlagOf(before, pk) \in {"None", Saved!FlagOf(after, pk)}
    /\ \/ Saved!Answered(t, pk)
       \/ Saved!AddedBare(t, pk)
       \/ Saved!HasPersonal(before, pk) => Saved!HasPersonal(after, pk)

\* The tab has read the storage and saved nothing.
Reads(t, d) ==
    /\ d.page = "vpn" /\ d.version = store.version /\ d.servers = store.servers
    /\ UNCHANGED store /\ tab' = [tab EXCEPT ![t] = d]
    /\ None \notin VisorPks /\ Selection => d.selected = store.selected

\* The tab has read the storage and saves d.
Saves(t, d) ==
    /\ d.page = "vpn" /\ d.version = store.version
    /\ Saved!SaveData(t, d)
    /\ None \notin VisorPks /\ Selection =>
          /\ d.selected \in DOMAIN d.servers \union {None}
          /\ store.selected # None => d.selected # None
    /\ \A pk \in Servers : KeepsData(t, pk, store.servers, d.servers)

Effect(t) ==
    \/ UNCHANGED <<store, tab>>
    \/ UNCHANGED store /\ tab' = [tab EXCEPT ![t] = Saved!Closed]
    \/ \E d \in Copy : Reads(t, d) \/ Saves(t, d)

-----------------------------------------------------------------------------
(* Lists of servers *)

\* A list of servers maps public keys to servers.
LEMMA MapType ==
    ASSUME NEW m \in Saved!ServerMaps
    PROVE  DOMAIN m \in SUBSET Servers /\ m \in [DOMAIN m -> Saved!LocalServer]
BY DEF Saved!ServerMaps

\* The list of a service that found nothing saved.
LEMMA EmptyMap == <<>> \in Saved!ServerMaps /\ DOMAIN <<>> = {}
<1>1. <<>> \in [{} -> Saved!LocalServer]
  OBVIOUS
<1>. QED
  BY <1>1 DEF Saved!ServerMaps

\* serversMap.set
LEMMA PutType ==
    ASSUME NEW m \in Saved!ServerMaps, NEW pk \in Servers, NEW s \in Saved!LocalServer
    PROVE  /\ Saved!Put(m, pk, s) \in Saved!ServerMaps /\ DOMAIN Saved!Put(m, pk, s) = DOMAIN m \union {pk}
           /\ Saved!Put(m, pk, s)[pk] = s
           /\ \A p \in DOMAIN m : p # pk => Saved!Put(m, pk, s)[p] = m[p]
<1>1. Saved!Put(m, pk, s) \in [DOMAIN m \union {pk} -> Saved!LocalServer]
  BY MapType DEF Saved!Put
<1>2. DOMAIN m \union {pk} \in SUBSET Servers
  BY MapType
<1>. QED
  BY <1>1, <1>2 DEF Saved!ServerMaps, Saved!Put

\* cleanServers takes away no flag, no personal data and not the selected server.
LEMMA CleanKeeps ==
    ASSUME NEW c \in Copy
    PROVE  LET d == Saved!CleanServers(c) IN
           /\ d \in Copy /\ d.version = c.version /\ d.page = c.page /\ d.selected = c.selected
           /\ c.selected \in DOMAIN c.servers => d.selected \in DOMAIN d.servers
           /\ \A pk \in Servers : /\ Saved!FlagOf(d.servers, pk) = Saved!FlagOf(c.servers, pk)
                                  /\ Saved!HasPersonal(d.servers, pk) <=> Saved!HasPersonal(c.servers, pk)
<1>. DEFINE S == {pk \in DOMAIN c.servers : Saved!Needed(c, pk)}
            m == Saved!Restrict(c.servers, S)
<1>1. /\ c.servers \in Saved!ServerMaps /\ Saved!CleanServers(c) = [c EXCEPT !.servers = m]
      /\ DOMAIN m = S /\ \A pk \in S : m[pk] = c.servers[pk]
  BY DEF Copy, Saved!CleanServers, Saved!Restrict
<1>2. m \in Saved!ServerMaps
  <2>1. m \in [S -> Saved!LocalServer] /\ S \in SUBSET Servers
    BY <1>1, MapType DEF Saved!Restrict
  <2>. QED
    BY <2>1 DEF Saved!ServerMaps
<1>. HIDE DEF m
<1>3. \A pk \in DOMAIN c.servers :
        pk = c.selected \/ c.servers[pk].flag # "None" \/ c.servers[pk].personal => pk \in S
  BY DEF Saved!Needed
<1>4. \A pk \in Servers : /\ Saved!FlagOf(m, pk) = Saved!FlagOf(c.servers, pk)
                          /\ Saved!HasPersonal(m, pk) <=> Saved!HasPersonal(c.servers, pk)
  BY <1>1, <1>3 DEF Saved!FlagOf, Saved!HasPersonal
<1>5. /\ Saved!CleanServers(c) \in Copy /\ Saved!CleanServers(c).servers = m
      /\ Saved!CleanServers(c).version = c.version /\ Saved!CleanServers(c).page = c.page
      /\ Saved!CleanServers(c).selected = c.selected
  BY <1>1, <1>2 DEF Copy
<1>6. c.selected \in DOMAIN c.servers => c.selected \in DOMAIN m
  BY <1>1, <1>3
<1>. QED
  BY <1>4, <1>5, <1>6

\* A list with a server put in it has the other servers as before.
LEMMA PutOther ==
    ASSUME NEW l \in Saved!ServerMaps, NEW pk \in Servers, NEW s \in Saved!LocalServer
    PROVE  /\ DOMAIN Saved!Put(l, pk, s) = DOMAIN l \union {pk}
           /\ \A p \in Servers \ {pk} : Saved!FlagOf(Saved!Put(l, pk, s), p) = Saved!FlagOf(l, p)
           /\ \A p \in Servers \ {pk} : Saved!HasPersonal(Saved!Put(l, pk, s), p) <=> Saved!HasPersonal(l, p)
<1>1. PICK m : m = Saved!Put(l, pk, s)
  OBVIOUS
<1>2. DOMAIN m = DOMAIN l \union {pk}
  BY <1>1, PutType
<1>3. \A p \in DOMAIN l : p # pk => m[p] = l[p]
  BY <1>1, PutType
<1>. QED
  BY <1>1, <1>2, <1>3 DEF Saved!FlagOf, Saved!HasPersonal

\* The copy c with server s in its list.
WithServer(c, pk, s) == [c EXCEPT !.servers = Saved!Put(@, pk, s)]

\* The copies e and c differ in the server pk at most, and in the selection.
OnlyChanges(e, c, pk) ==
    /\ e.page = c.page /\ e.version = c.version
    /\ \A p \in Servers \ {pk} : /\ Saved!FlagOf(e.servers, p) = Saved!FlagOf(c.servers, p)
                                 /\ Saved!HasPersonal(e.servers, p) <=> Saved!HasPersonal(c.servers, p)

\* Putting a server in the list of a copy leaves everything else.
LEMMA PutCopy ==
    ASSUME NEW c \in Copy, NEW pk \in Servers, NEW s \in Saved!LocalServer, NEW e, e = WithServer(c, pk, s)
    PROVE  /\ e \in Copy /\ e.selected = c.selected
           /\ DOMAIN e.servers = DOMAIN c.servers \union {pk}
           /\ OnlyChanges(e, c, pk)
<1>1. PICK l \in Saved!ServerMaps : l = c.servers
  BY DEF Copy
<1>2. PICK m : m = Saved!Put(l, pk, s)
  OBVIOUS
<1>3. m \in Saved!ServerMaps
  BY <1>2, PutType
<1>4. DOMAIN m = DOMAIN l \union {pk}
  BY <1>2, PutOther
<1>5. \A p \in Servers \ {pk} : Saved!FlagOf(m, p) = Saved!FlagOf(l, p)
  BY <1>2, PutOther
<1>6. \A p \in Servers \ {pk} : Saved!HasPersonal(m, p) <=> Saved!HasPersonal(l, p)
  BY <1>2, PutOther
<1>7. /\ e \in Copy /\ e.page = c.page /\ e.version = c.version /\ e.selected = c.selected
      /\ e.servers = m
  BY <1>1, <1>2, <1>3 DEF Copy, WithServer
<1>. QED
  BY <1>1, <1>4, <1>5, <1>6, <1>7 DEF OnlyChanges

\* A form that names a saved server changes its personal data alone.
LEMMA FormCopy ==
    ASSUME NEW c \in Copy, NEW pk \in DOMAIN c.servers, NEW form \in Saved!LocalServer,
           NEW e, e = Saved!ProcessFromManual(c, pk, form)
    PROVE  /\ e \in Copy /\ e.selected = c.selected /\ DOMAIN e.servers = DOMAIN c.servers
           /\ OnlyChanges(e, c, pk)
           /\ Saved!FlagOf(e.servers, pk) = Saved!FlagOf(c.servers, pk)
           /\ Saved!HasPersonal(e.servers, pk) <=> form.personal
<1>1. c.servers \in [DOMAIN c.servers -> Saved!LocalServer] /\ DOMAIN c.servers \in SUBSET Servers
  BY MapType DEF Copy
<1>2. PICK m : m = [c.servers EXCEPT ![pk].personal = form.personal]
  OBVIOUS
<1>3. /\ m \in [DOMAIN c.servers -> Saved!LocalServer]
      /\ m[pk].flag = c.servers[pk].flag /\ m[pk].personal = form.personal
      /\ \A p \in DOMAIN c.servers \ {pk} : m[p] = c.servers[p]
  BY <1>1, <1>2 DEF Saved!LocalServer
<1>4. m \in Saved!ServerMaps /\ DOMAIN m = DOMAIN c.servers
  BY <1>1, <1>3 DEF Saved!ServerMaps
<1>5. e = [c EXCEPT !.servers = m]
  BY <1>2 DEF Saved!ProcessFromManual, Copy
<1>6. /\ e \in Copy /\ e.page = c.page /\ e.version = c.version /\ e.selected = c.selected
      /\ e.servers = m
  BY <1>4, <1>5 DEF Copy
<1>7. OnlyChanges(e, c, pk)
  BY <1>3, <1>4, <1>6 DEF OnlyChanges, Saved!FlagOf, Saved!HasPersonal
<1>8. /\ Saved!FlagOf(e.servers, pk) = Saved!FlagOf(c.servers, pk)
      /\ Saved!HasPersonal(e.servers, pk) <=> form.personal
  BY <1>3, <1>4, <1>6 DEF Saved!FlagOf, Saved!HasPersonal
<1>. QED
  BY <1>4, <1>6, <1>7, <1>8

\* checkIfDataWasChanged leaves a tab with the list of the storage.
LEMMA CheckReads ==
    ASSUME Given, StoreInv, NEW t \in Tabs, Saved!Working(t)
    PROVE  LET c == Saved!CheckIfDataWasChanged(tab[t]) IN
           /\ c \in Copy /\ c.page = "vpn" /\ c.version = store.version /\ c.servers = store.servers
           /\ Selection => c.selected = store.selected
<1>. DEFINE x == tab[t]
<1>1. x \in Copy /\ store \in Stores /\ x.page = "vpn" /\ x.version <= store.version
  BY DEF StoreInv, Saved!TypeOK, Copies, Copy, Stores, Saved!Working
<1>2. CASE store.version = x.version
  BY <1>1, <1>2 DEF Saved!CheckIfDataWasChanged, StoreInv, Copies, Selection, Saved!Working
<1>3. CASE store.version # x.version
  <2>1. store.version # 0
    BY <1>1, <1>3 DEF Copy, Stores
  <2>2. Saved!CheckIfDataWasChanged(x) =
          [x EXCEPT !.servers = store.servers, !.version = store.version,
                    !.selected = IF store.selected # None THEN store.selected ELSE @]
    BY <1>3, <2>1 DEF Saved!CheckIfDataWasChanged, Saved!Load
  <2>3. Selection /\ store.selected = None => x.selected = None
    BY DEF Selection
  <2>. QED
    BY <1>1, <2>2, <2>3 DEF Copy, Stores
<1>. QED
  BY <1>2, <1>3

\* A change e of the list that was read, cleaned and saved.
LEMMA CleanSave ==
    ASSUME NEW t \in Tabs, NEW e \in Copy, NEW d \in Copy, d = Saved!CleanServers(e), Saved!SaveData(t, d),
           e.page = "vpn", e.version = store.version,
           None \notin VisorPks /\ Selection =>
              /\ e.selected \in DOMAIN e.servers \union {None}
              /\ store.selected # None => e.selected # None,
           \A pk \in Servers : KeepsData(t, pk, store.servers, e.servers)
    PROVE  Saves(t, d)
<1>1. /\ d.version = e.version /\ d.page = e.page /\ d.selected = e.selected
      /\ e.selected \in DOMAIN e.servers => d.selected \in DOMAIN d.servers
      /\ \A pk \in Servers : /\ Saved!FlagOf(d.servers, pk) = Saved!FlagOf(e.servers, pk)
                             /\ Saved!HasPersonal(d.servers, pk) <=> Saved!HasPersonal(e.servers, pk)
  BY CleanKeeps
<1>2. ASSUME NEW pk \in Servers
      PROVE  KeepsData(t, pk, store.servers, d.servers)
  BY <1>1, <1>2 DEF KeepsData
<1>. QED
  BY <1>1, <1>2 DEF Saves

-----------------------------------------------------------------------------
(* The effect of each action *)

\* A tab reads the storage, and saves it again or not, with a change of one
\* server at most; the flag and the personal data of a server change only when
\* the user answered a dialog about that server, or added it again by hand.
LEMMA Effects ==
    ASSUME Given, StoreInv, NEW t \in Tabs,
           \/ Saved!OpenTab(t) \/ Saved!CloseTab(t)
           \/ \E pk \in Servers : Saved!OpenOptions(t, pk) \/ Saved!RequestServer(t, pk) \/ Saved!FillInForm(t, pk)
           \/ \E flag \in Saved!Flags : Saved!ChooseFlag(t, flag)
           \/ Saved!RemoveFromHistory(t) \/ Saved!EditValue(t) \/ Saved!Cancel(t)
           \/ Saved!ChangeServerManually(t) \/ Saved!StartSameServer(t)
           \/ Saved!ModifyCurrentServer(t) \/ Saved!RequestFails(t)
           \/ \E pk \in VisorPks : Saved!CompareCurrentServer(t, pk)
           \/ Saved!UpdateFromDiscovery(t)
    PROVE  Effect(t)
<1>0. store \in Stores /\ tab \in [Tabs -> Copy] /\ held[t].server \in Saved!LocalServer \union {None}
  BY DEF StoreInv, Saved!TypeOK, Stores, Copy
<1>1. CASE Saved!OpenTab(t)
  <2>1. PICK d : d = [Saved!Load(Saved!Closed) EXCEPT !.page = "vpn"]
    OBVIOUS
  <2>2. d \in Copy /\ d.page = "vpn" /\ d.version = store.version /\ d.servers = store.servers
        /\ d.selected = store.selected
    <3>1. CASE store.version = 0
      BY <1>0, <2>1, <3>1, EmptyMap DEF Saved!Load, Saved!Closed, Copy, Stores, StoreInv, Copies
    <3>2. CASE store.version # 0
      BY <1>0, <2>1, <3>2 DEF Saved!Load, Saved!Closed, Copy, Stores
    <3>. QED
      BY <3>1, <3>2
  <2>. QED
    BY <1>1, <2>1, <2>2 DEF Saved!OpenTab, Effect, Reads
<1>2. CASE Saved!CloseTab(t)
  BY <1>2 DEF Saved!CloseTab, Effect
<1>3. CASE Saved!Cancel(t) \/ Saved!RequestFails(t)
  BY <1>3 DEF Saved!Cancel, Saved!RequestFails, Effect
<1>4. ASSUME Saved!Working(t)
      PROVE  \E c \in Copy :
                /\ c = Saved!CheckIfDataWasChanged(tab[t]) /\ c.page = "vpn" /\ c.version = store.version
                /\ c.servers = store.servers /\ (Selection => c.selected = store.selected)
  BY <1>4, CheckReads
<1>. DEFINE Reading(c) ==
               /\ c = Saved!CheckIfDataWasChanged(tab[t]) /\ c.page = "vpn" /\ c.version = store.version
               /\ c.servers = store.servers /\ (Selection => c.selected = store.selected)
<1>5. ASSUME NEW c \in Copy, Reading(c), Saved!Keep(t, c)
      PROVE  Effect(t)
  BY <1>5 DEF Saved!Keep, Effect, Reads
<1>6. ASSUME NEW c \in Copy, Reading(c), NEW e \in Copy, NEW pk \in Servers,
             OnlyChanges(e, c, pk),
             None \notin VisorPks /\ Selection =>
                /\ e.selected \in DOMAIN e.servers \union {None}
                /\ store.selected # None => e.selected # None,
             KeepsData(t, pk, c.servers, e.servers),
             NEW d \in Copy, d = Saved!CleanServers(e), Saved!SaveData(t, d)
      PROVE  Effect(t)
  <2>1. ASSUME NEW p \in Servers
        PROVE  KeepsData(t, p, store.servers, e.servers)
    BY <1>6, <2>1 DEF OnlyChanges, KeepsData
  <2>2. Saves(t, d)
    BY <1>6, <2>1, CleanSave DEF OnlyChanges
  <2>. QED
    BY <2>2 DEF Effect
<1>7. ASSUME NEW pk \in Servers, Saved!OpenOptions(t, pk) \/ Saved!FillInForm(t, pk)
      PROVE  Effect(t)
  <2>1. PICK c \in Copy : Reading(c)
    BY <1>4, <1>7 DEF Saved!OpenOptions, Saved!FillInForm, Saved!Free
  <2>2. Saved!Keep(t, c)
    BY <1>7, <2>1 DEF Saved!OpenOptions, Saved!FillInForm, Saved!Keep
  <2>. QED
    BY <1>5, <2>1, <2>2
<1>8. Selection => store.selected \in DOMAIN store.servers \union {None}
  BY DEF Selection, Saved!SelectedIsSaved
<1>9. ASSUME NEW pk \in Servers, Saved!RequestServer(t, pk)
      PROVE  Effect(t)
  <2>1. PICK c \in Copy : Reading(c)
    BY <1>4, <1>9 DEF Saved!RequestServer, Saved!Free
  <2>2. PICK d \in Copy : d = Saved!CleanServers(c)
    BY CleanKeeps
  <2>3. Saved!Keep(t, c) \/ Saved!SaveData(t, d)
    BY <1>9, <2>1, <2>2 DEF Saved!RequestServer, Saved!Keep, Saved!SaveData
  <2>4. OnlyChanges(c, c, pk) /\ KeepsData(t, pk, c.servers, c.servers)
    BY DEF OnlyChanges, KeepsData
  <2>. QED
    BY <1>5, <1>6, <1>8, <2>1, <2>2, <2>3, <2>4
<1>10. ASSUME Saved!HoldsOptions(t)
       PROVE  Saved!Working(t) /\ held[t].why = "options" /\ held[t].pk \in Servers /\ held[t].server \in Saved!LocalServer
  BY <1>10 DEF Saved!HoldsOptions, StoreInv, HeldKnown
<1>11. Saved!Release(t) => held'[t] = Saved!NothingHeld
  BY DEF Saved!Release, StoreInv, Saved!TypeOK
<1>12. ASSUME NEW c \in Copy, Reading(c), NEW pk \in Servers, NEW server \in Saved!LocalServer
       PROVE  Saved!SavedOr(c, pk, server) \in Saved!LocalServer
  BY MapType DEF Saved!SavedOr, Copy
<1>14. ASSUME NEW flag \in Saved!Flags, Saved!ChooseFlag(t, flag)
       PROVE  Effect(t)
  <2>1. Saved!HoldsOptions(t) /\ Saved!Release(t) /\ Saved!ChangeFlag(t, held[t].pk, held[t].server, flag)
    BY <1>14 DEF Saved!ChooseFlag
  <2>2. PICK c \in Copy : Reading(c)
    BY <1>4, <1>10, <2>1
  <2>3. PICK pk \in Servers, server \in Saved!LocalServer : pk = held[t].pk /\ server = held[t].server
    BY <1>10, <2>1
  <2>4. PICK s \in Saved!LocalServer : s = Saved!SavedOr(c, pk, server)
    BY <1>12, <2>2
  <2>0. PICK r \in Saved!LocalServer : r = [s EXCEPT !.flag = flag]
    BY DEF Saved!LocalServer
  <2>5. PICK e : e = WithServer(c, pk, r)
    OBVIOUS
  <2>13. e \in Copy
    BY <2>5, PutCopy
  <2>6. PICK d \in Copy : d = Saved!CleanServers(e)
    BY <2>13, CleanKeeps
  <2>7. Saved!Keep(t, c) \/ Saved!SaveData(t, d)
    BY <2>0, <2>1, <2>2, <2>3, <2>4, <2>5, <2>6 DEF Saved!ChangeFlag, Saved!Keep, Saved!SaveData, WithServer
  <2>8. KeepsData(t, pk, c.servers, e.servers)
    BY <1>10, <1>11, <2>1, <2>3 DEF Saved!Answered, KeepsData
  <2>10. /\ OnlyChanges(e, c, pk) /\ e.selected = c.selected
         /\ DOMAIN e.servers = DOMAIN c.servers \union {pk}
    BY <2>5, PutCopy
  <2>11. CASE Saved!SaveData(t, d)
    BY <1>6, <1>8, <2>2, <2>6, <2>8, <2>10, <2>11, <2>13
  <2>. QED
    BY <1>5, <2>2, <2>7, <2>11
<1>15. CASE Saved!EditValue(t)
  <2>1. Saved!HoldsOptions(t) /\ Saved!Release(t)
    BY <1>15 DEF Saved!EditValue
  <2>2. PICK c \in Copy : Reading(c)
    BY <1>4, <1>10, <2>1
  <2>3. PICK pk \in Servers, server \in Saved!LocalServer : pk = held[t].pk /\ server = held[t].server
    BY <1>10, <2>1
  <2>4. PICK s \in Saved!LocalServer : s = Saved!SavedOr(c, pk, server)
    BY <1>12, <2>2
  <2>5. PICK set \in BOOLEAN :
          Saved!SaveData(t, Saved!CleanServers([c EXCEPT !.servers = Saved!Put(@, pk, [s EXCEPT !.personal = set])]))
    BY <1>15, <2>2, <2>3, <2>4 DEF Saved!EditValue, Saved!SaveData
  <2>6. PICK r \in Saved!LocalServer : r = [s EXCEPT !.personal = set]
    BY DEF Saved!LocalServer
  <2>7. PICK e : e = WithServer(c, pk, r)
    OBVIOUS
  <2>13. e \in Copy
    BY <2>7, PutCopy
  <2>8. PICK d \in Copy : d = Saved!CleanServers(e)
    BY <2>13, CleanKeeps
  <2>9. Saved!SaveData(t, d)
    BY <2>5, <2>6, <2>7, <2>8 DEF Saved!SaveData, WithServer
  <2>10. KeepsData(t, pk, c.servers, e.servers)
    BY <1>10, <1>11, <2>1, <2>3 DEF Saved!Answered, KeepsData
  <2>11. /\ OnlyChanges(e, c, pk) /\ e.selected = c.selected
         /\ DOMAIN e.servers = DOMAIN c.servers \union {pk}
    BY <2>7, PutCopy
  <2>. QED
    BY <1>6, <1>8, <2>2, <2>8, <2>9, <2>10, <2>11, <2>13
<1>16. CASE Saved!RemoveFromHistory(t)
  <2>1. Saved!HoldsOptions(t)
    BY <1>16 DEF Saved!RemoveFromHistory
  <2>2. PICK c \in Copy : Reading(c)
    BY <1>4, <1>10, <2>1
  <2>3. PICK pk \in Servers : pk = held[t].pk
    BY <1>10, <2>1
  <2>4. CASE pk \in DOMAIN c.servers
    <3>1. PICK e : e = [c EXCEPT !.servers[pk].inHistory = FALSE]
      OBVIOUS
    <3>2. c.servers \in Saved!ServerMaps
      BY DEF Copy
    <3>3. PICK m : m = [c.servers EXCEPT ![pk].inHistory = FALSE]
      OBVIOUS
    <3>4. c.servers \in [DOMAIN c.servers -> Saved!LocalServer] /\ DOMAIN c.servers \in SUBSET Servers
      BY <3>2, MapType
    <3>5. /\ m \in [DOMAIN c.servers -> Saved!LocalServer]
          /\ \A p \in DOMAIN c.servers : m[p].flag = c.servers[p].flag /\ m[p].personal = c.servers[p].personal
      BY <2>4, <3>3, <3>4 DEF Saved!LocalServer
    <3>6. m \in Saved!ServerMaps
      BY <3>4, <3>5 DEF Saved!ServerMaps
    <3>7. /\ e \in Copy /\ e.page = "vpn" /\ e.version = c.version /\ e.selected = c.selected /\ e.servers = m
      BY <2>2, <3>1, <3>3, <3>6 DEF Copy
    <3>8. \A p \in Servers : /\ Saved!FlagOf(e.servers, p) = Saved!FlagOf(c.servers, p)
                             /\ Saved!HasPersonal(e.servers, p) <=> Saved!HasPersonal(c.servers, p)
      BY <3>5, <3>7 DEF Saved!FlagOf, Saved!HasPersonal
    <3>12. OnlyChanges(e, c, pk) /\ KeepsData(t, pk, c.servers, e.servers)
      BY <2>2, <3>7, <3>8 DEF OnlyChanges, KeepsData
    <3>9. PICK d \in Copy : d = Saved!CleanServers(e)
      BY <3>7, CleanKeeps
    <3>10. Saved!Keep(t, c) \/ Saved!SaveData(t, d)
      BY <1>16, <2>2, <2>3, <3>1, <3>9 DEF Saved!RemoveFromHistory, Saved!Keep, Saved!SaveData
    <3>11. CASE Saved!SaveData(t, d)
      BY <1>6, <1>8, <2>2, <3>5, <3>7, <3>8, <3>9, <3>11, <3>12
    <3>. QED
      BY <1>5, <2>2, <3>10, <3>11
  <2>5. CASE pk \notin DOMAIN c.servers
    <3>1. Saved!Keep(t, c)
      BY <1>16, <2>2, <2>3, <2>5 DEF Saved!RemoveFromHistory, Saved!Keep
    <3>. QED
      BY <1>5, <2>2, <3>1
  <2>. QED
    BY <2>4, <2>5
<1>17. CASE Saved!ModifyCurrentServer(t)
  <2>1. Saved!Working(t) /\ held[t].pk \in Servers /\ held[t].server \in Saved!LocalServer
    BY <1>17 DEF Saved!ModifyCurrentServer, StoreInv, HeldKnown
  <2>2. PICK c \in Copy : Reading(c)
    BY <1>4, <2>1
  <2>3. PICK pk \in Servers, server \in Saved!LocalServer : pk = held[t].pk /\ server = held[t].server
    BY <2>1
  <2>4. PICK s \in Saved!LocalServer : s = Saved!SavedOr(c, pk, server)
    BY <1>12, <2>2
  <2>5. PICK w : w = WithServer(c, pk, s)
    OBVIOUS
  <2>6. w \in Copy /\ DOMAIN w.servers = DOMAIN c.servers \union {pk} /\ OnlyChanges(w, c, pk)
    BY <2>5, PutCopy
  <2>7. PICK e : e = [w EXCEPT !.selected = pk]
    OBVIOUS
  <2>8. /\ e \in Copy /\ e.servers = w.servers /\ e.selected = pk
        /\ e.page = w.page /\ e.version = w.version
    BY <2>6, <2>7 DEF Copy
  <2>9. OnlyChanges(e, c, pk)
    BY <2>6, <2>8 DEF OnlyChanges
  <2>10. KeepsData(t, pk, c.servers, e.servers)
    <3>1. CASE pk \in DOMAIN c.servers
      <4>1. c.servers \in Saved!ServerMaps /\ e.servers = Saved!Put(c.servers, pk, s)
        BY <2>5, <2>8 DEF WithServer, Copy
      <4>2. e.servers[pk] = c.servers[pk]
        <5>1. s = c.servers[pk]
          BY <2>4, <3>1 DEF Saved!SavedOr
        <5>2. PICK l \in Saved!ServerMaps : l = c.servers
          BY <4>1
        <5>3. Saved!Put(l, pk, s)[pk] = s
          BY PutType
        <5>. QED
          BY <4>1, <5>1, <5>2, <5>3
      <4>. QED
        BY <2>6, <2>8, <3>1, <4>2 DEF Saved!FlagOf, Saved!HasPersonal, KeepsData
    <3>2. CASE pk \notin DOMAIN c.servers
      BY <3>2 DEF Saved!FlagOf, Saved!HasPersonal, KeepsData
    <3>. QED
      BY <3>1, <3>2
  <2>11. PICK d \in Copy : d = Saved!CleanServers(e)
    BY <2>8, CleanKeeps
  <2>12. e = [c EXCEPT !.servers = Saved!Put(@, pk, s), !.selected = pk]
    BY <2>5, <2>7 DEF WithServer, Copy
  <2>13. Saved!Keep(t, c) \/ Saved!SaveData(t, d)
    BY <1>17, <2>2, <2>3, <2>4, <2>11, <2>12 DEF Saved!ModifyCurrentServer, Saved!Keep, Saved!SaveData
  <2>14. CASE Saved!SaveData(t, d)
    <3>1. e.selected \in DOMAIN e.servers /\ e.selected # None
      BY <2>6, <2>8 DEF Given
    <3>. QED
      BY <1>6, <2>2, <2>8, <2>9, <2>10, <2>11, <2>14, <3>1
  <2>. QED
    BY <1>5, <2>2, <2>13, <2>14
<1>18. ASSUME NEW c \in Copy, Reading(c), NEW d \in Copy, Saved!SaveData(t, d),
              d.page = c.page, d.version = c.version,
              \A pk \in Servers : KeepsData(t, pk, c.servers, d.servers),
              None \notin VisorPks /\ Selection =>
                 /\ d.selected \in DOMAIN d.servers \union {None}
                 /\ store.selected # None => d.selected # None
       PROVE  Effect(t)
  <2>1. Saves(t, d)
    BY <1>18 DEF Saves
  <2>. QED
    BY <2>1 DEF Effect
<1>19. ASSUME NEW pk \in VisorPks, Saved!CompareCurrentServer(t, pk)
       PROVE  Effect(t)
  <2>1. PICK c \in Copy : Reading(c)
    BY <1>4, <1>19 DEF Saved!CompareCurrentServer
  <2>2. pk \in Servers \union {None}
    BY DEF Given
  <2>3. PICK v : v = [c EXCEPT !.selected = pk]
    OBVIOUS
  <2>4. /\ v \in Copy /\ v.page = c.page /\ v.version = c.version /\ v.servers = c.servers
        /\ v.selected = pk
    BY <2>2, <2>3 DEF Copy
  <2>5. CASE pk = c.selected
    <3>1. Saved!Keep(t, c)
      BY <1>19, <2>1, <2>5 DEF Saved!CompareCurrentServer, Saved!Keep
    <3>. QED
      BY <1>5, <2>1, <3>1
  <2>6. CASE pk # c.selected /\ (pk = None \/ pk \in DOMAIN c.servers)
    <3>1. Saved!SaveData(t, v)
      BY <1>19, <2>1, <2>3, <2>6 DEF Saved!CompareCurrentServer, Saved!SaveData
    <3>3. \A p \in Servers : KeepsData(t, p, c.servers, v.servers)
      BY <2>4 DEF KeepsData
    <3>2. None \notin VisorPks => v.selected \in DOMAIN v.servers /\ v.selected # None
      BY <2>4, <2>6
    <3>. QED
      BY <1>18, <2>1, <2>4, <3>1, <3>2, <3>3
  <2>7. CASE pk # c.selected /\ ~(pk = None \/ pk \in DOMAIN c.servers)
    <3>1. Saved!NewServer \in Saved!LocalServer /\ pk \in Servers
      BY <2>2, <2>7 DEF Saved!NewServer, Saved!LocalServer, Saved!Flags
    <3>2. PICK e : e = WithServer(v, pk, Saved!NewServer)
      OBVIOUS
    <3>3. e \in Copy /\ e.selected = v.selected /\ DOMAIN e.servers = DOMAIN v.servers \union {pk}
          /\ OnlyChanges(e, v, pk)
      BY <2>4, <3>1, <3>2, PutCopy
    <3>4. OnlyChanges(e, c, pk)
      BY <2>4, <3>3 DEF OnlyChanges
    <3>5. PICK d \in Copy : d = Saved!CleanServers(e)
      BY <3>3, CleanKeeps
    <3>6. Saved!SaveData(t, d)
      BY <1>19, <2>1, <2>3, <2>7, <3>2, <3>5 DEF Saved!CompareCurrentServer, Saved!SaveData, WithServer
    <3>7. KeepsData(t, pk, c.servers, e.servers)
      BY <2>7 DEF Saved!FlagOf, Saved!HasPersonal, KeepsData
    <3>8. e.selected \in DOMAIN e.servers /\ e.selected # None
      BY <2>4, <2>7, <3>3
    <3>. QED
      BY <1>6, <2>1, <3>1, <3>3, <3>4, <3>5, <3>6, <3>7, <3>8
  <2>. QED
    BY <2>5, <2>6, <2>7
<1>20. CASE Saved!UpdateFromDiscovery(t)
  <2>1. PICK c \in Copy : Reading(c)
    BY <1>4, <1>20 DEF Saved!UpdateFromDiscovery, Saved!Free
  <2>2. Saved!SaveData(t, c)
    BY <1>20, <2>1 DEF Saved!UpdateFromDiscovery, Saved!SaveData
  <2>3. \A p \in Servers : KeepsData(t, p, c.servers, c.servers)
    BY DEF KeepsData
  <2>. QED
    BY <1>8, <1>18, <2>1, <2>2, <2>3
<1>21. CASE Saved!ChangeServerManually(t) \/ Saved!StartSameServer(t)
  <2>1. Saved!Working(t) /\ held[t].why \in {"manual", "same"} /\ held[t].pk \in Servers /\ held[t].server \in Saved!LocalServer
    BY <1>21 DEF Saved!ChangeServerManually, Saved!StartSameServer, Saved!HoldsForm, StoreInv, HeldKnown
  <2>2. PICK c \in Copy : Reading(c)
    BY <1>4, <2>1
  <2>3. PICK pk \in Servers, form \in Saved!LocalServer : pk = held[t].pk /\ form = held[t].server
    BY <2>1
  <2>4. CASE pk \notin DOMAIN c.servers
    <3>1. Saved!Keep(t, c)
      BY <1>21, <2>2, <2>3, <2>4 DEF Saved!ChangeServerManually, Saved!StartSameServer, Saved!Keep
    <3>. QED
      BY <1>5, <2>2, <3>1
  <2>5. CASE pk \in DOMAIN c.servers
    <3>1. PICK e : e = Saved!ProcessFromManual(c, pk, form)
      OBVIOUS
    <3>2. /\ e \in Copy /\ e.selected = c.selected /\ DOMAIN e.servers = DOMAIN c.servers
          /\ OnlyChanges(e, c, pk)
          /\ Saved!FlagOf(e.servers, pk) = Saved!FlagOf(c.servers, pk)
          /\ Saved!HasPersonal(e.servers, pk) <=> form.personal
      BY <2>5, <3>1, FormCopy
    <3>3. held'[t] # held[t]
      <4>1. held[t].why # "request" /\ held[t].why # "none"
        BY <2>1
      <4>2. held'[t].why \in {"request", "none"}
        BY <1>21, <1>11 DEF Saved!ChangeServerManually, Saved!StartSameServer, Saved!NothingHeld, StoreInv, Saved!TypeOK
      <4>. QED
        BY <4>1, <4>2
    <3>4. KeepsData(t, pk, c.servers, e.servers)
      BY <2>1, <2>3, <3>2, <3>3 DEF KeepsData, Saved!AddedBare
    <3>5. PICK d \in Copy : d = Saved!CleanServers(e)
      BY <3>2, CleanKeeps
    <3>6. Saved!SaveData(t, d) \/ Saved!SaveData(t, e)
      BY <1>21, <2>2, <2>3, <2>5, <3>1, <3>5 DEF Saved!ChangeServerManually, Saved!StartSameServer, Saved!SaveData
    <3>7. CASE Saved!SaveData(t, d)
      BY <1>6, <1>8, <2>2, <3>2, <3>4, <3>5, <3>7
    <3>8. CASE Saved!SaveData(t, e)
      <4>1. \A p \in Servers : KeepsData(t, p, c.servers, e.servers)
        BY <3>2, <3>4 DEF OnlyChanges, KeepsData
      <4>2. e.page = c.page /\ e.version = c.version
        BY <3>2 DEF OnlyChanges
      <4>. QED
        BY <1>8, <1>18, <2>2, <3>2, <3>8, <4>1, <4>2
    <3>. QED
      BY <3>6, <3>7, <3>8
  <2>. QED
    BY <2>4, <2>5
<1>. QED
  BY <1>1, <1>2, <1>3, <1>7, <1>9, <1>14, <1>15, <1>16, <1>17, <1>19, <1>20, <1>21

-----------------------------------------------------------------------------
(* The invariants *)

\* The data of an earlier session is consistent, and no tab is open.
LEMMA InitStore == Given /\ Saved!Init => StoreInv /\ Selection
<1>. SUFFICES ASSUME Given, Saved!Init
              PROVE  StoreInv /\ Selection
  OBVIOUS
<1>1. Saved!Closed \in Copy
  BY EmptyMap DEF Given, Saved!Closed, Copy
<1>2. Saved!TypeOK
  BY <1>1 DEF Given, Saved!Init, Saved!TypeOK, Copy, Stores, Saved!NothingHeld
<1>3. \A t \in Tabs : tab[t] = Saved!Closed /\ held[t] = Saved!NothingHeld
  BY DEF Saved!Init
<1>4. HeldKnown /\ Saved!NoSaveRefused
  BY <1>3 DEF HeldKnown, Saved!NoSaveRefused, Saved!Closed, Saved!NothingHeld
<1>5. Copies
  BY <1>3 DEF Given, Saved!Init, Copies, Saved!Closed, Saved!Working, Stores
<1>6. Selection
  BY <1>3 DEF Given, Saved!Init, Selection, Saved!SelectedIsSaved, Saved!Closed, Saved!Working
<1>. QED
  BY <1>2, <1>4, <1>5, <1>6 DEF StoreInv

\* A dialog or a request takes a server of the list, or a new one.
LEMMA HeldKept ==
    ASSUME Given, StoreInv, Saved!Next
    PROVE  /\ held' \in [Tabs -> [why : {"none", "options", "manual", "same", "request"}, pk : Servers \union {None},
                                  server : Saved!LocalServer \union {None}]]
           /\ HeldKnown'
<1>. DEFINE H == [why : {"none", "options", "manual", "same", "request"}, pk : Servers \union {None},
                  server : Saved!LocalServer \union {None}]
<1>0. held \in [Tabs -> H] /\ HeldKnown
  BY DEF StoreInv, Saved!TypeOK
<1>1. Saved!NothingHeld \in H /\ Saved!NothingHeld.why = "none"
  BY DEF Saved!NothingHeld
<1>2. ASSUME NEW t \in Tabs, NEW h \in H, h.why # "none" => h.pk \in Servers /\ h.server \in Saved!LocalServer,
             held' = [held EXCEPT ![t] = h]
      PROVE  held' \in [Tabs -> H] /\ HeldKnown'
  BY <1>0, <1>2 DEF HeldKnown
<1>3. ASSUME NEW t \in Tabs, held' = [held EXCEPT ![t] = Saved!NothingHeld]
      PROVE  held' \in [Tabs -> H] /\ HeldKnown'
  BY <1>1, <1>2, <1>3
<1>4. ASSUME NEW t \in Tabs, NEW pk \in Servers,
             Saved!OpenOptions(t, pk) \/ Saved!RequestServer(t, pk) \/ Saved!FillInForm(t, pk)
      PROVE  held' \in [Tabs -> H] /\ HeldKnown'
  <2>1. Saved!Working(t)
    BY <1>4 DEF Saved!OpenOptions, Saved!RequestServer, Saved!FillInForm, Saved!Free
  <2>2. PICK c \in Copy : c = Saved!CheckIfDataWasChanged(tab[t])
    BY <2>1, CheckReads
  <2>3. Saved!NewServer \in Saved!LocalServer
    BY DEF Saved!NewServer, Saved!LocalServer, Saved!Flags
  <2>4. PICK s \in Saved!LocalServer : s = Saved!SavedOr(c, pk, Saved!NewServer)
    BY <2>3, MapType DEF Saved!SavedOr, Copy
  <2>7. Saved!SavedOr(tab[t], pk, s) \in Saved!LocalServer
    <3>1. tab[t] \in Copy
      BY DEF StoreInv, Saved!TypeOK, Copy
    <3>. QED
      BY <3>1, MapType DEF Saved!SavedOr, Copy
  <2>8. \A set \in BOOLEAN : [Saved!NewServer EXCEPT !.personal = set] \in Saved!LocalServer
    BY <2>3 DEF Saved!LocalServer
  <2>5. PICK why \in {"options", "manual", "same", "request"}, r \in Saved!LocalServer :
          held' = [held EXCEPT ![t] = [why |-> why, pk |-> pk, server |-> r]]
    <3>1. CASE Saved!OpenOptions(t, pk)
      BY <2>2, <2>4, <3>1 DEF Saved!OpenOptions
    <3>2. CASE Saved!RequestServer(t, pk)
      BY <2>2, <2>4, <2>7, <3>2 DEF Saved!RequestServer
    <3>3. CASE Saved!FillInForm(t, pk)
      <4>1. PICK why \in {"manual", "same"}, set \in BOOLEAN :
              held' = [held EXCEPT ![t] = [why |-> why, pk |-> pk, server |-> [Saved!NewServer EXCEPT !.personal = set]]]
        BY <3>3 DEF Saved!FillInForm
      <4>. QED
        BY <2>8, <4>1
    <3>. QED
      BY <1>4, <3>1, <3>2, <3>3
  <2>6. PICK h \in H : h = [why |-> why, pk |-> pk, server |-> r]
    OBVIOUS
  <2>. QED
    BY <1>2, <2>5, <2>6
<1>8. ASSUME NEW t \in Tabs, Saved!ChangeServerManually(t)
      PROVE  held' \in [Tabs -> H] /\ HeldKnown'
  <2>1. Saved!Working(t) /\ held[t].pk \in Servers /\ held[t].server \in Saved!LocalServer
    BY <1>8 DEF Saved!ChangeServerManually, Saved!HoldsForm, StoreInv, HeldKnown
  <2>2. PICK c \in Copy : c = Saved!CheckIfDataWasChanged(tab[t])
    BY <2>1, CheckReads
  <2>3. PICK pk \in Servers, form \in Saved!LocalServer : pk = held[t].pk /\ form = held[t].server
    BY <2>1
  <2>4. PICK d : d = Saved!ProcessFromManual(c, pk, form)
    OBVIOUS
  <2>5. d \in Copy
    BY <2>4, FormCopy DEF Saved!ProcessFromManual
  <2>6. PICK s \in Saved!LocalServer : s = Saved!SavedOr(d, pk, form)
    BY <2>5, MapType DEF Saved!SavedOr, Copy
  <2>7. held' = [held EXCEPT ![t] = [why |-> "request", pk |-> pk, server |-> s]]
    BY <1>8, <2>2, <2>3, <2>4, <2>6 DEF Saved!ChangeServerManually
  <2>8. PICK h \in H : h = [why |-> "request", pk |-> pk, server |-> s]
    OBVIOUS
  <2>. QED
    BY <1>2, <2>7, <2>8
<1>5. ASSUME NEW t \in Tabs, UNCHANGED held
      PROVE  held' \in [Tabs -> H] /\ HeldKnown'
  BY <1>0, <1>5 DEF HeldKnown
<1>6. ASSUME NEW t \in Tabs,
             \/ Saved!OpenTab(t) \/ Saved!CloseTab(t)
             \/ (\E flag \in Saved!Flags : Saved!ChooseFlag(t, flag)) \/ Saved!RemoveFromHistory(t)
             \/ Saved!EditValue(t) \/ Saved!Cancel(t) \/ Saved!ModifyCurrentServer(t) \/ Saved!RequestFails(t)
             \/ Saved!StartSameServer(t)
      PROVE  held' = [held EXCEPT ![t] = Saved!NothingHeld]
  BY <1>6 DEF Saved!OpenTab, Saved!CloseTab, Saved!ChooseFlag, Saved!RemoveFromHistory,
              Saved!EditValue, Saved!Cancel, Saved!ModifyCurrentServer,
              Saved!RequestFails, Saved!StartSameServer, Saved!Release
<1>7. ASSUME NEW t \in Tabs, Saved!UpdateFromDiscovery(t) \/ \E pk \in VisorPks : Saved!CompareCurrentServer(t, pk)
      PROVE  UNCHANGED held
  BY <1>7 DEF Saved!UpdateFromDiscovery, Saved!CompareCurrentServer
<1>. QED
  BY <1>3, <1>4, <1>5, <1>6, <1>7, <1>8 DEF Saved!Next

\* What a step of tab t does to the versions, lists and selections.
LEMMA EffectKeeps ==
    ASSUME Given, StoreInv, NEW t \in Tabs, Effect(t)
    PROVE  /\ store' \in Stores /\ tab' \in [Tabs -> Copy]
           /\ Copies' /\ Saved!NoSaveRefused'
           /\ None \notin VisorPks /\ Selection => Selection'
           /\ UNCHANGED store \/ \E d \in Copy : Saves(t, d) /\ store'.servers = d.servers
<1>. USE DEF StoreInv
<1>0. store \in Stores /\ tab \in [Tabs -> Copy]
  BY DEF Saved!TypeOK, Stores, Copy
<1>1. CASE UNCHANGED <<store, tab>>
  BY <1>0, <1>1 DEF Copies, Saved!NoSaveRefused, Selection, Saved!SelectedIsSaved, Saved!Working
<1>2. CASE UNCHANGED store /\ tab' = [tab EXCEPT ![t] = Saved!Closed]
  <2>1. Saved!Closed \in Copy /\ Saved!Closed.page = "closed" /\ Saved!Closed.version = 0 /\ Saved!Closed.selected = None
    BY EmptyMap DEF Given, Saved!Closed, Copy
  <2>. HIDE DEF Saved!Closed
  <2>2. tab' \in [Tabs -> Copy] /\ tab'[t] = Saved!Closed /\ \A x \in Tabs \ {t} : tab'[x] = tab[x]
    BY <1>0, <1>2, <2>1
  <2>3. Copies' /\ Saved!NoSaveRefused'
    BY <1>0, <1>2, <2>1, <2>2 DEF Copies, Saved!NoSaveRefused, Saved!Working, Stores
  <2>4. Selection => Selection'
    BY <1>2, <2>1, <2>2 DEF Selection, Saved!SelectedIsSaved, Saved!Working
  <2>. QED
    BY <1>0, <1>2, <2>2, <2>3, <2>4
<1>3. ASSUME NEW d \in Copy, Reads(t, d)
      PROVE  /\ store' \in Stores /\ tab' \in [Tabs -> Copy] /\ Copies' /\ Saved!NoSaveRefused' /\ UNCHANGED store
             /\ None \notin VisorPks /\ Selection => Selection'
  <2>1. UNCHANGED store /\ tab' = [tab EXCEPT ![t] = d]
        /\ d.page = "vpn" /\ d.version = store.version /\ d.servers = store.servers
    BY <1>3 DEF Reads
  <2>2. tab' \in [Tabs -> Copy] /\ tab'[t] = d /\ \A x \in Tabs \ {t} : tab'[x] = tab[x]
    BY <1>0, <2>1
  <2>3. Copies' /\ Saved!NoSaveRefused'
    BY <1>0, <2>1, <2>2 DEF Copies, Saved!NoSaveRefused, Saved!Working, Stores
  <2>4. ASSUME None \notin VisorPks, Selection
        PROVE  Selection'
    <3>1. d.selected = store.selected
      BY <1>3, <2>4 DEF Reads
    <3>. QED
      BY <2>1, <2>2, <2>4, <3>1 DEF Selection, Saved!SelectedIsSaved, Saved!Working
  <2>. QED
    BY <1>0, <2>1, <2>2, <2>3, <2>4
<1>4. ASSUME NEW d \in Copy, Saves(t, d)
      PROVE  /\ store' \in Stores /\ tab' \in [Tabs -> Copy] /\ Copies' /\ Saved!NoSaveRefused'
             /\ store'.servers = d.servers
             /\ None \notin VisorPks /\ Selection => Selection'
  <2>1. /\ d.page = "vpn" /\ d.version = store.version /\ d.version < MaxVersion
        /\ store' = [version |-> d.version + 1, servers |-> d.servers, selected |-> d.selected]
        /\ tab' = [tab EXCEPT ![t] = [d EXCEPT !.version = @ + 1]]
    BY <1>4 DEF Saves, Saved!SaveData
  <2>2. PICK f : f = [d EXCEPT !.version = @ + 1]
    OBVIOUS
  <2>3. /\ f \in Copy /\ f.version = store.version + 1 /\ f.page = "vpn"
        /\ f.servers = d.servers /\ f.selected = d.selected
    BY <1>0, <2>1, <2>2 DEF Given, Copy, Stores
  <2>4. /\ store' \in Stores /\ store'.version = store.version + 1
        /\ store'.servers = d.servers /\ store'.selected = d.selected
    BY <1>0, <2>1 DEF Given, Copy, Stores
  <2>5. tab' \in [Tabs -> Copy] /\ tab'[t] = f /\ \A x \in Tabs \ {t} : tab'[x] = tab[x]
    BY <1>0, <2>1, <2>2, <2>3
  <2>6. \A x \in Tabs : tab[x].version <= store.version /\ tab[x].version \in Nat /\ store.version \in Nat
    BY <1>0 DEF Copies, Copy, Stores
  <2>7. Copies' /\ Saved!NoSaveRefused'
    BY <2>3, <2>4, <2>5, <2>6 DEF Copies, Saved!NoSaveRefused, Saved!Working
  <2>8. ASSUME None \notin VisorPks, Selection
        PROVE  Selection'
    <3>1. d.selected \in DOMAIN d.servers \union {None} /\ (store.selected # None => d.selected # None)
      BY <1>4, <2>8 DEF Saves
    <3>. QED
      BY <2>3, <2>4, <2>5, <2>6, <2>8, <3>1 DEF Selection, Saved!SelectedIsSaved, Saved!Working
  <2>. QED
    BY <2>4, <2>5, <2>7, <2>8
<1>. QED
  BY <1>1, <1>2, <1>3, <1>4 DEF Effect

\* Every step of the tabs has an effect of one of these kinds.
LEMMA NextEffect == Given /\ StoreInv /\ Saved!Next => \E t \in Tabs : Effect(t)
<1>. SUFFICES ASSUME Given, StoreInv, Saved!Next
              PROVE  \E t \in Tabs : Effect(t)
  OBVIOUS
<1>1. PICK t \in Tabs :
           \/ Saved!OpenTab(t) \/ Saved!CloseTab(t)
           \/ \E pk \in Servers : Saved!OpenOptions(t, pk) \/ Saved!RequestServer(t, pk) \/ Saved!FillInForm(t, pk)
           \/ \E flag \in Saved!Flags : Saved!ChooseFlag(t, flag)
           \/ Saved!RemoveFromHistory(t) \/ Saved!EditValue(t) \/ Saved!Cancel(t)
           \/ Saved!ChangeServerManually(t) \/ Saved!StartSameServer(t)
           \/ Saved!ModifyCurrentServer(t) \/ Saved!RequestFails(t)
           \/ \E pk \in VisorPks : Saved!CompareCurrentServer(t, pk)
           \/ Saved!UpdateFromDiscovery(t)
  BY DEF Saved!Next
<1>. QED
  BY <1>1, Effects

\* The invariants are inductive; the selection needs a visor that has a server.
LEMMA NextStore ==
    Given /\ StoreInv /\ [Saved!Next]_Saved!vars => StoreInv' /\ (None \notin VisorPks /\ Selection => Selection')
<1>. SUFFICES ASSUME Given, StoreInv, [Saved!Next]_Saved!vars
              PROVE  StoreInv' /\ (None \notin VisorPks /\ Selection => Selection')
  OBVIOUS
<1>1. CASE Saved!Next
  <2>1. PICK t \in Tabs : Effect(t)
    BY <1>1, NextEffect
  <2>2. /\ store' \in Stores /\ tab' \in [Tabs -> Copy] /\ Copies' /\ Saved!NoSaveRefused'
        /\ None \notin VisorPks /\ Selection => Selection'
    BY <2>1, EffectKeeps
  <2>. QED
    BY <1>1, <2>2, HeldKept DEF StoreInv, Saved!TypeOK, Stores, Copy
<1>2. CASE UNCHANGED Saved!vars
  BY <1>2 DEF Saved!vars, StoreInv, Saved!TypeOK, HeldKnown, Copies, Saved!NoSaveRefused, Selection, Saved!SelectedIsSaved, Saved!Working
<1>. QED
  BY <1>1, <1>2

\* What the user attached to a server is taken away only in answer to a dialog
\* about that server, or by a form that adds it again.
LEMMA StepKeepsUserData == Given /\ StoreInv /\ Saved!Next => Saved!KeepsUserData
<1>. SUFFICES ASSUME Given, StoreInv, Saved!Next
              PROVE  Saved!KeepsUserData
  OBVIOUS
<1>1. PICK t \in Tabs : Effect(t)
  BY NextEffect
<1>2. UNCHANGED store \/ \E d \in Copy : Saves(t, d) /\ store'.servers = d.servers
  BY <1>1, EffectKeeps
<1>3. CASE UNCHANGED store
  BY <1>3 DEF Saved!KeepsUserData
<1>4. ASSUME NEW d \in Copy, Saves(t, d), store'.servers = d.servers
      PROVE  Saved!KeepsUserData
  BY <1>4 DEF Saves, KeepsData, Saved!KeepsUserData
<1>. QED
  BY <1>2, <1>3, <1>4

-----------------------------------------------------------------------------
(* The service that drives the app: its fields *)

UiPoll == [at : {"none", "waiting", "asked", "answered", "failed", "denied"},
           tries : 0..InitialRetries, data : Client!AppData]
UiOp == [kind : {"none", "start", "stop", "change"}, tries : 0..OpRetries,
         at : {"none", "sent", "answered", "failed"}, data : Client!AppData]
UiEvent == [state : Client!States, busy : BOOLEAN, app : Client!AppData]
Ui == [key : BOOLEAN, state : Client!States, working : BOOLEAN, requested : Servers \union {None},
       updatesStopped : BOOLEAN, poll : UiPoll, op : UiOp, event : UiEvent,
       page : Client!VpnPages \union {"error", "login"}, view : Client!ViewType]

Checking(u) == u.state = Client!PerformingInitialCheck

\* What holds whatever fails: an operation makes the service busy and stops the
\* poll, and is never under way during the initial check, in which alone a poll
\* may start although the service is busy.
Base(u) ==
    /\ u.op.kind = "none" <=> u.op.at = "none"
    /\ u.op.kind # "none" => u.working /\ u.poll.at = "none" /\ ~Checking(u)
    /\ Checking(u) => u.working

\* What holds as long as no stop fails.  A stop that failed leaves the service
\* in Disconnecting without an operation, or its repetition makes it Running: then
\* a change of server ends in a start that is refused.
Alone(u) ==
    /\ u.working /\ u.op.kind = "none" => Checking(u)
    /\ u.state = Client!Disconnecting => u.op.kind = "stop"
    /\ u.op.kind = "change" => u.state = Client!Off
    /\ u.requested # None => u.op.kind \in {"stop", "change"}
    /\ u.op.kind = "stop" => u.op.at = "sent" \/ (u.op.at = "answered" /\ ~u.op.data.running)
    /\ u.page # "error" /\ u.op.kind = "none" =>
          u.poll.at # "none" \/ (u.page = "login" /\ u.updatesStopped)

\* A dialog that asks for a change of server only opens while the service is
\* free, which then starts nothing by itself.
AskedWhileFree == dialog.kind = "change" => ~ui.working

\* A window that blocks a server names one.
Window ==
    {d \in [kind : {"none", "stop", "change", "start", "block"}, server : Servers \union {None}] :
        /\ d.kind = "none" => d = Client!NoDialog
        /\ d.kind = "block" => d.server \in Servers}

OtherTypes ==
    /\ app \in Client!VisorApp /\ cur \in Servers \union {None} /\ blocked \subseteq Servers
    /\ dialog \in Window
    /\ setting \in BOOLEAN /\ count \in 0..MaxDisturbances

ServiceInv ==
    /\ OtherTypes /\ ui \in Ui /\ Base(ui)
    /\ "stop" \notin FaultyOps => Alone(ui) /\ AskedWhileFree

-----------------------------------------------------------------------------
(* The methods of the service and of the status page *)

\* The fields that most methods leave alone.
Rest(v, u) ==
    v.requested = u.requested /\ v.updatesStopped = u.updatesStopped /\ v.page = u.page

\* The numbers of the states.
LEMMA States ==
    /\ Client!States = {1, 10, 20, 100, 200}
    /\ Client!PerformingInitialCheck = 1 /\ Client!Off = 10 /\ Client!Starting = 20
    /\ Client!Running = 100 /\ Client!Disconnecting = 200
BY DEF Client!States, Client!PerformingInitialCheck, Client!Off, Client!Starting, Client!Running,
       Client!Disconnecting

\* What the service has before anything happened.
LEMMA Nothing ==
    /\ Client!NoData \in Client!AppData /\ Client!NoPoll \in UiPoll /\ Client!NoPoll.at = "none"
    /\ Client!NoOp \in UiOp /\ Client!NoOp.kind = "none" /\ Client!NoOp.at = "none"
    /\ Client!NoEvent \in UiEvent /\ Client!NewView \in Client!ViewType
<1>1. Client!NoData \in Client!AppData
  BY DEF Client!NoData, Client!AppData
<1>2. 0 \in 0..InitialRetries /\ 0 \in 0..OpRetries
  BY VpnManagerAssumption
<1>3. Client!NoPoll \in UiPoll /\ Client!NoPoll.at = "none"
  BY <1>1, <1>2 DEF Client!NoPoll, UiPoll
<1>4. Client!NoOp \in UiOp /\ Client!NoOp.kind = "none" /\ Client!NoOp.at = "none"
  BY <1>1, <1>2 DEF Client!NoOp, UiOp
<1>5. Client!NoEvent \in UiEvent
  BY <1>1, States DEF Client!NoEvent, UiEvent
<1>6. Client!NewView \in Client!ViewType
  BY DEF Client!NewView, Client!ViewType
<1>. QED
  BY <1>1, <1>3, <1>4, <1>5, <1>6

\* The types of the fields of the service and of the page.
LEMMA Fields ==
    ASSUME NEW u \in Ui
    PROVE  /\ u.key \in BOOLEAN /\ u.state \in {1, 10, 20, 100, 200} /\ u.working \in BOOLEAN
           /\ u.requested \in Servers \union {None} /\ u.updatesStopped \in BOOLEAN
           /\ u.poll \in UiPoll /\ u.op \in UiOp /\ u.event \in UiEvent
           /\ u.page \in Client!VpnPages \union {"error", "login"} /\ u.view \in Client!ViewType
BY States DEF Ui

\* processAppData makes app data of what the visor answers.
LEMMA Answers ==
    ASSUME NEW a \in Client!VisorApp
    PROVE  Client!ProcessAppData(a) \in Client!AppData
BY DEF Client!VisorApp, Client!AppData, Client!ProcessAppData

\* startGettingData of the status page.
LEMMA ShowEventType ==
    ASSUME NEW v \in Client!ViewType, NEW e \in UiEvent
    PROVE  Client!ShowEvent(v, e) \in Client!ViewType
<1>. DEFINE w == [loading |-> FALSE,
                  started |-> e.app.running,
                  busy |-> IF v.stopRequested /\ e.app.running THEN v.busy ELSE e.busy,
                  stopRequested |-> v.stopRequested /\ e.app.running]
<1>1. e.app.running \in BOOLEAN /\ e.busy \in BOOLEAN /\ v.busy \in BOOLEAN /\ v.stopRequested \in BOOLEAN
  BY DEF UiEvent, Client!AppData, Client!ViewType
<1>2. w \in Client!ViewType
  BY <1>1 DEF Client!ViewType
<1>3. Client!ShowEvent(v, e) = v \/ Client!ShowEvent(v, e) = w
  BY DEF Client!ShowEvent
<1>. HIDE DEF w
<1>. QED
  BY <1>2, <1>3

\* sendUpdate changes what is shown only.
LEMMA SendUpdateFacts ==
    ASSUME NEW u \in Ui, NEW a \in Client!AppData
    PROVE  LET v == Client!SendUpdate(u, a)
           IN  /\ v \in Ui /\ Rest(v, u) /\ v.state = u.state /\ v.working = u.working
               /\ v.op = u.op /\ v.poll = u.poll
<1>. DEFINE e == [state |-> u.state, busy |-> u.working, app |-> a]
            w == IF u.page = "status" THEN Client!ShowEvent(u.view, e) ELSE u.view
            v == [u EXCEPT !.event = e, !.view = w]
<1>1. e \in UiEvent
  BY DEF Ui, UiEvent
<1>2. Client!SendUpdate(u, a) = v
  BY DEF Client!SendUpdate, Ui
<1>. HIDE DEF e
<1>3. w \in Client!ViewType
  BY <1>1, Fields, ShowEventType
<1>. HIDE DEF w
<1>4. /\ v \in Ui /\ Rest(v, u) /\ v.state = u.state /\ v.working = u.working
      /\ v.op = u.op /\ v.poll = u.poll
  BY <1>1, <1>3 DEF Ui, Rest
<1>. QED
  BY <1>2, <1>4

\* stopContinuallyUpdatingData
LEMMA StopPollingFacts ==
    ASSUME NEW u \in Ui
    PROVE  LET v == Client!StopPolling(u)
           IN  /\ v \in Ui /\ Rest(v, u) /\ v.state = u.state /\ v.working = u.working
               /\ v.op = u.op /\ v.poll.at = "none" /\ v.event = u.event
BY Nothing DEF Client!StopPolling, Ui, Rest

\* continuallyUpdateData
LEMMA UpdateDataFacts ==
    ASSUME NEW u \in Ui
    PROVE  LET v == Client!UpdateData(u)
           IN  /\ v \in Ui /\ Rest(v, u) /\ v.state = u.state /\ v.working = u.working
               /\ v.op = u.op
               /\ IF u.working /\ ~Checking(u) THEN v = u ELSE v.poll.at = "waiting"
<1>. DEFINE p == [Client!NoPoll EXCEPT !.at = "waiting"]
            v == [u EXCEPT !.poll = p]
<1>1. p \in UiPoll /\ p.at = "waiting"
  BY Nothing DEF UiPoll
<1>. HIDE DEF p
<1>2. /\ v \in Ui /\ Rest(v, u) /\ v.state = u.state /\ v.working = u.working
      /\ v.op = u.op /\ v.poll = p
  BY <1>1 DEF Ui, Rest
<1>3. Client!UpdateData(u) = IF u.working /\ ~Checking(u) THEN u ELSE v
  BY DEF Client!UpdateData, Checking, p
<1>. HIDE DEF v
<1>. QED
  BY <1>1, <1>2, <1>3 DEF Rest

\* What changeAppState and processServerChange do first.
LEMMA BusyFacts ==
    ASSUME NEW u \in Ui
    PROVE  LET v == Client!SendUpdate([Client!StopPolling(u) EXCEPT !.working = TRUE], u.event.app)
           IN  /\ v \in Ui /\ Rest(v, u) /\ v.state = u.state /\ v.working = TRUE
               /\ v.op = u.op /\ v.poll.at = "none"
<1>. DEFINE x == Client!StopPolling(u)
            w == [x EXCEPT !.working = TRUE]
            v == Client!SendUpdate(w, u.event.app)
<1>1. x \in Ui /\ Rest(x, u) /\ x.state = u.state /\ x.op = u.op /\ x.poll.at = "none"
  BY StopPollingFacts
<1>. HIDE DEF x
<1>2. w \in Ui /\ Rest(w, u) /\ w.state = u.state /\ w.working = TRUE /\ w.op = u.op /\ w.poll.at = "none"
  BY <1>1 DEF Ui, Rest
<1>3. u.event.app \in Client!AppData
  BY DEF Ui, UiEvent
<1>. HIDE DEF w
<1>4. /\ v \in Ui /\ Rest(v, w) /\ v.state = w.state /\ v.working = w.working
      /\ v.op = w.op /\ v.poll = w.poll
  BY <1>2, <1>3, SendUpdateFacts
<1>. HIDE DEF v
<1>5. /\ v \in Ui /\ Rest(v, u) /\ v.state = u.state /\ v.working = TRUE
      /\ v.op = u.op /\ v.poll.at = "none"
  BY <1>2, <1>4 DEF Rest
<1>. QED
  BY <1>5 DEF v, w, x

\* changeAppState
LEMMA ChangeAppStateFacts ==
    ASSUME NEW u \in Ui, ~u.working, NEW kind \in {"start", "stop"}
    PROVE  LET v == Client!ChangeAppState(u, kind)
           IN  /\ v \in Ui /\ Rest(v, u) /\ v.working /\ v.poll.at = "none"
               /\ v.op.kind = kind /\ v.op.at = "sent"
               /\ v.state = IF kind = "start" THEN 20 ELSE 200
<1>. DEFINE b == Client!SendUpdate([Client!StopPolling(u) EXCEPT !.working = TRUE], u.event.app)
            o == [Client!NoOp EXCEPT !.kind = kind, !.at = "sent"]
            n == IF kind = "start" THEN Client!Starting ELSE Client!Disconnecting
            w == [b EXCEPT !.state = n]
            v == [w EXCEPT !.op = o]
<1>1. /\ b \in Ui /\ Rest(b, u) /\ b.working = TRUE /\ b.poll.at = "none"
  BY BusyFacts
<1>2. o \in UiOp /\ o.kind = kind /\ o.at = "sent"
  BY Nothing DEF UiOp
<1>3. n \in Client!States /\ n = IF kind = "start" THEN 20 ELSE 200
  BY States
<1>4. Client!ChangeAppState(u, kind) = v
  BY <1>1 DEF Client!ChangeAppState, Ui
<1>. HIDE DEF b, o, n
<1>5. w \in Ui /\ Rest(w, u) /\ w.working = TRUE /\ w.poll.at = "none" /\ w.state = n
  BY <1>1, <1>3 DEF Ui, Rest
<1>. HIDE DEF w
<1>6. /\ v \in Ui /\ Rest(v, u) /\ v.working = TRUE /\ v.poll.at = "none"
      /\ v.op = o /\ v.state = n
  BY <1>2, <1>5 DEF Ui, Rest
<1>. HIDE DEF v
<1>. QED
  BY <1>2, <1>3, <1>4, <1>6

\* processServerChange of the service
LEMMA SendServerChangeFacts ==
    ASSUME NEW u \in Ui
    PROVE  LET v == Client!SendServerChange(u)
           IN  /\ v \in Ui /\ Rest(v, u) /\ v.working /\ v.poll.at = "none"
               /\ v.op.kind = "change" /\ v.op.at = "sent" /\ v.state = u.state
<1>. DEFINE b == Client!SendUpdate([Client!StopPolling(u) EXCEPT !.working = TRUE], u.event.app)
            o == [Client!NoOp EXCEPT !.kind = "change", !.at = "sent"]
            v == [b EXCEPT !.op = o]
<1>1. /\ b \in Ui /\ Rest(b, u) /\ b.working = TRUE /\ b.poll.at = "none" /\ b.state = u.state
  BY BusyFacts
<1>2. o \in UiOp /\ o.kind = "change" /\ o.at = "sent"
  BY Nothing DEF UiOp
<1>3. Client!SendServerChange(u) = v
  BY DEF Client!SendServerChange
<1>. HIDE DEF b, o
<1>4. /\ v \in Ui /\ Rest(v, u) /\ v.working = TRUE /\ v.poll.at = "none"
      /\ v.op = o /\ v.state = b.state
  BY <1>1, <1>2 DEF Ui, Rest
<1>. HIDE DEF v
<1>. QED
  BY <1>1, <1>2, <1>3, <1>4

\* Two states of the service that differ in the view and the event only.
Same(v, u) ==
    Rest(v, u) /\ v.state = u.state /\ v.working = u.working /\ v.op = u.op /\ v.poll = u.poll

\* The invariant speaks of neither the view nor the event.
LEMMA SameKeeps ==
    ASSUME NEW u, NEW v, Same(v, u)
    PROVE  (Base(u) => Base(v)) /\ (Alone(u) => Alone(v))
BY DEF Same, Rest, Base, Alone, Checking

\* A button shows that it is working.
LEMMA BusyView ==
    ASSUME NEW v \in Client!ViewType
    PROVE  [v EXCEPT !.busy = TRUE] \in Client!ViewType
BY DEF Client!ViewType

\* A new view: a button was pressed.
LEMMA ViewFacts ==
    ASSUME NEW u \in Ui, NEW x \in Client!ViewType
    PROVE  [u EXCEPT !.view = x] \in Ui /\ Same([u EXCEPT !.view = x], u)
BY DEF Ui, Same, Rest

\* A free service is alone when the next update is on its way.
LEMMA FreeIsAlone ==
    ASSUME NEW u \in Ui, ~u.working, u.op.kind = "none", u.op.at = "none", ~Checking(u)
    PROVE  /\ Base(u)
           /\ u.requested = None /\ u.state # 200 /\ u.poll.at = "waiting" => Alone(u)
BY States DEF Base, Alone, Checking

\* The end of every callback of an operation.
LEMMA Settles ==
    ASSUME NEW u \in Ui, NEW a \in Client!AppData, ~u.working
    PROVE  LET v == Client!UpdateData(Client!SendUpdate(u, a))
           IN  /\ v \in Ui /\ Rest(v, u) /\ v.state = u.state /\ ~v.working
               /\ v.op = u.op /\ v.poll.at = "waiting"
<1>. DEFINE w == Client!SendUpdate(u, a)
            v == Client!UpdateData(w)
<1>1. w \in Ui /\ Rest(w, u) /\ w.state = u.state /\ w.working = u.working /\ w.op = u.op
  BY SendUpdateFacts
<1>. HIDE DEF w
<1>2. v \in Ui /\ Rest(v, w) /\ v.state = w.state /\ v.working = w.working /\ v.op = w.op
  BY <1>1, UpdateDataFacts
<1>3. v.poll.at = "waiting"
  BY <1>1, UpdateDataFacts
<1>. HIDE DEF v
<1>4. v \in Ui /\ Rest(v, u) /\ v.state = u.state /\ ~v.working /\ v.op = u.op /\ v.poll.at = "waiting"
  BY <1>1, <1>2, <1>3 DEF Rest
<1>. QED
  BY <1>4 DEF v, w

\* A change of server is sent by a service that knows the state of the app.
LEMMA SendServerChangeKeeps ==
    ASSUME NEW u \in Ui, ~Checking(u)
    PROVE  LET v == Client!SendServerChange(u)
           IN  v \in Ui /\ Base(v) /\ (u.state = 10 => Alone(v))
<1>. DEFINE v == Client!SendServerChange(u)
<1>1. /\ v \in Ui /\ v.working /\ v.poll.at = "none"
      /\ v.op.kind = "change" /\ v.op.at = "sent" /\ v.state = u.state
  BY SendServerChangeFacts
<1>. HIDE DEF v
<1>2. Base(v) /\ (u.state = 10 => Alone(v))
  BY <1>1, States DEF Base, Alone, Checking
<1>. QED
  BY <1>1, <1>2 DEF v

\* start, of a service that can start the app and of any other.
LEMMA StartFacts ==
    ASSUME NEW u \in Ui, Base(u)
    PROVE  LET v == Client!Start(u)
           IN  /\ v \in Ui /\ Base(v)
               /\ Client!CanStart(u) /\ u.requested = None => Alone(v)
               /\ Alone(u) => Alone(v)
<1>. DEFINE v == Client!Start(u)
<1>1. CASE Client!CanStart(u)
  <2>1. ~u.working /\ v = Client!ChangeAppState(u, "start")
    BY <1>1 DEF Client!CanStart, Client!Start
  <2>2. /\ v \in Ui /\ Rest(v, u) /\ v.working /\ v.poll.at = "none"
        /\ v.op.kind = "start" /\ v.op.at = "sent" /\ v.state = 20
    BY <2>1, ChangeAppStateFacts
  <2>3. Alone(u) => u.requested = None
    BY <2>1 DEF Base, Alone
  <2>. HIDE DEF v
  <2>4. Base(v) /\ (u.requested = None => Alone(v))
    BY <2>2, States DEF Base, Alone, Checking, Rest
  <2>. QED
    BY <2>2, <2>3, <2>4 DEF v
<1>2. CASE ~Client!CanStart(u)
  BY <1>2 DEF Client!Start
<1>. QED
  BY <1>1, <1>2

\* stop, of a service that can stop the app and of any other.
LEMMA StopFacts ==
    ASSUME NEW u \in Ui, Base(u)
    PROVE  LET v == Client!Stop(u)
           IN  /\ v \in Ui /\ Base(v)
               /\ Client!CanStop(u) \/ Alone(u) => Alone(v)
<1>. DEFINE v == Client!Stop(u)
<1>1. CASE Client!CanStop(u)
  <2>1. ~u.working /\ v = Client!ChangeAppState(u, "stop")
    BY <1>1 DEF Client!CanStop, Client!Stop
  <2>2. /\ v \in Ui /\ Rest(v, u) /\ v.working /\ v.poll.at = "none"
        /\ v.op.kind = "stop" /\ v.op.at = "sent" /\ v.state = 200
    BY <2>1, ChangeAppStateFacts
  <2>. HIDE DEF v
  <2>3. Base(v) /\ Alone(v)
    BY <2>2, States DEF Base, Alone, Checking, Rest
  <2>. QED
    BY <2>2, <2>3 DEF v
<1>2. CASE ~Client!CanStop(u)
  BY <1>2 DEF Client!Stop
<1>. QED
  BY <1>1, <1>2

\* changeServer: a free service stops the app first, or asks for the change.
LEMMA ChangeServerFacts ==
    ASSUME NEW u \in Ui, Base(u), NEW s \in Servers \union {None}
    PROVE  LET v == Client!ChangeServer(u, s)
           IN  v \in Ui /\ Base(v) /\ (Alone(u) /\ ~u.working => Alone(v))
<1>. DEFINE w == [u EXCEPT !.requested = s]
            v == Client!ChangeServer(u, s)
<1>1. /\ w \in Ui /\ w.state = u.state /\ w.working = u.working /\ w.op = u.op /\ w.poll = u.poll
  BY DEF Ui
<1>2. v = CASE w.working -> w
             [] Client!CanStop(w) -> Client!Stop(w)
             [] OTHER -> Client!SendServerChange(w)
  BY DEF Client!ChangeServer
<1>. HIDE DEF v, w
<1>. SUFFICES v \in Ui /\ Base(v) /\ (Alone(u) /\ ~u.working => Alone(v))
  BY DEF v
<1>3. Base(w)
  BY <1>1 DEF Base, Checking
<1>4. CASE w.working
  <2>1. v = w
    BY <1>2, <1>4 DEF Client!CanStop
  <2>. QED
    BY <1>1, <1>3, <1>4, <2>1
<1>5. CASE ~w.working /\ Client!CanStop(w)
  <2>1. v = Client!Stop(w)
    BY <1>2, <1>5 DEF Client!CanStop
  <2>. QED
    BY <1>1, <1>3, <1>5, <2>1, StopFacts
<1>6. CASE ~w.working /\ ~Client!CanStop(w)
  <2>1. ~Checking(w)
    BY <1>3, <1>6 DEF Base
  <2>2. Alone(u) => w.state = 10
    <3>1. w.state \in {1, 10, 20, 100, 200}
      BY <1>1, Fields
    <3>2. Alone(u) => w.state # 200
      BY <1>1, <1>3, <1>6, States DEF Alone, Base
    <3>3. w.state # 1
      BY <2>1, States DEF Checking
    <3>4. ~(w.state >= 20 /\ w.state < 200)
      BY <1>6 DEF Client!CanStop
    <3>. QED
      BY <3>1, <3>2, <3>3, <3>4
  <2>3. v = Client!SendServerChange(w)
    BY <1>2, <1>6
  <2>. QED
    BY <1>1, <2>1, <2>2, <2>3, SendServerChangeKeeps
<1>. QED
  BY <1>4, <1>5, <1>6

\* initialize, and the navigation to a VPN page.
LEMMA InitializeFacts ==
    ASSUME NEW u \in Ui
    PROVE  LET v == Client!Initialize(u)
           IN  /\ v \in Ui /\ v.state = u.state /\ v.working = u.working /\ v.op = u.op
               /\ v.requested = u.requested /\ v.page = u.page
               /\ ~u.key \/ u.updatesStopped =>
                     IF u.working /\ ~Checking(u) THEN v.poll = u.poll ELSE v.poll.at = "waiting"
               /\ ~(~u.key \/ u.updatesStopped) => v = u
<1>. DEFINE w == [u EXCEPT !.key = TRUE, !.updatesStopped = FALSE]
            v == Client!Initialize(u)
<1>1. /\ w \in Ui /\ w.state = u.state /\ w.working = u.working /\ w.op = u.op
      /\ w.requested = u.requested /\ w.page = u.page /\ w.poll = u.poll
  BY DEF Ui
<1>2. v = IF ~u.key \/ u.updatesStopped THEN Client!UpdateData(w) ELSE u
  BY DEF Client!Initialize
<1>. HIDE DEF v, w
<1>. SUFFICES /\ v \in Ui /\ v.state = u.state /\ v.working = u.working /\ v.op = u.op
              /\ v.requested = u.requested /\ v.page = u.page
              /\ ~u.key \/ u.updatesStopped =>
                    IF u.working /\ ~Checking(u) THEN v.poll = u.poll ELSE v.poll.at = "waiting"
              /\ ~(~u.key \/ u.updatesStopped) => v = u
  BY DEF v
<1>3. CASE ~u.key \/ u.updatesStopped
  <2>1. v = Client!UpdateData(w)
    BY <1>2, <1>3
  <2>2. /\ v \in Ui /\ Rest(v, w) /\ v.state = w.state /\ v.working = w.working /\ v.op = w.op
        /\ IF w.working /\ ~Checking(w) THEN v = w ELSE v.poll.at = "waiting"
    BY <1>1, <2>1, UpdateDataFacts
  <2>. QED
    BY <1>1, <1>3, <2>2 DEF Rest, Checking
<1>4. CASE ~(~u.key \/ u.updatesStopped)
  BY <1>2, <1>4
<1>. QED
  BY <1>3, <1>4

\* The navigation to a VPN page keeps the service as it is, or lets it poll.
LEMMA GoToFacts ==
    ASSUME NEW u \in Ui, Base(u), NEW p \in Client!VpnPages
    PROVE  LET v == Client!GoTo(u, p)
           IN  v \in Ui /\ v.working = u.working /\ Base(v) /\ (Alone(u) => Alone(v))
<1>. DEFINE x == IF p = "status" THEN Client!ShowEvent(Client!NewView, u.event) ELSE Client!NewView
            w == [u EXCEPT !.page = p, !.view = x]
            v == Client!GoTo(u, p)
<1>1. x \in Client!ViewType
  BY Nothing, Fields, ShowEventType
<1>2. v = IF u.page = "error" THEN u ELSE Client!Initialize(w)
  BY DEF Client!GoTo
<1>. HIDE DEF x
<1>3. /\ w \in Ui /\ w.state = u.state /\ w.working = u.working /\ w.op = u.op
      /\ w.requested = u.requested /\ w.page = p /\ w.poll = u.poll
      /\ w.key = u.key /\ w.updatesStopped = u.updatesStopped
  BY <1>1 DEF Ui
<1>. HIDE DEF v, w
<1>. SUFFICES v \in Ui /\ v.working = u.working /\ Base(v) /\ (Alone(u) => Alone(v))
  BY DEF v
<1>4. CASE u.page # "error"
  <2>1. v = Client!Initialize(w)
    BY <1>2, <1>4
  <2>2. /\ v \in Ui /\ v.state = w.state /\ v.working = w.working /\ v.op = w.op
        /\ v.requested = w.requested /\ v.page = w.page
        /\ ~w.key \/ w.updatesStopped =>
              IF w.working /\ ~Checking(w) THEN v.poll = w.poll ELSE v.poll.at = "waiting"
        /\ ~(~w.key \/ w.updatesStopped) => v = w
    BY <1>3, <2>1, InitializeFacts
  <2>3. Base(v)
    BY <1>3, <2>2 DEF Base, Checking
  <2>4. ASSUME Alone(u)
        PROVE  v.op.kind = "none" => v.poll.at # "none"
    <3>. SUFFICES ASSUME v.op.kind = "none"
                  PROVE  v.poll.at # "none"
      OBVIOUS
    <3>1. ~(w.working /\ ~Checking(w))
      BY <1>3, <2>2, <2>4 DEF Alone, Checking
    <3>2. CASE ~w.key \/ w.updatesStopped
      BY <2>2, <3>1, <3>2
    <3>3. CASE ~(~w.key \/ w.updatesStopped)
      BY <1>3, <1>4, <2>2, <2>4, <3>3 DEF Alone
    <3>. QED
      BY <3>2, <3>3
  <2>5. Alone(u) => Alone(v)
    BY <1>3, <2>2, <2>4 DEF Alone, Checking
  <2>. QED
    BY <1>3, <2>2, <2>3, <2>5
<1>5. CASE u.page = "error"
  BY <1>2, <1>5
<1>. QED
  BY <1>4, <1>5

\* The error page stops the updates; the login page is left with them stopped.
LEMMA GoToErrorFacts ==
    ASSUME NEW u \in Ui
    PROVE  LET v == Client!GoToError(u)
           IN  /\ v \in Ui /\ v.working = u.working
               /\ Base(u) => Base(v)
               /\ Base(u) /\ Alone(u) => Alone(v)
<1>. DEFINE w == [u EXCEPT !.page = "error", !.view = Client!NewView]
            v == Client!StopPolling(w)
<1>1. /\ w \in Ui /\ w.state = u.state /\ w.working = u.working /\ w.op = u.op
      /\ w.requested = u.requested /\ w.page = "error"
  BY Nothing DEF Ui
<1>. HIDE DEF w
<1>2. /\ v \in Ui /\ Rest(v, w) /\ v.state = w.state /\ v.working = w.working
      /\ v.op = w.op /\ v.poll.at = "none"
  BY <1>1, StopPollingFacts
<1>. HIDE DEF v
<1>3. /\ v \in Ui /\ v.working = u.working
      /\ Base(u) => Base(v)
      /\ Alone(u) => Alone(v)
  BY <1>1, <1>2 DEF Rest, Base, Alone, Checking
<1>. QED
  BY <1>3 DEF Client!GoToError, v, w

\* The navigation to the login page changes the page only.
LEMMA GoToLoginFacts ==
    ASSUME NEW u \in Ui
    PROVE  LET v == Client!GoToLogin(u)
           IN  /\ v \in Ui /\ v.state = u.state /\ v.working = u.working /\ v.op = u.op
               /\ v.poll = u.poll /\ v.requested = u.requested
               /\ v.updatesStopped = u.updatesStopped /\ v.page \in {"error", "login"}
<1>. DEFINE p == IF u.page = "error" THEN u.page ELSE "login"
            v == [u EXCEPT !.page = p, !.view = Client!NewView]
<1>1. Client!GoToLogin(u) = v
  BY DEF Client!GoToLogin, Ui
<1>2. p \in {"error", "login"}
  OBVIOUS
<1>. HIDE DEF p
<1>3. /\ v \in Ui /\ v.state = u.state /\ v.working = u.working /\ v.op = u.op
      /\ v.poll = u.poll /\ v.requested = u.requested
      /\ v.updatesStopped = u.updatesStopped /\ v.page = p
  BY <1>2, Nothing DEF Ui
<1>. HIDE DEF v
<1>. QED
  BY <1>1, <1>2, <1>3

\* The success callback of changeAppState.
LEMMA AppStateChangedFacts ==
    ASSUME NEW u \in Ui, NEW a \in Client!AppData
    PROVE  LET v == Client!AppStateChanged(u, a)
           IN  /\ v \in Ui /\ Base(v)
               /\ (u.op.kind = "stop" /\ ~a.running) \/ u.requested = None => Alone(v)
               /\ u.op.kind # "stop" \/ u.requested = None => ~v.working
<1>. DEFINE n == IF a.running THEN Client!Running ELSE Client!Off
            w == [u EXCEPT !.working = FALSE, !.op = Client!NoOp, !.state = n]
            s == Client!UpdateData(Client!SendUpdate(w, a))
            v == Client!AppStateChanged(u, a)
<1>1. n \in Client!States /\ n = IF a.running THEN 100 ELSE 10
  BY States
<1>2. v = IF u.op.kind = "stop" /\ u.requested # None THEN Client!SendServerChange(s) ELSE s
  BY DEF Client!AppStateChanged
<1>. HIDE DEF n
<1>3. /\ w \in Ui /\ ~w.working /\ w.op = Client!NoOp /\ w.state = n
      /\ w.requested = u.requested
  BY <1>1, Nothing DEF Ui
<1>. HIDE DEF w
<1>4. /\ s \in Ui /\ Rest(s, w) /\ s.state = w.state /\ ~s.working
      /\ s.op = w.op /\ s.poll.at = "waiting"
  BY <1>3, Settles
<1>. HIDE DEF s, v
<1>. SUFFICES /\ v \in Ui /\ Base(v)
              /\ (u.op.kind = "stop" /\ ~a.running) \/ u.requested = None => Alone(v)
              /\ u.op.kind # "stop" \/ u.requested = None => ~v.working
  BY DEF v
<1>5. ~Checking(s)
  BY <1>1, <1>3, <1>4, States DEF Checking
<1>6. CASE u.op.kind = "stop" /\ u.requested # None
  <2>1. v = Client!SendServerChange(s)
    BY <1>2, <1>6
  <2>2. v \in Ui /\ Base(v) /\ (s.state = 10 => Alone(v))
    BY <1>4, <1>5, <2>1, SendServerChangeKeeps
  <2>3. ~a.running => s.state = 10
    BY <1>1, <1>3, <1>4
  <2>. QED
    BY <1>6, <2>2, <2>3
<1>7. CASE ~(u.op.kind = "stop" /\ u.requested # None)
  <2>1. v = s
    BY <1>2, <1>7
  <2>2. s.op.kind = "none" /\ s.op.at = "none"
    BY <1>3, <1>4, Nothing
  <2>3. s.state # 200
    BY <1>1, <1>3, <1>4
  <2>4. s.requested = u.requested
    BY <1>3, <1>4 DEF Rest
  <2>5. Base(s) /\ (u.requested = None => Alone(s))
    BY <1>4, <1>5, <2>2, <2>3, <2>4, FreeIsAlone
  <2>. QED
    BY <1>4, <1>7, <2>1, <2>5
<1>. QED
  BY <1>6, <1>7

\* The first state of a service that was just created.
LEMMA FreshFacts ==
    LET v == Client!Initialize(Client!Fresh)
    IN  /\ v \in Ui /\ v.op.kind = "none" /\ v.op.at = "none" /\ v.working /\ Checking(v)
        /\ v.requested = None /\ v.poll.at = "waiting"
<1>. DEFINE f == Client!Fresh
            v == Client!Initialize(f)
<1>1. /\ f \in Ui /\ f.op = Client!NoOp /\ f.working /\ Checking(f)
      /\ f.requested = None /\ ~f.key
  BY Nothing DEF Client!Fresh, Ui, Client!States, Checking, Client!VpnPages
<1>. HIDE DEF f
<1>2. /\ v \in Ui /\ v.state = f.state /\ v.working = f.working /\ v.op = f.op
      /\ v.requested = f.requested
      /\ ~f.key \/ f.updatesStopped =>
            IF f.working /\ ~Checking(f) THEN v.poll = f.poll ELSE v.poll.at = "waiting"
  BY <1>1, InitializeFacts
<1>. HIDE DEF v
<1>3. /\ v \in Ui /\ v.op.kind = "none" /\ v.op.at = "none" /\ v.working /\ Checking(v)
      /\ v.requested = None /\ v.poll.at = "waiting"
  BY <1>1, <1>2, Nothing DEF Checking
<1>. QED
  BY <1>3 DEF v, f

-----------------------------------------------------------------------------
(* The callbacks of the service and the actions of the user *)

\* A step keeps the invariant of the service when the record ui stays one.
Keeps(v, u) == v \in Ui /\ Base(v) /\ (Alone(u) => Alone(v))

\* Most steps leave the windows alone, and none of them makes a free service busy.
LEMMA StepKeeps ==
    ASSUME ServiceInv, OtherTypes', Keeps(ui', ui), dialog' = dialog,
           dialog.kind = "change" => ~ui'.working
    PROVE  ServiceInv'
BY DEF ServiceInv, Keeps, AskedWhileFree

\* The windows that the actions open.
LEMMA Windows ==
    /\ Client!NoDialog \in Window /\ Client!NoDialog.kind = "none"
    /\ [kind |-> "stop", server |-> None] \in Window
    /\ \A s \in Servers, k \in {"change", "start", "block"} : [kind |-> k, server |-> s] \in Window
BY DEF Window, Client!NoDialog

\* The bound on disturbances holds.
LEMMA DisturbType ==
    ASSUME count \in 0..MaxDisturbances, Client!Disturb
    PROVE  count' \in 0..MaxDisturbances
BY VpnManagerAssumption DEF Client!Disturb

\* A poll in another phase.
LEMMA PollFacts ==
    ASSUME NEW u \in Ui, Base(u), u.op.kind = "none", NEW p \in UiPoll, p.at # "none"
    PROVE  LET v == [u EXCEPT !.poll = p]
           IN  Keeps(v, u) /\ v.working = u.working
<1>. DEFINE v == [u EXCEPT !.poll = p]
<1>1. v \in Ui /\ Rest(v, u) /\ v.state = u.state /\ v.working = u.working /\ v.op = u.op /\ v.poll = p
  BY DEF Ui, Rest
<1>. HIDE DEF v
<1>2. Base(v) /\ (Alone(u) => Alone(v))
  BY <1>1 DEF Base, Alone, Checking, Rest
<1>. QED
  BY <1>1, <1>2 DEF Keeps, v

\* An operation in another phase.
LEMMA OpFacts ==
    ASSUME NEW u \in Ui, Base(u), u.op.kind # "none",
           NEW o \in UiOp, o.kind = u.op.kind, o.at # "none",
           "stop" \notin FaultyOps /\ o.kind = "stop" =>
               o.at = "sent" \/ (o.at = "answered" /\ ~o.data.running)
    PROVE  LET v == [u EXCEPT !.op = o]
           IN  /\ v \in Ui /\ Base(v) /\ ("stop" \notin FaultyOps /\ Alone(u) => Alone(v))
               /\ Rest(v, u) /\ v.state = u.state /\ v.working = u.working
               /\ v.poll = u.poll /\ v.op = o
<1>. DEFINE v == [u EXCEPT !.op = o]
<1>1. v \in Ui /\ Rest(v, u) /\ v.state = u.state /\ v.working = u.working /\ v.op = o /\ v.poll = u.poll
  BY DEF Ui, Rest
<1>. HIDE DEF v
<1>2. Base(v) /\ ("stop" \notin FaultyOps /\ Alone(u) => Alone(v))
  BY <1>1 DEF Base, Alone, Checking, Rest
<1>. QED
  BY <1>1, <1>2 DEF v

\* The callbacks of the poll find the service without an operation.
LEMMA PollingKeeps == ServiceInv /\ Client!Polling => ServiceInv'
<1>. SUFFICES ASSUME ServiceInv, Client!Polling
              PROVE  ServiceInv'
  OBVIOUS
<1>. USE DEF ServiceInv
<1>1. ui.poll \in UiPoll /\ ui.poll.at # "none"
  BY DEF Client!Polling, Client!PollAsk, Client!PollServe, Client!PollAnswer, Client!PollFailed,
         Client!PollDenied, Ui
<1>2. ui.op.kind = "none" /\ ui.op.at = "none"
  BY <1>1 DEF Base
<1>3. OtherTypes' /\ dialog' = dialog
  <2>1. ui.poll.data.pk \in Servers \union {None}
    BY <1>1 DEF UiPoll, Client!AppData
  <2>2. count' \in 0..MaxDisturbances
    BY DisturbType DEF OtherTypes, Client!Polling, Client!PollAsk, Client!PollServe,
       Client!PollAnswer, Client!PollFailed, Client!PollDenied, Client!May
  <2>. QED
    BY <2>1, <2>2 DEF OtherTypes, Client!Polling, Client!PollAsk, Client!PollServe,
       Client!PollAnswer, Client!PollFailed, Client!PollDenied, Client!CompareCurrentServer
<1>. SUFFICES Keeps(ui', ui) /\ (ui'.working => ui.working)
  <2>1. ui'.working \in BOOLEAN /\ ui.working \in BOOLEAN
    BY Fields DEF Keeps
  <2>. QED
    BY <1>3 DEF Keeps, AskedWhileFree
<1>4. CASE Client!PollAsk
  <2>. DEFINE p == [ui.poll EXCEPT !.at = "asked"]
  <2>1. p \in UiPoll /\ p.at # "none"
    BY <1>1 DEF UiPoll
  <2>2. ui' = [ui EXCEPT !.poll = p]
    BY <1>4 DEF Client!PollAsk, Ui
  <2>. HIDE DEF p
  <2>. QED
    BY <1>2, <2>1, <2>2, PollFacts
<1>5. CASE Client!PollServe
  <2>1. PICK at \in {"answered", "failed", "denied"}, d \in Client!AppData :
            ui' = [ui EXCEPT !.poll.at = at, !.poll.data = d]
    <3>1. Client!ProcessAppData(app) \in Client!AppData
      BY Answers DEF OtherTypes
    <3>2. CASE ui' = [ui EXCEPT !.poll.at = "answered", !.poll.data = Client!ProcessAppData(app)]
      BY <3>1, <3>2
    <3>3. CASE \E bad \in {"failed", "denied"} : ui' = [ui EXCEPT !.poll.at = bad]
      <4>1. PICK bad \in {"failed", "denied"} : ui' = [ui EXCEPT !.poll.at = bad]
        BY <3>3
      <4>2. ui.poll.data \in Client!AppData
        BY <1>1 DEF UiPoll
      <4>3. ui' = [ui EXCEPT !.poll.at = bad, !.poll.data = ui.poll.data]
        BY <1>1, <4>1 DEF Ui, UiPoll
      <4>. QED
        BY <4>2, <4>3
    <3>. QED
      BY <1>5, <3>2, <3>3 DEF Client!PollServe
  <2>. DEFINE p == [ui.poll EXCEPT !.at = at, !.data = d]
  <2>2. p \in UiPoll /\ p.at # "none"
    BY <1>1 DEF UiPoll
  <2>3. ui' = [ui EXCEPT !.poll = p]
    BY <2>1 DEF Ui
  <2>. HIDE DEF p
  <2>. QED
    BY <1>2, <2>2, <2>3, PollFacts
<1>6. CASE Client!PollAnswer
  <2>. DEFINE a == ui.poll.data
              b == IF ui.state = Client!PerformingInitialCheck THEN FALSE ELSE ui.working
              n == IF a.running THEN Client!Running ELSE Client!Off
              u == [ui EXCEPT !.working = b, !.state = n]
              w == Client!SendUpdate(u, a)
  <2>1. a \in Client!AppData
    BY <1>1 DEF UiPoll
  <2>2. ui' = Client!UpdateData(w)
    BY <1>6 DEF Client!PollAnswer, Ui
  <2>3. n \in Client!States /\ n \in {10, 100}
    BY States
  <2>4. b \in BOOLEAN /\ (b => ui.working)
    BY Fields
  <2>5. Alone(ui) => ~b
    BY <1>2 DEF Alone, Checking
  <2>. HIDE DEF a, b, n
  <2>6. u \in Ui /\ Rest(u, ui) /\ u.working = b /\ u.state = n /\ u.op = ui.op
    BY <2>3, <2>4 DEF Ui, Rest
  <2>. HIDE DEF u
  <2>7. w \in Ui /\ Rest(w, u) /\ w.state = u.state /\ w.working = u.working /\ w.op = u.op
    BY <2>1, <2>6, SendUpdateFacts
  <2>8. ~b => ui'.poll.at = "waiting"
    BY <2>1, <2>2, <2>6, Settles
  <2>. HIDE DEF w
  <2>9. /\ ui' \in Ui /\ Rest(ui', w) /\ ui'.state = n /\ ui'.working = b /\ ui'.op = ui.op
    BY <2>2, <2>6, <2>7, UpdateDataFacts
  <2>10. ~Checking(ui') /\ ui'.state # 200
    BY <2>3, <2>9, States DEF Checking
  <2>11. Base(ui')
    BY <1>2, <2>9, <2>10 DEF Base
  <2>12. Alone(ui) => ui'.requested = None
    BY <1>2, <2>6, <2>7, <2>9 DEF Rest, Alone
  <2>13. Alone(ui) => Alone(ui')
    BY <1>2, <2>5, <2>8, <2>9, <2>10, <2>12, FreeIsAlone
  <2>. QED
    BY <2>4, <2>9, <2>11, <2>13 DEF Keeps
<1>7. CASE Client!PollFailed
  <2>1. CASE ui' = [ui EXCEPT !.poll.at = "waiting"]
    <3>. DEFINE p == [ui.poll EXCEPT !.at = "waiting"]
    <3>1. p \in UiPoll /\ p.at # "none"
      BY <1>1 DEF UiPoll
    <3>2. ui' = [ui EXCEPT !.poll = p]
      BY <2>1 DEF Ui
    <3>. HIDE DEF p
    <3>. QED
      BY <1>2, <3>1, <3>2, PollFacts
  <2>2. CASE ui.poll.tries < InitialRetries /\ ui' = [ui EXCEPT !.poll.at = "waiting", !.poll.tries = @ + 1]
    <3>. DEFINE t == ui.poll.tries + 1
                p == [ui.poll EXCEPT !.at = "waiting", !.tries = t]
    <3>1. t \in 0..InitialRetries
      BY <1>1, <2>2, VpnManagerAssumption DEF UiPoll
    <3>2. ui' = [ui EXCEPT !.poll = p]
      BY <2>2 DEF Ui
    <3>. HIDE DEF t
    <3>3. p \in UiPoll /\ p.at # "none"
      BY <1>1, <3>1 DEF UiPoll
    <3>. HIDE DEF p
    <3>. QED
      BY <1>2, <3>2, <3>3, PollFacts
  <2>3. CASE ui' = Client!GoToError([ui EXCEPT !.key = FALSE, !.updatesStopped = TRUE])
    <3>. DEFINE u == [ui EXCEPT !.key = FALSE, !.updatesStopped = TRUE]
    <3>1. /\ u \in Ui /\ u.working = ui.working /\ u.op = ui.op /\ u.state = ui.state
          /\ u.poll = ui.poll /\ u.requested = ui.requested /\ u.page = ui.page
      BY DEF Ui
    <3>. HIDE DEF u
    <3>2. Base(u) /\ (Alone(ui) => Alone(u))
      BY <1>1, <3>1 DEF Base, Alone, Checking
    <3>3. ui' = Client!GoToError(u)
      BY <2>3 DEF u
    <3>. QED
      BY <3>1, <3>2, <3>3, GoToErrorFacts DEF Keeps
  <2>. QED
    BY <1>7, <2>1, <2>2, <2>3 DEF Client!PollFailed
<1>8. CASE Client!PollDenied
  <2>. DEFINE x == Client!StopPolling(ui)
              u == [x EXCEPT !.updatesStopped = TRUE]
  <2>1. ui' = Client!GoToLogin(u)
    BY <1>8 DEF Client!PollDenied
  <2>2. /\ x \in Ui /\ Rest(x, ui) /\ x.state = ui.state /\ x.working = ui.working
        /\ x.op = ui.op /\ x.poll.at = "none"
    BY StopPollingFacts
  <2>. HIDE DEF x
  <2>3. /\ u \in Ui /\ u.state = ui.state /\ u.working = ui.working /\ u.op = ui.op
        /\ u.requested = ui.requested /\ u.updatesStopped = TRUE
    BY <2>2 DEF Ui, Rest
  <2>. HIDE DEF u
  <2>4. /\ ui' \in Ui /\ ui'.state = u.state /\ ui'.working = u.working /\ ui'.op = u.op
        /\ ui'.requested = u.requested
        /\ ui'.updatesStopped = u.updatesStopped /\ ui'.page \in {"error", "login"}
    BY <2>1, <2>3, GoToLoginFacts
  <2>5. Base(ui') /\ (Alone(ui) => Alone(ui'))
    BY <1>2, <2>3, <2>4 DEF Base, Alone, Checking
  <2>. QED
    BY <2>3, <2>4, <2>5 DEF Keeps
<1>. QED
  BY <1>4, <1>5, <1>6, <1>7, <1>8 DEF Client!Polling

\* The callbacks of an operation find the service busy.
LEMMA BackendKeeps == ServiceInv /\ Client!Backend => ServiceInv'
<1>. SUFFICES ASSUME ServiceInv, Client!Backend
              PROVE  ServiceInv'
  OBVIOUS
<1>. USE DEF ServiceInv
<1>. DEFINE NoFaultyStop == "stop" \notin FaultyOps
<1>1. ui.op \in UiOp /\ ui.op.at # "none"
  BY DEF Client!Backend, Client!OpServe, Client!AppStateAnswer, Client!AppStateRecheck,
         Client!ServerChangeAnswer, Client!ServerChangeFailed, Ui
<1>2. /\ ui.op.kind \in {"start", "stop", "change"} /\ ui.working /\ ui.poll.at = "none" /\ ~Checking(ui)
      /\ NoFaultyStop => dialog.kind # "change"
  BY <1>1 DEF Base, UiOp, AskedWhileFree
<1>3. Client!Effect \in Client!VisorApp /\ (ui.op.kind = "stop" => Client!Effect.status = 0)
  <2>1. app \in Client!VisorApp /\ ui.requested \in Servers \union {None}
    BY DEF OtherTypes, Ui
  <2>2. CASE ui.op.kind = "start"
    <3>1. Client!Effect = [app EXCEPT !.status = 1]
      BY <2>2 DEF Client!Effect
    <3>. QED
      BY <2>1, <2>2, <3>1 DEF Client!VisorApp
  <2>3. CASE ui.op.kind = "stop"
    <3>1. Client!Effect = [app EXCEPT !.status = 0]
      BY <2>3 DEF Client!Effect
    <3>. QED
      BY <2>1, <2>3, <3>1 DEF Client!VisorApp
  <2>4. CASE ui.op.kind = "change"
    <3>1. Client!Effect = [app EXCEPT !.pk = ui.requested]
      BY <2>4 DEF Client!Effect
    <3>. QED
      BY <2>1, <2>4, <3>1 DEF Client!VisorApp
  <2>. QED
    BY <1>2, <2>2, <2>3, <2>4
<1>4. OtherTypes' /\ dialog' = dialog
  <2>1. count' \in 0..MaxDisturbances
    BY DisturbType DEF OtherTypes, Client!Backend, Client!OpServe, Client!AppStateAnswer, Client!May,
       Client!AppStateRecheck, Client!ServerChangeAnswer, Client!ServerChangeFailed
  <2>2. app' \in Client!VisorApp
    BY <1>3 DEF OtherTypes, Client!Backend, Client!OpServe, Client!AppStateAnswer,
       Client!AppStateRecheck, Client!ServerChangeAnswer, Client!ServerChangeFailed
  <2>3. cur' \in Servers \union {None}
    BY DEF OtherTypes, Client!Backend, Client!OpServe, Client!AppStateAnswer, Ui,
       Client!AppStateRecheck, Client!ServerChangeAnswer, Client!ServerChangeFailed
  <2>4. UNCHANGED <<blocked, dialog>> /\ setting' \in BOOLEAN
    BY DEF OtherTypes, Client!Backend, Client!OpServe, Client!AppStateAnswer,
       Client!AppStateRecheck, Client!ServerChangeAnswer, Client!ServerChangeFailed
  <2>. QED
    BY <2>1, <2>2, <2>3, <2>4 DEF OtherTypes
<1>. SUFFICES ui' \in Ui /\ Base(ui') /\ (NoFaultyStop /\ Alone(ui) => Alone(ui'))
  BY <1>2, <1>4 DEF AskedWhileFree
<1>5. CASE Client!OpServe
  <2>1. CASE /\ app' = Client!Effect
             /\ ui' = [ui EXCEPT !.op.at = "answered", !.op.data = Client!ProcessAppData(app')]
    <3>. DEFINE d == Client!ProcessAppData(app')
                o == [ui.op EXCEPT !.at = "answered", !.data = d]
    <3>1. d \in Client!AppData
      BY <1>3, <2>1, Answers
    <3>2. ui.op.kind = "stop" => ~d.running
      BY <1>3, <2>1 DEF Client!ProcessAppData
    <3>3. ui' = [ui EXCEPT !.op = o]
      BY <2>1 DEF Ui
    <3>. HIDE DEF d
    <3>4. o \in UiOp /\ o.kind = ui.op.kind /\ o.at = "answered" /\ o.data = d
      BY <1>1, <3>1 DEF UiOp
    <3>. HIDE DEF o
    <3>. QED
      BY <1>2, <3>2, <3>3, <3>4, OpFacts
  <2>. DEFINE o == [ui.op EXCEPT !.at = "failed"]
              u == [ui EXCEPT !.op = o]
  <2>2. o \in UiOp /\ o.kind = ui.op.kind /\ o.at = "failed"
    BY <1>1 DEF UiOp
  <2>3. u = [ui EXCEPT !.op.at = "failed"]
    BY DEF Ui
  <2>. HIDE DEF o
  <2>4. Client!May(ui.op.kind) /\ NoFaultyStop => o.kind # "stop"
    BY <2>2 DEF Client!May
  <2>5. ASSUME Client!May(ui.op.kind)
        PROVE  /\ u \in Ui /\ Base(u) /\ (NoFaultyStop /\ Alone(ui) => Alone(u))
               /\ Rest(u, ui) /\ u.state = ui.state /\ u.working = ui.working
               /\ u.poll = ui.poll /\ u.op = o
    BY <1>2, <2>2, <2>4, <2>5, OpFacts
  <2>. HIDE DEF u
  <2>6. CASE Client!May(ui.op.kind) /\ ui' = [ui EXCEPT !.op.at = "failed"]
    BY <2>3, <2>5, <2>6
  <2>7. CASE Client!May(ui.op.kind) /\ ui' = Client!GoToLogin([ui EXCEPT !.op.at = "failed"])
    <3>1. ui' = Client!GoToLogin(u)
      BY <2>3, <2>7
    <3>2. /\ ui' \in Ui /\ ui'.state = u.state /\ ui'.working = u.working /\ ui'.op = u.op
          /\ ui'.poll = u.poll /\ ui'.requested = u.requested
      BY <2>5, <2>7, <3>1, GoToLoginFacts
    <3>3. u.op.kind # "none"
      BY <1>2, <2>2, <2>5, <2>7
    <3>4. Base(u) /\ (NoFaultyStop /\ Alone(ui) => Alone(u))
      BY <2>5, <2>7
    <3>5. Base(ui')
      BY <3>2, <3>4 DEF Base, Checking
    <3>6. Alone(u) => Alone(ui')
      BY <3>2, <3>3 DEF Alone, Checking
    <3>. QED
      BY <3>2, <3>4, <3>5, <3>6
  <2>. QED
    BY <1>5, <2>1, <2>6, <2>7 DEF Client!OpServe
<1>6. CASE Client!AppStateAnswer
  <2>1. ui' = Client!AppStateChanged(ui, ui.op.data) /\ ui.op.at = "answered"
        /\ ui.op.kind \in {"start", "stop"}
    BY <1>6 DEF Client!AppStateAnswer
  <2>2. ui.op.data \in Client!AppData
    BY <1>1 DEF UiOp
  <2>3. Alone(ui) => (ui.op.kind = "stop" /\ ~ui.op.data.running) \/ ui.requested = None
    BY <2>1 DEF Alone
  <2>. QED
    BY <2>1, <2>2, <2>3, AppStateChangedFacts
<1>7. CASE Client!AppStateRecheck
  <2>1. ui.op.at = "failed" /\ ui.op.kind \in {"start", "stop"}
    BY <1>7 DEF Client!AppStateRecheck
  <2>2. Alone(ui) => ui.op.kind = "start" /\ ui.requested = None /\ ui.state # 200
    BY <2>1, States DEF Alone
  <2>3. CASE ui' = Client!AppStateChanged(ui, Client!ProcessAppData(Client!TrueAnswer))
    <3>1. Client!ProcessAppData(Client!TrueAnswer) \in Client!AppData
      BY DEF Client!ProcessAppData, Client!TrueAnswer, Client!AppData
    <3>. QED
      BY <2>2, <2>3, <3>1, AppStateChangedFacts
  <2>4. CASE /\ ui.op.tries < OpRetries
             /\ ui' = [ui EXCEPT !.op.at = "sent", !.op.tries = @ + 1]
    <3>. DEFINE t == ui.op.tries + 1
                o == [ui.op EXCEPT !.at = "sent", !.tries = t]
    <3>1. t \in 0..OpRetries
      BY <1>1, <2>4, VpnManagerAssumption DEF UiOp
    <3>2. ui' = [ui EXCEPT !.op = o]
      BY <2>4 DEF Ui
    <3>. HIDE DEF t
    <3>3. o \in UiOp /\ o.kind = ui.op.kind /\ o.at = "sent"
      BY <1>1, <3>1 DEF UiOp
    <3>. HIDE DEF o
    <3>. QED
      BY <1>2, <3>2, <3>3, OpFacts
  <2>5. CASE ui' = Client!AppStateFailed(ui)
    <3>. DEFINE u == [ui EXCEPT !.working = FALSE, !.op = Client!NoOp]
    <3>1. ui.event.app \in Client!AppData
      BY DEF Ui, UiEvent
    <3>2. ui' = Client!UpdateData(Client!SendUpdate(u, ui.event.app))
      BY <2>5 DEF Client!AppStateFailed
    <3>3. /\ u \in Ui /\ ~u.working /\ u.op = Client!NoOp /\ u.state = ui.state
          /\ u.requested = ui.requested
      BY Nothing DEF Ui
    <3>. HIDE DEF u
    <3>4. /\ ui' \in Ui /\ Rest(ui', u) /\ ui'.state = u.state /\ ~ui'.working
          /\ ui'.op = u.op /\ ui'.poll.at = "waiting"
      BY <3>1, <3>2, <3>3, Settles
    <3>5. ui'.op.kind = "none" /\ ui'.op.at = "none" /\ ~Checking(ui')
      BY <1>2, <3>3, <3>4, Nothing DEF Checking
    <3>6. Alone(ui) => ui'.requested = None /\ ui'.state # 200
      BY <2>2, <3>3, <3>4 DEF Rest
    <3>. QED
      BY <3>4, <3>5, <3>6, FreeIsAlone
  <2>. QED
    BY <1>7, <2>3, <2>4, <2>5 DEF Client!AppStateRecheck
<1>8. CASE Client!ServerChangeAnswer \/ Client!ServerChangeFailed
  <2>. DEFINE u == [ui EXCEPT !.requested = None, !.working = FALSE, !.op = Client!NoOp]
  <2>1. /\ u \in Ui /\ ~u.working /\ u.op = Client!NoOp /\ u.state = ui.state /\ u.requested = None
    BY Nothing DEF Ui
  <2>2. Alone(ui) => ui.state = 10
    BY <1>8, States DEF Alone, Client!ServerChangeAnswer, Client!ServerChangeFailed
  <2>3. Client!ServerChangeAnswer => ui' = Client!Start(u)
    BY DEF Client!ServerChangeAnswer
  <2>4. Client!ServerChangeFailed => ui' = Client!UpdateData(Client!SendUpdate(u, ui.event.app))
    BY DEF Client!ServerChangeFailed
  <2>. HIDE DEF u
  <2>5. u.op.kind = "none" /\ u.op.at = "none" /\ ~Checking(u)
    BY <1>2, <2>1, Nothing DEF Checking
  <2>6. CASE Client!ServerChangeAnswer
    <3>1. Base(u)
      BY <2>1, <2>5, FreeIsAlone
    <3>2. Alone(ui) => Client!CanStart(u)
      BY <2>1, <2>2 DEF Client!CanStart
    <3>. QED
      BY <2>1, <2>3, <2>6, <3>1, <3>2, StartFacts
  <2>7. CASE Client!ServerChangeFailed
    <3>1. ui.event.app \in Client!AppData
      BY DEF Ui, UiEvent
    <3>2. /\ ui' \in Ui /\ Rest(ui', u) /\ ui'.state = u.state /\ ~ui'.working
          /\ ui'.op = u.op /\ ui'.poll.at = "waiting"
      BY <2>1, <2>4, <2>7, <3>1, Settles
    <3>3. ui'.op.kind = "none" /\ ui'.op.at = "none" /\ ~Checking(ui') /\ ui'.requested = None
      BY <2>1, <2>5, <3>2 DEF Checking, Rest
    <3>4. Alone(ui) => ui'.state # 200
      BY <2>1, <2>2, <3>2
    <3>. QED
      BY <3>2, <3>3, <3>4, FreeIsAlone
  <2>. QED
    BY <1>8, <2>6, <2>7
<1>. QED
  BY <1>5, <1>6, <1>7, <1>8 DEF Client!Backend

\* finishStoppingVpn of the status page.
LEMMA FinishStoppingVpnFacts ==
    ASSUME NEW u \in Ui, Base(u)
    PROVE  Keeps(Client!FinishStoppingVpn(u), u)
<1>. DEFINE x == IF u.page = "status" THEN [u.view EXCEPT !.stopRequested = TRUE, !.busy = TRUE]
                 ELSE u.view
            w == [u EXCEPT !.view = x]
<1>1. Client!FinishStoppingVpn(u) = Client!Stop(w)
  BY DEF Client!FinishStoppingVpn, Ui
<1>2. x \in Client!ViewType
  <2>1. u.view \in Client!ViewType
    BY Fields
  <2>2. [u.view EXCEPT !.stopRequested = TRUE, !.busy = TRUE] \in Client!ViewType
    BY <2>1 DEF Client!ViewType
  <2>. QED
    BY <2>1, <2>2
<1>. HIDE DEF x
<1>3. w \in Ui /\ Same(w, u)
  BY <1>2, ViewFacts
<1>. HIDE DEF w
<1>4. Base(w) /\ (Alone(u) => Alone(w))
  BY <1>3, SameKeeps
<1>. QED
  BY <1>1, <1>3, <1>4, StopFacts DEF Keeps

\* The actions of the user that ask the service for nothing.
LEMMA PagesKeep ==
    ASSUME ServiceInv,
           Client!Navigate \/ Client!OtherVisor \/ Client!Login \/ Client!CancelDialog
              \/ Client!ChangeSetting \/ Client!SettingAnswer \/ Client!OutsideChange
              \/ \E s \in Servers : Client!SelectSameServer(s) \/ Client!BlockServer(s)
    PROVE  ServiceInv'
<1>. USE DEF ServiceInv
<1>1. CASE Client!Navigate \/ Client!OtherVisor \/ Client!Login \/ Client!SettingAnswer
  <2>1. OtherTypes' /\ dialog' = dialog
    <3>1. count' \in 0..MaxDisturbances
      BY <1>1, DisturbType DEF OtherTypes, Client!Navigate, Client!OtherVisor, Client!Login,
         Client!SettingAnswer
    <3>. QED
      BY <1>1, <3>1 DEF OtherTypes, Client!Navigate, Client!OtherVisor, Client!Login, Client!SettingAnswer
  <2>2. Keeps(ui', ui) /\ ui'.working = ui.working
    <3>1. CASE Client!Navigate \/ Client!Login
      <4>1. PICK p \in Client!VpnPages : ui' = Client!GoTo(ui, p)
        BY <3>1 DEF Client!Navigate, Client!Login, Client!VpnPages
      <4>. QED
        BY <4>1, GoToFacts DEF Keeps
    <3>2. CASE Client!OtherVisor
      BY <3>2, GoToErrorFacts DEF Client!OtherVisor, Keeps
    <3>3. CASE Client!SettingAnswer
      <4>1. CASE ui' = Client!UpdateData(ui)
        <5>1. /\ ui' \in Ui /\ Rest(ui', ui) /\ ui'.state = ui.state /\ ui'.working = ui.working
              /\ ui'.op = ui.op
              /\ IF ui.working /\ ~Checking(ui) THEN ui' = ui ELSE ui'.poll.at = "waiting"
          BY <4>1, UpdateDataFacts
        <5>2. Base(ui') /\ (Alone(ui) => Alone(ui'))
          BY <5>1 DEF Base, Alone, Checking, Rest
        <5>. QED
          BY <5>1, <5>2 DEF Keeps
      <4>2. CASE ui' = ui
        BY <4>2 DEF Keeps
      <4>. QED
        BY <3>3, <4>1, <4>2 DEF Client!SettingAnswer
    <3>. QED
      BY <1>1, <3>1, <3>2, <3>3
  <2>. QED
    BY <2>1, <2>2 DEF Keeps, AskedWhileFree
<1>2. CASE Client!CancelDialog \/ Client!ChangeSetting \/ Client!OutsideChange
             \/ \E s \in Servers : Client!SelectSameServer(s) \/ Client!BlockServer(s)
  <2>1. UNCHANGED <<ui, cur>> /\ blocked' \subseteq Servers /\ setting' \in BOOLEAN
    BY <1>2 DEF OtherTypes, Client!CancelDialog, Client!ChangeSetting, Client!OutsideChange,
       Client!SelectSameServer, Client!BlockServer
  <2>2. count' \in 0..MaxDisturbances
    BY <1>2, DisturbType DEF OtherTypes, Client!CancelDialog, Client!ChangeSetting, Client!OutsideChange,
       Client!SelectSameServer, Client!BlockServer, Client!OnPage
  <2>3. app' \in Client!VisorApp
    <3>1. [app EXCEPT !.status = 2] \in Client!VisorApp
      BY DEF OtherTypes, Client!VisorApp
    <3>2. [status : {0, 1}, pk : Servers] \subseteq Client!VisorApp
      BY DEF Client!VisorApp
    <3>3. app \in Client!VisorApp
      BY DEF OtherTypes
    <3>. QED
      BY <1>2, <3>1, <3>2, <3>3 DEF Client!CancelDialog, Client!ChangeSetting,
         Client!OutsideChange, Client!SelectSameServer, Client!BlockServer
  <2>4. dialog' \in Window /\ (dialog'.kind = "change" => dialog' = dialog)
    <3>1. CASE UNCHANGED dialog \/ dialog' = Client!NoDialog
      BY <3>1, Windows DEF OtherTypes
    <3>2. CASE \E s \in Servers, k \in {"start", "block"} : dialog' = [kind |-> k, server |-> s]
      <4>1. PICK s \in Servers, k \in {"start", "block"} : dialog' = [kind |-> k, server |-> s]
        BY <3>2
      <4>2. dialog' \in Window
        BY <4>1, Windows
      <4>3. dialog'.kind # "change"
        BY <4>1
      <4>. QED
        BY <4>2, <4>3
    <3>. QED
      BY <1>2, <3>1, <3>2 DEF Client!CancelDialog, Client!ChangeSetting, Client!OutsideChange,
         Client!SelectSameServer, Client!BlockServer
  <2>. QED
    BY <2>1, <2>2, <2>3, <2>4 DEF OtherTypes, AskedWhileFree
<1>. QED
  BY <1>1, <1>2

\* A reload of the page creates the service anew.
LEMMA ReloadKeeps == ServiceInv /\ Client!Reload => ServiceInv'
<1>. SUFFICES ASSUME ServiceInv, Client!Reload
              PROVE  ServiceInv'
  OBVIOUS
<1>. USE DEF ServiceInv
<1>. DEFINE f == Client!Initialize(Client!Fresh)
            p == IF ui.page \in Client!VpnPages THEN ui.page ELSE "status"
            x == IF ui.page = "status" THEN Client!ShowEvent(Client!NewView, ui.event) ELSE Client!NewView
<1>1. ui' = [f EXCEPT !.page = p, !.view = x]
  BY DEF Client!Reload
<1>2. p \in Client!VpnPages
  BY DEF Client!VpnPages
<1>3. x \in Client!ViewType
  BY Nothing, Fields, ShowEventType
<1>4. /\ f \in Ui /\ f.op.kind = "none" /\ f.op.at = "none" /\ f.working /\ Checking(f)
      /\ f.requested = None /\ f.poll.at = "waiting"
  BY FreshFacts
<1>. HIDE DEF f, p, x
<1>5. /\ ui' \in Ui /\ ui'.op = f.op /\ ui'.working = f.working /\ ui'.state = f.state
      /\ ui'.requested = f.requested /\ ui'.poll = f.poll
  BY <1>1, <1>2, <1>3, <1>4 DEF Ui
<1>6. Base(ui') /\ Alone(ui')
  BY <1>4, <1>5, States DEF Base, Alone, Checking
<1>7. app' \in Client!VisorApp
  <2>1. app \in Client!VisorApp /\ ui.requested \in Servers \union {None}
    BY Fields DEF OtherTypes
  <2>2. ui.op.at = "sent" => ui.op.kind \in {"start", "stop", "change"}
    BY Fields DEF Base, UiOp
  <2>3. CASE ui.op.at = "sent" /\ app' = Client!Effect
    <3>1. CASE ui.op.kind = "start"
      <4>1. app' = [app EXCEPT !.status = 1]
        BY <2>3, <3>1 DEF Client!Effect
      <4>. QED
        BY <2>1, <4>1 DEF Client!VisorApp
    <3>2. CASE ui.op.kind = "stop"
      <4>1. app' = [app EXCEPT !.status = 0]
        BY <2>3, <3>2 DEF Client!Effect
      <4>. QED
        BY <2>1, <4>1 DEF Client!VisorApp
    <3>3. CASE ui.op.kind = "change"
      <4>1. app' = [app EXCEPT !.pk = ui.requested]
        BY <2>3, <3>3 DEF Client!Effect
      <4>. QED
        BY <2>1, <4>1 DEF Client!VisorApp
    <3>. QED
      BY <2>2, <2>3, <3>1, <3>2, <3>3
  <2>4. app' = app \/ (ui.op.at = "sent" /\ app' = Client!Effect)
    BY DEF Client!Reload
  <2>. QED
    BY <2>1, <2>3, <2>4
<1>8. count' \in 0..MaxDisturbances
  BY DisturbType DEF OtherTypes, Client!Reload
<1>9. OtherTypes' /\ dialog'.kind # "change"
  BY <1>7, <1>8, Windows DEF OtherTypes, Client!Reload
<1>. QED
  BY <1>5, <1>6, <1>9 DEF AskedWhileFree

\* The buttons of the status page.
LEMMA ButtonsKeep == ServiceInv /\ (Client!ClickStart \/ Client!ClickStop) => ServiceInv'
<1>. SUFFICES ASSUME ServiceInv, Client!ClickStart \/ Client!ClickStop
              PROVE  ServiceInv'
  OBVIOUS
<1>. USE DEF ServiceInv
<1>1. dialog = Client!NoDialog /\ count' \in 0..MaxDisturbances
  BY DisturbType DEF OtherTypes, Client!ClickStart, Client!ClickStop, Client!OnPage
<1>2. dialog' \in Window /\ dialog'.kind # "change"
  BY <1>1, Windows DEF Client!ClickStart, Client!ClickStop
<1>3. OtherTypes'
  BY <1>1, <1>2 DEF OtherTypes, Client!ClickStart, Client!ClickStop
<1>4. Keeps(ui', ui)
  <2>1. CASE ui' = ui
    BY <2>1 DEF Keeps
  <2>2. CASE ui' = Client!GoTo(ui, "servers")
    BY <2>2, GoToFacts DEF Keeps, Client!VpnPages
  <2>3. CASE ui' = Client!Start([ui EXCEPT !.view.busy = TRUE])
    <3>. DEFINE x == [ui.view EXCEPT !.busy = TRUE]
                w == [ui EXCEPT !.view = x]
    <3>1. x \in Client!ViewType
      <4>1. ui.view \in Client!ViewType
        BY Fields
      <4>. QED
        BY <4>1, BusyView
    <3>2. ui' = Client!Start(w)
      BY <2>3 DEF Ui
    <3>. HIDE DEF x
    <3>3. w \in Ui /\ Same(w, ui)
      BY <3>1, ViewFacts
    <3>. HIDE DEF w
    <3>4. Base(w) /\ (Alone(ui) => Alone(w))
      BY <3>3, SameKeeps
    <3>. QED
      BY <3>2, <3>3, <3>4, StartFacts DEF Keeps
  <2>4. CASE ui' = Client!FinishStoppingVpn(ui)
    BY <2>4, FinishStoppingVpnFacts
  <2>. QED
    BY <2>1, <2>2, <2>3, <2>4 DEF Client!ClickStart, Client!ClickStop
<1>. QED
  BY <1>2, <1>3, <1>4 DEF Keeps, AskedWhileFree

\* A server is selected while the service is free: at once, or after a window.
LEMMA SelectServerKeeps ==
    ASSUME ServiceInv, NEW s \in Servers, Client!SelectServer(s)
    PROVE  ServiceInv'
<1>. USE DEF ServiceInv
<1>. DEFINE r == Client!CheckNewPk(ui, s)
<1>1. PICK pw \in BOOLEAN : Client!ProcessServerChange(s, pw)
  BY DEF Client!SelectServer
<1>2. r # "Busy" => ~ui.working
  BY DEF Client!CheckNewPk
<1>. HIDE DEF r
<1>3. ~ui.working
  BY <1>1, <1>2 DEF Client!ProcessServerChange, r
<1>4. count' \in 0..MaxDisturbances
  BY DisturbType DEF OtherTypes, Client!SelectServer, Client!OnPage
<1>5. dialog' \in Window
  BY <1>1, Windows DEF OtherTypes, Client!ProcessServerChange
<1>6. OtherTypes'
  BY <1>4, <1>5 DEF OtherTypes, Client!SelectServer
<1>7. dialog' = Client!NoDialog \/ ui' = ui
  BY <1>1 DEF Client!ProcessServerChange, Client!SelectServer, Client!OnPage
<1>8. CASE ui' = ui
  BY <1>3, <1>6, <1>8 DEF AskedWhileFree
<1>9. CASE ui' # ui
  <2>. DEFINE w == Client!ChangeServer(ui, s)
  <2>1. ui' = Client!GoTo(w, "status")
    BY <1>1, <1>9 DEF Client!ProcessServerChange
  <2>2. w \in Ui /\ Base(w) /\ (Alone(ui) => Alone(w))
    BY <1>3, ChangeServerFacts
  <2>. HIDE DEF w
  <2>3. "status" \in Client!VpnPages
    BY DEF Client!VpnPages
  <2>4. ui' \in Ui /\ Base(ui') /\ (Alone(w) => Alone(ui'))
    BY <2>1, <2>2, <2>3, GoToFacts
  <2>. QED
    BY <1>6, <1>7, <1>9, <2>2, <2>4 DEF AskedWhileFree, Client!NoDialog
<1>. QED
  BY <1>8, <1>9

\* What a window asks for is done without another look at the service.
LEMMA AcceptDialogKeeps == ServiceInv /\ Client!AcceptDialog => ServiceInv'
<1>. SUFFICES ASSUME ServiceInv, Client!AcceptDialog
              PROVE  ServiceInv'
  OBVIOUS
<1>. USE DEF ServiceInv
<1>1. dialog.server \in Servers \union {None} /\ dialog.kind \in {"none", "stop", "change", "start", "block"}
  BY DEF OtherTypes, Window
<1>2. "status" \in Client!VpnPages
  BY DEF Client!VpnPages
<1>. SUFFICES ASSUME dialog.kind # "none"
              PROVE  ServiceInv'
  BY DEF Client!AcceptDialog, OtherTypes, Window
<1>3. OtherTypes' /\ dialog'.kind # "change"
  <2>1. dialog' = Client!NoDialog /\ UNCHANGED <<app, cur, setting, count>>
    BY DEF Client!AcceptDialog
  <2>2. blocked' \subseteq Servers
    BY DEF OtherTypes, Window, Client!AcceptDialog
  <2>3. dialog' \in Window /\ dialog'.kind = "none"
    BY <2>1, Windows
  <2>. QED
    BY <2>1, <2>2, <2>3 DEF OtherTypes
<1>. SUFFICES ui' \in Ui /\ Base(ui') /\ ("stop" \notin FaultyOps => Alone(ui'))
  BY <1>3 DEF AskedWhileFree
<1>4. CASE dialog.kind = "stop"
  BY <1>4, FinishStoppingVpnFacts DEF Client!AcceptDialog, Keeps
<1>5. CASE dialog.kind = "block"
  BY <1>5, StopFacts DEF Client!AcceptDialog
<1>6. CASE dialog.kind = "start"
  <2>1. ui' = Client!GoTo(Client!Start(ui), "status")
    BY <1>6 DEF Client!AcceptDialog
  <2>2. /\ Client!Start(ui) \in Ui /\ Base(Client!Start(ui))
        /\ Alone(ui) => Alone(Client!Start(ui))
    BY StartFacts
  <2>. QED
    BY <1>2, <2>1, <2>2, GoToFacts
<1>7. CASE dialog.kind = "change"
  <2>. DEFINE w == Client!ChangeServer(ui, dialog.server)
  <2>1. ui' = Client!GoTo(w, "status")
    BY <1>7 DEF Client!AcceptDialog
  <2>2. w \in Ui /\ Base(w) /\ (Alone(ui) /\ ~ui.working => Alone(w))
    BY <1>1, ChangeServerFacts
  <2>. HIDE DEF w
  <2>3. ui' \in Ui /\ Base(ui') /\ (Alone(w) => Alone(ui'))
    BY <1>2, <2>1, <2>2, GoToFacts
  <2>. QED
    BY <1>7, <2>2, <2>3 DEF AskedWhileFree
<1>. QED
  BY <1>1, <1>4, <1>5, <1>6, <1>7

\* The first page finds a service that was just created.
LEMMA InitService == Client!Init => ServiceInv
<1>. SUFFICES ASSUME Client!Init
              PROVE  ServiceInv
  OBVIOUS
<1>1. ui = Client!Initialize(Client!Fresh)
  BY DEF Client!Init
<1>2. /\ ui \in Ui /\ ui.op.kind = "none" /\ ui.op.at = "none" /\ ui.working /\ Checking(ui)
      /\ ui.requested = None /\ ui.poll.at = "waiting"
  BY <1>1, FreshFacts
<1>3. Base(ui) /\ Alone(ui)
  BY <1>2, States DEF Base, Alone, Checking
<1>4. OtherTypes /\ dialog.kind # "change"
  <2>1. app \in Client!VisorApp /\ cur = None /\ blocked = {} /\ dialog = Client!NoDialog
        /\ setting = FALSE /\ count = 0
    BY DEF Client!Init
  <2>2. dialog \in Window /\ dialog.kind = "none"
    BY <2>1, Windows
  <2>3. 0 \in 0..MaxDisturbances
    BY VpnManagerAssumption
  <2>. QED
    BY <2>1, <2>2, <2>3 DEF OtherTypes
<1>. QED
  BY <1>2, <1>3, <1>4 DEF ServiceInv, AskedWhileFree

\* Every step of the service keeps its invariant.
LEMMA NextService == ServiceInv /\ [Client!Next]_Client!vars => ServiceInv'
<1>1. ServiceInv /\ UNCHANGED Client!vars => ServiceInv'
  BY DEF ServiceInv, Client!vars, OtherTypes, AskedWhileFree
<1>. QED
  BY <1>1, PollingKeeps, BackendKeeps, PagesKeep, ReloadKeeps, ButtonsKeep, SelectServerKeeps,
     AcceptDialogKeeps DEF Client!Next

-----------------------------------------------------------------------------
(* The composition *)

\* The saved data is consistent in the behaviours that are about it.
SavedInv == service = "saved" => StoreInv
SelectionInv == service = "saved" => StoreInv /\ Selection

\* The constants are as the proofs need them.
LEMMA GivenHolds == Given
BY VpnManagerAssumption DEF Given, Stores

\* The data of an earlier session is consistent.
LEMMA InitSaved == Init => SavedInv /\ SelectionInv
BY GivenHolds, InitStore DEF Init, SavedInv, SelectionInv

\* In a behaviour about the saved data every step is one of VpnSavedData.
LEMMA StepOfSaved ==
    [Next]_vars /\ service' = "saved" => service = "saved" /\ [Saved!Next]_Saved!vars
BY DEF Next, OnlyClient, OnlySaved, vars, savedVars, Saved!vars

\* Every step keeps the consistency of the saved data.
LEMMA NextSaved ==
    /\ SavedInv /\ [Next]_vars => SavedInv'
    /\ None \notin VisorPks /\ SelectionInv /\ [Next]_vars => SelectionInv'
<1>1. ASSUME StoreInv, [Saved!Next]_Saved!vars
      PROVE  StoreInv' /\ (None \notin VisorPks /\ Selection => Selection')
  BY <1>1, GivenHolds, NextStore
<1>. QED
  BY <1>1, StepOfSaved DEF SavedInv, SelectionInv

\* For all tabs, servers and numbers of saves: the version tells a tab every
\* change of another one, no save is refused, and the selected server is one of
\* the saved ones (VpnSavedDataService), as long as the app of the visor has a
\* server.
THEOREM SavedDataIsConsistent == None \notin VisorPks => (Spec => []SavedDataHold)
<1>. SUFFICES ASSUME None \notin VisorPks
              PROVE  Spec => []SavedDataHold
  OBVIOUS
<1>1. SelectionInv /\ [Next]_vars => SelectionInv'
  BY NextSaved
<1>2. SelectionInv => SavedDataHold
  BY DEF SelectionInv, SavedDataHold, StoreInv, Copies, Selection, Saved!SelectedIsSaved,
         Saved!NoSaveRefused, Saved!Working, Saved!VersionTellsChanges
<1>. QED
  BY InitSaved, <1>1, <1>2, PTL DEF Spec

\* No save of a tab takes away a flag or personal data that the user gave a
\* server in another tab, also while dialogs and requests hold old objects of it
\* (changeFlag, updateServer, modifyCurrentServer, cleanServers).  The form that
\* adds a saved server by hand does replace its personal data by those of the
\* form (processFromManual).
THEOREM UserDataIsKept == Spec => UserDataKept
<1>1. SavedInv /\ [Next]_vars => SavedInv'
  BY NextSaved
<1>2. SavedInv /\ [Next]_vars => [service = "saved" => Saved!KeepsUserData]_vars
  <2>. SUFFICES ASSUME SavedInv, Next, service = "saved"
                PROVE  Saved!KeepsUserData
    OBVIOUS
  <2>1. StoreInv /\ Saved!Next
    BY DEF SavedInv, Next, OnlyClient, OnlySaved
  <2>. QED
    BY <2>1, GivenHolds, StepKeepsUserData
<1>. QED
  BY InitSaved, <1>1, <1>2, PTL DEF Spec, UserDataKept

-----------------------------------------------------------------------------
(* The composition: the service that drives the app *)

ClientInv == service = "client" => ServiceInv

\* The invariant has the types of all fields.
LEMMA ServiceTypeOK == ServiceInv => Client!TypeOK
<1>. SUFFICES ASSUME ServiceInv
              PROVE  Client!TypeOK
  OBVIOUS
<1>1. ui \in Ui /\ OtherTypes
  BY DEF ServiceInv
<1>2. ui.state \in Client!States
  BY <1>1 DEF Ui
<1>. QED
  BY <1>1, <1>2, Fields DEF OtherTypes, Window, UiPoll, UiOp, UiEvent, Client!TypeOK

\* In a behaviour about the service every step is one of VpnClient.
LEMMA StepsOfClient ==
    /\ Init => ClientInv
    /\ ClientInv /\ [Next]_vars => ClientInv'
<1>1. Init => ClientInv
  BY InitService DEF Init, ClientInv
<1>2. [Next]_vars /\ service' = "client" => service = "client" /\ [Client!Next]_Client!vars
  BY DEF Next, OnlyClient, OnlySaved, vars, clientVars, Client!vars
<1>. QED
  BY <1>1, <1>2, NextService DEF ClientInv

\* The fields of both services keep their types, whatever requests fail, for all
\* servers, tabs, retries and bounds.
THEOREM TypeCorrect == Spec => []TypeOK
<1>. DEFINE Inv == ClientInv /\ SavedInv /\ service \in {"client", "saved"}
<1>1. Init => Inv
  BY InitSaved, StepsOfClient DEF Init
<1>2. Inv /\ [Next]_vars => Inv'
  <2>1. service \in {"client", "saved"} /\ [Next]_vars => service' \in {"client", "saved"}
    BY DEF Next, OnlyClient, OnlySaved, vars
  <2>. QED
    BY <2>1, NextSaved, StepsOfClient
<1>3. Inv => TypeOK
  BY ServiceTypeOK DEF TypeOK, ClientInv, SavedInv, StoreInv
<1>. HIDE DEF Inv
<1>. QED
  BY <1>1, <1>2, <1>3, PTL DEF Spec

\* Whatever requests fail, no answer to a poll arrives while a start, a stop or a
\* change of server is under way (stopContinuallyUpdatingData in changeAppState
\* and in processServerChange).
THEOREM PollsStopForOperations ==
    Spec => [](service = "client" => Client!NoPollDuringOperation)
<1>1. ClientInv => (service = "client" => Client!NoPollDuringOperation)
  BY DEF ClientInv, ServiceInv, Base, Client!NoPollDuringOperation
<1>. QED
  BY StepsOfClient, <1>1, PTL DEF Spec

\* As long as the requests to stop the app do not fail: an operation is alone,
\* the service never falls silent on a VPN page, and no requested server is left
\* over for a later stop (the callbacks of changeAppState and processServerChange).
THEOREM OperationIsAlone == "stop" \notin FaultyOps => (Spec => []OperationAlone)
<1>. SUFFICES ASSUME "stop" \notin FaultyOps
              PROVE  Spec => []OperationAlone
  OBVIOUS
<1>1. ClientInv => OperationAlone
  <2>. SUFFICES ASSUME ServiceInv
                PROVE  /\ Client!NoPollDuringOperation /\ Client!NeverSilent
                       /\ Client!NoForgottenRequest
    BY DEF ClientInv, OperationAlone
  <2>1. Base(ui) /\ Alone(ui)
    BY DEF ServiceInv
  <2>2. Client!NoPollDuringOperation
    BY <2>1 DEF Base, Client!NoPollDuringOperation
  <2>3. Client!NeverSilent
    BY <2>1 DEF Alone, Client!NeverSilent, Client!VpnPages
  <2>4. Client!NoForgottenRequest
    BY <2>1 DEF Alone, Client!NoForgottenRequest
  <2>. QED
    BY <2>2, <2>3, <2>4
<1>. QED
  BY StepsOfClient, <1>1, PTL DEF Spec
=============================================================================
