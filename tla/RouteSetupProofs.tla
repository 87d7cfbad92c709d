-------------------------- MODULE RouteSetupProofs --------------------------
(***************************************************************************)
(* Proofs about RouteSetup, for all visors, requests, paths and failures:  *)
(* the variables keep their types, no rule is ever replaced, and a         *)
(* registered route is complete, crosses no other and meets its other end. *)
(*                                                                         *)
(* What holds the argument together is that a rule is determined by its    *)
(* visor and its key: it is the one that GenerateRules made for the        *)
(* request to which the visor granted that key.  However late a call is    *)
(* handled, it can only store what is there already.                       *)
(***************************************************************************)
EXTENDS RouteSetup, FiniteSetTheorems, SequenceTheorems, TLAPS

-----------------------------------------------------------------------------
(* Counting: which of the IDs of a visor is popped at a position.          *)

\* How often n occurs among the first i elements of p.
Nth(p, n, i) == Cardinality({j \in 1..i : p[j] = n})
Occurrences(p, n) == Cardinality({j \in DOMAIN p : p[j] = n})

\* A position of a visor later in the order pops a later ID.
LEMMA NthIncreases ==
  ASSUME NEW p, NEW n, NEW i \in Nat \ {0}, NEW j \in Nat, i < j, p[i] = n, p[j] = n
  PROVE  Nth(p, n, i) \in Nat \ {0} /\ Nth(p, n, j) \in Nat /\ Nth(p, n, i) < Nth(p, n, j)
<1>. DEFINE S(k) == {x \in 1..k : p[x] = n}
<1>1. ASSUME NEW k \in Nat
      PROVE  IsFiniteSet(S(k)) /\ Cardinality(S(k)) \in Nat
  <2>1. IsFiniteSet(1..k)
    BY FS_Interval
  <2>2. S(k) \in SUBSET (1..k)
    OBVIOUS
  <2>3. IsFiniteSet(S(k))
    BY <2>1, <2>2, FS_Subset
  <2>. QED
    BY <2>3, FS_CardinalityType
<1>2. S(i) \in SUBSET S(j) /\ j \in S(j) /\ j \notin S(i) /\ i \in S(i)
  OBVIOUS
<1>3. Cardinality(S(i)) <= Cardinality(S(j)) /\ Cardinality(S(i)) # Cardinality(S(j))
  BY <1>1, <1>2, FS_Subset
<1>4. Cardinality(S(i)) # 0
  BY <1>1, <1>2, FS_EmptySet
<1>. QED
  BY <1>1, <1>3, <1>4 DEF Nth

\* A position pops one of as many IDs as the visor occurs on both paths.
LEMMA NthBounded ==
  ASSUME NEW S, NEW f \in Seq(S), NEW r \in Seq(S), NEW n, NEW i \in 1..Len(f \o r), (f \o r)[i] = n
  PROVE  /\ Occurrences(f, n) \in Nat /\ Occurrences(r, n) \in Nat
         /\ Nth(f \o r, n, i) \in 1..(Occurrences(f, n) + Occurrences(r, n))
<1>. DEFINE N == {j \in 1..i : (f \o r)[j] = n}
            F == {j \in DOMAIN f : f[j] = n}
            R == {j \in DOMAIN r : r[j] = n}
            G == {j \in N : j <= Len(f)}
            H == {j \in N : j > Len(f)}
            shift == [j \in H |-> j - Len(f)]
<1>0. Len(f) \in Nat /\ Len(r) \in Nat /\ Len(f \o r) = Len(f) + Len(r)
  OBVIOUS
<1>1. IsFiniteSet(F) /\ IsFiniteSet(R) /\ IsFiniteSet(N)
  <2>1. IsFiniteSet(1..Len(f)) /\ IsFiniteSet(1..Len(r)) /\ IsFiniteSet(1..i)
    BY <1>0, FS_Interval
  <2>2. F \in SUBSET (1..Len(f)) /\ R \in SUBSET (1..Len(r)) /\ N \in SUBSET (1..i)
    OBVIOUS
  <2>. HIDE DEF F, R, N
  <2>. QED
    BY <2>1, <2>2, FS_Subset
<1>2. G \in SUBSET F
  OBVIOUS
<1>3. shift \in Injection(H, R)
  <2>1. ASSUME NEW j \in H
        PROVE  j - Len(f) \in R
    BY <1>0
  <2>. QED
    BY <2>1, <1>0 DEF Injection, IsInjective
<1>4. IsFiniteSet(G) /\ Cardinality(G) <= Cardinality(F)
  BY <1>1, <1>2, FS_Subset
<1>5. IsFiniteSet(H) /\ Cardinality(H) <= Cardinality(R)
  <2>. HIDE DEF H, R, shift
  <2>. QED
    BY <1>1, <1>3, FS_Injection
<1>6. G \cup H = N /\ G \cap H = {}
  BY <1>0
<1>7. Cardinality(N) = Cardinality(G) + Cardinality(H)
  <2>. HIDE DEF G, H, N
  <2>1. Cardinality(G) \in Nat /\ Cardinality(H) \in Nat
    BY <1>4, <1>5, FS_CardinalityType
  <2>2. Cardinality(G \cup H) = Cardinality(G) + Cardinality(H) - Cardinality(G \cap H)
    BY <1>4, <1>5, FS_Union
  <2>3. Cardinality({}) = 0
    BY FS_EmptySet
  <2>4. Cardinality(G \cup H) = Cardinality(N) /\ Cardinality(G \cap H) = 0
    BY <1>6, <2>3, Zenon
  <2>. QED
    BY <2>1, <2>2, <2>4
<1>8. i \in N
  BY <1>0
<1>9. Cardinality(N) # 0
  <2>. HIDE DEF N
  <2>. QED
    BY <1>1, <1>8, FS_EmptySet
<1>10. Cardinality(G) \in Nat /\ Cardinality(H) \in Nat /\ Cardinality(F) \in Nat /\ Cardinality(R) \in Nat
  <2>. HIDE DEF G, H, F, R
  <2>. QED
    BY <1>1, <1>4, <1>5, FS_CardinalityType
<1>11. Nth(f \o r, n, i) = Cardinality(N) /\ Occurrences(f, n) = Cardinality(F) /\ Occurrences(r, n) = Cardinality(R)
  BY DEF Nth, Occurrences
<1>. HIDE DEF N, F, R, G, H
<1>. QED
  BY <1>4, <1>5, <1>7, <1>9, <1>10, <1>11

-----------------------------------------------------------------------------
(* The rules of a request.                                                 *)

Path(q, k) == IF k = 1 THEN fwd[q] ELSE rev[q]

\* The stages in which the paths and the IDs of a request do not change any
\* more, and the requests for which GenerateRules made rules.
After == {"broadcast", "edge", "done", "established", "failed"}
Generated(q) == pc[q] \in After /\ CanPop(q) /\ Check(q, fwd[q], rev[q])

\* r is one of the rules that were made for visor n.
IsRule(r, n) ==
  \E q \in Reqs : \E k \in {1, 2} : \E i \in 1..Len(Path(q, k)) :
    Generated(q) /\ Path(q, k)[i] = n /\ r = RuleAt(q, k, i)

Stored(r, n) == r.key \in DOMAIN tbl[n] /\ tbl[n][r.key] = r
InstalledAt(q, n) == \A r \in InterRules(q, n) : Stored(r, n)
Installed(q) == \A n \in Nodes : InstalledAt(q, n)

\* e are the rules of an edge of a route whose other rules are in place.
IsEdge(e, n) ==
  \E q \in Reqs :
    /\ Generated(q) /\ Installed(q)
    /\ \/ n = Src[q] /\ e = InitEdge(q)
       \/ n = Dst[q] /\ e = RespEdge(q)

\* s are IDs up to id, each once.
Granted(s, id) ==
  /\ s \in Seq(Nat)
  /\ \A i \in DOMAIN s : s[i] \in 1..id
  /\ \A i, j \in DOMAIN s : i # j => s[i] # s[j]
Apart(s, t) == \A i \in DOMAIN s, j \in DOMAIN t : s[i] # t[j]

\* Every reservation, on its way or arrived, has IDs of its own.
Reserved ==
  /\ \A q \in Reqs, n \in Nodes : Granted(ids[q][n], nextID[n])
  /\ \A r \in replies : r.stage = "reserve" => Granted(r.ans, nextID[r.from])
  /\ \A p, q \in Reqs, n \in Nodes : p # q => Apart(ids[p][n], ids[q][n])
  /\ \A q \in Reqs, r \in replies : r.stage = "reserve" => Apart(ids[q][r.from], r.ans)
  /\ \A r, s \in replies :
       r.stage = "reserve" /\ s.stage = "reserve" /\ r # s /\ r.from = s.from => Apart(r.ans, s.ans)

IsSeq(s) == s \in Seq(Range(s))

\* The types of the variables.
Types ==
  /\ tbl = [n \in Nodes |-> tbl[n]]
  /\ nextID \in [Nodes -> Nat]
  /\ accept = [n \in Nodes |-> accept[n]] /\ \A n \in Nodes : IsSeq(accept[n])
  /\ groups = [n \in Nodes |-> groups[n]]
  /\ pc \in [Reqs -> Stages]
  /\ fwd \in [Reqs -> Paths \cup {<<>>}]
  /\ rev \in [Reqs -> Paths \cup {<<>>}]
  /\ ctxDone \in [Reqs -> BOOLEAN]
  /\ pending \in [Reqs -> SUBSET Nodes]
  /\ unsent \in [Reqs -> SUBSET Nodes]
  /\ \A q \in Reqs : unsent[q] \subseteq pending[q]
  /\ clients \in [Reqs -> SUBSET Nodes]
  /\ err \in [Reqs -> BOOLEAN]
  /\ ids = [q \in Reqs |-> [n \in Nodes |-> ids[q][n]]]
  /\ crashed \in BOOLEAN
  /\ \A m \in net : m.q \in Reqs /\ m.to \in Nodes /\ m.stage \in {"reserve", "broadcast", "edge"}
  /\ \A r \in replies : r.q \in Reqs /\ r.from \in Nodes /\ r.stage \in {"reserve", "broadcast", "edge"}

\* What a call carries, and what the answer to it says.
Calls ==
  /\ \A m \in net :
       /\ m.stage = "reserve" => m.args \in Nat
       /\ m.stage = "broadcast" => Generated(m.q) /\ m.args = InterRules(m.q, m.to)
       /\ m.stage = "edge" =>
            Generated(m.q) /\ Installed(m.q) /\ m.to = Dst[m.q] /\ m.args = RespEdge(m.q)
  /\ \A r \in replies :
       r.stage = "broadcast" => Generated(r.q) /\ InstalledAt(r.q, r.from)

\* What CreateRouteGroup has achieved when it is in a stage.
Progress ==
  \A q \in Reqs :
    /\ pc[q] \in {"dial", "reserve"} => Check(q, fwd[q], rev[q])
    /\ pc[q] \in After \ {"failed"} => Generated(q)
    /\ pc[q] \notin {"reserve", "broadcast", "edge"} => unsent[q] = {}
    /\ pc[q] = "reserve" => unsent[q] \subseteq DOMAIN Rec(q)
    /\ pc[q] = "edge" => unsent[q] \subseteq {Dst[q]}
    /\ pc[q] = "broadcast" /\ ~err[q] => \A n \in Nodes : n \in pending[q] \/ InstalledAt(q, n)
    /\ pc[q] \in {"edge", "done", "established"} => Installed(q)

\* What is stored: rules under their keys, and groups with both their rules.
Tables ==
  \A n \in Nodes :
    /\ \A k \in DOMAIN tbl[n] : tbl[n][k].key = k /\ IsRule(tbl[n][k], n)
    /\ \A i \in DOMAIN accept[n] : IsEdge(accept[n][i], n)
    /\ \A g \in groups[n] : IsEdge(g, n) /\ Stored(g.fwd, n) /\ Stored(g.rev, n)

IInv == Types /\ Reserved /\ Calls /\ Progress /\ Tables

-----------------------------------------------------------------------------
(* A rule is determined by its visor and its key.                          *)

\* The order in which IDs are popped: the forward path, then the reverse one.
LEMMA Concatenation ==
  \A f, r \in Seq(Nodes) :
    /\ Len(f) \in Nat /\ Len(r) \in Nat /\ Len(f \o r) \in Nat /\ Len(f \o r) = Len(f) + Len(r)
    /\ \A i \in 1..Len(f) : (f \o r)[i] = f[i] /\ f[i] \in Nodes /\ i \in 1..Len(f \o r)
    /\ \A i \in 1..Len(r) : (f \o r)[Len(f) + i] = r[i] /\ r[i] \in Nodes /\ Len(f) + i \in 1..Len(f \o r)
    /\ \A i \in 1..Len(f \o r) : i \in 1..Len(f) \/ \E j \in 1..Len(r) : i = Len(f) + j
<1>. TAKE f, r \in Seq(Nodes)
<1>1. Len(f) \in Nat /\ Len(r) \in Nat /\ Len(f \o r) \in Nat /\ Len(f \o r) = Len(f) + Len(r)
  OBVIOUS
<1>2. ASSUME NEW i \in 1..Len(f)
      PROVE  (f \o r)[i] = f[i] /\ f[i] \in Nodes /\ i \in 1..Len(f \o r)
  BY <1>1
<1>3. ASSUME NEW i \in 1..Len(r)
      PROVE  (f \o r)[Len(f) + i] = r[i] /\ r[i] \in Nodes /\ Len(f) + i \in 1..Len(f \o r)
  BY <1>1
<1>4. ASSUME NEW i \in 1..Len(f \o r), i \notin 1..Len(f)
      PROVE  \E j \in 1..Len(r) : i = Len(f) + j
  <2>1. i - Len(f) \in 1..Len(r) /\ i = Len(f) + (i - Len(f))
    BY <1>1, <1>4
  <2>. QED
    BY <2>1
<1>. QED
  BY <1>1, <1>2, <1>3, <1>4

\* Where the i-th visor of a route is in the order of the popped IDs.
LEMMA Positions ==
  ASSUME Types, NEW q \in Reqs, NEW k \in {1, 2}, NEW i \in 1..Len(Path(q, k))
  PROVE  /\ fwd[q] \in Seq(Nodes) /\ rev[q] \in Seq(Nodes)
         /\ Path(q, k)[i] \in Nodes
         /\ Offset(q, k) + i \in 1..Len(PopOrder(q))
         /\ PopOrder(q)[Offset(q, k) + i] = Path(q, k)[i]
         /\ Offset(q, k) \in {0, Len(fwd[q])} /\ (k = 1 => Offset(q, k) + i <= Len(fwd[q]))
         /\ (k = 2 => Offset(q, k) = Len(fwd[q]))
<1>1. fwd[q] \in Seq(Nodes) /\ rev[q] \in Seq(Nodes)
  <2>1. fwd[q] \in Paths \cup {<<>>} /\ rev[q] \in Paths \cup {<<>>}
    BY DEF Types
  <2>2. Paths \subseteq Seq(Nodes) /\ <<>> \in Seq(Nodes)
    BY PathsAssumption
  <2>. QED
    BY <2>1, <2>2
<1>2. Len(fwd[q]) \in Nat /\ Len(rev[q]) \in Nat
  BY <1>1, Concatenation, Zenon
<1>3. \A j \in 1..Len(fwd[q]) : PopOrder(q)[j] = fwd[q][j] /\ fwd[q][j] \in Nodes /\ j \in 1..Len(PopOrder(q))
  BY <1>1, Concatenation, Zenon DEF PopOrder
<1>4. \A j \in 1..Len(rev[q]) :
        PopOrder(q)[Len(fwd[q]) + j] = rev[q][j] /\ rev[q][j] \in Nodes /\ Len(fwd[q]) + j \in 1..Len(PopOrder(q))
  BY <1>1, Concatenation, Zenon DEF PopOrder
<1>5. CASE k = 1
  <2>1. Path(q, k) = fwd[q] /\ Offset(q, k) = 0
    BY <1>5 DEF Path, Offset
  <2>2. i \in 1..Len(fwd[q])
    BY <2>1
  <2>3. PopOrder(q)[i] = fwd[q][i] /\ fwd[q][i] \in Nodes /\ i \in 1..Len(PopOrder(q))
    BY <1>3, <2>2, Zenon
  <2>4. Offset(q, k) + i = i /\ i <= Len(fwd[q])
    BY <1>2, <2>1, <2>2
  <2>. QED
    BY <1>1, <1>5, <2>1, <2>3, <2>4
<1>6. CASE k = 2
  <2>1. Path(q, k) = rev[q] /\ Offset(q, k) = Len(fwd[q])
    BY <1>6 DEF Path, Offset
  <2>2. i \in 1..Len(rev[q])
    BY <2>1
  <2>3. PopOrder(q)[Len(fwd[q]) + i] = rev[q][i] /\ rev[q][i] \in Nodes /\ Len(fwd[q]) + i \in 1..Len(PopOrder(q))
    BY <1>4, <2>2, Zenon
  <2>. QED
    BY <1>1, <1>6, <2>1, <2>3
<1>. QED
  BY <1>5, <1>6

\* PopID finds an ID: the index it pops is one of those reserved at the visor.
LEMMA PopsReserved ==
  ASSUME Types, Reserved, NEW q \in Reqs, CanPop(q), NEW i \in 1..Len(PopOrder(q)), fwd[q] \in Seq(Nodes), rev[q] \in Seq(Nodes)
  PROVE  LET n == PopOrder(q)[i]
             x == Nth(PopOrder(q), n, i)
         IN  n \in Nodes /\ x \in DOMAIN ids[q][n] /\ x \in Nat \ {0} /\ Popped(q, i) = ids[q][n][x]
<1>. DEFINE n == PopOrder(q)[i]
            x == Nth(PopOrder(q), n, i)
<1>1. n \in Nodes /\ n \in Range(fwd[q]) \cup Range(rev[q])
  <2>1. CASE i \in 1..Len(fwd[q])
    <3>1. n = fwd[q][i] /\ n \in Nodes
      BY <2>1, Concatenation, ZenonT(60) DEF PopOrder
    <3>. QED
      BY <2>1, <3>1 DEF Range
  <2>2. ASSUME NEW j \in 1..Len(rev[q]), i = Len(fwd[q]) + j
        PROVE  n \in Nodes /\ n \in Range(rev[q])
    <3>1. PopOrder(q)[Len(fwd[q]) + j] = rev[q][j] /\ rev[q][j] \in Nodes
      BY <2>2, Concatenation, Zenon DEF PopOrder
    <3>2. n = rev[q][j]
      BY <2>2, <3>1, Zenon
    <3>. QED
      BY <2>2, <3>1, <3>2 DEF Range
  <2>3. i \in 1..Len(fwd[q]) \/ \E j \in 1..Len(rev[q]) : i = Len(fwd[q]) + j
    BY Concatenation, Zenon DEF PopOrder
  <2>. QED
    BY <2>1, <2>2, <2>3
<1>2. n \in DOMAIN Rec(q) /\ Rec(q)[n] = Occurrences(fwd[q], n) + Occurrences(rev[q], n)
  BY <1>1 DEF Rec, Occurrences
<1>3. x \in 1..(Occurrences(fwd[q], n) + Occurrences(rev[q], n)) /\ Occurrences(fwd[q], n) \in Nat /\ Occurrences(rev[q], n) \in Nat
  BY NthBounded DEF PopOrder
<1>4. Len(ids[q][n]) >= Rec(q)[n]
  BY <1>2 DEF CanPop
<1>5. ids[q][n] \in Seq(Nat)
  BY <1>1 DEF Reserved, Granted
<1>6. x \in DOMAIN ids[q][n]
  BY <1>2, <1>3, <1>4, <1>5
<1>7. Popped(q, i) = ids[q][n][x]
  BY DEF Popped, Nth
<1>. QED
  BY <1>1, <1>3, <1>6, <1>7

\* Two requests, or two positions of one, that pop the same ID of a visor are
\* the same.
LEMMA PoppedOnce ==
  ASSUME Types, Reserved,
         NEW p \in Reqs, NEW q \in Reqs, CanPop(p), CanPop(q),
         fwd[p] \in Seq(Nodes), rev[p] \in Seq(Nodes), NEW i \in 1..Len(PopOrder(p)),
         fwd[q] \in Seq(Nodes), rev[q] \in Seq(Nodes), NEW j \in 1..Len(PopOrder(q)),
         PopOrder(p)[i] = PopOrder(q)[j], Popped(p, i) = Popped(q, j)
  PROVE  p = q /\ i = j
<1>. DEFINE n == PopOrder(p)[i]
            x == Nth(PopOrder(p), n, i)
            y == Nth(PopOrder(q), n, j)
<1>1. n \in Nodes /\ x \in DOMAIN ids[p][n] /\ Popped(p, i) = ids[p][n][x]
  BY PopsReserved
<1>2. y \in DOMAIN ids[q][n] /\ Popped(q, j) = ids[q][n][y]
  BY PopsReserved
<1>. HIDE DEF n, x, y
<1>3. p = q
  BY <1>1, <1>2 DEF Reserved, Apart
<1>4. x = y
  BY <1>1, <1>2, <1>3 DEF Reserved, Granted
<1>5. ASSUME i < j
      PROVE  FALSE
  BY <1>3, <1>4, <1>5, NthIncreases DEF n, x, y
<1>6. ASSUME j < i
      PROVE  FALSE
  BY <1>3, <1>4, <1>6, NthIncreases DEF n, x, y
<1>7. i \in Int /\ j \in Int
  OBVIOUS
<1>. QED
  BY <1>3, <1>5, <1>6, <1>7

\* What the properties need to know of the rules of a route.
LEMMA RuleFacts ==
  ASSUME NEW q, NEW k \in {1, 2}, NEW i
  PROVE  /\ RuleAt(q, k, i).key = Popped(q, Offset(q, k) + i)
         /\ i = Len(Path(q, k)) =>
              /\ RuleAt(q, k, i).type = "Consume"
              /\ RuleAt(q, k, i).desc = IF k = 1 THEN Desc(q) ELSE Invert(Desc(q))
         /\ i # Len(Path(q, k)) =>
              /\ RuleAt(q, k, i).type \in {"Forward", "Intermediary"}
              /\ RuleAt(q, k, i).nextID = Popped(q, Offset(q, k) + i + 1)
              /\ RuleAt(q, k, i).nextTp = Hops(Path(q, k))[i].tp
BY DEF RuleAt, Routes, Path

\* The key of a rule is an ID that its visor handed out.
LEMMA KeyGranted ==
  ASSUME Types, Reserved, NEW n, NEW r, IsRule(r, n)
  PROVE  n \in Nodes /\ r.key \in 1..nextID[n]
<1>1. PICK q \in Reqs, k \in {1, 2}, i \in Nat :
        i \in 1..Len(Path(q, k)) /\ Generated(q) /\ Path(q, k)[i] = n /\ r = RuleAt(q, k, i)
  BY DEF IsRule
<1>2. Offset(q, k) + i \in 1..Len(PopOrder(q)) /\ PopOrder(q)[Offset(q, k) + i] = n /\ fwd[q] \in Seq(Nodes) /\ rev[q] \in Seq(Nodes)
  BY <1>1, Positions
<1>3. r.key = Popped(q, Offset(q, k) + i)
  BY <1>1, RuleFacts
<1>4. \E x \in DOMAIN ids[q][n] : r.key = ids[q][n][x]
  BY <1>1, <1>2, <1>3, PopsReserved DEF Generated
<1>5. n \in Nodes
  BY <1>1, Positions
<1>. QED
  BY <1>4, <1>5 DEF Reserved, Granted

\* Two rules of a visor with one key are the same rule.
LEMMA RuleOfKey ==
  ASSUME Types, Reserved, NEW n, NEW r, IsRule(r, n), NEW s, IsRule(s, n), r.key = s.key
  PROVE  r = s
<1>1. PICK p \in Reqs, k \in {1, 2}, i \in Nat :
        i \in 1..Len(Path(p, k)) /\ Generated(p) /\ Path(p, k)[i] = n /\ r = RuleAt(p, k, i)
  BY DEF IsRule
<1>2. PICK q \in Reqs, l \in {1, 2}, j \in Nat :
        j \in 1..Len(Path(q, l)) /\ Generated(q) /\ Path(q, l)[j] = n /\ s = RuleAt(q, l, j)
  BY DEF IsRule
<1>3. p = q /\ Offset(p, k) + i = Offset(q, l) + j
  <2>1. Offset(p, k) + i \in 1..Len(PopOrder(p)) /\ PopOrder(p)[Offset(p, k) + i] = n /\ fwd[p] \in Seq(Nodes) /\ rev[p] \in Seq(Nodes)
    BY <1>1, Positions
  <2>2. Offset(q, l) + j \in 1..Len(PopOrder(q)) /\ PopOrder(q)[Offset(q, l) + j] = n /\ fwd[q] \in Seq(Nodes) /\ rev[q] \in Seq(Nodes)
    BY <1>2, Positions
  <2>3. Popped(p, Offset(p, k) + i) = Popped(q, Offset(q, l) + j)
    BY <1>1, <1>2, RuleFacts
  <2>4. CanPop(p) /\ CanPop(q)
    BY <1>1, <1>2 DEF Generated
  <2>5. PopOrder(p)[Offset(p, k) + i] = PopOrder(q)[Offset(q, l) + j]
    BY <2>1, <2>2
  <2>. HIDE DEF Path
  <2>. QED
    BY <2>1, <2>2, <2>3, <2>4, <2>5, PoppedOnce
<1>4. k = l /\ i = j
  <2>1. Len(fwd[p]) \in Nat /\ i \in 1..Len(Path(p, k)) /\ j \in 1..Len(Path(p, l))
    BY <1>1, <1>2, <1>3, Positions
  <2>. QED
    BY <1>3, <2>1 DEF Offset, Path
<1>. QED
  BY <1>1, <1>2, <1>3, <1>4

-----------------------------------------------------------------------------
(* What a request has generated stays, and so does what is installed.      *)

\* The rules of a request depend on its paths and its IDs alone.
LEMMA Same ==
  ASSUME NEW q \in Reqs, fwd'[q] = fwd[q], rev'[q] = rev[q], ids'[q] = ids[q]
  PROVE  /\ \A k \in {1, 2} : Path(q, k)' = Path(q, k)
         /\ \A k \in {1, 2} : \A i : RuleAt(q, k, i)' = RuleAt(q, k, i)
         /\ \A n : InterRules(q, n)' = InterRules(q, n)
         /\ InitEdge(q)' = InitEdge(q) /\ RespEdge(q)' = RespEdge(q)
         /\ CanPop(q)' = CanPop(q)
<1>1. PopOrder(q)' = PopOrder(q)
  BY DEF PopOrder
<1>2. ASSUME NEW i
      PROVE  Popped(q, i)' = Popped(q, i)
  <2>. DEFINE n == PopOrder(q)[i]
  <2>1. {j \in 1..i : PopOrder(q)'[j] = PopOrder(q)'[i]} = {j \in 1..i : PopOrder(q)[j] = PopOrder(q)[i]}
    BY <1>1, Zenon
  <2>. QED
    BY <1>1, <2>1 DEF Popped
<1>3. \A k \in {1, 2} : Path(q, k)' = Path(q, k)
  BY DEF Path
<1>4. Routes(q)' = Routes(q)
  BY DEF Routes
<1>5. \A k : Offset(q, k)' = Offset(q, k)
  BY DEF Offset
<1>6. ASSUME NEW k, NEW i
      PROVE  RuleAt(q, k, i)' = RuleAt(q, k, i)
  <2>1. \A x : Popped(q, x)' = Popped(q, x)
    BY <1>2
  <2>. QED
    BY <1>4, <1>5, <2>1, Zenon DEF RuleAt
<1>7. ASSUME NEW n
      PROVE  InterRules(q, n)' = InterRules(q, n)
  <2>. DEFINE Y == {y \in {1, 2} \X (2..Len(PopOrder(q))) :
                     /\ y[2] < Len(Routes(q)[y[1]].path)
                     /\ Routes(q)[y[1]].path[y[2]] = n}
  <2>1. Y' = Y
    BY <1>1, <1>4, Zenon
  <2>2. InterRules(q, n) = {RuleAt(q, x[1], x[2]) : x \in Y} /\ InterRules(q, n)' = {RuleAt(q, x[1], x[2])' : x \in Y'}
    BY Zenon DEF InterRules
  <2>. HIDE DEF Y
  <2>3. {RuleAt(q, x[1], x[2])' : x \in Y'} = {RuleAt(q, x[1], x[2]) : x \in Y}
    BY <1>6, <2>1
  <2>. QED
    BY <2>2, <2>3, Zenon
<1>8. InitEdge(q)' = InitEdge(q) /\ RespEdge(q)' = RespEdge(q)
  BY <1>6, Zenon DEF InitEdge, RespEdge
<1>9. Rec(q)' = Rec(q)
  BY DEF Rec
<1>10. CanPop(q)' = CanPop(q)
  BY <1>9, Zenon DEF CanPop
<1>. QED
  BY <1>3, <1>6, <1>7, <1>8, <1>10

\* Neither an answer nor another setup changes what a request has generated.
LEMMA Frozen ==
  ASSUME Types, Progress, [Next]_vars, NEW q \in Reqs, pc[q] \in After
  PROVE  pc'[q] \in After /\ fwd'[q] = fwd[q] /\ rev'[q] = rev[q] /\ ids'[q] = ids[q]
<1>0. /\ pc \in [Reqs -> Stages] /\ fwd = [p \in Reqs |-> fwd[p]] /\ rev = [p \in Reqs |-> rev[p]]
      /\ ids = [p \in Reqs |-> [n \in Nodes |-> ids[p][n]]]
  BY Zenon DEF Types
<1>1. ASSUME NEW p \in Reqs, DialRouteGroup(p)
      PROVE  pc'[q] \in After /\ fwd'[q] = fwd[q] /\ rev'[q] = rev[q] /\ ids'[q] = ids[q]
  BY <1>0, <1>1 DEF DialRouteGroup, Enter, Fail, After
<1>2. ASSUME NEW p \in Reqs, MakeMapReturns(p) \/ StageEnds(p)
      PROVE  pc'[q] \in After /\ UNCHANGED <<fwd, rev, ids>>
  BY <1>0, <1>2 DEF MakeMapReturns, StageEnds, Enter, Fail, After
<1>3. ASSUME NEW p \in Reqs, DialRoutes(p) \/ PingRoute(p)
      PROVE  pc'[q] \in After /\ UNCHANGED <<fwd, rev, ids>>
  BY <1>0, <1>3 DEF DialRoutes, PingRoute, DialReturns, After
<1>4. ASSUME NEW p \in Reqs, NEW n \in Nodes, CallOK(p, n)
      PROVE  UNCHANGED <<pc, fwd, rev>> /\ ids'[q] = ids[q]
  BY <1>0, <1>4 DEF CallOK, After
<1>5. ASSUME NEW p \in Reqs, NEW n \in Nodes, DialResult(p, n) \/ Call(p, n) \/ CallErr(p, n)
      PROVE  UNCHANGED <<pc, fwd, rev, ids>>
  BY <1>5 DEF DialResult, Call, CallErr
<1>6. ASSUME NEW m, HandleReserve(m) \/ HandleIntermediary(m) \/ HandleEdge(m)
      PROVE  UNCHANGED <<pc, fwd, rev, ids>>
  BY <1>6 DEF HandleReserve, HandleIntermediary, HandleEdge, Answer
<1>7. ASSUME NEW n, AcceptRoutes(n)
      PROVE  UNCHANGED <<pc, fwd, rev, ids>>
  BY <1>7 DEF AcceptRoutes
<1>8. CASE UNCHANGED vars
  BY <1>8 DEF vars
<1>9. ASSUME NEW p \in Reqs, Deadline(p)
      PROVE  UNCHANGED <<pc, fwd, rev, ids>>
  BY <1>9 DEF Deadline
<1>. QED
  BY <1>1, <1>2, <1>3, <1>4, <1>5, <1>6, <1>7, <1>8, <1>9, Zenon DEF Next

\* So rules that were made for a visor are made for good.
LEMMA Kept ==
  ASSUME Types, Progress, [Next]_vars
  PROVE  /\ \A q \in Reqs : Generated(q) =>
              /\ Generated(q)'
              /\ \A n : InterRules(q, n)' = InterRules(q, n)
              /\ InitEdge(q)' = InitEdge(q) /\ RespEdge(q)' = RespEdge(q)
         /\ \A r, n : IsRule(r, n) => IsRule(r, n)'
<1>1. ASSUME NEW q \in Reqs, Generated(q)
      PROVE  /\ Generated(q)'
             /\ \A n : InterRules(q, n)' = InterRules(q, n)
             /\ InitEdge(q)' = InitEdge(q) /\ RespEdge(q)' = RespEdge(q)
             /\ \A k \in {1, 2} : Path(q, k)' = Path(q, k)
             /\ \A k \in {1, 2} : \A i : RuleAt(q, k, i)' = RuleAt(q, k, i)
  <2>1. pc'[q] \in After /\ fwd'[q] = fwd[q] /\ rev'[q] = rev[q] /\ ids'[q] = ids[q]
    BY <1>1, Frozen DEF Generated
  <2>2. Check(q, fwd[q], rev[q])' = Check(q, fwd[q], rev[q])
    BY <2>1 DEF Check
  <2>. QED
    BY <1>1, <2>1, <2>2, Same, Zenon DEF Generated
<1>2. ASSUME NEW r, NEW n, IsRule(r, n)
      PROVE  IsRule(r, n)'
  <2>1. PICK q \in Reqs, k \in {1, 2} : \E i \in 1..Len(Path(q, k)) :
           Generated(q) /\ Path(q, k)[i] = n /\ r = RuleAt(q, k, i)
    BY <1>2, Zenon DEF IsRule
  <2>2. PICK i \in 1..Len(Path(q, k)) : Generated(q) /\ Path(q, k)[i] = n /\ r = RuleAt(q, k, i)
    BY <2>1
  <2>3. Generated(q)' /\ Path(q, k)' = Path(q, k) /\ RuleAt(q, k, i)' = RuleAt(q, k, i)
    BY <1>1, <2>2, Zenon
  <2>4. i \in 1..Len(Path(q, k)') /\ Path(q, k)'[i] = n /\ r = RuleAt(q, k, i)'
    BY <2>2, <2>3, Zenon
  <2>. QED
    BY <2>3, <2>4, Zenon DEF IsRule
<1>. QED
  BY <1>1, <1>2, Zenon

\* What SaveRule does to the table of visor n, when all it saves are rules
\* that were made for n: nothing that was stored is replaced.
LEMMA Saved ==
  ASSUME Types, Reserved, NEW n, \A k \in DOMAIN tbl[n] : tbl[n][k].key = k /\ IsRule(tbl[n][k], n),
         NEW rs, \A r \in rs : IsRule(r, n)
  PROVE  LET t == Save(tbl[n], rs)
         IN  /\ \A k \in DOMAIN tbl[n] : k \in DOMAIN t /\ t[k] = tbl[n][k]
             /\ \A r \in rs : r.key \in DOMAIN t /\ t[r.key] = r
             /\ \A k \in DOMAIN t : t[k].key = k /\ IsRule(t[k], n)
<1>. DEFINE t == Save(tbl[n], rs)
<1>1. DOMAIN t = DOMAIN tbl[n] \cup {r.key : r \in rs}
  BY Zenon DEF Save
<1>2. ASSUME NEW r \in rs
      PROVE  t[r.key] = r
  <2>1. r.key \in DOMAIN t
    BY <1>1
  <2>2. t[r.key] = CHOOSE s \in rs : s.key = r.key
    BY <2>1 DEF Save
  <2>3. PICK s \in rs : s.key = r.key /\ t[r.key] = s
    BY <2>2
  <2>4. IsRule(r, n) /\ IsRule(s, n)
    OBVIOUS
  <2>. QED
    BY <2>3, <2>4, RuleOfKey
<1>3. ASSUME NEW k \in DOMAIN tbl[n]
      PROVE  t[k] = tbl[n][k]
  <2>1. CASE \E r \in rs : r.key = k
    <3>1. PICK r \in rs : r.key = k
      BY <2>1
    <3>2. t[k] = r /\ IsRule(r, n) /\ IsRule(tbl[n][k], n) /\ tbl[n][k].key = r.key
      BY <1>2, <3>1
    <3>. QED
      BY <3>2, RuleOfKey
  <2>2. CASE ~\E r \in rs : r.key = k
    BY <1>1, <2>2 DEF Save
  <2>. QED
    BY <2>1, <2>2
<1>4. ASSUME NEW k \in DOMAIN t
      PROVE  t[k].key = k /\ IsRule(t[k], n)
  <2>1. CASE k \in DOMAIN tbl[n]
    BY <1>3, <2>1, Zenon
  <2>2. CASE \E r \in rs : k = r.key
    BY <1>2, <2>2, Zenon
  <2>. QED
    BY <1>1, <2>1, <2>2
<1>. QED
  BY <1>1, <1>2, <1>3, <1>4

\* The rules of the setup node's calls and answers are such rules.
LEMMA RulesMade ==
  ASSUME Types
  PROVE  /\ \A q \in Reqs : Generated(q) => \A n : \A r \in InterRules(q, n) : IsRule(r, n)
         /\ \A e, n : IsEdge(e, n) => n \in Nodes /\ IsRule(e.fwd, n) /\ IsRule(e.rev, n)
<1>1. ASSUME NEW q \in Reqs, Generated(q), NEW n, NEW r \in InterRules(q, n)
      PROVE  IsRule(r, n)
  <2>1. PICK y \in {1, 2} \X (2..Len(PopOrder(q))) :
          y[2] < Len(Routes(q)[y[1]].path) /\ Routes(q)[y[1]].path[y[2]] = n /\ r = RuleAt(q, y[1], y[2])
    BY <1>1, Zenon DEF InterRules
  <2>2. y[1] \in {1, 2} /\ y[2] \in 2..Len(PopOrder(q))
    BY <2>1
  <2>3. Routes(q)[y[1]].path = Path(q, y[1])
    BY <2>2 DEF Routes, Path
  <2>4. Path(q, y[1]) \in Seq(Nodes)
    <3>1. Path(q, y[1]) \in Paths \cup {<<>>}
      BY <2>2 DEF Path, Types
    <3>2. Paths \subseteq Seq(Nodes) /\ <<>> \in Seq(Nodes)
      BY PathsAssumption
    <3>. QED
      BY <3>1, <3>2
  <2>5. y[2] \in 1..Len(Path(q, y[1]))
    <3>1. Len(Path(q, y[1])) \in Nat /\ y[2] < Len(Path(q, y[1]))
      BY <2>1, <2>3, <2>4
    <3>2. y[2] \in Int /\ y[2] >= 2
      BY <2>2
    <3>. HIDE DEF Path
    <3>. QED
      BY <3>1, <3>2
  <2>. QED
    BY <1>1, <2>1, <2>2, <2>3, <2>5, Zenon DEF IsRule
<1>2. ASSUME NEW e, NEW n, IsEdge(e, n)
      PROVE  n \in Nodes /\ IsRule(e.fwd, n) /\ IsRule(e.rev, n)
  <2>1. PICK q \in Reqs : /\ Generated(q)
                          /\ \/ n = Src[q] /\ e = InitEdge(q)
                             \/ n = Dst[q] /\ e = RespEdge(q)
    BY <1>2 DEF IsEdge
  <2>2. /\ fwd[q] \in Seq(Nodes) /\ rev[q] \in Seq(Nodes) /\ Len(fwd[q]) > 1 /\ Len(rev[q]) > 1
        /\ fwd[q][1] = Src[q] /\ rev[q][Len(rev[q])] = Src[q]
        /\ rev[q][1] = Dst[q] /\ fwd[q][Len(fwd[q])] = Dst[q]
    <3>1. fwd[q] \in Paths \cup {<<>>} /\ rev[q] \in Paths \cup {<<>>}
      BY DEF Types
    <3>2. Paths \subseteq Seq(Nodes) /\ <<>> \in Seq(Nodes)
      BY PathsAssumption
    <3>. QED
      BY <2>1, <3>1, <3>2 DEF Generated, Check
  <2>3. /\ 1 \in 1..Len(fwd[q]) /\ Len(fwd[q]) \in 1..Len(fwd[q])
        /\ 1 \in 1..Len(rev[q]) /\ Len(rev[q]) \in 1..Len(rev[q])
    BY <2>2
  <2>4. Path(q, 1) = fwd[q] /\ Path(q, 2) = rev[q]
    BY DEF Path
  <2>5. /\ IsRule(RuleAt(q, 1, 1), Src[q]) /\ IsRule(RuleAt(q, 2, Len(rev[q])), Src[q])
        /\ IsRule(RuleAt(q, 2, 1), Dst[q]) /\ IsRule(RuleAt(q, 1, Len(fwd[q])), Dst[q])
    <3>1. 1 \in {1, 2} /\ 2 \in {1, 2}
      OBVIOUS
    <3>. HIDE DEF Path
    <3>. QED
      BY <2>1, <2>2, <2>3, <2>4, <3>1, Zenon DEF IsRule
  <2>6. /\ InitEdge(q).fwd = RuleAt(q, 1, 1) /\ InitEdge(q).rev = RuleAt(q, 2, Len(rev[q]))
        /\ RespEdge(q).fwd = RuleAt(q, 2, 1) /\ RespEdge(q).rev = RuleAt(q, 1, Len(fwd[q]))
    BY DEF InitEdge, RespEdge
  <2>7. Src[q] \in Nodes /\ Dst[q] \in Nodes
    BY PathsAssumption
  <2>. QED
    BY <2>1, <2>5, <2>6, <2>7, Zenon
<1>. QED
  BY <1>1, <1>2, Zenon

\* Every step saves rules that were made, or leaves a table alone.
LEMMA TableStep ==
  ASSUME IInv, [Next]_vars
  PROVE  /\ tbl' = [n \in Nodes |-> tbl'[n]]
         /\ \A n \in Nodes : \/ tbl'[n] = tbl[n]
                             \/ \E rs : tbl'[n] = Save(tbl[n], rs) /\ \A r \in rs : IsRule(r, n)
<1>. DEFINE Done == /\ tbl' = [n \in Nodes |-> tbl'[n]]
                    /\ \A n \in Nodes : \/ tbl'[n] = tbl[n]
                                        \/ \E rs : tbl'[n] = Save(tbl[n], rs) /\ \A r \in rs : IsRule(r, n)
<1>. SUFFICES Done
  OBVIOUS
<1>0. tbl = [n \in Nodes |-> tbl[n]]
  BY Zenon DEF IInv, Types
<1>1. ASSUME NEW a \in Nodes, NEW rs, tbl' = [tbl EXCEPT ![a] = Save(@, rs)], \A r \in rs : IsRule(r, a)
      PROVE  Done
  <2>1. DOMAIN tbl' = Nodes /\ tbl'[a] = Save(tbl[a], rs) /\ \A n \in Nodes \ {a} : tbl'[n] = tbl[n]
    BY <1>0, <1>1
  <2>2. tbl' = [n \in Nodes |-> tbl'[n]]
    BY <1>0, <1>1
  <2>3. ASSUME NEW n \in Nodes
        PROVE  \/ tbl'[n] = tbl[n]
               \/ \E rs1 : tbl'[n] = Save(tbl[n], rs1) /\ \A r \in rs1 : IsRule(r, n)
    <3>1. CASE n = a
      BY <1>1, <2>1, <3>1, Zenon
    <3>2. CASE n # a
      BY <2>1, <3>2
    <3>. QED
      BY <3>1, <3>2
  <2>. QED
    BY <2>2, <2>3, Zenon
<1>2. ASSUME NEW n \in Nodes, NEW e, IsEdge(e, n), Register(n, e)
      PROVE  Done
  <2>1. \A r \in {e.fwd, e.rev} : IsRule(r, n)
    BY <1>2, RulesMade DEF IInv
  <2>. QED
    BY <1>1, <1>2, <2>1 DEF Register
<1>3. ASSUME NEW q \in Reqs, DialRoutes(q) \/ PingRoute(q)
      PROVE  Done
  <2>1. Register(Src[q], InitEdge(q)) /\ pc[q] = "done"
    BY <1>3, Zenon DEF DialRoutes, PingRoute, DialReturns
  <2>2. IsEdge(InitEdge(q), Src[q])
    BY <2>1 DEF IInv, Progress, IsEdge, After
  <2>3. Src[q] \in Nodes
    BY PathsAssumption
  <2>. QED
    BY <1>2, <2>1, <2>2, <2>3
<1>4. ASSUME NEW n \in Nodes, AcceptRoutes(n)
      PROVE  Done
  <2>1. Register(n, Head(accept[n])) /\ accept[n] # <<>>
    BY <1>4 DEF AcceptRoutes
  <2>2. accept[n] \in Seq(Range(accept[n]))
    BY DEF IInv, Types, IsSeq
  <2>3. 1 \in DOMAIN accept[n] /\ Head(accept[n]) = accept[n][1]
    BY <2>1, <2>2
  <2>4. IsEdge(Head(accept[n]), n)
    BY <2>3 DEF IInv, Tables
  <2>. QED
    BY <1>2, <2>1, <2>4
<1>5. ASSUME NEW m \in net, HandleIntermediary(m)
      PROVE  Done
  <2>1. tbl' = [tbl EXCEPT ![m.to] = Save(@, m.args)] /\ m.stage = "broadcast"
    BY <1>5 DEF HandleIntermediary
  <2>2. m.to \in Nodes /\ \A r \in m.args : IsRule(r, m.to)
    <3>1. m.q \in Reqs /\ m.to \in Nodes
      BY DEF IInv, Types
    <3>2. Generated(m.q) /\ m.args = InterRules(m.q, m.to)
      BY <2>1 DEF IInv, Calls
    <3>3. \A r \in InterRules(m.q, m.to) : IsRule(r, m.to)
      BY <3>1, <3>2, RulesMade DEF IInv
    <3>. QED
      BY <3>1, <3>2, <3>3, Zenon
  <2>. QED
    BY <1>1, <2>1, <2>2
<1>6. ASSUME UNCHANGED tbl
      PROVE  Done
  BY <1>0, <1>6
<1>7. ASSUME NEW q \in Reqs, DialRouteGroup(q) \/ Deadline(q) \/ MakeMapReturns(q) \/ StageEnds(q)
      PROVE  Done
  BY <1>6, <1>7 DEF DialRouteGroup, Deadline, MakeMapReturns, StageEnds, routerVars
<1>8. ASSUME NEW q \in Reqs, NEW n \in Nodes, DialResult(q, n) \/ Call(q, n) \/ CallOK(q, n) \/ CallErr(q, n)
      PROVE  Done
  BY <1>6, <1>8 DEF DialResult, Call, CallOK, CallErr, routerVars
<1>9. ASSUME NEW m \in net, HandleReserve(m) \/ HandleEdge(m)
      PROVE  Done
  BY <1>6, <1>9 DEF HandleReserve, HandleEdge
<1>10. CASE UNCHANGED vars
  BY <1>6, <1>10 DEF vars
<1>. HIDE DEF Done
<1>11. ASSUME NEW q \in Reqs, DialRouteGroup(q) \/ Deadline(q) \/ MakeMapReturns(q) \/ StageEnds(q) \/ DialRoutes(q) \/ PingRoute(q)
       PROVE  Done
  BY <1>3, <1>7, <1>11
<1>12. ASSUME NEW m \in net, HandleReserve(m) \/ HandleIntermediary(m) \/ HandleEdge(m)
       PROVE  Done
  BY <1>5, <1>9, <1>12
<1>13. CASE Next
  <2>1. CASE \E q \in Reqs : \/ DialRouteGroup(q) \/ Deadline(q) \/ MakeMapReturns(q)
                            \/ StageEnds(q) \/ DialRoutes(q) \/ PingRoute(q)
    BY <1>11, <2>1
  <2>2. CASE \E q \in Reqs : \E n \in Nodes : DialResult(q, n) \/ Call(q, n) \/ CallOK(q, n) \/ CallErr(q, n)
    BY <1>8, <2>2
  <2>3. CASE \E m \in net : HandleReserve(m) \/ HandleIntermediary(m) \/ HandleEdge(m)
    BY <1>12, <2>3
  <2>4. CASE \E n \in Nodes : AcceptRoutes(n)
    BY <1>4, <2>4
  <2>. QED
    BY <1>13, <2>1, <2>2, <2>3, <2>4, Zenon DEF Next
<1>. QED
  BY <1>10, <1>13

\* Therefore no rule is replaced, and what is installed stays.
LEMMA TablesKept ==
  ASSUME IInv, [Next]_vars
  PROVE  /\ \A n \in Nodes : \A k \in DOMAIN tbl[n] : k \in DOMAIN tbl'[n] /\ tbl'[n][k] = tbl[n][k]
         /\ \A n \in Nodes : \A k \in DOMAIN tbl'[n] : tbl'[n][k].key = k /\ IsRule(tbl'[n][k], n)
         /\ \A n \in Nodes : \A r : Stored(r, n) => Stored(r, n)'
         /\ \A q \in Reqs : Generated(q) => \A n \in Nodes : InstalledAt(q, n) => InstalledAt(q, n)'
<1>1. ASSUME NEW n \in Nodes
      PROVE  /\ \A k \in DOMAIN tbl[n] : k \in DOMAIN tbl'[n] /\ tbl'[n][k] = tbl[n][k]
             /\ \A k \in DOMAIN tbl'[n] : tbl'[n][k].key = k /\ IsRule(tbl'[n][k], n)
  <2>1. \A k \in DOMAIN tbl[n] : tbl[n][k].key = k /\ IsRule(tbl[n][k], n)
    BY Zenon DEF IInv, Tables
  <2>2. CASE tbl'[n] = tbl[n]
    BY <2>1, <2>2, Zenon
  <2>3. ASSUME NEW rs, tbl'[n] = Save(tbl[n], rs), \A r \in rs : IsRule(r, n)
        PROVE  /\ \A k \in DOMAIN tbl[n] : k \in DOMAIN tbl'[n] /\ tbl'[n][k] = tbl[n][k]
               /\ \A k \in DOMAIN tbl'[n] : tbl'[n][k].key = k /\ IsRule(tbl'[n][k], n)
    <3>1. /\ \A k \in DOMAIN tbl[n] : k \in DOMAIN Save(tbl[n], rs) /\ Save(tbl[n], rs)[k] = tbl[n][k]
          /\ \A k \in DOMAIN Save(tbl[n], rs) : Save(tbl[n], rs)[k].key = k /\ IsRule(Save(tbl[n], rs)[k], n)
      BY <2>1, <2>3, Saved DEF IInv
    <3>. QED
      BY <2>3, <3>1, Zenon
  <2>. QED
    BY <2>2, <2>3, TableStep, Zenon
<1>2. ASSUME NEW n \in Nodes, NEW r, Stored(r, n)
      PROVE  Stored(r, n)'
  BY <1>1, <1>2, Zenon DEF Stored
<1>3. ASSUME NEW q \in Reqs, Generated(q), NEW n \in Nodes, InstalledAt(q, n)
      PROVE  InstalledAt(q, n)'
  <2>1. InterRules(q, n)' = InterRules(q, n)
    BY <1>3, Kept, Zenon DEF IInv
  <2>. QED
    BY <1>2, <1>3, <2>1, Zenon DEF InstalledAt
<1>. QED
  BY <1>1, <1>2, <1>3

-----------------------------------------------------------------------------
(* The invariant.                                                          *)

\* Sequences of unspecified elements, at both ends.
LEMMA Ends ==
  ASSUME NEW s, IsSeq(s)
  PROVE  /\ \A x : /\ IsSeq(Append(s, x))
                   /\ \A i \in DOMAIN Append(s, x) : Append(s, x)[i] = x \/ \E j \in DOMAIN s : Append(s, x)[i] = s[j]
         /\ s # <<>> =>
              /\ IsSeq(Tail(s))
              /\ \A i \in DOMAIN Tail(s) : \E j \in DOMAIN s : Tail(s)[i] = s[j]
              /\ \E j \in DOMAIN s : Head(s) = s[j]
<1>. DEFINE S == Range(s)
<1>0. s \in Seq(S) /\ Len(s) \in Nat /\ DOMAIN s = 1..Len(s)
  BY DEF IsSeq
<1>. HIDE DEF S
<1>1. ASSUME NEW x
      PROVE  /\ IsSeq(Append(s, x))
             /\ \A i \in DOMAIN Append(s, x) : Append(s, x)[i] = x \/ \E j \in DOMAIN s : Append(s, x)[i] = s[j]
  <2>. DEFINE T == S \cup {x}
              a == Append(s, x)
  <2>1. s \in Seq(T) /\ x \in T
    BY <1>0
  <2>2. a \in Seq(T) /\ Len(a) = Len(s) + 1 /\ DOMAIN a = 1..(Len(s) + 1)
    BY <2>1
  <2>3. \A i \in 1..Len(s) : a[i] = s[i]
    BY <2>1
  <2>4. a[Len(s) + 1] = x
    BY <2>1
  <2>5. a \in Seq(Range(a))
    <3>. HIDE DEF a
    <3>1. \A i \in 1..Len(a) : a[i] \in Range(a)
      BY <2>2 DEF Range
    <3>. QED
      BY <2>2, <3>1
  <2>6. \A i \in 1..(Len(s) + 1) : i \in 1..Len(s) \/ i = Len(s) + 1
    BY <1>0
  <2>. HIDE DEF a
  <2>7. \A i \in DOMAIN a : a[i] = x \/ \E j \in DOMAIN s : a[i] = s[j]
    BY <1>0, <2>2, <2>3, <2>4, <2>6, Zenon
  <2>. QED
    BY <2>5, <2>7 DEF IsSeq, a
<1>2. ASSUME s # <<>>
      PROVE  /\ IsSeq(Tail(s))
             /\ \A i \in DOMAIN Tail(s) : \E j \in DOMAIN s : Tail(s)[i] = s[j]
             /\ \E j \in DOMAIN s : Head(s) = s[j]
  <2>. DEFINE t == Tail(s)
  <2>1. t \in Seq(S) /\ Len(s) > 0 /\ DOMAIN t = 1..(Len(s) - 1) /\ Head(s) = s[1]
    BY <1>0, <1>2
  <2>2. \A i \in 1..(Len(s) - 1) : t[i] = s[i + 1] /\ i + 1 \in 1..Len(s)
    BY <1>0, <1>2
  <2>3. 1 \in 1..Len(s)
    BY <1>0, <2>1
  <2>. HIDE DEF t
  <2>4. t \in Seq(Range(t))
    <3>1. \A i \in 1..Len(t) : t[i] \in Range(t)
      BY <2>1 DEF Range
    <3>. QED
      BY <2>1, <3>1
  <2>5. \A i \in DOMAIN t : \E j \in DOMAIN s : t[i] = s[j]
    BY <1>0, <2>1, <2>2, Zenon
  <2>6. \E j \in DOMAIN s : Head(s) = s[j]
    BY <1>0, <2>1, <2>3, Zenon
  <2>. QED
    BY <2>4, <2>5, <2>6 DEF IsSeq, t
<1>. QED
  BY <1>1, <1>2

\* Paths, and the visors on them.
LEMMA PathTypes ==
  /\ \A f \in Paths \cup {<<>>} : f \in Seq(Nodes) /\ Range(f) \subseteq Nodes
  /\ Types => \A q \in Reqs : fwd[q] \in Seq(Nodes) /\ rev[q] \in Seq(Nodes) /\ DOMAIN Rec(q) \subseteq Nodes
<1>1. ASSUME NEW f \in Paths \cup {<<>>}
      PROVE  f \in Seq(Nodes) /\ Range(f) \subseteq Nodes
  <2>1. f \in Seq(Nodes)
    <3>1. Paths \subseteq Seq(Nodes) /\ <<>> \in Seq(Nodes)
      BY PathsAssumption
    <3>. QED
      BY <3>1
  <2>2. \A i \in DOMAIN f : f[i] \in Nodes
    BY <2>1
  <2>. QED
    BY <2>1, <2>2 DEF Range
<1>2. ASSUME Types, NEW q \in Reqs
      PROVE  fwd[q] \in Seq(Nodes) /\ rev[q] \in Seq(Nodes) /\ DOMAIN Rec(q) \subseteq Nodes
  <2>1. fwd[q] \in Paths \cup {<<>>} /\ rev[q] \in Paths \cup {<<>>}
    BY <1>2 DEF Types
  <2>2. DOMAIN Rec(q) = Range(fwd[q]) \cup Range(rev[q])
    BY Zenon DEF Rec
  <2>. QED
    BY <1>1, <2>1, <2>2
<1>. QED
  BY <1>1, <1>2

\* How the setup node enters a stage, and fails.
LEMMA EnterTypes ==
  ASSUME Types, NEW q \in Reqs, NEW s \in Stages, NEW ns \in SUBSET Nodes, Enter(q, s, ns)
  PROVE  /\ pc' \in [Reqs -> Stages] /\ pending' \in [Reqs -> SUBSET Nodes] /\ unsent' \in [Reqs -> SUBSET Nodes]
         /\ err' \in [Reqs -> BOOLEAN] /\ \A p \in Reqs : unsent'[p] \subseteq pending'[p]
BY DEF Types, Enter

LEMMA TypesKept ==
  ASSUME IInv, [Next]_vars
  PROVE  Types'
<1>0. Types /\ tbl' = [n \in Nodes |-> tbl'[n]]
  BY TableStep DEF IInv
<1>1. ASSUME NEW q \in Reqs, DialRouteGroup(q)
      PROVE  Types'
  <2>1. PICK f \in Paths, r \in Paths :
          /\ fwd' = [fwd EXCEPT ![q] = f]
          /\ rev' = [rev EXCEPT ![q] = r]
          /\ IF Check(q, f, r)
             THEN Enter(q, "dial", Range(f) \cup Range(r)) /\ UNCHANGED clients
             ELSE Fail(q)
    BY <1>1 DEF DialRouteGroup, FetchBestRoutes, FetchPingRoute
  <2>2. Range(f) \cup Range(r) \in SUBSET Nodes /\ {} \in SUBSET Nodes /\ "dial" \in Stages /\ "failed" \in Stages
    BY PathTypes DEF Stages
  <2>3. /\ pc' \in [Reqs -> Stages] /\ pending' \in [Reqs -> SUBSET Nodes] /\ unsent' \in [Reqs -> SUBSET Nodes]
        /\ err' \in [Reqs -> BOOLEAN] /\ \A p \in Reqs : unsent'[p] \subseteq pending'[p]
    BY <1>0, <2>1, <2>2, EnterTypes DEF Fail
  <2>4. fwd' \in [Reqs -> Paths \cup {<<>>}] /\ rev' \in [Reqs -> Paths \cup {<<>>}] /\ clients' \in [Reqs -> SUBSET Nodes]
    BY <1>0, <2>1 DEF Types, Fail
  <2>. QED
    BY <1>0, <1>1, <2>3, <2>4 DEF Types, DialRouteGroup, routerVars
<1>2. ASSUME NEW q \in Reqs, Deadline(q)
      PROVE  Types'
  BY <1>0, <1>2 DEF Types, Deadline, routerVars
<1>3. ASSUME NEW q \in Reqs, MakeMapReturns(q)
      PROVE  Types'
  <2>1. DOMAIN Rec(q) \in SUBSET Nodes /\ {} \in SUBSET Nodes /\ "reserve" \in Stages /\ "failed" \in Stages
    BY <1>0, PathTypes DEF Stages
  <2>2. /\ pc' \in [Reqs -> Stages] /\ pending' \in [Reqs -> SUBSET Nodes] /\ unsent' \in [Reqs -> SUBSET Nodes]
        /\ err' \in [Reqs -> BOOLEAN] /\ \A p \in Reqs : unsent'[p] \subseteq pending'[p]
    BY <1>0, <1>3, <2>1, EnterTypes DEF MakeMapReturns, Fail
  <2>3. clients' \in [Reqs -> SUBSET Nodes]
    BY <1>0, <1>3 DEF Types, MakeMapReturns, Fail
  <2>. QED
    BY <1>0, <1>3, <2>2, <2>3 DEF Types, MakeMapReturns, routerVars
<1>4. ASSUME NEW q \in Reqs, StageEnds(q)
      PROVE  Types'
  <2>1. /\ InterNodes(q) \in SUBSET Nodes /\ {Dst[q]} \in SUBSET Nodes /\ {} \in SUBSET Nodes
        /\ {"failed", "broadcast", "edge", "done"} \subseteq Stages
    BY PathsAssumption DEF InterNodes, Stages
  <2>2. PICK s \in Stages, ns \in SUBSET Nodes : Enter(q, s, ns)
    BY <1>4, <2>1 DEF StageEnds, Fail
  <2>3. /\ pc' \in [Reqs -> Stages] /\ pending' \in [Reqs -> SUBSET Nodes] /\ unsent' \in [Reqs -> SUBSET Nodes]
        /\ err' \in [Reqs -> BOOLEAN] /\ \A p \in Reqs : unsent'[p] \subseteq pending'[p]
    BY <1>0, <2>2, EnterTypes
  <2>4. clients' \in [Reqs -> SUBSET Nodes]
    BY <1>0, <1>4 DEF Types, StageEnds, Fail
  <2>. QED
    BY <1>0, <1>4, <2>3, <2>4 DEF Types, StageEnds, routerVars
<1>5. ASSUME NEW q \in Reqs, DialRoutes(q) \/ PingRoute(q)
      PROVE  Types'
  <2>1. DialReturns(q)
    BY <1>5 DEF DialRoutes, PingRoute
  <2>2. pc' \in [Reqs -> Stages]
    BY <1>0, <2>1 DEF DialReturns, Types, Stages
  <2>3. groups' = [n \in Nodes |-> groups'[n]]
    BY <1>0, <2>1 DEF DialReturns, Register, Types
  <2>. QED
    BY <1>0, <2>1, <2>2, <2>3 DEF Types, DialReturns
<1>6. ASSUME NEW q \in Reqs, NEW n \in Nodes, DialResult(q, n)
      PROVE  Types'
  <2>1. unsent[q] = {}
    BY <1>6 DEF DialResult, IInv, Progress
  <2>2. pending' \in [Reqs -> SUBSET Nodes] /\ \A p \in Reqs : unsent[p] \subseteq pending'[p]
    BY <1>0, <1>6, <2>1 DEF Types, DialResult
  <2>3. clients' \in [Reqs -> SUBSET Nodes] /\ err' \in [Reqs -> BOOLEAN]
    <3>1. clients \in [Reqs -> SUBSET Nodes] /\ err \in [Reqs -> BOOLEAN]
      BY <1>0 DEF Types
    <3>2. \/ UNCHANGED <<clients, err>>
          \/ \E ok \in BOOLEAN : /\ clients' = [clients EXCEPT ![q] = IF ok THEN @ \cup {n} ELSE @]
                                 /\ err' = [err EXCEPT ![q] = ~ok]
      BY <1>6 DEF DialResult
    <3>3. ASSUME NEW ok \in BOOLEAN, clients' = [clients EXCEPT ![q] = IF ok THEN @ \cup {n} ELSE @]
          PROVE  clients' \in [Reqs -> SUBSET Nodes]
      <4>1. (IF ok THEN clients[q] \cup {n} ELSE clients[q]) \in SUBSET Nodes
        BY <3>1
      <4>. QED
        BY <3>1, <3>3, <4>1
    <3>4. ASSUME NEW ok \in BOOLEAN, err' = [err EXCEPT ![q] = ~ok]
          PROVE  err' \in [Reqs -> BOOLEAN]
      BY <3>1, <3>4
    <3>. QED
      BY <3>1, <3>2, <3>3, <3>4
  <2>. QED
    BY <1>0, <1>6, <2>2, <2>3 DEF Types, DialResult, routerVars
<1>7. ASSUME NEW q \in Reqs, NEW n \in Nodes, Call(q, n)
      PROVE  Types'
  <2>1. pc[q] \in {"reserve", "broadcast", "edge"}
    BY <1>7 DEF Call, IInv, Progress
  <2>2. net' \subseteq net \cup {Request(q, n)} /\ (unsent' = unsent \/ unsent' = [unsent EXCEPT ![q] = @ \ {n}])
    BY <1>7 DEF Call
  <2>6. unsent' \in [Reqs -> SUBSET Nodes] /\ \A p \in Reqs : unsent'[p] \subseteq pending[p]
    <3>1. unsent \in [Reqs -> SUBSET Nodes] /\ \A p \in Reqs : unsent[p] \subseteq pending[p]
      BY <1>0 DEF Types
    <3>2. CASE unsent' = unsent
      BY <3>1, <3>2
    <3>3. CASE unsent' = [unsent EXCEPT ![q] = @ \ {n}]
      BY <3>1, <3>3
    <3>. QED
      BY <2>2, <3>2, <3>3
  <2>3. Request(q, n).q = q /\ Request(q, n).to = n /\ Request(q, n).stage = pc[q]
    BY DEF Request
  <2>4. \A m \in net' : m.q \in Reqs /\ m.to \in Nodes /\ m.stage \in {"reserve", "broadcast", "edge"}
    BY <1>0, <2>1, <2>2, <2>3, Zenon DEF Types
  <2>5. crashed' \in BOOLEAN
    BY <1>0, <1>7 DEF Call, Types
  <2>. QED
    BY <1>0, <1>7, <2>4, <2>5, <2>6 DEF Types, Call, routerVars
<1>8. ASSUME NEW q \in Reqs, NEW n \in Nodes, CallOK(q, n)
      PROVE  Types'
  <2>1. replies' \subseteq replies
    BY <1>8 DEF CallOK
  <2>2. ids' = [p \in Reqs |-> [a \in Nodes |-> ids'[p][a]]]
    <3>1. ids = [p \in Reqs |-> [a \in Nodes |-> ids[p][a]]]
      BY <1>0 DEF Types
    <3>2. ids' = ids \/ \E x : ids' = [ids EXCEPT ![q][n] = x]
      BY <1>8 DEF CallOK
    <3>3. ASSUME NEW x, ids' = [ids EXCEPT ![q][n] = x]
          PROVE  ids' = [p \in Reqs |-> [a \in Nodes |-> ids'[p][a]]]
      BY <3>1, <3>3
    <3>. QED
      BY <3>1, <3>2, <3>3
  <2>3. pending' \in [Reqs -> SUBSET Nodes] /\ \A p \in Reqs : unsent[p] \subseteq pending'[p]
    BY <1>0, <1>8 DEF CallOK, Types
  <2>. QED
    BY <1>0, <1>8, <2>1, <2>2, <2>3 DEF Types, CallOK, routerVars
<1>9. ASSUME NEW q \in Reqs, NEW n \in Nodes, CallErr(q, n)
      PROVE  Types'
  BY <1>0, <1>9 DEF Types, CallErr, routerVars
<1>10. ASSUME NEW m \in net, NEW a, Answer(m, a)
      PROVE  /\ \A x \in net' : x.q \in Reqs /\ x.to \in Nodes /\ x.stage \in {"reserve", "broadcast", "edge"}
             /\ \A r \in replies' : r.q \in Reqs /\ r.from \in Nodes /\ r.stage \in {"reserve", "broadcast", "edge"}
             /\ UNCHANGED <<pc, fwd, rev, ctxDone, pending, unsent, clients, err, ids, crashed>>
  BY <1>0, <1>10 DEF Answer, Types
<1>11. ASSUME NEW m \in net, HandleReserve(m) \/ HandleIntermediary(m) \/ HandleEdge(m)
      PROVE  Types'
  <2>1. m.to \in Nodes
    BY <1>0 DEF Types
  <2>2. /\ \A x \in net' : x.q \in Reqs /\ x.to \in Nodes /\ x.stage \in {"reserve", "broadcast", "edge"}
        /\ \A r \in replies' : r.q \in Reqs /\ r.from \in Nodes /\ r.stage \in {"reserve", "broadcast", "edge"}
        /\ UNCHANGED <<pc, fwd, rev, ctxDone, pending, unsent, clients, err, ids, crashed>>
    BY <1>10, <1>11 DEF HandleReserve, HandleIntermediary, HandleEdge
  <2>3. nextID' \in [Nodes -> Nat]
    <3>1. CASE HandleReserve(m)
      <4>1. m.args \in Nat /\ nextID \in [Nodes -> Nat]
        BY <1>0, <3>1 DEF HandleReserve, IInv, Calls, Types
      <4>. QED
        BY <2>1, <3>1, <4>1 DEF HandleReserve
    <3>. QED
      BY <1>0, <1>11, <3>1 DEF HandleIntermediary, HandleEdge, Types
  <2>4. accept' = [n \in Nodes |-> accept'[n]] /\ (\A n \in Nodes : IsSeq(accept'[n])) /\ groups' = groups
    <3>1. CASE HandleEdge(m)
      <4>1. accept' = [accept EXCEPT ![m.to] = Append(@, m.args)] /\ groups' = groups
        BY <3>1 DEF HandleEdge
      <4>2. \A n \in Nodes : IsSeq(accept[n]) /\ IsSeq(Append(accept[n], m.args))
        BY <1>0, Ends DEF Types
      <4>3. accept = [n \in Nodes |-> accept[n]]
        BY <1>0 DEF Types
      <4>. QED
        BY <4>1, <4>2, <4>3
    <3>. QED
      BY <1>0, <1>11, <3>1 DEF HandleIntermediary, HandleReserve, Types
  <2>. QED
    BY <1>0, <2>2, <2>3, <2>4 DEF Types
<1>12. ASSUME NEW n \in Nodes, AcceptRoutes(n)
      PROVE  Types'
  <2>1. accept' = [accept EXCEPT ![n] = Tail(@)] /\ accept[n] # <<>>
    BY <1>12 DEF AcceptRoutes
  <2>2. (\A a \in Nodes : IsSeq(accept[a])) /\ IsSeq(Tail(accept[n]))
    BY <1>0, <2>1, Ends DEF Types
  <2>3. accept' = [a \in Nodes |-> accept'[a]] /\ \A a \in Nodes : IsSeq(accept'[a])
    BY <1>0, <2>1, <2>2 DEF Types
  <2>4. groups' = [a \in Nodes |-> groups'[a]]
    BY <1>0, <1>12 DEF AcceptRoutes, Register, Types
  <2>. QED
    BY <1>0, <1>12, <2>3, <2>4 DEF Types, AcceptRoutes
<1>13. CASE UNCHANGED vars
  BY <1>0, <1>13 DEF Types, vars
<1>14. CASE Next
  BY <1>1, <1>2, <1>3, <1>4, <1>5, <1>6, <1>7, <1>8, <1>9, <1>11, <1>12, <1>14, Zenon DEF Next
<1>. QED
  BY <1>13, <1>14

\* A router hands out an ID once, so no two reservations meet, whichever
\* answers are dropped, late or of another setup.
LEMMA ReservedKept ==
  ASSUME IInv, [Next]_vars
  PROVE  Reserved'
<1>0. Types /\ Reserved /\ Calls
  BY DEF IInv
<1>1. ASSUME ids' = ids, nextID' = nextID, \A r \in replies' : r \in replies \/ r.stage # "reserve"
      PROVE  Reserved'
  BY <1>0, <1>1 DEF Reserved
<1>2. ASSUME NEW m \in net, HandleReserve(m)
      PROVE  Reserved'
  <2>. DEFINE s == [i \in 1..m.args |-> nextID[m.to] + i]
              a == [q |-> m.q, from |-> m.to, stage |-> m.stage, ans |-> s]
  <2>1. /\ m.args \in Nat /\ nextID \in [Nodes -> Nat] /\ m.to \in Nodes
        /\ nextID' = [nextID EXCEPT ![m.to] = @ + m.args] /\ replies' = replies \cup {a} /\ ids' = ids
    BY <1>0, <1>2 DEF HandleReserve, Answer, Calls, Types
  <2>2. \A n \in Nodes : nextID[n] \in Nat /\ nextID'[n] \in Nat /\ nextID[n] <= nextID'[n]
    BY <2>1
  <2>3. nextID'[m.to] = nextID[m.to] + m.args
    BY <2>1
  <2>4. s \in Seq(Nat) /\ DOMAIN s = 1..m.args
    <3>1. \A i \in 1..m.args : nextID[m.to] + i \in Nat
      BY <2>1, <2>2
    <3>. QED
      BY <2>1, <3>1
  <2>5. \A i \in DOMAIN s : s[i] \in 1..nextID'[m.to] /\ ~(s[i] \in 1..nextID[m.to])
    BY <2>1, <2>2, <2>3
  <2>6. \A i, j \in DOMAIN s : i # j => s[i] # s[j]
    BY <2>1, <2>2
  <2>7. a.from = m.to /\ a.ans = s
    OBVIOUS
  <2>. HIDE DEF s, a
  <2>8. ASSUME NEW t, NEW n \in Nodes, Granted(t, nextID[n])
        PROVE  Granted(t, nextID'[n]) /\ (n = m.to => Apart(t, s) /\ Apart(s, t))
    <3>1. \A i \in DOMAIN t : t[i] \in 1..nextID'[n]
      BY <2>2, <2>8 DEF Granted
    <3>2. ASSUME n = m.to, NEW i \in DOMAIN t, NEW j \in DOMAIN s
          PROVE  t[i] # s[j]
      BY <2>5, <2>8, <3>2 DEF Granted
    <3>. QED
      BY <2>8, <3>1, <3>2 DEF Granted, Apart
  <2>9. Granted(s, nextID'[m.to])
    BY <2>4, <2>5, <2>6 DEF Granted
  <2>10. \A q \in Reqs, n \in Nodes : Granted(ids[q][n], nextID[n])
    BY <1>0 DEF Reserved
  <2>11. \A r \in replies : r.stage = "reserve" => r.from \in Nodes /\ Granted(r.ans, nextID[r.from])
    BY <1>0 DEF Reserved, Types
  <2>12. \A q \in Reqs, n \in Nodes : Granted(ids[q][n], nextID'[n])
    BY <2>1, <2>8, <2>10
  <2>13. ASSUME NEW r \in replies', r.stage = "reserve"
         PROVE  Granted(r.ans, nextID'[r.from]) /\ \A q \in Reqs : Apart(ids[q][r.from], r.ans)
    <3>1. CASE r \in replies
      BY <1>0, <2>8, <2>11, <2>13, <3>1 DEF Reserved
    <3>2. CASE r = a
      BY <2>1, <2>7, <2>8, <2>9, <2>10, <3>2
    <3>. QED
      BY <2>1, <3>1, <3>2
  <2>14. ASSUME NEW r \in replies', NEW t \in replies', r.stage = "reserve", t.stage = "reserve", r # t, r.from = t.from
         PROVE  Apart(r.ans, t.ans)
    <3>1. CASE r \in replies /\ t \in replies
      BY <1>0, <2>14, <3>1 DEF Reserved
    <3>2. CASE r \in replies /\ t = a
      BY <2>7, <2>8, <2>11, <2>14, <3>2
    <3>3. CASE r = a /\ t \in replies
      BY <2>7, <2>8, <2>11, <2>14, <3>3
    <3>. QED
      BY <2>1, <2>14, <3>1, <3>2, <3>3
  <2>. QED
    BY <1>0, <2>1, <2>12, <2>13, <2>14 DEF Reserved
<1>3. ASSUME NEW q \in Reqs, NEW n \in Nodes, CallOK(q, n), pc[q] = "reserve"
      PROVE  Reserved'
  <2>1. PICK r \in replies :
          /\ r.from = n /\ r.stage = "reserve" /\ replies' = replies \ {r}
          /\ ids' = [ids EXCEPT ![q][n] = r.ans] /\ nextID' = nextID
    BY <1>3 DEF CallOK, routerVars
  <2>2. ids = [p \in Reqs |-> [b \in Nodes |-> ids[p][b]]]
    BY <1>0 DEF Types
  <2>3. \A p \in Reqs, b \in Nodes : ids'[p][b] = IF p = q /\ b = n THEN r.ans ELSE ids[p][b]
    BY <2>1, <2>2
  <2>5. Granted(r.ans, nextID[n]) /\ \A p \in Reqs : Apart(ids[p][n], r.ans)
    BY <1>0, <2>1 DEF Reserved
  <2>6. \A p \in Reqs : Apart(r.ans, ids[p][n])
    BY <2>5 DEF Apart
  <2>7. \A p \in Reqs, b \in Nodes : Granted(ids'[p][b], nextID[b])
    BY <1>0, <2>3, <2>5 DEF Reserved
  <2>8. \A p, o \in Reqs, b \in Nodes : p # o => Apart(ids'[p][b], ids'[o][b])
    BY <1>0, <2>3, <2>5, <2>6 DEF Reserved
  <2>9. \A p \in Reqs, t \in replies' : t.stage = "reserve" => Apart(ids'[p][t.from], t.ans)
    <3>1. SUFFICES ASSUME NEW p \in Reqs, NEW t \in replies', t.stage = "reserve"
                   PROVE  Apart(ids'[p][t.from], t.ans)
      OBVIOUS
    <3>2. t \in replies /\ t # r /\ t.from \in Nodes
      BY <1>0, <2>1 DEF Types
    <3>3. CASE p = q /\ t.from = n
      BY <1>0, <2>1, <2>3, <3>1, <3>2, <3>3 DEF Reserved
    <3>4. CASE ~(p = q /\ t.from = n)
      BY <1>0, <2>3, <3>1, <3>2, <3>4 DEF Reserved
    <3>. QED
      BY <3>3, <3>4
  <2>. QED
    BY <1>0, <2>1, <2>7, <2>8, <2>9 DEF Reserved
<1>4. ASSUME NEW q \in Reqs, NEW n \in Nodes, CallOK(q, n), pc[q] # "reserve"
      PROVE  Reserved'
  BY <1>1, <1>4 DEF CallOK, routerVars
<1>5. ASSUME NEW q \in Reqs, DialRouteGroup(q) \/ Deadline(q) \/ MakeMapReturns(q) \/ StageEnds(q) \/ DialRoutes(q) \/ PingRoute(q)
      PROVE  Reserved'
  BY <1>1, <1>5 DEF DialRouteGroup, Deadline, MakeMapReturns, StageEnds, DialRoutes, PingRoute, DialReturns, routerVars
<1>6. ASSUME NEW q \in Reqs, NEW n \in Nodes, DialResult(q, n) \/ Call(q, n) \/ CallErr(q, n)
      PROVE  Reserved'
  BY <1>1, <1>6 DEF DialResult, Call, CallErr, routerVars
<1>7. ASSUME NEW m \in net, HandleIntermediary(m) \/ HandleEdge(m)
      PROVE  Reserved'
  BY <1>1, <1>7 DEF HandleIntermediary, HandleEdge, Answer
<1>8. ASSUME NEW n \in Nodes, AcceptRoutes(n)
      PROVE  Reserved'
  BY <1>1, <1>8 DEF AcceptRoutes
<1>9. CASE UNCHANGED vars
  BY <1>1, <1>9 DEF vars
<1>10. CASE Next
  <2>1. ASSUME NEW q \in Reqs, NEW n \in Nodes, CallOK(q, n)
        PROVE  Reserved'
    BY <1>3, <1>4, <2>1
  <2>. QED
    BY <1>2, <1>5, <1>6, <1>7, <1>8, <1>10, <2>1, Zenon DEF Next
<1>. QED
  BY <1>9, <1>10

\* The number of IDs asked of a visor.
LEMMA RecNat ==
  ASSUME Types, NEW q \in Reqs, NEW n \in DOMAIN Rec(q)
  PROVE  Rec(q)[n] \in Nat
<1>1. ASSUME NEW f \in Seq(Nodes)
      PROVE  Cardinality({i \in DOMAIN f : f[i] = n}) \in Nat
  <2>1. IsFiniteSet(DOMAIN f)
    <3>1. Len(f) \in Nat /\ DOMAIN f = 1..Len(f)
      OBVIOUS
    <3>. QED
      BY <3>1, FS_Interval
  <2>2. {i \in DOMAIN f : f[i] = n} \in SUBSET (DOMAIN f)
    OBVIOUS
  <2>. QED
    BY <2>1, <2>2, FS_Subset, FS_CardinalityType
<1>2. /\ fwd[q] \in Seq(Nodes) /\ rev[q] \in Seq(Nodes)
      /\ Rec(q)[n] = Cardinality({i \in DOMAIN fwd[q] : fwd[q][i] = n})
                     + Cardinality({i \in DOMAIN rev[q] : rev[q][i] = n})
  BY PathTypes DEF Rec
<1>3. /\ Cardinality({i \in DOMAIN fwd[q] : fwd[q][i] = n}) \in Nat
      /\ Cardinality({i \in DOMAIN rev[q] : rev[q][i] = n}) \in Nat
  BY <1>1, <1>2
<1>. QED
  BY <1>2, <1>3

\* What was installed at every visor stays installed at every visor.
LEMMA InstalledKept ==
  ASSUME IInv, [Next]_vars, NEW q \in Reqs, Generated(q)
  PROVE  /\ Generated(q)'
         /\ \A n \in Nodes : InstalledAt(q, n) => InstalledAt(q, n)'
         /\ Installed(q) => Installed(q)'
BY Kept, TablesKept, Zenon DEF IInv, Installed

\* A call carries rules of its request, and is answered when they are stored.
LEMMA CallsKept ==
  ASSUME IInv, [Next]_vars
  PROVE  Calls'
<1>0. Types /\ Calls /\ Progress /\ Tables /\ Types'
  BY TypesKept DEF IInv
<1>. DEFINE CallHolds(m) ==
              /\ m.stage = "reserve" => m.args \in Nat
              /\ m.stage = "broadcast" => Generated(m.q) /\ m.args = InterRules(m.q, m.to)
              /\ m.stage = "edge" =>
                   Generated(m.q) /\ Installed(m.q) /\ m.to = Dst[m.q] /\ m.args = RespEdge(m.q)
            AnswerHolds(r) == r.stage = "broadcast" => Generated(r.q) /\ InstalledAt(r.q, r.from)
<1>1. ASSUME NEW m \in net
      PROVE  CallHolds(m)'
  <2>1. CallHolds(m) /\ m.q \in Reqs
    BY <1>0 DEF Calls, Types
  <2>2. Generated(m.q) =>
          /\ Generated(m.q)' /\ (Installed(m.q) => Installed(m.q)')
          /\ InterRules(m.q, m.to)' = InterRules(m.q, m.to) /\ RespEdge(m.q)' = RespEdge(m.q)
    BY <1>0, <2>1, InstalledKept, Kept, Zenon
  <2>. QED
    BY <2>1, <2>2, Zenon
<1>2. ASSUME NEW r \in replies
      PROVE  AnswerHolds(r)'
  <2>1. AnswerHolds(r) /\ r.q \in Reqs /\ r.from \in Nodes
    BY <1>0 DEF Calls, Types
  <2>2. Generated(r.q) => Generated(r.q)' /\ (InstalledAt(r.q, r.from) => InstalledAt(r.q, r.from)')
    BY <2>1, InstalledKept, Zenon
  <2>. QED
    BY <2>1, <2>2, Zenon
<1>3. ASSUME NEW q \in Reqs, NEW n \in Nodes, Call(q, n)
      PROVE  \A m \in net' : m \in net \/ CallHolds(m)'
  <2>. DEFINE c == Request(q, n)
  <2>1. net' \subseteq net \cup {c} /\ n \in unsent[q] /\ UNCHANGED <<tbl, pc, fwd, rev, ids>>
    BY <1>3 DEF Call, routerVars
  <2>2. pc[q] \in {"reserve", "broadcast", "edge"}
    BY <1>0, <2>1 DEF Progress
  <2>3. /\ c.q = q /\ c.to = n /\ c.stage = pc[q]
        /\ pc[q] = "reserve" => c.args = Rec(q)[n]
        /\ pc[q] = "broadcast" => c.args = InterRules(q, n)
        /\ pc[q] = "edge" => c.args = RespEdge(q)
    BY DEF Request
  <2>4. pc[q] = "reserve" => Rec(q)[n] \in Nat
    BY <1>0, <2>1, RecNat DEF Progress
  <2>5. pc[q] = "broadcast" => Generated(q)
    BY <1>0 DEF Progress, After
  <2>6. pc[q] = "edge" => Generated(q) /\ Installed(q) /\ n = Dst[q]
    BY <1>0, <2>1 DEF Progress, After
  <2>7. Generated(q) =>
          /\ Generated(q)' /\ (Installed(q) => Installed(q)')
          /\ InterRules(q, n)' = InterRules(q, n) /\ RespEdge(q)' = RespEdge(q)
    BY <1>0, InstalledKept, Kept, Zenon
  <2>8. ASSUME NEW m, m = c
        PROVE  CallHolds(m)'
    <3>1. /\ m.q = q /\ m.to = n /\ m.stage = pc[q]
          /\ pc[q] = "reserve" => m.args = Rec(q)[n]
          /\ pc[q] = "broadcast" => m.args = InterRules(q, n)
          /\ pc[q] = "edge" => m.args = RespEdge(q)
      BY <2>3, <2>8, Zenon
    <3>. HIDE DEF c
    <3>. QED
      BY <2>2, <2>4, <2>5, <2>6, <2>7, <3>1, Zenon
  <2>. HIDE DEF c, CallHolds
  <2>. QED
    BY <2>1, <2>8
<1>4. ASSUME NEW m \in net, NEW a, Answer(m, a), m.stage # "broadcast"
      PROVE  net' \subseteq net /\ \A r \in replies' : r \in replies \/ AnswerHolds(r)'
  BY <1>4 DEF Answer
<1>5. ASSUME NEW m \in net, HandleIntermediary(m)
      PROVE  net' \subseteq net /\ \A r \in replies' : r \in replies \/ AnswerHolds(r)'
  <2>1. /\ net' \subseteq net /\ m.stage = "broadcast" /\ tbl' = [tbl EXCEPT ![m.to] = Save(@, m.args)]
        /\ \A r \in replies' : r \in replies \/ (r.q = m.q /\ r.from = m.to)
    BY <1>5 DEF HandleIntermediary, Answer
  <2>2. m.q \in Reqs /\ m.to \in Nodes /\ Generated(m.q) /\ m.args = InterRules(m.q, m.to)
    BY <1>0, <2>1 DEF Calls, Types
  <2>3. \A r \in m.args : IsRule(r, m.to)
    BY <1>0, <2>2, RulesMade, Zenon
  <2>4. \A k \in DOMAIN tbl[m.to] : tbl[m.to][k].key = k /\ IsRule(tbl[m.to][k], m.to)
    BY <1>0, <2>2 DEF Tables
  <2>5. \A r \in m.args : r.key \in DOMAIN Save(tbl[m.to], m.args) /\ Save(tbl[m.to], m.args)[r.key] = r
    BY <2>3, <2>4, Saved DEF IInv
  <2>6. tbl'[m.to] = Save(tbl[m.to], m.args)
    BY <1>0, <2>1, <2>2 DEF Types
  <2>7. \A r \in m.args : Stored(r, m.to)'
    BY <2>5, <2>6, Zenon DEF Stored
  <2>8. Generated(m.q)' /\ InterRules(m.q, m.to)' = m.args
    BY <1>0, <2>2, Kept, Zenon
  <2>9. InstalledAt(m.q, m.to)'
    BY <2>7, <2>8, Zenon DEF InstalledAt
  <2>10. \A r : r.q = m.q /\ r.from = m.to => AnswerHolds(r)'
    BY <2>8, <2>9, Zenon
  <2>. QED
    BY <2>1, <2>10, Zenon
<1>6. ASSUME NEW q \in Reqs, NEW n \in Nodes, DialResult(q, n) \/ CallOK(q, n) \/ CallErr(q, n)
      PROVE  net' \subseteq net /\ replies' \subseteq replies
  BY <1>6 DEF DialResult, CallOK, CallErr
<1>7. ASSUME NEW q \in Reqs, DialRouteGroup(q) \/ Deadline(q) \/ MakeMapReturns(q) \/ StageEnds(q) \/ DialRoutes(q) \/ PingRoute(q)
      PROVE  net' \subseteq net /\ replies' \subseteq replies
  BY <1>7 DEF DialRouteGroup, Deadline, MakeMapReturns, StageEnds, DialRoutes, PingRoute, DialReturns
<1>8. ASSUME NEW m \in net, HandleReserve(m) \/ HandleEdge(m)
      PROVE  net' \subseteq net /\ \A r \in replies' : r \in replies \/ AnswerHolds(r)'
  <2>. HIDE DEF AnswerHolds
  <2>1. m.stage # "broadcast" /\ \E a : Answer(m, a)
    BY <1>8 DEF HandleReserve, HandleEdge
  <2>. QED
    BY <1>4, <2>1
<1>9. ASSUME NEW n \in Nodes, AcceptRoutes(n)
      PROVE  net' \subseteq net /\ replies' \subseteq replies
  BY <1>9 DEF AcceptRoutes
<1>10. CASE UNCHANGED vars
  BY <1>1, <1>2, <1>10 DEF Calls, vars
<1>11. CASE Next
  <2>. HIDE DEF CallHolds, AnswerHolds
  <2>1. ASSUME NEW q \in Reqs, NEW n \in Nodes, Call(q, n)
        PROVE  replies' = replies
    BY <2>1 DEF Call
  <2>2. (\A m \in net' : m \in net \/ CallHolds(m)') /\ (\A r \in replies' : r \in replies \/ AnswerHolds(r)')
    <3>1. CASE \E q \in Reqs : \/ DialRouteGroup(q) \/ Deadline(q) \/ MakeMapReturns(q)
                               \/ StageEnds(q) \/ DialRoutes(q) \/ PingRoute(q)
      BY <1>7, <3>1
    <3>2. CASE \E q \in Reqs : \E n \in Nodes : DialResult(q, n) \/ CallOK(q, n) \/ CallErr(q, n)
      BY <1>6, <3>2
    <3>3. CASE \E q \in Reqs : \E n \in Nodes : Call(q, n)
      BY <1>3, <2>1, <3>3
    <3>4. CASE \E m \in net : HandleReserve(m) \/ HandleIntermediary(m) \/ HandleEdge(m)
      BY <1>5, <1>8, <3>4
    <3>5. CASE \E n \in Nodes : AcceptRoutes(n)
      BY <1>9, <3>5
    <3>. QED
      BY <1>11, <3>1, <3>2, <3>3, <3>4, <3>5, Zenon DEF Next
  <2>3. (\A m \in net' : CallHolds(m)') /\ (\A r \in replies' : AnswerHolds(r)')
    BY <1>1, <1>2, <2>2
  <2>. QED
    BY <2>3 DEF Calls, CallHolds, AnswerHolds
<1>. QED
  BY <1>10, <1>11

\* A setup knows, in each stage, that the stages before it have succeeded.
LEMMA ProgressKept ==
  ASSUME IInv, [Next]_vars
  PROVE  Progress'
<1>0. Types /\ Calls /\ Progress
  BY DEF IInv
<1>. DEFINE P(q) ==
              /\ pc[q] \in {"dial", "reserve"} => Check(q, fwd[q], rev[q])
              /\ pc[q] \in After \ {"failed"} => Generated(q)
              /\ pc[q] \notin {"reserve", "broadcast", "edge"} => unsent[q] = {}
              /\ pc[q] = "reserve" => unsent[q] \subseteq DOMAIN Rec(q)
              /\ pc[q] = "edge" => unsent[q] \subseteq {Dst[q]}
              /\ pc[q] = "broadcast" /\ ~err[q] => \A n \in Nodes : n \in pending[q] \/ InstalledAt(q, n)
              /\ pc[q] \in {"edge", "done", "established"} => Installed(q)
            SameAt(q) == /\ pc'[q] = pc[q] /\ fwd'[q] = fwd[q] /\ rev'[q] = rev[q]
                         /\ unsent'[q] \subseteq unsent[q]
            Others(q) == \A p \in Reqs \ {q} : SameAt(p) /\ err'[p] = err[p] /\ pending'[p] = pending[p]
<1>1. ASSUME NEW q \in Reqs, SameAt(q),
             pc[q] = "broadcast" /\ ~err'[q] =>
               ~err[q] /\ \A n \in pending[q] : n \in pending'[q] \/ InstalledAt(q, n)
      PROVE  P(q)'
  <2>1. P(q)
    BY <1>0 DEF Progress
  <2>2. pc[q] \in After \ {"failed"} => Generated(q)
    BY <2>1
  <2>3. Generated(q) => Generated(q)' /\ (Installed(q) => Installed(q)')
                        /\ \A n \in Nodes : InstalledAt(q, n) => InstalledAt(q, n)'
    BY InstalledKept
  <2>4. Check(q, fwd'[q], rev'[q]) = Check(q, fwd[q], rev[q]) /\ DOMAIN Rec(q)' = DOMAIN Rec(q)
    BY <1>1 DEF Rec
  <2>5. pc[q] = "broadcast" /\ ~err'[q] => \A n \in Nodes : n \in pending'[q] \/ InstalledAt(q, n)'
    BY <1>1, <2>1, <2>2, <2>3 DEF After
  <2>. QED
    BY <1>1, <2>1, <2>2, <2>3, <2>4, <2>5 DEF After
<1>2. ASSUME NEW q \in Reqs, Others(q), P(q)'
      PROVE  Progress'
  <2>1. \A p \in Reqs \ {q} : P(p)'
    BY <1>1, <1>2
  <2>. HIDE DEF P
  <2>2. \A p \in Reqs : P(p)'
    BY <1>2, <2>1
  <2>. QED
    BY <2>2 DEF P, Progress
<1>3. ASSUME NEW q \in Reqs, NEW s, NEW ns, Enter(q, s, ns)
      PROVE  /\ pc'[q] = s /\ pending'[q] = ns /\ (s = "dial" => unsent'[q] = {}) /\ (s # "dial" => unsent'[q] = ns)
             /\ \A p \in Reqs \ {q} : pc'[p] = pc[p] /\ pending'[p] = pending[p] /\ unsent'[p] = unsent[p] /\ err'[p] = err[p]
  BY <1>0, <1>3 DEF Enter, Types
<1>4. ASSUME NEW q \in Reqs, Enter(q, "failed", {})
      PROVE  P(q)'
  <2>1. pc'[q] = "failed" /\ unsent'[q] = {}
    <3>1. "failed" # "dial"
      OBVIOUS
    <3>. QED
      BY <1>3, <1>4, <3>1, Zenon
  <2>. QED
    BY <2>1 DEF After
<1>5. ASSUME NEW q \in Reqs, DialRouteGroup(q)
      PROVE  Progress'
  <2>1. PICK f, r : /\ fwd' = [fwd EXCEPT ![q] = f] /\ rev' = [rev EXCEPT ![q] = r]
                    /\ IF Check(q, f, r) THEN Enter(q, "dial", Range(f) \cup Range(r)) ELSE Fail(q)
    BY <1>5 DEF DialRouteGroup
  <2>2. fwd'[q] = f /\ rev'[q] = r /\ \A p \in Reqs \ {q} : fwd'[p] = fwd[p] /\ rev'[p] = rev[p]
    BY <1>0, <2>1 DEF Types
  <2>3. Others(q)
    <3>1. PICK t, ns : Enter(q, t, ns)
      BY <2>1 DEF Fail
    <3>2. \A p \in Reqs \ {q} : pc'[p] = pc[p] /\ pending'[p] = pending[p] /\ unsent'[p] = unsent[p] /\ err'[p] = err[p]
      BY <1>3, <3>1, Zenon
    <3>. QED
      BY <2>2, <3>2
  <2>4. P(q)'
    <3>1. CASE Check(q, f, r)
      <4>1. pc'[q] = "dial" /\ unsent'[q] = {}
        BY <1>3, <2>1, <3>1
      <4>2. Check(q, fwd[q], rev[q])'
        BY <2>2, <3>1 DEF Check
      <4>. QED
        BY <4>1, <4>2 DEF After
    <3>2. CASE ~Check(q, f, r)
      BY <1>4, <2>1, <3>2 DEF Fail
    <3>. QED
      BY <3>1, <3>2
  <2>. QED
    BY <1>2, <2>3, <2>4
<1>6. ASSUME NEW q \in Reqs, MakeMapReturns(q)
      PROVE  Progress'
  <2>1. /\ Enter(q, "failed", {}) \/ Enter(q, "reserve", DOMAIN Rec(q))
        /\ UNCHANGED <<fwd, rev>> /\ pc[q] = "dial"
    BY <1>6 DEF MakeMapReturns, Fail
  <2>2. Others(q)
    BY <1>3, <2>1
  <2>3. CASE Enter(q, "reserve", DOMAIN Rec(q))
    <3>1. pc'[q] = "reserve" /\ unsent'[q] = DOMAIN Rec(q)
      <4>1. PICK ns : ns = DOMAIN Rec(q) /\ Enter(q, "reserve", ns)
        BY <2>3
      <4>2. "reserve" # "dial" /\ pc'[q] = "reserve" /\ ("reserve" # "dial" => unsent'[q] = ns)
        BY <1>3, <4>1
      <4>. QED
        BY <4>1, <4>2
    <3>2. Check(q, fwd'[q], rev'[q]) /\ DOMAIN Rec(q)' = DOMAIN Rec(q)
      BY <1>0, <2>1 DEF Progress, Rec
    <3>3. P(q)'
      BY <3>1, <3>2 DEF After
    <3>. QED
      BY <1>2, <2>2, <3>3
  <2>. QED
    BY <1>2, <1>4, <2>1, <2>2, <2>3
<1>7. ASSUME NEW q \in Reqs, StageEnds(q)
      PROVE  Progress'
  <2>1. UNCHANGED <<tbl, fwd, rev, ids>> /\ pending[q] = {} /\ P(q)
    BY <1>0, <1>7 DEF StageEnds, routerVars, Progress
  <2>2. \/ Enter(q, "failed", {})
        \/ pc[q] = "reserve" /\ CanPop(q) /\ Enter(q, "broadcast", InterNodes(q))
        \/ pc[q] = "broadcast" /\ ~err[q] /\ Enter(q, "edge", {Dst[q]})
        \/ pc[q] = "edge" /\ Enter(q, "done", {})
    BY <1>7 DEF StageEnds, Fail
  <2>3. Others(q)
    BY <1>3, <2>1, <2>2
  <2>4. CASE pc[q] = "reserve" /\ CanPop(q) /\ Enter(q, "broadcast", InterNodes(q))
    <3>1. pc'[q] = "broadcast" /\ pending'[q] = InterNodes(q)
      BY <1>3, <2>4
    <3>2. CanPop(q)' /\ \A n : InterRules(q, n)' = InterRules(q, n)
      BY <2>1, <2>4, Same
    <3>3. Check(q, fwd'[q], rev'[q])
      BY <2>1, <2>4
    <3>4. Generated(q)'
      BY <3>1, <3>2, <3>3 DEF Generated, After
    <3>5. ASSUME NEW n \in Nodes, n \notin InterNodes(q)
          PROVE  InstalledAt(q, n)'
      <4>1. InterRules(q, n)' = {}
        BY <3>2, <3>5 DEF InterNodes
      <4>. QED
        BY <4>1, Zenon DEF InstalledAt
    <3>6. P(q)'
      BY <3>1, <3>4, <3>5 DEF After
    <3>. QED
      BY <1>2, <2>3, <3>6
  <2>5. CASE pc[q] = "broadcast" /\ ~err[q] /\ Enter(q, "edge", {Dst[q]})
    <3>1. pc'[q] = "edge" /\ unsent'[q] = {Dst[q]}
      <4>1. PICK ns : ns = {Dst[q]} /\ Enter(q, "edge", ns)
        BY <2>5
      <4>2. "edge" # "dial" /\ pc'[q] = "edge" /\ ("edge" # "dial" => unsent'[q] = ns)
        BY <1>3, <4>1
      <4>. QED
        BY <4>1, <4>2
    <3>2. Generated(q) /\ Installed(q)
      BY <2>1, <2>5 DEF After, Installed
    <3>3. Generated(q)' /\ Installed(q)'
      BY <3>2, InstalledKept
    <3>4. P(q)'
      BY <3>1, <3>3 DEF After
    <3>. QED
      BY <1>2, <2>3, <3>4
  <2>6. CASE pc[q] = "edge" /\ Enter(q, "done", {})
    <3>1. pc'[q] = "done" /\ unsent'[q] = {}
      BY <1>3, <2>6
    <3>2. Generated(q) /\ Installed(q)
      BY <2>1, <2>6 DEF After
    <3>3. Generated(q)' /\ Installed(q)'
      BY <3>2, InstalledKept
    <3>4. P(q)'
      BY <3>1, <3>3 DEF After
    <3>. QED
      BY <1>2, <2>3, <3>4
  <2>. QED
    BY <1>2, <1>4, <2>2, <2>3, <2>4, <2>5, <2>6
<1>8. ASSUME NEW q \in Reqs, DialRoutes(q) \/ PingRoute(q)
      PROVE  Progress'
  <2>1. /\ pc[q] = "done" /\ pc' = [pc EXCEPT ![q] = "established"]
        /\ UNCHANGED <<fwd, rev, unsent, pending, err>>
    BY <1>8 DEF DialRoutes, PingRoute, DialReturns
  <2>2. pc'[q] = "established" /\ Others(q)
    BY <1>0, <2>1 DEF Types
  <2>3. Generated(q) /\ Installed(q) /\ unsent[q] = {}
    BY <1>0, <2>1 DEF Progress, After
  <2>4. Generated(q)' /\ Installed(q)'
    BY <2>3, InstalledKept
  <2>5. P(q)'
    BY <2>1, <2>2, <2>3, <2>4 DEF After
  <2>. QED
    BY <1>2, <2>2, <2>5
<1>9. ASSUME NEW q \in Reqs, NEW n \in Nodes, DialResult(q, n)
      PROVE  Progress'
  <2>1. pc[q] = "dial" /\ SameAt(q) /\ Others(q)
    BY <1>0, <1>9 DEF DialResult, Types
  <2>2. P(q)'
    BY <1>1, <2>1
  <2>. QED
    BY <1>2, <2>1, <2>2
<1>10. ASSUME NEW q \in Reqs, NEW n \in Nodes, Call(q, n)
       PROVE  Progress'
  <2>1. UNCHANGED <<pc, fwd, rev, pending, err>> /\ (unsent' = unsent \/ unsent' = [unsent EXCEPT ![q] = @ \ {n}])
    BY <1>10 DEF Call
  <2>2. \A p \in Reqs : SameAt(p)
    <3>1. \A p \in Reqs : unsent'[p] \subseteq unsent[p]
      BY <1>0, <2>1 DEF Types
    <3>. QED
      BY <2>1, <3>1
  <2>3. P(q)'
    BY <1>1, <2>1, <2>2
  <2>. QED
    BY <1>2, <2>1, <2>2, <2>3
<1>11. ASSUME NEW q \in Reqs, NEW n \in Nodes, CallOK(q, n)
       PROVE  Progress'
  <2>1. UNCHANGED <<pc, fwd, rev, unsent, err>> /\ pending' = [pending EXCEPT ![q] = @ \ {n}]
    BY <1>11 DEF CallOK
  <2>2. pending'[q] = pending[q] \ {n} /\ SameAt(q) /\ Others(q)
    BY <1>0, <2>1 DEF Types
  <2>3. pc[q] = "broadcast" => InstalledAt(q, n)
    <3>1. PICK r \in replies : r.q = q /\ r.from = n /\ r.stage = pc[q]
      BY <1>11 DEF CallOK
    <3>. QED
      BY <1>0, <3>1 DEF Calls
  <2>4. P(q)'
    BY <1>1, <2>1, <2>2, <2>3
  <2>. QED
    BY <1>2, <2>2, <2>4
<1>12. ASSUME NEW q \in Reqs, NEW n \in Nodes, CallErr(q, n)
       PROVE  Progress'
  <2>1. UNCHANGED <<pc, fwd, rev, unsent>> /\ err' = [err EXCEPT ![q] = TRUE] /\ pending' = [pending EXCEPT ![q] = @ \ {n}]
    BY <1>12 DEF CallErr
  <2>2. err'[q] = TRUE /\ SameAt(q) /\ Others(q)
    BY <1>0, <2>1 DEF Types
  <2>3. P(q)'
    BY <1>1, <2>2
  <2>. QED
    BY <1>2, <2>2, <2>3
<1>13. ASSUME UNCHANGED <<pc, fwd, rev, unsent, pending, err>>
       PROVE  Progress'
  <2>1. \A p \in Reqs : P(p)'
    BY <1>1, <1>13
  <2>. HIDE DEF P
  <2>. QED
    BY <2>1 DEF P, Progress
<1>. HIDE DEF P, SameAt, Others
<1>14. ASSUME NEW q \in Reqs, Deadline(q)
       PROVE  Progress'
  BY <1>13, <1>14 DEF Deadline
<1>15. ASSUME NEW m \in net, HandleReserve(m) \/ HandleIntermediary(m) \/ HandleEdge(m)
       PROVE  Progress'
  BY <1>13, <1>15 DEF HandleReserve, HandleIntermediary, HandleEdge, Answer
<1>16. ASSUME NEW n \in Nodes, AcceptRoutes(n)
       PROVE  Progress'
  BY <1>13, <1>16 DEF AcceptRoutes
<1>17. CASE UNCHANGED vars
  BY <1>13, <1>17 DEF vars
<1>18. CASE Next
  BY <1>5, <1>6, <1>7, <1>8, <1>9, <1>10, <1>11, <1>12, <1>14, <1>15, <1>16, <1>18, Zenon DEF Next
<1>. QED
  BY <1>17, <1>18

\* What is stored, waits to be accepted or is registered are rules that were
\* made, and a registered group has both of its rules in the table.
LEMMA TablesHold ==
  ASSUME IInv, [Next]_vars
  PROVE  Tables'
<1>0. Types /\ Calls /\ Progress /\ Tables /\ Types'
  BY TypesKept DEF IInv
<1>1. ASSUME NEW e, NEW n, IsEdge(e, n)
      PROVE  IsEdge(e, n)'
  <2>1. PICK q \in Reqs : /\ Generated(q) /\ Installed(q)
                          /\ \/ n = Src[q] /\ e = InitEdge(q)
                             \/ n = Dst[q] /\ e = RespEdge(q)
    BY <1>1, Zenon DEF IsEdge
  <2>2. Generated(q)' /\ Installed(q)' /\ InitEdge(q)' = InitEdge(q) /\ RespEdge(q)' = RespEdge(q)
    BY <1>0, <2>1, InstalledKept, Kept, Zenon
  <2>. QED
    BY <2>1, <2>2, Zenon DEF IsEdge
<1>2. ASSUME NEW n \in Nodes
      PROVE  \A k \in DOMAIN tbl'[n] : tbl'[n][k].key = k /\ IsRule(tbl[n][k], n)'
  <2>1. SUFFICES ASSUME NEW k \in DOMAIN tbl'[n]
                 PROVE  tbl'[n][k].key = k /\ IsRule(tbl[n][k], n)'
    OBVIOUS
  <2>2. PICK r : r = tbl'[n][k]
    OBVIOUS
  <2>3. r.key = k /\ IsRule(r, n)'
    BY <1>0, <2>2, TablesKept, Kept
  <2>. QED
    BY <2>2, <2>3, Zenon DEF IsRule
<1>3. ASSUME NEW n \in Nodes, accept'[n] = accept[n]
      PROVE  \A i \in DOMAIN accept'[n] : IsEdge(accept[n][i], n)'
  <2>1. SUFFICES ASSUME NEW i \in DOMAIN accept'[n]
                 PROVE  IsEdge(accept[n][i], n)'
    OBVIOUS
  <2>2. PICK e : e = accept'[n][i] /\ e = accept[n][i] /\ i \in DOMAIN accept[n]
    BY <1>3
  <2>3. IsEdge(e, n)'
    BY <1>0, <1>1, <2>2 DEF Tables
  <2>. QED
    BY <2>2, <2>3, Zenon DEF IsEdge
<1>4. ASSUME NEW n \in Nodes, NEW g \in groups[n]
      PROVE  IsEdge(g, n)' /\ Stored(g.fwd, n)' /\ Stored(g.rev, n)'
  BY <1>0, <1>1, TablesKept DEF Tables
<1>5. ASSUME UNCHANGED <<accept, groups>>
      PROVE  Tables'
  BY <1>2, <1>3, <1>4, <1>5 DEF Tables
<1>6. ASSUME NEW n \in Nodes, NEW e, IsEdge(e, n), Register(n, e)
      PROVE  \A a \in Nodes : \A g \in groups'[a] : IsEdge(g, a)' /\ Stored(g.fwd, a)' /\ Stored(g.rev, a)'
  <2>1. tbl' = [tbl EXCEPT ![n] = Save(@, {e.fwd, e.rev})] /\ groups' = [groups EXCEPT ![n] = @ \cup {e}]
    BY <1>6 DEF Register
  <2>2. \A r \in {e.fwd, e.rev} : IsRule(r, n)
    BY <1>0, <1>6, RulesMade
  <2>3. \A k \in DOMAIN tbl[n] : tbl[n][k].key = k /\ IsRule(tbl[n][k], n)
    BY <1>0 DEF Tables
  <2>4. \A r \in {e.fwd, e.rev} : r.key \in DOMAIN Save(tbl[n], {e.fwd, e.rev}) /\ Save(tbl[n], {e.fwd, e.rev})[r.key] = r
    <3>1. PICK rs : rs = {e.fwd, e.rev}
      OBVIOUS
    <3>2. \A r \in rs : IsRule(r, n)
      BY <2>2, <3>1
    <3>3. \A r \in rs : r.key \in DOMAIN Save(tbl[n], rs) /\ Save(tbl[n], rs)[r.key] = r
      BY <2>3, <3>2, Saved DEF IInv
    <3>. QED
      BY <3>1, <3>3
  <2>5. tbl'[n] = Save(tbl[n], {e.fwd, e.rev})
    BY <1>0, <2>1 DEF Types
  <2>6. IsEdge(e, n)' /\ Stored(e.fwd, n)' /\ Stored(e.rev, n)'
    BY <1>1, <1>6, <2>4, <2>5 DEF Stored
  <2>7. \A a \in Nodes : \A g \in groups'[a] : g \in groups[a] \/ (a = n /\ g = e)
    BY <1>0, <2>1 DEF Types
  <2>. QED
    BY <1>4, <2>6, <2>7
<1>7. ASSUME NEW q \in Reqs, DialRoutes(q) \/ PingRoute(q)
      PROVE  Tables'
  <2>1. Register(Src[q], InitEdge(q)) /\ pc[q] = "done" /\ accept' = accept
    BY <1>7, Zenon DEF DialRoutes, PingRoute, DialReturns
  <2>2. IsEdge(InitEdge(q), Src[q])
    BY <1>0, <2>1 DEF Progress, IsEdge, After
  <2>3. Src[q] \in Nodes
    BY PathsAssumption
  <2>4. PICK e : e = InitEdge(q)
    OBVIOUS
  <2>5. \A a \in Nodes : \A g \in groups'[a] : IsEdge(g, a)' /\ Stored(g.fwd, a)' /\ Stored(g.rev, a)'
    BY <1>6, <2>1, <2>2, <2>3, <2>4
  <2>. QED
    BY <1>2, <1>3, <2>1, <2>5 DEF Tables
<1>8. ASSUME NEW n \in Nodes, AcceptRoutes(n)
      PROVE  Tables'
  <2>1. Register(n, Head(accept[n])) /\ accept[n] # <<>> /\ accept' = [accept EXCEPT ![n] = Tail(@)]
    BY <1>8 DEF AcceptRoutes
  <2>2. IsSeq(accept[n])
    BY <1>0 DEF Types
  <2>3. \E j \in DOMAIN accept[n] : Head(accept[n]) = accept[n][j]
    BY <2>1, <2>2, Ends
  <2>4. PICK e : e = Head(accept[n])
    OBVIOUS
  <2>5. IsEdge(e, n)
    BY <1>0, <2>3, <2>4 DEF Tables
  <2>6. \A a \in Nodes : \A g \in groups'[a] : IsEdge(g, a)' /\ Stored(g.fwd, a)' /\ Stored(g.rev, a)'
    BY <1>6, <2>1, <2>4, <2>5
  <2>7. ASSUME NEW a \in Nodes, NEW i \in DOMAIN accept'[a]
        PROVE  IsEdge(accept[a][i], a)'
    <3>1. CASE a = n
      <4>1. accept'[a] = Tail(accept[n])
        BY <1>0, <2>1, <3>1 DEF Types
      <4>2. \E j \in DOMAIN accept[n] : Tail(accept[n])[i] = accept[n][j]
        <5>1. i \in DOMAIN Tail(accept[n])
          BY <2>7, <4>1
        <5>2. \A x \in DOMAIN Tail(accept[n]) : \E j \in DOMAIN accept[n] : Tail(accept[n])[x] = accept[n][j]
          BY <2>1, <2>2, Ends
        <5>. QED
          BY <5>1, <5>2, Zenon
      <4>3. PICK x : x = accept'[a][i]
        OBVIOUS
      <4>4. IsEdge(x, n)
        BY <1>0, <4>1, <4>2, <4>3 DEF Tables
      <4>5. IsEdge(x, a)'
        BY <1>1, <3>1, <4>4
      <4>. QED
        BY <4>3, <4>5, Zenon DEF IsEdge
    <3>2. CASE a # n
      <4>1. accept'[a] = accept[a]
        BY <1>0, <2>1, <3>2 DEF Types
      <4>. QED
        BY <1>3, <4>1
    <3>. QED
      BY <3>1, <3>2
  <2>. QED
    BY <1>2, <2>6, <2>7 DEF Tables
<1>9. ASSUME NEW m \in net, HandleEdge(m)
      PROVE  Tables'
  <2>1. accept' = [accept EXCEPT ![m.to] = Append(@, m.args)] /\ groups' = groups /\ m.stage = "edge"
    BY <1>9 DEF HandleEdge
  <2>2. m.to \in Nodes /\ IsSeq(accept[m.to])
    BY <1>0 DEF Types
  <2>3. IsEdge(m.args, m.to)
    <3>1. m.q \in Reqs /\ Generated(m.q) /\ Installed(m.q) /\ m.to = Dst[m.q] /\ m.args = RespEdge(m.q)
      BY <1>0, <2>1 DEF Calls, Types
    <3>. QED
      BY <3>1, Zenon DEF IsEdge
  <2>4. ASSUME NEW a \in Nodes, NEW i \in DOMAIN accept'[a]
        PROVE  IsEdge(accept[a][i], a)'
    <3>1. CASE a = m.to
      <4>1. accept'[a] = Append(accept[m.to], m.args)
        BY <1>0, <2>1, <2>2, <3>1 DEF Types
      <4>2. Append(accept[m.to], m.args)[i] = m.args \/ \E j \in DOMAIN accept[m.to] : Append(accept[m.to], m.args)[i] = accept[m.to][j]
        BY <2>2, <2>4, <4>1, Ends
      <4>3. PICK x : x = accept'[a][i]
        OBVIOUS
      <4>4. IsEdge(x, m.to)
        BY <1>0, <2>2, <2>3, <4>1, <4>2, <4>3 DEF Tables
      <4>5. IsEdge(x, a)'
        BY <1>1, <3>1, <4>4
      <4>. QED
        BY <4>3, <4>5, Zenon DEF IsEdge
    <3>2. CASE a # m.to
      <4>1. accept'[a] = accept[a]
        BY <1>0, <2>1, <3>2 DEF Types
      <4>. QED
        BY <1>3, <4>1
    <3>. QED
      BY <3>1, <3>2
  <2>. QED
    BY <1>2, <1>4, <2>1, <2>4 DEF Tables
<1>10. ASSUME NEW q \in Reqs, DialRouteGroup(q) \/ Deadline(q) \/ MakeMapReturns(q) \/ StageEnds(q)
       PROVE  Tables'
  BY <1>5, <1>10 DEF DialRouteGroup, Deadline, MakeMapReturns, StageEnds, routerVars
<1>11. ASSUME NEW q \in Reqs, NEW n \in Nodes, DialResult(q, n) \/ Call(q, n) \/ CallOK(q, n) \/ CallErr(q, n)
       PROVE  Tables'
  BY <1>5, <1>11 DEF DialResult, Call, CallOK, CallErr, routerVars
<1>12. ASSUME NEW m \in net, HandleReserve(m) \/ HandleIntermediary(m)
       PROVE  Tables'
  BY <1>5, <1>12 DEF HandleReserve, HandleIntermediary
<1>13. CASE UNCHANGED vars
  BY <1>5, <1>13 DEF vars
<1>14. CASE Next
  BY <1>7, <1>8, <1>9, <1>10, <1>11, <1>12, <1>14, Zenon DEF Next
<1>. QED
  BY <1>13, <1>14

-----------------------------------------------------------------------------
(* The way of a packet.                                                    *)

\* A set of numbers has a least element.
LEMMA Least ==
  ASSUME NEW T \in SUBSET Nat, T # {}
  PROVE  \E x \in T : \A y \in T : x <= y
<1>. DEFINE U == {0..x : x \in T}
<1>1. U \subseteq FiniteSubsetsOf(Nat) /\ U # {}
  <2>1. \A x \in T : 0..x \in SUBSET Nat /\ IsFiniteSet(0..x)
    BY FS_Interval
  <2>. QED
    BY <2>1 DEF FiniteSubsetsOf
<1>2. PICK u \in U : \A v \in U : <<v, u>> \notin StrictSubsetOrdering(Nat)
  <2>. HIDE DEF U
  <2>. QED
    BY <1>1, WFMin, FS_StrictSubsetOrderingWellFounded
<1>3. PICK x \in T : u = 0..x
  OBVIOUS
<1>4. ASSUME NEW y \in T, y < x
      PROVE  FALSE
  <2>1. 0..y \in U /\ 0..y \subseteq 0..x /\ 0..y # 0..x /\ 0..y \subseteq Nat /\ 0..x \subseteq Nat
    BY <1>4
  <2>2. <<0..y, 0..x>> \in StrictSubsetOrdering(Nat)
    BY <2>1 DEF StrictSubsetOrdering
  <2>. QED
    BY <1>2, <1>3, <2>1, <2>2
<1>. QED
  BY <1>3, <1>4

\* A function that starts at a visor and hops from one place to the next is
\* the walk from there.
WalksFrom(n, id, f) ==
  f = [i \in 0..MaxHops |-> IF i = 0 THEN [node |-> n, id |-> id] ELSE Hop(f[i - 1])]

LEMMA WalkIs ==
  \A n, id, v : WalksFrom(n, id, v) => Walk(n, id) = v[MaxHops]
<1>. SUFFICES ASSUME NEW n, NEW id, NEW v, WalksFrom(n, id, v)
              PROVE  Walk(n, id) = v[MaxHops]
  OBVIOUS
<1>. DEFINE Walks(f) == f = [i \in 0..MaxHops |-> IF i = 0 THEN [node |-> n, id |-> id] ELSE Hop(f[i - 1])]
<1>0. Walks(v)
  BY DEF WalksFrom
<1>1. Walk(n, id) = (CHOOSE f : Walks(f))[MaxHops]
  BY DEF Walk
<1>2. ASSUME NEW w, Walks(w)
      PROVE  w = v
  <2>. DEFINE T == {i \in 0..MaxHops : w[i] # v[i]}
  <2>1. MaxHops \in Nat
    BY PathsAssumption
  <2>2. T = {}
    <3>1. SUFFICES ASSUME T # {} PROVE FALSE
      OBVIOUS
    <3>2. T \in SUBSET Nat
      BY <2>1
    <3>3. PICK i \in T : \A j \in T : i <= j
      <4>. HIDE DEF T
      <4>. QED
        BY <3>1, <3>2, Least
    <3>4. i \in 0..MaxHops /\ w[i] # v[i]
      OBVIOUS
    <3>5. i # 0
      BY <1>0, <1>2, <3>4
    <3>6. i - 1 \in 0..MaxHops /\ i - 1 \notin T
      BY <2>1, <3>2, <3>3, <3>4, <3>5
    <3>7. w[i - 1] = v[i - 1]
      BY <3>6
    <3>8. w[i] = Hop(w[i - 1]) /\ v[i] = Hop(v[i - 1])
      BY <1>0, <1>2, <3>4, <3>5
    <3>. QED
      BY <3>4, <3>7, <3>8, Zenon
  <2>3. DOMAIN w = 0..MaxHops /\ DOMAIN v = 0..MaxHops /\ \A i \in 0..MaxHops : w[i] = v[i]
    BY <1>0, <1>2, <2>2
  <2>4. w = [i \in 0..MaxHops |-> w[i]] /\ v = [i \in 0..MaxHops |-> v[i]]
    BY <1>0, <1>2
  <2>. QED
    BY <2>3, <2>4
<1>. HIDE DEF Walks
<1>4. (CHOOSE f : Walks(f)) = v
  BY <1>0, <1>2
<1>. QED
  BY <1>1, <1>4

\* The hop over the transport of two neighbours leads to the other one.
LEMMA OtherEdge ==
  \A a, b : RemoteEdge({a, b}, a) = b
<1>. TAKE a, b
<1>1. CASE a = b
  BY <1>1 DEF RemoteEdge
<1>2. CASE a # b
  <2>1. {a, b} # {a}
    BY <1>2
  <2>2. \A m : m \in {a, b} /\ m # a <=> m = b
    BY <1>2
  <2>. QED
    BY <2>1, <2>2 DEF RemoteEdge
<1>. QED
  BY <1>1, <1>2

\* A packet that leaves the first visor of an installed route under the key of
\* the first rule goes along the path, and ends at its last visor under the key
\* of the last rule, whether or not that rule is stored yet.
LEMMA WalkAlong ==
  ASSUME IInv, NEW q \in Reqs, NEW k \in {1, 2}, Generated(q), Installed(q),
         Stored(RuleAt(q, k, 1), Path(q, k)[1])
  PROVE  Walk(Path(q, k)[1], RuleAt(q, k, 1).key)
           = [node |-> Path(q, k)[Len(Path(q, k))], id |-> RuleAt(q, k, Len(Path(q, k))).key]
<1>. DEFINE p == Path(q, k)
            L == Len(p)
            At(j) == [node |-> p[j], id |-> RuleAt(q, k, j).key]
            To(i) == IF i < L THEN i + 1 ELSE L
            v == [i \in 0..MaxHops |-> At(To(i))]
<1>0. Types /\ Reserved /\ Tables /\ MaxHops \in Nat
  BY PathsAssumption DEF IInv
<1>1. p \in Seq(Nodes) /\ L \in Nat /\ 1 < L /\ L <= MaxHops + 1
  <2>1. p \in Paths \cup {<<>>}
    BY <1>0 DEF Path, Types
  <2>2. p \in Seq(Nodes) /\ Len(p) > 1
    BY <1>0, PathTypes DEF Generated, Check, Path
  <2>3. p \in Paths
    <3>1. p # <<>>
      BY <2>2
    <3>. QED
      BY <2>1, <3>1
  <2>. HIDE DEF p
  <2>4. Len(p) <= MaxHops + 1 /\ Len(p) \in Nat
    BY <2>2, <2>3, PathsAssumption
  <2>. QED
    BY <2>2, <2>4
<1>. HIDE DEF p
<1>2. \A i \in 1..L : p[i] \in Nodes /\ IsRule(RuleAt(q, k, i), p[i])
  <2>1. \A i \in 1..L : p[i] \in Nodes
    BY <1>1
  <2>. QED
    BY <2>1, Zenon DEF IsRule, p
<1>3. ASSUME NEW j \in 1..L, j < L
      PROVE  Stored(RuleAt(q, k, j), p[j])
  <2>1. CASE j = 1
    BY <2>1 DEF p
  <2>2. CASE j # 1
    <3>1. j \in 2..Len(PopOrder(q))
      <4>1. Offset(q, k) + j \in 1..Len(PopOrder(q)) /\ Offset(q, k) \in {0, Len(fwd[q])}
        BY <1>0, Positions DEF p
      <4>2. fwd[q] \in Seq(Nodes) /\ rev[q] \in Seq(Nodes)
        BY <1>0, PathTypes
      <4>3. Len(fwd[q]) \in Nat /\ Len(PopOrder(q)) \in Nat
        BY <4>2, Concatenation, Zenon DEF PopOrder
      <4>4. PICK o, t : o = Offset(q, k) /\ t = Len(PopOrder(q))
        OBVIOUS
      <4>5. o \in Nat /\ t \in Nat /\ o + j \in 1..t
        BY <4>1, <4>3, <4>4
      <4>6. j \in 2..t
        <5>. HIDE DEF L
        <5>. QED
          BY <1>1, <2>2, <4>5
      <4>. QED
        BY <4>4, <4>6
    <3>2. Routes(q)[k].path = p
      BY DEF Routes, Path, p
    <3>3. RuleAt(q, k, j) \in InterRules(q, p[j])
      <4>1. <<k, j>> \in {1, 2} \X (2..Len(PopOrder(q)))
        BY <3>1
      <4>2. \A y \in {1, 2} \X (2..Len(PopOrder(q))) :
              y[2] < Len(Routes(q)[y[1]].path) /\ Routes(q)[y[1]].path[y[2]] = p[j] => RuleAt(q, y[1], y[2]) \in InterRules(q, p[j])
        BY Zenon DEF InterRules
      <4>3. <<k, j>>[1] = k /\ <<k, j>>[2] = j
        OBVIOUS
      <4>. QED
        BY <1>3, <3>2, <4>1, <4>2, <4>3
    <3>. QED
      BY <1>2, <3>3 DEF Installed, InstalledAt
  <2>. QED
    BY <2>1, <2>2
<1>4. ASSUME NEW j \in 1..L, j < L
      PROVE  Hop(At(j)) = At(j + 1)
  <2>. DEFINE r == RuleAt(q, k, j)
  <2>1. r.key \in DOMAIN tbl[p[j]] /\ tbl[p[j]][r.key] = r
    BY <1>3, <1>4 DEF Stored
  <2>2. j # Len(Path(q, k))
    BY <1>1, <1>4 DEF p
  <2>3. r.type # "Consume" /\ r.nextID = Popped(q, Offset(q, k) + j + 1) /\ r.nextTp = Hops(p)[j].tp
    BY <2>2, RuleFacts DEF p
  <2>4. RuleAt(q, k, j + 1).key = Popped(q, Offset(q, k) + (j + 1))
    BY RuleFacts
  <2>5. Offset(q, k) + j + 1 = Offset(q, k) + (j + 1)
    <3>1. Offset(q, k) \in Nat
      BY <1>0, PathTypes DEF Offset
    <3>. QED
      BY <1>1, <3>1
  <2>6. Hops(p)[j].tp = {p[j], p[j + 1]}
    <3>1. j \in 1..(L - 1)
      BY <1>1, <1>4
    <3>. QED
      BY <3>1 DEF Hops
  <2>7. RemoteEdge(r.nextTp, p[j]) = p[j + 1]
    <3>1. RemoteEdge({p[j], p[j + 1]}, p[j]) = p[j + 1]
      BY OtherEdge, Zenon
    <3>. QED
      BY <2>3, <2>6, <3>1, Zenon
  <2>. HIDE DEF r
  <2>8. Hop([node |-> p[j], id |-> r.key]) = [node |-> RemoteEdge(r.nextTp, p[j]), id |-> r.nextID]
    BY <2>1, <2>3 DEF Hop
  <2>. QED
    BY <2>3, <2>4, <2>5, <2>7, <2>8, Zenon DEF r
<1>5. Hop(At(L)) = At(L)
  <2>. DEFINE c == RuleAt(q, k, L)
  <2>1. c.type = "Consume" /\ IsRule(c, p[L]) /\ p[L] \in Nodes
    <3>1. L \in 1..L
      BY <1>1
    <3>. QED
      BY <1>2, <3>1, RuleFacts DEF p
  <2>2. ASSUME c.key \in DOMAIN tbl[p[L]]
        PROVE  tbl[p[L]][c.key] = c
    <3>1. tbl[p[L]][c.key].key = c.key /\ IsRule(tbl[p[L]][c.key], p[L])
      BY <1>0, <2>1, <2>2 DEF Tables
    <3>. HIDE DEF c
    <3>. QED
      BY <1>0, <2>1, <3>1, RuleOfKey
  <2>. HIDE DEF c
  <2>3. Hop([node |-> p[L], id |-> c.key]) = [node |-> p[L], id |-> c.key]
    BY <2>1, <2>2 DEF Hop
  <2>. QED
    BY <2>3, Zenon DEF c
<1>6. v = [i \in 0..MaxHops |-> IF i = 0 THEN [node |-> p[1], id |-> RuleAt(q, k, 1).key] ELSE Hop(v[i - 1])]
  <2>1. ASSUME NEW i \in 0..MaxHops, i # 0
        PROVE  v[i] = Hop(v[i - 1])
    <3>1. i - 1 \in 0..MaxHops /\ v[i] = At(To(i)) /\ v[i - 1] = At(To(i - 1))
      BY <1>0, <2>1
    <3>. HIDE DEF v, At
    <3>2. CASE i < L
      <4>1. To(i - 1) = i /\ To(i) = i + 1 /\ i \in 1..L
        BY <1>1, <2>1, <3>2
      <4>. QED
        BY <1>4, <3>1, <3>2, <4>1
    <3>3. CASE i = L
      <4>1. To(i - 1) = L /\ To(i) = L
        BY <1>1, <2>1, <3>3
      <4>. QED
        BY <1>5, <3>1, <4>1, Zenon
    <3>4. CASE i > L
      <4>1. To(i - 1) = L /\ To(i) = L
        BY <1>1, <2>1, <3>4
      <4>. QED
        BY <1>5, <3>1, <4>1, Zenon
    <3>. QED
      BY <1>1, <2>1, <3>2, <3>3, <3>4
  <2>2. 0 \in 0..MaxHops /\ v[0] = At(1)
    BY <1>0, <1>1
  <2>. HIDE DEF v
  <2>3. v = [i \in 0..MaxHops |-> v[i]]
    BY DEF v
  <2>. QED
    BY <2>1, <2>2, <2>3
<1>7. v[MaxHops] = At(L)
  <2>1. To(MaxHops) = L /\ MaxHops \in 0..MaxHops
    BY <1>0, <1>1
  <2>. HIDE DEF To, At
  <2>. QED
    BY <2>1
<1>8. Walk(p[1], RuleAt(q, k, 1).key) = v[MaxHops]
  <2>. HIDE DEF v
  <2>1. WalksFrom(p[1], RuleAt(q, k, 1).key, v)
    BY <1>6, Zenon DEF WalksFrom
  <2>. QED
    BY <2>1, WalkIs, Zenon
<1>. HIDE DEF v
<1>. QED
  BY <1>7, <1>8 DEF p

-----------------------------------------------------------------------------
(* The theorems.                                                           *)

LEMMA InitHolds == Init => IInv
<1>. SUFFICES ASSUME Init PROVE IInv
  OBVIOUS
<1>1. Types
  <2>1. <<>> \in Seq(Range(<<>>))
    OBVIOUS
  <2>. QED
    BY <2>1 DEF Init, Types, Stages, IsSeq
<1>2. \A n : \A i \in DOMAIN <<>> : FALSE
  OBVIOUS
<1>3. Reserved
  <2>1. \A q \in Reqs, n \in Nodes : ids[q][n] = <<>> /\ nextID[n] = 0
    BY DEF Init
  <2>2. <<>> \in Seq(Nat) /\ DOMAIN <<>> = {}
    OBVIOUS
  <2>3. Granted(<<>>, 0) /\ Apart(<<>>, <<>>)
    BY <2>2 DEF Granted, Apart
  <2>4. replies = {}
    BY DEF Init
  <2>. QED
    BY <2>1, <2>3, <2>4 DEF Reserved
<1>4. Calls
  BY DEF Init, Calls
<1>5. Progress
  BY DEF Init, Progress, After
<1>6. Tables
  BY DEF Init, Tables
<1>. QED
  BY <1>1, <1>3, <1>4, <1>5, <1>6 DEF IInv

\* However the setups, the late calls and the failures interleave, the
\* invariant holds.
THEOREM Invariant == Spec => []IInv
<1>1. Init => IInv
  BY InitHolds
<1>2. IInv /\ [Next]_vars => IInv'
  BY TypesKept, ReservedKept, CallsKept, ProgressKept, TablesHold DEF IInv
<1>. QED
  BY <1>1, <1>2, PTL DEF Spec

\* The state of the setup node and of the routers keeps its shape: a call is
\* outstanding only for a router that is waited for, and a rule is filed under
\* its own key, which its visor reserved (IDReserver, ReserveKeys, SaveRule).
THEOREM TypeCorrect == Spec => []TypeOK
<1>1. IInv => TypeOK
  <2>1. SUFFICES ASSUME IInv PROVE TypeOK
    OBVIOUS
  <2>2. ASSUME NEW n \in Nodes, NEW k \in DOMAIN tbl[n]
        PROVE  k \in 1..nextID[n] /\ tbl[n][k].key = k
    <3>1. tbl[n][k].key = k /\ IsRule(tbl[n][k], n)
      BY <2>1 DEF IInv, Tables
    <3>2. tbl[n][k].key \in 1..nextID[n]
      BY <2>1, <3>1, KeyGranted DEF IInv
    <3>. QED
      BY <3>1, <3>2
  <2>. QED
    BY <2>1, <2>2 DEF TypeOK, IInv, Types
<1>. QED
  BY <1>1, Invariant, PTL

\* No step replaces a rule of a routing table: the setup node uses an ID only
\* after its router has reserved it, and a repeated or late save stores the
\* rule that is there (PopID, SaveRule, IntroduceRules).
THEOREM RulesAreKept == Spec => RulesKept
<1>1. IInv /\ [Next]_vars =>
        [\A n \in Nodes : \A k \in DOMAIN tbl[n] : k \in DOMAIN tbl'[n] /\ tbl'[n][k] = tbl[n][k]]_vars
  BY TablesKept
<1>. QED
  BY <1>1, Invariant, PTL DEF Spec, RulesKept

\* Where the packets of a registered group arrive: at the visor of the other
\* edge, under the key of the consume rule of the route, which is the one that
\* the group of the other edge receives on.
LEMMA GroupWalks ==
  ASSUME IInv, NEW n \in Nodes, NEW g \in groups[n]
  PROVE  \E q \in Reqs : \E k \in {1, 2} :
           LET last == RuleAt(q, k, Len(Path(q, k)))
           IN  /\ Generated(q)
               /\ Walk(n, g.fwd.key) = [node |-> g.desc.src, id |-> last.key]
               /\ IsRule(last, g.desc.src) /\ last.type = "Consume" /\ last.desc = Invert(g.desc)
               /\ g = (IF k = 1 THEN InitEdge(q) ELSE RespEdge(q))
               /\ last = (IF k = 1 THEN RespEdge(q).rev ELSE InitEdge(q).rev)
<1>0. Types /\ Tables
  BY DEF IInv
<1>1. IsEdge(g, n) /\ Stored(g.fwd, n)
  BY <1>0 DEF Tables
<1>2. PICK q \in Reqs : /\ Generated(q) /\ Installed(q)
                        /\ \/ n = Src[q] /\ g = InitEdge(q)
                           \/ n = Dst[q] /\ g = RespEdge(q)
  BY <1>1, Zenon DEF IsEdge
<1>3. /\ fwd[q] \in Seq(Nodes) /\ rev[q] \in Seq(Nodes) /\ Len(fwd[q]) > 1 /\ Len(rev[q]) > 1
      /\ fwd[q][1] = Src[q] /\ rev[q][Len(rev[q])] = Src[q]
      /\ rev[q][1] = Dst[q] /\ fwd[q][Len(fwd[q])] = Dst[q]
  BY <1>0, <1>2, PathTypes DEF Generated, Check
<1>4. ASSUME NEW k \in {1, 2}, n = Path(q, k)[1],
             g = (IF k = 1 THEN InitEdge(q) ELSE RespEdge(q))
      PROVE  LET last == RuleAt(q, k, Len(Path(q, k)))
             IN  /\ Walk(n, g.fwd.key) = [node |-> g.desc.src, id |-> last.key]
                 /\ IsRule(last, g.desc.src) /\ last.type = "Consume" /\ last.desc = Invert(g.desc)
                 /\ last = (IF k = 1 THEN RespEdge(q).rev ELSE InitEdge(q).rev)
  <2>. DEFINE last == RuleAt(q, k, Len(Path(q, k)))
  <2>1. g.fwd = RuleAt(q, k, 1)
    BY <1>4 DEF InitEdge, RespEdge
  <2>2. Path(q, k)[Len(Path(q, k))] = g.desc.src
    BY <1>3, <1>4 DEF Path, InitEdge, RespEdge, Invert, Desc
  <2>3. Walk(Path(q, k)[1], RuleAt(q, k, 1).key) = [node |-> Path(q, k)[Len(Path(q, k))], id |-> last.key]
    <3>1. Stored(RuleAt(q, k, 1), Path(q, k)[1])
      BY <1>1, <1>4, <2>1
    <3>. QED
      BY <1>2, <3>1, WalkAlong
  <2>4. IsRule(last, g.desc.src)
    <3>1. Len(Path(q, k)) \in 1..Len(Path(q, k))
      BY <1>3 DEF Path
    <3>. QED
      BY <1>2, <2>2, <3>1, Zenon DEF IsRule
  <2>5. last.type = "Consume" /\ last.desc = IF k = 1 THEN Desc(q) ELSE Invert(Desc(q))
    BY RuleFacts
  <2>6. last.desc = Invert(g.desc)
    BY <1>4, <2>5 DEF InitEdge, RespEdge, Invert, Desc
  <2>7. last = (IF k = 1 THEN RespEdge(q).rev ELSE InitEdge(q).rev)
    BY DEF InitEdge, RespEdge, Path
  <2>. HIDE DEF last
  <2>. QED
    BY <1>4, <2>1, <2>2, <2>3, <2>4, <2>5, <2>6, <2>7, Zenon DEF last
<1>5. CASE n = Src[q] /\ g = InitEdge(q)
  <2>1. n = Path(q, 1)[1]
    BY <1>3, <1>5 DEF Path
  <2>. QED
    BY <1>2, <1>4, <1>5, <2>1
<1>6. CASE n = Dst[q] /\ g = RespEdge(q)
  <2>1. n = Path(q, 2)[1]
    BY <1>3, <1>6 DEF Path
  <2>. QED
    BY <1>2, <1>4, <1>6, <2>1
<1>. QED
  BY <1>2, <1>5, <1>6

\* A packet of a registered group is never stranded at an intermediary, never
\* consumed by another setup's rule, and meets the group of the other end when
\* that is registered: for all visors, paths, overlapping setups, failures and
\* late calls (CreateRouteGroup, GenerateRules, forwardPacket).
THEOREM RoutesSound == Spec => []RoutesAreSound
<1>1. IInv => RoutesAreSound
  <2>. SUFFICES ASSUME IInv PROVE RoutesAreSound
    OBVIOUS
  <2>1. RouteIsComplete
    <3>1. ASSUME NEW n \in Nodes, NEW g \in groups[n]
          PROVE  Walk(n, g.fwd.key).node = g.desc.src
      <4>1. \E id : Walk(n, g.fwd.key) = [node |-> g.desc.src, id |-> id]
        BY GroupWalks
      <4>. QED
        BY <4>1
    <3>. QED
      BY <3>1 DEF RouteIsComplete
  <2>2. NoCrossWiring
    <3>1. SUFFICES ASSUME NEW n \in Nodes, NEW g \in groups[n], Walk(n, g.fwd.key).id \in DOMAIN tbl[Walk(n, g.fwd.key).node]
                   PROVE  /\ tbl[Walk(n, g.fwd.key).node][Walk(n, g.fwd.key).id].type = "Consume"
                          /\ tbl[Walk(n, g.fwd.key).node][Walk(n, g.fwd.key).id].desc = Invert(g.desc)
      BY DEF NoCrossWiring
    <3>2. PICK c : /\ Walk(n, g.fwd.key) = [node |-> g.desc.src, id |-> c.key]
                   /\ IsRule(c, g.desc.src) /\ c.type = "Consume" /\ c.desc = Invert(g.desc)
      BY GroupWalks
    <3>3. c.key \in DOMAIN tbl[g.desc.src]
      BY <3>1, <3>2
    <3>4. tbl[g.desc.src][c.key] = c
      <4>1. g.desc.src \in Nodes
        BY <3>2, KeyGranted DEF IInv
      <4>2. tbl[g.desc.src][c.key].key = c.key /\ IsRule(tbl[g.desc.src][c.key], g.desc.src)
        BY <3>3, <4>1 DEF IInv, Tables
      <4>. QED
        BY <3>2, <4>2, RuleOfKey DEF IInv
    <3>. QED
      BY <3>2, <3>4
  <2>3. EndsMeet
    <3>1. SUFFICES ASSUME NEW n \in Nodes, NEW g \in groups[n], NEW h \in groups[g.desc.src], h.desc = Invert(g.desc)
                   PROVE  /\ Walk(n, g.fwd.key) = [node |-> g.desc.src, id |-> h.rev.key]
                          /\ Stored(h.rev, g.desc.src)
      BY Zenon DEF EndsMeet, Stored
    <3>2. PICK q \in Reqs, k \in {1, 2} :
             /\ Walk(n, g.fwd.key) = [node |-> g.desc.src, id |-> RuleAt(q, k, Len(Path(q, k))).key]
             /\ g = (IF k = 1 THEN InitEdge(q) ELSE RespEdge(q))
             /\ RuleAt(q, k, Len(Path(q, k))) = (IF k = 1 THEN RespEdge(q).rev ELSE InitEdge(q).rev)
      BY GroupWalks
    <3>3. g.desc.src \in Nodes
      BY <3>2, PathsAssumption DEF InitEdge, RespEdge, Desc, Invert
    <3>4. IsEdge(h, g.desc.src) /\ Stored(h.rev, g.desc.src)
      BY <3>3 DEF IInv, Tables
    <3>5. PICK p \in Reqs : h = InitEdge(p) \/ h = RespEdge(p)
      BY <3>4 DEF IsEdge
    <3>6. h = (IF k = 1 THEN RespEdge(q) ELSE InitEdge(q))
      <4>1. CASE k = 1
        <5>1. h.desc = Desc(q)
          BY <3>1, <3>2, <4>1 DEF InitEdge, Invert, Desc
        <5>2. h # InitEdge(p)
          BY <5>1, PathsAssumption DEF InitEdge, Invert, Desc
        <5>3. p = q
          BY <3>5, <5>1, <5>2 DEF RespEdge, Desc
        <5>. QED
          BY <3>5, <4>1, <5>2, <5>3
      <4>2. CASE k = 2
        <5>1. h.desc = Invert(Desc(q))
          BY <3>1, <3>2, <4>2 DEF RespEdge, Invert, Desc
        <5>2. h # RespEdge(p)
          BY <5>1, PathsAssumption DEF RespEdge, Invert, Desc
        <5>3. p = q
          BY <3>5, <5>1, <5>2 DEF InitEdge, Invert, Desc
        <5>. QED
          BY <3>5, <4>2, <5>2, <5>3
      <4>. QED
        BY <4>1, <4>2
    <3>7. h.rev = RuleAt(q, k, Len(Path(q, k)))
      BY <3>2, <3>6
    <3>. QED
      BY <3>2, <3>4, <3>7
  <2>. QED
    BY <2>1, <2>2, <2>3 DEF RoutesAreSound
<1>. QED
  BY <1>1, Invariant, PTL
=============================================================================
