-------------------------- MODULE NodeDialogsProofs --------------------------
(***************************************************************************)
(* Proofs about the lists and the windows of a visor, for any visors,      *)
(* elements, requests and bounds: nothing is done that the user did not    *)
(* accept, the lists show and select the right elements, and what the      *)
(* windows say is true.  Each section is about one module.                 *)
(***************************************************************************)
EXTENDS NodeDialogs, Subsequences, SequenceTheorems, FiniteSetTheorems, TLAPS

-----------------------------------------------------------------------------
(* The windows with a form *)

Requests == [step : {"save", "get", "put", "post"}, value : FormWindow!Values \cup {"exposed"},
             list : SUBSET (Others \cup FormWindow!Complete), state : {"sent", "executed", "over"}]
Forms == [kind : Kinds, value : FormWindow!Values, persistent : BOOLEAN, open : BOOLEAN,
          button : {"Normal", "Loading", "Error"}, disabled : BOOLEAN, subscribed : BOOLEAN,
          types : BOOLEAN, confirming : {"no", "save", "expose"}, requests : Seq(Requests),
          localhostOnly : BOOLEAN, accepted : BOOLEAN, typed : 0..MaxTyped,
          told : {"none", "error", "done", "only persistent"}, about : FormWindow!Values \cup {"exposed"}]
Saves == [saved : SUBSET (FormWindow!Values \cup {"exposed"}),
          persistent : SUBSET (Others \cup FormWindow!Complete), dropped : SUBSET FormWindow!Complete]

\* What the list of persistent transports had at some time.
Had(v) == v.persistent \cup v.dropped

\* What a request brings about, and what it was made from: the list that was
\* read, and the transport that is added to it.
Honest(f, v, r) ==
    /\ r.value = "exposed" => f.accepted
    /\ r.step \in {"get", "put", "post"} <=> f.kind = "transport"
    /\ f.kind = "transport" => r.value \in FormWindow!Complete
    /\ r.step = "get" /\ r.state = "executed" => Others \subseteq r.list /\ r.list \subseteq Had(v)
    /\ r.step = "put" => Others \subseteq r.list /\ r.value \in r.list
    /\ r.step = "put" /\ r.state = "executed" => r.value \in Had(v)
    /\ r.step \in {"save", "post"} /\ r.state = "executed" => r.value \in v.saved
    /\ r.step = "post" /\ f.persistent => r.value \in Had(v)

AllHonest(f, v) ==
    /\ \A i \in DOMAIN f.requests : Honest(f, v, f.requests[i])
    /\ f.confirming = "save" => f.kind # "transport"
    /\ ~f.localhostOnly => f.accepted
    /\ "exposed" \in v.saved => f.accepted
    /\ Others \subseteq v.persistent
    /\ f.told = "done" => f.about \in v.saved
    /\ f.told = "only persistent" \/ (f.told = "done" /\ f.kind = "transport" /\ f.persistent) => f.about \in Had(v)

\* A list that is read or written has nothing but the transports of the
\* beginning and those that some creation put; what is gone was left out by
\* another put.
Puts(q, t) == \E i \in DOMAIN q : q[i].step = "put" /\ q[i].value = t
FromPuts(q, S) == \A t \in S : t \in Others \/ Puts(q, t)
LeftOut(q, t) == \E i, j \in DOMAIN q :
    q[i].step = "put" /\ q[j].step = "put" /\ q[i].value = t /\ t \notin q[j].list

Lossless(q, v) ==
    /\ \A i \in DOMAIN q : FromPuts(q, q[i].list)
    /\ FromPuts(q, v.persistent)
    /\ \A t \in v.dropped : LeftOut(q, t)

\* The windows that look at operationSubscription.
Quiet(f) == \A i \in DOMAIN f.requests : f.requests[i].state = "over"
Single(f) ==
    f.kind \in FormWindow!BySubscription =>
        /\ \A i, j \in DOMAIN f.requests :
              f.requests[i].state # "over" /\ f.requests[j].state # "over" => i = j
        /\ ~f.subscribed \/ f.confirming = "save" => Quiet(f)

FormInv(f, v) ==
    /\ f \in Forms /\ v \in Saves /\ f.value \in FormWindow!Fields(f.kind)
    /\ AllHonest(f, v) /\ Single(f) /\ Lossless(f.requests, v)

\* A change of what the invariant does not speak of.
LEMMA FormKept ==
    ASSUME NEW f, NEW v, FormInv(f, v), NEW g \in Forms,
           g.requests = f.requests, g.kind = f.kind, g.persistent = f.persistent,
           g.localhostOnly = f.localhostOnly, g.accepted = f.accepted,
           g.subscribed = f.subscribed, g.told = f.told, g.about = f.about,
           g.value = f.value \/ g.value \in FormWindow!Fields(f.kind),
           g.confirming = "save" =>
               \/ f.confirming = "save"
               \/ g.kind # "transport" /\ (g.kind \notin FormWindow!BySubscription \/ Quiet(g))
    PROVE  FormInv(g, v)
<1>1. \A i \in DOMAIN g.requests : Honest(g, v, g.requests[i])
  <2>1. \A i \in DOMAIN f.requests : Honest(f, v, f.requests[i])
    BY DEF FormInv, AllHonest
  <2>. QED
    BY <2>1 DEF Honest
<1>2. AllHonest(g, v)
  BY <1>1 DEF FormInv, AllHonest
<1>3. Single(g)
  BY DEF FormInv, Single, Quiet
<1>. QED
  BY <1>2, <1>3 DEF FormInv

\* What was put stays put.
LEMMA PutsKept ==
    ASSUME NEW q, NEW p, DOMAIN q \subseteq DOMAIN p,
           \A i \in DOMAIN q : p[i].step = q[i].step /\ p[i].value = q[i].value
                                /\ (q[i].step = "put" => p[i].list = q[i].list)
    PROVE  /\ \A t : Puts(q, t) => Puts(p, t)
           /\ \A t : LeftOut(q, t) => LeftOut(p, t)
           /\ \A S : FromPuts(q, S) => FromPuts(p, S)
<1>1. \A t : Puts(q, t) => Puts(p, t)
  BY DEF Puts
<1>2. \A t : LeftOut(q, t) => LeftOut(p, t)
  BY DEF LeftOut
<1>3. \A S : FromPuts(q, S) => FromPuts(p, S)
  BY <1>1 DEF FromPuts
<1>. QED
  BY <1>1, <1>2, <1>3

\* Lists and puts are all that matters to what is lost.
LEMMA SameLossless ==
    ASSUME NEW q, NEW p, NEW v, Lossless(q, v), DOMAIN q = DOMAIN p,
           \A i \in DOMAIN q : p[i].step = q[i].step /\ p[i].value = q[i].value /\ p[i].list = q[i].list
    PROVE  Lossless(p, v)
<1>1. /\ \A t : LeftOut(q, t) => LeftOut(p, t)
      /\ \A S : FromPuts(q, S) => FromPuts(p, S)
  BY PutsKept
<1>. QED
  BY <1>1 DEF Lossless

\* Request: its subscription is the last one.
LEMMA RequestFacts ==
    ASSUME NEW f, NEW v, FormInv(f, v),
           NEW step \in {"save", "get", "put", "post"}, NEW val \in FormWindow!Values \cup {"exposed"},
           NEW l \in SUBSET (Others \cup FormWindow!Complete),
           \A t \in l : t \in Others \/ Puts(f.requests, t) \/ (step = "put" /\ t = val),
           Honest(f, v, [step |-> step, value |-> val, list |-> l, state |-> "sent"]),
           f.kind \in FormWindow!BySubscription => f.confirming # "save" /\ Quiet(f)
    PROVE  FormInv(FormWindow!Request(f, step, val, l), v)
<1>. DEFINE r == [step |-> step, value |-> val, list |-> l, state |-> "sent"]
            q == Append(f.requests, r)
            g == [f EXCEPT !.subscribed = TRUE, !.requests = q]
<1>1. FormWindow!Request(f, step, val, l) = g
  BY DEF FormWindow!Request, FormInv, Forms
<1>2. r \in Requests /\ Honest(f, v, r) /\ r.state = "sent" /\ r.step = step /\ r.value = val /\ r.list = l
  BY DEF Requests
<1>. HIDE DEF r
<1>3. f \in Forms /\ f.requests \in Seq(Requests)
  BY DEF FormInv, Forms
<1>4. /\ q \in Seq(Requests) /\ DOMAIN q = 1..(Len(f.requests) + 1) /\ Len(f.requests) \in Nat
      /\ DOMAIN f.requests = 1..Len(f.requests)
      /\ \A i \in DOMAIN q : q[i] = IF i \in DOMAIN f.requests THEN f.requests[i] ELSE r
      /\ \A i \in DOMAIN q : i \notin DOMAIN f.requests => i = Len(f.requests) + 1
  BY <1>2, <1>3
<1>. HIDE DEF q
<1>5. /\ g \in Forms /\ g.requests = q /\ g.kind = f.kind /\ g.persistent = f.persistent
      /\ g.localhostOnly = f.localhostOnly /\ g.accepted = f.accepted /\ g.subscribed = TRUE
      /\ g.told = f.told /\ g.about = f.about /\ g.confirming = f.confirming /\ g.value = f.value
  BY <1>3, <1>4 DEF Forms
<1>. HIDE DEF g
<1>6. \A i \in DOMAIN q : Honest(g, v, q[i])
  <2>1. \A i \in DOMAIN q : Honest(f, v, q[i])
    BY <1>2, <1>4 DEF FormInv, AllHonest
  <2>. QED
    BY <1>5, <2>1 DEF Honest
<1>7. AllHonest(g, v)
  BY <1>5, <1>6 DEF FormInv, AllHonest
<1>8. Single(g)
  BY <1>4, <1>5 DEF Single, Quiet
<1>9. Lossless(q, v)
  <2>1. /\ \A t : Puts(f.requests, t) => Puts(q, t)
        /\ \A t : LeftOut(f.requests, t) => LeftOut(q, t)
        /\ \A S : FromPuts(f.requests, S) => FromPuts(q, S)
    <3>1. DOMAIN f.requests \subseteq DOMAIN q
      BY <1>4
    <3>2. \A i \in DOMAIN f.requests : q[i] = f.requests[i]
      BY <1>4, <3>1
    <3>. QED
      BY <3>1, <3>2, PutsKept
  <2>2. Len(f.requests) + 1 \in DOMAIN q /\ q[Len(f.requests) + 1] = r
    BY <1>4
  <2>3. step = "put" => Puts(q, val)
    BY <1>2, <2>2 DEF Puts
  <2>4. FromPuts(q, l)
    BY <2>1, <2>3 DEF FromPuts
  <2>5. \A i \in DOMAIN q : FromPuts(q, q[i].list)
    BY <1>2, <1>4, <2>1, <2>4 DEF FormInv, Lossless
  <2>6. FromPuts(q, v.persistent) /\ \A t \in v.dropped : LeftOut(q, t)
    BY <2>1 DEF FormInv, Lossless
  <2>. QED
    BY <2>5, <2>6 DEF Lossless
<1>. QED
  BY <1>1, <1>5, <1>7, <1>8, <1>9 DEF FormInv

\* The requests that save a value.
LEMMA SaveFacts ==
    ASSUME NEW f, NEW v, FormInv(f, v), NEW val \in FormWindow!Values \cup {"exposed"},
           val = "exposed" => f.accepted, f.kind # "transport", f.kind \in FormWindow!BySubscription => Quiet(f)
    PROVE  FormInv(FormWindow!Save(f, val), v)
<1>. DEFINE g == FormWindow!ShowLoading(f)
<1>1. /\ g \in Forms /\ g.requests = f.requests /\ g.kind = f.kind /\ g.persistent = f.persistent
      /\ g.localhostOnly = f.localhostOnly /\ g.accepted = f.accepted /\ g.subscribed = f.subscribed
      /\ g.value = f.value /\ g.told = f.told /\ g.about = f.about /\ g.confirming = "no"
  BY DEF FormInv, Forms, FormWindow!ShowLoading
<1>. HIDE DEF g
<1>2. FormInv(g, v)
  BY <1>1, FormKept
<1>3. Honest(g, v, [step |-> "save", value |-> val, list |-> {}, state |-> "sent"])
  BY <1>1 DEF Honest
<1>4. g.kind \in FormWindow!BySubscription => Quiet(g)
  BY <1>1 DEF Quiet
<1>5. FormInv(FormWindow!Request(g, "save", val, {}), v)
  BY <1>1, <1>2, <1>3, <1>4, RequestFacts
<1>. QED
  BY <1>5 DEF FormWindow!Save, g

\* A window that asks before it saves.
LEMMA AskingFacts ==
    ASSUME NEW f, NEW v, FormInv(f, v), f.kind # "transport",
           f.kind \in FormWindow!BySubscription => Quiet(f)
    PROVE  FormInv(FormWindow!Asking(f), v)
<1>. DEFINE g == FormWindow!Asking(f)
<1>1. /\ g \in Forms /\ g.requests = f.requests /\ g.kind = f.kind /\ g.persistent = f.persistent
      /\ g.localhostOnly = f.localhostOnly /\ g.accepted = f.accepted /\ g.subscribed = f.subscribed
      /\ g.value = f.value /\ g.told = f.told /\ g.about = f.about
  BY DEF FormInv, Forms, FormWindow!Asking
<1>. HIDE DEF g
<1>2. g.kind \in FormWindow!BySubscription => Quiet(g)
  BY <1>1 DEF Quiet
<1>3. FormInv(g, v)
  BY <1>1, <1>2, FormKept
<1>. QED
  BY <1>3 DEF g

\* One of the requests changes.
LEMMA RequestChanged ==
    ASSUME NEW f \in Forms, NEW i \in DOMAIN f.requests, NEW r \in Requests
    PROVE  LET g == [f EXCEPT !.requests = [f.requests EXCEPT ![i] = r]]
           IN  /\ g \in Forms /\ g.kind = f.kind /\ g.persistent = f.persistent
               /\ g.localhostOnly = f.localhostOnly /\ g.accepted = f.accepted
               /\ g.subscribed = f.subscribed /\ g.told = f.told /\ g.confirming = f.confirming
               /\ g.about = f.about /\ g.value = f.value
               /\ DOMAIN g.requests = DOMAIN f.requests /\ g.requests[i] = r
               /\ \A j \in DOMAIN f.requests : j # i => g.requests[j] = f.requests[j]
<1>. DEFINE q == [f.requests EXCEPT ![i] = r]
            g == [f EXCEPT !.requests = q]
<1>1. f.requests \in Seq(Requests)
  BY DEF Forms
<1>2. q \in Seq(Requests) /\ DOMAIN q = DOMAIN f.requests /\ q[i] = r
      /\ \A j \in DOMAIN f.requests : j # i => q[j] = f.requests[j]
  BY <1>1, ExceptSeq
<1>. HIDE DEF q
<1>3. /\ g \in Forms /\ g.kind = f.kind /\ g.persistent = f.persistent
      /\ g.localhostOnly = f.localhostOnly /\ g.accepted = f.accepted
      /\ g.subscribed = f.subscribed /\ g.told = f.told /\ g.confirming = f.confirming
      /\ g.about = f.about /\ g.value = f.value
      /\ g.requests = q
  BY <1>2 DEF Forms
<1>. HIDE DEF g
<1>4. /\ g \in Forms /\ g.kind = f.kind /\ g.persistent = f.persistent
      /\ g.localhostOnly = f.localhostOnly /\ g.accepted = f.accepted
      /\ g.subscribed = f.subscribed /\ g.told = f.told /\ g.confirming = f.confirming
      /\ g.about = f.about /\ g.value = f.value
      /\ DOMAIN g.requests = DOMAIN f.requests /\ g.requests[i] = r
      /\ \A j \in DOMAIN f.requests : j # i => g.requests[j] = f.requests[j]
  BY <1>2, <1>3
<1>. QED
  BY <1>4 DEF g, q

\* Over: nothing is expected of the request any more.
LEMMA OverFacts ==
    ASSUME NEW f, NEW v, FormInv(f, v), NEW i \in DOMAIN f.requests
    PROVE  LET g == FormWindow!Over(f, i)
           IN  /\ FormInv(g, v) /\ DOMAIN g.requests = DOMAIN f.requests
               /\ g.requests[i].state = "over" /\ g.confirming = f.confirming /\ g.kind = f.kind
               /\ g.persistent = f.persistent /\ g.requests[i].list = f.requests[i].list
               /\ f.kind \in FormWindow!BySubscription /\ f.requests[i].state # "over" => Quiet(g)
<1>. DEFINE r == [f.requests[i] EXCEPT !.state = "over"]
            g == [f EXCEPT !.requests = [f.requests EXCEPT ![i] = r]]
<1>1. f \in Forms /\ f.requests \in Seq(Requests)
  BY DEF FormInv, Forms
<1>2. f.requests[i] \in Requests
  BY <1>1
<1>3. /\ r \in Requests /\ r.state = "over" /\ r.step = f.requests[i].step
      /\ r.value = f.requests[i].value /\ r.list = f.requests[i].list
  BY <1>2 DEF Requests
<1>4. FormWindow!Over(f, i) = g
  BY <1>1 DEF FormWindow!Over, Forms
<1>5. Honest(f, v, r)
  BY <1>3 DEF FormInv, AllHonest, Honest
<1>. HIDE DEF r
<1>6. /\ g \in Forms /\ g.kind = f.kind /\ g.persistent = f.persistent
      /\ g.localhostOnly = f.localhostOnly /\ g.accepted = f.accepted
      /\ g.subscribed = f.subscribed /\ g.told = f.told /\ g.confirming = f.confirming
      /\ g.about = f.about /\ g.value = f.value
      /\ DOMAIN g.requests = DOMAIN f.requests /\ g.requests[i] = r
      /\ \A j \in DOMAIN f.requests : j # i => g.requests[j] = f.requests[j]
  BY <1>1, <1>3, RequestChanged
<1>. HIDE DEF g
<1>7. \A j \in DOMAIN g.requests : Honest(g, v, g.requests[j])
  <2>1. \A j \in DOMAIN g.requests : Honest(f, v, g.requests[j])
    BY <1>5, <1>6 DEF FormInv, AllHonest
  <2>. QED
    BY <1>6, <2>1 DEF Honest
<1>8. AllHonest(g, v)
  BY <1>6, <1>7 DEF FormInv, AllHonest
<1>9. Single(g)
  BY <1>3, <1>6 DEF FormInv, Single, Quiet
<1>10. f.kind \in FormWindow!BySubscription /\ f.requests[i].state # "over" => Quiet(g)
  BY <1>3, <1>6 DEF FormInv, Single, Quiet
<1>11. Lossless(g.requests, v)
  <2>1. \A j \in DOMAIN f.requests : /\ g.requests[j].step = f.requests[j].step
                                     /\ g.requests[j].value = f.requests[j].value
                                     /\ g.requests[j].list = f.requests[j].list
    BY <1>3, <1>6
  <2>. QED
    BY <1>6, <2>1, SameLossless DEF FormInv
<1>. QED
  BY <1>3, <1>4, <1>6, <1>8, <1>9, <1>10, <1>11 DEF FormInv

\* ngOnDestroy
LEMMA DestroyedFacts ==
    ASSUME NEW f, NEW v, FormInv(f, v)
    PROVE  FormInv(FormWindow!Destroyed(f), v)
<1>. DEFINE n == Len(f.requests)
            q == [i \in DOMAIN f.requests |->
                     IF i = n THEN [f.requests[i] EXCEPT !.state = "over"] ELSE f.requests[i]]
            g == [f EXCEPT !.open = FALSE, !.confirming = "no", !.requests = q]
<1>1. f \in Forms /\ f.requests \in Seq(Requests)
  BY DEF FormInv, Forms
<1>2. FormWindow!Destroyed(f) = g
  BY <1>1 DEF FormWindow!Destroyed, Forms
<1>3. n \in Nat /\ DOMAIN f.requests = 1..n /\ \A i \in 1..n : f.requests[i] \in Requests
  BY <1>1
<1>. HIDE DEF n
<1>4. DOMAIN q = DOMAIN f.requests
      /\ \A i \in DOMAIN f.requests : /\ q[i] \in Requests /\ (Honest(f, v, f.requests[i]) => Honest(f, v, q[i]))
                                      /\ q[i].state = "over" \/ q[i] = f.requests[i]
                                      /\ q[i].step = f.requests[i].step /\ q[i].value = f.requests[i].value
                                      /\ q[i].list = f.requests[i].list
  BY <1>3 DEF Requests, Honest
<1>5. q \in Seq(Requests)
  <2>. HIDE DEF q
  <2>1. q = [i \in 1..n |-> q[i]] /\ \A i \in 1..n : q[i] \in Requests
    <3>1. q = [i \in DOMAIN q |-> q[i]]
      BY DEF q
    <3>. QED
      BY <1>3, <1>4, <3>1
  <2>2. q \in [1..n -> Requests]
    BY <2>1
  <2>. QED
    BY <1>3, <2>2, SeqDef
<1>. HIDE DEF q
<1>6. /\ g \in Forms /\ g.kind = f.kind /\ g.persistent = f.persistent
      /\ g.localhostOnly = f.localhostOnly /\ g.accepted = f.accepted
      /\ g.subscribed = f.subscribed /\ g.told = f.told /\ g.confirming = "no" /\ g.requests = q
      /\ g.about = f.about /\ g.value = f.value
  BY <1>1, <1>5 DEF Forms
<1>. HIDE DEF g
<1>7. \A j \in DOMAIN g.requests : Honest(g, v, g.requests[j])
  <2>1. \A j \in DOMAIN g.requests : Honest(f, v, g.requests[j])
    BY <1>4, <1>6 DEF FormInv, AllHonest
  <2>. QED
    BY <1>6, <2>1 DEF Honest
<1>8. AllHonest(g, v)
  BY <1>6, <1>7 DEF FormInv, AllHonest
<1>9. Single(g)
  BY <1>4, <1>6 DEF FormInv, Single, Quiet
<1>10. Lossless(q, v)
  BY <1>4, SameLossless DEF FormInv
<1>. QED
  BY <1>2, <1>6, <1>8, <1>9, <1>10 DEF FormInv

\* Nothing is typed and no request is sent at first.
LEMMA FormBounds == MaxTyped \in Nat /\ 0 \in 0..MaxTyped /\ <<>> \in Seq(Requests) /\ DOMAIN <<>> = {}
<1>1. MaxTyped \in Nat
  BY DialogsAssumption DEF DialogsAssumption
<1>2. 0 \in 0..MaxTyped
  BY <1>1
<1>3. <<>> \in Seq(Requests) /\ DOMAIN <<>> = {}
  BY EmptySeq
<1>. QED
  BY <1>1, <1>2, <1>3

\* The first state of the window.
LEMMA InitForm == FormWindow!Init => FormInv(form, visor)
<1>. SUFFICES ASSUME FormWindow!Init
              PROVE  FormInv(form, visor)
  OBVIOUS
<1>1. PICK k \in Kinds, v \in {"a", ""}, p \in BOOLEAN, exposed \in BOOLEAN :
          form = IF exposed THEN FormWindow!Unmark(FormWindow!NewForm(k, v, p)) ELSE FormWindow!NewForm(k, v, p)
  BY DEF FormWindow!Init
<1>2. visor \in Saves /\ visor.saved = {} /\ visor.persistent = Others /\ visor.dropped = {}
  BY DEF FormWindow!Init, Saves
<1>. DEFINE f == [kind |-> k, value |-> v, persistent |-> p, open |-> TRUE, button |-> "Normal", disabled |-> FALSE,
                  subscribed |-> FALSE, types |-> FALSE, confirming |-> "no", requests |-> <<>>,
                  localhostOnly |-> TRUE, accepted |-> FALSE, typed |-> 0, told |-> "none", about |-> ""]
            g == [f EXCEPT !.disabled = ~FormWindow!Valid(f)]
<1>3. FormWindow!NewForm(k, v, p) = g
  BY DEF FormWindow!NewForm
<1>4. f \in Forms
  BY FormBounds DEF Forms, FormWindow!Values, FormWindow!Complete
<1>5. (~FormWindow!Valid(f)) \in BOOLEAN
  BY DEF FormWindow!Valid, FormWindow!AddressValid, FormWindow!IpValid, FormWindow!PasswordsMatch,
     FormWindow!HopsValid, FormWindow!PortValid, FormWindow!TransportValid, FormWindow!NewPasswordValid
<1>6. /\ f.requests = <<>> /\ f.localhostOnly = TRUE /\ f.told = "none" /\ f.confirming = "no"
      /\ f.value = v /\ f.kind = k
  OBVIOUS
<1>. HIDE DEF f
<1>7. /\ g \in Forms /\ g.requests = <<>> /\ g.localhostOnly = TRUE /\ g.told = "none" /\ g.confirming = "no"
      /\ g.value = v /\ g.kind = k
  BY <1>4, <1>5, <1>6 DEF Forms
<1>. HIDE DEF g
<1>. DEFINE h == [g EXCEPT !.confirming = "expose"]
<1>8. /\ form \in Forms /\ form.requests = <<>> /\ form.localhostOnly = TRUE /\ form.told = "none"
      /\ form.confirming # "save" /\ form.value = v /\ form.kind = k
  <2>1. /\ h \in Forms /\ h.requests = <<>> /\ h.localhostOnly = TRUE /\ h.told = "none"
        /\ h.confirming = "expose" /\ h.value = v /\ h.kind = k
    BY <1>7 DEF Forms
  <2>2. form = h \/ form = g
    BY <1>1, <1>3 DEF FormWindow!Unmark
  <2>. QED
    BY <1>7, <2>1, <2>2
<1>9. DOMAIN form.requests = {}
  BY <1>8, FormBounds
<1>10. AllHonest(form, visor)
  BY <1>2, <1>8, <1>9 DEF AllHonest
<1>11. Single(form)
  BY <1>8, <1>9 DEF Single, Quiet
<1>12. Lossless(form.requests, visor)
  BY <1>2, <1>9 DEF Lossless, FromPuts
<1>13. form.value \in FormWindow!Fields(form.kind)
  BY <1>8 DEF FormWindow!Fields, FormWindow!Values, FormWindow!Complete
<1>. QED
  BY <1>2, <1>8, <1>10, <1>11, <1>12, <1>13 DEF FormInv

\* Bound: the template sets disabled.
LEMMA BoundFacts ==
    ASSUME NEW f, NEW v, NEW g, FormInv(g, v)
    PROVE  FormInv(FormWindow!Bound(f, g), v)
<1>. DEFINE b == ~FormWindow!Valid(g)
            h == [g EXCEPT !.disabled = b]
<1>1. b \in BOOLEAN
  BY DEF FormWindow!Valid, FormWindow!AddressValid, FormWindow!IpValid, FormWindow!PasswordsMatch,
     FormWindow!HopsValid, FormWindow!PortValid, FormWindow!TransportValid, FormWindow!NewPasswordValid
<1>. HIDE DEF b
<1>2. /\ h \in Forms /\ h.requests = g.requests /\ h.kind = g.kind /\ h.persistent = g.persistent
      /\ h.localhostOnly = g.localhostOnly /\ h.accepted = g.accepted /\ h.subscribed = g.subscribed
      /\ h.told = g.told /\ h.about = g.about /\ h.value = g.value /\ h.confirming = g.confirming
  BY <1>1 DEF FormInv, Forms
<1>. HIDE DEF h
<1>3. FormInv(h, v)
  BY <1>2, FormKept
<1>. QED
  BY <1>3 DEF FormWindow!Bound, h, b

\* Click: the handlers, after the button is reset.
LEMMA ClickForm == FormInv(form, visor) /\ FormWindow!Click => FormInv(form', visor)
<1>. SUFFICES ASSUME FormInv(form, visor), FormWindow!Click
              PROVE  FormInv(form', visor)
  OBVIOUS
<1>. DEFINE f == FormWindow!Reset(form)
<1>1. /\ f \in Forms /\ f.requests = form.requests /\ f.kind = form.kind /\ f.persistent = form.persistent
      /\ f.localhostOnly = form.localhostOnly /\ f.accepted = form.accepted
      /\ f.subscribed = form.subscribed /\ f.told = form.told /\ f.confirming = form.confirming
      /\ f.value = form.value /\ f.about = form.about
  BY DEF FormInv, Forms, FormWindow!Reset
<1>2. form' = FormWindow!Handler(f) /\ form.confirming = "no" /\ FormWindow!Valid(form)
  BY DEF FormWindow!Click
<1>. HIDE DEF f
<1>3. FormInv(f, visor)
  BY <1>1, FormKept
<1>4. /\ f.value \in FormWindow!Values /\ f.value # "exposed" /\ f.confirming = "no"
      /\ "a" \in FormWindow!Values
  BY <1>1, <1>2 DEF Forms, FormWindow!Values, FormWindow!Complete
<1>5. CASE f.kind \in FormWindow!BySubscription
  <2>1. form' = f \/ form' = FormWindow!Asking(f) \/ form' = FormWindow!Save(f, f.value)
    BY <1>2, <1>5 DEF FormWindow!Handler, FormWindow!BySubscription, FormWindow!StartSaving,
       FormWindow!FinishSaving, FormWindow!SaveHops, FormWindow!SaveDns
  <2>2. form' = f \/ ~f.subscribed
    BY <1>2, <1>5 DEF FormWindow!Handler, FormWindow!BySubscription, FormWindow!StartSaving,
       FormWindow!SaveHops, FormWindow!SaveDns
  <2>3. ~f.subscribed => Quiet(f)
    BY <1>3, <1>5 DEF FormInv, Single
  <2>4. f.kind # "transport"
    BY <1>5 DEF FormWindow!BySubscription
  <2>. QED
    BY <1>3, <1>4, <2>1, <2>2, <2>3, <2>4, SaveFacts, AskingFacts
<1>6. CASE f.kind = "transport"
  <2>. DEFINE g == FormWindow!ShowLoading(f)
              step == IF f.persistent THEN "get" ELSE "post"
              r == [step |-> step, value |-> f.value, list |-> {}, state |-> "sent"]
  <2>1. /\ g \in Forms /\ g.requests = f.requests /\ g.kind = f.kind /\ g.persistent = f.persistent
        /\ g.localhostOnly = f.localhostOnly /\ g.accepted = f.accepted /\ g.subscribed = f.subscribed
        /\ g.told = f.told /\ g.about = f.about /\ g.value = f.value /\ g.confirming = "no"
    BY <1>1 DEF Forms, FormWindow!ShowLoading
  <2>2. form' = FormWindow!Request(g, step, f.value, {})
    BY <1>2, <1>6 DEF FormWindow!Handler, FormWindow!Create
  <2>3. f.value \in FormWindow!Complete
    BY <1>1, <1>2, <1>6 DEF FormWindow!Valid, FormWindow!TransportValid
  <2>. HIDE DEF g
  <2>4. FormInv(g, visor)
    BY <1>3, <2>1, FormKept
  <2>5. step \in {"save", "get", "put", "post"} /\ (step = "post" => ~f.persistent) /\ step \in {"get", "post"}
    OBVIOUS
  <2>. HIDE DEF step
  <2>6. Honest(g, visor, r)
    BY <1>4, <1>6, <2>1, <2>3, <2>5 DEF Honest
  <2>7. g.kind \notin FormWindow!BySubscription
    BY <1>6, <2>1 DEF FormWindow!BySubscription
  <2>. QED
    BY <1>4, <2>2, <2>4, <2>5, <2>6, <2>7, RequestFacts
<1>7. CASE f.kind \notin FormWindow!BySubscription \cup {"transport"}
  <2>1. PICK val \in FormWindow!Values \cup {"exposed"} :
            /\ val = "exposed" => ~f.localhostOnly
            /\ form' = FormWindow!Asking(f) \/ form' = FormWindow!Save(f, val)
    <3>1. CASE f.kind = "chat"
      BY <1>2, <1>4, <3>1 DEF FormWindow!Handler, FormWindow!SaveChat
    <3>2. CASE f.kind = "userApp"
      BY <1>2, <1>4, <3>2 DEF FormWindow!Handler, FormWindow!SaveUserApp, FormWindow!ContinueUserApp
    <3>3. CASE f.kind = "server"
      BY <1>2, <1>4, <3>3 DEF FormWindow!Handler, FormWindow!SaveServer
    <3>4. CASE f.kind \notin {"chat", "userApp", "server"}
      BY <1>2, <1>4, <1>7, <3>4 DEF FormWindow!Handler, FormWindow!BySubscription,
         FormWindow!ChangePassword
    <3>. QED
      BY <3>1, <3>2, <3>3, <3>4
  <2>2. val = "exposed" => f.accepted
    BY <1>3, <2>1 DEF FormInv, AllHonest
  <2>3. f.kind # "transport" /\ f.kind \notin FormWindow!BySubscription
    BY <1>7
  <2>. QED
    BY <1>3, <2>1, <2>2, <2>3, SaveFacts, AskingFacts
<1>. QED
  BY <1>5, <1>6, <1>7

\* The visor executes a request.
LEMMA ExecuteForm ==
    ASSUME FormInv(form, visor), NEW i \in DOMAIN form.requests, FormWindow!Execute(i)
    PROVE  FormInv(form', visor')
<1>. DEFINE old == form.requests[i]
            l == IF old.step = "get" THEN visor.persistent ELSE old.list
            r == [old EXCEPT !.state = "executed", !.list = l]
<1>1. form \in Forms /\ form.requests \in Seq(Requests) /\ visor \in Saves
  BY DEF FormInv, Forms
<1>2. old \in Requests /\ Honest(form, visor, old) /\ old.state = "sent"
  <2>1. old \in Requests
    BY <1>1
  <2>2. Honest(form, visor, old)
    BY DEF FormInv, AllHonest
  <2>3. old.state = "sent"
    BY DEF FormWindow!Execute
  <2>. QED
    BY <2>1, <2>2, <2>3
<1>3. l \in SUBSET (Others \cup FormWindow!Complete)
  BY <1>1, <1>2 DEF Requests, Saves
<1>4. form' = [form EXCEPT !.requests = [form.requests EXCEPT ![i] = r]]
  BY <1>1 DEF FormWindow!Execute, Forms
<1>5. /\ r \in Requests /\ r.state = "executed" /\ r.step = old.step /\ r.value = old.value /\ r.list = l
  <2>. HIDE DEF l
  <2>. QED
    BY <1>2, <1>3 DEF Requests
<1>. HIDE DEF r
<1>6. /\ form' \in Forms /\ form'.kind = form.kind /\ form'.persistent = form.persistent
      /\ form'.localhostOnly = form.localhostOnly /\ form'.accepted = form.accepted
      /\ form'.subscribed = form.subscribed /\ form'.told = form.told
      /\ form'.confirming = form.confirming /\ form'.about = form.about /\ form'.value = form.value
      /\ DOMAIN form'.requests = DOMAIN form.requests /\ form'.requests[i] = r
      /\ \A j \in DOMAIN form.requests : j # i => form'.requests[j] = form.requests[j]
  BY <1>1, <1>4, <1>5, RequestChanged
<1>7. /\ visor.saved \subseteq visor'.saved
      /\ visor' = [saved |-> visor'.saved, persistent |-> visor'.persistent, dropped |-> visor'.dropped]
      /\ old.step \in {"save", "post"} => old.value \in visor'.saved
      /\ old.step = "put" => /\ visor'.persistent = old.list
                             /\ visor'.dropped = visor.dropped \cup (visor.persistent \ old.list)
      /\ old.step # "put" => visor'.persistent = visor.persistent /\ visor'.dropped = visor.dropped
      /\ visor'.saved \subseteq visor.saved \cup {old.value}
  <2>1. CASE old.step \in {"save", "post"}
    <3>1. visor' = [visor EXCEPT !.saved = visor.saved \cup {old.value}]
      BY <1>1, <2>1 DEF FormWindow!Execute, Saves
    <3>. QED
      BY <1>1, <1>2, <2>1, <3>1 DEF Saves
  <2>2. CASE old.step = "put"
    <3>1. visor' = [visor EXCEPT !.persistent = old.list,
                                 !.dropped = visor.dropped \cup (visor.persistent \ old.list)]
      BY <1>1, <2>2 DEF FormWindow!Execute, Saves
    <3>. QED
      BY <1>1, <1>2, <2>2, <3>1 DEF Saves
  <2>3. CASE old.step = "get"
    <3>1. visor' = visor
      BY <2>3 DEF FormWindow!Execute
    <3>. QED
      BY <1>1, <2>3, <3>1 DEF Saves
  <2>. QED
    BY <1>2, <2>1, <2>2, <2>3 DEF Requests
<1>8. /\ Others \subseteq visor'.persistent /\ Had(visor) \subseteq Had(visor')
      /\ old.step = "put" => Others \subseteq old.list /\ old.value \in old.list /\ old.value \in Had(visor')
      /\ visor.dropped \subseteq visor'.dropped
  <2>1. old.step = "put" => Others \subseteq old.list /\ old.value \in old.list
    BY <1>2 DEF Honest
  <2>2. Others \subseteq visor'.persistent
    BY <1>7, <2>1 DEF FormInv, AllHonest
  <2>. QED
    BY <1>7, <2>1, <2>2 DEF Had
<1>9. \A j \in DOMAIN form.requests : Honest(form', visor', form.requests[j])
  <2>1. \A j \in DOMAIN form.requests : Honest(form, visor, form.requests[j])
    BY DEF FormInv, AllHonest
  <2>. HIDE DEF old
  <2>. QED
    BY <1>6, <1>7, <1>8, <2>1 DEF Honest
<1>10. Honest(form', visor', r)
  <2>1. Honest(form', visor', old)
    BY <1>9 DEF old
  <2>2. l = (IF old.step = "get" THEN visor.persistent ELSE old.list) /\ Others \subseteq visor.persistent
    BY DEF l, FormInv, AllHonest
  <2>. HIDE DEF l, old
  <2>3. r.step = "put" => Others \subseteq r.list /\ r.value \in r.list /\ r.value \in Had(visor')
    BY <1>5, <1>8, <2>2
  <2>4. r.step = "get" => Others \subseteq r.list /\ r.list \subseteq Had(visor')
    BY <1>5, <1>8, <2>2 DEF Had
  <2>5. r.step \in {"save", "post"} => r.value \in visor'.saved
    BY <1>5, <1>7
  <2>. QED
    BY <1>5, <2>1, <2>3, <2>4, <2>5 DEF Honest
<1>11. AllHonest(form', visor')
  <2>1. \A j \in DOMAIN form'.requests : Honest(form', visor', form'.requests[j])
    BY <1>6, <1>9, <1>10
  <2>2. "exposed" \in visor'.saved => form'.accepted
    BY <1>2, <1>6, <1>7 DEF FormInv, AllHonest, Honest
  <2>3. form'.told = "done" => form'.about \in visor'.saved
    BY <1>6, <1>7 DEF FormInv, AllHonest
  <2>4. form'.told = "only persistent" \/ (form'.told = "done" /\ form'.kind = "transport" /\ form'.persistent)
           => form'.about \in Had(visor')
    BY <1>6, <1>8 DEF FormInv, AllHonest
  <2>5. (~form'.localhostOnly => form'.accepted) /\ (form'.confirming = "save" => form'.kind # "transport")
    BY <1>6 DEF FormInv, AllHonest
  <2>. QED
    BY <1>8, <2>1, <2>2, <2>3, <2>4, <2>5 DEF AllHonest
<1>12. Single(form')
  <2>1. \A j \in DOMAIN form'.requests : form'.requests[j].state = "over" <=> form.requests[j].state = "over"
    BY <1>2, <1>5, <1>6 DEF old
  <2>. QED
    BY <1>6, <2>1 DEF FormInv, Single, Quiet
<1>. DEFINE q == form.requests
            p == form'.requests
<1>14. /\ \A t : Puts(q, t) => Puts(p, t)
       /\ \A t : LeftOut(q, t) => LeftOut(p, t)
       /\ \A S : FromPuts(q, S) => FromPuts(p, S)
  <2>1. \A j \in DOMAIN q : p[j].step = q[j].step /\ p[j].value = q[j].value
                            /\ (q[j].step = "put" => p[j].list = q[j].list)
    <3>1. p[i].step = old.step /\ p[i].value = old.value /\ (old.step = "put" => p[i].list = old.list)
      BY <1>5, <1>6
    <3>. QED
      BY <1>6, <3>1
  <2>2. DOMAIN q \subseteq DOMAIN p
    BY <1>6
  <2>. HIDE DEF q, p
  <2>. QED
    BY <2>1, <2>2, PutsKept
<1>15. \A S : FromPuts(q, S) <=> \A t \in S : t \in Others \/ Puts(q, t)
  BY DEF FromPuts
<1>16. /\ \A j \in DOMAIN q : FromPuts(q, q[j].list)
       /\ FromPuts(q, visor.persistent)
       /\ \A t \in visor.dropped : LeftOut(q, t)
  BY DEF FormInv, Lossless
<1>17. ASSUME old.step = "put", NEW t \in visor.persistent \ old.list
       PROVE  LeftOut(q, t) /\ t \in FormWindow!Complete
  <2>1. t \notin Others
    BY <1>8, <1>17
  <2>2. PICK j \in DOMAIN q : q[j].step = "put" /\ q[j].value = t
    BY <1>15, <1>16, <2>1 DEF Puts
  <2>3. Honest(form, visor, q[j])
    BY DEF FormInv, AllHonest
  <2>4. q[j].value \in FormWindow!Complete
    BY <2>2, <2>3 DEF Honest
  <2>5. LeftOut(q, t)
    BY <1>17, <2>2 DEF LeftOut
  <2>. QED
    BY <2>2, <2>4, <2>5
<1>18. Lossless(p, visor')
  <2>1. \A j \in DOMAIN p : FromPuts(p, p[j].list)
    <3>1. FromPuts(p, r.list)
      BY <1>5, <1>14, <1>16
    <3>. QED
      BY <1>6, <1>14, <1>16, <3>1
  <2>2. FromPuts(p, visor'.persistent)
    BY <1>7, <1>14, <1>16
  <2>3. \A t \in visor'.dropped : LeftOut(p, t)
    BY <1>7, <1>14, <1>16, <1>17
  <2>. QED
    BY <2>1, <2>2, <2>3 DEF Lossless
<1>19. visor' \in Saves
  <2>1. visor'.saved \in SUBSET (FormWindow!Values \cup {"exposed"})
    BY <1>1, <1>2, <1>7 DEF Saves, Requests
  <2>2. visor'.persistent \in SUBSET (Others \cup FormWindow!Complete)
    BY <1>1, <1>2, <1>7 DEF Saves, Requests
  <2>3. visor'.dropped \in SUBSET FormWindow!Complete
    BY <1>1, <1>7, <1>17 DEF Saves
  <2>. QED
    BY <1>7, <2>1, <2>2, <2>3 DEF Saves
<1>20. form'.value \in FormWindow!Fields(form'.kind)
  BY <1>6 DEF FormInv
<1>. QED
  BY <1>6, <1>11, <1>12, <1>18, <1>19, <1>20 DEF FormInv

\* showError: the button shows the error, and the rest of the form stays.
LEMMA ShownError ==
    ASSUME NEW f \in Forms
    PROVE  LET g == FormWindow!ShowError(f)
           IN  /\ g \in Forms /\ g.kind = f.kind /\ g.persistent = f.persistent
               /\ g.localhostOnly = f.localhostOnly /\ g.accepted = f.accepted
               /\ g.told = "error" /\ g.confirming = f.confirming /\ g.requests = f.requests /\ g.value = f.value
BY DEF Forms, FormWindow!ShowError

\* The answers of the visor and of the hypervisor.
LEMMA AnsweredForm ==
    ASSUME FormInv(form, visor), NEW i \in DOMAIN form.requests,
           FormWindow!Succeeded(i) \/ FormWindow!RequestFailed(i)
    PROVE  FormInv(form', visor')
<1>. DEFINE f == FormWindow!Over(form, i)
            r == form.requests[i]
<1>1. form \in Forms /\ r \in Requests /\ Honest(form, visor, r)
  <2>1. form \in Forms /\ form.requests \in Seq(Requests)
    BY DEF FormInv, Forms
  <2>2. r \in Requests
    BY <2>1
  <2>3. Honest(form, visor, r)
    BY DEF FormInv, AllHonest
  <2>. QED
    BY <2>1, <2>2, <2>3
<1>2. /\ FormInv(f, visor) /\ f.confirming = form.confirming /\ f.kind = form.kind
      /\ f.persistent = form.persistent /\ DOMAIN f.requests = DOMAIN form.requests
      /\ f.requests[i].list = r.list
      /\ form.kind \in FormWindow!BySubscription /\ r.state # "over" => Quiet(f)
  BY OverFacts
<1>3. visor' = visor /\ r.state # "over"
  BY DEF FormWindow!Succeeded, FormWindow!RequestFailed, FormWindow!Live
<1>4. ASSUME NEW told \in {"done", "only persistent"}, told = "done" => r.value \in visor.saved,
             told = "only persistent" \/ (form.kind = "transport" /\ form.persistent) => r.value \in Had(visor)
      PROVE  FormInv(FormWindow!Tell(FormWindow!Destroyed(f), told, r.value), visor)
  <2>. DEFINE d == FormWindow!Destroyed(f)
              g == [d EXCEPT !.told = told, !.about = r.value]
  <2>a. d.kind = form.kind /\ d.persistent = form.persistent
    <3>1. f \in Forms
      BY <1>2 DEF FormInv
    <3>. QED
      BY <1>2, <3>1 DEF FormWindow!Destroyed, Forms
  <2>b. r.value \in FormWindow!Values \cup {"exposed"}
    BY <1>1 DEF Requests
  <2>1. FormInv(d, visor)
    BY <1>2, DestroyedFacts
  <2>. HIDE DEF d
  <2>2. /\ g \in Forms /\ g.kind = d.kind /\ g.persistent = d.persistent
        /\ g.localhostOnly = d.localhostOnly /\ g.accepted = d.accepted
        /\ g.subscribed = d.subscribed /\ g.told = told /\ g.confirming = d.confirming
        /\ g.requests = d.requests /\ g.about = r.value /\ g.value = d.value
    BY <2>1, <2>b DEF FormInv, Forms
  <2>. HIDE DEF g
  <2>3. \A j \in DOMAIN g.requests : Honest(g, visor, g.requests[j])
    <3>1. \A j \in DOMAIN g.requests : Honest(d, visor, g.requests[j])
      BY <2>1, <2>2 DEF FormInv, AllHonest
    <3>. QED
      BY <2>2, <3>1 DEF Honest
  <2>4. AllHonest(g, visor)
    BY <1>4, <2>1, <2>a, <2>2, <2>3 DEF FormInv, AllHonest
  <2>5. Single(g)
    <3>1. Single(d)
      BY <2>1 DEF FormInv
    <3>. HIDE DEF f, r
    <3>. QED
      BY <2>2, <3>1 DEF Single, Quiet
  <2>6. FormInv(g, visor)
    BY <2>1, <2>2, <2>4, <2>5 DEF FormInv
  <2>. QED
    BY <2>6 DEF g, d, FormWindow!Tell
<1>5. CASE FormWindow!Succeeded(i) /\ r.step \in {"get", "put"}
  <2>1. /\ r.value \in FormWindow!Complete /\ form.kind = "transport" /\ r.state = "executed"
        /\ r.value \in FormWindow!Values /\ r.value # "exposed"
    BY <1>1, <1>5 DEF Honest, FormWindow!Succeeded, FormWindow!Values, FormWindow!Complete
  <2>2. f.kind \notin FormWindow!BySubscription
    BY <1>2, <2>1 DEF FormWindow!BySubscription
  <2>3. form' = FormWindow!NextStep(f, r)
    BY <1>5 DEF FormWindow!Succeeded
  <2>4. CASE r.step = "get" /\ r.value \notin r.list
    <3>. DEFINE l == r.list \cup {r.value}
    <3>1. form' = FormWindow!Request(f, "put", r.value, l)
      BY <2>3, <2>4 DEF FormWindow!NextStep, FormWindow!CreatePersistent
    <3>2. l \in SUBSET (Others \cup FormWindow!Complete) /\ Others \subseteq l /\ r.value \in l
      BY <1>1, <2>1, <2>4 DEF Requests, Honest
    <3>3. \A t \in l : t \in Others \/ Puts(f.requests, t) \/ t = r.value
      <4>1. f.requests[i].list = r.list /\ i \in DOMAIN f.requests
        BY <1>2
      <4>2. FromPuts(f.requests, r.list)
        BY <1>2, <4>1 DEF FormInv, Lossless
      <4>. QED
        BY <4>2 DEF FromPuts
    <3>. HIDE DEF l
    <3>4. Honest(f, visor, [step |-> "put", value |-> r.value, list |-> l, state |-> "sent"])
      BY <1>2, <2>1, <3>2 DEF Honest
    <3>. HIDE DEF f, r
    <3>. QED
      BY <1>2, <1>3, <2>1, <2>2, <3>1, <3>2, <3>3, <3>4, RequestFacts
  <2>5. CASE ~(r.step = "get" /\ r.value \notin r.list)
    <3>1. form' = FormWindow!Request(f, "post", r.value, {})
      BY <2>3, <2>5 DEF FormWindow!NextStep
    <3>2. r.value \in Had(visor)
      BY <1>1, <1>5, <2>1, <2>5 DEF Honest
    <3>3. Honest(f, visor, [step |-> "post", value |-> r.value, list |-> {}, state |-> "sent"])
      BY <1>2, <2>1, <3>2 DEF Honest
    <3>. HIDE DEF f, r
    <3>. QED
      BY <1>2, <1>3, <2>1, <2>2, <3>1, <3>3, RequestFacts
  <2>. QED
    BY <2>4, <2>5
<1>6. CASE FormWindow!Succeeded(i) /\ r.step \notin {"get", "put"}
  <2>1. form' = FormWindow!Tell(FormWindow!Destroyed(f), "done", r.value) /\ r.state = "executed"
    BY <1>6 DEF FormWindow!Succeeded
  <2>2. r.value \in visor.saved
    BY <1>1, <1>6, <2>1 DEF Honest, Requests
  <2>3. form.kind = "transport" /\ form.persistent => r.value \in Had(visor)
    BY <1>1, <1>6 DEF Honest, Requests
  <2>. QED
    BY <1>3, <1>4, <2>1, <2>2, <2>3
<1>7. CASE FormWindow!RequestFailed(i) /\ FormWindow!AfterPersistent(form, i)
  <2>1. form' = FormWindow!Tell(FormWindow!Destroyed(f), "only persistent", r.value)
    BY <1>7 DEF FormWindow!RequestFailed
  <2>2. r.value \in Had(visor)
    BY <1>1, <1>7 DEF Honest, FormWindow!AfterPersistent
  <2>. QED
    BY <1>3, <1>4, <2>1, <2>2
<1>8. CASE FormWindow!RequestFailed(i) /\ ~FormWindow!AfterPersistent(form, i)
  <2>. DEFINE g == FormWindow!ShowError(f)
  <2>1. form' = g
    BY <1>8 DEF FormWindow!RequestFailed
  <2>2. /\ g \in Forms /\ g.kind = f.kind /\ g.persistent = f.persistent
        /\ g.localhostOnly = f.localhostOnly /\ g.accepted = f.accepted
        /\ g.told = "error" /\ g.confirming = f.confirming /\ g.requests = f.requests /\ g.value = f.value
    <3>1. f \in Forms
      BY <1>2 DEF FormInv
    <3>. QED
      BY <3>1, ShownError
  <2>. HIDE DEF g
  <2>3. \A j \in DOMAIN g.requests : Honest(g, visor, g.requests[j])
    <3>1. \A j \in DOMAIN g.requests : Honest(f, visor, g.requests[j])
      BY <1>2, <2>2 DEF FormInv, AllHonest
    <3>. QED
      BY <2>2, <3>1 DEF Honest
  <2>4. AllHonest(g, visor)
    BY <1>2, <2>2, <2>3 DEF FormInv, AllHonest
  <2>5. Single(g)
    BY <1>2, <1>3, <2>2 DEF FormInv, Single, Quiet
  <2>. QED
    BY <1>2, <1>3, <2>1, <2>2, <2>4, <2>5 DEF FormInv
<1>. QED
  BY <1>5, <1>6, <1>7, <1>8

\* What is typed, the buttons, the questions and the answers keep the invariant.
LEMMA NextForm == FormInv(form, visor) /\ FormWindow!Next => FormInv(form', visor')
<1>. SUFFICES ASSUME FormInv(form, visor), FormWindow!Next
              PROVE  FormInv(form', visor')
  OBVIOUS
<1>1. CASE FormWindow!TypesLoaded
  <2>. DEFINE g == [form EXCEPT !.types = TRUE]
  <2>1. form' = FormWindow!Bound(form, g) /\ visor' = visor
    BY <1>1 DEF FormWindow!TypesLoaded
  <2>2. /\ g \in Forms /\ g.requests = form.requests /\ g.kind = form.kind /\ g.persistent = form.persistent
        /\ g.localhostOnly = form.localhostOnly /\ g.accepted = form.accepted
        /\ g.subscribed = form.subscribed /\ g.told = form.told /\ g.confirming = form.confirming
        /\ g.about = form.about /\ g.value = form.value
    BY DEF FormInv, Forms
  <2>. HIDE DEF g
  <2>. QED
    BY <2>1, <2>2, FormKept, BoundFacts
<1>2. ASSUME NEW v \in FormWindow!Values, FormWindow!Type(v)
      PROVE  FormInv(form', visor')
  <2>. DEFINE t == form.typed + 1
              g == [form EXCEPT !.value = v, !.typed = t]
  <2>1. /\ form' = FormWindow!Bound(form, g) /\ visor' = visor /\ form.typed < MaxTyped
        /\ v \in FormWindow!Fields(form.kind)
    BY <1>2 DEF FormWindow!Type
  <2>2. t \in 0..MaxTyped
    <3>1. form.typed \in 0..MaxTyped
      BY DEF FormInv, Forms
    <3>. QED
      BY <2>1, <3>1, FormBounds
  <2>. HIDE DEF t
  <2>3. /\ g \in Forms /\ g.requests = form.requests /\ g.kind = form.kind /\ g.persistent = form.persistent
        /\ g.localhostOnly = form.localhostOnly /\ g.accepted = form.accepted
        /\ g.subscribed = form.subscribed /\ g.told = form.told /\ g.confirming = form.confirming
        /\ g.about = form.about /\ g.value = v
    BY <2>2 DEF FormInv, Forms
  <2>. HIDE DEF g
  <2>. QED
    BY <2>1, <2>3, FormKept, BoundFacts
<1>3. CASE FormWindow!UnmarkLocalhostOnly
  <2>. DEFINE t == form.typed + 1
              g == [form EXCEPT !.confirming = "expose", !.typed = t]
  <2>1. form' = g /\ visor' = visor /\ form.typed < MaxTyped
    BY <1>3 DEF FormWindow!UnmarkLocalhostOnly, FormWindow!Unmark, FormInv, Forms
  <2>2. t \in 0..MaxTyped
    <3>1. form.typed \in 0..MaxTyped
      BY DEF FormInv, Forms
    <3>. QED
      BY <2>1, <3>1, FormBounds
  <2>. HIDE DEF t
  <2>3. /\ g \in Forms /\ g.requests = form.requests /\ g.kind = form.kind /\ g.persistent = form.persistent
        /\ g.localhostOnly = form.localhostOnly /\ g.accepted = form.accepted
        /\ g.subscribed = form.subscribed /\ g.told = form.told /\ g.confirming = "expose"
        /\ g.about = form.about /\ g.value = form.value
    BY <2>2 DEF FormInv, Forms
  <2>. HIDE DEF g
  <2>. QED
    BY <2>1, <2>3, FormKept
<1>4. CASE FormWindow!Click
  BY <1>4, ClickForm DEF FormWindow!Click
<1>5. CASE FormWindow!Confirm
  <2>1. visor' = visor /\ form.confirming = "save" /\ form \in Forms
    BY <1>5 DEF FormWindow!Confirm, FormInv
  <2>2. PICK val \in FormWindow!Values : form' = FormWindow!Save(form, val)
    <3>1. form.value \in FormWindow!Values /\ "a" \in FormWindow!Values
      BY <2>1 DEF Forms, FormWindow!Values, FormWindow!Complete
    <3>2. form' \in {FormWindow!Save(form, form.value), FormWindow!Save(form, "a")}
      BY <1>5 DEF FormWindow!Confirm, FormWindow!ContinueUserApp, FormWindow!ContinueServer,
         FormWindow!FinishSaving
    <3>. QED
      BY <3>1, <3>2
  <2>3. val # "exposed"
    BY DEF FormWindow!Values, FormWindow!Complete
  <2>4. form.kind \in FormWindow!BySubscription => Quiet(form)
    BY <2>1 DEF FormInv, Single
  <2>5. form.kind # "transport"
    BY <2>1 DEF FormInv, AllHonest
  <2>. QED
    BY <2>1, <2>2, <2>3, <2>4, <2>5, SaveFacts
<1>6. CASE FormWindow!AcceptExposing
  <2>. DEFINE g == [form EXCEPT !.confirming = "no", !.localhostOnly = FALSE, !.accepted = TRUE]
  <2>1. form' = g /\ visor' = visor
    BY <1>6 DEF FormWindow!AcceptExposing
  <2>2. /\ g \in Forms /\ g.requests = form.requests /\ g.kind = form.kind /\ g.persistent = form.persistent
        /\ g.accepted = TRUE /\ g.subscribed = form.subscribed /\ g.told = form.told /\ g.confirming = "no"
        /\ g.about = form.about /\ g.value = form.value
    BY DEF FormInv, Forms
  <2>. HIDE DEF g
  <2>3. \A j \in DOMAIN g.requests : Honest(g, visor, g.requests[j])
    <3>1. \A j \in DOMAIN g.requests : Honest(form, visor, g.requests[j])
      BY <2>2 DEF FormInv, AllHonest
    <3>. QED
      BY <2>2, <3>1 DEF Honest
  <2>4. AllHonest(g, visor)
    BY <2>2, <2>3 DEF FormInv, AllHonest
  <2>5. Single(g)
    BY <2>2 DEF FormInv, Single, Quiet
  <2>. QED
    BY <2>1, <2>2, <2>4, <2>5 DEF FormInv
<1>7. CASE FormWindow!Cancel
  <2>. DEFINE g == [form EXCEPT !.confirming = "no"]
  <2>1. form' = g /\ visor' = visor
    BY <1>7 DEF FormWindow!Cancel
  <2>2. /\ g \in Forms /\ g.requests = form.requests /\ g.kind = form.kind /\ g.persistent = form.persistent
        /\ g.localhostOnly = form.localhostOnly /\ g.accepted = form.accepted
        /\ g.subscribed = form.subscribed /\ g.told = form.told /\ g.confirming = "no"
        /\ g.about = form.about /\ g.value = form.value
    BY DEF FormInv, Forms
  <2>. HIDE DEF g
  <2>. QED
    BY <2>1, <2>2, FormKept
<1>8. CASE FormWindow!Dismiss
  BY <1>8, DestroyedFacts DEF FormWindow!Dismiss
<1>9. CASE FormWindow!Answered
  BY <1>9, ExecuteForm, AnsweredForm DEF FormWindow!Answered
<1>. QED
  BY <1>1, <1>2, <1>3, <1>4, <1>5, <1>6, <1>7, <1>8, <1>9 DEF FormWindow!Next

\* The module of the windows counts with its own instance of FiniteSets.
LEMMA FormCount == \A S : FormWindow!Cardinality(S) = Cardinality(S)
BY DEF FormWindow!Cardinality, Cardinality

\* A set with no two elements.
LEMMA AtMostOne ==
    ASSUME NEW S, \A i, j \in S : i = j
    PROVE  Cardinality(S) <= 1
<1>1. CASE S = {}
  BY <1>1, FS_EmptySet
<1>2. CASE S # {}
  <2>1. PICK i \in S : S = {i}
    BY <1>2
  <2>2. Cardinality({i}) = 1
    BY FS_Singleton
  <2>. QED
    BY <2>1, <2>2
<1>. QED
  BY <1>1, <1>2

\* What the invariant says of the window.
LEMMA FormHolds ==
    FormInv(form, visor) => /\ FormWindow!TypeOK /\ FormWindow!OneRequest /\ FormWindow!ToldTruth
                            /\ FormWindow!ExposedIfAccepted /\ FormWindow!ListKept
<1>. SUFFICES ASSUME FormInv(form, visor)
              PROVE  /\ FormWindow!TypeOK /\ FormWindow!OneRequest /\ FormWindow!ToldTruth
                     /\ FormWindow!ExposedIfAccepted /\ FormWindow!ListKept
  OBVIOUS
<1>1. /\ form \in Forms /\ visor \in Saves /\ AllHonest(form, visor) /\ Single(form)
      /\ form.value \in FormWindow!Fields(form.kind)
  BY DEF FormInv
<1>2. FormWindow!TypeOK
  <2>1. form.requests \in Seq(Requests)
    BY <1>1 DEF Forms
  <2>2. \A i \in DOMAIN form.requests : form.requests[i] \in Requests
    BY <2>1
  <2>. QED
    BY <1>1, <2>2 DEF Forms, Saves, Requests, FormWindow!TypeOK
<1>3. FormWindow!OneRequest
  <2>1. ASSUME form.kind \in FormWindow!BySubscription
        PROVE  \A i, j \in {k \in DOMAIN form.requests : FormWindow!Live(form.requests[k])} : i = j
    BY <1>1, <2>1 DEF Single, FormWindow!Live
  <2>2. ASSUME form.kind \in FormWindow!BySubscription
        PROVE  Cardinality({k \in DOMAIN form.requests : FormWindow!Live(form.requests[k])}) <= 1
    BY <2>1, <2>2, AtMostOne
  <2>. QED
    BY <2>2, FormCount DEF FormWindow!OneRequest
<1>4. FormWindow!ToldTruth /\ FormWindow!ExposedIfAccepted
  BY <1>1 DEF AllHonest, Had, FormWindow!ToldTruth, FormWindow!ToldPersistent, FormWindow!ExposedIfAccepted
<1>5. ASSUME NEW t \in visor.dropped
      PROVE  \E i, j \in DOMAIN form.requests :
                 /\ i # j /\ FormWindow!Put(i) /\ FormWindow!Put(j)
                 /\ form.requests[i].value = t /\ t \notin form.requests[j].list
  <2>1. LeftOut(form.requests, t)
    BY DEF FormInv, Lossless
  <2>2. PICK i, j \in DOMAIN form.requests :
            /\ form.requests[i].step = "put" /\ form.requests[j].step = "put"
            /\ form.requests[i].value = t /\ t \notin form.requests[j].list
    BY <2>1 DEF LeftOut
  <2>3. form.requests[i].value \in form.requests[i].list
    BY <1>1, <2>2 DEF AllHonest, Honest
  <2>4. i # j
    BY <2>2, <2>3
  <2>. QED
    BY <2>2, <2>4 DEF FormWindow!Put
<1>6. FormWindow!ListKept
  BY <1>1, <1>5 DEF AllHonest, FormWindow!ListKept
<1>. QED
  BY <1>2, <1>3, <1>4, <1>6

-----------------------------------------------------------------------------
(* The lists of a visor *)

\* The module of the lists counts with its own instance of FiniteSets.
LEMMA ListCount == \A S : ListPage!Cardinality(S) = Cardinality(S)
BY DEF ListPage!Cardinality, Cardinality

\* Quotients of integers.
LEMMA Quotient ==
    ASSUME NEW a \in Nat, NEW b \in Nat \ {0}
    PROVE  a \div b \in Nat /\ (a \div b) * b <= a /\ a < (a \div b) * b + b
OBVIOUS

\* The first row of a page, if it is not after the last one.
LEMMA PageStarts ==
    ASSUME NEW n \in Nat \ {0}, NEW size \in Nat \ {0}, NEW p \in Nat \ {0}, p <= (n + size - 1) \div size
    PROVE  /\ (p - 1) * size + 1 \in 1..n
           /\ ((p - 1) * size + 1 + size - 1) \div size = p
<1>. DEFINE last == (n + size - 1) \div size
            r == (p - 1) * size + 1
            q == (r + size - 1) \div size
<1>1. last \in Nat /\ last * size <= n + size - 1 /\ p <= last
  BY Quotient
<1>. HIDE DEF last
<1>2. p * size <= last * size
  BY <1>1
<1>3. (p - 1) * size = p * size - size /\ (p - 1) * size >= 0 /\ p * size \in Nat
  OBVIOUS
<1>4. r \in 1..n /\ r + size - 1 = p * size
  BY <1>1, <1>2, <1>3
<1>. HIDE DEF r
<1>5. q \in Nat /\ q * size <= p * size /\ p * size < q * size + size
  BY <1>4, Quotient
<1>. HIDE DEF q
<1>6. q = p
  <2>1. CASE q < p
    <3>1. (q + 1) * size <= p * size
      BY <1>5, <2>1
    <3>2. (q + 1) * size = q * size + size
      BY <1>5
    <3>. QED
      BY <1>3, <1>5, <3>1, <3>2
  <2>2. CASE q > p
    <3>1. (p + 1) * size <= q * size
      BY <1>5, <2>2
    <3>2. (p + 1) * size = p * size + size
      OBVIOUS
    <3>. QED
      BY <1>3, <1>5, <3>1, <3>2
  <2>. QED
    BY <1>5, <2>1, <2>2
<1>. QED
  BY <1>4, <1>6 DEF q, r

\* There are pages, if there are rows.
LEMMA SomePage ==
    ASSUME NEW n \in Nat \ {0}, NEW size \in Nat \ {0}
    PROVE  (n + size - 1) \div size \in Nat \ {0}
<1>. DEFINE last == (n + size - 1) \div size
<1>1. last \in Nat /\ n + size - 1 < last * size + size
  BY Quotient
<1>. HIDE DEF last
<1>2. last # 0
  BY <1>1
<1>. QED
  BY <1>1, <1>2 DEF last

Sels == UNION {[S -> BOOLEAN] : S \in SUBSET ListPage!Rows}
Comps == [filter : ListPage!Filters, pageInUrl : 1..N, sortBy : {"id", "flag"}, reverse : BOOLEAN,
          shown : SUBSET ListPage!Rows, sel : Sels, again : BOOLEAN]

\* The sizes of the lists.
LEMMA ListBounds == N \in Nat \ {0} /\ ListPageSize \in Nat \ {0} /\ MaxListOps \in Nat
BY DialogsAssumption DEF DialogsAssumption

\* The entries of a list are rows, and those of the apps are elements.
LEMMA EntryFacts ==
    ASSUME list \in Lists, NEW d \in ListPage!State
    PROVE  /\ ListPage!Entries(d) \subseteq ListPage!Rows
           /\ ListPage!IsApps => ListPage!Entries(d) \subseteq ListPage!Elems
<1>1. Lists \subseteq {"transports", "routes", "apps", "autostart"}
  BY DialogsAssumption DEF DialogsAssumption
<1>2. ListPage!Elems \subseteq ListPage!Rows /\ d.exists \subseteq ListPage!Elems
  BY ListBounds DEF ListPage!Elems, ListPage!Rows, ListPage!State
<1>3. CASE list = "transports"
  <2>1. \A e \in ListPage!Elems : e + N \in ListPage!Rows
    BY ListBounds DEF ListPage!Elems, ListPage!Rows
  <2>2. ListPage!Entries(d) \subseteq ListPage!Rows
    <3>1. ListPage!Entries(d) = ListPage!TransportEntries(d)
      BY <1>3 DEF ListPage!Entries, ListPage!IsApps
    <3>2. d.flag \subseteq ListPage!Elems
      BY DEF ListPage!State
    <3>. QED
      BY <1>2, <2>1, <3>1, <3>2 DEF ListPage!TransportEntries
  <2>. QED
    BY <1>3, <2>2 DEF ListPage!IsApps
<1>4. CASE list = "routes"
  BY <1>2, <1>4 DEF ListPage!Entries, ListPage!RouteEntries, ListPage!IsApps
<1>5. CASE list \in {"apps", "autostart"}
  BY <1>2, <1>5 DEF ListPage!Entries, ListPage!AppEntries, ListPage!IsApps
<1>. QED
  BY <1>1, <1>3, <1>4, <1>5

\* sortData: the rows are in a strict order.
LEMMA BeforeIsOrder ==
    ASSUME NEW c, c.reverse \in BOOLEAN, NEW d,
           NEW i \in Nat, NEW j \in Nat, NEW k \in Nat
    PROVE  /\ i # j => ListPage!Before(c, d, i, j) \/ ListPage!Before(c, d, j, i)
           /\ i # j => ~(ListPage!Before(c, d, i, j) /\ ListPage!Before(c, d, j, i))
           /\ i # j /\ j # k /\ i # k /\ ListPage!Before(c, d, i, j) /\ ListPage!Before(c, d, j, k)
                 => ListPage!Before(c, d, i, k)
<1>. DEFINE F(x) == ListPage!Elem(x) \in d.flag
            B(x, y) == IF c.sortBy = "flag" /\ ~(F(x) <=> F(y)) THEN ~(F(x) <=> c.reverse)
                       ELSE ~(x < y <=> c.reverse)
<1>1. \A x, y : ListPage!Before(c, d, x, y) <=> B(x, y)
  BY DEF ListPage!Before, ListPage!Flagged
<1>2. CASE c.reverse = TRUE
  BY <1>1, <1>2
<1>3. CASE c.reverse = FALSE
  BY <1>1, <1>3
<1>. QED
  BY <1>2, <1>3

\* The rows before another are fewer.
LEMMA RankGrows ==
    ASSUME NEW c, c.reverse \in BOOLEAN, NEW d, NEW S \in SUBSET Nat, IsFiniteSet(S),
           NEW j \in S, NEW k \in S, ListPage!Before(c, d, j, k), j # k
    PROVE  ListPage!Rank(c, d, S, j) < ListPage!Rank(c, d, S, k)
<1>. DEFINE A(x) == {i \in S \ {x} : ListPage!Before(c, d, i, x)}
<1>1. /\ ListPage!Rank(c, d, S, j) = 1 + Cardinality(A(j))
      /\ ListPage!Rank(c, d, S, k) = 1 + Cardinality(A(k))
  BY ListCount DEF ListPage!Rank
<1>2. A(j) \subseteq A(k)
  <2>. SUFFICES ASSUME NEW i \in S, i # j, ListPage!Before(c, d, i, j)
                PROVE  i # k /\ ListPage!Before(c, d, i, k)
    OBVIOUS
  <2>1. i # k
    BY BeforeIsOrder
  <2>. QED
    BY <2>1, BeforeIsOrder
<1>3. j \in A(k) /\ j \notin A(j)
  OBVIOUS
<1>4. IsFiniteSet(A(k)) /\ IsFiniteSet(A(j)) /\ A(j) # A(k)
  <2>1. A(k) \subseteq S /\ A(j) \subseteq S
    OBVIOUS
  <2>. HIDE DEF A
  <2>. QED
    BY <1>3, <2>1, FS_Subset
<1>. HIDE DEF A
<1>5. Cardinality(A(j)) \in Nat /\ Cardinality(A(k)) \in Nat
  BY <1>4, FS_CardinalityType
<1>6. Cardinality(A(j)) <= Cardinality(A(k)) /\ Cardinality(A(k)) # Cardinality(A(j))
  BY <1>2, <1>4, FS_Subset
<1>. QED
  BY <1>1, <1>5, <1>6

\* The ranks of some rows.
Ranks(c, d, S) == {ListPage!Rank(c, d, S, k) : k \in S}

\* The ranks of the rows are all the numbers up to how many they are.
LEMMA RankReaches ==
    ASSUME NEW c, c.reverse \in BOOLEAN, NEW d, NEW S \in SUBSET Nat, IsFiniteSet(S),
           NEW r \in 1..Cardinality(S)
    PROVE  r \in Ranks(c, d, S)
<1>. DEFINE n == Cardinality(S)
            f == [k \in S |-> ListPage!Rank(c, d, S, k)]
<1>1. n \in Nat
  BY FS_CardinalityType
<1>2. ASSUME NEW k \in S
      PROVE  f[k] \in 1..n
  <2>. DEFINE A == {i \in S \ {k} : ListPage!Before(c, d, i, k)}
  <2>1. f[k] = 1 + Cardinality(A)
    BY ListCount DEF ListPage!Rank
  <2>2. A \subseteq S \ {k}
    OBVIOUS
  <2>. HIDE DEF A, f
  <2>3. IsFiniteSet(S \ {k}) /\ Cardinality(S \ {k}) = n - 1
    BY FS_RemoveElement
  <2>4. Cardinality(A) <= n - 1 /\ IsFiniteSet(A)
    BY <2>2, <2>3, FS_Subset, ZenonT(40)
  <2>5. Cardinality(A) \in Nat
    BY <2>4, FS_CardinalityType
  <2>. QED
    BY <1>1, <2>1, <2>4, <2>5
<1>3. \A j, k \in S : f[j] = f[k] => j = k
  <2>. SUFFICES ASSUME NEW j \in S, NEW k \in S, j # k
                PROVE  f[j] # f[k]
    OBVIOUS
  <2>1. ListPage!Before(c, d, j, k) \/ ListPage!Before(c, d, k, j)
    BY BeforeIsOrder
  <2>2. f[j] < f[k] \/ f[k] < f[j]
    BY <2>1, RankGrows
  <2>3. f[j] \in Nat /\ f[k] \in Nat
    BY <1>2
  <2>. HIDE DEF f
  <2>. QED
    BY <2>2, <2>3
<1>4. f \in [S -> 1..n]
  BY <1>2
<1>. HIDE DEF f
<1>5. f \in Injection(S, 1..n)
  BY <1>3, <1>4 DEF Injection, IsInjective
<1>6. IsFiniteSet(1..n) /\ Cardinality(1..n) = n
  <2>1. /\ IsFiniteSet(1..n)
        /\ Cardinality(1..n) = IF 1 > n THEN 0 ELSE n - 1 + 1
    BY <1>1, FS_Interval
  <2>. QED
    BY <1>1, <2>1
<1>7. f \in Surjection(S, 1..n)
  BY <1>5, <1>6, FS_Injection
<1>8. PICK k \in S : f[k] = r
  BY <1>7 DEF Surjection
<1>. QED
  BY <1>8 DEF f, Ranks

\* recalculateElementsToShow: the rows of the current page, which are some.
OnPage(c, d, S) ==
    {k \in S : (ListPage!Rank(c, d, S, k) + ListPageSize - 1) \div ListPageSize = ListPage!CurrentPage(c, S)}

\* The current page of some rows is not blank: the row with its first rank is there.
LEMMA RowOnPage ==
    ASSUME NEW c, c.reverse \in BOOLEAN, c.pageInUrl \in Nat \ {0}, NEW d,
           NEW S \in SUBSET Nat, IsFiniteSet(S), S # {}
    PROVE  OnPage(c, d, S) # {}
<1>. DEFINE n == Cardinality(S)
            last == (n + ListPageSize - 1) \div ListPageSize
            p == ListPage!CurrentPage(c, S)
            r == (p - 1) * ListPageSize + 1
<1>1. n \in Nat \ {0}
  BY FS_CardinalityType, FS_EmptySet
<1>2. ListPageSize \in Nat \ {0}
  BY ListBounds
<1>3. p = IF c.pageInUrl > last THEN last ELSE c.pageInUrl
  BY ListCount DEF ListPage!CurrentPage, ListPage!NumberOfPages
<1>. HIDE DEF n, p
<1>4. last \in Nat \ {0}
  BY <1>1, <1>2, SomePage
<1>5. p \in Nat \ {0} /\ p <= last
  <2>. HIDE DEF last
  <2>. QED
    BY <1>3, <1>4
<1>6. r \in 1..n /\ (r + ListPageSize - 1) \div ListPageSize = p
  BY <1>1, <1>2, <1>5, PageStarts
<1>. HIDE DEF r
<1>7. PICK x \in 1..Cardinality(S) : (x + ListPageSize - 1) \div ListPageSize = p
  BY <1>6 DEF n
<1>. HIDE DEF last
<1>8. x \in Ranks(c, d, S)
  BY RankReaches
<1>9. PICK k \in S : ListPage!Rank(c, d, S, k) = x
  BY <1>8 DEF Ranks
<1>. QED
  BY <1>7, <1>9 DEF OnPage, p

\* A list that has rows shows some.
LEMMA SomeShown ==
    ASSUME list \in Lists, NEW c, c.reverse \in BOOLEAN, c.pageInUrl \in 1..N, NEW d \in ListPage!State,
           ListPage!Filtered(c, d) # {}
    PROVE  ListPage!ToShow(c, d) # {}
<1>. DEFINE S == ListPage!Filtered(c, d)
<1>1. S \subseteq ListPage!Rows
  BY EntryFacts DEF ListPage!Filtered
<1>2. ListPage!Rows = 1..(2 * N) /\ 2 * N \in Nat
  BY ListBounds DEF ListPage!Rows
<1>3. ListPage!ToShow(c, d) = OnPage(c, d, S)
  BY DEF ListPage!ToShow, OnPage
<1>4. S # {}
  OBVIOUS
<1>. HIDE DEF S
<1>5. IsFiniteSet(S) /\ S \in SUBSET Nat
  <2>1. IsFiniteSet(ListPage!Rows)
    BY <1>2, FS_Interval
  <2>2. IsFiniteSet(S)
    BY <1>1, <2>1, FS_Subset
  <2>. QED
    BY <1>1, <1>2, <2>2
<1>6. c.pageInUrl \in Nat \ {0}
  BY ListBounds
<1>. QED
  BY <1>3, <1>4, <1>5, <1>6, RowOnPage

Dos == {"none", "deleteSelected", "persist", "forget", "delete", "on", "off"}
Dialogs == [is : {"closed", "asking", "processing", "done"}, do : Dos, keys : SUBSET ListPage!Rows]
ListOps == [do : Dos, todo : SUBSET ListPage!Rows, now : ListPage!Rows \cup {0},
            is : {"sent", "ok", "got", "put", "failed"}, got : SUBSET ListPage!Elems,
            did : SUBSET ListPage!Elems, asked : SUBSET ListPage!Rows, mine : BOOLEAN, live : BOOLEAN]

\* A component with the data it got.
CompOK(c, d) ==
    /\ c \in Comps /\ c.sel \in [c.shown -> BOOLEAN]
    /\ ListPage!IsApps => c.shown \subseteq ListPage!Elems
    /\ ListPage!Filtered(c, d) # {} => c.shown # {}

\* Apps are only started, stopped and configured, and nothing else is.
DialogOK(dl) ==
    /\ ListPage!IsApps /\ dl.is = "asking" => dl.do \in {"on", "off"}
    /\ dl.do \in {"on", "off"} => ListPage!IsApps /\ dl.keys \subseteq ListPage!Elems

OpOK(op) ==
    /\ op.todo \subseteq op.asked /\ op.now \in op.todo \cup {0}
    /\ ListPage!IsApps => op.do \in {"on", "off"}
    /\ op.do \in {"on", "off"} =>
          op.did = {} /\ op.todo \subseteq ListPage!Elems /\ op.now \in ListPage!Elems

CompInv == list \in Lists /\ data \in ListPage!State /\ CompOK(comp, data)

\* What finished operations deleted is not there, and no answer that is to come
\* has it.
DeletedInv ==
    /\ listed \in ListPage!State /\ asked \in ListPage!State \cup {None}
    /\ gone \subseteq ListPage!Elems /\ timers \subseteq {"soon", "later"}
    /\ listed.exists \cap gone = {} /\ (asked # None => asked.exists \cap gone = {})

DialogInv == dialog \in Dialogs /\ DialogOK(dialog)

OpsInv ==
    /\ ops \in [1..MaxListOps -> ListOps \cup {None}]
    /\ \A i \in 1..MaxListOps : ops[i] # None => OpOK(ops[i])

\* While the dialog asks, the selection only shrinks.
AskedInv ==
    dialog.is = "asking" /\ dialog.do = "deleteSelected" => ListPage!Selected \subseteq dialog.keys

ListInv == CompInv /\ DeletedInv /\ DialogInv /\ OpsInv /\ AskedInv

\* What is seen of a list, and what the invariant says of it, does not change
\* with the rest.
LEMMA PrimedList ==
    ASSUME list \in Lists, list' = list
    PROVE  /\ ListPage!IsApps' <=> ListPage!IsApps
           /\ ListPage!Filtered(comp, data)' = ListPage!Filtered(comp', data')
<1>1. ListPage!IsApps' <=> ListPage!IsApps
  BY DEF ListPage!IsApps
<1>2. ListPage!Entries(data)' = ListPage!Entries(data')
  BY <1>1 DEF ListPage!Entries, ListPage!TransportEntries, ListPage!RouteEntries, ListPage!AppEntries,
     ListPage!IsApps
<1>3. ListPage!Filtered(comp, data)' = ListPage!Filtered(comp', data')
  BY <1>2 DEF ListPage!Filtered, ListPage!Flagged, ListPage!Elem
<1>. QED
  BY <1>1, <1>3

\* A next component that fits the next data has the invariant in the next state.
LEMMA CompPrimed ==
    ASSUME list \in Lists, list' = list, data' \in ListPage!State, CompOK(comp', data')
    PROVE  CompInv'
<1>1. (ListPage!IsApps' <=> ListPage!IsApps) /\ ListPage!Filtered(comp, data)' = ListPage!Filtered(comp', data')
  BY PrimedList
<1>2. CompOK(comp, data)'
  BY <1>1 DEF CompOK, ListPage!Elems
<1>. QED
  BY <1>2 DEF CompInv, ListPage!State, ListPage!Elems

\* So has a next dialog that may ask what it asks.
LEMMA DialogPrimed ==
    ASSUME list \in Lists, list' = list, dialog' \in Dialogs, DialogOK(dialog')
    PROVE  DialogInv'
<1>1. ListPage!IsApps' <=> ListPage!IsApps
  BY PrimedList
<1>. QED
  BY <1>1 DEF DialogInv, DialogOK, ListPage!Elems

\* So have next operations that work on what they may work on.
LEMMA OpsPrimed ==
    ASSUME list \in Lists, list' = list, ops' \in [1..MaxListOps -> ListOps \cup {None}],
           \A i \in 1..MaxListOps : ops'[i] # None => OpOK(ops'[i])
    PROVE  OpsInv'
<1>1. ListPage!IsApps' <=> ListPage!IsApps
  BY PrimedList
<1>. QED
  BY <1>1 DEF OpsInv, OpOK, ListPage!Elems

\* A change of what the list does not look at.
LEMMA CompKept ==
    ASSUME NEW c, NEW d, CompOK(c, d), NEW e \in Comps, e.shown = c.shown, e.filter = c.filter,
           e.sel \in [c.shown -> BOOLEAN]
    PROVE  CompOK(e, d)
<1>1. ListPage!Filtered(e, d) = ListPage!Filtered(c, d)
  BY DEF ListPage!Filtered
<1>. QED
  BY <1>1 DEF CompOK

\* The selected rows of a component.
Chosen(c) == {k \in DOMAIN c.sel : c.sel[k]}

\* recalculateElementsToShow
LEMMA RecalculateFacts ==
    ASSUME list \in Lists, NEW c \in Comps, NEW d \in ListPage!State
    PROVE  LET r == ListPage!Recalculate(c, d)
           IN  CompOK(r, d) /\ Chosen(r) \subseteq Chosen(c)
<1>. DEFINE T == ListPage!ToShow(c, d)
            s == ListPage!Selections(c, T)
            r == [c EXCEPT !.shown = T, !.sel = s]
<1>1. ListPage!Recalculate(c, d) = r
  BY DEF ListPage!Recalculate
<1>2. T \subseteq ListPage!Filtered(c, d) /\ ListPage!Filtered(c, d) \subseteq ListPage!Entries(d)
  BY DEF ListPage!ToShow, ListPage!Filtered
<1>3. T \subseteq ListPage!Rows /\ (ListPage!IsApps => T \subseteq ListPage!Elems)
  BY <1>2, EntryFacts
<1>4. ListPage!Filtered(c, d) # {} => T # {}
  BY SomeShown DEF Comps
<1>. HIDE DEF T
<1>5. s \in [T -> BOOLEAN] /\ \A k \in T : s[k] => k \in DOMAIN c.sel /\ c.sel[k]
  BY DEF ListPage!Selections
<1>6. s \in Sels
  BY <1>3, <1>5 DEF Sels
<1>. HIDE DEF s
<1>7. r \in Comps /\ r.shown = T /\ r.sel = s /\ r.filter = c.filter
  BY <1>3, <1>6 DEF Comps
<1>. HIDE DEF r
<1>8. ListPage!Filtered(r, d) = ListPage!Filtered(c, d)
  BY <1>7 DEF ListPage!Filtered
<1>9. CompOK(r, d)
  BY <1>3, <1>4, <1>5, <1>7, <1>8 DEF CompOK
<1>10. Chosen(r) \subseteq Chosen(c)
  BY <1>5, <1>7 DEF Chosen
<1>. QED
  BY <1>1, <1>9, <1>10

\* The constructors of a component.
LEMMA NewCompFacts ==
    ASSUME NEW f \in ListPage!Filters, NEW p \in 1..N, NEW by \in {"id", "flag"}, NEW b \in BOOLEAN
    PROVE  ListPage!NewComp(f, p, by, b) \in Comps
<1>. DEFINE s == [k \in {} |-> FALSE]
<1>1. s \in [{} -> BOOLEAN] /\ {} \in SUBSET ListPage!Rows
  OBVIOUS
<1>2. s \in Sels
  BY <1>1 DEF Sels
<1>. HIDE DEF s
<1>. QED
  BY <1>2 DEF ListPage!NewComp, Comps, s

\* The first state of a list.
LEMMA InitList == ListPage!Init => ListInv
<1>. SUFFICES ASSUME ListPage!Init
              PROVE  ListInv
  OBVIOUS
<1>1. list \in Lists /\ listed \in ListPage!State /\ data = listed
  <2>1. list \in Lists /\ listed \in FirstState[list] /\ data = listed
    BY DEF ListPage!Init
  <2>2. FirstState \in [Lists -> SUBSET ListPage!State]
    BY DialogsAssumption DEF DialogsAssumption
  <2>. QED
    BY <2>1, <2>2
<1>2. CompInv
  <2>. DEFINE c == ListPage!NewComp("none", 1, "id", FALSE)
  <2>1. c \in Comps
    <3>1. "none" \in ListPage!Filters /\ 1 \in 1..N /\ "id" \in {"id", "flag"} /\ FALSE \in BOOLEAN
      BY ListBounds DEF ListPage!Filters
    <3>. QED
      BY <3>1, NewCompFacts
  <2>2. comp = ListPage!Recalculate(c, listed)
    BY DEF ListPage!Init
  <2>. HIDE DEF c
  <2>. QED
    BY <1>1, <2>1, <2>2, RecalculateFacts DEF CompInv
<1>3. DeletedInv
  BY <1>1 DEF DeletedInv, ListPage!Init
<1>4. dialog = ListPage!NoDialog
  BY DEF ListPage!Init
<1>5. DialogInv /\ AskedInv
  BY <1>4 DEF DialogInv, DialogOK, AskedInv, Dialogs, Dos, ListPage!NoDialog
<1>6. OpsInv
  BY DEF OpsInv, ListPage!Init
<1>. QED
  BY <1>2, <1>3, <1>5, <1>6 DEF ListInv

\* The dialog and the operations are as they were, and so is the list.
LEMMA OthersKept ==
    /\ ListInv /\ UNCHANGED <<list, dialog>> => DialogInv'
    /\ ListInv /\ UNCHANGED <<list, ops>> => OpsInv'
    /\ ListInv /\ UNCHANGED <<list, data, comp>> => CompInv'
    /\ ListInv /\ UNCHANGED <<listed, asked, gone, timers>> => DeletedInv'
    /\ ListInv /\ UNCHANGED dialog /\ Chosen(comp') \subseteq Chosen(comp) => AskedInv'
    /\ dialog'.is # "asking" => AskedInv'
<1>1. ListInv /\ UNCHANGED <<list, dialog>> => DialogInv'
  BY DialogPrimed DEF ListInv, CompInv, DialogInv
<1>2. ListInv /\ UNCHANGED <<list, ops>> => OpsInv'
  BY OpsPrimed DEF ListInv, CompInv, OpsInv
<1>3. ListInv /\ UNCHANGED <<list, data, comp>> => CompInv'
  BY CompPrimed DEF ListInv, CompInv
<1>4. ListInv /\ UNCHANGED <<listed, asked, gone, timers>> => DeletedInv'
  BY DEF ListInv, DeletedInv, ListPage!State, ListPage!Elems
<1>5. ListInv /\ UNCHANGED dialog /\ Chosen(comp') \subseteq Chosen(comp) => AskedInv'
  BY DEF ListInv, AskedInv, Chosen, ListPage!Selected
<1>6. dialog'.is # "asking" => AskedInv'
  BY DEF AskedInv
<1>. QED
  BY <1>1, <1>2, <1>3, <1>4, <1>5, <1>6

\* Polls and timers.
LEMMA PollList ==
    ASSUME ListInv, ListPage!Ask \/ ListPage!Answer \/ (\E t \in {"soon", "later"} : ListPage!Timer(t))
    PROVE  ListInv'
<1>1. list \in Lists /\ data \in ListPage!State /\ CompOK(comp, data) /\ comp \in Comps
      /\ comp.sel \in [comp.shown -> BOOLEAN]
  BY DEF ListInv, CompInv, CompOK
<1>2. CASE ListPage!Ask
  <2>1. UNCHANGED <<list, listed, data, comp, dialog, ops, timers, gone>> /\ asked' = listed
    BY <1>2 DEF ListPage!Ask
  <2>2. DeletedInv'
    BY <2>1 DEF ListInv, DeletedInv, ListPage!State, ListPage!Elems
  <2>3. AskedInv'
    BY <2>1, OthersKept
  <2>. QED
    BY <2>1, <2>2, <2>3, OthersKept DEF ListInv
<1>3. CASE ListPage!Answer
  <2>. DEFINE r == ListPage!Recalculate(comp, asked)
              c == [r EXCEPT !.again = FALSE]
  <2>1. /\ asked # None /\ data' = asked /\ asked' = None /\ comp' = c
        /\ timers' \subseteq timers \cup {"later"}
        /\ UNCHANGED <<list, listed, dialog, ops, gone>>
    BY <1>3 DEF ListPage!Answer
  <2>2. asked \in ListPage!State
    BY <2>1 DEF ListInv, DeletedInv
  <2>3. CompOK(r, asked) /\ Chosen(r) \subseteq Chosen(comp)
    BY <1>1, <2>2, RecalculateFacts
  <2>. HIDE DEF r
  <2>4. c \in Comps /\ c.shown = r.shown /\ c.filter = r.filter /\ c.sel = r.sel
        /\ r.sel \in [r.shown -> BOOLEAN]
    BY <2>3 DEF CompOK, Comps
  <2>. HIDE DEF c
  <2>5. CompOK(c, asked)
    BY <2>3, <2>4, CompKept
  <2>6. CompInv'
    BY <1>1, <2>1, <2>2, <2>5, CompPrimed
  <2>7. DeletedInv'
    BY <2>1 DEF ListInv, DeletedInv, ListPage!State, ListPage!Elems
  <2>8. AskedInv'
    BY <2>1, <2>3, <2>4, OthersKept DEF Chosen
  <2>. QED
    BY <2>1, <2>6, <2>7, <2>8, OthersKept DEF ListInv
<1>4. ASSUME NEW t \in {"soon", "later"}, ListPage!Timer(t)
      PROVE  ListInv'
  <2>. DEFINE b == comp.again \/ t = "soon"
              c == [comp EXCEPT !.again = b]
  <2>1. /\ comp' = c /\ asked' = None /\ timers' \subseteq timers
        /\ UNCHANGED <<list, listed, data, dialog, ops, gone>>
    BY <1>1, <1>4 DEF ListPage!Timer, Comps
  <2>2. b \in BOOLEAN
    OBVIOUS
  <2>. HIDE DEF b
  <2>3. c \in Comps /\ c.shown = comp.shown /\ c.filter = comp.filter /\ c.sel = comp.sel
    BY <1>1, <2>2 DEF Comps
  <2>. HIDE DEF c
  <2>4. CompOK(c, data)
    BY <1>1, <2>3, CompKept
  <2>5. CompInv'
    BY <1>1, <2>1, <2>4, CompPrimed
  <2>6. DeletedInv'
    BY <2>1 DEF ListInv, DeletedInv, ListPage!State, ListPage!Elems
  <2>7. AskedInv'
    BY <2>1, <2>3, OthersKept DEF Chosen
  <2>. QED
    BY <2>1, <2>5, <2>6, <2>7, OthersKept DEF ListInv
<1>. QED
  BY <1>2, <1>3, <1>4

\* The visor changes by itself.
LEMMA ChangeList ==
    ASSUME ListInv, NEW e \in ListPage!Elems, ListPage!VisorChanges(e)
    PROVE  ListInv'
<1>1. UNCHANGED <<list, data, asked, comp, dialog, ops, timers>> /\ gone' = gone \ {e}
  BY DEF ListPage!VisorChanges
<1>2. listed \in ListPage!State
  BY DEF ListInv, DeletedInv
<1>3. listed' \in ListPage!State /\ listed'.exists \subseteq listed.exists \cup {e}
  <2>. DEFINE Flip(S) == IF e \in S THEN S \ {e} ELSE S \cup {e}
              v == [listed EXCEPT !.flag = Flip(listed.flag)]
              w == [listed EXCEPT !.exists = Flip(listed.exists)]
  <2>1. listed' \in {v, w}
    BY <1>2 DEF ListPage!VisorChanges, ListPage!State
  <2>2. \A S \in SUBSET ListPage!Elems : Flip(S) \in SUBSET ListPage!Elems /\ Flip(S) \subseteq S \cup {e}
    OBVIOUS
  <2>. HIDE DEF Flip
  <2>3. v \in ListPage!State /\ v.exists = listed.exists
    BY <1>2, <2>2 DEF ListPage!State
  <2>4. w \in ListPage!State /\ w.exists \subseteq listed.exists \cup {e}
    BY <1>2, <2>2 DEF ListPage!State
  <2>. QED
    BY <2>1, <2>3, <2>4
<1>4. DeletedInv'
  <2>1. listed'.exists \cap gone' = {} /\ gone' \subseteq ListPage!Elems
    BY <1>1, <1>3 DEF ListInv, DeletedInv
  <2>2. asked' # None => asked'.exists \cap gone' = {}
    BY <1>1 DEF ListInv, DeletedInv
  <2>. QED
    BY <1>1, <1>3, <2>1, <2>2 DEF ListInv, DeletedInv, ListPage!State, ListPage!Elems
<1>. QED
  BY <1>1, <1>4, OthersKept DEF ListInv

\* Selections, filters, pages and orders.
LEMMA ViewList ==
    ASSUME ListInv,
           \/ \E S \in SUBSET ListPage!Rows, b \in BOOLEAN : ListPage!ChangeSelections(S, b)
           \/ \E f \in ListPage!Filters, p \in 1..N : ListPage!Navigate(f, p)
           \/ \E o \in ListPage!SortOptions : ListPage!ChangeSorting(o)
    PROVE  ListInv'
<1>1. list \in Lists /\ data \in ListPage!State /\ CompOK(comp, data) /\ comp \in Comps
      /\ comp.sel \in [comp.shown -> BOOLEAN]
  BY DEF ListInv, CompInv, CompOK
<1>2. ASSUME NEW S \in SUBSET ListPage!Rows, NEW b \in BOOLEAN, ListPage!ChangeSelections(S, b)
      PROVE  ListInv'
  <2>. DEFINE s == [k \in DOMAIN comp.sel |-> IF k \in S THEN b ELSE comp.sel[k]]
              c == [comp EXCEPT !.sel = s]
  <2>1. /\ comp' = c /\ dialog = ListPage!NoDialog
        /\ UNCHANGED <<list, listed, data, asked, dialog, ops, timers, gone>>
    BY <1>1, <1>2 DEF ListPage!ChangeSelections, Comps
  <2>2. s \in [comp.shown -> BOOLEAN]
    BY <1>1
  <2>. HIDE DEF s
  <2>3. s \in Sels
    BY <1>1, <2>2 DEF Comps, Sels
  <2>4. c \in Comps /\ c.shown = comp.shown /\ c.filter = comp.filter /\ c.sel = s
    BY <1>1, <2>3 DEF Comps
  <2>. HIDE DEF c
  <2>5. CompOK(c, data)
    BY <1>1, <2>2, <2>4, CompKept
  <2>6. CompInv'
    BY <1>1, <2>1, <2>5, CompPrimed
  <2>7. dialog'.is # "asking"
    BY <2>1 DEF ListPage!NoDialog
  <2>. QED
    BY <2>1, <2>6, <2>7, OthersKept DEF ListInv
<1>3. ASSUME NEW f \in ListPage!Filters, NEW p \in 1..N, ListPage!Navigate(f, p)
      PROVE  ListInv'
  <2>. DEFINE c == ListPage!NewComp(f, p, comp.sortBy, comp.reverse)
  <2>1. /\ comp' = ListPage!Recalculate(c, data) /\ dialog' = ListPage!NoDialog
        /\ ops' = ListPage!Cancelled /\ timers' \subseteq {"later"}
        /\ UNCHANGED <<list, listed, data, asked, gone>>
    BY <1>3 DEF ListPage!Navigate
  <2>2. c \in Comps
    BY <1>1, NewCompFacts DEF Comps
  <2>. HIDE DEF c
  <2>3. CompOK(comp', data')
    BY <1>1, <2>1, <2>2, RecalculateFacts
  <2>4. CompInv'
    BY <1>1, <2>1, <2>3, CompPrimed
  <2>5. DialogInv' /\ AskedInv'
    <3>1. dialog' \in Dialogs /\ dialog'.do = "none" /\ dialog'.is = "closed"
      BY <2>1 DEF ListPage!NoDialog, Dialogs, Dos
    <3>2. DialogOK(dialog')
      BY <3>1 DEF DialogOK
    <3>. QED
      BY <1>1, <2>1, <3>1, <3>2, DialogPrimed, OthersKept
  <2>6. OpsInv'
    <3>1. ASSUME NEW i \in 1..MaxListOps, ops[i] # None
          PROVE  LET op == [ops[i] EXCEPT !.live = FALSE, !.mine = FALSE]
                 IN  op \in ListOps /\ OpOK(op)
      <4>1. ops[i] \in ListOps /\ OpOK(ops[i])
        BY <3>1 DEF ListInv, OpsInv
      <4>. QED
        BY <4>1 DEF ListOps, OpOK
    <3>2. \A i \in 1..MaxListOps : ops'[i] = IF ops[i] = None THEN None
                                             ELSE [ops[i] EXCEPT !.live = FALSE, !.mine = FALSE]
      BY <2>1 DEF ListPage!Cancelled
    <3>3. ops' = [i \in 1..MaxListOps |-> ops'[i]]
      BY <2>1 DEF ListPage!Cancelled
    <3>4. \A i \in 1..MaxListOps : ops'[i] \in ListOps \cup {None} /\ (ops'[i] # None => OpOK(ops'[i]))
      BY <3>1, <3>2
    <3>. QED
      BY <1>1, <2>1, <3>3, <3>4, OpsPrimed
  <2>7. DeletedInv'
    BY <2>1 DEF ListInv, DeletedInv, ListPage!State, ListPage!Elems
  <2>. QED
    BY <2>4, <2>5, <2>6, <2>7 DEF ListInv
<1>4. ASSUME NEW o \in ListPage!SortOptions, ListPage!ChangeSorting(o)
      PROVE  ListInv'
  <2>. DEFINE c == [comp EXCEPT !.sortBy = o.by, !.reverse = o.reverse]
  <2>1. /\ comp' = ListPage!Recalculate(c, data) /\ dialog = ListPage!NoDialog
        /\ UNCHANGED <<list, listed, data, asked, dialog, ops, timers, gone>>
    BY <1>4 DEF ListPage!ChangeSorting
  <2>2. c \in Comps
    BY <1>1 DEF Comps, ListPage!SortOptions
  <2>. HIDE DEF c
  <2>3. CompOK(comp', data')
    BY <1>1, <2>1, <2>2, RecalculateFacts
  <2>4. CompInv'
    BY <1>1, <2>1, <2>3, CompPrimed
  <2>5. dialog'.is # "asking"
    BY <2>1 DEF ListPage!NoDialog
  <2>. QED
    BY <2>1, <2>4, <2>5, OthersKept DEF ListInv
<1>. QED
  BY <1>2, <1>3, <1>4

\* The dialog asks about some rows.
LEMMA OpenFacts ==
    ASSUME ListInv, NEW do \in Dos, NEW S \in SUBSET ListPage!Rows, ListPage!OpenDialog(do, S),
           ListPage!IsApps => do \in {"on", "off"},
           do \in {"on", "off"} => ListPage!IsApps /\ S \subseteq ListPage!Elems,
           do = "deleteSelected" => ListPage!Selected \subseteq S
    PROVE  ListInv'
<1>1. /\ dialog' = [is |-> "asking", do |-> do, keys |-> S]
      /\ UNCHANGED <<list, listed, data, asked, comp, ops, timers, gone>>
  BY DEF ListPage!OpenDialog, ListPage!Asking
<1>2. dialog' \in Dialogs /\ dialog'.do = do /\ dialog'.keys = S
  BY <1>1 DEF Dialogs
<1>3. DialogOK(dialog')
  BY <1>1, <1>2 DEF DialogOK
<1>4. DialogInv'
  BY <1>1, <1>2, <1>3, DialogPrimed DEF ListInv, CompInv
<1>5. AskedInv'
  BY <1>1, <1>2 DEF AskedInv, ListPage!Selected
<1>. QED
  BY <1>1, <1>4, <1>5, OthersKept DEF ListInv

\* The dialogs that the user opens.
LEMMA OpenList ==
    ASSUME ListInv,
           \/ ListPage!DeleteSelectedTransports \/ ListPage!DeleteSelectedRoutes \/ ListPage!StopSelected
           \/ \E do \in {"persist", "forget"} : ListPage!ChangeIfPersistentOfSelected(do)
           \/ \E do \in {"on", "off"} : ListPage!ChangeAutostartOfSelected(do)
           \/ \E k \in ListPage!Rows, do \in {"persist", "forget", "delete", "on", "off"} :
                 ListPage!ChooseOption(k, do)
    PROVE  ListInv'
<1>1. /\ ListPage!Selected \subseteq comp.shown /\ comp.shown \subseteq ListPage!Rows
      /\ ListPage!IsApps => comp.shown \subseteq ListPage!Elems
  BY DEF ListInv, CompInv, CompOK, Comps, ListPage!Selected
<1>2. ASSUME ListPage!DeleteSelectedTransports \/ ListPage!DeleteSelectedRoutes
      PROVE  ListInv'
  <2>1. ListPage!OpenDialog("deleteSelected", ListPage!Selected) /\ ~ListPage!IsApps
    BY <1>2 DEF ListPage!DeleteSelectedTransports, ListPage!DeleteSelectedRoutes, ListPage!IsApps
  <2>2. ListPage!Selected \in SUBSET ListPage!Rows /\ "deleteSelected" \in Dos
        /\ "deleteSelected" \notin {"on", "off"}
    BY <1>1 DEF Dos
  <2>. QED
    BY <2>1, <2>2, OpenFacts
<1>3. ASSUME ListPage!StopSelected \/ \E do \in {"on", "off"} : ListPage!ChangeAutostartOfSelected(do)
      PROVE  ListInv'
  <2>1. PICK do \in {"on", "off"} : ListPage!OpenDialog(do, ListPage!AppsToChange(do)) /\ ListPage!IsApps
    BY <1>3 DEF ListPage!StopSelected, ListPage!ChangeAutostartOfSelected, ListPage!IsApps
  <2>2. ListPage!AppsToChange(do) \in SUBSET ListPage!Rows /\ ListPage!AppsToChange(do) \subseteq ListPage!Elems
    BY <1>1, <2>1 DEF ListPage!AppsToChange
  <2>3. do \in Dos /\ do # "deleteSelected"
    BY DEF Dos
  <2>. QED
    BY <2>1, <2>2, <2>3, OpenFacts
<1>4. ASSUME NEW do \in {"persist", "forget"}, ListPage!ChangeIfPersistentOfSelected(do)
      PROVE  ListInv'
  <2>1. ListPage!OpenDialog(do, ListPage!Selected) /\ ~ListPage!IsApps
    BY <1>4 DEF ListPage!ChangeIfPersistentOfSelected, ListPage!IsApps
  <2>2. ListPage!Selected \in SUBSET ListPage!Rows /\ do \in Dos /\ do \notin {"on", "off", "deleteSelected"}
    BY <1>1 DEF Dos
  <2>. QED
    BY <2>1, <2>2, OpenFacts
<1>5. ASSUME NEW k \in ListPage!Rows, NEW do \in {"persist", "forget", "delete", "on", "off"},
             ListPage!ChooseOption(k, do)
      PROVE  ListInv'
  <2>1. ListPage!OpenDialog(do, {k}) /\ k \in comp.shown /\ do \in ListPage!Options(k)
    BY <1>5 DEF ListPage!ChooseOption
  <2>2. do \in {"on", "off"} <=> ListPage!IsApps
    <3>1. Lists \subseteq {"transports", "routes", "apps", "autostart"} /\ list \in Lists
      BY DialogsAssumption DEF DialogsAssumption, ListInv, CompInv
    <3>2. CASE list = "transports"
      <4>1. ListPage!Options(k) = ListPage!TransportOptions(k)
        BY <3>2 DEF ListPage!Options
      <4>. QED
        BY <2>1, <3>2, <4>1 DEF ListPage!TransportOptions, ListPage!IsApps
    <3>3. CASE list = "routes"
      BY <2>1, <3>3 DEF ListPage!Options, ListPage!RouteOptions, ListPage!IsApps
    <3>4. CASE list = "apps"
      BY <2>1, <3>4 DEF ListPage!Options, ListPage!AppStateOptions, ListPage!IsApps
    <3>5. CASE list = "autostart"
      BY <2>1, <3>5 DEF ListPage!Options, ListPage!AutostartOptions, ListPage!IsApps
    <3>. QED
      BY <3>1, <3>2, <3>3, <3>4, <3>5
  <2>3. {k} \in SUBSET ListPage!Rows /\ do \in Dos /\ do # "deleteSelected"
    BY DEF Dos
  <2>4. do \in {"on", "off"} => {k} \subseteq ListPage!Elems
    BY <1>1, <2>1, <2>2
  <2>. QED
    BY <2>1, <2>2, <2>3, <2>4, OpenFacts
<1>. QED
  BY <1>2, <1>3, <1>4, <1>5

\* An operation begins.
LEMMA StartFacts ==
    ASSUME ListInv, list' = list,
           NEW do \in Dos, NEW S \in SUBSET ListPage!Rows, NEW k \in S \cup {0},
           NEW S0 \in SUBSET ListPage!Rows, NEW mine \in BOOLEAN,
           S \subseteq S0, ListPage!IsApps => do \in {"on", "off"},
           do \in {"on", "off"} => S \subseteq ListPage!Elems /\ k \in ListPage!Elems,
           ListPage!Start(ListPage!NewOp(do, S, k, S0, mine))
    PROVE  OpsInv'
<1>. DEFINE op == [do |-> do, todo |-> S, now |-> k, is |-> "sent", got |-> {}, did |-> {},
                   asked |-> S0, mine |-> mine, live |-> TRUE]
<1>1. op \in ListOps /\ OpOK(op)
  BY DEF ListOps, OpOK
<1>2. ops' = [ops EXCEPT ![started + 1] = op]
  BY DEF ListPage!Start, ListPage!NewOp
<1>. HIDE DEF op
<1>3. ops \in [1..MaxListOps -> ListOps \cup {None}] /\ \A i \in 1..MaxListOps : ops[i] # None => OpOK(ops[i])
  BY DEF ListInv, OpsInv
<1>4. /\ ops' \in [1..MaxListOps -> ListOps \cup {None}]
      /\ \A i \in 1..MaxListOps : ops'[i] = op \/ ops'[i] = ops[i]
  BY <1>1, <1>2, <1>3
<1>5. \A i \in 1..MaxListOps : ops'[i] # None => OpOK(ops'[i])
  BY <1>1, <1>3, <1>4
<1>. QED
  BY <1>4, <1>5, OpsPrimed DEF ListInv, CompInv

\* The dialog closes or processes.
LEMMA DialogMoves ==
    ASSUME ListInv, list' = list,
           dialog' = ListPage!NoDialog \/ \E is \in {"processing", "done"} : dialog' = [dialog EXCEPT !.is = is]
    PROVE  DialogInv' /\ AskedInv'
<1>1. dialog \in Dialogs /\ DialogOK(dialog) /\ list \in Lists
  BY DEF ListInv, DialogInv, CompInv
<1>2. CASE dialog' = ListPage!NoDialog
  <2>1. dialog' \in Dialogs /\ dialog'.do = "none" /\ dialog'.is = "closed"
    BY <1>2 DEF ListPage!NoDialog, Dialogs, Dos
  <2>2. DialogOK(dialog')
    BY <2>1 DEF DialogOK
  <2>. QED
    BY <1>1, <2>1, <2>2, DialogPrimed, OthersKept
<1>3. ASSUME NEW is \in {"processing", "done"}, dialog' = [dialog EXCEPT !.is = is]
      PROVE  DialogInv' /\ AskedInv'
  <2>1. dialog' \in Dialogs /\ dialog'.do = dialog.do /\ dialog'.is = is /\ dialog'.keys = dialog.keys
    BY <1>1, <1>3 DEF Dialogs
  <2>2. DialogOK(dialog')
    BY <1>1, <2>1 DEF DialogOK
  <2>. QED
    BY <1>1, <2>1, <2>2, DialogPrimed, OthersKept
<1>. QED
  BY <1>2, <1>3

\* The operations that the user accepts or starts.
LEMMA AcceptList ==
    ASSUME ListInv,
           \/ ListPage!AcceptVanished \/ ListPage!AcceptNothing \/ ListPage!Dismiss
           \/ \E k \in ListPage!Rows : \/ ListPage!Accept(k) \/ ListPage!StartApps({k}, k)
                                       \/ ListPage!StartApps(ListPage!AppsToChange("on"), k)
    PROVE  ListInv'
<1>1. /\ ListPage!Selected \subseteq comp.shown /\ comp.shown \subseteq ListPage!Rows
      /\ ListPage!IsApps => comp.shown \subseteq ListPage!Elems
  BY DEF ListInv, CompInv, CompOK, Comps, ListPage!Selected
<1>2. dialog \in Dialogs /\ DialogOK(dialog) /\ AskedInv
  BY DEF ListInv, DialogInv
<1>3. ListPage!ToDo \in SUBSET ListPage!Rows /\ dialog.keys \in SUBSET ListPage!Rows /\ dialog.do \in Dos
  BY <1>1, <1>2 DEF ListPage!ToDo, Dialogs
<1>4. dialog.do \in {"on", "off"} => ListPage!ToDo \subseteq ListPage!Elems
  BY <1>2 DEF DialogOK, ListPage!ToDo
<1>5. dialog.is = "asking" => ListPage!ToDo \subseteq dialog.keys
  BY <1>2 DEF AskedInv, ListPage!ToDo
<1>6. ASSUME NEW k \in ListPage!Rows, ListPage!Accept(k)
      PROVE  ListInv'
  <2>1. /\ dialog.is = "asking" /\ k \in ListPage!ToDo /\ dialog' = [dialog EXCEPT !.is = "processing"]
        /\ ListPage!Start(ListPage!NewOp(dialog.do, ListPage!ToDo, k, dialog.keys, TRUE))
        /\ UNCHANGED <<list, listed, data, asked, comp, timers, gone>>
    BY <1>6 DEF ListPage!Accept
  <2>2. ListPage!IsApps => dialog.do \in {"on", "off"}
    BY <1>2, <2>1 DEF DialogOK
  <2>3. OpsInv'
    <3>. DEFINE S == ListPage!ToDo
                S0 == dialog.keys
                do == dialog.do
    <3>1. /\ S \in SUBSET ListPage!Rows /\ S0 \in SUBSET ListPage!Rows /\ do \in Dos /\ S \subseteq S0
          /\ k \in S \cup {0} /\ (ListPage!IsApps => do \in {"on", "off"})
          /\ (do \in {"on", "off"} => S \subseteq ListPage!Elems /\ k \in ListPage!Elems)
      BY <1>3, <1>4, <1>5, <2>1, <2>2
    <3>2. ListPage!Start(ListPage!NewOp(do, S, k, S0, TRUE)) /\ list' = list
      BY <2>1
    <3>. HIDE DEF S, S0, do
    <3>. QED
      BY <3>1, <3>2, StartFacts
  <2>. QED
    BY <2>1, <2>3, DialogMoves, OthersKept DEF ListInv
<1>7. CASE ListPage!AcceptVanished
  <2>1. /\ dialog.is = "asking" /\ ~ListPage!IsApps /\ dialog' = [dialog EXCEPT !.is = "processing"]
        /\ \/ ListPage!Start(ListPage!NewOp(dialog.do, {}, 0, dialog.keys, TRUE))
           \/ UNCHANGED ops
        /\ UNCHANGED <<list, listed, data, asked, comp, timers, gone>>
    BY <1>7 DEF ListPage!AcceptVanished
  <2>2. dialog.do \notin {"on", "off"}
    BY <1>2, <2>1 DEF DialogOK
  <2>3. OpsInv'
    <3>1. CASE UNCHANGED ops
      BY <2>1, <3>1, OthersKept
    <3>2. CASE ListPage!Start(ListPage!NewOp(dialog.do, {}, 0, dialog.keys, TRUE))
      <4>. DEFINE S0 == dialog.keys
                  do == dialog.do
      <4>1. S0 \in SUBSET ListPage!Rows /\ do \in Dos /\ do \notin {"on", "off"} /\ ~ListPage!IsApps
        BY <1>3, <2>1, <2>2
      <4>2. ListPage!Start(ListPage!NewOp(do, {}, 0, S0, TRUE)) /\ list' = list
        BY <2>1, <3>2
      <4>. HIDE DEF S0, do
      <4>3. {} \in SUBSET ListPage!Rows /\ 0 \in {} \cup {0} /\ {} \subseteq S0 /\ TRUE \in BOOLEAN
        OBVIOUS
      <4>. QED
        BY <4>1, <4>2, <4>3, StartFacts
    <3>. QED
      BY <2>1, <3>1, <3>2
  <2>. QED
    BY <2>1, <2>3, DialogMoves, OthersKept DEF ListInv
<1>8. CASE ListPage!AcceptNothing
  <2>1. /\ dialog' = ListPage!NoDialog /\ timers' = timers \cup {"later"}
        /\ UNCHANGED <<list, listed, data, asked, comp, ops, gone>>
    BY <1>8 DEF ListPage!AcceptNothing, ListPage!NothingToChange
  <2>2. DeletedInv'
    BY <2>1 DEF ListInv, DeletedInv, ListPage!State, ListPage!Elems
  <2>. QED
    BY <2>1, <2>2, DialogMoves, OthersKept DEF ListInv
<1>9. CASE ListPage!Dismiss
  BY <1>9, DialogMoves, OthersKept DEF ListInv, ListPage!Dismiss
<1>10. ASSUME NEW k \in ListPage!Rows, NEW S, S \in {{k}, ListPage!AppsToChange("on")}, ListPage!StartApps(S, k)
       PROVE  ListInv'
  <2>1. /\ ListPage!IsApps /\ k \in S
        /\ S = ListPage!AppsToChange("on") \/ (S = {k} /\ k \in comp.shown)
        /\ ListPage!Start(ListPage!NewOp("on", S, k, S, FALSE))
        /\ UNCHANGED <<list, listed, data, asked, comp, dialog, timers, gone>>
    BY <1>10 DEF ListPage!StartApps, ListPage!IsApps
  <2>2. S \in SUBSET ListPage!Rows /\ S \subseteq ListPage!Elems /\ k \in S \cup {0} /\ k \in ListPage!Elems
    BY <1>1, <2>1 DEF ListPage!AppsToChange
  <2>3. "on" \in Dos /\ "on" \in {"on", "off"} /\ S \subseteq S /\ FALSE \in BOOLEAN
    BY DEF Dos
  <2>4. OpsInv'
    BY <2>1, <2>2, <2>3, StartFacts
  <2>5. AskedInv'
    BY <2>1, OthersKept
  <2>. QED
    BY <2>1, <2>4, <2>5, OthersKept DEF ListInv
<1>. QED
  BY <1>6, <1>7, <1>8, <1>9, <1>10

\* The visor executes a request.
LEMMA ExecutedFacts ==
    ASSUME ListInv, NEW i \in 1..MaxListOps, ops[i] # None, NEW is \in {"ok", "got", "failed"},
           NEW v \in ListPage!State, v.exists \subseteq listed.exists,
           ops[i].do \in {"on", "off"} => v.exists = listed.exists,
           ListPage!Executed(i, is, v)
    PROVE  ListInv'
<1>. DEFINE did == ops[i].did \cup (listed.exists \ v.exists)
            op == [ops[i] EXCEPT !.is = is, !.got = v.flag, !.did = did]
<1>1. /\ ops \in [1..MaxListOps -> ListOps \cup {None}] /\ \A j \in 1..MaxListOps : ops[j] # None => OpOK(ops[j])
      /\ ops[i] \in ListOps /\ OpOK(ops[i])
  BY DEF ListInv, OpsInv
<1>2. listed \in ListPage!State
  BY DEF ListInv, DeletedInv
<1>3. /\ listed' = v /\ UNCHANGED <<list, data, asked, comp, dialog, timers, gone>>
      /\ ops' = [ops EXCEPT ![i] = op]
  BY <1>1 DEF ListPage!Executed, ListOps
<1>4. did \in SUBSET ListPage!Elems /\ (ops[i].do \in {"on", "off"} => did = {}) /\ v.flag \in SUBSET ListPage!Elems
  BY <1>1, <1>2 DEF ListOps, OpOK, ListPage!State
<1>. HIDE DEF did
<1>5. /\ op \in ListOps /\ op.todo = ops[i].todo /\ op.asked = ops[i].asked /\ op.now = ops[i].now
      /\ op.do = ops[i].do /\ op.did = did
  BY <1>1, <1>4 DEF ListOps
<1>. HIDE DEF op
<1>6. OpOK(op)
  BY <1>1, <1>4, <1>5 DEF OpOK
<1>7. OpsInv'
  <2>1. /\ ops' \in [1..MaxListOps -> ListOps \cup {None}]
        /\ \A j \in 1..MaxListOps : ops'[j] = op \/ ops'[j] = ops[j]
    BY <1>1, <1>3, <1>5
  <2>2. \A j \in 1..MaxListOps : ops'[j] # None => OpOK(ops'[j])
    BY <1>1, <1>6, <2>1
  <2>. QED
    BY <1>3, <2>1, <2>2, OpsPrimed DEF ListInv, CompInv
<1>8. DeletedInv'
  BY <1>3 DEF ListInv, DeletedInv, ListPage!State, ListPage!Elems
<1>9. AskedInv'
  BY <1>3, OthersKept
<1>. QED
  BY <1>3, <1>7, <1>8, <1>9, OthersKept DEF ListInv

\* The visor executes the request of an operation.
LEMMA ExecuteList ==
    ASSUME ListInv, NEW i \in 1..MaxListOps, ListPage!Execute(i)
    PROVE  ListInv'
<1>1. listed \in ListPage!State
  BY DEF ListInv, DeletedInv
<1>2. ops[i] # None
  BY DEF ListPage!Execute, ListPage!ExecuteDelete, ListPage!ExecuteChange, ListPage!ExecuteGet,
     ListPage!ExecutePut, ListPage!ExecuteFails, ListPage!Sent
<1>3. ops[i] \in ListOps /\ OpOK(ops[i])
  BY <1>2 DEF ListInv, OpsInv
<1>4. CASE ListPage!ExecuteDelete(i)
  <2>. DEFINE v == [listed EXCEPT !.exists = listed.exists \ {ops[i].now}]
  <2>1. ListPage!Executed(i, "ok", v) /\ ops[i].do \in {"delete", "deleteSelected"}
    BY <1>1, <1>4 DEF ListPage!ExecuteDelete, ListPage!State
  <2>2. v \in ListPage!State /\ v.exists \subseteq listed.exists
    BY <1>1 DEF ListPage!State
  <2>3. ops[i].do \notin {"on", "off"}
    BY <2>1
  <2>. HIDE DEF v
  <2>. QED
    BY <1>2, <2>1, <2>2, <2>3, ExecutedFacts
<1>5. CASE ListPage!ExecuteChange(i)
  <2>. DEFINE fl == IF ops[i].do = "on" THEN listed.flag \cup {ops[i].now} ELSE listed.flag \ {ops[i].now}
              v == [listed EXCEPT !.flag = fl]
  <2>1. ListPage!Executed(i, "ok", v) /\ ops[i].do \in {"on", "off"}
    BY <1>1, <1>5 DEF ListPage!ExecuteChange, ListPage!State
  <2>2. fl \in SUBSET ListPage!Elems
    BY <1>1, <1>3, <2>1 DEF ListPage!State, OpOK
  <2>. HIDE DEF fl
  <2>3. v \in ListPage!State /\ v.exists = listed.exists
    BY <1>1, <2>2 DEF ListPage!State
  <2>. HIDE DEF v
  <2>. QED
    BY <1>2, <2>1, <2>3, ExecutedFacts
<1>6. CASE ListPage!ExecuteGet(i)
  BY <1>1, <1>2, <1>6, ExecutedFacts DEF ListPage!ExecuteGet
<1>7. CASE ListPage!ExecutePut(i)
  <2>. DEFINE fl == ListPage!PersistentList(ops[i])
              v == [listed EXCEPT !.flag = fl]
  <2>1. ListPage!Executed(i, "ok", v)
    BY <1>7 DEF ListPage!ExecutePut
  <2>2. fl \in SUBSET ListPage!Elems
    <3>1. \A k \in ListPage!Rows : ListPage!Elem(k) \in ListPage!Elems
      BY ListBounds DEF ListPage!Rows, ListPage!Elems, ListPage!Elem
    <3>2. ListPage!Elements(ops[i].todo) \in SUBSET ListPage!Elems
      BY <1>3, <3>1 DEF ListPage!Elements, ListOps
    <3>. QED
      BY <1>3, <3>2 DEF ListPage!PersistentList, ListOps
  <2>. HIDE DEF fl
  <2>3. v \in ListPage!State /\ v.exists = listed.exists
    BY <1>1, <2>2 DEF ListPage!State
  <2>. HIDE DEF v
  <2>. QED
    BY <1>2, <2>1, <2>3, ExecutedFacts
<1>8. CASE ListPage!ExecuteFails(i)
  BY <1>1, <1>2, <1>8, ExecutedFacts DEF ListPage!ExecuteFails
<1>. QED
  BY <1>4, <1>5, <1>6, <1>7, <1>8 DEF ListPage!Execute

\* One of the operations is as said.
LEMMA OpChanged ==
    ASSUME ListInv, list' = list, NEW i \in 1..MaxListOps, NEW op \in ListOps \cup {None},
           op # None => OpOK(op), ops' = [ops EXCEPT ![i] = op]
    PROVE  OpsInv'
<1>1. ops \in [1..MaxListOps -> ListOps \cup {None}] /\ \A j \in 1..MaxListOps : ops[j] # None => OpOK(ops[j])
  BY DEF ListInv, OpsInv
<1>2. /\ ops' \in [1..MaxListOps -> ListOps \cup {None}]
      /\ \A j \in 1..MaxListOps : ops'[j] = op \/ ops'[j] = ops[j]
  BY <1>1
<1>3. \A j \in 1..MaxListOps : ops'[j] # None => OpOK(ops'[j])
  BY <1>1, <1>2
<1>. QED
  BY <1>2, <1>3, OpsPrimed DEF ListInv, CompInv

\* startChangingAppState: the answer is put in an app that is on screen.
LEMMA ShowFacts ==
    ASSUME ListInv, UNCHANGED <<list, comp>>, NEW i, ListPage!ShowAnswer(i)
    PROVE  CompInv'
<1>1. list \in Lists /\ data \in ListPage!State /\ CompOK(comp, data)
  BY DEF ListInv, CompInv
<1>2. CASE data' = data
  BY <1>2, OthersKept
<1>3. CASE list = "apps" /\ ops[i].now \in comp.shown
  <2>. DEFINE fl == IF ops[i].do = "on" THEN data.flag \cup {ops[i].now} ELSE data.flag \ {ops[i].now}
              d == [data EXCEPT !.flag = fl]
  <2>1. data' = d
    BY <1>1, <1>3 DEF ListPage!ShowAnswer, ListPage!State
  <2>2. fl \in SUBSET ListPage!Elems
    BY <1>1, <1>3 DEF CompOK, ListPage!IsApps, ListPage!State
  <2>. HIDE DEF fl
  <2>3. d \in ListPage!State
    BY <1>1, <2>2 DEF ListPage!State
  <2>4. CompOK(comp, d)
    BY <1>1, <1>3 DEF CompOK
  <2>. QED
    BY <1>1, <2>1, <2>3, <2>4, CompPrimed
<1>. QED
  BY <1>2, <1>3 DEF ListPage!ShowAnswer

\* The answers of the requests.
LEMMA AnsweredList ==
    ASSUME ListInv, NEW i \in 1..MaxListOps, ListPage!Answered(i)
    PROVE  ListInv'
<1>1. ops[i] # None
  BY DEF ListPage!Answered, ListPage!Done, ListPage!Failed, ListPage!GotList, ListPage!Unheard,
     ListPage!NextElement, ListPage!Live
<1>2. ops[i] \in ListOps /\ OpOK(ops[i]) /\ list \in Lists
  BY <1>1 DEF ListInv, OpsInv, CompInv
<1>3. ASSUME NEW how \in {ListPage!NoDialog, [dialog EXCEPT !.is = "done"]}, ListPage!Finish(i, how),
             UNCHANGED <<list, comp>>
      PROVE  OpsInv' /\ DialogInv' /\ AskedInv'
  <2>1. ops' = [ops EXCEPT ![i] = None] /\ (dialog' = how \/ dialog' = dialog)
    BY <1>3 DEF ListPage!Finish
  <2>2. OpsInv'
    BY <1>3, <2>1, OpChanged
  <2>3. CASE dialog' = how
    BY <1>3, <2>2, <2>3, DialogMoves
  <2>4. CASE dialog' = dialog
    <3>1. Chosen(comp') \subseteq Chosen(comp)
      BY <1>3
    <3>. QED
      BY <1>3, <2>2, <2>4, <3>1, OthersKept
  <2>. QED
    BY <2>1, <2>3, <2>4
<1>4. ASSUME ListPage!RefreshCurrent \/ UNCHANGED <<asked, timers>>, UNCHANGED <<listed, gone>>
      PROVE  DeletedInv'
  <2>1. timers' \subseteq timers \cup {"soon"} /\ asked' \in {asked, None}
    BY <1>4 DEF ListPage!RefreshCurrent
  <2>. QED
    BY <1>4, <2>1 DEF ListInv, DeletedInv, ListPage!State, ListPage!Elems
<1>5. ASSUME NEW k \in ListPage!Rows, ListPage!NextElement(i, k)
      PROVE  ListInv'
  <2>. DEFINE left == ops[i].todo \ {ops[i].now}
              op == [ops[i] EXCEPT !.todo = left, !.now = k, !.is = "sent"]
  <2>1. /\ ops' = [ops EXCEPT ![i] = op] /\ k \in left /\ ListPage!ShowAnswer(i)
        /\ UNCHANGED <<list, listed, asked, comp, dialog, timers, gone>>
    BY <1>2, <1>5 DEF ListPage!NextElement, ListOps, ListInv, OpsInv
  <2>2. left \subseteq ops[i].todo
    OBVIOUS
  <2>. HIDE DEF left
  <2>3. op \in ListOps /\ op.todo = left /\ op.now = k /\ op.do = ops[i].do /\ op.asked = ops[i].asked
        /\ op.did = ops[i].did
    BY <1>2, <2>2 DEF ListOps
  <2>. HIDE DEF op
  <2>4. OpOK(op)
    BY <1>2, <2>1, <2>2, <2>3 DEF OpOK
  <2>5. OpsInv'
    BY <2>1, <2>3, <2>4, OpChanged
  <2>6. CompInv'
    BY <2>1, ShowFacts
  <2>7. AskedInv'
    BY <2>1, OthersKept
  <2>. QED
    BY <2>1, <2>5, <2>6, <2>7, OthersKept DEF ListInv
<1>6. CASE ListPage!Done(i)
  <2>1. /\ ListPage!Finish(i, ListPage!NoDialog) /\ ListPage!RefreshCurrent /\ ListPage!ShowAnswer(i)
        /\ gone' = gone \cup (ops[i].did \ listed.exists) /\ UNCHANGED <<list, listed, comp>>
    BY <1>6 DEF ListPage!Done
  <2>2. OpsInv' /\ DialogInv' /\ AskedInv'
    BY <1>3, <2>1
  <2>3. CompInv'
    BY <2>1, ShowFacts
  <2>4. timers' \subseteq timers \cup {"soon"} /\ asked' \in {asked, None}
        /\ (asked' = None \/ ListPage!IsApps)
    BY <2>1 DEF ListPage!RefreshCurrent
  <2>5. ListPage!IsApps => gone' = gone
    BY <1>2, <2>1 DEF OpOK
  <2>6. gone' \subseteq ListPage!Elems /\ listed.exists \cap gone' = {}
    BY <1>2, <2>1 DEF ListInv, DeletedInv, ListOps
  <2>7. DeletedInv'
    BY <2>1, <2>4, <2>5, <2>6 DEF ListInv, DeletedInv, ListPage!State, ListPage!Elems
  <2>. QED
    BY <2>2, <2>3, <2>7 DEF ListInv
<1>7. CASE ListPage!Failed(i)
  <2>1. /\ ListPage!Finish(i, [dialog EXCEPT !.is = "done"])
        /\ ListPage!RefreshCurrent \/ UNCHANGED <<asked, timers>>
        /\ UNCHANGED <<list, listed, data, comp, gone>>
    BY <1>7 DEF ListPage!Failed
  <2>. QED
    BY <1>3, <1>4, <2>1, OthersKept DEF ListInv
<1>8. CASE ListPage!GotList(i)
  <2>1. /\ \/ /\ ops' = [ops EXCEPT ![i].is = "put"]
              /\ UNCHANGED <<dialog, asked, timers>>
           \/ ListPage!Finish(i, ListPage!NoDialog) /\ ListPage!RefreshCurrent
        /\ UNCHANGED <<list, listed, data, comp, gone>>
    BY <1>8 DEF ListPage!GotList
  <2>2. CASE ops' = [ops EXCEPT ![i].is = "put"] /\ UNCHANGED <<dialog, asked, timers>>
    <3>. DEFINE op == [ops[i] EXCEPT !.is = "put"]
    <3>1. op \in ListOps /\ OpOK(op)
      BY <1>2 DEF ListOps, OpOK
    <3>2. ops' = [ops EXCEPT ![i] = op]
      BY <2>2 DEF ListInv, OpsInv
    <3>. HIDE DEF op
    <3>3. OpsInv'
      BY <2>1, <3>1, <3>2, OpChanged
    <3>4. AskedInv'
      BY <2>1, <2>2, OthersKept
    <3>. QED
      BY <2>1, <2>2, <3>3, <3>4, OthersKept DEF ListInv
  <2>3. CASE ListPage!Finish(i, ListPage!NoDialog) /\ ListPage!RefreshCurrent
    BY <1>3, <1>4, <2>1, <2>3, OthersKept DEF ListInv
  <2>. QED
    BY <2>1, <2>2, <2>3
<1>9. CASE ListPage!Unheard(i)
  <2>1. /\ ops' = [ops EXCEPT ![i] = None]
        /\ UNCHANGED <<list, listed, data, asked, comp, dialog, timers, gone>>
    BY <1>9 DEF ListPage!Unheard
  <2>2. OpsInv'
    BY <2>1, OpChanged
  <2>3. AskedInv'
    BY <2>1, OthersKept
  <2>. QED
    BY <2>1, <2>2, <2>3, OthersKept DEF ListInv
<1>. QED
  BY <1>5, <1>6, <1>7, <1>8, <1>9 DEF ListPage!Answered

\* What the user does, the polls, the visor and the answers keep the invariant.
LEMMA NextList == ListInv /\ ListPage!Next => ListInv'
<1>. SUFFICES ASSUME ListInv, ListPage!Next
              PROVE  ListInv'
  OBVIOUS
<1>1. CASE ListPage!User
  <2>1. CASE \/ \E k \in ListPage!Rows, b \in BOOLEAN : ListPage!ChangeSelections({k}, b)
             \/ \E b \in BOOLEAN : ListPage!ChangeSelections(ListPage!Rows, b)
    <3>1. \A k \in ListPage!Rows : {k} \in SUBSET ListPage!Rows
      OBVIOUS
    <3>2. \E S \in SUBSET ListPage!Rows, b \in BOOLEAN : ListPage!ChangeSelections(S, b)
      BY <2>1, <3>1
    <3>. QED
      BY <3>2, ViewList
  <2>2. CASE \/ \E f \in ListPage!Filters, p \in 1..N : ListPage!Navigate(f, p)
             \/ \E o \in ListPage!SortOptions : ListPage!ChangeSorting(o)
    BY <2>2, ViewList
  <2>3. CASE \/ ListPage!DeleteSelectedTransports \/ ListPage!DeleteSelectedRoutes \/ ListPage!StopSelected
             \/ \E do \in {"persist", "forget"} : ListPage!ChangeIfPersistentOfSelected(do)
             \/ \E do \in {"on", "off"} : ListPage!ChangeAutostartOfSelected(do)
             \/ \E k \in ListPage!Rows, do \in {"persist", "forget", "delete", "on", "off"} :
                   ListPage!ChooseOption(k, do)
    BY <2>3, OpenList
  <2>4. CASE \/ ListPage!AcceptVanished \/ ListPage!AcceptNothing \/ ListPage!Dismiss
             \/ \E k \in ListPage!Rows : \/ ListPage!Accept(k) \/ ListPage!StartApps({k}, k)
                                         \/ ListPage!StartApps(ListPage!AppsToChange("on"), k)
    BY <2>4, AcceptList
  <2>. QED
    BY <1>1, <2>1, <2>2, <2>3, <2>4 DEF ListPage!User
<1>2. CASE ListPage!Ask \/ ListPage!Answer \/ \E t \in {"soon", "later"} : ListPage!Timer(t)
  BY <1>2, PollList
<1>3. CASE \E e \in ListPage!Elems : ListPage!VisorChanges(e)
  BY <1>3, ChangeList
<1>4. CASE \E i \in 1..MaxListOps : ListPage!Execute(i) \/ ListPage!Answered(i)
  BY <1>4, ExecuteList, AnsweredList
<1>. QED
  BY <1>1, <1>2, <1>3, <1>4 DEF ListPage!Next

\* What the invariant says of the list.
LEMMA ListHolds ==
    ListInv => /\ ListPage!TypeOK /\ ListPage!SelectionIsShown /\ ListPage!NotBlank
               /\ ListPage!OnlyWhatWasAsked /\ ListPage!NoOldAnswer
<1>. SUFFICES ASSUME ListInv
              PROVE  /\ ListPage!TypeOK /\ ListPage!SelectionIsShown /\ ListPage!NotBlank
                     /\ ListPage!OnlyWhatWasAsked /\ ListPage!NoOldAnswer
  OBVIOUS
<1>1. CompInv /\ DeletedInv /\ DialogInv /\ OpsInv
  BY DEF ListInv
<1>2. ListPage!TypeOK
  <2>1. list \in Lists /\ data \in ListPage!State /\ comp \in Comps /\ comp.sel \in [comp.shown -> BOOLEAN]
    BY <1>1 DEF CompInv, CompOK
  <2>2. /\ comp.filter \in ListPage!Filters /\ comp.pageInUrl \in 1..N /\ comp.shown \subseteq ListPage!Rows
        /\ comp.sel \in [DOMAIN comp.sel -> BOOLEAN]
    BY <2>1 DEF Comps
  <2>3. \A i \in 1..MaxListOps : ops[i] # None =>
            /\ ops[i].is \in {"sent", "ok", "got", "put", "failed"}
            /\ ops[i].todo \subseteq ListPage!Rows /\ ops[i].now \in ops[i].todo \cup {0}
    BY <1>1 DEF OpsInv, OpOK, ListOps
  <2>4. dialog.is \in {"closed", "asking", "processing", "done"} /\ dialog.keys \subseteq ListPage!Rows
    BY <1>1 DEF DialogInv, Dialogs
  <2>. QED
    BY <1>1, <2>1, <2>2, <2>3, <2>4 DEF ListPage!TypeOK, DeletedInv
<1>3. ListPage!SelectionIsShown /\ ListPage!NotBlank
  BY <1>1 DEF CompInv, CompOK, ListPage!SelectionIsShown, ListPage!NotBlank
<1>4. ListPage!OnlyWhatWasAsked
  BY <1>1 DEF OpsInv, OpOK, ListPage!OnlyWhatWasAsked
<1>5. ListPage!NoOldAnswer
  BY <1>1 DEF DeletedInv, ListPage!NoOldAnswer
<1>. QED
  BY <1>2, <1>3, <1>4, <1>5

-----------------------------------------------------------------------------
(* Parts of sequences *)

\* How many of the numbers are not after i.
Rank(I, i) == Cardinality({j \in I : j <= i})

\* The ranks of some numbers are those up to how many they are, each once.
LEMMA RanksFacts ==
    ASSUME NEW I \in SUBSET Nat, IsFiniteSet(I)
    PROVE  /\ \A i \in I : Rank(I, i) \in 1..Cardinality(I)
           /\ \A i, j \in I : Rank(I, i) = Rank(I, j) => i = j
           /\ \A n \in 1..Cardinality(I) : \E i \in I : Rank(I, i) = n
<1>. DEFINE c == Cardinality(I)
            A(i) == {j \in I : j <= i}
            f == [i \in I |-> Rank(I, i)]
<1>1. c \in Nat
  BY FS_CardinalityType
<1>2. ASSUME NEW i \in I
      PROVE  Rank(I, i) = Cardinality(A(i)) /\ IsFiniteSet(A(i)) /\ Rank(I, i) \in 1..c
  <2>1. A(i) \subseteq I /\ i \in A(i)
    OBVIOUS
  <2>2. Rank(I, i) = Cardinality(A(i))
    BY DEF Rank
  <2>. HIDE DEF A
  <2>3. IsFiniteSet(A(i)) /\ Cardinality(A(i)) <= c
    BY <2>1, FS_Subset
  <2>4. Cardinality(A(i)) \in Nat /\ Cardinality(A(i)) # 0
    BY <2>1, <2>3, FS_CardinalityType, FS_EmptySet
  <2>. QED
    BY <1>1, <2>2, <2>3, <2>4
<1>3. ASSUME NEW i \in I, NEW j \in I, i < j
      PROVE  Rank(I, i) # Rank(I, j)
  <2>. i \in Nat /\ j \in Nat /\ \A x \in I : x \in Nat
    OBVIOUS
  <2>1. A(i) \subseteq A(j) /\ j \in A(j) /\ j \notin A(i)
    <3>1. \A x \in Nat : x <= i => x <= j
      BY <1>3
    <3>2. j <= j /\ ~(j <= i)
      BY <1>3
    <3>. QED
      BY <3>1, <3>2
  <2>2. IsFiniteSet(A(j)) /\ A(i) # A(j)
    BY <1>2, <2>1
  <2>3. Cardinality(A(i)) # Cardinality(A(j))
    <3>. HIDE DEF A
    <3>. QED
      BY <2>1, <2>2, FS_Subset
  <2>. QED
    BY <1>2, <2>3
<1>4. \A i, j \in I : Rank(I, i) = Rank(I, j) => i = j
  <2>. SUFFICES ASSUME NEW i \in I, NEW j \in I, i # j
                PROVE  Rank(I, i) # Rank(I, j)
    OBVIOUS
  <2>1. i < j \/ j < i
    OBVIOUS
  <2>. QED
    BY <1>3, <2>1
<1>5. ASSUME NEW n \in 1..c
      PROVE  \E i \in I : Rank(I, i) = n
  <2>1. f \in [I -> 1..c] /\ \A i, j \in I : f[i] = f[j] => i = j
    BY <1>2, <1>4
  <2>2. IsFiniteSet(1..c) /\ Cardinality(1..c) = c
    <3>1. IsFiniteSet(1..c) /\ Cardinality(1..c) = IF 1 > c THEN 0 ELSE c - 1 + 1
      BY <1>1, FS_Interval
    <3>. QED
      BY <1>1, <3>1
  <2>. HIDE DEF f
  <2>3. f \in Injection(I, 1..c)
    BY <2>1 DEF Injection, IsInjective
  <2>4. f \in Surjection(I, 1..c)
    BY <2>2, <2>3, FS_Injection
  <2>5. PICK i \in I : f[i] = n
    BY <2>4 DEF Surjection
  <2>. QED
    BY <2>5 DEF f
<1>. QED
  BY <1>2, <1>4, <1>5

\* The n-th least number: there is one, and each is one.
LEMMA NthFacts ==
    ASSUME NEW I \in SUBSET Nat, IsFiniteSet(I)
    PROVE  /\ \A n \in 1..Cardinality(I) : Nth(I, n) \in I
           /\ \A m, n \in 1..Cardinality(I) : Nth(I, m) = Nth(I, n) => m = n
           /\ \A i \in I : \E n \in 1..Cardinality(I) : Nth(I, n) = i
<1>1. \A n \in 1..Cardinality(I) : Nth(I, n) \in I /\ Rank(I, Nth(I, n)) = n
  <2>. SUFFICES ASSUME NEW n \in 1..Cardinality(I)
                PROVE  Nth(I, n) \in I /\ Rank(I, Nth(I, n)) = n
    OBVIOUS
  <2>1. \E i \in I : Rank(I, i) = n
    BY RanksFacts
  <2>. QED
    BY <2>1 DEF Nth, Rank
<1>2. \A i \in I : Rank(I, i) \in 1..Cardinality(I) /\ Nth(I, Rank(I, i)) = i
  <2>. SUFFICES ASSUME NEW i \in I
                PROVE  Rank(I, i) \in 1..Cardinality(I) /\ Nth(I, Rank(I, i)) = i
    OBVIOUS
  <2>1. Rank(I, i) \in 1..Cardinality(I)
    BY RanksFacts
  <2>2. Nth(I, Rank(I, i)) \in I /\ Rank(I, Nth(I, Rank(I, i))) = Rank(I, i)
    BY <1>1, <2>1
  <2>3. \A k, j \in I : Rank(I, k) = Rank(I, j) => k = j
    BY RanksFacts
  <2>4. Nth(I, Rank(I, i)) = i
    BY <2>2, <2>3
  <2>. QED
    BY <2>1, <2>4
<1>. QED
  BY <1>1, <1>2

\* What filter() returns: the elements at the positions that pass, each once.
LEMMA PickedFacts ==
    ASSUME NEW S, NEW s \in Seq(S), NEW I \in SUBSET DOMAIN s
    PROVE  /\ IsFiniteSet(I) /\ Cardinality(I) \in Nat /\ Cardinality(I) <= Len(s)
           /\ Picked(s, I) \in Seq(S) /\ Len(Picked(s, I)) = Cardinality(I)
           /\ DOMAIN Picked(s, I) = 1..Cardinality(I)
           /\ \A n \in 1..Cardinality(I) : Nth(I, n) \in I /\ Picked(s, I)[n] = s[Nth(I, n)]
           /\ \A m, n \in 1..Cardinality(I) : Nth(I, m) = Nth(I, n) => m = n
           /\ \A i \in I : \E n \in 1..Cardinality(I) : Nth(I, n) = i
<1>1. DOMAIN s = 1..Len(s) /\ Len(s) \in Nat
  OBVIOUS
<1>2. IsFiniteSet(1..Len(s)) /\ Cardinality(1..Len(s)) = Len(s)
  <2>1. IsFiniteSet(1..Len(s)) /\ Cardinality(1..Len(s)) = IF 1 > Len(s) THEN 0 ELSE Len(s) - 1 + 1
    BY <1>1, FS_Interval
  <2>. QED
    BY <1>1, <2>1
<1>3. I \subseteq 1..Len(s) /\ I \in SUBSET Nat
  BY <1>1
<1>4. IsFiniteSet(I) /\ Cardinality(I) <= Len(s)
  BY <1>2, <1>3, FS_Subset
<1>5. Cardinality(I) \in Nat
  BY <1>4, FS_CardinalityType
<1>. DEFINE c == Cardinality(I)
<1>. HIDE DEF c
<1>6. /\ \A n \in 1..c : Nth(I, n) \in I
      /\ \A m, n \in 1..c : Nth(I, m) = Nth(I, n) => m = n
      /\ \A i \in I : \E n \in 1..c : Nth(I, n) = i
  BY <1>3, <1>4, NthFacts DEF c
<1>7. Picked(s, I) = [n \in 1..c |-> s[Nth(I, n)]]
  BY DEF Picked, c
<1>8. Picked(s, I) \in [1..c -> S]
  BY <1>6, <1>7
<1>9. c \in Nat
  BY <1>5 DEF c
<1>10. Picked(s, I) \in Seq(S) /\ Len(Picked(s, I)) = c /\ DOMAIN Picked(s, I) = 1..c
  BY <1>8, <1>9
<1>. QED
  BY <1>4, <1>5, <1>6, <1>7, <1>10 DEF c

\* The windows pick with their own instances of the module.
LEMMA SamePicked ==
    /\ \A s, I : BulkWindow!Picked(s, I) = Picked(s, I)
    /\ \A s, I : ClientWindow!Picked(s, I) = Picked(s, I)
    /\ \A s, I : LogWindow!Picked(s, I) = Picked(s, I)
    /\ \A S : ClientWindow!Cardinality(S) = Cardinality(S)
<1>1. \A S : /\ BulkWindow!Cardinality(S) = Cardinality(S)
             /\ ClientWindow!Cardinality(S) = Cardinality(S)
             /\ LogWindow!Cardinality(S) = Cardinality(S)
  BY DEF BulkWindow!Cardinality, ClientWindow!Cardinality, LogWindow!Cardinality, Cardinality
<1>2. \A I, n : /\ BulkWindow!Nth(I, n) = Nth(I, n)
                /\ ClientWindow!Nth(I, n) = Nth(I, n)
                /\ LogWindow!Nth(I, n) = Nth(I, n)
  BY <1>1 DEF BulkWindow!Nth, ClientWindow!Nth, LogWindow!Nth, Nth
<1>. QED
  BY <1>1, <1>2 DEF BulkWindow!Picked, ClientWindow!Picked, LogWindow!Picked, Picked

-----------------------------------------------------------------------------
(* The windows with logs *)

LogRequests == [days : LogWindow!Days, got : Seq(Levels) \cup {None}]
Logs == [window : {"node", "app"}, open : BOOLEAN, loading : BOOLEAN, filtering : BOOLEAN,
         request : LogRequests \cup {None}, days : LogWindow!Days, min : Levels \cup {None},
         entries : Seq(Levels), shown : Seq(Levels), before : Seq(Levels), got : LogRequests,
         loads : 0..MaxLoads]
Writings == {w \in Seq(Levels) : Len(w) <= MaxWritten}

\* A request that was not cancelled has the present filter by date, and levels
\* are chosen only when nothing is being loaded.
Asks(l) ==
    /\ l.request # None => l.loading /\ l.request.days = l.days
    /\ l.filtering => ~l.loading /\ l.window = "node"

\* What the windows show, and that the window of an app is cleared when it asks
\* with another filter.
Shows(l) ==
    /\ l.window = "app" /\ l.loading => l.entries = <<>>
    /\ l.window = "app" /\ ~l.loading => l.got.days = l.days /\ l.entries = LogWindow!First(l.got.got)
    /\ l.window = "node" /\ ~l.loading => l.entries = l.before \o LogWindow!Last(l.got.got)
    /\ l.window = "node" /\ ~l.loading /\ l.min # None => l.shown = LogWindow!Filter(l)

\* How much the window of a visor has: an answer for each time it was asked.
Grows(l) ==
    l.window = "node" =>
        IF l.loading THEN Len(l.entries) <= MaxShown * l.loads
        ELSE Len(l.before) <= MaxShown * l.loads /\ Len(l.entries) <= MaxShown * (l.loads + 1)

LogInv(l, w) == l \in Logs /\ w \in Writings /\ Asks(l) /\ Shows(l) /\ Grows(l)

\* The bounds of the logs.
LEMMA LogBounds ==
    /\ MaxShown \in Nat \ {0} /\ MaxWritten \in Nat /\ MaxLoads \in Nat /\ Old \in Nat
    /\ 1 \in Levels /\ Levels \subseteq Nat
BY DialogsAssumption DEF DialogsAssumption

\* The parts of logs that are shown.
LEMMA LogParts ==
    ASSUME NEW s \in Seq(Levels)
    PROVE  /\ LogWindow!First(s) \in Seq(Levels) /\ LogWindow!Last(s) \in Seq(Levels)
           /\ SubSeq(s, Old + 1, Len(s)) \in Seq(Levels)
           /\ Len(LogWindow!Last(s)) <= MaxShown
<1>1. Len(s) \in Nat /\ LogWindow!Least(Len(s), MaxShown) \in 0..Len(s)
  BY LogBounds DEF LogWindow!Least
<1>0. \A i \in 1..Len(s) : s[i] \in Levels
  OBVIOUS
<1>2. LogWindow!First(s) \in Seq(Levels)
  BY <1>1, SubSeqProperties DEF LogWindow!First
<1>3. LogWindow!Last(s) \in Seq(Levels) /\ Len(LogWindow!Last(s)) <= MaxShown
  <2>. DEFINE k == LogWindow!Least(Len(s), MaxShown)
  <2>1. k \in Nat /\ k <= MaxShown /\ Len(s) - k + 1 \in 1..Len(s) + 1
    <3>1. k \in 0..Len(s) /\ Len(s) \in Nat /\ MaxShown \in Nat
      BY <1>1, LogBounds
    <3>2. k = MaxShown \/ (k = Len(s) /\ ~(MaxShown < Len(s)))
      BY <3>1 DEF LogWindow!Least
    <3>. HIDE DEF k
    <3>. QED
      BY <3>1, <3>2
  <2>2. LogWindow!Last(s) = SubSeq(s, Len(s) - k + 1, Len(s))
    BY DEF LogWindow!Last
  <2>. HIDE DEF k
  <2>3. LogWindow!Last(s) \in Seq(Levels)
    BY <1>1, <2>1, <2>2, SubSeqProperties
  <2>4. Len(LogWindow!Last(s)) = k
    BY <1>1, <2>1, <2>2, SubSeqProperties
  <2>. QED
    BY <2>1, <2>3, <2>4
<1>4. SubSeq(s, Old + 1, Len(s)) \in Seq(Levels)
  BY <1>1, LogBounds, SubSeqProperties
<1>. QED
  BY <1>2, <1>3, <1>4

\* What is left by a choice of a level is a part of the entries.
LEMMA FilterFacts ==
    ASSUME NEW l, l.entries \in Seq(Levels)
    PROVE  LogWindow!Filter(l) \in Seq(Levels)
<1>. DEFINE I == {i \in DOMAIN l.entries : l.entries[i] >= l.min}
<1>1. I \in SUBSET DOMAIN l.entries
  OBVIOUS
<1>2. LogWindow!Filter(l) = Picked(l.entries, I)
  BY SamePicked DEF LogWindow!Filter
<1>. HIDE DEF I
<1>. QED
  BY <1>1, <1>2, PickedFacts

\* A window that is opened loads the log.
LEMMA InitLogs == LogWindow!Init => LogInv(logs, written)
<1>. SUFFICES ASSUME LogWindow!Init
              PROVE  LogInv(logs, written)
  OBVIOUS
<1>1. PICK w \in {[window |-> "node", days |-> "all"], [window |-> "app", days |-> "recent"]} :
          logs = LogWindow!LoadData([window |-> w.window, open |-> TRUE, loading |-> TRUE,
                     filtering |-> FALSE, request |-> None, days |-> w.days, min |-> 1,
                     entries |-> <<>>, shown |-> <<>>, before |-> <<>>,
                     got |-> LogWindow!NewRequest(w.days), loads |-> 0])
  BY DEF LogWindow!Init
<1>2. logs = [window |-> w.window, open |-> TRUE, loading |-> TRUE,
              filtering |-> FALSE, request |-> [days |-> w.days, got |-> None], days |-> w.days, min |-> 1,
              entries |-> <<>>, shown |-> <<>>, before |-> <<>>,
              got |-> [days |-> w.days, got |-> None], loads |-> 0]
  BY <1>1 DEF LogWindow!LoadData, LogWindow!NewRequest
<1>3. w.window \in {"node", "app"} /\ w.days \in LogWindow!Days
  BY DEF LogWindow!Days
<1>4. [days |-> w.days, got |-> None] \in LogRequests
  BY <1>3 DEF LogRequests
<1>5. logs \in Logs
  BY <1>2, <1>3, <1>4, LogBounds DEF Logs
<1>6. Asks(logs) /\ Shows(logs)
  BY <1>2 DEF Asks, Shows
<1>8. Grows(logs)
  BY <1>2, LogBounds DEF Grows
<1>7. written \in Writings
  <2>1. PICK n \in 0..MaxWritten - 1 : written \in [1..n -> Levels]
    BY DEF LogWindow!Init
  <2>2. n \in Nat /\ written \in Seq(Levels) /\ Len(written) = n
    BY <2>1
  <2>. QED
    BY <2>1, <2>2, LogBounds DEF Writings
<1>. QED
  BY <1>5, <1>6, <1>7, <1>8 DEF LogInv

\* A request is sent by a window with nothing shown, or by that of a visor.
LEMMA LoadFacts ==
    ASSUME NEW l \in Logs, ~l.filtering, l.window = "app" => l.entries = <<>>
    PROVE  LET m == LogWindow!LoadData(l)
           IN  /\ m \in Logs /\ m.loads = l.loads /\ Asks(m) /\ Shows(m)
               /\ m.loading /\ m.entries = l.entries /\ m.window = l.window
<1>. DEFINE r == LogWindow!NewRequest(l.days)
            m == LogWindow!LoadData(l)
<1>1. r \in LogRequests /\ r.days = l.days
  BY DEF LogWindow!NewRequest, LogRequests, Logs
<1>2. m = [l EXCEPT !.loading = TRUE, !.request = r]
  BY DEF LogWindow!LoadData
<1>. HIDE DEF r
<1>3. m \in Logs /\ m.loads = l.loads /\ m.loading /\ m.request = r /\ m.days = l.days /\ ~m.filtering
      /\ m.window = l.window /\ m.entries = l.entries
  BY <1>1, <1>2 DEF Logs
<1>. HIDE DEF m
<1>4. Asks(m) /\ Shows(m)
  BY <1>1, <1>3 DEF Asks, Shows
<1>. QED
  BY <1>3, <1>4 DEF m

\* The requests, the answers, the filters and the log of the visor keep the
\* invariant.
LEMMA NextLogs == LogInv(logs, written) /\ LogWindow!Next => LogInv(logs', written')
<1>. SUFFICES ASSUME LogInv(logs, written), LogWindow!Next
              PROVE  LogInv(logs', written')
  OBVIOUS
<1>1. logs \in Logs /\ written \in Writings /\ Asks(logs) /\ Shows(logs) /\ Grows(logs)
  BY DEF LogInv
<1>2. CASE LogWindow!Write
  <2>1. PICK i \in Levels : written' = Append(written, i)
    BY <1>2 DEF LogWindow!Write
  <2>2. logs' = logs /\ Len(written) < MaxWritten
    BY <1>2 DEF LogWindow!Write
  <2>3. written \in Seq(Levels) /\ Len(written) \in Nat
    BY <1>1 DEF Writings
  <2>4. written' \in Writings
    BY <2>1, <2>2, <2>3, LogBounds DEF Writings
  <2>. QED
    BY <1>1, <2>2, <2>4 DEF LogInv
<1>3. CASE LogWindow!Answer
  <2>. DEFINE a == IF logs.request.days = "all" THEN written ELSE SubSeq(written, Old + 1, Len(written))
              r == [logs.request EXCEPT !.got = a]
  <2>1. logs.request # None /\ written' = written /\ logs' = [logs EXCEPT !.request = r]
    BY <1>3 DEF LogWindow!Answer, LogWindow!Pending
  <2>2. a \in Seq(Levels)
    BY <1>1, LogParts DEF Writings
  <2>. HIDE DEF a
  <2>3. logs.request \in LogRequests
    BY <1>1, <2>1 DEF Logs
  <2>4. r \in LogRequests /\ r.days = logs.request.days
    BY <2>2, <2>3 DEF LogRequests
  <2>. HIDE DEF r
  <2>5. logs' \in Logs /\ logs'.request = r /\ logs'.loading = logs.loading /\ logs'.days = logs.days
        /\ logs'.filtering = logs.filtering /\ logs'.window = logs.window /\ logs'.got = logs.got
        /\ logs'.entries = logs.entries /\ logs'.shown = logs.shown /\ logs'.min = logs.min
        /\ logs'.before = logs.before /\ logs'.loads = logs.loads
    BY <1>1, <2>1, <2>4 DEF Logs
  <2>6. Grows(logs')
    BY <1>1, <2>5 DEF Grows
  <2>. QED
    BY <1>1, <2>1, <2>4, <2>5, <2>6 DEF LogInv, Asks, Shows, LogWindow!Filter
<1>4. CASE LogWindow!NodeLogsReceived
  <2>. DEFINE t == LogWindow!Last(logs.request.got)
              l == [logs EXCEPT !.loading = FALSE, !.request = None, !.got = logs.request,
                                !.before = logs.entries, !.entries = @ \o t]
              s == IF l.min = None THEN <<>> ELSE LogWindow!Filter(l)
  <2>1. logs.request # None /\ logs.request.got # None /\ logs.window = "node" /\ written' = written
        /\ logs' = [l EXCEPT !.shown = s]
    BY <1>4 DEF LogWindow!NodeLogsReceived, LogWindow!Pending
  <2>2. logs.request \in LogRequests /\ logs.request.got \in Seq(Levels) /\ logs.entries \in Seq(Levels)
    BY <1>1, <2>1 DEF Logs, LogRequests
  <2>3. t \in Seq(Levels) /\ logs.entries \o t \in Seq(Levels) /\ Len(logs.entries \o t) <= MaxShown * (logs.loads + 1)
        /\ Len(logs.entries) <= MaxShown * logs.loads
    <3>1. t \in Seq(Levels) /\ Len(t) <= MaxShown
      BY <2>2, LogParts
    <3>. HIDE DEF t
    <3>2. logs.entries \o t \in Seq(Levels) /\ Len(logs.entries \o t) = Len(logs.entries) + Len(t)
      BY <2>2, <3>1, ConcatProperties
    <3>3. Len(logs.entries) \in Nat /\ Len(t) \in Nat /\ logs.loads \in Nat
      BY <1>1, <2>2, <3>1, LogBounds DEF Logs
    <3>4. Len(logs.entries) <= MaxShown * logs.loads
      BY <1>1, <2>1 DEF Grows, Asks
    <3>5. MaxShown * (logs.loads + 1) = MaxShown * logs.loads + MaxShown /\ MaxShown * logs.loads \in Nat
      BY <3>3, LogBounds
    <3>6. Len(logs.entries) + Len(t) <= MaxShown * (logs.loads + 1)
      BY <3>1, <3>3, <3>4, <3>5, LogBounds
    <3>. QED
      BY <3>1, <3>2, <3>4, <3>6
  <2>. HIDE DEF t
  <2>4. l \in Logs /\ ~l.loading /\ l.request = None /\ l.got = logs.request
        /\ l.entries = logs.entries \o t /\ l.window = "node" /\ l.min = logs.min
        /\ l.before = logs.entries /\ l.loads = logs.loads
    BY <1>1, <2>1, <2>2, <2>3 DEF Logs
  <2>. HIDE DEF l
  <2>5. s \in Seq(Levels)
    BY <2>4, FilterFacts DEF Logs
  <2>6. l.min # None => s = LogWindow!Filter(l)
    OBVIOUS
  <2>. HIDE DEF s
  <2>7. logs' \in Logs /\ ~logs'.loading /\ logs'.request = None /\ logs'.got = logs.request
        /\ logs'.entries = logs.entries \o t /\ logs'.window = "node" /\ logs'.min = l.min
        /\ logs'.shown = s /\ logs'.entries = l.entries
        /\ logs'.before = logs.entries /\ logs'.loads = logs.loads
    BY <2>1, <2>4, <2>5 DEF Logs
  <2>8. LogWindow!Last(logs'.got.got) = t
    BY <2>7 DEF t
  <2>9. logs'.entries = logs'.before \o LogWindow!Last(logs'.got.got)
    BY <2>7, <2>8
  <2>10. Shows(logs')
    BY <2>6, <2>7, <2>9 DEF Shows, LogWindow!Filter
  <2>11. Grows(logs')
    BY <2>3, <2>7 DEF Grows
  <2>. QED
    BY <1>1, <2>1, <2>7, <2>10, <2>11 DEF LogInv, Asks
<1>5. CASE LogWindow!AppLogsReceived
  <2>. DEFINE t == LogWindow!First(logs.request.got)
  <2>1. logs.request # None /\ logs.request.got # None /\ logs.window = "app" /\ written' = written
        /\ logs' = [logs EXCEPT !.loading = FALSE, !.request = None, !.got = logs.request,
                                !.entries = @ \o t]
    BY <1>5 DEF LogWindow!AppLogsReceived, LogWindow!Pending
  <2>2. logs.request \in LogRequests /\ logs.request.got \in Seq(Levels)
    BY <1>1, <2>1 DEF Logs, LogRequests
  <2>3. t \in Seq(Levels) /\ logs.entries = <<>> /\ logs.request.days = logs.days
    BY <1>1, <2>1, <2>2, LogParts DEF Asks, Shows
  <2>4. logs.entries \o t = t
    <3>. HIDE DEF t
    <3>. QED
      BY <2>3, ConcatEmptySeq
  <2>5. logs' \in Logs /\ ~logs'.loading /\ logs'.request = None /\ logs'.got = logs.request
        /\ logs'.entries = t /\ logs'.window = "app" /\ logs'.days = logs.days
        /\ logs'.filtering = logs.filtering
    <3>. HIDE DEF t
    <3>. QED
      BY <1>1, <2>1, <2>2, <2>3, <2>4 DEF Logs
  <2>6. Asks(logs')
    BY <1>1, <2>1, <2>5 DEF Asks
  <2>7. Shows(logs')
    <3>1. logs'.got.days = logs'.days /\ logs'.entries = LogWindow!First(logs'.got.got)
      BY <2>3, <2>5
    <3>. QED
      BY <2>5, <3>1 DEF Shows
  <2>8. Grows(logs')
    BY <2>5 DEF Grows
  <2>. QED
    BY <1>1, <2>1, <2>5, <2>6, <2>7, <2>8 DEF LogInv
<1>6. CASE LogWindow!OnLogsError
  <2>1. logs.request # None /\ written' = written /\ logs' = LogWindow!LoadData(logs)
    BY <1>6 DEF LogWindow!OnLogsError, LogWindow!Pending, LogWindow!Retry
  <2>2. ~logs.filtering /\ (logs.window = "app" => logs.entries = <<>>)
    BY <1>1, <2>1 DEF Asks, Shows
  <2>3. logs.loading
    BY <1>1, <2>1 DEF Asks
  <2>4. logs' \in Logs /\ Asks(logs') /\ Shows(logs') /\ logs'.loads = logs.loads
        /\ logs'.loading /\ logs'.entries = logs.entries /\ logs'.window = logs.window
    BY <1>1, <2>1, <2>2, LoadFacts
  <2>5. Grows(logs')
    BY <1>1, <2>3, <2>4 DEF Grows
  <2>. QED
    BY <1>1, <2>1, <2>4, <2>5 DEF LogInv
<1>7. CASE LogWindow!Refresh
  <2>. DEFINE m == LogWindow!LoadData(logs)
  <2>1. ~logs.filtering /\ logs.window = "node" /\ logs.loads < MaxLoads /\ written' = written
        /\ logs' = [m EXCEPT !.loads = @ + 1]
    BY <1>7 DEF LogWindow!Refresh
  <2>2. m \in Logs /\ m.loads = logs.loads /\ Asks(m) /\ Shows(m)
        /\ m.loading /\ m.entries = logs.entries
    BY <1>1, <2>1, LoadFacts
  <2>. HIDE DEF m
  <2>3. m.loads + 1 \in 0..MaxLoads
    BY <1>1, <2>1, <2>2, LogBounds DEF Logs
  <2>4. logs' \in Logs /\ logs'.request = m.request /\ logs'.loading = m.loading /\ logs'.days = m.days
        /\ logs'.filtering = m.filtering /\ logs'.window = m.window /\ logs'.got = m.got
        /\ logs'.entries = m.entries /\ logs'.shown = m.shown /\ logs'.min = m.min
        /\ logs'.before = m.before /\ logs'.loads = logs.loads + 1
    BY <2>1, <2>2, <2>3 DEF Logs
  <2>5. Len(logs.entries) <= MaxShown * (logs.loads + 1)
    <3>1. logs.loads \in Nat /\ Len(logs.entries) \in Nat
      BY <1>1, LogBounds DEF Logs
    <3>2. MaxShown * (logs.loads + 1) = MaxShown * logs.loads + MaxShown /\ MaxShown * logs.loads \in Nat
      BY <3>1, LogBounds
    <3>3. \/ Len(logs.entries) <= MaxShown * logs.loads
          \/ Len(logs.entries) <= MaxShown * (logs.loads + 1)
      BY <1>1, <2>1 DEF Grows
    <3>. QED
      BY <3>1, <3>2, <3>3, LogBounds
  <2>6. Grows(logs')
    BY <2>2, <2>4, <2>5 DEF Grows
  <2>. QED
    BY <1>1, <2>1, <2>2, <2>4, <2>6 DEF LogInv, Asks, Shows, LogWindow!Filter
<1>8. CASE LogWindow!ShowFilters \/ LogWindow!Close
  <2>1. PICK b \in BOOLEAN, o \in BOOLEAN :
            /\ logs' = [logs EXCEPT !.filtering = b, !.open = o] /\ written' = written
            /\ b => ~logs.loading /\ logs.window = "node"
    <3>1. CASE LogWindow!ShowFilters
      <4>1. logs' = [logs EXCEPT !.filtering = TRUE, !.open = logs.open]
        BY <1>1, <3>1 DEF LogWindow!ShowFilters, Logs
      <4>2. logs.open \in BOOLEAN
        BY <1>1 DEF Logs
      <4>. QED
        BY <3>1, <4>1, <4>2 DEF LogWindow!ShowFilters
    <3>2. CASE LogWindow!Close
      <4>1. logs' = [logs EXCEPT !.filtering = FALSE, !.open = FALSE]
        BY <1>1, <3>2 DEF LogWindow!Close, Logs
      <4>. QED
        BY <3>2, <4>1 DEF LogWindow!Close
    <3>. QED
      BY <1>8, <3>1, <3>2
  <2>2. logs' \in Logs /\ logs'.request = logs.request /\ logs'.loading = logs.loading /\ logs'.days = logs.days
        /\ logs'.filtering = b /\ logs'.window = logs.window /\ logs'.got = logs.got
        /\ logs'.entries = logs.entries /\ logs'.shown = logs.shown /\ logs'.min = logs.min
        /\ logs'.before = logs.before /\ logs'.loads = logs.loads
    BY <1>1, <2>1 DEF Logs
  <2>3. Grows(logs')
    BY <1>1, <2>2 DEF Grows
  <2>. QED
    BY <1>1, <2>1, <2>2, <2>3 DEF LogInv, Asks, Shows, LogWindow!Filter
<1>9. CASE LogWindow!FiltersDismissed \/ \E i \in Levels : LogWindow!LevelChosen(i)
  <2>1. PICK i \in Levels \cup {None}, s \in Seq(Levels) :
            /\ logs' = [logs EXCEPT !.filtering = FALSE, !.min = i, !.shown = s] /\ written' = written
            /\ i # None => s = LogWindow!Filter([logs EXCEPT !.min = i])
    <3>1. CASE LogWindow!FiltersDismissed
      <4>1. logs' = [logs EXCEPT !.filtering = FALSE, !.min = None, !.shown = <<>>] /\ written' = written
        BY <3>1 DEF LogWindow!FiltersDismissed
      <4>2. <<>> \in Seq(Levels) /\ None \in Levels \cup {None}
        OBVIOUS
      <4>3. \A i, s : i = None /\ s = <<>> =>
                logs' = [logs EXCEPT !.filtering = FALSE, !.min = i, !.shown = s]
        BY <4>1
      <4>. QED
        BY <4>1, <4>2, <4>3
    <3>2. ASSUME NEW i \in Levels, LogWindow!LevelChosen(i)
          PROVE  \E s \in Seq(Levels) :
                    /\ logs' = [logs EXCEPT !.filtering = FALSE, !.min = i, !.shown = s] /\ written' = written
                    /\ s = LogWindow!Filter([logs EXCEPT !.min = i])
      <4>1. [logs EXCEPT !.min = i].entries \in Seq(Levels)
        BY <1>1 DEF Logs
      <4>2. LogWindow!Filter([logs EXCEPT !.min = i]) \in Seq(Levels)
        BY <4>1, FilterFacts
      <4>. QED
        BY <3>2, <4>2 DEF LogWindow!LevelChosen
    <3>. QED
      BY <1>9, <3>1, <3>2
  <2>2. [logs EXCEPT !.min = i].entries = logs.entries /\ [logs EXCEPT !.min = i].min = i
    BY <1>1 DEF Logs
  <2>3. logs' \in Logs /\ logs'.request = logs.request /\ logs'.loading = logs.loading /\ logs'.days = logs.days
        /\ ~logs'.filtering /\ logs'.window = logs.window /\ logs'.got = logs.got
        /\ logs'.entries = logs.entries /\ logs'.shown = s /\ logs'.min = i
        /\ logs'.before = logs.before /\ logs'.loads = logs.loads
    BY <1>1, <2>1 DEF Logs
  <2>4. Grows(logs')
    BY <1>1, <2>3 DEF Grows
  <2>. QED
    BY <1>1, <2>1, <2>2, <2>3, <2>4 DEF LogInv, Asks, Shows, LogWindow!Filter
<1>10. ASSUME NEW d \in LogWindow!Days, LogWindow!ChangeDays(d)
       PROVE  LogInv(logs', written')
  <2>. DEFINE k == [logs EXCEPT !.entries = <<>>, !.days = d, !.loads = @ + 1]
  <2>1. logs.window = "app" /\ logs.loads < MaxLoads /\ written' = written
        /\ logs' = LogWindow!LoadData([[logs EXCEPT !.entries = <<>>] EXCEPT !.days = d, !.loads = @ + 1])
    BY <1>10 DEF LogWindow!ChangeDays, LogWindow!Cleared
  <2>2. [[logs EXCEPT !.entries = <<>>] EXCEPT !.days = d, !.loads = @ + 1] = k
    BY <1>1 DEF Logs
  <2>3. logs.loads + 1 \in 0..MaxLoads /\ ~logs.filtering
    BY <1>1, <2>1, LogBounds DEF Logs, Asks
  <2>4. k \in Logs /\ ~k.filtering /\ k.entries = <<>> /\ k.window = "app"
    <3>1. <<>> \in Seq(Levels)
      OBVIOUS
    <3>2. k \in Logs
      BY <1>1, <2>3, <3>1 DEF Logs
    <3>. QED
      BY <1>1, <2>1, <2>3, <3>2 DEF Logs
  <2>. HIDE DEF k
  <2>5. logs' = LogWindow!LoadData(k)
    BY <2>1, <2>2
  <2>6. logs' \in Logs /\ Asks(logs') /\ Shows(logs') /\ logs'.window = k.window
    BY <2>4, <2>5, LoadFacts
  <2>. QED
    BY <1>1, <2>1, <2>4, <2>6 DEF LogInv, Grows
<1>. QED
  BY <1>2, <1>3, <1>4, <1>5, <1>6, <1>7, <1>8, <1>9, <1>10 DEF LogWindow!Next, LogWindow!Received

\* What the invariant says of the windows.
LEMMA LogHolds ==
    LogInv(logs, written) => LogWindow!TypeOK /\ LogWindow!AppLogIsCurrent /\ LogWindow!NodeLogIsFiltered
<1>. SUFFICES ASSUME LogInv(logs, written)
              PROVE  LogWindow!TypeOK /\ LogWindow!AppLogIsCurrent /\ LogWindow!NodeLogIsFiltered
  OBVIOUS
<1>1. logs \in Logs /\ written \in Writings /\ Shows(logs) /\ Grows(logs)
  BY DEF LogInv
<1>2. LogWindow!TypeOK
  BY <1>1 DEF Logs, LogRequests, Writings, LogWindow!TypeOK
<1>3. LogWindow!AppLogIsCurrent
  BY <1>1 DEF Shows, LogWindow!AppLogIsCurrent
<1>4. LogWindow!NodeLogIsFiltered
  <2>1. SUFFICES ASSUME logs.window = "node", ~logs.loading, logs.min # None
                 PROVE  logs.shown = LogWindow!Picked(logs.entries, {i \in DOMAIN logs.entries : ~(logs.entries[i] < logs.min)})
    BY <1>1 DEF Shows, Grows, LogWindow!NodeLogIsFiltered
  <2>2. logs.shown = LogWindow!Picked(logs.entries, {i \in DOMAIN logs.entries : logs.entries[i] >= logs.min})
    BY <1>1, <2>1 DEF Shows, LogWindow!Filter
  <2>3. logs.min \in Nat /\ \A i \in DOMAIN logs.entries : logs.entries[i] \in Nat
    <3>1. logs.min \in Levels /\ logs.entries \in Seq(Levels)
      BY <1>1, <2>1 DEF Logs
    <3>2. \A i \in DOMAIN logs.entries : logs.entries[i] \in Levels
      BY <3>1
    <3>. QED
      BY <3>1, <3>2, LogBounds
  <2>4. {i \in DOMAIN logs.entries : logs.entries[i] >= logs.min}
            = {i \in DOMAIN logs.entries : ~(logs.entries[i] < logs.min)}
    BY <2>3
  <2>. QED
    BY <2>2, <2>4
<1>. QED
  BY <1>2, <1>3, <1>4

-----------------------------------------------------------------------------
(* The window with the settings of a client *)

Ops == ClientWindow!Operations
Sent == {op \in Ops : op.do # "remove"}
Distinct(h) == \A i, j \in DOMAIN h : h[i].key = h[j].key => i = j
Histories == {h \in Seq(ClientWindow!Entries) : Len(h) <= MaxHistory /\ Distinct(h)}
Clients == [open : BOOLEAN, working : BOOLEAN, loading : BOOLEAN, history : Histories,
            asking : Ops \cup {None}, request : Sent \cup {None}, answer : {"none", "ok"},
            pk : Keys \cup {""}, killswitch : BOOLEAN, filter : DOMAIN MatchingKeys,
            page : Nat \ {0}, ops : 0..MaxOps]
ClientApps == [server : Keys \cup {""}, killswitch : BOOLEAN]

\* A request makes the window busy, and an answer is to a request.
Works(c) ==
    /\ c.request # None => c.working
    /\ c.answer = "ok" => c.request \in Sent

\* The page of the discovered servers is the first one, or there is such a page.
InPages(c) == c.page = 1 \/ c.page <= ClientWindow!NumberOfPages(c)

ClientInv(c, h, a) == c \in Clients /\ a \in ClientApps /\ h = c.history /\ Works(c) /\ InPages(c)

\* The bounds of the window.
LEMMA ClientBounds ==
    /\ MaxHistory \in Nat \ {0} /\ PageSize \in Nat \ {0} /\ MaxOps \in Nat
    /\ "" \in Notes /\ "" \in DOMAIN MatchingKeys /\ Proxies \in Seq(Keys)
    /\ \A h \in FirstHistories : h \in Seq(ClientWindow!Entries) /\ ClientWindow!Valid(h)
BY DialogsAssumption DEF DialogsAssumption

\* One operation more of the user.
LEMMA OpCounted ==
    ASSUME NEW c \in Clients, c.ops < MaxOps
    PROVE  c.ops + 1 \in 0..MaxOps
<1>1. c.ops \in 0..MaxOps
  BY DEF Clients
<1>2. MaxOps \in Nat
  BY ClientBounds
<1>. QED
  BY <1>1, <1>2

\* A history has as many keys as entries if no two have the same.
LEMMA ValidFacts ==
    ASSUME NEW h \in Seq(ClientWindow!Entries)
    PROVE  ClientWindow!Valid(h) <=> h \in Histories
<1>. DEFINE K == ClientWindow!KeysOf(h)
            n == Len(h)
            f == [i \in 1..n |-> h[i].key]
<1>1. n \in Nat /\ DOMAIN h = 1..n
  OBVIOUS
<1>2. IsFiniteSet(1..n) /\ Cardinality(1..n) = n
  <2>1. IsFiniteSet(1..n) /\ Cardinality(1..n) = IF 1 > n THEN 0 ELSE n - 1 + 1
    BY <1>1, FS_Interval
  <2>. QED
    BY <1>1, <2>1
<1>3. K = {h[i].key : i \in 1..n}
  BY <1>1 DEF ClientWindow!KeysOf
<1>4. f \in Surjection(1..n, K)
  BY <1>3 DEF Surjection
<1>5. (\A i, j \in 1..n : f[i] = f[j] => i = j) <=> Distinct(h)
  BY <1>1 DEF Distinct
<1>6. Cardinality(K) = Cardinality(1..n) <=> f \in Injection(1..n, K)
  <2>. HIDE DEF f, K, n
  <2>. QED
    BY <1>2, <1>4, FS_Surjection
<1>7. f \in Injection(1..n, K) <=> (\A i, j \in 1..n : f[i] = f[j] => i = j)
  <2>1. f \in [1..n -> K]
    BY <1>4 DEF Surjection
  <2>. HIDE DEF f, K, n
  <2>. QED
    BY <2>1 DEF Injection, IsInjective
<1>. QED
  BY <1>2, <1>5, <1>6, <1>7, SamePicked DEF Histories, ClientWindow!Valid

\* The removal of a server takes its entry and no other one.
LEMMA WithoutFacts ==
    ASSUME NEW h \in Histories, NEW k
    PROVE  LET w == ClientWindow!Without(h, k)
           IN  /\ w \in Histories /\ Len(w) <= Len(h) /\ k \notin ClientWindow!KeysOf(w)
               /\ \A x \in ClientWindow!KeysOf(h) : x # k => x \in ClientWindow!KeysOf(w)
<1>. DEFINE I == {i \in DOMAIN h : h[i].key # k}
            w == Picked(h, I)
            c == Cardinality(I)
<1>0. MaxHistory \in Nat
  BY ClientBounds
<1>1. ClientWindow!Without(h, k) = w
  BY SamePicked DEF ClientWindow!Without
<1>2. h \in Seq(ClientWindow!Entries) /\ I \in SUBSET DOMAIN h /\ Len(h) \in Nat /\ Len(h) <= MaxHistory
      /\ \A i, j \in DOMAIN h : h[i].key = h[j].key => i = j
  BY DEF Histories, Distinct
<1>3. \A i \in DOMAIN h : i \in I <=> h[i].key # k
  OBVIOUS
<1>. HIDE DEF I
<1>4. /\ c \in Nat /\ c <= Len(h) /\ w \in Seq(ClientWindow!Entries) /\ Len(w) = c /\ DOMAIN w = 1..c
      /\ \A n \in 1..c : Nth(I, n) \in I /\ w[n] = h[Nth(I, n)]
      /\ \A m, n \in 1..c : Nth(I, m) = Nth(I, n) => m = n
      /\ \A i \in I : \E n \in 1..c : Nth(I, n) = i
  BY <1>2, PickedFacts
<1>. HIDE DEF w, c
<1>5. Distinct(w)
  BY <1>2, <1>4 DEF Distinct
<1>6. w \in Histories
  <2>1. Len(w) <= MaxHistory
    BY <1>0, <1>2, <1>4
  <2>. QED
    BY <1>4, <1>5, <2>1 DEF Histories
<1>7. k \notin ClientWindow!KeysOf(w)
  BY <1>2, <1>3, <1>4 DEF ClientWindow!KeysOf
<1>8. ASSUME NEW x \in ClientWindow!KeysOf(h), x # k
      PROVE  x \in ClientWindow!KeysOf(w)
  <2>1. PICK i \in DOMAIN h : h[i].key = x
    BY DEF ClientWindow!KeysOf
  <2>2. i \in I
    BY <1>3, <1>8, <2>1
  <2>3. PICK n \in 1..c : Nth(I, n) = i
    BY <1>4, <2>2
  <2>4. n \in DOMAIN w /\ w[n].key = x
    BY <1>4, <2>1, <2>3
  <2>. QED
    BY <2>4 DEF ClientWindow!KeysOf
<1>. QED
  BY <1>1, <1>4, <1>6, <1>7, <1>8

\* A note is changed where it is.
LEMMA NoteFacts ==
    ASSUME NEW h \in Histories, NEW k, NEW n \in Notes
    PROVE  LET w == ClientWindow!WithNote(h, k, n)
           IN  w \in Histories /\ ClientWindow!KeysOf(w) = ClientWindow!KeysOf(h)
<1>. DEFINE w == ClientWindow!WithNote(h, k, n)
<1>1. h \in Seq(ClientWindow!Entries) /\ Len(h) \in Nat /\ Len(h) <= MaxHistory
      /\ DOMAIN h = 1..Len(h) /\ \A i, j \in DOMAIN h : h[i].key = h[j].key => i = j
  BY DEF Histories, Distinct
<1>2. ASSUME NEW i \in DOMAIN h
      PROVE  w[i] \in ClientWindow!Entries /\ w[i].key = h[i].key
  <2>1. h[i] \in ClientWindow!Entries
    BY <1>1
  <2>2. w[i] = IF h[i].key = k THEN [h[i] EXCEPT !.note = n] ELSE h[i]
    BY DEF ClientWindow!WithNote
  <2>. QED
    BY <2>1, <2>2 DEF ClientWindow!Entries
<1>3. DOMAIN w = 1..Len(h) /\ w = [i \in 1..Len(h) |-> w[i]]
  BY <1>1 DEF ClientWindow!WithNote
<1>. HIDE DEF w
<1>4. w \in Seq(ClientWindow!Entries) /\ Len(w) = Len(h)
  <2>1. w \in [1..Len(h) -> ClientWindow!Entries]
    BY <1>1, <1>2, <1>3
  <2>. QED
    BY <1>1, <2>1
<1>5. Distinct(w)
  BY <1>1, <1>2, <1>3 DEF Distinct
<1>6. ClientWindow!KeysOf(w) = ClientWindow!KeysOf(h)
  BY <1>1, <1>2, <1>3 DEF ClientWindow!KeysOf
<1>. QED
  BY <1>1, <1>4, <1>5, <1>6 DEF Histories, w

\* A server that was set is put first; another one goes only if there were as
\* many as there may be.
LEMMA AddedFacts ==
    ASSUME NEW h \in Histories, NEW e \in ClientWindow!Entries
    PROVE  LET w == ClientWindow!Added(h, e)
           IN  /\ w \in Histories
               /\ \/ ClientWindow!KeysOf(h) \subseteq ClientWindow!KeysOf(w)
                  \/ Len(h) = MaxHistory /\ Len(w) = MaxHistory
<1>. DEFINE v == ClientWindow!Without(h, e.key)
            all == <<e>> \o v
            m == IF Len(all) > MaxHistory THEN MaxHistory ELSE Len(all)
            w == SubSeq(all, 1, m)
<1>0. MaxHistory \in Nat \ {0}
  BY ClientBounds
<1>1. ClientWindow!Added(h, e) = w
  BY DEF ClientWindow!Added
<1>2. /\ v \in Histories /\ Len(v) <= Len(h) /\ e.key \notin ClientWindow!KeysOf(v)
      /\ \A x \in ClientWindow!KeysOf(h) : x # e.key => x \in ClientWindow!KeysOf(v)
  BY WithoutFacts
<1>. HIDE DEF v
<1>3. /\ v \in Seq(ClientWindow!Entries) /\ Len(v) \in Nat /\ Len(v) <= MaxHistory /\ DOMAIN v = 1..Len(v)
      /\ \A i, j \in DOMAIN v : v[i].key = v[j].key => i = j
      /\ \A i \in DOMAIN v : v[i].key # e.key
      /\ Len(h) \in Nat /\ Len(h) <= MaxHistory
  BY <1>2 DEF Histories, Distinct, ClientWindow!KeysOf
<1>4. /\ all \in Seq(ClientWindow!Entries) /\ Len(all) = Len(v) + 1 /\ DOMAIN all = 1..Len(v) + 1
      /\ all[1] = e /\ \A i \in 1..Len(v) : all[i + 1] = v[i]
  <2>1. <<e>> \in Seq(ClientWindow!Entries) /\ Len(<<e>>) = 1 /\ <<e>>[1] = e
    OBVIOUS
  <2>. QED
    BY <1>3, <2>1, ConcatProperties
<1>. HIDE DEF all
<1>5. ASSUME NEW i \in 1..Len(v) + 1, NEW j \in 1..Len(v) + 1, all[i].key = all[j].key
      PROVE  i = j
  <2>1. \A k \in 1..Len(v) + 1 : k = 1 \/ (k - 1 \in DOMAIN v /\ all[k] = v[k - 1])
    <3>. SUFFICES ASSUME NEW k \in 1..Len(v) + 1, k # 1
                  PROVE  k - 1 \in DOMAIN v /\ all[k] = v[k - 1]
      OBVIOUS
    <3>1. k - 1 \in 1..Len(v) /\ (k - 1) + 1 = k
      BY <1>3
    <3>2. all[(k - 1) + 1] = v[k - 1]
      BY <1>4, <3>1
    <3>. QED
      BY <1>3, <3>1, <3>2
  <2>2. CASE i = 1 \/ j = 1
    <3>1. \A k \in 1..Len(v) + 1 : k # 1 => all[k].key # e.key
      BY <1>3, <2>1
    <3>2. all[1].key = e.key
      BY <1>4
    <3>3. ~(i = 1 /\ j # 1) /\ ~(j = 1 /\ i # 1)
      BY <1>5, <3>1, <3>2
    <3>. QED
      BY <2>2, <3>3
  <2>3. CASE i # 1 /\ j # 1
    <3>1. i - 1 \in DOMAIN v /\ j - 1 \in DOMAIN v /\ v[i - 1].key = v[j - 1].key
      BY <1>5, <2>1, <2>3
    <3>2. i - 1 = j - 1
      BY <1>3, <3>1
    <3>. QED
      BY <1>3, <3>2
  <2>. QED
    BY <2>2, <2>3
<1>6. m \in Nat /\ m <= Len(all) /\ m <= MaxHistory /\ m <= Len(v) + 1
  BY <1>0, <1>3, <1>4
<1>. HIDE DEF m
<1>7. w \in Seq(ClientWindow!Entries) /\ Len(w) = m /\ DOMAIN w = 1..m /\ \A i \in 1..m : w[i] = all[i]
  <2>1. \A i \in 1..m : all[i] \in ClientWindow!Entries
    BY <1>4, <1>6
  <2>2. /\ w \in Seq(ClientWindow!Entries) /\ Len(w) = IF 1 <= m THEN m - 1 + 1 ELSE 0
        /\ \A i \in 1..m - 1 + 1 : w[i] = all[1 + i - 1]
    BY <1>6, <2>1, SubSeqProperties
  <2>3. Len(w) = m /\ m - 1 + 1 = m /\ \A i \in 1..m : 1 + i - 1 = i
    BY <1>6, <2>2
  <2>. QED
    BY <1>6, <2>2, <2>3
<1>. HIDE DEF w
<1>8. Distinct(w)
  BY <1>4, <1>5, <1>6, <1>7 DEF Distinct
<1>9. w \in Histories
  BY <1>6, <1>7, <1>8 DEF Histories
<1>10. CASE Len(all) <= MaxHistory
  <2>1. m = Len(v) + 1
    BY <1>0, <1>3, <1>4, <1>10 DEF m
  <2>2. ASSUME NEW x \in ClientWindow!KeysOf(h)
        PROVE  x \in ClientWindow!KeysOf(w)
    <3>1. CASE x = e.key
      <4>1. 1 \in DOMAIN w /\ w[1].key = x
        BY <1>3, <1>4, <1>7, <2>1, <3>1
      <4>. QED
        BY <4>1 DEF ClientWindow!KeysOf
    <3>2. CASE x # e.key
      <4>1. PICK i \in DOMAIN v : v[i].key = x
        BY <1>2, <3>2 DEF ClientWindow!KeysOf
      <4>2. i + 1 \in DOMAIN w /\ w[i + 1].key = x
        BY <1>3, <1>4, <1>7, <2>1, <4>1
      <4>. QED
        BY <4>2 DEF ClientWindow!KeysOf
    <3>. QED
      BY <3>1, <3>2
  <2>. QED
    BY <1>1, <1>9, <2>2
<1>11. CASE ~(Len(all) <= MaxHistory)
  <2>1. m = MaxHistory /\ Len(h) = MaxHistory
    BY <1>0, <1>2, <1>3, <1>4, <1>11 DEF m
  <2>. QED
    BY <1>1, <1>7, <1>9, <2>1
<1>. QED
  BY <1>10, <1>11

\* The pages of the discovered servers depend only on the filter.
LEMMA SamePages ==
    ASSUME NEW c, NEW d, InPages(c), d.filter = c.filter, d.page = c.page
    PROVE  InPages(d)
BY DEF InPages, ClientWindow!NumberOfPages, ClientWindow!FilteredProxies

\* The page that is shown has some server, if one passes the filter.
LEMMA PageFacts ==
    ASSUME NEW c \in Clients
    PROVE  /\ ClientWindow!NumberOfPages(c) \in Nat
           /\ \A i \in DOMAIN ClientWindow!ProxiesToShow(c) : ClientWindow!ProxiesToShow(c)[i] \in Keys
           /\ InPages(c) /\ ClientWindow!FilteredProxies(c) # <<>> => ClientWindow!ProxiesToShow(c) # <<>>
<1>. DEFINE F == ClientWindow!FilteredProxies(c)
            n == Len(F)
            p == c.page
            last == p * PageSize
            m == last - PageSize + 1
            u == IF last < n THEN last ELSE n
            pages == (n + PageSize - 1) \div PageSize
<1>0. PageSize \in Nat \ {0} /\ Proxies \in Seq(Keys)
  BY ClientBounds
<1>1. F \in Seq(Keys)
  <2>. DEFINE I == {i \in DOMAIN Proxies : Proxies[i] \in MatchingKeys[c.filter]}
  <2>1. F = Picked(Proxies, I)
    BY SamePicked DEF ClientWindow!FilteredProxies
  <2>2. I \in SUBSET DOMAIN Proxies
    OBVIOUS
  <2>. HIDE DEF I, F
  <2>. QED
    BY <1>0, <2>1, <2>2, PickedFacts
<1>2. ClientWindow!NumberOfPages(c) = pages
  BY DEF ClientWindow!NumberOfPages
<1>3. ClientWindow!ProxiesToShow(c) = SubSeq(F, m, u)
  BY DEF ClientWindow!ProxiesToShow
<1>4. p \in Nat \ {0}
  BY DEF Clients
<1>. HIDE DEF F, p
<1>5. n \in Nat /\ DOMAIN F = 1..n /\ \A i \in 1..n : F[i] \in Keys
  BY <1>1
<1>. HIDE DEF n
<1>6. pages \in Nat
  <2>1. n + PageSize - 1 \in Nat
    BY <1>0, <1>5
  <2>. QED
    BY <1>0, <2>1, Quotient
<1>7. last \in Nat /\ last = (p - 1) * PageSize + PageSize /\ (p - 1) * PageSize \in Nat
  BY <1>0, <1>4
<1>. HIDE DEF last
<1>8. m = (p - 1) * PageSize + 1 /\ m \in Nat \ {0} /\ m <= last
  BY <1>0, <1>7
<1>9. u \in Nat /\ u <= n /\ (m <= n => m <= u)
  BY <1>5, <1>7, <1>8
<1>. HIDE DEF m, u
<1>10. /\ SubSeq(F, m, u) \in Seq(Keys)
       /\ Len(SubSeq(F, m, u)) = IF m <= u THEN u - m + 1 ELSE 0
  <2>1. \A i \in m..u : F[i] \in Keys
    BY <1>5, <1>8, <1>9
  <2>. QED
    BY <1>8, <1>9, <2>1, SubSeqProperties
<1>11. ASSUME InPages(c), F # <<>>
       PROVE  SubSeq(F, m, u) # <<>>
  <2>1. n \in Nat \ {0}
    BY <1>1, <1>11, EmptySeq DEF n
  <2>2. pages \in Nat \ {0}
    BY <1>0, <2>1, SomePage
  <2>3. p = 1 \/ p <= pages
    BY <1>2, <1>11 DEF InPages, p
  <2>. HIDE DEF pages
  <2>4. p <= pages
    BY <2>2, <2>3
  <2>5. (p - 1) * PageSize + 1 \in 1..n
    BY <1>0, <1>4, <2>1, <2>4, PageStarts DEF pages
  <2>6. Len(SubSeq(F, m, u)) # 0
    BY <1>8, <1>9, <1>10, <2>5
  <2>. QED
    BY <2>6, EmptySeq
<1>12. \A i \in DOMAIN SubSeq(F, m, u) : SubSeq(F, m, u)[i] \in Keys
  BY <1>10
<1>. QED
  BY <1>2, <1>3, <1>6, <1>11, <1>12 DEF F

\* The window is opened with the saved history and asks for the servers.
LEMMA InitClient == ClientWindow!Init => ClientInv(client, stored, app)
<1>. SUFFICES ASSUME ClientWindow!Init
              PROVE  ClientInv(client, stored, app)
  OBVIOUS
<1>1. stored \in Histories
  <2>1. stored \in FirstHistories
    BY DEF ClientWindow!Init
  <2>2. stored \in Seq(ClientWindow!Entries) /\ ClientWindow!Valid(stored)
    BY <2>1, ClientBounds
  <2>. QED
    BY <2>2, ValidFacts
<1>2. app \in ClientApps /\ app.server = "" /\ app.killswitch = FALSE
  BY DEF ClientWindow!Init, ClientApps
<1>3. client = [open |-> TRUE, working |-> FALSE, loading |-> TRUE, history |-> stored, asking |-> None,
                request |-> None, answer |-> "none", pk |-> "", killswitch |-> FALSE,
                filter |-> "", page |-> 1, ops |-> 0]
  BY <1>2 DEF ClientWindow!Init
<1>4. "" \in DOMAIN MatchingKeys /\ 0 \in 0..MaxOps /\ 1 \in Nat \ {0}
  <2>1. "" \in DOMAIN MatchingKeys
    BY ClientBounds
  <2>2. MaxOps \in Nat
    BY ClientBounds
  <2>3. 0 \in 0..MaxOps /\ 1 \in Nat \ {0}
    BY <2>2
  <2>. QED
    BY <2>1, <2>3
<1>5. client \in Clients
  BY <1>1, <1>3, <1>4 DEF Clients
<1>6. Works(client) /\ InPages(client) /\ stored = client.history
  BY <1>3 DEF Works, InPages
<1>. QED
  BY <1>2, <1>5, <1>6 DEF ClientInv

\* What the user confirms has the form of its operation.
LEMMA OpFacts ==
    ASSUME NEW op \in Ops
    PROVE  /\ op.do = "server" => op.key \in Keys /\ op.password \in BOOLEAN /\ op.note \in Notes
           /\ op.do = "settings" => op.killswitch \in BOOLEAN
           /\ op \in Sent /\ op.do # "server" => op.killswitch \in BOOLEAN
BY DEF Ops, Sent, ClientWindow!Operations

\* The list of the discovered servers, and its pages.
LEMMA DiscoveryClient ==
    ASSUME ClientInv(client, stored, app),
           \/ ClientWindow!Discovered
           \/ \E f \in DOMAIN MatchingKeys : ClientWindow!ChangeFilters(f)
           \/ ClientWindow!ChangePage
    PROVE  ClientInv(client', stored', app')
<1>1. client \in Clients /\ app \in ClientApps /\ stored = client.history /\ Works(client) /\ InPages(client)
  BY DEF ClientInv
<1>2. CASE ClientWindow!Discovered
  <2>1. client' = [client EXCEPT !.loading = FALSE, !.page = 1] /\ UNCHANGED <<stored, app>>
    BY <1>1, <1>2 DEF ClientWindow!Discovered, ClientWindow!ShowDiscovered, ClientWindow!FirstPage, Clients
  <2>2. client' \in Clients /\ client'.page = 1 /\ client'.history = client.history
        /\ client'.request = client.request /\ client'.working = client.working /\ client'.answer = client.answer
    <3>1. 1 \in Nat \ {0}
      OBVIOUS
    <3>. QED
      BY <1>1, <2>1, <3>1 DEF Clients
  <2>. QED
    BY <1>1, <2>1, <2>2 DEF ClientInv, Works, InPages
<1>3. ASSUME NEW f \in DOMAIN MatchingKeys, ClientWindow!ChangeFilters(f)
      PROVE  ClientInv(client', stored', app')
  <2>1. client' = [client EXCEPT !.filter = f, !.ops = @ + 1, !.page = 1] /\ UNCHANGED <<stored, app>>
        /\ client.ops < MaxOps
    BY <1>1, <1>3 DEF ClientWindow!ChangeFilters, ClientWindow!FirstPage, ClientWindow!Usable, Clients
  <2>2. client.ops + 1 \in 0..MaxOps
    BY <1>1, <2>1, OpCounted
  <2>3. client' \in Clients /\ client'.page = 1 /\ client'.history = client.history
        /\ client'.request = client.request /\ client'.working = client.working /\ client'.answer = client.answer
    <3>1. 1 \in Nat \ {0}
      OBVIOUS
    <3>. QED
      BY <1>1, <2>1, <2>2, <3>1 DEF Clients
  <2>. QED
    BY <1>1, <2>1, <2>3 DEF ClientInv, Works, InPages
<1>4. CASE ClientWindow!ChangePage
  <2>1. PICK p \in Nat \ {0} :
            /\ client' = [client EXCEPT !.page = p] /\ UNCHANGED <<stored, app>>
            /\ p = 1 \/ p <= ClientWindow!NumberOfPages(client)
    <3>1. client.page \in Nat \ {0} /\ ClientWindow!NumberOfPages(client) \in Nat
      BY <1>1, PageFacts DEF Clients
    <3>2. CASE client.page < ClientWindow!NumberOfPages(client) /\ client' = [client EXCEPT !.page = @ + 1]
      <4>1. client.page + 1 \in Nat \ {0} /\ client.page + 1 <= ClientWindow!NumberOfPages(client)
        BY <3>1, <3>2
      <4>. QED
        BY <1>4, <3>2, <4>1 DEF ClientWindow!ChangePage
    <3>3. CASE client.page > 1 /\ client' = [client EXCEPT !.page = @ - 1]
      <4>1. client.page - 1 \in Nat \ {0} /\ client.page - 1 <= ClientWindow!NumberOfPages(client)
        BY <1>1, <3>1, <3>3 DEF InPages
      <4>. QED
        BY <1>4, <3>3, <4>1 DEF ClientWindow!ChangePage
    <3>. QED
      BY <1>4, <3>2, <3>3 DEF ClientWindow!ChangePage
  <2>2. client' \in Clients /\ client'.page = p /\ client'.history = client.history /\ client'.filter = client.filter
        /\ client'.request = client.request /\ client'.working = client.working /\ client'.answer = client.answer
    BY <1>1, <2>1 DEF Clients
  <2>3. InPages(client')
    BY <2>1, <2>2 DEF InPages, ClientWindow!NumberOfPages, ClientWindow!FilteredProxies
  <2>. QED
    BY <1>1, <2>1, <2>2, <2>3 DEF ClientInv, Works
<1>. QED
  BY <1>2, <1>3, <1>4

\* The window asks the user.
LEMMA AskClient ==
    ASSUME ClientInv(client, stored, app),
           \/ ClientWindow!UseFromForm \/ ClientWindow!UseFromDiscovery
           \/ ClientWindow!UseFromHistory \/ ClientWindow!AskToRemove
    PROVE  ClientInv(client', stored', app')
<1>1. client \in Clients /\ app \in ClientApps /\ stored = client.history /\ Works(client) /\ InPages(client)
  BY DEF ClientInv
<1>2. \A k \in Keys, p \in BOOLEAN, n \in Notes :
          /\ [do |-> "server", key |-> k, password |-> p, note |-> n] \in Ops
          /\ [do |-> "remove", key |-> k] \in Ops
  BY DEF Ops, ClientWindow!Operations
<1>3. \A i \in DOMAIN client.history : client.history[i] \in ClientWindow!Entries
  <2>1. client.history \in Seq(ClientWindow!Entries)
    BY <1>1 DEF Clients, Histories
  <2>. QED
    BY <2>1
<1>4. PICK op \in Ops : ClientWindow!Ask(op) /\ ClientWindow!Usable /\ UNCHANGED <<stored, app>>
  <2>1. CASE ClientWindow!UseFromForm
    BY <1>2, <2>1, ClientBounds DEF ClientWindow!UseFromForm
  <2>2. CASE ClientWindow!UseFromDiscovery
    <3>1. \A i \in DOMAIN ClientWindow!ProxiesToShow(client) : ClientWindow!ProxiesToShow(client)[i] \in Keys
      BY <1>1, PageFacts
    <3>2. FALSE \in BOOLEAN /\ "" \in Notes
      BY ClientBounds
    <3>. QED
      BY <1>2, <2>2, <3>1, <3>2 DEF ClientWindow!UseFromDiscovery
  <2>3. CASE ClientWindow!UseFromHistory
    <3>1. \A i \in DOMAIN client.history : client.history[i].key \in Keys /\ client.history[i].note \in Notes
      BY <1>3 DEF ClientWindow!Entries
    <3>. QED
      BY <1>2, <2>3, <3>1 DEF ClientWindow!UseFromHistory
  <2>4. CASE ClientWindow!AskToRemove
    <3>1. \A k \in ClientWindow!KeysOf(client.history) : k \in Keys
      BY <1>3 DEF ClientWindow!Entries, ClientWindow!KeysOf
    <3>2. \A k \in Keys : [do |-> "remove", key |-> k] \in Ops
      BY DEF Ops, ClientWindow!Operations
    <3>. QED
      BY <2>4, <3>1, <3>2 DEF ClientWindow!AskToRemove
  <2>. QED
    BY <2>1, <2>2, <2>3, <2>4
<1>5. client' = [client EXCEPT !.asking = op, !.ops = @ + 1] /\ client.ops < MaxOps
  BY <1>4 DEF ClientWindow!Ask, ClientWindow!Usable
<1>6. client.ops + 1 \in 0..MaxOps
  BY <1>1, <1>5, OpCounted
<1>7. client' \in Clients /\ client'.page = client.page /\ client'.history = client.history
      /\ client'.filter = client.filter /\ client'.request = client.request
      /\ client'.working = client.working /\ client'.answer = client.answer
  BY <1>1, <1>5, <1>6 DEF Clients
<1>. QED
  BY <1>1, <1>4, <1>7, SamePages DEF ClientInv, Works

\* The notes, the confirmations and what is sent.
LEMMA UserClient ==
    ASSUME ClientInv(client, stored, app),
           \/ ClientWindow!ChangeNote \/ ClientWindow!Dismiss \/ ClientWindow!AcceptRemoval
           \/ ClientWindow!AcceptServer \/ ClientWindow!SaveSettings \/ ClientWindow!Close
    PROVE  ClientInv(client', stored', app')
<1>1. client \in Clients /\ app \in ClientApps /\ stored = client.history /\ Works(client) /\ InPages(client)
  BY DEF ClientInv
<1>2. CASE ClientWindow!ChangeNote
  <2>1. PICK k \in ClientWindow!KeysOf(client.history), n \in Notes : client' = [client EXCEPT !.history = ClientWindow!WithNote(@, k, n), !.ops = @ + 1]
    BY <1>2 DEF ClientWindow!ChangeNote
  <2>2. client.ops < MaxOps /\ stored' = client'.history /\ app' = app
    BY <1>2 DEF ClientWindow!ChangeNote, ClientWindow!Usable, ClientWindow!Save
  <2>3. client.ops + 1 \in 0..MaxOps /\ client.history \in Histories
    BY <1>1, <2>2, OpCounted DEF Clients
  <2>4. ClientWindow!WithNote(client.history, k, n) \in Histories
    BY <2>3, NoteFacts
  <2>5. client' \in Clients /\ client'.page = client.page
        /\ client'.filter = client.filter /\ client'.request = client.request
        /\ client'.working = client.working /\ client'.answer = client.answer
    BY <1>1, <2>1, <2>3, <2>4 DEF Clients
  <2>. QED
    BY <1>1, <2>2, <2>5, SamePages DEF ClientInv, Works
<1>3. CASE ClientWindow!Dismiss \/ ClientWindow!Close
  <2>1. /\ client' = [client EXCEPT !.asking = None] \/ client' = [client EXCEPT !.open = FALSE]
        /\ UNCHANGED <<stored, app>>
    BY <1>3 DEF ClientWindow!Dismiss, ClientWindow!Close
  <2>2. client' \in Clients /\ client'.page = client.page /\ client'.history = client.history
        /\ client'.filter = client.filter /\ client'.request = client.request
        /\ client'.working = client.working /\ client'.answer = client.answer
    BY <1>1, <2>1, ZenonT(40) DEF Clients
  <2>. QED
    BY <1>1, <2>1, <2>2, SamePages DEF ClientInv, Works
<1>4. CASE ClientWindow!AcceptRemoval
  <2>. DEFINE w == ClientWindow!Without(client.history, client.asking.key)
  <2>1. client' = [client EXCEPT !.history = w, !.asking = None] /\ stored' = client'.history /\ app' = app
    BY <1>4 DEF ClientWindow!AcceptRemoval, ClientWindow!Save
  <2>2. w \in Histories
    <3>1. client.history \in Histories
      BY <1>1 DEF Clients
    <3>. QED
      BY <3>1, WithoutFacts
  <2>. HIDE DEF w
  <2>3. client' \in Clients /\ client'.page = client.page
        /\ client'.filter = client.filter /\ client'.request = client.request
        /\ client'.working = client.working /\ client'.answer = client.answer
    BY <1>1, <2>1, <2>2 DEF Clients
  <2>. QED
    BY <1>1, <2>1, <2>3, SamePages DEF ClientInv, Works
<1>5. CASE ClientWindow!AcceptServer
  <2>1. client' = [client EXCEPT !.working = TRUE, !.request = client.asking, !.answer = "none", !.asking = None]
        /\ UNCHANGED <<stored, app>> /\ client.asking # None /\ client.asking.do = "server"
    BY <1>1, <1>5 DEF ClientWindow!AcceptServer, ClientWindow!Send, Clients
  <2>2. client.asking \in Sent
    BY <1>1, <2>1 DEF Clients, Sent
  <2>3. client' \in Clients /\ client'.page = client.page /\ client'.history = client.history
        /\ client'.filter = client.filter /\ client'.working = TRUE /\ client'.answer = "none"
    BY <1>1, <2>1, <2>2 DEF Clients
  <2>. QED
    BY <1>1, <2>1, <2>3, SamePages DEF ClientInv, Works
<1>6. CASE ClientWindow!SaveSettings
  <2>. DEFINE op == [do |-> "settings", killswitch |-> ~client.killswitch]
  <2>1. client' = [client EXCEPT !.working = TRUE, !.request = op, !.answer = "none", !.ops = @ + 1]
        /\ UNCHANGED <<stored, app>> /\ client.ops < MaxOps
    BY <1>1, <1>6 DEF ClientWindow!SaveSettings, ClientWindow!Send, ClientWindow!Usable, Clients
  <2>2. op \in Sent
    BY DEF Ops, Sent, ClientWindow!Operations
  <2>. HIDE DEF op
  <2>3. client.ops + 1 \in 0..MaxOps
    BY <1>1, <2>1, OpCounted
  <2>4. client' \in Clients /\ client'.page = client.page /\ client'.history = client.history
        /\ client'.filter = client.filter /\ client'.working = TRUE /\ client'.answer = "none"
    BY <1>1, <2>1, <2>2, <2>3 DEF Clients
  <2>. QED
    BY <1>1, <2>1, <2>4, SamePages DEF ClientInv, Works
<1>. QED
  BY <1>2, <1>3, <1>4, <1>5, <1>6

\* The visor changes the app and answers, or does not.
LEMMA AnsweredClient ==
    ASSUME ClientInv(client, stored, app), ClientWindow!Answered
    PROVE  ClientInv(client', stored', app')
<1>1. client \in Clients /\ app \in ClientApps /\ stored = client.history /\ Works(client) /\ InPages(client)
  BY DEF ClientInv
<1>2. CASE ClientWindow!Apply
  <2>1. client.request \in Sent /\ client.request # None /\ stored' = stored
        /\ client' = [client EXCEPT !.answer = "ok"]
        /\ app' = IF client.request.do = "server" THEN [app EXCEPT !.server = client.request.key]
                  ELSE [app EXCEPT !.killswitch = client.request.killswitch]
    BY <1>1, <1>2 DEF ClientWindow!Apply, Clients
  <2>2. app' \in ClientApps
    <3>. DEFINE r == client.request
    <3>. HIDE DEF r
    <3>1. r \in Ops /\ r \in Sent /\ app' = IF r.do = "server" THEN [app EXCEPT !.server = r.key]
                             ELSE [app EXCEPT !.killswitch = r.killswitch]
      BY <2>1 DEF r, Sent
    <3>2. /\ r.do = "server" => r.key \in Keys
          /\ r.do # "server" => r.killswitch \in BOOLEAN
      BY <3>1, OpFacts
    <3>. QED
      BY <1>1, <3>1, <3>2 DEF ClientApps
  <2>3. client' \in Clients /\ client'.page = client.page /\ client'.history = client.history
        /\ client'.filter = client.filter /\ client'.request = client.request
        /\ client'.working = client.working
    BY <1>1, <2>1 DEF Clients
  <2>. QED
    BY <1>1, <2>1, <2>2, <2>3, SamePages DEF ClientInv, Works
<1>3. CASE ClientWindow!OnServerDataChangeSuccess
  <2>. DEFINE r == client.request
              e == [key |-> r.key, password |-> r.password, note |-> r.note]
              w == ClientWindow!Added(client.history, e)
  <2>1. client' = [client EXCEPT !.working = FALSE, !.request = None, !.answer = "none",
                                 !.history = w, !.pk = r.key]
        /\ stored' = client'.history /\ app' = app
    BY <1>1, <1>3 DEF ClientWindow!OnServerDataChangeSuccess, ClientWindow!Idle, ClientWindow!Save, Clients
  <2>2. r \in Ops /\ r.do = "server"
    BY <1>1, <1>3 DEF ClientWindow!OnServerDataChangeSuccess, Works, Sent
  <2>. HIDE DEF r
  <2>3. r.key \in Keys /\ e \in ClientWindow!Entries
    BY <2>2, OpFacts DEF ClientWindow!Entries
  <2>. HIDE DEF e
  <2>4. w \in Histories
    BY <1>1, <2>3, AddedFacts DEF Clients
  <2>. HIDE DEF w
  <2>5. client' \in Clients /\ client'.page = client.page
        /\ client'.filter = client.filter /\ client'.request = None /\ client'.answer = "none"
    BY <1>1, <2>1, <2>3, <2>4 DEF Clients
  <2>. QED
    BY <1>1, <2>1, <2>5, SamePages DEF ClientInv, Works
<1>4. CASE ClientWindow!SettingsSaved \/ ClientWindow!OnError
  <2>1. PICK b \in BOOLEAN :
            client' = [client EXCEPT !.working = FALSE, !.request = None, !.answer = "none", !.killswitch = b]
    <3>1. CASE ClientWindow!SettingsSaved
      <4>1. client.request \in Ops /\ client.request.do = "settings"
        BY <1>1, <3>1 DEF ClientWindow!SettingsSaved, Works, Sent
      <4>2. client.request.killswitch \in BOOLEAN
        BY <4>1, OpFacts
      <4>. QED
        BY <1>1, <3>1, <4>2 DEF ClientWindow!SettingsSaved, ClientWindow!Idle, Clients
    <3>2. CASE ClientWindow!OnError
      BY <1>1, <3>2 DEF ClientWindow!OnError, ClientWindow!Failed, ClientWindow!Idle, Clients
    <3>. QED
      BY <1>4, <3>1, <3>2
  <2>2. UNCHANGED <<stored, app>>
    BY <1>4 DEF ClientWindow!SettingsSaved, ClientWindow!OnError
  <2>3. client' \in Clients /\ client'.page = client.page /\ client'.history = client.history
        /\ client'.filter = client.filter /\ client'.request = None /\ client'.answer = "none"
    BY <1>1, <2>1 DEF Clients
  <2>. QED
    BY <1>1, <2>2, <2>3, SamePages DEF ClientInv, Works
<1>. QED
  BY <1>2, <1>3, <1>4 DEF ClientWindow!Answered

\* Every step of the window keeps the invariant.
LEMMA NextClient == ClientInv(client, stored, app) /\ ClientWindow!Next => ClientInv(client', stored', app')
BY DiscoveryClient, AskClient, UserClient, AnsweredClient DEF ClientWindow!Next

\* What the invariant says of the window.
LEMMA ClientHolds ==
    ClientInv(client, stored, app) => ClientWindow!TypeOK /\ ClientWindow!HistoryValid /\ ClientWindow!PageShown
<1>. SUFFICES ASSUME ClientInv(client, stored, app)
              PROVE  ClientWindow!TypeOK /\ ClientWindow!HistoryValid /\ ClientWindow!PageShown
  OBVIOUS
<1>1. client \in Clients /\ app \in ClientApps /\ stored = client.history /\ InPages(client)
  BY DEF ClientInv
<1>2. client.history \in Histories /\ client.history \in Seq(ClientWindow!Entries)
  BY <1>1 DEF Clients, Histories
<1>3. ClientWindow!TypeOK
  BY <1>1, <1>2 DEF Clients, ClientApps, Ops, Sent, ClientWindow!TypeOK
<1>4. ClientWindow!HistoryValid
  BY <1>1, <1>2, ValidFacts DEF ClientWindow!HistoryValid
<1>5. ClientWindow!PageShown
  BY <1>1, PageFacts DEF ClientWindow!PageShown
<1>. QED
  BY <1>3, <1>4, <1>5

\* What a step may do with the history and with the request.
LEMMA ClientSteps ==
    ASSUME ClientInv(client, stored, app), ClientWindow!Next
    PROVE  ClientWindow!KeepsHistory /\ ClientWindow!KeepsRequest
<1>1. client \in Clients /\ stored = client.history /\ Works(client) /\ client.history \in Histories
  BY DEF ClientInv, Clients
<1>2. CASE ClientWindow!AcceptRemoval
  <2>1. /\ client' = [client EXCEPT !.history = ClientWindow!Without(@, client.asking.key), !.asking = None]
        /\ stored' = client'.history /\ client.asking # None /\ client.asking.do = "remove"
    BY <1>2 DEF ClientWindow!AcceptRemoval, ClientWindow!Save
  <2>2. stored' = ClientWindow!Without(stored, client.asking.key) /\ client'.request = client.request
    BY <1>1, <2>1 DEF Clients
  <2>3. \A x \in ClientWindow!KeysOf(stored) :
            x # client.asking.key => x \in ClientWindow!KeysOf(ClientWindow!Without(stored, client.asking.key))
    BY <1>1, WithoutFacts
  <2>4. ClientWindow!KeysOf(stored)' = ClientWindow!KeysOf(stored')
    BY DEF ClientWindow!KeysOf
  <2>5. \A x \in ClientWindow!KeysOf(stored) \ ClientWindow!KeysOf(stored)' : x = client.asking.key
    BY <2>2, <2>3, <2>4
  <2>. QED
    BY <2>1, <2>2, <2>5 DEF ClientWindow!KeepsHistory, ClientWindow!KeepsRequest
<1>3. CASE ClientWindow!OnServerDataChangeSuccess
  <2>. DEFINE r == client.request
              e == [key |-> r.key, password |-> r.password, note |-> r.note]
  <2>1. /\ client' = [client EXCEPT !.working = FALSE, !.request = None, !.answer = "none",
                                    !.history = ClientWindow!Added(@, e), !.pk = r.key]
        /\ stored' = client'.history
    BY <1>1, <1>3 DEF ClientWindow!OnServerDataChangeSuccess, ClientWindow!Idle, ClientWindow!Save, Clients
  <2>2. r \in Ops /\ r.do = "server"
    BY <1>1, <1>3 DEF ClientWindow!OnServerDataChangeSuccess, Works, Sent
  <2>3. stored' = ClientWindow!Added(stored, e) /\ client'.request = None
    BY <1>1, <2>1 DEF Clients
  <2>. HIDE DEF r
  <2>4. e \in ClientWindow!Entries
    BY <2>2, OpFacts DEF ClientWindow!Entries
  <2>. HIDE DEF e
  <2>5. \/ ClientWindow!KeysOf(stored) \subseteq ClientWindow!KeysOf(ClientWindow!Added(stored, e))
        \/ Len(stored) = MaxHistory /\ Len(ClientWindow!Added(stored, e)) = MaxHistory
    BY <1>1, <2>4, AddedFacts
  <2>6. ClientWindow!KeysOf(stored)' = ClientWindow!KeysOf(stored')
    BY DEF ClientWindow!KeysOf
  <2>. QED
    BY <2>3, <2>5, <2>6 DEF ClientWindow!KeepsHistory, ClientWindow!KeepsRequest
<1>4. CASE ClientWindow!ChangeNote
  <2>1. PICK k \in ClientWindow!KeysOf(client.history), n \in Notes :
            client' = [client EXCEPT !.history = ClientWindow!WithNote(@, k, n), !.ops = @ + 1]
    BY <1>4 DEF ClientWindow!ChangeNote
  <2>2. stored' = ClientWindow!WithNote(stored, k, n) /\ client'.request = client.request
    BY <1>1, <1>4, <2>1 DEF ClientWindow!ChangeNote, ClientWindow!Save, Clients
  <2>3. ClientWindow!KeysOf(ClientWindow!WithNote(stored, k, n)) = ClientWindow!KeysOf(stored)
    BY <1>1, NoteFacts
  <2>4. ClientWindow!KeysOf(stored)' = ClientWindow!KeysOf(stored')
    BY DEF ClientWindow!KeysOf
  <2>. QED
    BY <2>2, <2>3, <2>4 DEF ClientWindow!KeepsHistory, ClientWindow!KeepsRequest
<1>5. ASSUME stored' = stored
      PROVE  ClientWindow!KeepsHistory
  BY <1>5 DEF ClientWindow!KeepsHistory, ClientWindow!KeysOf
<1>6. CASE ClientWindow!AcceptServer \/ ClientWindow!SaveSettings
  <2>1. ~client.working /\ stored' = stored
    BY <1>6 DEF ClientWindow!AcceptServer, ClientWindow!SaveSettings, ClientWindow!CanSave
  <2>2. ClientWindow!KeepsRequest
    BY <1>1, <2>1 DEF Works, ClientWindow!KeepsRequest
  <2>. QED
    BY <1>5, <2>1, <2>2
<1>7. CASE ClientWindow!SettingsSaved \/ ClientWindow!OnError
  <2>1. stored' = stored /\ client'.request = None
    BY <1>1, <1>7 DEF ClientWindow!SettingsSaved, ClientWindow!OnError, ClientWindow!Failed, ClientWindow!Idle, Clients
  <2>. QED
    BY <1>5, <2>1 DEF ClientWindow!KeepsRequest
<1>8. CASE \/ ClientWindow!Discovered \/ ClientWindow!ChangePage
           \/ ClientWindow!Apply \/ ClientWindow!Dismiss \/ ClientWindow!Close
           \/ \E f \in DOMAIN MatchingKeys : ClientWindow!ChangeFilters(f)
  <2>1. stored' = stored /\ client'.request = client.request
    BY <1>1, <1>8 DEF ClientWindow!Discovered, ClientWindow!ShowDiscovered, ClientWindow!FirstPage,
       ClientWindow!ChangePage, ClientWindow!Apply, ClientWindow!Dismiss, ClientWindow!Close,
       ClientWindow!ChangeFilters, Clients
  <2>. QED
    BY <1>5, <2>1 DEF ClientWindow!KeepsRequest
<1>9. CASE \/ ClientWindow!UseFromForm \/ ClientWindow!UseFromDiscovery
           \/ ClientWindow!UseFromHistory \/ ClientWindow!AskToRemove
  <2>1. stored' = stored /\ client'.request = client.request
    BY <1>1, <1>9 DEF ClientWindow!UseFromForm, ClientWindow!UseFromDiscovery, ClientWindow!UseFromHistory,
       ClientWindow!AskToRemove, ClientWindow!Ask, Clients
  <2>. QED
    BY <1>5, <2>1 DEF ClientWindow!KeepsRequest
<1>. QED
  BY <1>2, <1>3, <1>4, <1>6, <1>7, <1>8, <1>9 DEF ClientWindow!Next, ClientWindow!Answered

-----------------------------------------------------------------------------
(* The window with the rewards of several visors *)

Visors == BulkWindow!Visors
Changes == [index : Nat, state : {"sent", "applied"}]
Bulks == [open : BOOLEAN, started : BOOLEAN, finished : BOOLEAN, list : Seq(Visors),
          selected : SUBSET Visors, address : NewAddresses, confirming : BOOLEAN, processed : Nat,
          toggles : Nat, shown : [Visors -> BulkWindow!Shown], checks : SUBSET DOMAIN Order,
          changes : SUBSET Changes]
Rewards == [Visors -> NewAddresses \cup {BulkWindow!Registered}]

\* One change for each index of the list, until its answer is counted.
Counted(b) ==
    /\ b.started => /\ IsFiniteSet(b.changes) /\ b.processed + Cardinality(b.changes) = Len(b.list)
                    /\ b.checks = {} /\ ~b.confirming
    /\ ~b.started => b.changes = {} /\ b.processed = 0 /\ ~b.finished
    /\ b.finished => b.processed = Len(b.list)
    /\ \A r \in b.changes : r.index \in DOMAIN b.list
    /\ \A r, q \in b.changes : r.index = q.index => r = q

\* Only the chosen visors are in the list, each of them that is still shown as
\* processing has a change, and what was applied is the new address.
Outcome(b, w) ==
    /\ ~b.started => \A v \in Visors : b.shown[v] \in {"none", "address", "check error"}
                                       /\ w[v] = BulkWindow!Registered
    /\ b.started =>
        /\ \A i \in DOMAIN b.list : b.list[i] \in b.selected
        /\ \A v \in b.selected : b.shown[v] \in {"processing", "done", "change error"}
        /\ \A v \in Visors \ b.selected : w[v] = BulkWindow!Registered /\ b.shown[v] # "done"
        /\ \A v \in b.selected : b.shown[v] = "processing" => \E r \in b.changes : b.list[r.index] = v
    /\ \A v \in Visors : b.shown[v] = "done" => w[v] = b.address
    /\ \A r \in b.changes : r.state = "applied" => w[b.list[r.index]] = b.address

BulkInv(b, w) == b \in Bulks /\ w \in Rewards /\ Counted(b) /\ Outcome(b, w)

\* The visors are those of a sequence.
LEMMA BulkOrder == Order \in Seq(Visors) /\ Visors = {Order[i] : i \in DOMAIN Order}
BY DialogsAssumption DEF DialogsAssumption, Visors, BulkWindow!Visors

\* The window is opened with all the visors selected.
LEMMA InitBulk == BulkWindow!Init => BulkInv(bulk, reward)
<1>. SUFFICES ASSUME BulkWindow!Init
              PROVE  BulkInv(bulk, reward)
  OBVIOUS
<1>1. PICK a \in NewAddresses :
          bulk = [open |-> TRUE, started |-> FALSE, finished |-> FALSE, list |-> Order, selected |-> Visors,
                  address |-> a, confirming |-> FALSE, processed |-> 0, toggles |-> 0,
                  shown |-> [v \in Visors |-> "none"], checks |-> DOMAIN Order, changes |-> {}]
  BY DEF BulkWindow!Init, Visors
<1>2. reward = [v \in Visors |-> BulkWindow!Registered]
  BY DEF BulkWindow!Init, Visors
<1>3. bulk \in Bulks
  BY <1>1, BulkOrder DEF Bulks, BulkWindow!Shown
<1>4. reward \in Rewards
  BY <1>2 DEF Rewards
<1>5. Counted(bulk) /\ Outcome(bulk, reward)
  BY <1>1, <1>2 DEF Counted, Outcome
<1>. QED
  BY <1>3, <1>4, <1>5 DEF BulkInv

\* The outcome, part by part.
LEMMA OutcomeParts ==
    ASSUME NEW b, NEW w, b.started,
           \A i \in DOMAIN b.list : b.list[i] \in b.selected,
           \A v \in b.selected : b.shown[v] \in {"processing", "done", "change error"},
           \A v \in Visors \ b.selected : w[v] = BulkWindow!Registered /\ b.shown[v] # "done",
           \A v \in b.selected : b.shown[v] = "processing" => \E r \in b.changes : b.list[r.index] = v,
           \A v \in Visors : b.shown[v] = "done" => w[v] = b.address,
           \A r \in b.changes : r.state = "applied" => w[b.list[r.index]] = b.address
    PROVE  Outcome(b, w)
BY DEF Outcome

\* startProcessing(): the chosen visors, and a request for each.
LEMMA StartFactsBulk ==
    ASSUME NEW b \in Bulks, NEW w, BulkInv(b, w), ~b.started
    PROVE  BulkInv(BulkWindow!StartProcessing(b), w)
<1>. DEFINE I == {i \in DOMAIN Order : Order[i] \in b.selected}
            chosen == Picked(Order, I)
            c == Cardinality(I)
            sent == {[index |-> i, state |-> "sent"] : i \in DOMAIN chosen}
            sh == [v \in Visors |-> IF v \in b.selected THEN "processing" ELSE b.shown[v]]
            d == BulkWindow!StartProcessing(b)
<1>1. d = [b EXCEPT !.checks = {}, !.changes = sent, !.started = TRUE, !.confirming = FALSE,
                    !.list = chosen, !.processed = 0, !.shown = sh]
  BY SamePicked DEF BulkWindow!StartProcessing, BulkWindow!CloseOperationSubscriptions, Visors, Bulks
<1>2. \A i \in DOMAIN Order : i \in I <=> Order[i] \in b.selected
  OBVIOUS
<1>3. I \in SUBSET DOMAIN Order
  OBVIOUS
<1>. HIDE DEF I
<1>4. /\ c \in Nat /\ chosen \in Seq(Visors) /\ Len(chosen) = c /\ DOMAIN chosen = 1..c
      /\ \A n \in 1..c : Nth(I, n) \in I /\ chosen[n] = Order[Nth(I, n)]
      /\ \A i \in I : \E n \in 1..c : Nth(I, n) = i
  BY <1>3, BulkOrder, PickedFacts
<1>. HIDE DEF chosen, c
<1>5. sent \in SUBSET Changes /\ IsFiniteSet(sent) /\ Cardinality(sent) = c
  <2>. DEFINE f == [i \in 1..c |-> [index |-> i, state |-> "sent"]]
  <2>1. sent = {[index |-> i, state |-> "sent"] : i \in 1..c}
    BY <1>4
  <2>2. IsFiniteSet(1..c) /\ Cardinality(1..c) = c
    <3>1. IsFiniteSet(1..c) /\ Cardinality(1..c) = IF 1 > c THEN 0 ELSE c - 1 + 1
      BY <1>4, FS_Interval
    <3>. QED
      BY <1>4, <3>1
  <2>3. f \in Surjection(1..c, sent)
    BY <2>1 DEF Surjection
  <2>4. f \in Injection(1..c, sent)
    BY <2>1 DEF Injection, IsInjective
  <2>5. IsFiniteSet(sent) /\ Cardinality(sent) = Cardinality(1..c)
    <3>. HIDE DEF f, sent
    <3>. QED
      BY <2>2, <2>3, <2>4, FS_Surjection
  <2>6. sent \in SUBSET Changes
    <3>1. \A i \in 1..c : i \in Nat
      BY <1>4
    <3>. QED
      BY <2>1, <3>1 DEF Changes
  <2>. QED
    BY <2>2, <2>5, <2>6
<1>6. /\ \A r \in sent : r.index \in DOMAIN chosen /\ r.state = "sent"
      /\ \A r, q \in sent : r.index = q.index => r = q
      /\ \A i \in DOMAIN chosen : \E r \in sent : r.index = i
  <2>1. \A r \in sent : \E i \in DOMAIN chosen : r = [index |-> i, state |-> "sent"]
    OBVIOUS
  <2>2. \A i \in DOMAIN chosen : [index |-> i, state |-> "sent"] \in sent
    OBVIOUS
  <2>3. \A i : [index |-> i, state |-> "sent"].index = i /\ [index |-> i, state |-> "sent"].state = "sent"
    OBVIOUS
  <2>. HIDE DEF sent
  <2>4. \A r \in sent : r.index \in DOMAIN chosen /\ r = [index |-> r.index, state |-> "sent"]
    BY <2>1
  <2>5. \A r \in sent : r.index \in DOMAIN chosen /\ r.state = "sent"
    BY <2>1
  <2>6. \A r, q \in sent : r.index = q.index => r = q
    BY <2>4
  <2>7. ASSUME NEW i \in DOMAIN chosen
        PROVE  \E r \in sent : r.index = i
    BY <2>2, <2>3
  <2>. QED
    BY <2>5, <2>6, <2>7
<1>. HIDE DEF sent
<1>7. sh \in [Visors -> BulkWindow!Shown]
  BY DEF Bulks, BulkWindow!Shown
<1>8. \A v \in Visors : sh[v] = IF v \in b.selected THEN "processing" ELSE b.shown[v]
  OBVIOUS
<1>. HIDE DEF sh
<1>9. /\ d \in Bulks /\ d.started = TRUE /\ d.checks = {} /\ d.changes = sent /\ ~d.confirming
      /\ d.list = chosen /\ d.processed = 0 /\ d.shown = sh /\ d.selected = b.selected
      /\ d.finished = b.finished /\ d.address = b.address
  <2>1. 0 \in Nat
    OBVIOUS
  <2>2. d \in Bulks
    BY <1>1, <1>4, <1>5, <1>7, <2>1 DEF Bulks
  <2>. QED
    BY <1>1, <2>2 DEF Bulks
<1>. HIDE DEF d
<1>10. Counted(b) /\ Outcome(b, w) /\ w \in Rewards /\ ~b.finished
  BY DEF BulkInv, Counted
<1>11. Counted(d)
  BY <1>4, <1>5, <1>6, <1>9, <1>10 DEF Counted
<1>12. Outcome(d, w)
  <2>1. \A i \in DOMAIN chosen : chosen[i] \in b.selected
    BY <1>2, <1>3, <1>4
  <2>2. b.selected \subseteq Visors
    BY DEF Bulks
  <2>3. \A v \in b.selected : \E r \in sent : chosen[r.index] = v
    <3>. SUFFICES ASSUME NEW v \in b.selected
                  PROVE  \E r \in sent : chosen[r.index] = v
      OBVIOUS
    <3>1. PICK i \in DOMAIN Order : Order[i] = v
      BY <2>2, BulkOrder
    <3>2. PICK n \in 1..c : Nth(I, n) = i
      BY <1>2, <1>4, <3>1
    <3>3. n \in DOMAIN chosen /\ chosen[n] = v
      BY <1>4, <3>1, <3>2
    <3>. QED
      BY <1>6, <3>3
  <2>4. \A v \in Visors : w[v] = BulkWindow!Registered /\ b.shown[v] \in {"none", "address", "check error"}
    BY <1>10 DEF Outcome
  <2>5. \A v \in Visors : sh[v] # "done"
    BY <1>8, <2>4
  <2>6. \A v \in b.selected : sh[v] = "processing"
    BY <1>8, <2>2
  <2>. QED
    <3>1. \A v \in Visors : sh[v] = "done" => w[v] = b.address
      BY <2>5
    <3>2. \A v \in Visors \ b.selected : w[v] = BulkWindow!Registered /\ sh[v] # "done"
      BY <2>4, <2>5
    <3>3. \A r \in sent : r.state = "applied" => w[chosen[r.index]] = b.address
      BY <1>6
    <3>4. \A v \in b.selected : sh[v] \in {"processing", "done", "change error"}
      BY <2>6
    <3>11. \A i \in DOMAIN d.list : d.list[i] \in d.selected
      BY <1>9, <2>1
    <3>12. \A x \in d.selected : d.shown[x] \in {"processing", "done", "change error"}
      BY <1>9, <3>4
    <3>13. \A x \in Visors \ d.selected : w[x] = BulkWindow!Registered /\ d.shown[x] # "done"
      BY <1>9, <3>2
    <3>14. \A x \in d.selected : d.shown[x] = "processing" => \E y \in d.changes : d.list[y.index] = x
      BY <1>9, <2>3
    <3>15. \A x \in Visors : d.shown[x] = "done" => w[x] = d.address
      BY <1>9, <3>1
    <3>16. \A y \in d.changes : y.state = "applied" => w[d.list[y.index]] = d.address
      BY <1>9, <3>3
    <3>17. d.started
      BY <1>9
    <3>. QED
      BY <3>11, <3>12, <3>13, <3>14, <3>15, <3>16, <3>17, OutcomeParts
<1>. QED
  BY <1>9, <1>10, <1>11, <1>12 DEF BulkInv, d

\* One request less, and one more that is counted.
LEMMA OneCounted ==
    ASSUME NEW p \in Nat, NEW c \in Nat, NEW k, NEW m, k = c - 1, p + c = m
    PROVE  p + 1 \in Nat /\ p + 1 + k = m
OBVIOUS

\* The answer to a change is counted.
LEMMA EndFacts ==
    ASSUME NEW b, NEW w, BulkInv(b, w), NEW r \in b.changes, NEW s \in {"done", "change error"},
           s = "done" => r.state = "applied"
    PROVE  BulkInv(BulkWindow!ChangeEnds(b, r, s), w)
<1>. DEFINE v == b.list[r.index]
            sh == [b.shown EXCEPT ![v] = s]
            p == b.processed
            m == Len(b.list)
            fin == (p + 1 = m)
            rest == b.changes \ {r}
            d == BulkWindow!ChangeEnds(b, r, s)
<1>1. b \in Bulks /\ w \in Rewards /\ Counted(b) /\ Outcome(b, w)
  BY DEF BulkInv
<1>2. b.started
  BY <1>1 DEF Counted
<1>3. r.index \in DOMAIN b.list /\ v \in b.selected /\ v \in Visors
  BY <1>1, <1>2 DEF Counted, Outcome, Bulks
<1>4. d = [b EXCEPT !.changes = rest, !.shown = sh, !.processed = p + 1, !.finished = fin]
  BY <1>1 DEF BulkWindow!ChangeEnds, Bulks
<1>5. IsFiniteSet(rest) /\ Cardinality(rest) = Cardinality(b.changes) - 1 /\ Cardinality(b.changes) \in Nat
  BY <1>1, <1>2, FS_RemoveElement, FS_CardinalityType DEF Counted
<1>6. p \in Nat /\ p + 1 \in Nat /\ p + 1 + Cardinality(rest) = m
  <2>1. p \in Nat
    BY <1>1 DEF Bulks
  <2>2. p + Cardinality(b.changes) = m
    BY <1>1, <1>2 DEF Counted
  <2>. HIDE DEF p, m
  <2>. HIDE DEF rest, fin, sh
  <2>. QED
    <3>. DEFINE c == Cardinality(b.changes)
                k == Cardinality(rest)
    <3>1. c \in Nat /\ k = c - 1 /\ p + c = m
      BY <1>5, <2>2
    <3>. HIDE DEF c, k
    <3>2. p + 1 \in Nat /\ p + 1 + k = m
      BY <2>1, <3>1, OneCounted, ZenonT(40)
    <3>. QED
      BY <2>1, <3>2 DEF k
<1>7. \A x \in Visors : sh[x] = IF x = v THEN s ELSE b.shown[x]
  BY <1>1, <1>3 DEF Bulks
<1>8. sh \in [Visors -> BulkWindow!Shown]
  BY <1>1, <1>3 DEF Bulks, BulkWindow!Shown
<1>9. rest \subseteq b.changes /\ \A q \in b.changes : q # r => q \in rest
  OBVIOUS
<1>. HIDE DEF v, sh, rest
<1>10. fin \in BOOLEAN /\ (fin => p + 1 = m)
  OBVIOUS
<1>. HIDE DEF fin, p
<1>11. /\ d \in Bulks /\ d.started = b.started /\ d.checks = b.checks /\ d.changes = rest
       /\ d.confirming = b.confirming /\ d.list = b.list /\ d.processed = p + 1 /\ d.shown = sh
       /\ d.selected = b.selected /\ d.finished = fin /\ d.address = b.address
  <2>1. p + 1 \in Nat
    BY <1>6
  <2>2. d \in Bulks
    <3>1. rest \in SUBSET Changes
      BY <1>1, <1>9 DEF Bulks
    <3>. QED
      BY <1>1, <1>4, <1>8, <1>10, <2>1, <3>1 DEF Bulks
  <2>. QED
    BY <1>1, <1>4, <2>2 DEF Bulks
<1>. HIDE DEF d
<1>12. Counted(d)
  BY <1>1, <1>2, <1>5, <1>6, <1>9, <1>10, <1>11 DEF Counted
<1>13. Outcome(d, w)
  <2>1. s = "done" => w[v] = b.address
    BY <1>1 DEF Outcome, v
  <2>2. \A x \in Visors : sh[x] = "done" => w[x] = b.address
    BY <1>1, <1>7, <2>1 DEF Outcome
  <2>3. \A x \in b.selected : x \in Visors
    BY <1>1 DEF Bulks
  <2>4. \A x \in b.selected : sh[x] \in {"processing", "done", "change error"}
    BY <1>1, <1>2, <1>7, <2>3 DEF Outcome
  <2>5. \A x \in b.selected : sh[x] = "processing" => \E q \in rest : b.list[q.index] = x
    <3>. SUFFICES ASSUME NEW x \in b.selected, sh[x] = "processing"
                  PROVE  \E q \in rest : b.list[q.index] = x
      OBVIOUS
    <3>1. x # v /\ b.shown[x] = "processing"
      BY <1>7, <2>3
    <3>2. PICK q \in b.changes : b.list[q.index] = x
      BY <1>1, <1>2, <3>1 DEF Outcome
    <3>3. q # r
      BY <3>1, <3>2 DEF v
    <3>. QED
      BY <1>9, <3>2, <3>3
  <2>6. \A x \in Visors \ b.selected : w[x] = BulkWindow!Registered /\ sh[x] # "done"
    BY <1>1, <1>2, <1>3, <1>7 DEF Outcome
  <2>7. \A i \in DOMAIN b.list : b.list[i] \in b.selected
    BY <1>1, <1>2 DEF Outcome
  <2>8. \A q \in rest : q.state = "applied" => w[b.list[q.index]] = b.address
    BY <1>1, <1>9 DEF Outcome
  <2>. QED
    <3>11. \A i \in DOMAIN d.list : d.list[i] \in d.selected
      BY <1>11, <2>7
    <3>12. \A x \in d.selected : d.shown[x] \in {"processing", "done", "change error"}
      BY <1>11, <2>4
    <3>13. \A x \in Visors \ d.selected : w[x] = BulkWindow!Registered /\ d.shown[x] # "done"
      BY <1>11, <2>6
    <3>14. \A x \in d.selected : d.shown[x] = "processing" => \E y \in d.changes : d.list[y.index] = x
      <4>. SUFFICES ASSUME NEW x \in d.selected, d.shown[x] = "processing"
                    PROVE  \E y \in d.changes : d.list[y.index] = x
        OBVIOUS
      <4>1. x \in b.selected /\ sh[x] = "processing"
        BY <1>11
      <4>2. PICK q \in rest : b.list[q.index] = x
        BY <2>5, <4>1
      <4>. QED
        BY <1>11, <4>2
    <3>15. \A x \in Visors : d.shown[x] = "done" => w[x] = d.address
      BY <1>11, <2>2
    <3>16. \A y \in d.changes : y.state = "applied" => w[d.list[y.index]] = d.address
      BY <1>11, <2>8
    <3>17. d.started
      BY <1>2, <1>11
    <3>. QED
      BY <3>17, <3>11, <3>12, <3>13, <3>14, <3>15, <3>16, OutcomeParts
<1>. QED
  BY <1>1, <1>11, <1>12, <1>13 DEF BulkInv, d

\* A visor changes its address.
LEMMA ApplyFacts ==
    ASSUME BulkInv(bulk, reward), NEW r \in bulk.changes, BulkWindow!Apply(r)
    PROVE  BulkInv(bulk', reward')
<1>. DEFINE v == bulk.list[r.index]
            q == [r EXCEPT !.state = "applied"]
            rest == bulk.changes \ {r}
            new == rest \cup {q}
<1>1. bulk \in Bulks /\ reward \in Rewards /\ Counted(bulk) /\ Outcome(bulk, reward)
  BY DEF BulkInv
<1>2. bulk.started
  BY <1>1 DEF Counted
<1>3. r.index \in DOMAIN bulk.list /\ v \in bulk.selected /\ v \in Visors /\ r \in Changes
  BY <1>1, <1>2 DEF Counted, Outcome, Bulks
<1>4. bulk' = [bulk EXCEPT !.changes = new] /\ reward' = [reward EXCEPT ![v] = bulk.address]
  BY DEF BulkWindow!Apply
<1>5. q \in Changes /\ q.index = r.index /\ q.state = "applied"
  BY <1>3 DEF Changes
<1>. HIDE DEF q
<1>6. /\ rest \subseteq bulk.changes /\ \A x \in bulk.changes : x = r \/ x \in rest
      /\ r \notin rest
  OBVIOUS
<1>7. q \notin rest
  <2>. SUFFICES ASSUME q \in rest
                PROVE  FALSE
    OBVIOUS
  <2>1. q \in bulk.changes /\ q # r
    BY <1>6
  <2>. QED
    BY <1>1, <1>5, <2>1 DEF Counted
<1>8. IsFiniteSet(rest) /\ Cardinality(rest) = Cardinality(bulk.changes) - 1 /\ Cardinality(bulk.changes) \in Nat
  BY <1>1, <1>2, FS_RemoveElement, FS_CardinalityType DEF Counted
<1>. HIDE DEF rest
<1>9. IsFiniteSet(new) /\ Cardinality(new) = Cardinality(bulk.changes)
  <2>1. IsFiniteSet(new) /\ Cardinality(new) = Cardinality(rest) + 1
    BY <1>7, <1>8, FS_AddElement
  <2>. QED
    BY <1>8, <2>1
<1>10. \A x \in new : x = q \/ x \in rest
  OBVIOUS
<1>11. \A x \in rest : x \in new
  OBVIOUS
<1>12. q \in new /\ new \subseteq Changes
  BY <1>1, <1>5, <1>6 DEF Bulks
<1>. HIDE DEF new
<1>13. /\ bulk' \in Bulks /\ bulk'.changes = new
       /\ bulk' = [bulk EXCEPT !.changes = new]
       /\ bulk'.started = bulk.started /\ bulk'.checks = bulk.checks /\ bulk'.confirming = bulk.confirming
       /\ bulk'.list = bulk.list /\ bulk'.processed = bulk.processed /\ bulk'.shown = bulk.shown
       /\ bulk'.selected = bulk.selected /\ bulk'.finished = bulk.finished /\ bulk'.address = bulk.address
  BY <1>1, <1>4, <1>12 DEF Bulks
<1>14. /\ reward' \in Rewards /\ reward'[v] = bulk.address
       /\ \A x \in Visors : x # v => reward'[x] = reward[x]
  BY <1>1, <1>3, <1>4 DEF Bulks, Rewards
<1>15. Counted(bulk')
  <2>1. \A x \in new : x.index \in DOMAIN bulk.list
    BY <1>1, <1>3, <1>5, <1>6, <1>10 DEF Counted
  <2>2. \A x, y \in new : x.index = y.index => x = y
    <3>1. \A x \in rest : x.index # r.index
      BY <1>1, <1>6 DEF Counted
    <3>. QED
      BY <1>1, <1>5, <1>6, <1>10, <3>1 DEF Counted
  <2>. QED
    BY <1>1, <1>2, <1>9, <1>13, <2>1, <2>2 DEF Counted
<1>16. Outcome(bulk', reward')
  <2>1. \A x \in Visors : bulk.shown[x] = "done" => reward'[x] = bulk.address
    BY <1>1, <1>14 DEF Outcome
  <2>2. \A x \in Visors \ bulk.selected : reward'[x] = BulkWindow!Registered /\ bulk.shown[x] # "done"
    BY <1>1, <1>2, <1>3, <1>14 DEF Outcome
  <2>3. \A x \in bulk.selected : bulk.shown[x] = "processing" => \E y \in new : bulk.list[y.index] = x
    <3>. SUFFICES ASSUME NEW x \in bulk.selected, bulk.shown[x] = "processing"
                  PROVE  \E y \in new : bulk.list[y.index] = x
      OBVIOUS
    <3>1. PICK y \in bulk.changes : bulk.list[y.index] = x
      BY <1>1, <1>2 DEF Outcome
    <3>. QED
      BY <1>5, <1>6, <1>11, <1>12, <3>1
  <2>4. \A x \in new : x.state = "applied" => reward'[bulk.list[x.index]] = bulk.address
    <3>. SUFFICES ASSUME NEW x \in new, x.state = "applied"
                  PROVE  reward'[bulk.list[x.index]] = bulk.address
      OBVIOUS
    <3>1. CASE x = q
      BY <1>5, <1>14, <3>1
    <3>2. CASE x \in rest
      <4>1. x.index \in DOMAIN bulk.list /\ reward[bulk.list[x.index]] = bulk.address
        BY <1>1, <1>6, <3>2 DEF Counted, Outcome
      <4>2. bulk.list[x.index] \in Visors
        BY <1>1, <4>1 DEF Bulks
      <4>. QED
        BY <1>14, <4>1, <4>2
    <3>. QED
      BY <1>10, <3>1, <3>2
  <2>. QED
    <3>1. /\ \A x \in bulk.selected : bulk.shown[x] \in {"processing", "done", "change error"}
          /\ \A i \in DOMAIN bulk.list : bulk.list[i] \in bulk.selected
      BY <1>1, <1>2 DEF Outcome
    <3>11. \A i \in DOMAIN bulk'.list : bulk'.list[i] \in bulk'.selected
      BY <1>13, <3>1
    <3>12. \A x \in bulk'.selected : bulk'.shown[x] \in {"processing", "done", "change error"}
      BY <1>13, <3>1
    <3>13. \A x \in Visors \ bulk'.selected : reward'[x] = BulkWindow!Registered /\ bulk'.shown[x] # "done"
      BY <1>13, <2>2
    <3>14. \A x \in bulk'.selected : bulk'.shown[x] = "processing" => \E y \in bulk'.changes : bulk'.list[y.index] = x
      BY <1>13, <2>3
    <3>15. \A x \in Visors : bulk'.shown[x] = "done" => reward'[x] = bulk'.address
      BY <1>13, <2>1
    <3>16. \A y \in bulk'.changes : y.state = "applied" => reward'[bulk'.list[y.index]] = bulk'.address
      BY <1>13, <2>4
    <3>17. bulk'.started
      BY <1>2, <1>13
    <3>. QED
      BY <3>17, <3>11, <3>12, <3>13, <3>14, <3>15, <3>16, OutcomeParts
<1>. QED
  BY <1>13, <1>14, <1>15, <1>16 DEF BulkInv

\* Every step of the window keeps the invariant.
LEMMA NextBulk == BulkInv(bulk, reward) /\ BulkWindow!Next => BulkInv(bulk', reward')
<1>. SUFFICES ASSUME BulkInv(bulk, reward), BulkWindow!Next
              PROVE  BulkInv(bulk', reward')
  OBVIOUS
<1>1. bulk \in Bulks /\ reward \in Rewards /\ Counted(bulk) /\ Outcome(bulk, reward)
  BY DEF BulkInv
<1>2. ASSUME NEW i \in DOMAIN Order, BulkWindow!CheckEnds(i)
      PROVE  BulkInv(bulk', reward')
  <2>. DEFINE v == bulk.list[i]
  <2>1. PICK s \in {"address", "check error"} :
            bulk' = [bulk EXCEPT !.checks = @ \ {i}, !.shown = [@ EXCEPT ![v] = s]]
    BY <1>1, <1>2 DEF BulkWindow!CheckEnds, Bulks
  <2>2. reward' = reward /\ i \in bulk.checks /\ i \in DOMAIN bulk.list /\ ~bulk.started
    BY <1>1, <1>2 DEF BulkWindow!CheckEnds, Counted
  <2>3. v \in Visors
    <3>1. bulk.list \in Seq(Visors)
      BY <1>1 DEF Bulks
    <3>2. i \in 1..Len(bulk.list)
      <4>1. DOMAIN bulk.list = 1..Len(bulk.list)
        BY <3>1, LenProperties
      <4>. QED
        BY <2>2, <4>1
    <3>. QED
      BY <3>1, <3>2, ElementOfSeq
  <2>. HIDE DEF v
  <2>. DEFINE sh == [bulk.shown EXCEPT ![v] = s]
  <2>4. sh \in [Visors -> BulkWindow!Shown] /\ \A x \in Visors : sh[x] = IF x = v THEN s ELSE bulk.shown[x]
    BY <1>1, <2>3 DEF Bulks, BulkWindow!Shown
  <2>5. bulk' = [bulk EXCEPT !.checks = @ \ {i}, !.shown = sh]
    BY <2>1
  <2>. HIDE DEF sh
  <2>6. /\ bulk' \in Bulks /\ bulk'.shown = sh /\ bulk'.changes = bulk.changes
        /\ bulk'.started = bulk.started /\ bulk'.confirming = bulk.confirming
        /\ bulk'.list = bulk.list /\ bulk'.processed = bulk.processed
        /\ bulk'.selected = bulk.selected /\ bulk'.finished = bulk.finished /\ bulk'.address = bulk.address
    BY <1>1, <2>4, <2>5 DEF Bulks
  <2>7. Counted(bulk')
    BY <1>1, <2>2, <2>6 DEF Counted
  <2>8. \A x \in Visors : sh[x] \in {"none", "address", "check error"} /\ reward[x] = BulkWindow!Registered
    BY <1>1, <2>2, <2>4 DEF Outcome
  <2>9. bulk.changes = {}
    BY <1>1, <2>2 DEF Counted
  <2>10. Outcome(bulk', reward)
    BY <2>2, <2>6, <2>8, <2>9 DEF Outcome
  <2>. QED
    BY <1>1, <2>2, <2>6, <2>7, <2>10 DEF BulkInv
<1>3. ASSUME NEW r \in bulk.changes, BulkWindow!Apply(r)
      PROVE  BulkInv(bulk', reward')
  BY <1>3, ApplyFacts
<1>4. ASSUME NEW r \in bulk.changes, BulkWindow!Applied(r) \/ BulkWindow!ChangeFailed(r)
      PROVE  BulkInv(bulk', reward')
  <2>1. PICK s \in {"done", "change error"} :
            /\ bulk' = BulkWindow!ChangeEnds(bulk, r, s) /\ reward' = reward
            /\ s = "done" => r.state = "applied"
    BY <1>4 DEF BulkWindow!Applied, BulkWindow!ChangeFailed
  <2>. QED
    BY <2>1, EndFacts
<1>5. ASSUME NEW v \in Visors, BulkWindow!Toggle(v)
      PROVE  BulkInv(bulk', reward')
  <2>1. /\ bulk' = [bulk EXCEPT !.selected = (@ \ {v}) \cup ({v} \ @), !.toggles = @ + 1]
        /\ reward' = reward /\ ~bulk.started
    BY <1>5 DEF BulkWindow!Toggle
  <2>2. /\ bulk' \in Bulks /\ bulk'.shown = bulk.shown /\ bulk'.changes = bulk.changes
        /\ bulk'.started = bulk.started /\ bulk'.confirming = bulk.confirming /\ bulk'.checks = bulk.checks
        /\ bulk'.list = bulk.list /\ bulk'.processed = bulk.processed
        /\ bulk'.finished = bulk.finished /\ bulk'.address = bulk.address
    <3>1. (bulk.selected \ {v}) \cup ({v} \ bulk.selected) \in SUBSET Visors /\ bulk.toggles + 1 \in Nat
      BY <1>1 DEF Bulks
    <3>2. bulk' \in Bulks
      BY <1>1, <2>1, <3>1 DEF Bulks
    <3>. QED
      BY <1>1, <2>1, <3>2 DEF Bulks
  <2>. QED
    BY <1>1, <2>1, <2>2 DEF BulkInv, Counted, Outcome
<1>6. CASE BulkWindow!CheckBeforeProcessing \/ BulkWindow!Confirm
  <2>1. reward' = reward /\ ~bulk.started
    BY <1>1, <1>6 DEF BulkWindow!CheckBeforeProcessing, BulkWindow!Confirm, Counted
  <2>2. CASE bulk' = BulkWindow!StartProcessing(bulk)
    BY <1>1, <2>1, <2>2, StartFactsBulk
  <2>3. ASSUME NEW y \in BOOLEAN, bulk' = [bulk EXCEPT !.confirming = y]
        PROVE  BulkInv(bulk', reward')
    <3>1. /\ bulk' \in Bulks /\ bulk'.shown = bulk.shown /\ bulk'.changes = bulk.changes
          /\ bulk'.started = bulk.started /\ bulk'.checks = bulk.checks /\ bulk'.selected = bulk.selected
          /\ bulk'.list = bulk.list /\ bulk'.processed = bulk.processed
          /\ bulk'.finished = bulk.finished /\ bulk'.address = bulk.address
      BY <1>1, <2>3 DEF Bulks
    <3>. QED
      BY <1>1, <2>1, <3>1 DEF BulkInv, Counted, Outcome
  <2>. QED
    BY <1>6, <2>2, <2>3 DEF BulkWindow!CheckBeforeProcessing, BulkWindow!Confirm
<1>7. CASE BulkWindow!Close
  <2>1. /\ bulk' = [bulk EXCEPT !.checks = {}, !.changes = {}, !.open = FALSE]
        /\ reward' = reward /\ (bulk.started => bulk.finished)
    BY <1>1, <1>7 DEF BulkWindow!Close, BulkWindow!CloseOperationSubscriptions, Bulks
  <2>2. bulk.changes = {}
    <3>1. CASE bulk.started
      <4>1. IsFiniteSet(bulk.changes) /\ bulk.processed \in Nat /\ Cardinality(bulk.changes) \in Nat
            /\ bulk.processed + Cardinality(bulk.changes) = bulk.processed
        BY <1>1, <2>1, <3>1, FS_CardinalityType DEF Counted, Bulks
      <4>2. Cardinality(bulk.changes) = 0
        BY <4>1
      <4>. QED
        BY <4>1, <4>2, FS_EmptySet
    <3>2. CASE ~bulk.started
      BY <1>1, <3>2 DEF Counted
    <3>. QED
      BY <3>1, <3>2
  <2>3. /\ bulk' \in Bulks /\ bulk'.shown = bulk.shown /\ bulk'.changes = bulk.changes
        /\ bulk'.started = bulk.started /\ bulk'.checks = {} /\ bulk'.selected = bulk.selected
        /\ bulk'.list = bulk.list /\ bulk'.processed = bulk.processed /\ bulk'.confirming = bulk.confirming
        /\ bulk'.finished = bulk.finished /\ bulk'.address = bulk.address
    BY <1>1, <2>1, <2>2 DEF Bulks
  <2>. QED
    <3>1. Counted(bulk')
      BY <1>1, <2>3 DEF Counted
    <3>2. Outcome(bulk', reward')
      <4>1. CASE bulk.started
        <5>1. /\ \A i \in DOMAIN bulk.list : bulk.list[i] \in bulk.selected
              /\ \A x \in bulk.selected : bulk.shown[x] \in {"processing", "done", "change error"}
              /\ \A x \in Visors \ bulk.selected : reward[x] = BulkWindow!Registered /\ bulk.shown[x] # "done"
              /\ \A x \in bulk.selected : bulk.shown[x] = "processing" => \E y \in bulk.changes : bulk.list[y.index] = x
              /\ \A x \in Visors : bulk.shown[x] = "done" => reward[x] = bulk.address
              /\ \A y \in bulk.changes : y.state = "applied" => reward[bulk.list[y.index]] = bulk.address
          BY <1>1, <4>1 DEF Outcome
        <5>2. \A x \in bulk.selected : bulk.shown[x] # "processing"
          BY <2>2, <5>1
        <5>3. reward' = reward
          BY <2>1
        <5>. QED
          BY <2>2, <2>3, <4>1, <5>1, <5>2, <5>3, ZenonT(40) DEF Outcome
      <4>2. CASE ~bulk.started
        BY <1>1, <2>1, <2>3, <4>2 DEF Outcome
      <4>. QED
        BY <4>1, <4>2
    <3>. QED
      BY <1>1, <2>1, <2>3, <3>1, <3>2 DEF BulkInv
<1>. QED
  BY <1>2, <1>3, <1>4, <1>5, <1>6, <1>7 DEF BulkWindow!Next, BulkWindow!Answered, Visors

\* What the invariant says of the window.
LEMMA BulkHolds ==
    BulkInv(bulk, reward) => /\ BulkWindow!TypeOK /\ BulkWindow!OutcomeIsOwn
                             /\ BulkWindow!FinishedWhenAnswered
<1>. SUFFICES ASSUME BulkInv(bulk, reward)
              PROVE  BulkWindow!TypeOK /\ BulkWindow!OutcomeIsOwn /\ BulkWindow!FinishedWhenAnswered
  OBVIOUS
<1>1. bulk \in Bulks /\ reward \in Rewards /\ Counted(bulk) /\ Outcome(bulk, reward)
  BY DEF BulkInv
<1>2. bulk.started => IsFiniteSet(bulk.changes) /\ Cardinality(bulk.changes) \in Nat
  BY <1>1, FS_CardinalityType DEF Counted
<1>3. bulk.processed \in 0..Len(bulk.list)
  <2>1. bulk.processed \in Nat /\ Len(bulk.list) \in Nat
    BY <1>1 DEF Bulks
  <2>. QED
    BY <1>1, <1>2, <2>1 DEF Counted
<1>4. BulkWindow!TypeOK
  BY <1>1, <1>3 DEF BulkWindow!TypeOK, Bulks, Rewards, Counted, Changes, Visors
<1>5. BulkWindow!OutcomeIsOwn
  BY <1>1 DEF BulkWindow!OutcomeIsOwn, Outcome, Visors
<1>6. BulkWindow!FinishedWhenAnswered
  <2>. SUFFICES ASSUME bulk.finished, NEW v \in bulk.selected, bulk.shown[v] = "processing"
                PROVE  FALSE
    BY DEF BulkWindow!FinishedWhenAnswered
  <2>1. bulk.started /\ bulk.processed = Len(bulk.list)
        /\ bulk.processed + Cardinality(bulk.changes) = Len(bulk.list)
    BY <1>1 DEF Counted
  <2>2. Cardinality(bulk.changes) = 0
    BY <1>2, <1>3, <2>1
  <2>3. bulk.changes = {}
    BY <1>2, <2>1, <2>2, FS_EmptySet
  <2>. QED
    BY <1>1, <2>1, <2>3 DEF Outcome
<1>. QED
  BY <1>4, <1>5, <1>6

-----------------------------------------------------------------------------
(* The windows together *)

\* There is a window that is open, and it has its invariant.
DialogsInv ==
    /\ window \in Windows
    /\ window = "bulk" => BulkInv(bulk, reward)
    /\ window = "client" => ClientInv(client, stored, app)
    /\ window = "logs" => LogInv(logs, written)
    /\ window = "form" => FormInv(form, visor)
    /\ window = "list" => ListInv

\* A list that is not touched keeps its invariant.
LEMMA ListKeeps == ListInv /\ UNCHANGED listVars => ListInv'
<1>. SUFFICES ASSUME ListInv, UNCHANGED listVars
              PROVE  ListInv'
  OBVIOUS
<1>1. /\ UNCHANGED <<list, dialog>> /\ UNCHANGED <<list, ops>> /\ UNCHANGED <<list, data, comp>>
      /\ UNCHANGED <<listed, asked, gone, timers>> /\ UNCHANGED dialog /\ Chosen(comp') \subseteq Chosen(comp)
  BY DEF listVars
<1>. QED
  BY <1>1, OthersKept DEF ListInv

\* Each window is opened with its invariant.
LEMMA InitDialogs == Init => DialogsInv
BY InitBulk, InitClient, InitLogs, InitForm, InitList DEF Init, DialogsInv

\* Only the window that is open takes steps.
LEMMA OneWindow ==
    ASSUME [Next]_vars
    PROVE  \/ OnlyBulk /\ BulkWindow!Next
           \/ OnlyClient /\ ClientWindow!Next
           \/ OnlyLogs /\ LogWindow!Next
           \/ OnlyForm /\ FormWindow!Next
           \/ OnlyList /\ ListPage!Next
           \/ UNCHANGED vars
BY DEF Next

\* The steps of the window that is open keep its invariant.
LEMMA NextDialogs == DialogsInv /\ [Next]_vars => DialogsInv'
<1>. SUFFICES ASSUME DialogsInv, [Next]_vars
              PROVE  DialogsInv'
  OBVIOUS
<1>2. CASE OnlyBulk /\ BulkWindow!Next
  BY <1>2, NextBulk DEF OnlyBulk, DialogsInv
<1>3. CASE OnlyClient /\ ClientWindow!Next
  BY <1>3, NextClient DEF OnlyClient, DialogsInv
<1>4. CASE OnlyLogs /\ LogWindow!Next
  BY <1>4, NextLogs DEF OnlyLogs, DialogsInv
<1>5. CASE OnlyForm /\ FormWindow!Next
  BY <1>5, NextForm DEF OnlyForm, DialogsInv
<1>6. CASE OnlyList /\ ListPage!Next
  BY <1>6, NextList DEF OnlyList, DialogsInv
<1>7. CASE UNCHANGED vars
  <2>1. /\ UNCHANGED <<window, bulk, reward, client, stored, app, logs, written, form, visor>>
        /\ UNCHANGED listVars
    BY <1>7 DEF vars, bulkVars, clientVars, logVars, formVars
  <2>3. window' = "bulk" => BulkInv(bulk', reward')
    BY <2>1 DEF DialogsInv
  <2>4. window' = "client" => ClientInv(client', stored', app')
    BY <2>1 DEF DialogsInv
  <2>5. window' = "logs" => LogInv(logs', written')
    BY <2>1 DEF DialogsInv
  <2>6. window' = "form" => FormInv(form', visor')
    BY <2>1 DEF DialogsInv
  <2>7. window' = "list" => ListInv'
    BY <2>1, ListKeeps DEF DialogsInv
  <2>8. window' \in Windows
    BY <2>1 DEF DialogsInv
  <2>. QED
    BY <2>3, <2>4, <2>5, <2>6, <2>7, <2>8 DEF DialogsInv
<1>. QED
  BY <1>2, <1>3, <1>4, <1>5, <1>6, <1>7, OneWindow, Zenon

\* The invariant holds in every state.
LEMMA DialogsInvariant == Spec => []DialogsInv
<1>. QED
  BY InitDialogs, NextDialogs, PTL DEF Spec

\* The window that is open has the state of its component.
THEOREM WindowTypes == Spec => []TypeOK
<1>1. DialogsInv => TypeOK
  <2>. SUFFICES ASSUME DialogsInv
                PROVE  TypeOK
    OBVIOUS
  <2>1. window \in {"bulk", "client", "logs", "form", "list"}
    BY DialogsAssumption DEF DialogsInv, DialogsAssumption
  <2>3. window = "bulk" => BulkWindow!TypeOK
    BY BulkHolds DEF DialogsInv
  <2>4. window = "client" => ClientWindow!TypeOK
    BY ClientHolds DEF DialogsInv
  <2>5. window = "logs" => LogWindow!TypeOK
    BY LogHolds DEF DialogsInv
  <2>6. window = "form" => FormWindow!TypeOK
    BY FormHolds DEF DialogsInv
  <2>7. window = "list" => ListPage!TypeOK
    BY ListHolds DEF DialogsInv
  <2>. QED
    BY <2>1, <2>3, <2>4, <2>5, <2>6, <2>7 DEF TypeOK
<1>. QED
  BY <1>1, DialogsInvariant, PTL

\* Nothing is done that the user did not accept: an operation of a list works
\* only on elements its dialog asked about (deleteSelected()), and Skychat is
\* opened to others only after the question of ngOnInit() was accepted.
THEOREM NothingUnaccepted == Spec => []OnlyConsented
<1>1. DialogsInv => OnlyConsented
  BY FormHolds, ListHolds DEF DialogsInv, OnlyConsented
<1>. QED
  BY <1>1, DialogsInvariant, PTL

\* What a window says is true: a visor shown as done has the new rewards address,
\* the others keep theirs, and the window can be closed only when all are answered
\* (startProcessing() replaces the list that the callbacks index); a page of the
\* discovery is not blank (filterProxies()).  The log of an app is the answer to
\* the present filter; that of a visor is what the window had and the newest
\* entries of the last answer, filtered as is selected, so that it grows with
\* each refresh, beyond the limit of node-logs.component.ts:118.  A form that says
\* it succeeded speaks of a value that the visor saved, whatever the form has by
\* now, and if the transport was to be persistent it was put in the visor's list,
\* where it still is unless another creation of the window dropped it.
THEOREM ShownIsTrueAlways == Spec => []ShownIsTrue
<1>1. DialogsInv => ShownIsTrue
  BY BulkHolds, ClientHolds, LogHolds, FormHolds DEF DialogsInv, ShownIsTrue
<1>. QED
  BY <1>1, DialogsInvariant, PTL

\* The lists of a visor select only what is seen, are not blank while there is
\* an element to show (recalculateElementsToShow()), and have no answer to come
\* from before an operation that has finished (refreshCurrentDisplayedData()).
THEOREM ListsAreTrue == Spec => []ListIsTrue
<1>1. DialogsInv => ListIsTrue
  BY ListHolds DEF DialogsInv, ListIsTrue
<1>. QED
  BY <1>1, DialogsInvariant, PTL

\* The stored history is the one shown, with each server once and no more than
\* the limit (saveHistory()); the list of persistent transports keeps all it had
\* when the window was opened, and loses one that the window added only if
\* another creation put an older list (createPersistent()); and no window that
\* looks at operationSubscription has two requests that are not over.
THEOREM DataAlwaysHold == Spec => []DataHold
<1>1. DialogsInv => DataHold
  BY ClientHolds, FormHolds DEF DialogsInv, DataHold
<1>. QED
  BY <1>1, DialogsInvariant, PTL

\* A server leaves the history only by the user's choice or at the limit, and no
\* request of the client window is replaced before its answer (the flag working
\* of SkysocksClientSettingsComponent).
THEOREM ClientAlwaysKeeps == Spec => ClientKeeps
<1>1. DialogsInv /\ [Next]_vars
        => [window = "client" => ClientWindow!KeepsHistory /\ ClientWindow!KeepsRequest]_vars
  <2>. SUFFICES ASSUME DialogsInv, [Next]_vars, window = "client", ~(UNCHANGED vars)
                PROVE  ClientWindow!KeepsHistory /\ ClientWindow!KeepsRequest
    OBVIOUS
  <2>1. OnlyClient /\ ClientWindow!Next
    BY OneWindow DEF OnlyBulk, OnlyLogs, OnlyForm, OnlyList
  <2>. QED
    BY <2>1, ClientSteps DEF DialogsInv
<1>. QED
  BY <1>1, DialogsInvariant, PTL DEF Spec, ClientKeeps
=============================================================================
