------------------------ MODULE EditingSurfaceProofs ------------------------
(***************************************************************************)
(* Proofs about EditingSurface: an open gesture stays in the hand of the      *)
(* control that began it (GestureHeld), and what the controls show is what the   *)
(* core has accepted (ShownIsAccepted).                                          *)
(*                                                                          *)
(* Both follow from one inductive invariant, IInv: what holds of the editor      *)
(* alone (UiInv), of the pointer and the open gesture (Gripped), of the frames    *)
(* that wait (FrameInv), and of what they tell about the core (NewsInv).  The      *)
(* editor is a record that a handler rewrites in several steps; the facts about    *)
(* each step say which of its fields change, and to what.                           *)
(***************************************************************************)
EXTENDS EditingSurface, FiniteSetTheorems, WellFoundedInduction, TLAPS

-----------------------------------------------------------------------------
(* Types.                                                                  *)

Bits == {0, 1}
Ranges == {r \in Values \X Values : r[1] <= r[2]}
Entries == [value : Values, range : Ranges]
EntriesOf(p) == {e \in Entries : p \in Discrete => e.value \in Bits}

\* Gestures write what dials and handles stand for.
Continuous == Paths \ Discrete
Writings == UNION {[S -> Values] : S \in SUBSET Continuous}
ChoiceValues == UNION {[{p} -> Bits] : p \in Discrete}

Banks == {b \in [Paths -> Entries] : \A p \in Paths : b[p] \in EntriesOf(p)}
Strips == {b \in [Strip -> Entries] : \A p \in Strip : b[p] \in EntriesOf(p)}
Instances == {Own, Peer}

Commands ==
    [kind : {"observe", "begin", "end"}, values : {NoEntries}]
      \cup [kind : {"write", "finish"}, values : Writings]
      \cup [kind : {"edit"}, values : ChoiceValues, scope : BOOLEAN]
      \cup [kind : {"command"}, values : Writings, scope : BOOLEAN]

Frames ==
    [kind : {"snapshot"}, accepted : BOOLEAN, values : Banks]
      \cup [kind : {"edit", "command"}, accepted : BOOLEAN, current : BOOLEAN, scope : BOOLEAN]
      \cup [kind : {"begin", "finish"}, accepted : BOOLEAN]
      \cup [kind : {"unmatched", "restored", "ungrouped", "gone", "unfit"}]
      \cup {f \in [kind : {"changed"}, path : Paths, entry : Entries] :
               f.entry \in EntriesOf(f.path)}
      \cup [kind : {"telemetry", "spectrum"}, target : Instances]
      \cup [kind : {"rate"}, rate : Nat \ {0}]

OpenGestures(paths, on) ==
    [path : paths, on : {on}, values : Writings,
     ready : BOOLEAN, dirty : BOOLEAN, ending : BOOLEAN]
Gestures == {NoGesture} \cup OpenGestures(Dials, "dial") \cup OpenGestures(Handles, Graph)

DialStates == [dragging : BOOLEAN, preview : Values \cup {None}, position : Int]

-----------------------------------------------------------------------------
(* The inductive invariant.                                                *)

UiFields ==
    {"active", "busy", "focus", "lost", "grouped", "scope", "ready", "values", "models", "dials",
     "choice", "leveling", "telemetry", "enabled", "on", "graphOn", "navigation", "source",
     "graph", "gesture", "started", "outdated", "out"}
GraphFields ==
    {"context", "entries", "preview", "q", "rate", "group", "ready", "curves", "others", "banks",
     "all", "spectrum", "dragging", "selected"}

Shaped(r, fields) == r = [f \in fields |-> r[f]]
Same(r, s, fields) == \A f \in fields : s[f] = r[f]

\* The graph is drawn from what it shows, and a handle can only be dragged on it.
GraphInv(g) ==
    /\ Shaped(g, GraphFields)
    /\ g.entries = NoEntries \/ g.entries \in [Bound(g.context) -> Entries]
    /\ g.preview \in Writings /\ g.q \in Values \cup {None} /\ g.rate \in Nat
    /\ g.ready \in BOOLEAN /\ g.dragging \in BOOLEAN
    /\ g.ready => g.entries # NoEntries /\ g.rate # 0 /\ g.curves = Responses(g)
    /\ g.all \in {None, g.curves}
    /\ g.dragging => g.ready /\ g.selected \in Shown(g.context)

UiTypes(u) ==
    /\ Shaped(u, UiFields)
    /\ u.active \in BOOLEAN /\ u.busy \in BOOLEAN /\ u.ready \in BOOLEAN /\ u.scope \in BOOLEAN
    /\ u.started \in BOOLEAN
    /\ u.focus \in Instances
    /\ u.values = NoEntries \/ u.values \in Banks
    /\ u.models = NoEntries \/ u.models \in Strips
    /\ u.dials \in [Dials -> DialStates]
    /\ u.gesture \in Gestures
    /\ u.choice \in {None} \cup Bits

\* An editor that has the values of its bank shows them.
Known(u) ==
    u.ready =>
      /\ u.active /\ u.values \in Banks
      /\ u.models = Restrict(u.values, Strip)
      /\ u.leveling = (u.values[Leveler].value = 1)
      /\ u.graph.context # NoContext =>
           u.graph.context = u.source /\ u.graph.entries = Restrict(u.values, Bound(u.source))

\* Controls are enabled while it may be edited only.
Enabled(u) ==
    /\ u.navigation \in BOOLEAN /\ u.graphOn \in BOOLEAN
    /\ u.on \subseteq u.enabled /\ u.enabled \subseteq DOMAIN u.models
    /\ u.active /\ ~u.busy => u.ready
    /\ u.on # {} \/ u.graphOn \/ u.navigation => u.active /\ ~u.busy
    /\ u.navigation => ~Active(u)

Measures(u) == u.telemetry \in {None, u.focus} /\ u.graph.spectrum \in {None, u.focus}

\* Only what the gesture is about previews a value or is dragged.
DialsHeld(u) == \A d \in Dials : Previewing(u.dials[d]) \/ u.dials[d].dragging => u.gesture.path = d
GraphHeld(u) ==
    /\ u.graph.preview # NoEntries => Active(u)
    /\ u.graph.dragging => Editing(u) /\ u.gesture.on = Graph /\ u.gesture.path = u.graph.selected

Restarted(u) == Editing(u) /\ ~u.ready => u.started

\* What starting over needs, what the handlers keep, and what they restore with SetBusy.
Raw(u) == UiTypes(u) /\ GraphInv(u.graph) /\ DialsHeld(u)
UiBase(u) == Raw(u) /\ Known(u) /\ Measures(u) /\ GraphHeld(u) /\ Restarted(u)
UiInv(u) == UiBase(u) /\ Enabled(u)

Gripped == Editing(ui) => ui.started \/ Held(ui)

\* Which frames may wait: one snapshot, and only while there are no values; the
\* answers the gesture waits for; a refused write only before the answer to the
\* end of its gesture, or before the snapshot the editor starts over with.
Is(fs, i, kind) == fs[i].kind = kind
Once(fs, kind) == \A i, j \in DOMAIN fs : Is(fs, i, kind) /\ Is(fs, j, kind) => i = j

Waits(u, fs) ==
    /\ Once(fs, "snapshot") /\ Once(fs, "begin") /\ Once(fs, "finish")
    /\ \A i \in DOMAIN fs :
         /\ Is(fs, i, "snapshot") => ~u.ready /\ (Active(u) => u.active)
         /\ Is(fs, i, "command") /\ fs[i].current => u.ready
         /\ Is(fs, i, "begin") => Active(u) /\ ~u.gesture.ready
         /\ Is(fs, i, "finish") => Active(u) /\ u.gesture.ready /\ u.gesture.ending
         /\ Is(fs, i, "unmatched") =>
              /\ \A j \in DOMAIN fs : Is(fs, j, "finish") => i < j
              /\ ~Active(u) => ~u.ready /\ \A j \in DOMAIN fs : Is(fs, j, "snapshot") => i < j

FrameInv == Waits(ui, frames)

\* The last that is told of a path is what the core has.
Later(fs, i, p) == \E j \in DOMAIN fs : j > i /\ Is(fs, j, "changed") /\ fs[j].path = p

News(fs, c) ==
    \A i \in DOMAIN fs :
      /\ Is(fs, i, "changed") => Later(fs, i, fs[i].path) \/ fs[i].entry = c[fs[i].path]
      /\ Is(fs, i, "snapshot") => \A p \in Paths : Later(fs, i, p) \/ fs[i].values[p] = c[p]
UpToDate(values, fs, c) == \A p \in Paths : Later(fs, 0, p) \/ values[p] = c[p]

NewsInv == News(frames, core) /\ (ui.ready => UpToDate(ui.values, frames, core))

Types ==
    /\ core \in Banks /\ rate \in Nat
    /\ frames \in Seq(Frames)
    /\ pointer \in {NoPointer, Graph} \cup Strip
    /\ ui.out = << >> /\ ui.outdated = {}

IInv == Types /\ UiInv(ui) /\ Gripped /\ FrameInv /\ NewsInv

-----------------------------------------------------------------------------
(* Recursive functions and sequences.                                      *)

\* Every non-empty set of naturals has a least element.
LEMMA LeastElement == ASSUME NEW T \in SUBSET Nat, T # {} PROVE \E x \in T : \A y \in T : x <= y
<1> DEFINE Below == {p \in Nat \X Nat : p[1] < p[2]}
<1>1. OpToRel(<, Nat) = Below
  BY Zenon DEF OpToRel
<1>2. IsWellFoundedOn(Below, Nat)
  BY <1>1, NatLessThanWellFounded, Zenon
<1>3. \A x, y \in Nat : y < x => <<y, x>> \in Below
  OBVIOUS
<1> HIDE DEF Below
<1>4. PICK x \in T : \A y \in T : ~(<<y, x>> \in Below)
  BY <1>2, WFMin
<1>5. \A y \in T : ~(y < x)
  <2> TAKE y \in T
  <2>1. x \in Nat /\ y \in Nat /\ ~(<<y, x>> \in Below)
    BY <1>4
  <2> QED
    BY <2>1, <1>3
<1> QED
  BY <1>5

\* A set with zero that is closed under successor up to a number has all up to it.
LEMMA Induction ==
  ASSUME NEW N \in Nat, NEW S, 0 \in S, \A n \in 0..N : n \in S /\ n < N => n + 1 \in S
  PROVE  \A n \in 0..N : n \in S
<1> DEFINE T == {n \in 0..N : n \notin S}
<1> SUFFICES ASSUME T # {} PROVE FALSE
  OBVIOUS
<1>1. T \in SUBSET Nat
  OBVIOUS
<1>2. PICK x \in T : \A y \in T : x <= y
  BY <1>1, LeastElement
<1>3. x - 1 \in 0..N /\ x - 1 < N /\ x - 1 \notin T
  BY <1>2
<1> QED
  BY <1>2, <1>3

\* What is kept of a sequence are the elements at the positions, in their order.
Picks(r, s, I) ==
    \E o \in [1..Len(r) -> I] :
        /\ \A k \in 1..Len(r) : r[k] = s[o[k]]
        /\ \A j, k \in 1..Len(r) : j < k => o[j] < o[k]
        /\ \A i \in I : \E k \in 1..Len(r) : o[k] = i

\* What Kept leaves of a sequence is its elements at the kept positions, in their order.
LEMMA KeptFacts ==
  ASSUME NEW C, NEW s \in Seq(C), NEW I \in SUBSET (DOMAIN s)
  PROVE  Kept(s, I) \in Seq(C) /\ Picks(Kept(s, I), s, I)
<1> DEFINE Step(f, n) == IF n = 0 THEN << >> ELSE IF n \in I THEN Append(f[n - 1], s[n]) ELSE f[n - 1]
           Rec(f, m) == f = [n \in 0..m |-> Step(f, n)]
           Good(r, m) == r \in Seq(C) /\ Picks(r, s, I \cap (1..m))
           S == {m \in 0..Len(s) : \E f : Rec(f, m) /\ Good(f[m], m)}
<1>0. Len(s) \in Nat /\ DOMAIN s = 1..Len(s)
  OBVIOUS
<1>1. 0 \in S
  <2> DEFINE f == [n \in 0..0 |-> << >>]
  <2>1. Rec(f, 0)
    OBVIOUS
  <2>2. f[0] = << >> /\ I \cap (1..0) = {} /\ Len(<< >>) = 0 /\ << >> \in Seq(C)
    OBVIOUS
  <2>3. Picks(<< >>, s, {})
    <3> DEFINE o == [k \in 1..0 |-> 0]
    <3>1. o \in [1..0 -> {}]
      OBVIOUS
    <3> QED
      BY <3>1 DEF Picks
  <2>4. Good(f[0], 0)
    BY <2>2, <2>3
  <2> HIDE DEF f, Rec, Good
  <2> QED
    BY <2>1, <2>4, <1>0
<1>2. ASSUME NEW m \in 0..Len(s), m \in S, m < Len(s) PROVE m + 1 \in S
  <2>1. PICK f : Rec(f, m) /\ Good(f[m], m)
    BY <1>2
  <2> DEFINE next == IF m + 1 \in I THEN Append(f[m], s[m + 1]) ELSE f[m]
             g == [n \in 0..(m + 1) |-> IF n = m + 1 THEN next ELSE f[n]]
  <2>2. \A n \in 0..m : g[n] = f[n] /\ f[n] = Step(f, n)
    <3>1. \A n \in 0..m : f[n] = Step(f, n)
      BY <2>1, Zenon
    <3>2. \A n \in 0..m : g[n] = f[n]
      OBVIOUS
    <3> QED
      BY <3>1, <3>2
  <2>3. Rec(g, m + 1)
    <3>1. \A n \in 0..(m + 1) : g[n] = Step(g, n)
      <4> TAKE n \in 0..(m + 1)
      <4>1. CASE n = m + 1
        BY <4>1, <2>2
      <4>2. CASE n # m + 1
        <5>1. n \in 0..m /\ (n # 0 => n - 1 \in 0..m)
          BY <4>2
        <5>2. g[n] = f[n] /\ f[n] = Step(f, n) /\ (n # 0 => g[n - 1] = f[n - 1])
          BY <5>1, <2>2
        <5>3. Step(g, n) = Step(f, n)
          BY <5>2
        <5> QED
          BY <5>2, <5>3
      <4> QED
        BY <4>1, <4>2
    <3> QED
      BY <3>1
  <2>4. Good(next, m + 1)
    <3> DEFINE r == f[m]
    <3>1. r \in Seq(C) /\ Picks(r, s, I \cap (1..m))
      BY <2>1
    <3>2. PICK o \in [1..Len(r) -> I \cap (1..m)] :
            /\ \A k \in 1..Len(r) : r[k] = s[o[k]]
            /\ \A j, k \in 1..Len(r) : j < k => o[j] < o[k]
            /\ \A i \in I \cap (1..m) : \E k \in 1..Len(r) : o[k] = i
      BY <3>1 DEF Picks
    <3> HIDE DEF r
    <3>3. CASE m + 1 \notin I
      <4>1. I \cap (1..(m + 1)) = I \cap (1..m) /\ next = r
        BY <3>3 DEF r
      <4> QED
        BY <4>1, <3>1
    <3>4. CASE m + 1 \in I
      <4> DEFINE a == Append(r, s[m + 1])
                 p == [k \in 1..(Len(r) + 1) |-> IF k = Len(r) + 1 THEN m + 1 ELSE o[k]]
      <4>1. next = a /\ s[m + 1] \in C /\ Len(r) \in Nat
        BY <3>4, <3>1 DEF r
      <4>2. a \in Seq(C) /\ Len(a) = Len(r) + 1 /\ a[Len(r) + 1] = s[m + 1]
            /\ \A k \in 1..Len(r) : a[k] = r[k]
        BY <4>1, <3>1
      <4> HIDE DEF a
      <4>3. p \in [1..Len(a) -> I \cap (1..(m + 1))]
        BY <4>2, <4>1, <3>4, <3>2
      <4>4. \A k \in 1..Len(a) : a[k] = s[p[k]]
        <5> TAKE k \in 1..Len(a)
        <5>1. CASE k = Len(r) + 1
          BY <5>1, <4>2
        <5>2. CASE k # Len(r) + 1
          <6>1. k \in 1..Len(r)
            BY <5>2, <4>1, <4>2
          <6>2. a[k] = r[k] /\ p[k] = o[k] /\ r[k] = s[o[k]]
            BY <6>1, <5>2, <4>2, <3>2
          <6> QED
            BY <6>2
        <5> QED
          BY <5>1, <5>2
      <4>5. \A j, k \in 1..Len(a) : j < k => p[j] < p[k]
        <5> SUFFICES ASSUME NEW j \in 1..Len(a), NEW k \in 1..Len(a), j < k PROVE p[j] < p[k]
          OBVIOUS
        <5>0. j \in 1..Len(r) /\ j # Len(r) + 1
          BY <4>1, <4>2
        <5>1. j \in 1..Len(r) /\ p[j] = o[j] /\ o[j] \in 1..m
          BY <5>0, <3>2
        <5>2. CASE k = Len(r) + 1
          BY <5>1, <5>2, <4>2, <4>1
        <5>3. CASE k # Len(r) + 1
          <6>1. k \in 1..Len(r) /\ p[k] = o[k]
            BY <5>3, <4>1, <4>2
          <6> QED
            BY <6>1, <5>1, <3>2
        <5> QED
          BY <5>2, <5>3
      <4>6. \A i \in I \cap (1..(m + 1)) : \E k \in 1..Len(a) : p[k] = i
        <5> TAKE i \in I \cap (1..(m + 1))
        <5>1. CASE i = m + 1
          BY <5>1, <4>1, <4>2
        <5>2. CASE i # m + 1
          <6>1. PICK k \in 1..Len(r) : o[k] = i
            BY <5>2, <3>2
          <6>2. k \in 1..Len(a) /\ p[k] = i
            BY <6>1, <4>1, <4>2
          <6> QED
            BY <6>2
        <5> QED
          BY <5>1, <5>2
      <4> HIDE DEF p
      <4>7. Picks(a, s, I \cap (1..(m + 1)))
        BY <4>3, <4>4, <4>5, <4>6 DEF Picks
      <4> QED
        BY <4>7, <4>1, <4>2
    <3> QED
      BY <3>3, <3>4
  <2>5. g[m + 1] = next /\ m + 1 \in 0..Len(s)
    BY <1>2
  <2> HIDE DEF g, next, Rec, Good
  <2> QED
    BY <2>3, <2>4, <2>5
<1>3. \A m \in 0..Len(s) : m \in S
  <2> HIDE DEF S
  <2> QED
    BY <1>0, <1>1, <1>2, Induction
<1>4. PICK f : Rec(f, Len(s)) /\ Good(f[Len(s)], Len(s))
  <2>1. Len(s) \in S
    <3> HIDE DEF S
    <3> QED
      BY <1>3, <1>0
  <2> QED
    BY <2>1, Zenon
<1> DEFINE k == CHOOSE f1 : Rec(f1, Len(s))
<1>5. Rec(k, Len(s))
  BY <1>4
<1>6. \A n \in 0..Len(s) : k[n] = f[n]
  <2> DEFINE E == {n \in 0..Len(s) : k[n] = f[n]}
  <2>1. \A n \in 0..Len(s) : k[n] = Step(k, n) /\ f[n] = Step(f, n)
    BY <1>4, <1>5
  <2>2. 0 \in E
    BY <2>1, <1>0
  <2>3. ASSUME NEW n \in 0..Len(s), n \in E, n < Len(s) PROVE n + 1 \in E
    <3>1. n + 1 \in 0..Len(s) /\ n + 1 # 0 /\ (n + 1) - 1 = n /\ k[n] = f[n]
      BY <2>3, <1>0
    <3> QED
      BY <3>1, <2>1
  <2>4. \A n \in 0..Len(s) : n \in E
    <3> HIDE DEF E
    <3> QED
      BY <1>0, <2>2, <2>3, Induction
  <2> QED
    BY <2>4, SMTT(30)
<1>7. Kept(s, I) = k[Len(s)]
  BY DEF Kept
<1>8. I \cap (1..Len(s)) = I
  BY <1>0
<1>9. Good(f[Len(s)], Len(s)) /\ k[Len(s)] = f[Len(s)]
  BY <1>4, <1>6, <1>0
<1> HIDE DEF k, Step, Rec
<1> QED
  BY <1>9, <1>7, <1>8

\* The commands of a handler run one after another.
LEMMA RunsFacts ==
  ASSUME NEW st, NEW cs, Len(cs) \in Nat, NEW refused
  PROVE  /\ Len(cs) = 0 => Runs(st, cs, refused) = st
         /\ Len(cs) = 1 => Runs(st, cs, refused) = Run(st, cs[1], 1 \notin refused)
         /\ Len(cs) = 2 => Runs(st, cs, refused)
                             = Run(Run(st, cs[1], 1 \notin refused), cs[2], 2 \notin refused)
<1> DEFINE Step(f, n) == IF n = 0 THEN st ELSE Run(f[n - 1], cs[n], n \notin refused)
           Rec(f) == f = [n \in 0..Len(cs) |-> Step(f, n)]
           ran == CHOOSE f : Rec(f)
           one == Run(st, cs[1], 1 \notin refused)
           two == Run(one, cs[2], 2 \notin refused)
<1>1. Runs(st, cs, refused) = ran[Len(cs)]
  BY DEF Runs
<1>2. CASE Len(cs) = 0
  <2> DEFINE f == [n \in 0..0 |-> st]
  <2>1. Rec(f)
    BY <1>2
  <2>2. Rec(ran)
    BY <2>1, Zenon
  <2>3. ran[0] = st
    BY <2>2, <1>2
  <2> QED
    BY <1>1, <1>2, <2>3
<1>3. CASE Len(cs) = 1
  <2> DEFINE f == [n \in 0..1 |-> IF n = 0 THEN st ELSE one]
  <2>1. \A n \in 0..1 : f[n] = Step(f, n)
    <3>1. f[0] = Step(f, 0) /\ f[1] = Step(f, 1)
      OBVIOUS
    <3> QED
      BY <3>1
  <2>2. Rec(f)
    BY <1>3, <2>1
  <2> HIDE DEF f
  <2>3. Rec(ran)
    BY <2>2, Zenon
  <2>4. \A n \in 0..Len(cs) : ran[n] = Step(ran, n)
    BY <2>3, Zenon
  <2> HIDE DEF ran
  <2>5. ran[0] = st /\ ran[1] = one
    BY <2>4, <1>3
  <2> QED
    BY <1>1, <1>3, <2>5
<1>4. CASE Len(cs) = 2
  <2> DEFINE f == [n \in 0..2 |-> IF n = 0 THEN st ELSE IF n = 1 THEN one ELSE two]
  <2>1. \A n \in 0..2 : f[n] = Step(f, n)
    <3>1. f[0] = Step(f, 0) /\ f[1] = Step(f, 1) /\ f[2] = Step(f, 2)
      OBVIOUS
    <3> QED
      BY <3>1
  <2>2. Rec(f)
    BY <1>4, <2>1
  <2> HIDE DEF f
  <2>3. Rec(ran)
    BY <2>2, Zenon
  <2>4. \A n \in 0..Len(cs) : ran[n] = Step(ran, n)
    BY <2>3, Zenon
  <2> HIDE DEF ran
  <2>5. ran[0] = st /\ ran[1] = one /\ ran[2] = two
    BY <2>4, <1>4
  <2> QED
    BY <1>1, <1>4, <2>5
<1> QED
  BY <1>2, <1>3, <1>4

-----------------------------------------------------------------------------
(* Values, ranges and what is written.                                     *)

\* Zero and one are values, and values are numbers.
LEMMA ValueFacts ==
  /\ Top \in Nat /\ Top # 0 /\ Rough \in Nat /\ Rough # 0
  /\ 0 \in Values /\ 1 \in Values /\ Values \subseteq Nat /\ None \notin Values
  /\ <<0, Top>> \in Ranges /\ <<1, 1>> \in Ranges
BY ScaleAssumption, ControlsAssumption DEF Values, Ranges

\* Which paths there are.
LEMMA PathFacts ==
  /\ Dials \subseteq Continuous /\ Dials \subseteq Strip /\ Discrete \subseteq Strip
  /\ Strip \subseteq Paths /\ Continuous \subseteq Paths /\ Strip = Dials \cup Discrete
  /\ Leveler \in Discrete /\ Type \in Discrete
  /\ \A h \in Handles : Parameters(h) \subseteq Continuous /\ h \notin Strip
  /\ \A c : Bound(c) \subseteq Continuous /\ Bound(c) \cap Strip = {}
  /\ None \notin Strip /\ None \notin Handles
  /\ NoPointer \notin Strip /\ Graph \notin Strip /\ NoPointer # Graph
<1>1. \A h \in Handles : Parameters(h) \cap Strip = {} /\ Parameters(h) \subseteq Paths /\ h \notin Strip
  BY ControlsAssumption DEF Paths
<1>2. \A h \in Handles : Parameters(h) \subseteq Continuous
  BY <1>1 DEF Continuous, Strip
<1>3. \A c : Bound(c) \subseteq Continuous /\ Bound(c) \cap Strip = {}
  BY <1>1, <1>2 DEF Bound, Shown
<1> QED
  BY <1>1, <1>2, <1>3, ControlsAssumption DEF Continuous, Paths, Strip, Discrete, NoPointer, Graph

\* Nothing is written, one value more, or zero everywhere.
LEMMA NoEntriesWriting == NoEntries \in Writings /\ DOMAIN NoEntries = {}
<1>1. NoEntries \in [{} -> Values]
  BY DEF NoEntries
<1> QED
  BY <1>1 DEF Writings, NoEntries

\* A writing gives values to continuous paths.
LEMMA WritingsFacts ==
  ASSUME NEW f \in Writings
  PROVE  DOMAIN f \subseteq Continuous /\ f \in [DOMAIN f -> Values]
BY DEF Writings

\* With sets its path and adds no other.
LEMMA WithFacts ==
  ASSUME NEW f, NEW p, NEW v
  PROVE  /\ DOMAIN With(p, v, f) = DOMAIN f \cup {p}
         /\ With(p, v, f) # NoEntries
         /\ With(p, v, f)[p] = v
<1>1. DOMAIN With(p, v, f) = DOMAIN f \cup {p} /\ With(p, v, f)[p] = v
  BY DEF With
<1> QED
  BY <1>1, NoEntriesWriting

\* Setting a continuous path of a writing gives a writing.
LEMMA WithWriting ==
  ASSUME NEW f \in Writings, NEW p \in Continuous, NEW v \in Values
  PROVE  With(p, v, f) \in Writings
<1>1. DOMAIN f \subseteq Continuous /\ f \in [DOMAIN f -> Values]
  BY WritingsFacts
<1>2. With(p, v, f) \in [DOMAIN f \cup {p} -> Values]
  BY <1>1 DEF With
<1> QED
  BY <1>1, <1>2 DEF Writings

\* Resetting continuous paths to zero is a writing.
LEMMA ZeroWriting ==
  ASSUME NEW S \in SUBSET Continuous
  PROVE  [p \in S |-> 0] \in Writings
BY ValueFacts DEF Writings

\* One bit for a discrete path is a value the choice button may write.
LEMMA ChoiceWriting ==
  ASSUME NEW p \in Discrete, NEW v \in Bits
  PROVE  With(p, v, NoEntries) \in ChoiceValues
<1>1. With(p, v, NoEntries) = [q \in {p} |-> v]
  BY NoEntriesWriting DEF With
<1> QED
  BY <1>1 DEF ChoiceValues

\* Positions are clamped into the range of the group.
LEMMA ClampFacts ==
  ASSUME NEW v \in Int, NEW r \in Ranges
  PROVE  Clamp(v, r[1], r[2]) \in Values
BY ValueFacts DEF Clamp, Ranges, Values

\* The range a control edits within is a range, for one editor and for a group.
LEMMA RangeFacts ==
  ASSUME NEW e \in Entries, NEW group
  PROVE  EditingRange(e, group) \in Ranges
BY ValueFacts DEF EditingRange, Entries

\* Normalizing any position of the pointer gives a value.
LEMMA NormalizeFacts ==
  ASSUME NEW v \in Int
  PROVE  Normalize(v) \in Values
BY ValueFacts DEF Normalize, Clamp, Values

\* Quantizing any position within a range gives a value.
LEMMA QuantizeFacts ==
  ASSUME NEW v \in Int, NEW rough \in BOOLEAN, NEW r \in Ranges
  PROVE  Quantize(v, rough, r) \in Values
BY ValueFacts, ClampFacts DEF Quantize

\* What the core has stays a bank when it is written.
LEMMA BankFacts ==
  ASSUME NEW b \in Banks
  PROVE  /\ \A p \in Paths : b[p] \in EntriesOf(p) /\ b[p] \in Entries
         /\ Restrict(b, Strip) \in Strips
         /\ \A c : Restrict(b, Bound(c)) \in [Bound(c) -> Entries]
BY PathFacts DEF Banks, EntriesOf, Restrict, Strips

\* The models of the strip have an entry per control, and a bit where it is discrete.
LEMMA StripsFacts ==
  ASSUME NEW b \in Strips
  PROVE  /\ DOMAIN b = Strip
         /\ \A p \in Strip : b[p] \in Entries /\ b[p].value \in Values /\ b[p].range \in Ranges
         /\ \A p \in Discrete : b[p].value \in Bits
BY PathFacts DEF Strips, EntriesOf, Entries

\* A bank stays well formed when a gesture or a choice writes it.
LEMMA WithValuesFacts ==
  ASSUME NEW b \in Banks, NEW w \in Writings \cup ChoiceValues
  PROVE  WithValues(b, w) \in Banks
<1>1. WithValues(b, w) = [p \in Paths |-> IF p \in DOMAIN w THEN [b[p] EXCEPT !.value = w[p]] ELSE b[p]]
  BY DEF WithValues
<1>2. ASSUME NEW p \in Paths PROVE WithValues(b, w)[p] \in EntriesOf(p)
  <2>1. b[p] \in EntriesOf(p) /\ b[p] \in Entries
    BY BankFacts
  <2>2. CASE p \notin DOMAIN w
    BY <1>1, <2>1, <2>2
  <2>3. CASE p \in DOMAIN w
    <3>1. w[p] \in Values /\ (p \in Discrete => w[p] \in Bits)
      <4>1. CASE w \in Writings
        BY <4>1, <2>3, WritingsFacts DEF Continuous
      <4>2. CASE w \in ChoiceValues
        <5>1. PICK q \in Discrete : w \in [{q} -> Bits]
          BY <4>2 DEF ChoiceValues
        <5> QED
          BY <5>1, <2>3, ValueFacts DEF Bits
      <4> QED
        BY <4>1, <4>2
    <3>2. [b[p] EXCEPT !.value = w[p]] \in Entries /\ [b[p] EXCEPT !.value = w[p]].value = w[p]
      BY <2>1, <3>1 DEF Entries
    <3> QED
      BY <1>1, <2>3, <3>1, <3>2 DEF EntriesOf
  <2> QED
    BY <2>2, <2>3
<1>3. \A p \in Paths : WithValues(b, w)[p] \in Entries
  BY <1>2 DEF EntriesOf
<1> QED
  BY <1>1, <1>2, <1>3 DEF Banks

-----------------------------------------------------------------------------
(* The graph.                                                              *)

\* What a graph must be for its curves to be calculated.
GraphBase(g) ==
    /\ Shaped(g, GraphFields)
    /\ g.entries = NoEntries \/ g.entries \in [Bound(g.context) -> Entries]
    /\ g.preview \in Writings /\ g.q \in Values \cup {None} /\ g.rate \in Nat
    /\ g.ready \in BOOLEAN /\ g.dragging \in BOOLEAN
    /\ g.dragging => g.entries # NoEntries /\ g.rate # 0 /\ g.selected \in Shown(g.context)

\* The graph's invariant holds of its parts that composing does not recompute.
LEMMA GraphInvBase ==
  ASSUME NEW g, GraphInv(g)
  PROVE  GraphBase(g)
BY DEF GraphInv, GraphBase

\* The responses depend on context, entries, preview and rate only.
LEMMA SameResponses ==
  ASSUME NEW g, NEW h, Same(g, h, {"context", "entries", "preview", "rate"})
  PROVE  Responses(h) = Responses(g)
<1>1. h.context = g.context /\ h.entries = g.entries /\ h.preview = g.preview /\ h.rate = g.rate
  BY DEF Same
<1>2. \A p : Value(h, p) = Value(g, p)
  BY <1>1 DEF Value
<1> QED
  BY <1>1, <1>2 DEF Responses

\* The curve of all banks is that of the one in focus, or none.
LEMMA ComposeFacts ==
  ASSUME NEW g, Shaped(g, GraphFields)
  PROVE  /\ Shaped(ComposeAllBanks(g), GraphFields)
         /\ Same(g, ComposeAllBanks(g), GraphFields \ {"all"})
         /\ ComposeAllBanks(g).all \in {None, g.curves}
BY Zenon DEF Shaped, ComposeAllBanks, Same, GraphFields

\* Composing the banks restores the graph's invariant from its base.
LEMMA ComposeInv ==
  ASSUME NEW g, GraphBase(g), g.ready => g.entries # NoEntries /\ g.rate # 0 /\ g.curves = Responses(g),
         g.dragging => g.ready
  PROVE  GraphInv(ComposeAllBanks(g))
BY ComposeFacts, SameResponses DEF GraphBase, Same, GraphFields, GraphInv

\* Calculating the curves makes the graph fit what it shows.
LEMMA RebuildInv ==
  ASSUME NEW g, GraphBase(g)
  PROVE  /\ GraphInv(Rebuild(g))
         /\ Same(g, Rebuild(g), GraphFields \ {"ready", "curves", "all"})
<1>1. CASE g.entries = NoEntries \/ g.rate = 0
  BY <1>1 DEF Rebuild, GraphBase, Shaped, Same, GraphFields, GraphInv
<1>2. CASE ~(g.entries = NoEntries \/ g.rate = 0)
  <2> DEFINE h == [g EXCEPT !.ready = TRUE, !.curves = Responses(g)]
  <2>1. Rebuild(g) = ComposeAllBanks(h)
    BY <1>2, Zenon DEF Rebuild
  <2>2. /\ Shaped(h, GraphFields) /\ Same(g, h, GraphFields \ {"ready", "curves"})
        /\ h.ready = TRUE /\ h.curves = Responses(g)
    BY Zenon DEF GraphBase, Shaped, Same, GraphFields
  <2> HIDE DEF h
  <2>3. /\ h.context = g.context /\ h.entries = g.entries /\ h.preview = g.preview /\ h.rate = g.rate
        /\ h.q = g.q /\ h.dragging = g.dragging /\ h.selected = g.selected
    BY <2>2 DEF Same, GraphFields
  <2>4. Responses(h) = Responses(g)
    BY <2>3, SameResponses DEF Same
  <2>5. GraphBase(h)
    BY <2>2, <2>3, <1>2 DEF GraphBase
  <2>6. GraphInv(ComposeAllBanks(h))
    BY <2>2, <2>3, <2>4, <2>5, <1>2, ComposeInv
  <2>7. Same(h, ComposeAllBanks(h), GraphFields \ {"all"})
    BY <2>2, ComposeFacts
  <2>8. Same(g, ComposeAllBanks(h), GraphFields \ {"ready", "curves", "all"})
    BY <2>2, <2>7 DEF Same
  <2> QED
    BY <2>1, <2>6, <2>8
<1> QED
  BY <1>1, <1>2

\* Rebuilding all banks keeps the graph's invariant and touches the other banks only.
LEMMA RebuildAllBanksInv ==
  ASSUME NEW g, GraphInv(g)
  PROVE  /\ GraphInv(RebuildAllBanks(g))
         /\ Same(g, RebuildAllBanks(g), GraphFields \ {"others", "all"})
BY SameResponses, ComposeInv, ComposeFacts DEF RebuildAllBanks, GraphInv, Shaped, Same,
   GraphFields, GraphBase

\* Replacing what the curves do not depend on.
LEMMA GraphKept ==
  ASSUME NEW g, GraphInv(g), NEW h, Shaped(h, GraphFields),
         Same(g, h, {"context", "entries", "preview", "q", "rate", "ready", "curves", "all"}),
         h.dragging \in BOOLEAN,
         h.dragging => g.ready /\ h.selected \in Shown(g.context)
  PROVE  GraphInv(h)
BY SameResponses DEF Same, GraphInv

\* A cleared graph keeps its invariant, shows nothing and drags nothing.
LEMMA ClearFacts ==
  ASSUME NEW g, GraphInv(g)
  PROVE  /\ GraphInv(Clear(g))
         /\ Clear(g).context = NoContext /\ Clear(g).preview = NoEntries
         /\ Clear(g).dragging = FALSE /\ Clear(g).spectrum = None
<1> DEFINE h == Clear(g)
<1>1. /\ Shaped(h, GraphFields)
      /\ h.context = NoContext /\ h.entries = NoEntries /\ h.preview = NoEntries /\ h.q = None
      /\ h.ready = FALSE /\ h.curves = NoEntries /\ h.all = None /\ h.dragging = FALSE
      /\ h.spectrum = None /\ h.rate = g.rate
  BY Zenon DEF GraphInv, Shaped, Clear, ResetInteraction, ClearSpectrum, GraphFields
<1> HIDE DEF h
<1>2. GraphInv(h)
  BY <1>1, NoEntriesWriting DEF GraphInv
<1> QED
  BY <1>1, <1>2 DEF h

\* A snapshot replaces all but the measurements.
LEMMA SetSnapshotFacts ==
  ASSUME NEW g, GraphInv(g), NEW c, NEW b \in Banks, NEW r \in Nat
  PROVE  LET h == SetSnapshot(ResetInteraction(g), c, b, r)
         IN  /\ GraphInv(h)
             /\ h.context = c /\ h.entries = Restrict(b, Bound(c)) /\ h.preview = NoEntries
             /\ h.dragging = FALSE /\ h.spectrum \in {None, g.spectrum}
<1> DEFINE i == ResetInteraction(g)
           s == SetSpectrumRate(i, r)
           k == [s EXCEPT !.context = c, !.preview = NoEntries, !.q = None,
                          !.entries = Restrict(b, Bound(c))]
<1>1. SetSnapshot(i, c, b, r) = RebuildAllBanks(Rebuild(k))
  BY DEF SetSnapshot
<1>2. Shaped(i, GraphFields) /\ i.dragging = FALSE /\ Same(g, i, GraphFields \ {"dragging", "selected"})
  BY Zenon DEF ResetInteraction, GraphInv, Shaped, Same, GraphFields
<1>3. i.rate = g.rate /\ i.spectrum = g.spectrum /\ i.ready = g.ready
  BY <1>2 DEF Same, GraphFields
<1> HIDE DEF i
<1>4. /\ Shaped(s, GraphFields) /\ s.rate = r /\ s.spectrum \in {None, g.spectrum}
      /\ s.dragging = FALSE /\ s.ready = i.ready
  <2>1. CASE r = i.rate
    BY <2>1, <1>2, <1>3 DEF SetSpectrumRate
  <2>2. CASE r # i.rate
    BY <1>2, <2>2 DEF SetSpectrumRate, ClearSpectrum, Shaped, GraphFields
  <2> QED
    BY <2>1, <2>2
<1> HIDE DEF s
<1>5. /\ Shaped(k, GraphFields) /\ k.context = c /\ k.preview = NoEntries /\ k.q = None
      /\ k.entries = Restrict(b, Bound(c)) /\ k.rate = s.rate /\ k.spectrum = s.spectrum
      /\ k.dragging = s.dragging /\ k.ready = s.ready
  BY <1>4, Zenon DEF Shaped, GraphFields
<1> HIDE DEF k
<1>6. GraphBase(k)
  BY <1>3, <1>4, <1>5, BankFacts, NoEntriesWriting DEF GraphBase, GraphInv
<1>7. GraphInv(Rebuild(k)) /\ Same(k, Rebuild(k), GraphFields \ {"ready", "curves", "all"})
  BY <1>6, RebuildInv
<1> DEFINE m == Rebuild(k)
           h == RebuildAllBanks(m)
<1>8. GraphInv(h) /\ Same(m, h, GraphFields \ {"others", "all"})
  BY <1>7, RebuildAllBanksInv
<1> HIDE DEF m
<1> HIDE DEF h
<1>9. /\ m.context = k.context /\ m.entries = k.entries /\ m.preview = k.preview
      /\ m.dragging = k.dragging /\ m.spectrum = k.spectrum
  BY <1>7 DEF Same, GraphFields, m
<1>10. /\ h.context = m.context /\ h.entries = m.entries /\ h.preview = m.preview
       /\ h.dragging = m.dragging /\ h.spectrum = m.spectrum
  BY <1>8 DEF Same, GraphFields
<1> QED
  BY <1>1, <1>4, <1>5, <1>8, <1>9, <1>10 DEF h, m, i

\* An accepted value goes to the parameter the graph shows, if any.
LEMMA ApplyEntryFacts ==
  ASSUME NEW g, GraphInv(g), NEW p, NEW e \in Entries
  PROVE  LET h == ApplyEntry(g, p, e)
         IN  /\ GraphInv(h)
             /\ Same(g, h, GraphFields \ {"entries", "ready", "curves", "all"})
             /\ h.entries = IF p \in DOMAIN g.entries THEN [g.entries EXCEPT ![p] = e] ELSE g.entries
<1>1. CASE p \notin DOMAIN g.entries
  BY <1>1 DEF ApplyEntry, Same
<1>2. CASE p \in DOMAIN g.entries
  <2> DEFINE n == [g.entries EXCEPT ![p] = e]
             k == [g EXCEPT !.entries = n]
  <2>1. ApplyEntry(g, p, e) = Rebuild(k)
    BY <1>2, Zenon DEF ApplyEntry
  <2>2. g.entries \in [Bound(g.context) -> Entries] /\ p \in Bound(g.context)
    BY <1>2, NoEntriesWriting DEF GraphInv
  <2>3. n \in [Bound(g.context) -> Entries] /\ n # NoEntries
    BY <2>2, NoEntriesWriting
  <2> HIDE DEF n
  <2>4. Shaped(k, GraphFields) /\ k.entries = n /\ Same(g, k, GraphFields \ {"entries"})
    BY Zenon DEF GraphInv, Shaped, Same, GraphFields
  <2> HIDE DEF k
  <2>6. GraphBase(k)
    BY <2>3, <2>4 DEF GraphBase, GraphInv, Same, GraphFields
  <2>7. GraphInv(Rebuild(k)) /\ Same(k, Rebuild(k), GraphFields \ {"ready", "curves", "all"})
    BY <2>6, RebuildInv
  <2>8. Same(g, Rebuild(k), GraphFields \ {"entries", "ready", "curves", "all"}) /\ Rebuild(k).entries = n
    BY <2>4, <2>7 DEF Same, GraphFields
  <2> QED
    BY <1>2, <2>1, <2>7, <2>8 DEF n
<1> QED
  BY <1>1, <1>2

\* Another sample rate: other curves, and no spectrum.
LEMMA SetSampleRateFacts ==
  ASSUME NEW g, GraphInv(g), NEW r \in Nat \ {0}
  PROVE  LET h == SetSampleRate(g, r)
         IN  /\ GraphInv(h)
             /\ Same(g, h, GraphFields \ {"rate", "spectrum", "ready", "curves", "others", "all"})
             /\ h.spectrum \in {None, g.spectrum}
<1>1. CASE r = g.rate
  BY <1>1 DEF SetSampleRate, Same
<1>2. CASE r # g.rate
  <2> DEFINE k == ClearSpectrum([g EXCEPT !.rate = r])
  <2>1. SetSampleRate(g, r) = RebuildAllBanks(Rebuild(k))
    BY <1>2, Zenon DEF SetSampleRate, SetSpectrumRate
  <2>2. Shaped(k, GraphFields) /\ Same(g, k, GraphFields \ {"rate", "spectrum"})
        /\ k.rate = r /\ k.spectrum = None
    BY Zenon DEF GraphInv, Shaped, Same, GraphFields, ClearSpectrum
  <2> HIDE DEF k
  <2>4. GraphBase(k)
    BY <2>2 DEF GraphBase, GraphInv, Same, GraphFields
  <2>5. GraphInv(Rebuild(k)) /\ Same(k, Rebuild(k), GraphFields \ {"ready", "curves", "all"})
    BY <2>4, RebuildInv
  <2> DEFINE m == Rebuild(k)
             h == RebuildAllBanks(m)
  <2>6. GraphInv(h) /\ Same(m, h, GraphFields \ {"others", "all"})
    BY <2>5, RebuildAllBanksInv
  <2>7. Same(k, m, GraphFields \ {"ready", "curves", "all"})
    BY <2>5
  <2> HIDE DEF h
  <2> HIDE DEF m
  <2>8. Same(g, h, GraphFields \ {"rate", "spectrum", "ready", "curves", "others", "all"})
        /\ h.spectrum = k.spectrum
    BY <2>2, <2>6, <2>7 DEF Same, GraphFields
  <2> QED
    BY <2>1, <2>2, <2>6, <2>8 DEF h, m
<1> QED
  BY <1>1, <1>2

\* Snapshots of the banks keep the graph's invariant and touch the other banks only.
LEMMA ApplyBankSnapshotsFacts ==
  ASSUME NEW g, GraphInv(g)
  PROVE  /\ GraphInv(ApplyBankSnapshots(g))
         /\ Same(g, ApplyBankSnapshots(g), GraphFields \ {"banks", "others", "all"})
<1> DEFINE k == [g EXCEPT !.banks = TRUE]
<1>1. Shaped(k, GraphFields) /\ Same(g, k, GraphFields \ {"banks"})
  BY Zenon DEF GraphInv, Shaped, Same, GraphFields
<1>2. ApplyBankSnapshots(g) = RebuildAllBanks(k)
  BY DEF ApplyBankSnapshots
<1> HIDE DEF k
<1>3. Same(g, k, {"context", "entries", "preview", "q", "rate", "ready", "curves", "all"})
      /\ k.dragging = g.dragging /\ k.selected = g.selected
  BY <1>1 DEF Same, GraphFields
<1>4. GraphInv(k)
  BY <1>1, <1>3, GraphKept DEF GraphInv
<1>5. GraphInv(RebuildAllBanks(k)) /\ Same(k, RebuildAllBanks(k), GraphFields \ {"others", "all"})
  BY <1>4, RebuildAllBanksInv
<1>6. Same(g, RebuildAllBanks(k), GraphFields \ {"banks", "others", "all"})
  BY <1>1, <1>5 DEF Same
<1> QED
  BY <1>2, <1>5, <1>6

\* A preview replaces the values of the parameters it is about.
LEMMA ApplyPreviewFacts ==
  ASSUME NEW g, GraphBase(g), NEW w \in Writings
  PROVE  LET h == ApplyPreview(g, w)
         IN  /\ GraphInv(h) /\ h.preview = w
             /\ Same(g, h, GraphFields \ {"preview", "ready", "curves", "all"})
BY RebuildInv DEF ApplyPreview, GraphBase, Shaped, Same, GraphFields

\* Finishing a preview restores the graph's invariant with no preview and no drag.
LEMMA FinishGraphPreviewFacts ==
  ASSUME NEW g, GraphBase(g)
  PROVE  LET h == FinishGraphPreview(g)
         IN  /\ GraphInv(h) /\ h.preview = NoEntries /\ h.dragging = FALSE
             /\ Same(g, h, GraphFields \ {"preview", "q", "dragging", "ready", "curves", "all"})
<1> DEFINE k == [g EXCEPT !.preview = NoEntries, !.q = None, !.dragging = FALSE]
<1>1. FinishGraphPreview(g) = Rebuild(k)
  BY DEF FinishGraphPreview
<1>2. Shaped(k, GraphFields) /\ k.preview = NoEntries /\ k.q = None /\ k.dragging = FALSE
      /\ Same(g, k, GraphFields \ {"preview", "q", "dragging"})
  BY Zenon DEF GraphBase, Shaped, Same, GraphFields
<1> HIDE DEF k
<1>3. /\ k.context = g.context /\ k.entries = g.entries /\ k.rate = g.rate /\ k.ready = g.ready
      /\ k.selected = g.selected
  BY <1>2 DEF Same, GraphFields
<1>4. GraphBase(k)
  BY <1>2, <1>3, NoEntriesWriting DEF GraphBase
<1>5. GraphInv(Rebuild(k)) /\ Same(k, Rebuild(k), GraphFields \ {"ready", "curves", "all"})
  BY <1>4, RebuildInv
<1>6. Same(g, Rebuild(k), GraphFields \ {"preview", "q", "dragging", "ready", "curves", "all"})
      /\ Rebuild(k).preview = NoEntries /\ Rebuild(k).dragging = FALSE
  BY <1>2, <1>5 DEF Same, GraphFields
<1> QED
  BY <1>1, <1>5, <1>6

-----------------------------------------------------------------------------
(* The steps of the handlers on the editor.                                *)

\* What SetBusy decides.
Buttons == {"busy", "navigation", "graphOn", "graph", "enabled", "on"}

\* What an open gesture says.
LEMMA GestureFacts ==
  /\ NoGesture \in Gestures /\ NoGesture.path = None
  /\ \A g \in Gestures : g.path # None =>
       /\ g.values \in Writings /\ g.ready \in BOOLEAN /\ g.dirty \in BOOLEAN /\ g.ending \in BOOLEAN
       /\ g.on = Graph => g.path \in Handles
       /\ g.on # Graph => g.path \in Dials
       /\ g = [path |-> g.path, on |-> g.on, values |-> g.values,
               ready |-> g.ready, dirty |-> g.dirty, ending |-> g.ending]
  /\ OpenGestures(Dials, "dial") \subseteq Gestures /\ OpenGestures(Handles, Graph) \subseteq Gestures
BY DEF NoGesture, Graph, Gestures, OpenGestures

\* SetBusy changes nothing but what is enabled, and the scope of the graph.
LEMMA SetBusyFacts ==
  ASSUME NEW u, UiTypes(u), GraphInv(u.graph), NEW b \in BOOLEAN
  PROVE  LET v == SetBusy(u, b)
         IN  /\ Shaped(v, UiFields) /\ Same(u, v, UiFields \ Buttons)
             /\ v.busy = b
             /\ v.navigation = (u.active /\ ~b /\ ~Active(u))
             /\ v.graphOn = GraphEditing(u, u.active /\ ~b)
             /\ v.enabled = EditableModels(u, u.active /\ ~b) /\ v.on \subseteq v.enabled
             /\ GraphInv(v.graph) /\ Same(u.graph, v.graph, GraphFields \ {"group"})
<1> DEFINE v == SetBusy(u, b)
<1>1. /\ Shaped(v, UiFields) /\ Same(u, v, UiFields \ Buttons)
      /\ v.busy = b
      /\ v.navigation = (u.active /\ ~b /\ ~Active(u))
      /\ v.graphOn = GraphEditing(u, u.active /\ ~b)
      /\ v.enabled = EditableModels(u, u.active /\ ~b) /\ v.on \subseteq v.enabled
  BY ZenonT(60) DEF UiTypes, Shaped, Same, UiFields, Buttons, SetBusy, SetEditing
<1>2. Shaped(v.graph, GraphFields) /\ Same(u.graph, v.graph, GraphFields \ {"group"})
  BY Zenon DEF UiTypes, GraphInv, Shaped, Same, UiFields, GraphFields, SetBusy, SetEditing
<1> HIDE DEF v
<1>4. GraphInv(v.graph)
  BY <1>2, GraphKept DEF GraphInv, Same, GraphFields
<1> QED
  BY <1>1, <1>2, <1>4 DEF v

\* What is shown is carried over by a step that leaves it alone.
Carried(u, v) ==
    /\ Shaped(v, UiFields) /\ GraphInv(v.graph)
    /\ v.active = u.active /\ v.busy \in BOOLEAN /\ v.ready = u.ready /\ v.scope \in BOOLEAN
    /\ v.started = u.started /\ v.focus = u.focus /\ v.values = u.values /\ v.models = u.models
    /\ v.dials = u.dials /\ v.choice \in {None} \cup Bits /\ v.leveling = u.leveling
    /\ v.telemetry \in {None, u.telemetry, u.focus} /\ v.source = u.source /\ v.gesture = u.gesture
    /\ v.graph.context = u.graph.context /\ v.graph.entries = u.graph.entries
    /\ v.graph.preview = u.graph.preview /\ v.graph.dragging = u.graph.dragging
    /\ v.graph.selected = u.graph.selected /\ v.graph.spectrum \in {None, u.graph.spectrum, u.focus}

Aside == {"out", "outdated", "lost", "grouped", "scope", "choice", "telemetry"}

\* What is carried over keeps the part of the invariant that handlers may rely on.
LEMMA CarriedBase ==
  ASSUME NEW u, NEW v, Carried(u, v)
  PROVE  (Raw(u) => Raw(v)) /\ (UiBase(u) => UiBase(v))
<1>1. Raw(u) => Raw(v)
  BY DEF Carried, Raw, UiTypes, DialsHeld
<1>2. (Known(u) => Known(v)) /\ (Measures(u) => Measures(v))
  BY DEF Carried, Known, Measures
<1>3. (GraphHeld(u) => GraphHeld(v)) /\ (Restarted(u) => Restarted(v))
  BY DEF Carried, GraphHeld, Restarted, Editing, Active
<1> QED
  BY <1>1, <1>2, <1>3 DEF UiBase

\* SetBusy changes the enabled controls only, and carries the rest over.
LEMMA SetBusyCarries ==
  ASSUME NEW u, Raw(u), NEW b \in BOOLEAN
  PROVE  Carried(u, SetBusy(u, b)) /\ Same(u, SetBusy(u, b), Aside)
<1> DEFINE v == SetBusy(u, b)
<1>1. /\ Shaped(v, UiFields) /\ Same(u, v, UiFields \ Buttons)
      /\ v.busy = b
      /\ GraphInv(v.graph) /\ Same(u.graph, v.graph, GraphFields \ {"group"})
  BY SetBusyFacts, Zenon DEF Raw
<1> HIDE DEF v
<1>2. /\ v.active = u.active /\ v.ready = u.ready /\ v.scope = u.scope
      /\ v.started = u.started /\ v.focus = u.focus /\ v.values = u.values /\ v.models = u.models
      /\ v.dials = u.dials /\ v.choice = u.choice /\ v.leveling = u.leveling
      /\ v.telemetry = u.telemetry /\ v.source = u.source /\ v.gesture = u.gesture
      /\ Same(u, v, Aside)
  BY <1>1 DEF Same, UiFields, Buttons, Aside
<1>4. Carried(u, v)
  BY <1>1, <1>2 DEF Carried, Raw, UiTypes, Same, GraphFields
<1> QED
  BY <1>2, <1>4 DEF v

\* SetBusy enables what may be edited, whatever was enabled before.
LEMMA SetBusyInv ==
  ASSUME NEW u, UiBase(u), NEW b \in BOOLEAN, u.active /\ ~b => u.ready
  PROVE  UiInv(SetBusy(u, b))
<1> DEFINE v == SetBusy(u, b)
<1>1. UiBase(v) /\ Carried(u, v)
  BY SetBusyCarries, CarriedBase DEF UiBase
<1>2. /\ v.busy = b
      /\ v.navigation = (u.active /\ ~b /\ ~Active(u))
      /\ v.graphOn = GraphEditing(u, u.active /\ ~b)
      /\ v.enabled = EditableModels(u, u.active /\ ~b) /\ v.on \subseteq v.enabled
  BY SetBusyFacts, Zenon DEF UiBase, Raw
<1> HIDE DEF v
<1>3. v.active = u.active /\ v.ready = u.ready /\ v.models = u.models /\ v.gesture = u.gesture
  BY <1>1 DEF Carried
<1>4. u.active \in BOOLEAN
  BY DEF UiBase, Raw, UiTypes
<1>5. v.navigation \in BOOLEAN /\ v.graphOn \in BOOLEAN
  BY <1>2, <1>4, Zenon DEF GraphEditing
<1>6. v.navigation => u.active /\ ~b /\ ~Active(u)
  BY <1>2, Zenon
<1>7. v.graphOn => u.active /\ ~b
  BY <1>2, Zenon DEF GraphEditing
<1>8. v.enabled \subseteq DOMAIN u.models /\ (v.enabled # {} => u.active /\ ~b)
  BY <1>2 DEF EditableModels
<1>9. Enabled(v)
  <2>1. v.on # {} => u.active /\ ~b
    BY <1>2, <1>8
  <2> QED
    BY <1>2, <1>3, <1>5, <1>6, <1>7, <1>8, <2>1 DEF Enabled, Active
<1> QED
  BY <1>1, <1>9 DEF UiInv, v

\* The first commands of a handler.
Observing == [kind |-> "observe", values |-> NoEntries]
Ending == [kind |-> "end", values |-> NoEntries]

\* Short sequences.
LEMMA Squeezed ==
  \A k, l, n \in Nat : /\ 1 <= k /\ k <= n /\ n <= 1 => n = 1 /\ k = 1
                       /\ 1 <= k /\ k <= n /\ 1 <= l /\ l <= n /\ n <= 2 /\ k # l => n = 2
OBVIOUS

\* Joining sequences of at most one element each.
LEMMA Pairs ==
  ASSUME NEW c, NEW d
  PROVE  <<c>> \o << >> = <<c>> /\ << >> \o <<d>> = <<d>> /\ <<c>> \o <<d>> = <<c, d>>
<1>1. <<c>> \in Seq({c, d}) /\ <<d>> \in Seq({c, d}) /\ << >> \in Seq({c, d})
      /\ Len(<<c>>) = 1 /\ Len(<<d>>) = 1 /\ Len(<< >>) = 0
  OBVIOUS
<1>2. <<c>> \o << >> = <<c>> /\ << >> \o <<d>> = <<d>>
  BY <1>1
<1>3. <<c>> \o <<d>> = [i \in 1..2 |-> IF i <= 1 THEN <<c>>[i] ELSE <<d>>[i - 1]]
  BY <1>1
<1>4. [i \in 1..2 |-> IF i <= 1 THEN <<c>>[i] ELSE <<d>>[i - 1]] = <<c, d>>
  OBVIOUS
<1> QED
  BY <1>2, <1>3, <1>4

\* Appending to sequences of at most one element.
LEMMA Appends ==
  ASSUME NEW c, NEW d
  PROVE  Append(<< >>, c) = <<c>> /\ Append(<<c>>, d) = <<c, d>>
<1>1. Append(<< >>, c) = <<c>>
  OBVIOUS
<1>2. <<c>> \in Seq({c, d}) /\ Len(<<c>>) = 1
  OBVIOUS
<1>3. Append(<<c>>, d) = [i \in 1..2 |-> IF i = 2 THEN d ELSE <<c>>[i]]
  BY <1>2
<1>4. [i \in 1..2 |-> IF i = 2 THEN d ELSE <<c>>[i]] = <<c, d>>
  OBVIOUS
<1> QED
  BY <1>1, <1>3, <1>4

\* Kept, computed on the sequences of at most two commands that a handler sends.
LEMMA KeptShort ==
  ASSUME NEW C, NEW s \in Seq(C), NEW I \in SUBSET (DOMAIN s)
  PROVE  /\ Len(s) = 0 => Kept(s, I) = << >>
         /\ Len(s) = 1 => Kept(s, I) = IF 1 \in I THEN <<s[1]>> ELSE << >>
         /\ Len(s) = 2 => Kept(s, I) = (IF 1 \in I THEN <<s[1]>> ELSE << >>)
                                         \o (IF 2 \in I THEN <<s[2]>> ELSE << >>)
<1> DEFINE r == Kept(s, I)
<1>1. r \in Seq(C) /\ Picks(r, s, I)
  BY KeptFacts
<1>2. PICK o \in [1..Len(r) -> I] :
         /\ \A k \in 1..Len(r) : r[k] = s[o[k]]
         /\ \A j, k \in 1..Len(r) : j < k => o[j] < o[k]
         /\ \A i \in I : \E k \in 1..Len(r) : o[k] = i
  BY <1>1 DEF Picks
<1> HIDE DEF r
<1>3. DOMAIN s = 1..Len(s) /\ Len(r) \in Nat
  BY <1>1
<1>4. CASE Len(s) = 0
  <2>1. ~(1 \in 1..Len(r))
    BY <1>2, <1>3, <1>4
  <2>2. Len(r) = 0
    BY <2>1, <1>3
  <2>3. r = << >>
    BY <1>1, <2>2
  <2> QED
    BY <2>3, <1>4 DEF r
<1>5. CASE Len(s) = 1
  <2>0. I \subseteq {1}
    BY <1>3, <1>5
  <2>1. Len(r) <= 1
    BY <1>2, <1>3, <2>0
  <2>2. CASE 1 \in I
    <3>0. PICK k \in 1..Len(r) : o[k] = 1
      BY <2>2, <1>2
    <3>1. Len(r) = 1 /\ r[1] = s[1]
      <4>1. k \in Nat /\ 1 <= k /\ k <= Len(r)
        BY <3>0, <1>3
      <4>2. Len(r) = 1 /\ k = 1
        BY <4>1, <2>1, <1>3, Squeezed
      <4> QED
        BY <4>2, <3>0, <1>2
    <3>2. r = <<s[1]>>
      BY <3>1, <1>1
    <3> QED
      BY <3>2, <2>2, <1>5 DEF r
  <2>3. CASE 1 \notin I
    <3>1. Len(r) = 0
      BY <2>0, <2>1, <2>3, <1>2, <1>3
    <3>2. r = << >>
      BY <1>1, <3>1
    <3> QED
      BY <3>2, <2>3, <1>5 DEF r
  <2> QED
    BY <2>2, <2>3
<1>6. CASE Len(s) = 2
  <2>0. I \subseteq {1, 2}
    BY <1>3, <1>6
  <2>1. Len(r) <= 2
    BY <1>2, <1>3, <2>0
  <2>2. \A k \in 1..Len(r) : o[k] \in {1, 2} /\ o[k] \in I
    BY <1>2, <2>0
  <2>3. CASE 1 \in I /\ 2 \in I
    <3>1. PICK a \in 1..Len(r) : o[a] = 1
      BY <1>2, <2>3
    <3>2. PICK b \in 1..Len(r) : o[b] = 2
      BY <1>2, <2>3
    <3>3. a # b /\ Len(r) = 2
      <4>1. a # b
        BY <3>1, <3>2
      <4>2. a \in Nat /\ b \in Nat /\ 1 <= a /\ a <= Len(r) /\ 1 <= b /\ b <= Len(r)
        BY <1>3
      <4> QED
        BY <4>1, <4>2, <2>1, <1>3, Squeezed
    <3>4. a = 1 /\ b = 2
      <4> SUFFICES ASSUME b < a PROVE FALSE
        BY <3>1, <3>2, <3>3
      <4> QED
        BY <3>1, <3>2, <1>2
    <3>5. r[1] = s[1] /\ r[2] = s[2]
      BY <3>1, <3>2, <3>4, <1>2
    <3>6. r = <<s[1]>> \o <<s[2]>>
      BY <3>3, <3>5, <1>1
    <3> QED
      BY <3>6, <2>3, <1>6 DEF r
  <2>4. CASE ~(1 \in I /\ 2 \in I)
    <3>1. Len(r) <= 1
      BY <1>2, <1>3, <2>2, <2>4
    <3>2. CASE I = {}
      <4>1. Len(r) = 0
        BY <3>1, <3>2, <2>2, <1>3
      <4>2. r = << >> \o << >>
        BY <1>1, <4>1
      <4> QED
        BY <4>2, <3>2, <1>6 DEF r
    <3>3. ASSUME NEW i \in {1, 2}, i \in I PROVE r = <<s[i]>>
      <4>1. PICK k \in 1..Len(r) : o[k] = i
        BY <1>2, <3>3
      <4>2. k = 1 /\ Len(r) = 1
        <5>1. k \in Nat /\ 1 <= k /\ k <= Len(r)
          BY <1>3
        <5> QED
          BY <5>1, <3>1, <1>3, Squeezed
      <4>3. r[1] = s[i]
        BY <4>1, <4>2, <1>2
      <4> QED
        BY <4>2, <4>3, <1>1
    <3>4. CASE 1 \in I
      <4>1. r = <<s[1]>> \o << >> /\ 2 \notin I
        BY <3>3, <3>4, <2>4
      <4> QED
        BY <4>1, <3>4, <1>6 DEF r
    <3>5. CASE 2 \in I
      <4>1. r = << >> \o <<s[2]>> /\ 1 \notin I
        BY <3>3, <3>5, <2>4
      <4> QED
        BY <4>1, <3>5, <1>6 DEF r
    <3> QED
      BY <3>2, <3>4, <3>5, <2>0
  <2> QED
    BY <2>3, <2>4
<1> QED
  BY <1>4, <1>5, <1>6

\* What is left of the commands when the editor starts over: not the snapshot it
\* asked for before.
Unobserved(out) == Kept(out, {n \in DOMAIN out : out[n].kind # "observe"})

\* Dropping the observations from the commands a cancelled gesture has sent.
LEMMA UnobservedFacts ==
  /\ Unobserved(<< >>) = << >> /\ Unobserved(<<Ending>>) = <<Ending>>
  /\ Unobserved(<<Observing>>) = << >> /\ Unobserved(<<Ending, Observing>>) = <<Ending>>
  /\ \A w : w.kind = "write" =>
       Unobserved(<<w>>) = <<w>> /\ Unobserved(<<w, Ending>>) = <<w, Ending>>
<1>1. Ending.kind = "end" /\ Observing.kind = "observe"
  BY DEF Ending, Observing
<1>2. Unobserved(<< >>) = << >>
  <2>1. << >> \in Seq({}) /\ Len(<< >>) = 0
    OBVIOUS
  <2> QED
    BY <2>1, KeptShort DEF Unobserved
<1>3. ASSUME NEW c, NEW I, I = {n \in DOMAIN <<c>> : <<c>>[n].kind # "observe"}
      PROVE  Unobserved(<<c>>) = IF c.kind # "observe" THEN <<c>> ELSE << >>
  <2>1. <<c>> \in Seq({c}) /\ Len(<<c>>) = 1 /\ DOMAIN <<c>> = {1} /\ <<c>>[1] = c
    OBVIOUS
  <2>2. I \in SUBSET DOMAIN <<c>> /\ (1 \in I <=> c.kind # "observe")
    BY <2>1, <1>3
  <2> QED
    BY <2>1, <2>2, <1>3, KeptShort DEF Unobserved
<1>4. ASSUME NEW c, NEW d, NEW I, I = {n \in DOMAIN <<c, d>> : <<c, d>>[n].kind # "observe"}
      PROVE  Unobserved(<<c, d>>) = (IF c.kind # "observe" THEN <<c>> ELSE << >>)
                                      \o (IF d.kind # "observe" THEN <<d>> ELSE << >>)
  <2>1. <<c, d>> \in Seq({c, d}) /\ Len(<<c, d>>) = 2 /\ DOMAIN <<c, d>> = {1, 2}
        /\ <<c, d>>[1] = c /\ <<c, d>>[2] = d
    OBVIOUS
  <2>2. I \in SUBSET DOMAIN <<c, d>> /\ (1 \in I <=> c.kind # "observe") /\ (2 \in I <=> d.kind # "observe")
    BY <2>1, <1>4
  <2> QED
    BY <2>1, <2>2, <1>4, KeptShort, ZenonT(60) DEF Unobserved
<1>5. \A c : Unobserved(<<c>>) = IF c.kind # "observe" THEN <<c>> ELSE << >>
  BY <1>3
<1>6. \A c, d : Unobserved(<<c, d>>) = (IF c.kind # "observe" THEN <<c>> ELSE << >>)
                                         \o (IF d.kind # "observe" THEN <<d>> ELSE << >>)
  BY <1>4
<1>7. \A w : <<w>> \o << >> = <<w>> /\ <<w>> \o <<Ending>> = <<w, Ending>>
  BY Pairs
<1>8. Unobserved(<<Ending>>) = <<Ending>> /\ Unobserved(<<Observing>>) = << >>
  BY <1>1, <1>5
<1>9. Unobserved(<<Ending, Observing>>) = <<Ending>>
  BY <1>1, <1>6, <1>7
<1>10. \A w : w.kind = "write" => Unobserved(<<w>>) = <<w>> /\ Unobserved(<<w, Ending>>) = <<w, Ending>>
  BY <1>1, <1>5, <1>6, <1>7
<1> QED
  BY <1>2, <1>8, <1>9, <1>10

\* Starting over leaves a consistent editor, whatever it comes from.
LEMMA ObserveFacts ==
  ASSUME NEW u, Raw(u), u.active
  PROVE  LET v == Observe(u)
         IN  /\ UiInv(v) /\ ~v.ready /\ v.busy /\ v.started = Active(u)
             /\ Same(u, v, {"active", "gesture", "dials", "scope", "focus", "models", "lost"})
             /\ v.outdated = u.outdated \cup {"target"} /\ v.out = Append(Unobserved(u.out), Observing)
<1> DEFINE s == SetBusy(u, TRUE)
           v == Observe(u)
<1>1. /\ Carried(u, s) /\ Same(u, s, Aside)
      /\ Raw(s)
  BY SetBusyCarries, CarriedBase
<1>2. /\ s.busy = TRUE /\ s.navigation = FALSE /\ s.graphOn = FALSE /\ s.enabled = {} /\ s.on = {}
  BY SetBusyFacts DEF Raw, GraphEditing, EditableModels
<1>3. v = Send(InvalidateTarget(ClearTelemetry([s EXCEPT !.graph = Clear(@), !.started = Active(u)])), Observing)
  BY Zenon DEF Observe, Observing
<1> HIDE DEF s
<1> DEFINE w == ClearTelemetry([s EXCEPT !.graph = Clear(@), !.started = Active(u)])
<1>4. /\ Shaped(w, UiFields) /\ Same(s, w, UiFields \ {"graph", "started", "telemetry"})
      /\ w.graph = Clear(s.graph) /\ w.started = Active(u) /\ w.telemetry = None
  BY <1>1, Zenon DEF Carried, Shaped, Same, UiFields, ClearTelemetry
<1>5. v = Send(InvalidateTarget(w), Observing)
  BY <1>3, Zenon
<1> HIDE DEF w
<1> HIDE DEF v
<1>6. /\ Shaped(v, UiFields) /\ Same(w, v, UiFields \ {"ready", "values", "outdated", "out"})
      /\ v.ready = FALSE /\ v.values = NoEntries
      /\ v.outdated = w.outdated \cup {"target"} /\ v.out = Append(Unobserved(w.out), Observing)
  BY <1>4, <1>5, Zenon DEF Shaped, Same, UiFields, InvalidateTarget, Send, Unobserved
<1>7. /\ w.active = s.active /\ w.busy = s.busy /\ w.focus = s.focus /\ w.scope = s.scope
      /\ w.models = s.models /\ w.dials = s.dials /\ w.choice = s.choice /\ w.enabled = s.enabled
      /\ w.on = s.on /\ w.graphOn = s.graphOn /\ w.navigation = s.navigation
      /\ w.gesture = s.gesture /\ w.outdated = s.outdated /\ w.out = s.out /\ w.lost = s.lost
  BY <1>4 DEF Same, UiFields
<1>8. /\ v.active = w.active /\ v.busy = w.busy /\ v.focus = w.focus /\ v.scope = w.scope
      /\ v.models = w.models /\ v.dials = w.dials /\ v.choice = w.choice /\ v.enabled = w.enabled
      /\ v.on = w.on /\ v.graphOn = w.graphOn /\ v.navigation = w.navigation
      /\ v.gesture = w.gesture /\ v.graph = w.graph /\ v.started = w.started
      /\ v.telemetry = w.telemetry /\ v.lost = w.lost
  BY <1>6 DEF Same, UiFields
<1>9. /\ v.active = u.active /\ v.gesture = u.gesture /\ v.dials = u.dials /\ v.scope = u.scope
      /\ v.focus = u.focus /\ v.models = u.models /\ v.lost = u.lost
      /\ s.outdated = u.outdated /\ s.out = u.out
  BY <1>1, <1>7, <1>8 DEF Carried, Same, Aside
<1>10. /\ GraphInv(v.graph) /\ v.graph.context = NoContext /\ v.graph.preview = NoEntries
       /\ v.graph.dragging = FALSE /\ v.graph.spectrum = None
  <2>1. GraphInv(s.graph) /\ v.graph = Clear(s.graph)
    BY <1>1, <1>4, <1>8 DEF Carried
  <2> QED
    BY <2>1, ClearFacts
<1>11. v.started = Active(u) /\ Active(u) \in BOOLEAN
  BY <1>4, <1>8, Zenon DEF Active
<1>12. UiTypes(v)
  BY <1>1, <1>2, <1>6, <1>7, <1>8, <1>11, ZenonT(60) DEF UiTypes, Raw
<1>13. DialsHeld(v)
  BY <1>9 DEF Raw, DialsHeld
<1>14. Known(v) /\ Measures(v) /\ GraphHeld(v)
  BY <1>6, <1>10, <1>4, <1>8 DEF Known, Measures, GraphHeld
<1>15. Restarted(v)
  BY <1>9, <1>11, Zenon DEF Restarted, Editing, Active
<1>16. Enabled(v)
  BY <1>2, <1>7, <1>8 DEF Enabled
<1>17. UiInv(v)
  BY <1>10, <1>12, <1>13, <1>14, <1>15, <1>16 DEF UiInv, UiBase, Raw
<1> QED
  <2>1. Same(u, v, {"active", "gesture", "dials", "scope", "focus", "models", "lost"})
    BY <1>9 DEF Same
  <2>2. /\ UiInv(v) /\ ~v.ready /\ v.busy /\ v.started = Active(u)
        /\ v.outdated = u.outdated \cup {"target"} /\ v.out = Append(Unobserved(u.out), Observing)
    BY <1>2, <1>6, <1>7, <1>8, <1>9, <1>11, <1>17
  <2> QED
    BY <2>1, <2>2, Zenon DEF v

\* The editor when its gesture is over.
Closed(u) == SetBusy(FinishPreview([u EXCEPT !.gesture = NoGesture, !.started = FALSE]), u.busy)

\* What it keeps.
Remaining ==
    {"active", "busy", "ready", "values", "models", "scope", "focus", "leveling", "telemetry",
     "source", "lost", "out", "outdated"}

\* An editor whose gesture is closed shows no preview, and satisfies its invariant again.
LEMMA ClosedFacts ==
  ASSUME NEW u, UiTypes(u), GraphInv(u.graph)
  PROVE  LET v == Closed(u)
         IN  /\ Raw(v) /\ v.gesture = NoGesture /\ ~v.started
             /\ \A d \in Dials : ~Previewing(v.dials[d]) /\ ~v.dials[d].dragging
             /\ Same(u, v, Remaining)
             /\ Same(u.graph, v.graph, {"context", "entries", "spectrum", "selected", "rate"})
             /\ v.graph.preview = NoEntries /\ v.graph.dragging = FALSE
             /\ Known(u) /\ Measures(u) /\ (u.active /\ ~u.busy => u.ready) => UiInv(v)
<1> DEFINE g == FinishGraphPreview(u.graph)
           ds == [d \in Dials |-> FinishDialPreview(u.dials[d])]
           w == FinishPreview([u EXCEPT !.gesture = NoGesture, !.started = FALSE])
           v == SetBusy(w, u.busy)
<1>1. /\ Shaped(w, UiFields) /\ Same(u, w, UiFields \ {"gesture", "started", "graph", "dials"})
      /\ w.gesture = NoGesture /\ w.started = FALSE /\ w.graph = g /\ w.dials = ds
  BY Zenon DEF UiTypes, Shaped, Same, UiFields, FinishPreview
<1>2. /\ GraphInv(g) /\ g.preview = NoEntries /\ g.dragging = FALSE
      /\ Same(u.graph, g, GraphFields \ {"preview", "q", "dragging", "ready", "curves", "all"})
  BY GraphInvBase, FinishGraphPreviewFacts
<1>3. ds \in [Dials -> DialStates] /\ \A d \in Dials : ds[d].preview = None /\ ds[d].dragging = FALSE
  BY DEF UiTypes, FinishDialPreview, DialStates
<1> HIDE DEF w
<1> HIDE DEF g
<1> HIDE DEF ds
<1>4. /\ w.active = u.active /\ w.busy = u.busy /\ w.ready = u.ready /\ w.values = u.values
      /\ w.models = u.models /\ w.scope = u.scope /\ w.focus = u.focus /\ w.leveling = u.leveling
      /\ w.telemetry = u.telemetry /\ w.source = u.source /\ w.choice = u.choice
      /\ w.out = u.out /\ w.outdated = u.outdated /\ w.lost = u.lost
  BY <1>1 DEF Same, UiFields
<1>5. /\ w.graph.context = u.graph.context /\ w.graph.entries = u.graph.entries
      /\ w.graph.spectrum = u.graph.spectrum /\ w.graph.selected = u.graph.selected
      /\ w.graph.rate = u.graph.rate
  BY <1>1, <1>2 DEF Same, GraphFields
<1>6. Raw(w)
  <2>1. UiTypes(w)
    BY <1>1, <1>3, <1>4, GestureFacts DEF UiTypes
  <2>2. DialsHeld(w)
    BY <1>1, <1>3 DEF DialsHeld, Previewing
  <2> QED
    BY <1>1, <1>2, <2>1, <2>2 DEF Raw
<1>7. u.busy \in BOOLEAN
  BY DEF UiTypes
<1>8. /\ Carried(w, v) /\ Raw(v) /\ v.busy = u.busy
      /\ Same(w, v, Aside)
      /\ Same(w.graph, v.graph, GraphFields \ {"group"})
  <2>1. Carried(w, v) /\ Same(w, v, Aside)
    BY <1>6, <1>7, SetBusyCarries
  <2>2. v.busy = u.busy /\ Same(w.graph, v.graph, GraphFields \ {"group"})
    BY <1>6, <1>7, SetBusyFacts DEF Raw
  <2> QED
    BY <2>1, <2>2, <1>6, CarriedBase
<1>9. Known(u) /\ Measures(u) /\ (u.active /\ ~u.busy => u.ready) => UiInv(v)
  <2> SUFFICES ASSUME Known(u), Measures(u), u.active /\ ~u.busy => u.ready PROVE UiInv(v)
    BY Zenon
  <2>1. Known(w) /\ Measures(w)
    BY <1>4, <1>5 DEF Known, Measures
  <2>2. GraphHeld(w) /\ Restarted(w)
    BY <1>1, <1>2, GestureFacts DEF GraphHeld, Restarted, Editing, Active
  <2> QED
    BY <1>4, <1>6, <1>7, <2>1, <2>2, SetBusyInv DEF UiBase
<1>10. v = Closed(u)
  BY DEF Closed, w
<1> HIDE DEF v
<1>11. /\ v.gesture = NoGesture /\ v.started = FALSE /\ v.dials = ds
       /\ v.graph.preview = NoEntries /\ v.graph.dragging = FALSE
  BY <1>1, <1>2, <1>8 DEF Carried
<1>12. \A d \in Dials : ~Previewing(v.dials[d]) /\ ~v.dials[d].dragging
  BY <1>3, <1>11 DEF Previewing
<1>13. Same(u, v, Remaining)
  BY <1>4, <1>8 DEF Same, Carried, Remaining, Aside
<1>14. Same(u.graph, v.graph, {"context", "entries", "spectrum", "selected", "rate"})
  BY <1>5, <1>8 DEF Same, GraphFields
<1> QED
  BY <1>8, <1>9, <1>10, <1>11, <1>12, <1>13, <1>14

\* A refused gesture makes an active editor start over.
LEMMA FinishedFacts ==
  ASSUME NEW u, UiTypes(u), GraphInv(u.graph), NEW a
  PROVE  LET v == GestureFinished(u, a)
         IN  /\ u.active /\ ~a => v = Observe(Closed(u)) /\ UiInv(v)
             /\ ~u.active \/ a => v = Closed(u)
BY ClosedFacts, ObserveFacts DEF GestureFinished, Closed, Same, Remaining, Observe

-----------------------------------------------------------------------------
(* What a handler leaves.                                                  *)

\* How far a handler may take the editor from what the waiting frames were for.
\* What it has outdated does not count any more.
Turn(u, v) ==
    /\ u.outdated \subseteq v.outdated
    /\ v.ready => u.ready
    /\ "target" \in v.outdated => ~v.ready
    /\ "target" \notin v.outdated =>
         v.ready = u.ready /\ (Active(v) /\ ~v.active => Active(u) /\ ~u.active)
    /\ "gesture" \notin v.outdated /\ Active(u) =>
         Active(v) /\ v.gesture.ready = u.gesture.ready /\ (u.gesture.ending => v.gesture.ending)
    /\ Active(u) /\ ~Active(v) => ~v.ready /\ ("target" \in v.outdated \/ ~u.active)

\* The gesture is still in the hand it was in.
Grip(u, v) ==
    Editing(v) =>
      \/ v.started
      \/ /\ Editing(u) /\ v.gesture.path = u.gesture.path /\ v.gesture.on = u.gesture.on
         /\ u.started => v.started
         /\ \A d \in Dials : u.dials[d].dragging => v.dials[d].dragging
         /\ u.graph.dragging => v.graph.dragging

\* What it may send, given what waits.
No(fs, kind) == \A i \in DOMAIN fs : ~Is(fs, i, kind)

Writing(w) == [kind |-> "write", values |-> w]
Finishing(w) == [kind |-> "finish", values |-> w]
Beginning == [kind |-> "begin", values |-> NoEntries]

Closing(v, fs) ==
    /\ ~Active(v) /\ ~v.ready /\ "gesture" \in v.outdated
    /\ "target" \in v.outdated \/ No(fs, "snapshot")
Completing(v, fs) == Active(v) /\ v.gesture.ready /\ v.gesture.ending /\ No(fs, "finish")

Outs(v, fs) ==
    \/ v.out = << >>
    \/ v.out = <<Observing>> /\ (Active(v) => v.active) /\ "target" \in v.outdated
    \/ v.out = <<Ending>> /\ Closing(v, fs)
    \/ v.out = <<Ending, Observing>> /\ Closing(v, fs) /\ "target" \in v.outdated
    \/ \E w \in Writings :
         \/ v.out = <<Writing(w), Ending>> /\ Closing(v, fs)
         \/ v.out = <<Writing(w)>> /\ Active(v) /\ No(fs, "finish")
         \/ v.out = <<Finishing(w)>> /\ Completing(v, fs)
         \/ v.out = <<Writing(w), Finishing(w)>> /\ Completing(v, fs)
         \/ v.ready /\ \E scope \in BOOLEAN :
              v.out = <<[kind |-> "command", values |-> w, scope |-> scope]>>
    \/ v.out = <<Beginning>> /\ Active(v) /\ v.active /\ ~v.gesture.ready /\ No(fs, "begin")
    \/ \E w \in ChoiceValues, scope \in BOOLEAN :
         v.out = <<[kind |-> "edit", values |-> w, scope |-> scope]>>

Handled(u, v, fs) ==
    UiInv(v) /\ Turn(u, v) /\ Grip(u, v) /\ (v.ready => v.values = u.values) /\ Outs(v, fs)

Idle(u) == u.out = << >> /\ u.outdated = {}

\* The fields the frames that wait are for.
Status == {"active", "ready", "values", "gesture", "out", "outdated"}

\* Which answers cannot be waiting.
LEMMA WaitsNo ==
  ASSUME NEW u, NEW fs, Waits(u, fs)
  PROVE  /\ u.ready \/ (Active(u) /\ ~u.active) => No(fs, "snapshot")
         /\ ~Active(u) \/ u.gesture.ready => No(fs, "begin")
         /\ ~Active(u) \/ ~u.gesture.ready \/ ~u.gesture.ending => No(fs, "finish")
         /\ ~Active(u) /\ u.ready => No(fs, "unmatched")
BY DEF Waits, No

\* A handler that keeps the gesture and the values.
LEMMA HandledSame ==
  ASSUME NEW u, NEW v, NEW fs, UiInv(u), Idle(u), UiInv(v), Same(u, v, Status),
         Active(u) => /\ v.started = u.started /\ v.dials = u.dials
                      /\ v.graph.dragging = u.graph.dragging
  PROVE  Handled(u, v, fs)
<1>1. /\ v.active = u.active /\ v.ready = u.ready /\ v.values = u.values
      /\ v.gesture = u.gesture /\ v.out = u.out /\ v.outdated = u.outdated
  BY DEF Same, Status
<1>2. Turn(u, v)
  BY <1>1 DEF Turn, Idle, Active
<1>3. Grip(u, v)
  BY <1>1 DEF Grip, Active, Editing
<1>4. Outs(v, fs)
  BY <1>1 DEF Outs, Idle
<1> QED
  BY <1>1, <1>2, <1>3, <1>4 DEF Handled

\* A handler that ends the gesture and starts over, or fails.
LEMMA HandledCut ==
  ASSUME NEW u, NEW v, NEW fs, UiInv(v), Idle(u), ~Active(v), ~v.ready, "target" \in v.outdated,
         "gesture" \in v.outdated \/ (~Active(u) /\ v.out \in {<< >>, <<Observing>>}),
         \/ v.out \in {<< >>, <<Ending>>, <<Observing>>, <<Ending, Observing>>}
         \/ \E w \in Writings : v.out = <<Writing(w), Ending>>
  PROVE  Handled(u, v, fs)
<1>1. Turn(u, v)
  BY DEF Turn, Idle
<1>2. Grip(u, v)
  BY DEF Grip, Editing
<1>3. Outs(v, fs)
  <2>1. CASE "gesture" \in v.outdated
    BY <2>1 DEF Outs, Closing
  <2>2. CASE v.out \in {<< >>, <<Observing>>}
    BY <2>2 DEF Outs
  <2> QED
    BY <2>1, <2>2
<1> QED
  BY <1>1, <1>2, <1>3 DEF Handled

\* An editor that is not active ends its gesture without starting over.
LEMMA HandledClosed ==
  ASSUME NEW u, NEW v, NEW fs, UiInv(v), Idle(u), Waits(u, fs), Active(u), ~u.active,
         ~Active(v), ~v.active, v.ready = u.ready,
         v.outdated = {"gesture"}, v.out = <<Ending>>
  PROVE  Handled(u, v, fs)
<1>1. ~v.ready
  BY DEF UiInv, UiBase, Known
<1>2. Turn(u, v)
  BY <1>1 DEF Turn, Idle
<1>3. Grip(u, v)
  BY DEF Grip, Editing
<1>4. Outs(v, fs)
  BY <1>1, WaitsNo DEF Outs, Closing
<1> QED
  BY <1>1, <1>2, <1>3, <1>4 DEF Handled

\* Starting over, whatever the gesture.
LEMMA HandledObserve ==
  ASSUME NEW u, NEW fs, UiInv(u), Idle(u)
  PROVE  Handled(u, Observe(u), fs)
<1> DEFINE v == Observe(u)
<1>1. CASE ~u.active
  <2>1. v = u
    BY <1>1 DEF Observe
  <2> QED
    BY <2>1, HandledSame DEF Same
<1>2. CASE u.active
  <2>1. /\ UiInv(v) /\ ~v.ready /\ v.busy /\ v.started = Active(u)
        /\ Same(u, v, {"active", "gesture", "dials", "scope", "focus", "models", "lost"})
        /\ v.outdated = u.outdated \cup {"target"} /\ v.out = Append(Unobserved(u.out), Observing)
    BY <1>2, ObserveFacts DEF UiInv, UiBase
  <2>2. v.active = u.active /\ v.gesture = u.gesture
    BY <2>1 DEF Same
  <2>3. v.out = <<Observing>> /\ v.outdated = {"target"}
    <3>1. Unobserved(u.out) = << >>
      BY UnobservedFacts DEF Idle
    <3> QED
      BY <2>1, <3>1, Appends DEF Idle
  <2> HIDE DEF v
  <2>4. Turn(u, v)
    BY <1>2, <2>1, <2>2, <2>3 DEF Turn, Idle, Active
  <2>5. Grip(u, v)
    BY <2>1, <2>2 DEF Grip, Editing, Active
  <2>6. Outs(v, fs)
    BY <1>2, <2>2, <2>3 DEF Outs
  <2> QED
    BY <2>1, <2>4, <2>5, <2>6 DEF Handled, v
<1> QED
  BY <1>1, <1>2

\* A gesture is cancelled: the editor ends it and, when it is active, starts over.
Cancelled(u, v) ==
    /\ UiInv(v) /\ v.gesture = NoGesture /\ ~v.started
    /\ Same(u, v, {"active", "scope", "focus", "models", "lost"})
    /\ u.active => ~v.ready /\ v.busy /\ v.outdated = {"gesture", "target"} /\ v.out = <<Ending, Observing>>
    /\ ~u.active => /\ v.ready = u.ready /\ v.busy = u.busy /\ v.values = u.values
                    /\ v.outdated = {"gesture"} /\ v.out = <<Ending>>

\* Cancelling an open gesture closes it, tells the core, and starts over when it must.
LEMMA CancelFacts ==
  ASSUME NEW u, Raw(u), Idle(u), Active(u), ~u.active => Known(u) /\ Measures(u)
  PROVE  Cancelled(u, Cancel(u))
<1> DEFINE w == Send([u EXCEPT !.outdated = @ \cup {"gesture"}], Ending)
           c == Closed(w)
           v == Cancel(u)
<1>1. /\ Shaped(w, UiFields) /\ Same(u, w, UiFields \ {"out", "outdated"})
      /\ w.outdated = u.outdated \cup {"gesture"} /\ w.out = Append(u.out, Ending)
  BY Zenon DEF Raw, UiTypes, Shaped, Same, UiFields, Send
<1>2. v = GestureFinished(w, FALSE)
  BY Zenon DEF Cancel, Ending
<1> HIDE DEF w, v
<1>3. /\ w.active = u.active /\ w.busy = u.busy /\ w.ready = u.ready /\ w.scope = u.scope
      /\ w.started = u.started /\ w.focus = u.focus /\ w.values = u.values /\ w.models = u.models
      /\ w.dials = u.dials /\ w.choice = u.choice /\ w.leveling = u.leveling
      /\ w.telemetry = u.telemetry /\ w.source = u.source /\ w.gesture = u.gesture
      /\ w.graph = u.graph /\ w.lost = u.lost
  BY <1>1 DEF Same, UiFields
<1>4. w.outdated = {"gesture"} /\ w.out = <<Ending>>
  BY <1>1 DEF Idle
<1>5. UiTypes(w) /\ GraphInv(w.graph)
  BY <1>1, <1>3 DEF Raw, UiTypes
<1>6. Raw(c) /\ c.gesture = NoGesture /\ ~c.started /\ Same(w, c, Remaining)
      /\ (Known(w) /\ Measures(w) /\ (w.active /\ ~w.busy => w.ready) => UiInv(c))
  BY <1>5, ClosedFacts
<1> HIDE DEF c
<1>7. /\ c.active = u.active /\ c.ready = u.ready /\ c.busy = u.busy /\ c.values = u.values
      /\ c.scope = u.scope /\ c.focus = u.focus /\ c.models = u.models /\ c.lost = u.lost
      /\ c.outdated = {"gesture"} /\ c.out = <<Ending>>
  BY <1>3, <1>4, <1>6 DEF Same, Remaining
<1>8. CASE u.active
  <2>1. v = Observe(c)
    BY <1>2, <1>3, <1>5, <1>8, FinishedFacts DEF c
  <2>2. /\ UiInv(v) /\ ~v.ready /\ v.busy /\ v.started = Active(c)
        /\ Same(c, v, {"active", "gesture", "dials", "scope", "focus", "models", "lost"})
        /\ v.outdated = c.outdated \cup {"target"} /\ v.out = Append(Unobserved(c.out), Observing)
    BY <1>6, <1>7, <1>8, <2>1, ObserveFacts
  <2>3. v.out = <<Ending, Observing>>
    <3>1. Unobserved(c.out) = <<Ending>>
      BY <1>7, UnobservedFacts
    <3> QED
      BY <2>2, <3>1, Appends
  <2>4. v.outdated = {"gesture", "target"}
    BY <2>2, <1>7
  <2>5. v.gesture = NoGesture /\ ~v.started
    BY <2>2, <1>6, GestureFacts DEF Same, Active
  <2>6. Same(u, v, {"active", "scope", "focus", "models", "lost"})
    BY <2>2, <1>7 DEF Same
  <2> QED
    BY <1>8, <2>2, <2>3, <2>4, <2>5, <2>6 DEF Cancelled, v
<1>9. CASE ~u.active
  <2>1. v = c
    BY <1>2, <1>3, <1>5, <1>9, FinishedFacts DEF c
  <2>2. Known(w) /\ Measures(w)
    BY <1>3, <1>9 DEF Known, Measures
  <2>3. UiInv(v)
    BY <1>6, <1>3, <1>9, <2>1, <2>2
  <2> QED
    BY <1>6, <1>7, <1>9, <2>1, <2>3 DEF Cancelled, Same, v
<1> QED
  BY <1>8, <1>9

\* What Cancel does to any editor that has done nothing yet.
LEMMA HandledCancel ==
  ASSUME NEW u, NEW fs, UiInv(u), Idle(u), Waits(u, fs)
  PROVE  Handled(u, Cancel(u), fs)
<1> DEFINE v == Cancel(u)
<1>1. CASE ~Active(u)
  <2>1. v = u
    BY <1>1 DEF Cancel
  <2> QED
    BY <2>1, HandledSame DEF Same
<1>2. CASE Active(u)
  <2>1. Cancelled(u, v)
    BY <1>2, CancelFacts DEF UiInv, UiBase
  <2> HIDE DEF v
  <2>2. UiInv(v) /\ ~Active(v) /\ v.active = u.active
    BY <2>1, GestureFacts DEF Cancelled, Same, Active
  <2>3. CASE u.active
    <3>1. ~v.ready /\ "gesture" \in v.outdated /\ "target" \in v.outdated
          /\ v.out = <<Ending, Observing>>
      BY <2>1, <2>3 DEF Cancelled
    <3> QED
      BY <3>1, <2>2, <2>3, HandledCut DEF v
  <2>4. CASE ~u.active
    <3>1. v.ready = u.ready /\ v.outdated = {"gesture"} /\ v.out = <<Ending>>
      BY <2>1, <2>4 DEF Cancelled
    <3> QED
      BY <3>1, <1>2, <2>2, <2>4, HandledClosed DEF v
  <2> QED
    BY <2>3, <2>4
<1> QED
  BY <1>1, <1>2

-----------------------------------------------------------------------------
(* Answers and notifications.                                              *)

\* What is enabled.
Controls == {"busy", "navigation", "graphOn", "enabled", "on"}

\* What is carried over with the controls as they were keeps the whole invariant of the editor.
LEMMA CarriedInv ==
  ASSUME NEW u, NEW v, UiInv(u), Carried(u, v), Same(u, v, Controls)
  PROVE  UiInv(v)
BY CarriedBase DEF UiInv, Same, Controls, Carried, Enabled, Active

\* The graph changes what it measures or is calculated from, not what it shows.
LEMMA GraphReplaced ==
  ASSUME NEW u, UiInv(u), NEW g, GraphInv(g),
         Same(u.graph, g, {"context", "entries", "preview", "dragging", "selected"}),
         g.spectrum \in {None, u.graph.spectrum, u.focus}
  PROVE  LET v == [u EXCEPT !.graph = g]
         IN  UiInv(v) /\ Same(u, v, UiFields \ {"graph"}) /\ v.graph = g /\ Shaped(v, UiFields)
<1> DEFINE v == [u EXCEPT !.graph = g]
<1>1. Shaped(v, UiFields) /\ v.graph = g /\ Same(u, v, UiFields \ {"graph"})
  BY Zenon DEF UiInv, UiBase, Raw, UiTypes, Shaped, Same, UiFields
<1> HIDE DEF v
<1>2. /\ v.active = u.active /\ v.busy = u.busy /\ v.ready = u.ready /\ v.scope = u.scope
      /\ v.started = u.started /\ v.focus = u.focus /\ v.values = u.values /\ v.models = u.models
      /\ v.dials = u.dials /\ v.choice = u.choice /\ v.leveling = u.leveling
      /\ v.telemetry = u.telemetry /\ v.source = u.source /\ v.gesture = u.gesture
      /\ Same(u, v, Controls)
  BY <1>1 DEF Same, UiFields, Controls
<1>3. /\ g.context = u.graph.context /\ g.entries = u.graph.entries /\ g.preview = u.graph.preview
      /\ g.dragging = u.graph.dragging /\ g.selected = u.graph.selected
  BY DEF Same
<1>4. Carried(u, v)
  BY <1>1, <1>2, <1>3 DEF Carried, UiInv, UiBase, Raw, UiTypes
<1>5. UiInv(v)
  BY <1>2, <1>4, CarriedInv
<1> QED
  BY <1>1, <1>5 DEF v

\* Another sample rate.
LEMMA HandledRate ==
  ASSUME NEW u, NEW fs, UiInv(u), Idle(u), NEW frame, frame.rate \in Nat \ {0}
  PROVE  Handled(u, AudioConfigurationChanged(u, frame), fs)
<1> DEFINE g == SetSampleRate(u.graph, frame.rate)
           k == [u EXCEPT !.graph = g]
           v == ClearTelemetry(k)
<1>1. /\ GraphInv(g)
      /\ Same(u.graph, g, GraphFields \ {"rate", "spectrum", "ready", "curves", "others", "all"})
      /\ g.spectrum \in {None, u.graph.spectrum}
  BY SetSampleRateFacts DEF UiInv, UiBase, Raw
<1> HIDE DEF g
<1>2. Same(u.graph, g, {"context", "entries", "preview", "dragging", "selected"})
  BY <1>1 DEF Same, GraphFields
<1>3. UiInv(k) /\ Same(u, k, UiFields \ {"graph"}) /\ k.graph = g /\ Shaped(k, UiFields)
  BY <1>1, <1>2, GraphReplaced
<1> HIDE DEF k
<1>4. Shaped(v, UiFields) /\ v.telemetry = None /\ Same(k, v, UiFields \ {"telemetry"})
  BY <1>3, Zenon DEF Shaped, Same, UiFields, ClearTelemetry
<1>5. v = AudioConfigurationChanged(u, frame)
  BY DEF AudioConfigurationChanged, k, g
<1> HIDE DEF v
<1>6. /\ v.active = k.active /\ v.busy = k.busy /\ v.ready = k.ready /\ v.scope = k.scope
      /\ v.started = k.started /\ v.focus = k.focus /\ v.values = k.values /\ v.models = k.models
      /\ v.dials = k.dials /\ v.choice = k.choice /\ v.leveling = k.leveling
      /\ v.source = k.source /\ v.gesture = k.gesture
      /\ v.graph = k.graph /\ Same(k, v, Controls) /\ v.out = k.out /\ v.outdated = k.outdated
  BY <1>4 DEF Same, UiFields, Controls
<1>7. UiInv(v)
  <2>1. Carried(k, v)
    BY <1>3, <1>4, <1>6 DEF Carried, UiInv, UiBase, Raw, UiTypes
  <2> QED
    BY <1>3, <1>6, <2>1, CarriedInv
<1>8. Same(u, v, Status) /\ v.started = u.started /\ v.dials = u.dials
  BY <1>3, <1>6 DEF Same, UiFields, Status
<1>9. v.graph.dragging = u.graph.dragging
  BY <1>2, <1>3, <1>6 DEF Same
<1> QED
  BY <1>5, <1>7, <1>8, <1>9, HandledSame

\* A measurement.
LEMMA HandledTelemetry ==
  ASSUME NEW u, NEW fs, UiInv(u), Idle(u), NEW frame
  PROVE  Handled(u, ApplyTelemetry(u, frame), fs)
<1> DEFINE k == [u EXCEPT !.telemetry = frame.target]
<1>1. CASE ApplyTelemetry(u, frame) = u
  BY <1>1, HandledSame DEF Same
<1>2. CASE ApplyTelemetry(u, frame) = k /\ frame.target = u.focus
  <2>1. Shaped(k, UiFields) /\ k.telemetry = frame.target /\ Same(u, k, UiFields \ {"telemetry"})
    BY Zenon DEF UiInv, UiBase, Raw, UiTypes, Shaped, Same, UiFields
  <2> HIDE DEF k
  <2>2. /\ k.active = u.active /\ k.busy = u.busy /\ k.ready = u.ready /\ k.scope = u.scope
        /\ k.started = u.started /\ k.focus = u.focus /\ k.values = u.values /\ k.models = u.models
        /\ k.dials = u.dials /\ k.choice = u.choice /\ k.leveling = u.leveling
        /\ k.source = u.source /\ k.gesture = u.gesture /\ k.graph = u.graph
        /\ Same(u, k, Controls) /\ Same(u, k, Status)
    BY <2>1 DEF Same, UiFields, Controls, Status
  <2>3. Carried(u, k)
    BY <1>2, <2>1, <2>2 DEF Carried, UiInv, UiBase, Raw, UiTypes
  <2> QED
    BY <1>2, <2>2, <2>3, CarriedInv, HandledSame
<1> QED
  BY <1>1, <1>2 DEF ApplyTelemetry

\* A spectrum.
LEMMA HandledSpectrum ==
  ASSUME NEW u, NEW fs, UiInv(u), Idle(u), NEW frame
  PROVE  Handled(u, HandleSpectrum(u, frame), fs)
<1> DEFINE g == ApplySpectrum(u.graph, frame.target)
           k == [u EXCEPT !.graph = g]
<1>1. CASE HandleSpectrum(u, frame) = u
  BY <1>1, HandledSame DEF Same
<1>2. CASE HandleSpectrum(u, frame) = k /\ frame.target = u.focus
  <2>1. GraphInv(g) /\ Same(u.graph, g, GraphFields \ {"spectrum"})
        /\ g.spectrum \in {None, u.graph.spectrum, u.focus}
    <3>1. CASE ~u.graph.ready
      BY <3>1 DEF ApplySpectrum, UiInv, UiBase, Raw, Same
    <3>2. CASE u.graph.ready
      <4>1. Shaped(g, GraphFields) /\ Same(u.graph, g, GraphFields \ {"spectrum"}) /\ g.spectrum = frame.target
        BY <3>2, Zenon DEF ApplySpectrum, UiInv, UiBase, Raw, GraphInv, Shaped, Same, GraphFields
      <4> HIDE DEF g
      <4>3. GraphInv(g)
        BY <4>1, GraphKept DEF UiInv, UiBase, Raw, GraphInv, Same, GraphFields
      <4> QED
        BY <1>2, <4>1, <4>3
    <3> QED
      BY <3>1, <3>2
  <2> HIDE DEF g
  <2>2. Same(u.graph, g, {"context", "entries", "preview", "dragging", "selected"})
        /\ g.dragging = u.graph.dragging
    BY <2>1 DEF Same, GraphFields
  <2>3. UiInv(k) /\ Same(u, k, UiFields \ {"graph"}) /\ k.graph = g
    BY <2>1, <2>2, GraphReplaced
  <2> HIDE DEF k
  <2>4. Same(u, k, Status) /\ k.started = u.started /\ k.dials = u.dials
    BY <2>3 DEF Same, UiFields, Status
  <2> QED
    BY <1>2, <2>2, <2>3, <2>4, HandledSame
<1> QED
  BY <1>1, <1>2 DEF HandleSpectrum

\* The curves of the other banks.
LEMMA HandledBanks ==
  ASSUME NEW u, NEW fs, UiInv(u), Idle(u)
  PROVE  Handled(u, [u EXCEPT !.graph = ApplyBankSnapshots(@)], fs)
<1> DEFINE g == ApplyBankSnapshots(u.graph)
           k == [u EXCEPT !.graph = g]
<1>1. GraphInv(g) /\ Same(u.graph, g, GraphFields \ {"banks", "others", "all"})
  BY ApplyBankSnapshotsFacts DEF UiInv, UiBase, Raw
<1>2. k = [u EXCEPT !.graph = ApplyBankSnapshots(@)]
  OBVIOUS
<1> HIDE DEF g
<1>3. Same(u.graph, g, {"context", "entries", "preview", "dragging", "selected"})
      /\ g.spectrum = u.graph.spectrum /\ g.dragging = u.graph.dragging
  BY <1>1 DEF Same, GraphFields
<1>4. UiInv(k) /\ Same(u, k, UiFields \ {"graph"}) /\ k.graph = g
  BY <1>1, <1>3, GraphReplaced
<1> HIDE DEF k
<1>5. Same(u, k, Status) /\ k.started = u.started /\ k.dials = u.dials
  BY <1>4 DEF Same, UiFields, Status
<1> QED
  BY <1>2, <1>3, <1>4, <1>5, HandledSame

\* A restored point: nothing that was shown counts.
LEMMA HandledRestored ==
  ASSUME NEW u, NEW fs, UiInv(u), Idle(u), Waits(u, fs)
  PROVE  Handled(u, Observe(Cancel(u)), fs)
<1> DEFINE c == Cancel(u)
           v == Observe(c)
<1>1. CASE ~Active(u)
  <2>1. c = u
    BY <1>1 DEF Cancel
  <2> QED
    BY <2>1, HandledObserve
<1>2. CASE Active(u) /\ ~u.active
  <2>1. Cancelled(u, c)
    BY <1>2, CancelFacts DEF UiInv, UiBase
  <2> HIDE DEF c
  <2>2. v = c
    BY <1>2, <2>1 DEF Cancelled, Same, Observe
  <2> QED
    BY <2>2, HandledCancel DEF c
<1>3. CASE Active(u) /\ u.active
  <2>1. Cancelled(u, c)
    BY <1>3, CancelFacts DEF UiInv, UiBase
  <2> HIDE DEF c
  <2>2. Raw(c) /\ c.active /\ c.outdated = {"gesture", "target"} /\ c.out = <<Ending, Observing>>
        /\ ~Active(c)
    BY <1>3, <2>1, GestureFacts DEF Cancelled, UiInv, UiBase, Same, Active
  <2>3. /\ UiInv(v) /\ ~v.ready
        /\ Same(c, v, {"active", "gesture", "dials", "scope", "focus", "models", "lost"})
        /\ v.outdated = c.outdated \cup {"target"} /\ v.out = Append(Unobserved(c.out), Observing)
    BY <2>2, ObserveFacts
  <2>4. v.out = <<Ending, Observing>>
    <3>1. Unobserved(c.out) = <<Ending>>
      BY <2>2, UnobservedFacts
    <3> QED
      BY <2>3, <3>1, Appends
  <2>5. ~Active(v) /\ "target" \in v.outdated /\ "gesture" \in v.outdated
    BY <2>2, <2>3 DEF Same, Active
  <2> HIDE DEF v
  <2> QED
    BY <2>3, <2>4, <2>5, HandledCut DEF v, c
<1> QED
  BY <1>1, <1>2, <1>3

\* Edits go to the group, or to the bank alone.
LEMMA SetGroupScopeFacts ==
  ASSUME NEW u, UiTypes(u), GraphInv(u.graph), NEW s \in BOOLEAN
  PROVE  LET v == SetGroupScope(u, s)
         IN  /\ Carried(u, v) /\ Same(u, v, UiFields \ {"scope", "graph"}) /\ v.scope = s
             /\ v.graph.dragging = u.graph.dragging
<1> DEFINE v == SetGroupScope(u, s)
<1>1. Shaped(v, UiFields) /\ Same(u, v, UiFields \ {"scope", "graph"}) /\ v.scope = s
  BY Zenon DEF UiTypes, Shaped, Same, UiFields, SetGroupScope
<1>2. Shaped(v.graph, GraphFields) /\ Same(u.graph, v.graph, GraphFields \ {"group"})
  BY Zenon DEF UiTypes, GraphInv, Shaped, Same, UiFields, GraphFields, SetGroupScope
<1> HIDE DEF v
<1>3. Same(u.graph, v.graph, {"context", "entries", "preview", "q", "rate", "ready", "curves", "all"})
      /\ v.graph.dragging = u.graph.dragging /\ v.graph.selected = u.graph.selected
      /\ v.graph.spectrum = u.graph.spectrum
  BY <1>2 DEF Same, GraphFields
<1>4. GraphInv(v.graph)
  BY <1>2, <1>3, GraphKept DEF GraphInv
<1>6. Carried(u, v)
  BY <1>1, <1>3, <1>4 DEF Carried, UiTypes, Same, UiFields
<1> QED
  BY <1>1, <1>3, <1>6 DEF v

\* Changing the scope keeps the invariant of the editor.
LEMMA GroupScopeInv ==
  ASSUME NEW u, UiInv(u), NEW s \in BOOLEAN
  PROVE  UiInv(SetGroupScope(u, s))
<1>1. Carried(u, SetGroupScope(u, s)) /\ Same(u, SetGroupScope(u, s), UiFields \ {"scope", "graph"})
  BY SetGroupScopeFacts DEF UiInv, UiBase, Raw
<1>2. Same(u, SetGroupScope(u, s), Controls)
  BY <1>1 DEF Same, UiFields, Controls
<1> QED
  BY <1>1, <1>2, CarriedInv

\* What the registry says of the instance in focus.
LEMMA Noted ==
  ASSUME NEW u, UiInv(u), NEW v, Shaped(v, UiFields), Same(u, v, UiFields \ {"grouped", "lost"})
  PROVE  UiInv(v) /\ Same(u, v, Status) /\ v.started = u.started /\ v.dials = u.dials
         /\ v.graph = u.graph /\ v.scope = u.scope /\ v.busy = u.busy /\ v.focus = u.focus
<1>1. /\ v.active = u.active /\ v.busy = u.busy /\ v.ready = u.ready /\ v.scope = u.scope
      /\ v.started = u.started /\ v.focus = u.focus /\ v.values = u.values /\ v.models = u.models
      /\ v.dials = u.dials /\ v.choice = u.choice /\ v.leveling = u.leveling
      /\ v.telemetry = u.telemetry /\ v.source = u.source /\ v.gesture = u.gesture
      /\ v.graph = u.graph /\ Same(u, v, Controls) /\ Same(u, v, Status)
  BY DEF Same, UiFields, Controls, Status
<1>2. Carried(u, v)
  BY <1>1 DEF Carried, UiInv, UiBase, Raw, UiTypes
<1> QED
  BY <1>1, <1>2, CarriedInv

\* SetBusy with what the editor is busy with already.
LEMMA BusyAgain ==
  ASSUME NEW u, UiInv(u), NEW b, b = u.busy
  PROVE  /\ UiInv(SetBusy(u, b)) /\ Same(u, SetBusy(u, b), Status)
         /\ SetBusy(u, b).started = u.started /\ SetBusy(u, b).dials = u.dials
         /\ SetBusy(u, b).graph.dragging = u.graph.dragging
<1>1. u.busy \in BOOLEAN /\ (u.active /\ ~u.busy => u.ready)
  BY DEF UiInv, UiBase, Raw, UiTypes, Enabled
<1>2. UiInv(SetBusy(u, b))
  BY <1>1, SetBusyInv DEF UiInv
<1>3. Carried(u, SetBusy(u, b)) /\ Same(u, SetBusy(u, b), Aside)
  BY <1>1, SetBusyCarries DEF UiInv, UiBase
<1> QED
  BY <1>2, <1>3 DEF Carried, Same, Status, Aside

\* The bank in focus loses its group, and a gesture that edits the group with it.
LEMMA HandledUngrouped ==
  ASSUME NEW u, NEW fs, UiInv(u), Idle(u), Waits(u, fs)
  PROVE  Handled(u, Ungrouped(u), fs)
<1> DEFINE k == [u EXCEPT !.grouped = FALSE]
<1>1. Shaped(k, UiFields) /\ Same(u, k, UiFields \ {"grouped", "lost"})
  BY Zenon DEF UiInv, UiBase, Raw, UiTypes, Shaped, Same, UiFields
<1>2. Ungrouped(u) = LET l == IF u.scope THEN SetGroupScope(Cancel(k), FALSE) ELSE k IN SetBusy(l, l.busy)
  BY DEF Ungrouped
<1> HIDE DEF k
<1>3. UiInv(k) /\ Same(u, k, Status) /\ k.started = u.started /\ k.dials = u.dials
      /\ k.graph = u.graph /\ k.scope = u.scope
  BY <1>1, Noted
<1>4. /\ k.active = u.active /\ k.ready = u.ready /\ k.values = u.values /\ k.gesture = u.gesture
      /\ k.out = << >> /\ k.outdated = {}
  BY <1>3 DEF Same, Status, Idle
<1>5. CASE ~u.scope \/ ~Active(u)
  <2> DEFINE l == IF u.scope THEN SetGroupScope(k, FALSE) ELSE k
             v == SetBusy(l, l.busy)
  <2>1. UiInv(l) /\ Same(k, l, Status) /\ l.started = k.started /\ l.dials = k.dials
        /\ l.graph.dragging = k.graph.dragging
    <3>1. CASE u.scope
      <4> DEFINE m == SetGroupScope(k, FALSE)
      <4>1. /\ Carried(k, m) /\ Same(k, m, UiFields \ {"scope", "graph"})
            /\ m.graph.dragging = k.graph.dragging
        BY <1>3, SetGroupScopeFacts DEF UiInv, UiBase, Raw
      <4>2. UiInv(m)
        BY <1>3, GroupScopeInv
      <4> HIDE DEF m
      <4>3. Same(k, m, Status) /\ m.started = k.started /\ m.dials = k.dials
        BY <4>1 DEF Same, UiFields, Status
      <4> QED
        BY <3>1, <4>1, <4>2, <4>3 DEF m
    <3>2. CASE ~u.scope
      BY <1>3, <3>2 DEF Same
    <3> QED
      BY <3>1, <3>2
  <2> HIDE DEF l
  <2>2. UiInv(v) /\ Same(l, v, Status) /\ v.started = l.started /\ v.dials = l.dials
        /\ v.graph.dragging = l.graph.dragging
    BY <2>1, BusyAgain
  <2>3. Ungrouped(u) = v
    <3>1. ~Active(u) => Cancel(k) = k
      BY <1>4 DEF Cancel, Active
    <3> QED
      BY <1>2, <1>5, <3>1 DEF l
  <2> HIDE DEF v
  <2>4. Same(u, v, Status)
    BY <1>3, <2>1, <2>2 DEF Same
  <2> QED
    BY <1>3, <2>1, <2>2, <2>3, <2>4, HandledSame
<1>6. CASE u.scope /\ Active(u)
  <2> DEFINE c == Cancel(k)
             l == SetGroupScope(c, FALSE)
             v == SetBusy(l, l.busy)
  <2>1. Cancelled(k, c)
    BY <1>3, <1>4, <1>6, CancelFacts DEF UiInv, UiBase, Idle, Active
  <2> HIDE DEF c
  <2>2. UiInv(l) /\ Same(c, l, UiFields \ {"scope", "graph"})
    BY <2>1, GroupScopeInv, SetGroupScopeFacts DEF Cancelled, UiInv, UiBase, Raw
  <2> HIDE DEF l
  <2>3. UiInv(v) /\ Same(l, v, Status)
    BY <2>2, BusyAgain
  <2>4. Ungrouped(u) = v
    BY <1>2, <1>6 DEF l, c
  <2> HIDE DEF v
  <2>5. Same(c, v, Status)
    BY <2>2, <2>3 DEF Same, UiFields, Status
  <2>6. /\ v.gesture = NoGesture /\ v.active = u.active /\ v.ready = c.ready
        /\ v.out = c.out /\ v.outdated = c.outdated
    BY <1>4, <2>1, <2>5 DEF Cancelled, Same, Status
  <2>7. ~Active(v)
    BY <2>6, GestureFacts DEF Active
  <2>8. CASE u.active
    <3>1. ~v.ready /\ "gesture" \in v.outdated /\ "target" \in v.outdated
          /\ v.out = <<Ending, Observing>>
      BY <1>4, <2>1, <2>6, <2>8 DEF Cancelled
    <3> QED
      BY <2>3, <2>4, <2>7, <3>1, HandledCut
  <2>9. CASE ~u.active
    <3>1. v.ready = u.ready /\ v.outdated = {"gesture"} /\ v.out = <<Ending>> /\ ~v.active
      BY <1>4, <2>1, <2>6, <2>9 DEF Cancelled
    <3> QED
      BY <1>6, <2>3, <2>4, <2>7, <2>9, <3>1, HandledClosed
  <2> QED
    BY <2>8, <2>9
<1> QED
  BY <1>5, <1>6

\* The instance in focus is gone, and the editor shows its own.
LEMMA HandledGone ==
  ASSUME NEW u, NEW fs, UiInv(u), Idle(u), Waits(u, fs)
  PROVE  Handled(u, Gone(u), fs)
<1>1. CASE ~u.active
  <2> DEFINE n == Ungrouped(u)
             v == [n EXCEPT !.lost = TRUE]
  <2>1. Handled(u, n, fs)
    BY HandledUngrouped
  <2>2. Gone(u) = v
    BY <1>1 DEF Gone
  <2> HIDE DEF n
  <2>3. Shaped(v, UiFields) /\ Same(n, v, UiFields \ {"grouped", "lost"})
    BY <2>1, Zenon DEF Handled, UiInv, UiBase, Raw, UiTypes, Shaped, Same, UiFields
  <2> HIDE DEF v
  <2>4. /\ UiInv(v) /\ Same(n, v, Status) /\ v.started = n.started /\ v.dials = n.dials
        /\ v.graph = n.graph
    BY <2>1, <2>3, Noted DEF Handled
  <2>5. /\ v.active = n.active /\ v.ready = n.ready /\ v.values = n.values /\ v.gesture = n.gesture
        /\ v.out = n.out /\ v.outdated = n.outdated
    BY <2>4 DEF Same, Status
  <2>6. Turn(u, v)
    BY <2>1, <2>5 DEF Handled, Turn, Active
  <2>7. Grip(u, v)
    BY <2>1, <2>4, <2>5 DEF Handled, Grip, Editing, Active
  <2>8. Outs(v, fs)
    BY <2>1, <2>5 DEF Handled, Active, Closing, Completing, Outs
  <2> QED
    BY <2>1, <2>2, <2>4, <2>5, <2>6, <2>7, <2>8 DEF Handled
<1>2. CASE u.active
  <2> DEFINE c == Cancel(u)
             t == [c EXCEPT !.focus = Own, !.grouped = FALSE, !.lost = FALSE]
             l == SetGroupScope(t, FALSE)
             h == Observe(l)
             v == SetBusy(h, h.busy)
  <2>1. Gone(u) = v
    BY <1>2, Zenon DEF Gone
  <2>2. /\ UiInv(c) /\ c.active /\ ~Active(c)
        /\ \/ Active(u) /\ c.outdated = {"gesture", "target"} /\ c.out = <<Ending, Observing>>
           \/ ~Active(u) /\ c.outdated = {} /\ c.out = << >>
    <3>1. CASE Active(u)
      <4>1. Cancelled(u, c)
        BY <3>1, <1>2, CancelFacts DEF UiInv, UiBase
      <4> HIDE DEF c
      <4> QED
        BY <1>2, <3>1, <4>1, GestureFacts DEF Cancelled, Same, Active
    <3>2. CASE ~Active(u)
      BY <1>2, <3>2 DEF Cancel, Idle
    <3> QED
      BY <3>1, <3>2
  <2> HIDE DEF c
  <2>3. /\ Shaped(t, UiFields) /\ Same(c, t, UiFields \ {"focus", "grouped", "lost"}) /\ t.focus = Own
    BY <2>2, Zenon DEF UiInv, UiBase, Raw, UiTypes, Shaped, Same, UiFields
  <2> HIDE DEF t
  <2>4. /\ t.active = c.active /\ t.busy = c.busy /\ t.ready = c.ready /\ t.scope = c.scope
        /\ t.started = c.started /\ t.values = c.values /\ t.models = c.models
        /\ t.dials = c.dials /\ t.choice = c.choice /\ t.gesture = c.gesture
        /\ t.graph = c.graph /\ t.out = c.out /\ t.outdated = c.outdated
    BY <2>3 DEF Same, UiFields
  <2>5. UiTypes(t) /\ GraphInv(t.graph) /\ DialsHeld(t)
    BY <2>2, <2>3, <2>4 DEF UiInv, UiBase, Raw, UiTypes, DialsHeld, Instances
  <2>6. Carried(t, l) /\ Same(t, l, UiFields \ {"scope", "graph"})
    BY <2>5, SetGroupScopeFacts
  <2> HIDE DEF l
  <2>7. /\ Raw(l) /\ l.active /\ l.gesture = c.gesture /\ l.out = c.out /\ l.outdated = c.outdated
    <3>1. Raw(l)
      BY <2>5, <2>6, CarriedBase DEF Raw
    <3>2. l.active = t.active /\ l.gesture = t.gesture /\ l.out = t.out /\ l.outdated = t.outdated
      BY <2>6 DEF Same, UiFields
    <3> QED
      BY <2>2, <2>4, <3>1, <3>2
  <2>8. /\ UiInv(h) /\ ~h.ready
        /\ Same(l, h, {"active", "gesture", "dials", "scope", "focus", "models", "lost"})
        /\ h.outdated = l.outdated \cup {"target"} /\ h.out = Append(Unobserved(l.out), Observing)
    BY <2>7, ObserveFacts
  <2>9. h.out = IF Active(u) THEN <<Ending, Observing>> ELSE <<Observing>>
    <3>1. Unobserved(l.out) = IF Active(u) THEN <<Ending>> ELSE << >>
      BY <2>2, <2>7, UnobservedFacts
    <3> QED
      BY <2>8, <3>1, Appends
  <2> HIDE DEF h
  <2>10. UiInv(v) /\ Same(h, v, Status)
    BY <2>8, BusyAgain
  <2> HIDE DEF v
  <2>11. /\ v.ready = h.ready /\ v.gesture = c.gesture /\ v.out = h.out
         /\ v.outdated = c.outdated \cup {"target"}
    BY <2>7, <2>8, <2>10 DEF Same, Status
  <2>12. ~Active(v)
    BY <2>2, <2>11 DEF Active
  <2> QED
    BY <2>1, <2>2, <2>8, <2>9, <2>10, <2>11, <2>12, HandledCut
<1> QED
  BY <1>1, <1>2

\* What is left when a session ends: no values, no gesture, nothing enabled.
LEMMA Stopped ==
  ASSUME NEW u, Raw(u), Measures(u), ~u.active, u.gesture = NoGesture,
         u.graph.preview = NoEntries, ~u.graph.dragging
  PROVE  LET v == SetBusy(InvalidateTarget(u), TRUE)
         IN  /\ UiInv(v) /\ ~v.ready /\ ~v.active /\ ~Active(v)
             /\ v.out = Unobserved(u.out) /\ v.outdated = u.outdated \cup {"target"}
<1> DEFINE k == InvalidateTarget(u)
           v == SetBusy(k, TRUE)
<1>1. /\ Shaped(k, UiFields) /\ Same(u, k, UiFields \ {"ready", "values", "outdated", "out"})
      /\ k.ready = FALSE /\ k.values = NoEntries
      /\ k.outdated = u.outdated \cup {"target"} /\ k.out = Unobserved(u.out)
  BY Zenon DEF Raw, UiTypes, Shaped, Same, UiFields, InvalidateTarget, Unobserved
<1> HIDE DEF k
<1>2. /\ k.active = u.active /\ k.busy = u.busy /\ k.focus = u.focus /\ k.scope = u.scope
      /\ k.models = u.models /\ k.dials = u.dials /\ k.choice = u.choice /\ k.started = u.started
      /\ k.gesture = u.gesture /\ k.graph = u.graph /\ k.telemetry = u.telemetry
  BY <1>1 DEF Same, UiFields
<1>3. UiTypes(k) /\ GraphInv(k.graph) /\ DialsHeld(k)
  BY <1>1, <1>2 DEF Raw, UiTypes, DialsHeld
<1>4. Known(k) /\ Measures(k) /\ GraphHeld(k) /\ Restarted(k)
  BY <1>1, <1>2, GestureFacts DEF Known, Measures, GraphHeld, Restarted, Editing, Active
<1>5. UiInv(v)
  BY <1>2, <1>3, <1>4, SetBusyInv DEF UiBase, Raw
<1>6. Carried(k, v) /\ Same(k, v, Aside)
  BY <1>3, SetBusyCarries DEF Raw
<1> HIDE DEF v
<1>7. ~v.ready /\ ~v.active /\ ~Active(v) /\ v.out = k.out /\ v.outdated = k.outdated
  BY <1>1, <1>2, <1>6, GestureFacts DEF Carried, Same, Aside, Active
<1> QED
  BY <1>1, <1>5, <1>7 DEF v, k

\* The end of a gesture of an editor that is not active.
LEMMA InactiveFinished ==
  ASSUME NEW u, UiTypes(u), GraphInv(u.graph), ~u.active, Measures(u)
  PROVE  LET v == GestureFinished(u, FALSE)
         IN  /\ Raw(v) /\ Measures(v) /\ ~v.active /\ v.gesture = NoGesture
             /\ v.graph.preview = NoEntries /\ ~v.graph.dragging
             /\ v.out = u.out /\ v.outdated = u.outdated
<1> DEFINE v == Closed(u)
<1>1. /\ Raw(v) /\ v.gesture = NoGesture
      /\ Same(u, v, Remaining)
      /\ Same(u.graph, v.graph, {"context", "entries", "spectrum", "selected", "rate"})
      /\ v.graph.preview = NoEntries /\ v.graph.dragging = FALSE
  BY ClosedFacts
<1>2. GestureFinished(u, FALSE) = v
  BY FinishedFacts
<1> HIDE DEF v
<1>3. Measures(v) /\ ~v.active /\ v.out = u.out /\ v.outdated = u.outdated
  BY <1>1 DEF Same, Remaining, Measures
<1> QED
  BY <1>1, <1>2, <1>3

\* A frame that cannot be applied ends the session.
LEMMA HandledUnfit ==
  ASSUME NEW u, NEW fs, UiInv(u), Idle(u)
  PROVE  Handled(u, Unfit(u), fs)
<1> DEFINE k == Fail([u EXCEPT !.graph = Clear(@)])
           c == Cancel(k)
           v == SetBusy(InvalidateTarget(c), TRUE)
<1>1. v = Unfit(u)
  BY DEF Unfit
<1>2. /\ Shaped(k, UiFields) /\ Same(u, k, UiFields \ {"active", "graph"})
      /\ k.active = FALSE /\ k.graph = Clear(u.graph)
  BY Zenon DEF UiInv, UiBase, Raw, UiTypes, Shaped, Same, UiFields, Fail
<1> HIDE DEF k
<1>3. /\ k.busy = u.busy /\ k.ready = u.ready /\ k.focus = u.focus /\ k.scope = u.scope
      /\ k.started = u.started /\ k.values = u.values /\ k.models = u.models /\ k.dials = u.dials
      /\ k.choice = u.choice /\ k.gesture = u.gesture /\ k.telemetry = u.telemetry
      /\ k.out = << >> /\ k.outdated = {}
  BY <1>2 DEF Same, UiFields, Idle
<1>4. /\ GraphInv(k.graph) /\ k.graph.preview = NoEntries /\ k.graph.dragging = FALSE
      /\ k.graph.spectrum = None
  <2>1. GraphInv(u.graph)
    BY DEF UiInv, UiBase, Raw
  <2> DEFINE g == Clear(u.graph)
  <2>2. GraphInv(g) /\ g.preview = NoEntries /\ g.dragging = FALSE /\ g.spectrum = None
    BY <2>1, ClearFacts
  <2>3. k.graph = g
    BY <1>2
  <2> HIDE DEF g
  <2> QED
    BY <2>2, <2>3
<1>5. UiTypes(k) /\ DialsHeld(k)
  BY <1>2, <1>3 DEF UiInv, UiBase, Raw, UiTypes, DialsHeld
<1>6. Measures(k)
  BY <1>3, <1>4 DEF UiInv, UiBase, Measures
<1>7. CASE ~Active(u)
  <2>1. c = k /\ k.gesture = NoGesture
    <3>1. u.gesture \in Gestures /\ u.gesture.path = None
      BY <1>7 DEF UiInv, UiBase, Raw, UiTypes, Active
    <3>2. u.gesture = NoGesture
      BY <3>1, PathFacts DEF Gestures, OpenGestures
    <3> QED
      BY <1>3, <1>7, <3>2 DEF Cancel, Active
  <2>2. /\ UiInv(v) /\ ~v.ready /\ ~v.active /\ ~Active(v)
        /\ v.out = Unobserved(k.out) /\ v.outdated = k.outdated \cup {"target"}
    BY <1>2, <1>4, <1>5, <1>6, <2>1, Stopped DEF Raw
  <2>3. v.out = << >> /\ v.outdated = {"target"}
    BY <1>3, <2>2, UnobservedFacts
  <2> HIDE DEF v
  <2> QED
    BY <1>1, <1>7, <2>2, <2>3, HandledCut
<1>8. CASE Active(u)
  <2> DEFINE w == Send([k EXCEPT !.outdated = @ \cup {"gesture"}], Ending)
  <2>1. c = GestureFinished(w, FALSE)
    BY <1>3, <1>8, Zenon DEF Cancel, Ending, Active
  <2>2. /\ Shaped(w, UiFields) /\ Same(k, w, UiFields \ {"out", "outdated"})
        /\ w.outdated = k.outdated \cup {"gesture"} /\ w.out = Append(k.out, Ending)
    BY <1>2, Zenon DEF Shaped, Same, UiFields, Send
  <2> HIDE DEF w
  <2>4. UiTypes(w) /\ GraphInv(w.graph) /\ ~w.active /\ Measures(w)
    BY <1>2, <1>4, <1>5, <1>6, <2>2 DEF UiTypes, Measures, Same, UiFields
  <2>5. /\ Raw(c) /\ Measures(c) /\ ~c.active /\ c.gesture = NoGesture
        /\ c.graph.preview = NoEntries /\ ~c.graph.dragging
        /\ c.out = w.out /\ c.outdated = w.outdated
    BY <2>1, <2>4, InactiveFinished
  <2> HIDE DEF c
  <2>6. /\ UiInv(v) /\ ~v.ready /\ ~v.active /\ ~Active(v)
        /\ v.out = Unobserved(c.out) /\ v.outdated = c.outdated \cup {"target"}
    BY <2>5, Stopped
  <2>7. c.out = <<Ending>> /\ c.outdated = {"gesture"}
    BY <1>3, <2>2, <2>5, Appends
  <2>8. v.out = <<Ending>> /\ v.outdated = {"gesture", "target"}
    BY <2>6, <2>7, UnobservedFacts
  <2> HIDE DEF v
  <2> QED
    BY <1>1, <2>6, <2>8, HandledCut
<1> QED
  BY <1>7, <1>8

\* Another editor becomes the active one: what the gesture has not written yet is
\* written, and it ends.
LEMMA HandledDeactivated ==
  ASSUME NEW u, NEW fs, UiInv(u), Idle(u)
  PROVE  Handled(u, Deactivated(u), fs)
<1> DEFINE i == [u EXCEPT !.active = FALSE, !.outdated = @ \cup {"gesture"}]
           kept == IF Editing(u) \/ ~u.gesture.ready
                   THEN Send(i, Writing(u.gesture.values)) ELSE i
           k == IF Active(u) THEN Send(kept, Ending) ELSE i
           c == GestureFinished(k, FALSE)
           v == SetBusy(InvalidateTarget(c), TRUE)
<1>1. v = Deactivated(u)
  BY Zenon DEF Deactivated, WriteCommand, Writing, Ending
<1>2. /\ Shaped(i, UiFields) /\ Same(u, i, UiFields \ {"active", "outdated"})
      /\ i.active = FALSE /\ i.outdated = u.outdated \cup {"gesture"}
  BY Zenon DEF UiInv, UiBase, Raw, UiTypes, Shaped, Same, UiFields
<1> HIDE DEF i
<1>3. i.out = << >> /\ i.outdated = {"gesture"}
  BY <1>2 DEF Same, UiFields, Idle
<1>4. /\ Shaped(kept, UiFields) /\ Same(i, kept, UiFields \ {"out"})
      /\ kept.out = i.out \/ kept.out = Append(i.out, Writing(u.gesture.values))
  BY <1>2 DEF Shaped, Same, UiFields, Send
<1> HIDE DEF kept
<1>5. /\ Shaped(k, UiFields) /\ Same(i, k, UiFields \ {"out"})
      /\ k.out = IF Active(u) THEN Append(kept.out, Ending) ELSE i.out
  <2>1. LET s == Send(kept, Ending)
        IN  Shaped(s, UiFields) /\ Same(kept, s, UiFields \ {"out"}) /\ s.out = Append(kept.out, Ending)
    BY <1>4, Zenon DEF Shaped, Same, UiFields, Send
  <2> QED
    BY <1>2, <1>4, <2>1 DEF Same
<1>6. \/ k.out \in {<< >>, <<Ending>>}
      \/ Active(u) /\ k.out = <<Writing(u.gesture.values), Ending>>
  <2>1. CASE ~Active(u)
    BY <1>3, <1>5, <2>1
  <2>2. CASE Active(u) /\ kept.out = i.out
    <3>1. k.out = Append(<< >>, Ending)
      BY <1>3, <1>5, <2>2
    <3> QED
      BY <3>1, Appends
  <2>3. CASE Active(u) /\ kept.out = Append(i.out, Writing(u.gesture.values))
    <3>1. kept.out = <<Writing(u.gesture.values)>>
      BY <1>3, <2>3, Appends
    <3> QED
      BY <1>5, <2>3, <3>1, Appends
  <2> QED
    BY <1>4, <2>1, <2>2, <2>3
<1> HIDE DEF k
<1>7. /\ i.active = FALSE /\ i.busy = u.busy /\ i.ready = u.ready /\ i.scope = u.scope
      /\ i.started = u.started /\ i.focus = u.focus /\ i.values = u.values /\ i.models = u.models
      /\ i.dials = u.dials /\ i.choice = u.choice /\ i.gesture = u.gesture
      /\ i.graph = u.graph /\ i.telemetry = u.telemetry
  BY <1>2 DEF Same, UiFields
<1>8. /\ k.active = i.active /\ k.busy = i.busy /\ k.ready = i.ready /\ k.scope = i.scope
      /\ k.started = i.started /\ k.focus = i.focus /\ k.values = i.values /\ k.models = i.models
      /\ k.dials = i.dials /\ k.choice = i.choice /\ k.gesture = i.gesture
      /\ k.graph = i.graph /\ k.telemetry = i.telemetry /\ k.outdated = i.outdated
  BY <1>5 DEF Same, UiFields
<1>9. UiTypes(k) /\ GraphInv(k.graph) /\ ~k.active /\ Measures(k)
  BY <1>5, <1>7, <1>8 DEF UiInv, UiBase, Raw, UiTypes, Measures
<1>10. /\ Raw(c) /\ Measures(c) /\ ~c.active /\ c.gesture = NoGesture
       /\ c.graph.preview = NoEntries /\ ~c.graph.dragging
       /\ c.out = k.out /\ c.outdated = k.outdated
  BY <1>9, InactiveFinished
<1> HIDE DEF c
<1>11. /\ UiInv(v) /\ ~v.ready /\ ~v.active /\ ~Active(v)
       /\ v.out = Unobserved(c.out) /\ v.outdated = c.outdated \cup {"target"}
  BY <1>10, Stopped
<1> HIDE DEF v
<1>12. "gesture" \in v.outdated /\ "target" \in v.outdated
  BY <1>3, <1>8, <1>10, <1>11
<1>13. v.out = k.out
  <2>1. Writing(u.gesture.values).kind = "write"
    BY DEF Writing
  <2> QED
    BY <1>6, <1>10, <1>11, <2>1, UnobservedFacts
<1>14. Active(u) => u.gesture.values \in Writings
  BY GestureFacts DEF UiInv, UiBase, Raw, UiTypes, Active
<1> QED
  BY <1>1, <1>6, <1>11, <1>12, <1>13, <1>14, HandledCut

\* The editor becomes the active one, and starts over.
LEMMA HandledActivate ==
  ASSUME NEW u, NEW fs, UiInv(u), Idle(u), ~u.active
  PROVE  Handled(u, Observe([Cancel(u) EXCEPT !.active = TRUE]), fs)
<1> DEFINE c == Cancel(u)
           k == [c EXCEPT !.active = TRUE]
           v == Observe(k)
<1>1. /\ UiInv(c) /\ ~Active(c)
      /\ \/ c.out = <<Ending>> /\ c.outdated = {"gesture"}
         \/ c.out = << >> /\ c.outdated = {} /\ ~Active(u)
  <2>1. CASE ~Active(u)
    BY <2>1 DEF Cancel, Idle
  <2>2. CASE Active(u)
    <3>1. Cancelled(u, c)
      BY <2>2, CancelFacts DEF UiInv, UiBase
    <3> HIDE DEF c
    <3> QED
      BY <3>1, GestureFacts DEF Cancelled, Active
  <2> QED
    BY <2>1, <2>2
<1> HIDE DEF c
<1>2. Shaped(k, UiFields) /\ Same(c, k, UiFields \ {"active"}) /\ k.active = TRUE
  BY <1>1, Zenon DEF UiInv, UiBase, Raw, UiTypes, Shaped, Same, UiFields
<1>3. v = Observe([c EXCEPT !.active = TRUE])
  OBVIOUS
<1> HIDE DEF k
<1>4. /\ k.busy = c.busy /\ k.ready = c.ready /\ k.scope = c.scope
      /\ k.started = c.started /\ k.focus = c.focus /\ k.values = c.values /\ k.models = c.models
      /\ k.dials = c.dials /\ k.choice = c.choice /\ k.gesture = c.gesture
      /\ k.graph = c.graph /\ k.out = c.out /\ k.outdated = c.outdated
  BY <1>2 DEF Same, UiFields
<1>5. Raw(k)
  BY <1>1, <1>2, <1>4 DEF UiInv, UiBase, Raw, UiTypes, DialsHeld
<1>6. /\ UiInv(v) /\ ~v.ready
      /\ Same(k, v, {"active", "gesture", "dials", "scope", "focus", "models", "lost"})
      /\ v.outdated = k.outdated \cup {"target"} /\ v.out = Append(Unobserved(k.out), Observing)
  BY <1>2, <1>5, ObserveFacts
<1> HIDE DEF v
<1>7. ~Active(v)
  BY <1>1, <1>4, <1>6 DEF Same, Active
<1>8. \/ v.out = <<Ending, Observing>> /\ "gesture" \in v.outdated
      \/ v.out = <<Observing>> /\ ~Active(u)
  <2>1. CASE c.out = <<Ending>> /\ c.outdated = {"gesture"}
    <3>1. Unobserved(k.out) = <<Ending>>
      BY <1>4, <2>1, UnobservedFacts
    <3> QED
      BY <1>4, <1>6, <2>1, <3>1, Appends
  <2>2. CASE c.out = << >> /\ ~Active(u)
    <3>1. Unobserved(k.out) = << >>
      BY <1>4, <2>2, UnobservedFacts
    <3> QED
      BY <1>6, <2>2, <3>1, Appends
  <2> QED
    BY <1>1, <2>1, <2>2
<1> QED
  BY <1>3, <1>6, <1>7, <1>8, HandledCut DEF c

\* A command nobody waits for was refused.
LEMMA HandledUnmatched ==
  ASSUME NEW u, NEW fs, UiInv(u), Idle(u), Waits(u, fs), ~Active(u) => ~u.ready, NEW error \in BOOLEAN
  PROVE  Handled(u, Unmatched(u, error), fs)
<1>1. CASE ~error
  BY <1>1, HandledCancel DEF Unmatched
<1>2. CASE error
  <2> DEFINE c == Cancel(u)
             k == Fail(c)
             v == SetBusy(k, TRUE)
  <2>1. v = Unmatched(u, error)
    BY <1>2 DEF Unmatched
  <2>2. Handled(u, c, fs)
    BY HandledCancel
  <2>3. UiInv(c) /\ ~c.ready /\ ~Active(c) /\ (Active(u) \/ c = u)
    <3>1. CASE ~Active(u)
      BY <3>1, <2>2 DEF Cancel, Handled
    <3>2. CASE Active(u)
      <4>1. Cancelled(u, c)
        BY <3>2, CancelFacts DEF UiInv, UiBase
      <4>2. ~u.active => ~u.ready
        BY DEF UiInv, UiBase, Known
      <4> HIDE DEF c
      <4> QED
        BY <3>2, <4>1, <4>2, GestureFacts DEF Cancelled, Active
    <3> QED
      BY <3>1, <3>2
  <2> HIDE DEF c
  <2>4. Shaped(k, UiFields) /\ Same(c, k, UiFields \ {"active"}) /\ k.active = FALSE
    BY <2>2, Zenon DEF Handled, UiInv, UiBase, Raw, UiTypes, Shaped, Same, UiFields, Fail
  <2> HIDE DEF k
  <2>5. /\ k.busy = c.busy /\ k.ready = c.ready /\ k.scope = c.scope
        /\ k.started = c.started /\ k.focus = c.focus /\ k.values = c.values /\ k.models = c.models
        /\ k.dials = c.dials /\ k.choice = c.choice /\ k.gesture = c.gesture
        /\ k.graph = c.graph /\ k.telemetry = c.telemetry
        /\ k.out = c.out /\ k.outdated = c.outdated
    BY <2>4 DEF Same, UiFields
  <2>6. UiBase(k)
    <3>1. Raw(k)
      BY <2>3, <2>4, <2>5 DEF UiInv, UiBase, Raw, UiTypes, DialsHeld
    <3> QED
      BY <2>3, <2>5, <3>1 DEF UiInv, UiBase, Known, Measures, GraphHeld, Restarted, Editing, Active
  <2>7. UiInv(v) /\ Carried(k, v) /\ Same(k, v, Aside)
    BY <2>4, <2>6, SetBusyInv, SetBusyCarries DEF UiBase
  <2> HIDE DEF v
  <2>8. /\ v.active = FALSE /\ v.ready = c.ready /\ v.gesture = c.gesture
        /\ v.out = c.out /\ v.outdated = c.outdated
    BY <2>4, <2>5, <2>7 DEF Carried, Same, Aside
  <2>9. ~Active(v)
    BY <2>3, <2>8 DEF Active
  <2>10. CASE Active(u)
    <3>1. Cancelled(u, c)
      BY <2>10, CancelFacts DEF UiInv, UiBase, c
    <3>2. CASE u.active
      <4>1. "gesture" \in v.outdated /\ "target" \in v.outdated /\ v.out = <<Ending, Observing>>
        BY <2>8, <3>1, <3>2 DEF Cancelled
      <4> QED
        BY <2>1, <2>3, <2>7, <2>8, <2>9, <4>1, HandledCut
    <3>3. CASE ~u.active
      <4>1. v.ready = u.ready /\ v.outdated = {"gesture"} /\ v.out = <<Ending>>
        BY <2>8, <3>1, <3>3 DEF Cancelled
      <4> QED
        BY <2>1, <2>7, <2>8, <2>9, <2>10, <3>3, <4>1, HandledClosed
    <3> QED
      BY <3>2, <3>3
  <2>11. CASE ~Active(u)
    <3>1. /\ v.out = << >> /\ v.outdated = {} /\ ~v.ready /\ ~u.ready /\ v.active = FALSE
      BY <2>3, <2>8, <2>11 DEF Idle
    <3>2. Turn(u, v)
      <4>1. u.ready \in BOOLEAN /\ v.ready \in BOOLEAN
        BY <2>7 DEF UiInv, UiBase, Raw, UiTypes
      <4> QED
        BY <2>9, <2>11, <3>1, <4>1 DEF Turn, Idle
    <3>3. Grip(u, v)
      BY <2>9 DEF Grip, Editing
    <3> QED
      BY <2>1, <2>7, <3>1, <3>2, <3>3 DEF Handled, Outs
  <2> QED
    BY <2>10, <2>11
<1> QED
  BY <1>1, <1>2

\* The answer to a discrete value.
LEMMA HandledCommitted ==
  ASSUME NEW u, NEW fs, UiInv(u), Idle(u), NEW frame
  PROVE  Handled(u, CommitCompletion(u, frame), fs)
<1>1. CommitCompletion(u, frame) \in {u, Observe(u)}
  BY DEF CommitCompletion
<1>2. Handled(u, u, fs)
  BY HandledSame DEF Same
<1> QED
  BY <1>1, <1>2, HandledObserve

\* The answer to a reset, for the values the editor has.
LEMMA HandledCommand ==
  ASSUME NEW u, NEW fs, UiInv(u), Idle(u), NEW frame, frame.current => u.ready
  PROVE  Handled(u, CommandCompletion(u, frame), fs)
<1> DEFINE v == SetBusy(u, FALSE)
<1>1. Handled(u, u, fs)
  BY HandledSame DEF Same
<1>2. Handled(u, Observe(u), fs)
  BY HandledObserve
<1>3. ASSUME u.ready PROVE Handled(u, v, fs)
  <2>1. UiInv(v) /\ Carried(u, v) /\ Same(u, v, Aside)
    BY <1>3, SetBusyInv, SetBusyCarries DEF UiInv, UiBase
  <2> HIDE DEF v
  <2>2. Same(u, v, Status) /\ v.started = u.started /\ v.dials = u.dials
        /\ v.graph.dragging = u.graph.dragging
    BY <2>1 DEF Carried, Same, Aside, Status
  <2> QED
    BY <2>1, <2>2, HandledSame
<1> QED
  BY <1>1, <1>2, <1>3 DEF CommandCompletion

\* What the gesture has not written is written.
LEMMA FlushFacts ==
  ASSUME NEW u, UiInv(u), Idle(u), Active(u)
  PROVE  LET v == Flush(u)
         IN  /\ UiInv(v) /\ Same(u, v, UiFields \ {"gesture", "out"})
             /\ v.gesture.path = u.gesture.path /\ v.gesture.on = u.gesture.on
             /\ v.gesture.values = u.gesture.values
             /\ v.gesture.ready = u.gesture.ready /\ v.gesture.ending = u.gesture.ending
             /\ v.out = << >> \/ (v.out = <<Writing(u.gesture.values)>> /\ u.gesture.ready)
<1> DEFINE g == [u.gesture EXCEPT !.dirty = FALSE]
           k == [u EXCEPT !.gesture.dirty = FALSE]
           v == Send(k, Writing(u.gesture.values))
<1>1. CASE ~(u.gesture.ready /\ u.gesture.dirty)
  BY <1>1 DEF Flush, Same, Idle
<1>2. CASE u.gesture.ready /\ u.gesture.dirty
  <2>1. Flush(u) = v
    BY <1>2, Zenon DEF Flush, WriteCommand, Writing
  <2>2. Shaped(v, UiFields) /\ Same(u, v, UiFields \ {"gesture", "out"}) /\ v.gesture = g
        /\ v.out = Append(u.out, Writing(u.gesture.values))
    BY Zenon DEF UiInv, UiBase, Raw, UiTypes, Shaped, Same, UiFields, Send
  <2>3. /\ g \in Gestures /\ g.path = u.gesture.path /\ g.on = u.gesture.on
        /\ g.values = u.gesture.values /\ g.ready = u.gesture.ready
        /\ g.ending = u.gesture.ending
    <3>1. u.gesture \in OpenGestures(Dials, "dial") \cup OpenGestures(Handles, Graph)
      BY GestureFacts DEF UiInv, UiBase, Raw, UiTypes, Active, Gestures
    <3> QED
      BY <3>1 DEF Gestures, OpenGestures
  <2> HIDE DEF g
  <2> HIDE DEF v
  <2>4. v.out = <<Writing(u.gesture.values)>>
    BY <2>2, Appends DEF Idle
  <2>5. /\ v.active = u.active /\ v.busy = u.busy /\ v.ready = u.ready /\ v.scope = u.scope
        /\ v.started = u.started /\ v.focus = u.focus /\ v.values = u.values /\ v.models = u.models
        /\ v.dials = u.dials /\ v.choice = u.choice /\ v.leveling = u.leveling
        /\ v.telemetry = u.telemetry /\ v.source = u.source /\ v.graph = u.graph
        /\ v.navigation = u.navigation /\ v.graphOn = u.graphOn
        /\ v.enabled = u.enabled /\ v.on = u.on
    BY <2>2 DEF Same, UiFields
  <2>6. Raw(v)
    BY <2>2, <2>3, <2>5 DEF UiInv, UiBase, Raw, UiTypes, DialsHeld
  <2>7. Known(v) /\ Measures(v) /\ GraphHeld(v) /\ Restarted(v) /\ Enabled(v)
    BY <2>2, <2>3, <2>5 DEF UiInv, UiBase, Known, Measures, GraphHeld, Restarted, Enabled, Editing, Active
  <2>8. UiInv(v)
    BY <2>6, <2>7 DEF UiInv, UiBase
  <2> QED
    BY <1>2, <2>1, <2>2, <2>3, <2>4, <2>8
<1> QED
  BY <1>1, <1>2

\* The timer of the gesture.
LEMMA HandledFlush ==
  ASSUME NEW u, NEW fs, UiInv(u), Idle(u), Waits(u, fs), Editing(u)
  PROVE  Handled(u, Flush(u), fs)
<1> DEFINE v == Flush(u)
<1>1. Active(u) /\ ~u.gesture.ending
  BY DEF Editing
<1>2. /\ UiInv(v) /\ Same(u, v, UiFields \ {"gesture", "out"})
      /\ v.gesture.path = u.gesture.path /\ v.gesture.on = u.gesture.on
      /\ v.gesture.ready = u.gesture.ready /\ v.gesture.ending = u.gesture.ending
      /\ v.out = << >> \/ (v.out = <<Writing(u.gesture.values)>> /\ u.gesture.ready)
  BY <1>1, FlushFacts
<1> HIDE DEF v
<1>3. /\ v.active = u.active /\ v.ready = u.ready /\ v.values = u.values /\ v.started = u.started
      /\ v.dials = u.dials /\ v.graph = u.graph /\ v.outdated = {}
  BY <1>2 DEF Same, UiFields, Idle
<1>4. Active(v)
  BY <1>1, <1>2 DEF Active
<1>5. Turn(u, v) /\ Grip(u, v)
  BY <1>1, <1>2, <1>3, <1>4 DEF Turn, Grip, Idle, Editing
<1>6. u.gesture.values \in Writings
  BY <1>1, GestureFacts DEF UiInv, UiBase, Raw, UiTypes, Active
<1>7. No(fs, "finish")
  BY <1>1, WaitsNo
<1>8. Outs(v, fs)
  BY <1>2, <1>4, <1>6, <1>7 DEF Outs
<1> QED
  BY <1>2, <1>3, <1>5, <1>8 DEF Handled, v

\* A handler of an answer that was waited for: the frames that are left are fit
\* for the editor without it.
Left(u, v, fs) ==
    UiInv(v) /\ Grip(u, v) /\ Outs(v, fs) /\ \E st : Waits(st, fs) /\ Turn(st, v)

\* Sending a command appends it to those that go out and changes nothing else.
LEMMA SendFacts ==
  ASSUME NEW u, UiInv(u), NEW c
  PROVE  LET v == Send(u, c)
         IN  UiInv(v) /\ Same(u, v, UiFields \ {"out"}) /\ v.out = Append(u.out, c)
<1> DEFINE v == Send(u, c)
<1>1. Shaped(v, UiFields) /\ Same(u, v, UiFields \ {"out"}) /\ v.out = Append(u.out, c)
  BY Zenon DEF UiInv, UiBase, Raw, UiTypes, Shaped, Same, UiFields, Send
<1> HIDE DEF v
<1>2. /\ v.active = u.active /\ v.busy = u.busy /\ v.ready = u.ready /\ v.scope = u.scope
      /\ v.started = u.started /\ v.focus = u.focus /\ v.values = u.values /\ v.models = u.models
      /\ v.dials = u.dials /\ v.choice = u.choice /\ v.leveling = u.leveling
      /\ v.telemetry = u.telemetry /\ v.source = u.source /\ v.gesture = u.gesture
      /\ v.graph = u.graph /\ Same(u, v, Controls)
  BY <1>1 DEF Same, UiFields, Controls
<1>3. Carried(u, v)
  BY <1>1, <1>2 DEF Carried, UiInv, UiBase, Raw, UiTypes
<1>4. UiInv(v)
  BY <1>2, <1>3, CarriedInv
<1> QED
  BY <1>1, <1>4 DEF v

\* The answer to the beginning of a gesture.
LEMMA HandledBegin ==
  ASSUME NEW u, NEW fs, UiInv(u), Idle(u), Waits(u, fs),
         Active(u), ~u.gesture.ready, No(fs, "begin"), NEW a \in BOOLEAN
  PROVE  /\ Left(u, BeginAnswered(u, a), fs)
         /\ BeginAnswered(u, a).ready => u.ready /\ BeginAnswered(u, a).values = u.values
<1>1. CASE ~a
  <2>1. Handled(u, Cancel(u), fs)
    BY HandledCancel
  <2>2. BeginAnswered(u, a) = Cancel(u)
    BY <1>1 DEF BeginAnswered
  <2> QED
    BY <2>1, <2>2, Zenon DEF Handled, Left, Turn
<1>2. CASE a
  <2> DEFINE g == [u.gesture EXCEPT !.ready = TRUE]
             r == [u EXCEPT !.gesture.ready = TRUE]
             f == Flush(r)
             v == IF Editing(u) THEN f ELSE Send(f, Finishing(u.gesture.values))
  <2>1. Shaped(r, UiFields) /\ Same(u, r, UiFields \ {"gesture"}) /\ r.gesture = g
    BY Zenon DEF UiInv, UiBase, Raw, UiTypes, Shaped, Same, UiFields
  <2>2. /\ g \in Gestures /\ g.path = u.gesture.path /\ g.on = u.gesture.on
        /\ g.values = u.gesture.values /\ g.ready = TRUE /\ g.ending = u.gesture.ending
        /\ u.gesture.values \in Writings /\ u.gesture.ending \in BOOLEAN
    <3>1. u.gesture \in OpenGestures(Dials, "dial") \cup OpenGestures(Handles, Graph)
      BY GestureFacts DEF UiInv, UiBase, Raw, UiTypes, Active, Gestures
    <3> QED
      BY <3>1 DEF Gestures, OpenGestures
  <2>3. BeginAnswered(u, a) = v
    <3>1. r.gesture.values = u.gesture.values
      BY <2>1, <2>2
    <3>2. BeginAnswered(u, a) = IF Editing(u) THEN Flush(r) ELSE Finish(r)
      BY <1>2, Zenon DEF BeginAnswered
    <3> HIDE DEF r
    <3>3. Finish(r) = Send(f, Finishing(u.gesture.values))
      BY <3>1 DEF Finish, Finishing
    <3> QED
      BY <3>2, <3>3
  <2> HIDE DEF g
  <2> HIDE DEF r
  <2>4. /\ r.active = u.active /\ r.busy = u.busy /\ r.ready = u.ready /\ r.scope = u.scope
        /\ r.started = u.started /\ r.focus = u.focus /\ r.values = u.values /\ r.models = u.models
        /\ r.dials = u.dials /\ r.choice = u.choice /\ r.leveling = u.leveling
        /\ r.telemetry = u.telemetry /\ r.source = u.source /\ r.graph = u.graph
        /\ r.navigation = u.navigation /\ r.graphOn = u.graphOn
        /\ r.enabled = u.enabled /\ r.on = u.on /\ r.out = << >> /\ r.outdated = {}
    BY <2>1 DEF Same, UiFields, Idle
  <2>5. UiInv(r) /\ Idle(r) /\ Active(r)
    <3>1. Raw(r)
      BY <2>1, <2>2, <2>4 DEF UiInv, UiBase, Raw, UiTypes, DialsHeld
    <3>2. Known(r) /\ Measures(r) /\ GraphHeld(r) /\ Restarted(r) /\ Enabled(r)
      BY <2>1, <2>2, <2>4 DEF UiInv, UiBase, Known, Measures, GraphHeld, Restarted, Enabled, Editing, Active
    <3> QED
      BY <2>1, <2>2, <2>4, <3>1, <3>2 DEF UiInv, UiBase, Idle, Active
  <2>6. No(fs, "finish")
    BY WaitsNo
  <2>7. Waits(r, fs)
    BY <2>1, <2>2, <2>4, <2>6 DEF Waits, No, Active
  <2>8. /\ UiInv(f) /\ Same(r, f, UiFields \ {"gesture", "out"})
        /\ f.gesture.path = r.gesture.path /\ f.gesture.on = r.gesture.on
        /\ f.gesture.ready = r.gesture.ready /\ f.gesture.ending = r.gesture.ending
        /\ f.out = << >> \/ f.out = <<Writing(u.gesture.values)>>
    BY <2>1, <2>2, <2>5, FlushFacts
  <2> HIDE DEF f
  <2>9. /\ f.active = u.active /\ f.ready = u.ready /\ f.values = u.values /\ f.started = u.started
        /\ f.dials = u.dials /\ f.graph = u.graph /\ f.outdated = {}
    BY <2>4, <2>8 DEF Same, UiFields
  <2>10. /\ UiInv(v) /\ v.active = u.active /\ v.ready = u.ready /\ v.values = u.values
         /\ v.started = u.started /\ v.dials = u.dials /\ v.graph = u.graph /\ v.outdated = {}
         /\ v.gesture.path = u.gesture.path /\ v.gesture.on = u.gesture.on
         /\ v.gesture.ready = TRUE /\ v.gesture.ending = u.gesture.ending
         /\ v.out = IF Editing(u) THEN f.out ELSE Append(f.out, Finishing(u.gesture.values))
    <3>1. CASE Editing(u)
      BY <2>1, <2>2, <2>8, <2>9, <3>1
    <3>2. CASE ~Editing(u)
      BY <2>1, <2>2, <2>8, <2>9, <3>2, SendFacts DEF Same, UiFields
    <3> QED
      BY <3>1, <3>2
  <2> HIDE DEF v
  <2>11. Active(v) /\ (Editing(v) <=> Editing(u))
    BY <2>10 DEF Active, Editing
  <2>12. Turn(r, v) /\ Grip(u, v)
    <3>1. r.gesture.ready = TRUE /\ r.gesture.ending = u.gesture.ending
      BY <2>1, <2>2
    <3>2. Turn(r, v)
      BY <2>4, <2>5, <2>10, <2>11, <3>1 DEF Turn
    <3>3. Grip(u, v)
      BY <2>10, <2>11 DEF Grip
    <3> QED
      BY <3>2, <3>3
  <2>13. Outs(v, fs)
    <3>1. CASE Editing(u)
      BY <2>2, <2>6, <2>8, <2>10, <2>11, <3>1 DEF Outs
    <3>2. CASE ~Editing(u)
      <4>1. v.out = <<Finishing(u.gesture.values)>>
            \/ v.out = <<Writing(u.gesture.values), Finishing(u.gesture.values)>>
        <5>1. CASE f.out = << >>
          BY <2>10, <3>2, <5>1, Appends
        <5>2. CASE f.out = <<Writing(u.gesture.values)>>
          BY <2>10, <3>2, <5>2, Appends
        <5> QED
          BY <2>8, <5>1, <5>2
      <4>2. Completing(v, fs)
        BY <2>6, <2>10, <2>11, <3>2 DEF Completing, Editing
      <4> QED
        BY <2>2, <4>1, <4>2 DEF Outs
    <3> QED
      BY <3>1, <3>2
  <2> QED
    BY <2>3, <2>7, <2>10, <2>12, <2>13 DEF Left
<1> QED
  BY <1>1, <1>2

\* The answer to the end of a gesture.
LEMMA HandledFinish ==
  ASSUME NEW u, NEW fs, UiInv(u), Idle(u), Waits(u, fs), Active(u), u.gesture.ready,
         No(fs, "finish"), No(fs, "unmatched"), NEW a \in BOOLEAN
  PROVE  /\ Left(u, GestureFinished(u, a), fs)
         /\ GestureFinished(u, a).ready => u.ready /\ GestureFinished(u, a).values = u.values
<1> DEFINE c == Closed(u)
           v == GestureFinished(u, a)
           st == [active |-> u.active, ready |-> u.ready, gesture |-> NoGesture, outdated |-> {}]
<1>1. No(fs, "begin")
  BY WaitsNo
<1>2. ~Active(st)
  BY GestureFacts DEF Active
<1>3. Waits(st, fs)
  <2>1. st.active = u.active /\ st.ready = u.ready
    OBVIOUS
  <2> HIDE DEF st
  <2> QED
    BY <1>1, <1>2, <2>1 DEF Waits, No
<1>4. /\ UiInv(c) /\ c.gesture = NoGesture /\ ~c.started /\ c.active = u.active /\ c.ready = u.ready
      /\ c.values = u.values /\ c.out = << >> /\ c.outdated = {}
  <2>1. /\ c.gesture = NoGesture /\ ~c.started /\ Same(u, c, Remaining)
        /\ (Known(u) /\ Measures(u) /\ (u.active /\ ~u.busy => u.ready) => UiInv(c))
    BY ClosedFacts DEF UiInv, UiBase, Raw
  <2> HIDE DEF c
  <2>2. UiInv(c)
    BY <2>1 DEF UiInv, UiBase, Enabled
  <2> QED
    BY <2>1, <2>2 DEF Same, Remaining, Idle
<1>5. v = IF u.active /\ ~a THEN Observe(c) ELSE c
  BY FinishedFacts DEF UiInv, UiBase, Raw
<1> HIDE DEF c
<1>6. CASE ~(u.active /\ ~a)
  <2>1. ~Active(c)
    BY <1>4, GestureFacts DEF Active
  <2>2. Turn(st, c) /\ Grip(u, c) /\ Outs(c, fs)
    <3>1. st.active = u.active /\ st.ready = u.ready /\ st.outdated = {}
      OBVIOUS
    <3> HIDE DEF st
    <3> QED
      BY <1>2, <1>4, <2>1, <3>1 DEF Turn, Grip, Outs, Editing
  <2> QED
    BY <1>3, <1>4, <1>5, <1>6, <2>2 DEF Left
<1>7. CASE u.active /\ ~a
  <2> DEFINE o == Observe(c)
  <2>1. /\ UiInv(o) /\ ~o.ready
        /\ Same(c, o, {"active", "gesture", "dials", "scope", "focus", "models", "lost"})
        /\ o.outdated = c.outdated \cup {"target"} /\ o.out = Append(Unobserved(c.out), Observing)
    BY <1>4, <1>7, ObserveFacts DEF UiInv, UiBase
  <2> HIDE DEF o
  <2>2. Unobserved(c.out) = << >>
    BY <1>4, UnobservedFacts
  <2>3. o.out = <<Observing>> /\ o.outdated = {"target"}
    BY <1>4, <2>1, <2>2, Appends
  <2>4. ~Active(o)
    BY <1>4, <2>1, GestureFacts DEF Same, Active
  <2>5. Turn(st, o) /\ Grip(u, o) /\ Outs(o, fs)
    <3>1. st.active = u.active /\ st.ready = u.ready /\ st.outdated = {}
      OBVIOUS
    <3> HIDE DEF st
    <3> QED
      BY <1>2, <2>1, <2>3, <2>4, <3>1 DEF Turn, Grip, Outs, Editing
  <2> QED
    BY <1>3, <1>5, <1>7, <2>1, <2>5 DEF Left, o
<1> QED
  BY <1>6, <1>7

\* The graph of the selected source takes the values that are known.
LEMMA ShowSourceFacts ==
  ASSUME NEW u, UiTypes(u), GraphInv(u.graph), u.ready, u.values \in Banks, rate \in Nat
  PROVE  LET v == ShowSource(u)
         IN  /\ Shaped(v, UiFields) /\ Same(u, v, UiFields \ {"graph"}) /\ GraphInv(v.graph)
             /\ v.graph.context = u.source /\ v.graph.entries = Restrict(u.values, Bound(u.source))
             /\ v.graph.preview = NoEntries /\ ~v.graph.dragging
             /\ v.graph.spectrum \in {None, u.graph.spectrum}
<1> DEFINE g == SetSnapshot(ResetInteraction(u.graph), u.source, u.values, rate)
           h == [g EXCEPT !.group = u.scope]
           k == [u EXCEPT !.graph = h]
           v == ShowSource(u)
<1>1. /\ GraphInv(g)
      /\ g.context = u.source /\ g.entries = Restrict(u.values, Bound(u.source)) /\ g.preview = NoEntries
      /\ g.dragging = FALSE /\ g.spectrum \in {None, u.graph.spectrum}
  BY SetSnapshotFacts
<1>2. /\ Shaped(v, UiFields) /\ Same(u, v, UiFields \ {"graph"}) /\ v.graph = h
  BY Zenon DEF UiTypes, Shaped, Same, UiFields, ShowSource
<1> HIDE DEF g
<1>3. Shaped(h, GraphFields) /\ Same(g, h, GraphFields \ {"group"})
  BY <1>1, Zenon DEF GraphInv, Shaped, Same, GraphFields
<1> HIDE DEF h
<1> HIDE DEF v
<1>4. Same(g, h, {"context", "entries", "preview", "q", "rate", "ready", "curves", "all"})
      /\ h.dragging = g.dragging /\ h.selected = g.selected /\ h.context = g.context
      /\ h.entries = g.entries /\ h.preview = g.preview /\ h.spectrum = g.spectrum
  BY <1>3 DEF Same, GraphFields
<1>5. GraphInv(h)
  BY <1>1, <1>3, <1>4, GraphKept DEF GraphInv
<1> QED
  BY <1>1, <1>2, <1>4, <1>5 DEF v

\* Another source is selected.
LEMMA HandledSource ==
  ASSUME NEW u, NEW fs, UiInv(u), Idle(u), u.navigation, rate \in Nat, NEW c
  PROVE  Handled(u, ShowSource([u EXCEPT !.source = c]), fs)
<1> DEFINE k == [u EXCEPT !.source = c]
           v == ShowSource(k)
<1>1. Shaped(k, UiFields) /\ Same(u, k, UiFields \ {"source"})
  BY Zenon DEF UiInv, UiBase, Raw, UiTypes, Shaped, Same, UiFields
<1> HIDE DEF k
<1>2. /\ k.active = u.active /\ k.busy = u.busy /\ k.ready = u.ready /\ k.scope = u.scope
      /\ k.started = u.started /\ k.focus = u.focus /\ k.values = u.values /\ k.models = u.models
      /\ k.dials = u.dials /\ k.choice = u.choice /\ k.leveling = u.leveling
      /\ k.telemetry = u.telemetry /\ k.gesture = u.gesture /\ k.graph = u.graph
      /\ k.navigation = u.navigation /\ k.graphOn = u.graphOn /\ k.enabled = u.enabled
      /\ k.on = u.on /\ k.out = << >> /\ k.outdated = {}
  BY <1>1 DEF Same, UiFields, Idle
<1>3. u.ready /\ u.active /\ ~Active(u) /\ u.values \in Banks
  BY DEF UiInv, UiBase, Enabled, Known
<1>4. UiTypes(k) /\ GraphInv(k.graph)
  BY <1>1, <1>2 DEF UiInv, UiBase, Raw, UiTypes
<1>5. /\ Shaped(v, UiFields) /\ Same(k, v, UiFields \ {"graph"}) /\ GraphInv(v.graph)
      /\ v.graph.context = k.source /\ v.graph.entries = Restrict(k.values, Bound(k.source))
      /\ v.graph.preview = NoEntries /\ ~v.graph.dragging
      /\ v.graph.spectrum \in {None, k.graph.spectrum}
  BY <1>2, <1>3, <1>4, ShowSourceFacts
<1> HIDE DEF v
<1>6. /\ v.active = k.active /\ v.busy = k.busy /\ v.ready = k.ready /\ v.scope = k.scope
      /\ v.started = k.started /\ v.focus = k.focus /\ v.values = k.values /\ v.models = k.models
      /\ v.dials = k.dials /\ v.choice = k.choice /\ v.leveling = k.leveling
      /\ v.telemetry = k.telemetry /\ v.gesture = k.gesture /\ v.source = k.source
      /\ v.navigation = k.navigation /\ v.graphOn = k.graphOn /\ v.enabled = k.enabled
      /\ v.on = k.on /\ v.out = k.out /\ v.outdated = k.outdated
  BY <1>5 DEF Same, UiFields
<1>7. Raw(v)
  BY <1>2, <1>5, <1>6 DEF UiInv, UiBase, Raw, UiTypes, DialsHeld
<1>8. Known(v) /\ Measures(v) /\ GraphHeld(v) /\ Restarted(v) /\ Enabled(v)
  BY <1>2, <1>5, <1>6 DEF UiInv, UiBase, Known, Measures, GraphHeld, Restarted, Enabled, Editing, Active
<1>9. UiInv(v)
  BY <1>7, <1>8 DEF UiInv, UiBase
<1>10. Same(u, v, Status)
  BY <1>2, <1>6, ZenonT(60) DEF Same, Status, Idle
<1> QED
  BY <1>3, <1>9, <1>10, HandledSame DEF v, k

\* The values of the bank: the strip is built for them and the graph drawn.
LEMMA HandledSnapshot ==
  ASSUME NEW u, NEW fs, UiInv(u), Idle(u), Waits(u, fs), ~u.ready, Active(u) => u.active,
         No(fs, "snapshot"), ~Active(u) => No(fs, "unmatched"), rate \in Nat,
         NEW frame, frame.accepted \in BOOLEAN, frame.values \in Banks
  PROVE  LET v == ApplySnapshot(u, frame)
         IN  Left(u, v, fs) /\ (v.ready => v.values = frame.values)
             /\ (Editing(v) => v.started)
<1> DEFINE v == ApplySnapshot(u, frame)
<1>0. Editing(u) => u.started
  BY DEF UiInv, UiBase, Restarted
<1>1. CASE ~u.active
  <2>1. v = u
    BY <1>1 DEF ApplySnapshot
  <2>2. Handled(u, u, fs)
    BY HandledSame DEF Same
  <2> QED
    BY <1>0, <2>1, <2>2 DEF Handled, Left
<1>2. CASE u.active /\ ~frame.accepted
  <2> DEFINE k == Fail(u)
             st == [active |-> FALSE, ready |-> FALSE, gesture |-> u.gesture, outdated |-> {}]
  <2>1. v = SetBusy(k, TRUE)
    BY <1>2 DEF ApplySnapshot
  <2>2. Shaped(k, UiFields) /\ Same(u, k, UiFields \ {"active"}) /\ k.active = FALSE
    BY Zenon DEF UiInv, UiBase, Raw, UiTypes, Shaped, Same, UiFields, Fail
  <2> HIDE DEF k
  <2> HIDE DEF v
  <2>3. /\ k.busy = u.busy /\ k.ready = u.ready /\ k.scope = u.scope
        /\ k.started = u.started /\ k.focus = u.focus /\ k.values = u.values /\ k.models = u.models
        /\ k.dials = u.dials /\ k.choice = u.choice /\ k.gesture = u.gesture
        /\ k.graph = u.graph /\ k.telemetry = u.telemetry
        /\ k.out = << >> /\ k.outdated = {}
    BY <2>2 DEF Same, UiFields, Idle
  <2>4. UiBase(k)
    <3>1. Raw(k)
      BY <2>2, <2>3 DEF UiInv, UiBase, Raw, UiTypes, DialsHeld
    <3> QED
      BY <2>3, <3>1 DEF UiInv, UiBase, Known, Measures, GraphHeld, Restarted, Editing, Active
  <2>5. UiInv(v) /\ Carried(k, v) /\ Same(k, v, Aside)
    BY <2>1, <2>2, <2>4, SetBusyInv, SetBusyCarries DEF UiBase
  <2>6. /\ v.active = FALSE /\ v.ready = u.ready /\ v.gesture = u.gesture /\ v.started = u.started
        /\ v.out = << >> /\ v.outdated = {}
    BY <2>2, <2>3, <2>5 DEF Carried, Same, Aside
  <2>7. /\ st.active = FALSE /\ st.ready = FALSE /\ st.gesture = u.gesture /\ st.outdated = {}
    OBVIOUS
  <2> HIDE DEF st
  <2>8. u.ready = FALSE
    BY DEF UiInv, UiBase, Raw, UiTypes
  <2>9. Waits(st, fs) /\ Turn(st, v)
    <3>1. Waits(st, fs)
      BY <2>7, <2>8 DEF Waits, No, Active
    <3>2. Turn(st, v)
      BY <2>6, <2>7, <2>8 DEF Turn, Active
    <3> QED
      BY <3>1, <3>2
  <2>10. Editing(v) => v.started
    BY <1>0, <2>6 DEF Editing, Active
  <2> QED
    BY <2>5, <2>6, <2>9, <2>10 DEF Left, Grip, Outs, v
<1>3. CASE u.active /\ frame.accepted
  <2> DEFINE k == [u EXCEPT !.ready = TRUE, !.values = frame.values]
             o == SetOverlays(k)
             a == ApplyParameters(o)
             s == ShowSource(a)
             b == RebuildStrip(s)
             st == [active |-> TRUE, ready |-> TRUE, gesture |-> u.gesture, outdated |-> {}]
  <2>1. v = SetBusy(b, FALSE)
    BY <1>3 DEF ApplySnapshot
  <2>2. /\ Shaped(k, UiFields) /\ Same(u, k, UiFields \ {"ready", "values"})
        /\ k.ready = TRUE /\ k.values = frame.values
    BY Zenon DEF UiInv, UiBase, Raw, UiTypes, Shaped, Same, UiFields
  <2> HIDE DEF k
  <2> HIDE DEF v
  <2>3. /\ Shaped(o, UiFields) /\ Same(k, o, UiFields \ {"leveling", "telemetry"})
        /\ o.leveling = (k.values[Leveler].value = 1) /\ o.telemetry \in {None, k.telemetry}
    BY <2>2, Zenon DEF SetOverlays, Shaped, Same, UiFields
  <2> HIDE DEF o
  <2>4. /\ Shaped(a, UiFields) /\ Same(o, a, UiFields \ {"models"})
        /\ a.models = Restrict(o.values, Strip)
    BY <2>3, Zenon DEF ApplyParameters, Shaped, Same, UiFields
  <2> HIDE DEF a
  <2>5. /\ k.active = u.active /\ k.busy = u.busy /\ k.scope = u.scope
        /\ k.started = u.started /\ k.focus = u.focus /\ k.models = u.models
        /\ k.dials = u.dials /\ k.choice = u.choice /\ k.gesture = u.gesture
        /\ k.graph = u.graph /\ k.telemetry = u.telemetry /\ k.source = u.source
        /\ k.out = << >> /\ k.outdated = {}
    BY <2>2 DEF Same, UiFields, Idle
  <2>6. /\ o.active = k.active /\ o.busy = k.busy /\ o.scope = k.scope
        /\ o.started = k.started /\ o.focus = k.focus /\ o.ready = k.ready /\ o.values = k.values
        /\ o.dials = k.dials /\ o.choice = k.choice /\ o.gesture = k.gesture
        /\ o.graph = k.graph /\ o.source = k.source
        /\ o.out = k.out /\ o.outdated = k.outdated
    BY <2>3 DEF Same, UiFields
  <2>7. /\ a.active = o.active /\ a.busy = o.busy /\ a.scope = o.scope
        /\ a.started = o.started /\ a.focus = o.focus /\ a.ready = o.ready /\ a.values = o.values
        /\ a.dials = o.dials /\ a.choice = o.choice /\ a.gesture = o.gesture
        /\ a.graph = o.graph /\ a.source = o.source /\ a.leveling = o.leveling
        /\ a.telemetry = o.telemetry /\ a.out = o.out /\ a.outdated = o.outdated
    BY <2>4 DEF Same, UiFields
  <2>8. a.models \in Strips /\ a.models = Restrict(frame.values, Strip) /\ a.values = frame.values
    BY <2>2, <2>4, <2>6, <2>7, BankFacts
  <2>9. UiTypes(a) /\ GraphInv(a.graph) /\ a.ready = TRUE
    BY <2>2, <2>4, <2>5, <2>6, <2>7, <2>8 DEF UiInv, UiBase, Raw, UiTypes
  <2>10. /\ Shaped(s, UiFields) /\ Same(a, s, UiFields \ {"graph"}) /\ GraphInv(s.graph)
         /\ s.graph.context = a.source /\ s.graph.entries = Restrict(a.values, Bound(a.source))
         /\ s.graph.preview = NoEntries /\ ~s.graph.dragging
         /\ s.graph.spectrum \in {None, a.graph.spectrum}
    BY <2>8, <2>9, ShowSourceFacts
  <2> HIDE DEF s
  <2>11. /\ Shaped(b, UiFields) /\ Same(s, b, UiFields \ {"dials", "choice"})
         /\ b.dials = [d \in Dials |-> NewDial] /\ b.choice = None
    BY <2>10, Zenon DEF RebuildStrip, Shaped, Same, UiFields
  <2> HIDE DEF b
  <2>12. /\ s.active = a.active /\ s.busy = a.busy /\ s.scope = a.scope
         /\ s.started = a.started /\ s.focus = a.focus /\ s.ready = a.ready /\ s.values = a.values
         /\ s.models = a.models /\ s.gesture = a.gesture
         /\ s.source = a.source /\ s.leveling = a.leveling
         /\ s.telemetry = a.telemetry /\ s.out = a.out /\ s.outdated = a.outdated
    BY <2>10 DEF Same, UiFields
  <2>13. /\ b.active = s.active /\ b.busy = s.busy /\ b.scope = s.scope
         /\ b.started = s.started /\ b.focus = s.focus /\ b.ready = s.ready /\ b.values = s.values
         /\ b.models = s.models /\ b.gesture = s.gesture
         /\ b.source = s.source /\ b.leveling = s.leveling /\ b.graph = s.graph
         /\ b.telemetry = s.telemetry /\ b.out = s.out /\ b.outdated = s.outdated
    BY <2>11 DEF Same, UiFields
  <2>14. NewDial \in DialStates /\ ~Previewing(NewDial) /\ NewDial.dragging = FALSE
    BY DEF NewDial, DialStates, Previewing
  <2>15. Raw(b)
    <3>1. UiTypes(b)
      BY <2>9, <2>11, <2>12, <2>13, <2>14 DEF UiTypes
    <3>2. DialsHeld(b)
      BY <2>11, <2>14 DEF DialsHeld
    <3> QED
      BY <2>10, <2>13, <3>1, <3>2 DEF Raw
  <2>16. Known(b)
    BY <1>3, <2>2, <2>3, <2>5, <2>6, <2>7, <2>8, <2>10, <2>12, <2>13 DEF Known
  <2>17. Measures(b)
    BY <2>3, <2>5, <2>6, <2>7, <2>10, <2>12, <2>13 DEF UiInv, UiBase, Measures
  <2>18. GraphHeld(b) /\ Restarted(b)
    BY <2>9, <2>10, <2>12, <2>13 DEF GraphHeld, Restarted
  <2>19. UiInv(v) /\ Carried(b, v) /\ Same(b, v, Aside)
    <3>1. b.ready = TRUE
      BY <2>9, <2>12, <2>13
    <3> QED
      BY <2>1, <2>15, <2>16, <2>17, <2>18, <3>1, SetBusyInv, SetBusyCarries DEF UiBase
  <2>20. /\ v.active = u.active /\ v.ready = TRUE /\ v.gesture = u.gesture /\ v.started = u.started
         /\ v.values = frame.values /\ v.out = << >> /\ v.outdated = {}
    BY <2>5, <2>6, <2>7, <2>8, <2>9, <2>12, <2>13, <2>19 DEF Carried, Same, Aside
  <2>21. /\ st.active = TRUE /\ st.ready = TRUE /\ st.gesture = u.gesture /\ st.outdated = {}
    OBVIOUS
  <2> HIDE DEF st
  <2>22. Waits(st, fs)
    BY <2>21 DEF Waits, No, Active
  <2>23. Turn(st, v)
    BY <1>3, <2>20, <2>21 DEF Turn, Active
  <2>24. Editing(v) => v.started
    BY <1>0, <2>20 DEF Editing, Active
  <2> QED
    BY <2>19, <2>20, <2>22, <2>23, <2>24 DEF Left, Grip, Outs, v
<1> QED
  BY <1>1, <1>2, <1>3

\* A bank with another value at one path.
LEMMA BankWith ==
  ASSUME NEW b \in Banks, NEW p \in Paths, NEW e \in EntriesOf(p)
  PROVE  LET n == [b EXCEPT ![p] = e]
         IN  /\ n \in Banks
             /\ \A S \in SUBSET Paths : Restrict(n, S) =
                  IF p \in S THEN [Restrict(b, S) EXCEPT ![p] = e] ELSE Restrict(b, S)
<1> DEFINE n == [b EXCEPT ![p] = e]
<1>1. e \in Entries
  BY DEF EntriesOf
<1>2. b \in [Paths -> Entries] /\ \A q \in Paths : b[q] \in EntriesOf(q)
  BY DEF Banks
<1>3. n \in [Paths -> Entries] /\ \A q \in Paths : n[q] = IF q = p THEN e ELSE b[q]
  BY <1>1, <1>2
<1> HIDE DEF n
<1>4. n \in Banks
  BY <1>2, <1>3 DEF Banks
<1>5. ASSUME NEW S \in SUBSET Paths
      PROVE  Restrict(n, S) = IF p \in S THEN [Restrict(b, S) EXCEPT ![p] = e] ELSE Restrict(b, S)
  <2>1. Restrict(n, S) = [q \in S |-> n[q]] /\ Restrict(b, S) = [q \in S |-> b[q]]
    BY DEF Restrict
  <2> QED
    BY <1>3, <2>1
<1> QED
  BY <1>4, <1>5 DEF n

\* What the graph and the strip do with a value that is told to them.
LEMMA ValueTaken ==
  ASSUME NEW k, Raw(k), Measures(k), GraphHeld(k), Restarted(k), Enabled(k),
         NEW frame, frame.path \in Paths, frame.entry \in EntriesOf(frame.path),
         NEW b \in Banks,
         k.ready => /\ k.active /\ k.values = [b EXCEPT ![frame.path] = frame.entry]
                    /\ k.models = Restrict(b, Strip)
                    /\ k.leveling = (k.values[Leveler].value = 1)
                    /\ k.graph.context # NoContext =>
                         k.graph.context = k.source /\ k.graph.entries = Restrict(b, Bound(k.source))
  PROVE  LET a == ApplyModel([k EXCEPT !.graph = ApplyEntry(@, frame.path, frame.entry)], frame)
         IN  UiInv(a) /\ Same(k, a, UiFields \ {"graph", "models"}) /\ a.graph.dragging = k.graph.dragging
<1> DEFINE p == frame.path
           e == frame.entry
           g == ApplyEntry(k.graph, p, e)
           m == IF p \in DOMAIN k.models THEN [k.models EXCEPT ![p] = e] ELSE k.models
           h == [k EXCEPT !.graph = ApplyEntry(@, p, e)]
           a == ApplyModel(h, frame)
<1>1. e \in Entries
  BY DEF EntriesOf
<1>2. /\ GraphInv(g)
      /\ Same(k.graph, g, GraphFields \ {"entries", "ready", "curves", "all"})
      /\ g.entries = IF p \in DOMAIN k.graph.entries THEN [k.graph.entries EXCEPT ![p] = e] ELSE k.graph.entries
  BY <1>1, ApplyEntryFacts DEF Raw
<1>3. /\ Shaped(h, UiFields) /\ Same(k, h, UiFields \ {"graph"}) /\ h.graph = g /\ h.models = k.models
  BY Zenon DEF Raw, UiTypes, Shaped, Same, UiFields
<1> HIDE DEF g
<1> HIDE DEF h
<1>4. /\ Shaped(a, UiFields) /\ Same(h, a, UiFields \ {"models"})
      /\ a.models = IF p \in DOMAIN h.models THEN [h.models EXCEPT ![p] = e] ELSE h.models
  BY <1>3, Zenon DEF ApplyModel, Shaped, Same, UiFields
<1>5. a = ApplyModel([k EXCEPT !.graph = ApplyEntry(@, frame.path, frame.entry)], frame)
  BY DEF h
<1> HIDE DEF a
<1>6. a.models = m
  BY <1>3, <1>4
<1>7. /\ a.active = k.active /\ a.busy = k.busy /\ a.ready = k.ready /\ a.scope = k.scope
      /\ a.started = k.started /\ a.focus = k.focus /\ a.values = k.values
      /\ a.dials = k.dials /\ a.choice = k.choice /\ a.leveling = k.leveling
      /\ a.telemetry = k.telemetry /\ a.source = k.source /\ a.gesture = k.gesture
      /\ a.navigation = k.navigation /\ a.graphOn = k.graphOn /\ a.enabled = k.enabled
      /\ a.on = k.on /\ a.graph = g /\ Same(k, a, UiFields \ {"graph", "models"})
  BY <1>3, <1>4 DEF Same, UiFields
<1>8. /\ g.context = k.graph.context /\ g.preview = k.graph.preview /\ g.dragging = k.graph.dragging
      /\ g.selected = k.graph.selected /\ g.spectrum = k.graph.spectrum
  BY <1>2 DEF Same, GraphFields
<1>9. DOMAIN m = DOMAIN k.models /\ (m = NoEntries \/ m \in Strips)
  <2>1. k.models = NoEntries \/ k.models \in Strips
    BY DEF Raw, UiTypes
  <2>2. CASE k.models = NoEntries
    BY <2>2, NoEntriesWriting
  <2>3. CASE k.models \in Strips
    BY <1>1, <2>3 DEF Strips
  <2> QED
    BY <2>1, <2>2, <2>3
<1>10. k.ready => m = Restrict(k.values, Strip)
  <2> SUFFICES ASSUME k.ready PROVE m = Restrict(k.values, Strip)
    OBVIOUS
  <2>1. k.models = Restrict(b, Strip) /\ DOMAIN k.models = Strip
    BY DEF Restrict
  <2>2. Strip \in SUBSET Paths
    BY PathFacts
  <2>3. Restrict([b EXCEPT ![p] = e], Strip)
          = IF p \in Strip THEN [Restrict(b, Strip) EXCEPT ![p] = e] ELSE Restrict(b, Strip)
    BY <2>2, BankWith
  <2>4. k.values = [b EXCEPT ![p] = e]
    OBVIOUS
  <2>5. m = IF p \in Strip THEN [Restrict(b, Strip) EXCEPT ![p] = e] ELSE Restrict(b, Strip)
    BY <2>1
  <2> HIDE DEF m
  <2> QED
    BY <2>3, <2>4, <2>5
<1>11. k.ready /\ g.context # NoContext =>
         g.context = k.source /\ g.entries = Restrict(k.values, Bound(k.source))
  <2> SUFFICES ASSUME k.ready, g.context # NoContext
               PROVE  g.context = k.source /\ g.entries = Restrict(k.values, Bound(k.source))
    OBVIOUS
  <2>1. k.graph.entries = Restrict(b, Bound(k.source)) /\ DOMAIN k.graph.entries = Bound(k.source)
        /\ k.graph.context = k.source
    BY <1>8 DEF Restrict
  <2>2. Bound(k.source) \in SUBSET Paths
    BY PathFacts
  <2> QED
    BY <1>2, <1>8, <2>1, <2>2, BankWith
<1> HIDE DEF m
<1>12. Raw(a)
  BY <1>2, <1>4, <1>6, <1>7, <1>9 DEF Raw, UiTypes, DialsHeld
<1>13. Known(a)
  <2>1. k.ready => k.values \in Banks
    BY BankWith
  <2> QED
    BY <1>6, <1>7, <1>10, <1>11, <2>1 DEF Known
<1>14. Measures(a) /\ GraphHeld(a) /\ Restarted(a)
  BY <1>7, <1>8 DEF Measures, GraphHeld, Restarted, Editing, Active
<1>15. Enabled(a)
  BY <1>6, <1>7, <1>9 DEF Enabled, Active
<1> QED
  BY <1>5, <1>7, <1>8, <1>12, <1>13, <1>14, <1>15 DEF UiInv, UiBase

\* A value is told, and with the leveler's the dials that it takes over.
LEMMA HandledChanged ==
  ASSUME NEW u, NEW fs, UiInv(u), Idle(u), Waits(u, fs),
         NEW frame, frame.path \in Paths, frame.entry \in EntriesOf(frame.path)
  PROVE  LET v == ApplyChangedValue(u, frame)
         IN  /\ UiInv(v) /\ Turn(u, v) /\ Grip(u, v) /\ Outs(v, fs)
             /\ v.ready => v.values = [u.values EXCEPT ![frame.path] = frame.entry]
<1> DEFINE n == [u.values EXCEPT ![frame.path] = frame.entry]
           k == [u EXCEPT !.values = n]
           o == ApplyLeveler(k, frame)
           a == ApplyModel([o EXCEPT !.graph = ApplyEntry(@, frame.path, frame.entry)], frame)
           v == IF frame.path = Type THEN SetBusy(a, a.busy) ELSE a
<1>1. CASE ~u.active \/ ~u.ready
  <2>1. ApplyChangedValue(u, frame) = u
    BY <1>1 DEF ApplyChangedValue
  <2>2. Handled(u, u, fs)
    BY HandledSame DEF Same
  <2>3. ~u.ready
    BY <1>1 DEF UiInv, UiBase, Known
  <2> QED
    BY <2>1, <2>2, <2>3 DEF Handled
<1>2. CASE u.active /\ u.ready
  <2>1. ApplyChangedValue(u, frame) = v
    BY <1>2, Zenon DEF ApplyChangedValue
  <2>2. /\ u.values \in Banks /\ u.models = Restrict(u.values, Strip)
        /\ u.leveling = (u.values[Leveler].value = 1)
        /\ u.graph.context # NoContext =>
             u.graph.context = u.source /\ u.graph.entries = Restrict(u.values, Bound(u.source))
    BY <1>2 DEF UiInv, UiBase, Known
  <2>3. n \in Banks
    BY <2>2, BankWith
  <2>4. frame.path # Leveler => n[Leveler] = u.values[Leveler]
    BY <2>2 DEF Banks
  <2> HIDE DEF n
  <2>5. Shaped(k, UiFields) /\ Same(u, k, UiFields \ {"values"}) /\ k.values = n
    BY Zenon DEF UiInv, UiBase, Raw, UiTypes, Shaped, Same, UiFields
  <2> HIDE DEF k
  <2>6. /\ k.active = u.active /\ k.busy = u.busy /\ k.ready = u.ready /\ k.scope = u.scope
        /\ k.started = u.started /\ k.focus = u.focus /\ k.models = u.models
        /\ k.dials = u.dials /\ k.choice = u.choice /\ k.leveling = u.leveling
        /\ k.telemetry = u.telemetry /\ k.source = u.source /\ k.gesture = u.gesture
        /\ k.navigation = u.navigation /\ k.graphOn = u.graphOn /\ k.enabled = u.enabled
        /\ k.on = u.on /\ k.graph = u.graph /\ k.out = << >> /\ k.outdated = {}
    BY <2>5 DEF Same, UiFields, Idle
  <2>7. ASSUME NEW t, Shaped(t, UiFields), Same(k, t, UiFields \ {"leveling", "telemetry"}),
               t.telemetry \in {None, k.telemetry}, t.leveling = (n[Leveler].value = 1)
        PROVE  /\ Raw(t) /\ Measures(t) /\ GraphHeld(t) /\ Restarted(t) /\ Enabled(t) /\ t.active
               /\ t.values = n /\ t.models = Restrict(u.values, Strip)
               /\ t.leveling = (t.values[Leveler].value = 1)
               /\ t.graph.context # NoContext =>
                    t.graph.context = t.source /\ t.graph.entries = Restrict(u.values, Bound(t.source))
               /\ t.started = u.started /\ t.dials = u.dials /\ t.graph = u.graph /\ t.gesture = u.gesture
               /\ t.ready = u.ready /\ t.out = << >> /\ t.outdated = {} /\ t.active = u.active
    <3>1. /\ t.active = k.active /\ t.busy = k.busy /\ t.ready = k.ready /\ t.scope = k.scope
          /\ t.started = k.started /\ t.focus = k.focus /\ t.models = k.models
          /\ t.dials = k.dials /\ t.choice = k.choice /\ t.values = k.values
          /\ t.source = k.source /\ t.gesture = k.gesture
          /\ t.navigation = k.navigation /\ t.graphOn = k.graphOn /\ t.enabled = k.enabled
          /\ t.on = k.on /\ t.graph = k.graph /\ t.out = k.out /\ t.outdated = k.outdated
      BY <2>7 DEF Same, UiFields
    <3>2. Raw(t)
      BY <2>3, <2>5, <2>6, <2>7, <3>1 DEF UiInv, UiBase, Raw, UiTypes, DialsHeld
    <3>3. Measures(t) /\ GraphHeld(t) /\ Restarted(t) /\ Enabled(t)
      BY <2>6, <2>7, <3>1 DEF UiInv, UiBase, Measures, GraphHeld, Restarted, Enabled, Editing, Active
    <3> QED
      BY <1>2, <2>2, <2>5, <2>6, <2>7, <3>1, <3>2, <3>3
  <2>8. ASSUME UiInv(a), Same(o, a, UiFields \ {"graph", "models"})
        PROVE  /\ UiInv(v) /\ Same(a, v, Status) /\ v.started = a.started /\ v.dials = a.dials
               /\ v.graph.dragging = a.graph.dragging /\ Same(o, v, Status)
    BY <2>8, BusyAgain DEF Same, Status, UiFields
  <2>9. CASE frame.path = Leveler /\ Active(k) /\ k.gesture.on # Graph
             /\ Automated(SetOverlays(k), k.gesture.path)
    <3> DEFINE t == SetOverlays(k)
    <3>1. /\ Shaped(t, UiFields) /\ Same(k, t, UiFields \ {"leveling", "telemetry"})
          /\ t.leveling = (k.values[Leveler].value = 1) /\ t.telemetry \in {None, k.telemetry}
      BY <2>5, Zenon DEF SetOverlays, Shaped, Same, UiFields
    <3>2. o = Cancel(t)
      <4>1. t.gesture = k.gesture
        BY <3>1 DEF Same, UiFields
      <4> QED
        BY <2>9, <4>1, Zenon DEF ApplyLeveler, Active
    <3> HIDE DEF t
    <3>3. Raw(t) /\ t.active /\ t.gesture = u.gesture /\ t.out = << >> /\ t.outdated = {}
      BY <2>5, <2>7, <3>1
    <3>4. Cancelled(t, o)
      BY <2>6, <2>9, <3>2, <3>3, CancelFacts DEF Idle, Active
    <3> HIDE DEF o
    <3>5. UiInv(o) /\ ~o.ready /\ o.gesture = NoGesture /\ o.outdated = {"gesture", "target"}
          /\ o.out = <<Ending, Observing>>
      BY <3>3, <3>4 DEF Cancelled
    <3>6. UiInv(a) /\ Same(o, a, UiFields \ {"graph", "models"})
      BY <2>2, <3>5, ValueTaken DEF UiInv, UiBase
    <3>7. UiInv(v) /\ Same(o, v, Status)
      BY <2>8, <3>6
    <3> HIDE DEF v
    <3>8. ~Active(v) /\ ~v.ready /\ "gesture" \in v.outdated /\ "target" \in v.outdated
          /\ v.out = <<Ending, Observing>>
      BY <3>5, <3>7, GestureFacts DEF Same, Status, Active
    <3>9. Handled(u, v, fs)
      BY <3>7, <3>8, HandledCut
    <3> QED
      BY <2>1, <3>8, <3>9 DEF Handled
  <2>10. CASE ~(frame.path = Leveler /\ Active(k) /\ k.gesture.on # Graph
                /\ Automated(SetOverlays(k), k.gesture.path))
    <3>1. /\ Shaped(o, UiFields) /\ Same(k, o, UiFields \ {"leveling", "telemetry"})
          /\ o.telemetry \in {None, k.telemetry} /\ o.leveling = (n[Leveler].value = 1)
      <4>1. CASE frame.path # Leveler
        <5>1. o = k
          BY <4>1 DEF ApplyLeveler
        <5>2. k.leveling = (n[Leveler].value = 1)
          BY <2>2, <2>4, <2>6, <4>1
        <5> HIDE DEF o
        <5> QED
          BY <2>5, <5>1, <5>2 DEF Same
      <4>2. CASE frame.path = Leveler
        <5> DEFINE t == SetOverlays(k)
        <5>1. /\ Shaped(t, UiFields) /\ Same(k, t, UiFields \ {"leveling", "telemetry"})
              /\ t.leveling = (k.values[Leveler].value = 1) /\ t.telemetry \in {None, k.telemetry}
          BY <2>5, Zenon DEF SetOverlays, Shaped, Same, UiFields
        <5>2. t.gesture = k.gesture
          BY <5>1 DEF Same, UiFields
        <5>3. o = t
          BY <2>10, <4>2, <5>2, Zenon DEF ApplyLeveler, Active
        <5> HIDE DEF o
        <5> HIDE DEF t
        <5> QED
          BY <2>5, <5>1, <5>3
      <4> QED
        BY <4>1, <4>2
    <3> HIDE DEF o
    <3>2. /\ Raw(o) /\ Measures(o) /\ GraphHeld(o) /\ Restarted(o) /\ Enabled(o) /\ o.active
          /\ o.values = n /\ o.models = Restrict(u.values, Strip)
          /\ o.leveling = (o.values[Leveler].value = 1)
          /\ o.graph.context # NoContext =>
               o.graph.context = o.source /\ o.graph.entries = Restrict(u.values, Bound(o.source))
          /\ o.started = u.started /\ o.dials = u.dials /\ o.graph = u.graph /\ o.gesture = u.gesture
          /\ o.ready = u.ready /\ o.out = << >> /\ o.outdated = {} /\ o.active = u.active
      BY <2>7, <3>1
    <3>3. UiInv(a) /\ Same(o, a, UiFields \ {"graph", "models"}) /\ a.graph.dragging = o.graph.dragging
      BY <2>2, <3>2, ValueTaken, ZenonT(60) DEF n
    <3>4. /\ UiInv(v) /\ v.started = a.started /\ v.dials = a.dials
          /\ v.graph.dragging = a.graph.dragging /\ Same(o, v, Status)
      BY <2>8, <3>3
    <3> HIDE DEF v
    <3> HIDE DEF a
    <3>5. /\ v.active = u.active /\ v.ready = u.ready /\ v.values = n /\ v.gesture = u.gesture
          /\ v.out = << >> /\ v.outdated = {}
      BY <3>2, <3>4 DEF Same, Status
    <3>6. v.started = u.started /\ v.dials = u.dials /\ v.graph.dragging = u.graph.dragging
      BY <3>2, <3>3, <3>4 DEF Same, UiFields
    <3>7. Turn(u, v)
      BY <3>5 DEF Turn, Idle, Active
    <3>8. Grip(u, v)
      BY <3>5, <3>6 DEF Grip, Active, Editing
    <3>9. Outs(v, fs)
      BY <3>5 DEF Outs
    <3> QED
      BY <2>1, <3>4, <3>5, <3>7, <3>8, <3>9 DEF n
  <2> QED
    BY <2>9, <2>10
<1> QED
  BY <1>1, <1>2

-----------------------------------------------------------------------------
(* The pointer.                                                            *)

\* A graph that knows its entries and its rate is drawn.
LEMMA RebuildReady ==
  ASSUME NEW g, GraphBase(g), g.entries # NoEntries, g.rate # 0
  PROVE  Rebuild(g).ready = TRUE
<1> DEFINE h == [g EXCEPT !.ready = TRUE, !.curves = Responses(g)]
<1>1. Rebuild(g) = ComposeAllBanks(h)
  BY Zenon DEF Rebuild
<1>2. Shaped(h, GraphFields) /\ h.ready = TRUE
  BY Zenon DEF GraphBase, Shaped, GraphFields
<1> HIDE DEF h
<1>3. Same(h, ComposeAllBanks(h), GraphFields \ {"all"})
  BY <1>2, ComposeFacts
<1> QED
  BY <1>1, <1>2, <1>3 DEF Same, GraphFields

\* What a preview of the graph may show.
LEMMA ValueOf ==
  ASSUME NEW g, GraphInv(g), g.entries # NoEntries, NEW p \in Bound(g.context)
  PROVE  Value(g, p) \in Values /\ RangeOf(g, p) \in Ranges
BY WritingsFacts, RangeFacts DEF GraphInv, Entries, Value, RangeOf

\* A handle is taken.
LEMMA BeginPreviewFacts ==
  ASSUME NEW g, GraphInv(g), g.entries # NoEntries, ~g.dragging, NEW h \in Shown(g.context)
  PROVE  LET b == BeginPreview(g, h)
         IN  /\ GraphBase(b) /\ b.selected = h
             /\ Same(g, b, GraphFields \ {"preview", "q", "selected"})
<1> DEFINE b == BeginPreview(g, h)
           w == With(Gain[h], Value(g, Gain[h]), g.preview)
<1>1. h \in Handles /\ Gain[h] \in Parameters(h) /\ (h \in DOMAIN Q => Q[h] \in Parameters(h))
  BY DEF Shown, Parameters
<1>2. Parameters(h) \subseteq Bound(g.context) /\ Parameters(h) \subseteq Continuous
  BY <1>1, PathFacts DEF Bound
<1>3. w \in Writings
  BY <1>1, <1>2, ValueOf, WithWriting DEF GraphInv
<1>4. h \in DOMAIN Q => Value(g, Q[h]) \in Values
  BY <1>1, <1>2, ValueOf
<1> HIDE DEF w
<1>5. /\ Shaped(b, GraphFields) /\ b.preview = w /\ b.selected = h
      /\ b.q = IF h \in DOMAIN Q THEN Value(g, Q[h]) ELSE None
      /\ Same(g, b, GraphFields \ {"preview", "q", "selected"})
  BY Zenon DEF GraphInv, Shaped, Same, GraphFields, BeginPreview, w
<1> HIDE DEF b
<1>6. /\ b.context = g.context /\ b.entries = g.entries /\ b.rate = g.rate /\ b.ready = g.ready
      /\ b.dragging = g.dragging
  BY <1>5 DEF Same, GraphFields
<1>7. GraphBase(b)
  BY <1>3, <1>4, <1>5, <1>6 DEF GraphBase, GraphInv
<1> QED
  BY <1>5, <1>7 DEF b

\* A handle is moved.
LEMMA MoveFacts ==
  ASSUME NEW g, GraphInv(g), g.entries # NoEntries, NEW h \in Shown(g.context), NEW v \in Int
  PROVE  LET m == Move(g, h, v)
         IN  /\ GraphInv(m) /\ Same(g, m, GraphFields \ {"preview", "ready", "curves", "all"})
<1> DEFINE r == RangeOf(g, Gain[h])
           w == With(Gain[h], Clamp(v, r[1], r[2]), g.preview)
           k == [g EXCEPT !.preview = w]
<1>1. h \in Handles /\ Gain[h] \in Parameters(h)
  BY DEF Shown, Parameters
<1>2. Parameters(h) \subseteq Bound(g.context) /\ Parameters(h) \subseteq Continuous
  BY <1>1, PathFacts DEF Bound
<1>3. w \in Writings
  <2>1. r \in Ranges
    BY <1>1, <1>2, ValueOf
  <2>2. Clamp(v, r[1], r[2]) \in Values
    BY <2>1, ClampFacts
  <2> QED
    BY <1>1, <1>2, <2>2, WithWriting DEF GraphInv
<1>4. Move(g, h, v) = Rebuild(k)
  BY Zenon DEF Move
<1>5. k = [g EXCEPT !.preview = w] /\ ApplyPreview(g, w) = Rebuild(k)
  BY DEF ApplyPreview
<1> HIDE DEF w
<1> HIDE DEF k
<1> QED
  BY <1>3, <1>4, <1>5, ApplyPreviewFacts, GraphInvBase

\* The Q of a bell is changed.
LEMMA ChangeQFacts ==
  ASSUME NEW g, GraphInv(g), g.entries # NoEntries, NEW h \in Shown(g.context), h \in DOMAIN Q
  PROVE  LET m == ChangeQ(g, h, 1)
         IN  /\ GraphInv(m) /\ Same(g, m, GraphFields \ {"preview", "q", "ready", "curves", "all"})
<1> DEFINE r == RangeOf(g, Q[h])
           n == Clamp(g.q + 1, r[1], r[2])
           w == With(Q[h], n, g.preview)
           k == [g EXCEPT !.q = n, !.preview = w]
<1>1. CASE r[1] = r[2] \/ g.q = None \/ g.q \notin r[1]..r[2]
  <2>1. ChangeQ(g, h, 1) = g
    BY <1>1 DEF ChangeQ
  <2> QED
    BY <2>1 DEF Same
<1>2. CASE ~(r[1] = r[2] \/ g.q = None \/ g.q \notin r[1]..r[2])
  <2>1. h \in Handles /\ Q[h] \in Parameters(h)
    BY DEF Shown, Parameters
  <2>2. Parameters(h) \subseteq Bound(g.context) /\ Parameters(h) \subseteq Continuous
    BY <2>1, PathFacts DEF Bound
  <2>3. n \in Values
    <3>1. r \in Ranges
      BY <2>1, <2>2, ValueOf
    <3>2. g.q + 1 \in Int
      BY <1>2, ValueFacts DEF GraphInv, Values
    <3> QED
      BY <3>1, <3>2, ClampFacts
  <2>4. w \in Writings
    BY <2>1, <2>2, <2>3, WithWriting DEF GraphInv
  <2>5. ChangeQ(g, h, 1) = Rebuild(k)
    BY <1>2, Zenon DEF ChangeQ
  <2> HIDE DEF n
  <2> HIDE DEF w
  <2>6. /\ Shaped(k, GraphFields) /\ k.q = n /\ k.preview = w
        /\ Same(g, k, GraphFields \ {"preview", "q"})
    BY Zenon DEF GraphInv, Shaped, Same, GraphFields
  <2> HIDE DEF k
  <2>7. /\ k.context = g.context /\ k.entries = g.entries /\ k.rate = g.rate /\ k.ready = g.ready
        /\ k.dragging = g.dragging /\ k.selected = g.selected
    BY <2>6 DEF Same, GraphFields
  <2>8. GraphBase(k)
    BY <2>3, <2>4, <2>6, <2>7 DEF GraphBase, GraphInv
  <2>9. GraphInv(Rebuild(k)) /\ Same(k, Rebuild(k), GraphFields \ {"ready", "curves", "all"})
    BY <2>8, RebuildInv
  <2>10. Same(g, Rebuild(k), GraphFields \ {"preview", "q", "ready", "curves", "all"})
    BY <2>6, <2>9 DEF Same
  <2> QED
    BY <2>5, <2>9, <2>10
<1> QED
  BY <1>1, <1>2

\* The graph shows another preview, or is dragged.
LEMMA GraphShows ==
  ASSUME NEW u, UiInv(u), NEW g, GraphInv(g),
         g.context = u.graph.context, g.entries = u.graph.entries,
         g.spectrum = u.graph.spectrum,
         g.preview # NoEntries => Active(u),
         g.dragging => Editing(u) /\ u.gesture.on = Graph /\ u.gesture.path = g.selected
  PROVE  LET v == [u EXCEPT !.graph = g]
         IN  UiInv(v) /\ Same(u, v, UiFields \ {"graph"}) /\ v.graph = g
<1> DEFINE v == [u EXCEPT !.graph = g]
<1>1. Shaped(v, UiFields) /\ v.graph = g /\ Same(u, v, UiFields \ {"graph"})
  BY Zenon DEF UiInv, UiBase, Raw, UiTypes, Shaped, Same, UiFields
<1> HIDE DEF v
<1>2. /\ v.active = u.active /\ v.busy = u.busy /\ v.ready = u.ready /\ v.scope = u.scope
      /\ v.started = u.started /\ v.focus = u.focus /\ v.values = u.values /\ v.models = u.models
      /\ v.dials = u.dials /\ v.choice = u.choice /\ v.leveling = u.leveling
      /\ v.telemetry = u.telemetry /\ v.source = u.source /\ v.gesture = u.gesture
      /\ v.navigation = u.navigation /\ v.graphOn = u.graphOn
      /\ v.enabled = u.enabled /\ v.on = u.on
  BY <1>1 DEF Same, UiFields
<1>3. Raw(v)
  BY <1>1, <1>2 DEF UiInv, UiBase, Raw, UiTypes, DialsHeld
<1>4. Known(v) /\ Measures(v) /\ GraphHeld(v) /\ Restarted(v) /\ Enabled(v)
  BY <1>1, <1>2 DEF UiInv, UiBase, Known, Measures, GraphHeld, Restarted, Enabled, Editing, Active
<1> QED
  BY <1>1, <1>3, <1>4 DEF UiInv, UiBase, v

\* A dial moves.
Turned(u, v, d, s) ==
    /\ UiInv(v) /\ Same(u, v, UiFields \ {"dials"}) /\ v.dials[d] = s
    /\ \A e \in Dials \ {d} : v.dials[e] = u.dials[e]

\* A dial may preview or be dragged when the open gesture is about it.
LEMMA DialShows ==
  ASSUME NEW u, UiInv(u), NEW d \in Dials, NEW s \in DialStates,
         Previewing(s) \/ s.dragging => u.gesture.path = d
  PROVE  Turned(u, [u EXCEPT !.dials[d] = s], d, s)
<1> DEFINE ds == [u.dials EXCEPT ![d] = s]
           v == [u EXCEPT !.dials[d] = s]
<1>1. Shaped(v, UiFields) /\ v.dials = ds /\ Same(u, v, UiFields \ {"dials"})
  BY Zenon DEF UiInv, UiBase, Raw, UiTypes, Shaped, Same, UiFields
<1> HIDE DEF v
<1>2. /\ v.active = u.active /\ v.busy = u.busy /\ v.ready = u.ready /\ v.scope = u.scope
      /\ v.started = u.started /\ v.focus = u.focus /\ v.values = u.values /\ v.models = u.models
      /\ v.graph = u.graph /\ v.choice = u.choice /\ v.leveling = u.leveling
      /\ v.telemetry = u.telemetry /\ v.source = u.source /\ v.gesture = u.gesture
      /\ v.navigation = u.navigation /\ v.graphOn = u.graphOn
      /\ v.enabled = u.enabled /\ v.on = u.on
  BY <1>1 DEF Same, UiFields
<1>3. u.dials \in [Dials -> DialStates]
  BY DEF UiInv, UiBase, Raw, UiTypes
<1>4. /\ ds \in [Dials -> DialStates] /\ ds[d] = s
      /\ \A e \in Dials \ {d} : ds[e] = u.dials[e]
  BY <1>3
<1> HIDE DEF ds
<1>5. Raw(v)
  <2>1. DialsHeld(u)
    BY DEF UiInv, UiBase, Raw
  <2>2. DialsHeld(v)
    BY <1>1, <1>2, <1>4, <2>1 DEF DialsHeld
  <2> QED
    BY <1>1, <1>2, <1>4, <2>2 DEF UiInv, UiBase, Raw, UiTypes
<1>6. Known(v) /\ Measures(v) /\ GraphHeld(v) /\ Restarted(v) /\ Enabled(v)
  BY <1>1, <1>2 DEF UiInv, UiBase, Known, Measures, GraphHeld, Restarted, Enabled, Editing, Active
<1> QED
  BY <1>1, <1>4, <1>5, <1>6 DEF UiInv, UiBase, Turned, v

\* The open gesture gets other values, or comes to its end.
LEMMA GestureShows ==
  ASSUME NEW u, UiInv(u), Active(u), NEW v, Shaped(v, UiFields),
         Same(u, v, UiFields \ {"gesture"}), v.gesture \in Gestures,
         v.gesture.path = u.gesture.path, v.gesture.on = u.gesture.on,
         Editing(v) => Editing(u),
         u.graph.dragging => v.gesture.ending = u.gesture.ending
  PROVE  UiInv(v)
<1>1. /\ v.active = u.active /\ v.busy = u.busy /\ v.ready = u.ready /\ v.scope = u.scope
      /\ v.started = u.started /\ v.focus = u.focus /\ v.values = u.values /\ v.models = u.models
      /\ v.graph = u.graph /\ v.choice = u.choice /\ v.leveling = u.leveling
      /\ v.telemetry = u.telemetry /\ v.source = u.source /\ v.dials = u.dials
      /\ v.navigation = u.navigation /\ v.graphOn = u.graphOn
      /\ v.enabled = u.enabled /\ v.on = u.on
  BY DEF Same, UiFields
<1>2. Raw(v)
  BY <1>1 DEF UiInv, UiBase, Raw, UiTypes, DialsHeld
<1>3. Known(v) /\ Measures(v) /\ Enabled(v)
  BY <1>1 DEF UiInv, UiBase, Known, Measures, Enabled, Active
<1>4. GraphHeld(v) /\ Restarted(v)
  BY <1>1 DEF UiInv, UiBase, GraphHeld, Restarted, Editing, Active
<1> QED
  BY <1>2, <1>3, <1>4 DEF UiInv, UiBase

\* The control that holds the gesture gives it values, and may end it.
Telling(u, w) == [u EXCEPT !.gesture.values = w, !.gesture.dirty = TRUE]

\* An open gesture that has told the core a value stays the same gesture.
LEMMA GestureTold ==
  ASSUME NEW u, UiInv(u), Editing(u), NEW w \in Writings,
         NEW v, v = Telling(u, w)
  PROVE  /\ UiInv(v) /\ Same(u, v, UiFields \ {"gesture"})
         /\ v.gesture.path = u.gesture.path /\ v.gesture.on = u.gesture.on
         /\ v.gesture.ready = u.gesture.ready /\ v.gesture.ending = u.gesture.ending
<1> DEFINE g == [u.gesture EXCEPT !.values = w, !.dirty = TRUE]
<1>1. Active(u) /\ ~u.gesture.ending
  BY DEF Editing
<1>2. Shaped(v, UiFields) /\ v.gesture = g /\ Same(u, v, UiFields \ {"gesture"})
  BY Zenon DEF UiInv, UiBase, Raw, UiTypes, Shaped, Same, UiFields, Telling
<1>3. u.gesture \in OpenGestures(Dials, "dial") \cup OpenGestures(Handles, Graph)
  BY <1>1, GestureFacts DEF UiInv, UiBase, Raw, UiTypes, Active, Gestures
<1>4. /\ g \in OpenGestures(Dials, "dial") \cup OpenGestures(Handles, Graph)
      /\ g.path = u.gesture.path /\ g.on = u.gesture.on
      /\ g.ready = u.gesture.ready /\ g.ending = u.gesture.ending
  BY <1>3 DEF OpenGestures
<1>5. g \in Gestures
  BY <1>4 DEF Gestures
<1> HIDE DEF g
<1> QED
  BY <1>1, <1>2, <1>4, <1>5, GestureShows

EndingWith(u, w) ==
    [u EXCEPT !.gesture.values = w, !.gesture.dirty = TRUE, !.gesture.ending = TRUE]

\* An open gesture that ends with its last value stays open until the core has answered.
LEMMA GestureEnding ==
  ASSUME NEW u, UiInv(u), Editing(u), ~u.graph.dragging, NEW w \in Writings,
         NEW v, v = EndingWith(u, w)
  PROVE  /\ UiInv(v) /\ Same(u, v, UiFields \ {"gesture"})
         /\ v.gesture.path = u.gesture.path /\ v.gesture.on = u.gesture.on
         /\ v.gesture.ready = u.gesture.ready /\ v.gesture.ending
         /\ v.gesture.values = w
<1> DEFINE h == [u.gesture EXCEPT !.values = w, !.dirty = TRUE, !.ending = TRUE]
<1>1. Active(u) /\ ~u.gesture.ending
  BY DEF Editing
<1>2. Shaped(v, UiFields) /\ v.gesture = h /\ Same(u, v, UiFields \ {"gesture"})
  BY Zenon DEF UiInv, UiBase, Raw, UiTypes, Shaped, Same, UiFields, EndingWith
<1>3. u.gesture \in OpenGestures(Dials, "dial") \cup OpenGestures(Handles, Graph)
  BY <1>1, GestureFacts DEF UiInv, UiBase, Raw, UiTypes, Active, Gestures
<1>4. /\ h \in OpenGestures(Dials, "dial") \cup OpenGestures(Handles, Graph)
      /\ h.path = u.gesture.path /\ h.on = u.gesture.on
      /\ h.values = w /\ h.ready = u.gesture.ready /\ h.ending = TRUE
  BY <1>3 DEF OpenGestures
<1>5. h \in Gestures
  BY <1>4 DEF Gestures
<1> HIDE DEF h
<1>6. ~Editing(v)
  BY <1>2, <1>4 DEF Editing
<1> QED
  BY <1>1, <1>2, <1>4, <1>5, <1>6, GestureShows

\* What every handler leaves, whoever holds the gesture.
Moved(u, v, fs) ==
    UiInv(v) /\ Turn(u, v) /\ (v.ready => u.ready /\ v.values = u.values) /\ Outs(v, fs)

\* A handler is one that moves the frames' conditions along and keeps the grip.
LEMMA MovedHandled ==
  ASSUME NEW u, NEW v, NEW fs
  PROVE  Handled(u, v, fs) <=> Moved(u, v, fs) /\ Grip(u, v)
BY DEF Handled, Moved, Turn

\* Steps before what a handler does that do not matter to who waits.
LEMMA MovedSame ==
  ASSUME NEW u, NEW r, NEW v, NEW fs, Same(u, r, Status), Moved(r, v, fs)
  PROVE  Moved(u, v, fs)
BY DEF Same, Status, Active, Moved, Turn

\* One command is sent, and nothing else is done that matters to who waits.
LEMMA MovedSends ==
  ASSUME NEW u, NEW r, NEW fs, UiInv(r), Idle(u), Same(u, r, Status), NEW c,
         \/ \E w \in ChoiceValues, scope \in BOOLEAN :
              c = [kind |-> "edit", values |-> w, scope |-> scope]
         \/ u.ready /\ \E w \in Writings, scope \in BOOLEAN :
              c = [kind |-> "command", values |-> w, scope |-> scope]
  PROVE  /\ Moved(u, Send(r, c), fs)
         /\ Same(u, Send(r, c), {"active", "ready", "values", "gesture", "outdated"})
         /\ Same(r, Send(r, c), UiFields \ {"out"})
<1> DEFINE v == Send(r, c)
<1>1. UiInv(v) /\ Same(r, v, UiFields \ {"out"}) /\ v.out = Append(r.out, c)
  BY SendFacts
<1> HIDE DEF v
<1>2. /\ v.active = r.active /\ v.ready = r.ready /\ v.values = r.values
      /\ v.gesture = r.gesture /\ v.outdated = r.outdated
  BY <1>1 DEF Same, UiFields
<1>3. /\ r.active = u.active /\ r.ready = u.ready /\ r.values = u.values
      /\ r.gesture = u.gesture /\ r.outdated = u.outdated /\ r.out = << >>
  BY DEF Same, Status, Idle
<1>4. v.out = <<c>>
  BY <1>1, <1>3, Appends
<1>5. Turn(u, v)
  BY <1>2, <1>3 DEF Turn, Idle, Active
<1>6. Outs(v, fs)
  BY <1>2, <1>3, <1>4 DEF Outs
<1>7. Same(u, v, {"active", "ready", "values", "gesture", "outdated"})
  BY <1>2, <1>3 DEF Same
<1> QED
  BY <1>1, <1>2, <1>3, <1>5, <1>6, <1>7 DEF Moved, v

\* The values of the strip are sent one at a time.
LEMMA CommitFacts ==
  ASSUME NEW u, NEW r, NEW fs, UiInv(u), UiInv(r), Idle(u), Same(u, r, Status),
         r.started = u.started, r.dials = u.dials, r.graph = u.graph,
         NEW p \in Discrete, NEW x \in Bits
  PROVE  Handled(u, CommitDiscreteValue(r, p, x), fs)
<1> DEFINE c == [kind |-> "edit", values |-> With(p, x, NoEntries), scope |-> r.scope]
           v == Send(r, c)
<1>1. CASE ~CanBegin(r)
  <2>1. CommitDiscreteValue(r, p, x) = r
    BY <1>1 DEF CommitDiscreteValue
  <2> QED
    BY <2>1, HandledSame
<1>2. CASE CanBegin(r)
  <2>1. CommitDiscreteValue(r, p, x) = v
    BY <1>2 DEF CommitDiscreteValue
  <2>2. With(p, x, NoEntries) \in ChoiceValues /\ r.scope \in BOOLEAN
    BY ChoiceWriting DEF UiInv, UiBase, Raw, UiTypes
  <2>3. \E w \in ChoiceValues, scope \in BOOLEAN : c = [kind |-> "edit", values |-> w, scope |-> scope]
    BY <2>2
  <2> HIDE DEF c
  <2>4. Moved(u, v, fs) /\ Same(u, v, {"active", "ready", "values", "gesture", "outdated"})
        /\ Same(r, v, UiFields \ {"out"})
    BY <2>3, MovedSends
  <2> HIDE DEF v
  <2>5. /\ v.started = u.started /\ v.dials = u.dials /\ v.graph = u.graph /\ v.gesture = u.gesture
    BY <2>4 DEF Same, UiFields
  <2>6. Grip(u, v)
    BY <2>5 DEF Grip, Editing, Active
  <2> QED
    BY <2>1, <2>4, <2>6, MovedHandled
<1> QED
  BY <1>1, <1>2

\* A reset holds the editor up until it is answered.
LEMMA ResetFacts ==
  ASSUME NEW u, NEW fs, UiInv(u), Idle(u), NEW S \in SUBSET Continuous
  PROVE  Handled(u, ResetValue(u, S), fs)
<1> DEFINE b == SetBusy(u, TRUE)
           c == [kind |-> "command", values |-> [p \in S |-> 0], scope |-> u.scope]
           v == Send(b, c)
<1>1. CASE ~CanBegin(u) \/ \E p \in S \cap Dials : Automated(u, p)
  <2>1. ResetValue(u, S) = u
    BY <1>1 DEF ResetValue
  <2> QED
    BY <2>1, HandledSame DEF Same
<1>2. CASE ~(~CanBegin(u) \/ \E p \in S \cap Dials : Automated(u, p))
  <2>1. ResetValue(u, S) = v
    BY <1>2, Zenon DEF ResetValue
  <2>2. ~u.busy /\ ~Active(u) /\ u.active
    BY <1>2 DEF CanBegin
  <2>3. u.ready
    BY <2>2 DEF UiInv, Enabled
  <2>4. [p \in S |-> 0] \in Writings /\ u.scope \in BOOLEAN
    BY ZeroWriting DEF UiInv, UiBase, Raw, UiTypes
  <2>5. u.ready /\ \E w \in Writings, scope \in BOOLEAN :
          c = [kind |-> "command", values |-> w, scope |-> scope]
    BY <2>3, <2>4
  <2>6. UiInv(b)
    BY SetBusyInv DEF UiInv
  <2>7. Carried(u, b) /\ Same(u, b, Aside)
    BY SetBusyCarries DEF UiInv, UiBase
  <2>8. Same(u, b, Status)
    BY <2>7 DEF Carried, Same, Aside, Status
  <2> HIDE DEF c
  <2> HIDE DEF b
  <2>9. Moved(u, v, fs) /\ Same(u, v, {"active", "ready", "values", "gesture", "outdated"})
    BY <2>5, <2>6, <2>8, MovedSends
  <2> HIDE DEF v
  <2>10. v.gesture = u.gesture
    BY <2>9 DEF Same
  <2>11. Grip(u, v)
    BY <2>2, <2>10 DEF Grip, Editing, Active
  <2> QED
    BY <2>1, <2>9, <2>11, MovedHandled
<1> QED
  BY <1>1, <1>2

\* The control that is dragged asks for a value, and the graph shows it.
LEMMA ChangeFacts ==
  ASSUME NEW u, UiInv(u), Active(u), NEW w \in Writings
  PROVE  LET v == Change(u, w)
         IN  /\ UiInv(v) /\ Same(u, v, UiFields \ {"graph", "gesture"})
             /\ v.graph.dragging = u.graph.dragging
             /\ v.gesture.path = u.gesture.path /\ v.gesture.on = u.gesture.on
             /\ v.gesture.ready = u.gesture.ready /\ v.gesture.ending = u.gesture.ending
<1> DEFINE g == ApplyPreview(u.graph, w)
           p == [u EXCEPT !.graph = g]
           v == SetGestureValues(p, w)
<1>1. GraphInv(g) /\ g.preview = w /\ Same(u.graph, g, GraphFields \ {"preview", "ready", "curves", "all"})
  BY ApplyPreviewFacts, GraphInvBase DEF UiInv, UiBase, Raw
<1>2. Change(u, w) = v
  BY DEF Change, Previewed
<1> HIDE DEF g
<1>3. /\ g.context = u.graph.context /\ g.entries = u.graph.entries /\ g.spectrum = u.graph.spectrum
      /\ g.dragging = u.graph.dragging /\ g.selected = u.graph.selected
  BY <1>1 DEF Same, GraphFields
<1>4. UiInv(p) /\ Same(u, p, UiFields \ {"graph"}) /\ p.graph = g
  <2>1. GraphHeld(u)
    BY DEF UiInv, UiBase
  <2>2. g.dragging => Editing(u) /\ u.gesture.on = Graph /\ u.gesture.path = g.selected
    BY <1>3, <2>1 DEF GraphHeld
  <2> QED
    BY <1>1, <1>3, <2>2, GraphShows
<1> HIDE DEF p
<1>5. p.gesture = u.gesture
  BY <1>4 DEF Same, UiFields
<1>6. CASE ~Editing(p)
  <2>1. v = p
    BY <1>6 DEF SetGestureValues
  <2> QED
    BY <1>2, <1>3, <1>4, <1>5, <2>1 DEF Same
<1>7. CASE Editing(p)
  <2> DEFINE s == Telling(p, w)
  <2>1. v = s
    BY <1>7, Zenon DEF SetGestureValues, Telling
  <2>2. /\ UiInv(s) /\ Same(p, s, UiFields \ {"gesture"})
        /\ s.gesture.path = p.gesture.path /\ s.gesture.on = p.gesture.on
        /\ s.gesture.ready = p.gesture.ready /\ s.gesture.ending = p.gesture.ending
    BY <1>4, <1>7, GestureTold
  <2> HIDE DEF s
  <2>3. s.graph = g
    BY <1>4, <2>2 DEF Same, UiFields
  <2>4. Same(u, s, UiFields \ {"graph", "gesture"})
    BY <1>4, <2>2 DEF Same
  <2> QED
    BY <1>2, <1>3, <1>5, <2>1, <2>2, <2>3, <2>4
<1> QED
  BY <1>6, <1>7

\* It is let go, and the gesture comes to its end.
LEMMA EndedFacts ==
  ASSUME NEW u, NEW fs, UiInv(u), Idle(u), Active(u), ~u.graph.dragging, NEW w \in Writings,
         Waits(u, fs)
  PROVE  Moved(u, Ended(u, w), fs) /\ ~Editing(Ended(u, w))
<1> DEFINE e == EndGesture(u, w)
<1>1. Ended(u, w) = SetBusy(e, e.busy)
  BY DEF Ended
<1>2. /\ Moved(u, e, fs) /\ ~Editing(e)
  <2>1. CASE ~Editing(u)
    <3>1. e = u
      BY <2>1 DEF EndGesture
    <3> QED
      BY <2>1, <3>1, HandledSame, MovedHandled DEF Same
  <2>2. CASE Editing(u)
    <3> DEFINE k == EndingWith(u, w)
               f == Flush(k)
               v == IF u.gesture.ready THEN Send(f, Finishing(w)) ELSE k
    <3>1. /\ UiInv(k) /\ Same(u, k, UiFields \ {"gesture"})
          /\ k.gesture.path = u.gesture.path /\ k.gesture.on = u.gesture.on
          /\ k.gesture.ready = u.gesture.ready /\ k.gesture.ending
          /\ k.gesture.values = w
      BY <2>2, GestureEnding
    <3> HIDE DEF k
    <3>2. e = v
      <4>1. e = IF u.gesture.ready THEN Finish(k) ELSE k
        BY <2>2, Zenon DEF EndGesture, k, EndingWith
      <4>2. Finish(k) = Send(f, Finishing(w))
        BY <3>1 DEF Finish, Finishing
      <4> QED
        BY <4>1, <4>2
    <3>3. /\ k.active = u.active /\ k.ready = u.ready /\ k.values = u.values
          /\ k.out = << >> /\ k.outdated = {}
      BY <3>1 DEF Same, UiFields, Idle
    <3>4. Active(k) /\ ~Editing(k) /\ Idle(k)
      BY <3>1, <3>3 DEF Active, Editing, Idle
    <3>5. No(fs, "finish") /\ ~u.gesture.ending
      BY <2>2, WaitsNo DEF Editing
    <3>6. CASE ~u.gesture.ready
      <4>1. Turn(u, k)
        BY <3>1, <3>3, <3>4 DEF Turn, Idle
      <4>2. Outs(k, fs)
        BY <3>3 DEF Outs
      <4> QED
        BY <3>1, <3>2, <3>3, <3>4, <3>6, <4>1, <4>2 DEF Moved
    <3>7. CASE u.gesture.ready
      <4>1. /\ UiInv(f) /\ Same(k, f, UiFields \ {"gesture", "out"})
            /\ f.gesture.path = k.gesture.path
            /\ f.gesture.ready = k.gesture.ready /\ f.gesture.ending = k.gesture.ending
            /\ f.out = << >> \/ f.out = <<Writing(w)>>
        BY <3>1, <3>4, FlushFacts
      <4> HIDE DEF f
      <4>2. f.active = u.active /\ f.ready = u.ready /\ f.values = u.values /\ f.outdated = {}
        BY <3>3, <4>1 DEF Same, UiFields
      <4>3. UiInv(v) /\ Same(f, v, UiFields \ {"out"}) /\ v.out = Append(f.out, Finishing(w))
        BY <3>7, <4>1, SendFacts
      <4> HIDE DEF v
      <4>4. v.active = f.active /\ v.ready = f.ready /\ v.values = f.values /\ v.outdated = f.outdated
            /\ v.gesture = f.gesture
        BY <4>3 DEF Same, UiFields
      <4>5. Active(v) /\ ~Editing(v) /\ v.gesture.ready /\ v.gesture.ending
        BY <3>1, <3>4, <3>7, <4>1, <4>4 DEF Active, Editing
      <4>6. Turn(u, v)
        BY <3>1, <3>4, <3>7, <4>1, <4>2, <4>4, <4>5 DEF Turn, Idle
      <4>7. v.out = <<Finishing(w)>> \/ v.out = <<Writing(w), Finishing(w)>>
        <5>1. CASE f.out = << >>
          BY <4>3, <5>1, Appends
        <5>2. CASE f.out = <<Writing(w)>>
          BY <4>3, <5>2, Appends
        <5> QED
          BY <4>1, <5>1, <5>2
      <4>8. Completing(v, fs)
        BY <3>5, <4>5 DEF Completing
      <4>9. Outs(v, fs)
        BY <4>7, <4>8 DEF Outs
      <4> QED
        BY <3>2, <4>2, <4>3, <4>4, <4>5, <4>6, <4>9 DEF Moved
    <3> QED
      BY <3>6, <3>7
  <2> QED
    BY <2>1, <2>2
<1> HIDE DEF e
<1> DEFINE v == SetBusy(e, e.busy)
<1>3. UiInv(v) /\ Same(e, v, Status)
  BY <1>2, BusyAgain DEF Moved
<1> HIDE DEF v
<1>4. /\ v.active = e.active /\ v.ready = e.ready /\ v.values = e.values
      /\ v.gesture = e.gesture /\ v.out = e.out /\ v.outdated = e.outdated
  BY <1>3 DEF Same, Status
<1>5. (Active(v) <=> Active(e)) /\ (Editing(v) <=> Editing(e))
  BY <1>4 DEF Active, Editing
<1>6. Turn(u, v)
  BY <1>2, <1>4, <1>5 DEF Moved, Turn
<1>7. Outs(v, fs)
  BY <1>2, <1>4, <1>5 DEF Moved, Outs, Closing, Completing
<1> QED
  BY <1>1, <1>2, <1>3, <1>4, <1>5, <1>6, <1>7 DEF Moved, v

\* The pointer holds the open gesture, or the editor has started over under it.
In(u, x) ==
    IF u.gesture.on = Graph THEN u.graph.dragging /\ x = Graph
    ELSE u.dials[u.gesture.path].dragging /\ x = u.gesture.path
Holds(u, x) == Editing(u) => u.started \/ In(u, x)

\* What the control in the hand is.
LEMMA InFacts ==
  ASSUME NEW u, UiInv(u), Editing(u), NEW x, In(u, x)
  PROVE  /\ x \in {Graph} \cup Dials
         /\ x = Graph => u.graph.dragging
         /\ x # Graph => u.gesture.path = x /\ u.dials[x].dragging
<1>1. u.gesture.on # Graph => u.gesture.path \in Dials
  BY GestureFacts DEF UiInv, UiBase, Raw, UiTypes, Editing, Active
<1> QED
  BY <1>1, PathFacts DEF In

\* A handler that keeps its hands off the gesture leaves it in the same hand.
LEMMA GripKeeps ==
  ASSUME NEW u, NEW v, UiInv(u), Grip(u, v), NEW x, Holds(u, x)
  PROVE  Holds(v, x) /\ (x \notin {Graph} \cup Dials => (Editing(v) => v.started))
<1> SUFFICES ASSUME Editing(v), ~v.started
             PROVE  In(v, x) /\ x \in {Graph} \cup Dials
  BY DEF Holds
<1>1. /\ Editing(u) /\ v.gesture.path = u.gesture.path /\ v.gesture.on = u.gesture.on
      /\ ~u.started
      /\ \A d \in Dials : u.dials[d].dragging => v.dials[d].dragging
      /\ u.graph.dragging => v.graph.dragging
  BY DEF Grip
<1>2. In(u, x)
  BY <1>1 DEF Holds
<1>3. u.gesture.on # Graph => u.gesture.path \in Dials
  BY <1>1, GestureFacts DEF UiInv, UiBase, Raw, UiTypes, Editing, Active
<1> QED
  BY <1>1, <1>2, <1>3, InFacts DEF In

\* A gesture has begun.
Begun(u, v, fs, r, path, on) ==
    /\ Moved(u, v, fs) /\ Editing(v) /\ v.out = <<Beginning>> /\ Turn(u, v)
    /\ v.gesture.path = path /\ v.gesture.on = on
    /\ v.dials = u.dials /\ v.graph.selected = r.graph.selected /\ ~v.graph.dragging
    /\ v.graph.context = r.graph.context
    /\ v.graph.entries = r.graph.entries /\ v.graph.spectrum = r.graph.spectrum
    /\ r.graph.entries # NoEntries /\ r.graph.rate # 0 => v.graph.ready

\* A gesture begins under the pointer.
LEMMA BeginFacts ==
  ASSUME NEW u, NEW fs, UiInv(u), Idle(u), CanBegin(u), Waits(u, fs),
         NEW r, Shaped(r, UiFields), Same(u, r, UiFields \ {"graph"}), GraphBase(r.graph),
         r.graph.context = u.graph.context, r.graph.entries = u.graph.entries,
         r.graph.spectrum = u.graph.spectrum, ~r.graph.dragging,
         NEW path, NEW on, (on = "dial" /\ path \in Dials) \/ (on = Graph /\ path \in Handles),
         NEW w \in Writings
  PROVE  Begun(u, BeginGesture(r, path, on, w), fs, r, path, on)
<1> DEFINE g == ApplyPreview(r.graph, w)
           o == [path |-> path, on |-> on, values |-> w, ready |-> FALSE, dirty |-> FALSE,
                 ending |-> FALSE]
           b == Send([Previewed(r, w) EXCEPT !.gesture = o], Beginning)
           v == SetBusy(b, FALSE)
<1>1. BeginGesture(r, path, on, w) = v
  BY Zenon DEF BeginGesture, Beginning
<1>2. /\ GraphInv(g) /\ g.preview = w
      /\ Same(r.graph, g, GraphFields \ {"preview", "ready", "curves", "all"})
  BY ApplyPreviewFacts
<1>3. r.graph.entries # NoEntries /\ r.graph.rate # 0 => g.ready
  BY RebuildReady DEF GraphBase, Shaped, Same, GraphFields, ApplyPreview
<1> HIDE DEF g
<1>4. /\ g.context = u.graph.context /\ g.entries = u.graph.entries /\ g.spectrum = u.graph.spectrum
      /\ ~g.dragging /\ g.selected = r.graph.selected
  BY <1>2 DEF Same, GraphFields
<1>5. o \in Gestures /\ o.path = path /\ o.on = on /\ ~o.ending /\ ~o.ready
  <2>1. o \in OpenGestures(Dials, "dial") \cup OpenGestures(Handles, Graph)
    BY DEF OpenGestures
  <2> QED
    BY <2>1 DEF Gestures
<1>6. path # None
  BY PathFacts
<1> HIDE DEF o
<1>7. /\ Shaped(b, UiFields) /\ Same(r, b, UiFields \ {"graph", "gesture", "out"})
      /\ b.graph = g /\ b.gesture = o /\ b.out = Append(r.out, Beginning)
  BY Zenon DEF Shaped, Same, UiFields, Send, Previewed, g
<1> HIDE DEF b
<1>8. /\ b.active = u.active /\ b.busy = u.busy /\ b.ready = u.ready /\ b.scope = u.scope
      /\ b.started = u.started /\ b.focus = u.focus /\ b.values = u.values /\ b.models = u.models
      /\ b.dials = u.dials /\ b.choice = u.choice /\ b.leveling = u.leveling
      /\ b.telemetry = u.telemetry /\ b.source = u.source
      /\ b.navigation = u.navigation /\ b.graphOn = u.graphOn
      /\ b.enabled = u.enabled /\ b.on = u.on /\ r.out = u.out /\ b.outdated = u.outdated
  BY <1>7 DEF Same, UiFields
<1>9. u.active /\ ~u.busy /\ u.ready /\ ~Active(u)
  BY DEF CanBegin, UiInv, Enabled
<1>10. b.out = <<Beginning>> /\ b.outdated = {}
  BY <1>7, <1>8, Appends DEF Idle
<1>11. Active(b) /\ Editing(b) /\ ~b.gesture.ready
  BY <1>5, <1>6, <1>7 DEF Active, Editing
<1>12. UiBase(b)
  <2>1. Raw(b)
    BY <1>2, <1>5, <1>7, <1>8, <1>9, PathFacts DEF Active, UiInv, UiBase, Raw, DialsHeld, UiTypes
  <2>2. Known(b) /\ Measures(b)
    BY <1>4, <1>7, <1>8 DEF UiInv, UiBase, Known, Measures
  <2>3. GraphHeld(b) /\ Restarted(b)
    BY <1>4, <1>7, <1>8, <1>9, <1>11 DEF GraphHeld, Restarted
  <2> QED
    BY <2>1, <2>2, <2>3 DEF UiBase
<1>13. UiInv(v)
  BY <1>8, <1>9, <1>12, SetBusyInv
<1>14. Carried(b, v) /\ Same(b, v, Aside)
  BY <1>12, SetBusyCarries DEF UiBase
<1>15. Same(b.graph, v.graph, GraphFields \ {"group"})
  BY <1>12, SetBusyFacts DEF UiBase, Raw
<1> HIDE DEF v
<1>16. /\ v.active = u.active /\ v.ready = u.ready /\ v.values = u.values /\ v.gesture = o
       /\ v.dials = u.dials
  BY <1>7, <1>8, <1>14 DEF Carried
<1>17. v.out = <<Beginning>> /\ v.outdated = {}
  BY <1>10, <1>14 DEF Same, Aside
<1>18. /\ v.graph.entries = g.entries /\ v.graph.spectrum = g.spectrum
       /\ v.graph.selected = g.selected /\ v.graph.dragging = g.dragging
       /\ v.graph.context = g.context /\ v.graph.ready = g.ready
  BY <1>7, <1>15 DEF Same, GraphFields
<1>19. Active(v) /\ Editing(v) /\ ~v.gesture.ready
  BY <1>5, <1>6, <1>16 DEF Active, Editing
<1>20. Turn(u, v)
  BY <1>9, <1>16, <1>17, <1>19 DEF Turn, Idle
<1>21. Outs(v, fs)
  <2>1. No(fs, "begin")
    BY <1>9, WaitsNo
  <2> QED
    BY <1>9, <1>16, <1>17, <1>19, <2>1 DEF Outs
<1> QED
  BY <1>1, <1>3, <1>4, <1>5, <1>9, <1>13, <1>16, <1>17, <1>18, <1>19, <1>20, <1>21 DEF Moved, Begun, v

\* Values are whole numbers.
LEMMA ValuesAreInt == \A v \in Values : v \in Int
BY ScaleAssumption DEF Values

\* An enabled control has a model.
LEMMA EditableFacts ==
  ASSUME NEW u, UiInv(u)
  PROVE  /\ \A d \in Dials : Editable(u, d) =>
              u.models[d].value \in Values /\ u.models[d] \in Entries
         /\ \A p \in Discrete : p \in u.on => u.models[p].value \in Bits
BY NoEntriesWriting, StripsFacts, PathFacts DEF UiInv, UiBase, Raw, UiTypes, Enabled, Editable

\* A dial is pressed.
LEMMA DialDownFacts ==
  ASSUME NEW u, NEW fs, UiInv(u), Idle(u), Waits(u, fs), Holds(u, NoPointer),
         NEW d \in Dials, Editable(u, d)
  PROVE  LET value == u.models[d].value
             begun == BeginGesture(u, d, "dial", With(d, value, NoEntries))
             v == IF CanBegin(u) /\ ~Automated(u, d)
                  THEN [begun EXCEPT !.dials[d] = [dragging |-> TRUE, preview |-> value,
                                                   position |-> Normalize(value)]]
                  ELSE u
         IN  Moved(u, v, fs) /\ Holds(v, d)
<1> DEFINE value == u.models[d].value
           w == With(d, value, NoEntries)
           b == BeginGesture(u, d, "dial", w)
           s == [dragging |-> TRUE, preview |-> value, position |-> Normalize(value)]
           v == [b EXCEPT !.dials[d] = s]
<1>1. CASE ~(CanBegin(u) /\ ~Automated(u, d))
  <2>1. Handled(u, u, fs)
    BY HandledSame DEF Same
  <2>2. Editing(u) => u.started
    BY GripKeeps, <2>1, PathFacts, MovedHandled
  <2> QED
    BY <1>1, <2>1, <2>2, MovedHandled DEF Holds
<1>2. CASE CanBegin(u) /\ ~Automated(u, d)
  <2>1. value \in Values
    BY EditableFacts
  <2>2. value \in Int /\ Normalize(value) \in Int
    BY <2>1, ValueFacts, NormalizeFacts
  <2>3. w \in Writings
    BY <2>1, NoEntriesWriting, WithWriting, PathFacts
  <2>4. s \in DialStates /\ s.dragging = TRUE
    BY <2>1, <2>2 DEF DialStates
  <2> HIDE DEF s
  <2> HIDE DEF w
  <2>5. /\ Shaped(u, UiFields) /\ Same(u, u, UiFields \ {"graph"}) /\ GraphBase(u.graph)
        /\ ~u.graph.dragging
    <3>1. ~Active(u)
      BY <1>2 DEF CanBegin
    <3> QED
      BY <3>1, GraphInvBase DEF UiInv, UiBase, Raw, UiTypes, Same, GraphHeld, Editing
  <2>6. /\ Moved(u, b, fs) /\ Editing(b) /\ b.out = <<Beginning>> /\ Turn(u, b)
        /\ b.gesture.path = d /\ b.gesture.on = "dial"
    <3>1. /\ u.graph.context = u.graph.context /\ u.graph.entries = u.graph.entries
          /\ u.graph.spectrum = u.graph.spectrum
          /\ ("dial" = "dial" /\ d \in Dials) \/ ("dial" = Graph /\ d \in Handles)
      OBVIOUS
    <3>2. Begun(u, b, fs, u, d, "dial")
      BY <1>2, <2>3, <2>5, <3>1, BeginFacts
    <3> HIDE DEF b
    <3> QED
      BY <3>2 DEF Begun
  <2> HIDE DEF b
  <2>7. UiInv(v) /\ Same(b, v, UiFields \ {"dials"}) /\ v.dials[d] = s
    <3>1. Turned(b, v, d, s)
      BY <2>4, <2>6, DialShows DEF Moved
    <3> HIDE DEF v
    <3> QED
      BY <3>1 DEF Turned
  <2> HIDE DEF v
  <2>8. /\ v.active = b.active /\ v.ready = b.ready /\ v.values = b.values
        /\ v.gesture = b.gesture /\ v.outdated = b.outdated /\ v.out = b.out
    BY <2>7 DEF Same, UiFields
  <2>9. (Active(v) <=> Active(b)) /\ Editing(v)
    BY <2>6, <2>8 DEF Active, Editing
  <2>10. Turn(u, v)
    BY <2>6, <2>8, <2>9 DEF Turn
  <2>11. Outs(v, fs)
    BY <2>6, <2>8, <2>9 DEF Moved, Outs, Closing, Completing
  <2>12. Moved(u, v, fs)
    BY <2>6, <2>7, <2>8, <2>10, <2>11 DEF Moved
  <2>13. "dial" # Graph
    BY DEF Graph
  <2>14. Holds(v, d)
    BY <2>4, <2>6, <2>7, <2>8, <2>13, SMTT(30) DEF Holds, In
  <2> QED
    BY <1>2, <2>12, <2>14 DEF v, b, w, s
<1> QED
  BY <1>1, <1>2

\* A dial is turned.
LEMMA DialDragFacts ==
  ASSUME NEW u, NEW fs, UiInv(u), Idle(u), NEW d \in Dials, Editable(u, d), u.dials[d].dragging,
         NEW delta \in Int, NEW rough \in BOOLEAN
  PROVE  LET range == EditingRange(u.models[d], u.scope)
             position == Clamp(u.dials[d].position + delta, Normalize(range[1]), Normalize(range[2]))
             next == Quantize(position, rough, range)
             moved == [u EXCEPT !.dials[d].position = position]
             v == IF next = DisplayValue(u.dials[d], u.models[d]) THEN moved
                  ELSE Change([moved EXCEPT !.dials[d].preview = next], With(d, next, NoEntries))
         IN  Handled(u, v, fs)
<1> DEFINE range == EditingRange(u.models[d], u.scope)
           position == Clamp(u.dials[d].position + delta, Normalize(range[1]), Normalize(range[2]))
           next == Quantize(position, rough, range)
           m == [u EXCEPT !.dials[d].position = position]
           t == [m EXCEPT !.dials[d].preview = next]
           w == With(d, next, NoEntries)
           c == Change(t, w)
           v == IF next = DisplayValue(u.dials[d], u.models[d]) THEN m ELSE c
<1>1. range \in Ranges
  BY EditableFacts, RangeFacts
<1>2. u.dials \in [Dials -> DialStates] /\ u.gesture.path = d
  BY DEF UiInv, UiBase, Raw, UiTypes, DialsHeld
<1>3. Active(u)
  BY <1>2, PathFacts DEF Active
<1>4. position \in Int
  <2>1. range[1] \in Values /\ range[2] \in Values
    BY <1>1 DEF Ranges
  <2> HIDE DEF range
  <2>2. Normalize(range[1]) \in Int /\ Normalize(range[2]) \in Int
    <3>1. range[1] \in Int /\ range[2] \in Int
      BY <2>1, ValuesAreInt
    <3>2. Normalize(range[1]) \in Values /\ Normalize(range[2]) \in Values
      BY <3>1, NormalizeFacts
    <3> QED
      BY <3>2, ValuesAreInt
  <2>3. u.dials[d].position + delta \in Int
    BY <1>2 DEF DialStates
  <2> QED
    BY <2>2, <2>3 DEF Clamp
<1> HIDE DEF position
<1>5. next \in Values
  BY <1>1, <1>4, QuantizeFacts
<1> HIDE DEF range
<1> HIDE DEF next
<1>6. w \in Writings
  BY <1>5, NoEntriesWriting, WithWriting, PathFacts
<1> HIDE DEF w
<1>7. /\ UiInv(m) /\ Same(u, m, UiFields \ {"dials"}) /\ m.dials[d].dragging = u.dials[d].dragging
      /\ \A e \in Dials \ {d} : m.dials[e] = u.dials[e]
  <2> DEFINE s == [u.dials[d] EXCEPT !.position = position]
  <2>1. s \in DialStates /\ s.dragging = u.dials[d].dragging
    BY <1>2, <1>4 DEF DialStates
  <2>2. m = [u EXCEPT !.dials[d] = s]
    OBVIOUS
  <2> HIDE DEF s
  <2>3. /\ UiInv(m) /\ Same(u, m, UiFields \ {"dials"}) /\ m.dials[d] = s
        /\ \A e \in Dials \ {d} : m.dials[e] = u.dials[e]
    <3>0. UiInv(u) /\ (Previewing(s) \/ s.dragging => u.gesture.path = d)
      BY <1>2
    <3>1. Turned(u, m, d, s)
      BY <2>1, <2>2, <3>0, DialShows
    <3> HIDE DEF m
    <3> QED
      BY <3>1 DEF Turned
  <2> HIDE DEF m
  <2> QED
    BY <2>1, <2>3
<1> HIDE DEF m
<1>8. m.dials \in [Dials -> DialStates] /\ m.gesture = u.gesture
  BY <1>7 DEF UiInv, UiBase, Raw, UiTypes, Same, UiFields
<1>9. /\ UiInv(t) /\ Same(m, t, UiFields \ {"dials"}) /\ t.dials[d].dragging = m.dials[d].dragging
      /\ \A e \in Dials \ {d} : t.dials[e] = m.dials[e]
  <2> DEFINE s == [m.dials[d] EXCEPT !.preview = next]
  <2>1. s \in DialStates /\ s.dragging = m.dials[d].dragging
    BY <1>5, <1>8 DEF DialStates
  <2>2. t = [m EXCEPT !.dials[d] = s]
    OBVIOUS
  <2> HIDE DEF s
  <2>3. /\ UiInv(t) /\ Same(m, t, UiFields \ {"dials"}) /\ t.dials[d] = s
        /\ \A e \in Dials \ {d} : t.dials[e] = m.dials[e]
    <3>0. UiInv(m) /\ (Previewing(s) \/ s.dragging => m.gesture.path = d)
      BY <1>2, <1>7, <1>8
    <3>1. Turned(m, t, d, s)
      BY <2>1, <2>2, <3>0, DialShows
    <3> HIDE DEF t
    <3> QED
      BY <3>1 DEF Turned
  <2> HIDE DEF t
  <2> QED
    BY <2>1, <2>3
<1> HIDE DEF t
<1>10. t.gesture = u.gesture /\ t.graph = u.graph /\ m.graph = u.graph
  BY <1>7, <1>9 DEF Same, UiFields
<1>11. /\ UiInv(c) /\ Same(t, c, UiFields \ {"graph", "gesture"})
       /\ c.graph.dragging = t.graph.dragging
       /\ c.gesture.path = t.gesture.path /\ c.gesture.on = t.gesture.on
       /\ c.gesture.ready = t.gesture.ready /\ c.gesture.ending = t.gesture.ending
  BY <1>3, <1>6, <1>9, <1>10, ChangeFacts DEF Active
<1> HIDE DEF c
<1>12. /\ UiInv(v) /\ Same(u, v, UiFields \ {"dials", "graph", "gesture"})
       /\ v.graph.dragging = u.graph.dragging
       /\ v.gesture.path = u.gesture.path /\ v.gesture.on = u.gesture.on
       /\ v.gesture.ready = u.gesture.ready /\ v.gesture.ending = u.gesture.ending
       /\ \A e \in Dials : v.dials[e].dragging = u.dials[e].dragging
  <2>1. CASE next = DisplayValue(u.dials[d], u.models[d])
    BY <1>7, <1>8, <1>10, <2>1 DEF Same
  <2>2. CASE next # DisplayValue(u.dials[d], u.models[d])
    <3>1. c.dials = t.dials
      BY <1>11 DEF Same, UiFields
    <3>2. Same(u, c, UiFields \ {"dials", "graph", "gesture"})
      BY <1>7, <1>9, <1>11 DEF Same
    <3> QED
      BY <1>7, <1>9, <1>10, <1>11, <2>2, <3>1, <3>2
  <2> QED
    BY <2>1, <2>2
<1> HIDE DEF v
<1>13. /\ v.active = u.active /\ v.ready = u.ready /\ v.values = u.values /\ v.started = u.started
       /\ v.out = << >> /\ v.outdated = {}
  BY <1>12 DEF Same, UiFields, Idle
<1>14. (Active(v) <=> Active(u)) /\ (Editing(v) <=> Editing(u))
  BY <1>12 DEF Active, Editing
<1>15. Turn(u, v)
  BY <1>3, <1>12, <1>13, <1>14 DEF Turn, Idle
<1>16. Grip(u, v)
  BY <1>12, <1>13, <1>14 DEF Grip
<1>17. Outs(v, fs)
  BY <1>13 DEF Outs
<1> QED
  BY <1>12, <1>13, <1>15, <1>16, <1>17 DEF Handled, v, c, w, t, m, next, position, range

\* A dial is let go.
LEMMA DialUpFacts ==
  ASSUME NEW u, NEW fs, UiInv(u), Idle(u), Waits(u, fs), NEW d \in Dials, Holds(u, d)
  PROVE  LET value == DisplayValue(u.dials[d], u.models[d])
             released == [u EXCEPT !.dials[d].dragging = FALSE]
             w == With(d, value, NoEntries)
             v == IF u.dials[d].dragging /\ u.ready THEN Ended(Previewed(released, w), w)
                  ELSE released
         IN  Moved(u, v, fs) /\ Holds(v, NoPointer)
<1> DEFINE value == DisplayValue(u.dials[d], u.models[d])
           r == [u EXCEPT !.dials[d].dragging = FALSE]
           w == With(d, value, NoEntries)
           p == Previewed(r, w)
           v == Ended(p, w)
<1>1. u.dials \in [Dials -> DialStates]
      /\ (Previewing(u.dials[d]) \/ u.dials[d].dragging => u.gesture.path = d)
  BY DEF UiInv, UiBase, Raw, UiTypes, DialsHeld
<1>2. /\ UiInv(r) /\ Same(u, r, UiFields \ {"dials"})
  <2> DEFINE s == [u.dials[d] EXCEPT !.dragging = FALSE]
  <2>1. s \in DialStates /\ s.dragging = FALSE /\ s.preview = u.dials[d].preview
    BY <1>1 DEF DialStates
  <2>2. r = [u EXCEPT !.dials[d] = s]
    OBVIOUS
  <2> HIDE DEF s
  <2>3. Turned(u, r, d, s)
    BY <1>1, <2>1, <2>2, DialShows DEF Previewing
  <2> HIDE DEF r
  <2> QED
    BY <2>3 DEF Turned
<1> HIDE DEF r
<1>3. /\ r.active = u.active /\ r.ready = u.ready /\ r.values = u.values /\ r.gesture = u.gesture
      /\ r.out = u.out /\ r.outdated = u.outdated /\ r.graph = u.graph /\ r.started = u.started
  BY <1>2 DEF Same, UiFields
<1>4. CASE u.dials[d].dragging /\ u.ready
  <2>1. value \in Values
    <3>1. u.models \in Strips
      BY <1>4, BankFacts DEF UiInv, UiBase, Known
    <3>2. u.models[d].value \in Values
      BY <3>1, StripsFacts, PathFacts
    <3> QED
      BY <1>1, <3>2 DEF DisplayValue, Previewing, DialStates
  <2>2. w \in Writings
    BY <2>1, NoEntriesWriting, WithWriting, PathFacts
  <2> HIDE DEF w
  <2>3. Active(r) /\ ~r.graph.dragging
    <3>1. u.gesture.path = d /\ Active(u)
      BY <1>1, <1>4, PathFacts DEF Active
    <3>2. ~u.graph.dragging
      BY <3>1, PathFacts, GestureFacts DEF UiInv, UiBase, Raw, UiTypes, GraphHeld, Active
    <3> QED
      BY <1>3, <3>1, <3>2 DEF Active
  <2> DEFINE g == ApplyPreview(r.graph, w)
  <2>4. GraphInv(g) /\ g.preview = w /\ Same(r.graph, g, GraphFields \ {"preview", "ready", "curves", "all"})
    BY <1>2, <2>2, ApplyPreviewFacts, GraphInvBase DEF UiInv, UiBase, Raw
  <2>5. p = [r EXCEPT !.graph = g]
    BY DEF Previewed
  <2> HIDE DEF g
  <2>6. /\ g.context = r.graph.context /\ g.entries = r.graph.entries /\ g.spectrum = r.graph.spectrum
        /\ ~g.dragging
    BY <2>3, <2>4 DEF Same, GraphFields
  <2> HIDE DEF p
  <2>7. UiInv(p) /\ Same(r, p, UiFields \ {"graph"}) /\ p.graph = g
    BY <1>2, <2>3, <2>4, <2>5, <2>6, GraphShows
  <2>8. /\ p.active = r.active /\ p.ready = r.ready /\ p.values = r.values /\ p.gesture = r.gesture
        /\ p.out = r.out /\ p.outdated = r.outdated
    BY <2>7 DEF Same, UiFields
  <2>9. Idle(p) /\ Active(p) /\ Same(u, p, Status) /\ Waits(p, fs)
    BY <1>3, <2>3, <2>8 DEF Idle, Active, Same, Status, Waits
  <2>10. Moved(p, v, fs) /\ ~Editing(v)
    BY <2>2, <2>6, <2>7, <2>9, EndedFacts
  <2> HIDE DEF v
  <2>11. Moved(u, v, fs) /\ Holds(v, NoPointer)
    BY <2>9, <2>10, MovedSame DEF Holds
  <2> QED
    BY <1>4, <2>11 DEF v, p, w, r
<1>5. CASE ~(u.dials[d].dragging /\ u.ready)
  <2>1. Same(u, r, Status)
    BY <1>3 DEF Same, Status
  <2>2. Moved(u, r, fs)
    <3>1. Moved(r, r, fs)
      <4>1. Idle(r)
        BY <1>3 DEF Idle
      <4> QED
        BY <1>2, <4>1, HandledSame, MovedHandled DEF Same
    <3> QED
      BY <2>1, <3>1, MovedSame
  <2>3. Editing(u) => u.started
    <3>1. CASE ~u.ready
      BY <3>1 DEF UiInv, UiBase, Restarted
    <3>2. CASE ~u.dials[d].dragging
      <4>1. Editing(u) => ~In(u, d)
        BY <3>2, InFacts, PathFacts
      <4> QED
        BY <4>1 DEF Holds
    <3> QED
      BY <1>5, <3>1, <3>2
  <2>4. Holds(r, NoPointer)
    BY <1>3, <2>3 DEF Holds, Editing, Active
  <2> QED
    BY <1>5, <2>2, <2>4 DEF r
<1> QED
  BY <1>4, <1>5

\* The choice of the compressor keeps what the pointer is on by itself.
LEMMA ChoiceFacts ==
  ASSUME NEW u, UiInv(u), NEW x \in {None} \cup Bits
  PROVE  LET v == [u EXCEPT !.choice = x]
         IN  /\ UiInv(v) /\ Same(u, v, UiFields \ {"choice"}) /\ Same(u, v, Status)
             /\ v.started = u.started /\ v.dials = u.dials /\ v.graph = u.graph
<1> DEFINE v == [u EXCEPT !.choice = x]
<1>1. Shaped(v, UiFields) /\ v.choice = x /\ Same(u, v, UiFields \ {"choice"})
  BY Zenon DEF UiInv, UiBase, Raw, UiTypes, Shaped, Same, UiFields
<1> HIDE DEF v
<1>2. /\ v.active = u.active /\ v.busy = u.busy /\ v.ready = u.ready /\ v.scope = u.scope
      /\ v.started = u.started /\ v.focus = u.focus /\ v.values = u.values /\ v.models = u.models
      /\ v.dials = u.dials /\ v.leveling = u.leveling
      /\ v.telemetry = u.telemetry /\ v.source = u.source /\ v.gesture = u.gesture
      /\ v.graph = u.graph /\ Same(u, v, Controls) /\ Same(u, v, Status)
  BY <1>1 DEF Same, UiFields, Controls, Status
<1>3. Carried(u, v)
  BY <1>1, <1>2 DEF Carried, UiInv, UiBase, Raw, UiTypes
<1>4. UiInv(v)
  BY <1>2, <1>3, CarriedInv
<1> QED
  BY <1>1, <1>2, <1>4 DEF v

\* Pressed and let go, it leaves the gesture alone.
LEMMA ChoiceHeld ==
  ASSUME NEW u, NEW fs, UiInv(u), Idle(u), NEW x \in {None} \cup Bits
  PROVE  Handled(u, [u EXCEPT !.choice = x], fs)
BY ChoiceFacts, HandledSame

\* Each step sends its value.
LEMMA ChoiceDragFacts ==
  ASSUME NEW u, NEW fs, UiInv(u), Idle(u), NEW x \in Bits
  PROVE  Handled(u, CommitDiscreteValue([u EXCEPT !.choice = x], Type, x), fs)
BY ChoiceFacts, PathFacts, CommitFacts

\* A handle is pressed.
LEMMA GraphDownFacts ==
  ASSUME NEW u, NEW fs, UiInv(u), Idle(u), Waits(u, fs), Holds(u, NoPointer),
         u.graph.ready, u.graphOn, ~u.graph.dragging, NEW h \in Shown(u.graph.context)
  PROVE  LET held == [u EXCEPT !.graph = BeginPreview(@, h)]
             begun == BeginGesture(held, h, Graph, held.graph.preview)
             v == IF CanBegin(u) THEN [begun EXCEPT !.graph.dragging = TRUE]
                  ELSE [held EXCEPT !.graph = FinishGraphPreview(@)]
         IN  Moved(u, v, fs) /\ Holds(v, Graph)
<1> DEFINE g == BeginPreview(u.graph, h)
           r == [u EXCEPT !.graph = g]
           b == BeginGesture(r, h, Graph, r.graph.preview)
           d == [b.graph EXCEPT !.dragging = TRUE]
           v == [b EXCEPT !.graph.dragging = TRUE]
           f == FinishGraphPreview(r.graph)
           e == [r EXCEPT !.graph = FinishGraphPreview(@)]
<1>1. GraphInv(u.graph) /\ u.graph.entries # NoEntries /\ u.graph.rate # 0 /\ h \in Handles
  BY DEF UiInv, UiBase, Raw, GraphInv, Shown
<1>2. /\ GraphBase(g) /\ g.selected = h
      /\ Same(u.graph, g, GraphFields \ {"preview", "q", "selected"})
  BY <1>1, BeginPreviewFacts
<1> HIDE DEF g
<1>3. /\ g.context = u.graph.context /\ g.entries = u.graph.entries /\ g.rate = u.graph.rate
      /\ g.spectrum = u.graph.spectrum /\ ~g.dragging
  BY <1>2 DEF Same, GraphFields
<1>4. Shaped(r, UiFields) /\ r.graph = g /\ Same(u, r, UiFields \ {"graph"})
  BY Zenon DEF UiInv, UiBase, Raw, UiTypes, Shaped, Same, UiFields
<1>5. v = [b EXCEPT !.graph = d] /\ e = [r EXCEPT !.graph = f]
  OBVIOUS
<1> HIDE DEF r
<1>6. Moved(u, u, fs) /\ (Editing(u) => u.started)
  <2>1. Handled(u, u, fs)
    BY HandledSame DEF Same
  <2> QED
    BY <2>1, GripKeeps, PathFacts, MovedHandled
<1>7. CASE CanBegin(u)
  <2>1. r.graph.preview \in Writings
    BY <1>2, <1>4 DEF GraphBase
  <2>2. Begun(u, b, fs, r, h, Graph)
    BY <1>1, <1>2, <1>3, <1>4, <1>7, <2>1, BeginFacts
  <2> HIDE DEF v
  <2> HIDE DEF b
  <2>3. /\ UiInv(b) /\ Editing(b) /\ b.gesture.path = h /\ b.gesture.on = Graph
        /\ b.graph.selected = h /\ b.graph.context = u.graph.context /\ b.graph.ready
        /\ b.graph.entries = g.entries /\ b.graph.spectrum = u.graph.spectrum
    BY <1>1, <1>2, <1>3, <1>4, <2>2 DEF Begun, Moved
  <2>4. /\ Shaped(d, GraphFields) /\ d.dragging = TRUE
        /\ Same(b.graph, d, GraphFields \ {"dragging"})
    <3>1. Shaped(b.graph, GraphFields)
      BY <2>3 DEF UiInv, UiBase, Raw, GraphInv
    <3> QED
      BY <3>1, Zenon DEF Shaped, Same, GraphFields
  <2> HIDE DEF d
  <2>5. /\ d.context = b.graph.context /\ d.entries = b.graph.entries /\ d.preview = b.graph.preview
        /\ d.spectrum = b.graph.spectrum /\ d.selected = b.graph.selected
        /\ Same(b.graph, d, {"context", "entries", "preview", "q", "rate", "ready", "curves", "all"})
    BY <2>4 DEF Same, GraphFields
  <2>6. GraphInv(d)
    <3>1. GraphInv(b.graph) /\ d.selected \in Shown(b.graph.context)
      BY <2>3, <2>5 DEF UiInv, UiBase, Raw
    <3> QED
      BY <2>3, <2>4, <2>5, <3>1, GraphKept
  <2>7. UiInv(v) /\ Same(b, v, UiFields \ {"graph"}) /\ v.graph = d
    <3>1. d.preview # NoEntries => Active(b)
      BY <2>3 DEF Editing
    <3> QED
      BY <1>5, <2>3, <2>5, <2>6, <3>1, GraphShows
  <2>8. /\ v.active = b.active /\ v.ready = b.ready /\ v.values = b.values
        /\ v.gesture = b.gesture /\ v.outdated = b.outdated /\ v.out = b.out
    BY <2>7 DEF Same, UiFields
  <2>9. (Active(v) <=> Active(b)) /\ Editing(v)
    BY <2>3, <2>8 DEF Active, Editing
  <2>10. Moved(u, v, fs)
    <3>1. Moved(u, b, fs)
      BY <2>2 DEF Begun
    <3>2. Turn(u, v)
      BY <2>8, <2>9, <3>1 DEF Moved, Turn
    <3>3. Outs(v, fs)
      BY <2>8, <2>9, <3>1 DEF Moved, Outs, Closing, Completing
    <3> QED
      BY <2>7, <2>8, <3>1, <3>2, <3>3 DEF Moved
  <2>11. Holds(v, Graph)
    BY <2>3, <2>4, <2>7, <2>8 DEF Holds, In
  <2> QED
    BY <1>4, <1>7, <2>10, <2>11 DEF v, b, r, g
<1>8. CASE ~CanBegin(u)
  <2>1. Active(u)
    BY <1>8 DEF CanBegin, UiInv, Enabled
  <2>2. /\ GraphInv(f) /\ f.preview = NoEntries /\ f.dragging = FALSE
        /\ Same(g, f, GraphFields \ {"preview", "q", "dragging", "ready", "curves", "all"})
    BY <1>2, <1>4, FinishGraphPreviewFacts
  <2>3. e = [u EXCEPT !.graph = f]
    BY <1>5, Zenon DEF UiInv, UiBase, Raw, UiTypes, Shaped, UiFields, r
  <2> HIDE DEF f
  <2> HIDE DEF e
  <2>4. f.context = u.graph.context /\ f.entries = u.graph.entries /\ f.spectrum = u.graph.spectrum
    BY <1>3, <2>2 DEF Same, GraphFields
  <2>5. UiInv(e) /\ Same(u, e, UiFields \ {"graph"}) /\ e.graph = f
    BY <2>1, <2>2, <2>3, <2>4, GraphShows
  <2>6. Same(u, e, Status) /\ e.started = u.started /\ e.dials = u.dials /\ e.gesture = u.gesture
    BY <2>5 DEF Same, UiFields, Status
  <2>7. e.graph.dragging = u.graph.dragging
    BY <1>1, <2>2, <2>5 DEF GraphInv
  <2>8. Handled(u, e, fs)
    BY <2>5, <2>6, <2>7, HandledSame
  <2>9. Holds(e, Graph)
    BY <1>6, <2>6 DEF Holds, Editing, Active
  <2> QED
    BY <1>8, <2>8, <2>9, MovedHandled DEF e, r, g
<1> QED
  BY <1>7, <1>8

\* It is dragged.
LEMMA GraphDragFacts ==
  ASSUME NEW u, NEW fs, UiInv(u), Idle(u), u.graph.dragging,
         NEW m, \/ \E x \in Int : m = Move(u.graph, u.graph.selected, x)
                \/ u.graph.selected \in DOMAIN Q /\ m = ChangeQ(u.graph, u.graph.selected, 1)
  PROVE  Handled(u, SetGestureValues([u EXCEPT !.graph = m], m.preview), fs)
<1> DEFINE p == [u EXCEPT !.graph = m]
           v == SetGestureValues(p, m.preview)
<1>1. /\ GraphInv(u.graph) /\ u.graph.entries # NoEntries
      /\ u.graph.selected \in Shown(u.graph.context)
  BY DEF UiInv, UiBase, Raw, GraphInv
<1>2. Editing(u) /\ u.gesture.on = Graph /\ u.gesture.path = u.graph.selected
  BY DEF UiInv, UiBase, GraphHeld
<1>3. GraphInv(m) /\ Same(u.graph, m, GraphFields \ {"preview", "q", "ready", "curves", "all"})
  BY <1>1, MoveFacts, ChangeQFacts DEF Same
<1>4. /\ m.context = u.graph.context /\ m.entries = u.graph.entries /\ m.spectrum = u.graph.spectrum
      /\ m.dragging = u.graph.dragging /\ m.selected = u.graph.selected
  BY <1>3 DEF Same, GraphFields
<1>5. UiInv(p) /\ Same(u, p, UiFields \ {"graph"}) /\ p.graph = m
  BY <1>2, <1>3, <1>4, GraphShows DEF Editing
<1>6. m.preview \in Writings
  BY <1>3 DEF GraphInv
<1> HIDE DEF p
<1>7. p.gesture = u.gesture
  BY <1>5 DEF Same, UiFields
<1>8. Editing(p)
  BY <1>2, <1>7 DEF Editing, Active
<1>9. v = Telling(p, m.preview)
  BY <1>8, Zenon DEF SetGestureValues, Telling
<1>10. /\ UiInv(v) /\ Same(p, v, UiFields \ {"gesture"})
       /\ v.gesture.path = p.gesture.path /\ v.gesture.on = p.gesture.on
       /\ v.gesture.ready = p.gesture.ready /\ v.gesture.ending = p.gesture.ending
  BY <1>5, <1>6, <1>8, <1>9, GestureTold
<1> HIDE DEF v
<1>11. /\ v.active = p.active /\ v.ready = p.ready /\ v.values = p.values /\ v.started = p.started
       /\ v.dials = p.dials /\ v.graph = p.graph /\ v.out = p.out /\ v.outdated = p.outdated
  BY <1>10 DEF Same, UiFields
<1>12. /\ p.active = u.active /\ p.ready = u.ready /\ p.values = u.values /\ p.started = u.started
       /\ p.dials = u.dials /\ p.out = u.out /\ p.outdated = u.outdated
  BY <1>5 DEF Same, UiFields
<1>13. Active(u) /\ Active(v)
  BY <1>2, <1>7, <1>10 DEF Active, Editing
<1>14. Turn(u, v)
  BY <1>7, <1>10, <1>11, <1>12, <1>13 DEF Turn, Idle
<1>15. Grip(u, v)
  BY <1>2, <1>4, <1>5, <1>7, <1>10, <1>11, <1>12, <1>13 DEF Grip, Editing
<1>16. Outs(v, fs)
  BY <1>11, <1>12 DEF Outs, Idle
<1> QED
  BY <1>10, <1>11, <1>12, <1>14, <1>15, <1>16 DEF Handled, v, p

\* It is let go.
LEMMA GraphUpFacts ==
  ASSUME NEW u, NEW fs, UiInv(u), Idle(u), Waits(u, fs), Holds(u, Graph)
  PROVE  LET released == [u EXCEPT !.graph.dragging = FALSE]
             v == IF u.graph.dragging THEN Ended(released, u.graph.preview) ELSE released
         IN  Moved(u, v, fs) /\ Holds(v, NoPointer)
<1> DEFINE g == [u.graph EXCEPT !.dragging = FALSE]
           r == [u EXCEPT !.graph.dragging = FALSE]
           v == Ended(r, u.graph.preview)
<1>1. GraphInv(u.graph) /\ u.graph.preview \in Writings
  BY DEF UiInv, UiBase, Raw, GraphInv
<1>2. Shaped(g, GraphFields) /\ g.dragging = FALSE /\ Same(u.graph, g, GraphFields \ {"dragging"})
  BY <1>1, Zenon DEF GraphInv, Shaped, Same, GraphFields
<1>3. r = [u EXCEPT !.graph = g]
  OBVIOUS
<1> HIDE DEF g
<1> HIDE DEF r
<1>4. /\ g.context = u.graph.context /\ g.entries = u.graph.entries /\ g.spectrum = u.graph.spectrum
      /\ g.preview = u.graph.preview /\ g.selected = u.graph.selected
      /\ Same(u.graph, g, {"context", "entries", "preview", "q", "rate", "ready", "curves", "all"})
  BY <1>2 DEF Same, GraphFields
<1>5. GraphInv(g)
  BY <1>1, <1>2, <1>4, GraphKept
<1>6. UiInv(r) /\ Same(u, r, UiFields \ {"graph"}) /\ r.graph = g
  <2>1. g.preview # NoEntries => Active(u)
    BY <1>4 DEF UiInv, UiBase, GraphHeld
  <2>2. ~g.dragging
    BY <1>2
  <2> QED
    BY <1>3, <1>4, <1>5, <2>1, <2>2, GraphShows
<1>7. /\ r.active = u.active /\ r.ready = u.ready /\ r.values = u.values /\ r.gesture = u.gesture
      /\ r.out = u.out /\ r.outdated = u.outdated /\ r.started = u.started
  BY <1>6 DEF Same, UiFields
<1>8. Idle(r) /\ Same(u, r, Status) /\ Waits(r, fs) /\ (Active(r) <=> Active(u))
  BY <1>7 DEF Idle, Same, Status, Waits, Active
<1>9. CASE u.graph.dragging
  <2>1. Active(r) /\ ~r.graph.dragging
    BY <1>2, <1>6, <1>8, <1>9 DEF UiInv, UiBase, GraphHeld, Editing
  <2>2. Moved(r, v, fs) /\ ~Editing(v)
    BY <1>1, <1>6, <1>8, <2>1, EndedFacts
  <2> HIDE DEF v
  <2>3. Moved(u, v, fs) /\ Holds(v, NoPointer)
    BY <1>8, <2>2, MovedSame DEF Holds
  <2> QED
    BY <1>9, <2>3 DEF v, r
<1>10. CASE ~u.graph.dragging
  <2>1. Moved(u, r, fs)
    <3>1. Moved(r, r, fs)
      BY <1>6, <1>8, HandledSame, MovedHandled DEF Same
    <3> QED
      BY <1>8, <3>1, MovedSame
  <2>2. Editing(u) => u.started
    BY <1>10, InFacts DEF Holds
  <2>3. Holds(r, NoPointer)
    BY <1>7, <2>2 DEF Holds, Editing, Active
  <2> QED
    BY <1>10, <2>1, <2>3 DEF r
<1> QED
  BY <1>9, <1>10

\* The user turns the group's scope on or off.
LEMMA HandledScope ==
  ASSUME NEW u, NEW fs, UiInv(u), Idle(u), NEW s \in BOOLEAN
  PROVE  Handled(u, SetGroupScope(u, s), fs)
BY GroupScopeInv, SetGroupScopeFacts, HandledSame DEF UiInv, UiBase, Raw, Same, UiFields, Status

-----------------------------------------------------------------------------
(* The frames a handler leaves.                                            *)

Answers == {"edit", "command"}
Dimmed(f) == [f EXCEPT !.current = FALSE]

\* The answer nobody is to act upon is still a frame.
LEMMA DimmedFacts ==
  ASSUME NEW f \in Frames, f.kind \in Answers
  PROVE  Dimmed(f) \in Frames /\ Dimmed(f).kind = f.kind /\ ~Dimmed(f).current
BY DEF Frames, Answers, Dimmed

\* A frame that stays is as it was, but that it may be answered in vain.
Stays(v, f, g) ==
    /\ g \in Frames /\ g.kind = f.kind
    /\ g.kind \notin Answers => g = f
    /\ g.kind \in Answers => g = f \/ ~g.current
    /\ g.kind \in Answers /\ "target" \in v.outdated => ~g.current

Thinned(v, w, o) ==
    /\ o \in Seq(Frames)
    /\ \E q \in [1..Len(o) -> {n \in DOMAIN w : Still(v, w[n])}] :
         /\ \A k \in 1..Len(o) : Stays(v, w[q[k]], o[k])
         /\ \A j, k \in 1..Len(o) : j < k => q[j] < q[k]
         /\ \A i \in {n \in DOMAIN w : Still(v, w[n])} : \E k \in 1..Len(o) : q[k] = i

\* Dropping outdated frames removes no answer that is still waited for.
LEMMA OutdateFacts ==
  ASSUME NEW v, NEW w \in Seq(Frames)
  PROVE  Thinned(v, w, Outdate(v, w))
<1> DEFINE I == {n \in DOMAIN w : Still(v, w[n])}
           r == Kept(w, I)
           Dims(f) == f.kind \in {"edit", "command"} /\ "target" \in v.outdated
           o == [n \in DOMAIN r |-> IF Dims(r[n]) THEN [r[n] EXCEPT !.current = FALSE] ELSE r[n]]
<1>1. Outdate(v, w) = o
  BY Zenon DEF Outdate
<1>2. r \in Seq(Frames) /\ Picks(r, w, I)
  BY KeptFacts
<1>3. PICK q \in [1..Len(r) -> I] :
         /\ \A k \in 1..Len(r) : r[k] = w[q[k]]
         /\ \A j, k \in 1..Len(r) : j < k => q[j] < q[k]
         /\ \A i \in I : \E k \in 1..Len(r) : q[k] = i
  BY <1>2 DEF Picks
<1> HIDE DEF r, I
<1>4. \A k \in 1..Len(r) : r[k] \in Frames
  BY <1>2
<1>5. \A k \in 1..Len(r) : Stays(v, r[k], o[k])
  <2> TAKE k \in 1..Len(r)
  <2>0. k \in DOMAIN r
    BY <1>2
  <2>1. o[k] = IF Dims(r[k]) THEN Dimmed(r[k]) ELSE r[k]
    BY <2>0 DEF Dimmed
  <2> HIDE DEF o
  <2>2. CASE Dims(r[k])
    <3>1. Dimmed(r[k]) \in Frames /\ Dimmed(r[k]).kind = r[k].kind /\ ~Dimmed(r[k]).current
      BY <2>2, <1>4, DimmedFacts DEF Answers
    <3> QED
      BY <3>1, <2>1, <2>2 DEF Stays, Answers
  <2>3. CASE ~Dims(r[k])
    BY <2>1, <2>3, <1>4 DEF Stays, Answers
  <2> QED
    BY <2>2, <2>3
<1>6. DOMAIN o = 1..Len(r) /\ Len(r) \in Nat /\ (\A k \in 1..Len(r) : o[k] \in Frames)
  <2>1. DOMAIN o = 1..Len(r) /\ Len(r) \in Nat
    BY <1>2
  <2> QED
    BY <2>1, <1>5 DEF Stays
<1>7. o = [k \in 1..Len(r) |-> o[k]]
  BY <1>2
<1> HIDE DEF o
<1>8. o \in Seq(Frames) /\ Len(o) = Len(r)
  BY <1>6, <1>7
<1>9. /\ q \in [1..Len(o) -> I]
      /\ \A k \in 1..Len(o) : Stays(v, w[q[k]], o[k])
      /\ \A j, k \in 1..Len(o) : j < k => q[j] < q[k]
      /\ \A i \in I : \E k \in 1..Len(o) : q[k] = i
  BY <1>3, <1>5, <1>8
<1>10. Thinned(v, w, o)
  BY <1>8, <1>9, Zenon DEF Thinned, I
<1> QED
  BY <1>1, <1>10

\* What waited for the editor before its handler still fits it after.
LEMMA WaitsOutdate ==
  ASSUME NEW st, NEW v, NEW w \in Seq(Frames), Waits(st, w), Turn(st, v), NEW o, Thinned(v, w, o)
  PROVE  Waits(v, o)
<1>1. PICK q \in [1..Len(o) -> {n \in DOMAIN w : Still(v, w[n])}] :
         /\ \A k \in 1..Len(o) : Stays(v, w[q[k]], o[k])
         /\ \A j, k \in 1..Len(o) : j < k => q[j] < q[k]
         /\ \A i \in {n \in DOMAIN w : Still(v, w[n])} : \E k \in 1..Len(o) : q[k] = i
  BY DEF Thinned
<1>2. DOMAIN o = 1..Len(o) /\ Len(o) \in Nat /\ DOMAIN w = 1..Len(w) /\ Len(w) \in Nat
  BY DEF Thinned
<1>3. \A k \in DOMAIN o : q[k] \in DOMAIN w /\ Still(v, w[q[k]]) /\ Stays(v, w[q[k]], o[k])
  BY <1>1, <1>2
<1>4. \A k \in DOMAIN o : w[q[k]].kind = o[k].kind
  BY <1>3 DEF Stays
<1>5. \A j, k \in DOMAIN o : q[j] < q[k] => j < k
  BY <1>1, <1>2
<1>6. \A j, k \in DOMAIN o : q[j] = q[k] => j = k
  BY <1>1, <1>2
<1>7. ASSUME NEW kind, Once(w, kind) PROVE Once(o, kind)
  BY <1>3, <1>4, <1>6, <1>7 DEF Once, Is
<1>8. \A k \in DOMAIN o : Is(o, k, "snapshot") => "target" \notin v.outdated
  BY <1>3, <1>4 DEF Still, Is
<1>9. \A k \in DOMAIN o : Is(o, k, "begin") \/ Is(o, k, "finish") => "gesture" \notin v.outdated
  BY <1>3, <1>4 DEF Still, Is
<1>10. ASSUME NEW i \in DOMAIN o
       PROVE  /\ Is(o, i, "snapshot") => ~v.ready /\ (Active(v) => v.active)
              /\ Is(o, i, "command") /\ o[i].current => v.ready
              /\ Is(o, i, "begin") => Active(v) /\ ~v.gesture.ready
              /\ Is(o, i, "finish") => Active(v) /\ v.gesture.ready /\ v.gesture.ending
  <2>1. /\ Is(w, q[i], "snapshot") => ~st.ready /\ (Active(st) => st.active)
        /\ Is(w, q[i], "command") /\ w[q[i]].current => st.ready
        /\ Is(w, q[i], "begin") => Active(st) /\ ~st.gesture.ready
        /\ Is(w, q[i], "finish") => Active(st) /\ st.gesture.ready /\ st.gesture.ending
    BY <1>3 DEF Waits
  <2>2. CASE Is(o, i, "snapshot")
    BY <2>1, <2>2, <1>4, <1>8 DEF Turn, Is
  <2>3. CASE Is(o, i, "command") /\ o[i].current
    <3>1. "target" \notin v.outdated /\ o[i] = w[q[i]]
      BY <2>3, <1>3 DEF Stays, Answers, Is
    <3> QED
      BY <3>1, <2>1, <2>3 DEF Turn, Is
  <2>4. CASE Is(o, i, "begin")
    BY <2>1, <2>4, <1>4, <1>9 DEF Turn, Is
  <2>5. CASE Is(o, i, "finish")
    BY <2>1, <2>5, <1>4, <1>9 DEF Turn, Is
  <2> QED
    BY <2>2, <2>3, <2>4, <2>5 DEF Is
<1>11. ASSUME NEW i \in DOMAIN o, Is(o, i, "unmatched")
       PROVE  /\ \A j \in DOMAIN o : Is(o, j, "finish") => i < j
              /\ ~Active(v) => ~v.ready /\ \A j \in DOMAIN o : Is(o, j, "snapshot") => i < j
  <2>1. /\ \A j \in DOMAIN w : Is(w, j, "finish") => q[i] < j
        /\ ~Active(st) => ~st.ready /\ \A j \in DOMAIN w : Is(w, j, "snapshot") => q[i] < j
    BY <1>3, <1>4, <1>11 DEF Waits, Is
  <2>2. \A j \in DOMAIN o : Is(o, j, "finish") => i < j
    BY <2>1, <1>3, <1>4, <1>5 DEF Is
  <2>3. CASE Active(st)
    <3>1. ~Active(v) => ~v.ready /\ ("target" \in v.outdated \/ ~st.active)
      BY <2>3 DEF Turn
    <3>2. ~Active(v) => \A j \in DOMAIN o : ~Is(o, j, "snapshot")
      <4>1. CASE "target" \in v.outdated
        BY <4>1, <1>8
      <4>2. CASE ~st.active
        <5>1. \A j \in DOMAIN w : ~Is(w, j, "snapshot")
          BY <4>2, <2>3 DEF Waits
        <5> QED
          BY <5>1, <1>3, <1>4 DEF Is
      <4> QED
        BY <3>1, <4>1, <4>2
    <3> QED
      BY <2>2, <3>1, <3>2
  <2>4. CASE ~Active(st)
    <3>1. ~v.ready
      BY <2>1, <2>4 DEF Turn
    <3>2. \A j \in DOMAIN o : Is(o, j, "snapshot") => i < j
      BY <2>1, <2>4, <1>3, <1>4, <1>5 DEF Is
    <3> QED
      BY <2>2, <3>1, <3>2
  <2> QED
    BY <2>3, <2>4
<1>12. Once(o, "snapshot") /\ Once(o, "begin") /\ Once(o, "finish")
  BY <1>7 DEF Waits
<1> QED
  BY <1>10, <1>11, <1>12 DEF Waits

\* No kind of frame appears that was not there, and what is outdated goes.
LEMMA NoOutdate ==
  ASSUME NEW v, NEW w \in Seq(Frames), NEW o, Thinned(v, w, o)
  PROVE  /\ \A kind : No(w, kind) => No(o, kind)
         /\ "target" \in v.outdated => No(o, "snapshot")
         /\ "gesture" \in v.outdated => No(o, "begin") /\ No(o, "finish")
<1>1. PICK q \in [1..Len(o) -> {n \in DOMAIN w : Still(v, w[n])}] :
         \A k \in 1..Len(o) : Stays(v, w[q[k]], o[k])
  BY DEF Thinned
<1>2. DOMAIN o = 1..Len(o)
  BY DEF Thinned
<1>3. \A k \in DOMAIN o : q[k] \in DOMAIN w /\ Still(v, w[q[k]]) /\ w[q[k]].kind = o[k].kind
  BY <1>1, <1>2 DEF Stays
<1>4. \A k \in DOMAIN o : Is(o, k, "snapshot") => "target" \notin v.outdated
  BY <1>3 DEF Still, Is
<1>5. \A k \in DOMAIN o : Is(o, k, "begin") \/ Is(o, k, "finish") => "gesture" \notin v.outdated
  BY <1>3 DEF Still, Is
<1>6. \A kind : No(w, kind) => No(o, kind)
  BY <1>3 DEF No, Is
<1> QED
  BY <1>4, <1>5, <1>6 DEF No

\* Whatever is told of the values stays.
LEMMA NewsOutdate ==
  ASSUME NEW v, NEW w \in Seq(Frames), NEW o, Thinned(v, w, o), NEW c
  PROVE  /\ News(w, c) => News(o, c)
         /\ \A values : UpToDate(values, w, c) => UpToDate(values, o, c)
<1>1. PICK q \in [1..Len(o) -> {n \in DOMAIN w : Still(v, w[n])}] :
         /\ \A k \in 1..Len(o) : Stays(v, w[q[k]], o[k])
         /\ \A j, k \in 1..Len(o) : j < k => q[j] < q[k]
         /\ \A i \in {n \in DOMAIN w : Still(v, w[n])} : \E k \in 1..Len(o) : q[k] = i
  BY DEF Thinned
<1>2. DOMAIN o = 1..Len(o) /\ Len(o) \in Nat /\ DOMAIN w = 1..Len(w) /\ Len(w) \in Nat
  BY DEF Thinned
<1>3. \A k \in DOMAIN o : /\ q[k] \in DOMAIN w /\ w[q[k]].kind = o[k].kind
                          /\ o[k].kind \in {"changed", "snapshot"} => o[k] = w[q[k]]
  BY <1>1, <1>2 DEF Stays, Answers
<1>4. \A i \in DOMAIN w : Is(w, i, "changed") => \E k \in DOMAIN o : q[k] = i
  BY <1>1, <1>2 DEF Still, Is
<1>5. \A j, k \in DOMAIN o : q[j] < q[k] => j < k
  BY <1>1, <1>2
<1>6. ASSUME NEW k \in DOMAIN o, NEW p, Later(w, q[k], p) PROVE Later(o, k, p)
  <2>1. PICK j \in DOMAIN w : j > q[k] /\ Is(w, j, "changed") /\ w[j].path = p
    BY <1>6 DEF Later
  <2>2. PICK l \in DOMAIN o : q[l] = j
    BY <2>1, <1>4
  <2>3. Is(o, l, "changed") /\ o[l].path = p /\ l > k
    BY <2>1, <2>2, <1>2, <1>3, <1>5 DEF Is
  <2> QED
    BY <2>3 DEF Later
<1>7. ASSUME NEW p, Later(w, 0, p) PROVE Later(o, 0, p)
  BY <1>2, <1>3, <1>4, <1>7 DEF Later, Is
<1>8. ASSUME News(w, c) PROVE News(o, c)
  BY <1>3, <1>6, <1>8 DEF News, Is
<1> QED
  BY <1>7, <1>8 DEF UpToDate

-----------------------------------------------------------------------------
(* What the core tells of a change.                                        *)

\* There are finitely many paths.
LEMMA PathsFinite == IsFiniteSet(Paths)
<1> DEFINE T == {Parameters(h) : h \in Handles}
           f == [h \in Handles |-> Parameters(h)]
<1>1. IsFiniteSet(Handles) /\ IsFiniteSet(Dials)
  BY ControlsAssumption
<1>2. f \in Surjection(Handles, T)
  BY Zenon DEF Surjection
<1>3. IsFiniteSet(T)
  BY <1>1, <1>2, FS_Surjection
<1>4. \A x, y : IsFiniteSet({x, y})
  <2> TAKE x, y
  <2>1. IsFiniteSet({x}) /\ IsFiniteSet({y})
    BY FS_Singleton
  <2>2. IsFiniteSet({x} \cup {y}) /\ {x, y} = {x} \cup {y}
    BY <2>1, FS_Union
  <2> QED
    BY <2>2
<1>5. \A S \in T : IsFiniteSet(S)
  <2> SUFFICES ASSUME NEW h \in Handles PROVE IsFiniteSet(Parameters(h))
    OBVIOUS
  <2>1. Parameters(h) = {Gain[h], Gain[h]} \/ Parameters(h) = {Gain[h], Q[h]}
    BY DEF Parameters
  <2> QED
    BY <2>1, <1>4
<1>6. IsFiniteSet(UNION T)
  BY <1>3, <1>5, FS_UNION
<1>7. IsFiniteSet(Discrete)
  BY <1>4 DEF Discrete
<1>8. IsFiniteSet(Strip)
  BY <1>1, <1>7, FS_Union DEF Strip
<1> QED
  BY <1>6, <1>8, FS_Union DEF Paths

\* A frame for every path that changed, with what it has become.
Told(ch, old, new) ==
    /\ ch \in Seq(Frames)
    /\ \A i \in DOMAIN ch :
         Is(ch, i, "changed") /\ ch[i].path \in Paths /\ ch[i].entry = new[ch[i].path]
    /\ \A p \in Paths : old[p] # new[p] => \E i \in DOMAIN ch : ch[i].path = p

\* The core tells each path it changed, once, with its new entry.
LEMMA ChangedFacts ==
  ASSUME NEW old, NEW new \in Banks
  PROVE  Told(Changed(old, new), old, new)
<1> DEFINE S == {p \in Paths : old[p] # new[p]}
           n == Cardinality(S)
           order == SetToSeq(S)
           frame(p) == [kind |-> "changed", path |-> p, entry |-> new[p]]
           ch == [i \in DOMAIN order |-> frame(order[i])]
<1>1. Changed(old, new) = ch
  BY Zenon DEF Changed
<1>2. IsFiniteSet(S)
  BY PathsFinite, FS_Subset
<1> HIDE DEF S
<1>3. n \in Nat /\ ExistsBijection(1..n, S)
  BY <1>2, FS_CardinalityType
<1>4. \E f \in [1..n -> S] : IsInjective(f)
  BY <1>3, Zenon DEF ExistsBijection, Bijection, Injection
<1>5. order \in [1..n -> S] /\ IsInjective(order)
  BY <1>4, Zenon DEF SetToSeq
<1> HIDE DEF order
<1>6. order \in Injection(1..n, S)
  BY <1>5, Zenon DEF Injection
<1>7. Cardinality(1..n) = n
  BY <1>3, FS_Interval
<1>8. order \in Surjection(1..n, S)
  BY <1>2, <1>6, <1>7, FS_Injection
<1>9. \A p \in S : \E i \in 1..n : order[i] = p
  BY <1>8, Zenon DEF Surjection
<1>10. DOMAIN order = 1..n /\ \A i \in 1..n : order[i] \in S
  BY <1>5
<1>11. \A p \in Paths : frame(p) \in Frames
  BY DEF Banks, Frames
<1>12. S \subseteq Paths
  BY DEF S
<1>13. DOMAIN ch = 1..n /\ \A i \in 1..n : ch[i] = frame(order[i])
  BY <1>10
<1>14. \A p : frame(p).kind = "changed" /\ frame(p).path = p /\ frame(p).entry = new[p]
  OBVIOUS
<1> HIDE DEF frame
<1>15. ch \in [1..n -> Frames]
  BY <1>10, <1>11, <1>12
<1> HIDE DEF ch
<1>16. ch \in Seq(Frames)
  BY <1>3, <1>15
<1>17. \A i \in DOMAIN ch :
         Is(ch, i, "changed") /\ ch[i].path \in Paths /\ ch[i].entry = new[ch[i].path]
  BY <1>10, <1>12, <1>13, <1>14 DEF Is
<1>18. \A p \in Paths : old[p] # new[p] => \E i \in DOMAIN ch : ch[i].path = p
  <2> TAKE p \in Paths
  <2> HAVE old[p] # new[p]
  <2>1. p \in S
    BY DEF S
  <2>2. PICK i \in 1..n : order[i] = p
    BY <2>1, <1>9
  <2> QED
    BY <2>2, <1>13, <1>14
<1> QED
  BY <1>1, <1>16, <1>17, <1>18 DEF Told

-----------------------------------------------------------------------------
(* Frames that are added.                                                  *)

\* Where the elements of two joined sequences are.
LEMMA Joins ==
  ASSUME NEW C, NEW a \in Seq(C), NEW b \in Seq(C)
  PROVE  /\ a \o b \in Seq(C) /\ DOMAIN (a \o b) = 1..(Len(a) + Len(b))
         /\ DOMAIN a = 1..Len(a) /\ DOMAIN b = 1..Len(b) /\ Len(a) \in Nat /\ Len(b) \in Nat
         /\ \A i \in DOMAIN a : i \in DOMAIN (a \o b) /\ (a \o b)[i] = a[i]
         /\ \A i \in DOMAIN b : Len(a) + i \in DOMAIN (a \o b) /\ (a \o b)[Len(a) + i] = b[i]
         /\ \A i \in DOMAIN (a \o b) : i \in DOMAIN a \/ (i - Len(a) \in DOMAIN b /\ i > Len(a))
<1>1. a \o b \in Seq(C) /\ Len(a) \in Nat /\ Len(b) \in Nat /\ Len(a \o b) = Len(a) + Len(b)
  OBVIOUS
<1>2. /\ DOMAIN (a \o b) = 1..(Len(a) + Len(b)) /\ DOMAIN a = 1..Len(a) /\ DOMAIN b = 1..Len(b)
  BY <1>1
<1>3. \A i \in 1..(Len(a) + Len(b)) : (a \o b)[i] = IF i <= Len(a) THEN a[i] ELSE b[i - Len(a)]
  OBVIOUS
<1>4. \A i \in 1..Len(a) : i \in 1..(Len(a) + Len(b)) /\ (a \o b)[i] = a[i]
  BY <1>1, <1>3
<1>5. ASSUME NEW i \in 1..Len(b)
      PROVE  Len(a) + i \in 1..(Len(a) + Len(b)) /\ (a \o b)[Len(a) + i] = b[i]
  BY <1>1, <1>3
<1>6. \A i \in 1..(Len(a) + Len(b)) : i \in 1..Len(a) \/ (i - Len(a) \in 1..Len(b) /\ i > Len(a))
  <2>1. ASSUME NEW m \in Nat, NEW n \in Nat, NEW i \in 1..(m + n)
        PROVE  i \in 1..m \/ (i - m \in 1..n /\ i > m)
    <3>1. i \in Int /\ 1 <= i /\ i <= m + n
      OBVIOUS
    <3>2. CASE i <= m
      BY <3>1, <3>2
    <3>3. CASE i > m
      BY <3>1, <3>3
    <3> QED
      BY <3>1, <3>2, <3>3
  <2> QED
    BY <1>1, <2>1
<1> QED
  BY <1>1, <1>2, <1>4, <1>5, <1>6, Zenon

\* Where the elements of a sequence are after one is appended.
LEMMA AppendsOne ==
  ASSUME NEW C, NEW a \in Seq(C), NEW f \in C
  PROVE  /\ Append(a, f) \in Seq(C) /\ DOMAIN Append(a, f) = 1..(Len(a) + 1)
         /\ DOMAIN a = 1..Len(a) /\ Len(a) \in Nat /\ a \o <<f>> = Append(a, f)
         /\ \A i \in DOMAIN a : i \in DOMAIN Append(a, f) /\ Append(a, f)[i] = a[i]
         /\ Append(a, f)[Len(a) + 1] = f /\ a \o << >> = a
<1>1. /\ Append(a, f) \in Seq(C) /\ DOMAIN Append(a, f) = 1..(Len(a) + 1)
      /\ DOMAIN a = 1..Len(a) /\ Len(a) \in Nat /\ Len(Append(a, f)) = Len(a) + 1
      /\ \A i \in DOMAIN a : i \in DOMAIN Append(a, f) /\ Append(a, f)[i] = a[i]
      /\ Append(a, f)[Len(a) + 1] = f
  OBVIOUS
<1>2. <<f>> \in Seq(C) /\ Len(<<f>>) = 1 /\ <<f>>[1] = f
  OBVIOUS
<1>3. a \o <<f>> \in Seq(C) /\ Len(a \o <<f>>) = Len(a) + 1
      /\ \A i \in 1..(Len(a) + 1) : (a \o <<f>>)[i] = IF i <= Len(a) THEN a[i] ELSE f
  BY <1>1, <1>2
<1>4. a \o <<f>> = Append(a, f)
  BY <1>1, <1>3
<1>5. a \o << >> = a
  OBVIOUS
<1> QED
  BY <1>1, <1>4, <1>5

\* What is told of a change fits any editor.
LEMMA WaitsTold ==
  ASSUME NEW v, NEW fs \in Seq(Frames), NEW old, NEW new, NEW ch, Told(ch, old, new)
  PROVE  /\ fs \o ch \in Seq(Frames)
         /\ Waits(v, fs) => Waits(v, fs \o ch)
         /\ \A kind : kind # "changed" /\ No(fs, kind) => No(fs \o ch, kind)
<1> DEFINE o == fs \o ch
<1>1. /\ o \in Seq(Frames) /\ DOMAIN o = 1..(Len(fs) + Len(ch))
      /\ DOMAIN fs = 1..Len(fs) /\ DOMAIN ch = 1..Len(ch) /\ Len(fs) \in Nat /\ Len(ch) \in Nat
      /\ \A i \in DOMAIN fs : i \in DOMAIN o /\ o[i] = fs[i]
      /\ \A i \in DOMAIN ch : Len(fs) + i \in DOMAIN o /\ o[Len(fs) + i] = ch[i]
      /\ \A i \in DOMAIN o : i \in DOMAIN fs \/ (i - Len(fs) \in DOMAIN ch /\ i > Len(fs))
  BY Joins DEF Told
<1> HIDE DEF o
<1>2. \A i \in DOMAIN o : (i \in DOMAIN fs /\ o[i] = fs[i]) \/ Is(o, i, "changed")
  <2> TAKE i \in DOMAIN o
  <2>1. CASE i - Len(fs) \in DOMAIN ch /\ i > Len(fs)
    <3>1. Len(fs) + (i - Len(fs)) = i
      BY <1>1
    <3>2. o[i] = ch[i - Len(fs)]
      BY <1>1, <2>1, <3>1
    <3> QED
      BY <3>2, <2>1 DEF Told, Is
  <2> QED
    BY <1>1, <2>1
<1>3. \A kind : \A i \in DOMAIN o : kind # "changed" /\ Is(o, i, kind)
                                  => i \in DOMAIN fs /\ o[i] = fs[i] /\ Is(fs, i, kind)
  BY <1>2 DEF Is
<1>4. ASSUME Waits(v, fs) PROVE Waits(v, o)
  BY <1>3, <1>4 DEF Waits, Once
<1> QED
  BY <1>1, <1>3, <1>4 DEF No, o

\* And keeps what is told up to date.
LEMMA NewsTold ==
  ASSUME NEW fs \in Seq(Frames), NEW old, NEW new, NEW ch, Told(ch, old, new)
  PROVE  /\ News(fs, old) => News(fs \o ch, new)
         /\ \A values : UpToDate(values, fs, old) => UpToDate(values, fs \o ch, new)
<1> DEFINE o == fs \o ch
<1>1. /\ o \in Seq(Frames) /\ DOMAIN o = 1..(Len(fs) + Len(ch))
      /\ DOMAIN fs = 1..Len(fs) /\ DOMAIN ch = 1..Len(ch) /\ Len(fs) \in Nat /\ Len(ch) \in Nat
      /\ \A i \in DOMAIN fs : i \in DOMAIN o /\ o[i] = fs[i]
      /\ \A i \in DOMAIN ch : Len(fs) + i \in DOMAIN o /\ o[Len(fs) + i] = ch[i]
      /\ \A i \in DOMAIN o : i \in DOMAIN fs \/ (i - Len(fs) \in DOMAIN ch /\ i > Len(fs))
  BY Joins DEF Told
<1> HIDE DEF o
<1>2. ASSUME NEW i \in 0..Len(fs), NEW p \in Paths, Later(fs, i, p) \/ old[p] # new[p]
      PROVE  Later(o, i, p)
  <2>1. CASE Later(fs, i, p)
    BY <1>1, <2>1 DEF Later, Is
  <2>2. CASE old[p] # new[p]
    <3>1. PICK j \in DOMAIN ch : ch[j].path = p
      BY <2>2 DEF Told
    <3>2. Len(fs) + j \in DOMAIN o /\ o[Len(fs) + j] = ch[j] /\ Len(fs) + j > i
      BY <1>1
    <3>3. ch[j].kind = "changed"
      BY <3>1 DEF Told, Is
    <3> QED
      BY <3>1, <3>2, <3>3 DEF Later, Is
  <2> QED
    BY <1>2, <2>1, <2>2
<1>3. ASSUME News(fs, old) PROVE News(o, new)
  <2> SUFFICES ASSUME NEW i \in DOMAIN o
               PROVE  /\ Is(o, i, "changed") => Later(o, i, o[i].path) \/ o[i].entry = new[o[i].path]
                      /\ Is(o, i, "snapshot") => \A p \in Paths : Later(o, i, p) \/ o[i].values[p] = new[p]
    BY DEF News
  <2>1. CASE i \in DOMAIN fs
    <3>1. o[i] = fs[i] /\ i \in 0..Len(fs)
      BY <1>1, <2>1
    <3>2. CASE Is(o, i, "changed")
      <4>1. fs[i].path \in Paths
        <5>1. fs[i] \in Frames /\ fs[i].kind = "changed"
          BY <2>1, <3>1, <3>2, <1>1 DEF Is
        <5> QED
          BY <5>1 DEF Frames
      <4>2. Later(fs, i, fs[i].path) \/ fs[i].entry = old[fs[i].path]
        BY <1>3, <2>1, <3>1, <3>2 DEF News, Is
      <4> QED
        BY <4>1, <4>2, <3>1, <3>2, <1>2 DEF Is
    <3>3. CASE Is(o, i, "snapshot")
      <4>1. \A p \in Paths : Later(fs, i, p) \/ fs[i].values[p] = old[p]
        BY <1>3, <2>1, <3>1, <3>3 DEF News, Is
      <4> QED
        BY <4>1, <3>1, <3>3, <1>2 DEF Is
    <3> QED
      BY <3>2, <3>3
  <2>2. CASE i - Len(fs) \in DOMAIN ch /\ i > Len(fs)
    BY <1>1, <2>2 DEF Told, Is
  <2> QED
    BY <1>1, <2>1, <2>2
<1>4. ASSUME NEW values, UpToDate(values, fs, old) PROVE UpToDate(values, o, new)
  <2>1. 0 \in 0..Len(fs)
    BY <1>1
  <2> QED
    BY <2>1, <1>2, <1>4 DEF UpToDate
<1> QED
  BY <1>3, <1>4 DEF o

\* What an answer has to meet to wait behind the others.
Fits(v, fs, f) ==
    /\ f \in Frames /\ f.kind # "changed"
    /\ f.kind = "snapshot" => ~v.ready /\ (Active(v) => v.active) /\ No(fs, "snapshot")
    /\ f.kind = "command" => (f.current => v.ready)
    /\ f.kind = "begin" => Active(v) /\ ~v.gesture.ready /\ No(fs, "begin")
    /\ f.kind = "finish" => Active(v) /\ v.gesture.ready /\ v.gesture.ending /\ No(fs, "finish")
    /\ f.kind = "unmatched" => No(fs, "finish") /\ (~Active(v) => ~v.ready /\ No(fs, "snapshot"))

\* A frame that fits may come to wait behind those that do.
LEMMA WaitsAppend ==
  ASSUME NEW v, NEW fs \in Seq(Frames), NEW f, Fits(v, fs, f)
  PROVE  /\ Append(fs, f) \in Seq(Frames)
         /\ Waits(v, fs) => Waits(v, Append(fs, f))
         /\ \A kind : f.kind # kind /\ No(fs, kind) => No(Append(fs, f), kind)
<1> DEFINE o == Append(fs, f)
           n == Len(fs) + 1
<1>1. /\ o \in Seq(Frames) /\ DOMAIN o = 1..n /\ DOMAIN fs = 1..Len(fs) /\ Len(fs) \in Nat
      /\ \A i \in DOMAIN fs : i \in DOMAIN o /\ o[i] = fs[i]
      /\ o[n] = f
  BY AppendsOne DEF Fits
<1> HIDE DEF o
<1>2. \A i \in DOMAIN o : (i \in DOMAIN fs /\ o[i] = fs[i]) \/ (i = n /\ o[i] = f)
  BY <1>1
<1>3. \A kind : \A i \in DOMAIN o : Is(o, i, kind) =>
         (i \in DOMAIN fs /\ Is(fs, i, kind)) \/ (i = n /\ f.kind = kind)
  BY <1>2 DEF Is
<1>4. \A i \in DOMAIN fs : i < n
  BY <1>1
<1>5. ASSUME Waits(v, fs) PROVE Waits(v, o)
  <2>1. ASSUME NEW kind, f.kind = kind => No(fs, kind), Once(fs, kind) PROVE Once(o, kind)
    BY <2>1, <1>3 DEF Once, No
  <2>2. Once(o, "snapshot") /\ Once(o, "begin") /\ Once(o, "finish")
    BY <2>1, <1>5 DEF Waits, Fits
  <2>3. ASSUME NEW i \in DOMAIN o
        PROVE  /\ Is(o, i, "snapshot") => ~v.ready /\ (Active(v) => v.active)
               /\ Is(o, i, "command") /\ o[i].current => v.ready
               /\ Is(o, i, "begin") => Active(v) /\ ~v.gesture.ready
               /\ Is(o, i, "finish") => Active(v) /\ v.gesture.ready /\ v.gesture.ending
    <3>1. CASE i \in DOMAIN fs /\ o[i] = fs[i]
      BY <3>1, <1>5 DEF Waits, Is
    <3>2. CASE i = n /\ o[i] = f
      BY <3>2 DEF Fits, Is
    <3> QED
      BY <3>1, <3>2, <1>2
  <2>4. ASSUME NEW i \in DOMAIN o, Is(o, i, "unmatched")
        PROVE  /\ \A j \in DOMAIN o : Is(o, j, "finish") => i < j
               /\ ~Active(v) => ~v.ready /\ \A j \in DOMAIN o : Is(o, j, "snapshot") => i < j
    <3>1. CASE i \in DOMAIN fs /\ Is(fs, i, "unmatched")
      BY <1>3, <1>4, <1>5, <3>1 DEF Waits
    <3>2. CASE i = n /\ f.kind = "unmatched"
      <4>1. No(fs, "finish") /\ (~Active(v) => ~v.ready /\ No(fs, "snapshot"))
        BY <3>2 DEF Fits
      <4> QED
        BY <4>1, <3>2, <1>3 DEF No
    <3> QED
      BY <2>4, <3>1, <3>2, <1>3
  <2> QED
    BY <2>2, <2>3, <2>4 DEF Waits
<1>6. \A kind : f.kind # kind /\ No(fs, kind) => No(o, kind)
  BY <1>3 DEF No
<1> QED
  BY <1>1, <1>5, <1>6 DEF o

\* A frame that reports no change, and whose snapshot is the core's, leaves the news true.
LEMMA NewsAppend ==
  ASSUME NEW fs \in Seq(Frames), NEW f \in Frames, f.kind # "changed", NEW c,
         f.kind = "snapshot" => f.values = c
  PROVE  /\ News(fs, c) => News(Append(fs, f), c)
         /\ \A values : UpToDate(values, fs, c) => UpToDate(values, Append(fs, f), c)
<1> DEFINE o == Append(fs, f)
           n == Len(fs) + 1
<1>1. /\ o \in Seq(Frames) /\ DOMAIN o = 1..n /\ DOMAIN fs = 1..Len(fs) /\ Len(fs) \in Nat
      /\ \A i \in DOMAIN fs : i \in DOMAIN o /\ o[i] = fs[i]
      /\ o[n] = f
  BY AppendsOne
<1> HIDE DEF o
<1>2. \A i \in DOMAIN o : (i \in DOMAIN fs /\ o[i] = fs[i]) \/ (i = n /\ o[i] = f)
  BY <1>1
<1>3. \A i, p : Later(fs, i, p) => Later(o, i, p)
  BY <1>1 DEF Later, Is
<1>4. ASSUME News(fs, c) PROVE News(o, c)
  <2> SUFFICES ASSUME NEW i \in DOMAIN o
               PROVE  /\ Is(o, i, "changed") => Later(o, i, o[i].path) \/ o[i].entry = c[o[i].path]
                      /\ Is(o, i, "snapshot") => \A p \in Paths : Later(o, i, p) \/ o[i].values[p] = c[p]
    BY DEF News
  <2>1. CASE i \in DOMAIN fs /\ o[i] = fs[i]
    BY <1>3, <1>4, <2>1 DEF News, Is
  <2>2. CASE i = n /\ o[i] = f
    BY <2>2 DEF Is
  <2> QED
    BY <2>1, <2>2, <1>2
<1> QED
  BY <1>3, <1>4 DEF UpToDate, o

\* The second sequence is the first with a frame before it.
Shifted(a, b) ==
    /\ a \in Seq(Frames) /\ b \in Seq(Frames) /\ Len(a) \in Nat
    /\ DOMAIN a = 1..Len(a) /\ DOMAIN b = 1..(Len(a) + 1)
    /\ \A i \in DOMAIN a : b[i + 1] = a[i]

\* Where the elements of a sequence and of its tail are.
LEMMA ShiftFacts ==
  ASSUME NEW a, NEW b, Shifted(a, b)
  PROVE  /\ 1 \in DOMAIN b
         /\ \A i \in DOMAIN a : i + 1 \in DOMAIN b /\ b[i + 1] = a[i]
         /\ \A i \in DOMAIN b : i = 1 \/ (i - 1 \in DOMAIN a /\ b[i] = a[i - 1] /\ i > 1)
         /\ DOMAIN a \subseteq Nat \ {0} /\ DOMAIN b \subseteq Nat \ {0}
<1>1. Len(a) \in Nat /\ DOMAIN a = 1..Len(a) /\ DOMAIN b = 1..(Len(a) + 1)
  BY DEF Shifted
<1>2. \A i \in DOMAIN a : i + 1 \in DOMAIN b /\ b[i + 1] = a[i]
  BY <1>1 DEF Shifted
<1>3. ASSUME NEW i \in DOMAIN b, i # 1 PROVE i - 1 \in DOMAIN a /\ b[i] = a[i - 1] /\ i > 1
  <2>1. i - 1 \in DOMAIN a /\ (i - 1) + 1 = i /\ i > 1
    BY <1>1, <1>3
  <2>2. b[(i - 1) + 1] = a[i - 1]
    BY <2>1, <1>2, Zenon
  <2> QED
    BY <2>1, <2>2
<1> QED
  BY <1>1, <1>2, <1>3

\* The tail of the waiting frames is those frames without the first.
LEMMA TailShifted ==
  ASSUME NEW fs \in Seq(Frames), fs # << >>
  PROVE  Shifted(Tail(fs), fs) /\ Head(fs) = fs[1] /\ fs[1] \in Frames
BY DEF Shifted

\* Putting a frame in front shifts those that wait.
LEMMA PutShifted ==
  ASSUME NEW fs \in Seq(Frames), NEW f \in Frames
  PROVE  Shifted(fs, <<f>> \o fs) /\ (<<f>> \o fs)[1] = f
<1>1. <<f>> \in Seq(Frames) /\ Len(<<f>>) = 1 /\ <<f>>[1] = f /\ DOMAIN <<f>> = 1..1
  OBVIOUS
<1> DEFINE g == <<f>>
<1>2. g \in Seq(Frames) /\ Len(g) = 1 /\ g[1] = f /\ DOMAIN g = 1..1
  BY <1>1
<1> HIDE DEF g
<1>3. /\ g \o fs \in Seq(Frames) /\ DOMAIN (g \o fs) = 1..(Len(g) + Len(fs))
      /\ DOMAIN fs = 1..Len(fs) /\ Len(fs) \in Nat
      /\ \A i \in DOMAIN g : i \in DOMAIN (g \o fs) /\ (g \o fs)[i] = g[i]
      /\ \A i \in DOMAIN fs : Len(g) + i \in DOMAIN (g \o fs) /\ (g \o fs)[Len(g) + i] = fs[i]
  BY <1>2, Joins
<1>4. Shifted(fs, g \o fs) /\ (g \o fs)[1] = f
  BY <1>2, <1>3 DEF Shifted
<1> QED
  BY <1>4 DEF g

\* Frames that tell of something else may come first.
Quiets == {"restored", "ungrouped", "gone", "unfit", "telemetry", "spectrum", "rate"}

\* A frame that neither answers nor tells of a value may wait in front of all others.
LEMMA QuietFirst ==
  ASSUME NEW a, NEW b, Shifted(a, b), b[1].kind \in Quiets, NEW v, NEW c
  PROVE  /\ Waits(v, a) => Waits(v, b)
         /\ News(a, c) => News(b, c)
         /\ \A values : UpToDate(values, a, c) => UpToDate(values, b, c)
<1>1. /\ \A i \in DOMAIN a : i + 1 \in DOMAIN b /\ b[i + 1] = a[i]
      /\ \A i \in DOMAIN b : i = 1 \/ (i - 1 \in DOMAIN a /\ b[i] = a[i - 1] /\ i > 1)
      /\ DOMAIN a \subseteq Nat \ {0} /\ DOMAIN b \subseteq Nat \ {0}
  BY ShiftFacts
<1>2. \A kind : \A i \in DOMAIN b : kind \notin Quiets /\ Is(b, i, kind)
                                     => i - 1 \in DOMAIN a /\ Is(a, i - 1, kind) /\ b[i] = a[i - 1]
  BY <1>1 DEF Is
<1>3. \A i, j \in DOMAIN b : (i - 1 < j - 1 => i < j) /\ (i - 1 = j - 1 => i = j)
  BY <1>1
<1>4. ASSUME Waits(v, a) PROVE Waits(v, b)
  <2>1. ASSUME NEW kind, kind \notin Quiets, Once(a, kind) PROVE Once(b, kind)
    BY <2>1, <1>2, <1>3 DEF Once
  <2>2. Once(b, "snapshot") /\ Once(b, "begin") /\ Once(b, "finish")
    BY <2>1, <1>4 DEF Waits, Quiets
  <2>3. ASSUME NEW i \in DOMAIN b
        PROVE  /\ Is(b, i, "snapshot") => ~v.ready /\ (Active(v) => v.active)
               /\ Is(b, i, "command") /\ b[i].current => v.ready
               /\ Is(b, i, "begin") => Active(v) /\ ~v.gesture.ready
               /\ Is(b, i, "finish") => Active(v) /\ v.gesture.ready /\ v.gesture.ending
    BY <1>2, <1>4 DEF Waits, Quiets
  <2>4. ASSUME NEW i \in DOMAIN b, Is(b, i, "unmatched")
        PROVE  /\ \A j \in DOMAIN b : Is(b, j, "finish") => i < j
               /\ ~Active(v) => ~v.ready /\ \A j \in DOMAIN b : Is(b, j, "snapshot") => i < j
    BY <1>2, <1>3, <1>4, <2>4 DEF Quiets, Waits
  <2> QED
    BY <2>2, <2>3, <2>4 DEF Waits
<1>5. ASSUME NEW i \in DOMAIN b, NEW p, i - 1 \in DOMAIN a, Later(a, i - 1, p) PROVE Later(b, i, p)
  BY <1>1, <1>5 DEF Later, Is
<1>6. ASSUME NEW p, Later(a, 0, p) PROVE Later(b, 0, p)
  <2>1. PICK j \in DOMAIN a : j > 0 /\ Is(a, j, "changed") /\ a[j].path = p
    BY <1>6 DEF Later
  <2>2. j + 1 \in DOMAIN b /\ b[j + 1] = a[j] /\ j + 1 > 0
    BY <2>1, <1>1
  <2> QED
    BY <2>1, <2>2 DEF Later, Is
<1>7. ASSUME News(a, c) PROVE News(b, c)
  <2> SUFFICES ASSUME NEW i \in DOMAIN b
               PROVE  /\ Is(b, i, "changed") => Later(b, i, b[i].path) \/ b[i].entry = c[b[i].path]
                      /\ Is(b, i, "snapshot") => \A p \in Paths : Later(b, i, p) \/ b[i].values[p] = c[p]
    BY DEF News
  <2>1. CASE Is(b, i, "changed")
    BY <1>2, <1>5, <1>7, <2>1 DEF Quiets, News, Is
  <2>2. CASE Is(b, i, "snapshot")
    BY <1>2, <1>5, <1>7, <2>2 DEF Quiets, News, Is
  <2> QED
    BY <2>1, <2>2
<1> QED
  BY <1>4, <1>6, <1>7 DEF UpToDate

\* What is left when the first frame is taken, and what that frame rules out.
LEMMA TailWaits ==
  ASSUME NEW a, NEW b, Shifted(a, b), NEW u, Waits(u, b)
  PROVE  /\ Waits(u, a)
         /\ b[1].kind = "snapshot" => /\ ~u.ready /\ (Active(u) => u.active) /\ No(a, "snapshot")
                                      /\ ~Active(u) => No(a, "unmatched")
         /\ b[1].kind = "command" => (b[1].current => u.ready)
         /\ b[1].kind = "begin" => Active(u) /\ ~u.gesture.ready /\ No(a, "begin")
         /\ b[1].kind = "finish" => /\ Active(u) /\ u.gesture.ready /\ u.gesture.ending
                                    /\ No(a, "finish") /\ No(a, "unmatched")
         /\ b[1].kind = "unmatched" => (~Active(u) => ~u.ready)
<1>1. /\ 1 \in DOMAIN b
      /\ \A i \in DOMAIN a : i + 1 \in DOMAIN b /\ b[i + 1] = a[i]
      /\ DOMAIN a \subseteq Nat \ {0}
  BY ShiftFacts
<1>2. \A kind : \A i \in DOMAIN a : Is(a, i, kind) => i + 1 \in DOMAIN b /\ Is(b, i + 1, kind)
  BY <1>1 DEF Is
<1>3. \A i, j \in DOMAIN a : (i + 1 < j + 1 => i < j) /\ (i + 1 = j + 1 => i = j)
                             /\ 1 < i + 1 /\ 1 # i + 1 /\ ~(i + 1 < 1)
  BY <1>1
<1>4. Waits(u, a)
  <2>1. ASSUME NEW kind, Once(b, kind) PROVE Once(a, kind)
    BY <2>1, <1>2, <1>3 DEF Once
  <2>2. Once(a, "snapshot") /\ Once(a, "begin") /\ Once(a, "finish")
    BY <2>1 DEF Waits
  <2>3. ASSUME NEW i \in DOMAIN a
        PROVE  /\ Is(a, i, "snapshot") => ~u.ready /\ (Active(u) => u.active)
               /\ Is(a, i, "command") /\ a[i].current => u.ready
               /\ Is(a, i, "begin") => Active(u) /\ ~u.gesture.ready
               /\ Is(a, i, "finish") => Active(u) /\ u.gesture.ready /\ u.gesture.ending
    BY <1>1, <1>2 DEF Waits
  <2>4. ASSUME NEW i \in DOMAIN a, Is(a, i, "unmatched")
        PROVE  /\ \A j \in DOMAIN a : Is(a, j, "finish") => i < j
               /\ ~Active(u) => ~u.ready /\ \A j \in DOMAIN a : Is(a, j, "snapshot") => i < j
    BY <1>2, <1>3, <2>4 DEF Waits
  <2> QED
    BY <2>2, <2>3, <2>4 DEF Waits
<1>5. ASSUME NEW kind, Once(b, kind), b[1].kind = kind PROVE No(a, kind)
  BY <1>5, <1>1, <1>2, <1>3 DEF Once, No, Is
<1>6. CASE b[1].kind = "snapshot"
  <2>1. ~u.ready /\ (Active(u) => u.active) /\ No(a, "snapshot")
    BY <1>1, <1>5, <1>6 DEF Waits, Is
  <2>2. ~Active(u) => No(a, "unmatched")
    BY <1>1, <1>2, <1>3, <1>6 DEF No, Waits, Is
  <2> QED
    BY <1>4, <1>6, <2>1, <2>2
<1>7. CASE b[1].kind = "begin"
  BY <1>1, <1>4, <1>5, <1>7 DEF Waits, Is
<1>8. CASE b[1].kind = "finish"
  <2>1. Active(u) /\ u.gesture.ready /\ u.gesture.ending /\ No(a, "finish")
    BY <1>1, <1>5, <1>8 DEF Waits, Is
  <2>2. No(a, "unmatched")
    BY <1>1, <1>2, <1>3, <1>8 DEF No, Waits, Is
  <2> QED
    BY <1>4, <1>8, <2>1, <2>2
<1>9. CASE b[1].kind \notin {"snapshot", "begin", "finish"}
  BY <1>1, <1>4, <1>9 DEF Waits, Is
<1> QED
  BY <1>6, <1>7, <1>8, <1>9

\* Taking the first frame, with the change or the snapshot it brings, leaves the editor up to date with the rest.
LEMMA TailNews ==
  ASSUME NEW a, NEW b, Shifted(a, b), NEW c, News(b, c)
  PROVE  /\ News(a, c)
         /\ b[1].kind = "snapshot" => UpToDate(b[1].values, a, c)
         /\ \A values \in Banks : UpToDate(values, b, c) =>
              IF b[1].kind = "changed" THEN UpToDate([values EXCEPT ![b[1].path] = b[1].entry], a, c)
              ELSE UpToDate(values, a, c)
<1>1. /\ 1 \in DOMAIN b
      /\ \A i \in DOMAIN a : i + 1 \in DOMAIN b /\ b[i + 1] = a[i]
      /\ \A i \in DOMAIN b : i = 1 \/ (i - 1 \in DOMAIN a /\ b[i] = a[i - 1] /\ i > 1)
      /\ DOMAIN a \subseteq Nat \ {0} /\ DOMAIN b \subseteq Nat \ {0}
  BY ShiftFacts
<1>2. ASSUME NEW i \in Nat, NEW p, Later(b, i + 1, p) PROVE Later(a, i, p)
  BY <1>1, <1>2 DEF Later, Is
<1>3. ASSUME NEW p, Later(b, 0, p) PROVE Later(a, 0, p) \/ (Is(b, 1, "changed") /\ b[1].path = p)
  <2>1. PICK j \in DOMAIN b : j > 0 /\ Is(b, j, "changed") /\ b[j].path = p
    BY <1>3 DEF Later
  <2>2. CASE j = 1
    BY <2>1, <2>2
  <2>3. CASE j # 1
    <3>1. j - 1 \in DOMAIN a /\ b[j] = a[j - 1] /\ j - 1 > 0
      BY <2>1, <2>3, <1>1
    <3> QED
      BY <2>1, <3>1 DEF Later, Is
  <2> QED
    BY <2>2, <2>3
<1>4. News(a, c)
  BY <1>1, <1>2 DEF News, Is
<1>5. 0 \in Nat /\ 0 + 1 = 1
  OBVIOUS
<1>6. ASSUME b[1].kind = "snapshot" PROVE UpToDate(b[1].values, a, c)
  <2>1. \A p \in Paths : Later(b, 1, p) \/ b[1].values[p] = c[p]
    BY <1>1, <1>6 DEF News, Is
  <2>2. \A p : Later(b, 1, p) => Later(a, 0, p)
    BY <1>2, <1>5
  <2> QED
    BY <2>1, <2>2 DEF UpToDate
<1>7. ASSUME NEW values, UpToDate(values, b, c), b[1].kind # "changed" PROVE UpToDate(values, a, c)
  BY <1>3, <1>7 DEF UpToDate, Is
<1>8. ASSUME NEW values \in Banks, UpToDate(values, b, c), b[1].kind = "changed"
      PROVE  UpToDate([values EXCEPT ![b[1].path] = b[1].entry], a, c)
  <2> DEFINE w == [values EXCEPT ![b[1].path] = b[1].entry]
  <2> SUFFICES ASSUME NEW p \in Paths, ~Later(a, 0, p) PROVE w[p] = c[p]
    BY DEF UpToDate
  <2>1. CASE p # b[1].path
    <3>1. ~Later(b, 0, p)
      BY <2>1, <1>3
    <3>2. values[p] = c[p]
      BY <3>1, <1>8 DEF UpToDate
    <3> QED
      BY <2>1, <3>2
  <2>2. CASE p = b[1].path
    <3>1. ~Later(b, 1, p)
      BY <1>2, <1>5
    <3>2. b[1].entry = c[p]
      BY <3>1, <2>2, <1>1, <1>8 DEF News, Is
    <3> QED
      BY <2>2, <3>2, <1>8 DEF Banks
  <2> QED
    BY <2>1, <2>2
<1> QED
  BY <1>4, <1>6, <1>7, <1>8

-----------------------------------------------------------------------------
(* The core runs what a handler has sent.                                  *)

\* The core, the frames that wait and the editor agree.
Agree(v, c, fs) ==
    /\ c \in Banks /\ fs \in Seq(Frames) /\ Waits(v, fs) /\ News(fs, c)
    /\ v.ready => UpToDate(v.values, fs, c)

\* What is sent may be answered.
Allowed(v, fs, a) ==
    /\ a \in Commands
    /\ a.kind = "observe" => ~v.ready /\ (Active(v) => v.active) /\ No(fs, "snapshot")
    /\ a.kind = "command" => v.ready
    /\ a.kind = "begin" => Active(v) /\ ~v.gesture.ready /\ No(fs, "begin")
    /\ a.kind = "finish" => Active(v) /\ v.gesture.ready /\ v.gesture.ending /\ No(fs, "finish")
    /\ a.kind \in {"write", "end"} =>
         No(fs, "finish") /\ (~Active(v) => ~v.ready /\ No(fs, "snapshot"))

\* Its answer is of its own kind; what nobody waits for is told when it is refused.
Reply(a) ==
    IF a.kind = "observe" THEN "snapshot"
    ELSE IF a.kind \in {"write", "end"} THEN "unmatched" ELSE a.kind

\* What the commands that are sent are made of.
LEMMA CommandTypes ==
  ASSUME NEW a \in Commands
  PROVE  /\ a.kind \in {"observe", "begin", "end", "write", "finish", "edit", "command"}
         /\ a.values \in Writings \cup ChoiceValues
         /\ a.kind \in Answers => a.scope \in BOOLEAN
BY NoEntriesWriting DEF Answers, Commands

\* The core answers a command that is allowed with at most one frame, and that frame fits.
LEMMA AnswerFacts ==
  ASSUME NEW v, NEW fs, NEW a, Allowed(v, fs, a), NEW c \in Banks, NEW accepted \in BOOLEAN
  PROVE  \/ Answer(c, a, accepted) = << >>
         \/ \E f : /\ Answer(c, a, accepted) = <<f>> /\ Fits(v, fs, f) /\ f.kind = Reply(a)
                   /\ f.kind = "snapshot" => f.values = c
<1>0. /\ a.kind \in {"observe", "begin", "end", "write", "finish", "edit", "command"}
      /\ a.kind \in Answers => a.scope \in BOOLEAN
  BY CommandTypes DEF Allowed
<1>1. CASE a.kind = "observe"
  <2> DEFINE f == [kind |-> "snapshot", accepted |-> accepted, values |-> c]
  <2>1. f \in [kind : {"snapshot"}, accepted : BOOLEAN, values : Banks]
    OBVIOUS
  <2>2. f \in Frames
    BY <2>1 DEF Frames
  <2>3. Answer(c, a, accepted) = <<f>>
    BY <1>1 DEF Answer
  <2>4. f.kind = "snapshot" /\ f.values = c
    OBVIOUS
  <2> HIDE DEF f
  <2> QED
    BY <1>1, <2>2, <2>3, <2>4 DEF Fits, Reply, Allowed
<1>2. CASE a.kind \in Answers
  <2> DEFINE f == [kind |-> a.kind, accepted |-> accepted, current |-> TRUE, scope |-> a.scope]
  <2>1. f \in [kind : {"edit", "command"}, accepted : BOOLEAN, current : BOOLEAN, scope : BOOLEAN]
    BY <1>0, <1>2 DEF Answers
  <2>2. f \in Frames
    BY <2>1 DEF Frames
  <2>3. Answer(c, a, accepted) = <<f>>
    BY <1>2 DEF Answer, Answers
  <2>4. f.kind = a.kind
    OBVIOUS
  <2> HIDE DEF f
  <2> QED
    BY <1>2, <2>2, <2>3, <2>4 DEF Fits, Reply, Allowed, Answers
<1>3. CASE a.kind \in {"begin", "finish"}
  BY <1>3 DEF Frames, Answer, Fits, Reply, Allowed
<1>4. CASE a.kind \in {"write", "end"} /\ accepted
  BY <1>4 DEF Answer
<1>5. CASE a.kind \in {"write", "end"} /\ ~accepted
  BY <1>5 DEF Frames, Answer, Fits, Reply, Allowed
<1> QED
  BY <1>0, <1>1, <1>2, <1>3, <1>4, <1>5 DEF Answers

\* The core runs one command and answers it.
Ran(v, fs, a, r) ==
    \E c, gs : /\ r = [core |-> c, frames |-> gs] /\ Agree(v, c, gs)
               /\ \A kind : kind \notin {"changed", Reply(a)} /\ No(fs, kind) => No(gs, kind)

\* Running one allowed command leaves the editor and the core in agreement.
LEMMA RunFacts ==
  ASSUME NEW v, NEW c, NEW fs, Agree(v, c, fs), NEW a, Allowed(v, fs, a), NEW accepted \in BOOLEAN
  PROVE  Ran(v, fs, a, Run([core |-> c, frames |-> fs], a, accepted))
<1> DEFINE after == IF accepted THEN WithValues(c, a.values) ELSE c
           ch == Changed(c, after)
           gs == fs \o ch
           hs == gs \o Answer(after, a, accepted)
           st == [core |-> c, frames |-> fs]
<1>1. Run(st, a, accepted) = [core |-> after, frames |-> hs]
  <2>1. st.core = c /\ st.frames = fs
    OBVIOUS
  <2> HIDE DEF st
  <2> QED
    BY <2>1, Zenon DEF Run
<1>2. after \in Banks
  <2>1. c \in Banks /\ a.values \in Writings \cup ChoiceValues
    BY CommandTypes DEF Agree, Allowed
  <2> QED
    BY <2>1, WithValuesFacts
<1> HIDE DEF after
<1>3. Told(ch, c, after)
  BY <1>2, ChangedFacts
<1>4. fs \in Seq(Frames) /\ Waits(v, fs) /\ News(fs, c) /\ (v.ready => UpToDate(v.values, fs, c))
  BY DEF Agree
<1> HIDE DEF ch
<1>5. /\ gs \in Seq(Frames) /\ Waits(v, gs)
      /\ \A kind : kind # "changed" /\ No(fs, kind) => No(gs, kind)
      /\ News(gs, after) /\ (v.ready => UpToDate(v.values, gs, after))
  BY <1>3, <1>4, WaitsTold, NewsTold
<1> HIDE DEF gs
<1>6. Allowed(v, gs, a)
  BY <1>5 DEF Allowed
<1>7. CASE Answer(after, a, accepted) = << >>
  <2>1. hs = gs
    BY <1>5, <1>7
  <2>2. Agree(v, after, gs)
    BY <1>2, <1>5 DEF Agree
  <2> QED
    BY <1>1, <1>5, <2>1, <2>2, Zenon DEF Ran
<1>8. CASE \E f : /\ Answer(after, a, accepted) = <<f>> /\ Fits(v, gs, f) /\ f.kind = Reply(a)
                  /\ f.kind = "snapshot" => f.values = after
  <2>1. PICK f : /\ Answer(after, a, accepted) = <<f>> /\ Fits(v, gs, f) /\ f.kind = Reply(a)
                 /\ f.kind = "snapshot" => f.values = after
    BY <1>8
  <2>2. f \in Frames /\ f.kind # "changed"
    BY <2>1 DEF Fits
  <2>3. hs = Append(gs, f)
    BY <1>5, <2>1, <2>2, AppendsOne
  <2> HIDE DEF hs
  <2>4. /\ hs \in Seq(Frames) /\ Waits(v, hs)
        /\ \A kind : f.kind # kind /\ No(gs, kind) => No(hs, kind)
    BY <1>5, <2>1, <2>3, WaitsAppend
  <2>5. News(hs, after) /\ (v.ready => UpToDate(v.values, hs, after))
    BY <1>5, <2>1, <2>2, <2>3, NewsAppend
  <2>6. Agree(v, after, hs)
    BY <1>2, <2>4, <2>5 DEF Agree
  <2>7. \A kind : kind \notin {"changed", Reply(a)} /\ No(fs, kind) => No(hs, kind)
    BY <1>5, <2>1, <2>4
  <2> QED
    BY <1>1, <2>6, <2>7, Zenon DEF Ran
<1> QED
  BY <1>2, <1>6, <1>7, <1>8, AnswerFacts

\* What a handler may send.
Legal(v, fs, out) ==
    \/ out = << >>
    \/ \E a : out = <<a>> /\ Allowed(v, fs, a)
    \/ \E a, b :
         /\ out = <<a, b>> /\ Allowed(v, fs, a)
         /\ \A gs : (\A kind : kind \notin {"changed", Reply(a)} /\ No(fs, kind) => No(gs, kind))
                      => Allowed(v, gs, b)

\* Running all commands of a handler, some of them refused, leaves the editor and the core in agreement.
LEMMA LegalRuns ==
  ASSUME NEW v, NEW c, NEW fs, Agree(v, c, fs), NEW out, Legal(v, fs, out), NEW refused
  PROVE  LET r == Runs([core |-> c, frames |-> fs], out, refused) IN Agree(v, r.core, r.frames)
<1> DEFINE st == [core |-> c, frames |-> fs]
           r == Runs(st, out, refused)
<1>1. CASE out = << >>
  <2>1. Len(out) = 0
    BY <1>1
  <2>2. r = st
    BY <2>1, RunsFacts
  <2> QED
    BY <2>2
<1>2. ASSUME NEW a, out = <<a>>, Allowed(v, fs, a) PROVE Agree(v, r.core, r.frames)
  <2>1. Len(out) = 1 /\ out[1] = a
    BY <1>2
  <2>2. r = Run(st, a, 1 \notin refused)
    BY <2>1, RunsFacts
  <2>3. (1 \notin refused) \in BOOLEAN
    OBVIOUS
  <2>4. Ran(v, fs, a, r)
    BY <1>2, <2>2, <2>3, RunFacts
  <2> HIDE DEF r
  <2> QED
    BY <2>4 DEF Ran
<1>3. ASSUME NEW a, NEW b, out = <<a, b>>, Allowed(v, fs, a),
             \A gs : (\A kind : kind \notin {"changed", Reply(a)} /\ No(fs, kind) => No(gs, kind))
                       => Allowed(v, gs, b)
      PROVE  Agree(v, r.core, r.frames)
  <2>1. Len(out) = 2 /\ out[1] = a /\ out[2] = b
    BY <1>3
  <2> DEFINE s == Run(st, a, 1 \notin refused)
  <2>2. r = Run(s, b, 2 \notin refused)
    BY <2>1, RunsFacts
  <2>3. (1 \notin refused) \in BOOLEAN /\ (2 \notin refused) \in BOOLEAN
    OBVIOUS
  <2>4. Ran(v, fs, a, s)
    BY <1>3, <2>3, RunFacts
  <2> HIDE DEF s
  <2>5. PICK d, gs : /\ s = [core |-> d, frames |-> gs] /\ Agree(v, d, gs)
                     /\ \A kind : kind \notin {"changed", Reply(a)} /\ No(fs, kind) => No(gs, kind)
    BY <2>4, Zenon DEF Ran
  <2>6. Allowed(v, gs, b)
    BY <1>3, <2>5
  <2>7. Ran(v, gs, b, r)
    BY <2>2, <2>3, <2>5, <2>6, RunFacts
  <2> HIDE DEF r
  <2> QED
    BY <2>7 DEF Ran
<1> QED
  BY <1>1, <1>2, <1>3 DEF Legal

\* What the handlers do send is legal once what they outdate is gone.
LEMMA OutsLegal ==
  ASSUME NEW v, NEW w \in Seq(Frames), NEW o, Thinned(v, w, o), Outs(v, w),
         "target" \in v.outdated => ~v.ready
  PROVE  Legal(v, o, v.out)
<1>1. /\ \A kind : No(w, kind) => No(o, kind)
      /\ "target" \in v.outdated => No(o, "snapshot")
      /\ "gesture" \in v.outdated => No(o, "begin") /\ No(o, "finish")
  BY NoOutdate
<1>2. \A x \in Writings : /\ Writing(x) \in Commands /\ Writing(x).kind = "write"
                          /\ Finishing(x) \in Commands /\ Finishing(x).kind = "finish"
  BY DEF Commands, Writing, Finishing
<1>3. /\ Observing \in Commands /\ Observing.kind = "observe"
      /\ Ending \in Commands /\ Ending.kind = "end"
      /\ Beginning \in Commands /\ Beginning.kind = "begin"
  BY DEF Commands, Observing, Ending, Beginning
<1>4. CASE v.out = << >>
  BY <1>4 DEF Legal
<1>5. CASE v.out = <<Observing>> /\ (Active(v) => v.active) /\ "target" \in v.outdated
  BY <1>1, <1>3, <1>5 DEF Legal, Allowed
<1>6. Closing(v, w) => ~Active(v) /\ ~v.ready /\ No(o, "finish") /\ No(o, "snapshot")
  BY <1>1 DEF Closing
<1>7. Closing(v, w) => Allowed(v, o, Ending) /\ \A x \in Writings : Allowed(v, o, Writing(x))
  BY <1>2, <1>3, <1>6 DEF Allowed
<1>8. CASE v.out = <<Ending>> /\ Closing(v, w)
  BY <1>7, <1>8 DEF Legal
<1>9. CASE v.out = <<Ending, Observing>> /\ Closing(v, w) /\ "target" \in v.outdated
  <2>1. ASSUME NEW gs, \A kind : kind \notin {"changed", Reply(Ending)} /\ No(o, kind) => No(gs, kind)
        PROVE  Allowed(v, gs, Observing)
    <3>1. Reply(Ending) = "unmatched"
      BY <1>3 DEF Reply
    <3>2. No(gs, "snapshot")
      BY <2>1, <3>1, <1>6, <1>9
    <3> QED
      BY <3>2, <1>3, <1>6, <1>9 DEF Allowed
  <2> QED
    BY <1>7, <1>9, <2>1 DEF Legal
<1>10. ASSUME NEW x \in Writings, v.out = <<Writing(x), Ending>>, Closing(v, w) PROVE Legal(v, o, v.out)
  <2>1. ASSUME NEW gs, \A kind : kind \notin {"changed", Reply(Writing(x))} /\ No(o, kind) => No(gs, kind)
        PROVE  Allowed(v, gs, Ending)
    <3>1. Reply(Writing(x)) = "unmatched"
      BY <1>2 DEF Reply
    <3>2. No(gs, "snapshot") /\ No(gs, "finish")
      BY <2>1, <3>1, <1>6, <1>10
    <3> QED
      BY <3>2, <1>3, <1>6, <1>10 DEF Allowed
  <2> QED
    BY <1>7, <1>10, <2>1 DEF Legal
<1>11. ASSUME NEW x \in Writings, v.out = <<Writing(x)>>, Active(v), No(w, "finish")
       PROVE  Legal(v, o, v.out)
  <2>1. Allowed(v, o, Writing(x))
    BY <1>1, <1>2, <1>11 DEF Allowed
  <2> QED
    BY <1>11, <2>1 DEF Legal
<1>12. ASSUME NEW x \in Writings, Completing(v, w)
       PROVE  Allowed(v, o, Finishing(x)) /\ Allowed(v, o, Writing(x))
  BY <1>1, <1>2, <1>12 DEF Allowed, Completing
<1>13. ASSUME NEW x \in Writings, v.out = <<Finishing(x)>>, Completing(v, w) PROVE Legal(v, o, v.out)
  BY <1>12, <1>13 DEF Legal
<1>14. ASSUME NEW x \in Writings, v.out = <<Writing(x), Finishing(x)>>, Completing(v, w)
       PROVE  Legal(v, o, v.out)
  <2>1. ASSUME NEW gs, \A kind : kind \notin {"changed", Reply(Writing(x))} /\ No(o, kind) => No(gs, kind)
        PROVE  Allowed(v, gs, Finishing(x))
    <3>1. Reply(Writing(x)) = "unmatched"
      BY <1>2 DEF Reply
    <3>2. No(gs, "finish")
      BY <2>1, <3>1, <1>1, <1>14 DEF Completing
    <3> QED
      BY <3>2, <1>2, <1>14 DEF Allowed, Completing
  <2> QED
    BY <1>12, <1>14, <2>1 DEF Legal
<1>15. ASSUME NEW x \in Writings, v.ready, NEW s \in BOOLEAN,
              v.out = <<[kind |-> "command", values |-> x, scope |-> s]>>
       PROVE  Legal(v, o, v.out)
  BY <1>15 DEF Commands, Allowed, Legal
<1>16. CASE v.out = <<Beginning>> /\ Active(v) /\ v.active /\ ~v.gesture.ready /\ No(w, "begin")
  BY <1>1, <1>3, <1>16 DEF Legal, Allowed
<1>17. ASSUME NEW x \in ChoiceValues, NEW s \in BOOLEAN,
              v.out = <<[kind |-> "edit", values |-> x, scope |-> s]>>
       PROVE  Legal(v, o, v.out)
  BY <1>17 DEF Commands, Allowed, Legal
<1> QED
  BY <1>4, <1>5, <1>8, <1>9, <1>10, <1>11, <1>13, <1>14, <1>15, <1>16, <1>17 DEF Outs

\* What has been sent leaves the editor as the handler left it, and all in agreement.
Sent(v) ==
    /\ Agree(ui', core', frames') /\ UiInv(ui') /\ Idle(ui') /\ rate' = rate
    /\ Same(v, ui', UiFields \ {"out", "outdated"})

\* Handing over what was to be sent keeps the invariant of the editor.
LEMMA EmptiedFacts ==
  ASSUME NEW v, UiInv(v)
  PROVE  LET e == [v EXCEPT !.out = << >>, !.outdated = {}]
         IN  UiInv(e) /\ Idle(e) /\ Same(v, e, UiFields \ {"out", "outdated"})
<1> DEFINE e == [v EXCEPT !.out = << >>, !.outdated = {}]
<1>1. /\ Shaped(e, UiFields) /\ Same(v, e, UiFields \ {"out", "outdated"})
      /\ e.out = << >> /\ e.outdated = {}
  BY Zenon DEF UiInv, UiBase, Raw, UiTypes, Shaped, Same, UiFields
<1> HIDE DEF e
<1>2. /\ e.active = v.active /\ e.busy = v.busy /\ e.ready = v.ready /\ e.scope = v.scope
      /\ e.started = v.started /\ e.focus = v.focus /\ e.values = v.values /\ e.models = v.models
      /\ e.dials = v.dials /\ e.choice = v.choice /\ e.leveling = v.leveling
      /\ e.telemetry = v.telemetry /\ e.source = v.source /\ e.gesture = v.gesture
      /\ e.graph = v.graph /\ Same(v, e, Controls)
  BY <1>1 DEF Same, UiFields, Controls
<1>3. Carried(v, e)
  BY <1>1, <1>2 DEF Carried, UiInv, UiBase, Raw, UiTypes
<1>4. UiInv(e)
  BY <1>2, <1>3, CarriedInv
<1> QED
  BY <1>1, <1>4 DEF Idle, e

\* Sending what a handler leaves to be sent keeps the editor in agreement with the core.
LEMMA Sending ==
  ASSUME NEW v, UiInv(v), NEW w \in Seq(Frames), Outs(v, w), NEW st, Waits(st, w), Turn(st, v),
         core \in Banks, News(w, core), v.ready => UpToDate(v.values, w, core), Sends(v, w)
  PROVE  Sent(v)
<1> DEFINE o == Outdate(v, w)
           e == [v EXCEPT !.out = << >>, !.outdated = {}]
<1>1. Thinned(v, w, o)
  BY OutdateFacts
<1>2. PICK refused \in SUBSET DOMAIN v.out :
        LET after == Runs([core |-> core, frames |-> o], v.out, refused)
        IN  ui' = e /\ core' = after.core /\ frames' = after.frames /\ rate' = rate
  BY Zenon DEF Sends
<1>3. o \in Seq(Frames)
  BY <1>1 DEF Thinned
<1> HIDE DEF o
<1>4. Agree(v, core, o)
  BY <1>1, <1>3, WaitsOutdate, NewsOutdate DEF Agree
<1>5. Legal(v, o, v.out)
  BY <1>1, OutsLegal DEF Turn
<1>6. Agree(v, core', frames')
  BY <1>2, <1>4, <1>5, LegalRuns
<1>7. UiInv(e) /\ Idle(e) /\ Same(v, e, UiFields \ {"out", "outdated"})
  BY EmptiedFacts
<1>8. ui' = e
  BY <1>2
<1> HIDE DEF e
<1>9. ui'.ready = v.ready /\ ui'.active = v.active /\ ui'.gesture = v.gesture /\ ui'.values = v.values
  BY <1>7, <1>8 DEF Same, UiFields
<1>10. Agree(ui', core', frames')
  <2>1. Waits(ui', frames')
    BY <1>6, <1>9 DEF Agree, Waits, Active
  <2> QED
    BY <1>6, <1>9, <2>1 DEF Agree
<1> QED
  BY <1>2, <1>7, <1>8, <1>10 DEF Sent

\* Whose hand the gesture is in does not depend on what is sent.
LEMMA HoldsSent ==
  ASSUME NEW v, Sent(v), NEW x
  PROVE  Holds(v, x) <=> Holds(ui', x)
<1>1. ui'.gesture = v.gesture /\ ui'.started = v.started /\ ui'.graph = v.graph /\ ui'.dials = v.dials
  BY DEF Sent, Same, UiFields
<1> QED
  BY <1>1 DEF Holds, In, Editing, Active

\* The invariant, in the words of the handlers.
LEMMA IInvFacts ==
  /\ IInv <=> /\ Agree(ui, core, frames) /\ UiInv(ui) /\ Idle(ui) /\ Holds(ui, pointer)
              /\ rate \in Nat /\ pointer \in {NoPointer, Graph} \cup Strip
  /\ IInv' <=> /\ Agree(ui', core', frames') /\ UiInv(ui') /\ Idle(ui') /\ Holds(ui', pointer')
               /\ rate' \in Nat /\ pointer' \in {NoPointer, Graph} \cup Strip
<1>1. /\ Gripped <=> Holds(ui, pointer)
      /\ Gripped' <=> Holds(ui', pointer')
  BY DEF Gripped, Holds, Held, In
<1> QED
  BY <1>1 DEF IInv, Types, FrameInv, NewsInv, Agree, Idle

\* A handler of the user or of a timer: nothing waiting is taken.
LEMMA ActionKeeps ==
  ASSUME IInv, NEW v, Moved(ui, v, frames), Sends(v, frames),
         pointer' \in {NoPointer, Graph} \cup Strip, Holds(v, pointer')
  PROVE  IInv'
<1>1. Agree(ui, core, frames) /\ rate \in Nat
  BY IInvFacts
<1>2. Sent(v)
  BY <1>1, Sending DEF Agree, Moved
<1>3. Holds(ui', pointer') /\ rate' \in Nat
  BY <1>1, <1>2, HoldsSent DEF Sent
<1> QED
  BY <1>2, <1>3, IInvFacts DEF Sent

\* One that leaves the pointer alone and does not take the gesture from it.
LEMMA HandledKeeps ==
  ASSUME IInv, NEW v, Handled(ui, v, frames), Sends(v, frames), UNCHANGED pointer
  PROVE  IInv'
BY IInvFacts, MovedHandled, GripKeeps, ActionKeeps

-----------------------------------------------------------------------------
(* Every action keeps the invariant: the editor's own and the pointer's.   *)

\* What the handlers may rely on.
LEMMA Before ==
  ASSUME IInv
  PROVE  /\ UiInv(ui) /\ Idle(ui) /\ Waits(ui, frames) /\ Holds(ui, pointer)
         /\ rate \in Nat /\ pointer \in {NoPointer, Graph} \cup Strip
         /\ core \in Banks /\ frames \in Seq(Frames) /\ News(frames, core)
         /\ ui.ready => UpToDate(ui.values, frames, core)
BY IInvFacts DEF Agree

\* The pointer moves on to something that is in nobody's hand.
LEMMA LetGo ==
  ASSUME IInv, pointer \notin {Graph} \cup Dials, NEW v, Handled(ui, v, frames), NEW x
  PROVE  Moved(ui, v, frames) /\ Holds(v, x)
<1>1. Moved(ui, v, frames) /\ Grip(ui, v)
  BY MovedHandled
<1>2. Editing(v) => v.started
  BY <1>1, Before, GripKeeps
<1> QED
  BY <1>1, <1>2 DEF Holds

\* The flush timer, which sends the last value of a gesture, keeps the invariant.
LEMMA FlushTimerKeeps == ASSUME IInv, FlushTimer PROVE IInv'
<1>1. Editing(ui) /\ Sends(Flush(ui), frames) /\ UNCHANGED pointer
  BY DEF FlushTimer
<1>2. Handled(ui, Flush(ui), frames)
  BY <1>1, Before, HandledFlush
<1> QED
  BY <1>1, <1>2, HandledKeeps

\* Another editor taking the activation keeps the invariant.
LEMMA AnotherActivatesKeeps == ASSUME IInv, AnotherActivates PROVE IInv'
<1>1. Sends(Deactivated(ui), frames) /\ UNCHANGED pointer
  BY DEF AnotherActivates
<1>2. Handled(ui, Deactivated(ui), frames)
  BY Before, HandledDeactivated
<1> QED
  BY <1>1, <1>2, HandledKeeps

\* The banks of the other instances arriving keeps the invariant.
LEMMA BanksArriveKeeps == ASSUME IInv, BanksArrive PROVE IInv'
<1> DEFINE v == [ui EXCEPT !.graph = ApplyBankSnapshots(@)]
<1>1. Sends(v, frames) /\ UNCHANGED pointer
  BY DEF BanksArrive
<1>2. Handled(ui, v, frames)
  BY Before, HandledBanks
<1> QED
  BY <1>1, <1>2, HandledKeeps

\* Opening the editor keeps the invariant.
LEMMA ActivateKeeps == ASSUME IInv, Activate PROVE IInv'
<1> DEFINE gone == [kind |-> "gone"]
           w == IF ui.lost THEN Append(frames, gone) ELSE frames
           v == Observe([Cancel(ui) EXCEPT !.active = TRUE])
<1>1. ~ui.active /\ Sends(v, w) /\ UNCHANGED pointer
  BY DEF Activate
<1> HIDE DEF v
<1>2. Handled(ui, v, w)
  BY <1>1, Before, HandledActivate DEF v
<1>3. gone \in Frames /\ gone.kind = "gone"
  BY DEF Frames
<1>4. Fits(ui, frames, gone)
  BY <1>3 DEF Fits
<1> HIDE DEF gone
<1>5. /\ w \in Seq(Frames) /\ Waits(ui, w) /\ News(w, core)
      /\ ui.ready => UpToDate(ui.values, w, core)
  <2>1. CASE ~ui.lost
    BY <2>1, Before
  <2>2. CASE ui.lost
    BY <2>2, <1>3, <1>4, Before, WaitsAppend, NewsAppend
  <2> QED
    BY <2>1, <2>2
<1> HIDE DEF w
<1>6. Moved(ui, v, w) /\ Grip(ui, v)
  BY <1>2, MovedHandled
<1>7. Sent(v)
  BY <1>1, <1>5, <1>6, Before, Sending DEF Moved
<1>8. Holds(ui', pointer')
  BY <1>1, <1>6, <1>7, Before, GripKeeps, HoldsSent
<1> QED
  BY <1>1, <1>7, <1>8, Before, IInvFacts DEF Sent

\* Pressing a dial keeps the invariant: it starts the gesture its frames belong to.
LEMMA DialDownKeeps == ASSUME IInv, NEW d \in Dials, DialDown(d) PROVE IInv'
BY Before, DialDownFacts, ActionKeeps, PathFacts DEF DialDown

\* Turning a dial keeps the invariant.
LEMMA DialDragKeeps == ASSUME IInv, NEW d \in Dials, DialDrag(d) PROVE IInv'
<1>1. /\ pointer = d /\ UNCHANGED pointer /\ ui.dials[d].dragging /\ Editable(ui, d)
      /\ \E delta \in {-1, Top}, rough \in BOOLEAN :
           LET range == EditingRange(ui.models[d], ui.scope)
               position == Clamp(ui.dials[d].position + delta, Normalize(range[1]),
                                 Normalize(range[2]))
               next == Quantize(position, rough, range)
               moved == [ui EXCEPT !.dials[d].position = position]
           IN  Sends(IF next = DisplayValue(ui.dials[d], ui.models[d]) THEN moved
                     ELSE Change([moved EXCEPT !.dials[d].preview = next],
                                 With(d, next, NoEntries)), frames)
  BY Zenon DEF DialDrag
<1>2. PICK delta \in {-1, Top}, rough \in BOOLEAN :
           LET range == EditingRange(ui.models[d], ui.scope)
               position == Clamp(ui.dials[d].position + delta, Normalize(range[1]),
                                 Normalize(range[2]))
               next == Quantize(position, rough, range)
               moved == [ui EXCEPT !.dials[d].position = position]
           IN  Sends(IF next = DisplayValue(ui.dials[d], ui.models[d]) THEN moved
                     ELSE Change([moved EXCEPT !.dials[d].preview = next],
                                 With(d, next, NoEntries)), frames)
  BY <1>1, Zenon
<1> DEFINE range == EditingRange(ui.models[d], ui.scope)
           position == Clamp(ui.dials[d].position + delta, Normalize(range[1]),
                             Normalize(range[2]))
           next == Quantize(position, rough, range)
           moved == [ui EXCEPT !.dials[d].position = position]
           v == IF next = DisplayValue(ui.dials[d], ui.models[d]) THEN moved
                ELSE Change([moved EXCEPT !.dials[d].preview = next], With(d, next, NoEntries))
<1>3. Sends(v, frames)
  BY <1>2, Zenon
<1>4. delta \in Int
  BY ScaleAssumption, SMTT(30)
<1>5. Handled(ui, v, frames)
  BY <1>1, <1>4, Before, DialDragFacts
<1> HIDE DEF v
<1> QED
  BY <1>1, <1>3, <1>5, HandledKeeps

\* Releasing a dial keeps the invariant: the gesture ends or waits for its beginning.
LEMMA DialUpKeeps == ASSUME IInv, NEW d \in Dials, DialUp(d) PROVE IInv'
BY Before, DialUpFacts, ActionKeeps DEF DialUp

\* A reset of any continuous paths keeps the invariant.
LEMMA ResetKeeps ==
  ASSUME IInv, NEW S \in SUBSET Continuous, Sends(ResetValue(ui, S), frames), UNCHANGED pointer
  PROVE  IInv'
<1>1. Handled(ui, ResetValue(ui, S), frames)
  BY Before, ResetFacts
<1> QED
  BY <1>1, HandledKeeps

\* Resetting a dial keeps the invariant.
LEMMA DialResetKeeps == ASSUME IInv, NEW d \in Dials, DialReset(d) PROVE IInv'
<1>1. Sends(ResetValue(ui, {d}), frames) /\ UNCHANGED pointer
  BY DEF DialReset
<1> QED
  BY <1>1, ResetKeeps, PathFacts

\* Clicking the leveler keeps the invariant.
LEMMA ClickLevelerKeeps == ASSUME IInv, ClickLeveler PROVE IInv'
BY Before, EditableFacts, PathFacts, CommitFacts, HandledKeeps DEF ClickLeveler, Bits, Same

\* Pressing the choice keeps the invariant.
LEMMA ChoiceDownKeeps == ASSUME IInv, ChoiceDown PROVE IInv'
BY Before, EditableFacts, PathFacts, ChoiceHeld, LetGo, ActionKeeps DEF ChoiceDown

\* Dragging over the choice keeps the invariant.
LEMMA ChoiceDragKeeps == ASSUME IInv, ChoiceDrag PROVE IInv'
BY Before, ChoiceDragFacts, HandledKeeps DEF ChoiceDrag, Bits

\* Releasing the choice keeps the invariant.
LEMMA ChoiceUpKeeps == ASSUME IInv, ChoiceUp PROVE IInv'
BY Before, ChoiceHeld, PathFacts, ControlsAssumption, LetGo, ActionKeeps DEF ChoiceUp

\* Pressing a handle of the graph keeps the invariant.
LEMMA GraphDownKeeps == ASSUME IInv, NEW h \in Handles, GraphDown(h) PROVE IInv'
<1> DEFINE held == [ui EXCEPT !.graph = BeginPreview(@, h)]
           begun == BeginGesture(held, h, Graph, held.graph.preview)
           v == IF CanBegin(ui) THEN [begun EXCEPT !.graph.dragging = TRUE]
                ELSE [held EXCEPT !.graph = FinishGraphPreview(@)]
<1>1. pointer = NoPointer /\ Sends(v, frames) /\ pointer' = Graph
  BY DEF GraphDown
<1>2. /\ ui.graph.ready /\ ui.graphOn /\ ~ui.graph.dragging /\ h \in Shown(ui.graph.context)
  BY SMTT(30) DEF GraphDown, GraphFree
<1>3. Moved(ui, v, frames) /\ Holds(v, Graph)
  BY <1>1, <1>2, Before, GraphDownFacts
<1> HIDE DEF v
<1> QED
  BY <1>1, <1>3, ActionKeeps

\* Dragging a handle of the graph keeps the invariant.
LEMMA GraphDragKeeps == ASSUME IInv, GraphDrag PROVE IInv'
<1> DEFINE h == ui.graph.selected
           v(m) == SetGestureValues([ui EXCEPT !.graph = m], m.preview)
<1>1. PICK m \in {Move(ui.graph, h, x) : x \in {0, Top}}
                    \cup IF h \in DOMAIN Q THEN {ChangeQ(ui.graph, h, 1)} ELSE {} :
         ui.graph.dragging /\ Sends(v(m), frames) /\ UNCHANGED pointer
  BY Zenon DEF GraphDrag
<1>2. \/ \E x \in Int : m = Move(ui.graph, h, x)
      \/ h \in DOMAIN Q /\ m = ChangeQ(ui.graph, h, 1)
  BY <1>1, ScaleAssumption
<1>3. Handled(ui, v(m), frames)
  BY <1>1, <1>2, Before, GraphDragFacts
<1> HIDE DEF v
<1> QED
  BY <1>1, <1>3, HandledKeeps

\* Releasing a handle of the graph keeps the invariant.
LEMMA GraphUpKeeps == ASSUME IInv, GraphUp PROVE IInv'
BY Before, GraphUpFacts, ActionKeeps DEF GraphUp

\* Resetting a handle of the graph keeps the invariant.
LEMMA GraphResetKeeps == ASSUME IInv, NEW h \in Handles, GraphReset(h) PROVE IInv'
<1>1. Sends(ResetValue(ui, Parameters(h)), frames) /\ UNCHANGED pointer
  BY DEF GraphReset
<1> QED
  BY <1>1, ResetKeeps, PathFacts

\* Selecting the source the graph shows keeps the invariant.
LEMMA SelectSourceKeeps == ASSUME IInv, SelectSource PROVE IInv'
BY Before, HandledSource, HandledKeeps DEF SelectSource

\* Switching the scope between the instance and its group keeps the invariant.
LEMMA ToggleScopeKeeps == ASSUME IInv, ToggleScope PROVE IInv'
BY Before, HandledScope, HandledKeeps DEF ToggleScope, UiInv, UiBase, Raw, UiTypes

-----------------------------------------------------------------------------
(* The frames that arrive, and those that are taken.                       *)

\* What the frames that wait are made of.
LEMMA FrameTypes ==
  ASSUME NEW f \in Frames
  PROVE  /\ f.kind \in {"snapshot", "edit", "command", "begin", "finish", "unmatched", "restored",
                        "ungrouped", "gone", "unfit", "changed", "telemetry", "spectrum", "rate"}
         /\ f.kind = "snapshot" => f.accepted \in BOOLEAN /\ f.values \in Banks
         /\ f.kind \in {"begin", "finish"} => f.accepted \in BOOLEAN
         /\ f.kind = "changed" => f.path \in Paths /\ f.entry \in EntriesOf(f.path)
         /\ f.kind = "rate" => f.rate \in Nat \ {0}
BY DEF Frames

\* An event outside the editor keeps the invariant when the editor agrees with the core it leaves.
LEMMA EventKeeps ==
  ASSUME IInv, NEW new, NEW queue, Event(new, queue), rate' \in Nat, Agree(ui, new, queue)
  PROVE  IInv'
BY Before, IInvFacts DEF Event

\* A change of the bank that is told path by path keeps the invariant.
LEMMA ChangeArrives ==
  ASSUME IInv, NEW new \in Banks, Event(new, frames \o Changed(core, new)), rate' = rate
  PROVE  IInv'
<1> DEFINE ch == Changed(core, new)
<1>1. Told(ch, core, new)
  BY ChangedFacts
<1> HIDE DEF ch
<1>2. Agree(ui, new, frames \o ch)
  BY <1>1, Before, WaitsTold, NewsTold DEF Agree
<1> QED
  BY <1>2, Before, EventKeeps DEF ch

\* A change made elsewhere keeps the invariant.
LEMMA ChangeElsewhereKeeps == ASSUME IInv, ChangeElsewhere PROVE IInv'
<1>1. PICK p \in Paths :
       LET new == [core EXCEPT ![p].value = IF @ = 0 THEN 1 ELSE 0]
           narrowed == [core EXCEPT ![p].range = IF @ = <<0, Top>> THEN <<1, 1>> ELSE <<0, Top>>]
       IN  /\ \/ Event(new, frames \o Changed(core, new))
              \/ p \notin Discrete /\ Event(narrowed, frames \o Changed(core, narrowed))
           /\ UNCHANGED rate
  BY Zenon DEF ChangeElsewhere
<1> DEFINE new == [core EXCEPT ![p].value = IF @ = 0 THEN 1 ELSE 0]
           narrowed == [core EXCEPT ![p].range = IF @ = <<0, Top>> THEN <<1, 1>> ELSE <<0, Top>>]
<1>2. core \in Banks /\ core[p] \in Entries /\ core[p] \in EntriesOf(p)
  BY Before DEF Banks
<1>3. 0 \in Values /\ 1 \in Values /\ Top \in Values
  BY ScaleAssumption DEF Values
<1>4. new \in Banks
  BY <1>2, <1>3, BankWith DEF Entries, Bits, EntriesOf
<1>5. narrowed \in Banks
  BY <1>2, <1>3, ScaleAssumption, BankWith DEF Ranges, Entries, EntriesOf
<1>6. rate' = rate /\ (Event(new, frames \o Changed(core, new))
                         \/ Event(narrowed, frames \o Changed(core, narrowed)))
  BY <1>1, Zenon
<1> HIDE DEF new, narrowed
<1> QED
  BY <1>4, <1>5, <1>6, ChangeArrives

\* Notifications fit any editor, first or last.
LEMMA QuietArrives ==
  ASSUME IInv, NEW f \in Frames, f.kind \in Quiets
  PROVE  Agree(ui, core, Append(frames, f)) /\ Agree(ui, core, <<f>> \o frames)
<1>1. f.kind \notin {"changed", "snapshot", "command", "begin", "finish", "unmatched"}
  BY DEF Quiets
<1>2. Fits(ui, frames, f)
  BY <1>1 DEF Fits
<1>3. Agree(ui, core, Append(frames, f))
  BY <1>1, <1>2, Before, WaitsAppend, NewsAppend DEF Agree
<1> DEFINE q == <<f>> \o frames
<1>4. Shifted(frames, q) /\ q[1] = f
  BY Before, PutShifted
<1> HIDE DEF q
<1>5. q \in Seq(Frames)
  BY <1>4 DEF Shifted
<1>6. Agree(ui, core, q)
  BY <1>4, <1>5, Before, QuietFirst DEF Agree
<1> QED
  BY <1>3, <1>6 DEF q

\* A notification of the session keeps the invariant.
LEMMA NotificationKeeps == ASSUME IInv, Notification PROVE IInv'
BY Before, QuietArrives, EventKeeps DEF Notification, Frames, Quiets, Instances, Overtaking

\* A new sample rate keeps the invariant.
LEMMA PrepareToPlayKeeps == ASSUME IInv, PrepareToPlay PROVE IInv'
<1>1. PICK r \in (rate + 1)..2 : rate' = r /\ Overtaking([kind |-> "rate", rate |-> r])
  BY DEF PrepareToPlay
<1>2. r \in Nat \ {0}
  BY <1>1, Before
<1> DEFINE f == [kind |-> "rate", rate |-> r]
<1>3. f \in Frames /\ f.kind \in Quiets
  BY <1>2 DEF Frames, Quiets
<1> HIDE DEF f
<1>4. Event(core, <<f>> \o frames) \/ Event(core, Append(frames, f))
  BY <1>1 DEF Overtaking, f
<1> QED
  BY <1>1, <1>2, <1>3, <1>4, QuietArrives, EventKeeps

\* A measurement keeps the invariant.
LEMMA TelemetryKeeps == ASSUME IInv, Telemetry PROVE IInv'
<1> DEFINE f == [kind |-> "telemetry", target |-> ui.focus]
<1>1. /\ frames = << >> /\ frames' = <<f>> /\ core' = core /\ rate' = rate
      /\ ui' = ui /\ pointer' = pointer
  BY DEF Telemetry
<1>2. ui.focus \in Instances
  BY Before DEF UiInv, UiBase, Raw, UiTypes
<1>3. f \in Frames /\ f.kind \in Quiets
  BY <1>2 DEF Frames, Quiets
<1> HIDE DEF f
<1>4. Agree(ui, core, Append(frames, f))
  BY <1>3, QuietArrives
<1>5. Append(frames, f) = frames'
  BY <1>1, Appends
<1>6. Agree(ui', core', frames')
  BY <1>1, <1>4, <1>5
<1> QED
  BY <1>1, <1>6, Before, IInvFacts

\* What a handler may make of the first frame, given the others.
Taken(v, f, t) ==
    /\ Left(ui, v, t)
    /\ v.ready => UpToDate(v.values, t, core)
    /\ f.kind = "snapshot" => (Editing(v) => v.started)

\* A frame is taken when its handler keeps the conditions and the editor stays up to date.
LEMMA TakenHandled ==
  ASSUME NEW v, NEW f, NEW t, Handled(ui, v, t), Waits(ui, t), f.kind # "snapshot",
         ui.ready => UpToDate(ui.values, t, core)
  PROVE  Taken(v, f, t)
BY DEF Handled, Taken, Left, Turn

\* Whatever frame is first, routing it takes it: one step per kind of frame.
LEMMA RouteTaken ==
  ASSUME IInv, NEW t, Shifted(t, frames), NEW f, f = frames[1], NEW error \in BOOLEAN
  PROVE  Taken(RouteOutput(ui, f, error), f, t)
<1> DEFINE v == RouteOutput(ui, f, error)
<1>0. f \in Frames
  <2>1. 1 \in DOMAIN frames /\ frames \in Seq(Frames)
    BY ShiftFacts, Before
  <2> QED
    BY <2>1
<1>1. /\ f.kind \in {"snapshot", "edit", "command", "begin", "finish", "unmatched", "restored",
                     "ungrouped", "gone", "unfit", "changed", "telemetry", "spectrum", "rate"}
      /\ f.kind = "snapshot" => f.accepted \in BOOLEAN /\ f.values \in Banks
      /\ f.kind \in {"begin", "finish"} => f.accepted \in BOOLEAN
      /\ f.kind = "changed" => f.path \in Paths /\ f.entry \in EntriesOf(f.path)
      /\ f.kind = "rate" => f.rate \in Nat \ {0}
  BY <1>0, FrameTypes
<1>2. /\ Waits(ui, t)
      /\ f.kind = "snapshot" => /\ ~ui.ready /\ (Active(ui) => ui.active) /\ No(t, "snapshot")
                                /\ ~Active(ui) => No(t, "unmatched")
      /\ f.kind = "command" => (f.current => ui.ready)
      /\ f.kind = "begin" => Active(ui) /\ ~ui.gesture.ready /\ No(t, "begin")
      /\ f.kind = "finish" => /\ Active(ui) /\ ui.gesture.ready /\ ui.gesture.ending
                              /\ No(t, "finish") /\ No(t, "unmatched")
      /\ f.kind = "unmatched" => (~Active(ui) => ~ui.ready)
  BY Before, TailWaits
<1>3. ui.ready => ui.values \in Banks
  BY Before DEF UiInv, UiBase, Known
<1>4. /\ f.kind = "snapshot" => UpToDate(f.values, t, core)
      /\ ui.ready => IF f.kind = "changed"
                     THEN UpToDate([ui.values EXCEPT ![f.path] = f.entry], t, core)
                     ELSE UpToDate(ui.values, t, core)
  BY <1>3, Before, TailNews
<1>5. UiInv(ui) /\ Idle(ui) /\ rate \in Nat
  BY Before
<1>6. CASE f.kind = "begin"
  <2>1. v = BeginAnswered(ui, f.accepted)
    BY <1>6 DEF RouteOutput
  <2>2. Left(ui, v, t) /\ (v.ready => ui.ready /\ v.values = ui.values)
    BY <1>1, <1>2, <1>5, <1>6, <2>1, HandledBegin
  <2> HIDE DEF v
  <2> QED
    BY <1>4, <1>6, <2>2 DEF Taken, v
<1>7. CASE f.kind = "finish"
  <2>1. v = GestureFinished(ui, f.accepted)
    BY <1>7 DEF RouteOutput
  <2>2. Left(ui, v, t) /\ (v.ready => ui.ready /\ v.values = ui.values)
    BY <1>1, <1>2, <1>5, <1>7, <2>1, HandledFinish
  <2> HIDE DEF v
  <2> QED
    BY <1>4, <1>7, <2>2 DEF Taken, v
<1>8. CASE f.kind = "snapshot"
  BY <1>1, <1>2, <1>4, <1>5, <1>8, HandledSnapshot DEF RouteOutput, Taken, v
<1>9. CASE f.kind = "changed"
  BY <1>1, <1>2, <1>4, <1>5, <1>9, HandledChanged DEF RouteOutput, Turn, Left, Taken, v
<1>10. CASE f.kind \in {"edit", "command", "unmatched", "restored", "ungrouped", "gone", "unfit",
                        "telemetry", "spectrum", "rate"}
  <2>1. Handled(ui, v, t)
    <3>1. CASE f.kind = "edit"
      BY <1>5, <3>1, HandledCommitted DEF RouteOutput
    <3>2. CASE f.kind = "command"
      BY <1>2, <1>5, <3>2, HandledCommand DEF RouteOutput
    <3>3. CASE f.kind = "unmatched"
      BY <1>2, <1>5, <3>3, HandledUnmatched DEF RouteOutput
    <3>4. CASE f.kind = "restored"
      BY <1>2, <1>5, <3>4, HandledRestored DEF RouteOutput
    <3>5. CASE f.kind = "ungrouped"
      BY <1>2, <1>5, <3>5, HandledUngrouped DEF RouteOutput
    <3>6. CASE f.kind = "gone"
      BY <1>2, <1>5, <3>6, HandledGone DEF RouteOutput
    <3>7. CASE f.kind = "unfit"
      BY <1>5, <3>7, HandledUnfit DEF RouteOutput
    <3>8. CASE f.kind = "telemetry"
      BY <1>5, <3>8, HandledTelemetry DEF RouteOutput
    <3>9. CASE f.kind = "spectrum"
      BY <1>5, <3>9, HandledSpectrum DEF RouteOutput
    <3>10. CASE f.kind = "rate"
      BY <1>1, <1>5, <3>10, HandledRate DEF RouteOutput
    <3> QED
      BY <1>10, <3>1, <3>2, <3>3, <3>4, <3>5, <3>6, <3>7, <3>8, <3>9, <3>10
  <2> HIDE DEF v
  <2>2. f.kind # "snapshot" /\ (ui.ready => UpToDate(ui.values, t, core))
    BY <1>4, <1>10
  <2> QED
    BY <1>2, <2>1, <2>2, TakenHandled DEF v
<1> QED
  BY <1>1, <1>6, <1>7, <1>8, <1>9, <1>10

\* Handling the first frame that waits keeps the invariant.
LEMMA HandleOutputKeeps == ASSUME IInv, HandleOutput PROVE IInv'
<1> DEFINE f == Head(frames)
           t == Tail(frames)
<1>1. frames # << >>
  BY DEF HandleOutput
<1>2. Shifted(t, frames) /\ f = frames[1]
  BY <1>1, Before, TailShifted
<1>3. PICK error \in BOOLEAN : Sends(RouteOutput(ui, f, error), t)
  BY Zenon DEF HandleOutput
<1>4. pointer' = IF f.kind = "snapshot" /\ ui'.ready /\ pointer \in Strip THEN NoPointer ELSE pointer
  BY Zenon DEF HandleOutput
<1> DEFINE v == RouteOutput(ui, f, error)
<1> HIDE DEF f, t
<1>5. Taken(v, f, t)
  BY <1>2, RouteTaken
<1>6. Sends(v, t)
  BY <1>3
<1> HIDE DEF v
<1>7. t \in Seq(Frames)
  BY <1>2 DEF Shifted
<1>8. News(t, core)
  BY <1>2, Before, TailNews
<1>9. Sent(v)
  <2>1. PICK st : Waits(st, t) /\ Turn(st, v)
    BY <1>5 DEF Taken, Left
  <2> QED
    BY <1>5, <1>6, <1>7, <1>8, <2>1, Before, Sending DEF Taken, Left
<1>10. Holds(v, pointer')
  <2>1. CASE f.kind = "snapshot"
    BY <1>5, <2>1 DEF Taken, Holds
  <2>2. CASE f.kind # "snapshot"
    BY <1>4, <1>5, <2>2, Before, GripKeeps DEF Taken, Left
  <2> QED
    BY <2>1, <2>2
<1>11. Holds(ui', pointer') /\ rate' \in Nat /\ pointer' \in {NoPointer, Graph} \cup Strip
  BY <1>4, <1>9, <1>10, Before, HoldsSent DEF Sent
<1> QED
  BY <1>9, <1>11, IInvFacts DEF Sent

-----------------------------------------------------------------------------
(* The invariant, and what follows from it.                                *)

\* A new editor satisfies its invariant.
LEMMA NewUiInv ==
  UiInv([NewUi EXCEPT !.active = FALSE]) /\ Idle([NewUi EXCEPT !.active = FALSE])
    /\ ~Active([NewUi EXCEPT !.active = FALSE]) /\ ~[NewUi EXCEPT !.active = FALSE].ready
<1> DEFINE u == [NewUi EXCEPT !.active = FALSE]
<1>1. Shaped(NewGraph, GraphFields)
  BY Zenon DEF Shaped, NewGraph, GraphFields
<1>2. /\ NewGraph.context = NoContext /\ NewGraph.entries = NoEntries /\ NewGraph.preview = NoEntries
      /\ NewGraph.q = None /\ NewGraph.rate = 0 /\ NewGraph.ready = FALSE /\ NewGraph.all = None
      /\ NewGraph.dragging = FALSE /\ NewGraph.spectrum = None
  BY DEF NewGraph
<1>3. GraphInv(NewGraph)
  <2>1. /\ NewGraph.ready \in BOOLEAN /\ NewGraph.dragging \in BOOLEAN
        /\ ~NewGraph.ready /\ ~NewGraph.dragging
    BY <1>2
  <2>2. NewGraph.preview \in Writings /\ NewGraph.rate \in Nat
    BY <1>2, NoEntriesWriting
  <2> QED
    BY <1>1, <1>2, <2>1, <2>2 DEF GraphInv
<1>4. Shaped(u, UiFields)
  <2>1. Shaped(NewUi, UiFields)
    BY Zenon DEF Shaped, NewUi, UiFields
  <2> QED
    BY <2>1, Zenon DEF Shaped, UiFields
<1>5. /\ u.active = FALSE /\ u.busy = TRUE /\ u.focus = Peer /\ u.scope = TRUE /\ u.ready = FALSE
      /\ u.values = NoEntries /\ u.models = NoEntries /\ u.dials = [d \in Dials |-> NewDial]
      /\ u.choice = None /\ u.telemetry = None /\ u.enabled = {} /\ u.on = {}
      /\ u.graphOn = FALSE /\ u.navigation = FALSE /\ u.graph = NewGraph /\ u.gesture = NoGesture
      /\ u.started = FALSE /\ u.outdated = {} /\ u.out = << >>
  BY DEF NewUi
<1> HIDE DEF u
<1>6. NewDial \in DialStates /\ ~Previewing(NewDial) /\ ~NewDial.dragging
  BY DEF NewDial, DialStates, Previewing
<1>7. ~Active(u)
  BY <1>5, GestureFacts DEF Active
<1>8. Raw(u)
  <2>1. u.dials \in [Dials -> DialStates] /\ DialsHeld(u)
    BY <1>5, <1>6 DEF DialsHeld
  <2> QED
    BY <1>3, <1>4, <1>5, <2>1 DEF Raw, UiTypes, Instances, Gestures
<1>9. Known(u) /\ Measures(u) /\ GraphHeld(u) /\ Restarted(u) /\ Enabled(u)
  BY <1>2, <1>5, <1>7 DEF Known, Measures, GraphHeld, Restarted, Enabled, Editing
<1> QED
  BY <1>5, <1>7, <1>8, <1>9 DEF UiInv, UiBase, Idle, u

\* The invariant holds initially.
LEMMA InitKeeps == Init => IInv
<1> SUFFICES ASSUME Init PROVE IInv
  OBVIOUS
<1>1. UiInv(ui) /\ Idle(ui) /\ ~Active(ui) /\ ~ui.ready
  BY NewUiInv DEF Init
<1>2. frames = << >> /\ pointer = NoPointer /\ rate \in Nat
  BY DEF Init
<1>3. core \in Banks
  <2> DEFINE e(p) == [value |-> IF p \in Discrete THEN 0 ELSE 1, range |-> <<0, Top>>]
  <2>1. core = [p \in Paths |-> e(p)]
    BY DEF Init
  <2>2. 0 \in Values /\ 1 \in Values /\ <<0, Top>> \in Ranges
    BY ScaleAssumption DEF Values, Ranges
  <2>3. \A p \in Paths : e(p) \in Entries /\ e(p) \in EntriesOf(p)
    BY <2>2 DEF Entries, EntriesOf, Bits
  <2> HIDE DEF e
  <2> QED
    BY <2>1, <2>3 DEF Banks
<1>4. DOMAIN frames = {} /\ frames \in Seq(Frames)
  BY <1>2
<1>5. Waits(ui, frames) /\ News(frames, core)
  BY <1>4 DEF Waits, News, Once
<1>6. Agree(ui, core, frames) /\ Holds(ui, pointer)
  BY <1>1, <1>3, <1>4, <1>5 DEF Agree, Holds, Editing
<1> QED
  BY <1>1, <1>2, <1>6, IInvFacts

\* Every step keeps the invariant: one step of the proof per action.
LEMMA NextKeeps == IInv /\ [Next]_vars => IInv'
<1> SUFFICES ASSUME IInv, [Next]_vars PROVE IInv'
  OBVIOUS
<1>1. CASE UNCHANGED vars
  <2>1. /\ core' = core /\ rate' = rate /\ ui' = ui /\ frames' = frames /\ pointer' = pointer
    BY <1>1 DEF vars
  <2> QED
    BY <2>1, IInvFacts
<1>2. CASE HandleOutput
  BY <1>2, HandleOutputKeeps
<1>3. CASE Activate
  BY <1>3, ActivateKeeps
<1>4. CASE AnotherActivates
  BY <1>4, AnotherActivatesKeeps
<1>5. CASE FlushTimer
  BY <1>5, FlushTimerKeeps
<1>6. CASE BanksArrive
  BY <1>6, BanksArriveKeeps
<1>7. CASE \E d \in Dials : DialDown(d) \/ DialDrag(d) \/ DialReset(d)
  BY <1>7, DialDownKeeps, DialDragKeeps, DialResetKeeps
<1>8. CASE ClickLeveler \/ ChoiceDown \/ ChoiceDrag
  BY <1>8, ClickLevelerKeeps, ChoiceDownKeeps, ChoiceDragKeeps
<1>9. CASE \E h \in Handles : GraphDown(h) \/ GraphReset(h)
  BY <1>9, GraphDownKeeps, GraphResetKeeps
<1>10. CASE GraphDrag \/ SelectSource \/ ToggleScope
  BY <1>10, GraphDragKeeps, SelectSourceKeeps, ToggleScopeKeeps
<1>11. CASE Release
  BY <1>11, DialUpKeeps, ChoiceUpKeeps, GraphUpKeeps DEF Release
<1>12. CASE ChangeElsewhere \/ Notification \/ Telemetry \/ PrepareToPlay
  BY <1>12, ChangeElsewhereKeeps, NotificationKeeps, TelemetryKeeps, PrepareToPlayKeeps
<1> QED
  BY <1>1, <1>2, <1>3, <1>4, <1>5, <1>6, <1>7, <1>8, <1>9, <1>10, <1>11, <1>12 DEF Next

\* What holds of the editor, the pointer, the core and the frames that wait is kept
\* by every handler of the editor's message thread.
THEOREM Invariance == Spec => []IInv
<1>1. Init => IInv
  BY InitKeeps
<1>2. IInv /\ [Next]_vars => IInv'
  BY NextKeeps
<1> QED
  BY <1>1, <1>2, PTL DEF Spec

\* The invariant implies that an open gesture is held.
LEMMA HeldFollows == IInv => GestureHeld
<1> SUFFICES ASSUME IInv PROVE GestureHeld
  OBVIOUS
<1>1. Editing(ui) => ui.started \/ Held(ui)
  BY DEF IInv, Gripped
<1>2. UiInv(ui)
  BY DEF IInv
<1>3. DialsHeld(ui) /\ GraphHeld(ui) /\ Enabled(ui)
  BY <1>2 DEF UiInv, UiBase, Raw
<1> QED
  BY <1>1, <1>3 DEF GestureHeld, DialsHeld, GraphHeld, Enabled

\* The invariant implies that what is shown is accepted.
LEMMA ShownFollows == IInv => ShownIsAccepted
<1> SUFFICES ASSUME IInv PROVE ShownIsAccepted
  OBVIOUS
<1>1. UiInv(ui)
  BY DEF IInv
<1>2. UiTypes(ui) /\ GraphInv(ui.graph) /\ Known(ui) /\ Measures(ui)
  BY <1>1 DEF UiInv, UiBase, Raw
<1>3. ASSUME ui.ready, frames = << >> PROVE ui.values = core
  <2>1. ui.values \in Banks /\ core \in Banks /\ UpToDate(ui.values, frames, core)
    BY <1>2, <1>3, Before DEF Known
  <2>2. \A p : ~Later(frames, 0, p)
    <3>1. DOMAIN frames = {}
      BY <1>3
    <3> QED
      BY <3>1 DEF Later
  <2>3. \A p \in Paths : ui.values[p] = core[p]
    BY <2>1, <2>2 DEF UpToDate
  <2> QED
    BY <2>1, <2>3 DEF Banks
<1>5. \A d \in Dials : Previewing(ui.dials[d]) => ui.dials[d].preview \in Values
  BY <1>2 DEF UiTypes, DialStates, Previewing
<1>6. {ui.telemetry, ui.graph.spectrum} \subseteq {None, ui.focus}
  BY <1>2 DEF Measures
<1>7. ui.graph.all \in {None, ui.graph.curves} /\ (ui.graph.ready => ui.graph.curves = Responses(ui.graph))
  BY <1>2 DEF GraphInv
<1> QED
  BY <1>2, <1>3, <1>5, <1>6, <1>7 DEF ShownIsAccepted, Known

\* An open gesture stays in the hand of the control that began it, nothing else is
\* dragged or previews a value, and nothing is enabled without the values its
\* handlers need, whatever answers and notifications do to the controls.
THEOREM GestureIsHeld == Spec => []GestureHeld
BY Invariance, HeldFollows, PTL

\* The strip and the graph show the values of the bank as they are known, and, once
\* every frame is taken, as the core has accepted them; what is dragged stays within
\* the scale, and what is measured is of the instance in focus.
THEOREM ShowsAccepted == Spec => []ShownIsAccepted
BY Invariance, ShownFollows, PTL
=============================================================================
