-------------------------- MODULE EditorFeedProofs --------------------------
(***************************************************************************)
(* Proofs about EditorFeed.                                                *)
(*                                                                         *)
(* The editor is a record that a handler rewrites in several steps, and    *)
(* the core is what its commands meet when they are executed, later.  The  *)
(* invariant of the editor is therefore stated of any record, with the     *)
(* core, the commands on their way and the frames on theirs around it;     *)
(* each operator of EditorPresentation keeps it, and so do the steps of    *)
(* the core.  A second invariant follows the registry: what the editor     *)
(* holds of it, with the notices and the answer that are on their way to   *)
(* it, is what the core holds.                                             *)
(***************************************************************************)
EXTENDS EditorFeed, FiniteSetTheorems, WellFoundedInduction, TLAPS

-----------------------------------------------------------------------------
(* Types.                                                                  *)

EditorFields ==
    {"unopened", "initialized", "active", "owner", "busy", "focus", "scope", "pending",
     "registry", "target", "analyzer", "curve", "restored", "used", "out"}
TargetFields == {"target", "requests", "accepted", "staged", "values", "ready"}

Shaped(r, fields) == r = [f \in fields |-> r[f]]
Same(r, s, fields) == \A f \in fields : s[f] = r[f]

ContextSet == ToSet(Contexts)
Selectors == {"initialize", "set_instance_active", "activate_another", "registry",
              "observe_target", "observe_banks", "write", "command", "group_banks",
              "ungroup_banks"}
CommandContexts == ContextSet \cup Instances \cup {NoContext, Closing}

Commands ==
    {c \in [selector : Selectors, request : Nat, target : Instances, context : CommandContexts] :
        /\ c.selector \in {"observe_target", "write"} => c.context \in ContextSet
        /\ c.selector = "group_banks" => c.context \in Instances}

Kinds == {"initialize", "connect", "write", "command", "group", "ungroup"}
Completions == [request : Nat, kind : Kinds, current : BOOLEAN, scope : BOOLEAN, front : Instances]

Rows == [group : BOOLEAN]
Answers ==
    [selector : {"action_done"}, request : Nat, accepted : BOOLEAN]
      \cup [selector : {"error"}, request : Nat]
      \cup [selector : {"target_state_snapshot"}, request : Nat, target : Instances,
            context : ContextSet, value : BOOLEAN]
      \cup [selector : {"bank_state_snapshots"}, request : Nat, target : Instances, value : BOOLEAN]
      \cup [selector : {"registry_begin"}, request : Nat, revision : Nat, count : Nat]
      \cup [selector : {"registry_instance"}, request : Nat, instance : Instances, row : Rows]
      \cup [selector : {"registry_done"}, request : Nat, revision : Nat]
Deltas(change, of) ==
    [selector : {"registry_changed"}, previous : Nat, revision : Nat, instance : Instances,
     change : {change}, value : of]
Notifications ==
    [selector : {"state_changed"}, context : ContextSet, value : BOOLEAN]
      \cup Deltas("group", BOOLEAN) \cup Deltas("added", Rows) \cup Deltas("removed", {NoRows})
Frames == Answers \cup Notifications

Stages == {"present", "removed", "read", "numbered", "gone"}

CoreTypes ==
    /\ live \subseteq Instances /\ Own \in live
    /\ grouped \subseteq Instances
    /\ values \in [Instances -> [ContextSet -> BOOLEAN]]
    /\ selection \in Instances /\ watched \in {"no", "registering", "yes"} /\ revision \in Nat
    /\ leaving \in [Peers -> [stage : Stages, previous : Nat, revision : Nat]]
    /\ restore \in {"none", "returning"}
    /\ inbox \in Seq(Commands) /\ reply \in Seq(Frames) /\ frames \in Seq(Frames)

TargetTypes(t) ==
    /\ Shaped(t, TargetFields)
    /\ t.target \in Instances /\ IsFiniteSet(DOMAIN t.requests)

EditorTypes(e) ==
    /\ Shaped(e, EditorFields)
    /\ e.unopened \in BOOLEAN /\ e.initialized \in BOOLEAN /\ e.active \in BOOLEAN
    /\ e.owner \in BOOLEAN /\ e.busy \in BOOLEAN /\ e.scope \in BOOLEAN /\ e.restored \in BOOLEAN
    /\ e.focus \in Instances
    /\ e.pending \subseteq Completions /\ IsFiniteSet(e.pending)
    /\ TargetTypes(e.target)
    /\ e.out \in Seq(Commands)

-----------------------------------------------------------------------------
(* The inductive invariant.                                                *)

Asks(c) == c.selector = "observe_target"

\* The ids of the values of a bank that are on their way, as an answer.
ToldIn(s) == {s[n].request : n \in {m \in DOMAIN s : s[m].selector = "target_state_snapshot"}}
Told == ToldIn(frames) \cup ToldIn(reply)

\* The core has answered one of the requests for the bank.
Turned(t, told) == t.accepted # {} \/ told \cap DOMAIN t.requests # {}

\* The core looks at the bank from its first answer on, and no command on its way
\* makes it look at another one; one that asks for this bank is followed by such only.
Landing(box, told, s, t) ==
    /\ t.ready => t.accepted # {}
    /\ Turned(t, told) =>
         s = t.target /\ \A n \in DOMAIN box : Asks(box[n]) => box[n].target = t.target
    /\ \A m, n \in DOMAIN box :
         m <= n /\ Asks(box[m]) /\ Asks(box[n]) /\ box[m].request \in DOMAIN t.requests =>
           box[n].target = t.target

\* A write on its way is for the bank the core looks at, and the core still looks at
\* it when it is the turn of the write.
Writes(box, s) ==
    \A n \in DOMAIN box : box[n].selector = "write" =>
      /\ box[n].target = s
      /\ \A m \in DOMAIN box : m < n /\ Asks(box[m]) => box[m].target = s

\* An editor that lets the user edit, or will when an edit is accepted, has the
\* values of the bank in focus.
Sure(e) ==
    /\ e.active => e.target.target = e.focus
    /\ e.active /\ (~e.busy \/ \E p \in e.pending : IsEdit(p) /\ p.current) => e.target.ready

Box(e) == inbox \o e.out

\* The ids of all that is on its way.
Fresh(e) ==
    /\ IsFiniteSet(e.used)
    /\ Ids(inbox) \cup Ids(reply) \cup Ids(frames) \cup Ids(e.out) \subseteq e.used
    /\ DOMAIN e.target.requests \subseteq e.used

\* What holds in the middle of a handler, with and without its last part.
Loose(e) ==
    /\ EditorTypes(e) /\ Fresh(e)
    /\ Landing(Box(e), Told, selection, e.target) /\ Writes(Box(e), selection)
Settled(e) == Loose(e) /\ Sure(e)

IInv ==
    /\ CoreTypes /\ EditorTypes(editor) /\ editor.out = << >> /\ editor.used = {}
    /\ Landing(inbox, Told, selection, editor.target) /\ Writes(inbox, selection)
    /\ Sure(editor)

-----------------------------------------------------------------------------
(* Recursive functions and sequences.                                      *)

\* Every non-empty set of naturals has a least element.
LEMMA LeastElement == ASSUME NEW T \in SUBSET Nat, T # {} PROVE \E x \in T : \A y \in T : x <= y
<1> DEFINE Below == {p \in Nat \X Nat : p[1] < p[2]}
<1>1. OpToRel(<, Nat) = Below
  BY Zenon DEF OpToRel
<1>2. IsWellFoundedOn(Below, Nat)
  BY <1>1, NatLessThanWellFounded, Zenon
<1>3. \A x, y \in Nat : y < x => <<y, x>> \in Below
  OBVIOUS
<1> HIDE DEF Below
<1>4. PICK x \in T : \A y \in T : ~(<<y, x>> \in Below)
  BY <1>2, WFMin
<1>5. \A y \in T : ~(y < x)
  <2> TAKE y \in T
  <2>1. x \in Nat /\ y \in Nat /\ ~(<<y, x>> \in Below)
    BY <1>4
  <2> QED
    BY <2>1, <1>3
<1> QED
  BY <1>5

\* A set with zero that is closed under successor up to a number has all up to it.
LEMMA Induction ==
  ASSUME NEW N \in Nat, NEW S, 0 \in S, \A n \in 0..N : n \in S /\ n < N => n + 1 \in S
  PROVE  \A n \in 0..N : n \in S
<1> DEFINE T == {n \in 0..N : n \notin S}
<1> SUFFICES ASSUME T # {} PROVE FALSE
  OBVIOUS
<1>1. T \in SUBSET Nat
  OBVIOUS
<1>2. PICK x \in T : \A y \in T : x <= y
  BY <1>1, LeastElement
<1>3. x - 1 \in 0..N /\ x - 1 < N /\ x - 1 \notin T
  BY <1>2
<1> QED
  BY <1>2, <1>3

\* What is kept of a sequence are the elements at the positions, in their order.
Picks(r, s, I) ==
    \E o \in [1..Len(r) -> I] :
        /\ \A k \in 1..Len(r) : r[k] = s[o[k]]
        /\ \A j, k \in 1..Len(r) : j < k => o[j] < o[k]
        /\ \A i \in I : \E k \in 1..Len(r) : o[k] = i

\* What Kept leaves of a sequence is its elements at the kept positions, in their order.
LEMMA KeptFacts ==
  ASSUME NEW C, NEW s \in Seq(C), NEW I \in SUBSET (DOMAIN s)
  PROVE  Kept(s, I) \in Seq(C) /\ Picks(Kept(s, I), s, I)
<1> DEFINE Step(f, n) == IF n = 0 THEN << >>
                        ELSE IF n \in I THEN Append(f[n - 1], s[n]) ELSE f[n - 1]
           Rec(f, m) == f = [n \in 0..m |-> Step(f, n)]
           Good(r, m) == r \in Seq(C) /\ Picks(r, s, I \cap (1..m))
           S == {m \in 0..Len(s) : \E f : Rec(f, m) /\ Good(f[m], m)}
<1>0. Len(s) \in Nat /\ DOMAIN s = 1..Len(s)
  OBVIOUS
<1>1. 0 \in S
  <2> DEFINE f == [n \in 0..0 |-> << >>]
  <2>1. Rec(f, 0)
    OBVIOUS
  <2>2. f[0] = << >> /\ I \cap (1..0) = {} /\ Len(<< >>) = 0 /\ << >> \in Seq(C)
    OBVIOUS
  <2>3. Picks(<< >>, s, {})
    <3> DEFINE o == [k \in 1..0 |-> 0]
    <3>1. o \in [1..0 -> {}]
      OBVIOUS
    <3> QED
      BY <3>1 DEF Picks
  <2>4. Good(f[0], 0)
    BY <2>2, <2>3
  <2> HIDE DEF f, Rec, Good
  <2> QED
    BY <2>1, <2>4, <1>0
<1>2. ASSUME NEW m \in 0..Len(s), m \in S, m < Len(s) PROVE m + 1 \in S
  <2>1. PICK f : Rec(f, m) /\ Good(f[m], m)
    BY <1>2
  <2> DEFINE next == IF m + 1 \in I THEN Append(f[m], s[m + 1]) ELSE f[m]
             g == [n \in 0..(m + 1) |-> IF n = m + 1 THEN next ELSE f[n]]
  <2>2. \A n \in 0..m : g[n] = f[n] /\ f[n] = Step(f, n)
    <3>1. \A n \in 0..m : f[n] = Step(f, n)
      BY <2>1, Zenon
    <3>2. \A n \in 0..m : g[n] = f[n]
      OBVIOUS
    <3> QED
      BY <3>1, <3>2
  <2>3. Rec(g, m + 1)
    <3>1. \A n \in 0..(m + 1) : g[n] = Step(g, n)
      <4> TAKE n \in 0..(m + 1)
      <4>1. CASE n = m + 1
        BY <4>1, <2>2
      <4>2. CASE n # m + 1
        <5>1. n \in 0..m /\ (n # 0 => n - 1 \in 0..m)
          BY <4>2
        <5>2. g[n] = f[n] /\ f[n] = Step(f, n) /\ (n # 0 => g[n - 1] = f[n - 1])
          BY <5>1, <2>2
        <5>3. Step(g, n) = Step(f, n)
          BY <5>2
        <5> QED
          BY <5>2, <5>3
      <4> QED
        BY <4>1, <4>2
    <3> QED
      BY <3>1
  <2>4. Good(next, m + 1)
    <3> DEFINE r == f[m]
    <3>1. r \in Seq(C) /\ Picks(r, s, I \cap (1..m))
      BY <2>1
    <3>2. PICK o \in [1..Len(r) -> I \cap (1..m)] :
            /\ \A k \in 1..Len(r) : r[k] = s[o[k]]
            /\ \A j, k \in 1..Len(r) : j < k => o[j] < o[k]
            /\ \A i \in I \cap (1..m) : \E k \in 1..Len(r) : o[k] = i
      BY <3>1 DEF Picks
    <3> HIDE DEF r
    <3>3. CASE m + 1 \notin I
      <4>1. I \cap (1..(m + 1)) = I \cap (1..m) /\ next = r
        BY <3>3 DEF r
      <4> QED
        BY <4>1, <3>1
    <3>4. CASE m + 1 \in I
      <4> DEFINE a == Append(r, s[m + 1])
                 p == [k \in 1..(Len(r) + 1) |-> IF k = Len(r) + 1 THEN m + 1 ELSE o[k]]
      <4>1. next = a /\ s[m + 1] \in C /\ Len(r) \in Nat
        BY <3>4, <3>1 DEF r
      <4>2. a \in Seq(C) /\ Len(a) = Len(r) + 1 /\ a[Len(r) + 1] = s[m + 1]
            /\ \A k \in 1..Len(r) : a[k] = r[k]
        BY <4>1, <3>1
      <4> HIDE DEF a
      <4>3. p \in [1..Len(a) -> I \cap (1..(m + 1))]
        BY <4>2, <4>1, <3>4, <3>2
      <4>4. \A k \in 1..Len(a) : a[k] = s[p[k]]
        <5> TAKE k \in 1..Len(a)
        <5>1. CASE k = Len(r) + 1
          BY <5>1, <4>2
        <5>2. CASE k # Len(r) + 1
          BY <3>2, <4>1, <4>2, <5>2
        <5> QED
          BY <5>1, <5>2
      <4>5. \A j, k \in 1..Len(a) : j < k => p[j] < p[k]
        <5> SUFFICES ASSUME NEW j \in 1..Len(a), NEW k \in 1..Len(a), j < k PROVE p[j] < p[k]
          OBVIOUS
        <5>0. j \in 1..Len(r) /\ j # Len(r) + 1
          BY <4>1, <4>2
        <5>1. j \in 1..Len(r) /\ p[j] = o[j] /\ o[j] \in 1..m
          BY <5>0, <3>2
        <5>2. CASE k = Len(r) + 1
          BY <5>1, <5>2, <4>2, <4>1
        <5>3. CASE k # Len(r) + 1
          <6>0. k \in 1..Len(a) /\ Len(r) \in Nat /\ Len(a) = Len(r) + 1 /\ k # Len(r) + 1
            BY <5>3, <4>1, <4>2
          <6>1. k \in 1..Len(r) /\ p[k] = o[k]
            BY <6>0
          <6> QED
            BY <6>1, <5>1, <3>2
        <5> QED
          BY <5>2, <5>3
      <4>6. \A i \in I \cap (1..(m + 1)) : \E k \in 1..Len(a) : p[k] = i
        <5> TAKE i \in I \cap (1..(m + 1))
        <5>1. CASE i = m + 1
          BY <5>1, <4>1, <4>2
        <5>2. CASE i # m + 1
          BY <3>2, <4>1, <4>2, <5>2
        <5> QED
          BY <5>1, <5>2
      <4> HIDE DEF p
      <4>7. Picks(a, s, I \cap (1..(m + 1)))
        BY <4>3, <4>4, <4>5, <4>6 DEF Picks
      <4> QED
        BY <4>7, <4>1, <4>2
    <3> QED
      BY <3>3, <3>4
  <2>5. g[m + 1] = next /\ m + 1 \in 0..Len(s)
    BY <1>2
  <2> HIDE DEF g, next, Rec, Good
  <2> QED
    BY <2>3, <2>4, <2>5
<1>3. \A m \in 0..Len(s) : m \in S
  <2> HIDE DEF S
  <2> QED
    BY <1>0, <1>1, <1>2, Induction
<1>4. PICK f : Rec(f, Len(s)) /\ Good(f[Len(s)], Len(s))
  <2>1. Len(s) \in S
    <3> HIDE DEF S
    <3> QED
      BY <1>3, <1>0
  <2> QED
    BY <2>1, Zenon
<1> DEFINE k == CHOOSE f1 : Rec(f1, Len(s))
<1>5. Rec(k, Len(s))
  BY <1>4
<1>6. \A n \in 0..Len(s) : k[n] = f[n]
  <2> DEFINE E == {n \in 0..Len(s) : k[n] = f[n]}
  <2>1. \A n \in 0..Len(s) : k[n] = Step(k, n) /\ f[n] = Step(f, n)
    BY <1>4, <1>5
  <2>2. 0 \in E
    BY <2>1, <1>0
  <2>3. ASSUME NEW n \in 0..Len(s), n \in E, n < Len(s) PROVE n + 1 \in E
    <3>1. n + 1 \in 0..Len(s) /\ n + 1 # 0 /\ (n + 1) - 1 = n /\ k[n] = f[n]
      BY <2>3, <1>0
    <3> QED
      BY <3>1, <2>1
  <2>4. \A n \in 0..Len(s) : n \in E
    <3> HIDE DEF E
    <3> QED
      BY <1>0, <2>2, <2>3, Induction
  <2> QED
    BY <2>4, SMTT(30)
<1>7. Kept(s, I) = k[Len(s)]
  BY DEF Kept
<1>8. I \cap (1..Len(s)) = I
  BY <1>0
<1>9. Good(f[Len(s)], Len(s)) /\ k[Len(s)] = f[Len(s)]
  BY <1>4, <1>6, <1>0
<1> HIDE DEF k, Step, Rec
<1> QED
  BY <1>9, <1>7, <1>8

-----------------------------------------------------------------------------
(* Sequences, finite sets and request ids.                                 *)

\* One more command.
LEMMA Appends ==
  ASSUME NEW C, NEW s \in Seq(C), NEW r \in Seq(C), NEW c \in C
  PROVE  /\ Append(r, c) \in Seq(C) /\ s \o r \in Seq(C) /\ s \o Append(r, c) = Append(s \o r, c)
         /\ Len(Append(r, c)) = Len(r) + 1 /\ Append(r, c)[Len(r) + 1] = c
         /\ \A n \in DOMAIN r : Append(r, c)[n] = r[n]
         /\ DOMAIN Append(r, c) = DOMAIN r \cup {Len(r) + 1} /\ DOMAIN r = 1..Len(r)
OBVIOUS

\* Two sequences in a row.
LEMMA Joins ==
  ASSUME NEW C, NEW s \in Seq(C), NEW r \in Seq(C)
  PROVE  /\ s \o r \in Seq(C) /\ Len(s \o r) = Len(s) + Len(r)
         /\ DOMAIN s = 1..Len(s) /\ DOMAIN r = 1..Len(r) /\ DOMAIN (s \o r) = 1..(Len(s) + Len(r))
         /\ \A n \in DOMAIN s : (s \o r)[n] = s[n] /\ n \in DOMAIN (s \o r)
         /\ \A n \in DOMAIN r : (s \o r)[Len(s) + n] = r[n] /\ Len(s) + n \in DOMAIN (s \o r)
         /\ \A n \in DOMAIN (s \o r) :
              (n \in DOMAIN s /\ (s \o r)[n] = s[n])
              \/ (n - Len(s) \in DOMAIN r /\ (s \o r)[n] = r[n - Len(s)])
OBVIOUS

\* The rest of a sequence.
LEMMA Tails ==
  ASSUME NEW C, NEW s \in Seq(C), s # << >>
  PROVE  /\ Tail(s) \in Seq(C) /\ Head(s) = s[1] /\ Head(s) \in C /\ 1 \in DOMAIN s
         /\ \A n \in DOMAIN Tail(s) : n + 1 \in DOMAIN s /\ Tail(s)[n] = s[n + 1] /\ n \in Nat \ {0}
         /\ \A n \in DOMAIN s : n # 1 => n - 1 \in DOMAIN Tail(s) /\ Tail(s)[n - 1] = s[n]
OBVIOUS

\* Behind another sequence, whose elements are all kept.
LEMMA KeptBehind ==
  ASSUME NEW C, NEW a \in Seq(C), NEW s \in Seq(C), NEW I \in SUBSET (DOMAIN s)
  PROVE  Picks(a \o Kept(s, I), a \o s, (1..Len(a)) \cup {Len(a) + i : i \in I})
<1> DEFINE r == Kept(s, I)
           box == a \o s
           less == a \o r
           l == Len(a)
           J == (1..l) \cup {l + i : i \in I}
<1>1. r \in Seq(C) /\ Picks(r, s, I)
  BY KeptFacts
<1> HIDE DEF r
<1>2. PICK k \in [1..Len(r) -> I] :
        /\ \A n \in 1..Len(r) : r[n] = s[k[n]]
        /\ \A m, n \in 1..Len(r) : m < n => k[m] < k[n]
        /\ \A i \in I : \E n \in 1..Len(r) : k[n] = i
  BY <1>1 DEF Picks
<1> DEFINE o == [n \in 1..Len(less) |-> IF n <= l THEN n ELSE l + k[n - l]]
<1>3. /\ l \in Nat /\ Len(r) \in Nat /\ Len(s) \in Nat /\ DOMAIN s = 1..Len(s)
      /\ Len(less) = l + Len(r)
      /\ \A n \in 1..l : box[n] = a[n] /\ less[n] = a[n]
      /\ \A n \in 1..Len(r) : less[l + n] = r[n]
      /\ \A n \in 1..Len(s) : box[l + n] = s[n]
  BY <1>1
<1>4. I \subseteq 1..Len(s) /\ \A n \in 1..Len(r) : k[n] \in I /\ k[n] \in 1..Len(s)
  BY <1>2, <1>3
<1> HIDE DEF box, less, l, J
<1>5. \A n \in 1..Len(less) : IF n <= l THEN n \in 1..l
                              ELSE n - l \in 1..Len(r) /\ n = l + (n - l)
  BY <1>3
<1>6. ASSUME NEW n \in 1..Len(less) PROVE o[n] \in J /\ less[n] = box[o[n]]
  <2>1. CASE n <= l
    BY <2>1, <1>3, <1>5 DEF J
  <2>2. CASE ~(n <= l)
    <3>1. n - l \in 1..Len(r) /\ n = l + (n - l) /\ o[n] = l + k[n - l]
      BY <2>2, <1>5
    <3>2. less[n] = s[k[n - l]] /\ k[n - l] \in I /\ k[n - l] \in 1..Len(s)
      BY <3>1, <1>2, <1>3, <1>4
    <3> QED
      BY <3>1, <3>2, <1>3 DEF J
  <2> QED
    BY <2>1, <2>2
<1>7. ASSUME NEW m \in 1..Len(less), NEW n \in 1..Len(less), m < n PROVE o[m] < o[n]
  <2>1. CASE n <= l
    BY <2>1, <1>3, <1>7
  <2>2. CASE ~(n <= l) /\ m <= l
    BY <2>2, <1>3, <1>4, <1>5
  <2>3. CASE ~(n <= l) /\ ~(m <= l)
    <3>1. m - l \in 1..Len(r) /\ n - l \in 1..Len(r) /\ m - l < n - l
      BY <2>3, <1>3, <1>7
    <3>2. k[m - l] < k[n - l] /\ k[m - l] \in 1..Len(s) /\ k[n - l] \in 1..Len(s)
      BY <3>1, <1>2, <1>4
    <3> QED
      BY <2>3, <3>2, <1>3
  <2> QED
    BY <2>1, <2>2, <2>3, <1>3
<1>8. ASSUME NEW j \in J PROVE \E n \in 1..Len(less) : o[n] = j
  <2>1. CASE j \in 1..l
    BY <2>1, <1>3
  <2>2. CASE j \notin 1..l
    <3>1. PICK i \in I : j = l + i
      BY <2>2 DEF J
    <3>2. PICK n \in 1..Len(r) : k[n] = i
      BY <1>2
    <3>3. l + n \in 1..Len(less) /\ ~(l + n <= l) /\ (l + n) - l = n
      BY <1>3
    <3> QED
      BY <3>1, <3>2, <3>3
  <2> QED
    BY <2>1, <2>2
<1>9. o \in [1..Len(less) -> J]
  BY <1>6
<1> HIDE DEF o
<1>10. Picks(less, box, J)
  BY <1>6, <1>7, <1>8, <1>9 DEF Picks
<1> QED
  BY <1>10 DEF box, less, l, r, J

\* The image of a finite set is finite.
LEMMA ImageFinite ==
  ASSUME NEW S, IsFiniteSet(S), NEW f, DOMAIN f = S
  PROVE  IsFiniteSet({f[x] : x \in S})
<1> DEFINE T == {f[x] : x \in S}
           g == [x \in S |-> f[x]]
<1>1. g \in Surjection(S, T)
  BY DEF Surjection
<1> QED
  BY <1>1, FS_Surjection

\* A sequence has finitely many ids.
LEMMA IdsFinite ==
  ASSUME NEW C, NEW s \in Seq(C)
  PROVE  IsFiniteSet(Ids(s))
<1> DEFINE M == {m \in DOMAIN s : "request" \in DOMAIN s[m]}
           f == [n \in M |-> s[n].request]
<1>1. IsFiniteSet(DOMAIN s)
  <2>1. Len(s) \in Nat /\ DOMAIN s = 1..Len(s)
    OBVIOUS
  <2> QED
    BY <2>1, FS_Interval
<1>2. IsFiniteSet(M)
  BY <1>1, FS_Subset
<1>3. IsFiniteSet({f[x] : x \in M})
  BY <1>2, ImageFinite
<1>4. Ids(s) = {f[x] : x \in M}
  BY DEF Ids
<1> QED
  BY <1>3, <1>4

\* A finite set leaves an id for the next request.
LEMMA NextIdFacts ==
  ASSUME NEW e, IsFiniteSet(e.used)
  PROVE  NextId(e) \in Nat /\ NextId(e) \notin e.used
<1> DEFINE k == Cardinality(e.used)
<1>1. k \in Nat
  BY FS_CardinalityType
<1>2. \E n \in 1..(k + 1) : n \notin e.used
  <2> SUFFICES ASSUME 1..(k + 1) \subseteq e.used PROVE FALSE
    OBVIOUS
  <2>1. Cardinality(1..(k + 1)) <= k
    BY FS_Subset
  <2>2. Cardinality(1..(k + 1)) = k + 1
    BY <1>1, FS_Interval
  <2> HIDE DEF k
  <2> QED
    BY <2>1, <2>2, <1>1
<1>3. NextId(e) \in 1..(k + 1) /\ NextId(e) \notin e.used
  BY <1>2 DEF NextId
<1> QED
  BY <1>1, <1>3

\* The elements of a finite set in some order.
LEMMA SetToSeqFacts ==
  ASSUME NEW S, IsFiniteSet(S)
  PROVE  /\ SetToSeq(S) \in Seq(S) /\ Len(SetToSeq(S)) = Cardinality(S)
         /\ Cardinality(S) \in Nat /\ DOMAIN SetToSeq(S) = 1..Cardinality(S)
         /\ \A m, n \in DOMAIN SetToSeq(S) : SetToSeq(S)[m] = SetToSeq(S)[n] => m = n
         /\ \A x \in S : \E n \in DOMAIN SetToSeq(S) : SetToSeq(S)[n] = x
<1> DEFINE k == Cardinality(S)
           f == SetToSeq(S)
<1>1. k \in Nat /\ ExistsBijection(1..k, S)
  BY FS_CardinalityType
<1>2. \E g \in [1..k -> S] : IsInjective(g)
  BY <1>1 DEF ExistsBijection, Bijection, Injection, IsInjective
<1>3. f \in [1..k -> S] /\ IsInjective(f)
  BY <1>2 DEF SetToSeq
<1> HIDE DEF f, k
<1>4. \A m, n \in DOMAIN f : f[m] = f[n] => m = n
  BY <1>3 DEF IsInjective
<1>5. f \in Injection(1..k, S)
  BY <1>3, <1>4 DEF Injection, IsInjective
<1>6. IsFiniteSet(1..k) /\ Cardinality(1..k) = k
  BY <1>1, FS_Interval
<1>7. f \in Surjection(1..k, S)
  BY <1>5, <1>6, FS_Injection DEF k
<1>8. f \in Seq(S) /\ Len(f) = k
  BY <1>1, <1>3
<1> QED
  BY <1>1, <1>3, <1>4, <1>7, <1>8 DEF Surjection, f, k

-----------------------------------------------------------------------------
(* Commands that land on the bank.                                         *)

\* The requests, and whether they are answered, are all that counts of the target.
LEMMA LandingSame ==
  ASSUME NEW box, NEW told, NEW s, NEW t, NEW u, Landing(box, told, s, t),
         u.target = t.target, u.requests = t.requests, u.accepted = t.accepted, u.ready = t.ready
  PROVE  Landing(box, told, s, u)
BY DEF Landing, Turned

\* A target that is forgotten was not asked for.
LEMMA LandingForgets ==
  ASSUME NEW box, NEW told, NEW s, NEW i
  PROVE  Landing(box, told, s, NewTargetState(i))
BY DEF NewTargetState, NoValues, Landing, Turned

\* Fewer commands and fewer answers.
LEMMA LandingFewer ==
  ASSUME NEW box, NEW rest, NEW told, NEW less, NEW s, NEW t, Landing(box, told, s, t),
         less \cap DOMAIN t.requests \subseteq told,
         DOMAIN box \subseteq Nat, DOMAIN rest \subseteq Nat,
         NEW o \in [DOMAIN rest -> DOMAIN box],
         \A n \in DOMAIN rest : rest[n] = box[o[n]],
         \A m, n \in DOMAIN rest : m < n => o[m] < o[n]
  PROVE  Landing(rest, less, s, t)
<1>1. t.ready => t.accepted # {}
  BY DEF Landing
<1>2. ASSUME Turned(t, less)
      PROVE  s = t.target /\ \A n \in DOMAIN rest : Asks(rest[n]) => rest[n].target = t.target
  <2>1. Turned(t, told)
    BY <1>2 DEF Turned
  <2> QED
    BY <2>1 DEF Landing
<1>3. ASSUME NEW m \in DOMAIN rest, NEW n \in DOMAIN rest, m <= n, Asks(rest[m]), Asks(rest[n]),
             rest[m].request \in DOMAIN t.requests
      PROVE  rest[n].target = t.target
  <2>1. o[m] \in DOMAIN box /\ o[n] \in DOMAIN box /\ rest[m] = box[o[m]] /\ rest[n] = box[o[n]]
    BY <1>3
  <2>2. o[m] <= o[n]
    <3>1. CASE m = n
      BY <3>1, <2>1
    <3>2. CASE m # n
      <4>1. m < n
        BY <1>3, <3>2
      <4> QED
        BY <4>1, <2>1
    <3> QED
      BY <3>1, <3>2
  <2> QED
    BY <1>3, <2>1, <2>2 DEF Landing
<1> QED
  BY <1>1, <1>2, <1>3 DEF Landing

\* A command that does not ask for a bank.
LEMMA LandingSends ==
  ASSUME NEW box \in Seq(Commands), NEW told, NEW s, NEW t, Landing(box, told, s, t),
         NEW c \in Commands, ~Asks(c)
  PROVE  Landing(Append(box, c), told, s, t)
BY Appends DEF Landing

\* A new request for the bank.
LEMMA LandingAsks ==
  ASSUME NEW box \in Seq(Commands), NEW told, NEW s, NEW t, NEW u, Landing(box, told, s, t),
         NEW c \in Commands, Asks(c), c.target = t.target,
         c.request \notin told, \A n \in DOMAIN box : box[n].request # c.request,
         u.target = t.target, u.accepted = t.accepted, u.ready = t.ready,
         DOMAIN u.requests = DOMAIN t.requests \cup {c.request}
  PROVE  Landing(Append(box, c), told, s, u)
<1> DEFINE b == Append(box, c)
           l == Len(box) + 1
<1>1. /\ DOMAIN b = DOMAIN box \cup {l} /\ b[l] = c /\ \A n \in DOMAIN box : b[n] = box[n]
      /\ DOMAIN box = 1..Len(box) /\ Len(box) \in Nat
  BY Appends
<1>2. \A m, n \in DOMAIN b : m <= n /\ m = l => n = l
  BY <1>1
<1> HIDE DEF b, l
<1>3. Turned(u, told) => Turned(t, told)
  BY DEF Turned
<1>4. u.ready => u.accepted # {}
  BY DEF Landing
<1>5. ASSUME Turned(u, told)
      PROVE  s = u.target /\ \A n \in DOMAIN b : Asks(b[n]) => b[n].target = u.target
  <2>1. s = t.target /\ \A n \in DOMAIN box : Asks(box[n]) => box[n].target = t.target
    BY <1>5, <1>3 DEF Landing
  <2> QED
    BY <2>1, <1>1
<1>6. ASSUME NEW m \in DOMAIN b, NEW n \in DOMAIN b, m <= n, Asks(b[m]), Asks(b[n]),
             b[m].request \in DOMAIN u.requests
      PROVE  b[n].target = u.target
  <2>1. CASE n = l
    BY <2>1, <1>1
  <2>2. CASE n # l
    BY <1>1, <1>2, <1>6, <2>2 DEF Landing
  <2> QED
    BY <2>1, <2>2
<1> QED
  BY <1>4, <1>5, <1>6 DEF Landing, b

\* An answer is accepted.
LEMMA LandingAccepts ==
  ASSUME NEW box, NEW told, NEW s, NEW t, NEW u, Landing(box, told, s, t), Turned(t, told),
         u.target = t.target, u.requests = t.requests, u.accepted # {}
  PROVE  Landing(box, told, s, u)
BY DEF Landing, Turned

\* The core turns to the bank that the first command asks for.
LEMMA LandingTurns ==
  ASSUME NEW box \in Seq(Commands), box # << >>, NEW told, NEW s, NEW t, Landing(box, told, s, t),
         Asks(Head(box))
  PROVE  Landing(Tail(box), told \cup {Head(box).request}, Head(box).target, t)
<1> DEFINE c == Head(box)
           rest == Tail(box)
<1>1. c = box[1] /\ 1 \in DOMAIN box
      /\ \A n \in DOMAIN rest : n + 1 \in DOMAIN box /\ rest[n] = box[n + 1] /\ n \in Nat \ {0}
  BY Tails
<1> HIDE DEF c, rest
<1>2. Asks(c)
  BY DEF c
<1>3. t.ready => t.accepted # {}
  BY DEF Landing
<1>4. ASSUME Turned(t, told \cup {c.request})
      PROVE  c.target = t.target
             /\ \A n \in DOMAIN rest : Asks(rest[n]) => rest[n].target = t.target
  <2>1. CASE Turned(t, told)
    BY <2>1, <1>1, <1>2 DEF Landing
  <2>2. CASE c.request \in DOMAIN t.requests
    <3>1. c.target = t.target
      <4>1. 1 <= 1
        OBVIOUS
      <4> QED
        BY <2>2, <1>1, <1>2, <4>1 DEF Landing
    <3>2. ASSUME NEW n \in DOMAIN rest, Asks(rest[n]) PROVE rest[n].target = t.target
      <4>1. n + 1 \in DOMAIN box /\ rest[n] = box[n + 1] /\ 1 <= n + 1
        BY <1>1
      <4> QED
        BY <2>2, <1>1, <1>2, <3>2, <4>1 DEF Landing
    <3> QED
      BY <3>1, <3>2
  <2> QED
    BY <2>1, <2>2, <1>4 DEF Turned
<1>5. ASSUME NEW m \in DOMAIN rest, NEW n \in DOMAIN rest, m <= n, Asks(rest[m]), Asks(rest[n]),
             rest[m].request \in DOMAIN t.requests
      PROVE  rest[n].target = t.target
  <2>1. m + 1 \in DOMAIN box /\ n + 1 \in DOMAIN box /\ m + 1 <= n + 1
        /\ rest[m] = box[m + 1] /\ rest[n] = box[n + 1]
    BY <1>1, <1>5
  <2> QED
    BY <2>1, <1>5 DEF Landing
<1> QED
  BY <1>3, <1>4, <1>5 DEF Landing, c, rest

\* The writes among fewer commands.
LEMMA WritesFewer ==
  ASSUME NEW box, NEW rest, NEW s, Writes(box, s),
         DOMAIN box \subseteq Nat, DOMAIN rest \subseteq Nat,
         NEW o \in [DOMAIN rest -> DOMAIN box],
         \A n \in DOMAIN rest : rest[n] = box[o[n]],
         \A m, n \in DOMAIN rest : m < n => o[m] < o[n]
  PROVE  Writes(rest, s)
<1> SUFFICES ASSUME NEW n \in DOMAIN rest, rest[n].selector = "write"
             PROVE  rest[n].target = s
                    /\ \A m \in DOMAIN rest : m < n /\ Asks(rest[m]) => rest[m].target = s
  BY DEF Writes
<1>1. o[n] \in DOMAIN box /\ rest[n] = box[o[n]]
  OBVIOUS
<1>2. rest[n].target = s
  BY <1>1 DEF Writes
<1>3. ASSUME NEW m \in DOMAIN rest, m < n, Asks(rest[m]) PROVE rest[m].target = s
  <2>1. o[m] \in DOMAIN box /\ rest[m] = box[o[m]] /\ o[m] < o[n]
    BY <1>3
  <2> QED
    BY <2>1, <1>1, <1>3 DEF Writes
<1> QED
  BY <1>2, <1>3

\* One command more, on a bank the core is sure to look at if it is a write.
LEMMA WritesSends ==
  ASSUME NEW box \in Seq(Commands), NEW s, Writes(box, s), NEW c \in Commands,
         c.selector = "write" =>
           c.target = s /\ \A n \in DOMAIN box : Asks(box[n]) => box[n].target = s
  PROVE  Writes(Append(box, c), s)
<1> DEFINE b == Append(box, c)
           l == Len(box) + 1
<1>1. /\ DOMAIN b = DOMAIN box \cup {l} /\ b[l] = c /\ \A n \in DOMAIN box : b[n] = box[n]
      /\ DOMAIN box = 1..Len(box) /\ Len(box) \in Nat
  BY Appends
<1>2. \A m, n \in DOMAIN b : m < n => m # l
  BY <1>1
<1> HIDE DEF b, l
<1>3. ASSUME NEW n \in DOMAIN b, b[n].selector = "write" PROVE b[n].target = s
  BY <1>1, <1>3 DEF Writes
<1>4. ASSUME NEW n \in DOMAIN b, b[n].selector = "write", NEW m \in DOMAIN b, m < n, Asks(b[m])
      PROVE  b[m].target = s
  <2>1. m \in DOMAIN box /\ b[m] = box[m]
    BY <1>1, <1>2, <1>4
  <2>2. CASE n = l
    BY <2>1, <2>2, <1>1, <1>4
  <2>3. CASE n # l
    <3>1. n \in DOMAIN box /\ b[n] = box[n]
      BY <2>3, <1>1
    <3> QED
      BY <2>1, <3>1, <1>4 DEF Writes
  <2> QED
    BY <2>2, <2>3
<1> QED
  BY <1>3, <1>4 DEF Writes, b

\* The first command turns the core to no other bank than the writes are for.
LEMMA WritesTurns ==
  ASSUME NEW box \in Seq(Commands), box # << >>, NEW s, Writes(box, s), Asks(Head(box))
  PROVE  Writes(Tail(box), Head(box).target)
<1> DEFINE c == Head(box)
           rest == Tail(box)
<1>1. c = box[1] /\ 1 \in DOMAIN box
      /\ \A n \in DOMAIN rest : n + 1 \in DOMAIN box /\ rest[n] = box[n + 1] /\ n \in Nat \ {0}
  BY Tails
<1> HIDE DEF c, rest
<1> SUFFICES ASSUME NEW n \in DOMAIN rest, rest[n].selector = "write"
             PROVE  rest[n].target = c.target
                    /\ \A m \in DOMAIN rest : m < n /\ Asks(rest[m]) => rest[m].target = c.target
  BY DEF Writes, c, rest
<1>2. n + 1 \in DOMAIN box /\ rest[n] = box[n + 1] /\ 1 < n + 1
  BY <1>1
<1>3. rest[n].target = s /\ c.target = s
  BY <1>1, <1>2 DEF Writes, c
<1>4. ASSUME NEW m \in DOMAIN rest, m < n, Asks(rest[m]) PROVE rest[m].target = s
  <2>1. m + 1 \in DOMAIN box /\ rest[m] = box[m + 1] /\ m + 1 < n + 1
    BY <1>1, <1>4
  <2> QED
    BY <2>1, <1>2, <1>4 DEF Writes
<1> QED
  BY <1>3, <1>4

-----------------------------------------------------------------------------
(* What the steps of a handler leave of the editor.                        *)

\* The contexts are requested one after the other.
LEMMA RequestContextsChain ==
  ASSUME NEW e
  PROVE  \E f : /\ f[0] = e /\ f[Len(Contexts)] = RequestContexts(e)
                /\ \A n \in 1..Len(Contexts) : f[n] = RequestContext(f[n - 1], Contexts[n])
<1> DEFINE N == Len(Contexts)
           Step(f, n) == IF n = 0 THEN e ELSE RequestContext(f[n - 1], Contexts[n])
           Rec(f, m) == f = [n \in 0..m |-> Step(f, n)]
           S == {m \in 0..N : \E f : Rec(f, m)}
<1>0. N \in Nat
  BY ContextAssumption
<1>1. 0 \in S
  <2> DEFINE f == [n \in 0..0 |-> e]
  <2>1. Rec(f, 0)
    OBVIOUS
  <2> HIDE DEF f, Rec
  <2> QED
    BY <2>1, <1>0
<1>2. ASSUME NEW m \in 0..N, m \in S, m < N PROVE m + 1 \in S
  <2>1. PICK f : Rec(f, m)
    BY <1>2
  <2> DEFINE g == [n \in 0..(m + 1) |->
                     IF n = m + 1 THEN RequestContext(f[m], Contexts[m + 1]) ELSE f[n]]
  <2>2. \A n \in 0..m : g[n] = f[n] /\ f[n] = Step(f, n)
    BY <1>0, <2>1
  <2>3. Rec(g, m + 1)
    <3>1. \A n \in 0..(m + 1) : g[n] = Step(g, n)
      <4> TAKE n \in 0..(m + 1)
      <4>1. CASE n = m + 1
        BY <4>1, <2>2, <1>0
      <4>2. CASE n # m + 1
        BY <1>0, <2>2, <4>2
      <4> QED
        BY <4>1, <4>2
    <3> QED
      BY <3>1
  <2>5. m + 1 \in 0..N
    BY <1>2, <1>0
  <2> HIDE DEF g, Rec
  <2> QED
    BY <2>3, <2>5
<1>3. \A m \in 0..N : m \in S
  <2> HIDE DEF S, N
  <2> QED
    BY <1>0, <1>1, <1>2, Induction
<1>4. \E f : Rec(f, N)
  <2>1. N \in S
    <3> HIDE DEF S, N
    <3> QED
      BY <1>3, <1>0
  <2> QED
    BY <2>1, Zenon
<1> DEFINE k == CHOOSE f : Rec(f, N)
<1>5. Rec(k, N)
  BY <1>4
<1>6. \A n \in 0..N : k[n] = Step(k, n)
  BY <1>5, Zenon
<1>7. RequestContexts(e) = k[N]
  BY DEF RequestContexts
<1>8. k[0] = e
  BY <1>6, <1>0
<1>9. \A n \in 1..N : k[n] = RequestContext(k[n - 1], Contexts[n])
  <2> TAKE n \in 1..N
  <2>1. n \in 0..N /\ n # 0
    BY <1>0
  <2> QED
    BY <2>1, <1>6
<1> HIDE DEF k, Rec, Step
<1> QED
  BY <1>7, <1>8, <1>9

\* A command, once it has its id.
LEMMA CommandFacts ==
  ASSUME NEW kind \in Selectors, NEW i \in Instances, NEW x \in CommandContexts, NEW id \in Nat,
         kind \in {"observe_target", "write"} => x \in ContextSet,
         kind = "group_banks" => x \in Instances
  PROVE  LET c == [Command(kind, i, x) EXCEPT !.request = id]
         IN  /\ c \in Commands /\ "request" \in DOMAIN c
             /\ c.selector = kind /\ c.request = id /\ c.target = i /\ c.context = x
BY DEF Command, Commands

\* A request takes an id and joins the commands the handler sends.
LEMMA RequestFacts ==
  ASSUME NEW e, Shaped(e, EditorFields), NEW c
  PROVE  LET v == Request(e, c)
         IN  /\ Shaped(v, EditorFields) /\ Same(e, v, EditorFields \ {"used", "out"})
             /\ v.used = e.used \cup {NextId(e)}
             /\ v.out = Append(e.out, [c EXCEPT !.request = NextId(e)])
BY Zenon DEF Shaped, Same, EditorFields, Request

\* What Loose says of an editor depends on its types, target, commands and ids.
LEMMA LooseAside ==
  ASSUME NEW e, NEW v, Loose(e), EditorTypes(v),
         v.target = e.target, v.out = e.out, v.used = e.used
  PROVE  Loose(v)
BY DEF Loose, Fresh, Box

\* What Sure says depends on five fields.
LEMMA SureAside ==
  ASSUME NEW e, NEW v, Sure(e), v.active = e.active, v.busy = e.busy, v.focus = e.focus,
         v.pending = e.pending, v.target = e.target
  PROVE  Sure(v)
BY DEF Sure

\* The ids of one command more.
LEMMA IdsAppend ==
  ASSUME NEW out \in Seq(Commands), NEW c \in Commands, "request" \in DOMAIN c
  PROVE  Ids(Append(out, c)) = Ids(out) \cup {c.request}
BY Appends DEF Ids

\* An id that is in use by a command on its way.
LEMMA IdsOf ==
  ASSUME NEW s \in Seq(Commands), NEW n \in DOMAIN s
  PROVE  s[n].request \in Ids(s)
<1>1. s[n] \in Commands
  OBVIOUS
<1>2. "request" \in DOMAIN s[n]
  BY <1>1 DEF Commands
<1> QED
  BY <1>2 DEF Ids

\* A new id is not that of a command or an answer.
LEMMA FreshId ==
  ASSUME NEW e, CoreTypes, EditorTypes(e), Fresh(e)
  PROVE  /\ NextId(e) \in Nat /\ NextId(e) \notin e.used /\ NextId(e) \notin Told
         /\ NextId(e) \notin DOMAIN e.target.requests
         /\ \A n \in DOMAIN Box(e) : Box(e)[n].request # NextId(e)
<1>1. NextId(e) \in Nat /\ NextId(e) \notin e.used
  BY NextIdFacts DEF Fresh
<1>2. inbox \in Seq(Commands) /\ e.out \in Seq(Commands)
      /\ frames \in Seq(Frames) /\ reply \in Seq(Frames)
  BY DEF CoreTypes, EditorTypes
<1>3. ASSUME NEW n \in DOMAIN Box(e) PROVE Box(e)[n].request \in e.used
  BY <1>2, Joins, IdsOf DEF Box, Fresh
<1>4. ASSUME NEW s \in Seq(Frames) PROVE ToldIn(s) \subseteq Ids(s)
  BY DEF ToldIn, Ids, Frames, Answers, Notifications, Deltas
<1>5. Told \subseteq e.used
  BY <1>2, <1>4 DEF Told, Fresh
<1> QED
  BY <1>1, <1>3, <1>5 DEF Fresh

-----------------------------------------------------------------------------
(* Commands that an editor sends.                                          *)

\* A command c has joined those the editor e sends.
Sent(e, v, c, kind, i) ==
    /\ EditorTypes(v) /\ Same(e, v, EditorFields \ {"used", "out"})
    /\ v.out = Append(e.out, c) /\ c \in Commands /\ "request" \in DOMAIN c
    /\ c.selector = kind /\ c.request = NextId(e) /\ c.target = i
    /\ v.used = e.used \cup {NextId(e)}

\* The types of an editor after a command.
LEMMA RequestTypes ==
  ASSUME NEW e, EditorTypes(e), IsFiniteSet(e.used), NEW kind \in Selectors, NEW i \in Instances,
         NEW x \in CommandContexts, kind \in {"observe_target", "write"} => x \in ContextSet,
         kind = "group_banks" => x \in Instances
  PROVE  Sent(e, Request(e, Command(kind, i, x)),
              [Command(kind, i, x) EXCEPT !.request = NextId(e)], kind, i)
<1> DEFINE v == Request(e, Command(kind, i, x))
           c == [Command(kind, i, x) EXCEPT !.request = NextId(e)]
<1>1. NextId(e) \in Nat
  BY NextIdFacts
<1>2. /\ c \in Commands /\ "request" \in DOMAIN c
      /\ c.selector = kind /\ c.request = NextId(e) /\ c.target = i
  BY <1>1, CommandFacts
<1>3. /\ Shaped(v, EditorFields) /\ Same(e, v, EditorFields \ {"used", "out"})
      /\ v.used = e.used \cup {NextId(e)} /\ v.out = Append(e.out, c)
  BY RequestFacts, Zenon DEF EditorTypes
<1> HIDE DEF v, c
<1>4. v.out \in Seq(Commands)
  BY <1>2, <1>3 DEF EditorTypes
<1>6. EditorTypes(v)
  BY <1>3, <1>4 DEF EditorTypes, Same, EditorFields
<1> QED
  BY <1>2, <1>3, <1>6 DEF Sent, v, c

\* One id more in use.
LEMMA OneMore ==
  ASSUME NEW S, IsFiniteSet(S), NEW x, NEW T, T = S \cup {x}
  PROVE  IsFiniteSet(T)
BY FS_AddElement

\* The core looks at the bank and no command on its way turns it to another.
Looks(e, i) == i = selection /\ \A n \in DOMAIN Box(e) : Asks(Box(e)[n]) => Box(e)[n].target = i

\* A command that does not ask for a bank keeps what holds in the middle of a handler.
LEMMA RequestLoose ==
  ASSUME NEW e, CoreTypes, Loose(e), NEW kind \in Selectors, kind # "observe_target",
         NEW i \in Instances, NEW x \in CommandContexts, kind = "write" => x \in ContextSet,
         kind = "group_banks" => x \in Instances, kind = "write" => Looks(e, i)
  PROVE  LET v == Request(e, Command(kind, i, x))
         IN  /\ Loose(v) /\ Same(e, v, EditorFields \ {"used", "out"})
             /\ (Sure(e) => Sure(v))
<1> DEFINE v == Request(e, Command(kind, i, x))
           c == [Command(kind, i, x) EXCEPT !.request = NextId(e)]
<1>1. /\ EditorTypes(e) /\ Fresh(e) /\ IsFiniteSet(e.used) /\ inbox \in Seq(Commands)
      /\ e.out \in Seq(Commands)
      /\ Landing(Box(e), Told, selection, e.target) /\ Writes(Box(e), selection)
  BY DEF Loose, Fresh, CoreTypes, EditorTypes
<1>2. /\ EditorTypes(v) /\ Same(e, v, EditorFields \ {"used", "out"})
      /\ v.out = Append(e.out, c) /\ c \in Commands /\ "request" \in DOMAIN c
      /\ c.selector = kind /\ c.request = NextId(e) /\ c.target = i
      /\ v.used = e.used \cup {NextId(e)}
  <2>1. kind \in {"observe_target", "write"} => x \in ContextSet
    OBVIOUS
  <2>2. Sent(e, v, c, kind, i)
    BY <1>1, <2>1, RequestTypes
  <2> QED
    BY <2>2 DEF Sent
<1> HIDE DEF v, c
<1>3. v.target = e.target /\ v.active = e.active /\ v.busy = e.busy /\ v.focus = e.focus
      /\ v.pending = e.pending
  BY <1>2 DEF Same, EditorFields
<1>4. Box(v) = Append(Box(e), c) /\ Box(e) \in Seq(Commands)
  BY <1>1, <1>2, Appends DEF Box
<1>5. Landing(Box(v), Told, selection, v.target)
  BY <1>1, <1>2, <1>3, <1>4, LandingSends DEF Asks
<1>6. Writes(Box(v), selection)
  BY <1>1, <1>2, <1>4, WritesSends DEF Looks
<1>7. Fresh(v)
  <2>1. IsFiniteSet(v.used)
    BY <1>1, <1>2, OneMore, Zenon
  <2>2. Ids(v.out) = Ids(e.out) \cup {NextId(e)}
    BY <1>1, <1>2, IdsAppend
  <2> QED
    BY <1>1, <1>2, <1>3, <2>1, <2>2 DEF Fresh
<1>8. Sure(e) => Sure(v)
  BY <1>3, SureAside
<1> QED
  BY <1>2, <1>5, <1>6, <1>7, <1>8 DEF Loose, v

\* A request for one context of the bank in focus.
LEMMA RequestContextLoose ==
  ASSUME NEW e, CoreTypes, Loose(e), e.target.target = e.focus, NEW x \in ContextSet
  PROVE  LET v == RequestContext(e, x)
         IN  /\ Loose(v) /\ Same(e, v, EditorFields \ {"used", "out", "target"})
             /\ Same(e.target, v.target, TargetFields \ {"requests"})
<1> DEFINE id == NextId(e)
           u == [e EXCEPT !.target = ExpectSnapshot(@, id, x)]
           v == RequestContext(e, x)
           c == [Command("observe_target", e.focus, x) EXCEPT !.request = id]
<1>1. /\ EditorTypes(e) /\ Fresh(e) /\ IsFiniteSet(e.used) /\ inbox \in Seq(Commands)
      /\ e.out \in Seq(Commands) /\ Shaped(e, EditorFields) /\ TargetTypes(e.target)
      /\ Landing(Box(e), Told, selection, e.target) /\ Writes(Box(e), selection)
      /\ e.focus \in Instances
  BY DEF Loose, Fresh, CoreTypes, EditorTypes
<1>2. /\ id \in Nat /\ id \notin e.used /\ id \notin Told /\ id \notin DOMAIN e.target.requests
      /\ \A n \in DOMAIN Box(e) : Box(e)[n].request # id
  BY <1>1, FreshId
<1>3. /\ Shaped(u, EditorFields) /\ Same(e, u, EditorFields \ {"target"})
      /\ u.target = ExpectSnapshot(e.target, id, x)
  BY <1>1, Zenon DEF Shaped, Same, EditorFields
<1>4. /\ Shaped(u.target, TargetFields) /\ Same(e.target, u.target, TargetFields \ {"requests"})
      /\ u.target.requests = WithValue(e.target.requests, id, x)
  BY <1>1, <1>3, Zenon DEF TargetTypes, Shaped, Same, TargetFields, ExpectSnapshot
<1>5. /\ u.target.target = e.target.target /\ u.target.accepted = e.target.accepted
      /\ u.target.ready = e.target.ready
      /\ DOMAIN u.target.requests = DOMAIN e.target.requests \cup {id}
  BY <1>4 DEF Same, TargetFields, WithValue
<1>6. /\ u.unopened = e.unopened /\ u.initialized = e.initialized /\ u.active = e.active
      /\ u.owner = e.owner /\ u.busy = e.busy /\ u.scope = e.scope /\ u.restored = e.restored
      /\ u.focus = e.focus /\ u.pending = e.pending /\ u.used = e.used /\ u.out = e.out
  BY <1>3 DEF Same, EditorFields
<1>7. EditorTypes(u)
  BY <1>1, <1>3, <1>4, <1>5, <1>6, FS_AddElement DEF TargetTypes, EditorTypes
<1>8. v = Request(u, Command("observe_target", e.focus, x)) /\ NextId(u) = id
  BY <1>6 DEF RequestContext, NextId
<1> HIDE DEF u, v, id
<1>9. /\ EditorTypes(v) /\ Same(u, v, EditorFields \ {"used", "out"})
      /\ v.out = Append(e.out, c) /\ c \in Commands /\ "request" \in DOMAIN c
      /\ c.selector = "observe_target" /\ c.request = id /\ c.target = e.focus
      /\ v.used = e.used \cup {id}
  <2>1. e.focus \in Instances /\ x \in CommandContexts /\ "observe_target" \in Selectors
    BY <1>1 DEF CommandContexts, Selectors
  <2>2. IsFiniteSet(u.used)
    BY <1>1, <1>6
  <2>3. "observe_target" # "group_banks"
    OBVIOUS
  <2>4. Sent(u, Request(u, Command("observe_target", e.focus, x)),
             [Command("observe_target", e.focus, x) EXCEPT !.request = NextId(u)],
             "observe_target", e.focus)
    BY <2>1, <2>2, <2>3, <1>7, RequestTypes
  <2> QED
    BY <2>4, <1>6, <1>8 DEF Sent
<1> HIDE DEF c
<1>10. v.target = u.target /\ Same(e, v, EditorFields \ {"used", "out", "target"})
  BY <1>3, <1>9 DEF Same, EditorFields
<1>11. Box(v) = Append(Box(e), c) /\ Box(e) \in Seq(Commands)
  BY <1>1, <1>9, Appends DEF Box
<1>12. Landing(Box(v), Told, selection, v.target)
  <2>1. Asks(c) /\ c.target = e.target.target
    BY <1>9 DEF Asks
  <2>2. /\ v.target.target = e.target.target /\ v.target.accepted = e.target.accepted
        /\ v.target.ready = e.target.ready
        /\ DOMAIN v.target.requests = DOMAIN e.target.requests \cup {c.request}
    BY <1>5, <1>9, <1>10
  <2>3. c.request \notin Told /\ \A n \in DOMAIN Box(e) : Box(e)[n].request # c.request
    BY <1>2, <1>9
  <2>4. Landing(Append(Box(e), c), Told, selection, v.target)
    BY <1>1, <1>9, <1>11, <2>1, <2>2, <2>3, LandingAsks, Zenon
  <2> QED
    BY <1>11, <2>4
<1>13. Writes(Box(v), selection)
  BY <1>1, <1>9, <1>11, WritesSends
<1>14. Fresh(v)
  <2>1. IsFiniteSet(v.used)
    BY <1>1, <1>9, OneMore, Zenon
  <2>2. Ids(v.out) = Ids(e.out) \cup {id}
    BY <1>1, <1>9, IdsAppend
  <2>3. DOMAIN v.target.requests \subseteq v.used
    BY <1>1, <1>5, <1>9, <1>10 DEF Fresh
  <2> QED
    BY <1>1, <1>9, <2>1, <2>2, <2>3 DEF Fresh
<1>15. Same(e.target, v.target, TargetFields \ {"requests"})
  BY <1>4, <1>10
<1> QED
  BY <1>9, <1>10, <1>12, <1>13, <1>14, <1>15 DEF Loose, v

\* The requests for all contexts of the bank in focus.
LEMMA RequestContextsLoose ==
  ASSUME NEW e, CoreTypes, Loose(e), e.target.target = e.focus
  PROVE  LET v == RequestContexts(e)
         IN  /\ Loose(v) /\ Same(e, v, EditorFields \ {"used", "out", "target"})
             /\ Same(e.target, v.target, TargetFields \ {"requests"})
<1> DEFINE N == Len(Contexts)
           P(v) == /\ Loose(v) /\ Same(e, v, EditorFields \ {"used", "out", "target"})
                   /\ Same(e.target, v.target, TargetFields \ {"requests"})
<1>1. N \in Nat /\ \A n \in 1..N : Contexts[n] \in ContextSet
  BY ContextAssumption DEF ContextSet, ToSet
<1>2. PICK f : /\ f[0] = e /\ f[N] = RequestContexts(e)
               /\ \A n \in 1..N : f[n] = RequestContext(f[n - 1], Contexts[n])
  BY RequestContextsChain
<1> DEFINE S == {n \in 0..N : P(f[n])}
<1>3. 0 \in S
  BY <1>1, <1>2 DEF Same
<1>4. ASSUME NEW n \in 0..N, n \in S, n < N PROVE n + 1 \in S
  <2>1. n + 1 \in 1..N /\ (n + 1) - 1 = n /\ n + 1 \in 0..N
    BY <1>1, <1>4
  <2> DEFINE u == f[n]
             v == f[n + 1]
  <2>2. v = RequestContext(u, Contexts[n + 1]) /\ Contexts[n + 1] \in ContextSet
    BY <2>1, <1>1, <1>2
  <2>3. P(u)
    BY <1>4
  <2> HIDE DEF u, v
  <2>4. u.target.target = e.target.target /\ u.focus = e.focus
    BY <2>3 DEF Same, TargetFields, EditorFields
  <2>6. P(v)
    BY <2>2, <2>3, <2>4, RequestContextLoose DEF Same
  <2> QED
    BY <2>1, <2>6 DEF v
<1>5. \A n \in 0..N : n \in S
  <2> HIDE DEF S, N, P
  <2> QED
    BY <1>1, <1>3, <1>4, Induction
<1>6. P(f[N])
  <2>1. N \in 0..N
    BY <1>1
  <2> HIDE DEF P
  <2> QED
    BY <2>1, <1>5
<1> QED
  BY <1>2, <1>6

-----------------------------------------------------------------------------
(* What an editor forgets and asks for anew.                               *)

\* Of the fields that Loose does not look at only the types count.
LEMMA AsideLoose ==
  ASSUME NEW e, NEW v, Loose(e), Shaped(v, EditorFields),
         Same(e, v, {"pending", "target", "used", "out"}),
         v.unopened \in BOOLEAN, v.initialized \in BOOLEAN, v.active \in BOOLEAN,
         v.owner \in BOOLEAN, v.busy \in BOOLEAN, v.scope \in BOOLEAN, v.restored \in BOOLEAN,
         v.focus \in Instances
  PROVE  Loose(v)
BY LooseAside DEF Same, Loose, EditorTypes

\* The types of the fields of an editor.
LEMMA FieldTypes ==
  ASSUME NEW e, Loose(e)
  PROVE  /\ Shaped(e, EditorFields)
         /\ e.unopened \in BOOLEAN /\ e.initialized \in BOOLEAN /\ e.active \in BOOLEAN
         /\ e.owner \in BOOLEAN /\ e.busy \in BOOLEAN /\ e.scope \in BOOLEAN
         /\ e.restored \in BOOLEAN /\ e.focus \in Instances
         /\ Shaped(e.target, TargetFields) /\ e.target.target \in Instances
BY DEF Loose, EditorTypes, TargetTypes

\* An editor has its fields.
LEMMA ShapeOf == ASSUME NEW e, Loose(e) PROVE Shaped(e, EditorFields)
BY DEF Loose, EditorTypes

\* The list of fields as separate facts.
LEMMA SameFields ==
  ASSUME NEW e, NEW v, NEW but, Same(e, v, EditorFields \ but)
  PROVE  /\ "unopened" \in but \/ v.unopened = e.unopened
         /\ "initialized" \in but \/ v.initialized = e.initialized
         /\ "active" \in but \/ v.active = e.active
         /\ "owner" \in but \/ v.owner = e.owner
         /\ "busy" \in but \/ v.busy = e.busy
         /\ "focus" \in but \/ v.focus = e.focus
         /\ "scope" \in but \/ v.scope = e.scope
         /\ "pending" \in but \/ v.pending = e.pending
         /\ "registry" \in but \/ v.registry = e.registry
         /\ "target" \in but \/ v.target = e.target
         /\ "analyzer" \in but \/ v.analyzer = e.analyzer
         /\ "curve" \in but \/ v.curve = e.curve
         /\ "restored" \in but \/ v.restored = e.restored
         /\ "used" \in but \/ v.used = e.used
         /\ "out" \in but \/ v.out = e.out
BY DEF Same, EditorFields

\* An editor that becomes busy, or is not any more.
LEMMA SetBusyLoose ==
  ASSUME NEW e, Loose(e), NEW b \in BOOLEAN
  PROVE  LET v == SetBusy(e, b)
         IN  /\ Loose(v) /\ Same(e, v, EditorFields \ {"busy"}) /\ v.busy = b
             /\ (Sure(e) /\ (b \/ ~e.active \/ e.target.ready) => Sure(v))
<1> DEFINE v == SetBusy(e, b)
<1>1. Shaped(v, EditorFields) /\ Same(e, v, EditorFields \ {"busy"}) /\ v.busy = b
  BY ShapeOf, Zenon DEF Shaped, Same, EditorFields, SetBusy
<1> HIDE DEF v
<1>2. Loose(v)
  BY <1>1, FieldTypes, AsideLoose DEF Same, EditorFields
<1>3. v.active = e.active /\ v.focus = e.focus /\ v.pending = e.pending /\ v.target = e.target
  BY <1>1 DEF Same, EditorFields
<1>4. Sure(e) /\ (b \/ ~e.active \/ e.target.ready) => Sure(v)
  BY <1>1, <1>3 DEF Sure
<1> QED
  BY <1>1, <1>2, <1>4 DEF v

\* Completions that are outdated are not current; the others stay.
LEMMA OutdateLoose ==
  ASSUME NEW e, Loose(e), NEW S, S \subseteq e.pending
  PROVE  LET v == Outdate(e, S)
         IN  /\ Loose(v) /\ Same(e, v, EditorFields \ {"pending"})
             /\ \A p \in v.pending : p.current => p \in e.pending \ S
             /\ (Sure(e) => Sure(v))
<1> DEFINE v == Outdate(e, S)
           old(p) == [p EXCEPT !.current = FALSE]
<1>1. /\ Shaped(v, EditorFields) /\ Same(e, v, EditorFields \ {"pending"})
      /\ v.pending = (e.pending \ S) \cup {old(p) : p \in S}
  BY ShapeOf, Zenon DEF Shaped, Same, EditorFields, Outdate
<1> HIDE DEF v
<1>2. e.pending \subseteq Completions /\ IsFiniteSet(e.pending)
  BY DEF Loose, EditorTypes
<1>3. \A p \in S : old(p) \in Completions /\ old(p).current = FALSE
  BY <1>2 DEF Completions
<1>4. v.pending \subseteq Completions /\ \A p \in v.pending : p.current => p \in e.pending \ S
  BY <1>1, <1>2, <1>3
<1>5. IsFiniteSet(v.pending)
  <2> DEFINE f == [p \in S |-> old(p)]
  <2>1. IsFiniteSet(S) /\ IsFiniteSet(e.pending \ S) /\ DOMAIN f = S
    BY <1>2, FS_Subset, FS_Difference
  <2>2. {f[p] : p \in S} = {old(p) : p \in S}
    OBVIOUS
  <2> HIDE DEF f, old
  <2>3. IsFiniteSet({f[p] : p \in S})
    BY <2>1, ImageFinite, Zenon
  <2>4. IsFiniteSet((e.pending \ S) \cup {f[p] : p \in S})
    BY <2>1, <2>3, FS_Union, Zenon
  <2> QED
    BY <1>1, <2>2, <2>4
<1>6. /\ v.unopened = e.unopened /\ v.initialized = e.initialized /\ v.active = e.active
      /\ v.owner = e.owner /\ v.busy = e.busy /\ v.scope = e.scope /\ v.restored = e.restored
      /\ v.focus = e.focus /\ v.used = e.used /\ v.target = e.target /\ v.out = e.out
  BY <1>1 DEF Same, EditorFields
<1>7. EditorTypes(v)
  BY <1>1, <1>4, <1>5, <1>6 DEF Loose, EditorTypes
<1>8. Loose(v)
  BY <1>6, <1>7, LooseAside
<1>9. Sure(e) => Sure(v)
  BY <1>4, <1>6 DEF Sure
<1> QED
  BY <1>1, <1>4, <1>8, <1>9 DEF v

\* Another target, which nothing was asked for yet.
LEMMA RetargetLoose ==
  ASSUME NEW e, Loose(e), NEW v, NEW i \in Instances, Shaped(v, EditorFields),
         Same(e, v, EditorFields \ {"target"}), v.target = NewTargetState(i)
  PROVE  Loose(v)
<1>1. /\ v.unopened = e.unopened /\ v.initialized = e.initialized /\ v.active = e.active
      /\ v.owner = e.owner /\ v.busy = e.busy /\ v.scope = e.scope /\ v.restored = e.restored
      /\ v.focus = e.focus /\ v.used = e.used /\ v.pending = e.pending /\ v.out = e.out
  BY DEF Same, EditorFields
<1>2. /\ Shaped(v.target, TargetFields) /\ v.target.target = i
      /\ v.target.requests = << >>
  BY SMT DEF NewTargetState, Shaped, TargetFields, NoValues
<1>3. DOMAIN v.target.requests = {}
  BY <1>2
<1>4. EditorTypes(v)
  BY <1>1, <1>2, <1>3, FS_EmptySet DEF Loose, EditorTypes, TargetTypes
<1>5. Fresh(v)
  BY <1>1, <1>3 DEF Loose, Fresh
<1>6. Landing(Box(v), Told, selection, v.target)
  BY LandingForgets
<1>7. Writes(Box(v), selection)
  BY <1>1 DEF Loose, Box
<1> QED
  BY <1>4, <1>5, <1>6, <1>7 DEF Loose

\* What is shown of the bank is forgotten, and no edit on its way counts any more.
LEMMA InvalidateTargetLoose ==
  ASSUME NEW e, Loose(e)
  PROVE  LET v == InvalidateTarget(e)
         IN  /\ Loose(v) /\ Same(e, v, EditorFields \ {"target", "pending"})
             /\ v.target = NewTargetState(e.target.target)
             /\ \A p \in v.pending : p.current => ~IsEdit(p)
             /\ (Sure(e) /\ (e.busy \/ ~e.active) => Sure(v))
<1> DEFINE u == [e EXCEPT !.target = InvalidateTargetState(@)]
           v == InvalidateTarget(e)
<1>1. /\ Shaped(u, EditorFields) /\ Same(e, u, EditorFields \ {"target"})
      /\ u.target = NewTargetState(e.target.target)
  BY ShapeOf, Zenon DEF Shaped, Same, EditorFields, InvalidateTargetState
<1>2. v = Outdate(u, Edits(e))
  BY DEF InvalidateTarget
<1> HIDE DEF u, v
<1>3. Loose(u)
  BY <1>1, FieldTypes, RetargetLoose
<1>4. u.pending = e.pending /\ Edits(e) \subseteq u.pending
  BY <1>1 DEF Same, EditorFields, Edits
<1>5. /\ Loose(v) /\ Same(u, v, EditorFields \ {"pending"})
      /\ \A p \in v.pending : p.current => p \in u.pending \ Edits(e)
  BY <1>2, <1>3, <1>4, OutdateLoose
<1>6. \A p \in v.pending : p.current => ~IsEdit(p)
  BY <1>4, <1>5 DEF Edits
<1>7. v.target = NewTargetState(e.target.target)
      /\ Same(e, v, EditorFields \ {"target", "pending"})
  BY <1>1, <1>5 DEF Same, EditorFields
<1>8. Sure(e) /\ (e.busy \/ ~e.active) => Sure(v)
  BY <1>6, <1>7 DEF Same, EditorFields, NewTargetState, Sure
<1> QED
  BY <1>5, <1>6, <1>7, <1>8 DEF v

\* The curves of the bank are asked for.
LEMMA FetchBankSnapshotsLoose ==
  ASSUME NEW e, CoreTypes, Loose(e)
  PROVE  LET v == FetchBankSnapshots(e)
         IN  /\ Loose(v) /\ Same(e, v, EditorFields \ {"analyzer", "used", "out"})
             /\ (Sure(e) => Sure(v))
<1> DEFINE u == [e EXCEPT !.analyzer = FetchBanks(@, NextId(e))]
           w == Request(u, Command("observe_banks", e.target.target, Equalizer))
           v == FetchBankSnapshots(e)
<1>1. Shaped(u, EditorFields) /\ Same(e, u, EditorFields \ {"analyzer"})
  BY ShapeOf, Zenon DEF Shaped, Same, EditorFields
<1>2. v \in {e, u, w}
  BY DEF FetchBankSnapshots
<1> HIDE DEF u, v
<1>3. Loose(u) /\ (Sure(e) => Sure(u))
  <2>1. Loose(u)
    BY <1>1, FieldTypes, AsideLoose DEF Same, EditorFields
  <2>2. Sure(e) => Sure(u)
    BY <1>1, SureAside DEF Same, EditorFields
  <2> QED
    BY <2>1, <2>2
<1>4. Loose(w) /\ Same(u, w, EditorFields \ {"used", "out"}) /\ (Sure(u) => Sure(w))
  <2>1. e.target.target \in Instances /\ Equalizer \in CommandContexts
    BY ContextAssumption, FieldTypes DEF CommandContexts, ContextSet, ToSet, Equalizer, Last
  <2> QED
    BY <1>3, <2>1, RequestLoose DEF Selectors
<1> HIDE DEF w
<1> QED
  BY <1>1, <1>2, <1>3, <1>4 DEF v, Same

\* A snapshot of the registry is asked for.
LEMMA FetchRegistryLoose ==
  ASSUME NEW e, CoreTypes, Loose(e)
  PROVE  LET v == FetchRegistry(e)
         IN  /\ Loose(v) /\ Same(e, v, EditorFields \ {"registry", "used", "out"})
             /\ (Sure(e) => Sure(v))
<1> DEFINE u == [e EXCEPT !.registry = StartSnapshot(@, NextId(e))]
           w == Request(u, Command("registry", Own, NoContext))
           v == FetchRegistry(e)
<1>1. Shaped(u, EditorFields) /\ Same(e, u, EditorFields \ {"registry"})
  BY ShapeOf, Zenon DEF Shaped, Same, EditorFields
<1>2. v \in {e, w}
  BY DEF FetchRegistry
<1> HIDE DEF u, v
<1>3. Loose(u) /\ (Sure(e) => Sure(u))
  <2>1. Loose(u)
    BY <1>1, FieldTypes, AsideLoose DEF Same, EditorFields
  <2>2. Sure(e) => Sure(u)
    BY <1>1, SureAside DEF Same, EditorFields
  <2> QED
    BY <2>1, <2>2
<1>4. Loose(w) /\ Same(u, w, EditorFields \ {"used", "out"}) /\ (Sure(u) => Sure(w))
  BY <1>3, RequestLoose DEF CommandContexts, Selectors, Instances
<1> HIDE DEF w
<1> QED
  BY <1>1, <1>2, <1>3, <1>4 DEF v, Same

\* Starting over makes the editor sure of the bank in focus, whatever it was sure of.
LEMMA ObserveSettled ==
  ASSUME NEW e, CoreTypes, Loose(e)
  PROVE  LET v == Observe(e)
         IN  /\ Settled(v)
             /\ Same(e, v, EditorFields \ {"busy", "pending", "target", "analyzer", "curve",
                                           "used", "out"})
<1> DEFINE but == {"busy", "pending", "target", "analyzer", "curve", "used", "out"}
<1>1. CASE ~e.active
  <2>1. Observe(e) = e
    BY <1>1 DEF Observe
  <2> QED
    BY <1>1, <2>1 DEF Settled, Sure, Same
<1>2. CASE e.active
  <2> DEFINE a == SetBusy(e, TRUE)
             b == [a EXCEPT !.curve = NoCurve, !.analyzer = InvalidateAnalyzer(@)]
             c == InvalidateTarget(b)
             d == [c EXCEPT !.target = NewTargetState(e.focus)]
             f == RequestContexts(d)
             v == FetchBankSnapshots(f)
  <2>1. Observe(e) = v
    BY <1>2 DEF Observe
  <2>2. Loose(a) /\ Same(e, a, EditorFields \ {"busy"}) /\ a.busy = TRUE
    BY SetBusyLoose
  <2>3. Shaped(b, EditorFields) /\ Same(a, b, EditorFields \ {"curve", "analyzer"})
    BY <2>2, ShapeOf, Zenon DEF Shaped, Same, EditorFields
  <2> HIDE DEF a
  <2> HIDE DEF b
  <2>4. Loose(b)
    BY <2>2, <2>3, FieldTypes, AsideLoose DEF Same, EditorFields
  <2>5. /\ Loose(c) /\ Same(b, c, EditorFields \ {"target", "pending"})
        /\ \A p \in c.pending : p.current => ~IsEdit(p)
    BY <2>4, InvalidateTargetLoose
  <2> HIDE DEF c
  <2>6. /\ Shaped(d, EditorFields) /\ Same(c, d, EditorFields \ {"target"})
        /\ d.target = NewTargetState(e.focus)
    BY <2>5, ShapeOf, Zenon DEF Shaped, Same, EditorFields
  <2> HIDE DEF d
  <2>7. Loose(d) /\ d.target.target = e.focus
    BY <2>5, <2>6, FieldTypes, RetargetLoose DEF NewTargetState
  <2>8. /\ d.focus = e.focus /\ d.active = e.active /\ d.busy = TRUE /\ d.pending = c.pending
    BY <2>2, <2>3, <2>5, <2>6 DEF Same, EditorFields
  <2>9. /\ Loose(f) /\ Same(d, f, EditorFields \ {"used", "out", "target"})
        /\ Same(d.target, f.target, TargetFields \ {"requests"})
    BY <2>7, <2>8, RequestContextsLoose
  <2> HIDE DEF f
  <2>10. Sure(f)
    BY <2>5, <2>7, <2>8, <2>9 DEF Same, EditorFields, TargetFields, Sure
  <2>11. /\ Loose(v) /\ Same(f, v, EditorFields \ {"analyzer", "used", "out"}) /\ Sure(v)
    BY <2>9, <2>10, FetchBankSnapshotsLoose
  <2> HIDE DEF v
  <2>12. Same(e, v, EditorFields \ but)
    BY <2>2, <2>3, <2>5, <2>6, <2>9, <2>11 DEF Same
  <2> QED
    BY <2>1, <2>11, <2>12 DEF Settled
<1> QED
  BY <1>1, <1>2

\* A command whose completion the editor waits for.
LEMMA SendLoose ==
  ASSUME NEW e, CoreTypes, Loose(e), NEW kind \in Selectors, kind # "observe_target",
         NEW i \in Instances, NEW x \in CommandContexts, kind = "write" => x \in ContextSet,
         kind = "group_banks" => x \in Instances, kind = "write" => Looks(e, i),
         NEW of \in Kinds
  PROVE  LET v == Send(e, Command(kind, i, x), of)
         IN  /\ Loose(v) /\ Same(e, v, EditorFields \ {"pending", "used", "out"})
             /\ (Sure(e) /\ (of \in {"initialize", "connect"} \/ ~e.active \/ e.target.ready)
                   => Sure(v))
<1> DEFINE command == Command(kind, i, x)
           p == [request |-> NextId(e), kind |-> of, current |-> TRUE, scope |-> e.scope,
                 front |-> command.target]
           u == [e EXCEPT !.pending = @ \cup {p}]
           v == Send(e, command, of)
<1>1. NextId(e) \in Nat
  BY NextIdFacts DEF Loose, Fresh
<1>2. p \in Completions /\ p.kind = of
  BY <1>1, FieldTypes DEF Completions, Command
<1>3. v = Request(u, command)
  <2>1. u.used = e.used
    BY ShapeOf, Zenon DEF Shaped, EditorFields
  <2> QED
    BY <2>1 DEF Send
<1>4. Shaped(u, EditorFields) /\ Same(e, u, EditorFields \ {"pending"})
      /\ u.pending = e.pending \cup {p}
  BY ShapeOf, Zenon DEF Shaped, Same, EditorFields
<1> HIDE DEF u, v, p
<1>5. /\ u.unopened = e.unopened /\ u.initialized = e.initialized /\ u.active = e.active
      /\ u.owner = e.owner /\ u.busy = e.busy /\ u.scope = e.scope /\ u.restored = e.restored
      /\ u.focus = e.focus /\ u.target = e.target /\ u.used = e.used /\ u.out = e.out
  BY <1>4 DEF Same, EditorFields
<1>6. EditorTypes(u)
  BY <1>2, <1>4, <1>5, OneMore DEF Loose, EditorTypes
<1>7. Loose(u)
  BY <1>5, <1>6, LooseAside
<1>8. kind = "write" => Looks(u, i)
  BY <1>5 DEF Looks, Box
<1>9. Loose(v) /\ Same(u, v, EditorFields \ {"used", "out"}) /\ (Sure(u) => Sure(v))
  BY <1>3, <1>7, <1>8, RequestLoose
<1>10. Sure(e) /\ (of \in {"initialize", "connect"} \/ ~e.active \/ e.target.ready) => Sure(u)
  BY <1>2, <1>4, <1>5 DEF Sure, IsEdit
<1>11. Same(e, v, EditorFields \ {"pending", "used", "out"})
  BY <1>4, <1>9 DEF Same
<1> QED
  BY <1>9, <1>10, <1>11 DEF v

-----------------------------------------------------------------------------
(* The session.                                                            *)

\* A target nothing was asked for yet.
LEMMA NewTarget ==
  ASSUME NEW t, NEW i, t = NewTargetState(i)
  PROVE  Shaped(t, TargetFields) /\ t.target = i /\ t.requests = << >> /\ t.ready = FALSE
BY DEF NewTargetState, Shaped, TargetFields, NoValues

\* An editor whose session is not active is sure of nothing.
LEMMA Inactive ==
  ASSUME NEW e, Loose(e), e.active = FALSE
  PROVE  Settled(e)
BY DEF Settled, Sure

\* The first command of a session.
LEMMA InitializeSettled ==
  ASSUME NEW e, CoreTypes, Settled(e)
  PROVE  Settled(Initialize(e))
<1>0. Loose(e) /\ Sure(e)
  BY DEF Settled
<1> DEFINE u == [e EXCEPT !.unopened = FALSE]
<1>1. Shaped(u, EditorFields) /\ Same(e, u, EditorFields \ {"unopened"}) /\ u.unopened = FALSE
  BY <1>0, ShapeOf, Zenon DEF Shaped, Same, EditorFields
<1>2. Initialize(e) = Send(u, Command("initialize", Own, NoContext), "initialize")
  BY DEF Initialize
<1> HIDE DEF u
<1>3. Loose(u) /\ Sure(u)
  <2>1. Loose(u)
    BY <1>0, <1>1, FieldTypes, AsideLoose DEF Same, EditorFields
  <2>2. Sure(u)
    BY <1>0, <1>1, SureAside DEF Same, EditorFields
  <2> QED
    BY <2>1, <2>2
<1> QED
  BY <1>2, <1>3, SendLoose DEF Settled, CommandContexts, Selectors, Instances, Kinds

\* An editor that closes leaves a new one behind, and its last command.
LEMMA CloseSettled ==
  ASSUME NEW e, CoreTypes, Settled(e), e.out = << >>
  PROVE  Settled(Close(e))
<1> DEFINE u == [NewEditor EXCEPT !.restored = e.restored, !.used = e.used]
<1>1. Shaped(NewEditor, EditorFields)
  BY Zenon DEF Shaped, EditorFields, NewEditor
<1>2. /\ Shaped(u, EditorFields) /\ Same(NewEditor, u, EditorFields \ {"restored", "used"})
      /\ u.restored = e.restored /\ u.used = e.used
  BY <1>1, Zenon DEF Shaped, Same, EditorFields
<1>3. /\ u.unopened = TRUE /\ u.initialized = FALSE /\ u.active = FALSE /\ u.owner = FALSE
      /\ u.busy = TRUE /\ u.focus = Own /\ u.scope = FALSE /\ u.pending = {}
      /\ u.target = NewTargetState(Own) /\ u.restored = e.restored /\ u.used = e.used
      /\ u.out = << >>
  BY <1>2 DEF Same, EditorFields, NewEditor
<1>4. Close(e) = Request(u, Command("set_instance_active", Own, Closing))
  BY DEF Close
<1> HIDE DEF u
<1>5. /\ Shaped(u.target, TargetFields) /\ u.target.target = Own /\ u.target.requests = << >>
  BY <1>3, NewTarget
<1>51. DOMAIN u.target.requests = {}
  BY <1>5
<1>6. EditorTypes(u)
  <2>1. Own \in Instances /\ e.restored \in BOOLEAN /\ u.out \in Seq(Commands)
    BY <1>3, FieldTypes DEF Instances, Settled
  <2>2. TargetTypes(u.target)
    BY <1>5, <1>51, <2>1, FS_EmptySet DEF TargetTypes
  <2> QED
    BY <1>2, <1>3, <2>1, <2>2, FS_EmptySet DEF EditorTypes
<1>7. Fresh(u)
  <2>1. Ids(u.out) = Ids(e.out)
    BY <1>3
  <2> QED
    BY <1>3, <1>51, <2>1 DEF Settled, Loose, Fresh
<1>8. Landing(Box(u), Told, selection, u.target) /\ Writes(Box(u), selection)
  BY <1>3, LandingForgets DEF Settled, Loose, Box
<1>9. Loose(u) /\ Sure(u)
  BY <1>3, <1>6, <1>7, <1>8 DEF Loose, Sure
<1> QED
  BY <1>4, <1>9, RequestLoose DEF Settled, CommandContexts, Selectors, Instances

\* A session that fails is not active any more.
LEMMA FailSettled ==
  ASSUME NEW e, Loose(e)
  PROVE  /\ Settled(Fail(e)) /\ Fail(e).active = FALSE
         /\ Same(e, Fail(e), EditorFields \ {"active", "pending"})
<1> DEFINE u == [e EXCEPT !.active = FALSE]
<1>1. Shaped(u, EditorFields) /\ Same(e, u, EditorFields \ {"active"}) /\ u.active = FALSE
  BY ShapeOf, Zenon DEF Shaped, Same, EditorFields
<1>2. Fail(e) = Outdate(u, Connects(e))
  BY DEF Fail
<1> HIDE DEF u
<1>3. Loose(u) /\ u.pending = e.pending
  <2>1. Loose(u)
    BY <1>1, FieldTypes, AsideLoose DEF Same, EditorFields
  <2>2. u.pending = e.pending
    BY <1>1 DEF Same, EditorFields
  <2> QED
    BY <2>1, <2>2
<1>4. Connects(e) \subseteq u.pending
  BY <1>3 DEF Connects
<1>5. Loose(Fail(e)) /\ Same(u, Fail(e), EditorFields \ {"pending"})
  BY <1>2, <1>3, <1>4, OutdateLoose
<1>6. Fail(e).active = FALSE /\ Same(e, Fail(e), EditorFields \ {"active", "pending"})
  BY <1>1, <1>5 DEF Same, EditorFields
<1> QED
  BY <1>5, <1>6, Inactive

\* A new attempt to connect.
LEMMA ActivateSettled ==
  ASSUME NEW e, CoreTypes, Loose(e), e.active = FALSE
  PROVE  Settled(Activate(e))
<1> DEFINE a == [e EXCEPT !.owner = TRUE]
           b == Outdate(a, Connects(e))
           c == InvalidateTarget(b)
           d == [c EXCEPT !.registry = InvalidateRegistry(@)]
           f == SetBusy(d, TRUE)
           v == Send(f, Command("set_instance_active", Own, NoContext), "connect")
<1>1. Activate(e) = v
  BY DEF Activate
<1>2. Shaped(a, EditorFields) /\ Same(e, a, EditorFields \ {"owner"}) /\ a.owner = TRUE
  BY ShapeOf, Zenon DEF Shaped, Same, EditorFields
<1> HIDE DEF a
<1>3. Loose(a) /\ Connects(e) \subseteq a.pending
  <2>1. Loose(a)
    BY <1>2, FieldTypes, AsideLoose DEF Same, EditorFields
  <2>2. a.pending = e.pending
    BY <1>2 DEF Same, EditorFields
  <2> QED
    BY <2>1, <2>2 DEF Connects
<1>4. Loose(b) /\ Same(a, b, EditorFields \ {"pending"})
  BY <1>3, OutdateLoose
<1> HIDE DEF b
<1>5. Loose(c) /\ Same(b, c, EditorFields \ {"target", "pending"})
  BY <1>4, InvalidateTargetLoose
<1> HIDE DEF c
<1>6. Shaped(d, EditorFields) /\ Same(c, d, EditorFields \ {"registry"})
  BY <1>5, ShapeOf, Zenon DEF Shaped, Same, EditorFields
<1> HIDE DEF d
<1>7. Loose(d)
  BY <1>5, <1>6, FieldTypes, AsideLoose DEF Same, EditorFields
<1>8. Loose(f) /\ Same(d, f, EditorFields \ {"busy"})
  BY <1>7, SetBusyLoose
<1> HIDE DEF f
<1>9. f.active = FALSE
  BY <1>2, <1>4, <1>5, <1>6, <1>8 DEF Same, EditorFields
<1>11. Loose(v) /\ Same(f, v, EditorFields \ {"pending", "used", "out"})
  BY <1>8, SendLoose DEF CommandContexts, Selectors, Instances, Kinds
<1> HIDE DEF v
<1>12. v.active = FALSE
  BY <1>9, <1>11 DEF Same, EditorFields
<1> QED
  BY <1>1, <1>11, <1>12, Inactive

\* The editor of another instance takes over.
LEMMA DeactivatedSettled ==
  ASSUME NEW e, CoreTypes, Loose(e)
  PROVE  Settled(Deactivated(e)) /\ Deactivated(e).out = e.out
<1> DEFINE a == [e EXCEPT !.active = FALSE, !.owner = FALSE]
           b == InvalidateTarget(a)
           c == [b EXCEPT !.analyzer = InvalidateAnalyzer(@)]
           v == SetBusy(c, TRUE)
<1>1. Deactivated(e) = v
  BY DEF Deactivated
<1>2. Shaped(a, EditorFields) /\ Same(e, a, EditorFields \ {"active", "owner"})
      /\ a.active = FALSE /\ a.owner = FALSE
  BY ShapeOf, Zenon DEF Shaped, Same, EditorFields
<1> HIDE DEF a
<1>3. Loose(a)
  BY <1>2, FieldTypes, AsideLoose DEF Same, EditorFields
<1>4. Loose(b) /\ Same(a, b, EditorFields \ {"target", "pending"})
  BY <1>3, InvalidateTargetLoose
<1> HIDE DEF b
<1>5. Shaped(c, EditorFields) /\ Same(b, c, EditorFields \ {"analyzer"})
  BY <1>4, ShapeOf, Zenon DEF Shaped, Same, EditorFields
<1> HIDE DEF c
<1>6. Loose(c)
  BY <1>4, <1>5, FieldTypes, AsideLoose DEF Same, EditorFields
<1>7. Loose(v) /\ Same(c, v, EditorFields \ {"busy"})
  BY <1>6, SetBusyLoose
<1> HIDE DEF v
<1>8. v.active = FALSE /\ v.out = e.out
  BY <1>2, <1>4, <1>5, <1>7 DEF Same, EditorFields
<1> QED
  BY <1>1, <1>7, <1>8, Inactive

\* The core has answered the attempt to connect.
LEMMA ConnectedSettled ==
  ASSUME NEW e, CoreTypes, Settled(e), NEW p, NEW accepted \in BOOLEAN
  PROVE  Settled(Connected(e, p, accepted))
<1>0. Loose(e)
  BY DEF Settled
<1>1. CASE ~e.owner \/ ~p.current
  BY <1>1 DEF Connected
<1>2. CASE ~(~e.owner \/ ~p.current) /\ accepted
  <2> DEFINE u == [e EXCEPT !.active = TRUE]
  <2>1. Shaped(u, EditorFields) /\ Same(e, u, EditorFields \ {"active"}) /\ u.active = TRUE
    BY <1>0, ShapeOf, Zenon DEF Shaped, Same, EditorFields
  <2>2. Connected(e, p, accepted) = Observe(FetchRegistry(u))
    BY <1>2 DEF Connected
  <2> HIDE DEF u
  <2>3. Loose(u)
    BY <1>0, <2>1, FieldTypes, AsideLoose DEF Same, EditorFields
  <2>4. Loose(FetchRegistry(u))
    BY <2>3, FetchRegistryLoose
  <2> QED
    BY <2>2, <2>4, ObserveSettled
<1>3. CASE ~(~e.owner \/ ~p.current) /\ ~accepted
  <2> DEFINE u == [e EXCEPT !.active = FALSE]
  <2>1. Shaped(u, EditorFields) /\ Same(e, u, EditorFields \ {"active"}) /\ u.active = FALSE
    BY <1>0, ShapeOf, Zenon DEF Shaped, Same, EditorFields
  <2>2. Connected(e, p, accepted) = SetBusy(u, TRUE)
    BY <1>3 DEF Connected
  <2> HIDE DEF u
  <2>3. Loose(u)
    BY <1>0, <2>1, FieldTypes, AsideLoose DEF Same, EditorFields
  <2>4. Loose(SetBusy(u, TRUE)) /\ Same(u, SetBusy(u, TRUE), EditorFields \ {"busy"})
    BY <2>3, SetBusyLoose
  <2>5. SetBusy(u, TRUE).active = FALSE
    BY <2>1, <2>4 DEF Same, EditorFields
  <2> QED
    BY <2>2, <2>4, <2>5, Inactive
<1> QED
  BY <1>1, <1>2, <1>3

-----------------------------------------------------------------------------
(* Completions.                                                            *)

\* A handler that changes what neither Loose nor Sure looks at.
LEMMA AsideSettled ==
  ASSUME NEW e, NEW v, Settled(e), Shaped(v, EditorFields),
         Same(e, v, {"active", "busy", "focus", "pending", "target", "used", "out"}),
         v.unopened \in BOOLEAN, v.initialized \in BOOLEAN, v.owner \in BOOLEAN,
         v.scope \in BOOLEAN, v.restored \in BOOLEAN
  PROVE  Settled(v)
BY FieldTypes, AsideLoose, SureAside DEF Settled, Same

\* The types of a settled editor.
LEMMA SettledTypes ==
  ASSUME NEW e, Settled(e)
  PROVE  /\ Loose(e) /\ Shaped(e, EditorFields)
         /\ e.unopened \in BOOLEAN /\ e.initialized \in BOOLEAN /\ e.active \in BOOLEAN
         /\ e.owner \in BOOLEAN /\ e.busy \in BOOLEAN /\ e.scope \in BOOLEAN
         /\ e.restored \in BOOLEAN /\ e.focus \in Instances
BY FieldTypes DEF Settled

\* A command whose completion the editor waited for is answered.
LEMMA CommandSettled ==
  ASSUME NEW e, CoreTypes, Settled(e), NEW p, NEW accepted,
         e.active /\ p.current => e.target.ready
  PROVE  Settled(CommandCompletion(e, p, accepted))
BY SetBusyLoose, ObserveSettled DEF Settled, CommandCompletion

\* The banks are grouped, and the focus moves to the first of them.
LEMMA GroupSettled ==
  ASSUME NEW e, CoreTypes, Settled(e), NEW p, p.front \in Instances, NEW accepted
  PROVE  Settled(GroupCompletion(e, p, accepted))
<1> DEFINE u == [e EXCEPT !.focus = p.front, !.scope = TRUE]
<1>0. Loose(e)
  BY DEF Settled
<1>1. /\ Shaped(u, EditorFields) /\ Same(e, u, EditorFields \ {"focus", "scope"})
      /\ u.focus = p.front /\ u.scope = TRUE
  BY <1>0, ShapeOf, Zenon DEF Shaped, Same, EditorFields
<1>2. GroupCompletion(e, p, accepted) \in {Observe(u), Observe(e)}
  BY DEF GroupCompletion
<1> HIDE DEF u
<1>3. Loose(u)
  BY <1>0, <1>1, FieldTypes, AsideLoose DEF Same, EditorFields
<1> QED
  BY <1>0, <1>2, <1>3, ObserveSettled

\* The group is dissolved.
LEMMA UngroupSettled ==
  ASSUME NEW e, CoreTypes, Settled(e), NEW p, NEW accepted,
         e.active /\ p.current => e.target.ready
  PROVE  Settled(UngroupCompletion(e, p, accepted))
BY ShapeOf, SettledTypes, AsideSettled, CommandSettled DEF Settled, Shaped, Same, EditorFields,
   UngroupCompletion

\* A completion finds the editor sure of its bank if it was made for an edit.
LEMMA CompleteSettled ==
  ASSUME NEW e, CoreTypes, Settled(e), NEW p \in e.pending, NEW accepted \in BOOLEAN
  PROVE  Settled(Complete(e, p, accepted))
<1> DEFINE s == [e EXCEPT !.pending = @ \ {p}]
           u == [s EXCEPT !.initialized = accepted]
<1>0. Loose(e) /\ Sure(e)
  BY DEF Settled
<1>1. /\ Shaped(s, EditorFields) /\ Same(e, s, EditorFields \ {"pending"})
      /\ s.pending = e.pending \ {p}
  BY <1>0, ShapeOf, Zenon DEF Shaped, Same, EditorFields
<1>2. /\ p \in Completions
      /\ p.kind \notin {"initialize", "connect"} /\ e.active /\ p.current => e.target.ready
  <2>1. p \in Completions
    BY <1>0 DEF Loose, EditorTypes
  <2> QED
    BY <2>1, <1>0 DEF Sure, IsEdit
<1>3. /\ p.kind = "initialize" => Complete(e, p, accepted) = u
      /\ p.kind = "connect" => Complete(e, p, accepted) = Connected(s, p, accepted)
      /\ p.kind = "group" => Complete(e, p, accepted) = GroupCompletion(s, p, accepted)
      /\ p.kind = "ungroup" => Complete(e, p, accepted) = UngroupCompletion(s, p, accepted)
      /\ p.kind = "write" => Complete(e, p, accepted) = WriteCompletion(s, p, accepted)
      /\ p.kind \notin {"initialize", "connect", "group", "ungroup", "write"} =>
           Complete(e, p, accepted) = CommandCompletion(s, p, accepted)
  BY DEF Complete
<1> HIDE DEF s
<1>4. /\ s.unopened = e.unopened /\ s.initialized = e.initialized /\ s.active = e.active
      /\ s.owner = e.owner /\ s.busy = e.busy /\ s.scope = e.scope /\ s.restored = e.restored
      /\ s.focus = e.focus /\ s.used = e.used /\ s.target = e.target /\ s.out = e.out
  BY <1>1 DEF Same, EditorFields
<1>5. Settled(s)
  <2>1. s.pending \subseteq Completions /\ IsFiniteSet(s.pending)
    BY <1>0, <1>1, FS_Subset DEF Loose, EditorTypes
  <2>2. EditorTypes(s)
    BY <1>0, <1>1, <1>4, <2>1 DEF Loose, EditorTypes
  <2>3. Loose(s)
    BY <1>0, <1>4, <2>2, LooseAside
  <2>4. Sure(s)
    BY <1>0, <1>1, <1>4 DEF Sure
  <2> QED
    BY <2>3, <2>4 DEF Settled
<1>6. CASE p.kind = "initialize"
  BY <1>1, <1>3, <1>5, <1>6, SettledTypes, AsideSettled DEF Shaped, Same, EditorFields
<1> HIDE DEF u
<1>7. CASE p.kind = "connect"
  BY <1>3, <1>5, <1>7, ConnectedSettled
<1>8. CASE p.kind = "group"
  <2>1. p.front \in Instances
    BY <1>2 DEF Completions
  <2> QED
    BY <1>3, <1>5, <1>8, <2>1, GroupSettled
<1>9. CASE p.kind = "ungroup"
  BY <1>2, <1>3, <1>4, <1>5, <1>9, UngroupSettled
<1>10. CASE p.kind = "write"
  BY <1>3, <1>5, <1>10, ObserveSettled DEF Settled, WriteCompletion
<1>11. CASE p.kind \notin {"initialize", "connect", "group", "ungroup", "write"}
  BY <1>2, <1>3, <1>4, <1>5, <1>11, CommandSettled
<1> QED
  BY <1>6, <1>7, <1>8, <1>9, <1>10, <1>11

\* An editor that is not active is settled, busy or not.
LEMMA BusyInactive ==
  ASSUME NEW e, Loose(e), e.active = FALSE
  PROVE  Settled(SetBusy(e, TRUE))
<1>1. Loose(SetBusy(e, TRUE)) /\ Same(e, SetBusy(e, TRUE), EditorFields \ {"busy"})
  BY SetBusyLoose
<1>2. SetBusy(e, TRUE).active = FALSE
  BY <1>1 DEF Same, EditorFields
<1> QED
  BY <1>1, <1>2, Inactive

\* A result or an error.
LEMMA HandleCompletionSettled ==
  ASSUME NEW e, CoreTypes, Settled(e), NEW frame \in Frames,
         frame.selector \in {"action_done", "error"}
  PROVE  Settled(HandleCompletion(e, frame))
<1> DEFINE waiting == {p \in e.pending : p.request = frame.request}
           accepted == frame.selector = "action_done" /\ frame.accepted
           after == IF waiting = {} THEN e
                    ELSE Complete(e, CHOOSE p \in waiting : TRUE, accepted)
           dropped == [after EXCEPT !.registry = CancelSnapshot(@, frame.request)]
<1>1. accepted \in BOOLEAN
  OBVIOUS
<1>2. HandleCompletion(e, frame) \in {after, dropped, SetBusy(Fail(dropped), TRUE)}
  BY DEF HandleCompletion
<1> HIDE DEF accepted
<1>3. Settled(after)
  <2>1. CASE waiting = {}
    BY <2>1
  <2>2. CASE waiting # {}
    <3>1. (CHOOSE p \in waiting : TRUE) \in e.pending
      BY <2>2
    <3> QED
      BY <1>1, <2>2, <3>1, CompleteSettled
  <2> QED
    BY <2>1, <2>2
<1> HIDE DEF after
<1>4. Shaped(dropped, EditorFields) /\ Same(after, dropped, EditorFields \ {"registry"})
  <2>1. Loose(after)
    BY <1>3 DEF Settled
  <2> QED
    BY <2>1, ShapeOf, Zenon DEF Shaped, Same, EditorFields
<1> HIDE DEF dropped
<1>5. Settled(dropped)
  BY <1>3, <1>4, SettledTypes, AsideSettled DEF Same, EditorFields
<1>6. Settled(SetBusy(Fail(dropped), TRUE))
  <2>1. Settled(Fail(dropped)) /\ Fail(dropped).active = FALSE
    BY <1>5, FailSettled DEF Settled
  <2> QED
    BY <2>1, BusyInactive DEF Settled
<1> QED
  BY <1>2, <1>3, <1>5, <1>6

-----------------------------------------------------------------------------
(* Frames.                                                                 *)

\* An answer to a request for a context: the core has turned to the bank.
LEMMA ApplySnapshotSettled ==
  ASSUME NEW e, CoreTypes, Settled(e), NEW frame, frame.request \in Told,
         SnapshotAnswers(e.target, frame)
  PROVE  Settled(ApplySnapshot(e, frame))
<1> DEFINE t == e.target
           u == HandleSnapshot(t, frame)
           v == [e EXCEPT !.target = u]
<1>0. Loose(e) /\ Sure(e) /\ TargetTypes(t) /\ EditorTypes(e) /\ Fresh(e)
      /\ Landing(Box(e), Told, selection, t) /\ Writes(Box(e), selection)
  BY DEF Settled, Loose, EditorTypes
<1>1. /\ Shaped(u, TargetFields) /\ u.target = t.target /\ u.requests = t.requests
      /\ u.accepted # {} /\ (t.ready => u.ready) /\ (u.ready = t.ready \/ u.ready = TRUE)
  BY <1>0 DEF HandleSnapshot, TargetTypes, Shaped, TargetFields
<1>2. ApplySnapshot(e, frame) = IF u.ready THEN SetBusy(v, FALSE) ELSE v
  BY DEF ApplySnapshot
<1>3. Shaped(v, EditorFields) /\ Same(e, v, EditorFields \ {"target"}) /\ v.target = u
  <2>1. Shaped(e, EditorFields)
    BY <1>0 DEF EditorTypes
  <2> HIDE DEF u, t
  <2> QED
    BY <2>1, Zenon DEF Shaped, Same, EditorFields
<1>4. Turned(t, Told)
  BY DEF SnapshotAnswers, IsSnapshotRequest, Turned
<1> HIDE DEF u, v
<1>5. /\ v.unopened = e.unopened /\ v.initialized = e.initialized /\ v.active = e.active
      /\ v.owner = e.owner /\ v.busy = e.busy /\ v.scope = e.scope /\ v.restored = e.restored
      /\ v.focus = e.focus /\ v.used = e.used /\ v.pending = e.pending /\ v.out = e.out
  BY <1>3 DEF Same, EditorFields
<1>6. EditorTypes(v)
  <2>1. TargetTypes(v.target)
    BY <1>0, <1>1, <1>3 DEF TargetTypes
  <2> QED
    BY <1>0, <1>3, <1>5, <2>1 DEF EditorTypes
<1>7. Fresh(v)
  BY <1>0, <1>1, <1>3, <1>5 DEF Fresh
<1>8. Box(v) = Box(e)
  BY <1>5 DEF Box
<1>9. Landing(Box(v), Told, selection, v.target)
  BY <1>0, <1>1, <1>3, <1>4, <1>8, LandingAccepts
<1>10. Loose(v)
  BY <1>0, <1>6, <1>7, <1>8, <1>9 DEF Loose
<1>11. Sure(v)
  BY <1>0, <1>1, <1>3, <1>5 DEF Sure
<1>12. u.ready => Settled(SetBusy(v, FALSE))
  BY <1>3, <1>10, <1>11, SetBusyLoose DEF Settled
<1> QED
  BY <1>2, <1>10, <1>11, <1>12 DEF Settled

\* A value that a notification changes in what is shown, or in what is gathered of it.
LEMMA ChangedLoose ==
  ASSUME NEW e, Settled(e), NEW frame
  PROVE  LET v == [e EXCEPT !.target = HandleChanged(@, frame)]
         IN  Loose(v) /\ Sure(v) /\ Same(e, v, EditorFields \ {"target"})
<1> DEFINE t == e.target
           u == HandleChanged(t, frame)
           v == [e EXCEPT !.target = HandleChanged(@, frame)]
<1>0. Loose(e) /\ Sure(e) /\ TargetTypes(t) /\ EditorTypes(e) /\ Fresh(e)
      /\ Landing(Box(e), Told, selection, t) /\ Writes(Box(e), selection)
  BY DEF Settled, Loose, EditorTypes
<1>1. /\ Shaped(u, TargetFields) /\ u.target = t.target /\ u.requests = t.requests
      /\ u.accepted = t.accepted /\ u.ready = t.ready
  BY <1>0 DEF HandleChanged, TargetTypes, Shaped, TargetFields
<1>3. Shaped(v, EditorFields) /\ Same(e, v, EditorFields \ {"target"}) /\ v.target = u
  <2>1. Shaped(e, EditorFields)
    BY <1>0 DEF EditorTypes
  <2> QED
    BY <2>1, Zenon DEF Shaped, Same, EditorFields
<1> HIDE DEF u, v
<1>5. /\ v.unopened = e.unopened /\ v.initialized = e.initialized /\ v.active = e.active
      /\ v.owner = e.owner /\ v.busy = e.busy /\ v.scope = e.scope /\ v.restored = e.restored
      /\ v.focus = e.focus /\ v.used = e.used /\ v.pending = e.pending /\ v.out = e.out
  BY <1>3 DEF Same, EditorFields
<1>6. EditorTypes(v)
  <2>1. TargetTypes(v.target)
    BY <1>0, <1>1, <1>3 DEF TargetTypes
  <2> QED
    BY <1>0, <1>3, <1>5, <2>1 DEF EditorTypes
<1>7. Fresh(v)
  BY <1>0, <1>1, <1>3, <1>5 DEF Fresh
<1>8. Box(v) = Box(e)
  BY <1>5 DEF Box
<1>9. Landing(Box(v), Told, selection, v.target)
  BY <1>0, <1>1, <1>3, <1>8, LandingSame
<1>10. Loose(v)
  BY <1>0, <1>6, <1>7, <1>8, <1>9 DEF Loose
<1>11. Sure(v)
  BY <1>0, <1>1, <1>3, <1>5 DEF Sure
<1> QED
  BY <1>3, <1>10, <1>11 DEF v

\* A notification that a value has changed.
LEMMA ApplyChangedSettled ==
  ASSUME NEW e, CoreTypes, Settled(e), NEW frame
  PROVE  Settled(ApplyChangedValue(e, frame))
BY ChangedLoose, FetchBankSnapshotsLoose DEF ApplyChangedValue, Settled

\* The curves of a bank.
LEMMA ApplyBankSnapshotsSettled ==
  ASSUME NEW e, CoreTypes, Settled(e), NEW frame
  PROVE  Settled(ApplyBankSnapshots(e, frame))
<1> DEFINE a == [e EXCEPT !.analyzer = HandleBanks(@)]
           b == IF e.analyzer.dirty THEN FetchBankSnapshots(a) ELSE a
           v == [b EXCEPT !.curve = frame.value]
<1>1. ApplyBankSnapshots(e, frame) = v
  BY DEF ApplyBankSnapshots
<1>2. Shaped(a, EditorFields) /\ Same(e, a, EditorFields \ {"analyzer"})
  <2>1. Shaped(e, EditorFields)
    BY SettledTypes
  <2> QED
    BY <2>1, Zenon DEF Shaped, Same, EditorFields
<1> HIDE DEF a
<1>3. Settled(a)
  BY <1>2, SettledTypes, AsideSettled DEF Same, EditorFields
<1>4. Settled(b)
  BY <1>3, FetchBankSnapshotsLoose DEF Settled
<1> HIDE DEF b
<1>5. Shaped(v, EditorFields) /\ Same(b, v, EditorFields \ {"curve"})
  <2>1. Shaped(b, EditorFields)
    BY <1>4, SettledTypes
  <2> QED
    BY <2>1, Zenon DEF Shaped, Same, EditorFields
<1> HIDE DEF v
<1>6. Settled(v)
  BY <1>4, <1>5, SettledTypes, AsideSettled DEF Same, EditorFields
<1> QED
  BY <1>1, <1>6

\* The cached registry has changed.
LEMMA RegistryChangedSettled ==
  ASSUME NEW e, CoreTypes, Settled(e)
  PROVE  Settled(RegistryChanged(e))
<1> DEFINE u == [e EXCEPT !.focus = Own, !.scope = FALSE]
           p == IF e.active /\ ~Find(e.registry, e.focus) THEN Observe(u) ELSE e
           h == p.scope /\ BankHasGroup(p.registry, p.focus)
           v == [p EXCEPT !.scope = @ /\ BankHasGroup(p.registry, p.focus)]
<1>1. RegistryChanged(e) = v
  BY DEF RegistryChanged
<1>2. /\ Shaped(u, EditorFields) /\ Same(e, u, EditorFields \ {"focus", "scope"})
      /\ u.focus = Own /\ u.scope = FALSE
  <2>1. Shaped(e, EditorFields)
    BY SettledTypes
  <2> QED
    BY <2>1, Zenon DEF Shaped, Same, EditorFields
<1> HIDE DEF u
<1>3. Loose(u)
  <2>1. Own \in Instances /\ Loose(e)
    BY DEF Instances, Settled
  <2> QED
    BY <2>1, <1>2, FieldTypes, AsideLoose DEF Same, EditorFields
<1>4. Settled(p)
  BY <1>3, ObserveSettled
<1> HIDE DEF p
<1>5. Shaped(v, EditorFields) /\ Same(p, v, EditorFields \ {"scope"}) /\ v.scope = h
  <2>1. Shaped(p, EditorFields)
    BY <1>4, SettledTypes
  <2> QED
    BY <2>1, Zenon DEF Shaped, Same, EditorFields
<1>6. h \in BOOLEAN
  OBVIOUS
<1> HIDE DEF v, h
<1>7. Settled(v)
  BY <1>4, <1>5, <1>6, SettledTypes, AsideSettled DEF Same, EditorFields
<1> QED
  BY <1>1, <1>7

\* A frame of the registry.
LEMMA ApplyRegistrySettled ==
  ASSUME NEW e, CoreTypes, Settled(e), NEW frame
  PROVE  Settled(ApplyRegistry(e, frame))
<1> DEFINE result == HandleRegistry(e.registry, frame)
           v == [e EXCEPT !.registry = result.client]
<1>1. ApplyRegistry(e, frame) \in {FetchRegistry(v), RegistryChanged(v), v}
  BY DEF ApplyRegistry
<1> HIDE DEF result
<1>2. Shaped(v, EditorFields) /\ Same(e, v, EditorFields \ {"registry"})
  <2>1. Shaped(e, EditorFields)
    BY SettledTypes
  <2> QED
    BY <2>1, Zenon DEF Shaped, Same, EditorFields
<1> HIDE DEF v
<1>3. Settled(v)
  BY <1>2, SettledTypes, AsideSettled DEF Same, EditorFields
<1>4. Settled(FetchRegistry(v))
  BY <1>3, FetchRegistryLoose DEF Settled
<1> QED
  BY <1>1, <1>3, <1>4, RegistryChangedSettled

\* A frame that the editor takes leaves it settled, one it refuses included.
LEMMA HandleOutputSettled ==
  ASSUME NEW e, CoreTypes, Settled(e), NEW frame \in Frames,
         frame.selector = "target_state_snapshot" => frame.request \in Told
  PROVE  Settled(HandleOutput(e, frame))
<1>1. Settled(RouteOutput(e, frame))
  <2>1. CASE frame.selector \in {"action_done", "error"}
    BY <2>1, HandleCompletionSettled DEF RouteOutput
  <2>2. CASE frame.selector = "target_state_snapshot"
    BY <2>2, ApplySnapshotSettled DEF RouteOutput
  <2>3. CASE frame.selector = "state_changed"
    BY <2>3, ApplyChangedSettled DEF RouteOutput
  <2>4. CASE frame.selector = "bank_state_snapshots"
    BY <2>4, ApplyBankSnapshotsSettled DEF RouteOutput
  <2>5. CASE frame.selector \notin {"action_done", "error", "target_state_snapshot",
                                    "state_changed", "bank_state_snapshots"}
    <3>1. RouteOutput(e, frame) = ApplyRegistry(e, frame)
      BY <2>5 DEF RouteOutput
    <3> QED
      BY <3>1, ApplyRegistrySettled
  <2> QED
    BY <2>1, <2>2, <2>3, <2>4, <2>5
<1> DEFINE a == [e EXCEPT !.registry = HandleRegistry(@, frame).client, !.curve = NoCurve]
           b == Fail(a)
           c == InvalidateTarget(b)
           d == [c EXCEPT !.analyzer = InvalidateAnalyzer(@)]
<1>2. HandleOutput(e, frame) \in {SetBusy(d, TRUE), RouteOutput(e, frame)}
  BY DEF HandleOutput
<1>3. Shaped(a, EditorFields) /\ Same(e, a, EditorFields \ {"registry", "curve"})
  <2>1. Shaped(e, EditorFields)
    BY SettledTypes
  <2> QED
    BY <2>1, Zenon DEF Shaped, Same, EditorFields
<1> HIDE DEF a
<1>4. Settled(a)
  BY <1>3, SettledTypes, AsideSettled DEF Same, EditorFields
<1>5. Loose(b) /\ b.active = FALSE
  BY <1>4, FailSettled DEF Settled
<1> HIDE DEF b
<1>6. Loose(c) /\ Same(b, c, EditorFields \ {"target", "pending"})
  BY <1>5, InvalidateTargetLoose
<1>7. c.active = FALSE
  BY <1>5, <1>6 DEF Same, EditorFields
<1> HIDE DEF c
<1>8. Shaped(d, EditorFields) /\ Same(c, d, EditorFields \ {"analyzer"})
  <2>1. Shaped(c, EditorFields)
    BY <1>6, ShapeOf
  <2> QED
    BY <2>1, Zenon DEF Shaped, Same, EditorFields
<1> HIDE DEF d
<1>9. Loose(d) /\ d.active = FALSE
  <2>1. Loose(d)
    BY <1>6, <1>8, FieldTypes, AsideLoose DEF Same, EditorFields
  <2>2. d.active = FALSE
    BY <1>7, <1>8 DEF Same, EditorFields
  <2> QED
    BY <2>1, <2>2
<1> QED
  BY <1>1, <1>2, <1>9, BusyInactive

-----------------------------------------------------------------------------
(* What the user does.                                                     *)

\* Another bank comes into focus.
LEMMA SelectTargetSettled ==
  ASSUME NEW e, CoreTypes, Settled(e), NEW i \in Instances
  PROVE  Settled(SelectTarget(e, i))
<1> DEFINE h == BankHasGroup(e.registry, i)
           u == [e EXCEPT !.focus = i, !.scope = BankHasGroup(e.registry, i)]
<1>1. SelectTarget(e, i) = Observe(u)
  BY DEF SelectTarget
<1>2. /\ Shaped(u, EditorFields) /\ Same(e, u, EditorFields \ {"focus", "scope"})
      /\ u.focus = i /\ u.scope = h
  <2>1. Shaped(e, EditorFields)
    BY SettledTypes
  <2> QED
    BY <2>1, Zenon DEF Shaped, Same, EditorFields
<1>3. h \in BOOLEAN
  BY DEF BankHasGroup
<1> HIDE DEF h, u
<1>4. Loose(u)
  <2>1. Loose(e)
    BY DEF Settled
  <2> QED
    BY <2>1, <1>2, <1>3, FieldTypes, AsideLoose DEF Same, EditorFields
<1> QED
  BY <1>1, <1>4, ObserveSettled

\* The user turns to the group, or back to the bank alone.
LEMMA ToggleScopeSettled ==
  ASSUME NEW e, CoreTypes, Settled(e)
  PROVE  Settled(ToggleScope(e))
<1> DEFINE v == ToggleScope(e)
<1>1. /\ Shaped(v, EditorFields) /\ Same(e, v, EditorFields \ {"scope"}) /\ v.scope = ~e.scope
  <2>1. Shaped(e, EditorFields)
    BY SettledTypes
  <2> QED
    BY <2>1, Zenon DEF Shaped, Same, EditorFields, ToggleScope
<1> HIDE DEF v
<1>2. Settled(v)
  BY <1>1, SettledTypes, AsideSettled DEF Same, EditorFields
<1> QED
  BY <1>2 DEF v

\* An editor that lets the user edit has been told of the bank in focus: the core looks
\* at it, and no command on its way makes the core look at another.
LEMMA EditableLooks ==
  ASSUME NEW e, Settled(e), Editable(e)
  PROVE  Looks(e, e.focus) /\ e.target.ready
<1>1. e.active /\ e.target.ready /\ e.target.target = e.focus
  BY DEF Settled, Sure, Editable
<1>2. Turned(e.target, Told)
  BY <1>1 DEF Settled, Loose, Landing, Turned
<1> QED
  BY <1>1, <1>2 DEF Settled, Loose, Landing, Looks

\* An edit the editor waits for, or a value that the user commits.
LEMMA EditSettled ==
  ASSUME NEW e, CoreTypes, Settled(e), Editable(e),
         NEW kind \in {"write", "command", "group_banks", "ungroup_banks"},
         NEW i \in Instances, kind = "write" => i = e.focus,
         NEW x \in CommandContexts, kind = "write" => x \in ContextSet,
         kind = "group_banks" => x \in Instances, NEW of \in Kinds
  PROVE  /\ Settled(Send(e, Command(kind, i, x), of))
         /\ kind # "write" => Settled(Send(SetBusy(e, TRUE), Command(kind, i, x), of))
<1> DEFINE b == SetBusy(e, TRUE)
<1>1. kind \in Selectors /\ kind # "observe_target"
  BY DEF Selectors
<1>2. Looks(e, e.focus) /\ e.target.ready /\ Loose(e) /\ Sure(e)
  BY EditableLooks DEF Settled
<1>3. kind = "write" => Looks(e, i)
  BY <1>2
<1>4. Settled(Send(e, Command(kind, i, x), of))
  BY <1>1, <1>2, <1>3, SendLoose DEF Settled
<1>5. Loose(b) /\ Sure(b) /\ b.target = e.target
  <2>1. Loose(b) /\ Same(e, b, EditorFields \ {"busy"}) /\ Sure(b)
    BY <1>2, SetBusyLoose
  <2> QED
    BY <2>1 DEF Same, EditorFields
<1> HIDE DEF b
<1>6. kind # "write" => Settled(Send(b, Command(kind, i, x), of))
  BY <1>1, <1>2, <1>5, SendLoose DEF Settled
<1> QED
  BY <1>4, <1>6 DEF b

\* What the user does in an editor that lets it.
LEMMA EditsSettled ==
  ASSUME NEW e, CoreTypes, Settled(e), Editable(e)
  PROVE  /\ \A c \in ContextSet : Settled(CommitDiscreteValue(e, c))
         /\ Settled(RunCommand(e)) /\ Settled(UngroupFocusedBank(e))
         /\ \A i, j \in Instances : Settled(GroupSelectedBanks(e, i, j))
<1>1. e.focus \in Instances
  BY SettledTypes
<1>2. ContextSet \subseteq CommandContexts /\ Instances \subseteq CommandContexts
      /\ NoContext \in CommandContexts
      /\ {"write", "command", "group", "ungroup"} \subseteq Kinds
  BY DEF CommandContexts, Kinds
<1>3. ASSUME NEW c \in ContextSet PROVE Settled(CommitDiscreteValue(e, c))
  <2>1. Settled(Send(e, Command("write", e.focus, c), "write"))
    BY <1>1, <1>2, EditSettled
  <2> QED
    BY <2>1 DEF CommitDiscreteValue
<1>4. Settled(RunCommand(e))
  <2>1. Settled(Send(SetBusy(e, TRUE), Command("command", e.focus, NoContext), "command"))
    BY <1>1, <1>2, EditSettled
  <2> QED
    BY <2>1 DEF RunCommand
<1>5. Settled(UngroupFocusedBank(e))
  BY <1>1, <1>2, EditSettled DEF UngroupFocusedBank
<1>6. ASSUME NEW i \in Instances, NEW j \in Instances PROVE Settled(GroupSelectedBanks(e, i, j))
  <2>1. Settled(Send(SetBusy(e, TRUE), Command("group_banks", i, j), "group"))
    BY <1>2, EditSettled
  <2> QED
    BY <2>1 DEF GroupSelectedBanks
<1> QED
  BY <1>3, <1>4, <1>5, <1>6

-----------------------------------------------------------------------------
(* The editor sends its commands.                                          *)

\* Between its handlers the editor is settled, once its ids are collected.
LEMMA ReadySettled ==
  ASSUME IInv
  PROVE  /\ Settled(Ready) /\ Ready.out = << >>
         /\ Same(editor, Ready, EditorFields \ {"used"})
<1>1. /\ CoreTypes /\ EditorTypes(editor) /\ editor.out = << >>
      /\ Landing(inbox, Told, selection, editor.target) /\ Writes(inbox, selection)
      /\ Sure(editor)
  BY DEF IInv
<1>2. /\ Shaped(Ready, EditorFields) /\ Same(editor, Ready, EditorFields \ {"used"})
      /\ Ready.used = InUse
  <2>1. Shaped(editor, EditorFields)
    BY <1>1 DEF EditorTypes
  <2> QED
    BY <2>1, Zenon DEF Shaped, Same, EditorFields, Ready
<1>3. /\ Ready.unopened = editor.unopened /\ Ready.initialized = editor.initialized
      /\ Ready.active = editor.active /\ Ready.owner = editor.owner /\ Ready.busy = editor.busy
      /\ Ready.scope = editor.scope /\ Ready.restored = editor.restored
      /\ Ready.focus = editor.focus /\ Ready.target = editor.target
      /\ Ready.pending = editor.pending /\ Ready.out = editor.out
  BY <1>2 DEF Same, EditorFields
<1>4. EditorTypes(Ready)
  BY <1>1, <1>2, <1>3 DEF EditorTypes
<1>5. IsFiniteSet(InUse)
  <2>1. IsFiniteSet(Ids(inbox)) /\ IsFiniteSet(Ids(reply)) /\ IsFiniteSet(Ids(frames))
    BY <1>1, IdsFinite DEF CoreTypes
  <2>2. IsFiniteSet({p.request : p \in editor.pending})
    <3> DEFINE f == [p \in editor.pending |-> p.request]
    <3>1. IsFiniteSet(editor.pending) /\ DOMAIN f = editor.pending
      BY <1>1 DEF EditorTypes
    <3>2. {f[p] : p \in editor.pending} = {p.request : p \in editor.pending}
      OBVIOUS
    <3> HIDE DEF f
    <3>3. IsFiniteSet({f[p] : p \in editor.pending})
      BY <3>1, ImageFinite, Zenon
    <3> QED
      BY <3>2, <3>3
  <2>3. IsFiniteSet(DOMAIN editor.target.requests)
    BY <1>1 DEF EditorTypes, TargetTypes
  <2> DEFINE A == {p.request : p \in editor.pending}
             C == IF FetchPending(editor.registry) THEN {editor.registry.fetch.request} ELSE {}
  <2>4. IsFiniteSet(C) /\ IsFiniteSet({editor.analyzer.request})
    BY FS_Singleton, FS_EmptySet
  <2>5. InUse = Ids(inbox) \cup Ids(reply) \cup Ids(frames) \cup A
                  \cup DOMAIN editor.target.requests \cup {editor.analyzer.request} \cup C
    BY DEF InUse
  <2> HIDE DEF A, C
  <2>6. IsFiniteSet(Ids(inbox) \cup Ids(reply))
    BY <2>1, FS_Union
  <2>7. IsFiniteSet(Ids(inbox) \cup Ids(reply) \cup Ids(frames))
    BY <2>1, <2>6, FS_Union
  <2>8. IsFiniteSet(A)
    BY <2>2 DEF A
  <2>9. IsFiniteSet(Ids(inbox) \cup Ids(reply) \cup Ids(frames) \cup A)
    BY <2>7, <2>8, FS_Union
  <2>10. IsFiniteSet(Ids(inbox) \cup Ids(reply) \cup Ids(frames) \cup A
                       \cup DOMAIN editor.target.requests)
    BY <2>3, <2>9, FS_Union
  <2> QED
    BY <2>4, <2>5, <2>10, FS_Union
<1>6. Fresh(Ready)
  <2>1. Ids(Ready.out) = {}
    BY <1>1, <1>3 DEF Ids
  <2> QED
    BY <1>2, <1>3, <1>5, <2>1 DEF Fresh, InUse
<1>7. Box(Ready) = inbox
  BY <1>1, <1>3 DEF Box, CoreTypes
<1>8. Sure(Ready)
  BY <1>1, <1>3, SureAside
<1> QED
  BY <1>1, <1>2, <1>3, <1>4, <1>6, <1>7, <1>8 DEF Settled, Loose

\* The ids in frames in a row.
LEMMA ToldJoins ==
  ASSUME NEW s \in Seq(Frames), NEW r \in Seq(Frames)
  PROVE  s \o r \in Seq(Frames) /\ ToldIn(s \o r) = ToldIn(s) \cup ToldIn(r)
<1> DEFINE j == s \o r
<1>1. /\ j \in Seq(Frames)
      /\ \A n \in DOMAIN s : j[n] = s[n] /\ n \in DOMAIN j
      /\ \A n \in DOMAIN r : j[Len(s) + n] = r[n] /\ Len(s) + n \in DOMAIN j
      /\ \A n \in DOMAIN j : (n \in DOMAIN s /\ j[n] = s[n])
                             \/ (n - Len(s) \in DOMAIN r /\ j[n] = r[n - Len(s)])
  BY Joins
<1> HIDE DEF j
<1>2. ToldIn(j) \subseteq ToldIn(s) \cup ToldIn(r)
  BY <1>1 DEF ToldIn
<1>3. ToldIn(s) \subseteq ToldIn(j)
  BY <1>1 DEF ToldIn
<1>4. ToldIn(r) \subseteq ToldIn(j)
  BY <1>1 DEF ToldIn
<1> QED
  BY <1>1, <1>2, <1>3, <1>4 DEF j

\* Frames that do not tell a value.
Mute(s) ==
    s \in Seq(Frames) /\ \A n \in DOMAIN s : s[n].selector # "target_state_snapshot"

\* They add nothing to what is told.
LEMMA MuteJoins ==
  ASSUME NEW s \in Seq(Frames), NEW r, Mute(r)
  PROVE  s \o r \in Seq(Frames) /\ ToldIn(s \o r) = ToldIn(s) /\ ToldIn(r) = {}
BY ToldJoins DEF Mute, ToldIn

\* The commands at the places J of a box are left, the others are answered with errors.
Posted(less, N, box, J) ==
    /\ Picks(less, box, J)
    /\ \A n \in DOMAIN N : /\ N[n].selector = "error"
                           /\ \E m \in DOMAIN box \ J : box[m].request = N[n].request
    /\ \A m \in DOMAIN box \ J :
         \E n \in DOMAIN N : "request" \in DOMAIN N[n] /\ N[n].request = box[m].request

\* What the editor sends goes to the queue of the core, but for the commands the queue
\* refuses: those are answered with errors.
LEMMA SentParts ==
  ASSUME CoreTypes, NEW e, EditorTypes(e), NEW rest \in Seq(Frames), NEW d, SendsAfter(d, e, rest)
  PROVE  /\ UNCHANGED coreVars /\ reply' = reply /\ inbox' \in Seq(Commands)
         /\ Shaped(editor', EditorFields) /\ Same(e, editor', EditorFields \ {"out", "used"})
         /\ editor'.out = << >> /\ editor'.used = {}
         /\ Box(e) \in Seq(Commands)
         /\ \E N \in Seq(Frames), J \in SUBSET (DOMAIN Box(e)) :
              Posted(inbox', N, Box(e), J) /\ frames' = rest \o N
<1>1. PICK refused \in SUBSET Ids(e.out) :
        /\ editor' = [e EXCEPT !.out = << >>, !.used = {}]
        /\ inbox' = inbox \o Kept(e.out, {n \in DOMAIN e.out : e.out[n].request \notin refused})
        /\ frames' = LET lost == Kept(e.out, {n \in DOMAIN e.out : e.out[n].request \in refused})
                     IN  rest \o [n \in DOMAIN lost |-> Error(lost[n])]
  BY DEF SendsAfter
<1> DEFINE l == Len(inbox)
           I == {n \in DOMAIN e.out : e.out[n].request \notin refused}
           L == {n \in DOMAIN e.out : e.out[n].request \in refused}
           J == (1..l) \cup {l + i : i \in I}
           kept == Kept(e.out, I)
           lost == Kept(e.out, L)
           N == [n \in DOMAIN lost |-> Error(lost[n])]
           box == inbox \o e.out
<1>2. Shaped(e, EditorFields) /\ e.out \in Seq(Commands) /\ inbox \in Seq(Commands)
  BY DEF EditorTypes, CoreTypes
<1>3. kept \in Seq(Commands) /\ lost \in Seq(Commands) /\ Picks(lost, e.out, L)
  BY <1>2, KeptFacts
<1>4. I \in SUBSET (DOMAIN e.out) /\ L = DOMAIN e.out \ I
  OBVIOUS
<1>5. Picks(inbox \o kept, box, J)
  <2> HIDE DEF I
  <2> QED
    BY <1>2, <1>4, KeptBehind, Zenon
<1>6. PICK k \in [1..Len(lost) -> L] : /\ \A n \in 1..Len(lost) : lost[n] = e.out[k[n]]
                                       /\ \A m \in L : \E n \in 1..Len(lost) : k[n] = m
  BY <1>3 DEF Picks
<1>7. frames' = rest \o N /\ inbox' = inbox \o kept
  BY <1>1
<1> HIDE DEF kept, lost, I, L
<1>8. \A n \in DOMAIN lost : /\ Error(lost[n]) \in Frames /\ Error(lost[n]).selector = "error"
                             /\ "request" \in DOMAIN Error(lost[n])
                             /\ Error(lost[n]).request = lost[n].request
  <2> TAKE n \in DOMAIN lost
  <2>1. lost[n].request \in Nat
    BY <1>3 DEF Commands
  <2> QED
    BY <2>1 DEF Error, Frames, Answers
<1>9. DOMAIN lost = 1..Len(lost) /\ Len(lost) \in Nat /\ N \in Seq(Frames)
  BY <1>3, <1>8
<1>10. /\ l \in Nat /\ DOMAIN e.out = 1..Len(e.out) /\ Len(e.out) \in Nat
       /\ DOMAIN box = 1..(l + Len(e.out)) /\ box \in Seq(Commands)
       /\ \A n \in 1..Len(e.out) : box[l + n] = e.out[n]
       /\ inbox \o kept \in Seq(Commands)
  BY <1>2, <1>3
<1> HIDE DEF box, l
<1>11. J \subseteq DOMAIN box /\ DOMAIN box \ J = {l + i : i \in L}
  <2>1. J \subseteq DOMAIN box
    BY <1>4, <1>10
  <2>2. ASSUME NEW m \in DOMAIN box \ J PROVE m \in {l + i : i \in L}
    <3>1. m - l \in 1..Len(e.out) /\ m = l + (m - l)
      BY <1>10
    <3> QED
      BY <3>1, <1>4, <1>10
  <2>3. ASSUME NEW i \in L PROVE l + i \in DOMAIN box \ J
    BY <1>4, <1>10
  <2> QED
    BY <2>1, <2>2, <2>3
<1>12. ASSUME NEW n \in DOMAIN N
       PROVE  /\ N[n].selector = "error"
              /\ \E m \in DOMAIN box \ J : box[m].request = N[n].request
  <2>1. n \in 1..Len(lost) /\ N[n] = Error(lost[n])
    BY <1>9
  <2>2. l + k[n] \in DOMAIN box \ J /\ box[l + k[n]] = lost[n]
    BY <2>1, <1>4, <1>6, <1>10, <1>11
  <2> QED
    BY <2>1, <2>2, <1>8, <1>9
<1>13. ASSUME NEW m \in DOMAIN box \ J
       PROVE  \E n \in DOMAIN N : "request" \in DOMAIN N[n] /\ N[n].request = box[m].request
  <2>1. PICK i \in L : m = l + i
    BY <1>11
  <2>2. PICK n \in 1..Len(lost) : k[n] = i
    BY <2>1, <1>6
  <2>3. n \in DOMAIN N /\ N[n] = Error(lost[n]) /\ box[m] = lost[n]
    BY <2>1, <2>2, <1>4, <1>6, <1>9, <1>10
  <2> QED
    BY <2>3, <1>8, <1>9
<1>14. /\ Shaped(editor', EditorFields) /\ Same(e, editor', EditorFields \ {"out", "used"})
       /\ editor'.out = << >> /\ editor'.used = {}
  BY <1>1, <1>2, Zenon DEF Shaped, Same, EditorFields
<1>15. UNCHANGED coreVars /\ reply' = reply
  BY DEF SendsAfter
<1> HIDE DEF N, J
<1>16. box = Box(e)
  BY DEF box, Box
<1>17. Posted(inbox', N, Box(e), J)
  BY <1>5, <1>7, <1>12, <1>13, <1>16 DEF Posted
<1> QED
  BY <1>7, <1>9, <1>10, <1>11, <1>14, <1>15, <1>16, <1>17

\* The rest of the commands joins those on their way.
LEMMA SendsKeeps ==
  ASSUME CoreTypes, NEW e, Settled(e),
         NEW rest \in Seq(Frames), ToldIn(rest) \subseteq ToldIn(frames),
         NEW d, SendsAfter(d, e, rest)
  PROVE  IInv'
<1>1. /\ EditorTypes(e) /\ Sure(e) /\ Shaped(e, EditorFields)
      /\ Landing(Box(e), Told, selection, e.target) /\ Writes(Box(e), selection)
  BY DEF Settled, Loose, EditorTypes
<1>2. /\ UNCHANGED coreVars /\ reply' = reply /\ inbox' \in Seq(Commands)
      /\ Shaped(editor', EditorFields) /\ Same(e, editor', EditorFields \ {"out", "used"})
      /\ editor'.out = << >> /\ editor'.used = {} /\ Box(e) \in Seq(Commands)
  BY <1>1, SentParts
<1>3. PICK N \in Seq(Frames), J \in SUBSET (DOMAIN Box(e)) :
         Posted(inbox', N, Box(e), J) /\ frames' = rest \o N
  BY <1>1, SentParts
<1>4. Mute(N)
  BY <1>3 DEF Mute, Posted
<1>5. frames' \in Seq(Frames) /\ ToldIn(frames') \subseteq ToldIn(frames)
  BY <1>3, <1>4, MuteJoins
<1>9. CoreTypes'
  BY <1>2, <1>5 DEF CoreTypes, coreVars
<1>10. Told' \subseteq Told
  BY <1>2, <1>5 DEF Told
<1>12. /\ editor'.unopened = e.unopened /\ editor'.initialized = e.initialized
       /\ editor'.active = e.active /\ editor'.owner = e.owner /\ editor'.busy = e.busy
       /\ editor'.scope = e.scope /\ editor'.restored = e.restored /\ editor'.focus = e.focus
       /\ editor'.target = e.target /\ editor'.pending = e.pending
  BY <1>2 DEF Same, EditorFields
<1>13. EditorTypes(editor')
  <2>1. << >> \in Seq(Commands)
    OBVIOUS
  <2> QED
    BY <1>1, <1>2, <1>12, <2>1 DEF EditorTypes
<1>14. Sure(editor')
  BY <1>1, <1>12, SureAside
<1>15. PICK box, less : box = Box(e) /\ less = inbox'
  OBVIOUS
<1>16. PICK o \in [DOMAIN less -> DOMAIN box] :
         /\ \A n \in DOMAIN less : less[n] = box[o[n]]
         /\ \A m, n \in DOMAIN less : m < n => o[m] < o[n]
  <2>1. Picks(less, box, J) /\ DOMAIN less = 1..Len(less)
    BY <1>2, <1>3, <1>15 DEF Posted
  <2> QED
    BY <2>1, <1>15 DEF Picks
<1>17. DOMAIN box \subseteq Nat /\ DOMAIN less \subseteq Nat
  BY <1>2, <1>15
<1>18. Landing(less, Told', selection, e.target) /\ Writes(less, selection)
  <2>1. Landing(box, Told, selection, e.target) /\ Writes(box, selection)
    BY <1>1, <1>15
  <2>2. Told' \cap DOMAIN e.target.requests \subseteq Told
    BY <1>10
  <2> QED
    BY <2>1, <2>2, <1>16, <1>17, LandingFewer, WritesFewer
<1>19. inbox' = less /\ selection' = selection /\ editor'.target = e.target
  BY <1>2, <1>12, <1>15 DEF coreVars
<1> QED
  BY <1>2, <1>9, <1>13, <1>14, <1>18, <1>19 DEF IInv

-----------------------------------------------------------------------------
(* The core.                                                               *)

\* Fewer answers on their way.
LEMMA LandingLess ==
  ASSUME NEW box, NEW told, NEW less, NEW s, NEW t, Landing(box, told, s, t), less \subseteq told
  PROVE  Landing(box, less, s, t)
BY DEF Landing, Turned

\* A step that neither turns the core to another bank nor tells a value.
LEMMA CoreStep ==
  ASSUME IInv, CoreTypes', Told' \subseteq Told, selection' = selection,
         EditorTypes(editor'), editor'.target = editor.target, editor'.active = editor.active,
         editor'.busy = editor.busy, editor'.focus = editor.focus,
         editor'.pending = editor.pending, editor'.out = << >>, editor'.used = {},
         inbox' = inbox \/ (inbox # << >> /\ inbox' = Tail(inbox))
  PROVE  IInv'
<1>1. Landing(inbox, Told', selection, editor.target) /\ Writes(inbox, selection)
  BY LandingLess DEF IInv
<1>2. inbox \in Seq(Commands)
  BY DEF IInv, CoreTypes
<1>3. Landing(inbox', Told', selection, editor.target) /\ Writes(inbox', selection)
  <2>1. CASE inbox' = inbox
    BY <2>1, <1>1
  <2>2. CASE inbox # << >> /\ inbox' = Tail(inbox)
    <3> DEFINE box == inbox
               rest == Tail(inbox)
               o == [n \in DOMAIN rest |-> n + 1]
    <3>1. \A n \in DOMAIN rest : n + 1 \in DOMAIN box /\ rest[n] = box[n + 1] /\ n \in Nat \ {0}
      BY <1>2, <2>2, Tails
    <3>2. DOMAIN box \subseteq Nat /\ DOMAIN rest \subseteq Nat
      BY <1>2, <3>1
    <3> HIDE DEF rest, box
    <3>3. /\ o \in [DOMAIN rest -> DOMAIN box]
          /\ \A n \in DOMAIN rest : rest[n] = box[o[n]]
          /\ \A m, n \in DOMAIN rest : m < n => o[m] < o[n]
      BY <3>1
    <3> HIDE DEF o
    <3>4. Landing(box, Told', selection, editor.target) /\ Writes(box, selection)
      BY <1>1 DEF box
    <3>5. Landing(rest, Told', selection, editor.target)
      <4>1. Told' \cap DOMAIN editor.target.requests \subseteq Told'
        OBVIOUS
      <4> QED
        BY <3>2, <3>3, <3>4, <4>1, LandingFewer
    <3>6. Writes(rest, selection)
      BY <3>2, <3>3, <3>4, WritesFewer
    <3> QED
      BY <2>2, <3>5, <3>6 DEF rest
  <2> QED
    BY <2>1, <2>2
<1>4. Sure(editor')
  BY SureAside DEF IInv
<1> QED
  BY <1>3, <1>4 DEF IInv

\* A step of the core that leaves the editor alone and what is told.
LEMMA QuietStep ==
  ASSUME IInv, CoreTypes', Told' \subseteq Told, selection' = selection, editor' = editor,
         inbox' = inbox \/ (inbox # << >> /\ inbox' = Tail(inbox))
  PROVE  IInv'
<1>1. EditorTypes(editor') /\ editor'.out = << >> /\ editor'.used = {}
  BY DEF IInv
<1> QED
  BY <1>1, CoreStep

\* One answer.
LEMMA OneFrame ==
  ASSUME NEW f \in Frames
  PROVE  /\ <<f>> \in Seq(Frames)
         /\ f.selector # "target_state_snapshot" => Mute(<<f>>)
         /\ f.selector = "target_state_snapshot" => ToldIn(<<f>>) = {f.request}
         /\ \A s \in Seq(Frames) : Append(s, f) = s \o <<f>>
<1>1. <<f>> \in Seq(Frames) /\ DOMAIN <<f>> = {1} /\ <<f>>[1] = f
  OBVIOUS
<1>2. f.selector # "target_state_snapshot" => Mute(<<f>>)
  BY <1>1 DEF Mute
<1>3. f.selector = "target_state_snapshot" => ToldIn(<<f>>) = {f.request}
  <2> DEFINE s == <<f>>
  <2>1. DOMAIN s = {1} /\ s[1] = f
    BY <1>1
  <2> HIDE DEF s
  <2> QED
    BY <2>1 DEF ToldIn, s
<1>4. \A s \in Seq(Frames) : Append(s, f) = s \o <<f>>
  OBVIOUS
<1> QED
  BY <1>1, <1>2, <1>3, <1>4

\* The frames of the core have their types.
LEMMA AnswerTypes ==
  ASSUME CoreTypes, NEW c \in Commands
  PROVE  /\ \A b \in BOOLEAN : Done(c, b) \in Frames /\ Done(c, b).selector = "action_done"
         /\ Error(c) \in Frames /\ Error(c).selector = "error"
         /\ c.selector = "observe_target" =>
              StateSnapshot(c) \in Frames /\ StateSnapshot(c).request = c.request
              /\ StateSnapshot(c).selector = "target_state_snapshot"
         /\ BankSnapshots(c) \in Frames /\ BankSnapshots(c).selector = "bank_state_snapshots"
<1>1. /\ c.request \in Nat /\ c.target \in Instances
      /\ c.selector = "observe_target" => c.context \in ContextSet
  BY DEF Commands
<1>2. \A b \in BOOLEAN : Done(c, b) \in Frames /\ Done(c, b).selector = "action_done"
  BY <1>1 DEF Done, Frames, Answers
<1>3. Error(c) \in Frames /\ Error(c).selector = "error"
  BY <1>1 DEF Error, Frames, Answers
<1>4. \A i \in Instances, x \in ContextSet : values[i][x] \in BOOLEAN
  BY DEF CoreTypes
<1>6. BankSnapshots(c) \in Frames /\ BankSnapshots(c).selector = "bank_state_snapshots"
  <2>1. Equalizer \in ContextSet
    BY ContextAssumption DEF ContextSet, ToSet, Equalizer, Last
  <2> QED
    BY <1>1, <1>4, <2>1 DEF BankSnapshots, Frames, Answers
<1> QED
  BY <1>1, <1>2, <1>3, <1>4, <1>6 DEF StateSnapshot, Frames, Answers

\* Notifications.
LEMMA NoticeTypes ==
  ASSUME CoreTypes
  PROVE  /\ \A i, c, v : c \in ContextSet /\ v \in BOOLEAN => Mute(ValueFrames(i, c, v))
         /\ Mute(<< >>)
         /\ \A rows, g : rows \subseteq Instances /\ g \in BOOLEAN => Mute(GroupFrames(rows, g))
         /\ \A p \in Instances :
              /\ Mute(<<Delta(revision, revision + 1, p, "added", Row(p))>>)
              /\ \A m, n \in Nat : Mute(<<Delta(m, n, p, "removed", NoRows)>>)
<1>1. Mute(<< >>)
  BY DEF Mute
<1>2. ASSUME NEW i, NEW c \in ContextSet, NEW v \in BOOLEAN PROVE Mute(ValueFrames(i, c, v))
  BY <1>1, OneFrame DEF Frames, Notifications, ValueFrames
<1>3. ASSUME NEW rows, rows \subseteq Instances, NEW g \in BOOLEAN PROVE Mute(GroupFrames(rows, g))
  <2> DEFINE order == SetToSeq(rows)
             fs == [n \in DOMAIN order |->
                      Delta(revision + n - 1, revision + n, order[n], "group", g)]
  <2>1. IsFiniteSet(rows)
    <3>1. IsFiniteSet(Instances)
      BY PeerAssumption, OneMore DEF Instances
    <3> QED
      BY <1>3, <3>1, FS_Subset
  <2>2. order \in Seq(rows) /\ Len(order) \in Nat /\ DOMAIN order = 1..Len(order)
    BY <2>1, SetToSeqFacts
  <2> HIDE DEF order
  <2>3. \A n \in DOMAIN order : fs[n] \in Frames /\ fs[n].selector = "registry_changed"
    BY <1>3, <2>2 DEF CoreTypes, Delta, Frames, Notifications, Deltas
  <2>4. DOMAIN fs = 1..Len(order)
    BY <2>2
  <2>5. GroupFrames(rows, g) \in {fs, << >>}
    BY DEF GroupFrames, order
  <2> HIDE DEF fs
  <2>6. fs \in Seq(Frames)
    <3>1. fs = [n \in 1..Len(order) |-> fs[n]]
      BY <2>4 DEF fs
    <3> QED
      BY <2>2, <2>3, <2>4, <3>1
  <2>7. Mute(fs)
    BY <2>2, <2>3, <2>4, <2>6 DEF Mute
  <2> QED
    BY <1>1, <2>5, <2>7
<1>4. ASSUME NEW p \in Instances PROVE Mute(<<Delta(revision, revision + 1, p, "added", Row(p))>>)
  <2> DEFINE f == Delta(revision, revision + 1, p, "added", Row(p))
  <2>1. Row(p) \in Rows /\ revision \in Nat /\ revision + 1 \in Nat
    BY DEF Row, Rows, CoreTypes
  <2>2. f \in Frames /\ f.selector = "registry_changed"
    BY <2>1 DEF Delta, Frames, Notifications, Deltas
  <2> HIDE DEF f
  <2> QED
    BY <2>2, OneFrame DEF f
<1>5. ASSUME NEW p \in Instances, NEW m \in Nat, NEW n \in Nat
      PROVE  Mute(<<Delta(m, n, p, "removed", NoRows)>>)
  BY OneFrame DEF Delta, Frames, Notifications, Deltas
<1> QED
  BY <1>1, <1>2, <1>3, <1>4, <1>5

\* Frames in a row that do not tell a value.
LEMMA MuteBoth ==
  ASSUME NEW s, NEW r, Mute(s), Mute(r)
  PROVE  Mute(s \o r)
BY Joins DEF Mute

\* The snapshot of the registry: its end comes last, behind a row of each instance.
LEMMA SnapshotFacts ==
  ASSUME CoreTypes, NEW c \in Commands
  PROVE  LET a == RegistrySnapshot(c)
         IN  /\ a \in Seq(Frames) /\ Len(a) \in Nat \ {0} /\ DOMAIN a = 1..Len(a)
             /\ \A n \in DOMAIN a :
                  /\ a[n].request = c.request /\ "request" \in DOMAIN a[n]
                  /\ a[n].selector \in {"registry_begin", "registry_instance", "registry_done"}
                  /\ n < Len(a) => a[n].selector # "registry_done"
                  /\ a[n].selector = "registry_instance" =>
                       a[n].instance \in live /\ a[n].row = Row(a[n].instance)
             /\ a[Len(a)].selector = "registry_done" /\ a[Len(a)].revision = revision
             /\ \A i \in live : \E n \in DOMAIN a :
                  /\ n < Len(a) /\ a[n].selector = "registry_instance"
                  /\ a[n].instance = i /\ a[n].row = Row(i)
<1> DEFINE begin == [selector |-> "registry_begin", request |-> c.request, revision |-> revision,
                     count |-> Cardinality(live)]
           row(i) == [selector |-> "registry_instance", request |-> c.request, instance |-> i,
                      row |-> Row(i)]
           rows == {row(i) : i \in live}
           done == [selector |-> "registry_done", request |-> c.request, revision |-> revision]
           order == SetToSeq(rows)
           a == <<begin>> \o order \o <<done>>
           l == Len(order)
<1>1. c.request \in Nat /\ revision \in Nat /\ live \subseteq Instances
  BY DEF Commands, CoreTypes
<1>2. IsFiniteSet(live) /\ Cardinality(live) \in Nat
  <2>1. IsFiniteSet(Instances)
    BY PeerAssumption, OneMore DEF Instances
  <2> QED
    BY <1>1, <2>1, FS_Subset, FS_CardinalityType
<1>3. /\ begin \in Frames /\ begin.selector = "registry_begin" /\ begin.request = c.request
      /\ "request" \in DOMAIN begin
  BY <1>1, <1>2 DEF Frames, Answers
<1>4. /\ done \in Frames /\ done.selector = "registry_done" /\ done.request = c.request
      /\ "request" \in DOMAIN done /\ done.revision = revision
  BY <1>1 DEF Frames, Answers
<1>5. \A i \in live : row(i) \in Frames
  <2> TAKE i \in live
  <2>1. Row(i) \in Rows /\ i \in Instances
    BY <1>1 DEF Row, Rows
  <2> QED
    BY <1>1, <2>1 DEF Frames, Answers
<1>6. IsFiniteSet(rows)
  <2> DEFINE f == [i \in live |-> row(i)]
  <2>1. DOMAIN f = live /\ {f[i] : i \in live} = rows
    OBVIOUS
  <2> HIDE DEF f, rows
  <2> QED
    BY <1>2, <2>1, ImageFinite, Zenon
<1>7. \A f \in rows : /\ f \in Frames /\ f.selector = "registry_instance" /\ f.request = c.request
                      /\ "request" \in DOMAIN f /\ f.instance \in live /\ f.row = Row(f.instance)
  BY <1>5
<1>8. \A i \in live : row(i) \in rows /\ row(i).instance = i /\ row(i).row = Row(i)
  OBVIOUS
<1> HIDE DEF begin, done, rows, row
<1>9. /\ order \in Seq(rows) /\ l \in Nat /\ DOMAIN order = 1..l
      /\ \A f \in rows : \E n \in DOMAIN order : order[n] = f
  BY <1>6, SetToSeqFacts
<1> HIDE DEF order
<1>10. order \in Seq(Frames) /\ \A n \in 1..l : order[n] \in rows
  BY <1>7, <1>9
<1>11. /\ a \in Seq(Frames) /\ Len(a) = l + 2 /\ DOMAIN a = 1..(l + 2)
       /\ a[1] = begin /\ a[l + 2] = done /\ \A n \in 1..l : a[n + 1] = order[n]
  BY <1>3, <1>4, <1>9, <1>10
<1>12. RegistrySnapshot(c) = a
  BY DEF RegistrySnapshot, begin, done, order, rows, row
<1> HIDE DEF a
<1>13. \A n \in 1..(l + 2) : n = 1 \/ n = l + 2 \/ (n - 1 \in 1..l /\ n < l + 2)
  BY <1>9
<1>14. \A n \in DOMAIN a : n = 1 \/ n = l + 2 \/ (a[n] \in rows /\ n < l + 2)
  <2> TAKE n \in DOMAIN a
  <2>1. CASE n - 1 \in 1..l
    <3>1. a[(n - 1) + 1] = order[n - 1] /\ (n - 1) + 1 = n
      BY <1>9, <1>11, <2>1
    <3> QED
      BY <1>10, <1>11, <1>13, <2>1, <3>1
  <2> QED
    BY <1>11, <1>13, <2>1
<1>15. \A n \in DOMAIN a :
         /\ a[n].request = c.request /\ "request" \in DOMAIN a[n]
         /\ a[n].selector \in {"registry_begin", "registry_instance", "registry_done"}
         /\ n < Len(a) => a[n].selector # "registry_done"
         /\ a[n].selector = "registry_instance" =>
              a[n].instance \in live /\ a[n].row = Row(a[n].instance)
  <2> TAKE n \in DOMAIN a
  <2>1. CASE n = 1
    BY <2>1, <1>3, <1>11
  <2>2. CASE n = l + 2
    <3>1. a[n] = done /\ ~(n < Len(a))
      BY <2>2, <1>9, <1>11
    <3> QED
      BY <3>1, <1>4
  <2>3. CASE a[n] \in rows
    BY <2>3, <1>7
  <2> QED
    BY <2>1, <2>2, <2>3, <1>14
<1>16. ASSUME NEW i \in live
       PROVE  \E n \in DOMAIN a : /\ n < Len(a) /\ a[n].selector = "registry_instance"
                                  /\ a[n].instance = i /\ a[n].row = Row(i)
  <2>1. PICK n \in 1..l : order[n] = row(i)
    BY <1>8, <1>9
  <2>2. n + 1 \in DOMAIN a /\ n + 1 < Len(a) /\ a[n + 1] = row(i)
    BY <1>9, <1>11, <2>1
  <2> QED
    BY <1>7, <1>8, <2>2
<1>17. Len(a) \in Nat \ {0} /\ DOMAIN a = 1..Len(a)
  BY <1>9, <1>11
<1> QED
  BY <1>4, <1>11, <1>12, <1>15, <1>16, <1>17

\* The snapshot of the registry.
LEMMA RegistryTypes ==
  ASSUME CoreTypes, NEW c \in Commands
  PROVE  Mute(RegistrySnapshot(c))
BY SnapshotFacts DEF Mute

-----------------------------------------------------------------------------
(* The steps.                                                              *)

CoreState ==
    /\ live \subseteq Instances /\ Own \in live
    /\ grouped \subseteq Instances
    /\ values \in [Instances -> [ContextSet -> BOOLEAN]]
    /\ selection \in Instances /\ watched \in {"no", "registering", "yes"} /\ revision \in Nat
    /\ leaving \in [Peers -> [stage : Stages, previous : Nat, revision : Nat]]
    /\ restore \in {"none", "returning"}

\* A value that is written.
LEMMA WriteTypes ==
  ASSUME CoreTypes, NEW i \in Instances, NEW c \in ContextSet
  PROVE  /\ (~values[i][c]) \in BOOLEAN
         /\ Write(i, c) => values' \in [Instances -> [ContextSet -> BOOLEAN]]
<1> DEFINE b == ~values[i][c]
<1>1. values \in [Instances -> [ContextSet -> BOOLEAN]]
  BY DEF CoreTypes
<1>2. b \in BOOLEAN
  OBVIOUS
<1>3. Write(i, c) => values' = [values EXCEPT ![i] = [values[i] EXCEPT ![c] = b]]
  BY <1>1 DEF Write
<1> HIDE DEF b
<1>4. [values[i] EXCEPT ![c] = b] \in [ContextSet -> BOOLEAN]
  BY <1>1, <1>2
<1>5. [values EXCEPT ![i] = [values[i] EXCEPT ![c] = b]] \in [Instances -> [ContextSet -> BOOLEAN]]
  BY <1>1, <1>4
<1>6. Write(i, c) => values' \in [Instances -> [ContextSet -> BOOLEAN]]
  BY <1>3, <1>5
<1>7. (~values[i][c]) \in BOOLEAN
  BY <1>2 DEF b
<1> QED
  BY <1>6, <1>7

\* Banks that are grouped.
LEMMA RegroupTypes ==
  ASSUME CoreTypes, NEW rows, rows \subseteq Instances, NEW g, Regroup(rows, g)
  PROVE  grouped' \subseteq Instances /\ revision' \in Nat
<1>1. IsFiniteSet(rows)
  <2>1. IsFiniteSet(Instances)
    BY PeerAssumption, OneMore DEF Instances
  <2> QED
    BY <2>1, FS_Subset
<1>2. Cardinality(rows) \in Nat
  BY <1>1, FS_CardinalityType
<1> QED
  BY <1>2 DEF CoreTypes, Regroup

\* The worker runs a command that does not turn the core to a bank.
LEMMA ExecuteQuiet ==
  ASSUME IInv, NEW selector, NEW answer, NEW notified, Execute(selector, answer, notified),
         Mute(answer), Mute(notified), CoreState', selection' = selection
  PROVE  IInv'
<1>1. /\ inbox \in Seq(Commands) /\ frames \in Seq(Frames) /\ reply = << >> /\ inbox # << >>
      /\ editor' = editor /\ inbox' = Tail(inbox) /\ reply' = answer
      /\ frames' = frames \o notified
  BY DEF IInv, CoreTypes, Execute
<1>2. frames' \in Seq(Frames) /\ ToldIn(frames') = ToldIn(frames)
  BY <1>1, MuteJoins
<1>3. reply' \in Seq(Frames) /\ ToldIn(reply') = {}
  BY <1>1 DEF Mute, ToldIn
<1>4. inbox' \in Seq(Commands)
  BY <1>1, Tails
<1>5. CoreTypes'
  BY <1>2, <1>3, <1>4 DEF CoreState, CoreTypes
<1>6. Told' \subseteq Told
  BY <1>2, <1>3 DEF Told
<1> QED
  BY <1>1, <1>5, <1>6, QuietStep

\* The first command, when the worker runs it.
LEMMA AskedTypes ==
  ASSUME IInv, NEW selector, NEW answer, NEW notified, Execute(selector, answer, notified)
  PROVE  /\ Asked \in Commands /\ Asked.selector = selector /\ Asked.target \in Instances
         /\ selector \in {"observe_target", "write"} => Asked.context \in ContextSet
         /\ selector = "group_banks" => Asked.context \in Instances
         /\ live' = live /\ leaving' = leaving /\ restore' = restore /\ CoreTypes /\ CoreState
BY Tails DEF IInv, CoreTypes, Execute, Asked, Commands, CoreState

\* The core turns to the bank that a command asks for.
LEMMA ObserveTargetKeeps ==
  ASSUME IInv, ObserveTargetCommand
  PROVE  IInv'
<1> DEFINE answer == IF Asked.target \in live THEN <<StateSnapshot(Asked)>> ELSE <<Error(Asked)>>
<1>1. /\ Execute("observe_target", answer, << >>)
      /\ selection' = IF Asked.target \in live THEN Asked.target ELSE selection
      /\ grouped' = grouped /\ values' = values /\ watched' = watched /\ revision' = revision
  BY DEF ObserveTargetCommand
<1>2. /\ Asked \in Commands /\ Asked.selector = "observe_target" /\ Asked.target \in Instances
      /\ live' = live /\ leaving' = leaving /\ restore' = restore /\ CoreTypes /\ CoreState
  BY <1>1, AskedTypes
<1>3. CoreState'
  BY <1>1, <1>2 DEF CoreState
<1>4. CASE Asked.target \notin live
  <2>1. Mute(answer) /\ Mute(<< >>)
    BY <1>2, <1>4, AnswerTypes, OneFrame, NoticeTypes
  <2>2. selection' = selection
    BY <1>1, <1>4
  <2> QED
    BY <1>1, <1>3, <2>1, <2>2, ExecuteQuiet
<1>5. CASE Asked.target \in live
  <2>2. /\ <<StateSnapshot(Asked)>> \in Seq(Frames)
        /\ ToldIn(<<StateSnapshot(Asked)>>) = {Asked.request}
    BY <1>2, OneFrame, AnswerTypes
  <2>3. /\ reply = << >> /\ inbox # << >> /\ Asked = Head(inbox)
        /\ editor' = editor /\ inbox' = Tail(inbox) /\ reply' = <<StateSnapshot(Asked)>>
        /\ frames' = frames \o << >> /\ selection' = Asked.target
    BY <1>1, <1>5 DEF Execute, Asked
  <2>4. inbox \in Seq(Commands) /\ frames \in Seq(Frames)
    BY <1>2 DEF CoreTypes
  <2>5. frames' = frames
    BY <2>3, <2>4
  <2>6. inbox' \in Seq(Commands)
    BY <2>3, <2>4, Tails
  <2>7. CoreTypes'
    BY <1>3, <2>2, <2>3, <2>4, <2>5, <2>6 DEF CoreTypes, CoreState
  <2>8. Told' = Told \cup {Asked.request}
    BY <2>2, <2>3, <2>5 DEF ToldIn, Told
  <2>9. Asks(Head(inbox))
    BY <1>2, <2>3 DEF Asks
  <2>11. Writes(Tail(inbox), Head(inbox).target)
    BY <2>3, <2>4, <2>9, WritesTurns DEF IInv
  <2>12. Landing(inbox', Told', selection', editor.target) /\ Writes(inbox', selection')
    BY <2>3, <2>4, <2>8, <2>9, <2>11, LandingTurns DEF IInv
  <2> QED
    BY <2>3, <2>7, <2>12 DEF IInv
<1> QED
  BY <1>4, <1>5

\* The worker.
LEMMA WorkerKeeps ==
  ASSUME IInv, Worker
  PROVE  IInv'
<1>0. CoreTypes /\ CoreState
  BY DEF IInv, CoreTypes, CoreState
<1>1. CASE InitializeUi
  BY <1>0, <1>1, AskedTypes, AnswerTypes, OneFrame, NoticeTypes, ExecuteQuiet DEF InitializeUi,
     CoreState
<1>2. CASE SetInstanceActive
  BY <1>0, <1>2, AskedTypes, AnswerTypes, OneFrame, NoticeTypes, ExecuteQuiet DEF
     SetInstanceActive, CoreState
<1>12. CASE ActivateAnother
  BY <1>0, <1>12, AskedTypes, NoticeTypes, ExecuteQuiet DEF ActivateAnother, CoreState
<1>3. CASE ReadRegistry
  BY <1>0, <1>3, AskedTypes, RegistryTypes, NoticeTypes, ExecuteQuiet DEF ReadRegistry, CoreState
<1>4. CASE RegisterObserver
  <2>1. CoreTypes' /\ Told' = Told
    BY <1>0, <1>4 DEF CoreTypes, RegisterObserver, Told
  <2> QED
    BY <1>4, <2>1, QuietStep DEF RegisterObserver
<1>5. CASE ObserveTargetCommand
  BY <1>5, ObserveTargetKeeps
<1>6. CASE ObserveBanks
  BY <1>0, <1>6, AskedTypes, AnswerTypes, OneFrame, NoticeTypes, ExecuteQuiet DEF ObserveBanks,
     CoreState
<1>7. CASE WriteStateCommand
  <2> DEFINE c == Asked.context
             known == selection \in live
             answer == IF known THEN <<Done(Asked, TRUE)>> ELSE <<Error(Asked)>>
             notified == IF known THEN ValueFrames(selection, c, ~values[selection][c]) ELSE << >>
  <2>1. /\ Execute("write", answer, notified)
        /\ IF known THEN Write(selection, c) ELSE UNCHANGED values
        /\ UNCHANGED <<grouped, selection, watched, revision>>
    BY <1>7 DEF WriteStateCommand
  <2>2. Asked \in Commands /\ live' = live /\ leaving' = leaving /\ restore' = restore
        /\ c \in ContextSet
    BY <2>1, AskedTypes
  <2>3. selection \in Instances
    BY <1>0 DEF CoreState
  <2>4. (~values[selection][c]) \in BOOLEAN /\ values' \in [Instances -> [ContextSet -> BOOLEAN]]
    BY <1>0, <2>1, <2>2, <2>3, WriteTypes DEF CoreState
  <2>5. CoreState'
    BY <1>0, <2>1, <2>2, <2>4 DEF CoreState
  <2>6. Mute(answer)
    BY <1>0, <2>2, AnswerTypes, OneFrame
  <2>7. Mute(notified)
    BY <1>0, <2>2, <2>4, NoticeTypes
  <2> HIDE DEF answer, notified
  <2> QED
    BY <2>1, <2>5, <2>6, <2>7, ExecuteQuiet
<1>8. CASE OtherCommand
  <2>1. CASE \E accepted \in BOOLEAN :
               /\ Execute("command", <<Done(Asked, accepted)>>, << >>)
               /\ UNCHANGED <<grouped, values, selection, watched, revision>>
    BY <1>0, <2>1, AskedTypes, AnswerTypes, OneFrame, NoticeTypes, ExecuteQuiet DEF CoreState
  <2>2. CASE \E c \in ToSet(Contexts) :
               /\ selection \in live
               /\ Execute("command", <<Done(Asked, TRUE)>>,
                          ValueFrames(selection, c, ~values[selection][c]))
               /\ Write(selection, c)
               /\ UNCHANGED <<grouped, selection, watched, revision>>
    <3>1. PICK c \in ContextSet :
               /\ Execute("command", <<Done(Asked, TRUE)>>,
                          ValueFrames(selection, c, ~values[selection][c]))
               /\ Write(selection, c)
               /\ UNCHANGED <<grouped, selection, watched, revision>>
      BY <2>2 DEF ContextSet
    <3>2. Asked \in Commands /\ live' = live /\ leaving' = leaving /\ restore' = restore
      BY <3>1, AskedTypes
    <3>3. selection \in Instances
      BY <1>0 DEF CoreState
    <3>4. (~values[selection][c]) \in BOOLEAN /\ values' \in [Instances -> [ContextSet -> BOOLEAN]]
      BY <1>0, <3>1, <3>3, WriteTypes
    <3>5. CoreState'
      BY <1>0, <3>1, <3>2, <3>4 DEF CoreState
    <3>6. Mute(<<Done(Asked, TRUE)>>)
      BY <1>0, <3>2, AnswerTypes, OneFrame
    <3>7. Mute(ValueFrames(selection, c, ~values[selection][c]))
      BY <1>0, <3>4, NoticeTypes
    <3> QED
      BY <3>1, <3>5, <3>6, <3>7, ExecuteQuiet
  <2> QED
    BY <1>8, <2>1, <2>2 DEF OtherCommand
<1>9. CASE GroupBanks
  <2> DEFINE banks == {Asked.target, Asked.context}
             apply == banks \subseteq live \ grouped
             notified == IF apply THEN GroupFrames(banks, TRUE) ELSE << >>
  <2>1. /\ Execute("group_banks", <<Done(Asked, apply)>>, notified)
        /\ IF apply THEN Regroup(banks, TRUE) ELSE UNCHANGED <<grouped, revision>>
        /\ UNCHANGED <<values, selection, watched>>
    BY <1>9 DEF GroupBanks
  <2>2. Asked \in Commands /\ live' = live /\ leaving' = leaving /\ restore' = restore
        /\ banks \subseteq Instances
    BY <2>1, AskedTypes
  <2>3. apply \in BOOLEAN
    OBVIOUS
  <2> HIDE DEF banks, apply
  <2>4. grouped' \subseteq Instances /\ revision' \in Nat
    BY <1>0, <2>1, <2>2, RegroupTypes DEF CoreState
  <2>5. CoreState'
    BY <1>0, <2>1, <2>2, <2>4 DEF CoreState
  <2>6. Mute(<<Done(Asked, apply)>>)
    BY <1>0, <2>2, <2>3, AnswerTypes, OneFrame
  <2>7. Mute(notified)
    BY <1>0, <2>2, NoticeTypes
  <2> HIDE DEF notified
  <2> QED
    BY <2>1, <2>5, <2>6, <2>7, ExecuteQuiet
<1>10. CASE UngroupBanks
  <2> DEFINE apply == Asked.target \in grouped \cap live
             members == grouped \cap live
             notified == IF apply THEN GroupFrames(members, FALSE) ELSE << >>
  <2>1. /\ Execute("ungroup_banks", <<Done(Asked, apply)>>, notified)
        /\ IF apply THEN Regroup(members, FALSE) ELSE UNCHANGED <<grouped, revision>>
        /\ UNCHANGED <<values, selection, watched>>
    BY <1>10 DEF UngroupBanks
  <2>2. Asked \in Commands /\ live' = live /\ leaving' = leaving /\ restore' = restore
    BY <2>1, AskedTypes
  <2>3. apply \in BOOLEAN /\ members \subseteq Instances
    BY <1>0 DEF CoreState
  <2> HIDE DEF members, apply
  <2>4. grouped' \subseteq Instances /\ revision' \in Nat
    BY <1>0, <2>1, <2>3, RegroupTypes DEF CoreState
  <2>5. CoreState'
    BY <1>0, <2>1, <2>2, <2>4 DEF CoreState
  <2>6. Mute(<<Done(Asked, apply)>>)
    BY <1>0, <2>2, <2>3, AnswerTypes, OneFrame
  <2>7. Mute(notified)
    BY <1>0, <2>3, NoticeTypes
  <2> HIDE DEF notified
  <2> QED
    BY <2>1, <2>5, <2>6, <2>7, ExecuteQuiet
<1>11. CASE SendReply
  <2>1. /\ reply # << >> /\ frames' = Append(frames, Head(reply)) /\ reply' = Tail(reply)
        /\ UNCHANGED <<coreVars, inbox, editor>>
    BY <1>11 DEF SendReply
  <2>2. reply \in Seq(Frames) /\ frames \in Seq(Frames)
    BY <1>0 DEF CoreTypes
  <2>3. /\ Tail(reply) \in Seq(Frames) /\ Head(reply) = reply[1] /\ Head(reply) \in Frames
        /\ 1 \in DOMAIN reply
        /\ \A n \in DOMAIN Tail(reply) : n + 1 \in DOMAIN reply /\ Tail(reply)[n] = reply[n + 1]
    BY <2>1, <2>2, Tails
  <2>4. frames' = frames \o <<Head(reply)>> /\ <<Head(reply)>> \in Seq(Frames)
    BY <2>1, <2>2, <2>3, OneFrame
  <2>5. ToldIn(<<Head(reply)>>) \subseteq ToldIn(reply)
    <3>1. CASE Head(reply).selector = "target_state_snapshot"
      BY <2>3, <3>1, OneFrame DEF ToldIn
    <3>2. CASE Head(reply).selector # "target_state_snapshot"
      <4>1. Mute(<<Head(reply)>>)
        BY <2>3, <3>2, OneFrame
      <4> QED
        BY <4>1 DEF Mute, ToldIn
    <3> QED
      BY <3>1, <3>2
  <2>6. ToldIn(Tail(reply)) \subseteq ToldIn(reply)
    BY <2>3 DEF ToldIn
  <2>7. frames' \in Seq(Frames) /\ ToldIn(frames') = ToldIn(frames) \cup ToldIn(<<Head(reply)>>)
    BY <2>2, <2>4, ToldJoins
  <2>8. Told' \subseteq Told
    BY <2>1, <2>5, <2>6, <2>7 DEF Told
  <2>9. CoreTypes'
    BY <1>0, <2>1, <2>3, <2>7 DEF CoreTypes, coreVars
  <2> QED
    BY <2>1, <2>8, <2>9, QuietStep DEF coreVars
<1> QED
  BY <1>1, <1>2, <1>3, <1>4, <1>5, <1>6, <1>7, <1>8, <1>9, <1>10, <1>11, <1>12 DEF Worker

\* A step that only notifies.
LEMMA NotifyQuiet ==
  ASSUME IInv, NEW notified, Mute(notified), frames' = frames \o notified, reply' = reply,
         inbox' = inbox, editor' = editor, selection' = selection, CoreState'
  PROVE  IInv'
BY MuteJoins, QuietStep DEF IInv, CoreTypes, CoreState, Told

\* The announcement of a removal.
LEMMA AnnounceKeeps ==
  ASSUME IInv, Announce
  PROVE  IInv'
<1>0. CoreTypes /\ CoreState
  BY DEF IInv, CoreTypes, CoreState
<1>1. PICK p \in Peers : /\ ReadRevision(p) \/ AdvanceRevision(p) \/ SendRemoval(p)
                         /\ UNCHANGED <<live, grouped, values, selection, watched, restore,
                                        inbox, reply, editor>>
  BY DEF Announce
<1>2. /\ leaving \in [Peers -> [stage : Stages, previous : Nat, revision : Nat]] /\ revision \in Nat
      /\ leaving[p].previous \in Nat /\ leaving[p].revision \in Nat
  BY <1>0 DEF CoreState
<1>3. ASSUME NEW a, Mute(a), frames' = frames \o a, revision' \in Nat,
             leaving' \in [Peers -> [stage : Stages, previous : Nat, revision : Nat]]
      PROVE  IInv'
  <2>1. CoreState'
    BY <1>0, <1>1, <1>3 DEF CoreState
  <2> QED
    BY <1>1, <1>3, <2>1, NotifyQuiet
<1>4. frames = frames \o << >> /\ Mute(<< >>)
  BY <1>0, NoticeTypes DEF CoreTypes
<1>5. CASE ReadRevision(p)
  BY <1>2, <1>3, <1>4, <1>5 DEF ReadRevision, Stages
<1>6. CASE AdvanceRevision(p)
  <2>1. leaving' \in [Peers -> [stage : Stages, previous : Nat, revision : Nat]]
    <3> DEFINE r == [leaving[p] EXCEPT !.stage = "numbered", !.revision = revision + 1]
    <3>1. r \in [stage : Stages, previous : Nat, revision : Nat]
      <4>1. leaving[p] \in [stage : Stages, previous : Nat, revision : Nat]
            /\ revision + 1 \in Nat /\ "numbered" \in Stages
        BY <1>2 DEF Stages
      <4> QED
        BY <4>1
    <3>2. leaving' = [leaving EXCEPT ![p] = r]
      BY <1>2, <1>6 DEF AdvanceRevision
    <3> HIDE DEF r
    <3> QED
      BY <1>2, <3>1, <3>2
  <2> QED
    BY <1>2, <1>3, <1>4, <1>6, <2>1 DEF AdvanceRevision
<1>7. CASE SendRemoval(p)
  <2> DEFINE f == Delta(leaving[p].previous, leaving[p].revision, p, "removed", NoRows)
             a == IF watched = "yes" THEN <<f>> ELSE << >>
  <2>2. Mute(<<f>>) /\ Mute(a)
    <3>1. p \in Instances
      BY DEF Instances
    <3> QED
      BY <1>0, <1>2, <1>4, <3>1, NoticeTypes
  <2>3. frames' = frames \o a
    <3>1. frames' = IF watched = "yes" THEN Append(frames, f) ELSE frames
      BY <1>7 DEF SendRemoval
    <3>2. Append(frames, f) = frames \o <<f>>
      <4> HIDE DEF f
      <4> QED
        BY <1>0 DEF CoreTypes
    <3> QED
      BY <1>4, <3>1, <3>2
  <2> QED
    BY <1>2, <1>3, <1>7, <2>2, <2>3 DEF SendRemoval, Stages, Present
<1> QED
  BY <1>1, <1>5, <1>6, <1>7

\* The flag of a restore is raised.
LEMMA RestoreReturnsKeeps ==
  ASSUME IInv, RestoreReturns
  PROVE  IInv'
<1>1. /\ CoreTypes /\ EditorTypes(editor) /\ editor.out = << >> /\ editor.used = {}
  BY DEF IInv
<1>2. /\ editor' = [editor EXCEPT !.restored = TRUE] /\ restore' = "none"
      /\ UNCHANGED <<live, grouped, values, selection, watched, revision, leaving, inbox, reply,
                     frames>>
  BY DEF RestoreReturns
<1>3. /\ Shaped(editor', EditorFields) /\ Same(editor, editor', EditorFields \ {"restored"})
      /\ editor'.restored = TRUE
  <2>1. Shaped(editor, EditorFields)
    BY <1>1 DEF EditorTypes
  <2> QED
    BY <2>1, <1>2, Zenon DEF Shaped, Same, EditorFields
<1>4. /\ editor'.unopened = editor.unopened /\ editor'.initialized = editor.initialized
      /\ editor'.active = editor.active /\ editor'.owner = editor.owner
      /\ editor'.busy = editor.busy /\ editor'.scope = editor.scope
      /\ editor'.focus = editor.focus /\ editor'.target = editor.target
      /\ editor'.pending = editor.pending /\ editor'.out = editor.out
      /\ editor'.used = editor.used
  BY <1>3 DEF Same, EditorFields
<1>5. EditorTypes(editor')
  BY <1>1, <1>3, <1>4 DEF EditorTypes
<1>6. CoreTypes' /\ Told' = Told
  BY <1>1, <1>2 DEF CoreTypes, Told
<1> QED
  BY <1>1, <1>2, <1>4, <1>5, <1>6, CoreStep

\* The rest of the world.
LEMMA WorldKeeps ==
  ASSUME IInv,
         WriteElsewhere \/ RegroupElsewhere \/ RegisterInstance \/ UnregisterInstance
           \/ RestorePersistence
  PROVE  IInv'
<1>0. CoreTypes /\ CoreState
  BY DEF IInv, CoreTypes, CoreState
<1>1. CASE WriteElsewhere
  BY <1>0, <1>1, WriteTypes, NoticeTypes, NotifyQuiet DEF WriteElsewhere, ContextSet, CoreState
<1>2. CASE RegroupElsewhere
  BY <1>0, <1>2, RegroupTypes, NoticeTypes, NotifyQuiet DEF RegroupElsewhere, CoreState
<1>3. CASE RegisterInstance
  <2>1. PICK p \in Peers \ live :
          /\ live' = live \cup {p} /\ revision' = revision + 1
          /\ frames' = IF watched = "yes"
                       THEN Append(frames, Delta(revision, revision + 1, p, "added", Row(p)))
                       ELSE frames
          /\ UNCHANGED <<grouped, values, selection, watched, leaving, restore, inbox, reply,
                         editor>>
    BY <1>3 DEF RegisterInstance
  <2> DEFINE f == Delta(revision, revision + 1, p, "added", Row(p))
             a == IF watched = "yes" THEN <<f>> ELSE << >>
  <2>2. p \in Instances
    BY DEF Instances
  <2>3. CoreState'
    BY <1>0, <2>1, <2>2 DEF CoreState
  <2>4. Mute(<<f>>) /\ Mute(<< >>)
    BY <1>0, <2>2, NoticeTypes
  <2>5. frames \o << >> = frames /\ Append(frames, f) = frames \o <<f>>
    BY <1>0 DEF CoreTypes
  <2>6. frames' = frames \o a
    BY <2>1, <2>5
  <2> QED
    BY <2>1, <2>3, <2>4, <2>6, NotifyQuiet
<1>4. CASE UnregisterInstance
  <2>1. PICK p \in Peers \cap live :
          /\ live' = live \ {p}
          /\ leaving' = [leaving EXCEPT ![p].stage = "removed"]
          /\ UNCHANGED <<grouped, values, selection, watched, revision, restore, inbox, reply,
                         frames, editor>>
    BY <1>4 DEF UnregisterInstance
  <2>2. Own # p
    BY PeerAssumption
  <2>3. CoreState'
    BY <1>0, <2>1, <2>2 DEF CoreState, Stages
  <2>4. CoreTypes'
    BY <1>0, <2>1, <2>3 DEF CoreTypes, CoreState
  <2>5. Told' = Told
    BY <2>1 DEF Told
  <2> QED
    BY <2>1, <2>4, <2>5, QuietStep
<1>5. CASE RestorePersistence
  BY <1>0, <1>5, WriteTypes, NoticeTypes, NotifyQuiet DEF RestorePersistence, ContextSet,
     Instances, CoreState
<1> QED
  BY <1>1, <1>2, <1>3, <1>4, <1>5

\* The editor takes a frame.
LEMMA TakeFrameKeeps ==
  ASSUME IInv, TakeFrame
  PROVE  IInv'
<1>1. frames # << >> /\ SendsAfter(0, HandleOutput(Ready, Head(frames)), Tail(frames))
  BY DEF TakeFrame, Sends
<1>2. CoreTypes /\ frames \in Seq(Frames)
  BY DEF IInv, CoreTypes
<1>3. /\ Tail(frames) \in Seq(Frames) /\ Head(frames) = frames[1] /\ Head(frames) \in Frames
      /\ 1 \in DOMAIN frames
      /\ \A n \in DOMAIN Tail(frames) : n + 1 \in DOMAIN frames /\ Tail(frames)[n] = frames[n + 1]
  BY <1>1, <1>2, Tails
<1>4. ToldIn(Tail(frames)) \subseteq ToldIn(frames)
  BY <1>3 DEF ToldIn
<1>5. Head(frames).selector = "target_state_snapshot" => Head(frames).request \in Told
  BY <1>3 DEF Told, ToldIn
<1>6. Settled(HandleOutput(Ready, Head(frames)))
  BY <1>2, <1>3, <1>5, ReadySettled, HandleOutputSettled
<1> QED
  BY <1>1, <1>2, <1>3, <1>4, <1>6, SendsKeeps

\* An editor that is no longer the active one, field by field.
LEMMA DeactivatedFacts ==
  ASSUME NEW e, Shaped(e, EditorFields)
  PROVE  LET v == Deactivated(e)
         IN  /\ Shaped(v, EditorFields)
             /\ Same(e, v, EditorFields \ {"active", "owner", "busy", "pending", "target",
                                            "analyzer"})
             /\ v.active = FALSE /\ v.owner = FALSE /\ v.busy = TRUE
             /\ v.target = InvalidateTargetState(e.target)
             /\ v.analyzer = InvalidateAnalyzer(e.analyzer)
             /\ v.pending = (e.pending \ Edits(e))
                              \cup {[p EXCEPT !.current = FALSE] : p \in Edits(e)}
<1> DEFINE a == [e EXCEPT !.active = FALSE, !.owner = FALSE]
           u == [a EXCEPT !.target = InvalidateTargetState(@)]
           b == Outdate(u, Edits(a))
           c == [b EXCEPT !.analyzer = InvalidateAnalyzer(@)]
           v == SetBusy(c, TRUE)
<1>1. Deactivated(e) = v
  BY DEF Deactivated, InvalidateTarget
<1>2. /\ Shaped(a, EditorFields) /\ Same(e, a, EditorFields \ {"active", "owner"})
      /\ a.active = FALSE /\ a.owner = FALSE
  BY Zenon DEF Shaped, Same, EditorFields
<1>3. Edits(a) = Edits(e)
  <2>1. a.pending = e.pending
    BY <1>2 DEF Same, EditorFields
  <2> QED
    BY <2>1 DEF Edits
<1> HIDE DEF a
<1>4. /\ Shaped(u, EditorFields) /\ Same(a, u, EditorFields \ {"target"})
      /\ u.target = InvalidateTargetState(a.target)
  BY <1>2, Zenon DEF Shaped, Same, EditorFields
<1> HIDE DEF u
<1>5. /\ Shaped(b, EditorFields) /\ Same(u, b, EditorFields \ {"pending"})
      /\ b.pending = (u.pending \ Edits(a))
                       \cup {[p EXCEPT !.current = FALSE] : p \in Edits(a)}
  BY <1>4, Zenon DEF Shaped, Same, EditorFields, Outdate
<1> HIDE DEF b
<1>6. /\ Shaped(c, EditorFields) /\ Same(b, c, EditorFields \ {"analyzer"})
      /\ c.analyzer = InvalidateAnalyzer(b.analyzer)
  BY <1>5, Zenon DEF Shaped, Same, EditorFields
<1> HIDE DEF c
<1>7. /\ Shaped(v, EditorFields) /\ Same(c, v, EditorFields \ {"busy"}) /\ v.busy = TRUE
  BY <1>6, Zenon DEF Shaped, Same, EditorFields, SetBusy
<1> HIDE DEF v
<1> QED
  BY <1>1, <1>2, <1>3, <1>4, <1>5, <1>6, <1>7 DEF Same, EditorFields

\* The command of another editor, in the queue.
LEMMA AnotherSent ==
  ASSUME CoreTypes
  PROVE  LET c == Command("activate_another", Own, NoContext)
         IN  /\ c \in Commands /\ ~Asks(c) /\ c.selector = "activate_another" /\ c.request = 0
             /\ Append(inbox, c) \in Seq(Commands)
BY DEF CoreTypes, Command, Commands, Selectors, CommandContexts, Instances, NoRequest, Asks

\* Another editor becomes the active one.
LEMMA AnotherEditorKeeps ==
  ASSUME IInv, AnotherEditorActivates
  PROVE  IInv'
<1> DEFINE c == Command("activate_another", Own, NoContext)
           d == Deactivated(Ready)
<1>1. /\ CoreTypes /\ EditorTypes(editor) /\ editor.out = << >> /\ editor.used = {}
      /\ Landing(inbox, Told, selection, editor.target) /\ Writes(inbox, selection)
      /\ Sure(editor)
  BY DEF IInv
<1>2. /\ UNCHANGED <<coreVars, reply, frames>>
      /\ editor' = IF editor.owner THEN Deactivated(editor) ELSE editor
      /\ inbox' = Append(inbox, c) \/ inbox' = inbox
  BY DEF AnotherEditorActivates
<1>3. c \in Commands /\ ~Asks(c) /\ c.selector = "activate_another" /\ inbox \in Seq(Commands)
      /\ Append(inbox, c) \in Seq(Commands)
  BY <1>1, AnotherSent DEF CoreTypes
<1> HIDE DEF c
<1>4. CoreTypes' /\ Told' = Told /\ selection' = selection
  BY <1>1, <1>2, <1>3 DEF CoreTypes, coreVars, Told
<1>5. /\ EditorTypes(editor') /\ Sure(editor') /\ editor'.out = << >> /\ editor'.used = {}
      /\ Landing(inbox, Told, selection, editor'.target)
  <2>1. CASE ~editor.owner
    BY <2>1, <1>1, <1>2
  <2>2. CASE editor.owner
    <3>1. Settled(Ready) /\ Ready.out = << >> /\ Same(editor, Ready, EditorFields \ {"used"})
      BY ReadySettled
    <3>2. Loose(Ready) /\ Shaped(Ready, EditorFields) /\ Shaped(editor, EditorFields)
      BY <1>1, <3>1, SettledTypes DEF EditorTypes
    <3>3. Settled(d) /\ d.out = << >>
      BY <1>1, <3>1, <3>2, DeactivatedSettled
    <3>4. PICK e, v : /\ e = Ready /\ v = editor'
      OBVIOUS
    <3>5. /\ e.target = editor.target /\ e.pending = editor.pending
      BY <3>1, <3>4 DEF Same, EditorFields
    <3>6. Edits(e) = Edits(editor)
      BY <3>5 DEF Edits
    <3>7. Shaped(v, EditorFields) /\ Same(d, v, EditorFields \ {"used", "analyzer"}) /\ v.used = {}
      <4> DEFINE x == Deactivated(editor)
      <4>1. v = x
        BY <1>2, <2>2, <3>4
      <4>2. /\ Shaped(x, EditorFields)
            /\ Same(editor, x,
                    EditorFields \ {"active", "owner", "busy", "pending", "target", "analyzer"})
            /\ x.active = FALSE /\ x.owner = FALSE /\ x.busy = TRUE
            /\ x.target = InvalidateTargetState(editor.target)
            /\ x.pending = (editor.pending \ Edits(editor))
                              \cup {[p EXCEPT !.current = FALSE] : p \in Edits(editor)}
        BY <3>2, DeactivatedFacts
      <4>3. /\ Same(Ready, d,
                    EditorFields \ {"active", "owner", "busy", "pending", "target", "analyzer"})
            /\ d.active = FALSE /\ d.owner = FALSE /\ d.busy = TRUE
            /\ d.target = InvalidateTargetState(e.target)
            /\ d.pending = (e.pending \ Edits(e))
                              \cup {[p EXCEPT !.current = FALSE] : p \in Edits(e)}
        BY <3>2, <3>4, DeactivatedFacts
      <4> HIDE DEF x, d
      <4>4. Same(d, x, EditorFields \ {"used", "analyzer"})
        BY <3>1, <3>5, <3>6, <4>2, <4>3 DEF Same, EditorFields
      <4>5. x.used = {}
        BY <1>1, <4>2 DEF Same, EditorFields
      <4> QED
        BY <4>1, <4>2, <4>4, <4>5
    <3> HIDE DEF d
    <3>8. /\ v.unopened = d.unopened /\ v.initialized = d.initialized
          /\ v.active = d.active /\ v.owner = d.owner /\ v.busy = d.busy
          /\ v.scope = d.scope /\ v.restored = d.restored /\ v.focus = d.focus
          /\ v.target = d.target /\ v.pending = d.pending /\ v.out = << >>
      BY <3>3, <3>7 DEF Same, EditorFields
    <3>9. EditorTypes(d) /\ Sure(d) /\ Box(d) = inbox
          /\ Landing(Box(d), Told, selection, d.target)
      BY <1>3, <3>3 DEF Settled, Loose, Box
    <3>10. EditorTypes(v)
      <4>1. << >> \in Seq(Commands)
        OBVIOUS
      <4> QED
        BY <3>7, <3>8, <3>9, <4>1 DEF EditorTypes
    <3>11. Sure(v)
      BY <3>8, <3>9, SureAside
    <3> QED
      BY <3>4, <3>7, <3>8, <3>9, <3>10, <3>11
  <2> QED
    BY <2>1, <2>2
<1>6. Landing(inbox', Told, selection, editor'.target) /\ Writes(inbox', selection)
  BY <1>1, <1>2, <1>3, <1>5, LandingSends, WritesSends
<1> QED
  BY <1>4, <1>5, <1>6 DEF IInv

\* What else the editor does.
LEMMA EditorKeeps ==
  ASSUME IInv,
         TakeRestored \/ Open \/ Reopen \/ Refocus \/ RefocusAgain \/ AnotherEditorActivates
           \/ UserActs
  PROVE  IInv'
<1>1. CoreTypes /\ frames \in Seq(Frames) /\ EditorTypes(editor)
  BY DEF IInv, CoreTypes
<1>2. Settled(Ready) /\ Ready.out = << >> /\ Same(editor, Ready, EditorFields \ {"used"})
  BY ReadySettled
<1>3. Loose(Ready) /\ Shaped(Ready, EditorFields)
  BY <1>2, SettledTypes
<1>4. Ready.active = editor.active /\ Ready.busy = editor.busy /\ editor.active \in BOOLEAN
  BY <1>1, <1>2 DEF Same, EditorFields, EditorTypes
<1>5. ASSUME NEW e, Settled(e), NEW d, SendsAfter(d, e, frames) PROVE IInv'
  BY <1>1, <1>5, SendsKeeps
<1>6. CASE TakeRestored
  <2> DEFINE r == [Ready EXCEPT !.restored = FALSE]
  <2>1. SendsAfter(0, Observe(r), frames)
    BY <1>6 DEF TakeRestored, Sends
  <2>2. Shaped(r, EditorFields) /\ Same(Ready, r, EditorFields \ {"restored"}) /\ r.restored = FALSE
    BY <1>3, Zenon DEF Shaped, Same, EditorFields
  <2> HIDE DEF r
  <2>3. Settled(r)
    BY <1>2, <2>2, SettledTypes, AsideSettled DEF Same, EditorFields
  <2>4. Settled(Observe(r))
    BY <1>1, <2>3, ObserveSettled DEF Settled
  <2> QED
    BY <1>5, <2>1, <2>4
<1>7. CASE Open
  BY <1>1, <1>2, <1>5, <1>7, InitializeSettled DEF Open, Sends
<1>8. CASE Reopen
  <2>1. SendsAfter(1, Close(Ready), << >>)
    BY <1>8 DEF Reopen
  <2>2. Settled(Close(Ready))
    BY <1>1, <1>2, CloseSettled
  <2>3. << >> \in Seq(Frames) /\ ToldIn(<< >>) \subseteq ToldIn(frames)
    BY DEF ToldIn
  <2> QED
    BY <1>1, <2>1, <2>2, <2>3, SendsKeeps
<1>9. CASE Refocus
  BY <1>1, <1>3, <1>4, <1>5, <1>9, ActivateSettled DEF Refocus, Sends
<1>10. CASE RefocusAgain
  BY <1>1, <1>3, <1>4, <1>5, <1>10, ActivateSettled DEF RefocusAgain
<1>11. CASE AnotherEditorActivates
  BY <1>11, AnotherEditorKeeps
<1>12. CASE UserActs
  <2>1. Editable(Ready)
    BY <1>4, <1>12 DEF UserActs, Editable
  <2>2. PICK e : Settled(e) /\ SendsAfter(0, e, frames)
    BY <1>1, <1>2, <1>12, <2>1, SelectTargetSettled, ToggleScopeSettled, EditsSettled DEF
       UserActs, Sends, ContextSet
  <2> QED
    BY <1>5, <2>2
<1> QED
  BY <1>6, <1>7, <1>8, <1>9, <1>10, <1>11, <1>12

-----------------------------------------------------------------------------
(* What the editor knows of the registry.                                  *)

RegistryFields == {"instances", "fetch", "revision", "required", "ready"}
FetchFields == {"request", "began", "revision", "expected", "instances"}

RowsTypes(g) == DOMAIN g \subseteq Instances /\ g \in [DOMAIN g -> Rows]

ClientTypes(r) ==
    /\ Shaped(r, RegistryFields)
    /\ r.revision \in Nat /\ r.required \in Nat /\ r.ready \in BOOLEAN
    /\ RowsTypes(r.instances)
    /\ FetchPending(r) => /\ Shaped(r.fetch, FetchFields)
                          /\ r.fetch.request \in Nat /\ r.fetch.revision \in Nat
                          /\ RowsTypes(r.fetch.instances)

\* What a delta about an instance says, and the instances whose removal is not announced.
About(f, i) == f.selector = "registry_changed" /\ f.instance = i
Leaves(i) == i \in Peers /\ leaving[i].stage \in {"removed", "read", "numbered"}
Tells(f, i) ==
    IF i \in live
    THEN \/ f.change = "added" /\ f.value = Row(i)
         \/ f.change = "group" /\ f.value = (i \in grouped)
    ELSE f.change = "removed" \/ Leaves(i)

\* Rows, as pairs, that are right about an instance.
RowsOf(g) == {<<i, g[i]>> : i \in DOMAIN g}
OfInstance(R, i) == {x \in R : x[1] = i}
Holds(R, i) ==
    IF i \in live THEN OfInstance(R, i) = {<<i, Row(i)>>}
    ELSE OfInstance(R, i) = {} \/ Leaves(i)

\* The last delta about an instance behind a place is right, or there is none and the
\* rows are right.
LastTells(fs, k, i) ==
    \E n \in DOMAIN fs : /\ n > k /\ About(fs[n], i) /\ Tells(fs[n], i)
                         /\ \A m \in DOMAIN fs : m > n => ~About(fs[m], i)
Untold(fs, k, i) == \A n \in DOMAIN fs : n > k => ~About(fs[n], i)
Right(fs, k, R, i) == LastTells(fs, k, i) \/ (Untold(fs, k, i) /\ Holds(R, i))

Has(f, q) == "request" \in DOMAIN f /\ f.request = q

\* The snapshot the client waits for is still to be read by the core.
Requested(r, box, s) ==
    LET q == r.fetch.request
    IN  /\ q \notin Ids(s) /\ r.fetch.instances = NoRows
        /\ \E n \in DOMAIN box :
             /\ box[n].selector = "registry" /\ box[n].request = q
             /\ \A m \in DOMAIN box : box[m].request = q => m = n

\* The request was refused, and the error is on its way.
Refused(r, box, s) ==
    LET q == r.fetch.request
    IN  /\ q \notin Ids(box)
        /\ \E n \in DOMAIN s : Has(s[n], q)
        /\ \A n \in DOMAIN s : Has(s[n], q) => s[n].selector = "error"

\* The rows of an answer: those the client has and those on their way to it.
IsRow(f, q) == f.selector = "registry_instance" /\ f.request = q
Gathered(g, s, k, q) ==
    RowsOf(g) \cup {<<s[n].instance, s[n].row>> : n \in {m \in DOMAIN s : m < k /\ IsRow(s[m], q)}}

\* The client will not take the answer: a delta before its end is newer.
Overtaken(fs, k, S, required) ==
    \/ S < required
    \/ \E n \in DOMAIN fs : n < k /\ fs[n].selector = "registry_changed" /\ fs[n].revision > S

\* The end of an answer, at its place in the frames, those of the worker included.
Ends(s, k, q) ==
    /\ s[k].selector = "registry_done" /\ s[k].request = q
    /\ \A n \in DOMAIN s : Has(s[n], q) =>
         n <= k /\ (n < k => s[n].selector \in {"registry_begin", "registry_instance"})

\* An answer that is still to be sent holds no rows of an instance that has left, unless
\* the announcement of that will have a later revision.
Departs(R, S, i) ==
    i \notin live /\ OfInstance(R, i) # {} =>
      /\ watched = "yes"
      /\ Leaves(i) /\ leaving[i].stage = "numbered" => leaving[i].revision > S

\* An answer, read at a revision, that is right unless the client refuses it.
Trusted(fs, k, S, required, R) ==
    /\ S <= revision
    /\ watched = "yes" \/ (watched = "registering" /\ k > Len(fs))
    /\ \A i \in Instances : Departs(R, S, i)
    /\ Overtaken(fs, k, S, required) \/ \A i \in Instances : Right(fs, k, R, i)

Answered(r, box, fs) ==
    LET q == r.fetch.request
        s == fs \o reply
    IN  /\ q \notin Ids(box)
        /\ \E k \in DOMAIN s :
             /\ Ends(s, k, q)
             /\ Trusted(fs, k, s[k].revision, r.required, Gathered(r.fetch.instances, s, k, q))

\* An active editor waits for a snapshot, which comes or is refused, or has rows that the
\* deltas on their way make right.
Informed(e, box, fs) ==
    e.active =>
      IF FetchPending(e.registry)
      THEN \/ Requested(e.registry, box, fs \o reply)
           \/ Refused(e.registry, box, fs \o reply)
           \/ Answered(e.registry, box, fs)
      ELSE /\ e.registry.ready /\ watched = "yes"
           /\ \A i \in Instances : Right(fs, 0, RowsOf(e.registry.instances), i)

\* Commands that make the core stop observing: the last one of an editor, and the
\* activation of another editor.
IsClosing(c) ==
    \/ c.selector = "activate_another"
    \/ c.selector = "set_instance_active" /\ c.context = Closing
NoClosing(box) == \A n \in DOMAIN box : ~IsClosing(box[n])

\* An attempt to connect that counts is the only one, and finds nothing on its way.
Counts(p) == IsConnect(p) /\ p.current
Connections(e) ==
    /\ \A p \in e.pending : Counts(p) => ~e.active /\ ~FetchPending(e.registry)
    /\ \A p, o \in e.pending : Counts(p) /\ Counts(o) => p = o

\* None of them is on its way to an active editor, and none behind the attempt to
\* connect of an editor that owns the session.
Watching(e, box, s) ==
    /\ e.active => e.owner /\ NoClosing(box)
    /\ \A p \in e.pending : e.owner /\ Counts(p) =>
         /\ \A m, n \in DOMAIN box : box[n].request = p.request /\ m > n => ~IsClosing(box[m])
         /\ \A n \in DOMAIN s : s[n].selector = "action_done" /\ s[n].request = p.request =>
              NoClosing(box)

PendingIds(e) == {p.request : p \in e.pending}

Tracks(e, box, fs) ==
    /\ ClientTypes(e.registry)
    /\ FetchPending(e.registry) => e.registry.fetch.request \notin PendingIds(e)
    /\ Connections(e) /\ Watching(e, box, fs \o reply) /\ Informed(e, box, fs)

\* While the observer is registered an answer is on its way, which is why no announcement
\* of a bank is; an instance that leaves has left.
CoreFacts ==
    /\ watched = "registering" => reply # << >>
    /\ \A p \in Peers : leaving[p].stage # "present" => p \notin live
    /\ \A n \in DOMAIN reply : reply[n].selector # "registry_changed"

RegistryInv == CoreFacts /\ Tracks(editor, inbox, frames)

-----------------------------------------------------------------------------
(* Handlers that leave the registry alone.                                 *)

\* The commands on their way are joined by others, with new ids, at the end.
Joined(b, c, new) ==
    /\ DOMAIN b \subseteq DOMAIN c /\ \A n \in DOMAIN b : c[n] = b[n]
    /\ \A n \in DOMAIN c \ DOMAIN b :
         /\ c[n].request \in new /\ ~IsClosing(c[n])
         /\ \A m \in DOMAIN b : m < n

\* An editor that has only sent more, and forgotten what it waits for.
Further(e, v) ==
    /\ v.owner = e.owner /\ v.active = e.active /\ v.registry = e.registry
    /\ e.used \subseteq v.used
    /\ Joined(Box(e), Box(v), v.used \ e.used)
    /\ \A p \in v.pending :
         /\ p.request \in PendingIds(e) \cup (v.used \ e.used)
         /\ p.kind \in {"initialize", "connect"} =>
              \E o \in e.pending : /\ o.kind = p.kind /\ o.request = p.request
                                   /\ p.current => o = p

\* It is reflexive and transitive.
LEMMA FurtherBoth ==
  ASSUME NEW a, NEW b, NEW c, Further(a, b), Further(b, c)
  PROVE  Further(a, c)
<1>1. c.owner = a.owner /\ c.active = a.active /\ c.registry = a.registry
      /\ a.used \subseteq b.used /\ b.used \subseteq c.used
  BY DEF Further
<1>2. Joined(Box(a), Box(b), b.used \ a.used) /\ Joined(Box(b), Box(c), c.used \ b.used)
  BY DEF Further
<1>3. Joined(Box(a), Box(c), c.used \ a.used)
  <2> DEFINE x == Box(a)
             y == Box(b)
             z == Box(c)
  <2>1. /\ DOMAIN x \subseteq DOMAIN y /\ DOMAIN y \subseteq DOMAIN z
        /\ \A n \in DOMAIN x : y[n] = x[n]
        /\ \A n \in DOMAIN y : z[n] = y[n]
        /\ \A n \in DOMAIN y \ DOMAIN x :
             /\ y[n].request \in b.used \ a.used /\ ~IsClosing(y[n])
             /\ \A m \in DOMAIN x : m < n
        /\ \A n \in DOMAIN z \ DOMAIN y :
             /\ z[n].request \in c.used \ b.used /\ ~IsClosing(z[n])
             /\ \A m \in DOMAIN y : m < n
    BY <1>2 DEF Joined
  <2> HIDE DEF x, y, z
  <2>2. ASSUME NEW n \in DOMAIN z \ DOMAIN x
        PROVE  z[n].request \in c.used \ a.used /\ ~IsClosing(z[n]) /\ \A m \in DOMAIN x : m < n
    BY <1>1, <2>1, <2>2
  <2>3. DOMAIN x \subseteq DOMAIN z /\ \A n \in DOMAIN x : z[n] = x[n]
    BY <2>1
  <2>4. Joined(x, z, c.used \ a.used)
    BY <2>2, <2>3 DEF Joined
  <2> QED
    BY <2>4 DEF x, z
<1>4. ASSUME NEW p \in c.pending
      PROVE  /\ p.request \in PendingIds(a) \cup (c.used \ a.used)
             /\ p.kind \in {"initialize", "connect"} =>
                  \E o \in a.pending : /\ o.kind = p.kind /\ o.request = p.request
                                       /\ p.current => o = p
  BY <1>1 DEF Further, PendingIds
<1> QED
  BY <1>1, <1>3, <1>4 DEF Further

\* A handler that changes other fields.
LEMMA FurtherAside ==
  ASSUME NEW e, NEW v,
         Same(e, v, {"owner", "active", "registry", "pending", "used", "out"})
  PROVE  Further(e, v)
BY DEF Same, Joined, Box, PendingIds, Further

\* A handler that changes the completions, but adds none.
LEMMA FurtherForgets ==
  ASSUME NEW e, NEW v, Same(e, v, {"owner", "active", "registry", "used", "out"}),
         \A p \in v.pending :
            \E o \in e.pending : o.kind = p.kind /\ o.request = p.request /\ (p.current => o = p)
  PROVE  Further(e, v)
BY DEF Same, Joined, Box, PendingIds, Further

\* Another command, which is not the last of an editor.
LEMMA RequestFurther ==
  ASSUME NEW e, CoreTypes, Loose(e), NEW kind \in Selectors,
         NEW i \in Instances, NEW x \in CommandContexts,
         kind \in {"observe_target", "write"} => x \in ContextSet,
         kind = "group_banks" => x \in Instances,
         kind = "set_instance_active" => x # Closing, kind # "activate_another"
  PROVE  Further(e, Request(e, Command(kind, i, x)))
<1> DEFINE v == Request(e, Command(kind, i, x))
           c == [Command(kind, i, x) EXCEPT !.request = NextId(e)]
<1>1. /\ EditorTypes(e) /\ Fresh(e) /\ IsFiniteSet(e.used) /\ inbox \in Seq(Commands)
      /\ e.out \in Seq(Commands)
  BY DEF Loose, Fresh, CoreTypes, EditorTypes
<1>2. NextId(e) \in Nat /\ NextId(e) \notin e.used
  BY <1>1, NextIdFacts
<1>3. c \in Commands /\ c.selector = kind /\ c.request = NextId(e) /\ c.context = x
  BY <1>2, CommandFacts
<1>4. /\ Same(e, v, EditorFields \ {"used", "out"})
      /\ v.used = e.used \cup {NextId(e)} /\ v.out = Append(e.out, c)
  BY <1>1, RequestFacts, Zenon DEF EditorTypes
<1> HIDE DEF v, c
<1>5. Box(v) = Append(Box(e), c) /\ Box(e) \in Seq(Commands)
  BY <1>1, <1>3, <1>4, Appends DEF Box
<1> DEFINE b == Box(e)
           d == Append(b, c)
           l == Len(b) + 1
<1>6. /\ DOMAIN d = DOMAIN b \cup {l} /\ d[l] = c /\ \A n \in DOMAIN b : d[n] = b[n]
      /\ \A m \in DOMAIN b : m < l
  BY <1>3, <1>5, Appends
<1>7. ~IsClosing(c)
  BY <1>3 DEF IsClosing
<1>8. c.request \in v.used \ e.used
  BY <1>2, <1>3, <1>4
<1> HIDE DEF b, d, l
<1>9. Joined(b, d, v.used \ e.used)
  BY <1>6, <1>7, <1>8 DEF Joined
<1>10. /\ v.owner = e.owner /\ v.active = e.active /\ v.registry = e.registry
       /\ v.pending = e.pending
  BY <1>4 DEF Same, EditorFields
<1>11. \A p \in v.pending : p.request \in PendingIds(e)
  BY <1>10 DEF PendingIds
<1>12. Joined(Box(e), Box(v), v.used \ e.used)
  BY <1>5, <1>9 DEF b, d
<1> QED
  BY <1>4, <1>10, <1>11, <1>12 DEF Further, v

\* Completions that are outdated.
LEMMA OutdateFurther ==
  ASSUME NEW e, Shaped(e, EditorFields), e.pending \subseteq Completions,
         NEW S, S \subseteq e.pending
  PROVE  Further(e, Outdate(e, S))
BY FurtherForgets DEF Shaped, Same, EditorFields, Outdate, Completions

\* What is shown of the bank is forgotten.
LEMMA InvalidateTargetFurther ==
  ASSUME NEW e, Loose(e)
  PROVE  Further(e, InvalidateTarget(e))
<1> DEFINE u == [e EXCEPT !.target = InvalidateTargetState(@)]
<1>1. /\ Shaped(u, EditorFields) /\ Same(e, u, EditorFields \ {"target"})
  BY ShapeOf, Zenon DEF Shaped, Same, EditorFields, InvalidateTargetState
<1>2. InvalidateTarget(e) = Outdate(u, Edits(e))
  BY DEF InvalidateTarget
<1> HIDE DEF u
<1>3. u.pending = e.pending /\ Edits(e) \subseteq u.pending /\ e.pending \subseteq Completions
  BY <1>1 DEF Same, EditorFields, Edits, Loose, EditorTypes
<1>4. Further(e, u)
  BY <1>1, FurtherAside DEF Same, EditorFields
<1>5. Further(u, Outdate(u, Edits(e)))
  BY <1>1, <1>3, OutdateFurther
<1> QED
  BY <1>2, <1>4, <1>5, FurtherBoth

\* One request for a context.
LEMMA RequestContextFurther ==
  ASSUME NEW e, CoreTypes, Loose(e), e.target.target = e.focus, NEW x \in ContextSet
  PROVE  Further(e, RequestContext(e, x))
<1> DEFINE v == RequestContext(e, x)
           u == [e EXCEPT !.target = ExpectSnapshot(@, NextId(e), x)]
           c == [Command("observe_target", e.focus, x) EXCEPT !.request = NextId(e)]
<1>1. /\ EditorTypes(e) /\ Fresh(e) /\ IsFiniteSet(e.used) /\ inbox \in Seq(Commands)
      /\ e.out \in Seq(Commands) /\ e.focus \in Instances
  BY DEF Loose, Fresh, CoreTypes, EditorTypes
<1>2. NextId(e) \in Nat /\ NextId(e) \notin e.used
  BY <1>1, NextIdFacts
<1>3. x \in CommandContexts /\ "observe_target" \in Selectors
  BY DEF CommandContexts, Selectors
<1>4. c \in Commands /\ c.selector = "observe_target" /\ c.request = NextId(e)
  BY <1>1, <1>2, <1>3, CommandFacts
<1>5. Shaped(u, EditorFields) /\ Same(e, u, EditorFields \ {"target"})
  BY ShapeOf, Zenon DEF Shaped, Same, EditorFields
<1>6. /\ u.owner = e.owner /\ u.active = e.active /\ u.registry = e.registry
      /\ u.used = e.used /\ u.pending = e.pending /\ u.out = e.out
  BY <1>5 DEF Same, EditorFields
<1>7. v = Request(u, Command("observe_target", e.focus, x)) /\ NextId(u) = NextId(e)
  BY <1>6 DEF RequestContext, NextId
<1> HIDE DEF u, v
<1>8. /\ Same(u, v, EditorFields \ {"used", "out"})
      /\ v.used = e.used \cup {NextId(e)} /\ v.out = Append(e.out, c)
  BY <1>5, <1>6, <1>7, RequestFacts, Zenon
<1> HIDE DEF c
<1>9. Box(v) = Append(Box(e), c) /\ Box(e) \in Seq(Commands)
  BY <1>1, <1>4, <1>8, Appends DEF Box
<1> DEFINE b == Box(e)
           d == Append(b, c)
           l == Len(b) + 1
<1>10. /\ DOMAIN d = DOMAIN b \cup {l} /\ d[l] = c /\ \A n \in DOMAIN b : d[n] = b[n]
       /\ \A m \in DOMAIN b : m < l
  BY <1>4, <1>9, Appends
<1>11. ~IsClosing(c)
  BY <1>4 DEF IsClosing
<1>12. c.request \in v.used \ e.used
  BY <1>2, <1>4, <1>8
<1> HIDE DEF b, d, l
<1>13. Joined(b, d, v.used \ e.used)
  BY <1>10, <1>11, <1>12 DEF Joined
<1>14. /\ v.owner = e.owner /\ v.active = e.active /\ v.registry = e.registry
       /\ v.pending = e.pending
  BY <1>6, <1>8 DEF Same, EditorFields
<1>15. \A p \in v.pending : p.request \in PendingIds(e)
  BY <1>14 DEF PendingIds
<1>16. Joined(Box(e), Box(v), v.used \ e.used)
  BY <1>9, <1>13 DEF b, d
<1> QED
  BY <1>8, <1>14, <1>15, <1>16 DEF Further, v

\* The requests for all contexts.
LEMMA RequestContextsFurther ==
  ASSUME NEW e, CoreTypes, Loose(e), e.target.target = e.focus
  PROVE  Further(e, RequestContexts(e))
<1> DEFINE N == Len(Contexts)
           P(v) == /\ Loose(v) /\ v.target.target = v.focus /\ Further(e, v)
<1>1. N \in Nat /\ \A n \in 1..N : Contexts[n] \in ContextSet
  BY ContextAssumption DEF ContextSet, ToSet
<1>2. PICK f : /\ f[0] = e /\ f[N] = RequestContexts(e)
               /\ \A n \in 1..N : f[n] = RequestContext(f[n - 1], Contexts[n])
  BY RequestContextsChain
<1> DEFINE S == {n \in 0..N : P(f[n])}
<1>3. 0 \in S
  <2>1. Further(e, e)
    BY FurtherAside DEF Same
  <2> QED
    BY <1>1, <1>2, <2>1
<1>4. ASSUME NEW n \in 0..N, n \in S, n < N PROVE n + 1 \in S
  <2>1. n + 1 \in 1..N /\ (n + 1) - 1 = n /\ n + 1 \in 0..N
    BY <1>1, <1>4
  <2> DEFINE u == f[n]
             v == f[n + 1]
  <2>2. v = RequestContext(u, Contexts[n + 1]) /\ Contexts[n + 1] \in ContextSet
    BY <2>1, <1>1, <1>2
  <2>3. P(u)
    BY <1>4
  <2> HIDE DEF u, v
  <2>4. /\ Loose(v) /\ Same(u, v, EditorFields \ {"used", "out", "target"})
        /\ Same(u.target, v.target, TargetFields \ {"requests"})
    BY <2>2, <2>3, RequestContextLoose
  <2>5. v.target.target = v.focus
    BY <2>3, <2>4 DEF Same, EditorFields, TargetFields
  <2>6. Further(u, v)
    BY <2>2, <2>3, RequestContextFurther
  <2>7. Further(e, v)
    BY <2>3, <2>6, FurtherBoth
  <2>8. P(v)
    BY <2>4, <2>5, <2>7
  <2> QED
    BY <2>1, <2>8 DEF v
<1>5. \A n \in 0..N : n \in S
  <2> HIDE DEF S, N, P
  <2> QED
    BY <1>1, <1>3, <1>4, Induction
<1>6. P(f[N])
  <2>1. N \in 0..N
    BY <1>1
  <2> HIDE DEF P
  <2> QED
    BY <2>1, <1>5
<1> QED
  BY <1>2, <1>6

\* The curves of the bank.
LEMMA FetchBankSnapshotsFurther ==
  ASSUME NEW e, CoreTypes, Loose(e)
  PROVE  Further(e, FetchBankSnapshots(e))
<1> DEFINE u == [e EXCEPT !.analyzer = FetchBanks(@, NextId(e))]
           w == Request(u, Command("observe_banks", e.target.target, Equalizer))
<1>1. Shaped(u, EditorFields) /\ Same(e, u, EditorFields \ {"analyzer"})
  BY ShapeOf, Zenon DEF Shaped, Same, EditorFields
<1>2. FetchBankSnapshots(e) \in {e, u, w}
  BY DEF FetchBankSnapshots
<1> HIDE DEF u
<1>3. Loose(u)
  BY <1>1, FieldTypes, AsideLoose DEF Same, EditorFields
<1>4. Further(e, u) /\ Further(e, e)
  BY <1>1, FurtherAside DEF Same, EditorFields
<1>5. Further(u, w)
  BY <1>3, ContextAssumption, FieldTypes, RequestFurther DEF CommandContexts, ContextSet, ToSet,
     Equalizer, Last, Selectors
<1>6. Further(e, w)
  BY <1>4, <1>5, FurtherBoth
<1> QED
  BY <1>2, <1>4, <1>6

\* An editor that starts over with its bank.
LEMMA ObserveFurther ==
  ASSUME NEW e, CoreTypes, Loose(e)
  PROVE  Further(e, Observe(e))
<1>1. CASE ~e.active
  <2>1. Observe(e) = e
    BY <1>1 DEF Observe
  <2> QED
    BY <2>1, FurtherAside DEF Same
<1>2. CASE e.active
  <2> DEFINE a == SetBusy(e, TRUE)
             b == [a EXCEPT !.curve = NoCurve, !.analyzer = InvalidateAnalyzer(@)]
             c == InvalidateTarget(b)
             d == [c EXCEPT !.target = NewTargetState(e.focus)]
             f == RequestContexts(d)
             v == FetchBankSnapshots(f)
  <2>1. Observe(e) = v
    BY <1>2 DEF Observe
  <2>2. Loose(a) /\ Same(e, a, EditorFields \ {"busy"}) /\ a.busy = TRUE
    BY SetBusyLoose
  <2>3. Shaped(b, EditorFields) /\ Same(a, b, EditorFields \ {"curve", "analyzer"})
    BY <2>2, ShapeOf, Zenon DEF Shaped, Same, EditorFields
  <2> HIDE DEF a
  <2> HIDE DEF b
  <2>4. Loose(b)
    BY <2>2, <2>3, FieldTypes, AsideLoose DEF Same, EditorFields
  <2>5. Loose(c) /\ Same(b, c, EditorFields \ {"target", "pending"})
    BY <2>4, InvalidateTargetLoose
  <2>6. Further(e, b)
    BY <2>2, <2>3, FurtherAside DEF Same, EditorFields
  <2>7. Further(b, c)
    BY <2>4, InvalidateTargetFurther
  <2> HIDE DEF c
  <2>8. /\ Shaped(d, EditorFields) /\ Same(c, d, EditorFields \ {"target"})
        /\ d.target = NewTargetState(e.focus)
    BY <2>5, ShapeOf, Zenon DEF Shaped, Same, EditorFields
  <2> HIDE DEF d
  <2>9. Loose(d) /\ d.target.target = e.focus
    BY <2>5, <2>8, FieldTypes, RetargetLoose DEF NewTargetState
  <2>10. d.focus = e.focus
    BY <2>2, <2>3, <2>5, <2>8 DEF Same, EditorFields
  <2>11. Further(c, d)
    BY <2>8, FurtherAside DEF Same, EditorFields
  <2>12. Loose(f) /\ Further(d, f)
    BY <2>9, <2>10, RequestContextsLoose, RequestContextsFurther
  <2> HIDE DEF f
  <2>13. Further(f, v)
    BY <2>12, FetchBankSnapshotsFurther
  <2> HIDE DEF v
  <2>14. Further(e, d)
    BY <2>6, <2>7, <2>11, FurtherBoth
  <2>15. Further(e, v)
    BY <2>12, <2>13, <2>14, FurtherBoth
  <2> QED
    BY <2>1, <2>15
<1> QED
  BY <1>1, <1>2

\* A command that is sent is asked for, and its completion is kept.
LEMMA SendAsks ==
  ASSUME NEW e, Loose(e), NEW command, NEW of
  PROVE  LET u == Request(e, command)
             v == Send(e, command, of)
         IN  /\ Same(u, v, EditorFields \ {"pending"})
             /\ v.pending = u.pending \cup
                  {[request |-> NextId(e), kind |-> of, current |-> TRUE, scope |-> e.scope,
                    front |-> command.target]}
             /\ Same(e, u, EditorFields \ {"used", "out"}) /\ u.used = e.used \cup {NextId(e)}
             /\ u.out = Append(e.out, [command EXCEPT !.request = NextId(e)])
<1> DEFINE p == [request |-> NextId(e), kind |-> of, current |-> TRUE, scope |-> e.scope,
                 front |-> command.target]
           u == Request(e, command)
           v == Send(e, command, of)
<1> DEFINE a == [e EXCEPT !.pending = @ \cup {p}]
<1>1. Shaped(a, EditorFields) /\ Same(e, a, EditorFields \ {"pending"})
      /\ a.pending = e.pending \cup {p}
  BY ShapeOf, Zenon DEF Shaped, Same, EditorFields
<1>2. v = Request(a, command)
  BY DEF Send
<1> HIDE DEF a, p, u, v
<1>3. a.used = e.used /\ a.out = e.out
  BY <1>1 DEF Same, EditorFields
<1>4. NextId(a) = NextId(e)
  BY <1>3 DEF NextId
<1>5. /\ Same(a, v, EditorFields \ {"used", "out"}) /\ v.used = e.used \cup {NextId(e)}
      /\ v.out = Append(e.out, [command EXCEPT !.request = NextId(e)])
  BY <1>1, <1>2, <1>3, <1>4, RequestFacts, Zenon
<1>6. /\ Same(e, u, EditorFields \ {"used", "out"}) /\ u.used = e.used \cup {NextId(e)}
      /\ u.out = Append(e.out, [command EXCEPT !.request = NextId(e)])
  BY ShapeOf, RequestFacts, Zenon DEF u
<1> QED
  BY <1>1, <1>5, <1>6 DEF Same, EditorFields, u, v, p

\* A new command whose completion is waited for.
LEMMA SendFurther ==
  ASSUME NEW e, CoreTypes, Loose(e), NEW kind \in Selectors,
         NEW i \in Instances, NEW x \in CommandContexts,
         kind \in {"observe_target", "write"} => x \in ContextSet,
         kind = "group_banks" => x \in Instances,
         kind = "set_instance_active" => x # Closing, kind # "activate_another",
         NEW of \in Kinds, of \notin {"initialize", "connect"}
  PROVE  Further(e, Send(e, Command(kind, i, x), of))
<1> DEFINE command == Command(kind, i, x)
           p == [request |-> NextId(e), kind |-> of, current |-> TRUE, scope |-> e.scope,
                 front |-> command.target]
           u == Request(e, command)
           v == Send(e, command, of)
<1>1. Further(e, u)
  BY RequestFurther
<1>2. /\ NextId(e) \in Nat /\ NextId(e) \notin e.used
  BY NextIdFacts DEF Loose, Fresh
<1>3. /\ Same(u, v, EditorFields \ {"pending"}) /\ v.pending = u.pending \cup {p}
      /\ u.used = e.used \cup {NextId(e)}
  BY SendAsks
<1>4. p.request = NextId(e) /\ p.kind \notin {"initialize", "connect"}
  OBVIOUS
<1> HIDE DEF u, v, p
<1>5. /\ v.owner = u.owner /\ v.active = u.active /\ v.registry = u.registry
      /\ v.used = u.used /\ v.out = u.out
  BY <1>3 DEF Same, EditorFields
<1>6. ASSUME NEW o \in v.pending
      PROVE  /\ o.request \in PendingIds(e) \cup (v.used \ e.used)
             /\ o.kind \in {"initialize", "connect"} =>
                  \E k \in e.pending : k.kind = o.kind /\ k.request = o.request
                                       /\ (o.current => k = o)
  <2>1. CASE o = p
    BY <2>1, <1>2, <1>3, <1>4, <1>5
  <2>2. CASE o # p
    <3>1. o \in u.pending
      BY <2>2, <1>3
    <3> QED
      BY <3>1, <1>1, <1>5 DEF Further
  <2> QED
    BY <2>1, <2>2
<1>7. Box(v) = Box(u)
  BY <1>5 DEF Box
<1> QED
  BY <1>1, <1>5, <1>6, <1>7 DEF Further, v

\* None of the new commands is the last of an editor.
LEMMA JoinedClosing ==
  ASSUME NEW b, NEW c, NEW new, Joined(b, c, new), NoClosing(b)
  PROVE  NoClosing(c)
BY DEF Joined, NoClosing

\* New commands are not mistaken for the one that asks for the registry.
LEMMA JoinedIds ==
  ASSUME NEW b, NEW c, NEW new, Joined(b, c, new), NEW r, NEW q, q \notin new
  PROVE  /\ q \notin Ids(b) => q \notin Ids(c)
         /\ r.fetch.request = q => \A s : Requested(r, b, s) => Requested(r, c, s)
         /\ (\A m, n \in DOMAIN b : b[n].request = q /\ m > n => ~IsClosing(b[m])) =>
              \A m, n \in DOMAIN c : c[n].request = q /\ m > n => ~IsClosing(c[m])
BY DEF Joined, Ids, Requested

\* All that is waited for or on its way has an id in use.
Covers(e, fs) ==
    /\ fs \in Seq(Frames) /\ Ids(fs) \subseteq e.used /\ PendingIds(e) \subseteq e.used
    /\ FetchPending(e.registry) => e.registry.fetch.request \in e.used
Tracked(e, fs) == Covers(e, fs) /\ Tracks(e, Box(e), fs)

\* What the editor knows is not touched.
LEMMA FurtherTracked ==
  ASSUME NEW e, NEW fs, Tracked(e, fs), NEW v, Further(e, v)
  PROVE  Tracked(v, fs)
<1> DEFINE r == e.registry
           q == r.fetch.request
           new == v.used \ e.used
           b == Box(e)
           c == Box(v)
           s == fs \o reply
<1>1. /\ v.owner = e.owner /\ v.active = e.active /\ v.registry = r
      /\ e.used \subseteq v.used /\ Joined(b, c, new)
  BY DEF Further
<1>2. \A p \in v.pending :
         /\ p.request \in PendingIds(e) \cup new
         /\ p.kind \in {"initialize", "connect"} =>
              \E o \in e.pending : o.kind = p.kind /\ o.request = p.request /\ (p.current => o = p)
  BY DEF Further
<1>3. /\ fs \in Seq(Frames) /\ Ids(fs) \subseteq e.used /\ PendingIds(e) \subseteq e.used
      /\ FetchPending(r) => q \in e.used
  BY DEF Tracked, Covers
<1>4. /\ ClientTypes(r) /\ (FetchPending(r) => q \notin PendingIds(e))
      /\ Connections(e) /\ Watching(e, b, s) /\ Informed(e, b, fs)
  BY DEF Tracked, Tracks
<1> HIDE DEF b, c, s, new, r, q
<1>5. Covers(v, fs)
  <2>1. PendingIds(v) \subseteq v.used
    <3>1. \A p \in v.pending : p.request \in v.used
      BY <1>1, <1>2, <1>3 DEF new
    <3> QED
      BY <3>1 DEF PendingIds
  <2> QED
    BY <1>1, <1>3, <2>1 DEF Covers, q, r
<1>6. FetchPending(r) => q \notin PendingIds(v)
  BY <1>2, <1>3, <1>4 DEF PendingIds, new
<1>7. Connections(v)
  <2>1. ASSUME NEW p \in v.pending, Counts(p) PROVE p \in e.pending
    <3>1. p.kind \in {"initialize", "connect"} /\ p.current
      BY <2>1 DEF Counts, IsConnect
    <3> QED
      BY <3>1, <1>2
  <2> QED
    BY <2>1, <1>1, <1>4 DEF Connections, r
<1>8. Watching(v, c, s)
  <2>0. NoClosing(b) => NoClosing(c)
    BY <1>1, JoinedClosing
  <2>2. v.active => v.owner /\ NoClosing(c)
    BY <2>0, <1>1, <1>4 DEF Watching
  <2>3. ASSUME NEW p \in v.pending, v.owner, Counts(p)
        PROVE  /\ \A m, n \in DOMAIN c : c[n].request = p.request /\ m > n => ~IsClosing(c[m])
               /\ \A n \in DOMAIN s : s[n].selector = "action_done" /\ s[n].request = p.request =>
                    NoClosing(c)
    <3>1. p.kind \in {"initialize", "connect"} /\ p.current
      BY <2>3 DEF Counts, IsConnect
    <3>2. p \in e.pending /\ e.owner
      BY <3>1, <2>3, <1>1, <1>2
    <3>3. /\ \A m, n \in DOMAIN b : b[n].request = p.request /\ m > n => ~IsClosing(b[m])
          /\ \A n \in DOMAIN s : s[n].selector = "action_done" /\ s[n].request = p.request =>
               NoClosing(b)
      BY <3>2, <2>3, <1>4 DEF Watching
    <3>4. p.request \notin new
      BY <3>2, <1>3 DEF PendingIds, new
    <3>5. \A m, n \in DOMAIN c : c[n].request = p.request /\ m > n => ~IsClosing(c[m])
      BY <3>3, <3>4, <1>1, JoinedIds
    <3> QED
      BY <3>3, <3>5, <2>0
  <2> QED
    BY <2>2, <2>3 DEF Watching
<1>9. Informed(v, c, fs)
  <2>1. CASE ~e.active
    BY <2>1, <1>1 DEF Informed
  <2>2. CASE e.active /\ ~FetchPending(r)
    BY <2>2, <1>1, <1>4 DEF Informed, r
  <2>3. CASE e.active /\ FetchPending(r)
    <3>1. q \notin new
      BY <2>3, <1>3 DEF new
    <3>2. q \notin Ids(b) => q \notin Ids(c)
      BY <1>1, <3>1, JoinedIds
    <3>3. Requested(r, b, s) => Requested(r, c, s)
      BY <1>1, <3>1, JoinedIds DEF q
    <3>4. Requested(r, b, s) \/ Refused(r, b, s) \/ Answered(r, b, fs)
      BY <2>3, <1>4 DEF Informed, r, s
    <3>5. Refused(r, b, s) => Refused(r, c, s)
      BY <3>2 DEF Refused, q
    <3>6. Answered(r, b, fs) => Answered(r, c, fs)
      BY <3>2 DEF Answered, q
    <3> QED
      BY <2>3, <3>3, <3>4, <3>5, <3>6, <1>1 DEF Informed, s, r
  <2> QED
    BY <2>1, <2>2, <2>3
<1>10. Tracks(v, c, fs)
  BY <1>1, <1>4, <1>6, <1>7, <1>8, <1>9 DEF Tracks, r, q, s
<1> QED
  BY <1>5, <1>10 DEF Tracked, c

\* An editor whose session is not active knows nothing.
LEMMA StoppedTracked ==
  ASSUME NEW e, NEW fs, Tracked(e, fs), NEW v,
         Same(e, v, {"used", "out"}), v.active = FALSE,
         ClientTypes(v.registry),
         FetchPending(v.registry) =>
           FetchPending(e.registry) /\ v.registry.fetch.request = e.registry.fetch.request,
         \A p \in v.pending :
            \E o \in e.pending : o.kind = p.kind /\ o.request = p.request /\ (p.current => o = p),
         v.owner => e.owner \/ \A p \in v.pending : ~Counts(p)
  PROVE  Tracked(v, fs)
<1>1. v.used = e.used /\ v.out = e.out
  BY DEF Same
<1>2. Box(v) = Box(e)
  BY <1>1 DEF Box
<1>3. PendingIds(v) \subseteq PendingIds(e)
  BY DEF PendingIds
<1>4. Covers(v, fs)
  BY <1>1, <1>3 DEF Tracked, Covers
<1>5. Connections(e) /\ Watching(e, Box(e), fs \o reply)
      /\ (FetchPending(e.registry) => e.registry.fetch.request \notin PendingIds(e))
  BY DEF Tracked, Tracks
<1>6. \A p \in v.pending : Counts(p) => p \in e.pending
  BY DEF Counts
<1>7. Connections(v)
  BY <1>5, <1>6 DEF Connections
<1>9. Watching(v, Box(v), fs \o reply)
  BY <1>2, <1>5, <1>6 DEF Watching
<1>10. Informed(v, Box(v), fs)
  BY DEF Informed
<1> QED
  BY <1>3, <1>4, <1>5, <1>7, <1>9, <1>10 DEF Tracked, Tracks

-----------------------------------------------------------------------------
(* Frames that are taken.                                                  *)

\* The ids of frames in a row.
LEMMA IdsJoins ==
  ASSUME NEW C, NEW s \in Seq(C), NEW r \in Seq(C)
  PROVE  Ids(s \o r) = Ids(s) \cup Ids(r)
<1> DEFINE j == s \o r
<1>1. /\ \A n \in DOMAIN s : j[n] = s[n] /\ n \in DOMAIN j
      /\ \A n \in DOMAIN r : j[Len(s) + n] = r[n] /\ Len(s) + n \in DOMAIN j
      /\ \A n \in DOMAIN j : (n \in DOMAIN s /\ j[n] = s[n])
                             \/ (n - Len(s) \in DOMAIN r /\ j[n] = r[n - Len(s)])
  BY Joins
<1> HIDE DEF j
<1>2. Ids(j) \subseteq Ids(s) \cup Ids(r)
  BY <1>1 DEF Ids
<1>3. Ids(s) \subseteq Ids(j)
  BY <1>1 DEF Ids
<1>4. Ids(r) \subseteq Ids(j)
  BY <1>1 DEF Ids
<1> QED
  BY <1>2, <1>3, <1>4 DEF j

\* The first frame of a stream.
LEMMA StreamTail ==
  ASSUME NEW fs \in Seq(Frames), fs # << >>, NEW r \in Seq(Frames)
  PROVE  LET s == fs \o r
             t == Tail(fs) \o r
         IN  /\ s \in Seq(Frames) /\ t \in Seq(Frames) /\ Tail(fs) \in Seq(Frames)
             /\ Len(fs) \in Nat \ {0} /\ Len(Tail(fs)) = Len(fs) - 1
             /\ 1 \in DOMAIN s /\ s[1] = Head(fs) /\ fs[1] = Head(fs) /\ Head(fs) \in Frames
             /\ \A n \in DOMAIN t : n + 1 \in DOMAIN s /\ t[n] = s[n + 1] /\ n \in Nat \ {0}
             /\ \A n \in DOMAIN s : n \in Nat \ {0} /\ (n # 1 => n - 1 \in DOMAIN t
                                                                /\ t[n - 1] = s[n])
             /\ \A n \in DOMAIN Tail(fs) : n + 1 \in DOMAIN fs /\ Tail(fs)[n] = fs[n + 1]
                                           /\ n \in Nat \ {0}
             /\ \A n \in DOMAIN fs : n \in Nat \ {0} /\ (n # 1 => n - 1 \in DOMAIN Tail(fs)
                                                        /\ Tail(fs)[n - 1] = fs[n])
<1> DEFINE s == fs \o r
           u == Tail(fs)
           t == u \o r
<1>1. /\ u \in Seq(Frames) /\ Len(fs) \in Nat \ {0} /\ Len(u) = Len(fs) - 1
      /\ fs[1] = Head(fs) /\ Head(fs) \in Frames
      /\ DOMAIN u = 1..(Len(fs) - 1) /\ DOMAIN fs = 1..Len(fs)
      /\ \A n \in 1..(Len(fs) - 1) : u[n] = fs[n + 1]
  OBVIOUS
<1> HIDE DEF u
<1>2. /\ s \in Seq(Frames) /\ DOMAIN s = 1..(Len(fs) + Len(r)) /\ Len(r) \in Nat
      /\ \A n \in 1..Len(fs) : s[n] = fs[n]
      /\ \A n \in 1..Len(r) : s[Len(fs) + n] = r[n]
  OBVIOUS
<1>3. /\ t \in Seq(Frames) /\ DOMAIN t = 1..(Len(u) + Len(r))
      /\ \A n \in 1..Len(u) : t[n] = u[n]
      /\ \A n \in 1..Len(r) : t[Len(u) + n] = r[n]
  <2>1. u \in Seq(Frames)
    BY <1>1
  <2> QED
    BY <2>1
<1> HIDE DEF s, t
<1>4. ASSUME NEW n \in DOMAIN t PROVE n + 1 \in DOMAIN s /\ t[n] = s[n + 1] /\ n \in Nat \ {0}
  <2>1. n + 1 \in DOMAIN s /\ n \in Nat \ {0}
    BY <1>1, <1>2, <1>3
  <2>2. CASE n <= Len(u)
    <3>1. n \in 1..Len(u) /\ n + 1 \in 1..Len(fs)
      BY <2>1, <2>2, <1>1
    <3> QED
      BY <3>1, <2>1, <1>1, <1>2, <1>3
  <2>3. CASE ~(n <= Len(u))
    <3> DEFINE m == n - Len(u)
    <3>1. m \in 1..Len(r) /\ n = Len(u) + m /\ n + 1 = Len(fs) + m
      BY <2>1, <2>3, <1>1, <1>2, <1>3
    <3> HIDE DEF m
    <3> QED
      BY <3>1, <2>1, <1>2, <1>3
  <2> QED
    BY <2>2, <2>3
<1>5. ASSUME NEW n \in DOMAIN s
      PROVE  n \in Nat \ {0} /\ (n # 1 => n - 1 \in DOMAIN t /\ t[n - 1] = s[n])
  BY <1>1, <1>2, <1>3, <1>4
<1>7. 1 \in DOMAIN s /\ s[1] = Head(fs)
  BY <1>1, <1>2
<1> QED
  BY <1>1, <1>2, <1>3, <1>4, <1>5, <1>7 DEF s, t, u

\* What is told of an instance, when the first frame is taken.
LEMMA RightTail ==
  ASSUME NEW fs \in Seq(Frames), fs # << >>, NEW k \in Nat, NEW j \in Nat, NEW R, NEW i,
         (k # 0 /\ j = k - 1) \/ (k = 0 /\ j = 0 /\ ~About(Head(fs), i)),
         Right(fs, k, R, i)
  PROVE  Right(Tail(fs), j, R, i)
<1> DEFINE u == Tail(fs)
<1>1. /\ fs[1] = Head(fs)
      /\ \A n \in DOMAIN u : n + 1 \in DOMAIN fs /\ u[n] = fs[n + 1] /\ n \in Nat \ {0}
      /\ \A n \in DOMAIN fs : n \in Nat \ {0} /\ (n # 1 => n - 1 \in DOMAIN u /\ u[n - 1] = fs[n])
  BY Tails
<1> HIDE DEF u
<1>2. CASE LastTells(fs, k, i)
  <2>1. PICK n \in DOMAIN fs : /\ n > k /\ About(fs[n], i) /\ Tells(fs[n], i)
                               /\ \A m \in DOMAIN fs : m > n => ~About(fs[m], i)
    BY <1>2 DEF LastTells
  <2>2. n # 1 /\ n \in Nat \ {0}
    BY <2>1, <1>1
  <2>3. n - 1 \in DOMAIN u /\ u[n - 1] = fs[n] /\ n - 1 > j
    BY <2>1, <2>2, <1>1
  <2>4. ASSUME NEW m \in DOMAIN u, m > n - 1 PROVE ~About(u[m], i)
    <3>1. m + 1 \in DOMAIN fs /\ u[m] = fs[m + 1] /\ m + 1 > n
      BY <2>2, <2>4, <1>1
    <3> QED
      BY <3>1, <2>1
  <2>5. LastTells(u, j, i)
    BY <2>1, <2>3, <2>4 DEF LastTells
  <2> QED
    BY <2>5 DEF Right, u
<1>3. CASE Untold(fs, k, i) /\ Holds(R, i)
  <2>1. ASSUME NEW n \in DOMAIN u, n > j PROVE ~About(u[n], i)
    BY <1>1, <1>3, <2>1 DEF Untold
  <2>2. Untold(u, j, i)
    BY <2>1 DEF Untold
  <2> QED
    BY <2>2, <1>3 DEF Right, u
<1> QED
  BY <1>2, <1>3 DEF Right

\* The client waits on for an answer when a frame is taken that does not end it; a row of
\* the answer goes from the frames to the client.
LEMMA AnswerTail ==
  ASSUME NEW fs \in Seq(Frames), fs # << >>, CoreTypes, NEW r, NEW u, NEW box,
         u.fetch.request = r.fetch.request, r.required \in Nat, u.required \in Nat,
         r.required <= u.required,
         Head(fs).selector = "registry_changed" => Head(fs).revision <= u.required,
         Has(Head(fs), r.fetch.request) => Head(fs).selector # "registry_done",
         RowsOf(u.fetch.instances) = RowsOf(r.fetch.instances) \cup
           {<<f.instance, f.row>> : f \in {x \in {Head(fs)} : IsRow(x, r.fetch.request)}},
         Answered(r, box, fs)
  PROVE  Answered(u, box, Tail(fs))
<1> DEFINE v == Tail(fs)
           t == v \o reply
           s == fs \o reply
           q == r.fetch.request
           g == r.fetch.instances
<1>0. /\ s \in Seq(Frames) /\ t \in Seq(Frames) /\ v \in Seq(Frames)
      /\ Len(fs) \in Nat \ {0} /\ Len(v) = Len(fs) - 1
      /\ 1 \in DOMAIN s /\ s[1] = Head(fs) /\ fs[1] = Head(fs) /\ Head(fs) \in Frames
      /\ \A n \in DOMAIN t : n + 1 \in DOMAIN s /\ t[n] = s[n + 1] /\ n \in Nat \ {0}
      /\ \A n \in DOMAIN s : n \in Nat \ {0} /\ (n # 1 => n - 1 \in DOMAIN t /\ t[n - 1] = s[n])
      /\ \A n \in DOMAIN v : n + 1 \in DOMAIN fs /\ v[n] = fs[n + 1] /\ n \in Nat \ {0}
      /\ \A n \in DOMAIN fs : n \in Nat \ {0} /\ (n # 1 => n - 1 \in DOMAIN v /\ v[n - 1] = fs[n])
      /\ revision \in Nat
  <2>1. reply \in Seq(Frames) /\ revision \in Nat
    BY DEF CoreTypes
  <2> QED
    BY <2>1, StreamTail
<1> HIDE DEF t, s, v, q, g
<1>1. PICK k \in DOMAIN s :
        /\ Ends(s, k, q) /\ Trusted(fs, k, s[k].revision, r.required, Gathered(g, s, k, q))
  BY Zenon DEF Answered, s, q, g
<1> DEFINE S == s[k].revision
           R == Gathered(g, s, k, q)
           W == Gathered(u.fetch.instances, t, k - 1, q)
<1>2. S \in Nat /\ Has(s[k], q)
  <2>1. s[k] \in Frames /\ s[k].selector = "registry_done" /\ s[k].request = q
    BY <1>1, <1>0 DEF Ends
  <2> QED
    BY <2>1 DEF Frames, Answers, Notifications, Deltas, Has
<1>3. k \in Nat \ {0} /\ k # 1 /\ k - 1 \in DOMAIN t /\ t[k - 1] = s[k] /\ k - 1 \in Nat
  BY <1>0, <1>1, <1>2 DEF Ends, q
<1> HIDE DEF S, R, W
<1>4. Ends(t, k - 1, q)
  <2>1. ASSUME NEW n \in DOMAIN t, Has(t[n], q)
        PROVE  n <= k - 1
               /\ (n < k - 1 => t[n].selector \in {"registry_begin", "registry_instance"})
    <3>1. n + 1 \in DOMAIN s /\ t[n] = s[n + 1] /\ n \in Nat
      BY <2>1, <1>0
    <3> QED
      BY <1>1, <1>3, <2>1, <3>1 DEF Ends
  <2>2. t[k - 1].selector = "registry_done" /\ t[k - 1].request = q
    BY <1>1, <1>3 DEF Ends
  <2> QED
    BY <2>1, <2>2 DEF Ends
<1>5. W = R
  <2> DEFINE old == {s[n] : n \in {m \in DOMAIN s : m < k /\ IsRow(s[m], q)}}
             new == {t[n] : n \in {m \in DOMAIN t : m < k - 1 /\ IsRow(t[m], q)}}
             first == {f \in {s[1]} : IsRow(f, q)}
  <2>1. ASSUME NEW n \in DOMAIN t, n < k - 1, IsRow(t[n], q) PROVE t[n] \in old
    <3>1. n + 1 \in DOMAIN s /\ t[n] = s[n + 1] /\ n \in Nat
      BY <1>0
    <3>2. n + 1 < k
      BY <3>1, <2>1, <1>3
    <3> QED
      BY <3>1, <3>2, <2>1
  <2>2. ASSUME NEW n \in DOMAIN s, n < k, IsRow(s[n], q) PROVE s[n] \in new \cup first
    <3>1. CASE n = 1
      BY <2>2, <3>1
    <3>2. CASE n # 1
      <4>1. n - 1 \in DOMAIN t /\ t[n - 1] = s[n] /\ n - 1 < k - 1
        BY <3>2, <2>2, <1>0, <1>3
      <4> QED
        BY <4>1, <2>2
    <3> QED
      BY <3>1, <3>2
  <2>3. first \subseteq old
    <3>1. 1 < k
      BY <1>3
    <3> QED
      BY <3>1, <1>0
  <2>4. old = new \cup first
    BY <2>1, <2>2, <2>3
  <2>5. R = RowsOf(r.fetch.instances) \cup {<<f.instance, f.row>> : f \in old}
    BY DEF R, Gathered, g
  <2>6. W = RowsOf(u.fetch.instances) \cup {<<f.instance, f.row>> : f \in new}
    BY DEF W, Gathered
  <2>7. RowsOf(u.fetch.instances)
          = RowsOf(r.fetch.instances) \cup {<<f.instance, f.row>> : f \in first}
    BY <1>0 DEF q
  <2> HIDE DEF old, new, first
  <2> QED
    BY <2>4, <2>5, <2>6, <2>7
<1>6. Trusted(v, k - 1, S, u.required, R)
  <2>2. k > Len(fs) => k - 1 > Len(v)
    BY <1>3, <1>0
  <2>3. ASSUME Overtaken(fs, k, S, r.required) PROVE Overtaken(v, k - 1, S, u.required)
    <3>1. CASE S < r.required
      BY <3>1, <1>2 DEF Overtaken
    <3>2. CASE \E n \in DOMAIN fs : /\ n < k /\ fs[n].selector = "registry_changed"
                                    /\ fs[n].revision > S
      <4>1. PICK n \in DOMAIN fs : /\ n < k /\ fs[n].selector = "registry_changed"
                                   /\ fs[n].revision > S
        BY <3>2
      <4>2. CASE n = 1
        BY <1>0, <1>2, <4>1, <4>2 DEF Frames, Answers, Notifications, Deltas, Overtaken
      <4>3. CASE n # 1
        <5>1. n - 1 \in DOMAIN v /\ v[n - 1] = fs[n] /\ n - 1 < k - 1
          BY <4>1, <4>3, <1>0, <1>3
        <5> QED
          BY <5>1, <4>1 DEF Overtaken
      <4> QED
        BY <4>2, <4>3
    <3> QED
      BY <2>3, <3>1, <3>2 DEF Overtaken
  <2>4. ASSUME NEW i \in Instances, Right(fs, k, R, i) PROVE Right(v, k - 1, R, i)
    BY <1>3, <2>4, RightTail DEF v
  <2> QED
    BY <1>1, <2>2, <2>3, <2>4 DEF Trusted, S, R
<1> QED
  <2>1. q \notin Ids(box) /\ u.fetch.request = q
    BY DEF Answered, q
  <2> QED
    BY <1>3, <1>4, <1>5, <1>6, <2>1, Zenon DEF Answered, S, W, t, v

\* The client waits on when a frame is taken that does not answer it; a delta makes it
\* require a newer snapshot.
LEMMA FetchTail ==
  ASSUME NEW fs \in Seq(Frames), fs # << >>, CoreTypes, NEW r, NEW u, NEW box,
         u.fetch = r.fetch, r.required \in Nat, u.required \in Nat, r.required <= u.required,
         Head(fs).selector = "registry_changed" => Head(fs).revision <= u.required,
         ~Has(Head(fs), r.fetch.request)
  PROVE  LET t == Tail(fs) \o reply
             s == fs \o reply
         IN  /\ Requested(r, box, s) => Requested(u, box, t)
             /\ Refused(r, box, s) => Refused(u, box, t)
             /\ Answered(r, box, fs) => Answered(u, box, Tail(fs))
<1> DEFINE v == Tail(fs)
           t == v \o reply
           s == fs \o reply
           q == r.fetch.request
           g == r.fetch.instances
<1>0. reply \in Seq(Frames) /\ revision \in Nat
  BY DEF CoreTypes
<1>1. /\ s \in Seq(Frames) /\ t \in Seq(Frames) /\ v \in Seq(Frames)
      /\ Len(fs) \in Nat \ {0} /\ Len(v) = Len(fs) - 1
      /\ s[1] = Head(fs) /\ fs[1] = Head(fs) /\ Head(fs) \in Frames
      /\ \A n \in DOMAIN t : n + 1 \in DOMAIN s /\ t[n] = s[n + 1] /\ n \in Nat \ {0}
      /\ \A n \in DOMAIN s : n \in Nat \ {0} /\ (n # 1 => n - 1 \in DOMAIN t /\ t[n - 1] = s[n])
      /\ \A n \in DOMAIN v : n + 1 \in DOMAIN fs /\ v[n] = fs[n + 1] /\ n \in Nat \ {0}
      /\ \A n \in DOMAIN fs : n \in Nat \ {0} /\ (n # 1 => n - 1 \in DOMAIN v /\ v[n - 1] = fs[n])
  BY <1>0, StreamTail
<1>2. u.fetch.request = q /\ u.fetch.instances = g /\ ~Has(s[1], q)
  BY <1>1
<1> HIDE DEF t, s, v, q, g
<1>3. Requested(r, box, s) => Requested(u, box, t)
  <2>1. Ids(t) \subseteq Ids(s)
    BY <1>1 DEF Ids
  <2> QED
    BY <2>1, <1>2 DEF Requested, q, g
<1>4. ASSUME Refused(r, box, s) PROVE Refused(u, box, t)
  <2>1. PICK n \in DOMAIN s : Has(s[n], q)
    BY <1>4 DEF Refused, q
  <2>2. n - 1 \in DOMAIN t /\ t[n - 1] = s[n]
    BY <2>1, <1>1, <1>2
  <2>3. \A m \in DOMAIN t : Has(t[m], q) => t[m].selector = "error"
    BY <1>1, <1>4 DEF Refused, q
  <2> QED
    BY <2>1, <2>2, <2>3, <1>2, <1>4 DEF Refused, q
<1>5. ASSUME Answered(r, box, fs) PROVE Answered(u, box, v)
  <2>1. ~IsRow(Head(fs), q)
    <3> SUFFICES ASSUME IsRow(Head(fs), q) PROVE FALSE
      OBVIOUS
    <3>1. Head(fs) \in Frames /\ Head(fs).selector = "registry_instance" /\ Head(fs).request = q
      BY <1>1 DEF IsRow
    <3>2. Has(Head(fs), q)
      BY <3>1 DEF Frames, Answers, Notifications, Deltas, Has
    <3> QED
      BY <3>2 DEF q
  <2>2. {<<f.instance, f.row>> : f \in {x \in {Head(fs)} : IsRow(x, q)}} = {}
    BY <2>1
  <2> QED
    BY <1>5, <2>2, AnswerTail DEF v, q
<1> QED
  BY <1>3, <1>4, <1>5 DEF t, s, v

\* What is known of the commands that end the observation holds of fewer frames.
LEMMA WatchingLess ==
  ASSUME NEW e, NEW box, NEW s, NEW t, Watching(e, box, s),
         \A n \in DOMAIN t : \E m \in DOMAIN s : t[n] = s[m]
  PROVE  Watching(e, box, t)
<1>1. ASSUME NEW p \in e.pending, e.owner, Counts(p), NEW n \in DOMAIN t,
             t[n].selector = "action_done", t[n].request = p.request
      PROVE  NoClosing(box)
  <2>1. PICK m \in DOMAIN s : t[n] = s[m]
    BY <1>1
  <2> QED
    BY <1>1, <2>1 DEF Watching
<1> QED
  BY <1>1 DEF Watching

\* What does not depend on the frames about the registry.
Rests(e, box, s) ==
    /\ ClientTypes(e.registry)
    /\ FetchPending(e.registry) => e.registry.fetch.request \notin PendingIds(e)
    /\ Connections(e) /\ Watching(e, box, s)

\* The parts of what is kept.
LEMMA RestsTracked ==
  ASSUME NEW e, NEW fs
  PROVE  Tracked(e, fs) <=> /\ Covers(e, fs) /\ Rests(e, Box(e), fs \o reply)
                            /\ Informed(e, Box(e), fs)
BY DEF Tracked, Tracks, Rests

\* The rest, when a frame is taken.
LEMMA RestsTail ==
  ASSUME CoreTypes, NEW e, NEW fs, fs # << >>, Covers(e, fs), Rests(e, Box(e), fs \o reply)
  PROVE  Covers(e, Tail(fs)) /\ Rests(e, Box(e), Tail(fs) \o reply)
<1> DEFINE s == fs \o reply
           t == Tail(fs) \o reply
<1>0. reply \in Seq(Frames) /\ fs \in Seq(Frames)
  BY DEF CoreTypes, Covers
<1>1. /\ Tail(fs) \in Seq(Frames)
      /\ \A n \in DOMAIN t : n + 1 \in DOMAIN s /\ t[n] = s[n + 1]
      /\ \A n \in DOMAIN Tail(fs) : n + 1 \in DOMAIN fs /\ Tail(fs)[n] = fs[n + 1]
  BY <1>0, StreamTail
<1> HIDE DEF s, t
<1>2. Ids(Tail(fs)) \subseteq Ids(fs)
  BY <1>1 DEF Ids
<1>3. Watching(e, Box(e), t)
  BY <1>1, WatchingLess DEF Rests, s
<1> QED
  BY <1>1, <1>2, <1>3 DEF Covers, Rests, t

\* A frame that the client does not wait for.
LEMMA TakenTracked ==
  ASSUME CoreTypes, NEW e, NEW fs, fs # << >>, Tracked(e, fs),
         e.active => /\ Head(fs).selector # "registry_changed"
                     /\ FetchPending(e.registry) => ~Has(Head(fs), e.registry.fetch.request)
  PROVE  Tracked(e, Tail(fs))
<1> DEFINE r == e.registry
<1>1. Covers(e, fs) /\ Rests(e, Box(e), fs \o reply) /\ Informed(e, Box(e), fs)
  BY RestsTracked
<1>2. Covers(e, Tail(fs)) /\ Rests(e, Box(e), Tail(fs) \o reply)
  BY <1>1, RestsTail
<1>3. fs \in Seq(Frames) /\ r.required \in Nat
  BY <1>1 DEF Covers, Rests, ClientTypes
<1>4. Informed(e, Box(e), Tail(fs))
  BY <1>1, <1>3, FetchTail, RightTail DEF Informed, r, About
<1> QED
  BY <1>2, <1>4, RestsTracked

\* A frame that has the id the client waits for is an error or part of an answer.
LEMMA OnlyAnswers ==
  ASSUME CoreTypes, NEW e, NEW fs, fs # << >>, Tracked(e, fs), e.active,
         FetchPending(e.registry), Has(Head(fs), e.registry.fetch.request)
  PROVE  \/ Head(fs).selector = "error"
         \/ /\ Answered(e.registry, Box(e), fs)
            /\ Head(fs).selector \in {"registry_begin", "registry_instance", "registry_done"}
<1> DEFINE r == e.registry
           q == r.fetch.request
           s == fs \o reply
<1>1. Covers(e, fs) /\ Informed(e, Box(e), fs)
  BY RestsTracked
<1>2. reply \in Seq(Frames) /\ fs \in Seq(Frames)
  BY <1>1 DEF CoreTypes, Covers
<1>3. 1 \in DOMAIN s /\ s[1] = Head(fs) /\ \A n \in DOMAIN s : n \in Nat \ {0}
  BY <1>2, StreamTail
<1>4. Requested(r, Box(e), s) \/ Refused(r, Box(e), s) \/ Answered(r, Box(e), fs)
  BY <1>1 DEF Informed
<1> HIDE DEF s
<1>5. ~Requested(r, Box(e), s)
  <2>1. q \in Ids(s)
    BY <1>3 DEF Has, Ids
  <2> QED
    BY <2>1 DEF Requested
<1>6. Refused(r, Box(e), s) => Head(fs).selector = "error"
  BY <1>3 DEF Refused
<1>7. Answered(r, Box(e), fs) =>
        Head(fs).selector \in {"registry_begin", "registry_instance", "registry_done"}
  <2> SUFFICES ASSUME Answered(r, Box(e), fs)
               PROVE Head(fs).selector \in {"registry_begin", "registry_instance", "registry_done"}
    OBVIOUS
  <2>1. PICK k \in DOMAIN s : Ends(s, k, q)
    BY Zenon DEF Answered, s
  <2>2. CASE k = 1
    BY <2>1, <2>2, <1>3 DEF Ends
  <2>3. CASE k # 1
    <3>1. 1 < k
      BY <2>3, <1>3
    <3> QED
      BY <2>1, <3>1, <1>3 DEF Ends
  <2> QED
    BY <2>2, <2>3
<1> QED
  BY <1>4, <1>5, <1>6, <1>7

-----------------------------------------------------------------------------
(* Fetching the registry, and connecting.                                  *)

\* A snapshot is asked for, unless one is on its way.
LEMMA FetchRegistryTracked ==
  ASSUME CoreTypes, NEW e, Loose(e), NEW fs, Covers(e, fs), Rests(e, Box(e), fs \o reply),
         FetchPending(e.registry) => Informed(e, Box(e), fs)
  PROVE  Tracked(FetchRegistry(e), fs)
<1>1. CASE ~e.active
  <2>1. FetchRegistry(e) = e /\ Informed(e, Box(e), fs)
    BY <1>1 DEF FetchRegistry, Informed
  <2> QED
    BY <2>1, RestsTracked
<1>2. CASE FetchPending(e.registry)
  <2>1. FetchRegistry(e) = e
    BY <1>2 DEF FetchRegistry
  <2> QED
    BY <1>2, <2>1, RestsTracked
<1>3. CASE e.active /\ ~FetchPending(e.registry)
  <2> DEFINE id == NextId(e)
             u == [e EXCEPT !.registry = StartSnapshot(@, id)]
             v == Request(u, Command("registry", Own, NoContext))
             c == [Command("registry", Own, NoContext) EXCEPT !.request = id]
             b == Box(e)
             s == fs \o reply
             r == v.registry
  <2>1. FetchRegistry(e) = v
    BY <1>3 DEF FetchRegistry
  <2>2. /\ EditorTypes(e) /\ Fresh(e) /\ inbox \in Seq(Commands) /\ e.out \in Seq(Commands)
        /\ reply \in Seq(Frames) /\ fs \in Seq(Frames) /\ Ids(reply) \subseteq e.used
        /\ Ids(fs) \subseteq e.used /\ PendingIds(e) \subseteq e.used
    BY DEF Loose, Fresh, CoreTypes, EditorTypes, Covers
  <2>3. id \in Nat /\ id \notin e.used /\ \A n \in DOMAIN b : b[n].request # id
    BY <2>2, FreshId
  <2>4. /\ Shaped(u, EditorFields) /\ Same(e, u, EditorFields \ {"registry"})
        /\ u.registry = StartSnapshot(e.registry, id)
    BY ShapeOf, Zenon DEF Shaped, Same, EditorFields
  <2>5. u.used = e.used /\ u.out = e.out /\ NextId(u) = id
    BY <2>4 DEF Same, EditorFields, NextId
  <2>7. c \in Commands /\ c.selector = "registry" /\ c.request = id
    BY <2>3, CommandFacts DEF CommandContexts, Selectors, Instances
  <2> HIDE DEF u, id
  <2>8. /\ Same(u, v, EditorFields \ {"used", "out"})
        /\ v.used = e.used \cup {id} /\ v.out = Append(e.out, c)
    BY <2>4, <2>5, RequestFacts, Zenon
  <2> HIDE DEF v, c
  <2>9. /\ v.owner = e.owner /\ v.active = e.active /\ v.pending = e.pending
        /\ r = StartSnapshot(e.registry, id)
    BY <2>4, <2>8 DEF Same, EditorFields
  <2>10. Box(v) = Append(b, c) /\ b \in Seq(Commands)
    BY <2>2, <2>7, <2>8, Appends DEF Box
  <2> DEFINE d == Append(b, c)
             l == Len(b) + 1
  <2>11. /\ DOMAIN d = DOMAIN b \cup {l} /\ d[l] = c /\ \A n \in DOMAIN b : d[n] = b[n]
         /\ \A m \in DOMAIN b : m < l
    BY <2>7, <2>10, Appends
  <2> HIDE DEF b, d, l, r
  <2>12. ClientTypes(e.registry)
    BY DEF Rests
  <2>13. /\ Shaped(r, RegistryFields) /\ Same(e.registry, r, RegistryFields \ {"fetch"})
         /\ r.fetch = [request |-> id, began |-> FALSE, revision |-> 0, expected |-> 0,
                       instances |-> NoRows]
    <3>1. Shaped(e.registry, RegistryFields)
      BY <2>12 DEF ClientTypes
    <3> QED
      BY <3>1, <2>9, Zenon DEF Shaped, Same, RegistryFields, StartSnapshot
  <2>14. /\ r.revision = e.registry.revision /\ r.required = e.registry.required
         /\ r.ready = e.registry.ready /\ r.instances = e.registry.instances
         /\ r.fetch.request = id /\ r.fetch.instances = NoRows /\ r.fetch.revision = 0
         /\ Shaped(r.fetch, FetchFields) /\ FetchPending(r)
    <3>1. /\ r.fetch.request = id /\ r.fetch.instances = NoRows /\ r.fetch.revision = 0
      BY <2>13
    <3>2. Shaped(r.fetch, FetchFields)
      BY <2>13, Zenon DEF Shaped, FetchFields
    <3>3. FetchPending(r)
      BY <2>13 DEF NoFetch, FetchPending
    <3> QED
      BY <2>13, <3>1, <3>2, <3>3 DEF Same, RegistryFields
  <2>15. ClientTypes(r)
    <3>1. RowsTypes(NoRows)
      BY DEF RowsTypes, NoRows
    <3> QED
      BY <2>3, <2>12, <2>13, <2>14, <3>1 DEF ClientTypes
  <2>16. r.fetch.request \notin PendingIds(v)
    BY <2>2, <2>3, <2>9, <2>14 DEF PendingIds
  <2>17. Connections(v)
    BY <1>3, <2>9 DEF Rests, Connections
  <2>18. Joined(b, d, {id})
    BY <2>7, <2>11 DEF Joined, IsClosing
  <2>19. Watching(v, d, s)
    <3>1. Watching(e, b, s)
      BY DEF Rests, b
    <3>2. NoClosing(b) => NoClosing(d)
      BY <2>18, JoinedClosing
    <3>4. ASSUME NEW p \in v.pending, v.owner, Counts(p)
          PROVE  /\ \A m, n \in DOMAIN d : d[n].request = p.request /\ m > n => ~IsClosing(d[m])
                 /\ \A n \in DOMAIN s :
                      s[n].selector = "action_done" /\ s[n].request = p.request => NoClosing(d)
      <4>1. p \in e.pending /\ p.request \notin {id}
        BY <2>2, <2>3, <2>9 DEF PendingIds
      <4>2. /\ \A m, n \in DOMAIN b : b[n].request = p.request /\ m > n => ~IsClosing(b[m])
            /\ \A n \in DOMAIN s :
                 s[n].selector = "action_done" /\ s[n].request = p.request => NoClosing(b)
        BY <2>9, <3>1, <3>4, <4>1 DEF Watching
      <4>3. \A m, n \in DOMAIN d : d[n].request = p.request /\ m > n => ~IsClosing(d[m])
        BY <2>18, <4>1, <4>2, JoinedIds
      <4> QED
        BY <3>2, <4>2, <4>3
    <3> QED
      BY <2>9, <3>1, <3>2, <3>4 DEF Watching
  <2>20. Requested(r, d, s)
    BY <2>2, <2>3, <2>7, <2>11, <2>14, IdsJoins DEF s, Requested
  <2>21. Covers(v, fs)
    <3>1. PendingIds(v) = PendingIds(e)
      BY <2>9 DEF PendingIds
    <3> QED
      BY <2>2, <2>8, <2>14, <3>1 DEF Covers, r
  <2>22. Informed(v, Box(v), fs)
    BY <2>10, <2>14, <2>20 DEF Informed, r, d, s
  <2>23. Rests(v, Box(v), fs \o reply)
    BY <2>10, <2>15, <2>16, <2>17, <2>19 DEF Rests, r, d, s
  <2>24. Tracked(v, fs)
    BY <2>21, <2>22, <2>23, RestsTracked
  <2> QED
    BY <2>1, <2>24
<1> QED
  BY <1>1, <1>2, <1>3

\* The core has answered an attempt to connect.
LEMMA ConnectedTracked ==
  ASSUME CoreTypes, NEW s, Loose(s), NEW fs, NEW e, Tracked(e, fs), NEW p \in e.pending,
         IsConnect(p), Same(e, s, EditorFields \ {"pending"}), s.pending = e.pending \ {p},
         NEW accepted \in BOOLEAN, e.owner /\ Counts(p) /\ accepted => NoClosing(Box(e))
  PROVE  /\ Tracked(Connected(s, p, accepted), fs)
         /\ ~accepted => Connected(s, p, accepted).registry = e.registry
<1>1. /\ s.owner = e.owner /\ s.active = e.active /\ s.registry = e.registry
      /\ s.used = e.used /\ s.out = e.out
  BY DEF Same, EditorFields
<1>2. Tracked(s, fs)
  BY <1>1, FurtherForgets, FurtherTracked DEF Same
<1>3. CASE ~s.owner \/ ~p.current
  BY <1>1, <1>2, <1>3 DEF Connected
<1>4. CASE ~(~s.owner \/ ~p.current) /\ accepted
  <2> DEFINE u == [s EXCEPT !.active = TRUE]
  <2>1. Shaped(u, EditorFields) /\ Same(s, u, EditorFields \ {"active"}) /\ u.active = TRUE
    BY ShapeOf, Zenon DEF Shaped, Same, EditorFields
  <2>2. Connected(s, p, accepted) = Observe(FetchRegistry(u))
    BY <1>4 DEF Connected
  <2> HIDE DEF u
  <2>3. Loose(u) /\ Loose(FetchRegistry(u))
    <3>1. Loose(u)
      BY <2>1, FieldTypes, AsideLoose DEF Same, EditorFields
    <3> QED
      BY <3>1, FetchRegistryLoose
  <2>4. /\ u.owner = s.owner /\ u.registry = s.registry /\ u.used = s.used
        /\ u.out = s.out /\ u.pending = s.pending
    BY <2>1 DEF Same, EditorFields
  <2>5. Counts(p)
    BY <1>4 DEF Counts
  <2>6. /\ ~FetchPending(e.registry)
        /\ \A o \in e.pending : Counts(o) => o = p
    BY <2>5 DEF Tracked, Tracks, Connections
  <2>7. NoClosing(Box(e)) /\ Box(u) = Box(e) /\ Box(s) = Box(e)
    BY <1>1, <1>4, <2>4, <2>5 DEF Box
  <2>8. Covers(u, fs)
    BY <1>2, <2>4 DEF Tracked, Covers, PendingIds
  <2>9. \A o \in u.pending : ~Counts(o)
    BY <2>4, <2>6
  <2>10. Watching(u, Box(u), fs \o reply) /\ Connections(u)
    BY <1>4, <2>4, <2>7, <2>9 DEF Watching, Connections
  <2>11. Rests(u, Box(u), fs \o reply) /\ ~FetchPending(u.registry)
    BY <1>1, <1>2, <2>4, <2>6, <2>10 DEF Rests, Tracked, Tracks
  <2>12. Tracked(FetchRegistry(u), fs)
    BY <2>3, <2>8, <2>11, FetchRegistryTracked
  <2>13. Tracked(Observe(FetchRegistry(u)), fs)
    BY <2>3, <2>12, ObserveFurther, FurtherTracked
  <2> QED
    BY <1>4, <2>2, <2>13
<1>5. CASE ~(~s.owner \/ ~p.current) /\ ~accepted
  <2> DEFINE u == [s EXCEPT !.active = FALSE]
             v == SetBusy(u, TRUE)
  <2>1. Shaped(u, EditorFields) /\ Same(s, u, EditorFields \ {"active"}) /\ u.active = FALSE
    BY ShapeOf, Zenon DEF Shaped, Same, EditorFields
  <2>2. Connected(s, p, accepted) = v
    BY <1>5 DEF Connected
  <2> HIDE DEF u
  <2>3. Loose(u)
    BY <2>1, FieldTypes, AsideLoose DEF Same, EditorFields
  <2>4. Same(u, v, EditorFields \ {"busy"})
    BY <2>3, SetBusyLoose
  <2> HIDE DEF v
  <2>5. /\ v.owner = s.owner /\ v.registry = s.registry /\ v.used = s.used
        /\ v.out = s.out /\ v.pending = s.pending /\ v.active = FALSE
    BY <2>1, <2>4 DEF Same, EditorFields
  <2>6. Same(s, v, {"used", "out"}) /\ ClientTypes(v.registry)
    BY <1>2, <2>5 DEF Same, Tracked, Tracks
  <2>7. Tracked(v, fs)
    BY <1>2, <2>5, <2>6, StoppedTracked
  <2> QED
    BY <1>1, <2>2, <2>5, <2>7
<1> QED
  BY <1>3, <1>4, <1>5

-----------------------------------------------------------------------------
(* Completions.                                                            *)

\* A command whose completion the editor waited for is answered.
LEMMA CommandFurther ==
  ASSUME NEW e, CoreTypes, Loose(e), NEW p, NEW accepted
  PROVE  Further(e, CommandCompletion(e, p, accepted))
<1>1. Further(e, e)
  BY FurtherAside DEF Same
<1>2. Further(e, SetBusy(e, FALSE))
  <2>1. Same(e, SetBusy(e, FALSE), EditorFields \ {"busy"})
    BY SetBusyLoose
  <2> QED
    BY <2>1, FurtherAside DEF Same, EditorFields
<1> QED
  BY <1>1, <1>2, ObserveFurther DEF CommandCompletion

\* A completion that is taken from the list.
LEMMA WithoutLoose ==
  ASSUME NEW e, Loose(e), NEW p
  PROVE  LET s == [e EXCEPT !.pending = @ \ {p}]
         IN  /\ Loose(s) /\ Same(e, s, EditorFields \ {"pending"})
             /\ s.pending = e.pending \ {p}
<1> DEFINE s == [e EXCEPT !.pending = @ \ {p}]
<1>1. /\ Shaped(s, EditorFields) /\ Same(e, s, EditorFields \ {"pending"})
      /\ s.pending = e.pending \ {p}
  BY ShapeOf, Zenon DEF Shaped, Same, EditorFields
<1> HIDE DEF s
<1>2. /\ s.unopened = e.unopened /\ s.initialized = e.initialized /\ s.active = e.active
      /\ s.owner = e.owner /\ s.busy = e.busy /\ s.scope = e.scope /\ s.restored = e.restored
      /\ s.focus = e.focus /\ s.used = e.used /\ s.target = e.target /\ s.out = e.out
  BY <1>1 DEF Same, EditorFields
<1>3. s.pending \subseteq Completions /\ IsFiniteSet(s.pending)
  BY <1>1, FS_Subset DEF Loose, EditorTypes
<1>4. EditorTypes(s)
  BY <1>1, <1>2, <1>3 DEF Loose, EditorTypes
<1> QED
  BY <1>1, <1>2, <1>4, LooseAside DEF s

\* A completion; one that makes the session active finds no command on its way that ends
\* the observation.
LEMMA CompleteTracked ==
  ASSUME CoreTypes, NEW e, Loose(e), NEW fs, Tracked(e, fs), NEW p \in e.pending,
         NEW accepted \in BOOLEAN, e.owner /\ Counts(p) /\ accepted => NoClosing(Box(e))
  PROVE  /\ Tracked(Complete(e, p, accepted), fs)
         /\ ~accepted => Complete(e, p, accepted).registry = e.registry
<1> DEFINE s == [e EXCEPT !.pending = @ \ {p}]
           u == [s EXCEPT !.initialized = accepted]
           x == [s EXCEPT !.focus = p.front, !.scope = TRUE]
           y == [s EXCEPT !.scope = FALSE]
           v == Complete(e, p, accepted)
<1>1. /\ Loose(s) /\ Same(e, s, EditorFields \ {"pending"}) /\ s.pending = e.pending \ {p}
  BY WithoutLoose
<1>2. /\ p.kind = "initialize" => v = u
      /\ p.kind = "connect" => v = Connected(s, p, accepted)
      /\ p.kind = "group" => v = Observe(x) \/ v = Observe(s)
      /\ p.kind = "ungroup" => v = CommandCompletion(y, p, accepted)
                               \/ v = CommandCompletion(s, p, accepted)
      /\ p.kind = "write" => v = Observe(s) \/ v = s
      /\ p.kind \notin {"initialize", "connect", "group", "ungroup", "write"} =>
           v = CommandCompletion(s, p, accepted)
  BY DEF Complete, GroupCompletion, UngroupCompletion, WriteCompletion
<1> HIDE DEF s
<1>3. Tracked(s, fs) /\ s.registry = e.registry
  BY <1>1, FurtherForgets, FurtherTracked DEF Same, EditorFields
<1>4. p \in Completions
  BY DEF Loose, EditorTypes
<1>5. CASE p.kind = "initialize"
  <2>1. Same(s, u, EditorFields \ {"initialized"})
    BY <1>1, ShapeOf, Zenon DEF Shaped, Same, EditorFields
  <2> HIDE DEF u
  <2>2. Further(s, u)
    BY <2>1, FurtherAside DEF Same, EditorFields
  <2>3. Tracked(u, fs) /\ u.registry = s.registry
    BY <1>3, <2>2, FurtherTracked DEF Further
  <2> QED
    BY <1>2, <1>3, <1>5, <2>3
<1> HIDE DEF u
<1>6. CASE p.kind = "connect"
  <2>1. IsConnect(p)
    BY <1>6 DEF IsConnect
  <2> QED
    BY <1>1, <1>2, <1>6, <2>1, ConnectedTracked
<1>7. Further(s, v) => Tracked(v, fs) /\ v.registry = e.registry
  <2> HIDE DEF v
  <2> QED
    BY <1>3, FurtherTracked DEF Further
<1>8. CASE p.kind = "group"
  <2>1. Shaped(x, EditorFields) /\ Same(s, x, EditorFields \ {"focus", "scope"})
        /\ x.focus = p.front /\ x.scope = TRUE
    BY <1>1, ShapeOf, Zenon DEF Shaped, Same, EditorFields
  <2> HIDE DEF x
  <2>2. p.front \in Instances
    BY <1>4 DEF Completions
  <2>3. Loose(x)
    BY <1>1, <2>1, <2>2, FieldTypes, AsideLoose DEF Same, EditorFields
  <2>4. Further(s, x)
    BY <2>1, FurtherAside DEF Same, EditorFields
  <2>5. Further(s, Observe(x)) /\ Further(s, Observe(s))
    BY <1>1, <2>3, <2>4, ObserveFurther, FurtherBoth
  <2> QED
    BY <1>2, <1>7, <1>8, <2>5
<1> HIDE DEF x
<1>9. CASE p.kind = "ungroup"
  <2>1. Shaped(y, EditorFields) /\ Same(s, y, EditorFields \ {"scope"}) /\ y.scope = FALSE
    BY <1>1, ShapeOf, Zenon DEF Shaped, Same, EditorFields
  <2> HIDE DEF y
  <2>2. Loose(y)
    BY <1>1, <2>1, FieldTypes, AsideLoose DEF Same, EditorFields
  <2>3. Further(s, y)
    BY <2>1, FurtherAside DEF Same, EditorFields
  <2>4. Further(s, CommandCompletion(y, p, accepted))
    BY <2>2, <2>3, CommandFurther, FurtherBoth
  <2>5. Further(s, CommandCompletion(s, p, accepted))
    BY <1>1, CommandFurther
  <2> QED
    BY <1>2, <1>7, <1>9, <2>4, <2>5
<1> HIDE DEF y
<1>10. CASE p.kind = "write"
  <2>1. Further(s, Observe(s)) /\ Further(s, s)
    BY <1>1, ObserveFurther, FurtherAside DEF Same
  <2> QED
    BY <1>2, <1>7, <1>10, <2>1
<1>11. CASE p.kind \notin {"initialize", "connect", "group", "ungroup", "write"}
  BY <1>1, <1>2, <1>7, <1>11, CommandFurther
<1> QED
  BY <1>5, <1>6, <1>8, <1>9, <1>10, <1>11

\* The snapshot is not waited for any more.
LEMMA CancelTypes ==
  ASSUME NEW r, ClientTypes(r), NEW id
  PROVE  LET c == CancelSnapshot(r, id)
         IN  /\ ClientTypes(c) /\ (FetchPending(c) => c = r)
             /\ (FetchPending(r) => r.fetch.request # id) => c = r
<1> DEFINE c == [r EXCEPT !.fetch = NoFetch]
<1>1. /\ Shaped(c, RegistryFields) /\ Same(r, c, RegistryFields \ {"fetch"}) /\ c.fetch = NoFetch
  <2>1. Shaped(r, RegistryFields)
    BY DEF ClientTypes
  <2> QED
    BY <2>1, Zenon DEF Shaped, Same, RegistryFields
<1>2. CancelSnapshot(r, id) \in {c, r} /\ ((FetchPending(r) => r.fetch.request # id)
                                             => CancelSnapshot(r, id) = r)
  BY DEF CancelSnapshot
<1> HIDE DEF c
<1>3. /\ c.instances = r.instances /\ c.revision = r.revision /\ c.required = r.required
      /\ c.ready = r.ready /\ ~FetchPending(c)
  BY <1>1 DEF Same, RegistryFields, FetchPending
<1>4. ClientTypes(c)
  BY <1>1, <1>3 DEF ClientTypes
<1> QED
  BY <1>2, <1>3, <1>4

\* A session that ends.
LEMMA FailTracked ==
  ASSUME NEW e, Loose(e), NEW fs, Tracked(e, fs), NEW u, Loose(u),
         Same(e, u, {"owner", "pending", "used", "out"}), ClientTypes(u.registry),
         FetchPending(u.registry) =>
           FetchPending(e.registry) /\ u.registry.fetch.request = e.registry.fetch.request,
         NEW v, v = Fail(u) \/ v = SetBusy(Fail(u), TRUE)
  PROVE  Tracked(v, fs) /\ v.active = FALSE /\ Loose(v)
<1> DEFINE a == [u EXCEPT !.active = FALSE]
           w == Outdate(a, Connects(u))
<1>1. Fail(u) = w
  BY DEF Fail
<1>2. Shaped(a, EditorFields) /\ Same(u, a, EditorFields \ {"active"}) /\ a.active = FALSE
  BY ShapeOf, Zenon DEF Shaped, Same, EditorFields
<1> HIDE DEF a
<1>3. a.pending = u.pending /\ u.pending = e.pending /\ Connects(u) \subseteq a.pending
      /\ a.pending \subseteq Completions
  BY <1>2 DEF Same, EditorFields, Connects, Loose, EditorTypes
<1>4. Further(a, w)
  BY <1>2, <1>3, OutdateFurther
<1>5. /\ Loose(w) /\ w.active = FALSE /\ Same(u, w, EditorFields \ {"active", "pending"})
  BY <1>1, FailSettled DEF Settled
<1>6. ASSUME NEW p \in w.pending
      PROVE  \E o \in e.pending : /\ o.kind = p.kind /\ o.request = p.request
                                  /\ (p.current => o = p)
  BY <1>2, <1>3 DEF Shaped, EditorFields, Outdate, Completions
<1> HIDE DEF w
<1>7. Same(w, SetBusy(w, TRUE), EditorFields \ {"busy"}) /\ Loose(SetBusy(w, TRUE))
  BY <1>5, SetBusyLoose
<1>8. v = w \/ v = SetBusy(w, TRUE)
  BY <1>1
<1>9. /\ v.owner = e.owner /\ v.used = e.used /\ v.out = e.out
      /\ v.active = FALSE /\ v.registry = u.registry /\ v.pending = w.pending /\ Loose(v)
  BY <1>5, <1>7, <1>8 DEF Same, EditorFields
<1>10. Same(e, v, {"used", "out"})
  BY <1>9 DEF Same
<1>11. Tracked(v, fs)
  BY <1>6, <1>9, <1>10, StoppedTracked
<1> QED
  BY <1>9, <1>11

\* A result or an error, the head of the frames.
LEMMA HandleCompletionTracked ==
  ASSUME CoreTypes, NEW e, Settled(e), NEW fs, fs # << >>, Tracked(e, fs),
         Head(fs).selector \in {"action_done", "error"}
  PROVE  Tracked(HandleCompletion(e, Head(fs)), Tail(fs))
<1> DEFINE frame == Head(fs)
           r == e.registry
           q == r.fetch.request
           waiting == {p \in e.pending : p.request = frame.request}
           accepted == frame.selector = "action_done" /\ frame.accepted
           after == IF waiting = {} THEN e
                    ELSE Complete(e, CHOOSE p \in waiting : TRUE, accepted)
           dropped == [after EXCEPT !.registry = CancelSnapshot(@, frame.request)]
           v == HandleCompletion(e, frame)
<1>0. /\ fs \in Seq(Frames) /\ reply \in Seq(Frames) /\ Loose(e) /\ ClientTypes(r)
      /\ FetchPending(r) => q \notin PendingIds(e)
      /\ Watching(e, Box(e), fs \o reply)
  BY DEF Tracked, Tracks, Covers, CoreTypes, Settled
<1>1. frame \in Frames /\ 1 \in DOMAIN (fs \o reply) /\ (fs \o reply)[1] = frame
  BY <1>0, StreamTail
<1>2. "request" \in DOMAIN frame /\ (frame.selector = "action_done" => frame.accepted \in BOOLEAN)
  BY <1>1 DEF Frames, Answers, Notifications, Deltas
<1>3. accepted \in BOOLEAN /\ (frame.selector = "error" => accepted = FALSE)
  BY <1>2
<1>4. /\ frame.selector # "error" => v = after
      /\ frame.selector = "error" /\ waiting = {} => v = SetBusy(Fail(dropped), TRUE)
      /\ frame.selector = "error" => v = SetBusy(Fail(dropped), TRUE) \/ v = dropped
  BY DEF HandleCompletion
<1> HIDE DEF v
<1>5. CASE e.active /\ FetchPending(r) /\ frame.request = q
  <2>1. Has(frame, q)
    BY <1>2, <1>5 DEF Has
  <2>2. frame.selector = "error"
    BY <1>5, <2>1, OnlyAnswers
  <2>3. waiting = {} /\ after = e
    BY <1>0, <1>5 DEF PendingIds
  <2>4. v = SetBusy(Fail(dropped), TRUE)
    BY <1>4, <2>2, <2>3 DEF v
  <2>5. /\ Shaped(dropped, EditorFields) /\ Same(e, dropped, EditorFields \ {"registry"})
        /\ dropped.registry = CancelSnapshot(r, frame.request)
    BY <1>0, <2>3, ShapeOf, Zenon DEF Shaped, Same, EditorFields
  <2> HIDE DEF dropped
  <2>6. Loose(dropped)
    BY <1>0, <2>5, FieldTypes, AsideLoose DEF Same, EditorFields
  <2>7. Same(e, dropped, {"owner", "pending", "used", "out"})
    BY <2>5 DEF Same, EditorFields
  <2>8. ClientTypes(dropped.registry) /\ (FetchPending(dropped.registry) => dropped.registry = r)
    BY <1>0, <2>5, CancelTypes
  <2>9. Tracked(v, fs) /\ v.active = FALSE
    BY <1>0, <2>4, <2>6, <2>7, <2>8, FailTracked
  <2> QED
    BY <2>9, TakenTracked DEF v
<1>6. CASE ~(e.active /\ FetchPending(r) /\ frame.request = q)
  <2>1. Tracked(e, Tail(fs))
    BY <1>6, TakenTracked DEF Has
  <2>2. /\ Tracked(after, Tail(fs)) /\ Loose(after)
        /\ waiting # {} /\ frame.selector = "error" => after.registry = r
    <3>1. CASE waiting = {}
      BY <2>1, <3>1, <1>0
    <3>2. CASE waiting # {}
      <4> DEFINE p == CHOOSE p \in waiting : TRUE
      <4>1. p \in e.pending /\ p.request = frame.request /\ after = Complete(e, p, accepted)
        BY <3>2
      <4> HIDE DEF p, after, accepted
      <4>2. e.owner /\ Counts(p) /\ accepted => NoClosing(Box(e))
        BY <1>0, <1>1, <1>3, <4>1 DEF accepted, Watching
      <4>3. Tracked(after, Tail(fs)) /\ (~accepted => after.registry = r)
        BY <1>0, <1>3, <2>1, <4>1, <4>2, CompleteTracked
      <4>4. Loose(after)
        BY <1>3, <4>1, CompleteSettled DEF Settled
      <4> QED
        BY <1>3, <4>3, <4>4
    <3> QED
      BY <3>1, <3>2
  <2>3. CASE frame.selector # "error"
    BY <1>4, <2>2, <2>3 DEF v
  <2>4. CASE frame.selector = "error"
    <3> HIDE DEF after
    <3>1. /\ Shaped(dropped, EditorFields) /\ Same(after, dropped, EditorFields \ {"registry"})
          /\ dropped.registry = CancelSnapshot(after.registry, frame.request)
      BY <2>2, ShapeOf, Zenon DEF Shaped, Same, EditorFields
    <3> HIDE DEF dropped
    <3>2. Loose(dropped)
      BY <2>2, <3>1, FieldTypes, AsideLoose DEF Same, EditorFields
    <3>3. Same(after, dropped, {"owner", "pending", "used", "out"})
      BY <3>1 DEF Same, EditorFields
    <3>4. ClientTypes(after.registry)
      BY <2>2 DEF Tracked, Tracks
    <3>5. /\ ClientTypes(dropped.registry)
          /\ FetchPending(dropped.registry) => dropped.registry = after.registry
      BY <3>1, <3>4, CancelTypes
    <3>6. Tracked(SetBusy(Fail(dropped), TRUE), Tail(fs))
      BY <2>2, <3>2, <3>3, <3>5, FailTracked
    <3>7. waiting # {} => Tracked(dropped, Tail(fs))
      <4> SUFFICES ASSUME waiting # {} PROVE Tracked(dropped, Tail(fs))
        OBVIOUS
      <4>1. FetchPending(r) => q # frame.request
        BY <1>0 DEF PendingIds
      <4>2. dropped.registry = after.registry
        BY <2>2, <2>4, <3>1, <3>4, <4>1, CancelTypes
      <4>3. Further(after, dropped)
        BY <3>1, <4>2, FurtherAside DEF Same, EditorFields
      <4> QED
        BY <2>2, <4>3, FurtherTracked
    <3> QED
      BY <1>4, <2>4, <3>6, <3>7 DEF v
  <2> QED
    BY <2>3, <2>4
<1> QED
  BY <1>5, <1>6 DEF v

-----------------------------------------------------------------------------
(* Frames.                                                                 *)

\* The values and the curve of the bank in focus, and what changes with the registry.
LEMMA ShownFurther ==
  ASSUME NEW e, CoreTypes, Settled(e), NEW frame
  PROVE  /\ Further(e, ApplySnapshot(e, frame)) /\ Further(e, ApplyChangedValue(e, frame))
         /\ Further(e, ApplyBankSnapshots(e, frame)) /\ Further(e, RegistryChanged(e))
<1>0. Loose(e) /\ Shaped(e, EditorFields)
  BY SettledTypes
<1>1. Further(e, ApplySnapshot(e, frame))
  <2> DEFINE u == HandleSnapshot(e.target, frame)
             v == [e EXCEPT !.target = u]
  <2>1. ApplySnapshot(e, frame) \in {v, SetBusy(v, FALSE)}
    BY DEF ApplySnapshot
  <2> HIDE DEF u
  <2>2. Shaped(v, EditorFields) /\ Same(e, v, EditorFields \ {"target"})
    BY <1>0, Zenon DEF Shaped, Same, EditorFields
  <2> HIDE DEF v
  <2>3. Same(v, SetBusy(v, FALSE), EditorFields \ {"busy"})
    BY <2>2, Zenon DEF Shaped, Same, EditorFields, SetBusy
  <2>4. /\ Same(e, v, {"owner", "active", "registry", "pending", "used", "out"})
        /\ Same(e, SetBusy(v, FALSE), {"owner", "active", "registry", "pending", "used",
                                       "out"})
    BY <2>2, <2>3 DEF Same, EditorFields
  <2> QED
    BY <2>1, <2>4, FurtherAside
<1>2. Further(e, ApplyChangedValue(e, frame))
  BY ChangedLoose, FurtherAside, FetchBankSnapshotsFurther, FurtherBoth DEF ApplyChangedValue,
     Same, EditorFields
<1>3. Further(e, ApplyBankSnapshots(e, frame))
  <2> DEFINE a == [e EXCEPT !.analyzer = HandleBanks(@)]
             b == IF e.analyzer.dirty THEN FetchBankSnapshots(a) ELSE a
             v == [b EXCEPT !.curve = frame.value]
  <2>1. ApplyBankSnapshots(e, frame) = v
    BY DEF ApplyBankSnapshots
  <2>2. Shaped(a, EditorFields) /\ Same(e, a, EditorFields \ {"analyzer"})
    BY <1>0, Zenon DEF Shaped, Same, EditorFields
  <2> HIDE DEF a
  <2>3. Loose(a) /\ Further(e, a)
    <3>1. Loose(a)
      BY <1>0, <2>2, FieldTypes, AsideLoose DEF Same, EditorFields
    <3>2. Further(e, a)
      BY <2>2, FurtherAside DEF Same, EditorFields
    <3> QED
      BY <3>1, <3>2
  <2>4. Loose(b) /\ Further(e, b)
    BY <2>3, FetchBankSnapshotsLoose, FetchBankSnapshotsFurther, FurtherBoth
  <2> HIDE DEF b
  <2>5. Same(b, v, EditorFields \ {"curve"})
    BY <2>4, ShapeOf, Zenon DEF Shaped, Same, EditorFields
  <2> HIDE DEF v
  <2>6. Further(b, v)
    BY <2>5, FurtherAside DEF Same, EditorFields
  <2> QED
    BY <2>1, <2>4, <2>6, FurtherBoth
<1>4. Further(e, RegistryChanged(e))
  <2> DEFINE u == [e EXCEPT !.focus = Own, !.scope = FALSE]
             p == IF e.active /\ ~Find(e.registry, e.focus) THEN Observe(u) ELSE e
             v == [p EXCEPT !.scope = @ /\ BankHasGroup(p.registry, p.focus)]
  <2>1. RegistryChanged(e) = v
    BY DEF RegistryChanged
  <2>2. /\ Shaped(u, EditorFields) /\ Same(e, u, EditorFields \ {"focus", "scope"})
        /\ u.focus = Own /\ u.scope = FALSE
    BY <1>0, Zenon DEF Shaped, Same, EditorFields
  <2> HIDE DEF u
  <2>3. Loose(u) /\ Further(e, u)
    <3>1. Own \in Instances
      BY DEF Instances
    <3>2. Loose(u)
      BY <1>0, <2>2, <3>1, FieldTypes, AsideLoose DEF Same, EditorFields
    <3>3. Further(e, u)
      BY <2>2, FurtherAside DEF Same, EditorFields
    <3> QED
      BY <3>2, <3>3
  <2>4. Loose(p) /\ Further(e, p)
    BY <1>0, <2>3, ObserveSettled, ObserveFurther, FurtherBoth, FurtherAside DEF Settled, Same
  <2> HIDE DEF p
  <2>5. Same(p, v, EditorFields \ {"scope"})
    BY <2>4, ShapeOf, Zenon DEF Shaped, Same, EditorFields
  <2> HIDE DEF v
  <2>6. Further(p, v)
    BY <2>5, FurtherAside DEF Same, EditorFields
  <2> QED
    BY <2>1, <2>4, <2>6, FurtherBoth
<1> QED
  BY <1>1, <1>2, <1>3, <1>4

\* The rows of a client, as pairs, and what a delta makes of them.
LEMMA RowsAre ==
  ASSUME NEW g
  PROVE  \A i : OfInstance(RowsOf(g), i) = IF i \in DOMAIN g THEN {<<i, g[i]>>} ELSE {}
BY DEF OfInstance, RowsOf

LEMMA RowAdded ==
  ASSUME NEW g, RowsTypes(g), NEW i \in Instances, NEW row \in Rows
  PROVE  LET h == WithRow(g, i, row)
         IN  /\ RowsTypes(h) /\ h[i] = row /\ DOMAIN h = DOMAIN g \cup {i}
             /\ \A j \in DOMAIN g : j # i => h[j] = g[j]
BY DEF RowsTypes, WithRow

LEMMA RowRemoved ==
  ASSUME NEW g, RowsTypes(g), NEW i
  PROVE  LET h == Restrict(g, DOMAIN g \ {i})
         IN  /\ RowsTypes(h) /\ DOMAIN h = DOMAIN g \ {i}
             /\ \A j \in DOMAIN g \ {i} : h[j] = g[j]
BY DEF RowsTypes, Restrict

LEMMA RowMoved ==
  ASSUME NEW g, RowsTypes(g), NEW i \in DOMAIN g, NEW b \in BOOLEAN
  PROVE  LET h == [g EXCEPT ![i].group = b]
         IN  /\ RowsTypes(h) /\ DOMAIN h = DOMAIN g /\ h[i] = [group |-> b]
             /\ \A j \in DOMAIN g : j # i => h[j] = g[j]
BY DEF RowsTypes, Rows

\* The greater of two revisions.
LEMMA MaxOfTwo ==
  ASSUME NEW m \in Nat, NEW n \in Nat
  PROVE  Max({m, n}) \in Nat /\ m <= Max({m, n}) /\ n <= Max({m, n})
<1> DEFINE S == {m, n}
           k == IF m >= n THEN m ELSE n
<1>1. k \in S /\ \A y \in S : k >= y
  OBVIOUS
<1>2. Max(S) \in S /\ \A y \in S : Max(S) >= y
  <2> HIDE DEF S, k
  <2> QED
    BY <1>1 DEF Max
<1> QED
  BY <1>2

\* What a client becomes when a frame is about an instance.
Reported(f, i, R) ==
    \/ f.change = "added" /\ OfInstance(R, i) = {<<i, f.value>>}
    \/ f.change = "removed" /\ OfInstance(R, i) = {}
    \/ f.change = "group" /\ OfInstance(R, i) = {<<i, [group |-> f.value]>>}

\* A delta.
LEMMA DeltaResult ==
  ASSUME NEW r, ClientTypes(r), NEW f \in Frames, f.selector = "registry_changed"
  PROVE  LET x == HandleRegistry(r, f)
             c == x.client
         IN  /\ ClientTypes(c) /\ c.fetch = r.fetch
             /\ f.revision \in Nat /\ r.required <= c.required /\ f.revision <= c.required
             /\ x.update \in {"resynchronize", "changed", "throws"}
             /\ x.update = "changed" =>
                  /\ c.ready = r.ready /\ r.ready /\ f.instance \in Instances
                  /\ \A i \in Instances :
                       IF f.instance = i THEN Reported(f, i, RowsOf(c.instances))
                       ELSE OfInstance(RowsOf(c.instances), i) = OfInstance(RowsOf(r.instances), i)
<1> DEFINE x == HandleRegistry(r, f)
           m == Max({r.required, f.revision})
           known == [r EXCEPT !.required = m]
           i == f.instance
           g == r.instances
           added == [known EXCEPT !.instances = WithRow(@, i, f.value), !.revision = f.revision]
           removed == [known EXCEPT !.instances = Restrict(@, DOMAIN @ \ {i}),
                                    !.revision = f.revision]
           moved == [known EXCEPT !.instances[i].group = f.value, !.revision = f.revision]
<1>0. /\ Shaped(r, RegistryFields) /\ r.revision \in Nat /\ r.required \in Nat
      /\ r.ready \in BOOLEAN /\ RowsTypes(g)
      /\ FetchPending(r) => /\ Shaped(r.fetch, FetchFields)
                            /\ r.fetch.request \in Nat /\ r.fetch.revision \in Nat
                            /\ RowsTypes(r.fetch.instances)
  BY DEF ClientTypes
<1>1. /\ f.revision \in Nat /\ i \in Instances
      /\ f.change \in {"added", "removed", "group"}
      /\ f.change = "added" => f.value \in Rows
      /\ f.change = "group" => f.value \in BOOLEAN
  BY DEF Frames, Answers, Notifications, Deltas
<1>2. m \in Nat /\ r.required <= m /\ f.revision <= m
  BY <1>0, <1>1, MaxOfTwo
<1> HIDE DEF m
<1>3. /\ Shaped(known, RegistryFields) /\ Same(r, known, RegistryFields \ {"required"})
      /\ known.required = m
  BY <1>0, Zenon DEF Shaped, Same, RegistryFields
<1>4. \/ x = Update(known, "resynchronize") \/ x = Update(known, "throws")
      \/ known.ready /\ f.change = "added" /\ ~Find(known, i) /\ x = Update(added, "changed")
      \/ known.ready /\ f.change = "removed" /\ Find(known, i) /\ x = Update(removed, "changed")
      \/ known.ready /\ f.change = "group" /\ Find(known, i) /\ x = Update(moved, "changed")
  <2>1. x = HandleDelta(r, f)
    BY DEF HandleRegistry
  <2>2. x = IF ~known.ready \/ known.revision # f.previous THEN Update(known, "resynchronize")
            ELSE ApplyDelta(known, f)
    BY <2>1 DEF HandleDelta, m
  <2> HIDE DEF known, x, added, removed, moved
  <2> QED
    BY <2>2 DEF ApplyDelta, added, removed, moved
<1> HIDE DEF known, x
<1>5. /\ known.instances = g /\ known.fetch = r.fetch /\ known.revision = r.revision
      /\ known.ready = r.ready
  BY <1>3 DEF Same, RegistryFields
<1>6. ASSUME NEW c, Shaped(c, RegistryFields), c.fetch = r.fetch, c.required = m,
             c.ready = r.ready, c.revision \in Nat, RowsTypes(c.instances)
      PROVE  ClientTypes(c)
  <2>1. FetchPending(c) = FetchPending(r)
    BY <1>6 DEF FetchPending
  <2> QED
    BY <1>0, <1>2, <1>6, <2>1 DEF ClientTypes
<1>7. ClientTypes(known)
  BY <1>0, <1>3, <1>5, <1>6
<1>8. ASSUME NEW c, NEW h, Shaped(c, RegistryFields), c.instances = h, c.revision = f.revision,
             Same(known, c, RegistryFields \ {"instances", "revision"}), RowsTypes(h), known.ready,
             Reported(f, i, RowsOf(h)),
             \A j \in Instances : j # i => OfInstance(RowsOf(h), j) = OfInstance(RowsOf(g), j),
             x = Update(c, "changed")
      PROVE  /\ ClientTypes(x.client) /\ x.client.fetch = r.fetch /\ x.client.required = m
             /\ x.update = "changed" /\ x.client.ready = r.ready /\ r.ready
             /\ \A j \in Instances :
                  IF i = j THEN Reported(f, j, RowsOf(x.client.instances))
                  ELSE OfInstance(RowsOf(x.client.instances), j) = OfInstance(RowsOf(g), j)
  BY <1>1, <1>3, <1>5, <1>6, <1>8 DEF Update, Same, RegistryFields
<1>9. CASE x = Update(known, "resynchronize") \/ x = Update(known, "throws")
  <2>1. x.client = known /\ x.update \in {"resynchronize", "throws"}
    BY <1>9 DEF Update
  <2> QED
    BY <1>1, <1>2, <1>3, <1>5, <1>7, <2>1 DEF x
<1>10. CASE /\ known.ready /\ f.change = "added" /\ ~Find(known, i)
            /\ x = Update(added, "changed")
  <2> DEFINE h == WithRow(g, i, f.value)
  <2>1. /\ Shaped(added, RegistryFields) /\ added.instances = WithRow(known.instances, i, f.value)
        /\ added.revision = f.revision
        /\ Same(known, added, RegistryFields \ {"instances", "revision"})
    BY <1>3, Zenon DEF Shaped, Same, RegistryFields
  <2> HIDE DEF added
  <2>2. /\ RowsTypes(h) /\ h[i] = f.value /\ DOMAIN h = DOMAIN g \cup {i}
        /\ \A j \in DOMAIN g : j # i => h[j] = g[j]
    BY <1>0, <1>1, <1>10, RowAdded
  <2>3. added.instances = h
    BY <1>5, <2>1
  <2> HIDE DEF h
  <2>4. \A j : /\ OfInstance(RowsOf(h), j) = IF j \in DOMAIN h THEN {<<j, h[j]>>} ELSE {}
               /\ OfInstance(RowsOf(g), j) = IF j \in DOMAIN g THEN {<<j, g[j]>>} ELSE {}
    BY RowsAre
  <2>5. Reported(f, i, RowsOf(h))
    BY <1>10, <2>2, <2>4 DEF Reported
  <2>6. \A j \in Instances : j # i => OfInstance(RowsOf(h), j) = OfInstance(RowsOf(g), j)
    BY <2>2, <2>4
  <2> QED
    BY <1>1, <1>2, <1>8, <1>10, <2>1, <2>2, <2>3, <2>5, <2>6 DEF x
<1>11. CASE /\ known.ready /\ f.change = "removed" /\ Find(known, i)
            /\ x = Update(removed, "changed")
  <2> DEFINE h == Restrict(g, DOMAIN g \ {i})
  <2>1. /\ Shaped(removed, RegistryFields)
        /\ removed.instances = Restrict(known.instances, DOMAIN known.instances \ {i})
        /\ removed.revision = f.revision
        /\ Same(known, removed, RegistryFields \ {"instances", "revision"})
    BY <1>3, Zenon DEF Shaped, Same, RegistryFields
  <2> HIDE DEF removed
  <2>2. /\ RowsTypes(h) /\ DOMAIN h = DOMAIN g \ {i}
        /\ \A j \in DOMAIN g \ {i} : h[j] = g[j]
    BY <1>0, RowRemoved
  <2>3. removed.instances = h
    BY <1>5, <2>1
  <2> HIDE DEF h
  <2>4. \A j : /\ OfInstance(RowsOf(h), j) = IF j \in DOMAIN h THEN {<<j, h[j]>>} ELSE {}
               /\ OfInstance(RowsOf(g), j) = IF j \in DOMAIN g THEN {<<j, g[j]>>} ELSE {}
    BY RowsAre
  <2>5. Reported(f, i, RowsOf(h))
    BY <1>11, <2>2, <2>4 DEF Reported
  <2>6. \A j \in Instances : j # i => OfInstance(RowsOf(h), j) = OfInstance(RowsOf(g), j)
    BY <2>2, <2>4
  <2> QED
    BY <1>1, <1>2, <1>8, <1>11, <2>1, <2>2, <2>3, <2>5, <2>6 DEF x
<1>12. CASE /\ known.ready /\ f.change = "group" /\ Find(known, i)
            /\ x = Update(moved, "changed")
  <2> DEFINE h == [g EXCEPT ![i].group = f.value]
  <2>1. /\ Shaped(moved, RegistryFields)
        /\ moved.instances = [known.instances EXCEPT ![i].group = f.value]
        /\ moved.revision = f.revision
        /\ Same(known, moved, RegistryFields \ {"instances", "revision"})
    BY <1>3, Zenon DEF Shaped, Same, RegistryFields
  <2> HIDE DEF moved
  <2>2. /\ RowsTypes(h) /\ DOMAIN h = DOMAIN g /\ h[i] = [group |-> f.value] /\ i \in DOMAIN g
        /\ \A j \in DOMAIN g : j # i => h[j] = g[j]
    <3>1. i \in DOMAIN g /\ f.value \in BOOLEAN
      BY <1>1, <1>5, <1>12 DEF Find
    <3> QED
      BY <1>0, <3>1, RowMoved
  <2>3. moved.instances = h
    BY <1>5, <2>1
  <2> HIDE DEF h
  <2>4. \A j : /\ OfInstance(RowsOf(h), j) = IF j \in DOMAIN h THEN {<<j, h[j]>>} ELSE {}
               /\ OfInstance(RowsOf(g), j) = IF j \in DOMAIN g THEN {<<j, g[j]>>} ELSE {}
    BY RowsAre
  <2>5. Reported(f, i, RowsOf(h))
    BY <1>12, <2>2, <2>4 DEF Reported
  <2>6. \A j \in Instances : j # i => OfInstance(RowsOf(h), j) = OfInstance(RowsOf(g), j)
    BY <2>2, <2>4
  <2> QED
    BY <1>1, <1>2, <1>8, <1>12, <2>1, <2>2, <2>3, <2>5, <2>6 DEF x
<1> QED
  BY <1>4, <1>9, <1>10, <1>11, <1>12

\* The frames of an answer.
LEMMA SnapshotResult ==
  ASSUME NEW r, ClientTypes(r), FetchPending(r), NEW f \in Frames,
         f.selector \in {"registry_begin", "registry_instance", "registry_done"},
         f.request = r.fetch.request
  PROVE  LET x == HandleRegistry(r, f)
             c == x.client
         IN  /\ ClientTypes(c) /\ c.required = r.required
             /\ \/ x.update = "throws" /\ c = r
                \/ /\ x.update = "ignored" /\ f.selector # "registry_done"
                   /\ FetchPending(c) /\ c.fetch.request = r.fetch.request
                   /\ RowsOf(c.fetch.instances) = RowsOf(r.fetch.instances) \cup
                        {<<h.instance, h.row>> : h \in {y \in {f} : IsRow(y, r.fetch.request)}}
                \/ x.update = "resynchronize" /\ ~FetchPending(c)
                \/ /\ x.update = "changed" /\ f.selector = "registry_done" /\ ~FetchPending(c)
                   /\ c.ready /\ c.instances = r.fetch.instances /\ r.required <= f.revision
<1> DEFINE x == HandleRegistry(r, f)
           s == r.fetch
           q == s.request
           first == {<<h.instance, h.row>> : h \in {y \in {f} : IsRow(y, q)}}
<1>0. /\ Shaped(r, RegistryFields) /\ r.revision \in Nat /\ r.required \in Nat
      /\ r.ready \in BOOLEAN /\ RowsTypes(r.instances)
      /\ Shaped(s, FetchFields) /\ q \in Nat /\ s.revision \in Nat /\ RowsTypes(s.instances)
  BY DEF ClientTypes
<1>1. x = HandleSnapshotFrame(r, f)
  BY DEF HandleRegistry
<1>2. /\ f.selector # "registry_instance" => f.revision \in Nat
      /\ f.selector = "registry_instance" => f.instance \in Instances /\ f.row \in Rows
  BY DEF Frames, Answers, Notifications, Deltas
<1>3. ASSUME NEW c, NEW d, Shaped(c, RegistryFields), Same(r, c, RegistryFields \ {"fetch"}),
             c.fetch = d, Shaped(d, FetchFields), d.request = q, d.revision \in Nat,
             RowsTypes(d.instances)
      PROVE  ClientTypes(c) /\ c.required = r.required /\ FetchPending(c)
  <2>1. FetchPending(c)
    <3>1. "request" \in DOMAIN d
      <4>1. DOMAIN d = FetchFields
        BY <1>3, Zenon DEF Shaped
      <4> QED
        BY <4>1 DEF FetchFields
    <3>2. "request" \notin DOMAIN NoFetch
      BY DEF NoFetch
    <3> QED
      BY <1>3, <3>1, <3>2 DEF FetchPending
  <2> QED
    BY <1>0, <1>3, <2>1 DEF ClientTypes, Same, RegistryFields
<1>4. CASE x = Update(r, "throws")
  BY <1>4 DEF Update, x
<1>5. CASE /\ f.selector = "registry_begin"
           /\ x = Update([r EXCEPT !.fetch.began = TRUE, !.fetch.revision = f.revision,
                                   !.fetch.expected = f.count], "ignored")
  <2> DEFINE d == [[[s EXCEPT !.began = TRUE] EXCEPT !.revision = f.revision]
                     EXCEPT !.expected = f.count]
             c == [r EXCEPT !.fetch.began = TRUE, !.fetch.revision = f.revision,
                            !.fetch.expected = f.count]
  <2>1. Shaped(c, RegistryFields) /\ Same(r, c, RegistryFields \ {"fetch"})
    BY <1>0, Zenon DEF Shaped, Same, RegistryFields
  <2>2. c.fetch = d
    <3>1. "fetch" \in DOMAIN r
      <4>1. DOMAIN r = RegistryFields
        BY <1>0, Zenon DEF Shaped
      <4> QED
        BY <4>1 DEF RegistryFields
    <3> QED
      BY <3>1
  <2>3. Shaped(d, FetchFields) /\ Same(s, d, FetchFields \ {"began", "revision", "expected"})
        /\ d.revision = f.revision
    BY <1>0, Zenon DEF Shaped, Same, FetchFields
  <2> HIDE DEF d, c
  <2>4. d.request = q /\ d.instances = s.instances
    BY <2>3 DEF Same, FetchFields
  <2>5. ClientTypes(c) /\ c.required = r.required /\ FetchPending(c)
    BY <1>0, <1>2, <1>3, <1>5, <2>1, <2>2, <2>3, <2>4
  <2>6. first = {}
    BY <1>5 DEF IsRow
  <2>7. x.client = c /\ x.update = "ignored"
    BY <1>5 DEF Update, c
  <2> HIDE DEF first, x
  <2> QED
    BY <1>5, <2>2, <2>4, <2>5, <2>6, <2>7 DEF first, x
<1>6. CASE /\ f.selector = "registry_instance" /\ f.instance \notin DOMAIN s.instances
           /\ x = Update([r EXCEPT !.fetch.instances = WithRow(@, f.instance, f.row)], "ignored")
  <2> DEFINE g == s.instances
             h == WithRow(g, f.instance, f.row)
             d == [s EXCEPT !.instances = WithRow(@, f.instance, f.row)]
             c == [r EXCEPT !.fetch.instances = WithRow(@, f.instance, f.row)]
  <2>1. Shaped(c, RegistryFields) /\ Same(r, c, RegistryFields \ {"fetch"})
    BY <1>0, Zenon DEF Shaped, Same, RegistryFields
  <2>2. c.fetch = d
    <3>1. "fetch" \in DOMAIN r
      <4>1. DOMAIN r = RegistryFields
        BY <1>0, Zenon DEF Shaped
      <4> QED
        BY <4>1 DEF RegistryFields
    <3> QED
      BY <3>1
  <2>3. /\ Shaped(d, FetchFields) /\ Same(s, d, FetchFields \ {"instances"})
        /\ d.instances = h
    BY <1>0, Zenon DEF Shaped, Same, FetchFields
  <2> HIDE DEF d, c
  <2>4. d.request = q /\ d.revision = s.revision
    BY <2>3 DEF Same, FetchFields
  <2>5. /\ RowsTypes(h) /\ h[f.instance] = f.row /\ DOMAIN h = DOMAIN g \cup {f.instance}
        /\ \A j \in DOMAIN g : j # f.instance => h[j] = g[j]
    BY <1>0, <1>2, <1>6, RowAdded
  <2> HIDE DEF h
  <2>6. ClientTypes(c) /\ c.required = r.required /\ FetchPending(c)
    BY <1>0, <1>3, <2>1, <2>2, <2>3, <2>4, <2>5
  <2>7. RowsOf(h) = RowsOf(g) \cup first
    BY <1>6, <2>5 DEF IsRow, RowsOf
  <2>8. x.client = c /\ x.update = "ignored"
    BY <1>6 DEF Update, c
  <2> HIDE DEF first, x
  <2> QED
    BY <1>6, <2>2, <2>3, <2>4, <2>6, <2>7, <2>8 DEF first, x
<1>7. CASE x = Update([r EXCEPT !.fetch = NoFetch], "resynchronize")
  <2> DEFINE c == [r EXCEPT !.fetch = NoFetch]
  <2>1. Shaped(c, RegistryFields) /\ Same(r, c, RegistryFields \ {"fetch"}) /\ c.fetch = NoFetch
    BY <1>0, Zenon DEF Shaped, Same, RegistryFields
  <2>2. x.client = c /\ x.update = "resynchronize"
    BY <1>7 DEF Update
  <2> HIDE DEF c, x
  <2>3. /\ c.revision = r.revision /\ c.required = r.required /\ c.ready = r.ready
        /\ c.instances = r.instances /\ ~FetchPending(c)
    BY <2>1 DEF Same, RegistryFields, FetchPending
  <2>4. ClientTypes(c)
    BY <1>0, <2>1, <2>3 DEF ClientTypes
  <2> QED
    BY <2>2, <2>3, <2>4 DEF x
<1>8. CASE /\ f.selector = "registry_done" /\ f.revision = s.revision
           /\ ~(s.revision < Max({r.required, r.revision}))
           /\ x = Update([r EXCEPT !.instances = s.instances, !.revision = s.revision,
                                   !.ready = TRUE, !.fetch = NoFetch], "changed")
  <2> DEFINE c == [r EXCEPT !.instances = s.instances, !.revision = s.revision,
                            !.ready = TRUE, !.fetch = NoFetch]
             m == Max({r.required, r.revision})
  <2>1. /\ Shaped(c, RegistryFields) /\ c.fetch = NoFetch /\ c.ready = TRUE
        /\ c.revision = s.revision /\ c.instances = s.instances /\ c.required = r.required
    BY <1>0, Zenon DEF Shaped, RegistryFields
  <2>2. x.client = c /\ x.update = "changed"
    BY <1>8 DEF Update
  <2>3. m \in Nat /\ r.required <= m
    BY <1>0, MaxOfTwo
  <2> HIDE DEF c, x, m
  <2>4. r.required <= f.revision
    BY <1>0, <1>8, <2>3 DEF m
  <2>5. ClientTypes(c) /\ ~FetchPending(c)
    BY <1>0, <2>1 DEF ClientTypes, FetchPending
  <2> QED
    BY <1>8, <2>1, <2>2, <2>4, <2>5 DEF x
<1> QED
  BY <1>1, <1>4, <1>5, <1>6, <1>7, <1>8 DEF HandleSnapshotFrame, x

\* Rows are as right as what they say of an instance.
LEMMA RightRows ==
  ASSUME NEW fs, NEW k, NEW R, NEW T, NEW i, Right(fs, k, R, i),
         OfInstance(R, i) = OfInstance(T, i)
  PROVE  Right(fs, k, T, i)
BY DEF Right, Holds

\* A delta that the client takes does to its rows what the delta says.
LEMMA DeltaTail ==
  ASSUME NEW fs \in Seq(Frames), fs # << >>, NEW R, NEW T, NEW i, Right(fs, 0, R, i),
         Head(fs).selector = "registry_changed",
         IF Head(fs).instance = i THEN Reported(Head(fs), i, T)
         ELSE OfInstance(T, i) = OfInstance(R, i)
  PROVE  Right(Tail(fs), 0, T, i)
<1>1. CASE Head(fs).instance # i
  <2>1. ~About(Head(fs), i)
    BY <1>1 DEF About
  <2>2. Right(Tail(fs), 0, R, i)
    BY <2>1, RightTail
  <2> QED
    BY <1>1, <2>2, RightRows
<1>2. CASE Head(fs).instance = i
  <2>1. 1 \in DOMAIN fs /\ fs[1] = Head(fs) /\ About(Head(fs), i)
    BY <1>2, Tails DEF About
  <2>2. \A n \in DOMAIN fs : n \in Nat \ {0}
    OBVIOUS
  <2>3. ~Untold(fs, 0, i)
    BY <2>1 DEF Untold
  <2>4. PICK n \in DOMAIN fs : /\ n > 0 /\ About(fs[n], i) /\ Tells(fs[n], i)
                               /\ \A m \in DOMAIN fs : m > n => ~About(fs[m], i)
    BY <2>3 DEF Right, LastTells
  <2>5. CASE n = 1
    <3>1. Holds(T, i)
      BY <1>2, <2>1, <2>4, <2>5 DEF Holds, Tells, Reported, Row
    <3>2. Untold(Tail(fs), 0, i)
      BY <2>4, <2>5, Tails DEF Untold
    <3> QED
      BY <3>1, <3>2 DEF Right
  <2>6. CASE n # 1
    <3>1. n > 1
      BY <2>2, <2>6
    <3>2. Right(fs, 1, T, i)
      BY <2>4, <3>1 DEF Right, LastTells
    <3> QED
      BY <3>2, RightTail
  <2> QED
    BY <2>5, <2>6
<1> QED
  BY <1>1, <1>2

\* The client that has taken a frame, beside the rest of the editor.
LEMMA CachedRests ==
  ASSUME NEW e, NEW fs, Tracked(e, fs), NEW v,
         Same(e, v, {"owner", "active", "pending", "used", "out"}), ClientTypes(v.registry),
         FetchPending(v.registry) =>
           FetchPending(e.registry) /\ v.registry.fetch.request = e.registry.fetch.request
  PROVE  Covers(v, fs) /\ Rests(v, Box(v), fs \o reply)
<1>1. /\ v.owner = e.owner /\ v.active = e.active /\ v.pending = e.pending
      /\ v.used = e.used /\ v.out = e.out
  BY DEF Same
<1>2. /\ Box(v) = Box(e) /\ PendingIds(v) = PendingIds(e)
  BY <1>1 DEF Box, PendingIds
<1>3. Covers(e, fs) /\ Rests(e, Box(e), fs \o reply)
  BY RestsTracked
<1>4. Covers(v, fs)
  BY <1>1, <1>2, <1>3 DEF Covers
<1>5. Watching(v, Box(v), fs \o reply)
  BY <1>1, <1>2, <1>3 DEF Rests, Watching
<1>6. Connections(v)
  BY <1>1, <1>3 DEF Rests, Connections
<1> QED
  BY <1>2, <1>3, <1>4, <1>5, <1>6 DEF Rests

\* The end of a snapshot, if the client takes it, leaves rows that the deltas behind it
\* make right.
LEMMA AnswerEnds ==
  ASSUME NEW fs \in Seq(Frames), fs # << >>, CoreTypes, NEW r, ClientTypes(r), FetchPending(r),
         NEW box, Answered(r, box, fs), Head(fs).selector = "registry_done",
         Has(Head(fs), r.fetch.request), r.required <= Head(fs).revision
  PROVE  watched = "yes" /\ \A i \in Instances : Right(Tail(fs), 0, RowsOf(r.fetch.instances), i)
<1> DEFINE q == r.fetch.request
           g == r.fetch.instances
           s == fs \o reply
<1>1. /\ 1 \in DOMAIN s /\ s[1] = Head(fs) /\ Len(fs) \in Nat \ {0} /\ Head(fs) \in Frames
      /\ \A n \in DOMAIN s : n \in Nat \ {0}
      /\ \A n \in DOMAIN fs : n \in Nat \ {0}
  <2>1. reply \in Seq(Frames)
    BY DEF CoreTypes
  <2> QED
    BY <2>1, StreamTail
<1> HIDE DEF s
<1>2. PICK k \in DOMAIN s :
        /\ Ends(s, k, q) /\ Trusted(fs, k, s[k].revision, r.required, Gathered(g, s, k, q))
  BY Zenon DEF Answered, s, q, g
<1>3. k = 1
  <2> SUFFICES ASSUME k # 1 PROVE FALSE
    OBVIOUS
  <2>1. 1 < k
    BY <1>1
  <2> QED
    BY <1>1, <1>2, <2>1 DEF Ends
<1>4. Gathered(g, s, k, q) = RowsOf(g)
  <2>1. {m \in DOMAIN s : m < 1 /\ IsRow(s[m], q)} = {}
    BY <1>1
  <2> QED
    BY <1>3, <2>1 DEF Gathered
<1>5. r.required \in Nat /\ Head(fs).revision \in Nat
  BY <1>1 DEF ClientTypes, Frames, Answers, Notifications, Deltas
<1>6. ~Overtaken(fs, 1, Head(fs).revision, r.required)
  BY <1>1, <1>5 DEF Overtaken
<1>7. watched = "yes" /\ \A i \in Instances : Right(fs, 1, RowsOf(g), i)
  BY <1>1, <1>2, <1>3, <1>4, <1>6 DEF Trusted
<1> QED
  BY <1>7, RightTail

\* A frame of the registry: what the editor knows then, unless its client refuses the
\* frame or it has to fetch a snapshot.
LEMMA CachedInformed ==
  ASSUME CoreTypes, NEW e, NEW fs, fs # << >>, Tracked(e, fs),
         Head(fs).selector \in {"registry_begin", "registry_instance", "registry_done",
                                "registry_changed"},
         NEW x, x = HandleRegistry(e.registry, Head(fs)),
         NEW v, v.registry = x.client, Same(e, v, {"active", "out"})
  PROVE  /\ ClientTypes(x.client)
         /\ FetchPending(x.client) =>
              FetchPending(e.registry) /\ x.client.fetch.request = e.registry.fetch.request
         /\ x.update \in {"throws", "resynchronize", "changed", "ignored"}
         /\ \/ x.update = "throws" \/ (x.update = "resynchronize" /\ ~FetchPending(x.client))
            \/ Informed(v, Box(v), Tail(fs))
<1> DEFINE r == e.registry
           c == x.client
           f == Head(fs)
           q == r.fetch.request
           s == fs \o reply
           t == Tail(fs) \o reply
<1>0. /\ Covers(e, fs) /\ Informed(e, Box(e), fs) /\ ClientTypes(r) /\ fs \in Seq(Frames)
      /\ v.active = e.active /\ Box(v) = Box(e)
  BY RestsTracked DEF Rests, Covers, Same, Box
<1>1. f \in Frames
  BY <1>0, Tails
<1>2. ~v.active => Informed(v, Box(v), Tail(fs))
  BY DEF Informed
<1>3. CASE f.selector = "registry_changed"
  <2>1. /\ ClientTypes(c) /\ c.fetch = r.fetch
        /\ f.revision \in Nat /\ r.required <= c.required /\ f.revision <= c.required
        /\ x.update \in {"resynchronize", "changed", "throws"}
        /\ x.update = "changed" =>
             /\ c.ready = r.ready /\ r.ready /\ f.instance \in Instances
             /\ \A i \in Instances :
                  IF f.instance = i THEN Reported(f, i, RowsOf(c.instances))
                  ELSE OfInstance(RowsOf(c.instances), i) = OfInstance(RowsOf(r.instances), i)
    BY <1>0, <1>1, <1>3, DeltaResult, Zenon
  <2>2. r.required \in Nat /\ c.required \in Nat /\ FetchPending(c) = FetchPending(r)
    BY <1>0, <2>1 DEF ClientTypes, FetchPending
  <2>3. ~Has(f, q)
    BY <1>1, <1>3 DEF Has, Frames, Answers, Notifications, Deltas
  <2>4. ASSUME e.active, FetchPending(c) PROVE Informed(v, Box(v), Tail(fs))
    BY <1>0, <2>1, <2>2, <2>3, <2>4, FetchTail DEF Informed
  <2>5. ASSUME e.active, ~FetchPending(c), x.update = "changed"
        PROVE  Informed(v, Box(v), Tail(fs))
    BY <1>0, <1>3, <2>1, <2>2, <2>5, DeltaTail DEF Informed
  <2> QED
    BY <1>0, <1>2, <2>1, <2>2, <2>4, <2>5
<1>4. CASE f.selector # "registry_changed" /\ (~FetchPending(r) \/ f.request # q)
  BY <1>0, <1>4, TakenTracked, RestsTracked DEF HandleRegistry, Update, Has, Informed
<1>5. CASE f.selector # "registry_changed" /\ FetchPending(r) /\ f.request = q
  <2>1. /\ ClientTypes(c) /\ c.required = r.required
        /\ \/ x.update = "throws" /\ c = r
           \/ /\ x.update = "ignored" /\ f.selector # "registry_done"
              /\ FetchPending(c) /\ c.fetch.request = r.fetch.request
              /\ RowsOf(c.fetch.instances) = RowsOf(r.fetch.instances) \cup
                   {<<h.instance, h.row>> : h \in {y \in {f} : IsRow(y, r.fetch.request)}}
           \/ x.update = "resynchronize" /\ ~FetchPending(c)
           \/ /\ x.update = "changed" /\ f.selector = "registry_done" /\ ~FetchPending(c)
              /\ c.ready /\ c.instances = r.fetch.instances /\ r.required <= f.revision
    <3>1. f.selector \in {"registry_begin", "registry_instance", "registry_done"}
      BY <1>5
    <3> QED
      BY <1>0, <1>1, <1>5, <3>1, SnapshotResult, Zenon
  <2>2. Has(f, q)
    BY <1>1, <1>5 DEF Has, Frames, Answers, Notifications, Deltas
  <2>3. e.active => Answered(r, Box(e), fs)
    BY <1>5, <2>2, OnlyAnswers
  <2>4. ASSUME e.active, x.update = "ignored" PROVE Informed(v, Box(v), Tail(fs))
    BY <1>0, <1>5, <2>1, <2>3, <2>4, AnswerTail DEF ClientTypes, Informed
  <2>5. ASSUME e.active, x.update = "changed" PROVE Informed(v, Box(v), Tail(fs))
    BY <1>0, <1>5, <2>1, <2>2, <2>3, <2>5, AnswerEnds DEF Informed
  <2> QED
    BY <1>0, <1>2, <1>5, <2>1, <2>4, <2>5
<1> QED
  BY <1>3, <1>4, <1>5

\* A frame of the registry that the client takes.
LEMMA ApplyRegistryTracked ==
  ASSUME CoreTypes, NEW e, Settled(e), NEW fs, fs # << >>, Tracked(e, fs),
         Head(fs).selector \in {"registry_begin", "registry_instance", "registry_done",
                                "registry_changed"},
         HandleRegistry(e.registry, Head(fs)).update # "throws"
  PROVE  Tracked(ApplyRegistry(e, Head(fs)), Tail(fs))
<1> DEFINE x == HandleRegistry(e.registry, Head(fs))
           v == [e EXCEPT !.registry = x.client]
<1>1. ApplyRegistry(e, Head(fs)) = CASE x.update = "resynchronize" -> FetchRegistry(v)
                                     [] x.update = "changed"       -> RegistryChanged(v)
                                     [] OTHER                      -> v
  BY DEF ApplyRegistry
<1> HIDE DEF x
<1>2. /\ Shaped(v, EditorFields) /\ Same(e, v, EditorFields \ {"registry"})
      /\ v.registry = x.client
  <2>1. Shaped(e, EditorFields)
    BY SettledTypes
  <2> QED
    BY <2>1, Zenon DEF Shaped, Same, EditorFields
<1> HIDE DEF v
<1>3. Settled(v)
  BY <1>2, SettledTypes, AsideSettled DEF Same, EditorFields
<1>4. Same(e, v, {"owner", "active", "pending", "used", "out"})
  BY <1>2 DEF Same, EditorFields
<1>5. /\ ClientTypes(x.client)
      /\ FetchPending(x.client) =>
           FetchPending(e.registry) /\ x.client.fetch.request = e.registry.fetch.request
      /\ x.update \in {"resynchronize", "changed", "ignored"}
      /\ (x.update = "resynchronize" /\ ~FetchPending(x.client))
         \/ Informed(v, Box(v), Tail(fs))
  <2>1. Same(e, v, {"active", "out"})
    BY <1>4 DEF Same
  <2> QED
    BY <1>2, <2>1, CachedInformed, Zenon DEF x
<1>6. Covers(v, Tail(fs)) /\ Rests(v, Box(v), Tail(fs) \o reply)
  BY <1>2, <1>4, <1>5, CachedRests, RestsTail
<1>7. x.update = "resynchronize" => Tracked(FetchRegistry(v), Tail(fs))
  BY <1>2, <1>3, <1>5, <1>6, FetchRegistryTracked DEF Settled
<1>8. x.update # "resynchronize" => Tracked(v, Tail(fs)) /\ Tracked(RegistryChanged(v), Tail(fs))
  BY <1>3, <1>5, <1>6, RestsTracked, ShownFurther, FurtherTracked
<1> QED
  BY <1>1, <1>5, <1>7, <1>8

\* A frame that the editor takes, one that a client refuses included.
LEMMA HandleOutputTracked ==
  ASSUME CoreTypes, NEW e, Settled(e), NEW fs, fs # << >>, Tracked(e, fs)
  PROVE  Tracked(HandleOutput(e, Head(fs)), Tail(fs))
<1> DEFINE f == Head(fs)
           r == e.registry
           q == r.fetch.request
           x == HandleRegistry(r, f)
<1>1. /\ fs \in Seq(Frames) /\ Loose(e) /\ Shaped(e, EditorFields) /\ ClientTypes(r)
  BY SettledTypes DEF Tracked, Covers, Tracks
<1>2. f \in Frames /\ f.selector \in {"action_done", "error", "target_state_snapshot",
                                      "bank_state_snapshots", "registry_begin",
                                      "registry_instance", "registry_done", "state_changed",
                                      "registry_changed"}
  <2>1. f \in Frames
    BY <1>1, Tails
  <2> QED
    BY <2>1 DEF Frames, Answers, Notifications, Deltas
<1>3. f.selector \in {"target_state_snapshot", "bank_state_snapshots", "state_changed"} =>
        /\ f.selector # "registry_changed"
        /\ e.active /\ FetchPending(r) => ~Has(f, q)
  BY OnlyAnswers
<1>5. ~Throws(e, f) => Tracked(RouteOutput(e, f), Tail(fs))
  <2> SUFFICES ASSUME ~Throws(e, f) PROVE Tracked(RouteOutput(e, f), Tail(fs))
    OBVIOUS
  <2>1. CASE f.selector \in {"action_done", "error"}
    <3>1. RouteOutput(e, f) = HandleCompletion(e, f)
      BY <2>1 DEF RouteOutput
    <3> QED
      BY <2>1, <3>1, HandleCompletionTracked
  <2>2. CASE f.selector \in {"target_state_snapshot", "bank_state_snapshots", "state_changed"}
    BY <1>3, <2>2, FurtherAside, ShownFurther, FurtherTracked, TakenTracked DEF RouteOutput, Same,
       f
  <2>3. CASE f.selector \in {"registry_begin", "registry_instance", "registry_done",
                             "registry_changed"}
    BY <2>3, ApplyRegistryTracked DEF RouteOutput, Throws
  <2> QED
    BY <1>2, <2>1, <2>2, <2>3
<1>6. Throws(e, f) =>
        /\ ClientTypes(x.client)
        /\ FetchPending(x.client) => FetchPending(r) /\ x.client.fetch.request = q
  <2> SUFFICES ASSUME Throws(e, f)
               PROVE  /\ ClientTypes(x.client)
                      /\ FetchPending(x.client) => FetchPending(r) /\ x.client.fetch.request = q
    OBVIOUS
  <2>1. CASE f.selector \in {"action_done", "error", "state_changed"}
    BY <2>1 DEF Throws
  <2>2. CASE f.selector \in {"target_state_snapshot", "bank_state_snapshots"}
    <3>1. e.active
      BY <2>2 DEF Throws
    <3>2. "request" \in DOMAIN f
      BY <1>2, <2>2 DEF Frames, Answers, Notifications, Deltas
    <3>3. ~FetchPending(r) \/ f.request # q
      BY <1>3, <2>2, <3>1, <3>2 DEF Has
    <3>4. x = Update(r, "ignored")
      BY <2>2, <3>3 DEF HandleRegistry
    <3>5. x.client = r
      BY <3>4 DEF Update
    <3> QED
      BY <1>1, <3>5
  <2>3. CASE f.selector \in {"registry_begin", "registry_instance", "registry_done",
                             "registry_changed"}
    <3> DEFINE v == [e EXCEPT !.registry = x.client]
    <3>1. v.registry = x.client /\ Same(e, v, {"active", "out"})
      BY <1>1, Zenon DEF Shaped, Same, EditorFields
    <3> HIDE DEF v
    <3> QED
      BY <2>3, <3>1, CachedInformed
  <2> QED
    BY <1>2, <2>1, <2>2, <2>3
<1> DEFINE a == [e EXCEPT !.registry = HandleRegistry(@, f).client, !.curve = NoCurve]
           b == Fail(a)
           c == InvalidateTarget(b)
           d == [c EXCEPT !.analyzer = InvalidateAnalyzer(@)]
           w == SetBusy(d, TRUE)
<1>7. HandleOutput(e, f) = IF Throws(e, f) THEN w ELSE RouteOutput(e, f)
  BY DEF HandleOutput
<1>8. Throws(e, f) => Tracked(w, Tail(fs))
  <2> SUFFICES ASSUME Throws(e, f) PROVE Tracked(w, Tail(fs))
    OBVIOUS
  <2>1. /\ Shaped(a, EditorFields) /\ Same(e, a, EditorFields \ {"registry", "curve"})
        /\ a.registry = x.client
    BY <1>1, Zenon DEF Shaped, Same, EditorFields
  <2> HIDE DEF x, a, f
  <2>2. Loose(a)
    BY <2>1, SettledTypes, AsideSettled DEF Same, EditorFields, Settled
  <2>3. Same(e, a, {"owner", "pending", "used", "out"})
    BY <2>1 DEF Same, EditorFields
  <2>4. Tracked(b, fs) /\ b.active = FALSE /\ Loose(b)
    BY <1>1, <1>6, <2>1, <2>2, <2>3, FailTracked
  <2> HIDE DEF b
  <2>5. Tracked(c, fs) /\ Loose(c) /\ c.active = FALSE
    BY <2>4, InvalidateTargetFurther, FurtherTracked, InvalidateTargetLoose DEF Same, EditorFields
  <2> HIDE DEF c
  <2>6. Shaped(d, EditorFields) /\ Same(c, d, EditorFields \ {"analyzer"})
    BY <2>5, ShapeOf, Zenon DEF Shaped, Same, EditorFields
  <2> HIDE DEF d
  <2>7. Same(d, w, EditorFields \ {"busy"})
    BY <2>6, Zenon DEF Shaped, Same, EditorFields, SetBusy
  <2> HIDE DEF w
  <2>8. Same(c, w, {"owner", "active", "registry", "pending", "used", "out"})
    BY <2>6, <2>7 DEF Same, EditorFields
  <2>9. Tracked(w, fs) /\ w.active = FALSE
    BY <2>5, <2>8, FurtherAside, FurtherTracked DEF Same
  <2> QED
    BY <2>9, TakenTracked
<1> QED
  BY <1>5, <1>7, <1>8

-----------------------------------------------------------------------------
(* The session, and the user.                                              *)

\* The first command of an editor, and an attempt to connect.
LEMMA SendTracked ==
  ASSUME CoreTypes, NEW e, Loose(e), NEW fs, Tracked(e, fs),
         NEW kind \in {"initialize", "set_instance_active"}, NEW of \in {"initialize", "connect"},
         of = "connect" => /\ ~e.active /\ ~FetchPending(e.registry)
                           /\ \A p \in e.pending : ~Counts(p)
  PROVE  Tracked(Send(e, Command(kind, Own, NoContext), of), fs)
<1> DEFINE command == Command(kind, Own, NoContext)
           id == NextId(e)
           p == [request |-> id, kind |-> of, current |-> TRUE, scope |-> e.scope,
                 front |-> command.target]
           u == Request(e, command)
           v == Send(e, command, of)
           c == [command EXCEPT !.request = id]
           b == Box(e)
           d == Box(v)
           s == fs \o reply
           r == e.registry
<1>0. /\ Own \in Instances /\ NoContext \in CommandContexts /\ kind \in Selectors
      /\ kind \notin {"observe_target", "write", "group_banks", "activate_another"}
      /\ NoContext # Closing
  BY DEF CommandContexts, Selectors, Instances, NoContext, Closing
<1>1. Further(e, u) /\ Tracked(u, fs)
  BY <1>0, RequestFurther, FurtherTracked
<1>2. /\ Same(u, v, EditorFields \ {"pending"}) /\ v.pending = u.pending \cup {p}
      /\ Same(e, u, EditorFields \ {"used", "out"}) /\ u.used = e.used \cup {id}
      /\ u.out = Append(e.out, c)
  BY SendAsks
<1>3. /\ EditorTypes(e) /\ Fresh(e) /\ inbox \in Seq(Commands) /\ e.out \in Seq(Commands)
      /\ reply \in Seq(Frames) /\ fs \in Seq(Frames) /\ Ids(reply) \subseteq e.used
      /\ Ids(fs) \subseteq e.used
      /\ FetchPending(r) => r.fetch.request \in e.used
  BY DEF Loose, Fresh, CoreTypes, EditorTypes, Tracked, Covers
<1>4. id \in Nat /\ id \notin e.used /\ \A n \in DOMAIN b : b[n].request # id
  BY <1>3, FreshId
<1>5. c \in Commands
  BY <1>0, <1>4, CommandFacts
<1>6. p.request = id /\ p.kind = of
  OBVIOUS
<1> HIDE DEF u, v, id, c, p
<1>7. /\ v.owner = u.owner /\ v.active = u.active /\ v.registry = u.registry
      /\ v.used = u.used /\ v.out = u.out
      /\ u.owner = e.owner /\ u.active = e.active /\ u.registry = r
      /\ u.pending = e.pending
  BY <1>2 DEF Same, EditorFields
<1>81. b \in Seq(Commands) /\ \A n \in DOMAIN b : b[n].request # id
  BY <1>3, <1>4 DEF Box
<1>8. d = Append(b, c) /\ d = Box(u)
  BY <1>2, <1>3, <1>5, <1>7, Appends DEF Box
<1> HIDE DEF b, d
<1> DEFINE l == Len(b) + 1
<1>9. /\ d \in Seq(Commands) /\ DOMAIN d = DOMAIN b \cup {l}
      /\ \A n \in DOMAIN b : d[n] = b[n] /\ n < l
  <2>1. b \in Seq(Commands)
    BY <1>81
  <2>2. /\ Append(b, c) \in Seq(Commands) /\ DOMAIN Append(b, c) = DOMAIN b \cup {Len(b) + 1}
        /\ \A n \in DOMAIN b : Append(b, c)[n] = b[n]
    BY <1>5, <2>1, Appends
  <2>3. \A n \in DOMAIN b : n < Len(b) + 1
    BY <2>1
  <2> QED
    BY <1>8, <2>2, <2>3
<1>91. \A n \in DOMAIN d : d[n].request = id => n = l
  BY <1>9, <1>81
<1>92. \A n \in DOMAIN d : ~(n > l)
  <2>1. l \in Nat /\ DOMAIN b \subseteq Nat
    BY <1>81
  <2> QED
    BY <1>9, <2>1
<1> HIDE DEF l
<1>10. /\ Covers(u, fs) /\ Connections(u) /\ Watching(u, d, s) /\ Informed(u, d, fs)
       /\ ClientTypes(r) /\ (FetchPending(r) => r.fetch.request \notin PendingIds(u))
  BY <1>1, <1>7, <1>8 DEF Tracked, Tracks
<1> HIDE DEF s
<1>11. id \notin Ids(s)
  BY <1>3, <1>4, IdsJoins DEF s
<1>12. PendingIds(v) = PendingIds(u) \cup {id}
  BY <1>2, <1>6 DEF PendingIds
<1>13. Covers(v, fs)
  BY <1>2, <1>7, <1>10, <1>12 DEF Covers
<1>14. FetchPending(r) => r.fetch.request \notin PendingIds(v)
  BY <1>3, <1>4, <1>10, <1>12
<1>15. Connections(v)
  <2>1. CASE of = "initialize"
    <3>1. ~Counts(p)
      BY <1>6, <2>1 DEF Counts, IsConnect
    <3> QED
      BY <1>2, <1>7, <1>10, <3>1 DEF Connections
  <2>2. CASE of = "connect"
    BY <1>2, <1>7, <2>2 DEF Connections
  <2> QED
    BY <2>1, <2>2
<1>16. Watching(v, d, s)
  <2>1. v.active => v.owner /\ NoClosing(d)
    BY <1>7, <1>10 DEF Watching
  <2>2. ASSUME NEW o \in v.pending, v.owner, Counts(o)
        PROVE  /\ \A m, n \in DOMAIN d : d[n].request = o.request /\ m > n => ~IsClosing(d[m])
               /\ \A n \in DOMAIN s :
                    s[n].selector = "action_done" /\ s[n].request = o.request => NoClosing(d)
    <3>1. CASE o \in u.pending
      BY <1>7, <1>10, <2>2, <3>1 DEF Watching
    <3>2. CASE o = p
      <4>3. ASSUME NEW n \in DOMAIN s, s[n].selector = "action_done", s[n].request = id
            PROVE  FALSE
        <5>1. s[n] \in Frames
          BY <1>3 DEF s
        <5>2. "request" \in DOMAIN s[n]
          BY <4>3, <5>1 DEF Frames, Answers, Notifications, Deltas
        <5> QED
          BY <1>11, <4>3, <5>2 DEF Ids
      <4> QED
        BY <1>6, <1>91, <1>92, <3>2, <4>3
    <3> QED
      BY <1>2, <2>2, <3>1, <3>2
  <2> QED
    BY <2>1, <2>2 DEF Watching
<1>17. Informed(v, d, fs)
  BY <1>7, <1>10 DEF Informed
<1>18. Tracks(v, d, fs)
  BY <1>7, <1>10, <1>14, <1>15, <1>16, <1>17 DEF Tracks, s
<1> QED
  BY <1>13, <1>18 DEF Tracked, v, d

LEMMA InitializeTracked ==
  ASSUME CoreTypes, NEW e, Loose(e), NEW fs, Tracked(e, fs)
  PROVE  Tracked(Initialize(e), fs)
<1> DEFINE u == [e EXCEPT !.unopened = FALSE]
<1>1. Shaped(u, EditorFields) /\ Same(e, u, EditorFields \ {"unopened"}) /\ u.unopened = FALSE
  BY ShapeOf, Zenon DEF Shaped, Same, EditorFields
<1>2. Initialize(e) = Send(u, Command("initialize", Own, NoContext), "initialize")
  BY DEF Initialize
<1> HIDE DEF u
<1>3. Loose(u)
  BY <1>1, FieldTypes, AsideLoose DEF Same, EditorFields
<1>4. Tracked(u, fs)
  BY <1>1, FurtherAside, FurtherTracked DEF Same, EditorFields
<1> QED
  BY <1>2, <1>3, <1>4, SendTracked

\* What an editor leaves behind when it closes.
LEMMA CloseTracked == \A e : Tracked(Close(e), << >>)
<1> SUFFICES ASSUME NEW e PROVE Tracked(Close(e), << >>)
  OBVIOUS
<1> DEFINE u == [NewEditor EXCEPT !.restored = e.restored, !.used = e.used]
           v == Close(e)
<1>1. Shaped(NewEditor, EditorFields)
  BY Zenon DEF Shaped, EditorFields, NewEditor
<1>2. Shaped(u, EditorFields) /\ Same(NewEditor, u, EditorFields \ {"restored", "used"})
  BY <1>1, Zenon DEF Shaped, Same, EditorFields
<1>3. v = Request(u, Command("set_instance_active", Own, Closing))
  BY DEF Close
<1> HIDE DEF u, v
<1>4. Same(u, v, EditorFields \ {"used", "out"})
  BY <1>2, <1>3, RequestFacts, Zenon
<1>5. /\ v.owner = FALSE /\ v.active = FALSE /\ v.pending = {}
      /\ v.registry = NewRegistry
  BY <1>2, <1>4 DEF Same, EditorFields, NewEditor
<1>6. ClientTypes(NewRegistry) /\ ~FetchPending(NewRegistry)
  <2>1. Shaped(NewRegistry, RegistryFields)
    BY Zenon DEF Shaped, RegistryFields, NewRegistry
  <2>2. RowsTypes(NoRows)
    BY DEF RowsTypes, NoRows
  <2> QED
    BY <2>1, <2>2 DEF ClientTypes, NewRegistry, FetchPending
<1>7. Covers(v, << >>)
  <2>1. PendingIds(v) = {} /\ Ids(<< >>) = {}
    BY <1>5 DEF PendingIds, Ids
  <2> QED
    BY <1>5, <1>6, <2>1 DEF Covers
<1>8. Connections(v)
  BY <1>5 DEF Connections
<1>9. Watching(v, Box(v), << >> \o reply)
  BY <1>5 DEF Watching
<1>10. Informed(v, Box(v), << >>)
  BY <1>5 DEF Informed
<1> QED
  BY <1>5, <1>6, <1>7, <1>8, <1>9, <1>10 DEF Tracked, Tracks, v

\* The focus comes to the editor's window, and goes to that of another instance.
LEMMA ActivateTracked ==
  ASSUME CoreTypes, NEW e, Loose(e), e.active = FALSE, NEW fs, Tracked(e, fs)
  PROVE  Tracked(Activate(e), fs)
<1> DEFINE a == [e EXCEPT !.owner = TRUE]
           b == Outdate(a, Connects(e))
           c == InvalidateTarget(b)
           d == [c EXCEPT !.registry = InvalidateRegistry(@)]
           f == SetBusy(d, TRUE)
<1>1. Activate(e) = Send(f, Command("set_instance_active", Own, NoContext), "connect")
  BY DEF Activate
<1>2. Shaped(a, EditorFields) /\ Same(e, a, EditorFields \ {"owner"})
  BY ShapeOf, Zenon DEF Shaped, Same, EditorFields
<1>3. a.owner = TRUE
  BY ShapeOf, Zenon DEF Shaped, EditorFields
<1> HIDE DEF a
<1>4. Loose(a) /\ a.pending = e.pending
  BY <1>2, <1>3, FieldTypes, AsideLoose DEF Same, EditorFields
<1>5. /\ Loose(b) /\ Same(a, b, EditorFields \ {"pending"}) /\ Tracked(b, fs)
      /\ \A p \in b.pending : p.current => p \in a.pending \ Connects(e)
  <2>1. Connects(e) \subseteq a.pending
    BY <1>4 DEF Connects
  <2>2. Shaped(a, EditorFields) /\ a.pending \subseteq Completions
    BY <1>2, <1>4 DEF Loose, EditorTypes
  <2>3. /\ Loose(b) /\ Same(a, b, EditorFields \ {"pending"})
        /\ \A p \in b.pending : p.current => p \in a.pending \ Connects(e)
    BY <1>4, <2>1, OutdateLoose
  <2>4. Further(a, b)
    BY <2>1, <2>2, OutdateFurther
  <2>5. /\ b.registry = e.registry /\ b.active = FALSE /\ Same(e, b, {"used", "out"})
    BY <1>2, <2>3 DEF Same, EditorFields
  <2>6. ASSUME NEW p \in b.pending
        PROVE  \E o \in e.pending : /\ o.kind = p.kind /\ o.request = p.request
                                    /\ (p.current => o = p)
    BY <1>4, <2>1, <2>2 DEF Shaped, EditorFields, Outdate, Completions
  <2>7. \A p \in b.pending : ~Counts(p)
    BY <1>4, <2>3 DEF Counts, Connects
  <2> HIDE DEF b
  <2>8. ClientTypes(b.registry)
    BY <2>5 DEF Tracked, Tracks
  <2> QED
    BY <2>3, <2>5, <2>6, <2>7, <2>8, StoppedTracked
<1> HIDE DEF b
<1>6. Loose(c) /\ Same(b, c, EditorFields \ {"target", "pending"}) /\ Tracked(c, fs)
      /\ \A p \in c.pending : ~Counts(p)
  <2>1. Loose(c) /\ Same(b, c, EditorFields \ {"target", "pending"}) /\ Tracked(c, fs)
    BY <1>5, InvalidateTargetLoose, InvalidateTargetFurther, FurtherTracked
  <2>2. ASSUME NEW p \in c.pending, Counts(p) PROVE FALSE
    <3>1. p.kind = "connect" /\ p.current
      BY <2>2 DEF Counts, IsConnect
    <3>2. Further(b, c)
      BY <1>5, InvalidateTargetFurther
    <3>3. p \in b.pending
      BY <3>1, <3>2 DEF Further
    <3>4. p \in a.pending \ Connects(e)
      BY <1>5, <3>1, <3>3
    <3> QED
      BY <1>4, <3>1, <3>4 DEF Connects, IsConnect
  <2> QED
    BY <2>1, <2>2
<1> HIDE DEF c
<1>7. /\ Shaped(d, EditorFields) /\ Same(c, d, EditorFields \ {"registry"})
      /\ d.registry = InvalidateRegistry(c.registry)
  BY <1>6, ShapeOf, Zenon DEF Shaped, Same, EditorFields
<1> HIDE DEF d
<1>8. ClientTypes(d.registry) /\ ~FetchPending(d.registry)
  <2> DEFINE r == c.registry
             w == InvalidateRegistry(r)
  <2>1. ClientTypes(r)
    BY <1>6 DEF Tracked, Tracks
  <2>2. /\ Shaped(w, RegistryFields) /\ Same(r, w, RegistryFields \ {"fetch", "ready"})
        /\ w.fetch = NoFetch /\ w.ready = FALSE
    <3>1. Shaped(r, RegistryFields)
      BY <2>1 DEF ClientTypes
    <3> QED
      BY <3>1, Zenon DEF Shaped, Same, RegistryFields, InvalidateRegistry
  <2> HIDE DEF w, r
  <2>3. w.revision = r.revision /\ w.required = r.required /\ w.instances = r.instances
    BY <2>2 DEF Same, RegistryFields
  <2> QED
    BY <1>7, <2>1, <2>2, <2>3 DEF ClientTypes, FetchPending, w, r
<1>9. Loose(d) /\ Tracked(d, fs)
  <2>1. Loose(d)
    BY <1>6, <1>7, FieldTypes, AsideLoose DEF Same, EditorFields
  <2>2. /\ Same(c, d, {"used", "out"}) /\ d.owner = c.owner /\ d.active = c.active
        /\ d.pending = c.pending
    BY <1>7 DEF Same, EditorFields
  <2>3. d.active = FALSE
    BY <1>2, <1>5, <1>6, <2>2 DEF Same, EditorFields
  <2> QED
    BY <1>6, <1>8, <2>1, <2>2, <2>3, StoppedTracked
<1>10. Loose(f) /\ Same(d, f, EditorFields \ {"busy"})
  BY <1>9, SetBusyLoose
<1> HIDE DEF f
<1>11. Tracked(f, fs)
  BY <1>9, <1>10, FurtherAside, FurtherTracked DEF Same, EditorFields
<1>12. /\ f.active = e.active /\ f.registry = d.registry /\ f.pending = c.pending /\ f.out = e.out
  BY <1>2, <1>5, <1>6, <1>7, <1>10 DEF Same, EditorFields
<1> QED
  BY <1>1, <1>6, <1>8, <1>10, <1>11, <1>12, SendTracked

LEMMA DeactivatedTracked ==
  ASSUME CoreTypes, NEW e, Loose(e), NEW fs, Tracked(e, fs)
  PROVE  Tracked(Deactivated(e), fs)
<1> DEFINE a == [e EXCEPT !.active = FALSE, !.owner = FALSE]
           b == InvalidateTarget(a)
           c == [b EXCEPT !.analyzer = InvalidateAnalyzer(@)]
           v == SetBusy(c, TRUE)
<1>1. Deactivated(e) = v
  BY DEF Deactivated
<1>2. Shaped(a, EditorFields) /\ Same(e, a, EditorFields \ {"active", "owner"})
      /\ a.active = FALSE /\ a.owner = FALSE
  BY ShapeOf, Zenon DEF Shaped, Same, EditorFields
<1> HIDE DEF a
<1>3. Loose(a) /\ Tracked(a, fs)
  BY <1>2, FieldTypes, AsideLoose, StoppedTracked DEF Same, EditorFields, Tracked, Tracks
<1>4. Loose(b) /\ Tracked(b, fs)
  BY <1>3, InvalidateTargetLoose, InvalidateTargetFurther, FurtherTracked
<1> HIDE DEF b
<1>5. Shaped(c, EditorFields) /\ Same(b, c, EditorFields \ {"analyzer"})
  BY <1>4, ShapeOf, Zenon DEF Shaped, Same, EditorFields
<1> HIDE DEF c
<1>6. Same(c, v, EditorFields \ {"busy"})
  BY <1>5, Zenon DEF Shaped, Same, EditorFields, SetBusy
<1> HIDE DEF v
<1>7. Further(b, v)
  BY <1>5, <1>6, FurtherAside DEF Same, EditorFields
<1> QED
  BY <1>1, <1>4, <1>7, FurtherTracked

\* What the user does.
LEMMA UserFurther ==
  ASSUME CoreTypes, NEW e, Settled(e)
  PROVE  /\ \A i \in Instances : Further(e, SelectTarget(e, i))
         /\ Further(e, ToggleScope(e))
         /\ \A c \in ContextSet : Further(e, CommitDiscreteValue(e, c))
         /\ Further(e, RunCommand(e)) /\ Further(e, UngroupFocusedBank(e))
         /\ \A i, j \in Instances : Further(e, GroupSelectedBanks(e, i, j))
<1>0. Loose(e) /\ Shaped(e, EditorFields) /\ e.focus \in Instances
  BY SettledTypes
<1>1. ASSUME NEW i \in Instances PROVE Further(e, SelectTarget(e, i))
  <2> DEFINE u == [e EXCEPT !.focus = i, !.scope = BankHasGroup(e.registry, i)]
  <2>1. SelectTarget(e, i) = Observe(u)
    BY DEF SelectTarget
  <2>2. /\ Shaped(u, EditorFields) /\ Same(e, u, EditorFields \ {"focus", "scope"})
        /\ u.focus = i /\ u.scope = BankHasGroup(e.registry, i)
    BY <1>0, Zenon DEF Shaped, Same, EditorFields
  <2> HIDE DEF u
  <2>3. u.scope \in BOOLEAN
    BY <2>2 DEF BankHasGroup
  <2>4. Loose(u) /\ Further(e, u)
    BY <1>0, <2>2, <2>3, FieldTypes, AsideLoose, FurtherAside DEF Same, EditorFields
  <2> QED
    BY <2>1, <2>4, ObserveFurther, FurtherBoth
<1>2. Further(e, ToggleScope(e))
  BY <1>0, FurtherAside DEF Shaped, Same, EditorFields, ToggleScope
<1>3. ContextSet \subseteq CommandContexts /\ Instances \subseteq CommandContexts
      /\ NoContext \in CommandContexts
      /\ {"write", "command", "group", "ungroup"} \subseteq Kinds
      /\ {"write", "command", "group_banks", "ungroup_banks"} \subseteq Selectors
  BY DEF CommandContexts, Kinds, Selectors
<1>4. ASSUME NEW c \in ContextSet PROVE Further(e, CommitDiscreteValue(e, c))
  BY <1>0, <1>3, SendFurther DEF CommitDiscreteValue
<1>5. Loose(SetBusy(e, TRUE)) /\ Further(e, SetBusy(e, TRUE))
  <2>1. Loose(SetBusy(e, TRUE)) /\ Same(e, SetBusy(e, TRUE), EditorFields \ {"busy"})
    BY <1>0, SetBusyLoose
  <2> QED
    BY <2>1, FurtherAside DEF Same, EditorFields
<1>6. Further(e, RunCommand(e)) /\ Further(e, UngroupFocusedBank(e))
  BY <1>0, <1>3, <1>5, SendFurther, FurtherBoth DEF RunCommand, UngroupFocusedBank
<1>7. ASSUME NEW i \in Instances, NEW j \in Instances
      PROVE  Further(e, GroupSelectedBanks(e, i, j))
  BY <1>3, <1>5, SendFurther, FurtherBoth DEF GroupSelectedBanks
<1> QED
  BY <1>1, <1>2, <1>4, <1>6, <1>7

-----------------------------------------------------------------------------
(* Steps of the core.                                                      *)

\* What a step of the core, with the notifications it makes, does to what is right about
\* an instance: it stays right, or the last notification says what is right.
Keeps(i, N) ==
    /\ \A n \in DOMAIN N : ~About(N[n], i)
    /\ \A f : Tells(f, i) => Tells(f, i)'
    /\ \A R : Holds(R, i) => Holds(R, i)'
Renews(i, N) ==
    \E n \in DOMAIN N : /\ About(N[n], i) /\ Tells(N[n], i)'
                        /\ \A m \in DOMAIN N : m > n => ~About(N[m], i)

\* For such an answer the step keeps what is right, or overtakes the answer.
Late(i, N) ==
    \A R, S : S \in Nat /\ S <= revision /\ Departs(R, S, i) /\ Holds(R, i) =>
      \/ Holds(R, i)'
      \/ \E n \in DOMAIN N : N[n].selector = "registry_changed" /\ N[n].revision > S

CoreEffect(N) ==
    /\ revision <= revision' /\ revision' \in Nat
    /\ watched # "no" =>
         /\ watched' \in {watched, "yes"}
         /\ \A i \in Instances :
              /\ watched = "yes" => Keeps(i, N) \/ Renews(i, N)
              /\ reply # << >> => Late(i, N)
              /\ \A R, S : S \in Nat /\ S <= revision /\ Departs(R, S, i) => Departs(R, S, i)'

\* The deltas of the step come behind the others.
LEMMA RightGrows ==
  ASSUME NEW fs \in Seq(Frames), NEW N \in Seq(Frames), NEW k \in Nat, NEW R, NEW i,
         Keeps(i, N) \/ (Renews(i, N) /\ k <= Len(fs)), Right(fs, k, R, i)
  PROVE  Right(fs \o N, k, R, i)'
<1> DEFINE t == fs \o N
<1>1. /\ \A n \in DOMAIN fs : t[n] = fs[n] /\ n \in DOMAIN t
      /\ \A n \in DOMAIN N : t[Len(fs) + n] = N[n] /\ Len(fs) + n \in DOMAIN t
      /\ \A n \in DOMAIN t : (n \in DOMAIN fs /\ t[n] = fs[n])
                             \/ (n - Len(fs) \in DOMAIN N /\ t[n] = N[n - Len(fs)])
      /\ DOMAIN t \subseteq Nat /\ Len(fs) \in Nat /\ DOMAIN fs = 1..Len(fs)
      /\ DOMAIN N \subseteq Nat \ {0}
  BY Joins
<1> HIDE DEF t
<1>2. CASE Renews(i, N) /\ k <= Len(fs)
  <2>1. PICK n \in DOMAIN N : /\ About(N[n], i) /\ Tells(N[n], i)'
                              /\ \A m \in DOMAIN N : m > n => ~About(N[m], i)
    BY <1>2 DEF Renews
  <2> DEFINE l == Len(fs) + n
  <2>2. l \in DOMAIN t /\ t[l] = N[n] /\ l > k /\ l \in Nat /\ n \in Nat \ {0}
    BY <1>1, <1>2
  <2>3. ASSUME NEW m \in DOMAIN t, m > l PROVE ~About(t[m], i)
    <3>1. m - Len(fs) \in DOMAIN N /\ t[m] = N[m - Len(fs)] /\ m - Len(fs) > n
      BY <1>1, <2>2, <2>3
    <3> QED
      BY <3>1, <2>1
  <2> HIDE DEF l
  <2>4. LastTells(t, k, i)'
    BY <2>1, <2>2, <2>3 DEF LastTells
  <2> QED
    BY <2>4 DEF Right, t
<1>3. CASE Keeps(i, N) /\ LastTells(fs, k, i)
  BY <1>1, <1>3 DEF LastTells, Keeps, Right, t
<1>4. CASE Keeps(i, N) /\ Untold(fs, k, i) /\ Holds(R, i)
  BY <1>1, <1>4 DEF Keeps, Untold, Right, t
<1> QED
  BY <1>2, <1>3, <1>4 DEF Right

\* Frames that come in the middle of a stream, behind those of the plug-in, and at its end:
\* where the frames of the stream are, and what the others are.
Moves(o, s, l, t, N, A) ==
    /\ o \in [DOMAIN s -> DOMAIN t]
    /\ \A n \in DOMAIN s : t[o[n]] = s[n]
    /\ \A n \in DOMAIN s : o[n] = IF n <= l THEN n ELSE n + Len(N)
    /\ \A m \in DOMAIN t : \/ \E n \in DOMAIN s : m = o[n]
                           \/ \E n \in DOMAIN N : t[m] = N[n]
                           \/ \E n \in DOMAIN A : t[m] = A[n]

LEMMA StreamGrows ==
  ASSUME NEW fs \in Seq(Frames), NEW N \in Seq(Frames), NEW r \in Seq(Frames),
         NEW A \in Seq(Frames)
  PROVE  /\ fs \o r \in Seq(Frames) /\ (fs \o N) \o (r \o A) \in Seq(Frames)
         /\ \E o : Moves(o, fs \o r, Len(fs), (fs \o N) \o (r \o A), N, A)
<1> DEFINE s == fs \o r
           g == fs \o N
           h == r \o A
           t == g \o h
           o == [n \in DOMAIN s |-> IF n <= Len(fs) THEN n ELSE n + Len(N)]
<1>1. /\ g \in Seq(Frames) /\ Len(g) = Len(fs) + Len(N)
      /\ h \in Seq(Frames) /\ Len(h) = Len(r) + Len(A)
      /\ Len(fs) \in Nat /\ Len(r) \in Nat /\ Len(N) \in Nat /\ Len(A) \in Nat
      /\ s \in Seq(Frames) /\ DOMAIN s = 1..(Len(fs) + Len(r))
      /\ DOMAIN N = 1..Len(N) /\ DOMAIN A = 1..Len(A)
  OBVIOUS
<1>2. /\ \A n \in 1..Len(fs) : s[n] = fs[n] /\ g[n] = fs[n]
      /\ \A n \in 1..Len(r) : s[Len(fs) + n] = r[n] /\ h[n] = r[n]
      /\ \A n \in 1..Len(N) : g[Len(fs) + n] = N[n]
      /\ \A n \in 1..Len(A) : h[Len(r) + n] = A[n]
  OBVIOUS
<1> HIDE DEF g, h
<1>3. t \in Seq(Frames) /\ DOMAIN t = 1..(Len(g) + Len(h))
  <2>1. g \in Seq(Frames) /\ h \in Seq(Frames)
    BY <1>1
  <2> QED
    BY <2>1, Joins
<1>4. /\ \A n \in 1..Len(g) : t[n] = g[n]
      /\ \A n \in 1..Len(h) : t[Len(g) + n] = h[n]
  BY <1>1
<1> HIDE DEF s, t
<1>5. ASSUME NEW n \in DOMAIN s PROVE o[n] \in DOMAIN t /\ t[o[n]] = s[n]
  <2>1. CASE n <= Len(fs)
    BY <1>1, <1>2, <1>3, <1>4, <2>1
  <2>2. CASE ~(n <= Len(fs))
    <3> DEFINE m == n - Len(fs)
    <3>1. /\ m \in 1..Len(r) /\ m \in 1..Len(h) /\ n = Len(fs) + m /\ o[n] = Len(g) + m
          /\ o[n] \in 1..(Len(g) + Len(h))
      BY <1>1, <2>2
    <3> HIDE DEF m, o
    <3> QED
      BY <3>1, <1>2, <1>3, <1>4
  <2> QED
    BY <2>1, <2>2
<1>6. ASSUME NEW m \in DOMAIN t
      PROVE  \/ \E n \in DOMAIN s : m = o[n]
             \/ \E n \in DOMAIN N : t[m] = N[n]
             \/ \E n \in DOMAIN A : t[m] = A[n]
  <2>1. m \in Nat \ {0} /\ m <= Len(fs) + Len(N) + Len(r) + Len(A)
    BY <1>1, <1>3
  <2>2. CASE m <= Len(fs)
    <3>1. m \in DOMAIN s /\ o[m] = m
      BY <1>1, <2>1, <2>2
    <3> QED
      BY <3>1
  <2>3. CASE ~(m <= Len(fs)) /\ m <= Len(fs) + Len(N)
    <3> DEFINE j == m - Len(fs)
    <3>1. j \in 1..Len(N) /\ m = Len(fs) + j
      BY <1>1, <2>1, <2>3
    <3>3. m \in 1..Len(g) /\ j \in DOMAIN N
      BY <1>1, <2>1, <2>3, <3>1
    <3> HIDE DEF j
    <3>2. t[m] = N[j]
      BY <3>1, <3>3, <1>2, <1>4
    <3> QED
      BY <3>3, <3>2
  <2>4. CASE ~(m <= Len(fs) + Len(N)) /\ m <= Len(fs) + Len(N) + Len(r)
    <3> DEFINE n == m - Len(N)
    <3>1. n \in DOMAIN s /\ ~(n <= Len(fs)) /\ m = n + Len(N)
      BY <1>1, <2>1, <2>4
    <3>2. o[n] = m
      BY <3>1
    <3> HIDE DEF n, o
    <3> QED
      BY <3>1, <3>2
  <2>5. CASE ~(m <= Len(fs) + Len(N) + Len(r))
    <3> DEFINE j == m - (Len(fs) + Len(N) + Len(r))
               l == Len(r) + j
    <3>0. j \in 1..Len(A) /\ j \in Nat /\ m = Len(fs) + Len(N) + Len(r) + j
      BY <1>1, <2>1, <2>5
    <3> HIDE DEF j
    <3>1. j \in 1..Len(A) /\ l \in 1..Len(h) /\ m = Len(g) + l /\ j \in DOMAIN A
      BY <1>1, <2>1, <3>0
    <3>2. h[l] = A[j]
      BY <3>1, <1>2
    <3> HIDE DEF l
    <3>3. t[m] = h[l]
      BY <3>1, <1>4
    <3> QED
      BY <3>1, <3>2, <3>3
  <2> QED
    BY <2>1, <2>2, <2>3, <2>4, <2>5, <1>1
<1>7. o \in [DOMAIN s -> DOMAIN t] /\ \A n \in DOMAIN s : t[o[n]] = s[n]
  BY <1>5
<1>8. \A n \in DOMAIN s : o[n] = IF n <= Len(fs) THEN n ELSE n + Len(N)
  OBVIOUS
<1> HIDE DEF o
<1>9. Moves(o, s, Len(fs), t, N, A)
  BY <1>6, <1>7, <1>8, Zenon DEF Moves
<1> QED
  BY <1>1, <1>3, <1>9, Zenon DEF s, t, g, h

\* An answer on its way stays right, or is overtaken.
LEMMA AnsweredGrows ==
  ASSUME NEW fs \in Seq(Frames), NEW N \in Seq(Frames), NEW A \in Seq(Frames), CoreTypes,
         CoreEffect(N), reply' = reply \o A, NEW r, r.required \in Nat, NEW box, NEW rest,
         r.fetch.request \notin Ids(rest),
         \A n \in DOMAIN N : ~Has(N[n], r.fetch.request),
         \A n \in DOMAIN A : ~Has(A[n], r.fetch.request),
         Answered(r, box, fs)
  PROVE  Answered(r, rest, fs \o N)'
<1>c. PICK y : y = reply
  OBVIOUS
<1> DEFINE q == r.fetch.request
           g == r.fetch.instances
           s == fs \o y
           u == fs \o N
           t == u \o (y \o A)
<1>0. /\ reply \in Seq(Frames) /\ revision \in Nat /\ watched \in {"no", "registering", "yes"}
      /\ Len(fs) \in Nat /\ Len(N) \in Nat /\ DOMAIN fs = 1..Len(fs)
      /\ DOMAIN N = 1..Len(N)
  BY DEF CoreTypes
<1>d. y \in Seq(Frames)
  BY <1>0, <1>c
<1>1. PICK k \in DOMAIN s :
        /\ Ends(s, k, q) /\ Trusted(fs, k, s[k].revision, r.required, Gathered(g, s, k, q))
  BY <1>c, Zenon DEF Answered
<1>2. s \in Seq(Frames) /\ t \in Seq(Frames) /\ \E o : Moves(o, s, Len(fs), t, N, A)
  BY <1>d, StreamGrows
<1>3. /\ Len(u) = Len(fs) + Len(N) /\ u \in Seq(Frames) /\ DOMAIN u = 1..Len(u)
      /\ \A n \in DOMAIN fs : u[n] = fs[n]
      /\ \A n \in DOMAIN N : u[Len(fs) + n] = N[n]
  BY Joins
<1> HIDE DEF s, t, u, q, g
<1>4. PICK o : Moves(o, s, Len(fs), t, N, A)
  BY <1>2
<1>f. /\ o \in [DOMAIN s -> DOMAIN t]
      /\ \A n \in DOMAIN s : t[o[n]] = s[n]
      /\ \A n \in DOMAIN s : o[n] = IF n <= Len(fs) THEN n ELSE n + Len(N)
  BY <1>4, Zenon DEF Moves
<1>5. \A n \in DOMAIN s : n \in Nat \ {0}
  BY <1>2
<1>6. \A m, n \in DOMAIN s : (o[m] < o[n] => m < n) /\ (m < n => o[m] < o[n])
                             /\ (m <= n => o[m] <= o[n])
  BY <1>0, <1>f, <1>5
<1>7. ASSUME NEW m \in DOMAIN t, Has(t[m], q) PROVE \E n \in DOMAIN s : m = o[n]
  BY <1>4, <1>7 DEF q, Moves
<1>e. PICK S, R : S = s[k].revision /\ R = Gathered(g, s, k, q)
  OBVIOUS
<1> DEFINE j == o[k]
           W == Gathered(g, t, j, q)
<1>8. S \in Nat
  <2>1. s[k] \in Frames /\ s[k].selector = "registry_done"
    BY <1>1, <1>2 DEF Ends
  <2> QED
    BY <1>e, <2>1 DEF Frames, Answers, Notifications, Deltas
<1>9. j \in DOMAIN t /\ t[j] = s[k] /\ j = IF k <= Len(fs) THEN k ELSE k + Len(N)
  BY <1>f
<1>10. Ends(t, j, q)
  <2>1. ASSUME NEW m \in DOMAIN t, Has(t[m], q)
        PROVE  m <= j /\ (m < j => t[m].selector \in {"registry_begin", "registry_instance"})
    BY <1>1, <1>6, <1>7, <2>1, <1>f DEF Ends
  <2> QED
    BY <1>1, <1>9, <2>1 DEF Ends
<1>11. W = R
  <2> DEFINE old == {s[n] : n \in {m \in DOMAIN s : m < k /\ IsRow(s[m], q)}}
             new == {t[n] : n \in {m \in DOMAIN t : m < j /\ IsRow(t[m], q)}}
  <2>1. ASSUME NEW m \in DOMAIN t, m < j, IsRow(t[m], q) PROVE t[m] \in old
    <3>1. t[m] \in Frames /\ t[m].selector = "registry_instance" /\ t[m].request = q
      BY <1>2, <2>1 DEF IsRow
    <3>2. Has(t[m], q)
      BY <3>1 DEF Frames, Answers, Notifications, Deltas, Has
    <3>3. PICK n \in DOMAIN s : m = o[n]
      BY <1>7, <3>2
    <3> QED
      BY <1>f, <1>6, <2>1, <3>3
  <2>2. ASSUME NEW n \in DOMAIN s, n < k, IsRow(s[n], q) PROVE s[n] \in new
    <3>1. o[n] \in DOMAIN t /\ t[o[n]] = s[n] /\ o[n] < j
      BY <1>f, <1>6, <2>2
    <3> QED
      BY <2>2, <3>1
  <2>3. old = new
    BY <2>1, <2>2
  <2>4. R = RowsOf(g) \cup {<<f.instance, f.row>> : f \in old}
    BY <1>e DEF Gathered
  <2>5. W = RowsOf(g) \cup {<<f.instance, f.row>> : f \in new}
    BY DEF Gathered
  <2> HIDE DEF old, new, W
  <2> QED
    BY <2>3, <2>4, <2>5
<1> HIDE DEF W, j
<1>12. /\ S <= revision
       /\ watched = "yes" \/ (watched = "registering" /\ k > Len(fs))
       /\ \A i \in Instances : Departs(R, S, i)
       /\ Overtaken(fs, k, S, r.required) \/ \A i \in Instances : Right(fs, k, R, i)
  BY <1>1, <1>e, Zenon DEF Trusted
<1>a. watched # "no"
  BY <1>12
<1>13. /\ revision <= revision' /\ revision' \in Nat /\ watched' \in {watched, "yes"}
       /\ \A i \in Instances :
            /\ watched = "yes" => Keeps(i, N) \/ Renews(i, N)
            /\ reply # << >> => Late(i, N)
  BY <1>a DEF CoreEffect
<1>b. \A i \in Instances : Departs(R, S, i)'
  BY <1>8, <1>12, <1>a DEF CoreEffect
<1>14. k > Len(fs) => j > Len(u)
  BY <1>0, <1>3, <1>5, <1>9
<1>15. Overtaken(fs, k, S, r.required) => Overtaken(u, j, S, r.required)
  BY <1>0, <1>3, <1>5, <1>9 DEF Overtaken
<1>16. ASSUME k <= Len(fs), NEW i \in Instances, Right(fs, k, R, i) PROVE Right(u, j, R, i)'
  BY <1>0, <1>5, <1>9, <1>12, <1>13, <1>16, RightGrows DEF u
<1>17. ASSUME ~(k <= Len(fs)), NEW i \in Instances, Right(fs, k, R, i)
       PROVE  Right(u, j, R, i)' \/ Overtaken(u, j, S, r.required)
  <2>1. Holds(R, i)
    BY <1>0, <1>5, <1>17 DEF Right, LastTells
  <2>2. reply # << >>
    <3> SUFFICES ASSUME reply = << >> PROVE FALSE
      OBVIOUS
    <3>1. s = fs
      BY <1>c DEF s
    <3> QED
      BY <1>0, <1>17, <3>1
  <2>3. CASE Holds(R, i)'
    <3>0. \A n \in DOMAIN u : ~(n > j)
      <4>1. Len(u) \in Nat /\ j > Len(u) /\ j \in Nat
        BY <1>0, <1>3, <1>5, <1>9, <1>14, <1>17
      <4> QED
        BY <4>1, <1>3
    <3>1. Untold(u, j, i)'
      BY <3>0 DEF Untold
    <3> QED
      BY <2>3, <3>1 DEF Right
  <2>4. CASE \E n \in DOMAIN N : N[n].selector = "registry_changed" /\ N[n].revision > S
    <3>1. PICK n \in DOMAIN N : N[n].selector = "registry_changed" /\ N[n].revision > S
      BY <2>4
    <3> DEFINE l == Len(fs) + n
    <3>2. l \in DOMAIN u /\ u[l] = N[n] /\ l < j
      BY <1>0, <1>3, <1>5, <1>9, <1>17
    <3> HIDE DEF l
    <3> QED
      BY <3>1, <3>2 DEF Overtaken
  <2>5. Late(i, N)
    BY <1>13, <2>2
  <2> QED
    BY <1>8, <1>12, <2>1, <2>3, <2>4, <2>5 DEF Late
<1>18. Trusted(u, j, S, r.required, R)'
  <2>1. S <= revision'
    BY <1>0, <1>8, <1>12, <1>13
  <2>2. watched' = "yes" \/ (watched' = "registering" /\ j > Len(u))
    BY <1>12, <1>13, <1>14
  <2>3. Overtaken(u, j, S, r.required) \/ \A i \in Instances : Right(u, j, R, i)'
    BY <1>12, <1>15, <1>16, <1>17
  <2> QED
    BY <1>b, <2>1, <2>2, <2>3, Zenon DEF Trusted
<1> QED
  BY <1>9, <1>10, <1>11, <1>18, <1>e, <1>c DEF q, W, t, u, Answered, g

\* Elements of one sequence in another.
Within(r, s) == \A n \in DOMAIN r : \E m \in DOMAIN s : r[n] = s[m]

\* A step of the core leaves the snapshot asked for, its refusal or its answer on their way.
LEMMA FetchGrows ==
  ASSUME NEW fs \in Seq(Frames), NEW N \in Seq(Frames), NEW A \in Seq(Frames), CoreTypes,
         reply' = reply \o A, NEW r, NEW box, NEW rest,
         \A n \in DOMAIN N : ~Has(N[n], r.fetch.request),
         \A n \in DOMAIN A : ~Has(A[n], r.fetch.request)
  PROVE  LET s == fs \o reply
             t == (fs \o N) \o reply'
         IN  /\ Within(rest, box) /\ Refused(r, box, s) => Refused(r, rest, t)
             /\ Requested(r, box, s) /\ Requested(r, rest, s) => Requested(r, rest, t)
<1>1. PICK y : y = reply
  OBVIOUS
<1> DEFINE q == r.fetch.request
           s == fs \o y
           t == (fs \o N) \o (y \o A)
<1>2. y \in Seq(Frames)
  BY <1>1 DEF CoreTypes
<1>3. PICK o : Moves(o, s, Len(fs), t, N, A)
  BY <1>2, StreamGrows
<1> HIDE DEF s, t, q
<1>4. /\ \A n \in DOMAIN s : o[n] \in DOMAIN t /\ t[o[n]] = s[n]
      /\ \A m \in DOMAIN t : Has(t[m], q) => \E n \in DOMAIN s : t[m] = s[n]
  BY <1>3 DEF Moves, q
<1>5. /\ \A m \in DOMAIN t : Has(t[m], q) => \E n \in DOMAIN s : t[m] = s[n] /\ Has(s[n], q)
      /\ \A n \in DOMAIN s : Has(s[n], q) => \E m \in DOMAIN t : t[m] = s[n] /\ Has(t[m], q)
  BY <1>4
<1>6. q \notin Ids(s) => q \notin Ids(t)
  BY <1>5 DEF Ids, Has
<1>7. Within(rest, box) /\ Refused(r, box, s) => Refused(r, rest, t)
  BY <1>5 DEF Refused, Ids, Within, q
<1>8. Requested(r, box, s) /\ Requested(r, rest, s) => Requested(r, rest, t)
  BY <1>6, Zenon DEF Requested, q
<1>9. s = fs \o reply /\ t = (fs \o N) \o reply'
  BY <1>1 DEF s, t
<1> QED
  BY <1>7, <1>8, <1>9

\* The first command of the queue is executed, or none; the snapshot that the editor waits
\* for is answered when it is that command.
Runs(A) == \/ inbox' = inbox /\ A = << >>
           \/ /\ inbox # << >> /\ inbox' = Tail(inbox)
              /\ \A n \in DOMAIN A : A[n].request = Head(inbox).request
Answering ==
    LET r == editor.registry
    IN  /\ inbox # << >> /\ inbox' = Tail(inbox) /\ FetchPending(r)
        /\ Head(inbox).request = r.fetch.request /\ Requested(r, inbox, frames \o reply)

\* What the core sends unasked, and its answers.
IsNotice(f) == f.selector \in {"state_changed", "registry_changed"}
LEMMA FramesOf ==
  ASSUME NEW N \in Seq(Frames), \A n \in DOMAIN N : IsNotice(N[n]), NEW A \in Seq(Frames)
  PROVE  /\ \A n \in DOMAIN N : N[n].selector # "action_done" /\ \A q : ~Has(N[n], q)
         /\ \A n \in DOMAIN A : \A q : Has(A[n], q) => A[n].request = q
<1>1. \A f \in Frames : IsNotice(f) => "request" \notin DOMAIN f
  <2>1. \A f \in Answers : ~IsNotice(f)
    BY DEF Answers, IsNotice
  <2>2. \A f \in Notifications : "request" \notin DOMAIN f
    BY DEF Notifications, Deltas
  <2> QED
    BY <2>1, <2>2 DEF Frames
<1>2. \A n \in DOMAIN N : N[n] \in Frames
  OBVIOUS
<1> QED
  BY <1>1, <1>2 DEF Has, IsNotice

\* A step of the core, as the editor sees it.
LEMMA CoreTracked ==
  ASSUME CoreTypes, RegistryInv, NEW N \in Seq(Frames), NEW A \in Seq(Frames),
         \A n \in DOMAIN N : IsNotice(N[n]),
         frames' = frames \o N, reply' = reply \o A, editor' = editor, Runs(A)
  PROVE  /\ Rests(editor, inbox, frames \o reply)'
         /\ (editor.active => CoreEffect(N) /\ ~Answering) => Tracks(editor, inbox, frames)'
<1>0. PICK e, r, fs, y, box, rest : /\ e = editor /\ r = e.registry /\ fs = frames /\ y = reply
                                   /\ box = inbox /\ rest = inbox'
  OBVIOUS
<1> DEFINE q == r.fetch.request
           s == fs \o y
           u == fs \o N
           t == u \o (y \o A)
<1>1. fs \in Seq(Frames) /\ y \in Seq(Frames) /\ box \in Seq(Commands)
  BY <1>0 DEF CoreTypes
<1>2. /\ \A n \in DOMAIN N : N[n].selector # "action_done" /\ \A i : ~Has(N[n], i)
      /\ \A n \in DOMAIN A : \A i : Has(A[n], i) => A[n].request = i
  BY FramesOf
<1>3. /\ ClientTypes(r) /\ (FetchPending(r) => q \notin PendingIds(e))
      /\ Connections(e) /\ Watching(e, box, s) /\ Informed(e, box, fs)
  BY <1>0 DEF RegistryInv, Tracks
<1>4. \/ rest = box /\ A = << >>
      \/ /\ box # << >> /\ rest = Tail(box) /\ \A n \in DOMAIN A : A[n].request = Head(box).request
  BY <1>0 DEF Runs
<1>5. /\ \A n \in DOMAIN rest : \E m \in DOMAIN box : rest[n] = box[m]
      /\ rest # box => /\ Head(box) = box[1] /\ 1 \in DOMAIN box
                       /\ \A n \in DOMAIN rest : n + 1 \in DOMAIN box /\ rest[n] = box[n + 1]
                       /\ \A n \in DOMAIN box : n # 1 => n - 1 \in DOMAIN rest
                                                         /\ rest[n - 1] = box[n]
      /\ DOMAIN rest \subseteq Nat \ {0} /\ DOMAIN box \subseteq Nat \ {0}
  <2>1. CASE rest = box
    BY <2>1, <1>1
  <2>2. CASE box # << >> /\ rest = Tail(box)
    BY <1>1, <2>2, Tails
  <2> QED
    BY <1>4, <2>1, <2>2
<1>6. PICK o : Moves(o, s, Len(fs), t, N, A)
  BY <1>1, <1>2, StreamGrows
<1> HIDE DEF s, t, u, q
<1>8. Watching(e, rest, t)
  <2>1. NoClosing(box) => NoClosing(rest)
    BY <1>5, Zenon DEF NoClosing
  <2>2. ASSUME NEW p \in e.pending, e.owner, Counts(p),
               NEW n \in DOMAIN t, t[n].selector = "action_done", t[n].request = p.request
        PROVE  NoClosing(rest)
    <3>1. CASE \E m \in DOMAIN s : t[n] = s[m]
      BY <1>3, <2>1, <2>2, <3>1 DEF Watching
    <3>2. CASE \E m \in DOMAIN A : t[n] = A[m]
      <4>1. rest = Tail(box) /\ box # << >> /\ Head(box).request = p.request
        BY <1>4, <2>2, <3>2
      <4>2. CASE rest = box
        BY <4>1, <4>2, <1>1, <2>1
      <4>3. CASE rest # box
        <5>1. box[1].request = p.request /\ 1 \in DOMAIN box
          BY <4>1, <4>3, <1>5
        <5>2. \A m \in DOMAIN box : m > 1 => ~IsClosing(box[m])
          BY <5>1, <1>3, <2>2 DEF Watching
        <5>3. \A m \in DOMAIN rest : m + 1 \in DOMAIN box /\ m + 1 > 1 /\ rest[m] = box[m + 1]
          BY <4>3, <1>5
        <5> QED
          BY <5>2, <5>3 DEF NoClosing
      <4> QED
        BY <4>2, <4>3
    <3> QED
      BY <1>2, <1>6, <2>2, <3>1, <3>2 DEF Moves
  <2>3. ASSUME NEW p \in e.pending, e.owner, Counts(p), NEW m \in DOMAIN rest,
               NEW n \in DOMAIN rest, rest[n].request = p.request, m > n
        PROVE  ~IsClosing(rest[m])
    <3>1. CASE rest = box
      BY <3>1, <1>3, <2>3 DEF Watching
    <3>2. CASE rest # box
      <4>2. m + 1 > n + 1
        BY <1>5, <2>3
      <4> QED
        BY <1>3, <1>5, <2>3, <3>2, <4>2 DEF Watching
    <3> QED
      BY <3>1, <3>2
  <2> QED
    BY <1>3, <2>1, <2>2, <2>3 DEF Watching
<1>9. ASSUME e.active, FetchPending(r), CoreEffect(N), ~Answering PROVE Informed(e, rest, u)'
  <2>1. reply' = y \o A /\ \A n \in DOMAIN N : ~Has(N[n], r.fetch.request)
    BY <1>0, <1>2
  <2>2. Requested(r, box, s) \/ Refused(r, box, s) \/ Answered(r, box, fs)
    BY <1>0, <1>3, <1>9 DEF Informed, s
  <2>3. (q \notin Ids(box) \/ Requested(r, box, s)) =>
          \A n \in DOMAIN A : ~Has(A[n], r.fetch.request)
    <3> SUFFICES ASSUME q \notin Ids(box) \/ Requested(r, box, s), NEW n \in DOMAIN A,
                        Has(A[n], q)
                 PROVE  FALSE
      BY DEF q
    <3>1. box # << >> /\ rest = Tail(box) /\ Head(box).request = q
      BY <1>2, <1>4
    <3>2. q \notin Ids(box)
      BY <3>1, <1>0, <1>9 DEF Answering, q, s
    <3>3. 1 \in DOMAIN box /\ Head(box) = box[1]
      BY <3>1, <1>1, Tails
    <3>4. box[1].request \in Ids(box)
      BY <3>3, <1>1, IdsOf
    <3> QED
      BY <3>1, <3>2, <3>3, <3>4
  <2>4. CASE Requested(r, box, s)
    <3>1. Requested(r, rest, s)
      <4>1. CASE rest = box
        BY <4>1, <2>4
      <4>2. CASE rest # box
        <5>1. PICK n \in DOMAIN box :
                 /\ box[n].selector = "registry" /\ box[n].request = q
                 /\ \A m \in DOMAIN box : box[m].request = q => m = n
          BY <2>4 DEF Requested, q
        <5>2. n # 1
          <6>1. box # << >> /\ rest = Tail(box) /\ Head(box) = box[1]
            BY <4>2, <1>4, <1>5
          <6> QED
            BY <6>1, <5>1, <2>4, <1>0, <1>9 DEF Answering, q, s
        <5>3. n - 1 \in DOMAIN rest /\ rest[n - 1] = box[n]
          BY <4>2, <5>2, <1>5
        <5>4. ASSUME NEW m \in DOMAIN rest, rest[m].request = q PROVE m = n - 1
          <6>1. m + 1 = n
            BY <4>2, <5>1, <5>4, <1>5
          <6> QED
            BY <6>1, <1>5
        <5> QED
          BY <2>4, <5>1, <5>3, <5>4 DEF Requested, q
      <4> QED
        BY <4>1, <4>2
    <3>2. Requested(r, rest, u \o reply')
      BY <3>1, <2>1, <2>3, <2>4, <1>0, <1>1, <1>2, FetchGrows DEF s, u
    <3> QED
      BY <3>2, <1>0, <1>9 DEF Informed
  <2>5. CASE Refused(r, box, s)
    <3>1. q \notin Ids(box)
      BY <2>5 DEF Refused, q
    <3>2. s = fs \o reply /\ reply' = reply \o A /\ \A n \in DOMAIN A : ~Has(A[n], r.fetch.request)
      BY <3>1, <2>3, <1>0 DEF s
    <3>3. Within(rest, box)
      BY <1>5 DEF Within
    <3>5. Refused(r, box, fs \o reply)
      BY <3>2, <2>5
    <3>4. Refused(r, rest, u \o reply')
      BY <3>2, <3>3, <3>5, <2>1, <1>1, <1>2, FetchGrows, Zenon DEF u
    <3> QED
      BY <3>4, <1>0, <1>9 DEF Informed
  <2>6. CASE Answered(r, box, fs)
    <3>1. q \notin Ids(box)
      BY <2>6 DEF Answered, q
    <3>2. r.fetch.request \notin Ids(rest)
      BY <3>1, <1>5 DEF Ids, q
    <3>3. CoreEffect(N) /\ r.required \in Nat
      BY <1>0, <1>3, <1>9 DEF ClientTypes
    <3>4. Answered(r, rest, u)'
      BY <3>1, <3>2, <3>3, <2>1, <2>3, <2>6, <1>0, <1>1, <1>2, AnsweredGrows DEF u
    <3> QED
      BY <3>4, <1>0, <1>9 DEF Informed
  <2> QED
    BY <2>2, <2>4, <2>5, <2>6
<1>10. ASSUME e.active, ~FetchPending(r), CoreEffect(N) PROVE Informed(e, rest, u)'
  BY <1>0, <1>1, <1>2, <1>3, <1>10, RightGrows DEF Informed, CoreEffect, u
<1>11. e = editor' /\ rest = inbox' /\ u = frames' /\ t = frames' \o reply'
  BY <1>0 DEF u, t
<1>12. (e.active => CoreEffect(N) /\ ~Answering) => Informed(e, rest, u)'
  BY <1>9, <1>10 DEF Informed
<1>13. (editor.active => CoreEffect(N) /\ ~Answering) => Informed(editor, inbox, frames)'
  BY <1>0, <1>11, <1>12
<1>14. Rests(editor, inbox, frames \o reply)'
  BY <1>0, <1>3, <1>8, <1>11 DEF Rests, q
<1> QED
  BY <1>13, <1>14 DEF Tracks, Rests

\* The first frame of an answer is sent: the stream stays the same.
LEMMA StreamSame ==
  ASSUME NEW fs \in Seq(Frames), NEW y \in Seq(Frames), y # << >>
  PROVE  Append(fs, Head(y)) \o Tail(y) = fs \o y
<1> DEFINE g == Append(fs, Head(y))
           h == Tail(y)
           s == fs \o y
           t == g \o h
<1>1. /\ g \in Seq(Frames) /\ Len(g) = Len(fs) + 1 /\ g[Len(fs) + 1] = y[1]
      /\ h \in Seq(Frames) /\ Len(h) = Len(y) - 1 /\ Len(h) \in Nat
      /\ Len(fs) \in Nat /\ Len(y) \in Nat
      /\ s \in Seq(Frames) /\ Len(s) = Len(fs) + Len(y)
  OBVIOUS
<1>2. /\ \A n \in 1..Len(fs) : s[n] = fs[n] /\ g[n] = fs[n]
      /\ \A n \in 1..Len(y) : s[Len(fs) + n] = y[n]
      /\ \A n \in 1..Len(h) : h[n] = y[n + 1]
  OBVIOUS
<1> HIDE DEF g, h
<1>3. g \in Seq(Frames) /\ h \in Seq(Frames)
  BY <1>1
<1>4. t \in Seq(Frames) /\ Len(t) = Len(g) + Len(h)
  BY <1>3
<1>5. /\ \A n \in 1..Len(g) : t[n] = g[n]
      /\ \A n \in 1..Len(h) : t[Len(g) + n] = h[n]
  BY <1>3
<1> HIDE DEF s, t
<1>6. ASSUME NEW n \in 1..Len(s) PROVE t[n] = s[n]
  <2>1. n \in Nat \ {0} /\ n <= Len(fs) + Len(y)
    BY <1>1
  <2>2. CASE n <= Len(fs)
    <3>1. n \in 1..Len(fs) /\ n \in 1..Len(g)
      BY <1>1, <2>1, <2>2
    <3> QED
      BY <3>1, <1>2, <1>5
  <2>3. CASE n = Len(fs) + 1
    <3>1. n \in 1..Len(g) /\ 1 \in 1..Len(y)
      BY <1>1, <2>1, <2>3
    <3> QED
      BY <3>1, <2>3, <1>1, <1>2, <1>5
  <2>4. CASE n > Len(fs) + 1
    <3> DEFINE m == n - (Len(fs) + 1)
    <3>1. /\ m \in 1..Len(h) /\ n = Len(g) + m /\ m + 1 \in 1..Len(y) /\ n = Len(fs) + (m + 1)
      BY <1>1, <2>1, <2>4
    <3> HIDE DEF m
    <3>2. t[n] = h[m] /\ h[m] = y[m + 1]
      BY <3>1, <1>2, <1>5
    <3>3. s[n] = y[m + 1]
      BY <3>1, <1>2
    <3> QED
      BY <3>2, <3>3
  <2> QED
    BY <1>1, <2>1, <2>2, <2>3, <2>4
<1>7. Len(s) = Len(t)
  BY <1>1, <1>4
<1>8. s = t
  BY <1>1, <1>4, <1>6, <1>7
<1> QED
  BY <1>8 DEF s, t, g, h

\* What is right about an instance depends on the instances alone.
LEMMA SameRows ==
  ASSUME UNCHANGED <<live, grouped, leaving>>
  PROVE  /\ \A i : Leaves(i)' <=> Leaves(i)
         /\ \A f, i : Tells(f, i)' <=> Tells(f, i)
         /\ \A R, i : Holds(R, i)' <=> Holds(R, i)
BY DEF Tells, Holds, Leaves, Row

\* Without a delta everything stays as it was.
LEMMA QuietEffect ==
  ASSUME CoreTypes, UNCHANGED <<live, grouped, leaving, revision>>,
         watched # "no" => watched' \in {watched, "yes"},
         NEW N, \A n \in DOMAIN N : N[n].selector # "registry_changed"
  PROVE  CoreEffect(N) /\ \A i : Keeps(i, N)
BY SameRows DEF Keeps, Late, About, CoreTypes, Departs, CoreEffect

\* A frame of an answer is sent.
LEMMA SendReplyTracked ==
  ASSUME CoreTypes, RegistryInv, SendReply
  PROVE  Tracks(editor, inbox, frames)'
<1>0. PICK e, r, fs, y, box, x : /\ e = editor /\ r = e.registry /\ fs = frames /\ y = reply
                                /\ box = inbox /\ x = Head(reply)
  OBVIOUS
<1> DEFINE q == r.fetch.request
           s == fs \o y
           u == Append(fs, x)
           N == <<x>>
<1>1. /\ fs \in Seq(Frames) /\ y \in Seq(Frames) /\ y # << >> /\ watched # "registering"
      /\ editor' = e /\ inbox' = box /\ frames' = u /\ reply' = Tail(y)
      /\ UNCHANGED <<live, grouped, leaving, revision>> /\ watched' = watched
  BY <1>0 DEF CoreTypes, SendReply, coreVars
<1>2. x \in Frames /\ 1 \in DOMAIN reply /\ x = reply[1]
  BY <1>0, <1>1, Tails
<1>3. x.selector # "registry_changed"
  BY <1>2 DEF RegistryInv, CoreFacts
<1>4. u \o reply' = s /\ u = fs \o N /\ N \in Seq(Frames)
  BY <1>0, <1>1, <1>2, StreamSame
<1>5. \A n \in DOMAIN N : N[n].selector # "registry_changed"
  BY <1>3
<1>6. /\ ClientTypes(r) /\ (FetchPending(r) => q \notin PendingIds(e))
      /\ Connections(e) /\ Watching(e, box, s) /\ Informed(e, box, fs)
  BY <1>0 DEF RegistryInv, Tracks
<1>7. /\ \A i \in Nat : i <= Len(fs) => i <= Len(u)
      /\ DOMAIN fs \subseteq DOMAIN u /\ \A n \in DOMAIN fs : u[n] = fs[n]
  BY <1>1, <1>2
<1> HIDE DEF N
<1>8. \A i : Keeps(i, N)
  BY <1>1, <1>5, QuietEffect
<1> HIDE DEF s, u, q
<1>9. ASSUME NEW k \in Nat, NEW R, NEW i, Right(fs, k, R, i) PROVE Right(u, k, R, i)'
  BY <1>1, <1>4, <1>8, <1>9, RightGrows
<1>10. ASSUME e.active, Answered(r, box, fs) PROVE Answered(r, box, u)'
  <2>1. PICK k \in DOMAIN s :
          Ends(s, k, q) /\ Trusted(fs, k, s[k].revision, r.required, Gathered(r.fetch.instances, s, k, q))
    BY <1>0, <1>10, Zenon DEF Answered, s, q
  <2>2. PICK S, R : S = s[k].revision /\ R = Gathered(r.fetch.instances, s, k, q)
    OBVIOUS
  <2>4. Overtaken(fs, k, S, r.required) => Overtaken(u, k, S, r.required)
    BY <1>7 DEF Overtaken
  <2>5. \A i : Departs(R, S, i)' <=> Departs(R, S, i)
    BY <1>1 DEF Departs, Leaves
  <2>6. k \in Nat
    BY <1>1, Joins DEF s
  <2>7. Trusted(u, k, S, r.required, R)'
    BY <1>1, <1>9, <2>1, <2>2, <2>4, <2>5, <2>6 DEF Trusted
  <2>8. q \notin Ids(box)
    BY <1>10 DEF Answered, q
  <2> QED
    BY <1>4, <2>1, <2>2, <2>7, <2>8, Zenon DEF Answered, q
<1>11. Informed(e, box, u)'
  BY <1>0, <1>1, <1>4, <1>6, <1>9, <1>10 DEF Informed, s
<1>12. s = frames' \o reply'
  BY <1>1, <1>4
<1> QED
  BY <1>0, <1>1, <1>6, <1>11, <1>12 DEF Tracks, q

\* Values and groups are announced by notifications.
LEMMA Notices ==
  ASSUME CoreTypes
  PROVE  /\ \A i, c, v : \A n \in DOMAIN ValueFrames(i, c, v) :
                            ValueFrames(i, c, v)[n].selector = "state_changed"
         /\ \A rows, g : \A n \in DOMAIN GroupFrames(rows, g) :
                            IsNotice(GroupFrames(rows, g)[n])
BY DEF ValueFrames, GroupFrames, Delta, IsNotice

\* Rows that change their group are announced, the others keep what is right.
LEMMA RegroupEffect ==
  ASSUME CoreTypes, reply = << >>, watched # "registering", NEW rows, rows \subseteq live,
         NEW g \in BOOLEAN, Regroup(rows, g), UNCHANGED <<live, leaving, watched>>
  PROVE  CoreEffect(GroupFrames(rows, g))
<1>0. PICK N : N = GroupFrames(rows, g)
  OBVIOUS
<1> DEFINE order == SetToSeq(rows)
<1>1. IsFiniteSet(rows) /\ live \subseteq Instances /\ revision \in Nat
      /\ watched \in {"no", "registering", "yes"}
  <2>1. IsFiniteSet(Instances)
    BY PeerAssumption, OneMore DEF Instances
  <2> QED
    BY <2>1, FS_Subset DEF CoreTypes
<1>2. /\ order \in Seq(rows) /\ Cardinality(rows) \in Nat /\ DOMAIN order = 1..Cardinality(rows)
      /\ \A m, n \in DOMAIN order : order[m] = order[n] => m = n
      /\ \A x \in rows : \E n \in DOMAIN order : order[n] = x
  BY <1>1, SetToSeqFacts
<1>3. revision <= revision' /\ revision' \in Nat
  BY <1>1, <1>2 DEF Regroup
<1>4. /\ \A i : i \notin rows => Row(i)' = Row(i) /\ (i \in grouped' <=> i \in grouped)
      /\ \A i \in rows : i \in grouped' <=> g
  BY DEF Regroup, Row
<1>5. \A R, S, i : Departs(R, S, i) => Departs(R, S, i)'
  BY DEF Departs, Leaves
<1> HIDE DEF order
<1>6. watched = "yes" => /\ DOMAIN N = DOMAIN order
                         /\ \A n \in DOMAIN N :
                              /\ N[n].selector = "registry_changed" /\ N[n].instance = order[n]
                              /\ N[n].change = "group" /\ N[n].value = g
  BY <1>0 DEF GroupFrames, Delta, order
<1>7. ASSUME watched = "yes", NEW i \in rows PROVE Renews(i, N)
  <2>1. PICK n \in DOMAIN order : order[n] = i
    BY <1>2
  <2>2. About(N[n], i) /\ \A m \in DOMAIN N : m > n => ~About(N[m], i)
    <3>1. DOMAIN N \subseteq Nat
      BY <1>2, <1>6, <1>7
    <3> QED
      BY <1>2, <1>6, <1>7, <2>1, <3>1 DEF About
  <2>3. Tells(N[n], i)'
    BY <1>4, <1>6, <1>7, <2>1 DEF Tells
  <2> QED
    BY <1>6, <1>7, <2>1, <2>2, <2>3 DEF Renews
<1>8. ASSUME watched = "yes", NEW i, i \notin rows PROVE Keeps(i, N)
  BY <1>2, <1>4, <1>6, <1>8 DEF About, Tells, Leaves, Holds, Keeps
<1>9. CoreEffect(N)
  BY <1>1, <1>3, <1>5, <1>7, <1>8 DEF CoreEffect
<1> QED
  BY <1>0, <1>9

\* An instance that is registered is announced.
LEMMA RegisterEffect ==
  ASSUME CoreTypes, watched # "registering", NEW p \in Peers, p \notin live,
         live' = live \cup {p}, revision' = revision + 1, UNCHANGED <<grouped, leaving, watched>>,
         NEW N,
         watched = "yes" => N = <<Delta(revision, revision + 1, p, "added", Row(p))>>
  PROVE  CoreEffect(N)
<1>1. revision \in Nat /\ watched \in {"no", "yes"}
  BY DEF CoreTypes
<1>2. \A i : Row(i)' = Row(i) /\ (i # p => (i \in live' <=> i \in live))
             /\ (Leaves(i)' <=> Leaves(i))
  BY DEF Row, Leaves
<1>3. \A R, S, i : Departs(R, S, i) => Departs(R, S, i)'
  BY <1>2 DEF Departs
<1>4. watched = "yes" => /\ DOMAIN N = {1} /\ N[1].selector = "registry_changed"
                         /\ N[1].instance = p /\ N[1].change = "added" /\ N[1].value = Row(p)
                         /\ N[1].revision = revision + 1
  BY DEF Delta
<1>5. watched = "yes" => Renews(p, N)
  BY <1>2, <1>4 DEF Tells, Renews, About
<1>6. ASSUME NEW i, i # p
      PROVE  /\ \A R : Holds(R, i) => Holds(R, i)'
             /\ watched = "yes" => Keeps(i, N)
  BY <1>2, <1>4, <1>6 DEF Holds, Tells, Row, About, Keeps
<1>7. watched = "yes" => \A i : Late(i, N)
  BY <1>1, <1>4 DEF Late
<1>8. revision <= revision' /\ revision' \in Nat
  BY <1>1
<1> QED
  BY <1>1, <1>3, <1>5, <1>6, <1>7, <1>8 DEF CoreEffect

\* Nothing is announced yet of an instance that is unregistered, whose rows are on leave.
LEMMA UnregisterEffect ==
  ASSUME CoreTypes, watched # "registering", NEW p \in Peers, p \in live, live' = live \ {p},
         leaving' = [leaving EXCEPT ![p].stage = "removed"],
         UNCHANGED <<grouped, watched, revision>>
  PROVE  CoreEffect(<< >>)
<1>1. /\ revision \in Nat /\ revision <= revision' /\ watched \in {"no", "yes"}
      /\ leaving'[p].stage = "removed" /\ \A i \in Peers : i # p => leaving'[i] = leaving[i]
  BY DEF CoreTypes
<1>2. \A i : Row(i)' = Row(i) /\ (i # p => (i \in live' <=> i \in live))
  BY DEF Row
<1>3. Leaves(p)' /\ p \notin live' /\ \A i : i # p => (Leaves(i)' <=> Leaves(i))
  BY <1>1 DEF Leaves
<1>4. \A i, R, S : watched # "no" /\ Departs(R, S, i) => Departs(R, S, i)'
  <2> SUFFICES ASSUME NEW i, NEW R, NEW S, watched # "no", Departs(R, S, i)
               PROVE  Departs(R, S, i)'
    OBVIOUS
  <2>1. CASE i = p
    BY <1>1, <2>1 DEF Departs
  <2>2. CASE i # p
    BY <1>1, <1>2, <1>3, <2>2 DEF Leaves, Departs
  <2> QED
    BY <2>1, <2>2
<1>5. ASSUME NEW i
      PROVE  (\A f : Tells(f, i) => Tells(f, i)') /\ (\A R : Holds(R, i) => Holds(R, i)')
  <2>1. CASE i = p
    BY <1>3, <2>1 DEF Tells, Holds
  <2>2. CASE i # p
    BY <1>2, <1>3, <2>2 DEF Tells, Holds, Row
  <2> QED
    BY <2>1, <2>2
<1>6. \A i : Keeps(i, << >>) /\ Late(i, << >>)
  <2>1. \A i : \A n \in DOMAIN << >> : ~About(<< >>[n], i)
    OBVIOUS
  <2> QED
    BY <1>5, <2>1, Zenon DEF Keeps, Late
<1> QED
  BY <1>1, <1>4, <1>6 DEF CoreEffect

\* The announcement of a removal takes its revision, and comes, after a snapshot that has
\* its rows.
LEMMA AnnounceEffect ==
  ASSUME CoreTypes, NEW p \in Peers, p \notin live,
         ReadRevision(p) \/ AdvanceRevision(p) \/ SendRemoval(p),
         UNCHANGED <<live, grouped, watched>>
  PROVE  \E N \in Seq(Frames) : /\ frames' = frames \o N /\ \A n \in DOMAIN N : IsNotice(N[n])
                                /\ CoreEffect(N)
<1>1. /\ revision \in Nat /\ leaving[p].previous \in Nat /\ leaving[p].revision \in Nat
      /\ frames \in Seq(Frames)
      /\ leaving \in [Peers -> [stage : Stages, previous : Nat, revision : Nat]]
  BY DEF CoreTypes
<1>2. \A i : Row(i)' = Row(i)
  BY DEF Row
<1>3. \A i \in Peers : i # p => leaving'[i] = leaving[i]
  BY <1>1 DEF ReadRevision, AdvanceRevision, SendRemoval
<1>4. \A i : i # p => (Leaves(i)' <=> Leaves(i))
  BY <1>3 DEF Leaves
<1>5. ASSUME NEW i, i # p
      PROVE  /\ \A f : Tells(f, i) => Tells(f, i)'
             /\ \A R : Holds(R, i) => Holds(R, i)'
             /\ \A R, S : Departs(R, S, i) => Departs(R, S, i)'
  BY <1>2, <1>3, <1>4, <1>5 DEF Leaves, Tells, Row, Holds, Departs
<1>6. << >> \in Seq(Frames) /\ frames = frames \o << >> /\ \A n \in DOMAIN << >> : FALSE
  BY <1>1
<1>7. CASE ReadRevision(p) \/ AdvanceRevision(p)
  <2>1. Leaves(p)' /\ Leaves(p) /\ frames' = frames /\ revision <= revision' /\ revision' \in Nat
    BY <1>1, <1>7 DEF ReadRevision, AdvanceRevision, Leaves
  <2>2. \A R, S : S \in Nat /\ S <= revision /\ Departs(R, S, p) => Departs(R, S, p)'
    BY <1>1, <1>7, <2>1 DEF Departs, ReadRevision, AdvanceRevision
  <2>3. \A f, i : Tells(f, i) => Tells(f, i)'
    BY <1>5, <2>1 DEF Tells
  <2>4. \A R, i : Holds(R, i) => Holds(R, i)'
    BY <1>5, <2>1 DEF Holds
  <2>5. \A i : Keeps(i, << >>) /\ Late(i, << >>)
    BY <1>6, <2>3, <2>4, Zenon DEF Keeps, Late
  <2>6. \A R, S, i : S \in Nat /\ S <= revision /\ Departs(R, S, i) => Departs(R, S, i)'
    BY <1>5, <2>2
  <2>7. CoreEffect(<< >>)
    BY <2>1, <2>5, <2>6 DEF CoreEffect
  <2> QED
    BY <1>6, <2>1, <2>7
<1>8. CASE SendRemoval(p)
  <2>1. PICK d : d = Delta(leaving[p].previous, leaving[p].revision, p, "removed", NoRows)
    OBVIOUS
  <2> DEFINE N == IF watched = "yes" THEN <<d>> ELSE << >>
  <2>2. PICK M : M = N
    OBVIOUS
  <2>3. /\ d \in Frames /\ d.selector = "registry_changed" /\ d.instance = p
        /\ d.change = "removed" /\ d.revision = leaving[p].revision
    <3>1. p \in Instances
      BY DEF Instances
    <3> QED
      BY <1>1, <2>1, <3>1 DEF Delta, Frames, Notifications, Deltas
  <2>4. /\ leaving[p].stage = "numbered" /\ leaving'[p].stage = "gone" /\ revision' = revision
        /\ frames' = IF watched = "yes" THEN Append(frames, d) ELSE frames
    BY <1>1, <1>8, <2>1 DEF SendRemoval, Present
  <2>5. /\ M \in Seq(Frames) /\ frames' = frames \o M /\ \A n \in DOMAIN M : M[n] = d
        /\ watched = "yes" => DOMAIN M = {1} /\ M[1] = d
    BY <1>1, <1>6, <2>2, <2>3, <2>4, OneFrame
  <2>6. Leaves(p) /\ ~Leaves(p)'
    BY <2>4 DEF Leaves
  <2>7. \A n \in DOMAIN M : IsNotice(M[n])
    BY <2>3, <2>5 DEF IsNotice
  <2>8. watched = "yes" => Renews(p, M)
    BY <2>3, <2>5 DEF Tells, Renews, About
  <2>9. \A i : i # p => Keeps(i, M) /\ Late(i, M)
    <3>1. \A i : i # p => \A n \in DOMAIN M : ~About(M[n], i)
      BY <2>3, <2>5 DEF About
    <3> QED
      BY <1>5, <3>1 DEF Keeps, Late
  <2>10. Late(p, M)
    BY <2>3, <2>4, <2>5, <2>6 DEF Late, Holds, Departs
  <2>11. \A R, S : Departs(R, S, p) => Departs(R, S, p)'
    BY <2>6 DEF Departs
  <2>12. CoreEffect(M)
    <3>1. revision <= revision' /\ revision' \in Nat
      BY <1>1, <2>4
    <3> HIDE DEF N
    <3> QED
      BY <1>5, <2>8, <2>9, <2>10, <2>11, <3>1 DEF CoreEffect
  <2> QED
    BY <2>5, <2>7, <2>12
<1> QED
  BY <1>7, <1>8

\* The worker reads the registry, for the editor that waits for it or for a former one.
LEMMA ReadRegistryTracked ==
  ASSUME IInv, RegistryInv, ReadRegistry
  PROVE  RegistryInv'
<1> DEFINE A == RegistrySnapshot(Asked)
<1>1. /\ Execute("registry", A, << >>) /\ UNCHANGED <<grouped, selection, revision>>
      /\ watched' = IF watched = "no" THEN "registering" ELSE watched
  BY DEF ReadRegistry
<1>2. /\ CoreTypes /\ Asked \in Commands /\ inbox # << >> /\ reply = << >>
      /\ UNCHANGED <<editor, live, leaving>> /\ frames' = frames /\ frames \in Seq(Frames)
      /\ inbox' = Tail(inbox) /\ reply' = A /\ Asked = Head(inbox) /\ inbox \in Seq(Commands)
      /\ frames' = frames \o << >> /\ revision \in Nat
  <2>1. CoreTypes /\ Asked \in Commands /\ UNCHANGED <<live, leaving>>
    BY <1>1, AskedTypes
  <2>2. /\ inbox # << >> /\ reply = << >> /\ editor' = editor /\ frames' = frames \o << >>
        /\ inbox' = Tail(inbox) /\ reply' = A
    BY <1>1 DEF Execute
  <2> QED
    BY <2>1, <2>2 DEF Asked, CoreTypes
<1>3. watched # "registering"
  BY <1>2 DEF RegistryInv, CoreFacts
<1>4. /\ A \in Seq(Frames) /\ Len(A) \in Nat \ {0} /\ DOMAIN A = 1..Len(A)
      /\ \A n \in DOMAIN A :
           /\ A[n].request = Asked.request /\ "request" \in DOMAIN A[n]
           /\ A[n].selector \in {"registry_begin", "registry_instance", "registry_done"}
           /\ n < Len(A) => A[n].selector # "registry_done"
           /\ A[n].selector = "registry_instance" =>
                A[n].instance \in live /\ A[n].row = Row(A[n].instance)
      /\ A[Len(A)].selector = "registry_done" /\ A[Len(A)].revision = revision
      /\ \A i \in live : \E n \in DOMAIN A :
           /\ n < Len(A) /\ A[n].selector = "registry_instance"
           /\ A[n].instance = i /\ A[n].row = Row(i)
  BY <1>2, SnapshotFacts
<1>5. PICK y : y = A
  OBVIOUS
<1> HIDE DEF A
<1>6. CoreEffect(<< >>)
  BY <1>1, <1>2, QuietEffect
<1>7. Runs(y) /\ reply' = reply \o y /\ << >> \in Seq(Frames) /\ y \in Seq(Frames)
  BY <1>2, <1>4, <1>5 DEF Runs
<1>8. /\ Rests(editor, inbox, frames \o reply)'
      /\ (editor.active => CoreEffect(<< >>) /\ ~Answering) => Tracks(editor, inbox, frames)'
  <2>1. \A n \in DOMAIN << >> : IsNotice(<< >>[n])
    OBVIOUS
  <2> QED
    BY <1>2, <1>7, <2>1, CoreTracked
<1>9. CoreFacts'
  BY <1>2, <1>4, <1>5 DEF RegistryInv, CoreFacts
<1>10. ASSUME editor.active, Answering PROVE Informed(editor, inbox, frames)'
  <2>1. PICK e, r, q, fs, box : /\ e = editor /\ r = e.registry /\ q = r.fetch.request
                               /\ fs = frames /\ box = Tail(inbox)
    OBVIOUS
  <2> DEFINE s == fs \o y
             l == Len(fs)
             k == l + Len(y)
  <2>2. PICK R : R = {<<i, Row(i)>> : i \in live}
    OBVIOUS
  <2>3. /\ FetchPending(r) /\ Asked.request = q /\ Requested(r, inbox, fs \o reply)
    BY <1>2, <1>10, <2>1 DEF Answering
  <2>4. fs \o reply = fs /\ l \in Nat /\ k \in Nat /\ k > l /\ DOMAIN fs = 1..l
        /\ fs \in Seq(Frames) /\ DOMAIN y = 1..Len(y) /\ Len(y) \in Nat \ {0}
    BY <1>2, <1>4, <1>5, <2>1
  <2>5. q \notin Ids(fs) /\ r.fetch.instances = NoRows
    BY <2>1, <2>3, <2>4 DEF Requested
  <2>6. q \notin Ids(box)
    BY <1>2, <2>1, <2>3, Tails DEF Requested, Ids
  <2>7. /\ s \in Seq(Frames) /\ DOMAIN s = 1..k
        /\ \A n \in DOMAIN fs : s[n] = fs[n]
        /\ \A n \in DOMAIN y : s[l + n] = y[n] /\ l + n \in DOMAIN s
        /\ \A n \in DOMAIN s : (n \in DOMAIN fs /\ s[n] = fs[n])
                               \/ (n - l \in DOMAIN y /\ s[n] = y[n - l])
    BY <1>7, <2>4, Joins
  <2> HIDE DEF s
  <2>8. \A n \in DOMAIN s : Has(s[n], q) => n - l \in DOMAIN y /\ s[n] = y[n - l]
    <3>1. \A n \in DOMAIN fs : ~Has(fs[n], q)
      BY <2>5 DEF Ids, Has
    <3> QED
      BY <2>7, <3>1
  <2>9. k \in DOMAIN s /\ s[k] = y[Len(y)] /\ s[k].revision = revision
    BY <1>4, <1>5, <2>4, <2>7
  <2>10. \A n \in DOMAIN y : /\ y[n].request = q /\ "request" \in DOMAIN y[n]
                             /\ y[n].selector \in {"registry_begin", "registry_instance",
                                                   "registry_done"}
                             /\ n < Len(y) => y[n].selector # "registry_done"
    BY <1>4, <1>5, <2>3
  <2>11. Ends(s, k, q)
    <3>1. s[k].selector = "registry_done" /\ s[k].request = q
      BY <1>4, <1>5, <2>4, <2>9, <2>10
    <3>2. ASSUME NEW n \in DOMAIN s, Has(s[n], q)
          PROVE  n <= k /\ (n < k => s[n].selector \in {"registry_begin", "registry_instance"})
      BY <2>4, <2>7, <2>8, <2>10, <3>2
    <3> QED
      BY <3>1, <3>2 DEF Ends
  <2>12. Gathered(r.fetch.instances, s, k, q) = R
    <3>1. RowsOf(r.fetch.instances) = {}
      BY <2>5 DEF RowsOf, NoRows
    <3>2. ASSUME NEW n \in DOMAIN s, n < k, IsRow(s[n], q)
          PROVE  <<s[n].instance, s[n].row>> \in R
      <4>1. s[n] \in Frames /\ s[n].selector = "registry_instance" /\ s[n].request = q
        BY <2>7, <3>2 DEF IsRow
      <4>2. Has(s[n], q)
        BY <4>1 DEF Frames, Answers, Notifications, Deltas, Has
      <4>3. n - l \in DOMAIN A /\ s[n] = A[n - l]
        BY <1>5, <2>8, <4>2
      <4>4. s[n].instance \in live /\ s[n].row = Row(s[n].instance)
        BY <1>4, <4>1, <4>3
      <4> QED
        BY <2>2, <4>4
    <3>3. ASSUME NEW i \in live
          PROVE  \E n \in DOMAIN s : n < k /\ IsRow(s[n], q) /\ <<s[n].instance, s[n].row>> = <<i, Row(i)>>
      <4>1. PICK n \in DOMAIN y : /\ n < Len(y) /\ y[n].selector = "registry_instance"
                                  /\ y[n].instance = i /\ y[n].row = Row(i)
        BY <1>4, <1>5
      <4>2. l + n \in DOMAIN s /\ s[l + n] = y[n] /\ l + n < k
        BY <2>4, <2>7, <4>1
      <4> QED
        BY <2>10, <4>1, <4>2 DEF IsRow
    <3> QED
      BY <2>2, <3>1, <3>2, <3>3 DEF Gathered
  <2>13. \A i : OfInstance(R, i) = IF i \in live THEN {<<i, Row(i)>>} ELSE {}
    BY <2>2 DEF OfInstance
  <2>14. PICK S : S = revision
    OBVIOUS
  <2>15. Trusted(fs, k, S, r.required, R)'
    <3>1. \A i : Row(i)' = Row(i)
      BY <1>1 DEF Row
    <3>2. \A i : Departs(R, S, i)' /\ Holds(R, i)'
      BY <1>2, <2>13, <3>1 DEF Departs, Holds
    <3>3. \A i : Untold(fs, k, i)'
      <4>1. \A n \in DOMAIN fs : ~(n > k)
        BY <2>4
      <4> QED
        BY <4>1 DEF Untold
    <3>4. \A i : Right(fs, k, R, i)'
      BY <3>2, <3>3 DEF Right
    <3>5. S <= revision'
      BY <1>1, <1>2, <2>14
    <3>6. watched' = "yes" \/ (watched' = "registering" /\ k > Len(fs))
      BY <1>1, <1>2, <1>3, <2>4 DEF CoreTypes
    <3> HIDE DEF k
    <3> QED
      BY <3>2, <3>4, <3>5, <3>6, Zenon DEF Trusted
  <2>16. s = fs \o reply'
    BY <1>2, <1>5 DEF s
  <2>17. Answered(r, box, fs)'
    <3> HIDE DEF k
    <3> QED
      BY <2>1, <2>6, <2>9, <2>11, <2>12, <2>14, <2>15, <2>16, Zenon DEF Answered
  <2>18. Informed(e, box, fs)'
    BY <2>1, <2>3, <2>17 DEF Informed
  <2> QED
    BY <1>2, <2>1, <2>18
<1>11. Tracks(editor, inbox, frames)'
  <2>1. CASE ~editor.active \/ ~Answering
    BY <1>6, <1>8, <2>1
  <2>2. CASE editor.active /\ Answering
    <3>1. Informed(editor, inbox, frames)'
      BY <1>10, <2>2
    <3> QED
      BY <1>8, <3>1 DEF Tracks, Rests
  <2> QED
    BY <2>1, <2>2
<1> QED
  BY <1>9, <1>11 DEF RegistryInv

\* The worker runs another command.
LEMMA ExecuteTracked ==
  ASSUME IInv, RegistryInv, NEW selector, NEW answer, NEW N, Execute(selector, answer, N),
         selector # "registry", answer \in Seq(Frames), N \in Seq(Frames),
         \A n \in DOMAIN answer : /\ answer[n].selector # "registry_changed"
                                  /\ answer[n].request = Asked.request,
         \A n \in DOMAIN N : IsNotice(N[n]),
         editor.active => CoreEffect(N), watched' \in {watched, "no"}
  PROVE  RegistryInv'
<1>1. /\ CoreTypes /\ inbox # << >> /\ reply = << >> /\ UNCHANGED <<editor, live, leaving>>
      /\ frames' = frames \o N /\ inbox' = Tail(inbox) /\ reply' = answer
      /\ Asked = Head(inbox) /\ Asked.selector = selector /\ inbox \in Seq(Commands)
  BY DEF IInv, CoreTypes, Execute, Asked
<1>2. watched # "registering"
  BY <1>1 DEF RegistryInv, CoreFacts
<1>3. ~Answering
  BY <1>1, Tails DEF Answering, Requested
<1>4. Runs(answer) /\ reply' = reply \o answer
  BY <1>1 DEF Runs
<1>5. Tracks(editor, inbox, frames)'
  BY <1>1, <1>3, <1>4, CoreTracked
<1>6. CoreFacts'
  BY <1>1, <1>2 DEF RegistryInv, CoreFacts
<1> QED
  BY <1>5, <1>6 DEF RegistryInv

\* One answer to a command.
LEMMA OneAnswer ==
  ASSUME IInv, NEW selector, NEW answer, NEW N, Execute(selector, answer, N),
         \/ answer = <<Error(Asked)>> \/ \E b \in BOOLEAN : answer = <<Done(Asked, b)>>
         \/ answer = <<BankSnapshots(Asked)>>
         \/ answer = <<StateSnapshot(Asked)>> /\ selector = "observe_target"
  PROVE  /\ answer \in Seq(Frames)
         /\ \A n \in DOMAIN answer : /\ answer[n].selector # "registry_changed"
                                     /\ answer[n].request = Asked.request
<1>1. CoreTypes /\ Asked \in Commands /\ Asked.selector = selector
  BY AskedTypes
<1>2. PICK f \in Frames : /\ answer = <<f>> /\ f.selector # "registry_changed"
                          /\ f.request = Asked.request
  BY <1>1, AnswerTypes DEF Done, Error, BankSnapshots, StateSnapshot
<1> QED
  BY <1>2

\* Values that are announced do not concern the registry.
LEMMA ValueEffect ==
  ASSUME CoreTypes, UNCHANGED <<live, grouped, leaving, revision, watched>>,
         NEW i, NEW c \in ContextSet, NEW v \in BOOLEAN
  PROVE  LET N == ValueFrames(i, c, v)
         IN  N \in Seq(Frames) /\ CoreEffect(N) /\ \A n \in DOMAIN N : IsNotice(N[n])
BY NoticeTypes, Notices, QuietEffect DEF Mute, IsNotice

\* Nothing is announced.
LEMMA NothingEffect ==
  ASSUME CoreTypes, UNCHANGED <<live, grouped, leaving, revision>>,
         watched # "no" => watched' \in {watched, "yes"}
  PROVE  /\ << >> \in Seq(Frames) /\ CoreEffect(<< >>) /\ \A n \in DOMAIN << >> : IsNotice(<< >>[n])
         /\ frames = frames \o << >> /\ reply = reply \o << >>
BY QuietEffect DEF CoreTypes

\* Every step of the worker.
LEMMA WorkerTracked ==
  ASSUME IInv, RegistryInv, Worker
  PROVE  RegistryInv'
<1>0. CoreTypes /\ (reply = << >> => watched # "registering") /\ inbox \in Seq(Commands)
  BY DEF IInv, CoreTypes, RegistryInv, CoreFacts
<1>1. ASSUME NEW selector, NEW answer, Execute(selector, answer, << >>), selector # "registry",
             \/ answer = <<Error(Asked)>> \/ \E b \in BOOLEAN : answer = <<Done(Asked, b)>>
             \/ answer = <<BankSnapshots(Asked)>>
             \/ answer = <<StateSnapshot(Asked)>> /\ selector = "observe_target",
             UNCHANGED <<grouped, watched, revision>>
      PROVE  RegistryInv'
  <2>1. UNCHANGED <<live, leaving>>
    BY <1>1 DEF Execute
  <2>2. /\ << >> \in Seq(Frames) /\ CoreEffect(<< >>) /\ \A n \in DOMAIN << >> : IsNotice(<< >>[n])
    BY <1>0, <1>1, <2>1, NothingEffect
  <2> QED
    BY <1>1, <2>2, ExecuteTracked, OneAnswer
<1>2. CASE InitializeUi
  BY <1>1, <1>2 DEF InitializeUi
<1>3. CASE SetInstanceActive
  <2>1. /\ Execute("set_instance_active", <<Done(Asked, TRUE)>>, << >>)
        /\ watched' = IF Asked.context = Closing THEN "no" ELSE watched
        /\ UNCHANGED <<grouped, revision>>
    BY <1>3 DEF SetInstanceActive
  <2>2. CASE Asked.context # Closing
    BY <1>1, <2>1, <2>2
  <2>3. CASE Asked.context = Closing
    <3>1. inbox # << >> /\ Head(inbox) = inbox[1] /\ 1 \in DOMAIN inbox /\ Asked = Head(inbox)
      BY <1>0, <2>1, Tails DEF Execute, Asked
    <3>2. Asked.selector = "set_instance_active"
      BY <2>1, AskedTypes
    <3>3. ~NoClosing(inbox)
      BY <2>3, <3>1, <3>2 DEF NoClosing, IsClosing
    <3>4. ~editor.active
      BY <3>3 DEF RegistryInv, Tracks, Watching
    <3>5. << >> \in Seq(Frames) /\ \A n \in DOMAIN << >> : IsNotice(<< >>[n])
      OBVIOUS
    <3> QED
      BY <2>1, <2>3, <3>4, <3>5, ExecuteTracked, OneAnswer
  <2> QED
    BY <2>2, <2>3
<1>16. CASE ActivateAnother
  <2>1. Execute("activate_another", << >>, << >>) /\ watched' = "no"
    BY <1>16 DEF ActivateAnother
  <2>2. inbox # << >> /\ Head(inbox) = inbox[1] /\ 1 \in DOMAIN inbox
        /\ Head(inbox).selector = "activate_another"
    BY <1>0, <2>1, Tails DEF Execute
  <2>3. ~NoClosing(inbox)
    BY <2>2 DEF NoClosing, IsClosing
  <2>4. ~editor.active
    BY <2>3 DEF RegistryInv, Tracks, Watching
  <2>5. << >> \in Seq(Frames) /\ DOMAIN << >> = {}
    OBVIOUS
  <2> QED
    BY <2>1, <2>4, <2>5, ExecuteTracked
<1>4. CASE ReadRegistry
  BY <1>4, ReadRegistryTracked
<1>5. CASE RegisterObserver
  <2>1. /\ watched = "registering" /\ watched' = "yes" /\ reply' = reply /\ frames' = frames
        /\ UNCHANGED <<live, grouped, revision, leaving, editor, inbox>>
    BY <1>5 DEF RegisterObserver
  <2>3. Runs(<< >>) /\ ~Answering
    <3>1. inbox # << >> => Tail(inbox) # inbox
      BY <1>0
    <3> QED
      BY <2>1, <3>1 DEF Runs, Answering
  <2>4. Tracks(editor, inbox, frames)'
    BY <1>0, <2>1, <2>3, CoreTracked, NothingEffect
  <2> QED
    BY <2>1, <2>4 DEF RegistryInv, CoreFacts
<1>6. CASE ObserveTargetCommand
  BY <1>1, <1>6 DEF ObserveTargetCommand
<1>7. CASE ObserveBanks
  BY <1>1, <1>7 DEF ObserveBanks
<1>8. ASSUME NEW selector, selector # "registry", NEW i, NEW c \in ContextSet, NEW v \in BOOLEAN,
             Execute(selector, <<Done(Asked, TRUE)>>, ValueFrames(i, c, v)),
             UNCHANGED <<grouped, watched, revision>>
      PROVE  RegistryInv'
  <2>1. PICK N : N = ValueFrames(i, c, v)
    OBVIOUS
  <2>2. UNCHANGED <<live, leaving>>
    BY <1>8 DEF Execute
  <2>3. N \in Seq(Frames) /\ CoreEffect(N) /\ \A n \in DOMAIN N : IsNotice(N[n])
    BY <1>0, <1>8, <2>1, <2>2, ValueEffect
  <2>4. PICK answer : answer = <<Done(Asked, TRUE)>>
    OBVIOUS
  <2> QED
    BY <1>8, <2>1, <2>3, <2>4, ExecuteTracked, OneAnswer
<1>9. \A i \in live, c \in ContextSet : (~values[i][c]) \in BOOLEAN
  BY <1>0, WriteTypes DEF CoreTypes
<1>10. CASE WriteStateCommand
  BY <1>1, <1>8, <1>9, <1>10, AskedTypes DEF WriteStateCommand
<1>11. CASE OtherCommand
  BY <1>1, <1>8, <1>9, <1>11 DEF OtherCommand, ContextSet
<1>12. ASSUME NEW selector, selector # "registry", NEW rows, rows \subseteq live, NEW g \in BOOLEAN,
              Execute(selector, <<Done(Asked, TRUE)>>, GroupFrames(rows, g)), Regroup(rows, g),
              watched' = watched
       PROVE  RegistryInv'
  <2>1. PICK N : N = GroupFrames(rows, g)
    OBVIOUS
  <2>2. UNCHANGED <<live, leaving>> /\ reply = << >>
    BY <1>12 DEF Execute
  <2>3. CoreEffect(N)
    BY <1>0, <1>12, <2>1, <2>2, RegroupEffect
  <2>4. N \in Seq(Frames) /\ \A n \in DOMAIN N : IsNotice(N[n])
    <3>1. rows \subseteq Instances
      BY <1>0, <1>12 DEF CoreTypes
    <3> QED
      BY <1>0, <2>1, <3>1, NoticeTypes, Notices DEF Mute
  <2>5. PICK answer : answer = <<Done(Asked, TRUE)>>
    OBVIOUS
  <2> QED
    BY <1>12, <2>1, <2>3, <2>4, <2>5, ExecuteTracked, OneAnswer
<1>13. CASE GroupBanks
  BY <1>1, <1>12, <1>13 DEF GroupBanks
<1>14. CASE UngroupBanks
  <2>1. CASE Asked.target \in grouped \cap live
    BY <1>12, <1>14, <2>1 DEF UngroupBanks
  <2>2. CASE Asked.target \notin grouped \cap live
    <3>1. (Asked.target \in grouped \cap live) = FALSE
      BY <2>2
    <3> QED
      BY <1>1, <1>14, <3>1 DEF UngroupBanks
  <2> QED
    BY <2>1, <2>2
<1>15. CASE SendReply
  BY <1>0, <1>15, SendReplyTracked, Tails DEF SendReply, coreVars, CoreTypes, RegistryInv,
     CoreFacts
<1> QED
  BY <1>2, <1>3, <1>4, <1>5, <1>6, <1>7, <1>10, <1>11, <1>13, <1>14, <1>15, <1>16
  DEF Worker

\* A step of the world around, with what it announces.
LEMMA NotifiedTracked ==
  ASSUME CoreTypes, RegistryInv, UNCHANGED <<inbox, reply, editor>>, CoreFacts',
         NEW N \in Seq(Frames), frames' = frames \o N, \A n \in DOMAIN N : IsNotice(N[n]),
         CoreEffect(N)
  PROVE  RegistryInv'
<1>1. inbox \in Seq(Commands) /\ reply = reply \o << >> /\ << >> \in Seq(Frames)
  BY DEF CoreTypes
<1>2. inbox # << >> => Tail(inbox) # inbox
  BY <1>1
<1>3. Runs(<< >>) /\ ~Answering
  BY <1>2 DEF Runs, Answering
<1>4. Tracks(editor, inbox, frames)'
  BY <1>1, <1>3, CoreTracked
<1> QED
  BY <1>4 DEF RegistryInv

\* Announcements, and the steps of the other editors, the instances and a restore.
LEMMA WorldTracked ==
  ASSUME IInv, RegistryInv,
         Announce \/ WriteElsewhere \/ RegroupElsewhere \/ RegisterInstance
           \/ UnregisterInstance \/ RestorePersistence
  PROVE  RegistryInv'
<1>0. /\ CoreTypes /\ (reply = << >> => watched # "registering")
      /\ \A p \in Peers : leaving[p].stage # "present" => p \notin live
      /\ CoreFacts /\ frames \in Seq(Frames)
  BY DEF IInv, CoreTypes, RegistryInv, CoreFacts
<1>1. CASE Announce
  BY <1>0, <1>1, AnnounceEffect, NotifiedTracked DEF Announce, ReadRevision, AdvanceRevision,
     SendRemoval, CoreTypes, CoreFacts
<1>2. ASSUME NEW i \in live, NEW c \in ContextSet,
             frames' = frames \o ValueFrames(i, c, ~values[i][c]),
             UNCHANGED <<live, grouped, leaving, revision, watched, inbox, reply, editor>>
      PROVE  RegistryInv'
  BY <1>0, <1>2, WriteTypes, ValueEffect, NotifiedTracked DEF CoreTypes, CoreFacts
<1>3. CASE WriteElsewhere
  BY <1>2, <1>3 DEF WriteElsewhere, ContextSet
<1>4. CASE RegroupElsewhere
  <2>1. PICK rows \in SUBSET live, g \in BOOLEAN :
          /\ reply = << >> /\ Regroup(rows, g) /\ frames' = frames \o GroupFrames(rows, g)
          /\ UNCHANGED <<live, watched, leaving, inbox, reply, editor>>
    BY <1>4 DEF RegroupElsewhere
  <2>2. PICK N : N = GroupFrames(rows, g)
    OBVIOUS
  <2>3. CoreEffect(N)
    BY <1>0, <2>1, <2>2, RegroupEffect
  <2>4. N \in Seq(Frames) /\ \A n \in DOMAIN N : IsNotice(N[n])
    <3>1. rows \subseteq Instances
      BY <1>0 DEF CoreTypes
    <3> QED
      BY <1>0, <2>2, <3>1, NoticeTypes, Notices DEF Mute
  <2>5. CoreFacts'
    BY <1>0, <2>1 DEF CoreFacts
  <2> QED
    BY <1>0, <2>1, <2>2, <2>3, <2>4, <2>5, NotifiedTracked
<1>5. CASE RegisterInstance
  <2>1. PICK p \in Peers \ live :
          /\ watched # "registering" /\ leaving[p] = Present
          /\ live' = live \cup {p} /\ revision' = revision + 1
          /\ frames' = IF watched = "yes"
                       THEN Append(frames, Delta(revision, revision + 1, p, "added", Row(p)))
                       ELSE frames
          /\ UNCHANGED <<grouped, watched, leaving, inbox, reply, editor>>
    BY <1>5 DEF RegisterInstance, GateFree
  <2>2. PICK d : d = Delta(revision, revision + 1, p, "added", Row(p))
    OBVIOUS
  <2>3. PICK N : N = IF watched = "yes" THEN <<d>> ELSE << >>
    OBVIOUS
  <2>4. Mute(<<d>>)
    <3>1. p \in Instances
      BY DEF Instances
    <3> QED
      BY <1>0, <2>2, <3>1, NoticeTypes
  <2>5. d \in Frames /\ IsNotice(d)
    <3>1. <<d>>[1] = d /\ 1 \in DOMAIN <<d>>
      OBVIOUS
    <3> QED
      BY <2>2, <2>4, <3>1 DEF Mute, Delta, IsNotice
  <2>6. N \in Seq(Frames) /\ frames' = frames \o N /\ \A n \in DOMAIN N : IsNotice(N[n])
    BY <1>0, <2>1, <2>2, <2>3, <2>5, OneFrame
  <2>7. CoreEffect(N)
    BY <1>0, <2>1, <2>2, <2>3, RegisterEffect
  <2>8. CoreFacts'
    BY <1>0, <2>1 DEF CoreFacts, Present
  <2> QED
    BY <1>0, <2>1, <2>6, <2>7, <2>8, NotifiedTracked
<1>6. CASE UnregisterInstance
  <2>1. PICK p \in Peers \cap live :
          /\ watched # "registering" /\ live' = live \ {p}
          /\ leaving' = [leaving EXCEPT ![p].stage = "removed"]
          /\ UNCHANGED <<grouped, watched, revision, inbox, reply, frames, editor>>
    BY <1>6 DEF UnregisterInstance, GateFree
  <2>2. CoreEffect(<< >>)
    BY <1>0, <2>1, UnregisterEffect
  <2>3. /\ << >> \in Seq(Frames) /\ frames' = frames \o << >>
        /\ \A n \in DOMAIN << >> : IsNotice(<< >>[n])
    BY <1>0, <2>1
  <2>4. \A o \in Peers : o # p => leaving'[o] = leaving[o]
    BY <1>0, <2>1 DEF CoreTypes
  <2>5. CoreFacts'
    BY <1>0, <2>1, <2>4 DEF CoreFacts
  <2> QED
    BY <1>0, <2>1, <2>2, <2>3, <2>5, NotifiedTracked
<1>7. CASE RestorePersistence
  <2>1. Own \in live
    BY <1>0 DEF CoreTypes
  <2> QED
    BY <1>2, <1>7, <2>1 DEF RestorePersistence, ContextSet
<1> QED
  BY <1>1, <1>3, <1>4, <1>5, <1>6, <1>7

\* The flag of a restore.
LEMMA RestoreReturnsTracked ==
  ASSUME IInv, RegistryInv, RestoreReturns
  PROVE  RegistryInv'
<1>1. PICK e, v, b, fs, s : /\ e = editor /\ v = editor' /\ b = inbox
                            /\ fs = frames /\ s = frames \o reply
  OBVIOUS
<1>2. /\ UNCHANGED <<live, grouped, watched, revision, leaving, inbox, reply, frames>>
      /\ v = [e EXCEPT !.restored = TRUE]
  BY <1>1 DEF RestoreReturns
<1>3. Same(e, v, {"registry", "owner", "active", "pending"})
  <2>1. Shaped(e, EditorFields)
    BY <1>1 DEF IInv, EditorTypes
  <2> QED
    BY <1>2, <2>1 DEF Shaped, EditorFields, Same
<1>4. /\ v.registry = e.registry /\ v.owner = e.owner /\ v.active = e.active
      /\ v.pending = e.pending
  BY <1>3 DEF Same
<1>5. /\ ClientTypes(e.registry) /\ Connections(e) /\ Watching(e, b, s) /\ Informed(e, b, fs)
      /\ FetchPending(e.registry) => e.registry.fetch.request \notin PendingIds(e)
  BY <1>1 DEF RegistryInv, Tracks
<1>7. Informed(v, b, fs)
  BY <1>4, <1>5 DEF Informed
<1>9. Informed(v, b, fs)'
  BY <1>2, <1>7
  DEF Informed, Answered, Trusted, Departs, Right, LastTells, Holds, Tells, Leaves, Row
<1>10. CoreFacts'
  BY <1>2 DEF RegistryInv, CoreFacts
<1> QED
  BY <1>1, <1>2, <1>4, <1>5, <1>9, <1>10 DEF RegistryInv, Tracks, Connections, Watching,
     PendingIds

-----------------------------------------------------------------------------
(* The editor's steps.                                                     *)

\* The commands that are left have their order, and nothing else is behind the frames.
LEMMA SentFacts ==
  ASSUME NEW less \in Seq(Commands), NEW N \in Seq(Frames), NEW box \in Seq(Commands), NEW J,
         J \in SUBSET (DOMAIN box), Posted(less, N, box, J), NEW r, NEW s
  PROVE  LET q == r.fetch.request
         IN  /\ Within(less, box)
             /\ q \notin Ids(box) => \A n \in DOMAIN N : ~Has(N[n], q)
             /\ Requested(r, box, s) =>
                  \/ Requested(r, less, s) /\ \A n \in DOMAIN N : ~Has(N[n], q)
                  \/ q \notin Ids(less) /\ \E n \in DOMAIN N : Has(N[n], q)
             /\ \A i : (\A m, n \in DOMAIN box : box[n].request = i /\ m > n => ~IsClosing(box[m]))
                         => \A m, n \in DOMAIN less : less[n].request = i /\ m > n
                                                         => ~IsClosing(less[m])
<1> DEFINE q == r.fetch.request
<1>1. /\ DOMAIN less = 1..Len(less) /\ DOMAIN box \subseteq Nat
      /\ \A n \in DOMAIN box : "request" \in DOMAIN box[n]
      /\ \A n \in DOMAIN less : "request" \in DOMAIN less[n]
  BY DEF Commands
<1>2. PICK o \in [1..Len(less) -> J] :
        /\ \A n \in 1..Len(less) : less[n] = box[o[n]]
        /\ \A m, n \in 1..Len(less) : m < n => o[m] < o[n]
        /\ \A j \in J : \E n \in 1..Len(less) : o[n] = j
  BY DEF Posted, Picks
<1>3. /\ \A n \in DOMAIN less : o[n] \in DOMAIN box /\ less[n] = box[o[n]] /\ n \in Nat
      /\ \A m, n \in DOMAIN less : m > n => o[m] > o[n]
      /\ \A m, n \in DOMAIN less : o[m] = o[n] => m = n
  BY <1>1, <1>2
<1>4. /\ \A n \in DOMAIN N : \E m \in DOMAIN box \ J : box[m].request = N[n].request
      /\ \A m \in DOMAIN box \ J : \E n \in DOMAIN N : Has(N[n], box[m].request)
  BY DEF Posted, Has
<1> HIDE DEF q
<1>5. Within(less, box)
  BY <1>3 DEF Within
<1>6. /\ \A b : q \in Ids(b) => \E n \in DOMAIN b : b[n].request = q
      /\ \A n \in DOMAIN box : box[n].request = q => q \in Ids(box)
  BY <1>1 DEF Ids
<1>7. q \notin Ids(box) => \A n \in DOMAIN N : ~Has(N[n], q)
  BY <1>4, <1>6 DEF Has
<1>8. ASSUME Requested(r, box, s)
      PROVE  \/ Requested(r, less, s) /\ \A n \in DOMAIN N : ~Has(N[n], q)
             \/ q \notin Ids(less) /\ \E n \in DOMAIN N : Has(N[n], q)
  <2>1. PICK j \in DOMAIN box : /\ box[j].selector = "registry" /\ box[j].request = q
                                /\ \A m \in DOMAIN box : box[m].request = q => m = j
    BY <1>8 DEF Requested, q
  <2>2. CASE j \in J
    <3>1. PICK n \in DOMAIN less : o[n] = j
      BY <2>2, <1>1, <1>2
    <3>2. /\ less[n].selector = "registry" /\ less[n].request = q
          /\ \A m \in DOMAIN less : less[m].request = q => m = n
      BY <3>1, <2>1, <1>3
    <3>3. Requested(r, less, s)
      BY <1>8, <3>2 DEF Requested, q
    <3>4. \A n_1 \in DOMAIN N : ~Has(N[n_1], q)
      BY <2>1, <2>2, <1>4 DEF Has
    <3> QED
      BY <3>3, <3>4
  <2>3. CASE j \notin J
    <3>1. \E n \in DOMAIN N : Has(N[n], q)
      BY <2>1, <2>3, <1>4
    <3>2. \A n \in DOMAIN less : less[n].request # q
      BY <2>1, <2>3, <1>1, <1>2, <1>3
    <3> QED
      BY <3>1, <3>2, <1>6
  <2> QED
    BY <2>2, <2>3
<1>9. ASSUME NEW i, \A m, n \in DOMAIN box : box[n].request = i /\ m > n => ~IsClosing(box[m]),
             NEW m \in DOMAIN less, NEW n \in DOMAIN less, less[n].request = i, m > n
      PROVE  ~IsClosing(less[m])
  BY <1>3, <1>9
<1> QED
  BY <1>5, <1>7, <1>8, <1>9 DEF q

\* The rest of the commands joins those on their way: if the request of the snapshot is
\* refused, the error is on its way.
LEMMA SendsTracked ==
  ASSUME CoreTypes, CoreFacts, NEW e, EditorTypes(e), NEW rest, Tracked(e, rest),
         NEW d, SendsAfter(d, e, rest)
  PROVE  RegistryInv'
<1>0. rest \in Seq(Frames)
  BY DEF Tracked, Covers
<1>1. /\ UNCHANGED coreVars /\ reply' = reply /\ inbox' \in Seq(Commands)
      /\ Same(e, editor', EditorFields \ {"out", "used"}) /\ Box(e) \in Seq(Commands)
  BY <1>0, SentParts
<1>2. PICK N \in Seq(Frames), J \in SUBSET (DOMAIN Box(e)) :
         Posted(inbox', N, Box(e), J) /\ frames' = rest \o N
  BY <1>0, SentParts
<1>3. PICK box, less, v, y : box = Box(e) /\ less = inbox' /\ v = editor' /\ y = reply
  OBVIOUS
<1> DEFINE r == e.registry
           q == r.fetch.request
           s == rest \o y
           t == (rest \o N) \o (y \o << >>)
<1>4. /\ v.owner = e.owner /\ v.active = e.active /\ v.registry = e.registry
      /\ v.pending = e.pending
  BY <1>1, <1>3 DEF Same, EditorFields
<1>5. /\ ClientTypes(r) /\ (FetchPending(r) => q \notin PendingIds(e))
      /\ Connections(e) /\ Watching(e, box, s) /\ Informed(e, box, rest)
  BY <1>3 DEF Tracked, Tracks
<1>6. /\ Within(less, box)
      /\ q \notin Ids(box) => \A n \in DOMAIN N : ~Has(N[n], q)
      /\ Requested(r, box, s) =>
           \/ Requested(r, less, s) /\ \A n \in DOMAIN N : ~Has(N[n], q)
           \/ q \notin Ids(less) /\ \E n \in DOMAIN N : Has(N[n], q)
      /\ \A i : (\A m, n \in DOMAIN box : box[n].request = i /\ m > n => ~IsClosing(box[m]))
                  => \A m, n \in DOMAIN less : less[n].request = i /\ m > n => ~IsClosing(less[m])
  <2> HIDE DEF s
  <2>1. /\ less \in Seq(Commands) /\ box \in Seq(Commands) /\ J \in SUBSET (DOMAIN box)
        /\ Posted(less, N, box, J)
    BY <1>1, <1>2, <1>3
  <2> QED
    BY <2>1, SentFacts, Zenon
<1>7. /\ y \in Seq(Frames) /\ << >> \in Seq(Frames) /\ y = reply /\ reply' = reply \o << >>
      /\ y \o << >> = reply' /\ \A n \in DOMAIN << >> : FALSE
  BY <1>1, <1>3 DEF CoreTypes
<1>8. PICK o : Moves(o, s, Len(rest), t, N, << >>)
  BY <1>0, <1>7, StreamGrows
<1>9. \A n \in DOMAIN N : N[n].selector = "error"
  BY <1>2 DEF Posted
<1> HIDE DEF s, t, q
<1>10. /\ \A m \in DOMAIN t : (\E n \in DOMAIN s : t[m] = s[n]) \/ \E n \in DOMAIN N : t[m] = N[n]
       /\ \A n \in DOMAIN s : \E m \in DOMAIN t : t[m] = s[n]
  BY <1>7, <1>8 DEF Moves
<1>11. Watching(v, less, t)
  <2>1. NoClosing(box) => NoClosing(less)
    BY <1>6, Zenon DEF NoClosing, Within
  <2>2. ASSUME NEW p \in e.pending, e.owner, Counts(p), NEW n \in DOMAIN t,
               t[n].selector = "action_done", t[n].request = p.request
        PROVE  NoClosing(less)
    <3>1. PICK m \in DOMAIN s : t[n] = s[m]
      BY <1>9, <1>10, <2>2
    <3> QED
      BY <1>5, <2>1, <2>2, <3>1 DEF Watching
  <2> QED
    BY <1>4, <1>5, <1>6, <2>1, <2>2 DEF Watching
<1>12. Connections(v) /\ PendingIds(v) = PendingIds(e)
  BY <1>4, <1>5 DEF Connections, PendingIds
<1>13. CoreEffect(N) /\ \A i : Keeps(i, N)
  BY <1>1, <1>9, QuietEffect DEF coreVars
<1>14. ASSUME e.active, FetchPending(r)
       PROVE  \/ Requested(r, less, t) \/ Refused(r, less, t)
              \/ Answered(r, less, rest \o N)'
  <2>1. ASSUME \A n \in DOMAIN N : ~Has(N[n], q)
        PROVE  /\ Refused(r, box, s) => Refused(r, less, t)
               /\ Requested(r, box, s) /\ Requested(r, less, s) => Requested(r, less, t)
    BY <1>0, <1>6, <1>7, <2>1, FetchGrows DEF s, t, q
  <2>2. CASE Requested(r, box, s)
    <3>1. CASE Requested(r, less, s) /\ \A n \in DOMAIN N : ~Has(N[n], q)
      BY <2>1, <2>2, <3>1
    <3>2. CASE q \notin Ids(less) /\ \E n \in DOMAIN N : Has(N[n], q)
      <4>1. \A n \in DOMAIN s : ~Has(s[n], q)
        BY <2>2 DEF Requested, Ids, Has, q
      <4>2. \A m \in DOMAIN t : Has(t[m], q) => t[m].selector = "error"
        BY <1>9, <1>10, <4>1
      <4>3. PICK n \in DOMAIN N : Has(N[n], q)
        BY <3>2
      <4>4. \E m \in DOMAIN t : t[m] = N[n]
        <5>1. (rest \o N)[Len(rest) + n] = N[n] /\ Len(rest) + n \in DOMAIN (rest \o N)
          BY <1>0, Joins
        <5> QED
          BY <1>0, <1>7, <5>1, Joins DEF t
      <4> QED
        BY <3>2, <4>2, <4>3, <4>4 DEF Refused, q
    <3> QED
      BY <1>6, <2>2, <3>1, <3>2
  <2>3. CASE Refused(r, box, s)
    <3>1. q \notin Ids(box)
      BY <2>3 DEF Refused, q
    <3> QED
      BY <1>6, <2>1, <2>3, <3>1
  <2>4. CASE Answered(r, box, rest)
    <3>1. q \notin Ids(box) /\ r.required \in Nat
      BY <1>5, <2>4 DEF Answered, q, ClientTypes
    <3>2. q \notin Ids(less)
      BY <1>6, <3>1 DEF Ids, Within
    <3>3. Answered(r, less, rest \o N)'
      BY <1>0, <1>6, <1>7, <1>13, <2>4, <3>1, <3>2, AnsweredGrows DEF q
    <3> QED
      BY <3>3
  <2> QED
    BY <1>3, <1>5, <1>14, <2>2, <2>3, <2>4 DEF Informed, s
<1>15. ASSUME e.active, ~FetchPending(r)
       PROVE  /\ r.ready /\ watched' = "yes"
              /\ \A i \in Instances : Right(rest \o N, 0, RowsOf(r.instances), i)'
  BY <1>0, <1>1, <1>5, <1>13, <1>15, RightGrows DEF Informed, coreVars
<1>16. Informed(editor, inbox, frames)'
  BY <1>2, <1>3, <1>4, <1>7, <1>14, <1>15 DEF Informed, t
<1>17. Watching(editor, inbox, frames \o reply)'
  BY <1>2, <1>3, <1>7, <1>11 DEF t
<1>18. CoreFacts'
  BY <1>1 DEF CoreFacts, coreVars
<1> QED
  BY <1>3, <1>4, <1>5, <1>12, <1>16, <1>17, <1>18 DEF RegistryInv, Tracks, q

\* Between its handlers the editor has sent all, and collects the ids in use.
LEMMA ReadyTracked ==
  ASSUME IInv, RegistryInv
  PROVE  Tracked(Ready, frames)
<1>1. /\ Settled(Ready) /\ Ready.out = << >> /\ Same(editor, Ready, EditorFields \ {"used"})
      /\ CoreTypes /\ Shaped(editor, EditorFields)
  BY ReadySettled DEF IInv, EditorTypes
<1>2. /\ Ready.used = InUse /\ Ready.owner = editor.owner
      /\ Ready.active = editor.active /\ Ready.registry = editor.registry
      /\ Ready.pending = editor.pending
  <2>1. Ready.used = InUse
    BY <1>1, Zenon DEF Shaped, EditorFields, Ready
  <2> QED
    BY <1>1, <2>1 DEF Same, EditorFields
<1>3. Box(Ready) = inbox
  BY <1>1 DEF CoreTypes, Box
<1>4. Covers(Ready, frames)
  BY <1>1, <1>2 DEF Covers, PendingIds, InUse, CoreTypes
<1>5. Tracks(Ready, inbox, frames)
  <2>1. PendingIds(Ready) = PendingIds(editor)
    BY <1>2 DEF PendingIds
  <2> QED
    BY <1>2, <2>1 DEF RegistryInv, Tracks, Informed, Connections, Watching
<1> QED
  BY <1>3, <1>4, <1>5 DEF Tracked

\* Another editor becomes the active one: the session is not active afterwards, and has no
\* attempt to connect that counts.
LEMMA AnotherEditorTracked ==
  ASSUME IInv, RegistryInv, AnotherEditorActivates
  PROVE  RegistryInv'
<1> DEFINE w == Deactivated(editor)
<1>1. PICK e, v, box, less, fs : /\ e = editor /\ v = editor' /\ box = inbox /\ less = inbox'
                                 /\ fs = frames
  OBVIOUS
<1>2. /\ UNCHANGED <<coreVars, reply, frames>> /\ v = IF e.owner THEN w ELSE e
  BY <1>1 DEF AnotherEditorActivates
<1>3. /\ Shaped(editor, EditorFields) /\ ClientTypes(e.registry) /\ Connections(e)
      /\ Watching(e, box, fs \o reply) /\ Shaped(e, EditorFields)
      /\ FetchPending(e.registry) => e.registry.fetch.request \notin PendingIds(e)
  BY <1>1 DEF IInv, EditorTypes, RegistryInv, Tracks
<1>4. /\ v.active = FALSE /\ v.owner = FALSE /\ v.registry = e.registry
      /\ PendingIds(v) = PendingIds(e) /\ \A p \in v.pending : Counts(p) => p \in e.pending
  <2>1. CASE ~e.owner
    <3>1. e.active = FALSE /\ e.owner = FALSE
      BY <1>1, <1>3, <2>1 DEF Watching, IInv, EditorTypes
    <3> QED
      BY <1>2, <2>1, <3>1
  <2>2. CASE e.owner
    <3>1. /\ Same(editor, w,
                  EditorFields \ {"active", "owner", "busy", "pending", "target", "analyzer"})
          /\ w.active = FALSE /\ w.owner = FALSE
          /\ w.pending = (editor.pending \ Edits(editor))
                            \cup {[p EXCEPT !.current = FALSE] : p \in Edits(editor)}
      BY <1>3, DeactivatedFacts
    <3>2. w.registry = e.registry
      BY <1>1, <3>1 DEF Same, EditorFields
    <3>3. \A p \in e.pending : [p EXCEPT !.current = FALSE].request = p.request
                               /\ [p EXCEPT !.current = FALSE].current = FALSE
      BY <1>1 DEF IInv, EditorTypes, Completions
    <3> HIDE DEF w
    <3>4. PendingIds(w) = PendingIds(e)
      BY <1>1, <3>1, <3>3 DEF PendingIds, Edits
    <3>5. \A p \in w.pending : Counts(p) => p \in e.pending
      BY <1>1, <3>1, <3>3 DEF Counts, Edits
    <3> QED
      BY <1>2, <2>2, <3>1, <3>2, <3>4, <3>5
  <2> QED
    BY <2>1, <2>2
<1>5. Connections(v)
  BY <1>3, <1>4 DEF Connections
<1>6. Watching(v, less, fs \o reply) /\ Informed(v, less, fs)'
  BY <1>4 DEF Watching, Informed
<1>7. CoreFacts'
  BY <1>2 DEF RegistryInv, CoreFacts, coreVars
<1> QED
  BY <1>1, <1>2, <1>3, <1>4, <1>5, <1>6, <1>7 DEF RegistryInv, Tracks

\* What the editor does.
LEMMA EditorTracked ==
  ASSUME IInv, RegistryInv,
         TakeFrame \/ TakeRestored \/ Open \/ Reopen \/ Refocus \/ RefocusAgain
           \/ AnotherEditorActivates \/ UserActs
  PROVE  RegistryInv'
<1>1. CoreTypes /\ CoreFacts /\ frames \in Seq(Frames) /\ EditorTypes(editor)
  BY DEF IInv, CoreTypes, RegistryInv
<1>2. /\ Settled(Ready) /\ Loose(Ready) /\ Tracked(Ready, frames) /\ Shaped(Ready, EditorFields)
      /\ Ready.owner = editor.owner /\ Ready.active = editor.active
      /\ Ready.busy = editor.busy /\ editor.active \in BOOLEAN /\ Ready.out = << >>
  BY <1>1, ReadySettled, ReadyTracked, SettledTypes DEF Same, EditorFields, EditorTypes
<1>3. ASSUME NEW e, Settled(e), NEW fs, Tracked(e, fs), NEW d, SendsAfter(d, e, fs)
      PROVE  RegistryInv'
  BY <1>1, <1>3, SendsTracked DEF Settled, Loose
<1>4. CASE TakeFrame
  BY <1>1, <1>2, <1>3, <1>4, Tails, HandleOutputSettled, HandleOutputTracked DEF TakeFrame, Sends,
     Told, ToldIn
<1>5. CASE TakeRestored
  <2> DEFINE r == [Ready EXCEPT !.restored = FALSE]
  <2>1. SendsAfter(0, Observe(r), frames)
    BY <1>5 DEF TakeRestored, Sends
  <2>2. Shaped(r, EditorFields) /\ Same(Ready, r, EditorFields \ {"restored"}) /\ r.restored = FALSE
    BY <1>2, Zenon DEF Shaped, Same, EditorFields
  <2> HIDE DEF r
  <2>3. Settled(r)
    BY <1>2, <2>2, SettledTypes, AsideSettled DEF Same, EditorFields
  <2>4. Further(Ready, r) /\ Loose(r)
    BY <2>2, <2>3, FurtherAside DEF Same, EditorFields, Settled
  <2>5. Settled(Observe(r)) /\ Further(r, Observe(r))
    BY <1>1, <2>4, ObserveSettled, ObserveFurther
  <2>6. Tracked(Observe(r), frames)
    BY <1>2, <2>4, <2>5, FurtherBoth, FurtherTracked
  <2> QED
    BY <1>3, <2>1, <2>5, <2>6
<1>6. CASE Open
  <2>1. SendsAfter(0, Initialize(Ready), frames)
    BY <1>6 DEF Open, Sends
  <2> QED
    BY <1>1, <1>2, <1>3, <2>1, InitializeSettled, InitializeTracked
<1>7. CASE Reopen
  <2>1. SendsAfter(1, Close(Ready), << >>)
    BY <1>7 DEF Reopen
  <2> QED
    BY <1>1, <1>2, <1>3, <2>1, CloseSettled, CloseTracked
<1>8. CASE Refocus \/ RefocusAgain
  BY <1>1, <1>2, <1>3, <1>8, ActivateSettled, ActivateTracked DEF Refocus, RefocusAgain, Sends
<1>9. CASE AnotherEditorActivates
  BY <1>9, AnotherEditorTracked
<1>10. CASE UserActs
  <2>1. Editable(Ready)
    BY <1>2, <1>10 DEF UserActs, Editable
  <2>2. PICK e : Settled(e) /\ Further(Ready, e) /\ SendsAfter(0, e, frames)
    <3>1. CASE \E i \in Instances : SendsAfter(0, SelectTarget(Ready, i), frames)
      BY <1>1, <1>2, <3>1, SelectTargetSettled, UserFurther
    <3>2. CASE SendsAfter(0, ToggleScope(Ready), frames)
      BY <1>1, <1>2, <3>2, ToggleScopeSettled, UserFurther
    <3>3. CASE \E c \in ContextSet : SendsAfter(0, CommitDiscreteValue(Ready, c), frames)
      BY <1>1, <1>2, <2>1, <3>3, EditsSettled, UserFurther
    <3>4. CASE SendsAfter(0, RunCommand(Ready), frames)
      BY <1>1, <1>2, <2>1, <3>4, EditsSettled, UserFurther
    <3>5. CASE \E i, j \in Instances : SendsAfter(0, GroupSelectedBanks(Ready, i, j), frames)
      BY <1>1, <1>2, <2>1, <3>5, EditsSettled, UserFurther
    <3>6. CASE SendsAfter(0, UngroupFocusedBank(Ready), frames)
      BY <1>1, <1>2, <2>1, <3>6, EditsSettled, UserFurther
    <3> QED
      BY <1>10, <3>1, <3>2, <3>3, <3>4, <3>5, <3>6 DEF UserActs, Sends, ContextSet
  <2> QED
    BY <1>2, <1>3, <2>2, FurtherTracked
<1> QED
  BY <1>4, <1>5, <1>6, <1>7, <1>8, <1>9, <1>10

\* At first nothing of the registry is known, and nothing is on its way.
LEMMA InitRegistryInv == Init => RegistryInv
<1> SUFFICES ASSUME Init PROVE RegistryInv
  OBVIOUS
<1>1. /\ watched = "no" /\ leaving = [p \in Peers |-> Present] /\ inbox = << >>
      /\ reply = << >> /\ editor = NewEditor
  BY DEF Init
<1>2. CoreFacts
  BY <1>1 DEF CoreFacts, Present
<1>3. /\ editor.registry = NewRegistry /\ editor.active = FALSE /\ editor.pending = {}
  BY <1>1 DEF NewEditor
<1>4. ClientTypes(editor.registry) /\ ~FetchPending(editor.registry)
  BY <1>3 DEF ClientTypes, NewRegistry, Shaped, RegistryFields, RowsTypes, NoRows, FetchPending
<1>5. \A n \in DOMAIN inbox : FALSE
  BY <1>1
<1>6. Connections(editor) /\ Watching(editor, inbox, frames \o reply)
  BY <1>3, <1>5 DEF Connections, Watching, NoClosing
<1> QED
  BY <1>2, <1>3, <1>4, <1>6 DEF RegistryInv, Tracks, Informed

\* Every step keeps what is known of the registry.
LEMMA StepRegistryInv == IInv /\ RegistryInv /\ [Next]_vars => RegistryInv'
<1>1. ASSUME IInv, UNCHANGED vars, RegistryInv PROVE RegistryInv'
  BY <1>1, NothingEffect, NotifiedTracked DEF vars, coreVars, RegistryInv, CoreFacts, IInv
<1> QED
  BY <1>1, WorkerTracked, WorldTracked, RestoreReturnsTracked, EditorTracked DEF Next, Host

-----------------------------------------------------------------------------
(* Theorems.                                                               *)

\* The initial states satisfy the invariant.
LEMMA InitInv == Init => IInv
<1> SUFFICES ASSUME Init PROVE IInv
  OBVIOUS
<1>1. PICK others \in SUBSET Peers : live = others \cup {Own}
  BY DEF Init
<1>2. /\ grouped = {} /\ values = [i \in Instances |-> [c \in ToSet(Contexts) |-> FALSE]]
      /\ selection = Own /\ watched = "no" /\ revision = 0
      /\ leaving = [p \in Peers |-> Present] /\ restore = "none"
      /\ inbox = << >> /\ reply = << >> /\ frames = << >> /\ editor = NewEditor
  BY DEF Init
<1>3. CoreTypes
  BY <1>1, <1>2 DEF Present, Stages, ContextSet, CoreTypes, Instances
<1>4. Shaped(editor, EditorFields)
  BY <1>2, Zenon DEF Shaped, EditorFields, NewEditor
<1>5. /\ editor.unopened = TRUE /\ editor.initialized = FALSE /\ editor.active = FALSE
      /\ editor.owner = FALSE /\ editor.busy = TRUE /\ editor.focus = Own
      /\ editor.scope = FALSE /\ editor.pending = {} /\ editor.target = NewTargetState(Own)
      /\ editor.restored = FALSE /\ editor.used = {} /\ editor.out = << >>
  BY <1>2 DEF NewEditor
<1>6. /\ Shaped(editor.target, TargetFields) /\ editor.target.target = Own
      /\ editor.target.requests = << >>
  <2>1. editor.target = NewTargetState(Own)
    BY <1>5
  <2> QED
    BY <2>1, NewTarget, Zenon
<1>7. EditorTypes(editor)
  <2>1. Own \in Instances /\ DOMAIN editor.target.requests = {} /\ editor.out \in Seq(Commands)
    BY <1>5, <1>6 DEF Instances
  <2>2. TargetTypes(editor.target)
    BY <1>6, <2>1, FS_EmptySet DEF TargetTypes
  <2>3. editor.pending \subseteq Completions /\ IsFiniteSet(editor.pending)
    BY <1>5, FS_EmptySet
  <2> QED
    BY <1>4, <1>5, <2>1, <2>2, <2>3 DEF EditorTypes
<1>8. Landing(inbox, Told, selection, editor.target)
  BY <1>5, LandingForgets
<1>9. Writes(inbox, selection)
  BY <1>2 DEF Writes
<1>10. Sure(editor)
  BY <1>5 DEF Sure
<1> QED
  BY <1>3, <1>5, <1>7, <1>8, <1>9, <1>10 DEF IInv

\* Every step keeps the invariant.
LEMMA StepInv == IInv /\ [Next]_vars => IInv'
<1> SUFFICES ASSUME IInv, [Next]_vars PROVE IInv'
  OBVIOUS
<1>1. CASE UNCHANGED vars
  BY <1>1 DEF vars, coreVars, IInv, CoreTypes, Told
<1>2. CASE Next
  BY <1>2, WorkerKeeps, AnnounceKeeps, RestoreReturnsKeeps, WorldKeeps, TakeFrameKeeps, EditorKeeps
     DEF Next, Host
<1> QED
  BY <1>1, <1>2

\* The invariant of the editor, the commands on their way and the bank the core looks at.
THEOREM Invariance == Spec => []IInv
BY InitInv, StepInv, PTL DEF Spec

\* A value the user commits is written to the bank it was committed on: however commands,
\* refusals and changes of focus mix, the core has not turned to another bank by then.
THEOREM EditsLand == Spec => []EditsLandOnFocus
<1>1. IInv => EditsLandOnFocus
  BY Tails DEF EditsLandOnFocus, IInv, CoreTypes, Writes
<1> QED
  BY <1>1, Invariance, PTL

EditsSure ==
    Editable(editor) =>
      /\ editor.target.ready /\ editor.target.target = editor.focus
      /\ selection = editor.focus
      /\ \A n \in DOMAIN inbox : Asks(inbox[n]) => inbox[n].target = editor.focus

\* An editor that lets the user edit (EditorPresentation::SetBusy) has the values of the
\* bank in focus, the core looks at that bank, and no command on its way turns it elsewhere.
THEOREM EditorKnows == Spec => []EditsSure
<1>1. IInv => EditsSure
  BY DEF EditsSure, IInv, Sure, Editable, Landing, Turned
<1> QED
  BY <1>1, Invariance, PTL

\* RegistryClient::Handle and the core's notifications together, at every moment: a client
\* that waits has its request ahead of it, or a refusal, or an answer that is right when its
\* last frame arrives or is then refused as too old; one that does not wait has rows which
\* the deltas on their way make the core's.
THEOREM RegistryTracked == Spec => []RegistryInv
<1>1. Spec => []IInv
  BY Invariance
<1> QED
  BY <1>1, InitRegistryInv, StepRegistryInv, PTL DEF Spec

\* RegistryCurrent: once every command is answered, every frame taken and every removal
\* announced, the registry an active editor shows is the core's, whichever deltas crossed
\* a snapshot or each other, and whatever was refused in between.
THEOREM RegistryKnown == Spec => []RegistryCurrent
<1>1. IInv /\ RegistryInv => RegistryCurrent
  <2> SUFFICES ASSUME IInv, RegistryInv, Drained, Announced, editor.active
               PROVE  /\ editor.registry.ready
                      /\ editor.registry.instances = [i \in live |-> Row(i)]
    BY DEF RegistryCurrent
  <2>1. PICK r, g : r = editor.registry /\ g = r.instances
    OBVIOUS
  <2>2. /\ inbox = << >> /\ frames = << >> /\ reply = << >> /\ frames \o reply = << >>
        /\ live \subseteq Instances
    BY DEF Drained, IInv, CoreTypes
  <2>3. \A n \in DOMAIN << >> : FALSE
    OBVIOUS
  <2>4. Informed(editor, inbox, frames) /\ RowsTypes(g)
    BY <2>1 DEF RegistryInv, Tracks, ClientTypes
  <2>5. ~FetchPending(r)
    BY <2>1, <2>2, <2>3, <2>4 DEF Requested, Refused, Answered, Informed
  <2>6. r.ready /\ \A i \in Instances : Right(frames, 0, RowsOf(g), i)
    BY <2>1, <2>4, <2>5 DEF Informed
  <2>7. \A i \in Instances : Holds(RowsOf(g), i) /\ ~Leaves(i)
    BY <2>2, <2>3, <2>6 DEF Right, LastTells, Announced, Leaves
  <2>8. \A i \in Instances : OfInstance(RowsOf(g), i) = IF i \in DOMAIN g THEN {<<i, g[i]>>} ELSE {}
    BY RowsAre
  <2>9. \A i \in Instances : /\ i \in live <=> i \in DOMAIN g
                             /\ i \in live => g[i] = Row(i)
    <3> TAKE i \in Instances
    <3>1. Holds(RowsOf(g), i) /\ ~Leaves(i)
      BY <2>7
    <3>2. OfInstance(RowsOf(g), i) = IF i \in DOMAIN g THEN {<<i, g[i]>>} ELSE {}
      BY <2>8
    <3>3. CASE i \in live
      <4>1. OfInstance(RowsOf(g), i) = {<<i, Row(i)>>}
        BY <3>1, <3>3 DEF Holds
      <4>2. <<i, Row(i)>> \in {<<i, Row(i)>>}
        OBVIOUS
      <4>3. i \in DOMAIN g /\ <<i, g[i]>> = <<i, Row(i)>>
        BY <3>2, <4>1, <4>2
      <4> QED
        BY <3>3, <4>3
    <3>4. CASE i \notin live
      BY <3>1, <3>2, <3>4 DEF Holds
    <3> QED
      BY <3>3, <3>4
  <2>10. g = [i \in live |-> Row(i)]
    <3>1. g = [i \in DOMAIN g |-> g[i]] /\ DOMAIN g = live
      BY <2>2, <2>4, <2>9 DEF RowsTypes
    <3> QED
      BY <2>2, <2>9, <3>1
  <2> QED
    BY <2>1, <2>6, <2>10
<1> QED
  BY <1>1, Invariance, RegistryTracked, PTL
=============================================================================
