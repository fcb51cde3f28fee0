------------------------- MODULE GestureSessionProofs -------------------------
(***************************************************************************)
(* The gestures of every number of editors, with every number of gestures, *)
(* focus changes, edits, positions and refused commands.                   *)
(*                                                                         *)
(* The argument is about the order of the queue.  Only the editor that has *)
(* the focus has a gesture, so what is sent between a begin and the last   *)
(* command of its gesture is of that gesture: nothing of others can come   *)
(* between them in the queue, and the point that the begin takes is the    *)
(* current one for as long as the gesture writes.                          *)
(***************************************************************************)
EXTENDS GestureSession, FiniteSetTheorems, WellFoundedInduction, TLAPS

-----------------------------------------------------------------------------
(* The inductive invariant.                                                *)

GestureKinds == {"begin", "write", "ack", "end"}
ReplyKinds == Kinds \cup {"error", "rejected"}
Commands == [from : Editors, kind : Kinds, number : Nat, value : Val, waits : BOOLEAN]
Replies == [kind : ReplyKinds, number : Nat, ok : BOOLEAN]
Traces == [began : BOOLEAN, ended : BOOLEAN, refused : BOOLEAN, strayed : BOOLEAN,
           ackPoint : BOOLEAN, written : Val \cup {None}, kept : Val \cup {None},
           reported : BOOLEAN]

Types ==
    /\ session \in [Editors -> Sessions \cup {None}]
    /\ next \in [Editors -> Nat \ {0}]
    /\ queue \in Seq(Commands)
    /\ replies \in [Editors -> Seq(Replies)]
    /\ value \in Val
    /\ trace \in [Gestures -> Traces]
    /\ generation \in [Editors -> Nat]
    /\ active \in SUBSET Editors

Open(g) == session[g[1]] # None /\ session[g[1]].number = g[2]

\* A command of a gesture, and the commands among which it may stand.
Is(c, kind, g) == c.kind = kind /\ c.from = g[1] /\ c.number = g[2]
Of(c, g) == c.kind \in GestureKinds /\ c.from = g[1] /\ c.number = g[2]
Mine(c, g) == c.kind = "activate" \/ Of(c, g)

Waits(kind, g) == \E i \in DOMAIN queue : Is(queue[i], kind, g)
Settled(g) == ~Waits("write", g) /\ ~Waits("ack", g)

\* The focus: at most one gesture is open.
FocusInv ==
    /\ \A e \in active : current = e
    /\ \A e \in closed : e \in Editors /\ current # e
    /\ \A e \in Editors : session[e] # None => current = e

\* What has been sent of a gesture that is open.
SessionOf(e) ==
    LET s == session[e]
        g == <<e, s.number>>
    IN  /\ s.number < next[e]
        /\ s.finalSent => s.ending
        /\ s.ending => trace[g].kept = s.value
        /\ s.ending /\ ~s.finalSent => s.dirty /\ ~s.ready
        /\ s.accepted => s.finalSent /\ trace[g].written = s.value /\ Settled(g)
        /\ Waits("ack", g) \/ Waits("end", g) \/ trace[g].ended => s.finalSent
        /\ \A i \in DOMAIN queue : Is(queue[i], "ack", g) => queue[i].value = s.value
        /\ s.finalSent => \/ trace[g].refused
                          \/ Waits("ack", g)
                          \/ trace[g].written = s.value /\ Settled(g)

SessionInv == \A e \in Editors : session[e] # None => SessionOf(e)

\* The commands of a gesture wait in their order; only its end may wait twice.
Rank(kind) == CASE kind = "begin" -> 0 [] kind = "write" -> 1 [] kind = "ack" -> 2
                [] kind = "end" -> 3 [] OTHER -> 4

OrderInv ==
    \A i, j \in DOMAIN queue : \A g \in Gestures :
        i < j /\ Of(queue[i], g) /\ Of(queue[j], g) =>
            \/ Rank(queue[i].kind) < Rank(queue[j].kind)
            \/ queue[i].kind = "end" /\ queue[j].kind = "end"

\* Nothing is sent of a gesture before it begins.
FreshInv ==
    /\ \A i \in DOMAIN queue : queue[i].kind \in GestureKinds =>
          queue[i].number \in 1..MaxGestures /\ queue[i].number < next[queue[i].from]
    /\ \A e \in Editors : \A i \in DOMAIN replies[e] :
          replies[e][i].kind \in GestureKinds =>
              replies[e][i].number \in 1..MaxGestures /\ replies[e][i].number < next[e]
    /\ \A g \in Gestures : trace[g].began \/ trace[g].ended => g[2] < next[g[1]]

\* The gesture's point is the current one when the entries before i are run:
\* its begin is among them, or has taken it, and nothing of others follows.
Lead(g, i) ==
    \/ trace[g].refused
    \/ \E j \in 1..(i - 1) :
          Is(queue[j], "begin", g) /\ \A k \in (j + 1)..(i - 1) : Mine(queue[k], g)
    \/ owner = g /\ \A k \in 1..(i - 1) : Mine(queue[k], g)

LeadInv ==
    /\ \A i \in DOMAIN queue : \A g \in Gestures :
          Is(queue[i], "write", g) \/ Is(queue[i], "ack", g) => Lead(g, i)
    /\ \A e \in Editors : session[e] # None => Lead(<<e, session[e].number>>, Len(queue) + 1)

\* The acknowledgement repeats what the final write has written, or will have.
AckInv ==
    \A i \in DOMAIN queue : \A g \in Gestures : Is(queue[i], "ack", g) =>
        \/ trace[g].refused
        \/ \E j \in 1..(i - 1) : Is(queue[j], "write", g) /\ queue[j].value = queue[i].value
        \/ /\ value = queue[i].value
           /\ \A j \in 1..(i - 1) : ~Is(queue[j], "write", g) /\ ~Is(queue[j], "begin", g)

\* The end comes after the acknowledgement of the position that was kept.
EndInv ==
    /\ \A i \in DOMAIN queue : \A g \in Gestures : Is(queue[i], "end", g) =>
          \/ trace[g].refused \/ trace[g].kept = None
          \/ \E j \in 1..(i - 1) : Is(queue[j], "ack", g) /\ queue[j].value = trace[g].kept
          \/ trace[g].written = trace[g].kept /\ Settled(g)
    /\ \A g \in Gestures : trace[g].ended =>
          \/ trace[g].refused \/ trace[g].kept = None
          \/ trace[g].written = trace[g].kept /\ Settled(g)

Over(g) == trace[g].ended \/ trace[g].refused

\* What a reply says of the gesture.
ReplyOf(e, r) ==
    LET g == <<e, r.number>>
    IN  /\ r.kind = "ack" /\ Open(g) =>
              /\ session[e].finalSent
              /\ r.ok => trace[g].written = session[e].value /\ Settled(g)
        /\ r.kind = "end" => Over(g)

ReplyInv == \A e \in Editors : \A i \in DOMAIN replies[e] : ReplyOf(e, replies[e][i])

\* A gesture that is over has its end in the queue or behind it.
ClosedInv ==
    \A g \in Gestures :
        g[2] < next[g[1]] /\ ~Open(g) => Over(g) \/ Waits("end", g)

\* Its end is ahead of the begin of any later one.
ExclusiveInv ==
    \A i \in DOMAIN queue : \A g, h \in Gestures :
        /\ Is(queue[i], "begin", h) /\ g # h
        /\ trace[g].began \/ \E j \in 1..(i - 1) : Is(queue[j], "begin", g)
        => Over(g) \/ \E j \in 1..(i - 1) : Is(queue[j], "end", g)

ReportInv ==
    \A g \in Gestures : trace[g].reported =>
        /\ trace[g].written = trace[g].kept /\ Settled(g)
        /\ ~Open(g) /\ g[2] < next[g[1]]

Rules == /\ SessionInv /\ OrderInv /\ FreshInv /\ LeadInv /\ AckInv
         /\ EndInv /\ ReplyInv /\ ClosedInv /\ ExclusiveInv /\ ReportInv
         /\ OneOpenGesture /\ OnePointUnlessRefused

IInv == Types /\ FocusInv /\ Rules

-----------------------------------------------------------------------------
(* Picking commands keeps their order.                                     *)

\* Every non-empty set of naturals has a least element.
LEMMA LeastElement == ASSUME NEW T \in SUBSET Nat, T # {} PROVE \E x \in T : \A y \in T : x <= y
<1> DEFINE Below == {p \in Nat \X Nat : p[1] < p[2]}
<1>1. OpToRel(<, Nat) = Below
  BY Zenon DEF OpToRel
<1>2. IsWellFoundedOn(Below, Nat)
  BY <1>1, NatLessThanWellFounded, Zenon
<1>3. \A x, y \in Nat : y < x => <<y, x>> \in Below
  OBVIOUS
<1> HIDE DEF Below
<1>4. PICK x \in T : \A y \in T : ~(<<y, x>> \in Below)
  BY <1>2, WFMin
<1>5. \A y \in T : ~(y < x)
  <2> TAKE y \in T
  <2>1. x \in Nat /\ y \in Nat /\ ~(<<y, x>> \in Below)
    BY <1>4
  <2> QED
    BY <2>1, <1>3
<1> QED
  BY <1>5

\* A set with zero that is closed under successor has all the naturals.
LEMMA Induction ==
  ASSUME NEW S \in SUBSET Nat, 0 \in S, \A n \in S : n + 1 \in S
  PROVE  S = Nat
<1> SUFFICES ASSUME Nat \ S # {} PROVE FALSE
  OBVIOUS
<1>1. PICK x \in Nat \ S : \A y \in Nat \ S : x <= y
  BY LeastElement
<1>2. x - 1 \in S
  BY <1>1
<1> QED
  BY <1>1, <1>2

Increasing(o) == \A i, j \in DOMAIN o : i < j => o[i] < o[j]

Listed(J) ==
    /\ IsFiniteSet(J) /\ Cardinality(J) \in Nat
    /\ \E o \in [1..Cardinality(J) -> J] : Range(o) = J /\ Increasing(o)

\* The positions of a sequence can be listed in their order.
LEMMA Enumeration ==
  ASSUME NEW n \in Nat, NEW I \in SUBSET (1..n)
  PROVE  Listed(I)
<1> DEFINE S == {m \in Nat : \A J \in SUBSET (1..m) : Listed(J)}
<1>1. 0 \in S
  <2> SUFFICES ASSUME NEW J \in SUBSET (1..0) PROVE Listed(J)
    OBVIOUS
  <2>1. J = {}
    OBVIOUS
  <2>2. IsFiniteSet(J) /\ Cardinality(J) = 0
    BY <2>1, FS_EmptySet
  <2> DEFINE o == [k \in 1..0 |-> 1]
  <2>3. o \in [1..0 -> J] /\ Range(o) = J
    BY <2>1 DEF Range
  <2>4. Increasing(o)
    BY DEF Increasing
  <2> HIDE DEF o
  <2>5. 1..Cardinality(J) = 1..0 /\ Cardinality(J) \in Nat
    BY <2>2
  <2>6. \E f \in [1..Cardinality(J) -> J] : Range(f) = J /\ Increasing(f)
    BY <2>3, <2>4, <2>5, Zenon
  <2> QED
    BY <2>2, <2>5, <2>6 DEF Listed
<1>2. \A m \in S : m + 1 \in S
  <2> SUFFICES ASSUME NEW m \in S, NEW J \in SUBSET (1..(m + 1)) PROVE Listed(J)
    OBVIOUS
  <2> DEFINE K == J \ {m + 1}
  <2>1. K \in SUBSET (1..m) /\ m \in Nat
    OBVIOUS
  <2>2. Listed(K)
    BY <2>1
  <2> HIDE DEF S
  <2>3. CASE m + 1 \notin J
    <3>1. J = K
      BY <2>3
    <3> QED
      BY <2>2, <3>1
  <2>4. CASE m + 1 \in J
    <3> DEFINE c == Cardinality(K)
    <3>1. IsFiniteSet(K) /\ c \in Nat
      BY <2>2 DEF Listed
    <3>2. J = K \cup {m + 1} /\ m + 1 \notin K
      BY <2>4
    <3>3. PICK p \in [1..c -> K] : Range(p) = K /\ Increasing(p)
      BY <2>2 DEF Listed
    <3> HIDE DEF K
    <3>4. IsFiniteSet(K \cup {m + 1}) /\ Cardinality(K \cup {m + 1}) = c + 1
      BY <3>1, <3>2, FS_AddElement
    <3>5. IsFiniteSet(J) /\ Cardinality(J) = c + 1
      BY <3>2, <3>4
    <3> HIDE DEF c
    <3> DEFINE o == [k \in 1..(c + 1) |-> IF k = c + 1 THEN m + 1 ELSE p[k]]
    <3>6. o \in [1..(c + 1) -> J]
      BY <3>1, <3>2, <3>3
    <3>7. \A x \in J : \E k \in 1..(c + 1) : o[k] = x
      <4> TAKE x \in J
      <4>1. CASE x = m + 1
        BY <4>1, <3>1
      <4>2. CASE x \in K
        <5>1. PICK k \in 1..c : p[k] = x
          BY <4>2, <3>3 DEF Range
        <5>2. k \in 1..(c + 1) /\ o[k] = x
          BY <5>1, <3>1
        <5> QED
          BY <5>2
      <4> QED
        BY <4>1, <4>2, <3>2
    <3>8. Increasing(o)
      <4> SUFFICES ASSUME NEW i \in 1..(c + 1), NEW j \in 1..(c + 1), i < j PROVE o[i] < o[j]
        BY DEF Increasing
      <4>1. i \in 1..c /\ o[i] = p[i]
        BY <3>1
      <4>2. p[i] \in 1..m
        BY <4>1, <3>3, <2>1
      <4>3. CASE j = c + 1
        BY <4>1, <4>2, <4>3, <2>1
      <4>4. CASE j # c + 1
        <5>1. j \in 1..c /\ o[j] = p[j]
          BY <4>4, <3>1
        <5> QED
          BY <5>1, <4>1, <3>3 DEF Increasing
      <4> QED
        BY <4>3, <4>4
    <3> HIDE DEF o
    <3>9. Range(o) = J
      BY <3>6, <3>7 DEF Range
    <3> QED
      BY <3>5, <3>1, <3>6, <3>8, <3>9 DEF Listed
  <2> QED
    BY <2>3, <2>4
<1>3. S = Nat
  <2>1. S \in SUBSET Nat
    OBVIOUS
  <2> HIDE DEF S
  <2> QED
    BY <1>1, <1>2, <2>1, Induction
<1>4. n \in S
  BY <1>3
<1> QED
  BY <1>4

\* What is picked are the commands at the positions, in their order.
LEMMA PickFacts ==
  ASSUME NEW C, NEW cmds \in Seq(C), NEW I \in SUBSET (DOMAIN cmds)
  PROVE  /\ IsFiniteSet(I) /\ Cardinality(I) \in Nat
         /\ Pick(cmds, I) \in Seq(C) /\ Len(Pick(cmds, I)) = Cardinality(I)
         /\ \E o \in [1..Cardinality(I) -> I] :
               /\ Range(o) = I /\ Increasing(o)
               /\ \A k \in 1..Cardinality(I) : Pick(cmds, I)[k] = cmds[o[k]]
<1> DEFINE o == CHOOSE f \in [1..Cardinality(I) -> I] : Range(f) = I /\ Increasing(f)
<1>1. I \in SUBSET (1..Len(cmds)) /\ Len(cmds) \in Nat
  OBVIOUS
<1>2. /\ IsFiniteSet(I) /\ Cardinality(I) \in Nat
      /\ \E f \in [1..Cardinality(I) -> I] : Range(f) = I /\ Increasing(f)
  BY <1>1, Enumeration DEF Listed
<1>3. o \in [1..Cardinality(I) -> I] /\ Range(o) = I /\ Increasing(o)
  BY <1>2
<1>4. Pick(cmds, I) = [k \in DOMAIN o |-> cmds[o[k]]]
  BY DEF Pick, Increasing
<1> HIDE DEF o
<1>5. Pick(cmds, I) \in [1..Cardinality(I) -> C]
  BY <1>3, <1>4
<1>6. Pick(cmds, I) \in Seq(C) /\ Len(Pick(cmds, I)) = Cardinality(I)
  BY <1>5, <1>2
<1> QED
  BY <1>2, <1>3, <1>4, <1>6

-----------------------------------------------------------------------------
(* What sending does to the queue, to the replies and to the trace.        *)

Ranked(cmds) == \A i, j \in DOMAIN cmds : i < j => Rank(cmds[i].kind) < Rank(cmds[j].kind)

\* The entries of the queue stay where they are; a waiting write may take the
\* value of the one that is sent.
Stays(cmds) ==
    \A i \in 1..Len(queue) :
        \/ queue'[i] = queue[i] /\ \A m \in DOMAIN cmds : ~SameKey(queue[i], cmds[m])
        \/ \E m \in DOMAIN cmds : SameKey(queue[i], cmds[m]) /\ queue'[i] = cmds[m]

\* What is appended has been sent, in its order.
Appends(cmds) ==
    /\ \A i \in (Len(queue) + 1)..Len(queue') :
          \E m \in DOMAIN cmds : queue'[i] = cmds[m] /\ ~Merges(cmds[m])
    /\ \A i, j \in (Len(queue) + 1)..Len(queue') :
          i < j => Rank(queue'[i].kind) < Rank(queue'[j].kind)

\* What is sent of a gesture is queued, unless the trace says that it was refused.
Arrives(cmds) ==
    \A m \in DOMAIN cmds : \A g \in Gestures : Of(cmds[m], g) =>
        \/ trace'[g].refused
        \/ Merges(cmds[m])
        \/ \E i \in (Len(queue) + 1)..Len(queue') : queue'[i] = cmds[m]

Refuses(c, e, r) ==
    /\ c.from = e /\ r = Reply(c.kind, c.number, FALSE)
    /\ \A g \in Gestures : Of(c, g) => trace'[g].refused

Hears(cmds, heard) ==
    \A e \in Editors : \A i \in DOMAIN replies'[e] :
        \/ \E j \in DOMAIN heard[e] : replies'[e][i] = heard[e][j]
        \/ replies'[e][i] = Reply("error", 0, FALSE)
        \/ \E m \in DOMAIN cmds : Refuses(cmds[m], e, replies'[e][i])

Notes(seen) ==
    \A g \in Gestures :
        /\ trace'[g].began = seen[g].began /\ trace'[g].ended = seen[g].ended
        /\ trace'[g].strayed = seen[g].strayed /\ trace'[g].ackPoint = seen[g].ackPoint
        /\ trace'[g].written = seen[g].written /\ trace'[g].kept = seen[g].kept
        /\ trace'[g].reported = seen[g].reported
        /\ seen[g].refused => trace'[g].refused

Sent(cmds, heard, seen) ==
    /\ Len(queue) <= Len(queue')
    /\ Stays(cmds) /\ Appends(cmds) /\ Arrives(cmds) /\ Hears(cmds, heard) /\ Notes(seen)

SentTypes == /\ queue' \in Seq(Commands)
             /\ replies' \in [Editors -> Seq(Replies)]
             /\ trace' \in [Gestures -> Traces]

\* A refused command comes back as a reply of its kind or as an error.
LEMMA RefusalTypes ==
  ASSUME NEW c \in Commands
  PROVE  /\ Refusal(c) \in Replies
         /\ Refusal(c) = Reply("error", 0, FALSE) \/ Refusal(c) = Reply(c.kind, c.number, FALSE)
<1>1. c.kind \in ReplyKinds /\ c.number \in Nat /\ "error" \in ReplyKinds
  BY DEF Commands, ReplyKinds
<1> HIDE DEF ReplyKinds
<1> QED
  BY <1>1 DEF Refusal, Reply, Replies

\* Sending in the order of a gesture does just this.
LEMMA SendFacts ==
  ASSUME NEW cmds \in Seq(Commands), NEW heard \in [Editors -> Seq(Replies)],
         NEW seen \in [Gestures -> Traces], queue \in Seq(Commands),
         Ranked(cmds), Send(cmds, heard, seen)
  PROVE  Sent(cmds, heard, seen) /\ SentTypes
<1> DEFINE merged == {i \in DOMAIN cmds : Merges(cmds[i])}
<1>1. PICK full \in SUBSET {i \in DOMAIN cmds : ~Merges(cmds[i])} :
        LET kept == DOMAIN cmds \ (full \cup merged)
            Errors(e) == Pick(cmds, {i \in full : cmds[i].from = e /\ cmds[i].kind # "edit"})
        IN  /\ queue' = [i \in DOMAIN queue |->
                            IF \E j \in merged : SameKey(queue[i], cmds[j])
                            THEN cmds[CHOOSE j \in merged : SameKey(queue[i], cmds[j])]
                            ELSE queue[i]]
                        \o Pick(cmds, kept)
            /\ replies' = [e \in Editors |->
                            IF e \in closed' THEN <<>>
                            ELSE heard[e] \o [k \in DOMAIN Errors(e) |-> Refusal(Errors(e)[k])]]
            /\ trace' = [g \in Gestures |->
                            [seen[g] EXCEPT !.refused = @ \/ \E i \in full :
                                /\ cmds[i].kind \notin {"edit", "activate"}
                                /\ <<cmds[i].from, cmds[i].number>> = g]]
  BY DEF Send
<1> DEFINE kept == DOMAIN cmds \ (full \cup merged)
           Wrong(e) == {i \in full : cmds[i].from = e /\ cmds[i].kind # "edit"}
           Errors(e) == Pick(cmds, Wrong(e))
           added == Pick(cmds, kept)
           stay == [i \in DOMAIN queue |->
                       IF \E j \in merged : SameKey(queue[i], cmds[j])
                       THEN cmds[CHOOSE j \in merged : SameKey(queue[i], cmds[j])]
                       ELSE queue[i]]
           lost(g) == \E i \in full : /\ cmds[i].kind \notin {"edit", "activate"}
                                      /\ <<cmds[i].from, cmds[i].number>> = g
<1>2. queue' = stay \o added
  BY <1>1
<1>3. replies' = [e \in Editors |-> IF e \in closed' THEN <<>>
                    ELSE heard[e] \o [k \in DOMAIN Errors(e) |-> Refusal(Errors(e)[k])]]
  BY <1>1
<1>4. trace' = [g \in Gestures |-> [seen[g] EXCEPT !.refused = @ \/ lost(g)]]
  BY <1>1
<1>5. stay \in Seq(Commands) /\ Len(stay) = Len(queue)
  <2>1. \A i \in DOMAIN queue : stay[i] \in Commands
    <3> TAKE i \in DOMAIN queue
    <3>1. CASE \E j \in merged : SameKey(queue[i], cmds[j])
      BY <3>1
    <3>2. CASE ~\E j \in merged : SameKey(queue[i], cmds[j])
      BY <3>2
    <3> QED
      BY <3>1, <3>2
  <2>2. stay = [i \in 1..Len(queue) |-> stay[i]] /\ Len(queue) \in Nat /\ DOMAIN queue = 1..Len(queue)
    OBVIOUS
  <2> HIDE DEF stay
  <2>3. stay \in [1..Len(queue) -> Commands]
    BY <2>1, <2>2
  <2> QED
    BY <2>2, <2>3
<1>6. \A i \in 1..Len(queue) :
        \/ stay[i] = queue[i] /\ \A m \in DOMAIN cmds : ~SameKey(queue[i], cmds[m])
        \/ \E m \in DOMAIN cmds : SameKey(queue[i], cmds[m]) /\ stay[i] = cmds[m]
  <2> TAKE i \in 1..Len(queue)
  <2>1. \A m \in DOMAIN cmds : SameKey(queue[i], cmds[m]) => m \in merged
    BY DEF Merges
  <2>2. CASE \E j \in merged : SameKey(queue[i], cmds[j])
    <3> DEFINE m == CHOOSE j \in merged : SameKey(queue[i], cmds[j])
    <3>1. m \in merged /\ SameKey(queue[i], cmds[m])
      BY <2>2
    <3>2. stay[i] = cmds[m]
      <4>1. i \in DOMAIN queue
        OBVIOUS
      <4> QED
        BY <2>2, <4>1, Zenon
    <3>3. m \in DOMAIN cmds
      BY <3>1
    <3> HIDE DEF m, stay
    <3>4. \E l \in DOMAIN cmds : SameKey(queue[i], cmds[l]) /\ stay[i] = cmds[l]
      BY <3>1, <3>2, <3>3, Zenon
    <3> QED
      BY <3>4
  <2>3. CASE ~\E j \in merged : SameKey(queue[i], cmds[j])
    BY <2>1, <2>3
  <2> QED
    BY <2>2, <2>3
<1>7. full \subseteq DOMAIN cmds /\ kept \in SUBSET (DOMAIN cmds)
      /\ \A e : Wrong(e) \in SUBSET (DOMAIN cmds)
  OBVIOUS
<1>8. \A m \in DOMAIN cmds : m \in full \/ Merges(cmds[m]) \/ m \in kept
  OBVIOUS
<1>9. \A m \in kept : ~Merges(cmds[m])
  OBVIOUS
<1>10. \A e : \A m \in Wrong(e) : m \in full /\ cmds[m].from = e
  OBVIOUS
<1> HIDE DEF stay, kept, merged, Wrong, lost
<1>11. added \in Seq(Commands) /\ Len(added) \in Nat /\ Len(stay) \in Nat
  BY <1>5, <1>7, PickFacts
<1>12. PICK o \in [1..Len(added) -> kept] :
         Range(o) = kept /\ Increasing(o) /\ \A k \in 1..Len(added) : added[k] = cmds[o[k]]
  <2>1. kept \in SUBSET (DOMAIN cmds)
    BY <1>7
  <2>2. /\ Len(added) = Cardinality(kept)
        /\ \E o \in [1..Cardinality(kept) -> kept] :
              /\ Range(o) = kept /\ Increasing(o)
              /\ \A k \in 1..Cardinality(kept) : added[k] = cmds[o[k]]
    BY <2>1, PickFacts
  <2> HIDE DEF added
  <2> QED
    BY <2>2
<1>13. \A e : Errors(e) \in Seq(Commands)
              /\ \A k \in DOMAIN Errors(e) : \E m \in Wrong(e) : Errors(e)[k] = cmds[m]
  <2> TAKE e
  <2>1. Wrong(e) \in SUBSET (DOMAIN cmds)
    BY <1>7
  <2>2. /\ Errors(e) \in Seq(Commands) /\ Len(Errors(e)) = Cardinality(Wrong(e))
        /\ \E p \in [1..Cardinality(Wrong(e)) -> Wrong(e)] :
              /\ Range(p) = Wrong(e) /\ Increasing(p)
              /\ \A k \in 1..Cardinality(Wrong(e)) : Errors(e)[k] = cmds[p[k]]
    BY <2>1, PickFacts
  <2> HIDE DEF Errors
  <2> QED
    BY <2>2
<1> HIDE DEF added, Errors
<1>14. queue' \in Seq(Commands) /\ Len(queue') = Len(queue) + Len(added)
  <2>1. queue' = stay \o added /\ stay \in Seq(Commands) /\ added \in Seq(Commands)
    BY <1>2, <1>5, <1>11
  <2>2. queue' \in Seq(Commands)
    BY <2>1
  <2>3. Len(queue') = Len(stay) + Len(added)
    BY <2>1
  <2> QED
    BY <2>2, <2>3, <1>5
<1>15. /\ \A i \in 1..Len(queue) : queue'[i] = stay[i]
       /\ \A i \in (Len(queue) + 1)..Len(queue') : queue'[i] = added[i - Len(queue)]
  BY <1>2, <1>5, <1>11, <1>14
<1>16. Stays(cmds)
  BY <1>15, <1>6 DEF Stays
<1>17. Appends(cmds)
  <2>1. \A i \in (Len(queue) + 1)..Len(queue') :
          /\ i - Len(queue) \in 1..Len(added) /\ o[i - Len(queue)] \in kept
          /\ queue'[i] = cmds[o[i - Len(queue)]]
    BY <1>15, <1>14, <1>11, <1>12
  <2>2. \A i \in (Len(queue) + 1)..Len(queue') :
          \E m \in DOMAIN cmds : queue'[i] = cmds[m] /\ ~Merges(cmds[m])
    BY <2>1, <1>7, <1>9
  <2>3. ASSUME NEW i \in (Len(queue) + 1)..Len(queue'), NEW j \in (Len(queue) + 1)..Len(queue'),
               i < j
        PROVE  Rank(queue'[i].kind) < Rank(queue'[j].kind)
    <3>0. i - Len(queue) \in 1..Len(added) /\ j - Len(queue) \in 1..Len(added)
          /\ i - Len(queue) < j - Len(queue) /\ DOMAIN o = 1..Len(added)
      BY <2>1, <2>3, <1>12
    <3>1. o[i - Len(queue)] < o[j - Len(queue)]
      BY <3>0, <1>12 DEF Increasing
    <3>2. o[i - Len(queue)] \in DOMAIN cmds /\ o[j - Len(queue)] \in DOMAIN cmds
      BY <2>1, <1>7
    <3> QED
      BY <2>1, <3>1, <3>2 DEF Ranked
  <2> QED
    BY <2>2, <2>3 DEF Appends
<1>18. \A g \in Gestures : seen[g] \in Traces /\ trace'[g] = [seen[g] EXCEPT !.refused = @ \/ lost(g)]
  BY <1>4
<1>19. \A g \in Gestures : trace'[g].refused <=> (seen[g].refused \/ lost(g))
  BY <1>18 DEF Traces
<1>20. Notes(seen)
  <2> SUFFICES ASSUME NEW g \in Gestures
               PROVE  /\ trace'[g].began = seen[g].began /\ trace'[g].ended = seen[g].ended
                      /\ trace'[g].strayed = seen[g].strayed
                      /\ trace'[g].ackPoint = seen[g].ackPoint
                      /\ trace'[g].written = seen[g].written /\ trace'[g].kept = seen[g].kept
                      /\ trace'[g].reported = seen[g].reported
    BY <1>19 DEF Notes
  <2>1. seen[g] \in Traces /\ trace'[g] = [seen[g] EXCEPT !.refused = @ \/ lost(g)]
    BY <1>18
  <2> QED
    BY <2>1 DEF Traces
<1>21. \A g \in Gestures : lost(g) \in BOOLEAN
  BY DEF lost
<1>22. trace' \in [Gestures -> Traces]
  BY <1>4, <1>21, ZenonT(60) DEF Traces
<1>23. \A m \in full : \A g \in Gestures : Of(cmds[m], g) => trace'[g].refused
  <2> SUFFICES ASSUME NEW m \in full, NEW g \in Gestures, Of(cmds[m], g) PROVE lost(g)
    BY <1>19
  <2>1. g = <<g[1], g[2]>>
    BY DEF Gestures
  <2> QED
    BY <2>1 DEF Of, GestureKinds, lost
<1>24. Arrives(cmds)
  <2> SUFFICES ASSUME NEW m \in DOMAIN cmds, NEW g \in Gestures, Of(cmds[m], g)
               PROVE  \/ trace'[g].refused \/ Merges(cmds[m])
                      \/ \E i \in (Len(queue) + 1)..Len(queue') : queue'[i] = cmds[m]
    BY DEF Arrives
  <2>1. CASE m \in full
    BY <2>1, <1>23
  <2>2. CASE m \in kept
    <3>1. PICK k \in 1..Len(added) : o[k] = m
      BY <2>2, <1>12 DEF Range
    <3>2. Len(queue) \in Nat /\ Len(added) \in Nat /\ Len(queue') = Len(queue) + Len(added)
      BY <1>11, <1>14
    <3>3. Len(queue) + k \in (Len(queue) + 1)..Len(queue') /\ (Len(queue) + k) - Len(queue) = k
      BY <3>1, <3>2
    <3>4. queue'[Len(queue) + k] = added[k] /\ added[k] = cmds[m]
      BY <3>1, <3>3, <1>15, <1>12
    <3> QED
      BY <3>3, <3>4
  <2> QED
    BY <2>1, <2>2, <1>8
<1>25. ASSUME NEW e \in Editors
       PROVE  /\ replies'[e] \in Seq(Replies)
              /\ \A i \in DOMAIN replies'[e] :
                    \/ \E j \in DOMAIN heard[e] : replies'[e][i] = heard[e][j]
                    \/ \E m \in Wrong(e) : replies'[e][i] = Refusal(cmds[m])
  <2> DEFINE err == [k \in DOMAIN Errors(e) |-> Refusal(Errors(e)[k])]
  <2>1. Errors(e) \in Seq(Commands)
    BY <1>13
  <2>2. \A k \in DOMAIN Errors(e) : Refusal(Errors(e)[k]) \in Replies
    <3> TAKE k \in DOMAIN Errors(e)
    <3>1. Errors(e)[k] \in Commands
      BY <2>1
    <3> QED
      BY <3>1, RefusalTypes
  <2>3. err \in Seq(Replies) /\ \A k \in DOMAIN err : err[k] = Refusal(Errors(e)[k])
                             /\ DOMAIN err = DOMAIN Errors(e)
    <3>1. DOMAIN Errors(e) = 1..Len(Errors(e)) /\ Len(Errors(e)) \in Nat
      BY <2>1
    <3>2. err \in [1..Len(Errors(e)) -> Replies]
      BY <3>1, <2>2
    <3> QED
      BY <3>1, <3>2
  <2>4. replies'[e] = IF e \in closed' THEN <<>> ELSE heard[e] \o err
    BY <1>3
  <2> HIDE DEF err
  <2>5. CASE e \in closed'
    BY <2>4, <2>5
  <2>6. CASE e \notin closed'
    <3>1. replies'[e] = heard[e] \o err /\ heard[e] \in Seq(Replies)
      BY <2>4, <2>6
    <3>2. replies'[e] \in Seq(Replies)
      BY <3>1, <2>3
    <3>3. \A i \in DOMAIN replies'[e] :
            \/ i \in DOMAIN heard[e] /\ replies'[e][i] = heard[e][i]
            \/ \E k \in DOMAIN err : replies'[e][i] = err[k]
      <4> TAKE i \in DOMAIN replies'[e]
      <4>1. i \in 1..(Len(heard[e]) + Len(err)) /\ Len(heard[e]) \in Nat /\ Len(err) \in Nat
        BY <3>1, <2>3
      <4>2. CASE i <= Len(heard[e])
        BY <4>1, <4>2, <3>1, <2>3
      <4>3. CASE i > Len(heard[e])
        <5>1. i - Len(heard[e]) \in DOMAIN err
          BY <4>1, <4>3, <2>3
        <5>2. replies'[e][i] = err[i - Len(heard[e])]
          BY <4>1, <4>3, <3>1, <2>3
        <5> QED
          BY <5>1, <5>2
      <4> QED
        BY <4>1, <4>2, <4>3
    <3>4. \A k \in DOMAIN err : \E m \in Wrong(e) : err[k] = Refusal(cmds[m])
      BY <2>3, <1>13
    <3> QED
      BY <3>2, <3>3, <3>4, ZenonT(60)
  <2> QED
    BY <2>5, <2>6
<1>26. Hears(cmds, heard)
  <2>1. ASSUME NEW e \in Editors, NEW m \in Wrong(e), NEW r, r = Refusal(cmds[m])
        PROVE  m \in DOMAIN cmds /\ (r = Reply("error", 0, FALSE) \/ Refuses(cmds[m], e, r))
    <3>1. m \in DOMAIN cmds /\ m \in full /\ cmds[m].from = e
      BY <1>10, <1>7
    <3>2. cmds[m] \in Commands
      BY <3>1
    <3>3. r = Reply("error", 0, FALSE) \/ r = Reply(cmds[m].kind, cmds[m].number, FALSE)
      BY <3>2, <2>1, RefusalTypes
    <3>4. \A g \in Gestures : Of(cmds[m], g) => trace'[g].refused
      BY <3>1, <1>23
    <3>5. r = Reply(cmds[m].kind, cmds[m].number, FALSE) => Refuses(cmds[m], e, r)
      BY <3>1, <3>4, Zenon DEF Refuses
    <3> QED
      BY <3>1, <3>3, <3>5
  <2> SUFFICES ASSUME NEW e \in Editors, NEW i \in DOMAIN replies'[e]
               PROVE  \/ \E j \in DOMAIN heard[e] : replies'[e][i] = heard[e][j]
                      \/ replies'[e][i] = Reply("error", 0, FALSE)
                      \/ \E m \in DOMAIN cmds : Refuses(cmds[m], e, replies'[e][i])
    BY DEF Hears
  <2>2. \/ \E j \in DOMAIN heard[e] : replies'[e][i] = heard[e][j]
        \/ \E m \in Wrong(e) : replies'[e][i] = Refusal(cmds[m])
    BY <1>25
  <2> QED
    BY <2>1, <2>2
<1>27. replies' \in [Editors -> Seq(Replies)]
  <2>1. replies' = [e \in Editors |-> replies'[e]]
    BY <1>3
  <2> QED
    BY <2>1, <1>25
<1> QED
  BY <1>14, <1>11, <1>16, <1>17, <1>20, <1>22, <1>24, <1>26, <1>27 DEF Sent, SentTypes

-----------------------------------------------------------------------------
(* The steps of the message thread, seen alike: each sends some commands,  *)
(* on top of the replies that were heard and of the trace as the handler   *)
(* has seen it, and moves the session of each editor in one of four ways.  *)

Idle == \A x \in Editors : session[x] = None
Sends(cmds, kind, g) == \E m \in DOMAIN cmds : Is(cmds[m], kind, g)

\* When a command is sent.
Allowed(c) ==
    \/ c.kind = "activate"
    \/ c.kind = "edit" /\ Idle
    \/ /\ c.kind = "begin" /\ Idle
       /\ c.number = next[c.from] /\ c.number \in 1..MaxGestures /\ next'[c.from] = c.number + 1
    \/ /\ c.kind \in {"write", "ack"} /\ <<c.from, c.number>> \in Gestures
       /\ Open(<<c.from, c.number>>) /\ ~session[c.from].finalSent
    \/ /\ c.kind = "end" /\ <<c.from, c.number>> \in Gestures
       /\ Open(<<c.from, c.number>>)

\* With an acknowledgement goes the write of the same position; an end comes
\* after the acknowledgement of the position that is kept.
Complete(cmds, seen) ==
    \A g \in Gestures : \A m \in DOMAIN cmds :
        /\ Is(cmds[m], "ack", g) =>
              \E l \in DOMAIN cmds : Is(cmds[l], "write", g) /\ cmds[l].value = cmds[m].value
        /\ Is(cmds[m], "end", g) =>
              \/ seen[g].kept = None
              \/ \E l \in DOMAIN cmds : Is(cmds[l], "ack", g) /\ cmds[l].value = seen[g].kept
              \/ session[g[1]].finalSent /\ seen[g].kept = session[g[1]].value

\* What the handler itself changes of the trace.
Sees(seen) ==
    \A g \in Gestures :
        /\ seen[g].began = trace[g].began /\ seen[g].ended = trace[g].ended
        /\ seen[g].strayed = trace[g].strayed /\ seen[g].ackPoint = trace[g].ackPoint
        /\ seen[g].written = trace[g].written
        /\ trace[g].refused => seen[g].refused
        /\ \/ seen[g].kept = trace[g].kept
           \/ Open(g) /\ ( \/ seen[g].kept = None \/ ~session[g[1]].finalSent
                           \/ seen[g].kept = session[g[1]].value )
        /\ seen[g].reported =>
              \/ trace[g].reported
              \/ /\ Open(g) /\ session[g[1]].accepted /\ session'[g[1]] = None
                 /\ seen[g].kept = trace[g].kept

Listens(heard) ==
    \A e \in Editors : \A i \in DOMAIN heard[e] :
        \E j \in DOMAIN replies[e] : heard[e][i] = replies[e][j]

Rests(x, cmds, seen) ==
    /\ session'[x] = session[x]
    /\ \A m \in DOMAIN cmds : cmds[m].from = x => cmds[m].kind \notin GestureKinds
    /\ session[x] # None => seen[Gesture(x)].kept = trace[Gesture(x)].kept

Begins(x, cmds) ==
    LET t == session'[x]
    IN  /\ session[x] = None /\ Idle /\ t \in Sessions
        /\ t.number = next[x] /\ next'[x] = next[x] + 1
        /\ ~t.ending /\ ~t.finalSent /\ ~t.accepted
        /\ Sends(cmds, "begin", <<x, next[x]>>)
        /\ \A m \in DOMAIN cmds : Mine(cmds[m], <<x, next[x]>>)

Moves(x, cmds, seen) ==
    LET s == session[x]
        t == session'[x]
        g == <<x, s.number>>
    IN  /\ s \in Sessions /\ t \in Sessions /\ t.number = s.number
        /\ s.finalSent => t.finalSent
        /\ s.ending => t.ending /\ t.value = s.value
        /\ t.accepted => t.finalSent /\ trace[g].written = s.value /\ Settled(g) /\ s.finalSent
        /\ t.finalSent => s.finalSent \/ Sends(cmds, "ack", g)
        /\ Sends(cmds, "ack", g) \/ Sends(cmds, "end", g) => t.finalSent
        /\ \A m \in DOMAIN cmds : Is(cmds[m], "ack", g) => cmds[m].value = t.value
        /\ t.finalSent => t.ending
        /\ t.ending => seen[g].kept = t.value
        /\ t.ending /\ ~t.finalSent => t.dirty /\ ~t.ready

Closes(x, cmds) ==
    /\ session[x] \in Sessions /\ session'[x] = None
    /\ Sends(cmds, "end", Gesture(x)) \/ Over(Gesture(x))

Step(cmds, heard, seen) ==
    /\ cmds \in Seq(Commands) /\ Ranked(cmds) /\ \A m \in DOMAIN cmds : Allowed(cmds[m])
    /\ Complete(cmds, seen) /\ Sees(seen) /\ Listens(heard) /\ Sent(cmds, heard, seen)
    /\ \A x \in Editors : \/ Rests(x, cmds, seen) \/ Begins(x, cmds)
                           \/ Moves(x, cmds, seen) \/ Closes(x, cmds)
    /\ \A x \in Editors : next'[x] = next[x] \/ Begins(x, cmds)
    /\ value' = value /\ owner' = owner

\* The trace of a gesture changes in what the handler sees of it, or by a refusal.
LEMMA StepTrace ==
  ASSUME NEW cmds, NEW heard, NEW seen, Step(cmds, heard, seen), NEW g \in Gestures
  PROVE  /\ trace'[g].began <=> trace[g].began
         /\ trace'[g].ended <=> trace[g].ended
         /\ trace'[g].strayed <=> trace[g].strayed
         /\ trace'[g].ackPoint <=> trace[g].ackPoint
         /\ trace[g].refused => trace'[g].refused
         /\ trace'[g].reported <=> seen[g].reported
         /\ trace'[g].written = trace[g].written
         /\ trace'[g].kept = seen[g].kept
<1>1. Sees(seen) /\ Notes(seen)
  BY DEF Step, Sent
<1> QED
  BY <1>1, Zenon DEF Sees, Notes

Alike(c, d) == c.kind = d.kind /\ c.from = d.from /\ c.number = d.number

\* A coalesced write stands for the gesture the one it replaces stood for.
LEMMA AlikeFacts ==
  ASSUME NEW c, NEW d, Alike(c, d), NEW g
  PROVE  /\ \A kind : Is(c, kind, g) <=> Is(d, kind, g)
         /\ Of(c, g) <=> Of(d, g)
         /\ Mine(c, g) <=> Mine(d, g)
BY DEF Alike, Is, Of, Mine

\* A handler gives out at most one new number, to the gesture it begins.
LEMMA StepNext ==
  ASSUME Types, Types', NEW cmds, NEW heard, NEW seen, Step(cmds, heard, seen), NEW x \in Editors
  PROVE  /\ next[x] \in Nat /\ next'[x] \in Nat /\ next'[x] >= next[x]
         /\ next'[x] = next[x] \/ Begins(x, cmds)
<1>1. next[x] \in Nat /\ next'[x] \in Nat /\ (next'[x] = next[x] \/ Begins(x, cmds))
  BY DEF Types, Step
<1>2. Begins(x, cmds) => next'[x] = next[x] + 1
  BY DEF Begins
<1> QED
  BY <1>1, <1>2

\* The entries of the queue after a step.
LEMMA StepQueue ==
  ASSUME Types, Types', NEW cmds, NEW heard, NEW seen, Step(cmds, heard, seen)
  PROVE  /\ queue \in Seq(Commands) /\ queue' \in Seq(Commands) /\ cmds \in Seq(Commands)
         /\ Len(queue) \in Nat /\ Len(queue') \in Nat /\ Len(queue) <= Len(queue')
         /\ \A i \in DOMAIN queue :
               /\ i \in DOMAIN queue' /\ Alike(queue'[i], queue[i])
               /\ \/ queue'[i] = queue[i]
                  \/ /\ queue[i].kind = "write"
                     /\ LET g == <<queue[i].from, queue[i].number>>
                        IN  g \in Gestures /\ Open(g) /\ ~session[g[1]].finalSent
         /\ \A i \in DOMAIN queue' : i \notin DOMAIN queue =>
               /\ i > Len(queue)
               /\ \E m \in DOMAIN cmds : queue'[i] = cmds[m] /\ ~Merges(cmds[m])
<1>1. queue \in Seq(Commands) /\ queue' \in Seq(Commands) /\ cmds \in Seq(Commands)
      /\ Len(queue) <= Len(queue') /\ Stays(cmds) /\ Appends(cmds)
      /\ \A m \in DOMAIN cmds : Allowed(cmds[m])
  BY DEF Types, Step, Sent
<1>2. /\ Len(queue) \in Nat /\ Len(queue') \in Nat
      /\ DOMAIN queue = 1..Len(queue) /\ DOMAIN queue' = 1..Len(queue')
  BY <1>1
<1>3. ASSUME NEW i \in DOMAIN queue
      PROVE  /\ i \in DOMAIN queue' /\ Alike(queue'[i], queue[i])
             /\ \/ queue'[i] = queue[i]
                \/ /\ queue[i].kind = "write"
                   /\ LET g == <<queue[i].from, queue[i].number>>
                      IN  g \in Gestures /\ Open(g) /\ ~session[g[1]].finalSent
  <2>1. i \in DOMAIN queue' /\ i \in 1..Len(queue)
    BY <1>1, <1>2
  <2>2. CASE queue'[i] = queue[i]
    BY <2>1, <2>2 DEF Alike
  <2>3. CASE queue'[i] # queue[i]
    <3>1. PICK m \in DOMAIN cmds : SameKey(queue[i], cmds[m]) /\ queue'[i] = cmds[m]
      BY <2>1, <2>3, <1>1 DEF Stays
    <3>2. Allowed(cmds[m]) /\ cmds[m].kind = "write" /\ queue[i].kind = "write"
          /\ queue[i].from = cmds[m].from /\ queue[i].number = cmds[m].number
      BY <3>1, <1>1 DEF SameKey
    <3>3. LET g == <<cmds[m].from, cmds[m].number>>
          IN  g \in Gestures /\ Open(g) /\ ~session[cmds[m].from].finalSent
      BY <3>2 DEF Allowed
    <3> QED
      BY <2>1, <3>1, <3>2, <3>3 DEF Alike
  <2> QED
    BY <2>2, <2>3
<1>4. ASSUME NEW i \in DOMAIN queue', i \notin DOMAIN queue
      PROVE  /\ i > Len(queue)
             /\ \E m \in DOMAIN cmds : queue'[i] = cmds[m] /\ ~Merges(cmds[m])
  <2>1. i > Len(queue) /\ i \in (Len(queue) + 1)..Len(queue')
    BY <1>2, <1>4
  <2> QED
    BY <2>1, <1>1 DEF Appends
<1> QED
  BY <1>1, <1>2, <1>3, <1>4

\* What a step sends of a gesture.
LEMMA StepSends ==
  ASSUME NEW cmds, NEW heard, NEW seen, Step(cmds, heard, seen),
         NEW g \in Gestures, NEW m \in DOMAIN cmds, Of(cmds[m], g)
  PROVE  \/ /\ Is(cmds[m], "begin", g) /\ Idle
            /\ g[2] = next[g[1]] /\ g[2] \in 1..MaxGestures /\ next'[g[1]] = g[2] + 1
         \/ /\ Is(cmds[m], "write", g) \/ Is(cmds[m], "ack", g)
            /\ Open(g) /\ ~session[g[1]].finalSent
         \/ Is(cmds[m], "end", g) /\ Open(g)
BY DEF Step, Of, Gestures, Allowed, Is, GestureKinds

\* What waits after a step has waited or was sent.
LEMMA StepWaits ==
  ASSUME Types, Types', NEW cmds, NEW heard, NEW seen, Step(cmds, heard, seen),
         NEW g \in Gestures, NEW kind
  PROVE  /\ Waits(kind, g) => Waits(kind, g)'
         /\ Waits(kind, g)' => Waits(kind, g) \/ Sends(cmds, kind, g)
         /\ kind \in GestureKinds /\ Sends(cmds, kind, g) =>
               trace'[g].refused \/ Waits(kind, g)'
<1>1. /\ \A i \in DOMAIN queue : i \in DOMAIN queue' /\ Alike(queue'[i], queue[i])
      /\ \A i \in DOMAIN queue' : i \notin DOMAIN queue =>
            \E m \in DOMAIN cmds : queue'[i] = cmds[m]
  BY StepQueue
<1>2. Waits(kind, g) => Waits(kind, g)'
  BY <1>1, AlikeFacts DEF Waits
<1>3. Waits(kind, g)' => Waits(kind, g) \/ Sends(cmds, kind, g)
  BY <1>1, AlikeFacts DEF Waits, Sends
<1>4. ASSUME kind \in GestureKinds, NEW m \in DOMAIN cmds, Is(cmds[m], kind, g)
      PROVE  trace'[g].refused \/ Waits(kind, g)'
  <2>1. Of(cmds[m], g)
    BY <1>4 DEF Of, Is
  <2>2. \/ trace'[g].refused \/ Merges(cmds[m])
        \/ \E i \in (Len(queue) + 1)..Len(queue') : queue'[i] = cmds[m]
    BY <2>1 DEF Step, Sent, Arrives
  <2>3. CASE Merges(cmds[m])
    <3>1. PICK i \in DOMAIN queue : SameKey(queue[i], cmds[m])
      BY <2>3 DEF Merges
    <3>2. Is(queue[i], kind, g)
      BY <3>1, <1>4 DEF SameKey, Is
    <3> QED
      BY <3>2, <1>2 DEF Waits
  <2>4. CASE \E i \in (Len(queue) + 1)..Len(queue') : queue'[i] = cmds[m]
    BY <1>4, <2>4, StepQueue DEF Waits
  <2> QED
    BY <2>2, <2>3, <2>4
<1> QED
  BY <1>2, <1>3, <1>4 DEF Sends

\* What a handler leaves in the queue was there before, in its place, or is what it sent.
LEMMA StepEntry ==
  ASSUME Types, Types', NEW cmds, NEW heard, NEW seen, Step(cmds, heard, seen),
         NEW g \in Gestures, NEW kind, NEW i \in DOMAIN queue', Is(queue'[i], kind, g)
  PROVE  \/ /\ i \in DOMAIN queue /\ Is(queue[i], kind, g)
            /\ queue'[i] = queue[i] \/ (kind = "write" /\ Open(g) /\ ~session[g[1]].finalSent)
         \/ /\ i \notin DOMAIN queue /\ i > Len(queue)
            /\ \E m \in DOMAIN cmds :
                  queue'[i] = cmds[m] /\ Is(cmds[m], kind, g) /\ ~Merges(cmds[m])
<1>1. CASE i \in DOMAIN queue
  <2>1. /\ Alike(queue'[i], queue[i])
        /\ \/ queue'[i] = queue[i]
           \/ /\ queue[i].kind = "write"
              /\ LET h == <<queue[i].from, queue[i].number>>
                 IN  h \in Gestures /\ Open(h) /\ ~session[h[1]].finalSent
    BY <1>1, StepQueue
  <2>2. Is(queue[i], kind, g)
    BY <2>1, AlikeFacts
  <2>3. g = <<queue[i].from, queue[i].number>> /\ queue[i].kind = kind
    BY <2>2 DEF Is, Gestures
  <2> QED
    BY <1>1, <2>1, <2>2, <2>3
<1>2. CASE i \notin DOMAIN queue
  <2>1. i > Len(queue) /\ \E m \in DOMAIN cmds : queue'[i] = cmds[m] /\ ~Merges(cmds[m])
    BY <1>2, StepQueue
  <2> QED
    BY <1>2, <2>1
<1> QED
  BY <1>1, <1>2

\* A reply after a step was there before, or tells of a command that was refused.
LEMMA StepHears ==
  ASSUME NEW cmds, NEW heard, NEW seen, Step(cmds, heard, seen),
         NEW e \in Editors, NEW i \in DOMAIN replies'[e]
  PROVE  \/ \E j \in DOMAIN replies[e] : replies'[e][i] = replies[e][j]
         \/ replies'[e][i] = Reply("error", 0, FALSE)
         \/ \E m \in DOMAIN cmds : Refuses(cmds[m], e, replies'[e][i])
<1>1. Hears(cmds, heard) /\ Listens(heard)
  BY DEF Step, Sent
<1>3. \A j \in DOMAIN heard[e] : \E k \in DOMAIN replies[e] : heard[e][j] = replies[e][k]
  BY <1>1 DEF Listens
<1>4. CASE \E j \in DOMAIN heard[e] : replies'[e][i] = heard[e][j]
  BY <1>3, <1>4
<1> QED
  BY <1>1, <1>4 DEF Hears

\* A gesture all of whose writes are done stays so when it is over or has sent them.
LEMMA StepSettled ==
  ASSUME Types, Types', NEW cmds, NEW heard, NEW seen, Step(cmds, heard, seen),
         NEW g \in Gestures, Settled(g), ~Open(g) \/ session[g[1]].finalSent
  PROVE  Settled(g)'
<1>1. ASSUME NEW kind \in {"write", "ack"}, Sends(cmds, kind, g) PROVE FALSE
  <2>1. PICK m \in DOMAIN cmds : Is(cmds[m], kind, g)
    BY <1>1 DEF Sends
  <2>2. Of(cmds[m], g) /\ cmds[m].kind = kind
    BY <2>1 DEF Of, Is, GestureKinds
  <2> QED
    BY <2>2, StepSends DEF Is
<1> QED
  BY <1>1, StepWaits DEF Settled

-----------------------------------------------------------------------------
(* A step of the message thread keeps the invariant, part by part.         *)

\* The order in which the commands of a gesture are sent.
LEMMA RankFacts ==
  /\ Rank("begin") = 0 /\ Rank("write") = 1 /\ Rank("ack") = 2 /\ Rank("end") = 3
  /\ Rank("edit") = 4 /\ Rank("activate") = 4
BY DEF Rank

\* What a handler sends keeps the commands of a gesture in their order.
LEMMA StepOrder ==
  ASSUME Types, Types', FreshInv, SessionInv, OrderInv,
         NEW cmds, NEW heard, NEW seen, Step(cmds, heard, seen)
  PROVE  OrderInv'
<1> SUFFICES ASSUME NEW i \in DOMAIN queue', NEW j \in DOMAIN queue', NEW g \in Gestures,
                    i < j, Of(queue'[i], g), Of(queue'[j], g)
             PROVE  \/ Rank(queue'[i].kind) < Rank(queue'[j].kind)
                    \/ queue'[i].kind = "end" /\ queue'[j].kind = "end"
  BY DEF OrderInv
<1>1. /\ \A k \in DOMAIN queue : k \in DOMAIN queue' /\ Alike(queue'[k], queue[k])
      /\ \A k \in DOMAIN queue' : k \notin DOMAIN queue =>
            k > Len(queue) /\ \E m \in DOMAIN cmds : queue'[k] = cmds[m] /\ ~Merges(cmds[m])
      /\ queue \in Seq(Commands) /\ queue' \in Seq(Commands)
  BY StepQueue
<1>2. CASE j \in DOMAIN queue
  BY <1>1, <1>2, AlikeFacts DEF OrderInv, Alike
<1>3. CASE j \notin DOMAIN queue /\ i \in DOMAIN queue
  <2>1. PICK m \in DOMAIN cmds : queue'[j] = cmds[m] /\ ~Merges(cmds[m])
    BY <1>1, <1>3
  <2>2. Alike(queue'[i], queue[i])
    BY <1>1, <1>3
  <2>3. Of(queue[i], g) /\ queue'[i].kind = queue[i].kind /\ Of(cmds[m], g)
    BY <2>1, <2>2, AlikeFacts DEF Alike
  <2>4. queue[i].kind \in GestureKinds /\ queue[i].from = g[1] /\ queue[i].number = g[2]
    BY <2>3 DEF Of
  <2>5. g[2] < next[g[1]]
    BY <2>4, <1>3 DEF FreshInv
  <2>6. queue[i].kind \in {"ack", "end"} => Waits("ack", g) \/ Waits("end", g)
    BY <2>4, <1>3 DEF Waits, Is
  <2>7. ASSUME Open(g), ~session[g[1]].finalSent PROVE queue[i].kind \notin {"ack", "end"}
    <3>1. g[1] \in Editors /\ session[g[1]] # None /\ g = <<g[1], session[g[1]].number>>
      BY <2>7 DEF Open, Gestures
    <3> QED
      BY <3>1, <2>6, <2>7 DEF SessionInv, SessionOf
  <2>8. CASE Is(cmds[m], "begin", g) /\ g[2] = next[g[1]]
    BY <2>8, <2>5 DEF Types, Gestures
  <2>9. CASE Is(cmds[m], "write", g) /\ Open(g) /\ ~session[g[1]].finalSent
    <3>1. queue[i].kind # "write"
      BY <2>9, <2>1, <2>4, <1>3 DEF Merges, SameKey, Is
    <3>2. queue[i].kind = "begin"
      BY <3>1, <2>4, <2>7, <2>9 DEF GestureKinds
    <3> QED
      BY <3>2, <2>3, <2>1, <2>9, RankFacts DEF Is
  <2>10. CASE Is(cmds[m], "ack", g) /\ Open(g) /\ ~session[g[1]].finalSent
    <3>1. queue[i].kind \in {"begin", "write"}
      BY <2>4, <2>7, <2>10 DEF GestureKinds
    <3> QED
      BY <3>1, <2>3, <2>1, <2>10, RankFacts DEF Is
  <2>11. CASE Is(cmds[m], "end", g)
    <3>1. queue[i].kind \in {"begin", "write", "ack", "end"}
      BY <2>4 DEF GestureKinds
    <3> QED
      BY <3>1, <2>3, <2>1, <2>11, RankFacts DEF Is
  <2> QED
    BY <2>3, <2>8, <2>9, <2>10, <2>11, StepSends
<1>4. CASE j \notin DOMAIN queue /\ i \notin DOMAIN queue
  <2>1. i > Len(queue) /\ j > Len(queue)
    BY <1>1, <1>4
  <2>2. i \in (Len(queue) + 1)..Len(queue') /\ j \in (Len(queue) + 1)..Len(queue')
    BY <2>1, <1>1
  <2> QED
    BY <2>2 DEF Step, Sent, Appends
<1> QED
  BY <1>2, <1>3, <1>4

\* What a handler sends is of gestures that have begun.
LEMMA StepFresh ==
  ASSUME Types, Types', FreshInv, SessionInv,
         NEW cmds, NEW heard, NEW seen, Step(cmds, heard, seen)
  PROVE  FreshInv'
<1>1. \A x \in Editors : next[x] \in Nat /\ next'[x] \in Nat /\ next'[x] >= next[x]
  BY StepNext
<1>2. ASSUME NEW m \in DOMAIN cmds, cmds[m].kind \in GestureKinds
      PROVE  cmds[m].number \in 1..MaxGestures /\ cmds[m].number < next'[cmds[m].from]
  <2>1. Allowed(cmds[m]) /\ cmds[m] \in Commands
    BY DEF Step
  <2>2. cmds[m].from \in Editors /\ cmds[m].number \in Nat
    BY <2>1 DEF Commands
  <2>3. CASE cmds[m].kind = "begin"
    BY <2>1, <2>2, <2>3 DEF Allowed
  <2>4. CASE cmds[m].kind # "begin"
    BY <1>1, <1>2, <2>1, <2>2, <2>4 DEF Allowed, GestureKinds, Open, Gestures, SessionInv,
       SessionOf
  <2> QED
    BY <2>3, <2>4
<1>3. ASSUME NEW i \in DOMAIN queue', queue'[i].kind \in GestureKinds
      PROVE  queue'[i].number \in 1..MaxGestures /\ queue'[i].number < next'[queue'[i].from]
  <2>1. CASE i \in DOMAIN queue
    <3>0. queue \in Seq(Commands) /\ \A k \in DOMAIN queue : Alike(queue'[k], queue[k])
      BY StepQueue
    <3>1. Alike(queue'[i], queue[i]) /\ queue[i] \in Commands
      BY <2>1, <3>0
    <3>2. queue[i].from \in Editors /\ queue[i].number \in Nat
      BY <3>1 DEF Commands
    <3>3. queue[i].number \in 1..MaxGestures /\ queue[i].number < next[queue[i].from]
      BY <2>1, <3>1, <1>3 DEF FreshInv, Alike
    <3> QED
      BY <3>1, <3>2, <3>3, <1>1 DEF Alike
  <2>2. CASE i \notin DOMAIN queue
    <3>1. \E m \in DOMAIN cmds : queue'[i] = cmds[m]
      BY <2>2, StepQueue
    <3> QED
      BY <3>1, <1>2, <1>3
  <2> QED
    BY <2>1, <2>2
<1>4. ASSUME NEW e \in Editors, NEW i \in DOMAIN replies'[e], replies'[e][i].kind \in GestureKinds
      PROVE  replies'[e][i].number \in 1..MaxGestures /\ replies'[e][i].number < next'[e]
  <2>2. CASE \E j \in DOMAIN replies[e] : replies'[e][i] = replies[e][j]
    BY <1>1, <1>4, <2>2 DEF FreshInv
  <2>3. CASE replies'[e][i] = Reply("error", 0, FALSE)
    BY <2>3, <1>4 DEF Reply, GestureKinds
  <2>4. CASE \E m \in DOMAIN cmds : Refuses(cmds[m], e, replies'[e][i])
    BY <1>2, <1>4, <2>4 DEF Reply, Refuses
  <2> QED
    BY <2>2, <2>3, <2>4, StepHears
<1>5. ASSUME NEW g \in Gestures, trace'[g].began \/ trace'[g].ended PROVE g[2] < next'[g[1]]
  <2>1. trace[g].began \/ trace[g].ended
    BY <1>5, StepTrace, Zenon
  <2>2. g[2] < next[g[1]] /\ g[1] \in Editors /\ g[2] \in Nat
    BY <2>1 DEF FreshInv, Gestures
  <2> QED
    BY <2>2, <1>1
<1> QED
  BY <1>3, <1>4, <1>5 DEF FreshInv

\* A handler leaves of an open gesture in the queue what the gesture's record says.
LEMMA StepSession ==
  ASSUME Types, Types', FreshInv, SessionInv,
         NEW cmds, NEW heard, NEW seen, Step(cmds, heard, seen)
  PROVE  SessionInv'
<1> SUFFICES ASSUME NEW x \in Editors, session'[x] # None PROVE SessionOf(x)'
  BY DEF SessionInv
<1> DEFINE s == session[x]
           t == session'[x]
<1>0. t \in Sessions /\ t.number \in 1..MaxGestures
  BY DEF Types, Sessions
<1> PICK g \in Gestures : g = <<x, t.number>>
  BY <1>0 DEF Gestures
<1>1. g \in Gestures /\ g[1] = x /\ g[2] = t.number
  OBVIOUS
<1>2. next[x] \in Nat /\ next'[x] \in Nat /\ next'[x] >= next[x] /\ t.number \in Nat
  BY <1>0, StepNext
<1>3. /\ trace'[g].ended <=> trace[g].ended
      /\ trace[g].refused => trace'[g].refused
      /\ trace'[g].written = trace[g].written
      /\ trace'[g].kept = seen[g].kept
  BY <1>1, StepTrace
<1>4. \A kind \in {"ack", "end"} :
        /\ Waits(kind, g) => Waits(kind, g)'
        /\ Waits(kind, g)' => Waits(kind, g) \/ Sends(cmds, kind, g)
        /\ Sends(cmds, kind, g) => trace'[g].refused \/ Waits(kind, g)'
  BY <1>1, StepWaits DEF GestureKinds
<1>5. Settled(g) /\ (~Open(g) \/ s.finalSent) => Settled(g)'
  BY <1>1, StepSettled
<1>6. \A i \in DOMAIN queue' : Is(queue'[i], "ack", g) =>
        \/ i \in DOMAIN queue /\ Is(queue[i], "ack", g) /\ queue'[i] = queue[i]
        \/ \E m \in DOMAIN cmds : queue'[i] = cmds[m] /\ Is(cmds[m], "ack", g)
  BY <1>1, StepEntry
<1>7. CASE Rests(x, cmds, seen)
  <2>1. t = s /\ Open(g) /\ seen[g].kept = trace[g].kept
    BY <1>1, <1>7 DEF Rests, Open, Gesture
  <2>2. \A kind \in {"ack", "write", "end"} : ~Sends(cmds, kind, g)
    BY <1>1, <1>7 DEF Rests, Sends, Is, GestureKinds
  <2>3. Settled(g) => Settled(g)'
    BY <1>1, <2>2, StepWaits DEF Settled
  <2>4. SessionOf(x)
    BY <2>1 DEF SessionInv
  <2>5. /\ s.number < next[x]
        /\ s.finalSent => s.ending
        /\ s.ending => trace[g].kept = s.value
        /\ s.ending /\ ~s.finalSent => s.dirty /\ ~s.ready
        /\ s.accepted => s.finalSent /\ trace[g].written = s.value /\ Settled(g)
        /\ Waits("ack", g) \/ Waits("end", g) \/ trace[g].ended => s.finalSent
        /\ \A i \in DOMAIN queue : Is(queue[i], "ack", g) => queue[i].value = s.value
        /\ s.finalSent => \/ trace[g].refused
                          \/ Waits("ack", g)
                          \/ trace[g].written = s.value /\ Settled(g)
    BY <2>1, <2>4 DEF SessionOf
  <2> HIDE DEF s, t
  <2>6. t.number < next'[x]
    BY <2>1, <2>5, <1>2
  <2>7. /\ t.finalSent => t.ending
        /\ t.ending => trace'[g].kept = t.value
        /\ t.ending /\ ~t.finalSent => t.dirty /\ ~t.ready
        /\ t.accepted => t.finalSent /\ trace'[g].written = t.value /\ Settled(g)'
        /\ Waits("ack", g)' \/ Waits("end", g)' \/ trace'[g].ended => t.finalSent
        /\ \A i \in DOMAIN queue' : Is(queue'[i], "ack", g) => queue'[i].value = t.value
        /\ t.finalSent => \/ trace'[g].refused
                          \/ Waits("ack", g)'
                          \/ trace'[g].written = t.value /\ Settled(g)'
    BY <2>1, <2>2, <2>3, <2>5, <1>3, <1>4, <1>6 DEF Sends
  <2> QED
    BY <2>6, <2>7 DEF SessionOf, t
<1>8. CASE Begins(x, cmds)
  <2>1. /\ s = None /\ t.number = next[x] /\ next'[x] = next[x] + 1
        /\ ~t.ending /\ ~t.finalSent /\ ~t.accepted
    BY <1>8 DEF Begins
  <2>2. ~Open(g) /\ g[2] = next[g[1]]
    BY <1>1, <2>1 DEF Open
  <2>3. \A kind \in GestureKinds : ~Waits(kind, g)
    BY <1>1, <1>2, <2>1 DEF Waits, Is, FreshInv
  <2>4. ~trace[g].ended
    <3> SUFFICES ASSUME trace[g].ended PROVE FALSE
      OBVIOUS
    <3>1. g[2] < next[g[1]]
      BY DEF FreshInv
    <3> QED
      BY <3>1, <1>2, <1>1, <2>1
  <2>5. ASSUME NEW kind \in {"ack", "end"}, Sends(cmds, kind, g) PROVE FALSE
    <3>1. PICK m \in DOMAIN cmds : Is(cmds[m], kind, g)
      BY <2>5 DEF Sends
    <3>2. Of(cmds[m], g) /\ cmds[m].kind = kind
      BY <3>1 DEF Is, Of, GestureKinds
    <3> QED
      BY <3>2, <2>2, StepSends DEF Is
  <2>6. ~Waits("ack", g)' /\ ~Waits("end", g)' /\ ~trace'[g].ended
    BY <1>3, <1>4, <2>3, <2>4, <2>5 DEF GestureKinds
  <2>7. t.number < next'[x]
    BY <2>1, <1>2
  <2> HIDE DEF s, t
  <2> QED
    BY <2>1, <2>6, <2>7 DEF SessionOf, t, Waits
<1>9. CASE Moves(x, cmds, seen)
  <2>1. s \in Sessions /\ t.number = s.number /\ s # None
    BY <1>9, NoneAssumption DEF Moves
  <2>2. Open(g) /\ g = <<x, s.number>>
    BY <1>1, <2>1 DEF Open
  <2>3. SessionOf(x)
    BY <2>1 DEF SessionInv
  <2>4. /\ s.number < next[x]
        /\ s.finalSent => s.ending
        /\ Waits("ack", g) \/ Waits("end", g) \/ trace[g].ended => s.finalSent
        /\ \A i \in DOMAIN queue : Is(queue[i], "ack", g) => queue[i].value = s.value
        /\ s.finalSent => \/ trace[g].refused
                          \/ Waits("ack", g)
                          \/ trace[g].written = s.value /\ Settled(g)
    BY <2>2, <2>3 DEF SessionOf
  <2>5. /\ s.finalSent => t.finalSent
        /\ s.ending => t.ending /\ t.value = s.value
        /\ t.accepted => t.finalSent /\ trace[g].written = s.value /\ Settled(g) /\ s.finalSent
        /\ t.finalSent => s.finalSent \/ Sends(cmds, "ack", g)
        /\ Sends(cmds, "ack", g) \/ Sends(cmds, "end", g) => t.finalSent
        /\ \A m \in DOMAIN cmds : Is(cmds[m], "ack", g) => cmds[m].value = t.value
        /\ t.finalSent => t.ending
        /\ t.ending => seen[g].kept = t.value
        /\ t.ending /\ ~t.finalSent => t.dirty /\ ~t.ready
    BY <1>9, <2>2 DEF Moves
  <2> HIDE DEF s, t
  <2>6. t.number < next'[x]
    BY <2>1, <2>4, <1>2
  <2>7. t.ending => trace'[g].kept = t.value
    BY <2>5, <1>3
  <2>8. t.accepted => t.finalSent /\ trace'[g].written = t.value /\ Settled(g)'
    BY <2>4, <2>5, <1>3, <1>5
  <2>9. Waits("ack", g)' \/ Waits("end", g)' \/ trace'[g].ended => t.finalSent
    BY <2>4, <2>5, <1>3, <1>4
  <2>10. \A i \in DOMAIN queue' : Is(queue'[i], "ack", g) => queue'[i].value = t.value
    <3>1. \A i \in DOMAIN queue : Is(queue[i], "ack", g) => s.finalSent
      BY <2>4 DEF Waits
    <3> QED
      BY <1>6, <2>4, <2>5, <3>1
  <2>11. t.finalSent => \/ trace'[g].refused
                        \/ Waits("ack", g)'
                        \/ trace'[g].written = t.value /\ Settled(g)'
    <3>1. CASE s.finalSent
      BY <3>1, <2>4, <2>5, <1>3, <1>4, <1>5
    <3>2. CASE Sends(cmds, "ack", g)
      BY <3>2, <1>4
    <3> QED
      BY <3>1, <3>2, <2>5
  <2> QED
    BY <2>5, <2>6, <2>7, <2>8, <2>9, <2>10, <2>11 DEF SessionOf, t
<1>10. CASE Closes(x, cmds)
  BY <1>10 DEF Closes
<1> QED
  BY <1>7, <1>8, <1>9, <1>10 DEF Step

\* While a gesture is open, nothing of others is sent.
LEMMA OnlyMine ==
  ASSUME FocusInv, NEW cmds, NEW heard, NEW seen, Step(cmds, heard, seen),
         NEW g \in Gestures, Open(g), NEW m \in DOMAIN cmds
  PROVE  Mine(cmds[m], g)
<1>1. Allowed(cmds[m]) /\ cmds[m] \in Commands
  BY DEF Step
<1>2. cmds[m].from \in Editors /\ g[1] \in Editors
  BY <1>1 DEF Commands, Gestures
<1>3. ~Idle
  BY <1>2 DEF Idle, Open
<1>4. cmds[m].kind # "activate" =>
        Open(<<cmds[m].from, cmds[m].number>>) /\ cmds[m].kind \in {"write", "ack", "end"}
  BY <1>1, <1>3 DEF Allowed
<1>5. Open(<<cmds[m].from, cmds[m].number>>) => cmds[m].from = g[1] /\ cmds[m].number = g[2]
  BY <1>2 DEF Open, FocusInv
<1> QED
  BY <1>4, <1>5 DEF Mine, Of, GestureKinds

\* What a handler sends of a gesture has the begin, or the point it took, ahead of it.
LEMMA StepLead ==
  ASSUME Types, Types', FocusInv, FreshInv, LeadInv,
         NEW cmds, NEW heard, NEW seen, Step(cmds, heard, seen)
  PROVE  LeadInv'
<1>1. /\ \A k \in DOMAIN queue : k \in DOMAIN queue' /\ Alike(queue'[k], queue[k])
      /\ \A k \in DOMAIN queue' : k \notin DOMAIN queue =>
            \E m \in DOMAIN cmds : queue'[k] = cmds[m]
      /\ queue \in Seq(Commands) /\ queue' \in Seq(Commands)
      /\ Len(queue) \in Nat /\ Len(queue') \in Nat /\ Len(queue) <= Len(queue')
  BY StepQueue
<1>2. owner' = owner
  BY DEF Step
<1>3. ASSUME NEW g \in Gestures, NEW i \in 1..(Len(queue) + 1), NEW n \in i..(Len(queue') + 1),
             Lead(g, i), \A k \in i..(n - 1) : Mine(queue'[k], g)
      PROVE  Lead(g, n)'
  <2>1. \A k \in 1..(i - 1) : k \in DOMAIN queue /\ k \in 1..(n - 1)
                                /\ (Mine(queue'[k], g) <=> Mine(queue[k], g))
                                /\ (Is(queue'[k], "begin", g) <=> Is(queue[k], "begin", g))
    <3> TAKE k \in 1..(i - 1)
    <3>1. k \in DOMAIN queue /\ k \in 1..(n - 1)
      BY <1>1
    <3>2. Alike(queue'[k], queue[k])
      BY <3>1, <1>1
    <3> QED
      BY <3>1, <3>2, AlikeFacts
  <2>2. \A k \in 1..(n - 1) : k \in 1..(i - 1) \/ k \in i..(n - 1)
    BY <1>1
  <2>3. CASE trace[g].refused
    <3>1. trace'[g].refused
      BY <2>3, StepTrace
    <3> QED
      BY <3>1 DEF Lead
  <2>4. CASE \E j \in 1..(i - 1) :
               Is(queue[j], "begin", g) /\ \A k \in (j + 1)..(i - 1) : Mine(queue[k], g)
    <3>1. PICK j \in 1..(i - 1) :
               Is(queue[j], "begin", g) /\ \A k \in (j + 1)..(i - 1) : Mine(queue[k], g)
      BY <2>4
    <3>2. j \in 1..(n - 1) /\ Is(queue'[j], "begin", g)
      BY <3>1, <2>1
    <3>3. \A k \in (j + 1)..(n - 1) : Mine(queue'[k], g)
      BY <1>3, <2>1, <2>2, <3>1
    <3> QED
      BY <3>2, <3>3 DEF Lead
  <2>5. CASE owner = g /\ \A k \in 1..(i - 1) : Mine(queue[k], g)
    <3>1. \A k \in 1..(n - 1) : Mine(queue'[k], g)
      BY <2>1, <2>2, <2>5, <1>3
    <3> QED
      BY <3>1, <2>5, <1>2 DEF Lead
  <2> QED
    BY <2>3, <2>4, <2>5, <1>3 DEF Lead
<1>4. ASSUME NEW g \in Gestures, Open(g), NEW n \in (Len(queue) + 1)..(Len(queue') + 1)
      PROVE  Lead(g, n)'
  <2>1. g[1] \in Editors /\ g = <<g[1], session[g[1]].number>> /\ session[g[1]] # None
    BY <1>4 DEF Open, Gestures
  <2>2. Lead(g, Len(queue) + 1)
    BY <2>1 DEF LeadInv
  <2>3. \A k \in (Len(queue) + 1)..(n - 1) : Mine(queue'[k], g)
    BY <1>1, <1>4, OnlyMine
  <2>4. Len(queue) + 1 \in 1..(Len(queue) + 1)
    BY <1>1
  <2> QED
    BY <2>2, <2>3, <2>4, <1>3
<1>5. ASSUME NEW i \in DOMAIN queue', NEW g \in Gestures,
             NEW kind \in {"write", "ack"}, Is(queue'[i], kind, g)
      PROVE  Lead(g, i)'
  <2>1. CASE i \in DOMAIN queue /\ Is(queue[i], kind, g)
    <3>1. Lead(g, i) /\ i \in 1..(Len(queue) + 1) /\ i \in i..(Len(queue') + 1)
      BY <2>1, <1>1 DEF LeadInv
    <3>2. \A k \in i..(i - 1) : Mine(queue'[k], g)
      BY <1>1
    <3> QED
      BY <3>1, <3>2, <1>3
  <2>2. CASE i \notin DOMAIN queue /\ \E m \in DOMAIN cmds : Is(cmds[m], kind, g)
    BY <1>1, <1>4, <2>2, StepSends DEF Is, Of, GestureKinds
  <2> QED
    BY <2>1, <2>2, <1>5, StepEntry
<1>6. ASSUME NEW x \in Editors, session'[x] # None,
             NEW g \in Gestures, g = <<x, session'[x].number>>,
             NEW n, n = Len(queue') + 1
      PROVE  Lead(g, n)'
  <2>1. CASE Open(g)
    <3>1. n \in (Len(queue) + 1)..(Len(queue') + 1)
      BY <1>1, <1>6
    <3> QED
      BY <2>1, <3>1, <1>4
  <2>2. CASE Begins(x, cmds)
    <3>1. g = <<x, next[x]>> /\ \A m \in DOMAIN cmds : Mine(cmds[m], g)
      BY <2>2, <1>6 DEF Begins
    <3>2. PICK m \in DOMAIN cmds : Is(cmds[m], "begin", g)
      BY <3>1, <2>2 DEF Begins, Sends
    <3>3. Of(cmds[m], g) /\ ~Merges(cmds[m])
      BY <3>2 DEF Of, Is, GestureKinds, Merges, SameKey
    <3>4. trace'[g].refused \/ \E i \in (Len(queue) + 1)..Len(queue') : queue'[i] = cmds[m]
      BY <3>3 DEF Step, Sent, Arrives
    <3>5. CASE trace'[g].refused
      BY <3>5 DEF Lead
    <3>6. CASE \E i \in (Len(queue) + 1)..Len(queue') : queue'[i] = cmds[m]
      <4>1. PICK i \in (Len(queue) + 1)..Len(queue') : queue'[i] = cmds[m]
        BY <3>6
      <4>2. \A k \in (i + 1)..Len(queue') : Mine(queue'[k], g)
        <5> TAKE k \in (i + 1)..Len(queue')
        <5>1. k \in DOMAIN queue' /\ k \notin DOMAIN queue
          BY <1>1
        <5> QED
          BY <5>1, <1>1, <3>1
      <4>3. i \in 1..(n - 1) /\ n - 1 = Len(queue')
        BY <1>1, <1>6
      <4> QED
        BY <4>1, <4>2, <4>3, <3>2 DEF Lead
    <3> QED
      BY <3>4, <3>5, <3>6
  <2>3. Open(g) \/ Begins(x, cmds)
    <3>1. \/ session'[x] = session[x] \/ Begins(x, cmds)
          \/ session[x] \in Sessions /\ session'[x].number = session[x].number
      BY <1>6 DEF Step, Rests, Moves, Closes
    <3> QED
      BY <3>1, <1>6, NoneAssumption DEF Open
  <2> QED
    BY <2>1, <2>2, <2>3
<1>7. ASSUME NEW x \in Editors, session'[x] # None
      PROVE  Lead(<<x, session[x].number>>, Len(queue) + 1)'
  <2>1. PICK g \in Gestures : g = <<x, session'[x].number>>
    BY <1>7 DEF Types, Sessions, Gestures
  <2>2. PICK n : n = Len(queue') + 1
    OBVIOUS
  <2>3. Lead(g, n)'
    BY <2>1, <2>2, <1>6, <1>7
  <2> QED
    BY <2>1, <2>2, <2>3 DEF Lead
<1> QED
  BY <1>5, <1>7 DEF LeadInv

\* What is sent of a gesture that is not refused is in the queue, and ahead of
\* what is sent after it.
LEMMA Delivered ==
  ASSUME Types, Types', NEW cmds, NEW heard, NEW seen, Step(cmds, heard, seen),
         NEW g \in Gestures, NEW kind \in GestureKinds,
         NEW m \in DOMAIN cmds, Is(cmds[m], kind, g), ~trace'[g].refused,
         NEW i \in DOMAIN queue', i \notin DOMAIN queue, Rank(kind) < Rank(queue'[i].kind)
  PROVE  \E j \in 1..(i - 1) : Is(queue'[j], kind, g) /\ queue'[j].value = cmds[m].value
<1>1. /\ queue \in Seq(Commands) /\ queue' \in Seq(Commands) /\ cmds \in Seq(Commands)
      /\ Len(queue) \in Nat /\ Len(queue') \in Nat /\ Len(queue) <= Len(queue')
      /\ \A k \in DOMAIN queue' : k \notin DOMAIN queue => k > Len(queue)
  BY StepQueue
<1>2. i \in (Len(queue) + 1)..Len(queue')
  BY <1>1
<1>3. Of(cmds[m], g)
  BY DEF Of, Is
<1>4. Merges(cmds[m]) \/ \E j \in (Len(queue) + 1)..Len(queue') : queue'[j] = cmds[m]
  BY <1>3 DEF Step, Sent, Arrives
<1>5. CASE Merges(cmds[m])
  <2>1. PICK j \in DOMAIN queue : SameKey(queue[j], cmds[m])
    BY <1>5 DEF Merges
  <2>2. j \in 1..Len(queue) /\ j \in 1..(i - 1)
    BY <1>1, <1>2
  <2>3. PICK l \in DOMAIN cmds : SameKey(queue[j], cmds[l]) /\ queue'[j] = cmds[l]
    BY <2>1, <2>2 DEF Step, Sent, Stays
  <2>4. cmds[l].kind = "write" /\ cmds[m].kind = "write"
        /\ cmds[l].from = cmds[m].from /\ cmds[l].number = cmds[m].number
    BY <2>1, <2>3 DEF SameKey
  <2>5. ~(l < m) /\ ~(m < l)
    <3>1. Ranked(cmds)
      BY DEF Step
    <3> QED
      BY <3>1, <2>4, RankFacts DEF Ranked
  <2>6. l = m
    BY <2>5, <1>1
  <2> QED
    BY <2>2, <2>3, <2>6
<1>6. CASE \E j \in (Len(queue) + 1)..Len(queue') : queue'[j] = cmds[m]
  <2>1. PICK j \in (Len(queue) + 1)..Len(queue') : queue'[j] = cmds[m]
    BY <1>6
  <2>2. Rank(queue'[j].kind) < Rank(queue'[i].kind)
    BY <2>1 DEF Is
  <2>3. i < j => Rank(queue'[i].kind) < Rank(queue'[j].kind)
    BY <1>2, <2>1 DEF Step, Sent, Appends
  <2>4. queue'[i] \in Commands /\ queue'[j] \in Commands
    BY <1>1, <1>2, <2>1
  <2>5. Rank(queue'[i].kind) \in Nat /\ Rank(queue'[j].kind) \in Nat
    BY <2>4, RankFacts DEF Commands, Kinds
  <2>6. ~(i < j) /\ i # j
    BY <2>2, <2>3, <2>5
  <2>7. j \in 1..(i - 1)
    BY <1>1, <1>2, <2>6
  <2> QED
    BY <2>1, <2>7
<1> QED
  BY <1>4, <1>5, <1>6

\* An acknowledgement is sent behind the write of the same position.
LEMMA StepAck ==
  ASSUME Types, Types', SessionInv, AckInv,
         NEW cmds, NEW heard, NEW seen, Step(cmds, heard, seen)
  PROVE  AckInv'
<1> SUFFICES ASSUME NEW i \in DOMAIN queue', NEW g \in Gestures, Is(queue'[i], "ack", g),
                    ~trace'[g].refused
             PROVE  \/ \E j \in 1..(i - 1) :
                          Is(queue'[j], "write", g) /\ queue'[j].value = queue'[i].value
                    \/ /\ value' = queue'[i].value
                       /\ \A j \in 1..(i - 1) :
                             ~Is(queue'[j], "write", g) /\ ~Is(queue'[j], "begin", g)
  BY DEF AckInv
<1>1. /\ queue \in Seq(Commands) /\ Len(queue) \in Nat
      /\ \A k \in DOMAIN queue : Alike(queue'[k], queue[k])
  BY StepQueue
<1>2. CASE i \in DOMAIN queue /\ Is(queue[i], "ack", g) /\ queue'[i] = queue[i]
  <2>1. ~trace[g].refused /\ value' = value
    BY StepTrace DEF Step
  <2>2. Open(g) => session[g[1]].finalSent
    BY <1>2 DEF Open, Gestures, Waits, SessionInv, SessionOf
  <2>3. ASSUME NEW j \in 1..(i - 1)
        PROVE  /\ j \in DOMAIN queue /\ j \in DOMAIN queue'
               /\ \A kind : Is(queue'[j], kind, g) <=> Is(queue[j], kind, g)
               /\ Is(queue[j], "write", g) => queue'[j] = queue[j]
    <3>1. j \in DOMAIN queue
      BY <1>1, <1>2
    <3>2. Alike(queue'[j], queue[j]) /\ j \in DOMAIN queue'
      BY <3>1, StepQueue
    <3>3. \A kind : Is(queue'[j], kind, g) <=> Is(queue[j], kind, g)
      BY <3>2, AlikeFacts
    <3>4. ASSUME Is(queue'[j], "write", g) PROVE queue'[j] = queue[j]
      BY <3>1, <3>2, <3>4, <2>2, StepEntry
    <3> QED
      BY <3>1, <3>2, <3>3, <3>4
  <2> QED
    BY <1>2, <2>1, <2>3 DEF AckInv
<1>3. CASE i \notin DOMAIN queue /\ \E m \in DOMAIN cmds : queue'[i] = cmds[m] /\ Is(cmds[m], "ack", g)
  BY <1>3, RankFacts, Delivered DEF Step, Complete, Is, GestureKinds
<1> QED
  BY <1>2, <1>3, StepEntry

\* Once its end is sent, the kept position of a gesture can only be given up.
LEMMA KeptStays ==
  ASSUME Types, SessionInv, NEW cmds, NEW heard, NEW seen, Step(cmds, heard, seen),
         NEW g \in Gestures, Waits("end", g) \/ trace[g].ended
  PROVE  /\ trace'[g].kept = trace[g].kept \/ trace'[g].kept = None
         /\ ~Open(g) \/ session[g[1]].finalSent
<1>1. CASE Open(g)
  BY <1>1, StepTrace DEF Open, Gestures, SessionInv, SessionOf, Step, Sees
<1>2. CASE ~Open(g)
  <2>1. trace'[g].kept = seen[g].kept
    BY StepTrace
  <2>2. Sees(seen)
    BY DEF Step
  <2>3. seen[g].kept = trace[g].kept
    BY <1>2, <2>2 DEF Sees
  <2> QED
    BY <1>2, <2>1, <2>3
<1> QED
  BY <1>1, <1>2

\* The end of a gesture is sent behind the acknowledgement of what was kept.
LEMMA StepEnd ==
  ASSUME Types, Types', SessionInv, EndInv,
         NEW cmds, NEW heard, NEW seen, Step(cmds, heard, seen)
  PROVE  EndInv'
<1> DEFINE Done(g) == trace[g].written = trace[g].kept /\ Settled(g)
<1>1. /\ queue \in Seq(Commands) /\ Len(queue) \in Nat
      /\ \A k \in DOMAIN queue : Alike(queue'[k], queue[k])
  BY StepQueue
<1>2. ASSUME NEW g \in Gestures, Waits("end", g) \/ trace[g].ended, Done(g), trace'[g].kept # None
      PROVE  Done(g)'
  BY <1>2, KeptStays, StepSettled, StepTrace
<1>3. ASSUME NEW i \in DOMAIN queue, NEW j \in 1..(i - 1), NEW g \in Gestures,
             Is(queue[j], "ack", g)
      PROVE  Is(queue'[j], "ack", g) /\ queue'[j].value = queue[j].value
  <2>1. j \in DOMAIN queue
    BY <1>1
  <2>2. Alike(queue'[j], queue[j]) /\ j \in DOMAIN queue'
    BY <2>1, StepQueue
  <2>3. Is(queue'[j], "ack", g)
    BY <1>3, <2>2, AlikeFacts
  <2> QED
    BY <2>1, <2>2, <2>3, StepEntry
<1>4. ASSUME NEW i \in DOMAIN queue', NEW g \in Gestures, Is(queue'[i], "end", g),
             ~trace'[g].refused, trace'[g].kept # None
      PROVE  \/ \E j \in 1..(i - 1) : Is(queue'[j], "ack", g) /\ queue'[j].value = trace'[g].kept
             \/ Done(g)'
  <2>1. ~trace[g].refused /\ trace'[g].kept = seen[g].kept /\ trace'[g].written = trace[g].written
    BY <1>4, StepTrace
  <2>2. CASE i \in DOMAIN queue /\ Is(queue[i], "end", g)
    BY <1>2, <1>3, <1>4, <2>1, <2>2, KeptStays DEF Waits, EndInv
  <2>3. CASE i \notin DOMAIN queue /\ \E m \in DOMAIN cmds : Is(cmds[m], "end", g)
    <3>1. PICK m \in DOMAIN cmds : Is(cmds[m], "end", g)
      BY <2>3
    <3>2. Of(cmds[m], g)
      BY <3>1 DEF Is, Of, GestureKinds
    <3>3. Open(g)
      BY <3>1, <3>2, StepSends DEF Is
    <3>4. g[1] \in Editors /\ g = <<g[1], session[g[1]].number>> /\ session[g[1]] # None
      BY <3>3 DEF Open, Gestures
    <3>5. Complete(cmds, seen)
      BY DEF Step
    <3>6. \/ \E l \in DOMAIN cmds : Is(cmds[l], "ack", g) /\ cmds[l].value = seen[g].kept
          \/ session[g[1]].finalSent /\ seen[g].kept = session[g[1]].value
      BY <1>4, <2>1, <3>1, <3>5 DEF Complete
    <3>7. CASE \E l \in DOMAIN cmds : Is(cmds[l], "ack", g) /\ cmds[l].value = seen[g].kept
      BY <1>4, <2>1, <2>3, <3>7, RankFacts, Delivered DEF Is, GestureKinds
    <3>8. CASE session[g[1]].finalSent /\ seen[g].kept = session[g[1]].value
      <4>1. \/ Waits("ack", g)
            \/ trace[g].written = session[g[1]].value /\ Settled(g)
        BY <2>1, <3>4, <3>8 DEF SessionInv, SessionOf
      <4>2. \A k \in DOMAIN queue : Is(queue[k], "ack", g) => queue[k].value = session[g[1]].value
        BY <3>4 DEF SessionInv, SessionOf
      <4>3. CASE Settled(g) /\ trace[g].written = session[g[1]].value
        <5>1. Settled(g)'
          BY <3>8, <4>3, StepSettled
        <5> QED
          BY <2>1, <3>8, <4>3, <5>1
      <4>4. CASE Waits("ack", g)
        <5>1. PICK j \in DOMAIN queue : Is(queue[j], "ack", g)
          BY <4>4 DEF Waits
        <5>2. i > Len(queue)
          BY <2>3, StepQueue
        <5>3. j \in 1..(i - 1)
          BY <5>2, <1>1, SMTT(30)
        <5>4. Alike(queue'[j], queue[j]) /\ j \in DOMAIN queue'
          BY StepQueue
        <5>5. Is(queue'[j], "ack", g)
          BY <5>1, <5>4, AlikeFacts
        <5>6. queue'[j] = queue[j]
          BY <5>4, <5>5, StepEntry
        <5>7. queue'[j].value = trace'[g].kept
          BY <2>1, <3>8, <4>2, <5>1, <5>6
        <5> QED
          BY <5>3, <5>5, <5>7
      <4> QED
        BY <4>1, <4>3, <4>4
    <3> QED
      BY <3>6, <3>7, <3>8
  <2> QED
    BY <2>2, <2>3, <1>4, StepEntry
<1>5. ASSUME NEW g \in Gestures, trace'[g].ended, ~trace'[g].refused, trace'[g].kept # None
      PROVE  Done(g)'
  <2>1. trace[g].ended /\ ~trace[g].refused
    BY <1>5, StepTrace
  <2>2. trace'[g].kept = trace[g].kept
    BY <1>5, <2>1, KeptStays
  <2>3. Done(g)
    BY <1>5, <2>1, <2>2 DEF EndInv
  <2> QED
    BY <1>2, <1>5, <2>1, <2>3
<1> QED
  BY <1>4, <1>5 DEF EndInv

\* A handler breaks nothing the replies on their way say of a gesture.
LEMMA StepReply ==
  ASSUME Types, Types', FreshInv, SessionInv, ReplyInv,
         NEW cmds, NEW heard, NEW seen, Step(cmds, heard, seen)
  PROVE  ReplyInv'
<1> SUFFICES ASSUME NEW e \in Editors, NEW i \in DOMAIN replies'[e],
                    NEW r, r = replies'[e][i]
             PROVE  ReplyOf(e, r)'
  BY DEF ReplyInv, ReplyOf
<1>1. CASE r.kind = "ack" \/ r.kind = "end"
  <2>1. replies' \in [Editors -> Seq(Replies)]
    BY DEF Types
  <2>2. r \in Replies /\ r.kind \in GestureKinds
    BY <1>1, <2>1 DEF GestureKinds
  <2>3. r.number \in 1..MaxGestures
    BY <2>2, StepFresh DEF FreshInv
  <2> PICK g \in Gestures : g = <<e, r.number>>
    BY <2>3 DEF Gestures
  <2>4. g \in Gestures /\ g[1] = e /\ g[2] = r.number
    OBVIOUS
  <2>5. /\ trace'[g].ended <=> trace[g].ended
        /\ trace[g].refused => trace'[g].refused
        /\ trace'[g].written = trace[g].written
    BY StepTrace
  <2>6. Rests(e, cmds, seen) \/ Begins(e, cmds) \/ Moves(e, cmds, seen) \/ Closes(e, cmds)
    BY DEF Step
  <2>7. CASE \E j \in DOMAIN replies[e] : r = replies[e][j]
    <3>1. PICK j \in DOMAIN replies[e] : r = replies[e][j]
      BY <2>7
    <3>2. ReplyOf(e, r)
      BY <3>1 DEF ReplyInv
    <3>3. r.number < next[e] /\ next[e] \in Nat /\ r.number \in Nat
      BY <3>1, <2>2, <2>3, StepNext DEF FreshInv
    <3>4. r.kind = "end" => Over(g)'
      BY <3>2, <2>5 DEF ReplyOf, Over
    <3>5. ASSUME r.kind = "ack", Open(g)'
          PROVE  session'[e].finalSent /\ (r.ok => trace'[g].written = session'[e].value /\ Settled(g)')
      <4>1. session'[e] # None /\ session'[e].number = r.number
        BY <3>5 DEF Open
      <4>2. ~Begins(e, cmds)
        BY <3>3, <4>1 DEF Begins
      <4>3. Open(g) /\ (session'[e] = session[e] \/ Moves(e, cmds, seen))
        BY <2>6, <4>1, <4>2, NoneAssumption DEF Open, Rests, Moves, Closes
      <4>4. session[e].finalSent /\ (r.ok => trace[g].written = session[e].value /\ Settled(g))
        BY <3>2, <3>5, <4>3 DEF ReplyOf
      <4>5. session[e].ending
        BY <4>3, <4>4 DEF SessionInv, SessionOf, Open
      <4>6. session'[e].finalSent /\ session'[e].value = session[e].value
        BY <4>3, <4>4, <4>5 DEF Moves
      <4>7. Settled(g) => Settled(g)'
        BY <4>4, StepSettled
      <4> QED
        BY <4>4, <4>6, <4>7, <2>5
    <3> QED
      BY <3>4, <3>5 DEF ReplyOf
  <2>8. CASE r = Reply("error", 0, FALSE)
    BY <2>8, <1>1 DEF Reply
  <2>9. CASE \E m \in DOMAIN cmds : Refuses(cmds[m], e, r)
    <3>1. PICK m \in DOMAIN cmds : Refuses(cmds[m], e, r)
      BY <2>9
    <3>2. cmds[m].from = e /\ r.kind = cmds[m].kind /\ r.number = cmds[m].number /\ ~r.ok
      BY <3>1 DEF Refuses, Reply
    <3>3. Of(cmds[m], g) /\ trace'[g].refused
      BY <3>1, <3>2, <2>2 DEF Of, Refuses
    <3>4. ASSUME r.kind = "ack", Open(g)' PROVE session'[e].finalSent
      <4>1. session'[e] # None /\ session'[e].number = r.number
        BY <3>4 DEF Open
      <4>2. Is(cmds[m], "ack", g)
        BY <3>2, <3>4 DEF Is
      <4>3. ~Rests(e, cmds, seen)
        BY <3>2, <2>2 DEF Rests
      <4>4. Open(g)
        BY <3>3, <4>2, StepSends DEF Is
      <4>5. ~Begins(e, cmds) /\ ~Closes(e, cmds)
        BY <4>1, <4>4 DEF Begins, Closes, Open
      <4>6. Moves(e, cmds, seen) /\ g = <<e, session[e].number>>
        BY <2>6, <4>3, <4>4, <4>5 DEF Open
      <4>7. Sends(cmds, "ack", g)
        BY <4>2 DEF Sends
      <4> QED
        BY <4>6, <4>7 DEF Moves
    <3> QED
      BY <3>2, <3>3, <3>4 DEF ReplyOf, Over
  <2> QED
    BY <2>7, <2>8, <2>9, StepHears
<1> QED
  BY <1>1 DEF ReplyOf

\* A handler that gives a gesture up sends its end or finds it refused.
LEMMA StepClosed ==
  ASSUME Types, Types', FreshInv, SessionInv, ClosedInv,
         NEW cmds, NEW heard, NEW seen, Step(cmds, heard, seen)
  PROVE  ClosedInv'
<1> SUFFICES ASSUME NEW g \in Gestures, g[2] < next'[g[1]], ~Open(g)',
                    ~trace'[g].ended, ~trace'[g].refused
             PROVE  Waits("end", g)'
  BY DEF ClosedInv, Over
<1> DEFINE x == g[1]
<1>1. x \in Editors /\ g[2] \in Nat /\ g = <<x, g[2]>>
  BY DEF Gestures
<1>2. ~Over(g)
  BY StepTrace DEF Over
<1>3. Rests(x, cmds, seen) \/ Begins(x, cmds) \/ Moves(x, cmds, seen) \/ Closes(x, cmds)
  BY <1>1 DEF Step
<1>4. CASE Open(g)
  <2>1. Closes(x, cmds) /\ Gesture(x) = g
    BY <1>1, <1>3, <1>4, NoneAssumption DEF Rests, Begins, Moves, Closes, Open, Gesture
  <2>2. Sends(cmds, "end", g)
    BY <2>1, <1>2 DEF Closes
  <2> QED
    BY <2>2, StepWaits DEF GestureKinds
<1>5. CASE ~Open(g)
  <2>1. g[2] < next[x]
    <3>1. CASE Begins(x, cmds)
      <4>1. session'[x] # None /\ session'[x].number = next[x] /\ next'[x] = next[x] + 1
        BY <3>1, NoneAssumption DEF Begins
      <4>2. g[2] # next[x]
        BY <4>1 DEF Open
      <4> QED
        BY <4>1, <4>2, <1>1, StepNext
    <3>2. CASE next'[x] = next[x]
      BY <3>2
    <3> QED
      BY <3>1, <3>2, <1>1, StepNext
  <2>2. Waits("end", g)
    BY <2>1, <1>2, <1>5 DEF ClosedInv
  <2> QED
    BY <2>2, StepWaits
<1> QED
  BY <1>4, <1>5

\* A gesture is begun behind the end of every other one.
LEMMA StepExclusive ==
  ASSUME Types, Types', FreshInv, ClosedInv, ExclusiveInv,
         NEW cmds, NEW heard, NEW seen, Step(cmds, heard, seen)
  PROVE  ExclusiveInv'
<1> SUFFICES ASSUME NEW i \in DOMAIN queue', NEW g \in Gestures, NEW h \in Gestures,
                    Is(queue'[i], "begin", h), g # h,
                    trace'[g].began \/ \E j \in 1..(i - 1) : Is(queue'[j], "begin", g)
             PROVE  Over(g)' \/ \E j \in 1..(i - 1) : Is(queue'[j], "end", g)
  BY DEF ExclusiveInv
<1>1. /\ queue \in Seq(Commands) /\ queue' \in Seq(Commands)
      /\ Len(queue) \in Nat /\ Len(queue') \in Nat
      /\ \A k \in DOMAIN queue : k \in DOMAIN queue' /\ Alike(queue'[k], queue[k])
  BY StepQueue
<1>2. Over(g) => Over(g)'
  BY StepTrace DEF Over
<1>3. trace'[g].began <=> trace[g].began
  BY StepTrace
<1>4. \A k \in DOMAIN queue : \A kind : Is(queue'[k], kind, g) <=> Is(queue[k], kind, g)
  BY <1>1, AlikeFacts
<1>5. CASE i \in DOMAIN queue /\ Is(queue[i], "begin", h)
  <2>1. \A j \in 1..(i - 1) : j \in DOMAIN queue
    BY <1>1, <1>5
  <2>2. trace[g].began \/ \E j \in 1..(i - 1) : Is(queue[j], "begin", g)
    BY <2>1, <1>3, <1>4
  <2>3. Over(g) \/ \E j \in 1..(i - 1) : Is(queue[j], "end", g)
    BY <2>2, <1>5 DEF ExclusiveInv
  <2> QED
    BY <2>1, <2>3, <1>2, <1>4
<1>6. CASE i \notin DOMAIN queue /\ i > Len(queue) /\ \E m \in DOMAIN cmds : Is(cmds[m], "begin", h)
  <2>1. PICK m \in DOMAIN cmds : Is(cmds[m], "begin", h)
    BY <1>6
  <2>2. Of(cmds[m], h)
    BY <2>1 DEF Is, Of, GestureKinds
  <2>3. Idle
    BY <2>1, <2>2, StepSends DEF Is
  <2>4. ~Open(g)
    BY <2>3 DEF Idle, Open, Gestures
  <2>5. g[2] < next[g[1]]
    <3>1. CASE trace[g].began
      BY <3>1 DEF FreshInv
    <3>2. CASE \E j \in 1..(i - 1) : Is(queue'[j], "begin", g)
      <4>1. PICK j \in 1..(i - 1) : Is(queue'[j], "begin", g)
        BY <3>2
      <4>2. j \in DOMAIN queue' /\ i \in DOMAIN queue'
        BY <1>1
      <4>3. j \in DOMAIN queue
        <5> SUFFICES ASSUME j \notin DOMAIN queue PROVE FALSE
          OBVIOUS
        <5>1. j \in (Len(queue) + 1)..Len(queue') /\ i \in (Len(queue) + 1)..Len(queue') /\ j < i
          BY <1>1, <1>6, <4>2
        <5>2. Rank(queue'[j].kind) < Rank(queue'[i].kind)
          BY <5>1 DEF Step, Sent, Appends
        <5> QED
          BY <5>2, <4>1, RankFacts DEF Is
      <4>4. queue[j].kind = "begin" /\ queue[j].from = g[1] /\ queue[j].number = g[2]
        BY <4>1, <4>3, <1>4 DEF Is
      <4> QED
        BY <4>3, <4>4 DEF FreshInv, GestureKinds
    <3> QED
      BY <3>1, <3>2, <1>3
  <2>6. Over(g) \/ Waits("end", g)
    BY <2>4, <2>5 DEF ClosedInv
  <2>7. CASE Waits("end", g)
    <3>1. PICK j \in DOMAIN queue : Is(queue[j], "end", g)
      BY <2>7 DEF Waits
    <3>2. j \in 1..(i - 1) /\ Is(queue'[j], "end", g)
      BY <3>1, <1>1, <1>4, <1>6
    <3> QED
      BY <3>2
  <2> QED
    BY <2>6, <2>7, <1>2
<1> QED
  BY <1>5, <1>6, StepEntry

\* A handler changes nothing of a gesture that was reported as written.
LEMMA StepReport ==
  ASSUME Types, Types', SessionInv, ReportInv,
         NEW cmds, NEW heard, NEW seen, Step(cmds, heard, seen)
  PROVE  ReportInv'
<1> SUFFICES ASSUME NEW g \in Gestures, trace'[g].reported
             PROVE  /\ trace'[g].written = trace'[g].kept /\ Settled(g)'
                    /\ ~Open(g)' /\ g[2] < next'[g[1]]
  BY DEF ReportInv
<1> DEFINE x == g[1]
<1>1. x \in Editors /\ g[2] \in Nat /\ g = <<x, g[2]>>
  BY DEF Gestures
<1>2. trace'[g].written = trace[g].written /\ trace'[g].kept = seen[g].kept
  BY StepTrace
<1>3. seen[g].reported /\ Sees(seen)
  BY StepTrace DEF Step
<1>4. Rests(x, cmds, seen) \/ Begins(x, cmds) \/ Moves(x, cmds, seen) \/ Closes(x, cmds)
  BY <1>1 DEF Step
<1>5. next[x] \in Nat /\ next'[x] \in Nat /\ next'[x] >= next[x]
  BY <1>1, StepNext
<1>6. CASE trace[g].reported
  <2>1. trace[g].written = trace[g].kept /\ Settled(g) /\ ~Open(g) /\ g[2] < next[x]
    BY <1>6 DEF ReportInv
  <2>2. seen[g].kept = trace[g].kept
    BY <1>3, <2>1 DEF Sees
  <2>3. Settled(g)'
    BY <2>1, StepSettled
  <2>4. ~Open(g)'
    BY <1>1, <1>4, <1>5, <2>1, NoneAssumption DEF Open, Rests, Begins, Moves, Closes
  <2> QED
    BY <1>1, <1>2, <1>5, <2>1, <2>2, <2>3, <2>4
<1>7. CASE /\ Open(g) /\ session[x].accepted /\ session'[x] = None
           /\ seen[g].kept = trace[g].kept
  BY <1>1, <1>2, <1>5, <1>7, StepSettled DEF Open, SessionInv, SessionOf
<1> QED
  BY <1>3, <1>6, <1>7 DEF Sees

\* What a handler sends changes neither the value nor the owner of the point.
LEMMA StepPoints ==
  ASSUME OneOpenGesture, OnePointUnlessRefused,
         NEW cmds, NEW heard, NEW seen, Step(cmds, heard, seen)
  PROVE  OneOpenGesture' /\ OnePointUnlessRefused'
BY StepTrace DEF OneOpenGesture, OnePointUnlessRefused

\* A handler of the message thread keeps every rule of the queue.
LEMMA StepRules ==
  ASSUME Types, Types', FocusInv, Rules, NEW cmds, NEW heard, NEW seen, Step(cmds, heard, seen)
  PROVE  Rules'
BY StepSession, StepOrder, StepFresh, StepLead, StepAck, StepEnd, StepReply, StepClosed,
   StepExclusive, StepReport, StepPoints DEF Rules

-----------------------------------------------------------------------------
(* The handlers of the message thread are such steps.                      *)

\* The commands of a sequence that keeps the order of a gesture.
Lists(cmds, S) ==
    /\ cmds \in Seq(Commands) /\ Ranked(cmds)
    /\ \A m \in DOMAIN cmds : cmds[m] \in S
    /\ \A c \in S : \E m \in DOMAIN cmds : cmds[m] = c

\* A command with a completion, and one without.
Asked(e, kind, n, v) == Command(e, kind, n, v, TRUE)
Told(e, kind, n, v) == Command(e, kind, n, v, FALSE)

\* The fields of a command.
LEMMA CommandFacts ==
  ASSUME NEW e \in Editors, NEW kind \in Kinds, NEW n \in Nat, NEW v \in Val, NEW c,
         c = Asked(e, kind, n, v) \/ c = Told(e, kind, n, v)
  PROVE  c \in Commands /\ c.from = e /\ c.kind = kind /\ c.number = n /\ c.value = v
<1> HIDE DEF Kinds
<1>1. PICK b \in BOOLEAN : c = Command(e, kind, n, v, b)
  BY Zenon DEF Asked, Told
<1>2. c = [from |-> e, kind |-> kind, number |-> n, value |-> v, waits |-> b]
  BY <1>1 DEF Command
<1>3. c.from = e /\ c.kind = kind /\ c.number = n /\ c.value = v
  BY <1>2
<1>4. c \in [from : Editors, kind : Kinds, number : Nat, value : Val, waits : BOOLEAN]
  BY <1>2
<1> QED
  BY <1>3, <1>4 DEF Commands

\* A handler may send nothing,
LEMMA ListsNone == Lists(<<>>, {})
BY DEF Lists, Ranked

\* or one command,
LEMMA ListsOne == ASSUME NEW a \in Commands PROVE Lists(<<a>>, {a})
BY DEF Lists, Ranked

\* or two in the order of a gesture,
LEMMA ListsTwo ==
  ASSUME NEW a \in Commands, NEW b \in Commands, Rank(a.kind) < Rank(b.kind)
  PROVE  Lists(<<a, b>>, {a, b})
<1>1. <<a, b>> \in Seq(Commands) /\ DOMAIN <<a, b>> = 1..2
  OBVIOUS
<1>2. <<a, b>>[1] = a /\ <<a, b>>[2] = b
  OBVIOUS
<1> QED
  BY <1>1, <1>2 DEF Lists, Ranked

\* or the final write, its acknowledgement and the end.
LEMMA ListsThree ==
  ASSUME NEW a \in Commands, NEW b \in Commands, NEW c \in Commands,
         a.kind = "write", b.kind = "ack", c.kind = "end"
  PROVE  Lists(<<a, b, c>>, {a, b, c})
BY RankFacts DEF Ranked, Lists

\* Sequences of the same length and elements are the same.
LEMMA SameSequence ==
  ASSUME NEW C, NEW r \in Seq(C), NEW s \in Seq(C), Len(r) = Len(s),
         \A i \in 1..Len(r) : r[i] = s[i]
  PROVE  r = s
OBVIOUS

\* What is sent by two parts of a handler, one after the other: nothing and one,
LEMMA JoinNone == ASSUME NEW a \in Commands PROVE <<>> \o <<a>> = <<a>>
OBVIOUS

\* one and one,
LEMMA JoinTwo == ASSUME NEW a \in Commands, NEW b \in Commands PROVE <<a>> \o <<b>> = <<a, b>>
<1> PICK p, q, r : p = <<a>> /\ q = <<b>> /\ r = <<a, b>>
  OBVIOUS
<1>1. /\ p \in Seq(Commands) /\ Len(p) = 1 /\ p[1] = a
      /\ q \in Seq(Commands) /\ Len(q) = 1 /\ q[1] = b
  OBVIOUS
<1>2. r \in Seq(Commands) /\ Len(r) = 2 /\ r[1] = a /\ r[2] = b
  OBVIOUS
<1> PICK x : x = p \o q
  OBVIOUS
<1>3. x \in Seq(Commands) /\ Len(x) = 2 /\ x[1] = a /\ x[2] = b
  BY <1>1
<1>4. \A i \in 1..2 : i = 1 \/ i = 2
  OBVIOUS
<1>5. \A i \in 1..Len(x) : x[i] = r[i]
  BY <1>2, <1>3, <1>4
<1>6. x = r
  BY <1>2, <1>3, <1>5, SameSequence
<1> QED
  BY <1>6, Zenon

\* two and one.
LEMMA JoinThree ==
  ASSUME NEW a \in Commands, NEW b \in Commands, NEW c \in Commands
  PROVE  <<a, b>> \o <<c>> = <<a, b, c>>
<1> PICK p, q, r : p = <<a, b>> /\ q = <<c>> /\ r = <<a, b, c>>
  OBVIOUS
<1>1. /\ p \in Seq(Commands) /\ Len(p) = 2 /\ p[1] = a /\ p[2] = b
      /\ q \in Seq(Commands) /\ Len(q) = 1 /\ q[1] = c
  OBVIOUS
<1>2. r \in Seq(Commands) /\ Len(r) = 3 /\ r[1] = a /\ r[2] = b /\ r[3] = c
  OBVIOUS
<1> PICK x : x = p \o q
  OBVIOUS
<1>3. x \in Seq(Commands) /\ Len(x) = 3 /\ x[1] = a /\ x[2] = b /\ x[3] = c
  BY <1>1
<1>4. \A i \in 1..3 : i = 1 \/ i = 2 \/ i = 3
  OBVIOUS
<1>5. \A i \in 1..Len(x) : x[i] = r[i]
  BY <1>2, <1>3, <1>4
<1>6. x = r
  BY <1>2, <1>3, <1>5, SameSequence
<1> QED
  BY <1>6, Zenon

\* What is sent of a gesture, read off the set of commands.
LEMMA ListsSends ==
  ASSUME NEW cmds, NEW S, Lists(cmds, S), NEW kind, NEW g
  PROVE  Sends(cmds, kind, g) <=> \E c \in S : Is(c, kind, g)
BY DEF Lists, Sends

\* The replies an editor has not taken yet.
LEMMA RestFacts ==
  ASSUME Types, NEW e \in Editors, replies[e] # <<>>
  PROVE  Rest(e) \in [Editors -> Seq(Replies)] /\ Listens(Rest(e))
<1>1. replies \in [Editors -> Seq(Replies)] /\ \A x \in Editors : replies[x] \in Seq(Replies)
  BY DEF Types
<1>2. Tail(replies[e]) \in Seq(Replies)
      /\ \A i \in DOMAIN Tail(replies[e]) :
            i + 1 \in DOMAIN replies[e] /\ Tail(replies[e])[i] = replies[e][i + 1]
  BY <1>1
<1>3. Rest(e) \in [Editors -> Seq(Replies)]
      /\ \A x \in Editors : Rest(e)[x] = IF x = e THEN Tail(replies[e]) ELSE replies[x]
  BY <1>1, <1>2 DEF Rest
<1>4. ASSUME NEW x \in Editors, NEW i \in DOMAIN Rest(e)[x]
      PROVE  \E j \in DOMAIN replies[x] : Rest(e)[x][i] = replies[x][j]
  BY <1>2, <1>3
<1> QED
  BY <1>3, <1>4 DEF Listens

\* Without a new reply nobody hears anything.
LEMMA AllFacts ==
  ASSUME Types
  PROVE  replies \in [Editors -> Seq(Replies)] /\ Listens(replies)
BY DEF Types, Listens

\* The handler gives one gesture another kept position.
Keeps(seen, g, k) ==
    \A h \in Gestures :
        /\ seen[h].began = trace[h].began /\ seen[h].ended = trace[h].ended
        /\ seen[h].strayed = trace[h].strayed /\ seen[h].ackPoint = trace[h].ackPoint
        /\ seen[h].written = trace[h].written /\ seen[h].refused = trace[h].refused
        /\ seen[h].reported = trace[h].reported
        /\ seen[h].kept = IF h = g THEN k ELSE trace[h].kept

\* A handler that does not touch the trace keeps what was kept of every gesture.
LEMMA KeepsTrace == ASSUME NEW g \in Gestures PROVE Keeps(trace, g, trace[g].kept)
BY DEF Keeps

\* A handler that changes the position kept of one gesture changes only that.
LEMMA KeepsChanged ==
  ASSUME Types, NEW g \in Gestures, NEW k, k \in Val \/ k = None,
         NEW seen, seen = [trace EXCEPT ![g].kept = k]
  PROVE  seen \in [Gestures -> Traces] /\ Keeps(seen, g, k)
<1>1. trace \in [Gestures -> Traces] /\ \A h \in Gestures : trace[h] \in Traces
  BY DEF Types
<1> DEFINE to == [trace[g] EXCEPT !.kept = k]
<1>2. to \in Traces
      /\ to.began = trace[g].began /\ to.ended = trace[g].ended
      /\ to.strayed = trace[g].strayed /\ to.ackPoint = trace[g].ackPoint
      /\ to.written = trace[g].written /\ to.refused = trace[g].refused
      /\ to.reported = trace[g].reported /\ to.kept = k
  BY <1>1 DEF Traces
<1>3. seen = [trace EXCEPT ![g] = to]
  OBVIOUS
<1> HIDE DEF to
<1>4. seen \in [Gestures -> Traces] /\ \A h \in Gestures : seen[h] = IF h = g THEN to ELSE trace[h]
  BY <1>1, <1>2, <1>3
<1>5. Keeps(seen, g, k)
  BY <1>2, <1>4 DEF Keeps
<1> QED
  BY <1>4, <1>5

\* Such a change is one the user made of an open gesture.
LEMMA KeepsSees ==
  ASSUME NEW seen, NEW g \in Gestures, NEW k, Keeps(seen, g, k),
         \/ k = trace[g].kept
         \/ Open(g) /\ (k = None \/ ~session[g[1]].finalSent \/ k = session[g[1]].value)
  PROVE  Sees(seen)
BY DEF Keeps, Sees

CompleteAs(S, seen) ==
    \A g \in Gestures : \A c \in S :
        /\ Is(c, "ack", g) => \E d \in S : Is(d, "write", g) /\ d.value = c.value
        /\ Is(c, "end", g) =>
              \/ seen[g].kept = None
              \/ \E d \in S : Is(d, "ack", g) /\ d.value = seen[g].kept
              \/ session[g[1]].finalSent /\ seen[g].kept = session[g[1]].value

\* A handler that sends commands of its own gesture, begins at most one and leaves the
\* sessions of others alone is a step.
LEMMA Assemble ==
  ASSUME NEW e \in Editors, NEW S, NEW cmds, NEW heard, NEW seen, Lists(cmds, S),
         Listens(heard), Sees(seen), Sent(cmds, heard, seen), CompleteAs(S, seen),
         \A c \in S : Allowed(c) /\ (c.kind \in GestureKinds => c.from = e),
         \A x \in Editors \ {e} :
            /\ session'[x] = session[x] /\ next'[x] = next[x]
            /\ session[x] # None => seen[Gesture(x)].kept = trace[Gesture(x)].kept,
         next'[e] = next[e] \/ Begins(e, cmds),
         \/ Rests(e, cmds, seen) \/ Begins(e, cmds)
         \/ Moves(e, cmds, seen) \/ Closes(e, cmds),
         value' = value, owner' = owner
  PROVE  Step(cmds, heard, seen)
BY DEF Lists, Complete, CompleteAs, Rests, Step

\* A step that sends nothing of a gesture and leaves the sessions.
LEMMA QuietStep ==
  ASSUME Types, NEW e \in Editors, NEW S, NEW cmds, NEW heard, Lists(cmds, S),
         \A c \in S : c.kind = "activate" \/ (c.kind = "edit" /\ Idle),
         Listens(heard), NEW seen, seen = trace, Sent(cmds, heard, seen),
         \A x \in Editors : session'[x] = session[x], next' = next, value' = value, owner' = owner
  PROVE  Step(cmds, heard, seen)
<1>1. Sees(seen)
  BY DEF Sees
<1>2. \A c \in S : c.kind \notin GestureKinds /\ Allowed(c)
  BY DEF GestureKinds, Allowed
<1>3. CompleteAs(S, seen)
  BY <1>2 DEF CompleteAs, Is, GestureKinds
<1>4. Rests(e, cmds, seen)
  BY <1>2 DEF Rests, Lists
<1> QED
  BY <1>1, <1>2, <1>3, <1>4, Assemble

\* What a handler sends of an open gesture whose position is v.
Body(S, e, v) ==
    /\ \A c \in S :
          \/ c.kind = "activate"
          \/ /\ c.from = e /\ c.number = session[e].number
             /\ \/ c.kind = "end"
                \/ c.kind \in {"write", "ack"} /\ ~session[e].finalSent /\ c.value = v
    /\ (\E c \in S : c.kind = "ack") => \E c \in S : c.kind = "write"

\* A handler in the middle of a gesture is a step.
LEMMA BodyStep ==
  ASSUME Types, NEW e \in Editors, session[e] # None, NEW S, NEW v, Body(S, e, v),
         NEW cmds, NEW heard, NEW seen, Lists(cmds, S), Listens(heard), Sent(cmds, heard, seen),
         NEW g \in Gestures, g = Gesture(e), NEW k, Keeps(seen, g, k),
         \/ k = trace[g].kept \/ k = None \/ ~session[e].finalSent \/ k = session[e].value,
         (\E c \in S : c.kind = "end") =>
             \/ k = None \/ (v = k /\ \E c \in S : c.kind = "ack")
             \/ session[e].finalSent /\ k = session[e].value,
         \A x \in Editors \ {e} : session'[x] = session[x],
         next' = next, value' = value, owner' = owner,
         \/ Moves(e, cmds, seen)
         \/ session'[e] = None /\ \E c \in S : c.kind = "end"
  PROVE  Step(cmds, heard, seen)
<1>1. session[e] \in Sessions /\ g = <<e, session[e].number>> /\ Open(g) /\ g[1] = e /\ g[2] = session[e].number
  BY DEF Types, Gesture, Open
<1>2. Sees(seen)
  BY <1>1, KeepsSees
<1>3. \A x \in Editors \ {e} : session[x] # None => seen[Gesture(x)].kept = trace[Gesture(x)].kept
  BY <1>1 DEF Types, Sessions, Gesture, Gestures, Keeps
<1>4. \A c \in S : Allowed(c) /\ (c.kind \in GestureKinds => c.from = e)
  <2> SUFFICES ASSUME NEW c \in S PROVE Allowed(c) /\ (c.kind \in GestureKinds => c.from = e)
    OBVIOUS
  <2>1. CASE c.kind = "activate"
    BY <2>1 DEF Allowed, GestureKinds
  <2>2. CASE c.from = e /\ c.number = session[e].number /\ c.kind = "end"
    <3>1. <<c.from, c.number>> = g
      BY <1>1, <2>2
    <3> QED
      BY <1>1, <2>2, <3>1 DEF Allowed
  <2>3. CASE /\ c.from = e /\ c.number = session[e].number
             /\ c.kind \in {"write", "ack"} /\ ~session[e].finalSent
    <3>1. <<c.from, c.number>> = g
      BY <1>1, <2>3
    <3> QED
      BY <1>1, <2>3, <3>1 DEF Allowed
  <2> QED
    BY <2>1, <2>2, <2>3 DEF Body
<1>5. \A c \in S : c.kind # "activate" => c.from = g[1] /\ c.number = g[2]
  BY <1>1 DEF Body
<1>6. CompleteAs(S, seen)
  <2> SUFFICES ASSUME NEW h \in Gestures, NEW c \in S
               PROVE  /\ Is(c, "ack", h) => \E d \in S : Is(d, "write", h) /\ d.value = c.value
                      /\ Is(c, "end", h) =>
                            \/ seen[h].kept = None
                            \/ \E d \in S : Is(d, "ack", h) /\ d.value = seen[h].kept
                            \/ session[h[1]].finalSent /\ seen[h].kept = session[h[1]].value
    BY DEF CompleteAs
  <2>1. ASSUME Is(c, "ack", h) \/ Is(c, "end", h) PROVE h = g
    BY <1>1, <1>5, <2>1 DEF Is, Gestures
  <2>2. ASSUME Is(c, "ack", h)
        PROVE  \E d \in S : Is(d, "write", h) /\ d.value = c.value
    BY <1>5, <2>1, <2>2 DEF Body, Is
  <2>3. ASSUME Is(c, "end", h)
        PROVE  \/ seen[h].kept = None
               \/ \E d \in S : Is(d, "ack", h) /\ d.value = seen[h].kept
               \/ session[h[1]].finalSent /\ seen[h].kept = session[h[1]].value
    <3>1. seen[h].kept = k /\ h = g
      BY <2>1, <2>3 DEF Keeps
    <3>2. \/ k = None \/ (v = k /\ \E d \in S : d.kind = "ack")
          \/ session[e].finalSent /\ k = session[e].value
      BY <2>3 DEF Is
    <3>3. CASE v = k /\ \E d \in S : d.kind = "ack"
      <4>1. PICK d \in S : d.kind = "ack"
        BY <3>3
      <4>2. Is(d, "ack", h) /\ d.value = v
        BY <1>5, <3>1, <4>1 DEF Is, Body
      <4> QED
        BY <3>1, <3>3, <4>2
    <3> QED
      BY <1>1, <3>1, <3>2, <3>3
  <2> QED
    BY <2>2, <2>3
<1>7. Moves(e, cmds, seen) \/ Closes(e, cmds)
  <2>1. CASE session'[e] = None /\ \E c \in S : c.kind = "end"
    <3>1. \E c \in S : Is(c, "end", g)
      BY <1>5, <2>1 DEF Is
    <3>2. Sends(cmds, "end", g)
      BY <3>1, ListsSends
    <3> QED
      BY <1>1, <2>1, <3>2 DEF Closes
  <2> QED
    BY <2>1
<1> QED
  BY <1>2, <1>3, <1>4, <1>6, <1>7, Assemble

Stepped == \E cmds, heard, seen : Step(cmds, heard, seen)

\* What the rules say of an open gesture.
LEMMA OpenFacts ==
  ASSUME Types, Rules, NEW e \in Editors, session[e] # None
  PROVE  LET s == session[e]
             g == Gesture(e)
         IN  /\ s \in Sessions /\ g \in Gestures /\ g = <<e, s.number>> /\ Open(g)
             /\ s.number \in Nat /\ s.value \in Val
             /\ s.finalSent => s.ending
             /\ s.accepted => s.finalSent /\ trace[g].written = s.value /\ Settled(g)
             /\ s.ending => trace[g].kept = s.value
             /\ s.ending /\ ~s.finalSent => s.dirty /\ ~s.ready
<1>1. session[e] \in Sessions
  BY DEF Types
<1>2. session[e].number \in 1..MaxGestures /\ session[e].value \in Val
  BY <1>1 DEF Sessions
<1>3. Gesture(e) \in Gestures /\ Gesture(e) = <<e, session[e].number>> /\ Open(Gesture(e))
  BY <1>2 DEF Gesture, Gestures, Open
<1>4. SessionOf(e)
  BY DEF Rules, SessionInv
<1>5. session[e].number \in Nat
  BY <1>2
<1> QED
  BY <1>1, <1>2, <1>3, <1>4, <1>5 DEF SessionOf

\* A flush sends the position, if there is a new one, and changes no other field.
LEMMA FlushFacts ==
  ASSUME NEW e \in Editors, NEW s \in Sessions
  PROVE  /\ \/ Flush(e, s) = <<>> /\ ~(s.ready /\ s.dirty /\ ~s.finalSent)
            \/ /\ s.ready /\ s.dirty /\ ~s.finalSent
               /\ Flush(e, s) = <<Told(e, "write", s.number, s.value)>>
         /\ Flushed(s) \in Sessions /\ Flushed(s).number = s.number /\ Flushed(s).value = s.value
         /\ Flushed(s).ending = s.ending /\ Flushed(s).finalSent = s.finalSent
         /\ Flushed(s).accepted = s.accepted
         /\ Finished(s) \in Sessions /\ Finished(s).number = s.number /\ Finished(s).value = s.value
         /\ Finished(s).ending = s.ending /\ Finished(s).finalSent /\ Finished(s).accepted = s.accepted
BY DEF Flush, Told, Flushed, Sessions, Finished

\* Nothing is sent.
LEMMA NothingSent ==
  ASSUME Types, queue' = queue, NEW heard, replies' = heard, NEW seen, trace' = seen
  PROVE  Sent(<<>>, heard, seen)
<1>1. queue \in Seq(Commands) /\ Len(queue) \in Nat /\ DOMAIN <<>> = {}
  BY DEF Types
<1>2. Stays(<<>>)
  BY <1>1 DEF Stays
<1>3. Appends(<<>>)
  BY <1>1 DEF Appends
<1>4. Arrives(<<>>)
  BY <1>1 DEF Arrives
<1>5. Hears(<<>>, heard)
  BY DEF Hears
<1>6. Notes(seen)
  BY DEF Notes
<1>7. Len(queue) <= Len(queue')
  BY <1>1
<1> QED
  BY <1>2, <1>3, <1>4, <1>5, <1>6, <1>7 DEF Sent

\* A pointer move is a step (DialGestureSession::setValues).
LEMMA SetValuesStep ==
  ASSUME Types, FocusInv, Rules, NEW e \in Editors, NEW v \in Val, SetValues(e, v)
  PROVE  Types' /\ Stepped
<1> PICK s, g : s = session[e] /\ g = Gesture(e)
  OBVIOUS
<1>1. /\ s \in Sessions /\ g \in Gestures /\ g = <<e, s.number>> /\ s # None
      /\ s.finalSent => s.ending
      /\ s.accepted => s.finalSent
  BY OpenFacts DEF SetValues
<1>2. ~s.ending /\ session' = [session EXCEPT ![e].value = v, ![e].dirty = TRUE]
      /\ UNCHANGED <<next, current, active, generation, closed, queue, replies,
                     historyVars, trace, bounds>>
  BY DEF SetValues
<1> DEFINE t == [s EXCEPT !.value = v, !.dirty = TRUE]
<1>3. t \in Sessions /\ t.number = s.number /\ t.ending = s.ending /\ t.finalSent = s.finalSent
      /\ t.accepted = s.accepted
  BY <1>1 DEF Sessions
<1>4. session' = [session EXCEPT ![e] = t]
  BY <1>2
<1> HIDE DEF t
<1>5. session' \in [Editors -> Sessions \cup {None}] /\ session'[e] = t
      /\ \A x \in Editors \ {e} : session'[x] = session[x]
  BY <1>3, <1>4 DEF Types
<1>6. Types'
  BY <1>2, <1>5 DEF Types, historyVars
<1> PICK cmds, heard, seen : cmds = <<>> /\ heard = replies /\ seen = trace
  OBVIOUS
<1>7. Sent(cmds, heard, seen)
  BY <1>2, NothingSent DEF historyVars
<1>8. Moves(e, cmds, seen)
  BY <1>1, <1>2, <1>3, <1>5 DEF Moves, Sends
<1> PICK S : S = {}
  OBVIOUS
<1>9. Lists(cmds, S) /\ Body(S, e, v) /\ \A c \in S : c.kind # "end"
  BY ListsNone DEF Body
<1>10. Keeps(seen, g, trace[g].kept)
  BY <1>1, KeepsTrace
<1>11. Listens(heard)
  BY AllFacts
<1>12. next' = next /\ value' = value /\ owner' = owner
  BY <1>2 DEF historyVars
<1> PICK k : k = trace[g].kept
  OBVIOUS
<1>13. Keeps(seen, g, k)
  BY <1>10
<1>14. Step(cmds, heard, seen)
  BY <1>1, <1>5, <1>7, <1>8, <1>9, <1>11, <1>12, <1>13, BodyStep
<1> QED
  BY <1>6, <1>14 DEF Stepped

\* What a handler leaves well typed besides what it sends.
LEMMA TypesAfter ==
  ASSUME Types, SentTypes, session' \in [Editors -> Sessions \cup {None}],
         next' \in [Editors -> Nat \ {0}], value' = value,
         generation' \in [Editors -> Nat], active' \in SUBSET Editors
  PROVE  Types'
BY DEF Types, SentTypes

\* The kinds of commands.
LEMMA KindFacts ==
  /\ "begin" \in Kinds /\ "write" \in Kinds /\ "ack" \in Kinds /\ "end" \in Kinds
  /\ "edit" \in Kinds /\ "activate" \in Kinds
BY DEF Kinds

\* What Send does to queue, replies and trace.
LEMMA SentFacts ==
  ASSUME Types, NEW cmds, NEW S, Lists(cmds, S), NEW heard \in [Editors -> Seq(Replies)],
         NEW seen \in [Gestures -> Traces], Send(cmds, heard, seen)
  PROVE  Sent(cmds, heard, seen) /\ SentTypes
BY SendFacts DEF Types, Lists

\* A pointer press is a step (DialGestureSession::begin).
LEMMA BeginStep ==
  ASSUME Types, FocusInv, Rules, NEW e \in Editors, NEW v \in Val, Begin(e, v)
  PROVE  Types' /\ Stepped
<1> PICK n : n = next[e]
  OBVIOUS
<1> DEFINE t == [number |-> n, value |-> v, ready |-> FALSE, dirty |-> FALSE,
                 ending |-> FALSE, finalSent |-> FALSE, accepted |-> FALSE]
<1> PICK c : c = Asked(e, "begin", n, Default)
  OBVIOUS
<1> PICK cmds, S, heard, seen : cmds = <<c>> /\ S = {c} /\ heard = replies /\ seen = trace
  OBVIOUS
<1>1. /\ e \in active /\ session[e] = None /\ n <= MaxGestures
      /\ session' = [session EXCEPT ![e] = t]
      /\ next' = [next EXCEPT ![e] = n + 1]
      /\ UNCHANGED <<current, active, generation, closed, historyVars, focuses, edits>>
      /\ Send(cmds, heard, seen)
  BY DEF Begin, Asked
<1>2. next \in [Editors -> Nat \ {0}] /\ n \in Nat \ {0} /\ n \in 1..MaxGestures
  <2>1. next \in [Editors -> Nat \ {0}] /\ n \in Nat \ {0}
    BY DEF Types
  <2> QED
    BY <2>1, <1>1, BoundAssumption
<1>3. t \in Sessions /\ t.number = n /\ ~t.ending /\ ~t.finalSent /\ ~t.accepted
  BY <1>2 DEF Sessions
<1> HIDE DEF t
<1>4. c \in Commands /\ c.from = e /\ c.kind = "begin" /\ c.number = n
  BY <1>2, KindFacts, DefaultAssumption, CommandFacts
<1>5. Lists(cmds, S) /\ \A d \in S : d = c
  BY <1>4, ListsOne
<1>6. Sent(cmds, heard, seen) /\ SentTypes
  BY <1>1, <1>5, SentFacts DEF Types
<1>7. /\ session' \in [Editors -> Sessions \cup {None}] /\ session'[e] = t
      /\ \A x \in Editors \ {e} : session'[x] = session[x]
  BY <1>1, <1>3 DEF Types
<1>8. /\ next' \in [Editors -> Nat \ {0}] /\ next'[e] = n + 1
      /\ \A x \in Editors \ {e} : next'[x] = next[x]
  BY <1>1, <1>2
<1>9. value' = value /\ owner' = owner /\ active' = active /\ generation' = generation
  BY <1>1 DEF historyVars
<1>10. Types'
  BY <1>6, <1>7, <1>8, <1>9, TypesAfter DEF Types
<1>11. Idle
  BY <1>1, <1>7, NoneAssumption DEF Idle, FocusInv, Types
<1>12. Allowed(c)
  BY <1>2, <1>4, <1>8, <1>11 DEF Allowed
<1>13. Is(c, "begin", <<e, n>>) /\ Mine(c, <<e, n>>)
  BY <1>4 DEF Is, Mine, Of, GestureKinds
<1>14. Begins(e, cmds)
  <2>1. Sends(cmds, "begin", <<e, n>>)
    BY <1>5, <1>13, ListsSends
  <2>2. \A m \in DOMAIN cmds : Mine(cmds[m], <<e, n>>)
    BY <1>5, <1>13 DEF Lists
  <2> QED
    BY <2>1, <2>2, <1>1, <1>3, <1>7, <1>8, <1>11 DEF Begins
<1>15. Sees(seen) /\ Listens(heard)
  BY AllFacts DEF Sees
<1>16. CompleteAs(S, seen)
  BY <1>4, <1>5 DEF CompleteAs, Is
<1>17. \A d \in S : Allowed(d) /\ (d.kind \in GestureKinds => d.from = e)
  BY <1>4, <1>5, <1>12
<1>18. Step(cmds, heard, seen)
  BY <1>5, <1>6, <1>7, <1>8, <1>9, <1>14, <1>15, <1>16, <1>17, Assemble
<1> QED
  BY <1>10, <1>18 DEF Stepped

-----------------------------------------------------------------------------
(* What the operations of a gesture send.                                  *)

\* An activation goes last.
LEMMA ListsAppend ==
  ASSUME NEW cmds, NEW S, Lists(cmds, S), \A c \in S : c.kind \in GestureKinds,
         NEW a \in Commands, a.kind = "activate"
  PROVE  Lists(cmds \o <<a>>, S \cup {a})
<1> PICK q : q = cmds \o <<a>>
  OBVIOUS
<1>1. cmds \in Seq(Commands) /\ Len(cmds) \in Nat /\ DOMAIN cmds = 1..Len(cmds)
  BY DEF Lists
<1>2. /\ q \in Seq(Commands) /\ DOMAIN q = 1..(Len(cmds) + 1)
      /\ q[Len(cmds) + 1] = a /\ \A i \in 1..Len(cmds) : q[i] = cmds[i]
  BY <1>1
<1>3. \A i \in 1..(Len(cmds) + 1) : i \in 1..Len(cmds) \/ i = Len(cmds) + 1
  BY <1>1
<1>4. \A m \in DOMAIN cmds : cmds[m] \in S
  BY DEF Lists
<1>5. \A m \in 1..Len(cmds) : Rank(cmds[m].kind) < Rank(a.kind)
  <2> TAKE m \in 1..Len(cmds)
  <2>1. cmds[m].kind \in GestureKinds
    BY <1>1, <1>4
  <2> QED
    BY <2>1 DEF Rank, GestureKinds
<1>6. Ranked(q)
  BY <1>1, <1>2, <1>3, <1>5 DEF Ranked, Lists
<1>7. \A m \in DOMAIN q : q[m] \in S \cup {a}
  BY <1>1, <1>2, <1>3, <1>4
<1>8. \A c \in S \cup {a} : \E m \in DOMAIN q : q[m] = c
  <2> TAKE c \in S \cup {a}
  <2>1. CASE c = a
    BY <2>1, <1>1, <1>2
  <2>2. CASE c \in S
    <3>1. PICK m \in DOMAIN cmds : cmds[m] = c
      BY <2>2 DEF Lists
    <3> QED
      BY <3>1, <1>1, <1>2
  <2> QED
    BY <2>1, <2>2
<1> QED
  BY <1>2, <1>6, <1>7, <1>8 DEF Lists

\* A cancelled gesture sends its end and nothing else.
LEMMA CancelFacts ==
  ASSUME Types, NEW e \in Editors, session[e] # None, NEW v
  PROVE  \E S : /\ Lists(CancelSends(e), S) /\ Body(S, e, v)
                /\ (\A c \in S : c.kind = "end") /\ \E c \in S : c.kind = "end"
<1> PICK c : c = Told(e, "end", session[e].number, Default)
  OBVIOUS
<1>1. session[e].number \in Nat
  BY DEF Types, Sessions
<1>2. c \in Commands /\ c.from = e /\ c.kind = "end" /\ c.number = session[e].number
  BY <1>1, KindFacts, DefaultAssumption, CommandFacts
<1>3. CancelSends(e) = <<c>>
  BY DEF CancelSends, Told
<1> PICK S : S = {c}
  OBVIOUS
<1>4. Lists(CancelSends(e), S)
  BY <1>2, <1>3, ListsOne
<1>5. Body(S, e, v)
  BY <1>2 DEF Body
<1> QED
  BY <1>2, <1>4, <1>5

\* A flush sends a write at most.
LEMMA FlushSends ==
  ASSUME NEW e \in Editors, NEW s \in Sessions, s.number = session[e].number,
         s.finalSent <=> session[e].finalSent
  PROVE  \E S : Lists(Flush(e, s), S) /\ Body(S, e, s.value) /\ \A c \in S : c.kind = "write"
<1>1. CASE Flush(e, s) = <<>>
  <2> PICK S : S = {}
    OBVIOUS
  <2>1. Lists(Flush(e, s), S) /\ Body(S, e, s.value)
    BY <1>1, ListsNone DEF Body
  <2> QED
    BY <2>1
<1>2. CASE /\ s.ready /\ s.dirty /\ ~s.finalSent
           /\ Flush(e, s) = <<Told(e, "write", s.number, s.value)>>
  <2> PICK c : c = Told(e, "write", s.number, s.value)
    OBVIOUS
  <2>1. s.number \in Nat /\ s.value \in Val
    BY DEF Sessions
  <2>2. c \in Commands /\ c.from = e /\ c.kind = "write" /\ c.number = session[e].number
        /\ c.value = s.value
    BY <2>1, KindFacts, CommandFacts
  <2>3. Flush(e, s) = <<c>>
    BY <1>2
  <2> PICK S : S = {c}
    OBVIOUS
  <2>4. Lists(Flush(e, s), S)
    BY <2>2, <2>3, ListsOne
  <2>5. Body(S, e, s.value)
    BY <1>2, <2>2 DEF Body
  <2> QED
    BY <2>2, <2>4, <2>5
<1> QED
  BY <1>1, <1>2 DEF Flush, Told

\* Finishing sends the position and its acknowledgement.
LEMMA FinishFacts ==
  ASSUME NEW e \in Editors, NEW s \in Sessions, s.number = session[e].number,
         ~session[e].finalSent, ~s.finalSent, s.ready, s.dirty
  PROVE  \E S : /\ Lists(Finish(e, s), S) /\ Body(S, e, s.value)
                /\ (\A c \in S : c.kind # "end") /\ \E c \in S : c.kind = "ack"
<1> PICK c, d : c = Told(e, "write", s.number, s.value) /\ d = Asked(e, "ack", s.number, s.value)
  OBVIOUS
<1>1. s.number \in Nat /\ s.value \in Val
  BY DEF Sessions
<1>2. /\ c \in Commands /\ c.from = e /\ c.kind = "write" /\ c.number = session[e].number
      /\ c.value = s.value
  BY <1>1, KindFacts, CommandFacts
<1>3. /\ d \in Commands /\ d.from = e /\ d.kind = "ack" /\ d.number = session[e].number
      /\ d.value = s.value
  BY <1>1, KindFacts, CommandFacts
<1>4. Finish(e, s) = <<c>> \o <<d>>
  <2>1. Flush(e, s) = <<c>>
    BY DEF Flush, Told
  <2>2. Finish(e, s) = Flush(e, s) \o <<d>>
    BY DEF Finish, Asked
  <2> QED
    BY <2>1, <2>2, Zenon
<1>5. Finish(e, s) = <<c, d>>
  <2>1. <<c>> \o <<d>> = <<c, d>>
    BY <1>2, <1>3, JoinTwo
  <2> QED
    BY <1>4, <2>1, Zenon
<1> PICK S : S = {c, d}
  OBVIOUS
<1>6. Rank(c.kind) < Rank(d.kind)
  BY <1>2, <1>3, RankFacts
<1>7. Lists(Finish(e, s), S)
  BY <1>2, <1>3, <1>5, <1>6, ListsTwo
<1>8. Body(S, e, s.value)
  BY <1>2, <1>3 DEF Body
<1> QED
  BY <1>2, <1>3, <1>7, <1>8

\* Closing sends the end and, unless they are sent, the position and its acknowledgement.
LEMMA CloseFacts ==
  ASSUME Types, NEW e \in Editors, session[e] # None
  PROVE  \E S : /\ Lists(CloseSends(e), S) /\ Body(S, e, session[e].value)
                /\ (\A c \in S : c.kind \in GestureKinds) /\ (\E c \in S : c.kind = "end")
                /\ session[e].finalSent \/ \E c \in S : c.kind = "ack"
<1> PICK s : s = session[e]
  OBVIOUS
<1>1. s \in Sessions /\ s.number \in Nat /\ s.value \in Val
  BY DEF Types, Sessions
<1> PICK b, c, d : /\ b = Told(e, "write", s.number, s.value)
                   /\ c = Told(e, "ack", s.number, s.value)
                   /\ d = Told(e, "end", s.number, Default)
  OBVIOUS
<1>2. /\ b \in Commands /\ b.from = e /\ b.kind = "write" /\ b.number = s.number
      /\ b.value = s.value
  BY <1>1, KindFacts, CommandFacts
<1>3. /\ c \in Commands /\ c.from = e /\ c.kind = "ack" /\ c.number = s.number
      /\ c.value = s.value
  BY <1>1, KindFacts, CommandFacts
<1>4. d \in Commands /\ d.from = e /\ d.kind = "end" /\ d.number = s.number
  BY <1>1, KindFacts, DefaultAssumption, CommandFacts
<1>5. CloseSends(e) = (IF s.finalSent THEN <<>> ELSE <<b, c>>) \o <<d>>
  BY DEF CloseSends, Told
<1>6. CASE s.finalSent
  <2>1. CloseSends(e) = <<d>>
    BY <1>4, <1>5, <1>6, JoinNone
  <2> PICK S : S = {d}
    OBVIOUS
  <2>2. Lists(CloseSends(e), S) /\ Body(S, e, s.value)
    BY <1>4, <2>1, ListsOne DEF Body
  <2> QED
    BY <1>4, <1>6, <2>2 DEF GestureKinds
<1>7. CASE ~s.finalSent
  <2>1. CloseSends(e) = <<b, c>> \o <<d>>
    BY <1>5, <1>7
  <2>2. <<b, c>> \o <<d>> = <<b, c, d>>
    BY <1>2, <1>3, <1>4, JoinThree
  <2>3. CloseSends(e) = <<b, c, d>>
    BY <2>1, <2>2, Zenon
  <2> PICK S : S = {b, c, d}
    OBVIOUS
  <2>4. Lists(CloseSends(e), S)
    BY <1>2, <1>3, <1>4, <2>3, ListsThree
  <2>5. Body(S, e, s.value)
    BY <1>2, <1>3, <1>4, <1>7 DEF Body
  <2> QED
    BY <1>2, <1>3, <1>4, <2>4, <2>5 DEF GestureKinds
<1> QED
  BY <1>6, <1>7

-----------------------------------------------------------------------------
(* Each operation of a gesture is a step.                                  *)

\* A gesture goes on: t is what becomes of its session.
LEMMA MoveFacts ==
  ASSUME Types, NEW e \in Editors, session[e] # None, NEW S, NEW v, Body(S, e, v),
         NEW cmds, Lists(cmds, S), \A c \in S : c.kind # "end",
         NEW t \in Sessions, session'[e] = t, t.number = session[e].number,
         ~session[e].finalSent, ~t.accepted,
         session[e].ending => t.ending /\ t.value = session[e].value,
         t.finalSent <=> \E c \in S : c.kind = "ack",
         t.finalSent => t.ending /\ t.value = v,
         t.ending /\ ~t.finalSent => t.dirty /\ ~t.ready,
         NEW g \in Gestures, g = Gesture(e), NEW k, NEW seen, Keeps(seen, g, k),
         t.ending => k = t.value
  PROVE  Moves(e, cmds, seen)
<1>1. session[e] \in Sessions /\ g = <<e, session[e].number>>
  BY DEF Types, Gesture
<1>2. seen[g].kept = k
  BY DEF Keeps
<1>3. \A c \in S : c.kind = "ack" => Is(c, "ack", g) /\ c.value = v
  BY <1>1 DEF Body, Is
<1>4. Sends(cmds, "ack", g) <=> \E c \in S : c.kind = "ack"
  BY <1>3, ListsSends DEF Is
<1>5. ~Sends(cmds, "end", g)
  BY ListsSends DEF Is
<1>6. \A m \in DOMAIN cmds : Is(cmds[m], "ack", g) => cmds[m].value = t.value
  <2> SUFFICES ASSUME NEW m \in DOMAIN cmds, Is(cmds[m], "ack", g) PROVE cmds[m].value = t.value
    OBVIOUS
  <2>1. cmds[m] \in S /\ cmds[m].kind = "ack"
    BY DEF Lists, Is
  <2> QED
    BY <2>1, <1>3
<1> QED
  BY <1>1, <1>2, <1>4, <1>5, <1>6 DEF Moves

\* A release is a step (DialGestureSession::end).
LEMMA EndStep ==
  ASSUME Types, FocusInv, Rules, NEW e \in Editors, NEW v \in Val, End(e, v)
  PROVE  Types' /\ Stepped
<1> DEFINE s == [session[e] EXCEPT !.value = v, !.dirty = TRUE, !.ending = TRUE]
           t == IF s.ready THEN Finished(s) ELSE s
<1> PICK g : g = Gesture(e)
  OBVIOUS
<1> PICK cmds, heard, seen : /\ cmds = IF s.ready THEN Finish(e, s) ELSE <<>>
                             /\ heard = replies /\ seen = [trace EXCEPT ![g].kept = v]
  OBVIOUS
<1>1. /\ session[e] # None /\ ~session[e].ending
      /\ session' = [session EXCEPT ![e] = t]
      /\ UNCHANGED <<next, current, active, generation, closed, historyVars, focuses, edits>>
      /\ Send(cmds, heard, seen)
  BY DEF End
<1>2. /\ session[e] \in Sessions /\ g \in Gestures
      /\ ~session[e].finalSent /\ ~session[e].accepted
  BY <1>1, OpenFacts
<1>3. /\ s \in Sessions /\ s.number = session[e].number /\ s.value = v /\ s.dirty /\ s.ending
      /\ ~s.finalSent /\ ~s.accepted
  BY <1>2 DEF Sessions
<1> HIDE DEF s
<1>4. /\ t \in Sessions /\ t.number = session[e].number /\ t.value = v /\ t.ending /\ ~t.accepted
      /\ t.finalSent <=> s.ready
      /\ t.ending /\ ~t.finalSent => t.dirty /\ ~t.ready
  BY <1>3, FlushFacts
<1> HIDE DEF t
<1>5. \E S : /\ Lists(cmds, S) /\ Body(S, e, v) /\ (\A c \in S : c.kind # "end")
             /\ s.ready <=> \E c \in S : c.kind = "ack"
  <2>1. CASE s.ready
    <3>1. \E S : /\ Lists(Finish(e, s), S) /\ Body(S, e, s.value)
                 /\ (\A c \in S : c.kind # "end") /\ \E c \in S : c.kind = "ack"
      BY <1>2, <1>3, <2>1, FinishFacts
    <3> QED
      BY <1>3, <2>1, <3>1
  <2>2. CASE ~s.ready
    <3>1. cmds = <<>>
      BY <2>2
    <3> PICK S : S = {}
      OBVIOUS
    <3>2. Lists(cmds, S) /\ Body(S, e, v)
      BY <3>1, ListsNone DEF Body
    <3> QED
      BY <2>2, <3>2
  <2> QED
    BY <2>1, <2>2
<1>6. PICK S : /\ Lists(cmds, S) /\ Body(S, e, v) /\ (\A c \in S : c.kind # "end")
               /\ s.ready <=> \E c \in S : c.kind = "ack"
  BY <1>5
<1>7. seen \in [Gestures -> Traces] /\ Keeps(seen, g, v)
  BY <1>2, KeepsChanged
<1>8. Sent(cmds, heard, seen) /\ SentTypes
  BY <1>1, <1>6, <1>7, SentFacts DEF Types
<1>9. /\ session' \in [Editors -> Sessions \cup {None}] /\ session'[e] = t
      /\ \A x \in Editors \ {e} : session'[x] = session[x]
  BY <1>1, <1>4 DEF Types
<1>10. next' = next /\ value' = value /\ owner' = owner /\ active' = active /\ generation' = generation
  BY <1>1 DEF historyVars
<1>11. Types'
  BY <1>8, <1>9, <1>10, TypesAfter DEF Types
<1>12. Moves(e, cmds, seen)
  BY <1>1, <1>2, <1>4, <1>6, <1>7, <1>9, MoveFacts
<1>13. Listens(heard)
  BY AllFacts
<1>14. Step(cmds, heard, seen)
  BY <1>1, <1>2, <1>6, <1>7, <1>8, <1>9, <1>10, <1>12, <1>13, BodyStep
<1> QED
  BY <1>11, <1>14 DEF Stepped

\* The timer of a gesture is a step.
LEMMA TimerStep ==
  ASSUME Types, FocusInv, Rules, NEW e \in Editors, TimerCallback(e)
  PROVE  Types' /\ Stepped
<1> PICK s, g, t : s = session[e] /\ g = Gesture(e) /\ t = Flushed(session[e])
  OBVIOUS
<1> PICK cmds, heard, seen, k : /\ cmds = Flush(e, session[e]) /\ heard = replies /\ seen = trace
                                /\ k = trace[g].kept
  OBVIOUS
<1>1. /\ s # None /\ ~s.ending
      /\ session' = [session EXCEPT ![e] = t]
      /\ UNCHANGED <<next, current, active, generation, closed, historyVars, focuses, edits>>
      /\ Send(cmds, heard, seen)
  BY DEF TimerCallback
<1>2. s \in Sessions /\ g \in Gestures /\ ~s.finalSent /\ ~s.accepted
  BY <1>1, OpenFacts
<1>3. /\ t \in Sessions /\ t.number = s.number /\ ~t.ending /\ ~t.finalSent /\ ~t.accepted
  BY <1>1, <1>2, FlushFacts
<1>4. PICK S : Lists(cmds, S) /\ Body(S, e, s.value) /\ \A c \in S : c.kind = "write"
  BY <1>2, FlushSends
<1>5. Keeps(seen, g, k)
  BY <1>2, KeepsTrace
<1>6. Sent(cmds, heard, seen) /\ SentTypes
  BY <1>1, <1>4, SentFacts DEF Types
<1>7. /\ session' \in [Editors -> Sessions \cup {None}] /\ session'[e] = t
      /\ \A x \in Editors \ {e} : session'[x] = session[x]
  BY <1>1, <1>3 DEF Types
<1>8. next' = next /\ value' = value /\ owner' = owner /\ active' = active /\ generation' = generation
  BY <1>1 DEF historyVars
<1>9. Types'
  BY <1>6, <1>7, <1>8, TypesAfter DEF Types
<1>10. \A c \in S : c.kind # "end" /\ c.kind # "ack"
  BY <1>4
<1>11. Moves(e, cmds, seen)
  BY <1>1, <1>2, <1>3, <1>4, <1>5, <1>7, <1>10, MoveFacts
<1>12. Listens(heard)
  BY AllFacts
<1>13. Step(cmds, heard, seen)
  BY <1>1, <1>2, <1>4, <1>5, <1>6, <1>7, <1>8, <1>10, <1>11, <1>12, BodyStep
<1> QED
  BY <1>9, <1>13 DEF Stepped

\* A gesture is given up; where there is none, nothing is sent.
LEMMA Cancelled ==
  ASSUME Types, Rules, NEW e \in Editors, NEW heard \in [Editors -> Seq(Replies)], Listens(heard),
         session' = [session EXCEPT ![e] = None],
         Send(CancelSends(e), heard, Abandoned(e)),
         next' = next, value' = value, owner' = owner,
         generation' \in [Editors -> Nat], active' \in SUBSET Editors
  PROVE  Types' /\ Stepped
<1> PICK cmds, seen : cmds = CancelSends(e) /\ seen = Abandoned(e)
  OBVIOUS
<1>1. Send(cmds, heard, seen)
  OBVIOUS
<1>2. /\ session' \in [Editors -> Sessions \cup {None}] /\ session'[e] = None
      /\ \A x \in Editors \ {e} : session'[x] = session[x]
  BY DEF Types
<1>3. next' \in [Editors -> Nat \ {0}]
  BY DEF Types
<1>4. CASE session[e] = None
  <2>1. cmds = <<>> /\ seen = trace
    BY <1>4 DEF CancelSends, Abandoned
  <2> PICK S : S = {}
    OBVIOUS
  <2>2. Lists(cmds, S)
    BY <2>1, ListsNone
  <2>3. Sent(cmds, heard, seen) /\ SentTypes
    BY <1>1, <2>1, <2>2, SentFacts DEF Types
  <2>4. \A x \in Editors : session'[x] = session[x]
    BY <1>2, <1>4
  <2>5. Step(cmds, heard, seen)
    BY <2>1, <2>2, <2>3, <2>4, QuietStep
  <2> QED
    BY <1>2, <1>3, <2>3, <2>5, TypesAfter DEF Stepped
<1>5. CASE session[e] # None
  <2>0. PICK k \in Val \cup {None} : k = None
    OBVIOUS
  <2> PICK g, v : g = Gesture(e) /\ v = Default
    OBVIOUS
  <2>1. g \in Gestures
    BY <1>5, OpenFacts
  <2>2. seen = [trace EXCEPT ![g].kept = k]
    BY <1>5, <2>0 DEF Abandoned
  <2>3. seen \in [Gestures -> Traces] /\ Keeps(seen, g, k)
    BY <2>1, <2>2, KeepsChanged
  <2>4. PICK S : Lists(cmds, S) /\ Body(S, e, v) /\ \E c \in S : c.kind = "end"
    BY <1>5, CancelFacts
  <2>5. Sent(cmds, heard, seen) /\ SentTypes
    BY <1>1, <2>3, <2>4, SentFacts
  <2>6. session'[e] = None /\ \E c \in S : c.kind = "end"
    BY <1>2, <2>4
  <2>7. Step(cmds, heard, seen)
    <3>1. session[e] # None /\ g \in Gestures /\ Lists(cmds, S) /\ Body(S, e, v)
          /\ Sent(cmds, heard, seen) /\ Keeps(seen, g, k)
      BY <1>5, <2>1, <2>3, <2>4, <2>5
    <3>2. \/ k = trace[g].kept \/ k = None \/ ~session[e].finalSent \/ k = session[e].value
      BY <2>0
    <3>3. (\E c \in S : c.kind = "end") =>
             \/ k = None \/ (v = k /\ \E c \in S : c.kind = "ack")
             \/ session[e].finalSent /\ k = session[e].value
      BY <2>0
    <3>4. \A x \in Editors \ {e} : session'[x] = session[x]
      BY <1>2
    <3> HIDE DEF Gesture
    <3> QED
      BY <2>6, <3>1, <3>2, <3>3, <3>4, BodyStep
  <2> QED
    BY <1>2, <1>3, <2>5, <2>7, TypesAfter DEF Stepped
<1> QED
  BY <1>4, <1>5

\* An interruption is a step.
LEMMA InterruptStep ==
  ASSUME Types, FocusInv, Rules, NEW e \in Editors, NEW fails \in BOOLEAN, Interrupt(e, fails)
  PROVE  Types' /\ Stepped
<1> PICK heard : heard = replies
  OBVIOUS
<1>1. /\ session' = [session EXCEPT ![e] = None]
      /\ Send(CancelSends(e), heard, Abandoned(e))
      /\ next' = next /\ value' = value /\ owner' = owner
  BY DEF Interrupt, historyVars
<1>2. active' = IF fails THEN active \ {e} ELSE active
  BY DEF Interrupt
<1>3. generation' = IF fails THEN [generation EXCEPT ![e] = @ + 1] ELSE generation
  BY DEF Interrupt
<1>4. active' \in SUBSET Editors /\ generation' \in [Editors -> Nat]
  BY <1>2, <1>3 DEF Types
<1>5. heard \in [Editors -> Seq(Replies)] /\ Listens(heard)
  BY AllFacts
<1> QED
  BY <1>1, <1>4, <1>5, Cancelled

\* A window that closes is a step.
LEMMA CloseStep ==
  ASSUME Types, FocusInv, Rules, NEW e \in Editors, CloseEditor(e)
  PROVE  Types' /\ Stepped
<1> PICK cmds, heard, seen : cmds = CloseSends(e) /\ heard = replies /\ seen = Kept(e)
  OBVIOUS
<1>1. /\ session' = [session EXCEPT ![e] = None] /\ Send(cmds, heard, seen)
      /\ next' = next /\ value' = value /\ owner' = owner
      /\ active' = active \ {e} /\ generation' = generation
  BY DEF CloseEditor, historyVars
<1>2. /\ session' \in [Editors -> Sessions \cup {None}] /\ session'[e] = None
      /\ \A x \in Editors \ {e} : session'[x] = session[x]
  BY <1>1 DEF Types
<1>3. /\ next' \in [Editors -> Nat \ {0}] /\ generation' \in [Editors -> Nat]
      /\ active' \in SUBSET Editors
  BY <1>1 DEF Types
<1>4. heard \in [Editors -> Seq(Replies)] /\ Listens(heard)
  BY AllFacts
<1>5. CASE session[e] = None
  <2>1. cmds = <<>> /\ seen = trace
    BY <1>5 DEF CloseSends, Kept
  <2> PICK S : S = {}
    OBVIOUS
  <2>2. Lists(cmds, S)
    BY <2>1, ListsNone
  <2>3. Sent(cmds, heard, seen) /\ SentTypes
    BY <1>1, <1>4, <2>1, <2>2, SentFacts DEF Types
  <2>4. \A x \in Editors : session'[x] = session[x]
    BY <1>2, <1>5
  <2>5. Step(cmds, heard, seen)
    BY <1>1, <1>4, <2>1, <2>2, <2>3, <2>4, QuietStep
  <2> QED
    BY <1>1, <1>2, <1>3, <2>3, <2>5, TypesAfter DEF Stepped
<1>6. CASE session[e] # None
  <2> PICK g : g = Gesture(e)
    OBVIOUS
  <2>1. g \in Gestures /\ session[e].value \in Val
    BY <1>6, OpenFacts
  <2>0. PICK k \in Val \cup {None} : k = session[e].value
    BY <2>1
  <2>2. seen = [trace EXCEPT ![g].kept = k]
    BY <1>6, <2>0 DEF Kept
  <2>3. seen \in [Gestures -> Traces] /\ Keeps(seen, g, k)
    BY <2>1, <2>2, KeepsChanged
  <2>4. PICK S : /\ Lists(cmds, S) /\ Body(S, e, k)
                 /\ (\A c \in S : c.kind \in GestureKinds) /\ (\E c \in S : c.kind = "end")
                 /\ session[e].finalSent \/ \E c \in S : c.kind = "ack"
    BY <1>6, <2>0, CloseFacts
  <2>5. Sent(cmds, heard, seen) /\ SentTypes
    BY <1>1, <1>4, <2>3, <2>4, SentFacts
  <2>6. Step(cmds, heard, seen)
    BY <1>1, <1>2, <1>4, <1>6, <2>0, <2>1, <2>3, <2>4, <2>5, BodyStep
  <2> QED
    BY <1>1, <1>2, <1>3, <2>5, <2>6, TypesAfter DEF Stepped
<1> QED
  BY <1>5, <1>6

\* An edit outside of a gesture is a step.
LEMMA CommitStep ==
  ASSUME Types, FocusInv, Rules, NEW e \in Editors, NEW v \in Val, CommitDiscreteValue(e, v)
  PROVE  Types' /\ Stepped
<1> PICK c : c = Asked(e, "edit", 0, v)
  OBVIOUS
<1> PICK cmds, S, heard, seen : cmds = <<c>> /\ S = {c} /\ heard = replies /\ seen = trace
  OBVIOUS
<1>1. /\ e \in active /\ session[e] = None
      /\ UNCHANGED <<editorVars, historyVars, focuses>>
      /\ Send(cmds, heard, seen)
  BY DEF CommitDiscreteValue, Asked
<1>2. /\ session' = session /\ next' = next /\ value' = value /\ owner' = owner
      /\ active' = active /\ generation' = generation
  BY <1>1 DEF editorVars, historyVars
<1>3. c \in Commands /\ c.kind = "edit"
  BY KindFacts, CommandFacts
<1>4. Lists(cmds, S)
  BY <1>3, ListsOne
<1>5. heard \in [Editors -> Seq(Replies)] /\ Listens(heard)
  BY AllFacts
<1>6. Sent(cmds, heard, seen) /\ SentTypes
  BY <1>1, <1>4, <1>5, SentFacts DEF Types
<1>7. Idle
  BY <1>1, NoneAssumption DEF Idle, FocusInv
<1>8. Step(cmds, heard, seen)
  BY <1>2, <1>3, <1>4, <1>5, <1>6, <1>7, QuietStep
<1>9. Types'
  BY <1>2, <1>6, TypesAfter DEF Types
<1> QED
  BY <1>8, <1>9 DEF Stepped

\* A window that gains the focus is a step: the other editor's gesture is closed first.
LEMMA FocusStep ==
  ASSUME Types, FocusInv, Rules, NEW e \in Editors, Focus(e)
  PROVE  Types' /\ Stepped
<1> DEFINE previous == IF current \in Editors \ {e} THEN {current} ELSE {}
<1> PICK a, first, cmds, heard, seen :
      /\ a = Asked(e, "activate", generation[e] + 1, Default)
      /\ first = (IF previous = {} THEN <<>> ELSE CloseSends(current)) \o CancelSends(e)
      /\ cmds = first \o <<a>>
      /\ heard = replies
      /\ seen = IF previous = {} THEN Abandoned(e) ELSE Kept(current)
  OBVIOUS
<1>1. /\ session' = [x \in Editors |-> IF x \in previous \cup {e} THEN None ELSE session[x]]
      /\ Send(cmds, heard, seen)
      /\ active' = active \ previous
      /\ generation' = [generation EXCEPT ![e] = @ + 1]
      /\ UNCHANGED <<next, closed, historyVars, edits>>
  BY DEF Focus, Asked
<1>2. next' = next /\ value' = value /\ owner' = owner
  BY <1>1 DEF historyVars
<1>3. a \in Commands /\ a.kind = "activate"
  <2>1. generation[e] + 1 \in Nat
    BY DEF Types
  <2> QED
    BY <2>1, KindFacts, DefaultAssumption, CommandFacts
<1>4. /\ session' \in [Editors -> Sessions \cup {None}] /\ next' \in [Editors -> Nat \ {0}]
      /\ generation' \in [Editors -> Nat] /\ active' \in SUBSET Editors
  BY <1>1, <1>2 DEF Types
<1>5. heard \in [Editors -> Seq(Replies)] /\ Listens(heard)
  BY AllFacts
<1>6. CASE current \in Editors \ {e} /\ session[current] # None
  <2> PICK p, g, k : p = current /\ g = Gesture(p) /\ k = session[p].value
    OBVIOUS
  <2>1. p \in Editors /\ p # e /\ session[p] # None /\ session[e] = None
    BY <1>6 DEF FocusInv
  <2>2. g \in Gestures /\ k \in Val
    BY <2>1, OpenFacts
  <2>3. PICK S : /\ Lists(CloseSends(p), S) /\ Body(S, p, k)
                 /\ (\A c \in S : c.kind \in GestureKinds) /\ (\E c \in S : c.kind = "end")
                 /\ session[p].finalSent \/ \E c \in S : c.kind = "ack"
    BY <2>1, CloseFacts
  <2>4. first = CloseSends(p)
    BY <1>6, <2>1, <2>3 DEF CancelSends, Lists
  <2> PICK T : T = S \cup {a}
    OBVIOUS
  <2>5. Lists(cmds, T)
    BY <1>3, <2>3, <2>4, ListsAppend
  <2>6. /\ Body(T, p, k) /\ (\E c \in T : c.kind = "end")
        /\ session[p].finalSent \/ \E c \in T : c.kind = "ack"
    BY <1>3, <2>3 DEF Body
  <2>7. seen = [trace EXCEPT ![g].kept = k]
    BY <1>6, <2>1 DEF Kept
  <2>8. seen \in [Gestures -> Traces] /\ Keeps(seen, g, k)
    BY <2>2, <2>7, KeepsChanged
  <2>9. Sent(cmds, heard, seen) /\ SentTypes
    BY <1>1, <1>5, <2>5, <2>8, SentFacts
  <2>10. session'[p] = None /\ \A x \in Editors \ {p} : session'[x] = session[x]
    BY <1>1, <1>6, <2>1
  <2>11. Step(cmds, heard, seen)
    BY <1>2, <1>5, <2>1, <2>2, <2>5, <2>6, <2>8, <2>9, <2>10, BodyStep, ZenonT(60)
  <2> QED
    BY <1>2, <1>4, <2>9, <2>11, TypesAfter DEF Stepped
<1>7. CASE current \notin Editors \ {e} /\ session[e] # None
  <2> PICK g, v : g = Gesture(e) /\ v = Default
    OBVIOUS
  <2>0. PICK k : k = None
    OBVIOUS
  <2>1. g \in Gestures
    BY <1>7, OpenFacts
  <2>2. previous = {}
    BY <1>7
  <2>3. PICK S : /\ Lists(CancelSends(e), S) /\ Body(S, e, v)
                 /\ (\A c \in S : c.kind = "end") /\ \E c \in S : c.kind = "end"
    BY <1>7, CancelFacts
  <2>4. first = CancelSends(e)
    <3>1. CancelSends(e) \in Seq(Commands)
      BY <2>3 DEF Lists
    <3>2. first = <<>> \o CancelSends(e)
      BY <2>2, Zenon
    <3> QED
      BY <3>1, <3>2
  <2>15. PICK T : T = S \cup {a}
    OBVIOUS
  <2>5. \A c \in S : c.kind \in GestureKinds
    BY <2>3 DEF GestureKinds
  <2>6. Lists(cmds, T)
    BY <1>3, <2>3, <2>4, <2>5, <2>15, ListsAppend
  <2>7. Body(T, e, v) /\ \E c \in T : c.kind = "end"
    BY <1>3, <2>3, <2>15 DEF Body
  <2>8. seen = [trace EXCEPT ![g].kept = k]
    BY <1>7, <2>0, <2>2 DEF Abandoned
  <2>9. seen \in [Gestures -> Traces] /\ Keeps(seen, g, k)
    BY <2>0, <2>1, <2>8, KeepsChanged
  <2>10. Sent(cmds, heard, seen) /\ SentTypes
    BY <1>1, <1>5, <2>6, <2>9, SentFacts
  <2>11. session'[e] = None /\ \A x \in Editors \ {e} : session'[x] = session[x]
    BY <1>1, <2>2
  <2>12. (\E c \in T : c.kind = "end") =>
            \/ k = None \/ (v = k /\ \E c \in T : c.kind = "ack")
            \/ session[e].finalSent /\ k = session[e].value
    BY <2>0
  <2>13. \/ k = trace[g].kept \/ k = None \/ ~session[e].finalSent \/ k = session[e].value
    BY <2>0
  <2>14. Step(cmds, heard, seen)
    <3>1. session[e] # None /\ g \in Gestures /\ Lists(cmds, T) /\ Body(T, e, v)
          /\ Sent(cmds, heard, seen) /\ Keeps(seen, g, k)
      BY <1>7, <2>1, <2>6, <2>7, <2>9, <2>10
    <3>2. session'[e] = None /\ \E c \in T : c.kind = "end"
      BY <2>7, <2>11
    <3>3. \A x \in Editors \ {e} : session'[x] = session[x]
      BY <2>11
    <3> HIDE DEF Gesture
    <3> QED
      BY <1>2, <1>5, <2>12, <2>13, <3>1, <3>2, <3>3, BodyStep
  <2> QED
    BY <1>2, <1>4, <2>10, <2>14, TypesAfter DEF Stepped
<1>8. CASE /\ current \in Editors \ {e} => session[current] = None
           /\ current \notin Editors \ {e} => session[e] = None
  <2>1. session[e] = None /\ \A x \in Editors : session'[x] = session[x]
    BY <1>1, <1>8 DEF FocusInv
  <2>2. CancelSends(e) = <<>> /\ seen = trace
    <3>1. CancelSends(e) = <<>> /\ Abandoned(e) = trace
      BY <2>1 DEF CancelSends, Abandoned
    <3>2. current \in Editors \ {e} => Kept(current) = trace
      BY <1>8 DEF Kept
    <3> QED
      BY <3>1, <3>2
  <2>3. (IF previous = {} THEN <<>> ELSE CloseSends(current)) = <<>>
    BY <1>8 DEF CloseSends
  <2>4. first = <<>>
    <3>1. first = <<>> \o <<>>
      BY <2>2, <2>3, Zenon
    <3>2. <<>> \o <<>> = <<>>
      OBVIOUS
    <3> QED
      BY <3>1, <3>2, Zenon
  <2>5. cmds = <<a>>
    <3>1. <<>> \o <<a>> = <<a>>
      BY <1>3, JoinNone
    <3> QED
      BY <2>4, <3>1, Zenon
  <2> PICK S : S = {a}
    OBVIOUS
  <2>6. Lists(cmds, S)
    BY <1>3, <2>5, ListsOne
  <2>7. Sent(cmds, heard, seen) /\ SentTypes
    BY <1>1, <1>5, <2>2, <2>6, SentFacts DEF Types
  <2>8. Step(cmds, heard, seen)
    BY <1>2, <1>3, <1>5, <2>1, <2>2, <2>6, <2>7, QuietStep
  <2> QED
    BY <1>2, <1>4, <2>7, <2>8, TypesAfter DEF Stepped
<1> QED
  BY <1>6, <1>7, <1>8

\* A reply moves the gesture it concerns on.
LEMMA Moved ==
  ASSUME Types, Rules, NEW e \in Editors, session[e] # None, NEW S, NEW v, Body(S, e, v),
         NEW cmds, Lists(cmds, S),
         NEW heard \in [Editors -> Seq(Replies)], Listens(heard), NEW seen, seen = trace,
         NEW g \in Gestures, g = Gesture(e),
         (\E c \in S : c.kind = "end") => session[e].finalSent,
         NEW t \in Sessions, session' = [session EXCEPT ![e] = t], Moves(e, cmds, seen),
         Send(cmds, heard, seen), next' = next, value' = value, owner' = owner,
         active' = active, generation' = generation
  PROVE  Types' /\ Stepped
<1> PICK k : k = trace[g].kept
  OBVIOUS
<1>1. /\ session' \in [Editors -> Sessions \cup {None}] /\ session'[e] = t
      /\ \A x \in Editors \ {e} : session'[x] = session[x]
  BY DEF Types
<1>2. Sent(cmds, heard, seen) /\ SentTypes
  BY SentFacts DEF Types
<1>3. Keeps(seen, g, k)
  BY KeepsTrace
<1>4. session[e].finalSent => k = session[e].value
  BY OpenFacts
<1>5. Step(cmds, heard, seen)
  BY <1>1, <1>2, <1>3, <1>4, BodyStep
<1> QED
  BY <1>1, <1>2, <1>5, TypesAfter DEF Stepped, Types

\* A gesture goes on as it was, but for the writes that are flushed.
LEMMA KeepsOn ==
  ASSUME Types, Rules, NEW e \in Editors, session[e] # None,
         NEW S, NEW cmds, Lists(cmds, S), \A c \in S : c.kind = "write",
         NEW t \in Sessions, session'[e] = t, t.number = session[e].number,
         t.value = session[e].value, t.ending <=> session[e].ending,
         t.finalSent <=> session[e].finalSent, t.accepted <=> session[e].accepted,
         t.ending => t.finalSent, NEW seen, seen = trace
  PROVE  Moves(e, cmds, seen)
BY OpenFacts, ListsSends DEF Is, Sends, Moves

\* The reply that is delivered next is one the rules speak of.
LEMMA HeadFacts ==
  ASSUME Types, Rules, NEW e \in Editors, replies[e] # <<>>, NEW r, r = Head(replies[e])
  PROVE  r \in Replies /\ ReplyOf(e, r)
<1>1. replies[e] \in Seq(Replies)
  BY DEF Types
<1>2. 1 \in DOMAIN replies[e] /\ r = replies[e][1]
  BY <1>1
<1> QED
  BY <1>1, <1>2 DEF Rules, ReplyInv

\* The reply to a begin is a step.
LEMMA BeginReplyStep ==
  ASSUME Types, FocusInv, Rules, NEW e \in Editors, NEW r, NEW heard \in [Editors -> Seq(Replies)],
         Listens(heard), heard = Rest(e), BeginReplied(e, r),
         UNCHANGED <<next, current, closed, historyVars, focuses, edits>>
  PROVE  Types' /\ Stepped
<1> DEFINE s == [session[e] EXCEPT !.ready = TRUE]
<1> PICK g : g = Gesture(e)
  OBVIOUS
<1>1. /\ next' = next /\ value' = value /\ owner' = owner
      /\ active' = active /\ generation' = generation
  BY DEF BeginReplied, historyVars
<1>2. session[e] # None
  BY DEF BeginReplied, Concerns
<1>3. /\ session[e] \in Sessions /\ g \in Gestures
      /\ session[e].finalSent => session[e].ending
      /\ session[e].accepted => session[e].finalSent
      /\ session[e].ending => trace[g].kept = session[e].value
      /\ session[e].ending /\ ~session[e].finalSent => session[e].dirty
  BY <1>2, OpenFacts
<1>4. /\ s \in Sessions /\ s.number = session[e].number /\ s.value = session[e].value /\ s.ready
      /\ s.ending <=> session[e].ending
      /\ s.finalSent <=> session[e].finalSent
      /\ s.accepted <=> session[e].accepted
      /\ s.dirty <=> session[e].dirty
  BY <1>3 DEF Sessions
<1>5. session' = [session EXCEPT ![e] =
               IF ~r.ok THEN None ELSE IF s.ending THEN Finished(s) ELSE Flushed(s)]
  BY DEF BeginReplied
<1>6. Send(IF ~r.ok THEN CancelSends(e)
           ELSE IF s.ending THEN Finish(e, s) ELSE Flush(e, s),
           heard, IF r.ok THEN trace ELSE Abandoned(e))
  BY DEF BeginReplied
<1> HIDE DEF s
<1>7. CASE ~r.ok
  BY <1>1, <1>5, <1>6, <1>7, Cancelled DEF Types
<1>8. CASE r.ok /\ s.ending /\ ~s.finalSent
  <2> PICK t, cmds, seen, v : t = Finished(s) /\ cmds = Finish(e, s) /\ seen = trace /\ v = s.value
    OBVIOUS
  <2>1. session' = [session EXCEPT ![e] = t] /\ Send(cmds, heard, seen)
    BY <1>5, <1>6, <1>8
  <2>2. /\ t \in Sessions /\ t.number = session[e].number /\ t.value = v /\ t.ending
        /\ t.finalSent /\ ~t.accepted
    BY <1>3, <1>4, <1>8, FlushFacts, ZenonT(60)
  <2>3. PICK S : /\ Lists(cmds, S) /\ Body(S, e, v)
                 /\ (\A c \in S : c.kind # "end") /\ \E c \in S : c.kind = "ack"
    BY <1>3, <1>4, <1>8, FinishFacts
  <2>4. session'[e] = t
    BY <2>1, <2>2 DEF Types
  <2> PICK k : k = trace[g].kept
    OBVIOUS
  <2>5. Keeps(seen, g, k) /\ k = t.value
    BY <1>3, <1>4, <1>8, <2>2, KeepsTrace
  <2>6. Moves(e, cmds, seen)
    BY <1>2, <1>3, <1>4, <1>8, <2>2, <2>3, <2>4, <2>5, MoveFacts, ZenonT(60)
  <2> QED
    BY <1>1, <1>2, <1>3, <2>1, <2>2, <2>3, <2>6, Moved
<1>9. CASE r.ok /\ s.ending /\ s.finalSent
  <2> PICK t, cmds, seen, v : t = Finished(s) /\ cmds = Finish(e, s) /\ seen = trace /\ v = s.value
    OBVIOUS
  <2>1. session' = [session EXCEPT ![e] = t] /\ Send(cmds, heard, seen)
    BY <1>5, <1>6, <1>9
  <2>2. /\ t \in Sessions /\ t.number = session[e].number /\ t.value = v /\ t.ending
        /\ t.finalSent /\ (t.accepted <=> session[e].accepted)
    BY <1>3, <1>4, <1>9, FlushFacts
  <2> PICK S : S = {}
    OBVIOUS
  <2>3. Lists(cmds, S) /\ Body(S, e, v)
    BY <1>9, ListsNone DEF Finish, Body
  <2>4. session'[e] = t
    BY <2>1, <2>2 DEF Types
  <2>5. Moves(e, cmds, seen)
    BY <1>2, <1>4, <1>9, <2>2, <2>3, <2>4, KeepsOn
  <2> QED
    BY <1>1, <1>2, <1>3, <2>1, <2>2, <2>3, <2>5, Moved
<1>10. CASE r.ok /\ ~s.ending
  <2> PICK t, cmds, seen, v : t = Flushed(s) /\ cmds = Flush(e, s) /\ seen = trace /\ v = s.value
    OBVIOUS
  <2>1. session' = [session EXCEPT ![e] = t] /\ Send(cmds, heard, seen)
    BY <1>5, <1>6, <1>10
  <2>2. /\ t \in Sessions /\ t.number = session[e].number /\ t.value = v
        /\ (t.ending <=> s.ending) /\ (t.finalSent <=> s.finalSent)
        /\ (t.accepted <=> s.accepted)
    BY <1>4, FlushFacts
  <2>3. PICK S : Lists(cmds, S) /\ Body(S, e, v) /\ \A c \in S : c.kind = "write"
    BY <1>4, FlushSends
  <2>4. session'[e] = t
    BY <2>1, <2>2 DEF Types
  <2>5. Moves(e, cmds, seen)
    BY <1>2, <1>4, <1>10, <2>2, <2>3, <2>4, KeepsOn
  <2>6. ~\E c \in S : c.kind = "end"
    BY <2>3
  <2> QED
    BY <1>1, <1>2, <1>3, <2>1, <2>2, <2>3, <2>5, <2>6, Moved
<1> QED
  BY <1>7, <1>8, <1>9, <1>10

\* The reply to an acknowledgement is a step.
LEMMA AckReplyStep ==
  ASSUME Types, FocusInv, Rules, NEW e \in Editors, NEW r, r \in Replies, ReplyOf(e, r),
         NEW heard \in [Editors -> Seq(Replies)], Listens(heard), heard = Rest(e), AckReplied(e, r),
         UNCHANGED <<next, current, closed, historyVars, focuses, edits>>
  PROVE  Types' /\ Stepped
<1> PICK g, s, v, n : g = Gesture(e) /\ s = session[e] /\ v = Default /\ n = r.number
  OBVIOUS
<1>0. PICK b : b = r.ok
  OBVIOUS
<1> DEFINE t == [s EXCEPT !.accepted = b]
<1> PICK c, seen : c = Asked(e, "end", n, v) /\ seen = trace
  OBVIOUS
<1>1. /\ next' = next /\ value' = value /\ owner' = owner
      /\ active' = active /\ generation' = generation
  BY DEF AckReplied, historyVars
<1>2. s # None /\ s.number = n /\ r.kind = "ack"
  BY DEF AckReplied, Concerns
<1>3. /\ s \in Sessions /\ g \in Gestures /\ g = <<e, n>> /\ n \in Nat /\ Open(g)
      /\ s.ending => trace[g].kept = s.value
      /\ s.finalSent => s.ending
  BY <1>2, OpenFacts
<1>4. s.finalSent /\ (b => trace[g].written = s.value /\ Settled(g))
  <2>1. g = <<e, r.number>>
    BY <1>3
  <2> QED
    BY <1>0, <1>2, <1>3, <2>1 DEF ReplyOf
<1>5. b \in BOOLEAN
  BY <1>0 DEF Replies
<1>6. /\ t \in Sessions /\ t.number = n /\ t.value = s.value /\ t.finalSent /\ t.ending
      /\ t.accepted <=> b
  BY <1>2, <1>3, <1>4, <1>5 DEF Sessions
<1>7. session' = [session EXCEPT ![e] = t]
  BY <1>0 DEF AckReplied
<1> HIDE DEF t
<1>8. session'[e] = t
  BY <1>6, <1>7 DEF Types
<1> PICK cmds, S : cmds = <<c>> /\ S = {c}
  OBVIOUS
<1>9. Send(cmds, heard, seen)
  BY DEF AckReplied, Asked
<1>10. c \in Commands /\ c.from = e /\ c.kind = "end" /\ c.number = n
  BY <1>3, KindFacts, DefaultAssumption, CommandFacts
<1>11. Lists(cmds, S) /\ Body(S, e, v)
  BY <1>2, <1>10, ListsOne DEF Body
<1>12. Moves(e, cmds, seen)
  <2>1. ~Sends(cmds, "ack", g) /\ \A m \in DOMAIN cmds : ~Is(cmds[m], "ack", g)
    BY <1>10 DEF Sends, Is
  <2> QED
    BY <1>3, <1>4, <1>6, <1>8, <2>1, <1>2 DEF Moves
<1> QED
  BY <1>1, <1>2, <1>3, <1>4, <1>6, <1>7, <1>9, <1>11, <1>12, Moved

\* The reply to an end is a step.
LEMMA EndReplyStep ==
  ASSUME Types, FocusInv, Rules, NEW e \in Editors, NEW r, r \in Replies, ReplyOf(e, r),
         NEW heard \in [Editors -> Seq(Replies)], Listens(heard), heard = Rest(e), EndReplied(e, r),
         UNCHANGED <<next, current, closed, historyVars, focuses, edits>>
  PROVE  Types' /\ Stepped
<1> PICK g, s : g = Gesture(e) /\ s = session[e]
  OBVIOUS
<1>0. PICK b : b = (r.ok /\ s.accepted)
  OBVIOUS
<1>1. /\ next' = next /\ value' = value /\ owner' = owner
      /\ active' = active /\ generation' = generation /\ queue' = queue /\ replies' = heard
      /\ session' = [session EXCEPT ![e] = None]
  BY DEF EndReplied, historyVars
<1>2. s # None /\ s.number = r.number /\ r.kind = "end"
  BY DEF EndReplied, Concerns
<1>3. s \in Sessions /\ g \in Gestures /\ g = <<e, r.number>> /\ Open(g) /\ g[1] = e
  BY <1>2, OpenFacts
<1>4. Over(g)
  BY <1>2, <1>3 DEF ReplyOf
<1>5. b \in BOOLEAN /\ (b => s.accepted)
  BY <1>0, <1>3 DEF Replies, Sessions
<1> DEFINE to == [trace[g] EXCEPT !.reported = b]
<1>6. trace' = [trace EXCEPT ![g] = to]
  BY <1>0 DEF EndReplied
<1>7. trace \in [Gestures -> Traces] /\ trace[g] \in Traces
  BY <1>3 DEF Types
<1>8. to \in Traces
      /\ to.began = trace[g].began /\ to.ended = trace[g].ended
      /\ to.strayed = trace[g].strayed /\ to.ackPoint = trace[g].ackPoint
      /\ to.written = trace[g].written /\ to.refused = trace[g].refused
      /\ to.kept = trace[g].kept /\ (to.reported <=> b)
  BY <1>5, <1>7 DEF Traces
<1> HIDE DEF to
<1> PICK seen : seen = trace'
  OBVIOUS
<1>9. seen \in [Gestures -> Traces] /\ \A h \in Gestures : seen[h] = IF h = g THEN to ELSE trace[h]
  BY <1>6, <1>7, <1>8
<1>10. /\ session' \in [Editors -> Sessions \cup {None}] /\ session'[e] = None
       /\ \A x \in Editors \ {e} : session'[x] = session[x]
  BY <1>1 DEF Types
<1>11. Sees(seen)
  BY <1>3, <1>5, <1>8, <1>9, <1>10 DEF Sees
<1> PICK cmds, S : cmds = <<>> /\ S = {}
  OBVIOUS
<1>12. Lists(cmds, S) /\ CompleteAs(S, seen)
  BY ListsNone DEF CompleteAs
<1>13. Sent(cmds, heard, seen)
  BY <1>1, NothingSent
<1>14. Closes(e, cmds)
  BY <1>3, <1>4, <1>10 DEF Closes
<1>15. \A x \in Editors \ {e} :
          session[x] # None => seen[Gesture(x)].kept = trace[Gesture(x)].kept
  BY <1>3, <1>9, OpenFacts
<1>16. Step(cmds, heard, seen)
  BY <1>1, <1>10, <1>11, <1>12, <1>13, <1>14, <1>15, Assemble
<1>17. Types'
  BY <1>1, <1>9, <1>10 DEF Types
<1> QED
  BY <1>16, <1>17 DEF Stepped

\* A reply that changes no session.
LEMMA QuietReply ==
  ASSUME Types, NEW e \in Editors, NEW heard \in [Editors -> Seq(Replies)], Listens(heard),
         replies' = heard, active' \in SUBSET Editors,
         UNCHANGED <<session, generation, queue, trace, next, value, owner>>
  PROVE  Types' /\ Stepped
<1> PICK cmds, S, seen : cmds = <<>> /\ S = {} /\ seen = trace
  OBVIOUS
<1>1. Lists(cmds, S)
  BY ListsNone
<1>2. Sent(cmds, heard, seen)
  BY NothingSent
<1>3. Step(cmds, heard, seen)
  BY <1>1, <1>2, QuietStep
<1>4. Types'
  BY DEF Types
<1> QED
  BY <1>3, <1>4 DEF Stepped

\* The delivery of any reply is a step.
LEMMA DeliverStep ==
  ASSUME Types, FocusInv, Rules, NEW e \in Editors, Deliver(e)
  PROVE  Types' /\ Stepped
<1> PICK r, heard : r = Head(replies[e]) /\ heard = Rest(e)
  OBVIOUS
<1>1. /\ replies[e] # <<>>
      /\ UNCHANGED <<next, current, closed, historyVars, focuses, edits>>
  BY DEF Deliver
<1>2. \/ BeginReplied(e, r) \/ AckReplied(e, r) \/ EndReplied(e, r)
      \/ ActivateReplied(e, r) \/ Unmatched(e, r) \/ Stale(e, r)
  BY DEF Deliver
<1>3. heard \in [Editors -> Seq(Replies)] /\ Listens(heard)
  BY <1>1, RestFacts
<1>4. r \in Replies /\ ReplyOf(e, r)
  BY <1>1, HeadFacts
<1>5. next' = next /\ value' = value /\ owner' = owner
  BY <1>1 DEF historyVars
<1>6. CASE BeginReplied(e, r)
  BY <1>1, <1>3, <1>6, BeginReplyStep
<1>7. CASE AckReplied(e, r)
  BY <1>1, <1>3, <1>4, <1>7, AckReplyStep
<1>8. CASE EndReplied(e, r)
  BY <1>1, <1>3, <1>4, <1>8, EndReplyStep
<1>9. CASE ActivateReplied(e, r)
  BY <1>3, <1>5, <1>9, QuietReply DEF ActivateReplied, Types
<1>10. CASE Unmatched(e, r)
  <2>1. /\ session' = [session EXCEPT ![e] = None]
        /\ Send(CancelSends(e), heard, Abandoned(e))
    BY <1>10 DEF Unmatched
  <2>2. /\ active' = IF r.kind = "error" THEN active \ {e} ELSE active
        /\ generation' = IF r.kind = "error"
                         THEN [generation EXCEPT ![e] = @ + 1] ELSE generation
    BY <1>10 DEF Unmatched
  <2>3. generation' \in [Editors -> Nat] /\ active' \in SUBSET Editors
    BY <2>2 DEF Types
  <2> QED
    BY <1>3, <1>5, <2>1, <2>3, Cancelled
<1>11. CASE Stale(e, r)
  <2>1. /\ replies' = heard /\ UNCHANGED <<session, active, generation, queue, trace>>
    BY <1>11 DEF Stale
  <2>2. active' \in SUBSET Editors
    BY <2>1 DEF Types
  <2> QED
    BY <1>3, <1>5, <2>1, <2>2, QuietReply
<1> QED
  BY <1>2, <1>6, <1>7, <1>8, <1>9, <1>10, <1>11

-----------------------------------------------------------------------------
(* The focus.                                                              *)

\* A step that leaves the focus, or gives up a session or an activation, keeps
\* the invariant.
LEMMA FocusStays ==
  ASSUME FocusInv, current' = current, closed' = closed, \A e \in active' : e \in active \/ current = e,
         \A e \in Editors : session'[e] # None => session[e] # None \/ current = e
  PROVE  FocusInv'
BY DEF FocusInv

\* A handler that changes one session opens none.
LEMMA GivenUp ==
  ASSUME Types, NEW e \in Editors, NEW t, session' = [session EXCEPT ![e] = t],
         t # None => session[e] # None
  PROVE  \A x \in Editors : session'[x] # None => session[x] # None
BY DEF Types

\* A reply moves no gesture to an editor without the focus.
LEMMA DeliverFocus ==
  ASSUME Types, FocusInv, Rules, NEW e \in Editors, Deliver(e)
  PROVE  FocusInv'
<1> PICK r : r = Head(replies[e])
  OBVIOUS
<1>1. current' = current /\ closed' = closed
  BY DEF Deliver
<1>2. CASE BeginReplied(e, r)
  BY <1>1, <1>2, GivenUp, FocusStays DEF BeginReplied, Concerns
<1>3. CASE AckReplied(e, r)
  BY <1>1, <1>3, GivenUp, FocusStays DEF AckReplied, Concerns
<1>4. CASE EndReplied(e, r)
  <2>1. session' = [session EXCEPT ![e] = None] /\ active' = active
    BY <1>4 DEF EndReplied
  <2>2. \A x \in Editors : session'[x] # None => session[x] # None
    BY <2>1, GivenUp
  <2> QED
    BY <1>1, <2>1, <2>2, FocusStays
<1>5. CASE ActivateReplied(e, r)
  BY <1>1, <1>5, FocusStays DEF ActivateReplied
<1>6. CASE Unmatched(e, r)
  BY <1>1, <1>6, GivenUp, FocusStays DEF Unmatched
<1>7. CASE Stale(e, r)
  <2>1. session' = session /\ active' = active
    BY <1>7 DEF Stale
  <2> QED
    BY <1>1, <2>1, FocusStays
<1> QED
  BY <1>2, <1>3, <1>4, <1>5, <1>6, <1>7 DEF Deliver

\* A handler moves no gesture to an editor without the focus.
LEMMA HandlerFocus ==
  ASSUME Types, FocusInv, Rules, NEW e \in Editors, NEW v \in Val, NEW fails \in BOOLEAN,
         \/ Focus(e) \/ Begin(e, v) \/ SetValues(e, v) \/ End(e, v) \/ CommitDiscreteValue(e, v)
         \/ TimerCallback(e) \/ Interrupt(e, fails) \/ CloseEditor(e)
  PROVE  FocusInv'
<1>1. CASE Focus(e)
  BY <1>1 DEF Focus, FocusInv, Types
<1>2. CASE Begin(e, v)
  BY <1>2, FocusStays DEF Begin, FocusInv, Types
<1>3. CASE SetValues(e, v)
  <2> DEFINE t == [session[e] EXCEPT !.value = v, !.dirty = TRUE]
  <2>1. session[e] # None /\ session' = [session EXCEPT ![e] = t]
        /\ current' = current /\ active' = active /\ closed' = closed
    BY <1>3 DEF SetValues
  <2> HIDE DEF t
  <2>2. \A x \in Editors : session'[x] # None => session[x] # None
    BY <2>1, GivenUp
  <2> QED
    BY <2>1, <2>2, FocusStays
<1>4. CASE End(e, v)
  BY <1>4, GivenUp, FocusStays DEF End
<1>5. CASE CommitDiscreteValue(e, v)
  <2>1. session' = session /\ current' = current /\ active' = active /\ closed' = closed
    BY <1>5 DEF CommitDiscreteValue, editorVars
  <2> QED
    BY <2>1, FocusStays
<1>6. CASE TimerCallback(e)
  BY <1>6, GivenUp, FocusStays DEF TimerCallback
<1>7. CASE Interrupt(e, fails)
  BY <1>7, GivenUp, FocusStays DEF Interrupt
<1>8. CASE CloseEditor(e)
  BY <1>8, NoneAssumption DEF CloseEditor, Types, FocusInv
<1> QED
  BY <1>1, <1>2, <1>3, <1>4, <1>5, <1>6, <1>7, <1>8

-----------------------------------------------------------------------------
(* The worker takes the head of the queue: how it fares with it is "done" or *)
(* "refused".                                                              *)

Puts(c, how, g) == how = "done" /\ (Is(c, "write", g) \/ Is(c, "ack", g))
Sets(c, how) == how = "done" /\ c.kind \in {"write", "ack", "edit"}

Answers(c, how, e, r) ==
    /\ e = c.from /\ r.number = c.number /\ (r.ok => how = "done")
    /\ r.kind = c.kind \/ r.kind \in {"error", "rejected"}

\* What becomes of the gestures.
Traced(c, how) ==
    \A g \in Gestures :
        /\ trace'[g].began <=> (trace[g].began \/ Is(c, "begin", g))
        /\ trace'[g].ended <=> (trace[g].ended \/ Is(c, "end", g))
        /\ trace'[g].refused <=> (trace[g].refused \/ (how = "refused" /\ Of(c, g)))
        /\ trace'[g].kept = trace[g].kept
        /\ trace'[g].reported <=> trace[g].reported
        /\ Puts(c, how, g) => trace'[g].written = c.value
        /\ ~Puts(c, how, g) => trace'[g].written = trace[g].written
        /\ trace'[g].strayed =>
              trace[g].strayed \/ (Is(c, "write", g) /\ c.value # value /\ owner # g)
        /\ trace'[g].ackPoint =>
              trace[g].ackPoint \/ (Is(c, "ack", g) /\ c.value # value)

\* What becomes of the value and of its point.
Valued(c, how) ==
    /\ Sets(c, how) => value' = c.value
    /\ ~Sets(c, how) => value' = value
    /\ c.kind = "begin" => owner' = <<c.from, c.number>>
    /\ c.kind # "begin" => \/ owner' = owner
                           \/ c.kind \in {"ack", "edit"} /\ how = "done" /\ c.value # value

Answered(c, how) ==
    \A e \in Editors : \A i \in DOMAIN replies'[e] :
        \/ \E j \in DOMAIN replies[e] : replies'[e][i] = replies[e][j]
        \/ Answers(c, how, e, replies'[e][i])

Ran(c, how) ==
    /\ queue # <<>> /\ c = Head(queue) /\ queue' = Tail(queue)
    /\ session' = session /\ next' = next
    /\ how = "done" \/ (how = "refused" /\ c.kind \in {"write", "ack"})
    /\ Traced(c, how) /\ Valued(c, how) /\ Answered(c, how)

\* An answer goes to the end of what its editor has not heard.
LEMMA AnswerFacts ==
  ASSUME Types, NEW c \in Commands, NEW r \in Replies, NEW how, Answers(c, how, c.from, r),
         \/ replies' = replies
         \/ replies' = [replies EXCEPT ![c.from] = Append(@, r)]
  PROVE  Answered(c, how) /\ replies' \in [Editors -> Seq(Replies)]
<1>1. c.from \in Editors /\ replies \in [Editors -> Seq(Replies)]
  BY DEF Commands, Types
<1>2. CASE replies' = replies
  BY <1>1, <1>2 DEF Answered
<1>3. CASE replies' = [replies EXCEPT ![c.from] = Append(@, r)]
  <2> PICK x, s : x = c.from /\ s = replies[x]
    OBVIOUS
  <2>1. s \in Seq(Replies) /\ Len(s) \in Nat
    BY <1>1
  <2> PICK t : t = Append(s, r)
    OBVIOUS
  <2>2. t \in Seq(Replies) /\ DOMAIN t = 1..(Len(s) + 1)
        /\ t[Len(s) + 1] = r /\ \A i \in 1..Len(s) : t[i] = s[i]
    BY <2>1
  <2>3. \A i \in 1..(Len(s) + 1) : i \in 1..Len(s) \/ i = Len(s) + 1
    BY <2>1
  <2>4. \A i \in DOMAIN t : t[i] = r \/ \E j \in DOMAIN s : t[i] = s[j]
    BY <2>1, <2>2, <2>3
  <2>5. replies' = [replies EXCEPT ![x] = t]
    BY <1>3
  <2>6. /\ replies' \in [Editors -> Seq(Replies)] /\ replies'[x] = t
        /\ \A e \in Editors \ {x} : replies'[e] = replies[e]
    BY <1>1, <2>2, <2>5
  <2>7. ASSUME NEW e \in Editors, NEW i \in DOMAIN replies'[e]
        PROVE  \/ \E j \in DOMAIN replies[e] : replies'[e][i] = replies[e][j]
               \/ Answers(c, how, e, replies'[e][i])
    <3>1. CASE e = x
      BY <2>4, <2>6, <3>1, SMTT(30)
    <3>2. CASE e # x
      BY <2>6, <3>2
    <3> QED
      BY <3>1, <3>2
  <2> QED
    BY <2>6, <2>7 DEF Answered
<1> QED
  BY <1>2, <1>3

\* What the trace of one gesture becomes.
Becomes(to, c, how, g) ==
    /\ to.began <=> (trace[g].began \/ Is(c, "begin", g))
    /\ to.ended <=> (trace[g].ended \/ Is(c, "end", g))
    /\ to.refused <=> (trace[g].refused \/ how = "refused")
    /\ to.kept = trace[g].kept
    /\ to.reported <=> trace[g].reported
    /\ Puts(c, how, g) => to.written = c.value
    /\ ~Puts(c, how, g) => to.written = trace[g].written
    /\ to.strayed => trace[g].strayed \/ (Is(c, "write", g) /\ c.value # value /\ owner # g)
    /\ to.ackPoint => trace[g].ackPoint \/ (Is(c, "ack", g) /\ c.value # value)

\* What the worker notes of one gesture changes no other.
LEMMA TraceFacts ==
  ASSUME Types, NEW g \in Gestures, NEW to \in Traces, trace' = [trace EXCEPT ![g] = to],
         NEW c, Of(c, g), NEW how, Becomes(to, c, how, g)
  PROVE  Traced(c, how) /\ trace' \in [Gestures -> Traces]
<1>1. /\ trace' \in [Gestures -> Traces] /\ trace'[g] = to
      /\ \A h \in Gestures \ {g} : trace'[h] = trace[h]
  BY DEF Types
<1>2. \A h \in Gestures \ {g} : ~Of(c, h) /\ \A kind \in GestureKinds : ~Is(c, kind, h)
  BY DEF Of, Is, Gestures
<1>3. \A h \in Gestures \ {g} :
          ~Is(c, "begin", h) /\ ~Is(c, "end", h) /\ ~Is(c, "write", h) /\ ~Is(c, "ack", h)
  BY <1>2 DEF GestureKinds
<1>4. \A h \in Gestures \ {g} : ~Puts(c, how, h)
  BY <1>3 DEF Puts
<1> QED
  BY <1>1, <1>2, <1>3, <1>4 DEF Traced, Becomes

\* A command of no gesture leaves them all.
LEMMA TraceStays ==
  ASSUME trace' = trace, NEW c, c.kind \notin GestureKinds, NEW how
  PROVE  Traced(c, how)
<1>1. \A g : ~Of(c, g) /\ ~Is(c, "begin", g) /\ ~Is(c, "end", g) /\ ~Is(c, "write", g)
             /\ ~Is(c, "ack", g)
  BY DEF Of, Is, GestureKinds
<1> QED
  BY <1>1 DEF Traced, Puts

\* The fields of a reply.
LEMMA ReplyFacts ==
  ASSUME NEW kind \in ReplyKinds, NEW n \in Nat, NEW b \in BOOLEAN, NEW r, r = Reply(kind, n, b)
  PROVE  r \in Replies /\ r.kind = kind /\ r.number = n /\ (r.ok <=> b)
BY DEF Reply, Replies

Accepts(kind, n) == Reply(kind, n, TRUE)
Declines(kind, n) == Reply(kind, n, FALSE)

\* The fields of an accepting and of a declining reply.
LEMMA AcceptFacts ==
  ASSUME NEW kind \in ReplyKinds, NEW n \in Nat, NEW r
  PROVE  /\ r = Accepts(kind, n) => r \in Replies /\ r.kind = kind /\ r.number = n
         /\ r = Declines(kind, n) => r \in Replies /\ r.kind = kind /\ r.number = n /\ ~r.ok
<1>1. ASSUME r = Accepts(kind, n) PROVE \E b \in BOOLEAN : r = Reply(kind, n, b)
  BY <1>1, Zenon DEF Accepts
<1>2. ASSUME r = Declines(kind, n) PROVE \E b \in BOOLEAN : r = Reply(kind, n, b) /\ ~b
  BY <1>2, Zenon DEF Declines
<1> HIDE DEF ReplyKinds
<1> QED
  BY <1>1, <1>2, ReplyFacts

\* How a reply of the worker reaches its editor.
Replied(c, r) == \/ replies' = replies
                 \/ replies' = [replies EXCEPT ![c.from] = Append(@, r)]

\* The worker takes the command at the head and runs it.
LEMMA ExecuteRuns ==
  ASSUME Types, Rules, Execute
  PROVE  \E c, how : Ran(c, how) /\ Types'
<1> PICK c, n, e, v : c = Head(queue) /\ n = c.number /\ e = c.from /\ v = c.value
  OBVIOUS
<1> PICK g : g = <<e, n>>
  OBVIOUS
<1>1. queue # <<>> /\ queue' = Tail(queue) /\ UNCHANGED <<editorVars, focuses, edits>>
  BY DEF Execute
<1>2. /\ session' = session /\ next' = next /\ active' = active /\ generation' = generation
  BY <1>1 DEF editorVars
<1>3. /\ c \in Commands /\ 1 \in DOMAIN queue /\ c = queue[1] /\ queue' \in Seq(Commands)
  BY <1>1 DEF Types
<1>4. /\ e \in Editors /\ c.kind \in Kinds /\ n \in Nat /\ v \in Val
  BY <1>3 DEF Commands
<1>5. c.kind \in GestureKinds => g \in Gestures /\ g[1] = e /\ g[2] = n /\ Of(c, g)
  <2> SUFFICES ASSUME c.kind \in GestureKinds PROVE g \in Gestures /\ Of(c, g)
    BY DEF Gestures
  <2>1. n \in 1..MaxGestures
    BY <1>3 DEF Rules, FreshInv
  <2> QED
    BY <1>4, <2>1 DEF Gestures, Of
<1>6. c.kind \in GestureKinds => trace[g] \in Traces
  BY <1>5 DEF Types
<1>7. ASSUME NEW how, NEW r \in Replies, Answers(c, how, e, r), Replied(c, r),
             trace' \in [Gestures -> Traces], Traced(c, how), value' \in Val, Valued(c, how),
             how = "done" \/ (how = "refused" /\ c.kind \in {"write", "ack"})
      PROVE  Ran(c, how) /\ Types'
  <2>1. Answered(c, how) /\ replies' \in [Editors -> Seq(Replies)]
    BY <1>3, <1>7, AnswerFacts DEF Replied
  <2>2. Types'
    BY <1>2, <1>3, <1>7, <2>1 DEF Types
  <2> QED
    BY <1>1, <1>2, <1>7, <2>1, <2>2 DEF Ran
<1>8. CASE ExecuteBegin(c, g)
  <2> PICK how, r : how = "done" /\ r = Accepts("begin", n)
    OBVIOUS
  <2>1. c.kind = "begin" /\ owner' = g /\ value' = value /\ Replied(c, r)
    BY <1>8 DEF ExecuteBegin, Answer, Replied, Accepts
  <2>2. r \in Replies /\ Answers(c, how, e, r)
    BY <1>4, <2>1, AcceptFacts DEF Answers, ReplyKinds, Kinds
  <2> DEFINE to == [trace[g] EXCEPT !.began = TRUE]
  <2>3. trace' = [trace EXCEPT ![g] = to]
    BY <1>8 DEF ExecuteBegin
  <2>4. /\ to \in Traces /\ to.began /\ (to.ended <=> trace[g].ended)
        /\ (to.refused <=> trace[g].refused) /\ to.kept = trace[g].kept
        /\ (to.reported <=> trace[g].reported) /\ to.written = trace[g].written
        /\ (to.strayed <=> trace[g].strayed) /\ (to.ackPoint <=> trace[g].ackPoint)
    BY <1>6, <2>1, ZenonT(60) DEF Traces, GestureKinds
  <2> HIDE DEF to
  <2>5. Is(c, "begin", g) /\ ~Is(c, "end", g) /\ ~Puts(c, how, g) /\ Of(c, g) /\ g \in Gestures
    BY <1>5, <2>1 DEF Is, Puts, GestureKinds
  <2>10. Becomes(to, c, how, g)
    BY <2>4, <2>5 DEF Becomes
  <2>6. Traced(c, how) /\ trace' \in [Gestures -> Traces]
    BY <2>3, <2>4, <2>5, <2>10, TraceFacts
  <2>7. Valued(c, how) /\ value' \in Val
    BY <2>1 DEF Valued, Sets, Types
  <2> QED
    BY <1>7, <2>2, <2>1, <2>6, <2>7
<1>9. CASE ExecuteWrite(c, g)
  <2> PICK how, r : how = "done" /\ r = Accepts("write", n)
    OBVIOUS
  <2>1. c.kind = "write" /\ owner' = owner /\ value' = v /\ Replied(c, r)
    BY <1>9 DEF ExecuteWrite, Replied
  <2>2. r \in Replies /\ Answers(c, how, e, r)
    BY <1>4, <2>1, AcceptFacts DEF Answers, ReplyKinds, Kinds
  <2>0. PICK s : s = (trace[g].strayed \/ (v # value /\ owner # g))
    OBVIOUS
  <2> DEFINE mid == [trace[g] EXCEPT !.written = v]
             to == [mid EXCEPT !.strayed = s]
  <2>3. trace' = [trace EXCEPT ![g] = to]
    BY <1>9, <2>0 DEF ExecuteWrite
  <2>8. s \in BOOLEAN /\ (s => trace[g].strayed \/ (v # value /\ owner # g))
    BY <2>0
  <2>11. /\ mid \in Traces /\ (mid.began <=> trace[g].began) /\ (mid.ended <=> trace[g].ended)
         /\ (mid.refused <=> trace[g].refused) /\ mid.kept = trace[g].kept
         /\ (mid.reported <=> trace[g].reported) /\ mid.written = v
         /\ (mid.ackPoint <=> trace[g].ackPoint)
    BY <1>4, <1>6, <2>1 DEF Traces, GestureKinds
  <2> HIDE DEF mid
  <2>4. /\ to \in Traces /\ (to.began <=> trace[g].began) /\ (to.ended <=> trace[g].ended)
        /\ (to.refused <=> trace[g].refused) /\ to.kept = trace[g].kept
        /\ (to.reported <=> trace[g].reported) /\ to.written = v
        /\ (to.strayed <=> s) /\ (to.ackPoint <=> trace[g].ackPoint)
    BY <2>8, <2>11 DEF Traces
  <2> HIDE DEF to
  <2>5. /\ Is(c, "write", g) /\ ~Is(c, "begin", g) /\ ~Is(c, "end", g) /\ Puts(c, how, g)
        /\ Of(c, g) /\ g \in Gestures /\ how # "refused"
    BY <1>5, <2>1 DEF Is, Puts, GestureKinds
  <2>10. Becomes(to, c, how, g)
    BY <2>4, <2>5, <2>8 DEF Becomes
  <2>12. to \in Traces /\ Of(c, g) /\ g \in Gestures
    BY <2>4, <2>5
  <2>6. Traced(c, how) /\ trace' \in [Gestures -> Traces]
    BY <2>3, <2>10, <2>12, TraceFacts
  <2>7. Valued(c, how) /\ value' \in Val
    BY <1>4, <2>1 DEF Valued, Sets
  <2> QED
    BY <1>7, <2>2, <2>1, <2>6, <2>7
<1>10. CASE ExecuteAck(c, g)
  <2> PICK how, r : how = "done" /\ r = Accepts("ack", n)
    OBVIOUS
  <2>1. c.kind = "ack" /\ owner' = (IF v # value THEN None ELSE owner) /\ value' = v
    BY <1>10 DEF ExecuteAck
  <2>8. Replied(c, r)
    BY <1>10 DEF ExecuteAck, Answer, Accepts, Replied
  <2>2. r \in Replies /\ Answers(c, how, e, r)
    BY <1>4, <2>1, AcceptFacts DEF Answers, ReplyKinds, Kinds
  <2> DEFINE to == [trace[g] EXCEPT !.written = v, !.ackPoint = (v # value)]
  <2>3. trace' = [trace EXCEPT ![g] = to]
    BY <1>10 DEF ExecuteAck
  <2>4. /\ to \in Traces /\ (to.began <=> trace[g].began) /\ (to.ended <=> trace[g].ended)
        /\ (to.refused <=> trace[g].refused) /\ to.kept = trace[g].kept
        /\ (to.reported <=> trace[g].reported) /\ to.written = v
        /\ (to.strayed <=> trace[g].strayed) /\ (to.ackPoint <=> (v # value))
    BY <1>4, <1>6, <2>1, ZenonT(60) DEF Traces, GestureKinds
  <2> HIDE DEF to
  <2>5. /\ Is(c, "ack", g) /\ ~Is(c, "begin", g) /\ ~Is(c, "end", g) /\ Puts(c, how, g)
        /\ Of(c, g) /\ g \in Gestures /\ how # "refused"
    BY <1>5, <2>1 DEF Is, Puts, GestureKinds
  <2>10. Becomes(to, c, how, g)
    BY <2>4, <2>5 DEF Becomes
  <2>12. to \in Traces /\ Of(c, g) /\ g \in Gestures
    BY <2>4, <2>5
  <2>6. Traced(c, how) /\ trace' \in [Gestures -> Traces]
    BY <2>3, <2>10, <2>12, TraceFacts
  <2>7. Valued(c, how) /\ value' \in Val
    BY <1>4, <2>1 DEF Valued, Sets
  <2> QED
    BY <1>7, <2>2, <2>8, <2>6, <2>7
<1>11. CASE ExecuteEnd(c, g)
  <2> PICK how, r : how = "done" /\ r = Accepts("end", n)
    OBVIOUS
  <2>1. c.kind = "end" /\ owner' = owner /\ value' = value
    BY <1>11 DEF ExecuteEnd, historyVars
  <2>8. Replied(c, r)
    BY <1>11 DEF ExecuteEnd, Answer, Accepts, Replied
  <2>2. r \in Replies /\ Answers(c, how, e, r)
    BY <1>4, <2>1, AcceptFacts DEF Answers, ReplyKinds, Kinds
  <2> DEFINE to == [trace[g] EXCEPT !.ended = TRUE]
  <2>3. trace' = [trace EXCEPT ![g] = to]
    BY <1>11 DEF ExecuteEnd
  <2>4. /\ to \in Traces /\ to.ended /\ (to.began <=> trace[g].began)
        /\ (to.refused <=> trace[g].refused) /\ to.kept = trace[g].kept
        /\ (to.reported <=> trace[g].reported) /\ to.written = trace[g].written
        /\ (to.strayed <=> trace[g].strayed) /\ (to.ackPoint <=> trace[g].ackPoint)
    BY <1>6, <2>1, ZenonT(60) DEF Traces, GestureKinds
  <2> HIDE DEF to
  <2>5. Is(c, "end", g) /\ ~Is(c, "begin", g) /\ ~Puts(c, how, g) /\ Of(c, g) /\ g \in Gestures
    BY <1>5, <2>1 DEF Is, Puts, GestureKinds
  <2>10. Becomes(to, c, how, g)
    BY <2>4, <2>5 DEF Becomes
  <2>6. Traced(c, how) /\ trace' \in [Gestures -> Traces]
    BY <2>3, <2>4, <2>5, <2>10, TraceFacts
  <2>7. Valued(c, how) /\ value' \in Val
    BY <2>1 DEF Valued, Sets, Types
  <2> QED
    BY <1>7, <2>2, <2>8, <2>6, <2>7
<1>12. CASE ExecuteEdit(c)
  <2> PICK how, r : how = "done" /\ r = Accepts("edit", n)
    OBVIOUS
  <2>1. c.kind = "edit" /\ owner' = (IF v # value THEN None ELSE owner) /\ value' = v
        /\ Replied(c, r) /\ trace' = trace
    BY <1>12 DEF ExecuteEdit, Replied
  <2>2. r \in Replies /\ Answers(c, how, e, r)
    BY <1>4, <2>1, AcceptFacts DEF Answers, ReplyKinds, Kinds
  <2>3. c.kind \notin GestureKinds
    BY <2>1 DEF GestureKinds
  <2>4. Traced(c, how) /\ trace' \in [Gestures -> Traces]
    BY <2>1, <2>3, TraceStays DEF Types
  <2>5. Valued(c, how) /\ value' \in Val
    BY <1>4, <2>1 DEF Valued, Sets
  <2> QED
    BY <1>7, <2>1, <2>2, <2>4, <2>5
<1>13. CASE ExecuteActivate(c)
  <2> PICK how, r : how = "done" /\ r = Accepts("activate", n)
    OBVIOUS
  <2>1. c.kind = "activate" /\ owner' = owner /\ value' = value /\ trace' = trace
    BY <1>13 DEF ExecuteActivate, historyVars
  <2>6. Replied(c, r)
    BY <1>13 DEF ExecuteActivate, Answer, Accepts, Replied
  <2>2. r \in Replies /\ Answers(c, how, e, r)
    BY <1>4, <2>1, AcceptFacts DEF Answers, ReplyKinds, Kinds
  <2>3. c.kind \notin GestureKinds
    BY <2>1 DEF GestureKinds
  <2>4. Traced(c, how) /\ trace' \in [Gestures -> Traces]
    BY <2>1, <2>3, TraceStays DEF Types
  <2>5. Valued(c, how) /\ value' \in Val
    BY <2>1 DEF Valued, Sets, Types
  <2> QED
    BY <1>7, <2>2, <2>6, <2>4, <2>5
<1>14. ASSUME NEW kind \in {"error", "rejected"}, RejectWrite(c, g, kind)
       PROVE  \E d, how : Ran(d, how) /\ Types'
  <2> PICK how, told : how = "refused" /\ told = IF c.waits THEN c.kind ELSE kind
    OBVIOUS
  <2> PICK r : r = Declines(told, n)
    OBVIOUS
  <2>1. c.kind \in {"write", "ack"} /\ owner' = owner /\ value' = value
    BY <1>14 DEF RejectWrite, historyVars
  <2>8. Replied(c, r)
    BY <1>14 DEF RejectWrite, Answer, Declines, Replied
  <2>9. told \in ReplyKinds /\ (told = c.kind \/ told \in {"error", "rejected"})
    BY <1>4, <1>14 DEF ReplyKinds
  <2>2. r \in Replies /\ Answers(c, how, e, r)
    BY <1>4, <2>9, AcceptFacts DEF Answers
  <2> DEFINE to == [trace[g] EXCEPT !.refused = TRUE]
  <2>3. trace' = [trace EXCEPT ![g] = to]
    BY <1>14 DEF RejectWrite
  <2>4. /\ to \in Traces /\ to.refused /\ (to.began <=> trace[g].began)
        /\ (to.ended <=> trace[g].ended) /\ to.kept = trace[g].kept
        /\ (to.reported <=> trace[g].reported) /\ to.written = trace[g].written
        /\ (to.strayed <=> trace[g].strayed) /\ (to.ackPoint <=> trace[g].ackPoint)
    BY <1>6, <2>1, ZenonT(60) DEF Traces, GestureKinds
  <2> HIDE DEF to
  <2>5. ~Is(c, "end", g) /\ ~Is(c, "begin", g) /\ ~Puts(c, how, g) /\ Of(c, g) /\ g \in Gestures
    BY <1>5, <2>1 DEF Is, Puts, GestureKinds
  <2>10. Becomes(to, c, how, g)
    BY <2>4, <2>5 DEF Becomes
  <2>6. Traced(c, how) /\ trace' \in [Gestures -> Traces]
    BY <2>3, <2>4, <2>5, <2>10, TraceFacts
  <2>7. Valued(c, how) /\ value' \in Val
    BY <2>1 DEF Valued, Sets, Types
  <2> QED
    BY <1>7, <2>1, <2>2, <2>8, <2>6, <2>7
<1> QED
  BY <1>8, <1>9, <1>10, <1>11, <1>12, <1>13, <1>14 DEF Execute

\* The queue moves up by one.
LEMMA RunQueue ==
  ASSUME Types, NEW c, NEW how, Ran(c, how)
  PROVE  /\ queue \in Seq(Commands) /\ queue' \in Seq(Commands) /\ Len(queue) \in Nat
         /\ Len(queue') = Len(queue) - 1 /\ Len(queue) >= 1
         /\ 1 \in DOMAIN queue /\ queue[1] = c /\ c \in Commands
         /\ \A i \in DOMAIN queue' : i \in Nat /\ i + 1 \in DOMAIN queue /\ queue'[i] = queue[i + 1]
         /\ \A i \in DOMAIN queue :
               i = 1 \/ (i - 1 \in DOMAIN queue' /\ queue'[i - 1] = queue[i])
<1>1. queue \in Seq(Commands) /\ queue # <<>> /\ c = Head(queue) /\ queue' = Tail(queue)
  BY DEF Types, Ran
<1>2. queue' \in Seq(Commands) /\ Len(queue) \in Nat /\ Len(queue) >= 1
      /\ Len(queue') = Len(queue) - 1
  BY <1>1
<1>3. \A i \in 1..(Len(queue) - 1) : queue'[i] = queue[i + 1]
  BY <1>1
<1>4. 1 \in DOMAIN queue /\ queue[1] = c /\ c \in Commands
  BY <1>1, <1>2
<1>5. ASSUME NEW i \in DOMAIN queue'
      PROVE  i \in Nat /\ i + 1 \in DOMAIN queue /\ queue'[i] = queue[i + 1]
  BY <1>1, <1>2, <1>3
<1>6. ASSUME NEW i \in DOMAIN queue, i # 1
      PROVE  i - 1 \in DOMAIN queue' /\ queue'[i - 1] = queue[i]
  <2>1. i - 1 \in 1..(Len(queue) - 1) /\ (i - 1) + 1 = i
    BY <1>1, <1>2, <1>6
  <2> QED
    BY <1>2, <1>3, <2>1
<1> QED
  BY <1>1, <1>2, <1>4, <1>5, <1>6

\* What waits of a gesture still waits, but for the head.
LEMMA RunWaits ==
  ASSUME Types, NEW c, NEW how, Ran(c, how), NEW kind, NEW g
  PROVE  /\ Waits(kind, g)' => Waits(kind, g)
         /\ Waits(kind, g) => Waits(kind, g)' \/ Is(c, kind, g)
<1>1. ASSUME Waits(kind, g)' PROVE Waits(kind, g)
  <2>1. PICK i \in DOMAIN queue' : Is(queue'[i], kind, g)
    BY <1>1 DEF Waits
  <2>2. i + 1 \in DOMAIN queue /\ queue'[i] = queue[i + 1]
    BY RunQueue
  <2> QED
    BY <2>1, <2>2 DEF Waits
<1>2. ASSUME Waits(kind, g), ~Is(c, kind, g) PROVE Waits(kind, g)'
  <2>1. PICK i \in DOMAIN queue : Is(queue[i], kind, g)
    BY <1>2 DEF Waits
  <2>2. i # 1
    BY <1>2, <2>1, RunQueue
  <2>3. i - 1 \in DOMAIN queue' /\ queue'[i - 1] = queue[i]
    BY <2>2, RunQueue
  <2> QED
    BY <2>1, <2>3 DEF Waits
<1> QED
  BY <1>1, <1>2

\* What holds of a gesture and stays.
LEMMA RunStays ==
  ASSUME Types, NEW c, NEW how, Ran(c, how), NEW g \in Gestures
  PROVE  /\ trace[g].refused => trace'[g].refused
         /\ Over(g) => Over(g)'
         /\ trace'[g].kept = trace[g].kept
         /\ trace'[g].reported <=> trace[g].reported
         /\ Settled(g) => Settled(g)' /\ trace'[g].written = trace[g].written
         /\ Open(g)' <=> Open(g)
<1>1. /\ trace[g].refused => trace'[g].refused
      /\ trace[g].ended => trace'[g].ended
      /\ trace'[g].kept = trace[g].kept
      /\ trace'[g].reported <=> trace[g].reported
      /\ ~Puts(c, how, g) => trace'[g].written = trace[g].written
  BY DEF Ran, Traced
<1>2. Over(g) => Over(g)'
  BY <1>1 DEF Over
<1>3. Open(g)' <=> Open(g)
  BY DEF Ran, Open
<1>4. ASSUME Settled(g) PROVE Settled(g)' /\ trace'[g].written = trace[g].written
  <2>1. Settled(g)'
    BY <1>4, RunWaits DEF Settled
  <2>2. ~Is(c, "write", g) /\ ~Is(c, "ack", g)
    BY <1>4, RunQueue DEF Settled, Waits
  <2> QED
    BY <1>1, <2>1, <2>2 DEF Puts
<1> QED
  BY <1>1, <1>2, <1>3, <1>4

\* After the head nothing of lower rank waits of its gesture.
LEMMA AfterHead ==
  ASSUME Types, OrderInv, NEW c, NEW how, Ran(c, how), NEW g \in Gestures, Of(c, g),
         NEW j \in DOMAIN queue, j # 1, Of(queue[j], g)
  PROVE  \/ Rank(c.kind) < Rank(queue[j].kind)
         \/ c.kind = "end" /\ queue[j].kind = "end"
<1>1. queue \in Seq(Commands) /\ Len(queue) \in Nat /\ 1 \in DOMAIN queue /\ queue[1] = c
  BY RunQueue
<1>2. 1 < j
  BY <1>1
<1> QED
  BY <1>1, <1>2 DEF OrderInv

\* The acknowledgement is the last that writes.
LEMMA AfterAcknowledgement ==
  ASSUME Types, OrderInv, NEW c, NEW how, Ran(c, how), NEW g \in Gestures, Is(c, "ack", g)
  PROVE  Settled(g)'
<1> SUFFICES ASSUME NEW i \in DOMAIN queue', Is(queue'[i], "write", g) \/ Is(queue'[i], "ack", g)
             PROVE  FALSE
  BY DEF Settled, Waits
<1>1. i + 1 \in DOMAIN queue /\ queue'[i] = queue[i + 1] /\ i + 1 # 1
  <2>1. i \in DOMAIN queue' /\ queue' \in Seq(Commands)
    BY RunQueue
  <2>2. i \in Nat /\ i >= 1
    BY <2>1
  <2> QED
    BY <2>2, RunQueue
<1>2. Of(c, g) /\ Of(queue[i + 1], g)
  BY <1>1 DEF Is, Of, GestureKinds
<1>3. \/ Rank(c.kind) < Rank(queue[i + 1].kind)
      \/ c.kind = "end" /\ queue[i + 1].kind = "end"
  BY <1>1, <1>2, AfterHead
<1>4. c.kind = "ack" /\ (queue[i + 1].kind = "write" \/ queue[i + 1].kind = "ack")
  BY <1>1 DEF Is
<1> QED
  BY <1>3, <1>4 DEF Rank

\* The worker keeps the order of what waits.
LEMMA RunOrder ==
  ASSUME Types, OrderInv, NEW c, NEW how, Ran(c, how)
  PROVE  OrderInv'
<1> SUFFICES ASSUME NEW i \in DOMAIN queue', NEW j \in DOMAIN queue', NEW g \in Gestures,
                    i < j, Of(queue'[i], g), Of(queue'[j], g)
             PROVE  \/ Rank(queue'[i].kind) < Rank(queue'[j].kind)
                    \/ queue'[i].kind = "end" /\ queue'[j].kind = "end"
  BY DEF OrderInv
<1>1. /\ i \in Nat /\ i + 1 \in DOMAIN queue /\ queue'[i] = queue[i + 1]
      /\ j \in Nat /\ j + 1 \in DOMAIN queue /\ queue'[j] = queue[j + 1]
  BY RunQueue
<1>2. i + 1 < j + 1
  BY <1>1
<1> QED
  BY <1>1, <1>2 DEF OrderInv

\* The worker runs nothing of a gesture that has not begun.
LEMMA RunFresh ==
  ASSUME Types, FreshInv, NEW c, NEW how, Ran(c, how)
  PROVE  FreshInv'
<1>0. next' = next
  BY DEF Ran
<1>1. ASSUME NEW i \in DOMAIN queue', queue'[i].kind \in GestureKinds
      PROVE  queue'[i].number \in 1..MaxGestures /\ queue'[i].number < next'[queue'[i].from]
  <2>1. i + 1 \in DOMAIN queue /\ queue'[i] = queue[i + 1]
    BY RunQueue
  <2> QED
    BY <1>0, <1>1, <2>1 DEF FreshInv
<1>2. ASSUME NEW e \in Editors, NEW i \in DOMAIN replies'[e], replies'[e][i].kind \in GestureKinds
      PROVE  replies'[e][i].number \in 1..MaxGestures /\ replies'[e][i].number < next'[e]
  <2>1. CASE \E j \in DOMAIN replies[e] : replies'[e][i] = replies[e][j]
    BY <1>0, <1>2, <2>1 DEF FreshInv
  <2>2. CASE Answers(c, how, e, replies'[e][i])
    <3>1. replies'[e][i].kind = c.kind /\ replies'[e][i].number = c.number /\ e = c.from
      BY <1>2, <2>2 DEF Answers, GestureKinds
    <3>2. 1 \in DOMAIN queue /\ queue[1] = c
      BY RunQueue
    <3>3. c.number \in 1..MaxGestures /\ c.number < next[c.from]
      BY <1>2, <3>1, <3>2 DEF FreshInv
    <3> QED
      BY <1>0, <3>1, <3>3
  <2> QED
    BY <2>1, <2>2 DEF Ran, Answered
<1>3. ASSUME NEW g \in Gestures, trace'[g].began \/ trace'[g].ended
      PROVE  g[2] < next'[g[1]]
  <2>1. trace[g].began \/ trace[g].ended \/ Is(c, "begin", g) \/ Is(c, "end", g)
    BY <1>3 DEF Ran, Traced
  <2>2. CASE Is(c, "begin", g) \/ Is(c, "end", g)
    BY <1>0, <2>2, RunQueue DEF Is, GestureKinds, FreshInv
  <2> QED
    BY <1>0, <2>1, <2>2 DEF FreshInv
<1> QED
  BY <1>1, <1>2, <1>3 DEF FreshInv

\* What the worker ran of an open gesture is what its record says.
LEMMA RunSession ==
  ASSUME Types, OrderInv, SessionInv, NEW c, NEW how, Ran(c, how)
  PROVE  SessionInv'
<1> SUFFICES ASSUME NEW x \in Editors, session'[x] # None PROVE SessionOf(x)'
  BY DEF SessionInv
<1>1. session' = session /\ next' = next
  BY DEF Ran
<1> PICK s : s = session[x]
  OBVIOUS
<1>2. s \in Sessions /\ s.number \in 1..MaxGestures /\ s # None /\ session'[x] = s
  BY <1>1 DEF Types, Sessions
<1> PICK g \in Gestures : g = <<x, s.number>>
  BY <1>2 DEF Gestures
<1>3. SessionOf(x)
  BY <1>1, <1>2 DEF SessionInv
<1>4. /\ s.number < next[x]
      /\ s.finalSent => s.ending
      /\ s.ending => trace[g].kept = s.value
      /\ s.ending /\ ~s.finalSent => s.dirty /\ ~s.ready
      /\ s.accepted => s.finalSent /\ trace[g].written = s.value /\ Settled(g)
      /\ Waits("ack", g) \/ Waits("end", g) \/ trace[g].ended => s.finalSent
      /\ \A i \in DOMAIN queue : Is(queue[i], "ack", g) => queue[i].value = s.value
      /\ s.finalSent => \/ trace[g].refused
                        \/ Waits("ack", g)
                        \/ trace[g].written = s.value /\ Settled(g)
  BY <1>3 DEF SessionOf
<1>5. /\ trace[g].refused => trace'[g].refused
      /\ trace'[g].kept = trace[g].kept
      /\ Settled(g) => Settled(g)' /\ trace'[g].written = trace[g].written
  BY RunStays
<1>6. \A kind : /\ Waits(kind, g)' => Waits(kind, g)
                /\ Waits(kind, g) => Waits(kind, g)' \/ Is(c, kind, g)
  BY RunWaits
<1>7. Waits("ack", g)' \/ Waits("end", g)' \/ trace'[g].ended => s.finalSent
  <2>1. trace'[g].ended => trace[g].ended \/ Is(c, "end", g)
    BY DEF Ran, Traced
  <2>2. Is(c, "end", g) => Waits("end", g)
    BY RunQueue DEF Waits
  <2> QED
    BY <1>4, <1>6, <2>1, <2>2
<1>8. \A i \in DOMAIN queue' : Is(queue'[i], "ack", g) => queue'[i].value = s.value
  <2>1. \A i \in DOMAIN queue' : i + 1 \in DOMAIN queue /\ queue'[i] = queue[i + 1]
    BY RunQueue
  <2> QED
    BY <1>4, <2>1
<1>9. s.finalSent => \/ trace'[g].refused
                     \/ Waits("ack", g)'
                     \/ trace'[g].written = s.value /\ Settled(g)'
  <2>1. ASSUME Is(c, "ack", g), ~trace'[g].refused
        PROVE  trace'[g].written = s.value /\ Settled(g)'
    <3>1. Settled(g)'
      BY <2>1, AfterAcknowledgement
    <3>2. Of(c, g)
      BY <2>1 DEF Is, Of, GestureKinds
    <3>3. how # "refused"
      BY <2>1, <3>2 DEF Ran, Traced
    <3>4. how = "done"
      BY <3>3 DEF Ran
    <3>5. trace'[g].written = c.value
      BY <2>1, <3>4 DEF Ran, Traced, Puts
    <3>6. c.value = s.value
      BY <1>4, <2>1, RunQueue, ZenonT(60)
    <3> QED
      BY <3>1, <3>5, <3>6
  <2> QED
    BY <1>4, <1>5, <1>6, <2>1
<1> QED
  BY <1>1, <1>2, <1>4, <1>5, <1>7, <1>8, <1>9 DEF SessionOf

\* The lead of a gesture up to an entry moves up with the entry.
LEMMA LeadShift ==
  ASSUME Types, AckInv, NEW c, NEW how, Ran(c, how), NEW g \in Gestures,
         NEW n \in 1..Len(queue), Lead(g, n + 1)
  PROVE  Lead(g, n)'
<1>1. /\ Len(queue) \in Nat /\ Len(queue') = Len(queue) - 1 /\ queue[1] = c /\ 1 \in DOMAIN queue
      /\ queue \in Seq(Commands) /\ queue' \in Seq(Commands)
  BY RunQueue
<1>2. n \in Nat /\ n >= 1 /\ n <= Len(queue) /\ (n + 1) - 1 = n
  BY <1>1
<1>3. \A k \in 1..(n - 1) : k + 1 \in 1..n /\ queue'[k] = queue[k + 1]
  <2> TAKE k \in 1..(n - 1)
  <2>1. k \in DOMAIN queue' /\ k + 1 \in 1..n
    BY <1>1, <1>2
  <2> QED
    BY <2>1, RunQueue
<1>4. CASE trace[g].refused
  BY <1>4, RunStays DEF Lead
<1>5. CASE \E j \in 1..n :
              Is(queue[j], "begin", g) /\ \A k \in (j + 1)..n : Mine(queue[k], g)
  <2> PICK j \in 1..n : Is(queue[j], "begin", g) /\ \A k \in (j + 1)..n : Mine(queue[k], g)
    BY <1>5
  <2>1. CASE j = 1
    <3>1. owner' = g
      BY <1>1, <2>1 DEF Ran, Valued, Is, Gestures
    <3>2. \A k \in 1..(n - 1) : Mine(queue'[k], g)
      <4> TAKE k \in 1..(n - 1)
      <4>1. k + 1 \in (j + 1)..n
        BY <1>2, <2>1
      <4> QED
        BY <1>3, <4>1
    <3> QED
      BY <3>1, <3>2 DEF Lead
  <2>2. CASE j # 1
    <3> PICK i : i = j - 1
      OBVIOUS
    <3>1. i \in 1..(n - 1) /\ i + 1 = j
      BY <1>2, <2>2
    <3>2. Is(queue'[i], "begin", g)
      BY <1>3, <3>1
    <3>3. \A k \in (i + 1)..(n - 1) : Mine(queue'[k], g)
      <4> TAKE k \in (i + 1)..(n - 1)
      <4>1. k \in 1..(n - 1) /\ k + 1 \in (j + 1)..n
        BY <1>2, <3>1
      <4> QED
        BY <1>3, <4>1
    <3> QED
      BY <3>1, <3>2, <3>3 DEF Lead
  <2> QED
    BY <2>1, <2>2
<1>6. CASE owner = g /\ \A k \in 1..n : Mine(queue[k], g)
  <2>1. Mine(c, g)
    BY <1>1, <1>2, <1>6
  <2>2. \A k \in 1..(n - 1) : Mine(queue'[k], g)
    BY <1>3, <1>6
  <2>3. trace[g].refused \/ owner' = g
    <3>1. CASE c.kind = "begin"
      <4>1. owner' = <<c.from, c.number>> /\ Of(c, g)
        BY <2>1, <3>1 DEF Ran, Valued, Mine
      <4> QED
        BY <4>1 DEF Of, Gestures
    <3>2. CASE c.kind # "begin" /\ c.kind # "ack"
      <4>1. c.kind # "edit"
        BY <2>1 DEF Mine, Of, GestureKinds
      <4> QED
        BY <1>6, <3>2, <4>1 DEF Ran, Valued
    <3>3. CASE c.kind = "ack"
      BY <1>1, <1>6, <2>1, <3>3 DEF Mine, Of, Is, AckInv, Ran, Valued
    <3> QED
      BY <3>1, <3>2, <3>3
  <2>4. trace[g].refused => trace'[g].refused
    BY RunStays
  <2> QED
    BY <2>2, <2>3, <2>4 DEF Lead
<1> QED
  BY <1>2, <1>4, <1>5, <1>6 DEF Lead

\* Behind the command that was run the point is still that of the gesture.
LEMMA RunLead ==
  ASSUME Types, AckInv, LeadInv, NEW c, NEW how, Ran(c, how)
  PROVE  LeadInv'
<1>1. /\ Len(queue) \in Nat /\ Len(queue') = Len(queue) - 1 /\ Len(queue) >= 1
      /\ queue \in Seq(Commands) /\ queue' \in Seq(Commands)
  BY RunQueue
<1>2. ASSUME NEW i \in DOMAIN queue', NEW g \in Gestures,
             Is(queue'[i], "write", g) \/ Is(queue'[i], "ack", g)
      PROVE  Lead(g, i)'
  <2>1. i + 1 \in DOMAIN queue /\ queue'[i] = queue[i + 1]
    BY RunQueue
  <2>2. Lead(g, i + 1)
    BY <1>2, <2>1 DEF LeadInv
  <2>3. i \in 1..Len(queue)
    BY <1>1
  <2> QED
    BY <2>2, <2>3, LeadShift
<1>3. ASSUME NEW e \in Editors, session'[e] # None
      PROVE  Lead(<<e, session[e].number>>, Len(queue) + 1)'
  <2>1. session' = session /\ session[e] # None
    BY <1>3 DEF Ran
  <2>2. session[e] \in Sessions /\ session[e].number \in 1..MaxGestures
    BY <2>1 DEF Types, Sessions
  <2> PICK g \in Gestures : g = <<e, session[e].number>>
    BY <2>2 DEF Gestures
  <2> PICK n \in 1..Len(queue) : n = Len(queue)
    BY <1>1
  <2>3. Lead(g, n + 1)
    BY <2>1 DEF LeadInv
  <2>4. Lead(g, n)'
    BY <2>3, LeadShift
  <2>5. n = Len(queue') + 1 /\ g = <<e, session'[e].number>>
    BY <1>1, <2>1
  <2> QED
    BY <2>4, <2>5, Zenon DEF Lead
<1> QED
  BY <1>2, <1>3 DEF LeadInv

\* A write that is run leaves the value its acknowledgement repeats.
LEMMA RunAck ==
  ASSUME Types, OrderInv, LeadInv, AckInv, NEW c, NEW how, Ran(c, how)
  PROVE  AckInv'
<1> SUFFICES ASSUME NEW i \in DOMAIN queue', NEW g \in Gestures, Is(queue'[i], "ack", g),
                    ~trace'[g].refused
             PROVE  \/ \E j \in 1..(i - 1) : Is(queue'[j], "write", g)
                                             /\ queue'[j].value = queue'[i].value
                    \/ /\ value' = queue'[i].value
                       /\ \A j \in 1..(i - 1) : ~Is(queue'[j], "write", g)
                                                /\ ~Is(queue'[j], "begin", g)
  BY DEF AckInv
<1>1. /\ Len(queue) \in Nat /\ Len(queue') = Len(queue) - 1 /\ queue[1] = c /\ 1 \in DOMAIN queue
      /\ queue \in Seq(Commands) /\ queue' \in Seq(Commands)
  BY RunQueue
<1>2. i \in Nat /\ i >= 1 /\ i + 1 \in DOMAIN queue /\ queue'[i] = queue[i + 1]
  BY <1>1, RunQueue
<1>3. \A j \in 1..(i - 1) : j + 1 \in 2..i /\ j + 1 \in DOMAIN queue /\ queue'[j] = queue[j + 1]
  <2> TAKE j \in 1..(i - 1)
  <2>1. j \in DOMAIN queue' /\ j + 1 \in 2..i
    BY <1>1, <1>2
  <2> QED
    BY <2>1, RunQueue
<1>4. Is(queue[i + 1], "ack", g) /\ ~trace[g].refused
  BY <1>2, RunStays
<1>5. (i + 1) - 1 = i /\ 1 \in 1..i
  BY <1>2
<1>7. CASE \E j \in 1..i : Is(queue[j], "write", g) /\ queue[j].value = queue[i + 1].value
  <2> PICK j \in 1..i : Is(queue[j], "write", g) /\ queue[j].value = queue[i + 1].value
    BY <1>7
  <2>1. CASE j = 1
    <3>1. Is(c, "write", g) /\ c.value = queue[i + 1].value /\ Of(c, g)
      BY <1>1, <2>1 DEF Is, Of, GestureKinds
    <3>2. how = "done"
      BY <3>1 DEF Ran, Traced
    <3>3. value' = c.value
      BY <3>1, <3>2 DEF Ran, Valued, Sets, Is
    <3>4. ASSUME NEW k \in 1..(i - 1), Is(queue'[k], "write", g) \/ Is(queue'[k], "begin", g)
          PROVE  FALSE
      BY <1>2, <1>3, <3>1, <3>4, AfterHead DEF Is, Of, GestureKinds, Rank
    <3> QED
      BY <1>2, <3>1, <3>3, <3>4
  <2>2. CASE j # 1
    <3> PICK k : k = j - 1
      OBVIOUS
    <3>1. k \in 1..(i - 1) /\ k + 1 = j
      BY <1>2, <2>2
    <3> QED
      BY <1>2, <1>3, <3>1
  <2> QED
    BY <2>1, <2>2
<1>8. CASE /\ value = queue[i + 1].value
           /\ \A j \in 1..i : ~Is(queue[j], "write", g) /\ ~Is(queue[j], "begin", g)
  <2>1. Lead(g, i + 1)
    BY <1>2, <1>4 DEF LeadInv
  <2>2. Mine(c, g)
    BY <1>1, <1>4, <1>5, <1>8, <2>1 DEF Lead
  <2>3. c.kind \notin {"write", "ack", "edit"}
    <3>1. c.kind # "edit"
      BY <2>2 DEF Mine, Of, GestureKinds
    <3>2. c.kind # "write"
      <4>1. ~Is(c, "write", g)
        BY <1>1, <1>5, <1>8
      <4> QED
        BY <2>2, <4>1 DEF Mine, Of, Is
    <3>3. c.kind # "ack"
      <4>1. ASSUME c.kind = "ack" PROVE FALSE
        BY <1>2, <1>4, <2>2, <4>1, AfterHead DEF Mine, Of, Is, GestureKinds, Rank
      <4> QED
        BY <4>1
    <3> QED
      BY <3>1, <3>2, <3>3
  <2>4. value' = value
    BY <2>3 DEF Ran, Valued, Sets
  <2>5. \A k \in 1..(i - 1) : ~Is(queue'[k], "write", g) /\ ~Is(queue'[k], "begin", g)
    <3> TAKE k \in 1..(i - 1)
    <3>1. k + 1 \in 1..i /\ queue'[k] = queue[k + 1]
      BY <1>2, <1>3
    <3> QED
      BY <1>8, <3>1
  <2> QED
    BY <1>2, <1>8, <2>4, <2>5
<1> QED
  BY <1>2, <1>4, <1>5, <1>7, <1>8 DEF AckInv

\* What holds of the head holds of an acknowledgement that is carried out.
LEMMA RunHead ==
  ASSUME Types, OrderInv, NEW c, NEW how, Ran(c, how), NEW g \in Gestures, Is(c, "ack", g)
  PROVE  /\ Settled(g)'
         /\ how = "done" => trace'[g].written = c.value
         /\ trace'[g].refused \/ how = "done"
BY AfterAcknowledgement DEF Is, Of, GestureKinds, Ran, Traced, Puts

\* An acknowledgement that is run wrote what its gesture's end relies on.
LEMMA RunEnd ==
  ASSUME Types, OrderInv, EndInv, NEW c, NEW how, Ran(c, how)
  PROVE  EndInv'
<1>1. /\ Len(queue) \in Nat /\ Len(queue') = Len(queue) - 1 /\ queue[1] = c /\ 1 \in DOMAIN queue
      /\ queue \in Seq(Commands) /\ queue' \in Seq(Commands)
  BY RunQueue
<1>2. ASSUME NEW g \in Gestures, NEW i \in DOMAIN queue', Is(queue'[i], "end", g)
      PROVE  \/ trace'[g].refused \/ trace'[g].kept = None
             \/ \E j \in 1..(i - 1) : Is(queue'[j], "ack", g) /\ queue'[j].value = trace'[g].kept
             \/ trace'[g].written = trace'[g].kept /\ Settled(g)'
  <2>1. i \in Nat /\ i >= 1 /\ i + 1 \in DOMAIN queue /\ queue'[i] = queue[i + 1] /\ (i + 1) - 1 = i
    BY <1>1, RunQueue
  <2>3. CASE \E j \in 1..i : Is(queue[j], "ack", g) /\ queue[j].value = trace[g].kept
    <3> PICK j \in 1..i : Is(queue[j], "ack", g) /\ queue[j].value = trace[g].kept
      BY <2>3
    <3>1. trace'[g].kept = trace[g].kept
      BY RunStays
    <3>2. CASE j = 1
      <4>1. Is(c, "ack", g) /\ c.value = trace[g].kept
        BY <1>1, <3>2
      <4> QED
        BY <3>1, <4>1, RunHead
    <3>3. CASE j # 1
      <4> PICK k : k = j - 1
        OBVIOUS
      <4>1. k \in 1..(i - 1) /\ k + 1 = j /\ k \in DOMAIN queue'
        BY <1>1, <2>1, <3>3
      <4>2. queue'[k] = queue[k + 1]
        BY <4>1, RunQueue
      <4> QED
        BY <3>1, <4>1, <4>2
    <3> QED
      BY <3>2, <3>3
  <2> QED
    BY <1>2, <2>1, <2>3, RunStays DEF EndInv
<1>3. ASSUME NEW g \in Gestures, trace'[g].ended
      PROVE  \/ trace'[g].refused \/ trace'[g].kept = None
             \/ trace'[g].written = trace'[g].kept /\ Settled(g)'
  <2>1. trace[g].ended \/ Is(c, "end", g)
    BY <1>3 DEF Ran, Traced
  <2>2. \/ trace[g].refused \/ trace[g].kept = None
        \/ trace[g].written = trace[g].kept /\ Settled(g)
    <3>1. CASE Is(c, "end", g)
      BY <1>1, <3>1 DEF EndInv
    <3> QED
      BY <2>1, <3>1 DEF EndInv
  <2> QED
    BY <2>2, RunStays
<1> QED
  BY <1>2, <1>3 DEF EndInv

\* What the worker replies is true of the gesture.
LEMMA RunReply ==
  ASSUME Types, OrderInv, FreshInv, SessionInv, ReplyInv, FreshInv', NEW c, NEW how, Ran(c, how)
  PROVE  ReplyInv'
<1> SUFFICES ASSUME NEW e \in Editors, NEW i \in DOMAIN replies'[e]
             PROVE  ReplyOf(e, replies[e][i])'
  BY DEF ReplyInv
<1> PICK r : r = replies'[e][i]
  OBVIOUS
<1> PICK g : g = <<e, r.number>>
  OBVIOUS
<1>1. session' = session
  BY DEF Ran
<1>2. r.kind \in GestureKinds => g \in Gestures
  BY DEF FreshInv, Gestures
<1>3. \/ \E j \in DOMAIN replies[e] : r = replies[e][j]
      \/ Answers(c, how, e, r)
  BY DEF Ran, Answered
<1>4. ASSUME r.kind = "ack", Open(g)
      PROVE  /\ session[e].finalSent
             /\ r.ok => trace'[g].written = session[e].value /\ Settled(g)'
  <2>1. g \in Gestures
    BY <1>2, <1>4 DEF GestureKinds
  <2>2. CASE \E j \in DOMAIN replies[e] : r = replies[e][j]
    <3>1. ReplyOf(e, r)
      BY <2>2 DEF ReplyInv
    <3>2. /\ session[e].finalSent
          /\ r.ok => trace[g].written = session[e].value /\ Settled(g)
      BY <1>4, <3>1 DEF ReplyOf
    <3> QED
      BY <2>1, <3>2, RunStays
  <2>3. CASE Answers(c, how, e, r)
    <3>1. Is(c, "ack", g)
      BY <1>4, <2>3 DEF Answers, Is
    <3>2. session[e] # None /\ g = <<e, session[e].number>>
      BY <1>4 DEF Open
    <3>3. SessionOf(e)
      BY <3>2 DEF SessionInv
    <3>4. /\ Waits("ack", g) => session[e].finalSent
          /\ \A j \in DOMAIN queue : Is(queue[j], "ack", g) => queue[j].value = session[e].value
      BY <3>2, <3>3 DEF SessionOf
    <3>5. 1 \in DOMAIN queue /\ queue[1] = c
      BY RunQueue
    <3>6. session[e].finalSent /\ c.value = session[e].value
      BY <3>1, <3>4, <3>5 DEF Waits
    <3>7. r.ok => how = "done"
      BY <2>3 DEF Answers
    <3> QED
      BY <2>1, <3>1, <3>6, <3>7, RunHead
  <2> QED
    BY <1>3, <2>2, <2>3
<1>5. ASSUME r.kind = "end" PROVE Over(g)'
  <2>1. g \in Gestures
    BY <1>2, <1>5 DEF GestureKinds
  <2>2. CASE \E j \in DOMAIN replies[e] : r = replies[e][j]
    <3>1. ReplyOf(e, r)
      BY <2>2 DEF ReplyInv
    <3> QED
      BY <1>5, <2>1, <3>1, RunStays DEF ReplyOf
  <2>3. CASE Answers(c, how, e, r)
    <3>1. Is(c, "end", g)
      BY <1>5, <2>3 DEF Answers, Is
    <3> QED
      BY <2>1, <3>1 DEF Ran, Traced, Over
  <2> QED
    BY <1>3, <2>2, <2>3
<1>6. Open(g)' <=> Open(g)
  BY <1>1 DEF Open
<1> QED
  BY <1>1, <1>4, <1>5, <1>6 DEF ReplyOf

\* An end that was run is remembered.
LEMMA RunClosed ==
  ASSUME Types, ClosedInv, NEW c, NEW how, Ran(c, how)
  PROVE  ClosedInv'
BY RunStays, RunWaits DEF ClosedInv, Ran, Traced, Over

\* The end of a gesture stays ahead of later begins until it is run.
LEMMA RunExclusive ==
  ASSUME Types, ExclusiveInv, NEW c, NEW how, Ran(c, how)
  PROVE  ExclusiveInv'
<1> SUFFICES ASSUME NEW i \in DOMAIN queue', NEW g \in Gestures, NEW h \in Gestures,
                    Is(queue'[i], "begin", h), g # h,
                    trace'[g].began \/ \E j \in 1..(i - 1) : Is(queue'[j], "begin", g)
             PROVE  Over(g)' \/ \E j \in 1..(i - 1) : Is(queue'[j], "end", g)
  BY DEF ExclusiveInv
<1>1. /\ Len(queue) \in Nat /\ Len(queue') = Len(queue) - 1 /\ queue[1] = c /\ 1 \in DOMAIN queue
      /\ queue \in Seq(Commands) /\ queue' \in Seq(Commands)
  BY RunQueue
<1>2. i \in Nat /\ i >= 1 /\ i + 1 \in DOMAIN queue /\ queue'[i] = queue[i + 1] /\ (i + 1) - 1 = i
  BY <1>1, RunQueue
<1>3. \A j \in 1..(i - 1) : j + 1 \in 1..i /\ queue'[j] = queue[j + 1]
  <2> TAKE j \in 1..(i - 1)
  <2>1. j \in DOMAIN queue' /\ j + 1 \in 1..i
    BY <1>1, <1>2
  <2> QED
    BY <2>1, RunQueue
<1>4. trace[g].began \/ \E j \in 1..i : Is(queue[j], "begin", g)
  <2>1. trace'[g].began => trace[g].began \/ Is(c, "begin", g)
    BY DEF Ran, Traced
  <2>2. 1 \in 1..i
    BY <1>2
  <2> QED
    BY <1>1, <1>3, <2>1, <2>2
<1>5. Over(g) \/ \E j \in 1..i : Is(queue[j], "end", g)
  BY <1>2, <1>4 DEF ExclusiveInv
<1>6. ASSUME NEW j \in 1..i, Is(queue[j], "end", g)
      PROVE  Over(g)' \/ \E k \in 1..(i - 1) : Is(queue'[k], "end", g)
  <2>1. CASE j = 1
    BY <1>1, <1>6, <2>1 DEF Ran, Traced, Over
  <2>2. CASE j # 1
    <3> PICK k : k = j - 1
      OBVIOUS
    <3>1. k \in 1..(i - 1) /\ k + 1 = j
      BY <1>2, <2>2
    <3> QED
      BY <1>3, <1>6, <3>1
  <2> QED
    BY <2>1, <2>2
<1> QED
  BY <1>5, <1>6, RunStays

\* The worker changes nothing of a gesture reported as written.
LEMMA RunReport ==
  ASSUME Types, ReportInv, NEW c, NEW how, Ran(c, how)
  PROVE  ReportInv'
BY RunStays DEF ReportInv, Ran

\* A command that is run writes in the point of its gesture, and a begin finds no gesture open.
LEMMA RunPoints ==
  ASSUME Types, LeadInv, AckInv, ExclusiveInv, OneOpenGesture, OnePointUnlessRefused,
         NEW c, NEW how, Ran(c, how)
  PROVE  OneOpenGesture' /\ OnePointUnlessRefused'
<1>1. queue[1] = c /\ 1 \in DOMAIN queue
  BY RunQueue
<1>2. 1..(1 - 1) = {}
  OBVIOUS
<1>3. ASSUME NEW g \in Gestures, NEW h \in Gestures, g # h,
             trace'[g].began, Is(c, "begin", h)
      PROVE  trace'[g].ended \/ trace'[g].refused
  <2>1. ~Is(c, "begin", g)
    BY <1>3 DEF Is, Gestures
  <2>2. trace[g].began
    BY <1>3, <2>1 DEF Ran, Traced
  <2>3. Over(g)
    BY <1>1, <1>2, <1>3, <2>2 DEF ExclusiveInv
  <2> QED
    BY <2>3, RunStays DEF Over
<1>4. OneOpenGesture'
  <2> SUFFICES ASSUME NEW g \in Gestures, NEW h \in Gestures,
                      trace'[g].began, ~trace'[g].ended, trace'[h].began, ~trace'[h].ended
               PROVE  g = h \/ trace'[g].refused \/ trace'[h].refused
    BY DEF OneOpenGesture
  <2>1. /\ trace[g].began \/ Is(c, "begin", g)
        /\ trace[h].began \/ Is(c, "begin", h)
        /\ ~trace[g].ended /\ ~trace[h].ended
    BY DEF Ran, Traced
  <2>2. CASE trace[g].began /\ trace[h].began
    <3>1. g = h \/ trace[g].refused \/ trace[h].refused
      BY <2>1, <2>2 DEF OneOpenGesture
    <3> QED
      BY <3>1, RunStays
  <2> QED
    BY <1>3, <2>1, <2>2
<1>5. OnePointUnlessRefused'
  <2> SUFFICES ASSUME NEW g \in Gestures, trace'[g].strayed \/ trace'[g].ackPoint
               PROVE  trace'[g].refused
    BY DEF OnePointUnlessRefused
  <2>1. CASE trace[g].strayed \/ trace[g].ackPoint
    BY <2>1, RunStays DEF OnePointUnlessRefused
  <2>2. CASE Is(c, "write", g) /\ c.value # value /\ owner # g
    <3>1. Lead(g, 1)
      BY <1>1, <2>2 DEF LeadInv
    <3>2. trace[g].refused
      BY <1>2, <2>2, <3>1 DEF Lead
    <3> QED
      BY <3>2, RunStays
  <2>3. CASE Is(c, "ack", g) /\ c.value # value
    <3>1. trace[g].refused
      BY <1>1, <1>2, <2>3 DEF AckInv
    <3> QED
      BY <3>1, RunStays
  <2> QED
    BY <2>1, <2>2, <2>3 DEF Ran, Traced
<1> QED
  BY <1>4, <1>5

\* The worker keeps every rule of the queue.
LEMMA RunRules ==
  ASSUME Types, Rules, NEW c, NEW how, Ran(c, how)
  PROVE  Rules'
<1>1. FreshInv'
  BY RunFresh DEF Rules
<1>2. ReplyInv'
  BY <1>1, RunReply DEF Rules
<1> QED
  BY <1>1, <1>2, RunSession, RunOrder, RunLead, RunAck, RunEnd, RunClosed, RunExclusive,
     RunReport, RunPoints DEF Rules

-----------------------------------------------------------------------------
(* The invariant holds in every behaviour.                                 *)

\* The types hold at first.
LEMMA InitTypes == Init => Types
<1> SUFFICES ASSUME Init PROVE Types
  OBVIOUS
<1>2. queue \in Seq(Commands)
  BY DEF Init
<1>3. replies \in [Editors -> Seq(Replies)]
  <2>1. <<>> \in Seq(Replies)
    OBVIOUS
  <2> QED
    BY <2>1 DEF Init
<1>4. trace \in [Gestures -> Traces]
  <2>1. Untouched \in Traces
    BY DEF Untouched, Traces
  <2> QED
    BY <2>1 DEF Init
<1> QED
  BY <1>2, <1>3, <1>4, DefaultAssumption DEF Types, Init

\* The rules hold at first.
LEMMA InitRules == Init => FocusInv /\ Rules
<1> SUFFICES ASSUME Init PROVE FocusInv /\ Rules
  OBVIOUS
<1>1. /\ \A e \in Editors : session[e] = None /\ next[e] = 1 /\ replies[e] = <<>>
      /\ queue = <<>> /\ active = {} /\ closed = {}
  BY DEF Init
<1>2. DOMAIN queue = {} /\ \A e \in Editors : DOMAIN replies[e] = {}
  BY <1>1
<1>3. \A g \in Gestures : /\ ~trace[g].began /\ ~trace[g].ended /\ ~trace[g].refused
                          /\ ~trace[g].strayed /\ ~trace[g].ackPoint /\ ~trace[g].reported
  BY DEF Init, Untouched
<1>4. \A g \in Gestures : ~Open(g) /\ ~(g[2] < next[g[1]])
  BY <1>1, BoundAssumption DEF Open, Gestures
<1>5. FocusInv
  BY <1>1 DEF FocusInv
<1>6. SessionInv /\ OrderInv /\ FreshInv
  BY <1>1, <1>2, <1>3 DEF SessionInv, OrderInv, FreshInv
<1>7. LeadInv /\ AckInv /\ EndInv
  BY <1>1, <1>2, <1>3 DEF LeadInv, AckInv, EndInv
<1>8. ReplyInv /\ ClosedInv /\ ExclusiveInv /\ ReportInv
  BY <1>2, <1>3, <1>4 DEF ReplyInv, ClosedInv, ExclusiveInv, ReportInv
<1>9. OneOpenGesture /\ OnePointUnlessRefused
  BY <1>3 DEF OneOpenGesture, OnePointUnlessRefused
<1> QED
  BY <1>5, <1>6, <1>7, <1>8, <1>9 DEF Rules

\* Nothing changes when nothing is done.
LEMMA Stuttering == IInv /\ UNCHANGED vars => IInv'
<1> SUFFICES ASSUME IInv, UNCHANGED vars PROVE IInv'
  OBVIOUS
<1>1. /\ session' = session /\ next' = next /\ current' = current /\ active' = active
      /\ generation' = generation /\ closed' = closed /\ queue' = queue
      /\ replies' = replies /\ value' = value /\ owner' = owner /\ trace' = trace
  BY DEF vars, editorVars, historyVars, bounds
<1>2. Types' /\ FocusInv'
  BY <1>1 DEF IInv, Types, FocusInv
<1>3. SessionInv' /\ OrderInv' /\ FreshInv'
  BY <1>1, ZenonT(60) DEF IInv, Rules, SessionInv, SessionOf, Waits, Settled, OrderInv, FreshInv
<1>4. LeadInv' /\ AckInv' /\ EndInv'
  BY <1>1, ZenonT(60) DEF IInv, Rules, LeadInv, Lead, AckInv, EndInv, Waits, Settled
<1>5. ReplyInv' /\ ClosedInv' /\ ExclusiveInv' /\ ReportInv'
  BY <1>1, ZenonT(60) DEF IInv, Rules, ReplyInv, ReplyOf, ClosedInv, ExclusiveInv, ReportInv, Open, Over,
              Waits, Settled
<1>6. OneOpenGesture' /\ OnePointUnlessRefused'
  BY <1>1 DEF IInv, Rules, OneOpenGesture, OnePointUnlessRefused
<1> QED
  BY <1>2, <1>3, <1>4, <1>5, <1>6 DEF IInv, Rules

\* The invariant is inductive.
LEMMA Inductive == IInv /\ [Next]_vars => IInv'
<1> SUFFICES ASSUME IInv, [Next]_vars PROVE IInv'
  OBVIOUS
<1>1. Types /\ FocusInv /\ Rules
  BY DEF IInv
<1>2. ASSUME Types', FocusInv', Stepped PROVE IInv'
  <2>1. PICK cmds, heard, seen : Step(cmds, heard, seen)
    BY <1>2 DEF Stepped
  <2>2. Rules'
    BY <1>1, <1>2, <2>1, StepRules
  <2> QED
    BY <1>2, <2>2 DEF IInv
<1>3. CASE Execute
  BY <1>1, <1>3, ExecuteRuns, RunRules DEF Execute, editorVars, FocusInv, IInv
<1>4. ASSUME NEW e \in Editors, Deliver(e) PROVE IInv'
  BY <1>1, <1>2, <1>4, DeliverStep, DeliverFocus
<1>5. ASSUME NEW e \in Editors, NEW v \in Val, NEW fails \in BOOLEAN,
             \/ Focus(e) \/ Begin(e, v) \/ SetValues(e, v) \/ End(e, v)
             \/ CommitDiscreteValue(e, v) \/ TimerCallback(e) \/ Interrupt(e, fails)
             \/ CloseEditor(e)
      PROVE  IInv'
  <2>1. FocusInv'
    BY <1>1, <1>5, HandlerFocus
  <2>2. CASE Focus(e)
    BY <1>1, <1>2, <2>1, <2>2, FocusStep
  <2>3. CASE Begin(e, v)
    BY <1>1, <1>2, <2>1, <2>3, BeginStep
  <2>4. CASE SetValues(e, v)
    BY <1>1, <1>2, <2>1, <2>4, SetValuesStep
  <2>5. CASE End(e, v)
    BY <1>1, <1>2, <2>1, <2>5, EndStep
  <2>6. CASE CommitDiscreteValue(e, v)
    BY <1>1, <1>2, <2>1, <2>6, CommitStep
  <2>7. CASE TimerCallback(e)
    BY <1>1, <1>2, <2>1, <2>7, TimerStep
  <2>8. CASE Interrupt(e, fails)
    BY <1>1, <1>2, <2>1, <2>8, InterruptStep
  <2>9. CASE CloseEditor(e)
    BY <1>1, <1>2, <2>1, <2>9, CloseStep
  <2> QED
    BY <1>5, <2>2, <2>3, <2>4, <2>5, <2>6, <2>7, <2>8, <2>9
<1>6. CASE UNCHANGED vars
  BY <1>6, Stuttering
<1>7. CASE \E e \in Editors :
        \/ Focus(e) \/ TimerCallback(e) \/ CloseEditor(e)
        \/ \E v \in Val : Begin(e, v) \/ SetValues(e, v) \/ End(e, v) \/ CommitDiscreteValue(e, v)
        \/ \E fails \in BOOLEAN : Interrupt(e, fails)
  <2>1. \E v : v \in Val
    BY DefaultAssumption
  <2> QED
    BY <1>5, <1>7, <2>1
<1> QED
  BY <1>3, <1>4, <1>6, <1>7 DEF Next

THEOREM Invariance == Spec => []IInv
<1>1. Init => IInv
  BY InitTypes, InitRules DEF IInv
<1> QED
  BY <1>1, Inductive, PTL DEF Spec

\* The handlers of GestureSession.cpp and EditorSession.cpp and the worker keep
\* every variable in its range: a session's number is one the editor has given,
\* and what waits in the queue or for an editor is a command or a reply.
THEOREM TypeCorrect == Spec => []Types
<1>1. IInv => Types
  BY DEF IInv
<1> QED
  BY <1>1, Invariance, PTL

\* A gesture's point is ended before another gesture's is begun, unless a
\* command of one of them was refused: activeSession_ lets one editor edit, and
\* closing, cancelling and finishing all send the end ahead of the next begin.
THEOREM PointsDoNotOverlap == Spec => []OneOpenGesture
<1>1. IInv => OneOpenGesture
  BY DEF IInv, Rules
<1> QED
  BY <1>1, Invariance, PTL

\* A gesture writes into its own point and its acknowledgement takes none,
\* unless one of its commands was refused: between its begin and its last write
\* the worker runs no command of another gesture and no edit.
THEOREM GesturesAreOnePoint == Spec => []OnePointUnlessRefused
<1>1. IInv => OnePointUnlessRefused
  BY DEF IInv, Rules
<1> QED
  BY <1>1, Invariance, PTL

\* The position at which the pointer was released, or the window closed or lost
\* the focus, is what an ended gesture leaves written, unless one of its
\* commands was refused: the coalesced write and the acknowledgement carry it.
THEOREM ReleaseIsWritten == Spec => []LastPositionKept
<1>1. IInv => LastPositionKept
  BY DEF IInv, Rules, EndInv, LastPositionKept
<1> QED
  BY <1>1, Invariance, PTL

\* What the editor reports as accepted is written, also after commands were
\* refused: the acknowledgement whose reply it heard is the gesture's last write.
THEOREM ReportsAreTrue == Spec => []ReportedMeansWritten
<1>1. IInv => ReportedMeansWritten
  BY DEF IInv, Rules, ReportInv, ReportedMeansWritten
<1> QED
  BY <1>1, Invariance, PTL
=============================================================================
