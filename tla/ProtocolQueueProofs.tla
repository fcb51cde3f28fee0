------------------------ MODULE ProtocolQueueProofs ------------------------
(***************************************************************************)
(* The control queue for every set of senders, every capacity and every    *)
(* number of commands.  A waiting write is two pieces of state, its        *)
(* placeholder in the channel and its latest value in _coalesced; what     *)
(* coalescing keeps rests on each latest value having one placeholder and  *)
(* each placeholder its latest value, also while the worker has taken the  *)
(* placeholder and not yet the lock.                                       *)
(***************************************************************************)
EXTENDS ProtocolQueue, TLAPS

-----------------------------------------------------------------------------
(* The inductive invariant.                                                *)

\* Entry e is a command of sender w[1] with key w[2].
Places(e, w) == ~IsBarrier(e) /\ <<e.source, e.key>> = w

\* The worker has taken the placeholder of w and not yet the lock.
InHand(w) == worker = "taken" /\ Places(hand, w)

\* What the worker holds, by the step it is at.
HandInv ==
    /\ worker = "taken" => hand \in Entries
    /\ worker \in {"check", "run"} => hand \in Entries /\ ~IsBarrier(hand)
    /\ disposal = "drained" => worker = "stopped"

\* Numbers are given in the order of acceptance.
Numbered ==
    /\ \A i \in DOMAIN queue : ~IsBarrier(queue[i]) => queue[i].number <= sent
    /\ worker \in {"taken", "check", "run"} /\ ~IsBarrier(hand) => hand.number <= sent
    /\ \A w \in Writes : coalesced[w] <= sent
    /\ \A s \in Sources : boundary[s] <= sent
    /\ \A i, j \in DOMAIN queue :
         i < j /\ ~IsBarrier(queue[i]) /\ ~IsBarrier(queue[j])
             => queue[i].number < queue[j].number

\* A latest value is reached by a placeholder that is not younger than it.
Reached ==
    disposal # "drained" => \A w \in Writes : coalesced[w] # 0 =>
        \/ \E i \in DOMAIN queue : Places(queue[i], w) /\ queue[i].number <= coalesced[w]
        \/ InHand(w) /\ hand.number <= coalesced[w]

\* No write has two placeholders, or one without a latest value.
OnePlaceholder ==
    \A w \in Writes :
        /\ coalesced[w] = 0 => ~InHand(w) /\ \A i \in DOMAIN queue : ~Places(queue[i], w)
        /\ InHand(w) => \A i \in DOMAIN queue : ~Places(queue[i], w)
        /\ \A i, j \in DOMAIN queue : Places(queue[i], w) /\ Places(queue[j], w) => i = j

\* What waits is younger than the uncoalesced command in the worker's hand.
HandIsOlder ==
    worker \in {"taken", "check", "run"} /\ ~IsBarrier(hand) /\ hand.key = NoKey =>
        \A w \in Writes : w[1] = hand.source /\ coalesced[w] # 0 => hand.number < coalesced[w]

\* The latest value is the last accepted one, and so is the one in hand
\* unless a later one waits.
LatestIsLast ==
    \A w \in Writes :
        /\ coalesced[w] # 0 => coalesced[w] = accepted[w]
        /\ worker \in {"check", "run"} /\ Places(hand, w) /\ coalesced[w] = 0
             => hand.number = accepted[w]

IInv ==
    /\ TypeOK /\ HandInv /\ Numbered /\ Reached /\ OnePlaceholder
    /\ HandIsOlder /\ NoLateWrite /\ LatestIsLast /\ LastWriteKept

-----------------------------------------------------------------------------
(* Entries and sequences.                                                  *)

\* An entry is a barrier or a command, and its fields have their types.
LEMMA EntryKinds ==
    ASSUME NEW e \in Entries
    PROVE  /\ IsBarrier(e) => e.caller \in Callers
           /\ ~IsBarrier(e) => /\ e.source \in Sources /\ e.key \in Keys \cup {NoKey}
                               /\ e.number \in Numbers
                               /\ e = Command(e.source, e.key, e.number)
  BY DEF Entries, IsBarrier, Command

\* A command is an entry with the fields it was made of.
LEMMA CommandFields ==
    ASSUME NEW s \in Sources, NEW k \in Keys \cup {NoKey}, NEW n \in Numbers
    PROVE  /\ Command(s, k, n) \in Entries /\ ~IsBarrier(Command(s, k, n))
           /\ Command(s, k, n).source = s /\ Command(s, k, n).key = k
           /\ Command(s, k, n).number = n
  BY DEF Entries, IsBarrier, Command

\* What a caller puts into the channel is a barrier.
LEMMA BarrierEntry ==
    ASSUME NEW c \in Callers
    PROVE  Entry(c) \in Entries /\ IsBarrier(Entry(c))
  BY DEF Entries, IsBarrier, Entry

\* Append keeps the elements and adds one at the end.
LEMMA Appended ==
    ASSUME NEW S, NEW q \in Seq(S), NEW e \in S
    PROVE  /\ Append(q, e) \in Seq(S) /\ Len(Append(q, e)) = Len(q) + 1
           /\ DOMAIN Append(q, e) = DOMAIN q \cup {Len(q) + 1} /\ Len(q) + 1 \notin DOMAIN q
           /\ \A i \in DOMAIN q : Append(q, e)[i] = q[i] /\ i <= Len(q)
           /\ Append(q, e)[Len(q) + 1] = e
  OBVIOUS

\* Tail moves every element but the first one place forward.
LEMMA TailMoves ==
    ASSUME NEW S, NEW q \in Seq(S), q # <<>>
    PROVE  /\ Tail(q) \in Seq(S) /\ Len(Tail(q)) = Len(q) - 1
           /\ Head(q) \in S /\ Head(q) = q[1] /\ 1 \in DOMAIN q
           /\ \A i \in DOMAIN Tail(q) : i + 1 \in DOMAIN q /\ Tail(q)[i] = q[i + 1] /\ i + 1 > 1
           /\ \A i \in DOMAIN q : i # 1 => i - 1 \in DOMAIN Tail(q) /\ Tail(q)[i - 1] = q[i]
  OBVIOUS

-----------------------------------------------------------------------------
(* The empty queue, and every step.                                        *)

\* Nothing waits, nothing was accepted.
LEMMA InitInv == Init => IInv
<1> SUFFICES ASSUME Init PROVE IInv
  OBVIOUS
<1> USE DEF Init
<1>1. TypeOK
  BY CapacityAssumption, MaxCommandsAssumption DEF TypeOK
<1>2. HandInv /\ Numbered /\ Reached
  BY MaxCommandsAssumption DEF HandInv, Numbered, Reached, Writes
<1>3. OnePlaceholder /\ HandIsOlder /\ NoLateWrite /\ LatestIsLast /\ LastWriteKept
  BY DEF OnePlaceholder, InHand, HandIsOlder, NoLateWrite, LatestIsLast, LastWriteKept, Writes
<1> QED
  BY <1>1, <1>2, <1>3 DEF IInv

\* Steps that touch neither the channel, the worker's hand nor the records,
\* and cancel or close at most.
LEMMA FrameInv ==
    ASSUME IInv, TypeOK',
           UNCHANGED <<coalesced, queue, worker, hand, recordVars>>,
           cancelled \subseteq cancelled',
           disposal' = disposal \/ disposal' \in {"completed", "cancelled"},
           disposal \in {"cancelled", "drained"} => disposal' = disposal
    PROVE  IInv'
<1> USE DEF IInv, recordVars
<1>1. HandInv' /\ Numbered' /\ OnePlaceholder'
  BY DEF HandInv, Numbered, OnePlaceholder, InHand, Places
<1>2. Reached'
  BY DEF Reached, InHand, Places
<1>3. HandIsOlder' /\ NoLateWrite' /\ LatestIsLast'
  BY DEF HandIsOlder, NoLateWrite, LatestIsLast, Places
<1>4. LastWriteKept'
  BY DEF LastWriteKept
<1> QED
  BY <1>1, <1>2, <1>3, <1>4

\* A later value takes the place of the one that waits.
LEMMA CoalesceInv ==
    ASSUME IInv, NEW s \in Sources, Coalesce(s)
    PROVE  IInv'
<1> DEFINE k == receiving[s]
           v == <<s, k>>
<1> USE DEF IInv, Coalesce
<1>1. /\ k \in Keys /\ v \in Writes /\ sent' = sent + 1 /\ sent' \in 0..MaxCommands
      /\ sent \in Nat /\ coalesced[v] # 0
  BY MaxCommandsAssumption DEF TypeOK, Writes
<1>2. /\ coalesced' \in [Writes -> 0..MaxCommands] /\ coalesced'[v] = sent + 1
      /\ \A w \in Writes : w # v => coalesced'[w] = coalesced[w]
      /\ accepted' \in [Writes -> 0..MaxCommands] /\ accepted'[v] = sent + 1
      /\ \A w \in Writes : w # v => accepted'[w] = accepted[w]
  BY <1>1 DEF TypeOK
<1>3. TypeOK'
  BY <1>1, <1>2 DEF TypeOK
<1>4. UNCHANGED <<queue, worker, hand, disposal, boundary, done, cancelled>>
  OBVIOUS
<1>5. \A w \in Writes : coalesced[w] \in Nat /\ coalesced[w] <= coalesced'[w]
  BY <1>1, <1>2, MaxCommandsAssumption DEF TypeOK, Numbered
<1>6. \A i \in DOMAIN queue : queue[i] \in Entries
  BY DEF TypeOK
<1>7. HandInv' /\ OnePlaceholder'
  BY <1>1, <1>2, <1>4 DEF HandInv, OnePlaceholder, InHand, Places
<1>8. Numbered'
  <2>1. \A i \in DOMAIN queue : ~IsBarrier(queue[i]) => queue[i].number <= sent'
    BY <1>1, <1>6, EntryKinds DEF Numbered, Numbers
  <2>2. worker \in {"taken", "check", "run"} /\ ~IsBarrier(hand) => hand.number <= sent'
    BY <1>1, EntryKinds DEF Numbered, Numbers, HandInv
  <2>3. \A w \in Writes : coalesced'[w] <= sent'
    BY <1>1, <1>2, MaxCommandsAssumption DEF Numbered, TypeOK
  <2>4. \A t \in Sources : boundary[t] <= sent'
    BY <1>1, MaxCommandsAssumption DEF Numbered, TypeOK
  <2> QED
    BY <1>4, <2>1, <2>2, <2>3, <2>4 DEF Numbered
<1>9. Reached'
  <2> SUFFICES ASSUME disposal # "drained", NEW w \in Writes, coalesced'[w] # 0
               PROVE  \/ \E i \in DOMAIN queue : Places(queue[i], w) /\ queue[i].number <= coalesced'[w]
                      \/ InHand(w) /\ hand.number <= coalesced'[w]
    BY <1>4 DEF Reached, InHand, Places
  <2>1. coalesced[w] # 0
    BY <1>1, <1>2
  <2>2. CASE \E i \in DOMAIN queue : Places(queue[i], w) /\ queue[i].number <= coalesced[w]
    <3>1. PICK i \in DOMAIN queue : Places(queue[i], w) /\ queue[i].number <= coalesced[w]
      BY <2>2
    <3>2. queue[i].number \in Numbers
      BY <3>1, <1>6, EntryKinds DEF Places
    <3>3. queue[i].number <= coalesced'[w]
      BY <3>1, <3>2, <1>5, <1>2, MaxCommandsAssumption DEF Numbers
    <3> QED
      BY <3>1, <3>3
  <2>3. CASE InHand(w) /\ hand.number <= coalesced[w]
    <3>1. hand.number \in Numbers
      BY <2>3, EntryKinds DEF InHand, Places, HandInv
    <3>2. hand.number <= coalesced'[w]
      BY <2>3, <3>1, <1>5, <1>2, MaxCommandsAssumption DEF Numbers
    <3> QED
      BY <2>3, <3>2
  <2> QED
    BY <2>1, <2>2, <2>3 DEF Reached
<1>10. HandIsOlder'
  <2> SUFFICES ASSUME worker \in {"taken", "check", "run"}, ~IsBarrier(hand), hand.key = NoKey,
                      NEW w \in Writes, w[1] = hand.source, coalesced'[w] # 0
               PROVE  hand.number < coalesced'[w]
    BY <1>4 DEF HandIsOlder
  <2>1. coalesced[w] # 0 /\ hand.number < coalesced[w]
    BY <1>1, <1>2 DEF HandIsOlder
  <2>2. hand.number \in Numbers
    BY EntryKinds DEF HandInv
  <2> QED
    BY <2>1, <2>2, <1>5, <1>2, MaxCommandsAssumption DEF Numbers
<1>11. NoLateWrite'
  <2> SUFFICES ASSUME NEW w \in Writes, coalesced'[w] # 0 PROVE coalesced'[w] > boundary[w[1]]
    BY <1>4 DEF NoLateWrite
  <2>1. coalesced[w] # 0 /\ coalesced[w] > boundary[w[1]] /\ boundary[w[1]] \in 0..MaxCommands
    BY <1>1, <1>2 DEF NoLateWrite, TypeOK, Writes
  <2> QED
    BY <2>1, <1>5, <1>2, MaxCommandsAssumption
<1>12. LatestIsLast'
  BY <1>1, <1>2, <1>4 DEF LatestIsLast, Places
<1>13. LastWriteKept'
  BY <1>1, <1>2, <1>4 DEF LastWriteKept
<1> QED
  BY <1>3, <1>7, <1>8, <1>9, <1>10, <1>11, <1>12, <1>13

\* A command, the placeholder of a write or an uncoalesced one, goes to the
\* end of the channel.
LEMMA EnqueueInv ==
    ASSUME IInv, NEW s \in Sources, Enqueue(s)
    PROVE  IInv'
<1> DEFINE k == receiving[s]
           v == <<s, k>>
           c == Command(s, k, sent + 1)
<1> USE DEF IInv, Enqueue
<1>1. /\ k \in Keys \cup {NoKey} /\ sent' = sent + 1 /\ sent' \in 0..MaxCommands
      /\ sent \in Nat /\ sent + 1 \in Numbers
  BY MaxCommandsAssumption DEF TypeOK, Numbers
<1>2. /\ c \in Entries /\ ~IsBarrier(c) /\ c.source = s /\ c.key = k /\ c.number = sent + 1
  BY <1>1, CommandFields
<1>3. queue' = Append(queue, c) /\ queue \in Seq(Entries)
  BY <1>1 DEF TypeOK
<1>4. /\ queue' \in Seq(Entries) /\ Len(queue') = Len(queue) + 1
      /\ DOMAIN queue' = DOMAIN queue \cup {Len(queue) + 1} /\ Len(queue) + 1 \notin DOMAIN queue
      /\ \A i \in DOMAIN queue : queue'[i] = queue[i] /\ i <= Len(queue)
      /\ queue'[Len(queue) + 1] = c
      /\ Len(queue) \in Nat /\ \A i \in DOMAIN queue : i \in Nat
  BY <1>2, <1>3, Appended
<1>5. /\ coalesced' \in [Writes -> 0..MaxCommands] /\ accepted' \in [Writes -> 0..MaxCommands]
      /\ \A w \in Writes : w # v => coalesced'[w] = coalesced[w] /\ accepted'[w] = accepted[w]
      /\ \A w \in Writes : w = v => /\ k \in Keys /\ coalesced[w] = 0
                                    /\ coalesced'[w] = sent + 1 /\ accepted'[w] = sent + 1
  <2>1. \A w \in Writes : w = v => k \in Keys
    BY DEF Writes
  <2>2. CASE k \in Keys
    <3>1. v \in Writes
      BY <2>2 DEF Writes
    <3> QED
      BY <2>2, <3>1, <1>1 DEF TypeOK
  <2>3. CASE k \notin Keys
    BY <2>1, <2>3 DEF TypeOK
  <2> QED
    BY <2>2, <2>3
<1>6. TypeOK'
  BY <1>1, <1>4, <1>5, CapacityAssumption, SMTT(30) DEF TypeOK, Room
<1>7. UNCHANGED <<worker, hand, disposal, boundary, done, cancelled>>
  OBVIOUS
<1>8. \A i \in DOMAIN queue : queue[i] \in Entries
  BY DEF TypeOK
<1>9. HandInv'
  BY <1>7 DEF HandInv
<1>10. Numbered'
  <2>1. \A i \in DOMAIN queue : ~IsBarrier(queue[i]) => queue[i].number < sent + 1
    BY <1>1, <1>8, EntryKinds DEF Numbered, Numbers
  <2>2. \A i \in DOMAIN queue' : ~IsBarrier(queue'[i]) => queue'[i].number <= sent'
    BY <1>1, <1>2, <1>4, <1>8, <2>1, EntryKinds DEF Numbers
  <2>3. worker \in {"taken", "check", "run"} /\ ~IsBarrier(hand) => hand.number <= sent'
    BY <1>1, EntryKinds DEF Numbered, Numbers, HandInv
  <2>4. \A w \in Writes : coalesced'[w] <= sent'
    BY <1>1, <1>5, MaxCommandsAssumption, SMTT(30) DEF Numbered, TypeOK
  <2>5. \A t \in Sources : boundary[t] <= sent'
    BY <1>1, MaxCommandsAssumption DEF Numbered, TypeOK
  <2>6. ASSUME NEW i \in DOMAIN queue', NEW j \in DOMAIN queue', i < j,
               ~IsBarrier(queue'[i]), ~IsBarrier(queue'[j])
        PROVE  queue'[i].number < queue'[j].number
    <3>1. i \in DOMAIN queue /\ queue'[i] = queue[i]
      BY <2>6, <1>4
    <3>2. CASE j \in DOMAIN queue
      BY <2>6, <3>1, <3>2, <1>4 DEF Numbered
    <3>3. CASE j = Len(queue) + 1
      BY <2>6, <3>1, <3>3, <1>2, <1>4, <2>1
    <3> QED
      BY <3>2, <3>3, <1>4
  <2> QED
    BY <1>7, <2>2, <2>3, <2>4, <2>5, <2>6 DEF Numbered
<1>11. Reached'
  <2> SUFFICES ASSUME disposal # "drained", NEW w \in Writes, coalesced'[w] # 0
               PROVE  \/ \E i \in DOMAIN queue' : /\ Places(queue'[i], w)
                                                  /\ queue'[i].number <= coalesced'[w]
                      \/ InHand(w) /\ hand.number <= coalesced'[w]
    BY <1>7 DEF Reached, InHand, Places
  <2>1. CASE w = v
    <3>1. Places(c, w) /\ c.number <= coalesced'[w]
      BY <2>1, <1>1, <1>2, <1>5 DEF Places
    <3> QED
      BY <3>1, <1>4
  <2>2. CASE w # v
    BY <2>2, <1>4, <1>5 DEF Reached
  <2> QED
    BY <2>1, <2>2
<1>12. OnePlaceholder'
  <2> SUFFICES ASSUME NEW w \in Writes
               PROVE  /\ coalesced'[w] = 0 =>
                           ~InHand(w) /\ \A i \in DOMAIN queue' : ~Places(queue'[i], w)
                      /\ InHand(w) => \A i \in DOMAIN queue' : ~Places(queue'[i], w)
                      /\ \A i, j \in DOMAIN queue' :
                           Places(queue'[i], w) /\ Places(queue'[j], w) => i = j
    BY <1>7 DEF OnePlaceholder, InHand, Places
  <2>1. CASE w = v
    <3>1. ~InHand(w) /\ \A i \in DOMAIN queue : ~Places(queue[i], w)
      BY <2>1, <1>5 DEF OnePlaceholder
    <3>2. coalesced'[w] # 0
      BY <2>1, <1>1, <1>5
    <3>3. \A i \in DOMAIN queue' : Places(queue'[i], w) => i = Len(queue) + 1
      BY <3>1, <1>4
    <3> QED
      BY <3>1, <3>2, <3>3
  <2>2. CASE w # v
    <3>1. ~Places(c, w)
      BY <2>2, <1>2 DEF Places
    <3> QED
      BY <2>2, <3>1, <1>4, <1>5 DEF OnePlaceholder
  <2> QED
    BY <2>1, <2>2
<1>13. HandIsOlder'
  <2> SUFFICES ASSUME worker \in {"taken", "check", "run"}, ~IsBarrier(hand), hand.key = NoKey,
                      NEW w \in Writes, w[1] = hand.source, coalesced'[w] # 0
               PROVE  hand.number < coalesced'[w]
    BY <1>7 DEF HandIsOlder
  <2>1. CASE w = v
    BY <2>1, <1>1, <1>5, EntryKinds DEF Numbered, HandInv, Numbers
  <2>2. CASE w # v
    BY <2>2, <1>5 DEF HandIsOlder
  <2> QED
    BY <2>1, <2>2
<1>14. NoLateWrite'
  <2> SUFFICES ASSUME NEW w \in Writes, coalesced'[w] # 0 PROVE coalesced'[w] > boundary[w[1]]
    BY <1>7 DEF NoLateWrite
  <2>1. w[1] \in Sources /\ boundary[w[1]] \in 0..MaxCommands /\ boundary[w[1]] <= sent
    BY DEF Writes, TypeOK, Numbered
  <2> QED
    BY <2>1, <1>1, <1>5, MaxCommandsAssumption DEF NoLateWrite
<1>15. LatestIsLast'
  BY <1>1, <1>5, <1>7 DEF LatestIsLast, Places
<1>16. LastWriteKept'
  BY <1>1, <1>5, <1>7 DEF LastWriteKept
<1> QED
  BY <1>6, <1>9, <1>10, <1>11, <1>12, <1>13, <1>14, <1>15, <1>16

\* A barrier is invisible to all that is said about writes: the commands in
\* the channel stay where they are.
LEMMA BeginBarrierInv ==
    ASSUME IInv, NEW c \in Callers, BeginBarrier(c)
    PROVE  IInv'
<1> USE DEF IInv, BeginBarrier
<1>1. UNCHANGED <<coalesced, worker, hand, disposal, sent, accepted, done, boundary, cancelled>>
  BY DEF recordVars
<1>2. /\ queue' \in Seq(Entries) /\ Len(queue') <= Capacity
      /\ DOMAIN queue \subseteq DOMAIN queue' /\ \A i \in DOMAIN queue : queue'[i] = queue[i]
      /\ \A i \in DOMAIN queue' : i \in DOMAIN queue \/ IsBarrier(queue'[i])
  <2>1. CASE Room
    BY <2>1, Appended, BarrierEntry, CapacityAssumption DEF TypeOK, Room
  <2>2. CASE ~Room
    BY <2>2 DEF TypeOK
  <2> QED
    BY <2>1, <2>2
<1>3. TypeOK'
  <2>1. blocked' \in Seq(Callers)
    BY DEF TypeOK
  <2>2. barrier' \in [Callers -> {"none", "waiting", "done", "failed"}]
    BY DEF TypeOK
  <2> QED
    BY <1>1, <1>2, <2>1, <2>2 DEF TypeOK
<1>4. HandInv' /\ HandIsOlder' /\ NoLateWrite' /\ LatestIsLast' /\ LastWriteKept'
  BY <1>1 DEF HandInv, HandIsOlder, NoLateWrite, LatestIsLast, LastWriteKept, Places
<1>5. Numbered'
  BY <1>1, <1>2 DEF Numbered
<1>6. Reached'
  BY <1>1, <1>2 DEF Reached, InHand, Places
<1>7. OnePlaceholder'
  BY <1>1, <1>2 DEF OnePlaceholder, InHand, Places
<1> QED
  BY <1>3, <1>4, <1>5, <1>6, <1>7

\* The worker takes the head; the writer that has waited longest is admitted.
LEMMA TakeInv ==
    ASSUME IInv, Take
    PROVE  IInv'
<1> USE DEF IInv, Take
<1>1. UNCHANGED <<coalesced, disposal, sent, accepted, done, boundary, cancelled>>
  BY DEF workerFrame
<1>2. /\ queue \in Seq(Entries) /\ queue # <<>> /\ Len(queue) <= Capacity
      /\ worker = "read" /\ worker' = "taken" /\ hand' = queue[1]
      /\ hand' \in Entries /\ 1 \in DOMAIN queue
      /\ \A i \in DOMAIN queue : queue[i] \in Entries /\ i \in Nat
  BY TailMoves DEF TypeOK
<1>3. /\ queue' \in Seq(Entries) /\ Len(queue') <= Capacity /\ blocked' \in Seq(Callers)
      /\ \A i \in DOMAIN queue' : \/ IsBarrier(queue'[i])
                                  \/ /\ i + 1 \in DOMAIN queue /\ queue'[i] = queue[i + 1]
                                     /\ i + 1 > 1
      /\ \A i \in DOMAIN queue : i # 1 => i - 1 \in DOMAIN queue' /\ queue'[i - 1] = queue[i]
      /\ \A i \in DOMAIN queue' : i \in Nat
  <2> DEFINE t == Tail(queue)
  <2>1. /\ t \in Seq(Entries) /\ Len(t) = Len(queue) - 1
        /\ \A i \in DOMAIN t : i + 1 \in DOMAIN queue /\ t[i] = queue[i + 1] /\ i + 1 > 1
        /\ \A i \in DOMAIN queue : i # 1 => i - 1 \in DOMAIN t /\ t[i - 1] = queue[i]
    BY <1>2, TailMoves
  <2>0. Len(queue) \in Nat /\ \A i \in DOMAIN t : i \in Nat
    BY <2>1, <1>2
  <2> HIDE DEF t
  <2>2. CASE blocked = <<>>
    <3>1. queue' = t /\ blocked' = blocked
      BY <2>2 DEF t
    <3>2. Len(queue') <= Capacity
      BY <3>1, <2>0, <2>1, <1>2, CapacityAssumption
    <3> QED
      BY <3>1, <3>2, <2>0, <2>1 DEF TypeOK
  <2>3. CASE blocked # <<>>
    <3>1. Head(blocked) \in Callers /\ Tail(blocked) \in Seq(Callers)
      BY <2>3, TailMoves DEF TypeOK
    <3> DEFINE e == Entry(Head(blocked))
    <3>2. e \in Entries /\ IsBarrier(e)
      BY <3>1, BarrierEntry
    <3>3. queue' = Append(t, e) /\ blocked' = Tail(blocked)
      BY <2>3 DEF t
    <3> HIDE DEF e
    <3>4. /\ queue' \in Seq(Entries) /\ Len(queue') = Len(t) + 1
          /\ DOMAIN queue' = DOMAIN t \cup {Len(t) + 1}
          /\ \A i \in DOMAIN t : queue'[i] = t[i]
          /\ queue'[Len(t) + 1] = e
      <4> HIDE DEF Take, IInv
      <4> DEFINE q == Append(t, e)
      <4>1. /\ q \in Seq(Entries) /\ Len(q) = Len(t) + 1
            /\ DOMAIN q = DOMAIN t \cup {Len(t) + 1}
            /\ \A i \in DOMAIN t : q[i] = t[i]
            /\ q[Len(t) + 1] = e
        BY <2>1, <3>2, Appended
      <4> HIDE DEF q
      <4>2. queue' = q
        BY <3>3 DEF q
      <4> QED
        BY <4>1, <4>2
    <3>5. Len(queue') <= Capacity /\ Len(t) + 1 \in Nat
      BY <2>0, <2>1, <3>4, <1>2, CapacityAssumption
    <3>6. \A i \in DOMAIN queue' : i \in Nat
      BY <2>0, <3>4, <3>5
    <3>7. \A i \in DOMAIN queue' : i \in DOMAIN t \/ IsBarrier(queue'[i])
      BY <3>2, <3>4
    <3>8. ASSUME NEW i \in DOMAIN queue'
          PROVE  \/ IsBarrier(queue'[i])
                 \/ i + 1 \in DOMAIN queue /\ queue'[i] = queue[i + 1] /\ i + 1 > 1
      <4>1. CASE i \in DOMAIN t
        BY <2>1, <3>4, <4>1
      <4>2. CASE i \notin DOMAIN t
        BY <3>7, <4>2
      <4> QED
        BY <4>1, <4>2
    <3>9. \A i \in DOMAIN queue : i # 1 => i - 1 \in DOMAIN queue' /\ queue'[i - 1] = queue[i]
      BY <2>1, <3>4
    <3> QED
      BY <3>1, <3>3, <3>4, <3>5, <3>6, <3>8, <3>9
  <2> QED
    BY <2>2, <2>3
<1>4. TypeOK'
  BY <1>1, <1>2, <1>3 DEF TypeOK, workerFrame
<1>5. HandInv'
  BY <1>1, <1>2 DEF HandInv
<1>6. Numbered'
  <2>1. \A i \in DOMAIN queue' : ~IsBarrier(queue'[i]) => queue'[i].number <= sent
    BY <1>3 DEF Numbered
  <2>2. ~IsBarrier(hand') => hand'.number <= sent
    BY <1>2 DEF Numbered
  <2>3. ASSUME NEW i \in DOMAIN queue', NEW j \in DOMAIN queue', i < j,
               ~IsBarrier(queue'[i]), ~IsBarrier(queue'[j])
        PROVE  queue'[i].number < queue'[j].number
    <3>1. /\ i + 1 \in DOMAIN queue /\ queue'[i] = queue[i + 1]
          /\ j + 1 \in DOMAIN queue /\ queue'[j] = queue[j + 1] /\ i + 1 < j + 1
      BY <2>3, <1>3
    <3> QED
      BY <2>3, <3>1 DEF Numbered
  <2> QED
    BY <1>1, <2>1, <2>2, <2>3 DEF Numbered
<1>7. ~IsBarrier(queue[1]) => \A i \in DOMAIN queue :
          i # 1 /\ ~IsBarrier(queue[i]) => queue[1].number < queue[i].number
  BY <1>2 DEF Numbered
<1>8. Reached'
  <2> SUFFICES ASSUME disposal # "drained", NEW w \in Writes, coalesced[w] # 0
               PROVE  \/ \E i \in DOMAIN queue' : /\ Places(queue'[i], w)
                                                  /\ queue'[i].number <= coalesced[w]
                      \/ Places(hand', w) /\ hand'.number <= coalesced[w]
    BY <1>1, <1>2 DEF Reached, InHand, Places
  <2>1. PICK i \in DOMAIN queue : Places(queue[i], w) /\ queue[i].number <= coalesced[w]
    BY <1>2 DEF Reached, InHand
  <2> QED
    BY <2>1, <1>2, <1>3
<1>9. OnePlaceholder'
  <2> SUFFICES ASSUME NEW w \in Writes
               PROVE  /\ coalesced[w] = 0 => /\ ~Places(hand', w)
                                             /\ \A i \in DOMAIN queue' : ~Places(queue'[i], w)
                      /\ Places(hand', w) => \A i \in DOMAIN queue' : ~Places(queue'[i], w)
                      /\ \A i, j \in DOMAIN queue' :
                           Places(queue'[i], w) /\ Places(queue'[j], w) => i = j
    BY <1>1, <1>2 DEF OnePlaceholder, InHand, Places
  <2>1. \A i \in DOMAIN queue' : Places(queue'[i], w) =>
            i + 1 \in DOMAIN queue /\ Places(queue[i + 1], w) /\ i + 1 # 1
    BY <1>3 DEF Places
  <2>2. coalesced[w] = 0 => \A i \in DOMAIN queue : ~Places(queue[i], w)
    BY DEF OnePlaceholder
  <2>3. \A i, j \in DOMAIN queue : Places(queue[i], w) /\ Places(queue[j], w) => i = j
    BY DEF OnePlaceholder
  <2>4. coalesced[w] = 0 => ~Places(hand', w) /\ \A i \in DOMAIN queue' : ~Places(queue'[i], w)
    BY <2>1, <2>2, <1>2
  <2>5. Places(hand', w) => \A i \in DOMAIN queue' : ~Places(queue'[i], w)
    BY <2>1, <2>3, <1>2
  <2>6. ASSUME NEW i \in DOMAIN queue', NEW j \in DOMAIN queue',
               Places(queue'[i], w), Places(queue'[j], w)
        PROVE  i = j
    BY <2>1, <2>3, <2>6, <1>3
  <2> QED
    BY <2>4, <2>5, <2>6
<1>10. HandIsOlder'
  <2> SUFFICES ASSUME ~IsBarrier(hand'), hand'.key = NoKey,
                      NEW w \in Writes, w[1] = hand'.source, coalesced[w] # 0
               PROVE  hand'.number < coalesced[w]
    BY <1>1 DEF HandIsOlder
  <2>1. PICK i \in DOMAIN queue : Places(queue[i], w) /\ queue[i].number <= coalesced[w]
    <3>1. disposal # "drained" /\ ~InHand(w)
      BY <1>2 DEF InHand, HandInv
    <3> QED
      BY <3>1 DEF Reached
  <2>2. i # 1
    BY <2>1, <1>2, KeyAssumption DEF Places, Writes
  <2>3. queue[1].number \in Numbers /\ queue[i].number \in Numbers
    BY <1>2, <2>1, EntryKinds DEF Places
  <2>4. queue[1].number < queue[i].number
    BY <1>2, <1>7, <2>1, <2>2 DEF Places
  <2> QED
    BY <1>2, <2>1, <2>3, <2>4, MaxCommandsAssumption DEF Numbers, TypeOK
<1>11. NoLateWrite' /\ LatestIsLast' /\ LastWriteKept'
  BY <1>1, <1>2 DEF NoLateWrite, LatestIsLast, LastWriteKept
<1> QED
  BY <1>4, <1>5, <1>6, <1>8, <1>9, <1>10, <1>11

\* Under the lock the placeholder becomes the latest value, and no other
\* placeholder is left without one.
LEMMA TakeLatestInv ==
    ASSUME IInv, TakeLatest
    PROVE  IInv'
<1> DEFINE v == <<hand.source, hand.key>>
           latest == hand.key \in Keys /\ coalesced[v] # 0
<1> USE DEF IInv, TakeLatest
<1>1. UNCHANGED <<queue, disposal, sent, accepted, done, boundary, cancelled>>
  BY DEF workerFrame
<1>2. /\ worker = "taken" /\ worker' = "check" /\ hand \in Entries /\ ~IsBarrier(hand)
      /\ hand.source \in Sources /\ hand.key \in Keys \cup {NoKey} /\ hand.number \in Numbers
      /\ hand = Command(hand.source, hand.key, hand.number)
  BY EntryKinds DEF HandInv
<1>3. \A w \in Writes : Places(hand, w) => w = v /\ hand.key \in Keys /\ InHand(w)
  BY <1>2 DEF Places, Writes, InHand
<1>4. \A w \in Writes : w = v => InHand(w) /\ hand.key \in Keys /\ coalesced[w] # 0
  BY <1>2 DEF Places, Writes, InHand, OnePlaceholder
<1>5. CASE latest
  <2>1. v \in Writes /\ coalesced[v] \in Numbers /\ coalesced[v] <= sent
    BY <1>2, <1>5, MaxCommandsAssumption DEF Writes, TypeOK, Numbered, Numbers
  <2>2. hand' = Command(hand.source, hand.key, coalesced[v])
    BY <1>2, <1>5 DEF Command
  <2>3. /\ hand' \in Entries /\ ~IsBarrier(hand') /\ hand'.source = hand.source
        /\ hand'.key = hand.key /\ hand'.number = coalesced[v]
    BY <1>2, <2>1, <2>2, CommandFields
  <2>4. /\ coalesced' \in [Writes -> 0..MaxCommands] /\ coalesced'[v] = 0
        /\ \A w \in Writes : w # v => coalesced'[w] = coalesced[w]
    BY <1>5, <2>1, MaxCommandsAssumption DEF TypeOK
  <2>5. TypeOK'
    BY <1>1, <1>2, <2>3, <2>4 DEF TypeOK, workerFrame
  <2>6. HandInv' /\ Numbered'
    <3>1. HandInv'
      BY <1>1, <1>2, <2>3 DEF HandInv
    <3>2. hand'.number <= sent'
      BY <1>1, <2>1, <2>3
    <3>3. \A w \in Writes : coalesced'[w] <= sent'
      BY <1>1, <2>4, MaxCommandsAssumption DEF Numbered, TypeOK
    <3>4. Numbered'
      BY <1>1, <3>2, <3>3 DEF Numbered
    <3> QED
      BY <3>1, <3>4
  <2>7. Reached'
    BY <1>1, <1>2, <1>3, <2>4 DEF Reached, InHand
  <2>8. OnePlaceholder'
    <3>1. \A i \in DOMAIN queue : ~Places(queue[i], v)
      BY <1>4, <2>1 DEF OnePlaceholder
    <3> QED
      BY <1>1, <1>2, <2>4, <3>1 DEF OnePlaceholder, InHand, Places
  <2>9. HandIsOlder'
    BY <1>2, <1>5, <2>3, KeyAssumption DEF HandIsOlder
  <2>10. NoLateWrite' /\ LatestIsLast'
    <3>1. NoLateWrite'
      BY <1>1, <2>4 DEF NoLateWrite
    <3>2. \A w \in Writes : w # v => ~Places(hand', w)
      BY <2>3 DEF Places
    <3>3. hand'.number = accepted[v]
      BY <1>5, <2>1, <2>3 DEF LatestIsLast
    <3> QED
      BY <1>1, <2>4, <3>1, <3>2, <3>3 DEF LatestIsLast
  <2>11. LastWriteKept'
    <3> SUFFICES ASSUME NEW w \in Writes, w[1] \notin cancelled,
                        disposal \notin {"cancelled", "drained"}
                 PROVE  \/ accepted[w] \in {done[w], coalesced'[w]}
                        \/ hand' = Command(w[1], w[2], accepted[w])
      BY <1>1, <1>2 DEF LastWriteKept
    <3>1. accepted[w] \in {done[w], coalesced[w]}
      BY <1>2 DEF LastWriteKept
    <3>2. w = v /\ accepted[w] = coalesced[w] => hand' = Command(w[1], w[2], accepted[w])
      BY <2>2
    <3> QED
      BY <3>1, <3>2, <2>4
  <2> QED
    BY <2>5, <2>6, <2>7, <2>8, <2>9, <2>10, <2>11
<1>6. CASE ~latest
  <2>1. hand' = hand /\ coalesced' = coalesced
    BY <1>6
  <2>2. \A w \in Writes : w # v
    BY <1>4, <1>6
  <2>3. TypeOK' /\ HandInv' /\ Numbered'
    BY <1>1, <1>2, <2>1 DEF TypeOK, HandInv, Numbered, workerFrame
  <2>4. \A w \in Writes : ~Places(hand, w)
    BY <1>3, <2>2
  <2>5. Reached' /\ OnePlaceholder'
    BY <1>1, <1>2, <2>1, <2>4 DEF Reached, OnePlaceholder, InHand, Places
  <2>6. HandIsOlder' /\ NoLateWrite'
    BY <1>1, <1>2, <2>1 DEF HandIsOlder, NoLateWrite
  <2>7. LatestIsLast' /\ LastWriteKept'
    BY <1>1, <1>2, <2>1, <2>4 DEF LatestIsLast, LastWriteKept, Places
  <2> QED
    BY <2>3, <2>5, <2>6, <2>7
<1> QED
  BY <1>5, <1>6

\* The worker drops a command of a cancelled sender or goes on to run it.
LEMMA CheckInv ==
    ASSUME IInv, Check
    PROVE  IInv'
<1> USE DEF IInv, Check
<1>1. UNCHANGED <<queue, coalesced, disposal, sent, accepted, done, boundary, cancelled>>
  BY DEF workerFrame, queueVars
<1>2. worker = "check" /\ hand \in Entries /\ ~IsBarrier(hand)
  BY DEF HandInv
<1>3. \/ worker' = "run" /\ hand' = hand
      \/ worker' = "read" /\ hand.source \in cancelled /\ hand' = Idle
  BY DEF Check
<1>4. TypeOK' /\ HandInv'
  BY <1>1, <1>2, <1>3 DEF TypeOK, HandInv, workerFrame, queueVars
<1>5. Numbered' /\ NoLateWrite'
  BY <1>1, <1>2, <1>3 DEF Numbered, NoLateWrite
<1>6. Reached' /\ OnePlaceholder'
  BY <1>1, <1>2, <1>3 DEF Reached, OnePlaceholder, InHand, Places
<1>7. HandIsOlder' /\ LatestIsLast'
  BY <1>1, <1>2, <1>3 DEF HandIsOlder, LatestIsLast, Places
<1>8. LastWriteKept'
  <2> SUFFICES ASSUME NEW w \in Writes, w[1] \notin cancelled,
                      disposal \notin {"cancelled", "drained"},
                      accepted[w] \notin {done[w], coalesced[w]}
               PROVE  worker' = "run" /\ hand' = Command(w[1], w[2], accepted[w])
    BY <1>1 DEF LastWriteKept
  <2>1. hand = Command(w[1], w[2], accepted[w])
    BY DEF LastWriteKept
  <2>2. hand.source = w[1]
    BY <2>1 DEF Command
  <2> QED
    BY <1>3, <2>1, <2>2
<1> QED
  BY <1>4, <1>5, <1>6, <1>7, <1>8

\* The command in hand is executed.
LEMMA ExecuteInv ==
    ASSUME IInv, Execute
    PROVE  IInv'
<1> DEFINE v == <<hand.source, hand.key>>
<1> USE DEF IInv, Execute
<1>1. UNCHANGED <<queue, coalesced, disposal, sent, accepted, cancelled>>
  BY DEF workerFrame, queueVars
<1>2. /\ worker = "run" /\ worker' = "read" /\ hand' = Idle
      /\ hand \in Entries /\ ~IsBarrier(hand)
      /\ hand.source \in Sources /\ hand.key \in Keys \cup {NoKey}
      /\ hand.number \in Numbers /\ hand.number \in 0..MaxCommands
  BY EntryKinds, MaxCommandsAssumption DEF HandInv, Numbers
<1>3. /\ done' \in [Writes -> 0..MaxCommands]
      /\ \A w \in Writes : done'[w] = done[w] \/ (w = v /\ done'[w] = hand.number)
      /\ \A w \in Writes : disposal # "cancelled" /\ w = v => done'[w] = hand.number
  <2>1. CASE hand.key \in Keys
    BY <1>2, <2>1 DEF TypeOK, Writes
  <2>2. CASE hand.key \notin Keys
    BY <1>2, <2>2 DEF TypeOK, Writes
  <2> QED
    BY <2>1, <2>2
<1>4. /\ boundary' \in [Sources -> 0..MaxCommands]
      /\ \A s \in Sources : \/ boundary'[s] = boundary[s]
                            \/ s = hand.source /\ hand.key = NoKey /\ boundary'[s] = hand.number
  <2>1. CASE disposal # "cancelled" /\ hand.key \notin Keys
    <3>1. hand.key = NoKey /\ boundary' = [boundary EXCEPT ![hand.source] = hand.number]
      BY <1>2, <2>1
    <3> QED
      BY <1>2, <3>1 DEF TypeOK
  <2>2. CASE ~(disposal # "cancelled" /\ hand.key \notin Keys)
    BY <2>2 DEF TypeOK
  <2> QED
    BY <2>1, <2>2
<1>5. TypeOK' /\ HandInv'
  BY <1>1, <1>2, <1>3, <1>4 DEF TypeOK, HandInv, workerFrame, queueVars
<1>6. Numbered'
  BY <1>1, <1>2, <1>4 DEF Numbered
<1>7. Reached' /\ OnePlaceholder' /\ HandIsOlder'
  BY <1>1, <1>2 DEF Reached, OnePlaceholder, HandIsOlder, InHand
<1>8. NoLateWrite'
  <2> SUFFICES ASSUME NEW w \in Writes, coalesced[w] # 0 PROVE coalesced[w] > boundary'[w[1]]
    BY <1>1 DEF NoLateWrite
  <2>1. w[1] \in Sources /\ coalesced[w] \in 0..MaxCommands
    BY DEF Writes, TypeOK
  <2>2. CASE boundary'[w[1]] = boundary[w[1]]
    BY <2>2 DEF NoLateWrite
  <2>3. CASE boundary'[w[1]] # boundary[w[1]]
    <3>1. w[1] = hand.source /\ hand.key = NoKey /\ boundary'[w[1]] = hand.number
      BY <1>4, <2>1, <2>3
    <3>2. hand.number < coalesced[w]
      BY <1>2, <3>1 DEF HandIsOlder
    <3> QED
      BY <1>2, <2>1, <3>1, <3>2, MaxCommandsAssumption
  <2> QED
    BY <2>2, <2>3
<1>9. LatestIsLast'
  BY <1>1, <1>2 DEF LatestIsLast
<1>10. LastWriteKept'
  <2> SUFFICES ASSUME NEW w \in Writes, w[1] \notin cancelled,
                      disposal \notin {"cancelled", "drained"}
               PROVE  accepted[w] \in {done'[w], coalesced[w]}
    BY <1>1 DEF LastWriteKept
  <2>1. CASE w = v
    <3>1. done'[w] = hand.number
      BY <1>3, <2>1
    <3>2. coalesced[w] = accepted[w] \/ hand.number = accepted[w]
      BY <1>2, <2>1 DEF LatestIsLast, Places
    <3> QED
      BY <3>1, <3>2
  <2>2. CASE w # v
    <3>1. hand # Command(w[1], w[2], accepted[w])
      BY <2>2 DEF Command, Writes
    <3>2. done'[w] = done[w]
      BY <1>3, <2>2
    <3> QED
      BY <3>1, <3>2 DEF LastWriteKept
  <2> QED
    BY <2>1, <2>2
<1> QED
  BY <1>5, <1>6, <1>7, <1>8, <1>9, <1>10

\* The worker's steps that move no command.
LEMMA WorkerStepInv ==
    ASSUME IInv, Wake \/ WorkerStops \/ ReadNothing \/ RunBarrier
    PROVE  IInv'
<1> USE DEF IInv, Wake, WorkerStops, ReadNothing, RunBarrier, workerFrame, queueVars
<1>1. /\ UNCHANGED <<queue, coalesced, disposal, sent, accepted, done, boundary, cancelled>>
      /\ worker' \in {"read", "stopped", "wait"} /\ ~(worker = "stopped")
      /\ worker \in {"wait", "read"} \/ (worker = "taken" /\ IsBarrier(hand))
  BY DEF Wake
<1>2. TypeOK'
  <2>1. hand' \in Entries \cup {Idle}
    BY DEF TypeOK
  <2>2. barrier' \in [Callers -> {"none", "waiting", "done", "failed"}]
    <3>1. CASE RunBarrier
      <4>1. hand.caller \in Callers
        BY <3>1, EntryKinds DEF HandInv
      <4> QED
        BY <3>1, <4>1 DEF TypeOK
    <3>2. CASE ~RunBarrier
      BY <3>2 DEF TypeOK
    <3> QED
      BY <3>1, <3>2
  <2> QED
    BY <1>1, <2>1, <2>2 DEF TypeOK
<1>3. HandInv' /\ Numbered' /\ HandIsOlder' /\ NoLateWrite' /\ LatestIsLast'
  BY <1>1 DEF HandInv, Numbered, HandIsOlder, NoLateWrite, LatestIsLast
<1>4. \A w : ~InHand(w)
  BY <1>1 DEF InHand, Places
<1>5. Reached' /\ OnePlaceholder'
  BY <1>1, <1>4 DEF Reached, OnePlaceholder, InHand, Places
<1>6. LastWriteKept'
  BY <1>1 DEF LastWriteKept
<1> QED
  BY <1>2, <1>3, <1>5, <1>6

\* What the worker left in the channel is drained after it has ended.
LEMMA DrainInv ==
    ASSUME IInv, Drain
    PROVE  IInv'
<1> USE DEF IInv, Drain, recordVars
<1>1. TypeOK'
  <2>1. queue' \in Seq(Entries) /\ Len(queue') <= Capacity
    BY CapacityAssumption
  <2>2. barrier' \in [Callers -> {"none", "waiting", "done", "failed"}]
    BY DEF TypeOK
  <2> QED
    BY <2>1, <2>2 DEF TypeOK
<1>2. HandInv' /\ Numbered' /\ Reached' /\ OnePlaceholder'
  BY DEF HandInv, Numbered, Reached, OnePlaceholder, InHand
<1>3. HandIsOlder' /\ NoLateWrite' /\ LatestIsLast' /\ LastWriteKept'
  BY DEF HandIsOlder, NoLateWrite, LatestIsLast, LastWriteKept
<1> QED
  BY <1>1, <1>2, <1>3

\* Every step of senders, hosts, worker and disposal keeps the invariant.
LEMMA StepInv == IInv /\ [Next]_vars => IInv'
<1> SUFFICES ASSUME IInv, [Next]_vars PROVE IInv'
  OBVIOUS
<1>1. ASSUME NEW s \in Sources, NEW k \in Keys \cup {NoKey}, Receive(s, k) PROVE IInv'
  <2>1. TypeOK'
    BY <1>1 DEF IInv, TypeOK, Receive, queueVars, recordVars
  <2> QED
    BY <1>1, <2>1, FrameInv DEF Receive, queueVars
<1>2. ASSUME NEW s \in Sources, Coalesce(s) PROVE IInv'
  BY <1>2, CoalesceInv
<1>3. ASSUME NEW s \in Sources, Enqueue(s) PROVE IInv'
  BY <1>3, EnqueueInv
<1>4. ASSUME NEW s \in Sources, Overload(s) PROVE IInv'
  <2>1. TypeOK'
    BY <1>4 DEF IInv, TypeOK, Overload, queueVars, recordVars
  <2> QED
    BY <1>4, <2>1, FrameInv DEF Overload, queueVars
<1>5. ASSUME NEW s \in Sources, CancelInstance(s) PROVE IInv'
  <2>1. TypeOK'
    BY <1>5 DEF IInv, TypeOK, CancelInstance, queueVars, recordVars
  <2> QED
    BY <1>5, <2>1, FrameInv DEF CancelInstance, queueVars
<1>6. ASSUME NEW c \in Callers, BeginBarrier(c) PROVE IInv'
  BY <1>6, BeginBarrierInv
<1>7. CASE Worker
  BY <1>7, WorkerStepInv, TakeInv, TakeLatestInv, CheckInv, ExecuteInv DEF Worker
<1>8. CASE CompleteWriter
  <2>1. blocked' \in Seq(Callers)
    BY <1>8 DEF CompleteWriter
  <2>2. barrier' \in [Callers -> {"none", "waiting", "done", "failed"}]
    BY <1>8 DEF IInv, TypeOK, CompleteWriter
  <2>3. TypeOK'
    BY <1>8, <2>1, <2>2 DEF IInv, TypeOK, CompleteWriter, recordVars
  <2> QED
    BY <1>8, <2>3, FrameInv DEF CompleteWriter
<1>9. CASE CancelToken
  <2>1. TypeOK'
    BY <1>9 DEF IInv, TypeOK, CancelToken, queueVars, recordVars
  <2> QED
    BY <1>9, <2>1, FrameInv DEF CancelToken, queueVars
<1>10. CASE Drain
  BY <1>10, DrainInv
<1>11. CASE UNCHANGED vars
  <2>1. TypeOK'
    BY <1>11 DEF IInv, TypeOK, vars, queueVars, recordVars
  <2> QED
    BY <1>11, <2>1, FrameInv DEF vars, queueVars
<1> QED
  BY <1>1, <1>2, <1>3, <1>4, <1>5, <1>6, <1>7, <1>8, <1>9, <1>10, <1>11 DEF Next, Dispose

\* The invariant holds in every state of the queue.
LEMMA Invariance == Spec => []IInv
<1>1. Init => IInv
  BY InitInv
<1>2. IInv /\ [Next]_vars => IInv'
  BY StepInv
<1> QED
  BY <1>1, <1>2, PTL DEF Spec

-----------------------------------------------------------------------------
(* The results.                                                            *)

\* The channel never holds more than its capacity, and every entry, number
\* and state is one of those the code knows.
THEOREM TypeCorrect == Spec => []TypeOK
<1>1. IInv => TypeOK
  BY DEF IInv
<1> QED
  BY <1>1, Invariance, PTL

\* Every latest value has exactly one placeholder that leads to it, in the
\* channel or in the worker's hand, and every placeholder a latest value:
\* ProtocolService.cs keeps the two in step with one lock, also when the
\* channel is full and between TryRead and the worker's own lock.
THEOREM PlaceholdersMatch == Spec => [](OnePlaceholder /\ Reached)
<1>1. IInv => OnePlaceholder /\ Reached
  BY DEF IInv
<1> QED
  BY <1>1, Invariance, PTL

\* The last accepted write of a gesture is executed, waits or is in the
\* worker's hand, unless its sender was cancelled or the service disposed.
THEOREM LastWriteIsKept == Spec => []LastWriteKept
<1>1. IInv => LastWriteKept
  BY DEF IInv
<1> QED
  BY <1>1, Invariance, PTL

\* A gesture's write that waits is younger than every uncoalesced command of
\* its sender that ran: coalescing moves no write past an end_history.
THEOREM NoWriteIsLate == Spec => []NoLateWrite
<1>1. IInv => NoLateWrite
  BY DEF IInv
<1> QED
  BY <1>1, Invariance, PTL
=============================================================================
