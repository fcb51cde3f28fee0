---------------------------- MODULE ProtocolQueue ----------------------------
(***************************************************************************)
(* The control queue of the managed core, ProtocolService.cs: editors send *)
(* commands from native threads, one worker runs them in order, and a host *)
(* thread that saves or restores a plugin state sends a barrier through    *)
(* the same queue and waits for it.                                        *)
(*                                                                         *)
(* The writes of a gesture (transaction id # 0) are coalesced: while one   *)
(* waits in the queue a later one with the same key takes its place, so    *)
(* that the placeholder in the FIFO and the latest value in _coalesced are *)
(* two pieces of state, kept together by one lock.  The bounded channel    *)
(* and the rules by which it admits waiting writers belong to .NET and are *)
(* modelled from their use here.                                           *)
(***************************************************************************)
EXTENDS Naturals, Sequences, SequencesExt

CONSTANTS
    Sources,      \* instances that send commands
    Keys,         \* path shape and transaction of a gesture's writes
    NoKey,        \* the key of a command that is never coalesced
    Idle,         \* no command
    Callers,      \* host threads that run a barrier
    Capacity,     \* QueueCapacity, 256 in the code
    MaxCommands   \* bound: commands accepted in one behaviour

ASSUME CapacityAssumption == Capacity \in Nat /\ Capacity > 0
ASSUME MaxCommandsAssumption == MaxCommands \in Nat
ASSUME KeyAssumption == NoKey \notin Keys /\ Idle \notin Keys \cup {NoKey}

VARIABLES
    receiving,   \* source |-> key of the command its thread has in Receive
    cancelled,   \* _cancelledInstances
    coalesced,   \* _coalesced: number of the latest waiting write, 0 if none
    queue,       \* the channel
    blocked,     \* callers whose WriteAsync waits for room, in order
    barrier,     \* caller |-> how far its barrier is
    worker,      \* where ProcessCommandsAsync is
    hand,        \* the entry the worker has taken
    disposal,    \* how far Dispose is
    sent,        \* commands accepted so far; a command's number
    accepted,    \* number of the last accepted write of a key
    done,        \* number of the last write of a key that was executed
    boundary     \* source |-> number of its last executed uncoalesced command

queueVars == <<coalesced, queue, blocked>>
recordVars == <<sent, accepted, done, boundary>>
vars == <<receiving, cancelled, queueVars, barrier, worker, hand, disposal, recordVars>>

Writes == Sources \X Keys
Command(s, k, n) == [source |-> s, key |-> k, number |-> n]
Entry(c) == [caller |-> c]
IsBarrier(e) == "caller" \in DOMAIN e
Numbers == 1..MaxCommands

Entries == [source : Sources, key : Keys \cup {NoKey}, number : Numbers]
               \cup [caller : Callers]

TypeOK ==
    /\ receiving \in [Sources -> Keys \cup {NoKey, Idle}]
    /\ cancelled \subseteq Sources
    /\ coalesced \in [Writes -> 0..MaxCommands]
    /\ queue \in Seq(Entries) /\ Len(queue) <= Capacity
    /\ blocked \in Seq(Callers)
    /\ barrier \in [Callers -> {"none", "waiting", "done", "failed"}]
    /\ worker \in {"wait", "read", "taken", "check", "run", "stopped"}
    /\ hand \in Entries \cup {Idle}
    /\ disposal \in {"running", "completed", "cancelled", "drained"}
    /\ sent \in 0..MaxCommands
    /\ accepted \in [Writes -> 0..MaxCommands]
    /\ done \in [Writes -> 0..MaxCommands]
    /\ boundary \in [Sources -> 0..MaxCommands]

Init ==
    /\ receiving = [s \in Sources |-> Idle]
    /\ cancelled = {}
    /\ coalesced = [w \in Writes |-> 0]
    /\ queue = <<>> /\ blocked = <<>>
    /\ barrier = [c \in Callers |-> "none"]
    /\ worker = "wait" /\ hand = Idle
    /\ disposal = "running"
    /\ sent = 0
    /\ accepted = [w \in Writes |-> 0] /\ done = [w \in Writes |-> 0]
    /\ boundary = [s \in Sources |-> 0]

Open == disposal = "running"
Room == Open /\ Len(queue) < Capacity

-----------------------------------------------------------------------------
(* Receive, on a thread of the sending instance.                           *)

\* The command is decoded and its source is not cancelled yet.
Receive(s, k) ==
    /\ receiving[s] = Idle /\ s \notin cancelled /\ sent < MaxCommands
    /\ receiving' = [receiving EXCEPT ![s] = k]
    /\ UNCHANGED <<cancelled, queueVars, barrier, worker, hand, disposal, recordVars>>

\* Variant: the write that waits is kept and the later one dropped.
CoalesceKeepingFirst(s) ==
    LET k == receiving[s]
    IN  /\ k \in Keys /\ coalesced[<<s, k>>] # 0 /\ sent < MaxCommands
        /\ sent' = sent + 1
        /\ accepted' = [accepted EXCEPT ![<<s, k>>] = sent']
        /\ receiving' = [receiving EXCEPT ![s] = Idle]
        /\ UNCHANGED <<cancelled, queueVars, barrier, worker, hand, disposal,
                       done, boundary>>

\* One section of the lock: the write takes the place of the one that waits.
Coalesce(s) ==
    LET k == receiving[s]
    IN  /\ k \in Keys /\ coalesced[<<s, k>>] # 0 /\ sent < MaxCommands
        /\ sent' = sent + 1
        /\ coalesced' = [coalesced EXCEPT ![<<s, k>>] = sent']
        /\ accepted' = [accepted EXCEPT ![<<s, k>>] = sent']
        /\ receiving' = [receiving EXCEPT ![s] = Idle]
        /\ UNCHANGED <<cancelled, queue, blocked, barrier, worker, hand, disposal,
                       done, boundary>>

\* Variant: control commands go ahead of the writes that wait.
EnqueueControlFirst(s) ==
    LET k == receiving[s]
    IN  /\ k # Idle /\ sent < MaxCommands /\ Room
        /\ k \in Keys => coalesced[<<s, k>>] = 0
        /\ sent' = sent + 1
        /\ queue' = IF k \in Keys THEN Append(queue, Command(s, k, sent'))
                                  ELSE <<Command(s, k, sent')>> \o queue
        /\ coalesced' = IF k \in Keys THEN [coalesced EXCEPT ![<<s, k>>] = sent']
                                      ELSE coalesced
        /\ accepted' = IF k \in Keys THEN [accepted EXCEPT ![<<s, k>>] = sent']
                                     ELSE accepted
        /\ receiving' = [receiving EXCEPT ![s] = Idle]
        /\ UNCHANGED <<cancelled, blocked, barrier, worker, hand, disposal,
                       done, boundary>>

\* TryWrite finds room; a write also becomes its key's latest value.
Enqueue(s) ==
    LET k == receiving[s]
    IN  /\ k # Idle /\ sent < MaxCommands /\ Room
        /\ k \in Keys => coalesced[<<s, k>>] = 0
        /\ sent' = sent + 1
        /\ queue' = Append(queue, Command(s, k, sent'))
        /\ coalesced' = IF k \in Keys THEN [coalesced EXCEPT ![<<s, k>>] = sent']
                                      ELSE coalesced
        /\ accepted' = IF k \in Keys THEN [accepted EXCEPT ![<<s, k>>] = sent']
                                     ELSE accepted
        /\ receiving' = [receiving EXCEPT ![s] = Idle]
        /\ UNCHANGED <<cancelled, blocked, barrier, worker, hand, disposal,
                       done, boundary>>

\* The channel is full or closed: the write is taken out of _coalesced again
\* and the sender gets an error.
Overload(s) ==
    LET k == receiving[s]
    IN  /\ k # Idle /\ ~Room
        /\ k \in Keys => coalesced[<<s, k>>] = 0
        /\ receiving' = [receiving EXCEPT ![s] = Idle]
        /\ UNCHANGED <<cancelled, queueVars, barrier, worker, hand, disposal, recordVars>>

CancelInstance(s) ==
    /\ s \notin cancelled
    /\ cancelled' = cancelled \cup {s}
    /\ UNCHANGED <<receiving, queueVars, barrier, worker, hand, disposal, recordVars>>

-----------------------------------------------------------------------------
(* ExecuteControlBarrier, on a host thread.                                *)

\* WriteAsync goes into the channel, waits for room, or fails when closed.
BeginBarrier(c) ==
    /\ barrier[c] = "none"
    /\ barrier' = [barrier EXCEPT ![c] = IF Open THEN "waiting" ELSE "failed"]
    /\ queue' = IF Room THEN Append(queue, Entry(c)) ELSE queue
    /\ blocked' = IF Open /\ ~Room THEN Append(blocked, c) ELSE blocked
    /\ UNCHANGED <<receiving, cancelled, coalesced, worker, hand, disposal, recordVars>>

-----------------------------------------------------------------------------
(* The worker.                                                             *)

workerFrame == <<receiving, cancelled, disposal, sent, accepted>>

\* WaitToReadAsync returns with something to read.
Wake ==
    /\ worker = "wait" /\ disposal \in {"running", "completed"} /\ queue # <<>>
    /\ worker' = "read"
    /\ UNCHANGED <<workerFrame, queueVars, barrier, hand, done, boundary>>

\* It ends when the token is cancelled, or when the channel is closed and empty.
WorkerStops ==
    /\ worker = "wait"
    /\ disposal = "cancelled" \/ (disposal = "completed" /\ queue = <<>>)
    /\ worker' = "stopped"
    /\ UNCHANGED <<workerFrame, queueVars, barrier, hand, done, boundary>>

\* TryRead takes the head and admits the writer that has waited longest; the
\* inner loop of ReadAllAsync does not look at the token.
Take ==
    /\ worker = "read" /\ queue # <<>>
    /\ hand' = Head(queue)
    /\ queue' = IF blocked = <<>> THEN Tail(queue)
                                  ELSE Append(Tail(queue), Entry(Head(blocked)))
    /\ blocked' = IF blocked = <<>> THEN blocked ELSE Tail(blocked)
    /\ worker' = "taken"
    /\ UNCHANGED <<workerFrame, coalesced, barrier, done, boundary>>

ReadNothing ==
    /\ worker = "read" /\ queue = <<>>
    /\ worker' = "wait"
    /\ UNCHANGED <<workerFrame, queueVars, barrier, hand, done, boundary>>

RunBarrier ==
    /\ worker = "taken" /\ IsBarrier(hand)
    /\ barrier' = [barrier EXCEPT ![hand.caller] = "done"]
    /\ worker' = "read" /\ hand' = Idle
    /\ UNCHANGED <<workerFrame, queueVars, done, boundary>>

\* Variant: the worker runs the placeholder and forgets the latest value.
TakePlaceholder ==
    /\ worker = "taken" /\ ~IsBarrier(hand)
    /\ coalesced' = IF hand.key \in Keys
                    THEN [coalesced EXCEPT ![<<hand.source, hand.key>>] = 0]
                    ELSE coalesced
    /\ worker' = "check"
    /\ UNCHANGED <<workerFrame, queue, blocked, barrier, hand, done, boundary>>

\* Under the lock the placeholder is exchanged for the latest value.
TakeLatest ==
    /\ worker = "taken" /\ ~IsBarrier(hand)
    /\ LET w == <<hand.source, hand.key>>
           latest == hand.key \in Keys /\ coalesced[w] # 0
       IN  /\ hand' = IF latest THEN [hand EXCEPT !.number = coalesced[w]] ELSE hand
           /\ coalesced' = IF latest THEN [coalesced EXCEPT ![w] = 0] ELSE coalesced
    /\ worker' = "check"
    /\ UNCHANGED <<workerFrame, queue, blocked, barrier, done, boundary>>

Check ==
    /\ worker = "check"
    /\ IF hand.source \in cancelled
       THEN worker' = "read" /\ hand' = Idle
       ELSE worker' = "run" /\ UNCHANGED hand
    /\ UNCHANGED <<workerFrame, queueVars, barrier, done, boundary>>

\* The endpoints run it; with the token cancelled every handler throws first
\* and only an error response is sent.
Execute ==
    /\ worker = "run"
    /\ IF disposal # "cancelled"
       THEN IF hand.key \in Keys
            THEN /\ done' = [done EXCEPT ![<<hand.source, hand.key>>] = hand.number]
                 /\ UNCHANGED boundary
            ELSE /\ boundary' = [boundary EXCEPT ![hand.source] = hand.number]
                 /\ UNCHANGED done
       ELSE UNCHANGED <<done, boundary>>
    /\ worker' = "read" /\ hand' = Idle
    /\ UNCHANGED <<workerFrame, queueVars, barrier>>

-----------------------------------------------------------------------------
(* Dispose.                                                                *)

\* Variant: writers that wait for room are forgotten when the channel closes.
CompleteWriterSilently ==
    /\ disposal = "running"
    /\ disposal' = "completed"
    /\ blocked' = <<>>
    /\ UNCHANGED <<receiving, cancelled, coalesced, queue, barrier, worker, hand,
                   recordVars>>

\* TryComplete closes the channel and fails the writers that wait for room.
CompleteWriter ==
    /\ disposal = "running"
    /\ disposal' = "completed"
    /\ barrier' = [c \in Callers |-> IF \E i \in DOMAIN blocked : blocked[i] = c
                                     THEN "failed" ELSE barrier[c]]
    /\ blocked' = <<>>
    /\ UNCHANGED <<receiving, cancelled, coalesced, queue, worker, hand, recordVars>>

CancelToken ==
    /\ disposal = "completed"
    /\ disposal' = "cancelled"
    /\ UNCHANGED <<receiving, cancelled, queueVars, barrier, worker, hand, recordVars>>

\* The worker has ended; the barriers it left behind fail.
Drain ==
    /\ disposal = "cancelled" /\ worker = "stopped"
    /\ disposal' = "drained"
    /\ queue' = <<>>
    /\ barrier' = [c \in Callers |-> IF \E i \in DOMAIN queue : queue[i] = Entry(c)
                                     THEN "failed" ELSE barrier[c]]
    /\ UNCHANGED <<receiving, cancelled, coalesced, blocked, worker, hand, recordVars>>

Dispose == CompleteWriter \/ CancelToken \/ Drain

Worker ==
    \/ Wake \/ WorkerStops \/ Take \/ ReadNothing
    \/ RunBarrier \/ TakeLatest \/ Check \/ Execute

Next ==
    \/ \E s \in Sources, k \in Keys \cup {NoKey} : Receive(s, k)
    \/ \E s \in Sources : Coalesce(s) \/ Enqueue(s) \/ Overload(s)
    \/ \E s \in Sources : CancelInstance(s)
    \/ \E c \in Callers : BeginBarrier(c)
    \/ Worker
    \/ Dispose

Spec == Init /\ [][Next]_vars

\* The worker is a task of the pool, and Dispose, once begun, runs to its end.
FairSpec == Spec /\ WF_vars(Worker) /\ WF_vars(CancelToken) /\ WF_vars(Drain)

-----------------------------------------------------------------------------
(* Correctness.                                                            *)

\* Of each key the last accepted write was executed, waits, or is in the
\* worker's hand, unless its source was cancelled or the service disposed:
\* coalescing drops only what a later write of the same key replaces.
LastWriteKept ==
    \A w \in Writes :
        \/ accepted[w] \in {done[w], coalesced[w]}
        \/ (worker \in {"check", "run"} /\ hand = Command(w[1], w[2], accepted[w]))
        \/ w[1] \in cancelled \/ disposal \in {"cancelled", "drained"}

\* A gesture's write never runs after a later command of its source: what
\* waits is younger than the last uncoalesced command that ran, an
\* end_history or the final write of the gesture.
NoLateWrite ==
    \A w \in Writes : coalesced[w] # 0 => coalesced[w] > boundary[w[1]]

\* A host thread that waits for its barrier gets an answer, with the queue
\* full, with the worker stopped, and whenever the service is disposed.
BarrierReturns ==
    \A c \in Callers : barrier[c] = "waiting" ~> barrier[c] \in {"done", "failed"}

\* An accepted write is executed, or a later one of its key, unless its
\* source is cancelled or the service disposed.
WriteRuns ==
    \A w \in Writes, n \in Numbers :
        accepted[w] = n ~> (done[w] >= n \/ w[1] \in cancelled \/ ~Open)
=============================================================================
