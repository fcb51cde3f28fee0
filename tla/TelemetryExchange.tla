-------------------------- MODULE TelemetryExchange --------------------------
(***************************************************************************)
(* The other direction of the exchange: after each block the audio thread     *)
(* writes its telemetry between two increments of a sequence number           *)
(* (AudioRuntime.cpp), and the telemetry worker reads it, under the lock of      *)
(* its service, and refuses what the sequence gives away (DspTelemetryReader.cs, *)
(* DspTelemetryService.cs).  The same audio thread consumes the published        *)
(* state first, so this module extends the exchange of the states.               *)
(*                                                                            *)
(* The sequence is a uint32; here it turns round after SequenceSize.  A word    *)
(* is the number of the block it tells of.                                       *)
(***************************************************************************)
EXTENDS DspExchange

CONSTANTS
    Words,          \* the words of a telemetry block
    SequenceSize,   \* 2^32 in the code
    MaxBlocks       \* bound: blocks processed in one behaviour

ASSUME TelemetryAssumption ==
    Words # {} /\ MaxBlocks \in Nat /\ SequenceSize \in Nat \ {0} /\ SequenceSize % 2 = 0

VARIABLES
    sequence,       \* DspTelemetryExchange.sequence
    words,          \* word |-> block
    blocks,         \* blocks whose telemetry is written
    filled,         \* words written of the next one, while the sequence is odd
    source,         \* the service has the exchange among its sources
    reading,        \* a poll holds the lock and reads
    read,           \* the words it has
    readSequence,   \* TryRead's local sequence
    begun,          \* blocks begun since that was read
    lastSequence,   \* _lastPublishedSequence
    shown,          \* what the viewer was last sent
    age             \* blocks begun since the read of that began

NoBlock == 0
Nothing == [w \in {} |-> NoBlock]

audioVars == <<sequence, words, blocks, filled>>
pollVars == <<reading, read, readSequence, begun, lastSequence, shown, age>>
telemetryVars == <<audioVars, source, pollVars>>
exchangeVars == <<snapshotVars, telemetryVars>>

TelemetryInit ==
    /\ ExchangeInit
    /\ sequence = 0 /\ words = [w \in Words |-> NoBlock] /\ blocks = 0 /\ filled = {}
    /\ source = TRUE /\ reading = FALSE /\ read = Nothing /\ readSequence = 0 /\ begun = 0
    /\ lastSequence = 0 /\ shown = [w \in Words |-> NoBlock] /\ age = 0

Increment(s) == (s + 1) % SequenceSize
Writing == sequence % 2 = 1
Blank == \A w \in Words : shown[w] = NoBlock

-----------------------------------------------------------------------------
(* The audio thread, at the end of a block (PublishTelemetry).             *)

\* There is no telemetry before the first state.
BeginTelemetry ==
    /\ step = "idle" /\ hasSnapshot /\ ~released
    /\ ~Writing /\ blocks < MaxBlocks
    /\ sequence' = Increment(sequence)
    /\ filled' = {}
    /\ begun' = (IF reading THEN begun + 1 ELSE 0)
    /\ age' = (IF Blank THEN 0 ELSE age + 1)
    /\ UNCHANGED <<snapshotVars, words, blocks, source, reading, read, readSequence, lastSequence,
                   shown>>

WriteWord(w) ==
    /\ Writing /\ w \notin filled
    /\ words' = [words EXCEPT ![w] = blocks + 1]
    /\ filled' = filled \cup {w}
    /\ UNCHANGED <<snapshotVars, sequence, blocks, source, pollVars>>

EndTelemetry ==
    /\ Writing /\ filled = Words
    /\ sequence' = Increment(sequence)
    /\ filled' = {} /\ blocks' = blocks + 1
    /\ UNCHANGED <<snapshotVars, words, source, pollVars>>

-----------------------------------------------------------------------------
(* The telemetry worker.  The lock of the service makes one poll exclude a   *)
(* change of the viewer and the removal of the source.                       *)

\* 0 stands for an exchange nothing was written to, an odd sequence for a block
\* under way.
BeginRead ==
    /\ source /\ ~reading
    /\ sequence # 0 /\ sequence % 2 = 0
    /\ reading' = TRUE /\ read' = Nothing /\ readSequence' = sequence /\ begun' = 0
    /\ UNCHANGED <<snapshotVars, audioVars, source, lastSequence, shown, age>>

ReadWord(w) ==
    /\ reading /\ w \notin DOMAIN read
    /\ read' = [v \in DOMAIN read \cup {w} |-> IF v = w THEN words[w] ELSE read[v]]
    /\ UNCHANGED <<snapshotVars, audioVars, source, reading, readSequence, begun, lastSequence,
                   shown, age>>

\* Variant: the sequence is not looked at again.
EndReadAnyway ==
    /\ reading /\ DOMAIN read = Words
    /\ IF readSequence # lastSequence
       THEN lastSequence' = readSequence /\ shown' = read /\ age' = begun
       ELSE UNCHANGED <<lastSequence, shown, age>>
    /\ reading' = FALSE /\ read' = Nothing /\ begun' = 0
    /\ UNCHANGED <<snapshotVars, audioVars, source, readSequence>>

\* What is accepted is sent unless it was sent already.
EndRead ==
    /\ reading /\ DOMAIN read = Words
    /\ IF sequence = readSequence /\ readSequence # lastSequence
       THEN lastSequence' = readSequence /\ shown' = read /\ age' = begun
       ELSE UNCHANGED <<lastSequence, shown, age>>
    /\ reading' = FALSE /\ read' = Nothing /\ begun' = 0
    /\ UNCHANGED <<snapshotVars, audioVars, source, readSequence>>

\* Variant: what the last viewer was sent is not sent to the next.
ChangeViewerOnly ==
    /\ ~reading /\ ~Blank
    /\ shown' = [w \in Words |-> NoBlock] /\ age' = 0
    /\ UNCHANGED <<snapshotVars, audioVars, source, reading, read, readSequence, begun,
                   lastSequence>>

\* Another instance becomes the viewer, or the viewer looks at another bank and
\* back; what it looks at now has been sent nothing.
ChangeViewer ==
    /\ ~reading /\ ~Blank
    /\ lastSequence' = 0
    /\ shown' = [w \in Words |-> NoBlock] /\ age' = 0
    /\ UNCHANGED <<snapshotVars, audioVars, source, reading, read, readSequence, begun>>

\* Unregistration removes the source before it stops the publisher.
RemoveSource ==
    /\ source /\ ~reading
    /\ source' = FALSE
    /\ UNCHANGED <<snapshotVars, audioVars, pollVars>>

-----------------------------------------------------------------------------

Telemetry == BeginTelemetry \/ (\E w \in Words : WriteWord(w)) \/ EndTelemetry
Poll == BeginRead \/ (\E w \in Words : ReadWord(w)) \/ EndRead

\* A block consumes the state first, and writes its telemetry last.
Consume == Consumer /\ ~Writing /\ UNCHANGED telemetryVars
Publish == Publisher /\ UNCHANGED telemetryVars

TelemetryNext ==
    \/ BeginPublish /\ UNCHANGED telemetryVars
    \/ Publish
    \/ Stop /\ ~source /\ UNCHANGED telemetryVars
    \/ Consume
    \/ Release /\ ~Writing /\ UNCHANGED telemetryVars
    \/ Telemetry
    \/ Poll
    \/ ChangeViewer
    \/ RemoveSource

TelemetrySpec == TelemetryInit /\ [][TelemetryNext]_exchangeVars

\* As in FairExchangeSpec; the worker polls again and again.
FairTelemetrySpec ==
    /\ TelemetrySpec
    /\ WF_exchangeVars(Publish) /\ WF_exchangeVars(Consume)
    /\ WF_exchangeVars(Telemetry) /\ WF_exchangeVars(Poll)

-----------------------------------------------------------------------------
(* Correctness.                                                            *)

\* The telemetry a viewer is sent is of one block of sound, unless so many were
\* processed during the read that the sequence turned round.
ShownIsWhole == 2 * age < SequenceSize => \E b \in 0..blocks : \A w \in Words : shown[w] = b

UpToDate == sequence # 0 /\ 2 * age < SequenceSize => \A w \in Words : shown[w] = blocks

\* The viewer is sent the telemetry of the last block when the sound pauses,
\* whenever it began to look, unless the sequence has just turned to 0, which
\* passes for an empty exchange, or all the way round since it was sent one.
ViewerFollows == []<>(source => UpToDate)
=============================================================================
