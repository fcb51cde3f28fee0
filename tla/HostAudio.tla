------------------------------- MODULE HostAudio -------------------------------
(***************************************************************************)
(* The audio side of one plug-in: the block the host calls and its chunks       *)
(* (PluginProcessor), each captured for the analyzer before the native runtime     *)
(* processes it (AudioChain), and the analyzer that decides whether anybody looks    *)
(* at this instance and reads what was captured (FftAnalyzer).                         *)
(*                                                                              *)
(* A viewer is an instance with an open editor.  It looks at this instance when     *)
(* the bank its editor has in focus is one of ours or of a group with one of ours;    *)
(* whether as the source or as a peer makes no difference to the capture.  Viewers      *)
(* come and go on the control worker, under the operation gate; but a plug-in that       *)
(* is unregistered gives its activity up on the message thread, outside of the gate.      *)
(***************************************************************************)
EXTENDS AudioChain, AudioCapture

CONSTANTS
    Viewed,       \* bound: the chains explored with viewers, and with frames numbered
    Viewers,
    Maxima,       \* the block sizes the host prepares for, with viewers and without
    BlockSizes,   \* those it then calls with
    Bounds        \* bound: the pairs of frames and changes of the view explored

ASSUME HostAssumption ==
    /\ \A viewed \in BOOLEAN : Maxima[viewed] \cup BlockSizes[viewed] \subseteq Nat \ {0}
    /\ {} \notin Viewers

VARIABLES
    playing,      \* PluginProcessor::prepared_
    maximum,      \* size of left_
    preparation,  \* the size the runtime and the analyzer were told; 0 before
    block,        \* frames of the host's block not processed yet
    audio,        \* what the audio thread does with a chunk
    sound,        \* frames processed while there was a capture, which number them
    rings,        \* the captures in use
    capture,      \* which of them _captures has for this instance, 0 for none
    demanded,     \* _captureDemand contains this instance
    analysis,     \* the worker's read
    viewer,       \* _activeViewerId
    active,       \* ActiveInstanceCoordinator's active instance
    looks,        \* the viewers whose focus concerns this instance
    gone,         \* the viewers that are removed
    setting,      \* what the two control threads do to the demand
    crossed,      \* an unregistration has crossed another change; observes only
    turns         \* changes of the view so far

hostVars == <<playing, maximum, block, sound>>
captureVars == <<rings, capture>>
viewVars == <<viewer, active, looks, gone, turns>>
hostAudioVars == <<vars, hostVars, preparation, audio, captureVars, demanded, analysis, viewVars,
                   setting, crossed>>

Nobody == {}
Listening == DOMAIN chain \in Viewed

Between == [step |-> "between", count |-> 0, ring |-> 0, read |-> 0, writable |-> 0, written |-> 0]
Waiting == [ring |-> 0, start |-> 0, write |-> 0, window |-> << >>, excused |-> FALSE]
\* What a control thread is about: its step, the demand it sets, what
\* it does next and for whom, and whether it holds the coordinator's lock and
\* the operation gate.
Idle == [step |-> "idle", new |-> FALSE, then |-> "idle", viewer |-> Nobody,
         locked |-> FALSE, gated |-> FALSE]

\* No more than three captures are referred to at a time.
Blank == NewCapture(0)
Collected(all, used) == [n \in 1..3 |-> IF n \in used THEN all[n] ELSE Blank]
Free == CHOOSE n \in 1..3 : n \notin {capture, audio.ring, analysis.ring}

HostInit ==
    /\ Init
    /\ playing = FALSE /\ maximum = 0 /\ preparation = 0 /\ block = 0 /\ audio = Between
    /\ sound = 0
    /\ rings = [n \in 1..3 |-> Blank] /\ capture = 0 /\ demanded = FALSE
    /\ analysis = Waiting
    /\ viewer = Nobody /\ active = Nobody /\ looks \in SUBSET Viewers /\ gone = {}
    /\ setting = [t \in {"worker", "message"} |-> Idle]
    /\ crossed = FALSE /\ turns = 0
    /\ ~Listening => looks = {}

LockFree == ~setting["worker"].locked /\ ~setting["message"].locked
GateFree == ~setting["worker"].gated /\ ~setting["message"].gated /\ audio.step # "create"

----------------------------------------------------------------------------
(* The host: prepares, plays and releases, one after the other.               *)

viewFrame == <<demanded, analysis, viewVars, setting, crossed>>
Stopped == block = 0 /\ audio = Between

\* The message thread empties the demand without holding the gate.
Ungated == setting["message"].locked

\* The analyzer is told under the gate; it makes a demanded capture anew when
\* the preparation differs.
PrepareToPlay ==
    \E n \in Maxima[Listening] :
       /\ Stopped /\ GateFree
       /\ Prepare
       /\ maximum' = n /\ preparation' = n
       /\ LET anew == n # preparation /\ demanded
          IN  /\ playing' = ~anew
              /\ audio' = [Between EXCEPT !.step = IF anew THEN "create" ELSE @]
              /\ crossed' = (crossed \/ (anew /\ Ungated))
       /\ UNCHANGED <<block, sound, captureVars, demanded, analysis, viewVars, setting>>

CreateCapture ==
    /\ audio.step = "create"
    /\ capture' = Free
    /\ rings' = Collected([rings EXCEPT ![Free] = NewCapture(preparation)],
                          {Free, analysis.ring})
    /\ audio' = Between /\ playing' = TRUE
    /\ UNCHANGED <<vars, maximum, preparation, block, sound, viewFrame>>

ReleaseResources ==
    /\ Stopped /\ Reset
    /\ playing' = FALSE /\ maximum' = 0
    /\ UNCHANGED <<preparation, block, audio, sound, captureVars, viewFrame>>

ResetHost ==
    /\ Stopped /\ Reset
    /\ UNCHANGED <<hostVars, preparation, audio, captureVars, viewFrame>>

\* A block that is not prepared for is cleared.
BeginBlock ==
    \E n \in BlockSizes[Listening] :
       /\ playing /\ Stopped
       /\ Listening => <<sound + n, turns>> \in Bounds
       /\ block' = n
       /\ UNCHANGED <<vars, playing, maximum, sound, preparation, audio, captureVars, viewFrame>>

----------------------------------------------------------------------------
(* A chunk on the audio thread: ReceiveAudio and Enqueue, then the runtime.   *)

audioFrame == <<vars, hostVars, preparation, capture, viewFrame>>

\* A faulty variant that passes the host's block on as it is.
ChunkVariant == block

Chunk == IF block < maximum THEN block ELSE maximum

\* The demand is looked at, and the capture if it is there.  A capture that is not
\* demanded any more, or not yet again, misses the chunk.  The two looks are one step: a
\* demand that changes between them makes the chunk missed or taken, as one before or
\* after them does.
TakeChunk ==
    LET missed == /\ capture # 0 /\ ~demanded
                  /\ rings[capture].write # rings[capture].read
    IN  /\ block > 0 /\ audio.step = "between"
        /\ audio' = [audio EXCEPT !.count = Chunk,
                                  !.step = IF demanded /\ capture # 0 THEN "space" ELSE "runtime",
                                  !.ring = IF demanded THEN capture ELSE 0]
        /\ rings' = IF missed THEN [rings EXCEPT ![capture].gap = TRUE] ELSE rings
        /\ UNCHANGED audioFrame

ReadSpace ==
    /\ audio.step = "space"
    /\ LET c == rings[audio.ring]
       IN  audio' = [audio EXCEPT !.step = "copy", !.read = c.read,
                                  !.writable = Writable(c, audio.count)]
    /\ UNCHANGED <<audioFrame, rings>>

\* An index that has wrapped throws, the boundary of the native API counts that
\* and returns: the chunk is lost, and so is every one after it.
CopyFrame ==
    LET c == rings[audio.ring]
        fits == RingIndex(c.write, audio.written) \in Indices
    IN  /\ audio.step = "copy" /\ audio.written < audio.writable
        /\ rings' = [rings EXCEPT ![audio.ring] =
                        IF fits THEN Put(@, audio.written, sound + audio.written + 1)
                        ELSE [@ EXCEPT !.gap = TRUE]]
        /\ audio' = IF fits THEN [audio EXCEPT !.written = @ + 1]
                    ELSE [audio EXCEPT !.step = "runtime"]
        /\ UNCHANGED audioFrame

\* Frames that found no room are lost before what is captured next; the window
\* being read, or just read, ended earlier.
PublishWrite ==
    LET was == rings[audio.ring]
        c   == PublishFrames(was, audio.writable)
        cut == /\ audio.writable < audio.count
               /\ \/ analysis.ring = audio.ring /\ analysis.write # c.write
                  \/ was.read # audio.read
    IN  /\ audio.step = "copy" /\ audio.written = audio.writable
        /\ rings' = [rings EXCEPT ![audio.ring] = [c EXCEPT !.gap = @ \/ cut]]
        /\ audio' = [audio EXCEPT !.step = "runtime"]
        /\ UNCHANGED audioFrame

\* The runtime refuses a chunk larger than it was prepared for, and has nothing
\* to do before the first snapshot.
RunChunk ==
    /\ audio.step = "runtime"
    /\ IF prepared /\ audio.count <= preparation /\ (published # None \/ hasSnapshot)
       THEN ProcessBlock ELSE UNCHANGED vars
    /\ block' = block - audio.count
    /\ sound' = IF capture # 0 THEN sound + audio.count ELSE sound
    /\ audio' = Between
    /\ rings' = Collected(rings, {capture, analysis.ring})
    /\ UNCHANGED <<playing, maximum, preparation, capture, viewFrame>>

AudioThread == TakeChunk \/ ReadSpace \/ CopyFrame \/ PublishWrite \/ RunChunk

----------------------------------------------------------------------------
(* The analyzer's worker.                                                    *)

analysisFrame == <<vars, hostVars, preparation, audio, capture, demanded, viewVars, setting,
                   crossed>>

\* A faulty variant that gives the window back to the writer before reading it.
BeginReadVariant ==
    LET c == rings[capture]
    IN  /\ analysis.ring = 0 /\ demanded /\ capture # 0 /\ HasWindow(c)
        /\ analysis' = [ring |-> capture, start |-> WindowStart(c), write |-> c.write,
                        window |-> << >>, excused |-> c.gap]
        /\ rings' = [rings EXCEPT ![capture] = [Discard(@, c.write) EXCEPT !.gap = FALSE]]
        /\ UNCHANGED analysisFrame

\* Without a window of new frames the spectrum is silence.
BeginRead ==
    LET c == rings[capture]
    IN  /\ analysis.ring = 0 /\ demanded /\ capture # 0 /\ HasWindow(c)
        /\ analysis' = [ring |-> capture, start |-> WindowStart(c), write |-> c.write,
                        window |-> << >>, excused |-> c.gap]
        /\ rings' = [rings EXCEPT ![capture].gap = FALSE]
        /\ UNCHANGED analysisFrame

ReadFrame ==
    /\ analysis.ring # 0 /\ Len(analysis.window) < WindowSize
    /\ LET n == Len(analysis.window)
       IN  analysis' = [analysis EXCEPT !.window =
                           Append(@, Frame(rings[analysis.ring], analysis.start, n))]
    /\ UNCHANGED <<analysisFrame, rings>>

\* The window is transformed and sent; what was captured before is discarded.
EndRead ==
    /\ analysis.ring # 0 /\ Len(analysis.window) = WindowSize
    /\ rings' = Collected([rings EXCEPT ![analysis.ring] = Discard(@, analysis.write)],
                          {capture, audio.ring})
    /\ analysis' = Waiting
    /\ UNCHANGED analysisFrame

Analyze == BeginRead \/ ReadFrame \/ EndRead

----------------------------------------------------------------------------
(* SetCaptureDemand and RebuildCaptureDemand, as far as this instance goes.    *)

settingFrame == <<vars, hostVars, preparation, audio, analysis, active, looks, gone, crossed, turns>>

After(s) == CASE s.then = "idle"   -> Idle
              [] s.then = "detach" -> [Idle EXCEPT !.step = "detach", !.viewer = s.viewer]
              [] OTHER             -> [s EXCEPT !.step = s.then, !.then = "idle"]

Empty(s) == [s EXCEPT !.step = "exchange", !.new = FALSE]

ReadView(t) ==
    /\ setting[t].step = "read"
    /\ setting' = [setting EXCEPT ![t].step = "prepare",
                                  ![t].new = viewer # Nobody /\ viewer \in looks]
    /\ UNCHANGED <<settingFrame, captureVars, demanded, viewer>>

\* A capture that is there is kept.
PrepareCapture(t) ==
    LET new == setting[t].new /\ capture = 0
    IN  /\ setting[t].step = "prepare"
        /\ capture' = IF new THEN Free ELSE capture
        /\ rings' = IF new THEN [rings EXCEPT ![Free] = NewCapture(preparation)] ELSE rings
        /\ setting' = [setting EXCEPT ![t].step = "exchange"]
        /\ UNCHANGED <<settingFrame, demanded, viewer>>

\* A faulty variant that leaves the captures of the previous demand.
ExchangeDemandVariant(t) ==
    /\ setting[t].step = "exchange"
    /\ demanded' = setting[t].new
    /\ setting' = [setting EXCEPT ![t] = After(@)]
    /\ UNCHANGED <<settingFrame, captureVars, viewer>>

ExchangeDemand(t) ==
    /\ setting[t].step = "exchange"
    /\ demanded' = setting[t].new
    /\ setting' = [setting EXCEPT ![t] = IF demanded /\ ~@.new
                                         THEN [@ EXCEPT !.step = "remove"] ELSE After(@)]
    /\ UNCHANGED <<settingFrame, captureVars, viewer>>

RemoveCapture(t) ==
    /\ setting[t].step = "remove"
    /\ capture' = 0
    /\ rings' = Collected(rings, {audio.ring, analysis.ring})
    /\ setting' = [setting EXCEPT ![t] = After(@)]
    /\ UNCHANGED <<settingFrame, demanded, viewer>>

----------------------------------------------------------------------------
(* The control worker, under the operation gate throughout.                   *)

controlFrame == <<vars, hostVars, preparation, audio, captureVars, demanded, analysis, crossed>>

MayTurn(v) ==
    /\ setting["worker"] = Idle /\ GateFree /\ v \notin gone
    /\ Listening /\ <<sound + block, turns + 1>> \in Bounds
    /\ turns' = turns + 1

Worker(v) == [Idle EXCEPT !.viewer = v, !.gated = TRUE]

\* The editor of v opens: the one before it is deactivated.
Activate(v) ==
    LET gives == active \notin {Nobody, v} /\ viewer = active
        s     == [Worker(v) EXCEPT !.locked = TRUE]
    IN  /\ MayTurn(v) /\ LockFree
        /\ active' = v
        /\ viewer' = IF gives THEN Nobody ELSE viewer
        /\ setting' = [setting EXCEPT !["worker"] =
                          IF gives THEN [Empty(s) EXCEPT !.then = "turn"]
                          ELSE [s EXCEPT !.step = "turn"]]
        /\ UNCHANGED <<controlFrame, looks, gone>>

Turn ==
    LET s == setting["worker"]
    IN  /\ s.step = "turn"
        /\ viewer' = s.viewer
        /\ setting' = [setting EXCEPT !["worker"] =
                          IF viewer = s.viewer THEN Idle ELSE [s EXCEPT !.step = "read"]]
        /\ UNCHANGED <<controlFrame, active, looks, gone, turns>>

\* It closes.
Deactivate(v) ==
    /\ MayTurn(v) /\ LockFree /\ active = v
    /\ active' = Nobody
    /\ viewer' = IF viewer = v THEN Nobody ELSE viewer
    /\ setting' = [setting EXCEPT !["worker"] =
                      IF viewer = v THEN Empty([Worker(v) EXCEPT !.locked = TRUE]) ELSE Idle]
    /\ UNCHANGED <<controlFrame, looks, gone>>

Flipped(v) == IF v \in looks THEN looks \ {v} ELSE looks \cup {v}

\* Its focus moves to or from a bank that concerns this instance, or a bank of
\* ours joins or leaves the group of the one it has in focus.
ChangeView(v) ==
    \E concerns \in {v = viewer, viewer # Nobody} :
       /\ MayTurn(v)
       /\ looks' = Flipped(v)
       /\ setting' = [setting EXCEPT !["worker"] =
                         IF concerns THEN [Worker(v) EXCEPT !.step = "read"] ELSE Idle]
       /\ UNCHANGED <<controlFrame, viewer, active, gone>>

----------------------------------------------------------------------------
(* The message thread unregisters a viewer.                                   *)

\* Outside of the gate.
Unregister(v) ==
    LET mine == active = v /\ viewer = v
        s    == [Idle EXCEPT !.viewer = v, !.locked = TRUE, !.then = "detach"]
    IN  /\ setting["message"] = Idle /\ LockFree /\ v \notin gone
        /\ Listening /\ <<sound + block, turns + 1>> \in Bounds
        /\ turns' = turns + 1
        /\ active' = IF active = v THEN Nobody ELSE active
        /\ viewer' = IF mine THEN Nobody ELSE viewer
        /\ setting' = [setting EXCEPT !["message"] = IF mine THEN Empty(s) ELSE After(s)]
        /\ crossed' = \/ crossed
                      \/ mine /\ setting["worker"].new
                      \/ mine /\ audio.step = "create"
        /\ UNCHANGED <<vars, hostVars, preparation, audio, captureVars, demanded, analysis, looks, gone>>

\* A faulty variant that leaves the viewer to the coordinator.
DetachVariant ==
    LET v == setting["message"].viewer
    IN  /\ setting["message"].step = "detach" /\ GateFree
        /\ gone' = gone \cup {v} /\ looks' = looks \ {v}
        /\ setting' = [setting EXCEPT !["message"] =
                          [Idle EXCEPT !.step = "topology", !.viewer = v, !.gated = TRUE]]
        /\ UNCHANGED <<controlFrame, active, viewer, turns>>

\* Under it.  The worker may have activated v again in between.
Detach ==
    LET v == setting["message"].viewer
        s == [Idle EXCEPT !.viewer = v, !.gated = TRUE, !.then = "topology"]
    IN  /\ setting["message"].step = "detach" /\ GateFree
        /\ gone' = gone \cup {v} /\ looks' = looks \ {v}
        /\ viewer' = IF viewer = v THEN Nobody ELSE viewer
        /\ setting' = [setting EXCEPT !["message"] = IF viewer = v THEN Empty(s) ELSE After(s)]
        /\ UNCHANGED <<controlFrame, active, turns>>

TopologyChanged ==
    /\ setting["message"].step = "topology"
    /\ setting' = [setting EXCEPT !["message"] =
                      IF viewer = Nobody THEN Idle ELSE [@ EXCEPT !.step = "read"]]
    /\ UNCHANGED <<controlFrame, viewVars>>

----------------------------------------------------------------------------
PublishSnapshot ==
    /\ ~Listening /\ Publish
    /\ UNCHANGED <<hostVars, preparation, audio, captureVars, viewFrame>>

Host == PrepareToPlay \/ CreateCapture \/ ReleaseResources \/ ResetHost \/ BeginBlock
Control == \/ \E t \in {"worker", "message"} :
                ReadView(t) \/ PrepareCapture(t) \/ ExchangeDemand(t) \/ RemoveCapture(t)
           \/ \E v \in Viewers : Activate(v) \/ Deactivate(v) \/ ChangeView(v) \/ Unregister(v)
           \/ Turn \/ Detach \/ TopologyChanged

HostNext == PublishSnapshot \/ Host \/ AudioThread \/ Analyze \/ Control

\* The host keeps calling the block while it plays, and its calls return.
Sounding == BeginBlock \/ AudioThread \/ CreateCapture
HostSpec == HostInit /\ [][HostNext]_hostAudioVars /\ WF_hostAudioVars(Sounding)

----------------------------------------------------------------------------
(* Properties.                                                               *)

\* A window of the spectrum is what was heard in a row, whatever the host's blocks
\* are and however often the ring was full and frames were dropped: only frames
\* dropped while a window was being read, or by an index at its end, or missed while
\* an unregistration took the demand from a ring that another change goes on to use,
\* can be missing from the next one.
WindowIsWhole == Len(analysis.window) = WindowSize => analysis.excused \/ Whole(analysis.window)

\* With the control threads at rest, this instance is captured exactly when the
\* active editor looks at it, in a ring of the size it was prepared for, and no
\* instance that is gone has the view -- unless a plug-in gave its view up, outside
\* of the operation gate, while the gate's holder was setting the demand.
CaptureFollowsViewer ==
    setting["worker"] = Idle /\ setting["message"] = Idle /\ audio.step # "create" /\ ~crossed =>
      /\ demanded <=> viewer # Nobody /\ viewer \in looks
      /\ demanded <=> capture # 0
      /\ capture # 0 => rings[capture].of = preparation
      /\ viewer \notin gone
=============================================================================
