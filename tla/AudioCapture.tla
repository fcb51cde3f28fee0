----------------------------- MODULE AudioCapture -----------------------------
(***************************************************************************)
(* The ring between an audio thread, which captures the dry sound of its       *)
(* instance, and the worker of the analyzer, which takes the newest window of    *)
(* it (AudioCapture.cs).  A frame is its number; its four channels and the        *)
(* connection of the reference stand and fall together.                            *)
(*                                                                          *)
(* Both indices are of type int and only ever grow: additions wrap, and the        *)
(* remainder of a negative index is negative, which no array has.                   *)
(***************************************************************************)
EXTENDS Integers, Sequences

CONSTANTS
    Capacity,     \* frames the ring holds
    WindowSize,   \* FftSize
    IndexSize     \* 2^32 in the code

ASSUME CaptureAssumption ==
    /\ WindowSize \in Nat \ {0} /\ Capacity \in Nat /\ Capacity >= 2 * WindowSize
    /\ IndexSize \in Nat /\ IndexSize % 2 = 0 /\ IndexSize > 2 * Capacity

Indices == 0..(Capacity - 1)
NoFrame == 0

NewCapture(preparation) ==
    [of |-> preparation, write |-> 0, read |-> 0, frames |-> [n \in Indices |-> NoFrame],
     gap |-> FALSE]   \* frames were lost behind the window being read; observes only

Wrapped(i) == LET n == i % IndexSize IN IF n < IndexSize \div 2 THEN n ELSE n - IndexSize
Remainder(i) == IF i >= 0 THEN i % Capacity ELSE -((-i) % Capacity)
RingIndex(start, n) == Remainder(Wrapped(start + n))

Backlog(c) == Wrapped(c.write - c.read)

\* A faulty variant that takes the whole chunk and overwrites what is waiting.
WritableVariant(c, count) == count

\* What the ring has no room for is dropped, the newest frames that is.
Writable(c, count) == IF count < Capacity - Backlog(c) THEN count ELSE Capacity - Backlog(c)

Put(c, n, frame) == [c EXCEPT !.frames[RingIndex(c.write, n)] = frame]
PublishFrames(c, written) == [c EXCEPT !.write = Wrapped(@ + written)]

HasWindow(c) == Backlog(c) >= WindowSize

\* The newest window; what has piled up before it is skipped.
WindowStart(c) == IF Backlog(c) > WindowSize THEN Wrapped(c.write - WindowSize) ELSE c.read

Frame(c, start, n) == c.frames[RingIndex(start, n)]
Discard(c, write) == [c EXCEPT !.read = write]

Whole(window) == \A n \in 1..(Len(window) - 1) : window[n + 1] = window[n] + 1
=============================================================================
