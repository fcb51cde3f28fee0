----------------------------- MODULE DspExchange -----------------------------
(***************************************************************************)
(* The lock-free exchange by which the managed control side hands complete *)
(* DSP states to the audio thread: three snapshot slots, the index of the  *)
(* published one and the index of the one the audio thread has claimed.    *)
(*                                                                         *)
(* NativeDspStatePublisher.cs reads both indices, writes the lowest slot   *)
(* that is neither, and publishes it; its lock makes one publish exclude   *)
(* another and the Stop of unregistration.  DspStateConsumer.cpp loads the *)
(* published index, claims it, copies the slot.  Nothing makes the load    *)
(* and the claim one step, and neither copy of a snapshot is atomic: each  *)
(* part of it is a step here.  Memory is sequentially consistent: every    *)
(* shown interleaving is one the build can produce.                        *)
(***************************************************************************)
EXTENDS Naturals

CONSTANTS
    Parts,       \* the words of a DspSnapshot
    MaxVersion   \* bound: states published in one behaviour

ASSUME PartsAssumption == Parts # {}
ASSUME MaxVersionAssumption == MaxVersion \in Nat

VARIABLES
    snapshots,       \* slot |-> part |-> the version of the state it is from
    publishedIndex,
    consumerIndex,   \* the claim, as the publisher reads it
    version,         \* the last published version
    exchange,        \* the publisher still holds the exchange pointer
    released,        \* the native host has destroyed the exchange
    phase,           \* where the publisher is in PublishCore, under its lock
    publishedRead,   \* PublishCore's local publishedIndex
    writeIndex,
    written,         \* parts of the slot already written
    step,            \* where the audio thread is in ConsumePublishedDspState
    claim,           \* the consumer's local publishedIndex
    copied,          \* parts of the slot already copied
    local,           \* AudioRuntime.consumerIndex_
    snapshot,        \* AudioRuntime.snapshot_
    hasSnapshot,
    overtaken        \* a publish was completed between the last load and its claim

publisherVars == <<version, exchange, phase, publishedRead, writeIndex, written>>
consumerVars == <<step, claim, copied, local, snapshot, hasSnapshot>>
snapshotVars == <<snapshots, publishedIndex, consumerIndex, publisherVars, released,
                  consumerVars, overtaken>>

Indices == 0..2
Whole(v) == [p \in Parts |-> v]

ExchangeTypes ==
    /\ snapshots \in [Indices -> [Parts -> Nat]]
    /\ publishedIndex \in Indices /\ consumerIndex \in Indices
    /\ version \in Nat /\ exchange \in BOOLEAN /\ released \in BOOLEAN
    /\ phase \in {"idle", "select", "write"}
    /\ publishedRead \in Indices /\ writeIndex \in Indices /\ written \subseteq Parts
    /\ step \in {"idle", "claim", "copy"}
    /\ claim \in Indices /\ copied \subseteq Parts /\ local \in Indices
    /\ snapshot \in [Parts -> Nat]
    /\ hasSnapshot \in BOOLEAN /\ overtaken \in BOOLEAN

ExchangeInit ==
    /\ snapshots = [s \in Indices |-> Whole(0)]
    /\ publishedIndex = 0 /\ consumerIndex = 0
    /\ version = 0 /\ exchange = TRUE /\ released = FALSE
    /\ phase = "idle" /\ publishedRead = 0 /\ writeIndex = 0 /\ written = {}
    /\ step = "idle" /\ claim = 0 /\ copied = {} /\ local = 0
    /\ snapshot = Whole(0) /\ hasSnapshot = FALSE
    /\ overtaken = FALSE

-----------------------------------------------------------------------------
(* The publisher.                                                          *)

\* Variant: the consumer's claim is not looked at.
FirstUnpublishedIndex(published, consumer) ==
    CHOOSE s \in Indices \ {published} : \A t \in Indices \ {published} : s <= t

FindWritableIndex(published, consumer) ==
    CHOOSE s \in Indices \ {published, consumer} :
        \A t \in Indices \ {published, consumer} : s <= t

\* The lock is free and the pointer is set; the published index is read.
BeginPublish ==
    /\ phase = "idle" /\ exchange /\ version < MaxVersion
    /\ phase' = "select"
    /\ publishedRead' = publishedIndex
    /\ UNCHANGED <<snapshots, publishedIndex, consumerIndex, version, exchange,
                   writeIndex, written, released, consumerVars, overtaken>>

SelectSlot ==
    /\ phase = "select"
    /\ phase' = "write"
    /\ writeIndex' = FindWritableIndex(publishedRead, consumerIndex)
    /\ written' = {}
    /\ UNCHANGED <<snapshots, publishedIndex, consumerIndex, version, exchange,
                   publishedRead, released, consumerVars, overtaken>>

WritePart(p) ==
    /\ phase = "write" /\ p \notin written
    /\ snapshots' = [snapshots EXCEPT ![writeIndex][p] = version + 1]
    /\ written' = written \cup {p}
    /\ UNCHANGED <<publishedIndex, consumerIndex, version, exchange, phase,
                   publishedRead, writeIndex, released, consumerVars, overtaken>>

FinishPublish ==
    /\ phase = "write" /\ written = Parts
    /\ publishedIndex' = writeIndex
    /\ version' = version + 1
    /\ phase' = "idle"
    /\ overtaken' = (overtaken \/ step = "claim")
    /\ UNCHANGED <<snapshots, consumerIndex, exchange, publishedRead, writeIndex,
                   written, released, consumerVars>>

\* Variant: the pointer is cleared without the publisher's lock.
StopUnlocked ==
    /\ exchange
    /\ exchange' = FALSE
    /\ UNCHANGED <<snapshots, publishedIndex, consumerIndex, version, phase,
                   publishedRead, writeIndex, written, released, consumerVars,
                   overtaken>>

\* Unregistration clears the pointer under the same lock.
Stop ==
    /\ phase = "idle" /\ exchange
    /\ exchange' = FALSE
    /\ UNCHANGED <<snapshots, publishedIndex, consumerIndex, version, phase,
                   publishedRead, writeIndex, written, released, consumerVars,
                   overtaken>>

-----------------------------------------------------------------------------
(* The audio thread.                                                       *)

\* Variant: only a larger index counts as new.
LoadLargerIndex ==
    /\ step = "idle" /\ ~released /\ publishedIndex > local
    /\ step' = "claim"
    /\ claim' = publishedIndex
    /\ overtaken' = FALSE
    /\ UNCHANGED <<snapshots, publishedIndex, consumerIndex, publisherVars,
                   released, copied, local, snapshot, hasSnapshot>>

\* A block that finds its own index published changes nothing.
Load ==
    /\ step = "idle" /\ ~released /\ publishedIndex # local
    /\ step' = "claim"
    /\ claim' = publishedIndex
    /\ overtaken' = FALSE
    /\ UNCHANGED <<snapshots, publishedIndex, consumerIndex, publisherVars,
                   released, copied, local, snapshot, hasSnapshot>>

Claim ==
    /\ step = "claim"
    /\ step' = "copy"
    /\ consumerIndex' = claim
    /\ copied' = {}
    /\ UNCHANGED <<snapshots, publishedIndex, publisherVars, released, claim,
                   local, snapshot, hasSnapshot, overtaken>>

CopyPart(p) ==
    /\ step = "copy" /\ p \notin copied
    /\ snapshot' = [snapshot EXCEPT ![p] = snapshots[claim][p]]
    /\ copied' = copied \cup {p}
    /\ UNCHANGED <<snapshots, publishedIndex, consumerIndex, publisherVars,
                   released, step, claim, local, hasSnapshot, overtaken>>

\* Variant: the copy ends before all of the state is copied.
FinishCopyEarly ==
    /\ step = "copy"
    /\ step' = "idle"
    /\ local' = claim
    /\ hasSnapshot' = TRUE
    /\ UNCHANGED <<snapshots, publishedIndex, consumerIndex, publisherVars,
                   released, claim, copied, snapshot, overtaken>>

FinishCopy ==
    /\ step = "copy" /\ copied = Parts
    /\ step' = "idle"
    /\ local' = claim
    /\ hasSnapshot' = TRUE
    /\ UNCHANGED <<snapshots, publishedIndex, consumerIndex, publisherVars,
                   released, claim, copied, snapshot, overtaken>>

\* The host destroys the exchange after UnregisterInstance has returned, and
\* calls no audio block by then.
Release ==
    /\ ~exchange /\ step = "idle" /\ ~released
    /\ released' = TRUE
    /\ UNCHANGED <<snapshots, publishedIndex, consumerIndex, publisherVars,
                   consumerVars, overtaken>>

Publisher ==
    \/ SelectSlot
    \/ \E p \in Parts : WritePart(p)
    \/ FinishPublish

Consumer ==
    \/ Load
    \/ Claim
    \/ \E p \in Parts : CopyPart(p)
    \/ FinishCopy

ExchangeNext == BeginPublish \/ Publisher \/ Stop \/ Consumer \/ Release

ExchangeSpec == ExchangeInit /\ [][ExchangeNext]_snapshotVars

\* A publish under way runs to its end, and audio blocks keep coming.
FairExchangeSpec == ExchangeSpec /\ WF_snapshotVars(Publisher) /\ WF_snapshotVars(Consumer)

-----------------------------------------------------------------------------
(* Correctness.                                                            *)

\* While the audio thread copies, nobody writes into the slot it copies:
\* "Managed never writes the published or consumer-protected slot, so the
\* payload copy has explicit ownership" (DspStateExchange.md).
CopyIsOwned == ~(step = "copy" /\ phase = "write" /\ writeIndex = claim)

\* The ownership the indices do give: a copy is disturbed only if some publish
\* was completed between the load of the published index and the claim of it.
OwnedUnlessOvertaken == overtaken \/ CopyIsOwned

\* An audio thread that sees nothing new and was not overtaken has the last
\* published state, whole, in its own snapshot.
CaughtUp ==
    (step = "idle" /\ ~overtaken /\ local = publishedIndex) =>
        snapshot = Whole(version)

\* No audio is processed with the zeroes the exchange is created with, not in
\* one parameter and not even by a disturbed copy.
FirstSnapshotPublished == hasSnapshot => \A p \in Parts : snapshot[p] > 0

\* When unregistration has returned, no publish can touch the memory the host
\* releases.
NoPublishAfterRelease == released => phase = "idle"

\* The audio thread comes to the end of every run of publishes: again and
\* again it is idle with the published slot as its own, until the release.
AudioFollows == []<>(released \/ (step = "idle" /\ local = publishedIndex))
=============================================================================
