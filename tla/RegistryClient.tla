---------------------------- MODULE RegistryClient ----------------------------
(***************************************************************************)
(* The editor's cache of the registry of instances, RegistryClient.cpp: a    *)
(* snapshot that arrives as a sequence of frames, and the deltas that follow   *)
(* or cross it.  Every operator takes the client as a record and returns it.     *)
(*                                                                          *)
(* A row stands for an instance and its bank; of what a delta may change it       *)
(* keeps the group of the bank, the one field the editor decides upon.            *)
(***************************************************************************)
EXTENDS Integers, FiniteSets, FiniteSetsExt, Functions

NoRows == << >>
NoFetch == << >>

NewRegistry == [instances |-> NoRows, fetch |-> NoFetch, revision |-> 0, required |-> 0,
                ready |-> FALSE]

FetchPending(r) == r.fetch # NoFetch
Find(r, i) == i \in DOMAIN r.instances
BankHasGroup(r, i) == Find(r, i) /\ r.instances[i].group

WithRow(rows, i, row) == [j \in DOMAIN rows \cup {i} |-> IF j = i THEN row ELSE rows[j]]

StartSnapshot(r, request) ==
    [r EXCEPT !.fetch = [request |-> request, began |-> FALSE, revision |-> 0, expected |-> 0,
                         instances |-> NoRows]]

InvalidateRegistry(r) == [r EXCEPT !.fetch = NoFetch, !.ready = FALSE]

CancelSnapshot(r, request) ==
    IF FetchPending(r) /\ r.fetch.request = request THEN [r EXCEPT !.fetch = NoFetch] ELSE r

\* What a frame makes of the client, and what the editor has to do about it.
Update(r, update) == [client |-> r, update |-> update]

----------------------------------------------------------------------------
(* Deltas.                                                                   *)

\* A delta about a row the cache lacks, or one that adds a row it has, is
\* refused: the exception ends the editor's session.
ApplyDelta(r, frame) ==
    CASE frame.change = "added" /\ ~Find(r, frame.instance) ->
           Update([r EXCEPT !.instances = WithRow(@, frame.instance, frame.value),
                            !.revision = frame.revision], "changed")
      [] frame.change = "removed" /\ Find(r, frame.instance) ->
           Update([r EXCEPT !.instances = Restrict(@, DOMAIN @ \ {frame.instance}),
                            !.revision = frame.revision], "changed")
      [] frame.change = "group" /\ Find(r, frame.instance) ->
           Update([r EXCEPT !.instances[frame.instance].group = frame.value,
                            !.revision = frame.revision], "changed")
      [] OTHER -> Update(r, "throws")

\* A faulty variant that forgets which revision a delta has announced.
HandleDeltaVariant(r, frame) ==
    IF ~r.ready \/ r.revision # frame.previous THEN Update(r, "resynchronize")
    ELSE ApplyDelta(r, frame)

\* A delta that does not continue the cached revision calls for a snapshot, and
\* none older than the delta will do.
HandleDelta(r, frame) ==
    LET known == [r EXCEPT !.required = Max({@, frame.revision})]
    IN  IF ~known.ready \/ known.revision # frame.previous THEN Update(known, "resynchronize")
        ELSE ApplyDelta(known, frame)

----------------------------------------------------------------------------
(* Snapshots.                                                                *)

\* The frames of one answer; the rows of processors, banks, groups and members
\* are part of the row of their instance.
HandleSnapshotFrame(r, frame) ==
    LET s == r.fetch
    IN  CASE frame.selector = "registry_begin" ->
               IF s.began THEN Update(r, "throws")
               ELSE Update([r EXCEPT !.fetch.began = TRUE, !.fetch.revision = frame.revision,
                                     !.fetch.expected = frame.count], "ignored")
          [] frame.selector = "registry_instance" ->
               IF ~s.began \/ frame.instance \in DOMAIN s.instances THEN Update(r, "throws")
               ELSE Update([r EXCEPT !.fetch.instances = WithRow(@, frame.instance, frame.row)],
                           "ignored")
          [] frame.selector = "registry_done" ->
               IF ~s.began \/ frame.revision # s.revision
                     \/ Cardinality(DOMAIN s.instances) # s.expected
               THEN Update(r, "throws")
               ELSE IF s.revision < Max({r.required, r.revision})
               THEN Update([r EXCEPT !.fetch = NoFetch], "resynchronize")
               ELSE Update([r EXCEPT !.instances = s.instances, !.revision = s.revision,
                                     !.ready = TRUE, !.fetch = NoFetch], "changed")

HandleRegistry(r, frame) ==
    IF frame.selector = "registry_changed" THEN HandleDelta(r, frame)
    ELSE IF ~FetchPending(r) \/ frame.request # r.fetch.request THEN Update(r, "ignored")
    ELSE HandleSnapshotFrame(r, frame)
=============================================================================
