--------------------------- MODULE AbstractHistory ---------------------------
(***************************************************************************)
(* What the history promises, without slots: a bounded timeline of points, *)
(* each a complete valuation of the history values, and a cursor into it.  *)
(* A new point is written after the cursor and forgets the points that     *)
(* followed; when the timeline is full the oldest point is dropped.  Moving*)
(* the cursor changes no point, an edit without a point of its own changes *)
(* only the point at the cursor, and a restore rewrites one instance in    *)
(* every point.                                                            *)
(***************************************************************************)
EXTENDS Integers

CONSTANTS Instances, HistoryFields, Val, Capacity

VARIABLES
    timeline,   \* point number |-> the value of every history value there
    cursor      \* the point the system is at

vars == <<timeline, cursor>>

Cells == Instances \X HistoryFields
Point == [Cells -> Val]
Last == Capacity - 1

Init ==
    /\ cursor = 0
    /\ \E p \in Point : timeline = [k \in 0..0 |-> p]

Positions == DOMAIN timeline

\* A new point after the cursor; the whole ring shifts once it is full.
Record(p) ==
    IF cursor < Last
    THEN /\ cursor' = cursor + 1
         /\ timeline' = [k \in 0..(cursor + 1) |->
                             IF k = cursor + 1 THEN p ELSE timeline[k]]
    ELSE /\ cursor' = Last
         /\ timeline' = [k \in 0..Last |->
                             IF k = Last THEN p ELSE timeline[k + 1]]

Amend(p) ==
    /\ timeline' = [timeline EXCEPT ![cursor] = p]
    /\ UNCHANGED cursor

Move(k) ==
    /\ k \in Positions
    /\ cursor' = k
    /\ UNCHANGED timeline

Rebase(i, row) ==
    /\ timeline' = [k \in Positions |->
                       [c \in Cells |-> IF c[1] = i THEN row[c[2]]
                                                    ELSE timeline[k][c]]]
    /\ UNCHANGED cursor

Next ==
    \/ \E p \in Point : Record(p)
    \/ \E p \in Point : Amend(p)
    \/ \E k \in 0..Last : Move(k)
    \/ \E i \in Instances, row \in [HistoryFields -> Val] : Rebase(i, row)

Spec == Init /\ [][Next]_vars
=============================================================================
