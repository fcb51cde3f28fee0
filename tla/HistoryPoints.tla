---------------------------- MODULE HistoryPoints ----------------------------
(***************************************************************************)
(* StateHistory with a count of the points that the running group reset    *)
(* has taken.  The count observes and changes no step; it is what the      *)
(* documents' sentence about resets is about.                              *)
(***************************************************************************)
EXTENDS StateHistory

VARIABLE resetPoints   \* points taken by the group reset in progress or just done

PointsInit ==
    /\ Init
    /\ resetPoints = 0

BeginReset(members) ==
    /\ BeginGroupReset(members)
    /\ resetPoints' = 0

Reset(i) ==
    /\ ResetMember(i)
    /\ resetPoints' = IF currentSlot' # currentSlot THEN resetPoints + 1 ELSE resetPoints

PointsNext ==
    \/ \E members \in SUBSET Instances : BeginReset(members)
    \/ \E i \in Instances : Reset(i)
    \/ /\ \/ \E new \in Requests : \/ HistoryWrite(new) \/ PlainWrite(new)
                                   \/ TopologyWrite(new) \/ BankCommit(new)
          \/ \E g \in Gestures : \/ BeginHistory(g) \/ EndHistory(g)
                                 \/ \E new \in Requests : GestureWrite(g, new)
          \/ \E cursor \in Slots : JumpToHistory(cursor)
          \/ \E i \in Instances, baseline \in [Fields -> Val] : Restore(i, baseline)
          \/ \E i \in Instances : RegisterInstance(i) \/ UnregisterInstance(i)
       /\ UNCHANGED resetPoints

PointsSpec == PointsInit /\ [][PointsNext]_<<vars, resetPoints>>

-----------------------------------------------------------------------------
\* A reset writes "through one prepared transaction": it is one point that
\* one undo takes back, also when it covers every member of a group.
ResetIsOnePoint == resetPoints <= 1
=============================================================================
