-------------------------- MODULE MCGestureSession --------------------------
(***************************************************************************)
(* Two editors that pass the focus to one another, and two acts of the      *)
(* user: two gestures in a row in one editor, one in each, or a gesture and  *)
(* an edit outside it; two positions of the control.                        *)
(***************************************************************************)
EXTENDS GestureSession

MCVal == {0, 1}
=============================================================================
