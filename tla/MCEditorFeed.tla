----------------------------- MODULE MCEditorFeed -----------------------------
(* Two instances, a context that is only a value and the equalizer.            *)
EXTENDS EditorFeed

MCContexts == <<"polish", "equalizer">>

\* Two edits of the user and one event elsewhere, or two events.
MCBounds == {<<a, n>> \in (0..2) \X (0..2) : a + 2 * n <= 4}
=============================================================================
