--------------------------- MODULE MCEditorSession ---------------------------
(***************************************************************************)
(* An instance of EditorSession for TLC. Liveness is checked, so that no   *)
(* symmetry is declared.                                                   *)
(***************************************************************************)
EXTENDS EditorSession

CONSTANT Watched  \* one of the calls

\* CallEnds of one call. The calls are interchangeable: what holds of one of
\* them holds of all.
WatchedCallEnds == CallEnds(Watched)
=============================================================================
