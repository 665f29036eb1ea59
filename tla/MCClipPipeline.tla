--------------------------- MODULE MCClipPipeline ---------------------------
(* The clip pipeline, for TLC. *)
EXTENDS ClipPipeline
=============================================================================
