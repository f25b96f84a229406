--------------------------- MODULE MCFrameManager ---------------------------
(* One CPU and the frame manager with larger bitmaps.                       *)
EXTENDS FrameManager
=============================================================================
