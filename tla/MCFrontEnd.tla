----------------------------- MODULE MCFrontEnd -----------------------------
(* The page at the scale of its constants: a ring of six frames, a demand   *)
(* for more below one frame and a half.                                     *)
EXTENDS FrontEnd
=============================================================================
