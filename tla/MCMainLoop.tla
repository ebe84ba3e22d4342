----------------------------- MODULE MCMainLoop -----------------------------
(***************************************************************************)
(* MainLoop for model checking.                                            *)
(***************************************************************************)
EXTENDS MainLoop
=============================================================================
