--------------------------- MODULE MCReviewConsole ---------------------------
(***************************************************************************)
(* Instances of ReviewConsole for TLC.                                     *)
(***************************************************************************)
EXTENDS ReviewConsole
==============================================================================
