------------------------------- MODULE OnePart -------------------------------
(***************************************************************************)
(* Which of the modules put side by side a behaviour is about.  It is      *)
(* picked at the start and never changes.                                  *)
(***************************************************************************)
CONSTANT Parts
VARIABLE part
=============================================================================
