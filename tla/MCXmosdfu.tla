----------------------------- MODULE MCXmosdfu -----------------------------
(***************************************************************************)
(* Small instances of Xmosdfu for TLC.                                     *)
(***************************************************************************)
EXTENDS Xmosdfu

ButErase == FaultKinds \ {"erase"}
=============================================================================
