----------------------------- MODULE MCDfuHost -----------------------------
(***************************************************************************)
(* Small instances of DfuHost for TLC.                                     *)
(***************************************************************************)
EXTENDS DfuHost

ButWrite == FaultKinds \ {"write"}
=============================================================================
