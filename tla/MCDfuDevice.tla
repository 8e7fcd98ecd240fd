---------------------------- MODULE MCDfuDevice ----------------------------
(***************************************************************************)
(* Small instances of DfuDevice for TLC.                                   *)
(***************************************************************************)
EXTENDS DfuDevice

AllFaults == FaultKinds
ButWrite  == FaultKinds \ {"write"}
ButErase  == FaultKinds \ {"erase"}
=============================================================================
