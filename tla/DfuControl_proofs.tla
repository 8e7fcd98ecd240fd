------------------------- MODULE DfuControl_proofs -------------------------
(***************************************************************************)
(* The control server implements the free server of DfuDevice: what is     *)
(* proved of the device holds behind it.                                   *)
(***************************************************************************)
EXTENDS DfuControl, TLAPS

\* What an answer to request r may ask of the server.  Only success defers
\* something, and only a detach asks for the USB way into DFU mode.
Asks(r) ==
    /\ resp'.deferred \in deferred_action
    /\ resp'.status # "SUCCESS" => resp'.deferred = "none"
    /\ resp'.deferred = "REBOOT_TO_DFU" => r.cmd = "DETACH"

-----------------------------------------------------------------------------
(* The handlers, in the order of DfuDevice.                                *)

\* The answers every handler is built from.
LEMMA PlainAnswers ==
    ASSUME NEW r, NEW st \in dfu_api_status,
           NEW act \in deferred_action \ {"REBOOT_TO_DFU"},
           st # "SUCCESS" => act = "none",
           Respond(st, act)
    PROVE  Asks(r)
  BY DEF Asks, Respond

LEMMA Leaves == ASSUME NEW r, LeaveDfu PROVE Asks(r)
  BY PlainAnswers DEF LeaveDfu, dfu_api_status, deferred_action

LEMMA FailureAsks == ASSUME NEW r, NEW code, Fail(code) PROVE Asks(r)
  BY PlainAnswers DEF Fail, dfu_api_status, deferred_action

LEMMA Quiet ==
    ASSUME NEW r, NEW st \in dfu_api_status, Respond(st, "none")
    PROVE  Asks(r)
  BY PlainAnswers DEF deferred_action

LEMMA Moves ==
    ASSUME NEW r, NEW st \in dfu_api_status, NEW new,
           MoveTo(new, st, "none") \/ Stay(st, "none")
    PROVE  Asks(r)
  BY Quiet DEF MoveTo, Stay

LEMMA AppStatesAsk ==
    ASSUME NEW r, state_app_idle(r) \/ state_detach(r)
    PROVE  Asks(r)
  <1>1. CASE r.cmd = "DETACH" /\ MoveTo("APP_DETACH", "SUCCESS", "REBOOT_TO_DFU")
    BY <1>1 DEF MoveTo, Respond, Asks, deferred_action
  <1>2. CASE state_detach(r) /\ r.cmd = "BUS_RESET"
    BY <1>2, PlainAnswers DEF state_detach, dfu_api_status, deferred_action
  <1>3. CASE \E new : \E st \in dfu_api_status : MoveTo(new, st, "none") \/ Stay(st, "none")
    BY <1>3, Moves
  <1> QED BY <1>1, <1>2, <1>3 DEF state_app_idle, state_detach, dfu_api_status

LEMMA EntriesAsk ==
    ASSUME NEW r, NEW n,
           action_entry_dnload(n) \/ action_entry_upload(n) \/ action_revert_factory
    PROVE  Asks(r)
  <1>1. CASE \E st \in dfu_api_status : Respond(st, "none")
    BY <1>1, Quiet
  <1>2. CASE action_entry_dnload(n)
    BY <1>1, <1>2 DEF action_entry_dnload, Fail, dfu_api_status
  <1>3. \A f : CannotConnect(f) => \E st \in dfu_api_status : Respond(st, "none")
    BY DEF CannotConnect, dfu_api_status
  <1>4. \A f : FirstBlock(f, n) => \E st \in dfu_api_status : Respond(st, "none")
    BY DEF FirstBlock, dfu_api_status
  <1>5. \A f : UploadFrom(f, n) => \E st \in dfu_api_status : Respond(st, "none")
    <2>1. "SUCCESS" \in dfu_api_status /\ "ERROR" \in dfu_api_status
      BY DEF dfu_api_status
    <2> QED BY <1>4, <2>1 DEF UploadFrom
  <1>6. CASE action_entry_upload(n)
    <2>1. PICK c \in ConnectIfNeeded :
            IF c.ret = "OK" THEN UploadFrom(c.flash, n) ELSE CannotConnect(c.flash)
      BY <1>6 DEF action_entry_upload
    <2> QED BY <1>1, <1>3, <1>5, <2>1
  <1>7. CASE action_revert_factory
    BY <1>1, <1>3, <1>7 DEF action_revert_factory, dfu_api_status
  <1> QED BY <1>2, <1>6, <1>7

LEMMA DfuIdleAsks ==
    ASSUME NEW r, state_dfu_idle(r)
    PROVE  Asks(r)
  <1>1. CASE Stall
    BY <1>1, FailureAsks DEF Stall
  <1>2. CASE Stay("SUCCESS", "REVERT_FACTORY")
    BY <1>2, PlainAnswers DEF Stay, dfu_api_status, deferred_action
  <1>3. CASE Stay("SUCCESS", "none")
    BY <1>3, Moves DEF dfu_api_status
  <1>4. CASE Respond("SUCCESS", "none") \/ Respond("ERROR", "none")
    BY <1>4, Quiet DEF dfu_api_status
  <1>5. CASE LeaveDfu
    BY <1>5, Leaves
  <1>6. CASE action_revert_factory
    BY <1>6, EntriesAsk
  <1> QED BY <1>1, <1>2, <1>3, <1>4, <1>5, <1>6 DEF state_dfu_idle

LEMMA SyncStatesAsk ==
    ASSUME NEW r, state_dnload_sync(r) \/ state_manifest_sync(r)
    PROVE  Asks(r)
  <1>1. CASE Stall
    BY <1>1, FailureAsks DEF Stall
  <1>2. CASE \E st \in dfu_status : AfterSubSm(st)
    BY <1>2, Quiet DEF AfterSubSm, dfu_api_status
  <1>3. CASE \E t : \E act \in {"none", "FLASH_WRITE", "FLASH_MANIFEST"} :
               build_status(t, act)
    BY <1>3 DEF build_status, Asks, deferred_action
  <1>4. CASE BadGetStatus
    BY <1>3, <1>4 DEF BadGetStatus
  <1> QED BY <1>1, <1>2, <1>3, <1>4 DEF state_dnload_sync, state_manifest_sync

LEMMA TransfersAsk ==
    ASSUME NEW r, NEW n,
           state_download_idle(n) \/ state_upload_idle(n) \/ ClearError(r)
    PROVE  Asks(r)
  <1>1. CASE \E st \in dfu_api_status : Respond(st, "none")
    BY <1>1, Quiet
  <1>2. CASE state_download_idle(n)
    BY <1>1, <1>2 DEF state_download_idle, MoveTo, Fail, dfu_api_status
  <1>3. CASE state_upload_idle(n)
    BY <1>1, <1>3 DEF state_upload_idle, NextBlock, MoveTo, dfu_api_status
  <1>4. CASE ClearError(r)
    BY <1>1, <1>4 DEF ClearError, Stay, dfu_api_status
  <1> QED BY <1>2, <1>3, <1>4

LEMMA RequestAsks ==
    ASSUME NEW r, dfu_request_with_arguments(r)
    PROVE  Asks(r)
  <1>1. CASE ReportDescriptor \/ ReportState(r)
    BY <1>1, Quiet
       DEF ReportDescriptor, ReportState, build_status, Asks, deferred_action, dfu_api_status
  <1>2. CASE LeaveDfu
    BY <1>2, Leaves
  <1>3. CASE HandleByState(r)
    <2>1. CASE Stall
      BY <2>1, FailureAsks DEF Stall
    <2>2. CASE MoveTo("DFU_IDLE", "SUCCESS", "none")
      BY <2>2, Moves DEF dfu_api_status
    <2> QED BY <1>3, <2>1, <2>2, AppStatesAsk, EntriesAsk, DfuIdleAsks, SyncStatesAsk,
               TransfersAsk
            DEF HandleByState
  <1> QED BY <1>1, <1>2, <1>3 DEF dfu_request_with_arguments

-----------------------------------------------------------------------------
(* The server.                                                             *)

LEMMA ControlInitial == ControlInit => ControlTypeOK /\ Init
  BY DEF ControlInit, ControlTypeOK, Init, deferred_action

\* A command is one that the free server may answer, and leaves a slot it may have.
LEMMA CommandStep ==
    ASSUME ControlTypeOK, NEW r \in Requests,
           \/ r \in Writes /\ write_command(r)
           \/ r \in Reads /\ read_command(r)
    PROVE  ControlTypeOK' /\ Answer(r)
  <1>1. dfu_request_with_arguments(r) /\ elapsed' = 0
    BY DEF write_command, read_command
  <1>2. Asks(r)
    BY <1>1, RequestAsks
  <1>3. CASE write_command(r)
    BY <1>1, <1>2, <1>3 DEF write_command, Asks, Answer, Holds, ControlTypeOK
  <1>4. CASE r \in Reads /\ read_command(r)
    <2>1. r.cmd # "DETACH"
      BY <1>4 DEF Reads, ReadCommands
    <2> QED BY <1>1, <1>2, <1>4, <2>1
            DEF read_command, Asks, Answer, Holds, ControlTypeOK
  <1> QED BY <1>3, <1>4

LEMMA TimerStep ==
    ASSUME ControlTypeOK, TimerExpires
    PROVE  ControlTypeOK' /\ (dfu_reboot \/ RunDeferred)
  <1>1. CASE deferred = "REBOOT"
    BY <1>1 DEF TimerExpires, dfu_reboot, Boot, ControlTypeOK, deferred_action
  <1>2. CASE deferred # "REBOOT"
    BY <1>2 DEF TimerExpires, TimerIsDue, RunDeferred, Reboots, ControlTypeOK,
                deferred_action
  <1> QED BY <1>1, <1>2

\* Every step of the control server is one of the device, or none of it.
LEMMA ControlStep ==
    ASSUME ControlTypeOK, [ControlNext]_controlVars
    PROVE  ControlTypeOK' /\ [Next]_vars
  <1>1. CASE \E r \in Writes : write_command(r)
    BY <1>1, CommandStep DEF Writes, HostRequest, Next
  <1>2. CASE \E r \in Reads : read_command(r)
    BY <1>2, CommandStep DEF Reads, HostRequest, Next
  <1>3. CASE TimerExpires
    BY <1>3, TimerStep DEF Next
  <1>4. CASE Tick
    BY <1>4 DEF Tick, ControlTypeOK, vars
  <1>5. CASE PowerFails
    BY <1>5 DEF PowerFails, PowerCycle, Boot, Next, ControlTypeOK, deferred_action
  <1>6. CASE UNCHANGED controlVars
    BY <1>6 DEF controlVars, vars, ControlTypeOK
  <1> QED BY <1>1, <1>2, <1>3, <1>4, <1>5, <1>6 DEF ControlNext

\* The slot of the control server never holds the reboot into DFU mode that only
\* the USB server takes: it is ignored after a write, and no read asks for it.
THEOREM SlotType == ControlSpec => []ControlTypeOK
  <1>1. ControlInit => ControlTypeOK
    BY ControlInitial
  <1>2. ControlTypeOK /\ [ControlNext]_controlVars => ControlTypeOK'
    BY ControlStep
  <1> QED BY <1>1, <1>2, PTL DEF ControlSpec

\* Behind the control server the device does what DfuDevice describes: the slot,
\* the timer and the order of commands add no behaviour to it.
THEOREM ControlImplements == ControlSpec => ImplementsDevice
  <1>1. ControlInit => Init
    BY ControlInitial
  <1>2. ControlTypeOK /\ [ControlNext]_controlVars => [Next]_vars
    BY ControlStep
  <1> QED BY <1>1, <1>2, SlotType, PTL DEF ControlSpec, ImplementsDevice, Spec
=============================================================================
