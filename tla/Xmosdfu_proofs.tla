--------------------------- MODULE Xmosdfu_proofs ---------------------------
(***************************************************************************)
(* The tool with the device behind endpoint 0: with every image, under     *)
(* kills, lost transfers, bus resets and power failures.                   *)
(*                                                                         *)
(* It is one behaviour of endpoint 0 on its own, so that what DfuUsb_proofs*)
(* says of that holds of it.  It keeps to the protocol, so that most of    *)
(* what DfuPolite_proofs shows of a polite host does too, until an error   *)
(* the tool never clears (DeviceOfTool).  On that rests what the tool      *)
(* reports: an invariant relates where the tool is to what the device has  *)
(* taken or given (ToolPlaces).                                            *)
(***************************************************************************)
EXTENDS Xmosdfu, DfuUsb_proofs, DfuPolite_proofs

\* What the tool can make of endpoint 0, and what goes on there without it.  It
\* clears no error, and gives up no transfer but by leaving DFU mode.
ToolRequests ==
    { [cmd |-> "DNLOAD", n |-> T], [cmd |-> "DNLOAD", n |-> 0], [cmd |-> "UPLOAD", n |-> T],
      [cmd |-> "GETSTATUS", n |-> 1], [cmd |-> "DETACH", n |-> 0],
      [cmd |-> "REVERTFACTORY", n |-> 0] }

Configures == dfu_usb_set_configured_state \/ dfu_usb_clear_configured_state

UsedEndpoint ==
    \/ \E r \in ToolRequests : DFUDeviceRequests(r)
    \/ RunsInCall \/ Booting \/ dfu_process_reset_state \/ Configures
    \/ EndpointReboots \/ UsbPowerFails
    \/ UNCHANGED usbVars

\* A control transfer reaches endpoint 0 as the request it is, or not at all.
LEMMA ClassTransfer ==
    ASSUME NEW c, NEW n, [cmd |-> c, n |-> n] \in ToolRequests,
           NEW interface, NEW good, Class(c, n, interface, good)
    PROVE  UsedEndpoint
  BY DEF Class, control_transfer, dfu_usb_class_int_requests, UsedEndpoint

LEMMA RevertTransfer ==
    ASSUME NEW good, xmos_dfu_revertfactory(good)
    PROVE  UsedEndpoint
  BY DEF xmos_dfu_revertfactory, control_transfer, dfu_usb_vendor_requests, ToolRequests,
         UsedEndpoint

LEMMA ToolStepIsUsed ==
    ASSUME [ToolNext]_allVars
    PROVE  UsedEndpoint
  <1>1. CASE Start \/ Reopen \/ Kill \/ UNCHANGED allVars
    BY <1>1 DEF Start, Reopen, Kill, allVars, UsedEndpoint
  <1>2. CASE Detach \/ Return
    BY <1>2, ClassTransfer DEF Detach, Return, dfu_detach, ToolRequests
  <1>3. CASE PollBlock \/ PollEnd \/ ReportStatus
    <2>1. PICK next, good \in BOOLEAN : Class("GETSTATUS", 1, 0, good)
      BY <1>3 DEF PollBlock, PollEnd, ReportStatus, dfu_getStatus
    <2> QED BY <2>1, ClassTransfer DEF ToolRequests
  <1>4. CASE Block \/ End
    BY <1>4, ClassTransfer DEF Block, End, dfu_download, ToolRequests
  <1>5. CASE Upload
    BY <1>5, ClassTransfer DEF Upload, dfu_upload, ToolRequests
  <1>6. CASE Revert
    BY <1>6, RevertTransfer DEF Revert
  <1>7. CASE DeviceStep \/ Disturbance
    BY <1>7 DEF DeviceStep, Disturbance, BusResets, Configures, UsedEndpoint
  <1> QED
    BY <1>1, <1>2, <1>3, <1>4, <1>5, <1>6, <1>7 DEF ToolNext, ToolStep

\* Whatever the tool does, and whatever disturbs it, is one of the calls endpoint 0
\* provides for, or none.
LEMMA UsedIsUsb ==
    ASSUME UsedEndpoint, NEW Sent, ToolRequests \subseteq Sent
    PROVE  [EndpointNext(Sent)]_usbVars
  BY DEF UsedEndpoint, Configures, EndpointNext, dfu_usb_class_int_requests

\* The tool sends no bus reset and no number of a deferred action.
LEMMA ToolSends ==
    /\ ToolRequests \subseteq UsbRequests
    /\ ToolRequests \subseteq UsbRequests \ {EntryRequest}
    /\ ToolRequests \subseteq UsbRequests \ RawActions
  <1>1. ToolRequests \subseteq Requests
    BY DeviceNumbers DEF ToolRequests, Requests
  <1>2. \A r \in ToolRequests : r # EntryRequest /\ r \notin RawActions
    BY DEF ToolRequests, EntryRequest, RawActions, RawNumbers, deferred_action
  <1> QED BY <1>1, <1>2 DEF UsbRequests

\* The tool and the device behave as endpoint 0 provides, for each kind of host.
THEOREM ToolUsesEndpoint == ToolSpec => UsbSpec /\ NoEntrySpec /\ NoActionSpec
  <1>1. ToolInit => UsbInit
    BY DEF ToolInit
  <1>2. [ToolNext]_allVars =>
          /\ [EndpointNext(UsbRequests)]_usbVars
          /\ [EndpointNext(UsbRequests \ {EntryRequest})]_usbVars
          /\ [EndpointNext(UsbRequests \ RawActions)]_usbVars
    BY ToolStepIsUsed, UsedIsUsb, ToolSends
  <1> QED BY <1>1, <1>2, PTL DEF ToolSpec, UsbSpec, NoEntrySpec, NoActionSpec

\* With the tool at the other end of the bus a due reboot ends where the answer
\* said, and both tiles agree on the mode, for every image and transfer size.
THEOREM ToolModes == ToolSpec => [](FlagTellsReboot /\ ModeAgrees)
  BY ToolUsesEndpoint, FlagAndReboot, ModeAndState, PTL

\* An enumerated device leaves DFU mode at the next bus reset, and takes no step
\* the free server of DfuDevice could not take.
THEOREM ToolDevice == ToolSpec => ResetLeavesDfu /\ ImplementsDevice
  BY ToolUsesEndpoint, ResetEndsDfu, UsbImplements, PTL

-----------------------------------------------------------------------------
(* What a call of the tool does to the device.                             *)

Call(c, n) == DFUDeviceRequests([cmd |-> c, n |-> n])

\* Endpoint 0 hands the request on, and holds what the answer asks for.
LEMMA CallIsRequest ==
    ASSUME NEW c, NEW n \in 0 .. T, Call(c, n)
    PROVE  Request(c, n) /\ deferred = "none" /\ deferred' = resp'.deferred
  <1>1. [cmd |-> c, n |-> n] # TooLong
    BY DeviceNumbers DEF TooLong
  <1> QED BY <1>1 DEF Call, DFUDeviceRequests, handle_dfu_request, Request

\* The states of a device that is asked: none of them is on its way to DFU mode.
StateWhenAsked ==
    {"APP_IDLE", "DFU_IDLE", "DNLOAD_SYNC", "MANIFEST_SYNC", "DNLOAD_IDLE", "UPLOAD_IDLE",
     "DFU_ERROR"}

LEMMA WhenAsked ==
    ASSUME UsbInv, deferred = "none"
    PROVE  state \in StateWhenAsked
  BY DEF UsbInv, EndpointInv, StateWhenAsked, dfu_state, AppStates, SyncStates

\* The states in which the device refuses what the tool asks, and those a refusal
\* leaves it in.
Refusing == {"APP_IDLE", "DFU_ERROR"}

Takes(c) ==
    CASE c = "DNLOAD" -> {"DFU_IDLE", "DNLOAD_IDLE"}
      [] c = "UPLOAD" -> {"DFU_IDLE", "UPLOAD_IDLE"}
      [] OTHER        -> {"DFU_IDLE"}

Refused ==
    /\ state' \in Refusing /\ state' \in {state, "DFU_ERROR"}
    /\ resp'.status # "SUCCESS" /\ deferred' = "none"
    /\ UNCHANGED <<fifo, flash_finalised, sub_state, flash, accepted, programmed, delivered>>

LEMMA RefusedCall ==
    ASSUME UsbInv, NEW c \in {"DNLOAD", "UPLOAD", "REVERTFACTORY"}, NEW n \in 0 .. T,
           Call(c, n), state \notin Takes(c)
    PROVE  Refused
  <1> DEFINE r == [cmd |-> c, n |-> n]
  <1>1. Request(c, n) /\ deferred' = resp'.deferred /\ state \in StateWhenAsked
    BY CallIsRequest, WhenAsked
  <1>2. HandleByState(r)
    BY <1>1 DEF Request, dfu_request_with_arguments
  <1>3. CASE Stall
    BY <1>1, <1>3
       DEF Stall, Fail, error_condition, Respond, buffer, sub, download, Refused, Refusing
  <1>4. CASE state \in Refusing /\ Stay("BAD_PARAM", "none")
    BY <1>1, <1>4 DEF Stay, Respond, core, buffer, sub, download, Refused, Refusing
  <1>5. CASE state \in {"APP_IDLE", "DFU_ERROR"}
    BY <1>2, <1>4, <1>5 DEF HandleByState, state_app_idle, ClearError, Refusing
  <1>6. CASE state \in {"DNLOAD_SYNC", "MANIFEST_SYNC"}
    BY <1>2, <1>3, <1>6 DEF HandleByState, state_dnload_sync, state_manifest_sync
  <1>7. CASE state \in {"DNLOAD_IDLE", "UPLOAD_IDLE"}
    BY <1>2, <1>3, <1>7 DEF HandleByState, Takes
  <1>8. CASE state = "DFU_IDLE"
    BY <1>8 DEF Takes
  <1> QED BY <1>1, <1>5, <1>6, <1>7, <1>8 DEF StateWhenAsked

\* A block is taken, or it is not answered with success.
LEMMA BlockCall ==
    ASSUME UsbInv, Call("DNLOAD", T)
    PROVE  \/ Refused
           \/ state' = "DFU_ERROR" /\ resp'.status # "SUCCESS" /\ deferred' = "none"
           \/ /\ state' = "DNLOAD_SYNC" /\ resp'.status = "SUCCESS" /\ deferred' = "none"
              /\ \/ state = "DFU_IDLE" /\ accepted' = T
                 \/ state = "DNLOAD_IDLE" /\ accepted' = accepted + T
  <1>1. T \in 0 .. T /\ T \in 1 .. T
    BY DeviceNumbers
  <1>2. Request("DNLOAD", T) /\ deferred' = resp'.deferred
    BY <1>1, CallIsRequest
  <1>3. CASE state \in Takes("DNLOAD")
    BY <1>1, <1>2, <1>3, BlockAnswer DEF Takes
  <1> QED BY <1>1, <1>3, RefusedCall

LEMMA EndCall ==
    ASSUME TypeOK, UsbInv, Call("DNLOAD", 0)
    PROVE  /\ deferred' = "none"
           /\ \/ state' \in Refusing /\ state' \in {state, "DFU_ERROR"}
              \/ state = "DNLOAD_IDLE" /\ state' = "MANIFEST_SYNC" /\ UNCHANGED accepted
  <1>1. 0 \in 0 .. T
    BY DeviceNumbers
  <1>2. Request("DNLOAD", 0) /\ deferred' = resp'.deferred
    BY <1>1, CallIsRequest
  <1>3. CASE state = "DNLOAD_IDLE"
    BY <1>2, <1>3, EndAnswer
  <1>4. CASE state = "DFU_IDLE"
    <2>1. action_entry_dnload(0)
      BY <1>2, <1>4
         DEF Request, dfu_request_with_arguments, HandleByState, LeavesByCommonCode, SyncStates
    <2> QED BY <1>2, <2>1 DEF action_entry_dnload, Fail, error_condition, Respond, Refusing
  <1>5. CASE state \notin Takes("DNLOAD")
    BY <1>1, <1>5, RefusedCall DEF Refused
  <1> QED BY <1>3, <1>4, <1>5 DEF Takes

LEMMA StatusCall ==
    ASSUME UsbInv, Call("GETSTATUS", 1)
    PROVE  /\ Request("GETSTATUS", 1) /\ UNCHANGED flash
           /\ deferred = "none" /\ deferred' = resp'.deferred /\ resp'.status = "SUCCESS"
           /\ state \notin SyncStates =>
                /\ deferred' = "none"
                /\ UNCHANGED <<state, fifo, flash_finalised, sub_state, accepted, programmed,
                               delivered>>
  <1>1. 1 \in 0 .. T
    BY DeviceNumbers
  <1>2. /\ Request("GETSTATUS", 1)
        /\ deferred = "none" /\ deferred' = resp'.deferred
    BY <1>1, CallIsRequest
  <1>3. CASE state \in SyncStates
    BY <1>2, <1>3, StatusAnswer
  <1>4. CASE state \notin SyncStates
    BY <1>2, <1>4, Reported DEF NoResponse
  <1> QED BY <1>2, <1>3, <1>4

\* A detach has the device reboot, from every state; the slot is left as it is.
LEMMA DetachCall ==
    ASSUME TypeOK, UsbInv, Call("DETACH", 0)
    PROVE  /\ deferred' \in Reboots
           /\ flash'.slot = flash.slot /\ flash'.size = flash.size
           /\ state = "APP_IDLE" \/ LeaveDfu
  <1>1. 0 \in 0 .. T
    BY DeviceNumbers
  <1>2. /\ Request("DETACH", 0) /\ deferred' = resp'.deferred
        /\ state \in StateWhenAsked
    BY <1>1, CallIsRequest, WhenAsked
  <1>3. CASE state = "APP_IDLE"
    <2>1. state_app_idle([cmd |-> "DETACH", n |-> 0])
      BY <1>2, <1>3
         DEF Request, dfu_request_with_arguments, HandleByState, LeavesByCommonCode, SyncStates
    <2> QED BY <1>2, <1>3, <2>1 DEF state_app_idle, MoveTo, Respond, Reboots
  <1>4. CASE state # "APP_IDLE"
    <2>1. LeaveDfu
      BY <1>2, <1>4
         DEF Request, dfu_request_with_arguments, HandleByState, LeavesByCommonCode, SyncStates,
             state_dfu_idle, StateWhenAsked
    <2>2. flash'.slot = flash.slot /\ flash'.size = flash.size
      BY <2>1 DEF LeaveDfu, flash_deinit, flash_disable_ports, TypeOK, flash_session
    <2> QED BY <1>2, <2>1, <2>2, LeaveAnswer DEF Reboots
  <1> QED BY <1>3, <1>4

LEMMA RevertCall ==
    ASSUME UsbInv, Call("REVERTFACTORY", 0)
    PROVE  \/ Refused
           \/ /\ state = "DFU_IDLE"
              /\ \/ /\ DFU_CONFIG_USB_INBAND_FUNCTIONS = 1 /\ action_revert_factory
                    /\ deferred' = "none"
                 \/ /\ DFU_CONFIG_USB_INBAND_FUNCTIONS # 1 /\ Stay("SUCCESS", "REVERT_FACTORY")
                    /\ deferred' = "REVERT_FACTORY"
  <1>1. 0 \in 0 .. T
    BY DeviceNumbers
  <1>2. Request("REVERTFACTORY", 0) /\ deferred' = resp'.deferred
    BY <1>1, CallIsRequest
  <1>3. CASE state = "DFU_IDLE"
    <2>1. state_dfu_idle([cmd |-> "REVERTFACTORY", n |-> 0])
      BY <1>2, <1>3
         DEF Request, dfu_request_with_arguments, HandleByState, LeavesByCommonCode, SyncStates
    <2>2. action_revert_factory => resp'.deferred = "none"
      BY <1>3, RevertActs
    <2> QED BY <1>2, <1>3, <2>1, <2>2 DEF state_dfu_idle, Stay, Respond
  <1>4. CASE state # "DFU_IDLE"
    BY <1>1, <1>4, RefusedCall DEF Takes
  <1> QED BY <1>3, <1>4

\* Where no erase fails a revert that is answered with success has left nothing in
\* the slot, and it is answered so where the flash can be opened.
LEMMA RevertErases ==
    ASSUME TypeOK, "erase" \notin Faults, action_revert_factory
    PROVE  \/ /\ resp'.status = "SUCCESS" /\ UNCHANGED state
              /\ flash'.slot = "none" /\ flash'.upgrade_image_valid = 0
           \/ /\ resp'.status # "SUCCESS" /\ state' = "DFU_ERROR"
              /\ "open" \in Faults \/ "factory" \in Faults
  <1>1. PICK c \in ConnectIfNeeded :
          IF c.ret = "OK"
          THEN /\ flash' \in RevertErase(c.flash)
               /\ Respond("SUCCESS", "none")
               /\ UNCHANGED core
          ELSE CannotConnect(c.flash)
    BY DEF action_revert_factory
  <1>2. c.flash \in flash_session
    BY <1>1, Connects DEF TypeOK
  <1>3. CASE c.ret = "OK"
    <2>1. flash' = [Erased(c.flash) EXCEPT !.upgrade_image_valid = 0]
      BY <1>1, <1>3 DEF RevertErase
    <2> QED BY <1>1, <1>2, <1>3, <2>1 DEF Erased, flash_session, Respond, core
  <1>4. CASE c.ret # "OK"
    <2>1. "open" \in Faults \/ "factory" \in Faults
      BY <1>1, <1>4
         DEF ConnectIfNeeded, flash_init, flash_enable_ports_fails, Fault, Result
    <2> QED BY <1>1, <1>4, <2>1 DEF CannotConnect, error_condition, Respond
  <1> QED BY <1>3, <1>4

\* A bus reset leaves everything as it is, or has the device reboot.
LEMMA ResetActs ==
    ASSUME TypeOK, UsbInv, dfu_process_reset_state
    PROVE  \/ /\ LeaveDfu /\ deferred' = "REBOOT"
              /\ flash'.slot = flash.slot /\ flash'.size = flash.size
           \/ /\ deferred' = "none"
              /\ UNCHANGED <<state, fifo, flash_finalised, sub_state, flash, accepted,
                             programmed, delivered>>
  <1> DEFINE r == [cmd |-> "BUS_RESET", n |-> CInt(flag)]
  <1>1. /\ deferred = "none" /\ deferred' = resp'.deferred
        /\ dfu_request_with_arguments(r)
        /\ bus \in {"off", "reset", "configured"}
    BY DEF dfu_process_reset_state, handle_dfu_request, TooLong
  <1>2. state \in StateWhenAsked
    BY <1>1, WhenAsked
  <1>3. CInt(flag) = (IF flag THEN 1 ELSE 0) /\ (flag => state = "DFU_IDLE")
    BY <1>1 DEF CInt, UsbInv, EndpointInv
  <1>4. CASE LeaveDfu
    <2>1. flash'.slot = flash.slot /\ flash'.size = flash.size
      BY <1>4 DEF LeaveDfu, flash_deinit, flash_disable_ports, TypeOK, flash_session
    <2> QED BY <1>1, <1>4, <2>1, LeaveAnswer
  <1>5. CASE Stay("SUCCESS", "none")
    BY <1>1, <1>5 DEF Stay, Respond, core, buffer, sub, download
  <1>6. CASE state = "APP_IDLE"
    <2>1. state_app_idle(r)
      BY <1>1, <1>6
         DEF dfu_request_with_arguments, HandleByState, LeavesByCommonCode, SyncStates
    <2> QED BY <1>3, <1>5, <1>6, <2>1 DEF state_app_idle
  <1>7. CASE state = "DFU_IDLE"
    <2>1. state_dfu_idle(r)
      BY <1>1, <1>7
         DEF dfu_request_with_arguments, HandleByState, LeavesByCommonCode, SyncStates
    <2> QED BY <1>4, <1>5, <2>1 DEF state_dfu_idle
  <1>8. CASE LeavesByCommonCode
    BY <1>1, <1>4, <1>8 DEF dfu_request_with_arguments
  <1> QED BY <1>2, <1>6, <1>7, <1>8 DEF StateWhenAsked, LeavesByCommonCode, SyncStates

\* The other calls of endpoint 0: at boot, and when it is configured.
LEMMA ForceActs ==
    ASSUME UsbInv, dfu_force_dfu_mode_active
    PROVE  /\ state = "APP_IDLE" /\ state' = "DFU_IDLE" /\ deferred = "none" /\ deferred' = "none"
           /\ UNCHANGED <<fifo, flash_finalised, sub_state, flash, accepted, programmed,
                          delivered>>
  <1> DEFINE r == [cmd |-> "BUS_RESET", n |-> 1]
  <1>1. /\ deferred = "none" /\ deferred' = resp'.deferred
        /\ dfu_request_with_arguments(r)
        /\ state = "APP_IDLE"
    BY DEF dfu_force_dfu_mode_active, handle_dfu_request, TooLong, UsbInv, EndpointInv
  <1>2. state_app_idle(r)
    BY <1>1 DEF dfu_request_with_arguments, HandleByState, LeavesByCommonCode, SyncStates
  <1> QED BY <1>1, <1>2
          DEF state_app_idle, MoveTo, normal_transition, Respond, buffer, sub, download

LEMMA BootActs ==
    ASSUME EndpointReboots \/ UsbPowerFails
    PROVE  /\ Boot /\ deferred' = "none" /\ state' = "APP_IDLE"
           /\ flash'.slot = flash.slot /\ flash'.size = flash.size
           /\ flash'.upgrade_image_valid = 0
  BY DEF EndpointReboots, dfu_reboot, UsbPowerFails, PowerCycle, Boot, PoweredUp

-----------------------------------------------------------------------------
(* The device behind the tool: the protocol is kept, or has ended in an    *)
(* error the tool never clears.                                            *)

\* An action is held in the state that has a use for it: nothing comes between the
\* answer that asks for it and the end of the call.
HeldFits ==
    /\ deferred = "FLASH_WRITE" => state = "DNLOAD_SYNC"
    /\ deferred = "FLASH_MANIFEST" => state = "MANIFEST_SYNC"
    /\ deferred = "REVERT_FACTORY" =>
         state = "DFU_IDLE" /\ DFU_CONFIG_USB_INBAND_FUNCTIONS # 1
    /\ deferred # "FLASH_CONNECT"

PoliteOrFailed == PoliteInv \/ state = "DFU_ERROR"

\* Outside a download the session takes a whole image only for valid, where an erase
\* does not fail and the library takes no torn image for a boot image.
ValidIsWhole ==
    "erase" \notin Faults /\ 0 \notin TornFound =>
        (flash.upgrade_image_valid = 1 =>
            flash.slot = "whole" \/ state \in Downloading \/ Rebooting)

UsedDevice == HeldFits /\ PoliteOrFailed /\ ValidIsWhole

LEMMA RunsActs ==
    ASSUME IInv, HeldFits, RunsInCall
    PROVE  /\ deferred' = "none"
           /\ \/ /\ state \in SyncStates /\ state' \in {state, "DFU_ERROR"}
                 /\ UNCHANGED accepted
              \/ /\ state = "DFU_IDLE" /\ state' \in {"DFU_IDLE", "DFU_ERROR"}
                 /\ action_revert_factory
  <1>1. /\ deferred \notin Reboots \cup {"none"} /\ deferred' = "none"
        /\ Request(deferred, 0)
    BY DEF RunsInCall, RunDeferred, Request
  <1>2. deferred \in {"FLASH_WRITE", "FLASH_MANIFEST", "REVERT_FACTORY"}
    BY <1>1 DEF IInv, DeviceInv, TypeOK, deferred_action, Reboots, HeldFits
  <1>3. CASE deferred \in {"FLASH_WRITE", "FLASH_MANIFEST"}
    <2>1. \/ state = "DNLOAD_SYNC" /\ deferred = "FLASH_WRITE"
          \/ state = "MANIFEST_SYNC" /\ deferred = "FLASH_MANIFEST"
      BY <1>3 DEF HeldFits
    <2> QED BY <1>1, <2>1, SyncAction DEF SyncStates
  <1>4. CASE deferred = "REVERT_FACTORY"
    <2>1. state = "DFU_IDLE" /\ DFU_CONFIG_USB_INBAND_FUNCTIONS = 0
      BY <1>4, DeviceAssumption DEF HeldFits, DeviceAssumption
    <2>2. state_dfu_idle([cmd |-> deferred, n |-> 0])
      BY <1>1, <1>4, <2>1
         DEF Request, dfu_request_with_arguments, HandleByState, LeavesByCommonCode, SyncStates
    <2>3. action_revert_factory
      BY <1>4, <2>1, <2>2 DEF state_dfu_idle
    <2> QED BY <1>1, <1>4, <2>1, <2>3, RevertActs
  <1> QED BY <1>1, <1>2, <1>3, <1>4

\* The session learns of an image only where there is one.
LEMMA ConnectsToWhole ==
    ASSUME TypeOK, 0 \notin TornFound,
           flash.upgrade_image_valid = 1 => flash.slot = "whole",
           NEW c \in ConnectIfNeeded
    PROVE  c.flash.upgrade_image_valid = 1 => c.flash.slot = "whole"
  <1>1. CASE c = Result("OK", flash)
    BY <1>1 DEF Result
  <1>2. CASE c \in flash_init(flash)
    <2>1. \A f : f.slot # "whole" => 0 \notin fl_getNextBootImage(f)
      BY DEF fl_getNextBootImage
    <2>2. \A g \in Connected(flash) :
            g.upgrade_image_valid = 1 => g.slot = "whole"
      BY <2>1 DEF Connected, WithImage, Open, TypeOK, flash_session
    <2>3. CASE \E g \in Connected(flash) : c = Result("OK", g)
      BY <2>2, <2>3 DEF Result
    <2>4. CASE c \in flash_enable_ports_fails(flash)
      BY <2>4 DEF flash_enable_ports_fails, Fault, Result
    <2>5. CASE c = Result("GET_FACTORY_IMAGE_FAILED", [flash EXCEPT !.device_open = 1])
      BY <2>5 DEF Result, TypeOK, flash_session
    <2> QED BY <1>2, <2>3, <2>4, <2>5 DEF flash_init, Fault
  <1> QED BY <1>1, <1>2 DEF ConnectIfNeeded

\* What a revert leaves of a valid image is whole.
LEMMA RevertKeepsWhole ==
    ASSUME TypeOK, "erase" \notin Faults, 0 \notin TornFound,
           flash.upgrade_image_valid = 1 => flash.slot = "whole",
           action_revert_factory
    PROVE  flash'.upgrade_image_valid = 1 => flash'.slot = "whole"
  <1>1. PICK c \in ConnectIfNeeded :
          IF c.ret = "OK" THEN flash' \in RevertErase(c.flash) ELSE flash' = c.flash
    BY DEF action_revert_factory, CannotConnect
  <1>2. c.flash.upgrade_image_valid = 1 => c.flash.slot = "whole"
    BY ConnectsToWhole
  <1>3. c.flash \in flash_session
    BY <1>1, Connects DEF TypeOK
  <1>4. CASE c.ret = "OK"
    <2>1. flash' = [Erased(c.flash) EXCEPT !.upgrade_image_valid = 0]
      BY <1>1, <1>4 DEF RevertErase
    <2> QED BY <1>3, <2>1 DEF Erased, flash_session
  <1> QED BY <1>1, <1>2, <1>4

\* An upload is of the image the session knows, and so is each block of it.
LEMMA UploadKeepsWhole ==
    ASSUME TypeOK, UploadAccounted, 0 \notin TornFound,
           flash.upgrade_image_valid = 1 => flash.slot = "whole",
           state \in Takes("UPLOAD"), Request("UPLOAD", T)
    PROVE  /\ flash'.upgrade_image_valid = 1 => flash'.slot = "whole"
           /\ delivered' > delivered => flash'.slot = "whole"
  <1>1. delivered \in Nat /\ read_length \in Int /\ fifo \in Nat
    BY FlashAssumption, DeviceNumbers DEF TypeOK, FlashAssumption
  <1>2. CASE state = "DFU_IDLE"
    <2>1. action_entry_upload(T)
      BY <1>2
         DEF Request, dfu_request_with_arguments, HandleByState, LeavesByCommonCode, SyncStates
    <2>2. PICK c \in ConnectIfNeeded :
            IF c.ret = "OK" THEN UploadFrom(c.flash, T) ELSE CannotConnect(c.flash)
      BY <2>1 DEF action_entry_upload
    <2>3. c.flash.upgrade_image_valid = 1 => c.flash.slot = "whole"
      BY ConnectsToWhole
    <2>4. CASE CannotConnect(c.flash)
      BY <1>1, <2>3, <2>4 DEF CannotConnect
    <2>5. CASE UploadFrom(c.flash, T)
      <3>1. PICK s \in flash_start_read(c.flash) :
              CASE s.ret = "OK" -> FirstBlock(s.flash, T)
                [] OTHER        -> delivered' = 0 /\ flash' = s.flash
        BY <2>5 DEF UploadFrom
      <3>2. /\ s.flash = c.flash
            /\ s.ret = "OK" => c.flash.upgrade_image_valid = 1
        BY DEF flash_start_read, Fault, Result
      <3>3. CASE s.ret = "OK"
        <4>1. PICK u \in upload_block(c.flash, 0, T) : flash' = u.flash
          BY <3>1, <3>2, <3>3 DEF FirstBlock
        <4>2. u.flash = c.flash
          BY <4>1 DEF upload_block, flash_read_page, Fault, Result
        <4> QED BY <2>3, <3>2, <3>3, <4>1, <4>2
      <3> QED BY <1>1, <2>3, <3>1, <3>2, <3>3
    <2> QED BY <2>2, <2>4, <2>5
  <1>3. CASE state = "UPLOAD_IDLE"
    <2>1. state_upload_idle(T)
      BY <1>3
         DEF Request, dfu_request_with_arguments, HandleByState, LeavesByCommonCode, SyncStates
    <2>2. CASE read_length <= 0
      BY <1>1, <2>1, <2>2 DEF state_upload_idle, MoveTo
    <2>3. CASE read_length > 0
      <3>1. flash.upgrade_image_valid = 1
        BY <1>1, <1>3, <2>3 DEF UploadAccounted
      <3>2. PICK u \in upload_block(flash, fifo, T) : flash' = u.flash
        BY <1>1, <2>1, <2>3 DEF state_upload_idle, NextBlock
      <3>3. u.flash = flash
        BY <3>2 DEF upload_block, flash_read_page, Fault, Result
      <3> QED BY <3>1, <3>2, <3>3
    <2> QED BY <1>1, <2>2, <2>3
  <1> QED BY <1>2, <1>3 DEF Takes

\* A refusal changes nothing, or ends in an error.
LEMMA RefusedKeepsUsed ==
    ASSUME UsedDevice, deferred = "none", Refused
    PROVE  UsedDevice'
  <1>1. HeldFits'
    BY DEF Refused, HeldFits
  <1>2. CASE state' = "DFU_ERROR"
    BY <1>1, <1>2 DEF UsedDevice, PoliteOrFailed, ValidIsWhole, Downloading
  <1>3. CASE state' = "APP_IDLE" /\ state = "APP_IDLE"
    <2>1. ~Rebooting /\ state' = state /\ PoliteInv
      BY <1>3 DEF Rebooting, Reboots, UsedDevice, PoliteOrFailed
    <2>2. flash_finalised # 1 /\ flash_finalised' # 1
      BY <1>3, <2>1 DEF PoliteInv, FinalisedWaits, Refused
    <2>3. PoliteInv'
      BY <1>3, <2>1, <2>2, SteadyStep DEF Refused
    <2>4. ValidIsWhole'
      BY <1>3, <2>1
         DEF Refused, UsedDevice, ValidIsWhole, Downloading, SyncStates
    <2> QED BY <1>1, <2>3, <2>4 DEF UsedDevice, PoliteOrFailed
  <1> QED BY <1>2, <1>3 DEF Refused, Refusing

\* A reboot that is due, and the reboot.
LEMMA LeavingKeepsUsed ==
    ASSUME deferred' \in Reboots, state' # "MANIFEST_SYNC"
    PROVE  UsedDevice'
  BY RebootingStep
     DEF UsedDevice, HeldFits, PoliteOrFailed, ValidIsWhole, Rebooting, Reboots

LEMMA BootKeepsUsed ==
    ASSUME IInv, EndpointReboots \/ UsbPowerFails
    PROVE  UsedDevice'
  BY BootActs, PoliteBoot DEF UsedDevice, HeldFits, PoliteOrFailed, ValidIsWhole

\* A request the protocol provides for keeps what DfuPolite_proofs shows.
LEMMA ProvidedKeepsPolite ==
    ASSUME IInv, PoliteInv, NEW c, NEW n \in 0 .. T, Call(c, n),
           [cmd |-> c, n |-> n] \in Requests, Provided([cmd |-> c, n |-> n])
    PROVE  PoliteInv'
  <1>1. /\ dfu_request_with_arguments([cmd |-> c, n |-> n])
        /\ deferred = "none" /\ deferred' = resp'.deferred
    BY CallIsRequest DEF Request
  <1>2. deferred' \in Holds(resp'.deferred)
    BY <1>1 DEF Holds
  <1>3. PoliteRequest
    BY <1>1, <1>2 DEF PoliteRequest, Answer
  <1> QED BY <1>3, PoliteRequestStep

LEMMA DnloadKeepsUsed ==
    ASSUME IInv, UsbInv, UsedDevice, NEW n \in {0, T}, Call("DNLOAD", n)
    PROVE  UsedDevice'
  <1>1. n \in 0 .. T /\ n \in Nat /\ 0 # T /\ TypeOK
    BY DeviceNumbers DEF IInv, DeviceInv
  <1>2. deferred = "none"
    BY <1>1, CallIsRequest
  <1>3. CASE state \notin Takes("DNLOAD")
    BY <1>1, <1>2, <1>3, RefusedCall, RefusedKeepsUsed
  <1>4. CASE state \in Takes("DNLOAD") /\ state' = "DFU_ERROR"
    BY <1>1, <1>4, BlockCall, EndCall
       DEF UsedDevice, HeldFits, PoliteOrFailed, ValidIsWhole, Downloading, Refused
  <1>5. CASE state \in Takes("DNLOAD") /\ state' # "DFU_ERROR"
    <2>1. deferred' = "none" /\ state' \in SyncStates /\ (state = "DFU_IDLE" => n = T)
      BY <1>1, <1>5, BlockCall, EndCall DEF Takes, Refused, Refusing, SyncStates
    <2>2. Provided([cmd |-> "DNLOAD", n |-> n]) /\ [cmd |-> "DNLOAD", n |-> n] \in Requests
      BY <1>1, <1>5, <2>1 DEF Takes, Provided, Requests
    <2>3. PoliteInv'
      BY <1>1, <1>5, <2>2, ProvidedKeepsPolite DEF UsedDevice, PoliteOrFailed, Takes
    <2> QED BY <2>1, <2>3
            DEF UsedDevice, HeldFits, PoliteOrFailed, ValidIsWhole, Downloading
  <1> QED BY <1>3, <1>4, <1>5

LEMMA UploadKeepsUsed ==
    ASSUME IInv, UsbInv, UsedDevice, Call("UPLOAD", T)
    PROVE  UsedDevice'
  <1>1. T \in 0 .. T /\ T > 0 /\ TypeOK /\ UploadAccounted
    BY DeviceNumbers DEF IInv, DeviceInv
  <1>2. Request("UPLOAD", T) /\ deferred = "none" /\ deferred' = resp'.deferred
    BY <1>1, CallIsRequest
  <1>3. CASE state \notin Takes("UPLOAD")
    BY <1>1, <1>2, <1>3, RefusedCall, RefusedKeepsUsed
  <1>4. CASE state \in Takes("UPLOAD")
    <2>1. deferred' = "none"
      BY <1>1, <1>2, <1>4, UploadFirst, UploadNext DEF Takes
    <2>2. Provided([cmd |-> "UPLOAD", n |-> T]) /\ [cmd |-> "UPLOAD", n |-> T] \in Requests
      BY <1>1, <1>4 DEF Takes, Provided, Requests
    <2>3. PoliteInv'
      BY <1>1, <1>4, <2>2, ProvidedKeepsPolite DEF UsedDevice, PoliteOrFailed, Takes
    <2>4. ValidIsWhole'
      <3>1. SUFFICES ASSUME "erase" \notin Faults, 0 \notin TornFound
                     PROVE  flash'.upgrade_image_valid = 1 => flash'.slot = "whole"
        BY DEF ValidIsWhole
      <3>2. ~Rebooting /\ state \notin Downloading
        BY <1>2, <1>4 DEF Rebooting, Reboots, Takes, Downloading, SyncStates
      <3>3. flash.upgrade_image_valid = 1 => flash.slot = "whole"
        BY <3>1, <3>2 DEF UsedDevice, ValidIsWhole
      <3> QED BY <1>1, <1>2, <1>4, <3>1, <3>3, UploadKeepsWhole
    <2> QED BY <2>1, <2>3, <2>4 DEF UsedDevice, HeldFits, PoliteOrFailed
  <1> QED BY <1>3, <1>4

\* The step of a revert, when it is asked for or in its call.
LEMMA RevertKeepsValid ==
    ASSUME IInv, UsedDevice, state = "DFU_IDLE", ~Rebooting, action_revert_factory
    PROVE  ValidIsWhole'
  <1>1. SUFFICES ASSUME "erase" \notin Faults, 0 \notin TornFound
                 PROVE  flash'.upgrade_image_valid = 1 => flash'.slot = "whole"
    BY DEF ValidIsWhole
  <1>2. flash.upgrade_image_valid = 1 => flash.slot = "whole"
    BY <1>1 DEF UsedDevice, ValidIsWhole, Downloading, SyncStates
  <1> QED BY <1>1, <1>2, RevertKeepsWhole DEF IInv, DeviceInv

LEMMA RevertKeepsUsed ==
    ASSUME IInv, UsbInv, UsedDevice, Call("REVERTFACTORY", 0)
    PROVE  UsedDevice'
  <1>1. 0 \in 0 .. T
    BY DeviceNumbers
  <1>2. deferred = "none"
    BY <1>1, CallIsRequest
  <1>3. CASE Refused
    BY <1>2, <1>3, RefusedKeepsUsed
  <1>4. CASE ~Refused
    <2>1. state = "DFU_IDLE"
      BY <1>4, RevertCall
    <2>2. PoliteInv'
      BY <1>1, <2>1, ProvidedKeepsPolite
         DEF UsedDevice, PoliteOrFailed, Provided, Requests
    <2>3. ~Rebooting
      BY <1>2 DEF Rebooting, Reboots
    <2>4. CASE action_revert_factory /\ deferred' = "none"
      BY <2>1, <2>2, <2>3, <2>4, RevertKeepsValid
         DEF UsedDevice, HeldFits, PoliteOrFailed
    <2>5. CASE /\ DFU_CONFIG_USB_INBAND_FUNCTIONS # 1 /\ Stay("SUCCESS", "REVERT_FACTORY")
               /\ deferred' = "REVERT_FACTORY"
      <3>1. state' = state /\ flash' = flash
        BY <2>5 DEF Stay, core
      <3> QED BY <2>1, <2>2, <2>3, <2>5, <3>1
              DEF UsedDevice, HeldFits, PoliteOrFailed, ValidIsWhole, Downloading, SyncStates,
                  Rebooting, Reboots
    <2> QED BY <1>4, <2>4, <2>5, RevertCall
  <1> QED BY <1>3, <1>4

\* A poll, the one that ends a download among them.
LEMMA StatusKeepsUsed ==
    ASSUME IInv, UsbInv, UsedDevice, Call("GETSTATUS", 1)
    PROVE  /\ UsedDevice'
           /\ state = "MANIFEST_SYNC" /\ state' = "DFU_IDLE" /\ LossIsFound =>
                flash.slot = "whole" /\ flash.size = accepted
  <1>1. /\ Request("GETSTATUS", 1) /\ flash' = flash
        /\ deferred = "none" /\ deferred' = resp'.deferred
        /\ state \notin SyncStates => deferred' = "none" /\ state' = state
    BY StatusCall
  <1>2. 1 \in 0 .. T
    BY DeviceNumbers
  <1>3. HeldFits'
    BY <1>1, StatusAnswer DEF HeldFits, SyncStates
  <1>4. CASE state = "DFU_ERROR"
    BY <1>1, <1>3, <1>4
       DEF UsedDevice, PoliteOrFailed, ValidIsWhole, Downloading, SyncStates
  <1>5. CASE state # "DFU_ERROR"
    <2>1. PoliteInv
      BY <1>5 DEF UsedDevice, PoliteOrFailed
    <2>2. PoliteInv'
      BY <1>2, <2>1, ProvidedKeepsPolite DEF Provided, Requests
    <2>3. ~Rebooting
      BY <1>1 DEF Rebooting, Reboots
    <2>4. ASSUME state = "MANIFEST_SYNC", state' = "DFU_IDLE", LossIsFound
          PROVE  flash.slot = "whole" /\ flash.size = accepted
      <3>1. flash_finalised = 1
        BY <1>1, <2>4, StatusAnswer DEF SyncStates
      <3> QED BY <2>1, <2>3, <2>4, <3>1 DEF PoliteInv, FinalisedWhole
    <2>5. ValidIsWhole'
      <3>1. CASE state' \in Downloading
        BY <3>1 DEF ValidIsWhole
      <3>2. CASE state' = state /\ state \notin Downloading
        BY <1>1, <2>3, <3>2 DEF UsedDevice, ValidIsWhole
      <3>3. CASE state = "MANIFEST_SYNC" /\ state' = "DFU_IDLE"
        BY <1>1, <2>4, <3>3 DEF ValidIsWhole, LossIsFound
      <3> QED BY <1>1, <3>1, <3>2, <3>3, StatusAnswer DEF SyncStates, Downloading
    <2> QED BY <1>3, <2>2, <2>4, <2>5 DEF UsedDevice, PoliteOrFailed
  <1> QED BY <1>4, <1>5

LEMMA DetachKeepsUsed ==
    ASSUME IInv, UsbInv, UsedDevice, Call("DETACH", 0)
    PROVE  UsedDevice'
  <1>1. deferred' \in Reboots /\ (state = "APP_IDLE" \/ LeaveDfu)
    BY DetachCall DEF IInv, DeviceInv
  <1>2. CASE LeaveDfu
    BY <1>1, <1>2, LeaveAnswer, LeavingKeepsUsed
  <1>3. CASE state = "APP_IDLE"
    <2>1. 0 \in 0 .. T
      BY DeviceNumbers
    <2>2. state' = "APP_DETACH"
      BY <1>3, <2>1, CallIsRequest, DetachAnswer
    <2> QED BY <1>1, <2>2, LeavingKeepsUsed
  <1> QED BY <1>1, <1>2, <1>3

\* Nothing of the device changes that the protocol is about.
LEMMA StillKeepsUsed ==
    ASSUME UsedDevice, deferred' = deferred,
           UNCHANGED <<state, fifo, flash_finalised, sub_state, flash, accepted, programmed>>
    PROVE  UsedDevice'
  <1>1. PoliteInv => PoliteInv'
    BY DEF PoliteInv, SyncOutside, WritesErased, FinalisedWaits, AllProgrammed, FinalisedWhole,
           Ready, Rebooting
  <1> QED BY <1>1 DEF UsedDevice, HeldFits, PoliteOrFailed, ValidIsWhole, Rebooting

LEMMA ResetKeepsUsed ==
    ASSUME IInv, UsbInv, UsedDevice, dfu_process_reset_state
    PROVE  UsedDevice'
  <1>1. deferred = "none"
    BY DEF dfu_process_reset_state, handle_dfu_request
  <1>2. CASE LeaveDfu /\ deferred' = "REBOOT"
    BY <1>2, LeaveAnswer, LeavingKeepsUsed DEF Reboots
  <1>3. CASE ~(LeaveDfu /\ deferred' = "REBOOT")
    BY <1>1, <1>3, ResetActs, StillKeepsUsed DEF IInv, DeviceInv
  <1> QED BY <1>2, <1>3

LEMMA ForceKeepsUsed ==
    ASSUME UsbInv, UsedDevice, dfu_force_dfu_mode_active
    PROVE  UsedDevice'
  <1>1. /\ state = "APP_IDLE" /\ state' = "DFU_IDLE" /\ deferred = "none" /\ deferred' = "none"
        /\ UNCHANGED <<flash_finalised, sub_state, flash>>
    BY ForceActs
  <1>2. PoliteInv /\ ~Rebooting
    BY <1>1 DEF UsedDevice, PoliteOrFailed, Rebooting, Reboots
  <1>3. sub_state' = "SYNC" /\ flash_finalised # 1
    BY <1>1, <1>2 DEF PoliteInv, SyncOutside, FinalisedWaits, Downloading, SyncStates
  <1>4. PoliteInv'
    BY <1>1, <1>2, <1>3, SteadyStep
  <1> QED BY <1>1, <1>2, <1>4
          DEF UsedDevice, HeldFits, PoliteOrFailed, ValidIsWhole, Downloading, SyncStates

LEMMA RunsKeepUsed ==
    ASSUME IInv, UsedDevice, RunsInCall
    PROVE  UsedDevice'
  <1>1. RunDeferred /\ ~Rebooting /\ deferred' = "none"
    BY DEF RunsInCall, RunDeferred, Rebooting
  <1>2. state # "DFU_ERROR" /\ PoliteInv
    BY RunsActs DEF UsedDevice, SyncStates, PoliteOrFailed
  <1>3. PoliteInv'
    BY <1>1, <1>2, PoliteDeferredStep
  <1>4. ValidIsWhole'
    <2>1. CASE state' \in Downloading
      BY <2>1 DEF ValidIsWhole
    <2>2. CASE state' \notin Downloading
      BY <1>1, <2>2, RunsActs, RevertKeepsValid DEF UsedDevice, Downloading, SyncStates
    <2> QED BY <2>1, <2>2
  <1> QED BY <1>1, <1>3, <1>4 DEF UsedDevice, HeldFits, PoliteOrFailed

LEMMA UsedStep ==
    ASSUME IInv, UsbInv, UsedDevice, UsedEndpoint
    PROVE  UsedDevice'
  <1>1. CASE \E r \in ToolRequests : DFUDeviceRequests(r)
    <2>1. \/ \E n \in {0, T} : Call("DNLOAD", n)
          \/ Call("UPLOAD", T) \/ Call("GETSTATUS", 1) \/ Call("DETACH", 0)
          \/ Call("REVERTFACTORY", 0)
      BY <1>1 DEF ToolRequests, Call
    <2> QED BY <2>1, DnloadKeepsUsed, UploadKeepsUsed, StatusKeepsUsed, DetachKeepsUsed,
               RevertKeepsUsed
  <1>2. CASE RunsInCall
    BY <1>2, RunsKeepUsed
  <1>3. CASE dfu_force_dfu_mode_active
    BY <1>3, ForceKeepsUsed
  <1>4. CASE dfu_process_reset_state
    BY <1>4, ResetKeepsUsed
  <1>5. CASE EndpointReboots \/ UsbPowerFails
    BY <1>5, BootKeepsUsed
  <1>6. CASE UNCHANGED vars
    BY <1>6, StillKeepsUsed DEF vars, core, buffer, sub, download
  <1>7. CASE dfu_check_init_state \/ Configures \/ UNCHANGED usbVars
    BY <1>6, <1>7
       DEF dfu_check_init_state, Configures, dfu_usb_set_configured_state,
           dfu_usb_clear_configured_state, usbVars
  <1> QED BY <1>1, <1>2, <1>3, <1>4, <1>5, <1>7 DEF UsedEndpoint, Booting

DeviceOfTool == IInv /\ UsbInv /\ UsedDevice

\* What the device keeps while the tool uses it, however the tool is killed and started
\* again over what it left behind.
THEOREM ToolKeepsDevice == ToolSpec => []DeviceOfTool
  <1>1. ToolInit => UsedDevice
    BY DEF ToolInit, UsbInit, Init, UsedDevice, HeldFits, PoliteOrFailed, PoliteInv, SyncOutside,
           WritesErased, FinalisedWaits, AllProgrammed, FinalisedWhole, ValidIsWhole, PoweredUp
  <1>2. IInv /\ UsbInv /\ UsedDevice /\ [ToolNext]_allVars => UsedDevice'
    BY ToolStepIsUsed, UsedStep
  <1>3. ToolSpec => [](IInv /\ UsbInv)
    BY ToolUsesEndpoint, UsbInductive, UsbImplements, Inductive, PTL DEF ImplementsDevice
  <1> QED BY <1>1, <1>2, <1>3, PTL DEF ToolSpec, DeviceOfTool

-----------------------------------------------------------------------------
(* An upload is of a whole image.                                          *)

LEMMA OnlyUploadDelivers ==
    ASSUME NEW r, r.cmd # "UPLOAD", dfu_request_with_arguments(r)
    PROVE  delivered' \in {delivered, 0}
  <1>1. CASE ReportDescriptor \/ ReportState(r)
    BY <1>1 DEF ReportDescriptor, ReportState
  <1>2. CASE LeaveDfu
    BY <1>2 DEF LeaveDfu, NoTransfer
  <1>3. CASE HandleByState(r)
    <2>1. Stall => delivered' = delivered
      BY DEF Stall, Fail
    <2>2. \A new, st, act : MoveTo(new, st, act) => delivered' = delivered
      BY DEF MoveTo
    <2>3. \A st, act : Stay(st, act) => delivered' = delivered
      BY DEF Stay
    <2>4. CASE state = "APP_IDLE"
      BY <1>3, <2>2, <2>3, <2>4 DEF HandleByState, state_app_idle
    <2>5. CASE state = "APP_DETACH"
      BY <1>3, <2>2, <2>5 DEF HandleByState, state_detach
    <2>6. CASE state = "DFU_IDLE"
      <3>1. action_entry_dnload(r.n) => delivered' = delivered
        BY DEF action_entry_dnload, Fail
      <3>2. action_revert_factory => delivered' = delivered
        BY DEF action_revert_factory, CannotConnect
      <3>3. state_dfu_idle(r) => delivered' \in {delivered, 0}
        BY <1>2, <2>1, <2>3, <3>2 DEF state_dfu_idle
      <3> QED BY <1>3, <2>6, <3>1, <3>3 DEF HandleByState
    <2>7. CASE state = "DNLOAD_SYNC"
      BY <1>3, <2>1, <2>7 DEF HandleByState, state_dnload_sync, BadGetStatus
    <2>8. CASE state = "MANIFEST_SYNC"
      BY <1>3, <2>1, <2>8 DEF HandleByState, state_manifest_sync, BadGetStatus, NoTransfer
    <2>9. CASE state = "DNLOAD_IDLE"
      BY <1>3, <2>1, <2>2, <2>9 DEF HandleByState, state_download_idle, Fail
    <2>10. CASE state = "UPLOAD_IDLE"
      BY <1>3, <2>1, <2>2, <2>10 DEF HandleByState
    <2>11. CASE state \notin {"APP_IDLE", "APP_DETACH", "DFU_IDLE", "DNLOAD_SYNC",
                              "MANIFEST_SYNC", "DNLOAD_IDLE", "UPLOAD_IDLE"}
      BY <1>3, <2>3, <2>11 DEF HandleByState, ClearError, NoTransfer
    <2> QED BY <2>4, <2>5, <2>6, <2>7, <2>8, <2>9, <2>10, <2>11
  <1> QED BY <1>1, <1>2, <1>3 DEF dfu_request_with_arguments

LEMMA CallDelivers ==
    ASSUME NEW r, r.cmd # "UPLOAD", handle_dfu_request(r)
    PROVE  delivered' \in {delivered, 0}
  BY OnlyUploadDelivers DEF handle_dfu_request, Stay

LEMMA DeliversWhole ==
    ASSUME DeviceOfTool, "erase" \notin Faults, 0 \notin TornFound, UsedEndpoint,
           delivered' > delivered
    PROVE  flash'.slot = "whole"
  <1>1. TypeOK /\ UploadAccounted /\ delivered \in Nat
    BY FlashAssumption DEF FlashAssumption, DeviceOfTool, IInv, DeviceInv, TypeOK
  <1>2. delivered' \notin {delivered, 0}
    BY <1>1
  <1>3. CASE Call("UPLOAD", T)
    <2>1. T \in 0 .. T
      BY DeviceNumbers
    <2>2. Request("UPLOAD", T) /\ deferred = "none"
      BY <1>3, <2>1, CallIsRequest
    <2>3. state \in Takes("UPLOAD")
      BY <1>2, <1>3, <2>1, RefusedCall DEF Refused, DeviceOfTool
    <2>4. flash.upgrade_image_valid = 1 => flash.slot = "whole"
      BY <2>2, <2>3
         DEF DeviceOfTool, UsedDevice, ValidIsWhole, Rebooting, Reboots, Takes, Downloading,
             SyncStates
    <2> QED BY <1>1, <2>2, <2>3, <2>4, UploadKeepsWhole
  <1>4. CASE \E r \in ToolRequests : r.cmd # "UPLOAD" /\ DFUDeviceRequests(r)
    BY <1>2, <1>4, CallDelivers DEF DFUDeviceRequests
  <1>5. CASE RunsInCall
    <2>1. deferred # "UPLOAD"
      BY <1>1 DEF TypeOK, deferred_action
    <2> QED BY <1>2, <1>5, <2>1, OnlyUploadDelivers DEF RunsInCall, RunDeferred
  <1>6. CASE dfu_force_dfu_mode_active \/ dfu_process_reset_state
    BY <1>2, <1>6, CallDelivers DEF dfu_force_dfu_mode_active, dfu_process_reset_state
  <1>7. CASE EndpointReboots \/ UsbPowerFails
    BY <1>2, <1>7, BootActs DEF Boot, NoTransfer
  <1>8. CASE dfu_check_init_state \/ Configures \/ UNCHANGED usbVars
    BY <1>2, <1>8
       DEF dfu_check_init_state, Configures, dfu_usb_set_configured_state,
           dfu_usb_clear_configured_state, usbVars, vars
  <1>9. \A r \in ToolRequests : r.cmd = "UPLOAD" /\ DFUDeviceRequests(r) => Call("UPLOAD", T)
    BY DEF ToolRequests, Call
  <1> QED BY <1>3, <1>4, <1>5, <1>6, <1>7, <1>8, <1>9 DEF UsedEndpoint, Booting

\* Where no erase fails and the library takes no torn image for a boot image, what the tool
\* reads back is always of a whole image, whatever was cut off before.
THEOREM WholeUploads ==
    ASSUME "erase" \notin Faults, 0 \notin TornFound
    PROVE  ToolSpec => UploadsWholeImage
  <1>1. DeviceOfTool /\ [ToolNext]_allVars
          => [delivered' > delivered => flash'.slot = "whole"]_vars
    BY ToolStepIsUsed, DeliversWhole
  <1> QED BY <1>1, ToolKeepsDevice, PTL DEF ToolSpec, UploadsWholeImage

-----------------------------------------------------------------------------
(* Where the tool and the device are.                                      *)

BlockLabels == {"block", "poll_block", "end", "poll_end"}

\* What the tool counts: whole blocks, up to the padded size of the image.
ToolCounts ==
    /\ op \in Operations /\ image \in Images \cup {0} /\ sent \in Nat
    /\ pc \in {"detach", "wait"} =>
         sent = 0 /\ received = 0 /\ nextDfuState = "APP_IDLE"
    /\ pc \in {"block", "poll_block"} => sent < image /\ Multiple(sent, T)
    /\ pc \in {"end", "poll_end"} => image > 0 /\ sent = PaddedSize(image)
    /\ pc \in BlockLabels => op = "download"
    /\ pc \in {"upload", "revert"} => op = pc

\* A device whose handle is open has been enumerated and has not restarted.
HandleOpen == devh => bus \in {"reset", "configured"}

\* The tool talks to the device it found at rest, and no reboot is due.
Live == devh /\ fresh /\ deferred \notin Reboots

\* A download that asks for more has taken what the tool has sent.
Taken(n) == state \in {"DNLOAD_IDLE", "DNLOAD_SYNC"} /\ accepted = n

BlockPlace ==
    \/ state \in Refusing
    \/ state = "DFU_IDLE" /\ sent = 0
    \/ Taken(sent)

TakenOrFailed(n) == state = "DFU_ERROR" \/ Taken(n)

\* The answer to the poll that ended the download may have been lost.
EndPlace ==
    \/ TakenOrFailed(sent)
    \/ state = "MANIFEST_SYNC" /\ accepted = sent
    \/ state = "DFU_IDLE" /\ deferred = "none" /\ (LossIsFound => Stored)

InBlocks ==
    /\ Live => /\ pc = "block" => BlockPlace
               /\ pc = "poll_block" => TakenOrFailed(sent + T)
               /\ pc = "end" => TakenOrFailed(sent)
               /\ pc = "poll_end" => EndPlace
    /\ fresh /\ pc \in BlockLabels => nextDfuState # "DFU_IDLE"

\* Nothing but the way out of DFU mode is left to be done, and that keeps the slot.
DownloadEnds ==
    pc = "return" /\ op = "download" /\ image > 0 /\ fresh =>
        deferred \in Reboots \cup {"none"} /\ (LossIsFound => Stored)

UploadPlace ==
    \/ state \in Refusing
    \/ state = "DFU_IDLE" /\ received = 0
    \/ state = "UPLOAD_IDLE" /\ received = delivered

InUpload ==
    Live => /\ pc = "upload" => UploadPlace
            /\ pc = "return" /\ op = "upload" =>
                 deferred = "none" /\ received = SizeRead(flash)

\* A revert that has been answered is done, or, where it is deferred, cannot fail.
RevertIsTold ==
    /\ "erase" \notin Faults
    /\ DFU_CONFIG_USB_INBAND_FUNCTIONS = 1 \/ ("open" \notin Faults /\ "factory" \notin Faults)

RevertEnds ==
    RevertIsTold =>
        (pc = "return" /\ op = "revert" /\ devh =>
            \/ deferred = "REVERT_FACTORY"
            \/ deferred \in Reboots \cup {"none"} /\ flash.slot # "whole")

ToolPlaces == HandleOpen /\ InBlocks /\ DownloadEnds /\ InUpload /\ RevertEnds

-----------------------------------------------------------------------------
(* The tool's count.                                                       *)

LEMMA Padding ==
    ASSUME NEW bytes \in Nat, NEW a \in Nat, Multiple(a, T), a < bytes, bytes <= a + T
    PROVE  PaddedSize(bytes) = a + T
  <1> DEFINE q == (bytes + T - 1) \div T
             p == q * T
  <1>1. T \in Nat \ {0} /\ bytes + T - 1 \in Nat
    BY DeviceNumbers
  <1>2. q \in Nat /\ p <= bytes + T - 1 /\ bytes + T - 1 < p + T
    BY <1>1, DivisionOf
  <1>3. Multiple(p, T) /\ p \in Nat
    <2>1. \A k \in Nat : k * T \in Nat /\ Multiple(k * T, T)
      BY <1>1 DEF Multiple
    <2> QED BY <1>2, <2>1
  <1>4. Multiple(a + T, T) /\ a + T \in Nat
    BY <1>1, MultipleNext
  <1> HIDE DEF q, p
  <1>5. bytes <= p /\ p < bytes + T
    BY <1>1, <1>2, <1>3
  <1>6. a + T <= p
    BY <1>1, <1>3, <1>5, MultipleBelow
  <1>7. ~(a + T < p)
    <2>1. SUFFICES ASSUME a + T < p PROVE FALSE
      OBVIOUS
    <2>2. (a + T) + T <= p
      BY <1>1, <1>3, <1>4, <2>1, MultipleBelow
    <2> QED BY <1>1, <1>3, <1>5, <2>2
  <1>8. p = a + T
    BY <1>1, <1>3, <1>4, <1>6, <1>7
  <1> QED BY <1>8 DEF PaddedSize, p, q

LEMMA ImageSizes ==
    \A bytes \in Images \cup {0} : bytes \in Nat
  BY ToolAssumption DEF ToolAssumption

LEMMA CountsStep ==
    ASSUME ToolCounts, [ToolNext]_allVars
    PROVE  ToolCounts'
  <1>0. /\ T \in Nat \ {0} /\ image \in Nat /\ sent \in Nat /\ Multiple(0, T)
        /\ \A bytes \in Images \cup {0} : bytes \in Nat
    BY DeviceNumbers, ImageSizes, SmallMultiples DEF ToolCounts
  <1>1. CASE Start
    <2>1. /\ op' \in Operations /\ image' \in Images \cup {0} /\ image' \in Nat
          /\ sent' = 0 /\ received' = 0 /\ nextDfuState' = "APP_IDLE"
          /\ op' # "download" => image' = 0
          /\ pc' \in {"detach", Proceeds(op', image')}
      BY <1>0, <1>1 DEF Start
    <2> QED BY <1>0, <2>1 DEF ToolCounts, Proceeds, Operations, BlockLabels
  <1>2. CASE Reopen
    <2>1. /\ UNCHANGED <<op, image, sent, received, nextDfuState>> /\ sent = 0
          /\ pc' \in {"idle", Proceeds(op, image)}
      BY <1>2 DEF Reopen, Returns, progress, ToolCounts
    <2> QED BY <1>0, <2>1 DEF ToolCounts, Proceeds, Operations, BlockLabels
  <1>3. CASE PollBlock
    <2>1. /\ UNCHANGED <<op, image>> /\ op = "download" /\ sent < image /\ Multiple(sent, T)
          /\ IF nextDfuState' = "DNLOAD_IDLE"
             THEN sent' = sent + T /\ pc' = IF sent' < image THEN "block" ELSE "end"
             ELSE sent' = sent /\ pc' \in {"idle", "poll_block"}
      BY <1>3 DEF PollBlock, ToolCounts, BlockLabels, Returns, Continues
    <2>2. CASE nextDfuState' = "DNLOAD_IDLE"
      <3>1. Multiple(sent + T, T) /\ sent + T \in Nat
        BY <1>0, <2>1, MultipleNext
      <3>2. CASE sent + T < image
        BY <2>1, <2>2, <3>1, <3>2 DEF ToolCounts, BlockLabels
      <3>3. CASE ~(sent + T < image)
        <4>1. PaddedSize(image) = sent + T /\ image > 0
          BY <1>0, <2>1, <3>1, <3>3, Padding
        <4>2. PaddedSize(image') = PaddedSize(image) /\ sent' = sent + T /\ pc' = "end"
          BY <2>1, <2>2, <3>3
        <4> QED BY <2>1, <3>1, <4>1, <4>2 DEF ToolCounts, BlockLabels
      <3> QED BY <3>2, <3>3
    <2>3. CASE nextDfuState' # "DNLOAD_IDLE"
      BY <2>1, <2>3 DEF ToolCounts, BlockLabels
    <2> QED BY <2>2, <2>3
  <1>4. CASE UNCHANGED <<op, image, sent>>
    <2>1. PaddedSize(image') = PaddedSize(image)
      BY <1>4
    <2>2. CASE pc' \in {"idle", "return", "report"}
      BY <1>4, <2>2 DEF ToolCounts, BlockLabels
    <2>3. CASE pc' = pc /\ UNCHANGED <<received, nextDfuState>>
      BY <1>4, <2>1, <2>3 DEF ToolCounts, BlockLabels
    <2>4. CASE pc = "detach" /\ pc' = "wait" /\ UNCHANGED <<received, nextDfuState>>
      BY <1>4, <2>4 DEF ToolCounts, BlockLabels
    <2>5. CASE \/ pc = "block" /\ pc' = "poll_block"
               \/ pc \in {"end", "poll_end"} /\ pc' = "poll_end"
               \/ pc = "upload" /\ pc' = "upload"
      BY <1>4, <2>1, <2>5 DEF ToolCounts, BlockLabels
    <2>6. CASE Detach \/ Return \/ Revert \/ ReportStatus \/ Kill
      BY <2>2, <2>4, <2>6
         DEF Detach, Return, Revert, ReportStatus, Kill, Returns, Continues, progress
    <2>7. CASE Block \/ End \/ PollEnd \/ Upload
      BY <2>2, <2>5, <2>7
         DEF Block, End, PollEnd, Upload, Returns, Continues
    <2>8. CASE DeviceStep \/ Disturbance \/ UNCHANGED allVars
      BY <2>3, <2>8 DEF DeviceStep, Disturbance, BusResets, toolVars, progress, allVars
    <2> QED BY <1>1, <1>2, <1>3, <2>6, <2>7, <2>8 DEF ToolNext, ToolStep
  <1>5. Start \/ Reopen \/ PollBlock \/ UNCHANGED <<op, image, sent>>
    BY DEF ToolNext, ToolStep, Detach, Return, Revert, ReportStatus, Kill, Block, End, PollEnd,
           Upload, DeviceStep, Disturbance, BusResets, toolVars, progress, allVars
  <1> QED BY <1>1, <1>2, <1>3, <1>4, <1>5

-----------------------------------------------------------------------------
(* A control transfer of the tool.                                         *)

\* It is a call of an attached device that waits for nothing, or it changes nothing;
\* good is the answer to a call.
LEMMA ClassCases ==
    ASSUME NEW c, NEW n, NEW i, NEW good \in BOOLEAN, Class(c, n, i, good)
    PROVE  \/ Served /\ Call(c, n) /\ (good => resp'.status = "SUCCESS")
           \/ UNCHANGED usbVars /\ ~good
  BY DEF Class, control_transfer, dfu_usb_class_int_requests, Call

LEMMA RevertCases ==
    ASSUME NEW good \in BOOLEAN, xmos_dfu_revertfactory(good)
    PROVE  \/ Served /\ Call("REVERTFACTORY", 0) /\ (good => resp'.status = "SUCCESS")
           \/ UNCHANGED usbVars /\ ~good
  BY DEF xmos_dfu_revertfactory, control_transfer, dfu_usb_vendor_requests, Call

LEMMA StatusCases ==
    ASSUME NEW next, dfu_getStatus(next)
    PROVE  \/ Served /\ Call("GETSTATUS", 1) /\ next \in {state', nextDfuState}
           \/ UNCHANGED usbVars /\ next = nextDfuState
  BY ClassCases DEF dfu_getStatus

\* A run is reported successful when its last transfer, the detach, is answered.
LEMMA SuccessIsReturn ==
    ASSUME [ToolNext]_allVars, result # "success", result' = "success"
    PROVE  pc = "return" /\ Served
  <1>1. CASE Return
    BY <1>1, ClassCases DEF Return, Returns, dfu_detach
  <1>2. CASE ~Return
    BY <1>2
       DEF ToolNext, ToolStep, Start, Detach, Reopen, Revert, ReportStatus, Kill, Block,
           PollBlock, End, PollEnd, Upload, DeviceStep, Disturbance, BusResets, Returns,
           Continues, toolVars, allVars
  <1> QED BY <1>1, <1>2

-----------------------------------------------------------------------------
(* What goes on without the tool.                                          *)

Background ==
    \/ /\ deferred = "none" /\ deferred' \in Reboots
       /\ flash'.slot = flash.slot /\ flash'.size = flash.size
    \/ /\ ~devh' /\ deferred' = "none"
       /\ flash'.slot = flash.slot /\ flash'.size = flash.size
    \/ UNCHANGED <<state, flash, accepted, delivered, deferred>>
    \/ RunsInCall

LEMMA DeviceGoesOn ==
    ASSUME DeviceOfTool, HandleOpen, DeviceStep \/ Disturbance
    PROVE  /\ UNCHANGED <<pc, op, image, sent, nextDfuState, received, fresh>>
           /\ devh' => devh /\ bus' \in {"reset", "configured"}
           /\ Background
  <1>1. TypeOK /\ UsbInv
    BY DEF DeviceOfTool, IInv, DeviceInv
  <1>2. /\ UNCHANGED <<pc, op, image, sent, nextDfuState, received, fresh>>
        /\ devh' = devh \/ devh' = FALSE
    BY DEF DeviceStep, Disturbance, BusResets, toolVars, progress
  <1>3. devh' => devh
    BY <1>2
  <1>4. CASE RunsInCall /\ UNCHANGED devh
    BY <1>2, <1>3, <1>4 DEF RunsInCall, Background, HandleOpen
  <1>5. CASE Booting /\ UNCHANGED devh
    <2>1. bus \in {"boot", "forcing"}
      BY <1>5 DEF Booting, dfu_check_init_state, dfu_force_dfu_mode_active
    <2>2. ~devh'
      BY <1>5, <2>1 DEF HandleOpen
    <2>3. CASE dfu_check_init_state
      BY <1>2, <2>2, <2>3 DEF dfu_check_init_state, vars, core, download, Background
    <2>4. CASE dfu_force_dfu_mode_active
      BY <1>1, <1>2, <2>2, <2>4, ForceActs DEF Background
    <2> QED BY <1>5, <2>3, <2>4 DEF Booting
  <1>6. CASE Configures
    BY <1>2, <1>6
       DEF Configures, dfu_usb_set_configured_state, dfu_usb_clear_configured_state, vars, core,
           download, Background
  <1>7. CASE dfu_process_reset_state
    <2>1. deferred = "none" /\ bus' = "reset"
      BY <1>7 DEF dfu_process_reset_state, handle_dfu_request
    <2> QED BY <1>1, <1>2, <1>7, <2>1, ResetActs DEF Background, Reboots
  <1>8. CASE (EndpointReboots \/ UsbPowerFails) /\ devh' = FALSE
    BY <1>2, <1>8, BootActs DEF Background
  <1> QED BY <1>4, <1>5, <1>6, <1>7, <1>8
          DEF DeviceStep, Disturbance, BusResets, Configures, toolVars

\* What a deferred action makes of the places.
LEMMA RunsKeepPlaces ==
    ASSUME DeviceOfTool, ToolPlaces, RunsInCall,
           UNCHANGED <<pc, op, image, sent, nextDfuState, received, fresh>>,
           devh' => devh /\ bus' \in {"reset", "configured"}
    PROVE  ToolPlaces'
  <1>1. IInv /\ HeldFits /\ TypeOK
    BY DEF DeviceOfTool, UsedDevice, IInv, DeviceInv
  <1>2. deferred \notin Reboots \cup {"none"} /\ deferred' = "none"
    BY DEF RunsInCall, RunDeferred
  <1>3. /\ Live' => Live
        /\ BlockPlace /\ Live => BlockPlace'
        /\ \A n : TakenOrFailed(n) => TakenOrFailed(n)'
        /\ UploadPlace => UploadPlace'
        /\ EndPlace => EndPlace'
    BY <1>1, <1>2, RunsActs
       DEF Live, BlockPlace, Taken, TakenOrFailed, UploadPlace, EndPlace, Refusing, SyncStates
  <1>4. InBlocks'
    BY <1>3 DEF ToolPlaces, InBlocks
  <1>5. InUpload' /\ DownloadEnds'
    BY <1>2, <1>3 DEF ToolPlaces, InUpload, DownloadEnds
  <1>6. RevertEnds'
    <2>1. SUFFICES ASSUME RevertIsTold, deferred = "REVERT_FACTORY"
                   PROVE  flash'.slot # "whole"
      BY <1>2 DEF ToolPlaces, RevertEnds
    <2>2. state = "DFU_IDLE" /\ "open" \notin Faults /\ "factory" \notin Faults
      BY <1>1, <2>1 DEF HeldFits, RevertIsTold
    <2>3. action_revert_factory
      BY <1>1, <2>2, RunsActs DEF SyncStates
    <2> QED BY <1>1, <2>1, <2>2, <2>3, RevertErases DEF RevertIsTold
  <1> QED BY <1>4, <1>5, <1>6 DEF ToolPlaces, HandleOpen

LEMMA BackgroundKeepsPlaces ==
    ASSUME DeviceOfTool, ToolPlaces, DeviceStep \/ Disturbance
    PROVE  ToolPlaces'
  <1>1. /\ UNCHANGED <<pc, op, image, sent, nextDfuState, received, fresh>>
        /\ devh' => devh /\ bus' \in {"reset", "configured"}
        /\ Background
    BY DeviceGoesOn DEF ToolPlaces
  <1>2. CASE RunsInCall
    BY <1>1, <1>2, RunsKeepPlaces
  <1>3. CASE UNCHANGED <<state, flash, accepted, delivered, deferred>>
    BY <1>1, <1>3
       DEF ToolPlaces, HandleOpen, InBlocks, DownloadEnds, InUpload, RevertEnds, Live, BlockPlace,
           Taken, TakenOrFailed, UploadPlace, EndPlace, Stored, PaddedSize, SizeRead
  <1>4. CASE /\ \/ deferred' \in Reboots /\ deferred = "none"
                \/ ~devh' /\ deferred' = "none"
             /\ flash'.slot = flash.slot /\ flash'.size = flash.size
    <2>1. ~Live'
      BY <1>4 DEF Live
    <2>2. Stored => Stored'
      BY <1>1, <1>4 DEF Stored, PaddedSize
    <2> QED BY <1>1, <1>4, <2>1, <2>2
            DEF ToolPlaces, HandleOpen, InBlocks, DownloadEnds, InUpload, RevertEnds, Reboots
  <1> QED BY <1>1, <1>2, <1>3, <1>4 DEF Background

-----------------------------------------------------------------------------
(* What the tool does.                                                     *)

\* A call leaves the bus alone, and the handle is open or closed as it was, or closed.
LEMMA CallKeepsHandle ==
    ASSUME HandleOpen, devh' \in {devh, FALSE}, bus' = bus
    PROVE  HandleOpen'
  BY DEF HandleOpen

LEMMA CallKeepsBus ==
    ASSUME NEW c, NEW n, Call(c, n) \/ UNCHANGED usbVars
    PROVE  bus' = bus
  BY DEF Call, DFUDeviceRequests, usbVars

\* Away from the transfer, and not yet on the way out, nothing is claimed.
LEMMA NothingClaimed ==
    ASSUME HandleOpen', pc' \in {"idle", "detach", "wait", "report"}
    PROVE  ToolPlaces'
  BY DEF ToolPlaces, InBlocks, DownloadEnds, InUpload, RevertEnds, BlockLabels

\* A device just found at rest: the tool has sent nothing.
LEMMA FoundKeepsPlaces ==
    ASSUME Finds, UNCHANGED usbVars, sent' = 0, received' = 0, nextDfuState' = "APP_IDLE",
           pc' \in {"detach", Proceeds(op', image')}, op' \in Operations
    PROVE  ToolPlaces'
  <1>1. /\ state' = state /\ bus' = bus /\ bus = "configured"
        /\ fresh' = (state \in {"APP_IDLE", "DFU_IDLE"})
    BY DEF Finds, usbVars, vars, core
  <1>2. HandleOpen'
    BY <1>1 DEF HandleOpen
  <1>3. Live' => BlockPlace' /\ UploadPlace'
    BY <1>1 DEF Live, BlockPlace, UploadPlace, Refusing
  <1>4. CASE op' = "download"
    <2>1. pc' \in {"detach", "block"} \/ (pc' = "return" /\ image' = 0)
      BY <1>4 DEF Proceeds
    <2> QED BY <1>2, <1>3, <1>4, <2>1, ImageSizes
            DEF ToolPlaces, InBlocks, DownloadEnds, InUpload, RevertEnds, BlockLabels
  <1>5. CASE op' \in {"upload", "revert"}
    <2>1. pc' \in {"detach", op'}
      BY <1>5 DEF Proceeds
    <2> QED BY <1>2, <1>3, <1>5, <2>1
            DEF ToolPlaces, InBlocks, DownloadEnds, InUpload, RevertEnds, BlockLabels
  <1> QED BY <1>4, <1>5 DEF Operations

LEMMA BlockKeepsPlaces ==
    ASSUME DeviceOfTool, ToolCounts, ToolPlaces, Block
    PROVE  ToolPlaces'
  <1>1. PICK good \in BOOLEAN :
          /\ Class("DNLOAD", T, 0, good)
          /\ CASE good                       -> Continues("poll_block")
               [] ~good /\ sent + T <= image -> Continues("report")
               [] OTHER                      -> Returns("failure")
    BY DEF Block, dfu_download
  <1>2. /\ pc = "block" /\ UsbInv /\ UNCHANGED <<sent, nextDfuState, fresh>>
    BY DEF Block, DeviceOfTool, progress
  <1>3. \/ Served /\ Call("DNLOAD", T) /\ (good => resp'.status = "SUCCESS")
        \/ UNCHANGED usbVars /\ ~good
    BY <1>1, ClassCases
  <1>4. HandleOpen'
    BY <1>1, <1>3, CallKeepsHandle, CallKeepsBus DEF Continues, Returns, ToolPlaces
  <1>5. CASE ~good
    BY <1>1, <1>4, <1>5, NothingClaimed DEF Continues, Returns
  <1>6. CASE good
    <2>1. pc' = "poll_block" /\ devh' = devh
      BY <1>1, <1>6 DEF Continues
    <2>2. Live' => TakenOrFailed(sent + T)'
      <3>1. SUFFICES ASSUME Live' PROVE TakenOrFailed(sent + T)'
        OBVIOUS
      <3>2. BlockPlace
        BY <1>2, <1>3, <1>6, <3>1 DEF ToolPlaces, InBlocks, Live, Served, Reboots
      <3>3. /\ state' = "DNLOAD_SYNC"
            /\ \/ state = "DFU_IDLE" /\ accepted' = T
               \/ state = "DNLOAD_IDLE" /\ accepted' = accepted + T
        BY <1>2, <1>3, <1>6, BlockCall DEF Refused
      <3>4. accepted' = sent + T
        BY <3>2, <3>3, DeviceNumbers DEF BlockPlace, Taken, Refusing
      <3> QED BY <1>2, <3>3, <3>4 DEF TakenOrFailed, Taken
    <2> QED BY <1>2, <1>4, <2>1, <2>2
            DEF ToolPlaces, InBlocks, DownloadEnds, InUpload, RevertEnds, BlockLabels
  <1> QED BY <1>5, <1>6

\* A poll leaves what was taken as it is, or reports an error.
LEMMA PollKeepsTaken ==
    ASSUME UsbInv, Call("GETSTATUS", 1) \/ UNCHANGED usbVars, NEW n, TakenOrFailed(n)
    PROVE  TakenOrFailed(n)' /\ state' # "DFU_IDLE"
  <1>1. CASE UNCHANGED usbVars
    BY <1>1 DEF usbVars, vars, core, download, TakenOrFailed, Taken
  <1>2. CASE Call("GETSTATUS", 1)
    BY <1>2, StatusCall, StatusAnswer DEF TakenOrFailed, Taken, SyncStates
  <1> QED BY <1>1, <1>2

LEMMA PollBlockKeepsPlaces ==
    ASSUME DeviceOfTool, ToolCounts, ToolPlaces, PollBlock
    PROVE  ToolPlaces'
  <1>1. /\ pc = "poll_block" /\ UsbInv /\ UNCHANGED <<op, fresh>>
        /\ IF nextDfuState' = "DNLOAD_IDLE"
           THEN sent' = sent + T /\ pc' \in {"block", "end"} /\ devh' = devh
           ELSE sent' = sent /\ \/ pc' = "idle" /\ devh' = FALSE
                                \/ pc' = "poll_block" /\ devh' = devh
    BY DEF PollBlock, DeviceOfTool, Continues, Returns
  <1>2. \/ Served /\ Call("GETSTATUS", 1) /\ nextDfuState' \in {state', nextDfuState}
        \/ UNCHANGED usbVars /\ nextDfuState' = nextDfuState
    BY StatusCases DEF PollBlock
  <1>3. HandleOpen'
    BY <1>1, <1>2, CallKeepsHandle, CallKeepsBus DEF ToolPlaces
  <1>4. Live' => Live
    <2>1. devh' => devh
      BY <1>1
    <2> QED BY <1>1, <1>2, <2>1 DEF Live, Served, Reboots, usbVars, vars
  <1>5. /\ Live' => \/ state' = "DFU_ERROR"
                    \/ state' \in {"DNLOAD_IDLE", "DNLOAD_SYNC"} /\ accepted' = sent + T
        /\ fresh' => nextDfuState' # "DFU_IDLE"
    <2>1. CASE Live
      <3>1. TakenOrFailed(sent + T)
        BY <1>1, <2>1 DEF ToolPlaces, InBlocks
      <3>2. /\ state' # "DFU_IDLE"
            /\ \/ state' = "DFU_ERROR"
               \/ state' \in {"DNLOAD_IDLE", "DNLOAD_SYNC"} /\ accepted' = sent + T
        BY <1>1, <1>2, <3>1, PollKeepsTaken DEF TakenOrFailed, Taken
      <3> QED BY <1>1, <1>2, <3>2 DEF ToolPlaces, InBlocks, BlockLabels
    <2>2. CASE ~Live
      <3>1. fresh => nextDfuState' = nextDfuState
        BY <1>2, <2>2 DEF Live, Served, Reboots
      <3> QED BY <1>1, <1>4, <2>2, <3>1 DEF ToolPlaces, InBlocks, BlockLabels
    <2> QED BY <2>1, <2>2
  <1>6. CASE pc' = "idle"
    BY <1>3, <1>6, NothingClaimed
  <1>7. CASE pc' \in {"block", "end"} /\ sent' = sent + T
    BY <1>3, <1>5, <1>7
       DEF ToolPlaces, InBlocks, DownloadEnds, InUpload, RevertEnds, BlockLabels, BlockPlace,
           TakenOrFailed, Taken, Refusing
  <1>8. CASE pc' = "poll_block" /\ sent' = sent
    BY <1>3, <1>5, <1>8
       DEF ToolPlaces, InBlocks, DownloadEnds, InUpload, RevertEnds, BlockLabels,
           TakenOrFailed, Taken
  <1> QED BY <1>1, <1>6, <1>7, <1>8

LEMMA EndKeepsPlaces ==
    ASSUME DeviceOfTool, ToolPlaces, End
    PROVE  ToolPlaces'
  <1>1. /\ pc = "end" /\ pc' = "poll_end" /\ devh' = devh
        /\ UNCHANGED <<op, image, sent, nextDfuState, fresh>>
        /\ UsbInv /\ TypeOK
    BY DEF End, Continues, progress, DeviceOfTool, IInv, DeviceInv
  <1>2. (Call("DNLOAD", 0) /\ deferred = "none") \/ UNCHANGED usbVars
    BY ClassCases DEF End, dfu_download, Served
  <1>3. HandleOpen'
    BY <1>1, <1>2, CallKeepsHandle, CallKeepsBus DEF ToolPlaces
  <1>4. Live' => Live
    BY <1>1, <1>2 DEF Live, Reboots, usbVars, vars
  <1>5. TakenOrFailed(sent) => EndPlace'
    <2>1. CASE UNCHANGED usbVars
      BY <1>1, <2>1 DEF usbVars, vars, core, download, TakenOrFailed, Taken, EndPlace
    <2>2. CASE Call("DNLOAD", 0)
      BY <1>1, <2>2, EndCall DEF TakenOrFailed, Taken, EndPlace, Refusing
    <2> QED BY <1>2, <2>1, <2>2
  <1> QED BY <1>1, <1>3, <1>4, <1>5
          DEF ToolPlaces, InBlocks, DownloadEnds, InUpload, RevertEnds, BlockLabels

\* The poll after the end: the state machine is in dfuIDLE again only once the image
\* is in the slot.
LEMMA PollKeepsEnd ==
    ASSUME DeviceOfTool, ToolCounts, pc = "poll_end", EndPlace, UNCHANGED <<image, sent>>,
           (Call("GETSTATUS", 1) /\ deferred = "none") \/ UNCHANGED usbVars
    PROVE  EndPlace'
  <1>1. /\ IInv /\ UsbInv /\ UsedDevice
        /\ sent = PaddedSize(image) /\ PaddedSize(image') = PaddedSize(image)
    BY DEF DeviceOfTool, ToolCounts
  <1>2. CASE UNCHANGED usbVars
    BY <1>1, <1>2 DEF usbVars, vars, core, download, TakenOrFailed, Taken, EndPlace, Stored
  <1>3. CASE Call("GETSTATUS", 1) /\ deferred = "none"
    <2>1. CASE TakenOrFailed(sent)
      BY <1>1, <1>3, <2>1, PollKeepsTaken DEF EndPlace, TakenOrFailed, Taken
    <2>2. CASE state = "MANIFEST_SYNC" /\ accepted = sent
      <3>1. /\ flash' = flash /\ deferred' = resp'.deferred
            /\ \/ state' = "MANIFEST_SYNC" /\ accepted' = accepted
               \/ state' = "DFU_IDLE" /\ resp'.deferred = "none"
        BY <1>1, <1>3, <2>2, StatusCall, StatusAnswer DEF SyncStates
      <3>2. CASE state' = "DFU_IDLE" /\ deferred' = "none"
        <4>1. LossIsFound => flash.slot = "whole" /\ flash.size = accepted
          BY <1>1, <1>3, <2>2, <3>2, StatusKeepsUsed
        <4> QED BY <1>1, <2>2, <3>1, <3>2, <4>1 DEF EndPlace, Stored
      <3> QED BY <2>2, <3>1, <3>2 DEF EndPlace
    <2>3. CASE state = "DFU_IDLE" /\ deferred = "none" /\ (LossIsFound => Stored)
      <3>1. state' = state /\ deferred' = "none" /\ flash' = flash
        BY <1>1, <1>3, <2>3, StatusCall DEF SyncStates
      <3> QED BY <1>1, <2>3, <3>1 DEF EndPlace, Stored
    <2> QED BY <2>1, <2>2, <2>3 DEF EndPlace
  <1> QED BY <1>2, <1>3

LEMMA PollEndKeepsPlaces ==
    ASSUME DeviceOfTool, ToolCounts, ToolPlaces, PollEnd
    PROVE  ToolPlaces'
  <1>1. /\ pc = "poll_end" /\ op = "download" /\ UNCHANGED <<op, image, sent, fresh>>
        /\ \/ pc' = "idle" /\ devh' = FALSE
           \/ pc' = "return" /\ devh' = devh /\ nextDfuState' = "DFU_IDLE"
           \/ pc' = "poll_end" /\ devh' = devh /\ nextDfuState' # "DFU_IDLE"
    BY DEF PollEnd, Continues, Returns, ToolCounts, BlockLabels
  <1>2. \/ Served /\ Call("GETSTATUS", 1) /\ nextDfuState' \in {state', nextDfuState}
        \/ UNCHANGED usbVars /\ nextDfuState' = nextDfuState
    BY StatusCases DEF PollEnd
  <1>3. HandleOpen'
    <2>1. devh' \in {devh, FALSE}
      BY <1>1
    <2> QED BY <1>2, <2>1, CallKeepsHandle, CallKeepsBus DEF ToolPlaces
  <1>4. Live => EndPlace'
    BY <1>1, <1>2, PollKeepsEnd DEF ToolPlaces, InBlocks, Served
  <1>5. CASE pc' = "idle"
    BY <1>3, <1>5, NothingClaimed
  <1>6. CASE pc' = "poll_end" /\ devh' = devh /\ nextDfuState' # "DFU_IDLE"
    <2>1. Live' => Live
      BY <1>1, <1>2, <1>6 DEF Live, Served, Reboots, usbVars, vars
    <2> QED BY <1>1, <1>3, <1>4, <1>6, <2>1
            DEF ToolPlaces, InBlocks, DownloadEnds, InUpload, RevertEnds, BlockLabels
  <1>7. CASE pc' = "return" /\ nextDfuState' = "DFU_IDLE"
    <2>1. ASSUME fresh
          PROVE  deferred' \in Reboots \cup {"none"} /\ (LossIsFound => Stored')
      <3>1. nextDfuState # "DFU_IDLE"
        BY <1>1, <2>1 DEF ToolPlaces, InBlocks, BlockLabels
      <3>2. Served /\ state' = "DFU_IDLE"
        BY <1>2, <1>7, <3>1
      <3>3. EndPlace'
        BY <1>4, <2>1, <3>2 DEF Live, Served, Reboots
      <3> QED BY <3>2, <3>3 DEF EndPlace, TakenOrFailed, Taken
    <2> QED BY <1>1, <1>3, <1>7, <2>1
            DEF ToolPlaces, InBlocks, DownloadEnds, InUpload, RevertEnds, BlockLabels
  <1> QED BY <1>1, <1>5, <1>6, <1>7

\* What an answer to UPLOAD adds to the file.
LEMMA FileGrows ==
    ASSUME DeviceOfTool, TypeOK', UploadPlace, Call("UPLOAD", T), resp'.status = "SUCCESS",
           received' = received + numBytes
    PROVE  /\ deferred' = "none"
           /\ numBytes < T => received' = SizeRead(flash')
           /\ ~(numBytes < T) => state' = "UPLOAD_IDLE" /\ received' = delivered'
  <1>1. /\ T \in Nat \ {0} /\ T \in 0 .. T /\ delivered \in Nat /\ delivered' \in Nat
        /\ SizeRead(flash') \in Nat
    BY DeviceNumbers, FlashAssumption
       DEF DeviceOfTool, IInv, DeviceInv, TypeOK, FlashAssumption, SizeRead, flash_session
  <1>2. /\ Request("UPLOAD", T) /\ deferred' = resp'.deferred
        /\ UsbInv /\ TypeOK /\ UploadAccounted
    BY <1>1, CallIsRequest DEF DeviceOfTool, IInv, DeviceInv
  <1>3. \A d, s, t \in Nat :
          /\ d = Least(s, t) /\ d < t => d = s
          /\ (d + t) - d = t /\ ~(t < t) /\ 0 + d = d /\ d + (s - d) = s
    BY DEF Least
  <1>4. CASE state = "DFU_IDLE"
    <2>1. /\ received = 0 /\ numBytes = delivered' /\ received' = delivered'
      BY <1>1, <1>3, <1>4 DEF UploadPlace, Refusing, numBytes
    <2>2. /\ deferred' = "none" /\ state' = "UPLOAD_IDLE"
          /\ delivered' = Least(SizeRead(flash'), T)
      BY <1>2, <1>4, UploadFirst
    <2> QED BY <1>1, <1>3, <2>1, <2>2
  <1>5. CASE state = "UPLOAD_IDLE"
    <2>1. /\ received = delivered /\ numBytes = delivered' - delivered
          /\ received' = delivered + (delivered' - delivered)
      BY <1>5 DEF UploadPlace, Refusing, numBytes
    <2>2. received' = delivered'
      BY <1>1, <1>3, <2>1
    <2>3. /\ deferred' = "none"
          /\ \/ state' = "UPLOAD_IDLE" /\ delivered' = delivered + T
             \/ delivered' - delivered < T /\ delivered' = SizeRead(flash')
      BY <1>2, <1>5, UploadNext
    <2>4. CASE state' = "UPLOAD_IDLE" /\ delivered' = delivered + T
      <3>1. delivered' - delivered = T
        BY <1>1, <1>3, <2>4
      <3> QED BY <1>1, <1>3, <2>1, <2>2, <2>3, <2>4, <3>1
    <2>5. CASE delivered' - delivered < T /\ delivered' = SizeRead(flash')
      BY <2>1, <2>2, <2>3, <2>5
    <2> QED BY <2>3, <2>4, <2>5
  <1>6. CASE state \notin Takes("UPLOAD")
    BY <1>1, <1>2, <1>6, RefusedCall DEF Refused
  <1> QED BY <1>4, <1>5, <1>6 DEF Takes

LEMMA UploadKeepsPlaces ==
    ASSUME DeviceOfTool, TypeOK', ToolCounts, ToolPlaces, Upload
    PROVE  ToolPlaces'
  <1>1. PICK good \in BOOLEAN :
          /\ Class("UPLOAD", T, 0, good)
          /\ received' = IF good THEN received + numBytes ELSE received
          /\ CASE ~good                -> Continues("report")
               [] good /\ numBytes < T -> Continues("return")
               [] OTHER                -> Continues("upload")
    BY DEF Upload, dfu_upload
  <1>2. pc = "upload" /\ op = "upload" /\ op' = op /\ fresh' = fresh
    BY DEF Upload, ToolCounts
  <1>3. \/ Served /\ Call("UPLOAD", T) /\ (good => resp'.status = "SUCCESS")
        \/ UNCHANGED usbVars /\ ~good
    BY <1>1, ClassCases
  <1>4. HandleOpen'
    BY <1>1, <1>3, CallKeepsHandle, CallKeepsBus DEF Continues, ToolPlaces
  <1>5. CASE ~good
    BY <1>1, <1>4, <1>5, NothingClaimed DEF Continues
  <1>6. CASE good
    <2>1. received' = received + numBytes
      BY <1>1, <1>6
    <2>2. \/ numBytes < T /\ pc' = "return"
          \/ ~(numBytes < T) /\ pc' = "upload"
      BY <1>1, <1>6 DEF Continues
    <2>3. ASSUME Live'
          PROVE  /\ deferred' = "none"
                 /\ numBytes < T => received' = SizeRead(flash')
                 /\ ~(numBytes < T) => state' = "UPLOAD_IDLE" /\ received' = delivered'
      <3>1. UploadPlace
        BY <1>2, <1>3, <1>6, <2>3 DEF ToolPlaces, InUpload, Live, Served, Reboots
      <3> QED BY <1>3, <1>6, <2>1, <3>1, FileGrows
    <2>4. InUpload'
      BY <1>2, <2>2, <2>3 DEF InUpload, UploadPlace, SizeRead
    <2> QED BY <1>2, <1>4, <2>2, <2>4
            DEF ToolPlaces, InBlocks, DownloadEnds, RevertEnds, BlockLabels
  <1> QED BY <1>5, <1>6

LEMMA RevertKeepsPlaces ==
    ASSUME DeviceOfTool, ToolCounts, ToolPlaces, Revert
    PROVE  ToolPlaces'
  <1>1. PICK good \in BOOLEAN :
          /\ xmos_dfu_revertfactory(good)
          /\ IF good THEN Continues("return") ELSE Returns("failure")
    BY DEF Revert
  <1>2. op' = "revert" /\ UsbInv /\ TypeOK
    BY DEF Revert, ToolCounts, DeviceOfTool, IInv, DeviceInv
  <1>3. \/ Served /\ Call("REVERTFACTORY", 0) /\ (good => resp'.status = "SUCCESS")
        \/ UNCHANGED usbVars /\ ~good
    BY <1>1, RevertCases
  <1>4. HandleOpen'
    BY <1>1, <1>3, CallKeepsHandle, CallKeepsBus DEF Continues, Returns, ToolPlaces
  <1>5. CASE ~good
    BY <1>1, <1>4, <1>5, NothingClaimed DEF Returns
  <1>6. CASE good
    <2>1. \/ deferred' = "REVERT_FACTORY"
          \/ action_revert_factory /\ deferred' = "none" /\ resp'.status = "SUCCESS"
      BY <1>2, <1>3, <1>6, RevertCall DEF Refused
    <2>2. RevertIsTold =>
            \/ deferred' = "REVERT_FACTORY"
            \/ deferred' \in Reboots \cup {"none"} /\ flash'.slot # "whole"
      BY <1>2, <2>1, RevertErases DEF RevertIsTold
    <2>3. pc' = "return"
      BY <1>1, <1>6 DEF Continues
    <2> QED BY <1>2, <1>4, <2>2, <2>3
            DEF ToolPlaces, InBlocks, DownloadEnds, InUpload, RevertEnds, BlockLabels
  <1> QED BY <1>5, <1>6

LEMMA PlacesStep ==
    ASSUME DeviceOfTool, TypeOK', ToolCounts, ToolPlaces, [ToolNext]_allVars
    PROVE  ToolPlaces'
  <1>1. CASE Start
    BY <1>1, FoundKeepsPlaces DEF Start
  <1>2. CASE Reopen
    <2>1. /\ UNCHANGED <<usbVars, op, image, sent, nextDfuState, received>>
          /\ sent = 0 /\ received = 0 /\ nextDfuState = "APP_IDLE" /\ op \in Operations
          /\ \/ Finds /\ pc' = Proceeds(op, image)
             \/ pc' = "idle" /\ devh' = FALSE
      BY <1>2 DEF Reopen, Returns, progress, ToolCounts
    <2>2. CASE pc' = "idle" /\ devh' = FALSE
      BY <2>2, NothingClaimed DEF HandleOpen
    <2> QED BY <2>1, <2>2, FoundKeepsPlaces
  <1>3. CASE Detach \/ Return \/ ReportStatus \/ Kill
    <2>1. pc' \in {"idle", "wait"} /\ devh' = FALSE
      BY <1>3 DEF Detach, Return, ReportStatus, Kill, Returns
    <2> QED BY <2>1, NothingClaimed DEF HandleOpen
  <1>4. CASE DeviceStep \/ Disturbance
    BY <1>4, BackgroundKeepsPlaces
  <1>5. CASE UNCHANGED allVars
    BY <1>5
       DEF allVars, usbVars, vars, core, download, toolVars, progress, ToolPlaces, HandleOpen,
           InBlocks, DownloadEnds, InUpload, RevertEnds, Live, BlockPlace, Taken, TakenOrFailed,
           UploadPlace, EndPlace, Stored, PaddedSize, SizeRead
  <1> QED BY <1>1, <1>2, <1>3, <1>4, <1>5, BlockKeepsPlaces, PollBlockKeepsPlaces, EndKeepsPlaces,
             PollEndKeepsPlaces, UploadKeepsPlaces, RevertKeepsPlaces
          DEF ToolNext, ToolStep

LEMMA PlacesKept == ToolSpec => [](DeviceOfTool /\ ToolCounts /\ ToolPlaces)
  <1>1. ToolInit => ToolCounts /\ ToolPlaces
    BY DEF ToolInit, ToolCounts, Operations, BlockLabels, ToolPlaces, HandleOpen, InBlocks,
           DownloadEnds, InUpload, RevertEnds
  <1>2. DeviceOfTool /\ DeviceOfTool' /\ ToolCounts /\ ToolPlaces /\ [ToolNext]_allVars
          => ToolCounts' /\ ToolPlaces'
    <2>1. SUFFICES ASSUME DeviceOfTool, DeviceOfTool', ToolCounts, ToolPlaces,
                          [ToolNext]_allVars
                   PROVE  ToolCounts' /\ ToolPlaces'
      OBVIOUS
    <2>2. TypeOK'
      BY <2>1 DEF DeviceOfTool, IInv, DeviceInv
    <2> QED BY <2>1, <2>2, CountsStep, PlacesStep
  <1> QED BY <1>1, <1>2, ToolKeepsDevice, PTL DEF ToolSpec

\* Whatever was cut off or killed before, a download that is reported successful is
\* stored: for every image and transfer size, where no write fails or the library takes
\* no torn image for a boot image.
THEOREM SuccessIsWritten ==
    ASSUME LossIsFound
    PROVE  ToolSpec => SuccessMeansStored
  <1>1. DeviceOfTool /\ ToolCounts /\ ToolPlaces /\ [ToolNext]_allVars
          => [Succeeds("download") /\ image > 0 /\ fresh => Stored]_allVars
    BY SuccessIsReturn DEF Succeeds, ToolPlaces, DownloadEnds
  <1> QED BY <1>1, PlacesKept, PTL DEF ToolSpec, SuccessMeansStored

\* A file reported complete is, with every fault of the flash, whatever cut it short.
THEOREM CompleteFile == ToolSpec => FileIsComplete
  <1>1. DeviceOfTool /\ ToolCounts /\ ToolPlaces /\ [ToolNext]_allVars
          => [Succeeds("upload") /\ fresh
                => received = IF flash.upgrade_image_valid = 1 THEN flash.size ELSE 0]_allVars
    <2>1. SUFFICES ASSUME ToolPlaces, pc = "return", Served, op = "upload", fresh
                   PROVE  received = IF flash.upgrade_image_valid = 1 THEN flash.size ELSE 0
      BY SuccessIsReturn DEF Succeeds
    <2>2. Live
      BY <2>1 DEF Live, Served, Reboots
    <2> QED BY <2>1, <2>2 DEF ToolPlaces, InUpload, SizeRead
  <1> QED BY <1>1, PlacesKept, PTL DEF ToolSpec, FileIsComplete

\* A revert reported done is done where no erase fails, and where it is made after the
\* answer the flash can be opened too.
THEOREM RevertIsDone ==
    ASSUME RevertIsTold
    PROVE  ToolSpec => RevertMeansErased
  <1>1. DeviceOfTool /\ ToolCounts /\ ToolPlaces /\ [ToolNext]_allVars
          => [Succeeds("revert") => flash.slot # "whole"]_allVars
    BY SuccessIsReturn DEF Succeeds, Served, ToolPlaces, RevertEnds
  <1> QED BY <1>1, PlacesKept, PTL DEF ToolSpec, RevertMeansErased
=============================================================================
