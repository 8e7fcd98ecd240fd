------------------------------- MODULE DfuUsb -------------------------------
(***************************************************************************)
(* The USB server, usb/dfu_usb_server.xc, and the endpoint 0 code that     *)
(* calls it, usb/dfu_usb_requests.xc, around the device of DfuDevice: a    *)
(* flag in RAM carries the device over a reboot into DFU mode, and bus     *)
(* resets reach the state machine.                                         *)
(*                                                                         *)
(* A call of the server is one step, or two when it defers a flash action, *)
(* which the server runs before it returns: deferred holds that action     *)
(* between the two, or the reboot that endpoint 0 waits 500 ms to make.    *)
(* Nothing but a power failure comes between.  The order in which the      *)
(* application and the USB library (both external) call endpoint 0 is the  *)
(* guard on bus.                                                           *)
(***************************************************************************)
EXTENDS DfuDevice

CONSTANT usb_dfu_interface_num   \* DFU interface of the application

ASSUME UsbAssumption ==
    /\ DFU_USB_EN = 1
    /\ usb_dfu_interface_num \in Nat

VARIABLES
    flag,          \* the word at FLAG_ADDRESS is _BOOT_DFU_MODE_FLAG
    mode_active,   \* DFU_mode_active
    bus            \* how far the device has got since it booted

usbVars == <<vars, flag, mode_active, bus>>

\* boot: dfu_check_init_state is next, forcing: dfu_force_dfu_mode_active is,
\* off: no bus reset yet, reset: addressed at most, configured: enumerated.
BusStates == {"boot", "forcing", "off", "reset", "configured"}

CInt(b) == IF b THEN 1 ELSE 0

-----------------------------------------------------------------------------
(* dfu_usb_server.xc.                                                      *)

\* A block larger than the transfer size is refused before the state machine
\* sees it.  The length of a read is checked by nothing.  A longer read that the fifo
\* cannot serve does what LongRead does, whatever its length; one it can serve
\* overruns data_local (dfu_usb_server.xc:25-30), which is undefined: what comes of
\* that is no step of this module.
TooLong  == [cmd |-> "DNLOAD", n |-> T + 1]
LongRead == [cmd |-> "UPLOAD", n |-> P + 1]

\* Nothing looks at the number of a request before the state machine does
\* (dfu_usb_requests.xc:178-185).  A host may send the bus reset with a value,
\* which is how endpoint 0 enters DFU mode, and the numbers of the deferred
\* actions.  No handler knows those of the two reboots: they stand for every
\* number of which this is so.
EntryRequest == [cmd |-> "BUS_RESET", n |-> 1]

RawNumbers     == deferred_action \ {"none"}
UnknownNumbers == {"REBOOT", "REBOOT_TO_DFU"}
RawActions     == [cmd : RawNumbers \ UnknownNumbers, n : {0}]

\* Everything a USB host may send.
UsbRequests == Requests \cup [cmd : RawNumbers, n : {0}] \cup {TooLong, LongRead}

\* An action other than a reboot is run before the call returns.
handle_dfu_request(r) ==
    /\ deferred = "none"
    /\ IF r = TooLong THEN Stay("BAD_PARAM", "none") ELSE dfu_request_with_arguments(r)
    /\ deferred' = resp'.deferred

\* Mutant: the deferred action is not taken off the response.
RunsAgain ==
    /\ deferred \notin Reboots \cup {"none"}
    /\ dfu_request_with_arguments([cmd |-> deferred, n |-> 0])
    /\ UNCHANGED <<deferred, flag, mode_active, bus>>

RunsInCall == RunDeferred /\ UNCHANGED <<flag, mode_active, bus>>

-----------------------------------------------------------------------------
(* dfu_usb_requests.xc.                                                    *)

dfu_check_init_state ==
    /\ bus = "boot"
    /\ mode_active' = CInt(flag)
    /\ bus' = IF flag THEN "forcing" ELSE "off"
    /\ UNCHANGED <<vars, flag>>

dfu_force_dfu_mode_active ==
    /\ bus = "forcing"
    /\ handle_dfu_request([cmd |-> "BUS_RESET", n |-> 1])
    /\ bus' = "off"
    /\ UNCHANGED <<flag, mode_active>>

\* Mutant: every bus reset tells the state machine to be in DFU mode.
ResetIntoDfu ==
    /\ bus \in {"off", "reset", "configured"}
    /\ handle_dfu_request([cmd |-> "BUS_RESET", n |-> 1])
    /\ mode_active' = CInt(flag)
    /\ bus' = "reset"
    /\ UNCHANGED flag

\* Mutant: the flag lasts for one bus reset.
ResetOnce ==
    /\ bus \in {"off", "reset", "configured"}
    /\ handle_dfu_request([cmd |-> "BUS_RESET", n |-> CInt(flag)])
    /\ mode_active' = CInt(flag)
    /\ bus' = "reset"
    /\ flag' = FALSE

\* The flag, and nothing the host sends, tells the state machine what the reset
\* is for.
dfu_process_reset_state ==
    /\ bus \in {"off", "reset", "configured"}
    /\ handle_dfu_request([cmd |-> "BUS_RESET", n |-> CInt(flag)])
    /\ mode_active' = CInt(flag)
    /\ bus' = "reset"
    /\ UNCHANGED flag

\* Mutant: the flag is set for the way out of DFU mode too.
FlagForEveryReboot(r) ==
    /\ bus = "configured"
    /\ handle_dfu_request(r)
    /\ flag' = (resp'.deferred \in {"REBOOT", "REBOOT_TO_DFU"})
    /\ UNCHANGED <<mode_active, bus>>

\* Every request sets or clears the flag.  A reboot is made after the answer.
DFUDeviceRequests(r) ==
    /\ bus = "configured"
    /\ handle_dfu_request(r)
    /\ flag' = (resp'.deferred = "REBOOT_TO_DFU")
    /\ UNCHANGED <<mode_active, bus>>

\* What the host finds in the configuration descriptor: that of DFU mode, or the
\* application's own (external).
DFUcfgDesc == [bInterfaceNumber |-> 0, bInterfaceProtocol |-> "DFU"]

AppDescriptor ==
    [bInterfaceNumber |-> usb_dfu_interface_num, bInterfaceProtocol |-> "RUNTIME"]

ConfigDescriptor == IF mode_active = 1 THEN DFUcfgDesc ELSE AppDescriptor

DfuInterface == ConfigDescriptor.bInterfaceNumber

dfu_usb_class_int_requests(r) == DFUDeviceRequests(r)

\* Of the vendor requests only the revert is one of DFU, and only on its interface.
dfu_usb_vendor_requests(interface_num) ==
    /\ interface_num = DfuInterface
    /\ DFUDeviceRequests([cmd |-> "REVERTFACTORY", n |-> 0])

\* Mutant: the flag outlives the enumeration.
ConfiguredFlagKept ==
    /\ bus \in {"reset", "configured"} /\ deferred = "none"
    /\ bus' = "configured"
    /\ UNCHANGED <<vars, flag, mode_active>>

dfu_usb_set_configured_state ==
    /\ bus \in {"reset", "configured"} /\ deferred = "none"
    /\ flag' = FALSE
    /\ bus' = "configured"
    /\ UNCHANGED <<vars, mode_active>>

dfu_usb_clear_configured_state ==
    /\ bus = "configured" /\ deferred = "none"
    /\ bus' = "reset"
    /\ UNCHANGED <<vars, flag, mode_active>>

\* The RAM word survives the reboot that endpoint 0 makes, the statics do not.
EndpointReboots ==
    /\ dfu_reboot
    /\ mode_active' = 0 /\ bus' = "boot"
    /\ UNCHANGED flag

UsbPowerFails ==
    /\ PowerCycle
    /\ flag' = FALSE /\ mode_active' = 0 /\ bus' = "boot"

-----------------------------------------------------------------------------
UsbInit == Init /\ flag = FALSE /\ mode_active = 0 /\ bus = "boot"

Booting == dfu_check_init_state \/ dfu_force_dfu_mode_active

\* Endpoint 0 with a host that sends class requests out of Sent.
EndpointNext(Sent) ==
    \/ \E r \in Sent : dfu_usb_class_int_requests(r)
    \/ \E i \in {0, usb_dfu_interface_num} : dfu_usb_vendor_requests(i)
    \/ RunsInCall
    \/ Booting
    \/ dfu_process_reset_state
    \/ dfu_usb_set_configured_state \/ dfu_usb_clear_configured_state
    \/ EndpointReboots
    \/ UsbPowerFails

\* Any host, one that sends no bus reset with a value, and one that sends no
\* number of a deferred action.  A raw number may program a padded page in the
\* middle of an image, which the slot of DfuFlash does not tell apart: what the
\* slot holds is not spoken of under UsbSpec and NoEntrySpec.
UsbSpec      == UsbInit /\ [][EndpointNext(UsbRequests)]_usbVars
NoEntrySpec  == UsbInit /\ [][EndpointNext(UsbRequests \ {EntryRequest})]_usbVars
NoActionSpec == UsbInit /\ [][EndpointNext(UsbRequests \ RawActions)]_usbVars

-----------------------------------------------------------------------------
(* Properties.                                                             *)

\* The reboot endpoint 0 is waiting to make ends where the answer said: the flag
\* is set for the way into DFU mode and clear for the way out, whatever requests
\* and bus resets came before (dfu_usb_requests.xc:187-193, :128-139).
FlagTellsReboot ==
    /\ deferred = "REBOOT_TO_DFU" => flag
    /\ deferred = "REBOOT" => ~flag

\* From the first bus reset on, and unless a reboot is due, the mode endpoint 0
\* answers the host with (descriptors, interface number) is the one the state
\* machine on the other tile is in.  True of a host that sends no bus reset with
\* a value; of any host it is what dfu_usb_requests.h:22-29 says, and not so.
ModeAgrees ==
    bus \in {"reset", "configured"} /\ deferred \notin Reboots
        => (mode_active = 1 <=> state \notin AppStates)

\* Once enumerated, the next bus reset takes the device out of DFU mode; until
\* then resets do not (EntersDfu of Xmosdfu).
ResetLeavesDfu ==
    [][bus = "configured" /\ dfu_process_reset_state => state' \in AppStates]_usbVars

\* Every step of endpoint 0 is one that the free server of DfuDevice may take.  A
\* raw number runs a flash action that was never deferred, and is none of them.
ImplementsDevice == Spec

\* The inductive invariants the proofs rest on.  Of any host: what the boot has
\* reached, and that a set flag is either on its way through a reboot or has put
\* the device in dfuIDLE.  Of one that sends no bus reset with a value: the mode
\* too, from the end of the boot.
EndpointInv ==
    /\ state \in dfu_state /\ deferred \in deferred_action
    /\ mode_active \in {0, 1} /\ flag \in BOOLEAN /\ bus \in BusStates
    /\ bus \in {"boot", "forcing"} => state = "APP_IDLE" /\ deferred = "none"
    /\ bus = "forcing" => flag /\ mode_active = 1
    /\ flag => \/ bus \in {"boot", "forcing"}
               \/ deferred = "REBOOT_TO_DFU"
               \/ bus # "configured" /\ state = "DFU_IDLE" /\ deferred = "none"
    /\ state = "APP_DETACH" => deferred = "REBOOT_TO_DFU"
    /\ FlagTellsReboot

ModeKnown ==
    bus \notin {"boot", "forcing"} /\ deferred \notin Reboots
        => (mode_active = 1 <=> state \notin AppStates)

UsbInv == EndpointInv /\ ModeKnown
=============================================================================
