------------------------------ MODULE Xmosdfu ------------------------------
(***************************************************************************)
(* The USB host tool, host/xmosdfu, with the device behind endpoint 0      *)
(* (DfuUsb) and libusb between them.  The tool is run again and again, one *)
(* operation a run; it may be killed, a control transfer may fail on the   *)
(* way there or back, the device may lose power, be reset or deconfigured. *)
(*                                                                         *)
(* A step of the tool is one control transfer, made at pc.  An image is    *)
(* its size; the file read or written does not fail.                       *)
(***************************************************************************)
EXTENDS DfuUsb

CONSTANT Images   \* sizes of the images that may be downloaded

\* The tool's block_size is 64 whatever wTransferSize says; taken as the device's,
\* whose default is 64 too.  The last block is padded to it.
PaddedSize(bytes) == ((bytes + T - 1) \div T) * T

ASSUME ToolAssumption ==
    \A bytes \in Images : bytes \in Nat /\ PaddedSize(bytes) <= MaxImage

VARIABLES
    pc,
    op,              \* download, upload or revert
    devh,            \* the handle is open, on a device that has stayed attached
    XMOS_DFU_IF,     \* interface the device was found with
    image, sent,     \* download: bytes of the image, and bytes of blocks accepted
    nextDfuState,    \* download: what GETSTATUS last reported
    received,        \* upload: bytes in the file
    result,          \* of the last run
    fresh,           \* history: the device was found with no transfer under way
    lost             \* history: something but the flash disturbed this run

progress == <<sent, nextDfuState, received>>
toolVars == <<pc, op, devh, XMOS_DFU_IF, image, progress, result, fresh,
              lost>>
allVars  == <<usbVars, toolVars>>

Operations == {"download", "upload", "revert"}

Labels == {"idle", "detach", "wait", "block", "poll_block", "end", "poll_end",
           "upload", "report", "revert", "return"}

-----------------------------------------------------------------------------
(* libusb (external): a control transfer.                                  *)

\* The device is told apart from one that went and came back: the handle of the
\* first stays dead.
Gone == ~devh \/ deferred \in Reboots

Served == devh /\ bus = "configured" /\ deferred = "none"

\* A transfer of Request to an interface, good when the host gets its answer.  The
\* application stalls what is not for an interface of its own; a device that is
\* not configured any more is answered for by what took it there (lost).
control_transfer(Request, interface, good) ==
    \/ /\ Served /\ interface = DfuInterface
       /\ Request
       /\ good = (resp'.status = "SUCCESS")
       /\ UNCHANGED lost
    \/ /\ Gone \/ (Served /\ interface # DfuInterface)
       /\ good = FALSE
       /\ UNCHANGED <<usbVars, lost>>
    \/ /\ Served /\ interface = DfuInterface
       /\ Request \/ UNCHANGED usbVars
       /\ good = FALSE /\ lost' = TRUE

Class(cmd, n, interface, good) ==
    control_transfer(dfu_usb_class_int_requests([cmd |-> cmd, n |-> n]), interface, good)

-----------------------------------------------------------------------------
(* xmosdfu.cpp: the requests.  All but the detach go to interface 0, that   *)
(* of a device in DFU mode.                                                *)

dfu_detach(good) == Class("DETACH", 0, XMOS_DFU_IF, good)

\* Mutant: a status that could not be read counts as the state the tool is after.
dfu_getStatus_assumed(next) ==
    \/ Class("GETSTATUS", 1, 0, TRUE) /\ next = state'
    \/ Class("GETSTATUS", 1, 0, FALSE)
       /\ next = IF pc = "poll_end" THEN "DFU_IDLE" ELSE nextDfuState

\* nextDfuState is written only when the answer is complete.
dfu_getStatus(next) ==
    \/ Class("GETSTATUS", 1, 0, TRUE) /\ next = state'
    \/ Class("GETSTATUS", 1, 0, FALSE) /\ next = nextDfuState

dfu_download(size, good) == Class("DNLOAD", size, 0, good)

dfu_upload(good) == Class("UPLOAD", T, 0, good)

\* Mutant: the answer is not looked at.
xmos_dfu_revert_unchecked(good) ==
    \E answer \in BOOLEAN :
      /\ control_transfer(dfu_usb_vendor_requests(0), 0, answer)
      /\ good = TRUE

xmos_dfu_revertfactory(good) == control_transfer(dfu_usb_vendor_requests(0), 0, good)

-----------------------------------------------------------------------------
(* main.                                                                   *)

Returns(r) == pc' = "idle" /\ result' = r /\ devh' = FALSE

Continues(label) == pc' = label /\ UNCHANGED <<result, devh>>

Proceeds(what, bytes) ==
    CASE what = "download" -> IF bytes = 0 THEN "return" ELSE "block"
      [] OTHER             -> what

\* find_xmos_device: the interface is that of the mode the device is in, whose
\* state is not asked for.
Finds ==
    /\ bus = "configured"
    /\ devh' = TRUE /\ XMOS_DFU_IF' = ConfigDescriptor.bInterfaceNumber
    /\ fresh' = (state \in {"APP_IDLE", "DFU_IDLE"})

\* A new run.  A device found in DFU mode is not detached.
Start ==
    /\ pc = "idle"
    /\ op' \in Operations
    /\ image' \in IF op' = "download" THEN Images ELSE {0}
    /\ Finds
    /\ pc' = IF ConfigDescriptor.bInterfaceProtocol = "RUNTIME"
             THEN "detach" ELSE Proceeds(op', image')
    /\ sent' = 0 /\ received' = 0 /\ nextDfuState' = "APP_IDLE"
    /\ result' = "none" /\ lost' = FALSE
    /\ UNCHANGED usbVars

Detach ==
    /\ pc = "detach"
    /\ \E good \in BOOLEAN :
         /\ dfu_detach(good)
         /\ IF good THEN pc' = "wait" /\ devh' = FALSE /\ UNCHANGED result
                    ELSE Returns("failure")
    /\ UNCHANGED <<op, image, XMOS_DFU_IF, fresh, progress>>

\* Twenty seconds are enough for a device to restart and enumerate, and the mode
\* of what is then found is not looked at.  A device that is not back leaves devh
\* with the handle that was closed: whatever comes of it fails.
Reopen ==
    /\ pc = "wait"
    /\ \/ /\ Finds /\ deferred \notin Reboots
          /\ pc' = Proceeds(op, image) /\ UNCHANGED <<result, lost>>
       \/ /\ Returns("failure") /\ lost' = TRUE
          /\ UNCHANGED <<XMOS_DFU_IF, fresh>>
    /\ UNCHANGED <<usbVars, op, image, progress>>

\* Mutant: the device is left where it is.
ReturnAtOnce ==
    /\ pc = "return"
    /\ Returns("success")
    /\ UNCHANGED <<usbVars, lost, op, image, XMOS_DFU_IF, fresh, progress>>

\* Success or not, the tool closes the device.
Return ==
    /\ pc = "return"
    /\ \E good \in BOOLEAN :
         dfu_detach(good) /\ Returns(IF good THEN "success" ELSE "failure")
    /\ UNCHANGED <<op, image, XMOS_DFU_IF, fresh, progress>>

\* Two seconds are given to a revert; an in-band one is over when it is answered.
Revert ==
    /\ pc = "revert"
    /\ \E good \in BOOLEAN :
         /\ xmos_dfu_revertfactory(good)
         /\ IF good THEN Continues("return") ELSE Returns("failure")
    /\ UNCHANGED <<op, image, XMOS_DFU_IF, fresh, progress>>

-----------------------------------------------------------------------------
(* write_dfu_image.                                                        *)

\* A whole block that fails is followed by one more GETSTATUS, a padded one is
\* not.
Block ==
    /\ pc = "block"
    /\ \E good \in BOOLEAN :
         /\ dfu_download(T, good)
         /\ CASE good                       -> Continues("poll_block")
              [] ~good /\ sent + T <= image -> Continues("report")
              [] OTHER                      -> Returns("failure")
    /\ UNCHANGED <<op, image, XMOS_DFU_IF, fresh, progress>>

\* Until the state is dfuDNLOAD_IDLE, with no limit.
PollBlock ==
    /\ pc = "poll_block"
    /\ dfu_getStatus(nextDfuState')
    /\ sent' = IF nextDfuState' = "DNLOAD_IDLE" THEN sent + T ELSE sent
    /\ CASE nextDfuState' = "DFU_ERROR"   -> Returns("failure")
         [] nextDfuState' = "DNLOAD_IDLE" ->
              Continues(IF sent' < image THEN "block" ELSE "end")
         [] OTHER -> Continues("poll_block")
    /\ UNCHANGED <<op, image, XMOS_DFU_IF, fresh, received>>

\* The result of the transfer is not looked at.
End ==
    /\ pc = "end"
    /\ \E good \in BOOLEAN : dfu_download(0, good)
    /\ Continues("poll_end")
    /\ UNCHANGED <<op, image, XMOS_DFU_IF, fresh, progress>>

\* Mutant: an error is waited out.
PollEndOnly ==
    /\ pc = "poll_end"
    /\ dfu_getStatus(nextDfuState')
    /\ IF nextDfuState' = "DFU_IDLE" THEN Continues("return") ELSE Continues("poll_end")
    /\ UNCHANGED <<op, image, XMOS_DFU_IF, fresh, sent, received>>

PollEnd ==
    /\ pc = "poll_end"
    /\ dfu_getStatus(nextDfuState')
    /\ CASE nextDfuState' = "DFU_ERROR" -> Returns("failure")
         [] nextDfuState' = "DFU_IDLE"  -> Continues("return")
         [] OTHER -> Continues("poll_end")
    /\ UNCHANGED <<op, image, XMOS_DFU_IF, fresh, sent, received>>

\* The status is read for the message only.
ReportStatus ==
    /\ pc = "report"
    /\ \E next \in dfu_state : dfu_getStatus(next)
    /\ Returns("failure")
    /\ UNCHANGED <<op, image, XMOS_DFU_IF, fresh, progress>>

-----------------------------------------------------------------------------
(* read_dfu_image.                                                         *)

\* What the answer to UPLOAD carries.
numBytes == IF state = "DFU_IDLE" THEN delivered' ELSE delivered' - delivered

\* Mutant: off by one.
UploadFullIsShort ==
    /\ pc = "upload"
    /\ \E good \in BOOLEAN :
         /\ dfu_upload(good)
         /\ received' = IF good THEN received + numBytes ELSE received
         /\ CASE ~good                 -> Continues("report")
              [] good /\ numBytes <= T -> Continues("return")
              [] OTHER                 -> Continues("upload")
    /\ UNCHANGED <<op, image, XMOS_DFU_IF, fresh, sent, nextDfuState>>

\* A short answer ends the file.
Upload ==
    /\ pc = "upload"
    /\ \E good \in BOOLEAN :
         /\ dfu_upload(good)
         /\ received' = IF good THEN received + numBytes ELSE received
         /\ CASE ~good                -> Continues("report")
              [] good /\ numBytes < T -> Continues("return")
              [] OTHER                -> Continues("upload")
    /\ UNCHANGED <<op, image, XMOS_DFU_IF, fresh, sent, nextDfuState>>

-----------------------------------------------------------------------------
ToolStep ==
    \/ Detach \/ Reopen \/ Return
    \/ Block \/ PollBlock \/ End \/ PollEnd
    \/ Upload \/ Revert \/ ReportStatus

Kill ==
    /\ pc # "idle"
    /\ Returns("none")
    /\ UNCHANGED <<usbVars, op, image, XMOS_DFU_IF, fresh, progress, lost>>

\* The device goes on by itself, and the host enumerates it.
DeviceStep ==
    \/ /\ RunsInCall \/ Booting \/ (bus = "reset" /\ dfu_usb_set_configured_state)
       /\ UNCHANGED toolVars
    \/ /\ EndpointReboots /\ devh' = FALSE
       /\ UNCHANGED <<pc, op, XMOS_DFU_IF, fresh, image, progress, result, lost>>
    \/ /\ dfu_process_reset_state /\ bus = "off"
       /\ UNCHANGED toolVars

\* The host rides over the bus a second time, resets or deconfigures the device
\* for reasons of its own, or the power fails.
BusResets ==
    /\ bus # "off" /\ dfu_process_reset_state
    /\ lost' = IF bus = "configured" THEN TRUE ELSE lost
    /\ UNCHANGED <<pc, op, devh, XMOS_DFU_IF, fresh, image, progress, result>>

Disturbance ==
    \/ BusResets
    \/ /\ dfu_usb_clear_configured_state /\ lost' = TRUE
       /\ UNCHANGED <<pc, op, devh, XMOS_DFU_IF, fresh, image, progress, result>>
    \/ /\ UsbPowerFails /\ lost' = TRUE /\ devh' = FALSE
       /\ UNCHANGED <<pc, op, XMOS_DFU_IF, fresh, image, progress, result>>

ToolInit ==
    /\ UsbInit
    /\ pc = "idle" /\ op = "upload" /\ devh = FALSE /\ XMOS_DFU_IF = 0
    /\ image = 0 /\ sent = 0 /\ received = 0 /\ nextDfuState = "APP_IDLE"
    /\ result = "none" /\ fresh = FALSE /\ lost = FALSE

ToolNext == Start \/ ToolStep \/ DeviceStep \/ Kill \/ Disturbance

\* The tool goes on to its next transfer, and no fairness makes one fail; the
\* device, its reboots included, and the enumeration go on.
ToolGoesOn == ToolStep /\ lost' = lost

ToolSpec ==
    /\ ToolInit /\ [][ToolNext]_allVars
    /\ WF_allVars(ToolGoesOn) /\ WF_allVars(DeviceStep)

-----------------------------------------------------------------------------
(* Properties.                                                             *)

Succeeds(what) == result # "success" /\ result' = "success" /\ op = what

Stored == flash.slot = "whole" /\ flash.size = PaddedSize(image)

\* A download of an image that is not empty, to a device found with no transfer
\* under way, is reported successful only when the slot holds it, whole and
\* padded to blocks, through kills, power failures, bus resets and transfers that
\* fail either way.
SuccessMeansStored ==
    [][Succeeds("download") /\ image > 0 /\ fresh => Stored]_allVars

\* An upload reported complete, of a device found with no transfer under way, has
\* every byte of the image, or none when the device has no image.
FileIsComplete ==
    [][Succeeds("upload") /\ fresh
         => received = IF flash.upgrade_image_valid = 1 THEN flash.size ELSE 0]_allVars

\* A revert reported done has left nothing to boot, unless the flash fails.
RevertMeansErased == [][Succeeds("revert") => flash.slot # "whole"]_allVars

\* A device told to go to DFU mode gets there and is found there, however often
\* the host resets the bus on the way.
EntersDfu ==
    (deferred = "REBOOT_TO_DFU" /\ ~lost)
        ~> ((bus = "configured" /\ mode_active = 1 /\ state = "DFU_IDLE") \/ lost)

\* A run ends unless it is disturbed: neither polling loop has a limit, and both
\* go on for ever once the device is gone or the last block was lost.  Images
\* appended to what earlier runs left behind stop at the bound of the model.
AtBound == ~fresh /\ accepted + T > MaxImage

RunEnds == (pc # "idle" /\ ~lost) ~> (pc = "idle" \/ lost \/ AtBound)

\* After a successful run the device is back in its application.
ReturnsToApp ==
    (result = "success" /\ ~lost)
        ~> ((bus = "configured" /\ mode_active = 0) \/ pc # "idle" \/ lost)

-----------------------------------------------------------------------------
(* What the usage text says that the code does not do.                     *)

\* xmosdfu.cpp:450, "write an upgrade image": a download reported successful has
\* written the image of this run, whatever the run before it was.
WritesTheImage == [][Succeeds("download") /\ image > 0 => Stored]_allVars
=============================================================================
