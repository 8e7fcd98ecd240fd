------------------------------ MODULE DfuFlash ------------------------------
(***************************************************************************)
(* The flash session of lib_dfu (flash/quad/dfu_flash.c) over the XMOS     *)
(* flash library, which is external and modelled from how the session      *)
(* calls it.                                                               *)
(*                                                                         *)
(* The session and the part of the flash it drives are one record.  An     *)
(* operation is an operator from such a record to the SET of its possible  *)
(* results [ret, flash]: the value it returns and the record it leaves.    *)
(* A failure of the library is one more element of that set, present when  *)
(* CONSTANT Faults names it, so that a run chooses what can go wrong.      *)
(***************************************************************************)
EXTENDS Naturals

CONSTANTS
    Sectors,    \* calls of the erase needed for FLASH_MAX_UPGRADE_SIZE bytes
    MaxImage,   \* bound: bytes of the largest image that fits the slot
    Faults,     \* the library failures that may happen
    TornFound   \* what looking for a boot image may find in a torn slot

FaultKinds ==
    {"open", "factory", "erase", "write", "finalise", "start_read", "read"}

ASSUME FlashAssumption ==
    /\ Sectors \in Nat \ {0}
    /\ MaxImage \in Nat \ {0}
    /\ Faults \subseteq FaultKinds
    /\ TornFound \subseteq {0, 1}
    /\ TornFound # {}

flash_status ==
    {"BUSY", "OK", "OPEN_ERROR", "ERASE_ERROR", "GET_FACTORY_IMAGE_FAILED",
     "READ_NO_IMAGE", "READ_ERROR", "WRITE_ERROR"}

\* What the upgrade slot of the flash holds: nothing the boot loader takes for
\* an image, a torn image (partly erased or partly written), or a whole one.
SlotContent == {"none", "torn", "whole"}

\* The flags are C integers, 0 or 1.
flash_session ==
    [device_open         : {0, 1},
     factory_image       : {0, 1},         \* the field has been filled in
     upgrade_image_valid : {0, 1},
     slot                : SlotContent,
     left                : 0 .. Sectors,   \* sectors a started erase has to go
     erased              : {0, 1},         \* erase complete, pages may follow
     size                : 0 .. MaxImage]  \* bytes of the image

FlashResult == [ret : flash_status, flash : flash_session]

Result(r, f) == [ret |-> r, flash |-> f]

Fault(kind, r, f) == IF kind \in Faults THEN {Result(r, f)} ELSE {}

-----------------------------------------------------------------------------
(* External library.                                                       *)

\* fl_getNextBootImage returns 0 when it finds an image: it finds a whole one and
\* never one in an empty slot.
fl_getNextBootImage(f) ==
    CASE f.slot = "whole" -> {0}
      [] f.slot = "none"  -> {1}
      [] OTHER            -> TornFound

\* fl_startImageReplace and fl_startImageAdd erase a sector a call; a call made
\* when no erase is under way starts one.  The slot counts as erased at the end.
StillToErase(f) == IF f.left = 0 THEN Sectors ELSE f.left

Erasing(f, n) ==
    [f EXCEPT !.left = n, !.erased = 0,
              !.slot = IF f.slot = "none" THEN "none" ELSE "torn"]

Erased(f) == [f EXCEPT !.left = 0, !.erased = 1, !.slot = "none", !.size = 0]

EraseFailed(f) == [f EXCEPT !.left = 0, !.erased = 0]

-----------------------------------------------------------------------------
(* The session.                                                            *)

Open(f) == [f EXCEPT !.device_open = 1, !.factory_image = 1]

\* The session after an image was found.  A torn one may announce any size.
WithImage(f) ==
    { [f EXCEPT !.upgrade_image_valid = 1, !.size = bytes] :
      bytes \in IF f.slot = "whole" THEN {f.size} ELSE 1 .. MaxImage }

\* Mutant: whether an image was found is not looked at.
ConnectedUnchecked(f) == WithImage(Open(f))

\* How opening the ports may fail: the library does not know the device.
flash_enable_ports_fails(f) == Fault("open", "OPEN_ERROR", f)

\* Closing the ports also drops an erase or a write the library had under way.
flash_disable_ports(f) == [f EXCEPT !.left = 0, !.erased = 0]

\* upgrade_image_valid is only ever SET here: when no image is found it stays
\* as it was.
Connected(f) ==
    (IF 0 \in fl_getNextBootImage(f) THEN WithImage(Open(f)) ELSE {})
    \cup (IF 1 \in fl_getNextBootImage(f) THEN {Open(f)} ELSE {})

flash_init(f) ==
    { Result("OK", g) : g \in Connected(f) }
    \cup (IF f.device_open = 1 THEN {} ELSE flash_enable_ports_fails(f))
    \cup Fault("factory", "GET_FACTORY_IMAGE_FAILED",
               [f EXCEPT !.device_open = 1])

flash_deinit(f) ==
    IF f.device_open = 1
    THEN [flash_disable_ports(f) EXCEPT !.device_open = 0]
    ELSE f

flash_is_connected(f) == f.device_open = 1

\* One call.  Replacing an image and adding one are the same to the slot.
flash_erase_sector_async(f) ==
    (IF StillToErase(f) = 1
     THEN {Result("OK", [Erased(f) EXCEPT !.upgrade_image_valid = 0])}
     ELSE {Result("BUSY", Erasing(f, StillToErase(f) - 1))})
    \cup Fault("erase", "ERASE_ERROR", EraseFailed(f))

flash_write_page(f) ==
    IF f.upgrade_image_valid = 1
    THEN {Result("ERASE_ERROR", f)}
    ELSE {Result("OK", [f EXCEPT !.slot = "torn"])}
         \cup Fault("write", "WRITE_ERROR", [f EXCEPT !.slot = "torn"])

\* The slot ends up whole when it had been erased and all bytes of the image were
\* programmed.  The boot image is then looked up, which is all the session learns
\* of what was written.
Closed(f, bytes, all) ==
    IF f.erased = 1 /\ bytes = all
    THEN [f EXCEPT !.erased = 0, !.slot = "whole", !.size = bytes]
    ELSE [f EXCEPT !.erased = 0, !.slot = "torn"]

LookUp(f) ==
    (IF 0 \in fl_getNextBootImage(f)
     THEN { Result("OK", g) : g \in WithImage(f) } ELSE {})
    \cup (IF 1 \in fl_getNextBootImage(f) THEN {Result("OPEN_ERROR", f)} ELSE {})

flash_finalise_write(f, bytes, all) ==
    LookUp(Closed(f, bytes, all))
    \cup Fault("finalise", "WRITE_ERROR", [f EXCEPT !.erased = 0])

flash_start_read(f) ==
    IF f.upgrade_image_valid = 1
    THEN {Result("OK", f)} \cup Fault("start_read", "READ_ERROR", f)
    ELSE {Result("READ_NO_IMAGE", f)}

flash_read_page(f) ==
    IF f.upgrade_image_valid = 1
    THEN {Result("OK", f)} \cup Fault("read", "READ_ERROR", f)
    ELSE {Result("READ_NO_IMAGE", f)}

-----------------------------------------------------------------------------
\* A device that has just been powered up or rebooted: the statics are zero,
\* what the slot holds has survived.
PoweredUp(slot, size) ==
    [device_open |-> 0, factory_image |-> 0, upgrade_image_valid |-> 0,
     slot |-> slot, left |-> 0, erased |-> 0, size |-> size]
=============================================================================
