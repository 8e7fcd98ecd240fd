----------------------------- MODULE DfuDevice -----------------------------
(***************************************************************************)
(* The DFU device: the request state machine of lib_dfu/src/dfu.xc, its    *)
(* flash sub state machine dfu_sub_sm.xc and the flash session of DfuFlash,*)
(* run by a server that is left as free as the two servers of lib_dfu are. *)
(*                                                                         *)
(* A step answers one request, runs the one deferred action the server     *)
(* holds, or restarts the device.  Requests come in any order; the server  *)
(* may lose a deferred action to a later request, never invent one.        *)
(*                                                                         *)
(* Bytes are counted, not stored: fifo is fifo_size(dfu_fifo).             *)
(***************************************************************************)
EXTENDS Integers, DfuFlash

CONSTANTS
    DFU_FLASH_PAGE_SIZE_BYTES,
    DFU_TRANSFER_SIZE_BYTES,
    DFU_USB_EN,                       \* build options of dfu_default_conf.h
    DFU_CONFIG_USB_INBAND_FUNCTIONS

ASSUME DeviceAssumption ==
    /\ DFU_TRANSFER_SIZE_BYTES \in Nat \ {0}
    /\ DFU_FLASH_PAGE_SIZE_BYTES \in Nat
    /\ DFU_TRANSFER_SIZE_BYTES <= DFU_FLASH_PAGE_SIZE_BYTES
    /\ DFU_USB_EN \in {0, 1}
    /\ DFU_CONFIG_USB_INBAND_FUNCTIONS \in {0, 1}

P == DFU_FLASH_PAGE_SIZE_BYTES
T == DFU_TRANSFER_SIZE_BYTES

VARIABLES
    state, status,        \* dfu.xc:20-21
    fifo,                 \* dfu.xc:24, its count
    read_length,          \* dfu.xc:469, bytes of an upload still to be read
    flash_finalised,      \* dfu.xc:379
    sub_state,            \* dfu_sub_sm.xc:18
    poll_timeout,         \* dfu_sub_sm.xc:19
    flash,                \* the flash session and the slot (DfuFlash)
    resp,                 \* the last response, with what GETSTATUS reported
    deferred,             \* the deferred action the server holds
    accepted,             \* history: bytes of this download taken from the host
    programmed,           \* history: of these, programmed into a flash page
    delivered             \* history: bytes of this upload given to the host

core     == <<state, status>>
buffer   == <<fifo, read_length>>
sub      == <<sub_state, poll_timeout>>
download == <<accepted, programmed>>
vars     == <<core, buffer, flash_finalised, sub, flash, resp, deferred,
              download, delivered>>

-----------------------------------------------------------------------------
AppStates  == {"APP_IDLE", "APP_DETACH"}
SyncStates == {"DNLOAD_SYNC", "MANIFEST_SYNC"}
dfu_state  == AppStates \cup SyncStates \cup
              {"DFU_IDLE", "DNLOAD_IDLE", "UPLOAD_IDLE", "DFU_ERROR"}

dfu_status ==
    {"OK", "errTARGET", "errFILE", "errWRITE", "errERASE", "errPROG",
     "errADDRESS", "errUNKNOWN", "errSTALLED_PKT"}

dfu_api_status == {"SUCCESS", "ERROR", "BAD_PARAM"}

deferred_action ==
    {"none", "REBOOT", "REBOOT_TO_DFU", "REVERT_FACTORY",
     "FLASH_CONNECT", "FLASH_WRITE", "FLASH_MANIFEST"}

POLL_TIMEOUT_DNLOAD_ENTRY_MSEC       == 150
POLL_TIMEOUT_DNLOAD_ERASE_MSEC       == 500
POLL_TIMEOUT_DNLOAD_FIRST_WRITE_MSEC == 100
POLL_TIMEOUT_DNLOAD_WRITE_MSEC       == 2
POLL_TIMEOUT_DNLOAD_MANIFEST_MSEC    == 3

PollTimeouts == {0, 150, 500, 100, 2, 3}

\* A request [cmd, n].  n is the block size of a transfer, the value of a bus
\* reset, and elsewhere 1 when the data stage has the size the request calls for.
\* The numbers of the deferred actions are "not actual requests" in dfu_types.h;
\* a host that sends them all the same is in DfuUsb.
Requests ==
    [cmd : {"DNLOAD", "UPLOAD"}, n : 0 .. T]
    \cup [cmd : {"GETSTATUS", "GETSTATE", "GET_DESCRIPTOR", "BUS_RESET"}, n : {0, 1}]
    \cup [cmd : {"DETACH", "CLRSTATUS", "ABORT", "REVERTFACTORY"}, n : {0}]

\* A response carries what the server and the host act upon.  The state GETSTATUS
\* reports is a function of state, and the length of an answer to UPLOAD is what
\* it adds to delivered.
NoResponse == [status |-> "SUCCESS", deferred |-> "none", poll |-> 0]

Respond(st, act) == resp' = [status |-> st, deferred |-> act, poll |-> 0]

Least(a, b) == IF a < b THEN a ELSE b

-----------------------------------------------------------------------------
(* dfu.xc: transitions.                                                    *)

\* Every transition but an error makes the status OK.
normal_transition(new) == state' = new /\ status' = "OK"

error_condition(code) == state' = "DFU_ERROR" /\ status' = code

\* History: no transfer is under way any more.
NoTransfer == accepted' = 0 /\ programmed' = 0 /\ delivered' = 0

\* Mutant: the flash ports are not given back.
LeaveDfuFlashOpen ==
    /\ normal_transition("APP_IDLE")
    /\ Respond("SUCCESS", "REBOOT")
    /\ NoTransfer
    /\ UNCHANGED <<buffer, flash_finalised, sub, flash>>

\* Leaving DFU mode closes the flash and asks for a reboot.
LeaveDfu ==
    /\ flash' = flash_deinit(flash)
    /\ normal_transition("APP_IDLE")
    /\ Respond("SUCCESS", "REBOOT")
    /\ NoTransfer
    /\ UNCHANGED <<buffer, flash_finalised, sub>>

MoveTo(new, st, act) ==
    /\ normal_transition(new)
    /\ Respond(st, act)
    /\ UNCHANGED <<buffer, flash_finalised, sub, flash, download, delivered>>

Stay(st, act) ==
    /\ Respond(st, act)
    /\ UNCHANGED <<core, buffer, flash_finalised, sub, flash, download, delivered>>

Fail(code) ==
    /\ error_condition(code)
    /\ Respond("ERROR", "none")
    /\ UNCHANGED <<buffer, flash_finalised, sub, flash, download, delivered>>

Stall == Fail("errSTALLED_PKT")

build_status(timeout, act) ==
    resp' = [status |-> "SUCCESS", deferred |-> act, poll |-> timeout]

-----------------------------------------------------------------------------
(* dfu_sub_sm.xc: the flash sub state machine.                             *)

sub_sm_clear ==
    /\ sub_state' = "SYNC"
    /\ poll_timeout' = POLL_TIMEOUT_DNLOAD_ENTRY_MSEC

\* Mutants: running out of time counts as done; the time may be up before a first
\* erase call was made.
TimedOutIsErased(f) ==
    { Result("OK", Erasing(f, n)) : n \in 0 .. StillToErase(f) - 1 }
    \cup Fault("erase", "errERASE", EraseFailed(f))

ErasesNothing(f) ==
    { Result("NOTDONE", Erasing(f, n)) : n \in 1 .. StillToErase(f) }
    \cup {Result("OK", [Erased(f) EXCEPT !.upgrade_image_valid = 0])}
    \cup Fault("erase", "errERASE", EraseFailed(f))

\* As many erase calls as fit in DFU_FLASH_ERASE_CYCLE_MSEC, one at least.
sub_sm_erase_sectors(f) ==
    { Result("NOTDONE", Erasing(f, n)) : n \in 1 .. StillToErase(f) - 1 }
    \cup {Result("OK", [Erased(f) EXCEPT !.upgrade_image_valid = 0])}
    \cup Fault("erase", "errERASE", EraseFailed(f))

\* One page, padded with 0xFF when the fifo holds less.
PageBytes == Least(fifo, P)

sub_sm_flash_write_page(f) ==
    IF PageBytes = 0
    THEN {Result("errTARGET", f)}
    ELSE { Result(IF w.ret = "OK" THEN "OK" ELSE "errWRITE", w.flash) :
           w \in flash_write_page(f) }

\* What programming result w leaves of the fifo and the history.
ProgrammedAfter(w) == programmed + (IF w.ret = "OK" THEN PageBytes ELSE 0)

DrainPage(w) ==
    /\ fifo' = fifo - PageBytes
    /\ programmed' = ProgrammedAfter(w)

\* The operators below take the status the C function returns as a parameter
\* and are true of the steps in which it returns that status.
DnloadSync(st) ==
    /\ sub_state = "SYNC"
    /\ \E c \in IF flash_is_connected(flash) THEN {Result("OK", flash)}
                                             ELSE flash_init(flash) :
         IF c.ret # "OK"
         THEN /\ st = "errWRITE" /\ flash' = c.flash
              /\ UNCHANGED sub_state
              /\ poll_timeout' = POLL_TIMEOUT_DNLOAD_ENTRY_MSEC
         ELSE \E e \in flash_erase_sector_async(c.flash) :
                /\ flash' = e.flash
                /\ IF e.ret \in {"OK", "BUSY"}
                   THEN /\ st = "OK"
                        /\ sub_state' = "ERASING"
                        /\ poll_timeout' = POLL_TIMEOUT_DNLOAD_ERASE_MSEC
                   ELSE /\ st = "errERASE"
                        /\ UNCHANGED sub_state
                        /\ poll_timeout' = POLL_TIMEOUT_DNLOAD_ENTRY_MSEC
    /\ UNCHANGED <<fifo, programmed>>

DnloadErasing(st) ==
    /\ sub_state = "ERASING"
    /\ \E e \in sub_sm_erase_sectors(flash) :
         IF e.ret = "OK"
         THEN \E w \in sub_sm_flash_write_page(e.flash) :
                /\ st = w.ret /\ flash' = w.flash
                /\ DrainPage(w)
                /\ sub_state' = "WRITING"
                /\ poll_timeout' = POLL_TIMEOUT_DNLOAD_FIRST_WRITE_MSEC
         ELSE /\ st = IF e.ret = "NOTDONE" THEN "OK" ELSE "errERASE"
              /\ flash' = e.flash
              /\ poll_timeout' = POLL_TIMEOUT_DNLOAD_ERASE_MSEC
              /\ UNCHANGED <<sub_state, fifo, programmed>>

\* Mutant: the result of the write is dropped.
DnloadWritingUnchecked(st) ==
    /\ sub_state = "WRITING"
    /\ \E w \in sub_sm_flash_write_page(flash) :
         st = "OK" /\ flash' = w.flash /\ DrainPage(w)
    /\ poll_timeout' = POLL_TIMEOUT_DNLOAD_WRITE_MSEC
    /\ UNCHANGED sub_state

DnloadWriting(st) ==
    /\ sub_state = "WRITING"
    /\ \E w \in sub_sm_flash_write_page(flash) :
         st = w.ret /\ flash' = w.flash /\ DrainPage(w)
    /\ poll_timeout' = POLL_TIMEOUT_DNLOAD_WRITE_MSEC
    /\ UNCHANGED sub_state

sub_sm_process_dnload(st) == DnloadSync(st) \/ DnloadErasing(st) \/ DnloadWriting(st)

\* The last page and, once the fifo is empty, the end of the image.  The result
\* of the write is replaced by that of flash_finalise_write.
LastPage(st, finalised) ==
    /\ sub_state = "WRITING"
    /\ sub_state' = "SYNC"
    /\ poll_timeout' = POLL_TIMEOUT_DNLOAD_MANIFEST_MSEC
    /\ \E w \in sub_sm_flash_write_page(flash) :
         /\ DrainPage(w)
         /\ IF fifo = PageBytes
            THEN \E e \in flash_finalise_write(w.flash, ProgrammedAfter(w), accepted) :
                   /\ flash' = e.flash
                   /\ finalised = IF e.ret = "OK" THEN 1 ELSE 0
                   /\ st = IF e.ret = "OK" THEN "OK" ELSE "errPROG"
            ELSE st = w.ret /\ flash' = w.flash /\ finalised = 0

sub_sm_process_manifest(st, finalised) ==
    IF sub_state = "WRITING"
    THEN LastPage(st, finalised)
    ELSE sub_sm_process_dnload(st) /\ finalised = 0

-----------------------------------------------------------------------------
(* dfu.xc: one operator per state handler, true of the requests it answers *)
(* itself.  A state's handler leaves GETSTATUS, GETSTATE, and outside the  *)
(* two app states and dfuIDLE a bus reset or detach, to the common code of *)
(* dfu_request_with_arguments.                                             *)

state_app_idle(r) ==
    CASE r.cmd = "BUS_RESET" -> IF r.n # 0 THEN MoveTo("DFU_IDLE", "SUCCESS", "none")
                                           ELSE Stay("SUCCESS", "none")
      [] r.cmd = "DETACH"    -> MoveTo("APP_DETACH", "SUCCESS", "REBOOT_TO_DFU")
      [] r.cmd = "ABORT"     -> Stay("SUCCESS", "none")
      [] OTHER               -> Stay("BAD_PARAM", "none")

\* A successful answer also clears the sub state machine.
state_detach(r) ==
    IF r.cmd = "BUS_RESET"
    THEN /\ normal_transition("DFU_IDLE")
         /\ Respond("SUCCESS", IF DFU_USB_EN = 0 \/ DFU_CONFIG_USB_INBAND_FUNCTIONS = 0
                                  THEN "FLASH_CONNECT" ELSE "none")
         /\ sub_sm_clear
         /\ UNCHANGED <<buffer, flash_finalised, flash, download, delivered>>
    ELSE MoveTo("APP_IDLE", "ERROR", "none")

\* A new download starts with an empty fifo; its first block always fits.
action_entry_dnload(n) ==
    IF n = 0
    THEN Fail("errADDRESS")
    ELSE /\ n <= MaxImage
         /\ fifo' = n
         /\ accepted' = n /\ programmed' = 0
         /\ normal_transition("DNLOAD_SYNC")
         /\ Respond("SUCCESS", "none")
         /\ UNCHANGED <<read_length, flash_finalised, sub, flash, delivered>>

\* Mutant: a block larger than what the page has left is a short one.
upload_short_block(f, count, n) ==
    LET Dequeued(g, c) ==
            [ret |-> "SUCCESS", flash |-> g, fifo |-> IF n > c THEN 0 ELSE c - n]
    IN  IF count > 0
        THEN {Dequeued(f, count)}
        ELSE { IF p.ret = "OK" THEN Dequeued(p.flash, P)
                               ELSE [ret |-> "ERROR", flash |-> p.flash, fifo |-> count] :
               p \in flash_read_page(f) }

\* One block out of the fifo, refilled from the flash when empty: the results
\* of the transfer, with the count the fifo is left with.
upload_block(f, count, n) ==
    LET Dequeued(g, c) ==
            IF n = 0 \/ n > c
            THEN [ret |-> "ERROR", flash |-> g, fifo |-> c]
            ELSE [ret |-> "SUCCESS", flash |-> g, fifo |-> c - n]
    IN  IF count > 0
        THEN {Dequeued(f, count)}
        ELSE { IF p.ret = "OK" THEN Dequeued(p.flash, P)
                               ELSE [ret |-> "ERROR", flash |-> p.flash, fifo |-> count] :
               p \in flash_read_page(f) }

\* Mutant: the first block is not taken off what is left to read.
FirstBlockNotCounted(f, n) ==
    \E u \in upload_block(f, 0, n) :
      /\ fifo' = u.fifo /\ flash' = u.flash
      /\ read_length' = f.size
      /\ IF u.ret = "SUCCESS"
         THEN /\ normal_transition("UPLOAD_IDLE")
              /\ delivered' = Least(f.size, n)
              /\ Respond("SUCCESS", "none")
         ELSE /\ error_condition("errFILE")
              /\ delivered' = 0
              /\ Respond("ERROR", "none")

\* The first block.  A short one leaves the device in UPLOAD_IDLE all the same.
FirstBlock(f, n) ==
    \E u \in upload_block(f, 0, n) :
      /\ fifo' = u.fifo /\ flash' = u.flash
      /\ IF u.ret = "SUCCESS"
         THEN /\ normal_transition("UPLOAD_IDLE")
              /\ delivered' = Least(f.size, n)
              /\ read_length' = f.size - n
              /\ Respond("SUCCESS", "none")
         ELSE /\ error_condition("errFILE")
              /\ delivered' = 0
              /\ read_length' = f.size
              /\ Respond("ERROR", "none")

UploadFrom(f, n) ==
    \E s \in flash_start_read(f) :
      CASE s.ret = "OK" -> FirstBlock(s.flash, n)
        [] s.ret = "READ_NO_IMAGE" ->
             /\ normal_transition("UPLOAD_IDLE")
             /\ Respond("SUCCESS", "none")
             /\ read_length' = 0 /\ fifo' = 0 /\ delivered' = 0 /\ flash' = s.flash
        [] OTHER ->
             /\ error_condition("errFILE")
             /\ Respond("ERROR", "none")
             /\ fifo' = 0 /\ delivered' = 0 /\ flash' = s.flash
             /\ UNCHANGED read_length

CannotConnect(f) ==
    /\ error_condition("errTARGET")
    /\ Respond("ERROR", "none")
    /\ flash' = f
    /\ UNCHANGED <<buffer, delivered>>

ConnectIfNeeded ==
    IF flash_is_connected(flash) THEN {Result("OK", flash)} ELSE flash_init(flash)

action_entry_upload(n) ==
    /\ \E c \in ConnectIfNeeded :
         IF c.ret = "OK" THEN UploadFrom(c.flash, n) ELSE CannotConnect(c.flash)
    /\ UNCHANGED <<flash_finalised, sub, download>>

\* Erases one sector of the upgrade image, waiting for it.  The answer is the
\* same when the erase fails.
RevertErase(f) ==
    {[Erased(f) EXCEPT !.upgrade_image_valid = 0]}
    \cup (IF "erase" \in Faults
          THEN {EraseFailed(f), EraseFailed(Erasing(f, 0))} ELSE {})

action_revert_factory ==
    /\ \E c \in ConnectIfNeeded :
         IF c.ret = "OK"
         THEN /\ flash' \in RevertErase(c.flash)
              /\ Respond("SUCCESS", "none")
              /\ UNCHANGED <<core, buffer, delivered>>
         ELSE CannotConnect(c.flash)
    /\ UNCHANGED <<flash_finalised, sub, download>>

state_dfu_idle(r) ==
    CASE r.cmd = "FLASH_CONNECT" ->
           \E c \in flash_init(flash) :
             /\ flash' = c.flash
             /\ IF c.ret = "OK"
                THEN Respond("SUCCESS", "none") /\ UNCHANGED core
                ELSE Respond("ERROR", "none") /\ error_condition("errTARGET")
             /\ UNCHANGED <<buffer, flash_finalised, sub, download, delivered>>
      [] r.cmd = "REVERTFACTORY" ->
           IF DFU_CONFIG_USB_INBAND_FUNCTIONS = 1
           THEN action_revert_factory ELSE Stay("SUCCESS", "REVERT_FACTORY")
      [] r.cmd = "REVERT_FACTORY" /\ DFU_CONFIG_USB_INBAND_FUNCTIONS = 0 ->
           action_revert_factory
      [] r.cmd = "DETACH" -> LeaveDfu
      [] r.cmd = "ABORT"  -> Stay("SUCCESS", "none")
      [] r.cmd = "BUS_RESET" -> IF r.n # 0 THEN Stay("SUCCESS", "none") ELSE LeaveDfu
      [] OTHER -> Stall

\* Mutant: the status is recorded, the state is not left.
AfterSubSmStaying(st) ==
    IF st = "OK"
    THEN Respond("SUCCESS", "none") /\ UNCHANGED core
    ELSE Respond("ERROR", "none") /\ status' = st /\ UNCHANGED state

\* A sub state machine result becomes the state of the device.
AfterSubSm(st) ==
    IF st = "OK"
    THEN Respond("SUCCESS", "none") /\ UNCHANGED core
    ELSE Respond("ERROR", "none") /\ error_condition(st)

\* Mutant: off by one.
page_ready_above == fifo > P

dfufifo_is_page_ready == fifo >= P

\* GETSTATUS of the wrong length is an error, yet answered.
BadGetStatus ==
    /\ error_condition("errUNKNOWN")
    /\ build_status(0, "none")
    /\ UNCHANGED <<buffer, flash_finalised, sub, flash, download, delivered>>

state_dnload_sync(r) ==
    CASE r.cmd = "FLASH_WRITE" ->
           /\ \E st \in dfu_status : sub_sm_process_dnload(st) /\ AfterSubSm(st)
           /\ UNCHANGED <<read_length, flash_finalised, accepted, delivered>>
      [] r.cmd = "GETSTATUS" /\ r.n = 1 ->
           /\ IF dfufifo_is_page_ready
              THEN /\ normal_transition("DNLOAD_SYNC")
                   /\ build_status(poll_timeout, "FLASH_WRITE")
              ELSE /\ normal_transition("DNLOAD_IDLE")
                   /\ build_status(0, "none")
           /\ UNCHANGED <<buffer, flash_finalised, sub, flash, download, delivered>>
      [] r.cmd = "GETSTATUS" /\ r.n = 0 -> BadGetStatus
      [] OTHER -> Stall

\* Mutant, and the operator: an empty fifo is taken for the end of the download.
fifo_is_empty == fifo = 0

DownloadDone == fifo = 0 /\ flash_finalised = 1

state_manifest_sync(r) ==
    CASE r.cmd = "FLASH_MANIFEST" ->
           /\ \E st \in dfu_status, finalised \in {0, 1} :
                /\ sub_sm_process_manifest(st, finalised)
                /\ AfterSubSm(st)
                /\ flash_finalised' = IF st = "OK" THEN finalised ELSE flash_finalised
           /\ UNCHANGED <<read_length, accepted, delivered>>
      [] r.cmd = "GETSTATUS" /\ r.n = 1 ->
           /\ IF DownloadDone
              THEN /\ normal_transition("DFU_IDLE")
                   /\ flash_finalised' = 0
                   /\ build_status(0, "none")
                   /\ NoTransfer
              ELSE /\ normal_transition("MANIFEST_SYNC")
                   /\ UNCHANGED flash_finalised
                   /\ build_status(poll_timeout, "FLASH_MANIFEST")
                   /\ UNCHANGED <<download, delivered>>
           /\ UNCHANGED <<buffer, sub, flash>>
      [] r.cmd = "GETSTATUS" /\ r.n = 0 -> BadGetStatus
      [] OTHER -> Stall

\* Mutant, and the operator: whether the fifo takes a block.
AnyBlockFits(n) == n <= T

FifoTakes(n) == n <= P - fifo

\* The zero-length block ends the download; a block the fifo has no room for is
\* an error.
state_download_idle(n) ==
    CASE n = 0 -> MoveTo("MANIFEST_SYNC", "SUCCESS", "none")
      [] ~FifoTakes(n) -> Fail("errFILE")
      [] OTHER -> /\ accepted + n <= MaxImage
                  /\ fifo' = fifo + n
                  /\ accepted' = accepted + n
                  /\ normal_transition("DNLOAD_SYNC")
                  /\ Respond("SUCCESS", "none")
                  /\ UNCHANGED <<read_length, flash_finalised, sub, flash,
                                 programmed, delivered>>

NextBlock(n) ==
    \E u \in upload_block(flash, fifo, n) :
      /\ fifo' = u.fifo /\ flash' = u.flash
      /\ IF u.ret = "SUCCESS"
         THEN /\ IF read_length < n THEN normal_transition("DFU_IDLE")
                                    ELSE UNCHANGED core
              /\ Respond("SUCCESS", "none")
              /\ delivered' = delivered + Least(read_length, n)
              /\ read_length' = read_length - n
         ELSE /\ error_condition("errFILE")
              /\ Respond("ERROR", "none")
              /\ UNCHANGED <<read_length, delivered>>
      /\ UNCHANGED <<flash_finalised, sub, download>>

state_upload_idle(n) ==
    IF read_length <= 0 THEN MoveTo("DFU_IDLE", "SUCCESS", "none") ELSE NextBlock(n)

\* Mutant: the sub state machine is not cleared.
ClearErrorOnly(r) ==
    IF r.cmd = "CLRSTATUS"
    THEN /\ normal_transition("DFU_IDLE")
         /\ Respond("SUCCESS", "none")
         /\ NoTransfer
         /\ UNCHANGED <<buffer, flash_finalised, flash, sub>>
    ELSE Stay("BAD_PARAM", "none")

\* What dfuERROR answers: everything but CLRSTATUS is refused without effect.
ClearError(r) ==
    IF r.cmd = "CLRSTATUS"
    THEN /\ normal_transition("DFU_IDLE")
         /\ sub_sm_clear
         /\ Respond("SUCCESS", "none")
         /\ NoTransfer
         /\ UNCHANGED <<buffer, flash_finalised, flash>>
    ELSE Stay("BAD_PARAM", "none")

-----------------------------------------------------------------------------
(* dfu.xc:464-598, the request: the descriptor first, the common answers   *)
(* and exits, then the handler of the state.                               *)

LeavesByCommonCode ==
    state \in SyncStates \cup {"DNLOAD_IDLE", "UPLOAD_IDLE", "DFU_ERROR"}

HandleByState(r) ==
    CASE state = "APP_IDLE"      -> state_app_idle(r)
      [] state = "APP_DETACH"    -> state_detach(r)
      [] state = "DFU_IDLE"      ->
           CASE r.cmd = "DNLOAD" -> action_entry_dnload(r.n)
             [] r.cmd = "UPLOAD" -> action_entry_upload(r.n)
             [] OTHER            -> state_dfu_idle(r)
      [] state = "DNLOAD_SYNC"   -> state_dnload_sync(r)
      [] state = "MANIFEST_SYNC" -> state_manifest_sync(r)
      [] state = "DNLOAD_IDLE"   ->
           IF r.cmd = "DNLOAD" THEN state_download_idle(r.n) ELSE Stall
      [] state = "UPLOAD_IDLE"   ->
           CASE r.cmd = "UPLOAD" -> state_upload_idle(r.n)
             [] r.cmd = "ABORT"  -> MoveTo("DFU_IDLE", "SUCCESS", "none")
             [] OTHER            -> Stall
      [] OTHER                   -> ClearError(r)

\* GETSTATUS and GETSTATE change nothing outside the sync states.
ReportState(r) ==
    /\ UNCHANGED <<core, buffer, flash_finalised, sub, flash, download, delivered>>
    /\ IF r.n = 0 THEN Respond("BAD_PARAM", "none") ELSE build_status(0, "none")

ReportDescriptor ==
    /\ Respond("SUCCESS", "none")
    /\ UNCHANGED <<core, buffer, flash_finalised, sub, flash, download, delivered>>

dfu_request_with_arguments(r) ==
    CASE r.cmd = "GET_DESCRIPTOR" /\ r.n = 1 -> ReportDescriptor
      [] \/ r.cmd = "GETSTATE"
         \/ r.cmd = "GETSTATUS" /\ state \notin SyncStates -> ReportState(r)
      [] r.cmd \in {"BUS_RESET", "DETACH"} /\ LeavesByCommonCode -> LeaveDfu
      [] OTHER -> HandleByState(r)

-----------------------------------------------------------------------------
(* The server.                                                             *)

\* What a server may hold after an answer that asks for act.  The control server
\* keeps the action it holds when a write command asks for none and drops it
\* when a read command does; REBOOT_TO_DFU is ignored by it and taken by the USB
\* server (dfu_control_server.xc:122-127, :168; dfu_usb_server.xc:49-57).
Holds(act) ==
    CASE act = "none"          -> {deferred, "none"}
      [] act = "REBOOT_TO_DFU" -> {deferred, act}
      [] OTHER                 -> {act}

Answer(r) ==
    /\ dfu_request_with_arguments(r)
    /\ deferred' \in Holds(resp'.deferred)

HostRequest == \E r \in Requests : Answer(r)

Reboots == {"REBOOT", "REBOOT_TO_DFU"}

RunDeferred ==
    /\ deferred \notin Reboots \cup {"none"}
    /\ dfu_request_with_arguments([cmd |-> deferred, n |-> 0])
    /\ deferred' = "none"

\* A reboot or a power cycle: every static starts over, the slot survives.
Boot ==
    /\ state' = "APP_IDLE" /\ status' = "OK"
    /\ fifo' = 0 /\ read_length' = 0
    /\ flash_finalised' = 0
    /\ sub_state' = "SYNC" /\ poll_timeout' = 0
    /\ flash' = PoweredUp(flash.slot, flash.size)
    /\ resp' = NoResponse /\ deferred' = "none"
    /\ NoTransfer

dfu_reboot == deferred \in Reboots /\ Boot

PowerCycle == Boot

dfu_timeout_detach ==
    /\ state = "APP_DETACH"
    /\ normal_transition("APP_IDLE")
    /\ UNCHANGED <<buffer, flash_finalised, sub, flash, resp, deferred,
                   download, delivered>>

-----------------------------------------------------------------------------
Init ==
    /\ state = "APP_IDLE" /\ status = "OK"
    /\ fifo = 0 /\ read_length = 0
    /\ flash_finalised = 0
    /\ sub_state = "SYNC" /\ poll_timeout = 0
    /\ \/ flash = PoweredUp("none", 0)
       \/ \E size \in 1 .. MaxImage : flash = PoweredUp("whole", size)
    /\ resp = NoResponse /\ deferred = "none"
    /\ accepted = 0 /\ programmed = 0 /\ delivered = 0

Next == HostRequest \/ RunDeferred \/ dfu_reboot \/ PowerCycle \/ dfu_timeout_detach

Spec == Init /\ [][Next]_vars

-----------------------------------------------------------------------------
(* A host that follows the protocol: it sends what the state it can read   *)
(* with GETSTATUS provides for, and holds off until what the answer        *)
(* deferred is done.                                                       *)

Provided(r) ==
    \/ r.cmd \in {"GETSTATUS", "GETSTATE", "GET_DESCRIPTOR"} /\ r.n = 1
    \/ r.cmd = "BUS_RESET" /\ r.n = 0
    \/ r.cmd = "DETACH" /\ state \in {"APP_IDLE", "DFU_IDLE"}
    \/ r.cmd = "DNLOAD" /\ state = "DFU_IDLE" /\ r.n > 0
    \/ r.cmd = "DNLOAD" /\ state = "DNLOAD_IDLE"
    \/ r.cmd = "UPLOAD" /\ state \in {"DFU_IDLE", "UPLOAD_IDLE"} /\ r.n > 0
    \/ r.cmd = "ABORT" /\ state \in {"DFU_IDLE", "UPLOAD_IDLE"}
    \/ r.cmd = "REVERTFACTORY" /\ state = "DFU_IDLE"
    \/ r.cmd = "CLRSTATUS" /\ state = "DFU_ERROR"

PoliteRequest == deferred = "none" /\ \E r \in Requests : Provided(r) /\ Answer(r)

Poll == deferred = "none" /\ Answer([cmd |-> "GETSTATUS", n |-> 1])

PoliteNext == PoliteRequest \/ RunDeferred \/ dfu_reboot \/ PowerCycle

PoliteSpec == Init /\ [][PoliteNext]_vars

\* The server gets to its deferred action, and a host that waits for the end of
\* a busy state polls.
PoliteFairSpec == PoliteSpec /\ WF_vars(RunDeferred) /\ WF_vars(Poll)

-----------------------------------------------------------------------------
(* Properties.                                                             *)

dfu_cmd_response ==
    [status : dfu_api_status, deferred : deferred_action, poll : PollTimeouts]

\* Every variable stays in its type; the fifo never exceeds its storage, and what
\* is left to read never goes below one block past the end.
TypeOK ==
    /\ state \in dfu_state /\ status \in dfu_status
    /\ fifo \in 0 .. P
    /\ read_length \in -T .. MaxImage
    /\ flash_finalised \in {0, 1}
    /\ sub_state \in {"SYNC", "ERASING", "WRITING"}
    /\ poll_timeout \in PollTimeouts
    /\ flash \in flash_session
    /\ resp \in dfu_cmd_response
    /\ deferred \in deferred_action
    /\ accepted \in 0 .. MaxImage
    /\ programmed \in 0 .. MaxImage
    /\ delivered \in 0 .. MaxImage

\* The host reads an error status in dfuERROR and in no other state (dfu.xc
\* writes the two in separate places, and a deferred action fails between polls).
StatusTellsError == status # "OK" <=> state = "DFU_ERROR"

\* Whenever the device runs its application the flash ports are back with it:
\* every way out of DFU mode has closed the session.
FlashClosedInApp == state \in AppStates => flash.device_open = 0

\* Once the device asks for the next block, or for the end, less than a page is
\* waiting: one last write is always enough to empty the fifo before the image
\* is finalised.
NeverAWholePageLeft == state \in {"DNLOAD_IDLE", "MANIFEST_SYNC"} => fifo < P

\* While blocks are coming in, each byte taken from the host is either in the
\* fifo or programmed, once, whatever fails and whatever the server loses.
BytesAccounted ==
    state \in {"DNLOAD_SYNC", "DNLOAD_IDLE"} => accepted = programmed + fifo

\* During an upload what was delivered and what is still to be read add up to
\* the image announced.
UploadAccounted ==
    state = "UPLOAD_IDLE" =>
        delivered + (IF read_length > 0 THEN read_length ELSE 0)
            = IF flash.upgrade_image_valid = 1 THEN flash.size ELSE 0

\* The inductive invariant of Spec the proofs rest on: the invariants above, what
\* the end of a download adds to the account (a byte may be lost there), and why
\* a write the server still holds cannot meet a partly filled page.
ManifestBound ==
    state = "MANIFEST_SYNC" => programmed + fifo <= accepted

HeldWrite ==
    deferred = "FLASH_WRITE" =>
        \/ state = "DNLOAD_SYNC" /\ fifo = P
        \/ state = "DFU_ERROR"
        \/ sub_state = "SYNC"

DeviceInv ==
    /\ TypeOK
    /\ StatusTellsError
    /\ FlashClosedInApp
    /\ NeverAWholePageLeft
    /\ BytesAccounted
    /\ ManifestBound
    /\ UploadAccounted

IInv == DeviceInv /\ HeldWrite

Programs == programmed' > programmed

\* Only the last page of an image is padded: before the end of the download a
\* deferred write, stale ones included, programs whole pages.
PadsLastPageOnly ==
    [][state = "DNLOAD_SYNC" /\ Programs => programmed' = programmed + P]_vars

\* A page is programmed only into a slot this session has erased to the end.
ProgramsErasedSlot ==
    [][Programs /\ state \in SyncStates => flash.erased = 1 \/ flash'.erased = 1]_vars

Completes == state = "MANIFEST_SYNC" /\ state' = "DFU_IDLE"

\* The device reports the end of a download (dfuMANIFEST to dfuIDLE) only when
\* the slot holds the whole image, every byte the host sent.
DoneMeansStored ==
    [][Completes => flash.slot = "whole" /\ flash.size = accepted]_vars

\* An upload delivers bytes of a whole image only.
UploadsWholeImage == [][delivered' > delivered => flash'.slot = "whole"]_vars

\* A host that polls gets out of each busy state.
BusyEnds == \A s \in SyncStates : (state = s) ~> (state # s)

-----------------------------------------------------------------------------
(* What a comment says that the code does not do.                          *)

\* dfu_flash.h:99-100 and the errWRITE of dfu_sub_sm.xc:117-118: a page that
\* cannot be written is an error, the last page too.
LastPageFailureReported ==
    [][state = "MANIFEST_SYNC" /\ state' = state /\ fifo' < fifo => Programs]_vars
=============================================================================
