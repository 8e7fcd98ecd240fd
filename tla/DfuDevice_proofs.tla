-------------------------- MODULE DfuDevice_proofs --------------------------
(***************************************************************************)
(* The inductive invariant IInv of DfuDevice and the theorems it gives.    *)
(***************************************************************************)
EXTENDS DfuDevice, TLAPS

LEMMA AtMost ==
    \A x \in Int, y \in Int, z \in Int : x <= y /\ y <= z => x <= z
  OBVIOUS

-----------------------------------------------------------------------------
(* Multiples.                                                              *)

Multiple(a, n) == \E k \in Nat : a = k * n

LEMMA MultipleNext ==
    ASSUME NEW n \in Nat, NEW a \in Nat, Multiple(a, n)
    PROVE  Multiple(a + n, n)
  <1>1. PICK k \in Nat : a = k * n
    BY DEF Multiple
  <1>2. a + n = (k + 1) * n /\ k + 1 \in Nat
    BY <1>1
  <1> QED BY <1>2 DEF Multiple

LEMMA MultipleBefore ==
    ASSUME NEW n \in Nat \ {0}, NEW a \in Nat, Multiple(a, n), a > 0
    PROVE  a >= n /\ Multiple(a - n, n)
  <1>1. PICK k \in Nat : a = k * n
    BY DEF Multiple
  <1>2. k # 0
    BY <1>1
  <1>3. PICK j \in Nat : k = j + 1
    BY <1>2
  <1>4. a = j * n + n
    BY <1>1, <1>3
  <1>5. j * n \in Nat
    OBVIOUS
  <1>6. a - n = j * n /\ a >= n
    BY <1>4, <1>5
  <1> QED BY <1>6 DEF Multiple

LEMMA MultipleBelow ==
    ASSUME NEW n \in Nat \ {0}, NEW a \in Nat, NEW b \in Nat,
           Multiple(a, n), Multiple(b, n), a < b
    PROVE  a + n <= b
  <1>1. PICK k \in Nat, j \in Nat : a = k * n /\ b = j * n
    BY DEF Multiple
  <1>2. k < j
    <2>1. SUFFICES ASSUME j <= k PROVE FALSE
      OBVIOUS
    <2>2. PICK i \in Nat : k = j + i
      BY <2>1
    <2>3. a = j * n + i * n /\ i * n \in Nat /\ j * n \in Nat
      BY <1>1, <2>2
    <2> QED BY <1>1, <2>3
  <1>3. PICK i \in Nat : j = k + 1 + i
    BY <1>2
  <1>4. b = k * n + n + i * n /\ i * n \in Nat /\ k * n \in Nat
    BY <1>1, <1>3
  <1> QED BY <1>1, <1>4

LEMMA SmallMultiples ==
    ASSUME NEW n \in Nat
    PROVE  Multiple(0, n) /\ Multiple(n, n)
  <1>1. 0 = 0 * n /\ n = 1 * n
    OBVIOUS
  <1> QED BY <1>1 DEF Multiple

LEMMA DivisionOf ==
    ASSUME NEW n \in Nat \ {0}, NEW a \in Nat
    PROVE  /\ a \div n \in Nat
           /\ (a \div n) * n <= a /\ a < (a \div n) * n + n
  OBVIOUS

-----------------------------------------------------------------------------
(* The flash session stays in its type.                                    *)

\* What an operation may write into the session keeps its type.
LEMMA SessionType ==
    ASSUME NEW f \in flash_session
    PROVE  /\ Open(f) \in flash_session
           /\ \A g \in WithImage(f) : g \in flash_session
           /\ \A n \in 0 .. Sectors : Erasing(f, n) \in flash_session
           /\ Erased(f) \in flash_session
           /\ EraseFailed(f) \in flash_session
           /\ flash_deinit(f) \in flash_session
  <1>0. 0 \in 0 .. Sectors /\ 0 \in 0 .. MaxImage
    BY FlashAssumption DEF FlashAssumption
  <1>1. Open(f) \in flash_session
    BY DEF Open, flash_session
  <1>2. \A g \in WithImage(f) : g \in flash_session
    <2>1. f.size \in 0 .. MaxImage /\ 1 .. MaxImage \subseteq 0 .. MaxImage
      BY FlashAssumption DEF FlashAssumption, flash_session
    <2>2. SUFFICES ASSUME NEW bytes \in 0 .. MaxImage
                   PROVE  [f EXCEPT !.upgrade_image_valid = 1, !.size = bytes]
                            \in flash_session
      BY <2>1 DEF WithImage
    <2> QED BY DEF flash_session
  <1>3. \A n \in 0 .. Sectors : Erasing(f, n) \in flash_session
    BY DEF Erasing, flash_session, SlotContent
  <1>4. Erased(f) \in flash_session
    BY <1>0 DEF Erased, flash_session, SlotContent
  <1>5. EraseFailed(f) \in flash_session
    BY <1>0 DEF EraseFailed, flash_session
  <1>6. flash_deinit(f) \in flash_session
    BY <1>0 DEF flash_deinit, flash_disable_ports, flash_session
  <1> QED BY <1>1, <1>2, <1>3, <1>4, <1>5, <1>6

\* What the calls of the session may return and leave behind.
LEMMA FlashInit ==
    ASSUME NEW f \in flash_session, NEW c \in flash_init(f)
    PROVE  c.ret \in flash_status /\ c.flash \in flash_session
  <1>1. [f EXCEPT !.device_open = 1] \in flash_session
    BY DEF flash_session
  <1>2. \A g \in Connected(f) : g \in flash_session
    BY SessionType DEF Connected
  <1> QED BY <1>1, <1>2 DEF flash_init, flash_enable_ports_fails, Fault, Result, flash_status

LEMMA EraseSector ==
    ASSUME NEW f \in flash_session, NEW e \in flash_erase_sector_async(f)
    PROVE  e.ret \in {"OK", "BUSY", "ERASE_ERROR"} /\ e.flash \in flash_session
  <1>1. StillToErase(f) \in 1 .. Sectors
    BY FlashAssumption DEF FlashAssumption, StillToErase, flash_session
  <1>2. StillToErase(f) - 1 \in 0 .. Sectors
    BY <1>1, FlashAssumption DEF FlashAssumption
  <1>3. [Erased(f) EXCEPT !.upgrade_image_valid = 0] \in flash_session
    BY SessionType DEF flash_session
  <1> QED BY <1>2, <1>3, SessionType DEF flash_erase_sector_async, Fault, Result

LEMMA EraseSectors ==
    ASSUME NEW f \in flash_session, NEW e \in sub_sm_erase_sectors(f)
    PROVE  e.ret \in {"NOTDONE", "OK", "errERASE"} /\ e.flash \in flash_session
  <1>1. \A n \in 1 .. StillToErase(f) - 1 : n \in 0 .. Sectors
    BY FlashAssumption DEF FlashAssumption, StillToErase, flash_session
  <1>2. [Erased(f) EXCEPT !.upgrade_image_valid = 0] \in flash_session
    BY SessionType DEF flash_session
  <1> QED BY <1>1, <1>2, SessionType DEF sub_sm_erase_sectors, Fault, Result

LEMMA WritePage ==
    ASSUME NEW f \in flash_session, NEW w \in sub_sm_flash_write_page(f)
    PROVE  /\ w.ret \in {"OK", "errTARGET", "errWRITE"}
           /\ w.flash \in flash_session
  BY DEF sub_sm_flash_write_page, flash_write_page, Fault, Result, flash_session,
         SlotContent

LEMMA FinaliseWrite ==
    ASSUME NEW f \in flash_session, NEW bytes \in 0 .. MaxImage, NEW all,
           NEW e \in flash_finalise_write(f, bytes, all)
    PROVE  e.ret \in flash_status /\ e.flash \in flash_session
  <1>1. Closed(f, bytes, all) \in flash_session
    BY DEF Closed, flash_session, SlotContent
  <1>2. [f EXCEPT !.erased = 0] \in flash_session
    BY DEF flash_session
  <1>3. \A g \in WithImage(Closed(f, bytes, all)) : g \in flash_session
    BY <1>1, SessionType
  <1> QED
    BY <1>1, <1>2, <1>3 DEF flash_finalise_write, LookUp, Fault, Result, flash_status

\* A read leaves the session as it is, and takes an upgrade image.
LEMMA StartRead ==
    ASSUME NEW f \in flash_session, NEW s \in flash_start_read(f)
    PROVE  /\ s.flash = f
           /\ s.ret = "OK" => f.upgrade_image_valid = 1
           /\ s.ret = "READ_NO_IMAGE" => f.upgrade_image_valid = 0
  BY DEF flash_start_read, Fault, Result, flash_session

LEMMA UploadBlock ==
    ASSUME NEW f \in flash_session, NEW count \in 0 .. P, NEW n \in 0 .. T,
           NEW u \in upload_block(f, count, n)
    PROVE  /\ u.flash = f
           /\ u.fifo \in 0 .. P
           /\ u.ret = "SUCCESS" => n > 0
  <1>1. \A p \in flash_read_page(f) : p.flash = f
    BY DEF flash_read_page, Fault, Result
  <1> QED BY <1>1, DeviceAssumption DEF upload_block, DeviceAssumption, P, T

-----------------------------------------------------------------------------
(* The steps shared by the handlers.                                       *)

\* What a step that moves no data must respect.
LEMMA QuietStep ==
    ASSUME DeviceInv,
           UNCHANGED <<buffer, flash_finalised, flash, download, delivered>>,
           sub_state' \in {"SYNC", "ERASING", "WRITING"},
           poll_timeout' \in PollTimeouts,
           resp' \in dfu_cmd_response, deferred' \in deferred_action,
           state' \in dfu_state, status' \in dfu_status,
           status' # "OK" <=> state' = "DFU_ERROR",
           state' \in AppStates => state \in AppStates,
           state' \in {"DNLOAD_IDLE", "MANIFEST_SYNC"} => fifo < P,
           state' \in {"DNLOAD_SYNC", "DNLOAD_IDLE"} =>
               state \in {"DNLOAD_SYNC", "DNLOAD_IDLE"},
           state' = "MANIFEST_SYNC" => state \in {"MANIFEST_SYNC", "DNLOAD_IDLE"},
           state' = "UPLOAD_IDLE" => state = "UPLOAD_IDLE"
    PROVE  DeviceInv'
  <1> USE DEF DeviceInv, buffer, download
  <1>1. TypeOK'
    BY DEF TypeOK
  <1>2. StatusTellsError' /\ FlashClosedInApp' /\ NeverAWholePageLeft'
    BY DEF StatusTellsError, FlashClosedInApp, NeverAWholePageLeft
  <1>3. BytesAccounted' /\ ManifestBound'
    BY DEF TypeOK, BytesAccounted, ManifestBound
  <1>4. UploadAccounted'
    BY DEF UploadAccounted
  <1> QED BY <1>1, <1>2, <1>3, <1>4

LEMMA ResponseType ==
    ASSUME NEW st \in dfu_api_status, NEW act \in deferred_action,
           NEW timeout \in PollTimeouts,
           Respond(st, act) \/ build_status(timeout, act)
    PROVE  resp' \in dfu_cmd_response
  BY DEF Respond, build_status, dfu_cmd_response, dfu_api_status, PollTimeouts

LEMMA MoveToStep ==
    ASSUME DeviceInv, deferred' \in deferred_action,
           NEW new \in dfu_state \ {"DFU_ERROR", "DNLOAD_SYNC", "DNLOAD_IDLE", "UPLOAD_IDLE"},
           new \in AppStates => state \in AppStates,
           new = "MANIFEST_SYNC" => state = "DNLOAD_IDLE",
           NEW st \in dfu_api_status, NEW act \in deferred_action,
           MoveTo(new, st, act)
    PROVE  DeviceInv'
  <1>1. resp' \in dfu_cmd_response
    BY ResponseType DEF MoveTo, PollTimeouts
  <1>2. /\ state' = new /\ status' = "OK"
        /\ UNCHANGED <<buffer, flash_finalised, sub, flash, download, delivered>>
    BY DEF MoveTo, normal_transition
  <1>3. "OK" \in dfu_status
    BY DEF dfu_status
  <1>4. sub_state' \in {"SYNC", "ERASING", "WRITING"} /\ poll_timeout' \in PollTimeouts
    BY <1>2 DEF DeviceInv, TypeOK, sub
  <1>5. new = "MANIFEST_SYNC" => fifo < P
    BY DEF DeviceInv, NeverAWholePageLeft
  <1> QED BY <1>1, <1>2, <1>3, <1>4, <1>5, QuietStep

LEMMA StayStep ==
    ASSUME DeviceInv, deferred' \in deferred_action, resp' \in dfu_cmd_response,
           UNCHANGED <<core, buffer, flash_finalised, sub, flash, download, delivered>>
    PROVE  DeviceInv'
  BY QuietStep DEF DeviceInv, TypeOK, StatusTellsError, NeverAWholePageLeft, core, sub

LEMMA FailStep ==
    ASSUME DeviceInv, deferred' \in deferred_action, resp' \in dfu_cmd_response,
           NEW code \in dfu_status \ {"OK"}, error_condition(code),
           UNCHANGED <<buffer, flash_finalised, sub, flash, download, delivered>>
    PROVE  DeviceInv'
  <1>1. state' = "DFU_ERROR" /\ status' = code
    BY DEF error_condition
  <1>2. "DFU_ERROR" \in dfu_state /\ "DFU_ERROR" \notin AppStates
    BY DEF dfu_state, AppStates
  <1>3. sub_state' \in {"SYNC", "ERASING", "WRITING"} /\ poll_timeout' \in PollTimeouts
    BY DEF DeviceInv, TypeOK, sub
  <1> QED BY <1>1, <1>2, <1>3, QuietStep

\* Leaving DFU mode ends the transfers and closes the flash.
LEMMA LeaveStep ==
    ASSUME DeviceInv, deferred' \in deferred_action, LeaveDfu
    PROVE  DeviceInv'
  <1>1. resp' \in dfu_cmd_response
    BY ResponseType DEF LeaveDfu, dfu_api_status, deferred_action, PollTimeouts
  <1>2. /\ state' = "APP_IDLE" /\ status' = "OK" /\ flash' = flash_deinit(flash)
        /\ accepted' = 0 /\ programmed' = 0 /\ delivered' = 0
        /\ UNCHANGED <<fifo, read_length, flash_finalised, sub_state, poll_timeout>>
    BY DEF LeaveDfu, normal_transition, NoTransfer, buffer, sub
  <1>3. flash' \in flash_session /\ flash'.device_open = 0
    BY <1>2, SessionType DEF DeviceInv, TypeOK, flash_deinit, flash_disable_ports, flash_session
  <1>4. 0 \in 0 .. MaxImage
    BY FlashAssumption DEF FlashAssumption
  <1> QED
    BY <1>1, <1>2, <1>3, <1>4
       DEF DeviceInv, TypeOK, StatusTellsError, FlashClosedInApp, NeverAWholePageLeft,
           BytesAccounted, ManifestBound, UploadAccounted, dfu_state, AppStates, dfu_status

LEMMA Stalls ==
    ASSUME DeviceInv, deferred' \in deferred_action,
           NEW code \in dfu_status \ {"OK"}, Fail(code)
    PROVE  DeviceInv'
  <1>1. resp' \in dfu_cmd_response
    BY ResponseType DEF Fail, dfu_api_status, deferred_action, PollTimeouts
  <1> QED BY <1>1, FailStep DEF Fail

LEMMA Stays ==
    ASSUME DeviceInv, deferred' \in deferred_action,
           NEW st \in dfu_api_status, NEW act \in deferred_action, Stay(st, act)
    PROVE  DeviceInv'
  <1>1. resp' \in dfu_cmd_response
    BY ResponseType DEF Stay, PollTimeouts
  <1> QED BY <1>1, StayStep DEF Stay

-----------------------------------------------------------------------------
(* The handlers.                                                           *)

LEMMA AppIdle ==
    ASSUME DeviceInv, deferred' \in deferred_action, state = "APP_IDLE",
           NEW r, state_app_idle(r)
    PROVE  DeviceInv'
  <1>1. CASE MoveTo("DFU_IDLE", "SUCCESS", "none")
    BY <1>1, MoveToStep DEF dfu_state, AppStates, dfu_api_status, deferred_action
  <1>2. CASE MoveTo("APP_DETACH", "SUCCESS", "REBOOT_TO_DFU")
    BY <1>2, MoveToStep DEF dfu_state, AppStates, dfu_api_status, deferred_action
  <1>3. CASE \E st \in {"SUCCESS", "BAD_PARAM"} : Stay(st, "none")
    BY <1>3, Stays DEF dfu_api_status, deferred_action
  <1> QED BY <1>1, <1>2, <1>3 DEF state_app_idle

LEMMA DetachStateStep ==
    ASSUME DeviceInv, deferred' \in deferred_action, state = "APP_DETACH",
           NEW r, state_detach(r)
    PROVE  DeviceInv'
  <1>1. CASE r.cmd = "BUS_RESET"
    <2>1. resp' \in dfu_cmd_response
      BY <1>1, ResponseType
         DEF state_detach, dfu_api_status, deferred_action, PollTimeouts
    <2>2. state' = "DFU_IDLE" /\ status' = "OK" /\ sub_state' = "SYNC"
      BY <1>1 DEF state_detach, normal_transition, sub_sm_clear
    <2>3. poll_timeout' \in PollTimeouts
      BY <1>1 DEF state_detach, sub_sm_clear, PollTimeouts,
                  POLL_TIMEOUT_DNLOAD_ENTRY_MSEC
    <2>4. UNCHANGED <<buffer, flash_finalised, flash, download, delivered>>
      BY <1>1 DEF state_detach
    <2> QED BY <2>1, <2>2, <2>3, <2>4, QuietStep DEF dfu_state, dfu_status, AppStates
  <1>2. CASE MoveTo("APP_IDLE", "ERROR", "none")
    BY <1>2, MoveToStep DEF dfu_state, AppStates, dfu_api_status, deferred_action
  <1> QED BY <1>1, <1>2 DEF state_detach

\* A download starts with its first block in the fifo.
LEMMA EntryDnload ==
    ASSUME DeviceInv, deferred' \in deferred_action,
           NEW n \in 0 .. T, action_entry_dnload(n)
    PROVE  DeviceInv'
  <1>1. CASE n = 0
    BY <1>1, Stalls DEF action_entry_dnload, dfu_status
  <1>2. CASE n # 0
    <2>1. /\ n <= MaxImage /\ fifo' = n /\ accepted' = n /\ programmed' = 0
          /\ state' = "DNLOAD_SYNC" /\ status' = "OK"
          /\ UNCHANGED <<read_length, flash_finalised, sub, flash, delivered>>
      BY <1>2 DEF action_entry_dnload, normal_transition
    <2>2. resp' \in dfu_cmd_response
      BY <1>2, ResponseType
         DEF action_entry_dnload, dfu_api_status, deferred_action, PollTimeouts
    <2>3. n \in 0 .. P /\ n \in 0 .. MaxImage /\ 0 \in 0 .. MaxImage /\ n = 0 + n
      BY <2>1, DeviceAssumption, FlashAssumption
         DEF DeviceAssumption, FlashAssumption, P, T
    <2> QED
      BY <2>1, <2>2, <2>3
         DEF DeviceInv, TypeOK, StatusTellsError, FlashClosedInApp, NeverAWholePageLeft,
             BytesAccounted, ManifestBound, UploadAccounted, dfu_state, AppStates,
             SyncStates, dfu_status, sub
  <1> QED BY <1>1, <1>2

\* Neither dfuIDLE nor dfuERROR says anything of the fifo or of a transfer.
LEMMA BetweenTransfers ==
    ASSUME TypeOK', status' # "OK" <=> state' = "DFU_ERROR",
           state' \in {"DFU_IDLE", "DFU_ERROR"}
    PROVE  DeviceInv'
  BY DEF DeviceInv, StatusTellsError, FlashClosedInApp, NeverAWholePageLeft,
         BytesAccounted, ManifestBound, UploadAccounted, AppStates

LEMMA Connects ==
    ASSUME TypeOK, NEW c \in ConnectIfNeeded
    PROVE  c.ret \in flash_status /\ c.flash \in flash_session
  BY FlashInit DEF ConnectIfNeeded, TypeOK, Result, flash_status

LEMMA ConnectFails ==
    ASSUME DeviceInv, deferred' \in deferred_action,
           NEW f \in flash_session, CannotConnect(f),
           UNCHANGED <<flash_finalised, sub, download>>
    PROVE  DeviceInv'
  <1>1. resp' \in dfu_cmd_response
    BY ResponseType DEF CannotConnect, dfu_api_status, deferred_action, PollTimeouts
  <1>2. state' = "DFU_ERROR" /\ status' = "errTARGET" /\ flash' = f
    BY DEF CannotConnect, error_condition
  <1>3. TypeOK'
    BY <1>1, <1>2
       DEF CannotConnect, DeviceInv, TypeOK, dfu_state, dfu_status, buffer, sub, download
  <1> QED BY <1>2, <1>3, BetweenTransfers

\* The first block of an upload opens the account of the upload.
LEMMA FirstBlockStep ==
    ASSUME DeviceInv, deferred' \in deferred_action,
           NEW f \in flash_session, f.upgrade_image_valid = 1,
           NEW n \in 0 .. T, FirstBlock(f, n),
           UNCHANGED <<flash_finalised, sub, download>>
    PROVE  DeviceInv'
  <1>1. resp' \in dfu_cmd_response
    BY ResponseType DEF FirstBlock, dfu_api_status, deferred_action, PollTimeouts
  <1>2. fifo' \in 0 .. P /\ flash' = f
    <2>1. 0 \in 0 .. P
      BY DeviceAssumption DEF DeviceAssumption, P
    <2> QED BY <2>1, UploadBlock DEF FirstBlock
  <1>3. f.size \in Nat /\ f.size <= MaxImage /\ MaxImage \in Nat /\ n \in Nat /\ n <= T
        /\ T \in Nat
    BY FlashAssumption, DeviceAssumption
       DEF FlashAssumption, DeviceAssumption, flash_session, T
  <1>4. CASE /\ state' = "UPLOAD_IDLE" /\ status' = "OK"
             /\ delivered' = Least(f.size, n) /\ read_length' = f.size - n
    <2>1. /\ read_length' \in -T .. MaxImage /\ delivered' \in 0 .. MaxImage
          /\ delivered' + (IF read_length' > 0 THEN read_length' ELSE 0) = f.size
      BY <1>3, <1>4 DEF Least
    <2>2. TypeOK'
      BY <1>1, <1>2, <1>4, <2>1
         DEF DeviceInv, TypeOK, dfu_state, dfu_status, sub, download
    <2> QED
      BY <1>2, <1>4, <2>1, <2>2
         DEF DeviceInv, StatusTellsError, FlashClosedInApp, NeverAWholePageLeft,
             BytesAccounted, ManifestBound, UploadAccounted, AppStates
  <1>5. CASE /\ state' = "DFU_ERROR" /\ status' = "errFILE"
             /\ delivered' = 0 /\ read_length' = f.size
    <2>1. TypeOK'
      BY <1>1, <1>2, <1>3, <1>5
         DEF DeviceInv, TypeOK, dfu_state, dfu_status, sub, download
    <2> QED BY <1>5, <2>1, BetweenTransfers
  <1> QED BY <1>4, <1>5 DEF FirstBlock, normal_transition, error_condition

LEMMA EntryUpload ==
    ASSUME DeviceInv, deferred' \in deferred_action,
           NEW n \in 0 .. T, action_entry_upload(n)
    PROVE  DeviceInv'
  <1>1. PICK c \in ConnectIfNeeded :
          IF c.ret = "OK" THEN UploadFrom(c.flash, n) ELSE CannotConnect(c.flash)
    BY DEF action_entry_upload
  <1>2. UNCHANGED <<flash_finalised, sub, download>>
    BY DEF action_entry_upload
  <1>3. c.flash \in flash_session
    BY Connects DEF DeviceInv
  <1>4. CASE c.ret # "OK"
    BY <1>1, <1>2, <1>3, <1>4, ConnectFails
  <1>5. CASE c.ret = "OK"
    <2>1. PICK s \in flash_start_read(c.flash) :
            CASE s.ret = "OK" -> FirstBlock(s.flash, n)
              [] s.ret = "READ_NO_IMAGE" ->
                   /\ normal_transition("UPLOAD_IDLE")
                   /\ Respond("SUCCESS", "none")
                   /\ read_length' = 0 /\ fifo' = 0 /\ delivered' = 0
                   /\ flash' = s.flash
              [] OTHER ->
                   /\ error_condition("errFILE")
                   /\ Respond("ERROR", "none")
                   /\ fifo' = 0 /\ delivered' = 0 /\ flash' = s.flash
                   /\ UNCHANGED read_length
      BY <1>1, <1>5 DEF UploadFrom
    <2>2. /\ s.flash = c.flash
          /\ s.ret = "OK" => c.flash.upgrade_image_valid = 1
          /\ s.ret = "READ_NO_IMAGE" => c.flash.upgrade_image_valid = 0
      BY <1>3, StartRead
    <2>3. 0 \in 0 .. P /\ 0 \in 0 .. MaxImage /\ 0 \in -T .. MaxImage
      BY FlashAssumption, DeviceAssumption DEF FlashAssumption, DeviceAssumption, P, T
    <2>4. CASE s.ret = "OK"
      BY <1>2, <1>3, <2>1, <2>2, <2>4, FirstBlockStep
    <2>5. CASE s.ret = "READ_NO_IMAGE"
      <3>1. /\ state' = "UPLOAD_IDLE" /\ status' = "OK"
            /\ read_length' = 0 /\ fifo' = 0 /\ delivered' = 0 /\ flash' = c.flash
        BY <2>1, <2>2, <2>5 DEF normal_transition
      <3>2. resp' \in dfu_cmd_response
        BY <2>1, <2>5, ResponseType DEF dfu_api_status, deferred_action, PollTimeouts
      <3>3. TypeOK'
        BY <1>2, <1>3, <2>3, <3>1, <3>2
           DEF DeviceInv, TypeOK, dfu_state, dfu_status, sub, download
      <3> QED
        BY <2>2, <2>5, <3>1, <3>3
           DEF DeviceInv, StatusTellsError, FlashClosedInApp, NeverAWholePageLeft,
               BytesAccounted, ManifestBound, UploadAccounted, AppStates
    <2>6. CASE s.ret \notin {"OK", "READ_NO_IMAGE"}
      <3>1. /\ state' = "DFU_ERROR" /\ status' = "errFILE" /\ Respond("ERROR", "none")
            /\ read_length' = read_length /\ fifo' = 0 /\ delivered' = 0
            /\ flash' = c.flash
        BY <2>1, <2>2, <2>6 DEF error_condition
      <3>2. resp' \in dfu_cmd_response
        BY <3>1, ResponseType DEF dfu_api_status, deferred_action, PollTimeouts
      <3>3. TypeOK'
        BY <1>2, <1>3, <2>3, <3>1, <3>2
           DEF DeviceInv, TypeOK, dfu_state, dfu_status, sub, download
      <3> QED BY <3>1, <3>3, BetweenTransfers
    <2> QED BY <2>4, <2>5, <2>6
  <1> QED BY <1>4, <1>5

LEMMA RevertStep ==
    ASSUME DeviceInv, deferred' \in deferred_action, state = "DFU_IDLE",
           action_revert_factory
    PROVE  DeviceInv'
  <1>1. PICK c \in ConnectIfNeeded :
          IF c.ret = "OK"
          THEN /\ flash' \in RevertErase(c.flash)
               /\ Respond("SUCCESS", "none")
               /\ UNCHANGED <<core, buffer, delivered>>
          ELSE CannotConnect(c.flash)
    BY DEF action_revert_factory
  <1>2. UNCHANGED <<flash_finalised, sub, download>>
    BY DEF action_revert_factory
  <1>3. c.flash \in flash_session
    BY Connects DEF DeviceInv
  <1>4. CASE c.ret # "OK"
    BY <1>1, <1>2, <1>3, <1>4, ConnectFails
  <1>5. CASE c.ret = "OK"
    <2>1. RevertErase(c.flash) \subseteq flash_session
      <3>1. 0 \in 0 .. Sectors
        BY FlashAssumption DEF FlashAssumption
      <3>2. [Erased(c.flash) EXCEPT !.upgrade_image_valid = 0] \in flash_session
        BY <1>3, SessionType DEF flash_session
      <3> QED BY <1>3, <3>1, <3>2, SessionType DEF RevertErase
    <2>2. resp' \in dfu_cmd_response
      BY <1>1, <1>5, ResponseType DEF dfu_api_status, deferred_action, PollTimeouts
    <2>3. TypeOK'
      BY <1>1, <1>2, <1>5, <2>1, <2>2
         DEF DeviceInv, TypeOK, core, buffer, sub, download
    <2> QED
      BY <1>1, <1>5, <2>3, BetweenTransfers DEF DeviceInv, StatusTellsError, core
  <1> QED BY <1>4, <1>5

LEMMA DfuIdle ==
    ASSUME DeviceInv, deferred' \in deferred_action, state = "DFU_IDLE",
           NEW r, state_dfu_idle(r)
    PROVE  DeviceInv'
  <1>1. CASE r.cmd = "FLASH_CONNECT"
    <2>1. PICK c \in flash_init(flash) :
            /\ flash' = c.flash
            /\ IF c.ret = "OK"
               THEN Respond("SUCCESS", "none") /\ UNCHANGED core
               ELSE Respond("ERROR", "none") /\ error_condition("errTARGET")
            /\ UNCHANGED <<buffer, flash_finalised, sub, download, delivered>>
      BY <1>1 DEF state_dfu_idle
    <2>2. flash' \in flash_session
      BY <2>1, FlashInit DEF DeviceInv, TypeOK
    <2>3. resp' \in dfu_cmd_response
      BY <2>1, ResponseType DEF dfu_api_status, deferred_action, PollTimeouts
    <2>4. \/ state' = state /\ status' = status
          \/ state' = "DFU_ERROR" /\ status' = "errTARGET"
      BY <2>1 DEF core, error_condition
    <2>5. TypeOK'
      BY <2>1, <2>2, <2>3, <2>4
         DEF DeviceInv, TypeOK, buffer, sub, download, dfu_state, dfu_status
    <2> QED BY <2>4, <2>5, BetweenTransfers DEF DeviceInv, StatusTellsError
  <1>2. CASE action_revert_factory
    BY <1>2, RevertStep
  <1>3. CASE \E act \in {"none", "REVERT_FACTORY"} : Stay("SUCCESS", act)
    BY <1>3, Stays DEF dfu_api_status, deferred_action
  <1>4. CASE LeaveDfu
    BY <1>4, LeaveStep
  <1>5. CASE Stall
    BY <1>5, Stalls DEF Stall, dfu_status
  <1> QED BY <1>1, <1>2, <1>3, <1>4, <1>5 DEF state_dfu_idle

\* Programming a page moves its bytes from the fifo to the flash; when it fails
\* they are gone.
LEMMA Drains ==
    ASSUME TypeOK, programmed + fifo <= MaxImage, NEW w, DrainPage(w)
    PROVE  /\ fifo' \in 0 .. P /\ fifo' <= fifo
           /\ programmed' \in 0 .. MaxImage
           /\ programmed' + fifo' <= programmed + fifo
           /\ w.ret = "OK" => programmed' + fifo' = programmed + fifo
  <1>1. /\ P \in Nat /\ MaxImage \in Nat
        /\ fifo \in Nat /\ fifo <= P /\ programmed \in Nat
    BY FlashAssumption, DeviceAssumption
       DEF FlashAssumption, DeviceAssumption, TypeOK, P
  <1>2. PageBytes \in Nat /\ PageBytes <= fifo
    BY <1>1 DEF PageBytes, Least
  <1> QED BY <1>1, <1>2 DEF DrainPage, ProgrammedAfter

LEMMA ProcessDnload ==
    ASSUME TypeOK, programmed + fifo <= MaxImage, NEW st, sub_sm_process_dnload(st)
    PROVE  /\ st \in {"OK", "errWRITE", "errERASE", "errTARGET"}
           /\ flash' \in flash_session
           /\ sub_state' \in {"SYNC", "ERASING", "WRITING"}
           /\ poll_timeout' \in PollTimeouts
           /\ fifo' \in 0 .. P /\ fifo' <= fifo
           /\ programmed' \in 0 .. MaxImage
           /\ programmed' + fifo' <= programmed + fifo
           /\ st = "OK" => programmed' + fifo' = programmed + fifo
  <1> DEFINE Kept == /\ fifo' \in 0 .. P /\ fifo' <= fifo
                     /\ programmed' \in 0 .. MaxImage
                     /\ programmed' + fifo' <= programmed + fifo
                     /\ programmed' + fifo' = programmed + fifo
  <1>1. UNCHANGED <<fifo, programmed>> => Kept
    BY FlashAssumption, DeviceAssumption
       DEF FlashAssumption, DeviceAssumption, TypeOK, P
  <1>2. CASE DnloadSync(st)
    <2>1. PICK c \in IF flash_is_connected(flash) THEN {Result("OK", flash)}
                                                   ELSE flash_init(flash) :
            IF c.ret # "OK"
            THEN /\ st = "errWRITE" /\ flash' = c.flash
                 /\ UNCHANGED sub_state
                 /\ poll_timeout' = POLL_TIMEOUT_DNLOAD_ENTRY_MSEC
            ELSE \E e \in flash_erase_sector_async(c.flash) :
                   /\ flash' = e.flash
                   /\ IF e.ret \in {"OK", "BUSY"}
                      THEN /\ st = "OK"
                           /\ sub_state' = "ERASING"
                           /\ poll_timeout' = POLL_TIMEOUT_DNLOAD_ERASE_MSEC
                      ELSE /\ st = "errERASE"
                           /\ UNCHANGED sub_state
                           /\ poll_timeout' = POLL_TIMEOUT_DNLOAD_ENTRY_MSEC
      BY <1>2 DEF DnloadSync
    <2>2. c.flash \in flash_session
      BY FlashInit DEF TypeOK, Result
    <2>3. flash' \in flash_session
      BY <2>1, <2>2, EraseSector
    <2>4. Kept
      BY <1>1, <1>2 DEF DnloadSync
    <2>5. /\ st \in {"OK", "errWRITE", "errERASE"}
          /\ sub_state' \in {"SYNC", "ERASING", "WRITING"}
          /\ poll_timeout' \in PollTimeouts
      BY <2>1
         DEF TypeOK, PollTimeouts, POLL_TIMEOUT_DNLOAD_ENTRY_MSEC,
             POLL_TIMEOUT_DNLOAD_ERASE_MSEC
    <2> QED BY <2>3, <2>4, <2>5
  <1>3. CASE DnloadErasing(st)
    <2>1. PICK e \in sub_sm_erase_sectors(flash) :
            IF e.ret = "OK"
            THEN \E w \in sub_sm_flash_write_page(e.flash) :
                   /\ st = w.ret /\ flash' = w.flash
                   /\ DrainPage(w)
                   /\ sub_state' = "WRITING"
                   /\ poll_timeout' = POLL_TIMEOUT_DNLOAD_FIRST_WRITE_MSEC
            ELSE /\ st = IF e.ret = "NOTDONE" THEN "OK" ELSE "errERASE"
                 /\ flash' = e.flash
                 /\ poll_timeout' = POLL_TIMEOUT_DNLOAD_ERASE_MSEC
                 /\ UNCHANGED <<sub_state, fifo, programmed>>
      BY <1>3 DEF DnloadErasing
    <2>2. e.flash \in flash_session
      BY EraseSectors DEF TypeOK
    <2>3. CASE e.ret = "OK"
      <3>1. PICK w \in sub_sm_flash_write_page(e.flash) :
              /\ st = w.ret /\ flash' = w.flash
              /\ DrainPage(w)
              /\ sub_state' = "WRITING"
              /\ poll_timeout' = POLL_TIMEOUT_DNLOAD_FIRST_WRITE_MSEC
        BY <2>1, <2>3
      <3> QED
        BY <2>2, <3>1, WritePage, Drains
           DEF PollTimeouts, POLL_TIMEOUT_DNLOAD_FIRST_WRITE_MSEC
    <2>4. CASE e.ret # "OK"
      BY <1>1, <2>1, <2>2, <2>4
         DEF TypeOK, PollTimeouts, POLL_TIMEOUT_DNLOAD_ERASE_MSEC
    <2> QED BY <2>3, <2>4
  <1>4. CASE DnloadWriting(st)
    <2>1. PICK w \in sub_sm_flash_write_page(flash) :
            st = w.ret /\ flash' = w.flash /\ DrainPage(w)
      BY <1>4 DEF DnloadWriting
    <2>2. sub_state' = sub_state /\ poll_timeout' = POLL_TIMEOUT_DNLOAD_WRITE_MSEC
      BY <1>4 DEF DnloadWriting
    <2> QED
      BY <2>1, <2>2, WritePage, Drains
         DEF TypeOK, PollTimeouts, POLL_TIMEOUT_DNLOAD_WRITE_MSEC
  <1> QED BY <1>2, <1>3, <1>4 DEF sub_sm_process_dnload

LEMMA ProcessManifest ==
    ASSUME TypeOK, programmed + fifo <= MaxImage,
           NEW st, NEW finalised \in {0, 1}, sub_sm_process_manifest(st, finalised)
    PROVE  /\ st \in {"OK", "errWRITE", "errERASE", "errTARGET", "errPROG"}
           /\ flash' \in flash_session
           /\ sub_state' \in {"SYNC", "ERASING", "WRITING"}
           /\ poll_timeout' \in PollTimeouts
           /\ fifo' \in 0 .. P /\ fifo' <= fifo
           /\ programmed' \in 0 .. MaxImage
           /\ programmed' + fifo' <= programmed + fifo
  <1>1. CASE sub_state # "WRITING"
    BY <1>1, ProcessDnload DEF sub_sm_process_manifest
  <1>2. CASE sub_state = "WRITING"
    <2>1. PICK w \in sub_sm_flash_write_page(flash) :
            /\ DrainPage(w)
            /\ IF fifo = PageBytes
               THEN \E e \in flash_finalise_write(w.flash, ProgrammedAfter(w), accepted) :
                      /\ flash' = e.flash
                      /\ finalised = IF e.ret = "OK" THEN 1 ELSE 0
                      /\ st = IF e.ret = "OK" THEN "OK" ELSE "errPROG"
               ELSE st = w.ret /\ flash' = w.flash /\ finalised = 0
      BY <1>2 DEF sub_sm_process_manifest, LastPage
    <2>2. w.flash \in flash_session /\ w.ret \in {"OK", "errTARGET", "errWRITE"}
      BY WritePage DEF TypeOK
    <2>3. /\ fifo' \in 0 .. P /\ fifo' <= fifo
          /\ programmed' \in 0 .. MaxImage
          /\ programmed' + fifo' <= programmed + fifo
      BY <2>1, Drains
    <2>4. ProgrammedAfter(w) \in 0 .. MaxImage
      BY <2>1, <2>3 DEF DrainPage
    <2>5. /\ st \in {"OK", "errTARGET", "errWRITE", "errPROG"}
          /\ flash' \in flash_session
      BY <2>1, <2>2, <2>4, FinaliseWrite
    <2>6. /\ sub_state' \in {"SYNC", "ERASING", "WRITING"}
          /\ poll_timeout' \in PollTimeouts
      BY <1>2 DEF sub_sm_process_manifest, LastPage, PollTimeouts,
                  POLL_TIMEOUT_DNLOAD_MANIFEST_MSEC
    <2> QED BY <2>3, <2>5, <2>6
  <1> QED BY <1>1, <1>2

\* A sub state machine result leaves the state or makes it dfuERROR.
LEMMA SubSmResult ==
    ASSUME DeviceInv, NEW st \in dfu_status, AfterSubSm(st)
    PROVE  /\ resp' \in dfu_cmd_response
           /\ \/ st = "OK" /\ state' = state /\ status' = status
              \/ st # "OK" /\ state' = "DFU_ERROR" /\ status' = st
  <1>1. resp' \in dfu_cmd_response
    BY ResponseType DEF AfterSubSm, dfu_api_status, deferred_action, PollTimeouts
  <1> QED BY <1>1 DEF AfterSubSm, error_condition, core

LEMMA BadStatus ==
    ASSUME DeviceInv, deferred' \in deferred_action, BadGetStatus
    PROVE  DeviceInv'
  <1>1. resp' \in dfu_cmd_response
    BY ResponseType DEF BadGetStatus, dfu_api_status, deferred_action, PollTimeouts
  <1> QED BY <1>1, FailStep DEF BadGetStatus, dfu_status

LEMMA DnloadSyncStep ==
    ASSUME DeviceInv, deferred' \in deferred_action, state = "DNLOAD_SYNC",
           NEW r, state_dnload_sync(r)
    PROVE  DeviceInv'
  <1>1. CASE r.cmd = "FLASH_WRITE"
    <2>1. PICK st \in dfu_status : sub_sm_process_dnload(st) /\ AfterSubSm(st)
      BY <1>1 DEF state_dnload_sync
    <2>2. UNCHANGED <<read_length, flash_finalised, accepted, delivered>>
      BY <1>1 DEF state_dnload_sync
    <2>3. TypeOK /\ accepted = programmed + fifo /\ programmed + fifo <= MaxImage
      BY FlashAssumption DEF FlashAssumption, DeviceInv, BytesAccounted, TypeOK
    <2>4. /\ flash' \in flash_session
          /\ sub_state' \in {"SYNC", "ERASING", "WRITING"}
          /\ poll_timeout' \in PollTimeouts
          /\ fifo' \in 0 .. P /\ programmed' \in 0 .. MaxImage
          /\ st = "OK" => programmed' + fifo' = programmed + fifo
      BY <2>1, <2>3, ProcessDnload
    <2>5. /\ resp' \in dfu_cmd_response
          /\ \/ st = "OK" /\ state' = state /\ status' = status
             \/ st # "OK" /\ state' = "DFU_ERROR" /\ status' = st
      BY <2>1, SubSmResult
    <2>6. TypeOK'
      BY <2>2, <2>3, <2>4, <2>5 DEF TypeOK, dfu_state
    <2>7. CASE st # "OK"
      BY <2>5, <2>6, <2>7, BetweenTransfers
    <2>8. CASE st = "OK"
      BY <2>2, <2>3, <2>4, <2>5, <2>6, <2>8
         DEF DeviceInv, StatusTellsError, FlashClosedInApp, NeverAWholePageLeft,
             BytesAccounted, ManifestBound, UploadAccounted, AppStates
    <2> QED BY <2>7, <2>8
  <1>2. CASE r.cmd = "GETSTATUS" /\ r.n = 1
    <2>1. UNCHANGED <<buffer, flash_finalised, sub, flash, download, delivered>>
      BY <1>2 DEF state_dnload_sync
    <2>2. /\ status' = "OK"
          /\ \/ state' = "DNLOAD_SYNC" /\ build_status(poll_timeout, "FLASH_WRITE")
             \/ state' = "DNLOAD_IDLE" /\ build_status(0, "none") /\ ~dfufifo_is_page_ready
      BY <1>2 DEF state_dnload_sync, normal_transition
    <2>3. resp' \in dfu_cmd_response
      BY <2>2, ResponseType
         DEF DeviceInv, TypeOK, dfu_api_status, deferred_action, PollTimeouts
    <2>4. ~dfufifo_is_page_ready => fifo < P
      BY DeviceAssumption DEF DeviceAssumption, DeviceInv, TypeOK, dfufifo_is_page_ready, P
    <2>5. sub_state' \in {"SYNC", "ERASING", "WRITING"} /\ poll_timeout' \in PollTimeouts
      BY <2>1 DEF DeviceInv, TypeOK, sub
    <2> QED
      BY <2>1, <2>2, <2>3, <2>4, <2>5, QuietStep DEF dfu_state, SyncStates, dfu_status, AppStates
  <1>3. CASE BadGetStatus
    BY <1>3, BadStatus
  <1>4. CASE Stall
    BY <1>4, Stalls DEF Stall, dfu_status
  <1> QED BY <1>1, <1>2, <1>3, <1>4 DEF state_dnload_sync

LEMMA ManifestSyncStep ==
    ASSUME DeviceInv, deferred' \in deferred_action, state = "MANIFEST_SYNC",
           NEW r, state_manifest_sync(r)
    PROVE  DeviceInv'
  <1>1. CASE r.cmd = "FLASH_MANIFEST"
    <2>1. PICK st \in dfu_status, finalised \in {0, 1} :
            /\ sub_sm_process_manifest(st, finalised)
            /\ AfterSubSm(st)
            /\ flash_finalised' = IF st = "OK" THEN finalised ELSE flash_finalised
      BY <1>1 DEF state_manifest_sync
    <2>2. UNCHANGED <<read_length, accepted, delivered>>
      BY <1>1 DEF state_manifest_sync
    <2>3. TypeOK /\ programmed + fifo <= accepted /\ programmed + fifo <= MaxImage
      BY FlashAssumption, DeviceAssumption
         DEF FlashAssumption, DeviceAssumption, DeviceInv, ManifestBound, TypeOK, P
    <2>4. /\ flash' \in flash_session
          /\ sub_state' \in {"SYNC", "ERASING", "WRITING"}
          /\ poll_timeout' \in PollTimeouts
          /\ fifo' \in 0 .. P /\ fifo' <= fifo
          /\ programmed' \in 0 .. MaxImage
          /\ programmed' + fifo' <= programmed + fifo
      BY <2>1, <2>3, ProcessManifest
    <2>5. /\ resp' \in dfu_cmd_response
          /\ \/ st = "OK" /\ state' = state /\ status' = status
             \/ st # "OK" /\ state' = "DFU_ERROR" /\ status' = st
      BY <2>1, SubSmResult
    <2>6. flash_finalised' \in {0, 1}
      BY <2>1 DEF DeviceInv, TypeOK
    <2>7. TypeOK'
      BY <2>2, <2>3, <2>4, <2>5, <2>6 DEF TypeOK, dfu_state
    <2>8. CASE st # "OK"
      BY <2>5, <2>7, <2>8, BetweenTransfers
    <2>9. CASE st = "OK"
      <3>1. /\ P \in Int /\ MaxImage \in Int /\ fifo \in Int /\ fifo' \in Int
            /\ programmed \in Int /\ programmed' \in Int /\ accepted \in Int
        BY <2>3, <2>4, DeviceAssumption, FlashAssumption
           DEF DeviceAssumption, FlashAssumption, TypeOK, P
      <3>2. fifo < P
        BY DEF DeviceInv, NeverAWholePageLeft
      <3>3. fifo' < P
        BY <2>4, <3>1, <3>2
      <3>4. programmed' + fifo' <= accepted'
        <4>1. programmed + fifo \in Int /\ programmed' + fifo' \in Int
          BY <3>1
        <4>2. programmed' + fifo' <= accepted
          BY <2>3, <2>4, <3>1, <4>1, AtMost
        <4> QED BY <2>2, <4>2
      <3> QED
        BY <2>2, <2>5, <2>7, <2>9, <3>3, <3>4
           DEF DeviceInv, StatusTellsError, FlashClosedInApp, NeverAWholePageLeft,
               BytesAccounted, ManifestBound, UploadAccounted, AppStates
    <2> QED BY <2>8, <2>9
  <1>2. CASE r.cmd = "GETSTATUS" /\ r.n = 1
    <2>1. CASE DownloadDone
      <3>1. /\ state' = "DFU_IDLE" /\ status' = "OK" /\ flash_finalised' = 0
            /\ accepted' = 0 /\ programmed' = 0 /\ delivered' = 0
            /\ UNCHANGED <<fifo, read_length, sub_state, poll_timeout, flash>>
        BY <1>2, <2>1
           DEF state_manifest_sync, normal_transition, NoTransfer, buffer, sub
      <3>2. resp' \in dfu_cmd_response
        BY <1>2, <2>1, ResponseType
           DEF state_manifest_sync, dfu_api_status, deferred_action, PollTimeouts
      <3>3. 0 \in 0 .. MaxImage
        BY FlashAssumption DEF FlashAssumption
      <3>4. TypeOK'
        BY <3>1, <3>2, <3>3 DEF DeviceInv, TypeOK, dfu_state, dfu_status
      <3> QED BY <3>1, <3>4, BetweenTransfers
    <2>2. CASE ~DownloadDone
      <3>1. /\ state' = "MANIFEST_SYNC" /\ status' = "OK"
            /\ build_status(poll_timeout, "FLASH_MANIFEST")
            /\ UNCHANGED <<buffer, flash_finalised, sub, flash, download, delivered>>
        BY <1>2, <2>2 DEF state_manifest_sync, normal_transition
      <3>2. resp' \in dfu_cmd_response
        BY <3>1, ResponseType
           DEF DeviceInv, TypeOK, dfu_api_status, deferred_action, PollTimeouts
      <3>3. /\ sub_state' \in {"SYNC", "ERASING", "WRITING"} /\ poll_timeout' \in PollTimeouts
        BY <3>1 DEF DeviceInv, TypeOK, sub
      <3>4. fifo < P
        BY DEF DeviceInv, NeverAWholePageLeft
      <3>5. state' \in dfu_state /\ status' \in dfu_status /\ state' \notin AppStates
        BY <3>1 DEF dfu_state, SyncStates, dfu_status, AppStates
      <3> QED BY <3>1, <3>2, <3>3, <3>4, <3>5, QuietStep
    <2> QED BY <2>1, <2>2
  <1>3. CASE BadGetStatus
    BY <1>3, BadStatus
  <1>4. CASE Stall
    BY <1>4, Stalls DEF Stall, dfu_status
  <1> QED BY <1>1, <1>2, <1>3, <1>4 DEF state_manifest_sync

LEMMA DownloadIdleStep ==
    ASSUME DeviceInv, deferred' \in deferred_action, state = "DNLOAD_IDLE",
           NEW n \in 0 .. T, state_download_idle(n)
    PROVE  DeviceInv'
  <1>1. CASE MoveTo("MANIFEST_SYNC", "SUCCESS", "none")
    BY <1>1, MoveToStep
       DEF dfu_state, SyncStates, AppStates, dfu_api_status, deferred_action
  <1>2. CASE Fail("errFILE")
    BY <1>2, Stalls DEF dfu_status
  <1>3. CASE /\ FifoTakes(n) /\ accepted + n <= MaxImage
             /\ fifo' = fifo + n /\ accepted' = accepted + n
             /\ normal_transition("DNLOAD_SYNC")
             /\ Respond("SUCCESS", "none")
             /\ UNCHANGED <<read_length, flash_finalised, sub, flash,
                            programmed, delivered>>
    <2>1. resp' \in dfu_cmd_response
      BY <1>3, ResponseType DEF dfu_api_status, deferred_action, PollTimeouts
    <2>2. /\ fifo' \in 0 .. P /\ accepted' \in 0 .. MaxImage
          /\ accepted' = programmed' + fifo'
      BY <1>3, DeviceAssumption, FlashAssumption
         DEF DeviceAssumption, FlashAssumption, DeviceInv, TypeOK, BytesAccounted,
             FifoTakes, P, T
    <2>3. state' = "DNLOAD_SYNC" /\ status' = "OK"
      BY <1>3 DEF normal_transition
    <2>4. TypeOK'
      BY <1>3, <2>1, <2>2, <2>3 DEF DeviceInv, TypeOK, dfu_state, SyncStates, dfu_status, sub
    <2> QED
      BY <2>2, <2>3, <2>4
         DEF DeviceInv, StatusTellsError, FlashClosedInApp, NeverAWholePageLeft,
             BytesAccounted, ManifestBound, UploadAccounted, AppStates
  <1> QED BY <1>1, <1>2, <1>3 DEF state_download_idle

LEMMA NextBlockStep ==
    ASSUME DeviceInv, deferred' \in deferred_action, state = "UPLOAD_IDLE",
           read_length > 0, NEW n \in 0 .. T, NextBlock(n)
    PROVE  DeviceInv'
  <1>1. PICK u \in upload_block(flash, fifo, n) :
          /\ fifo' = u.fifo /\ flash' = u.flash
          /\ IF u.ret = "SUCCESS"
             THEN /\ IF read_length < n THEN normal_transition("DFU_IDLE")
                                        ELSE UNCHANGED core
                  /\ Respond("SUCCESS", "none")
                  /\ delivered' = delivered + Least(read_length, n)
                  /\ read_length' = read_length - n
             ELSE /\ error_condition("errFILE")
                  /\ Respond("ERROR", "none")
                  /\ UNCHANGED <<read_length, delivered>>
          /\ UNCHANGED <<flash_finalised, sub, download>>
    BY DEF NextBlock
  <1>2. fifo' \in 0 .. P /\ flash' = flash
    BY <1>1, UploadBlock DEF DeviceInv, TypeOK
  <1>3. resp' \in dfu_cmd_response
    BY <1>1, ResponseType DEF dfu_api_status, deferred_action, PollTimeouts
  <1>4. CASE u.ret # "SUCCESS"
    <2>1. /\ state' = "DFU_ERROR" /\ status' = "errFILE"
          /\ read_length' = read_length /\ delivered' = delivered
      BY <1>1, <1>4 DEF error_condition
    <2>2. TypeOK'
      BY <1>1, <1>2, <1>3, <2>1
         DEF DeviceInv, TypeOK, dfu_state, dfu_status, sub, download
    <2> QED BY <2>1, <2>2, BetweenTransfers
  <1>5. CASE u.ret = "SUCCESS"
    <2>1. /\ delivered' = delivered + Least(read_length, n)
          /\ read_length' = read_length - n
          /\ IF read_length < n THEN state' = "DFU_IDLE" /\ status' = "OK"
                                ELSE state' = state /\ status' = status
      BY <1>1, <1>5 DEF normal_transition, core
    <2>2. /\ read_length \in Nat /\ delivered \in Nat /\ n \in Nat /\ T \in Nat /\ n <= T
          /\ MaxImage \in Nat /\ delivered + read_length <= MaxImage
          /\ delivered + read_length = IF flash.upgrade_image_valid = 1
                                       THEN flash.size ELSE 0
      BY DeviceAssumption, FlashAssumption
         DEF DeviceAssumption, FlashAssumption, DeviceInv, TypeOK, UploadAccounted,
             flash_session, T
    <2>3. /\ read_length' \in -T .. MaxImage /\ delivered' \in 0 .. MaxImage
          /\ read_length >= n =>
               delivered' + (IF read_length' > 0 THEN read_length' ELSE 0)
                   = delivered + read_length
      BY <2>1, <2>2 DEF Least
    <2>4. TypeOK'
      BY <1>1, <1>2, <1>3, <2>1, <2>3
         DEF DeviceInv, TypeOK, dfu_state, dfu_status, sub, download
    <2>5. CASE read_length < n
      BY <2>1, <2>4, <2>5, BetweenTransfers
    <2>6. CASE ~(read_length < n)
      BY <1>2, <2>1, <2>2, <2>3, <2>4, <2>6
         DEF DeviceInv, StatusTellsError, FlashClosedInApp, NeverAWholePageLeft,
             BytesAccounted, ManifestBound, UploadAccounted, AppStates
    <2> QED BY <2>5, <2>6
  <1> QED BY <1>4, <1>5

LEMMA ClearErrorStep ==
    ASSUME DeviceInv, deferred' \in deferred_action, NEW r, ClearError(r)
    PROVE  DeviceInv'
  <1>1. CASE r.cmd = "CLRSTATUS"
    <2>1. /\ state' = "DFU_IDLE" /\ status' = "OK"
          /\ sub_state' = "SYNC" /\ poll_timeout' = 150
          /\ accepted' = 0 /\ programmed' = 0 /\ delivered' = 0
          /\ UNCHANGED <<fifo, read_length, flash_finalised, flash>>
      BY <1>1 DEF ClearError, normal_transition, sub_sm_clear, NoTransfer, buffer,
                  POLL_TIMEOUT_DNLOAD_ENTRY_MSEC
    <2>2. resp' \in dfu_cmd_response
      BY <1>1, ResponseType DEF ClearError, dfu_api_status, deferred_action, PollTimeouts
    <2>3. 0 \in 0 .. MaxImage
      BY FlashAssumption DEF FlashAssumption
    <2>4. TypeOK'
      BY <2>1, <2>2, <2>3 DEF DeviceInv, TypeOK, dfu_state, dfu_status, PollTimeouts
    <2> QED BY <2>1, <2>4, BetweenTransfers
  <1>2. CASE Stay("BAD_PARAM", "none")
    BY <1>2, Stays DEF dfu_api_status, deferred_action
  <1> QED BY <1>1, <1>2 DEF ClearError

LEMMA UploadIdleStep ==
    ASSUME DeviceInv, deferred' \in deferred_action, state = "UPLOAD_IDLE",
           NEW n \in 0 .. T, state_upload_idle(n)
    PROVE  DeviceInv'
  <1>1. CASE read_length <= 0
    BY <1>1, MoveToStep
       DEF state_upload_idle, dfu_state, AppStates, dfu_api_status, deferred_action
  <1>2. CASE ~(read_length <= 0)
    <2>1. read_length > 0
      BY <1>2, FlashAssumption, DeviceAssumption
         DEF FlashAssumption, DeviceAssumption, DeviceInv, TypeOK, T
    <2> QED BY <1>2, <2>1, NextBlockStep DEF state_upload_idle
  <1> QED BY <1>1, <1>2

-----------------------------------------------------------------------------
(* Requests, and the steps of the server.                                  *)

\* Whatever the request, in whatever state.
LEMMA RequestStep ==
    ASSUME DeviceInv, deferred' \in deferred_action,
           NEW r, r.cmd \in {"DNLOAD", "UPLOAD"} => r.n \in 0 .. T,
           dfu_request_with_arguments(r)
    PROVE  DeviceInv'
  <1>1. CASE ReportDescriptor
    <2>1. resp' \in dfu_cmd_response
      BY <1>1, ResponseType
         DEF ReportDescriptor, dfu_api_status, deferred_action, PollTimeouts
    <2> QED BY <1>1, <2>1, StayStep DEF ReportDescriptor
  <1>2. CASE ReportState(r)
    <2>1. resp' \in dfu_cmd_response
      BY <1>2, ResponseType
         DEF ReportState, dfu_api_status, deferred_action, PollTimeouts
    <2> QED BY <1>2, <2>1, StayStep DEF ReportState
  <1>3. CASE LeaveDfu
    BY <1>3, LeaveStep
  <1>4. CASE HandleByState(r)
    <2>1. CASE state = "APP_IDLE"
      BY <1>4, <2>1, AppIdle DEF HandleByState
    <2>2. CASE state = "APP_DETACH"
      BY <1>4, <2>2, DetachStateStep DEF HandleByState
    <2>3. CASE state = "DFU_IDLE"
      BY <1>4, <2>3, EntryDnload, EntryUpload, DfuIdle DEF HandleByState
    <2>4. CASE state = "DNLOAD_SYNC"
      BY <1>4, <2>4, DnloadSyncStep DEF HandleByState
    <2>5. CASE state = "MANIFEST_SYNC"
      BY <1>4, <2>5, ManifestSyncStep DEF HandleByState
    <2>6. CASE state = "DNLOAD_IDLE"
      BY <1>4, <2>6, DownloadIdleStep, Stalls DEF HandleByState, Stall, dfu_status
    <2>7. CASE state = "UPLOAD_IDLE"
      <3>1. CASE MoveTo("DFU_IDLE", "SUCCESS", "none")
        BY <2>7, <3>1, MoveToStep DEF dfu_state, AppStates, dfu_api_status, deferred_action
      <3> QED
        BY <1>4, <2>7, <3>1, UploadIdleStep, Stalls DEF HandleByState, Stall, dfu_status
    <2>8. CASE state = "DFU_ERROR"
      BY <1>4, <2>8, ClearErrorStep DEF HandleByState
    <2> QED
      BY <2>1, <2>2, <2>3, <2>4, <2>5, <2>6, <2>7, <2>8
         DEF DeviceInv, TypeOK, dfu_state, AppStates, SyncStates
  <1> QED BY <1>1, <1>2, <1>3, <1>4 DEF dfu_request_with_arguments

\* How a request of the host may be answered: only GETSTATUS in DNLOAD_SYNC with a
\* page ready defers a write, no request starts the sub state machine, and those
\* that leave the server with what it holds keep a full page or clear the sub
\* state machine.
AnswerShape ==
    /\ resp' \in dfu_cmd_response
    /\ sub_state' \in {sub_state, "SYNC"}
    /\ resp'.deferred = "FLASH_WRITE" =>
           state' = "DNLOAD_SYNC" /\ fifo' = fifo /\ dfufifo_is_page_ready
    /\ resp'.deferred \in {"none", "REBOOT_TO_DFU"} =>
           /\ state = "DNLOAD_SYNC" =>
                \/ state' = "DNLOAD_SYNC" /\ fifo' = fifo
                \/ state' = "DFU_ERROR"
                \/ ~dfufifo_is_page_ready
           /\ state = "DFU_ERROR" => state' = "DFU_ERROR" \/ sub_state' = "SYNC"

LEMMA ShapeOfOthers ==
    ASSUME NEW st \in dfu_api_status, NEW act \in deferred_action \ {"FLASH_WRITE"},
           Respond(st, act), UNCHANGED sub_state,
           state \notin {"DNLOAD_SYNC", "DFU_ERROR"} \/ state' = "DFU_ERROR"
               \/ UNCHANGED <<state, fifo>> \/ act = "REBOOT"
    PROVE  AnswerShape
  <1>1. resp' \in dfu_cmd_response
    BY ResponseType DEF PollTimeouts
  <1>2. resp'.deferred = act
    BY DEF Respond
  <1> QED BY <1>1, <1>2 DEF AnswerShape

\* The answers the handlers share.
LEMMA ShapeOfShared ==
    /\ Stall => AnswerShape
    /\ \A st \in {"SUCCESS", "BAD_PARAM"}, act \in {"none", "REVERT_FACTORY"} :
           Stay(st, act) => AnswerShape
    /\ LeaveDfu => AnswerShape
    /\ BadGetStatus => AnswerShape
  <1> USE DEF dfu_api_status, deferred_action, core, buffer, sub
  <1>1. Stall => AnswerShape
    BY ShapeOfOthers DEF Stall, Fail, error_condition
  <1>2. \A st \in {"SUCCESS", "BAD_PARAM"}, act \in {"none", "REVERT_FACTORY"} :
           Stay(st, act) => AnswerShape
    BY ShapeOfOthers DEF Stay
  <1>3. LeaveDfu => AnswerShape
    BY ShapeOfOthers DEF LeaveDfu
  <1>4. ASSUME BadGetStatus PROVE AnswerShape
    <2>1. resp' \in dfu_cmd_response
      BY <1>4, ResponseType DEF BadGetStatus, PollTimeouts
    <2>2. resp'.deferred = "none" /\ state' = "DFU_ERROR" /\ sub_state' = sub_state
      BY <1>4 DEF BadGetStatus, build_status, error_condition
    <2> QED BY <2>1, <2>2 DEF AnswerShape
  <1> QED BY <1>1, <1>2, <1>3, <1>4

\* Upload and revert answers, which depend on the flash.
LEMMA ShapeOfFlash ==
    ASSUME state \in {"DFU_IDLE", "UPLOAD_IDLE"},
           NEW n,
           action_entry_upload(n) \/ NextBlock(n) \/ action_revert_factory
    PROVE  AnswerShape
  <1>1. UNCHANGED sub_state
    BY DEF action_entry_upload, NextBlock, action_revert_factory, sub
  <1>2. \E st \in {"SUCCESS", "ERROR"} : Respond(st, "none")
    BY DEF action_entry_upload, UploadFrom, FirstBlock, NextBlock, action_revert_factory,
           CannotConnect
  <1> QED BY <1>1, <1>2, ShapeOfOthers DEF dfu_api_status, deferred_action

LEMMA HostAnswer ==
    ASSUME DeviceInv, NEW r \in Requests, dfu_request_with_arguments(r)
    PROVE  AnswerShape
  <1> USE DEF dfu_api_status, deferred_action, sub
  <1>1. r.cmd \in {"DNLOAD", "UPLOAD", "GETSTATUS", "GETSTATE", "GET_DESCRIPTOR",
                   "BUS_RESET", "DETACH", "CLRSTATUS", "ABORT", "REVERTFACTORY"}
    BY DEF Requests
  <1>2. CASE ReportDescriptor
    BY <1>2, ShapeOfOthers DEF ReportDescriptor, core, buffer
  <1>3. CASE ReportState(r)
    <2>1. /\ UNCHANGED <<state, fifo, sub_state>>
          /\ Respond("BAD_PARAM", "none") \/ build_status(0, "none")
      BY <1>3 DEF ReportState, core, buffer
    <2>2. resp' \in dfu_cmd_response /\ resp'.deferred = "none"
      BY <2>1, ResponseType DEF PollTimeouts, Respond, build_status
    <2> QED BY <2>1, <2>2 DEF AnswerShape
  <1>4. CASE LeaveDfu
    BY <1>4, ShapeOfShared
  <1>5. CASE HandleByState(r)
    <2>1. CASE state = "APP_IDLE"
      BY <1>5, <2>1, ShapeOfOthers DEF HandleByState, state_app_idle, MoveTo, Stay, core
    <2>2. CASE state = "APP_DETACH"
      <3>1. state_detach(r)
        BY <1>5, <2>2 DEF HandleByState
      <3>2. CASE r.cmd = "BUS_RESET"
        <4>1. sub_state' = "SYNC" /\ \E act \in {"FLASH_CONNECT", "none"} : Respond("SUCCESS", act)
          BY <3>1, <3>2 DEF state_detach, sub_sm_clear
        <4>2. resp' \in dfu_cmd_response /\ resp'.deferred # "FLASH_WRITE"
          BY <4>1, ResponseType DEF Respond, PollTimeouts
        <4> QED BY <2>2, <4>1, <4>2 DEF AnswerShape
      <3>3. CASE r.cmd # "BUS_RESET"
        BY <2>2, <3>1, <3>3, ShapeOfOthers DEF state_detach, MoveTo
      <3> QED BY <3>2, <3>3
    <2>3. CASE state = "DFU_IDLE"
      <3>1. CASE r.cmd = "DNLOAD"
        BY <1>5, <2>3, <3>1, ShapeOfOthers, ShapeOfShared
           DEF HandleByState, action_entry_dnload, Fail, error_condition
      <3>2. CASE r.cmd = "UPLOAD"
        BY <1>5, <2>3, <3>2, ShapeOfFlash DEF HandleByState
      <3>3. CASE r.cmd \notin {"DNLOAD", "UPLOAD"}
        <4>1. state_dfu_idle(r)
          BY <1>5, <2>3, <3>3 DEF HandleByState
        <4> QED
          BY <1>1, <2>3, <4>1, ShapeOfFlash, ShapeOfShared DEF state_dfu_idle
      <3> QED BY <3>1, <3>2, <3>3
    <2>4. CASE state = "DNLOAD_SYNC"
      <3>1. state_dnload_sync(r)
        BY <1>5, <2>4 DEF HandleByState
      <3>2. CASE r.cmd = "GETSTATUS" /\ r.n = 1
        <4>1. /\ sub_state' = sub_state /\ fifo' = fifo
              /\ \/ /\ dfufifo_is_page_ready /\ state' = "DNLOAD_SYNC"
                    /\ build_status(poll_timeout, "FLASH_WRITE")
                 \/ ~dfufifo_is_page_ready /\ build_status(0, "none")
          BY <3>1, <3>2 DEF state_dnload_sync, normal_transition, buffer
        <4>2. poll_timeout \in PollTimeouts /\ 0 \in PollTimeouts
          BY DEF DeviceInv, TypeOK, PollTimeouts
        <4>3. resp' \in dfu_cmd_response
          BY <4>1, <4>2, ResponseType
        <4> QED BY <2>4, <4>1, <4>3 DEF AnswerShape, build_status
      <3>3. CASE BadGetStatus \/ Stall
        BY <3>3, ShapeOfShared
      <3> QED BY <1>1, <3>1, <3>2, <3>3 DEF state_dnload_sync
    <2>5. CASE state = "MANIFEST_SYNC"
      <3>1. state_manifest_sync(r)
        BY <1>5, <2>5 DEF HandleByState
      <3>2. CASE r.cmd = "GETSTATUS" /\ r.n = 1
        <4>1. /\ sub_state' = sub_state
              /\ \/ build_status(poll_timeout, "FLASH_MANIFEST")
                 \/ build_status(0, "none")
          BY <3>1, <3>2 DEF state_manifest_sync
        <4>2. poll_timeout \in PollTimeouts /\ 0 \in PollTimeouts
          BY DEF DeviceInv, TypeOK, PollTimeouts
        <4>3. resp' \in dfu_cmd_response
          BY <4>1, <4>2, ResponseType
        <4> QED BY <2>5, <4>1, <4>3 DEF AnswerShape, build_status
      <3>3. CASE BadGetStatus \/ Stall
        BY <3>3, ShapeOfShared
      <3> QED BY <1>1, <3>1, <3>2, <3>3 DEF state_manifest_sync
    <2>6. CASE state = "DNLOAD_IDLE"
      BY <1>5, <2>6, ShapeOfOthers, ShapeOfShared
         DEF HandleByState, state_download_idle, MoveTo, Fail, error_condition
    <2>7. CASE state = "UPLOAD_IDLE"
      <3>1. CASE MoveTo("DFU_IDLE", "SUCCESS", "none")
        BY <2>7, <3>1, ShapeOfOthers DEF MoveTo
      <3> QED
        BY <1>5, <2>7, <3>1, ShapeOfFlash, ShapeOfShared DEF HandleByState, state_upload_idle
    <2>8. CASE state = "DFU_ERROR"
      <3>1. ClearError(r)
        BY <1>5, <2>8 DEF HandleByState
      <3>2. CASE r.cmd = "CLRSTATUS"
        <4>1. sub_state' = "SYNC" /\ Respond("SUCCESS", "none")
          BY <3>1, <3>2 DEF ClearError, sub_sm_clear
        <4>2. resp' \in dfu_cmd_response /\ resp'.deferred = "none"
          BY <4>1, ResponseType DEF Respond, PollTimeouts
        <4> QED BY <2>8, <4>1, <4>2 DEF AnswerShape
      <3>3. CASE r.cmd # "CLRSTATUS"
        BY <3>1, <3>3, ShapeOfShared DEF ClearError
      <3> QED BY <3>2, <3>3
    <2> QED
      BY <2>1, <2>2, <2>3, <2>4, <2>5, <2>6, <2>7, <2>8
         DEF DeviceInv, TypeOK, dfu_state, AppStates, SyncStates
  <1> QED BY <1>2, <1>3, <1>4, <1>5 DEF dfu_request_with_arguments

-----------------------------------------------------------------------------
(* The invariant.                                                          *)

LEMMA HostRequestStep ==
    ASSUME IInv, HostRequest
    PROVE  IInv'
  <1>1. PICK r \in Requests :
          dfu_request_with_arguments(r) /\ deferred' \in Holds(resp'.deferred)
    BY DEF HostRequest, Answer
  <1>2. AnswerShape
    BY <1>1, HostAnswer DEF IInv
  <1>3. resp'.deferred \in deferred_action
    BY <1>2 DEF AnswerShape, dfu_cmd_response
  <1>4. deferred' \in deferred_action
    BY <1>1, <1>3 DEF Holds, IInv, DeviceInv, TypeOK, deferred_action
  <1>5. DeviceInv'
    BY <1>1, <1>4, RequestStep DEF Requests, IInv
  <1>6. ASSUME deferred' = "FLASH_WRITE"
        PROVE  \/ state' = "DNLOAD_SYNC" /\ fifo' = P
               \/ state' = "DFU_ERROR"
               \/ sub_state' = "SYNC"
    <2>1. dfufifo_is_page_ready => fifo = P
      BY DeviceAssumption
         DEF DeviceAssumption, dfufifo_is_page_ready, IInv, DeviceInv, TypeOK, P
    <2>2. fifo = P => dfufifo_is_page_ready
      BY DeviceAssumption DEF DeviceAssumption, dfufifo_is_page_ready, P
    <2>3. CASE resp'.deferred = "FLASH_WRITE"
      BY <1>2, <2>1, <2>3 DEF AnswerShape
    <2>4. CASE resp'.deferred # "FLASH_WRITE"
      <3>1. /\ deferred = "FLASH_WRITE"
            /\ resp'.deferred \in {"none", "REBOOT_TO_DFU"}
        BY <1>1, <1>3, <1>6, <2>4 DEF Holds, deferred_action
      <3> QED BY <1>2, <2>2, <3>1 DEF AnswerShape, IInv, HeldWrite
    <2> QED BY <2>3, <2>4
  <1> QED BY <1>5, <1>6 DEF IInv, HeldWrite

LEMMA RunDeferredStep ==
    ASSUME IInv, RunDeferred
    PROVE  IInv'
  <1>1. /\ dfu_request_with_arguments([cmd |-> deferred, n |-> 0])
        /\ deferred' = "none" /\ deferred \in deferred_action
    BY DEF RunDeferred, IInv, DeviceInv, TypeOK
  <1>2. [cmd |-> deferred, n |-> 0].cmd \notin {"DNLOAD", "UPLOAD"}
    BY <1>1 DEF deferred_action
  <1> QED BY <1>1, <1>2, RequestStep DEF IInv, HeldWrite, deferred_action

\* A device that has just started satisfies the invariant.
LEMMA BootStep ==
    ASSUME IInv, Boot
    PROVE  IInv'
  <1>1. PoweredUp(flash.slot, flash.size) \in flash_session
    BY FlashAssumption
       DEF FlashAssumption, PoweredUp, IInv, DeviceInv, TypeOK, flash_session
  <1>2. 0 \in 0 .. P /\ 0 \in 0 .. MaxImage /\ 0 \in -T .. MaxImage
    BY FlashAssumption, DeviceAssumption DEF FlashAssumption, DeviceAssumption, P, T
  <1>3. NoResponse \in dfu_cmd_response
    BY DEF NoResponse, dfu_cmd_response, dfu_api_status, deferred_action, PollTimeouts
  <1>4. TypeOK'
    BY <1>1, <1>2, <1>3
       DEF Boot, NoTransfer, TypeOK, dfu_state, AppStates, dfu_status, PollTimeouts,
           deferred_action
  <1> QED
    BY <1>4
       DEF Boot, PoweredUp, IInv, DeviceInv, HeldWrite, StatusTellsError, FlashClosedInApp,
           NeverAWholePageLeft, BytesAccounted, ManifestBound, UploadAccounted

LEMMA TimeoutStep ==
    ASSUME IInv, dfu_timeout_detach
    PROVE  IInv'
  <1>1. /\ state = "APP_DETACH" /\ state' = "APP_IDLE" /\ status' = "OK"
        /\ UNCHANGED <<buffer, flash_finalised, sub, flash, resp, deferred,
                       download, delivered>>
    BY DEF dfu_timeout_detach, normal_transition
  <1>2. /\ sub_state' \in {"SYNC", "ERASING", "WRITING"} /\ poll_timeout' \in PollTimeouts
        /\ resp' \in dfu_cmd_response /\ deferred' \in deferred_action
    BY <1>1 DEF IInv, DeviceInv, TypeOK, sub
  <1>3. DeviceInv'
    BY <1>1, <1>2, QuietStep DEF IInv, dfu_state, AppStates, dfu_status
  <1> QED BY <1>1, <1>3 DEF IInv, HeldWrite, sub

LEMMA InvAtFirst ==
    ASSUME Init
    PROVE  IInv
  <1>1. flash \in flash_session /\ flash.device_open = 0
    BY FlashAssumption DEF Init, FlashAssumption, PoweredUp, flash_session, SlotContent
  <1>2. 0 \in 0 .. P /\ 0 \in 0 .. MaxImage /\ 0 \in -T .. MaxImage
    BY FlashAssumption, DeviceAssumption DEF FlashAssumption, DeviceAssumption, P, T
  <1>3. NoResponse \in dfu_cmd_response
    BY DEF NoResponse, dfu_cmd_response, dfu_api_status, deferred_action, PollTimeouts
  <1>4. TypeOK
    BY <1>1, <1>2, <1>3
       DEF Init, TypeOK, dfu_state, AppStates, dfu_status, PollTimeouts, deferred_action
  <1> QED
    BY <1>1, <1>4
       DEF Init, IInv, DeviceInv, HeldWrite, StatusTellsError, FlashClosedInApp,
           NeverAWholePageLeft, BytesAccounted, ManifestBound, UploadAccounted

LEMMA InvStep ==
    ASSUME IInv, [Next]_vars
    PROVE  IInv'
  <1>1. CASE HostRequest
    BY <1>1, HostRequestStep
  <1>2. CASE RunDeferred
    BY <1>2, RunDeferredStep
  <1>3. CASE dfu_reboot \/ PowerCycle
    BY <1>3, BootStep DEF dfu_reboot, PowerCycle
  <1>4. CASE dfu_timeout_detach
    BY <1>4, TimeoutStep
  <1>5. CASE UNCHANGED vars
    BY <1>5
       DEF vars, core, buffer, sub, download, IInv, DeviceInv, HeldWrite, TypeOK,
           StatusTellsError, FlashClosedInApp, NeverAWholePageLeft, BytesAccounted,
           ManifestBound, UploadAccounted
  <1> QED BY <1>1, <1>2, <1>3, <1>4, <1>5 DEF Next

\* The invariant holds at power-up and survives each step of the device: every
\* request in every state, the deferred actions, reboots and power cycles.
THEOREM Inductive == Spec => []IInv
  <1>1. Init => IInv
    BY InvAtFirst
  <1>2. IInv /\ [Next]_vars => IInv'
    BY InvStep
  <1> QED BY <1>1, <1>2, PTL DEF Spec

\* Every variable of the device keeps its type: the fifo never overflows, what is
\* left to read never falls below one block past the end.
THEOREM TypeCorrect == Spec => []TypeOK
  <1>1. IInv => TypeOK
    BY DEF IInv, DeviceInv
  <1> QED BY <1>1, Inductive, PTL

\* GETSTATUS carries an error exactly in dfuERROR.
THEOREM StatusIsError == Spec => []StatusTellsError
  <1>1. IInv => StatusTellsError
    BY DEF IInv, DeviceInv
  <1> QED BY <1>1, Inductive, PTL

\* Every way back to the application has closed the flash.
THEOREM FlashClosed == Spec => []FlashClosedInApp
  <1>1. IInv => FlashClosedInApp
    BY DEF IInv, DeviceInv
  <1> QED BY <1>1, Inductive, PTL

\* No byte of a download is lost or programmed twice while blocks come in.
THEOREM DownloadAccount == Spec => []BytesAccounted
  <1>1. IInv => BytesAccounted
    BY DEF IInv, DeviceInv
  <1> QED BY <1>1, Inductive, PTL

\* When the last block has come one page write empties the fifo.
THEOREM LessThanAPage == Spec => []NeverAWholePageLeft
  <1>1. IInv => NeverAWholePageLeft
    BY DEF IInv, DeviceInv
  <1> QED BY <1>1, Inductive, PTL

\* What an upload delivered and what it has left make up the image it announced.
THEOREM UploadAccount == Spec => []UploadAccounted
  <1>1. IInv => UploadAccounted
    BY DEF IInv, DeviceInv
  <1> QED BY <1>1, Inductive, PTL

-----------------------------------------------------------------------------
(* Only the last page is padded.                                           *)

\* No request of the host programs a page: only a deferred FLASH_WRITE or
\* FLASH_MANIFEST does.
LEMMA OnlyDeferredPrograms ==
    ASSUME DeviceInv, state = "DNLOAD_SYNC", NEW r, r.cmd # "FLASH_WRITE",
           dfu_request_with_arguments(r)
    PROVE  ~Programs
  <1>1. programmed' = programmed \/ programmed' = 0
    <2>1. CASE state_dnload_sync(r)
      BY <2>1 DEF state_dnload_sync, BadGetStatus, Stall, Fail, download
    <2>2. CASE ReportDescriptor \/ ReportState(r) \/ LeaveDfu
      BY <2>2 DEF ReportDescriptor, ReportState, LeaveDfu, NoTransfer, download
    <2> QED BY <2>1, <2>2 DEF dfu_request_with_arguments, HandleByState
  <1>2. programmed \in Nat
    BY FlashAssumption DEF FlashAssumption, DeviceInv, TypeOK
  <1> QED BY <1>1, <1>2 DEF Programs

\* A write that a server holds finds a full page, or a sub state machine that has
\* not begun to write.
LEMMA HeldWritePrograms ==
    ASSUME IInv, state = "DNLOAD_SYNC", deferred = "FLASH_WRITE", Programs,
           NEW st, sub_sm_process_dnload(st)
    PROVE  programmed' = programmed + P
  <1>1. /\ P \in Nat /\ fifo \in Nat /\ programmed \in Nat
    BY DeviceAssumption, FlashAssumption
       DEF DeviceAssumption, FlashAssumption, IInv, DeviceInv, TypeOK, P
  <1>2. sub_state # "SYNC"
    BY <1>1 DEF sub_sm_process_dnload, DnloadSync, DnloadErasing, DnloadWriting, Programs
  <1>3. fifo = P
    BY <1>2 DEF IInv, HeldWrite
  <1>4. PageBytes = P
    BY <1>1, <1>3 DEF PageBytes, Least
  <1>5. programmed' \in {programmed, programmed + P}
    BY <1>1, <1>2, <1>4
       DEF sub_sm_process_dnload, DnloadSync, DnloadErasing, DnloadWriting, DrainPage,
           ProgrammedAfter
  <1> QED BY <1>1, <1>5 DEF Programs

\* Until the host ends a download every page programmed is a full one, though the
\* server may run a write the host asked for long before.
THEOREM FullPages == Spec => PadsLastPageOnly
  <1>1. ASSUME IInv, [Next]_vars
        PROVE  [state = "DNLOAD_SYNC" /\ Programs => programmed' = programmed + P]_vars
    <2> SUFFICES ASSUME Next, state = "DNLOAD_SYNC", Programs
                 PROVE  programmed' = programmed + P
      BY <1>1
    <2>1. CASE HostRequest
      <3>1. PICK r \in Requests : dfu_request_with_arguments(r)
        BY <2>1 DEF HostRequest, Answer
      <3>2. r.cmd # "FLASH_WRITE"
        BY DEF Requests
      <3> QED BY <1>1, <3>1, <3>2, OnlyDeferredPrograms DEF IInv
    <2>2. CASE RunDeferred
      <3>1. dfu_request_with_arguments([cmd |-> deferred, n |-> 0])
        BY <2>2 DEF RunDeferred
      <3>2. CASE deferred # "FLASH_WRITE"
        BY <1>1, <3>1, <3>2, OnlyDeferredPrograms DEF IInv
      <3>3. CASE deferred = "FLASH_WRITE"
        <4>1. \E st \in dfu_status : sub_sm_process_dnload(st)
          BY <3>1, <3>3
             DEF dfu_request_with_arguments, HandleByState, state_dnload_sync
        <4> QED BY <1>1, <3>3, <4>1, HeldWritePrograms
      <3> QED BY <3>2, <3>3
    <2>3. CASE dfu_reboot \/ PowerCycle \/ dfu_timeout_detach
      <3>1. programmed' = 0 \/ state = "APP_DETACH"
        BY <2>3 DEF dfu_reboot, PowerCycle, Boot, NoTransfer, dfu_timeout_detach
      <3>2. programmed \in Nat
        BY <1>1, FlashAssumption DEF FlashAssumption, IInv, DeviceInv, TypeOK
      <3> QED BY <3>1, <3>2 DEF Programs
    <2> QED BY <2>1, <2>2, <2>3 DEF Next
  <1> QED BY <1>1, Inductive, PTL DEF Spec, PadsLastPageOnly

=============================================================================
