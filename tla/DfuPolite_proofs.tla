-------------------------- MODULE DfuPolite_proofs --------------------------
(***************************************************************************)
(* What a host that follows the protocol may rely on (PoliteSpec): pages   *)
(* go to an erased slot only, and a download reported done is in the slot. *)
(* A host that does not, and breaks off anywhere, may rely on the latter   *)
(* where no download ends with an empty fifo (TailIsStored).               *)
(***************************************************************************)
EXTENDS DfuDevice_proofs

Rebooting == deferred \in Reboots

Downloading == SyncStates \cup {"DNLOAD_IDLE", "DFU_ERROR"}

\* A session that pages may be written to.
Ready(f) == f.erased = 1 /\ f.upgrade_image_valid = 0

\* Outside a download the sub state machine waits for one to begin.
SyncOutside == state \in Downloading \/ Rebooting \/ sub_state = "SYNC"

\* It writes to an erased slot, unless the download has failed or is given up.
WritesErased ==
    sub_state = "WRITING" => Rebooting \/ state = "DFU_ERROR" \/ Ready(flash)

\* From the time the image is finalised to the poll that ends the download nothing
\* is buffered and nothing deferred.
FinalisedWaits ==
    flash_finalised = 1 =>
        \/ Rebooting
        \/ /\ deferred = "none" /\ state = "MANIFEST_SYNC"
           /\ sub_state = "SYNC" /\ fifo = 0

\* What a failed write makes of an image is found out: no write fails, or the
\* library takes no torn image for one when the session looks up what it wrote.
LossIsFound == "write" \notin Faults \/ 0 \notin TornFound

\* Where no write fails the end of a download loses no byte; where losses are found
\* out what is finalised is the whole image.
AllProgrammed ==
    "write" \notin Faults =>
        (state = "MANIFEST_SYNC" => programmed + fifo = accepted)

FinalisedWhole ==
    LossIsFound =>
        (flash_finalised = 1 =>
            \/ Rebooting
            \/ flash.slot = "whole" /\ flash.size = accepted)

PoliteInv ==
    SyncOutside /\ WritesErased /\ FinalisedWaits /\ AllProgrammed /\ FinalisedWhole

-----------------------------------------------------------------------------
(* The flash session.                                                      *)

LEMMA EraseMakesReady ==
    ASSUME NEW f \in flash_session, NEW e \in sub_sm_erase_sectors(f), e.ret = "OK"
    PROVE  Ready(e.flash)
  <1>1. e = Result("OK", [Erased(f) EXCEPT !.upgrade_image_valid = 0])
    BY DEF sub_sm_erase_sectors, Fault, Result
  <1> QED BY <1>1 DEF Result, Erased, Ready, flash_session

\* A page write leaves the session ready, and succeeds where no write fails.
LEMMA WriteKeepsReady ==
    ASSUME NEW f \in flash_session, Ready(f), NEW w \in sub_sm_flash_write_page(f)
    PROVE  /\ Ready(w.flash) /\ w.flash \in flash_session
           /\ "write" \notin Faults /\ PageBytes # 0 => w.ret = "OK"
  <1>1. w.flash \in flash_session
    BY WritePage
  <1>2. CASE PageBytes = 0
    BY <1>1, <1>2 DEF sub_sm_flash_write_page, Result
  <1>3. CASE PageBytes # 0
    <2>1. PICK v \in flash_write_page(f) :
            w = Result(IF v.ret = "OK" THEN "OK" ELSE "errWRITE", v.flash)
      BY <1>3 DEF sub_sm_flash_write_page
    <2>2. /\ v.flash = [f EXCEPT !.slot = "torn"]
          /\ v.ret = "OK" \/ "write" \in Faults
      BY DEF Ready, flash_write_page, Fault, Result
    <2> QED BY <1>1, <2>1, <2>2 DEF Ready, Result, flash_session
  <1> QED BY <1>2, <1>3

\* An image that is looked up and found is the one just closed.
LEMMA FinalisesFound ==
    ASSUME 0 \notin TornFound, NEW f \in flash_session, NEW bytes, NEW all \in 0 .. MaxImage,
           NEW e \in flash_finalise_write(f, bytes, all), e.ret = "OK"
    PROVE  e.flash.slot = "whole" /\ e.flash.size = all
  <1> DEFINE g == Closed(f, bytes, all)
  <1>1. \/ g.slot = "whole" /\ g.size = all
        \/ g.slot = "torn"
    BY DEF Closed, flash_session
  <1>2. g \in flash_session
    BY DEF Closed, flash_session, SlotContent
  <1>3. e \in LookUp(g)
    BY DEF flash_finalise_write, Fault, Result
  <1> HIDE DEF g
  <1>4. 0 \in fl_getNextBootImage(g) /\ (\E h \in WithImage(g) : e = Result("OK", h))
    BY <1>3 DEF LookUp, Result
  <1>5. g.slot = "whole" /\ g.size = all
    BY <1>1, <1>4 DEF fl_getNextBootImage
  <1>6. PICK h \in WithImage(g) : e = Result("OK", h)
    BY <1>4
  <1>7. h = [g EXCEPT !.upgrade_image_valid = 1, !.size = g.size]
    BY <1>5, <1>6 DEF WithImage
  <1> QED BY <1>2, <1>5, <1>6, <1>7 DEF Result, flash_session

LEMMA FinalisesWhole ==
    ASSUME NEW f \in flash_session, f.erased = 1, NEW bytes \in 0 .. MaxImage,
           NEW e \in flash_finalise_write(f, bytes, bytes), e.ret = "OK"
    PROVE  e.flash.slot = "whole" /\ e.flash.size = bytes
  <1> DEFINE g == [f EXCEPT !.erased = 0, !.slot = "whole", !.size = bytes]
  <1>1. Closed(f, bytes, bytes) = g
    BY DEF Closed
  <1>2. g.slot = "whole" /\ g.size = bytes /\ g \in flash_session
    BY DEF flash_session, SlotContent
  <1>3. e \in LookUp(g)
    BY <1>1 DEF flash_finalise_write, Fault, Result
  <1> HIDE DEF g
  <1>4. PICK h \in WithImage(g) : e = Result("OK", h)
    BY <1>3 DEF LookUp, Result
  <1>5. h = [g EXCEPT !.upgrade_image_valid = 1, !.size = g.size]
    BY <1>2 DEF WithImage
  <1> QED BY <1>2, <1>4, <1>5 DEF Result, flash_session

-----------------------------------------------------------------------------
(* The sub state machine.                                                  *)

\* It starts to write a slot that it has erased, and goes on writing that one.
LEMMA DnloadWritesErased ==
    ASSUME TypeOK, sub_state = "WRITING" => Ready(flash),
           NEW st, sub_sm_process_dnload(st)
    PROVE  /\ sub_state' = "WRITING" => Ready(flash')
           /\ Programs => flash'.erased = 1
  <1>1. UNCHANGED programmed => ~Programs
    BY FlashAssumption DEF FlashAssumption, TypeOK, Programs
  <1>2. CASE DnloadSync(st)
    <2>1. sub_state' \in {sub_state, "ERASING"} /\ sub_state = "SYNC"
      BY <1>2 DEF DnloadSync
    <2> QED BY <1>1, <1>2, <2>1 DEF DnloadSync
  <1>3. CASE DnloadErasing(st)
    <2>1. PICK e \in sub_sm_erase_sectors(flash) :
            IF e.ret = "OK"
            THEN \E w \in sub_sm_flash_write_page(e.flash) : flash' = w.flash
            ELSE UNCHANGED <<sub_state, fifo, programmed>>
      BY <1>3 DEF DnloadErasing
    <2>2. e.flash \in flash_session
      BY EraseSectors DEF TypeOK
    <2>3. CASE e.ret = "OK"
      <3>1. Ready(e.flash)
        BY <2>3, EraseMakesReady DEF TypeOK
      <3>2. Ready(flash')
        BY <2>1, <2>2, <2>3, <3>1, WriteKeepsReady
      <3> QED BY <3>2 DEF Ready
    <2>4. CASE e.ret # "OK"
      BY <1>1, <1>3, <2>1, <2>4 DEF DnloadErasing
    <2> QED BY <2>3, <2>4
  <1>4. CASE DnloadWriting(st)
    <2>1. Ready(flash')
      BY <1>4, WriteKeepsReady DEF DnloadWriting, TypeOK
    <2> QED BY <2>1 DEF Ready
  <1> QED BY <1>2, <1>3, <1>4 DEF sub_sm_process_dnload

\* The last page of a ready slot, and the image it closes.
LEMMA LastPageCloses ==
    ASSUME TypeOK, Ready(flash), programmed + fifo <= MaxImage,
           NEW st, NEW finalised \in {0, 1}, LastPage(st, finalised)
    PROVE  /\ sub_state' = "SYNC"
           /\ finalised = 1 => fifo' = 0
           /\ "write" \notin Faults /\ programmed + fifo = accepted /\ st = "OK" =>
                /\ programmed' + fifo' = accepted
                /\ finalised = 1 => flash'.slot = "whole" /\ flash'.size = accepted
           /\ 0 \notin TornFound /\ finalised = 1 =>
                flash'.slot = "whole" /\ flash'.size = accepted
  <1>1. PICK w \in sub_sm_flash_write_page(flash) :
          /\ DrainPage(w)
          /\ IF fifo = PageBytes
             THEN \E e \in flash_finalise_write(w.flash, ProgrammedAfter(w), accepted) :
                    /\ flash' = e.flash
                    /\ finalised = IF e.ret = "OK" THEN 1 ELSE 0
                    /\ st = IF e.ret = "OK" THEN "OK" ELSE "errPROG"
             ELSE st = w.ret /\ flash' = w.flash /\ finalised = 0
    BY DEF LastPage
  <1>2. /\ P \in Nat /\ MaxImage \in Nat /\ fifo \in Nat /\ programmed \in Nat
        /\ PageBytes \in Nat
    BY FlashAssumption, DeviceAssumption
       DEF FlashAssumption, DeviceAssumption, TypeOK, P, PageBytes, Least
  <1>3. sub_state' = "SYNC"
    BY DEF LastPage
  <1>4. ASSUME finalised = 1 PROVE fifo' = 0
    BY <1>1, <1>2, <1>4 DEF DrainPage
  <1>5. ASSUME "write" \notin Faults, programmed + fifo = accepted, st = "OK"
        PROVE  /\ programmed' + fifo' = accepted
               /\ finalised = 1 => flash'.slot = "whole" /\ flash'.size = accepted
    <2>1. Ready(w.flash) /\ w.flash \in flash_session /\ (PageBytes # 0 => w.ret = "OK")
      BY <1>1, <1>5, WriteKeepsReady DEF TypeOK
    <2>2. ProgrammedAfter(w) = programmed + PageBytes
      BY <1>2, <2>1 DEF ProgrammedAfter
    <2>3. programmed' + fifo' = accepted
      BY <1>1, <1>2, <1>5, <2>2 DEF DrainPage
    <2>4. ASSUME finalised = 1
          PROVE  flash'.slot = "whole" /\ flash'.size = accepted
      <3>1. fifo = PageBytes /\ ProgrammedAfter(w) = accepted
        BY <1>1, <1>5, <2>2, <2>4
      <3>2. PICK e \in flash_finalise_write(w.flash, accepted, accepted) :
              flash' = e.flash /\ e.ret = "OK"
        BY <1>1, <2>4, <3>1
      <3>3. accepted \in 0 .. MaxImage /\ w.flash.erased = 1
        BY <2>1 DEF TypeOK, Ready
      <3> QED BY <2>1, <3>2, <3>3, FinalisesWhole
    <2> QED BY <2>3, <2>4
  <1>6. ASSUME 0 \notin TornFound, finalised = 1
        PROVE  flash'.slot = "whole" /\ flash'.size = accepted
    <2>1. accepted \in 0 .. MaxImage /\ w.flash \in flash_session
      BY <1>1, WriteKeepsReady DEF TypeOK
    <2>2. PICK e \in flash_finalise_write(w.flash, ProgrammedAfter(w), accepted) :
            flash' = e.flash /\ e.ret = "OK"
      BY <1>1, <1>6
    <2> QED BY <1>6, <2>1, <2>2, FinalisesFound
  <1> QED BY <1>3, <1>4, <1>5, <1>6

-----------------------------------------------------------------------------
(* The steps that leave the sub state machine as it is, or clear it.       *)

LEMMA SteadyStep ==
    ASSUME PoliteInv, ~Rebooting, flash_finalised # 1, flash_finalised' # 1,
           \/ sub_state' = "SYNC"
           \/ /\ UNCHANGED <<sub_state, flash>>
              /\ state' \in Downloading
              /\ state \in Downloading
              /\ state = "DFU_ERROR" => state' = "DFU_ERROR"
           \/ UNCHANGED <<state, sub_state, flash>>,
           state' = "MANIFEST_SYNC" =>
               \/ programmed' + fifo' = accepted'
               \/ state = "MANIFEST_SYNC" /\ UNCHANGED <<programmed, fifo, accepted>>
    PROVE  PoliteInv'
  <1>1. SyncOutside'
    BY DEF PoliteInv, SyncOutside, Rebooting, Downloading
  <1>2. WritesErased'
    BY DEF PoliteInv, WritesErased, Ready
  <1>3. FinalisedWaits' /\ FinalisedWhole'
    BY DEF FinalisedWaits, FinalisedWhole
  <1>4. AllProgrammed'
    BY DEF PoliteInv, AllProgrammed
  <1> QED BY <1>1, <1>2, <1>3, <1>4 DEF PoliteInv

\* A reboot that is asked for, or done, ends it all.
LEMMA RebootingStep ==
    ASSUME deferred' \in Reboots, state' # "MANIFEST_SYNC"
    PROVE  PoliteInv'
  BY DEF PoliteInv, SyncOutside, WritesErased, FinalisedWaits, AllProgrammed,
         FinalisedWhole, Rebooting

LEMMA LeavePolitely ==
    ASSUME LeaveDfu, deferred' \in Holds(resp'.deferred)
    PROVE  PoliteInv' /\ state' = "APP_IDLE"
  <1>1. state' = "APP_IDLE" /\ deferred' = "REBOOT"
    BY DEF LeaveDfu, normal_transition, Respond, Holds
  <1> QED BY <1>1, RebootingStep DEF Reboots

-----------------------------------------------------------------------------
(* Deferred actions.                                                       *)

\* Nothing is finalised while the server holds an action.
LEMMA HeldMeansUnfinished ==
    ASSUME PoliteInv, RunDeferred
    PROVE  ~Rebooting /\ flash_finalised # 1 /\ deferred' = "none"
  BY DEF RunDeferred, PoliteInv, FinalisedWaits, Rebooting

LEMMA DeferredWrite ==
    ASSUME IInv, PoliteInv, RunDeferred, state = "DNLOAD_SYNC",
           NEW r, r.cmd = "FLASH_WRITE", state_dnload_sync(r)
    PROVE  PoliteInv' /\ (Programs => flash'.erased = 1)
  <1>1. PICK st \in dfu_status : sub_sm_process_dnload(st) /\ AfterSubSm(st)
    BY DEF state_dnload_sync
  <1>2. ~Rebooting /\ flash_finalised # 1
    BY HeldMeansUnfinished
  <1>3. sub_state = "WRITING" => Ready(flash)
    BY <1>2 DEF PoliteInv, WritesErased
  <1>4. sub_state' = "WRITING" => Ready(flash')
    BY <1>1, <1>3, DnloadWritesErased DEF IInv, DeviceInv
  <1>5. Programs => flash'.erased = 1
    BY <1>1, <1>3, DnloadWritesErased DEF IInv, DeviceInv
  <1>6. state' \in {"DNLOAD_SYNC", "DFU_ERROR"} /\ flash_finalised' # 1
    BY <1>1, <1>2, SubSmResult DEF state_dnload_sync, IInv
  <1> QED
    BY <1>4, <1>5, <1>6
       DEF PoliteInv, SyncOutside, WritesErased, FinalisedWaits, AllProgrammed,
           FinalisedWhole, Downloading, SyncStates

LEMMA DeferredManifest ==
    ASSUME IInv, PoliteInv, RunDeferred, state = "MANIFEST_SYNC",
           NEW r, r.cmd = "FLASH_MANIFEST", state_manifest_sync(r)
    PROVE  PoliteInv' /\ (Programs => flash.erased = 1 \/ flash'.erased = 1)
  <1>1. PICK st \in dfu_status, finalised \in {0, 1} :
          /\ sub_sm_process_manifest(st, finalised)
          /\ AfterSubSm(st)
          /\ flash_finalised' = IF st = "OK" THEN finalised ELSE flash_finalised
    BY DEF state_manifest_sync
  <1>2. ~Rebooting /\ flash_finalised # 1 /\ deferred' = "none" /\ accepted' = accepted
    BY HeldMeansUnfinished DEF state_manifest_sync
  <1>3. sub_state = "WRITING" => Ready(flash)
    BY <1>2 DEF PoliteInv, WritesErased
  <1>4. /\ TypeOK /\ programmed + fifo <= MaxImage
        /\ "write" \notin Faults => programmed + fifo = accepted
    BY FlashAssumption, DeviceAssumption
       DEF FlashAssumption, DeviceAssumption, IInv, DeviceInv, ManifestBound, TypeOK, P,
           PoliteInv, AllProgrammed
  <1>5. \/ st = "OK" /\ state' = "MANIFEST_SYNC"
        \/ st # "OK" /\ state' = "DFU_ERROR"
    BY <1>1, SubSmResult DEF IInv
  <1>6. CASE sub_state # "WRITING"
    <2>1. sub_sm_process_dnload(st) /\ finalised = 0
      BY <1>1, <1>6 DEF sub_sm_process_manifest
    <2>2. /\ sub_state' = "WRITING" => Ready(flash')
          /\ Programs => flash'.erased = 1
      BY <1>3, <1>4, <2>1, DnloadWritesErased
    <2>3. st = "OK" => programmed' + fifo' = programmed + fifo
      BY <1>4, <2>1, ProcessDnload
    <2>4. flash_finalised' # 1
      BY <1>1, <1>2, <2>1
    <2>5. AllProgrammed'
      BY <1>2, <1>4, <1>5, <2>3 DEF AllProgrammed
    <2> QED
      BY <1>5, <2>2, <2>4, <2>5
         DEF PoliteInv, SyncOutside, WritesErased, FinalisedWaits, FinalisedWhole,
             Downloading, SyncStates
  <1>7. CASE sub_state = "WRITING"
    <2>1. LastPage(st, finalised)
      BY <1>1, <1>7 DEF sub_sm_process_manifest
    <2>2. Ready(flash)
      BY <1>3, <1>7
    <2>3. /\ sub_state' = "SYNC"
          /\ finalised = 1 => fifo' = 0
          /\ "write" \notin Faults /\ programmed + fifo = accepted /\ st = "OK" =>
               /\ programmed' + fifo' = accepted
               /\ finalised = 1 => flash'.slot = "whole" /\ flash'.size = accepted
          /\ 0 \notin TornFound /\ finalised = 1 =>
               flash'.slot = "whole" /\ flash'.size = accepted
      BY <1>4, <2>1, <2>2, LastPageCloses
    <2>4. flash_finalised' = 1 => st = "OK" /\ finalised = 1
      BY <1>1, <1>2
    <2>5. SyncOutside' /\ WritesErased'
      BY <2>3 DEF SyncOutside, WritesErased
    <2>6. FinalisedWaits'
      BY <1>2, <1>5, <2>3, <2>4 DEF FinalisedWaits
    <2>7. AllProgrammed'
      BY <1>2, <1>4, <1>5, <2>3 DEF AllProgrammed
    <2>8. FinalisedWhole'
      BY <1>2, <1>4, <1>5, <2>3, <2>4 DEF FinalisedWhole, LossIsFound
    <2> QED BY <2>2, <2>5, <2>6, <2>7, <2>8 DEF PoliteInv, Ready
  <1> QED BY <1>6, <1>7

\* An action the state has no use for: refused, or outside a download and with the
\* sub state machine at rest.
LEMMA DeferredElsewhere ==
    ASSUME IInv, PoliteInv, RunDeferred, NEW r,
           r.cmd \in {"REVERT_FACTORY", "FLASH_CONNECT", "FLASH_WRITE", "FLASH_MANIFEST"},
           dfu_request_with_arguments(r),
           ~(state = "DNLOAD_SYNC" /\ r.cmd = "FLASH_WRITE"),
           ~(state = "MANIFEST_SYNC" /\ r.cmd = "FLASH_MANIFEST")
    PROVE  PoliteInv' /\ ~Programs /\ state' \in {state, "APP_IDLE", "DFU_ERROR"}
  <1>1. HandleByState(r)
    BY DEF dfu_request_with_arguments
  <1>2. ~Rebooting /\ flash_finalised # 1
    BY HeldMeansUnfinished
  <1> DEFINE Refused == /\ UNCHANGED <<fifo, flash_finalised, sub_state, flash,
                                       accepted, programmed>>
                        /\ state' \in {state, "DFU_ERROR"}
             Rests == /\ state \notin Downloading /\ state' # "MANIFEST_SYNC"
                      /\ state' \in {state, "APP_IDLE", "DFU_ERROR"}
                      /\ UNCHANGED <<flash_finalised, sub_state, programmed>>
  <1>3. Stall => Refused
    BY DEF Stall, Fail, error_condition, buffer, sub, download
  <1>4. \A st \in dfu_api_status, act \in deferred_action : Stay(st, act) => Refused
    BY DEF Stay, core, buffer, sub, download
  <1>5. Refused \/ Rests
    <2> USE DEF dfu_api_status, deferred_action
    <2>1. CASE state = "APP_IDLE"
      BY <1>1, <1>4, <2>1 DEF HandleByState, state_app_idle
    <2>2. CASE state = "APP_DETACH"
      BY <1>1, <2>2
         DEF HandleByState, state_detach, MoveTo, normal_transition, Downloading,
             SyncStates, sub, download
    <2>3. CASE state = "DFU_IDLE"
      <3>1. state_dfu_idle(r)
        BY <1>1, <2>3 DEF HandleByState
      <3>2. action_revert_factory => Rests
        BY <2>3
           DEF action_revert_factory, CannotConnect, error_condition, core, Downloading,
               SyncStates, sub, download
      <3>3. CASE r.cmd = "FLASH_CONNECT"
        BY <2>3, <3>1, <3>3
           DEF state_dfu_idle, error_condition, core, Downloading, SyncStates, sub,
               download
      <3>4. CASE r.cmd # "FLASH_CONNECT"
        BY <1>3, <3>1, <3>2, <3>4 DEF state_dfu_idle
      <3> QED BY <3>3, <3>4
    <2>4. CASE state = "DNLOAD_SYNC"
      BY <1>1, <1>3, <2>4 DEF HandleByState, state_dnload_sync
    <2>5. CASE state = "MANIFEST_SYNC"
      BY <1>1, <1>3, <2>5 DEF HandleByState, state_manifest_sync
    <2>6. CASE state \in {"DNLOAD_IDLE", "UPLOAD_IDLE"}
      BY <1>1, <1>3, <2>6 DEF HandleByState
    <2>7. CASE state = "DFU_ERROR"
      BY <1>1, <1>4, <2>7 DEF HandleByState, ClearError
    <2> QED
      BY <2>1, <2>2, <2>3, <2>4, <2>5, <2>6, <2>7
         DEF IInv, DeviceInv, TypeOK, dfu_state, AppStates, SyncStates
  <1>6. CASE Refused
    <2>1. state' = state \/ (state \in Downloading /\ state' = "DFU_ERROR")
              \/ sub_state' = "SYNC"
      BY <1>2, <1>6 DEF PoliteInv, SyncOutside
    <2>2. PoliteInv'
      BY <1>2, <1>6, <2>1, SteadyStep DEF Downloading
    <2> QED BY <1>6, <2>2, FlashAssumption
            DEF FlashAssumption, IInv, DeviceInv, TypeOK, Programs
  <1>7. CASE Rests
    <2>1. sub_state' = "SYNC"
      BY <1>2, <1>7 DEF PoliteInv, SyncOutside
    <2>2. PoliteInv'
      BY <1>2, <1>7, <2>1, SteadyStep
    <2> QED BY <1>7, <2>2, FlashAssumption
            DEF FlashAssumption, IInv, DeviceInv, TypeOK, Programs
  <1> QED BY <1>5, <1>6, <1>7

LEMMA PoliteDeferredStep ==
    ASSUME IInv, PoliteInv, RunDeferred
    PROVE  /\ PoliteInv'
           /\ Programs /\ state \in SyncStates => flash.erased = 1 \/ flash'.erased = 1
           /\ ~Completes
  <1>1. PICK r \in [cmd : {"REVERT_FACTORY", "FLASH_CONNECT", "FLASH_WRITE",
                           "FLASH_MANIFEST"}, n : {0}] : dfu_request_with_arguments(r)
    <2>1. deferred \in {"REVERT_FACTORY", "FLASH_CONNECT", "FLASH_WRITE",
                        "FLASH_MANIFEST"}
      BY DEF RunDeferred, IInv, DeviceInv, TypeOK, deferred_action, Reboots
    <2> QED BY <2>1 DEF RunDeferred
  <1>2. CASE state = "DNLOAD_SYNC" /\ r.cmd = "FLASH_WRITE"
    <2>1. state_dnload_sync(r)
      BY <1>1, <1>2 DEF dfu_request_with_arguments, HandleByState
    <2> QED BY <1>2, <2>1, DeferredWrite DEF Completes
  <1>3. CASE state = "MANIFEST_SYNC" /\ r.cmd = "FLASH_MANIFEST"
    <2>1. state_manifest_sync(r)
      BY <1>1, <1>3 DEF dfu_request_with_arguments, HandleByState
    <2>2. ~Completes
      BY <1>3, <2>1, SubSmResult DEF state_manifest_sync, Completes, IInv
    <2> QED BY <1>3, <2>1, <2>2, DeferredManifest
  <1>4. CASE /\ ~(state = "DNLOAD_SYNC" /\ r.cmd = "FLASH_WRITE")
             /\ ~(state = "MANIFEST_SYNC" /\ r.cmd = "FLASH_MANIFEST")
    BY <1>1, <1>4, DeferredElsewhere DEF Completes
  <1> QED BY <1>2, <1>3, <1>4

-----------------------------------------------------------------------------
(* Requests of a host that follows the protocol.                           *)

\* In the sync states no request programs a page.
LEMMA RequestsDoNotProgram ==
    ASSUME DeviceInv, state \in SyncStates, NEW r \in Requests,
           dfu_request_with_arguments(r)
    PROVE  ~Programs
  <1>1. r.cmd \notin {"FLASH_WRITE", "FLASH_MANIFEST"}
    BY DEF Requests
  <1>2. programmed' = programmed \/ programmed' = 0
    <2>1. CASE state_dnload_sync(r)
      BY <1>1, <2>1 DEF state_dnload_sync, BadGetStatus, Stall, Fail, download
    <2>2. CASE state_manifest_sync(r)
      BY <1>1, <2>2
         DEF state_manifest_sync, BadGetStatus, Stall, Fail, NoTransfer, download
    <2>3. CASE ReportDescriptor \/ ReportState(r) \/ LeaveDfu
      BY <2>3 DEF ReportDescriptor, ReportState, LeaveDfu, NoTransfer, download
    <2> QED BY <2>1, <2>2, <2>3 DEF dfu_request_with_arguments, HandleByState, SyncStates
  <1>3. programmed \in Nat
    BY FlashAssumption DEF FlashAssumption, DeviceInv, TypeOK
  <1> QED BY <1>2, <1>3 DEF Programs

\* A report leaves everything as it is, and the server with nothing to do.
LEMMA ReportPolitely ==
    ASSUME PoliteInv, deferred = "none", NEW r, ReportDescriptor \/ ReportState(r),
           deferred' \in Holds(resp'.deferred)
    PROVE  PoliteInv' /\ ~Completes
  <1>1. deferred' = "none"
    BY DEF ReportDescriptor, ReportState, Respond, build_status, Holds
  <1>2. UNCHANGED <<state, fifo, flash_finalised, sub_state, flash, accepted, programmed>>
    BY DEF ReportDescriptor, ReportState, core, buffer, sub, download
  <1> QED
    BY <1>1, <1>2
       DEF PoliteInv, SyncOutside, WritesErased, FinalisedWaits, AllProgrammed,
           FinalisedWhole, Ready, Rebooting, Completes

LEMMA PoliteDfuIdle ==
    ASSUME PoliteInv, ~Rebooting, flash_finalised # 1, state = "DFU_IDLE",
           NEW r \in Requests, Provided(r), HandleByState(r),
           deferred' \in Holds(resp'.deferred)
    PROVE  PoliteInv'
  <1> DEFINE Rests == state' # "MANIFEST_SYNC" /\ UNCHANGED <<flash_finalised, sub_state>>
  <1>1. sub_state = "SYNC"
    BY DEF PoliteInv, SyncOutside, Downloading, SyncStates
  <1>2. Rests => PoliteInv'
    BY <1>1, SteadyStep
  <1>3. CASE r.cmd = "DNLOAD"
    BY <1>2, <1>3
       DEF HandleByState, action_entry_dnload, Fail, error_condition, normal_transition, sub
  <1>4. CASE r.cmd = "UPLOAD"
    <2>1. action_entry_upload(r.n)
      BY <1>4 DEF HandleByState
    <2>2. state' # "MANIFEST_SYNC"
      BY <2>1
         DEF action_entry_upload, UploadFrom, FirstBlock, CannotConnect, normal_transition,
             error_condition
    <2> QED BY <1>2, <2>1, <2>2 DEF action_entry_upload, sub
  <1>5. CASE r.cmd \notin {"DNLOAD", "UPLOAD"}
    <2>1. state_dfu_idle(r)
      BY <1>5 DEF HandleByState
    <2>2. LeaveDfu => PoliteInv'
      BY LeavePolitely
    <2>3. action_revert_factory => Rests
      BY DEF action_revert_factory, CannotConnect, error_condition, core, sub
    <2>4. \A st \in {"SUCCESS"}, act \in {"none", "REVERT_FACTORY"} : Stay(st, act) => Rests
      BY DEF Stay, core, sub
    <2>5. Stall => Rests
      BY DEF Stall, Fail, error_condition, sub
    <2>6. r.cmd \notin {"FLASH_CONNECT", "REVERT_FACTORY"}
      BY DEF Requests
    <2> QED BY <1>2, <2>1, <2>2, <2>3, <2>4, <2>5, <2>6 DEF state_dfu_idle
  <1> QED BY <1>3, <1>4, <1>5

\* The poll that ends a download finds the image in the slot.
LEMMA PoliteManifest ==
    ASSUME PoliteInv, deferred = "none", ~Rebooting, state = "MANIFEST_SYNC",
           NEW r, r.cmd = "GETSTATUS", r.n = 1, state_manifest_sync(r)
    PROVE  /\ PoliteInv'
           /\ Completes /\ LossIsFound =>
                flash.slot = "whole" /\ flash.size = accepted
  <1>1. CASE DownloadDone
    <2>1. /\ state' = "DFU_IDLE" /\ flash_finalised' = 0 /\ sub_state' = sub_state
          /\ flash_finalised = 1
      BY <1>1 DEF state_manifest_sync, normal_transition, DownloadDone, sub
    <2>2. sub_state' = "SYNC"
      BY <2>1 DEF PoliteInv, FinalisedWaits
    <2>3. PoliteInv'
      BY <2>1, <2>2
         DEF PoliteInv, SyncOutside, WritesErased, FinalisedWaits, AllProgrammed,
             FinalisedWhole
    <2> QED BY <2>1, <2>3 DEF PoliteInv, FinalisedWhole
  <1>2. CASE ~DownloadDone
    <2>1. /\ state' = "MANIFEST_SYNC"
          /\ UNCHANGED <<fifo, flash_finalised, sub_state, flash, accepted, programmed>>
      BY <1>2 DEF state_manifest_sync, normal_transition, buffer, sub, download
    <2>2. flash_finalised # 1
      BY <1>2 DEF DownloadDone, PoliteInv, FinalisedWaits
    <2> QED BY <2>1, <2>2, SteadyStep DEF Downloading, SyncStates, Completes
  <1> QED BY <1>1, <1>2

LEMMA PoliteRequestStep ==
    ASSUME IInv, PoliteInv, PoliteRequest
    PROVE  /\ PoliteInv'
           /\ state \in SyncStates => ~Programs
           /\ Completes /\ LossIsFound =>
                flash.slot = "whole" /\ flash.size = accepted
  <1>1. PICK r \in Requests :
          /\ Provided(r)
          /\ dfu_request_with_arguments(r)
          /\ deferred' \in Holds(resp'.deferred)
    BY DEF PoliteRequest, Answer
  <1>2. deferred = "none" /\ ~Rebooting
    BY DEF PoliteRequest, Rebooting, Reboots
  <1>3. state \in SyncStates => ~Programs
    BY <1>1, RequestsDoNotProgram DEF IInv
  <1>4. CASE ReportDescriptor \/ ReportState(r)
    BY <1>1, <1>2, <1>3, <1>4, ReportPolitely
  <1>5. CASE LeaveDfu
    BY <1>1, <1>3, <1>5, LeavePolitely DEF Completes
  <1>6. CASE HandleByState(r)
    <2>1. ASSUME state # "MANIFEST_SYNC" PROVE flash_finalised # 1 /\ ~Completes
      BY <1>2, <2>1 DEF PoliteInv, FinalisedWaits, Completes
    <2>2. CASE state = "APP_IDLE"
      <3>1. sub_state' = "SYNC" /\ flash_finalised' = flash_finalised
            /\ state' # "MANIFEST_SYNC"
        BY <1>2, <1>6, <2>2
           DEF HandleByState, state_app_idle, MoveTo, Stay, normal_transition, core, sub,
               PoliteInv, SyncOutside, Downloading, SyncStates
      <3> QED BY <1>2, <1>3, <2>1, <2>2, <3>1, SteadyStep
    <2>3. CASE state = "APP_DETACH"
      <3>1. sub_state' = "SYNC" /\ flash_finalised' = flash_finalised
            /\ state' # "MANIFEST_SYNC"
        BY <1>2, <1>6, <2>3
           DEF HandleByState, state_detach, MoveTo, normal_transition, sub, sub_sm_clear,
               PoliteInv, SyncOutside, Downloading, SyncStates
      <3> QED BY <1>2, <1>3, <2>1, <2>3, <3>1, SteadyStep
    <2>4. CASE state = "DFU_IDLE"
      BY <1>1, <1>2, <1>3, <1>6, <2>1, <2>4, PoliteDfuIdle
    <2>5. CASE state = "DNLOAD_SYNC"
      <3>1. state_dnload_sync(r) /\ r.cmd # "FLASH_WRITE"
        BY <1>6, <2>5 DEF HandleByState, Requests
      <3>2. /\ UNCHANGED <<flash_finalised, sub_state, flash>>
            /\ state' \in Downloading /\ state \in Downloading
            /\ state' # "MANIFEST_SYNC"
        BY <2>5, <3>1
           DEF state_dnload_sync, BadGetStatus, Stall, Fail, normal_transition,
               error_condition, Downloading, SyncStates, sub
      <3> QED BY <1>2, <1>3, <2>1, <2>5, <3>2, SteadyStep
    <2>6. CASE state = "MANIFEST_SYNC"
      <3>1. r.cmd \in {"GETSTATUS", "GETSTATE", "GET_DESCRIPTOR", "BUS_RESET"}
        BY <1>1, <2>6 DEF Provided
      <3>2. CASE r.cmd = "GETSTATUS"
        <4>1. state_manifest_sync(r) /\ r.n = 1
          BY <1>1, <1>6, <2>6, <3>2 DEF HandleByState, Provided
        <4> QED BY <1>2, <1>3, <2>6, <3>2, <4>1, PoliteManifest
      <3>3. CASE r.cmd # "GETSTATUS"
        <4>1. ReportDescriptor \/ ReportState(r) \/ LeaveDfu
          BY <1>1, <2>6, <3>1, <3>3
             DEF dfu_request_with_arguments, Provided, LeavesByCommonCode, SyncStates
        <4> QED BY <1>4, <1>5, <4>1
      <3> QED BY <3>2, <3>3
    <2>7. CASE state = "DNLOAD_IDLE"
      <3>1. CASE r.cmd # "DNLOAD" \/ (r.n # 0 /\ ~FifoTakes(r.n))
        <4>1. state' = "DFU_ERROR" /\ UNCHANGED <<flash_finalised, sub_state, flash>>
          BY <1>6, <2>7, <3>1
             DEF HandleByState, state_download_idle, Stall, Fail, error_condition, sub
        <4> QED BY <1>2, <1>3, <2>1, <2>7, <4>1, SteadyStep DEF Downloading
      <3>2. CASE r.cmd = "DNLOAD" /\ r.n = 0
        <4>0. FifoTakes(r.n)
          BY <3>2, DeviceAssumption
             DEF DeviceAssumption, IInv, DeviceInv, TypeOK, FifoTakes, P
        <4>1. /\ UNCHANGED <<fifo, flash_finalised, sub_state, flash, accepted, programmed>>
              /\ state' = "MANIFEST_SYNC"
          BY <1>6, <2>7, <3>2, <4>0
             DEF HandleByState, state_download_idle, MoveTo, normal_transition, buffer,
                 sub, download
        <4>2. programmed' + fifo' = accepted'
          BY <2>7, <4>1 DEF IInv, DeviceInv, BytesAccounted
        <4> QED
          BY <1>2, <1>3, <2>1, <2>7, <4>1, <4>2, SteadyStep DEF Downloading, SyncStates
      <3>3. CASE r.cmd = "DNLOAD" /\ r.n # 0 /\ FifoTakes(r.n)
        <4>1. state' = "DNLOAD_SYNC" /\ UNCHANGED <<flash_finalised, sub_state, flash>>
          BY <1>6, <2>7, <3>3
             DEF HandleByState, state_download_idle, normal_transition, sub
        <4> QED
          BY <1>2, <1>3, <2>1, <2>7, <4>1, SteadyStep DEF Downloading, SyncStates
      <3> QED BY <3>1, <3>2, <3>3
    <2>8. CASE state = "UPLOAD_IDLE"
      <3>1. sub_state' = "SYNC" /\ flash_finalised' = flash_finalised
            /\ state' # "MANIFEST_SYNC"
        BY <1>2, <1>6, <2>8
           DEF HandleByState, state_upload_idle, NextBlock, MoveTo, Stall, Fail,
               normal_transition, error_condition, core, sub, PoliteInv, SyncOutside,
               Downloading, SyncStates
      <3> QED BY <1>2, <1>3, <2>1, <2>8, <3>1, SteadyStep
    <2>9. CASE state = "DFU_ERROR"
      <3>1. /\ sub_state' = "SYNC" \/ UNCHANGED <<state, sub_state, flash>>
            /\ flash_finalised' = flash_finalised /\ state' # "MANIFEST_SYNC"
        BY <1>6, <2>9
           DEF HandleByState, ClearError, Stay, normal_transition, sub_sm_clear, core, sub
      <3> QED BY <1>2, <1>3, <2>1, <2>9, <3>1, SteadyStep
    <2> QED
      BY <2>2, <2>3, <2>4, <2>5, <2>6, <2>7, <2>8, <2>9
         DEF IInv, DeviceInv, TypeOK, dfu_state, AppStates, SyncStates
  <1> QED BY <1>1, <1>4, <1>5, <1>6 DEF dfu_request_with_arguments

-----------------------------------------------------------------------------
(* What the device answers to a host that follows the protocol.            *)

Request(c, k) == dfu_request_with_arguments([cmd |-> c, n |-> k])

LEMMA DeviceNumbers ==
    /\ T \in Nat \ {0} /\ P \in Nat \ {0} /\ T <= P
    /\ MaxImage \in Nat \ {0}
  BY DeviceAssumption, FlashAssumption DEF DeviceAssumption, FlashAssumption, T, P

Timed == poll_timeout \in PollTimeouts \ {0}

LEMMA DetachAnswer ==
    ASSUME state = "APP_IDLE", Request("DETACH", 0)
    PROVE  state' = "APP_DETACH" /\ resp'.status = "SUCCESS" /\ resp'.deferred = "REBOOT_TO_DFU"
  BY DEF Request, dfu_request_with_arguments, HandleByState, LeavesByCommonCode, SyncStates,
         state_app_idle, MoveTo, normal_transition, Respond

LEMMA LeaveAnswer ==
    ASSUME LeaveDfu
    PROVE  state' = "APP_IDLE" /\ resp'.status = "SUCCESS" /\ resp'.deferred = "REBOOT"
  BY DEF LeaveDfu, normal_transition, Respond

LEMMA BusResetAnswer ==
    ASSUME Request("BUS_RESET", 0)
    PROVE  /\ state = "APP_DETACH" =>
                /\ state' = "DFU_IDLE" /\ Timed' /\ resp'.status = "SUCCESS"
                /\ resp'.deferred \in {"none", "FLASH_CONNECT"}
           /\ state \in {"APP_IDLE", "DFU_IDLE", "UPLOAD_IDLE", "DFU_ERROR"} =>
                /\ state' = "APP_IDLE" /\ resp'.status = "SUCCESS"
                /\ resp'.deferred \in {"none", "REBOOT"}
  <1>1. CASE state = "APP_DETACH"
    BY <1>1
       DEF Request, dfu_request_with_arguments, HandleByState, LeavesByCommonCode, SyncStates,
           state_detach, normal_transition, Respond, sub_sm_clear, Timed, PollTimeouts,
           POLL_TIMEOUT_DNLOAD_ENTRY_MSEC
  <1>2. CASE state = "APP_IDLE"
    BY <1>2
       DEF Request, dfu_request_with_arguments, HandleByState, LeavesByCommonCode, SyncStates,
           state_app_idle, Stay, core, Respond
  <1>3. CASE state \in {"DFU_IDLE", "UPLOAD_IDLE", "DFU_ERROR"}
    <2>1. LeaveDfu
      BY <1>3
         DEF Request, dfu_request_with_arguments, HandleByState, LeavesByCommonCode, SyncStates,
             state_dfu_idle
    <2> QED BY <1>3, <2>1, LeaveAnswer
  <1>4. CASE state \notin {"APP_DETACH", "APP_IDLE", "DFU_IDLE", "UPLOAD_IDLE", "DFU_ERROR"}
    BY <1>4
  <1> QED BY <1>1, <1>2, <1>3, <1>4

LEMMA AbortAnswer ==
    ASSUME state \in {"DFU_IDLE", "UPLOAD_IDLE"}, Request("ABORT", 0)
    PROVE  /\ state' = "DFU_IDLE" /\ UNCHANGED poll_timeout
           /\ resp'.status = "SUCCESS" /\ resp'.deferred = "none"
  BY DEF Request, dfu_request_with_arguments, HandleByState, LeavesByCommonCode, SyncStates,
         state_dfu_idle, MoveTo, Stay, normal_transition, Respond, core, sub

LEMMA ClearAnswer ==
    ASSUME state = "DFU_ERROR", Request("CLRSTATUS", 0)
    PROVE  /\ state' = "DFU_IDLE" /\ Timed'
           /\ resp'.status = "SUCCESS" /\ resp'.deferred = "none"
  BY DEF Request, dfu_request_with_arguments, HandleByState, LeavesByCommonCode, SyncStates,
         AppStates, ClearError, normal_transition, Respond, sub_sm_clear, Timed, PollTimeouts,
         POLL_TIMEOUT_DNLOAD_ENTRY_MSEC

LEMMA BlockAnswer ==
    ASSUME NEW n \in 1 .. T, state \in {"DFU_IDLE", "DNLOAD_IDLE"}, Request("DNLOAD", n)
    PROVE  /\ UNCHANGED poll_timeout /\ resp'.deferred = "none"
           /\ \/ /\ state' = "DNLOAD_SYNC" /\ resp'.status = "SUCCESS"
                 /\ accepted' = IF state = "DFU_IDLE" THEN n ELSE accepted + n
              \/ state' = "DFU_ERROR" /\ resp'.status = "ERROR"
  <1>0. n # 0
    BY DeviceNumbers
  <1>1. CASE state = "DFU_IDLE"
    <2>1. action_entry_dnload(n)
      BY <1>1
         DEF Request, dfu_request_with_arguments, HandleByState, LeavesByCommonCode, SyncStates
    <2> QED BY <1>0, <1>1, <2>1 DEF action_entry_dnload, normal_transition, Respond, sub
  <1>2. CASE state = "DNLOAD_IDLE"
    <2>1. state_download_idle(n)
      BY <1>2
         DEF Request, dfu_request_with_arguments, HandleByState, LeavesByCommonCode, SyncStates
    <2> QED BY <1>0, <1>2, <2>1
            DEF state_download_idle, Fail, error_condition, normal_transition, Respond, sub
  <1> QED BY <1>1, <1>2

LEMMA EndAnswer ==
    ASSUME TypeOK, state = "DNLOAD_IDLE", Request("DNLOAD", 0)
    PROVE  /\ state' = "MANIFEST_SYNC" /\ UNCHANGED <<poll_timeout, accepted>>
           /\ resp'.status = "SUCCESS" /\ resp'.deferred = "none"
  <1>1. state_download_idle(0)
    BY DEF Request, dfu_request_with_arguments, HandleByState, LeavesByCommonCode, SyncStates
  <1>2. FifoTakes(0)
    BY DeviceNumbers DEF FifoTakes, TypeOK
  <1> QED BY <1>1, <1>2
          DEF state_download_idle, MoveTo, normal_transition, Respond, sub, download

LEMMA StatusAnswer ==
    ASSUME state \in SyncStates, Request("GETSTATUS", 1)
    PROVE  /\ status' = "OK" /\ resp'.status = "SUCCESS" /\ UNCHANGED <<poll_timeout, flash>>
           /\ state = "DNLOAD_SYNC" =>
                /\ UNCHANGED accepted
                /\ \/ /\ state' = "DNLOAD_SYNC" /\ resp'.deferred = "FLASH_WRITE"
                      /\ resp'.poll = poll_timeout
                   \/ state' = "DNLOAD_IDLE" /\ resp'.deferred = "none"
           /\ state = "MANIFEST_SYNC" =>
                \/ /\ state' = "MANIFEST_SYNC" /\ resp'.deferred = "FLASH_MANIFEST"
                   /\ resp'.poll = poll_timeout /\ UNCHANGED accepted
                \/ state' = "DFU_IDLE" /\ resp'.deferred = "none" /\ flash_finalised = 1
  <1>1. CASE state = "DNLOAD_SYNC"
    <2>1. state_dnload_sync([cmd |-> "GETSTATUS", n |-> 1])
      BY <1>1 DEF Request, dfu_request_with_arguments, HandleByState, SyncStates
    <2> QED BY <1>1, <2>1
            DEF state_dnload_sync, normal_transition, build_status, sub, download
  <1>2. CASE state = "MANIFEST_SYNC"
    <2>1. state_manifest_sync([cmd |-> "GETSTATUS", n |-> 1])
      BY <1>2 DEF Request, dfu_request_with_arguments, HandleByState, SyncStates
    <2> QED BY <1>2, <2>1
            DEF state_manifest_sync, DownloadDone, normal_transition, build_status, sub, download
  <1> QED BY <1>1, <1>2 DEF SyncStates

LEMMA RevertActs ==
    ASSUME state = "DFU_IDLE", action_revert_factory
    PROVE  /\ UNCHANGED poll_timeout /\ resp'.deferred = "none"
           /\ \/ state' = "DFU_IDLE" /\ resp'.status = "SUCCESS"
              \/ state' = "DFU_ERROR" /\ resp'.status = "ERROR"
  BY DEF action_revert_factory, CannotConnect, error_condition, Respond, core, sub

LEMMA RevertAnswer ==
    ASSUME state = "DFU_IDLE", Request("REVERTFACTORY", 0)
    PROVE  /\ UNCHANGED poll_timeout /\ resp'.deferred \in {"none", "REVERT_FACTORY"}
           /\ \/ state' = "DFU_IDLE"
              \/ state' = "DFU_ERROR" /\ resp'.deferred = "none"
  <1>1. state_dfu_idle([cmd |-> "REVERTFACTORY", n |-> 0])
    BY DEF Request, dfu_request_with_arguments, HandleByState, LeavesByCommonCode, SyncStates
  <1>2. action_revert_factory \/ Stay("SUCCESS", "REVERT_FACTORY")
    BY <1>1 DEF state_dfu_idle
  <1> QED BY <1>2, RevertActs DEF Stay, Respond, core, sub

\* The deferred actions, in the states they are meant for.
LEMMA IdleAction ==
    ASSUME state = "DFU_IDLE", NEW c \in {"FLASH_CONNECT", "REVERT_FACTORY"}, Request(c, 0)
    PROVE  state' \in {"DFU_IDLE", "DFU_ERROR"} /\ UNCHANGED poll_timeout
  <1>1. state_dfu_idle([cmd |-> c, n |-> 0])
    BY DEF Request, dfu_request_with_arguments, HandleByState, LeavesByCommonCode, SyncStates
  <1>2. CASE c = "FLASH_CONNECT"
    BY <1>1, <1>2 DEF state_dfu_idle, core, error_condition, sub
  <1>3. CASE c = "REVERT_FACTORY"
    <2>1. action_revert_factory \/ Stall
      BY <1>1, <1>3 DEF state_dfu_idle
    <2> QED BY <2>1, RevertActs DEF Stall, Fail, error_condition, sub
  <1> QED BY <1>2, <1>3

LEMMA SubSmTimes ==
    ASSUME NEW st, sub_sm_process_dnload(st)
    PROVE  Timed'
  BY DEF sub_sm_process_dnload, DnloadSync, DnloadErasing, DnloadWriting, Timed, PollTimeouts,
         POLL_TIMEOUT_DNLOAD_ENTRY_MSEC, POLL_TIMEOUT_DNLOAD_ERASE_MSEC,
         POLL_TIMEOUT_DNLOAD_FIRST_WRITE_MSEC, POLL_TIMEOUT_DNLOAD_WRITE_MSEC

LEMMA SyncAction ==
    ASSUME NEW c,
           \/ state = "DNLOAD_SYNC" /\ c = "FLASH_WRITE"
           \/ state = "MANIFEST_SYNC" /\ c = "FLASH_MANIFEST",
           Request(c, 0)
    PROVE  state' \in {state, "DFU_ERROR"} /\ UNCHANGED accepted /\ Timed'
  <1>1. CASE state = "DNLOAD_SYNC"
    <2>1. state_dnload_sync([cmd |-> "FLASH_WRITE", n |-> 0])
      BY <1>1 DEF Request, dfu_request_with_arguments, HandleByState, SyncStates
    <2>2. PICK st \in dfu_status : sub_sm_process_dnload(st) /\ AfterSubSm(st)
      BY <2>1 DEF state_dnload_sync
    <2>3. UNCHANGED accepted
      BY <2>1 DEF state_dnload_sync
    <2> QED BY <2>2, <2>3, SubSmTimes DEF AfterSubSm, error_condition, core
  <1>2. CASE state = "MANIFEST_SYNC"
    <2>1. state_manifest_sync([cmd |-> "FLASH_MANIFEST", n |-> 0])
      BY <1>2 DEF Request, dfu_request_with_arguments, HandleByState, SyncStates
    <2>2. PICK st \in dfu_status, finalised \in {0, 1} :
            sub_sm_process_manifest(st, finalised) /\ AfterSubSm(st)
      BY <2>1 DEF state_manifest_sync
    <2>3. UNCHANGED accepted
      BY <2>1 DEF state_manifest_sync
    <2>4. Timed'
      BY <2>2, SubSmTimes
         DEF sub_sm_process_manifest, LastPage, Timed, PollTimeouts,
             POLL_TIMEOUT_DNLOAD_MANIFEST_MSEC
    <2> QED BY <2>2, <2>3, <2>4 DEF AfterSubSm, error_condition, core
  <1> QED BY <1>1, <1>2

-----------------------------------------------------------------------------
(* What the device does with the requests of an upload.                    *)

LEMMA Reported ==
    ASSUME NEW c \in {"GETSTATE", "GET_DESCRIPTOR", "GETSTATUS"}, Request(c, 1),
           c = "GETSTATUS" => state \notin SyncStates
    PROVE  /\ UNCHANGED <<state, status, fifo, read_length, flash_finalised, sub_state,
                          poll_timeout, flash, accepted, programmed, delivered>>
           /\ resp' = NoResponse
  BY DEF Request, dfu_request_with_arguments, ReportState, ReportDescriptor, Respond,
         build_status, NoResponse, core, buffer, sub, download

SizeRead(f) == IF f.upgrade_image_valid = 1 THEN f.size ELSE 0

LEMMA UploadFirst ==
    ASSUME TypeOK, state = "DFU_IDLE", Request("UPLOAD", T)
    PROVE  /\ resp'.deferred = "none" /\ UNCHANGED <<sub_state, poll_timeout>>
           /\ \/ resp'.status = "ERROR" /\ state' = "DFU_ERROR"
              \/ /\ resp'.status = "SUCCESS" /\ state' = "UPLOAD_IDLE"
                 /\ delivered' = Least(SizeRead(flash'), T)
                 /\ delivered' = T => fifo' = P - T
  <1>1. action_entry_upload(T)
    BY DEF Request, dfu_request_with_arguments, HandleByState, LeavesByCommonCode, SyncStates
  <1>2. PICK c \in ConnectIfNeeded :
          IF c.ret = "OK" THEN UploadFrom(c.flash, T) ELSE CannotConnect(c.flash)
    BY <1>1 DEF action_entry_upload
  <1>3. c.flash \in flash_session
    BY <1>2, Connects DEF TypeOK
  <1>4. UNCHANGED <<sub_state, poll_timeout>>
    BY <1>1 DEF action_entry_upload, sub
  <1>5. CASE CannotConnect(c.flash)
    BY <1>4, <1>5 DEF CannotConnect, error_condition, Respond
  <1>6. CASE UploadFrom(c.flash, T)
    <2>1. PICK s \in flash_start_read(c.flash) :
            CASE s.ret = "OK" -> FirstBlock(s.flash, T)
              [] s.ret = "READ_NO_IMAGE" ->
                   /\ normal_transition("UPLOAD_IDLE")
                   /\ Respond("SUCCESS", "none")
                   /\ read_length' = 0 /\ fifo' = 0 /\ delivered' = 0 /\ flash' = s.flash
              [] OTHER ->
                   /\ error_condition("errFILE")
                   /\ Respond("ERROR", "none")
                   /\ fifo' = 0 /\ delivered' = 0 /\ flash' = s.flash
                   /\ UNCHANGED read_length
      BY <1>6 DEF UploadFrom
    <2>2. /\ s.flash = c.flash
          /\ s.ret = "OK" => c.flash.upgrade_image_valid = 1
          /\ s.ret = "READ_NO_IMAGE" => c.flash.upgrade_image_valid # 1
      BY DEF flash_start_read, Fault, Result
    <2>3. CASE s.ret = "OK"
      <3>1. PICK u \in upload_block(c.flash, 0, T) :
              /\ fifo' = u.fifo /\ flash' = u.flash
              /\ IF u.ret = "SUCCESS"
                 THEN /\ normal_transition("UPLOAD_IDLE")
                      /\ delivered' = Least(c.flash.size, T)
                      /\ Respond("SUCCESS", "none")
                 ELSE /\ error_condition("errFILE")
                      /\ Respond("ERROR", "none")
        BY <2>1, <2>2, <2>3 DEF FirstBlock
      <3>2. u.flash = c.flash /\ (u.ret = "SUCCESS" => u.fifo = P - T)
        BY DeviceNumbers DEF upload_block, flash_read_page, Fault, Result
      <3> QED BY <1>4, <2>2, <2>3, <3>1, <3>2
              DEF normal_transition, error_condition, Respond, SizeRead
    <2>4. CASE s.ret = "READ_NO_IMAGE"
      BY <1>4, <2>1, <2>2, <2>4, DeviceNumbers
         DEF normal_transition, Respond, SizeRead, Least
    <2>5. CASE s.ret \notin {"OK", "READ_NO_IMAGE"}
      BY <1>4, <2>1, <2>5 DEF error_condition, Respond
    <2> QED BY <2>3, <2>4, <2>5
  <1> QED BY <1>2, <1>5, <1>6

LEMMA UploadNext ==
    ASSUME TypeOK, UploadAccounted, state = "UPLOAD_IDLE", Request("UPLOAD", T)
    PROVE  /\ resp'.deferred = "none" /\ UNCHANGED <<sub_state, poll_timeout>>
           /\ \/ resp'.status = "ERROR" /\ state' = "DFU_ERROR"
              \/ /\ resp'.status = "SUCCESS" /\ state' = "UPLOAD_IDLE"
                 /\ delivered' = delivered + T
                 /\ \/ fifo > 0 /\ T <= fifo /\ fifo' = fifo - T
                    \/ fifo = 0 /\ fifo' = P - T
              \/ /\ resp'.status = "SUCCESS" /\ state' = "DFU_IDLE"
                 /\ delivered' - delivered < T
                 /\ delivered' = SizeRead(flash')
  <1>1. state_upload_idle(T)
    BY DEF Request, dfu_request_with_arguments, HandleByState, LeavesByCommonCode, SyncStates
  <1>2. delivered \in Nat /\ read_length \in Int /\ fifo \in Nat
    BY FlashAssumption, DeviceAssumption, DeviceNumbers DEF TypeOK, FlashAssumption, P
  <1>3. CASE read_length <= 0
    <2>1. MoveTo("DFU_IDLE", "SUCCESS", "none")
      BY <1>1, <1>3 DEF state_upload_idle
    <2> QED BY <1>2, <1>3, <2>1, DeviceNumbers
            DEF MoveTo, normal_transition, Respond, sub, UploadAccounted, SizeRead
  <1>4. CASE read_length > 0
    <2>1. NextBlock(T)
      BY <1>1, <1>2, <1>4 DEF state_upload_idle
    <2>2. PICK u \in upload_block(flash, fifo, T) :
            /\ fifo' = u.fifo /\ flash' = u.flash
            /\ IF u.ret = "SUCCESS"
               THEN /\ IF read_length < T THEN normal_transition("DFU_IDLE")
                                          ELSE UNCHANGED core
                    /\ Respond("SUCCESS", "none")
                    /\ delivered' = delivered + Least(read_length, T)
               ELSE /\ error_condition("errFILE")
                    /\ Respond("ERROR", "none")
            /\ UNCHANGED sub
      BY <2>1 DEF NextBlock
    <2>3. /\ u.flash = flash
          /\ u.ret = "SUCCESS" =>
               \/ fifo > 0 /\ T <= fifo /\ u.fifo = fifo - T
               \/ fifo = 0 /\ u.fifo = P - T
      BY <1>2, DeviceNumbers DEF upload_block, flash_read_page, Fault, Result
    <2>4. CASE u.ret # "SUCCESS"
      BY <2>2, <2>4 DEF error_condition, Respond, sub
    <2>5. CASE u.ret = "SUCCESS" /\ read_length < T
      BY <1>2, <1>4, <2>2, <2>3, <2>5, DeviceNumbers
         DEF normal_transition, Respond, sub, Least, UploadAccounted, SizeRead
    <2>6. CASE u.ret = "SUCCESS" /\ ~(read_length < T)
      BY <1>2, <1>4, <2>2, <2>3, <2>6, DeviceNumbers DEF Respond, sub, core, Least
    <2> QED BY <2>4, <2>5, <2>6
  <1> QED BY <1>2, <1>3, <1>4

-----------------------------------------------------------------------------
(* The theorems.                                                           *)

LEMMA PoliteHost == PoliteSpec => Spec
  <1>1. PoliteNext => Next
    BY DEF PoliteNext, PoliteRequest, Next, HostRequest
  <1>2. [PoliteNext]_vars => [Next]_vars
    BY <1>1
  <1> QED BY <1>2, PTL DEF PoliteSpec, Spec

LEMMA PoliteBoot ==
    ASSUME IInv, Boot
    PROVE  PoliteInv' /\ ~Programs /\ ~Completes
  <1>1. /\ state' = "APP_IDLE" /\ flash_finalised' = 0 /\ sub_state' = "SYNC"
        /\ programmed' = 0 /\ programmed \in Nat
    BY FlashAssumption DEF FlashAssumption, Boot, NoTransfer, IInv, DeviceInv, TypeOK
  <1> QED
    BY <1>1
       DEF PoliteInv, SyncOutside, WritesErased, FinalisedWaits, AllProgrammed,
           FinalisedWhole, Programs, Completes

\* What the protocol adds to the inductive invariant of the device.
THEOREM PoliteInductive == PoliteSpec => [](IInv /\ PoliteInv)
  <1>1. Init => PoliteInv
    BY DEF Init, PoliteInv, SyncOutside, WritesErased, FinalisedWaits, AllProgrammed,
           FinalisedWhole
  <1>2. ASSUME IInv, PoliteInv, [PoliteNext]_vars PROVE PoliteInv'
    <2>1. CASE PoliteRequest
      BY <1>2, <2>1, PoliteRequestStep
    <2>2. CASE RunDeferred
      BY <1>2, <2>2, PoliteDeferredStep
    <2>3. CASE dfu_reboot \/ PowerCycle
      BY <1>2, <2>3, PoliteBoot DEF dfu_reboot, PowerCycle
    <2>4. CASE UNCHANGED vars
      BY <1>2, <2>4
         DEF vars, core, buffer, sub, download, PoliteInv, SyncOutside, WritesErased,
             FinalisedWaits, AllProgrammed, FinalisedWhole, Ready, Rebooting
    <2> QED BY <1>2, <2>1, <2>2, <2>3, <2>4 DEF PoliteNext
  <1> QED BY <1>1, <1>2, Inductive, PoliteHost, PTL DEF PoliteSpec

\* Whatever fails and wherever the power does: no page is programmed into a slot
\* that this session has not erased to the end.
THEOREM ErasedFirst == PoliteSpec => ProgramsErasedSlot
  <1>1. ASSUME IInv, PoliteInv, [PoliteNext]_vars
        PROVE  [Programs /\ state \in SyncStates =>
                    flash.erased = 1 \/ flash'.erased = 1]_vars
    <2>1. CASE PoliteRequest
      BY <1>1, <2>1, PoliteRequestStep
    <2>2. CASE RunDeferred
      BY <1>1, <2>2, PoliteDeferredStep
    <2>3. CASE dfu_reboot \/ PowerCycle
      BY <1>1, <2>3, PoliteBoot DEF dfu_reboot, PowerCycle
    <2> QED BY <1>1, <2>1, <2>2, <2>3 DEF PoliteNext
  <1> QED BY <1>1, PoliteInductive, PTL DEF PoliteSpec, ProgramsErasedSlot

\* Where no page write fails, or the library takes no torn image for a boot image, the
\* poll that reports the end of a download finds the whole image in the slot, every byte
\* the host sent.
THEOREM DoneIsStored ==
    ASSUME LossIsFound
    PROVE  PoliteSpec => DoneMeansStored
  <1>1. ASSUME IInv, PoliteInv, [PoliteNext]_vars
        PROVE  [Completes => flash.slot = "whole" /\ flash.size = accepted]_vars
    <2>1. CASE PoliteRequest
      BY <1>1, <2>1, PoliteRequestStep
    <2>2. CASE RunDeferred
      BY <1>1, <2>2, PoliteDeferredStep
    <2>3. CASE dfu_reboot \/ PowerCycle
      BY <1>1, <2>3, PoliteBoot DEF dfu_reboot, PowerCycle
    <2> QED BY <1>1, <2>1, <2>2, <2>3 DEF PoliteNext
  <1> QED BY <1>1, PoliteInductive, PTL DEF PoliteSpec, DoneMeansStored

-----------------------------------------------------------------------------
(* A host that need not follow the protocol, and may break off anywhere.   *)

Loading == {"DNLOAD_SYNC", "DNLOAD_IDLE", "MANIFEST_SYNC"}

\* Where a download or an upload can begin the sub state machine is at rest.
Reset == state \in {"DFU_IDLE", "UPLOAD_IDLE"} => sub_state = "SYNC"

\* Pages go to an erased slot.
LoadsErased == state \in Loading /\ sub_state = "WRITING" => Ready(flash)

\* While blocks come in, whole pages are programmed and what is left is in the fifo.
WholePages ==
    state \in {"DNLOAD_SYNC", "DNLOAD_IDLE"} => accepted # 0 /\ Multiple(programmed, P)

\* What is taken for the end of a download is one, though flash_finalised may be left
\* over from an earlier one: with bytes in the fifo it says nothing.
EndsWhole ==
    state = "MANIFEST_SYNC" =>
        /\ "write" \notin Faults => programmed + fifo = accepted
        /\ DownloadDone =>
             /\ sub_state = "SYNC" /\ deferred # "FLASH_MANIFEST"
             /\ LossIsFound => flash.slot = "whole" /\ flash.size = accepted

LoadsInv == Reset /\ LoadsErased /\ WholePages /\ EndsWhole

\* No download is ended with an empty fifo.
EndsInPage == state = "DNLOAD_IDLE" /\ state' = "MANIFEST_SYNC" => fifo # 0

\* Only a detach leads to DFU mode: a bus reset with the DFU flag set would leave the sub
\* state machine as it is.
EntersByDetach == state = "APP_IDLE" => state' # "DFU_IDLE"

BrokenOffNext == Next /\ EndsInPage /\ EntersByDetach

LEMMA LoadsElsewhere ==
    ASSUME \/ state' \notin Loading \cup {"DFU_IDLE", "UPLOAD_IDLE"}
           \/ state' \in {"DFU_IDLE", "UPLOAD_IDLE"} /\ sub_state' = "SYNC"
    PROVE  LoadsInv'
  BY DEF LoadsInv, Reset, LoadsErased, WholePages, EndsWhole, Loading

LEMMA LoadsStay ==
    ASSUME LoadsInv,
           UNCHANGED <<state, sub_state, flash, fifo, flash_finalised, accepted, programmed>>,
           DownloadDone => deferred' \in {deferred, "none"}
    PROVE  LoadsInv'
  <1>1. Reset' /\ LoadsErased' /\ WholePages'
    BY DEF LoadsInv, Reset, LoadsErased, WholePages, Ready
  <1>2. EndsWhole'
    BY DEF LoadsInv, EndsWhole, DownloadDone
  <1> QED BY <1>1, <1>2 DEF LoadsInv

\* A request of the host, or a deferred action that finds another state than the one it
\* was asked for in.
LEMMA LoadsHandled ==
    ASSUME IInv, LoadsInv, EndsInPage, EntersByDetach, NEW r, HandleByState(r),
           r.cmd = "DNLOAD" => r.n \in 0 .. T,
           deferred' \in Holds(resp'.deferred) \cup {"none"},
           state = "DNLOAD_SYNC" => r.cmd # "FLASH_WRITE",
           state = "MANIFEST_SYNC" => r.cmd # "FLASH_MANIFEST"
    PROVE  LoadsInv'
  <1>0. /\ fifo \in Nat /\ accepted \in Nat /\ P \in Nat /\ T \in Nat
        /\ state \in dfu_state
    BY FlashAssumption, DeviceAssumption
       DEF FlashAssumption, DeviceAssumption, IInv, DeviceInv, TypeOK, P, T
  <1>1. CASE state = "APP_IDLE"
    <2>1. state_app_idle(r)
      BY <1>1 DEF HandleByState
    <2>2. state' \in {"APP_IDLE", "APP_DETACH"}
      BY <1>1, <2>1
         DEF state_app_idle, MoveTo, Stay, normal_transition, core, EntersByDetach
    <2> QED BY <2>2, LoadsElsewhere DEF Loading
  <1>2. CASE state = "APP_DETACH"
    <2>1. state_detach(r)
      BY <1>2 DEF HandleByState
    <2>2. state' = "APP_IDLE" \/ (state' = "DFU_IDLE" /\ sub_state' = "SYNC")
      BY <2>1 DEF state_detach, MoveTo, normal_transition, sub_sm_clear
    <2> QED BY <2>2, LoadsElsewhere DEF Loading
  <1>3. CASE state = "DFU_IDLE"
    <2>1. sub_state = "SYNC"
      BY <1>3 DEF LoadsInv, Reset
    <2>2. CASE r.cmd = "DNLOAD"
      <3>1. action_entry_dnload(r.n)
        BY <1>3, <2>2 DEF HandleByState
      <3>2. CASE r.n = 0
        BY <3>1, <3>2, LoadsElsewhere
           DEF action_entry_dnload, Fail, error_condition, Loading
      <3>3. CASE r.n # 0
        <4>1. /\ state' = "DNLOAD_SYNC" /\ sub_state' = "SYNC"
              /\ accepted' # 0 /\ programmed' = 0
          BY <2>1, <3>1, <3>3 DEF action_entry_dnload, normal_transition, sub
        <4>2. Multiple(programmed', P)
          BY <1>0, <4>1, SmallMultiples
        <4> QED
          BY <4>1, <4>2 DEF LoadsInv, Reset, LoadsErased, WholePages, EndsWhole, Loading
      <3> QED BY <3>2, <3>3
    <2>3. CASE r.cmd = "UPLOAD"
      <3>1. action_entry_upload(r.n)
        BY <1>3, <2>3 DEF HandleByState
      <3>2. state' \in {"UPLOAD_IDLE", "DFU_ERROR"}
        BY <3>1
           DEF action_entry_upload, UploadFrom, FirstBlock, CannotConnect, normal_transition,
               error_condition
      <3>3. sub_state' = "SYNC"
        BY <2>1, <3>1 DEF action_entry_upload, sub
      <3> QED BY <3>2, <3>3, LoadsElsewhere DEF Loading
    <2>4. CASE r.cmd \notin {"DNLOAD", "UPLOAD"}
      <3>1. state_dfu_idle(r)
        BY <1>3, <2>4 DEF HandleByState
      <3>2. LeaveDfu => state' = "APP_IDLE"
        BY DEF LeaveDfu, normal_transition
      <3>3. action_revert_factory => state' \in {"DFU_IDLE", "DFU_ERROR"} /\ UNCHANGED sub_state
        BY <1>3 DEF action_revert_factory, CannotConnect, error_condition, core, sub
      <3>4. state' \in {"APP_IDLE", "DFU_ERROR"} \/ (state' = "DFU_IDLE" /\ UNCHANGED sub_state)
        BY <1>3, <3>1, <3>2, <3>3
           DEF state_dfu_idle, Stay, Stall, Fail, error_condition, core, sub
      <3> QED BY <2>1, <3>4, LoadsElsewhere DEF Loading
    <2> QED BY <2>2, <2>3, <2>4
  <1>4. CASE state = "DNLOAD_SYNC"
    <2>1. state_dnload_sync(r)
      BY <1>4 DEF HandleByState
    <2>2. \/ /\ state' \in {"DNLOAD_SYNC", "DNLOAD_IDLE"}
             /\ UNCHANGED <<sub_state, flash, accepted, programmed>>
          \/ state' = "DFU_ERROR"
      BY <1>4, <2>1
         DEF state_dnload_sync, BadGetStatus, Stall, Fail, normal_transition,
             error_condition, sub, download
    <2>3. CASE state' = "DFU_ERROR"
      BY <2>3, LoadsElsewhere DEF Loading
    <2>4. CASE state' # "DFU_ERROR"
      BY <1>4, <2>2, <2>4
         DEF LoadsInv, Reset, LoadsErased, WholePages, EndsWhole, Loading, Ready
    <2> QED BY <2>3, <2>4
  <1>5. CASE state = "MANIFEST_SYNC"
    <2>1. state_manifest_sync(r)
      BY <1>5 DEF HandleByState
    <2>2. CASE r.cmd = "GETSTATUS" /\ r.n = 1 /\ DownloadDone
      <3>1. state' = "DFU_IDLE" /\ sub_state' = "SYNC"
        BY <1>5, <2>1, <2>2
           DEF state_manifest_sync, normal_transition, sub, LoadsInv, EndsWhole
      <3> QED BY <3>1, LoadsElsewhere
    <2>3. CASE r.cmd = "GETSTATUS" /\ r.n = 1 /\ ~DownloadDone
      <3>1. UNCHANGED <<state, sub_state, flash, fifo, flash_finalised, accepted, programmed>>
        BY <1>5, <2>1, <2>3
           DEF state_manifest_sync, normal_transition, sub, buffer, download
      <3> QED BY <2>3, <3>1, LoadsStay
    <2>4. CASE ~(r.cmd = "GETSTATUS" /\ r.n = 1)
      <3>1. state' = "DFU_ERROR"
        BY <1>5, <2>1, <2>4 DEF state_manifest_sync, BadGetStatus, Stall, Fail, error_condition
      <3> QED BY <3>1, LoadsElsewhere DEF Loading
    <2> QED BY <2>2, <2>3, <2>4
  <1>6. CASE state = "DNLOAD_IDLE"
    <2>1. CASE r.cmd # "DNLOAD" \/ (r.n # 0 /\ ~FifoTakes(r.n))
      <3>1. state' = "DFU_ERROR"
        BY <1>6, <2>1 DEF HandleByState, state_download_idle, Stall, Fail, error_condition
      <3> QED BY <3>1, LoadsElsewhere DEF Loading
    <2>2. CASE r.cmd = "DNLOAD" /\ r.n = 0
      <3>0. FifoTakes(r.n)
        BY <2>2, DeviceAssumption DEF DeviceAssumption, IInv, DeviceInv, TypeOK, FifoTakes, P
      <3>1. /\ UNCHANGED <<fifo, flash_finalised, sub_state, flash, accepted, programmed>>
            /\ state' = "MANIFEST_SYNC"
        BY <1>6, <2>2, <3>0
           DEF HandleByState, state_download_idle, MoveTo, normal_transition, buffer, sub,
               download
      <3>2. fifo' # 0
        BY <1>6, <3>1 DEF EndsInPage
      <3>3. programmed' + fifo' = accepted'
        BY <1>6, <3>1 DEF IInv, DeviceInv, BytesAccounted
      <3>4. EndsWhole'
        BY <3>2, <3>3 DEF EndsWhole, DownloadDone
      <3> QED
        BY <1>6, <3>1, <3>4 DEF LoadsInv, Reset, LoadsErased, WholePages, Loading, Ready
    <2>3. CASE r.cmd = "DNLOAD" /\ r.n # 0 /\ FifoTakes(r.n)
      <3>1. /\ state' = "DNLOAD_SYNC" /\ UNCHANGED <<sub_state, flash, programmed>>
            /\ accepted' = accepted + r.n
        BY <1>6, <2>3 DEF HandleByState, state_download_idle, normal_transition, sub
      <3>2. accepted' # 0
        BY <1>0, <2>3, <3>1
      <3> QED
        BY <1>6, <3>1, <3>2
           DEF LoadsInv, Reset, LoadsErased, WholePages, EndsWhole, Loading, Ready
    <2> QED BY <2>1, <2>2, <2>3
  <1>7. CASE state = "UPLOAD_IDLE"
    <2>1. sub_state = "SYNC"
      BY <1>7 DEF LoadsInv, Reset
    <2>2. /\ state' \in {"UPLOAD_IDLE", "DFU_IDLE", "DFU_ERROR"} /\ UNCHANGED sub_state
      BY <1>7
         DEF HandleByState, state_upload_idle, NextBlock, MoveTo, Stall, Fail,
             normal_transition, error_condition, core, sub
    <2> QED BY <2>1, <2>2, LoadsElsewhere DEF Loading
  <1>8. CASE state = "DFU_ERROR"
    <2>1. state' = "DFU_ERROR" \/ (state' = "DFU_IDLE" /\ sub_state' = "SYNC")
      BY <1>8 DEF HandleByState, ClearError, Stay, normal_transition, sub_sm_clear, core
    <2> QED BY <2>1, LoadsElsewhere DEF Loading
  <1> QED
    BY <1>0, <1>1, <1>2, <1>3, <1>4, <1>5, <1>6, <1>7, <1>8
       DEF dfu_state, AppStates, SyncStates

\* A page of a download that is under way.
LEMMA LoadsWritten ==
    ASSUME IInv, LoadsInv, deferred = "FLASH_WRITE", state = "DNLOAD_SYNC",
           NEW r, r.cmd = "FLASH_WRITE", state_dnload_sync(r)
    PROVE  LoadsInv'
  <1>1. PICK st \in dfu_status : sub_sm_process_dnload(st) /\ AfterSubSm(st)
    BY DEF state_dnload_sync
  <1>2. state' = "DNLOAD_SYNC" \/ state' = "DFU_ERROR"
    BY <1>1, SubSmResult DEF IInv
  <1>3. sub_state' = "WRITING" => Ready(flash')
    BY <1>1, DnloadWritesErased DEF LoadsInv, LoadsErased, Loading, IInv, DeviceInv
  <1>4. P \in Nat /\ programmed \in Nat /\ fifo \in Nat /\ Multiple(programmed, P)
    BY FlashAssumption, DeviceAssumption
       DEF FlashAssumption, DeviceAssumption, IInv, DeviceInv, TypeOK, P, LoadsInv, WholePages
  <1>5. programmed' \in {programmed, programmed + P}
    <2>1. CASE Programs
      BY <1>1, <2>1, HeldWritePrograms
    <2>2. CASE ~Programs
      <3>1. \/ programmed' = programmed
            \/ programmed' = programmed + PageBytes
        BY <1>1, <1>4
           DEF sub_sm_process_dnload, DnloadSync, DnloadErasing, DnloadWriting, DrainPage,
               ProgrammedAfter, download
      <3>2. PageBytes \in Nat
        BY <1>4 DEF PageBytes, Least
      <3> QED BY <1>4, <2>2, <3>1, <3>2 DEF Programs
    <2> QED BY <2>1, <2>2
  <1>6. Multiple(programmed', P)
    BY <1>4, <1>5, MultipleNext
  <1>7. accepted' # 0
    BY DEF state_dnload_sync, LoadsInv, WholePages
  <1> QED
    BY <1>2, <1>3, <1>6, <1>7
       DEF LoadsInv, Reset, LoadsErased, WholePages, EndsWhole, Loading

\* The last page and the end of the image.
LEMMA LoadsManifested ==
    ASSUME IInv, LoadsInv, deferred' = "none", state = "MANIFEST_SYNC",
           NEW r, r.cmd = "FLASH_MANIFEST", state_manifest_sync(r)
    PROVE  LoadsInv'
  <1>1. PICK st \in dfu_status, finalised \in {0, 1} :
          /\ sub_sm_process_manifest(st, finalised)
          /\ AfterSubSm(st)
          /\ flash_finalised' = IF st = "OK" THEN finalised ELSE flash_finalised
    BY DEF state_manifest_sync
  <1>2. accepted' = accepted /\ (sub_state = "WRITING" => Ready(flash))
    BY DEF state_manifest_sync, LoadsInv, LoadsErased, Loading
  <1>3. /\ TypeOK /\ programmed + fifo <= MaxImage
        /\ "write" \notin Faults => programmed + fifo = accepted
    BY FlashAssumption, DeviceAssumption
       DEF FlashAssumption, DeviceAssumption, IInv, DeviceInv, ManifestBound, TypeOK, P,
           LoadsInv, EndsWhole
  <1>4. \/ st = "OK" /\ state' = "MANIFEST_SYNC"
        \/ st # "OK" /\ state' = "DFU_ERROR"
    BY <1>1, SubSmResult DEF IInv
  <1>5. CASE st # "OK"
    BY <1>4, <1>5, LoadsElsewhere DEF Loading
  <1>6. CASE st = "OK" /\ sub_state # "WRITING"
    <2>1. sub_sm_process_dnload(st) /\ finalised = 0
      BY <1>1, <1>6 DEF sub_sm_process_manifest
    <2>2. sub_state' = "WRITING" => Ready(flash')
      BY <1>2, <1>3, <2>1, DnloadWritesErased
    <2>3. programmed' + fifo' = programmed + fifo
      BY <1>3, <1>6, <2>1, ProcessDnload
    <2>4. ~DownloadDone'
      BY <1>1, <1>6, <2>1 DEF DownloadDone
    <2> QED
      BY <1>2, <1>3, <1>4, <1>6, <2>2, <2>3, <2>4
         DEF LoadsInv, Reset, LoadsErased, WholePages, EndsWhole
  <1>7. CASE st = "OK" /\ sub_state = "WRITING"
    <2>1. LastPage(st, finalised)
      BY <1>1, <1>7 DEF sub_sm_process_manifest
    <2>2. /\ sub_state' = "SYNC"
          /\ finalised = 1 => fifo' = 0
          /\ "write" \notin Faults /\ programmed + fifo = accepted /\ st = "OK" =>
               /\ programmed' + fifo' = accepted
               /\ finalised = 1 => flash'.slot = "whole" /\ flash'.size = accepted
          /\ 0 \notin TornFound /\ finalised = 1 =>
               flash'.slot = "whole" /\ flash'.size = accepted
      BY <1>2, <1>3, <1>7, <2>1, LastPageCloses
    <2>3. DownloadDone' => finalised = 1
      BY <1>1, <1>7 DEF DownloadDone
    <2>4. LossIsFound /\ finalised = 1 => flash'.slot = "whole" /\ flash'.size = accepted'
      BY <1>2, <1>3, <1>7, <2>2 DEF LossIsFound
    <2>5. "write" \notin Faults => programmed' + fifo' = accepted'
      BY <1>2, <1>3, <1>7, <2>2
    <2>6. EndsWhole'
      BY <2>2, <2>3, <2>4, <2>5 DEF EndsWhole
    <2> QED BY <1>4, <1>7, <2>2, <2>6 DEF LoadsInv, Reset, LoadsErased, WholePages
  <1> QED BY <1>5, <1>6, <1>7

LEMMA LoadsStep ==
    ASSUME IInv, LoadsInv, [Next]_vars, EndsInPage, EntersByDetach
    PROVE  LoadsInv'
  <1>1. CASE HostRequest
    <2>1. PICK r \in Requests :
            dfu_request_with_arguments(r) /\ deferred' \in Holds(resp'.deferred)
      BY <1>1 DEF HostRequest, Answer
    <2>2. CASE ReportDescriptor \/ ReportState(r)
      <3>1. UNCHANGED <<core, buffer, flash_finalised, sub, flash, download>>
        BY <2>2 DEF ReportDescriptor, ReportState
      <3>2. resp'.deferred = "none"
        BY <2>2 DEF ReportDescriptor, ReportState, Respond, build_status
      <3>3. deferred' \in {deferred, "none"}
        BY <2>1, <3>2 DEF Holds
      <3> QED BY <3>1, <3>3, LoadsStay DEF core, buffer, sub, download
    <2>3. CASE LeaveDfu
      BY <2>3, LoadsElsewhere DEF LeaveDfu, normal_transition, Loading
    <2>4. CASE HandleByState(r)
      BY <2>1, <2>4, LoadsHandled DEF Requests
    <2> QED BY <2>1, <2>2, <2>3, <2>4 DEF dfu_request_with_arguments
  <1>2. CASE RunDeferred
    <2> DEFINE r == [cmd |-> deferred, n |-> 0]
    <2>1. dfu_request_with_arguments(r) /\ deferred' = "none"
      BY <1>2 DEF RunDeferred
    <2>2. deferred \in {"REVERT_FACTORY", "FLASH_CONNECT", "FLASH_WRITE", "FLASH_MANIFEST"}
      BY <1>2 DEF RunDeferred, Reboots, IInv, DeviceInv, TypeOK, deferred_action
    <2>3. HandleByState(r)
      BY <2>1, <2>2 DEF dfu_request_with_arguments
    <2>4. CASE state = "DNLOAD_SYNC" /\ deferred = "FLASH_WRITE"
      <3>1. state_dnload_sync(r)
        BY <2>3, <2>4 DEF HandleByState
      <3> QED BY <2>4, <3>1, LoadsWritten
    <2>5. CASE state = "MANIFEST_SYNC" /\ deferred = "FLASH_MANIFEST"
      <3>1. state_manifest_sync(r)
        BY <2>3, <2>5 DEF HandleByState
      <3> QED BY <2>1, <2>5, <3>1, LoadsManifested
    <2>6. CASE ~(state = "DNLOAD_SYNC" /\ deferred = "FLASH_WRITE")
               /\ ~(state = "MANIFEST_SYNC" /\ deferred = "FLASH_MANIFEST")
      BY <2>1, <2>2, <2>3, <2>6, LoadsHandled
    <2> QED BY <2>4, <2>5, <2>6
  <1>3. CASE dfu_reboot \/ PowerCycle \/ dfu_timeout_detach
    BY <1>3, LoadsElsewhere
       DEF dfu_reboot, PowerCycle, Boot, dfu_timeout_detach, normal_transition, Loading
  <1>4. CASE UNCHANGED vars
    BY <1>4, LoadsStay DEF vars, core, buffer, sub, download
  <1> QED BY <1>1, <1>2, <1>3, <1>4 DEF Next

LEMMA EndIsDone ==
    ASSUME Completes, HostRequest \/ RunDeferred
    PROVE  DownloadDone
  <1>1. PICK r : dfu_request_with_arguments(r)
    BY DEF HostRequest, Answer, RunDeferred
  <1>2. \/ ReportState(r) \/ ReportDescriptor \/ LeaveDfu \/ state_manifest_sync(r)
    BY <1>1 DEF dfu_request_with_arguments, HandleByState, Completes
  <1>3. state_manifest_sync(r)
    BY <1>2
       DEF ReportState, ReportDescriptor, LeaveDfu, normal_transition, core, Completes
  <1> QED
    BY <1>3
       DEF state_manifest_sync, AfterSubSm, BadGetStatus, Stall, Fail, normal_transition,
           error_condition, core, Completes

\* A host may send what it likes and break off where it likes, and the next one may go on
\* from there: where losses are found out, a download of less or more than whole pages
\* that is reported done is in the slot.
THEOREM TailIsStored ==
    ASSUME LossIsFound
    PROVE  Init /\ [][BrokenOffNext]_vars => DoneMeansStored
  <1>1. Init => LoadsInv
    BY DEF Init, LoadsInv, Reset, LoadsErased, WholePages, EndsWhole, Loading
  <1>2. IInv /\ LoadsInv /\ [BrokenOffNext]_vars => LoadsInv'
    <2>1. UNCHANGED vars /\ LoadsInv => LoadsInv'
      BY LoadsStay DEF vars, core, buffer, sub, download
    <2> QED BY <2>1, LoadsStep DEF BrokenOffNext
  <1>3. LoadsInv /\ [BrokenOffNext]_vars
          => [Completes => flash.slot = "whole" /\ flash.size = accepted]_vars
    <2> SUFFICES ASSUME LoadsInv, Next, Completes
                 PROVE  flash.slot = "whole" /\ flash.size = accepted
      BY DEF BrokenOffNext
    <2>1. HostRequest \/ RunDeferred
      BY DEF Next, dfu_reboot, PowerCycle, Boot, dfu_timeout_detach, normal_transition,
             Completes
    <2> QED BY <2>1, EndIsDone DEF LoadsInv, EndsWhole, Completes
  <1>4. [BrokenOffNext]_vars => [Next]_vars
    BY DEF BrokenOffNext
  <1>5. Init /\ [][BrokenOffNext]_vars => Spec
    BY <1>4, PTL DEF Spec
  <1> QED BY <1>1, <1>2, <1>3, <1>5, Inductive, PTL DEF DoneMeansStored
=============================================================================
