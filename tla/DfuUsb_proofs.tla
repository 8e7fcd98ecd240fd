--------------------------- MODULE DfuUsb_proofs ---------------------------
(***************************************************************************)
(* Endpoint 0 keeps its two words, the flag and the mode, in step with the *)
(* state machine on the other tile, and implements the device of           *)
(* DfuDevice: the flag with any host, the mode with one that sends no bus  *)
(* reset with a value, the device with one that sends no raw number.       *)
(***************************************************************************)
EXTENDS DfuUsb, DfuDevice_proofs

DfuStates == dfu_state \ AppStates

-----------------------------------------------------------------------------
(* What a request can do to the mode.                                      *)

\* The device stays in DFU mode and asks for no reboot.
StaysInDfu == state' \in DfuStates /\ resp'.deferred \in deferred_action \ Reboots

\* The four kinds of request: one that keeps the mode, the detach that starts
\* the way into DFU mode, the ways out of it, and the bus reset into it.
Keeps ==
    /\ state' # "APP_DETACH" /\ resp'.deferred \notin Reboots
    /\ state \in AppStates <=> state' \in AppStates

Detaches(r) ==
    /\ r.cmd = "DETACH" /\ state = "APP_IDLE"
    /\ state' = "APP_DETACH" /\ resp'.deferred = "REBOOT_TO_DFU"

LeavesMode(r) ==
    /\ r.cmd \in {"BUS_RESET", "DETACH"} /\ state \in DfuStates
    /\ state' = "APP_IDLE" /\ resp'.deferred = "REBOOT"

EntersMode(r) ==
    /\ r.cmd = "BUS_RESET" /\ r.n # 0 /\ state = "APP_IDLE"
    /\ state' = "DFU_IDLE" /\ resp'.deferred = "none"

Effect(r) ==
    /\ state' \in dfu_state /\ resp'.deferred \in deferred_action
    /\ Keeps \/ Detaches(r) \/ LeavesMode(r) \/ EntersMode(r)

-----------------------------------------------------------------------------
(* The handlers, in the order of DfuDevice.                                *)

\* The answers the handlers of DFU mode are built from.
LEMMA PlainAnswers ==
    ASSUME state \in DfuStates, NEW st,
           NEW act \in deferred_action \ Reboots,
           \/ Stay(st, act)
           \/ \E new \in DfuStates : MoveTo(new, st, act)
           \/ \E code : Fail(code) /\ act = "none"
    PROVE  StaysInDfu
  <1>1. CASE Stay(st, act)
    BY <1>1 DEF Stay, Respond, core, StaysInDfu
  <1>2. CASE \E new \in DfuStates : MoveTo(new, st, act)
    BY <1>2 DEF MoveTo, normal_transition, Respond, StaysInDfu
  <1>3. CASE \E code : Fail(code) /\ act = "none"
    BY <1>3 DEF Fail, error_condition, Respond, StaysInDfu, DfuStates, dfu_state,
                AppStates, SyncStates
  <1> QED BY <1>1, <1>2, <1>3

LEMMA StatesOfDfu ==
    /\ DfuStates = SyncStates \cup {"DFU_IDLE", "DNLOAD_IDLE", "UPLOAD_IDLE", "DFU_ERROR"}
    /\ {"none", "REVERT_FACTORY", "FLASH_WRITE", "FLASH_MANIFEST"}
         \subseteq deferred_action \ Reboots
  BY DEF DfuStates, dfu_state, AppStates, SyncStates, deferred_action, Reboots

\* A change of state and an answer that asks for nothing.
LEMMA Settles ==
    ASSUME state \in DfuStates, NEW st, Respond(st, "none"),
           \/ UNCHANGED core
           \/ \E new \in DfuStates : normal_transition(new)
           \/ \E code : error_condition(code)
    PROVE  StaysInDfu
  <1>1. state' \in DfuStates
    BY StatesOfDfu DEF core, normal_transition, error_condition
  <1>2. resp'.deferred = "none"
    BY DEF Respond
  <1> QED BY <1>1, <1>2, StatesOfDfu DEF StaysInDfu

LEMMA EntriesStay ==
    ASSUME state \in DfuStates, NEW n,
           action_entry_dnload(n) \/ action_entry_upload(n) \/ action_revert_factory
    PROVE  StaysInDfu
  <1> DEFINE Settled ==
               \E st : /\ Respond(st, "none")
                       /\ \/ UNCHANGED core
                          \/ \E new \in DfuStates : normal_transition(new)
                          \/ \E code : error_condition(code)
  <1>1. CASE Settled
    BY <1>1, Settles
  <1>2. CASE action_entry_dnload(n)
    <2>1. CASE n = 0
      BY <1>2, <2>1, <1>1 DEF action_entry_dnload, Fail
    <2>2. CASE n # 0
      <3>1. normal_transition("DNLOAD_SYNC") /\ Respond("SUCCESS", "none")
        BY <1>2, <2>2 DEF action_entry_dnload
      <3> QED BY <1>1, <3>1, StatesOfDfu DEF SyncStates
    <2> QED BY <2>1, <2>2
  <1>3. \A f : CannotConnect(f) => Settled
    BY DEF CannotConnect
  <1>4. \A f : FirstBlock(f, n) => Settled
    BY StatesOfDfu DEF FirstBlock
  <1>5. \A f : UploadFrom(f, n) => Settled
    BY <1>4, StatesOfDfu DEF UploadFrom
  <1>6. CASE action_entry_upload(n)
    BY <1>1, <1>3, <1>5, <1>6 DEF action_entry_upload
  <1>7. CASE action_revert_factory
    BY <1>1, <1>3, <1>7 DEF action_revert_factory
  <1> QED BY <1>2, <1>6, <1>7

LEMMA DfuIdleEffect ==
    ASSUME state = "DFU_IDLE", NEW r, state_dfu_idle(r)
    PROVE  StaysInDfu \/ LeavesMode(r)
  <1>0. state \in DfuStates
    BY StatesOfDfu
  <1>1. CASE r.cmd = "FLASH_CONNECT"
    <2>1. \E st : Respond(st, "none") /\ (UNCHANGED core \/ error_condition("errTARGET"))
      BY <1>1 DEF state_dfu_idle
    <2> QED BY <1>0, <2>1, Settles
  <1>2. CASE action_revert_factory
    BY <1>0, <1>2, EntriesStay
  <1>3. CASE Stall \/ Stay("SUCCESS", "none") \/ Stay("SUCCESS", "REVERT_FACTORY")
    BY <1>0, <1>3, PlainAnswers, StatesOfDfu DEF Stall
  <1>4. CASE r.cmd \in {"BUS_RESET", "DETACH"} /\ LeaveDfu
    BY <1>0, <1>4 DEF LeaveDfu, normal_transition, Respond, LeavesMode
  <1> QED BY <1>1, <1>2, <1>3, <1>4 DEF state_dfu_idle

LEMMA SyncStatesStay ==
    ASSUME state \in SyncStates, NEW r,
           state_dnload_sync(r) \/ state_manifest_sync(r)
    PROVE  StaysInDfu
  <1>0. state \in DfuStates
    BY StatesOfDfu
  <1>1. CASE Stall
    BY <1>0, <1>1, PlainAnswers, StatesOfDfu DEF Stall
  <1>2. CASE \E st \in dfu_status : AfterSubSm(st)
    BY <1>0, <1>2, Settles DEF AfterSubSm
  <1>3. CASE \E t : \E act \in {"none", "FLASH_WRITE", "FLASH_MANIFEST"},
                       new \in DfuStates :
               build_status(t, act) /\ normal_transition(new)
    BY <1>3, StatesOfDfu DEF build_status, normal_transition, StaysInDfu
  <1>4. CASE BadGetStatus
    BY <1>4, StatesOfDfu DEF BadGetStatus, build_status, error_condition, StaysInDfu
  <1>5. {"DNLOAD_SYNC", "DNLOAD_IDLE", "MANIFEST_SYNC", "DFU_IDLE"} \subseteq DfuStates
    BY StatesOfDfu DEF SyncStates
  <1>6. CASE state_dnload_sync(r)
    BY <1>1, <1>2, <1>3, <1>4, <1>5, <1>6 DEF state_dnload_sync
  <1>7. CASE state_manifest_sync(r)
    BY <1>1, <1>2, <1>3, <1>4, <1>5, <1>7 DEF state_manifest_sync
  <1> QED BY <1>6, <1>7

LEMMA TransfersStay ==
    ASSUME state \in DfuStates, NEW r, NEW n,
           state_download_idle(n) \/ state_upload_idle(n) \/ ClearError(r)
    PROVE  StaysInDfu
  <1>0. {"DNLOAD_SYNC", "MANIFEST_SYNC", "DFU_IDLE"} \subseteq DfuStates
    BY StatesOfDfu DEF SyncStates
  <1>1. CASE \E st : /\ Respond(st, "none")
                     /\ \/ UNCHANGED core
                        \/ \E new \in DfuStates : normal_transition(new)
                        \/ \E code : error_condition(code)
    BY <1>1, Settles
  <1>2. CASE state_download_idle(n)
    BY <1>0, <1>1, <1>2 DEF state_download_idle, MoveTo, Fail
  <1>3. CASE state_upload_idle(n)
    BY <1>0, <1>1, <1>3 DEF state_upload_idle, NextBlock, MoveTo
  <1>4. CASE ClearError(r)
    BY <1>0, <1>1, <1>4 DEF ClearError, Stay
  <1> QED BY <1>2, <1>3, <1>4

LEMMA AppIdleEffect ==
    ASSUME state = "APP_IDLE", NEW r, state_app_idle(r)
    PROVE  Effect(r)
  <1>1. CASE \E st : Stay(st, "none")
    BY <1>1 DEF Stay, Respond, core, Effect, Keeps, Reboots, deferred_action, dfu_state,
                AppStates
  <1>2. CASE r.cmd = "BUS_RESET" /\ r.n # 0 /\ MoveTo("DFU_IDLE", "SUCCESS", "none")
    BY <1>2 DEF MoveTo, normal_transition, Respond, Effect, EntersMode, deferred_action,
                dfu_state
  <1>3. CASE r.cmd = "DETACH" /\ MoveTo("APP_DETACH", "SUCCESS", "REBOOT_TO_DFU")
    BY <1>3 DEF MoveTo, normal_transition, Respond, Effect, Detaches, deferred_action,
                dfu_state, AppStates
  <1> QED BY <1>1, <1>2, <1>3 DEF state_app_idle

-----------------------------------------------------------------------------
\* A request does one of four things to the mode; only a bus reset that says so
\* starts DFU mode, and a reboot is asked for on the ways between the modes only.
LEMMA RequestEffect ==
    ASSUME NEW r, state \in dfu_state, state # "APP_DETACH",
           dfu_request_with_arguments(r)
    PROVE  Effect(r)
  <1>1. CASE StaysInDfu /\ state \in DfuStates
    BY <1>1 DEF StaysInDfu, DfuStates, Effect, Keeps, AppStates
  <1>2. CASE ReportDescriptor \/ ReportState(r)
    BY <1>2 DEF ReportDescriptor, ReportState, build_status, Respond, core, Effect, Keeps,
                Reboots, deferred_action
  <1>3. CASE r.cmd \in {"BUS_RESET", "DETACH"} /\ LeavesByCommonCode /\ LeaveDfu
    BY <1>3, StatesOfDfu
       DEF LeavesByCommonCode, LeaveDfu, normal_transition, Respond, Effect, LeavesMode,
           deferred_action, dfu_state, AppStates
  <1>4. CASE HandleByState(r)
    <2>1. CASE state = "APP_IDLE"
      BY <1>4, <2>1, AppIdleEffect DEF HandleByState
    <2>2. CASE state = "DFU_IDLE"
      <3>1. state \in DfuStates
        BY <2>2, StatesOfDfu
      <3>2. CASE LeavesMode(r)
        BY <3>2 DEF LeavesMode, Effect, dfu_state, AppStates, deferred_action
      <3>3. \/ action_entry_dnload(r.n) \/ action_entry_upload(r.n)
            \/ state_dfu_idle(r)
        BY <1>4, <2>2 DEF HandleByState
      <3> QED BY <1>1, <2>2, <3>1, <3>2, <3>3, EntriesStay, DfuIdleEffect
    <2>3. CASE state \in SyncStates
      BY <1>1, <1>4, <2>3, SyncStatesStay, StatesOfDfu DEF HandleByState, SyncStates
    <2>4. CASE state \in {"DNLOAD_IDLE", "UPLOAD_IDLE", "DFU_ERROR"}
      <3>1. state \in DfuStates /\ "DFU_IDLE" \in DfuStates
        BY <2>4, StatesOfDfu
      <3>2. \/ state_download_idle(r.n) \/ state_upload_idle(r.n) \/ ClearError(r)
            \/ Stall \/ MoveTo("DFU_IDLE", "SUCCESS", "none")
        BY <1>4, <2>4 DEF HandleByState
      <3>3. CASE Stall \/ MoveTo("DFU_IDLE", "SUCCESS", "none")
        BY <1>1, <3>1, <3>3, PlainAnswers, StatesOfDfu DEF Stall
      <3> QED BY <1>1, <3>1, <3>2, <3>3, TransfersStay
    <2> QED BY <2>1, <2>2, <2>3, <2>4 DEF dfu_state, AppStates
  <1> QED BY <1>2, <1>3, <1>4 DEF dfu_request_with_arguments

\* The bus reset does what its argument says, from both states it is sent in.
LEMMA ResetEffect ==
    ASSUME state \in dfu_state, state # "APP_DETACH", NEW n \in {0, 1},
           dfu_request_with_arguments([cmd |-> "BUS_RESET", n |-> n])
    PROVE  /\ n = 0 => state' = "APP_IDLE"
           /\ n = 1 /\ state \in {"APP_IDLE", "DFU_IDLE"}
                => state' = "DFU_IDLE" /\ resp'.deferred = "none"
  <1> DEFINE r == [cmd |-> "BUS_RESET", n |-> n]
  <1>1. CASE LeavesByCommonCode
    <2>1. LeaveDfu
      BY <1>1 DEF dfu_request_with_arguments
    <2> QED BY <1>1, <2>1 DEF LeavesByCommonCode, LeaveDfu, normal_transition, SyncStates
  <1>2. CASE state = "APP_IDLE"
    <2>1. state_app_idle(r)
      BY <1>2 DEF dfu_request_with_arguments, LeavesByCommonCode, SyncStates, HandleByState
    <2> QED BY <1>2, <2>1 DEF state_app_idle, MoveTo, Stay, normal_transition, Respond, core
  <1>3. CASE state = "DFU_IDLE"
    <2>1. state_dfu_idle(r)
      BY <1>3 DEF dfu_request_with_arguments, LeavesByCommonCode, SyncStates, HandleByState
    <2> QED BY <1>3, <2>1 DEF state_dfu_idle, LeaveDfu, Stay, normal_transition, Respond, core
  <1> QED BY <1>1, <1>2, <1>3 DEF LeavesByCommonCode, dfu_state, AppStates

-----------------------------------------------------------------------------
(* The server.                                                             *)

\* A call of the server has the effect of the request, the refused block none.
LEMMA CallEffect ==
    ASSUME EndpointInv, NEW r, handle_dfu_request(r)
    PROVE  Effect(r) /\ deferred' = resp'.deferred /\ deferred = "none"
  <1>1. deferred = "none" /\ state \in dfu_state /\ state # "APP_DETACH"
    BY DEF handle_dfu_request, EndpointInv
  <1>2. CASE r = TooLong
    BY <1>1, <1>2
       DEF handle_dfu_request, Stay, Respond, core, Effect, Keeps, Reboots, deferred_action
  <1>3. CASE r # TooLong
    BY <1>1, <1>3, RequestEffect DEF handle_dfu_request
  <1> QED BY <1>1, <1>2, <1>3 DEF handle_dfu_request

\* A request the device of DfuDevice knows.
LEMMA KnownCall ==
    ASSUME NEW r, NEW q \in Requests, handle_dfu_request(r), r # TooLong,
           dfu_request_with_arguments(r) => dfu_request_with_arguments(q)
    PROVE  HostRequest
  <1>1. dfu_request_with_arguments(q) /\ deferred' = resp'.deferred
    BY DEF handle_dfu_request
  <1>2. deferred' \in Holds(resp'.deferred)
    BY <1>1 DEF Holds
  <1> QED BY <1>1, <1>2 DEF Answer, HostRequest

\* To the device the refused block is like a request of no effect.
LEMMA RefusedBlock ==
    ASSUME handle_dfu_request(TooLong)
    PROVE  HostRequest
  <1> DEFINE q == [cmd |-> "GETSTATE", n |-> 0]
  <1>1. Stay("BAD_PARAM", "none") /\ deferred' = "none"
    BY DEF handle_dfu_request, Stay, Respond
  <1>2. dfu_request_with_arguments(q)
    BY <1>1 DEF Stay, ReportState, dfu_request_with_arguments
  <1>3. q \in Requests
    BY DEF Requests
  <1>4. deferred' \in Holds(resp'.deferred)
    BY <1>1 DEF Stay, Respond, Holds
  <1> QED BY <1>2, <1>3, <1>4 DEF Answer, HostRequest

\* A read the fifo cannot serve fails as one of no bytes does.
LEMMA LongReadFails ==
    ASSUME fifo \in 0 .. P, dfu_request_with_arguments(LongRead)
    PROVE  dfu_request_with_arguments([cmd |-> "UPLOAD", n |-> 0])
  <1> DEFINE q == [cmd |-> "UPLOAD", n |-> 0]
  <1>0. P \in Nat
    BY DeviceAssumption DEF DeviceAssumption, P
  <1>1. HandleByState(LongRead)
    BY DEF dfu_request_with_arguments, LongRead
  <1>2. \A f : \A count \in 0 .. P :
          /\ upload_block(f, count, P + 1) = upload_block(f, count, 0)
          /\ \A u \in upload_block(f, count, 0) : u.ret # "SUCCESS"
    <2> SUFFICES ASSUME NEW f, NEW count \in 0 .. P
                 PROVE  /\ upload_block(f, count, P + 1) = upload_block(f, count, 0)
                        /\ \A u \in upload_block(f, count, 0) : u.ret # "SUCCESS"
      OBVIOUS
    <2> DEFINE Failed(g, c) == [ret |-> "ERROR", flash |-> g, fifo |-> c]
               Blocks == IF count > 0
                         THEN {Failed(f, count)}
                         ELSE { IF p.ret = "OK" THEN Failed(p.flash, P)
                                                ELSE Failed(p.flash, count) :
                                p \in flash_read_page(f) }
    <2>1. upload_block(f, count, 0) = Blocks
      BY DEF upload_block
    <2>2. P + 1 > count /\ P + 1 > P
      BY <1>0
    <2>3. upload_block(f, count, P + 1) = Blocks
      BY <2>2 DEF upload_block
    <2>4. \A u \in Blocks : u.ret # "SUCCESS"
      OBVIOUS
    <2> QED BY <2>1, <2>3, <2>4
  <1>3. HandleByState(q)
    <2>1. CASE state = "DFU_IDLE"
      <3>1. action_entry_upload(P + 1)
        BY <1>1, <2>1 DEF HandleByState, LongRead
      <3>2. \A f : FirstBlock(f, P + 1) => FirstBlock(f, 0)
        BY <1>0, <1>2 DEF FirstBlock
      <3>3. \A f : UploadFrom(f, P + 1) => UploadFrom(f, 0)
        BY <3>2 DEF UploadFrom
      <3>4. action_entry_upload(0)
        BY <3>1, <3>3 DEF action_entry_upload
      <3> QED BY <2>1, <3>4 DEF HandleByState
    <2>2. CASE state = "UPLOAD_IDLE"
      <3>1. state_upload_idle(P + 1)
        BY <1>1, <2>2 DEF HandleByState, LongRead
      <3>2. NextBlock(P + 1) => NextBlock(0)
        BY <1>2 DEF NextBlock
      <3>3. state_upload_idle(0)
        BY <3>1, <3>2 DEF state_upload_idle
      <3> QED BY <2>2, <3>3 DEF HandleByState
    <2>3. CASE state \notin {"DFU_IDLE", "UPLOAD_IDLE"}
      BY <1>1, <2>3
         DEF HandleByState, LongRead, state_app_idle, state_detach, state_dnload_sync,
             state_manifest_sync, ClearError
    <2> QED BY <2>1, <2>2, <2>3
  <1> QED BY <1>3 DEF dfu_request_with_arguments

\* A number no handler knows is refused as ABORT is in dfuERROR, and as CLRSTATUS
\* is everywhere else.
LEMMA UnknownRefused ==
    ASSUME state \in dfu_state, NEW c \in UnknownNumbers,
           dfu_request_with_arguments([cmd |-> c, n |-> 0])
    PROVE  dfu_request_with_arguments(
               [cmd |-> IF state = "DFU_ERROR" THEN "ABORT" ELSE "CLRSTATUS", n |-> 0])
  <1> DEFINE q == [cmd |-> IF state = "DFU_ERROR" THEN "ABORT" ELSE "CLRSTATUS", n |-> 0]
  <1>1. HandleByState([cmd |-> c, n |-> 0])
    BY DEF dfu_request_with_arguments, UnknownNumbers
  <1>2. HandleByState(q)
    <2>1. CASE state = "DFU_ERROR"
      BY <1>1, <2>1 DEF HandleByState, UnknownNumbers, ClearError
    <2>2. CASE state \in {"APP_IDLE", "APP_DETACH"}
      BY <1>1, <2>2 DEF HandleByState, UnknownNumbers, state_app_idle, state_detach
    <2>3. CASE state = "DFU_IDLE"
      <3>1. state_dfu_idle([cmd |-> c, n |-> 0])
        BY <1>1, <2>3 DEF HandleByState, UnknownNumbers
      <3>2. Stall
        BY <3>1 DEF state_dfu_idle, UnknownNumbers
      <3>3. state_dfu_idle(q)
        BY <2>3, <3>2 DEF state_dfu_idle
      <3> QED BY <2>3, <3>3 DEF HandleByState
    <2>4. CASE state \in SyncStates
      <3>1. Stall
        BY <1>1, <2>4
           DEF SyncStates, HandleByState, UnknownNumbers, state_dnload_sync,
               state_manifest_sync
      <3> QED BY <2>4, <3>1
              DEF SyncStates, HandleByState, state_dnload_sync, state_manifest_sync
    <2>5. CASE state \in {"DNLOAD_IDLE", "UPLOAD_IDLE"}
      BY <1>1, <2>5 DEF HandleByState, UnknownNumbers
    <2> QED BY <2>1, <2>2, <2>3, <2>4, <2>5 DEF dfu_state, AppStates
  <1> QED BY <1>2 DEF dfu_request_with_arguments

\* What a host sends other than a raw number is a request of DfuDevice, or has
\* the effect of one.
LEMMA CallImplements ==
    ASSUME TypeOK, NEW r \in UsbRequests \ RawActions, handle_dfu_request(r)
    PROVE  HostRequest
  <1>1. CASE r = TooLong
    BY <1>1, RefusedBlock
  <1>2. CASE r \in Requests /\ r # TooLong
    BY <1>2, KnownCall
  <1>3. CASE r = LongRead /\ r # TooLong
    <2>1. 0 \in 0 .. T
      BY DeviceAssumption DEF DeviceAssumption, T
    <2>2. [cmd |-> "UPLOAD", n |-> 0] \in Requests
      BY <2>1 DEF Requests
    <2> QED BY <1>3, <2>2, KnownCall, LongReadFails DEF TypeOK
  <1>4. CASE r \in [cmd : UnknownNumbers, n : {0}] /\ r # TooLong
    <2> DEFINE q == [cmd |-> IF state = "DFU_ERROR" THEN "ABORT" ELSE "CLRSTATUS", n |-> 0]
    <2>1. q \in Requests
      BY DEF Requests
    <2>2. PICK c \in UnknownNumbers : r = [cmd |-> c, n |-> 0]
      BY <1>4
    <2>3. dfu_request_with_arguments(r) => dfu_request_with_arguments(q)
      BY <2>2, UnknownRefused DEF TypeOK
    <2> QED BY <1>4, <2>1, <2>3, KnownCall
  <1> QED BY <1>1, <1>2, <1>3, <1>4 DEF UsbRequests, RawActions, RawNumbers

-----------------------------------------------------------------------------
(* Endpoint 0.                                                             *)

\* A request of the host: the flag was clear, and is set with the answer that
\* asks for the reboot into DFU mode.  The modes can come apart only where the
\* request itself enters DFU mode.
LEMMA HostCallStep ==
    ASSUME EndpointInv, NEW r, DFUDeviceRequests(r)
    PROVE  EndpointInv' /\ (ModeKnown /\ ~EntersMode(r) => ModeKnown')
  <1>1. Effect(r) /\ deferred' = resp'.deferred /\ deferred = "none"
    BY CallEffect DEF DFUDeviceRequests
  <1>2. bus = "configured" /\ bus' = bus /\ mode_active' = mode_active
    BY DEF DFUDeviceRequests
  <1>3. flag' = (deferred' = "REBOOT_TO_DFU")
    BY <1>1 DEF DFUDeviceRequests
  <1>4. ModeKnown => (mode_active = 1 <=> state \notin AppStates)
    BY <1>1, <1>2 DEF ModeKnown, Reboots
  <1>5. CASE Keeps
    BY <1>1, <1>2, <1>3, <1>4, <1>5
       DEF Effect, Keeps, EndpointInv, ModeKnown, FlagTellsReboot, Reboots
  <1>6. CASE Detaches(r) \/ LeavesMode(r)
    BY <1>1, <1>2, <1>3, <1>4, <1>6
       DEF Effect, Detaches, LeavesMode, EndpointInv, ModeKnown, FlagTellsReboot, Reboots,
           AppStates
  <1>7. CASE EntersMode(r)
    BY <1>1, <1>2, <1>3, <1>7
       DEF Effect, EntersMode, EndpointInv, FlagTellsReboot, Reboots, AppStates
  <1> QED BY <1>1, <1>5, <1>6, <1>7 DEF Effect

LEMMA RunsStep ==
    ASSUME EndpointInv, RunsInCall
    PROVE  EndpointInv' /\ (ModeKnown => ModeKnown')
  <1> DEFINE r == [cmd |-> deferred, n |-> 0]
  <1>1. /\ deferred \notin Reboots \cup {"none"} /\ deferred' = "none"
        /\ dfu_request_with_arguments(r)
        /\ UNCHANGED <<flag, mode_active, bus>>
    BY DEF RunsInCall, RunDeferred
  <1>2. state \in dfu_state /\ state # "APP_DETACH"
    BY <1>1 DEF EndpointInv, Reboots
  <1>3. Effect(r)
    BY <1>1, <1>2, RequestEffect
  <1>4. r.cmd \notin {"BUS_RESET", "DETACH"}
    BY DEF EndpointInv, deferred_action
  <1>5. Keeps /\ state' \in dfu_state
    BY <1>3, <1>4 DEF Effect, Detaches, LeavesMode, EntersMode
  <1>6. bus \notin {"boot", "forcing"} /\ ~flag
    BY <1>1 DEF EndpointInv, Reboots
  <1> QED BY <1>1, <1>5, <1>6
          DEF Keeps, EndpointInv, ModeKnown, FlagTellsReboot, Reboots, deferred_action

LEMMA BootingStep ==
    ASSUME EndpointInv, Booting
    PROVE  EndpointInv' /\ ModeKnown'
  <1>1. CASE dfu_check_init_state
    BY <1>1 DEF dfu_check_init_state, EndpointInv, ModeKnown, FlagTellsReboot, vars, core,
                CInt, BusStates, AppStates, Reboots
  <1>2. CASE dfu_force_dfu_mode_active
    <2> DEFINE r == [cmd |-> "BUS_RESET", n |-> 1]
    <2>1. handle_dfu_request(r) /\ bus' = "off" /\ bus = "forcing"
          /\ UNCHANGED <<flag, mode_active>>
      BY <1>2 DEF dfu_force_dfu_mode_active
    <2>2. flag /\ mode_active = 1 /\ state = "APP_IDLE"
      BY <2>1 DEF EndpointInv
    <2>3. dfu_request_with_arguments(r) /\ deferred' = resp'.deferred
      BY <2>1 DEF handle_dfu_request, TooLong
    <2>4. state' = "DFU_IDLE" /\ deferred' = "none"
      BY <2>2, <2>3, ResetEffect DEF dfu_state, AppStates
    <2> QED BY <2>1, <2>2, <2>4
            DEF EndpointInv, ModeKnown, FlagTellsReboot, BusStates, AppStates, Reboots,
                dfu_state, deferred_action
  <1> QED BY <1>1, <1>2 DEF Booting

\* What a bus reset does goes by the flag alone.
LEMMA ResetCall ==
    ASSUME EndpointInv, dfu_process_reset_state
    PROVE  /\ deferred = "none" /\ deferred' \in deferred_action
           /\ flag => state' = "DFU_IDLE" /\ deferred' = "none" /\ bus # "configured"
           /\ ~flag => state' = "APP_IDLE" /\ deferred' # "REBOOT_TO_DFU"
  <1> DEFINE r == [cmd |-> "BUS_RESET", n |-> CInt(flag)]
  <1>1. handle_dfu_request(r) /\ bus \in {"off", "reset", "configured"}
    BY DEF dfu_process_reset_state
  <1>2. Effect(r) /\ deferred' = resp'.deferred /\ deferred = "none"
    BY <1>1, CallEffect
  <1>3. deferred' \in deferred_action /\ deferred' # "REBOOT_TO_DFU"
    BY <1>2 DEF Effect, Keeps, Detaches, LeavesMode, EntersMode, Reboots
  <1>4. dfu_request_with_arguments(r)
    BY <1>1 DEF handle_dfu_request, TooLong
  <1>5. CInt(flag) \in {0, 1} /\ (flag => CInt(flag) = 1) /\ (~flag => CInt(flag) = 0)
    BY DEF CInt
  <1>6. state \in dfu_state /\ state # "APP_DETACH"
    BY <1>2 DEF EndpointInv
  <1>7. flag => bus # "configured" /\ state = "DFU_IDLE"
    BY <1>1, <1>2 DEF EndpointInv
  <1>8. /\ CInt(flag) = 0 => state' = "APP_IDLE"
        /\ CInt(flag) = 1 /\ state \in {"APP_IDLE", "DFU_IDLE"}
             => state' = "DFU_IDLE" /\ resp'.deferred = "none"
    BY <1>4, <1>5, <1>6, ResetEffect
  <1> QED BY <1>2, <1>3, <1>5, <1>7, <1>8

LEMMA ResetStep ==
    ASSUME EndpointInv, dfu_process_reset_state
    PROVE  EndpointInv' /\ ModeKnown'
  <1>1. mode_active' = CInt(flag) /\ bus' = "reset" /\ flag' = flag
    BY DEF dfu_process_reset_state
  <1>2. flag \in BOOLEAN
    BY DEF EndpointInv
  <1>3. CASE flag
    BY <1>1, <1>2, <1>3, ResetCall
       DEF EndpointInv, ModeKnown, FlagTellsReboot, BusStates, CInt, AppStates, dfu_state
  <1>4. CASE ~flag
    BY <1>1, <1>2, <1>4, ResetCall
       DEF EndpointInv, ModeKnown, FlagTellsReboot, BusStates, CInt, AppStates, dfu_state
  <1> QED BY <1>3, <1>4

LEMMA ConfiguresStep ==
    ASSUME EndpointInv, dfu_usb_set_configured_state \/ dfu_usb_clear_configured_state
    PROVE  EndpointInv' /\ (ModeKnown => ModeKnown')
  <1>1. /\ UNCHANGED <<state, deferred, mode_active>> /\ deferred = "none"
        /\ bus' \in {"reset", "configured"} /\ bus \in {"reset", "configured"}
        /\ \/ flag' = FALSE
           \/ flag' = flag /\ bus = "configured" /\ bus' = "reset"
    BY DEF dfu_usb_set_configured_state, dfu_usb_clear_configured_state, vars, core
  <1>2. bus' \in BusStates /\ bus' \notin {"boot", "forcing"}
    BY <1>1 DEF BusStates
  <1>3. flag' = FALSE
    BY <1>1 DEF EndpointInv
  <1> QED BY <1>1, <1>2, <1>3 DEF EndpointInv, ModeKnown, FlagTellsReboot

LEMMA BootsAgain ==
    ASSUME EndpointInv, EndpointReboots \/ UsbPowerFails
    PROVE  EndpointInv' /\ ModeKnown'
  <1>1. state' = "APP_IDLE" /\ deferred' = "none" /\ mode_active' = 0 /\ bus' = "boot"
        /\ flag' \in {flag, FALSE}
    BY DEF EndpointReboots, UsbPowerFails, PowerCycle, dfu_reboot, Boot
  <1> QED BY <1>1 DEF EndpointInv, ModeKnown, FlagTellsReboot, BusStates, AppStates, dfu_state,
                      deferred_action

\* A step of endpoint 0 with any host, and with one that does not enter DFU mode
\* by a bus reset of its own.
LEMMA EndpointStep ==
    ASSUME EndpointInv, NEW Sent, [EndpointNext(Sent)]_usbVars
    PROVE  /\ EndpointInv'
           /\ ModeKnown /\ (\A r \in Sent : r.cmd = "BUS_RESET" => r.n = 0) => ModeKnown'
  <1>1. CASE \E r \in Sent : dfu_usb_class_int_requests(r)
    BY <1>1, HostCallStep DEF dfu_usb_class_int_requests, EntersMode
  <1>2. CASE \E i \in {0, usb_dfu_interface_num} : dfu_usb_vendor_requests(i)
    BY <1>2, HostCallStep DEF dfu_usb_vendor_requests, EntersMode
  <1>3. CASE RunsInCall
    BY <1>3, RunsStep
  <1>4. CASE Booting
    BY <1>4, BootingStep
  <1>5. CASE dfu_process_reset_state
    BY <1>5, ResetStep
  <1>6. CASE dfu_usb_set_configured_state \/ dfu_usb_clear_configured_state
    BY <1>6, ConfiguresStep
  <1>7. CASE EndpointReboots \/ UsbPowerFails
    BY <1>7, BootsAgain
  <1>8. CASE UNCHANGED usbVars
    BY <1>8 DEF usbVars, vars, core, EndpointInv, ModeKnown, FlagTellsReboot
  <1> QED BY <1>1, <1>2, <1>3, <1>4, <1>5, <1>6, <1>7, <1>8 DEF EndpointNext

\* Every step of endpoint 0 is one of the device, or none of it, with a host that
\* sends no raw number.
LEMMA UsbImplementsStep ==
    ASSUME TypeOK, [EndpointNext(UsbRequests \ RawActions)]_usbVars
    PROVE  [Next]_vars
  <1>0. \A c \in {"BUS_RESET", "REVERTFACTORY"} : \A n \in {0, 1} :
          (c = "REVERTFACTORY" => n = 0)
            => [cmd |-> c, n |-> n] \in UsbRequests \ RawActions
    BY DEF Requests, UsbRequests, RawActions, RawNumbers, deferred_action
  <1>1. CASE \E r \in UsbRequests \ RawActions : dfu_usb_class_int_requests(r)
    BY <1>1, CallImplements DEF dfu_usb_class_int_requests, DFUDeviceRequests, Next
  <1>2. CASE \E i \in {0, usb_dfu_interface_num} : dfu_usb_vendor_requests(i)
    BY <1>0, <1>2, CallImplements DEF dfu_usb_vendor_requests, DFUDeviceRequests, Next
  <1>3. CASE RunsInCall
    BY <1>3 DEF RunsInCall, Next
  <1>4. CASE dfu_check_init_state
    BY <1>4 DEF dfu_check_init_state
  <1>5. CASE dfu_force_dfu_mode_active
    BY <1>0, <1>5, CallImplements DEF dfu_force_dfu_mode_active, Next
  <1>6. CASE dfu_process_reset_state
    <2>1. CInt(flag) \in {0, 1}
      BY DEF CInt
    <2> QED BY <1>0, <1>6, <2>1, CallImplements DEF dfu_process_reset_state, Next
  <1>7. CASE dfu_usb_set_configured_state \/ dfu_usb_clear_configured_state
    BY <1>7 DEF dfu_usb_set_configured_state, dfu_usb_clear_configured_state
  <1>8. CASE EndpointReboots \/ UsbPowerFails
    BY <1>8 DEF EndpointReboots, UsbPowerFails, Next
  <1>9. CASE UNCHANGED usbVars
    BY <1>9 DEF usbVars
  <1> QED
    BY <1>1, <1>2, <1>3, <1>4, <1>5, <1>6, <1>7, <1>8, <1>9 DEF EndpointNext, Booting

-----------------------------------------------------------------------------
LEMMA UsbAtFirst ==
    ASSUME UsbInit
    PROVE  UsbInv
  BY DEF UsbInit, Init, UsbInv, EndpointInv, ModeKnown, FlagTellsReboot, BusStates, AppStates,
         dfu_state, deferred_action

\* What holds of endpoint 0 with any host, the bus reset with a value and the
\* numbers of the deferred actions among its requests: for all page, block and
\* image sizes, all flash failures and every order of requests, bus resets and
\* power failures.
THEOREM EndpointInductive == UsbSpec => []EndpointInv
  <1>1. UsbInit => EndpointInv
    BY UsbAtFirst DEF UsbInv
  <1>2. EndpointInv /\ [EndpointNext(UsbRequests)]_usbVars => EndpointInv'
    BY EndpointStep
  <1> QED BY <1>1, <1>2, PTL DEF UsbSpec

\* With a host that sends no bus reset with a value, the mode too.
THEOREM UsbInductive == NoEntrySpec => []UsbInv
  <1> DEFINE Sent == UsbRequests \ {EntryRequest}
  <1>1. UsbInit => UsbInv
    BY UsbAtFirst
  <1>2. \A r \in Sent : r.cmd = "BUS_RESET" => r.n = 0
    BY DEF UsbRequests, Requests, EntryRequest, RawNumbers, deferred_action, TooLong, LongRead
  <1>3. UsbInv /\ [EndpointNext(Sent)]_usbVars => UsbInv'
    BY <1>2, EndpointStep DEF UsbInv
  <1> QED BY <1>1, <1>3, PTL DEF NoEntrySpec

\* The flag is set when endpoint 0 waits to reboot into DFU mode and clear when it
\* waits to reboot out of it (dfu_usb_requests.xc:187-193), with any host.
THEOREM FlagAndReboot == UsbSpec => []FlagTellsReboot
  <1>1. EndpointInv => FlagTellsReboot
    BY DEF EndpointInv
  <1> QED BY <1>1, EndpointInductive, PTL

\* The mode endpoint 0 describes to the host is the one the state machine on the
\* other tile is in (dfu_usb_requests.xc:63-78, :117-139), as long as the host
\* sends no bus reset with a value; raw numbers do no harm.
THEOREM ModeAndState == NoEntrySpec => []ModeAgrees
  <1>1. UsbInv => ModeAgrees
    BY DEF UsbInv, ModeKnown, ModeAgrees
  <1> QED BY <1>1, UsbInductive, PTL

\* A bus reset of the configured device ends DFU mode, from every state of it,
\* with any host.
THEOREM ResetEndsDfu == UsbSpec => ResetLeavesDfu
  <1>1. EndpointInv /\ [EndpointNext(UsbRequests)]_usbVars =>
          [bus = "configured" /\ dfu_process_reset_state => state' \in AppStates]_usbVars
    BY ResetCall DEF AppStates
  <1> QED BY <1>1, EndpointInductive, PTL DEF UsbSpec, ResetLeavesDfu

\* Behind endpoint 0 the device does what DfuDevice describes, for a host that
\* sends no number of a deferred action: what is proved of it there holds on USB.
THEOREM UsbImplements == NoActionSpec => ImplementsDevice
  <1> DEFINE Sent == UsbRequests \ RawActions
  <1>1. UsbInit => Init
    BY DEF UsbInit
  <1>2. UsbInit => IInv
    BY <1>1, InvAtFirst
  <1>3. IInv /\ [EndpointNext(Sent)]_usbVars => [Next]_vars
    BY UsbImplementsStep DEF IInv, DeviceInv
  <1>4. IInv /\ [EndpointNext(Sent)]_usbVars => IInv'
    BY <1>3, InvStep
  <1> QED BY <1>1, <1>2, <1>3, <1>4, PTL DEF NoActionSpec, ImplementsDevice, Spec
=============================================================================
