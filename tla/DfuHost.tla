------------------------------ MODULE DfuHost ------------------------------
(***************************************************************************)
(* The I2C host tool, host/dfu_i2c, with the device behind its control     *)
(* server (DfuControl).  The tool is run again and again, one operation a  *)
(* run; a run may be killed at any point, the device may lose power, and a *)
(* command or its answer may be lost.                                      *)
(*                                                                         *)
(* A step of the tool is one command.  pc is the next one it will send.    *)
(* Sleeping takes milliseconds off sleep; what is longer than SleepCap is  *)
(* as good as that, which is longer than the timer of the server.          *)
(***************************************************************************)
EXTENDS DfuControl

CONSTANTS
    Images,        \* sizes of the images that may be downloaded
    sector_buffer, \* bytes the tool gathers before it writes them to the file
    Lossy          \* commands and answers may get lost, writes of the file fail

ASSUME HostAssumption ==
    /\ Images \subseteq 1 .. MaxImage
    /\ sector_buffer \in Nat
    /\ sector_buffer >= 2 * DFU_FLASH_PAGE_SIZE_BYTES
    /\ sector_buffer % DFU_FLASH_PAGE_SIZE_BYTES = 0
    /\ Lossy \in BOOLEAN

VARIABLES
    pc,
    op,          \* the operation of the run
    onfail,      \* where to go once check_state has cleared an error
    image, sent, \* download: bytes of the image, and bytes the device confirmed
    received,    \* upload: bytes that were read, ...
    buffered,    \* ... and of these, bytes not yet in the file
    sleep,
    result,      \* of the last run
    failures     \* failed runs since the last success or disturbance, capped

progress == <<sent, received, buffered>>
outcome  == <<result, failures>>
run      == <<op, image>>
hostVars == <<pc, onfail, sleep, progress, outcome, run>>
allVars  == <<controlVars, hostVars>>

Operations == {"WRITE_UPGRADE", "UPLOAD", "DETACH_AND_BUS_RESET", "REBOOT",
               "REVERT_FACTORY"}

Labels == {"idle", "check_app", "descriptor", "detach", "check_detach", "bus_reset",
           "abort", "check_dfu", "in_dfu", "read_error", "clear", "download",
           "poll_download", "check_block", "end", "poll_manifest", "check_end",
           "upload", "revert", "hal_reboot", "failed"}

SleepCap == 2
FailureCap == 2

Reports(r) ==
    /\ result' = r
    /\ failures' = IF r = "success" THEN 0 ELSE Least(failures + 1, FailureCap)

-----------------------------------------------------------------------------
(* hal.c and the checks of operations.c                                    *)

\* Command is sent by the tool at label from.  It is answered, and ok tells where
\* to go on; or it is lost, or its answer is, and the tool takes the path bad of
\* a command that failed.
Sends(from, Command, ok, bad) ==
    /\ pc = from /\ sleep = 0
    /\ \/ Command /\ pc' = ok
       \/ Lossy /\ pc' = bad /\ (Command \/ UNCHANGED controlVars)

Succeeded == resp'.status = "SUCCESS"

hal_write_command(from, cmd, n, ok, bad) ==
    Sends(from, write_command([cmd |-> cmd, n |-> n]), IF Succeeded THEN ok ELSE bad, bad)

hal_read_command(from, cmd, n, ok, bad) ==
    Sends(from, read_command([cmd |-> cmd, n |-> n]), IF Succeeded THEN ok ELSE bad, bad)

\* A command that is all its step does, and one whose answer is not awaited any
\* further: the tool sleeps RESET_TIMEOUT_MSEC.
AtOnce == sleep' = 0 /\ UNCHANGED <<onfail, progress, outcome, run>>

ThenWaits == sleep' = SleepCap /\ UNCHANGED <<onfail, progress, run>>

\* GETSTATE.  In dfuERROR the tool reads the status and clears it first.
Checked(expected, ok, bad) ==
    CASE state = "DFU_ERROR" -> "read_error"
      [] state = expected    -> ok
      [] OTHER               -> bad

check_state(from, expected, ok, bad) ==
    /\ Sends(from, read_command([cmd |-> "GETSTATE", n |-> 1]),
             Checked(expected, ok, bad), bad)
    /\ onfail' = bad
    /\ sleep' = 0
    /\ UNCHANGED run

ReadError ==
    /\ hal_read_command("read_error", "GETSTATUS", 1, "clear", "clear")
    /\ AtOnce

SendClear ==
    /\ hal_write_command("clear", "CLRSTATUS", 0, onfail, onfail)
    /\ AtOnce

\* Mutant: the poll timeout is not waited for.
check_status_at_once(from, busy, done) ==
    /\ Sends(from, read_command([cmd |-> "GETSTATUS", n |-> 1]),
             CASE status' # "OK" -> "clear"
               [] status' = "OK" /\ state' = busy -> from
               [] OTHER -> done,
             "failed")
    /\ onfail' = "failed"
    /\ sleep' = 0
    /\ UNCHANGED <<progress, outcome, run>>

\* GETSTATUS, repeated after the poll timeout while the device is busy.  A bad
\* status is cleared.
check_status(from, busy, done) ==
    /\ Sends(from, read_command([cmd |-> "GETSTATUS", n |-> 1]),
             CASE status' # "OK" -> "clear"
               [] status' = "OK" /\ state' = busy -> from
               [] OTHER -> done,
             "failed")
    /\ onfail' = "failed"
    /\ sleep' = IF pc' \in {from, done} THEN Least(resp'.poll, SleepCap) ELSE 0
    /\ UNCHANGED <<progress, outcome, run>>

-----------------------------------------------------------------------------
(* detach_and_bus_reset: into DFU mode, or back to dfuIDLE.                *)

CheckApp ==
    /\ check_state("check_app", "APP_IDLE", "descriptor", "abort")
    /\ UNCHANGED <<progress, outcome>>

FetchDescriptor ==
    /\ hal_read_command("descriptor", "GET_DESCRIPTOR", 1, "detach", "detach")
    /\ AtOnce

Detach ==
    /\ hal_write_command("detach", "DETACH", 0, "check_detach", "failed")
    /\ AtOnce

CheckDetach ==
    /\ check_state("check_detach", "APP_DETACH", "bus_reset", "failed")
    /\ UNCHANGED <<progress, outcome>>

BusReset ==
    /\ hal_write_command("bus_reset", "BUS_RESET", 0, "check_dfu", "failed")
    /\ ThenWaits /\ UNCHANGED outcome

\* Mutant: a device found in another state is left as it is.
NoAbort ==
    /\ pc = "abort" /\ sleep = 0
    /\ pc' = "check_dfu" /\ UNCHANGED controlVars
    /\ AtOnce

Abort ==
    /\ hal_write_command("abort", "ABORT", 0, "check_dfu", "failed")
    /\ AtOnce

CheckDfu ==
    /\ check_state("check_dfu", "DFU_IDLE", "in_dfu", "failed")
    /\ UNCHANGED <<progress, outcome>>

\* The descriptor again, then what the run is for.
Proceeds ==
    CASE op = "WRITE_UPGRADE"  -> "download"
      [] op = "UPLOAD"         -> "upload"
      [] op = "REVERT_FACTORY" -> "revert"
      [] OTHER                 -> "idle"

InDfu ==
    /\ hal_read_command("in_dfu", "GET_DESCRIPTOR", 1, Proceeds, Proceeds)
    /\ sleep' = 0
    /\ IF op = "DETACH_AND_BUS_RESET" THEN Reports("success") ELSE UNCHANGED outcome
    /\ UNCHANGED <<onfail, progress, run>>

-----------------------------------------------------------------------------
(* download_file                                                           *)

Block == Least(T, image - sent)

SendBlock ==
    /\ hal_write_command("download", "DNLOAD", Block, "poll_download", "failed")
    /\ AtOnce

PollDownload == check_status("poll_download", "DNLOAD_SYNC", "check_block")

CheckBlock ==
    /\ check_state("check_block", "DNLOAD_IDLE",
                   IF sent + Block < image THEN "download" ELSE "end", "failed")
    /\ sent' = IF pc' \in {"download", "end"} THEN sent + Block ELSE sent
    /\ UNCHANGED <<received, buffered, outcome>>

SendEnd ==
    /\ hal_write_command("end", "DNLOAD", 0, "poll_manifest", "failed")
    /\ AtOnce

PollManifest == check_status("poll_manifest", "MANIFEST_SYNC", "check_end")

\* "write upgrade successful"
CheckEnd ==
    /\ check_state("check_end", "DFU_IDLE", "hal_reboot", "failed")
    /\ IF pc' = "hal_reboot" THEN Reports("success") ELSE UNCHANGED outcome
    /\ UNCHANGED progress

-----------------------------------------------------------------------------
(* upload_file                                                             *)

Returned == IF state = "DFU_IDLE" THEN delivered' ELSE delivered' - delivered

SectorFull(bytes) == bytes >= sector_buffer

\* A full block is kept until the buffer is full; writing the file may fail.
KeepsBlock ==
    /\ received' = received + T
    /\ buffered' = IF SectorFull(buffered + T) THEN 0 ELSE buffered + T
    /\ \/ pc' = "upload"
       \/ Lossy /\ SectorFull(buffered + T) /\ pc' = "failed"
    /\ UNCHANGED outcome

\* "upload read successful"
EndsFile ==
    /\ received' = received + Returned
    /\ buffered' = 0
    /\ \/ pc' = "idle" /\ Reports("success")
       \/ Lossy /\ pc' = "failed" /\ UNCHANGED outcome

UploadFails == pc' = "failed" /\ UNCHANGED <<received, buffered, outcome>>

\* Mutant: an answer that was lost is taken for the end of the file.
upload_file_lost_is_short ==
    /\ pc = "upload" /\ sleep = 0
    /\ \/ /\ read_command([cmd |-> "UPLOAD", n |-> T])
          /\ CASE ~Succeeded                 -> UploadFails
               [] Succeeded /\ Returned = T  -> KeepsBlock
               [] OTHER                      -> EndsFile
       \/ /\ Lossy
          /\ read_command([cmd |-> "UPLOAD", n |-> T])
          /\ pc' = "idle" /\ Reports("success")
          /\ UNCHANGED <<received, buffered>>
    /\ sleep' = 0
    /\ UNCHANGED <<onfail, sent, run>>

upload_file ==
    /\ pc = "upload" /\ sleep = 0
    /\ \/ /\ read_command([cmd |-> "UPLOAD", n |-> T])
          /\ CASE ~Succeeded                 -> UploadFails
               [] Succeeded /\ Returned = T  -> KeepsBlock
               [] OTHER                      -> EndsFile
       \/ /\ Lossy
          /\ read_command([cmd |-> "UPLOAD", n |-> T]) \/ UNCHANGED controlVars
          /\ UploadFails
    /\ sleep' = 0
    /\ UNCHANGED <<onfail, sent, run>>

-----------------------------------------------------------------------------
(* main.c                                                                  *)

\* Mutant: the deferred task gets no time to revert.
RevertAtOnce ==
    /\ hal_write_command("revert", "REVERTFACTORY", 0, "hal_reboot", "hal_reboot")
    /\ Reports(IF Succeeded THEN "success" ELSE "failure")
    /\ sleep' = 0 /\ UNCHANGED <<onfail, progress, run>>

hal_revert_factory ==
    /\ hal_write_command("revert", "REVERTFACTORY", 0, "hal_reboot", "hal_reboot")
    /\ Reports(IF Succeeded THEN "success" ELSE "failure")
    /\ ThenWaits

hal_reboot ==
    /\ hal_write_command("hal_reboot", "BUS_RESET", 0, "idle", "idle")
    /\ IF op = "REBOOT" THEN Reports("success") ELSE UNCHANGED outcome
    /\ ThenWaits

Fails ==
    /\ pc = "failed"
    /\ pc' = "idle" /\ Reports("failure")
    /\ UNCHANGED <<controlVars, onfail, sleep, progress, run>>

\* A new run of the tool.
Start ==
    /\ pc = "idle" /\ sleep = 0
    /\ op' \in Operations
    /\ image' \in IF op' = "WRITE_UPGRADE" THEN Images ELSE {0}
    /\ pc' = IF op' = "REBOOT" THEN "hal_reboot" ELSE "check_app"
    /\ sent' = 0 /\ received' = 0 /\ buffered' = 0
    /\ onfail' = "failed" /\ result' = "none"
    /\ UNCHANGED <<controlVars, sleep, failures>>

HostStep ==
    \/ CheckApp \/ FetchDescriptor \/ Detach \/ CheckDetach \/ BusReset \/ Abort
    \/ CheckDfu \/ InDfu \/ ReadError \/ SendClear
    \/ SendBlock \/ PollDownload \/ CheckBlock
    \/ SendEnd \/ PollManifest \/ CheckEnd
    \/ upload_file \/ hal_revert_factory \/ hal_reboot \/ Fails

ServerStep == TimerExpires /\ UNCHANGED hostVars

\* A millisecond goes by for the server and for a tool that sleeps.
HostTick ==
    /\ ~TimerIsDue
    /\ elapsed = 0 \/ sleep > 0
    /\ elapsed' = 1
    /\ sleep' = IF sleep > 0 THEN sleep - 1 ELSE 0
    /\ UNCHANGED <<vars, pc, onfail, progress, outcome, run>>

Kill ==
    /\ pc # "idle"
    /\ pc' = "idle" /\ sleep' = 0 /\ result' = "none" /\ failures' = 0
    /\ UNCHANGED <<controlVars, onfail, progress, run>>

DevicePowerFails ==
    /\ PowerFails
    /\ failures' = 0
    /\ UNCHANGED <<pc, onfail, sleep, progress, result, run>>

-----------------------------------------------------------------------------
HostInit ==
    /\ ControlInit
    /\ pc = "idle" /\ onfail = "failed" /\ sleep = 0
    /\ sent = 0 /\ received = 0 /\ buffered = 0
    /\ result = "none" /\ failures = 0
    /\ op = "REBOOT" /\ image = 0

\* Runs that nothing but the flash and the transport disturbs, and runs that are
\* killed, on a device that may lose power.
HostNext == Start \/ HostStep \/ ServerStep \/ HostTick

DisturbedNext == HostNext \/ Kill \/ DevicePowerFails

\* The tool, once started, goes on to its next command; the server gets to its
\* timer; time passes.
Fairness ==
    WF_allVars(HostStep) /\ WF_allVars(ServerStep) /\ WF_allVars(HostTick)

HostSpec == HostInit /\ [][HostNext]_allVars /\ Fairness

DisturbedSpec == HostInit /\ [][DisturbedNext]_allVars /\ Fairness

-----------------------------------------------------------------------------
(* Properties.                                                             *)

\* The tool never sends more than the image, and the sector buffer takes the next
\* block when it is asked for: the device refuses the block sizes that do not
\* divide a page before they could overrun it (operations.c:283-300).
HostTypeOK ==
    /\ pc \in Labels /\ onfail \in {"failed", "abort"}
    /\ op \in Operations
    /\ image \in 0 .. MaxImage /\ sent \in 0 .. image
    /\ received \in 0 .. MaxImage
    /\ buffered \in 0 .. sector_buffer
    /\ pc = "upload" => buffered + T <= sector_buffer
    /\ sleep \in 0 .. SleepCap
    /\ result \in {"none", "success", "failure"}
    /\ failures \in 0 .. FailureCap

\* An undisturbed tool follows the protocol: it sends what the state of the device
\* provides for, and while the server still holds an action, which a read would
\* drop and a write might replace, no more than the poll that asked for it.
FollowsProtocol == PoliteSpec

\* A download is reported successful only when the slot holds that image, whole.
SuccessMeansStored ==
    [][result' = "success" /\ pc = "check_end"
         => flash.slot = "whole" /\ flash.size = image]_allVars

\* A file reported complete has every byte of the image the device has.
FileIsComplete ==
    [][result' = "success" /\ pc = "upload"
         => received' = IF flash'.upgrade_image_valid = 1 THEN flash'.size ELSE 0]_allVars

\* After a kill or a power failure, whatever it interrupted, the second run of
\* the tool at the latest does its work.
RecoversInTwo == failures < FailureCap

\* Every run of the tool ends: neither of its two polling loops goes on for ever.
RunEnds == (pc # "idle") ~> (pc = "idle")

-----------------------------------------------------------------------------
(* What the documentation says that the code does not do.                  *)

\* doc/rst/lib_dfu.rst:366, tests/rpi/test_rpi.py:54-60: a revert reported
\* successful has erased the upgrade image.
RevertIsDone ==
    op = "REVERT_FACTORY" /\ result = "success" /\ pc = "idle" => flash.slot # "whole"
=============================================================================
