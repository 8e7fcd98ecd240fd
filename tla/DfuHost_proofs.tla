--------------------------- MODULE DfuHost_proofs ---------------------------
(***************************************************************************)
(* What the I2C host tool may rely on.  It uses the control server as it   *)
(* is (ToolUsesServer), never overruns its buffers and never reports a     *)
(* part of a file (HostTypes, FileComplete), whatever gets lost, killed or *)
(* cut off.  Undisturbed it follows the protocol (ToolFollows), and what   *)
(* it then reports written is stored (SuccessIsStored); disturbed, too,    *)
(* but for an image of whole pages (KilledAndStored).  After a kill or a   *)
(* power failure the second run works if the flash does (SecondRunWorks).  *)
(***************************************************************************)
EXTENDS DfuHost, DfuControl_proofs, DfuPolite_proofs

-----------------------------------------------------------------------------
(* The tool uses the server.                                               *)

\* It has never confirmed more than the image.
SentInv == image \in 0 .. MaxImage /\ sent \in 0 .. image

LEMMA BlockFits ==
    ASSUME SentInv
    PROVE  Block \in 0 .. T /\ sent + Block \in 0 .. image
  BY DeviceAssumption, FlashAssumption
     DEF DeviceAssumption, FlashAssumption, SentInv, Block, Least, T

LEMMA Numbers ==
    /\ T \in Nat \ {0} /\ P \in Nat \ {0} /\ T <= P
    /\ MaxImage \in Nat \ {0}
    /\ sector_buffer \in Nat /\ sector_buffer >= 2 * P /\ sector_buffer % P = 0
  BY DeviceNumbers, HostAssumption DEF HostAssumption, P, T

Commands ==
    \/ \E r \in Writes : write_command(r)
    \/ \E r \in Reads : read_command(r)

LEMMA CommandIsOne ==
    ASSUME NEW n \in 0 .. T, NEW c,
           \/ /\ c = "DNLOAD" \/ (c \in {"DETACH", "CLRSTATUS", "ABORT", "REVERTFACTORY",
                                         "BUS_RESET"} /\ n = 0)
              /\ write_command([cmd |-> c, n |-> n])
           \/ /\ c = "UPLOAD" \/ (c \in {"GETSTATUS", "GETSTATE", "GET_DESCRIPTOR"} /\ n = 1)
              /\ read_command([cmd |-> c, n |-> n])
    PROVE  Commands
  BY DEF Commands, Writes, Reads, ReadCommands, Requests

\* A step of the tool is one command, or none that reaches the device.
LEMMA HostCommands ==
    ASSUME SentInv, HostStep
    PROVE  Commands \/ UNCHANGED controlVars
  <1>0. 0 \in 0 .. T /\ 1 \in 0 .. T /\ T \in 0 .. T
    BY Numbers
  <1>1. CASE CheckApp \/ CheckDetach \/ CheckDfu \/ CheckBlock \/ CheckEnd
    BY <1>0, <1>1, CommandIsOne
       DEF CheckApp, CheckDetach, CheckDfu, CheckBlock, CheckEnd, check_state, Sends
  <1>2. CASE FetchDescriptor \/ InDfu \/ ReadError
    BY <1>0, <1>2, CommandIsOne
       DEF FetchDescriptor, InDfu, ReadError, hal_read_command, Sends
  <1>3. CASE PollDownload \/ PollManifest
    BY <1>0, <1>3, CommandIsOne DEF PollDownload, PollManifest, check_status, Sends
  <1>4. CASE Detach \/ BusReset \/ Abort \/ SendClear \/ SendEnd \/ hal_revert_factory
             \/ hal_reboot
    BY <1>0, <1>4, CommandIsOne
       DEF Detach, BusReset, Abort, SendClear, SendEnd, hal_revert_factory, hal_reboot,
           hal_write_command, Sends
  <1>5. CASE SendBlock
    BY <1>5, BlockFits, CommandIsOne DEF SendBlock, hal_write_command, Sends
  <1>6. CASE upload_file
    BY <1>0, <1>6, CommandIsOne DEF upload_file
  <1>7. CASE Fails
    BY <1>7 DEF Fails
  <1> QED BY <1>1, <1>2, <1>3, <1>4, <1>5, <1>6, <1>7 DEF HostStep

LEMMA TimePasses ==
    ASSUME ControlTypeOK, HostTick
    PROVE  Tick \/ UNCHANGED controlVars
  BY DEF HostTick, Tick, ControlTypeOK, controlVars

LEMMA DisturbedCommands ==
    ASSUME SentInv, ControlTypeOK, [DisturbedNext]_allVars
    PROVE  [ControlNext]_controlVars
  <1>1. CASE HostStep
    BY <1>1, HostCommands DEF Commands, ControlNext
  <1>2. CASE Start \/ Kill
    BY <1>2 DEF Start, Kill
  <1>3. CASE ServerStep \/ DevicePowerFails
    BY <1>3 DEF ServerStep, DevicePowerFails, ControlNext
  <1>4. CASE HostTick
    BY <1>4, TimePasses DEF ControlNext
  <1>5. CASE UNCHANGED allVars
    BY <1>5 DEF allVars
  <1> QED BY <1>1, <1>2, <1>3, <1>4, <1>5 DEF DisturbedNext, HostNext

\* The image is chosen when a run starts, and blocks are counted as they are confirmed.
LEMMA SentStep ==
    ASSUME SentInv, [DisturbedNext]_allVars
    PROVE  SentInv'
  <1>1. CASE CheckBlock
    <2>1. image' = image /\ sent' \in {sent, sent + Block}
      BY <1>1 DEF CheckBlock, check_state, run
    <2> QED BY <2>1, BlockFits DEF SentInv
  <1>2. CASE Start
    <2>1. image' \in Images \cup {0} /\ sent' = 0
      BY <1>2 DEF Start
    <2> QED BY <2>1, HostAssumption, FlashAssumption
            DEF SentInv, HostAssumption, FlashAssumption
  <1>3. CASE UNCHANGED <<image, sent>>
    BY <1>3 DEF SentInv
  <1>4. CASE CheckApp \/ CheckDetach \/ CheckDfu \/ CheckEnd
    BY <1>3, <1>4 DEF CheckApp, CheckDetach, CheckDfu, CheckEnd, check_state, run, progress
  <1>5. CASE FetchDescriptor \/ Detach \/ Abort \/ ReadError \/ SendClear \/ SendBlock \/ SendEnd
    BY <1>3, <1>5
       DEF FetchDescriptor, Detach, Abort, ReadError, SendClear, SendBlock, SendEnd, AtOnce,
           run, progress
  <1>6. CASE PollDownload \/ PollManifest
    BY <1>3, <1>6 DEF PollDownload, PollManifest, check_status, run, progress
  <1>7. CASE BusReset \/ InDfu \/ upload_file \/ hal_revert_factory \/ hal_reboot \/ Fails
    BY <1>3, <1>7
       DEF BusReset, InDfu, upload_file, hal_revert_factory, hal_reboot, Fails, ThenWaits,
           run, progress
  <1>8. CASE ServerStep \/ HostTick \/ Kill \/ DevicePowerFails \/ UNCHANGED allVars
    BY <1>3, <1>8
       DEF ServerStep, HostTick, Kill, DevicePowerFails, allVars, hostVars, run, progress
  <1> QED
    BY <1>1, <1>2, <1>4, <1>5, <1>6, <1>7, <1>8 DEF DisturbedNext, HostNext, HostStep

LEMMA HostInitial == HostInit => SentInv /\ ControlInit
  BY FlashAssumption DEF FlashAssumption, HostInit, SentInv

LEMMA SentAlways == DisturbedSpec => [](SentInv /\ ControlTypeOK)
  <1>1. HostInit => SentInv /\ ControlTypeOK
    BY HostInitial, ControlInitial
  <1>2. SentInv /\ ControlTypeOK /\ [DisturbedNext]_allVars => (SentInv /\ ControlTypeOK)'
    BY SentStep, DisturbedCommands, ControlStep
  <1> QED BY <1>1, <1>2, PTL DEF DisturbedSpec

\* Whatever is lost, killed or cut off, the tool does to the server what a host
\* may do, so that what is proved of the server and of the device holds behind it.
THEOREM ToolUsesServer == DisturbedSpec => ControlSpec
  <1>1. SentInv /\ ControlTypeOK /\ [DisturbedNext]_allVars => [ControlNext]_controlVars
    BY DisturbedCommands
  <1> QED BY <1>1, HostInitial, SentAlways, PTL DEF DisturbedSpec, ControlSpec

\* So the device behind the tool is the device of DfuDevice under one of its hosts.
THEOREM HostDevice == DisturbedSpec => ImplementsDevice
  BY ToolUsesServer, ControlImplements, PTL

-----------------------------------------------------------------------------
(* The buffers of the tool.                                                *)

LEMMA SectorsOfPages == Multiple(sector_buffer, P)
  <1>1. sector_buffer = (sector_buffer \div P) * P /\ sector_buffer \div P \in Nat
    BY Numbers
  <1> QED BY <1>1 DEF Multiple

\* What is in the sector buffer and what the device has of its last page are
\* whole pages.  A second page is read only where blocks divide a page.
PagesFit(b, f) ==
    /\ b < sector_buffer
    /\ b + f <= sector_buffer /\ Multiple(b + f, P)
    /\ \/ b + f = P /\ Multiple(b, T)
       \/ Multiple(P, T) /\ Multiple(f, T)

LEMMA BlockFitsSector ==
    ASSUME NEW b \in Nat, NEW f \in Nat, PagesFit(b, f)
    PROVE  b + T <= sector_buffer
  <1>1. CASE f = 0
    <2>1. b + P <= sector_buffer
      BY <1>1, Numbers, SectorsOfPages, MultipleBelow DEF PagesFit
    <2> QED BY <2>1, Numbers
  <1>2. CASE f > 0 /\ b + f = P
    BY <1>2, Numbers
  <1>3. CASE f > 0 /\ Multiple(f, T)
    <2>1. f >= T
      BY <1>3, Numbers, MultipleBefore
    <2> QED BY <2>1, Numbers DEF PagesFit
  <1> QED BY <1>1, <1>2, <1>3 DEF PagesFit

LEMMA PagesFitNext ==
    ASSUME NEW b \in Nat, NEW f \in Nat, NEW c, NEW g, PagesFit(b, f),
           \/ f > 0 /\ T <= f /\ g = f - T
           \/ f = 0 /\ g = P - T,
           c = IF SectorFull(b + T) THEN 0 ELSE b + T
    PROVE  PagesFit(c, g)
  <1>1. CASE f > 0
    <2>1. g = f - T /\ T <= f
      BY <1>1
    <2>2. CASE b + f = P
      <3>1. ~SectorFull(b + T)
        BY <2>1, <2>2, Numbers DEF SectorFull
      <3>2. c = b + T /\ c < sector_buffer
        BY <2>1, <2>2, <3>1, Numbers DEF SectorFull
      <3>3. Multiple(c, T) \/ (Multiple(g, T) /\ Multiple(P, T))
        <4>1. CASE Multiple(b, T)
          <5>1. T \in Nat
            BY Numbers
          <5>2. Multiple(b + T, T)
            BY <4>1, <5>1, MultipleNext
          <5> QED BY <3>2, <5>2
        <4>2. CASE Multiple(P, T) /\ Multiple(f, T)
          BY <1>1, <2>1, <4>2, Numbers, MultipleBefore
        <4> QED BY <4>1, <4>2 DEF PagesFit
      <3>4. c + g = b + f
        BY <2>1, <3>2, Numbers
      <3> QED BY <2>2, <3>2, <3>3, <3>4 DEF PagesFit
    <2>3. CASE b + f # P
      <3>1. Multiple(P, T) /\ Multiple(g, T)
        BY <1>1, <2>1, <2>3, Numbers, MultipleBefore DEF PagesFit
      <3>2. CASE SectorFull(b + T)
        <4>1. c = 0 /\ g = 0
          BY <2>1, <3>2, Numbers DEF SectorFull, PagesFit
        <4> QED BY <3>1, <4>1, Numbers, SmallMultiples DEF PagesFit
      <3>3. CASE ~SectorFull(b + T)
        <4>1. c = b + T /\ c + g = b + f
              /\ c < sector_buffer
          BY <2>1, <3>3, Numbers DEF SectorFull
        <4> QED BY <3>1, <4>1 DEF PagesFit
      <3> QED BY <3>2, <3>3
    <2> QED BY <2>2, <2>3
  <1>2. CASE f = 0
    <2>1. g = P - T /\ b + f = b
      BY <1>2
    <2>2. b + P <= sector_buffer /\ Multiple(b, P)
      BY <2>1, Numbers, SectorsOfPages, MultipleBelow DEF PagesFit
    <2>3. Multiple(P, T)
      BY <2>1 DEF PagesFit
    <2>4. CASE SectorFull(b + T)
      <3>1. c = 0 /\ g = 0
        BY <2>1, <2>2, <2>4, Numbers DEF SectorFull
      <3> QED BY <2>3, <3>1, Numbers, SmallMultiples DEF PagesFit
    <2>5. CASE ~SectorFull(b + T)
      <3>1. c = b + T /\ c + g = b + P
            /\ c < sector_buffer
        BY <2>1, <2>5, Numbers DEF SectorFull
      <3>2. Multiple(b + P, P)
        BY <2>2, Numbers, MultipleNext
      <3>3. Multiple(g, T)
        BY <2>1, <2>3, Numbers, MultipleBefore
      <3> QED BY <2>2, <2>3, <3>1, <3>2, <3>3 DEF PagesFit
    <2> QED BY <2>4, <2>5
  <1> QED BY <1>1, <1>2

-----------------------------------------------------------------------------
(* The tool keeps its types and its files, whatever happens.               *)

FileEmpty == pc \notin {"idle", "failed", "upload"} => received = 0 /\ buffered = 0

Entered == pc = "in_dfu" => deferred = "none" /\ state \in {"APP_IDLE", "DFU_IDLE"}

Uploading ==
    pc = "upload" =>
        /\ deferred = "none"
        /\ \/ state = "APP_IDLE"
           \/ state = "DFU_IDLE" /\ received = 0 /\ buffered = 0
           \/ state = "UPLOAD_IDLE" /\ received = delivered /\ PagesFit(buffered, fifo)

Unreported == pc \notin {"idle", "hal_reboot"} => result # "success"

ToolInv == HostTypeOK /\ FileEmpty /\ Entered /\ Uploading /\ Unreported

\* A step that leaves the file alone and does not get to an upload.
LEMMA ElsewhereStep ==
    ASSUME ToolInv, SentInv', pc' \in Labels \ {"in_dfu", "upload"},
           onfail' \in {"failed", "abort"}, op' \in Operations, sleep' \in 0 .. SleepCap,
           failures' \in 0 .. FailureCap, result' \in {"none", "success", "failure"},
           pc' \in {"idle", "hal_reboot"} \/ result' # "success",
           UNCHANGED <<received, buffered>>,
           pc \notin {"idle", "failed", "upload"} \/ pc' \in {"idle", "failed"}
    PROVE  ToolInv'
  BY DEF ToolInv, HostTypeOK, FileEmpty, Entered, Uploading, Unreported, SentInv

LEMMA ReportType ==
    ASSUME HostTypeOK, NEW r \in {"success", "failure"}, Reports(r)
    PROVE  /\ failures' \in 0 .. FailureCap /\ result' = r
  BY DEF HostTypeOK, Reports, Least, FailureCap

\* Where a command leads.
LEMMA CheckLeads ==
    ASSUME NEW from, NEW expected, NEW ok, NEW bad, check_state(from, expected, ok, bad)
    PROVE  /\ pc = from /\ pc' \in {ok, bad, "read_error"} /\ onfail' = bad
           /\ sleep' = 0 /\ UNCHANGED run
  BY DEF check_state, Sends, Checked

LEMMA WriteLeads ==
    ASSUME NEW from, NEW cmd, NEW k, NEW ok, NEW bad,
           hal_write_command(from, cmd, k, ok, bad)
    PROVE  pc = from /\ pc' \in {ok, bad}
  BY DEF hal_write_command, Sends

LEMMA ReadLeads ==
    ASSUME NEW from, NEW cmd, NEW k, NEW ok, NEW bad,
           hal_read_command(from, cmd, k, ok, bad)
    PROVE  pc = from /\ pc' \in {ok, bad}
  BY DEF hal_read_command, Sends

LEMMA StatusLeads ==
    ASSUME TypeOK', NEW from, NEW busy, NEW done, check_status(from, busy, done)
    PROVE  /\ pc = from /\ pc' \in {"clear", from, done, "failed"}
           /\ sleep' \in 0 .. SleepCap
           /\ onfail' = "failed" /\ UNCHANGED <<progress, outcome, run>>
  <1>1. resp'.poll \in PollTimeouts
    BY DEF TypeOK, dfu_cmd_response
  <1>2. Least(resp'.poll, SleepCap) \in 0 .. SleepCap
    BY <1>1 DEF PollTimeouts, Least, SleepCap
  <1> QED BY <1>2 DEF check_status, Sends, SleepCap

LEMMA ChecksKeepTool ==
    ASSUME ToolInv, SentInv',
           CheckApp \/ CheckDetach \/ CheckBlock \/ CheckEnd
    PROVE  ToolInv'
  <1>1. HostTypeOK
    BY DEF ToolInv
  <1>2. CASE CheckApp \/ CheckDetach
    <2>1. /\ pc \in {"check_app", "check_detach"}
          /\ pc' \in {"descriptor", "abort", "bus_reset", "failed", "read_error"}
          /\ onfail' \in {"failed", "abort"} /\ sleep' = 0
          /\ UNCHANGED <<run, progress, outcome>>
      BY <1>2, CheckLeads DEF CheckApp, CheckDetach
    <2> QED BY <1>1, <2>1, ElsewhereStep
            DEF Labels, HostTypeOK, run, progress, outcome, SleepCap, ToolInv, Unreported
  <1>3. CASE CheckBlock
    <2>1. /\ pc = "check_block"
          /\ pc' \in {"download", "end", "failed", "read_error"}
          /\ onfail' = "failed" /\ sleep' = 0
          /\ UNCHANGED <<run, received, buffered, outcome>>
      BY <1>3, CheckLeads DEF CheckBlock
    <2> QED BY <1>1, <2>1, ElsewhereStep
            DEF Labels, HostTypeOK, run, outcome, SleepCap, ToolInv, Unreported
  <1>4. CASE CheckEnd
    <2>1. /\ pc = "check_end"
          /\ pc' \in {"hal_reboot", "failed", "read_error"}
          /\ onfail' = "failed" /\ sleep' = 0
          /\ UNCHANGED <<run, progress>>
          /\ IF pc' = "hal_reboot" THEN Reports("success") ELSE UNCHANGED outcome
      BY <1>4, CheckLeads DEF CheckEnd
    <2> QED BY <1>1, <2>1, ElsewhereStep, ReportType
            DEF Labels, HostTypeOK, run, progress, outcome, SleepCap, ToolInv, Unreported
  <1> QED BY <1>2, <1>3, <1>4

LEMMA CommandsKeepTool ==
    ASSUME ToolInv, SentInv',
           FetchDescriptor \/ Detach \/ BusReset \/ Abort \/ ReadError \/ SendClear
           \/ SendBlock \/ SendEnd
    PROVE  ToolInv'
  <1>1. /\ pc \in {"descriptor", "detach", "bus_reset", "abort", "read_error", "clear",
                   "download", "end"}
        /\ pc' \in {"detach", "check_detach", "check_dfu", "failed", "clear", onfail,
                    "poll_download", "poll_manifest"}
    BY WriteLeads, ReadLeads
       DEF FetchDescriptor, Detach, BusReset, Abort, ReadError, SendClear, SendBlock, SendEnd
  <1>2. sleep' \in {0, SleepCap} /\ UNCHANGED <<onfail, progress, outcome, run>>
    BY DEF FetchDescriptor, Detach, BusReset, Abort, ReadError, SendClear, SendBlock, SendEnd,
           AtOnce, ThenWaits
  <1>3. onfail' \in {"failed", "abort"} /\ onfail \in {"failed", "abort"}
    BY <1>2 DEF ToolInv, HostTypeOK
  <1> QED BY <1>1, <1>2, <1>3, ElsewhereStep
          DEF Labels, HostTypeOK, run, progress, outcome, SleepCap, ToolInv, Unreported

LEMMA PollsKeepTool ==
    ASSUME ToolInv, SentInv', TypeOK', PollDownload \/ PollManifest
    PROVE  ToolInv'
  <1>1. /\ pc \in {"poll_download", "poll_manifest"}
        /\ pc' \in {"clear", "poll_download", "check_block", "poll_manifest", "check_end",
                    "failed"}
        /\ sleep' \in 0 .. SleepCap
        /\ onfail' = "failed" /\ UNCHANGED <<progress, outcome, run>>
    BY StatusLeads DEF PollDownload, PollManifest
  <1> QED BY <1>1, ElsewhereStep
          DEF Labels, HostTypeOK, run, progress, outcome, SleepCap, ToolInv, Unreported

LEMMA EndsKeepTool ==
    ASSUME ToolInv, SentInv', hal_revert_factory \/ hal_reboot \/ Fails \/ Start \/ Kill
    PROVE  ToolInv'
  <1>1. HostTypeOK
    BY DEF ToolInv
  <1>2. CASE hal_revert_factory
    <2>1. pc = "revert" /\ pc' = "hal_reboot"
      BY <1>2, WriteLeads DEF hal_revert_factory
    <2> QED BY <1>1, <1>2, <2>1, ElsewhereStep, ReportType
            DEF hal_revert_factory, ThenWaits, Labels, HostTypeOK, run, progress, SleepCap
  <1>3. CASE hal_reboot
    <2>1. pc = "hal_reboot" /\ pc' = "idle"
      BY <1>3, WriteLeads DEF hal_reboot
    <2> QED BY <1>1, <1>3, <2>1, ElsewhereStep, ReportType
            DEF hal_reboot, ThenWaits, Labels, HostTypeOK, run, progress, outcome, SleepCap
  <1>4. CASE Fails
    BY <1>1, <1>4, ElsewhereStep, ReportType
       DEF Fails, Labels, HostTypeOK, run, progress
  <1>5. CASE Kill
    BY <1>1, <1>5, ElsewhereStep
       DEF Kill, Labels, HostTypeOK, run, progress, SleepCap, FailureCap
  <1>6. CASE Start
    <2>1. /\ pc' \in {"hal_reboot", "check_app"} /\ op' \in Operations
          /\ received' = 0 /\ buffered' = 0
          /\ onfail' = "failed" /\ result' = "none"
          /\ UNCHANGED <<sleep, failures>>
      BY <1>6 DEF Start
    <2>2. 0 \in 0 .. MaxImage /\ 0 \in 0 .. sector_buffer
      BY Numbers
    <2>3. HostTypeOK'
      BY <1>1, <2>1, <2>2 DEF HostTypeOK, SentInv, Labels
    <2> QED BY <2>1, <2>3 DEF ToolInv, FileEmpty, Entered, Uploading, Unreported
  <1> QED BY <1>2, <1>3, <1>4, <1>5, <1>6

\* A report leaves the server with nothing to do.
LEMMA ReportDrops ==
    ASSUME NEW c \in {"GETSTATE", "GET_DESCRIPTOR"}, read_command([cmd |-> c, n |-> 1])
    PROVE  /\ deferred' = "none" /\ Succeeded
           /\ UNCHANGED <<state, status, fifo, read_length, flash_finalised, sub_state,
                          poll_timeout, flash, accepted, programmed, delivered>>
           /\ resp' = NoResponse
  <1>1. Request(c, 1)
    BY DEF read_command, Request
  <1>2. resp' = NoResponse
    BY <1>1, Reported
  <1> QED BY <1>1, <1>2, Reported DEF read_command, Succeeded, NoResponse

LEMMA CheckDfuKeepsTool ==
    ASSUME ToolInv, SentInv', CheckDfu
    PROVE  ToolInv'
  <1>1. /\ pc = "check_dfu" /\ pc' \in {"in_dfu", "failed", "read_error"}
        /\ onfail' = "failed" /\ sleep' = 0
        /\ UNCHANGED <<run, progress, outcome>>
    BY CheckLeads DEF CheckDfu
  <1>2. CASE pc' # "in_dfu"
    BY <1>1, <1>2, ElsewhereStep
       DEF Labels, HostTypeOK, run, progress, outcome, SleepCap, ToolInv, Unreported
  <1>3. CASE pc' = "in_dfu"
    <2>1. /\ read_command([cmd |-> "GETSTATE", n |-> 1])
          /\ state = "DFU_IDLE"
      BY <1>1, <1>3 DEF CheckDfu, check_state, Sends, Checked
    <2>2. deferred' = "none" /\ state' = "DFU_IDLE"
      BY <2>1, ReportDrops
    <2> QED BY <1>1, <1>3, <2>2
            DEF ToolInv, HostTypeOK, FileEmpty, Entered, Uploading, Unreported, SentInv,
                Labels, run, progress, outcome, SleepCap
  <1> QED BY <1>2, <1>3

LEMMA InDfuKeepsTool ==
    ASSUME ToolInv, SentInv', InDfu
    PROVE  ToolInv'
  <1>1. /\ pc = "in_dfu" /\ pc' = Proceeds /\ sleep' = 0
        /\ UNCHANGED <<onfail, run, progress>>
        /\ IF op = "DETACH_AND_BUS_RESET" THEN Reports("success") ELSE UNCHANGED outcome
    BY ReadLeads DEF InDfu
  <1>2. deferred = "none" /\ state \in {"APP_IDLE", "DFU_IDLE"} /\ received = 0 /\ buffered = 0
    BY <1>1 DEF ToolInv, Entered, FileEmpty
  <1>3. deferred' = "none" /\ state' \in {"APP_IDLE", "DFU_IDLE"}
    <2>1. CASE read_command([cmd |-> "GET_DESCRIPTOR", n |-> 1])
      BY <1>2, <2>1, ReportDrops
    <2>2. CASE UNCHANGED controlVars
      BY <1>2, <2>2 DEF controlVars, vars, core
    <2> QED BY <2>1, <2>2 DEF InDfu, hal_read_command, Sends
  <1>4. HostTypeOK /\ result # "success" /\ (pc' # "idle" => op # "DETACH_AND_BUS_RESET")
    BY <1>1 DEF ToolInv, Unreported, Proceeds
  <1>5. /\ failures' \in 0 .. FailureCap /\ result' \in {"none", "success", "failure"}
        /\ pc' = "idle" \/ result' # "success"
    BY <1>1, <1>4, ReportType DEF HostTypeOK, outcome
  <1>6. pc' \in {"download", "upload", "revert", "idle"}
    BY <1>1 DEF Proceeds
  <1>7. /\ onfail' \in {"failed", "abort"} /\ op' \in Operations /\ received' = 0 /\ buffered' = 0
        /\ 0 \in 0 .. MaxImage /\ 0 \in 0 .. sector_buffer /\ 0 + T <= sector_buffer
    BY <1>1, <1>2, <1>4, Numbers DEF HostTypeOK, run, progress
  <1>8. HostTypeOK'
    BY <1>1, <1>5, <1>6, <1>7 DEF HostTypeOK, SentInv, Labels, SleepCap
  <1> QED BY <1>3, <1>5, <1>6, <1>7, <1>8 DEF ToolInv, FileEmpty, Entered, Uploading, Unreported

\* The block that comes, the end of the file, or a failure.
LEMMA UploadKeepsTool ==
    ASSUME ToolInv, SentInv', TypeOK, TypeOK', UploadAccounted, upload_file
    PROVE  /\ ToolInv'
           /\ result' = "success" => received' = SizeRead(flash')
  <1>1. /\ pc = "upload" /\ sleep' = 0 /\ UNCHANGED <<onfail, sent, run>>
        /\ \/ /\ read_command([cmd |-> "UPLOAD", n |-> T])
              /\ CASE ~Succeeded                 -> UploadFails
                   [] Succeeded /\ Returned = T  -> KeepsBlock
                   [] OTHER                      -> EndsFile
           \/ UploadFails
    BY DEF upload_file
  <1>2. /\ HostTypeOK /\ result # "success" /\ deferred = "none" /\ buffered + T <= sector_buffer
        /\ received \in Nat /\ buffered \in Nat /\ fifo \in Nat /\ fifo' \in Nat
        /\ delivered \in Nat /\ delivered' \in 0 .. MaxImage /\ delivered' \in Nat
    BY <1>1, Numbers DEF ToolInv, Uploading, Unreported, HostTypeOK, TypeOK, P, T
  <1> DEFINE Typed == /\ failures' \in 0 .. FailureCap /\ received' \in 0 .. MaxImage
                      /\ buffered' \in 0 .. sector_buffer
                      /\ result' \in {"none", "success", "failure"}
  <1>3. ASSUME pc' \in {"idle", "failed"}, Typed, pc' = "failed" => result' # "success"
        PROVE  ToolInv'
    <2>1. HostTypeOK'
      BY <1>1, <1>2, <1>3 DEF HostTypeOK, SentInv, Labels, run, SleepCap
    <2> QED BY <1>3, <2>1 DEF ToolInv, FileEmpty, Entered, Uploading, Unreported
  <1>4. CASE UploadFails
    BY <1>2, <1>3, <1>4 DEF UploadFails, outcome, HostTypeOK
  <1>5. ASSUME received' \in 0 .. MaxImage, EndsFile, received' = SizeRead(flash')
        PROVE  ToolInv' /\ (result' = "success" => received' = SizeRead(flash'))
    <2>1. /\ pc' \in {"idle", "failed"} /\ buffered' = 0
          /\ \/ pc' = "idle" /\ Reports("success")
             \/ pc' = "failed" /\ UNCHANGED outcome
      BY <1>5 DEF EndsFile
    <2>2. 0 \in 0 .. sector_buffer
      BY Numbers
    <2> QED BY <1>2, <1>3, <1>5, <2>1, <2>2, ReportType DEF outcome, HostTypeOK
  <1>6. ASSUME KeepsBlock, received' \in 0 .. MaxImage, state' = "UPLOAD_IDLE",
               received' = delivered', deferred' = "none", PagesFit(buffered', fifo'),
               buffered' \in Nat
        PROVE  ToolInv' /\ result' # "success"
    <2>1. buffered' + T <= sector_buffer
      BY <1>2, <1>6, BlockFitsSector
    <2>2. pc' \in {"upload", "failed"} /\ UNCHANGED outcome
      BY <1>6 DEF KeepsBlock
    <2>3. buffered' \in 0 .. sector_buffer
      <3>1. \A b \in Nat : b + T <= sector_buffer => b \in 0 .. sector_buffer
        BY Numbers
      <3> QED BY <1>6, <2>1, <3>1
    <2>4. CASE pc' = "failed"
      BY <1>2, <1>3, <1>6, <2>2, <2>3, <2>4 DEF outcome, HostTypeOK
    <2>5. CASE pc' = "upload"
      <3>1. HostTypeOK'
        BY <1>1, <1>2, <1>6, <2>1, <2>2, <2>3, <2>5
           DEF HostTypeOK, SentInv, Labels, run, outcome, SleepCap
      <3> QED BY <1>2, <1>6, <2>2, <2>5, <3>1
              DEF ToolInv, FileEmpty, Entered, Uploading, Unreported, outcome
    <2> QED BY <1>2, <2>2, <2>4, <2>5 DEF outcome
  <1>7. ASSUME read_command([cmd |-> "UPLOAD", n |-> T]), Succeeded,
               (Returned = T /\ KeepsBlock) \/ (Returned # T /\ EndsFile)
        PROVE  ToolInv' /\ (result' = "success" => received' = SizeRead(flash'))
    <2>1. Request("UPLOAD", T) /\ resp'.status = "SUCCESS" /\ deferred' = resp'.deferred
      BY <1>7 DEF read_command, Request, Succeeded
    <2>2. state # "APP_IDLE"
      BY <2>1
         DEF Request, dfu_request_with_arguments, HandleByState, LeavesByCommonCode,
             SyncStates, state_app_idle, Stay, Respond
    <2>4. CASE state = "DFU_IDLE"
      <3>1. /\ state' = "UPLOAD_IDLE" /\ deferred' = "none"
            /\ delivered' = Least(SizeRead(flash'), T)
            /\ delivered' = T => fifo' = P - T
        BY <2>1, <2>4, UploadFirst
      <3>2. Returned = delivered' /\ received = 0 /\ buffered = 0
        BY <1>1, <2>4 DEF Returned, ToolInv, Uploading
      <3>3. CASE Returned = T
        <4>1. KeepsBlock
          BY <1>7, <3>3
        <4>2. received' = T /\ buffered' = T
          BY <3>2, <4>1, Numbers DEF KeepsBlock, SectorFull
        <4>3. buffered' + fifo' = P /\ buffered' < sector_buffer /\ P <= sector_buffer
          BY <3>1, <3>2, <3>3, <4>2, Numbers
        <4>4. PagesFit(buffered', fifo')
          BY <4>2, <4>3, Numbers, SmallMultiples DEF PagesFit
        <4> QED BY <1>2, <1>6, <3>1, <3>2, <3>3, <4>1, <4>2, <4>4, Numbers
      <3>4. CASE Returned # T
        <4>1. EndsFile /\ received' = delivered'
          BY <1>2, <1>7, <3>2, <3>4 DEF EndsFile
        <4>2. delivered' = SizeRead(flash')
          BY <3>1, <3>2, <3>4 DEF Least
        <4> QED BY <1>2, <1>5, <4>1, <4>2
      <3> QED BY <3>3, <3>4
    <2>5. CASE state = "UPLOAD_IDLE"
      <3>1. Returned = delivered' - delivered /\ received = delivered /\ PagesFit(buffered, fifo)
        BY <1>1, <2>5 DEF Returned, ToolInv, Uploading
      <3>2. deferred' = "none"
        BY <2>1, <2>5, UploadNext
      <3>3. CASE Returned = T
        <4>1. KeepsBlock
          BY <1>7, <3>3
        <4>2. /\ state' = "UPLOAD_IDLE"
              /\ \/ fifo > 0 /\ T <= fifo /\ fifo' = fifo - T
                 \/ fifo = 0 /\ fifo' = P - T
          BY <2>1, <2>5, <3>1, <3>3, UploadNext
        <4>3. /\ received' = delivered'
              /\ buffered' = IF SectorFull(buffered + T) THEN 0 ELSE buffered + T
          <5>1. received' = delivered + T /\ delivered' - delivered = T
            BY <3>1, <3>3, <4>1 DEF KeepsBlock
          <5>2. \A d \in Nat : d - delivered = T => delivered + T = d
            BY <1>2, Numbers
          <5>3. received' = delivered'
            BY <1>2, <5>1, <5>2
          <5> QED BY <4>1, <5>3 DEF KeepsBlock
        <4>4. PagesFit(buffered', fifo')
          BY <1>2, <3>1, <4>2, <4>3, PagesFitNext
        <4>5. buffered' \in Nat
          BY <1>2, <4>3, Numbers
        <4> QED BY <1>2, <1>6, <3>2, <4>1, <4>2, <4>3, <4>4, <4>5
      <3>4. CASE Returned # T
        <4>1. EndsFile /\ received' = delivered'
          BY <1>2, <1>7, <3>1, <3>4 DEF EndsFile
        <4>2. delivered' # delivered + T
          <5>1. (delivered + T) - delivered = T
            BY <1>2, Numbers
          <5> QED BY <3>1, <3>4, <5>1
        <4>3. delivered' = SizeRead(flash')
          BY <2>1, <2>5, <4>2, UploadNext
        <4> QED BY <1>2, <1>5, <4>1, <4>3
      <3> QED BY <3>3, <3>4
    <2> QED BY <1>1, <2>2, <2>4, <2>5 DEF ToolInv, Uploading
  <1>8. UploadFails => result' # "success"
    BY <1>2 DEF UploadFails, outcome
  <1> QED BY <1>1, <1>4, <1>7, <1>8

LEMMA DeviceKeepsTool ==
    ASSUME ToolInv, SentInv', ServerStep \/ HostTick \/ DevicePowerFails
           \/ UNCHANGED allVars
    PROVE  ToolInv'
  <1>1. CASE ServerStep
    <2>1. deferred # "none" /\ UNCHANGED hostVars
      BY <1>1 DEF ServerStep, TimerExpires, TimerIsDue
    <2>2. pc \notin {"in_dfu", "upload"}
      BY <2>1 DEF ToolInv, Entered, Uploading
    <2> QED BY <2>1, <2>2
            DEF ToolInv, HostTypeOK, FileEmpty, Entered, Uploading, Unreported, hostVars,
                progress, outcome, run
  <1>2. CASE HostTick
    <2>1. /\ UNCHANGED <<pc, onfail, sent, received, buffered, result, failures, op, image,
                         state, deferred, delivered, fifo>>
          /\ sleep' \in 0 .. SleepCap
      BY <1>2 DEF HostTick, progress, outcome, run, vars, core, buffer, ToolInv, HostTypeOK,
                  SleepCap
    <2> QED BY <2>1 DEF ToolInv, HostTypeOK, FileEmpty, Entered, Uploading, Unreported
  <1>3. CASE DevicePowerFails
    <2>1. /\ UNCHANGED <<pc, onfail, sleep, progress, result, run>> /\ failures' = 0
          /\ state' = "APP_IDLE" /\ deferred' = "none"
      BY <1>3 DEF DevicePowerFails, PowerFails, PowerCycle, Boot
    <2> QED BY <2>1
            DEF ToolInv, HostTypeOK, FileEmpty, Entered, Uploading, Unreported, progress, run,
                FailureCap
  <1>4. CASE UNCHANGED allVars
    BY <1>4
       DEF ToolInv, HostTypeOK, FileEmpty, Entered, Uploading, Unreported, allVars, hostVars,
           controlVars, vars, core, buffer, progress, outcome, run
  <1> QED BY <1>1, <1>2, <1>3, <1>4

LEMMA ToolStep ==
    ASSUME ToolInv, SentInv', TypeOK, TypeOK', UploadAccounted, [DisturbedNext]_allVars
    PROVE  ToolInv'
  BY ChecksKeepTool, CommandsKeepTool, PollsKeepTool, EndsKeepTool, CheckDfuKeepsTool,
     InDfuKeepsTool, UploadKeepsTool, DeviceKeepsTool
     DEF DisturbedNext, HostNext, HostStep

\* Success is reported at the end of a file only by an upload.
LEMMA UploadReports ==
    ASSUME ToolInv, DisturbedNext, pc = "upload", result' = "success"
    PROVE  upload_file
  <1>1. result # "success"
    BY DEF ToolInv, Unreported
  <1>2. ~(CheckApp \/ CheckDetach \/ CheckDfu \/ CheckBlock \/ CheckEnd)
    BY CheckLeads DEF CheckApp, CheckDetach, CheckDfu, CheckBlock, CheckEnd
  <1>3. ~(FetchDescriptor \/ Detach \/ BusReset \/ Abort \/ InDfu \/ ReadError \/ SendClear
          \/ SendBlock \/ SendEnd \/ hal_revert_factory \/ hal_reboot)
    BY WriteLeads, ReadLeads
       DEF FetchDescriptor, Detach, BusReset, Abort, InDfu, ReadError, SendClear, SendBlock,
           SendEnd, hal_revert_factory, hal_reboot
  <1>4. ~(PollDownload \/ PollManifest \/ Fails \/ Start)
    BY DEF PollDownload, PollManifest, check_status, Sends, Fails, Start
  <1>5. ~(ServerStep \/ HostTick \/ Kill \/ DevicePowerFails)
    BY <1>1 DEF ServerStep, hostVars, HostTick, outcome, Kill, DevicePowerFails
  <1> QED BY <1>2, <1>3, <1>4, <1>5 DEF DisturbedNext, HostNext, HostStep

LEMMA ToolAlways == DisturbedSpec => []ToolInv
  <1>1. HostInit => ToolInv
    BY Numbers
       DEF HostInit, ToolInv, HostTypeOK, FileEmpty, Entered, Uploading, Unreported, Labels,
           Operations, SleepCap, FailureCap
  <1>2. IInv => TypeOK /\ UploadAccounted
    BY DEF IInv, DeviceInv
  <1>3. ToolInv /\ SentInv' /\ IInv /\ IInv' /\ [DisturbedNext]_allVars => ToolInv'
    <2>1. IInv' => TypeOK'
      BY DEF IInv, DeviceInv
    <2> QED BY <1>2, <2>1, ToolStep
  <1> QED
    BY <1>1, <1>3, SentAlways, HostDevice, Inductive, PTL DEF DisturbedSpec, ImplementsDevice

\* For every page, block and sector size, whatever is lost, killed or cut off: the
\* sector buffer has room for the block that is asked for, and the tool never
\* counts past the end of an image.
THEOREM HostTypes == DisturbedSpec => []HostTypeOK
  <1>1. ToolInv => HostTypeOK
    BY DEF ToolInv
  <1> QED BY <1>1, ToolAlways, PTL

\* A file that is reported complete has every byte of the image.
THEOREM FileComplete == DisturbedSpec => FileIsComplete
  <1>1. ASSUME ToolInv, SentInv', IInv, IInv', [DisturbedNext]_allVars
        PROVE  [result' = "success" /\ pc = "upload"
                  => received' = IF flash'.upgrade_image_valid = 1 THEN flash'.size
                                                                   ELSE 0]_allVars
    <2>1. TypeOK /\ UploadAccounted /\ TypeOK'
      BY <1>1 DEF IInv, DeviceInv
    <2> QED BY <1>1, <2>1, UploadReports, UploadKeepsTool DEF SizeRead
  <1> QED
    BY <1>1, ToolAlways, SentAlways, HostDevice, Inductive, PTL
       DEF DisturbedSpec, FileIsComplete, ImplementsDevice

-----------------------------------------------------------------------------
(* The order of the commands: where the tool and the device are.           *)

\* The states the device may be in when the tool is at label l.
Place(l) ==
    CASE l \in {"idle", "failed", "check_app", "hal_reboot"} ->
             {"APP_IDLE", "DFU_IDLE", "UPLOAD_IDLE", "DFU_ERROR"}
      [] l \in {"descriptor", "detach"}          -> {"APP_IDLE"}
      [] l \in {"check_detach", "bus_reset"}     -> {"APP_DETACH"}
      [] l = "abort"                             -> {"DFU_IDLE", "UPLOAD_IDLE"}
      [] l = "check_dfu"                         -> {"DFU_IDLE", "DFU_ERROR"}
      [] l \in {"in_dfu", "revert", "check_end"} -> {"DFU_IDLE"}
      [] l \in {"read_error", "clear"}           -> {"DFU_ERROR"}
      [] l = "download"                          -> {"DFU_IDLE", "DNLOAD_IDLE"}
      [] l = "poll_download"                     -> {"DNLOAD_SYNC", "DFU_ERROR"}
      [] l \in {"check_block", "end"}            -> {"DNLOAD_IDLE"}
      [] l = "poll_manifest"                     -> {"MANIFEST_SYNC", "DFU_ERROR"}
      [] OTHER                                   -> {"DFU_IDLE", "UPLOAD_IDLE"}

\* What the server may hold there: the tool sleeps until it is done.
Held ==
    \/ deferred = "none"
    \/ deferred = "REBOOT" /\ pc = "idle"
    \/ deferred = "REVERT_FACTORY" /\ pc = "hal_reboot" /\ state = "DFU_IDLE"
    \/ deferred = "FLASH_CONNECT" /\ pc = "check_dfu" /\ state = "DFU_IDLE"
    \/ deferred = "FLASH_WRITE" /\ pc = "poll_download" /\ state = "DNLOAD_SYNC"
    \/ deferred = "FLASH_MANIFEST" /\ pc = "poll_manifest" /\ state = "MANIFEST_SYNC"

Waits == deferred # "none" => sleep = 2 \/ (sleep = 1 /\ elapsed = 1)

PollsWait == state \notin AppStates => Timed

\* A run that has not begun its download.
Beginning(l, f) ==
    \/ l \in {"check_app", "descriptor", "detach", "check_detach", "bus_reset", "abort",
              "check_dfu", "in_dfu"}
    \/ l \in {"read_error", "clear"} /\ f = "abort"

Begins ==
    op = "WRITE_UPGRADE" => image > 0 /\ (Beginning(pc, onfail) => sent = 0)

\* What the tool has confirmed and what the device has accepted.
Confirmed ==
    /\ pc = "download" =>
         /\ sent < image
         /\ IF state = "DFU_IDLE" THEN sent = 0 ELSE accepted = sent
    /\ pc = "poll_download" =>
         sent < image /\ (state = "DNLOAD_SYNC" => accepted = sent + Block)
    /\ pc = "check_block" => sent < image /\ accepted = sent + Block
    /\ pc = "end" => accepted = image
    /\ pc = "poll_manifest" /\ state = "MANIFEST_SYNC" => accepted = image

OrderInv ==
    /\ state \in Place(pc) /\ Held /\ Waits /\ PollsWait
    /\ Begins /\ Confirmed

\* The rest of what an undisturbed tool relies on.
HostInv == SentInv /\ ControlTypeOK /\ IInv /\ ToolInv /\ OrderInv /\ Lossy = FALSE

InTransfer == {"download", "poll_download", "check_block", "end", "poll_manifest"}

\* A step outside the transfer of blocks that leaves nothing to the server.
LEMMA OutsideStep ==
    ASSUME OrderInv, UNCHANGED <<op, image, sent>>,
           state' \in Place(pc'), deferred' = "none", PollsWait', pc' \notin InTransfer,
           Beginning(pc', onfail') => Beginning(pc, onfail)
    PROVE  OrderInv'
  BY DEF OrderInv, Held, Waits, Begins, Confirmed, InTransfer

\* A tool that sleeps no more finds the server at rest.
LEMMA AtRest == ASSUME OrderInv, sleep = 0 PROVE deferred = "none"
  BY DEF OrderInv, Waits

\* A command that the protocol provides for, and its answer.
LEMMA HostWrites ==
    ASSUME HostInv, NEW from, NEW c, NEW k, NEW ok, NEW bad,
           hal_write_command(from, c, k, ok, bad),
           [cmd |-> c, n |-> k] \in Writes, Provided([cmd |-> c, n |-> k])
    PROVE  /\ PoliteRequest /\ Request(c, k)
           /\ pc = from /\ sleep = 0 /\ deferred = "none"
           /\ pc' = IF Succeeded THEN ok ELSE bad
           /\ deferred' = IF resp'.deferred = "REBOOT_TO_DFU" THEN "none" ELSE resp'.deferred
  <1>1. /\ write_command([cmd |-> c, n |-> k]) /\ pc = from /\ sleep = 0
        /\ pc' = IF Succeeded THEN ok ELSE bad
    BY DEF hal_write_command, Sends, HostInv
  <1>2. deferred = "none"
    BY <1>1, AtRest DEF HostInv
  <1>3. Answer([cmd |-> c, n |-> k]) /\ [cmd |-> c, n |-> k] \in Requests
    BY <1>1, CommandStep DEF HostInv, Writes
  <1> QED BY <1>1, <1>2, <1>3 DEF PoliteRequest, write_command, Request

LEMMA HostReads ==
    ASSUME HostInv, NEW from, NEW c, NEW k, NEW ok, NEW bad, sleep = 0,
           read_command([cmd |-> c, n |-> k]),
           [cmd |-> c, n |-> k] \in Reads, Provided([cmd |-> c, n |-> k])
    PROVE  /\ PoliteRequest /\ Request(c, k) /\ deferred = "none"
           /\ deferred' = IF Succeeded THEN resp'.deferred ELSE "none"
  <1>2. deferred = "none"
    BY AtRest DEF HostInv
  <1>3. Answer([cmd |-> c, n |-> k]) /\ [cmd |-> c, n |-> k] \in Requests
    BY CommandStep DEF HostInv, Reads
  <1> QED BY <1>2, <1>3 DEF PoliteRequest, read_command, Request, Succeeded

\* A look at the state, which changes nothing of the device.
LEMMA HostChecks ==
    ASSUME HostInv, NEW from, NEW expected, NEW ok, NEW bad,
           check_state(from, expected, ok, bad)
    PROVE  /\ PoliteRequest /\ pc = from /\ sleep = 0 /\ deferred = "none" /\ deferred' = "none"
           /\ pc' = Checked(expected, ok, bad) /\ onfail' = bad /\ sleep' = 0
           /\ UNCHANGED <<state, poll_timeout, accepted, flash, op, image>>
  <1>1. /\ read_command([cmd |-> "GETSTATE", n |-> 1]) /\ pc = from /\ sleep = 0
        /\ pc' = Checked(expected, ok, bad) /\ onfail' = bad /\ sleep' = 0
        /\ UNCHANGED <<op, image>>
    BY DEF check_state, Sends, HostInv, run
  <1>2. [cmd |-> "GETSTATE", n |-> 1] \in Reads /\ Provided([cmd |-> "GETSTATE", n |-> 1])
    BY DEF Reads, ReadCommands, Requests, Provided
  <1> QED BY <1>1, <1>2, HostReads, ReportDrops

\* A descriptor, which changes nothing either.
LEMMA HostDescribes ==
    ASSUME HostInv, NEW from, NEW ok, NEW bad,
           hal_read_command(from, "GET_DESCRIPTOR", 1, ok, bad)
    PROVE  /\ PoliteRequest /\ pc = from /\ sleep = 0 /\ deferred = "none" /\ deferred' = "none"
           /\ pc' = ok
           /\ UNCHANGED <<state, poll_timeout, accepted, flash>>
  <1>1. /\ read_command([cmd |-> "GET_DESCRIPTOR", n |-> 1]) /\ pc = from /\ sleep = 0
        /\ pc' = IF Succeeded THEN ok ELSE bad
    BY DEF hal_read_command, Sends, HostInv
  <1>2. /\ [cmd |-> "GET_DESCRIPTOR", n |-> 1] \in Reads
        /\ Provided([cmd |-> "GET_DESCRIPTOR", n |-> 1])
    BY DEF Reads, ReadCommands, Requests, Provided
  <1> QED BY <1>1, <1>2, HostReads, ReportDrops

\* What the order says at a label.
LEMMA AtLabel ==
    ASSUME HostInv
    PROVE  /\ state \in Place(pc) /\ PollsWait /\ Begins /\ Confirmed
           /\ TypeOK /\ UploadAccounted /\ StatusTellsError /\ HostTypeOK /\ SentInv
           /\ ~Lossy
  BY DEF HostInv, OrderInv, IInv, DeviceInv, ToolInv

LEMMA CheckOutside ==
    ASSUME HostInv, NEW from, NEW expected, NEW ok, NEW bad,
           check_state(from, expected, ok, bad), UNCHANGED sent,
           Checked(expected, ok, bad) \notin InTransfer,
           state \in Place(Checked(expected, ok, bad)),
           Beginning(Checked(expected, ok, bad), bad) => Beginning(from, onfail)
    PROVE  PoliteRequest /\ OrderInv'
  <1>1. /\ PoliteRequest /\ pc = from /\ deferred' = "none"
        /\ pc' = Checked(expected, ok, bad) /\ onfail' = bad
        /\ UNCHANGED <<state, poll_timeout, op, image>>
    BY HostChecks
  <1>2. OrderInv
    BY DEF HostInv
  <1>3. state' \in Place(pc')
    BY <1>1
  <1>4. PollsWait'
    BY <1>1, AtLabel DEF PollsWait, Timed
  <1>5. pc' \notin InTransfer /\ (Beginning(pc', onfail') => Beginning(pc, onfail))
    BY <1>1
  <1> QED BY <1>1, <1>2, <1>3, <1>4, <1>5, OutsideStep

LEMMA ChecksFollow ==
    ASSUME HostInv, CheckApp \/ CheckDetach \/ CheckDfu \/ CheckEnd
    PROVE  PoliteRequest /\ OrderInv'
  <1>1. state \in Place(pc)
    BY AtLabel
  <1>2. CASE CheckApp
    <2>1. /\ check_state("check_app", "APP_IDLE", "descriptor", "abort")
          /\ pc = "check_app" /\ UNCHANGED sent
      BY <1>2 DEF CheckApp, check_state, Sends, progress
    <2>2. state \in {"APP_IDLE", "DFU_IDLE", "UPLOAD_IDLE", "DFU_ERROR"}
      BY <1>1, <2>1 DEF Place
    <2>3. /\ Checked("APP_IDLE", "descriptor", "abort") \notin InTransfer
          /\ state \in Place(Checked("APP_IDLE", "descriptor", "abort"))
      BY <2>2 DEF Checked, InTransfer, Place
    <2> QED BY <2>1, <2>3, CheckOutside DEF Beginning
  <1>3. CASE CheckDetach
    <2>1. /\ check_state("check_detach", "APP_DETACH", "bus_reset", "failed")
          /\ pc = "check_detach" /\ UNCHANGED sent
      BY <1>3 DEF CheckDetach, check_state, Sends, progress
    <2>2. state = "APP_DETACH"
      BY <1>1, <2>1 DEF Place
    <2>3. /\ Checked("APP_DETACH", "bus_reset", "failed") \notin InTransfer
          /\ state \in Place(Checked("APP_DETACH", "bus_reset", "failed"))
      BY <2>2 DEF Checked, InTransfer, Place
    <2> QED BY <2>1, <2>3, CheckOutside DEF Beginning
  <1>4. CASE CheckDfu
    <2>1. /\ check_state("check_dfu", "DFU_IDLE", "in_dfu", "failed")
          /\ pc = "check_dfu" /\ UNCHANGED sent
      BY <1>4 DEF CheckDfu, check_state, Sends, progress
    <2>2. state \in {"DFU_IDLE", "DFU_ERROR"}
      BY <1>1, <2>1 DEF Place
    <2>3. /\ Checked("DFU_IDLE", "in_dfu", "failed") \notin InTransfer
          /\ state \in Place(Checked("DFU_IDLE", "in_dfu", "failed"))
      BY <2>2 DEF Checked, InTransfer, Place
    <2> QED BY <2>1, <2>3, CheckOutside DEF Beginning
  <1>5. CASE CheckEnd
    <2>1. /\ check_state("check_end", "DFU_IDLE", "hal_reboot", "failed")
          /\ pc = "check_end" /\ UNCHANGED sent
      BY <1>5 DEF CheckEnd, check_state, Sends, progress
    <2>2. state = "DFU_IDLE"
      BY <1>1, <2>1 DEF Place
    <2>3. /\ Checked("DFU_IDLE", "hal_reboot", "failed") = "hal_reboot"
          /\ "hal_reboot" \notin InTransfer /\ state \in Place("hal_reboot")
      BY <2>2 DEF Checked, InTransfer, Place
    <2> QED BY <2>1, <2>3, CheckOutside DEF Beginning
  <1> QED BY <1>2, <1>3, <1>4, <1>5

LEMMA DescriptorsFollow ==
    ASSUME HostInv, FetchDescriptor \/ InDfu
    PROVE  PoliteRequest /\ OrderInv'
  <1>0. state \in Place(pc) /\ OrderInv /\ PollsWait /\ Begins /\ Confirmed
    BY AtLabel DEF HostInv
  <1>1. CASE FetchDescriptor
    <2>1. /\ hal_read_command("descriptor", "GET_DESCRIPTOR", 1, "detach", "detach")
          /\ UNCHANGED <<op, image, sent, onfail>>
      BY <1>1 DEF FetchDescriptor, AtOnce, progress, run
    <2>2. /\ PoliteRequest /\ pc = "descriptor" /\ pc' = "detach" /\ deferred' = "none"
          /\ UNCHANGED <<state, poll_timeout>>
      BY <2>1, HostDescribes
    <2>3. state' \in Place(pc') /\ PollsWait' /\ pc' \notin InTransfer /\ Beginning(pc, onfail)
      BY <1>0, <2>2 DEF Place, PollsWait, Timed, InTransfer, Beginning
    <2> QED BY <1>0, <2>1, <2>2, <2>3, OutsideStep
  <1>2. CASE InDfu
    <2>1. /\ hal_read_command("in_dfu", "GET_DESCRIPTOR", 1, Proceeds, Proceeds)
          /\ UNCHANGED <<op, image, sent, onfail>>
      BY <1>2 DEF InDfu, progress, run
    <2>2. /\ PoliteRequest /\ pc = "in_dfu" /\ pc' = Proceeds /\ deferred' = "none"
          /\ UNCHANGED <<state, poll_timeout, accepted>>
      BY <2>1, HostDescribes
    <2>3. state = "DFU_IDLE"
      BY <1>0, <2>2 DEF Place
    <2>4. PollsWait'
      BY <1>0, <2>2 DEF PollsWait, Timed
    <2>5. CASE op = "WRITE_UPGRADE"
      <3>1. pc' = "download"
        BY <2>2, <2>5 DEF Proceeds
      <3>2. image > 0 /\ sent = 0
        BY <1>0, <2>2, <2>5 DEF Begins, Beginning
      <3>3. state' \in Place(pc') /\ Held' /\ Waits' /\ Begins' /\ Confirmed'
        BY <2>1, <2>2, <2>3, <3>1, <3>2 DEF Place, Held, Waits, Begins, Beginning, Confirmed
      <3> QED BY <2>2, <2>4, <3>3 DEF OrderInv
    <2>6. CASE op # "WRITE_UPGRADE"
      <3>1. pc' \in {"upload", "revert", "idle"}
        BY <2>2, <2>6 DEF Proceeds
      <3>2. state' \in Place(pc') /\ pc' \notin InTransfer /\ Beginning(pc, onfail)
        BY <2>2, <2>3, <3>1 DEF Place, InTransfer, Beginning
      <3> QED BY <1>0, <2>1, <2>2, <2>4, <3>2, OutsideStep
    <2> QED BY <2>5, <2>6
  <1> QED BY <1>1, <1>2

\* The commands that enter and leave DFU mode.
LEMMA ModesFollow ==
    ASSUME HostInv, Detach \/ BusReset \/ Abort \/ hal_reboot
    PROVE  PoliteRequest /\ OrderInv'
  <1>0. state \in Place(pc) /\ OrderInv /\ PollsWait /\ Begins
    BY AtLabel DEF HostInv
  <1>1. CASE Detach
    <2>1. /\ hal_write_command("detach", "DETACH", 0, "check_detach", "failed")
          /\ UNCHANGED <<op, image, sent, onfail>> /\ pc = "detach"
      BY <1>1 DEF Detach, AtOnce, progress, run, hal_write_command, Sends
    <2>2. state = "APP_IDLE"
      BY <1>0, <2>1 DEF Place
    <2>3. [cmd |-> "DETACH", n |-> 0] \in Writes /\ Provided([cmd |-> "DETACH", n |-> 0])
      BY <2>2 DEF Writes, Reads, ReadCommands, Requests, Provided
    <2>4. /\ PoliteRequest /\ Request("DETACH", 0)
          /\ pc' = IF Succeeded THEN "check_detach" ELSE "failed"
          /\ deferred' = IF resp'.deferred = "REBOOT_TO_DFU" THEN "none" ELSE resp'.deferred
      BY <2>1, <2>3, HostWrites
    <2>5. state' = "APP_DETACH" /\ pc' = "check_detach" /\ deferred' = "none"
      BY <2>2, <2>4, DetachAnswer DEF Succeeded
    <2>6. state' \in Place(pc') /\ PollsWait' /\ pc' \notin InTransfer /\ Beginning(pc, onfail)
      BY <2>1, <2>5 DEF Place, PollsWait, AppStates, InTransfer, Beginning
    <2> QED BY <1>0, <2>1, <2>4, <2>5, <2>6, OutsideStep
  <1>2. CASE Abort
    <2>1. /\ hal_write_command("abort", "ABORT", 0, "check_dfu", "failed")
          /\ UNCHANGED <<op, image, sent, onfail>> /\ pc = "abort"
      BY <1>2 DEF Abort, AtOnce, progress, run, hal_write_command, Sends
    <2>2. state \in {"DFU_IDLE", "UPLOAD_IDLE"}
      BY <1>0, <2>1 DEF Place
    <2>3. [cmd |-> "ABORT", n |-> 0] \in Writes /\ Provided([cmd |-> "ABORT", n |-> 0])
      BY <2>2 DEF Writes, Reads, ReadCommands, Requests, Provided
    <2>4. /\ PoliteRequest /\ Request("ABORT", 0)
          /\ pc' = IF Succeeded THEN "check_dfu" ELSE "failed"
          /\ deferred' = IF resp'.deferred = "REBOOT_TO_DFU" THEN "none" ELSE resp'.deferred
      BY <2>1, <2>3, HostWrites
    <2>5. /\ state' = "DFU_IDLE" /\ pc' = "check_dfu" /\ deferred' = "none"
          /\ UNCHANGED poll_timeout
      BY <2>2, <2>4, AbortAnswer DEF Succeeded
    <2>6. state' \in Place(pc') /\ PollsWait' /\ pc' \notin InTransfer /\ Beginning(pc, onfail)
      BY <1>0, <2>1, <2>2, <2>5 DEF Place, PollsWait, Timed, AppStates, InTransfer, Beginning
    <2> QED BY <1>0, <2>1, <2>4, <2>5, <2>6, OutsideStep
  <1>3. CASE BusReset \/ hal_reboot
    <2>1. PICK from \in {"bus_reset", "hal_reboot"}, ok \in {"check_dfu", "idle"},
               bad \in {"failed", "idle"} :
            /\ hal_write_command(from, "BUS_RESET", 0, ok, bad)
            /\ pc = from
            /\ IF from = "bus_reset" THEN ok = "check_dfu" ELSE ok = "idle"
            /\ UNCHANGED <<op, image, sent, onfail>> /\ sleep' = 2
      <3>1. CASE BusReset
        BY <3>1
           DEF BusReset, ThenWaits, progress, run, hal_write_command, Sends, SleepCap
      <3>2. CASE hal_reboot
        BY <3>2
           DEF hal_reboot, ThenWaits, progress, run, hal_write_command, Sends, SleepCap
      <3> QED BY <1>3, <3>1, <3>2
    <2>2. /\ [cmd |-> "BUS_RESET", n |-> 0] \in Writes
          /\ Provided([cmd |-> "BUS_RESET", n |-> 0])
      BY DEF Writes, Reads, ReadCommands, Requests, Provided
    <2>3. /\ PoliteRequest /\ Request("BUS_RESET", 0)
          /\ pc' = IF Succeeded THEN ok ELSE bad
          /\ deferred' = IF resp'.deferred = "REBOOT_TO_DFU" THEN "none" ELSE resp'.deferred
      BY <2>1, <2>2, HostWrites
    <2>4. CASE from = "bus_reset"
      <3>1. state = "APP_DETACH"
        BY <1>0, <2>1, <2>4 DEF Place
      <3>2. /\ state' = "DFU_IDLE" /\ Timed' /\ pc' = "check_dfu"
            /\ deferred' \in {"none", "FLASH_CONNECT"}
        BY <2>1, <2>3, <2>4, <3>1, BusResetAnswer DEF Succeeded
      <3>3. state' \in Place(pc') /\ Held' /\ Waits' /\ PollsWait'
        BY <2>1, <3>2 DEF Place, Held, Waits, PollsWait
      <3>4. Begins' /\ Confirmed'
        BY <1>0, <2>1, <2>4, <3>2 DEF Begins, Beginning, Confirmed
      <3> QED BY <2>3, <3>3, <3>4 DEF OrderInv
    <2>5. CASE from = "hal_reboot"
      <3>1. state \in {"APP_IDLE", "DFU_IDLE", "UPLOAD_IDLE", "DFU_ERROR"}
        BY <1>0, <2>1, <2>5 DEF Place
      <3>2. /\ state' = "APP_IDLE" /\ pc' = "idle" /\ deferred' \in {"none", "REBOOT"}
        BY <2>1, <2>3, <2>5, <3>1, BusResetAnswer DEF Succeeded
      <3>3. state' \in Place(pc') /\ Held' /\ Waits' /\ PollsWait'
        BY <2>1, <3>2 DEF Place, Held, Waits, PollsWait, AppStates
      <3>4. Begins' /\ Confirmed'
        BY <1>0, <2>1, <3>2 DEF Begins, Beginning, Confirmed
      <3> QED BY <2>3, <3>3, <3>4 DEF OrderInv
    <2> QED BY <2>1, <2>4, <2>5
  <1> QED BY <1>1, <1>2, <1>3

\* An error is read, cleared, and then handled as the failed command was.
LEMMA ErrorsFollow ==
    ASSUME HostInv, ReadError \/ SendClear
    PROVE  PoliteRequest /\ OrderInv'
  <1>0. state \in Place(pc) /\ OrderInv /\ ~Lossy /\ onfail \in {"failed", "abort"}
    BY AtLabel DEF HostInv, HostTypeOK
  <1>1. CASE ReadError
    <2>1. /\ read_command([cmd |-> "GETSTATUS", n |-> 1]) /\ pc' = "clear"
          /\ UNCHANGED <<op, image, sent, onfail>> /\ pc = "read_error" /\ sleep = 0
      BY <1>0, <1>1 DEF ReadError, AtOnce, progress, run, hal_read_command, Sends
    <2>2. state = "DFU_ERROR"
      BY <1>0, <2>1 DEF Place
    <2>3. [cmd |-> "GETSTATUS", n |-> 1] \in Reads /\ Provided([cmd |-> "GETSTATUS", n |-> 1])
      BY DEF Reads, ReadCommands, Requests, Provided
    <2>4. /\ PoliteRequest /\ Request("GETSTATUS", 1)
          /\ deferred' = IF Succeeded THEN resp'.deferred ELSE "none"
      BY <2>1, <2>3, HostReads
    <2>5. state' = "DFU_ERROR" /\ UNCHANGED poll_timeout /\ deferred' = "none"
      BY <2>2, <2>4, Reported DEF SyncStates, Succeeded, NoResponse
    <2>6. PollsWait'
      BY <2>2, <2>5, AtLabel DEF PollsWait, Timed, AppStates
    <2>7. /\ state' \in Place(pc') /\ pc' \notin InTransfer
          /\ Beginning(pc', onfail') => Beginning(pc, onfail)
      BY <2>1, <2>5 DEF Place, InTransfer, Beginning
    <2> QED BY <1>0, <2>1, <2>4, <2>5, <2>6, <2>7, OutsideStep
  <1>2. CASE SendClear
    <2>1. /\ hal_write_command("clear", "CLRSTATUS", 0, onfail, onfail)
          /\ UNCHANGED <<op, image, sent, onfail>> /\ pc = "clear" /\ pc' = onfail
      BY <1>0, <1>2 DEF SendClear, AtOnce, progress, run, hal_write_command, Sends
    <2>2. state = "DFU_ERROR"
      BY <1>0, <2>1 DEF Place
    <2>3. [cmd |-> "CLRSTATUS", n |-> 0] \in Writes /\ Provided([cmd |-> "CLRSTATUS", n |-> 0])
      BY <2>2 DEF Writes, Reads, ReadCommands, Requests, Provided
    <2>4. /\ PoliteRequest /\ Request("CLRSTATUS", 0)
          /\ deferred' = IF resp'.deferred = "REBOOT_TO_DFU" THEN "none" ELSE resp'.deferred
      BY <2>1, <2>3, HostWrites
    <2>5. state' = "DFU_IDLE" /\ Timed' /\ deferred' = "none"
      BY <2>2, <2>4, ClearAnswer
    <2>6. /\ state' \in Place(pc') /\ PollsWait' /\ pc' \notin InTransfer
          /\ Beginning(pc', onfail') => Beginning(pc, onfail)
      BY <1>0, <2>1, <2>5 DEF Place, PollsWait, InTransfer, Beginning
    <2> QED BY <1>0, <2>1, <2>4, <2>5, <2>6, OutsideStep
  <1> QED BY <1>1, <1>2

\* A block goes out only when the device is ready for one, and counts once.
LEMMA BlocksFollow ==
    ASSUME HostInv, SendBlock \/ CheckBlock \/ SendEnd
    PROVE  PoliteRequest /\ OrderInv'
  <1>0. /\ state \in Place(pc) /\ OrderInv /\ ~Lossy /\ PollsWait /\ Begins /\ Confirmed
        /\ SentInv /\ TypeOK
    BY AtLabel DEF HostInv
  <1>N. /\ image \in Nat /\ sent \in Nat
        /\ Block \in 0 .. T /\ sent + Block \in 0 .. image
    BY <1>0, BlockFits, Numbers DEF SentInv
  <1>1. CASE SendBlock
    <2>1. /\ hal_write_command("download", "DNLOAD", Block, "poll_download", "failed")
          /\ UNCHANGED <<op, image, sent, onfail>> /\ pc = "download"
      BY <1>1 DEF SendBlock, AtOnce, progress, run, hal_write_command, Sends
    <2>2. /\ state \in {"DFU_IDLE", "DNLOAD_IDLE"} /\ sent < image
          /\ IF state = "DFU_IDLE" THEN sent = 0 ELSE accepted = sent
      BY <1>0, <2>1 DEF Place, Confirmed
    <2>3. Block \in 1 .. T
      BY <1>0, <1>N, <2>2, Numbers DEF Block, Least
    <2>4. /\ [cmd |-> "DNLOAD", n |-> Block] \in Writes
          /\ Provided([cmd |-> "DNLOAD", n |-> Block])
      BY <1>0, <1>N, <2>2, <2>3, Numbers DEF Writes, Reads, ReadCommands, Requests, Provided
    <2>5. /\ PoliteRequest /\ Request("DNLOAD", Block)
          /\ pc' = IF Succeeded THEN "poll_download" ELSE "failed"
          /\ deferred' = IF resp'.deferred = "REBOOT_TO_DFU" THEN "none" ELSE resp'.deferred
      BY <2>1, <2>4, HostWrites
    <2>6. /\ UNCHANGED poll_timeout /\ deferred' = "none"
          /\ \/ state' = "DNLOAD_SYNC" /\ pc' = "poll_download" /\ accepted' = sent + Block
             \/ state' = "DFU_ERROR" /\ pc' = "failed"
      BY <1>0, <1>N, <2>2, <2>3, <2>5, BlockAnswer DEF Succeeded
    <2>7. Block' = Block
      BY <2>1 DEF Block
    <2>8. state' \in Place(pc') /\ Held' /\ Waits' /\ PollsWait'
      BY <1>0, <2>2, <2>6 DEF Place, Held, Waits, PollsWait, Timed, AppStates
    <2>9. Begins' /\ Confirmed'
      BY <1>0, <2>1, <2>2, <2>6, <2>7 DEF Begins, Beginning, Confirmed
    <2> QED BY <2>5, <2>8, <2>9 DEF OrderInv
  <1>2. CASE CheckBlock
    <2>1. /\ check_state("check_block", "DNLOAD_IDLE",
                         IF sent + Block < image THEN "download" ELSE "end", "failed")
          /\ pc = "check_block"
          /\ sent' = IF pc' \in {"download", "end"} THEN sent + Block ELSE sent
      BY <1>2 DEF CheckBlock, check_state, Sends
    <2>2. state = "DNLOAD_IDLE" /\ accepted = sent + Block
      BY <1>0, <2>1 DEF Place, Confirmed
    <2>3. /\ PoliteRequest /\ deferred' = "none"
          /\ pc' = (IF sent + Block < image THEN "download" ELSE "end")
          /\ UNCHANGED <<state, poll_timeout, accepted, op, image>>
      BY <2>1, <2>2, HostChecks DEF Checked
    <2>4. sent' = sent + Block
      BY <2>1, <2>3
    <2>5. \/ pc' = "download" /\ sent' < image'
          \/ pc' = "end" /\ accepted' = image'
      BY <1>0, <1>N, <2>2, <2>3, <2>4
    <2>6. state' \in Place(pc') /\ Held' /\ Waits' /\ PollsWait'
      BY <1>0, <2>2, <2>3, <2>5 DEF Place, Held, Waits, PollsWait, Timed, AppStates
    <2>7. Begins' /\ Confirmed'
      BY <1>0, <2>2, <2>3, <2>4, <2>5 DEF Begins, Beginning, Confirmed
    <2> QED BY <2>3, <2>6, <2>7 DEF OrderInv
  <1>3. CASE SendEnd
    <2>1. /\ hal_write_command("end", "DNLOAD", 0, "poll_manifest", "failed")
          /\ UNCHANGED <<op, image, sent, onfail>> /\ pc = "end"
      BY <1>3 DEF SendEnd, AtOnce, progress, run, hal_write_command, Sends
    <2>2. state = "DNLOAD_IDLE" /\ accepted = image
      BY <1>0, <2>1 DEF Place, Confirmed
    <2>3. [cmd |-> "DNLOAD", n |-> 0] \in Writes /\ Provided([cmd |-> "DNLOAD", n |-> 0])
      BY <2>2, Numbers DEF Writes, Reads, ReadCommands, Requests, Provided
    <2>4. /\ PoliteRequest /\ Request("DNLOAD", 0)
          /\ pc' = IF Succeeded THEN "poll_manifest" ELSE "failed"
          /\ deferred' = IF resp'.deferred = "REBOOT_TO_DFU" THEN "none" ELSE resp'.deferred
      BY <2>1, <2>3, HostWrites
    <2>5. /\ state' = "MANIFEST_SYNC" /\ UNCHANGED <<poll_timeout, accepted>>
          /\ pc' = "poll_manifest" /\ deferred' = "none"
      BY <1>0, <2>2, <2>4, EndAnswer DEF Succeeded
    <2>6. state' \in Place(pc') /\ Held' /\ Waits' /\ PollsWait'
      BY <1>0, <2>2, <2>5 DEF Place, Held, Waits, PollsWait, Timed, AppStates
    <2>7. Begins' /\ Confirmed'
      BY <1>0, <2>1, <2>2, <2>5 DEF Begins, Beginning, Confirmed
    <2> QED BY <2>4, <2>6, <2>7 DEF OrderInv
  <1> QED BY <1>1, <1>2, <1>3

LEMMA TimesAreLong ==
    ASSUME Timed
    PROVE  Least(poll_timeout, SleepCap) = 2
  BY DEF Timed, PollTimeouts, Least, SleepCap

\* A poll, and the time it takes before the next.
LEMMA PollsFollow ==
    ASSUME HostInv, PollDownload \/ PollManifest
    PROVE  /\ PoliteRequest /\ OrderInv'
           /\ pc' = "check_end" =>
                flash_finalised = 1 /\ state = "MANIFEST_SYNC" /\ UNCHANGED flash
  <1>0. /\ state \in Place(pc) /\ OrderInv /\ ~Lossy /\ PollsWait /\ Begins /\ Confirmed
        /\ StatusTellsError
    BY AtLabel DEF HostInv
  <1>1. PICK from \in {"poll_download", "poll_manifest"},
             busy \in {"DNLOAD_SYNC", "MANIFEST_SYNC"}, done \in {"check_block", "check_end"} :
          /\ IF from = "poll_download" THEN busy = "DNLOAD_SYNC" /\ done = "check_block"
                                       ELSE busy = "MANIFEST_SYNC" /\ done = "check_end"
          /\ read_command([cmd |-> "GETSTATUS", n |-> 1]) /\ pc = from /\ sleep = 0
          /\ pc' = CASE status' # "OK" -> "clear"
                     [] status' = "OK" /\ state' = busy -> from
                     [] OTHER -> done
          /\ onfail' = "failed"
          /\ sleep' = IF pc' \in {from, done} THEN Least(resp'.poll, SleepCap) ELSE 0
          /\ UNCHANGED <<sent, op, image>>
    <2>1. CASE PollDownload
      BY <1>0, <2>1 DEF PollDownload, check_status, Sends, progress, run
    <2>2. CASE PollManifest
      BY <1>0, <2>2 DEF PollManifest, check_status, Sends, progress, run
    <2> QED BY <2>1, <2>2
  <1>2. [cmd |-> "GETSTATUS", n |-> 1] \in Reads /\ Provided([cmd |-> "GETSTATUS", n |-> 1])
    BY DEF Reads, ReadCommands, Requests, Provided
  <1>3. /\ PoliteRequest /\ Request("GETSTATUS", 1)
        /\ deferred' = IF Succeeded THEN resp'.deferred ELSE "none"
    BY <1>1, <1>2, HostReads
  <1>4. Block' = Block
    BY <1>1 DEF Block
  <1>5. CASE state = "DFU_ERROR"
    <2>1. /\ state' = "DFU_ERROR" /\ status' # "OK" /\ deferred' = "none"
          /\ UNCHANGED poll_timeout
      BY <1>0, <1>3, <1>5, Reported DEF SyncStates, Succeeded, NoResponse, StatusTellsError
    <2>2. pc' = "clear"
      BY <1>1, <2>1
    <2>3. state' \in Place(pc') /\ Held' /\ Waits' /\ PollsWait'
      BY <1>0, <1>5, <2>1, <2>2 DEF Place, Held, Waits, PollsWait, Timed, AppStates
    <2>4. Begins' /\ Confirmed'
      BY <1>0, <1>1, <2>1, <2>2 DEF Begins, Beginning, Confirmed
    <2> QED BY <1>3, <2>2, <2>3, <2>4 DEF OrderInv
  <1>6. CASE state # "DFU_ERROR"
    <2>1. state = busy /\ state \in SyncStates
      BY <1>0, <1>1, <1>6 DEF Place, SyncStates
    <2>2. status' = "OK" /\ Succeeded /\ UNCHANGED <<poll_timeout, flash>>
      BY <1>3, <2>1, StatusAnswer DEF Succeeded
    <2>3. Timed /\ Least(poll_timeout, SleepCap) = 2
      BY <1>0, <2>1, TimesAreLong DEF PollsWait, AppStates, SyncStates
    <2>4. deferred' = resp'.deferred /\ Timed'
      BY <1>3, <2>2, <2>3 DEF Timed
    <2>5. CASE busy = "DNLOAD_SYNC"
      <3>1. /\ UNCHANGED accepted
            /\ \/ /\ state' = "DNLOAD_SYNC" /\ deferred' = "FLASH_WRITE" /\ pc' = from
                  /\ resp'.poll = poll_timeout
               \/ state' = "DNLOAD_IDLE" /\ deferred' = "none" /\ pc' = "check_block"
        BY <1>1, <1>3, <2>1, <2>2, <2>4, <2>5, StatusAnswer
      <3>2. state' = "DNLOAD_SYNC" => sleep' = 2
        BY <1>1, <2>3, <3>1
      <3>3. state' \in Place(pc') /\ Held' /\ Waits' /\ PollsWait'
        BY <1>1, <2>4, <2>5, <3>1, <3>2 DEF Place, Held, Waits, PollsWait
      <3>4. Begins' /\ Confirmed'
        BY <1>0, <1>1, <1>4, <2>1, <2>5, <3>1 DEF Begins, Beginning, Confirmed
      <3> QED BY <1>1, <1>3, <2>5, <3>1, <3>3, <3>4 DEF OrderInv
    <2>6. CASE busy = "MANIFEST_SYNC"
      <3>1. \/ /\ state' = "MANIFEST_SYNC" /\ deferred' = "FLASH_MANIFEST" /\ pc' = from
               /\ resp'.poll = poll_timeout /\ UNCHANGED accepted
            \/ /\ state' = "DFU_IDLE" /\ deferred' = "none" /\ pc' = "check_end"
               /\ flash_finalised = 1
        BY <1>1, <1>3, <2>1, <2>2, <2>4, <2>6, StatusAnswer
      <3>2. state' = "MANIFEST_SYNC" => sleep' = 2
        BY <1>1, <2>3, <3>1
      <3>3. state' \in Place(pc') /\ Held' /\ Waits' /\ PollsWait'
        BY <1>1, <2>4, <2>6, <3>1, <3>2 DEF Place, Held, Waits, PollsWait
      <3>4. Begins' /\ Confirmed'
        BY <1>0, <1>1, <2>1, <2>6, <3>1 DEF Begins, Beginning, Confirmed
      <3> QED BY <1>1, <1>3, <2>1, <2>2, <2>6, <3>1, <3>3, <3>4 DEF OrderInv
    <2> QED BY <1>1, <2>5, <2>6
  <1> QED BY <1>5, <1>6

LEMMA UploadFollows ==
    ASSUME HostInv, upload_file
    PROVE  PoliteRequest /\ OrderInv'
  <1>0. /\ state \in Place(pc) /\ OrderInv /\ ~Lossy /\ PollsWait /\ TypeOK /\ UploadAccounted
    BY AtLabel DEF HostInv
  <1>1. /\ read_command([cmd |-> "UPLOAD", n |-> T]) /\ pc = "upload" /\ sleep = 0
        /\ CASE ~Succeeded                 -> UploadFails
             [] Succeeded /\ Returned = T  -> KeepsBlock
             [] OTHER                      -> EndsFile
        /\ UNCHANGED <<onfail, sent, op, image>>
    BY <1>0 DEF upload_file, run
  <1>2. state \in {"DFU_IDLE", "UPLOAD_IDLE"}
    BY <1>0, <1>1 DEF Place
  <1>3. [cmd |-> "UPLOAD", n |-> T] \in Reads /\ Provided([cmd |-> "UPLOAD", n |-> T])
    BY <1>2, Numbers DEF Reads, ReadCommands, Requests, Provided
  <1>4. /\ PoliteRequest /\ Request("UPLOAD", T)
        /\ deferred' = IF Succeeded THEN resp'.deferred ELSE "none"
    BY <1>1, <1>3, HostReads
  <1>5. /\ deferred' = "none" /\ UNCHANGED poll_timeout
        /\ \/ ~Succeeded /\ state' = "DFU_ERROR"
           \/ Succeeded /\ state' \in {"DFU_IDLE", "UPLOAD_IDLE"}
    BY <1>0, <1>2, <1>4, UploadFirst, UploadNext DEF Succeeded
  <1>6. pc' = "failed" \/ (Succeeded /\ pc' \in {"upload", "idle"})
    BY <1>0, <1>1 DEF UploadFails, KeepsBlock, EndsFile
  <1>7. /\ state' \in Place(pc') /\ pc' \notin InTransfer
        /\ Beginning(pc', onfail') => Beginning(pc, onfail)
    BY <1>5, <1>6 DEF Place, InTransfer, Beginning
  <1>8. PollsWait'
    BY <1>0, <1>2, <1>5 DEF PollsWait, Timed, AppStates
  <1> QED BY <1>0, <1>1, <1>4, <1>5, <1>7, <1>8, OutsideStep

\* The revert is left to the server, and to the wait that comes before the reboot.
LEMMA RevertFollows ==
    ASSUME HostInv, hal_revert_factory
    PROVE  PoliteRequest /\ OrderInv'
  <1>0. state \in Place(pc) /\ ~Lossy /\ PollsWait /\ Begins
    BY AtLabel
  <1>1. /\ hal_write_command("revert", "REVERTFACTORY", 0, "hal_reboot", "hal_reboot")
        /\ UNCHANGED <<op, image, sent, onfail>> /\ pc = "revert" /\ pc' = "hal_reboot"
        /\ sleep' = 2
    BY <1>0
       DEF hal_revert_factory, ThenWaits, progress, run, hal_write_command, Sends, SleepCap
  <1>2. state = "DFU_IDLE"
    BY <1>0, <1>1 DEF Place
  <1>3. /\ [cmd |-> "REVERTFACTORY", n |-> 0] \in Writes
        /\ Provided([cmd |-> "REVERTFACTORY", n |-> 0])
    BY <1>2 DEF Writes, Reads, ReadCommands, Requests, Provided
  <1>4. /\ PoliteRequest /\ Request("REVERTFACTORY", 0)
        /\ deferred' = IF resp'.deferred = "REBOOT_TO_DFU" THEN "none" ELSE resp'.deferred
    BY <1>1, <1>3, HostWrites
  <1>5. /\ UNCHANGED poll_timeout /\ deferred' \in {"none", "REVERT_FACTORY"}
        /\ \/ state' = "DFU_IDLE"
           \/ state' = "DFU_ERROR" /\ deferred' = "none"
    BY <1>2, <1>4, RevertAnswer
  <1>6. state' \in Place(pc') /\ Held' /\ Waits'
    BY <1>1, <1>5 DEF Place, Held, Waits
  <1>7. PollsWait'
    BY <1>0, <1>2, <1>5 DEF PollsWait, Timed, AppStates
  <1>8. Begins' /\ Confirmed'
    BY <1>0, <1>1 DEF Begins, Beginning, Confirmed
  <1> QED BY <1>4, <1>6, <1>7, <1>8 DEF OrderInv

\* Steps of the tool that send nothing, and the passing of time.
LEMMA QuietFollows ==
    ASSUME HostInv, Fails \/ Start \/ HostTick \/ UNCHANGED allVars
    PROVE  UNCHANGED vars /\ OrderInv'
  <1>0. /\ state \in Place(pc) /\ Held /\ Waits /\ PollsWait /\ Begins /\ Confirmed
        /\ OrderInv /\ ControlTypeOK
    BY AtLabel DEF HostInv, OrderInv
  <1>1. ASSUME UNCHANGED vars
        PROVE  /\ UNCHANGED <<state, deferred, accepted>>
               /\ PollsWait'
    BY <1>0, <1>1 DEF vars, core, sub, download, PollsWait, Timed
  <1>2. CASE Fails
    <2>1. /\ UNCHANGED <<vars, op, image, sent, onfail>> /\ pc = "failed" /\ pc' = "idle"
      BY <1>2 DEF Fails, controlVars, progress, run
    <2>2. deferred' = "none"
      BY <1>0, <1>1, <2>1 DEF Held
    <2>3. /\ state' \in Place(pc') /\ pc' \notin InTransfer
          /\ Beginning(pc', onfail') => Beginning(pc, onfail)
      BY <1>0, <1>1, <2>1 DEF Place, InTransfer, Beginning
    <2> QED BY <1>0, <1>1, <2>1, <2>2, <2>3, OutsideStep
  <1>3. CASE Start
    <2>1. /\ UNCHANGED vars /\ pc = "idle" /\ sleep = 0 /\ sent' = 0
          /\ image' \in IF op' = "WRITE_UPGRADE" THEN Images ELSE {0}
          /\ pc' \in {"hal_reboot", "check_app"}
      BY <1>3 DEF Start, controlVars
    <2>2. deferred' = "none"
      BY <1>0, <1>1, <2>1, AtRest
    <2>3. state' \in Place(pc') /\ Held' /\ Waits'
      BY <1>0, <1>1, <2>1, <2>2 DEF Place, Held, Waits
    <2>4. op' = "WRITE_UPGRADE" => image' > 0
      BY <2>1, HostAssumption, Numbers DEF HostAssumption
    <2>5. Begins' /\ Confirmed'
      BY <2>1, <2>4 DEF Begins, Confirmed
    <2> QED BY <1>1, <2>1, <2>3, <2>5 DEF OrderInv
  <1>4. CASE HostTick
    <2>1. /\ UNCHANGED vars /\ UNCHANGED <<pc, onfail, sent, op, image>>
          /\ deferred = "none" \/ elapsed # 1
          /\ elapsed' = 1 /\ sleep' = IF sleep > 0 THEN sleep - 1 ELSE 0
      BY <1>4 DEF HostTick, TimerIsDue, progress, run
    <2>2. Waits'
      BY <1>0, <1>1, <2>1 DEF Waits
    <2>3. state' \in Place(pc') /\ Held'
      BY <1>0, <1>1, <2>1 DEF Held
    <2>4. Begins' /\ Confirmed'
      BY <1>0, <1>1, <2>1 DEF Begins, Confirmed, Block
    <2> QED BY <1>1, <2>1, <2>2, <2>3, <2>4 DEF OrderInv
  <1>5. CASE UNCHANGED allVars
    <2>1. UNCHANGED vars /\ UNCHANGED <<pc, onfail, sent, op, image, sleep, elapsed>>
      BY <1>5 DEF allVars, controlVars, hostVars, progress, run
    <2>2. Waits' /\ state' \in Place(pc') /\ Held'
      BY <1>0, <1>1, <2>1 DEF Waits, Held
    <2>3. Begins' /\ Confirmed'
      BY <1>0, <1>1, <2>1 DEF Begins, Confirmed, Block
    <2> QED BY <1>1, <2>1, <2>2, <2>3 DEF OrderInv
  <1> QED BY <1>2, <1>3, <1>4, <1>5

\* The server gets to what it holds while the tool waits.
LEMMA ServerFollows ==
    ASSUME HostInv, ServerStep
    PROVE  (RunDeferred \/ dfu_reboot) /\ OrderInv'
  <1>0. /\ state \in Place(pc) /\ Held /\ PollsWait /\ Begins /\ Confirmed
    BY AtLabel DEF HostInv, OrderInv
  <1>1. /\ deferred # "none" /\ deferred' = "none"
        /\ IF deferred = "REBOOT"
           THEN dfu_reboot
           ELSE dfu_request_with_arguments([cmd |-> deferred, n |-> 0])
        /\ UNCHANGED <<pc, onfail, sent, op, image>>
    BY DEF ServerStep, TimerExpires, TimerIsDue, dfu_reboot, Boot, hostVars, progress, run
  <1>2. Begins' /\ Waits' /\ Held' /\ Block' = Block
    BY <1>0, <1>1 DEF Begins, Waits, Held, Block
  <1>3. CASE deferred = "REBOOT"
    <2>1. state' = "APP_IDLE" /\ pc = "idle"
      BY <1>0, <1>1, <1>3 DEF dfu_reboot, Boot, Held
    <2>2. state' \in Place(pc') /\ PollsWait' /\ Confirmed'
      BY <1>1, <2>1 DEF Place, PollsWait, AppStates, Confirmed
    <2> QED BY <1>1, <1>2, <1>3, <2>2 DEF OrderInv
  <1>4. CASE deferred \in {"REVERT_FACTORY", "FLASH_CONNECT"}
    <2>1. state = "DFU_IDLE" /\ pc \in {"hal_reboot", "check_dfu"} /\ Request(deferred, 0)
      BY <1>0, <1>1, <1>4 DEF Held, Request
    <2>2. state' \in {"DFU_IDLE", "DFU_ERROR"} /\ UNCHANGED poll_timeout
      BY <1>4, <2>1, IdleAction
    <2>3. state' \in Place(pc') /\ PollsWait' /\ Confirmed'
      BY <1>0, <1>1, <2>1, <2>2 DEF Place, PollsWait, AppStates, Timed, Confirmed
    <2> QED BY <1>1, <1>2, <1>4, <2>3 DEF OrderInv, RunDeferred, Reboots
  <1>5. CASE deferred \in {"FLASH_WRITE", "FLASH_MANIFEST"}
    <2>1. /\ \/ /\ deferred = "FLASH_WRITE" /\ pc = "poll_download"
                /\ state = "DNLOAD_SYNC"
             \/ /\ deferred = "FLASH_MANIFEST" /\ pc = "poll_manifest"
                /\ state = "MANIFEST_SYNC"
          /\ Request(deferred, 0)
      BY <1>0, <1>1, <1>5 DEF Held, Request
    <2>2. state' \in {state, "DFU_ERROR"} /\ UNCHANGED accepted /\ Timed'
      BY <2>1, SyncAction
    <2>3. state' \in Place(pc') /\ PollsWait'
      BY <1>1, <2>1, <2>2 DEF Place, PollsWait
    <2>4. Confirmed'
      BY <1>0, <1>1, <1>2, <2>1, <2>2 DEF Confirmed
    <2> QED BY <1>1, <1>2, <1>5, <2>3, <2>4 DEF OrderInv, RunDeferred, Reboots
  <1> QED BY <1>0, <1>1, <1>3, <1>4, <1>5 DEF Held

LEMMA OrderStep ==
    ASSUME HostInv, [HostNext]_allVars
    PROVE  OrderInv' /\ [PoliteNext]_vars
  <1>1. CASE HostStep
    BY <1>1, ChecksFollow, DescriptorsFollow, ModesFollow, ErrorsFollow, BlocksFollow,
       PollsFollow, UploadFollows, RevertFollows, QuietFollows DEF HostStep, PoliteNext
  <1>2. CASE ServerStep
    BY <1>2, ServerFollows DEF PoliteNext
  <1>3. CASE Start \/ HostTick \/ UNCHANGED allVars
    BY <1>3, QuietFollows
  <1> QED BY <1>1, <1>2, <1>3 DEF HostNext

LEMMA Undisturbed == HostSpec => DisturbedSpec
  <1>1. [HostNext]_allVars => [DisturbedNext]_allVars
    BY DEF DisturbedNext
  <1> QED BY <1>1, PTL DEF HostSpec, DisturbedSpec

LEMMA OrderAlways ==
    ASSUME Lossy = FALSE
    PROVE  HostSpec => []HostInv
  <1>1. HostInit => OrderInv
    BY DEF HostInit, ControlInit, Init, OrderInv, Place, Held, Waits, PollsWait, AppStates,
           Begins, Confirmed
  <1>2. SentInv /\ ControlTypeOK /\ IInv /\ ToolInv /\ OrderInv /\ [HostNext]_allVars
          => OrderInv'
    BY OrderStep DEF HostInv
  <1>3. SentInv /\ ControlTypeOK /\ IInv /\ ToolInv /\ OrderInv => HostInv
    BY DEF HostInv
  <1>4. HostSpec => [](SentInv /\ ControlTypeOK /\ IInv /\ ToolInv)
    BY Undisturbed, SentAlways, ToolAlways, HostDevice, Inductive, PTL DEF ImplementsDevice
  <1> QED BY <1>1, <1>2, <1>3, <1>4, PTL DEF HostSpec

\* For every image, page and block size and every flash failure: undisturbed, the
\* tool and its server take only steps of a host that follows the protocol.
THEOREM ToolFollows ==
    ASSUME Lossy = FALSE
    PROVE  HostSpec => FollowsProtocol
  <1>1. HostInit => Init
    BY DEF HostInit, ControlInit
  <1>2. HostInv /\ [HostNext]_allVars => [PoliteNext]_vars
    BY OrderStep
  <1> QED BY <1>1, <1>2, OrderAlways, PTL DEF HostSpec, FollowsProtocol, PoliteSpec

-----------------------------------------------------------------------------
(* What is reported written is stored.                                     *)

Stored == pc = "check_end" => flash.slot = "whole" /\ flash.size = image

\* Only the poll that ends the manifestation leads to the last check.
LEMMA EndIsPolled ==
    ASSUME HostInv, HostNext, pc' = "check_end"
    PROVE  PollManifest \/ PollDownload \/ (pc = "check_end" /\ UNCHANGED vars)
  <1>0. OrderInv /\ HostTypeOK
    BY AtLabel DEF HostInv
  <1>1. ~(CheckApp \/ CheckDetach \/ CheckDfu \/ CheckBlock \/ CheckEnd)
    BY CheckLeads DEF CheckApp, CheckDetach, CheckDfu, CheckBlock, CheckEnd
  <1>2. ~(FetchDescriptor \/ Detach \/ BusReset \/ Abort \/ InDfu \/ ReadError \/ SendClear
          \/ SendBlock \/ SendEnd \/ hal_revert_factory \/ hal_reboot)
    BY <1>0, WriteLeads, ReadLeads
       DEF FetchDescriptor, Detach, BusReset, Abort, InDfu, ReadError, SendClear, SendBlock,
           SendEnd, hal_revert_factory, hal_reboot, Proceeds, HostTypeOK
  <1>3. ~(Fails \/ Start)
    BY DEF Fails, Start
  <1>4. ~upload_file
    BY DEF upload_file, UploadFails, KeepsBlock, EndsFile
  <1>5. ~ServerStep
    BY <1>0 DEF ServerStep, TimerExpires, TimerIsDue, hostVars, OrderInv, Held
  <1>6. CASE HostTick
    BY <1>6 DEF HostTick
  <1> QED BY <1>1, <1>2, <1>3, <1>4, <1>5, <1>6 DEF HostNext, HostStep

LEMMA StoredStep ==
    ASSUME LossIsFound, HostInv, PoliteInv, Stored, [HostNext]_allVars
    PROVE  Stored'
  <1>1. SUFFICES ASSUME pc' = "check_end"
                 PROVE  flash'.slot = "whole" /\ flash'.size = image'
    BY DEF Stored
  <1>2. CASE PollManifest \/ PollDownload
    <2>1. flash_finalised = 1 /\ state = "MANIFEST_SYNC" /\ UNCHANGED flash
      BY <1>1, <1>2, PollsFollow
    <2>2. pc \in {"poll_download", "poll_manifest"} /\ sleep = 0 /\ UNCHANGED image
      BY <1>2 DEF PollManifest, PollDownload, check_status, Sends, run
    <2>3. pc = "poll_manifest" /\ accepted = image
      BY <2>1, <2>2, AtLabel DEF Place, Confirmed
    <2>4. deferred = "none"
      BY <2>2, AtRest DEF HostInv
    <2> QED BY <2>1, <2>2, <2>3, <2>4 DEF PoliteInv, FinalisedWhole, Rebooting, Reboots
  <1>3. CASE pc = "check_end" /\ UNCHANGED vars /\ UNCHANGED image
    BY <1>3 DEF Stored, vars
  <1>4. CASE UNCHANGED allVars
    BY <1>1, <1>3, <1>4 DEF allVars, controlVars, hostVars, run
  <1>5. CASE HostNext
    <2>1. pc = "check_end" => UNCHANGED image \/ PollManifest \/ PollDownload
      BY <1>1, <1>5, CheckLeads, WriteLeads, ReadLeads
         DEF HostNext, HostStep, Start, CheckApp, CheckDetach, CheckDfu, CheckBlock, CheckEnd,
             FetchDescriptor, Detach, BusReset, Abort, InDfu, ReadError, SendClear, SendBlock,
             SendEnd, hal_revert_factory, hal_reboot, Fails, upload_file, ServerStep, hostVars,
             HostTick, run
    <2> QED BY <1>1, <1>2, <1>3, <1>5, <2>1, EndIsPolled
  <1> QED BY <1>4, <1>5

\* For every image, page and block size: when no page write fails, or no torn image is
\* taken for a boot image, the image that an undisturbed tool reports written is in the
\* slot, whole.
THEOREM SuccessIsStored ==
    ASSUME Lossy = FALSE, LossIsFound
    PROVE  HostSpec => SuccessMeansStored
  <1>1. HostInit => Stored
    BY DEF HostInit, Stored
  <1>2. LossIsFound
    OBVIOUS
  <1>3. HostInv /\ PoliteInv /\ Stored /\ [HostNext]_allVars => Stored'
    BY <1>2, StoredStep
  <1>4. Stored => [result' = "success" /\ pc = "check_end"
                    => flash.slot = "whole" /\ flash.size = image]_allVars
    BY DEF Stored
  <1>5. HostSpec => []PoliteInv
    BY ToolFollows, PoliteInductive, PTL DEF FollowsProtocol
  <1> QED BY <1>1, <1>3, <1>4, <1>5, OrderAlways, PTL DEF HostSpec, SuccessMeansStored

-----------------------------------------------------------------------------
(* A flash that works: no call of the library fails.                       *)

LEMMA NoFault ==
    ASSUME Faults = {}, NEW kind, NEW r, NEW f
    PROVE  Fault(kind, r, f) = {}
  BY DEF Fault

LEMMA ConnectWorks ==
    ASSUME Faults = {}, NEW f
    PROVE  /\ \A c \in flash_init(f) : c.ret = "OK"
           /\ \A c \in ConnectIfNeeded : c.ret = "OK"
  <1>1. \A g : \A c \in flash_init(g) : c.ret = "OK"
    <2> SUFFICES ASSUME NEW g, NEW c \in flash_init(g)
                 PROVE  c.ret = "OK"
      OBVIOUS
    <2>1. c \in { Result("OK", h) : h \in Connected(g) }
      BY NoFault DEF flash_init, flash_enable_ports_fails
    <2> QED BY <2>1 DEF Result
  <1> QED BY <1>1 DEF ConnectIfNeeded, Result

LEMMA EraseWorks ==
    ASSUME Faults = {}, NEW f
    PROVE  /\ \A e \in flash_erase_sector_async(f) : e.ret \in {"OK", "BUSY"}
           /\ \A e \in sub_sm_erase_sectors(f) : e.ret \in {"OK", "NOTDONE"}
  <1>1. \A e \in flash_erase_sector_async(f) : e.ret \in {"OK", "BUSY"}
    BY NoFault DEF flash_erase_sector_async, Result
  <1>2. \A e \in sub_sm_erase_sectors(f) : e.ret \in {"OK", "NOTDONE"}
    BY NoFault DEF sub_sm_erase_sectors, Result
  <1> QED BY <1>1, <1>2

\* An image whose bytes are all in an erased slot is found.
LEMMA FinaliseWorks ==
    ASSUME Faults = {}, NEW f \in flash_session, f.erased = 1, NEW bytes,
           NEW e \in flash_finalise_write(f, bytes, bytes)
    PROVE  e.ret = "OK"
  <1> DEFINE g == [f EXCEPT !.erased = 0, !.slot = "whole", !.size = bytes]
  <1>1. Closed(f, bytes, bytes) = g /\ g.slot = "whole"
    BY DEF Closed, flash_session
  <1>2. e \in LookUp(g)
    BY <1>1, NoFault DEF flash_finalise_write
  <1> HIDE DEF g
  <1>3. fl_getNextBootImage(g) = {0}
    BY <1>1 DEF fl_getNextBootImage
  <1> QED BY <1>2, <1>3 DEF LookUp, Result

\* The sub state machine gets on: a page that it writes is there, and the slot ready.
LEMMA DnloadWorks ==
    ASSUME Faults = {}, TypeOK, sub_state = "WRITING" => Ready(flash),
           sub_state # "SYNC" => fifo > 0,
           NEW st, sub_sm_process_dnload(st)
    PROVE  /\ st = "OK"
           /\ sub_state' = "WRITING" => Ready(flash')
           /\ \/ fifo' = fifo /\ sub_state' # "WRITING"
              \/ fifo' = fifo - PageBytes /\ sub_state # "SYNC"
           /\ sub_state' = "SYNC" => sub_state = "SYNC"
  <1>0. /\ sub_state' = "WRITING" => Ready(flash')
    BY DnloadWritesErased
  <1>1. sub_state # "SYNC" => PageBytes # 0
    BY DeviceNumbers DEF PageBytes, Least, TypeOK
  <1>2. CASE DnloadSync(st)
    <2>1. PICK c \in ConnectIfNeeded :
            IF c.ret # "OK"
            THEN st = "errWRITE"
            ELSE \E e \in flash_erase_sector_async(c.flash) :
                   IF e.ret \in {"OK", "BUSY"}
                   THEN st = "OK" /\ sub_state' = "ERASING"
                   ELSE st = "errERASE"
      BY <1>2 DEF DnloadSync, ConnectIfNeeded
    <2>2. st = "OK" /\ sub_state' = "ERASING"
      BY <2>1, ConnectWorks, EraseWorks
    <2> QED BY <1>0, <1>2, <2>2 DEF DnloadSync
  <1>3. CASE DnloadErasing(st)
    <2>1. PICK e \in sub_sm_erase_sectors(flash) :
            IF e.ret = "OK"
            THEN \E w \in sub_sm_flash_write_page(e.flash) :
                   st = w.ret /\ DrainPage(w) /\ sub_state' = "WRITING"
            ELSE /\ st = IF e.ret = "NOTDONE" THEN "OK" ELSE "errERASE"
                 /\ UNCHANGED <<sub_state, fifo>>
      BY <1>3 DEF DnloadErasing
    <2>2. sub_state = "ERASING" /\ e.ret \in {"OK", "NOTDONE"} /\ e.flash \in flash_session
      BY <1>3, EraseWorks, EraseSectors DEF DnloadErasing, TypeOK
    <2>3. CASE e.ret = "OK"
      <3>1. Ready(e.flash)
        BY <2>3, EraseMakesReady DEF TypeOK
      <3> QED BY <1>0, <1>1, <2>1, <2>2, <2>3, <3>1, WriteKeepsReady DEF DrainPage
    <2>4. CASE e.ret = "NOTDONE"
      BY <1>0, <2>1, <2>2, <2>4
    <2> QED BY <2>2, <2>3, <2>4
  <1>4. CASE DnloadWriting(st)
    <2>1. PICK w \in sub_sm_flash_write_page(flash) : st = w.ret /\ DrainPage(w)
      BY <1>4 DEF DnloadWriting
    <2>2. sub_state = "WRITING" /\ sub_state' = "WRITING"
      BY <1>4 DEF DnloadWriting
    <2> QED BY <1>0, <1>1, <2>1, <2>2, WriteKeepsReady DEF DrainPage, TypeOK
  <1> QED BY <1>2, <1>3, <1>4 DEF sub_sm_process_dnload

\* The last page goes through, and the image with it.
LEMMA LastPageWorks ==
    ASSUME Faults = {}, TypeOK, Ready(flash), fifo < P, programmed + fifo = accepted,
           NEW st, NEW finalised, LastPage(st, finalised)
    PROVE  /\ st = "OK" /\ finalised = 1 /\ fifo' = 0 /\ sub_state' = "SYNC"
           /\ programmed' = accepted
  <1>1. PICK w \in sub_sm_flash_write_page(flash) :
          /\ DrainPage(w)
          /\ IF fifo = PageBytes
             THEN \E e \in flash_finalise_write(w.flash, ProgrammedAfter(w), accepted) :
                    /\ finalised = IF e.ret = "OK" THEN 1 ELSE 0
                    /\ st = IF e.ret = "OK" THEN "OK" ELSE "errPROG"
             ELSE TRUE
    BY DEF LastPage
  <1>2. fifo \in Nat /\ programmed \in Nat /\ PageBytes = fifo
    BY DeviceNumbers DEF TypeOK, PageBytes, Least
  <1>3. Ready(w.flash) /\ w.flash \in flash_session /\ (PageBytes # 0 => w.ret = "OK")
    BY <1>1, WriteKeepsReady DEF TypeOK
  <1>4. ProgrammedAfter(w) = accepted
    BY <1>2, <1>3 DEF ProgrammedAfter
  <1>5. fifo' = 0 /\ programmed' = accepted
    BY <1>1, <1>2, <1>4 DEF DrainPage
  <1>6. PICK e \in flash_finalise_write(w.flash, accepted, accepted) :
          /\ finalised = IF e.ret = "OK" THEN 1 ELSE 0
          /\ st = IF e.ret = "OK" THEN "OK" ELSE "errPROG"
    BY <1>1, <1>2, <1>4
  <1>7. e.ret = "OK"
    BY <1>3, <1>6, FinaliseWorks DEF Ready
  <1> QED BY <1>5, <1>6, <1>7 DEF LastPage

-----------------------------------------------------------------------------
(* What the device answers, and what that leaves alone.                    *)

LEMMA ModeAnswer ==
    ASSUME \/ state = "APP_DETACH" /\ Request("BUS_RESET", 0)
           \/ state = "DFU_ERROR" /\ Request("CLRSTATUS", 0)
    PROVE  state' = "DFU_IDLE" /\ sub_state' = "SYNC"
  BY DEF Request, dfu_request_with_arguments, HandleByState, LeavesByCommonCode, SyncStates,
         AppStates, state_detach, ClearError, normal_transition, sub_sm_clear

LEMMA AbortKeeps ==
    ASSUME state \in {"DFU_IDLE", "UPLOAD_IDLE"}, Request("ABORT", 0)
    PROVE  UNCHANGED sub_state
  BY DEF Request, dfu_request_with_arguments, HandleByState, LeavesByCommonCode, SyncStates,
         state_dfu_idle, MoveTo, Stay, sub

\* A block that has room is taken.
LEMMA BlockTaken ==
    ASSUME NEW n \in 1 .. T, state \in {"DFU_IDLE", "DNLOAD_IDLE"}, Request("DNLOAD", n),
           state = "DNLOAD_IDLE" => FifoTakes(n)
    PROVE  /\ state' = "DNLOAD_SYNC" /\ resp'.status = "SUCCESS"
           /\ UNCHANGED <<sub_state, flash>>
           /\ state = "DFU_IDLE" => fifo' = n /\ accepted' = n
           /\ state = "DNLOAD_IDLE" => fifo' = fifo + n /\ accepted' = accepted + n
  <1>0. n # 0
    BY DeviceNumbers
  <1>1. CASE state = "DFU_IDLE"
    <2>1. action_entry_dnload(n)
      BY <1>1
         DEF Request, dfu_request_with_arguments, HandleByState, LeavesByCommonCode, SyncStates
    <2> QED BY <1>0, <1>1, <2>1 DEF action_entry_dnload, normal_transition, Respond, sub
  <1>2. CASE state = "DNLOAD_IDLE"
    <2>1. state_download_idle(n)
      BY <1>2
         DEF Request, dfu_request_with_arguments, HandleByState, LeavesByCommonCode, SyncStates
    <2> QED BY <1>0, <1>2, <2>1 DEF state_download_idle, normal_transition, Respond, sub
  <1> QED BY <1>1, <1>2

LEMMA EndKeeps ==
    ASSUME TypeOK, state = "DNLOAD_IDLE", Request("DNLOAD", 0)
    PROVE  UNCHANGED <<sub_state, flash, fifo, accepted, programmed>>
  <1>1. state_download_idle(0)
    BY DEF Request, dfu_request_with_arguments, HandleByState, LeavesByCommonCode, SyncStates
  <1>2. FifoTakes(0)
    BY DeviceNumbers DEF FifoTakes, TypeOK
  <1> QED BY <1>1, <1>2 DEF state_download_idle, MoveTo, buffer, sub, download

\* A poll changes nothing but the state; it is the end of a download that is done, and
\* asks for the next step of one that is not.
LEMMA StatusKeeps ==
    ASSUME state \in SyncStates, Request("GETSTATUS", 1)
    PROVE  /\ UNCHANGED <<sub_state, flash, fifo>>
           /\ state' # "DFU_IDLE" => UNCHANGED <<flash_finalised, accepted, programmed>>
           /\ state = "MANIFEST_SYNC" =>
                IF DownloadDone THEN state' = "DFU_IDLE" ELSE state' = "MANIFEST_SYNC"
  <1>1. CASE state = "DNLOAD_SYNC"
    <2>1. state_dnload_sync([cmd |-> "GETSTATUS", n |-> 1])
      BY <1>1 DEF Request, dfu_request_with_arguments, HandleByState, SyncStates
    <2> QED BY <1>1, <2>1 DEF state_dnload_sync, normal_transition, buffer, sub, download
  <1>2. CASE state = "MANIFEST_SYNC"
    <2>1. state_manifest_sync([cmd |-> "GETSTATUS", n |-> 1])
      BY <1>2 DEF Request, dfu_request_with_arguments, HandleByState, SyncStates
    <2> QED BY <1>2, <2>1 DEF state_manifest_sync, normal_transition, buffer, sub, download
  <1> QED BY <1>1, <1>2 DEF SyncStates

LEMMA RevertWorks ==
    ASSUME Faults = {}, state = "DFU_IDLE", Request("REVERTFACTORY", 0)
    PROVE  resp'.status = "SUCCESS" /\ UNCHANGED <<state, sub_state>>
  <1>1. state_dfu_idle([cmd |-> "REVERTFACTORY", n |-> 0])
    BY DEF Request, dfu_request_with_arguments, HandleByState, LeavesByCommonCode, SyncStates
  <1>2. action_revert_factory \/ Stay("SUCCESS", "REVERT_FACTORY")
    BY <1>1 DEF state_dfu_idle
  <1> QED BY <1>2, ConnectWorks DEF action_revert_factory, Stay, Respond, core, sub

\* The action that is left to the server in dfuIDLE.
LEMMA IdleActionWorks ==
    ASSUME Faults = {}, state = "DFU_IDLE", NEW c \in {"FLASH_CONNECT", "REVERT_FACTORY"},
           Request(c, 0)
    PROVE  UNCHANGED sub_state /\ (c = "FLASH_CONNECT" => state' = "DFU_IDLE")
  <1>1. state_dfu_idle([cmd |-> c, n |-> 0])
    BY DEF Request, dfu_request_with_arguments, HandleByState, LeavesByCommonCode, SyncStates
  <1>2. CASE c = "FLASH_CONNECT"
    <2>1. PICK f \in flash_init(flash) :
            IF f.ret = "OK" THEN UNCHANGED core ELSE error_condition("errTARGET")
      BY <1>1, <1>2 DEF state_dfu_idle
    <2>2. UNCHANGED sub_state
      BY <1>1, <1>2 DEF state_dfu_idle, sub
    <2> QED BY <2>1, <2>2, ConnectWorks DEF core
  <1>3. CASE c = "REVERT_FACTORY"
    BY <1>1, <1>3 DEF state_dfu_idle, action_revert_factory, Stall, Fail, sub
  <1> QED BY <1>2, <1>3

LEMMA UploadWorks ==
    ASSUME Faults = {}, TypeOK, UploadAccounted, state \in {"DFU_IDLE", "UPLOAD_IDLE"},
           state = "UPLOAD_IDLE" => fifo = 0 \/ T <= fifo,
           Request("UPLOAD", T)
    PROVE  resp'.status = "SUCCESS"
  <1>0. /\ T # 0 /\ T <= P /\ fifo \in Nat /\ delivered \in Nat /\ read_length \in Int
        /\ T \in Nat /\ P \in Nat
    BY DeviceNumbers, FlashAssumption DEF TypeOK, FlashAssumption
  <1>1. CASE state = "DFU_IDLE"
    <2>1. action_entry_upload(T)
      BY <1>1
         DEF Request, dfu_request_with_arguments, HandleByState, LeavesByCommonCode, SyncStates
    <2>2. PICK c \in ConnectIfNeeded : UploadFrom(c.flash, T)
      BY <2>1, ConnectWorks DEF action_entry_upload
    <2>3. PICK s \in flash_start_read(c.flash) :
            CASE s.ret = "OK" -> FirstBlock(s.flash, T)
              [] s.ret = "READ_NO_IMAGE" -> Respond("SUCCESS", "none")
              [] OTHER -> Respond("ERROR", "none")
      BY <2>2 DEF UploadFrom
    <2>4. /\ s.ret = "OK" => s.flash.upgrade_image_valid = 1
          /\ s.ret \in {"OK", "READ_NO_IMAGE"}
      BY NoFault DEF flash_start_read, Result
    <2>5. CASE s.ret = "OK"
      <3>1. PICK u \in upload_block(s.flash, 0, T) :
              u.ret = "SUCCESS" => Respond("SUCCESS", "none")
        BY <2>3, <2>5 DEF FirstBlock
      <3>2. flash_read_page(s.flash) = {Result("OK", s.flash)}
        BY <2>4, <2>5, NoFault DEF flash_read_page
      <3>3. u.ret = "SUCCESS"
        BY <1>0, <3>2 DEF upload_block, Result
      <3> QED BY <3>1, <3>3 DEF Respond
    <2>6. CASE s.ret = "READ_NO_IMAGE"
      BY <2>3, <2>6 DEF Respond
    <2> QED BY <2>4, <2>5, <2>6
  <1>2. CASE state = "UPLOAD_IDLE"
    <2>1. state_upload_idle(T)
      BY <1>2
         DEF Request, dfu_request_with_arguments, HandleByState, LeavesByCommonCode, SyncStates
    <2>2. CASE read_length <= 0
      BY <2>1, <2>2 DEF state_upload_idle, MoveTo, Respond
    <2>3. CASE read_length > 0
      <3>1. NextBlock(T)
        BY <1>0, <2>1, <2>3 DEF state_upload_idle
      <3>2. PICK u \in upload_block(flash, fifo, T) :
              u.ret = "SUCCESS" => Respond("SUCCESS", "none")
        BY <3>1 DEF NextBlock
      <3>3. flash.upgrade_image_valid = 1
        BY <1>0, <1>2, <2>3 DEF UploadAccounted
      <3>4. flash_read_page(flash) = {Result("OK", flash)}
        BY <3>3, NoFault DEF flash_read_page
      <3>5. u.ret = "SUCCESS"
        BY <1>0, <1>2, <3>4 DEF upload_block, Result
      <3> QED BY <3>2, <3>5 DEF Respond
    <2> QED BY <1>0, <2>2, <2>3
  <1> QED BY <1>1, <1>2

\* An upload leaves the sub state machine alone and the device in one of two states.
LEMMA UploadKeeps ==
    ASSUME TypeOK, UploadAccounted, state \in {"DFU_IDLE", "UPLOAD_IDLE"},
           Request("UPLOAD", T), resp'.status = "SUCCESS"
    PROVE  /\ state' \in {"DFU_IDLE", "UPLOAD_IDLE"} /\ UNCHANGED sub_state
           /\ resp'.deferred = "none"
  BY UploadFirst, UploadNext

\* The write that is left to the server while blocks come in, and what it leaves.
LEMMA WriteWorks ==
    ASSUME Faults = {}, IInv, state = "DNLOAD_SYNC", deferred = "FLASH_WRITE",
           sub_state = "WRITING" => Ready(flash), fifo > 0 \/ sub_state = "WRITING",
           Request("FLASH_WRITE", 0)
    PROVE  /\ state' = "DNLOAD_SYNC" /\ UNCHANGED accepted
           /\ sub_state' = "WRITING" => Ready(flash')
           /\ sub_state' # "WRITING" => fifo' > 0
           /\ fifo' \in {0, fifo}
  <1>1. state_dnload_sync([cmd |-> "FLASH_WRITE", n |-> 0])
    BY DEF Request, dfu_request_with_arguments, HandleByState, SyncStates
  <1>2. PICK st \in dfu_status : sub_sm_process_dnload(st) /\ AfterSubSm(st)
    BY <1>1 DEF state_dnload_sync
  <1>3. UNCHANGED accepted
    BY <1>1 DEF state_dnload_sync
  <1>4. TypeOK /\ (sub_state = "SYNC" \/ fifo = P) /\ P > 0 /\ P \in Nat
    BY DeviceNumbers DEF IInv, DeviceInv, HeldWrite
  <1>5. sub_state # "SYNC" => fifo > 0
    BY <1>4
  <1>6. /\ st = "OK"
        /\ sub_state' = "WRITING" => Ready(flash')
        /\ \/ fifo' = fifo /\ sub_state' # "WRITING"
           \/ fifo' = fifo - PageBytes /\ sub_state # "SYNC"
        /\ sub_state' = "SYNC" => sub_state = "SYNC"
    BY <1>2, <1>4, <1>5, DnloadWorks
  <1>7. sub_state # "SYNC" => PageBytes = fifo
    BY <1>4 DEF PageBytes, Least
  <1>8. state' = "DNLOAD_SYNC"
    BY <1>2, <1>6 DEF AfterSubSm, core
  <1>9. sub_state' # "WRITING" => fifo' = fifo /\ sub_state # "WRITING"
    BY <1>2, <1>6 DEF sub_sm_process_dnload, DnloadSync, DnloadErasing, DnloadWriting
  <1> QED BY <1>3, <1>4, <1>6, <1>7, <1>8, <1>9 DEF TypeOK

\* The end of the download that is left to it.
LEMMA ManifestWorks ==
    ASSUME Faults = {}, IInv, state = "MANIFEST_SYNC", programmed + fifo = accepted,
           sub_state = "WRITING" => Ready(flash), sub_state # "WRITING" => fifo > 0,
           Request("FLASH_MANIFEST", 0)
    PROVE  /\ state' = "MANIFEST_SYNC" /\ UNCHANGED accepted
           /\ programmed' + fifo' = accepted'
           /\ sub_state' = "WRITING" => Ready(flash')
           /\ sub_state' # "WRITING" => fifo' > 0 \/ DownloadDone'
  <1>1. state_manifest_sync([cmd |-> "FLASH_MANIFEST", n |-> 0])
    BY DEF Request, dfu_request_with_arguments, HandleByState, SyncStates
  <1>2. PICK st \in dfu_status, finalised \in {0, 1} :
          /\ sub_sm_process_manifest(st, finalised) /\ AfterSubSm(st)
          /\ flash_finalised' = IF st = "OK" THEN finalised ELSE flash_finalised
    BY <1>1 DEF state_manifest_sync
  <1>3. UNCHANGED accepted
    BY <1>1 DEF state_manifest_sync
  <1>4. /\ TypeOK /\ fifo < P /\ programmed + fifo <= MaxImage
        /\ fifo \in Nat /\ P \in Nat /\ programmed \in Nat /\ accepted \in Nat
    BY DeviceNumbers DEF IInv, DeviceInv, NeverAWholePageLeft, TypeOK
  <1>5. CASE sub_state = "WRITING"
    <2>1. LastPage(st, finalised)
      BY <1>2, <1>5 DEF sub_sm_process_manifest
    <2>2. /\ st = "OK" /\ finalised = 1 /\ fifo' = 0 /\ sub_state' = "SYNC"
          /\ programmed' = accepted
      BY <1>4, <1>5, <2>1, LastPageWorks
    <2>3. DownloadDone'
      BY <1>2, <2>2 DEF DownloadDone
    <2>4. state' = "MANIFEST_SYNC"
      BY <1>2, <2>2 DEF AfterSubSm, core
    <2> QED BY <1>3, <1>4, <2>2, <2>3, <2>4
  <1>6. CASE sub_state # "WRITING"
    <2>1. sub_sm_process_dnload(st)
      BY <1>2, <1>6 DEF sub_sm_process_manifest
    <2>2. /\ st = "OK"
          /\ sub_state' = "WRITING" => Ready(flash')
      BY <1>4, <1>6, <2>1, DnloadWorks
    <2>3. programmed' + fifo' = accepted
      BY <1>4, <2>1, <2>2, ProcessDnload
    <2>4. sub_state' # "WRITING" => fifo' = fifo
      BY <1>6, <2>1 DEF sub_sm_process_dnload, DnloadSync, DnloadErasing, DnloadWriting
    <2>5. state' = "MANIFEST_SYNC"
      BY <1>2, <2>2 DEF AfterSubSm, core
    <2> QED BY <1>3, <1>6, <2>2, <2>3, <2>4, <2>5
  <1> QED BY <1>5, <1>6

-----------------------------------------------------------------------------
(* A run of the tool that nothing disturbs.                                *)

\* What the device of a run that was not disturbed can do: what it has to write is
\* there, and goes to a slot that is ready; the next block has room.
Able ==
    /\ pc # "check_end" => Reset
    /\ state \in Loading =>
         /\ sub_state = "WRITING" => Ready(flash)
         /\ sub_state # "WRITING" => fifo > 0 \/ (state = "MANIFEST_SYNC" /\ DownloadDone)
         /\ accepted < image => Multiple(fifo, T)
    /\ state = "MANIFEST_SYNC" => programmed + fifo = accepted
    /\ deferred = "FLASH_MANIFEST" => ~DownloadDone

\* Where such a run is: on its way to a success.
OnCourse ==
    /\ pc # "failed"
    /\ pc \in {"read_error", "clear"} => onfail = "abort"
    /\ pc = "check_dfu" => state = "DFU_IDLE"
    /\ pc = "poll_download" => state = "DNLOAD_SYNC"
    /\ pc = "poll_manifest" => state = "MANIFEST_SYNC"

Sound == Able /\ OnCourse

\* The flash works and a page is whole blocks.
Working == Faults = {} /\ Multiple(P, T)

\* How a run goes on, or ends: with a success, and no other way.
GoesOn == failures' = 0 \/ (UNCHANGED failures /\ Sound')

\* A step that leaves the device as it is.
LEMMA DeviceSame ==
    ASSUME HostInv, Sound, pc # "check_end",
           UNCHANGED <<state, sub_state, flash, fifo, accepted, programmed, flash_finalised>>,
           deferred' = "none" \/ deferred' = deferred,
           UNCHANGED image \/ state \notin Loading, OnCourse'
    PROVE  Sound'
  BY DEF Sound, Able, Reset, DownloadDone, Ready

\* One that leaves it between transfers.
LEMMA DeviceIdle ==
    ASSUME state' \notin Loading, state' \in {"DFU_IDLE", "UPLOAD_IDLE"} => sub_state' = "SYNC",
           deferred' # "FLASH_MANIFEST", OnCourse'
    PROVE  Sound'
  BY DEF Sound, Able, Reset, Loading

LEMMA ChecksGoOn ==
    ASSUME HostInv, Sound,
           CheckApp \/ CheckDetach \/ CheckDfu \/ CheckBlock \/ CheckEnd
    PROVE  GoesOn
  <1>1. state \in Place(pc) /\ StatusTellsError
    BY AtLabel
  <1> DEFINE Looks(from, expected, ok, bad) ==
        /\ pc = from /\ pc' = Checked(expected, ok, bad) /\ onfail' = bad
        /\ UNCHANGED <<state, sub_state, flash, fifo, accepted, programmed, flash_finalised>>
        /\ deferred' = "none" /\ UNCHANGED image
  <1>2. ASSUME NEW from, NEW expected, NEW ok, NEW bad, check_state(from, expected, ok, bad)
        PROVE  Looks(from, expected, ok, bad)
    <2>1. read_command([cmd |-> "GETSTATE", n |-> 1])
      BY <1>2 DEF check_state, Sends, HostInv
    <2>2. /\ UNCHANGED <<state, sub_state, flash, fifo, accepted, programmed, flash_finalised>>
          /\ deferred' = "none"
      BY <2>1, ReportDrops
    <2>3. /\ pc = from /\ pc' = Checked(expected, ok, bad) /\ onfail' = bad
          /\ UNCHANGED image
      BY <1>2, HostChecks
    <2> QED BY <2>2, <2>3
  <1>3. CASE CheckApp
    <2>1. Looks("check_app", "APP_IDLE", "descriptor", "abort") /\ failures' = failures
      BY <1>2, <1>3 DEF CheckApp, outcome
    <2>2. OnCourse'
      BY <2>1 DEF Checked, OnCourse
    <2> QED BY <2>1, <2>2, DeviceSame DEF GoesOn
  <1>4. CASE CheckDetach
    <2>1. Looks("check_detach", "APP_DETACH", "bus_reset", "failed") /\ failures' = failures
      BY <1>2, <1>4 DEF CheckDetach, outcome
    <2>2. OnCourse'
      BY <1>1, <2>1 DEF Checked, OnCourse, Place
    <2> QED BY <2>1, <2>2, DeviceSame DEF GoesOn
  <1>5. CASE CheckDfu
    <2>1. Looks("check_dfu", "DFU_IDLE", "in_dfu", "failed") /\ failures' = failures
      BY <1>2, <1>5 DEF CheckDfu, outcome
    <2>2. OnCourse'
      BY <2>1 DEF Checked, OnCourse, Sound
    <2> QED BY <2>1, <2>2, DeviceSame DEF GoesOn
  <1>6. CASE CheckBlock
    <2>1. /\ Looks("check_block", "DNLOAD_IDLE",
                   IF sent + Block < image THEN "download" ELSE "end", "failed")
          /\ failures' = failures
      BY <1>2, <1>6 DEF CheckBlock, outcome
    <2>2. OnCourse'
      BY <1>1, <2>1 DEF Checked, OnCourse, Place
    <2> QED BY <2>1, <2>2, DeviceSame DEF GoesOn
  <1>7. CASE CheckEnd
    <2>1. Looks("check_end", "DFU_IDLE", "hal_reboot", "failed")
      BY <1>2, <1>7 DEF CheckEnd
    <2>2. pc' = "hal_reboot"
      BY <1>1, <2>1 DEF Checked, Place
    <2> QED BY <1>7, <2>2 DEF CheckEnd, Reports, GoesOn
  <1> QED BY <1>3, <1>4, <1>5, <1>6, <1>7

LEMMA DescriptorsGoOn ==
    ASSUME HostInv, Sound, FetchDescriptor \/ InDfu
    PROVE  GoesOn
  <1>1. PICK from \in {"descriptor", "in_dfu"}, ok \in {"detach", Proceeds} :
          /\ hal_read_command(from, "GET_DESCRIPTOR", 1, ok, ok)
          /\ UNCHANGED <<onfail, run>> /\ (failures' = 0 \/ UNCHANGED failures)
    BY DEF FetchDescriptor, InDfu, AtOnce, outcome, Reports
  <1>2. /\ read_command([cmd |-> "GET_DESCRIPTOR", n |-> 1])
        /\ pc = from /\ pc' = ok
    BY <1>1, HostDescribes DEF hal_read_command, Sends, HostInv
  <1>3. /\ UNCHANGED <<state, sub_state, flash, fifo, accepted, programmed, flash_finalised>>
        /\ deferred' = "none" /\ UNCHANGED image
    BY <1>1, <1>2, ReportDrops DEF run
  <1>4. OnCourse' /\ pc # "check_end"
    BY <1>2 DEF OnCourse, Proceeds
  <1> QED BY <1>1, <1>3, <1>4, DeviceSame DEF GoesOn

LEMMA ModesGoOn ==
    ASSUME HostInv, Sound, Detach \/ BusReset \/ Abort \/ hal_reboot
    PROVE  GoesOn
  <1>0. state \in Place(pc)
    BY AtLabel
  <1>1. CASE Detach
    <2>1. /\ hal_write_command("detach", "DETACH", 0, "check_detach", "failed")
          /\ pc = "detach" /\ UNCHANGED failures
      BY <1>1 DEF Detach, AtOnce, outcome, hal_write_command, Sends
    <2>2. state = "APP_IDLE"
      BY <1>0, <2>1 DEF Place
    <2>3. [cmd |-> "DETACH", n |-> 0] \in Writes /\ Provided([cmd |-> "DETACH", n |-> 0])
      BY <2>2 DEF Writes, Reads, ReadCommands, Requests, Provided
    <2>4. /\ Request("DETACH", 0) /\ pc' = IF Succeeded THEN "check_detach" ELSE "failed"
          /\ deferred' = IF resp'.deferred = "REBOOT_TO_DFU" THEN "none" ELSE resp'.deferred
      BY <2>1, <2>3, HostWrites
    <2>5. state' = "APP_DETACH" /\ pc' = "check_detach" /\ deferred' = "none"
      BY <2>2, <2>4, DetachAnswer DEF Succeeded
    <2> QED BY <2>1, <2>5, DeviceIdle DEF OnCourse, Loading, GoesOn
  <1>2. CASE Abort
    <2>1. /\ hal_write_command("abort", "ABORT", 0, "check_dfu", "failed")
          /\ pc = "abort" /\ UNCHANGED failures
      BY <1>2 DEF Abort, AtOnce, outcome, hal_write_command, Sends
    <2>2. state \in {"DFU_IDLE", "UPLOAD_IDLE"}
      BY <1>0, <2>1 DEF Place
    <2>3. [cmd |-> "ABORT", n |-> 0] \in Writes /\ Provided([cmd |-> "ABORT", n |-> 0])
      BY <2>2 DEF Writes, Reads, ReadCommands, Requests, Provided
    <2>4. /\ Request("ABORT", 0) /\ pc' = IF Succeeded THEN "check_dfu" ELSE "failed"
          /\ deferred' = IF resp'.deferred = "REBOOT_TO_DFU" THEN "none" ELSE resp'.deferred
      BY <2>1, <2>3, HostWrites
    <2>5. /\ state' = "DFU_IDLE" /\ pc' = "check_dfu" /\ deferred' = "none"
          /\ UNCHANGED sub_state
      BY <2>2, <2>4, AbortAnswer, AbortKeeps DEF Succeeded
    <2>6. sub_state = "SYNC"
      BY <2>1, <2>2 DEF Sound, Able, Reset
    <2> QED BY <2>1, <2>5, <2>6, DeviceIdle DEF OnCourse, Loading, GoesOn
  <1>3. CASE BusReset \/ hal_reboot
    <2>1. PICK from \in {"bus_reset", "hal_reboot"}, ok \in {"check_dfu", "idle"},
               bad \in {"failed", "idle"} :
            /\ hal_write_command(from, "BUS_RESET", 0, ok, bad)
            /\ pc = from
            /\ IF from = "bus_reset" THEN ok = "check_dfu" ELSE ok = "idle"
            /\ failures' = 0 \/ UNCHANGED failures
      BY <1>3 DEF BusReset, hal_reboot, ThenWaits, outcome, hal_write_command, Sends, Reports
    <2>2. /\ [cmd |-> "BUS_RESET", n |-> 0] \in Writes
          /\ Provided([cmd |-> "BUS_RESET", n |-> 0])
      BY DEF Writes, Reads, ReadCommands, Requests, Provided
    <2>3. /\ Request("BUS_RESET", 0) /\ pc' = IF Succeeded THEN ok ELSE bad
          /\ deferred' = IF resp'.deferred = "REBOOT_TO_DFU" THEN "none" ELSE resp'.deferred
      BY <2>1, <2>2, HostWrites
    <2>4. CASE from = "bus_reset"
      <3>1. state = "APP_DETACH"
        BY <1>0, <2>1, <2>4 DEF Place
      <3>2. /\ state' = "DFU_IDLE" /\ sub_state' = "SYNC" /\ pc' = "check_dfu"
            /\ deferred' # "FLASH_MANIFEST"
        BY <2>1, <2>3, <2>4, <3>1, BusResetAnswer, ModeAnswer DEF Succeeded
      <3> QED BY <2>1, <3>2, DeviceIdle DEF OnCourse, Loading, GoesOn
    <2>5. CASE from = "hal_reboot"
      <3>1. state \in {"APP_IDLE", "DFU_IDLE", "UPLOAD_IDLE", "DFU_ERROR"}
        BY <1>0, <2>1, <2>5 DEF Place
      <3>2. state' = "APP_IDLE" /\ pc' = "idle" /\ deferred' # "FLASH_MANIFEST"
        BY <2>1, <2>3, <2>5, <3>1, BusResetAnswer DEF Succeeded
      <3> QED BY <2>1, <3>2, DeviceIdle DEF OnCourse, Loading, GoesOn
    <2> QED BY <2>1, <2>4, <2>5
  <1> QED BY <1>1, <1>2, <1>3

LEMMA ErrorsGoOn ==
    ASSUME HostInv, Sound, ReadError \/ SendClear
    PROVE  GoesOn
  <1>0. state \in Place(pc) /\ ~Lossy
    BY AtLabel
  <1>1. CASE ReadError
    <2>1. /\ read_command([cmd |-> "GETSTATUS", n |-> 1]) /\ pc' = "clear"
          /\ UNCHANGED <<onfail, failures>> /\ pc = "read_error" /\ sleep = 0
      BY <1>0, <1>1 DEF ReadError, AtOnce, outcome, hal_read_command, Sends
    <2>2. state = "DFU_ERROR" /\ onfail = "abort"
      BY <1>0, <2>1 DEF Place, Sound, OnCourse
    <2>3. [cmd |-> "GETSTATUS", n |-> 1] \in Reads /\ Provided([cmd |-> "GETSTATUS", n |-> 1])
      BY DEF Reads, ReadCommands, Requests, Provided
    <2>4. Request("GETSTATUS", 1) /\ deferred' = IF Succeeded THEN resp'.deferred ELSE "none"
      BY <2>1, <2>3, HostReads
    <2>5. state' = "DFU_ERROR" /\ deferred' = "none"
      BY <2>2, <2>4, Reported DEF SyncStates, Succeeded, NoResponse
    <2> QED BY <2>1, <2>2, <2>5, DeviceIdle DEF OnCourse, Loading, GoesOn
  <1>2. CASE SendClear
    <2>1. /\ hal_write_command("clear", "CLRSTATUS", 0, onfail, onfail)
          /\ UNCHANGED failures /\ pc = "clear" /\ pc' = onfail
      BY <1>0, <1>2 DEF SendClear, AtOnce, outcome, hal_write_command, Sends
    <2>2. state = "DFU_ERROR" /\ onfail = "abort"
      BY <1>0, <2>1 DEF Place, Sound, OnCourse
    <2>3. [cmd |-> "CLRSTATUS", n |-> 0] \in Writes /\ Provided([cmd |-> "CLRSTATUS", n |-> 0])
      BY <2>2 DEF Writes, Reads, ReadCommands, Requests, Provided
    <2>4. /\ Request("CLRSTATUS", 0)
          /\ deferred' = IF resp'.deferred = "REBOOT_TO_DFU" THEN "none" ELSE resp'.deferred
      BY <2>1, <2>3, HostWrites
    <2>5. state' = "DFU_IDLE" /\ sub_state' = "SYNC" /\ deferred' = "none"
      BY <2>2, <2>4, ClearAnswer, ModeAnswer
    <2> QED BY <2>1, <2>2, <2>5, DeviceIdle DEF OnCourse, Loading, GoesOn
  <1> QED BY <1>1, <1>2

\* The revert of a flash that works is a success, now or when the server gets to it.
LEMMA RevertGoesOn ==
    ASSUME HostInv, Faults = {}, hal_revert_factory
    PROVE  GoesOn
  <1>0. state \in Place(pc)
    BY AtLabel
  <1>1. /\ hal_write_command("revert", "REVERTFACTORY", 0, "hal_reboot", "hal_reboot")
        /\ pc = "revert" /\ Reports(IF Succeeded THEN "success" ELSE "failure")
    BY DEF hal_revert_factory, hal_write_command, Sends
  <1>2. state = "DFU_IDLE"
    BY <1>0, <1>1 DEF Place
  <1>3. /\ [cmd |-> "REVERTFACTORY", n |-> 0] \in Writes
        /\ Provided([cmd |-> "REVERTFACTORY", n |-> 0])
    BY <1>2 DEF Writes, Reads, ReadCommands, Requests, Provided
  <1>4. Request("REVERTFACTORY", 0)
    BY <1>1, <1>3, HostWrites
  <1>5. Succeeded
    BY <1>2, <1>4, RevertWorks DEF Succeeded
  <1> QED BY <1>1, <1>5 DEF Reports, GoesOn

LEMMA UploadGoesOn ==
    ASSUME HostInv, Sound, Working, upload_file
    PROVE  GoesOn
  <1>0. /\ state \in Place(pc) /\ ~Lossy /\ TypeOK /\ UploadAccounted
        /\ HostTypeOK /\ Uploading
    BY AtLabel DEF HostInv, ToolInv
  <1>1. /\ read_command([cmd |-> "UPLOAD", n |-> T]) /\ pc = "upload" /\ sleep = 0
        /\ CASE ~Succeeded                 -> UploadFails
             [] Succeeded /\ Returned = T  -> KeepsBlock
             [] OTHER                      -> EndsFile
    BY <1>0 DEF upload_file
  <1>2. state \in {"DFU_IDLE", "UPLOAD_IDLE"} /\ sub_state = "SYNC"
    BY <1>0, <1>1 DEF Place, Sound, Able, Reset
  <1>3. Request("UPLOAD", T)
    BY <1>1 DEF read_command, Request
  <1>4. state = "UPLOAD_IDLE" => fifo = 0 \/ T <= fifo
    <2>1. SUFFICES ASSUME PagesFit(buffered, fifo), fifo # 0
                   PROVE  T <= fifo
      BY <1>0, <1>1 DEF Uploading
    <2>2. fifo \in Nat /\ buffered \in Nat
      BY <1>0, Numbers DEF TypeOK, HostTypeOK
    <2>3. CASE buffered + fifo = P /\ Multiple(buffered, T)
      <3>1. buffered < P
        BY <2>1, <2>2, <2>3, Numbers
      <3>2. buffered + T <= P
        BY <2>2, <2>3, <3>1, Numbers, MultipleBelow DEF Working
      <3> QED BY <2>2, <2>3, <3>2, Numbers
    <2>4. CASE Multiple(fifo, T)
      BY <2>1, <2>2, <2>4, Numbers, MultipleBefore
    <2> QED BY <2>1, <2>3, <2>4 DEF PagesFit
  <1>5. Succeeded
    BY <1>0, <1>2, <1>3, <1>4, UploadWorks DEF Working, Succeeded
  <1>6. /\ state' \in {"DFU_IDLE", "UPLOAD_IDLE"} /\ sub_state' = "SYNC"
        /\ deferred' = "none"
    BY <1>0, <1>1, <1>2, <1>3, <1>5, UploadKeeps DEF Succeeded, read_command
  <1>7. failures' = 0 \/ (UNCHANGED failures /\ pc' = "upload")
    BY <1>0, <1>1, <1>5 DEF KeepsBlock, EndsFile, Reports, outcome
  <1> QED BY <1>6, <1>7, DeviceIdle DEF OnCourse, Loading, GoesOn

\* A block is taken, and makes the next page or the end of the image.
LEMMA BlockGoesOn ==
    ASSUME HostInv, Sound, Working, SendBlock
    PROVE  GoesOn
  <1>0. /\ state \in Place(pc) /\ Confirmed /\ SentInv /\ TypeOK /\ NeverAWholePageLeft
        /\ Able
    BY AtLabel DEF HostInv, IInv, DeviceInv, Sound
  <1>N. /\ image \in Nat /\ sent \in Nat /\ fifo \in Nat /\ T \in Nat /\ P \in Nat
        /\ Block \in 0 .. T /\ sent + Block \in 0 .. image
    BY <1>0, BlockFits, Numbers DEF SentInv, TypeOK
  <1>1. /\ hal_write_command("download", "DNLOAD", Block, "poll_download", "failed")
        /\ UNCHANGED <<image, failures>> /\ pc = "download"
    BY DEF SendBlock, AtOnce, run, outcome, hal_write_command, Sends
  <1>2. /\ state \in {"DFU_IDLE", "DNLOAD_IDLE"} /\ sent < image
        /\ IF state = "DFU_IDLE" THEN sent = 0 ELSE accepted = sent
    BY <1>0, <1>1 DEF Place, Confirmed
  <1>3. Block \in 1 .. T /\ (sent + Block < image => Block = T)
    BY <1>0, <1>N, <1>2, Numbers DEF Block, Least
  <1>4. /\ [cmd |-> "DNLOAD", n |-> Block] \in Writes
        /\ Provided([cmd |-> "DNLOAD", n |-> Block])
    BY <1>0, <1>N, <1>2, <1>3, Numbers DEF Writes, Reads, ReadCommands, Requests, Provided
  <1>5. /\ Request("DNLOAD", Block)
        /\ pc' = IF Succeeded THEN "poll_download" ELSE "failed"
        /\ deferred' = IF resp'.deferred = "REBOOT_TO_DFU" THEN "none" ELSE resp'.deferred
    BY <1>1, <1>4, HostWrites
  <1>6. state = "DNLOAD_IDLE" => Multiple(fifo, T) /\ fifo + T <= P
    <2>1. SUFFICES ASSUME state = "DNLOAD_IDLE" PROVE Multiple(fifo, T) /\ fifo + T <= P
      OBVIOUS
    <2>2. Multiple(fifo, T) /\ fifo < P
      BY <1>0, <1>2, <2>1 DEF Able, Loading, NeverAWholePageLeft
    <2> QED BY <1>N, <2>2, Numbers, MultipleBelow DEF Working
  <1>7. state = "DNLOAD_IDLE" => FifoTakes(Block)
    BY <1>N, <1>3, <1>6 DEF FifoTakes
  <1>8. /\ state' = "DNLOAD_SYNC" /\ resp'.status = "SUCCESS"
        /\ UNCHANGED <<sub_state, flash>>
        /\ state = "DFU_IDLE" => fifo' = Block /\ accepted' = Block
        /\ state = "DNLOAD_IDLE" => fifo' = fifo + Block /\ accepted' = accepted + Block
    BY <1>2, <1>3, <1>5, <1>7, BlockTaken
  <1>9. pc' = "poll_download" /\ deferred' = "none"
    BY <1>2, <1>3, <1>5, <1>8, BlockAnswer DEF Succeeded
  <1>10. accepted' = sent + Block /\ fifo' > 0
    BY <1>N, <1>2, <1>3, <1>8
  <1>11. accepted' < image' => Multiple(fifo', T)
    <2>1. SUFFICES ASSUME accepted' < image' PROVE Multiple(fifo', T)
      OBVIOUS
    <2>2. Block = T
      BY <1>1, <1>3, <1>10, <2>1
    <2>3. CASE state = "DFU_IDLE"
      BY <1>N, <1>8, <2>2, <2>3, SmallMultiples
    <2>4. CASE state = "DNLOAD_IDLE"
      BY <1>N, <1>6, <1>8, <2>2, <2>4, MultipleNext
    <2> QED BY <1>2, <2>3, <2>4
  <1>12. sub_state' = "WRITING" => Ready(flash')
    BY <1>0, <1>1, <1>2, <1>8 DEF Able, Reset, Loading, Ready
  <1> QED BY <1>1, <1>8, <1>9, <1>10, <1>11, <1>12
          DEF GoesOn, Sound, Able, Reset, Loading, OnCourse

LEMMA EndGoesOn ==
    ASSUME HostInv, Sound, SendEnd
    PROVE  GoesOn
  <1>0. state \in Place(pc) /\ Confirmed /\ TypeOK /\ BytesAccounted
    BY AtLabel DEF HostInv, IInv, DeviceInv
  <1>1. /\ hal_write_command("end", "DNLOAD", 0, "poll_manifest", "failed")
        /\ UNCHANGED <<image, failures>> /\ pc = "end"
    BY DEF SendEnd, AtOnce, outcome, run, hal_write_command, Sends
  <1>2. state = "DNLOAD_IDLE" /\ accepted = image
    BY <1>0, <1>1 DEF Place, Confirmed
  <1>3. [cmd |-> "DNLOAD", n |-> 0] \in Writes /\ Provided([cmd |-> "DNLOAD", n |-> 0])
    BY <1>2, Numbers DEF Writes, Reads, ReadCommands, Requests, Provided
  <1>4. /\ Request("DNLOAD", 0)
        /\ pc' = IF Succeeded THEN "poll_manifest" ELSE "failed"
        /\ deferred' = IF resp'.deferred = "REBOOT_TO_DFU" THEN "none" ELSE resp'.deferred
    BY <1>1, <1>3, HostWrites
  <1>5. state' = "MANIFEST_SYNC" /\ pc' = "poll_manifest" /\ deferred' = "none"
    BY <1>0, <1>2, <1>4, EndAnswer DEF Succeeded
  <1>6. UNCHANGED <<sub_state, flash, fifo, accepted, programmed>>
    BY <1>0, <1>2, <1>4, EndKeeps
  <1>7. /\ sub_state = "WRITING" => Ready(flash)
        /\ sub_state # "WRITING" => fifo > 0
        /\ programmed + fifo = accepted
    BY <1>0, <1>2 DEF Sound, Able, Loading, BytesAccounted
  <1>8. ~(accepted' < image')
    BY <1>0, <1>1, <1>2, <1>6, FlashAssumption DEF TypeOK, FlashAssumption
  <1> QED BY <1>1, <1>5, <1>6, <1>7, <1>8
          DEF GoesOn, Sound, Able, Reset, Loading, OnCourse, Ready

LEMMA PollsGoOn ==
    ASSUME HostInv, Sound, PollDownload \/ PollManifest
    PROVE  GoesOn
  <1>0. state \in Place(pc) /\ ~Lossy /\ Able /\ OnCourse
    BY AtLabel DEF Sound
  <1>1. PICK from \in {"poll_download", "poll_manifest"},
             busy \in {"DNLOAD_SYNC", "MANIFEST_SYNC"}, done \in {"check_block", "check_end"} :
          /\ IF from = "poll_download" THEN busy = "DNLOAD_SYNC" /\ done = "check_block"
                                       ELSE busy = "MANIFEST_SYNC" /\ done = "check_end"
          /\ read_command([cmd |-> "GETSTATUS", n |-> 1]) /\ pc = from /\ sleep = 0
          /\ pc' = CASE status' # "OK" -> "clear"
                     [] status' = "OK" /\ state' = busy -> from
                     [] OTHER -> done
          /\ UNCHANGED <<failures, image>>
    <2>1. CASE PollDownload
      BY <1>0, <2>1 DEF PollDownload, check_status, Sends, outcome, run
    <2>2. CASE PollManifest
      BY <1>0, <2>2 DEF PollManifest, check_status, Sends, outcome, run
    <2> QED BY <2>1, <2>2
  <1>2. [cmd |-> "GETSTATUS", n |-> 1] \in Reads /\ Provided([cmd |-> "GETSTATUS", n |-> 1])
    BY DEF Reads, ReadCommands, Requests, Provided
  <1>3. Request("GETSTATUS", 1) /\ deferred' = IF Succeeded THEN resp'.deferred ELSE "none"
    BY <1>1, <1>2, HostReads
  <1>4. state = busy /\ state \in SyncStates
    BY <1>0, <1>1 DEF OnCourse, SyncStates
  <1>5. status' = "OK" /\ deferred' = resp'.deferred
    BY <1>3, <1>4, StatusAnswer DEF Succeeded
  <1>6. UNCHANGED <<sub_state, flash, fifo>>
    BY <1>3, <1>4, StatusKeeps
  <1>7. CASE busy = "DNLOAD_SYNC"
    <2>1. \/ state' = "DNLOAD_SYNC" /\ pc' = "poll_download" /\ deferred' = "FLASH_WRITE"
          \/ state' = "DNLOAD_IDLE" /\ pc' = "check_block" /\ deferred' = "none"
      BY <1>1, <1>3, <1>4, <1>5, <1>7, StatusAnswer
    <2>2. UNCHANGED <<accepted, programmed>>
      BY <1>3, <1>4, <2>1, StatusKeeps
    <2> QED BY <1>0, <1>1, <1>4, <1>6, <1>7, <2>1, <2>2
            DEF GoesOn, Sound, Able, Reset, Loading, OnCourse, Ready
  <1>8. CASE busy = "MANIFEST_SYNC"
    <2>1. CASE DownloadDone
      <3>1. state' = "DFU_IDLE"
        BY <1>3, <1>4, <1>8, <2>1, StatusKeeps
      <3>2. pc' = "check_end"
        BY <1>1, <1>5, <1>8, <3>1
      <3>3. deferred' = "none"
        BY <1>3, <1>4, <1>5, <1>8, <3>1, StatusAnswer
      <3> QED BY <1>1, <3>1, <3>2, <3>3 DEF GoesOn, Sound, Able, Loading, OnCourse
    <2>2. CASE ~DownloadDone
      <3>1. state' = "MANIFEST_SYNC"
        BY <1>3, <1>4, <1>8, <2>2, StatusKeeps
      <3>2. pc' = "poll_manifest"
        BY <1>1, <1>5, <1>8, <3>1
      <3>3. UNCHANGED <<flash_finalised, accepted, programmed>>
        BY <1>3, <1>4, <3>1, StatusKeeps
      <3>4. ~DownloadDone'
        BY <1>6, <2>2, <3>3 DEF DownloadDone
      <3> QED BY <1>0, <1>1, <1>4, <1>6, <1>8, <2>2, <3>1, <3>2, <3>3, <3>4
              DEF GoesOn, Sound, Able, Reset, Loading, OnCourse, Ready
    <2> QED BY <2>1, <2>2
  <1> QED BY <1>7, <1>8

LEMMA QuietGoesOn ==
    ASSUME HostInv, Sound, Fails \/ Start \/ HostTick \/ UNCHANGED allVars
    PROVE  GoesOn
  <1>0. state \in Place(pc) /\ OnCourse
    BY AtLabel DEF Sound
  <1>1. CASE Fails
    BY <1>0, <1>1 DEF Fails, OnCourse
  <1>2. CASE Start
    <2>1. /\ UNCHANGED vars /\ pc = "idle" /\ UNCHANGED failures
          /\ pc' \in {"hal_reboot", "check_app"}
      BY <1>2 DEF Start, controlVars
    <2>2. state \notin Loading
      BY <1>0, <2>1 DEF Place, Loading
    <2>3. UNCHANGED <<state, sub_state, flash, fifo, accepted, programmed, flash_finalised,
                      deferred>>
      BY <2>1 DEF vars, core, buffer, sub, download
    <2> QED BY <2>1, <2>2, <2>3, DeviceSame DEF GoesOn, OnCourse
  <1>3. CASE HostTick \/ UNCHANGED allVars
    <2>1. UNCHANGED <<vars, pc, onfail, image, failures>>
      BY <1>3 DEF HostTick, allVars, controlVars, hostVars, outcome, run
    <2>2. UNCHANGED <<state, sub_state, flash, fifo, accepted, programmed, flash_finalised,
                      deferred>>
      BY <2>1 DEF vars, core, buffer, sub, download
    <2> QED BY <2>1, <2>2 DEF GoesOn, Sound, Able, Reset, Loading, DownloadDone, OnCourse, Ready
  <1> QED BY <1>1, <1>2, <1>3

\* What the server does of the run succeeds.
LEMMA ServerGoesOn ==
    ASSUME HostInv, Sound, Working, ServerStep
    PROVE  GoesOn
  <1>0. /\ state \in Place(pc) /\ Held /\ Confirmed /\ IInv /\ TypeOK /\ SentInv
        /\ Able /\ OnCourse /\ Faults = {}
    BY AtLabel DEF HostInv, OrderInv, Sound, Working
  <1>1. /\ deferred # "none" /\ deferred' = "none"
        /\ IF deferred = "REBOOT" THEN dfu_reboot ELSE Request(deferred, 0)
        /\ UNCHANGED <<pc, onfail, image, failures>>
    BY DEF ServerStep, TimerExpires, TimerIsDue, dfu_reboot, Boot, hostVars, outcome, run,
           Request
  <1>2. CASE deferred = "REBOOT"
    <2>1. state' = "APP_IDLE" /\ pc = "idle"
      BY <1>0, <1>1, <1>2 DEF dfu_reboot, Boot, Held
    <2> QED BY <1>1, <2>1, DeviceIdle DEF OnCourse, Loading, GoesOn
  <1>3. CASE deferred \in {"REVERT_FACTORY", "FLASH_CONNECT"}
    <2>1. /\ state = "DFU_IDLE" /\ Request(deferred, 0)
          /\ \/ deferred = "REVERT_FACTORY" /\ pc = "hal_reboot"
             \/ deferred = "FLASH_CONNECT" /\ pc = "check_dfu"
      BY <1>0, <1>1, <1>3 DEF Held
    <2>2. /\ state' \in {"DFU_IDLE", "DFU_ERROR"} /\ UNCHANGED sub_state
          /\ deferred = "FLASH_CONNECT" => state' = "DFU_IDLE"
      BY <1>0, <1>3, <2>1, IdleAction, IdleActionWorks
    <2>3. sub_state = "SYNC"
      BY <1>0, <2>1 DEF Able, Reset
    <2> QED BY <1>1, <2>1, <2>2, <2>3, DeviceIdle DEF OnCourse, Loading, GoesOn
  <1>4. CASE deferred = "FLASH_WRITE"
    <2>1. pc = "poll_download" /\ state = "DNLOAD_SYNC" /\ Request("FLASH_WRITE", 0)
      BY <1>0, <1>1, <1>4 DEF Held
    <2>2. /\ sub_state = "WRITING" => Ready(flash)
          /\ fifo > 0 \/ sub_state = "WRITING"
          /\ accepted < image => Multiple(fifo, T)
      BY <1>0, <2>1 DEF Able, Loading
    <2>3. /\ state' = "DNLOAD_SYNC" /\ UNCHANGED accepted
          /\ sub_state' = "WRITING" => Ready(flash')
          /\ sub_state' # "WRITING" => fifo' > 0
          /\ fifo' \in {0, fifo}
      BY <1>0, <1>4, <2>1, <2>2, WriteWorks
    <2>4. accepted' < image' => Multiple(fifo', T)
      BY <1>1, <2>2, <2>3, Numbers, SmallMultiples
    <2> QED BY <1>1, <2>1, <2>3, <2>4
            DEF GoesOn, Sound, Able, Reset, Loading, OnCourse
  <1>5. CASE deferred = "FLASH_MANIFEST"
    <2>1. pc = "poll_manifest" /\ state = "MANIFEST_SYNC" /\ Request("FLASH_MANIFEST", 0)
      BY <1>0, <1>1, <1>5 DEF Held
    <2>2. /\ sub_state = "WRITING" => Ready(flash)
          /\ sub_state # "WRITING" => fifo > 0
          /\ programmed + fifo = accepted
      BY <1>0, <1>5, <2>1 DEF Able, Loading
    <2>3. accepted = image
      BY <1>0, <2>1 DEF Confirmed
    <2>4. /\ state' = "MANIFEST_SYNC" /\ UNCHANGED accepted
          /\ programmed' + fifo' = accepted'
          /\ sub_state' = "WRITING" => Ready(flash')
          /\ sub_state' # "WRITING" => fifo' > 0 \/ DownloadDone'
      BY <1>0, <2>1, <2>2, ManifestWorks
    <2>5. ~(accepted' < image')
      BY <1>0, <1>1, <2>3, <2>4, Numbers DEF TypeOK
    <2> QED BY <1>1, <2>1, <2>4, <2>5
            DEF GoesOn, Sound, Able, Reset, Loading, OnCourse
  <1> QED BY <1>0, <1>1, <1>2, <1>3, <1>4, <1>5 DEF Held

\* An undisturbed run goes on, whatever the step.
LEMMA RunGoesOn ==
    ASSUME HostInv, Sound, Working, [HostNext]_allVars
    PROVE  GoesOn
  <1>1. Faults = {}
    BY DEF Working
  <1>2. CASE HostStep
    BY <1>1, <1>2, ChecksGoOn, DescriptorsGoOn, ModesGoOn, ErrorsGoOn, RevertGoesOn,
       UploadGoesOn, BlockGoesOn, EndGoesOn, PollsGoOn, QuietGoesOn DEF HostStep
  <1>3. CASE ServerStep
    BY <1>3, ServerGoesOn
  <1>4. CASE Start \/ HostTick \/ UNCHANGED allVars
    BY <1>4, QuietGoesOn
  <1> QED BY <1>2, <1>3, <1>4 DEF HostNext

-----------------------------------------------------------------------------
(* After a kill or a power failure.                                        *)

\* The device has started over, and the run does not know.
Lost == state = "APP_IDLE" /\ deferred = "none"

\* The run has not relied on the state of the device yet, whatever that is.
Early ==
    \/ pc \in {"idle", "check_app", "hal_reboot"}
    \/ pc = "abort" /\ deferred = "none"

\* A run that has failed leaves the device where the next one finds it.
Fallen == pc = "failed" => Reset

\* What is not in order is lost or early.
Placed == PollsWait /\ Begins /\ (OrderInv \/ Lost \/ Early)

\* The inductive invariant of RecoversInTwo: the run after a failed one is in order and
\* on its way to a success.
Recovering ==
    /\ Placed
    /\ Fallen
    /\ failures = 0 \/ (failures = 1 /\ OrderInv /\ Sound)

\* What holds whatever disturbs the tool.
Basis == SentInv /\ ControlTypeOK /\ IInv /\ ToolInv /\ Lossy = FALSE

LEMMA SettledNext ==
    ASSUME state' \in Place(pc'), deferred' = "none", PollsWait', Begins',
           pc' \notin InTransfer
    PROVE  OrderInv'
  BY DEF OrderInv, Held, Waits, Confirmed, InTransfer

LEMMA Settled ==
    ASSUME state \in Place(pc), deferred = "none", PollsWait, Begins, pc \notin InTransfer
    PROVE  OrderInv
  BY DEF OrderInv, Held, Waits, Confirmed, InTransfer

\* The poll timeout is set before the device can be polled, and stays set.
LEMMA TimedStays ==
    ASSUME PollsWait, NEW c, NEW n, Request(c, n), c = "BUS_RESET" => n = 0
    PROVE  PollsWait'
  <1> DEFINE r == [cmd |-> c, n |-> n]
  <1>0. UNCHANGED <<state, poll_timeout>> => PollsWait'
    BY DEF PollsWait, Timed
  <1>1. CASE ReportDescriptor \/ ReportState(r)
    BY <1>0, <1>1 DEF ReportDescriptor, ReportState, core, sub
  <1>2. CASE LeaveDfu
    BY <1>2, LeaveAnswer DEF PollsWait, AppStates
  <1>3. ASSUME HandleByState(r), c # "GET_DESCRIPTOR" \/ n # 1
        PROVE  PollsWait'
    <2>1. CASE state = "APP_IDLE"
      <3>1. state_app_idle(r)
        BY <1>3, <2>1 DEF HandleByState
      <3> QED BY <2>1, <3>1
              DEF state_app_idle, MoveTo, Stay, normal_transition, core, PollsWait, AppStates
    <2>2. CASE state = "APP_DETACH"
      <3>1. state_detach(r)
        BY <1>3, <2>2 DEF HandleByState
      <3> QED BY <3>1
              DEF state_detach, sub_sm_clear, MoveTo, normal_transition, PollsWait, AppStates,
                  Timed, PollTimeouts, POLL_TIMEOUT_DNLOAD_ENTRY_MSEC
    <2>3. ASSUME state \notin AppStates, UNCHANGED poll_timeout \/ Timed'
          PROVE  PollsWait'
      BY <2>3 DEF PollsWait, Timed
    <2>4. CASE state = "DFU_IDLE"
      <3>1. \/ action_entry_dnload(n) \/ action_entry_upload(n) \/ state_dfu_idle(r)
        BY <1>3, <2>4 DEF HandleByState
      <3>2. UNCHANGED poll_timeout \/ LeaveDfu
        BY <3>1
           DEF action_entry_dnload, action_entry_upload, state_dfu_idle, action_revert_factory,
               Fail, Stall, Stay, sub
      <3> QED BY <1>2, <2>3, <2>4, <3>2 DEF AppStates
    <2>5. CASE state \in SyncStates
      <3>1. state_dnload_sync(r) \/ state_manifest_sync(r)
        BY <1>3, <2>5 DEF HandleByState, SyncStates
      <3>2. CASE c \in {"FLASH_WRITE", "FLASH_MANIFEST"}
        <4>1. \/ \E st : sub_sm_process_dnload(st)
              \/ \E st, finalised : sub_sm_process_manifest(st, finalised)
              \/ Stall
          BY <3>1, <3>2 DEF state_dnload_sync, state_manifest_sync
        <4>2. ASSUME NEW st, NEW finalised, sub_sm_process_manifest(st, finalised)
              PROVE  Timed'
          BY <4>2, SubSmTimes
             DEF sub_sm_process_manifest, LastPage, Timed, PollTimeouts,
                 POLL_TIMEOUT_DNLOAD_MANIFEST_MSEC
        <4> QED BY <2>3, <2>5, <4>1, <4>2, SubSmTimes DEF Stall, Fail, sub, SyncStates, AppStates
      <3>3. CASE c \notin {"FLASH_WRITE", "FLASH_MANIFEST"}
        <4>1. UNCHANGED poll_timeout
          BY <3>1, <3>3
             DEF state_dnload_sync, state_manifest_sync, BadGetStatus, Stall, Fail, sub
        <4> QED BY <2>3, <2>5, <4>1 DEF SyncStates, AppStates
      <3> QED BY <3>2, <3>3
    <2>6. CASE state \in {"DNLOAD_IDLE", "UPLOAD_IDLE"}
      <3>1. \/ state_download_idle(n) \/ state_upload_idle(n) \/ Stall
            \/ MoveTo("DFU_IDLE", "SUCCESS", "none")
        BY <1>3, <2>6 DEF HandleByState
      <3>2. UNCHANGED poll_timeout
        BY <3>1
           DEF state_download_idle, state_upload_idle, NextBlock, MoveTo, Fail, Stall, sub
      <3> QED BY <2>3, <2>6, <3>2 DEF AppStates
    <2>7. CASE state \notin AppStates \cup SyncStates
                         \cup {"DFU_IDLE", "DNLOAD_IDLE", "UPLOAD_IDLE"}
      <3>1. ClearError(r)
        BY <1>3, <2>7 DEF HandleByState, AppStates, SyncStates
      <3>2. UNCHANGED poll_timeout \/ Timed'
        BY <3>1
           DEF ClearError, sub_sm_clear, Stay, sub, Timed, PollTimeouts,
               POLL_TIMEOUT_DNLOAD_ENTRY_MSEC
      <3> QED BY <2>3, <2>7, <3>2
    <2> QED BY <2>1, <2>2, <2>4, <2>5, <2>6, <2>7 DEF AppStates
  <1> QED BY <1>1, <1>2, <1>3 DEF Request, dfu_request_with_arguments

\* What the tool sends: a bus reset to the application, a detach after it has asked for
\* the descriptor, and blocks and their end where it downloads.
Commanded(c, n) ==
    /\ write_command([cmd |-> c, n |-> n]) \/ read_command([cmd |-> c, n |-> n])
    /\ c = "BUS_RESET" => n = 0
    /\ c = "DETACH" => pc = "detach"
    /\ c = "DNLOAD" => pc = "end" \/ (pc = "download" /\ n = Block)

LEMMA ToolCommands ==
    ASSUME HostStep
    PROVE  UNCHANGED controlVars \/ \E c, n : Commanded(c, n)
  <1>1. CASE CheckApp \/ CheckDetach \/ CheckDfu \/ CheckBlock \/ CheckEnd
    <2>1. read_command([cmd |-> "GETSTATE", n |-> 1]) \/ UNCHANGED controlVars
      BY <1>1 DEF CheckApp, CheckDetach, CheckDfu, CheckBlock, CheckEnd, check_state, Sends
    <2>2. Commanded("GETSTATE", 1) \/ UNCHANGED controlVars
      BY <2>1 DEF Commanded
    <2> QED BY <2>2
  <1>2. CASE FetchDescriptor \/ InDfu \/ ReadError
    <2>1. \/ read_command([cmd |-> "GET_DESCRIPTOR", n |-> 1])
          \/ read_command([cmd |-> "GETSTATUS", n |-> 1])
          \/ UNCHANGED controlVars
      BY <1>2 DEF FetchDescriptor, InDfu, ReadError, hal_read_command, Sends
    <2>2. \/ Commanded("GET_DESCRIPTOR", 1) \/ Commanded("GETSTATUS", 1)
          \/ UNCHANGED controlVars
      BY <2>1 DEF Commanded
    <2> QED BY <2>2
  <1>3. CASE PollDownload \/ PollManifest
    <2>1. read_command([cmd |-> "GETSTATUS", n |-> 1]) \/ UNCHANGED controlVars
      BY <1>3 DEF PollDownload, PollManifest, check_status, Sends
    <2>2. Commanded("GETSTATUS", 1) \/ UNCHANGED controlVars
      BY <2>1 DEF Commanded
    <2> QED BY <2>2
  <1>4. CASE Detach \/ BusReset \/ Abort \/ SendClear \/ SendEnd \/ hal_revert_factory
             \/ hal_reboot
    <2>1. \/ write_command([cmd |-> "DETACH", n |-> 0]) /\ pc = "detach"
          \/ write_command([cmd |-> "BUS_RESET", n |-> 0])
          \/ write_command([cmd |-> "ABORT", n |-> 0])
          \/ write_command([cmd |-> "CLRSTATUS", n |-> 0])
          \/ write_command([cmd |-> "DNLOAD", n |-> 0]) /\ pc = "end"
          \/ write_command([cmd |-> "REVERTFACTORY", n |-> 0])
          \/ UNCHANGED controlVars
      BY <1>4
         DEF Detach, BusReset, Abort, SendClear, SendEnd, hal_revert_factory, hal_reboot,
             hal_write_command, Sends
    <2>2. \/ Commanded("DETACH", 0) \/ Commanded("BUS_RESET", 0) \/ Commanded("ABORT", 0)
          \/ Commanded("CLRSTATUS", 0) \/ Commanded("DNLOAD", 0)
          \/ Commanded("REVERTFACTORY", 0) \/ UNCHANGED controlVars
      BY <2>1 DEF Commanded
    <2> QED BY <2>2
  <1>5. CASE SendBlock
    <2>1. \/ write_command([cmd |-> "DNLOAD", n |-> Block]) /\ pc = "download"
          \/ UNCHANGED controlVars
      BY <1>5 DEF SendBlock, hal_write_command, Sends
    <2>2. Commanded("DNLOAD", Block) \/ UNCHANGED controlVars
      BY <2>1 DEF Commanded
    <2> QED BY <2>2
  <1>6. CASE upload_file
    <2>1. read_command([cmd |-> "UPLOAD", n |-> T]) \/ UNCHANGED controlVars
      BY <1>6 DEF upload_file
    <2>2. Commanded("UPLOAD", T) \/ UNCHANGED controlVars
      BY <2>1 DEF Commanded
    <2> QED BY <2>2
  <1>7. CASE Fails
    BY <1>7 DEF Fails
  <1> QED BY <1>1, <1>2, <1>3, <1>4, <1>5, <1>6, <1>7 DEF HostStep

LEMMA PollsWaitStep ==
    ASSUME PollsWait, [DisturbedNext]_allVars
    PROVE  PollsWait'
  <1>0. UNCHANGED vars => PollsWait'
    BY DEF vars, core, sub, PollsWait, Timed
  <1>1. CASE HostStep
    <2>1. CASE UNCHANGED controlVars
      BY <1>0, <2>1 DEF controlVars
    <2>2. ASSUME NEW c, NEW n, Commanded(c, n) PROVE PollsWait'
      <3>1. Request(c, n)
        BY <2>2 DEF Commanded, write_command, read_command, Request
      <3> QED BY <2>2, <3>1, TimedStays DEF Commanded
    <2> QED BY <1>1, <2>1, <2>2, ToolCommands
  <1>2. CASE ServerStep
    <2>1. dfu_reboot \/ Request(deferred, 0)
      BY <1>2 DEF ServerStep, TimerExpires, Request
    <2>2. Boot => PollsWait'
      BY DEF Boot, PollsWait, AppStates
    <2> QED BY <2>1, <2>2, TimedStays DEF dfu_reboot
  <1>3. CASE Start \/ HostTick \/ Kill \/ UNCHANGED allVars
    BY <1>0, <1>3 DEF Start, HostTick, Kill, allVars, controlVars
  <1>4. CASE DevicePowerFails
    BY <1>4 DEF DevicePowerFails, PowerFails, PowerCycle, Boot, PollsWait, AppStates
  <1> QED BY <1>1, <1>2, <1>3, <1>4 DEF DisturbedNext, HostNext

LEMMA BeginsStep ==
    ASSUME Begins, HostTypeOK, [DisturbedNext]_allVars
    PROVE  Begins'
  <1>1. ASSUME UNCHANGED <<op, image, sent>>, Beginning(pc', onfail') => Beginning(pc, onfail)
        PROVE  Begins'
    BY <1>1 DEF Begins
  <1>2. CASE CheckApp \/ CheckDetach \/ CheckDfu \/ CheckEnd
    <2>1. /\ UNCHANGED <<op, image, sent>>
          /\ \/ pc \in {"check_app", "check_detach", "check_dfu"}
             \/ pc' \in {"hal_reboot", "failed", "read_error"} /\ onfail' = "failed"
      BY <1>2, CheckLeads DEF CheckApp, CheckDetach, CheckDfu, CheckEnd, run, progress
    <2> QED BY <1>1, <2>1 DEF Beginning
  <1>3. CASE CheckBlock
    <2>1. /\ pc' \in {"download", "end", "failed", "read_error"} /\ onfail' = "failed"
          /\ UNCHANGED <<op, image>>
      BY <1>3, CheckLeads DEF CheckBlock, run
    <2> QED BY <2>1 DEF Begins, Beginning
  <1>4. CASE FetchDescriptor \/ Detach \/ BusReset \/ Abort \/ InDfu \/ ReadError \/ SendClear
             \/ SendBlock \/ SendEnd \/ hal_revert_factory \/ hal_reboot
    <2>1. UNCHANGED <<op, image, sent, onfail>>
      BY <1>4
         DEF FetchDescriptor, Detach, BusReset, Abort, InDfu, ReadError, SendClear, SendBlock,
             SendEnd, hal_revert_factory, hal_reboot, AtOnce, ThenWaits, run, progress
    <2>2. \/ pc \in {"descriptor", "detach", "bus_reset", "abort", "in_dfu"}
          \/ pc = "read_error" /\ pc' = "clear"
          \/ pc = "clear" /\ pc' = onfail
          \/ pc' \in {"poll_download", "poll_manifest", "failed", "hal_reboot", "idle"}
      BY <1>4, ReadLeads, WriteLeads
         DEF FetchDescriptor, Detach, BusReset, Abort, InDfu, ReadError, SendClear, SendBlock,
             SendEnd, hal_revert_factory, hal_reboot
    <2>3. onfail \in {"failed", "abort"}
      BY DEF HostTypeOK
    <2> QED BY <1>1, <2>1, <2>2, <2>3 DEF Beginning
  <1>5. CASE PollDownload \/ PollManifest
    <2>1. /\ pc' \in {"clear", "poll_download", "check_block", "poll_manifest", "check_end",
                      "failed"}
          /\ onfail' = "failed" /\ UNCHANGED <<op, image, sent>>
      BY <1>5 DEF PollDownload, PollManifest, check_status, Sends, run, progress
    <2> QED BY <1>1, <2>1 DEF Beginning
  <1>6. CASE upload_file \/ Fails
    <2>1. pc' \in {"upload", "idle", "failed"} /\ UNCHANGED <<op, image, sent>>
      BY <1>6 DEF upload_file, UploadFails, KeepsBlock, EndsFile, Fails, run, progress
    <2> QED BY <1>1, <2>1 DEF Beginning
  <1>7. CASE Start
    <2>1. sent' = 0 /\ image' \in IF op' = "WRITE_UPGRADE" THEN Images ELSE {0}
      BY <1>7 DEF Start
    <2>2. op' = "WRITE_UPGRADE" => image' > 0
      BY <2>1, HostAssumption, Numbers DEF HostAssumption
    <2> QED BY <2>1, <2>2 DEF Begins
  <1>8. CASE Kill
    <2>1. pc' = "idle" /\ UNCHANGED <<op, image, sent>>
      BY <1>8 DEF Kill, run, progress
    <2> QED BY <1>1, <2>1 DEF Beginning
  <1>9. CASE ServerStep \/ HostTick \/ DevicePowerFails \/ UNCHANGED allVars
    <2>1. UNCHANGED <<op, image, sent, pc, onfail>>
      BY <1>9 DEF ServerStep, HostTick, DevicePowerFails, allVars, hostVars, run, progress
    <2> QED BY <1>1, <2>1 DEF Beginning
  <1> QED BY <1>2, <1>3, <1>4, <1>5, <1>6, <1>7, <1>8, <1>9
          DEF DisturbedNext, HostNext, HostStep

\* The application of the device answers what is not a detach with no effect.
LEMMA LostAnswers ==
    ASSUME Lost, NEW c, NEW n, Commanded(c, n), pc # "detach"
    PROVE  Lost'
  <1> DEFINE r == [cmd |-> c, n |-> n]
  <1>1. /\ Request(c, n) /\ c # "DETACH" /\ (c = "BUS_RESET" => n = 0)
        /\ resp'.deferred = "none" => deferred' = "none"
    BY DEF Commanded, write_command, read_command, Request, Lost
  <1>2. \/ ReportDescriptor \/ ReportState(r) \/ state_app_idle(r)
    BY <1>1 DEF Lost, Request, dfu_request_with_arguments, HandleByState, LeavesByCommonCode,
                SyncStates
  <1>3. UNCHANGED state /\ resp'.deferred = "none"
    BY <1>1, <1>2
       DEF ReportDescriptor, ReportState, state_app_idle, Stay, Respond, build_status, core
  <1> QED BY <1>1, <1>3 DEF Lost

LEMMA LostStep ==
    ASSUME Lost, pc # "detach", [HostNext]_allVars
    PROVE  Lost'
  <1>1. CASE HostStep
    BY <1>1, ToolCommands, LostAnswers DEF controlVars, vars, core, Lost
  <1>2. CASE ServerStep
    BY <1>2 DEF ServerStep, TimerExpires, TimerIsDue, Lost
  <1>3. CASE Start \/ HostTick \/ UNCHANGED allVars
    BY <1>3 DEF Start, HostTick, allVars, controlVars, vars, core, Lost
  <1> QED BY <1>1, <1>2, <1>3 DEF HostNext

\* An abort of what a run has left behind fails, and leaves an error or the application.
LEMMA AbortElsewhere ==
    ASSUME TypeOK, state \notin {"APP_IDLE", "DFU_IDLE", "UPLOAD_IDLE"}, Request("ABORT", 0)
    PROVE  /\ resp'.status # "SUCCESS" /\ resp'.deferred = "none"
           /\ state' \in {"APP_IDLE", "DFU_ERROR"}
  <1>1. HandleByState([cmd |-> "ABORT", n |-> 0])
    BY DEF Request, dfu_request_with_arguments
  <1>2. \/ state = "APP_DETACH" /\ MoveTo("APP_IDLE", "ERROR", "none")
        \/ Stall
        \/ state = "DFU_ERROR" /\ Stay("BAD_PARAM", "none")
    BY <1>1
       DEF TypeOK, dfu_state, AppStates, SyncStates, HandleByState, state_detach,
           state_dnload_sync, state_manifest_sync, ClearError
  <1> QED BY <1>2
          DEF MoveTo, Stall, Fail, Stay, Respond, normal_transition, error_condition, core

\* Only a run that fails, or whose revert does, counts as failed.
LEMMA ReportsWhere ==
    ASSUME failures = 0, [HostNext]_allVars
    PROVE  failures' = 0 \/ ((Fails \/ hal_revert_factory) /\ failures' = 1)
  <1>1. ASSUME NEW r, Reports(r) PROVE failures' \in {0, 1}
    BY <1>1 DEF Reports, Least, FailureCap
  <1>2. Reports("success") => failures' = 0
    BY DEF Reports
  <1>3. CASE CheckApp \/ CheckDetach \/ CheckDfu \/ CheckBlock \/ CheckEnd
    BY <1>2, <1>3 DEF CheckApp, CheckDetach, CheckDfu, CheckBlock, CheckEnd, outcome
  <1>4. CASE FetchDescriptor \/ Detach \/ BusReset \/ Abort \/ InDfu \/ ReadError \/ SendClear
             \/ SendBlock \/ SendEnd \/ hal_reboot
    BY <1>2, <1>4
       DEF FetchDescriptor, Detach, BusReset, Abort, InDfu, ReadError, SendClear, SendBlock,
           SendEnd, hal_reboot, AtOnce, outcome
  <1>5. CASE PollDownload \/ PollManifest
    BY <1>5 DEF PollDownload, PollManifest, check_status, outcome
  <1>6. CASE upload_file
    BY <1>2, <1>6 DEF upload_file, UploadFails, KeepsBlock, EndsFile, outcome
  <1>7. CASE Fails \/ hal_revert_factory
    BY <1>1, <1>7 DEF Fails, hal_revert_factory
  <1>8. CASE Start \/ ServerStep \/ HostTick \/ UNCHANGED allVars
    BY <1>8 DEF Start, ServerStep, HostTick, allVars, hostVars, outcome
  <1> QED BY <1>3, <1>4, <1>5, <1>6, <1>7, <1>8 DEF HostNext, HostStep

\* A run that nothing disturbed fails in dfuERROR, or after it has cleared the error.
LEMMA FallsWhere ==
    ASSUME HostInv, Fallen, [HostNext]_allVars
    PROVE  Fallen'
  <1>0. state \in Place(pc) /\ ~Lossy /\ Held /\ TypeOK /\ UploadAccounted /\ OrderInv'
    BY AtLabel, OrderStep DEF HostInv, OrderInv
  <1>1. ASSUME pc' # "failed" PROVE Fallen'
    BY <1>1 DEF Fallen
  <1>2. ASSUME state' \notin {"DFU_IDLE", "UPLOAD_IDLE"} PROVE Fallen'
    BY <1>2 DEF Fallen, Reset
  <1>3. CASE CheckApp \/ CheckDetach \/ CheckDfu \/ CheckBlock \/ CheckEnd
    <2>1. \/ /\ pc = "check_app" /\ pc' = Checked("APP_IDLE", "descriptor", "abort")
          \/ /\ pc = "check_detach" /\ pc' = Checked("APP_DETACH", "bus_reset", "failed")
          \/ /\ pc = "check_dfu" /\ pc' = Checked("DFU_IDLE", "in_dfu", "failed")
          \/ /\ pc = "check_block"
             /\ pc' = Checked("DNLOAD_IDLE",
                              IF sent + Block < image THEN "download" ELSE "end", "failed")
          \/ /\ pc = "check_end" /\ pc' = Checked("DFU_IDLE", "hal_reboot", "failed")
      BY <1>3, HostChecks DEF CheckApp, CheckDetach, CheckDfu, CheckBlock, CheckEnd
    <2>2. pc' # "failed"
      BY <1>0, <2>1 DEF Checked, Place
    <2> QED BY <1>1, <2>2
  <1>4. CASE Detach \/ BusReset \/ Abort \/ SendEnd
    <2>1. PICK c, from, ok :
            /\ hal_write_command(from, c, 0, ok, "failed") /\ pc = from
            /\ \/ c = "DETACH" /\ from = "detach" /\ ok = "check_detach"
               \/ c = "BUS_RESET" /\ from = "bus_reset" /\ ok = "check_dfu"
               \/ c = "ABORT" /\ from = "abort" /\ ok = "check_dfu"
               \/ c = "DNLOAD" /\ from = "end" /\ ok = "poll_manifest"
      <3>1. \/ hal_write_command("detach", "DETACH", 0, "check_detach", "failed")
            \/ hal_write_command("bus_reset", "BUS_RESET", 0, "check_dfu", "failed")
            \/ hal_write_command("abort", "ABORT", 0, "check_dfu", "failed")
            \/ hal_write_command("end", "DNLOAD", 0, "poll_manifest", "failed")
        BY <1>4 DEF Detach, BusReset, Abort, SendEnd
      <3> QED BY <3>1, WriteLeads
    <2>2. \/ c = "DETACH" /\ state = "APP_IDLE"
          \/ c = "BUS_RESET" /\ state = "APP_DETACH"
          \/ c = "ABORT" /\ state \in {"DFU_IDLE", "UPLOAD_IDLE"}
          \/ c = "DNLOAD" /\ state = "DNLOAD_IDLE"
      BY <1>0, <2>1 DEF Place
    <2>3. [cmd |-> c, n |-> 0] \in Writes /\ Provided([cmd |-> c, n |-> 0])
      BY <2>2, Numbers DEF Writes, Reads, ReadCommands, Requests, Provided
    <2>4. Request(c, 0) /\ pc' = IF Succeeded THEN ok ELSE "failed"
      BY <2>1, <2>3, HostWrites
    <2>5. Succeeded
      BY <1>0, <2>2, <2>4, DetachAnswer, BusResetAnswer, AbortAnswer, EndAnswer DEF Succeeded
    <2> QED BY <1>1, <2>1, <2>4, <2>5
  <1>5. CASE FetchDescriptor \/ InDfu \/ ReadError \/ hal_revert_factory \/ hal_reboot
    <2>1. pc' \in {"detach", "clear", "hal_reboot", "idle", "download", "upload", "revert"}
      BY <1>5, ReadLeads, WriteLeads
         DEF FetchDescriptor, InDfu, ReadError, hal_revert_factory, hal_reboot, Proceeds
    <2> QED BY <1>1, <2>1
  <1>6. CASE SendClear
    <2>1. /\ hal_write_command("clear", "CLRSTATUS", 0, onfail, onfail) /\ pc = "clear"
      BY <1>6, WriteLeads DEF SendClear
    <2>2. state = "DFU_ERROR"
      BY <1>0, <2>1 DEF Place
    <2>3. [cmd |-> "CLRSTATUS", n |-> 0] \in Writes /\ Provided([cmd |-> "CLRSTATUS", n |-> 0])
      BY <2>2 DEF Writes, Reads, ReadCommands, Requests, Provided
    <2>4. Request("CLRSTATUS", 0)
      BY <2>1, <2>3, HostWrites
    <2> QED BY <2>2, <2>4, ModeAnswer DEF Fallen, Reset
  <1>7. CASE SendBlock
    <2>1. hal_write_command("download", "DNLOAD", Block, "poll_download", "failed")
      BY <1>7 DEF SendBlock
    <2>2. pc' = "failed" => state' \in Place("failed")
      BY <1>0 DEF OrderInv
    <2>3. SUFFICES ASSUME pc' = "failed" PROVE state' \notin {"DFU_IDLE", "UPLOAD_IDLE"}
      BY <1>1, <1>2
    <2>4. Request("DNLOAD", Block) /\ pc = "download"
      BY <1>0, <2>1, WriteLeads DEF hal_write_command, Sends, write_command, Request
    <2>5. state \in {"DFU_IDLE", "DNLOAD_IDLE"} /\ sent < image
      BY <2>4, AtLabel DEF Place, Confirmed
    <2>6. Block \in 1 .. T
      <3>1. SentInv
        BY DEF HostInv
      <3>2. image \in Nat /\ sent \in Nat
        BY <3>1, Numbers DEF SentInv
      <3> QED BY <2>5, <3>2, Numbers DEF Block, Least
    <2>7. state' \in {"DNLOAD_SYNC", "DFU_ERROR"}
      BY <2>4, <2>5, <2>6, BlockAnswer
    <2> QED BY <2>7
  <1>8. CASE PollDownload \/ PollManifest
    <2>1. pc' # "failed"
      BY <1>0, <1>8 DEF PollDownload, PollManifest, check_status, Sends
    <2> QED BY <1>1, <2>1
  <1>9. CASE upload_file
    <2>1. /\ read_command([cmd |-> "UPLOAD", n |-> T]) /\ pc = "upload"
          /\ CASE ~Succeeded                 -> UploadFails
               [] Succeeded /\ Returned = T  -> KeepsBlock
               [] OTHER                      -> EndsFile
      BY <1>0, <1>9 DEF upload_file
    <2>2. state \in {"DFU_IDLE", "UPLOAD_IDLE"} /\ Request("UPLOAD", T)
      BY <1>0, <2>1 DEF Place, read_command, Request
    <2>3. Succeeded => pc' # "failed"
      BY <1>0, <2>1 DEF KeepsBlock, EndsFile
    <2>4. ~Succeeded => state' = "DFU_ERROR"
      BY <1>0, <2>2, UploadFirst, UploadNext DEF Succeeded
    <2> QED BY <1>1, <1>2, <2>3, <2>4
  <1>10. CASE Fails \/ Start
    BY <1>1, <1>10 DEF Fails, Start
  <1>11. CASE ServerStep
    <2>1. pc' = pc /\ deferred # "none"
      BY <1>11 DEF ServerStep, TimerExpires, TimerIsDue, hostVars
    <2> QED BY <1>0, <1>1, <2>1 DEF Held
  <1>12. CASE HostTick \/ UNCHANGED allVars
    BY <1>12 DEF HostTick, allVars, controlVars, hostVars, vars, core, sub, Fallen, Reset
  <1> QED BY <1>3, <1>4, <1>5, <1>6, <1>7, <1>8, <1>9, <1>10, <1>11, <1>12
          DEF HostNext, HostStep

\* What a run sends that has not relied on the device yet.
LEMMA EarlySends ==
    ASSUME Early, HostStep
    PROVE  CheckApp \/ Abort \/ hal_reboot
  <1>1. pc \in {"idle", "check_app", "hal_reboot", "abort"}
    BY DEF Early
  <1>2. ~(CheckDetach \/ CheckDfu \/ CheckBlock \/ CheckEnd)
    BY <1>1, CheckLeads DEF CheckDetach, CheckDfu, CheckBlock, CheckEnd
  <1>3. ~(FetchDescriptor \/ Detach \/ BusReset \/ InDfu \/ ReadError \/ SendClear
          \/ SendBlock \/ SendEnd \/ hal_revert_factory)
    BY <1>1, WriteLeads, ReadLeads
       DEF FetchDescriptor, Detach, BusReset, InDfu, ReadError, SendClear, SendBlock,
           SendEnd, hal_revert_factory
  <1>4. ~(PollDownload \/ PollManifest \/ Fails \/ upload_file)
    BY <1>1 DEF PollDownload, PollManifest, check_status, Sends, Fails, upload_file
  <1> QED BY <1>2, <1>3, <1>4 DEF HostStep

LEMMA EarlyStep ==
    ASSUME Basis, Placed, Early, ~OrderInv, ~Lost, [HostNext]_allVars
    PROVE  /\ OrderInv' \/ Lost' \/ Early'
           /\ pc' # "check_end"
           /\ pc' = "failed" => state' \in {"APP_IDLE", "DFU_ERROR"}
  <1> DEFINE Leads == /\ OrderInv' \/ Lost' \/ Early'
                      /\ pc' # "check_end"
                      /\ pc' = "failed" => state' \in {"APP_IDLE", "DFU_ERROR"}
  <1>0. PollsWait' /\ Begins' /\ pc # "failed" /\ ~Lossy
    BY PollsWaitStep, BeginsStep DEF Basis, ToolInv, DisturbedNext, Placed, Early
  <1>2. ASSUME Early', pc' # "failed" PROVE Leads
    BY <1>2 DEF Early
  <1>3. ASSUME OrderInv' \/ Lost', state' \in {"APP_IDLE", "DFU_ERROR"}, pc' # "check_end"
        PROVE  Leads
    BY <1>3
  <1>4. CASE Start
    BY <1>2, <1>4 DEF Start, Early
  <1>5. CASE ServerStep
    <2>1. pc' = pc /\ deferred' = "none"
      BY <1>5 DEF ServerStep, TimerExpires, dfu_reboot, Boot, hostVars
    <2> QED BY <1>0, <1>2, <2>1 DEF Early
  <1>6. CASE HostTick \/ UNCHANGED allVars
    <2>1. pc' = pc /\ deferred' = deferred
      BY <1>6 DEF HostTick, allVars, controlVars, hostVars, vars
    <2> QED BY <1>0, <1>2, <2>1 DEF Early
  <1>7. CASE CheckApp
    <2>1. /\ read_command([cmd |-> "GETSTATE", n |-> 1]) /\ pc = "check_app"
          /\ pc' = Checked("APP_IDLE", "descriptor", "abort")
      BY <1>0, <1>7 DEF CheckApp, check_state, Sends
    <2>2. UNCHANGED state /\ deferred' = "none"
      BY <2>1, ReportDrops
    <2>3. CASE state = "APP_IDLE"
      BY <1>3, <2>1, <2>2, <2>3 DEF Lost, Checked
    <2>4. CASE state = "DFU_ERROR"
      <3>1. pc' = "read_error"
        BY <2>1, <2>4 DEF Checked
      <3>2. OrderInv'
        BY <1>0, <2>2, <2>4, <3>1, SettledNext DEF Place, InTransfer
      <3> QED BY <1>3, <2>2, <2>4, <3>1, <3>2
    <2>5. CASE state \notin {"APP_IDLE", "DFU_ERROR"}
      BY <1>2, <2>1, <2>2, <2>5 DEF Checked, Early
    <2> QED BY <2>3, <2>4, <2>5
  <1>8. CASE Abort
    <2>1. /\ write_command([cmd |-> "ABORT", n |-> 0]) /\ pc = "abort"
          /\ pc' = IF Succeeded THEN "check_dfu" ELSE "failed"
      BY <1>0, <1>8 DEF Abort, hal_write_command, Sends
    <2>2. deferred = "none" /\ PollsWait /\ Begins
      BY <2>1 DEF Early, Placed
    <2>3. state \notin {"APP_IDLE", "DFU_IDLE", "UPLOAD_IDLE"}
      BY <2>1, <2>2, Settled DEF Lost, Place, InTransfer
    <2>4. Request("ABORT", 0) /\ TypeOK
      BY <2>1 DEF write_command, Request, Basis, IInv, DeviceInv
    <2>5. /\ resp'.status # "SUCCESS" /\ resp'.deferred = "none"
          /\ state' \in {"APP_IDLE", "DFU_ERROR"}
      BY <2>3, <2>4, AbortElsewhere
    <2>6. deferred' = "none" /\ pc' = "failed"
      BY <2>1, <2>2, <2>5 DEF write_command, Succeeded
    <2>7. OrderInv'
      BY <1>0, <2>5, <2>6, SettledNext DEF Place, InTransfer
    <2> QED BY <1>3, <2>5, <2>6, <2>7
  <1>9. CASE hal_reboot
    BY <1>2, <1>9, WriteLeads DEF hal_reboot, Early
  <1> QED BY <1>4, <1>5, <1>6, <1>7, <1>8, <1>9, EarlySends DEF HostNext

\* Whatever is killed or cut off, and whatever fails, the next run finds its way.
LEMMA PlacedStep ==
    ASSUME Basis, Placed, [DisturbedNext]_allVars
    PROVE  Placed'
  <1>1. PollsWait' /\ Begins'
    BY PollsWaitStep, BeginsStep DEF Basis, ToolInv, Placed
  <1>2. CASE Kill
    BY <1>1, <1>2 DEF Kill, Placed, Early
  <1>3. CASE DevicePowerFails
    BY <1>1, <1>3 DEF DevicePowerFails, PowerFails, PowerCycle, Boot, Placed, Lost
  <1>4. CASE [HostNext]_allVars /\ OrderInv
    <2>1. HostInv
      BY <1>4 DEF Basis, HostInv
    <2> QED BY <1>1, <1>4, <2>1, OrderStep DEF Placed
  <1>5. CASE [HostNext]_allVars /\ Lost /\ ~OrderInv
    <2>1. pc # "detach"
      BY <1>5, Settled DEF Lost, Place, InTransfer, Placed
    <2> QED BY <1>1, <1>5, <2>1, LostStep DEF Placed
  <1>6. CASE [HostNext]_allVars /\ Early /\ ~OrderInv /\ ~Lost
    BY <1>1, <1>6, EarlyStep DEF Placed
  <1> QED BY <1>2, <1>3, <1>4, <1>5, <1>6 DEF DisturbedNext, Placed

-----------------------------------------------------------------------------
(* The second run does its work.                                           *)

\* A failed run, and the device it leaves to the next.
LEMMA FailsSound ==
    ASSUME OrderInv, Fallen, Fails
    PROVE  Sound'
  <1>1. pc = "failed" /\ pc' = "idle" /\ UNCHANGED vars
    BY DEF Fails, controlVars
  <1>2. /\ state \in {"APP_IDLE", "DFU_IDLE", "UPLOAD_IDLE", "DFU_ERROR"} /\ deferred = "none"
        /\ Reset
    BY <1>1 DEF OrderInv, Place, Held, Fallen
  <1>3. UNCHANGED <<state, sub_state, deferred>>
    BY <1>1 DEF vars, core, sub
  <1> QED BY <1>1, <1>2, <1>3, DeviceIdle DEF Reset, Loading, OnCourse

LEMMA OrderedRecovers ==
    ASSUME Basis, Recovering, OrderInv, Working, [HostNext]_allVars
    PROVE  Recovering'
  <1>1. HostInv
    BY DEF Basis, HostInv
  <1>2. OrderInv' /\ PollsWait' /\ Begins'
    BY <1>1, OrderStep DEF OrderInv
  <1>3. Fallen'
    BY <1>1, FallsWhere DEF Recovering
  <1>4. failures' = 0 \/ (failures' = 1 /\ Sound')
    <2>1. CASE failures = 1 /\ Sound
      BY <1>1, <2>1, RunGoesOn DEF GoesOn
    <2>2. CASE failures = 0
      <3>1. CASE Fails
        BY <2>2, <3>1, FailsSound, ReportsWhere DEF Recovering
      <3>2. CASE hal_revert_factory
        BY <1>1, <2>2, <3>2, RevertGoesOn DEF GoesOn, Working
      <3> QED BY <2>2, <3>1, <3>2, ReportsWhere
    <2> QED BY <2>1, <2>2 DEF Recovering
  <1> QED BY <1>2, <1>3, <1>4 DEF Recovering, Placed

\* The labels at which a tool takes a device that has started over for what it is.
LEMMA LostRecovers ==
    ASSUME Basis, Recovering, Lost, ~OrderInv, [HostNext]_allVars
    PROVE  Recovering'
  <1>1. pc \notin {"failed", "detach"} /\ PollsWait /\ Begins /\ failures = 0
    BY Settled DEF Lost, Place, InTransfer, Recovering, Placed
  <1>2. Lost' /\ PollsWait' /\ Begins'
    BY <1>1, LostStep, PollsWaitStep, BeginsStep DEF Basis, ToolInv, DisturbedNext
  <1>3. Fallen'
    BY <1>2 DEF Lost, Fallen, Reset
  <1>4. CASE failures' = 0
    BY <1>2, <1>3, <1>4 DEF Recovering, Placed
  <1>5. CASE hal_revert_factory /\ failures' = 1
    <2>1. pc' = "hal_reboot"
      BY <1>5, WriteLeads DEF hal_revert_factory
    <2>2. OrderInv'
      BY <1>2, <2>1, SettledNext DEF Lost, Place, InTransfer
    <2>3. Sound'
      BY <1>2, <2>1, DeviceIdle DEF Lost, Loading, OnCourse
    <2> QED BY <1>2, <1>3, <1>5, <2>2, <2>3 DEF Recovering, Placed
  <1>6. ~Fails
    BY <1>1 DEF Fails
  <1> QED BY <1>1, <1>4, <1>5, <1>6, ReportsWhere

LEMMA EarlyRecovers ==
    ASSUME Basis, Recovering, Early, ~OrderInv, ~Lost, [HostNext]_allVars
    PROVE  Recovering'
  <1>1. Placed' /\ failures = 0
    BY PlacedStep DEF DisturbedNext, Recovering
  <1>2. failures' = 0
    BY <1>1, ReportsWhere, WriteLeads DEF Fails, hal_revert_factory, Early
  <1>3. Fallen'
    BY EarlyStep DEF Recovering, Fallen, Reset
  <1> QED BY <1>1, <1>2, <1>3 DEF Recovering

LEMMA RecoversStep ==
    ASSUME Basis, Recovering, Working, [DisturbedNext]_allVars
    PROVE  Recovering'
  <1>1. CASE Kill \/ DevicePowerFails
    <2>1. Placed'
      BY PlacedStep DEF Recovering
    <2> QED
      BY <1>1, <2>1
         DEF Kill, DevicePowerFails, PowerFails, PowerCycle, Boot, Recovering, Fallen, Reset
  <1>2. CASE [HostNext]_allVars
    BY <1>2, OrderedRecovers, LostRecovers, EarlyRecovers DEF Recovering, Placed
  <1> QED BY <1>1, <1>2 DEF DisturbedNext

\* On a flash that works and whose page is a whole number of blocks, over a transport
\* that loses nothing: whenever the tool is killed and whenever the device loses power,
\* of two runs in a row that are left alone the second at the latest succeeds.
THEOREM SecondRunWorks ==
    ASSUME Lossy = FALSE, Working
    PROVE  DisturbedSpec => []RecoversInTwo
  <1>1. HostInit => Recovering
    BY DEF HostInit, ControlInit, Init, Recovering, Placed, PollsWait, AppStates, Begins, Lost,
           Fallen
  <1>2. SentInv /\ ControlTypeOK /\ IInv /\ ToolInv /\ Recovering /\ [DisturbedNext]_allVars
          => Recovering'
    BY RecoversStep DEF Basis
  <1>3. Recovering => RecoversInTwo
    BY DEF Recovering, RecoversInTwo, FailureCap
  <1>4. DisturbedSpec => [](SentInv /\ ControlTypeOK /\ IInv /\ ToolInv)
    BY SentAlways, ToolAlways, HostDevice, Inductive, PTL DEF ImplementsDevice
  <1> QED BY <1>1, <1>2, <1>3, <1>4, PTL DEF DisturbedSpec

-----------------------------------------------------------------------------
(* What is reported written is stored, though runs are killed.             *)

\* No image ends with a page: the tail of a download is in the fifo when it ends, and a
\* flash_finalised left over by a run that was killed says nothing.
EndsWithTail == \A i \in Images : ~Multiple(i, P)

ImageChosen == image \in Images \cup {0}

StoredIfIdle ==
    pc = "check_end" /\ state = "DFU_IDLE" => flash.slot = "whole" /\ flash.size = image

StoresInv == Placed /\ ImageChosen /\ LoadsInv /\ StoredIfIdle

LEMMA ImageStays ==
    ASSUME [DisturbedNext]_allVars
    PROVE  UNCHANGED image \/ Start
  <1>1. CASE CheckApp \/ CheckDetach \/ CheckDfu \/ CheckBlock \/ CheckEnd
    BY <1>1, CheckLeads
       DEF CheckApp, CheckDetach, CheckDfu, CheckBlock, CheckEnd, run
  <1>2. CASE FetchDescriptor \/ Detach \/ BusReset \/ Abort \/ InDfu \/ ReadError \/ SendClear
             \/ SendBlock \/ SendEnd \/ hal_revert_factory \/ hal_reboot
    BY <1>2
       DEF FetchDescriptor, Detach, BusReset, Abort, InDfu, ReadError, SendClear, SendBlock,
           SendEnd, hal_revert_factory, hal_reboot, AtOnce, ThenWaits, run
  <1>3. CASE PollDownload \/ PollManifest \/ upload_file \/ Fails
    BY <1>3 DEF PollDownload, PollManifest, check_status, upload_file, Fails, run
  <1>4. CASE ServerStep \/ HostTick \/ Kill \/ DevicePowerFails \/ UNCHANGED allVars
    BY <1>4 DEF ServerStep, HostTick, Kill, DevicePowerFails, allVars, hostVars, run
  <1> QED BY <1>1, <1>2, <1>3, <1>4 DEF DisturbedNext, HostNext, HostStep

\* The device goes from step to step as the tool and the server command.
LEMMA DeviceSteps ==
    ASSUME [DisturbedNext]_allVars
    PROVE  \/ UNCHANGED state \/ state' = "APP_IDLE"
           \/ HostStep /\ \E c, n : Commanded(c, n)
           \/ Request(deferred, 0)
  <1>1. CASE HostStep
    BY <1>1, ToolCommands DEF controlVars, vars, core
  <1>2. CASE ServerStep
    <2>1. CASE deferred = "REBOOT"
      BY <1>2, <2>1 DEF ServerStep, TimerExpires, dfu_reboot, Boot
    <2>2. CASE deferred # "REBOOT"
      BY <1>2, <2>2 DEF ServerStep, TimerExpires, Request
    <2> QED BY <2>1, <2>2
  <1>3. CASE Start \/ HostTick \/ Kill \/ UNCHANGED allVars
    BY <1>3 DEF Start, HostTick, Kill, allVars, controlVars, vars, core
  <1>4. CASE DevicePowerFails
    BY <1>4 DEF DevicePowerFails, PowerFails, PowerCycle, Boot
  <1> QED BY <1>1, <1>2, <1>3, <1>4 DEF DisturbedNext, HostNext

LEMMA ToolEntersByDetach ==
    ASSUME [DisturbedNext]_allVars, Basis
    PROVE  EntersByDetach
  <1>1. SUFFICES ASSUME state = "APP_IDLE" PROVE state' # "DFU_IDLE"
    BY DEF EntersByDetach
  <1>2. ASSUME NEW c, NEW n, Request(c, n), c = "BUS_RESET" => n = 0
        PROVE  state' # "DFU_IDLE"
    <2> DEFINE r == [cmd |-> c, n |-> n]
    <2>1. \/ ReportDescriptor \/ ReportState(r) \/ state_app_idle(r)
      BY <1>1, <1>2
         DEF Request, dfu_request_with_arguments, HandleByState, LeavesByCommonCode, SyncStates
    <2> QED
      BY <1>1, <1>2, <2>1
         DEF ReportDescriptor, ReportState, state_app_idle, Stay, MoveTo, normal_transition,
             core
  <1>3. ASSUME NEW c, NEW n, Commanded(c, n) PROVE state' # "DFU_IDLE"
    <2>1. Request(c, n) /\ (c = "BUS_RESET" => n = 0)
      BY <1>3 DEF Commanded, write_command, read_command, Request
    <2> QED BY <1>2, <2>1
  <1>4. deferred # "BUS_RESET"
    BY DEF Basis, IInv, DeviceInv, TypeOK, deferred_action
  <1> QED BY <1>1, <1>2, <1>3, <1>4, DeviceSteps

\* The end is sent when the whole image is, and the last bytes of that are in the fifo.
LEMMA ToolEndsInPage ==
    ASSUME [DisturbedNext]_allVars, Basis, Placed, ImageChosen, LoadsInv, EndsWithTail
    PROVE  EndsInPage
  <1>1. SUFFICES ASSUME state = "DNLOAD_IDLE", state' = "MANIFEST_SYNC" PROVE fifo # 0
    BY DEF EndsInPage
  <1>2. ASSUME NEW c, NEW n, Request(c, n) PROVE c = "DNLOAD" /\ n = 0
    <2> DEFINE r == [cmd |-> c, n |-> n]
    <2>1. HandleByState(r)
      BY <1>1, <1>2
         DEF Request, dfu_request_with_arguments, ReportDescriptor, ReportState, LeaveDfu,
             normal_transition, core
    <2>2. c = "DNLOAD" /\ state_download_idle(n)
      BY <1>1, <2>1 DEF HandleByState, Stall, Fail, error_condition
    <2>3. n = 0
      BY <1>1, <2>2 DEF state_download_idle, Fail, error_condition, normal_transition
    <2> QED BY <2>2, <2>3
  <1>3. deferred # "DNLOAD"
    BY DEF Basis, IInv, DeviceInv, TypeOK, deferred_action
  <1>4. PICK c, n : HostStep /\ Commanded(c, n)
    BY <1>1, <1>2, <1>3, DeviceSteps
  <1>5. c = "DNLOAD" /\ n = 0
    BY <1>2, <1>4 DEF Commanded, write_command, read_command, Request
  <1>6. pc = "end" \/ (pc = "download" /\ Block = 0)
    BY <1>4, <1>5 DEF Commanded
  <1>7. OrderInv
    BY <1>1, <1>6 DEF Placed, Lost, Early
  <1>8. pc = "end" /\ accepted = image
    <2>1. ASSUME pc = "download" PROVE Block # 0
      <3>1. sent < image
        BY <1>7, <2>1 DEF OrderInv, Confirmed
      <3>2. image \in Nat /\ sent \in Nat
        BY Numbers DEF Basis, SentInv
      <3> QED BY <3>1, <3>2, Numbers DEF Block, Least
    <2> QED BY <1>6, <1>7, <2>1 DEF OrderInv, Confirmed
  <1>9. accepted # 0 /\ Multiple(programmed, P) /\ accepted = programmed + fifo
    BY <1>1 DEF LoadsInv, WholePages, Basis, IInv, DeviceInv, BytesAccounted
  <1>10. image \in Images
    BY <1>8, <1>9 DEF ImageChosen
  <1>11. programmed \in Nat
    BY Numbers DEF Basis, IInv, DeviceInv, TypeOK
  <1>12. ASSUME fifo = 0 PROVE FALSE
    <2>1. image = programmed
      BY <1>8, <1>9, <1>11, <1>12
    <2> QED BY <1>9, <1>10, <2>1 DEF EndsWithTail
  <1> QED BY <1>12

\* The poll that ends the manifestation finds the image of this run.
LEMMA StoredIfIdleStep ==
    ASSUME [DisturbedNext]_allVars, Basis, StoresInv, LossIsFound
    PROVE  StoredIfIdle'
  <1>1. SUFFICES ASSUME pc' = "check_end", state' = "DFU_IDLE"
                 PROVE  flash'.slot = "whole" /\ flash'.size = image'
    BY DEF StoredIfIdle
  <1>2. ~Kill /\ ~DevicePowerFails /\ ~Start
    BY <1>1 DEF Kill, DevicePowerFails, PowerFails, PowerCycle, Boot, Start
  <1>3. UNCHANGED image
    BY <1>2, ImageStays
  <1>4. [HostNext]_allVars
    BY <1>2 DEF DisturbedNext
  <1>5. OrderInv
    <2>1. ASSUME Lost, ~OrderInv PROVE FALSE
      <3>1. pc # "detach"
        BY <2>1, Settled DEF Lost, Place, InTransfer, StoresInv, Placed
      <3>2. Lost'
        BY <1>4, <2>1, <3>1, LostStep
      <3> QED BY <1>1, <3>2 DEF Lost
    <2>2. ASSUME Early, ~Lost, ~OrderInv PROVE FALSE
      BY <1>1, <1>4, <2>2, EarlyStep DEF StoresInv
    <2> QED BY <2>1, <2>2 DEF StoresInv, Placed
  <1>6. HostInv
    BY <1>5 DEF Basis, HostInv
  <1>7. CASE pc = "check_end" /\ UNCHANGED vars
    BY <1>1, <1>3, <1>7 DEF StoresInv, StoredIfIdle, vars, core
  <1>8. CASE PollManifest \/ PollDownload
    <2>1. PoliteRequest /\ state = "MANIFEST_SYNC" /\ UNCHANGED flash
      BY <1>1, <1>6, <1>8, PollsFollow
    <2>2. pc \in {"poll_download", "poll_manifest"}
      BY <1>8 DEF PollManifest, PollDownload, check_status, Sends
    <2>3. accepted = image
      BY <2>1, <2>2, <1>6, AtLabel DEF Place, Confirmed
    <2>4. HostRequest /\ Completes
      BY <1>1, <2>1 DEF PoliteRequest, HostRequest, Completes
    <2>5. DownloadDone
      BY <2>4, EndIsDone
    <2> QED BY <1>3, <2>1, <2>3, <2>5 DEF StoresInv, LoadsInv, EndsWhole
  <1>9. CASE UNCHANGED allVars
    BY <1>1, <1>7, <1>9 DEF allVars, controlVars, hostVars
  <1> QED BY <1>1, <1>4, <1>6, <1>7, <1>8, <1>9, EndIsPolled

LEMMA StoresStep ==
    ASSUME Basis, StoresInv, LossIsFound, EndsWithTail, [DisturbedNext]_allVars
    PROVE  StoresInv'
  <1>1. Placed'
    BY PlacedStep DEF StoresInv
  <1>2. ImageChosen'
    BY ImageStays DEF Start, ImageChosen, StoresInv
  <1>3. [Next]_vars
    BY DisturbedCommands, ControlStep DEF Basis
  <1>4. LoadsInv'
    BY <1>3, LoadsStep, ToolEntersByDetach, ToolEndsInPage DEF StoresInv, Basis
  <1>5. StoredIfIdle'
    BY StoredIfIdleStep
  <1> QED BY <1>1, <1>2, <1>4, <1>5 DEF StoresInv

\* A run that reports in its last check found the device in dfuIDLE.
LEMMA WriteReports ==
    ASSUME Basis, DisturbedNext, pc = "check_end", result' = "success"
    PROVE  state = "DFU_IDLE"
  <1>1. result # "success" /\ ~Lossy
    BY DEF Basis, ToolInv, Unreported
  <1>2. ~(CheckApp \/ CheckDetach \/ CheckDfu \/ CheckBlock)
    BY CheckLeads DEF CheckApp, CheckDetach, CheckDfu, CheckBlock
  <1>3. ~(FetchDescriptor \/ Detach \/ BusReset \/ Abort \/ InDfu \/ ReadError \/ SendClear
          \/ SendBlock \/ SendEnd \/ hal_revert_factory \/ hal_reboot)
    BY WriteLeads, ReadLeads
       DEF FetchDescriptor, Detach, BusReset, Abort, InDfu, ReadError, SendClear, SendBlock,
           SendEnd, hal_revert_factory, hal_reboot
  <1>4. ~(PollDownload \/ PollManifest \/ Fails \/ Start \/ upload_file)
    BY DEF PollDownload, PollManifest, check_status, Sends, Fails, Start, upload_file
  <1>5. ~(ServerStep \/ HostTick \/ Kill \/ DevicePowerFails)
    BY <1>1 DEF ServerStep, hostVars, HostTick, outcome, Kill, DevicePowerFails
  <1>6. CheckEnd
    BY <1>2, <1>3, <1>4, <1>5 DEF DisturbedNext, HostNext, HostStep
  <1>7. pc' = "hal_reboot"
    BY <1>1, <1>6 DEF CheckEnd, outcome
  <1> QED BY <1>1, <1>6, <1>7 DEF CheckEnd, check_state, Sends, Checked

\* Whenever the tool is killed and whenever the device loses power, for images that do
\* not end with a page: where losses are found out, what a later run reports written is
\* in the slot, whole.  (An image of whole pages may meet the flash_finalised of a run
\* that was killed.)
THEOREM KilledAndStored ==
    ASSUME Lossy = FALSE, LossIsFound, EndsWithTail
    PROVE  DisturbedSpec => SuccessMeansStored
  <1>1. HostInit => StoresInv
    BY DEF HostInit, ControlInit, Init, StoresInv, Placed, PollsWait, AppStates, Begins,
           Lost, ImageChosen, LoadsInv, Reset, LoadsErased, WholePages, EndsWhole, Loading,
           StoredIfIdle
  <1>2. SentInv /\ ControlTypeOK /\ IInv /\ ToolInv /\ StoresInv /\ [DisturbedNext]_allVars
          => StoresInv'
    BY StoresStep DEF Basis
  <1>3. SentInv /\ ControlTypeOK /\ IInv /\ ToolInv /\ StoresInv /\ [DisturbedNext]_allVars
          => [result' = "success" /\ pc = "check_end"
               => flash.slot = "whole" /\ flash.size = image]_allVars
    BY WriteReports DEF Basis, StoresInv, StoredIfIdle
  <1>4. DisturbedSpec => [](SentInv /\ ControlTypeOK /\ IInv /\ ToolInv)
    BY SentAlways, ToolAlways, HostDevice, Inductive, PTL DEF ImplementsDevice
  <1> QED BY <1>1, <1>2, <1>3, <1>4, PTL DEF DisturbedSpec, SuccessMeansStored
=============================================================================
