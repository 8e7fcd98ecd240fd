# A verification of lib_dfu

`lib_dfu` lets a host replace the upgrade image in the flash of an XMOS device, over
USB or over a control transport (I2C, SPI, xSCOPE). A host tool sends DFU requests; a
server on the device hands each one to a state machine, which buffers the blocks of an
image in a fifo and writes them to flash a page at a time, *between* requests, as
*deferred actions* of the server. This directory holds TLA+ models of that system,
the TLC runs that check them and TLAPS proofs about them.

Paths below are relative to the repository; `dfu.xc:333` is line 333 of
`lib_dfu/src/dfu.xc`.

## Inventory

| Component | State it keeps | Operations | Interacts through |
|---|---|---|---|
| Request state machine, `dfu.xc` | `state`, `status`, `dfu_fifo`, `read_length`, `flash_finalised` | one handler per state, `dfu_request_with_arguments`, `dfu_timeout_detach` | returns a response with a *deferred action*; calls the two below |
| Flash sub state machine, `dfu_sub_sm.xc` | `sub_state`, `poll_timeout` | erase start, erase cycles, page writes, manifest, clear | drains `dfu_fifo`, calls the flash session |
| Flash session, `flash/quad/dfu_flash.c` | `session` (device open, factory image, upgrade image and whether it is valid) | init, deinit, erase, write, finalise, start read, read | calls the XMOS flash library |
| Partition flash session, `flash/partition/dfu_flash.c` | a partition | the same, with other arguments | unsupported, see *Not modelled* |
| Control server, `control/dfu_control_server.xc` | `dfu_deferred_action` (one slot), its timer | read and write commands, the timer | calls the state machine, holds its deferred action 1 ms after the last command |
| USB server and requests, `usb/` | the DFU mode flag in RAM, which survives a reboot; `DFU_mode_active` | class and vendor requests, bus reset, (de)configuration, start-up | called by the application's endpoint 0 code; runs the deferred action before the call returns, or (in-band functions) has none |
| Reboot, `dfu_reboot.c`, `dfu_internal_reboot.xc` | none | a delay, then a reset node by node | called by the servers |
| Byte fifo, `modules/fifo.c` | ring buffer of one page | enqueue and dequeue, by byte and by block | shared by download and upload |
| I2C/SPI host tool, `host/dfu_i2c` | its place in a download or upload | detach and reset, download, upload, revert, reboot | commands to the control server |
| USB host tool, `host/xmosdfu` | the handle and interface of the device, its place in a transfer, the state last read | find, detach, download, upload, revert, return | control transfers through libusb |
| Suffix generator and verifier, `host/suffix_generator`, `host/libsuffix_verifier` | none | CRC and suffix of an image file | files; the verifier is called by the I2C tool |
| Command lines, `argument_parser.c`, `main` of `xmosdfu.cpp` | the options | parsing | decide what a tool does |

What is hard here:

* *Deferred actions.* A request is answered before its flash work is done. The control
  server keeps one action and runs it 1 ms after the last command, so by then other
  requests may have moved the state machine; a read command replaces or drops the
  action held (`dfu_control_server.xc:168`), a write command keeps it.
* *State in several places.* A download lives in `state`, in `sub_state`, in the fifo, in
  the static `flash_finalised`, in the flash session and in the flash library. They are
  reset in different places, or not at all.
* *Failures.* Each flash call may fail; some happen in a deferred action, whose answer
  nobody reads: the host learns of them at the next GETSTATUS.
* *A mode in two places.* Over USB the device restarts to change mode: the word in RAM that
  says so must last through the reboot and any number of bus resets, and no longer; what
  endpoint 0 thinks is the mode must be what the state machine on another tile thinks.
* *Crashes.* Power may go, and the host may be killed, at any point. The flash keeps
  what it has, the statics do not.

Correct means: the status tells the host the truth; no byte of an image is lost,
duplicated or padded in the middle; a download reported complete is stored complete; a
page is only ever programmed into an erased slot; an upload hands out a whole image;
the flash ports are given back to the application; a host that polls makes progress; a
device told to change mode gets there; an image file is told from a damaged one.

## Modules

| Module | Models | Proved about in |
|---|---|---|
| `DfuFlash` | the flash session and the slot; operators, no variables | `DfuDevice_proofs` |
| `DfuDevice` | state machine, sub state machine and session under any server and host; a host that follows the protocol | `DfuDevice_proofs`, `DfuPolite_proofs` |
| `DfuControl` | the control server around the device: the slot for a deferred action, the timer | `DfuControl_proofs` |
| `DfuHost` | the I2C host tool, run after run, with `DfuControl` and the device | `DfuHost_proofs` |
| `DfuUsb` | the USB server and endpoint 0 around the device: flag, mode, bus | `DfuUsb_proofs` |
| `Xmosdfu` | the USB host tool, run after run, with libusb, `DfuUsb` and the device | `Xmosdfu_proofs` |
| `ByteQueue` | what a fifo of bytes promises: a bounded queue of blocks | `Fifo_proofs` |
| `Fifo` | the ring buffer | `Fifo_proofs` |
| `Suffix` | checksum, suffix, generator, verifier, what the I2C tool makes of a file | `Algorithms_proofs` |
| `Devices` | the ids on the command line of `xmosdfu`, the search for a USB device | `Algorithms_proofs` |
| `Reboot` | the delay before a reboot, the order in which nodes are reset | `Algorithms_proofs` |
| `Algorithms` | the three above as one specification: an algorithm is picked, and an input of it | `Algorithms_proofs` |
| `Arguments` | the command line of `dfu_i2c` | |
| `MCDfuDevice`, `MCDfuHost`, `MCXmosdfu`, `MCAlgorithms`, `MCArguments` | sets of faults, and inputs of the algorithms, for TLC | |

Two towers stand on `DfuDevice` (which EXTENDS `DfuFlash`): `DfuControl` with `DfuHost` above
it, and `DfuUsb` with `Xmosdfu` above it. Each module adds variables to the one below and
conjoins its own with an action of it. `Fifo`, `Suffix`, `Devices`, `Arguments` and `Reboot`
stand beside them; `DfuDevice` needs no more of a fifo than the count and the refusals that
`ByteQueue` specifies.

### DfuFlash

An operation of the session is an operator from a record (session and slot) to the *set*
of results `[ret, flash]` it may have. The flash library is external: `slot` says what a
boot loader would make of the slot (`none`, `torn`, `whole`), `left` how many calls an
erase still needs, `erased` whether pages may follow. A failing call is one more result,
present when the constant `Faults` names it. What the library makes of a *torn* image
(partly erased or partly written) is a constant too, `TornFound`: it may take it for an
image or not. Left out: the page size check and `flash_get_image_size_from_buffer`, which
the state machine does not use.

### DfuDevice

Variables are the statics of `dfu.xc` and `dfu_sub_sm.xc`, with `fifo` the *count* of the
fifo, the flash record, the last response, the deferred action held by the server, and
three history counters: bytes of this download accepted and programmed, bytes of this
upload delivered. Each handler is an operator of its name, true of the steps in which it
answers the request; `dfu_request_with_arguments` puts the common code around them. A
step is one call, with every call it makes: a request answered (`HostRequest`), the
deferred action run (`RunDeferred`), a reboot the server owes (`dfu_reboot`), the detach
timeout, or a power cycle at any time.

A deferred action is run *as a request of its own* in the state the device is in by then.
`Holds` says what a server may keep when a response asks for nothing: what it has, or
nothing. That is what both servers do, and lets `Spec` speak for both, and for any host:
requests of every kind, size and order. `PoliteSpec` restricts the host to what the state
it can read provides for, and to waiting for deferred actions, as the host tools do with
the poll timeout. `PoliteFairSpec` adds that the server gets to its deferred action
(its timer fires when no command comes) and that the host polls (the loops of
`operations.c:200-213` and `:227-233` have no other exit).

Abstractions: bytes are counted, not stored; the states dfuDNBUSY and dfuMANIFEST exist
in answers only, as in the code; the block number is not used by the code; the length of
an answer is what an upload adds to `delivered`; profiling and printing are left out.
`MaxImage` bounds the image (a larger one would not fit `FLASH_MAX_UPGRADE_SIZE`) and with
it every counter.

### DfuControl

One variable is added, `elapsed`: a millisecond since the last command has passed or not.
A write command keeps the action held unless its answer brings another; a read command
that succeeds replaces it, by nothing too; `TimerExpires` empties the slot and runs what
was in it, whatever comes of that. `Tick` does not let time pass over a timer that is due.
A command that arrives while the server is busy with the flash waits until that is done
(the interface call blocks), so that each is one step. `ImplementsDevice` is the
specification of `DfuDevice`, checked of `ControlSpec` and proved of it.

### DfuHost

`pc` is the command the tool sends next, named for the function and place it comes
from; one step sends it, takes the answer and goes on to the next command, to the error
path that reads and clears the status (`read_error`, `clear`), or to the end of the run.
A run is one of the five operations of `main.c`. With `Lossy` a command may get lost
before or after the device has seen it; the tool then takes the path of a failed
command. Time is milliseconds, up to `SleepCap`: poll timeouts of 2 ms and more outlast the
1 ms of the server's timer, and which of them it is makes no difference to the tool.
`Kill` ends a run anywhere, `DevicePowerFails` restarts the device anywhere. `result` and
`failures` are history, and so is `received`: the bytes put into the file.

Left out: the connection check of `hal_connect`, which the control library answers; the
profile read at the end of a transfer, which changes nothing but the profile; the limit of
252 bytes on a block (a larger one fails at once); the block number, which is in `Suffix`.

Fairness: the tool is a loop without other waits than its sleeps (`WF(HostStep)`), the
server's `select` has the timer as the one enabled case while the tool sleeps
(`WF(ServerStep)`), and time passes (`WF(HostTick)`). Starting a run is not fair.

### DfuUsb

`flag` is the word in RAM, `mode_active` what endpoint 0 takes the mode to be, `bus` how far
the device has got since it started: `boot` (`dfu_check_init_state` is next), `forcing`
(`dfu_force_dfu_mode_active` is), `off`, `reset`, `configured`. The order of these calls is
that of the application and the USB library, which are external: an action's guard on `bus` is
all that is assumed of them. A call of the server is one step, or two when it defers
an action of the flash: `deferred` then holds the action between the two, and no other
request comes between, for the server is inside the call. A reboot is different: it is in
`deferred` while endpoint 0 sits in `dfu_reboot`, and only the power can interrupt it.
`EndpointReboots` keeps the flag, `UsbPowerFails` loses it: RAM after power-up is taken not to
hold the 32-bit magic word. A block longer than the transfer size is the one request the
server answers itself (`TooLong`).

Endpoint 0 hands on every class request with the number it came with
(`dfu_usb_requests.xc:178-185`), so a USB host may send more than the requests of DFU: the
bus reset with a value, with which endpoint 0 itself enters DFU mode (`EntryRequest`); the numbers of
the deferred actions (`RawActions`), which run a flash action that nothing deferred; numbers no
handler knows; and reads of any length, of which nothing checks the size (`LongRead`).
`UsbRequests` has them all. There are three specifications, for three kinds of host: `UsbSpec` for any,
`NoEntrySpec` for one that sends no bus reset with a value, `NoActionSpec` for one that sends no
number of a deferred action; `xmosdfu` is of all three. What the slot holds is not spoken of under the
first two: a raw write pads a page in the middle of an image, and pages are counted, not read. A
read of more than the transfer size that the fifo cannot serve is refused there, whatever its
length. One that it can serve (no more than a page, and the fifo has so much) writes past the server's
buffer (`dfu_usb_server.xc:25-30`): what happens then is undefined, and such a request is no step
of the model.

The control server does not look at the number of a command either; `DfuControl` is about hosts
that send the requests of DFU and no others.

### Xmosdfu

A step is one control transfer, made at `pc`. `control_transfer` is libusb: good when the
host gets the answer; failing because the device is gone or the interface is not its own; or
disturbed, before or after the device has acted. `lost` remembers for this run that
something but the flash disturbed it, `fresh` that the device was found with no transfer under
way. A handle dies with the device it was opened on (`devh`), so a device that
restarts or fails must be found again. `nextDfuState` is written by a GETSTATUS that
succeeds and by nothing else, as in the code. Between detach and the second search the tool
sleeps 20 s: `Reopen` finds the device once it is back, or, with `lost`, not in time.

Images are sizes; blocks are of the transfer size and the last one is padded to it
(`PaddedSize`), so `Stored` speaks of the padded image. Left out: failures of the file, and
`--listdevices`, which only prints. That revert and search take the time given to them (2 s,
20 s) is part of `Revert` and `Reopen`.

Fairness: the tool has no waits but its sleeps, and no fairness makes a transfer fail or
succeed against the device (`WF(ToolGoesOn)`, a step that leaves `lost` as it is); the
device boots, reboots and finishes its calls by itself, and the host enumerates what is
attached (`WF(DeviceStep)`). A run is never started, killed or disturbed by fairness.

### Suffix, Devices, Arguments and Reboot

A machine word is the set of its one-bits: shift, mask and exclusive or are then what they
are in C. A file is a sequence of bytes. `generate` and `verify_dfu_suffix` keep the order of
the checks, since the first that fails is the one reported, and the order of the
two `fopen`s. `Devices` works on characters, because the cutting of one string *is* the
algorithm that takes the ids out of it; what the cutting has to come to is `IdsAgree`, a
grammar. A number is read as the C library does and as the tool keeps it: white space, a sign
and `0x` may come first, what a long does not hold is the largest long, a minus counts from the other
end, and the conversion to `int` (`xmosdfu.cpp:473`) keeps the low bits (`IntRange` and
`LongRange` are constants), so that an id may come out negative, which in DFU mode is any device
(`xmosdfu.cpp:118`). `Arguments` works on words (whether a word is a number is what matters of it). An
option without its value makes the parser read the NULL behind the last word: such a run ends
`undefined`, which is not a run that goes on. `Reboot` has the timer's range as a
constant; tiles are numbers, two of them a node.

`Algorithms` makes of `Suffix`, `Devices` and `Reboot` one specification, whose inputs are
constants: sequences of bytes, texts, buses, delays, numbers of tiles. `MCAlgorithms` gives
them small sets; the theorems need no more of them than `InputAssumption`, which says what
kind of thing they are.

### ByteQueue and Fifo

`ByteQueue` holds a sequence of bytes: a block that fits is appended whole, one that is
there is taken off whole, anything else is refused and changes nothing. `Fifo` is
`modules/fifo.c`: storage that keeps what was left in it, head, tail and count, and blocks
copied in one part or two around the end. `ImplementsQueue` is the refinement, with the
`count` bytes from the tail onward as the queue.

## Runs

| Run | Bounds | Shows |
|---|---|---|
| `any_host` | page 2, block 2, image 3, 2 erase calls, all faults | the safety invariants and the padding rule under every order of requests; 571 238 states |
| `polite_host` | page 3, block 2, image 5, all faults but a page write | erased before programmed, complete means stored, polling ends; 19 683 states |
| `host` | page 2, block 2, images of 1 to 5 bytes, all faults but a page write | the I2C tool follows the protocol, success means stored, every run ends; 91 368 states |
| `host_uneven` | page 3, block 2, images up to 10, sector buffer 9, commands and answers lost | the sector buffer is not overrun, a file is complete; 634 678 states |
| `host_disturbed` | as `host` with images of 1, 3, 5 bytes, no faults; kills and power failures | the second run at the latest succeeds, success means stored, the control server implements the free server; 322 834 states |
| `xmosdfu` | page 4, block 2, images of 0, 1, 3, 5 bytes, 2 erase calls, all faults but an erase, a torn image not taken for one; USB build with in-band functions; kills, power failures, bus resets, lost transfers | the flag and the two modes stay right, endpoint 0 implements the free server, success means stored, a file is complete, revert means erased, whole images only are uploaded, every undisturbed run ends and leaves the device in its application; 144 961 states |
| `fifo` | storage of 3 bytes, 2 byte values | ring buffer refines queue; 512 states |
| `algorithms` | files of a few bytes; texts of up to six characters out of five and of four out of nine, and texts of two pairs of ids read in each way there is, for an int of 4 bits and a long of 8; two devices, command lines of up to four words out of nine, a timer of 64 ticks at 3 per ms | suffix, block numbers, ids, device search, reboot delay and order, each over all inputs of its set; `dfu_i2c` goes on for command lines of its usage text only; 292 984 states |
| `v_last_page`, `v_host_success`, `v_revert`, `v_xmosdfu` | the one fault that is needed, or none | the findings below |

A page of 2, 3 or 4 with blocks of 2 has blocks that divide the page and blocks that do
not, an image shorter than a page, of exactly a page and of more than one, and a
last page both full and partly filled. Two erase calls have a first and a last, and
the call that starts the erase comes before them. Images of 10 bytes are longer than the
sector buffer of `host_uneven`, which is a multiple of the page but not of the block, as
4096 is of 256 and not of 252. Storage of 3 bytes has a wrapped ring that is full, partly
filled and empty, with blocks split one and two ways. A timer of 64 ticks wraps, at both
ends of a delay, for every start.
Nothing in the code depends on these numbers beyond those distinctions, and the proofs do
without the bounds. `CHECK_DEADLOCK FALSE` is not about stopping: the device can always be
power cycled, and a tool always be run again.

What a run leaves out, it leaves out for a reason a reader can check:

* `polite_host` and `host` have no write fault, because a failed last page is not reported
  (finding 1).
* `host_disturbed` has no images of whole pages, which finding 2 is about.
* `xmosdfu` has no erase fault: a revert that does not erase is not reported (finding 3 has
  the same cause), and after an erase that fails `upgrade_image_valid` stays set
  (`quad/dfu_flash.c:99-111`, and `flash_init` does not clear it), so that a torn image is
  uploaded. For the same reason a torn image is not taken for one there (`TornFound` of 1, what
  `fl_getNextBootImage` returns then). Padded to blocks its images have 0, 2, 4 and 6 bytes: a
  part of a page, a page, and more.
* `SuccessMeansStored` and `FileIsComplete` of `Xmosdfu` speak of runs that found the device
  at rest (`fresh`): `v_xmosdfu` shows what happens to the others. `RunEnds` excepts a device at the bound of
  the image size (`AtBound`), which only the model has.

`RecoversInTwo` allows two runs where a reader may expect one. The first finds the device
in the middle of a download: its ABORT is an error in a sync state, and the run fails. The
second finds dfuERROR, clears it, and goes on.

The inductive invariants of the proofs were model-checked before they were proved. They are no
properties of the runs: their parts that say something of the code are. The host of the `xmosdfu`
run is `xmosdfu`; what holds of endpoint 0 with any other is proved, not run.

## Findings

1. `v_last_page`: the result of the last page write is overwritten by that of
   `flash_finalise_write` (`dfu_sub_sm.xc:211-220`).
2. `v_host_success`: `flash_finalised` (`dfu.xc:379`) survives a download given up after its
   image was finalised. A run killed in the manifest phase leaves it set; a later run
   reports "write upgrade successful" (`operations.c:263`) for an image of whole pages that
   was never finalised.
3. `v_revert`: the result of the deferred revert is dropped, and its failure to erase is not
   even in it (`dfu_control_server.xc:208`, `dfu.xc:263-284`): `revert_factory` exits with
   0 and the upgrade image stays (`tests/rpi/test_rpi.py:54-60` relies on the exit code).
4. `v_xmosdfu`: a run killed inside a download leaves the device in dfuDNLOAD_IDLE;
   `xmosdfu` begins without an abort, so the next run appends its image to those blocks,
   finalises the mixture and reports success (`xmosdfu.cpp:689`).

Smaller things met on the way are in the models without a run of their own:

* A class request with the number of `XMOS_DFU_BUS_RESET`, which is for other transports
  (`dfu_types.h:67`), and a value reaches the state machine over USB
  (`dfu_usb_requests.xc:180`): the application is then in dfuIDLE with the flash open, while
  `dfu_is_mode_active` says that DFU mode is not active. `ModeAndState` has the condition that
  no such request is sent.
* `flash_init` leaves the session connected when it cannot find the factory image
  (`quad/dfu_flash.c:30-47`), and every later operation goes on without one.
* The poll timeout of the manifest phase is still reported at the start of the next
  download (`dfu_sub_sm.xc:209`, `dfu.xc:360`).
* The I2C tool numbers blocks from 1 (`main.c:23-26`): the 32 768th sets the top bit of the
  16-bit block number, which the protocol reserves (`hal.c:117`). `BlockNumbersDiffer` holds
  up to there.
* A `hal_connect` that fails in a download ends the run with success (`main.c:39`).
* A command line of options only is caught by an `assert`, which a Release build does not
  have; a value that is no number counts as 0 (glibc); an option without a value reads the NULL
  behind the last word (`argument_parser.c:79`).
* The ids in a suffix are not compared by the I2C tool, which asks for 0xFFFF (any) always.
* The generator truncates its output before it has checked its input, also when both
  are one file.
* `xmosdfu` calls the download of an empty image complete (`xmosdfu.cpp:350`).
* `dfu_reboot` takes delays of more than half the turn of the timer, which are over at once.
  `RebootDelayKept` has the bound, and `DelayKept` proves it enough.
* The message of a download that is not quiet reads a whole block from the end of an image
  that has less (`operations.c:193`).

## Proofs

`DfuDevice_proofs` proves, for every page, block and image size with
`0 < block <= page`, every number of erase calls and every set of faults:

* `Inductive`: `Spec => []IInv`;
* from it `TypeCorrect`, `StatusIsError`, `FlashClosed`, `LessThanAPage`, `DownloadAccount`,
  `UploadAccount`, and the action property `PadsLastPageOnly` as `FullPages`.

`IInv` is `DeviceInv`, the invariants the runs check with what the manifest phase adds to
the account (`ManifestBound`: there a failed write may lose bytes, so the account becomes
an inequality), and `HeldWrite`. The first is inductive by itself; the second is what
`FullPages` needs, because a server may hold a write for as long as it likes: it then
finds a full page in DNLOAD_SYNC, or dfuERROR, or a sub state machine that has not
begun to write. The argument: `SessionType` and its neighbours type the results
of the flash calls; `QuietStep` and `BetweenTransfers` dispose of steps that move no
data or leave a transfer; `ProcessDnload`, `ProcessManifest`, `FirstBlockStep`,
`NextBlockStep` do the arithmetic of the fifo; one lemma per handler and `RequestStep`
put them together; `AnswerShape` describes what a request of the host may do to what the
server holds.

`DfuPolite_proofs` proves two promises to a host that follows the protocol. `ErasedFirst`:
a page goes into a slot that this session has erased to the end, whatever fails.
`DoneIsStored`: where page writes do not fail, or a torn image is not taken for a whole one
when it is looked for (`LossIsFound`, finding 1), a download reported done is in the slot
whole. `PoliteInv` adds five parts to `IInv`: outside a download the sub state machine is
in its sync state (`SyncOutside`), inside one it writes to an erased slot (`WritesErased`); an
image that is finalised waits in MANIFEST_SYNC, with nothing buffered or held
(`FinalisedWaits`), where `flash_finalised` is told from the flag a former download left behind;
no byte is lost (`AllProgrammed`) and what is finalised is whole (`FinalisedWhole`).

`TailIsStored` is for a host that follows no protocol: it sends what it likes and breaks off
where it likes, and the next one may go on from there. Where losses are found out, a download
reported done is still in the slot whole, on two conditions. No download ends with an empty fifo
(`EndsInPage`): then the `flash_finalised` a former download left behind would be taken for this
one's (finding 2). And DFU mode is entered by a detach (`EntersByDetach`): a bus reset
with the DFU flag set does not clear the sub state machine. `LoadsInv` takes the
place of `PoliteInv`: `SyncOutside` shrinks to `Reset`, the states a transfer can begin in;
`LoadsErased` and `EndsWhole` speak of the states of a download and nothing else, and what was
`FinalisedWaits` holds only of a flag that `DownloadDone` believes. `WholePages` is new: up to
the end of a download whole pages are programmed, so the bytes behind the last page
boundary are in the fifo when it comes.

`DfuControl_proofs` proves that the control server implements the device
(`ControlImplements`), so that everything above holds behind it. A command is a
`HostRequest` if what the slot is left with is among what `Holds` allows, and the timer is a
`RunDeferred` only if the slot does not hold a reboot into DFU mode. The first rests on
`RequestAsks`, one lemma per handler: only a successful answer defers anything (a read that
fails leaves the slot alone, and would lose what it asked for), and only DETACH asks for the
reboot into DFU mode. The second is `SlotType`, the invariant: DETACH is a write, which
ignores it.

`DfuHost_proofs` proves what the runs of `DfuHost` show, for images, pages, blocks and sector
buffers of any size. Whatever is lost, killed or cut off (`DisturbedSpec`), the tool does to the
server what a host may do (`ToolUsesServer`, `HostDevice`), never overruns its sector buffer
(`HostTypes`), and a file it reports complete has every byte (`FileComplete`). Besides the
types `ToolInv` says when the file is still empty (`FileEmpty`), in which modes the tool gets
to its operation (`Entered`) and that nothing is reported early (`Unreported`); what carries
the proof is `Uploading`: bytes in the tool's buffer
and bytes in the device's fifo together make whole pages as long as the block divides the page
(`PagesFit`), so that there is room for the next block whenever it is asked for, and a block
that does not divide the page is refused by the device (`dfu.xc:160-166`) before it could
matter. Undisturbed (`HostSpec`, `Lossy` FALSE), the tool follows the protocol (`ToolFollows`),
whatever fails in the flash: `OrderInv` says for each command which states the device may be in
(`Place`), what the server may hold (`Held`), that the tool sleeps until that is done (`Waits`,
which needs every poll timeout to outlast the timer, `PollsWait`), and that the tool has
confirmed what the device has accepted (`Confirmed`). With it everything `DfuPolite_proofs`
promises holds for this tool, and so what it reports written is stored (`SuccessIsStored`) under
`LossIsFound`.

Kills and power failures break that order, but not for long. What is not in order is `Lost` (the
device has started over and is in its application, whatever the run takes it for) or `Early`
(the run has not relied on the device's state yet, and what it sends until then leads to dfuERROR,
to the application or into order): `PlacedStep`, whatever fails in the flash. On it rest two
theorems about `DisturbedSpec`, with `Lossy` FALSE.

* `SecondRunWorks`: of two runs in a row that are left alone the second at the latest succeeds.
  A run that fails leaves a device at which the next can begin (`Fallen`), and the
  run after it is `Sound`: in order, with a device that can go on to the end (`Able`: each
  deferred action succeeds and brings the end nearer to a reported success) and at none of the
  labels that lead to a failure (`OnCourse`). Such a run stays so until it reports, and then
  it reports a success (`GoesOn`, one lemma per kind of command). Two hypotheses (`Working`): no flash
  call fails, and a page is a whole number of blocks. Without either the claim is false: a call
  may fail in each run, and blocks that do not divide the page are refused in each.
* `KilledAndStored`: what a run reports written is stored, under `LossIsFound` and for images that do
  not end with a page (`EndsWithTail`); for the others finding 2 is the counterexample. The
  tool meets the two conditions of `TailIsStored`: it sends the end when it
  has confirmed the whole image (`ToolEndsInPage`), and never the DFU flag
  (`ToolEntersByDetach`). So the poll that leads to the last check ends the download of this
  image (`StoredIfIdleStep`), and a success is reported from dfuIDLE only (`WriteReports`).

`DfuUsb_proofs` proves of endpoint 0, in every build, what it promises to each kind of host. To
any: `FlagAndReboot` (the flag says where a reboot that is due leads) and `ResetEndsDfu` (a bus
reset of an enumerated device ends DFU mode), from `EndpointInv` (`EndpointInductive`): what the
boot has reached, and that a flag that is set is on its way through a reboot or has put the
device in dfuIDLE. To one that sends no bus reset with a value: `ModeAndState` (endpoint 0 and the
state machine agree on the mode), from `UsbInv`, which adds `ModeKnown`: the modes
agree from the end of the boot on (`UsbInductive`). To one that sends no number of a deferred
action: `UsbImplements`, the same as `ControlImplements` says of the control server; a bus
reset with a value is a request of `DfuDevice` too, and unknown numbers and lengths are
refused. Without its condition each of the last two is false: a bus reset with a value, in
appIDLE, sets the two modes apart, and a flash action nobody deferred is no step of `DfuDevice`.
`Xmosdfu_proofs` shows that the tool makes no other calls and sends none of these requests
(`ToolUsesEndpoint`), so that all this holds with the tool at the other end of the bus
(`ToolModes`, `ToolDevice`), and then
what the tool promises at the end of a run, through kills, power failures, bus resets and
transfers that fail either way:

* `CompleteFile`, under every fault: a file reported uploaded has every byte;
* `WholeUploads`: an upload is of a whole image, if no erase fails and a torn image is found out
  (`TornFound`);
* `SuccessIsWritten`: what is reported downloaded is in the slot whole, under `LossIsFound`;
* `RevertIsDone`: after a revert reported done there is no image, under `RevertIsTold` (an
  erase does not fail, and the flash opens or the build has the call that tells).

`DeviceOfTool` says that the invariants of the device, of endpoint 0 and of a host that follows
the protocol hold together (`ToolKeepsDevice`): `xmosdfu` polls before it goes on and so asks
for nothing before the device is done, even where it does not look at what the poll says.
`ToolCounts` relates what is sent and received to the image. `ToolPlaces` says for each call of
a run what the device has been brought to if the run found it at rest (`fresh`), its handle is
open and the bus has not been reset (`Live`): each stage of a run, `InBlocks`, `DownloadEnds`,
`InUpload`, `RevertEnds`, is an implication from these. A call that fails ends the run or
leaves the place; a reset makes the handle stale, so that nothing the tool does after it
counts.

`Fifo_proofs` proves, for storage of any size and any set of bytes, that the ring keeps its
ranges and its shape (`RingType`, `HeadAndCount`: head is count places after tail) and implements
the queue (`RingIsQueue`). `EnqueueBlock` and `DequeueBlock` say what an operation does byte by
byte, whether it copies one part or two; `Place` arithmetic turns places around the end into
places in the queue, and `StepShape` shows each to be the queue's.

`Algorithms_proofs` proves seven of the properties of `Algorithms` for every input there can be:

* `RoundTrip`: `BytesOfWord` puts a word together again from its bytes, `FileWithTail` finds
  the sixteen bytes behind an image of any length and the image in front of them,
  `SuffixFields` the ids in them, and `VerifierReads` when all seven checks pass. What the
  checksum is does not matter here, only that both sides take it of the same bytes.
* `DamageIsTold`: two runs of the checksum whose bits differ only within 32 places, and there
  at least once, end in different registers (`ChecksumTells`). A bit that enters is the top one,
  and the difference of two registers takes a step as a register does (`BitLinear`); so the lowest
  bit of the difference has not yet reached the bottom when the 32 places are over, and from
  there on, the bits being the same, a difference cannot become none: the polynomial has its top
  bit. Up to four damaged bytes of the image are 32 such places (`BytesTell`); damage of the
  suffix alters a field the verifier compares (`TailTells`). The registers are defined by
  recursion over the bits: `StepsExist` gets them for any length from a least length there would be none for.
* `NumbersDiffer`: a limit of 32 768 blocks is one that 16 bits can count.
* `IdsAreKept`: the checks on the places of colons and commas let through exactly the texts
  of the grammar, and each id is what its own part says, with whatever sign, prefix, white
  space and digits. `EndFound` and `EndIs` say where characters of one kind end; `NumberCut` that
  white space, sign, prefix and digits all end before a colon or comma, so that what is behind one
  changes no number before it (`PartCut`); `NoValue` that nothing in front of one is no
  number, which is why the early exits ask for no more than the grammar (`NotRefused`).
  `ColonOfPart` and `PairOfPart` read a part of a text in the text itself. Of a part of digits
  alone that an int holds `PlainIsRead` says that the conversions change nothing.
* `DeviceIsFound`: no other device matches, in either mode, unless an id of DFU mode is negative.
* `TimeIsGiven` (from `DelayKept`) and `NodesReached` (from `NodesReset`): remainders around
  the end of the timer, and halves of tile numbers.

The least element of a set of numbers is what strings and buses are searched for:
`LeastNumber` gets it from the well-foundedness of the numbers (`WFMin`), which takes sets and not
an operator.

Model-checked only: `ArgumentsFollowUsage`, whose parser is a RECURSIVE operator, and liveness
(`BusyEnds`, `RunEnds`, `EntersDfu`, `ReturnsToApp`), which is out of the prover's reach.

## Not modelled

* *Partition flash session*, `flash/partition/dfu_flash.c`. It is chosen by `DFU_ENABLE` of 2, which
  no configuration of the repository sets; its first lines (`:16`) call it no longer supported
  and historical, and it does not define the operations the state machine calls. There is no system to model.
* *Flash stubs*, which return success and do nothing.
* `libusb.h` in its three vendored copies (6 452 of the 10 743 lines of the implementation).
  libusb is external: `Xmosdfu` has of it what the tool uses.
* Descriptors (what they say of modes and timeouts is in `DfuUsb`, their other attributes are
  data), profiling, messages, and the board code of the examples.

## Plan

Done: the device and its flash session, the fifo, both servers, both tools, the suffix, the
command lines, the reboot; the safety of the device and of its servers proved, for any host
and for one that follows the protocol; the safety of both tools proved down to the slot, of the
I2C tool through kills and power failures; the
algorithms proved for every input but the command line of `dfu_i2c`.

Every safety property the passing runs check is stated by a theorem, with one exception.
Left: `ArgumentsFollowUsage`, a statement about every command line, by induction over its words.
