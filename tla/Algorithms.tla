----------------------------- MODULE Algorithms -----------------------------
(***************************************************************************)
(* The algorithms of Suffix, Devices and Reboot, and what each promises of *)
(* every input: a behaviour picks an algorithm and one of its inputs.      *)
(***************************************************************************)
EXTENDS Suffix, Devices, Reboot

CONSTANTS
    Payloads,       \* images: sequences of bytes
    Numbers,        \* numbers on the generator's command line
    DeviceIds,      \* ids a device asks the verifier for
    Damages,        \* bits that are turned over in the bytes from a place on
    ImageLengths,   \* bytes
    BlockSizes,     \* bytes
    Texts,          \* ids on xmosdfu's command line, by their characters
    ToolOptions,    \* options on xmosdfu's command line
    Buses,          \* lists of devices
    WantedIds,      \* ids a device is looked for with
    Delays,         \* milliseconds
    TileCounts      \* tiles of a device

ASSUME InputAssumption ==
    /\ Payloads \subseteq Seq(Word(8))
    /\ \A damage \in Damages : damage \in Seq(Word(8)) /\ Len(damage) <= 4
    /\ DeviceIds \subseteq Word(16)
    /\ ImageLengths \subseteq Nat /\ BlockSizes \subseteq Nat
    /\ \A text \in Texts : text \in Seq(ToSet(text))
    /\ \A bus \in Buses : bus \in Seq(ToSet(bus))
    /\ \A bus \in Buses : \A device \in ToSet(bus) :
           device.interfaces \in Seq(ToSet(device.interfaces))
    /\ \A ids \in WantedIds : ids.match_vendor_dfu \in Int /\ ids.match_product_dfu \in Int
    /\ Delays \subseteq Int
    /\ TileCounts \subseteq Nat \ {0}

VARIABLES algorithm, input

-----------------------------------------------------------------------------
Init == algorithm = "none" /\ input = <<>>

Pick(name, inputs) ==
    /\ algorithm = "none"
    /\ algorithm' = name /\ input' \in inputs

Next ==
    \/ Pick("generate", Payloads \X Numbers \X Numbers \X DeviceIds \X DeviceIds)
    \/ Pick("damage",
            UNION { {bytes} \X (1 .. Len(bytes) + SUFFIX_BYTES) \X Damages : bytes \in Payloads })
    \/ Pick("blocks", ImageLengths \X BlockSizes)
    \/ Pick("ids", Texts \X ToolOptions \X {0, 1})
    \/ Pick("devices", Buses \X WantedIds)
    \/ Pick("delay", (0 .. TimerRange - 1) \X Delays)
    \/ Pick("nodes", UNION { {tiles} \X (0 .. tiles - 1) : tiles \in TileCounts })

Spec == Init /\ [][Next]_<<algorithm, input>>

-----------------------------------------------------------------------------
(* The properties of the algorithms, of the input picked.                  *)

\* The verifier accepts what the generator writes (dfu_suffix_generator.c:27-109,
\* suffix_verifier.c:28-107), and the tool loads the whole image and no more.
SuffixRoundTrip ==
    algorithm = "generate" =>
        \A last \in {<<>>, <<input[3]>>} :
          GeneratedIsAccepted(<<input[2], {1}>> \o last, input[1],
                              [vendor |-> input[4], product |-> {1}, bcd |-> input[5]])

\* Damage outside the ids is always found (crc.c, suffix_verifier.c:45-82).
SuffixFindsDamage ==
    algorithm = "damage" => DamageIsFound(input[1], input[2], input[3])

\* Block numbers do not go round (main.c:23-37, hal.c:99-117).
BlockNumbersDiffer == algorithm = "blocks" => BlocksAreTold(input[1], input[2])

\* xmosdfu goes on with the ids its user wrote (xmosdfu.cpp:465-622).
IdsAreThoseGiven ==
    algorithm = "ids" => IdsAgree(input[1], input[2], input[3])

\* xmosdfu finds the device it has detached (xmosdfu.cpp:75-165, 639-660).
SameDeviceFound ==
    algorithm = "devices" => FindsTheSame(input[1], input[2])

\* The answer is given the time that was asked for (dfu_internal_reboot.xc:9-15).
RebootDelayKept ==
    algorithm = "delay" => DelayIsKept(input[1], input[2])

\* No node is left out of a reboot (dfu_internal_reboot.xc:49-89).
RebootReachesNodes ==
    algorithm = "nodes" => EveryNodeOnce(input[1], input[2])
=============================================================================
