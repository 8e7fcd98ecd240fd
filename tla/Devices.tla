------------------------------ MODULE Devices ------------------------------
(***************************************************************************)
(* The vendor and product ids xmosdfu is given, and the device on the bus  *)
(* they pick (xmosdfu.cpp).  A text that is looked into is the sequence of *)
(* its characters.                                                         *)
(***************************************************************************)
EXTENDS Integers, SequencesExt, FiniteSetsExt

CONSTANTS
    IntRange,       \* the host's int: -(IntRange \div 2) .. IntRange \div 2 - 1
    LongRange       \* its unsigned long: 0 .. LongRange - 1

ASSUME IntAssumption ==
    /\ IntRange \in Nat \ {0} /\ IntRange % 2 = 0
    /\ LongRange \in Nat /\ IntRange <= LongRange

-----------------------------------------------------------------------------
(* The ids and the command.                                                *)

HexDigits == {"0", "1", "2", "3", "4", "5", "6", "7", "8", "9",
              "a", "b", "c", "d", "e", "f", "A", "B", "C", "D", "E", "F"}

Digit ==
    [c \in HexDigits |->
       CASE c = "0" -> 0 [] c = "1" -> 1 [] c = "2" -> 2 [] c = "3" -> 3
         [] c = "4" -> 4 [] c = "5" -> 5 [] c = "6" -> 6 [] c = "7" -> 7
         [] c = "8" -> 8 [] c = "9" -> 9
         [] c \in {"a", "A"} -> 10 [] c \in {"b", "B"} -> 11 [] c \in {"c", "C"} -> 12
         [] c \in {"d", "D"} -> 13 [] c \in {"e", "E"} -> 14 [] c \in {"f", "F"} -> 15]

Spaces == {" "}     \* one character stands for all white space

Comma == ","        \* between the ids of either mode

\* Place of the first c from place on; 0 when there is none.
strchr(text, c, place) ==
    LET at == { i \in place .. Len(text) : text[i] = c }
    IN  IF at = {} THEN 0 ELSE Min(at)

At(text, place, chars) == place \in DOMAIN text /\ text[place] \in chars

\* The first place from place on with a character that is none of these.
EndAt(text, place, chars) ==
    LET other == { i \in place .. Len(text) : text[i] \notin chars }
    IN  IF other = {} THEN Len(text) + 1 ELSE Min(other)

SignPlace(text) == EndAt(text, 1, Spaces)

\* Where the digits begin: behind white space, a sign, and a 0x with a digit after.
NumberPlace(text) ==
    LET sign  == SignPlace(text)
        place == IF At(text, sign, {"+", "-"}) THEN sign + 1 ELSE sign
    IN  IF /\ At(text, place, {"0"}) /\ At(text, place + 1, {"x", "X"})
           /\ At(text, place + 2, HexDigits)
        THEN place + 2 ELSE place

Value(digits) == FoldLeft(LAMBDA n, c : 16 * n + Digit[c], 0, digits)

\* The long that is read: the largest for what does not fit, and with a minus the
\* number from the other end.
ToLong(number, negative) ==
    IF number >= LongRange THEN LongRange - 1
    ELSE IF negative THEN (LongRange - number) % LongRange ELSE number

\* A conversion to int keeps the low bits.
ToInt(long) ==
    LET low == long % IntRange
    IN  IF low < IntRange \div 2 THEN low ELSE low - IntRange

\* (int)strtoul, base 16, takes the digits there are and leaves the rest.
strtoul(text) ==
    LET first  == NumberPlace(text)
        end    == EndAt(text, first, HexDigits)
        number == Value(SubSeq(text, first, end - 1))
    IN  [digits |-> end - first,
         value  |-> ToInt(ToLong(number, At(text, SignPlace(text), {"-"})))]

From(text, place) == SubSeq(text, place, Len(text))

IsValue(text) == strtoul(text).digits > 0

\* Every early exit is one disjunct.
Refused(text) ==
    LET comma == strchr(text, Comma, 1)
        colon == strchr(text, ":", 1)
        dfu   == strchr(text, ":", comma + 1)
    IN  \/ comma = 1
        \/ colon = 0
        \/ comma # 0 /\ colon > comma
        \/ colon = 1
        \/ From(text, colon + 1) = <<>> \/ text[colon + 1] = Comma
        \/ ~IsValue(text) \/ ~IsValue(From(text, colon + 1))
        \/ comma # 0 /\ \/ dfu = 0
                        \/ dfu = comma + 1
                        \/ From(text, dfu + 1) = <<>>
                        \/ ~IsValue(From(text, comma + 1))
                        \/ ~IsValue(From(text, dfu + 1))

\* Mutant: the ids of DFU mode are looked for from the start.
parse_device_vid_pid_again(text) ==
    LET comma == strchr(text, Comma, 1)
        colon == strchr(text, ":", 1)
        Id(place) == strtoul(From(text, place)).value
    IN  [match_vendor      |-> Id(1),
         match_product     |-> Id(colon + 1),
         match_vendor_dfu  |-> IF comma = 0 THEN -1 ELSE Id(comma + 1),
         match_product_dfu |-> IF comma = 0 THEN -1 ELSE Id(colon + 1)]

\* The ids of a text that is not refused; in DFU mode a negative one, the -1 of an id
\* not given too, stands for any.
parse_device_vid_pid(text) ==
    LET comma == strchr(text, Comma, 1)
        colon == strchr(text, ":", 1)
        Id(place) == strtoul(From(text, place)).value
    IN  [match_vendor      |-> Id(1),
         match_product     |-> Id(colon + 1),
         match_vendor_dfu  |-> IF comma = 0 THEN -1 ELSE Id(comma + 1),
         match_product_dfu |-> IF comma = 0 THEN -1
                               ELSE Id(strchr(text, ":", comma + 1) + 1)]

\* The arguments main goes on with to look for a device; words after them are not
\* looked at.
xmosdfu_accepts(text, command, files) ==
    /\ ~Refused(text)
    /\ command \in {"--download", "--upload", "--revertfactory"}
    /\ command # "--revertfactory" => files > 0
    /\ parse_device_vid_pid(text).match_product # 0

-----------------------------------------------------------------------------
(* The device.  A device is its ids and its interfaces, those of another   *)
(* class than DFU with protocol "none".                                    *)

\* Mutant: a device in DFU mode is wrong only when both ids are.
MatchesInterface_either(device, interface, ids) ==
    CASE interface.protocol = "RUNTIME" ->
           device.vendor = ids.match_vendor /\ device.product = ids.match_product
      [] interface.protocol = "DFU" ->
           \/ ids.match_vendor_dfu < 0 \/ ids.match_vendor_dfu = device.vendor
           \/ ids.match_product_dfu < 0 \/ ids.match_product_dfu = device.product
      [] OTHER -> FALSE

MatchesInterface(device, interface, ids) ==
    CASE interface.protocol = "RUNTIME" ->
           device.vendor = ids.match_vendor /\ device.product = ids.match_product
      [] interface.protocol = "DFU" ->
           /\ ids.match_vendor_dfu < 0 \/ ids.match_vendor_dfu = device.vendor
           /\ ids.match_product_dfu < 0 \/ ids.match_product_dfu = device.product
      [] OTHER -> FALSE

probe_configuration(device, ids) ==
    { i \in DOMAIN device.interfaces : MatchesInterface(device, device.interfaces[i], ids) }

\* The first device of the list that matches is opened, if any (0), with the first
\* of its interfaces that does.
find_xmos_device(devices, ids) ==
    LET found == { d \in DOMAIN devices : probe_configuration(devices[d], ids) # {} }
    IN  IF found = {} THEN [device |-> 0, XMOS_DFU_IF |-> 0]
        ELSE LET d == Min(found)
             IN  [device |-> d,
                  XMOS_DFU_IF |->
                      devices[d].interfaces[Min(probe_configuration(devices[d], ids))].number]

-----------------------------------------------------------------------------
(* Properties.                                                             *)

\* Either side of the first comma is an id, a colon and an id, and each id is what
\* its own part of the text says, whatever comes after it: this, and a product that
\* is not 0, is what the checks on the places of colons and commas let through.  A
\* part of digits alone is its number, if an int holds it; any other part, with a
\* prefix or more behind its digits, is what strtoul makes of it.
Pair(text) ==
    LET colon == strchr(text, ":", 1)
    IN  colon # 0 /\ IsValue(SubSeq(text, 1, colon - 1)) /\ IsValue(From(text, colon + 1))

IsPlain(part) ==
    /\ part # <<>> /\ \A i \in DOMAIN part : part[i] \in HexDigits
    /\ Value(part) \in 0 .. IntRange \div 2 - 1

Meant(part) == IF IsPlain(part) THEN Value(part) ELSE strtoul(part).value

PairIds(text) ==
    LET colon == strchr(text, ":", 1)
    IN  << Meant(SubSeq(text, 1, colon - 1)), Meant(From(text, colon + 1)) >>

IdsAgree(text, command, files) ==
    LET comma   == strchr(text, Comma, 1)
        runtime == IF comma = 0 THEN text ELSE SubSeq(text, 1, comma - 1)
        dfu     == From(text, comma + 1)
        ids     == parse_device_vid_pid(text)
        good    == Pair(runtime) /\ (comma # 0 => Pair(dfu)) /\ PairIds(runtime)[2] # 0
    IN  /\ xmosdfu_accepts(text, command, files)
             <=> good /\ (command = "--revertfactory"
                          \/ (command \in {"--download", "--upload"} /\ files > 0))
        /\ good => /\ <<ids.match_vendor, ids.match_product>> = PairIds(runtime)
                   /\ <<ids.match_vendor_dfu, ids.match_product_dfu>>
                        = IF comma = 0 THEN <<-1, -1>> ELSE PairIds(dfu)

\* When all four ids are given, a device that has the run-time ids is the one that
\* is opened, and after its detach the one that is found again, whatever else
\* is on the bus in either mode, as long as no other device has either pair of
\* ids.  Without the ids of DFU mode, or with negative ones, any device in it would do.
Detached(device, ids) ==
    [vendor |-> ids.match_vendor_dfu, product |-> ids.match_product_dfu,
     interfaces |-> <<[number |-> 0, protocol |-> "DFU"]>>]

FindsTheSame(devices, ids) ==
    \A d \in DOMAIN devices :
      LET runtime == <<ids.match_vendor, ids.match_product>>
          dfu     == <<ids.match_vendor_dfu, ids.match_product_dfu>>
          after   == [devices EXCEPT ![d] = Detached(@, ids)]
          VidPid(e) == <<devices[e].vendor, devices[e].product>>
      IN  /\ VidPid(d) = runtime /\ dfu[1] >= 0 /\ dfu[2] >= 0
          /\ \E i \in DOMAIN devices[d].interfaces :
               devices[d].interfaces[i].protocol = "RUNTIME"
          /\ \A e \in DOMAIN devices \ {d} : VidPid(e) \notin {runtime, dfu}
          => /\ find_xmos_device(devices, ids).device = d
             /\ find_xmos_device(after, ids) = [device |-> d, XMOS_DFU_IF |-> 0]
=============================================================================
