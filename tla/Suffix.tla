------------------------------- MODULE Suffix -------------------------------
(***************************************************************************)
(* The DFU file suffix: host/suffix_generator writes an image file with    *)
(* it, host/libsuffix_verifier checks it, and dfu_i2c takes off what is    *)
(* then the image (input_reader.c, main.c).                                *)
(*                                                                         *)
(* A machine word is the set of its bits that are one, so that a shift, a  *)
(* mask and an exclusive or are what they are in C at any width.  A file   *)
(* is a sequence of bytes.                                                 *)
(***************************************************************************)
EXTENDS Naturals, SequencesExt, FiniteSetsExt

Word(bits) == SUBSET (0 .. bits - 1)
Ones(bits) == 0 .. bits - 1

Xor(a, b) == (a \ b) \cup (b \ a)

\* The n-th byte of a word, and the word of a sequence of bytes, low byte first:
\* htole16 and htole32 with the serialisation of the struct.
ByteOf(w, n) == { bit - 8 * n : bit \in { b \in w : b \div 8 = n } }

ToBytes(w, size) == [ i \in 1 .. size |-> ByteOf(w, i - 1) ]

FromBytes(bytes) ==
    UNION { { bit + 8 * (i - 1) : bit \in bytes[i] } : i \in DOMAIN bytes }

-----------------------------------------------------------------------------
(* crc.c.                                                                  *)

crc_init == Ones(32)

CRC_POLYNOMIAL == {5, 8, 9, 15, 19, 20, 21, 23, 24, 26, 27, 29, 30, 31}  \* 0xEDB88320

\* Mutant: the polynomial is or-ed into the register.
crc_bit_or(crc, top) ==
    LET shifted == { bit - 1 : bit \in crc \ {0} } \cup top
    IN  IF 0 \in crc THEN shifted \cup CRC_POLYNOMIAL ELSE shifted

\* One bit enters at the top and one leaves at the bottom.
crc_bit(crc, top) ==
    LET shifted == { bit - 1 : bit \in crc \ {0} } \cup top
    IN  IF 0 \in crc THEN Xor(shifted, CRC_POLYNOMIAL) ELSE shifted

\* The n-th bit that enters, where it does: the lowest of a byte is the first.
TopBit(bytes, n) == IF n % 8 \in bytes[n \div 8 + 1] THEN {31} ELSE {}

\* The register after each bit, a call of crc_step for eight of them.
crc_steps(bytes) ==
    LET crc[n \in 0 .. 8 * Len(bytes)] ==
            IF n = 0 THEN crc_init ELSE crc_bit(crc[n - 1], TopBit(bytes, n - 1))
    IN  crc

crc_finish(crc) == Ones(32) \ crc

checksum(bytes) == crc_finish(crc_steps(bytes)[8 * Len(bytes)])

-----------------------------------------------------------------------------
(* dfu_suffix.h.                                                           *)

DFU_SIGNATURE == << {2, 6}, {1, 2, 6}, {0, 2, 4, 6} >>   \* "DFU"
DFU_BCD       == {4, 8}                                   \* 0x0110
IGNORE_ID     == Ones(16)                                 \* 0xFFFF
SUFFIX_BYTES  == 16
suffix_length == {4}                                      \* 16

\* The fields in the order of the packed struct.
SuffixBytes(crc, ids) ==
    ToBytes(crc, 4) \o <<suffix_length>> \o DFU_SIGNATURE \o ToBytes(DFU_BCD, 2)
    \o ToBytes(ids.vendor, 2) \o ToBytes(ids.product, 2) \o ToBytes(ids.bcd, 2)

Ids == [vendor : Word(16), product : Word(16), bcd : Word(16)]

-----------------------------------------------------------------------------
(* dfu_suffix_generator.c.                                                 *)

\* A file: whether it can be opened, and its bytes.
NoFile == [opens |-> FALSE, bytes |-> <<>>]
File(bytes) == [opens |-> TRUE, bytes |-> bytes]

\* Two or three numbers, cut to 16 bits; the release number may be left out.
IdsOf(numbers) ==
    [vendor  |-> numbers[1] \cap Ones(16),
     product |-> numbers[2] \cap Ones(16),
     bcd     |-> IF Len(numbers) = 3 THEN numbers[3] \cap Ones(16) ELSE IGNORE_ID]

WithSuffix(bytes, ids) == bytes \o Reverse(SuffixBytes(checksum(bytes), ids))

\* Mutant: the checksum covers the suffix it is part of, as the USB document has it.
generate_covering(numbers, in, out) ==
    LET ids == IdsOf(numbers)
    IN  IF {} \in {ids.vendor, ids.product, ids.bcd} \/ ~in.opens \/ ~out.opens
        THEN [exit |-> 1, out |-> out]
        ELSE [exit |-> 0,
              out |-> File(in.bytes \o
                           Reverse(SuffixBytes(checksum(in.bytes \o DFU_SIGNATURE), ids)))]

\* A run of the generator: its exit code and the output file after it, which is
\* emptied before it is known whether there is an input.
generate(numbers, in, out) ==
    LET ids == IdsOf(numbers)
    IN  IF {} \in {ids.vendor, ids.product, ids.bcd}
        THEN [exit |-> 1, out |-> out]
        ELSE IF ~in.opens \/ ~out.opens
        THEN [exit |-> 1, out |-> IF out.opens THEN File(<<>>) ELSE out]
        ELSE [exit |-> 0, out |-> File(WithSuffix(in.bytes, ids))]

-----------------------------------------------------------------------------
(* suffix_verifier.c.                                                      *)

Matches(field, id) == IGNORE_ID \in {field, id} \/ field = id

Check(ok, code) == IF ok THEN "OK" ELSE code

\* The first check that fails is reported.
verify_dfu_suffix(file, ids) ==
    LET suffix == Reverse(SubSeq(file, Len(file) - SUFFIX_BYTES + 1, Len(file)))
        Field(first, last) == FromBytes(SubSeq(suffix, first, last))
        computed == checksum(SubSeq(file, 1, Len(file) - SUFFIX_BYTES))
        checks ==
            << Check(Field(1, 4) = computed, "CHECKSUM_MISMATCH"),
               Check(suffix[5] = suffix_length, "LENGTH_FIELD_MISMATCH"),
               Check(SubSeq(suffix, 6, 8) = DFU_SIGNATURE, "SIGNATURE_MISMATCH"),
               Check(Field(9, 10) = DFU_BCD, "BCD_DFU_MISMATCH"),
               Check(Matches(Field(11, 12), ids.vendor), "VENDOR_ID_MISMATCH"),
               Check(Matches(Field(13, 14), ids.product), "PRODUCT_ID_MISMATCH"),
               Check(Matches(Field(15, 16), ids.bcd), "BCD_DEVICE_MISMATCH") >>
        failed == { i \in DOMAIN checks : checks[i] # "OK" }
    IN  IF Len(file) < SUFFIX_BYTES THEN "TOO_SMALL"
        ELSE IF failed = {} THEN "OK" ELSE checks[Min(failed)]

-----------------------------------------------------------------------------
(* input_reader.c, main.c and hal.c of dfu_i2c.                            *)

\* The length of the image in a file; 0 when it is not a good one.  The tool never
\* asks for particular ids.
AnyDevice == [vendor |-> IGNORE_ID, product |-> IGNORE_ID, bcd |-> IGNORE_ID]

boot_length(file) ==
    IF file.opens /\ verify_dfu_suffix(file.bytes, AnyDevice) = "OK"
    THEN Len(file.bytes) - SUFFIX_BYTES ELSE 0

fifteen_bits_max == 32768

\* Mutant: the limit is taken for bytes of a block number.
WriteUpgradeUnlimited(length, block_size) == length > 0 /\ block_size > 0

\* The images main goes on with.
WriteUpgradeAccepts(length, block_size) ==
    length > 0 /\ length <= fifteen_bits_max * block_size

\* Blocks of an image, and the number the i-th is sent with: a static uint16_t that
\* is increased before use.
num_blocks(length, block_size) == (length + block_size - 1) \div block_size

block_num(i) == i % 65536

-----------------------------------------------------------------------------
(* Properties.                                                             *)

\* The verifier accepts what the generator writes, for exactly the devices whose
\* ids are those of the file or not looked at, and the tool takes the whole
\* input for the image and none of the suffix.
GeneratedIsAccepted(numbers, bytes, device) ==
    LET run == generate(numbers, File(bytes), File(<<{0}>>))
        ids == IdsOf(numbers)
        good == \A id \in {"vendor", "product", "bcd"} : Matches(ids[id], device[id])
    IN  run.exit = 0 =>
            /\ verify_dfu_suffix(run.out.bytes, device) = "OK" <=> good
            /\ boot_length(run.out) = Len(bytes)
            /\ SubSeq(run.out.bytes, 1, Len(bytes)) = bytes

\* No damage of up to four bytes in a row goes unnoticed, but for that of the ids,
\* which the checksum leaves out (dfu_suffix.h:20-21).  Damage is the bits that are turned over, from
\* place first on.
Damaged(bytes, first, damage) ==
    [ i \in DOMAIN bytes |->
        IF i >= first /\ i < first + Len(damage)
        THEN Xor(bytes[i], damage[i - first + 1]) ELSE bytes[i] ]

DamageIsFound(bytes, first, damage) ==
    LET ids  == [vendor |-> {1}, product |-> {2}, bcd |-> IGNORE_ID]
        file == WithSuffix(bytes, ids)
        last == first + Len(damage) - 1
    IN  (/\ last <= Len(bytes) \/ (first > Len(bytes) + 6 /\ last <= Len(file))
         /\ \E i \in DOMAIN damage : damage[i] # {})
            => boot_length(File(Damaged(file, first, damage))) = 0

\* No two blocks of an image the tool goes on with have the same number: the 16
\* bits do not go round.
BlocksAreTold(length, block_size) ==
    WriteUpgradeAccepts(length, block_size) =>
        LET blocks == num_blocks(length, block_size)
        IN  Cardinality({ block_num(i) : i \in 1 .. blocks }) = blocks
=============================================================================
