---------------------------- MODULE MCAlgorithms ----------------------------
(***************************************************************************)
(* Bounded inputs for the algorithms, and command lines of dfu_i2c for as  *)
(* long as no algorithm is picked.                                         *)
(***************************************************************************)
EXTENDS Algorithms, MCArguments

\* Bytes and ids, two of them equal to the wild card or cut to nothing.
SomeBytes    == { {}, {0}, {7, 3}, Ones(8) }
SomePayloads == BoundedSeq(SomeBytes, 2) \cup {[ i \in 1 .. 6 |-> {i} ]}
SomeNumbers  == { {1}, {3, 12}, Ones(16), {}, {16} }
SomeIds      == { {1}, {3, 12}, Ones(16) }

\* Damage: one byte with up to two bits turned over, or four bytes.
SomeDamages ==
    { <<{a, b}>> : a, b \in 0 .. 7 } \cup [1 .. 4 -> {{}, {0}, {7}}]

SomeLengths == {0, 1, 2, 32767, 32768, 32769, 65536, 65537, 65538, 131076}

Characters == {"0", "1", ":", ",", "z"}

\* The characters of signs, white space, prefixes and numbers an int does not hold.
MoreCharacters == Characters \cup {"-", " ", "x", "f"}

\* Texts of two full pairs, with a character more or less in the second.
TwoPairs ==
    { <<"1", ":", a, ",">> \o <<b, ":">> \o s :
      a \in {"0", "1"}, b \in {"0", "1", ":"}, s \in BoundedSeq(Characters, 2) }

\* Texts of two full pairs of ids that are read in every way there is: plain, behind
\* a sign, white space or a prefix, with a prefix and no number, cut to a long or to
\* an int.
IdTexts ==
    { <<"1">>, <<"-", "1">>, <<" ", "0", "x", "1">>, <<"0", "x">>, <<"f">>,
      <<"1", "1", "1">> }

PairTexts == { a \o <<":">> \o b : a, b \in IdTexts }

SomeTexts ==
    BoundedSeq(Characters, 6) \cup BoundedSeq(MoreCharacters, 4) \cup TwoPairs
    \cup { a \o <<Comma>> \o b : a, b \in PairTexts }

Interfaces ==
    { <<[number |-> n, protocol |-> p]>> : n \in {0, 3}, p \in {"RUNTIME", "DFU", "none"} }
    \cup {<<[number |-> 1, protocol |-> "none"], [number |-> 2, protocol |-> "RUNTIME"]>>}

OneDevice == [vendor : {1, 2}, product : {1, 2}, interfaces : Interfaces]
SomeBuses == OneDevice \X OneDevice

SomeWanted ==
    [match_vendor : {1}, match_product : {1, 2},
     match_vendor_dfu : {-1, -2}, match_product_dfu : {-1, 1}]
    \cup [match_vendor : {1}, match_product : {1}, match_vendor_dfu : {1, 2},
          match_product_dfu : {1, 2}]

SomeDelays == -1 .. TimerRange

-----------------------------------------------------------------------------
MCInit == Init /\ LineInit

MCNext ==
    \/ argv = <<>> /\ UNCHANGED argv /\ Next
    \/ AddWord /\ algorithm = "none" /\ UNCHANGED <<algorithm, input>>

MCSpec == MCInit /\ [][MCNext]_<<algorithm, input, argv>>
=============================================================================
