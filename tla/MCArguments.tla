---------------------------- MODULE MCArguments ----------------------------
(***************************************************************************)
(* Every command line of a few words: a behaviour is given one.            *)
(***************************************************************************)
EXTENDS TLC, Arguments

VARIABLE argv

Words == {"--help", "--quiet", "--i2c-address", "--block-size", "upload", "reboot",
          "257", "0", "boot.dfu"}

WordNumbers == ("257" :> 257) @@ ("0" :> 0)

OptionLists ==
    { [options |-> s, words |-> FlattenSeq(s)] :
      s \in { o \in BoundedSeq(UsageOptions(Words), 3) : Len(FlattenSeq(o)) <= 3 } }

-----------------------------------------------------------------------------
LineInit == argv = <<>>

\* One word more, as far as four.
AddWord ==
    /\ Len(argv) < 4
    /\ \E word \in Words : argv' = Append(argv, word)

-----------------------------------------------------------------------------
\* dfu_i2c goes on for the lines of its usage text only (argument_parser.c:54-195).
ArgumentsFollowUsage == FollowsUsage(argv, Words, OptionLists)
=============================================================================
