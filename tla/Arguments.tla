----------------------------- MODULE Arguments -----------------------------
(***************************************************************************)
(* The command line of dfu_i2c: argument_parser.c with what main does of   *)
(* it.  A command line is the sequence of its words after the program's    *)
(* name.                                                                   *)
(***************************************************************************)
EXTENDS Integers, SequencesExt, FiniteSetsExt

CONSTANT Number   \* function: the words strtol takes for a number

-----------------------------------------------------------------------------
(* argument_parser.c and main.c of dfu_i2c.                                *)

WithFile    == {"write_upgrade", "upload"}
WithoutFile == {"detach_and_bus_reset", "reboot", "revert_factory"}

parse_operation(word) == IF word \in WithFile \cup WithoutFile THEN word ELSE "UNKNOWN"

\* How a run goes on: it ends with an exit code, or with the options at hand.
\* undefined: the word looked at is the NULL behind the last.
NoOptions ==
    [operation |-> "UNKNOWN", argument |-> "none",
     i2c_address |-> 44, block_size |-> 64]

Ends(code) == [exit |-> code, options |-> NoOptions]
GoesOn(o)  == [exit |-> "none", options |-> o]

\* strtol (external) makes 0 of a word that is no number; whether errno becomes
\* EINVAL is up to the C library.
strtol(word) ==
    IF word \in DOMAIN Number
    THEN { [value |-> Number[word], errno |-> "none"] }
    ELSE { [value |-> 0, errno |-> e] : e \in {"none", "EINVAL"} }

\* Mutant: words that follow the last one an operation needs are let through.
Operation_loose(o, word, rest) ==
    LET needed == IF parse_operation(word) \in WithFile THEN 1 ELSE 0
    IN  IF parse_operation(word) = "UNKNOWN" \/ Len(rest) < needed
        THEN Ends("1")
        ELSE GoesOn([o EXCEPT !.operation = parse_operation(word),
                              !.argument = IF needed = 1 THEN rest[1] ELSE "none"])

\* The first word that is no option ends the parsing.
Operation(o, word, rest) ==
    LET needed == IF parse_operation(word) \in WithFile THEN 1 ELSE 0
    IN  IF parse_operation(word) = "UNKNOWN" \/ Len(rest) # needed
        THEN Ends("1")
        ELSE GoesOn([o EXCEPT !.operation = parse_operation(word),
                              !.argument = IF needed = 1 THEN rest[1] ELSE "none"])

WithValue(o, option, value) ==
    IF option = "--i2c-address" THEN [o EXCEPT !.i2c_address = value % 256]
                                ELSE [o EXCEPT !.block_size = value]

RECURSIVE ParseFrom(_, _)
ParseFrom(words, o) ==
    IF words = <<>> THEN {GoesOn(o)}
    ELSE LET rest == Tail(words)
         IN  CASE Head(words) = "--help"  -> {Ends("2")}
               [] Head(words) = "--quiet" -> ParseFrom(rest, o)
               [] Head(words) \in {"--i2c-address", "--block-size"} ->
                    IF rest = <<>> THEN {Ends("undefined")}
                    ELSE UNION { IF v.errno = "EINVAL" THEN {Ends("1")}
                                 ELSE ParseFrom(Tail(rest),
                                                WithValue(o, Head(words), v.value)) :
                                 v \in strtol(Head(rest)) }
               [] OTHER -> {Operation(o, Head(words), rest)}

parse_arguments(argv) == IF argv = <<>> THEN {Ends("2")} ELSE ParseFrom(argv, NoOptions)

\* Without an operation main asserts, which a release build leaves out: it then
\* ends as if all had gone well.
main(argv) ==
    UNION { IF r.exit = "none" /\ r.options.operation = "UNKNOWN"
            THEN {Ends("0"), Ends("abort")} ELSE {r} : r \in parse_arguments(argv) }

-----------------------------------------------------------------------------
(* Properties.                                                             *)

\* The usage text of dfu_i2c (argument_parser.c:17-27): OPTIONS, one operation, and
\* its file where it has one.
UsageOptions(words) ==
    {<<"--quiet">>} \cup ({"--i2c-address", "--block-size"} \X words)

Commands(words) ==
    { <<op>> : op \in WithoutFile } \cup (WithFile \X words)

\* The value an option ends up with: that of the last time it is given.
LastGiven(options, option, default) ==
    LET given == { i \in DOMAIN options : options[i][1] = option }
    IN  IF given = {} THEN default
        ELSE (CHOOSE v \in strtol(options[Max(given)][2]) : TRUE).value

\* The tool goes on with an operation exactly for the lines of the usage text, and
\* with the values the line gives last, however words that look like options or
\* operations are used as values and files.  lists: the option lists to look at,
\* with the words they are.
FollowsUsage(argv, words, lists) ==
    { r.options : r \in { s \in main(argv) : s.exit = "none" } } =
    UNION { { [operation   |-> c[1],
               argument    |-> IF c[1] \in WithFile THEN c[2] ELSE "none",
               i2c_address |-> LastGiven(l.options, "--i2c-address", 44) % 256,
               block_size  |-> LastGiven(l.options, "--block-size", 64)] :
              c \in { d \in Commands(words) : argv = l.words \o d } } :
            l \in { k \in lists : IsPrefix(k.words, argv) } }
=============================================================================
