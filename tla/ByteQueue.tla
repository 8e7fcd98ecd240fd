----------------------------- MODULE ByteQueue -----------------------------
(***************************************************************************)
(* What modules/fifo.h promises: a bounded queue of bytes whose operations *)
(* take or give a whole block or leave the queue as it was.                *)
(***************************************************************************)
EXTENDS Naturals, Sequences

CONSTANTS Byte, max

VARIABLES queue, answer

Blocks == UNION { [1 .. n -> Byte] : n \in 0 .. max + 1 }

Refusals == {"FULL", "EMPTY", "BAD_PARAM"}

Answer(st, bytes) == answer' = [status |-> st, data |-> bytes]

Init == queue = <<>> /\ answer = [status |-> "OK", data |-> <<>>]

Reset == queue' = <<>> /\ Answer("OK", <<>>)

Put(bytes) ==
    /\ bytes # <<>>
    /\ Len(queue) + Len(bytes) <= max
    /\ queue' = queue \o bytes
    /\ Answer("OK", <<>>)

Take(n) ==
    /\ n \in 1 .. Len(queue)
    /\ queue' = SubSeq(queue, n + 1, Len(queue))
    /\ Answer("OK", SubSeq(queue, 1, n))

\* No block of no bytes, none that does not fit, none that is not there.
Refuse(length) ==
    /\ \/ length = 0 /\ Answer("BAD_PARAM", <<>>)
       \/ Len(queue) + length > max /\ Answer("FULL", <<>>)
       \/ length > Len(queue) /\ Answer("EMPTY", <<>>)
    /\ UNCHANGED queue

Next ==
    \/ Reset
    \/ \E bytes \in Blocks : Put(bytes)
    \/ \E n \in 0 .. max + 1 : Take(n) \/ Refuse(n)

Spec == Init /\ [][Next]_<<queue, answer>>
=============================================================================
