-------------------------------- MODULE Fifo --------------------------------
(***************************************************************************)
(* The ring buffer of modules/fifo.c, byte by byte and block by block.     *)
(*                                                                         *)
(* The storage is not cleared, by fifo_init or by a dequeue: stale bytes   *)
(* lie around the ones that are queued.  A null pointer is not passed, the *)
(* lengths go from zero to one more than the storage holds.                *)
(***************************************************************************)
EXTENDS Naturals, Sequences

CONSTANTS
    Byte,
    max       \* size of the storage

ASSUME FifoAssumption == max \in Nat \ {0}

VARIABLES
    buffer,   \* the storage
    head,     \* where the next byte goes
    tail,     \* where the oldest byte is
    count,
    answer    \* status and bytes of the last operation

vars == <<buffer, head, tail, count, answer>>

Index == 0 .. max - 1

Blocks == UNION { [1 .. n -> Byte] : n \in 0 .. max + 1 }

Answer(st, bytes) == answer' = [status |-> st, data |-> bytes]

Refuse(st) == Answer(st, <<>>) /\ UNCHANGED <<buffer, head, tail, count>>

\* Mutant: wraps one too late.
WrappedLate(i) == IF i > max THEN i - max ELSE i

Wrapped(i) == IF i >= max THEN i - max ELSE i

fifo_init ==
    /\ head' = 0 /\ tail' = 0 /\ count' = 0
    /\ Answer("OK", <<>>)
    /\ UNCHANGED buffer

fifo_is_empty == count = 0

fifo_is_full == count = max

fifo_enqueue(byte) ==
    IF fifo_is_full
    THEN Refuse("FULL")
    ELSE /\ buffer' = [buffer EXCEPT ![head] = byte]
         /\ head' = Wrapped(head + 1)
         /\ count' = count + 1
         /\ Answer("OK", <<>>)
         /\ UNCHANGED tail

fifo_dequeue ==
    IF fifo_is_empty
    THEN Refuse("EMPTY")
    ELSE /\ Answer("OK", <<buffer[tail]>>)
         /\ tail' = Wrapped(tail + 1)
         /\ count' = count - 1
         /\ UNCHANGED <<buffer, head>>

-----------------------------------------------------------------------------
\* How much of a block goes in before the end of the storage or the oldest byte,
\* and how much comes out before the end of the storage or the newest one.
f_block_enqueue_head_space ==
    CASE fifo_is_full -> 0
      [] ~fifo_is_full /\ head >= tail -> max - head
      [] OTHER -> tail - head

\* Mutant: a full buffer (head = tail) is taken for one that does not wrap.
tail_count_below ==
    CASE fifo_is_empty -> 0
      [] ~fifo_is_empty /\ head < tail -> max - tail
      [] OTHER -> head - tail

f_block_dequeue_tail_count ==
    CASE fifo_is_empty -> 0
      [] ~fifo_is_empty /\ head <= tail -> max - tail
      [] OTHER -> head - tail

\* The storage after bytes (skip + 1) .. (skip + n) were copied to at.
Stored(store, at, bytes, skip, n) ==
    [i \in Index |-> IF at <= i /\ i < at + n
                     THEN bytes[skip + i - at + 1] ELSE store[i]]

\* Mutant: the rest of the block is forgotten.
EnqueueFirstPart(bytes, space) ==
    /\ buffer' = Stored(buffer, head, bytes, 0, space)
    /\ head' = 0

\* The part that fits before the end, then the rest at the start.
EnqueueInTwo(bytes, space) ==
    LET remaining == Len(bytes) - space
    IN  /\ buffer' = Stored(Stored(buffer, head, bytes, 0, space),
                            0, bytes, space, remaining)
        /\ head' = remaining

EnqueueInOne(bytes) ==
    /\ buffer' = Stored(buffer, head, bytes, 0, Len(bytes))
    /\ head' = Wrapped(head + Len(bytes))

fifo_block_enqueue(bytes) ==
    CASE Len(bytes) = 0 -> Refuse("BAD_PARAM")
      [] Len(bytes) > max - count -> Refuse("FULL")
      [] OTHER ->
           /\ IF Len(bytes) <= f_block_enqueue_head_space
              THEN EnqueueInOne(bytes)
              ELSE EnqueueInTwo(bytes, f_block_enqueue_head_space)
           /\ count' = count + Len(bytes)
           /\ Answer("OK", <<>>)
           /\ UNCHANGED tail

DequeueInOne(length) ==
    /\ Answer("OK", [i \in 1 .. length |-> buffer[tail + i - 1]])
    /\ tail' = Wrapped(tail + length)

DequeueInTwo(length, tail_count) ==
    /\ Answer("OK", [i \in 1 .. length |->
                        IF i <= tail_count THEN buffer[tail + i - 1]
                                           ELSE buffer[i - tail_count - 1]])
    /\ tail' = length - tail_count

fifo_block_dequeue(length) ==
    CASE length = 0 -> Refuse("BAD_PARAM")
      [] length > count -> Refuse("EMPTY")
      [] OTHER ->
           /\ IF length <= f_block_dequeue_tail_count
              THEN DequeueInOne(length)
              ELSE DequeueInTwo(length, f_block_dequeue_tail_count)
           /\ count' = count - length
           /\ UNCHANGED <<buffer, head>>

-----------------------------------------------------------------------------
\* The storage is static memory: any content.
Init ==
    /\ buffer \in [Index -> Byte]
    /\ head = 0 /\ tail = 0 /\ count = 0
    /\ answer = [status |-> "OK", data |-> <<>>]

Next ==
    \/ fifo_init
    \/ \E byte \in Byte : fifo_enqueue(byte)
    \/ fifo_dequeue
    \/ \E bytes \in Blocks : fifo_block_enqueue(bytes)
    \/ \E length \in 0 .. max + 1 : fifo_block_dequeue(length)

Spec == Init /\ [][Next]_vars

-----------------------------------------------------------------------------
(* Properties.                                                             *)

\* The indices stay inside the storage.
TypeOK ==
    /\ buffer \in [Index -> Byte]
    /\ head \in Index /\ tail \in Index
    /\ count \in 0 .. max
    /\ answer \in [status : {"OK", "FULL", "EMPTY", "BAD_PARAM"}, data : Seq(Byte)]

\* head, tail and count are kept apart by five operations and never disagree:
\* the head is count places after the tail, around the end of the storage.
HeadFollows == head = Wrapped(tail + count)

\* The bytes queued, oldest first.
Place(i) == Wrapped(tail + i - 1)

Queued == [i \in 1 .. count |-> buffer[Place(i)]]

Queue == INSTANCE ByteQueue WITH queue <- Queued

\* Whatever the order of operations, the ring behaves as a queue: bytes come out
\* once, in order, none that was not put in, a refused operation changes nothing.
ImplementsQueue == Queue!Spec
=============================================================================
