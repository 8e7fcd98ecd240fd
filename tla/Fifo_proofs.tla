----------------------------- MODULE Fifo_proofs -----------------------------
(***************************************************************************)
(* Proofs about the ring buffer: the shape of the ring is an invariant,    *)
(* and the ring implements the bounded queue of blocks.                    *)
(***************************************************************************)
EXTENDS Fifo, SequenceTheorems, TLAPS

RingInv == TypeOK /\ HeadFollows

-----------------------------------------------------------------------------
(* The blocks and the storage.                                             *)

LEMMA BlockType ==
    ASSUME NEW bytes \in Blocks
    PROVE  /\ bytes \in Seq(Byte)
           /\ Len(bytes) \in 0 .. max + 1
           /\ bytes \in [1 .. Len(bytes) -> Byte]
  <1>1. PICK n \in 0 .. max + 1 : bytes \in [1 .. n -> Byte]
    BY DEF Blocks
  <1>2. n \in Nat
    BY FifoAssumption DEF FifoAssumption
  <1>3. bytes \in Seq(Byte) /\ Len(bytes) = n
    BY <1>1, <1>2, IsASeq, LenProperties
  <1> QED BY <1>1, <1>2, <1>3

\* Copying bytes of a block into the storage leaves storage.
LEMMA StoredType ==
    ASSUME NEW store \in [Index -> Byte], NEW at \in Nat, NEW skip \in Nat,
           NEW n \in Nat, NEW bytes \in Seq(Byte), skip + n <= Len(bytes)
    PROVE  Stored(store, at, bytes, skip, n) \in [Index -> Byte]
  <1> SUFFICES ASSUME NEW i \in Index, at <= i, i < at + n
               PROVE  bytes[skip + i - at + 1] \in Byte
    BY DEF Stored
  <1>1. i \in Nat /\ Len(bytes) \in Nat
    BY FifoAssumption, LenProperties DEF FifoAssumption, Index
  <1>2. skip + i - at + 1 \in 1 .. Len(bytes)
    BY <1>1
  <1> QED BY <1>2, ElementOfSeq

\* The copies of an enqueue: what they leave at each place of the storage.
LEMMA Copied ==
    ASSUME NEW bytes, NEW store, NEW at, NEW skip, NEW n, NEW i \in Index
    PROVE  Stored(store, at, bytes, skip, n)[i]
             = IF at <= i /\ i < at + n THEN bytes[skip + i - at + 1] ELSE store[i]
  BY DEF Stored

-----------------------------------------------------------------------------
(* What an operation that succeeds does to the ring, whichever way it      *)
(* copies.                                                                 *)

Enqueues(bytes) ==
    /\ count + Len(bytes) <= max
    /\ count' = count + Len(bytes)
    /\ tail' = tail
    /\ head' = Wrapped(tail + count + Len(bytes))
    /\ buffer' \in [Index -> Byte]
    /\ \A i \in 1 .. count : buffer'[Place(i)] = buffer[Place(i)]
    /\ \A i \in 1 .. Len(bytes) : buffer'[Place(count + i)] = bytes[i]
    /\ Answer("OK", <<>>)

Dequeues(n) ==
    /\ n \in 1 .. count
    /\ count' = count - n
    /\ tail' = Wrapped(tail + n)
    /\ UNCHANGED <<buffer, head>>
    /\ Answer("OK", [i \in 1 .. n |-> buffer[Place(i)]])

\* Places are inside the storage.
LEMMA PlaceType ==
    ASSUME TypeOK, NEW i \in 1 .. max
    PROVE  Place(i) \in Index
  BY FifoAssumption DEF FifoAssumption, TypeOK, Index, Place, Wrapped

LEMMA EnqueueByte ==
    ASSUME RingInv, NEW byte \in Byte, fifo_enqueue(byte), ~fifo_is_full
    PROVE  Enqueues(<<byte>>)
  <1> USE FifoAssumption DEF FifoAssumption, RingInv, TypeOK, HeadFollows, Index
  <1>1. /\ buffer' = [buffer EXCEPT ![head] = byte]
        /\ head' = Wrapped(head + 1) /\ tail' = tail /\ count' = count + 1
        /\ Answer("OK", <<>>)
    BY DEF fifo_enqueue
  <1>2. Len(<<byte>>) = 1 /\ <<byte>>[1] = byte
    OBVIOUS
  <1>3. count + 1 <= max
    BY DEF fifo_is_full
  <1>4. buffer' \in [Index -> Byte]
    BY <1>1
  <1>5. head' = Wrapped(tail + count + 1)
    BY <1>1, <1>3 DEF Wrapped
  <1>6. ASSUME NEW i \in 1 .. count PROVE buffer'[Place(i)] = buffer[Place(i)]
    <2>1. Place(i) # head /\ Place(i) \in 0 .. max - 1
      BY <1>3 DEF Place, Wrapped
    <2> QED BY <1>1, <2>1
  <1>7. Place(count + 1) = head
    BY DEF Place, Wrapped
  <1>8. buffer'[Place(count + 1)] = byte
    BY <1>1, <1>7
  <1> QED BY <1>1, <1>2, <1>3, <1>4, <1>5, <1>6, <1>8 DEF Enqueues

LEMMA DequeueByte ==
    ASSUME RingInv, fifo_dequeue, ~fifo_is_empty
    PROVE  Dequeues(1)
  <1> USE FifoAssumption DEF FifoAssumption, RingInv, TypeOK, HeadFollows, Index
  <1>1. /\ Answer("OK", <<buffer[tail]>>)
        /\ tail' = Wrapped(tail + 1) /\ count' = count - 1
        /\ UNCHANGED <<buffer, head>>
    BY DEF fifo_dequeue
  <1>2. 1 \in 1 .. count
    BY DEF fifo_is_empty
  <1>3. Place(1) = tail
    BY DEF Place, Wrapped
  <1>4. <<buffer[tail]>> = [i \in 1 .. 1 |-> buffer[Place(i)]]
    BY <1>3
  <1> QED BY <1>1, <1>2, <1>4 DEF Dequeues

\* Arithmetic of a copy in two parts: a byte of the first part, one of the second.
LEMMA FirstPart ==
    \A h, t, space, rest, i \in Nat :
      rest <= t /\ t <= h /\ 1 <= i /\ i <= space
        => /\ ~(0 <= h + i - 1 /\ h + i - 1 < 0 + rest)
           /\ h <= h + i - 1 /\ h + i - 1 < h + space
           /\ 0 + (h + i - 1) - h + 1 = i
  OBVIOUS

LEMMA SecondPart ==
    \A n, space, i \in Nat :
      i <= n /\ ~(i <= space)
        => /\ 0 <= i - space - 1 /\ i - space - 1 < 0 + (n - space)
           /\ space + (i - space - 1) - 0 + 1 = i
  OBVIOUS

LEMMA EnqueueBlock ==
    ASSUME RingInv, NEW bytes \in Blocks, fifo_block_enqueue(bytes),
           Len(bytes) # 0, Len(bytes) <= max - count
    PROVE  Enqueues(bytes)
  <1> USE FifoAssumption DEF FifoAssumption, RingInv, TypeOK, HeadFollows
  <1> DEFINE n == Len(bytes)
             space == f_block_enqueue_head_space
  <1>0. bytes \in Seq(Byte) /\ n \in Nat
    BY BlockType
  <1>1. /\ count' = count + n /\ tail' = tail /\ Answer("OK", <<>>)
        /\ IF n <= space THEN EnqueueInOne(bytes) ELSE EnqueueInTwo(bytes, space)
    BY <1>0 DEF fifo_block_enqueue
  <1>2. ~fifo_is_full
    BY <1>0 DEF fifo_is_full
  <1>3. space = IF head >= tail THEN max - head ELSE tail - head
    BY <1>2 DEF f_block_enqueue_head_space
  <1>4. space \in Nat
    BY <1>3 DEF Index
  <1>5. CASE n <= space
    <2>1. /\ buffer' = Stored(buffer, head, bytes, 0, n)
          /\ head' = Wrapped(head + n)
      BY <1>1, <1>5 DEF EnqueueInOne
    <2>2. buffer' \in [Index -> Byte]
      BY <1>0, <2>1, StoredType DEF Index
    <2>3. head' = Wrapped(tail + count + n)
      BY <1>0, <1>3, <1>5, <2>1 DEF Wrapped, Index
    <2>4. ASSUME NEW i \in 1 .. count PROVE buffer'[Place(i)] = buffer[Place(i)]
      <3>1. Place(i) \in Index /\ ~(head <= Place(i) /\ Place(i) < head + n)
        BY <1>0, <1>3, <1>5 DEF Place, Wrapped, Index
      <3> QED BY <2>1, <3>1, Copied
    <2>5. ASSUME NEW i \in 1 .. n PROVE buffer'[Place(count + i)] = bytes[i]
      <3> DEFINE p == head + i - 1
      <3>1. p \in Index /\ Place(count + i) = p
        BY <1>0, <1>3, <1>5 DEF Place, Wrapped, Index
      <3>2. head <= p /\ p < head + n /\ 0 + p - head + 1 = i
        BY <1>0 DEF Index
      <3>3. buffer'[p] = bytes[0 + p - head + 1]
        BY <2>1, <3>1, <3>2, Copied
      <3> QED BY <3>1, <3>2, <3>3
    <2> QED BY <1>0, <1>1, <2>2, <2>3, <2>4, <2>5 DEF Enqueues
  <1>6. CASE ~(n <= space)
    <2> DEFINE rest == n - space
               part == Stored(buffer, head, bytes, 0, space)
    <2>1. /\ buffer' = Stored(part, 0, bytes, space, rest)
          /\ head' = rest
      BY <1>1, <1>6 DEF EnqueueInTwo
    <2>2. /\ rest \in Nat /\ head >= tail /\ space = max - head
          /\ rest <= tail /\ count = head - tail
      BY <1>0, <1>3, <1>6 DEF Wrapped, Index
    <2>3. part \in [Index -> Byte]
      BY <1>0, <1>4, <1>6, StoredType DEF Index
    <2>4. space + rest <= Len(bytes)
      BY <1>0, <1>4
    <2>5. buffer' \in [Index -> Byte]
      BY <1>0, <1>4, <2>1, <2>2, <2>3, <2>4, StoredType
    <2>6. head' = Wrapped(tail + count + n)
      BY <1>0, <1>4, <1>6, <2>1, <2>2 DEF Wrapped, Index
    <2>7. ASSUME NEW i \in 1 .. count PROVE buffer'[Place(i)] = buffer[Place(i)]
      <3>1. /\ Place(i) \in Index
            /\ ~(0 <= Place(i) /\ Place(i) < 0 + rest)
            /\ ~(head <= Place(i) /\ Place(i) < head + space)
        BY <1>0, <1>4, <2>2 DEF Place, Wrapped, Index
      <3> QED BY <2>1, <3>1, Copied
    <2>8. ASSUME NEW i \in 1 .. n PROVE buffer'[Place(count + i)] = bytes[i]
      <3>1. CASE i <= space
        <4> DEFINE p == head + i - 1
        <4>1. p \in Index /\ Place(count + i) = p
          BY <1>0, <1>4, <2>2, <3>1 DEF Place, Wrapped, Index
        <4>2. /\ ~(0 <= p /\ p < 0 + rest)
              /\ head <= p /\ p < head + space /\ 0 + p - head + 1 = i
          <5>1. i \in Nat /\ 1 <= i
            BY <1>0
          <5>2. head \in Nat /\ tail \in Nat
            BY DEF Index
          <5>3. rest \in Nat /\ rest <= tail
            BY <2>2
          <5>4. tail <= head
            BY <2>2, <5>2
          <5> HIDE DEF space, rest, TypeOK, HeadFollows
          <5> QED BY <1>4, <3>1, <5>1, <5>2, <5>3, <5>4, FirstPart
        <4>3. buffer'[p] = bytes[0 + p - head + 1]
          BY <2>1, <4>1, <4>2, Copied
        <4> QED BY <4>1, <4>2, <4>3
      <3>2. CASE ~(i <= space)
        <4> DEFINE p == i - space - 1
        <4>1. p \in Index /\ Place(count + i) = p
          BY <1>0, <1>4, <2>2, <3>2 DEF Place, Wrapped, Index
        <4>2. 0 <= p /\ p < 0 + rest /\ space + p - 0 + 1 = i
          <5>1. i \in Nat /\ i <= n
            BY <1>0
          <5> HIDE DEF n, space
          <5> QED BY <1>0, <1>4, <3>2, <5>1, SecondPart DEF rest
        <4>3. buffer'[p] = bytes[space + p - 0 + 1]
          BY <2>1, <4>1, <4>2, Copied
        <4> QED BY <4>1, <4>2, <4>3
      <3> QED BY <3>1, <3>2
    <2> QED BY <1>0, <1>1, <2>5, <2>6, <2>7, <2>8 DEF Enqueues
  <1> QED BY <1>5, <1>6

LEMMA DequeueBlock ==
    ASSUME RingInv, NEW length \in 0 .. max + 1, fifo_block_dequeue(length),
           length # 0, length <= count
    PROVE  Dequeues(length)
  <1> USE FifoAssumption DEF FifoAssumption, RingInv, TypeOK, HeadFollows
  <1> DEFINE out == f_block_dequeue_tail_count
  <1>1. /\ count' = count - length /\ UNCHANGED <<buffer, head>>
        /\ IF length <= out THEN DequeueInOne(length) ELSE DequeueInTwo(length, out)
    BY DEF fifo_block_dequeue
  <1>2. ~fifo_is_empty /\ length \in 1 .. count
    BY DEF fifo_is_empty
  <1>3. out = IF head <= tail THEN max - tail ELSE head - tail
    BY <1>2 DEF f_block_dequeue_tail_count
  <1>4. CASE length <= out
    <2>1. /\ Answer("OK", [i \in 1 .. length |-> buffer[tail + i - 1]])
          /\ tail' = Wrapped(tail + length)
      BY <1>1, <1>4 DEF DequeueInOne
    <2>2. \A i \in 1 .. length : Place(i) = tail + i - 1
      BY <1>2, <1>3, <1>4 DEF Place, Wrapped, Index
    <2>3. [i \in 1 .. length |-> buffer[tail + i - 1]]
            = [i \in 1 .. length |-> buffer[Place(i)]]
      BY <2>2
    <2> QED BY <1>1, <1>2, <2>1, <2>3 DEF Dequeues
  <1>5. CASE ~(length <= out)
    <2>1. /\ Answer("OK", [i \in 1 .. length |->
                              IF i <= out THEN buffer[tail + i - 1]
                                          ELSE buffer[i - out - 1]])
          /\ tail' = length - out
      BY <1>1, <1>5 DEF DequeueInTwo
    <2>2. out = max - tail
      BY <1>2, <1>3, <1>5 DEF Wrapped, Index
    <2>3. \A i \in 1 .. length :
            Place(i) = IF i <= out THEN tail + i - 1 ELSE i - out - 1
      BY <1>2, <2>2 DEF Place, Wrapped, Index
    <2>4. [i \in 1 .. length |-> IF i <= out THEN buffer[tail + i - 1]
                                             ELSE buffer[i - out - 1]]
            = [i \in 1 .. length |-> buffer[Place(i)]]
      BY <2>3
    <2>5. tail' = Wrapped(tail + length)
      BY <1>2, <1>5, <2>1, <2>2 DEF Wrapped, Index
    <2> QED BY <1>1, <1>2, <2>1, <2>4, <2>5 DEF Dequeues
  <1> QED BY <1>4, <1>5

-----------------------------------------------------------------------------
(* A step is a refusal, an enqueue, a dequeue, or starts over.             *)

Refuses(length) ==
    /\ \/ length = 0 /\ Answer("BAD_PARAM", <<>>)
       \/ length > max - count /\ Answer("FULL", <<>>)
       \/ length > count /\ Answer("EMPTY", <<>>)
    /\ UNCHANGED <<buffer, head, tail, count>>

LEMMA StepShape ==
    ASSUME RingInv, Next
    PROVE  \/ fifo_init
           \/ \E bytes \in Blocks : bytes # <<>> /\ Enqueues(bytes)
           \/ \E n \in 0 .. max + 1 : Dequeues(n) \/ Refuses(n)
  <1> USE FifoAssumption DEF FifoAssumption, RingInv, TypeOK
  <1>1. ASSUME NEW byte \in Byte, fifo_enqueue(byte)
        PROVE  \/ \E bytes \in Blocks : bytes # <<>> /\ Enqueues(bytes)
               \/ Refuses(1)
    <2>1. CASE fifo_is_full
      BY <1>1, <2>1 DEF fifo_enqueue, fifo_is_full, Refuse, Refuses
    <2>2. CASE ~fifo_is_full
      <3>1. <<byte>> \in [1 .. 1 -> Byte] /\ 1 \in 0 .. max + 1
        OBVIOUS
      <3>2. <<byte>> \in Blocks /\ <<byte>> # <<>>
        BY <3>1 DEF Blocks
      <3> QED BY <1>1, <2>2, <3>2, EnqueueByte
    <2> QED BY <2>1, <2>2
  <1>2. ASSUME fifo_dequeue
        PROVE  Dequeues(1) \/ Refuses(1)
    <2>1. CASE fifo_is_empty
      BY <1>2, <2>1 DEF fifo_dequeue, fifo_is_empty, Refuse, Refuses
    <2>2. CASE ~fifo_is_empty
      BY <1>2, <2>2, DequeueByte
    <2> QED BY <2>1, <2>2
  <1>3. ASSUME NEW bytes \in Blocks, fifo_block_enqueue(bytes)
        PROVE  \/ bytes # <<>> /\ Enqueues(bytes)
               \/ Refuses(Len(bytes))
    <2>1. bytes \in Seq(Byte) /\ Len(bytes) \in Nat
      BY BlockType
    <2>2. CASE Len(bytes) = 0
      BY <1>3, <2>2 DEF fifo_block_enqueue, Refuse, Refuses
    <2>3. CASE Len(bytes) # 0 /\ Len(bytes) > max - count
      BY <1>3, <2>3 DEF fifo_block_enqueue, Refuse, Refuses
    <2>4. CASE Len(bytes) # 0 /\ Len(bytes) <= max - count
      <3>1. bytes # <<>>
        BY <2>1, <2>4, EmptySeq
      <3> QED BY <1>3, <2>4, <3>1, EnqueueBlock
    <2> QED BY <2>1, <2>2, <2>3, <2>4
  <1>4. ASSUME NEW length \in 0 .. max + 1, fifo_block_dequeue(length)
        PROVE  Dequeues(length) \/ Refuses(length)
    <2>1. CASE length = 0
      BY <1>4, <2>1 DEF fifo_block_dequeue, Refuse, Refuses
    <2>2. CASE length # 0 /\ length > count
      BY <1>4, <2>2 DEF fifo_block_dequeue, Refuse, Refuses
    <2>3. CASE length # 0 /\ length <= count
      BY <1>4, <2>3, DequeueBlock
    <2> QED BY <2>1, <2>2, <2>3
  <1>5. 1 \in 0 .. max + 1
    OBVIOUS
  <1>6. \A bytes \in Blocks : Len(bytes) \in 0 .. max + 1
    BY BlockType
  <1> QED BY <1>1, <1>2, <1>3, <1>4, <1>5, <1>6 DEF Next

LEMMA EnqueueInv ==
    ASSUME RingInv, NEW bytes \in Blocks, Enqueues(bytes)
    PROVE  RingInv'
  <1> USE FifoAssumption DEF FifoAssumption, RingInv, TypeOK, HeadFollows, Index
  <1>1. Len(bytes) \in Nat
    BY BlockType
  <1>2. /\ count + Len(bytes) <= max /\ count' = count + Len(bytes)
        /\ tail' = tail /\ head' = Wrapped(tail + count + Len(bytes))
        /\ buffer' \in [0 .. max - 1 -> Byte]
        /\ answer' = [status |-> "OK", data |-> <<>>]
    BY DEF Enqueues, Answer
  <1>3. head' \in 0 .. max - 1 /\ head' = Wrapped(tail + count)'
    BY <1>1, <1>2 DEF Wrapped
  <1> QED BY <1>1, <1>2, <1>3

LEMMA DequeueInv ==
    ASSUME RingInv, NEW n \in Nat, Dequeues(n)
    PROVE  RingInv'
  <1> USE FifoAssumption DEF FifoAssumption, RingInv, TypeOK, HeadFollows, Index
  <1>1. /\ n \in 1 .. count /\ count' = count - n
        /\ tail' = Wrapped(tail + n) /\ buffer' = buffer /\ head' = head
        /\ answer' = [status |-> "OK", data |-> [i \in 1 .. n |-> buffer[Place(i)]]]
    BY DEF Dequeues, Answer
  <1>2. \A i \in 1 .. n : Place(i) \in 0 .. max - 1
    BY <1>1, PlaceType
  <1>3. [i \in 1 .. n |-> buffer[Place(i)]] \in Seq(Byte)
    BY <1>2, IsASeq
  <1>4. tail' \in 0 .. max - 1 /\ head' = Wrapped(tail + count)'
    BY <1>1 DEF Wrapped
  <1> QED BY <1>1, <1>3, <1>4

\* Whatever is called on it, the ring keeps its shape.
THEOREM RingShape == Spec => []RingInv
  <1> USE FifoAssumption DEF FifoAssumption
  <1>1. Init => RingInv
    BY DEF Init, RingInv, TypeOK, HeadFollows, Wrapped, Index
  <1>2. RingInv /\ [Next]_vars => RingInv'
    <2> SUFFICES ASSUME RingInv, [Next]_vars PROVE RingInv'
      OBVIOUS
    <2>1. CASE UNCHANGED vars
      BY <2>1 DEF RingInv, TypeOK, HeadFollows, vars, Wrapped
    <2>2. ASSUME fifo_init PROVE RingInv'
      BY <2>2 DEF fifo_init, Answer, RingInv, TypeOK, HeadFollows, Wrapped, Index
    <2>3. ASSUME NEW bytes \in Blocks, Enqueues(bytes) PROVE RingInv'
      BY <2>3, EnqueueInv
    <2>4. ASSUME NEW n \in 0 .. max + 1, Dequeues(n) PROVE RingInv'
      BY <2>4, DequeueInv
    <2>5. ASSUME NEW n \in 0 .. max + 1, Refuses(n) PROVE RingInv'
      <3>1. /\ UNCHANGED <<buffer, head, tail, count>>
            /\ \E st \in {"BAD_PARAM", "FULL", "EMPTY"} :
                 answer' = [status |-> st, data |-> <<>>]
        BY <2>5 DEF Refuses, Answer
      <3>2. <<>> \in Seq(Byte)
        BY EmptySeq
      <3> QED BY <3>1, <3>2 DEF RingInv, TypeOK, HeadFollows, Wrapped
    <2> QED BY <2>1, <2>2, <2>3, <2>4, <2>5, StepShape
  <1> QED BY <1>1, <1>2, PTL DEF Spec

\* The indices stay within the storage and the count within its size.
THEOREM RingType == Spec => []TypeOK
  <1>1. RingInv => TypeOK
    BY DEF RingInv
  <1> QED BY <1>1, RingShape, PTL

\* The head is where the count says, for every size of the storage.
THEOREM HeadAndCount == Spec => []HeadFollows
  <1>1. RingInv => HeadFollows
    BY DEF RingInv
  <1> QED BY <1>1, RingShape, PTL

-----------------------------------------------------------------------------
(* The refinement.                                                         *)

LEMMA QueuedType ==
    ASSUME RingInv
    PROVE  Queued \in Seq(Byte) /\ Len(Queued) = count
  <1>1. \A i \in 1 .. count : Place(i) \in Index
    BY PlaceType, FifoAssumption DEF FifoAssumption, RingInv, TypeOK
  <1>2. Queued \in [1 .. count -> Byte] /\ count \in Nat
    BY <1>1, FifoAssumption DEF FifoAssumption, RingInv, TypeOK, Queued
  <1> QED BY <1>2, IsASeq, LenProperties

LEMMA EnqueuePuts ==
    ASSUME RingInv, RingInv', NEW bytes \in Blocks, bytes # <<>>, Enqueues(bytes)
    PROVE  Queue!Put(bytes)
  <1>1. Queued \in Seq(Byte) /\ Len(Queued) = count
    BY QueuedType
  <1>2. Queued' \in Seq(Byte) /\ Len(Queued') = count'
    <2>1. (Queued \in Seq(Byte) /\ Len(Queued) = count)'
      BY QueuedType, PTL
    <2> QED BY <2>1
  <1>3. bytes \in Seq(Byte) /\ Len(bytes) \in Nat
    BY BlockType
  <1>4. count \in Nat /\ count' = count + Len(bytes) /\ tail' = tail
    BY DEF RingInv, TypeOK, Enqueues
  <1>5. /\ Queued \o bytes \in Seq(Byte)
        /\ Len(Queued \o bytes) = count'
    BY <1>1, <1>3, <1>4, ConcatProperties
  <1>6. ASSUME NEW i \in 1 .. count' PROVE Queued'[i] = (Queued \o bytes)[i]
    <2>1. Queued'[i] = buffer'[Place(i)]
      BY <1>4 DEF Queued, Place
    <2>2. (Queued \o bytes)[i] = IF i <= count THEN Queued[i] ELSE bytes[i - count]
      BY <1>1, <1>3, <1>4, ConcatProperties
    <2>3. CASE i <= count
      BY <1>4, <2>1, <2>2, <2>3 DEF Enqueues, Queued
    <2>4. CASE ~(i <= count)
      <3>1. i - count \in 1 .. Len(bytes) /\ count + (i - count) = i
        BY <1>3, <1>4, <2>4
      <3> QED BY <2>1, <2>2, <2>4, <3>1 DEF Enqueues
    <2> QED BY <2>3, <2>4
  <1>7. Queued' = Queued \o bytes
    BY <1>2, <1>5, <1>6, SeqEqual
  <1> QED BY <1>1, <1>7 DEF Queue!Put, Queue!Answer, Enqueues, Answer

LEMMA DequeueTakes ==
    ASSUME RingInv, RingInv', NEW n \in Nat, Dequeues(n)
    PROVE  Queue!Take(n)
  <1>1. Queued \in Seq(Byte) /\ Len(Queued) = count
    BY QueuedType
  <1>2. Queued' \in Seq(Byte) /\ Len(Queued') = count'
    <2>1. (Queued \in Seq(Byte) /\ Len(Queued) = count)'
      BY QueuedType, PTL
    <2> QED BY <2>1
  <1>3. /\ count \in Nat /\ n \in 1 .. count /\ count' = count - n
        /\ tail' = Wrapped(tail + n) /\ buffer' = buffer
        /\ tail \in 0 .. max - 1 /\ max \in Nat /\ count <= max
    BY FifoAssumption DEF FifoAssumption, RingInv, TypeOK, Dequeues, Index
  <1>4. \A i \in 1 .. count : Queued[i] \in Byte
    BY <1>1, ElementOfSeq
  <1>5. /\ SubSeq(Queued, 1, n) \in Seq(Byte)
        /\ Len(SubSeq(Queued, 1, n)) = n
        /\ \A i \in 1 .. n : SubSeq(Queued, 1, n)[i] = Queued[i]
    <2>1. n \in Int /\ 1 \in Int /\ 1 <= n /\ n - 1 + 1 = n
      BY <1>3
    <2>2. \A i \in 1 .. n : Queued[i] \in Byte
      BY <1>3, <1>4
    <2>3. \A i \in 1 .. n : 1 + i - 1 = i
      BY <1>3
    <2> QED BY <2>1, <2>2, <2>3, SubSeqProperties
  <1>6. /\ SubSeq(Queued, n + 1, count) \in Seq(Byte)
        /\ Len(SubSeq(Queued, n + 1, count)) = count'
        /\ \A i \in 1 .. count' : SubSeq(Queued, n + 1, count)[i] = Queued[n + i]
    <2>1. n + 1 \in Int /\ count \in Int /\ count - (n + 1) + 1 = count'
      BY <1>3
    <2>2. \A i \in n + 1 .. count : Queued[i] \in Byte
      BY <1>3, <1>4
    <2>3. \A i \in 1 .. count' : (n + 1) + i - 1 = n + i
      BY <1>3
    <2>4. count' = IF n + 1 <= count THEN count - (n + 1) + 1 ELSE 0
      BY <1>3
    <2> QED BY <2>1, <2>2, <2>3, <2>4, SubSeqProperties
  <1>7. [i \in 1 .. n |-> buffer[Place(i)]] = SubSeq(Queued, 1, n)
    <2> DEFINE given == [i \in 1 .. n |-> buffer[Place(i)]]
    <2>1. \A i \in 1 .. n : given[i] = Queued[i]
      BY <1>3 DEF Queued
    <2>2. given \in [1 .. n -> Byte]
      BY <1>3, <1>4, <2>1
    <2>3. given \in Seq(Byte) /\ Len(given) = n
      BY <2>2, IsASeq, LenProperties
    <2>4. \A i \in 1 .. n : given[i] = SubSeq(Queued, 1, n)[i]
      BY <1>5, <2>1
    <2>5. given = SubSeq(Queued, 1, n)
      <3> HIDE DEF given
      <3> QED BY <1>5, <2>3, <2>4, SeqEqual
    <2> QED BY <2>5
  <1>8. Queued' = SubSeq(Queued, n + 1, count)
    <2>1. ASSUME NEW i \in 1 .. count'
          PROVE  Queued'[i] = SubSeq(Queued, n + 1, count)[i]
      <3>1. Place(i)' = Place(n + i) /\ n + i \in 1 .. count
        BY <1>3 DEF Place, Wrapped
      <3>2. Queued'[i] = buffer[Place(n + i)]
        BY <1>3, <3>1 DEF Queued
      <3>3. Queued[n + i] = buffer[Place(n + i)]
        BY <3>1 DEF Queued
      <3> QED BY <1>6, <3>2, <3>3
    <2> QED BY <1>2, <1>6, <2>1, SeqEqual
  <1> QED BY <1>1, <1>3, <1>7, <1>8 DEF Queue!Take, Queue!Answer, Dequeues, Answer

\* The ring buffer implements the queue of blocks, for every size and every byte:
\* first in, first out, all of a block or none of it.
THEOREM RingIsQueue == Spec => ImplementsQueue
  <1> USE FifoAssumption DEF FifoAssumption
  <1>1. Init => Queue!Init
    BY DEF Init, Queue!Init, Queued
  <1>2. RingInv /\ RingInv' /\ [Next]_vars => [Queue!Next]_<<Queued, answer>>
    <2> SUFFICES ASSUME RingInv, RingInv', [Next]_vars
                 PROVE  [Queue!Next]_<<Queued, answer>>
      OBVIOUS
    <2>1. CASE UNCHANGED vars
      BY <2>1 DEF vars, Queued, Place, Wrapped
    <2>2. ASSUME fifo_init PROVE Queue!Next
      BY <2>2 DEF fifo_init, Answer, Queue!Next, Queue!Reset, Queue!Answer, Queued
    <2>3. ASSUME NEW bytes \in Blocks, bytes # <<>>, Enqueues(bytes) PROVE Queue!Next
      BY <2>3, EnqueuePuts DEF Queue!Next, Queue!Blocks, Blocks
    <2>4. ASSUME NEW n \in 0 .. max + 1, Dequeues(n) PROVE Queue!Next
      BY <2>4, DequeueTakes DEF Queue!Next
    <2>5. ASSUME NEW n \in 0 .. max + 1, Refuses(n) PROVE Queue!Next
      <3>1. Len(Queued) = count /\ count \in Nat
        BY QueuedType DEF RingInv, TypeOK
      <3>2. Queued' = Queued
        BY <2>5 DEF Refuses, Queued, Place, Wrapped
      <3>3. Queue!Refuse(n)
        BY <2>5, <3>1, <3>2 DEF Refuses, Answer, Queue!Refuse, Queue!Answer
      <3> QED BY <3>3 DEF Queue!Next
    <2> QED BY <2>1, <2>2, <2>3, <2>4, <2>5, StepShape
  <1> QED BY <1>1, <1>2, RingShape, PTL DEF Spec, ImplementsQueue, Queue!Spec
=============================================================================
