------------------------- MODULE Algorithms_proofs -------------------------
(***************************************************************************)
(* What the algorithms promise, for every input there is: images, texts,   *)
(* buses, timers, delays and devices of any size.                          *)
(***************************************************************************)
EXTENDS Algorithms, SequenceTheorems, FiniteSetTheorems,
        WellFoundedInduction, TLAPS

-----------------------------------------------------------------------------
(* Reboot: the remainder, and times on the timer.                          *)

\* What the remainder does within one turn of the timer of 0.
LEMMA OneTurn ==
    /\ \A x \in 0 .. TimerRange - 1 : x % TimerRange = x
    /\ \A x \in TimerRange .. 2 * TimerRange - 1 : x % TimerRange = x - TimerRange
    /\ \A x \in -TimerRange .. -1 : x % TimerRange = x + TimerRange
  <1>1. TimerRange \in Nat \ {0}
    BY TimerAssumption DEF TimerAssumption
  <1>2. ASSUME NEW x \in 0 .. TimerRange - 1 PROVE x % TimerRange = x
    BY <1>1
  <1>3. ASSUME NEW x \in TimerRange .. 2 * TimerRange - 1
        PROVE  x % TimerRange = x - TimerRange
    BY <1>1
  <1>4. ASSUME NEW x \in -TimerRange .. -1 PROVE x % TimerRange = x + TimerRange
    BY <1>1
  <1> QED BY <1>2, <1>3, <1>4

\* Two times less than half a turn apart compare as the times they stand for.
LEMMA Apart ==
    ASSUME NEW s \in 0 .. TimerRange - 1, NEW d \in Nat, NEW t \in Nat,
           2 * d < TimerRange, t <= d + 1, 0 < d
    PROVE  (((s + t) % TimerRange) - ((s + d) % TimerRange)) % TimerRange
             = IF t <= d THEN (IF t = d THEN 0 ELSE TimerRange + t - d) ELSE 1
  <1>1. TimerRange \in Nat \ {0} /\ d + 1 < TimerRange
    BY TimerAssumption DEF TimerAssumption
  <1> DEFINE Shown(x) == x % TimerRange
             diff == Shown(s + t) - Shown(s + d)
  <1>2. ASSUME NEW x \in 0 .. 2 * TimerRange - 1
        PROVE  /\ x < TimerRange => Shown(x) = x
               /\ x >= TimerRange => Shown(x) = x - TimerRange
    BY <1>1, OneTurn
  <1>3. s + t \in 0 .. 2 * TimerRange - 1 /\ s + d \in 0 .. 2 * TimerRange - 1
    BY <1>1
  <1> HIDE DEF Shown
  <1>4. /\ Shown(s + t) = s + t \/ Shown(s + t) = s + t - TimerRange
        /\ Shown(s + d) = s + d \/ Shown(s + d) = s + d - TimerRange
        /\ Shown(s + t) \in 0 .. TimerRange - 1 /\ Shown(s + d) \in 0 .. TimerRange - 1
    BY <1>1, <1>2, <1>3
  <1>5. /\ diff \in {t - d, t - d - TimerRange, t - d + TimerRange}
        /\ diff \in -TimerRange .. TimerRange - 1
    BY <1>1, <1>4
  <1>6. CASE t < d
    <2>1. diff = t - d \/ diff = t - d + TimerRange
      BY <1>1, <1>5, <1>6
    <2>2. t - d \in -TimerRange .. -1 /\ t - d + TimerRange \in 0 .. TimerRange - 1
      BY <1>1, <1>6
    <2>3. Shown(diff) = TimerRange + t - d
      BY <1>1, <2>1, <2>2, OneTurn DEF Shown
    <2> QED BY <1>6, <2>3 DEF Shown
  <1>7. CASE t = d
    <2>1. diff = 0 /\ 0 \in 0 .. TimerRange - 1
      BY <1>1, <1>4, <1>7
    <2>2. Shown(diff) = 0
      BY <2>1, OneTurn DEF Shown
    <2> QED BY <1>7, <2>2 DEF Shown
  <1>8. CASE t = d + 1
    <2>1. diff = 1 \/ diff = 1 - TimerRange
      BY <1>1, <1>5, <1>8
    <2>2. 1 \in 0 .. TimerRange - 1 /\ 1 - TimerRange \in -TimerRange .. -1
      BY <1>1
    <2>3. Shown(diff) = 1
      BY <1>1, <2>1, <2>2, OneTurn DEF Shown
    <2> QED BY <1>8, <2>3 DEF Shown
  <1> QED BY <1>6, <1>7, <1>8

-----------------------------------------------------------------------------
(* The nodes.                                                              *)

\* Whatever the number of tiles and the tile that runs the code, every node is
\* reset, once, and the one that runs the code last.
THEOREM NodesReset ==
    ASSUME NEW tiles \in Nat \ {0}, NEW localTile \in 0 .. tiles - 1
    PROVE  EveryNodeOnce(tiles, localTile)
  <1> SUFFICES ASSUME tiles % 2 = 0
               PROVE  LET resets == device_internal_reboot(tiles, localTile)
                      IN  /\ \A t \in 0 .. tiles - 1 : \E r \in resets : OnNodeOf(r.tile, t)
                          /\ \A r, q \in resets : OnNodeOf(r.tile, q.tile) => r = q
                          /\ \A r \in resets : OnNodeOf(r.tile, localTile)
                                                  => \A q \in resets : q.at <= r.at
    BY DEF EveryNodeOnce
  <1> DEFINE nodes  == tiles \div 2
             local  == localTile \div 2
             last   == [at |-> nodes + 1, tile |-> localTile]
             resets == device_internal_reboot(tiles, localTile)
  <1>1. tiles = 2 * nodes /\ nodes \in Nat \ {0} /\ local \in 0 .. nodes - 1
    OBVIOUS
  <1>2. \A i \in 1 .. nodes : LoopTile(tiles, i) \div 2 = nodes - i
    BY <1>1 DEF LoopTile
  <1>3. \A i \in 1 .. nodes : i \in Remote(tiles, localTile) <=> nodes - i # local
    BY <1>2 DEF Remote, OnNodeOf
  <1>4. resets = { [at |-> i, tile |-> LoopTile(tiles, i)] : i \in Remote(tiles, localTile) }
                 \cup {last}
    BY DEF device_internal_reboot
  <1>5. Remote(tiles, localTile) \subseteq 1 .. nodes
    BY DEF Remote
  <1>6. \A r \in resets : r = last \/ \E i \in 1 .. nodes :
            r = [at |-> i, tile |-> LoopTile(tiles, i)] /\ nodes - i # local
    BY <1>3, <1>4, <1>5
  <1> HIDE DEF nodes, resets
  <1>7. \A r \in resets : \/ r = last
                          \/ /\ r.at \in 1 .. nodes /\ r.tile \div 2 = nodes - r.at
                             /\ r.tile \div 2 # local
                             /\ r = [at |-> r.at, tile |-> LoopTile(tiles, r.at)]
    BY <1>2, <1>6
  <1>8. ASSUME NEW t \in 0 .. tiles - 1
        PROVE  \E r \in resets : OnNodeOf(r.tile, t)
    <2>1. t \div 2 \in 0 .. nodes - 1
      BY <1>1
    <2>2. CASE t \div 2 = local
      <3>1. last \in resets /\ last.tile = localTile
        BY <1>4
      <3> QED BY <2>2, <3>1 DEF OnNodeOf
    <2>3. CASE t \div 2 # local
      <3> DEFINE i == nodes - t \div 2
      <3>1. i \in 1 .. nodes /\ nodes - i = t \div 2
        BY <1>1, <2>1
      <3>2. [at |-> i, tile |-> LoopTile(tiles, i)] \in resets
        BY <1>3, <1>4, <2>3, <3>1
      <3>3. OnNodeOf([at |-> i, tile |-> LoopTile(tiles, i)].tile, t)
        BY <1>2, <3>1 DEF OnNodeOf
      <3> QED BY <3>2, <3>3
    <2> QED BY <2>2, <2>3
  <1>9. ASSUME NEW r \in resets, NEW q \in resets, OnNodeOf(r.tile, q.tile)
        PROVE  r = q
    <2>1. CASE r = last \/ q = last
      BY <1>7, <1>9, <2>1 DEF OnNodeOf
    <2>2. CASE r # last /\ q # last
      <3>1. r.at = q.at
        BY <1>1, <1>7, <1>9, <2>2 DEF OnNodeOf
      <3> QED BY <1>7, <2>2, <3>1
    <2> QED BY <2>1, <2>2
  <1>10. ASSUME NEW r \in resets, OnNodeOf(r.tile, localTile), NEW q \in resets
         PROVE  q.at <= r.at
    <2>1. r = last
      BY <1>7, <1>10 DEF OnNodeOf
    <2> QED BY <1>1, <1>7, <2>1
  <1> QED BY <1>8, <1>9, <1>10 DEF resets

-----------------------------------------------------------------------------
(* The delay.                                                              *)

LEMMA TicksOfDelay ==
    ASSUME NEW delay_ms \in Nat \ {0}, delay_ms * XS1_TIMER_KHZ < TimerRange
    PROVE  ticks(delay_ms) = delay_ms * XS1_TIMER_KHZ
  <1>1. TimerRange \in Nat \ {0} /\ XS1_TIMER_KHZ \in Nat \ {0}
    BY TimerAssumption DEF TimerAssumption
  <1> DEFINE wanted == delay_ms * XS1_TIMER_KHZ
             most == UINT32_MAX \div XS1_TIMER_KHZ
  <1>2. wanted \in Nat /\ wanted <= UINT32_MAX /\ UINT32_MAX \in Nat
    BY <1>1 DEF UINT32_MAX
  <1>3. most \in Nat /\ UINT32_MAX < (most + 1) * XS1_TIMER_KHZ
    BY <1>1, <1>2
  <1>4. delay_ms <= most
    <2> SUFFICES ASSUME delay_ms > most PROVE FALSE
      BY <1>3
    <2>1. delay_ms >= most + 1
      BY <1>3
    <2>2. delay_ms * XS1_TIMER_KHZ >= (most + 1) * XS1_TIMER_KHZ
      BY <1>1, <1>3, <2>1
    <2>3. (most + 1) * XS1_TIMER_KHZ \in Int
      BY <1>1, <1>3
    <2> QED BY <1>2, <1>3, <2>2, <2>3
  <1>5. wanted % TimerRange = wanted
    <2>1. wanted \in 0 .. TimerRange - 1
      BY <1>1, <1>2 DEF UINT32_MAX
    <2> QED BY <2>1, OneTurn
  <1>6. ticks(delay_ms) = (delay_ms * XS1_TIMER_KHZ) % TimerRange
    <2>1. ~(delay_ms > most) /\ delay_ms > 0
      BY <1>3, <1>4
    <2> QED BY <2>1 DEF ticks
  <1> QED BY <1>5, <1>6

\* A delay of less than half a turn of the timer is kept, whatever the timer shows
\* when it starts.
THEOREM DelayKept ==
    ASSUME NEW s \in 0 .. TimerRange - 1, NEW delay_ms \in Nat
    PROVE  DelayIsKept(s, delay_ms)
  <1> DEFINE wanted == delay_ms * XS1_TIMER_KHZ
             half == TimerRange \div 2
  <1> SUFFICES ASSUME delay_ms > 0, 2 * delay_ms * XS1_TIMER_KHZ < TimerRange
               PROVE  /\ \A t \in 0 .. wanted :
                           ~dfu_delay_raw(s, ticks(delay_ms), (s + t) % TimerRange)
                      /\ dfu_delay_raw(s, ticks(delay_ms), (s + wanted + 1) % TimerRange)
    BY DEF DelayIsKept
  <1>1. TimerRange \in Nat \ {0} /\ XS1_TIMER_KHZ \in Nat \ {0} /\ TimerRange = 2 * half
    BY TimerAssumption DEF TimerAssumption
  <1>2. wanted \in Nat \ {0} /\ 2 * wanted < TimerRange
    BY <1>1
  <1>3. ticks(delay_ms) = wanted
    BY <1>1, <1>2, TicksOfDelay
  <1> HIDE DEF wanted
  <1>4. ASSUME NEW t \in 0 .. wanted
        PROVE  ~dfu_delay_raw(s, ticks(delay_ms), (s + t) % TimerRange)
    <2>1. (((s + t) % TimerRange) - ((s + wanted) % TimerRange)) % TimerRange
            = IF t = wanted THEN 0 ELSE TimerRange + t - wanted
      BY <1>2, Apart
    <2>2. (((s + t) % TimerRange) - ((s + wanted) % TimerRange)) % TimerRange
            \notin 1 .. half - 1
      BY <1>1, <1>2, <2>1
    <2> QED BY <1>3, <2>2 DEF dfu_delay_raw, timerafter
  <1>5. dfu_delay_raw(s, ticks(delay_ms), (s + wanted + 1) % TimerRange)
    <2>1. (((s + (wanted + 1)) % TimerRange) - ((s + wanted) % TimerRange)) % TimerRange = 1
      <3>1. wanted + 1 \in Nat /\ wanted + 1 <= wanted + 1 /\ ~(wanted + 1 <= wanted)
            /\ wanted \in Nat /\ 0 < wanted
        BY <1>2
      <3> QED BY <1>2, <3>1, Apart
    <2>2. s + wanted + 1 = s + (wanted + 1) /\ 1 \in 1 .. half - 1
      BY <1>1, <1>2
    <2> QED BY <1>3, <2>1, <2>2 DEF dfu_delay_raw, timerafter
  <1> QED BY <1>4, <1>5

-----------------------------------------------------------------------------
(* Numbers of blocks.                                                      *)

\* An image the tool goes on with has no more blocks than there are numbers.
LEMMA BlocksCounted ==
    ASSUME NEW length \in Nat, NEW block_size \in Nat,
           WriteUpgradeAccepts(length, block_size)
    PROVE  num_blocks(length, block_size) \in Nat
           /\ num_blocks(length, block_size) <= 32768
  <1> DEFINE blocks == num_blocks(length, block_size)
  <1>1. length > 0 /\ length <= 32768 * block_size
    BY DEF WriteUpgradeAccepts, fifteen_bits_max
  <1>2. block_size > 0
    BY <1>1
  <1>3. blocks \in Nat /\ blocks * block_size <= length + block_size - 1
    BY <1>2 DEF num_blocks
  <1>4. blocks <= 32768
    <2> SUFFICES ASSUME blocks >= 32769 PROVE FALSE
      BY <1>1, <1>3
    <2>1. blocks * block_size >= 32769 * block_size
      BY <1>3, <1>2
    <2>2. 32769 * block_size = 32768 * block_size + block_size
      OBVIOUS
    <2>3. blocks * block_size \in Int
      BY <1>3
    <2> HIDE DEF blocks
    <2> QED BY <1>1, <1>3, <2>1, <2>2, <2>3
  <1> QED BY <1>3, <1>4

\* No two blocks of such an image have the same number.
LEMMA BlocksTold ==
    ASSUME NEW length \in Nat, NEW block_size \in Nat
    PROVE  BlocksAreTold(length, block_size)
  <1> DEFINE blocks == num_blocks(length, block_size)
  <1> SUFFICES ASSUME WriteUpgradeAccepts(length, block_size)
               PROVE  Cardinality({ block_num(i) : i \in 1 .. blocks }) = blocks
    BY DEF BlocksAreTold
  <1>1. blocks \in Nat /\ blocks <= 32768
    BY BlocksCounted
  <1> HIDE DEF blocks
  <1>2. ASSUME NEW i \in 1 .. blocks PROVE block_num(i) = i
    <2>1. i \in Nat /\ i <= 32768
      BY <1>1
    <2> QED BY <2>1 DEF block_num
  <1>3. { block_num(i) : i \in 1 .. blocks } = 1 .. blocks
    BY <1>2
  <1>4. Cardinality(1 .. blocks) = blocks
    <2>1. blocks = 0 \/ blocks >= 1
      BY <1>1
    <2>2. 1 \in Int /\ blocks \in Int /\ (blocks >= 1 => blocks - 1 + 1 = blocks)
      BY <1>1
    <2> QED BY <2>1, <2>2, FS_Interval
  <1> QED BY <1>3, <1>4

-----------------------------------------------------------------------------
(* Least numbers, and with them induction: what is wrong for some number   *)
(* is wrong for a least one.                                               *)

Below == { p \in Nat \X Nat : p[1] < p[2] }

LEMMA LeastNumber ==
    ASSUME NEW T \in SUBSET Nat, T # {}
    PROVE  \E least \in T : \A y \in T : least =< y
  <1>1. IsWellFoundedOn(Below, Nat)
    BY NatLessThanWellFounded DEF OpToRel, Below
  <1>2. PICK x \in T : \A y \in T : ~ (<<y, x>> \in Below)
    BY <1>1, WFMin
  <1>3. ASSUME NEW y \in T PROVE x =< y
    <2>1. x \in Nat /\ y \in Nat
      OBVIOUS
    <2>2. y < x => <<y, x>> \in Below
      BY <2>1 DEF Below
    <2> QED BY <1>2, <2>1, <2>2
  <1> QED BY <1>3

LEMMA MinIsLeast ==
    ASSUME NEW T \in SUBSET Nat, T # {}
    PROVE  Min(T) \in T /\ \A y \in T : Min(T) =< y
  <1>1. \E least \in T : \A y \in T : least =< y
    BY LeastNumber
  <1> QED BY <1>1, Zenon DEF Min

-----------------------------------------------------------------------------
(* The checksum.                                                           *)

\* A run of the register over the first n bits.
Steps(bytes, n, crc) ==
    crc = [k \in 0 .. n |-> IF k = 0 THEN crc_init
                            ELSE crc_bit(crc[k - 1], TopBit(bytes, k - 1))]

\* There is one, over any number of bits: none is the least number without.
LEMMA StepsExist ==
    ASSUME NEW bytes, NEW size \in Nat
    PROVE  \E crc : Steps(bytes, size, crc)
  <1> DEFINE without == { n \in Nat : ~ \E crc : Steps(bytes, n, crc) }
  <1>1. SUFFICES ASSUME without # {} PROVE FALSE
    OBVIOUS
  <1>2. PICK n \in without : \A k \in without : n =< k
    <2>1. without \in SUBSET Nat
      OBVIOUS
    <2> QED BY <1>1, <2>1, LeastNumber
  <1>3. n \in Nat /\ ~ \E crc : Steps(bytes, n, crc)
    OBVIOUS
  <1>4. CASE n = 0
    <2> DEFINE crc == [k \in 0 .. n |-> crc_init]
    <2>1. Steps(bytes, n, crc)
      BY <1>4 DEF Steps
    <2> QED BY <1>3, <2>1
  <1>5. CASE n # 0
    <2>1. n - 1 \in Nat /\ n - 1 \notin without
      BY <1>2, <1>3, <1>5
    <2>2. PICK old : Steps(bytes, n - 1, old)
      BY <2>1
    <2> DEFINE crc == [k \in 0 .. n |-> IF k = n THEN crc_bit(old[n - 1], TopBit(bytes, n - 1))
                                        ELSE old[k]]
    <2>3. ASSUME NEW k \in 0 .. n
          PROVE  crc[k] = IF k = 0 THEN crc_init
                          ELSE crc_bit(crc[k - 1], TopBit(bytes, k - 1))
      <3>1. CASE k = 0
        <4>1. 0 \in 0 .. n - 1 /\ 0 # n
          BY <1>3, <1>5
        <4>2. old[0] = crc_init
          BY <2>2, <4>1 DEF Steps
        <4> QED BY <3>1, <4>1, <4>2
      <3>2. CASE k = n
        <4>1. n - 1 \in 0 .. n /\ n - 1 # n
          BY <1>3, <1>5
        <4>2. crc[k - 1] = old[n - 1] /\ crc[k] = crc_bit(old[n - 1], TopBit(bytes, n - 1))
          BY <3>2, <4>1
        <4> HIDE DEF crc
        <4> QED BY <1>5, <3>2, <4>2
      <3>3. CASE k # 0 /\ k # n
        <4>1. k \in 0 .. n - 1 /\ k - 1 \in 0 .. n /\ k - 1 # n
          BY <1>3, <3>3
        <4>2. old[k] = crc_bit(old[k - 1], TopBit(bytes, k - 1))
          BY <2>2, <3>3, <4>1 DEF Steps
        <4>3. crc[k] = old[k] /\ crc[k - 1] = old[k - 1]
          BY <3>3, <4>1
        <4> HIDE DEF crc
        <4> QED BY <3>3, <4>2, <4>3
      <3> QED BY <3>1, <3>2, <3>3
    <2>4. crc = [k \in 0 .. n |-> crc[k]]
      OBVIOUS
    <2> HIDE DEF crc
    <2>5. Steps(bytes, n, crc)
      BY <2>3, <2>4 DEF Steps
    <2> QED BY <1>3, <2>5
  <1> QED BY <1>4, <1>5

\* What enters at the top.
Tops == { {}, {31} }

\* One bit of the register.
LEMMA BitTyped ==
    ASSUME NEW crc \in Word(32), NEW top \in Tops
    PROVE  crc_bit(crc, top) \in Word(32)
  <1>1. \A bit \in crc \ {0} : bit - 1 \in 0 .. 31
    BY DEF Word
  <1>2. CRC_POLYNOMIAL \in Word(32) /\ top \in Word(32)
    BY DEF CRC_POLYNOMIAL, Word, Tops
  <1> DEFINE shifted == { bit - 1 : bit \in crc \ {0} } \cup top
  <1>3. shifted \in Word(32)
    <2>1. { bit - 1 : bit \in crc \ {0} } \subseteq 0 .. 31
      BY <1>1
    <2>2. top \subseteq 0 .. 31 /\ 32 - 1 = 31
      BY DEF Tops
    <2> QED BY <2>1, <2>2 DEF Word
  <1> HIDE DEF shifted
  <1>4. Xor(shifted, CRC_POLYNOMIAL) \in Word(32)
    BY <1>2, <1>3 DEF Xor, Word
  <1>5. crc_bit(crc, top) = IF 0 \in crc THEN Xor(shifted, CRC_POLYNOMIAL) ELSE shifted
    BY DEF crc_bit, shifted
  <1> QED BY <1>3, <1>4, <1>5

\* The register is a word at each step.
LEMMA StepsAre ==
    ASSUME NEW bytes \in Seq(Word(8))
    PROVE  LET crc  == crc_steps(bytes)
               size == 8 * Len(bytes)
           IN  /\ crc[0] = crc_init
               /\ \A n \in 0 .. size - 1 : crc[n + 1] = crc_bit(crc[n], TopBit(bytes, n))
               /\ \A n \in 0 .. size : crc[n] \in Word(32)
  <1> DEFINE crc  == crc_steps(bytes)
             size == 8 * Len(bytes)
  <1>1. size \in Nat
    OBVIOUS
  <1>2. Steps(bytes, size, crc)
    <2>1. \E c : Steps(bytes, size, c)
      BY <1>1, StepsExist
    <2>2. Steps(bytes, size, CHOOSE c : Steps(bytes, size, c))
      BY <2>1, Zenon
    <2>3. crc = CHOOSE c : Steps(bytes, size, c)
      BY Zenon DEF crc_steps, Steps
    <2> QED BY <2>2, <2>3, Zenon
  <1> HIDE DEF crc, size
  <1>3. crc[0] = crc_init
    <2>1. 0 \in 0 .. size
      BY <1>1
    <2> QED BY <1>2, <2>1 DEF Steps
  <1>4. ASSUME NEW n \in 0 .. size - 1
        PROVE  crc[n + 1] = crc_bit(crc[n], TopBit(bytes, n))
    <2>1. n + 1 \in 0 .. size /\ n + 1 # 0 /\ (n + 1) - 1 = n
      BY <1>1
    <2>2. crc[n + 1] = crc_bit(crc[(n + 1) - 1], TopBit(bytes, (n + 1) - 1))
      BY <1>2, <2>1 DEF Steps
    <2> QED BY <2>1, <2>2
  <1>5. ASSUME { n \in 0 .. size : crc[n] \notin Word(32) } # {} PROVE FALSE
    <2> DEFINE wrong == { n \in 0 .. size : crc[n] \notin Word(32) }
    <2>1. PICK n \in wrong : \A k \in wrong : n =< k
      <3>1. wrong \in SUBSET Nat /\ wrong # {}
        BY <1>5
      <3> QED BY <3>1, LeastNumber
    <2>2. n \in 0 .. size /\ crc[n] \notin Word(32)
      OBVIOUS
    <2>3. n # 0
      BY <1>3, <2>2 DEF crc_init, Ones, Word
    <2>4. n - 1 \in 0 .. size - 1 /\ (n - 1) + 1 = n /\ n - 1 \in 0 .. size
      BY <1>1, <2>2, <2>3
    <2>5. crc[n - 1] \in Word(32)
      BY <2>1, <2>4
    <2>6. crc[n] = crc_bit(crc[n - 1], TopBit(bytes, n - 1))
      BY <1>4, <2>4
    <2>7. TopBit(bytes, n - 1) \in Tops
      BY DEF TopBit, Tops
    <2> QED BY <2>2, <2>5, <2>6, <2>7, BitTyped
  <1>6. \A n \in 0 .. size : crc[n] \in Word(32)
    BY <1>5
  <1> QED BY <1>3, <1>4, <1>6 DEF crc, size

\* A word shifted down a bit.
Lowered(w) == { bit - 1 : bit \in w }

\* What two registers differ in moves down with them as long as it does not reach
\* the end, and never goes away.
LEMMA BitLinear ==
    ASSUME NEW a \in Word(32), NEW b \in Word(32),
           NEW s \in Tops, NEW t \in Tops
    PROVE  /\ (0 \notin Xor(a, b)
                => Xor(crc_bit(a, s), crc_bit(b, t)) = Lowered(Xor(a, b)) \cup Xor(s, t))
           /\ (s = t /\ Xor(a, b) # {}
                => Xor(crc_bit(a, s), crc_bit(b, t)) # {})
  <1> DEFINE d == Xor(a, b)
             e == Xor(crc_bit(a, s), crc_bit(b, t))
             Shift(w) == { bit - 1 : bit \in w \ {0} }
             P == CRC_POLYNOMIAL
  <1>1. ASSUME NEW w \in Word(32)
        PROVE  /\ \A k : k \in Shift(w) <=> k \in 0 .. 30 /\ k + 1 \in w
               /\ 31 \notin Shift(w)
    <2>1. \A bit \in w : bit \in 0 .. 31
      BY DEF Word
    <2>2. ASSUME NEW k \in Shift(w) PROVE k \in 0 .. 30 /\ k + 1 \in w
      <3>1. PICK bit \in w \ {0} : k = bit - 1
        OBVIOUS
      <3>2. bit \in 1 .. 31 /\ (bit - 1) + 1 = bit
        BY <2>1
      <3> QED BY <3>1, <3>2
    <2>3. ASSUME NEW k \in 0 .. 30, k + 1 \in w PROVE k \in Shift(w)
      <3>1. k + 1 \in w \ {0} /\ k = (k + 1) - 1
        BY <2>3
      <3> QED BY <3>1
    <2> HIDE DEF Shift
    <2> QED BY <2>2, <2>3
  <1>2. a \subseteq 0 .. 31 /\ b \subseteq 0 .. 31 /\ d \in Word(32)
    BY DEF Word, Xor
  <1>3. /\ crc_bit(a, s) = IF 0 \in a THEN Xor(Shift(a) \cup s, P) ELSE Shift(a) \cup s
        /\ crc_bit(b, t) = IF 0 \in b THEN Xor(Shift(b) \cup t, P) ELSE Shift(b) \cup t
    BY DEF crc_bit
  <1>4. /\ \A k : k \in Shift(a) <=> k \in 0 .. 30 /\ k + 1 \in a
        /\ \A k : k \in Shift(b) <=> k \in 0 .. 30 /\ k + 1 \in b
        /\ \A k : k \in Shift(d) <=> k \in 0 .. 30 /\ k + 1 \in d
        /\ 31 \notin Shift(a) /\ 31 \notin Shift(b)
    BY <1>1, <1>2
  <1>5. 31 \in P
    BY DEF CRC_POLYNOMIAL
  <1>6. 0 \notin d => Shift(d) = { bit - 1 : bit \in d }
    OBVIOUS
  <1> HIDE DEF Shift, P
  <1>7. \A k : k \in d <=> (k \in a /\ k \notin b) \/ (k \in b /\ k \notin a)
    BY DEF Xor
  <1>8. Shift(d) = Xor(Shift(a), Shift(b))
    BY <1>4, <1>7 DEF Xor
  <1>9. 0 \notin d => e = Shift(d) \cup Xor(s, t)
    <2> SUFFICES ASSUME 0 \notin d PROVE e = Shift(d) \cup Xor(s, t)
      OBVIOUS
    <2>1. 0 \in a <=> 0 \in b
      BY <1>7
    <2>2. e = Xor(Shift(a) \cup s, Shift(b) \cup t)
      BY <1>3, <2>1 DEF Xor
    <2>3. Xor(Shift(a) \cup s, Shift(b) \cup t) = Xor(Shift(a), Shift(b)) \cup Xor(s, t)
      BY <1>4 DEF Xor, Tops
    <2> QED BY <1>8, <2>2, <2>3
  <1>10. s = t /\ d # {} => e # {}
    <2> SUFFICES ASSUME s = t, d # {} PROVE e # {}
      OBVIOUS
    <2>1. CASE 0 \notin d
      <3>1. PICK bit : bit \in d
        OBVIOUS
      <3>2. bit \in 1 .. 31
        BY <1>2, <2>1, <3>1 DEF Word
      <3>3. bit - 1 \in 0 .. 30 /\ (bit - 1) + 1 = bit
        BY <3>2
      <3>4. bit - 1 \in Shift(d)
        BY <1>4, <3>1, <3>3
      <3> QED BY <1>9, <2>1, <3>4
    <2>2. CASE 0 \in d
      <3>1. (0 \in a /\ 0 \notin b) \/ (0 \in b /\ 0 \notin a)
        BY <1>7, <2>2
      <3>2. 31 \in e
        BY <1>3, <1>4, <1>5, <3>1 DEF Xor
      <3> QED BY <3>2
    <2> QED BY <2>1, <2>2
  <1> HIDE DEF d, e
  <1>11. 0 \notin d => e = { bit - 1 : bit \in d } \cup Xor(s, t)
    BY <1>6, <1>9
  <1> QED BY <1>10, <1>11 DEF d, e, Lowered

\* Two files of one length whose bits differ within a window of 32 have different
\* checksums.
LEMMA ChecksumTells ==
    ASSUME NEW bytes \in Seq(Word(8)), NEW other \in Seq(Word(8)), Len(other) = Len(bytes),
           NEW first \in Nat, NEW end \in Nat, end <= first + 32, end <= 8 * Len(bytes),
           \A n \in 0 .. 8 * Len(bytes) - 1 :
               TopBit(bytes, n) # TopBit(other, n) => n \in first .. end - 1,
           \E n \in 0 .. 8 * Len(bytes) - 1 : TopBit(bytes, n) # TopBit(other, n)
    PROVE  checksum(bytes) # checksum(other)
  <1> DEFINE a == crc_steps(bytes)
             b == crc_steps(other)
             size == 8 * Len(bytes)
             s(n) == TopBit(bytes, n)
             t(n) == TopBit(other, n)
             d(n) == Xor(a[n], b[n])
             Same(n) == \A k \in 0 .. n - 1 : s(k) = t(k)
             Good(n) == /\ d(n) = {} <=> Same(n)
                        /\ n <= end => \A bit \in d(n) : bit >= 32 - (n - first)
  <1>1. /\ a[0] = crc_init
        /\ \A n \in 0 .. size - 1 : a[n + 1] = crc_bit(a[n], s(n))
        /\ \A n \in 0 .. size : a[n] \in Word(32)
    BY StepsAre
  <1>2. /\ b[0] = crc_init
        /\ \A n \in 0 .. size - 1 : b[n + 1] = crc_bit(b[n], t(n))
        /\ \A n \in 0 .. size : b[n] \in Word(32)
    BY StepsAre
  <1>3. \A n : s(n) \in Tops /\ t(n) \in Tops
    BY DEF TopBit, Tops
  <1>4. /\ \A n \in 0 .. size - 1 : s(n) # t(n) => n \in first .. end - 1
        /\ \E n \in 0 .. size - 1 : s(n) # t(n)
        /\ size \in Nat /\ end <= size
    OBVIOUS
  <1>5. /\ checksum(bytes) = crc_finish(a[size])
        /\ checksum(other) = crc_finish(b[size])
    BY DEF checksum
  <1> HIDE DEF a, b, size, s, t
  <1>6. Good(0)
    <2>1. d(0) = {}
      BY <1>1, <1>2 DEF Xor
    <2>2. Same(0)
      OBVIOUS
    <2> QED BY <2>1, <2>2
  <1>7. ASSUME NEW n \in 0 .. size - 1, Good(n) PROVE Good(n + 1)
    <2>1. /\ d(n + 1) = Xor(crc_bit(a[n], s(n)), crc_bit(b[n], t(n)))
          /\ a[n] \in Word(32) /\ b[n] \in Word(32)
      BY <1>1, <1>2, <1>4
    <2>2. /\ 0 \notin d(n) => d(n + 1) = Lowered(d(n)) \cup Xor(s(n), t(n))
          /\ s(n) = t(n) /\ d(n) # {} => d(n + 1) # {}
      <3> DEFINE x == a[n]
                 y == b[n]
                 u == s(n)
                 v == t(n)
      <3>1. x \in Word(32) /\ y \in Word(32) /\ u \in Tops /\ v \in Tops
        BY <1>3, <2>1
      <3> HIDE DEF x, y, u, v
      <3>2. /\ (0 \notin Xor(x, y)
                 => Xor(crc_bit(x, u), crc_bit(y, v)) = Lowered(Xor(x, y)) \cup Xor(u, v))
            /\ (u = v /\ Xor(x, y) # {}
                 => Xor(crc_bit(x, u), crc_bit(y, v)) # {})
        BY <3>1, BitLinear
      <3> QED BY <2>1, <3>2, Zenon DEF x, y, u, v
    <2>3. Same(n + 1) <=> Same(n) /\ s(n) = t(n)
      <3>1. \A k : k \in 0 .. (n + 1) - 1 <=> k \in 0 .. n - 1 \/ k = n
        BY <1>4
      <3> QED BY <3>1
    <2>4. \A bit \in d(n) : bit \in 0 .. 31
      <3>1. \A w \in Word(32) : \A bit \in w : bit \in 0 .. 31
        BY DEF Word
      <3>2. \A bit \in d(n) : bit \in a[n] \/ bit \in b[n]
        BY DEF Xor
      <3> HIDE DEF d
      <3> QED BY <2>1, <3>1, <3>2
    <2>5. n \in Nat
      BY <1>4
    <2>6. Xor(s(n), t(n)) \in Tops /\ (Xor(s(n), t(n)) = {} <=> s(n) = t(n))
      BY <1>3 DEF Xor, Tops
    <2> HIDE DEF d, Same
    <2>7. CASE n < end
      <3>1. 0 \notin d(n)
        <4>1. \A bit \in d(n) : bit >= 32 - (n - first)
          BY <1>7, <2>5, <2>7
        <4> QED BY <2>5, <2>7, <4>1
      <3>2. d(n + 1) = { bit - 1 : bit \in d(n) } \cup Xor(s(n), t(n))
        BY <2>2, <3>1 DEF Lowered
      <3>3. d(n + 1) = {} <=> d(n) = {} /\ s(n) = t(n)
        BY <2>6, <3>2
      <3>4. ASSUME NEW bit \in d(n + 1) PROVE bit >= 32 - ((n + 1) - first)
        <4>1. CASE bit \in { x - 1 : x \in d(n) }
          <5>1. PICK x \in d(n) : bit = x - 1
            BY <4>1
          <5>2. x \in 0 .. 31 /\ x >= 32 - (n - first)
            BY <1>7, <2>4, <2>5, <2>7
          <5> QED BY <2>5, <5>1, <5>2
        <4>2. CASE bit \in Xor(s(n), t(n))
          <5>1. bit = 31 /\ s(n) # t(n)
            BY <2>6, <4>2 DEF Tops
          <5>2. n \in first .. end - 1
            BY <1>4, <5>1
          <5> QED BY <2>5, <5>1, <5>2
        <4> QED BY <3>2, <3>4, <4>1, <4>2
      <3> QED BY <1>7, <2>3, <3>3, <3>4
    <2>8. CASE ~(n < end)
      <3>1. s(n) = t(n)
        BY <1>4, <2>5, <2>8
      <3>2. d(n) = {} => d(n + 1) = {}
        <4>1. d(n) = {} => 0 \notin d(n) /\ { bit - 1 : bit \in d(n) } = {}
          OBVIOUS
        <4> QED BY <2>2, <2>6, <3>1, <4>1 DEF Lowered
      <3>3. ~(n + 1 <= end)
        BY <2>5, <2>8
      <3> QED BY <1>7, <2>2, <2>3, <3>1, <3>2, <3>3
    <2> QED BY <2>7, <2>8
  <1>8. \A n \in 0 .. size : Good(n)
    <2> DEFINE wrong == { n \in 0 .. size : ~Good(n) }
    <2> HIDE DEF Good
    <2>1. SUFFICES ASSUME wrong # {} PROVE FALSE
      OBVIOUS
    <2>2. PICK n \in wrong : \A k \in wrong : n =< k
      <3>1. wrong \in SUBSET Nat
        BY <1>4
      <3> QED BY <2>1, <3>1, LeastNumber
    <2>3. n \in 0 .. size /\ ~Good(n) /\ n # 0
      BY <1>6
    <2>4. n - 1 \in 0 .. size - 1 /\ n - 1 \in 0 .. size /\ (n - 1) + 1 = n
      BY <1>4, <2>3
    <2>5. Good(n - 1)
      BY <2>2, <2>4
    <2> DEFINE m == n - 1
    <2>6. m \in 0 .. size - 1 /\ Good(m) /\ m + 1 = n
      BY <2>4, <2>5
    <2> HIDE DEF m
    <2>7. Good(m + 1)
      BY <1>7, <2>6
    <2> QED BY <2>3, <2>6, <2>7
  <1>9. a[size] # b[size]
    <2>1. d(size) # {}
      <3>1. Good(size) /\ ~Same(size)
        BY <1>4, <1>8
      <3> HIDE DEF d, Same
      <3> QED BY <3>1
    <2>2. a[size] = b[size] => d(size) = {}
      BY DEF Xor
    <2> QED BY <2>1, <2>2
  <1>10. a[size] \in Word(32) /\ b[size] \in Word(32)
    BY <1>1, <1>2, <1>4
  <1>11. \A u, v \in Word(32) : u # v => Ones(32) \ u # Ones(32) \ v
    <2>1. Word(32) = SUBSET Ones(32)
      BY DEF Word, Ones
    <2> QED BY <2>1
  <1> QED BY <1>5, <1>9, <1>10, <1>11 DEF crc_finish

-----------------------------------------------------------------------------
(* The suffix.                                                             *)

\* A word is put together again from its bytes.
LEMMA BytesOfWord ==
    ASSUME NEW size \in Nat, NEW w \in Word(8 * size)
    PROVE  /\ ToBytes(w, size) \in Seq(Word(8)) /\ Len(ToBytes(w, size)) = size
           /\ \A i \in 1 .. size : ToBytes(w, size)[i] = ByteOf(w, i - 1)
           /\ FromBytes(ToBytes(w, size)) = w
  <1> DEFINE bytes == ToBytes(w, size)
  <1>1. \A i \in 1 .. size : ByteOf(w, i - 1) \in Word(8)
    BY DEF ByteOf, Word
  <1>2. bytes = [i \in 1 .. size |-> ByteOf(w, i - 1)]
    BY DEF ToBytes
  <1>3. bytes \in Seq(Word(8)) /\ Len(bytes) = size /\ DOMAIN bytes = 1 .. size
    BY <1>1, <1>2
  <1>4. FromBytes(bytes) = UNION { { bit + 8 * (i - 1) : bit \in ByteOf(w, i - 1) } : i \in 1 .. size }
    BY <1>2, <1>3 DEF FromBytes
  <1>5. ASSUME NEW i \in 1 .. size, NEW bit \in ByteOf(w, i - 1)
        PROVE  bit + 8 * (i - 1) \in w
    <2>1. PICK b \in w : b \div 8 = i - 1 /\ bit = b - 8 * (i - 1)
      BY <1>5 DEF ByteOf
    <2>2. b \in Int
      BY DEF Word
    <2> QED BY <2>1, <2>2
  <1>6. ASSUME NEW b \in w
        PROVE  \E i \in 1 .. size : \E bit \in ByteOf(w, i - 1) : b = bit + 8 * (i - 1)
    <2>1. b \in 0 .. 8 * size - 1
      BY DEF Word
    <2>2. b \div 8 + 1 \in 1 .. size /\ (b \div 8 + 1) - 1 = b \div 8
      BY <2>1
    <2>3. b - 8 * (b \div 8) \in ByteOf(w, (b \div 8 + 1) - 1)
      BY <2>1, <2>2 DEF ByteOf
    <2>4. b = (b - 8 * (b \div 8)) + 8 * ((b \div 8 + 1) - 1)
      BY <2>1
    <2> QED BY <2>2, <2>3, <2>4
  <1>7. FromBytes(bytes) = w
    BY <1>4, <1>5, <1>6
  <1> QED BY <1>2, <1>3, <1>7

\* A part of a sequence.
LEMMA PartOfSeq ==
    ASSUME NEW S, NEW s \in Seq(S), NEW m \in Int, NEW n \in Int,
           1 <= m, m <= n + 1, n <= Len(s)
    PROVE  /\ SubSeq(s, m, n) \in Seq(S) /\ Len(SubSeq(s, m, n)) = n - m + 1
           /\ \A i \in 1 .. n - m + 1 : SubSeq(s, m, n)[i] = s[m + i - 1]
  OBVIOUS

\* The end of a file, read from the back, and what is before it.
EndOf(file, size)   == Reverse(SubSeq(file, Len(file) - size + 1, Len(file)))
BodyOf(file, size)  == SubSeq(file, 1, Len(file) - size)
StartOf(file, size) == SubSeq(file, 1, size)

\* all is s with t behind it.
Joined(all, s, t) == all = s \o t

\* What is behind a file back to front is read front to back.
LEMMA FileWithTail ==
    ASSUME NEW S, NEW bytes \in Seq(S), NEW tail \in Seq(S), NEW file,
           Joined(file, bytes, Reverse(tail))
    PROVE  /\ file \in Seq(S) /\ Len(file) = Len(bytes) + Len(tail)
           /\ BodyOf(file, Len(tail)) = bytes
           /\ StartOf(file, Len(bytes)) = bytes
           /\ EndOf(file, Len(tail)) = tail
  <1> DEFINE n == Len(bytes)
             m == Len(tail)
             back == Reverse(tail)
             end == SubSeq(file, Len(file) - m + 1, Len(file))
  <1>1. n \in Nat /\ m \in Nat
    OBVIOUS
  <1>2. back \in Seq(S) /\ Len(back) = m /\ \A i \in 1 .. m : back[i] = tail[(m - i) + 1]
    <2>1. back = [i \in 1 .. m |-> tail[(m - i) + 1]]
      BY DEF Reverse
    <2>2. \A i \in 1 .. m : tail[(m - i) + 1] \in S
      BY <1>1, ElementOfSeq
    <2> QED BY <1>1, <2>1, <2>2
  <1> HIDE DEF back
  <1>3. /\ file \in Seq(S) /\ Len(file) = n + m
        /\ \A i \in 1 .. n + m : file[i] = IF i <= n THEN bytes[i] ELSE back[i - n]
    <2>1. file = bytes \o back
      BY DEF back, Joined
    <2>2. /\ bytes \o back \in Seq(S) /\ Len(bytes \o back) = Len(bytes) + Len(back)
          /\ \A i \in 1 .. Len(bytes) + Len(back) :
               (bytes \o back)[i] = IF i <= Len(bytes) THEN bytes[i]
                                    ELSE back[i - Len(bytes)]
      <3>1. \A s, t \in Seq(S) :
              /\ s \o t \in Seq(S) /\ Len(s \o t) = Len(s) + Len(t)
              /\ \A i \in 1 .. Len(s) + Len(t) :
                   (s \o t)[i] = IF i <= Len(s) THEN s[i] ELSE t[i - Len(s)]
        BY ConcatProperties
      <3> QED BY <1>2, <3>1
    <2> QED BY <1>1, <1>2, <2>1, <2>2
  <1>4. SubSeq(file, 1, n) = bytes
    <2>1. /\ SubSeq(file, 1, n) \in Seq(S) /\ Len(SubSeq(file, 1, n)) = n
          /\ \A i \in 1 .. n : SubSeq(file, 1, n)[i] = bytes[i]
      BY <1>1, <1>3, PartOfSeq
    <2> QED BY <2>1, SeqEqual
  <1>5. /\ end \in Seq(S) /\ Len(end) = m
        /\ \A i \in 1 .. m : end[i] = back[i]
    <2>1. Len(file) - m + 1 = n + 1 /\ Len(file) = n + m
      BY <1>1, <1>3
    <2>2. \A i \in n + 1 .. n + m : file[i] \in S /\ file[i] = back[i - n]
      BY <1>1, <1>2, <1>3
    <2>3. /\ SubSeq(file, n + 1, n + m) \in Seq(S)
          /\ Len(SubSeq(file, n + 1, n + m)) = m
          /\ \A i \in 1 .. m : SubSeq(file, n + 1, n + m)[i] = file[(n + 1) + i - 1]
      <3>1. /\ n + 1 \in Int /\ n + m \in Int /\ 1 <= n + 1 /\ n + 1 <= (n + m) + 1
            /\ n + m <= Len(file) /\ (n + m) - (n + 1) + 1 = m
        BY <1>1, <1>3
      <3> QED BY <1>3, <3>1, PartOfSeq
    <2>4. \A i \in 1 .. m : (n + 1) + i - 1 \in n + 1 .. n + m /\ ((n + 1) + i - 1) - n = i
      BY <1>1
    <2> QED BY <2>1, <2>2, <2>3, <2>4
  <1> HIDE DEF end
  <1>6. Reverse(end) = tail
    <2>1. Reverse(end) = [i \in 1 .. m |-> end[(m - i) + 1]]
      BY <1>5 DEF Reverse
    <2>2. ASSUME NEW i \in 1 .. m PROVE end[(m - i) + 1] = tail[i]
      <3>1. (m - i) + 1 \in 1 .. m /\ (m - ((m - i) + 1)) + 1 = i
        BY <1>1
      <3> QED BY <1>2, <1>5, <3>1
    <2>3. Reverse(end) = [i \in 1 .. m |-> tail[i]]
      BY <2>1, <2>2
    <2> QED BY <1>1, <2>3, LenProperties
  <1>7. BodyOf(file, m) = bytes /\ StartOf(file, n) = bytes
    <2>1. Len(file) - m = n
      BY <1>1, <1>3
    <2> QED BY <1>4, <2>1, Zenon DEF BodyOf, StartOf
  <1>8. EndOf(file, m) = tail
    BY <1>6, Zenon DEF end, EndOf
  <1> QED BY <1>3, <1>7, <1>8

\* What is put behind a sequence moves nothing in it.
LEMMA PutBehind ==
    ASSUME NEW S, NEW s \in Seq(S), NEW t \in Seq(S), NEW all, Joined(all, s, t)
    PROVE  /\ all \in Seq(S) /\ Len(all) = Len(s) + Len(t)
           /\ \A i \in 1 .. Len(s) : all[i] = s[i]
           /\ \A i \in 1 .. Len(t) : all[Len(s) + i] = t[i]
  <1>1. ASSUME NEW p \in Seq(S), NEW q \in Seq(S)
        PROVE  /\ p \o q \in Seq(S) /\ Len(p \o q) = Len(p) + Len(q)
               /\ \A i \in 1 .. Len(p) : (p \o q)[i] = p[i]
               /\ \A i \in 1 .. Len(q) : (p \o q)[Len(p) + i] = q[i]
    BY ONLY <1>1
  <1> QED BY <1>1, Zenon DEF Joined

\* The fields of a suffix are read as they were written.
LEMMA SuffixFields ==
    ASSUME NEW crc \in Word(32), NEW ids \in Ids, NEW t, t = SuffixBytes(crc, ids)
    PROVE  /\ t \in Seq(Word(8)) /\ Len(t) = SUFFIX_BYTES
           /\ FromBytes(SubSeq(t, 1, 4)) = crc
           /\ t[5] = suffix_length
           /\ SubSeq(t, 6, 8) = DFU_SIGNATURE
           /\ FromBytes(SubSeq(t, 9, 10)) = DFU_BCD
           /\ FromBytes(SubSeq(t, 11, 12)) = ids.vendor
           /\ FromBytes(SubSeq(t, 13, 14)) = ids.product
           /\ FromBytes(SubSeq(t, 15, 16)) = ids.bcd
  <1> DEFINE B  == Word(8)
             p1 == ToBytes(crc, 4)
             p2 == p1 \o <<suffix_length>>
             p3 == p2 \o DFU_SIGNATURE
             p4 == p3 \o ToBytes(DFU_BCD, 2)
             p5 == p4 \o ToBytes(ids.vendor, 2)
             p6 == p5 \o ToBytes(ids.product, 2)
             p7 == p6 \o ToBytes(ids.bcd, 2)
  <1>1. /\ crc \in Word(8 * 4) /\ DFU_BCD \in Word(8 * 2)
        /\ ids.vendor \in Word(8 * 2) /\ ids.product \in Word(8 * 2) /\ ids.bcd \in Word(8 * 2)
    BY DEF Word, Ids, DFU_BCD
  <1> DEFINE one == <<suffix_length>>
             bcdDFU == ToBytes(DFU_BCD, 2)
             vendor == ToBytes(ids.vendor, 2)
             product == ToBytes(ids.product, 2)
             bcd == ToBytes(ids.bcd, 2)
  <1>2. /\ Joined(p2, p1, one) /\ Joined(p3, p2, DFU_SIGNATURE)
        /\ Joined(p4, p3, bcdDFU) /\ Joined(p5, p4, vendor)
        /\ Joined(p6, p5, product) /\ Joined(p7, p6, bcd) /\ t = p7
    BY DEF SuffixBytes, Joined
  <1>3. /\ one \in Seq(B) /\ DFU_SIGNATURE \in Seq(B)
        /\ p1 \in Seq(B) /\ bcdDFU \in Seq(B)
        /\ vendor \in Seq(B) /\ product \in Seq(B) /\ bcd \in Seq(B)
    <2>1. one \in Seq(B) /\ DFU_SIGNATURE \in Seq(B)
      BY DEF Word, DFU_SIGNATURE, suffix_length
    <2>2. \A w \in Word(8 * 2) : ToBytes(w, 2) \in Seq(B)
      BY BytesOfWord
    <2>3. p1 \in Seq(B)
      BY <1>1, BytesOfWord
    <2> QED BY <1>1, <2>1, <2>2, <2>3
  <1>4. /\ Len(one) = 1 /\ one[1] = suffix_length /\ Len(DFU_SIGNATURE) = 3
        /\ Len(p1) = 4 /\ Len(bcdDFU) = 2
        /\ Len(vendor) = 2 /\ Len(product) = 2 /\ Len(bcd) = 2
    <2>1. Len(one) = 1 /\ one[1] = suffix_length
      OBVIOUS
    <2>2. Len(DFU_SIGNATURE) = 3
      BY DEF DFU_SIGNATURE
    <2>3. \A w \in Word(8 * 2) : Len(ToBytes(w, 2)) = 2
      BY BytesOfWord
    <2>4. Len(p1) = 4
      BY <1>1, BytesOfWord
    <2>5. Len(bcdDFU) = 2 /\ Len(vendor) = 2 /\ Len(product) = 2 /\ Len(bcd) = 2
      BY <1>1, <2>3
    <2> QED BY <2>1, <2>2, <2>4, <2>5
  <1> HIDE DEF B, p1, p2, p3, p4, p5, p6, p7, one, bcdDFU, vendor, product, bcd
  <1>5. /\ p2 \in Seq(B) /\ Len(p2) = Len(p1) + Len(one)
        /\ \A i \in 1 .. Len(p1) : p2[i] = p1[i]
        /\ \A i \in 1 .. Len(one) : p2[Len(p1) + i] = one[i]
    <2>1. p1 \in Seq(B) /\ one \in Seq(B) /\ Joined(p2, p1, one)
      BY <1>2, <1>3
    <2> QED BY <2>1, PutBehind
  <1>6. /\ p3 \in Seq(B) /\ Len(p3) = Len(p2) + Len(DFU_SIGNATURE)
        /\ \A i \in 1 .. Len(p2) : p3[i] = p2[i]
        /\ \A i \in 1 .. Len(DFU_SIGNATURE) : p3[Len(p2) + i] = DFU_SIGNATURE[i]
    <2>1. p2 \in Seq(B) /\ DFU_SIGNATURE \in Seq(B) /\ Joined(p3, p2, DFU_SIGNATURE)
      BY <1>2, <1>3, <1>5
    <2> QED BY <2>1, PutBehind
  <1>7. /\ p4 \in Seq(B) /\ Len(p4) = Len(p3) + Len(bcdDFU)
        /\ \A i \in 1 .. Len(p3) : p4[i] = p3[i]
        /\ \A i \in 1 .. Len(bcdDFU) : p4[Len(p3) + i] = bcdDFU[i]
    <2>1. p3 \in Seq(B) /\ bcdDFU \in Seq(B) /\ Joined(p4, p3, bcdDFU)
      BY <1>2, <1>3, <1>6
    <2> QED BY <2>1, PutBehind
  <1>8. /\ p5 \in Seq(B) /\ Len(p5) = Len(p4) + Len(vendor)
        /\ \A i \in 1 .. Len(p4) : p5[i] = p4[i]
        /\ \A i \in 1 .. Len(vendor) : p5[Len(p4) + i] = vendor[i]
    <2>1. p4 \in Seq(B) /\ vendor \in Seq(B) /\ Joined(p5, p4, vendor)
      BY <1>2, <1>3, <1>7
    <2> QED BY <2>1, PutBehind
  <1>9. /\ p6 \in Seq(B) /\ Len(p6) = Len(p5) + Len(product)
        /\ \A i \in 1 .. Len(p5) : p6[i] = p5[i]
        /\ \A i \in 1 .. Len(product) : p6[Len(p5) + i] = product[i]
    <2>1. p5 \in Seq(B) /\ product \in Seq(B) /\ Joined(p6, p5, product)
      BY <1>2, <1>3, <1>8
    <2> QED BY <2>1, PutBehind
  <1>10. /\ p7 \in Seq(B) /\ Len(p7) = Len(p6) + Len(bcd)
         /\ \A i \in 1 .. Len(p6) : p7[i] = p6[i]
         /\ \A i \in 1 .. Len(bcd) : p7[Len(p6) + i] = bcd[i]
    <2>1. p6 \in Seq(B) /\ bcd \in Seq(B) /\ Joined(p7, p6, bcd)
      BY <1>2, <1>3, <1>9
    <2> QED BY <2>1, PutBehind
  <1>11. /\ Len(p2) = 5 /\ Len(p3) = 8 /\ Len(p4) = 10
         /\ Len(p5) = 12 /\ Len(p6) = 14 /\ Len(p7) = 16
    BY <1>4, <1>5, <1>6, <1>7, <1>8, <1>9, <1>10
  <1>12. /\ \A i \in 1 .. 4 : t[0 + i] = ToBytes(crc, 4)[i]
         /\ t[5] = suffix_length
         /\ \A i \in 1 .. 3 : t[5 + i] = DFU_SIGNATURE[i]
         /\ \A i \in 1 .. 2 : t[8 + i] = bcdDFU[i]
         /\ \A i \in 1 .. 2 : t[10 + i] = vendor[i]
         /\ \A i \in 1 .. 2 : t[12 + i] = product[i]
         /\ \A i \in 1 .. 2 : t[14 + i] = bcd[i]
    <2>1. /\ \A i \in 1 .. 4 : p2[i] = p1[i]
          /\ \A i \in 1 .. 1 : p2[4 + i] = one[i]
      BY <1>4, <1>5, <1>11
    <2>2. /\ \A i \in 1 .. 5 : p3[i] = p2[i]
          /\ \A i \in 1 .. 3 : p3[5 + i] = DFU_SIGNATURE[i]
      BY <1>4, <1>6, <1>11
    <2>3. /\ \A i \in 1 .. 8 : p4[i] = p3[i]
          /\ \A i \in 1 .. 2 : p4[8 + i] = bcdDFU[i]
      BY <1>4, <1>7, <1>11
    <2>4. /\ \A i \in 1 .. 10 : p5[i] = p4[i]
          /\ \A i \in 1 .. 2 : p5[10 + i] = vendor[i]
      BY <1>4, <1>8, <1>11
    <2>5. /\ \A i \in 1 .. 12 : p6[i] = p5[i]
          /\ \A i \in 1 .. 2 : p6[12 + i] = product[i]
      BY <1>4, <1>9, <1>11
    <2>6. /\ \A i \in 1 .. 14 : p7[i] = p6[i]
          /\ \A i \in 1 .. 2 : p7[14 + i] = bcd[i]
      BY <1>4, <1>10, <1>11
    <2>7. t[5] = suffix_length
      <3>1. p2[4 + 1] = one[1] /\ p3[5] = p2[5] /\ p4[5] = p3[5] /\ p5[5] = p4[5]
            /\ p6[5] = p5[5] /\ p7[5] = p6[5]
        BY <2>1, <2>2, <2>3, <2>4, <2>5, <2>6
      <3>2. 4 + 1 = 5
        OBVIOUS
      <3> QED BY <1>2, <1>4, <3>1, <3>2
    <2>8. t = p7 /\ p1 = ToBytes(crc, 4)
      BY <1>2 DEF p1
    <2> QED BY <2>1, <2>2, <2>3, <2>4, <2>5, <2>6, <2>7, <2>8
  <1>13. t \in Seq(B) /\ Len(t) = 16
    BY <1>2, <1>10, <1>11
  <1>14. Len(t) >= 16
    BY <1>13
  <1>15. /\ SubSeq(t, 1, 4) \in Seq(B) /\ Len(SubSeq(t, 1, 4)) = 4
         /\ \A i \in 1 .. 4 : SubSeq(t, 1, 4)[i] = t[0 + i]
         /\ SubSeq(t, 6, 8) \in Seq(B) /\ Len(SubSeq(t, 6, 8)) = 3
         /\ \A i \in 1 .. 3 : SubSeq(t, 6, 8)[i] = t[5 + i]
    <2>1. t \in Seq(B)
      BY <1>13
    <2> QED BY <1>14, <2>1
  <1>16. ASSUME NEW n \in {8, 10, 12, 14}, NEW b \in Seq(B), Len(b) = 2,
                \A i \in 1 .. 2 : t[n + i] = b[i]
         PROVE  SubSeq(t, n + 1, n + 2) = b
    <2>1. t \in Seq(B)
      BY <1>13
    <2>2. /\ SubSeq(t, n + 1, n + 2) \in Seq(B) /\ Len(SubSeq(t, n + 1, n + 2)) = 2
          /\ \A i \in 1 .. 2 : SubSeq(t, n + 1, n + 2)[i] = t[n + i]
      BY <1>14, <2>1
    <2> QED BY <1>16, <2>2, SeqEqual
  <1>17. /\ SubSeq(t, 1, 4) = p1 /\ SubSeq(t, 6, 8) = DFU_SIGNATURE
    <2>1. p1 = ToBytes(crc, 4)
      BY DEF p1
    <2> QED BY <1>3, <1>4, <1>12, <1>15, <2>1, SeqEqual
  <1>18. /\ SubSeq(t, 9, 10) = bcdDFU /\ SubSeq(t, 11, 12) = vendor
         /\ SubSeq(t, 13, 14) = product /\ SubSeq(t, 15, 16) = bcd
    <2>1. /\ SubSeq(t, 8 + 1, 8 + 2) = bcdDFU /\ SubSeq(t, 10 + 1, 10 + 2) = vendor
          /\ SubSeq(t, 12 + 1, 12 + 2) = product /\ SubSeq(t, 14 + 1, 14 + 2) = bcd
      BY <1>3, <1>4, <1>12, <1>16
    <2>2. /\ 8 + 1 = 9 /\ 8 + 2 = 10 /\ 10 + 1 = 11 /\ 10 + 2 = 12
          /\ 12 + 1 = 13 /\ 12 + 2 = 14 /\ 14 + 1 = 15 /\ 14 + 2 = 16
      OBVIOUS
    <2> QED BY <2>1, <2>2
  <1>19. /\ FromBytes(p1) = crc /\ FromBytes(bcdDFU) = DFU_BCD
         /\ FromBytes(vendor) = ids.vendor /\ FromBytes(product) = ids.product
         /\ FromBytes(bcd) = ids.bcd
    <2>1. \A w \in Word(8 * 2) : FromBytes(ToBytes(w, 2)) = w
      BY BytesOfWord
    <2>2. FromBytes(ToBytes(crc, 4)) = crc
      BY <1>1, BytesOfWord
    <2> QED BY <1>1, <2>1, <2>2 DEF p1, bcdDFU, vendor, product, bcd
  <1>20. t \in Seq(Word(8)) /\ Len(t) = SUFFIX_BYTES
    BY <1>13 DEF B, SUFFIX_BYTES
  <1> QED BY <1>12, <1>17, <1>18, <1>19, <1>20

LEMMA ChecksumIsWord ==
    ASSUME NEW bytes
    PROVE  checksum(bytes) \in Word(32)
  <1>1. \A crc : crc_finish(crc) \in Word(32)
    BY DEF crc_finish, Ones, Word
  <1> QED BY <1>1, Zenon DEF checksum

\* What the verifier reads of a file: the image, and the suffix behind it.
LEMMA VerifierReads ==
    ASSUME NEW body \in Seq(Word(8)), NEW tail \in Seq(Word(8)), Len(tail) = SUFFIX_BYTES,
           NEW file, Joined(file, body, Reverse(tail)), NEW asked
    PROVE  verify_dfu_suffix(file, asked) = "OK"
             <=> /\ FromBytes(SubSeq(tail, 1, 4)) = checksum(body)
                 /\ tail[5] = suffix_length
                 /\ SubSeq(tail, 6, 8) = DFU_SIGNATURE
                 /\ FromBytes(SubSeq(tail, 9, 10)) = DFU_BCD
                 /\ Matches(FromBytes(SubSeq(tail, 11, 12)), asked.vendor)
                 /\ Matches(FromBytes(SubSeq(tail, 13, 14)), asked.product)
                 /\ Matches(FromBytes(SubSeq(tail, 15, 16)), asked.bcd)
  <1> DEFINE suffix == EndOf(file, SUFFIX_BYTES)
             image == BodyOf(file, SUFFIX_BYTES)
             Field(first, last) == FromBytes(SubSeq(suffix, first, last))
             checks ==
               << Check(Field(1, 4) = checksum(image), "CHECKSUM_MISMATCH"),
                  Check(suffix[5] = suffix_length, "LENGTH_FIELD_MISMATCH"),
                  Check(SubSeq(suffix, 6, 8) = DFU_SIGNATURE, "SIGNATURE_MISMATCH"),
                  Check(Field(9, 10) = DFU_BCD, "BCD_DFU_MISMATCH"),
                  Check(Matches(Field(11, 12), asked.vendor), "VENDOR_ID_MISMATCH"),
                  Check(Matches(Field(13, 14), asked.product), "PRODUCT_ID_MISMATCH"),
                  Check(Matches(Field(15, 16), asked.bcd), "BCD_DEVICE_MISMATCH") >>
             failed == { i \in DOMAIN checks : checks[i] # "OK" }
  <1>1. /\ Len(file) = Len(body) + SUFFIX_BYTES
        /\ image = body /\ suffix = tail
    <2>1. /\ Len(file) = Len(body) + Len(tail)
          /\ BodyOf(file, Len(tail)) = body /\ EndOf(file, Len(tail)) = tail
      BY FileWithTail
    <2> QED BY <2>1
  <1>2. verify_dfu_suffix(file, asked)
          = IF Len(file) < SUFFIX_BYTES THEN "TOO_SMALL"
            ELSE IF failed = {} THEN "OK" ELSE checks[Min(failed)]
    BY DEF verify_dfu_suffix, EndOf, BodyOf
  <1> HIDE DEF suffix, image
  <1>3. ~(Len(file) < SUFFIX_BYTES)
    <2>1. Len(body) \in Nat
      OBVIOUS
    <2> QED BY <1>1, <2>1 DEF SUFFIX_BYTES
  <1>4. /\ DOMAIN checks = 1 .. 7
        /\ checks[1] = Check(Field(1, 4) = checksum(image), "CHECKSUM_MISMATCH")
        /\ checks[2] = Check(suffix[5] = suffix_length, "LENGTH_FIELD_MISMATCH")
        /\ checks[3] = Check(SubSeq(suffix, 6, 8) = DFU_SIGNATURE, "SIGNATURE_MISMATCH")
        /\ checks[4] = Check(Field(9, 10) = DFU_BCD, "BCD_DFU_MISMATCH")
        /\ checks[5] = Check(Matches(Field(11, 12), asked.vendor), "VENDOR_ID_MISMATCH")
        /\ checks[6] = Check(Matches(Field(13, 14), asked.product), "PRODUCT_ID_MISMATCH")
        /\ checks[7] = Check(Matches(Field(15, 16), asked.bcd), "BCD_DEVICE_MISMATCH")
    OBVIOUS
  <1> HIDE DEF checks
  <1>5. failed = {} <=> \A i \in 1 .. 7 : checks[i] = "OK"
    BY <1>4
  <1>6. failed # {} => checks[Min(failed)] # "OK"
    <2>1. failed \in SUBSET Nat
      BY <1>4
    <2>2. failed # {} => Min(failed) \in failed
      BY <2>1, MinIsLeast
    <2> QED BY <2>2
  <1> HIDE DEF failed
  <1>7. verify_dfu_suffix(file, asked) = "OK" <=> failed = {}
    BY <1>2, <1>3, <1>6
  <1>8. (\A i \in 1 .. 7 : checks[i] = "OK")
          <=> /\ checks[1] = "OK" /\ checks[2] = "OK" /\ checks[3] = "OK" /\ checks[4] = "OK"
              /\ checks[5] = "OK" /\ checks[6] = "OK" /\ checks[7] = "OK"
    OBVIOUS
  <1>9. /\ checks[1] = "OK" <=> FromBytes(SubSeq(tail, 1, 4)) = checksum(body)
        /\ checks[2] = "OK" <=> tail[5] = suffix_length
        /\ checks[3] = "OK" <=> SubSeq(tail, 6, 8) = DFU_SIGNATURE
        /\ checks[4] = "OK" <=> FromBytes(SubSeq(tail, 9, 10)) = DFU_BCD
        /\ checks[5] = "OK" <=> Matches(FromBytes(SubSeq(tail, 11, 12)), asked.vendor)
        /\ checks[6] = "OK" <=> Matches(FromBytes(SubSeq(tail, 13, 14)), asked.product)
        /\ checks[7] = "OK" <=> Matches(FromBytes(SubSeq(tail, 15, 16)), asked.bcd)
    BY <1>1, <1>4 DEF Check
  <1> QED BY <1>5, <1>7, <1>8, <1>9, Zenon

\* The suffix of a file the generator wrote.
LEMMA SuffixOf ==
    ASSUME NEW bytes \in Seq(Word(8)), NEW ids \in Ids
    PROVE  LET tail == SuffixBytes(checksum(bytes), ids)
           IN  /\ tail \in Seq(Word(8)) /\ Len(tail) = SUFFIX_BYTES
               /\ FromBytes(SubSeq(tail, 1, 4)) = checksum(bytes)
               /\ tail[5] = suffix_length
               /\ SubSeq(tail, 6, 8) = DFU_SIGNATURE
               /\ FromBytes(SubSeq(tail, 9, 10)) = DFU_BCD
               /\ FromBytes(SubSeq(tail, 11, 12)) = ids.vendor
               /\ FromBytes(SubSeq(tail, 13, 14)) = ids.product
               /\ FromBytes(SubSeq(tail, 15, 16)) = ids.bcd
               /\ Joined(WithSuffix(bytes, ids), bytes, Reverse(tail))
  <1>1. checksum(bytes) \in Word(32)
    BY ChecksumIsWord
  <1>2. Joined(WithSuffix(bytes, ids), bytes, Reverse(SuffixBytes(checksum(bytes), ids)))
    BY DEF WithSuffix, Joined
  <1> QED BY <1>1, <1>2, SuffixFields

\* Of such a file the verifier minds nothing but the ids.
LEMMA VerifierAccepts ==
    ASSUME NEW bytes \in Seq(Word(8)), NEW ids \in Ids, NEW asked
    PROVE  verify_dfu_suffix(WithSuffix(bytes, ids), asked) = "OK"
             <=> /\ Matches(ids.vendor, asked.vendor)
                 /\ Matches(ids.product, asked.product)
                 /\ Matches(ids.bcd, asked.bcd)
  <1> DEFINE file == WithSuffix(bytes, ids)
             tail == SuffixBytes(checksum(bytes), ids)
  <1>1. /\ tail \in Seq(Word(8)) /\ Len(tail) = SUFFIX_BYTES
        /\ FromBytes(SubSeq(tail, 1, 4)) = checksum(bytes)
        /\ tail[5] = suffix_length
        /\ SubSeq(tail, 6, 8) = DFU_SIGNATURE
        /\ FromBytes(SubSeq(tail, 9, 10)) = DFU_BCD
        /\ FromBytes(SubSeq(tail, 11, 12)) = ids.vendor
        /\ FromBytes(SubSeq(tail, 13, 14)) = ids.product
        /\ FromBytes(SubSeq(tail, 15, 16)) = ids.bcd
        /\ Joined(file, bytes, Reverse(tail))
    BY SuffixOf
  <1> HIDE DEF file, tail
  <1>2. verify_dfu_suffix(file, asked) = "OK"
          <=> /\ FromBytes(SubSeq(tail, 1, 4)) = checksum(bytes)
              /\ tail[5] = suffix_length
              /\ SubSeq(tail, 6, 8) = DFU_SIGNATURE
              /\ FromBytes(SubSeq(tail, 9, 10)) = DFU_BCD
              /\ Matches(FromBytes(SubSeq(tail, 11, 12)), asked.vendor)
              /\ Matches(FromBytes(SubSeq(tail, 13, 14)), asked.product)
              /\ Matches(FromBytes(SubSeq(tail, 15, 16)), asked.bcd)
    BY <1>1, VerifierReads
  <1> QED BY <1>1, <1>2, Zenon DEF file

\* The generator's files are accepted for exactly the devices they are for, and hold
\* the image the tool then loads.
LEMMA SuffixAccepted ==
    ASSUME NEW numbers, NEW bytes \in Seq(Word(8)), NEW device
    PROVE  GeneratedIsAccepted(numbers, bytes, device)
  <1> DEFINE ids == IdsOf(numbers)
             run == generate(numbers, File(bytes), File(<<{0}>>))
             file == WithSuffix(bytes, ids)
  <1> SUFFICES ASSUME run.exit = 0
               PROVE  /\ verify_dfu_suffix(run.out.bytes, device) = "OK"
                         <=> \A id \in {"vendor", "product", "bcd"} : Matches(ids[id], device[id])
                      /\ boot_length(run.out) = Len(bytes)
                      /\ SubSeq(run.out.bytes, 1, Len(bytes)) = bytes
    BY DEF GeneratedIsAccepted
  <1>1. ids \in Ids
    BY DEF IdsOf, Ids, Word, Ones, IGNORE_ID
  <1>2. run.out = File(file)
    BY DEF generate, File
  <1>3. run.out.opens /\ run.out.bytes = file
    BY <1>2 DEF File
  <1>4. verify_dfu_suffix(file, device) = "OK"
          <=> \A id \in {"vendor", "product", "bcd"} : Matches(ids[id], device[id])
    BY <1>1, VerifierAccepts
  <1>5. verify_dfu_suffix(file, AnyDevice) = "OK"
    BY <1>1, VerifierAccepts DEF AnyDevice, Matches
  <1>6. Len(file) = Len(bytes) + SUFFIX_BYTES /\ SubSeq(file, 1, Len(bytes)) = bytes
    <2>1. checksum(bytes) \in Word(32)
      BY ChecksumIsWord
    <2>2. /\ SuffixBytes(checksum(bytes), ids) \in Seq(Word(8))
          /\ Len(SuffixBytes(checksum(bytes), ids)) = SUFFIX_BYTES
      BY <1>1, <2>1, SuffixFields
    <2> DEFINE tail == SuffixBytes(checksum(bytes), ids)
    <2>3. Joined(file, bytes, Reverse(tail)) /\ tail \in Seq(Word(8))
      BY <2>2 DEF WithSuffix, Joined
    <2> HIDE DEF file, tail
    <2>4. Len(file) = Len(bytes) + Len(tail) /\ StartOf(file, Len(bytes)) = bytes
      BY <2>3, FileWithTail
    <2> QED BY <2>2, <2>4 DEF tail, StartOf
  <1>7. boot_length(run.out) = Len(bytes)
    BY <1>3, <1>5, <1>6 DEF boot_length, SUFFIX_BYTES
  <1> QED BY <1>3, <1>4, <1>6, <1>7

-----------------------------------------------------------------------------
(* Devices: the search of the bus.                                         *)

LEMMA LeastOfOne ==
    ASSUME NEW n \in Int
    PROVE  Min({n}) = n
  <1>1. \E least \in {n} : \A y \in {n} : least =< y
    OBVIOUS
  <1> QED BY <1>1, Zenon DEF Min

\* A device is found whose run-time ids are on no other, and it is found again in
\* DFU mode when its ids there are on no other either.
LEMMA SameFound ==
    ASSUME NEW devices, NEW size \in Nat, DOMAIN devices = 1 .. size,
           devices = [d \in 1 .. size |-> devices[d]],
           NEW ids, ids.match_vendor_dfu \in Int, ids.match_product_dfu \in Int
    PROVE  FindsTheSame(devices, ids)
  <1> DEFINE runtime == <<ids.match_vendor, ids.match_product>>
             dfu     == <<ids.match_vendor_dfu, ids.match_product_dfu>>
             VidPid(e) == <<devices[e].vendor, devices[e].product>>
  <1> SUFFICES ASSUME NEW d \in DOMAIN devices,
                      VidPid(d) = runtime, dfu[1] >= 0, dfu[2] >= 0,
                      \E i \in DOMAIN devices[d].interfaces :
                          devices[d].interfaces[i].protocol = "RUNTIME",
                      \A e \in DOMAIN devices \ {d} : VidPid(e) \notin {runtime, dfu}
               PROVE  /\ find_xmos_device(devices, ids).device = d
                      /\ find_xmos_device([devices EXCEPT ![d] = Detached(@, ids)], ids)
                           = [device |-> d, XMOS_DFU_IF |-> 0]
    BY DEF FindsTheSame
  <1> DEFINE after == [devices EXCEPT ![d] = Detached(@, ids)]
             Found(bus) == { e \in DOMAIN bus : probe_configuration(bus[e], ids) # {} }
  <1>1. ASSUME NEW device, device.vendor # ids.match_vendor
                           \/ device.product # ids.match_product,
               device.vendor # ids.match_vendor_dfu
                           \/ device.product # ids.match_product_dfu
        PROVE  probe_configuration(device, ids) = {}
    <2>1. ~(ids.match_vendor_dfu < 0) /\ ~(ids.match_product_dfu < 0)
      OBVIOUS
    <2>2. \A interface : ~MatchesInterface(device, interface, ids)
      BY <1>1, <2>1 DEF MatchesInterface
    <2> QED BY <2>2 DEF probe_configuration
  <1>2. \A e \in 1 .. size \ {d} : probe_configuration(devices[e], ids) = {}
    <2> SUFFICES ASSUME NEW e \in 1 .. size \ {d}
                 PROVE  probe_configuration(devices[e], ids) = {}
      OBVIOUS
    <2>1. VidPid(e) # runtime /\ VidPid(e) # dfu
      OBVIOUS
    <2> QED BY <1>1, <2>1
  <1>3. probe_configuration(devices[d], ids) # {}
    <2>1. PICK i \in DOMAIN devices[d].interfaces :
              devices[d].interfaces[i].protocol = "RUNTIME"
      OBVIOUS
    <2>2. MatchesInterface(devices[d], devices[d].interfaces[i], ids)
      BY <2>1 DEF MatchesInterface
    <2> QED BY <2>2 DEF probe_configuration
  <1>4. Found(devices) = {d}
    BY <1>2, <1>3
  <1>5. d \in Int /\ Min({d}) = d
    BY LeastOfOne
  <1>6. find_xmos_device(devices, ids).device = d
    BY <1>4, <1>5 DEF find_xmos_device
  <1>7. /\ DOMAIN after = 1 .. size /\ after[d] = Detached(devices[d], ids)
        /\ \A e \in 1 .. size \ {d} : after[e] = devices[e]
    OBVIOUS
  <1> HIDE DEF after
  <1>8. probe_configuration(after[d], ids) = {1}
    <2>1. /\ after[d].vendor = ids.match_vendor_dfu
          /\ after[d].product = ids.match_product_dfu
          /\ after[d].interfaces = <<[number |-> 0, protocol |-> "DFU"]>>
      BY <1>7 DEF Detached
    <2>2. MatchesInterface(after[d], after[d].interfaces[1], ids)
      BY <2>1 DEF MatchesInterface
    <2>3. DOMAIN after[d].interfaces = {1}
      BY <2>1
    <2> QED BY <2>2, <2>3 DEF probe_configuration
  <1>9. Found(after) = {d}
    BY <1>2, <1>7, <1>8
  <1>10. after[d].interfaces[1].number = 0
    <2>1. after[d].interfaces = <<[number |-> 0, protocol |-> "DFU"]>>
      BY <1>7 DEF Detached
    <2>2. after[d].interfaces[1] = [number |-> 0, protocol |-> "DFU"]
      BY <2>1
    <2> QED BY <2>2
  <1>11. Min({1}) = 1
    <2>1. \A n \in Int : Min({n}) = n
      BY LeastOfOne
    <2>2. 1 \in Int
      OBVIOUS
    <2> QED BY <2>1, <2>2, Zenon
  <1>12. find_xmos_device(after, ids) = [device |-> d, XMOS_DFU_IF |-> 0]
    <2>1. Found(after) # {} /\ Min(Found(after)) = d
      BY <1>5, <1>9
    <2>2. Min(probe_configuration(after[d], ids)) = 1
      BY <1>8, <1>11
    <2>3. find_xmos_device(after, ids)
            = [device |-> Min(Found(after)),
               XMOS_DFU_IF |->
                 after[Min(Found(after))].interfaces[
                   Min(probe_configuration(after[Min(Found(after))], ids))].number]
      BY <2>1 DEF find_xmos_device
    <2> HIDE DEF Found
    <2> QED BY <1>10, <2>1, <2>2, <2>3
  <1> QED BY <1>6, <1>12 DEF after

-----------------------------------------------------------------------------
(* Devices: texts.                                                         *)

\* The first of a character from a place on, or 0.
LEMMA FirstPlace ==
    ASSUME NEW S, NEW text \in Seq(S), NEW c, NEW place \in Nat \ {0}
    PROVE  LET r == strchr(text, c, place)
           IN  \/ r = 0 /\ \A i \in place .. Len(text) : text[i] # c
               \/ /\ r \in place .. Len(text) /\ text[r] = c
                  /\ \A i \in place .. Len(text) : text[i] = c => r <= i
  <1> DEFINE at == { i \in place .. Len(text) : text[i] = c }
  <1>1. CASE at = {}
    BY <1>1 DEF strchr
  <1>2. CASE at # {}
    <2>1. at \in SUBSET Nat
      OBVIOUS
    <2>2. Min(at) \in at /\ \A y \in at : Min(at) =< y
      BY <1>2, <2>1, MinIsLeast
    <2>3. strchr(text, c, place) = Min(at)
      BY <1>2 DEF strchr
    <2> QED BY <2>2, <2>3
  <1> QED BY <1>1, <1>2

\* A place that is the first is what is found.
LEMMA PlaceFound ==
    ASSUME NEW S, NEW text \in Seq(S), NEW c, NEW place \in Nat \ {0},
           NEW r \in place .. Len(text), text[r] = c,
           \A i \in place .. Len(text) : text[i] = c => r <= i
    PROVE  strchr(text, c, place) = r
  <1> DEFINE q == strchr(text, c, place)
  <1>1. \/ q = 0 /\ \A i \in place .. Len(text) : text[i] # c
        \/ /\ q \in place .. Len(text) /\ text[q] = c
           /\ \A i \in place .. Len(text) : text[i] = c => q <= i
    BY FirstPlace
  <1> HIDE DEF q
  <1>2. q \in place .. Len(text) /\ q <= r /\ r <= q
    BY <1>1
  <1> QED BY <1>2 DEF q

LEMMA NoPlaceFound ==
    ASSUME NEW S, NEW text \in Seq(S), NEW c, NEW place \in Nat \ {0},
           \A i \in place .. Len(text) : text[i] # c
    PROVE  strchr(text, c, place) = 0
  BY DEF strchr

LEMMA PartIs ==
    ASSUME NEW S, NEW s \in Seq(S), NEW a \in Nat \ {0}, NEW b \in Int,
           a <= b + 1, b <= Len(s)
    PROVE  /\ SubSeq(s, a, b) \in Seq(S) /\ Len(SubSeq(s, a, b)) = b - a + 1
           /\ \A i \in 1 .. b - a + 1 : SubSeq(s, a, b)[i] = s[a + i - 1]
  OBVIOUS

\* A part of a part is a part.
LEMMA PartOfPart ==
    ASSUME NEW S, NEW text \in Seq(S), NEW a \in Nat \ {0}, NEW b \in Nat,
           NEW c \in Nat \ {0}, NEW d \in Nat,
           a <= b + 1, b <= Len(text), c <= d + 1, d <= b - a + 1
    PROVE  SubSeq(SubSeq(text, a, b), c, d) = SubSeq(text, a + c - 1, a + d - 1)
  <1> DEFINE s == SubSeq(text, a, b)
             m == a + c - 1
             n == a + d - 1
  <1>1. /\ s \in Seq(S) /\ Len(s) = b - a + 1
        /\ \A i \in 1 .. b - a + 1 : s[i] = text[a + i - 1]
    BY PartIs
  <1>2. m \in Nat \ {0} /\ n \in Int /\ m <= n + 1 /\ n <= Len(text) /\ n - m + 1 = d - c + 1
    OBVIOUS
  <1> HIDE DEF s
  <1>3. /\ SubSeq(s, c, d) \in Seq(S) /\ Len(SubSeq(s, c, d)) = d - c + 1
        /\ \A i \in 1 .. d - c + 1 : SubSeq(s, c, d)[i] = s[c + i - 1]
    BY <1>1, PartIs
  <1>4. \A i \in 1 .. d - c + 1 : s[c + i - 1] = text[a + (c + i - 1) - 1]
    <2>1. \A i \in 1 .. d - c + 1 : c + i - 1 \in 1 .. b - a + 1
      OBVIOUS
    <2> QED BY <1>1, <2>1
  <1>5. \A i \in 1 .. d - c + 1 : a + (c + i - 1) - 1 = m + i - 1
    OBVIOUS
  <1> HIDE DEF m, n
  <1>6. /\ SubSeq(text, m, n) \in Seq(S) /\ Len(SubSeq(text, m, n)) = n - m + 1
        /\ \A i \in 1 .. n - m + 1 : SubSeq(text, m, n)[i] = text[m + i - 1]
    BY <1>2, PartIs
  <1>7. Len(SubSeq(s, c, d)) = Len(SubSeq(text, m, n))
    BY <1>2, <1>3, <1>6
  <1>8. \A i \in 1 .. Len(SubSeq(s, c, d)) : SubSeq(s, c, d)[i] = SubSeq(text, m, n)[i]
    BY <1>2, <1>3, <1>4, <1>5, <1>6
  <1>9. SubSeq(s, c, d) = SubSeq(text, m, n)
    BY <1>3, <1>6, <1>7, <1>8, SeqEqual
  <1> QED BY <1>9 DEF s, m, n

\* Separators: what an id ends at.  To the SMT solver the comma stays a name.
LEMMA SeparatorsApart ==
    /\ Comma # ":"
    /\ \A c \in {Comma, ":"} : /\ c \notin HexDigits /\ c \notin Spaces
                               /\ c \notin {"+", "-"} /\ c \notin {"x", "X"}
  <1>1. Comma # ":"
    BY Zenon DEF Comma
  <1>2. /\ Comma \notin HexDigits /\ Comma \notin Spaces
        /\ Comma \notin {"+", "-"} /\ Comma \notin {"x", "X"}
    BY Zenon DEF Comma, HexDigits, Spaces
  <1>3. /\ ":" \notin HexDigits /\ ":" \notin Spaces
        /\ ":" \notin {"+", "-"} /\ ":" \notin {"x", "X"}
    BY Zenon DEF HexDigits, Spaces
  <1> QED BY <1>1, <1>2, <1>3, Zenon

\* Only characters of the set come before the end.
LEMMA EndFound ==
    ASSUME NEW S, NEW text \in Seq(S), NEW chars, NEW place \in 1 .. Len(text) + 1
    PROVE  LET e == EndAt(text, place, chars)
           IN  /\ e \in place .. Len(text) + 1
               /\ \A i \in place .. e - 1 : text[i] \in chars
               /\ e <= Len(text) => text[e] \notin chars
  <1> DEFINE other == { i \in place .. Len(text) : text[i] \notin chars }
  <1>1. Len(text) \in Nat /\ place \in Nat \ {0}
    OBVIOUS
  <1>2. CASE other = {}
    <2>1. EndAt(text, place, chars) = Len(text) + 1
      BY <1>2 DEF EndAt
    <2>2. \A i \in place .. Len(text) : text[i] \in chars
      BY <1>2
    <2> QED BY <1>1, <2>1, <2>2
  <1>3. CASE other # {}
    <2>1. other \in SUBSET Nat
      BY <1>1
    <2>2. Min(other) \in other /\ \A y \in other : Min(other) =< y
      BY <1>3, <2>1, MinIsLeast
    <2> DEFINE m == Min(other)
    <2>3. EndAt(text, place, chars) = m
      BY <1>3 DEF EndAt
    <2>4. /\ m \in place .. Len(text) /\ text[m] \notin chars
          /\ \A i \in place .. Len(text) : text[i] \notin chars => m =< i
      BY <1>1, <2>2
    <2> HIDE DEF m
    <2>5. \A i \in place .. m - 1 : text[i] \in chars
      BY <1>1, <2>4
    <2> QED BY <1>1, <2>3, <2>4, <2>5
  <1> QED BY <1>2, <1>3

\* Where the end is.
LEMMA EndIs ==
    ASSUME NEW S, NEW text \in Seq(S), NEW chars, NEW place \in 1 .. Len(text) + 1,
           NEW e \in place .. Len(text) + 1,
           \A i \in place .. e - 1 : text[i] \in chars,
           e <= Len(text) => text[e] \notin chars
    PROVE  EndAt(text, place, chars) = e
  <1> DEFINE q == EndAt(text, place, chars)
  <1>1. /\ q \in place .. Len(text) + 1
        /\ \A i \in place .. q - 1 : text[i] \in chars
        /\ q <= Len(text) => text[q] \notin chars
    BY EndFound
  <1> HIDE DEF q
  <1>2. ~(q < e)
    <2> SUFFICES ASSUME q < e PROVE FALSE
      OBVIOUS
    <2>1. q \in place .. e - 1 /\ q <= Len(text)
      BY <1>1
    <2> QED BY <1>1, <2>1
  <1>3. ~(e < q)
    <2> SUFFICES ASSUME e < q PROVE FALSE
      OBVIOUS
    <2>1. e \in place .. q - 1 /\ e <= Len(text)
      BY <1>1
    <2> QED BY <1>1, <2>1
  <1> QED BY <1>1, <1>2, <1>3 DEF q

\* Nothing, and what begins with a separator, is no number.
LEMMA NoValue ==
    ASSUME NEW S, NEW text \in Seq(S), Len(text) = 0 \/ text[1] \in {Comma, ":"}
    PROVE  ~IsValue(text)
  <1>1. /\ Len(text) \in Nat /\ DOMAIN text = 1 .. Len(text) /\ 1 \in 1 .. Len(text) + 1
        /\ 1 \in 1 .. 1 /\ 1 <= Len(text) + 1
    OBVIOUS
  <1>2. 1 <= Len(text) => /\ text[1] \notin HexDigits /\ text[1] \notin Spaces
                          /\ text[1] \notin {"+", "-"}
    <2>1. 1 <= Len(text) => text[1] \in {Comma, ":"}
      BY <1>1
    <2> QED BY <2>1, SeparatorsApart, Zenon
  <1>3. EndAt(text, 1, Spaces) = 1 /\ EndAt(text, 1, HexDigits) = 1
    <2>1. \A i \in 1 .. 1 - 1 : text[i] \in Spaces /\ text[i] \in HexDigits
      OBVIOUS
    <2>2. 1 \in 1 .. Len(text) + 1
      BY <1>1
    <2> QED BY <1>2, <2>1, <2>2, EndIs
  <1>4. "0" \in HexDigits
    BY DEF HexDigits
  <1>5. NumberPlace(text) = 1
    BY <1>1, <1>2, <1>3, <1>4 DEF NumberPlace, SignPlace, At
  <1>6. strtoul(text).digits = 0
    BY <1>3, <1>5 DEF strtoul
  <1> QED BY <1>6 DEF IsValue

\* What is cut off from a separator on changes no number.
LEMMA NumberCut ==
    ASSUME NEW S, NEW text \in Seq(S), NEW n \in 0 .. Len(text) - 1,
           text[n + 1] \in {Comma, ":"}
    PROVE  strtoul(SubSeq(text, 1, n)) = strtoul(text)
  <1> DEFINE cut == SubSeq(text, 1, n)
             Free(chars) == Comma \notin chars /\ ":" \notin chars
  <1>1. Len(text) \in Nat /\ n \in Nat /\ DOMAIN text = 1 .. Len(text)
    OBVIOUS
  <1>2. /\ cut \in Seq(S) /\ Len(cut) = n /\ DOMAIN cut = 1 .. n
        /\ \A i \in 1 .. n : cut[i] = text[i]
    BY <1>1
  <1>3. Free(Spaces) /\ Free(HexDigits) /\ Free({"+", "-"}) /\ Free({"x", "X"})
    BY SeparatorsApart, Zenon
  <1>4. Free({"0"}) /\ Free({"-"})
    <2>1. "0" \in HexDigits
      BY DEF HexDigits
    <2> QED BY <1>3, <2>1, Zenon
  <1>5. ASSUME NEW chars, Free(chars) PROVE text[n + 1] \notin chars
    BY <1>5
  <1> HIDE DEF cut, Free
  <1>6. ASSUME NEW chars, Free(chars), NEW place \in 1 .. n + 1
        PROVE  /\ At(cut, place, chars) <=> At(text, place, chars)
               /\ At(cut, place, chars) => place + 1 \in 1 .. n + 1
    <2>1. CASE place <= n
      BY <1>1, <1>2, <2>1 DEF At
    <2>2. CASE place = n + 1
      <3>1. text[place] \notin chars
        BY <1>5, <1>6, <2>2
      <3>2. place \notin 1 .. n
        BY <1>1, <2>2
      <3> QED BY <1>2, <3>1, <3>2 DEF At
    <2>3. place <= n \/ place = n + 1
      BY <1>1
    <2> QED BY <2>1, <2>2, <2>3
  <1>7. ASSUME NEW chars, Free(chars), NEW place \in 1 .. n + 1
        PROVE  /\ EndAt(cut, place, chars) = EndAt(text, place, chars)
               /\ EndAt(cut, place, chars) \in place .. n + 1
    <2> DEFINE e == EndAt(cut, place, chars)
    <2>1. place \in 1 .. Len(cut) + 1
      BY <1>2
    <2>2. /\ e \in place .. Len(cut) + 1
          /\ \A i \in place .. e - 1 : cut[i] \in chars
          /\ e <= Len(cut) => cut[e] \notin chars
      BY <1>2, <2>1, EndFound
    <2> HIDE DEF e
    <2>3. e \in place .. n + 1 /\ e \in place .. Len(text) + 1 /\ place \in 1 .. Len(text) + 1
      BY <1>1, <1>2, <2>2
    <2>4. \A i \in place .. e - 1 : i \in 1 .. n /\ text[i] \in chars
      <3>1. \A i \in place .. e - 1 : i \in 1 .. n
        BY <1>1, <2>3
      <3> QED BY <1>2, <2>2, <3>1
    <2>5. text[e] \notin chars
      <3>1. CASE e = n + 1
        BY <1>5, <1>7, <3>1
      <3>2. CASE e \in 1 .. n
        BY <1>2, <2>2, <3>2
      <3> QED BY <1>1, <2>3, <3>1, <3>2
    <2>6. EndAt(text, place, chars) = e
      BY <2>3, <2>4, <2>5, EndIs
    <2> QED BY <2>3, <2>6 DEF e
  <1>8. SignPlace(cut) = SignPlace(text) /\ SignPlace(cut) \in 1 .. n + 1
    <2>1. 1 \in 1 .. n + 1
      BY <1>1
    <2> QED BY <1>3, <1>7, <2>1 DEF SignPlace
  <1>9. NumberPlace(cut) = NumberPlace(text) /\ NumberPlace(cut) \in 1 .. n + 1
    <2> DEFINE sign == SignPlace(text)
               Place(t) == IF At(t, sign, {"+", "-"}) THEN sign + 1 ELSE sign
               Prefix(t) == /\ At(t, Place(t), {"0"}) /\ At(t, Place(t) + 1, {"x", "X"})
                            /\ At(t, Place(t) + 2, HexDigits)
    <2>1. sign \in 1 .. n + 1
      BY <1>8
    <2>2. Place(cut) = Place(text) /\ Place(cut) \in 1 .. n + 1
      <3> HIDE DEF sign
      <3> QED BY <1>3, <1>6, <2>1
    <2> DEFINE place == Place(text)
    <2>3. (Prefix(cut) <=> Prefix(text)) /\ (Prefix(cut) => place + 2 \in 1 .. n + 1)
      <3>1. place \in 1 .. n + 1 /\ Place(cut) = place
        BY <2>2
      <3> HIDE DEF Place, place, sign
      <3>2. /\ At(cut, place, {"0"}) <=> At(text, place, {"0"})
            /\ At(cut, place, {"0"}) => place + 1 \in 1 .. n + 1
        BY <1>4, <1>6, <3>1
      <3>3. place + 1 \in 1 .. n + 1 =>
              /\ At(cut, place + 1, {"x", "X"}) <=> At(text, place + 1, {"x", "X"})
              /\ At(cut, place + 1, {"x", "X"}) => place + 1 + 1 \in 1 .. n + 1
        BY <1>3, <1>6
      <3>4. place + 2 \in 1 .. n + 1 =>
              (At(cut, place + 2, HexDigits) <=> At(text, place + 2, HexDigits))
        BY <1>3, <1>6
      <3>5. place + 1 + 1 = place + 2
        BY <3>1
      <3>6. Prefix(cut) <=> /\ At(cut, place, {"0"}) /\ At(cut, place + 1, {"x", "X"})
                            /\ At(cut, place + 2, HexDigits)
        BY <3>1, Zenon
      <3>7. Prefix(text) <=> /\ At(text, place, {"0"}) /\ At(text, place + 1, {"x", "X"})
                             /\ At(text, place + 2, HexDigits)
        BY Zenon DEF place
      <3> HIDE DEF Prefix
      <3> QED BY <3>2, <3>3, <3>4, <3>5, <3>6, <3>7
    <2>4. /\ NumberPlace(cut) = IF Prefix(cut) THEN Place(cut) + 2 ELSE Place(cut)
          /\ NumberPlace(text) = IF Prefix(text) THEN Place(text) + 2 ELSE Place(text)
      BY <1>8, Zenon DEF NumberPlace
    <2> HIDE DEF Prefix, Place
    <2> QED BY <2>2, <2>3, <2>4 DEF place
  <1> DEFINE first == NumberPlace(text)
             end   == EndAt(text, first, HexDigits)
  <1>10. EndAt(cut, first, HexDigits) = end /\ end \in first .. n + 1 /\ first \in 1 .. n + 1
    BY <1>3, <1>7, <1>9
  <1>11. SubSeq(cut, first, end - 1) = SubSeq(text, first, end - 1)
    <2> DEFINE z == end - 1
    <2>1. /\ first \in Nat \ {0} /\ z \in Nat /\ first <= z + 1 /\ z <= n - 1 + 1
          /\ 1 + first - 1 = first /\ 1 + z - 1 = z /\ n <= Len(text) /\ 1 <= n + 1
      BY <1>1, <1>10
    <2> HIDE DEF first, z
    <2>2. SubSeq(SubSeq(text, 1, n), first, z) = SubSeq(text, 1 + first - 1, 1 + z - 1)
      BY <1>1, <2>1, PartOfPart
    <2> QED BY <2>1, <2>2 DEF cut, z
  <1>12. At(cut, SignPlace(cut), {"-"}) <=> At(text, SignPlace(text), {"-"})
    BY <1>4, <1>6, <1>8
  <1>13. strtoul(cut) = strtoul(text)
    <2>1. strtoul(text) =
            [digits |-> end - first,
             value  |-> ToInt(ToLong(Value(SubSeq(text, first, end - 1)),
                                     At(text, SignPlace(text), {"-"})))]
      BY Zenon DEF strtoul
    <2>2. strtoul(cut) =
            [digits |-> EndAt(cut, NumberPlace(cut), HexDigits) - NumberPlace(cut),
             value  |-> ToInt(ToLong(Value(SubSeq(cut, NumberPlace(cut),
                                             EndAt(cut, NumberPlace(cut), HexDigits) - 1)),
                                     At(cut, SignPlace(cut), {"-"})))]
      BY Zenon DEF strtoul
    <2>3. At(cut, SignPlace(cut), {"-"}) = At(text, SignPlace(text), {"-"})
      BY <1>12 DEF At
    <2> HIDE DEF first, end
    <2>4. NumberPlace(cut) = first
      BY <1>9 DEF first
    <2> QED BY <1>10, <1>11, <2>1, <2>2, <2>3, <2>4, Zenon
  <1> QED BY <1>13 DEF cut

\* A part of digits alone that an int holds is read as its number.
LEMMA PlainIsRead ==
    ASSUME NEW S, NEW part \in Seq(S), IsPlain(part)
    PROVE  strtoul(part).value = Value(part)
  <1> DEFINE v == Value(part)
  <1>1. /\ Len(part) \in Nat /\ DOMAIN part = 1 .. Len(part)
        /\ \A i \in 1 .. Len(part) : part[i] \in HexDigits
    BY DEF IsPlain
  <1>2. Len(part) > 0
    <2>1. part = <<>> <=> Len(part) = 0
      BY EmptySeq
    <2> QED BY <1>1, <2>1 DEF IsPlain
  <1>3. \A c \in HexDigits : c \notin Spaces /\ c \notin {"+", "-"} /\ c \notin {"x", "X"}
    BY DEF HexDigits, Spaces
  <1>4. SignPlace(part) = 1
    <2>1. 1 \in 1 .. Len(part) + 1 /\ 1 \in 1 .. Len(part)
      BY <1>1, <1>2
    <2>2. part[1] \notin Spaces
      BY <1>1, <1>3, <2>1
    <2>3. \A i \in 1 .. 1 - 1 : part[i] \in Spaces
      OBVIOUS
    <2> QED BY <2>1, <2>2, <2>3, EndIs DEF SignPlace
  <1>5. ~At(part, 1, {"+", "-"}) /\ ~At(part, 1, {"-"}) /\ ~At(part, 2, {"x", "X"})
    BY <1>1, <1>3 DEF At
  <1>6. NumberPlace(part) = 1
    BY <1>4, <1>5 DEF NumberPlace
  <1>7. EndAt(part, 1, HexDigits) = Len(part) + 1
    <2>1. 1 \in 1 .. Len(part) + 1 /\ Len(part) + 1 \in 1 .. Len(part) + 1
      BY <1>1, <1>2
    <2>2. /\ \A i \in 1 .. (Len(part) + 1) - 1 : part[i] \in HexDigits
          /\ ~(Len(part) + 1 <= Len(part))
      BY <1>1
    <2> QED BY <2>1, <2>2, EndIs
  <1>8. SubSeq(part, 1, (Len(part) + 1) - 1) = part
    <2>1. (Len(part) + 1) - 1 = Len(part)
      BY <1>1
    <2> QED BY <2>1, SubSeqFull
  <1>9. strtoul(part).value = ToInt(ToLong(v, At(part, 1, {"-"})))
    <2>1. strtoul(part) =
            [digits |-> (Len(part) + 1) - 1,
             value  |-> ToInt(ToLong(Value(SubSeq(part, 1, (Len(part) + 1) - 1)),
                                     At(part, 1, {"-"})))]
      BY <1>4, <1>6, <1>7, Zenon DEF strtoul
    <2>2. strtoul(part).value =
            ToInt(ToLong(Value(SubSeq(part, 1, (Len(part) + 1) - 1)), At(part, 1, {"-"})))
      BY <2>1
    <2> QED BY <1>8, <2>2, Zenon
  <1>10. v \in 0 .. IntRange \div 2 - 1
    BY DEF IsPlain
  <1> HIDE DEF v
  <1>11. /\ IntRange \in Nat \ {0} /\ LongRange \in Nat /\ IntRange <= LongRange
         /\ IntRange \div 2 \in Nat /\ IntRange \div 2 <= IntRange
    BY IntAssumption DEF IntAssumption
  <1>12. ToLong(v, At(part, 1, {"-"})) = v
    BY <1>5, <1>10, <1>11 DEF ToLong
  <1>13. ToInt(v) = v
    <2>1. v \in 0 .. IntRange - 1 /\ v < IntRange \div 2
      BY <1>10, <1>11
    <2>2. v % IntRange = v
      BY <1>11, <2>1
    <2> QED BY <2>1, <2>2 DEF ToInt
  <1> QED BY <1>9, <1>12, <1>13 DEF v

LEMMA MeantIsRead ==
    ASSUME NEW S, NEW part \in Seq(S)
    PROVE  Meant(part) = strtoul(part).value
  BY PlainIsRead DEF Meant

\* The colon of a part is that of the text, if it is in it.
LEMMA ColonOfPart ==
    ASSUME NEW S, NEW text \in Seq(S), NEW a \in Nat \ {0}, NEW b \in Nat,
           a <= b + 1, b <= Len(text), NEW r, r = strchr(text, ":", a)
    PROVE  strchr(SubSeq(text, a, b), ":", 1) = IF r # 0 /\ r <= b THEN r - a + 1 ELSE 0
  <1> DEFINE s == SubSeq(text, a, b)
  <1>1. /\ s \in Seq(S) /\ Len(s) = b - a + 1
        /\ \A i \in 1 .. b - a + 1 : s[i] = text[a + i - 1]
    OBVIOUS
  <1> HIDE DEF s
  <1>2. \/ r = 0 /\ \A i \in a .. Len(text) : text[i] # ":"
        \/ /\ r \in a .. Len(text) /\ text[r] = ":"
           /\ \A i \in a .. Len(text) : text[i] = ":" => r <= i
    BY FirstPlace
  <1>9. ASSUME NEW i \in 1 .. Len(s)
        PROVE  a + i - 1 \in a .. b /\ a + i - 1 <= Len(text) /\ s[i] = text[a + i - 1]
    BY <1>1
  <1>3. CASE r # 0 /\ r <= b
    <2>1. r - a + 1 \in 1 .. Len(s) /\ s[r - a + 1] = text[r]
      <3>1. r - a + 1 \in 1 .. Len(s) /\ a + (r - a + 1) - 1 = r
        BY <1>1, <1>2, <1>3
      <3> QED BY <1>9, <3>1
    <2>2. ASSUME NEW i \in 1 .. Len(s), s[i] = ":" PROVE r - a + 1 <= i
      <3> DEFINE j == a + i - 1
      <3>1. j \in a .. Len(text) /\ text[j] = ":"
        BY <1>9, <2>2
      <3>2. r <= j
        <4> HIDE DEF j
        <4> QED BY <1>2, <1>3, <3>1
      <3> QED BY <1>2, <1>3, <3>2
    <2>3. strchr(s, ":", 1) = r - a + 1
      <3> DEFINE q == r - a + 1
      <3>1. q \in 1 .. Len(s) /\ s[q] = ":" /\ \A i \in 1 .. Len(s) : s[i] = ":" => q <= i
        BY <1>2, <1>3, <2>1, <2>2
      <3> HIDE DEF q
      <3>2. strchr(s, ":", 1) = q
        BY <1>1, <3>1, PlaceFound
      <3> QED BY <3>2 DEF q
    <2>4. strchr(s, ":", 1) = IF r # 0 /\ r <= b THEN r - a + 1 ELSE 0
      BY <1>3, <2>3, Zenon
    <2> QED BY <2>4, Zenon DEF s
  <1>4. CASE ~(r # 0 /\ r <= b)
    <2>1. ASSUME NEW i \in 1 .. Len(s) PROVE s[i] # ":"
      <3> DEFINE j == a + i - 1
      <3>1. j \in a .. b /\ j \in a .. Len(text) /\ s[i] = text[j]
        BY <1>9
      <3> HIDE DEF j
      <3> QED BY <1>2, <1>4, <3>1
    <2>2. strchr(s, ":", 1) = 0
      BY <1>1, <2>1, NoPlaceFound
    <2>3. strchr(s, ":", 1) = IF r # 0 /\ r <= b THEN r - a + 1 ELSE 0
      BY <1>4, <2>2, Zenon
    <2> QED BY <2>3, Zenon DEF s
  <1> QED BY <1>3, <1>4

\* When a part is a pair of ids, and which.
LEMMA PairOfPart ==
    ASSUME NEW S, NEW text \in Seq(S), NEW a \in Nat \ {0}, NEW b \in Nat,
           a <= b + 1, b <= Len(text), NEW r, r = strchr(text, ":", a)
    PROVE  /\ Pair(SubSeq(text, a, b)) <=>
                /\ r # 0 /\ r <= b
                /\ IsValue(SubSeq(text, a, r - 1)) /\ IsValue(SubSeq(text, r + 1, b))
           /\ Pair(SubSeq(text, a, b)) =>
                PairIds(SubSeq(text, a, b))
                  = << strtoul(SubSeq(text, a, r - 1)).value,
                       strtoul(SubSeq(text, r + 1, b)).value >>
  <1> DEFINE s == SubSeq(text, a, b)
             colon == strchr(s, ":", 1)
  <1>1. s \in Seq(S) /\ Len(s) = b - a + 1
    OBVIOUS
  <1>2. colon = IF r # 0 /\ r <= b THEN r - a + 1 ELSE 0
    BY ColonOfPart
  <1>3. r = 0 \/ r \in a .. Len(text)
    BY FirstPlace
  <1>4. CASE ~(r # 0 /\ r <= b)
    <2>1. ~Pair(s)
      BY <1>2, <1>4 DEF Pair
    <2> QED BY <1>3, <1>4, <2>1
  <1>5. CASE r # 0 /\ r <= b
    <2>1. SubSeq(s, 1, colon - 1) = SubSeq(text, a, r - 1)
      <3>1. colon - 1 = r - a /\ r - a \in Nat /\ 1 <= (r - a) + 1 /\ r - a <= b - a + 1
        BY <1>2, <1>3, <1>5
      <3>2. SubSeq(s, 1, r - a) = SubSeq(text, a + 1 - 1, a + (r - a) - 1)
        BY <3>1, PartOfPart
      <3>3. a + 1 - 1 = a /\ a + (r - a) - 1 = r - 1
        BY <1>3, <1>5
      <3> QED BY <3>1, <3>2, <3>3
    <2>2. From(s, colon + 1) = SubSeq(text, r + 1, b)
      <3> DEFINE c == r - a + 2
                 d == b - a + 1
      <3>1. colon + 1 = c /\ Len(s) = d
        BY <1>1, <1>2, <1>3, <1>5
      <3>2. c \in Nat \ {0} /\ d \in Nat /\ c <= d + 1 /\ d <= b - a + 1
        BY <1>3, <1>5
      <3>3. a + c - 1 = r + 1 /\ a + d - 1 = b
        BY <1>3, <1>5
      <3> HIDE DEF c, d
      <3>4. SubSeq(s, c, d) = SubSeq(text, a + c - 1, a + d - 1)
        BY <3>2, PartOfPart
      <3> QED BY <3>1, <3>3, <3>4 DEF From
    <2>3. Meant(SubSeq(text, a, r - 1)) = strtoul(SubSeq(text, a, r - 1)).value
      <3>1. SubSeq(text, a, r - 1) \in Seq(S)
        BY <1>3, <1>5
      <3> QED BY <3>1, MeantIsRead
    <2>4. Meant(SubSeq(text, r + 1, b)) = strtoul(SubSeq(text, r + 1, b)).value
      <3>1. SubSeq(text, r + 1, b) \in Seq(S)
        BY <1>3, <1>5
      <3> QED BY <3>1, MeantIsRead
    <2>5. colon # 0
      BY <1>2, <1>3, <1>5
    <2> HIDE DEF s, colon
    <2>6. Pair(s) <=> IsValue(SubSeq(text, a, r - 1)) /\ IsValue(SubSeq(text, r + 1, b))
      BY <2>1, <2>2, <2>5 DEF Pair, colon
    <2>7. PairIds(s) = << strtoul(SubSeq(text, a, r - 1)).value,
                          strtoul(SubSeq(text, r + 1, b)).value >>
      BY <2>1, <2>2, <2>3, <2>4 DEF PairIds, colon
    <2> QED BY <1>5, <2>6, <2>7 DEF s
  <1> QED BY <1>4, <1>5

\* What is not refused is an id, a colon and an id on either side of the comma.
LEMMA NotRefused ==
    ASSUME NEW S, NEW text \in Seq(S), NEW comma, comma = strchr(text, Comma, 1),
           NEW colon, colon = strchr(text, ":", 1),
           NEW dfu, dfu = strchr(text, ":", comma + 1)
    PROVE  ~Refused(text) <=>
             /\ colon # 0 /\ (comma # 0 => colon < comma)
             /\ IsValue(text) /\ IsValue(From(text, colon + 1))
             /\ comma # 0 => /\ dfu # 0
                             /\ IsValue(From(text, comma + 1))
                             /\ IsValue(From(text, dfu + 1))
  <1>1. Len(text) \in Nat
    OBVIOUS
  <1>2. comma = 0 \/ (comma \in 1 .. Len(text) /\ text[comma] = Comma)
    BY FirstPlace
  <1>3. colon = 0 \/ (colon \in 1 .. Len(text) /\ text[colon] = ":")
    BY FirstPlace
  <1>4. dfu = 0 \/ (dfu \in comma + 1 .. Len(text) /\ text[dfu] = ":")
    <2>1. comma + 1 \in Nat \ {0}
      BY <1>2
    <2> QED BY <2>1, FirstPlace
  <1>5. ASSUME NEW place \in 0 .. Len(text), IsValue(From(text, place + 1))
        PROVE  /\ From(text, place + 1) # <<>>
               /\ place + 1 <= Len(text)
               /\ text[place + 1] # Comma /\ text[place + 1] # ":"
    <2> DEFINE s == From(text, place + 1)
    <2>1. /\ s \in Seq(S) /\ Len(s) \in Nat
          /\ Len(s) = 0 <=> ~(place + 1 <= Len(text))
          /\ place + 1 <= Len(text) => s[1] = text[place + 1]
      BY <1>1 DEF From
    <2> HIDE DEF s
    <2>2. Len(s) # 0 /\ s[1] \notin {Comma, ":"}
      BY <1>5, <2>1, NoValue DEF s
    <2>3. s # <<>>
      BY <2>1, <2>2, EmptySeq
    <2> QED BY <2>1, <2>2, <2>3 DEF s
  <1>6. IsValue(text) => text[1] # Comma /\ text[1] # ":"
    <2>1. IsValue(text) => ~(text[1] \in {Comma, ":"})
      BY NoValue, Zenon
    <2> QED BY <2>1
  <1>7. colon # 0 => colon # comma
    BY <1>2, <1>3, SeparatorsApart
  <1>8. colon # 0 /\ comma # 0 => (~(colon > comma) <=> colon < comma)
    BY <1>1, <1>2, <1>3, <1>7
  <1>9. IsValue(text) => comma # 1 /\ colon # 1
    BY <1>2, <1>3, <1>6
  <1>10. IsValue(From(text, colon + 1)) =>
           From(text, colon + 1) # <<>> /\ text[colon + 1] # Comma
    BY <1>1, <1>3, <1>5
  <1>11. IsValue(From(text, dfu + 1)) => From(text, dfu + 1) # <<>>
    <2>1. dfu \in 0 .. Len(text)
      BY <1>1, <1>2, <1>4
    <2> QED BY <1>5, <2>1
  <1>12. dfu # 0 /\ IsValue(From(text, comma + 1)) => dfu # comma + 1
    <2>1. comma \in 0 .. Len(text)
      BY <1>1, <1>2
    <2>2. IsValue(From(text, comma + 1)) => text[comma + 1] # ":"
      BY <1>5, <2>1
    <2>3. dfu # 0 => text[dfu] = ":"
      BY <1>4
    <2> QED BY <2>2, <2>3, Zenon
  <1>13. Refused(text) <=>
           \/ comma = 1 \/ colon = 0 \/ (comma # 0 /\ colon > comma) \/ colon = 1
           \/ From(text, colon + 1) = <<>> \/ text[colon + 1] = Comma
           \/ ~IsValue(text) \/ ~IsValue(From(text, colon + 1))
           \/ comma # 0 /\ \/ dfu = 0 \/ dfu = comma + 1 \/ From(text, dfu + 1) = <<>>
                           \/ ~IsValue(From(text, comma + 1))
                           \/ ~IsValue(From(text, dfu + 1))
    BY Zenon DEF Refused
  <1> QED BY <1>8, <1>9, <1>10, <1>11, <1>12, <1>13, Zenon

\* What is cut off at a separator changes no number.
LEMMA PartCut ==
    ASSUME NEW S, NEW text \in Seq(S), NEW z \in 1 .. Len(text), text[z] \in {Comma, ":"},
           NEW a \in 1 .. z
    PROVE  strtoul(SubSeq(text, a, z - 1)) = strtoul(SubSeq(text, a, Len(text)))
  <1> DEFINE s == SubSeq(text, a, Len(text))
             n == z - a
  <1>1. /\ s \in Seq(S) /\ Len(s) = Len(text) - a + 1
        /\ \A i \in 1 .. Len(text) - a + 1 : s[i] = text[a + i - 1]
    OBVIOUS
  <1>2. SubSeq(s, 1, n) = SubSeq(text, a, z - 1)
    <2>1. /\ a \in Nat \ {0} /\ Len(text) \in Nat /\ a <= Len(text) + 1 /\ n \in Nat
          /\ 1 <= n + 1 /\ n <= Len(text) - a + 1
      OBVIOUS
    <2> HIDE DEF n
    <2>2. SubSeq(s, 1, n) = SubSeq(text, a + 1 - 1, a + n - 1)
      BY <2>1, PartOfPart
    <2>3. a + 1 - 1 = a /\ a + n - 1 = z - 1
      BY DEF n
    <2> QED BY <2>2, <2>3
  <1>3. n \in 0 .. Len(s) - 1 /\ n + 1 \in 1 .. Len(text) - a + 1 /\ a + (n + 1) - 1 = z
    BY <1>1
  <1> HIDE DEF s, n
  <1>4. s[n + 1] \in {Comma, ":"}
    <2>1. s[n + 1] = text[a + (n + 1) - 1]
      BY <1>1, <1>3
    <2> QED BY <1>3, <2>1
  <1>5. strtoul(SubSeq(s, 1, n)) = strtoul(s)
    BY <1>1, <1>3, <1>4, NumberCut
  <1> QED BY <1>2, <1>5 DEF s

\* xmosdfu goes on with the ids its user wrote, whatever the text.
LEMMA IdsFit ==
    ASSUME NEW S, NEW text \in Seq(S), NEW command, NEW files
    PROVE  IdsAgree(text, command, files)
  <1> DEFINE comma   == strchr(text, Comma, 1)
             colon   == strchr(text, ":", 1)
             second  == strchr(text, ":", comma + 1)
             end     == IF comma = 0 THEN Len(text) ELSE comma - 1
             runtime == IF comma = 0 THEN text ELSE SubSeq(text, 1, comma - 1)
             dfu     == From(text, comma + 1)
             ids     == parse_device_vid_pid(text)
             both    == Pair(runtime) /\ (comma # 0 => Pair(dfu))
             Read(place) == strtoul(From(text, place))
  <1>1. comma = 0 \/ (comma \in 1 .. Len(text) /\ text[comma] = Comma)
    BY FirstPlace
  <1>2. Len(text) \in Nat /\ comma \in Nat /\ comma <= Len(text)
    BY <1>1
  <1>3. colon = 0 \/ (colon \in 1 .. Len(text) /\ text[colon] = ":")
    BY FirstPlace
  <1>4. second = 0 \/ (second \in comma + 1 .. Len(text) /\ text[second] = ":")
    <2>1. comma + 1 \in Nat \ {0}
      BY <1>2
    <2> HIDE DEF comma
    <2> QED BY <2>1, FirstPlace
  <1>5. runtime = SubSeq(text, 1, end)
    BY SubSeqFull
  <1>6. end \in Nat /\ 1 <= end + 1 /\ end <= Len(text)
    BY <1>1, <1>2
  <1>7. /\ Pair(runtime) <=> /\ colon # 0 /\ colon <= end
                             /\ IsValue(SubSeq(text, 1, colon - 1))
                             /\ IsValue(SubSeq(text, colon + 1, end))
        /\ Pair(runtime) =>
             PairIds(runtime) = << strtoul(SubSeq(text, 1, colon - 1)).value,
                                   strtoul(SubSeq(text, colon + 1, end)).value >>
    <2> HIDE DEF end, runtime
    <2> QED BY <1>5, <1>6, PairOfPart
  <1>8. /\ Pair(dfu) <=> /\ second # 0 /\ second <= Len(text)
                         /\ IsValue(SubSeq(text, comma + 1, second - 1))
                         /\ IsValue(SubSeq(text, second + 1, Len(text)))
        /\ Pair(dfu) =>
             PairIds(dfu) = << strtoul(SubSeq(text, comma + 1, second - 1)).value,
                               strtoul(SubSeq(text, second + 1, Len(text))).value >>
    <2> DEFINE a == comma + 1
    <2>1. a \in Nat \ {0} /\ a <= Len(text) + 1
      BY <1>2
    <2>2. second = strchr(text, ":", a) /\ dfu = SubSeq(text, a, Len(text))
      BY DEF From
    <2> HIDE DEF a, second, dfu
    <2>3. /\ Pair(SubSeq(text, a, Len(text))) <=>
               /\ second # 0 /\ second <= Len(text)
               /\ IsValue(SubSeq(text, a, second - 1))
               /\ IsValue(SubSeq(text, second + 1, Len(text)))
          /\ Pair(SubSeq(text, a, Len(text))) =>
               PairIds(SubSeq(text, a, Len(text)))
                 = << strtoul(SubSeq(text, a, second - 1)).value,
                      strtoul(SubSeq(text, second + 1, Len(text))).value >>
      BY <1>2, <2>1, <2>2, PairOfPart
    <2> QED BY <2>2, <2>3, Zenon DEF a
  <1>9. ~Refused(text) <=>
          /\ colon # 0 /\ (comma # 0 => colon < comma)
          /\ IsValue(text) /\ IsValue(From(text, colon + 1))
          /\ comma # 0 => /\ second # 0
                          /\ IsValue(From(text, comma + 1))
                          /\ IsValue(From(text, second + 1))
    <2>1. /\ comma = strchr(text, Comma, 1) /\ colon = strchr(text, ":", 1)
          /\ second = strchr(text, ":", comma + 1)
      OBVIOUS
    <2> HIDE DEF comma, colon, second
    <2> QED BY <2>1, NotRefused
  <1> HIDE DEF comma, colon, second, runtime, dfu
  <1>10. From(text, 1) = text
    BY SubSeqFull DEF From
  <1>11. colon # 0 => strtoul(SubSeq(text, 1, colon - 1)) = Read(1)
    <2> SUFFICES ASSUME colon # 0 PROVE strtoul(SubSeq(text, 1, colon - 1)) = Read(1)
      OBVIOUS
    <2>1. colon \in 1 .. Len(text) /\ text[colon] \in {Comma, ":"} /\ 1 \in 1 .. colon
      BY <1>3
    <2> QED BY <2>1, PartCut DEF From
  <1>12. colon # 0 /\ colon <= end => strtoul(SubSeq(text, colon + 1, end)) = Read(colon + 1)
    <2> SUFFICES ASSUME colon # 0, colon <= end
                 PROVE  strtoul(SubSeq(text, colon + 1, end)) = Read(colon + 1)
      OBVIOUS
    <2>1. CASE comma = 0
      BY <2>1 DEF From
    <2>2. CASE comma # 0
      <3>1. /\ comma \in 1 .. Len(text) /\ text[comma] \in {Comma, ":"}
            /\ colon + 1 \in 1 .. comma /\ end = comma - 1
        BY <1>1, <1>3, <2>2
      <3> HIDE DEF end
      <3> QED BY <3>1, PartCut DEF From
    <2> QED BY <2>1, <2>2
  <1>13. second # 0 => strtoul(SubSeq(text, comma + 1, second - 1)) = Read(comma + 1)
    <2> SUFFICES ASSUME second # 0
                 PROVE  strtoul(SubSeq(text, comma + 1, second - 1)) = Read(comma + 1)
      OBVIOUS
    <2>1. /\ second \in 1 .. Len(text) /\ text[second] \in {Comma, ":"}
          /\ comma + 1 \in 1 .. second
      BY <1>2, <1>4
    <2> QED BY <2>1, PartCut DEF From
  <1>14. strtoul(SubSeq(text, second + 1, Len(text))) = Read(second + 1)
    BY DEF From
  <1> DEFINE isValue(place) == Read(place).digits > 0
  <1>15. \A place : IsValue(From(text, place)) <=> isValue(place)
    BY DEF IsValue
  <1>16. IsValue(text) <=> isValue(1)
    BY <1>10 DEF IsValue
  <1>17. Pair(runtime) <=> colon # 0 /\ colon <= end /\ isValue(1) /\ isValue(colon + 1)
    <2> HIDE DEF Read, end
    <2> QED BY <1>7, <1>11, <1>12 DEF IsValue
  <1>18. Pair(dfu) <=> second # 0 /\ isValue(comma + 1) /\ isValue(second + 1)
    <2>1. second # 0 => second <= Len(text)
      BY <1>2, <1>4
    <2> HIDE DEF Read
    <2> QED BY <1>8, <1>13, <1>14, <2>1 DEF IsValue
  <1>19. colon # 0 => (colon <= end <=> (comma # 0 => colon < comma))
    BY <1>1, <1>2, <1>3
  <1>20. ~Refused(text) <=> both
    <2> HIDE DEF isValue, end
    <2> QED BY <1>9, <1>15, <1>16, <1>17, <1>18, <1>19, Zenon
  <1>21. /\ ids.match_vendor = Read(1).value
         /\ ids.match_product = Read(colon + 1).value
         /\ ids.match_vendor_dfu = IF comma = 0 THEN -1 ELSE Read(comma + 1).value
         /\ ids.match_product_dfu = IF comma = 0 THEN -1 ELSE Read(second + 1).value
    BY Zenon DEF parse_device_vid_pid, comma, colon, second
  <1> HIDE DEF ids, Read, end
  <1>22. Pair(runtime) => PairIds(runtime) = <<ids.match_vendor, ids.match_product>>
    BY <1>7, <1>11, <1>12, <1>21
  <1>23. comma # 0 /\ Pair(dfu) =>
           PairIds(dfu) = <<ids.match_vendor_dfu, ids.match_product_dfu>>
    BY <1>8, <1>13, <1>14, <1>21
  <1>24. comma = 0 => <<ids.match_vendor_dfu, ids.match_product_dfu>> = <<-1, -1>>
    BY <1>21
  <1> DEFINE good == both /\ PairIds(runtime)[2] # 0
  <1>25. good <=> ~Refused(text) /\ ids.match_product # 0
    BY <1>20, <1>22
  <1>26. xmosdfu_accepts(text, command, files)
           <=> good /\ (command = "--revertfactory"
                        \/ (command \in {"--download", "--upload"} /\ files > 0))
    <2> HIDE DEF good
    <2> QED BY <1>25 DEF xmosdfu_accepts, ids
  <1>27. good => /\ <<ids.match_vendor, ids.match_product>> = PairIds(runtime)
                 /\ <<ids.match_vendor_dfu, ids.match_product_dfu>>
                      = IF comma = 0 THEN <<-1, -1>> ELSE PairIds(dfu)
    BY <1>22, <1>23, <1>24
  <1> QED BY <1>26, <1>27, Zenon DEF IdsAgree, comma, runtime, dfu, ids

-----------------------------------------------------------------------------
(* Damage.                                                                 *)

LEMMA BitOfBytes ==
    ASSUME NEW bytes \in Seq(Word(8)), NEW i \in 1 .. Len(bytes), NEW bit \in 0 .. 7
    PROVE  bit + 8 * (i - 1) \in FromBytes(bytes) <=> bit \in bytes[i]
  <1>1. \A j \in 1 .. Len(bytes) : \A b \in bytes[j] : b \in 0 .. 7
    <2>1. \A j \in 1 .. Len(bytes) : bytes[j] \in Word(8)
      OBVIOUS
    <2>2. \A w \in Word(8) : \A b \in w : b \in 0 .. 7
      BY DEF Word
    <2> QED BY <2>1, <2>2
  <1>2. FromBytes(bytes)
          = UNION { { b + 8 * (j - 1) : b \in bytes[j] } : j \in 1 .. Len(bytes) }
    BY DEF FromBytes
  <1>3. ASSUME bit + 8 * (i - 1) \in FromBytes(bytes) PROVE bit \in bytes[i]
    <2>1. PICK j \in 1 .. Len(bytes) : \E b \in bytes[j] : bit + 8 * (i - 1) = b + 8 * (j - 1)
      BY <1>2, <1>3
    <2>2. PICK b \in bytes[j] : bit + 8 * (i - 1) = b + 8 * (j - 1)
      BY <2>1
    <2>3. b \in 0 .. 7
      BY <1>1
    <2>4. i = j /\ bit = b
      BY <2>2, <2>3
    <2> QED BY <2>4
  <1>4. ASSUME bit \in bytes[i] PROVE bit + 8 * (i - 1) \in FromBytes(bytes)
    BY <1>2, <1>4
  <1> QED BY <1>3, <1>4

\* Bytes that make the same number are the same.
LEMMA BytesTell ==
    ASSUME NEW p \in Seq(Word(8)), NEW q \in Seq(Word(8)), Len(p) = Len(q),
           FromBytes(p) = FromBytes(q)
    PROVE  p = q
  <1>1. ASSUME NEW i \in 1 .. Len(p) PROVE p[i] = q[i]
    <2>1. \A bit \in 0 .. 7 : bit \in p[i] <=> bit \in q[i]
      <3>1. ASSUME NEW bit \in 0 .. 7 PROVE bit \in p[i] <=> bit \in q[i]
        <4>1. bit + 8 * (i - 1) \in FromBytes(p) <=> bit \in p[i]
          BY BitOfBytes
        <4>2. bit + 8 * (i - 1) \in FromBytes(q) <=> bit \in q[i]
          BY BitOfBytes
        <4> QED BY <4>1, <4>2
      <3> QED BY <3>1
    <2>2. p[i] \in Word(8) /\ q[i] \in Word(8)
      OBVIOUS
    <2>3. \A w \in Word(8) : \A bit \in w : bit \in 0 .. 7
      BY DEF Word
    <2> QED BY <2>1, <2>2, <2>3
  <1> QED BY <1>1, SeqEqual

\* What is turned over is no longer what it was.
LEMMA Turned ==
    ASSUME NEW w \in Word(8), NEW turned \in Word(8)
    PROVE  /\ Xor(w, turned) \in Word(8)
           /\ \A n \in turned : n \in w <=> n \notin Xor(w, turned)
           /\ turned # {} => Xor(w, turned) # w
  <1>1. Xor(w, turned) \in Word(8)
    BY DEF Xor, Word
  <1>2. \A n \in turned : n \in w <=> n \notin Xor(w, turned)
    BY DEF Xor
  <1> QED BY <1>1, <1>2

\* A suffix that is damaged in its first ten bytes is not taken for good.
LEMMA TailTells ==
    ASSUME NEW tail \in Seq(Word(8)), NEW hurt \in Seq(Word(8)),
           Len(tail) >= 16, Len(hurt) = Len(tail),
           FromBytes(SubSeq(hurt, 1, 4)) = FromBytes(SubSeq(tail, 1, 4)),
           hurt[5] = tail[5],
           SubSeq(hurt, 6, 8) = SubSeq(tail, 6, 8),
           FromBytes(SubSeq(hurt, 9, 10)) = FromBytes(SubSeq(tail, 9, 10))
    PROVE  \A j \in 1 .. 10 : hurt[j] = tail[j]
  <1>1. ASSUME NEW s \in Seq(Word(8)), Len(s) >= 16
        PROVE  /\ SubSeq(s, 1, 4) \in Seq(Word(8)) /\ Len(SubSeq(s, 1, 4)) = 4
               /\ \A i \in 1 .. 4 : SubSeq(s, 1, 4)[i] = s[i]
               /\ Len(SubSeq(s, 6, 8)) = 3
               /\ \A i \in 1 .. 3 : SubSeq(s, 6, 8)[i] = s[5 + i]
               /\ SubSeq(s, 9, 10) \in Seq(Word(8)) /\ Len(SubSeq(s, 9, 10)) = 2
               /\ \A i \in 1 .. 2 : SubSeq(s, 9, 10)[i] = s[8 + i]
    BY ONLY <1>1
  <1>2. Len(hurt) >= 16
    OBVIOUS
  <1> DEFINE First(s) == SubSeq(s, 1, 4)
             Signed(s) == SubSeq(s, 6, 8)
             Version(s) == SubSeq(s, 9, 10)
  <1>3. /\ First(tail) \in Seq(Word(8)) /\ Len(First(tail)) = 4
        /\ \A i \in 1 .. 4 : First(tail)[i] = tail[i]
        /\ \A i \in 1 .. 3 : Signed(tail)[i] = tail[5 + i]
        /\ Version(tail) \in Seq(Word(8)) /\ Len(Version(tail)) = 2
        /\ \A i \in 1 .. 2 : Version(tail)[i] = tail[8 + i]
    BY <1>1
  <1>4. /\ First(hurt) \in Seq(Word(8)) /\ Len(First(hurt)) = 4
        /\ \A i \in 1 .. 4 : First(hurt)[i] = hurt[i]
        /\ \A i \in 1 .. 3 : Signed(hurt)[i] = hurt[5 + i]
        /\ Version(hurt) \in Seq(Word(8)) /\ Len(Version(hurt)) = 2
        /\ \A i \in 1 .. 2 : Version(hurt)[i] = hurt[8 + i]
    BY <1>1, <1>2
  <1>5. /\ FromBytes(First(hurt)) = FromBytes(First(tail)) /\ Signed(hurt) = Signed(tail)
        /\ FromBytes(Version(hurt)) = FromBytes(Version(tail))
    OBVIOUS
  <1> HIDE DEF First, Signed, Version
  <1>6. First(hurt) = First(tail) /\ Version(hurt) = Version(tail)
    <2>1. Len(First(hurt)) = Len(First(tail)) /\ Len(Version(hurt)) = Len(Version(tail))
      BY <1>3, <1>4
    <2>2. First(hurt) = First(tail)
      BY <1>3, <1>4, <1>5, <2>1, BytesTell
    <2>3. Version(hurt) = Version(tail)
      BY <1>3, <1>4, <1>5, <2>1, BytesTell
    <2> QED BY <2>2, <2>3
  <1>7. /\ \A i \in 1 .. 4 : hurt[i] = tail[i]
        /\ \A i \in 1 .. 3 : hurt[5 + i] = tail[5 + i]
        /\ \A i \in 1 .. 2 : hurt[8 + i] = tail[8 + i]
    BY <1>3, <1>4, <1>5, <1>6
  <1>8. ASSUME NEW j \in 1 .. 10 PROVE hurt[j] = tail[j]
    <2>1. \/ j \in 1 .. 4 \/ j = 5 \/ (j - 5 \in 1 .. 3 /\ 5 + (j - 5) = j)
          \/ (j - 8 \in 1 .. 2 /\ 8 + (j - 8) = j)
      OBVIOUS
    <2> QED BY <1>7, <2>1
  <1> QED BY <1>8

LEMMA HurtBytes ==
    ASSUME NEW bytes \in Seq(Word(8)), NEW first \in Nat \ {0}, NEW damage \in Seq(Word(8))
    PROVE  /\ Damaged(bytes, first, damage) \in Seq(Word(8))
           /\ Len(Damaged(bytes, first, damage)) = Len(bytes)
           /\ \A i \in 1 .. Len(bytes) :
                Damaged(bytes, first, damage)[i]
                  = IF i >= first /\ i < first + Len(damage)
                    THEN Xor(bytes[i], damage[i - first + 1]) ELSE bytes[i]
  <1> DEFINE Hurt(i) == IF i >= first /\ i < first + Len(damage)
                        THEN Xor(bytes[i], damage[i - first + 1]) ELSE bytes[i]
  <1>1. ASSUME NEW i \in 1 .. Len(bytes) PROVE Hurt(i) \in Word(8)
    <2>1. bytes[i] \in Word(8)
      OBVIOUS
    <2>2. CASE i >= first /\ i < first + Len(damage)
      <3>1. i - first + 1 \in 1 .. Len(damage)
        BY <2>2
      <3>2. damage[i - first + 1] \in Word(8)
        BY <3>1
      <3> QED BY <2>1, <2>2, <3>2, Turned
    <2> QED BY <2>1, <2>2
  <1> HIDE DEF Hurt
  <1>2. Damaged(bytes, first, damage) = [i \in 1 .. Len(bytes) |-> Hurt(i)]
    BY DEF Damaged, Hurt
  <1>3. \A i \in 1 .. Len(bytes) : Damaged(bytes, first, damage)[i] = Hurt(i)
    BY <1>2
  <1>4. /\ [i \in 1 .. Len(bytes) |-> Hurt(i)] \in Seq(Word(8))
        /\ Len([i \in 1 .. Len(bytes) |-> Hurt(i)]) = Len(bytes)
    BY <1>1
  <1> QED BY <1>2, <1>3, <1>4 DEF Hurt

\* Damage of four bytes in the image changes the checksum.
LEMMA ImageTells ==
    ASSUME NEW bytes \in Seq(Word(8)), NEW first \in Nat \ {0}, NEW damage \in Seq(Word(8)),
           Len(damage) <= 4, first + Len(damage) - 1 <= Len(bytes),
           \E i \in 1 .. Len(damage) : damage[i] # {}
    PROVE  checksum(bytes) # checksum(Damaged(bytes, first, damage))
  <1> DEFINE hurt == Damaged(bytes, first, damage)
             size == Len(bytes)
             span == Len(damage)
  <1>1. /\ hurt \in Seq(Word(8)) /\ Len(hurt) = size
        /\ \A i \in 1 .. size :
             hurt[i] = IF i >= first /\ i < first + span
                       THEN Xor(bytes[i], damage[i - first + 1]) ELSE bytes[i]
    BY HurtBytes
  <1>2. size \in Nat /\ span \in Nat /\ span <= 4 /\ first + span - 1 <= size
    OBVIOUS
  <1>3. ASSUME NEW n \in 0 .. 8 * size - 1, TopBit(bytes, n) # TopBit(hurt, n)
        PROVE  n \in 8 * (first - 1) .. 8 * (first + span - 1) - 1
    <2> DEFINE j == n \div 8 + 1
    <2>1. j \in 1 .. size /\ 8 * (j - 1) <= n /\ n <= 8 * (j - 1) + 7
      BY <1>2
    <2>2. hurt[j] # bytes[j]
      BY <1>3 DEF TopBit
    <2> HIDE DEF j, hurt
    <2>3. j >= first /\ j < first + span
      BY <1>1, <2>1, <2>2
    <2> QED BY <1>2, <2>1, <2>3
  <1>4. \E n \in 0 .. 8 * size - 1 : TopBit(bytes, n) # TopBit(hurt, n)
    <2>1. PICK i \in 1 .. span : damage[i] # {}
      OBVIOUS
    <2>2. PICK bit : bit \in damage[i]
      BY <2>1
    <2>3. damage[i] \in Word(8)
      OBVIOUS
    <2>4. bit \in 0 .. 7
      <3>1. \A w \in Word(8) : \A b \in w : b \in 0 .. 7
        BY DEF Word
      <3> QED BY <2>2, <2>3, <3>1
    <2> DEFINE j == first + i - 1
               n == 8 * (j - 1) + bit
    <2>5. /\ j \in 1 .. size /\ j >= first /\ j < first + span /\ j - first + 1 = i
      BY <1>2
    <2>6. n \in 0 .. 8 * size - 1 /\ n \div 8 + 1 = j /\ n % 8 = bit
      <3> HIDE DEF j
      <3> QED BY <1>2, <2>4, <2>5
    <2> HIDE DEF j, n, hurt
    <2>7. hurt[j] = Xor(bytes[j], damage[i])
      BY <1>1, <2>5
    <2>8. bytes[j] \in Word(8)
      BY <2>5
    <2>9. bit \in bytes[j] <=> bit \notin hurt[j]
      BY <2>2, <2>3, <2>7, <2>8, Turned
    <2>10. TopBit(bytes, n) # TopBit(hurt, n)
      <3>1. {31} # {}
        OBVIOUS
      <3> QED BY <2>6, <2>9, <3>1 DEF TopBit
    <2> QED BY <2>6, <2>10
  <1> DEFINE low  == 8 * (first - 1)
             high == 8 * (first + span - 1)
  <1>5. low \in Nat /\ high \in Nat /\ high <= low + 32 /\ high <= 8 * size
    BY <1>2
  <1>6. \A n \in 0 .. 8 * size - 1 : TopBit(bytes, n) # TopBit(hurt, n) => n \in low .. high - 1
    BY <1>3
  <1> HIDE DEF hurt, low, high
  <1>7. checksum(bytes) # checksum(hurt)
    BY <1>1, <1>4, <1>5, <1>6, ChecksumTells
  <1> QED BY <1>7 DEF hurt

LEMMA JoinedIs ==
    ASSUME NEW S, NEW s \in Seq(S), NEW t \in Seq(S), NEW all \in Seq(S),
           Len(all) = Len(s) + Len(t),
           \A i \in 1 .. Len(s) : all[i] = s[i],
           \A i \in 1 .. Len(t) : all[Len(s) + i] = t[i]
    PROVE  Joined(all, s, t)
  <1> DEFINE both == s \o t
  <1>1. Joined(both, s, t)
    BY DEF Joined
  <1> HIDE DEF both
  <1>2. /\ both \in Seq(S) /\ Len(both) = Len(s) + Len(t)
        /\ \A i \in 1 .. Len(s) : both[i] = s[i]
        /\ \A i \in 1 .. Len(t) : both[Len(s) + i] = t[i]
    BY <1>1, PutBehind
  <1>3. ASSUME NEW i \in 1 .. Len(all) PROVE all[i] = both[i]
    <2>1. CASE i <= Len(s)
      BY <1>2, <2>1
    <2>2. CASE ~(i <= Len(s))
      <3> DEFINE k == i - Len(s)
      <3>1. k \in 1 .. Len(t) /\ Len(s) + k = i
        BY <2>2
      <3> HIDE DEF k
      <3>2. all[Len(s) + k] = both[Len(s) + k]
        BY <1>2, <3>1
      <3> QED BY <3>1, <3>2
    <2> QED BY <2>1, <2>2
  <1>4. all = both
    BY <1>2, <1>3, SeqEqual
  <1> QED BY <1>1, <1>4

LEMMA Reversed ==
    ASSUME NEW S, NEW s \in Seq(S)
    PROVE  /\ Reverse(s) \in Seq(S) /\ Len(Reverse(s)) = Len(s)
           /\ \A i \in 1 .. Len(s) : Reverse(s)[i] = s[Len(s) - i + 1]
           /\ Reverse(Reverse(s)) = s
  <1>1. ASSUME NEW q \in Seq(S)
        PROVE  /\ Reverse(q) \in Seq(S) /\ Len(Reverse(q)) = Len(q)
               /\ \A i \in 1 .. Len(q) : Reverse(q)[i] = q[Len(q) - i + 1]
    <2>1. Reverse(q) = [i \in 1 .. Len(q) |-> q[Len(q) - i + 1]]
      BY DEF Reverse
    <2>2. \A i \in 1 .. Len(q) : q[Len(q) - i + 1] \in S
      OBVIOUS
    <2> QED BY <2>1, <2>2
  <1> DEFINE r == Reverse(s)
             rr == Reverse(r)
  <1>2. /\ r \in Seq(S) /\ Len(r) = Len(s)
        /\ \A i \in 1 .. Len(s) : r[i] = s[Len(s) - i + 1]
    BY <1>1
  <1>3. /\ rr \in Seq(S) /\ Len(rr) = Len(r)
        /\ \A i \in 1 .. Len(r) : rr[i] = r[Len(r) - i + 1]
    BY <1>1, <1>2
  <1> HIDE DEF r, rr
  <1>4. ASSUME NEW i \in 1 .. Len(s) PROVE rr[i] = s[i]
    <2> DEFINE j == Len(s) - i + 1
    <2>1. j \in 1 .. Len(s) /\ Len(s) - j + 1 = i
      OBVIOUS
    <2>2. rr[i] = r[j]
      BY <1>2, <1>3
    <2> HIDE DEF j
    <2> QED BY <1>2, <2>1, <2>2
  <1>5. rr = s
    BY <1>2, <1>3, <1>4, SeqEqual
  <1> QED BY <1>2, <1>5 DEF r, rr

\* Damage in the image.
LEMMA ImageDamageFound ==
    ASSUME NEW bytes \in Seq(Word(8)), NEW ids \in Ids, NEW asked,
           NEW first \in Nat \ {0}, NEW damage \in Seq(Word(8)),
           Len(damage) <= 4, first + Len(damage) - 1 <= Len(bytes),
           \E i \in 1 .. Len(damage) : damage[i] # {}
    PROVE  verify_dfu_suffix(Damaged(WithSuffix(bytes, ids), first, damage), asked) # "OK"
  <1> DEFINE file == WithSuffix(bytes, ids)
             tail == SuffixBytes(checksum(bytes), ids)
             behind == Reverse(tail)
             hurt == Damaged(bytes, first, damage)
             broken == Damaged(file, first, damage)
             span == Len(damage)
  <1>1. /\ tail \in Seq(Word(8)) /\ Len(tail) = SUFFIX_BYTES
        /\ FromBytes(SubSeq(tail, 1, 4)) = checksum(bytes)
        /\ Joined(file, bytes, behind)
    BY SuffixOf
  <1>2. /\ hurt \in Seq(Word(8)) /\ Len(hurt) = Len(bytes)
        /\ \A i \in 1 .. Len(bytes) :
             hurt[i] = IF i >= first /\ i < first + span
                       THEN Xor(bytes[i], damage[i - first + 1]) ELSE bytes[i]
    BY HurtBytes
  <1>3. checksum(bytes) # checksum(hurt)
    BY ImageTells
  <1>4. span \in Nat /\ Len(bytes) \in Nat /\ first + span - 1 <= Len(bytes)
    OBVIOUS
  <1> HIDE DEF file, tail, hurt
  <1>5. behind \in Seq(Word(8)) /\ Len(behind) = Len(tail)
    BY <1>1, Reversed
  <1> HIDE DEF behind
  <1>6. /\ file \in Seq(Word(8)) /\ Len(file) = Len(bytes) + Len(behind)
        /\ \A i \in 1 .. Len(bytes) : file[i] = bytes[i]
        /\ \A i \in 1 .. Len(behind) : file[Len(bytes) + i] = behind[i]
    BY <1>1, <1>5, PutBehind
  <1>7. /\ broken \in Seq(Word(8)) /\ Len(broken) = Len(file)
        /\ \A i \in 1 .. Len(file) :
             broken[i] = IF i >= first /\ i < first + span
                         THEN Xor(file[i], damage[i - first + 1]) ELSE file[i]
    BY <1>6, HurtBytes
  <1> HIDE DEF broken
  <1>8. Len(behind) \in Nat
    BY <1>5
  <1>9. \A i \in 1 .. Len(hurt) : broken[i] = hurt[i]
    <2>1. \A i \in 1 .. Len(bytes) : i \in 1 .. Len(file)
      BY <1>4, <1>6, <1>8
    <2> HIDE DEF span
    <2> QED BY <1>2, <1>6, <1>7, <2>1
  <1>10. \A i \in 1 .. Len(behind) : broken[Len(hurt) + i] = behind[i]
    <2>1. \A i \in 1 .. Len(behind) :
             Len(bytes) + i \in 1 .. Len(file) /\ ~(Len(bytes) + i < first + span)
      BY <1>4, <1>6, <1>8
    <2> HIDE DEF span
    <2> QED BY <1>2, <1>6, <1>7, <2>1
  <1>11. Joined(broken, hurt, behind)
    <2>1. Len(broken) = Len(hurt) + Len(behind)
      BY <1>2, <1>6, <1>7
    <2> QED BY <1>2, <1>5, <1>7, <1>9, <1>10, <2>1, JoinedIs
  <1>12. verify_dfu_suffix(broken, asked) = "OK"
           => FromBytes(SubSeq(tail, 1, 4)) = checksum(hurt)
    <2>1. Joined(broken, hurt, Reverse(tail))
      BY <1>11 DEF behind
    <2> QED BY <1>1, <1>2, <2>1, VerifierReads
  <1> QED BY <1>1, <1>3, <1>12 DEF broken, file

\* Damage in the suffix, in front of the ids.
LEMMA SuffixDamageFound ==
    ASSUME NEW bytes \in Seq(Word(8)), NEW ids \in Ids, NEW asked,
           NEW first \in Nat \ {0}, NEW damage \in Seq(Word(8)),
           first > Len(bytes) + 6, first + Len(damage) - 1 <= Len(WithSuffix(bytes, ids)),
           \E i \in 1 .. Len(damage) : damage[i] # {}
    PROVE  verify_dfu_suffix(Damaged(WithSuffix(bytes, ids), first, damage), asked) # "OK"
  <1> DEFINE file == WithSuffix(bytes, ids)
             tail == SuffixBytes(checksum(bytes), ids)
             behind == Reverse(tail)
             place == first - Len(bytes)
             hurt == Damaged(behind, place, damage)
             torn == Reverse(hurt)
             broken == Damaged(file, first, damage)
             span == Len(damage)
             size == Len(bytes)
  <1>1. /\ tail \in Seq(Word(8)) /\ Len(tail) = SUFFIX_BYTES
        /\ FromBytes(SubSeq(tail, 1, 4)) = checksum(bytes)
        /\ tail[5] = suffix_length
        /\ SubSeq(tail, 6, 8) = DFU_SIGNATURE
        /\ FromBytes(SubSeq(tail, 9, 10)) = DFU_BCD
        /\ Joined(file, bytes, behind)
    BY SuffixOf
  <1>2. /\ first + span - 1 <= Len(file) /\ span \in Nat /\ size \in Nat
        /\ place \in Nat \ {0} /\ place > 6 /\ first = size + place
        /\ \E i \in 1 .. span : damage[i] # {}
    OBVIOUS
  <1> HIDE DEF file, tail
  <1>3. /\ behind \in Seq(Word(8)) /\ Len(behind) = Len(tail)
        /\ \A i \in 1 .. Len(tail) : behind[i] = tail[Len(tail) - i + 1]
    BY <1>1, Reversed
  <1> HIDE DEF behind, place, size
  <1>4. /\ hurt \in Seq(Word(8)) /\ Len(hurt) = Len(behind)
        /\ \A i \in 1 .. Len(behind) :
             hurt[i] = IF i >= place /\ i < place + span
                       THEN Xor(behind[i], damage[i - place + 1]) ELSE behind[i]
    BY <1>2, <1>3, HurtBytes
  <1> HIDE DEF hurt
  <1>5. /\ torn \in Seq(Word(8)) /\ Len(torn) = Len(hurt)
        /\ \A i \in 1 .. Len(hurt) : torn[i] = hurt[Len(hurt) - i + 1]
        /\ Reverse(torn) = hurt
    BY <1>4, Reversed
  <1> HIDE DEF torn
  <1>6. /\ file \in Seq(Word(8)) /\ Len(file) = size + Len(behind)
        /\ \A i \in 1 .. size : file[i] = bytes[i]
        /\ \A i \in 1 .. Len(behind) : file[size + i] = behind[i]
    <2>1. /\ file \in Seq(Word(8)) /\ Len(file) = Len(bytes) + Len(behind)
          /\ \A i \in 1 .. Len(bytes) : file[i] = bytes[i]
          /\ \A i \in 1 .. Len(behind) : file[Len(bytes) + i] = behind[i]
      <3>1. Joined(file, bytes, behind) /\ behind \in Seq(Word(8))
        BY <1>1, <1>3
      <3> HIDE DEF span
      <3> QED BY ONLY <3>1, bytes \in Seq(Word(8)), PutBehind
    <2> QED BY <2>1 DEF size
  <1>7. /\ broken \in Seq(Word(8)) /\ Len(broken) = Len(file)
        /\ \A i \in 1 .. Len(file) :
             broken[i] = IF i >= first /\ i < first + span
                         THEN Xor(file[i], damage[i - first + 1]) ELSE file[i]
    BY <1>6, HurtBytes
  <1> HIDE DEF broken
  <1>8. Len(behind) \in Nat
    BY <1>3
  <1>9. \A i \in 1 .. size : broken[i] = bytes[i]
    <2>1. \A i \in 1 .. size : i \in 1 .. Len(file) /\ ~(i >= first)
      <3>1. /\ size \in Nat /\ place \in Nat \ {0} /\ first = size + place
            /\ Len(file) = size + Len(behind)
        BY <1>2, <1>6
      <3> QED BY ONLY <1>8, <3>1
    <2> QED BY <1>6, <1>7, <2>1
  <1>10. \A i \in 1 .. Len(behind) : broken[size + i] = hurt[i]
    <2> TAKE i \in 1 .. Len(behind)
    <2>1. size + i \in 1 .. Len(file)
      <3>1. size \in Nat /\ Len(file) = size + Len(behind)
        BY <1>2, <1>6
      <3> HIDE DEF span
      <3> QED BY <1>8, <3>1
    <2>2. /\ size + i >= first <=> i >= place
          /\ size + i < first + span <=> i < place + span
          /\ (size + i) - first + 1 = i - place + 1
      BY <1>2
    <2>3. file[size + i] = behind[i]
      BY <1>6
    <2> DEFINE k == size + i
    <2>4. broken[k] = IF k >= first /\ k < first + span
                      THEN Xor(file[k], damage[k - first + 1]) ELSE file[k]
      BY <1>7, <2>1
    <2> HIDE DEF span
    <2> QED BY <1>4, <2>2, <2>3, <2>4
  <1>11. Joined(broken, bytes, Reverse(torn))
    <2>1. Joined(broken, bytes, hurt)
      <3>1. Len(broken) = Len(bytes) + Len(hurt)
        BY <1>4, <1>6, <1>7 DEF size
      <3>2. \A i \in 1 .. Len(bytes) : broken[i] = bytes[i]
        BY <1>9 DEF size
      <3>3. \A i \in 1 .. Len(hurt) : broken[Len(bytes) + i] = hurt[i]
        BY <1>4, <1>10 DEF size
      <3> QED BY <1>4, <1>7, <3>1, <3>2, <3>3, JoinedIs
    <2> QED BY <1>5, <2>1
  <1>12. Len(torn) = Len(tail)
    BY <1>3, <1>4, <1>5
  <1>13. SUFFICES ASSUME verify_dfu_suffix(broken, asked) = "OK" PROVE FALSE
    BY DEF broken, file
  <1>14. /\ FromBytes(SubSeq(torn, 1, 4)) = checksum(bytes)
         /\ torn[5] = suffix_length
         /\ SubSeq(torn, 6, 8) = DFU_SIGNATURE
         /\ FromBytes(SubSeq(torn, 9, 10)) = DFU_BCD
    <2>1. Len(torn) = SUFFIX_BYTES
      BY <1>1, <1>12
    <2>2. torn \in Seq(Word(8))
      BY <1>5
    <2>3. verify_dfu_suffix(broken, asked) = "OK"
            <=> /\ FromBytes(SubSeq(torn, 1, 4)) = checksum(bytes)
                /\ torn[5] = suffix_length
                /\ SubSeq(torn, 6, 8) = DFU_SIGNATURE
                /\ FromBytes(SubSeq(torn, 9, 10)) = DFU_BCD
                /\ Matches(FromBytes(SubSeq(torn, 11, 12)), asked.vendor)
                /\ Matches(FromBytes(SubSeq(torn, 13, 14)), asked.product)
                /\ Matches(FromBytes(SubSeq(torn, 15, 16)), asked.bcd)
      BY <1>11, <2>1, <2>2, VerifierReads
    <2> QED BY <1>13, <2>3, Zenon
  <1>15. \A j \in 1 .. 10 : torn[j] = tail[j]
    <2>1. Len(tail) >= 16
      BY <1>1 DEF SUFFIX_BYTES
    <2>2. /\ FromBytes(SubSeq(torn, 1, 4)) = FromBytes(SubSeq(tail, 1, 4))
          /\ torn[5] = tail[5]
          /\ SubSeq(torn, 6, 8) = SubSeq(tail, 6, 8)
          /\ FromBytes(SubSeq(torn, 9, 10)) = FromBytes(SubSeq(tail, 9, 10))
      BY <1>1, <1>14
    <2> QED BY <1>1, <1>5, <1>12, <2>1, <2>2, TailTells
  <1>16. PICK i \in 1 .. span : damage[i] # {}
    BY <1>2
  <1> DEFINE k == place + i - 1
             m == Len(tail)
             j == m - k + 1
  <1>17. m = 16
    BY <1>1 DEF SUFFIX_BYTES
  <1>18. damage[i] \in Word(8)
    OBVIOUS
  <1> HIDE DEF span, m
  <1>19. Len(file) = size + m
    BY <1>3, <1>6 DEF m
  <1>20. /\ k \in 1 .. m /\ k >= place /\ k < place + span /\ k - place + 1 = i
         /\ j \in 1 .. 10 /\ j \in 1 .. m /\ m - j + 1 = k
    BY <1>2, <1>16, <1>17, <1>19
  <1> HIDE DEF j, k
  <1>21. hurt[k] = Xor(behind[k], damage[i]) /\ behind[k] \in Word(8)
    <2>1. m = Len(behind) /\ k \in 1 .. Len(behind)
      BY <1>3, <1>20 DEF m
    <2>2. hurt[k] = Xor(behind[k], damage[i])
      BY <1>4, <1>20, <2>1
    <2> QED BY <1>3, <2>1, <2>2
  <1>22. hurt[k] # behind[k]
    BY <1>16, <1>18, <1>21, Turned
  <1>23. torn[j] = hurt[k]
    <2>1. m = Len(hurt)
      BY <1>3, <1>4 DEF m
    <2> QED BY <1>5, <1>20, <2>1
  <1>24. behind[k] = tail[j]
    <2>1. m - k + 1 = j
      BY DEF j
    <2> QED BY <1>3, <1>20, <2>1 DEF m
  <1> QED BY <1>15, <1>20, <1>22, <1>23, <1>24

\* Damage of up to four bytes in a row outside the ids is found.
LEMMA DamageTold ==
    ASSUME NEW bytes \in Seq(Word(8)), NEW first \in Nat \ {0}, NEW damage \in Seq(Word(8)),
           Len(damage) <= 4
    PROVE  DamageIsFound(bytes, first, damage)
  <1> DEFINE ids == [vendor |-> {1}, product |-> {2}, bcd |-> IGNORE_ID]
             file == WithSuffix(bytes, ids)
             broken == Damaged(file, first, damage)
             last == first + Len(damage) - 1
  <1>1. ids \in Ids
    <2>1. {1} \in Word(16) /\ {2} \in Word(16) /\ IGNORE_ID \in Word(16)
      BY DEF Word, Ones, IGNORE_ID
    <2> QED BY <2>1 DEF Ids
  <1> SUFFICES ASSUME last <= Len(bytes) \/ (first > Len(bytes) + 6 /\ last <= Len(file)),
                      \E i \in DOMAIN damage : damage[i] # {}
               PROVE  boot_length(File(broken)) = 0
    BY Zenon DEF DamageIsFound
  <1> HIDE DEF ids
  <1>0. \E i \in 1 .. Len(damage) : damage[i] # {}
    OBVIOUS
  <1>2. verify_dfu_suffix(broken, AnyDevice) # "OK"
    <2>1. CASE last <= Len(bytes)
      BY <1>0, <1>1, <2>1, ImageDamageFound
    <2>2. CASE first > Len(bytes) + 6 /\ last <= Len(file)
      BY <1>0, <1>1, <2>2, SuffixDamageFound
    <2> QED BY <2>1, <2>2
  <1> HIDE DEF broken
  <1> QED BY <1>2 DEF boot_length, File

-----------------------------------------------------------------------------
(* The specification.                                                      *)

\* What is picked is an input of the algorithm.
Picked ==
    /\ algorithm = "generate" =>
         input \in Payloads \X Numbers \X Numbers \X DeviceIds \X DeviceIds
    /\ algorithm = "damage" =>
         input \in UNION { {bytes} \X (1 .. Len(bytes) + SUFFIX_BYTES) \X Damages : bytes \in Payloads }
    /\ algorithm = "blocks" => input \in ImageLengths \X BlockSizes
    /\ algorithm = "ids" => input \in Texts \X ToolOptions \X {0, 1}
    /\ algorithm = "devices" => input \in Buses \X WantedIds
    /\ algorithm = "delay" => input \in (0 .. TimerRange - 1) \X Delays
    /\ algorithm = "nodes" =>
         input \in UNION { {tiles} \X (0 .. tiles - 1) : tiles \in TileCounts }

\* Nothing but an input of its own is ever given to an algorithm.
THEOREM InputsFit == Spec => []Picked
  <1>1. Init => Picked
    BY DEF Init, Picked
  <1>2. Picked /\ [Next]_<<algorithm, input>> => Picked'
    BY DEF Picked, Next, Pick
  <1> QED BY <1>1, <1>2, PTL DEF Spec

\* Block numbers do not go round, for images and blocks of any size.
THEOREM NumbersDiffer == Spec => []BlockNumbersDiffer
  <1>1. Picked => BlockNumbersDiffer
    <2> SUFFICES ASSUME Picked, algorithm = "blocks"
                 PROVE  BlocksAreTold(input[1], input[2])
      BY DEF BlockNumbersDiffer
    <2>1. input[1] \in Nat /\ input[2] \in Nat
      BY InputAssumption DEF Picked, InputAssumption
    <2> QED BY <2>1, BlocksTold
  <1> QED BY <1>1, InputsFit, PTL

\* The answer is given the time that was asked for, for any timer and delay.
THEOREM TimeIsGiven == Spec => []RebootDelayKept
  <1>1. Picked => RebootDelayKept
    <2> SUFFICES ASSUME Picked, algorithm = "delay"
                 PROVE  DelayIsKept(input[1], input[2])
      BY DEF RebootDelayKept
    <2>1. input[1] \in 0 .. TimerRange - 1 /\ input[2] \in Int
      BY InputAssumption DEF Picked, InputAssumption
    <2>2. CASE input[2] \in Nat
      BY <2>1, <2>2, DelayKept
    <2>3. CASE input[2] < 0
      BY <2>1, <2>3 DEF DelayIsKept
    <2> QED BY <2>1, <2>2, <2>3
  <1> QED BY <1>1, InputsFit, PTL

\* No node is left out of a reboot, for devices of any size.
THEOREM NodesReached == Spec => []RebootReachesNodes
  <1>1. Picked => RebootReachesNodes
    <2> SUFFICES ASSUME Picked, algorithm = "nodes"
                 PROVE  EveryNodeOnce(input[1], input[2])
      BY DEF RebootReachesNodes
    <2>1. PICK tiles \in TileCounts : input \in {tiles} \X (0 .. tiles - 1)
      BY DEF Picked
    <2>2. tiles \in Nat \ {0} /\ input[1] = tiles /\ input[2] \in 0 .. tiles - 1
      BY <2>1, InputAssumption DEF InputAssumption
    <2> QED BY <2>2, NodesReset
  <1> QED BY <1>1, InputsFit, PTL

\* The verifier accepts what the generator writes, and the tool loads the whole
\* image and no more, for images and ids of any value.
THEOREM RoundTrip == Spec => []SuffixRoundTrip
  <1>1. Picked => SuffixRoundTrip
    <2> SUFFICES ASSUME Picked, algorithm = "generate", NEW last \in {<<>>, <<input[3]>>}
                 PROVE  GeneratedIsAccepted(<<input[2], {1}>> \o last, input[1],
                            [vendor |-> input[4], product |-> {1}, bcd |-> input[5]])
      BY DEF SuffixRoundTrip
    <2>1. input[1] \in Seq(Word(8))
      BY InputAssumption DEF Picked, InputAssumption
    <2> QED BY <2>1, SuffixAccepted
  <1> QED BY <1>1, InputsFit, PTL

\* No damage of up to four bytes in a row outside the ids goes unnoticed, in files
\* with images of any size and content.
THEOREM DamageIsTold == Spec => []SuffixFindsDamage
  <1>1. Picked => SuffixFindsDamage
    <2> SUFFICES ASSUME Picked, algorithm = "damage"
                 PROVE  DamageIsFound(input[1], input[2], input[3])
      BY DEF SuffixFindsDamage
    <2>1. PICK bytes \in Payloads :
            input \in {bytes} \X (1 .. Len(bytes) + SUFFIX_BYTES) \X Damages
      BY DEF Picked
    <2>2. bytes \in Seq(Word(8))
      BY InputAssumption DEF InputAssumption
    <2>3. /\ input[1] = bytes
          /\ input[2] \in Nat \ {0}
          /\ input[3] \in Damages
      <3>1. Len(bytes) + SUFFIX_BYTES \in Nat
        BY <2>2 DEF SUFFIX_BYTES
      <3> QED BY <2>1, <3>1
    <2>4. input[3] \in Seq(Word(8)) /\ Len(input[3]) <= 4
      BY <2>3, InputAssumption DEF InputAssumption
    <2> QED BY <2>2, <2>3, <2>4, DamageTold
  <1> QED BY <1>1, InputsFit, PTL

\* xmosdfu finds the device it has detached, on buses of any size.
THEOREM DeviceIsFound == Spec => []SameDeviceFound
  <1>1. Picked => SameDeviceFound
    <2> SUFFICES ASSUME Picked, algorithm = "devices"
                 PROVE  FindsTheSame(input[1], input[2])
      BY DEF SameDeviceFound
    <2> DEFINE bus == input[1]
    <2>1. bus \in Seq(ToSet(bus))
      BY InputAssumption DEF Picked, InputAssumption
    <2>2. Len(bus) \in Nat /\ DOMAIN bus = 1 .. Len(bus)
          /\ bus = [d \in 1 .. Len(bus) |-> bus[d]]
      <3> HIDE DEF bus
      <3> QED BY <2>1
    <2>3. input[2].match_vendor_dfu \in Int /\ input[2].match_product_dfu \in Int
      <3>1. input[2] \in WantedIds
        BY DEF Picked
      <3> QED BY <3>1, InputAssumption DEF InputAssumption
    <2> QED BY <2>2, <2>3, SameFound
  <1> QED BY <1>1, InputsFit, PTL

\* xmosdfu goes on with the ids its user wrote, for texts of any characters.
THEOREM IdsAreKept == Spec => []IdsAreThoseGiven
  <1>1. Picked => IdsAreThoseGiven
    <2> SUFFICES ASSUME Picked, algorithm = "ids"
                 PROVE  IdsAgree(input[1], input[2], input[3])
      BY DEF IdsAreThoseGiven
    <2>1. input[1] \in Seq(ToSet(input[1]))
      BY InputAssumption DEF Picked, InputAssumption
    <2> QED BY <2>1, IdsFit
  <1> QED BY <1>1, InputsFit, PTL
=============================================================================
