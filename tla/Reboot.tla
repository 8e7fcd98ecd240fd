------------------------------- MODULE Reboot -------------------------------
(***************************************************************************)
(* The last steps of a reboot: the delay that lets the answer reach the    *)
(* host (dfu_reboot.c, dfu_delay_raw) and the order in which the nodes are *)
(* reset (device_internal_reboot).  Time and tiles are numbers.            *)
(***************************************************************************)
EXTENDS Integers

CONSTANTS
    TimerRange,      \* 2^32: the timer and an unsigned go round at it
    XS1_TIMER_KHZ    \* ticks of the timer in a millisecond

ASSUME TimerAssumption ==
    /\ TimerRange \in Nat \ {0} /\ TimerRange % 2 = 0
    /\ XS1_TIMER_KHZ \in Nat \ {0}

UINT32_MAX == TimerRange - 1

-----------------------------------------------------------------------------
(* The delay.                                                              *)

\* What dfu_delay_raw is called with, 0 standing for no call.  A delay is cut to
\* what fits an unsigned in ticks.
ticks(delay_ms) ==
    LET most      == UINT32_MAX \div XS1_TIMER_KHZ
        udelay_ms == IF delay_ms > most THEN most ELSE delay_ms
    IN  IF delay_ms > 0 THEN (udelay_ms * XS1_TIMER_KHZ) % TimerRange ELSE 0

\* timerafter (external): the difference, as a signed number, is above 0.
timerafter(now, time) ==
    (now - time) % TimerRange \in 1 .. TimerRange \div 2 - 1

\* Mutant: the times are compared as they are.
delay_raw_unsigned(s, d, now) == now > (s + d) % TimerRange

\* The wait of d ticks that started at s is over at now.
dfu_delay_raw(s, d, now) == timerafter(now, (s + d) % TimerRange)

-----------------------------------------------------------------------------
(* The nodes.  tile[t] of 0 .. tiles - 1 is on the node of tile[t | 1].    *)

OnNodeOf(t, u) == t \div 2 = u \div 2

\* The i-th tile the loop looks at.
LoopTile(tiles, i) == tiles - 2 * i

\* Mutant: one step short of the first tile.
Remote_short(tiles, localTile) ==
    { i \in 1 .. tiles \div 2 : LoopTile(tiles, i) > 0
                                /\ ~OnNodeOf(LoopTile(tiles, i), localTile) }

\* The iterations that reset the tile they look at: that of another node.
Remote(tiles, localTile) ==
    { i \in 1 .. tiles \div 2 : ~OnNodeOf(LoopTile(tiles, i), localTile) }

\* The tiles that are reset, in order of time; the local one is last, and nothing
\* runs after it.
device_internal_reboot(tiles, localTile) ==
    { [at |-> i, tile |-> LoopTile(tiles, i)] : i \in Remote(tiles, localTile) }
    \cup {[at |-> tiles \div 2 + 1, tile |-> localTile]}

-----------------------------------------------------------------------------
(* Properties.                                                             *)

\* A delay up to half the range of the timer is kept whatever the timer shows: for
\* as long as asked the wait is not over, and it is over at the tick after.  A
\* longer one, which the limit lets through, would be over at once
\* (dfu_reboot.c:27-31).
DelayIsKept(s, delay_ms) ==
    delay_ms > 0 /\ 2 * delay_ms * XS1_TIMER_KHZ < TimerRange =>
        LET wanted == delay_ms * XS1_TIMER_KHZ
        IN  /\ \A t \in 0 .. wanted :
                  ~dfu_delay_raw(s, ticks(delay_ms), (s + t) % TimerRange)
            /\ dfu_delay_raw(s, ticks(delay_ms), (s + wanted + 1) % TimerRange)

\* On a device of two tiles a node every node is reset, once, and the one that
\* runs the code last.
EveryNodeOnce(tiles, localTile) ==
    LET resets == device_internal_reboot(tiles, localTile)
    IN  tiles % 2 = 0 =>
        /\ \A t \in 0 .. tiles - 1 : \E r \in resets : OnNodeOf(r.tile, t)
        /\ \A r, q \in resets : OnNodeOf(r.tile, q.tile) => r = q
        /\ \A r \in resets : OnNodeOf(r.tile, localTile)
                                => \A q \in resets : q.at <= r.at
=============================================================================
