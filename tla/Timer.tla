------------------------------- MODULE Timer -------------------------------
(***************************************************************************)
(* devices/timer.c: the count of timer ticks, threads that sleep by        *)
(* yielding until enough ticks have passed, and the busy-waits for less    *)
(* than a tick.                                                            *)
(*                                                                         *)
(* ticks is 64 bits wide and the processor loads 32 of them at a time:     *)
(* below it has a high and a low half, each of HALF values.                *)
(***************************************************************************)
EXTENDS Integers

CONSTANTS
  HALF,         \* values of half of an int64_t, 2^32 in the code
  TIMER_FREQ,   \* ticks per second
  Sleepers,     \* threads
  NoSleeper,    \* no thread
  Times,        \* the times slept for: <<num, denom>>, num/denom seconds
  LoopsPerTick  \* busy_wait() loops that the processor does in a tick

ASSUME TimerAssumption ==
  /\ HALF \in Nat \ {0} /\ TIMER_FREQ \in Nat \ {0}
  /\ NoSleeper \notin Sleepers
  /\ LoopsPerTick \in Nat
  /\ \A s \in Times : s[1] \in Nat /\ s[2] \in Nat \ {0} /\ s[2] % 1000 = 0

\* loops_per_tick is an unsigned, and timer_calibrate() shifts it past the value
\* it settles on.
ASSUME LoopsFit == LoopsPerTick <= 2147483647

VARIABLES
  ticks,           \* [hi, lo]
  intr_off,        \* the thread that has interrupts off, or NoSleeper
  tpc,             \* tpc[t], where thread t is
  asked,           \* asked[t], the ticks it sleeps for
  half,            \* half[t], the half of ticks it has loaded
  start,           \* start[t], timer_sleep()'s start
  called,          \* history: called[t], the ticks when it called timer_sleep()
  early,           \* history: whether a sleep has ended too early
  loops_per_tick,
  loops            \* the loops of the last busy-wait, and its <<num, denom>>

timerVars == <<ticks, intr_off, tpc, asked, half, start, called, early, loops_per_tick, loops>>

Count(n) == n.hi * HALF + n.lo
Instant == [hi : 0 .. HALF - 1, lo : 0 .. HALF - 1]

TimerTypeOK ==
  /\ ticks \in Instant
  /\ intr_off \in Sleepers \cup {NoSleeper}
  /\ tpc \in [Sleepers -> {"awake", "start", "start_lo", "check", "check_lo"}]
  /\ asked \in [Sleepers -> Nat]
  /\ half \in [Sleepers -> 0 .. HALF - 1]
  /\ start \in [Sleepers -> Nat] /\ called \in [Sleepers -> Nat]
  /\ early \in BOOLEAN
  /\ loops_per_tick \in Nat

TimerInit ==
  /\ ticks = [hi |-> 0, lo |-> 0]
  /\ intr_off = NoSleeper
  /\ tpc = [t \in Sleepers |-> "awake"]
  /\ asked = [t \in Sleepers |-> 0]
  /\ half = [t \in Sleepers |-> 0]
  /\ start = [t \in Sleepers |-> 0] /\ called = [t \in Sleepers |-> 0]
  /\ early = FALSE
  /\ loops_per_tick = 0
  /\ loops = <<0, 0, 1>>

\* Thread t runs: with interrupts off no other does.
MayRun(t) == intr_off \in {NoSleeper, t}
-----------------------------------------------------------------------------
(* timer_calibrate() *)

\* A busy-wait that starts at a tick lasts longer than one: the processor is taken
\* to do the same number of loops in every tick.
too_many_loops(n) == n > LoopsPerTick

\* The largest power of two, from 2^10 on, that fits in a tick.  It is at most
\* 2^30 by LoopsFit, and no shift leaves the 32 bits of an unsigned:
\* ASSERT (loops_per_tick != 0) holds.
HighBit[n \in Nat] == IF too_many_loops(2 * n) THEN n ELSE HighBit[2 * n]

\* The next nine bits.  Each is tested with high_bit alone.
Refined(high_bit) ==
  LET Refine[b \in Nat] ==
        LET n == IF b = high_bit \div 2 THEN high_bit ELSE Refine[2 * b]
        IN  IF too_many_loops(high_bit + b) THEN n ELSE n + b
  IN  Refine[high_bit \div 512]

timer_calibrate ==
  /\ loops_per_tick = 0
  /\ loops_per_tick' = Refined(HighBit[1024])
  /\ UNCHANGED <<ticks, intr_off, tpc, asked, half, start, called, early, loops>>
-----------------------------------------------------------------------------
\* timer_interrupt(): one instruction's addition to the low half may carry.
timer_interrupt ==
  /\ intr_off = NoSleeper
  /\ ticks.lo < HALF - 1 \/ ticks.hi < HALF - 1
  /\ ticks' = IF ticks.lo < HALF - 1 THEN [ticks EXCEPT !.lo = @ + 1]
              ELSE [hi |-> ticks.hi + 1, lo |-> 0]
  /\ UNCHANGED <<intr_off, tpc, asked, half, start, called, early, loops_per_tick, loops>>

\* The loops of a busy-wait for num/denom seconds.
real_time_delay(num, denom) ==
  (((loops_per_tick * num) \div 1000) * TIMER_FREQ) \div (denom \div 1000)

\* real_time_sleep() of timer_msleep(), timer_usleep() and timer_nsleep():
\* timer_sleep(), or real_time_delay() for less than a tick.
real_time_sleep(t, num, denom) ==
  /\ MayRun(t) /\ tpc[t] = "awake" /\ loops_per_tick > 0
  /\ IF (num * TIMER_FREQ) \div denom > 0
     THEN /\ asked' = [asked EXCEPT ![t] = (num * TIMER_FREQ) \div denom]
          /\ called' = [called EXCEPT ![t] = Count(ticks)]
          /\ tpc' = [tpc EXCEPT ![t] = "start"]
          /\ UNCHANGED loops
     ELSE /\ loops' = <<real_time_delay(num, denom), num, denom>>
          /\ UNCHANGED <<asked, called, tpc>>
  /\ UNCHANGED <<ticks, intr_off, half, start, early, loops_per_tick>>

\* timer_mdelay(), timer_udelay() and timer_ndelay() of any time.
timer_delay(t, num, denom) ==
  /\ MayRun(t) /\ tpc[t] = "awake" /\ loops_per_tick > 0
  /\ loops' = <<real_time_delay(num, denom), num, denom>>
  /\ UNCHANGED <<ticks, intr_off, tpc, asked, half, start, called, early, loops_per_tick>>

\* timer_ticks() without intr_disable().
LoadHigh_on(t) ==
  /\ MayRun(t) /\ tpc[t] \in {"start", "check"}
  /\ half' = [half EXCEPT ![t] = ticks.hi]
  /\ tpc' = [tpc EXCEPT ![t] = IF @ = "start" THEN "start_lo" ELSE "check_lo"]
  /\ UNCHANGED <<intr_off, ticks, asked, start, called, early, loops_per_tick, loops>>

\* timer_ticks(): interrupts go off, and the halves are loaded one by one.
LoadHigh(t) ==
  /\ MayRun(t) /\ tpc[t] \in {"start", "check"}
  /\ intr_off' = t
  /\ half' = [half EXCEPT ![t] = ticks.hi]
  /\ tpc' = [tpc EXCEPT ![t] = IF @ = "start" THEN "start_lo" ELSE "check_lo"]
  /\ UNCHANGED <<ticks, asked, start, called, early, loops_per_tick, loops>>

\* The end of timer_ticks(), and what timer_sleep() does with the result: the
\* start, or another turn of its loop, which yields, or the return.
LoadLow(t) ==
  LET now == half[t] * HALF + ticks.lo IN
  /\ MayRun(t)
  /\ intr_off' = NoSleeper
  /\ \/ /\ tpc[t] = "start_lo"
        /\ start' = [start EXCEPT ![t] = now]
        /\ tpc' = [tpc EXCEPT ![t] = "check"]
        /\ UNCHANGED <<asked, called, early>>
     \/ /\ tpc[t] = "check_lo" /\ now - start[t] < asked[t]
        /\ tpc' = [tpc EXCEPT ![t] = "check"]
        /\ UNCHANGED <<start, asked, called, early>>
     \/ /\ tpc[t] = "check_lo" /\ now - start[t] >= asked[t]
        /\ tpc' = [tpc EXCEPT ![t] = "awake"]
        /\ early' = (early \/ Count(ticks) - called[t] < asked[t])
        /\ start' = [start EXCEPT ![t] = 0]
        /\ asked' = [asked EXCEPT ![t] = 0]
        /\ called' = [called EXCEPT ![t] = 0]
  /\ half' = [half EXCEPT ![t] = 0]
  /\ UNCHANGED <<ticks, loops_per_tick, loops>>

TimerNext ==
  \/ timer_calibrate \/ timer_interrupt
  \/ \E t \in Sleepers :
       \/ LoadHigh(t) \/ LoadLow(t)
       \/ \E s \in Times : real_time_sleep(t, s[1], s[2]) \/ timer_delay(t, s[1], s[2])

TimerSpec == TimerInit /\ [][TimerNext]_timerVars
-----------------------------------------------------------------------------
\* timer_sleep() returns only when as many ticks as asked for have passed
\* since the call, and its start is a tick count that there was: timer_ticks()
\* never returns halves of two counts.  The calibrated loops have the highest
\* bit of those that a tick takes.  A busy-wait is never longer than asked in
\* these loops, and shorter by no more than its two divisions round off.
SleepsLongEnough ==
  /\ TimerTypeOK
  /\ ~early
  /\ \A t \in Sleepers :
       tpc[t] \in {"check", "check_lo"} => called[t] <= start[t] /\ start[t] <= Count(ticks)
  /\ loops_per_tick > 0 /\ LoopsPerTick >= 1024 =>
       2 * loops_per_tick > LoopsPerTick /\ loops_per_tick < 2 * LoopsPerTick
  /\ LET wanted == loops_per_tick * TIMER_FREQ * loops[2] IN
       /\ loops[1] * loops[3] <= wanted
       /\ wanted < (loops[1] + 1) * loops[3] + 1000 * TIMER_FREQ
=============================================================================
