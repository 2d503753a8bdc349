------------------------------- MODULE Clock -------------------------------
(***************************************************************************)
(* clock.c: a cycle counter read in two halves, and the compensation for   *)
(* timer interrupts, calibrated by polling the counter.                    *)
(*                                                                         *)
(* Every action does its work at now and then lets a cycle pass, a turn of *)
(* the polling loop some of Delays; so the program can be interrupted      *)
(* between any two of them, the counter and times() included.              *)
(* A timer interrupt comes after every Slice cycles of the program, takes  *)
(* cost cycles and is charged to tms_utime.                                *)
(*                                                                         *)
(* tms_utime is only ever compared with the value kept last (oldc, later   *)
(* start_tick): ticks is the difference.                                   *)
(***************************************************************************)
EXTENDS Integers, Sequences

CONSTANTS Half,          \* 2^32, the values of one half of the counter
          Slice, Costs,  \* of the timer interrupts
          Delays,        \* cycles between two readings of the polling loop
          NEVENT, THRESHOLD, RECORDTHRESH,
          Starts         \* what the counter may hold when the program starts

ASSUME ClockAssumption ==
    /\ {Half, Slice, NEVENT, THRESHOLD, RECORDTHRESH} \subseteq Nat \ {0}
    /\ Costs \subseteq Nat \ {0} /\ Delays \subseteq Nat \ {0}
    /\ Starts \subseteq 0 .. Half * Half - 1

VARIABLES cpu,           \* the version compiled: "i386", "alpha" or another
          now,           \* the processor's counter
          phase,         \* cycles of the program since the last interrupt
          cost,          \* of an interrupt on this machine
          ticks,         \* tms_utime less the value kept
          cyc,           \* cyc_hi and cyc_lo
          cyc_per_tick,
          oldt, newt, e, \* of callibrate
          own, inside,   \* cycles of the program and interrupts since
                         \* start_counter (history)
          pc

counter == <<now, phase, ticks, own, inside>>
clock   == <<cpu, cost, counter, cyc, cyc_per_tick, oldt, newt, e>>

ClockInit ==
    /\ cpu \in {"i386", "alpha", "sparc"} /\ cost \in Costs /\ now \in Starts
    /\ phase = 0 /\ ticks = 0 /\ own = 0 /\ inside = 0
    /\ cyc = [hi |-> 0, lo |-> 0] /\ cyc_per_tick = 0
    /\ oldt = 0 /\ newt = 0 /\ e = 0

(* d cycles of the program, with the interrupts that come due, added to    *)
(* the ticks t and to the o cycles and i interrupts since start_counter.   *)
Pass(d, t, o, i) ==
    LET n == (phase + d) \div Slice IN
    /\ now' = (now + d + n * cost) % (Half * Half)
    /\ phase' = (phase + d) % Slice
    /\ ticks' = t + n /\ own' = o + d /\ inside' = i + n

Delay(t) == Pass(1, t, own, inside)

(* The history is not kept while nothing is being timed.                   *)
Idle(t) == Pass(1, t, 0, 0)

-----------------------------------------------------------------------------
(* On an Alpha the upper half is left at 0.                                *)
access_counter == [hi |-> IF cpu = "alpha" THEN 0 ELSE now \div Half,
                   lo |-> now % Half]

(* Mutant of Difference: the halves are subtracted without the borrow.     *)
DifferenceNoBorrow(n) ==
    (((n.hi - cyc.hi) % Half) * Half) + ((n.lo - cyc.lo) % Half)

Difference(n) ==
    LET lo     == (n.lo - cyc.lo) % Half
        borrow == IF lo > n.lo THEN 1 ELSE 0
    IN  (((n.hi - cyc.hi - borrow) % Half) * Half) + lo

get_counter == Difference(access_counter)

(* Without a counter both functions exit.                                  *)
HasCounter == cpu \in {"i386", "alpha"}

start_counter ==
    /\ cyc' = access_counter
    /\ Idle(ticks)

-----------------------------------------------------------------------------
(* callibrate, one action for each look at tms_utime or the counter.       *)
CalTimes ==
    /\ pc = "callibrate" /\ pc' = "cal start"
    /\ Idle(0)
    /\ UNCHANGED <<cpu, cost, cyc, cyc_per_tick, oldt, newt, e>>

CalStart ==
    /\ pc = "cal start" /\ HasCounter /\ pc' = "cal first"
    /\ start_counter
    /\ UNCHANGED <<cpu, cost, cyc_per_tick, oldt, newt, e>>

CalFirst ==
    /\ pc = "cal first" /\ pc' = "poll"
    /\ oldt' = get_counter /\ e' = 0
    /\ Delay(ticks)
    /\ UNCHANGED <<cpu, cost, cyc, cyc_per_tick, newt>>

Poll ==
    /\ pc = "poll" /\ e < NEVENT
    /\ newt' = get_counter
    /\ pc' = IF newt' - oldt >= THRESHOLD THEN "event" ELSE "poll"
    /\ \E d \in Delays : Pass(d, ticks, own, inside)
    /\ UNCHANGED <<cpu, cost, cyc, cyc_per_tick, oldt, e>>

(* Mutant of Cheaper: short events count.                                  *)
CheaperAny(cpt) == cyc_per_tick = 0 \/ cyc_per_tick > cpt

Cheaper(cpt) == (cyc_per_tick = 0 \/ cyc_per_tick > cpt) /\ cpt > RECORDTHRESH

(* Without a tick only oldt moves; oldt stays during shorter gaps.         *)
Event ==
    LET cpt == (newt - oldt) \div ticks IN
    /\ pc = "event" /\ pc' = "poll"
    /\ oldt' = newt
    /\ e' = IF ticks > 0 THEN e + 1 ELSE e
    /\ cyc_per_tick' = IF ticks > 0 /\ Cheaper(cpt) THEN cpt ELSE cyc_per_tick
    /\ Delay(0)
    /\ UNCHANGED <<cpu, cost, cyc, newt>>

(* Mutant of CalEnd: it tries again until something is recorded.           *)
CalEndAgain ==
    /\ pc = "poll" /\ e = NEVENT
    /\ pc' = IF cyc_per_tick = 0 THEN "callibrate" ELSE "comp times"
    /\ oldt' = 0 /\ newt' = 0 /\ e' = 0
    /\ UNCHANGED <<cpu, cost, counter, cyc, cyc_per_tick>>

CalEnd ==
    /\ pc = "poll" /\ e = NEVENT /\ pc' = "comp times"
    /\ oldt' = 0 /\ newt' = 0 /\ e' = 0
    /\ UNCHANGED <<cpu, cost, counter, cyc, cyc_per_tick>>

(* Mutant of CompTimes: the first start_tick is kept.                      *)
CompTimesStale ==
    /\ pc = "comp times" /\ pc' = "start"
    /\ Idle(ticks)
    /\ UNCHANGED <<cpu, cost, cyc, cyc_per_tick, oldt, newt, e>>

(* times() in start_comp_counter.                                          *)
CompTimes ==
    /\ pc = "comp times" /\ pc' = "start"
    /\ Idle(0)
    /\ UNCHANGED <<cpu, cost, cyc, cyc_per_tick, oldt, newt, e>>

Calibration == CalTimes \/ CalStart \/ CalFirst \/ Poll \/ Event \/ CalEnd \/ CompTimes

(* What get_comp_counter makes of a reading and the ticks of that moment.  *)
Compensated(time) == time - ticks * cyc_per_tick

-----------------------------------------------------------------------------
Started == pc \in {"cal first", "poll", "event", "run", "stop"}

(* The counter, subtracted half by half, tells the cycles since            *)
(* start_counter although its lower half overflows, and the whole one too, *)
(* up to what both halves can hold; on an Alpha, which has the lower half  *)
(* only, as long as that half does not overflow in between (clock.c,       *)
(* get_counter).                                                           *)
CounterIsElapsed ==
    Started /\ HasCounter /\ (cpu = "alpha" => now % Half = cyc.lo + own + inside * cost) =>
      get_counter = (own + inside * cost) % (Half * Half)

Longest == CHOOSE d \in Delays : \A x \in Delays : x <= d

(* What callibrate relies on: interrupts are farther apart than the events *)
(* it looks for, a gap without an interrupt is too short to be recorded,   *)
(* and a counter that has gone around saw so many of them that no ratio is *)
(* recorded either.                                                        *)
PollingResolves ==
    /\ Longest \in Delays /\ \A d \in Delays : d <= Longest
    /\ THRESHOLD > 1
    /\ THRESHOLD + 2 * Longest < Slice
    /\ THRESHOLD + Longest <= RECORDTHRESH + 1
    /\ \A c \in Costs : THRESHOLD + Longest + c
                         <= RECORDTHRESH * ((Half * Half) \div (Slice + c) - 1)

(* All the events that callibrate waits for come before the lower half has *)
(* counted a whole round.                                                  *)
CalibrationFits == \A c \in Costs : (NEVENT + 1) * (Slice + c) < Half

(* A recorded cyc_per_tick is never below what an interrupt costs, although*)
(* an interrupt may come between the counter and times(), and is above it  *)
(* by no more than one gap the polling leaves (clock.c, callibrate).       *)
CalibrationCoversTick ==
    cpu = "i386" /\ cyc_per_tick # 0 =>
      cyc_per_tick \in cost .. cost + THRESHOLD + 2 * Longest

=============================================================================
