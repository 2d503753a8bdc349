------------------------------- MODULE Fsecs -------------------------------
(***************************************************************************)
(* fsecs.c and ftimer.c: the running time of a function by the method that *)
(* config.h selects.  FCYC goes through Fcyc; ITIMER and GETTOD time Runs  *)
(* runs together, on a clock of their own: the time of day, which somebody *)
(* may set in between, or the three interval timers, which end the process *)
(* when they run down.  Seconds hold Usec microseconds.                    *)
(***************************************************************************)
EXTENDS Fcyc

CONSTANTS Runs,       \* 10, the last argument of the ftimer functions
          Usec,       \* 10^6
          MAX_ETIME,  \* seconds
          Adjust,     \* by how much the clock may be set
          MaxCalls    \* bound on the calls of fsecs

ASSUME FsecsAssumption ==
    /\ {Runs, Usec, MAX_ETIME} \subseteq Nat \ {0} /\ MaxCalls \in Nat
    /\ Adjust \subseteq Int

VARIABLES method,  \* the USE_ constant that is 1
          tod,     \* the time of day, in microseconds
          left,    \* what the running timers have left
          stv,     \* [sec, usec] at the start
          i,       \* runs done
          spent,   \* microseconds they took (history)
          moved,   \* by how much the clock was set since stv (history)
          calls

timer == <<method, tod, left, stv, i, spent, moved, calls>>
vars  == <<pc, clock, fcycvars, timer>>

Init ==
    /\ ClockInit /\ FcycInit
    /\ method \in {"FCYC", "ITIMER", "GETTOD"}
    /\ tod = Usec + (now % Usec)
    /\ left = 0 /\ stv = [sec |-> 0, usec |-> 0]
    /\ i = 0 /\ spent = 0 /\ moved = 0 /\ calls = 0
    /\ pc = "idle"

-----------------------------------------------------------------------------
Value(us) == [sec |-> us \div Usec, usec |-> us % Usec]

(* Mutant of Between: the seconds are forgotten.                           *)
BetweenUsec(first, last) == last.usec - first.usec

(* tv_sec and tv_usec are subtracted apart, in ITIMER from the first value.*)
Between(first, last) == Usec * (last.sec - first.sec) + (last.usec - first.usec)

(* fsecs, and init_sampler, init_etime or the first gettimeofday.          *)
Fsecs ==
    /\ pc = "idle" /\ calls < MaxCalls /\ calls' = calls + 1
    /\ pc' = CASE method = "FCYC" -> "sample" [] method # "FCYC" -> "time"
    /\ values' = <<>> /\ samplecount' = 0 /\ taken' = <<>>
    /\ left' = Usec * MAX_ETIME
    /\ stv' = IF method = "ITIMER" THEN Value(left') ELSE Value(tod)
    /\ i' = 0 /\ spent' = 0 /\ moved' = 0
    /\ UNCHANGED <<clock, set, cache_buf, reading, result, method, tod>>

(* The first of the two timers of the process's own time cannot run down   *)
(* before the real one does: SIGALRM.                                      *)
OneRun ==
    /\ pc = "time" /\ i < Runs
    /\ \E w \in Work :
         /\ tod' = tod + w /\ spent' = spent + w /\ left' = left - w
         /\ pc' = IF method = "ITIMER" /\ left' <= 0 THEN "killed" ELSE "time"
    /\ i' = i + 1
    /\ UNCHANGED <<clock, fcycvars, method, stv, moved, calls>>

SetClock ==
    /\ pc = "time" /\ moved = 0
    /\ \E a \in Adjust : tod' = tod + a /\ moved' = a
    /\ UNCHANGED <<pc, clock, fcycvars, method, left, stv, i, spent, calls>>

(* The sum over the runs; both functions divide it by n.                   *)
Time ==
    /\ pc = "time" /\ i = Runs /\ pc' = "idle"
    /\ result' = IF method = "ITIMER" THEN Between(Value(left), stv)
                                      ELSE Between(stv, Value(tod))
    /\ UNCHANGED <<clock, set, values, samplecount, cache_buf, reading, taken, timer>>

(* fcyc frees values.                                                      *)
Return ==
    /\ pc = "return" /\ pc' = "idle"
    /\ result' = values[1]
    /\ values' = <<>>
    /\ UNCHANGED <<clock, set, samplecount, cache_buf, reading, taken, timer>>

Ended == (pc = "idle" /\ calls = MaxCalls) \/ pc \in {"exit", "killed"}

Done == Ended /\ UNCHANGED vars

Next ==
    \/ Calibration /\ UNCHANGED <<fcycvars, timer>>
    \/ Sampling /\ UNCHANGED timer
    \/ Fsecs \/ OneRun \/ SetClock \/ Time \/ Return \/ Done

Spec == Init /\ [][Next]_vars

(* The process is not stopped, and interrupts come as it runs.             *)
FairSpec == Spec /\ WF_vars(Next)

-----------------------------------------------------------------------------
TypeOK ==
    /\ cpu \in {"i386", "alpha", "sparc"} /\ cost \in Costs
    /\ now \in 0 .. Half * Half - 1 /\ phase \in 0 .. Slice - 1
    /\ {ticks, own, inside, cyc_per_tick, e, samplecount, i, calls} \subseteq Nat
    /\ {cyc.hi, cyc.lo} \subseteq 0 .. Half - 1
    /\ {oldt, newt} \subseteq 0 .. Half * Half - 1
    /\ set \in Settings /\ Len(values) = IF pc = "idle" THEN 0
                                         ELSE Least(samplecount, set.kbest)
    /\ cache_buf \in BOOLEAN
    /\ method \in {"FCYC", "ITIMER", "GETTOD"}
    /\ i <= Runs /\ calls <= MaxCalls

(* A compensated measurement is never more than what f itself has used.    *)
(* It is less by the error of cyc_per_tick for each interrupt, and by one  *)
(* whole cyc_per_tick for each interrupt between times() and the counter,  *)
(* before f and after it, whose cycles were never counted, unless f ran    *)
(* for more than the counter holds (clock.c, start_comp_counter and        *)
(* get_comp_counter).                                                      *)
NeverOvercharged ==
    pc = "got" /\ set.compensate /\ cpu = "i386" /\ cyc_per_tick # 0 =>
      LET least == reading.own - reading.inside * (cyc_per_tick - cost) IN
      /\ Compensated(reading.time) <= reading.own
      /\ reading.own + reading.inside * cost < Half * Half =>
           Compensated(reading.time) >= least - 2 * cyc_per_tick

(* gettimeofday and the interval timer give the sum of the runs exactly,   *)
(* whatever the seconds and microseconds overflow; only a clock that was   *)
(* set back makes it negative (ftimer.c).                                  *)
SecondsAreElapsed ==
    pc = "idle" /\ calls > 0 =>
      CASE method = "GETTOD" -> result = spent + moved
        [] method = "ITIMER" -> result = spent /\ result < Usec * MAX_ETIME
        [] method = "FCYC"   -> TRUE

(* Every call returns, calibration included, unless the process has ended; *)
(* on an Alpha, where a counter that starts again from a smaller value     *)
(* shows no event any more, if one round of it is long enough (fcyc.c, the *)
(* two loops; clock.c, callibrate).                                        *)
EveryCallReturns ==
    /\ pc # "idle"
    /\ cpu = "alpha" => CalibrationFits
    ~> pc \in {"idle", "exit", "killed"}

=============================================================================
