-------------------------------- MODULE Fcyc --------------------------------
(***************************************************************************)
(* fcyc.c: the K-best scheme.  A function is measured until its K smallest *)
(* measurements lie within epsilon of each other, or MAXSAMPLES times.     *)
(* epsilon is EpsNum / EpsDen.                                             *)
(***************************************************************************)
EXTENDS Clock, FiniteSets

CONSTANTS Work,           \* cycles one run of f may take
          Settings,       \* what the set_fcyc_ functions may have left
          EpsNum, EpsDen

ASSUME FcycAssumption ==
    /\ Work \subseteq Nat \ {0} /\ EpsNum \in Nat /\ EpsDen \in Nat \ {0}
    /\ \A s \in Settings : s.kbest \in Nat \ {0} /\ s.maxsamples \in Nat

VARIABLES set,      \* [kbest, maxsamples, compensate, clear_cache]
          values,   \* the samples kept: values[0 .. min(samplecount, kbest)-1]
          samplecount,
          cache_buf,
          reading,  \* what get_counter returned, with own and inside then
          taken,    \* every sample of this call (history)
          result

fcycvars == <<set, values, samplecount, cache_buf, reading, taken, result>>
NoReading == [time |-> 0, own |-> 0, inside |-> 0]

FcycInit ==
    /\ set \in Settings /\ values = <<>> /\ samplecount = 0
    /\ cache_buf = FALSE /\ reading = NoReading /\ taken = <<>> /\ result = 0

-----------------------------------------------------------------------------
(* The insertion sort moves a new last value v of a sorted table down past *)
(* the values above it, each of which moves up by one place.               *)
Sorted(s, v) ==
    [j \in 1 .. Len(s) + 1 |->
       IF j <= Len(s) /\ s[j] <= v THEN s[j]
       ELSE IF j > 1 /\ s[j - 1] > v THEN s[j - 1] ELSE v]

(* Mutant of add_sample: one value more than the table has room for.       *)
add_sampleOneMore(s, n, v) ==
    CASE n <= set.kbest                      -> Sorted(s, v)
      [] n > set.kbest /\ v < s[set.kbest]   -> Sorted(SubSeq(s, 1, set.kbest - 1), v)
      [] n > set.kbest /\ v >= s[set.kbest]  -> s

(* Mutant of add_sample: a value that replaces the last stays there.       *)
add_sampleUnsorted(s, n, v) ==
    CASE n < set.kbest                       -> Sorted(s, v)
      [] n >= set.kbest /\ v < s[set.kbest]  -> [s EXCEPT ![set.kbest] = v]
      [] n >= set.kbest /\ v >= s[set.kbest] -> s

add_sample(s, n, v) ==
    CASE n < set.kbest                       -> Sorted(s, v)
      [] n >= set.kbest /\ v < s[set.kbest]  -> Sorted(SubSeq(s, 1, set.kbest - 1), v)
      [] n >= set.kbest /\ v >= s[set.kbest] -> s

has_converged(s, n) ==
    n >= set.kbest /\ (EpsDen + EpsNum) * s[1] >= EpsDen * s[set.kbest]

GoesOn(s, n) == ~has_converged(s, n) /\ n < set.maxsamples

-----------------------------------------------------------------------------
(* One turn of either do loop.  clear allocates its buffer once; the       *)
(* reading of it takes time only.                                          *)
BeforeRun ==
    /\ pc = "sample"
    /\ cache_buf' = (cache_buf \/ set.clear_cache)
    /\ pc' = CASE ~set.compensate                     -> "start"
               [] set.compensate /\ cyc_per_tick = 0  -> "callibrate"
               [] set.compensate /\ cyc_per_tick # 0  -> "comp times"
    /\ Idle(ticks)
    /\ UNCHANGED <<cpu, cost, cyc, cyc_per_tick, oldt, newt, e,
                   set, values, samplecount, reading, taken, result>>

Start ==
    /\ pc = "start" /\ HasCounter /\ pc' = "run"
    /\ start_counter
    /\ UNCHANGED <<cpu, cost, cyc_per_tick, oldt, newt, e, fcycvars>>

RunF ==
    /\ pc = "run" /\ pc' = "stop"
    /\ \E w \in Work : Pass(w, ticks, own, inside)
    /\ UNCHANGED <<cpu, cost, cyc, cyc_per_tick, oldt, newt, e, fcycvars>>

GetCounter ==
    /\ pc = "stop" /\ pc' = "got"
    /\ reading' = [time |-> get_counter, own |-> own, inside |-> inside]
    /\ Idle(ticks)
    /\ UNCHANGED <<cpu, cost, cyc, cyc_per_tick, oldt, newt, e,
                   set, values, samplecount, cache_buf, taken, result>>

AddSample ==
    LET v == IF set.compensate THEN Compensated(reading.time) ELSE reading.time IN
    /\ pc = "got"
    /\ values' = add_sample(values, samplecount, v)
    /\ samplecount' = samplecount + 1
    /\ taken' = Append(taken, v)
    /\ pc' = IF GoesOn(values', samplecount') THEN "sample" ELSE "return"
    /\ reading' = NoReading
    /\ Idle(ticks)
    /\ UNCHANGED <<cpu, cost, cyc, cyc_per_tick, oldt, newt, e,
                   set, cache_buf, result>>

(* Before C exits where the platform has no counter.                       *)
NoCounter ==
    /\ pc \in {"cal start", "start"} /\ ~HasCounter /\ pc' = "exit"
    /\ UNCHANGED <<clock, fcycvars>>

Sampling == BeforeRun \/ Start \/ RunF \/ GetCounter \/ AddSample \/ NoCounter

-----------------------------------------------------------------------------
Least(m, n) == IF m <= n THEN m ELSE n

(* The result is the least of all samples of this call; fcyc stops before  *)
(* maxsamples only when kbest of them are within epsilon of it (fcyc.c,    *)
(* fcyc and the table of add_sample).                                      *)
ReturnsTheBest ==
    pc = "idle" /\ taken # <<>> =>
      /\ \E j \in DOMAIN taken : taken[j] = result
      /\ \A j \in DOMAIN taken : taken[j] >= result
      /\ Len(taken) <= set.maxsamples \/ Len(taken) = 1
      /\ Len(taken) < set.maxsamples =>
           Cardinality({j \in DOMAIN taken : EpsDen * taken[j] <= (EpsDen + EpsNum) * result})
             >= set.kbest

=============================================================================
