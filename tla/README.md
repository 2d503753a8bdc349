# A verification project for Jungle-Malloc_Benchmark

TLA+ models of the malloc lab (`benchmark_base/malloc-lab`) and of the scripts
that benchmark participants with it (`scripts`), TLC runs on small instances,
and TLAPS proofs about the allocator under its driver, the driver's range check, its
books and its three evaluations, its options and report, the timing functions, the way of
a trace and the scripts' run. Paths of C and
Perl files below are relative to `benchmark_base/malloc-lab`.

## 1. The system

| component | state | operations | talks to |
| --- | --- | --- | --- |
| `memlib.c` | one arena of `MAX_HEAP` bytes, `mem_brk` | `mem_sbrk`, `mem_reset_brk`, three queries | called by `mm.c`, reset by `mdriver.c` |
| `mm.c` | the words of the arena: boundary tags | `mm_init`, `mm_malloc`, `mm_free`, `mm_realloc` | `memlib.c` |
| `mdriver.c`, `eval_mm_valid` | range list, `trace->blocks`, `trace->block_sizes`, `errors` | one request of the trace at a time | `mm.c`, `memlib.c` |
| `mdriver.c`, `main` | current trace, `mm_stats`, the totals of `eval_mm_util` | read, check, measure twice, report | all of the above, `fsecs.c` |
| `mdriver.c`, options and report | `tracefiles`, `tracedir`, flags, the two tables | the switch of `getopt`, `printresults`, the index, the exits | `parse_mdriver_output` reads its output |
| `clock.c`, `fcyc.c` | `cyc_hi`/`cyc_lo`, `cyc_per_tick`, the K best samples | start and read the counter, calibrate, sample | the processor's counter, `times()` |
| `fsecs.c`, `ftimer.c` | the interval timers, the time of day | one of three ways to time a function | `fcyc.c` |
| `gen_*.pl`, `read_trace` | `trace->ops` and its sizes | write a trace, load one | `checktrace.pl` between the two |
| `traces/checktrace.pl` | `%HASH` of outstanding ids, `@lines` | one line of a trace at a time | its output is a trace again |
| `run_benchmarks.py`, `benchmark_lib.py` | clones under `repos/`, records, attempts, results | synchronise, copy, build, run, rank | git, make, `mdriver` |
| `sync_repos.py` | none | the synchronisation alone | `benchmark_lib.py` |
| `summarize_results.py` | none | writes the summary of a finished run again | `benchmark_lib.py` |
| `*.rep`, Makefiles, container files | none | data, build | |

`config.h` selects `USE_GETTOD`; the other two timing methods, and with them
`clock.c` and `fcyc.c`, are compiled and one constant away.

Everything in one process is sequential. What makes it hard:

- **Long histories in raw memory.** Every decision of `mm.c` is taken from words
  that earlier requests, other blocks, an earlier trace or another evaluation may
  have written. A wrong tag shows many requests later.
- **Limits.** The arena ends, a block is 8 bytes too large, an id passes 127, a
  request has 0 bytes.
- **One arena, three evaluations.** `eval_mm_util` and `eval_mm_speed` check
  nothing and abort the program on a NULL; they rely on `eval_mm_valid` having
  seen the same requests get the same answers.
- **Clocks.** Timer interrupts come between any two instructions of a measurement, the
  one who calibrates against them can only poll, and the time of day may be set.
- **Sizes taken from a file.** `read_trace` allocates by the header and stores by the
  lines.
- **A verdict on unknown code.** The range check has to be right for any
  `mm.c`, not only for this one.
- **Git, make and drivers that fail, hang or answer differently each time**,
  clones in any condition, and participants who push while the benchmark runs.

What correctness means, component by component: the heap is well formed after
every request, nothing leaks, nothing is used twice, failed requests change
nothing (`mm.c`); accepted payloads are aligned, in the heap and disjoint, and
nothing correct is refused (`eval_mm_valid`); what is measured is what was
checked, the index is printed exactly when all is valid, stays in its bounds and reaches
the script as it was (`main`); the seconds are those that passed, never overcharged by the
compensation, and every call returns (`fsecs.c`); a legal
trace is balanced, an illegal one refused, and what is loaded is what was
printed (`checktrace.pl`, `read_trace`); every participant
gets one row, of what was measured, with a status that means what the
documentation says, and the run ends (`run_benchmarks.py`).

## 2. Modules

```
MemLib <- MM <- MMWalk <- EvalValid <- MDriver <- MCMDriver
RangeList <---------------'   '--(refines)--> Allocator
   ^
   '-- RangeCheck <- MCRangeCheck
CheckTrace <- TraceFiles <- MCTraceFiles      Main <- MCMain
Clock <- Fcyc <- Fsecs <- MCFsecs             Benchmark <- MCBenchmark

proofs:  MMWalk <- MM_proofs <- EvalValid_proofs <- MDriver_proofs
         RangeCheck_proofs, Main_proofs, Fsecs_proofs, TraceFiles_proofs,
           Benchmark_proofs: of the module they name
```

**MemLib** (`memlib.c`). An address is a byte offset from `mem_start_brk`; memory is
words of 4 bytes. A heap is a record with `mem` and `brk`. Words never
written are arbitrary (`Garbage`), because the arena comes from `malloc` and
`mem_reset_brk` does not clear it.

**MM** (`mm.c`). One operator per function and macro, heap in, heap and answer out,
with the `PUT`s in the order of the code. Two auxiliary fields go along: `blks`, the
block pointers a walk from `heap_listp` visits, and `gaps`, the 8-byte gaps left by
`place`. Tags and addresses are never computed from them. `find_fit` is stated in
closed form (the lowest block that fits); **MMWalk** has the loop of the code, a function
of the number of steps, and `WalkFindsFirstFit`, checked and proved, says that the two
find the same block in every state. `mm_realloc` reads a `size_t` of eight bytes at `oldptr - 8`: on
the 64-bit build that is the neighbour's footer with the block's own header as its
upper half, so the copy is always as long as the request. `memcpyPayload` therefore
brings an arbitrary word (`junk`) from everything behind the old payload.

**RangeList**, **EvalValid** (`eval_mm_valid` and the range list). The actions `StartTrace`,
`Alloc`, `Realloc`, `Free`, `EndTrace` and `NextTrace` are the head of the function, the
cases of its switch, its end, and the step of `main`'s loop. The requests of a trace are
chosen as they come: any sequence that frees or reallocates only what is live.
`status` is the verdict. A trace goes on until the heap has a gap (`Serving`): from then
on the code may follow an arbitrary word out of the arena, and what it does is not
modelled.

**Allocator** is the abstract specification: a client holds payloads by name;
`Malloc` and `Realloc` answer *any* place that is aligned, in the arena and apart from
the other payloads; contents are what the client wrote. `EvalValid` maps the
driver's state to it (`Promise`, `KeepsThePromise`).

**RangeCheck** is the same driver against a package that answers any pointer at all.

**MDriver** composes EvalValid with the other two evaluations and `main`. `ReadTrace`
picks a trace, `ValidOp` is one request of EvalValid, `UtilOp`/`SpeedOp` are the same
request unchecked; `answers` and `checked` record the pointers. `index` is what
`main` prints.

**Main** is the same program seen from outside: one action per letter of the option
switch, the team check, one action per trace that an evaluation may end in (a row, or
`app_error`), the tables, the sums, the index in hundredths of a point and the
exit codes. `Parse` is `parse_mdriver_output` of the scripts on the lines that were
printed: a line is a record, and columns that run together are a line
that cannot be read (`Readable`).

**Clock** (`clock.c`). The counter is two halves of `Half` values. Every action does its
work and then lets a cycle pass; after `Slice` cycles of the program an interrupt takes
`cost` cycles and charges a tick, so it can fall between any two steps: between the
counter and `times()`, and inside the polling loop of `callibrate`. `own` and `inside` are
history: what really passed. The version compiled (`cpu`) is i386, alpha (a counter
of one half, compensated like the others, as `fsecs.c:29` asks of all) or one without a counter. **Fcyc** (`fcyc.c`) adds the samples of one call: `set` is
what the `set_fcyc_` functions left, `values` the sorted table, `taken` all samples
(history). **Fsecs** (`fsecs.c`, `ftimer.c`) adds the method that is compiled in:
through `fcyc`, by interval timers that end the process when they run down, or by a
time of day that somebody may set in between (`SetClock`).

**CheckTrace** (`checktrace.pl`) reads an arbitrary sequence of requests, prints the balanced
one or with `-s` only says what it is, and then reads its own output (`RunAgain`).
**TraceFiles** puts the generators before it and `read_trace` behind it: `Generated` runs
`checktrace.pl` on what a script prints (another source is any sequence with any header),
`Open` and `ReadLine` load what `checktrace.pl` printed of it. `gen_random.pl` inserts its frees one at a time at any
place (`InsertFree`).

**Benchmark** is one run of `run_benchmarks.py`. A clone is a record of the
conditions `sync_repo` distinguishes (absent, no clone, other origin, dirty, ahead,
on the branch); each action is one way a synchronisation or an attempt can go. `Push`
is the environment. A successful attempt has the number of correct traces of its driver, and an index and
a throughput (`Measures`), or no throughput: always when one of its traces is invalid, since `mdriver` then
prints dashes for its `Total`, and otherwise when that line cannot be read. `Timed` are the attempts
that have one, and the result has the median of theirs (`MedianOrNone`). The list comprehensions and `sorted` of the scripts are stated by what they
return (`AtPositions`, `Sorted`), so that they can be proved about.

Abstractions worth knowing: contents are one word value per fill byte (`Fill`); a size is
a number of bytes, small enough that no integer overflows; in Benchmark
a throughput or an index is one of a few numbers; messages, tables, files and
formats are left out except where a status depends on a message (`Failed`).

## 3. Runs

| run | bounds | shows |
| --- | --- | --- |
| `valid_any` | arena 72, chunk 24, 2 ids, sizes 4, 16, 24 | every trace on a heap that can grow once more after `mm_init`, with gaps, exhaustion and all sorts of splits: the heap, the ids, the range list, the payloads; refinement of `Allocator` |
| `range_check` | 3 ids, sizes 4, 8, 20, heap of 32 bytes, pointers below, in, at the end, misaligned | the list is exact; accepted payloads that meet enclose one another |
| `mdriver` | 2 traces of up to 3 requests, 2 ids, sizes 0, 8, 24, arena 80, chunk 16, 2 timing runs | `SameAnswers`, `NoAppError`, `UtilBelowOne`, `IndexMeansAllValid`, `HeapOKInEveryRun`; adjusted sizes that are multiples of 16 leave no gap in any run (`NoGaps`); deadlock is checked, so the driver always comes to its end |
| `main` | command lines of up to 3 options, 2 default files, rows of 0 or 90 percent, 1 or 30 operations, -1, 0 or 2 seconds | which files are run (`FileDecides`), the index between its bounds (`IndexIsBounded`), the script reads this run's index and number of correct traces (`ReaderSeesTheRun`) |
| `fsecs` | a call by each method on each machine, counter halves of 50, a slice of 8 cycles, interrupts of 2 or 7 cycles, looks at the counter 1 or 2 cycles apart, works of 1, 3, 6 or 9 cycles, 2 events, tables of 2, at most 4 samples | the counter across both overflows, what calibration can get wrong, the K best, the seconds; `EveryCallReturns` |
| `traces` | every input of up to 5 lines over 2 ids with a header that is right or off by one, and each generator with up to 3 iterations | legal traces are printed, balanced, and a fixed point; `read_trace` holds what was printed and stays in its arrays |
| `benchmark` | 2 participants, 8 conditions of a clone, 5 command lines, 2 attempts, 1 push each, drivers of 1 or 2 traces where the reference has 1, measures with and without a throughput | rows, verdicts, ranks, reports; with both timeouts the run ends |
| `gap`, `signed_char`, `overlap`, `ok_rows`, `reused_id` | as the passing run of the module (`gap`: sizes 4 and 12; `signed_char`: those and ids 127 and 128; `ok_rows`: drivers of 2 or 4 traces; `reused_id`: 4 lines) | the findings of section 5 |

Why the bounds are enough: an arena of 72 bytes holds the prologue and up to three
blocks, so a block has two neighbours of either kind, an extension can join a free tail
or find an allocated one, and the last extension ends exactly at the limit (72) or 8 bytes
below it (64), by the size that was asked for. All four cases of `coalesce` occur in `valid_any`. `CHUNKSIZE` lies below the largest adjusted size, so an
extension can be the chunk or the request. Three ids are needed for a block between two others,
and `range_check` uses them as a symmetry set, as nothing there compares ids. The code
times ten runs (`fsecs.c`); two show whatever a run can leave to the next.
`NumTraces` is 1 where one trace is asked about and 2 in `mdriver`.
In `main` three options are enough for `-f` and `-t` in either order with a third one
in between, and 30 operations in no time are more than the columns hold (`Glued`) and than the
reference throughput. In `fsecs` the counter, of 2500 values, starts 36 or 16 cycles before its end, so both halves
overflow while something is calibrated or measured, and one round of the lower half (50) is long enough for
a calibration (`CalibrationFits`); a call calibrates up to three times, at different
places of a slice, and its later samples find what a second call would (a counter that runs, a `cyc_per_tick` that is kept); an interrupt can be cheap or dear, a work of 6 cycles leaves room for one
interrupt before it and one after it that are charged and not counted, one of 9 always meets one; two events
(`NEVENT`) let a wrong first ratio be replaced or kept, and four samples let K-best stop early, stop at
`MAXSAMPLES`, and replace. Five lines of a trace hold an id that is allocated, freed and used again with a
second id open. Two traces against one of the reference let a driver fail one and be
`OK` without a throughput, and two attempts let only one of them have it. Two participants
are what ranking, duplicate aliases and independent failures need; their order in the
file is not that of their aliases.

Deadlock checking is off where the system really stops: EvalValid after its last
trace or at a gap, RangeCheck after a rejection, CheckTrace and TraceFiles after
printing, loading or dying, Benchmark when it is over or when a command without a timeout hangs.

**Fairness.** Benchmark and Fsecs state `WF_vars(Next)`, the process goes on while it can.
That is what a single sequential process does. In Fsecs an interrupt needs no
fairness of its own: it comes as the program's cycles pass, and with it the end of
the calibration loop, which waits for events it cannot cause (`EveryCallReturns`); what may stop a call
for good is the signal of an interval timer, and on an Alpha a calibration in which the lower
half goes all the way around: `oldt` is then near the largest value and no later look is `THRESHOLD` above it. The property
therefore asks of an Alpha that one round of the lower half is longer than the events that `callibrate` waits for
(`CalibrationFits`): 100 events at one interrupt in 10 ms are a second, the round is the "about 9 seconds" of `clock.c:100`.
It is a condition on the length of a round and not on where it begins. With
halves of 16 the loop polls for ever. A `make` or `mdriver` that never ends
is in the model (`lab.trouble`) and disables the process when it has no timeout; git
has none in the code and is *assumed* to end. `Push` has no fairness; the clock of Fsecs
may be set once a measurement, and never has to be. MDriver has
no loop that waits, so instead of liveness `mdriver` checks that it never gets stuck
and never leaves by `app_error`.

Every property of a passing run has a mutant of the code in the modules (an operator
with "Mutant of" in its comment): the property fails when the definition is replaced.

## 4. Proofs

A theorem holds for every value of the constants that the named assumptions allow; the run
in the last column shows the same property on an instance. TLC has checked each inductive
invariant before it was proved.

### The allocator under `eval_mm_valid`

For **every** arena size, every chunk that is a multiple of 8 and at least 16, every set of ids and
of sizes, every number of traces and every content of the uninitialised arena
(`MaxHeapAssumption`, `ChunkAssumption`, `DriverAssumption`):

| theorem (`EvalValid_proofs`) | statement | hypothesis | run |
| --- | --- | --- | --- |
| `TypeCorrect` | `Spec => []TypeOK` | | `valid_any` |
| `HeapStaysWellFormed` | `Spec => []HeapOK` | | `valid_any` |
| `NoLeakNoDoubleUse` | `Spec => []AllocatedIffLive` | | `valid_any` |
| `NoFragmentsLeft` | `Spec => []AllFreeIsOneBlock` | | `valid_any` |
| `RangeListIsExact` | `Spec => []RangesAreLive` | | `valid_any` |
| `RangeCheckPasses` | `Spec => []NoBadRange` | | `valid_any` |
| `FailedRequestsAreHarmless` | `Spec => FailureIsHarmless` | | `valid_any` |
| `PayloadsStayIntact` | `Spec => []PayloadsIntact` | | `valid_any` |
| `ReallocKeepsData` | `Spec => []NoDataLost` | `\A id \in Ids : id % 256 <= SCHAR_MAX` | `valid_any` |
| `RoundedSizesLeaveNoGap` | `Spec => []NoGaps` | `Rounded` | `mdriver` |
| `ImplementsAllocator` | `Spec => KeepsThePromise` | | `valid_any` |
| `FirstFitByWalking` | `Spec => []WalkFindsFirstFit` | | `valid_any` |

The first seven and the last rest on `Invariance == Spec => []IInv`. `IInv` joins the types, `Agree` (the
heap has the right *shape*, no two free blocks are neighbours, and the allocated
blocks are exactly those of the live ids, each large enough), the exactness of the
range list, and `NoBadRange`. None of them is inductive alone: that
`mm_free` is given an allocated block comes from the table, that its
neighbours' tags can be trusted comes from the heap, and that the new range is
apart from the old ones needs both, together with the list being that of the table.

The argument has three layers. `MM_proofs`: what the tag writes do to a shape
(`Retagged`, splitting a block, appending one, joining a run of free blocks), up to
`CoalesceWorks`, all four cases of `coalesce`; in the second half of that module `mm_init`,
`extend_heap`, `place`, and from them `MallocWorks`, `FreeWorks`, `ReallocWorks`, each
stated as what a caller may rely on. `EvalValid_proofs`: one lemma per action, using only
those three. Gaps are part of it: the lemmas speak of the state right after
`place`, gap or not, and a trace goes on only without one.

**Contents.** `PayloadInvariance == Spec => []PInv` adds what is *in* the payloads: every live payload
lies in its block and holds its id up to the size recorded for it. It needs of `mm.c`
that a request writes only tags, and tags only where no live payload lies, and that
`mm_realloc` carries the shorter of the two sizes over before the old block is freed. `NoDataLost`
is more than that: the driver compares the bytes as `char` with the id as `int`. The
hypothesis of `ReallocKeepsData` says that a signed `char` can hold them, and run `signed_char` shows
that it cannot be dropped (finding 2).

**The walk of `find_fit`.** The proofs above use the lowest block that fits; the code follows sizes
in headers. `FirstFitByWalking` connects the two. Each step of the walk goes from a block to
the next, as no block lies between a block and its end (`WalkFollows`); it therefore gets at least
16 bytes further each time, skips none, and is at the break, whose header has size 0, within
`MostBlocks` steps. The first place where it stops is then the lowest block that fits, or the break if
there is none (`WalkFitIs`). That the function of the steps exists at all, which is induction, is
shown by taking the least length at which it would not.

**Gaps.** `Rounded` says that `CHUNKSIZE` and every adjusted size are multiples of 16. The
code has 4096 for the one; nothing in it ensures the other, and run `gap` shows what
happens then (finding 1).

**Refinement.** `ImplementsAllocator` maps the initial states, and each action to one of
`Allocator` or to a stutter: with `MallocWorks` the answer is aligned, in the arena and apart from the
others, so it is one the abstract allocator may give; with `PInv` the contents are what
its client wrote.

### The range check against any package

For **any** set of answers a malloc package may give, any heap, ids and positive sizes
(`RangeAssumption`):

| theorem (`RangeCheck_proofs`) | statement | run |
| --- | --- | --- |
| `ListIsExactForAnyPackage` | `Spec => []RangesAreLive` | `range_check` |
| `OnlyEnclosuresPass` | `Spec => []AcceptedPayloads` | `range_check` |

Both rest on `RangeInvariance == Spec => []RInv`. Neither property is inductive: that
`remove_range`, which goes by the first byte, takes one record and the right one needs
live payloads never to begin at one address, which is so because two that do would
overlap, an enclosure is strict at both ends, and none is empty (`LiveSizes`).
That an accepted payload keeps clear of the others needs in turn that the list is
theirs.

### `main`'s loop and the three evaluations

For **any** traces, any number of them and any arena (`DriverAssumption`,
`TraceAssumption`):

| theorem (`MDriver_proofs`) | statement | hypothesis | run |
| --- | --- | --- | --- |
| `IndexIsEarned` | `MSpec => []IndexMeansAllValid` | | `mdriver` |
| `MeasuredAsChecked` | `MSpec => []SameAnswers` | | `mdriver` |
| `MeasurementsNeverAbort` | `MSpec => []NoAppError` | | `mdriver` |
| `EveryRunHasAHeap` | `MSpec => []HeapOKInEveryRun` | | `mdriver` |
| `UtilisationIsBelowOne` | `MSpec => []UtilBelowOne` | | `mdriver` |
| `NoRunLeavesAGap` | `MSpec => []NoGaps` | `Rounded` | `mdriver` |

`IndexIsEarned` rests on `BooksInvariance`, which says for every phase of the
loop how many rows `mm_stats` has and how many errors are still without a row: between a rejection
and the row of the trace it is one, else none. It needs nothing of the allocator.

The others rest on `EveryRunIsFollowed`. The unchecked evaluations begin on an arena full of the words
of the last one, so their heap is *not* the checked heap, and equal answers have to
be argued for. The last part of `MM_proofs` before the walk does it: two heaps of the same shape with the same tags
take every decision of `mm.c` alike, whatever their payloads and the rest of the arena
hold, and are alike again afterwards. The invariant therefore keeps, next to the
allocator's own invariant for whichever evaluation owns the arena, a record of the checked run
(`checked`: pointers and tags after every request) and says that the run that is measured stands where
that record stood after as many requests. From that follow the equal answers, no
NULL where the check had none, and the shape of the heap.

`UtilBelowOne` counts the bytes of the live payloads: they are disjoint sets of addresses of the heap, so
the sum of their sizes, which `eval_mm_util` adds and subtracts as it goes, is the number of
addresses in their union, and the high-water mark is below the size of a heap that never shrinks.

### Options, index and report of `main`

For **any** command line of any length, default files, weight of the index, and any measurements in any
number of traces (`MainAssumption`):

| theorem (`Main_proofs`) | statement | run |
| --- | --- | --- |
| `LastFileDecides` | `Spec => []FileDecides` | `main` |
| `IndexStaysBounded` | `Spec => []IndexIsBounded` | `main` |
| `WhatIsReadWasMeasured` | `Spec => []ReaderSeesTheRun` | `main` |

`LastFileDecides` rests on `OptionsInvariance`: what is still to be read is the end of the
command line, and the files chosen are what the last `-f` or `-t` of the part already read says
(`Chosen`). The other two rest on `ReportInvariance`, which says for each phase what was
printed so far: nothing, the table of libc, that and the table of `mm.c`, or a whole report in which each kind of
line stands at most once behind the tables (`Reported`). The patterns of the script take the last line that
matches, so only the position of the line decides what it reads, and libc's `Total` can only be
mistaken for the other with `-l`. The sums are recursive functions on the number of rows;
what they are and how they are bounded (`SumIs`, `SumBetween`) is shown from the least number of
rows at which it would fail. That `printresults` adds up the valid rows and `main` all of them
makes no difference exactly when there is no error, and then an index is printed.

### The timing functions

For **any** halves of the counter, slice, interrupt costs, works and settings
(`ClockAssumption`, `FcycAssumption`, `FsecsAssumption`). `TicksAreCovered` and `MeasuresNeverOvercharge` are about
i386 builds, whose counter has both halves; the calibration of an Alpha can record anything once its counter has
started again (section 5).

| theorem (`Fsecs_proofs`) | statement | run |
| --- | --- | --- |
| `TypesOK` | `Spec => []TypeOK` | `fsecs` |
| `CounterIsExact` | `Spec => []CounterIsElapsed` | `fsecs` |
| `SecondsAreExact` | `Spec => []SecondsAreElapsed` | `fsecs` |
| `BestIsReturned` | `Spec => []ReturnsTheBest` | `fsecs` |
| `TicksAreCovered` | `PollingResolves` implies `Spec => []CalibrationCoversTick` | `fsecs` |
| `MeasuresNeverOvercharge` | `PollingResolves` implies `Spec => []NeverOvercharged` | `fsecs` |

`CounterIsElapsed` says that `get_counter` is what passed since `start_counter`, modulo the
range of the two halves: the borrow is right in each of its cases. (On an Alpha it says so only while the lower half
has not started again.) `BestIsReturned`: the table
is sorted, holds the least samples of all taken, and what was dropped from it is not less than what
stayed, whichever of them were replaced.

`PollingResolves` (Clock) is what `callibrate` takes for granted of the machine and nowhere states: from one
interrupt to the next there is room for an event of `THRESHOLD` cycles and two looks at the counter;
a gap without an interrupt is too short to pass `RECORDTHRESH`; and a counter that has gone all the way
around has seen so many interrupts that the ratio is too small. With `THRESHOLD` 1000,
`RECORDTHRESH` 3000 and 2^64 values of the counter it holds wherever a look at the counter
takes at most 2001 cycles, a slice has more than 5002 (milliseconds are millions) and
the counter does not go around within a handful of slices. TLC evaluates it for the instance
(`ASSUME PollingResolves` in MCFsecs). That an interrupt costs more than `RECORDTHRESH` is not
part of it: a cheaper one is seldom or never recorded, and what is recorded covers it.

The invariant behind `TicksAreCovered` (`TInv`, `PollAt`, `EventAt`) says of each look at the counter when it was: how
many cycles and interrupts ago, in which phase of the slice (`Through`), and
which interrupts the ticks hold (`Late`: those since `oldt`, or one more that came just before, or one less).
`RecordedRatio` is the heart: between `oldt` and `newt` came at most one interrupt, or the
counter went around. An interrupt that came between the counter and `times()` is charged to the gap
before, whose ratio is at most `RECORDTHRESH`; it is missing from the gap after, whose event is then dropped
for want of ticks. So what is recorded is one interrupt, whole, and the program's own
cycles of one gap. `NInv` adds that of the ticks of a measurement at most two were never counted, one before
`start_counter` and one after `get_counter`, and `Charged` is the arithmetic.

### The way of a trace

For **every** set of ids, every length of input, every header, and every number of iterations of the
generators (`TraceLinesAssumption`, `TraceFilesAssumption`):

| theorem (`TraceFiles_proofs`) | statement | run |
| --- | --- | --- |
| `LegalTracesPass` | `TSpec => []PrintsTheLegal` | `traces` |
| `OutputBalances` | `TSpec => []OutputIsBalanced` | `traces` |
| `OutputIsAFixedPoint` | `TSpec => []OutputIsFixed` | `traces` |
| `LoadedAsPrinted` | `TSpec => []ReadsWhatIsPrinted` | `traces` |
| `GeneratorsWork` | `TSpec => []GeneratedTracesWork` | `traces` |

They rest on `TraceInvariance == TSpec => []LInv`. Its core says what `%HASH` is without a tally
(`TallyOf`): an id is in it, as `a` or as a foreign word, exactly if the last of its lines that is no `r` is
that (`Entered`); every line read so far passes the checks seen that way (`Accepted`). With foreign words
excluded that is `Legal` (`LegalIsAccepted`). Appending the outstanding frees to an accepted trace gives
an accepted one that leaves nothing (`FreesSettle`), which is what the second run reads. For the
generators the invariant keeps a shape: every id is allocated once, freed at most once and behind that,
and what is reallocated is freed later (`OnceEach`); each script's output has it, for
every number of iterations (`BinaryGenerates`, `CoalescingGenerates`, `ReallocGenerates`), and so has
`gen_random.pl`'s after each insertion at any place (`PartlyInsert`). For `read_trace` it keeps what
was stored and the largest id of an `a` or `r`; that an `f` need not be compared
(`MaxIndexIsLargest`) is a property of legal traces only.

### One run of the benchmark

For **any** file of participants, any condition of their clones, any command line, any answers of git, make and
the drivers, any pushes in between (`BenchmarkAssumption`):

| theorem (`Benchmark_proofs`) | statement | run |
| --- | --- | --- |
| `ReportedIsMeasured` | `Spec => []ReportIsMeasured` | `benchmark` |
| `RankedAreStable` | `Spec => []RankedRowsAreStable` | `benchmark` |
| `AllAreListed` | `Spec => []EveryoneListedOnce` | `benchmark` |
| `RanksAreRight` | `Spec => []RanksFollowResults` | `benchmark` |

They rest on `RunInvariance == Spec => []BInv`, by which the records and the results are those of the first
participants of a list in which no alias occurs twice, each record tells of its participant's clone as that
clone *still is*, and the attempts are of the current participant, who was synchronised. A record stays true because
a clone is touched in its own participant's turn only, and every participant has a clone of its own: the check for duplicate
aliases (`Usable`) is what this needs. `SyncStep` is what the eight ways of a synchronisation
have in common; each of them is shown to be one. That `sorted` returns anything at all, the same rows in
another order, follows from the sort keys being a total order up to ties (`BeforeOrders`, `AllArrangeable`);
that the ranked rows are the first of them, from `OK` having the lowest status rank (`RankedComeFirst`).
`RanksAreRight` covers the rows without a throughput: the key counts a missing one as -1, below any that
was measured, so among equal scores such a row comes last; and since the median is taken of the attempts that have
one (`MediansTaken`), a ranked row lacks a throughput only if all its attempts do (`ThroughputOfAttempts`).

### Only model-checked

- Liveness under fairness: `TimeoutsEndTheRun`, `EveryCallReturns`; that `mdriver` never gets stuck.

## 5. Findings

1. `mm.c:280`, run `gap`. When a block is 8 bytes larger than needed, `place` cuts it
   down and leaves 8 bytes in no block. `NEXT_BLKP` then reads whatever is there as a header.
   With every adjusted size a multiple of 16 it cannot happen (`NoGaps`).
2. `mdriver.c:702`, run `signed_char`. With a signed `char` a correct `mm_realloc` of an id
   whose low byte is above 127 is rejected as having lost data. (Models of the
   allocator's correctness use ids below 128.)
3. `mdriver.c:443`, run `overlap`. A payload that strictly encloses a live one is accepted.
   `AcceptedPayloads` shows that this is the only overlap that is.
4. `benchmark_lib.py:694`, run `ok_rows`. In `repo` mode a participant's driver with more
   traces than the reference can fail some and be `OK`.
5. `checktrace.pl:96`, run `reused_id`. The check for reused ids can never apply. Neither can
   the one at line 105, where `!` binds tighter than `eq`.

Met on the way, and no contradiction of anything the repository says:

- `benchmark_lib.py:277`: a path, an alias or a URL that contains "dirty" makes any failure
  a `DIRTY_REPO` (`Failed`, `DirtyNamed` in Benchmark).
- `clock.c:265` reads the counter before `times()`, `clock.c:258` the other way round:
  an interrupt between the two is subtracted though it was not counted, a sample may even be
  below 0, and K-best prefers it. There can be one before `f` and one after it, and
  `NeverOvercharged` says that two `cyc_per_tick` are the most that is missing.
- `CalibrationCoversTick` holds because `RECORDTHRESH` drops the ratios of ticks that
  were seen without their cycles, on any machine with `PollingResolves`.
- `clock.c:127`: the Alpha version has no upper half and borrows from it all the same. Once its counter has
  started again `get_counter` answers about 2^64 - 2^32 more than passed, also for a measurement far shorter than the
  span that `clock.c:98-100` grants; `CounterIsElapsed` is about the time before. If the counter goes all the way
  around during `callibrate`, that loop does not end (section 3).
- With `-l` and a trace of `mm.c` that fails, the only `Total` with numbers is that of
  libc, and the script reads it. 100000 Kops or more run into the column before.
- `checktrace.pl` prints traces whose ids have holes or whose header counts wrongly;
  `read_trace` has asserts for both, after the arrays were written.
- `gen_realloc.pl` and `gen_realloc2.pl` end in `print OUTFILE close OUTFILE`, which prints
  nothing more; `gen_random.pl` reads `$argv[0]`, which Perl never sets, so its
  arguments are ignored.

## 6. Plan

Done, in the order of importance: MemLib, MM, RangeList, EvalValid with its proofs;
Allocator and the refinement; RangeCheck and MDriver with proofs; Benchmark;
CheckTrace and TraceFiles; Main; Clock, Fcyc and Fsecs.

Proved: the allocator's invariant, contents and refinement; the three evaluations of MDriver;
RangeCheck; options, index and report of Main; the timing functions; the way of a trace; the safety of a
benchmark; the walk of `find_fit`.

Next:

1. Request sizes at the width of `int` and `size_t` (`mm.c:125-133`, `mm.c:196`, `memlib.c:58`).
2. A second process on the same clones, and `summarize_results.py` after a run.

## 7. Not modelled

The libc evaluation of `-l` beyond its outcome; wording and layout of messages and
tables except the columns that run together; `mhz` and `ovhd`, which turn cycles into
seconds; the content of the buffer that clears the cache; trace files (data);
`participants.csv` parsing and the parsing of `config.h`; file hashes (the
outcome of the comparison is chosen); `summarize_results.py` (a repetition of the last step
of a run); container and build files. Left out of `run_command`: processes started by a
timed-out `make` that outlive it. Every hazard without a property has its reason in
`PROJECT.json`.

## 8. Running

```
tlc -workers 2 -config ValidAny.cfg EvalValid
tlc -workers 2 -config Fsecs.cfg MCFsecs
tlc -workers 2 -config Benchmark.cfg MCBenchmark
tlapm EvalValid_proofs.tla
tlapm Main_proofs.tla
tlapm TraceFiles_proofs.tla
```
