------------------------------ MODULE MDriver ------------------------------
(***************************************************************************)
(* The main loop of mdriver.c.  For each trace file it runs eval_mm_valid  *)
(* (module EvalValid, one action per request) and, when the trace is       *)
(* valid, eval_mm_util once and eval_mm_speed SpeedRuns times, all on the  *)
(* same arena; at the end it prints the performance index.                 *)
(*                                                                         *)
(* What the code leaves to the other two evaluations is that they serve    *)
(* the requests that were checked in the way that was checked: they do not *)
(* look at the payloads and abort the whole program on a NULL.             *)
(***************************************************************************)
EXTENDS EvalValid, Sequences

CONSTANTS Traces,     \* the traces a file may hold: sequences of requests
          SpeedRuns   \* how often fsecs runs eval_mm_speed

ASSUME TraceAssumption ==
    /\ Traces \subseteq Seq([type : {"a", "r", "f"}, index : Ids, size : Sizes])
    /\ SpeedRuns \in Nat \ {0}

VARIABLES phase,           \* what main is doing
          trace,           \* the requests of the current trace
          pc,              \* the next of them
          runs,            \* the runs of eval_mm_speed done on it
          total_size,      \* of the live payloads, for eval_mm_util
          max_total_size,
          stats,           \* mm_stats: one record for each trace evaluated
          answers,         \* the pointers the requests of this run got
          checked,         \* those they got under eval_mm_valid
          index            \* "none" until main prints, then what it prints

main  == <<phase, trace, pc, runs, total_size, max_total_size, stats,
           answers, checked, index>>
mvars == <<vars, main>>

MInit ==
    /\ Init
    /\ phase = "read" /\ trace = <<>> /\ pc = 1 /\ runs = 0
    /\ total_size = 0 /\ max_total_size = 0
    /\ stats = <<>> /\ answers = <<>> /\ checked = <<>> /\ index = "none"

-----------------------------------------------------------------------------
(* read_trace, and the beginning of eval_mm_valid.                         *)
ReadTrace ==
    /\ phase = "read" /\ tracenum < NumTraces
    /\ \E t \in Traces : trace' = t
    /\ StartTrace
    /\ phase' = "valid" /\ pc' = 1 /\ answers' = <<>>
    /\ UNCHANGED <<runs, total_size, max_total_size, stats, checked, index>>

(* One request under eval_mm_valid.                                        *)
ValidOp ==
    /\ phase = "valid" /\ status = "running" /\ pc <= Len(trace)
    /\ LET op == trace[pc] IN
         /\ \/ op.type = "a" /\ Alloc(op.index, op.size)
            \/ op.type = "r" /\ \E junk \in Garbage : Realloc(op.index, op.size, junk)
            \/ op.type = "f" /\ Free(op.index)
         /\ answers' = Append(answers, blocks'[op.index])
    /\ pc' = pc + 1
    /\ UNCHANGED <<phase, trace, runs, total_size, max_total_size, stats,
                   checked, index>>

(* The trace is valid.                                                     *)
ValidEnd ==
    /\ phase = "valid" /\ pc > Len(trace)
    /\ EndTrace
    /\ checked' = answers
    /\ phase' = "util init"
    /\ UNCHANGED <<trace, pc, runs, total_size, max_total_size, stats,
                   answers, index>>

(* It is not: its statistics stay zero.                                    *)
Invalid ==
    /\ phase = "valid" /\ status \notin {"running", "valid"}
    /\ stats' = Append(stats, [valid |-> FALSE, max |-> 0, heapsize |-> 0])
    /\ phase' = "free trace"
    /\ UNCHANGED <<vars, trace, pc, runs, total_size, max_total_size,
                   answers, checked, index>>

-----------------------------------------------------------------------------
(* Mutant of StartRun: the break stays where the last evaluation left it.  *)
StartRunNoReset(from, to) ==
    /\ phase = from
    /\ LET m == mm_init(heap) IN
         /\ heap' = m.heap
         /\ phase' = IF m.ret = NULL THEN "exit" ELSE to
    /\ pc' = 1 /\ answers' = <<>> /\ live' = {}
    /\ UNCHANGED <<ranges, blocks, block_sizes, status, tracenum, errors,
                   trace, runs, stats, checked, index>>

(* mem_reset_brk and mm_init at the head of an evaluation; a failure of    *)
(* mm_init is app_error, which exits.                                      *)
StartRun(from, to) ==
    /\ phase = from
    /\ LET m == mm_init(mem_reset_brk(heap)) IN
         /\ heap' = m.heap
         /\ phase' = IF m.ret = NULL THEN "exit" ELSE to
    /\ pc' = 1 /\ answers' = <<>> /\ live' = {}
    /\ UNCHANGED <<ranges, blocks, block_sizes, status, tracenum, errors,
                   trace, runs, stats, checked, index>>

UtilInit ==
    /\ StartRun("util init", "util")
    /\ total_size' = 0 /\ max_total_size' = 0

SpeedInit ==
    /\ StartRun("speed init", "speed")
    /\ UNCHANGED <<total_size, max_total_size>>

(* The request that is next, served without any check: NULL is app_error.  *)
(* live stands for the ids the trace has allocated by then.                *)
Serve(op, junk) ==
    LET m == IF op.type = "a" THEN mm_malloc(heap, op.size)
                              ELSE mm_realloc(heap, blocks[op.index], op.size, junk)
    IN  \/ /\ op.type \in {"a", "r"} /\ m.ret = NULL
           /\ heap' = m.heap
           /\ phase' = "exit"
           /\ UNCHANGED <<blocks, live, pc, answers>>
        \/ /\ op.type \in {"a", "r"} /\ m.ret # NULL
           /\ heap' = m.heap
           /\ blocks' = [blocks EXCEPT ![op.index] = m.ret]
           /\ live' = live \cup {op.index}
           /\ pc' = pc + 1
           /\ answers' = Append(answers, m.ret)
           /\ UNCHANGED phase
        \/ /\ op.type = "f"
           /\ heap' = mm_free(heap, blocks[op.index])
           /\ live' = live \ {op.index}
           /\ pc' = pc + 1
           /\ answers' = Append(answers, blocks[op.index])
           /\ UNCHANGED <<phase, blocks>>

(* Mutant of TotalAfter: an r adds its whole size.                         *)
TotalAfterWhole(op) ==
    IF op.type = "f" THEN total_size - block_sizes[op.index] ELSE total_size + op.size

(* total_size after a request: eval_mm_util adds the size of an a, adds    *)
(* the difference to the stored size for an r, subtracts it for an f.      *)
TotalAfter(op) ==
    CASE op.type = "a" -> total_size + op.size
      [] op.type = "r" -> total_size + (op.size - block_sizes[op.index])
      [] op.type = "f" -> total_size - block_sizes[op.index]

(* One request under eval_mm_util, which stores pointers and sizes anew.   *)
UtilOp ==
    /\ phase = "util" /\ heap.gaps = {} /\ pc <= Len(trace)
    /\ LET op == trace[pc] IN
         /\ \E junk \in Garbage : Serve(op, junk)
         /\ IF phase' = "exit"
              THEN UNCHANGED <<block_sizes, total_size, max_total_size>>
              ELSE /\ block_sizes' = IF op.type = "f" THEN block_sizes
                                     ELSE [block_sizes EXCEPT ![op.index] = op.size]
                   /\ total_size' = TotalAfter(op)
                   /\ max_total_size' = IF op.type = "f" THEN max_total_size
                                        ELSE MaxOf(TotalAfter(op), max_total_size)
    /\ UNCHANGED <<ranges, status, tracenum, errors, trace, runs, stats, checked, index>>

(* The ratio of max_total_size to mem_heapsize goes into mm_stats.         *)
UtilEnd ==
    /\ phase = "util" /\ pc > Len(trace)
    /\ stats' = Append(stats, [valid |-> TRUE, max |-> max_total_size,
                               heapsize |-> mem_heapsize(heap)])
    /\ phase' = "speed init" /\ runs' = 0
    /\ UNCHANGED <<vars, trace, pc, total_size, max_total_size, answers, checked, index>>

(* One request under eval_mm_speed, which stores pointers only.            *)
SpeedOp ==
    /\ phase = "speed" /\ heap.gaps = {} /\ pc <= Len(trace)
    /\ \E junk \in Garbage : Serve(trace[pc], junk)
    /\ UNCHANGED <<ranges, block_sizes, status, tracenum, errors, trace, runs,
                   total_size, max_total_size, stats, checked, index>>

(* Mutant of SpeedEnd: the next run finds the heap of this one.            *)
SpeedEndKeepsHeap ==
    /\ phase = "speed" /\ pc > Len(trace)
    /\ runs' = runs + 1 /\ pc' = 1 /\ answers' = <<>>
    /\ phase' = IF runs' < SpeedRuns THEN "speed" ELSE "free trace"
    /\ UNCHANGED <<vars, trace, total_size, max_total_size, stats, checked, index>>

(* fsecs runs it again, or has its average.                                *)
SpeedEnd ==
    /\ phase = "speed" /\ pc > Len(trace)
    /\ runs' = runs + 1
    /\ phase' = IF runs' < SpeedRuns THEN "speed init" ELSE "free trace"
    /\ UNCHANGED <<vars, trace, pc, total_size, max_total_size, stats,
                   answers, checked, index>>

-----------------------------------------------------------------------------
(* free_trace, and the next turn of the loop.                              *)
FreeTrace ==
    /\ phase = "free trace"
    /\ NextTrace
    /\ trace' = <<>> /\ phase' = "read"
    /\ UNCHANGED <<pc, runs, total_size, max_total_size, stats, answers, checked, index>>

NumCorrect == Cardinality({k \in DOMAIN stats : stats[k].valid})

(* The performance index, or the number of errors.                         *)
Report ==
    /\ phase = "read" /\ tracenum = NumTraces
    /\ phase' = "done"
    /\ index' = IF errors = 0 THEN "index" ELSE "errors"
    /\ UNCHANGED <<vars, trace, pc, runs, total_size, max_total_size, stats,
                   answers, checked>>

(* The process has ended, and nothing else may bring the driver to a stop. *)
Exited == phase \in {"done", "exit"} /\ UNCHANGED mvars

MNext ==
    \/ ReadTrace \/ ValidOp \/ ValidEnd \/ Invalid
    \/ UtilInit \/ UtilOp \/ UtilEnd
    \/ SpeedInit \/ SpeedOp \/ SpeedEnd
    \/ FreeTrace \/ Report \/ Exited

MSpec == MInit /\ [][MNext]_mvars

-----------------------------------------------------------------------------
Unchecked == phase \in {"util", "speed"}

(* The heap stays well formed in all three evaluations, although each      *)
(* starts on what the one before left in the arena (mdriver.c, mm.c).      *)
HeapOKInEveryRun ==
    heap.gaps = {} /\ (Serving \/ Unchecked) => WellFormed(heap)

(* What is measured is what was checked: under eval_mm_util and            *)
(* eval_mm_speed every request gets the pointer it got under eval_mm_valid,*)
(* though the arena holds other data (mdriver.c, main and the three        *)
(* evaluations).                                                           *)
SameAnswers ==
    Unchecked => answers = SubSeq(checked, 1, Len(answers))

(* A trace found valid is never the end of the program: eval_mm_util and   *)
(* eval_mm_speed get a pointer for each of its requests (mdriver.c, the    *)
(* app_error calls).                                                       *)
NoAppError == phase # "exit"

(* The bytes of the payloads of the ids of L.                              *)
PayloadBytes(L) == UNION {blocks[i] .. blocks[i] + block_sizes[i] - 1 : i \in L}

(* total_size counts the bytes of the live payloads, which leave room for  *)
(* the tags of their blocks, and its high water mark fits in the heap: the *)
(* utilisation is below 1 (mdriver.c, eval_mm_util).                       *)
UtilBelowOne ==
    /\ phase = "util" =>
         /\ total_size = Cardinality(PayloadBytes(live))
         /\ total_size + DSIZE * Cardinality(live) < mem_heapsize(heap)
         /\ total_size <= max_total_size /\ max_total_size < mem_heapsize(heap)
    /\ \A k \in DOMAIN stats : stats[k].valid => stats[k].max < stats[k].heapsize

(* The index is printed exactly when every trace is valid, and mm_stats    *)
(* has an entry for each trace (mdriver.c, the two loops of main).         *)
IndexMeansAllValid ==
    phase = "done" =>
      /\ Len(stats) = NumTraces
      /\ index = "index" <=> NumCorrect = NumTraces
      /\ errors = NumTraces - NumCorrect

=============================================================================
