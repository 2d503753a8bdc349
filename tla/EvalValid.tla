------------------------------ MODULE EvalValid ------------------------------
(***************************************************************************)
(* The correctness check of the driver, eval_mm_valid of mdriver.c, run on *)
(* the allocator of mm.c, for NumTraces traces one after the other.  A     *)
(* trace is any sequence of requests in which an id is freed or            *)
(* reallocated only while it is allocated; a request is one action, and    *)
(* the requests of a trace are chosen as they come.                        *)
(***************************************************************************)
EXTENDS MMWalk, RangeList

CONSTANTS Ids,        \* the block ids of the traces
          Sizes,      \* the request sizes (bytes)
          NumTraces,  \* how many traces the driver evaluates
          Garbage     \* what words never written may hold

ASSUME DriverAssumption ==
    /\ Ids \subseteq Nat
    /\ Sizes \subseteq Nat
    /\ NumTraces \in Nat
    /\ Garbage \subseteq Int

VARIABLES heap,         \* the arena, its break and its blocks
          ranges,       \* the range list
          blocks,       \* trace->blocks: the pointer last stored for each id
          block_sizes,  \* trace->block_sizes: the payload size last stored
          live,         \* the ids the trace has allocated and not freed
          status,       \* what the driver is doing with the current trace
          tracenum,     \* the current trace
          errors        \* the driver's global error count

driver == <<ranges, blocks, block_sizes>>
vars   == <<heap, ranges, blocks, block_sizes, live, status, tracenum, errors>>

SCHAR_MAX == 127

(* The arena comes uninitialised; so do blocks and block_sizes of a trace. *)
Init ==
    /\ \E g \in Garbage : heap = [mem  |-> [a \in WordAddrs |-> g],
                                  brk  |-> 0, blks |-> {}, gaps |-> {}]
    /\ ranges = {}
    /\ blocks = [i \in Ids |-> NULL]
    /\ block_sizes = [i \in Ids |-> 0]
    /\ live = {}
    /\ status = "idle"
    /\ tracenum = 0
    /\ errors = 0

-----------------------------------------------------------------------------
(* Mutant of Reject: an error nobody counts.                               *)
RejectUncounted(why) ==
    /\ status' = why
    /\ UNCHANGED <<blocks, block_sizes, live, tracenum, errors>>

(* malloc_error and "return 0": the trace is over and counts as failed.    *)
Reject(why) ==
    /\ status' = why
    /\ errors' = errors + 1
    /\ UNCHANGED <<blocks, block_sizes, live, tracenum>>

(* Mutant of Remember: the size of the block before it stays.              *)
RememberPointer(i, p, size) ==
    /\ blocks' = [blocks EXCEPT ![i] = p]
    /\ block_sizes' = IF i \in live THEN block_sizes
                                    ELSE [block_sizes EXCEPT ![i] = size]

(* The payload of a block the driver has just filled.                      *)
Remember(i, p, size) ==
    /\ blocks' = [blocks EXCEPT ![i] = p]
    /\ block_sizes' = [block_sizes EXCEPT ![i] = size]

Accept == UNCHANGED <<status, tracenum, errors>>

(* The check of the reallocated payload compares a char, signed on the     *)
(* build's machines, with index & 0xFF: no char equals a value above 127.  *)
KeepsData(h, p, size, i) ==
    \A a \in WordAddrs :
       p <= a /\ a < p + size =>
          h.mem[a] = Fill(i % 256) /\ i % 256 <= SCHAR_MAX

MinOf(x, y) == IF x < y THEN x ELSE y

-----------------------------------------------------------------------------
(* Mutant of StartTrace: one trace too many.                               *)
StartTraceTooOften ==
    /\ status = "idle" /\ tracenum <= NumTraces
    /\ status' = "valid"
    /\ UNCHANGED <<heap, ranges, blocks, block_sizes, live, tracenum, errors>>

(* eval_mm_valid up to its loop: reset the break and the range list and    *)
(* initialise the allocator.                                               *)
StartTrace ==
    /\ status = "idle" /\ tracenum < NumTraces
    /\ ranges' = {}
    /\ LET m == mm_init(mem_reset_brk(heap)) IN
         /\ heap' = m.heap
         /\ \/ m.ret = NULL /\ Reject("init failed")
            \/ /\ m.ret # NULL
               /\ status' = "running"
               /\ live' = {}
               /\ blocks' = [i \in Ids |-> NULL]
               /\ block_sizes' = [i \in Ids |-> 0]
               /\ UNCHANGED <<tracenum, errors>>

(* A trace goes on until the heap has a gap.  From then on the allocator   *)
(* takes whatever word ends the gap for a header, and may follow it out of *)
(* the arena: what the program does then is not modelled.                  *)
Serving == status = "running" /\ heap.gaps = {}

Alloc(i, size) ==
    /\ Serving /\ i \notin live
    /\ LET m == mm_malloc(heap, size)
           r == RangeOf(m.ret, size)
           ok == CanAddRange(ranges, mem_heap_lo, mem_heap_hi(m.heap), r)
       IN  \/ /\ m.ret = NULL
              /\ heap' = m.heap
              /\ UNCHANGED ranges
              /\ Reject("malloc failed")
           \/ /\ m.ret # NULL /\ ~ok
              /\ heap' = m.heap
              /\ UNCHANGED ranges
              /\ Reject("bad range")
           \/ /\ m.ret # NULL /\ ok
              /\ heap' = memset(m.heap, m.ret, i % 256, size)
              /\ ranges' = ranges \cup {r}
              /\ Remember(i, m.ret, size)
              /\ live' = live \cup {i}
              /\ Accept

Realloc(i, size, junk) ==
    /\ Serving /\ i \in live
    /\ LET oldp == blocks[i]
           m    == mm_realloc(heap, oldp, size, junk)
           r    == RangeOf(m.ret, size)
           rest == RemoveRange(ranges, oldp)
           ok   == CanAddRange(rest, mem_heap_lo, mem_heap_hi(m.heap), r)
           kept == KeepsData(m.heap, m.ret, MinOf(size, block_sizes[i]), i)
       IN  \/ /\ m.ret = NULL
              /\ heap' = m.heap
              /\ UNCHANGED ranges
              /\ Reject("realloc failed")
           \/ /\ m.ret # NULL /\ ~ok
              /\ heap' = m.heap
              /\ ranges' = rest
              /\ Reject("bad range")
           \/ /\ m.ret # NULL /\ ok /\ ~kept
              /\ heap' = m.heap
              /\ ranges' = rest \cup {r}
              /\ Reject("data lost")
           \/ /\ m.ret # NULL /\ ok /\ kept
              /\ heap' = memset(m.heap, m.ret, i % 256, size)
              /\ ranges' = rest \cup {r}
              /\ Remember(i, m.ret, size)
              /\ UNCHANGED live
              /\ Accept

Free(i) ==
    /\ Serving /\ i \in live
    /\ ranges' = RemoveRange(ranges, blocks[i])
    /\ heap' = mm_free(heap, blocks[i])
    /\ live' = live \ {i}
    /\ UNCHANGED <<blocks, block_sizes>>
    /\ Accept

(* The end of the trace, "return 1" of eval_mm_valid.                      *)
EndTrace ==
    /\ status = "running"
    /\ status' = "valid"
    /\ UNCHANGED <<heap, ranges, blocks, block_sizes, live, tracenum, errors>>

(* main's loop goes on to the next trace, whatever the verdict.            *)
NextTrace ==
    /\ status \notin {"idle", "running"}
    /\ status' = "idle"
    /\ tracenum' = tracenum + 1
    /\ UNCHANGED <<heap, ranges, blocks, block_sizes, live, errors>>

Next ==
    \/ StartTrace
    \/ \E i \in Ids, size \in Sizes : Alloc(i, size)
    \/ \E i \in Ids, size \in Sizes, junk \in Garbage : Realloc(i, size, junk)
    \/ \E i \in Ids : Free(i)
    \/ EndTrace
    \/ NextTrace

Spec == Init /\ [][Next]_vars

-----------------------------------------------------------------------------
Statuses == {"idle", "running", "valid", "init failed", "malloc failed",
             "realloc failed", "bad range", "data lost"}

(* Every variable has its type.                                            *)
TypeOK ==
    /\ heap \in Heaps
    /\ ranges \subseteq [lo : Int, hi : Int]
    /\ blocks \in [Ids -> Int]
    /\ block_sizes \in [Ids -> Nat]
    /\ live \subseteq Ids
    /\ status \in Statuses
    /\ tracenum \in 0 .. NumTraces
    /\ errors \in Nat

(* Between two requests the heap is well formed: boundary tags that agree, *)
(* blocks that tile the heap, no two free neighbours (mm.c).               *)
HeapOK == Serving => WellFormed(heap)

(* The walk of find_fit visits the blocks of the auxiliary variable, all   *)
(* of them and nothing else, and returns for every size what the closed    *)
(* form does (mm.c, find_fit).                                             *)
WalkFindsFirstFit ==
    Serving =>
      /\ Walk(heap) = heap.blks
      /\ \A s \in Sizes \ {0} :
           WalkFit(heap, AdjustedSize(s)) = find_fit(heap, AdjustedSize(s))

(* The allocated blocks are exactly the blocks of the live ids, each the   *)
(* block of one id and large enough for it: mm_realloc and mm_free leak    *)
(* nothing and free nothing twice (mm.c, mm_realloc and mm_free).          *)
AllocatedIffLive ==
    Serving =>
      /\ {b \in heap.blks : ~IsFree(heap, b)} = {blocks[i] : i \in live}
      /\ \A i, j \in live : blocks[i] = blocks[j] => i = j
      /\ \A i \in live :
            block_sizes[i] + DSIZE <= GET_SIZE(heap, HDRP(blocks[i]))

(* When nothing is live the whole heap is one free block again, whatever   *)
(* the trace did before (coalesce and the extension of a free tail).       *)
AllFreeIsOneBlock ==
    Serving /\ live = {} =>
      /\ heap.blks = {FirstBlock}
      /\ heap.mem[HDRP(FirstBlock)] = PACK(heap.brk - FirstBlock, 0)

(* The range list holds the payloads of the live ids and nothing else.     *)
RangesAreLive ==
    status = "running" =>
      ranges = {RangeOf(blocks[i], block_sizes[i]) : i \in live}

(* No request writes into the payload of another id: each live payload     *)
(* still holds the fill of its own id when the next request comes.         *)
PayloadsIntact ==
    status = "running" =>
      \A i \in live, a \in WordAddrs :
         blocks[i] <= a /\ a < blocks[i] + block_sizes[i] =>
            heap.mem[a] = Fill(i % 256)

(* The driver never rejects a pointer this allocator answers: each payload *)
(* is aligned, in the heap and apart from the live ones (mdriver.c,        *)
(* add_range on what mm_malloc and mm_realloc return).                     *)
NoBadRange == status # "bad range"

(* Nor does it ever miss the data of a reallocated payload, however far    *)
(* mm_realloc copies past the old one (mdriver.c, eval_mm_valid).          *)
NoDataLost == status # "data lost"

(* A request that fails leaves heap, pointers and range list as they were: *)
(* in particular a failed mm_realloc keeps the old block.                  *)
FailureIsHarmless ==
    [][status' \in {"malloc failed", "realloc failed"} /\ status = "running"
         => UNCHANGED <<heap, ranges, blocks, live>>]_vars

(* place has left no gap between two blocks (mm.c, place).                 *)
NoGaps == heap.gaps = {}

(* "Given block ptr bp, compute address of next and previous blocks"       *)
(* (mm.c:79): NEXT_BLKP of a block is a block, or the end of the heap.     *)
NextBlockIsBlock ==
    status = "running" =>
      \A b \in heap.blks : NEXT_BLKP(heap, b) \in heap.blks \cup {heap.brk}

(* "Make sure that the new block contains the data from the old block"     *)
(* (mdriver.c:693): a trace rejected for lost data has lost some.          *)
DataLossIsReal ==
    status = "data lost" =>
      \E i \in live, r \in ranges, a \in WordAddrs :
        /\ RangeOf(blocks[i], block_sizes[i]) \notin ranges
        /\ \A j \in live : r # RangeOf(blocks[j], block_sizes[j])
        /\ a \in r.lo .. r.hi /\ a < r.lo + block_sizes[i]
        /\ heap.mem[a] # Fill(i % 256)

-----------------------------------------------------------------------------
(* The client of Allocator is the driver; it has payloads while a trace is *)
(* being served.                                                           *)
Held == IF status = "running" THEN live ELSE {}

PayloadOf(i) == [lo |-> blocks[i], size |-> block_sizes[i]]

PayloadWords(i) == {a \in WordAddrs : blocks[i] <= a /\ a < blocks[i] + block_sizes[i]}

FillOfId(i) == Fill(i % 256)

Promise == INSTANCE Allocator WITH
    HeapSize <- MAX_HEAP,
    FillOf   <- FillOfId,
    up       <- status = "running",
    payload  <- [i \in Held |-> PayloadOf(i)],
    contents <- [i \in Held |-> [a \in PayloadWords(i) |-> heap.mem[a]]]

(* The driver's requests, served by mm.c, are requests of Allocator with   *)
(* answers Allocator allows (mm.c, mm_malloc, mm_realloc and mm_free).     *)
KeepsThePromise == Promise!Spec

=============================================================================
