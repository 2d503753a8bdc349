----------------------------- MODULE RangeCheck -----------------------------
(***************************************************************************)
(* The range check of the driver, against any malloc package.  mdriver.c   *)
(* is there to test whatever mm.c a student hands in, so here mm_malloc and *)
(* mm_realloc may answer any pointer at all, and the question is what the  *)
(* driver's verdict is worth: which payloads can be in use together in a   *)
(* trace it has not rejected.                                              *)
(***************************************************************************)
EXTENDS RangeList, FiniteSets

CONSTANTS Ids,     \* block ids
          Sizes,   \* request sizes (bytes)
          Addrs,   \* the pointers an allocator may answer
          HeapHi   \* mem_heap_hi: the last byte of its heap

ASSUME RangeAssumption ==
    /\ Sizes \subseteq Nat \ {0}
    /\ Addrs \subseteq Int
    /\ HeapHi \in Int

VARIABLES ranges,       \* the range list
          blocks,       \* trace->blocks
          block_sizes,  \* trace->block_sizes
          live,         \* the ids the trace has allocated and not freed
          rejected      \* the driver has counted an error and given up

vars == <<ranges, blocks, block_sizes, live, rejected>>

Init ==
    /\ ranges = {} /\ live = {} /\ rejected = FALSE
    /\ blocks \in [Ids -> {-1}] /\ block_sizes \in [Ids -> {0}]

(* add_range on the list rest, and what the driver does on its answer.     *)
CheckAndAdd(i, p, size, rest) ==
    LET r == RangeOf(p, size) IN
      \/ /\ CanAddRange(rest, 0, HeapHi, r)
         /\ ranges' = rest \cup {r}
         /\ blocks' = [blocks EXCEPT ![i] = p]
         /\ block_sizes' = [block_sizes EXCEPT ![i] = size]
         /\ live' = live \cup {i}
         /\ UNCHANGED rejected
      \/ /\ ~CanAddRange(rest, 0, HeapHi, r)
         /\ ranges' = rest
         /\ rejected' = TRUE
         /\ UNCHANGED <<blocks, block_sizes, live>>

(* A mm_malloc or a mm_realloc that answers NULL ends the trace.           *)
Refused ==
    /\ ~rejected
    /\ rejected' = TRUE
    /\ UNCHANGED <<ranges, blocks, block_sizes, live>>

Alloc(i, size, p) ==
    /\ ~rejected /\ i \notin live
    /\ CheckAndAdd(i, p, size, ranges)

(* The old range goes before the new one is checked.                       *)
Realloc(i, size, p) ==
    /\ ~rejected /\ i \in live
    /\ CheckAndAdd(i, p, size, RemoveRange(ranges, blocks[i]))

(* The new range is good, but the payload does not hold what the old did.  *)
DataLost(i, size, p) ==
    LET rest == RemoveRange(ranges, blocks[i])
        r    == RangeOf(p, size)
    IN  /\ ~rejected /\ i \in live
        /\ CanAddRange(rest, 0, HeapHi, r)
        /\ ranges' = rest \cup {r}
        /\ rejected' = TRUE
        /\ UNCHANGED <<blocks, block_sizes, live>>

Free(i) ==
    /\ ~rejected /\ i \in live
    /\ ranges' = RemoveRange(ranges, blocks[i])
    /\ live' = live \ {i}
    /\ UNCHANGED <<blocks, block_sizes, rejected>>

Next ==
    \/ \E i \in Ids, size \in Sizes, p \in Addrs : Alloc(i, size, p)
    \/ \E i \in Ids, size \in Sizes, p \in Addrs : Realloc(i, size, p)
    \/ \E i \in Ids, size \in Sizes, p \in Addrs : DataLost(i, size, p)
    \/ \E i \in Ids : Free(i)
    \/ Refused

Spec == Init /\ [][Next]_vars

-----------------------------------------------------------------------------
PayloadOf(i) == RangeOf(blocks[i], block_sizes[i])

Overlap(r, s) == r.lo <= s.hi /\ s.lo <= r.hi

Encloses(r, s) == r.lo < s.lo /\ s.hi < r.hi

(* Every variable has its type.                                            *)
TypeOK ==
    /\ ranges \subseteq [lo : Int, hi : Int]
    /\ blocks \in [Ids -> Int]
    /\ block_sizes \in [Ids -> Nat]
    /\ live \subseteq Ids
    /\ rejected \in BOOLEAN

(* Until it rejects a trace, the driver tracks the payloads of the live    *)
(* ids exactly: it forgets none of them, keeps none that was freed, and    *)
(* never mistakes one for another (mdriver.c, add_range and remove_range). *)
RangesAreLive ==
    ~rejected =>
      /\ ranges = {PayloadOf(i) : i \in live}
      /\ \A i, j \in live : PayloadOf(i) = PayloadOf(j) => i = j

(* Payloads the driver accepts together are aligned and inside the heap,   *)
(* and if two overlap one lies strictly inside the other: the test of the  *)
(* two ends catches every other overlap (mdriver.c, add_range).            *)
AcceptedPayloads ==
    ~rejected =>
      \A i \in live :
        /\ IsAligned(blocks[i]) /\ InHeap(PayloadOf(i), 0, HeapHi)
        /\ \A j \in live \ {i} :
             Overlap(PayloadOf(i), PayloadOf(j)) =>
               \/ Encloses(PayloadOf(i), PayloadOf(j))
               \/ Encloses(PayloadOf(j), PayloadOf(i))

(* "The payload must not overlap any other payloads" (mdriver.c:440).      *)
NoOverlapAccepted ==
    ~rejected =>
      \A i \in live, j \in live : i # j => ~Overlap(PayloadOf(i), PayloadOf(j))

=============================================================================
