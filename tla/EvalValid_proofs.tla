-------------------------- MODULE EvalValid_proofs --------------------------
(***************************************************************************)
(* Theorems of EvalValid, for every arena size, chunk size, set of ids,    *)
(* set of request sizes and content of the arena.                          *)
(***************************************************************************)
EXTENDS EvalValid, MM_proofs

(* The heap and the driver's table, as long as place has left no gap.  The *)
(* table is what makes the requests legal: a pointer the driver passes to  *)
(* mm_free or mm_realloc is an allocated block, because the live ids have  *)
(* one allocated block each.                                               *)
Agree(h, bl, bs, L) ==
  /\ Shape(h) /\ CoalescedOK(h)
  /\ \A b : AllocBlock(h, b) <=> \E i \in L : bl[i] = b
  /\ \A i, j \in L : bl[i] = bl[j] => i = j
  /\ \A i \in L : bs[i] + 8 <= BlockSize(h, bl[i])

(* Agree is HeapOK and AllocatedIffLive.                                   *)
LEMMA AgreeIs ==
  ASSUME heap.gaps = {}
  PROVE  Agree(heap, blocks, block_sizes, live) <=>
            /\ WellFormed(heap)
            /\ {b \in heap.blks : ~IsFree(heap, b)} = {blocks[i] : i \in live}
            /\ \A i, j \in live : blocks[i] = blocks[j] => i = j
            /\ \A i \in live :
                  block_sizes[i] + DSIZE <= GET_SIZE(heap, HDRP(blocks[i]))
<1>1. (\A b : AllocBlock(heap, b) <=> \E i \in live : blocks[i] = b)
        <=> {b \in heap.blks : ~IsFree(heap, b)} = {blocks[i] : i \in live}
  BY DEF AllocBlock
<1>2. WellFormed(heap) <=> Shape(heap) /\ CoalescedOK(heap)
  BY DEF WellFormed, Shape
<1>3. (\A i \in live : block_sizes[i] + 8 <= BlockSize(heap, blocks[i]))
        <=> \A i \in live : block_sizes[i] + DSIZE <= GET_SIZE(heap, HDRP(blocks[i]))
  BY DEF BlockSize, DSIZE
<1> QED BY <1>1, <1>2, <1>3 DEF Agree

-----------------------------------------------------------------------------
(* g is h with a new block p for the id i: the other ids of L keep theirs.  *)
NewBlock(h, g, bl, bs, L, i, p, size) ==
  /\ Shape(g) /\ CoalescedOK(g) /\ size + 8 <= BlockSize(g, p)
  /\ \A b : AllocBlock(g, b) <=> (b = p \/ \E j \in L \ {i} : bl[j] = b)
  /\ \A j \in L \ {i} : /\ bl[j] # p /\ Kept(h, g, bl[j])
                        /\ bs[j] + 8 <= BlockSize(h, bl[j])
  /\ \A j, k \in L : bl[j] = bl[k] => j = k

(* The driver's table before and after it stores p for i.                  *)
Stored(bl, bs, L, bl2, bs2, M, i, p, size) ==
  /\ bl2[i] = p /\ bs2[i] = size
  /\ \A j \in L \ {i} : bl2[j] = bl[j] /\ bs2[j] = bs[j]
  /\ M = L \cup {i}

(* Once the driver has stored a new block, heap and table agree again.     *)
LEMMA AgreeAfterGrant ==
  ASSUME NEW h, NEW g, NEW bl, NEW bs, NEW L, NEW bl2, NEW bs2, NEW M,
         NEW i, NEW p, NEW size,
         NewBlock(h, g, bl, bs, L, i, p, size),
         Stored(bl, bs, L, bl2, bs2, M, i, p, size)
  PROVE  Agree(g, bl2, bs2, M)
<1> USE DEF NewBlock, Stored
<1>3. /\ bl2[i] = p /\ bs2[i] = size
      /\ \A j \in L \ {i} : bl2[j] = bl[j] /\ bs2[j] = bs[j]
  OBVIOUS
<1>4. \A j \in L \ {i} : BlockSize(g, bl[j]) = BlockSize(h, bl[j])
  BY DEF Kept, BlockSize, GET_SIZE, HDRP, WSIZE
<1>5. \A b : AllocBlock(g, b) <=> \E j \in M : bl2[j] = b
  BY <1>3
<1>6. \A j, k \in M : bl2[j] = bl2[k] => j = k
  BY <1>3
<1>7. \A j \in M : bs2[j] + 8 <= BlockSize(g, bl2[j])
  BY <1>3, <1>4
<1> QED BY <1>5, <1>6, <1>7 DEF Agree

(* What the fill that follows a mm_malloc or mm_realloc leaves.            *)
LEMMA FillKeeps ==
  ASSUME NEW k \in Heaps, NEW p \in Nat, NEW v \in Int, NEW size \in Nat,
         NEW g, g = memset(k, p, v, size)
  PROVE  /\ g \in Heaps /\ g.brk = k.brk /\ g.gaps = k.gaps
         /\ Shape(k) /\ CoalescedOK(k) /\ AllocBlock(k, p) /\ size + 8 <= BlockSize(k, p)
              => /\ Shape(g) /\ CoalescedOK(g) /\ BlockSize(g, p) = BlockSize(k, p)
                 /\ \A b : /\ AllocBlock(g, b) <=> AllocBlock(k, b)
                           /\ AllocBlock(k, b) /\ b # p => Kept(k, g, b)
<1>1. Wrote(k, g, p, size)
  BY MemsetFields
<1>2. g \in Heaps /\ g.brk = k.brk /\ g.gaps = k.gaps
  BY <1>1 DEF Wrote
<1>3. ASSUME Shape(k), CoalescedOK(k), AllocBlock(k, p), size + 8 <= BlockSize(k, p)
      PROVE  /\ Shape(g) /\ CoalescedOK(g) /\ BlockSize(g, p) = BlockSize(k, p)
             /\ \A b : /\ AllocBlock(g, b) <=> AllocBlock(k, b)
                       /\ AllocBlock(k, b) /\ b # p => Kept(k, g, b)
  BY <1>1, <1>3, PayloadWritten
<1> QED BY <1>2, <1>3

(* Keeping a block and its tags is transitive.                             *)
LEMMA KeptTrans ==
  ASSUME NEW h, NEW k, NEW g, NEW b, Kept(h, k, b), Kept(k, g, b)
  PROVE  Kept(h, g, b)
<1>1. BlockSize(k, b) = BlockSize(h, b)
  BY DEF Kept, BlockSize, GET_SIZE, HDRP, WSIZE
<1> QED BY <1>1 DEF Kept

(* A mm_malloc that answers a block, and the fill of its payload.          *)
LEMMA AllocStep ==
  ASSUME NEW h \in Heaps, h.gaps = {},
         NEW bl \in [Ids -> Int], NEW bs \in [Ids -> Nat], NEW L \in SUBSET Ids,
         Agree(h, bl, bs, L),
         NEW i \in Ids, i \notin L, NEW size \in Nat, NEW v \in Int,
         NEW m, m = mm_malloc(h, size), m.ret # NULL,
         NEW g, g = memset(m.heap, m.ret, v, size),
         NEW bl2, NEW bs2, NEW M, Stored(bl, bs, L, bl2, bs2, M, i, m.ret, size)
  PROVE  /\ m.heap \in Heaps /\ m.ret \in Int /\ g \in Heaps /\ g.brk >= h.brk
         /\ g.gaps = {} => Agree(g, bl2, bs2, M)
<1>1. Shape(h) /\ CoalescedOK(h)
  BY DEF Agree
<1>2. Granted(h, m, size)
  BY <1>1, MallocWorks
<1>3. PICK k : k = m.heap
  OBVIOUS
<1>4. PICK p : p = m.ret
  OBVIOUS
<1>5. /\ k \in Heaps /\ p \in Nat /\ k.brk >= h.brk
      /\ \A b : AllocBlock(h, b) => b # p /\ Kept(h, k, b)
      /\ k.gaps = {} =>
          /\ Shape(k) /\ CoalescedOK(k)
          /\ AllocBlock(k, p) /\ BlockSize(k, p) >= size + 8
          /\ \A b : b # p => (AllocBlock(k, b) <=> AllocBlock(h, b))
  BY <1>2, <1>3, <1>4 DEF Granted
<1>6. g = memset(k, p, v, size)
  BY <1>3, <1>4
<1>7. g \in Heaps /\ g.gaps = k.gaps /\ g.brk >= h.brk
  BY <1>5, <1>6, FillKeeps
<1>8. ASSUME g.gaps = {}
      PROVE  Agree(g, bl2, bs2, M)
  <2>1. /\ Shape(k) /\ CoalescedOK(k)
        /\ AllocBlock(k, p) /\ BlockSize(k, p) >= size + 8
        /\ \A b : b # p => (AllocBlock(k, b) <=> AllocBlock(h, b))
    BY <1>5, <1>7, <1>8
  <2>2. BlockSize(k, p) \in Nat
    BY <2>1, <1>5, BlockFacts DEF AllocBlock
  <2>3. size + 8 <= BlockSize(k, p)
    BY <2>1, <2>2
  <2>4. /\ Shape(g) /\ CoalescedOK(g) /\ BlockSize(g, p) = BlockSize(k, p)
        /\ \A b : /\ AllocBlock(g, b) <=> AllocBlock(k, b)
                  /\ AllocBlock(k, b) /\ b # p => Kept(k, g, b)
    BY <2>1, <2>3, <1>5, <1>6, FillKeeps
  <2>5. \A j \in L \ {i} : AllocBlock(h, bl[j]) /\ bs[j] + 8 <= BlockSize(h, bl[j])
    BY DEF Agree
  <2>6. \A j \in L \ {i} : bl[j] # p /\ AllocBlock(k, bl[j]) /\ Kept(h, k, bl[j])
    BY <2>1, <2>5, <1>5
  <2>7. \A j \in L \ {i} : Kept(h, g, bl[j])
    BY <2>4, <2>6, KeptTrans
  <2>8. \A b : AllocBlock(g, b) <=> b = p \/ \E j \in L \ {i} : bl[j] = b
    BY <2>1, <2>4 DEF Agree
  <2>9. \A j, l \in L : bl[j] = bl[l] => j = l
    BY DEF Agree
  <2>10. NewBlock(h, g, bl, bs, L, i, p, size)
    BY <2>3, <2>4, <2>5, <2>6, <2>7, <2>8, <2>9 DEF NewBlock
  <2>11. Stored(bl, bs, L, bl2, bs2, M, i, p, size)
    BY <1>4
  <2> QED BY <2>10, <2>11, AgreeAfterGrant
<1> QED BY <1>3, <1>4, <1>5, <1>7, <1>8

(* A mm_realloc that answers a block, and the fill of its payload.         *)
LEMMA ReallocStep ==
  ASSUME NEW h \in Heaps, h.gaps = {},
         NEW bl \in [Ids -> Int], NEW bs \in [Ids -> Nat], NEW L \in SUBSET Ids,
         Agree(h, bl, bs, L),
         NEW i \in L, NEW size \in Nat, NEW v \in Int, NEW junk \in Int,
         NEW m, m = mm_realloc(h, bl[i], size, junk), m.ret # NULL,
         NEW g, g = memset(m.heap, m.ret, v, size),
         NEW bl2, NEW bs2, Stored(bl, bs, L, bl2, bs2, L, i, m.ret, size)
  PROVE  /\ m.heap \in Heaps /\ m.ret \in Int /\ g \in Heaps /\ g.brk >= h.brk
         /\ g.gaps = {} => Agree(g, bl2, bs2, L)
<1>1. Shape(h) /\ CoalescedOK(h) /\ AllocBlock(h, bl[i])
  BY DEF Agree
<1>2. Moved(h, m, bl[i], size)
  BY <1>1, ReallocWorks
<1>3. PICK k : k = m.heap
  OBVIOUS
<1>4. PICK p : p = m.ret
  OBVIOUS
<1>5. /\ k \in Heaps /\ p \in Nat /\ k.brk >= h.brk
      /\ \A b : AllocBlock(h, b) => b # p
      /\ k.gaps = {} =>
          /\ Shape(k) /\ CoalescedOK(k)
          /\ BlockSize(k, p) >= size + 8
          /\ \A b : AllocBlock(k, b) <=> b = p \/ (AllocBlock(h, b) /\ b # bl[i])
          /\ \A b : AllocBlock(h, b) /\ b # bl[i] => Kept(h, k, b)
  BY <1>2, <1>3, <1>4 DEF Moved
<1>6. g = memset(k, p, v, size)
  BY <1>3, <1>4
<1>7. g \in Heaps /\ g.gaps = k.gaps /\ g.brk >= h.brk
  BY <1>5, <1>6, FillKeeps
<1>8. ASSUME g.gaps = {}
      PROVE  Agree(g, bl2, bs2, L)
  <2>1. /\ Shape(k) /\ CoalescedOK(k)
        /\ BlockSize(k, p) >= size + 8
        /\ \A b : AllocBlock(k, b) <=> b = p \/ (AllocBlock(h, b) /\ b # bl[i])
        /\ \A b : AllocBlock(h, b) /\ b # bl[i] => Kept(h, k, b)
    BY <1>5, <1>7, <1>8
  <2>2. AllocBlock(k, p)
    BY <2>1
  <2>3. BlockSize(k, p) \in Nat
    BY <2>1, <2>2, <1>5, BlockFacts DEF AllocBlock
  <2>4. size + 8 <= BlockSize(k, p)
    BY <2>1, <2>3
  <2>5. /\ Shape(g) /\ CoalescedOK(g) /\ BlockSize(g, p) = BlockSize(k, p)
        /\ \A b : /\ AllocBlock(g, b) <=> AllocBlock(k, b)
                  /\ AllocBlock(k, b) /\ b # p => Kept(k, g, b)
    BY <2>1, <2>2, <2>4, <1>5, <1>6, FillKeeps
  <2>6. \A j \in L \ {i} : /\ AllocBlock(h, bl[j]) /\ bl[j] # bl[i]
                           /\ bs[j] + 8 <= BlockSize(h, bl[j])
    BY DEF Agree
  <2>7. \A j \in L \ {i} : bl[j] # p /\ AllocBlock(k, bl[j]) /\ Kept(h, k, bl[j])
    BY <2>1, <2>6, <1>5
  <2>8. \A j \in L \ {i} : Kept(h, g, bl[j])
    BY <2>5, <2>7, KeptTrans
  <2>9. \A b : (AllocBlock(h, b) /\ b # bl[i]) <=> (\E j \in L \ {i} : bl[j] = b)
    BY DEF Agree
  <2>10. \A b : AllocBlock(g, b) <=> b = p \/ \E j \in L \ {i} : bl[j] = b
    BY <2>1, <2>5, <2>9
  <2>11. \A j, l \in L : bl[j] = bl[l] => j = l
    BY DEF Agree
  <2>12. i \in Ids /\ L = L \cup {i}
    OBVIOUS
  <2>13. NewBlock(h, g, bl, bs, L, i, p, size)
    BY <2>4, <2>5, <2>6, <2>7, <2>8, <2>10, <2>11 DEF NewBlock
  <2>14. Stored(bl, bs, L, bl2, bs2, L, i, p, size)
    BY <1>4
  <2> QED BY <2>13, <2>14, AgreeAfterGrant
<1> QED BY <1>3, <1>4, <1>5, <1>7, <1>8

(* An mm_free of the block of a live id takes that id off the table.       *)
LEMMA FreeStep ==
  ASSUME NEW h \in Heaps, NEW bl, NEW bs, NEW L, Agree(h, bl, bs, L), NEW i \in L,
         NEW g, g = mm_free(h, bl[i])
  PROVE  g \in Heaps /\ g.gaps = h.gaps /\ g.brk = h.brk /\ Agree(g, bl, bs, L \ {i})
<1>1. Shape(h) /\ CoalescedOK(h) /\ AllocBlock(h, bl[i])
  BY DEF Agree
<1>2. Freed(h, g, bl[i])
  BY <1>1, FreeWorks
<1>3. g \in Heaps /\ g.gaps = h.gaps /\ g.brk = h.brk /\ Shape(g) /\ CoalescedOK(g)
  BY <1>2 DEF Freed
<1>4. \A b : AllocBlock(g, b) <=> AllocBlock(h, b) /\ b # bl[i]
  BY <1>2 DEF Freed
<1>5. \A b : AllocBlock(h, b) /\ b # bl[i] <=> \E j \in L \ {i} : bl[j] = b
  BY DEF Agree
<1>6. \A j, l \in L \ {i} : bl[j] = bl[l] => j = l
  BY DEF Agree
<1>7. ASSUME NEW j \in L \ {i} PROVE bs[j] + 8 <= BlockSize(g, bl[j])
  <2>1. AllocBlock(g, bl[j])
    BY <1>4, <1>5
  <2>2. BlockSize(g, bl[j]) = BlockSize(h, bl[j])
    BY <2>1, <1>2 DEF Freed, Kept, BlockSize, GET_SIZE, HDRP, WSIZE
  <2> QED BY <2>2 DEF Agree
<1> QED BY <1>3, <1>4, <1>5, <1>6, <1>7 DEF Agree

-----------------------------------------------------------------------------
(* The extents of the payloads of the ids of L.                            *)
RangesOf(bl, bs, L) == {RangeOf(bl[i], bs[i]) : i \in L}

(* Taking the range of i out of the list by its address takes no other.    *)
LEMMA RangeRemoved ==
  ASSUME NEW bl, NEW bs, NEW L, NEW i \in L,
         \A j, k \in L : bl[j] = bl[k] => j = k
  PROVE  RemoveRange(RangesOf(bl, bs, L), bl[i]) = RangesOf(bl, bs, L \ {i})
BY DEF RemoveRange, RangesOf, RangeOf

(* The list after the driver has stored a payload and its range.           *)
LEMMA RangeAdded ==
  ASSUME NEW bl, NEW bs, NEW L, NEW bl2, NEW bs2, NEW M, NEW i, NEW p, NEW size,
         Stored(bl, bs, L, bl2, bs2, M, i, p, size)
  PROVE  RangesOf(bl2, bs2, M) = RangesOf(bl, bs, L \ {i}) \cup {RangeOf(p, size)}
BY DEF Stored, RangesOf

(* A payload of size bytes at p that add_range accepts whatever the blocks *)
(* of h hold.                                                              *)
Apart(h, g, p, size) ==
  /\ p \in Nat /\ p % 8 = 0 /\ p >= 16
  /\ g.brk \in Nat /\ p + size + 8 <= g.brk
  /\ \A b : AllocBlock(h, b) =>
       b + BlockSize(h, b) <= p \/ p + size + 8 <= b

(* The range check passes: alignment, bounds, and both ends of the new     *)
(* range outside every old one.                                            *)
LEMMA RangeAccepted ==
  ASSUME NEW h \in Heaps, NEW g, NEW bl \in [Ids -> Int], NEW bs \in [Ids -> Nat],
         NEW L \in SUBSET Ids, Agree(h, bl, bs, L), NEW S, S \subseteq L,
         NEW p, NEW size \in Nat, Apart(h, g, p, size)
  PROVE  CanAddRange(RangesOf(bl, bs, S), mem_heap_lo, mem_heap_hi(g), RangeOf(p, size))
<1>1. PICK r : r = RangeOf(p, size)
  OBVIOUS
<1>2. /\ p \in Nat /\ p % 8 = 0 /\ p >= 16
      /\ g.brk \in Nat /\ p + size + 8 <= g.brk
  BY DEF Apart
<1>3. r.lo = p /\ r.hi = p + size - 1
  BY <1>1 DEF RangeOf
<1>4. IsAligned(r.lo) /\ InHeap(r, mem_heap_lo, mem_heap_hi(g))
  BY <1>2, <1>3 DEF IsAligned, ALIGNMENT, InHeap, mem_heap_lo, mem_heap_hi
<1>5. ASSUME NEW q \in RangesOf(bl, bs, S)
      PROVE  ~InRange(r.lo, q) /\ ~InRange(r.hi, q)
  <2>1. PICK j \in S : q = RangeOf(bl[j], bs[j])
    BY <1>5 DEF RangesOf
  <2>2. q.lo = bl[j] /\ q.hi = bl[j] + bs[j] - 1
    BY <2>1 DEF RangeOf
  <2>3. j \in Ids /\ bl[j] \in Int /\ bs[j] \in Nat
    BY <2>1
  <2>4. /\ AllocBlock(h, bl[j]) /\ bs[j] + 8 <= BlockSize(h, bl[j])
        /\ Shape(h)
    BY <2>1 DEF Agree
  <2>5. BlockSize(h, bl[j]) \in Nat
    BY <2>4, BlockFacts DEF AllocBlock
  <2>6. bl[j] + BlockSize(h, bl[j]) <= p \/ p + size + 8 <= bl[j]
    BY <2>4 DEF Apart
  <2> QED BY <2>2, <2>3, <2>4, <2>5, <2>6, <1>2, <1>3 DEF InRange
<1>6. CanAddRange(RangesOf(bl, bs, S), mem_heap_lo, mem_heap_hi(g), r)
  BY <1>4, <1>5 DEF CanAddRange, EndsInside
<1> QED BY <1>1, <1>6

-----------------------------------------------------------------------------
(* The inductive invariant.  AllocatedIffLive alone is not inductive: that *)
(* a freed block was allocated needs the table, that its neighbours can be *)
(* trusted needs the heap, and that the table stays one-to-one needs both. *)
IInv ==
  /\ TypeOK
  /\ status # "idle" => tracenum < NumTraces
  /\ Serving => Agree(heap, blocks, block_sizes, live) /\ heap.brk > 16
  /\ RangesAreLive
  /\ NoBadRange

(* The first state.                                                        *)
LEMMA InitInv == Init => IInv
<1> SUFFICES ASSUME Init PROVE IInv
  OBVIOUS
<1>1. PICK g \in Garbage : heap = [mem  |-> [a \in WordAddrs |-> g],
                                  brk  |-> 0, blks |-> {}, gaps |-> {}]
  BY DEF Init
<1>2. g \in Int /\ 0 \in 0 .. MAX_HEAP
  BY MaxHeapAssumption, DriverAssumption
<1>3. heap \in Heaps
  BY <1>1, <1>2 DEF Heaps
<1>4. TypeOK
  BY <1>3, DriverAssumption DEF Init, TypeOK, Statuses, NULL, NoAddr
<1> QED BY <1>4 DEF Init, IInv, Serving, RangesAreLive, NoBadRange

(* A new trace: an empty heap and an empty table, or no trace at all.      *)
LEMMA StartTraceInv ==
  ASSUME IInv, StartTrace
  PROVE  IInv'
<1>0. TypeOK /\ RangesAreLive /\ NoBadRange
  BY DEF IInv
<1>1. PICK h : h = mem_reset_brk(heap)
  OBVIOUS
<1>2. h \in Heaps /\ h.brk = 0
  BY <1>0, <1>1, MaxHeapAssumption DEF TypeOK, mem_reset_brk, Heaps
<1>3. PICK m : m = mm_init(h)
  OBVIOUS
<1>4. m.heap \in Heaps
  BY <1>2, <1>3, InitWorks
<1>5. heap' = m.heap /\ ranges' = {}
  BY <1>1, <1>3 DEF StartTrace
<1>6. status = "idle" /\ tracenum < NumTraces
  BY DEF StartTrace
<1>7. CASE m.ret = NULL /\ Reject("init failed")
  <2>1. status' = "init failed" /\ "init failed" \in Statuses
    BY <1>7 DEF Reject, Statuses
  <2>2. TypeOK'
    <3>1. /\ blocks' = blocks /\ block_sizes' = block_sizes /\ live' = live
          /\ tracenum' = tracenum /\ errors' = errors + 1
      BY <1>7 DEF Reject
    <3>2. errors' \in Nat
      BY <3>1, <1>0 DEF TypeOK
    <3> QED BY <2>1, <3>1, <3>2, <1>0, <1>4, <1>5 DEF TypeOK
  <2>3. ~Serving' /\ RangesAreLive' /\ NoBadRange' /\ tracenum' < NumTraces
    BY <2>1, <1>6, <1>7 DEF Reject, Serving, RangesAreLive, NoBadRange
  <2> QED BY <2>2, <2>3 DEF IInv
<1>8. CASE /\ m.ret # NULL
           /\ status' = "running"
           /\ live' = {}
           /\ blocks' = [i \in Ids |-> NULL]
           /\ block_sizes' = [i \in Ids |-> 0]
           /\ UNCHANGED <<tracenum, errors>>
  <2>1. TypeOK'
    <3>1. status' \in Statuses
      BY <1>8 DEF Statuses
    <3>2. blocks' \in [Ids -> Int] /\ block_sizes' \in [Ids -> Nat]
      BY <1>8 DEF NULL, NoAddr
    <3> QED BY <3>1, <3>2, <1>0, <1>4, <1>5, <1>8 DEF TypeOK
  <2>2. Shape(m.heap) /\ CoalescedOK(m.heap) /\ m.heap.brk > 16
        /\ \A b : ~AllocBlock(m.heap, b)
    BY <1>2, <1>3, <1>8, InitWorks
  <2>3. Agree(m.heap, blocks', block_sizes', live')
    BY <2>2, <1>8 DEF Agree
  <2>4. RangesAreLive'
    BY <1>5, <1>8 DEF RangesAreLive
  <2>5. NoBadRange' /\ tracenum' < NumTraces
    BY <1>6, <1>8 DEF NoBadRange
  <2> QED BY <2>1, <2>2, <2>3, <2>4, <2>5, <1>5 DEF IInv
<1> QED BY <1>1, <1>3, <1>7, <1>8 DEF StartTrace

(* The extents of a list are integers.                                     *)
RangesTyped(R) == R \subseteq [lo : Int, hi : Int]

(* The verdicts of a request that fails, but for "bad range".              *)
OtherVerdict(why) ==
  why \in Statuses /\ why # "bad range" /\ why # "running"

(* What a refused request leaves, given that its heap is typed.            *)
LEMMA RejectInv ==
  ASSUME IInv, Serving, NEW why, OtherVerdict(why), Reject(why),
         heap' \in Heaps, RangesTyped(ranges')
  PROVE  IInv'
<1>1. TypeOK /\ tracenum < NumTraces
  BY DEF IInv, Serving
<1>2. status' = why /\ why # "bad range" /\ why # "running" /\ why \in Statuses
  BY DEF Reject, OtherVerdict
<1>3. TypeOK'
  <2>1. /\ blocks' = blocks /\ block_sizes' = block_sizes /\ live' = live
        /\ tracenum' = tracenum /\ errors' = errors + 1
    BY DEF Reject
  <2>2. errors' \in Nat
    BY <2>1, <1>1 DEF TypeOK
  <2>3. tracenum' \in 0 .. NumTraces
    BY <2>1, <1>1 DEF TypeOK
  <2>4. /\ blocks' \in [Ids -> Int] /\ block_sizes' \in [Ids -> Nat]
        /\ live' \subseteq Ids
    BY <2>1, <1>1 DEF TypeOK
  <2> QED BY <2>2, <2>3, <2>4, <1>2 DEF TypeOK, RangesTyped
<1>4. tracenum' < NumTraces
  BY <1>1 DEF Reject
<1> QED BY <1>2, <1>3, <1>4 DEF IInv, Serving, RangesAreLive, NoBadRange

(* A payload is a range of integers.                                       *)
LEMMA RangeTyped ==
  ASSUME NEW p \in Int, NEW size \in Nat
  PROVE  RangeOf(p, size) \in [lo : Int, hi : Int]
BY DEF RangeOf

(* A mm_malloc, and a mm_realloc, that answers a block answers one that    *)
(* add_range accepts.                                                      *)
LEMMA GrantedApart ==
  ASSUME NEW h \in Heaps, NEW m, NEW size \in Nat, m.ret # NULL,
         Granted(h, m, size) \/ \E ptr : Moved(h, m, ptr, size)
  PROVE  Apart(h, m.heap, m.ret, size) /\ m.heap \in Heaps
<1>1. /\ m.ret \in Nat /\ m.ret % 8 = 0 /\ m.ret >= 16
      /\ m.heap \in Heaps /\ m.ret + size + 8 <= m.heap.brk
      /\ \A b : AllocBlock(h, b) =>
           b + BlockSize(h, b) <= m.ret \/ m.ret + size + 8 <= b
  BY DEF Granted, Moved
<1>2. m.heap.brk \in Nat
  BY <1>1, MaxHeapAssumption DEF Heaps
<1> QED BY <1>1, <1>2 DEF Apart

(* What a request that is served leaves, given that heap and table agree.  *)
LEMMA AcceptInv ==
  ASSUME IInv, Serving, Accept, heap' \in Heaps, heap'.brk >= heap.brk,
         heap'.gaps = {} => Agree(heap', blocks', block_sizes', live'),
         ranges' = RangesOf(blocks', block_sizes', live'),
         RangesTyped(ranges'),
         blocks' \in [Ids -> Int], block_sizes' \in [Ids -> Nat], live' \subseteq Ids
  PROVE  IInv'
<1>1. TypeOK /\ tracenum < NumTraces /\ NoBadRange /\ heap.brk > 16
  BY DEF IInv, Serving
<1>2. status' = status /\ tracenum' = tracenum /\ errors' = errors
  BY DEF Accept
<1>3. TypeOK'
  BY <1>1, <1>2 DEF TypeOK, RangesTyped
<1>4. heap'.brk > 16
  <2>1. heap.brk \in Int /\ heap'.brk \in Int
    BY <1>1, MaxHeapAssumption DEF TypeOK, Heaps
  <2> QED BY <2>1, <1>1
<1>5. RangesAreLive'
  BY DEF RangesAreLive, RangesOf
<1> QED BY <1>1, <1>2, <1>3, <1>4, <1>5 DEF IInv, Serving, NoBadRange

(* The list after a payload has been stored is typed.                      *)
LEMMA RangesOfTyped ==
  ASSUME NEW bl \in [Ids -> Int], NEW bs \in [Ids -> Nat], NEW L \in SUBSET Ids
  PROVE  RangesTyped(RangesOf(bl, bs, L))
BY DEF RangesOf, RangesTyped, RangeOf

(* mm_malloc, the range check and the fill.                                *)
LEMMA AllocInv ==
  ASSUME IInv, NEW i \in Ids, NEW size \in Sizes, Alloc(i, size)
  PROVE  IInv'
<1>1. PICK m : m = mm_malloc(heap, size)
  OBVIOUS
<1>2. PICK r : r = RangeOf(m.ret, size)
  OBVIOUS
<1>3. /\ Serving /\ i \notin live /\ heap.gaps = {} /\ size \in Nat
      /\ i % 256 \in Int
  <2>1. i \in Nat /\ size \in Nat
    BY DriverAssumption
  <2>2. i % 256 \in Int
    BY <2>1
  <2> QED BY <2>1, <2>2 DEF Alloc, Serving
<1>4. /\ heap \in Heaps /\ blocks \in [Ids -> Int] /\ block_sizes \in [Ids -> Nat]
      /\ live \in SUBSET Ids /\ RangesTyped(ranges)
  BY DEF IInv, TypeOK, RangesTyped
<1>5. Agree(heap, blocks, block_sizes, live)
  BY <1>3 DEF IInv
<1>6. ranges = RangesOf(blocks, block_sizes, live)
  BY <1>3 DEF IInv, RangesAreLive, RangesOf, Serving
<1>7. Granted(heap, m, size)
  BY <1>1, <1>3, <1>4, <1>5, MallocWorks DEF Agree
<1>8. m.heap \in Heaps
  BY <1>4, <1>7 DEF Granted
<1>9. m.ret # NULL => CanAddRange(ranges, mem_heap_lo, mem_heap_hi(m.heap), r)
  <2> HAVE m.ret # NULL
  <2>1. Apart(heap, m.heap, m.ret, size)
    BY <1>3, <1>4, <1>7, GrantedApart
  <2> QED BY <2>1, <1>2, <1>3, <1>4, <1>5, <1>6, RangeAccepted
<1>10. CASE /\ m.ret = NULL
            /\ heap' = m.heap
            /\ UNCHANGED ranges
            /\ Reject("malloc failed")
  <2>1. OtherVerdict("malloc failed")
    BY DEF OtherVerdict, Statuses
  <2>2. heap' \in Heaps /\ RangesTyped(ranges')
    BY <1>4, <1>8, <1>10
  <2> QED BY <2>1, <2>2, <1>3, <1>10, RejectInv
<1>11. CASE /\ m.ret # NULL
            /\ heap' = memset(m.heap, m.ret, i % 256, size)
            /\ ranges' = ranges \cup {r}
            /\ Remember(i, m.ret, size)
            /\ live' = live \cup {i}
            /\ Accept
  <2>1. blocks' = [blocks EXCEPT ![i] = m.ret] /\ block_sizes' = [block_sizes EXCEPT ![i] = size]
    BY <1>11 DEF Remember
  <2>2. /\ m.ret \in Int /\ heap' \in Heaps /\ heap'.brk >= heap.brk
        /\ heap'.gaps = {} => Agree(heap', blocks', block_sizes', live')
    <3>1. PICK v \in Int : v = i % 256
      BY <1>3
    <3>2. heap' = memset(m.heap, m.ret, v, size) /\ m.ret # NULL
      BY <3>1, <1>11
    <3>3. PICK g, bl, bs, M : g = heap' /\ bl = blocks' /\ bs = block_sizes' /\ M = live'
      OBVIOUS
    <3>4. /\ g = memset(m.heap, m.ret, v, size)
          /\ Stored(blocks, block_sizes, live, bl, bs, M, i, m.ret, size)
      BY <3>2, <3>3, <2>1, <1>4, <1>11 DEF Stored
    <3>5. /\ m.ret \in Int /\ g \in Heaps /\ g.brk >= heap.brk
          /\ g.gaps = {} => Agree(g, bl, bs, M)
      BY <3>2, <3>4, <1>1, <1>3, <1>4, <1>5, AllocStep
    <3> QED BY <3>3, <3>5
  <2>3. /\ blocks' \in [Ids -> Int] /\ block_sizes' \in [Ids -> Nat]
        /\ live' \in SUBSET Ids
    BY <2>1, <2>2, <1>3, <1>4, <1>11
  <2>4. Stored(blocks, block_sizes, live, blocks', block_sizes', live', i, m.ret, size)
    BY <2>1, <1>4, <1>11 DEF Stored
  <2>5. ranges' = RangesOf(blocks', block_sizes', live')
    <3>1. live \ {i} = live
      BY <1>3
    <3> QED BY <3>1, <2>4, <1>2, <1>6, <1>11, RangeAdded
  <2>6. RangesTyped(ranges')
    BY <2>3, <2>5, RangesOfTyped
  <2> QED BY <2>2, <2>3, <2>5, <2>6, <1>3, <1>11, AcceptInv
<1> QED BY <1>1, <1>2, <1>9, <1>10, <1>11 DEF Alloc

(* mm_realloc, the range check, the data check and the fill.               *)
LEMMA ReallocInv ==
  ASSUME IInv, NEW i \in Ids, NEW size \in Sizes, NEW junk \in Garbage,
         Realloc(i, size, junk)
  PROVE  IInv'
<1>1. PICK m : m = mm_realloc(heap, blocks[i], size, junk)
  OBVIOUS
<1>2. PICK r : r = RangeOf(m.ret, size)
  OBVIOUS
<1>3. /\ Serving /\ i \in live /\ heap.gaps = {} /\ size \in Nat
      /\ i % 256 \in Int /\ junk \in Int
  <2>1. i \in Nat /\ size \in Nat /\ junk \in Int
    BY DriverAssumption
  <2>2. i % 256 \in Int
    BY <2>1
  <2> QED BY <2>1, <2>2 DEF Realloc, Serving
<1>4. /\ heap \in Heaps /\ blocks \in [Ids -> Int] /\ block_sizes \in [Ids -> Nat]
      /\ live \in SUBSET Ids /\ RangesTyped(ranges)
  BY DEF IInv, TypeOK, RangesTyped
<1>5. Agree(heap, blocks, block_sizes, live)
  BY <1>3 DEF IInv
<1>6. PICK rest : rest = RemoveRange(ranges, blocks[i])
  OBVIOUS
<1>7. rest = RangesOf(blocks, block_sizes, live \ {i})
  <2>1. ranges = RangesOf(blocks, block_sizes, live)
    BY <1>3 DEF IInv, RangesAreLive, RangesOf, Serving
  <2>2. \A j, k \in live : blocks[j] = blocks[k] => j = k
    BY <1>5 DEF Agree
  <2> QED BY <2>1, <2>2, <1>3, <1>6, RangeRemoved
<1>8. RangesTyped(rest)
  BY <1>4, <1>6 DEF RangesTyped, RemoveRange
<1>9. Moved(heap, m, blocks[i], size)
  <2>1. Shape(heap) /\ CoalescedOK(heap) /\ AllocBlock(heap, blocks[i])
    BY <1>3, <1>5 DEF Agree
  <2> QED BY <2>1, <1>1, <1>3, <1>4, ReallocWorks
<1>10. m.heap \in Heaps
  BY <1>4, <1>9 DEF Moved
<1>11. m.ret # NULL => CanAddRange(rest, mem_heap_lo, mem_heap_hi(m.heap), r)
  <2> HAVE m.ret # NULL
  <2>1. Apart(heap, m.heap, m.ret, size)
    BY <1>3, <1>4, <1>9, GrantedApart
  <2>2. live \ {i} \subseteq live
    OBVIOUS
  <2> QED BY <2>1, <2>2, <1>2, <1>3, <1>4, <1>5, <1>7, RangeAccepted
<1>12. CASE /\ m.ret = NULL
            /\ heap' = m.heap
            /\ UNCHANGED ranges
            /\ Reject("realloc failed")
  <2>1. OtherVerdict("realloc failed")
    BY DEF OtherVerdict, Statuses
  <2>2. heap' \in Heaps /\ RangesTyped(ranges')
    BY <1>4, <1>10, <1>12
  <2> QED BY <2>1, <2>2, <1>3, <1>12, RejectInv
<1>13. CASE /\ m.ret # NULL
            /\ heap' = m.heap
            /\ ranges' = rest \cup {r}
            /\ Reject("data lost")
  <2>1. OtherVerdict("data lost")
    BY DEF OtherVerdict, Statuses
  <2>2. m.ret \in Int
    <3>1. Apart(heap, m.heap, m.ret, size)
      BY <1>3, <1>4, <1>9, <1>13, GrantedApart
    <3> QED BY <3>1 DEF Apart
  <2>3. r \in [lo : Int, hi : Int]
    BY <2>2, <1>2, <1>3, RangeTyped
  <2>4. heap' \in Heaps /\ RangesTyped(ranges')
    BY <2>3, <1>8, <1>10, <1>13 DEF RangesTyped
  <2> QED BY <2>1, <2>4, <1>3, <1>13, RejectInv
<1>14. CASE /\ m.ret # NULL
            /\ heap' = memset(m.heap, m.ret, i % 256, size)
            /\ ranges' = rest \cup {r}
            /\ Remember(i, m.ret, size)
            /\ UNCHANGED live
            /\ Accept
  <2>1. blocks' = [blocks EXCEPT ![i] = m.ret] /\ block_sizes' = [block_sizes EXCEPT ![i] = size]
    BY <1>14 DEF Remember
  <2>2. /\ m.ret \in Int /\ heap' \in Heaps /\ heap'.brk >= heap.brk
        /\ heap'.gaps = {} => Agree(heap', blocks', block_sizes', live)
    <3>1. PICK v \in Int : v = i % 256
      BY <1>3
    <3>2. heap' = memset(m.heap, m.ret, v, size) /\ m.ret # NULL
      BY <3>1, <1>14
    <3>3. PICK g, bl, bs, M : g = heap' /\ bl = blocks' /\ bs = block_sizes' /\ M = live'
      OBVIOUS
    <3>4. /\ g = memset(m.heap, m.ret, v, size) /\ M = live
          /\ Stored(blocks, block_sizes, live, bl, bs, live, i, m.ret, size)
      BY <3>2, <3>3, <2>1, <1>3, <1>4, <1>14 DEF Stored
    <3>5. /\ m.ret \in Int /\ g \in Heaps /\ g.brk >= heap.brk
          /\ g.gaps = {} => Agree(g, bl, bs, M)
      BY <3>2, <3>4, <1>1, <1>3, <1>4, <1>5, ReallocStep
    <3> QED BY <3>3, <3>5, <1>14
  <2>3. /\ blocks' \in [Ids -> Int] /\ block_sizes' \in [Ids -> Nat]
        /\ live' \in SUBSET Ids /\ live' = live /\ live = live \cup {i}
    BY <2>1, <2>2, <1>3, <1>4, <1>14
  <2>4. Stored(blocks, block_sizes, live, blocks', block_sizes', live', i, m.ret, size)
    BY <2>1, <2>3, <1>4 DEF Stored
  <2>5. ranges' = RangesOf(blocks', block_sizes', live')
    BY <2>4, <1>2, <1>7, <1>14, RangeAdded
  <2>6. RangesTyped(ranges')
    BY <2>3, <2>5, RangesOfTyped
  <2> QED BY <2>2, <2>3, <2>5, <2>6, <1>3, <1>14, AcceptInv
<1> QED BY <1>1, <1>2, <1>6, <1>11, <1>12, <1>13, <1>14 DEF Realloc

(* mm_free.                                                                *)
LEMMA FreeInv ==
  ASSUME IInv, NEW i \in Ids, Free(i)
  PROVE  IInv'
<1>1. /\ Serving /\ i \in live /\ Accept
      /\ heap' = mm_free(heap, blocks[i]) /\ ranges' = RemoveRange(ranges, blocks[i])
      /\ live' = live \ {i} /\ blocks' = blocks /\ block_sizes' = block_sizes
  BY DEF Free
<1>2. /\ heap \in Heaps /\ blocks \in [Ids -> Int] /\ block_sizes \in [Ids -> Nat]
      /\ live \in SUBSET Ids
  BY DEF IInv, TypeOK
<1>3. Agree(heap, blocks, block_sizes, live)
  BY <1>1 DEF IInv
<1>4. ranges' = RangesOf(blocks, block_sizes, live \ {i})
  <2>1. ranges = RangesOf(blocks, block_sizes, live)
    BY <1>1 DEF IInv, RangesAreLive, RangesOf, Serving
  <2>2. \A j, k \in live : blocks[j] = blocks[k] => j = k
    BY <1>3 DEF Agree
  <2> QED BY <2>1, <2>2, <1>1, RangeRemoved
<1>5. /\ heap' \in Heaps /\ heap'.gaps = heap.gaps /\ heap'.brk = heap.brk
      /\ Agree(heap', blocks, block_sizes, live \ {i})
  BY <1>1, <1>2, <1>3, FreeStep
<1>6. live \ {i} \in SUBSET Ids /\ heap.brk \in Int
  BY <1>2, MaxHeapAssumption DEF Heaps
<1>7. RangesTyped(ranges')
  BY <1>2, <1>4, <1>6, RangesOfTyped
<1> QED BY <1>1, <1>2, <1>4, <1>5, <1>6, <1>7, AcceptInv

(* The end of a trace, and the step to the next.                           *)
LEMMA TraceEndInv ==
  ASSUME IInv, EndTrace \/ NextTrace
  PROVE  IInv'
<1>1. TypeOK /\ NoBadRange
  BY DEF IInv
<1>2. CASE EndTrace
  <2>1. /\ status' = "valid" /\ tracenum' < NumTraces
        /\ "valid" \in Statuses
    BY <1>2 DEF IInv, EndTrace, Statuses
  <2>2. TypeOK'
    BY <2>1, <1>1, <1>2 DEF EndTrace, TypeOK
  <2> QED BY <2>1, <2>2 DEF IInv, Serving, RangesAreLive, NoBadRange
<1>3. CASE NextTrace
  <2>1. status' = "idle" /\ tracenum' = tracenum + 1 /\ tracenum < NumTraces
        /\ "idle" \in Statuses
    BY <1>3 DEF IInv, NextTrace, Statuses
  <2>2. tracenum' \in 0 .. NumTraces
    BY <2>1, <1>1, DriverAssumption DEF TypeOK
  <2>3. TypeOK'
    BY <2>1, <2>2, <1>1, <1>3 DEF NextTrace, TypeOK
  <2> QED BY <2>1, <2>3 DEF IInv, Serving, RangesAreLive, NoBadRange
<1> QED BY <1>2, <1>3

(* Every step, and the step that changes nothing.                          *)
LEMMA NextInv == IInv /\ [Next]_vars => IInv'
<1> SUFFICES ASSUME IInv, [Next]_vars PROVE IInv'
  OBVIOUS
<1>1. CASE StartTrace
  BY <1>1, StartTraceInv
<1>2. CASE \E i \in Ids, size \in Sizes : Alloc(i, size)
  BY <1>2, AllocInv
<1>3. CASE \E i \in Ids, size \in Sizes, junk \in Garbage : Realloc(i, size, junk)
  BY <1>3, ReallocInv
<1>4. CASE \E i \in Ids : Free(i)
  BY <1>4, FreeInv
<1>5. CASE EndTrace \/ NextTrace
  BY <1>5, TraceEndInv
<1>6. CASE UNCHANGED vars
  BY <1>6 DEF vars, IInv, TypeOK, Serving, RangesAreLive, NoBadRange
<1> QED BY <1>1, <1>2, <1>3, <1>4, <1>5, <1>6 DEF Next

(* The inductive invariant holds in every reachable state.                 *)
THEOREM Invariance == Spec => []IInv
BY InitInv, NextInv, PTL DEF Spec

-----------------------------------------------------------------------------
(* A well-formed heap without allocated blocks is one free block: it has a *)
(* first block, and coalescing forbids a second.                           *)
LEMMA OneBlock ==
  ASSUME NEW h \in Heaps, Shape(h), CoalescedOK(h), h.brk > 16,
         \A b : ~AllocBlock(h, b)
  PROVE  h.blks = {16} /\ h.mem[12] = h.brk - 16
<1>1. 16 \in h.blks
  BY DEF Shape, TilingOK, FirstBlock, heap_listp, WSIZE, DSIZE
<1>2. /\ BlockSize(h, 16) \in Nat /\ BlockSize(h, 16) >= 16
      /\ 16 + BlockSize(h, 16) \in h.blks \cup {h.brk}
      /\ 16 - 4 \in WordAddrs /\ h.mem[16 - 4] \in Int
  BY <1>1, BlockFacts
<1>3. \A b \in h.blks : IsFree(h, b)
  BY DEF AllocBlock
<1>4. 16 + BlockSize(h, 16) \notin h.blks
  BY <1>1, <1>3 DEF CoalescedOK, NEXT_BLKP, BlockSize
<1>5. 16 + BlockSize(h, 16) = h.brk
  BY <1>2, <1>4
<1>6. ASSUME NEW c \in h.blks PROVE c = 16
  <2>1. c \in Nat /\ c >= 16 /\ BlockSize(h, c) >= 16 /\ BlockSize(h, c) \in Nat
        /\ c + BlockSize(h, c) <= h.brk
    BY BlockFacts
  <2>2. c > 16 => h.brk <= c
    BY <1>1, <1>2, <1>5, <2>1, OrderFacts
  <2>3. h.brk \in Nat
    BY <1>1, BlockFacts
  <2> QED BY <2>1, <2>2, <2>3
<1>7. h.mem[12] \in Int /\ h.mem[12] % 8 \in {0, 1} /\ h.mem[12] % 2 = 0
      /\ h.mem[12] - (h.mem[12] % 8) = BlockSize(h, 16)
  <2>1. 16 - 4 = 12
    OBVIOUS
  <2>2. h.mem[12] \in Int /\ h.mem[12] % 8 \in {0, 1}
    BY <1>1, <2>1, BlockFacts
  <2>3. h.mem[12] % 2 = 0
    BY <1>1, <1>3, <2>1 DEF IsFree, GET_ALLOC, HDRP, WSIZE
  <2>4. h.mem[12] - (h.mem[12] % 8) = BlockSize(h, 16)
    BY <2>1 DEF BlockSize, GET_SIZE, HDRP, WSIZE
  <2> QED BY <2>2, <2>3, <2>4
<1>8. h.mem[12] = h.brk - 16
  <2>1. PICK x \in Int : x = h.mem[12]
    BY <1>7
  <2>2. x % 8 \in {0, 1} /\ x % 2 = 0 => x % 8 = 0
    OBVIOUS
  <2> QED BY <2>1, <2>2, <1>2, <1>5, <1>7
<1> QED BY <1>1, <1>6, <1>8

(* What the inductive invariant says of a state.                           *)
LEMMA IInvImplies ==
  IInv => TypeOK /\ HeapOK /\ AllocatedIffLive /\ AllFreeIsOneBlock
            /\ RangesAreLive /\ NoBadRange
<1> SUFFICES ASSUME IInv
             PROVE  TypeOK /\ HeapOK /\ AllocatedIffLive /\ AllFreeIsOneBlock
                      /\ RangesAreLive /\ NoBadRange
  OBVIOUS
<1>1. TypeOK /\ RangesAreLive /\ NoBadRange
  BY DEF IInv
<1>2. Serving => Agree(heap, blocks, block_sizes, live) /\ heap.gaps = {} /\ heap.brk > 16
  BY DEF IInv, Serving
<1>3. HeapOK /\ AllocatedIffLive
  BY <1>2, AgreeIs DEF HeapOK, AllocatedIffLive
<1>4. AllFreeIsOneBlock
  <2> SUFFICES ASSUME Serving, live = {}
               PROVE  /\ heap.blks = {FirstBlock}
                      /\ heap.mem[HDRP(FirstBlock)] = PACK(heap.brk - FirstBlock, 0)
    BY DEF AllFreeIsOneBlock
  <2>1. heap \in Heaps /\ heap.brk \in Int
    BY <1>1, MaxHeapAssumption DEF TypeOK, Heaps
  <2>2. Shape(heap) /\ CoalescedOK(heap) /\ \A b : ~AllocBlock(heap, b)
    BY <1>2 DEF Agree
  <2>3. heap.blks = {16} /\ heap.mem[12] = heap.brk - 16
    BY <2>1, <2>2, <1>2, OneBlock
  <2>4. FirstBlock = 16 /\ HDRP(16) = 12
    BY DEF FirstBlock, heap_listp, HDRP, WSIZE, DSIZE
  <2>5. PACK(heap.brk - 16, 0) = heap.brk - 16
    BY <2>1 DEF PACK
  <2> QED BY <2>3, <2>4, <2>5
<1> QED BY <1>1, <1>3, <1>4

(* Every variable keeps its type, the words of the arena included.         *)
THEOREM TypeCorrect == Spec => []TypeOK
BY Invariance, IInvImplies, PTL

(* The allocator keeps its heap well formed: tags that agree, blocks that  *)
(* tile the heap, no two free neighbours.                                  *)
THEOREM HeapStaysWellFormed == Spec => []HeapOK
BY Invariance, IInvImplies, PTL

(* The walk of find_fit with NEXT_BLKP visits exactly the blocks and stops *)
(* at the lowest that fits (mm.c, find_fit).                               *)
THEOREM FirstFitByWalking == Spec => []WalkFindsFirstFit
<1>1. IInv => WalkFindsFirstFit
  <2> SUFFICES ASSUME IInv, Serving
               PROVE  /\ Walk(heap) = heap.blks
                      /\ \A s \in Sizes \ {0} :
                           WalkFit(heap, AdjustedSize(s)) = find_fit(heap, AdjustedSize(s))
    BY DEF WalkFindsFirstFit
  <2>1. heap \in Heaps /\ Shape(heap)
    BY DEF IInv, TypeOK, Agree
  <2>2. \A s \in Sizes : AdjustedSize(s) \in Nat
    BY AdjustedSizeFacts, DriverAssumption
  <2> QED BY <2>1, <2>2, WalkIsBlocks, WalkFitIs
<1> QED BY <1>1, Invariance, PTL

(* Allocated blocks and live ids correspond one to one.                    *)
THEOREM NoLeakNoDoubleUse == Spec => []AllocatedIffLive
BY Invariance, IInvImplies, PTL

(* Once everything is freed the heap is one block again.                   *)
THEOREM NoFragmentsLeft == Spec => []AllFreeIsOneBlock
BY Invariance, IInvImplies, PTL

(* The range list is the list of the live payloads.                        *)
THEOREM RangeListIsExact == Spec => []RangesAreLive
BY Invariance, IInvImplies, PTL

(* The range check never rejects an answer of this allocator.              *)
THEOREM RangeCheckPasses == Spec => []NoBadRange
BY Invariance, IInvImplies, PTL

-----------------------------------------------------------------------------
(* A NULL of mm_malloc or mm_realloc comes with the heap of the request.   *)
LEMMA NullChangesNothing ==
  ASSUME NEW h, NEW m, NEW ptr, NEW size, m.ret = NULL,
         Granted(h, m, size) \/ Moved(h, m, ptr, size)
  PROVE  m.heap = h
BY DEF Granted, Moved, NULL, NoAddr

(* One step of the property.                                               *)
LEMMA FailureStep ==
  ASSUME IInv, [Next]_vars,
         status' \in {"malloc failed", "realloc failed"}, status = "running"
  PROVE  UNCHANGED <<heap, ranges, blocks, live>>
<1>1. CASE StartTrace
  BY <1>1 DEF StartTrace
<1>2. ASSUME NEW i \in Ids, NEW size \in Sizes, Alloc(i, size)
      PROVE  UNCHANGED <<heap, ranges, blocks, live>>
  <2>1. PICK m : m = mm_malloc(heap, size)
    OBVIOUS
  <2>2. /\ m.ret = NULL /\ heap' = m.heap
        /\ UNCHANGED ranges /\ Reject("malloc failed")
    BY <1>2, <2>1 DEF Alloc, Reject, Accept
  <2>3. Granted(heap, m, size)
    <3>1. Serving /\ heap.gaps = {} /\ size \in Nat
      BY <1>2, DriverAssumption DEF Alloc, Serving
    <3>2. heap \in Heaps /\ Shape(heap) /\ CoalescedOK(heap)
      BY <3>1 DEF IInv, TypeOK, Agree
    <3> QED BY <2>1, <3>1, <3>2, MallocWorks
  <2>4. m.heap = heap
    BY <2>2, <2>3, NullChangesNothing
  <2> QED BY <2>2, <2>4 DEF Reject
<1>3. ASSUME NEW i \in Ids, NEW size \in Sizes, NEW junk \in Garbage,
             Realloc(i, size, junk)
      PROVE  UNCHANGED <<heap, ranges, blocks, live>>
  <2>1. PICK m : m = mm_realloc(heap, blocks[i], size, junk)
    OBVIOUS
  <2>2. /\ m.ret = NULL /\ heap' = m.heap
        /\ UNCHANGED ranges /\ Reject("realloc failed")
    BY <1>3, <2>1 DEF Realloc, Reject, Accept
  <2>3. Moved(heap, m, blocks[i], size)
    <3>1. Serving /\ heap.gaps = {} /\ size \in Nat /\ i \in live /\ junk \in Int
      BY <1>3, DriverAssumption DEF Realloc, Serving
    <3>2. /\ heap \in Heaps /\ Shape(heap) /\ CoalescedOK(heap)
          /\ AllocBlock(heap, blocks[i])
      BY <3>1 DEF IInv, TypeOK, Agree
    <3> QED BY <2>1, <3>1, <3>2, ReallocWorks
  <2>4. m.heap = heap
    BY <2>2, <2>3, NullChangesNothing
  <2> QED BY <2>2, <2>4 DEF Reject
<1>4. CASE \E i \in Ids : Free(i)
  BY <1>4 DEF Free, Accept
<1>5. CASE EndTrace \/ NextTrace
  BY <1>5 DEF EndTrace, NextTrace
<1>6. CASE UNCHANGED vars
  BY <1>6 DEF vars
<1> QED BY <1>1, <1>2, <1>3, <1>4, <1>5, <1>6 DEF Next

(* A request that fails leaves heap, pointers and range list as they were. *)
THEOREM FailedRequestsAreHarmless == Spec => FailureIsHarmless
<1>1. IInv /\ [Next]_vars =>
        [status' \in {"malloc failed", "realloc failed"} /\ status = "running"
           => UNCHANGED <<heap, ranges, blocks, live>>]_vars
  BY FailureStep
<1> QED BY <1>1, Invariance, PTL DEF Spec, FailureIsHarmless

-----------------------------------------------------------------------------
(* What the client finds in its payloads.  No request writes into a        *)
(* payload that is not its own, and mm_realloc carries the old payload     *)
(* over, even with the request after which place has left a gap and the    *)
(* heap is no longer well formed.                                          *)

(* The payload of every id of L holds the fill of that id.                 *)
Intact(h, bl, bs, L) ==
  \A i \in L, a \in WordAddrs :
     bl[i] <= a /\ a < bl[i] + bs[i] => h.mem[a] = Fill(i % 256)

(* A payload lies inside its block, in front of the footer.                *)
LEMMA PayloadInBlock ==
  ASSUME NEW h \in Heaps, NEW bl \in [Ids -> Int], NEW bs \in [Ids -> Nat],
         NEW L \in SUBSET Ids, Agree(h, bl, bs, L), NEW i \in L
  PROVE  /\ bl[i] \in Nat /\ bl[i] % 8 = 0 /\ bl[i] >= 16 /\ bs[i] \in Nat
         /\ BlockSize(h, bl[i]) \in Nat /\ bs[i] + 8 <= BlockSize(h, bl[i])
         /\ bl[i] + BlockSize(h, bl[i]) <= h.brk
         /\ h.brk \in Nat /\ h.brk <= MAX_HEAP
         /\ AllocBlock(h, bl[i])
<1>1. Shape(h) /\ AllocBlock(h, bl[i]) /\ bs[i] + 8 <= BlockSize(h, bl[i])
  BY DEF Agree
<1>2. bl[i] \in h.blks
  BY <1>1 DEF AllocBlock
<1>3. bs[i] \in Nat
  OBVIOUS
<1> QED BY <1>1, <1>2, <1>3, BlockFacts

(* k has the payloads that h has for the ids of L but i, and they are      *)
(* apart from a block for size bytes at p.                                 *)
Beside(h, k, bl, L, i, p, size) ==
  \A j \in L \ {i} :
     /\ PayloadKept(h, k, bl[j])
     /\ bl[j] + BlockSize(h, bl[j]) <= p \/ p + size + 8 <= bl[j]

(* The fill of a new payload leaves the others alone, which the request    *)
(* before it has left alone.                                               *)
LEMMA IntactAfterFill ==
  ASSUME NEW h \in Heaps, NEW bl \in [Ids -> Int], NEW bs \in [Ids -> Nat],
         NEW L \in SUBSET Ids, Agree(h, bl, bs, L), Intact(h, bl, bs, L),
         NEW i \in Ids, NEW k \in Heaps, NEW p \in Nat, NEW size \in Nat,
         Beside(h, k, bl, L, i, p, size),
         NEW v \in Int, v = i % 256, NEW g, g = memset(k, p, v, size),
         NEW bl2, NEW bs2, NEW M, Stored(bl, bs, L, bl2, bs2, M, i, p, size)
  PROVE  Intact(g, bl2, bs2, M)
<1>1. /\ \A w \in WordAddrs : ~(p <= w /\ w < p + size) => g.mem[w] = k.mem[w]
      /\ \A w \in WordAddrs : p <= w /\ w < p + size => g.mem[w] = Fill(v)
  <2>1. Wrote(k, g, p, size)
        /\ \A w \in WordAddrs : p <= w /\ w < p + size => g.mem[w] = Fill(v)
    BY MemsetFields
  <2> QED BY <2>1 DEF Wrote
<1>2. ASSUME NEW a \in WordAddrs, bl2[i] <= a, a < bl2[i] + bs2[i]
      PROVE  g.mem[a] = Fill(i % 256)
  <2>1. p <= a /\ a < p + size
    BY <1>2 DEF Stored
  <2> QED BY <2>1, <1>1
<1>3. ASSUME NEW j \in L \ {i}, NEW a \in WordAddrs, bl2[j] <= a, a < bl2[j] + bs2[j]
      PROVE  g.mem[a] = Fill(j % 256)
  <2>1. bl2[j] = bl[j] /\ bs2[j] = bs[j]
    BY DEF Stored
  <2>2. /\ bl[j] \in Nat /\ bs[j] \in Nat /\ BlockSize(h, bl[j]) \in Nat
        /\ bs[j] + 8 <= BlockSize(h, bl[j])
    BY PayloadInBlock
  <2>3. a \in Nat
    BY DEF WordAddrs
  <2>4. bl[j] <= a /\ a < bl[j] + bs[j] /\ a < bl[j] + BlockSize(h, bl[j]) - 8
    BY <2>1, <2>2, <2>3, <1>3
  <2>5. ~(p <= a /\ a < p + size)
    BY <2>2, <2>3, <2>4 DEF Beside
  <2>6. k.mem[a] = h.mem[a]
    BY <2>4 DEF Beside, PayloadKept
  <2>7. h.mem[a] = Fill(j % 256)
    BY <2>4 DEF Intact
  <2> QED BY <2>5, <2>6, <2>7, <1>1
<1>4. M = L \cup {i}
  BY DEF Stored
<1> QED BY <1>2, <1>3, <1>4 DEF Intact

(* Taking an id off the table and leaving the others' blocks alone.        *)
LEMMA IntactAfterFree ==
  ASSUME NEW h \in Heaps, NEW bl \in [Ids -> Int], NEW bs \in [Ids -> Nat],
         NEW L \in SUBSET Ids, Agree(h, bl, bs, L), Intact(h, bl, bs, L),
         NEW i \in L, NEW g, g = mm_free(h, bl[i])
  PROVE  Intact(g, bl, bs, L \ {i})
<1> SUFFICES ASSUME NEW j \in L \ {i}, NEW a \in WordAddrs,
                    bl[j] <= a, a < bl[j] + bs[j]
             PROVE  g.mem[a] = Fill(j % 256)
  BY DEF Intact
<1>1. /\ bl[j] \in Nat /\ bs[j] \in Nat /\ BlockSize(h, bl[j]) \in Nat
      /\ bs[j] + 8 <= BlockSize(h, bl[j])
  BY PayloadInBlock
<1>2. Freed(h, g, bl[i])
  <2>1. Shape(h) /\ CoalescedOK(h) /\ AllocBlock(h, bl[i])
    BY DEF Agree
  <2> QED BY <2>1, FreeWorks
<1>3. AllocBlock(h, bl[j]) /\ bl[j] # bl[i]
  BY DEF Agree
<1>4. Kept(h, g, bl[j])
  BY <1>2, <1>3 DEF Freed
<1>5. a \in Nat
  BY DEF WordAddrs
<1>6. g.mem[a] = h.mem[a]
  BY <1>1, <1>4, <1>5 DEF Kept
<1> QED BY <1>6 DEF Intact

(* The driver's check of the reallocated payload passes.                   *)
LEMMA DataKept ==
  ASSUME NEW h \in Heaps, NEW bl \in [Ids -> Int], NEW bs \in [Ids -> Nat],
         NEW L \in SUBSET Ids, Agree(h, bl, bs, L), Intact(h, bl, bs, L),
         NEW i \in L, i % 256 <= SCHAR_MAX, NEW size \in Nat,
         NEW m, m.ret # NULL, Moved(h, m, bl[i], size)
  PROVE  KeepsData(m.heap, m.ret, MinOf(size, bs[i]), i)
<1>1. PICK n : n = MinOf(size, bs[i])
  OBVIOUS
<1>2. /\ bl[i] \in Nat /\ bl[i] % 8 = 0 /\ bs[i] \in Nat /\ BlockSize(h, bl[i]) \in Nat
      /\ bs[i] + 8 <= BlockSize(h, bl[i])
      /\ bl[i] + BlockSize(h, bl[i]) <= MAX_HEAP
  <2>1. MAX_HEAP \in Nat
    BY MaxHeapAssumption
  <2> QED BY <2>1, PayloadInBlock
<1>3. n \in Nat /\ n <= size /\ n <= bs[i]
  BY <1>1, <1>2 DEF MinOf
<1>4. m.ret \in Nat /\ m.ret % 8 = 0 /\ Carried(h, m, bl[i], size)
  BY DEF Moved
<1>5. ASSUME NEW a \in WordAddrs, m.ret <= a, a < m.ret + n
      PROVE  m.heap.mem[a] = Fill(i % 256)
  <2>1. a \in Nat /\ a % 4 = 0
    BY DEF WordAddrs, WSIZE
  <2>2. a < m.ret + size /\ a - m.ret < BlockSize(h, bl[i]) - 8
    <3>1. PICK p, bz, b : p = m.ret /\ bz = BlockSize(h, bl[i]) /\ b = bs[i]
      OBVIOUS
    <3>2. p \in Nat /\ bz \in Nat /\ b \in Nat /\ b + 8 <= bz /\ n <= b /\ p <= a /\ a < p + n
      BY <3>1, <1>2, <1>3, <1>4, <1>5
    <3>3. a < p + size /\ a - p < bz - 8
      BY <3>2, <2>1, <1>3
    <3> QED BY <3>1, <3>3
  <2>3. m.heap.mem[a] = h.mem[bl[i] + (a - m.ret)]
    BY <2>2, <1>4, <1>5 DEF Carried
  <2>4. PICK c : c = bl[i] + (a - m.ret)
    OBVIOUS
  <2>5. c \in Nat /\ bl[i] <= c /\ c < bl[i] + bs[i] /\ c + 4 <= MAX_HEAP
    <3>1. MAX_HEAP \in Nat
      BY MaxHeapAssumption
    <3> QED BY <3>1, <2>1, <2>4, <1>2, <1>3, <1>4, <1>5
  <2>6. c % 4 = 0
    BY <2>1, <2>4, <1>2, <1>4
  <2>7. c \in WordAddrs
    BY <2>5, <2>6, MaxHeapAssumption DEF WordAddrs, WSIZE
  <2>8. h.mem[c] = Fill(i % 256)
    BY <2>5, <2>7 DEF Intact
  <2> QED BY <2>3, <2>4, <2>8
<1> QED BY <1>1, <1>5 DEF KeepsData

-----------------------------------------------------------------------------
(* The inductive invariant: what the payloads hold needs the heap and the  *)
(* table of IInv, which say that the payloads are apart.                   *)
PInv == IInv /\ PayloadsIntact

(* PayloadsIntact is Intact of the driver's table.                         *)
LEMMA IntactIs ==
  PayloadsIntact <=> (status = "running" => Intact(heap, blocks, block_sizes, live))
BY DEF PayloadsIntact, Intact

(* mm_malloc and the fill.                                                 *)
LEMMA AllocIntact ==
  ASSUME PInv, NEW i \in Ids, NEW size \in Sizes, Alloc(i, size)
  PROVE  PayloadsIntact'
<1>1. PICK m : m = mm_malloc(heap, size)
  OBVIOUS
<1>2. i \in Nat /\ size \in Nat /\ i % 256 \in Int
  BY DriverAssumption
<1>3. Serving /\ i \notin live /\ heap.gaps = {} /\ status = "running"
  BY DEF Alloc, Serving
<1>4. /\ heap \in Heaps /\ blocks \in [Ids -> Int] /\ block_sizes \in [Ids -> Nat]
      /\ live \in SUBSET Ids /\ Agree(heap, blocks, block_sizes, live)
  BY <1>3 DEF PInv, IInv, TypeOK
<1>5. Intact(heap, blocks, block_sizes, live)
  BY <1>3, IntactIs DEF PInv
<1>6. Granted(heap, m, size)
  BY <1>1, <1>2, <1>3, <1>4, MallocWorks DEF Agree
<1>7. CASE status' = "malloc failed" \/ status' = "bad range"
  BY <1>7 DEF PayloadsIntact
<1>8. CASE /\ m.ret # NULL
           /\ heap' = memset(m.heap, m.ret, i % 256, size)
           /\ Remember(i, m.ret, size)
           /\ live' = live \cup {i}
  <2>1. m.heap \in Heaps /\ m.ret \in Nat
    BY <1>6, <1>8 DEF Granted
  <2>2. ASSUME NEW j \in live \ {i}
        PROVE  /\ PayloadKept(heap, m.heap, blocks[j])
               /\ \/ blocks[j] + BlockSize(heap, blocks[j]) <= m.ret
                  \/ m.ret + size + 8 <= blocks[j]
    <3>1. AllocBlock(heap, blocks[j])
      BY <1>4 DEF Agree
    <3>2. Kept(heap, m.heap, blocks[j])
      BY <3>1, <1>6, <1>8 DEF Granted
    <3> QED BY <3>1, <3>2, <1>6, <1>8 DEF Granted, Kept, PayloadKept
  <2>3. Stored(blocks, block_sizes, live, blocks', block_sizes', live', i, m.ret, size)
    BY <1>4, <1>8 DEF Remember, Stored
  <2>4. PICK v \in Int : v = i % 256
    BY <1>2
  <2>5. PICK g, bl, bs, M : g = heap' /\ bl = blocks' /\ bs = block_sizes' /\ M = live'
    OBVIOUS
  <2>6. g = memset(m.heap, m.ret, v, size)
        /\ Stored(blocks, block_sizes, live, bl, bs, M, i, m.ret, size)
    BY <2>3, <2>4, <2>5, <1>8
  <2>7. Intact(g, bl, bs, M)
    <3>1. PICK k, p : k = m.heap /\ p = m.ret
      OBVIOUS
    <3>2. k \in Heaps /\ p \in Nat /\ size \in Nat
      BY <3>1, <2>1, <1>2
    <3>3. Beside(heap, k, blocks, live, i, p, size)
      BY <3>1, <2>2 DEF Beside
    <3>4. g = memset(k, p, v, size)
          /\ Stored(blocks, block_sizes, live, bl, bs, M, i, p, size)
      BY <3>1, <2>6
    <3> QED BY <3>2, <3>3, <3>4, <2>4, <1>4, <1>5, IntactAfterFill
  <2> QED BY <2>5, <2>7, IntactIs DEF Intact, PayloadsIntact
<1> QED BY <1>1, <1>7, <1>8 DEF Alloc, Reject

(* mm_realloc, the check of the data and the fill.                         *)
LEMMA ReallocIntact ==
  ASSUME PInv, NEW i \in Ids, NEW size \in Sizes, NEW junk \in Garbage,
         Realloc(i, size, junk)
  PROVE  PayloadsIntact' /\ (i % 256 <= SCHAR_MAX => status' # "data lost")
<1>1. PICK m : m = mm_realloc(heap, blocks[i], size, junk)
  OBVIOUS
<1>2. i \in Nat /\ size \in Nat /\ i % 256 \in Int /\ junk \in Int
  BY DriverAssumption
<1>3. Serving /\ i \in live /\ heap.gaps = {} /\ status = "running"
  BY DEF Realloc, Serving
<1>4. /\ heap \in Heaps /\ blocks \in [Ids -> Int] /\ block_sizes \in [Ids -> Nat]
      /\ live \in SUBSET Ids /\ Agree(heap, blocks, block_sizes, live)
  BY <1>3 DEF PInv, IInv, TypeOK
<1>5. Intact(heap, blocks, block_sizes, live)
  BY <1>3, IntactIs DEF PInv
<1>6. Moved(heap, m, blocks[i], size)
  <2>1. Shape(heap) /\ CoalescedOK(heap) /\ AllocBlock(heap, blocks[i])
    BY <1>3, <1>4 DEF Agree
  <2> QED BY <2>1, <1>1, <1>2, <1>3, <1>4, ReallocWorks
<1>7. CASE status' = "realloc failed" \/ status' = "bad range"
  BY <1>7 DEF PayloadsIntact
<1>8. CASE /\ m.ret # NULL
           /\ ~KeepsData(m.heap, m.ret, MinOf(size, block_sizes[i]), i)
           /\ status' = "data lost"
  <2>1. ASSUME i % 256 <= SCHAR_MAX PROVE FALSE
    BY <2>1, <1>2, <1>3, <1>4, <1>5, <1>6, <1>8, DataKept
  <2> QED BY <2>1, <1>8 DEF PayloadsIntact
<1>9. CASE /\ m.ret # NULL
           /\ heap' = memset(m.heap, m.ret, i % 256, size)
           /\ Remember(i, m.ret, size)
           /\ UNCHANGED live
           /\ Accept
  <2>1. m.heap \in Heaps /\ m.ret \in Nat
    BY <1>6, <1>9 DEF Moved
  <2>2. ASSUME NEW j \in live \ {i}
        PROVE  /\ PayloadKept(heap, m.heap, blocks[j])
               /\ \/ blocks[j] + BlockSize(heap, blocks[j]) <= m.ret
                  \/ m.ret + size + 8 <= blocks[j]
    <3>1. AllocBlock(heap, blocks[j]) /\ blocks[j] # blocks[i]
      BY <1>3, <1>4 DEF Agree
    <3> QED BY <3>1, <1>6, <1>9 DEF Moved
  <2>3. Stored(blocks, block_sizes, live, blocks', block_sizes', live', i, m.ret, size)
    BY <1>3, <1>4, <1>9 DEF Remember, Stored
  <2>4. PICK v \in Int : v = i % 256
    BY <1>2
  <2>5. PICK g, bl, bs, M : g = heap' /\ bl = blocks' /\ bs = block_sizes' /\ M = live'
    OBVIOUS
  <2>6. g = memset(m.heap, m.ret, v, size)
        /\ Stored(blocks, block_sizes, live, bl, bs, M, i, m.ret, size)
    BY <2>3, <2>4, <2>5, <1>9
  <2>7. Intact(g, bl, bs, M)
    <3>1. PICK k, p : k = m.heap /\ p = m.ret
      OBVIOUS
    <3>2. k \in Heaps /\ p \in Nat /\ size \in Nat
      BY <3>1, <2>1, <1>2
    <3>3. Beside(heap, k, blocks, live, i, p, size)
      BY <3>1, <2>2 DEF Beside
    <3>4. g = memset(k, p, v, size)
          /\ Stored(blocks, block_sizes, live, bl, bs, M, i, p, size)
      BY <3>1, <2>6
    <3> QED BY <3>2, <3>3, <3>4, <2>4, <1>4, <1>5, IntactAfterFill
  <2>8. status' # "data lost"
    BY <1>3, <1>9 DEF Accept
  <2> QED BY <2>5, <2>7, <2>8, IntactIs DEF Intact, PayloadsIntact
<1> QED BY <1>1, <1>7, <1>8, <1>9 DEF Realloc, Reject

(* mm_free.                                                                *)
LEMMA FreeIntact ==
  ASSUME PInv, NEW i \in Ids, Free(i)
  PROVE  PayloadsIntact' /\ status' # "data lost"
<1>1. /\ Serving /\ i \in live /\ status = "running" /\ status' = status
      /\ heap' = mm_free(heap, blocks[i])
      /\ live' = live \ {i} /\ blocks' = blocks /\ block_sizes' = block_sizes
  BY DEF Free, Serving, Accept
<1>2. /\ heap \in Heaps /\ blocks \in [Ids -> Int] /\ block_sizes \in [Ids -> Nat]
      /\ live \in SUBSET Ids /\ Agree(heap, blocks, block_sizes, live)
  BY <1>1 DEF PInv, IInv, TypeOK
<1>3. Intact(heap, blocks, block_sizes, live)
  BY <1>1, IntactIs DEF PInv
<1>4. PICK g : g = heap'
  OBVIOUS
<1>5. Intact(g, blocks, block_sizes, live \ {i})
  BY <1>1, <1>2, <1>3, <1>4, IntactAfterFree
<1> QED BY <1>1, <1>4, <1>5 DEF Intact, PayloadsIntact

(* Every step keeps the payloads.                                          *)
LEMMA PInvNext == PInv /\ [Next]_vars => PInv'
<1> SUFFICES ASSUME PInv, [Next]_vars PROVE PayloadsIntact'
  BY NextInv DEF PInv
<1>1. CASE StartTrace
  BY <1>1 DEF StartTrace, Reject, PayloadsIntact
<1>2. CASE \E i \in Ids, size \in Sizes : Alloc(i, size)
  BY <1>2, AllocIntact
<1>3. CASE \E i \in Ids, size \in Sizes, junk \in Garbage : Realloc(i, size, junk)
  BY <1>3, ReallocIntact
<1>4. CASE \E i \in Ids : Free(i)
  BY <1>4, FreeIntact
<1>5. CASE EndTrace \/ NextTrace
  BY <1>5 DEF EndTrace, NextTrace, PayloadsIntact
<1>6. CASE UNCHANGED vars
  BY <1>6 DEF vars, PInv, PayloadsIntact
<1> QED BY <1>1, <1>2, <1>3, <1>4, <1>5, <1>6 DEF Next

(* The first state has no payloads.                                        *)
LEMMA PInvInit == Init => PInv
BY InitInv DEF Init, PInv, PayloadsIntact

(* The invariant holds in every reachable state.                           *)
THEOREM PayloadInvariance == Spec => []PInv
BY PInvInit, PInvNext, PTL DEF Spec

(* No request writes into the payload of another id: each live payload     *)
(* holds the fill of its own id, whatever mm_malloc splits, mm_realloc     *)
(* copies past the old payload, and coalesce joins (mm.c).                 *)
THEOREM PayloadsStayIntact == Spec => []PayloadsIntact
BY PayloadInvariance, PTL DEF PInv

-----------------------------------------------------------------------------
(* The verdict "data lost" is only ever given by the check of a mm_realloc.*)
LEMMA DataLostStep ==
  ASSUME \A i \in Ids : i % 256 <= SCHAR_MAX, PInv, NoDataLost, [Next]_vars
  PROVE  NoDataLost'
<1>1. CASE StartTrace
  BY <1>1 DEF StartTrace, Reject, NoDataLost
<1>2. CASE \E i \in Ids, size \in Sizes : Alloc(i, size)
  BY <1>2 DEF Alloc, Reject, Accept, NoDataLost
<1>3. CASE \E i \in Ids, size \in Sizes, junk \in Garbage : Realloc(i, size, junk)
  BY <1>3, ReallocIntact DEF NoDataLost
<1>4. CASE \E i \in Ids : Free(i)
  BY <1>4, FreeIntact DEF NoDataLost
<1>5. CASE EndTrace \/ NextTrace
  BY <1>5 DEF EndTrace, NextTrace, NoDataLost
<1>6. CASE UNCHANGED vars
  BY <1>6 DEF vars, NoDataLost
<1> QED BY <1>1, <1>2, <1>3, <1>4, <1>5, <1>6 DEF Next

(* The driver never misses the data of a reallocated payload (mdriver.c,   *)
(* eval_mm_valid), as long as no id has a low byte that a signed char      *)
(* cannot hold.                                                            *)
THEOREM ReallocKeepsData ==
  ASSUME \A i \in Ids : i % 256 <= SCHAR_MAX
  PROVE  Spec => []NoDataLost
<1>1. Init => NoDataLost
  BY DEF Init, NoDataLost
<1>2. PInv /\ NoDataLost /\ [Next]_vars => NoDataLost'
  BY DataLostStep
<1> QED BY <1>1, <1>2, PayloadInvariance, PTL DEF Spec

-----------------------------------------------------------------------------
(* The refinement of Allocator.                                            *)

(* What Allocator sees of a table whose payloads are intact.               *)
PayloadsOf(bl, bs, L) == [i \in L |-> [lo |-> bl[i], size |-> bs[i]]]

WordsOf(lo, size) == {a \in WordAddrs : lo <= a /\ a < lo + size}

Filled(i, lo, size) == [a \in WordsOf(lo, size) |-> Fill(i % 256)]

FillsOf(bl, bs, L) == [i \in L |-> Filled(i, bl[i], bs[i])]

AbstractPayload == [i \in Held |-> PayloadOf(i)]

AbstractContents == [i \in Held |-> [a \in PayloadWords(i) |-> heap.mem[a]]]

(* While a trace runs the client finds its own fills in its payloads; when *)
(* none does it has no payloads.                                           *)
LEMMA ViewIs ==
  /\ status = "running" =>
       /\ AbstractPayload = PayloadsOf(blocks, block_sizes, live)
       /\ PayloadsIntact =>
             AbstractContents = FillsOf(blocks, block_sizes, live)
  /\ status # "running" => AbstractPayload = Promise!Nothing /\ AbstractContents = Promise!Nothing
<1>1. ASSUME status = "running"
      PROVE  /\ Held = live
             /\ AbstractPayload = PayloadsOf(blocks, block_sizes, live)
  BY <1>1 DEF Held, AbstractPayload, PayloadOf, PayloadsOf
<1>2. ASSUME status = "running", PayloadsIntact
      PROVE  AbstractContents = FillsOf(blocks, block_sizes, live)
  <2>1. \A i \in live : PayloadWords(i) = WordsOf(blocks[i], block_sizes[i])
    BY DEF PayloadWords, WordsOf
  <2>2. \A i \in live : \A a \in PayloadWords(i) : heap.mem[a] = Fill(i % 256)
    BY <1>2 DEF PayloadWords, PayloadsIntact
  <2>3. \A i \in live :
           [a \in PayloadWords(i) |-> heap.mem[a]]
              = Filled(i, blocks[i], block_sizes[i])
    BY <2>1, <2>2 DEF Filled
  <2> QED BY <2>3, <1>1, <1>2 DEF AbstractContents, FillsOf
<1>3. ASSUME status # "running"
      PROVE  AbstractPayload = Promise!Nothing /\ AbstractContents = Promise!Nothing
  BY <1>3 DEF Held, AbstractPayload, AbstractContents, Promise!Nothing
<1> QED BY <1>1, <1>2, <1>3

(* The same after a step.                                                  *)
LEMMA ViewNext ==
  ASSUME status' = "running", PayloadsIntact'
  PROVE  /\ AbstractPayload' = PayloadsOf(blocks', block_sizes', live')
         /\ AbstractContents' = FillsOf(blocks', block_sizes', live')
<1>1. AbstractPayload' = PayloadsOf(blocks', block_sizes', live')
  BY DEF AbstractPayload, PayloadsOf, Held, PayloadOf
<1>2. AbstractContents' = FillsOf(blocks', block_sizes', live')
  <2>1. \A j \in live' : PayloadWords(j)' = WordsOf(blocks'[j], block_sizes'[j])
    BY DEF PayloadWords, WordsOf
  <2>2. \A j \in live' : \A a \in PayloadWords(j)' : heap'.mem[a] = Fill(j % 256)
    BY DEF PayloadWords, PayloadsIntact
  <2>3. \A j \in live' :
           [a \in PayloadWords(j)' |-> heap'.mem[a]]
              = Filled(j, blocks'[j], block_sizes'[j])
    BY <2>1, <2>2 DEF Filled
  <2> QED BY <2>3 DEF AbstractContents, FillsOf, Held
<1> QED BY <1>1, <1>2

(* The words of a payload that lies in the arena, both ways.               *)
LEMMA SameWords ==
  ASSUME NEW lo \in Nat, lo % 8 = 0, NEW size \in Nat, lo + size + 8 <= MAX_HEAP
  PROVE  Promise!Words([lo |-> lo, size |-> size]) = WordsOf(lo, size)
<1>1. MAX_HEAP \in Nat
  BY MaxHeapAssumption
<1>2. ASSUME NEW a
      PROVE  a \in lo .. lo + size - 1 /\ a % 4 = 0
               <=> a \in WordAddrs /\ lo <= a /\ a < lo + size
  BY <1>1 DEF WordAddrs, WSIZE
<1> QED BY <1>2 DEF Promise!Words, WordsOf

(* f is g with the value v for i.                                          *)
Updated(f, g, L, i, v) == f = [j \in L \cup {i} |-> IF j = i THEN v ELSE g[j]]

(* A payload stored for an id, as Allocator sees it.                       *)
LEMMA HoldView ==
  ASSUME NEW bl, NEW bs, NEW L, NEW bl2, NEW bs2, NEW M, NEW i, NEW p, NEW size,
         Stored(bl, bs, L, bl2, bs2, M, i, p, size)
  PROVE  /\ Updated(PayloadsOf(bl2, bs2, M), PayloadsOf(bl, bs, L), L, i,
                    [lo |-> p, size |-> size])
         /\ Updated(FillsOf(bl2, bs2, M), FillsOf(bl, bs, L), L, i,
                    Filled(i, p, size))
<1>1. /\ M = L \cup {i} /\ bl2[i] = p /\ bs2[i] = size
      /\ \A j \in L \ {i} : bl2[j] = bl[j] /\ bs2[j] = bs[j]
  BY DEF Stored
<1>2. PayloadsOf(bl2, bs2, M)
        = [j \in L \cup {i} |-> IF j = i THEN [lo |-> p, size |-> size]
                                         ELSE PayloadsOf(bl, bs, L)[j]]
  BY <1>1 DEF PayloadsOf
<1>3. ASSUME NEW j \in L \cup {i}
      PROVE  FillsOf(bl2, bs2, M)[j]
               = IF j = i THEN Filled(i, p, size)
                          ELSE FillsOf(bl, bs, L)[j]
  BY <1>1 DEF FillsOf
<1>4. FillsOf(bl2, bs2, M) = [j \in L \cup {i} |-> FillsOf(bl2, bs2, M)[j]]
  BY <1>1 DEF FillsOf
<1> QED BY <1>2, <1>3, <1>4 DEF Updated

(* A new payload, in a place apart from the others, is one that Allocator  *)
(* may grant.                                                              *)
LEMMA GrantPromised ==
  ASSUME PInv, PayloadsIntact', Serving, status' = status,
         NEW i \in Ids, NEW size \in Nat, NEW p \in Nat, p % 8 = 0, p + size + 8 <= MAX_HEAP,
         Stored(blocks, block_sizes, live, blocks', block_sizes', live', i, p, size),
         \A j \in live \ {i} :
            blocks[j] + BlockSize(heap, blocks[j]) <= p \/ p + size + 8 <= blocks[j]
  PROVE  Promise!Grant(i, size)
<1>1. status = "running" /\ status' = "running"
  BY DEF Serving
<1>2. /\ AbstractPayload = PayloadsOf(blocks, block_sizes, live)
      /\ AbstractContents = FillsOf(blocks, block_sizes, live)
  BY <1>1, ViewIs DEF PInv
<1>3. AbstractPayload' = PayloadsOf(blocks', block_sizes', live')
      /\ AbstractContents' = FillsOf(blocks', block_sizes', live')
  BY <1>1, ViewNext
<1>5. PICK new : new = [lo |-> p, size |-> size]
  OBVIOUS
<1>6. /\ Updated(AbstractPayload', AbstractPayload, live, i, new)
      /\ Updated(AbstractContents', AbstractContents, live, i,
                 Filled(i, p, size))
  <2>1. PICK bl, bs, M : bl = blocks' /\ bs = block_sizes' /\ M = live'
    OBVIOUS
  <2>2. Stored(blocks, block_sizes, live, bl, bs, M, i, p, size)
    BY <2>1
  <2>3. /\ Updated(PayloadsOf(bl, bs, M), PayloadsOf(blocks, block_sizes, live), live, i, new)
        /\ Updated(FillsOf(bl, bs, M), FillsOf(blocks, block_sizes, live), live, i,
                   Filled(i, p, size))
    BY <2>2, <1>5, HoldView
  <2> QED BY <2>1, <2>3, <1>2, <1>3, Zenon
<1>7. Filled(i, p, size) = [a \in Promise!Words(new) |-> FillOfId(i)]
  <2>1. Promise!Words(new) = WordsOf(p, size)
    BY <1>5, SameWords
  <2> QED BY <2>1 DEF FillOfId, Filled
<1>8. DOMAIN AbstractPayload = live
  BY <1>2 DEF PayloadsOf
<1>9. Promise!Hold(i, new)
  BY <1>6, <1>7, <1>8 DEF Updated, Promise!Hold, Promise!Live, AbstractPayload, AbstractContents
<1>10. p \in 0 .. MAX_HEAP /\ Promise!Aligned(new) /\ Promise!InArena(new)
  BY <1>5, MaxHeapAssumption DEF Promise!Aligned, Promise!InArena
<1>11. ASSUME NEW j \in live \ {i} PROVE Promise!Disjoint(new, AbstractPayload[j])
  <2>1. Agree(heap, blocks, block_sizes, live) /\ heap \in Heaps
        /\ blocks \in [Ids -> Int] /\ block_sizes \in [Ids -> Nat] /\ live \in SUBSET Ids
    BY DEF PInv, IInv, TypeOK
  <2>2. /\ blocks[j] \in Nat /\ block_sizes[j] \in Nat
        /\ BlockSize(heap, blocks[j]) \in Nat
        /\ block_sizes[j] + 8 <= BlockSize(heap, blocks[j])
    BY <2>1, PayloadInBlock
  <2>3. AbstractPayload[j] = [lo |-> blocks[j], size |-> block_sizes[j]]
    BY <1>2 DEF PayloadsOf
  <2>4. blocks[j] + block_sizes[j] <= p \/ p + size <= blocks[j]
    BY <2>2
  <2> QED BY <2>3, <2>4, <1>5 DEF Promise!Disjoint
<1> QED BY <1>5, <1>8, <1>9, <1>10, <1>11 DEF Promise!Grant, Promise!Live, AbstractPayload

(* A trace that ends, or a request that is refused, is the client's Stop.  *)
LEMMA StopPromised ==
  ASSUME status = "running", status' # "running"
  PROVE  Promise!Stop
<1>1. AbstractPayload' = Promise!Nothing /\ AbstractContents' = Promise!Nothing
  BY DEF Held, AbstractPayload, AbstractContents, Promise!Nothing
<1> QED BY <1>1 DEF Promise!Stop, AbstractPayload, AbstractContents

(* An answer to mm_malloc: a Malloc of Allocator, or the end of the trace. *)
LEMMA AllocPromised ==
  ASSUME PInv, PInv', NEW i \in Ids, NEW size \in Sizes, Alloc(i, size)
  PROVE  Promise!Malloc(i, size) \/ Promise!Stop
<1>1. PICK m : m = mm_malloc(heap, size)
  OBVIOUS
<1>2. size \in Nat
  BY DriverAssumption
<1>3. Serving /\ i \notin live /\ heap.gaps = {} /\ status = "running"
  BY DEF Alloc, Serving
<1>4. /\ heap \in Heaps /\ blocks \in [Ids -> Int] /\ block_sizes \in [Ids -> Nat]
      /\ live \in SUBSET Ids /\ Agree(heap, blocks, block_sizes, live)
  BY <1>3 DEF PInv, IInv, TypeOK
<1>5. Granted(heap, m, size)
  BY <1>1, <1>2, <1>3, <1>4, MallocWorks DEF Agree
<1>6. CASE status' # "running"
  BY <1>3, <1>6, StopPromised
<1>7. CASE m.ret # NULL /\ Remember(i, m.ret, size) /\ live' = live \cup {i} /\ Accept
  <2>1. /\ m.ret \in Nat /\ m.ret % 8 = 0 /\ m.heap \in Heaps
        /\ m.ret + size + 8 <= m.heap.brk
    BY <1>5, <1>7 DEF Granted
  <2>2. m.ret + size + 8 <= MAX_HEAP
    BY <2>1, <1>2, MaxHeapAssumption DEF Heaps
  <2>3. \A j \in live \ {i} :
           \/ blocks[j] + BlockSize(heap, blocks[j]) <= m.ret
           \/ m.ret + size + 8 <= blocks[j]
    BY <1>4, <1>5, <1>7 DEF Agree, Granted
  <2>4. Stored(blocks, block_sizes, live, blocks', block_sizes', live', i, m.ret, size)
    BY <1>4, <1>7 DEF Remember, Stored
  <2>5. PayloadsIntact' /\ status' = status
    BY <1>7 DEF PInv, Accept
  <2>6. PICK p : p = m.ret
    OBVIOUS
  <2>7. Promise!Grant(i, size)
    <3>1. p \in Nat /\ p % 8 = 0 /\ p + size + 8 <= MAX_HEAP
      BY <2>1, <2>2, <2>6
    <3>2. Stored(blocks, block_sizes, live, blocks', block_sizes', live', i, p, size)
      BY <2>4, <2>6
    <3>3. \A j \in live \ {i} :
             blocks[j] + BlockSize(heap, blocks[j]) <= p \/ p + size + 8 <= blocks[j]
      BY <2>3, <2>6
    <3> QED BY <3>1, <3>2, <3>3, <2>5, <1>2, <1>3, GrantPromised
  <2>8. size > 0
    <3>1. m.ret = NULL \/ size > 0
      BY <1>1, <1>2 DEF mm_malloc
    <3> QED BY <3>1, <1>7
  <2>9. i \notin Held
    BY <1>3 DEF Held
  <2> QED BY <2>5, <2>7, <2>8, <2>9, <1>3 DEF Promise!Malloc, Promise!Live
<1> QED BY <1>1, <1>3, <1>6, <1>7 DEF Alloc, Reject

(* The same for mm_realloc, whether or not the driver finds its data.      *)
LEMMA ReallocPromised ==
  ASSUME PInv, PInv', NEW i \in Ids, NEW size \in Sizes, NEW junk \in Garbage,
         Realloc(i, size, junk)
  PROVE  Promise!Realloc(i, size) \/ Promise!Stop
<1>1. PICK m : m = mm_realloc(heap, blocks[i], size, junk)
  OBVIOUS
<1>2. size \in Nat /\ junk \in Int
  BY DriverAssumption
<1>3. Serving /\ i \in live /\ heap.gaps = {} /\ status = "running"
  BY DEF Realloc, Serving
<1>4. /\ heap \in Heaps /\ blocks \in [Ids -> Int] /\ block_sizes \in [Ids -> Nat]
      /\ live \in SUBSET Ids /\ Agree(heap, blocks, block_sizes, live)
  BY <1>3 DEF PInv, IInv, TypeOK
<1>5. Moved(heap, m, blocks[i], size)
  <2>1. Shape(heap) /\ CoalescedOK(heap) /\ AllocBlock(heap, blocks[i])
    BY <1>3, <1>4 DEF Agree
  <2> QED BY <2>1, <1>1, <1>2, <1>3, <1>4, ReallocWorks
<1>6. CASE status' # "running"
  BY <1>3, <1>6, StopPromised
<1>7. CASE m.ret # NULL /\ Remember(i, m.ret, size) /\ UNCHANGED live /\ Accept
  <2>1. /\ m.ret \in Nat /\ m.ret % 8 = 0 /\ m.heap \in Heaps
        /\ m.ret + size + 8 <= m.heap.brk
    BY <1>5, <1>7 DEF Moved
  <2>2. m.ret + size + 8 <= MAX_HEAP
    BY <2>1, <1>2, MaxHeapAssumption DEF Heaps
  <2>3. \A j \in live \ {i} :
           \/ blocks[j] + BlockSize(heap, blocks[j]) <= m.ret
           \/ m.ret + size + 8 <= blocks[j]
    BY <1>4, <1>5, <1>7 DEF Agree, Moved
  <2>4. Stored(blocks, block_sizes, live, blocks', block_sizes', live', i, m.ret, size)
    BY <1>3, <1>4, <1>7 DEF Remember, Stored
  <2>5. PayloadsIntact' /\ status' = status
    BY <1>7 DEF PInv, Accept
  <2>6. PICK p : p = m.ret
    OBVIOUS
  <2>7. Promise!Grant(i, size)
    <3>1. p \in Nat /\ p % 8 = 0 /\ p + size + 8 <= MAX_HEAP
      BY <2>1, <2>2, <2>6
    <3>2. Stored(blocks, block_sizes, live, blocks', block_sizes', live', i, p, size)
      BY <2>4, <2>6
    <3>3. \A j \in live \ {i} :
             blocks[j] + BlockSize(heap, blocks[j]) <= p \/ p + size + 8 <= blocks[j]
      BY <2>3, <2>6
    <3> QED BY <3>1, <3>2, <3>3, <2>5, <1>2, <1>3, GrantPromised
  <2>8. size > 0
    <3>1. m.ret = NULL \/ size > 0
      BY <1>1, <1>2 DEF mm_realloc, MoveTo, mm_malloc
    <3> QED BY <3>1, <1>7
  <2>9. i \in Held
    BY <1>3 DEF Held
  <2> QED BY <2>5, <2>7, <2>8, <2>9, <1>3 DEF Promise!Realloc, Promise!Live
<1> QED BY <1>1, <1>3, <1>6, <1>7 DEF Realloc, Reject

(* mm_free is a Free of Allocator.                                         *)
LEMMA FreePromised ==
  ASSUME PInv, PInv', NEW i \in Ids, Free(i)
  PROVE  Promise!Free(i)
<1>1. /\ i \in live /\ status = "running" /\ status' = "running"
      /\ live' = live \ {i} /\ blocks' = blocks /\ block_sizes' = block_sizes
  BY DEF Free, Serving, Accept
<1>2. /\ AbstractPayload = PayloadsOf(blocks, block_sizes, live)
      /\ AbstractContents = FillsOf(blocks, block_sizes, live)
  BY <1>1, ViewIs DEF PInv
<1>3. /\ AbstractPayload' = PayloadsOf(blocks, block_sizes, live \ {i})
      /\ AbstractContents' = FillsOf(blocks, block_sizes, live \ {i})
  BY <1>1, ViewNext DEF PInv
<1>4. /\ AbstractPayload' = [j \in live \ {i} |-> AbstractPayload[j]]
      /\ AbstractContents' = [j \in live \ {i} |-> AbstractContents[j]]
  BY <1>2, <1>3 DEF PayloadsOf, FillsOf
<1>5. Held = live
  BY <1>1 DEF Held
<1> QED BY <1>1, <1>4, <1>5 DEF Promise!Free, Promise!Live, AbstractPayload, AbstractContents

(* A step in which no trace runs and none begins shows Allocator nothing.  *)
LEMMA IdleStutters ==
  ASSUME status # "running", status' # "running"
  PROVE  UNCHANGED Promise!vars
BY DEF Held, Promise!vars

(* A trace that begins finds the client without payloads.                  *)
LEMMA StartPromised ==
  ASSUME StartTrace
  PROVE  Promise!Start \/ UNCHANGED Promise!vars
<1>1. status # "running"
  BY DEF StartTrace
<1>2. CASE status' # "running"
  BY <1>1, <1>2, IdleStutters
<1>3. CASE status' = "running" /\ live' = {}
  BY <1>1, <1>3 DEF Held, Promise!Start
<1> QED BY <1>2, <1>3 DEF StartTrace, Reject

(* Every step is a step of Allocator or changes nothing it sees.           *)
LEMMA StepPromised ==
  ASSUME PInv, PInv', [Next]_vars
  PROVE  [Promise!Next]_(Promise!vars)
<1>1. CASE StartTrace
  BY <1>1, StartPromised DEF Promise!Next
<1>2. CASE \E i \in Ids, size \in Sizes : Alloc(i, size)
  BY <1>2, AllocPromised DEF Promise!Next
<1>3. CASE \E i \in Ids, size \in Sizes, junk \in Garbage : Realloc(i, size, junk)
  BY <1>3, ReallocPromised DEF Promise!Next
<1>4. CASE \E i \in Ids : Free(i)
  BY <1>4, FreePromised DEF Promise!Next
<1>5. CASE EndTrace
  BY <1>5, StopPromised DEF EndTrace, Promise!Next
<1>6. CASE NextTrace
  BY <1>6, IdleStutters DEF NextTrace
<1>7. CASE UNCHANGED vars
  BY <1>7 DEF vars, Held, PayloadOf, PayloadWords, Promise!vars
<1> QED BY <1>1, <1>2, <1>3, <1>4, <1>5, <1>6, <1>7 DEF Next

(* mm.c under its driver implements the abstract allocator: every trace of *)
(* requests, with the answers of mm_malloc, mm_realloc and mm_free, is a   *)
(* behaviour of Allocator.                                                 *)
THEOREM ImplementsAllocator == Spec => KeepsThePromise
<1>1. Init => Promise!Init
  BY DEF Init, Held, Promise!Init, Promise!Nothing
<1>2. PInv /\ PInv' /\ [Next]_vars => [Promise!Next]_(Promise!vars)
  BY StepPromised
<1> QED BY <1>1, <1>2, PayloadInvariance, PTL DEF Spec, KeepsThePromise, Promise!Spec

-----------------------------------------------------------------------------
(* place leaves a gap only where a free block is 8 bytes larger than the   *)
(* block that is to go there.  With a chunk and adjusted sizes that are    *)
(* multiples of 16 no block ever is: the heap stays on a grid of 16.       *)
Rounded == CHUNKSIZE % 16 = 0 /\ \A size \in Sizes : AdjustedSize(size) % 16 = 0

GInv == heap.gaps = {} /\ (Serving => OnGrid(heap))

(* A fill writes payload only.                                             *)
LEMMA FillOnGrid ==
  ASSUME NEW h \in Heaps, NEW p \in Int, NEW v \in Int, NEW n \in Int,
         h.gaps = {}, OnGrid(h)
  PROVE  memset(h, p, v, n).gaps = {} /\ OnGrid(memset(h, p, v, n))
<1>1. Wrote(h, memset(h, p, v, n), p, n)
  BY MemsetFields
<1> QED BY <1>1 DEF Wrote, OnGrid

(* A trace begins on the grid.                                             *)
LEMMA StartTraceGrid ==
  ASSUME IInv, GInv, Rounded, StartTrace
  PROVE  GInv'
<1>1. PICK h : h = mem_reset_brk(heap)
  OBVIOUS
<1>2. h \in Heaps /\ h.brk = 0 /\ h.gaps = {}
  BY <1>1, MaxHeapAssumption DEF IInv, GInv, TypeOK, mem_reset_brk, Heaps
<1>3. PICK m : m = mm_init(h)
  OBVIOUS
<1>4. heap' = m.heap /\ (m.ret # NULL \/ status' = "init failed")
  BY <1>1, <1>3 DEF StartTrace, Reject
<1>5. m.heap.gaps = {}
  BY <1>2, <1>3, InitNoGap
<1>6. m.ret # NULL => OnGrid(m.heap)
  BY <1>2, <1>3, InitOnGrid DEF Rounded
<1> QED BY <1>4, <1>5, <1>6 DEF GInv, Serving

(* The requests stay on it.                                                *)
LEMMA RequestGrid ==
  ASSUME IInv, GInv, Rounded,
         \/ \E i \in Ids, size \in Sizes : Alloc(i, size)
         \/ \E i \in Ids, size \in Sizes, junk \in Garbage : Realloc(i, size, junk)
         \/ \E i \in Ids : Free(i)
  PROVE  GInv'
<1>1. Serving /\ heap \in Heaps /\ heap.gaps = {} /\ OnGrid(heap)
  <2>1. ASSUME NEW i \in Ids, NEW size \in Sizes, Alloc(i, size)
        PROVE  Serving
    BY <2>1 DEF Alloc
  <2>2. ASSUME NEW i \in Ids, NEW size \in Sizes, NEW junk \in Garbage, Realloc(i, size, junk)
        PROVE  Serving
    BY <2>2 DEF Realloc
  <2>3. ASSUME NEW i \in Ids, Free(i)
        PROVE  Serving
    BY <2>3 DEF Free
  <2>4. Serving
    BY <2>1, <2>2, <2>3
  <2> QED BY <2>4 DEF IInv, TypeOK, GInv
<1>2. Agree(heap, blocks, block_sizes, live)
  BY <1>1 DEF IInv
<1>3. Shape(heap) /\ CoalescedOK(heap) /\ \A i \in live : AllocBlock(heap, blocks[i])
  BY <1>2 DEF Agree
<1>4. ASSUME NEW i \in Ids, NEW size \in Sizes, NEW m,
             m.heap \in Heaps, m.ret \in Int, m.heap.gaps = {}, OnGrid(m.heap),
             heap' = m.heap \/ heap' = memset(m.heap, m.ret, i % 256, size)
      PROVE  GInv'
  <2>1. size \in Int /\ i % 256 \in Int
    <3>1. i \in Nat /\ size \in Nat
      BY DriverAssumption
    <3> QED BY <3>1
  <2>2. PICK k, p, v : k = m.heap /\ p = m.ret /\ v = i % 256
    OBVIOUS
  <2>3. memset(k, p, v, size).gaps = {} /\ OnGrid(memset(k, p, v, size))
    BY <1>4, <2>1, <2>2, FillOnGrid
  <2> QED BY <1>4, <2>2, <2>3 DEF GInv
<1>5. ASSUME NEW i \in Ids, NEW size \in Sizes, Alloc(i, size)
      PROVE  GInv'
  <2>1. PICK m : m = mm_malloc(heap, size)
    OBVIOUS
  <2>2. size \in Nat /\ AdjustedSize(size) % 16 = 0 /\ CHUNKSIZE % 16 = 0
    BY DriverAssumption DEF Rounded
  <2>3. m.heap.gaps = {} /\ OnGrid(m.heap)
    BY <1>1, <1>3, <2>1, <2>2, MallocOnGrid
  <2>4. Granted(heap, m, size)
    BY <1>1, <1>3, <2>1, <2>2, MallocWorks
  <2>5. m.heap \in Heaps /\ m.ret \in Int
    BY <1>1, <2>4 DEF Granted, NULL, NoAddr
  <2>6. heap' = m.heap \/ heap' = memset(m.heap, m.ret, i % 256, size)
    BY <1>5, <2>1 DEF Alloc
  <2> QED BY <1>4, <2>3, <2>5, <2>6
<1>6. ASSUME NEW i \in Ids, NEW size \in Sizes, NEW junk \in Garbage,
             Realloc(i, size, junk)
      PROVE  GInv'
  <2>1. PICK m : m = mm_realloc(heap, blocks[i], size, junk)
    OBVIOUS
  <2>2. /\ size \in Nat /\ AdjustedSize(size) % 16 = 0 /\ CHUNKSIZE % 16 = 0
        /\ junk \in Int /\ AllocBlock(heap, blocks[i])
    BY <1>3, <1>6, DriverAssumption DEF Rounded, Realloc
  <2>3. m.heap.gaps = {} /\ OnGrid(m.heap)
    BY <1>1, <1>3, <2>1, <2>2, ReallocOnGrid
  <2>4. Moved(heap, m, blocks[i], size)
    BY <1>1, <1>3, <2>1, <2>2, ReallocWorks
  <2>5. m.heap \in Heaps /\ m.ret \in Int
    BY <1>1, <2>4 DEF Moved, NULL, NoAddr
  <2>6. heap' = m.heap \/ heap' = memset(m.heap, m.ret, i % 256, size)
    BY <1>6, <2>1 DEF Realloc
  <2> QED BY <1>4, <2>3, <2>5, <2>6
<1>7. ASSUME NEW i \in Ids, Free(i)
      PROVE  GInv'
  <2>1. heap' = mm_free(heap, blocks[i]) /\ AllocBlock(heap, blocks[i])
    BY <1>3, <1>7 DEF Free
  <2>2. OnGrid(heap')
    BY <1>1, <1>3, <2>1, FreeOnGrid
  <2>3. heap'.gaps = heap.gaps
    BY <1>1, <1>3, <2>1, FreeWorks DEF Freed
  <2> QED BY <1>1, <2>2, <2>3 DEF GInv
<1> QED BY <1>5, <1>6, <1>7

(* Every step of the check stays on it.                                    *)
LEMMA GInvNext == IInv /\ GInv /\ Rounded /\ [Next]_vars => GInv'
<1> SUFFICES ASSUME IInv, GInv, Rounded, [Next]_vars PROVE GInv'
  OBVIOUS
<1>1. CASE StartTrace
  BY <1>1, StartTraceGrid
<1>2. CASE \/ \E i \in Ids, size \in Sizes : Alloc(i, size)
           \/ \E i \in Ids, size \in Sizes, junk \in Garbage : Realloc(i, size, junk)
           \/ \E i \in Ids : Free(i)
  BY <1>2, RequestGrid
<1>3. CASE EndTrace \/ NextTrace \/ UNCHANGED vars
  BY <1>3 DEF EndTrace, NextTrace, vars, GInv, Serving
<1> QED BY <1>1, <1>2, <1>3 DEF Next

(* With a chunk and adjusted sizes that are multiples of 16 place leaves   *)
(* no gap in any trace of the check (mm.c, place).                         *)
THEOREM RoundedSizesLeaveNoGap == ASSUME Rounded PROVE Spec => []NoGaps
<1>1. Init => GInv
  BY DEF Init, GInv, Serving
<1>2. IInv /\ GInv /\ [Next]_vars => GInv'
  BY GInvNext
<1>3. GInv => NoGaps
  BY DEF GInv, NoGaps
<1> QED BY <1>1, <1>2, <1>3, Invariance, PTL DEF Spec

=============================================================================
