--------------------------------- MODULE MM ---------------------------------
(***************************************************************************)
(* The boundary-tag allocator of mm.c, word by word: every PUT of the code *)
(* is a write to a word of the arena, and every decision is taken from     *)
(* words read back.                                                        *)
(*                                                                         *)
(* Beside mem and brk a heap has two auxiliary fields:                     *)
(*   blks  the block pointers between the prologue and the epilogue,       *)
(*   gaps  the 8-byte gaps that place has left between two blocks.         *)
(* The code has no such variables: it finds the blocks by walking from     *)
(* heap_listp with NEXT_BLKP.  blks is the set that walk visits, updated   *)
(* where a block appears (extend_heap, the split in place) or disappears   *)
(* (coalesce).  No header or footer is computed from it; only the search   *)
(* of find_fit ranges over it, and module MMWalk has the walk itself, with *)
(* which it is compared in every reachable state.  Nothing is computed     *)
(* from gaps: place leaves one when a block is 8 bytes larger than what it *)
(* is to hold, and NEXT_BLKP of the block then points into the gap.        *)
(***************************************************************************)
EXTENDS MemLib, FiniteSets

CONSTANT CHUNKSIZE    \* extend the heap by at least this amount (bytes)

DSIZE == 8

ASSUME ChunkAssumption ==
    CHUNKSIZE \in Nat /\ CHUNKSIZE % DSIZE = 0 /\ CHUNKSIZE >= 2 * DSIZE

NULL == NoAddr

MaxOf(x, y) == IF x > y THEN x ELSE y

Heaps == [mem : [WordAddrs -> Int], brk : 0 .. MAX_HEAP,
          blks : SUBSET Nat, gaps : SUBSET Nat]

-----------------------------------------------------------------------------
(* The macros.  size | alloc is size + alloc: the low bits of size are 0.  *)

PACK(size, alloc) == size + alloc

PUT(h, p, val) == [h EXCEPT !.mem[p] = val]

SetBlocks(h, S) == [h EXCEPT !.blks = S]

AddBlock(h, b) == [h EXCEPT !.blks = @ \cup {b}]

AddGap(h, p) == [h EXCEPT !.gaps = @ \cup {p}]

NoBlocks(h) == [h EXCEPT !.blks = {}, !.gaps = {}]

GET_SIZE(h, p)  == h.mem[p] - (h.mem[p] % 8)
GET_ALLOC(h, p) == h.mem[p] % 2

HDRP(bp)         == bp - WSIZE
FTRP(h, bp)      == bp + GET_SIZE(h, HDRP(bp)) - DSIZE
NEXT_BLKP(h, bp) == bp + GET_SIZE(h, HDRP(bp))
PREV_BLKP(h, bp) == bp - GET_SIZE(h, bp - DSIZE)

(* heap_listp points between the two words of the prologue block. *)
heap_listp == 2 * WSIZE

(* "PUT(HDRP(bp), PACK(size, alloc)); PUT(FTRP(bp), PACK(size, alloc));":  *)
(* the footer's place is computed from the header just written.            *)
PutTags(h, bp, size, alloc) ==
    LET h1 == PUT(h, HDRP(bp), PACK(size, alloc))
    IN  PUT(h1, FTRP(h1, bp), PACK(size, alloc))

-----------------------------------------------------------------------------
(* Writes the tags of a free block of sum bytes: the header at p, and the  *)
(* footer where FTRP finds it from last.  The blocks gone are now in p.    *)
Join(h, p, sum, last, gone) ==
    LET h1 == PUT(h, HDRP(p), PACK(sum, 0))
    IN  SetBlocks(PUT(h1, FTRP(h1, last), PACK(sum, 0)), h.blks \ gone)

(* Mutant of coalesce: it does not look back.                              *)
coalesceNextOnly(h, bp) ==
    LET next == NEXT_BLKP(h, bp)
        sum  == GET_SIZE(h, HDRP(bp)) + GET_SIZE(h, HDRP(next))
    IN  IF GET_ALLOC(h, HDRP(next)) = 1
          THEN [heap |-> h, ret |-> bp]
          ELSE [heap |-> Join(h, bp, sum, bp, {next}), ret |-> bp]

coalesce(h, bp) ==
    LET prev == PREV_BLKP(h, bp)
        next == NEXT_BLKP(h, bp)
        size == GET_SIZE(h, HDRP(bp))
        prevAllocated == GET_ALLOC(h, HDRP(prev)) = 1
        nextAllocated == GET_ALLOC(h, HDRP(next)) = 1
        withNext == size + GET_SIZE(h, HDRP(next))
        withPrev == size + GET_SIZE(h, HDRP(prev))
        withBoth == size + GET_SIZE(h, HDRP(prev)) + GET_SIZE(h, HDRP(next))
    IN  CASE prevAllocated /\ nextAllocated ->
               [heap |-> h, ret |-> bp]
          [] prevAllocated /\ ~nextAllocated ->
               [heap |-> Join(h, bp, withNext, bp, {next}), ret |-> bp]
          [] ~prevAllocated /\ nextAllocated ->
               [heap |-> Join(h, prev, withPrev, bp, {bp}), ret |-> prev]
          [] ~prevAllocated /\ ~nextAllocated ->
               [heap |-> Join(h, prev, withBoth, next, {bp, next}), ret |-> prev]

(* Mutant of extend_heap: no new epilogue.                                 *)
extend_heapNoEpilogue(h, words) ==
    LET size == IF words % 2 = 0 THEN words * WSIZE ELSE (words + 1) * WSIZE
        s    == mem_sbrk(h, size)
    IN  IF s.ret = NoAddr
          THEN [heap |-> h, ret |-> NULL]
          ELSE coalesce(AddBlock(PutTags(s.heap, s.ret, size, 0), s.ret), s.ret)

(* The old epilogue header becomes the header of the new block. *)
extend_heap(h, words) ==
    LET size == IF words % 2 = 0 THEN words * WSIZE ELSE (words + 1) * WSIZE
        s    == mem_sbrk(h, size)
        bp   == s.ret
        h1   == PutTags(s.heap, bp, size, 0)
        h2   == PUT(h1, HDRP(NEXT_BLKP(h1, bp)), PACK(0, 1))
    IN  IF bp = NoAddr
          THEN [heap |-> h, ret |-> NULL]
          ELSE coalesce(AddBlock(h2, bp), bp)

mm_init(h) ==
    LET s  == mem_sbrk(h, 4 * WSIZE)
        p  == s.ret
        h1 == PUT(s.heap, p, 0)
        h2 == PUT(h1, p + 1 * WSIZE, PACK(DSIZE, 1))
        h3 == PUT(h2, p + 2 * WSIZE, PACK(DSIZE, 1))
        h4 == PUT(h3, p + 3 * WSIZE, PACK(0, 1))
    IN  IF p = NoAddr
          THEN [heap |-> h, ret |-> NULL]
          ELSE extend_heap(NoBlocks(h4), CHUNKSIZE \div WSIZE)

-----------------------------------------------------------------------------
(* Mutant of Fits: the allocated bit is not looked at.                     *)
FitsAnyBlock(h, asize) == {b \in h.blks : asize <= GET_SIZE(h, HDRP(b))}

(* The blocks that can hold asize bytes; first fit takes the lowest.       *)
Fits(h, asize) ==
    {b \in h.blks : GET_ALLOC(h, HDRP(b)) = 0 /\ asize <= GET_SIZE(h, HDRP(b))}

(* Mutant of find_fit: it goes on after the first fit.                     *)
find_fitLast(h, asize) ==
    IF Fits(h, asize) = {}
      THEN NULL
      ELSE CHOOSE b \in Fits(h, asize) : \A c \in Fits(h, asize) : b >= c

find_fit(h, asize) ==
    IF Fits(h, asize) = {}
      THEN NULL
      ELSE CHOOSE b \in Fits(h, asize) : \A c \in Fits(h, asize) : b <= c

(* Mutant of place: it does not split off a smallest block.                *)
placeNoSmallest(h, bp, asize) ==
    LET rest == GET_SIZE(h, HDRP(bp)) - asize
        h1   == PutTags(h, bp, asize, 1)
        next == NEXT_BLKP(h1, bp)
    IN  CASE rest > 2 * DSIZE -> AddBlock(PutTags(h1, next, rest, 0), next)
          [] rest <= 2 * DSIZE /\ rest # 0 -> AddGap(h1, next)
          [] rest = 0 -> h1

(* Splits the block when what is left can be a block of its own.  When it  *)
(* cannot, the tags of bp have been rewritten to asize all the same: what  *)
(* is left, if anything, belongs to no block.                              *)
place(h, bp, asize) ==
    LET rest == GET_SIZE(h, HDRP(bp)) - asize
        h1   == PutTags(h, bp, asize, 1)
        next == NEXT_BLKP(h1, bp)
    IN  CASE rest >= 2 * DSIZE ->
               AddBlock(PutTags(h1, next, rest, 0), next)
          [] rest < 2 * DSIZE /\ rest # 0 -> AddGap(h1, next)
          [] rest = 0 -> h1

(* The bytes of the block that holds size bytes: header, footer, rounding. *)
AdjustedSize(size) ==
    IF size <= DSIZE THEN 2 * DSIZE
                     ELSE DSIZE * ((size + DSIZE + (DSIZE - 1)) \div DSIZE)

(* mm_malloc with the answer e of extend_heap.                             *)
PlaceIn(e, asize) ==
    IF e.ret = NULL
      THEN [heap |-> e.heap, ret |-> NULL]
      ELSE [heap |-> place(e.heap, e.ret, asize), ret |-> e.ret]

mm_malloc(h, size) ==
    LET asize == AdjustedSize(size)
        bp    == find_fit(h, asize)
    IN  CASE size <= 0 -> [heap |-> h, ret |-> NULL]
          [] size > 0 /\ bp # NULL ->
               [heap |-> place(h, bp, asize), ret |-> bp]
          [] size > 0 /\ bp = NULL ->
               PlaceIn(extend_heap(h, MaxOf(asize, CHUNKSIZE) \div WSIZE), asize)

mm_free(h, ptr) ==
    coalesce(PutTags(h, ptr, GET_SIZE(h, HDRP(ptr)), 0), ptr).heap

-----------------------------------------------------------------------------
(* Mutant of CopySize: the footer before the block bounds the copy, as if  *)
(* a size_t had four bytes.                                                *)
CopySizeOfFooter(h, ptr, size) ==
    IF size < h.mem[ptr - DSIZE] THEN size ELSE h.mem[ptr - DSIZE]

(* The size_t that mm_realloc reads at oldptr - 8 is, on the 64-bit build, *)
(* the header of the block above the footer of the block before it.  With  *)
(* a header that is not 0 the value exceeds every request size, so it      *)
(* never bounds the copy.                                                  *)
CopySize(h, ptr, size) ==
    IF h.mem[HDRP(ptr)] # 0 \/ size < h.mem[ptr - DSIZE]
      THEN size
      ELSE h.mem[ptr - DSIZE]

(* memcpy(newptr, oldptr, n).  The copy may run past the old payload, over *)
(* other blocks, past brk and over its own target (which memcpy leaves     *)
(* undefined): the words it brings from there are junk.                    *)
memcpyPayload(h, newptr, oldptr, n, junk) ==
    [h EXCEPT !.mem = [a \in WordAddrs |->
        CASE ~(newptr <= a /\ a < newptr + n) -> h.mem[a]
          [] newptr <= a /\ a < newptr + n
               /\ oldptr + (a - newptr) < FTRP(h, oldptr) ->
                    h.mem[oldptr + (a - newptr)]
          [] newptr <= a /\ a < newptr + n
               /\ oldptr + (a - newptr) >= FTRP(h, oldptr) -> junk]]

(* Mutants of mm_realloc: the old block is never freed; it is freed even   *)
(* when there is no new one.                                               *)
mm_reallocLeaks(h, ptr, size, junk) ==
    LET m == mm_malloc(h, size)
    IN  IF m.ret = NULL
          THEN m
          ELSE [heap |-> memcpyPayload(m.heap, m.ret, ptr,
                                       CopySize(m.heap, ptr, size), junk),
                ret  |-> m.ret]

mm_reallocAlwaysFrees(h, ptr, size, junk) ==
    LET m == mm_malloc(h, size)
        c == memcpyPayload(m.heap, m.ret, ptr, CopySize(m.heap, ptr, size), junk)
    IN  IF m.ret = NULL
          THEN [heap |-> mm_free(m.heap, ptr), ret |-> NULL]
          ELSE [heap |-> mm_free(c, ptr), ret |-> m.ret]

(* mm_realloc with the answer m of mm_malloc.                              *)
MoveTo(m, ptr, size, junk) ==
    LET c == memcpyPayload(m.heap, m.ret, ptr, CopySize(m.heap, ptr, size), junk)
    IN  IF m.ret = NULL
          THEN m
          ELSE [heap |-> mm_free(c, ptr), ret |-> m.ret]

mm_realloc(h, ptr, size, junk) == MoveTo(mm_malloc(h, size), ptr, size, junk)

-----------------------------------------------------------------------------
(* The shape of the heap that the walk of find_fit and the reads of        *)
(* coalesce take for granted.                                              *)

FirstBlock == heap_listp + DSIZE

IsFree(h, b) == GET_ALLOC(h, HDRP(b)) = 0

(* Prologue and epilogue: allocated blocks that stop coalesce, the second  *)
(* of size 0 to stop find_fit.                                             *)
EndsOK(h) ==
    /\ h.brk \in FirstBlock .. MAX_HEAP /\ h.brk % DSIZE = 0
    /\ h.mem[HDRP(heap_listp)] = PACK(DSIZE, 1)
    /\ h.mem[heap_listp] = PACK(DSIZE, 1)
    /\ h.mem[HDRP(h.brk)] = PACK(0, 1)

(* Every block lies in the heap, its header is a size and a bit, and its   *)
(* footer repeats its header.                                              *)
TagsOK(h) ==
    \A b \in h.blks :
       /\ b \in FirstBlock .. h.brk /\ b % DSIZE = 0
       /\ h.mem[HDRP(b)] % 8 \in {0, 1}
       /\ GET_SIZE(h, HDRP(b)) >= 2 * DSIZE
       /\ h.mem[FTRP(h, b)] = h.mem[HDRP(b)]

(* The blocks follow each other from the prologue to the epilogue without  *)
(* a hole and without an overlap.                                          *)
TilingOK(h) ==
    /\ FirstBlock \in h.blks \cup {h.brk}
    /\ \A b \in h.blks : NEXT_BLKP(h, b) \in h.blks \cup {h.brk}
    /\ \A b \in h.blks \cup {h.brk} :
          b = FirstBlock \/ \E p \in h.blks : NEXT_BLKP(h, p) = b
    /\ \A b \in h.blks, c \in h.blks : b < c => NEXT_BLKP(h, b) <= c

(* Immediate coalescing: no free block follows a free block.               *)
CoalescedOK(h) ==
    \A b \in h.blks, c \in h.blks :
       c = NEXT_BLKP(h, b) => ~(IsFree(h, b) /\ IsFree(h, c))

WellFormed(h) == EndsOK(h) /\ TagsOK(h) /\ TilingOK(h) /\ CoalescedOK(h)

=============================================================================
