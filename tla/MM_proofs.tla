------------------------------ MODULE MM_proofs ------------------------------
(***************************************************************************)
(* What a change of tags does to a well-formed heap: joining a run of      *)
(* blocks, splitting a block, a new block at the break; from these, what   *)
(* coalesce does; then what each request does, and what the walk of        *)
(* find_fit meets.                                                         *)
(***************************************************************************)
EXTENDS MMWalk, WellFoundedInduction, TLAPS

(* WellFormed without the demand that no two free blocks are neighbours.   *)
Shape(h) == EndsOK(h) /\ TagsOK(h) /\ TilingOK(h)

(* The size in the header of block b.                                      *)
BlockSize(h, b) == GET_SIZE(h, HDRP(b))

(* The size and the allocated bit that PACK puts into a tag can be read    *)
(* back from it.                                                           *)
LEMMA PackUnpack ==
  ASSUME NEW s \in Int, s % 8 = 0, NEW a \in {0, 1}
  PROVE  /\ PACK(s, a) \in Int
         /\ PACK(s, a) % 8 = a /\ PACK(s, a) % 2 = a
         /\ PACK(s, a) - (PACK(s, a) % 8) = s
BY DEF PACK

(* A block of a well-formed heap is aligned, at least 16 bytes, within the *)
(* break, followed by a block or the end, and its two tags agree and lie   *)
(* in the arena.                                                           *)
LEMMA BlockFacts ==
  ASSUME NEW h \in Heaps, Shape(h), NEW b \in h.blks
  PROVE  /\ b \in Nat /\ b % 8 = 0 /\ b >= 16
         /\ BlockSize(h, b) \in Nat /\ BlockSize(h, b) % 8 = 0 /\ BlockSize(h, b) >= 16
         /\ b + BlockSize(h, b) <= h.brk
         /\ b + BlockSize(h, b) \in h.blks \cup {h.brk}
         /\ h.brk \in Nat /\ h.brk % 8 = 0 /\ h.brk <= MAX_HEAP
         /\ b - 4 \in WordAddrs
         /\ b + BlockSize(h, b) - 8 \in WordAddrs
         /\ h.mem[b - 4] \in Int /\ h.mem[b - 4] % 8 \in {0, 1}
         /\ h.mem[b + BlockSize(h, b) - 8] = h.mem[b - 4]
<1> USE MaxHeapAssumption DEF Heaps, DSIZE, WSIZE, FirstBlock, heap_listp
<1>1. /\ h.mem \in [WordAddrs -> Int] /\ h.brk \in Nat /\ h.brk <= MAX_HEAP
      /\ h.brk % 8 = 0
  BY DEF Shape, EndsOK
<1>2. /\ b \in Nat /\ b >= 16 /\ b <= h.brk /\ b % 8 = 0
      /\ h.mem[b - 4] % 8 \in {0, 1}
      /\ BlockSize(h, b) >= 16
      /\ h.mem[b + BlockSize(h, b) - 8] = h.mem[b - 4]
  BY <1>1 DEF Shape, TagsOK, HDRP, FTRP, BlockSize
<1>3. b - 4 \in WordAddrs /\ h.mem[b - 4] \in Int
  BY <1>1, <1>2 DEF WordAddrs
<1>4. BlockSize(h, b) \in Nat /\ BlockSize(h, b) % 8 = 0
  BY <1>2, <1>3 DEF BlockSize, GET_SIZE, HDRP
<1>5. b + BlockSize(h, b) \in h.blks \cup {h.brk}
  BY DEF Shape, TilingOK, NEXT_BLKP, BlockSize
<1>6. b + BlockSize(h, b) <= h.brk
  BY <1>5, <1>1 DEF Shape, TagsOK
<1>7. b + BlockSize(h, b) - 8 \in WordAddrs
  BY <1>1, <1>2, <1>4, <1>6 DEF WordAddrs
<1> QED BY <1>1, <1>2, <1>3, <1>4, <1>5, <1>6, <1>7

(* A block ends before any block after it begins.                          *)
LEMMA OrderFacts ==
  ASSUME NEW h \in Heaps, Shape(h), NEW b \in h.blks, NEW c \in h.blks \cup {h.brk}, b < c
  PROVE  b + BlockSize(h, b) <= c
<1>1. CASE c \in h.blks
  BY <1>1 DEF Shape, TilingOK, NEXT_BLKP, BlockSize
<1>2. CASE c = h.brk
  BY <1>2, BlockFacts
<1> QED BY <1>1, <1>2

(* Every block but the first, and the end of the heap, is preceded by a    *)
(* block.                                                                  *)
LEMMA PredFacts ==
  ASSUME NEW h \in Heaps, Shape(h), NEW b \in h.blks \cup {h.brk}, b # 16
  PROVE  \E p \in h.blks : p + BlockSize(h, p) = b
BY DEF Shape, TilingOK, NEXT_BLKP, BlockSize, FirstBlock, heap_listp, WSIZE, DSIZE

(* The prologue and epilogue words make EndsOK.                            *)
LEMMA EndsIntro ==
  ASSUME NEW h, h.brk \in 16 .. MAX_HEAP, h.brk % 8 = 0,
         h.mem[4] = PACK(8, 1), h.mem[8] = PACK(8, 1), h.mem[h.brk - 4] = PACK(0, 1)
  PROVE  EndsOK(h)
BY DEF EndsOK, FirstBlock, heap_listp, HDRP, WSIZE, DSIZE

(* TagsOK, said with the byte offsets of the tags.                         *)
LEMMA TagsIntro ==
  ASSUME NEW h,
         \A b \in h.blks :
            /\ b \in 16 .. h.brk /\ b % 8 = 0
            /\ h.mem[b - 4] % 8 \in {0, 1}
            /\ BlockSize(h, b) >= 16
            /\ h.mem[b + BlockSize(h, b) - 8] = h.mem[b - 4]
  PROVE  TagsOK(h)
BY DEF TagsOK, FirstBlock, heap_listp, HDRP, FTRP, BlockSize, WSIZE, DSIZE

(* TilingOK, said with the byte offsets of the tags.                       *)
LEMMA TilingIntro ==
  ASSUME NEW h,
         16 \in h.blks \cup {h.brk},
         \A b \in h.blks : b + BlockSize(h, b) \in h.blks \cup {h.brk},
         \A b \in h.blks \cup {h.brk} :
            b # 16 => \E q \in h.blks : q + BlockSize(h, q) = b,
         \A b \in h.blks, c \in h.blks : b < c => b + BlockSize(h, b) <= c
  PROVE  TilingOK(h)
BY DEF TilingOK, NEXT_BLKP, BlockSize, FirstBlock, heap_listp, WSIZE, DSIZE

-----------------------------------------------------------------------------
(* g is h with the blocks between p and e merged into p, and p tagged a.   *)
Retagged(h, g, p, e, a) ==
  /\ g \in Heaps /\ g.brk = h.brk
  /\ g.blks = h.blks \ {c \in h.blks : p < c /\ c < e}
  /\ \A w \in WordAddrs :
        g.mem[w] = IF w = p - 4 \/ w = e - 8 THEN PACK(e - p, a) ELSE h.mem[w]

(* New tags for the run of blocks from p to e make it one block, and every *)
(* other block stays as it was.                                            *)
LEMMA Retag ==
  ASSUME NEW h \in Heaps, Shape(h),
         NEW p \in h.blks, NEW e \in h.blks \cup {h.brk}, p < e,
         NEW a \in {0, 1}, NEW g, Retagged(h, g, p, e, a)
  PROVE  /\ Shape(g)
         /\ p \in g.blks /\ e \in g.blks \cup {g.brk}
         /\ g.mem[p - 4] = PACK(e - p, a) /\ BlockSize(g, p) = e - p
         /\ \A b \in g.blks \ {p} : /\ b \in h.blks
                                     /\ g.mem[b - 4] = h.mem[b - 4]
                                     /\ BlockSize(g, b) = BlockSize(h, b)
<1> USE DEF Retagged
<1>1. /\ p \in Nat /\ p % 8 = 0 /\ p >= 16 /\ p - 4 \in WordAddrs
      /\ h.brk \in Nat /\ h.brk % 8 = 0 /\ h.brk <= MAX_HEAP
      /\ p + BlockSize(h, p) <= e /\ BlockSize(h, p) \in Nat
      /\ BlockSize(h, p) >= 16
  BY BlockFacts, OrderFacts
<1>2. e \in Nat /\ e % 8 = 0 /\ e <= h.brk /\ e >= 32 /\ e - p >= 16
  BY <1>1, BlockFacts
<1>3. (e - p) \in Nat /\ (e - p) % 8 = 0
  BY <1>1, <1>2
<1>4. e - 8 \in WordAddrs
  BY <1>1, <1>2, MaxHeapAssumption DEF WordAddrs, WSIZE
<1>5. /\ PACK(e - p, a) \in Int /\ PACK(e - p, a) % 8 = a
      /\ PACK(e - p, a) - (PACK(e - p, a) % 8) = e - p
  <2>1. \A s \in Int : s % 8 = 0 =>
          /\ PACK(s, a) \in Int /\ PACK(s, a) % 8 = a
          /\ PACK(s, a) - (PACK(s, a) % 8) = s
    BY PackUnpack
  <2> QED BY <1>3, <2>1
<1>6. /\ g.mem[p - 4] = PACK(e - p, a) /\ BlockSize(g, p) = e - p
      /\ g.mem[e - 8] = PACK(e - p, a)
  BY <1>1, <1>4, <1>5 DEF BlockSize, GET_SIZE, HDRP, WSIZE
<1>7. p \in g.blks /\ e \in g.blks \cup {g.brk}
  BY <1>1, <1>2
<1>8. ASSUME NEW b \in g.blks \ {p}
      PROVE  /\ b \in h.blks
             /\ g.mem[b - 4] = h.mem[b - 4]
             /\ BlockSize(g, b) = BlockSize(h, b)
             /\ b < p => b + BlockSize(h, b) <= p
             /\ b > p => b >= e
             /\ g.mem[b + BlockSize(h, b) - 8] = h.mem[b + BlockSize(h, b) - 8]
  <2>1. b \in h.blks /\ b # p
    OBVIOUS
  <2>2. /\ b \in Nat /\ b % 8 = 0 /\ b - 4 \in WordAddrs
        /\ BlockSize(h, b) \in Nat /\ BlockSize(h, b) % 8 = 0 /\ BlockSize(h, b) >= 16
        /\ b + BlockSize(h, b) - 8 \in WordAddrs
    BY <2>1, BlockFacts
  <2>3. b < p => b + BlockSize(h, b) <= p
    BY <2>1, OrderFacts
  <2>4. b > p => b >= e
    BY <2>1, <2>2, <1>1, <1>2
  <2>5. b - 4 # p - 4 /\ b - 4 # e - 8
    BY <2>1, <2>2, <1>1, <1>2
  <2>6. g.mem[b - 4] = h.mem[b - 4]
    BY <2>2, <2>5
  <2>7. BlockSize(g, b) = BlockSize(h, b)
    BY <2>6 DEF BlockSize, GET_SIZE, HDRP, WSIZE
  <2>8. /\ b + BlockSize(h, b) - 8 # p - 4
        /\ b + BlockSize(h, b) - 8 # e - 8
    BY <2>1, <2>2, <2>3, <2>4, <1>1, <1>2
  <2> QED BY <2>1, <2>2, <2>3, <2>4, <2>6, <2>7, <2>8
<1>9. EndsOK(g)
  <2>1. /\ h.brk \in 16 .. MAX_HEAP
        /\ h.mem[4] = PACK(8, 1) /\ h.mem[8] = PACK(8, 1)
        /\ h.mem[h.brk - 4] = PACK(0, 1)
    BY DEF Shape, EndsOK, FirstBlock, heap_listp, HDRP, WSIZE, DSIZE
  <2>2. 4 \in WordAddrs /\ 8 \in WordAddrs /\ h.brk - 4 \in WordAddrs
    BY <1>1, <2>1, MaxHeapAssumption DEF WordAddrs, WSIZE
  <2>3. /\ g.mem[4] = PACK(8, 1) /\ g.mem[8] = PACK(8, 1)
        /\ g.mem[g.brk - 4] = PACK(0, 1)
    BY <1>1, <1>2, <2>1, <2>2
  <2> QED
    BY <2>1, <2>3, <1>1, EndsIntro
<1>10. TagsOK(g)
  <2> SUFFICES ASSUME NEW b \in g.blks
      PROVE /\ b \in 16 .. g.brk /\ b % 8 = 0
            /\ g.mem[b - 4] % 8 \in {0, 1}
            /\ BlockSize(g, b) >= 16
            /\ g.mem[b + BlockSize(g, b) - 8] = g.mem[b - 4]
    BY TagsIntro
  <2>1. CASE b = p
    BY <2>1, <1>1, <1>2, <1>5, <1>6
  <2>2. CASE b # p
    <3>1. b \in h.blks
      OBVIOUS
    <3> QED BY <2>2, <3>1, <1>8, BlockFacts
  <2> QED BY <2>1, <2>2
<1>11. TilingOK(g)
  <2>1. 16 \in g.blks \cup {g.brk}
    <3>1. 16 \in h.blks \cup {h.brk}
      BY DEF Shape, TilingOK, FirstBlock, heap_listp, WSIZE, DSIZE
    <3> QED BY <3>1, <1>1, <1>2
  <2>2. ASSUME NEW b \in g.blks
        PROVE  b + BlockSize(g, b) \in g.blks \cup {g.brk}
    <3>1. CASE b = p
      BY <3>1, <1>6, <1>7, <1>1, <1>2
    <3>2. CASE b # p
      <4>1. /\ b \in Nat /\ BlockSize(h, b) \in Nat /\ BlockSize(h, b) >= 16
            /\ b + BlockSize(h, b) \in h.blks \cup {h.brk}
        BY BlockFacts
      <4> QED BY <3>2, <4>1, <1>8, <1>1, <1>2
    <3> QED BY <3>1, <3>2
  <2>3. ASSUME NEW b \in g.blks \cup {g.brk}, b # 16
        PROVE  \E q \in g.blks : q + BlockSize(g, q) = b
    <3>1. CASE b = e
      <4>1. p + BlockSize(g, p) = b
        BY <3>1, <1>6, <1>1, <1>2
      <4> QED BY <4>1, <1>7
    <3>2. CASE b # e
      <4>0. b \in h.blks \cup {h.brk}
        OBVIOUS
      <4>1. PICK q \in h.blks : q + BlockSize(h, q) = b
        BY <4>0, <2>3, PredFacts
      <4>2. q \in Nat /\ BlockSize(h, q) \in Nat /\ BlockSize(h, q) >= 16
        BY <4>1, BlockFacts
      <4>3. b \in Nat /\ ~(p < b /\ b < e)
        BY <4>0, <4>1, <4>2, <1>1, <1>2
      <4>4. ~(p <= q /\ q < e)
        <5>1. q < e => b <= e
          BY <4>1, OrderFacts
        <5> QED BY <5>1, <4>1, <4>2, <4>3, <3>2, <1>1, <1>2
      <4>5. q \in g.blks \ {p}
        BY <4>1, <4>2, <4>4, <1>1, <1>2
      <4>6. q + BlockSize(g, q) = b
        BY <4>1, <4>5, <1>8
      <4> QED BY <4>5, <4>6
    <3> QED BY <3>1, <3>2
  <2>4. ASSUME NEW b \in g.blks, NEW c \in g.blks, b < c
        PROVE  b + BlockSize(g, b) <= c
    <3>0. b \in h.blks /\ c \in h.blks
      OBVIOUS
    <3>1. CASE b = p
      <4>1. c \in g.blks \ {p} /\ c \in Nat
        BY <3>0, <3>1, <2>4, <1>1, BlockFacts
      <4> QED BY <3>1, <4>1, <2>4, <1>6, <1>8, <1>1, <1>2
    <3>2. CASE b # p
      BY <3>0, <3>2, <2>4, <1>8, OrderFacts
    <3> QED BY <3>1, <3>2
  <2> QED
    BY <2>1, <2>2, <2>3, <2>4, TilingIntro
<1> QED BY <1>6, <1>7, <1>8, <1>9, <1>10, <1>11 DEF Shape

-----------------------------------------------------------------------------
(* g is h with block p cut at m, its parts tagged a and a2; e is its end.  *)
SplitAt(h, g, p, m, e, a, a2) ==
  /\ g \in Heaps /\ g.brk = h.brk /\ g.blks = h.blks \cup {m}
  /\ \A w \in WordAddrs :
        g.mem[w] = IF w = p - 4 \/ w = m - 8 THEN PACK(m - p, a)
                   ELSE IF w = m - 4 \/ w = e - 8 THEN PACK(e - m, a2)
                   ELSE h.mem[w]

(* What that makes of the blocks.                                          *)
IsSplit(h, g, p, m, e, a, a2) ==
  /\ Shape(g)
  /\ m \notin h.blks
  /\ g.mem[p - 4] = PACK(m - p, a) /\ BlockSize(g, p) = m - p
  /\ g.mem[m - 4] = PACK(e - m, a2) /\ BlockSize(g, m) = e - m
  /\ \A b \in h.blks \ {p} : /\ b # m
                              /\ g.mem[b - 4] = h.mem[b - 4]
                              /\ BlockSize(g, b) = BlockSize(h, b)

(* Tags for p up to m and for m up to the old end of p make two blocks of  *)
(* block p, and every other block stays as it was (place, mm_free).        *)
LEMMA Split ==
  ASSUME NEW h \in Heaps, Shape(h),
         NEW p \in h.blks, NEW m \in Nat, NEW e, e = p + BlockSize(h, p),
         m % 8 = 0, m - p >= 16, e - m >= 16,
         NEW a \in {0, 1}, NEW a2 \in {0, 1},
         NEW g, SplitAt(h, g, p, m, e, a, a2)
  PROVE  IsSplit(h, g, p, m, e, a, a2)
<1> USE DEF SplitAt
<1>1. /\ p \in Nat /\ p % 8 = 0 /\ p >= 16 /\ p - 4 \in WordAddrs
      /\ h.brk \in Nat /\ h.brk % 8 = 0 /\ h.brk <= MAX_HEAP
      /\ e \in Nat /\ e % 8 = 0 /\ e <= h.brk /\ e \in h.blks \cup {h.brk}
      /\ e - 8 \in WordAddrs
  BY BlockFacts
<1>2. /\ m - 4 \in WordAddrs /\ m - 8 \in WordAddrs
  BY <1>1, MaxHeapAssumption DEF WordAddrs, WSIZE
<1>3. /\ PACK(m - p, a) \in Int /\ PACK(m - p, a) % 8 = a
      /\ PACK(m - p, a) - (PACK(m - p, a) % 8) = m - p
      /\ PACK(e - m, a2) \in Int /\ PACK(e - m, a2) % 8 = a2
      /\ PACK(e - m, a2) - (PACK(e - m, a2) % 8) = e - m
  <2>1. \A s \in Int, x \in {0, 1} : s % 8 = 0 =>
          /\ PACK(s, x) \in Int /\ PACK(s, x) % 8 = x
          /\ PACK(s, x) - (PACK(s, x) % 8) = s
    BY PackUnpack
  <2>2. m - p \in Int /\ (m - p) % 8 = 0 /\ e - m \in Int /\ (e - m) % 8 = 0
    BY <1>1
  <2> QED BY <2>1, <2>2
<1>4. /\ g.mem[p - 4] = PACK(m - p, a) /\ BlockSize(g, p) = m - p
      /\ g.mem[m - 8] = PACK(m - p, a)
      /\ g.mem[m - 4] = PACK(e - m, a2) /\ BlockSize(g, m) = e - m
      /\ g.mem[e - 8] = PACK(e - m, a2)
  <2>1. g.mem[p - 4] = PACK(m - p, a) /\ g.mem[m - 8] = PACK(m - p, a)
    BY <1>1, <1>2
  <2>2. g.mem[m - 4] = PACK(e - m, a2) /\ g.mem[e - 8] = PACK(e - m, a2)
    BY <1>1, <1>2
  <2>3. BlockSize(g, p) = m - p /\ BlockSize(g, m) = e - m
    BY <2>1, <2>2, <1>3 DEF BlockSize, GET_SIZE, HDRP, WSIZE
  <2> QED BY <2>1, <2>2, <2>3
<1>5. ASSUME NEW b \in h.blks, b # p
      PROVE  /\ b \in Nat
             /\ g.mem[b - 4] = h.mem[b - 4]
             /\ BlockSize(g, b) = BlockSize(h, b)
             /\ b < p => b + BlockSize(h, b) <= p
             /\ b > p => b >= e
             /\ b # m
             /\ g.mem[b + BlockSize(h, b) - 8] = h.mem[b + BlockSize(h, b) - 8]
  <2>2. /\ b \in Nat /\ b % 8 = 0 /\ b - 4 \in WordAddrs
        /\ BlockSize(h, b) \in Nat /\ BlockSize(h, b) % 8 = 0 /\ BlockSize(h, b) >= 16
        /\ b + BlockSize(h, b) - 8 \in WordAddrs
    BY BlockFacts
  <2>3. b < p => b + BlockSize(h, b) <= p
    BY OrderFacts
  <2>4. b > p => b >= e
    BY <2>2, <1>1, OrderFacts
  <2>5. b - 4 # p - 4 /\ b - 4 # e - 8 /\ b - 4 # m - 4 /\ b - 4 # m - 8
    BY <1>5, <2>2, <2>3, <2>4, <1>1
  <2>6. g.mem[b - 4] = h.mem[b - 4]
    BY <2>2, <2>5
  <2>7. BlockSize(g, b) = BlockSize(h, b)
    BY <2>6 DEF BlockSize, GET_SIZE, HDRP, WSIZE
  <2>8. LET f == b + BlockSize(h, b) - 8 IN
          f # p - 4 /\ f # m - 8 /\ f # m - 4 /\ f # e - 8
    BY <1>5, <2>2, <2>3, <2>4, <1>1
  <2>9. g.mem[b + BlockSize(h, b) - 8] = h.mem[b + BlockSize(h, b) - 8]
    BY <2>2, <2>8
  <2> QED BY <2>2, <2>3, <2>4, <2>5, <2>6, <2>7, <2>9
<1>6. m \notin h.blks
  BY <1>5, <1>1
<1>7. EndsOK(g)
  <2>1. /\ h.brk \in 16 .. MAX_HEAP
        /\ h.mem[4] = PACK(8, 1) /\ h.mem[8] = PACK(8, 1)
        /\ h.mem[h.brk - 4] = PACK(0, 1)
    BY DEF Shape, EndsOK, FirstBlock, heap_listp, HDRP, WSIZE, DSIZE
  <2>2. 4 \in WordAddrs /\ 8 \in WordAddrs /\ h.brk - 4 \in WordAddrs
    BY <1>1, <2>1, MaxHeapAssumption DEF WordAddrs, WSIZE
  <2>3. /\ g.mem[4] = PACK(8, 1) /\ g.mem[8] = PACK(8, 1)
        /\ g.mem[g.brk - 4] = PACK(0, 1)
    BY <1>1, <2>1, <2>2
  <2> QED
    BY <2>1, <2>3, <1>1, EndsIntro
<1>8. TagsOK(g)
  <2> SUFFICES ASSUME NEW b \in g.blks
      PROVE /\ b \in 16 .. g.brk /\ b % 8 = 0
            /\ g.mem[b - 4] % 8 \in {0, 1}
            /\ BlockSize(g, b) >= 16
            /\ g.mem[b + BlockSize(g, b) - 8] = g.mem[b - 4]
    BY TagsIntro
  <2>1. CASE b = p
    <3>1. p + BlockSize(g, p) - 8 = m - 8 /\ BlockSize(g, p) >= 16
      BY <1>1, <1>4
    <3>2. g.mem[p - 4] % 8 \in {0, 1} /\ g.mem[m - 8] = g.mem[p - 4]
      BY <1>3, <1>4
    <3>3. p \in 16 .. g.brk
      BY <1>1
    <3> QED BY <2>1, <3>1, <3>2, <3>3, <1>1
  <2>2. CASE b = m
    <3>1. m + BlockSize(g, m) - 8 = e - 8 /\ BlockSize(g, m) >= 16
      BY <1>1, <1>4
    <3>2. g.mem[m - 4] % 8 \in {0, 1} /\ g.mem[e - 8] = g.mem[m - 4]
      BY <1>3, <1>4
    <3>3. m \in 16 .. g.brk
      BY <1>1
    <3> QED BY <2>2, <3>1, <3>2, <3>3
  <2>3. CASE b \in h.blks /\ b # p
    BY <2>3, <1>5, BlockFacts
  <2> QED BY <2>1, <2>2, <2>3
<1>9. TilingOK(g)
  <2>1. 16 \in g.blks \cup {g.brk}
    BY DEF Shape, TilingOK, FirstBlock, heap_listp, WSIZE, DSIZE
  <2>2. ASSUME NEW b \in g.blks
        PROVE  b + BlockSize(g, b) \in g.blks \cup {g.brk}
    <3>1. CASE b = p
      <4>1. p + BlockSize(g, p) = m
        BY <1>1, <1>4
      <4> QED BY <3>1, <4>1
    <3>2. CASE b = m
      <4>1. m + BlockSize(g, m) = e
        BY <1>1, <1>4
      <4> QED BY <3>2, <4>1, <1>1
    <3>3. CASE b \in h.blks /\ b # p
      BY <3>3, <1>5, BlockFacts
    <3> QED BY <3>1, <3>2, <3>3
  <2>3. ASSUME NEW b \in g.blks \cup {g.brk}, b # 16
        PROVE  \E q \in g.blks : q + BlockSize(g, q) = b
    <3>1. CASE b = m
      <4>1. p + BlockSize(g, p) = b
        BY <3>1, <1>1, <1>4
      <4> QED BY <4>1
    <3>2. CASE b # m
      <4>0. b \in h.blks \cup {h.brk}
        BY <3>2
      <4>1. PICK q \in h.blks : q + BlockSize(h, q) = b
        BY <4>0, <2>3, PredFacts
      <4>2. CASE q = p
        <5>1. m + BlockSize(g, m) = b
          BY <4>1, <4>2, <1>1, <1>4
        <5> QED BY <5>1
      <4>3. CASE q # p
        BY <4>1, <4>3, <1>5
      <4> QED BY <4>2, <4>3
    <3> QED BY <3>1, <3>2
  <2>4. ASSUME NEW b \in g.blks, NEW c \in g.blks, b < c
        PROVE  b + BlockSize(g, b) <= c
    <3>1. b \in Nat /\ c \in Nat
      BY <1>5, <1>1
    <3>2. CASE b = p
      <4>1. p + BlockSize(g, p) = m
        BY <1>1, <1>4
      <4> QED BY <3>1, <3>2, <4>1, <2>4, <1>5, <1>1
    <3>3. CASE b = m
      <4>1. m + BlockSize(g, m) = e
        BY <1>1, <1>4
      <4> QED BY <3>1, <3>3, <4>1, <2>4, <1>5, <1>1
    <3>4. CASE b \in h.blks /\ b # p
      <4>0. BlockSize(h, b) \in Nat /\ BlockSize(g, b) = BlockSize(h, b)
        BY <3>4, <1>5, BlockFacts
      <4>1. CASE c \in h.blks
        BY <3>4, <4>0, <4>1, <2>4, OrderFacts
      <4>2. CASE c = m
        BY <3>1, <3>4, <4>0, <4>2, <2>4, <1>5, <1>1
      <4> QED BY <4>1, <4>2
    <3> QED BY <3>2, <3>3, <3>4
  <2> QED
    BY <2>1, <2>2, <2>3, <2>4, TilingIntro
<1> QED BY <1>4, <1>5, <1>6, <1>7, <1>8, <1>9 DEF Shape, IsSplit

(* g is h with a free block p of s bytes where its epilogue was.           *)
Extended(h, g, p, s) ==
  /\ g \in Heaps /\ g.brk = p + s /\ g.blks = h.blks \cup {p}
  /\ \A w \in WordAddrs :
        g.mem[w] = IF w = p - 4 \/ w = p + s - 8 THEN PACK(s, 0)
                   ELSE IF w = p + s - 4 THEN PACK(0, 1)
                   ELSE h.mem[w]

(* A free block and a new epilogue at the break make the heap longer by    *)
(* that block (extend_heap).                                               *)
LEMMA Extend ==
  ASSUME NEW h \in Heaps, Shape(h), NEW p, p = h.brk,
         NEW s \in Nat, s % 8 = 0, s >= 16, p + s <= MAX_HEAP,
         NEW g, Extended(h, g, p, s)
  PROVE  /\ Shape(g)
         /\ p \notin h.blks
         /\ g.mem[p - 4] = PACK(s, 0) /\ BlockSize(g, p) = s
         /\ \A b \in h.blks : /\ g.mem[b - 4] = h.mem[b - 4]
                               /\ BlockSize(g, b) = BlockSize(h, b)
<1> USE DEF Extended
<1>1. /\ p \in Nat /\ p % 8 = 0 /\ p >= 16 /\ p <= MAX_HEAP
      /\ h.mem[4] = PACK(8, 1) /\ h.mem[8] = PACK(8, 1)
  BY DEF Shape, EndsOK, FirstBlock, heap_listp, HDRP, WSIZE, DSIZE, Heaps
<1>2. /\ 4 \in WordAddrs /\ 8 \in WordAddrs /\ p - 4 \in WordAddrs
      /\ p + s - 8 \in WordAddrs /\ p + s - 4 \in WordAddrs
  BY <1>1, MaxHeapAssumption DEF WordAddrs, WSIZE
<1>3. /\ PACK(s, 0) \in Int /\ PACK(s, 0) % 8 = 0
      /\ PACK(s, 0) - (PACK(s, 0) % 8) = s
  BY DEF PACK
<1>4. /\ g.mem[p - 4] = PACK(s, 0) /\ BlockSize(g, p) = s
      /\ g.mem[p + s - 8] = PACK(s, 0) /\ g.mem[p + s - 4] = PACK(0, 1)
  <2>1. /\ g.mem[p - 4] = PACK(s, 0) /\ g.mem[p + s - 8] = PACK(s, 0)
        /\ g.mem[p + s - 4] = PACK(0, 1)
    BY <1>1, <1>2
  <2>2. BlockSize(g, p) = s
    BY <2>1, <1>3 DEF BlockSize, GET_SIZE, HDRP, WSIZE
  <2> QED BY <2>1, <2>2
<1>5. ASSUME NEW b \in h.blks
      PROVE  /\ b \in Nat /\ b >= 16 /\ b % 8 = 0 /\ b < p
             /\ BlockSize(h, b) \in Nat /\ b + BlockSize(h, b) <= p
             /\ g.mem[b - 4] = h.mem[b - 4]
             /\ BlockSize(g, b) = BlockSize(h, b)
             /\ g.mem[b + BlockSize(h, b) - 8] = h.mem[b + BlockSize(h, b) - 8]
  <2>1. /\ b \in Nat /\ b % 8 = 0 /\ b >= 16 /\ b - 4 \in WordAddrs
        /\ BlockSize(h, b) \in Nat /\ BlockSize(h, b) % 8 = 0 /\ BlockSize(h, b) >= 16
        /\ b + BlockSize(h, b) - 8 \in WordAddrs
        /\ b + BlockSize(h, b) <= p
    BY BlockFacts
  <2>2. g.mem[b - 4] = h.mem[b - 4]
    BY <2>1, <1>1
  <2>3. BlockSize(g, b) = BlockSize(h, b)
    BY <2>2 DEF BlockSize, GET_SIZE, HDRP, WSIZE
  <2>4. g.mem[b + BlockSize(h, b) - 8] = h.mem[b + BlockSize(h, b) - 8]
    BY <2>1, <1>1
  <2> QED BY <2>1, <2>2, <2>3, <2>4, <1>1
<1>6. p \notin h.blks
  BY <1>5, <1>1
<1>7. EndsOK(g)
  <2>1. g.mem[4] = PACK(8, 1) /\ g.mem[8] = PACK(8, 1)
    BY <1>1, <1>2
  <2> QED
    BY <2>1, <1>1, <1>4, EndsIntro
<1>8. TagsOK(g)
  <2> SUFFICES ASSUME NEW b \in g.blks
      PROVE /\ b \in 16 .. g.brk /\ b % 8 = 0
            /\ g.mem[b - 4] % 8 \in {0, 1}
            /\ BlockSize(g, b) >= 16
            /\ g.mem[b + BlockSize(g, b) - 8] = g.mem[b - 4]
    BY TagsIntro
  <2>1. CASE b = p
    <3>1. p \in 16 .. g.brk
      BY <1>1
    <3>2. g.mem[p - 4] % 8 \in {0, 1}
      BY <1>3, <1>4
    <3>3. g.mem[p + BlockSize(g, p) - 8] = g.mem[p - 4]
      BY <1>4
    <3> QED BY <2>1, <3>1, <3>2, <3>3, <1>1, <1>4
  <2>2. CASE b \in h.blks
    BY <2>2, <1>5, <1>1, BlockFacts
  <2> QED BY <2>1, <2>2
<1>9. TilingOK(g)
  <2>1. 16 \in g.blks \cup {g.brk}
    BY DEF Shape, TilingOK, FirstBlock, heap_listp, WSIZE, DSIZE
  <2>2. ASSUME NEW b \in g.blks
        PROVE  b + BlockSize(g, b) \in g.blks \cup {g.brk}
    <3>1. CASE b = p
      BY <3>1, <1>4
    <3>2. CASE b \in h.blks
      BY <3>2, <1>5, BlockFacts
    <3> QED BY <3>1, <3>2
  <2>3. ASSUME NEW b \in g.blks \cup {g.brk}, b # 16
        PROVE  \E q \in g.blks : q + BlockSize(g, q) = b
    <3>1. CASE b = g.brk
      <4>1. p + BlockSize(g, p) = b
        BY <3>1, <1>4
      <4> QED BY <4>1
    <3>2. CASE b # g.brk
      <4>1. PICK q \in h.blks : q + BlockSize(h, q) = b
        BY <3>2, <2>3, PredFacts
      <4> QED BY <4>1, <1>5
    <3> QED BY <3>1, <3>2
  <2>4. ASSUME NEW b \in g.blks, NEW c \in g.blks, b < c
        PROVE  b + BlockSize(g, b) <= c
    <3>1. CASE b = p
      BY <3>1, <2>4, <1>5, <1>1
    <3>2. CASE b \in h.blks /\ c = p
      BY <3>2, <1>5
    <3>3. CASE b \in h.blks /\ c \in h.blks
      BY <3>3, <2>4, <1>5, OrderFacts
    <3> QED BY <3>1, <3>2, <3>3
  <2> QED
    BY <2>1, <2>2, <2>3, <2>4, TilingIntro
<1> QED BY <1>4, <1>5, <1>6, <1>7, <1>8, <1>9 DEF Shape

-----------------------------------------------------------------------------
FreeBlock(h, b)  == b \in h.blks /\ IsFree(h, b)
AllocBlock(h, b) == b \in h.blks /\ ~IsFree(h, b)

(* No two free blocks are neighbours, bp perhaps excepted. *)
CoalescedBut(h, bp) ==
  \A b, c \in h.blks : c = b + BlockSize(h, b) /\ FreeBlock(h, b) /\ FreeBlock(h, c)
                          => b = bp \/ c = bp

(* g has the header and the payload that block b has in h.                 *)
Kept(h, g, b) ==
  /\ g.mem[b - 4] = h.mem[b - 4]
  /\ \A w \in WordAddrs :
        b <= w /\ w < b + BlockSize(h, b) - 8 => g.mem[w] = h.mem[w]

(* h and g have the same allocated blocks, and the same payloads in them.  *)
SameAllocated(h, g) ==
  \A b : /\ AllocBlock(g, b) <=> AllocBlock(h, b)
         /\ AllocBlock(h, b) => Kept(h, g, b)

(* No tag that ends or begins where a block does lies in a payload.        *)
LEMMA EdgesOutside ==
  ASSUME NEW h \in Heaps, Shape(h), NEW b \in h.blks, NEW p \in h.blks \cup {h.brk},
         NEW w \in WordAddrs, b <= w, w < b + BlockSize(h, b) - 8
  PROVE  w # p - 4 /\ w # p - 8
<1>1. /\ b \in Nat /\ p \in Nat /\ BlockSize(h, b) \in Nat /\ w \in Nat
      /\ b % 8 = 0 /\ p % 8 = 0
  BY BlockFacts DEF WordAddrs
<1>2. b < p => b + BlockSize(h, b) <= p
  BY OrderFacts
<1> QED BY <1>1, <1>2

(* The free blocks around the free block bp run from p to e; n is next.    *)
FreeRun(h, bp, p, n, e) ==
  /\ n = bp + BlockSize(h, bp)
  /\ \/ /\ p = bp
        /\ \A q \in h.blks : q + BlockSize(h, q) = bp => ~FreeBlock(h, q)
     \/ p + BlockSize(h, p) = bp /\ FreeBlock(h, p)
  /\ \/ e = n /\ ~FreeBlock(h, n)
     \/ e = n + BlockSize(h, n) /\ FreeBlock(h, n)

(* The header of a free block is its size.                                 *)
LEMMA FreeHeader ==
  ASSUME NEW h \in Heaps, Shape(h), NEW b, FreeBlock(h, b)
  PROVE  h.mem[b - 4] = BlockSize(h, b) /\ h.mem[b - 4] = PACK(BlockSize(h, b), 0)
<1>1. b \in h.blks /\ h.mem[b - 4] \in Int /\ h.mem[b - 4] % 8 \in {0, 1}
  BY BlockFacts DEF FreeBlock
<1>2. h.mem[b - 4] % 2 = 0
  BY DEF FreeBlock, IsFree, GET_ALLOC, HDRP, WSIZE
<1>3. h.mem[b - 4] % 8 = 0
  BY <1>1, <1>2
<1>4. BlockSize(h, b) = h.mem[b - 4] - (h.mem[b - 4] % 8)
  BY DEF BlockSize, GET_SIZE, HDRP, WSIZE
<1> QED BY <1>1, <1>3, <1>4 DEF PACK

(* A header with the allocated bit 0 is that of a free block.              *)
LEMMA PackedIsFree ==
  ASSUME NEW h, NEW b, NEW s \in Int, s % 8 = 0, h.mem[b - 4] = PACK(s, 0)
  PROVE  IsFree(h, b)
<1>1. PACK(s, 0) % 2 = 0
  BY PackUnpack
<1> QED BY <1>1 DEF IsFree, GET_ALLOC, HDRP, WSIZE

(* A free block joined with its free neighbours leaves no two free         *)
(* neighbours, and the allocated blocks as they were (coalesce).           *)
LEMMA Merge ==
  ASSUME NEW h \in Heaps, Shape(h), NEW bp \in h.blks, FreeBlock(h, bp),
         CoalescedBut(h, bp),
         NEW n, NEW p \in h.blks, NEW e, FreeRun(h, bp, p, n, e),
         NEW g, Retagged(h, g, p, e, 0)
  PROVE  /\ Shape(g) /\ CoalescedOK(g)
         /\ FreeBlock(g, p) /\ BlockSize(g, p) >= BlockSize(h, bp)
         /\ SameAllocated(h, g)
<1> USE DEF FreeRun
<1>0. /\ g \in Heaps /\ g.brk = h.brk
      /\ g.blks = h.blks \ {c \in h.blks : p < c /\ c < e}
  BY DEF Retagged
<1>1. /\ bp \in Nat /\ BlockSize(h, bp) \in Nat /\ BlockSize(h, bp) >= 16
      /\ n \in h.blks \cup {h.brk}
      /\ p \in Nat /\ BlockSize(h, p) \in Nat /\ BlockSize(h, p) >= 16 /\ p % 8 = 0
  BY BlockFacts
<1>2. FreeBlock(h, n) => /\ n \in h.blks /\ n \in Nat /\ n % 8 = 0
                         /\ BlockSize(h, n) \in Nat /\ BlockSize(h, n) >= 16
                         /\ n + BlockSize(h, n) \in h.blks \cup {h.brk}
  BY BlockFacts DEF FreeBlock
<1>3. /\ e \in h.blks \cup {h.brk} /\ n \in Nat /\ e \in Nat /\ p <= bp /\ n <= e /\ p < e
  BY <1>1, <1>2
<1>4. /\ Shape(g)
      /\ p \in g.blks /\ e \in g.blks \cup {g.brk}
      /\ g.mem[p - 4] = PACK(e - p, 0) /\ BlockSize(g, p) = e - p
      /\ \A b \in g.blks \ {p} : /\ b \in h.blks
                                  /\ g.mem[b - 4] = h.mem[b - 4]
                                  /\ BlockSize(g, b) = BlockSize(h, b)
  <2> HIDE DEF FreeRun
  <2> QED BY <1>3, Retag
<1>5. FreeBlock(g, p)
  <2>1. e % 8 = 0
    BY <1>3, BlockFacts
  <2>2. e - p \in Int /\ (e - p) % 8 = 0
    BY <2>1, <1>1, <1>3
  <2> QED BY <2>2, <1>4, PackedIsFree DEF FreeBlock
<1>6. \A b \in g.blks \ {p} : /\ b \in h.blks
                              /\ FreeBlock(g, b) <=> FreeBlock(h, b)
                              /\ AllocBlock(g, b) <=> AllocBlock(h, b)
  BY <1>4 DEF FreeBlock, AllocBlock, IsFree, GET_ALLOC, HDRP, WSIZE
<1>7. \A c \in h.blks : p < c /\ c < e => c = bp \/ (c = n /\ FreeBlock(h, n))
  <2> SUFFICES ASSUME NEW c \in h.blks, p < c, c < e, c # bp
               PROVE  c = n /\ FreeBlock(h, n)
    OBVIOUS
  <2>0. c \in Nat
    BY BlockFacts
  <2>1. bp < c
    <3>1. p + BlockSize(h, p) <= c
      BY OrderFacts
    <3> QED BY <3>1, <2>0, <1>1
  <2>2. n <= c
    BY <2>1, OrderFacts
  <2>3. n < c => n + BlockSize(h, n) <= c \/ n \notin h.blks
    BY OrderFacts
  <2>4. n \in h.blks
    BY <2>0, <2>2, <1>1, BlockFacts
  <2> QED BY <2>0, <2>2, <2>3, <2>4, <1>2, <1>3
<1>8. p = bp \/ FreeBlock(h, p)
  OBVIOUS
<1>9. SameAllocated(h, g)
  <2> SUFFICES ASSUME NEW b
               PROVE  /\ AllocBlock(g, b) <=> AllocBlock(h, b)
                      /\ AllocBlock(h, b) => Kept(h, g, b)
    BY DEF SameAllocated
  <2>1. CASE b \in g.blks \ {p}
    <3>1. \A w \in WordAddrs :
            b <= w /\ w < b + BlockSize(h, b) - 8 => w # p - 4 /\ w # e - 8
      BY <2>1, <1>3, <1>4, EdgesOutside
    <3>2. \A w \in WordAddrs :
            b <= w /\ w < b + BlockSize(h, b) - 8 => g.mem[w] = h.mem[w]
      BY <3>1 DEF Retagged
    <3> QED BY <2>1, <3>2, <1>4, <1>6 DEF Kept
  <2>2. CASE b = p
    BY <2>2, <1>5, <1>8 DEF FreeBlock, AllocBlock
  <2>3. CASE b \notin g.blks
    BY <2>3, <1>0, <1>7 DEF FreeBlock, AllocBlock
  <2> QED BY <2>1, <2>2, <2>3
<1>10. CoalescedOK(g)
  <2> SUFFICES ASSUME NEW b \in g.blks, NEW c \in g.blks, c = b + BlockSize(g, b),
                      FreeBlock(g, b), FreeBlock(g, c)
               PROVE  FALSE
    BY DEF CoalescedOK, NEXT_BLKP, BlockSize, FreeBlock
  <2>1. b \in Nat /\ BlockSize(g, b) \in Nat /\ BlockSize(g, b) >= 16
    BY <1>0, <1>4, BlockFacts
  <2>2. CASE b = p
    <3>1. c = e /\ c # p
      BY <2>1, <2>2, <1>0, <1>1, <1>3, <1>4
    <3>2. FreeBlock(h, e)
      BY <3>1, <1>0, <1>6
    <3>3. FreeBlock(h, n) /\ e = n + BlockSize(h, n) /\ n # bp /\ e # bp
      BY <3>2, <1>1, <1>2, <1>3
    <3> QED BY <3>2, <3>3 DEF CoalescedBut, FreeBlock
  <2>3. CASE c = p
    <3>1. b # p /\ b + BlockSize(h, b) = p /\ b \in h.blks /\ FreeBlock(h, b)
      BY <2>1, <2>3, <1>4, <1>6
    <3>2. p # bp
      BY <3>1, <1>1
    <3>3. FreeBlock(h, p) /\ b # bp
      BY <3>1, <3>2, <2>1, <2>3, <1>1, <1>3
    <3> QED BY <3>1, <3>2, <3>3 DEF CoalescedBut
  <2>4. CASE b # p /\ c # p
    <3>1. FreeBlock(h, b) /\ FreeBlock(h, c) /\ c = b + BlockSize(h, b)
      BY <2>4, <1>4, <1>6
    <3>2. b = bp \/ c = bp
      BY <3>1 DEF CoalescedBut, FreeBlock
    <3>3. bp # p /\ bp \in g.blks
      BY <3>2, <2>4
    <3> QED BY <3>3, <1>0, <1>1, <1>3
  <2> QED BY <2>2, <2>3, <2>4
<1>11. BlockSize(g, p) >= BlockSize(h, bp)
  BY <1>1, <1>3, <1>4
<1> QED BY <1>4, <1>5, <1>9, <1>10, <1>11

-----------------------------------------------------------------------------
(* What one PUT changes: one word.                                         *)
LEMMA PutFields ==
  ASSUME NEW h \in Heaps, NEW x, NEW v \in Int
  PROVE  /\ PUT(h, x, v) \in Heaps
         /\ PUT(h, x, v).brk = h.brk /\ PUT(h, x, v).blks = h.blks
         /\ PUT(h, x, v).gaps = h.gaps
         /\ \A w \in WordAddrs : PUT(h, x, v).mem[w] = IF w = x THEN v ELSE h.mem[w]
BY DEF PUT, Heaps

(* What writing one tag at two places and a new set of blocks change.      *)
LEMMA PutTwo ==
  ASSUME NEW h \in Heaps, NEW x, NEW y, NEW v \in Int, NEW S \in SUBSET Nat,
         NEW g, g = SetBlocks(PUT(PUT(h, x, v), y, v), S)
  PROVE  /\ g \in Heaps /\ g.brk = h.brk /\ g.blks = S /\ g.gaps = h.gaps
         /\ \A w \in WordAddrs :
               g.mem[w] = IF w = x \/ w = y THEN v ELSE h.mem[w]
<1>1. PICK h1 : h1 = PUT(h, x, v)
  OBVIOUS
<1>2. PICK h2 : h2 = PUT(h1, y, v)
  OBVIOUS
<1>3. /\ h1 \in Heaps /\ h1.brk = h.brk /\ h1.gaps = h.gaps
      /\ \A w \in WordAddrs : h1.mem[w] = IF w = x THEN v ELSE h.mem[w]
  BY <1>1, PutFields
<1>4. /\ h2 \in Heaps /\ h2.brk = h1.brk /\ h2.gaps = h1.gaps
      /\ \A w \in WordAddrs : h2.mem[w] = IF w = y THEN v ELSE h1.mem[w]
  BY <1>2, <1>3, PutFields
<1>5. g = [h2 EXCEPT !.blks = S]
  BY <1>1, <1>2 DEF SetBlocks
<1>6. /\ g \in Heaps /\ g.brk = h2.brk /\ g.blks = S /\ g.gaps = h2.gaps
      /\ g.mem = h2.mem
  BY <1>4, <1>5 DEF Heaps
<1> QED BY <1>3, <1>4, <1>6

(* Where the tags of a block go that PutTags gives a new size. *)
LEMMA PutTagsIsPutTwo ==
  ASSUME NEW h \in Heaps, NEW b \in Int, b - 4 \in WordAddrs,
         NEW s \in Int, s % 8 = 0, NEW a \in {0, 1}
  PROVE  PutTags(h, b, s, a) = PUT(PUT(h, b - 4, PACK(s, a)), b + s - 8, PACK(s, a))
<1> DEFINE h1 == PUT(h, b - 4, PACK(s, a))
<1>1. /\ PACK(s, a) \in Int
      /\ PACK(s, a) - (PACK(s, a) % 8) = s
  BY PackUnpack
<1>2. h1.mem[b - 4] = PACK(s, a)
  BY <1>1, PutFields
<1>3. FTRP(h1, b) = b + s - 8
  BY <1>1, <1>2 DEF FTRP, GET_SIZE, HDRP, WSIZE, DSIZE
<1> QED BY <1>3 DEF PutTags, HDRP, WSIZE

-----------------------------------------------------------------------------
(* What coalesce finds out about the neighbours of bp from their tags. *)
LEMMA Neighbours ==
  ASSUME NEW h \in Heaps, Shape(h), NEW bp \in h.blks,
         NEW prev, prev = PREV_BLKP(h, bp), NEW next, next = NEXT_BLKP(h, bp)
  PROVE  /\ next = bp + BlockSize(h, bp)
         /\ GET_ALLOC(h, HDRP(next)) = 1 <=> ~FreeBlock(h, next)
         /\ GET_ALLOC(h, HDRP(prev)) = 1 =>
               \A q \in h.blks : q + BlockSize(h, q) = bp => ~FreeBlock(h, q)
         /\ GET_ALLOC(h, HDRP(prev)) # 1 =>
               FreeBlock(h, prev) /\ prev + BlockSize(h, prev) = bp
<1>1. next = bp + BlockSize(h, bp) /\ next \in h.blks \cup {h.brk} /\ bp \in Nat
  BY BlockFacts DEF NEXT_BLKP, BlockSize
<1>2. \A b \in h.blks : /\ GET_ALLOC(h, HDRP(b)) \in {0, 1}
                        /\ FreeBlock(h, b) <=> GET_ALLOC(h, HDRP(b)) = 0
  <2> SUFFICES ASSUME NEW b \in h.blks PROVE GET_ALLOC(h, HDRP(b)) \in {0, 1}
    BY DEF FreeBlock, IsFree
  <2>1. h.mem[b - 4] \in Int
    BY BlockFacts
  <2> QED BY <2>1 DEF GET_ALLOC, HDRP, WSIZE
<1>3. GET_ALLOC(h, HDRP(next)) = 1 <=> ~FreeBlock(h, next)
  <2>1. CASE next \in h.blks
    BY <2>1, <1>2
  <2>2. CASE next = h.brk /\ next \notin h.blks
    <3>1. h.mem[h.brk - 4] = 1
      BY DEF Shape, EndsOK, HDRP, PACK, WSIZE
    <3> QED BY <2>2, <3>1 DEF FreeBlock, GET_ALLOC, HDRP, WSIZE
  <2> QED BY <1>1, <2>1, <2>2
<1>4. ASSUME NEW q \in h.blks, q + BlockSize(h, q) = bp PROVE prev = q
  <2>1. /\ q \in Nat /\ BlockSize(h, q) \in Nat
        /\ h.mem[q + BlockSize(h, q) - 8] = h.mem[q - 4]
    BY BlockFacts
  <2>2. h.mem[bp - 8] = h.mem[q - 4]
    BY <1>4, <2>1
  <2>3. GET_SIZE(h, bp - 8) = BlockSize(h, q)
    BY <2>2 DEF GET_SIZE, BlockSize, HDRP, WSIZE
  <2> QED BY <1>4, <2>1, <2>3 DEF PREV_BLKP, DSIZE
<1>5. GET_ALLOC(h, HDRP(prev)) = 1 =>
         \A q \in h.blks : q + BlockSize(h, q) = bp => ~FreeBlock(h, q)
  BY <1>2, <1>4
<1>6. ASSUME GET_ALLOC(h, HDRP(prev)) # 1
      PROVE  FreeBlock(h, prev) /\ prev + BlockSize(h, prev) = bp
  <2>1. bp # 16
    <3> SUFFICES ASSUME bp = 16 PROVE FALSE
      OBVIOUS
    <3>1. h.mem[8] = 9 /\ h.mem[4] = 9
      BY DEF Shape, EndsOK, HDRP, PACK, WSIZE, DSIZE, heap_listp
    <3>2. prev = 8
      BY <3>1 DEF PREV_BLKP, GET_SIZE, DSIZE
    <3>3. GET_ALLOC(h, HDRP(prev)) = 1
      BY <3>1, <3>2 DEF GET_ALLOC, HDRP, WSIZE
    <3> QED BY <1>6, <3>3
  <2>2. PICK q \in h.blks : q + BlockSize(h, q) = bp
    BY <2>1, PredFacts
  <2>3. prev = q
    BY <2>2, <1>4
  <2> QED BY <2>2, <2>3, <1>2, <1>6
<1> QED BY <1>1, <1>3, <1>5, <1>6

(* What Join writes.                                                       *)
Joined(h, g, p, s, e, gone) ==
  /\ g \in Heaps /\ g.brk = h.brk /\ g.gaps = h.gaps /\ g.blks = h.blks \ gone
  /\ \A w \in WordAddrs :
        g.mem[w] = IF w = p - 4 \/ w = e - 8 THEN PACK(s, 0) ELSE h.mem[w]

(* Join writes the two tags of the joined block, the footer where the      *)
(* header it has just written, or that of the last block, says.            *)
LEMMA JoinFields ==
  ASSUME NEW h \in Heaps, NEW p \in Int, p - 4 \in WordAddrs,
         NEW s \in Int, s % 8 = 0, NEW gone,
         NEW last \in Int, last - 4 \in WordAddrs, NEW e \in Int,
         \/ last = p /\ e = p + s
         \/ last # p /\ e = last + BlockSize(h, last)
  PROVE  Joined(h, Join(h, p, s, last, gone), p, s, e, gone)
<1>1. PICK h1 : h1 = PUT(h, p - 4, PACK(s, 0))
  OBVIOUS
<1>2. /\ PACK(s, 0) \in Int
      /\ PACK(s, 0) - (PACK(s, 0) % 8) = s
  BY PackUnpack
<1>3. h1.mem[p - 4] = PACK(s, 0)
  BY <1>1, <1>2, PutFields
<1>4. FTRP(h1, last) = e - 8
  <2>1. FTRP(h1, last) = last + (h1.mem[last - 4] - (h1.mem[last - 4] % 8)) - 8
    BY DEF FTRP, GET_SIZE, HDRP, WSIZE, DSIZE
  <2>2. CASE last = p
    BY <2>1, <2>2, <1>2, <1>3
  <2>3. CASE last # p
    <3>1. h1.mem[last - 4] = h.mem[last - 4]
      BY <2>3, <1>1, <1>2, PutFields
    <3>2. e = last + (h.mem[last - 4] - (h.mem[last - 4] % 8))
      BY <2>3 DEF BlockSize, GET_SIZE, HDRP, WSIZE
    <3>3. h.mem[last - 4] \in Int
      BY DEF Heaps
    <3> QED BY <2>1, <3>1, <3>2, <3>3
  <2> QED BY <2>2, <2>3
<1>5. PICK g : g = Join(h, p, s, last, gone)
  OBVIOUS
<1>6. g = SetBlocks(PUT(PUT(h, p - 4, PACK(s, 0)), e - 8, PACK(s, 0)), h.blks \ gone)
  BY <1>1, <1>4, <1>5 DEF Join, HDRP, WSIZE
<1>7. h.blks \ gone \in SUBSET Nat
  BY DEF Heaps
<1>8. /\ g \in Heaps /\ g.brk = h.brk /\ g.gaps = h.gaps /\ g.blks = h.blks \ gone
      /\ \A w \in WordAddrs :
            g.mem[w] = IF w = p - 4 \/ w = e - 8 THEN PACK(s, 0) ELSE h.mem[w]
  BY <1>2, <1>6, <1>7, PutTwo
<1> QED BY <1>5, <1>8 DEF Joined

(* What coalesce does to the heap around a free block bp.                  *)
Coalesced(h, bp, r) ==
  /\ r.heap \in Heaps /\ r.heap.brk = h.brk /\ r.heap.gaps = h.gaps
  /\ Shape(r.heap) /\ CoalescedOK(r.heap)
  /\ r.ret \in Nat /\ FreeBlock(r.heap, r.ret)
  /\ BlockSize(r.heap, r.ret) >= BlockSize(h, bp)
  /\ SameAllocated(h, r.heap)
  /\ r.heap.blks \subseteq h.blks

(* The blocks strictly between p and e, which Join takes off the heap.     *)
Inner(p, bp, n, e) ==
  (IF p = bp THEN {} ELSE {bp}) \cup (IF e = n THEN {} ELSE {n})

(* The blocks between p and e in a free run are the one or two that        *)
(* coalesce joins to p.                                                    *)
LEMMA InnerBlocks ==
  ASSUME NEW h \in Heaps, Shape(h), NEW bp \in h.blks,
         NEW p \in h.blks, NEW n, NEW e, FreeRun(h, bp, p, n, e)
  PROVE  {c \in h.blks : p < c /\ c < e} = Inner(p, bp, n, e)
<1> USE DEF FreeRun
<1>1. /\ bp \in Nat /\ BlockSize(h, bp) \in Nat /\ BlockSize(h, bp) >= 16
      /\ n \in h.blks \cup {h.brk} /\ n \in Nat
      /\ p \in Nat /\ BlockSize(h, p) \in Nat /\ BlockSize(h, p) >= 16
  BY BlockFacts
<1>2. e # n => /\ n \in h.blks
               /\ BlockSize(h, n) \in Nat /\ BlockSize(h, n) >= 16
  BY BlockFacts DEF FreeBlock
<1>3. /\ e \in Nat /\ p <= bp /\ bp < n /\ n <= e
      /\ p # bp => p < bp
      /\ e # n => n < e
  BY <1>1, <1>2
<1>4. ASSUME NEW c \in h.blks
      PROVE  /\ c \in Nat
             /\ p < c => p + BlockSize(h, p) <= c
             /\ bp < c => n <= c
             /\ n < c => n \notin h.blks \/ n + BlockSize(h, n) <= c
  BY BlockFacts, OrderFacts
<1>5. ASSUME NEW c \in h.blks, p < c, c < e
      PROVE  (c = bp /\ p # bp) \/ (c = n /\ e # n)
  BY <1>1, <1>2, <1>3, <1>4, <1>5
<1> QED BY <1>1, <1>2, <1>3, <1>5 DEF Inner

(* Join on a run of free blocks is what coalesce is meant to do.           *)
LEMMA JoinCoalesces ==
  ASSUME NEW h \in Heaps, Shape(h), NEW bp \in h.blks, FreeBlock(h, bp),
         CoalescedBut(h, bp),
         NEW p \in h.blks, NEW n, NEW e, FreeRun(h, bp, p, n, e),
         NEW last \in h.blks, NEW s, s = e - p,
         \/ last = p
         \/ last # p /\ e = last + BlockSize(h, last),
         NEW r, r.ret = p, r.heap = Join(h, p, s, last, Inner(p, bp, n, e))
  PROVE  Coalesced(h, bp, r)
<1>1. /\ p \in Nat /\ p % 8 = 0 /\ p - 4 \in WordAddrs
      /\ last \in Nat /\ last - 4 \in WordAddrs
      /\ n \in h.blks \cup {h.brk} /\ h.brk \in Nat /\ h.brk % 8 = 0
  BY BlockFacts DEF FreeRun
<1>2. e \in h.blks \cup {h.brk}
  BY <1>1, BlockFacts DEF FreeRun, FreeBlock
<1>3. e \in Nat /\ e % 8 = 0
  BY <1>1, <1>2, BlockFacts
<1>4. s \in Int /\ s % 8 = 0 /\ (last = p => e = p + s)
  BY <1>1, <1>3
<1>5. PICK gone : gone = Inner(p, bp, n, e)
  OBVIOUS
<1>6. PICK g : g = Join(h, p, s, last, gone)
  OBVIOUS
<1>7. Joined(h, g, p, s, e, gone)
  BY <1>1, <1>3, <1>4, <1>6, JoinFields
<1>8. gone = {c \in h.blks : p < c /\ c < e}
  BY <1>5, InnerBlocks
<1>9. Retagged(h, g, p, e, 0)
  BY <1>7, <1>8 DEF Joined, Retagged
<1>10. /\ Shape(g) /\ CoalescedOK(g) /\ FreeBlock(g, p)
       /\ BlockSize(g, p) >= BlockSize(h, bp)
       /\ SameAllocated(h, g)
  BY <1>9, Merge
<1>11. r.heap = g /\ r.ret = p
  BY <1>5, <1>6
<1> QED BY <1>1, <1>7, <1>10, <1>11 DEF Coalesced, Joined

(* coalesce joins a free block with the free neighbours it has, in all     *)
(* four cases of the code.                                                 *)
LEMMA CoalesceWorks ==
  ASSUME NEW h \in Heaps, Shape(h), NEW bp \in h.blks, FreeBlock(h, bp),
         CoalescedBut(h, bp)
  PROVE  Coalesced(h, bp, coalesce(h, bp))
<1> DEFINE prev == PREV_BLKP(h, bp)
           next == NEXT_BLKP(h, bp)
           after == next + BlockSize(h, next)
<1>1. PICK r : r = coalesce(h, bp)
  OBVIOUS
<1>2. /\ next = bp + BlockSize(h, bp)
      /\ GET_ALLOC(h, HDRP(next)) = 1 <=> ~FreeBlock(h, next)
      /\ GET_ALLOC(h, HDRP(prev)) = 1 =>
            \A q \in h.blks : q + BlockSize(h, q) = bp => ~FreeBlock(h, q)
      /\ GET_ALLOC(h, HDRP(prev)) # 1 =>
            FreeBlock(h, prev) /\ prev + BlockSize(h, prev) = bp
  BY Neighbours
<1>3. /\ bp \in Nat /\ BlockSize(h, bp) \in Nat /\ BlockSize(h, bp) >= 16
      /\ bp + BlockSize(h, bp) \in h.blks \cup {h.brk}
  BY BlockFacts
<1>4. \A b : FreeBlock(h, b) => /\ b \in h.blks /\ b \in Nat
                                /\ BlockSize(h, b) \in Nat /\ BlockSize(h, b) >= 16
  BY BlockFacts DEF FreeBlock
<1>10. CASE GET_ALLOC(h, HDRP(prev)) = 1 /\ GET_ALLOC(h, HDRP(next)) = 1
  <2>1. r.heap = h /\ r.ret = bp
    BY <1>10, <1>1 DEF coalesce
  <2>2. FreeRun(h, bp, bp, next, next)
    BY <1>2, <1>10 DEF FreeRun
  <2>3. next - bp = BlockSize(h, bp) /\ next - 8 = bp + BlockSize(h, bp) - 8
    BY <1>2, <1>3
  <2>4. PACK(next - bp, 0) = h.mem[bp - 4] /\ h.mem[next - 8] = h.mem[bp - 4]
    BY <2>3, FreeHeader, BlockFacts
  <2>5. {c \in h.blks : bp < c /\ c < next} = {}
    BY <2>2, InnerBlocks DEF Inner
  <2>6. Retagged(h, h, bp, next, 0)
    BY <2>4, <2>5 DEF Retagged
  <2>7. Shape(h) /\ CoalescedOK(h) /\ FreeBlock(h, bp) /\ SameAllocated(h, h)
    BY <2>2, <2>6, Merge
  <2> QED BY <1>1, <1>3, <2>1, <2>7 DEF Coalesced
<1>11. CASE GET_ALLOC(h, HDRP(prev)) = 1 /\ GET_ALLOC(h, HDRP(next)) # 1
  <2>1. /\ r.heap = Join(h, bp, BlockSize(h, bp) + BlockSize(h, next), bp, {next})
        /\ r.ret = bp
    BY <1>11, <1>1 DEF coalesce, BlockSize
  <2>2. FreeRun(h, bp, bp, next, after)
    BY <1>2, <1>11 DEF FreeRun
  <2>3. BlockSize(h, bp) + BlockSize(h, next) = after - bp /\ after # next
    BY <1>2, <1>3, <1>4, <1>11
  <2>4. {next} = Inner(bp, bp, next, after)
    BY <2>3 DEF Inner
  <2>5. r.heap = Join(h, bp, after - bp, bp, Inner(bp, bp, next, after))
    BY <2>1, <2>3, <2>4
  <2> HIDE DEF after, next, prev
  <2> QED BY <1>1, <2>1, <2>2, <2>5, JoinCoalesces
<1>12. CASE GET_ALLOC(h, HDRP(prev)) # 1 /\ GET_ALLOC(h, HDRP(next)) = 1
  <2>1. /\ r.heap = Join(h, prev, BlockSize(h, bp) + BlockSize(h, prev), bp, {bp})
        /\ r.ret = prev
    BY <1>12, <1>1 DEF coalesce, BlockSize
  <2>2. FreeRun(h, bp, prev, next, next)
    BY <1>2, <1>12 DEF FreeRun
  <2>3. /\ BlockSize(h, bp) + BlockSize(h, prev) = next - prev /\ bp # prev
        /\ prev \in h.blks
    BY <1>2, <1>3, <1>4, <1>12
  <2>4. {bp} = Inner(prev, bp, next, next)
    BY <2>3 DEF Inner
  <2>5. r.heap = Join(h, prev, next - prev, bp, Inner(prev, bp, next, next))
    BY <2>1, <2>3, <2>4
  <2> HIDE DEF after, next, prev
  <2> QED BY <1>1, <1>2, <2>1, <2>2, <2>3, <2>5, JoinCoalesces
<1>13. CASE GET_ALLOC(h, HDRP(prev)) # 1 /\ GET_ALLOC(h, HDRP(next)) # 1
  <2>1. /\ r.heap = Join(h, prev, BlockSize(h, bp) + BlockSize(h, prev)
                                    + BlockSize(h, next), next, {bp, next})
        /\ r.ret = prev
    BY <1>13, <1>1 DEF coalesce, BlockSize
  <2>2. FreeRun(h, bp, prev, next, after)
    BY <1>2, <1>13 DEF FreeRun
  <2>3. /\ BlockSize(h, bp) + BlockSize(h, prev) + BlockSize(h, next) = after - prev
        /\ bp # prev /\ next # prev /\ after # next
        /\ prev \in h.blks /\ next \in h.blks
    BY <1>2, <1>3, <1>4, <1>13
  <2>4. {bp, next} = Inner(prev, bp, next, after)
    BY <2>3 DEF Inner
  <2>5. r.heap = Join(h, prev, after - prev, next, Inner(prev, bp, next, after))
    BY <2>1, <2>3, <2>4
  <2>6. after = next + BlockSize(h, next)
    OBVIOUS
  <2> HIDE DEF after, next, prev
  <2> QED BY <1>1, <2>1, <2>2, <2>3, <2>5, <2>6, JoinCoalesces
<1> QED BY <1>10, <1>11, <1>12, <1>13

-----------------------------------------------------------------------------
(* The requests.                                                           *)

(* A non-empty set of naturals has a least element.                        *)
LEMMA NatMinimum ==
  ASSUME NEW S \in SUBSET Nat, S # {}
  PROVE  \E x \in S : \A y \in S : x <= y
<1>1. PICK R : R = OpToRel(<, Nat)
  OBVIOUS
<1>2. \A x, y \in Nat : <<y, x>> \in R <=> y < x
  BY <1>1 DEF OpToRel
<1>3. IsWellFoundedOn(R, Nat)
  BY <1>1, NatLessThanWellFounded
<1>4. PICK x \in S : \A y \in S : ~ (<<y, x>> \in R)
  BY <1>3, WFMin
<1>5. S \subseteq Nat
  OBVIOUS
<1>6. \A y \in S : ~(y < x)
  BY <1>2, <1>4, <1>5, Zenon
<1> QED BY <1>5, <1>6

(* find_fit answers NULL or a free block that is large enough.             *)
LEMMA FindFit ==
  ASSUME NEW h \in Heaps, Shape(h), NEW asize \in Nat, find_fit(h, asize) # NULL
  PROVE  /\ FreeBlock(h, find_fit(h, asize))
         /\ asize <= BlockSize(h, find_fit(h, asize))
<1>1. PICK F : F = Fits(h, asize)
  OBVIOUS
<1>2. F \in SUBSET Nat
  BY <1>1 DEF Fits, Heaps
<1>3. F # {}
  BY <1>1 DEF find_fit
<1>4. \E b \in F : \A c \in F : b <= c
  BY <1>2, <1>3, NatMinimum
<1>5. find_fit(h, asize) = CHOOSE b \in F : \A c \in F : b <= c
  BY <1>1, <1>3 DEF find_fit
<1>6. find_fit(h, asize) \in F
  BY <1>4, <1>5
<1> QED BY <1>1, <1>6 DEF Fits, FreeBlock, IsFree, BlockSize

-----------------------------------------------------------------------------
(* What place leaves behind: the block is allocated, every other allocated *)
(* block is as it was, and unless there is a new gap the heap is well      *)
(* formed.                                                                 *)
Placed(h, g, bp, asize) ==
  /\ g \in Heaps /\ g.brk = h.brk
  /\ \A b : AllocBlock(h, b) => Kept(h, g, b)
  /\ g.gaps # {} => /\ BlockSize(h, bp) - asize \in 1 .. 15
                    /\ \A b : AllocBlock(h, b) => g.mem[b - 8] = h.mem[b - 8]
  /\ g.gaps = {} =>
       /\ Shape(g) /\ CoalescedOK(g)
       /\ AllocBlock(g, bp) /\ BlockSize(g, bp) >= asize
       /\ g.blks \subseteq h.blks \cup {bp + asize}
       /\ \A b : b # bp => (AllocBlock(g, b) <=> AllocBlock(h, b))

(* g differs from h in the auxiliary fields only, which are B and G.       *)
SameBytes(h, g, B, G) ==
  g \in Heaps /\ g.mem = h.mem /\ g.brk = h.brk /\ g.blks = B /\ g.gaps = G

(* Setting the auxiliary fields leaves the rest of a heap alone.           *)
LEMMA AddBlockFields ==
  ASSUME NEW h \in Heaps, NEW x \in Nat
  PROVE  SameBytes(h, AddBlock(h, x), h.blks \cup {x}, h.gaps)
BY DEF AddBlock, SameBytes, Heaps

(* A recorded gap changes no byte.                                         *)
LEMMA AddGapFields ==
  ASSUME NEW h \in Heaps, NEW x \in Nat
  PROVE  SameBytes(h, AddGap(h, x), h.blks, h.gaps \cup {x})
BY DEF AddGap, SameBytes, Heaps

(* Forgetting the blocks changes no byte.                                  *)
LEMMA NoBlocksFields ==
  ASSUME NEW h \in Heaps
  PROVE  SameBytes(h, NoBlocks(h), {}, {})
BY DEF NoBlocks, SameBytes, Heaps

(* What PutTags writes: two words.                                         *)
TagsPut(h, g, b, s, a) ==
  /\ g \in Heaps /\ g.brk = h.brk /\ g.blks = h.blks /\ g.gaps = h.gaps
  /\ \A w \in WordAddrs :
        g.mem[w] = IF w = b - 4 \/ w = b + s - 8 THEN PACK(s, a) ELSE h.mem[w]

(* PutTags writes the header, and the footer that the size in the header   *)
(* gives.                                                                  *)
LEMMA PutTagsFields ==
  ASSUME NEW h \in Heaps, NEW b \in Int, b - 4 \in WordAddrs,
         NEW s \in Int, s % 8 = 0, NEW a \in {0, 1}
  PROVE  TagsPut(h, PutTags(h, b, s, a), b, s, a)
<1>1. PICK v : v = PACK(s, a)
  OBVIOUS
<1>2. v \in Int
  BY <1>1, PackUnpack
<1>3. PICK h1 : h1 = PUT(h, b - 4, v)
  OBVIOUS
<1>4. PICK h2 : h2 = PUT(h1, b + s - 8, v)
  OBVIOUS
<1>5. PutTags(h, b, s, a) = h2
  BY <1>1, <1>3, <1>4, PutTagsIsPutTwo
<1>6. /\ h1 \in Heaps /\ h1.brk = h.brk /\ h1.blks = h.blks /\ h1.gaps = h.gaps
      /\ \A w \in WordAddrs : h1.mem[w] = IF w = b - 4 THEN v ELSE h.mem[w]
  BY <1>2, <1>3, PutFields
<1>7. /\ h2 \in Heaps /\ h2.brk = h1.brk /\ h2.blks = h1.blks /\ h2.gaps = h1.gaps
      /\ \A w \in WordAddrs : h2.mem[w] = IF w = b + s - 8 THEN v ELSE h1.mem[w]
  BY <1>2, <1>4, <1>6, PutFields
<1>8. TagsPut(h, h2, b, s, a)
  BY <1>1, <1>6, <1>7 DEF TagsPut
<1> QED BY <1>5, <1>8

(* No other block has a tag or a payload between the tags of bp.           *)
LEMMA KeptOutside ==
  ASSUME NEW h \in Heaps, Shape(h), NEW bp \in h.blks,
         NEW b \in h.blks, b # bp,
         NEW g,
         \A w \in WordAddrs :
            w < bp - 4 \/ w > bp + BlockSize(h, bp) - 8 => g.mem[w] = h.mem[w]
  PROVE  Kept(h, g, b)
<1>1. /\ b \in Nat /\ bp \in Nat /\ b % 8 = 0 /\ bp % 8 = 0
      /\ BlockSize(h, b) \in Nat /\ BlockSize(h, b) >= 16
      /\ BlockSize(h, bp) \in Nat /\ BlockSize(h, bp) >= 16
      /\ b - 4 \in WordAddrs
  BY BlockFacts
<1>2. /\ b < bp => b + BlockSize(h, b) <= bp
      /\ b > bp => bp + BlockSize(h, bp) <= b
  BY <1>1, OrderFacts
<1>3. g.mem[b - 4] = h.mem[b - 4]
  BY <1>1, <1>2
<1>4. ASSUME NEW w \in WordAddrs, b <= w, w < b + BlockSize(h, b) - 8
      PROVE  g.mem[w] = h.mem[w]
  <2>1. w \in Nat
    BY DEF WordAddrs
  <2>2. w < bp - 4 \/ w > bp + BlockSize(h, bp) - 8
    BY <2>1, <1>1, <1>2, <1>4
  <2> QED BY <2>2
<1> QED BY <1>3, <1>4 DEF Kept

(* place on a free block that is large enough.                             *)
LEMMA PlaceWorks ==
  ASSUME NEW h \in Heaps, Shape(h), CoalescedOK(h), h.gaps = {}, NEW bp, FreeBlock(h, bp),
         NEW asize \in Nat, asize % 8 = 0, asize >= 16, asize <= BlockSize(h, bp)
  PROVE  Placed(h, place(h, bp, asize), bp, asize)
<1>1. PICK size : size = BlockSize(h, bp)
  OBVIOUS
<1>2. /\ bp \in h.blks /\ bp \in Nat /\ bp % 8 = 0 /\ bp >= 16 /\ bp - 4 \in WordAddrs
      /\ size \in Nat /\ size % 8 = 0 /\ size >= 16
      /\ h.brk \in Nat /\ bp + size <= h.brk /\ h.brk <= MAX_HEAP
      /\ bp + size \in h.blks \cup {h.brk} /\ bp + size - 8 \in WordAddrs
  BY <1>1, BlockFacts DEF FreeBlock
<1>3. PICK h1 : h1 = PutTags(h, bp, asize, 1)
  OBVIOUS
<1>4. /\ h1 \in Heaps /\ h1.brk = h.brk /\ h1.blks = h.blks /\ h1.gaps = h.gaps
      /\ \A w \in WordAddrs :
            h1.mem[w] = IF w = bp - 4 \/ w = bp + asize - 8 THEN PACK(asize, 1)
                                                           ELSE h.mem[w]
  <2>1. TagsPut(h, h1, bp, asize, 1)
    BY <1>2, <1>3, PutTagsFields
  <2> QED BY <2>1 DEF TagsPut
<1>5. PICK next : next = bp + asize
  OBVIOUS
<1>6. NEXT_BLKP(h1, bp) = next
  <2>1. h1.mem[bp - 4] = PACK(asize, 1)
    BY <1>2, <1>4
  <2>2. PACK(asize, 1) - (PACK(asize, 1) % 8) = asize
    BY PackUnpack
  <2> QED BY <2>1, <2>2, <1>5 DEF NEXT_BLKP, GET_SIZE, HDRP, WSIZE
<1>7. PICK g : g = place(h, bp, asize)
  OBVIOUS
<1>8. /\ size - asize >= 16 =>
            g = AddBlock(PutTags(h1, next, size - asize, 0), next)
      /\ size - asize < 16 /\ size - asize # 0 => g = AddGap(h1, next)
      /\ size - asize = 0 => g = h1
  <2>1. GET_SIZE(h, HDRP(bp)) = size
    BY <1>1 DEF BlockSize
  <2>2. ASSUME size - asize >= 16
        PROVE  g = AddBlock(PutTags(h1, next, size - asize, 0), next)
    BY <2>1, <2>2, <1>2, <1>3, <1>6, <1>7 DEF place, DSIZE
  <2>3. ASSUME size - asize < 16 /\ size - asize # 0
        PROVE  g = AddGap(h1, next)
    BY <2>1, <2>3, <1>2, <1>3, <1>6, <1>7 DEF place, DSIZE
  <2>4. ASSUME size - asize = 0
        PROVE  g = h1
    BY <2>1, <2>4, <1>2, <1>3, <1>6, <1>7 DEF place, DSIZE
  <2> QED BY <2>2, <2>3, <2>4
<1>9. \A b : AllocBlock(h, b) => b \in h.blks /\ b # bp
  BY Zenon DEF AllocBlock, FreeBlock
<1>10. next \in Nat /\ next % 8 = 0 /\ next - 4 \in WordAddrs /\ next - 8 \in WordAddrs
       /\ size - asize \in Nat /\ (size - asize) % 8 = 0
  BY <1>1, <1>2, <1>5, MaxHeapAssumption DEF WordAddrs, WSIZE
<1>11. CASE size - asize = 0
  <2>1. g = h1
    BY <1>8, <1>11
  <2>2. asize = size /\ next = bp + size
    BY <1>2, <1>5, <1>11
  <2>3. \A b : AllocBlock(h, b) => Kept(h, g, b)
    <3>1. \A w \in WordAddrs : w < bp - 4 \/ w > bp + size - 8 => g.mem[w] = h.mem[w]
      BY <2>1, <2>2, <1>2, <1>4
    <3> QED BY <3>1, <1>1, <1>2, <1>9, KeptOutside
  <2>4. \A c \in h.blks : ~(bp < c /\ c < next)
    <3>1. \A c \in h.blks : c \in Nat /\ (bp < c => next <= c)
      BY <2>2, <1>1, <1>2, OrderFacts, BlockFacts
    <3> QED BY <3>1, <1>10
  <2>5. Retagged(h, g, bp, next, 1)
    <3>1. next - bp = asize /\ next - 8 = bp + asize - 8
      BY <1>2, <1>5
    <3>2. h.blks = h.blks \ {c \in h.blks : bp < c /\ c < next}
      BY <2>4
    <3> QED BY <3>1, <3>2, <2>1, <1>4 DEF Retagged
  <2>6. /\ Shape(g)
        /\ bp \in g.blks
        /\ g.mem[bp - 4] = PACK(next - bp, 1) /\ BlockSize(g, bp) = next - bp
        /\ \A b \in g.blks \ {bp} : /\ b \in h.blks
                                    /\ g.mem[b - 4] = h.mem[b - 4]
                                    /\ BlockSize(g, b) = BlockSize(h, b)
    <3>1. bp < next /\ next \in h.blks \cup {h.brk}
      BY <2>2, <1>2
    <3> QED BY <2>5, <3>1, <1>2, Retag
  <2>7. next - bp = asize
    BY <1>2, <1>5
  <2>8. ~IsFree(g, bp)
    <3>1. PACK(asize, 1) % 2 = 1
      BY PackUnpack
    <3> QED BY <2>6, <2>7, <3>1 DEF IsFree, GET_ALLOC, HDRP, WSIZE
  <2>9. \A b \in h.blks : b # bp =>
           /\ IsFree(g, b) <=> IsFree(h, b)
           /\ BlockSize(g, b) = BlockSize(h, b)
    BY <2>1, <2>6, <1>4 DEF IsFree, GET_ALLOC, HDRP, WSIZE
  <2>10. CoalescedOK(g)
    BY <2>1, <2>2, <2>6, <2>7, <2>8, <2>9, <1>1, <1>4
       DEF CoalescedOK, NEXT_BLKP, BlockSize
  <2>11. \A b : b # bp => (AllocBlock(g, b) <=> AllocBlock(h, b))
    BY <2>1, <2>9, <1>4 DEF AllocBlock
  <2>12. g.blks \subseteq h.blks \cup {bp + asize}
    BY <2>1, <1>4
  <2> QED
    BY <2>1, <2>3, <2>6, <2>7, <2>8, <2>10, <2>11, <2>12, <1>2, <1>4, <1>7
       DEF Placed, AllocBlock
<1>12. CASE size - asize < 16 /\ size - asize # 0
  <2>1. g = AddGap(h1, next)
    BY <1>8, <1>12
  <2>2. /\ g \in Heaps /\ g.brk = h.brk /\ g.gaps # {} /\ g.mem = h1.mem
    <3>1. SameBytes(h1, g, h1.blks, h1.gaps \cup {next})
      BY <2>1, <1>4, <1>10, AddGapFields
    <3> QED BY <3>1, <1>4 DEF SameBytes
  <2>3. \A w \in WordAddrs : w < bp - 4 \/ w > bp + size - 8 => g.mem[w] = h.mem[w]
    BY <2>2, <1>1, <1>2, <1>4
  <2>4. \A b : AllocBlock(h, b) => Kept(h, g, b)
    BY <2>3, <1>1, <1>2, <1>9, KeptOutside
  <2>5. \A b : AllocBlock(h, b) => g.mem[b - 8] = h.mem[b - 8]
    <3> SUFFICES ASSUME NEW b, AllocBlock(h, b) PROVE g.mem[b - 8] = h.mem[b - 8]
      OBVIOUS
    <3>1. b \in h.blks /\ b # bp
      BY <1>9
    <3>2. b \in Nat /\ b % 8 = 0 /\ b >= 16 /\ b <= h.brk
          /\ (b > bp => b >= bp + size)
      BY <3>1, <1>1, <1>2, BlockFacts, OrderFacts
    <3>3. b - 8 \in WordAddrs /\ b - 8 # bp - 4 /\ b - 8 # bp + asize - 8
      BY <3>1, <3>2, <1>1, <1>2, <1>12, MaxHeapAssumption DEF WordAddrs, WSIZE
    <3> QED BY <3>3, <2>2, <1>4
  <2>6. BlockSize(h, bp) - asize \in 1 .. 15
    BY <1>1, <1>2, <1>10, <1>12
  <2> QED BY <2>2, <2>4, <2>5, <2>6, <1>7 DEF Placed
<1>13. CASE size - asize >= 16
  <2>1. PICK h2 : h2 = PutTags(h1, next, size - asize, 0)
    OBVIOUS
  <2>2. PICK e : e = bp + size
    OBVIOUS
  <2>3. next + (size - asize) - 8 = e - 8 /\ next - bp = asize /\ e - next = size - asize
        /\ bp + asize - 8 = next - 8
    BY <2>2, <1>2, <1>5
  <2>4. /\ h2 \in Heaps /\ h2.brk = h.brk /\ h2.blks = h.blks /\ h2.gaps = h.gaps
        /\ \A w \in WordAddrs :
              h2.mem[w] = IF w = next - 4 \/ w = e - 8 THEN PACK(size - asize, 0)
                                                      ELSE h1.mem[w]
    <3>1. PICK rest : rest = size - asize
      OBVIOUS
    <3>2. TagsPut(h1, h2, next, rest, 0)
      BY <3>1, <2>1, <1>4, <1>10, PutTagsFields
    <3> QED BY <3>1, <3>2, <2>3, <1>4 DEF TagsPut
  <2>5. g = AddBlock(h2, next)
    BY <2>1, <1>8, <1>13
  <2>6. /\ g \in Heaps /\ g.brk = h.brk /\ g.blks = h.blks \cup {next}
        /\ g.gaps = h.gaps /\ g.mem = h2.mem
    <3>1. SameBytes(h2, g, h2.blks \cup {next}, h2.gaps)
      BY <2>4, <2>5, <1>10, AddBlockFields
    <3> QED BY <3>1, <2>4 DEF SameBytes
  <2>7. \A w \in WordAddrs :
           g.mem[w] = IF w = bp - 4 \/ w = next - 8 THEN PACK(next - bp, 1)
                      ELSE IF w = next - 4 \/ w = e - 8 THEN PACK(e - next, 0)
                      ELSE h.mem[w]
    <3>1. /\ bp - 4 # next - 4 /\ bp - 4 # e - 8 /\ next - 8 # next - 4 /\ next - 8 # e - 8
      BY <2>2, <1>2, <1>5, <1>10, <1>13
    <3> QED BY <2>3, <2>4, <2>6, <3>1, <1>4
  <2>8. SplitAt(h, g, bp, next, e, 1, 0)
    BY <2>6, <2>7 DEF SplitAt
  <2>9. /\ Shape(g)
        /\ next \notin h.blks
        /\ g.mem[bp - 4] = PACK(next - bp, 1) /\ BlockSize(g, bp) = next - bp
        /\ g.mem[next - 4] = PACK(e - next, 0) /\ BlockSize(g, next) = e - next
        /\ \A b \in h.blks \ {bp} : /\ b # next
                                    /\ g.mem[b - 4] = h.mem[b - 4]
                                    /\ BlockSize(g, b) = BlockSize(h, b)
    <3>1. next - bp >= 16 /\ e - next >= 16
      BY <2>3, <1>13
    <3>2. e = bp + BlockSize(h, bp)
      BY <2>2, <1>1
    <3>3. IsSplit(h, g, bp, next, e, 1, 0)
      BY <2>8, <3>1, <3>2, <1>2, <1>10, Split
    <3> QED BY <3>3 DEF IsSplit
  <2>10. ~IsFree(g, bp) /\ IsFree(g, next)
    <3>1. PACK(asize, 1) % 2 = 1
      BY PackUnpack
    <3>2. PACK(size - asize, 0) % 2 = 0
      BY <1>10, PackUnpack
    <3> QED BY <2>3, <2>9, <3>1, <3>2 DEF IsFree, GET_ALLOC, HDRP, WSIZE
  <2>11. \A b \in h.blks : b # bp =>
           /\ IsFree(g, b) <=> IsFree(h, b)
           /\ BlockSize(g, b) = BlockSize(h, b)
    BY <2>9 DEF IsFree, GET_ALLOC, HDRP, WSIZE
  <2>12. CoalescedOK(g)
    <3> SUFFICES ASSUME NEW b \in g.blks, NEW c \in g.blks, c = b + BlockSize(g, b),
                        IsFree(g, b), IsFree(g, c)
                 PROVE  FALSE
      BY DEF CoalescedOK, NEXT_BLKP, BlockSize
    <3>1. b # bp /\ c # bp
      BY <2>10
    <3>2. CASE b = next
      <4>1. c = e
        BY <3>2, <2>2, <2>9, <1>2, <1>10
      <4>2. c \in h.blks
        BY <4>1, <3>2, <2>2, <2>3, <2>6, <1>2, <1>10, <1>13
      <4>3. IsFree(h, c) /\ IsFree(h, bp) /\ c = bp + BlockSize(h, bp)
        BY <4>1, <4>2, <3>1, <2>2, <2>11, <1>1 DEF FreeBlock
      <4> QED BY <4>2, <4>3, <1>2 DEF CoalescedOK, NEXT_BLKP, BlockSize
    <3>3. CASE c = next /\ b # next
      <4>1. b \in h.blks /\ b + BlockSize(h, b) = next
        BY <3>1, <3>3, <2>6, <2>11
      <4>2. next \in h.blks \cup {h.brk}
        BY <4>1, BlockFacts
      <4>3. next < h.brk
        BY <1>2, <1>5, <1>13
      <4> QED BY <4>2, <4>3, <2>9, <1>2, <1>10
    <3>4. CASE b # next /\ c # next
      <4>1. b \in h.blks /\ c \in h.blks /\ IsFree(h, b) /\ IsFree(h, c)
            /\ c = b + BlockSize(h, b)
        BY <3>1, <3>4, <2>6, <2>11
      <4> QED BY <4>1 DEF CoalescedOK, NEXT_BLKP, BlockSize
    <3> QED BY <3>2, <3>3, <3>4
  <2>13. \A b : b # bp => (AllocBlock(g, b) <=> AllocBlock(h, b))
    BY <2>6, <2>10, <2>11 DEF AllocBlock
  <2>14. \A b : AllocBlock(h, b) => Kept(h, g, b)
    <3>1. \A w \in WordAddrs : w < bp - 4 \/ w > bp + size - 8 => g.mem[w] = h.mem[w]
      <4>1. e - 8 = bp + size - 8 /\ next - 8 > bp - 4 /\ next - 4 > bp - 4
            /\ next - 8 < e - 8 /\ next - 4 < e - 8
        BY <2>2, <1>2, <1>5, <1>13
      <4>2. \A w \in WordAddrs : w \in Nat
        BY DEF WordAddrs
      <4> QED BY <4>1, <4>2, <2>2, <2>7, <1>2, <1>10
    <3> QED BY <3>1, <1>1, <1>2, <1>9, KeptOutside
  <2>15. g.blks \subseteq h.blks \cup {bp + asize}
    BY <2>6, <1>5
  <2>16. g.gaps = {}
    BY <2>6
  <2> QED
    BY <2>3, <2>6, <2>9, <2>10, <2>12, <2>13, <2>14, <2>15, <2>16, <1>2, <1>7
       DEF Placed, AllocBlock
<1> QED BY <1>10, <1>11, <1>12, <1>13

-----------------------------------------------------------------------------
(* Keeping the allocated blocks and their payloads is transitive.          *)
LEMMA SameAllocatedTrans ==
  ASSUME NEW h, NEW g, NEW k, SameAllocated(h, g), SameAllocated(g, k)
  PROVE  SameAllocated(h, k)
<1> SUFFICES ASSUME NEW b
             PROVE  /\ AllocBlock(k, b) <=> AllocBlock(h, b)
                    /\ AllocBlock(h, b) => Kept(h, k, b)
  BY DEF SameAllocated
<1>1. /\ AllocBlock(g, b) <=> AllocBlock(h, b)
      /\ AllocBlock(k, b) <=> AllocBlock(g, b)
      /\ AllocBlock(h, b) => Kept(h, g, b) /\ Kept(g, k, b)
  BY DEF SameAllocated
<1>2. ASSUME AllocBlock(h, b) PROVE Kept(h, k, b)
  <2>1. Kept(h, g, b) /\ Kept(g, k, b)
    BY <1>1, <1>2
  <2>2. BlockSize(g, b) = BlockSize(h, b)
    BY <2>1 DEF Kept, BlockSize, GET_SIZE, HDRP, WSIZE
  <2> QED BY <2>1, <2>2 DEF Kept
<1> QED BY <1>1, <1>2

(* What extend_heap does: nothing, or a free block of n bytes or more that *)
(* disturbs no allocated block.                                            *)
ExtendedBy(h, r, n) ==
  \/ r.ret = NULL /\ r.heap = h
  \/ /\ r.ret \in Nat
     /\ r.heap \in Heaps /\ r.heap.brk = h.brk + n /\ r.heap.gaps = h.gaps
     /\ Shape(r.heap) /\ CoalescedOK(r.heap)
     /\ FreeBlock(r.heap, r.ret) /\ BlockSize(r.heap, r.ret) >= n
     /\ SameAllocated(h, r.heap)
     /\ r.heap.blks \subseteq h.blks \cup {h.brk}

(* What a mem_sbrk that succeeds changes: the break.                       *)
LEMMA SbrkFields ==
  ASSUME NEW h \in Heaps, NEW n \in Nat
  PROVE  /\ h.brk + n > MAX_HEAP => mem_sbrk(h, n).ret = NoAddr
         /\ h.brk + n <= MAX_HEAP =>
              /\ mem_sbrk(h, n).ret = h.brk
              /\ mem_sbrk(h, n).heap \in Heaps
              /\ mem_sbrk(h, n).heap.brk = h.brk + n
              /\ mem_sbrk(h, n).heap.mem = h.mem
              /\ mem_sbrk(h, n).heap.blks = h.blks
              /\ mem_sbrk(h, n).heap.gaps = h.gaps
BY MaxHeapAssumption DEF mem_sbrk, Heaps

(* The heap before coalesce: a new free block where the epilogue was.      *)
LEMMA ExtendShape ==
  ASSUME NEW h \in Heaps, Shape(h), CoalescedOK(h), NEW bp, bp = h.brk,
         NEW s \in Nat, s % 8 = 0, s >= 16, bp + s <= MAX_HEAP,
         NEW g, Extended(h, g, bp, s)
  PROVE  /\ Shape(g) /\ FreeBlock(g, bp) /\ BlockSize(g, bp) = s
         /\ CoalescedBut(g, bp) /\ SameAllocated(h, g)
<1>1. /\ Shape(g)
      /\ bp \notin h.blks
      /\ g.mem[bp - 4] = PACK(s, 0) /\ BlockSize(g, bp) = s
      /\ \A b \in h.blks : /\ g.mem[b - 4] = h.mem[b - 4]
                           /\ BlockSize(g, b) = BlockSize(h, b)
  BY Extend
<1>2. g.blks = h.blks \cup {bp}
  BY DEF Extended
<1>3. FreeBlock(g, bp)
  BY <1>1, <1>2, PackedIsFree DEF FreeBlock
<1>4. \A b \in h.blks : IsFree(g, b) <=> IsFree(h, b)
  BY <1>1 DEF IsFree, GET_ALLOC, HDRP, WSIZE
<1>5. CoalescedBut(g, bp)
  BY <1>1, <1>2, <1>4 DEF CoalescedBut, CoalescedOK, FreeBlock, NEXT_BLKP, BlockSize
<1>6. ASSUME NEW b
      PROVE  AllocBlock(g, b) <=> AllocBlock(h, b)
  BY <1>1, <1>2, <1>3, <1>4 DEF AllocBlock, FreeBlock
<1>7. ASSUME NEW b, AllocBlock(h, b)
      PROVE  Kept(h, g, b)
  <2>1. b \in h.blks
    BY <1>7 DEF AllocBlock
  <2>2. /\ b \in Nat /\ BlockSize(h, b) \in Nat /\ b + BlockSize(h, b) <= bp
        /\ bp \in Nat
    BY <2>1, BlockFacts
  <2>3. ASSUME NEW w \in WordAddrs, b <= w, w < b + BlockSize(h, b) - 8
        PROVE  g.mem[w] = h.mem[w]
    <3>1. w \in Nat
      BY DEF WordAddrs
    <3>2. w # bp - 4 /\ w # bp + s - 8 /\ w # bp + s - 4
      BY <3>1, <2>2, <2>3
    <3> QED BY <3>2 DEF Extended
  <2> QED BY <2>1, <2>3, <1>1 DEF Kept
<1> QED BY <1>1, <1>3, <1>5, <1>6, <1>7 DEF SameAllocated

(* extend_heap answers NULL and changes nothing, or makes the heap longer  *)
(* by a free block joined with a free tail.                                *)
LEMMA ExtendHeap ==
  ASSUME NEW h \in Heaps, Shape(h), CoalescedOK(h),
         NEW words \in Nat, words % 2 = 0, words >= 4
  PROVE  ExtendedBy(h, extend_heap(h, words), 4 * words)
<1>1. PICK s : s = 4 * words
  OBVIOUS
<1>2. PICK bp : bp = h.brk
  OBVIOUS
<1>3. /\ s \in Nat /\ s % 8 = 0 /\ s >= 16
      /\ bp \in Nat /\ bp % 8 = 0 /\ bp >= 16 /\ bp <= MAX_HEAP
  BY <1>1, <1>2, MaxHeapAssumption
     DEF Shape, EndsOK, FirstBlock, heap_listp, WSIZE, DSIZE
<1>4. PICK k : k = mem_sbrk(h, s)
  OBVIOUS
<1>5. PICK r : r = extend_heap(h, words)
  OBVIOUS
<1>6. words * WSIZE = s
  BY <1>1 DEF WSIZE
<1>7. CASE bp + s > MAX_HEAP
  <2>1. k.ret = NoAddr
    BY <1>2, <1>3, <1>4, <1>7, SbrkFields
  <2>2. r = [heap |-> h, ret |-> NULL]
    BY <2>1, <1>4, <1>5, <1>6 DEF extend_heap
  <2> QED BY <2>2, <1>5 DEF ExtendedBy
<1>8. CASE bp + s <= MAX_HEAP
  <2>1. PICK h0 : h0 = k.heap
    OBVIOUS
  <2>2. /\ k.ret = bp /\ bp # NoAddr
        /\ h0 \in Heaps /\ h0.brk = bp + s /\ h0.mem = h.mem
        /\ h0.blks = h.blks /\ h0.gaps = h.gaps
    <3>1. h.brk + s <= MAX_HEAP
      BY <1>2, <1>8
    <3>2. /\ k.ret = h.brk /\ k.heap \in Heaps /\ k.heap.brk = h.brk + s
          /\ k.heap.mem = h.mem /\ k.heap.blks = h.blks /\ k.heap.gaps = h.gaps
      BY <1>3, <1>4, <3>1, SbrkFields
    <3>3. bp # NoAddr
      BY <1>3 DEF NoAddr
    <3> QED BY <1>2, <2>1, <3>2, <3>3
  <2>3. bp - 4 \in WordAddrs /\ bp + s - 8 \in WordAddrs /\ bp + s - 4 \in WordAddrs
    BY <1>3, <1>8, MaxHeapAssumption DEF WordAddrs, WSIZE
  <2>4. PICK h1 : h1 = PutTags(h0, bp, s, 0)
    OBVIOUS
  <2>5. TagsPut(h0, h1, bp, s, 0)
    BY <2>2, <2>3, <2>4, <1>3, PutTagsFields
  <2>6. HDRP(NEXT_BLKP(h1, bp)) = bp + s - 4
    <3>1. h1.mem[bp - 4] = PACK(s, 0)
      BY <2>3, <2>5 DEF TagsPut
    <3>2. PACK(s, 0) - (PACK(s, 0) % 8) = s
      BY <1>3, PackUnpack
    <3> QED BY <3>1, <3>2, <1>3 DEF NEXT_BLKP, GET_SIZE, HDRP, WSIZE
  <2>7. PICK h2 : h2 = PUT(h1, bp + s - 4, PACK(0, 1))
    OBVIOUS
  <2>8. /\ h2 \in Heaps /\ h2.brk = h1.brk /\ h2.blks = h1.blks /\ h2.gaps = h1.gaps
        /\ \A w \in WordAddrs :
              h2.mem[w] = IF w = bp + s - 4 THEN PACK(0, 1) ELSE h1.mem[w]
    <3>1. h1 \in Heaps /\ PACK(0, 1) \in Int
      BY <2>5 DEF TagsPut, PACK
    <3> QED BY <3>1, <2>7, PutFields
  <2>9. PICK g : g = AddBlock(h2, bp)
    OBVIOUS
  <2>10. SameBytes(h2, g, h2.blks \cup {bp}, h2.gaps)
    BY <2>8, <2>9, <1>3, AddBlockFields
  <2>11. Extended(h, g, bp, s) /\ g.gaps = h.gaps
    <3>1. bp + s - 4 # bp - 4 /\ bp + s - 4 # bp + s - 8
      BY <1>3
    <3> QED BY <3>1, <2>2, <2>5, <2>8, <2>10 DEF Extended, TagsPut, SameBytes
  <2>12. /\ Shape(g) /\ FreeBlock(g, bp) /\ BlockSize(g, bp) = s
         /\ CoalescedBut(g, bp) /\ SameAllocated(h, g)
    BY <2>11, <1>2, <1>3, <1>8, ExtendShape
  <2>13. r = coalesce(g, bp)
    BY <2>1, <2>2, <2>4, <2>6, <2>7, <2>9, <1>4, <1>5, <1>6 DEF extend_heap
  <2>14. bp \in g.blks /\ g \in Heaps /\ g.brk = h.brk + s
    BY <2>11, <1>2 DEF Extended
  <2>15. Coalesced(g, bp, r)
    BY <2>12, <2>13, <2>14, CoalesceWorks
  <2>16. SameAllocated(h, r.heap)
    BY <2>12, <2>15, SameAllocatedTrans DEF Coalesced
  <2>17. r.heap.blks \subseteq h.blks \cup {h.brk}
    BY <2>11, <2>15, <1>2 DEF Extended, Coalesced
  <2> QED
    BY <2>11, <2>12, <2>14, <2>15, <2>16, <2>17, <1>1, <1>5 DEF ExtendedBy, Coalesced
<1> QED BY <1>3, <1>7, <1>8, MaxHeapAssumption

-----------------------------------------------------------------------------
(* coalesce can read the tags around b without leaving the arena.          *)
Anchored(h, b) ==
  /\ b \in Nat /\ b - 4 \in WordAddrs /\ b - 8 \in WordAddrs
  /\ PREV_BLKP(h, b) \in Nat /\ PREV_BLKP(h, b) - 4 \in WordAddrs
  /\ NEXT_BLKP(h, b) \in Nat /\ NEXT_BLKP(h, b) - 4 \in WordAddrs

(* The block before b, which may be the prologue, ends with a footer that  *)
(* leads to its header.                                                    *)
LEMMA PrevInside ==
  ASSUME NEW h \in Heaps, Shape(h), NEW b \in h.blks
  PROVE  Anchored(h, b)
<1>1. /\ b \in Nat /\ b - 4 \in WordAddrs /\ b + BlockSize(h, b) \in h.blks \cup {h.brk}
      /\ h.brk \in Nat /\ h.brk % 8 = 0 /\ h.brk >= 16 /\ h.brk <= MAX_HEAP
      /\ b % 8 = 0 /\ b >= 16 /\ b <= h.brk
  BY BlockFacts
<1>6. b - 8 \in WordAddrs
  BY <1>1, MaxHeapAssumption DEF WordAddrs, WSIZE
<1>2. NEXT_BLKP(h, b) = b + BlockSize(h, b)
  BY DEF NEXT_BLKP, BlockSize
<1>3. h.brk - 4 \in WordAddrs
  BY <1>1, MaxHeapAssumption DEF WordAddrs, WSIZE
<1>4. NEXT_BLKP(h, b) \in Nat /\ NEXT_BLKP(h, b) - 4 \in WordAddrs
  <2>1. \A c \in h.blks : c \in Nat /\ c - 4 \in WordAddrs
    BY BlockFacts
  <2> QED BY <2>1, <1>1, <1>2, <1>3
<1>5. PREV_BLKP(h, b) \in Nat /\ PREV_BLKP(h, b) - 4 \in WordAddrs
  <2>1. CASE b = 16
    <3>1. h.mem[8] = 9
      BY DEF Shape, EndsOK, PACK, WSIZE, DSIZE, heap_listp
    <3>2. PREV_BLKP(h, b) = 8
      BY <2>1, <3>1 DEF PREV_BLKP, GET_SIZE, DSIZE
    <3>3. 4 \in WordAddrs
      BY <1>1, MaxHeapAssumption DEF WordAddrs, WSIZE
    <3> QED BY <3>2, <3>3
  <2>2. CASE b # 16
    <3>1. PICK q \in h.blks : q + BlockSize(h, q) = b
      BY <2>2, PredFacts
    <3>2. /\ q \in Nat /\ BlockSize(h, q) \in Nat /\ q - 4 \in WordAddrs
          /\ h.mem[q + BlockSize(h, q) - 8] = h.mem[q - 4]
      BY <3>1, BlockFacts
    <3>3. GET_SIZE(h, b - 8) = BlockSize(h, q)
      BY <3>1, <3>2 DEF GET_SIZE, BlockSize, HDRP, WSIZE
    <3>4. PREV_BLKP(h, b) = q
      BY <3>1, <3>2, <3>3 DEF PREV_BLKP, DSIZE
    <3> QED BY <3>2, <3>4
  <2> QED BY <2>1, <2>2
<1> QED BY <1>1, <1>4, <1>5, <1>6 DEF Anchored

(* Anchored depends on the two tags next to b.                             *)
LEMMA AnchoredKept ==
  ASSUME NEW h, NEW g, NEW b, Anchored(h, b),
         g.mem[b - 4] = h.mem[b - 4], g.mem[b - 8] = h.mem[b - 8]
  PROVE  Anchored(g, b)
BY DEF Anchored, PREV_BLKP, NEXT_BLKP, GET_SIZE, HDRP, WSIZE, DSIZE

(* AdjustedSize rounds up to a block with room for both tags.              *)
LEMMA AdjustedSizeFacts ==
  ASSUME NEW size \in Nat
  PROVE  /\ AdjustedSize(size) \in Nat /\ AdjustedSize(size) % 8 = 0
         /\ AdjustedSize(size) >= 16 /\ AdjustedSize(size) >= size + 8
<1>1. PICK n : n = (size + 15) \div 8
  OBVIOUS
<1>2. n \in Nat /\ 8 * n >= size + 8 /\ n >= 1
  BY <1>1
<1>3. AdjustedSize(size) = IF size <= 8 THEN 16 ELSE 8 * n
  BY <1>1 DEF AdjustedSize, DSIZE
<1>4. (8 * n) % 8 = 0
  BY <1>2
<1> QED BY <1>2, <1>3, <1>4

-----------------------------------------------------------------------------
(* A mm_malloc that answers a block has placed it in a free block of a     *)
(* well-formed heap that holds what the heap of the request holds.         *)
PlacedIn(h, h1, m, size) ==
  /\ h1 \in Heaps /\ Shape(h1) /\ CoalescedOK(h1) /\ h1.gaps = {}
  /\ h1.brk >= h.brk /\ SameAllocated(h, h1)
  /\ h1.brk \in {h.brk, h.brk + MaxOf(AdjustedSize(size), CHUNKSIZE)}
  /\ h1.blks \subseteq h.blks \cup {h.brk}
  /\ FreeBlock(h1, m.ret) /\ AdjustedSize(size) <= BlockSize(h1, m.ret)
  /\ m.heap = place(h1, m.ret, AdjustedSize(size))

(* mm_malloc answers NULL and leaves the heap as it was, or places a block *)
(* where find_fit or extend_heap say.                                      *)
LEMMA MallocPlaces ==
  ASSUME NEW h \in Heaps, Shape(h), CoalescedOK(h), h.gaps = {}, NEW size \in Nat,
         NEW m, m = mm_malloc(h, size)
  PROVE  \/ m.ret = NULL /\ m.heap = h
         \/ \E h1 : PlacedIn(h, h1, m, size)
<1>1. PICK asize : asize = AdjustedSize(size)
  OBVIOUS
<1>2. asize \in Nat /\ asize % 8 = 0 /\ asize >= 16
  BY <1>1, AdjustedSizeFacts
<1>3. h.brk \in Nat /\ SameAllocated(h, h)
  BY MaxHeapAssumption DEF Heaps, SameAllocated, Kept
<1>4. PICK bp : bp = find_fit(h, asize)
  OBVIOUS
<1>5. CASE size <= 0
  BY <1>5 DEF mm_malloc
<1>6. CASE size > 0 /\ bp # NULL
  <2>1. m = [heap |-> place(h, bp, asize), ret |-> bp]
    BY <1>1, <1>4, <1>6 DEF mm_malloc
  <2>2. FreeBlock(h, bp) /\ asize <= BlockSize(h, bp)
    BY <1>2, <1>4, <1>6, FindFit
  <2>3. PlacedIn(h, h, m, size)
    BY <2>1, <2>2, <1>1, <1>3 DEF PlacedIn
  <2> QED BY <2>3
<1>7. CASE size > 0 /\ bp = NULL
  <2>1. PICK words : words = MaxOf(asize, CHUNKSIZE) \div WSIZE
    OBVIOUS
  <2>2. PICK e : e = extend_heap(h, words)
    OBVIOUS
  <2>3. /\ words \in Nat /\ words % 2 = 0 /\ words >= 4 /\ 4 * words >= asize
        /\ 4 * words = MaxOf(asize, CHUNKSIZE)
    <3>1. PICK n : n = MaxOf(asize, CHUNKSIZE)
      OBVIOUS
    <3>2. n \in Nat /\ n % 8 = 0 /\ n >= 16 /\ n >= asize
      BY <3>1, <1>2, ChunkAssumption DEF MaxOf, DSIZE
    <3>3. words = n \div 4
      BY <3>1, <2>1 DEF WSIZE
    <3> QED BY <3>1, <3>2, <3>3
  <2>4. ExtendedBy(h, e, 4 * words)
    BY <2>2, <2>3, ExtendHeap
  <2>5. m = PlaceIn(e, asize)
    BY <2>1, <2>2, <1>1, <1>4, <1>7 DEF mm_malloc
  <2>6. CASE e.ret = NULL
    <3>1. m.heap = e.heap /\ m.ret = NULL
      BY <2>5, <2>6 DEF PlaceIn
    <3>2. e.heap = h
      BY <2>4, <2>6 DEF ExtendedBy, NULL, NoAddr
    <3> QED BY <3>1, <3>2
  <2>7. CASE e.ret # NULL
    <3>1. PICK h1 : h1 = e.heap
      OBVIOUS
    <3>2. PICK c : c = e.ret
      OBVIOUS
    <3>3. /\ h1 \in Heaps /\ h1.brk = h.brk + 4 * words /\ h1.gaps = {}
          /\ Shape(h1) /\ CoalescedOK(h1)
          /\ FreeBlock(h1, c) /\ BlockSize(h1, c) >= 4 * words
          /\ SameAllocated(h, h1) /\ h1.blks \subseteq h.blks \cup {h.brk}
      BY <3>1, <3>2, <2>4, <2>7 DEF ExtendedBy
    <3>4. m.heap = place(h1, c, asize) /\ m.ret = c
      BY <3>1, <3>2, <2>5, <2>7 DEF PlaceIn
    <3>5. BlockSize(h1, c) \in Nat
      BY <3>3, BlockFacts DEF FreeBlock
    <3>6. h1.brk >= h.brk /\ asize <= BlockSize(h1, c)
      BY <3>3, <3>5, <2>3, <1>2, <1>3
    <3>7. PlacedIn(h, h1, m, size)
      BY <3>3, <3>4, <3>6, <2>3, <1>1 DEF PlacedIn
    <3> QED BY <3>7
  <2> QED BY <2>6, <2>7
<1> QED BY <1>5, <1>6, <1>7

-----------------------------------------------------------------------------
(* What mm_malloc promises about the block it answers and the others.      *)
Granted(h, m, size) ==
  \/ m.ret = NULL /\ m.heap = h
  \/ /\ m.ret \in Nat /\ m.ret % 8 = 0 /\ m.ret >= 16
     /\ m.heap \in Heaps /\ m.heap.brk >= h.brk
     /\ m.ret + size + 8 <= m.heap.brk
     /\ \A b : AllocBlock(h, b) =>
          /\ b # m.ret /\ Kept(h, m.heap, b) /\ Anchored(m.heap, b)
          /\ b + BlockSize(h, b) <= m.ret \/ m.ret + size + 8 <= b
     /\ m.heap.gaps = {} =>
          /\ Shape(m.heap) /\ CoalescedOK(m.heap)
          /\ AllocBlock(m.heap, m.ret) /\ BlockSize(m.heap, m.ret) >= size + 8
          /\ \A b : b # m.ret => (AllocBlock(m.heap, b) <=> AllocBlock(h, b))

(* place, as mm_malloc uses it: h is the heap of the request, h1 the heap  *)
(* it perhaps extended.                                                    *)
LEMMA PlaceGrants ==
  ASSUME NEW h, NEW h1 \in Heaps, Shape(h1), CoalescedOK(h1), h1.gaps = {},
         h.brk \in Nat, h1.brk >= h.brk, SameAllocated(h, h1),
         NEW bp, FreeBlock(h1, bp), NEW size \in Nat,
         AdjustedSize(size) <= BlockSize(h1, bp),
         NEW m, m.ret = bp, m.heap = place(h1, bp, AdjustedSize(size))
  PROVE  Granted(h, m, size)
<1>1. PICK asize : asize = AdjustedSize(size)
  OBVIOUS
<1>2. asize \in Nat /\ asize % 8 = 0 /\ asize >= 16 /\ asize >= size + 8
  BY <1>1, AdjustedSizeFacts
<1>3. PICK g : g = m.heap
  OBVIOUS
<1>4. Placed(h1, g, bp, asize)
  BY <1>1, <1>2, <1>3, PlaceWorks
<1>5. /\ bp \in h1.blks /\ bp \in Nat /\ bp % 8 = 0 /\ bp >= 16
      /\ BlockSize(h1, bp) \in Nat /\ bp + BlockSize(h1, bp) <= h1.brk
      /\ h1.brk \in Nat
  BY BlockFacts DEF FreeBlock
<1>6. bp + size + 8 <= g.brk /\ g \in Heaps /\ g.brk >= h.brk
  BY <1>1, <1>2, <1>4, <1>5 DEF Placed
<1>7. ASSUME NEW b, AllocBlock(h, b)
      PROVE  /\ b # bp /\ Kept(h, g, b) /\ Anchored(g, b)
             /\ b + BlockSize(h, b) <= bp \/ bp + size + 8 <= b
  <2>1. AllocBlock(h1, b) /\ Kept(h, h1, b)
    BY <1>7 DEF SameAllocated
  <2>2. BlockSize(h1, b) = BlockSize(h, b)
    BY <2>1 DEF Kept, BlockSize, GET_SIZE, HDRP, WSIZE
  <2>3. b # bp /\ b \in h1.blks
    BY <2>1, Zenon DEF AllocBlock, FreeBlock
  <2>4. b \in Nat /\ BlockSize(h1, b) \in Nat
    BY <2>3, BlockFacts
  <2>5. b + BlockSize(h1, b) <= bp \/ bp + BlockSize(h1, bp) <= b
    BY <2>3, <2>4, <1>5, OrderFacts
  <2>6. Kept(h1, g, b)
    BY <2>1, <1>4 DEF Placed
  <2>7. Kept(h, g, b)
    BY <2>1, <2>2, <2>6 DEF Kept
  <2>8. Anchored(g, b)
    <3>1. CASE g.gaps = {}
      <4>1. AllocBlock(g, b) /\ Shape(g) /\ g \in Heaps
        BY <3>1, <2>1, <2>3, <1>4 DEF Placed
      <4> QED BY <4>1, PrevInside DEF AllocBlock
    <3>2. CASE g.gaps # {}
      <4>1. g.mem[b - 4] = h1.mem[b - 4] /\ g.mem[b - 8] = h1.mem[b - 8]
        BY <3>2, <2>1, <2>6, <1>4 DEF Placed, Kept
      <4> QED BY <4>1, <2>3, PrevInside, AnchoredKept
    <3> QED BY <3>1, <3>2
  <2> QED BY <2>2, <2>3, <2>4, <2>5, <2>7, <2>8, <1>1, <1>2, <1>5
<1>8. ASSUME g.gaps = {}
      PROVE  /\ Shape(g) /\ CoalescedOK(g)
             /\ AllocBlock(g, bp) /\ BlockSize(g, bp) >= size + 8
             /\ \A b : b # bp => (AllocBlock(g, b) <=> AllocBlock(h, b))
  <2>1. /\ Shape(g) /\ CoalescedOK(g)
        /\ AllocBlock(g, bp) /\ BlockSize(g, bp) >= asize
        /\ \A b : b # bp => (AllocBlock(g, b) <=> AllocBlock(h1, b))
    BY <1>4, <1>8 DEF Placed
  <2>2. BlockSize(g, bp) \in Nat
    BY <2>1, <1>6, BlockFacts DEF AllocBlock
  <2>3. \A b : AllocBlock(h1, b) <=> AllocBlock(h, b)
    BY DEF SameAllocated
  <2> QED BY <2>1, <2>2, <2>3, <1>2
<1> QED BY <1>3, <1>5, <1>6, <1>7, <1>8 DEF Granted

(* mm_malloc answers NULL and leaves the heap as it was, or answers a new  *)
(* allocated block large enough for the request; every other allocated     *)
(* block keeps its place and its payload.                                  *)
LEMMA MallocWorks ==
  ASSUME NEW h \in Heaps, Shape(h), CoalescedOK(h), h.gaps = {}, NEW size \in Nat
  PROVE  Granted(h, mm_malloc(h, size), size)
<1>1. PICK m : m = mm_malloc(h, size)
  OBVIOUS
<1>2. CASE m.ret = NULL /\ m.heap = h
  BY <1>1, <1>2 DEF Granted
<1>3. CASE \E h1 : PlacedIn(h, h1, m, size)
  <2>1. PICK h1 : PlacedIn(h, h1, m, size)
    BY <1>3
  <2>2. h.brk \in Nat
    BY MaxHeapAssumption DEF Heaps
  <2>3. Granted(h, m, size)
    BY <2>1, <2>2, PlaceGrants DEF PlacedIn
  <2> QED BY <2>3, <1>1
<1> QED BY <1>1, <1>2, <1>3, MallocPlaces

-----------------------------------------------------------------------------
(* What mm_free promises: the block is gone, the others are as they were.  *)
Freed(h, g, ptr) ==
  /\ g \in Heaps /\ g.brk = h.brk /\ g.gaps = h.gaps /\ g.blks \subseteq h.blks
  /\ Shape(g) /\ CoalescedOK(g)
  /\ \A b : /\ AllocBlock(g, b) <=> AllocBlock(h, b) /\ b # ptr
            /\ AllocBlock(g, b) => Kept(h, g, b)

(* The heap between the two halves of mm_free: ptr is free, and may have   *)
(* free neighbours.                                                        *)
LEMMA FreeRetags ==
  ASSUME NEW h \in Heaps, Shape(h), CoalescedOK(h), NEW ptr, AllocBlock(h, ptr),
         NEW g, g = PutTags(h, ptr, BlockSize(h, ptr), 0)
  PROVE  /\ g \in Heaps /\ g.brk = h.brk /\ g.gaps = h.gaps
         /\ ptr \in g.blks /\ g.blks = h.blks
         /\ Shape(g) /\ FreeBlock(g, ptr) /\ CoalescedBut(g, ptr)
         /\ \A b : /\ AllocBlock(g, b) <=> AllocBlock(h, b) /\ b # ptr
                   /\ AllocBlock(g, b) => Kept(h, g, b)
<1>1. PICK size : size = BlockSize(h, ptr)
  OBVIOUS
<1>2. PICK e : e = ptr + size
  OBVIOUS
<1>3. /\ ptr \in h.blks /\ ptr \in Nat /\ ptr - 4 \in WordAddrs
      /\ size \in Nat /\ size % 8 = 0 /\ size >= 16
      /\ e \in h.blks \cup {h.brk} /\ ptr < e /\ e - ptr = size
      /\ ptr + size - 8 = e - 8
  BY <1>1, <1>2, BlockFacts DEF AllocBlock
<1>4. TagsPut(h, g, ptr, size, 0)
  BY <1>1, <1>3, PutTagsFields
<1>5. \A c \in h.blks : ~(ptr < c /\ c < e)
  <2>1. \A c \in h.blks : c \in Nat /\ (ptr < c => e <= c)
    BY <1>1, <1>2, <1>3, OrderFacts, BlockFacts
  <2> QED BY <2>1, <1>2, <1>3
<1>6. Retagged(h, g, ptr, e, 0)
  <2>1. h.blks = h.blks \ {c \in h.blks : ptr < c /\ c < e}
    BY <1>5
  <2> QED BY <2>1, <1>3, <1>4 DEF Retagged, TagsPut
<1>7. /\ Shape(g)
      /\ g.mem[ptr - 4] = PACK(e - ptr, 0) /\ BlockSize(g, ptr) = e - ptr
      /\ \A b \in g.blks \ {ptr} : /\ b \in h.blks
                                   /\ g.mem[b - 4] = h.mem[b - 4]
                                   /\ BlockSize(g, b) = BlockSize(h, b)
  BY <1>3, <1>6, Retag
<1>8. g \in Heaps /\ g.brk = h.brk /\ g.gaps = h.gaps /\ g.blks = h.blks
  BY <1>4 DEF TagsPut
<1>9. FreeBlock(g, ptr)
  BY <1>3, <1>7, <1>8, PackedIsFree DEF FreeBlock
<1>10. \A b \in h.blks : b # ptr => (IsFree(g, b) <=> IsFree(h, b))
  BY <1>7, <1>8 DEF IsFree, GET_ALLOC, HDRP, WSIZE
<1>11. CoalescedBut(g, ptr)
  BY <1>7, <1>8, <1>10 DEF CoalescedBut, CoalescedOK, FreeBlock, NEXT_BLKP, BlockSize
<1>12. \A b : AllocBlock(g, b) <=> AllocBlock(h, b) /\ b # ptr
  BY <1>8, <1>9, <1>10 DEF AllocBlock, FreeBlock
<1>13. ASSUME NEW b, AllocBlock(g, b) PROVE Kept(h, g, b)
  <2>1. b \in h.blks /\ b # ptr
    BY <1>12, <1>13 DEF AllocBlock
  <2>2. \A w \in WordAddrs : w < ptr - 4 \/ w > ptr + size - 8 => g.mem[w] = h.mem[w]
    BY <1>3, <1>4 DEF TagsPut
  <2> QED BY <2>1, <2>2, <1>1, <1>3, KeptOutside
<1> QED BY <1>3, <1>7, <1>8, <1>9, <1>11, <1>12, <1>13

(* mm_free of an allocated block takes exactly that block off the          *)
(* allocated ones and leaves a well-formed heap.                           *)
LEMMA FreeWorks ==
  ASSUME NEW h \in Heaps, Shape(h), CoalescedOK(h), NEW ptr, AllocBlock(h, ptr)
  PROVE  Freed(h, mm_free(h, ptr), ptr)
<1>1. PICK g : g = PutTags(h, ptr, BlockSize(h, ptr), 0)
  OBVIOUS
<1>2. PICK r : r = coalesce(g, ptr)
  OBVIOUS
<1>3. /\ g \in Heaps /\ g.brk = h.brk /\ g.gaps = h.gaps
      /\ ptr \in g.blks /\ g.blks = h.blks
      /\ Shape(g) /\ FreeBlock(g, ptr) /\ CoalescedBut(g, ptr)
      /\ \A b : /\ AllocBlock(g, b) <=> AllocBlock(h, b) /\ b # ptr
                /\ AllocBlock(g, b) => Kept(h, g, b)
  BY <1>1, FreeRetags
<1>4. Coalesced(g, ptr, r)
  BY <1>2, <1>3, CoalesceWorks
<1>5. PICK k : k = r.heap
  OBVIOUS
<1>6. mm_free(h, ptr) = k
  BY <1>1, <1>2, <1>5 DEF mm_free, BlockSize
<1>7. /\ k \in Heaps /\ k.brk = h.brk /\ k.gaps = h.gaps /\ k.blks \subseteq h.blks
      /\ Shape(k) /\ CoalescedOK(k) /\ SameAllocated(g, k)
  BY <1>3, <1>4, <1>5 DEF Coalesced
<1>8. ASSUME NEW b
      PROVE  /\ AllocBlock(k, b) <=> AllocBlock(h, b) /\ b # ptr
             /\ AllocBlock(k, b) => Kept(h, k, b)
  <2>1. /\ AllocBlock(k, b) <=> AllocBlock(g, b)
        /\ AllocBlock(g, b) => Kept(g, k, b)
    BY <1>7 DEF SameAllocated
  <2>2. ASSUME AllocBlock(k, b) PROVE Kept(h, k, b)
    <3>1. Kept(h, g, b) /\ Kept(g, k, b)
      BY <2>1, <2>2, <1>3
    <3>2. BlockSize(g, b) = BlockSize(h, b)
      BY <3>1 DEF Kept, BlockSize, GET_SIZE, HDRP, WSIZE
    <3> QED BY <3>1, <3>2 DEF Kept
  <2> QED BY <2>1, <2>2, <1>3
<1>9. Freed(h, k, ptr)
  BY <1>7, <1>8 DEF Freed
<1> QED BY <1>6, <1>9

(* On a heap with a gap mm_free still writes words into the arena only.    *)
LEMMA FreeTyped ==
  ASSUME NEW h \in Heaps, NEW ptr, Anchored(h, ptr), BlockSize(h, ptr) >= 16
  PROVE  /\ mm_free(h, ptr) \in Heaps
         /\ mm_free(h, ptr).brk = h.brk /\ mm_free(h, ptr).gaps = h.gaps
<1>1. PICK size : size = BlockSize(h, ptr)
  OBVIOUS
<1>2. ptr \in Nat /\ ptr - 4 \in WordAddrs /\ h.mem[ptr - 4] \in Int
  BY DEF Anchored, Heaps
<1>3. size \in Int /\ size % 8 = 0 /\ size >= 16
  BY <1>1, <1>2 DEF BlockSize, GET_SIZE, HDRP, WSIZE
<1>4. PICK g : g = PutTags(h, ptr, size, 0)
  OBVIOUS
<1>5. TagsPut(h, g, ptr, size, 0)
  BY <1>2, <1>3, <1>4, PutTagsFields
<1>6. PICK r : r = coalesce(g, ptr)
  OBVIOUS
<1>7. mm_free(h, ptr) = r.heap
  BY <1>1, <1>4, <1>6 DEF mm_free, BlockSize
<1>8. BlockSize(g, ptr) = size
  <2>1. g.mem[ptr - 4] = PACK(size, 0)
    BY <1>2, <1>5 DEF TagsPut
  <2>2. PACK(size, 0) - (PACK(size, 0) % 8) = size
    BY <1>3, PackUnpack
  <2> QED BY <2>1, <2>2 DEF BlockSize, GET_SIZE, HDRP, WSIZE
<1>9. PICK prev : prev = PREV_BLKP(g, ptr)
  OBVIOUS
<1>10. PICK next : next = NEXT_BLKP(g, ptr)
  OBVIOUS
<1>11. /\ prev \in Nat /\ prev - 4 \in WordAddrs
       /\ next \in Nat /\ next - 4 \in WordAddrs
  <2>1. next = NEXT_BLKP(h, ptr)
    BY <1>1, <1>8, <1>10 DEF NEXT_BLKP, BlockSize
  <2>2. prev = PREV_BLKP(h, ptr)
    <3>1. ptr - 8 \in WordAddrs => g.mem[ptr - 8] = h.mem[ptr - 8]
      BY <1>2, <1>3, <1>5 DEF TagsPut
    <3>2. ptr - 8 \in WordAddrs
      BY DEF Anchored
    <3> QED BY <3>1, <3>2, <1>9 DEF PREV_BLKP, GET_SIZE, DSIZE
  <2> QED BY <2>1, <2>2 DEF Anchored
<1>12. g \in Heaps /\ g.brk = h.brk /\ g.gaps = h.gaps
  BY <1>5 DEF TagsPut
<1>13. /\ BlockSize(g, prev) \in Int /\ BlockSize(g, next) \in Int
  BY <1>11, <1>12 DEF BlockSize, GET_SIZE, HDRP, WSIZE, Heaps
<1>14. ASSUME NEW p \in Int, NEW s \in Int, NEW last, NEW gone
       PROVE  /\ Join(g, p, s, last, gone) \in Heaps
              /\ Join(g, p, s, last, gone).brk = g.brk
              /\ Join(g, p, s, last, gone).gaps = g.gaps
  <2>1. PICK k : k = Join(g, p, s, last, gone)
    OBVIOUS
  <2>2. PICK g1 : g1 = PUT(g, HDRP(p), PACK(s, 0))
    OBVIOUS
  <2>3. k = SetBlocks(PUT(PUT(g, HDRP(p), PACK(s, 0)), FTRP(g1, last), PACK(s, 0)),
                      g.blks \ gone)
    BY <2>1, <2>2 DEF Join
  <2>4. PACK(s, 0) \in Int /\ g.blks \ gone \in SUBSET Nat
    BY <1>12 DEF PACK, Heaps
  <2>5. k \in Heaps /\ k.brk = g.brk /\ k.gaps = g.gaps
    BY <2>3, <2>4, <1>12, PutTwo
  <2> QED BY <2>1, <2>5
<1>15. r.heap \in Heaps /\ r.heap.brk = g.brk /\ r.heap.gaps = g.gaps
  <2>1. \/ r.heap = g
        \/ r.heap = Join(g, ptr, size + BlockSize(g, next), ptr, {next})
        \/ r.heap = Join(g, prev, size + BlockSize(g, prev), ptr, {ptr})
        \/ r.heap = Join(g, prev, size + BlockSize(g, prev) + BlockSize(g, next),
                         next, {ptr, next})
    BY <1>6, <1>8, <1>9, <1>10 DEF coalesce, BlockSize
  <2>2. /\ size + BlockSize(g, next) \in Int
        /\ size + BlockSize(g, prev) \in Int
        /\ size + BlockSize(g, prev) + BlockSize(g, next) \in Int
        /\ ptr \in Int /\ prev \in Int
    BY <1>2, <1>3, <1>11, <1>13
  <2> QED BY <2>1, <2>2, <1>12, <1>14
<1> QED BY <1>7, <1>12, <1>15

-----------------------------------------------------------------------------
(* g is h with nothing written but the n bytes at p.                       *)
Wrote(h, g, p, n) ==
  /\ g \in Heaps /\ g.brk = h.brk /\ g.blks = h.blks /\ g.gaps = h.gaps
  /\ \A w \in WordAddrs : ~(p <= w /\ w < p + n) => g.mem[w] = h.mem[w]

(* Filling a payload leaves the heap well formed and the others alone.     *)
LEMMA PayloadWritten ==
  ASSUME NEW h \in Heaps, Shape(h), CoalescedOK(h), NEW p, AllocBlock(h, p),
         NEW n \in Nat, n + 8 <= BlockSize(h, p),
         NEW g, Wrote(h, g, p, n)
  PROVE  /\ Shape(g) /\ CoalescedOK(g) /\ BlockSize(g, p) = BlockSize(h, p)
         /\ \A b : /\ AllocBlock(g, b) <=> AllocBlock(h, b)
                   /\ AllocBlock(h, b) /\ b # p => Kept(h, g, b)
<1>1. /\ p \in h.blks /\ p \in Nat /\ p >= 16
      /\ BlockSize(h, p) \in Nat /\ p + BlockSize(h, p) <= h.brk
      /\ h.brk \in Nat /\ h.brk % 8 = 0 /\ h.brk <= MAX_HEAP
  BY BlockFacts DEF AllocBlock
<1>2. /\ g \in Heaps /\ g.brk = h.brk /\ g.blks = h.blks
      /\ \A w \in WordAddrs : ~(p <= w /\ w < p + n) => g.mem[w] = h.mem[w]
  BY DEF Wrote
<1>3. ASSUME NEW b \in h.blks
      PROVE  /\ g.mem[b - 4] = h.mem[b - 4]
             /\ BlockSize(g, b) = BlockSize(h, b)
             /\ g.mem[b + BlockSize(h, b) - 8] = h.mem[b + BlockSize(h, b) - 8]
             /\ b # p => Kept(h, g, b)
  <2>1. /\ b \in Nat /\ BlockSize(h, b) \in Nat /\ BlockSize(h, b) >= 16
        /\ b - 4 \in WordAddrs /\ b + BlockSize(h, b) - 8 \in WordAddrs
    BY BlockFacts
  <2>2. /\ b < p => b + BlockSize(h, b) <= p
        /\ b > p => p + BlockSize(h, p) <= b
    BY <2>1, <1>1, OrderFacts
  <2>3. g.mem[b - 4] = h.mem[b - 4]
    BY <2>1, <2>2, <1>1, <1>2
  <2>4. BlockSize(g, b) = BlockSize(h, b)
    BY <2>3 DEF BlockSize, GET_SIZE, HDRP, WSIZE
  <2>5. g.mem[b + BlockSize(h, b) - 8] = h.mem[b + BlockSize(h, b) - 8]
    BY <2>1, <2>2, <1>1, <1>2
  <2>6. ASSUME b # p PROVE Kept(h, g, b)
    <3>1. ASSUME NEW w \in WordAddrs, b <= w, w < b + BlockSize(h, b) - 8
          PROVE  g.mem[w] = h.mem[w]
      <4>1. w \in Nat
        BY DEF WordAddrs
      <4> QED BY <4>1, <3>1, <2>1, <2>2, <2>6, <1>1, <1>2
    <3> QED BY <3>1, <2>3 DEF Kept
  <2> QED BY <2>3, <2>4, <2>5, <2>6
<1>4. EndsOK(g)
  <2>1. /\ h.brk \in 16 .. MAX_HEAP
        /\ h.mem[4] = PACK(8, 1) /\ h.mem[8] = PACK(8, 1)
        /\ h.mem[h.brk - 4] = PACK(0, 1)
    BY DEF Shape, EndsOK, FirstBlock, heap_listp, HDRP, WSIZE, DSIZE
  <2>2. 4 \in WordAddrs /\ 8 \in WordAddrs /\ h.brk - 4 \in WordAddrs
    BY <1>1, <2>1, MaxHeapAssumption DEF WordAddrs, WSIZE
  <2>3. /\ g.mem[4] = PACK(8, 1) /\ g.mem[8] = PACK(8, 1)
        /\ g.mem[g.brk - 4] = PACK(0, 1)
    BY <2>1, <2>2, <1>1, <1>2
  <2> QED BY <2>1, <2>3, <1>1, <1>2, EndsIntro
<1>5. TagsOK(g)
  <2> SUFFICES ASSUME NEW b \in g.blks
      PROVE /\ b \in 16 .. g.brk /\ b % 8 = 0
            /\ g.mem[b - 4] % 8 \in {0, 1}
            /\ BlockSize(g, b) >= 16
            /\ g.mem[b + BlockSize(g, b) - 8] = g.mem[b - 4]
    BY TagsIntro
  <2>1. b \in h.blks
    BY <1>2
  <2> QED BY <2>1, <1>2, <1>3, BlockFacts
<1>6. TilingOK(g)
  <2>1. 16 \in h.blks \cup {h.brk}
    BY DEF Shape, TilingOK, FirstBlock, heap_listp, WSIZE, DSIZE
  <2>2. \A b \in g.blks : b + BlockSize(g, b) \in g.blks \cup {g.brk}
    BY <1>2, <1>3, BlockFacts
  <2>3. \A b \in g.blks \cup {g.brk} :
            b # 16 => \E q \in g.blks : q + BlockSize(g, q) = b
    BY <1>2, <1>3, PredFacts
  <2>4. \A b \in g.blks, c \in g.blks : b < c => b + BlockSize(g, b) <= c
    BY <1>2, <1>3, OrderFacts
  <2> QED BY <2>1, <2>2, <2>3, <2>4, <1>2, TilingIntro
<1>7. \A b \in h.blks : IsFree(g, b) <=> IsFree(h, b)
  BY <1>3 DEF IsFree, GET_ALLOC, HDRP, WSIZE
<1>8. CoalescedOK(g)
  BY <1>2, <1>3, <1>7 DEF CoalescedOK, NEXT_BLKP, BlockSize
<1>9. \A b : AllocBlock(g, b) <=> AllocBlock(h, b)
  BY <1>2, <1>7 DEF AllocBlock
<1>10. \A b : AllocBlock(h, b) /\ b # p => Kept(h, g, b)
  BY <1>3 DEF AllocBlock
<1> QED BY <1>1, <1>3, <1>4, <1>5, <1>6, <1>8, <1>9, <1>10 DEF Shape

(* memset writes its region and nothing else.                              *)
LEMMA MemsetFields ==
  ASSUME NEW h \in Heaps, NEW p \in Int, NEW b \in Int, NEW n \in Int
  PROVE  /\ Wrote(h, memset(h, p, b, n), p, n)
         /\ \A w \in WordAddrs :
               p <= w /\ w < p + n => memset(h, p, b, n).mem[w] = Fill(b)
<1>1. PICK f : f = [a \in WordAddrs |-> IF p <= a /\ a < p + n THEN Fill(b) ELSE h.mem[a]]
  OBVIOUS
<1>2. Fill(b) \in Int
  BY DEF Fill
<1>3. f \in [WordAddrs -> Int]
  BY <1>1, <1>2 DEF Heaps
<1>4. PICK g : g = memset(h, p, b, n)
  OBVIOUS
<1>5. g = [h EXCEPT !.mem = f]
  BY <1>1, <1>4 DEF memset
<1>6. /\ g \in Heaps /\ g.mem = f /\ g.brk = h.brk /\ g.blks = h.blks
      /\ g.gaps = h.gaps
  BY <1>3, <1>5 DEF Heaps
<1> QED BY <1>1, <1>4, <1>6 DEF Wrote

(* The heap that mm_init hands to extend_heap: prologue, epilogue, nothing  *)
(* between them.                                                           *)
EmptyHeap(g) ==
  /\ g \in Heaps /\ g.brk = 16 /\ g.blks = {} /\ g.gaps = {}
  /\ g.mem[4] = PACK(8, 1) /\ g.mem[8] = PACK(8, 1) /\ g.mem[12] = PACK(0, 1)

(* It is well formed.                                                      *)
LEMMA EmptyWorks ==
  ASSUME NEW g, EmptyHeap(g)
  PROVE  Shape(g) /\ CoalescedOK(g) /\ \A b : ~AllocBlock(g, b)
<1>1. g \in Heaps /\ g.brk = 16 /\ g.blks = {}
  BY DEF EmptyHeap
<1>2. EndsOK(g)
  <2>1. g.brk - 4 = 12 /\ g.brk \in 16 .. MAX_HEAP /\ g.brk % 8 = 0
    BY <1>1, MaxHeapAssumption DEF Heaps
  <2> QED BY <2>1, EndsIntro DEF EmptyHeap
<1>3. TagsOK(g) /\ TilingOK(g) /\ CoalescedOK(g)
  BY <1>1, TagsIntro, TilingIntro DEF CoalescedOK
<1>4. \A b : ~AllocBlock(g, b)
  BY <1>1 DEF AllocBlock
<1> QED BY <1>2, <1>3, <1>4 DEF Shape

(* mm_init finds no room for the prologue, or makes an empty heap longer.  *)
LEMMA InitCases ==
  ASSUME NEW h \in Heaps, h.brk = 0
  PROVE  /\ 16 > MAX_HEAP => mm_init(h).ret = NULL /\ mm_init(h).heap = h
         /\ 16 <= MAX_HEAP =>
              \E g : EmptyHeap(g) /\ mm_init(h) = extend_heap(g, CHUNKSIZE \div 4)
<1>1. PICK s : s = mem_sbrk(h, 16)
  OBVIOUS
<1>2. PICK r : r = mm_init(h)
  OBVIOUS
<1>3. h.brk + 16 = 16
  OBVIOUS
<1>4. CASE 16 > MAX_HEAP
  <2>1. s.ret = NoAddr
    BY <1>1, <1>3, <1>4, SbrkFields
  <2>2. r.heap = h /\ r.ret = NULL
    BY <2>1, <1>1, <1>2 DEF mm_init, WSIZE
  <2> QED BY <2>2, <1>2, <1>4, MaxHeapAssumption
<1>5. CASE 16 <= MAX_HEAP
  <2>1. PICK h0 : h0 = s.heap
    OBVIOUS
  <2>2. s.ret = 0 /\ h0 \in Heaps /\ h0.brk = 16
    BY <2>1, <1>1, <1>3, <1>5, SbrkFields
  <2>3. PICK h1 : h1 = PUT(h0, 0, 0)
    OBVIOUS
  <2>4. PICK h2 : h2 = PUT(h1, 4, PACK(DSIZE, 1))
    OBVIOUS
  <2>5. PICK h3 : h3 = PUT(h2, 8, PACK(DSIZE, 1))
    OBVIOUS
  <2>6. PICK h4 : h4 = PUT(h3, 12, PACK(0, 1))
    OBVIOUS
  <2>7. PICK g : g = NoBlocks(h4)
    OBVIOUS
  <2>8. PACK(DSIZE, 1) \in Int /\ PACK(0, 1) \in Int
    BY DEF PACK, DSIZE
  <2>9. h1 \in Heaps /\ h1.brk = 16
    BY <2>2, <2>3, PutFields
  <2>10. /\ h2 \in Heaps /\ h2.brk = 16
         /\ \A w \in WordAddrs : h2.mem[w] = IF w = 4 THEN PACK(DSIZE, 1) ELSE h1.mem[w]
    BY <2>4, <2>8, <2>9, PutFields
  <2>11. /\ h3 \in Heaps /\ h3.brk = 16
         /\ \A w \in WordAddrs : h3.mem[w] = IF w = 8 THEN PACK(DSIZE, 1) ELSE h2.mem[w]
    BY <2>5, <2>8, <2>10, PutFields
  <2>12. /\ h4 \in Heaps /\ h4.brk = 16
         /\ \A w \in WordAddrs : h4.mem[w] = IF w = 12 THEN PACK(0, 1) ELSE h3.mem[w]
    BY <2>6, <2>8, <2>11, PutFields
  <2>13. /\ g \in Heaps /\ g.brk = 16 /\ g.blks = {} /\ g.gaps = {} /\ g.mem = h4.mem
    BY <2>7, <2>12, NoBlocksFields DEF SameBytes
  <2>14. EmptyHeap(g)
    <3>1. 4 \in WordAddrs /\ 8 \in WordAddrs /\ 12 \in WordAddrs
      BY <1>5, MaxHeapAssumption DEF WordAddrs, WSIZE
    <3>2. g.mem[4] = PACK(8, 1) /\ g.mem[8] = PACK(8, 1) /\ g.mem[12] = PACK(0, 1)
      BY <3>1, <2>10, <2>11, <2>12, <2>13 DEF DSIZE
    <3> QED BY <3>2, <2>13 DEF EmptyHeap
  <2>15. r = extend_heap(g, CHUNKSIZE \div 4)
    BY <2>1, <2>2, <2>3, <2>4, <2>5, <2>6, <2>7, <1>1, <1>2
       DEF mm_init, WSIZE, NoAddr
  <2> QED BY <2>14, <2>15, <1>2, <1>5, MaxHeapAssumption
<1> QED BY <1>4, <1>5, MaxHeapAssumption

(* mm_init on an arena that may hold anything.                             *)
LEMMA InitWorks ==
  ASSUME NEW h \in Heaps, h.brk = 0
  PROVE  /\ mm_init(h).heap \in Heaps
         /\ mm_init(h).ret # NULL =>
              /\ Shape(mm_init(h).heap) /\ CoalescedOK(mm_init(h).heap)
              /\ mm_init(h).heap.gaps = {} /\ mm_init(h).heap.brk > 16
              /\ \A b : ~AllocBlock(mm_init(h).heap, b)
<1>1. PICK r : r = mm_init(h)
  OBVIOUS
<1>2. CASE 16 > MAX_HEAP
  BY <1>2, InitCases
<1>3. CASE 16 <= MAX_HEAP
  <2>1. PICK g : EmptyHeap(g) /\ r = extend_heap(g, CHUNKSIZE \div 4)
    BY <1>1, <1>3, InitCases
  <2>2. PICK words : words = CHUNKSIZE \div 4
    OBVIOUS
  <2>3. words \in Nat /\ words % 2 = 0 /\ words >= 4
    BY <2>2, ChunkAssumption DEF DSIZE
  <2>4. /\ g \in Heaps /\ g.brk = 16 /\ g.gaps = {}
        /\ Shape(g) /\ CoalescedOK(g) /\ \A b : ~AllocBlock(g, b)
    BY <2>1, EmptyWorks DEF EmptyHeap
  <2>5. ExtendedBy(g, r, 4 * words)
    BY <2>1, <2>2, <2>3, <2>4, ExtendHeap
  <2>6. r.heap \in Heaps
    BY <2>4, <2>5 DEF ExtendedBy
  <2>7. ASSUME r.ret # NULL
        PROVE  /\ Shape(r.heap) /\ CoalescedOK(r.heap) /\ r.heap.gaps = {}
               /\ r.heap.brk > 16 /\ \A b : ~AllocBlock(r.heap, b)
    <3>1. SameAllocated(g, r.heap) /\ Shape(r.heap) /\ CoalescedOK(r.heap)
          /\ r.heap.gaps = {} /\ r.heap.brk = 16 + 4 * words
      BY <2>4, <2>5, <2>7 DEF ExtendedBy
    <3> QED BY <3>1, <2>3, <2>4 DEF SameAllocated
  <2> QED BY <2>6, <2>7, <1>1
<1> QED BY <1>2, <1>3, MaxHeapAssumption

-----------------------------------------------------------------------------
(* g is h, a well-formed heap, with nothing written but the block p, which *)
(* is allocated now and whose old footer still stands.                     *)
WroteBlock(h, g, p) ==
  /\ g \in Heaps /\ g.brk = h.brk
  /\ g.mem[p - 4] % 2 = 1
  /\ \A w \in WordAddrs :
        w < p - 4 \/ w >= p + BlockSize(h, p) - 8 => g.mem[w] = h.mem[w]

(* When place leaves a gap it writes two words of the block, and not the   *)
(* block's old footer.                                                     *)
LEMMA PlaceGap ==
  ASSUME NEW h \in Heaps, Shape(h), h.gaps = {}, NEW bp \in h.blks,
         NEW asize \in Nat, asize % 8 = 0, asize >= 16, asize <= BlockSize(h, bp),
         NEW g, g = place(h, bp, asize), g.gaps # {}
  PROVE  WroteBlock(h, g, bp)
<1>1. PICK size : size = BlockSize(h, bp)
  OBVIOUS
<1>2. /\ bp \in Nat /\ bp - 4 \in WordAddrs /\ size \in Nat
  BY <1>1, BlockFacts
<1>3. PICK h1 : h1 = PutTags(h, bp, asize, 1)
  OBVIOUS
<1>4. TagsPut(h, h1, bp, asize, 1)
  BY <1>2, <1>3, PutTagsFields
<1>5. PICK next : next = NEXT_BLKP(h1, bp)
  OBVIOUS
<1>6. next = bp + asize
  <2>1. h1.mem[bp - 4] = PACK(asize, 1)
    BY <1>2, <1>4 DEF TagsPut
  <2>2. PACK(asize, 1) - (PACK(asize, 1) % 8) = asize
    BY PackUnpack
  <2> QED BY <2>1, <2>2, <1>5 DEF NEXT_BLKP, GET_SIZE, HDRP, WSIZE
<1>7. size = GET_SIZE(h, HDRP(bp))
  BY <1>1 DEF BlockSize
<1>8. size - asize < 16 /\ size - asize # 0 /\ g = AddGap(h1, next)
  <2>1. ASSUME size - asize = 0 PROVE FALSE
    <3>1. g = h1
      BY <2>1, <1>2, <1>3, <1>7 DEF place, DSIZE
    <3> QED BY <3>1, <1>4 DEF TagsPut
  <2>2. ASSUME size - asize >= 16 PROVE FALSE
    <3>1. PICK h2 : h2 = PutTags(h1, next, size - asize, 0)
      OBVIOUS
    <3>2. g = AddBlock(h2, next)
      BY <2>2, <3>1, <1>2, <1>3, <1>5, <1>7 DEF place, DSIZE
    <3>3. PICK rest \in Int : rest = size - asize
      BY <1>2
    <3>4. rest % 8 = 0
      BY <3>3, <1>1, <1>2, BlockFacts
    <3>5. next - 4 \in WordAddrs
      <4>1. next \in Nat /\ next % 8 = 0 /\ next >= 16 /\ next + 16 <= MAX_HEAP
        <5>1. bp % 8 = 0 /\ bp + size <= MAX_HEAP /\ bp >= 16
          BY <1>1, <1>2, BlockFacts, MaxHeapAssumption DEF Heaps
        <5> QED BY <5>1, <2>2, <1>2, <1>6, MaxHeapAssumption
      <4> QED BY <4>1, MaxHeapAssumption DEF WordAddrs, WSIZE
    <3>6. h1 \in Heaps /\ h1.gaps = {} /\ next \in Nat
      BY <1>2, <1>4, <1>6 DEF TagsPut
    <3>7. TagsPut(h1, h2, next, rest, 0)
      BY <3>1, <3>3, <3>4, <3>5, <3>6, PutTagsFields
    <3>8. h2 \in Heaps /\ h2.gaps = {}
      BY <3>6, <3>7 DEF TagsPut
    <3>9. SameBytes(h2, g, h2.blks \cup {next}, h2.gaps)
      BY <3>2, <3>6, <3>8, AddBlockFields
    <3> QED BY <3>8, <3>9 DEF SameBytes
  <2>3. size - asize < 16 /\ size - asize # 0
    BY <2>1, <2>2, <1>2
  <2>4. g = AddGap(h1, next)
    BY <2>3, <1>2, <1>3, <1>5, <1>7 DEF place, DSIZE
  <2> QED BY <2>3, <2>4
<1>9. SameBytes(h1, g, h1.blks, h1.gaps \cup {next})
  <2>1. next \in Nat /\ h1 \in Heaps
    BY <1>2, <1>4, <1>6 DEF TagsPut
  <2> QED BY <2>1, <1>8, AddGapFields
<1>10. g.mem[bp - 4] % 2 = 1
  <2>1. g.mem[bp - 4] = PACK(asize, 1)
    BY <1>2, <1>4, <1>9 DEF TagsPut, SameBytes
  <2>2. PACK(asize, 1) % 2 = 1
    BY PackUnpack
  <2> QED BY <2>1, <2>2
<1>11. ASSUME NEW w \in WordAddrs, w < bp - 4 \/ w >= bp + size - 8
       PROVE  g.mem[w] = h.mem[w]
  <2>1. w \in Nat
    BY DEF WordAddrs
  <2>2. asize < size
    BY <1>1, <1>2, <1>8
  <2>3. w # bp - 4 /\ w # bp + asize - 8
    BY <2>1, <2>2, <1>2, <1>11
  <2> QED BY <2>3, <1>4, <1>9 DEF TagsPut, SameBytes
<1> QED BY <1>1, <1>4, <1>9, <1>10, <1>11 DEF WroteBlock, SameBytes, TagsPut

(* What an mm_free of ptr may write on a heap where only block p is not as *)
(* the well-formed heap h has it: words next to the edges of h's blocks.   *)
LEMMA FreeWritesEdges ==
  ASSUME NEW h \in Heaps, Shape(h), NEW p \in h.blks, NEW c, WroteBlock(h, c, p),
         NEW ptr \in h.blks, ptr # p,
         NEW k, k = mm_free(c, ptr)
  PROVE  \A w \in WordAddrs :
            (\A x \in h.blks \cup {h.brk} : w # x - 4 /\ w # x - 8)
               => k.mem[w] = c.mem[w]
<1>1. PICK size : size = BlockSize(h, ptr)
  OBVIOUS
<1>2. /\ ptr \in Nat /\ ptr % 8 = 0 /\ ptr >= 16 /\ ptr - 4 \in WordAddrs
      /\ size \in Nat /\ size % 8 = 0 /\ size >= 16
      /\ ptr + size \in h.blks \cup {h.brk}
      /\ h.brk \in Nat /\ h.brk % 8 = 0 /\ h.brk <= MAX_HEAP
      /\ p \in Nat /\ p % 8 = 0 /\ p >= 16
      /\ BlockSize(h, p) \in Nat /\ BlockSize(h, p) >= 16
      /\ p + BlockSize(h, p) <= h.brk /\ p - 4 \in WordAddrs
  BY <1>1, BlockFacts
<1>3. /\ c \in Heaps /\ c.mem[p - 4] % 2 = 1
      /\ \A w \in WordAddrs :
            w < p - 4 \/ w >= p + BlockSize(h, p) - 8 => c.mem[w] = h.mem[w]
  BY DEF WroteBlock
<1>4. ASSUME NEW q \in h.blks, q # p
      PROVE  /\ q \in Nat /\ q % 8 = 0 /\ q - 4 \in WordAddrs /\ BlockSize(h, q) \in Nat
             /\ c.mem[q - 4] = h.mem[q - 4] /\ BlockSize(h, q) % 8 = 0
  <2>1. /\ q \in Nat /\ q % 8 = 0 /\ q - 4 \in WordAddrs /\ BlockSize(h, q) \in Nat
        /\ BlockSize(h, q) % 8 = 0
    BY BlockFacts
  <2>2. q > p => p + BlockSize(h, p) <= q
    BY OrderFacts
  <2>3. q - 4 < p - 4 \/ q - 4 >= p + BlockSize(h, p) - 8
    BY <2>1, <2>2, <1>2, <1>4
  <2> QED BY <2>1, <2>3, <1>3
<1>5. GET_SIZE(c, HDRP(ptr)) = size
  BY <1>1, <1>4 DEF BlockSize, GET_SIZE, HDRP, WSIZE
<1>6. PICK g : g = PutTags(c, ptr, size, 0)
  OBVIOUS
<1>7. TagsPut(c, g, ptr, size, 0)
  BY <1>2, <1>3, <1>6, PutTagsFields
<1>8. /\ g \in Heaps
      /\ \A w \in WordAddrs :
            w # ptr - 4 /\ w # ptr + size - 8 => g.mem[w] = c.mem[w]
      /\ g.mem[ptr - 4] = PACK(size, 0)
  BY <1>2, <1>7 DEF TagsPut
<1>9. k = coalesce(g, ptr).heap
  BY <1>5, <1>6 DEF mm_free
<1>10. ASSUME NEW q \in h.blks, q # p
       PROVE  BlockSize(g, q) = BlockSize(h, q)
  <2>1. CASE q = ptr
    <3>1. PACK(size, 0) - (PACK(size, 0) % 8) = size
      BY <1>2, PackUnpack
    <3> QED BY <2>1, <3>1, <1>1, <1>8 DEF BlockSize, GET_SIZE, HDRP, WSIZE
  <2>2. CASE q # ptr
    <3>1. q - 4 # ptr - 4 /\ q - 4 # ptr + size - 8
      BY <2>2, <1>2, <1>4, <1>10
    <3>2. g.mem[q - 4] = h.mem[q - 4]
      BY <3>1, <1>4, <1>8, <1>10
    <3> QED BY <3>2 DEF BlockSize, GET_SIZE, HDRP, WSIZE
  <2> QED BY <2>1, <2>2
<1>11. GET_ALLOC(g, HDRP(p)) = 1
  <2>1. p - 4 # ptr - 4 /\ p - 4 # ptr + size - 8
    BY <1>2
  <2> QED BY <2>1, <1>2, <1>3, <1>8 DEF GET_ALLOC, HDRP, WSIZE
<1>12. PICK prev : prev = PREV_BLKP(g, ptr)
  OBVIOUS
<1>13. PICK next : next = NEXT_BLKP(g, ptr)
  OBVIOUS
<1>14. next = ptr + size
  BY <1>1, <1>10, <1>13 DEF NEXT_BLKP, BlockSize
<1>15. GET_ALLOC(g, HDRP(next)) # 1 =>
          next \in h.blks /\ next # p /\ next # ptr /\ next \in Nat
  <2> SUFFICES ASSUME next \notin h.blks PROVE GET_ALLOC(g, HDRP(next)) = 1
    BY <1>2, <1>11, <1>14
  <2>1. next = h.brk
    BY <1>2, <1>14
  <2>2. h.mem[h.brk - 4] = 1
    BY DEF Shape, EndsOK, HDRP, PACK, WSIZE
  <2>3. h.brk - 4 \in WordAddrs
    BY <1>2, MaxHeapAssumption DEF WordAddrs, WSIZE
  <2>4. h.brk - 4 # ptr - 4 /\ h.brk - 4 # ptr + size - 8
        /\ h.brk - 4 >= p + BlockSize(h, p) - 8
    BY <2>1, <1>2, <1>14
  <2>5. g.mem[h.brk - 4] = 1
    BY <2>2, <2>3, <2>4, <1>3, <1>8
  <2> QED BY <2>1, <2>5 DEF GET_ALLOC, HDRP, WSIZE
<1>16. g.mem[ptr - 8] = h.mem[ptr - 8]
  <2>1. ptr - 8 \in WordAddrs
    <3>1. ptr + size <= MAX_HEAP
      BY <1>1, <1>2, BlockFacts, MaxHeapAssumption
    <3> QED BY <3>1, <1>2, MaxHeapAssumption DEF WordAddrs, WSIZE
  <2>2. ptr > p => p + BlockSize(h, p) <= ptr
    BY OrderFacts
  <2>3. ptr - 8 < p - 4 \/ ptr - 8 >= p + BlockSize(h, p) - 8
    BY <2>2, <1>2
  <2>4. ptr - 8 # ptr - 4 /\ ptr - 8 # ptr + size - 8
    BY <1>2
  <2> QED BY <2>1, <2>3, <2>4, <1>3, <1>8
<1>17. GET_ALLOC(g, HDRP(prev)) # 1 =>
          prev \in h.blks /\ prev # p /\ prev < ptr /\ prev \in Nat
  <2>1. CASE ptr = 16
    <3>1. h.mem[8] = 9 /\ h.mem[4] = 9
      BY DEF Shape, EndsOK, HDRP, PACK, WSIZE, DSIZE, heap_listp
    <3>2. prev = 8
      BY <2>1, <3>1, <1>12, <1>16 DEF PREV_BLKP, GET_SIZE, DSIZE
    <3>3. g.mem[4] = 9
      <4>1. 4 \in WordAddrs
        BY <1>2, MaxHeapAssumption DEF WordAddrs, WSIZE
      <4>2. p > ptr => ptr + size <= p
        BY <1>1, OrderFacts
      <4>3. 4 < p - 4 /\ 4 # ptr - 4 /\ 4 # ptr + size - 8
        BY <2>1, <4>2, <1>2
      <4> QED BY <3>1, <4>1, <4>3, <1>3, <1>8
    <3> QED BY <3>2, <3>3 DEF GET_ALLOC, HDRP, WSIZE
  <2>2. CASE ptr # 16
    <3>1. PICK q \in h.blks : q + BlockSize(h, q) = ptr
      BY <2>2, PredFacts
    <3>2. /\ q \in Nat /\ BlockSize(h, q) \in Nat /\ BlockSize(h, q) >= 16
          /\ h.mem[q + BlockSize(h, q) - 8] = h.mem[q - 4]
      BY <3>1, BlockFacts
    <3>3. GET_SIZE(g, ptr - 8) = BlockSize(h, q)
      BY <3>1, <3>2, <1>16 DEF GET_SIZE, BlockSize, HDRP, WSIZE
    <3>4. prev = q
      BY <3>1, <3>2, <3>3, <1>12 DEF PREV_BLKP, DSIZE
    <3> QED BY <3>1, <3>2, <3>4, <1>11
  <2> QED BY <2>1, <2>2
<1>18. ASSUME NEW x \in h.blks, NEW s \in Int, s % 8 = 0,
              NEW last \in h.blks, last # p, NEW gone,
              \/ last = x /\ x + s \in h.blks \cup {h.brk}
              \/ last # x,
              x # p, k = Join(g, x, s, last, gone)
       PROVE  \A w \in WordAddrs :
                 (\A y \in h.blks \cup {h.brk} : w # y - 4 /\ w # y - 8)
                    => k.mem[w] = g.mem[w]
  <2>1. PICK e : e = IF last = x THEN x + s ELSE last + BlockSize(h, last)
    OBVIOUS
  <2>2. e \in h.blks \cup {h.brk}
    BY <2>1, <1>18, BlockFacts
  <2>3. e \in Int
    BY <2>1, <1>4, <1>18
  <2>4. x \in Int /\ x - 4 \in WordAddrs /\ last \in Int /\ last - 4 \in WordAddrs
    BY <1>4, <1>18
  <2>5. \/ last = x /\ e = x + s
        \/ last # x /\ e = last + BlockSize(g, last)
    BY <2>1, <1>10, <1>18
  <2>6. Joined(g, k, x, s, e, gone)
    BY <2>3, <2>4, <2>5, <1>8, <1>18, JoinFields
  <2> QED BY <2>2, <2>6 DEF Joined
<1>19. \A w \in WordAddrs :
          (\A y \in h.blks \cup {h.brk} : w # y - 4 /\ w # y - 8)
             => k.mem[w] = g.mem[w]
  <2>1. CASE GET_ALLOC(g, HDRP(prev)) = 1 /\ GET_ALLOC(g, HDRP(next)) = 1
    <3>1. k = g
      BY <2>1, <1>9, <1>12, <1>13 DEF coalesce
    <3> QED BY <3>1
  <2>2. CASE GET_ALLOC(g, HDRP(prev)) = 1 /\ GET_ALLOC(g, HDRP(next)) # 1
    <3>1. PICK s : s = BlockSize(g, ptr) + BlockSize(g, next)
      OBVIOUS
    <3>2. k = Join(g, ptr, s, ptr, {next})
      BY <2>2, <3>1, <1>9, <1>12, <1>13 DEF coalesce, BlockSize
    <3>3. s = size + BlockSize(h, next)
      BY <2>2, <3>1, <1>1, <1>10, <1>15
    <3>4. s \in Int /\ s % 8 = 0 /\ ptr + s = next + BlockSize(h, next)
      BY <2>2, <3>3, <1>2, <1>4, <1>14, <1>15
    <3>5. ptr + s \in h.blks \cup {h.brk}
      BY <2>2, <3>4, <1>15, BlockFacts
    <3> QED BY <3>2, <3>4, <3>5, <1>18
  <2>3. CASE GET_ALLOC(g, HDRP(prev)) # 1 /\ GET_ALLOC(g, HDRP(next)) = 1
    <3>1. PICK s : s = BlockSize(g, ptr) + BlockSize(g, prev)
      OBVIOUS
    <3>2. k = Join(g, prev, s, ptr, {ptr})
      BY <2>3, <3>1, <1>9, <1>12, <1>13 DEF coalesce, BlockSize
    <3>3. s = size + BlockSize(h, prev)
      BY <2>3, <3>1, <1>1, <1>10, <1>17
    <3>4. s \in Int /\ s % 8 = 0
      BY <2>3, <3>3, <1>2, <1>4, <1>17
    <3>5. prev \in h.blks /\ prev # p /\ ptr # prev
      BY <2>3, <1>2, <1>17
    <3> QED BY <3>2, <3>4, <3>5, <1>18
  <2>4. CASE GET_ALLOC(g, HDRP(prev)) # 1 /\ GET_ALLOC(g, HDRP(next)) # 1
    <3>1. PICK s : s = BlockSize(g, ptr) + BlockSize(g, prev) + BlockSize(g, next)
      OBVIOUS
    <3>2. k = Join(g, prev, s, next, {ptr, next})
      BY <2>4, <3>1, <1>9, <1>12, <1>13 DEF coalesce, BlockSize
    <3>3. s = size + BlockSize(h, prev) + BlockSize(h, next)
      BY <2>4, <3>1, <1>1, <1>10, <1>15, <1>17
    <3>4. s \in Int /\ s % 8 = 0
      BY <2>4, <3>3, <1>2, <1>4, <1>15, <1>17
    <3>5. next # prev
      BY <2>4, <1>2, <1>14, <1>17
    <3> QED BY <2>4, <3>2, <3>4, <3>5, <1>15, <1>17, <1>18
  <2> QED BY <2>1, <2>2, <2>3, <2>4
<1>20. ASSUME NEW w \in WordAddrs,
              \A y \in h.blks \cup {h.brk} : w # y - 4 /\ w # y - 8
       PROVE  g.mem[w] = c.mem[w]
  <2>1. w # ptr - 4 /\ w # (ptr + size) - 8
    BY <1>2, <1>20
  <2>2. (ptr + size) - 8 = ptr + size - 8
    BY <1>2
  <2> QED BY <2>1, <2>2, <1>8
<1> QED BY <1>19, <1>20

(* So an mm_free touches no payload, whatever the block p holds.           *)
LEMMA FreeFrame ==
  ASSUME NEW h \in Heaps, Shape(h), NEW p \in h.blks, NEW c, WroteBlock(h, c, p),
         NEW ptr \in h.blks, ptr # p, NEW b \in h.blks,
         NEW w \in WordAddrs, b <= w, w < b + BlockSize(h, b) - 8
  PROVE  mm_free(c, ptr).mem[w] = c.mem[w]
<1>1. \A x \in h.blks \cup {h.brk} : w # x - 4 /\ w # x - 8
  BY EdgesOutside
<1> QED BY <1>1, FreeWritesEdges

-----------------------------------------------------------------------------
(* g has the payload that block b has in h.                                *)
PayloadKept(h, g, b) ==
  \A w \in WordAddrs :
     b <= w /\ w < b + BlockSize(h, b) - 8 => g.mem[w] = h.mem[w]

(* The first size bytes of r.ret are those of the payload of ptr in h, as  *)
(* far as that goes.                                                       *)
Carried(h, r, ptr, size) ==
  \A w \in WordAddrs :
     r.ret <= w /\ w < r.ret + size /\ w - r.ret < BlockSize(h, ptr) - 8
        => r.heap.mem[w] = h.mem[ptr + (w - r.ret)]

(* What mm_realloc promises: NULL and no change; or a new block with the   *)
(* old payload in it, the old block gone, and the others as they were.     *)
Moved(h, r, ptr, size) ==
  \/ r.ret = NULL /\ r.heap = h
  \/ /\ r.ret \in Nat /\ r.ret % 8 = 0 /\ r.ret >= 16
     /\ r.heap \in Heaps /\ r.heap.brk >= h.brk
     /\ r.ret + size + 8 <= r.heap.brk
     /\ \A b : AllocBlock(h, b) =>
          /\ b # r.ret
          /\ b + BlockSize(h, b) <= r.ret \/ r.ret + size + 8 <= b
     /\ \A b : AllocBlock(h, b) /\ b # ptr => PayloadKept(h, r.heap, b)
     /\ Carried(h, r, ptr, size)
     /\ r.heap.gaps = {} =>
          /\ Shape(r.heap) /\ CoalescedOK(r.heap)
          /\ BlockSize(r.heap, r.ret) >= size + 8
          /\ \A b : AllocBlock(r.heap, b) <=> b = r.ret \/ (AllocBlock(h, b) /\ b # ptr)
          /\ \A b : AllocBlock(h, b) /\ b # ptr => Kept(h, r.heap, b)

(* c is g with n bytes at to copied from the payload at from, as far as     *)
(* that goes.                                                              *)
Copied(g, c, to, from, n) ==
  /\ Wrote(g, c, to, n)
  /\ \A w \in WordAddrs :
        to <= w /\ w < to + n /\ w - to < BlockSize(g, from) - 8 =>
           c.mem[w] = g.mem[from + (w - to)]

(* memcpy copies the old payload up to its end, and then junk.             *)
LEMMA MemcpyFields ==
  ASSUME NEW h \in Heaps, NEW to \in Nat, to % 8 = 0, NEW from \in Nat, from % 8 = 0,
         BlockSize(h, from) \in Nat, from + BlockSize(h, from) <= MAX_HEAP,
         NEW n \in Nat, NEW junk \in Int
  PROVE  Copied(h, memcpyPayload(h, to, from, n, junk), to, from, n)
<1>1. PICK f : f = [a \in WordAddrs |->
        CASE ~(to <= a /\ a < to + n) -> h.mem[a]
          [] to <= a /\ a < to + n /\ from + (a - to) < FTRP(h, from) ->
                    h.mem[from + (a - to)]
          [] to <= a /\ a < to + n /\ from + (a - to) >= FTRP(h, from) -> junk]
  OBVIOUS
<1>2. FTRP(h, from) = from + BlockSize(h, from) - 8
  BY DEF FTRP, BlockSize, DSIZE
<1>3. ASSUME NEW a \in WordAddrs
      PROVE  /\ ~(to <= a /\ a < to + n) => f[a] = h.mem[a]
             /\ to <= a /\ a < to + n /\ a - to < BlockSize(h, from) - 8 =>
                  f[a] = h.mem[from + (a - to)] /\ from + (a - to) \in WordAddrs
             /\ to <= a /\ a < to + n /\ ~(a - to < BlockSize(h, from) - 8) =>
                  f[a] = junk
  <2>1. a \in Nat /\ a % 4 = 0
    BY DEF WordAddrs, WSIZE
  <2>2. from + (a - to) < FTRP(h, from) <=> a - to < BlockSize(h, from) - 8
    BY <2>1, <1>2
  <2>3. FTRP(h, from) \in Int
    BY <1>2
  <2>4. ASSUME to <= a, a - to < BlockSize(h, from) - 8
        PROVE  from + (a - to) \in WordAddrs
    <3>1. (from + (a - to)) % 4 = 0
      BY <2>1
    <3>2. from + (a - to) \in Nat /\ from + (a - to) + 4 <= MAX_HEAP
      BY <2>1, <2>4, MaxHeapAssumption
    <3> QED BY <3>1, <3>2, MaxHeapAssumption DEF WordAddrs, WSIZE
  <2>5. ~(to <= a /\ a < to + n) => f[a] = h.mem[a]
    BY <1>1
  <2>6. to <= a /\ a < to + n /\ a - to < BlockSize(h, from) - 8
          => f[a] = h.mem[from + (a - to)]
    BY <2>1, <2>2, <2>3, <1>1
  <2>7. to <= a /\ a < to + n /\ ~(a - to < BlockSize(h, from) - 8) => f[a] = junk
    BY <2>1, <2>2, <2>3, <1>1
  <2> QED BY <2>4, <2>5, <2>6, <2>7
<1>4. f \in [WordAddrs -> Int]
  <2>1. \A a \in WordAddrs : f[a] \in Int
    BY <1>3 DEF Heaps
  <2> QED BY <2>1, <1>1
<1>5. PICK g : g = memcpyPayload(h, to, from, n, junk)
  OBVIOUS
<1>6. g = [h EXCEPT !.mem = f]
  BY <1>1, <1>5 DEF memcpyPayload
<1>7. /\ g \in Heaps /\ g.mem = f /\ g.brk = h.brk /\ g.blks = h.blks
      /\ g.gaps = h.gaps
  BY <1>4, <1>6 DEF Heaps
<1> QED BY <1>3, <1>5, <1>7 DEF Copied, Wrote

(* What mm_realloc does with the block m that mm_malloc has answered: c is  *)
(* the heap with the old payload copied, k that with the old block freed.  *)
CopiedThenFreed(m, ptr, size, c, k) ==
  /\ Copied(m.heap, c, m.ret, ptr, size)
  /\ k = mm_free(c, ptr)
  /\ k \in Heaps /\ k.brk = m.heap.brk /\ k.gaps = m.heap.gaps

(* What mm_realloc answers, r, when mm_malloc answers m.                   *)
AnswersAfter(m, r, ptr, size) ==
  /\ m.ret = NULL => r = m
  /\ m.ret # NULL =>
       \E c, k : CopiedThenFreed(m, ptr, size, c, k) /\ r = [heap |-> k, ret |-> m.ret]

(* The steps of mm_realloc: it copies size bytes, because the word it takes*)
(* for the old size never bounds the copy, and frees the old block.        *)
LEMMA ReallocSteps ==
  ASSUME NEW h \in Heaps, Shape(h), CoalescedOK(h), h.gaps = {},
         NEW ptr, AllocBlock(h, ptr), NEW size \in Nat, NEW junk \in Int
  PROVE  AnswersAfter(mm_malloc(h, size), mm_realloc(h, ptr, size, junk), ptr, size)
<1>1. PICK m : m = mm_malloc(h, size)
  OBVIOUS
<1>2. PICK r : r = mm_realloc(h, ptr, size, junk)
  OBVIOUS
<1>3. Granted(h, m, size)
  BY <1>1, MallocWorks
<1>4. ASSUME m.ret = NULL PROVE r = m
  BY <1>1, <1>2, <1>4 DEF mm_realloc, MoveTo, NULL, NoAddr
<1>5. ASSUME m.ret # NULL
      PROVE  \E c, k : CopiedThenFreed(m, ptr, size, c, k) /\ r = [heap |-> k, ret |-> m.ret]
  <2>1. PICK g : g = m.heap
    OBVIOUS
  <2>2. PICK p : p = m.ret
    OBVIOUS
  <2>3. /\ p \in Nat /\ p % 8 = 0 /\ p >= 16
        /\ g \in Heaps /\ g.brk >= h.brk /\ p + size + 8 <= g.brk
    BY <2>1, <2>2, <1>3, <1>5 DEF Granted
  <2>4. /\ Kept(h, g, ptr) /\ Anchored(g, ptr) /\ ptr # p
        /\ ptr + BlockSize(h, ptr) <= p \/ p + size + 8 <= ptr
    BY <2>1, <2>2, <1>3, <1>5 DEF Granted
  <2>5. /\ ptr \in Nat /\ ptr % 8 = 0 /\ ptr >= 16
        /\ BlockSize(h, ptr) \in Nat /\ BlockSize(h, ptr) >= 16
        /\ ptr + BlockSize(h, ptr) <= MAX_HEAP
    BY BlockFacts, MaxHeapAssumption DEF AllocBlock
  <2>6. g.mem[ptr - 4] = h.mem[ptr - 4] /\ BlockSize(g, ptr) = BlockSize(h, ptr)
    BY <2>4 DEF Kept, BlockSize, GET_SIZE, HDRP, WSIZE
  <2>7. CopySize(g, ptr, size) = size
    <3>1. h.mem[ptr - 4] % 2 # 0
      BY DEF AllocBlock, IsFree, GET_ALLOC, HDRP, WSIZE
    <3>2. g.mem[ptr - 4] # 0
      BY <3>1, <2>6
    <3> QED BY <3>2 DEF CopySize, HDRP, WSIZE
  <2>8. PICK c : c = memcpyPayload(g, p, ptr, size, junk)
    OBVIOUS
  <2>9. Copied(g, c, p, ptr, size)
    <3>1. BlockSize(g, ptr) \in Nat /\ ptr + BlockSize(g, ptr) <= MAX_HEAP
      BY <2>5, <2>6
    <3> QED BY <3>1, <2>3, <2>5, <2>8, MemcpyFields
  <2>10. PICK k : k = mm_free(c, ptr)
    OBVIOUS
  <2>11. r = [heap |-> k, ret |-> p]
    BY <2>1, <2>2, <2>7, <2>8, <2>10, <1>1, <1>2, <1>5 DEF mm_realloc, MoveTo
  <2>12. c \in Heaps /\ c.brk = g.brk /\ c.gaps = g.gaps
    BY <2>9 DEF Copied, Wrote
  <2>13. c.mem[ptr - 4] = g.mem[ptr - 4] /\ c.mem[ptr - 8] = g.mem[ptr - 8]
    <3>1. ptr - 4 \in WordAddrs /\ ptr - 8 \in WordAddrs
      BY <2>4 DEF Anchored
    <3>2. ~(p <= ptr - 4 /\ ptr - 4 < p + size) /\ ~(p <= ptr - 8 /\ ptr - 8 < p + size)
      BY <2>3, <2>4, <2>5
    <3> QED BY <3>1, <3>2, <2>9 DEF Copied, Wrote
  <2>14. BlockSize(c, ptr) = BlockSize(h, ptr)
    BY <2>6, <2>13 DEF BlockSize, GET_SIZE, HDRP, WSIZE
  <2>15. k \in Heaps /\ k.brk = g.brk /\ k.gaps = g.gaps
    <3>1. Anchored(c, ptr)
      BY <2>4, <2>13, AnchoredKept
    <3>2. BlockSize(c, ptr) >= 16
      BY <2>5, <2>14
    <3> QED BY <3>1, <3>2, <2>10, <2>12, FreeTyped
  <2>16. CopiedThenFreed(m, ptr, size, c, k)
    BY <2>1, <2>2, <2>9, <2>10, <2>15 DEF CopiedThenFreed
  <2> QED BY <2>2, <2>11, <2>16
<1> QED BY <1>1, <1>2, <1>4, <1>5 DEF AnswersAfter

(* mm_realloc answers NULL and leaves the heap as it was, or answers a new *)
(* block in the place of the old one; every other allocated block keeps    *)
(* its place.                                                              *)
LEMMA ReallocWorks ==
  ASSUME NEW h \in Heaps, Shape(h), CoalescedOK(h), h.gaps = {},
         NEW ptr, AllocBlock(h, ptr), NEW size \in Nat, NEW junk \in Int
  PROVE  Moved(h, mm_realloc(h, ptr, size, junk), ptr, size)
<1>1. PICK m : m = mm_malloc(h, size)
  OBVIOUS
<1>2. Granted(h, m, size)
  BY <1>1, MallocWorks
<1>3. PICK r : r = mm_realloc(h, ptr, size, junk)
  OBVIOUS
<1>4. CASE m.ret = NULL
  <2>1. r = m /\ m.heap = h
    BY <1>1, <1>2, <1>3, <1>4 DEF mm_realloc, MoveTo, Granted, NULL, NoAddr
  <2>2. Moved(h, r, ptr, size)
    BY <2>1, <1>4 DEF Moved
  <2> QED BY <2>2, <1>3
<1>5. CASE m.ret # NULL
  <2>1. PICK g : g = m.heap
    OBVIOUS
  <2>2. PICK p : p = m.ret
    OBVIOUS
  <2>3. /\ p \in Nat /\ p % 8 = 0 /\ p >= 16
        /\ g \in Heaps /\ g.brk >= h.brk /\ p + size + 8 <= g.brk
    BY <2>1, <2>2, <1>2, <1>5 DEF Granted
  <2>4. \A b : AllocBlock(h, b) =>
          /\ b # p /\ Kept(h, g, b) /\ Anchored(g, b)
          /\ b + BlockSize(h, b) <= p \/ p + size + 8 <= b
    BY <2>1, <2>2, <1>2, <1>5 DEF Granted
  <2>5. g.gaps = {} =>
          /\ Shape(g) /\ CoalescedOK(g)
          /\ AllocBlock(g, p) /\ BlockSize(g, p) >= size + 8
          /\ \A b : b # p => (AllocBlock(g, b) <=> AllocBlock(h, b))
    BY <2>1, <2>2, <1>2, <1>5 DEF Granted
  <2>6. /\ ptr \in Nat /\ ptr % 8 = 0 /\ ptr >= 16
        /\ BlockSize(h, ptr) \in Nat /\ BlockSize(h, ptr) >= 16
        /\ ptr + BlockSize(h, ptr) <= MAX_HEAP
        /\ h.mem[ptr - 4] \in Int /\ h.brk \in Nat
    BY BlockFacts, MaxHeapAssumption DEF AllocBlock
  <2>7. /\ Kept(h, g, ptr) /\ Anchored(g, ptr) /\ ptr # p
        /\ ptr + BlockSize(h, ptr) <= p \/ p + size + 8 <= ptr
    BY <2>4
  <2>8. g.mem[ptr - 4] = h.mem[ptr - 4] /\ BlockSize(g, ptr) = BlockSize(h, ptr)
    BY <2>7 DEF Kept, BlockSize, GET_SIZE, HDRP, WSIZE
  <2>9. PICK c, k : CopiedThenFreed(m, ptr, size, c, k) /\ r = [heap |-> k, ret |-> m.ret]
    BY <1>1, <1>3, <1>5, ReallocSteps DEF AnswersAfter
  <2>10. /\ Wrote(g, c, p, size)
         /\ \A w \in WordAddrs :
               p <= w /\ w < p + size /\ w - p < BlockSize(g, ptr) - 8 =>
                  c.mem[w] = g.mem[ptr + (w - p)]
    BY <2>1, <2>2, <2>9 DEF CopiedThenFreed, Copied
  <2>11. r = [heap |-> k, ret |-> p]
    BY <2>2, <2>9
  <2>12. k = mm_free(c, ptr)
    BY <2>9 DEF CopiedThenFreed
  <2>13. c \in Heaps /\ c.brk = g.brk /\ c.gaps = g.gaps
    BY <2>10 DEF Wrote
  <2>14. k \in Heaps /\ k.brk = g.brk /\ k.gaps = g.gaps
    BY <2>1, <2>9 DEF CopiedThenFreed
  <2>15. ASSUME g.gaps = {}
         PROVE  /\ Shape(k) /\ CoalescedOK(k)
                /\ BlockSize(k, p) >= size + 8
                /\ \A b : AllocBlock(k, b) <=> b = p \/ (AllocBlock(h, b) /\ b # ptr)
                /\ \A b : AllocBlock(h, b) /\ b # ptr => Kept(h, k, b)
    <3>1. /\ Shape(g) /\ CoalescedOK(g)
          /\ AllocBlock(g, p) /\ BlockSize(g, p) >= size + 8
          /\ \A b : b # p => (AllocBlock(g, b) <=> AllocBlock(h, b))
      BY <2>5, <2>15
    <3>2. /\ Shape(c) /\ CoalescedOK(c) /\ BlockSize(c, p) = BlockSize(g, p)
          /\ \A b : /\ AllocBlock(c, b) <=> AllocBlock(g, b)
                    /\ AllocBlock(g, b) /\ b # p => Kept(g, c, b)
      <4>1. size + 8 <= BlockSize(g, p)
        <5>1. BlockSize(g, p) \in Nat
          BY <3>1, <2>3, BlockFacts DEF AllocBlock
        <5> QED BY <5>1, <3>1
      <4> QED BY <4>1, <3>1, <2>3, <2>10, PayloadWritten
    <3>3. AllocBlock(c, ptr)
      BY <3>1, <3>2, <2>7
    <3>4. Freed(c, k, ptr)
      BY <3>2, <3>3, <2>12, <2>13, FreeWorks
    <3>5. \A b : AllocBlock(k, b) <=> b = p \/ (AllocBlock(h, b) /\ b # ptr)
      BY <3>1, <3>2, <3>4, <2>7 DEF Freed
    <3>6. Kept(c, k, p)
      BY <3>4, <3>5 DEF Freed
    <3>7. BlockSize(k, p) = BlockSize(g, p)
      BY <3>2, <3>6 DEF Kept, BlockSize, GET_SIZE, HDRP, WSIZE
    <3>8. ASSUME NEW b, AllocBlock(h, b), b # ptr PROVE Kept(h, k, b)
      <4>1. b # p /\ Kept(h, g, b)
        BY <3>8, <2>4
      <4>2. AllocBlock(g, b) /\ Kept(g, c, b)
        BY <4>1, <3>1, <3>2, <3>8
      <4>3. Kept(c, k, b)
        BY <3>4, <3>5, <3>8 DEF Freed
      <4>4. BlockSize(g, b) = BlockSize(h, b) /\ BlockSize(c, b) = BlockSize(h, b)
        BY <4>1, <4>2 DEF Kept, BlockSize, GET_SIZE, HDRP, WSIZE
      <4> QED BY <4>1, <4>2, <4>3, <4>4 DEF Kept
    <3> QED BY <3>1, <3>4, <3>5, <3>7, <3>8 DEF Freed
  <2>16. \A b : AllocBlock(h, b) =>
            \A w \in WordAddrs :
               b <= w /\ w < b + BlockSize(h, b) - 8 => c.mem[w] = h.mem[w]
    <3> SUFFICES ASSUME NEW b, AllocBlock(h, b),
                        NEW w \in WordAddrs, b <= w, w < b + BlockSize(h, b) - 8
                 PROVE  c.mem[w] = h.mem[w]
      OBVIOUS
    <3>1. g.mem[w] = h.mem[w]
      BY <2>4 DEF Kept
    <3>2. b \in Nat /\ BlockSize(h, b) \in Nat /\ w \in Nat
      BY BlockFacts DEF AllocBlock, WordAddrs
    <3>3. b + BlockSize(h, b) <= p \/ p + size + 8 <= b
      BY <2>4
    <3>4. ~(p <= w /\ w < p + size)
      BY <3>2, <3>3, <2>3
    <3> QED BY <3>1, <3>4, <2>10 DEF Wrote
  <2>17. \A w \in WordAddrs :
            p <= w /\ w < p + size /\ w - p < BlockSize(h, ptr) - 8
               => c.mem[w] = h.mem[ptr + (w - p)]
    <3> SUFFICES ASSUME NEW w \in WordAddrs, p <= w, w < p + size,
                        w - p < BlockSize(h, ptr) - 8
                 PROVE  c.mem[w] = h.mem[ptr + (w - p)]
      OBVIOUS
    <3>1. w \in Nat /\ w % 4 = 0
      BY DEF WordAddrs, WSIZE
    <3>2. c.mem[w] = g.mem[ptr + (w - p)]
      BY <2>8, <2>10
    <3>3. ptr + (w - p) \in WordAddrs
      BY <3>1, <2>3, <2>6, MaxHeapAssumption DEF WordAddrs, WSIZE
    <3>4. ptr <= ptr + (w - p) /\ ptr + (w - p) < ptr + BlockSize(h, ptr) - 8
      BY <3>1, <2>3, <2>6
    <3>5. g.mem[ptr + (w - p)] = h.mem[ptr + (w - p)]
      BY <3>3, <3>4, <2>7 DEF Kept
    <3> QED BY <3>2, <3>5
  <2>18. PICK h1 : PlacedIn(h, h1, m, size)
    BY <1>1, <1>5, MallocPlaces
  <2>19. /\ h1 \in Heaps /\ Shape(h1) /\ p \in h1.blks
         /\ BlockSize(h1, p) \in Nat /\ BlockSize(h1, p) >= size + 8
         /\ \A b : AllocBlock(h, b) =>
              b \in h1.blks /\ b # p /\ BlockSize(h1, b) = BlockSize(h, b)
    <3>1. h1 \in Heaps /\ Shape(h1) /\ FreeBlock(h1, p) /\ SameAllocated(h, h1)
          /\ AdjustedSize(size) <= BlockSize(h1, p)
      BY <2>2, <2>18 DEF PlacedIn
    <3>2. p \in h1.blks /\ BlockSize(h1, p) \in Nat
      BY <3>1, BlockFacts DEF FreeBlock
    <3>3. \A b : AllocBlock(h, b) =>
            b \in h1.blks /\ b # p /\ BlockSize(h1, b) = BlockSize(h, b)
      BY <3>1, <2>4 DEF SameAllocated, Kept, AllocBlock, BlockSize, GET_SIZE, HDRP, WSIZE
    <3>4. BlockSize(h1, p) >= size + 8
      BY <3>1, <3>2, AdjustedSizeFacts
    <3> QED BY <3>1, <3>2, <3>3, <3>4
  <2>20. ASSUME g.gaps # {}
         PROVE  WroteBlock(h1, c, p)
    <3>1. WroteBlock(h1, g, p)
      <4>1. PICK asize : asize = AdjustedSize(size)
        OBVIOUS
      <4>2. asize \in Nat /\ asize % 8 = 0 /\ asize >= 16
        BY <4>1, AdjustedSizeFacts
      <4>3. h1.gaps = {} /\ asize <= BlockSize(h1, p) /\ g = place(h1, p, asize)
        BY <4>1, <2>1, <2>2, <2>18 DEF PlacedIn
      <4> QED BY <4>2, <4>3, <2>19, <2>20, PlaceGap
    <3>2. \A w \in WordAddrs :
             w < p - 4 \/ w >= p + BlockSize(h1, p) - 8 => ~(p <= w /\ w < p + size)
      <4>1. \A w \in WordAddrs : w \in Nat
        BY DEF WordAddrs
      <4> QED BY <4>1, <2>3, <2>19
    <3>3. c.mem[p - 4] = g.mem[p - 4]
      <4>1. p - 4 \in WordAddrs /\ ~(p <= p - 4)
        BY <2>3, <2>19, BlockFacts
      <4> QED BY <4>1, <2>10 DEF Wrote
    <3>4. c \in Heaps /\ c.brk = g.brk
          /\ \A w \in WordAddrs : ~(p <= w /\ w < p + size) => c.mem[w] = g.mem[w]
      BY <2>10 DEF Wrote
    <3> QED BY <3>1, <3>2, <3>3, <3>4 DEF WroteBlock
  <2>21. \A b : AllocBlock(h, b) /\ b # ptr => PayloadKept(h, k, b)
    <3> SUFFICES ASSUME NEW b, AllocBlock(h, b), b # ptr,
                        NEW w \in WordAddrs, b <= w, w < b + BlockSize(h, b) - 8
                 PROVE  k.mem[w] = h.mem[w]
      BY DEF PayloadKept
    <3>1. CASE g.gaps = {}
      BY <3>1, <2>15 DEF Kept
    <3>2. CASE g.gaps # {}
      <4>1. k.mem[w] = c.mem[w]
        BY <3>2, <2>7, <2>12, <2>19, <2>20, FreeFrame
      <4> QED BY <4>1, <2>16
    <3> QED BY <3>1, <3>2
  <2>22. PICK r1 : r1 = [heap |-> k, ret |-> p]
    OBVIOUS
  <2>23. Carried(h, r1, ptr, size)
    <3> SUFFICES ASSUME NEW w \in WordAddrs, p <= w, w < p + size,
                        w - p < BlockSize(h, ptr) - 8
                 PROVE  k.mem[w] = c.mem[w]
      BY <2>17, <2>22 DEF Carried
    <3>1. w \in Nat
      BY DEF WordAddrs
    <3>2. CASE g.gaps = {}
      <4>1. Freed(c, k, ptr) /\ AllocBlock(c, p) /\ BlockSize(c, p) = BlockSize(g, p)
            /\ BlockSize(g, p) \in Nat /\ BlockSize(g, p) >= size + 8
        <5>1. /\ Shape(g) /\ CoalescedOK(g)
              /\ AllocBlock(g, p) /\ BlockSize(g, p) >= size + 8
              /\ AllocBlock(g, ptr)
          BY <3>2, <2>5, <2>7
        <5>2. BlockSize(g, p) \in Nat
          BY <5>1, <2>3, BlockFacts DEF AllocBlock
        <5>3. size + 8 <= BlockSize(g, p)
          BY <5>1, <5>2
        <5>4. /\ Shape(c) /\ CoalescedOK(c) /\ BlockSize(c, p) = BlockSize(g, p)
              /\ AllocBlock(c, p) /\ AllocBlock(c, ptr)
          BY <5>1, <5>3, <2>3, <2>10, PayloadWritten
        <5> QED BY <5>1, <5>2, <5>4, <2>12, <2>13, FreeWorks
      <4>2. Kept(c, k, p)
        BY <4>1, <2>7 DEF Freed
      <4>3. w < p + BlockSize(c, p) - 8
        BY <4>1, <3>1, <2>3
      <4> QED BY <4>2, <4>3 DEF Kept
    <3>3. CASE g.gaps # {}
      <4>1. w < p + BlockSize(h1, p) - 8
        BY <3>1, <2>3, <2>19
      <4> QED BY <4>1, <3>3, <2>7, <2>12, <2>19, <2>20, FreeFrame
    <3> QED BY <3>2, <3>3
  <2>24. Moved(h, r1, ptr, size)
    BY <2>3, <2>4, <2>14, <2>15, <2>21, <2>22, <2>23 DEF Moved
  <2> QED BY <2>11, <2>22, <2>24, <1>3
<1> QED BY <1>4, <1>5

-----------------------------------------------------------------------------
(* Every block begins, and the heap ends, at a multiple of 16.             *)
OnGrid(h) == h.brk % 16 = 0 /\ \A b \in h.blks : b % 16 = 0

(* Adding a multiple of 16 to one.                                         *)
LEMMA GridSum ==
  ASSUME NEW x \in Nat, NEW y \in Nat, x % 16 = 0, y % 16 = 0
  PROVE  (x + y) % 16 = 0 /\ (x - y) % 16 = 0
OBVIOUS

(* On the grid every block is a multiple of 16 long.                       *)
LEMMA GridBlock ==
  ASSUME NEW h \in Heaps, Shape(h), OnGrid(h), NEW b \in h.blks
  PROVE  b \in Nat /\ b % 16 = 0 /\ BlockSize(h, b) \in Nat /\ BlockSize(h, b) % 16 = 0
<1>1. PICK n, e : n = BlockSize(h, b) /\ e = b + n
  OBVIOUS
<1>2. b \in Nat /\ n \in Nat /\ e \in h.blks \cup {h.brk}
  BY <1>1, BlockFacts
<1>3. b % 16 = 0 /\ e % 16 = 0
  BY <1>2 DEF OnGrid
<1>4. e \in Nat /\ n = e - b
  BY <1>1, <1>2
<1> QED BY <1>1, <1>2, <1>3, <1>4, GridSum

(* mm_malloc of a block of a multiple of 16 bytes leaves no gap, and the   *)
(* heap on the grid: what place splits off is a multiple of 16 too.        *)
LEMMA MallocOnGrid ==
  ASSUME NEW h \in Heaps, Shape(h), CoalescedOK(h), h.gaps = {}, OnGrid(h),
         NEW size \in Nat, AdjustedSize(size) % 16 = 0, CHUNKSIZE % 16 = 0
  PROVE  mm_malloc(h, size).heap.gaps = {} /\ OnGrid(mm_malloc(h, size).heap)
<1>1. PICK m : m = mm_malloc(h, size)
  OBVIOUS
<1>2. PICK asize : asize = AdjustedSize(size)
  OBVIOUS
<1>3. asize \in Nat /\ asize % 8 = 0 /\ asize >= 16 /\ asize % 16 = 0
  BY <1>2, AdjustedSizeFacts
<1>4. ASSUME NEW h1, PlacedIn(h, h1, m, size)
      PROVE  m.heap.gaps = {} /\ OnGrid(m.heap)
  <2>1. PICK bp, g : bp = m.ret /\ g = m.heap
    OBVIOUS
  <2>2. /\ h1 \in Heaps /\ Shape(h1) /\ CoalescedOK(h1) /\ h1.gaps = {}
        /\ h1.brk \in {h.brk, h.brk + MaxOf(asize, CHUNKSIZE)}
        /\ h1.blks \subseteq h.blks \cup {h.brk}
        /\ FreeBlock(h1, bp) /\ asize <= BlockSize(h1, bp)
        /\ g = place(h1, bp, asize)
    BY <1>2, <1>4, <2>1 DEF PlacedIn
  <2>3. MaxOf(asize, CHUNKSIZE) \in Nat /\ MaxOf(asize, CHUNKSIZE) % 16 = 0
    BY <1>3, ChunkAssumption DEF MaxOf
  <2>4. h.brk \in Nat /\ h.brk % 16 = 0
    BY MaxHeapAssumption DEF Heaps, OnGrid
  <2>5. OnGrid(h1)
    BY <2>2, <2>3, <2>4, GridSum DEF OnGrid
  <2>6. PICK n : n = BlockSize(h1, bp)
    OBVIOUS
  <2>7. bp \in Nat /\ bp % 16 = 0 /\ n \in Nat /\ n % 16 = 0
    BY <2>2, <2>5, <2>6, GridBlock DEF FreeBlock
  <2>8. Placed(h1, g, bp, asize)
    BY <1>3, <2>2, PlaceWorks
  <2>9. n - asize \notin 1 .. 15
    BY <1>3, <2>7
  <2>10. g.gaps = {} /\ g.brk = h1.brk /\ g.blks \subseteq h1.blks \cup {bp + asize}
    BY <2>6, <2>8, <2>9 DEF Placed
  <2>11. (bp + asize) % 16 = 0
    BY <1>3, <2>7
  <2> QED BY <2>1, <2>5, <2>10, <2>11 DEF OnGrid
<1>5. (m.ret = NULL /\ m.heap = h) \/ \E h1 : PlacedIn(h, h1, m, size)
  BY <1>1, MallocPlaces
<1> QED BY <1>1, <1>4, <1>5

(* mm_free only takes blocks away.                                         *)
LEMMA FreeOnGrid ==
  ASSUME NEW h \in Heaps, Shape(h), CoalescedOK(h), OnGrid(h), NEW ptr, AllocBlock(h, ptr)
  PROVE  OnGrid(mm_free(h, ptr))
BY FreeWorks DEF Freed, OnGrid

(* mm_realloc is a mm_malloc, a copy, and a mm_free.                       *)
LEMMA ReallocOnGrid ==
  ASSUME NEW h \in Heaps, Shape(h), CoalescedOK(h), h.gaps = {}, OnGrid(h),
         NEW ptr, AllocBlock(h, ptr), NEW size \in Nat, NEW junk \in Int,
         AdjustedSize(size) % 16 = 0, CHUNKSIZE % 16 = 0
  PROVE  /\ mm_realloc(h, ptr, size, junk).heap.gaps = {}
         /\ OnGrid(mm_realloc(h, ptr, size, junk).heap)
<1>1. PICK m, r : m = mm_malloc(h, size) /\ r = mm_realloc(h, ptr, size, junk)
  OBVIOUS
<1>2. m.heap.gaps = {} /\ OnGrid(m.heap)
  BY <1>1, MallocOnGrid
<1>3. AnswersAfter(m, r, ptr, size)
  BY <1>1, ReallocSteps
<1>4. CASE m.ret = NULL
  BY <1>1, <1>2, <1>3, <1>4 DEF AnswersAfter
<1>5. CASE m.ret # NULL
  <2>1. PICK c, k : CopiedThenFreed(m, ptr, size, c, k) /\ r = [heap |-> k, ret |-> m.ret]
    BY <1>3, <1>5 DEF AnswersAfter
  <2>2. PICK g, p : g = m.heap /\ p = m.ret
    OBVIOUS
  <2>3. Granted(h, m, size)
    BY <1>1, MallocWorks
  <2>4. /\ g \in Heaps /\ g.gaps = {} /\ Shape(g) /\ CoalescedOK(g)
        /\ AllocBlock(g, p) /\ BlockSize(g, p) >= size + 8
        /\ ptr # p /\ AllocBlock(g, ptr) /\ OnGrid(g)
    BY <1>2, <1>5, <2>2, <2>3 DEF Granted
  <2>5. size + 8 <= BlockSize(g, p)
    BY <2>4, BlockFacts DEF AllocBlock
  <2>6. Wrote(g, c, p, size) /\ k = mm_free(c, ptr) /\ k.gaps = g.gaps
    BY <2>1, <2>2 DEF CopiedThenFreed, Copied
  <2>7. c \in Heaps /\ c.brk = g.brk /\ c.blks = g.blks
    BY <2>6 DEF Wrote
  <2>8. Shape(c) /\ CoalescedOK(c) /\ AllocBlock(c, ptr)
    BY <2>4, <2>5, <2>6, PayloadWritten
  <2>9. OnGrid(c)
    BY <2>4, <2>7 DEF OnGrid
  <2>10. OnGrid(k)
    BY <2>6, <2>7, <2>8, <2>9, FreeOnGrid
  <2> QED BY <1>1, <2>1, <2>4, <2>6, <2>10
<1> QED BY <1>4, <1>5

(* mm_init puts its one block at 16 and the end a chunk behind it.         *)
LEMMA InitOnGrid ==
  ASSUME NEW h \in Heaps, h.brk = 0, mm_init(h).ret # NULL, CHUNKSIZE % 16 = 0
  PROVE  OnGrid(mm_init(h).heap)
<1>1. PICK r : r = mm_init(h)
  OBVIOUS
<1>2. 16 <= MAX_HEAP
  BY InitCases, MaxHeapAssumption
<1>3. PICK g : EmptyHeap(g) /\ r = extend_heap(g, CHUNKSIZE \div 4)
  BY <1>1, <1>2, InitCases
<1>4. PICK words : words = CHUNKSIZE \div 4
  OBVIOUS
<1>5. /\ words \in Nat /\ words % 2 = 0 /\ words >= 4 /\ 4 * words = CHUNKSIZE
  BY <1>4, ChunkAssumption DEF DSIZE
<1>6. g \in Heaps /\ g.brk = 16 /\ g.blks = {} /\ Shape(g) /\ CoalescedOK(g)
  BY <1>3, EmptyWorks DEF EmptyHeap
<1>7. ExtendedBy(g, r, 4 * words)
  BY <1>3, <1>4, <1>5, <1>6, ExtendHeap
<1>8. r.heap.brk = 16 + CHUNKSIZE /\ r.heap.blks \subseteq {16}
  BY <1>1, <1>5, <1>6, <1>7 DEF ExtendedBy
<1>9. (16 + CHUNKSIZE) % 16 = 0
  BY ChunkAssumption
<1> QED BY <1>1, <1>8, <1>9 DEF OnGrid

(* mm_init leaves no gap, whether it succeeds or not.                      *)
LEMMA InitNoGap ==
  ASSUME NEW h \in Heaps, h.brk = 0, h.gaps = {}
  PROVE  mm_init(h).heap.gaps = {}
<1>1. PICK r : r = mm_init(h)
  OBVIOUS
<1>2. CASE 16 > MAX_HEAP
  BY <1>2, InitCases
<1>3. CASE 16 <= MAX_HEAP
  <2>1. PICK g : EmptyHeap(g) /\ r = extend_heap(g, CHUNKSIZE \div 4)
    BY <1>1, <1>3, InitCases
  <2>2. PICK words : words = CHUNKSIZE \div 4
    OBVIOUS
  <2>3. words \in Nat /\ words % 2 = 0 /\ words >= 4
    BY <2>2, ChunkAssumption DEF DSIZE
  <2>4. g \in Heaps /\ g.gaps = {} /\ Shape(g) /\ CoalescedOK(g)
    BY <2>1, EmptyWorks DEF EmptyHeap
  <2>5. ExtendedBy(g, r, 4 * words)
    BY <2>1, <2>2, <2>3, <2>4, ExtendHeap
  <2> QED BY <2>4, <2>5, <1>1 DEF ExtendedBy
<1> QED BY <1>2, <1>3, MaxHeapAssumption

-----------------------------------------------------------------------------
(* The allocator looks at tags only: on two heaps that agree on the break, *)
(* the blocks and their tags, and differ in payloads and in whatever the   *)
(* arena held before, every request of mm.c gets the same pointer and      *)
(* leaves heaps that agree again.                                          *)

(* Two heaps that have the same words at W.                                *)
Alike(h, g, W) ==
  /\ h \in Heaps /\ g \in Heaps
  /\ g.brk = h.brk /\ g.blks = h.blks /\ g.gaps = h.gaps
  /\ \A w \in WordAddrs : w \in W => g.mem[w] = h.mem[w]

(* The two words before each block and before the end of the heap, the     *)
(* prologue's footer among them, and the prologue's header.                *)
Edges(h) ==
  {4} \cup {y - 4 : y \in h.blks \cup {h.brk}} \cup {y - 8 : y \in h.blks \cup {h.brk}}

SameTags(h, g) == Alike(h, g, Edges(h))

(* What agrees on some words agrees on fewer.                              *)
LEMMA AlikeFewer ==
  ASSUME NEW h, NEW g, NEW W, NEW V, V \subseteq W, Alike(h, g, W)
  PROVE  Alike(h, g, V)
BY DEF Alike

(* The same PUT on both.                                                   *)
LEMMA AlikePut ==
  ASSUME NEW h, NEW g, NEW W, Alike(h, g, W), NEW x, NEW v \in Int
  PROVE  Alike(PUT(h, x, v), PUT(g, x, v), W \cup {x})
<1>1. PICK h1 : h1 = PUT(h, x, v)
  OBVIOUS
<1>2. PICK g1 : g1 = PUT(g, x, v)
  OBVIOUS
<1>3. h \in Heaps /\ g \in Heaps
  BY DEF Alike
<1>4. /\ h1 \in Heaps /\ h1.brk = h.brk /\ h1.blks = h.blks /\ h1.gaps = h.gaps
      /\ \A w \in WordAddrs : h1.mem[w] = IF w = x THEN v ELSE h.mem[w]
  BY <1>1, <1>3, PutFields
<1>5. /\ g1 \in Heaps /\ g1.brk = g.brk /\ g1.blks = g.blks /\ g1.gaps = g.gaps
      /\ \A w \in WordAddrs : g1.mem[w] = IF w = x THEN v ELSE g.mem[w]
  BY <1>2, <1>3, PutFields
<1>6. Alike(h1, g1, W \cup {x})
  BY <1>4, <1>5 DEF Alike
<1> QED BY <1>1, <1>2, <1>6

(* The same tags for the same block on both.                               *)
LEMMA AlikePutTags ==
  ASSUME NEW h, NEW g, NEW W, Alike(h, g, W), NEW b \in Int, b - 4 \in WordAddrs,
         NEW s \in Int, s % 8 = 0, NEW a \in {0, 1}
  PROVE  Alike(PutTags(h, b, s, a), PutTags(g, b, s, a), W \cup {b - 4, b + s - 8})
<1>1. PICK h1 : h1 = PutTags(h, b, s, a)
  OBVIOUS
<1>2. PICK g1 : g1 = PutTags(g, b, s, a)
  OBVIOUS
<1>3. h \in Heaps /\ g \in Heaps
  BY DEF Alike
<1>4. TagsPut(h, h1, b, s, a)
  BY <1>1, <1>3, PutTagsFields
<1>5. TagsPut(g, g1, b, s, a)
  BY <1>2, <1>3, PutTagsFields
<1>6. Alike(h1, g1, W \cup {b - 4, b + s - 8})
  BY <1>4, <1>5 DEF Alike, TagsPut
<1> QED BY <1>1, <1>2, <1>6

(* A block more on both.                                                   *)
LEMMA AlikeAddBlock ==
  ASSUME NEW h, NEW g, NEW W, Alike(h, g, W), NEW x \in Nat
  PROVE  Alike(AddBlock(h, x), AddBlock(g, x), W)
<1>1. h \in Heaps /\ g \in Heaps
  BY DEF Alike
<1>2. /\ SameBytes(h, AddBlock(h, x), h.blks \cup {x}, h.gaps)
      /\ SameBytes(g, AddBlock(g, x), g.blks \cup {x}, g.gaps)
  BY <1>1, AddBlockFields
<1> QED BY <1>2 DEF Alike, SameBytes

(* A gap more on both.                                                     *)
LEMMA AlikeAddGap ==
  ASSUME NEW h, NEW g, NEW W, Alike(h, g, W), NEW x \in Nat
  PROVE  Alike(AddGap(h, x), AddGap(g, x), W)
<1>1. h \in Heaps /\ g \in Heaps
  BY DEF Alike
<1>2. /\ SameBytes(h, AddGap(h, x), h.blks, h.gaps \cup {x})
      /\ SameBytes(g, AddGap(g, x), g.blks, g.gaps \cup {x})
  BY <1>1, AddGapFields
<1> QED BY <1>2 DEF Alike, SameBytes

-----------------------------------------------------------------------------
(* Which words are edges.                                                  *)
LEMMA EdgeFacts ==
  ASSUME NEW h
  PROVE  /\ 4 \in Edges(h)
         /\ \A y \in h.blks \cup {h.brk} : y - 4 \in Edges(h) /\ y - 8 \in Edges(h)
BY DEF Edges

(* A tag at an edge is the same on both heaps, and so is what is read of   *)
(* it.                                                                     *)
LEMMA SameReads ==
  ASSUME NEW h, NEW g, SameTags(h, g), NEW y \in Int, y - 4 \in WordAddrs,
         y - 4 \in Edges(h)
  PROVE  /\ g.mem[y - 4] = h.mem[y - 4]
         /\ BlockSize(g, y) = BlockSize(h, y)
         /\ GET_SIZE(g, HDRP(y)) = GET_SIZE(h, HDRP(y))
         /\ GET_ALLOC(g, HDRP(y)) = GET_ALLOC(h, HDRP(y))
         /\ IsFree(g, y) <=> IsFree(h, y)
<1>1. g.mem[y - 4] = h.mem[y - 4]
  BY DEF SameTags, Alike
<1> QED BY <1>1 DEF BlockSize, GET_SIZE, GET_ALLOC, IsFree, HDRP, WSIZE

(* The blocks of two heaps with the same tags are the same.                *)
LEMMA SameBlocks ==
  ASSUME NEW h, NEW g, SameTags(h, g), Shape(h)
  PROVE  /\ g.brk = h.brk /\ g.blks = h.blks /\ g.gaps = h.gaps
         /\ \A b \in h.blks : /\ g.mem[b - 4] = h.mem[b - 4]
                              /\ BlockSize(g, b) = BlockSize(h, b)
                              /\ IsFree(g, b) <=> IsFree(h, b)
         /\ \A b : /\ AllocBlock(g, b) <=> AllocBlock(h, b)
                   /\ FreeBlock(g, b) <=> FreeBlock(h, b)
<1>1. h \in Heaps /\ g.brk = h.brk /\ g.blks = h.blks /\ g.gaps = h.gaps
  BY DEF SameTags, Alike
<1>2. ASSUME NEW b \in h.blks
      PROVE  /\ g.mem[b - 4] = h.mem[b - 4]
             /\ BlockSize(g, b) = BlockSize(h, b)
             /\ IsFree(g, b) <=> IsFree(h, b)
  <2>1. b \in Int /\ b - 4 \in WordAddrs
    BY <1>1, BlockFacts
  <2>2. b - 4 \in Edges(h)
    BY EdgeFacts
  <2> QED BY <2>1, <2>2, SameReads
<1> QED BY <1>1, <1>2 DEF AllocBlock, FreeBlock

(* The edges of a well-formed heap are words of the arena.                 *)
LEMMA EdgesInside ==
  ASSUME NEW h \in Heaps, Shape(h)
  PROVE  Edges(h) \subseteq WordAddrs
<1>1. ASSUME NEW y \in h.blks \cup {h.brk}
      PROVE  y - 4 \in WordAddrs /\ y - 8 \in WordAddrs
  <2>1. y \in Nat /\ y % 8 = 0 /\ y >= 16 /\ y <= MAX_HEAP
    <3>1. h.brk \in Nat /\ h.brk % 8 = 0 /\ h.brk >= 16 /\ h.brk <= MAX_HEAP
      BY MaxHeapAssumption DEF Shape, EndsOK, FirstBlock, heap_listp, WSIZE, DSIZE
    <3>2. CASE y \in h.blks
      BY <3>1, <3>2, BlockFacts, MaxHeapAssumption
    <3> QED BY <3>1, <3>2
  <2> QED BY <2>1, MaxHeapAssumption DEF WordAddrs, WSIZE
<1>2. 4 \in WordAddrs
  <2>1. 16 <= MAX_HEAP
    BY MaxHeapAssumption DEF Shape, EndsOK, FirstBlock, heap_listp, WSIZE, DSIZE
  <2> QED BY <2>1, MaxHeapAssumption DEF WordAddrs, WSIZE
<1> QED BY <1>1, <1>2 DEF Edges

(* Two heaps with the same tags are both well formed or neither is.        *)
LEMMA SameShape ==
  ASSUME NEW h, NEW g, SameTags(h, g), Shape(h)
  PROVE  /\ Shape(g)
         /\ CoalescedOK(h) => CoalescedOK(g)
<1>1. /\ h \in Heaps /\ g \in Heaps
      /\ g.brk = h.brk /\ g.blks = h.blks
      /\ \A b \in h.blks : /\ g.mem[b - 4] = h.mem[b - 4]
                           /\ BlockSize(g, b) = BlockSize(h, b)
                           /\ IsFree(g, b) <=> IsFree(h, b)
  BY SameBlocks DEF SameTags, Alike
<1>2. \A w \in Edges(h) : g.mem[w] = h.mem[w]
  BY <1>1, EdgesInside DEF SameTags, Alike
<1>3. EndsOK(g)
  <2>1. /\ h.brk \in 16 .. MAX_HEAP /\ h.brk % 8 = 0
        /\ h.mem[4] = PACK(8, 1) /\ h.mem[8] = PACK(8, 1)
        /\ h.mem[h.brk - 4] = PACK(0, 1)
    BY DEF Shape, EndsOK, HDRP, FirstBlock, heap_listp, WSIZE, DSIZE
  <2>2. 16 \in h.blks \cup {h.brk}
    BY DEF Shape, TilingOK, FirstBlock, heap_listp, WSIZE, DSIZE
  <2>3. 16 - 8 = 8
    OBVIOUS
  <2>4. 4 \in Edges(h) /\ 8 \in Edges(h) /\ h.brk - 4 \in Edges(h)
    BY <2>2, <2>3, EdgeFacts
  <2> QED BY <2>1, <2>4, <1>1, <1>2, EndsIntro
<1>4. TagsOK(g)
  <2>1. ASSUME NEW b \in g.blks
        PROVE  /\ b \in 16 .. g.brk /\ b % 8 = 0
               /\ g.mem[b - 4] % 8 \in {0, 1}
               /\ BlockSize(g, b) >= 16
               /\ g.mem[b + BlockSize(g, b) - 8] = g.mem[b - 4]
    <3>1. /\ b \in Nat /\ b % 8 = 0 /\ b >= 16
          /\ BlockSize(h, b) \in Nat /\ BlockSize(h, b) >= 16
          /\ b + BlockSize(h, b) <= h.brk
          /\ b + BlockSize(h, b) \in h.blks \cup {h.brk}
          /\ h.brk \in Nat
          /\ h.mem[b - 4] % 8 \in {0, 1}
          /\ h.mem[b + BlockSize(h, b) - 8] = h.mem[b - 4]
      BY <1>1, BlockFacts
    <3>2. g.mem[b + BlockSize(h, b) - 8] = h.mem[b + BlockSize(h, b) - 8]
      <4>1. PICK y \in h.blks \cup {h.brk} : y = b + BlockSize(h, b)
        BY <3>1
      <4>2. y - 8 \in Edges(h)
        BY EdgeFacts
      <4>3. g.mem[y - 8] = h.mem[y - 8]
        BY <4>2, <1>2
      <4> QED BY <4>1, <4>3, <3>1
    <3>3. b \in 16 .. g.brk
      BY <3>1, <1>1
    <3> QED BY <3>1, <3>2, <3>3, <1>1
  <2> QED BY <2>1, TagsIntro
<1>5. TilingOK(g)
  <2>1. 16 \in g.blks \cup {g.brk}
    BY <1>1 DEF Shape, TilingOK, FirstBlock, heap_listp, WSIZE, DSIZE
  <2>2. \A b \in g.blks : b + BlockSize(g, b) \in g.blks \cup {g.brk}
    BY <1>1, BlockFacts
  <2>3. \A b \in g.blks \cup {g.brk} :
           b # 16 => \E q \in g.blks : q + BlockSize(g, q) = b
    BY <1>1, PredFacts
  <2>4. \A b \in g.blks, c \in g.blks : b < c => b + BlockSize(g, b) <= c
    BY <1>1, OrderFacts
  <2> QED BY <2>1, <2>2, <2>3, <2>4, TilingIntro
<1>6. ASSUME CoalescedOK(h) PROVE CoalescedOK(g)
  <2>1. \A b \in h.blks : NEXT_BLKP(g, b) = NEXT_BLKP(h, b)
    BY <1>1 DEF NEXT_BLKP, BlockSize
  <2> QED BY <2>1, <1>1, <1>6 DEF CoalescedOK
<1> QED BY <1>3, <1>4, <1>5, <1>6 DEF Shape

(* Having the same tags is symmetric.                                      *)
LEMMA SameTagsSym ==
  ASSUME NEW h, NEW g, SameTags(h, g)
  PROVE  SameTags(g, h)
BY DEF SameTags, Alike, Edges

(* It is transitive.                                                       *)
LEMMA SameTagsTrans ==
  ASSUME NEW h, NEW g, NEW k, SameTags(h, g), SameTags(g, k)
  PROVE  SameTags(h, k)
BY DEF SameTags, Alike, Edges

-----------------------------------------------------------------------------
(* The same Join on both, which takes blocks off and adds none.            *)
LEMMA SameJoin ==
  ASSUME NEW h, NEW g, SameTags(h, g),
         NEW p \in Int, p - 4 \in WordAddrs, NEW s \in Int, s % 8 = 0, NEW gone,
         NEW last \in Int, last - 4 \in WordAddrs, NEW e \in Int,
         \/ last = p /\ e = p + s
         \/ last # p /\ e = last + BlockSize(h, last) /\ e = last + BlockSize(g, last)
  PROVE  SameTags(Join(h, p, s, last, gone), Join(g, p, s, last, gone))
<1>1. PICK h1 : h1 = Join(h, p, s, last, gone)
  OBVIOUS
<1>2. PICK g1 : g1 = Join(g, p, s, last, gone)
  OBVIOUS
<1>3. h \in Heaps /\ g \in Heaps
  BY DEF SameTags, Alike
<1>4. Joined(h, h1, p, s, e, gone)
  BY <1>1, <1>3, JoinFields
<1>5. Joined(g, g1, p, s, e, gone)
  BY <1>2, <1>3, JoinFields
<1>6. Alike(h1, g1, Edges(h))
  BY <1>4, <1>5 DEF SameTags, Alike, Joined
<1>7. h1.brk = h.brk /\ h1.blks \subseteq h.blks
  BY <1>4 DEF Joined
<1>8. Edges(h1) \subseteq Edges(h)
  BY <1>7 DEF Edges
<1>9. SameTags(h1, g1)
  BY <1>6, <1>8, AlikeFewer DEF SameTags
<1> QED BY <1>1, <1>2, <1>9

(* coalesce decides from tags: the two around the block and the headers of *)
(* its neighbours.                                                         *)
LEMMA SameCoalesce ==
  ASSUME NEW h, NEW g, SameTags(h, g), Shape(h), NEW bp \in h.blks, FreeBlock(h, bp)
  PROVE  /\ coalesce(g, bp).ret = coalesce(h, bp).ret
         /\ SameTags(coalesce(h, bp).heap, coalesce(g, bp).heap)
<1>1. /\ h \in Heaps /\ g \in Heaps
      /\ \A b \in h.blks : BlockSize(g, b) = BlockSize(h, b)
  BY SameBlocks DEF SameTags, Alike
<1>2. PICK prev : prev = PREV_BLKP(h, bp)
  OBVIOUS
<1>3. PICK next : next = NEXT_BLKP(h, bp)
  OBVIOUS
<1>4. /\ bp \in Nat /\ bp - 4 \in WordAddrs /\ bp - 8 \in WordAddrs
      /\ prev \in Nat /\ prev - 4 \in WordAddrs
      /\ next \in Nat /\ next - 4 \in WordAddrs
  BY <1>1, <1>2, <1>3, PrevInside DEF Anchored
<1>5. bp - 4 \in Edges(h) /\ bp - 8 \in Edges(h)
  BY EdgeFacts
<1>6. NEXT_BLKP(g, bp) = next
  BY <1>1, <1>3 DEF NEXT_BLKP, BlockSize
<1>7. PREV_BLKP(g, bp) = prev
  <2>1. g.mem[bp - 8] = h.mem[bp - 8]
    BY <1>4, <1>5 DEF SameTags, Alike
  <2> QED BY <2>1, <1>2 DEF PREV_BLKP, GET_SIZE, DSIZE
<1>8. /\ next = bp + BlockSize(h, bp) /\ next \in h.blks \cup {h.brk}
      /\ GET_ALLOC(h, HDRP(next)) = 1 <=> ~FreeBlock(h, next)
      /\ GET_ALLOC(h, HDRP(prev)) # 1 =>
            FreeBlock(h, prev) /\ prev + BlockSize(h, prev) = bp
  BY <1>1, <1>2, <1>3, Neighbours, BlockFacts
<1>9. next - 4 \in Edges(h)
  BY <1>8, EdgeFacts
<1>10. prev - 4 \in Edges(h)
  <2>1. CASE bp = 16
    <3>1. h.mem[8] = 9
      BY DEF Shape, EndsOK, PACK, WSIZE, DSIZE, heap_listp
    <3>2. prev = 8
      BY <2>1, <3>1, <1>2 DEF PREV_BLKP, GET_SIZE, DSIZE
    <3> QED BY <3>2, EdgeFacts
  <2>2. CASE bp # 16
    <3>1. PICK q \in h.blks : q + BlockSize(h, q) = bp
      BY <1>1, <2>2, PredFacts
    <3>2. /\ q \in Nat /\ BlockSize(h, q) \in Nat
          /\ h.mem[q + BlockSize(h, q) - 8] = h.mem[q - 4]
      BY <1>1, BlockFacts
    <3>3. h.mem[bp - 8] = h.mem[q - 4]
      BY <3>1, <3>2
    <3>4. prev = q
      BY <3>1, <3>2, <3>3, <1>2 DEF PREV_BLKP, BlockSize, GET_SIZE, HDRP, WSIZE, DSIZE
    <3> QED BY <3>4, EdgeFacts
  <2> QED BY <2>1, <2>2
<1>11. /\ GET_SIZE(g, HDRP(prev)) = BlockSize(h, prev)
       /\ GET_SIZE(h, HDRP(prev)) = BlockSize(h, prev)
       /\ GET_ALLOC(g, HDRP(prev)) = GET_ALLOC(h, HDRP(prev))
       /\ GET_SIZE(g, HDRP(next)) = BlockSize(h, next)
       /\ GET_SIZE(h, HDRP(next)) = BlockSize(h, next)
       /\ BlockSize(g, next) = BlockSize(h, next)
       /\ GET_ALLOC(g, HDRP(next)) = GET_ALLOC(h, HDRP(next))
       /\ GET_SIZE(g, HDRP(bp)) = BlockSize(h, bp)
       /\ GET_SIZE(h, HDRP(bp)) = BlockSize(h, bp)
  BY <1>4, <1>5, <1>9, <1>10, SameReads DEF BlockSize
<1>12. \A b \in h.blks : /\ b \in Nat /\ b - 4 \in WordAddrs
                         /\ BlockSize(h, b) \in Nat /\ BlockSize(h, b) % 8 = 0
                         /\ BlockSize(h, b) >= 16
  BY <1>1, BlockFacts
<1>13. PICK r : r = coalesce(h, bp)
  OBVIOUS
<1>14. PICK q : q = coalesce(g, bp)
  OBVIOUS
<1>15. CASE GET_ALLOC(h, HDRP(prev)) = 1 /\ GET_ALLOC(h, HDRP(next)) = 1
  <2>1. r = [heap |-> h, ret |-> bp]
    BY <1>2, <1>3, <1>13, <1>15 DEF coalesce
  <2>2. q = [heap |-> g, ret |-> bp]
    BY <1>6, <1>7, <1>11, <1>14, <1>15 DEF coalesce
  <2> QED BY <2>1, <2>2, <1>13, <1>14
<1>16. CASE GET_ALLOC(h, HDRP(prev)) = 1 /\ GET_ALLOC(h, HDRP(next)) # 1
  <2>1. PICK s : s = BlockSize(h, bp) + BlockSize(h, next)
    OBVIOUS
  <2>2. r = [heap |-> Join(h, bp, s, bp, {next}), ret |-> bp]
    BY <2>1, <1>2, <1>3, <1>11, <1>13, <1>16 DEF coalesce
  <2>3. q = [heap |-> Join(g, bp, s, bp, {next}), ret |-> bp]
    BY <2>1, <1>6, <1>7, <1>11, <1>14, <1>16 DEF coalesce
  <2>4. next \in h.blks
    BY <1>8, <1>16 DEF FreeBlock
  <2>5. s \in Int /\ s % 8 = 0
    BY <2>1, <2>4, <1>12
  <2>6. PICK e : e = bp + s
    OBVIOUS
  <2>7. e \in Int /\ bp \in Int
    BY <2>5, <2>6, <1>4
  <2>8. SameTags(Join(h, bp, s, bp, {next}), Join(g, bp, s, bp, {next}))
    BY <2>5, <2>6, <2>7, <1>4, SameJoin
  <2> QED BY <2>2, <2>3, <2>8, <1>13, <1>14
<1>17. CASE GET_ALLOC(h, HDRP(prev)) # 1 /\ GET_ALLOC(h, HDRP(next)) = 1
  <2>1. PICK s : s = BlockSize(h, bp) + BlockSize(h, prev)
    OBVIOUS
  <2>2. r = [heap |-> Join(h, prev, s, bp, {bp}), ret |-> prev]
    BY <2>1, <1>2, <1>3, <1>11, <1>13, <1>17 DEF coalesce
  <2>3. q = [heap |-> Join(g, prev, s, bp, {bp}), ret |-> prev]
    BY <2>1, <1>6, <1>7, <1>11, <1>14, <1>17 DEF coalesce
  <2>4. prev \in h.blks /\ prev + BlockSize(h, prev) = bp
    BY <1>8, <1>17 DEF FreeBlock
  <2>5. s \in Int /\ s % 8 = 0 /\ bp # prev /\ next \in Int
    BY <2>1, <2>4, <1>4, <1>12
  <2>6. next = bp + BlockSize(h, bp) /\ next = bp + BlockSize(g, bp)
    BY <1>1, <1>8
  <2>7. SameTags(Join(h, prev, s, bp, {bp}), Join(g, prev, s, bp, {bp}))
    BY <2>5, <2>6, <1>4, SameJoin
  <2> QED BY <2>2, <2>3, <2>7, <1>13, <1>14
<1>18. CASE GET_ALLOC(h, HDRP(prev)) # 1 /\ GET_ALLOC(h, HDRP(next)) # 1
  <2>1. PICK s : s = BlockSize(h, bp) + BlockSize(h, prev) + BlockSize(h, next)
    OBVIOUS
  <2>2. r = [heap |-> Join(h, prev, s, next, {bp, next}), ret |-> prev]
    BY <2>1, <1>2, <1>3, <1>11, <1>13, <1>18 DEF coalesce
  <2>3. q = [heap |-> Join(g, prev, s, next, {bp, next}), ret |-> prev]
    BY <2>1, <1>6, <1>7, <1>11, <1>14, <1>18 DEF coalesce
  <2>4. prev \in h.blks /\ prev + BlockSize(h, prev) = bp /\ next \in h.blks
    BY <1>8, <1>18 DEF FreeBlock
  <2>5. s \in Int /\ s % 8 = 0 /\ next # prev
    BY <2>1, <2>4, <1>4, <1>8, <1>12
  <2>6. PICK e : e = next + BlockSize(h, next)
    OBVIOUS
  <2>7. e \in Int /\ e = next + BlockSize(g, next)
    BY <2>4, <2>6, <1>4, <1>11, <1>12
  <2>8. SameTags(Join(h, prev, s, next, {bp, next}), Join(g, prev, s, next, {bp, next}))
    BY <2>5, <2>6, <2>7, <1>4, SameJoin
  <2> QED BY <2>2, <2>3, <2>8, <1>13, <1>14
<1> QED BY <1>15, <1>16, <1>17, <1>18

-----------------------------------------------------------------------------
(* g is what place makes of the heap, by how many bytes are left: h1 has   *)
(* the new tags, and next is where they end.                               *)
PlaceIs(g, rest, h1, next) ==
  /\ rest >= 16 => g = AddBlock(PutTags(h1, next, rest, 0), next)
  /\ rest < 16 /\ rest # 0 => g = AddGap(h1, next)
  /\ rest = 0 => g = h1

(* What place does with a block.                                           *)
LEMMA PlaceCases ==
  ASSUME NEW h \in Heaps, NEW bp \in Int, bp - 4 \in WordAddrs,
         NEW asize \in Nat, asize % 8 = 0, BlockSize(h, bp) - asize \in Nat
  PROVE  PlaceIs(place(h, bp, asize), BlockSize(h, bp) - asize,
                 PutTags(h, bp, asize, 1), bp + asize)
<1> DEFINE rest == BlockSize(h, bp) - asize
           next == bp + asize
           h1   == PutTags(h, bp, asize, 1)
<1>1. TagsPut(h, h1, bp, asize, 1)
  BY PutTagsFields
<1>2. NEXT_BLKP(h1, bp) = next
  <2>1. h1.mem[bp - 4] = PACK(asize, 1)
    BY <1>1 DEF TagsPut
  <2>2. PACK(asize, 1) - (PACK(asize, 1) % 8) = asize
    <3>1. asize \in Int /\ 1 \in {0, 1}
      OBVIOUS
    <3> QED BY <3>1, PackUnpack
  <2> QED BY <2>1, <2>2 DEF NEXT_BLKP, GET_SIZE, HDRP, WSIZE
<1>3. GET_SIZE(h, HDRP(bp)) - asize = rest
  BY DEF BlockSize
<1> QED BY <1>2, <1>3 DEF place, PlaceIs, DSIZE

(* place decides from the size of the block, and writes tags.              *)
LEMMA SamePlace ==
  ASSUME NEW h, NEW g, SameTags(h, g), Shape(h), NEW bp \in h.blks,
         NEW asize \in Nat, asize % 8 = 0, asize >= 16, asize <= BlockSize(h, bp)
  PROVE  SameTags(place(h, bp, asize), place(g, bp, asize))
<1>1. /\ h \in Heaps /\ g \in Heaps /\ BlockSize(g, bp) = BlockSize(h, bp)
  BY SameBlocks DEF SameTags, Alike
<1>2. /\ bp \in Nat /\ bp % 8 = 0 /\ bp >= 16 /\ bp - 4 \in WordAddrs
      /\ BlockSize(h, bp) \in Nat /\ BlockSize(h, bp) % 8 = 0
      /\ bp + BlockSize(h, bp) <= h.brk /\ h.brk <= MAX_HEAP /\ h.brk \in Nat
  BY <1>1, BlockFacts
<1>3. PICK rest : rest = BlockSize(h, bp) - asize
  OBVIOUS
<1>4. PICK next : next = bp + asize
  OBVIOUS
<1>5. rest \in Nat /\ rest % 8 = 0 /\ next \in Nat /\ next % 8 = 0 /\ next >= 16
  BY <1>2, <1>3, <1>4
<1>6. PICK h1 : h1 = PutTags(h, bp, asize, 1)
  OBVIOUS
<1>7. PICK g1 : g1 = PutTags(g, bp, asize, 1)
  OBVIOUS
<1>8. /\ bp \in Int /\ BlockSize(h, bp) - asize \in Nat
       /\ BlockSize(g, bp) - asize \in Nat
  BY <1>1, <1>2, <1>3, <1>5
<1>9. PlaceIs(place(h, bp, asize), rest, h1, next)
  BY <1>1, <1>2, <1>3, <1>4, <1>6, <1>8, PlaceCases
<1>10. PlaceIs(place(g, bp, asize), rest, g1, next)
  BY <1>1, <1>2, <1>3, <1>4, <1>7, <1>8, PlaceCases
<1>11. PICK W : W = Edges(h) \cup {bp - 4, bp + asize - 8}
  OBVIOUS
<1>12. Alike(h1, g1, W)
  BY <1>2, <1>6, <1>7, <1>11, AlikePutTags DEF SameTags
<1>13. h1 \in Heaps /\ h1.brk = h.brk /\ h1.blks = h.blks
  <2>1. TagsPut(h, h1, bp, asize, 1)
    BY <1>1, <1>2, <1>6, PutTagsFields
  <2> QED BY <2>1 DEF TagsPut
<1>14. Edges(h) \subseteq W /\ next - 8 \in W
  <2>1. next - 8 = bp + asize - 8
    BY <1>2, <1>4
  <2> QED BY <2>1, <1>11
<1>15. CASE rest >= 16
  <2>1. next - 4 \in WordAddrs
    BY <1>15, <1>2, <1>3, <1>4, <1>5, MaxHeapAssumption DEF WordAddrs, WSIZE
  <2>2. PICK h2 : h2 = PutTags(h1, next, rest, 0)
    OBVIOUS
  <2>3. PICK g2 : g2 = PutTags(g1, next, rest, 0)
    OBVIOUS
  <2>4. PICK V : V = W \cup {next - 4, next + rest - 8}
    OBVIOUS
  <2>5. Alike(h2, g2, V)
    BY <2>1, <2>2, <2>3, <2>4, <1>5, <1>12, AlikePutTags
  <2>6. Alike(AddBlock(h2, next), AddBlock(g2, next), V)
    BY <2>5, <1>5, AlikeAddBlock
  <2>7. TagsPut(h1, h2, next, rest, 0)
    BY <2>1, <2>2, <1>5, <1>13, PutTagsFields
  <2>8. PICK h3 : h3 = AddBlock(h2, next)
    OBVIOUS
  <2>9. h2 \in Heaps /\ h2.brk = h.brk /\ h2.blks = h.blks
    BY <2>7, <1>13 DEF TagsPut
  <2>10. SameBytes(h2, h3, h2.blks \cup {next}, h2.gaps)
    BY <2>8, <2>9, <1>5, AddBlockFields
  <2>11. h3.brk = h.brk /\ h3.blks = h.blks \cup {next}
    BY <2>9, <2>10 DEF SameBytes
  <2>12. Edges(h3) \subseteq V
    BY <2>4, <2>11, <1>14 DEF Edges
  <2> QED BY <2>2, <2>3, <2>6, <2>8, <2>12, <1>9, <1>10, <1>15, AlikeFewer
       DEF SameTags, PlaceIs
<1>16. CASE rest < 16 /\ rest # 0
  <2>1. Alike(AddGap(h1, next), AddGap(g1, next), W)
    BY <1>5, <1>12, AlikeAddGap
  <2>2. PICK h2 : h2 = AddGap(h1, next)
    OBVIOUS
  <2>3. h2.brk = h.brk /\ h2.blks = h.blks
    BY <2>2, <1>5, <1>13, AddGapFields DEF SameBytes
  <2>4. Edges(h2) \subseteq W
    BY <2>3, <1>14 DEF Edges
  <2> QED BY <2>1, <2>2, <2>4, <1>9, <1>10, <1>16, AlikeFewer DEF SameTags, PlaceIs
<1>17. CASE rest = 0
  <2>1. Edges(h1) \subseteq W
    BY <1>13, <1>14 DEF Edges
  <2> QED BY <2>1, <1>9, <1>10, <1>12, <1>17, AlikeFewer DEF SameTags, PlaceIs
<1> QED BY <1>5, <1>15, <1>16, <1>17

-----------------------------------------------------------------------------
(* The heap before the coalesce of extend_heap: the tags of the new block, *)
(* and the new epilogue.                                                   *)
Lengthened(h, bp, s) ==
  AddBlock(PUT(PutTags(h, bp, s, 0), bp + s - 4, PACK(0, 1)), bp)

(* What extend_heap does, once the break has been moved.                   *)
LEMMA ExtendCases ==
  ASSUME NEW h \in Heaps, NEW s \in Nat, s % 8 = 0, s >= 16, NEW words,
         words \in Nat, words % 2 = 0, s = 4 * words, NEW bp, bp = h.brk,
         bp - 4 \in WordAddrs,
         NEW k, k = mem_sbrk(h, s)
  PROVE  /\ bp + s > MAX_HEAP => extend_heap(h, words) = [heap |-> h, ret |-> NULL]
         /\ bp + s <= MAX_HEAP =>
              extend_heap(h, words) = coalesce(Lengthened(k.heap, bp, s), bp)
<1>1. words * WSIZE = s
  BY DEF WSIZE
<1>2. ASSUME bp + s > MAX_HEAP
      PROVE  extend_heap(h, words) = [heap |-> h, ret |-> NULL]
  <2>1. k.ret = NoAddr
    BY <1>2, SbrkFields
  <2> QED BY <2>1, <1>1 DEF extend_heap
<1>3. ASSUME bp + s <= MAX_HEAP
      PROVE  extend_heap(h, words) = coalesce(Lengthened(k.heap, bp, s), bp)
  <2>1. k.ret = bp /\ bp \in Nat /\ k.heap \in Heaps
    BY <1>3, SbrkFields DEF Heaps
  <2>2. PICK h1 : h1 = PutTags(k.heap, bp, s, 0)
    OBVIOUS
  <2>3. HDRP(NEXT_BLKP(h1, bp)) = bp + s - 4
    <3>1. TagsPut(k.heap, h1, bp, s, 0)
      BY <2>1, <2>2, PutTagsFields
    <3>2. h1.mem[bp - 4] = PACK(s, 0)
      BY <3>1 DEF TagsPut
    <3>3. PACK(s, 0) - (PACK(s, 0) % 8) = s
      BY PackUnpack
    <3> QED BY <3>2, <3>3, <2>1 DEF NEXT_BLKP, GET_SIZE, HDRP, WSIZE
  <2>4. bp # NoAddr
    BY <2>1 DEF NoAddr
  <2> QED BY <2>1, <2>2, <2>3, <2>4, <1>1 DEF extend_heap, Lengthened
<1> QED BY <1>2, <1>3

(* extend_heap decides from the break, and writes tags.                    *)
LEMMA SameExtend ==
  ASSUME NEW h, NEW g, SameTags(h, g), Shape(h), CoalescedOK(h),
         NEW words \in Nat, words % 2 = 0, words >= 4
  PROVE  /\ extend_heap(g, words).ret = extend_heap(h, words).ret
         /\ SameTags(extend_heap(h, words).heap, extend_heap(g, words).heap)
<1>1. h \in Heaps /\ g \in Heaps /\ g.brk = h.brk /\ g.blks = h.blks /\ g.gaps = h.gaps
  BY DEF SameTags, Alike
<1>2. PICK s : s = 4 * words
  OBVIOUS
<1>3. PICK bp : bp = h.brk
  OBVIOUS
<1>4. /\ s \in Nat /\ s % 8 = 0 /\ s >= 16
      /\ bp \in Nat /\ bp % 8 = 0 /\ bp >= 16 /\ bp <= MAX_HEAP
  BY <1>2, <1>3, MaxHeapAssumption
     DEF Shape, EndsOK, FirstBlock, heap_listp, WSIZE, DSIZE
<1>5. bp - 4 \in WordAddrs
  BY <1>4, MaxHeapAssumption DEF WordAddrs, WSIZE
<1>6. PICK k : k = mem_sbrk(h, s)
  OBVIOUS
<1>7. PICK l : l = mem_sbrk(g, s)
  OBVIOUS
<1>8. CASE bp + s > MAX_HEAP
  <2>1. extend_heap(h, words) = [heap |-> h, ret |-> NULL]
    BY <1>1, <1>2, <1>3, <1>4, <1>5, <1>6, <1>8, ExtendCases
  <2>2. extend_heap(g, words) = [heap |-> g, ret |-> NULL]
    BY <1>1, <1>2, <1>3, <1>4, <1>5, <1>7, <1>8, ExtendCases
  <2> QED BY <2>1, <2>2
<1>9. CASE bp + s <= MAX_HEAP
  <2>1. PICK h0 : h0 = k.heap
    OBVIOUS
  <2>2. PICK g0 : g0 = l.heap
    OBVIOUS
  <2>3. /\ h0 \in Heaps /\ h0.brk = bp + s /\ h0.mem = h.mem
        /\ h0.blks = h.blks /\ h0.gaps = h.gaps
    BY <2>1, <1>1, <1>3, <1>4, <1>6, <1>9, SbrkFields
  <2>4. /\ g0 \in Heaps /\ g0.brk = bp + s /\ g0.mem = g.mem
        /\ g0.blks = h.blks /\ g0.gaps = h.gaps
    BY <2>2, <1>1, <1>3, <1>4, <1>7, <1>9, SbrkFields
  <2>5. PICK W : W = Edges(h)
    OBVIOUS
  <2>6. Alike(h0, g0, W)
    BY <2>3, <2>4, <2>5 DEF SameTags, Alike
  <2>7. PICK h1 : h1 = PutTags(h0, bp, s, 0)
    OBVIOUS
  <2>8. PICK g1 : g1 = PutTags(g0, bp, s, 0)
    OBVIOUS
  <2>9. PICK V : V = W \cup {bp - 4, bp + s - 8}
    OBVIOUS
  <2>10. Alike(h1, g1, V)
    BY <2>6, <2>7, <2>8, <2>9, <1>4, <1>5, AlikePutTags
  <2>11. PICK h2 : h2 = PUT(h1, bp + s - 4, PACK(0, 1))
    OBVIOUS
  <2>12. PICK g2 : g2 = PUT(g1, bp + s - 4, PACK(0, 1))
    OBVIOUS
  <2>13. PICK U : U = V \cup {bp + s - 4}
    OBVIOUS
  <2>14. PACK(0, 1) \in Int
    BY DEF PACK
  <2>15. Alike(h2, g2, U)
    BY <2>10, <2>11, <2>12, <2>13, <2>14, AlikePut
  <2>16. PICK h3 : h3 = AddBlock(h2, bp)
    OBVIOUS
  <2>17. PICK g3 : g3 = AddBlock(g2, bp)
    OBVIOUS
  <2>18. Alike(h3, g3, U)
    BY <2>15, <2>16, <2>17, <1>4, AlikeAddBlock
  <2>19. TagsPut(h0, h1, bp, s, 0)
    BY <2>3, <2>7, <1>4, <1>5, PutTagsFields
  <2>20. /\ h2 \in Heaps /\ h2.brk = h1.brk /\ h2.blks = h1.blks
         /\ \A w \in WordAddrs :
               h2.mem[w] = IF w = bp + s - 4 THEN PACK(0, 1) ELSE h1.mem[w]
    BY <2>11, <2>14, <2>19, PutFields DEF TagsPut
  <2>21. SameBytes(h2, h3, h2.blks \cup {bp}, h2.gaps)
    BY <2>16, <2>20, <1>4, AddBlockFields
  <2>22. Extended(h, h3, bp, s)
    <3>1. bp + s - 4 # bp - 4 /\ bp + s - 4 # bp + s - 8
      BY <1>4
    <3> QED BY <3>1, <2>3, <2>19, <2>20, <2>21 DEF Extended, TagsPut, SameBytes
  <2>23. Shape(h3) /\ FreeBlock(h3, bp)
    BY <2>22, <1>1, <1>3, <1>4, <1>9, ExtendShape
  <2>24. Edges(h3) \subseteq U
    <3>1. h3.brk = bp + s /\ h3.blks = h.blks \cup {bp}
      BY <2>22 DEF Extended
    <3>2. \A y \in h3.blks \cup {h3.brk} : y \in h.blks \cup {h.brk} \/ y = bp + s
      BY <3>1, <1>3
    <3>3. \A y \in h.blks \cup {h.brk} : y - 4 \in U /\ y - 8 \in U
      BY <2>5, <2>9, <2>13, EdgeFacts
    <3>4. bp + s - 4 \in U /\ bp + s - 8 \in U /\ 4 \in U
      BY <2>5, <2>9, <2>13, EdgeFacts
    <3>5. \A y \in h3.blks \cup {h3.brk} : y - 4 \in U /\ y - 8 \in U
      BY <3>2, <3>3, <3>4, <1>4
    <3> QED BY <3>4, <3>5 DEF Edges
  <2>25. SameTags(h3, g3)
    BY <2>18, <2>24, AlikeFewer DEF SameTags
  <2>26. bp \in h3.blks
    BY <2>23 DEF FreeBlock
  <2>27. /\ coalesce(g3, bp).ret = coalesce(h3, bp).ret
         /\ SameTags(coalesce(h3, bp).heap, coalesce(g3, bp).heap)
    BY <2>23, <2>25, <2>26, SameCoalesce
  <2>28. extend_heap(h, words) = coalesce(h3, bp)
    <3>1. h3 = Lengthened(k.heap, bp, s)
      BY <2>1, <2>7, <2>11, <2>16 DEF Lengthened
    <3> QED BY <3>1, <1>1, <1>2, <1>3, <1>4, <1>5, <1>6, <1>9, ExtendCases
  <2>29. extend_heap(g, words) = coalesce(g3, bp)
    <3>1. g3 = Lengthened(l.heap, bp, s)
      BY <2>2, <2>8, <2>12, <2>17 DEF Lengthened
    <3> QED BY <3>1, <1>1, <1>2, <1>3, <1>4, <1>5, <1>7, <1>9, ExtendCases
  <2> QED BY <2>27, <2>28, <2>29
<1> QED BY <1>4, <1>8, <1>9, MaxHeapAssumption

-----------------------------------------------------------------------------
(* mm_init leaves the same tags in whatever the arena held.                *)
LEMMA SameInit ==
  ASSUME NEW h \in Heaps, h.brk = 0, NEW g \in Heaps, g.brk = 0
  PROVE  /\ mm_init(g).ret = mm_init(h).ret
         /\ mm_init(h).ret # NULL => SameTags(mm_init(h).heap, mm_init(g).heap)
<1>1. CASE 16 > MAX_HEAP
  BY <1>1, InitCases
<1>2. CASE 16 <= MAX_HEAP
  <2>1. PICK words : words = CHUNKSIZE \div 4
    OBVIOUS
  <2>2. words \in Nat /\ words % 2 = 0 /\ words >= 4
    BY <2>1, ChunkAssumption DEF DSIZE
  <2>3. PICK h1 : EmptyHeap(h1) /\ mm_init(h) = extend_heap(h1, words)
    BY <2>1, <1>2, InitCases
  <2>4. PICK g1 : EmptyHeap(g1) /\ mm_init(g) = extend_heap(g1, words)
    BY <2>1, <1>2, InitCases
  <2>5. SameTags(h1, g1)
    <3>1. h1.blks = {} /\ h1.brk = 16
      BY <2>3 DEF EmptyHeap
    <3>2. Edges(h1) = {4, 8, 12}
      BY <3>1 DEF Edges
    <3> QED BY <3>2, <2>3, <2>4 DEF SameTags, Alike, EmptyHeap
  <2>6. Shape(h1) /\ CoalescedOK(h1)
    BY <2>3, EmptyWorks
  <2> QED BY <2>2, <2>3, <2>4, <2>5, <2>6, SameExtend
<1> QED BY <1>1, <1>2, MaxHeapAssumption

(* find_fit decides from headers.                                          *)
LEMMA SameFind ==
  ASSUME NEW h, NEW g, SameTags(h, g), Shape(h), NEW asize
  PROVE  find_fit(g, asize) = find_fit(h, asize)
<1>1. /\ g.blks = h.blks
      /\ \A b \in h.blks : /\ BlockSize(g, b) = BlockSize(h, b)
                           /\ IsFree(g, b) <=> IsFree(h, b)
  BY SameBlocks
<1>2. Fits(g, asize) = Fits(h, asize)
  BY <1>1 DEF Fits, BlockSize, IsFree
<1> QED BY <1>2 DEF find_fit

(* mm_malloc answers the same on both and leaves the same tags.            *)
LEMMA SameMalloc ==
  ASSUME NEW h, NEW g, SameTags(h, g), Shape(h), CoalescedOK(h), NEW size \in Nat
  PROVE  /\ mm_malloc(g, size).ret = mm_malloc(h, size).ret
         /\ SameTags(mm_malloc(h, size).heap, mm_malloc(g, size).heap)
<1>1. h \in Heaps /\ g \in Heaps
  BY DEF SameTags, Alike
<1>2. PICK asize : asize = AdjustedSize(size)
  OBVIOUS
<1>3. asize \in Nat /\ asize % 8 = 0 /\ asize >= 16
  BY <1>2, AdjustedSizeFacts
<1>4. PICK bp : bp = find_fit(h, asize)
  OBVIOUS
<1>5. find_fit(g, asize) = bp
  BY <1>4, SameFind
<1>6. PICK m : m = mm_malloc(h, size)
  OBVIOUS
<1>7. PICK n : n = mm_malloc(g, size)
  OBVIOUS
<1>8. CASE size <= 0
  <2>1. m = [heap |-> h, ret |-> NULL] /\ n = [heap |-> g, ret |-> NULL]
    BY <1>6, <1>7, <1>8 DEF mm_malloc
  <2> QED BY <2>1, <1>6, <1>7
<1>9. CASE size > 0 /\ bp # NULL
  <2>1. m = [heap |-> place(h, bp, asize), ret |-> bp]
    BY <1>2, <1>4, <1>6, <1>9 DEF mm_malloc
  <2>2. n = [heap |-> place(g, bp, asize), ret |-> bp]
    BY <1>2, <1>5, <1>7, <1>9 DEF mm_malloc
  <2>3. bp \in h.blks /\ asize <= BlockSize(h, bp)
    BY <1>1, <1>3, <1>4, <1>9, FindFit DEF FreeBlock
  <2>4. SameTags(place(h, bp, asize), place(g, bp, asize))
    BY <2>3, <1>3, SamePlace
  <2> QED BY <2>1, <2>2, <2>4, <1>6, <1>7
<1>10. CASE size > 0 /\ bp = NULL
  <2>1. PICK words : words = MaxOf(asize, CHUNKSIZE) \div WSIZE
    OBVIOUS
  <2>2. words \in Nat /\ words % 2 = 0 /\ words >= 4 /\ 4 * words >= asize
    BY <2>1, <1>3, ChunkAssumption DEF MaxOf, WSIZE, DSIZE
  <2>3. PICK d : d = extend_heap(h, words)
    OBVIOUS
  <2>4. PICK e : e = extend_heap(g, words)
    OBVIOUS
  <2>5. m = PlaceIn(d, asize)
    BY <2>1, <2>3, <1>2, <1>4, <1>6, <1>10 DEF mm_malloc
  <2>6. n = PlaceIn(e, asize)
    BY <2>1, <2>4, <1>2, <1>5, <1>7, <1>10 DEF mm_malloc
  <2>7. e.ret = d.ret /\ SameTags(d.heap, e.heap)
    BY <2>2, <2>3, <2>4, SameExtend
  <2>8. CASE d.ret = NULL
    BY <2>5, <2>6, <2>7, <2>8, <1>6, <1>7 DEF PlaceIn
  <2>9. CASE d.ret # NULL
    <3>1. ExtendedBy(h, d, 4 * words)
      BY <2>2, <2>3, <1>1, ExtendHeap
    <3>2. /\ d.heap \in Heaps /\ Shape(d.heap) /\ d.ret \in d.heap.blks
          /\ BlockSize(d.heap, d.ret) >= 4 * words
      BY <3>1, <2>9 DEF ExtendedBy, FreeBlock
    <3>3. BlockSize(d.heap, d.ret) \in Nat
      BY <3>2, BlockFacts
    <3>4. asize <= BlockSize(d.heap, d.ret)
      BY <3>2, <3>3, <2>2, <1>3
    <3>5. SameTags(place(d.heap, d.ret, asize), place(e.heap, d.ret, asize))
      BY <3>2, <3>4, <2>7, <1>3, SamePlace
    <3> QED BY <3>5, <2>5, <2>6, <2>7, <2>9, <1>6, <1>7 DEF PlaceIn
  <2> QED BY <2>8, <2>9
<1> QED BY <1>8, <1>9, <1>10

(* mm_free leaves the same tags.                                           *)
LEMMA SameFree ==
  ASSUME NEW h, NEW g, SameTags(h, g), Shape(h), CoalescedOK(h),
         NEW ptr, AllocBlock(h, ptr)
  PROVE  SameTags(mm_free(h, ptr), mm_free(g, ptr))
<1>1. h \in Heaps /\ g \in Heaps /\ ptr \in h.blks
  BY DEF SameTags, Alike, AllocBlock
<1>2. PICK s : s = BlockSize(h, ptr)
  OBVIOUS
<1>3. ptr \in Int /\ ptr - 4 \in WordAddrs /\ s \in Int /\ s % 8 = 0
  BY <1>1, <1>2, BlockFacts
<1>4. s = BlockSize(g, ptr)
  BY <1>1, <1>2, SameBlocks
<1>5. PICK h1 : h1 = PutTags(h, ptr, s, 0)
  OBVIOUS
<1>6. PICK g1 : g1 = PutTags(g, ptr, s, 0)
  OBVIOUS
<1>7. PICK W : W = Edges(h)
  OBVIOUS
<1>8. Alike(h1, g1, W \cup {ptr - 4, ptr + s - 8})
  BY <1>3, <1>5, <1>6, <1>7, AlikePutTags DEF SameTags
<1>9. TagsPut(h, h1, ptr, s, 0)
  BY <1>1, <1>3, <1>5, PutTagsFields
<1>10. Edges(h1) = W
  BY <1>7, <1>9 DEF Edges, TagsPut
<1>11. SameTags(h1, g1)
  BY <1>8, <1>10, AlikeFewer DEF SameTags
<1>12. Shape(h1) /\ FreeBlock(h1, ptr) /\ ptr \in h1.blks
  BY <1>1, <1>2, <1>5, FreeRetags
<1>13. SameTags(coalesce(h1, ptr).heap, coalesce(g1, ptr).heap)
  BY <1>11, <1>12, SameCoalesce
<1> QED BY <1>2, <1>4, <1>5, <1>6, <1>13 DEF mm_free, BlockSize

(* Writing into the payload of an allocated block leaves the tags alone.   *)
LEMMA SameWritten ==
  ASSUME NEW h \in Heaps, Shape(h), NEW p, AllocBlock(h, p),
         NEW n \in Nat, n + 8 <= BlockSize(h, p), NEW k, Wrote(h, k, p, n)
  PROVE  SameTags(h, k)
<1>1. p \in h.blks /\ p \in Nat /\ p >= 16 /\ BlockSize(h, p) \in Nat
  BY BlockFacts DEF AllocBlock
<1>2. ASSUME NEW w \in WordAddrs, w \in Edges(h) PROVE k.mem[w] = h.mem[w]
  <2>1. w \in Nat
    BY DEF WordAddrs
  <2>2. CASE w = 4
    <3>1. ~(p <= w /\ w < p + n)
      BY <2>1, <2>2, <1>1
    <3> QED BY <3>1 DEF Wrote
  <2>3. ASSUME NEW y \in h.blks \cup {h.brk}, w = y - 4 \/ w = y - 8
        PROVE  k.mem[w] = h.mem[w]
    <3>1. ~(p <= w /\ w < p + BlockSize(h, p) - 8)
      BY <2>3, <1>1, EdgesOutside
    <3>2. ~(p <= w /\ w < p + n)
      BY <3>1, <2>1, <1>1
    <3> QED BY <3>2 DEF Wrote
  <2> QED BY <2>2, <2>3, <1>2 DEF Edges
<1> QED BY <1>2 DEF SameTags, Alike, Wrote

(* What mm_realloc answers on two heaps with the same tags: the same       *)
(* pointer, and heaps with the same tags, unless place has left a gap.     *)
SameAnswer(r, q) ==
  /\ q.ret = r.ret
  /\ q.heap.brk = r.heap.brk /\ q.heap.gaps = r.heap.gaps
  /\ r.ret = NULL \/ r.heap.gaps = {} => SameTags(r.heap, q.heap)

(* mm_realloc answers the same on both, whatever it copies from behind the *)
(* old payload.                                                            *)
LEMMA SameRealloc ==
  ASSUME NEW h, NEW g, SameTags(h, g), Shape(h), CoalescedOK(h), h.gaps = {},
         NEW ptr, AllocBlock(h, ptr), NEW size \in Nat, NEW junk \in Int, NEW junk2 \in Int
  PROVE  SameAnswer(mm_realloc(h, ptr, size, junk), mm_realloc(g, ptr, size, junk2))
<1>1. /\ h \in Heaps /\ g \in Heaps /\ g.gaps = {}
      /\ Shape(g) /\ CoalescedOK(g) /\ AllocBlock(g, ptr)
  BY SameShape, SameBlocks DEF SameTags, Alike
<1>2. PICK m : m = mm_malloc(h, size)
  OBVIOUS
<1>3. PICK n : n = mm_malloc(g, size)
  OBVIOUS
<1>4. PICK r : r = mm_realloc(h, ptr, size, junk)
  OBVIOUS
<1>5. PICK q : q = mm_realloc(g, ptr, size, junk2)
  OBVIOUS
<1>6. n.ret = m.ret /\ SameTags(m.heap, n.heap)
  BY <1>2, <1>3, SameMalloc
<1>7. AnswersAfter(m, r, ptr, size)
  BY <1>1, <1>2, <1>4, ReallocSteps
<1>8. AnswersAfter(n, q, ptr, size)
  BY <1>1, <1>3, <1>5, ReallocSteps
<1>9. n.heap.brk = m.heap.brk /\ n.heap.gaps = m.heap.gaps
  BY <1>6 DEF SameTags, Alike
<1>10. CASE m.ret = NULL
  <2>1. r = m /\ q = n
    BY <1>6, <1>7, <1>8, <1>10 DEF AnswersAfter
  <2>2. SameAnswer(r, q)
    BY <2>1, <1>6, <1>9 DEF SameAnswer
  <2> QED BY <2>2, <1>4, <1>5
<1>11. CASE m.ret # NULL
  <2>1. PICK c, k : CopiedThenFreed(m, ptr, size, c, k) /\ r = [heap |-> k, ret |-> m.ret]
    BY <1>7, <1>11 DEF AnswersAfter
  <2>2. PICK d, l : CopiedThenFreed(n, ptr, size, d, l) /\ q = [heap |-> l, ret |-> n.ret]
    BY <1>6, <1>8, <1>11 DEF AnswersAfter
  <2>3. PICK a : a = m.heap
    OBVIOUS
  <2>4. PICK b : b = n.heap
    OBVIOUS
  <2>5. PICK p : p = m.ret
    OBVIOUS
  <2>6. /\ Wrote(a, c, p, size) /\ k = mm_free(c, ptr)
        /\ k.brk = a.brk /\ k.gaps = a.gaps
    BY <2>1, <2>3, <2>5 DEF CopiedThenFreed, Copied
  <2>7. /\ Wrote(b, d, p, size) /\ l = mm_free(d, ptr)
        /\ l.brk = b.brk /\ l.gaps = b.gaps
    BY <2>2, <2>4, <2>5, <1>6 DEF CopiedThenFreed, Copied
  <2>8. SameTags(a, b) /\ b.brk = a.brk /\ b.gaps = a.gaps
    BY <2>3, <2>4, <1>6, <1>9
  <2>9. ASSUME a.gaps = {} PROVE SameTags(k, l)
    <3>1. /\ a \in Heaps /\ Shape(a) /\ CoalescedOK(a)
          /\ AllocBlock(a, p) /\ BlockSize(a, p) >= size + 8 /\ AllocBlock(a, ptr)
          /\ p \in Nat
      <4>1. Granted(h, m, size)
        BY <1>1, <1>2, MallocWorks
      <4> QED BY <4>1, <2>3, <2>5, <2>9, <1>11 DEF Granted
    <3>2. b \in Heaps /\ Shape(b) /\ AllocBlock(b, p) /\ BlockSize(b, p) = BlockSize(a, p)
      <4>1. b \in Heaps /\ p \in a.blks
        BY <3>1, <2>8 DEF SameTags, Alike, AllocBlock
      <4> QED BY <4>1, <3>1, <2>8, SameShape, SameBlocks
    <3>3. size + 8 <= BlockSize(a, p)
      <4>1. BlockSize(a, p) \in Nat
        BY <3>1, BlockFacts DEF AllocBlock
      <4> QED BY <4>1, <3>1
    <3>4. SameTags(a, c)
      BY <3>1, <3>3, <2>6, SameWritten
    <3>5. SameTags(b, d)
      BY <3>2, <3>3, <2>7, SameWritten
    <3>6. SameTags(c, d)
      <4>1. SameTags(c, a)
        BY <3>4, SameTagsSym
      <4>2. SameTags(c, b)
        BY <4>1, <2>8, SameTagsTrans
      <4> QED BY <4>2, <3>5, SameTagsTrans
    <3>7. Shape(c) /\ CoalescedOK(c) /\ AllocBlock(c, ptr)
      BY <3>1, <3>4, SameShape, SameBlocks
    <3> QED BY <3>6, <3>7, <2>6, <2>7, SameFree
  <2>10. r.heap = k /\ q.heap = l /\ r.ret = p /\ q.ret = p
    BY <2>1, <2>2, <2>5, <1>6
  <2>11. p # NULL
    BY <2>5, <1>11
  <2>12. SameAnswer(r, q)
    BY <2>6, <2>7, <2>8, <2>9, <2>10, <2>11 DEF SameAnswer
  <2> QED BY <2>12, <1>4, <1>5
<1> QED BY <1>10, <1>11

-----------------------------------------------------------------------------
(* The first m + 1 pointers of the walk of find_fit.                       *)
WalkUpTo(h, m, g) ==
    g = [n \in 0 .. m |-> IF n = 0 THEN NEXT_BLKP(h, heap_listp)
                                   ELSE NEXT_BLKP(h, g[n - 1])]

(* The walk can be followed any number of steps.                           *)
LEMMA WalkGoesOn ==
  ASSUME NEW h, NEW m \in Nat
  PROVE  \E g : WalkUpTo(h, m, g)
<1>1. PICK C : C = {k \in Nat : ~ \E g : WalkUpTo(h, k, g)}
  OBVIOUS
<1>2. CASE C = {}
  BY <1>1, <1>2
<1>3. CASE C # {}
  <2>1. C \in SUBSET Nat
    BY <1>1
  <2>2. PICK k \in C : \A y \in C : k <= y
    BY <1>3, <2>1, NatMinimum
  <2>3. k \in Nat /\ ~ \E g : WalkUpTo(h, k, g)
    BY <1>1, <2>2
  <2>4. CASE k = 0
    <3>1. PICK g : g = [n \in 0 .. 0 |-> NEXT_BLKP(h, heap_listp)]
      OBVIOUS
    <3>2. WalkUpTo(h, 0, g)
      BY <3>1 DEF WalkUpTo
    <3> QED BY <2>3, <2>4, <3>2
  <2>5. CASE k # 0
    <3>1. k - 1 \in Nat /\ k - 1 \notin C
      BY <2>2, <2>3, <2>5
    <3>2. PICK g : WalkUpTo(h, k - 1, g)
      BY <1>1, <3>1
    <3>3. PICK f : f = [n \in 0 .. k |-> IF n = 0 THEN NEXT_BLKP(h, heap_listp)
                                                  ELSE NEXT_BLKP(h, g[n - 1])]
      OBVIOUS
    <3>4. \A n \in 0 .. k - 1 : f[n] = g[n]
      BY <2>3, <3>1, <3>2, <3>3 DEF WalkUpTo
    <3>5. \A n \in 0 .. k : n # 0 => f[n - 1] = g[n - 1]
      BY <2>3, <3>4
    <3>6. WalkUpTo(h, k, f)
      BY <3>3, <3>5 DEF WalkUpTo
    <3> QED BY <2>3, <3>6
  <2> QED BY <2>4, <2>5
<1> QED BY <1>2, <1>3

(* Two walks agree as far as both go.                                      *)
LEMMA WalksAgree ==
  ASSUME NEW h, NEW m \in Nat, NEW k \in Nat, NEW f, NEW g,
         WalkUpTo(h, m, f), WalkUpTo(h, k, g), NEW n \in Nat, n <= m, n <= k
  PROVE  f[n] = g[n]
<1>1. PICK C : C = {i \in Nat : i <= m /\ i <= k /\ f[i] # g[i]}
  OBVIOUS
<1>2. CASE C = {}
  BY <1>1, <1>2
<1>3. CASE C # {}
  <2>1. C \in SUBSET Nat
    BY <1>1
  <2>2. PICK i \in C : \A y \in C : i <= y
    BY <1>3, <2>1, NatMinimum
  <2>3. i \in 0 .. m /\ i \in 0 .. k /\ f[i] # g[i]
    BY <1>1, <2>2
  <2>4. i = 0 => f[i] = g[i]
    BY <2>3 DEF WalkUpTo
  <2>5. i # 0 => i - 1 \in Nat /\ i - 1 \notin C /\ i - 1 <= m /\ i - 1 <= k
    BY <2>2, <2>3
  <2>6. i # 0 => f[i - 1] = g[i - 1]
    BY <1>1, <2>5
  <2>7. /\ i # 0 => f[i] = NEXT_BLKP(h, f[i - 1])
        /\ i # 0 => g[i] = NEXT_BLKP(h, g[i - 1])
    BY <2>3 DEF WalkUpTo
  <2> QED BY <2>3, <2>4, <2>6, <2>7
<1> QED BY <1>2, <1>3

(* Visited is the walk: the function its definition asks for exists.       *)
LEMMA VisitedIs ==
  ASSUME NEW h
  PROVE  /\ Visited(h)[0] = NEXT_BLKP(h, heap_listp)
         /\ \A n \in Nat : Visited(h)[n + 1] = NEXT_BLKP(h, Visited(h)[n])
<1> DEFINE W(f) == f = [n \in Nat |-> IF n = 0 THEN NEXT_BLKP(h, heap_listp)
                                             ELSE NEXT_BLKP(h, f[n - 1])]
<1>1. PICK gs : gs = [m \in Nat |-> CHOOSE g : WalkUpTo(h, m, g)]
  OBVIOUS
<1>2. \A m \in Nat : WalkUpTo(h, m, gs[m])
  BY <1>1, WalkGoesOn
<1>3. PICK f : f = [m \in Nat |-> gs[m][m]]
  OBVIOUS
<1>4. f[0] = NEXT_BLKP(h, heap_listp)
  <2>1. WalkUpTo(h, 0, gs[0])
    BY <1>2
  <2> QED BY <2>1, <1>3 DEF WalkUpTo
<1>5. ASSUME NEW n \in Nat, n # 0
      PROVE  f[n] = NEXT_BLKP(h, f[n - 1])
  <2>1. PICK m \in Nat : m = n - 1 /\ m <= n /\ m <= m
    BY <1>5
  <2>2. WalkUpTo(h, n, gs[n]) /\ WalkUpTo(h, m, gs[m])
    BY <1>2, <2>1
  <2>3. gs[n][m] = gs[m][m]
    <3>1. PICK a, b : a = gs[n] /\ b = gs[m]
      OBVIOUS
    <3>2. WalkUpTo(h, n, a) /\ WalkUpTo(h, m, b)
      BY <2>2, <3>1
    <3>3. a[m] = b[m]
      BY <2>1, <3>2, WalksAgree
    <3> QED BY <3>1, <3>3
  <2>4. gs[n][n] = NEXT_BLKP(h, gs[n][m])
    BY <2>1, <2>2, <1>5 DEF WalkUpTo
  <2> QED BY <1>3, <2>1, <2>3, <2>4
<1>6. W(f)
  BY <1>3, <1>4, <1>5
<1>7. W(CHOOSE g : W(g))
  BY <1>6
<1>8. Visited(h) = CHOOSE g : W(g)
  BY DEF Visited
<1>9. W(Visited(h))
  BY <1>7, <1>8
<1> HIDE DEF W
<1>10. PICK v : v = Visited(h)
  OBVIOUS
<1>11. v = [n \in Nat |-> IF n = 0 THEN NEXT_BLKP(h, heap_listp)
                                   ELSE NEXT_BLKP(h, v[n - 1])]
  BY <1>9, <1>10 DEF W
<1>12. v[0] = NEXT_BLKP(h, heap_listp)
  BY <1>11
<1>13. ASSUME NEW n \in Nat
       PROVE  v[n + 1] = NEXT_BLKP(h, v[n])
  <2>1. n + 1 \in Nat /\ n + 1 # 0 /\ (n + 1) - 1 = n
    OBVIOUS
  <2> QED BY <1>11, <2>1
<1> QED BY <1>10, <1>12, <1>13

-----------------------------------------------------------------------------
(* The walk starts at the first block, goes from a block to the next, and  *)
(* stays at the break once it is there.                                    *)
IsWalk(h, v) ==
    /\ v[0] = 16
    /\ \A n \in Nat : /\ v[n] \in h.blks => v[n + 1] = v[n] + BlockSize(h, v[n])
                      /\ v[n] = h.brk => v[n + 1] = h.brk

(* The size at the break is 0, that of a block is not.                     *)
LEMMA EpilogueFacts ==
  ASSUME NEW h \in Heaps, Shape(h)
  PROVE  /\ AtEpilogue(h, h.brk)
         /\ \A b \in h.blks : ~AtEpilogue(h, b) /\ b # h.brk
         /\ h.brk \in Nat /\ h.brk <= MAX_HEAP /\ 16 \in h.blks \cup {h.brk}
<1>1. /\ h.mem[h.brk - 4] = PACK(0, 1) /\ h.brk \in 16 .. MAX_HEAP
      /\ 16 \in h.blks \cup {h.brk}
  BY DEF Shape, EndsOK, TilingOK, HDRP, FirstBlock, heap_listp, WSIZE, DSIZE
<1>2. AtEpilogue(h, h.brk)
  BY <1>1, PackUnpack DEF AtEpilogue, GET_SIZE, HDRP, WSIZE
<1>3. \A b \in h.blks : BlockSize(h, b) >= 16 /\ b + BlockSize(h, b) <= h.brk /\ b \in Nat
                         /\ BlockSize(h, b) \in Nat
  BY BlockFacts
<1>4. \A b \in h.blks : ~AtEpilogue(h, b) /\ b # h.brk
  BY <1>1, <1>3 DEF AtEpilogue, BlockSize
<1> QED BY <1>1, <1>2, <1>4, MaxHeapAssumption

(* The walk of the code is such a sequence.                                 *)
LEMMA WalkFollows ==
  ASSUME NEW h \in Heaps, Shape(h)
  PROVE  IsWalk(h, Visited(h))
<1>1. PICK v : v = Visited(h)
  OBVIOUS
<1>2. v[0] = NEXT_BLKP(h, heap_listp) /\ \A n \in Nat : v[n + 1] = NEXT_BLKP(h, v[n])
  BY <1>1, VisitedIs
<1>3. h.mem[4] = PACK(8, 1)
  BY DEF Shape, EndsOK, HDRP, heap_listp, WSIZE, DSIZE
<1>4. NEXT_BLKP(h, heap_listp) = 16
  <2>1. h.mem[4] - (h.mem[4] % 8) = 8
    BY <1>3 DEF PACK
  <2>2. NEXT_BLKP(h, heap_listp) = 8 + (h.mem[4] - (h.mem[4] % 8))
    BY DEF NEXT_BLKP, GET_SIZE, HDRP, heap_listp, WSIZE
  <2> QED BY <2>1, <2>2
<1>5. \A b : NEXT_BLKP(h, b) = b + BlockSize(h, b)
  BY DEF NEXT_BLKP, BlockSize
<1>6. BlockSize(h, h.brk) = 0 /\ h.brk \in Nat
  BY EpilogueFacts DEF AtEpilogue, BlockSize
<1>7. h.brk + BlockSize(h, h.brk) = h.brk
  BY <1>6
<1>8. IsWalk(h, v)
  BY <1>2, <1>4, <1>5, <1>7 DEF IsWalk
<1> QED BY <1>1, <1>8

(* Each step of the walk is at a block or at the break, 16 bytes further   *)
(* than the one before it as long as it has not reached the break.         *)
LEMMA WalkStays ==
  ASSUME NEW h \in Heaps, Shape(h), NEW v, IsWalk(h, v), NEW n \in Nat
  PROVE  v[n] = h.brk \/ (v[n] \in h.blks /\ v[n] >= 16 + 16 * n)
<1> DEFINE P(i) == v[i] = h.brk \/ (v[i] \in h.blks /\ v[i] >= 16 + 16 * i)
<1>1. PICK C : C = {i \in Nat : ~P(i)}
  OBVIOUS
<1>2. CASE C = {}
  BY <1>1, <1>2
<1>3. CASE C # {}
  <2>1. C \in SUBSET Nat
    BY <1>1
  <2>2. PICK i \in C : \A y \in C : i <= y
    BY <1>3, <2>1, NatMinimum
  <2>3. i \in Nat /\ ~P(i)
    BY <1>1, <2>2
  <2>4. CASE i = 0
    <3>1. v[0] = 16 /\ 16 \in h.blks \cup {h.brk}
      BY EpilogueFacts DEF IsWalk
    <3>2. P(0)
      BY <3>1
    <3> QED BY <3>2, <2>3, <2>4
  <2>5. CASE i # 0
    <3>1. PICK j \in Nat : i = j + 1 /\ j \notin C
      <4>1. i - 1 \in Nat /\ i - 1 \notin C /\ i = (i - 1) + 1
        BY <2>2, <2>3, <2>5
      <4> QED BY <4>1
    <3>2. P(j)
      BY <1>1, <3>1
    <3>3. CASE v[j] = h.brk
      <4>1. v[j + 1] = h.brk
        BY <3>3 DEF IsWalk
      <4> QED BY <4>1, <3>1, <2>3
    <3>4. CASE v[j] \in h.blks /\ v[j] >= 16 + 16 * j
      <4>1. PICK b \in h.blks : b = v[j]
        BY <3>4
      <4>2. v[i] = b + BlockSize(h, b)
        BY <4>1, <3>1 DEF IsWalk
      <4>3. /\ b \in Nat /\ BlockSize(h, b) \in Nat /\ BlockSize(h, b) >= 16
            /\ b + BlockSize(h, b) \in h.blks \cup {h.brk}
        BY BlockFacts
      <4>4. b + BlockSize(h, b) >= 16 + 16 * i
        BY <4>1, <4>3, <3>1, <3>4
      <4>5. P(i)
        BY <4>2, <4>3, <4>4
      <4> QED BY <4>5, <2>3
    <3> QED BY <3>2, <3>3, <3>4
  <2> QED BY <2>4, <2>5
<1> QED BY <1>2, <1>3

(* A walk that leaves a pointer behind meets every block up to there: no   *)
(* block is skipped.                                                       *)
LEMMA WalkSkipsNone ==
  ASSUME NEW h \in Heaps, Shape(h), NEW v, IsWalk(h, v),
         NEW n \in Nat, NEW b \in h.blks, b < v[n]
  PROVE  \E k \in Nat : k < n /\ v[k] = b
<1>1. PICK C : C = {i \in Nat : i <= n /\ b < v[i]}
  OBVIOUS
<1>2. C \in SUBSET Nat /\ C # {}
  BY <1>1
<1>3. PICK i \in C : \A y \in C : i <= y
  BY <1>2, NatMinimum
<1>4. i \in Nat /\ i <= n /\ b < v[i]
  BY <1>1, <1>3
<1>5. b \in Nat /\ b >= 16
  BY BlockFacts
<1>6. i # 0
  BY <1>4, <1>5 DEF IsWalk
<1>7. PICK j \in Nat : i = j + 1 /\ j \notin C /\ j <= n /\ j < n
  <2>1. i - 1 \in Nat /\ i - 1 \notin C /\ i = (i - 1) + 1 /\ i - 1 < n /\ i - 1 <= n
    BY <1>3, <1>4, <1>6
  <2> QED BY <2>1
<1>8. ~(b < v[j])
  BY <1>1, <1>7
<1>9. v[j] = h.brk \/ v[j] \in h.blks
  BY WalkStays
<1>10. CASE v[j] = h.brk
  <2>1. b + BlockSize(h, b) <= h.brk /\ BlockSize(h, b) \in Nat /\ BlockSize(h, b) >= 16
        /\ h.brk \in Nat
    BY BlockFacts
  <2>2. b < h.brk
    BY <2>1, <1>5
  <2> QED BY <2>2, <1>8, <1>10
<1>11. CASE v[j] \in h.blks
  <2>1. PICK c \in h.blks : c = v[j]
    BY <1>11
  <2>2. c \in Nat /\ BlockSize(h, c) \in Nat
    BY BlockFacts
  <2>3. CASE c < b
    <3>1. c + BlockSize(h, c) <= b
      BY <2>3, OrderFacts
    <3>2. v[i] = c + BlockSize(h, c)
      BY <2>1, <1>7 DEF IsWalk
    <3> QED BY <3>1, <3>2, <2>2, <1>4, <1>5
  <2>4. CASE c = b
    BY <2>1, <2>4, <1>7
  <2>5. ~(b < c)
    BY <2>1, <1>8
  <2> QED BY <2>2, <2>3, <2>4, <2>5, <1>5
<1> QED BY <1>9, <1>10, <1>11

(* The bound on the steps is one: by then the walk is at the break.        *)
LEMMA WalkArrives ==
  ASSUME NEW h \in Heaps, Shape(h), NEW v, IsWalk(h, v)
  PROVE  /\ MostBlocks \in Nat /\ v[MostBlocks] = h.brk
         /\ \A n \in Nat : v[n] \in h.blks => n < MostBlocks
<1>1. PICK M : M = MAX_HEAP
  OBVIOUS
<1>2. M \in Nat
  BY <1>1, MaxHeapAssumption
<1>3. MostBlocks = M \div 16
  BY <1>1 DEF MostBlocks, DSIZE
<1>4. MostBlocks \in Nat /\ M < 16 + 16 * MostBlocks
  BY <1>2, <1>3
<1>5. \A b \in h.blks : b \in Nat /\ b + 16 <= h.brk /\ h.brk <= M
  <2>1. \A b \in h.blks : /\ b \in Nat /\ BlockSize(h, b) \in Nat /\ h.brk \in Nat
                           /\ BlockSize(h, b) >= 16 /\ b + BlockSize(h, b) <= h.brk
                           /\ h.brk <= M
    BY <1>1, BlockFacts
  <2> QED BY <2>1
<1>6. ASSUME NEW n \in Nat, v[n] \in h.blks
      PROVE  n < MostBlocks
  <2>1. v[n] >= 16 + 16 * n
    <3>1. v[n] # h.brk
      BY <1>6, EpilogueFacts
    <3> QED BY <3>1, WalkStays
  <2>2. v[n] + 16 <= M /\ v[n] \in Nat
    <3>1. h.brk \in Nat
      BY EpilogueFacts
    <3> QED BY <1>2, <1>5, <1>6, <3>1
  <2>3. 32 + 16 * n <= M
    BY <1>2, <2>1, <2>2
  <2> QED BY <1>2, <1>4, <2>3
<1>7. v[MostBlocks] = h.brk
  BY <1>4, <1>6, WalkStays
<1> QED BY <1>4, <1>6, <1>7

(* The walk visits the blocks of the auxiliary variable.                   *)
LEMMA WalkIsBlocks ==
  ASSUME NEW h \in Heaps, Shape(h)
  PROVE  Walk(h) = h.blks
<1>1. PICK v : v = Visited(h)
  OBVIOUS
<1>2. IsWalk(h, v)
  BY <1>1, WalkFollows
<1>3. /\ MostBlocks \in Nat /\ v[MostBlocks] = h.brk
      /\ \A n \in Nat : v[n] \in h.blks => n < MostBlocks
  BY <1>2, WalkArrives
<1>4. ASSUME NEW b, b \in Walk(h)
      PROVE  b \in h.blks
  <2>1. PICK n \in 0 .. MostBlocks : b = v[n] /\ ~AtEpilogue(h, b)
    BY <1>1, <1>4 DEF Walk
  <2>2. v[n] = h.brk \/ v[n] \in h.blks
    BY <1>2, <1>3, WalkStays
  <2> QED BY <2>1, <2>2, EpilogueFacts
<1>5. ASSUME NEW b \in h.blks
      PROVE  b \in Walk(h)
  <2>1. b < v[MostBlocks]
    <3>1. /\ b \in Nat /\ BlockSize(h, b) \in Nat /\ BlockSize(h, b) >= 16
          /\ b + BlockSize(h, b) <= h.brk /\ h.brk \in Nat
      BY BlockFacts
    <3>2. b < h.brk
      BY <3>1
    <3> QED BY <3>2, <1>3
  <2>2. PICK k \in Nat : k < MostBlocks /\ v[k] = b
    BY <1>2, <1>3, <2>1, WalkSkipsNone
  <2>3. k \in 0 .. MostBlocks /\ ~AtEpilogue(h, b)
    BY <1>3, <2>2, EpilogueFacts
  <2> QED BY <1>1, <2>2, <2>3 DEF Walk
<1> QED BY <1>4, <1>5

(* Where the walk stops is the lowest block that fits, or the epilogue if  *)
(* none does.                                                              *)
LEMMA WalkFitIs ==
  ASSUME NEW h \in Heaps, Shape(h), NEW asize \in Nat
  PROVE  WalkFit(h, asize) = find_fit(h, asize)
<1>1. PICK v : v = Visited(h)
  OBVIOUS
<1>2. IsWalk(h, v)
  BY <1>1, WalkFollows
<1>3. /\ MostBlocks \in Nat /\ v[MostBlocks] = h.brk
      /\ \A n \in Nat : v[n] \in h.blks => n < MostBlocks
  BY <1>2, WalkArrives
<1>4. PICK S : S = Stops(h, asize)
  OBVIOUS
<1>5. \A n : n \in S <=> /\ n \in 0 .. MostBlocks
                         /\ AtEpilogue(h, v[n]) \/ FitsAt(h, v[n], asize)
  BY <1>1, <1>4 DEF Stops
<1>6. MostBlocks \in S
  <2>1. AtEpilogue(h, v[MostBlocks])
    BY <1>3, EpilogueFacts
  <2> QED BY <1>3, <1>5, <2>1
<1>7. S \in SUBSET Nat
  BY <1>3, <1>5
<1>8. \E n \in S : \A k \in S : n <= k
  BY <1>6, <1>7, NatMinimum
<1>9. PICK n : n = CHOOSE m \in S : \A k \in S : m <= k
  OBVIOUS
<1>10. n \in S /\ \A k \in S : n <= k
  BY <1>8, <1>9
<1>11. n \in Nat /\ n <= MostBlocks
  BY <1>3, <1>5, <1>10
<1>12. WalkFit(h, asize) = IF AtEpilogue(h, v[n]) THEN NULL ELSE v[n]
  BY <1>1, <1>4, <1>9 DEF WalkFit
<1>13. PICK F : F = Fits(h, asize)
  OBVIOUS
<1>14. \A b : b \in F <=> b \in h.blks /\ FitsAt(h, b, asize)
  BY <1>13 DEF Fits, FitsAt
<1>15. \A b \in h.blks : b \in Nat
  BY BlockFacts
<1>16. v[n] = h.brk \/ v[n] \in h.blks
  BY <1>2, <1>11, WalkStays
<1>17. ASSUME NEW b \in F
       PROVE  ~(b < v[n])
  <2>1. SUFFICES ASSUME b < v[n] PROVE FALSE
    OBVIOUS
  <2>2. b \in h.blks /\ FitsAt(h, b, asize)
    BY <1>14
  <2>3. PICK k \in Nat : k < n /\ v[k] = b
    BY <1>2, <1>11, <2>1, <2>2, WalkSkipsNone
  <2>4. k \in S
    BY <1>3, <1>5, <1>11, <2>2, <2>3
  <2> QED BY <1>10, <1>11, <2>3, <2>4
<1>18. v[n] \in h.blks => v[n] \in F
  BY <1>5, <1>10, <1>14, EpilogueFacts
<1>19. CASE F = {}
  <2>1. v[n] = h.brk
    BY <1>16, <1>18, <1>19
  <2> QED BY <1>12, <1>13, <1>19, <2>1, EpilogueFacts DEF find_fit
<1>20. CASE F # {}
  <2>1. v[n] \in F
    <3>1. PICK b \in F : TRUE
      BY <1>20
    <3>2. b \in h.blks /\ b \in Nat /\ BlockSize(h, b) \in Nat /\ BlockSize(h, b) >= 16
          /\ b + BlockSize(h, b) <= h.brk /\ h.brk \in Nat
      BY <1>14, <3>1, BlockFacts
    <3>3. b < h.brk
      BY <3>2
    <3> QED BY <3>1, <3>3, <1>16, <1>17, <1>18
  <2>2. \A b \in F : v[n] <= b
    BY <1>14, <1>15, <1>17, <2>1
  <2>3. \A b \in F : b <= v[n] => b = v[n]
    BY <1>14, <1>15, <2>1, <2>2
  <2>4. (CHOOSE b \in F : \A c \in F : b <= c) = v[n]
    BY <2>1, <2>2, <2>3
  <2>5. find_fit(h, asize) = v[n]
    BY <1>13, <1>20, <2>4 DEF find_fit
  <2>6. ~AtEpilogue(h, v[n])
    BY <1>14, <2>1, EpilogueFacts
  <2> QED BY <1>12, <2>5, <2>6
<1> QED BY <1>19, <1>20

=============================================================================
