------------------------------- MODULE MemLib -------------------------------
(***************************************************************************)
(* The simulated memory system of memlib.c: one arena of MAX_HEAP bytes    *)
(* and a break that only mem_reset_brk moves back.                         *)
(*                                                                         *)
(* An address is a byte offset from mem_start_brk, so mem_start_brk is 0   *)
(* and mem_max_addr is MAX_HEAP.  Memory is read and written a 4-byte word *)
(* at a time.  The arena comes from malloc() and mem_reset_brk() does not  *)
(* clear it: what a word holds before it is written is arbitrary.          *)
(*                                                                         *)
(* A heap is a record with (at least) the fields                           *)
(*   mem  the words of the arena,                                          *)
(*   brk  mem_brk.                                                         *)
(***************************************************************************)
EXTENDS Integers

CONSTANT MAX_HEAP    \* bytes in the arena (config.h)

ASSUME MaxHeapAssumption == MAX_HEAP \in Nat

WSIZE == 4

WordAddrs == {a \in 0 .. MAX_HEAP : a % WSIZE = 0 /\ a + WSIZE <= MAX_HEAP}

(* A failed mem_sbrk and a failed malloc both answer an address that no    *)
(* byte of the arena has: all one bits in one case, NULL in the other.      *)
NoAddr == -1

mem_reset_brk(h) == [h EXCEPT !.brk = 0]

mem_sbrk(h, incr) ==
    IF incr < 0 \/ h.brk + incr > MAX_HEAP
      THEN [heap |-> h, ret |-> NoAddr]
      ELSE [heap |-> [h EXCEPT !.brk = @ + incr], ret |-> h.brk]

mem_heap_lo == 0
mem_heap_hi(h) == h.brk - 1
mem_heapsize(h) == h.brk

(* A word whose bytes are all b.  (Three of its four bytes: the value then *)
(* stays in the integers of TLC, and still reads as a size larger than any *)
(* arena the models use unless b is 0.)                                    *)
Fill(b) == 65793 * b

(* Mutant of memset: one word short.                                       *)
memsetShort(h, p, b, n) ==
    [h EXCEPT !.mem = [a \in WordAddrs |->
                          IF p <= a /\ a + WSIZE < p + n THEN Fill(b) ELSE h.mem[a]]]

(* memset(p, b, n) on an aligned p.  A last word only partly inside the    *)
(* region counts as written: nobody looks at the bytes behind it.          *)
memset(h, p, b, n) ==
    [h EXCEPT !.mem = [a \in WordAddrs |->
                          IF p <= a /\ a < p + n THEN Fill(b) ELSE h.mem[a]]]

=============================================================================
