------------------------------ MODULE RangeList ------------------------------
(***************************************************************************)
(* The range list of mdriver.c: the extents of the payloads the driver     *)
(* believes allocated, against which it checks each new payload.  The code *)
(* keeps a linked list; nothing depends on its order, and no two ranges of *)
(* a list begin at the same address (add_range would have refused the      *)
(* second), so a set of [lo, hi] records stands for it.                    *)
(***************************************************************************)
EXTENDS Integers

ALIGNMENT == 8

RangeOf(lo, size) == [lo |-> lo, hi |-> lo + size - 1]

InRange(addr, r) == r.lo <= addr /\ addr <= r.hi

IsAligned(addr) == addr % ALIGNMENT = 0

InHeap(r, heapLo, heapHi) ==
    /\ heapLo <= r.lo /\ r.lo <= heapHi
    /\ heapLo <= r.hi /\ r.hi <= heapHi

(* Mutant of EndsInside: only the first byte is looked at.                 *)
FirstByteInside(r, ranges) == \E p \in ranges : InRange(r.lo, p)

(* The overlap test looks at the two ends of the new range, and only asks  *)
(* whether they lie in an old one.                                         *)
EndsInside(r, ranges) == \E p \in ranges : InRange(r.lo, p) \/ InRange(r.hi, p)

(* add_range answers 1 and inserts the range when this holds; when it does *)
(* not, it counts an error and answers 0.                                  *)
CanAddRange(ranges, heapLo, heapHi, r) ==
    /\ IsAligned(r.lo)
    /\ InHeap(r, heapLo, heapHi)
    /\ ~EndsInside(r, ranges)

(* Mutants of RemoveRange: the list keeps the range; the list keeps        *)
(* nothing behind it.                                                      *)
RemoveNothing(ranges, lo) == ranges

RemoveTail(ranges, lo) == {p \in ranges : p.lo < lo}

RemoveRange(ranges, lo) == {p \in ranges : p.lo # lo}

=============================================================================
