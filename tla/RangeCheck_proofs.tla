-------------------------- MODULE RangeCheck_proofs --------------------------
(***************************************************************************)
(* What the range check of mdriver.c is worth, for any malloc package that *)
(* answers pointers from any set Addrs, any heap, ids and sizes.           *)
(***************************************************************************)
EXTENDS RangeCheck, TLAPS

(* A range that starts and ends outside another one either keeps clear of  *)
(* it or encloses it.                                                      *)
LEMMA EndsDecide ==
    ASSUME NEW r \in [lo : Int, hi : Int], NEW s \in [lo : Int, hi : Int],
           r.lo <= r.hi, ~InRange(r.lo, s), ~InRange(r.hi, s), Overlap(r, s)
    PROVE  Encloses(r, s)
BY DEF InRange, Overlap, Encloses

(* The live payloads are not empty, so that two of them that begin at one  *)
(* address overlap.                                                        *)
LiveSizes == \A i \in live : block_sizes[i] > 0

(* RangesAreLive says which range goes when the first byte of a payload is *)
(* removed only because no other payload begins there, and this is what    *)
(* AcceptedPayloads and LiveSizes give.                                    *)
RInv == TypeOK /\ (~rejected => LiveSizes) /\ RangesAreLive /\ AcceptedPayloads

-----------------------------------------------------------------------------
(* The payload of an id is a range of integers.                            *)
LEMMA PayloadType ==
    ASSUME TypeOK, NEW i \in Ids
    PROVE  /\ PayloadOf(i) \in [lo : Int, hi : Int]
           /\ PayloadOf(i).lo = blocks[i]
           /\ PayloadOf(i).hi = blocks[i] + block_sizes[i] - 1
BY DEF TypeOK, PayloadOf, RangeOf

(* No two live payloads begin at one address.                              *)
LEMMA FirstBytesDiffer ==
    ASSUME RInv, ~rejected, NEW i \in live, NEW j \in live, i # j
    PROVE  blocks[i] # blocks[j]
<1> SUFFICES ASSUME blocks[i] = blocks[j] PROVE FALSE
    OBVIOUS
<1>1. i \in Ids /\ j \in Ids
    BY DEF RInv, TypeOK
<1>2. /\ blocks[i] \in Int
      /\ block_sizes[i] \in Nat /\ block_sizes[i] > 0
      /\ block_sizes[j] \in Nat /\ block_sizes[j] > 0
    BY <1>1 DEF RInv, TypeOK, LiveSizes
<1>3. Overlap(PayloadOf(i), PayloadOf(j))
    BY <1>1, <1>2, PayloadType DEF RInv, Overlap
<1>4. Encloses(PayloadOf(i), PayloadOf(j)) \/ Encloses(PayloadOf(j), PayloadOf(i))
    BY <1>3 DEF RInv, AcceptedPayloads
<1> QED BY <1>1, <1>2, <1>4, PayloadType DEF RInv, Encloses

(* remove_range takes the payload of i off the list and no other.          *)
LEMMA RemovesOne ==
    ASSUME RInv, ~rejected, NEW i \in live
    PROVE  RemoveRange(ranges, blocks[i]) = {PayloadOf(j) : j \in live \ {i}}
<1>1. live \subseteq Ids
    BY DEF RInv, TypeOK
<1>2. \A j \in live : PayloadOf(j).lo = blocks[j]
    BY <1>1, PayloadType DEF RInv
<1>3. \A j \in live : j # i <=> blocks[j] # blocks[i]
    BY FirstBytesDiffer
<1>4. ranges = {PayloadOf(j) : j \in live}
    BY DEF RInv, RangesAreLive
<1> QED BY <1>2, <1>3, <1>4 DEF RemoveRange

-----------------------------------------------------------------------------
(* The check on a list of the payloads of some live ids, and what follows  *)
(* when the new payload is accepted as that of i.                          *)
LEMMA AcceptKeepsInv ==
    ASSUME RInv, ~rejected, NEW i \in Ids, NEW size \in Sizes, NEW p \in Addrs,
           CanAddRange({PayloadOf(j) : j \in live \ {i}}, 0, HeapHi, RangeOf(p, size)),
           ranges' = {PayloadOf(j) : j \in live \ {i}} \cup {RangeOf(p, size)},
           blocks' = [blocks EXCEPT ![i] = p],
           block_sizes' = [block_sizes EXCEPT ![i] = size],
           live' = live \cup {i}, rejected' = rejected
    PROVE  RInv'
<1> DEFINE r == RangeOf(p, size)
<1>1. /\ p \in Int /\ size \in Nat /\ size > 0
      /\ r \in [lo : Int, hi : Int] /\ r.lo = p /\ r.hi = p + size - 1
      /\ r.lo <= r.hi
    BY RangeAssumption DEF RangeOf
<1>2. /\ live \subseteq Ids
      /\ blocks \in [Ids -> Int] /\ block_sizes \in [Ids -> Nat]
    BY DEF RInv, TypeOK
<1>3. /\ PayloadOf(i)' = r
      /\ \A j \in live \ {i} : PayloadOf(j)' = PayloadOf(j)
    BY <1>2 DEF PayloadOf
<1>4. \A j \in live : PayloadOf(j) \in [lo : Int, hi : Int]
    BY <1>2, PayloadType DEF RInv
<1>5. TypeOK'
    BY <1>1, <1>2, <1>4 DEF RInv, TypeOK
<1>6. LiveSizes'
    BY <1>1, <1>2 DEF RInv, LiveSizes
<1>7. \A j \in live \ {i} : ~InRange(r.lo, PayloadOf(j)) /\ ~InRange(r.hi, PayloadOf(j))
    BY DEF CanAddRange, EndsInside
<1>8. \A j \in live \ {i} : Overlap(r, PayloadOf(j)) => Encloses(r, PayloadOf(j))
    BY <1>1, <1>4, <1>7, EndsDecide
<1>9. \A j \in live \ {i} : PayloadOf(j) # r
    BY <1>1, <1>7 DEF InRange
<1>10. RangesAreLive'
    <2>1. live' = (live \ {i}) \cup {i}
        OBVIOUS
    <2>2. ranges' = {PayloadOf(j)' : j \in live'}
        BY <1>3, <2>1
    <2>3. \A j, k \in live' : PayloadOf(j)' = PayloadOf(k)' => j = k
        BY <1>3, <1>9, <2>1 DEF RInv, RangesAreLive
    <2> QED BY <2>2, <2>3 DEF RangesAreLive
<1>11. AcceptedPayloads'
    <2>1. \A j \in live' : blocks'[j] = IF j = i THEN p ELSE blocks[j]
        BY <1>2
    <2>2. /\ IsAligned(p) /\ InHeap(r, 0, HeapHi)
        BY <1>1 DEF CanAddRange
    <2>3. ASSUME NEW j \in live'
          PROVE  IsAligned(blocks'[j]) /\ InHeap(PayloadOf(j)', 0, HeapHi)
        BY <1>3, <2>1, <2>2 DEF RInv, AcceptedPayloads
    <2>4. ASSUME NEW j \in live', NEW k \in live' \ {j}, Overlap(PayloadOf(j)', PayloadOf(k)')
          PROVE  \/ Encloses(PayloadOf(j)', PayloadOf(k)')
                 \/ Encloses(PayloadOf(k)', PayloadOf(j)')
        <3>1. CASE j = i
            BY <1>3, <1>8, <2>4, <3>1
        <3>2. CASE k = i
            <4>1. Overlap(r, PayloadOf(j))
                BY <1>1, <1>3, <1>4, <2>4, <3>2 DEF Overlap
            <4> QED BY <1>3, <1>8, <2>4, <3>2, <4>1
        <3>3. CASE j # i /\ k # i
            BY <1>3, <2>4, <3>3 DEF RInv, AcceptedPayloads
        <3> QED BY <3>1, <3>2, <3>3
    <2> QED BY <2>3, <2>4 DEF AcceptedPayloads
<1> QED BY <1>5, <1>6, <1>10, <1>11 DEF RInv

(* A rejection ends what is claimed: only the types are left to show.      *)
LEMMA RejectKeepsInv ==
    ASSUME RInv, rejected' = TRUE, ranges' \subseteq [lo : Int, hi : Int],
           UNCHANGED <<blocks, block_sizes, live>>
    PROVE  RInv'
BY DEF RInv, TypeOK, RangesAreLive, AcceptedPayloads

(* So is the range of an answer.                                           *)
LEMMA NewRangeType ==
    ASSUME NEW size \in Sizes, NEW p \in Addrs
    PROVE  RangeOf(p, size) \in [lo : Int, hi : Int]
BY RangeAssumption DEF RangeOf

-----------------------------------------------------------------------------
(* Every request keeps the invariant, accepted or not.                     *)
LEMMA AllocKeepsInv ==
    ASSUME RInv, NEW i \in Ids, NEW size \in Sizes, NEW p \in Addrs, Alloc(i, size, p)
    PROVE  RInv'
<1>1. ~rejected /\ i \notin live
    BY DEF Alloc
<1>2. ranges = {PayloadOf(j) : j \in live \ {i}}
    BY <1>1 DEF RInv, RangesAreLive
<1>3. CASE CanAddRange(ranges, 0, HeapHi, RangeOf(p, size))
    BY <1>1, <1>2, <1>3, AcceptKeepsInv DEF Alloc, CheckAndAdd
<1>4. CASE ~CanAddRange(ranges, 0, HeapHi, RangeOf(p, size))
    <2>1. ranges' = ranges /\ rejected' = TRUE /\ UNCHANGED <<blocks, block_sizes, live>>
        BY <1>4 DEF Alloc, CheckAndAdd
    <2> QED BY <2>1, RejectKeepsInv DEF RInv, TypeOK
<1> QED BY <1>3, <1>4

LEMMA ReallocKeepsInv ==
    ASSUME RInv, NEW i \in Ids, NEW size \in Sizes, NEW p \in Addrs, Realloc(i, size, p)
    PROVE  RInv'
<1> DEFINE rest == RemoveRange(ranges, blocks[i])
<1>1. ~rejected /\ i \in live
    BY DEF Realloc
<1>2. rest = {PayloadOf(j) : j \in live \ {i}}
    BY <1>1, RemovesOne
<1>3. CASE CanAddRange(rest, 0, HeapHi, RangeOf(p, size))
    BY <1>1, <1>2, <1>3, AcceptKeepsInv DEF Realloc, CheckAndAdd
<1>4. CASE ~CanAddRange(rest, 0, HeapHi, RangeOf(p, size))
    <2>1. ranges' = rest /\ rejected' = TRUE /\ UNCHANGED <<blocks, block_sizes, live>>
        BY <1>4 DEF Realloc, CheckAndAdd
    <2> QED BY <2>1, RejectKeepsInv DEF RInv, TypeOK, RemoveRange
<1> QED BY <1>3, <1>4

LEMMA DataLostKeepsInv ==
    ASSUME RInv, NEW i \in Ids, NEW size \in Sizes, NEW p \in Addrs, DataLost(i, size, p)
    PROVE  RInv'
<1>1. /\ ranges' = RemoveRange(ranges, blocks[i]) \cup {RangeOf(p, size)}
      /\ rejected' = TRUE /\ UNCHANGED <<blocks, block_sizes, live>>
    BY DEF DataLost
<1>2. ranges' \subseteq [lo : Int, hi : Int]
    BY <1>1, NewRangeType DEF RInv, TypeOK, RemoveRange
<1> QED BY <1>1, <1>2, RejectKeepsInv

LEMMA FreeKeepsInv ==
    ASSUME RInv, NEW i \in Ids, Free(i)
    PROVE  RInv'
<1>1. /\ ~rejected /\ i \in live /\ live' = live \ {i}
      /\ ranges' = RemoveRange(ranges, blocks[i])
      /\ UNCHANGED <<blocks, block_sizes, rejected>>
    BY DEF Free
<1>2. ranges' = {PayloadOf(j) : j \in live'}
    BY <1>1, RemovesOne
<1>3. \A j \in Ids : PayloadOf(j)' = PayloadOf(j)
    BY <1>1 DEF PayloadOf
<1>4. live' \subseteq live /\ live \subseteq Ids
    BY <1>1 DEF RInv, TypeOK
<1>5. TypeOK' /\ LiveSizes'
    BY <1>1, <1>4 DEF RInv, TypeOK, LiveSizes, RemoveRange
<1>6. RangesAreLive'
    <2>1. ranges' = {PayloadOf(j)' : j \in live'}
        BY <1>2, <1>3, <1>4
    <2> QED BY <1>1, <1>3, <1>4, <2>1 DEF RInv, RangesAreLive
<1>7. AcceptedPayloads'
    BY <1>1, <1>3, <1>4 DEF RInv, AcceptedPayloads
<1> QED BY <1>5, <1>6, <1>7 DEF RInv

-----------------------------------------------------------------------------
(* The list is that of the live payloads, which pairwise keep clear of one *)
(* another or enclose one another, in every state of a trace.              *)
THEOREM RangeInvariance == Spec => []RInv
<1>1. Init => RInv
    <2> SUFFICES ASSUME Init PROVE RInv
        OBVIOUS
    <2>1. TypeOK
        <3>1. blocks \in [Ids -> Int] /\ block_sizes \in [Ids -> Nat]
            BY DEF Init
        <3> QED BY <3>1 DEF Init, TypeOK
    <2>2. ranges = {} /\ live = {}
        BY DEF Init
    <2> QED BY <2>1, <2>2 DEF RInv, LiveSizes, RangesAreLive, AcceptedPayloads
<1>2. RInv /\ [Next]_vars => RInv'
    <2> SUFFICES ASSUME RInv, [Next]_vars PROVE RInv'
        OBVIOUS
    <2>1. CASE \E i \in Ids, size \in Sizes, p \in Addrs : Alloc(i, size, p)
        BY <2>1, AllocKeepsInv
    <2>2. CASE \E i \in Ids, size \in Sizes, p \in Addrs : Realloc(i, size, p)
        BY <2>2, ReallocKeepsInv
    <2>3. CASE \E i \in Ids, size \in Sizes, p \in Addrs : DataLost(i, size, p)
        BY <2>3, DataLostKeepsInv
    <2>4. CASE \E i \in Ids : Free(i)
        BY <2>4, FreeKeepsInv
    <2>5. CASE Refused
        BY <2>5, RejectKeepsInv DEF Refused, RInv, TypeOK
    <2>6. CASE UNCHANGED vars
        BY <2>6 DEF vars, RInv, TypeOK, LiveSizes, RangesAreLive, AcceptedPayloads, PayloadOf
    <2> QED BY <2>1, <2>2, <2>3, <2>4, <2>5, <2>6 DEF Next
<1> QED BY <1>1, <1>2, PTL DEF Spec

(* The driver never loses track of the live payloads, whatever pointers it *)
(* is given (mdriver.c, add_range and remove_range).                       *)
THEOREM ListIsExactForAnyPackage == Spec => []RangesAreLive
<1>1. RInv => RangesAreLive
    BY DEF RInv
<1> QED BY <1>1, RangeInvariance, PTL

(* Accepted payloads are aligned, in the heap, and of two that overlap one *)
(* encloses the other: the test of the two ends has no other hole          *)
(* (mdriver.c, add_range).                                                 *)
THEOREM OnlyEnclosuresPass == Spec => []AcceptedPayloads
<1>1. RInv => AcceptedPayloads
    BY DEF RInv
<1> QED BY <1>1, RangeInvariance, PTL

=============================================================================
