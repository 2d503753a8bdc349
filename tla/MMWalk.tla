------------------------------- MODULE MMWalk -------------------------------
(***************************************************************************)
(* The loop of find_fit in mm.c as the code runs it: from the block behind *)
(* the prologue with NEXT_BLKP until a size of 0.  Module MM has its       *)
(* result in closed form over the blocks; EvalValid compares the two.      *)
(***************************************************************************)
EXTENDS MM

(* bp of find_fit after n steps, given that nothing stops the loop.  From  *)
(* the epilogue, whose size is 0, NEXT_BLKP leads nowhere else.            *)
Visited(h) ==
    LET bp[n \in Nat] == IF n = 0 THEN NEXT_BLKP(h, heap_listp)
                                  ELSE NEXT_BLKP(h, bp[n - 1])
    IN  bp

(* No heap has more blocks: a bound on the steps that are looked at.       *)
MostBlocks == MAX_HEAP \div (2 * DSIZE)

AtEpilogue(h, bp) == GET_SIZE(h, HDRP(bp)) = 0

Walk(h) == {bp \in {Visited(h)[n] : n \in 0 .. MostBlocks} : ~AtEpilogue(h, bp)}

FitsAt(h, bp, asize) ==
    GET_ALLOC(h, HDRP(bp)) = 0 /\ asize <= GET_SIZE(h, HDRP(bp))

(* The steps at which the loop would stop; it stops at the first.          *)
Stops(h, asize) ==
    {n \in 0 .. MostBlocks : LET bp == Visited(h)[n]
                             IN  AtEpilogue(h, bp) \/ FitsAt(h, bp, asize)}

(* The pointer find_fit returns.                                           *)
WalkFit(h, asize) ==
    LET last == CHOOSE n \in Stops(h, asize) : \A k \in Stops(h, asize) : n <= k
        bp   == Visited(h)[last]
    IN  IF AtEpilogue(h, bp) THEN NULL ELSE bp

=============================================================================
