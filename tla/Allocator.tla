------------------------------ MODULE Allocator ------------------------------
(***************************************************************************)
(* What a malloc package promises its client, whatever it does inside: the *)
(* requirements that the comments of eval_mm_valid and add_range (mdriver.c)*)
(* put on mm_malloc, mm_realloc and mm_free.                               *)
(*                                                                         *)
(* The client fills each payload with a value of its own, byte by byte,    *)
(* when it gets it; contents is what the client would read back.           *)
(***************************************************************************)
EXTENDS Integers

CONSTANTS Ids,       \* what the client names its payloads by
          Sizes,     \* the sizes it asks for (bytes)
          HeapSize,  \* bytes the heap may grow to
          FillOf(_)  \* what a client fills the payload of an id with

VARIABLES up,        \* whether the allocator is initialised and in use
          payload,   \* the payloads in the client's hands, by id
          contents   \* what they hold, by id and word

vars == <<up, payload, contents>>

Live == DOMAIN payload

Words(p) == {w \in p.lo .. p.lo + p.size - 1 : w % 4 = 0}

Disjoint(p, q) == p.lo + p.size <= q.lo \/ q.lo + q.size <= p.lo

Aligned(p) == p.lo % 8 = 0

InArena(p) == p.lo >= 0 /\ p.lo + p.size <= HeapSize

(* The client now has payload p under the name i, filled.                  *)
Hold(i, p) ==
    /\ payload' = [j \in Live \cup {i} |-> IF j = i THEN p ELSE payload[j]]
    /\ contents' = [j \in Live \cup {i} |->
                      IF j = i THEN [w \in Words(p) |-> FillOf(i)] ELSE contents[j]]

(* Any place will do that is aligned, inside the arena and apart from      *)
(* every other payload.                                                    *)
Grant(i, size) ==
    \E lo \in 0 .. HeapSize :
       LET p == [lo |-> lo, size |-> size] IN
         /\ Aligned(p) /\ InArena(p)
         /\ \A j \in Live \ {i} : Disjoint(p, payload[j])
         /\ Hold(i, p)

(* Nothing is in the client's hands.                                       *)
Nothing == [j \in {} |-> 0]

Init == up = FALSE /\ payload = Nothing /\ contents = Nothing

Start == ~up /\ up' = TRUE /\ UNCHANGED <<payload, contents>>

Malloc(i, size) == up /\ i \notin Live /\ size > 0 /\ Grant(i, size) /\ UNCHANGED up

Realloc(i, size) == up /\ i \in Live /\ size > 0 /\ Grant(i, size) /\ UNCHANGED up

Free(i) ==
    /\ up /\ i \in Live
    /\ payload' = [j \in Live \ {i} |-> payload[j]]
    /\ contents' = [j \in Live \ {i} |-> contents[j]]
    /\ UNCHANGED up

(* The client stops: its requests are over or one of them was refused.     *)
Stop == up /\ up' = FALSE /\ payload' = Nothing /\ contents' = Nothing

Next ==
    \/ Start
    \/ \E i \in Ids, size \in Sizes : Malloc(i, size)
    \/ \E i \in Ids, size \in Sizes : Realloc(i, size)
    \/ \E i \in Ids : Free(i)
    \/ Stop

Spec == Init /\ [][Next]_vars

=============================================================================
