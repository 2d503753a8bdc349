----------------------------- MODULE MCMDriver -----------------------------
(***************************************************************************)
(* MDriver for TLC: every trace of at most MaxOps requests in which an id  *)
(* is allocated when it is not live and freed or reallocated when it is.   *)
(***************************************************************************)
EXTENDS MDriver, FiniteSetsExt

CONSTANT MaxOps

Requests == [type : {"a", "r"}, index : Ids, size : Sizes]
              \cup [type : {"f"}, index : Ids, size : {CHOOSE s \in Sizes : TRUE}]

(* Whether id i is live after the first k requests of t.                   *)
LiveAfter(t, k, i) ==
    LET of == {j \in 1 .. k : t[j].index = i}
    IN  of # {} /\ t[Max(of)].type # "f"

LegalTraces ==
    {t \in UNION {[1 .. n -> Requests] : n \in 1 .. MaxOps} :
       \A k \in DOMAIN t : (t[k].type = "a") = ~LiveAfter(t, k - 1, t[k].index)}

=============================================================================
