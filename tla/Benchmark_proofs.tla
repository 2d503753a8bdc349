------------------------- MODULE Benchmark_proofs -------------------------
(***************************************************************************)
(* run_benchmarks.py, for any participants, clones, command lines, pushes, *)
(* and answers of git, make and mdriver.                                   *)
(***************************************************************************)
EXTENDS Benchmark, FiniteSetTheorems, SequenceTheorems, WellFoundedInduction, TLAPS

-----------------------------------------------------------------------------
(* A non-empty set of naturals has a least element.                        *)
LEMMA LeastOf ==
  ASSUME NEW S \in SUBSET Nat, S # {}
  PROVE  \E x \in S : \A y \in S : x <= y
<1>1. PICK R : R = OpToRel(<, Nat)
  OBVIOUS
<1>2. \A x, y \in Nat : <<y, x>> \in R <=> y < x
  BY <1>1 DEF OpToRel
<1>3. IsWellFoundedOn(R, Nat)
  BY <1>1, NatLessThanWellFounded
<1>4. PICK x \in S : \A y \in S : ~ (<<y, x>> \in R)
  BY <1>3, WFMin
<1>5. S \subseteq Nat
  OBVIOUS
<1>6. \A y \in S : ~(y < x)
  BY <1>2, <1>4, <1>5, Zenon
<1> QED BY <1>5, <1>6

(* q lists P from the least element to the greatest, n of them.            *)
Increasing(q, n, P) ==
    /\ n \in Nat /\ q \in [1 .. n -> P]
    /\ \A i, j \in 1 .. n : i < j => q[i] < q[j]
    /\ \A x \in P : \E i \in 1 .. n : q[i] = x

Listable(m, P) == \E n, q : Increasing(q, n, P \cap (1 .. m))

(* Such a list goes on with the next number, if it is one of P.            *)
LEMMA ListableNext ==
  ASSUME NEW m \in Nat, NEW P, Listable(m, P)
  PROVE  Listable(m + 1, P)
<1>1. PICK n, q : Increasing(q, n, P \cap (1 .. m))
  BY DEF Listable
<1>2. /\ n \in Nat /\ q \in [1 .. n -> P \cap (1 .. m)]
      /\ \A i, j \in 1 .. n : i < j => q[i] < q[j]
      /\ \A x \in P \cap (1 .. m) : \E i \in 1 .. n : q[i] = x
  BY <1>1 DEF Increasing
<1>3. 1 .. m + 1 = (1 .. m) \cup {m + 1}
  OBVIOUS
<1>4. CASE m + 1 \notin P
  <2>1. P \cap (1 .. m + 1) = P \cap (1 .. m)
    BY <1>3, <1>4
  <2> QED BY <1>1, <2>1 DEF Listable
<1>5. CASE m + 1 \in P
  <2>1. PICK r : r = [i \in 1 .. n + 1 |-> IF i = n + 1 THEN m + 1 ELSE q[i]]
    OBVIOUS
  <2>2. /\ r \in [1 .. n + 1 -> P \cap (1 .. m + 1)]
        /\ r[n + 1] = m + 1 /\ \A i \in 1 .. n : r[i] = q[i] /\ q[i] \in 1 .. m
    BY <1>2, <1>3, <1>5, <2>1
  <2>3. ASSUME NEW i \in 1 .. n + 1, NEW j \in 1 .. n + 1, i < j PROVE r[i] < r[j]
    <3>1. i \in 1 .. n
      BY <1>2, <2>3
    <3>2. CASE j = n + 1
      BY <2>2, <3>1, <3>2
    <3>3. CASE j # n + 1
      <4>1. j \in 1 .. n
        BY <1>2, <3>3
      <4> QED BY <1>2, <2>2, <2>3, <3>1, <4>1
    <3> QED BY <3>2, <3>3
  <2>4. ASSUME NEW x \in P \cap (1 .. m + 1) PROVE \E i \in 1 .. n + 1 : r[i] = x
    <3>1. CASE x = m + 1
      BY <1>2, <2>2, <3>1
    <3>2. CASE x # m + 1
      <4>1. x \in P \cap (1 .. m)
        BY <1>3, <2>4, <3>2
      <4>2. PICK i \in 1 .. n : q[i] = x
        BY <1>2, <4>1
      <4>3. i \in 1 .. n + 1
        BY <1>2
      <4> QED BY <2>2, <4>2, <4>3
    <3> QED BY <3>1, <3>2
  <2>5. n + 1 \in Nat
    BY <1>2
  <2>6. Increasing(r, n + 1, P \cap (1 .. m + 1))
    BY <2>2, <2>3, <2>4, <2>5 DEF Increasing
  <2> QED BY <2>6 DEF Listable
<1> QED BY <1>4, <1>5

(* So all of a set of positions can be listed.                             *)
LEMMA AllListable ==
  ASSUME NEW m \in Nat, NEW P
  PROVE  Listable(m, P)
<1>1. PICK C : C = {j \in 0 .. m : ~Listable(j, P)}
  OBVIOUS
<1>2. SUFFICES ASSUME m \in C PROVE FALSE
  BY <1>1
<1>3. C \in SUBSET Nat /\ C # {}
  BY <1>1, <1>2
<1>4. PICK j \in C : \A i \in C : j <= i
  BY <1>3, LeastOf
<1>5. CASE j = 0
  <2>1. PICK q : q = [i \in 1 .. 0 |-> 0]
    OBVIOUS
  <2>2. Increasing(q, 0, P \cap (1 .. 0))
    BY <2>1 DEF Increasing
  <2>3. Listable(0, P)
    BY <2>2 DEF Listable
  <2> QED BY <1>1, <1>5, <2>3
<1>6. CASE j # 0
  <2>1. j \in 1 .. m /\ j - 1 \in 0 .. m /\ j - 1 \in Nat /\ (j - 1) + 1 = j
    BY <1>1, <1>6
  <2>2. j - 1 \notin C
    BY <1>4, <2>1
  <2>3. Listable(j - 1, P)
    BY <1>1, <2>1, <2>2
  <2>4. Listable(j, P)
    BY <2>1, <2>3, ListableNext
  <2> QED BY <1>1, <2>4
<1> QED BY <1>5, <1>6

(* t is what s has at the positions P.                                     *)
Selects(t, s, P) ==
    \E n, q : /\ Increasing(q, n, P) /\ n = Cardinality(P)
              /\ t = [i \in 1 .. n |-> s[q[i]]]

LEMMA AtPositionsSelects ==
  ASSUME NEW s, NEW m \in Nat, NEW P \in SUBSET (1 .. m)
  PROVE  Selects(AtPositions(s, P), s, P)
<1>1. P \cap (1 .. m) = P
  OBVIOUS
<1>2. PICK n, r : Increasing(r, n, P)
  BY <1>1, AllListable DEF Listable
<1>3. Cardinality(P) = n
  <2>1. n \in Nat /\ r \in [1 .. n -> P] /\ (\A x \in P : \E i \in 1 .. n : r[i] = x)
        /\ \A i, j \in 1 .. n : i < j => r[i] < r[j]
    BY <1>2 DEF Increasing
  <2>2. \A i, j \in 1 .. n : r[i] = r[j] => i = j
    <3>1. SUFFICES ASSUME NEW i \in 1 .. n, NEW j \in 1 .. n, r[i] = r[j], i < j PROVE FALSE
      BY <2>1
    <3>2. r[i] \in 1 .. m /\ r[j] \in 1 .. m /\ r[i] < r[j]
      BY <2>1, <3>1
    <3> QED BY <3>1, <3>2
  <2>3. r \in Bijection(1 .. n, P)
    BY <2>1, <2>2 DEF Bijection, Injection, Surjection, IsInjective
  <2>4. ExistsBijection(1 .. n, P)
    BY <2>3 DEF ExistsBijection
  <2> QED BY <2>1, <2>4, FS_CountingElements
<1>4. PICK q : q = CHOOSE pos \in [1 .. n -> P] : \A i, j \in 1 .. n : i < j => pos[i] < pos[j]
  OBVIOUS
<1>5. n \in Nat /\ q \in [1 .. n -> P] /\ \A i, j \in 1 .. n : i < j => q[i] < q[j]
  BY <1>2, <1>4 DEF Increasing
<1>6. AtPositions(s, P) = [i \in 1 .. n |-> s[q[i]]]
  BY <1>3, <1>4 DEF AtPositions
<1>7. \A x \in P : \E i \in 1 .. n : q[i] = x
  <2>1. \A i, j \in 1 .. n : q[i] = q[j] => i = j
    <3>1. SUFFICES ASSUME NEW i \in 1 .. n, NEW j \in 1 .. n, q[i] = q[j], i < j PROVE FALSE
      BY <1>5
    <3>2. q[i] \in 1 .. m /\ q[j] \in 1 .. m /\ q[i] < q[j]
      BY <1>5, <3>1
    <3> QED BY <3>1, <3>2
  <2>2. q \in Injection(1 .. n, P)
    BY <1>5, <2>1 DEF Injection, IsInjective
  <2>3. IsFiniteSet(1 .. n) /\ IsFiniteSet(P) /\ Cardinality(1 .. n) = n
    <3>1. IsFiniteSet(1 .. n) /\ Cardinality(1 .. n) = n /\ IsFiniteSet(1 .. m)
      BY <1>5, FS_Interval
    <3> QED BY <3>1, FS_Subset
  <2>4. q \in Surjection(1 .. n, P)
    BY <1>3, <2>2, <2>3, FS_Injection
  <2> QED BY <2>4 DEF Surjection
<1>8. Increasing(q, n, P)
  BY <1>5, <1>7 DEF Increasing
<1> QED BY <1>3, <1>6, <1>8 DEF Selects

(* What a list comprehension has: selected elements, and nothing only if    *)
(* nothing is selected.                                                    *)
LEMMA Comprehension ==
  ASSUME NEW X, NEW s \in Seq(X), NEW P \in SUBSET (DOMAIN s), NEW t, t = AtPositions(s, P)
  PROVE  /\ t \in Seq(X) /\ Len(t) \in Nat /\ DOMAIN t = 1 .. Len(t)
         /\ \A j \in 1 .. Len(t) : \E i \in P : t[j] = s[i]
         /\ t = <<>> <=> P = {}
<1>1. Len(s) \in Nat /\ DOMAIN s = 1 .. Len(s) /\ \A i \in 1 .. Len(s) : s[i] \in X
  BY LenProperties, ElementOfSeq
<1>2. Selects(t, s, P)
  BY <1>1, AtPositionsSelects
<1>3. PICK n, q : Increasing(q, n, P) /\ t = [i \in 1 .. n |-> s[q[i]]]
  BY <1>2 DEF Selects
<1>4. n \in Nat /\ q \in [1 .. n -> P] /\ \A x \in P : \E i \in 1 .. n : q[i] = x
  BY <1>3 DEF Increasing
<1>5. \A i \in 1 .. n : s[q[i]] \in X
  BY <1>1, <1>4
<1>6. t \in Seq(X) /\ Len(t) = n /\ DOMAIN t = 1 .. n
  BY <1>3, <1>4, <1>5
<1>7. \A j \in 1 .. n : t[j] = s[q[j]] /\ q[j] \in P
  BY <1>3, <1>4
<1>8. t = <<>> <=> n = 0
  BY <1>4, <1>6, EmptySeq
<1>9. n = 0 <=> P = {}
  <2>1. n = 0 => P = {}
    <3>1. n = 0 => \A i \in 1 .. n : FALSE
      OBVIOUS
    <3> QED BY <1>4, <3>1
  <2>2. P = {} => n = 0
    <3>1. n # 0 => 1 \in 1 .. n
      BY <1>4
    <3> QED BY <1>7, <3>1
  <2> QED BY <2>1, <2>2
<1> QED BY <1>4, <1>6, <1>7, <1>8, <1>9

-----------------------------------------------------------------------------
(* L orders 1 .. n totally, ties allowed.                                  *)
Preorder(L, n) ==
    /\ \A x, y \in 1 .. n : <<x, y>> \in L \/ <<y, x>> \in L
    /\ \A x, y, z \in 1 .. n : <<x, y>> \in L /\ <<y, z>> \in L => <<x, z>> \in L

(* q lists 1 .. m in that order.                                           *)
Arranges(q, L, m) ==
    /\ q \in [1 .. m -> 1 .. m]
    /\ \A i, j \in 1 .. m : q[i] = q[j] => i = j
    /\ \A x \in 1 .. m : \E i \in 1 .. m : q[i] = x
    /\ \A i, j \in 1 .. m : i < j => <<q[i], q[j]>> \in L

Arrangeable(L, m) == \E q : Arranges(q, L, m)

(* One number more is inserted before the first that it may precede.       *)
LEMMA ArrangeNext ==
  ASSUME NEW n \in Nat, NEW L, Preorder(L, n), NEW m \in 1 .. n, Arrangeable(L, m - 1)
  PROVE  Arrangeable(L, m)
<1>1. PICK q : Arranges(q, L, m - 1)
  BY DEF Arrangeable
<1>2. /\ q \in [1 .. m - 1 -> 1 .. m - 1]
      /\ \A i, j \in 1 .. m - 1 : q[i] = q[j] => i = j
      /\ \A x \in 1 .. m - 1 : \E i \in 1 .. m - 1 : q[i] = x
      /\ \A i, j \in 1 .. m - 1 : i < j => <<q[i], q[j]>> \in L
  BY <1>1 DEF Arranges
<1>3. \E e \in 1 .. m : /\ e = m \/ ~(<<q[e], m>> \in L)
                        /\ \A i \in 1 .. e - 1 : <<q[i], m>> \in L
  <2>1. PICK S : S = {i \in 1 .. m : i = m \/ ~(<<q[i], m>> \in L)}
    OBVIOUS
  <2>2. S \in SUBSET Nat /\ m \in S
    BY <2>1
  <2>3. PICK e \in S : \A y \in S : e <= y
    BY <2>2, LeastOf
  <2>4. ASSUME NEW i \in 1 .. e - 1 PROVE <<q[i], m>> \in L
    <3>1. i \in 1 .. m /\ i \notin S
      BY <2>1, <2>3
    <3> QED BY <2>1, <3>1
  <2> QED BY <2>1, <2>3, <2>4
<1>4. PICK e \in 1 .. m : /\ e = m \/ ~(<<q[e], m>> \in L)
                          /\ \A i \in 1 .. e - 1 : <<q[i], m>> \in L
  BY <1>3
<1>5. PICK r : r = [i \in 1 .. m |-> IF i < e THEN q[i] ELSE IF i = e THEN m ELSE q[i - 1]]
  OBVIOUS
<1>6. /\ \A i \in 1 .. m : i < e => i \in 1 .. m - 1 /\ r[i] = q[i] /\ q[i] \in 1 .. m - 1
      /\ \A i \in 1 .. m : e < i => i - 1 \in 1 .. m - 1 /\ r[i] = q[i - 1] /\ q[i - 1] \in 1 .. m - 1
      /\ r[e] = m /\ r \in [1 .. m -> 1 .. m]
  <2>1. ASSUME NEW i \in 1 .. m, i < e
        PROVE  i \in 1 .. m - 1 /\ r[i] = q[i] /\ q[i] \in 1 .. m - 1
    BY <1>2, <1>5, <2>1
  <2>2. ASSUME NEW i \in 1 .. m, e < i
        PROVE  i - 1 \in 1 .. m - 1 /\ r[i] = q[i - 1] /\ q[i - 1] \in 1 .. m - 1
    <3>1. i - 1 \in 1 .. m - 1 /\ ~(i < e) /\ i # e
      BY <2>2
    <3> QED BY <1>2, <1>5, <3>1
  <2>3. r[e] = m
    BY <1>5
  <2>4. ASSUME NEW i \in 1 .. m PROVE r[i] \in 1 .. m
    <3>1. i < e \/ i = e \/ e < i
      OBVIOUS
    <3>2. \A x \in 1 .. m - 1 : x \in 1 .. m
      OBVIOUS
    <3> QED BY <2>1, <2>2, <2>3, <3>1, <3>2
  <2>5. DOMAIN r = 1 .. m /\ r = [i \in 1 .. m |-> r[i]]
    BY <1>5
  <2> QED BY <2>1, <2>2, <2>3, <2>4, <2>5
<1>7. ASSUME NEW i \in 1 .. m, NEW j \in 1 .. m, i < j PROVE r[i] # r[j] /\ <<r[i], r[j]>> \in L
  <2>0. \A x \in 1 .. m - 1 : x # m /\ x \in 1 .. n
    OBVIOUS
  <2>1. CASE j < e
    <3>1. i < e
      BY <1>7, <2>1
    <3>2. r[i] = q[i] /\ r[j] = q[j] /\ i \in 1 .. m - 1 /\ j \in 1 .. m - 1 /\ i # j
      <4>1. r[i] = q[i] /\ i \in 1 .. m - 1
        BY <1>6, <3>1
      <4>2. r[j] = q[j] /\ j \in 1 .. m - 1
        BY <1>6, <2>1
      <4> QED BY <1>7, <4>1, <4>2
    <3> QED BY <1>2, <1>7, <3>2
  <2>2. CASE j = e
    <3>1. i < e /\ i \in 1 .. e - 1
      BY <1>7, <2>2
    <3>2. r[i] = q[i] /\ r[j] = m /\ q[i] \in 1 .. m - 1
      BY <1>6, <2>2, <3>1
    <3> QED BY <1>4, <2>0, <3>1, <3>2
  <2>3. CASE e < j /\ i < e
    <3>1. /\ r[i] = q[i] /\ r[j] = q[j - 1] /\ i \in 1 .. m - 1 /\ j - 1 \in 1 .. m - 1
      BY <1>6, <2>3
    <3>2. i < j - 1 /\ i # j - 1
      BY <2>3
    <3> QED BY <1>2, <3>1, <3>2
  <2>4. CASE i = e
    <3>1. r[i] = m /\ r[j] = q[j - 1] /\ j - 1 \in 1 .. m - 1 /\ q[j - 1] \in 1 .. m - 1
      BY <1>6, <1>7, <2>4
    <3>2. e \in 1 .. m - 1 /\ q[e] \in 1 .. m - 1 /\ m \in 1 .. n /\ e <= j - 1
      <4>1. e < j
        BY <1>7, <2>4
      <4>2. e \in 1 .. m - 1 /\ e <= j - 1 /\ m \in 1 .. n
        BY <4>1
      <4> QED BY <1>2, <4>2
    <3>3. ~(<<q[e], m>> \in L)
      BY <1>4, <3>2
    <3>4. <<m, q[e]>> \in L
      BY <2>0, <3>2, <3>3 DEF Preorder
    <3>5. CASE e = j - 1
      BY <2>0, <3>1, <3>4, <3>5
    <3>6. CASE e # j - 1
      <4>1. <<q[e], q[j - 1]>> \in L
        <5>1. e < j - 1
          BY <3>1, <3>2, <3>6
        <5> QED BY <1>2, <3>1, <3>2, <5>1
      <4>2. <<m, q[j - 1]>> \in L
        BY <2>0, <3>1, <3>2, <3>4, <4>1 DEF Preorder
      <4> QED BY <2>0, <3>1, <4>2
    <3> QED BY <3>5, <3>6
  <2>5. CASE e < i
    <3>1. e < j
      BY <1>7, <2>5
    <3>2. r[i] = q[i - 1] /\ r[j] = q[j - 1] /\ i - 1 \in 1 .. m - 1 /\ j - 1 \in 1 .. m - 1
      BY <1>6, <2>5, <3>1
    <3>3. i - 1 < j - 1 /\ i - 1 # j - 1
      BY <1>7
    <3> QED BY <1>2, <3>2, <3>3
  <2>6. j < e \/ j = e \/ (e < j /\ i < e) \/ i = e \/ e < i
    OBVIOUS
  <2> QED BY <2>1, <2>2, <2>3, <2>4, <2>5, <2>6
<1>8. ASSUME NEW i \in 1 .. m, NEW j \in 1 .. m, r[i] = r[j] PROVE i = j
  <2>1. ~(i < j) /\ ~(j < i)
    BY <1>7, <1>8
  <2> QED BY <2>1
<1>9. ASSUME NEW x \in 1 .. m PROVE \E i \in 1 .. m : r[i] = x
  <2>1. CASE x = m
    BY <1>6, <2>1
  <2>2. CASE x # m
    <3>1. x \in 1 .. m - 1
      BY <2>2
    <3>2. PICK i \in 1 .. m - 1 : q[i] = x
      BY <1>2, <3>1
    <3>3. CASE i < e
      <4>1. i \in 1 .. m
        OBVIOUS
      <4> QED BY <1>6, <3>2, <3>3, <4>1
    <3>4. CASE ~(i < e)
      <4>1. i + 1 \in 1 .. m /\ e < i + 1 /\ (i + 1) - 1 = i
        BY <3>4
      <4>2. r[i + 1] = q[i]
        BY <1>6, <4>1
      <4> QED BY <3>2, <4>1, <4>2
    <3> QED BY <3>3, <3>4
  <2> QED BY <2>1, <2>2
<1>10. Arranges(r, L, m)
  BY <1>6, <1>7, <1>8, <1>9 DEF Arranges
<1> QED BY <1>10 DEF Arrangeable

LEMMA AllArrangeable ==
  ASSUME NEW n \in Nat, NEW L, Preorder(L, n)
  PROVE  Arrangeable(L, n)
<1>1. PICK C : C = {j \in 0 .. n : ~Arrangeable(L, j)}
  OBVIOUS
<1>2. SUFFICES ASSUME n \in C PROVE FALSE
  BY <1>1
<1>3. C \in SUBSET Nat /\ C # {}
  BY <1>1, <1>2
<1>4. PICK j \in C : \A i \in C : j <= i
  BY <1>3, LeastOf
<1>5. CASE j = 0
  <2>1. PICK q : q = [i \in 1 .. 0 |-> 0]
    OBVIOUS
  <2>2. Arranges(q, L, 0)
    BY <2>1 DEF Arranges
  <2>3. Arrangeable(L, 0)
    BY <2>2 DEF Arrangeable
  <2> QED BY <1>1, <1>5, <2>3
<1>6. CASE j # 0
  <2>1. j \in 1 .. n /\ j - 1 \in 0 .. n
    BY <1>1, <1>6
  <2>2. j - 1 \notin C
    BY <1>4, <2>1
  <2>3. Arrangeable(L, j - 1)
    BY <1>1, <2>1, <2>2
  <2>4. Arrangeable(L, j)
    BY <2>1, <2>3, ArrangeNext
  <2> QED BY <1>1, <2>4
<1> QED BY <1>5, <1>6

-----------------------------------------------------------------------------
(* A result with its sort keys.                                            *)
Statuses == {"OK", "INCORRECT", "UNSTABLE", "HARNESS_DIFF", "BUILD_FAIL", "RUN_FAIL",
             "PARTICIPANT_ERROR", "DIRTY_REPO", "SYNC_FAIL"}

Keyed(r) == r.status \in Statuses /\ r.score \in Int /\ r.kops \in Int /\ r.alias \in Int

(* sort_key orders them: no two come before each other, and what does not  *)
(* come after something that does not come after a third does not come     *)
(* after that.                                                             *)
LEMMA BeforeOrders ==
  ASSUME NEW x, NEW y, NEW z, Keyed(x), Keyed(y), Keyed(z)
  PROVE  /\ ~Before(x, y) \/ ~Before(y, x)
         /\ ~Before(y, x) /\ ~Before(z, y) => ~Before(z, x)
<1>1. \A c \in Statuses : StatusRank[c] \in Nat
  BY DEF Statuses, StatusRank
<1>2. \A c, d \in Statuses : StatusRank[c] = StatusRank[d] => c = d
  BY DEF Statuses, StatusRank
<1>3. PICK f : f = StatusRank
  OBVIOUS
<1>4. /\ \A c \in Statuses : f[c] \in Nat
      /\ \A c, d \in Statuses : f[c] = f[d] => c = d
  BY <1>1, <1>2, <1>3
<1> QED BY <1>3, <1>4 DEF Before, Keyed

(* t has what s has, in another order in which L holds.                    *)
Rearranges(t, s, n, L) ==
    \E q : Arranges(q, L, n) /\ t = [i \in 1 .. n |-> s[q[i]]]

LEMMA ResultsSorted ==
  ASSUME NEW n \in Nat, NEW s, DOMAIN s = 1 .. n, \A i \in 1 .. n : Keyed(s[i]), NEW L,
         L = {e \in (1 .. n) \X (1 .. n) : ~Before(s[e[2]], s[e[1]])}
  PROVE  Rearranges(Sorted(s, Before), s, n, L)
<1>1. \A x, y \in 1 .. n : <<x, y>> \in L <=> ~Before(s[y], s[x])
  OBVIOUS
<1>2. Preorder(L, n)
  <2>1. ASSUME NEW x \in 1 .. n, NEW y \in 1 .. n PROVE <<x, y>> \in L \/ <<y, x>> \in L
    BY <1>1, BeforeOrders
  <2>2. ASSUME NEW x \in 1 .. n, NEW y \in 1 .. n, NEW z \in 1 .. n, <<x, y>> \in L, <<y, z>> \in L
        PROVE  <<x, z>> \in L
    <3>1. ~Before(s[y], s[x]) /\ ~Before(s[z], s[y])
      BY <1>1, <2>2
    <3>2. Keyed(s[x]) /\ Keyed(s[y]) /\ Keyed(s[z])
      OBVIOUS
    <3>3. ~Before(s[z], s[x])
      BY <3>1, <3>2, BeforeOrders
    <3> QED BY <1>1, <3>3
  <2> QED BY <2>1, <2>2 DEF Preorder
<1>3. PICK B : B = Bijection(1 .. n, 1 .. n)
  OBVIOUS
<1>4. \A q : Arranges(q, L, n) <=> q \in B /\ \A i, j \in 1 .. n : i < j => <<q[i], q[j]>> \in L
  BY <1>3 DEF Arranges, Bijection, Injection, Surjection, IsInjective
<1>5. PICK p : p = CHOOSE perm \in B : \A i, j \in 1 .. n : i < j => ~Before(s[perm[j]], s[perm[i]])
  OBVIOUS
<1>6. PICK r : Arranges(r, L, n)
  BY <1>2, AllArrangeable DEF Arrangeable
<1>7. r \in B /\ \A i, j \in 1 .. n : i < j => ~Before(s[r[j]], s[r[i]])
  <2>1. r \in [1 .. n -> 1 .. n]
    BY <1>6 DEF Arranges
  <2> QED BY <1>1, <1>4, <1>6, <2>1
<1>8. p \in B /\ \A i, j \in 1 .. n : i < j => ~Before(s[p[j]], s[p[i]])
  BY <1>5, <1>7
<1>9. Arranges(p, L, n)
  <2>1. p \in [1 .. n -> 1 .. n]
    BY <1>3, <1>8 DEF Bijection, Injection
  <2> QED BY <1>1, <1>4, <1>8, <2>1
<1>10. Sorted(s, Before) = [i \in 1 .. n |-> s[p[i]]]
  BY <1>3, <1>5 DEF Sorted
<1> QED BY <1>9, <1>10 DEF Rearranges

(* The median of integers, doubled, is one, and natural if they are.       *)
LEMMA MedianType ==
  ASSUME NEW n \in Nat \ {0}, NEW s \in [1 .. n -> Int]
  PROVE  /\ Median2(s) \in Int
         /\ (\A i \in 1 .. n : s[i] \in Nat) => Median2(s) \in Nat
<1>1. PICK L : L = {e \in (1 .. n) \X (1 .. n) : ~(s[e[2]] < s[e[1]])}
  OBVIOUS
<1>2. \A x, y \in 1 .. n : <<x, y>> \in L <=> ~(s[y] < s[x])
  BY <1>1
<1>3. Preorder(L, n)
  BY <1>2 DEF Preorder
<1>4. PICK B : B = Bijection(1 .. n, 1 .. n)
  OBVIOUS
<1>5. PICK p : p = CHOOSE perm \in B : \A i, j \in 1 .. n : i < j => ~(s[perm[j]] < s[perm[i]])
  OBVIOUS
<1>6. PICK r : Arranges(r, L, n)
  BY <1>3, AllArrangeable DEF Arrangeable
<1>7. r \in B /\ \A i, j \in 1 .. n : i < j => ~(s[r[j]] < s[r[i]])
  BY <1>2, <1>4, <1>6 DEF Arranges, Bijection, Injection, Surjection, IsInjective
<1>8. p \in B
  BY <1>5, <1>7
<1>9. p \in [1 .. n -> 1 .. n]
  BY <1>4, <1>8 DEF Bijection, Injection
<1>10. DOMAIN s = 1 .. n /\ Len(s) = n
  OBVIOUS
<1>11. PICK t : t = [i \in 1 .. n |-> s[p[i]]]
  OBVIOUS
<1>12. Sorted(s, <) = t
  BY <1>4, <1>5, <1>10, <1>11 DEF Sorted
<1>13. Median2(s) = t[(n + 1) \div 2] + t[n \div 2 + 1]
  BY <1>10, <1>12 DEF Median2
<1>14. (n + 1) \div 2 \in 1 .. n /\ n \div 2 + 1 \in 1 .. n
  OBVIOUS
<1>15. \A i \in 1 .. n : t[i] \in Int /\ \E j \in 1 .. n : t[i] = s[j]
  BY <1>9, <1>11
<1>16. PICK g \in 1 .. n, h \in 1 .. n : Median2(s) = t[g] + t[h]
  BY <1>13, <1>14, Zenon
<1>17. Median2(s) \in Int
  <2>1. t[g] \in Int /\ t[h] \in Int
    BY <1>15
  <2> QED BY <1>16, <2>1
<1>18. ASSUME \A i \in 1 .. n : s[i] \in Nat PROVE Median2(s) \in Nat
  <2>1. t[g] \in Nat /\ t[h] \in Nat
    BY <1>15, <1>18
  <2> QED BY <1>16, <2>1
<1> QED BY <1>17, <1>18

-----------------------------------------------------------------------------
Phases == {"read", "sync", "run", "done", "failed", "crashed"}

(* A list of participants has been accepted.                               *)
Begun == phase \notin {"read", "failed"}

CloneType == [kind : {"none", "other", "git"}, origin : BOOLEAN, dirty : BOOLEAN,
              ahead : BOOLEAN, head : Nat, branch : {"current", "other", "absent"}]

Commit == Nat \X BOOLEAN

RecordType == [alias : Nat, status : {"SYNCED", "DIRTY_REPO", "SYNC_FAIL"},
               commit : Commit, dirty : {"unknown", "yes", "no"}]

TreeType == [commit : Commit, dirty : {"yes", "no"}]

(* A throughput, if there is one.                                          *)
Kops == Nat \cup {NoValue}

AttemptType == [status : {"OK", "BUILD_FAIL", "RUN_FAIL"}, correct : Int, traces : Nat,
                perf : Int, kops : Kops, tree : TreeType]

ResultType == [alias : Nat, status : Statuses, commit : Commit, attempts : Seq(AttemptType),
               correct : Int, score : Int, kops : Kops]

(* What a copy of the clone c is.                                          *)
TreeOf(c) == [commit |-> <<c.head, c.ahead>>, dirty |-> IF c.dirty THEN "yes" ELSE "no"]

(* r, the record of participant p, tells of the clone c.                   *)
TellsOf(r, p, c) ==
    /\ r.alias = p.alias
    /\ r.status = "SYNCED" => /\ r.commit = TreeOf(c).commit
                              /\ r.dirty \in {"unknown", TreeOf(c).dirty}

(* What a ranked row rests on: n attempts.                                 *)
Stable(r, n) ==
    r.status = "OK" =>
      /\ ThroughputOfAttempts(r)
      /\ Len(r.attempts) = n
      /\ \A j \in DOMAIN r.attempts :
            r.attempts[j].status = "OK" /\ r.attempts[j].correct = r.correct
      /\ r.correct >= Expected

TypesInv ==
    /\ args \in ArgSets /\ phase \in Phases /\ k \in Nat \ {0}
    /\ remote \in [Aliases -> Nat] /\ clone \in [Aliases -> CloneType]
    /\ records \in Seq(RecordType) /\ attempts \in Seq(AttemptType)
    /\ results \in Seq(ResultType)

(* No alias occurs twice.                                                  *)
ParticipantsInv ==
    /\ phase = "read" => participants \in Files
    /\ Begun =>
         /\ args.repeat >= 1
         /\ participants \in Seq([alias : Nat, enabled : BOOLEAN])
         /\ \A i \in 1 .. Len(participants) : participants[i].alias \in Aliases
         /\ \A i, j \in 1 .. Len(participants) :
               participants[i].alias = participants[j].alias => i = j

(* The records are those of the first participants, and tell of the clones *)
(* as they are by now.                                                     *)
RecordsInv ==
    /\ phase = "read" => records = <<>> /\ k = 1
    /\ phase = "sync" => Len(records) = k - 1 /\ k - 1 <= Len(participants)
    /\ phase \in {"run", "done", "crashed"} => Len(records) = Len(participants)
    /\ Begun => \A j \in 1 .. Len(records) :
                   TellsOf(records[j], participants[j], clone[participants[j].alias])

(* The attempts are of the current participant, whose clone was            *)
(* synchronised.                                                           *)
AttemptsInv ==
    /\ Len(attempts) <= args.repeat
    /\ lab.begun \in BOOLEAN
    /\ ~lab.begun => attempts = <<>>
    /\ lab.begun => /\ phase \in {"run", "crashed"} /\ k <= Len(participants)
                    /\ records[k].status = "SYNCED" /\ lab.traces \in Nat
    /\ \A j \in 1 .. Len(attempts) : attempts[j].tree = TreeOf(clone[participants[k].alias])

ResultsInv ==
    /\ phase \in {"read", "sync", "failed"} => results = <<>>
    /\ phase \in {"run", "crashed"} => Len(results) = k - 1 /\ k - 1 <= Len(participants)
    /\ phase = "done" => Len(results) = Len(participants)
    /\ Begun => \A j \in 1 .. Len(results) : results[j].alias = participants[j].alias
    /\ \A j \in 1 .. Len(results) : Stable(results[j], args.repeat)

RowsInv ==
    /\ phase # "done" => rows = <<>>
    /\ EveryoneListedOnce /\ RanksFollowResults

BInv == TypesInv /\ ParticipantsInv /\ RecordsInv /\ AttemptsInv /\ ResultsInv /\ RowsInv

-----------------------------------------------------------------------------
(* Before the summary there is nothing to say of its rows.                 *)
LEMMA NoRowsYet ==
  /\ phase # "done" /\ rows = <<>> => RowsInv
  /\ phase' # "done" /\ rows' = <<>> => RowsInv'
<1>1. DOMAIN <<>> = {}
  BY EmptySeq
<1> QED BY <1>1 DEF RowsInv, EveryoneListedOnce, RanksFollowResults

LEMMA EmptyOf ==
  ASSUME NEW X
  PROVE  <<>> \in Seq(X) /\ Len(<<>>) = 0 /\ \A j \in 1 .. Len(<<>>) : FALSE
BY EmptySeq

LEMMA BInvInit == Init => BInv
<1> SUFFICES ASSUME Init PROVE BInv
  OBVIOUS
<1>1. /\ args \in ArgSets /\ participants \in Files /\ remote = [p \in Aliases |-> 1]
      /\ clone \in [Aliases -> Clones] /\ phase = "read" /\ k = 1
      /\ records = <<>> /\ attempts = <<>> /\ results = <<>> /\ rows = <<>>
      /\ lab = NoLab
  BY DEF Init
<1>2. Clones \subseteq CloneType
  BY BenchmarkAssumption DEF CloneType
<1>3. TypesInv
  BY <1>1, <1>2, EmptyOf DEF TypesInv, Phases
<1>4. ~Begun /\ phase \notin {"sync", "run", "done", "crashed"}
  BY <1>1 DEF Begun
<1>5. ParticipantsInv /\ RecordsInv
  BY <1>1, <1>4 DEF ParticipantsInv, RecordsInv
<1>6. AttemptsInv
  <2>1. lab.begun = FALSE
    BY <1>1 DEF NoLab
  <2>2. Len(attempts) = 0 /\ \A j \in 1 .. Len(attempts) : FALSE
    BY <1>1, EmptyOf
  <2>3. args.repeat \in Nat
    BY <1>1, BenchmarkAssumption
  <2>4. Len(attempts) <= args.repeat
    BY <2>2, <2>3
  <2> QED BY <1>1, <2>1, <2>2, <2>4 DEF AttemptsInv
<1>7. ResultsInv
  <2>1. \A j \in 1 .. Len(results) : FALSE
    BY <1>1, EmptyOf
  <2> QED BY <1>1, <1>4, <2>1 DEF ResultsInv
<1>8. RowsInv
  <2>1. phase # "done"
    BY <1>1
  <2> QED BY <1>1, <2>1, NoRowsYet
<1> QED BY <1>3, <1>5, <1>6, <1>7, <1>8 DEF BInv

(* The list that is accepted has every alias once.                         *)
LEMMA BInvRead ==
  ASSUME BInv, ReadParticipants
  PROVE  BInv'
<1>1. /\ phase = "read" /\ args' = args /\ remote' = remote /\ clone' = clone /\ k' = k
      /\ records' = records /\ lab' = lab /\ attempts' = attempts /\ results' = results
      /\ rows' = rows /\ phase' \in {"sync", "failed"}
  BY DEF ReadParticipants
<1>2. /\ participants \in Files /\ records = <<>> /\ k = 1 /\ results = <<>> /\ rows = <<>>
      /\ lab.begun = FALSE /\ attempts = <<>>
  BY <1>1 DEF BInv, ParticipantsInv, RecordsInv, ResultsInv, RowsInv, AttemptsInv
<1>3. TypesInv'
  BY <1>1 DEF BInv, TypesInv, Phases
<1>4. ParticipantsInv'
  <2>1. CASE phase' = "sync"
    <3>1. args.repeat >= 1 /\ Usable(participants) /\ participants' = Enabled(participants)
      BY <2>1 DEF ReadParticipants
    <3>2. PICK X, P, t : /\ X = [alias : Nat, enabled : BOOLEAN]
                         /\ P = {i \in DOMAIN participants : participants[i].enabled}
                         /\ t = Enabled(participants)
      OBVIOUS
    <3>3. participants \in Seq(X) /\ P \in SUBSET (DOMAIN participants)
          /\ t = AtPositions(participants, P)
      BY <1>2, <3>2, BenchmarkAssumption DEF Enabled
    <3>4. /\ t \in Seq(X) /\ DOMAIN t = 1 .. Len(t)
          /\ \A j \in 1 .. Len(t) : \E i \in P : t[j] = participants[i]
      BY <3>3, Comprehension
    <3>5. ASSUME NEW j \in 1 .. Len(t) PROVE t[j].alias \in Aliases
      <4>1. PICK i \in DOMAIN participants : t[j] = participants[i]
        BY <3>2, <3>4
      <4> QED BY <1>2, <4>1 DEF Aliases
    <3>6. \A i, j \in 1 .. Len(t) : t[i].alias = t[j].alias => i = j
      BY <3>1, <3>2, <3>4 DEF Usable
    <3>7. phase' # "read"
      BY <2>1
    <3>8. participants' = t /\ args'.repeat >= 1
      BY <1>1, <3>1, <3>2
    <3> QED BY <3>2, <3>4, <3>5, <3>6, <3>7, <3>8 DEF ParticipantsInv
  <2>2. CASE phase' = "failed"
    BY <2>2 DEF ParticipantsInv, Begun
  <2> QED BY <1>1, <2>1, <2>2
<1>5. RecordsInv'
  <2>1. Len(records') = 0 /\ \A j \in 1 .. Len(records') : FALSE
    BY <1>1, <1>2, EmptyOf
  <2>2. k' - 1 = 0 /\ phase' # "read" /\ phase' \notin {"run", "done", "crashed"}
    BY <1>1, <1>2
  <2>3. phase' = "sync" => 0 <= Len(participants')
    <3>1. phase' = "sync" => participants' \in Seq([alias : Nat, enabled : BOOLEAN])
      BY <1>4 DEF ParticipantsInv, Begun
    <3> QED BY <3>1, LenProperties
  <2> QED BY <2>1, <2>2, <2>3 DEF RecordsInv
<1>6. AttemptsInv'
  <2>1. \A j \in 1 .. Len(attempts') : FALSE
    BY <1>1, <1>2, EmptyOf
  <2> QED BY <1>1, <1>2, <2>1 DEF BInv, AttemptsInv
<1>7. ResultsInv'
  <2>1. \A j \in 1 .. Len(results') : FALSE
    BY <1>1, <1>2, EmptyOf
  <2>2. phase' \notin {"run", "crashed", "done"}
    BY <1>1
  <2> QED BY <1>1, <1>2, <2>1, <2>2 DEF ResultsInv
<1>8. RowsInv'
  <2>1. phase' # "done" /\ rows' = <<>>
    BY <1>1, <1>2
  <2> QED BY <2>1, NoRowsYet
<1> QED BY <1>3, <1>4, <1>5, <1>6, <1>7, <1>8 DEF BInv

-----------------------------------------------------------------------------
(* One participant's synchronisation: its clone becomes c and its record r *)
(* tells of c; nobody else's clone is touched.                             *)
SyncStep(c, r) ==
    /\ phase = "sync" /\ k <= Len(participants)
    /\ c \in CloneType /\ r \in RecordType /\ TellsOf(r, participants[k], c)
    /\ clone' = [clone EXCEPT ![Alias] = c]
    /\ records' = Append(records, r) /\ k' = k + 1
    /\ args' = args /\ participants' = participants /\ remote' = remote /\ phase' = phase
    /\ lab' = lab /\ attempts' = attempts /\ results' = results /\ rows' = rows

LEMMA SyncStepKeeps ==
  ASSUME BInv, NEW c, NEW r, SyncStep(c, r)
  PROVE  BInv'
<1>1. /\ phase = "sync" /\ k <= Len(participants) /\ c \in CloneType /\ r \in RecordType
      /\ TellsOf(r, participants[k], c)
      /\ clone' = [clone EXCEPT ![Alias] = c]
      /\ records' = Append(records, r) /\ k' = k + 1
      /\ args' = args /\ participants' = participants /\ remote' = remote /\ phase' = phase
      /\ lab' = lab /\ attempts' = attempts /\ results' = results /\ rows' = rows
  BY DEF SyncStep
<1>2. /\ clone \in [Aliases -> CloneType] /\ records \in Seq(RecordType) /\ k \in Nat \ {0}
      /\ Len(records) = k - 1 /\ results = <<>> /\ rows = <<>>
      /\ \A j \in 1 .. Len(records) :
            TellsOf(records[j], participants[j], clone[participants[j].alias])
  BY <1>1 DEF BInv, TypesInv, RecordsInv, ResultsInv, RowsInv, Begun
<1>3. /\ participants \in Seq([alias : Nat, enabled : BOOLEAN])
      /\ \A i \in 1 .. Len(participants) : participants[i].alias \in Aliases
      /\ \A i, j \in 1 .. Len(participants) :
            participants[i].alias = participants[j].alias => i = j
  BY <1>1 DEF BInv, ParticipantsInv, Begun
<1>4. Len(participants) \in Nat /\ k \in 1 .. Len(participants) /\ Alias = participants[k].alias
  BY <1>1, <1>2, <1>3, LenProperties DEF Alias
<1>5. /\ clone' \in [Aliases -> CloneType] /\ clone'[Alias] = c
      /\ \A a \in Aliases : a # Alias => clone'[a] = clone[a]
  BY <1>1, <1>2, <1>3, <1>4
<1>6. /\ records' \in Seq(RecordType) /\ Len(records') = k /\ records'[k] = r
      /\ \A j \in 1 .. k - 1 : records'[j] = records[j]
  BY <1>1, <1>2, AppendProperties
<1>7. lab.begun = FALSE /\ attempts = <<>>
  BY <1>1 DEF BInv, AttemptsInv
<1>8. TypesInv'
  BY <1>1, <1>2, <1>5, <1>6 DEF BInv, TypesInv
<1>9. ParticipantsInv'
  BY <1>1 DEF BInv, ParticipantsInv, Begun
<1>10. RecordsInv'
  <2>1. ASSUME NEW j \in 1 .. k
        PROVE  TellsOf(records'[j], participants[j], clone'[participants[j].alias])
    <3>1. CASE j = k
      BY <1>1, <1>4, <1>5, <1>6, <3>1
    <3>2. CASE j # k
      <4>1. j \in 1 .. k - 1 /\ j \in 1 .. Len(participants)
        BY <1>2, <1>4, <3>2
      <4>2. participants[j].alias # Alias /\ participants[j].alias \in Aliases
        BY <1>3, <1>4, <3>2, <4>1
      <4> QED BY <1>2, <1>5, <1>6, <4>1, <4>2
    <3> QED BY <3>1, <3>2
  <2>2. phase' # "read" /\ phase' \notin {"run", "done", "crashed"} /\ k' - 1 = k
    BY <1>1, <1>2
  <2> QED BY <1>1, <1>6, <2>1, <2>2 DEF RecordsInv
<1>11. AttemptsInv'
  <2>1. \A j \in 1 .. Len(attempts') : FALSE
    BY <1>1, <1>7, EmptyOf
  <2> QED BY <1>1, <1>7, <2>1 DEF BInv, AttemptsInv
<1>12. ResultsInv'
  <2>1. \A j \in 1 .. Len(results') : FALSE
    BY <1>1, <1>2, EmptyOf
  <2>2. phase' \notin {"run", "crashed", "done"}
    BY <1>1
  <2> QED BY <1>1, <1>2, <2>1, <2>2 DEF ResultsInv
<1>13. RowsInv'
  <2>1. phase' # "done" /\ rows' = <<>>
    BY <1>1, <1>2
  <2> QED BY <2>1, NoRowsYet
<1> QED BY <1>8, <1>9, <1>10, <1>11, <1>12, <1>13 DEF BInv

(* What git makes of a clone is a clone.                                   *)
LEMMA ClonesMade ==
  ASSUME BInv, phase = "sync", k <= Len(participants)
  PROVE  /\ clone[Alias] \in CloneType /\ remote[Alias] \in Nat /\ Fetched \in CloneType
         /\ OnBranch \subseteq CloneType
         /\ \A c \in CloneType : Pull(c) \subseteq CloneType
         /\ Alias = participants[k].alias /\ Alias \in Nat
         /\ clone = [clone EXCEPT ![Alias] = clone[Alias]]
<1>1. /\ participants \in Seq([alias : Nat, enabled : BOOLEAN])
      /\ \A i \in 1 .. Len(participants) : participants[i].alias \in Aliases
      /\ k \in Nat \ {0} /\ clone \in [Aliases -> CloneType] /\ remote \in [Aliases -> Nat]
  BY DEF BInv, TypesInv, ParticipantsInv, Begun
<1>2. Alias = participants[k].alias /\ Alias \in Aliases
  BY <1>1, LenProperties DEF Alias
<1>3. clone[Alias] \in CloneType /\ remote[Alias] \in Nat
  BY <1>1, <1>2
<1>4. Fetched \in CloneType
  BY <1>3 DEF Fetched, CloneType
<1>6. ASSUME NEW d \in OnBranch PROVE d \in CloneType
  <2>1. PICK left \in {FALSE, Fetched.branch = "other"} :
               d = [Fetched EXCEPT !.branch = "current", !.dirty = @ \/ left]
    BY DEF OnBranch
  <2>2. left \in BOOLEAN
    OBVIOUS
  <2>3. PICK f \in CloneType : f = Fetched
    BY <1>4
  <2> QED BY <2>1, <2>2, <2>3 DEF CloneType
<1>7. ASSUME NEW c \in CloneType, NEW d \in Pull(c) PROVE d \in CloneType
  <2>1. CASE c.head < remote[Alias]
    <3>1. PICK left \in {FALSE, TRUE} : d = [c EXCEPT !.head = remote[Alias], !.dirty = @ \/ left]
      BY <2>1 DEF Pull
    <3> QED BY <1>3, <3>1 DEF CloneType
  <2>2. CASE ~(c.head < remote[Alias])
    <3>1. PICK left \in {FALSE} : d = [c EXCEPT !.head = remote[Alias], !.dirty = @ \/ left]
      BY <2>2 DEF Pull
    <3> QED BY <1>3, <3>1 DEF CloneType
  <2> QED BY <2>1, <2>2
<1>8. Alias \in Nat
  BY <1>2, BenchmarkAssumption
<1>9. clone = [clone EXCEPT ![Alias] = clone[Alias]]
  BY <1>1
<1> QED BY <1>2, <1>3, <1>4, <1>6, <1>7, <1>8, <1>9

(* A failure tells nothing of the clone.                                   *)
LEMMA FailureIsAStep ==
  ASSUME BInv, phase = "sync", k <= Len(participants), NEW about, NEW named,
         Failed(about, named), NEW c \in CloneType, clone' = [clone EXCEPT ![Alias] = c]
  PROVE  \E r : SyncStep(c, r)
<1>1. PICK r : r = [alias  |-> Alias,
                    status |-> IF about = "dirty" \/ (named /\ Alias \in DirtyNamed)
                                 THEN "DIRTY_REPO" ELSE "SYNC_FAIL",
                    commit |-> NoCommit, dirty |-> "unknown"]
  OBVIOUS
<1>2. Alias = participants[k].alias /\ Alias \in Nat
  BY ClonesMade
<1>3. r \in RecordType /\ r.status # "SYNCED" /\ r.alias = Alias
  BY <1>1, <1>2 DEF RecordType, NoCommit, Commit
<1>4. Record(r)
  BY <1>1 DEF Failed
<1> QED BY <1>2, <1>3, <1>4 DEF SyncStep, Record, TellsOf

(* A success tells what the clone has become.                              *)
LEMMA SuccessIsAStep ==
  ASSUME BInv, phase = "sync", k <= Len(participants), NEW c \in CloneType,
         NEW dirty \in {"unknown", TreeOf(c).dirty}, Synced(c, dirty),
         clone' = [clone EXCEPT ![Alias] = c]
  PROVE  \E r : SyncStep(c, r)
<1>1. PICK r : r = [alias |-> Alias, status |-> "SYNCED",
                    commit |-> <<c.head, c.ahead>>, dirty |-> dirty]
  OBVIOUS
<1>2. Alias = participants[k].alias /\ Alias \in Nat
  BY ClonesMade
<1>3. r \in RecordType /\ TellsOf(r, participants[k], c)
  BY <1>1, <1>2 DEF RecordType, Commit, CloneType, TellsOf, TreeOf
<1>4. Record(r)
  BY <1>1 DEF Synced
<1> QED BY <1>2, <1>3, <1>4 DEF SyncStep, Record

(* Every way a synchronisation can go is such a step.                      *)
LEMMA BInvSync ==
  ASSUME BInv, \/ NotTheClone \/ RefuseDirty \/ FetchFails \/ NoBranch \/ BecameDirty
               \/ PullFails \/ Pulled \/ TakeClone
  PROVE  BInv'
<1>1. phase = "sync" /\ k <= Len(participants)
  BY DEF NotTheClone, RefuseDirty, FetchFails, NoBranch, BecameDirty, PullFails, Pulled,
         TakeClone, Syncing, HasBranch, TakingClone
<1>2. /\ clone[Alias] \in CloneType /\ Fetched \in CloneType /\ OnBranch \subseteq CloneType
      /\ \A c \in CloneType : Pull(c) \subseteq CloneType
      /\ clone = [clone EXCEPT ![Alias] = clone[Alias]]
  BY <1>1, ClonesMade
<1>3. SUFFICES \E c, r : SyncStep(c, r)
  BY SyncStepKeeps
<1>4. ASSUME NEW about, NEW named, Failed(about, named), clone' = clone
      PROVE  \E c, r : SyncStep(c, r)
  <2>1. clone' = [clone EXCEPT ![Alias] = clone[Alias]]
    BY <1>2, <1>4
  <2> QED BY <1>1, <1>2, <1>4, <2>1, FailureIsAStep
<1>5. ASSUME NEW about, NEW named, Failed(about, named), NEW c \in CloneType, Becomes(c)
      PROVE  \E d, r : SyncStep(d, r)
  BY <1>1, <1>5, FailureIsAStep DEF Becomes
<1>6. CASE NotTheClone
  BY <1>4, <1>6 DEF NotTheClone
<1>7. CASE RefuseDirty
  BY <1>4, <1>7 DEF RefuseDirty
<1>8. CASE FetchFails
  BY <1>2, <1>4, <1>5, <1>8 DEF FetchFails
<1>9. CASE NoBranch
  BY <1>2, <1>5, <1>9 DEF NoBranch
<1>10. CASE BecameDirty
  BY <1>2, <1>5, <1>10 DEF BecameDirty
<1>11. CASE PullFails
  BY <1>2, <1>5, <1>11 DEF PullFails
<1>12. CASE Pulled
  <2>1. PICK c \in OnBranch : \E new \in Pull(c) :
               /\ Becomes(new) /\ Synced(new, IF new.dirty THEN "yes" ELSE "no")
    BY <1>12 DEF Pulled
  <2>2. PICK new \in Pull(c) : Becomes(new) /\ Synced(new, IF new.dirty THEN "yes" ELSE "no")
    BY <2>1
  <2>3. new \in CloneType
    BY <1>2
  <2>4. PICK dirty : dirty = IF new.dirty THEN "yes" ELSE "no"
    OBVIOUS
  <2>5. dirty \in {"unknown", TreeOf(new).dirty} /\ Synced(new, dirty)
    BY <2>2, <2>4 DEF TreeOf
  <2> QED BY <1>1, <2>2, <2>3, <2>5, SuccessIsAStep DEF Becomes
<1>13. CASE TakeClone
  <2>1. CASE Failed("other", FALSE)
    BY <1>4, <1>13, <2>1 DEF TakeClone
  <2>2. CASE Synced(clone[Alias], "unknown")
    <3>1. clone' = [clone EXCEPT ![Alias] = clone[Alias]]
      BY <1>2, <1>13 DEF TakeClone
    <3> QED BY <1>1, <1>2, <2>2, <3>1, SuccessIsAStep
  <2> QED BY <1>13, <2>1, <2>2 DEF TakeClone
<1> QED BY <1>6, <1>7, <1>8, <1>9, <1>10, <1>11, <1>12, <1>13

-----------------------------------------------------------------------------
(* --skip-sync on a clone without a commit ends the program.               *)
LEMMA BInvNoCommit ==
  ASSUME BInv, NoCommitToTake
  PROVE  BInv'
<1>1. /\ phase = "sync" /\ phase' = "failed" /\ args' = args /\ remote' = remote
      /\ clone' = clone /\ k' = k /\ records' = records /\ lab' = lab
      /\ attempts' = attempts /\ results' = results /\ rows' = rows
      /\ participants' = participants
  BY DEF NoCommitToTake, TakingClone
<1>2. results = <<>> /\ rows = <<>> /\ lab.begun = FALSE /\ attempts = <<>>
  BY <1>1 DEF BInv, ResultsInv, RowsInv, AttemptsInv
<1>3. TypesInv'
  BY <1>1 DEF BInv, TypesInv, Phases
<1>4. ParticipantsInv' /\ RecordsInv'
  BY <1>1 DEF ParticipantsInv, RecordsInv, Begun
<1>5. AttemptsInv'
  <2>1. \A j \in 1 .. Len(attempts') : FALSE
    BY <1>1, <1>2, EmptyOf
  <2> QED BY <1>1, <1>2, <2>1 DEF BInv, AttemptsInv
<1>6. ResultsInv'
  <2>1. \A j \in 1 .. Len(results') : FALSE
    BY <1>1, <1>2, EmptyOf
  <2> QED BY <1>1, <1>2, <2>1 DEF ResultsInv, Begun
<1>7. RowsInv'
  <2>1. phase' # "done" /\ rows' = <<>>
    BY <1>1, <1>2
  <2> QED BY <2>1, NoRowsYet
<1> QED BY <1>3, <1>4, <1>5, <1>6, <1>7 DEF BInv

(* When the runs begin, everybody has a record.                            *)
LEMMA BInvBegin ==
  ASSUME BInv, BeginRun
  PROVE  BInv'
<1>1. /\ phase = "sync" /\ k > Len(participants) /\ phase' = "run" /\ k' = 1
      /\ args' = args /\ participants' = participants /\ remote' = remote
      /\ clone' = clone /\ records' = records /\ lab' = lab
      /\ attempts' = attempts /\ results' = results /\ rows' = rows
  BY DEF BeginRun
<1>2. /\ results = <<>> /\ rows = <<>> /\ lab.begun = FALSE /\ attempts = <<>>
      /\ k \in Nat \ {0} /\ Len(records) = k - 1 /\ k - 1 <= Len(participants)
      /\ \A j \in 1 .. Len(records) :
            TellsOf(records[j], participants[j], clone[participants[j].alias])
  BY <1>1 DEF BInv, TypesInv, RecordsInv, ResultsInv, RowsInv, AttemptsInv, Begun
<1>3. Len(participants) \in Nat /\ Len(records) = Len(participants)
  <2>1. participants \in Seq([alias : Nat, enabled : BOOLEAN])
    BY <1>1 DEF BInv, ParticipantsInv, Begun
  <2>2. Len(participants) \in Nat
    BY <2>1, LenProperties
  <2> QED BY <1>1, <1>2, <2>2
<1>4. TypesInv'
  BY <1>1 DEF BInv, TypesInv, Phases
<1>5. ParticipantsInv'
  BY <1>1 DEF BInv, ParticipantsInv, Begun
<1>6. RecordsInv'
  BY <1>1, <1>2, <1>3 DEF RecordsInv
<1>7. AttemptsInv'
  <2>1. \A j \in 1 .. Len(attempts') : FALSE
    BY <1>1, <1>2, EmptyOf
  <2> QED BY <1>1, <1>2, <2>1 DEF BInv, AttemptsInv
<1>8. ResultsInv'
  <2>1. Len(results') = 0 /\ \A j \in 1 .. Len(results') : FALSE
    BY <1>1, <1>2, EmptyOf
  <2>2. Len(results') = k' - 1 /\ k' - 1 <= Len(participants')
    BY <1>1, <1>3, <2>1
  <2> QED BY <1>1, <2>1, <2>2 DEF ResultsInv
<1>9. RowsInv'
  <2>1. phase' # "done" /\ rows' = <<>>
    BY <1>1, <1>2
  <2> QED BY <2>1, NoRowsYet
<1> QED BY <1>4, <1>5, <1>6, <1>7, <1>8, <1>9 DEF BInv

(* sync_by_alias finds the record of the participant whose turn it is.     *)
LEMMA RecordFound ==
  ASSUME BInv, phase \in {"run", "crashed"}, k <= Len(participants)
  PROVE  /\ k \in 1 .. Len(participants) /\ Alias = participants[k].alias
         /\ Alias \in Aliases /\ Alias \in Nat /\ clone[Alias] \in CloneType
         /\ SyncRecord = records[k] /\ records[k] \in RecordType
         /\ TellsOf(records[k], participants[k], clone[Alias])
<1>1. /\ participants \in Seq([alias : Nat, enabled : BOOLEAN])
      /\ \A i \in 1 .. Len(participants) : participants[i].alias \in Aliases
      /\ \A i, j \in 1 .. Len(participants) :
            participants[i].alias = participants[j].alias => i = j
  BY DEF BInv, ParticipantsInv, Begun
<1>2. /\ records \in Seq(RecordType) /\ Len(records) = Len(participants)
      /\ \A j \in 1 .. Len(records) :
            TellsOf(records[j], participants[j], clone[participants[j].alias])
      /\ k \in Nat \ {0} /\ clone \in [Aliases -> CloneType]
  BY DEF BInv, TypesInv, RecordsInv, Begun
<1>3. Len(participants) \in Nat /\ k \in 1 .. Len(participants)
  BY <1>1, <1>2, LenProperties
<1>4. Alias = participants[k].alias /\ Alias \in Aliases /\ Alias \in Nat
  BY <1>1, <1>3, BenchmarkAssumption DEF Alias
<1>5. DOMAIN records = 1 .. Len(participants)
  BY <1>2, LenProperties
<1>6. \A j \in DOMAIN records : records[j].alias = Alias <=> j = k
  BY <1>1, <1>2, <1>3, <1>4, <1>5 DEF TellsOf
<1>7. \A j : (/\ j \in DOMAIN records /\ records[j].alias = Alias
              /\ \A i \in DOMAIN records : records[i].alias = Alias => i <= j) <=> j = k
  BY <1>3, <1>5, <1>6
<1>8. SyncRecord = records[k]
  BY <1>7 DEF SyncRecord
<1> QED BY <1>2, <1>3, <1>4, <1>5, <1>8

(* The current participant gets its result r.                              *)
FinishStep(r) ==
    /\ Running /\ r \in ResultType /\ r.alias = Alias /\ Stable(r, args.repeat)
    /\ Finish(r)

LEMMA FinishStepKeeps ==
  ASSUME BInv, NEW r, FinishStep(r)
  PROVE  BInv'
<1>1. /\ phase = "run" /\ k <= Len(participants) /\ r \in ResultType /\ r.alias = Alias
      /\ Stable(r, args.repeat)
      /\ results' = Append(results, r) /\ k' = k + 1 /\ attempts' = <<>> /\ lab' = NoLab
      /\ args' = args /\ participants' = participants /\ remote' = remote
      /\ clone' = clone /\ phase' = phase /\ records' = records /\ rows' = rows
  BY DEF FinishStep, Running, Finish
<1>2. /\ results \in Seq(ResultType) /\ k \in Nat \ {0} /\ Len(results) = k - 1 /\ rows = <<>>
      /\ \A j \in 1 .. Len(results) :
            results[j].alias = participants[j].alias /\ Stable(results[j], args.repeat)
  BY <1>1 DEF BInv, TypesInv, ResultsInv, RowsInv, Begun
<1>3. k \in 1 .. Len(participants) /\ Alias = participants[k].alias
  BY <1>1, RecordFound
<1>4. Len(participants) \in Nat
  <2>1. participants \in Seq([alias : Nat, enabled : BOOLEAN])
    BY <1>1 DEF BInv, ParticipantsInv, Begun
  <2> QED BY <2>1, LenProperties
<1>5. /\ results' \in Seq(ResultType) /\ Len(results') = k /\ results'[k] = r
      /\ \A j \in 1 .. k - 1 : results'[j] = results[j]
  BY <1>1, <1>2, AppendProperties
<1>6. TypesInv'
  BY <1>1, <1>2, <1>5, EmptyOf DEF BInv, TypesInv
<1>7. ParticipantsInv'
  BY <1>1 DEF BInv, ParticipantsInv, Begun
<1>8. RecordsInv'
  BY <1>1 DEF BInv, RecordsInv, Begun
<1>9. AttemptsInv'
  <2>1. Len(attempts') = 0 /\ \A j \in 1 .. Len(attempts') : FALSE
    BY <1>1, EmptyOf
  <2>2. args.repeat \in Nat
    BY BenchmarkAssumption DEF BInv, TypesInv
  <2>3. lab'.begun = FALSE
    BY <1>1 DEF NoLab
  <2>4. Len(attempts') <= args'.repeat
    BY <1>1, <2>1, <2>2
  <2> QED BY <1>1, <2>1, <2>3, <2>4 DEF AttemptsInv
<1>10. ResultsInv'
  <2>1. ASSUME NEW j \in 1 .. k
        PROVE  results'[j].alias = participants[j].alias /\ Stable(results'[j], args.repeat)
    <3>1. CASE j = k
      BY <1>1, <1>3, <1>5, <3>1
    <3>2. CASE j # k
      <4>1. j \in 1 .. k - 1 /\ j \in 1 .. Len(results)
        BY <1>2, <3>2
      <4> QED BY <1>2, <1>5, <4>1
    <3> QED BY <3>1, <3>2
  <2>2. Len(results') = k' - 1 /\ k' - 1 <= Len(participants')
    BY <1>1, <1>2, <1>4, <1>5
  <2> QED BY <1>1, <1>5, <2>1, <2>2 DEF ResultsInv
<1>11. RowsInv'
  <2>1. phase' # "done" /\ rows' = <<>>
    BY <1>1, <1>2
  <2> QED BY <2>1, NoRowsYet
<1> QED BY <1>6, <1>7, <1>8, <1>9, <1>10, <1>11 DEF BInv

(* A participant that is not measured gets a result that is not ranked.    *)
LEMMA BInvNotMeasured ==
  ASSUME BInv, NotSynced \/ NoSource \/ HarnessDiff
  PROVE  BInv'
<1>1. Running /\ phase = "run" /\ k <= Len(participants)
  BY DEF NotSynced, NoSource, HarnessDiff, Ready, Running
<1>2. /\ Alias \in Nat /\ SyncRecord \in RecordType
  BY <1>1, RecordFound
<1>3. SUFFICES ASSUME NEW status \in Statuses, status # "OK", NotMeasured(status)
               PROVE  \E r : FinishStep(r)
  <2>1. SyncRecord.status \in {"SYNCED", "DIRTY_REPO", "SYNC_FAIL"}
    BY <1>2 DEF RecordType
  <2>2. \E status \in Statuses : status # "OK" /\ NotMeasured(status)
    <3>1. CASE NotSynced
      BY <2>1, <3>1 DEF NotSynced, Statuses
    <3>2. CASE NoSource
      BY <3>2 DEF NoSource, Statuses
    <3>3. CASE HarnessDiff
      BY <3>3 DEF HarnessDiff, Statuses
    <3> QED BY <3>1, <3>2, <3>3
  <2> QED BY <2>2, FinishStepKeeps
<1>4. PICK r : r = Result(status, <<>>, NoValue, NoValue, NoValue)
  OBVIOUS
<1>5. SyncRecord.commit \in Commit /\ NoValue \in Int /\ NoValue \in Kops /\ <<>> \in Seq(AttemptType)
  BY <1>2, EmptyOf DEF RecordType, NoValue, Kops
<1>6. r \in ResultType /\ r.alias = Alias /\ r.status # "OK"
  BY <1>2, <1>3, <1>4, <1>5 DEF Result, ResultType
<1>7. Finish(r)
  BY <1>3, <1>4 DEF NotMeasured
<1> QED BY <1>1, <1>6, <1>7 DEF FinishStep, Stable

-----------------------------------------------------------------------------
(* Attempts begin on a clone that was synchronised.                        *)
LEMMA BInvBeginAttempts ==
  ASSUME BInv, BeginAttempts
  PROVE  BInv'
<1>1. /\ phase = "run" /\ k <= Len(participants) /\ ~lab.begun
      /\ SyncRecord.status = "SYNCED"
      /\ args' = args /\ participants' = participants /\ remote' = remote
      /\ clone' = clone /\ phase' = phase /\ k' = k /\ records' = records
      /\ attempts' = attempts /\ results' = results /\ rows' = rows
  BY DEF BeginAttempts, Ready, Running
<1>2. lab'.begun = TRUE /\ lab'.traces \in Nat
  BY BenchmarkAssumption DEF BeginAttempts
<1>3. records[k].status = "SYNCED"
  BY <1>1, RecordFound
<1>4. TypesInv'
  BY <1>1 DEF BInv, TypesInv
<1>5. ParticipantsInv'
  BY <1>1 DEF BInv, ParticipantsInv, Begun
<1>6. RecordsInv'
  BY <1>1 DEF BInv, RecordsInv, Begun
<1>7. AttemptsInv'
  BY <1>1, <1>2, <1>3 DEF BInv, AttemptsInv
<1>8. ResultsInv'
  BY <1>1 DEF BInv, ResultsInv, Begun
<1>9. RowsInv'
  <2>1. phase' # "done" /\ rows' = <<>>
    BY <1>1 DEF BInv, RowsInv
  <2> QED BY <2>1, NoRowsYet
<1> QED BY <1>4, <1>5, <1>6, <1>7, <1>8, <1>9 DEF BInv

(* An attempt on the clone as it is.                                       *)
AttemptStep(a) ==
    /\ Attempting /\ a \in AttemptType /\ a.tree = TreeOf(clone[Alias])
    /\ attempts' = Append(attempts, a)
    /\ UNCHANGED <<args, participants, remote, clone, phase, k, records, lab, results, rows>>

LEMMA AttemptStepKeeps ==
  ASSUME BInv, NEW a, AttemptStep(a)
  PROVE  BInv'
<1>1. /\ phase = "run" /\ k <= Len(participants) /\ lab.begun /\ Len(attempts) < args.repeat
      /\ a \in AttemptType /\ a.tree = TreeOf(clone[Alias])
      /\ attempts' = Append(attempts, a)
      /\ args' = args /\ participants' = participants /\ remote' = remote
      /\ clone' = clone /\ phase' = phase /\ k' = k /\ records' = records
      /\ lab' = lab /\ results' = results /\ rows' = rows
  BY DEF AttemptStep, Attempting, Running
<1>2. Alias = participants[k].alias
  BY <1>1, RecordFound
<1>3. /\ attempts \in Seq(AttemptType) /\ args.repeat \in Nat
      /\ \A j \in 1 .. Len(attempts) : attempts[j].tree = TreeOf(clone[participants[k].alias])
  BY BenchmarkAssumption DEF BInv, TypesInv, AttemptsInv
<1>4. /\ attempts' \in Seq(AttemptType) /\ Len(attempts) \in Nat
      /\ Len(attempts') = Len(attempts) + 1 /\ attempts'[Len(attempts) + 1] = a
      /\ \A j \in 1 .. Len(attempts) : attempts'[j] = attempts[j]
  BY <1>1, <1>3, AppendProperties, LenProperties
<1>5. TypesInv'
  BY <1>1, <1>4 DEF BInv, TypesInv
<1>6. ParticipantsInv'
  BY <1>1 DEF BInv, ParticipantsInv, Begun
<1>7. RecordsInv'
  BY <1>1 DEF BInv, RecordsInv, Begun
<1>8. AttemptsInv'
  <2>1. ASSUME NEW j \in 1 .. Len(attempts) + 1
        PROVE  attempts'[j].tree = TreeOf(clone[participants[k].alias])
    <3>1. CASE j = Len(attempts) + 1
      BY <1>1, <1>2, <1>4, <3>1
    <3>2. CASE j # Len(attempts) + 1
      <4>1. j \in 1 .. Len(attempts)
        BY <1>4, <3>2
      <4> QED BY <1>3, <1>4, <4>1
    <3> QED BY <3>1, <3>2
  <2>2. Len(attempts') <= args'.repeat
    BY <1>1, <1>3, <1>4
  <2> QED BY <1>1, <1>4, <2>1, <2>2 DEF BInv, AttemptsInv
<1>9. ResultsInv'
  BY <1>1 DEF BInv, ResultsInv, Begun
<1>10. RowsInv'
  <2>1. phase' # "done" /\ rows' = <<>>
    BY <1>1 DEF BInv, RowsInv
  <2> QED BY <2>1, NoRowsYet
<1> QED BY <1>5, <1>6, <1>7, <1>8, <1>9, <1>10 DEF BInv

(* Whether it fails or succeeds.                                           *)
LEMMA BInvAttempt ==
  ASSUME BInv, BuildFails \/ RunFails \/ RunSucceeds
  PROVE  BInv'
<1>1. Attempting /\ phase = "run" /\ k <= Len(participants) /\ lab.begun
  BY DEF BuildFails, RunFails, RunSucceeds, Attempting, Running
<1>2. /\ clone[Alias] \in CloneType /\ lab.traces \in Nat
  BY <1>1, RecordFound DEF BInv, AttemptsInv
<1>3. \E status \in {"OK", "BUILD_FAIL", "RUN_FAIL"}, correct \in Int, m \in [perf : Int, kops : Kops] :
         Attempt(status, correct, m)
  <2>1. NoMeasure \in [perf : Int, kops : Kops] /\ NoValue \in Int
    BY DEF NoMeasure, NoValue, Kops
  <2>2. \A m \in Measures : m \in [perf : Int, kops : Kops]
    BY BenchmarkAssumption DEF Kops
  <2>3. /\ [perf |-> 0, kops |-> NoValue] \in [perf : Int, kops : Kops]
        /\ \A n \in 0 .. lab.traces - 1 : n \in Int
    BY <1>2 DEF Kops
  <2>4. CASE BuildFails
    BY <2>1, <2>4 DEF BuildFails
  <2>5. CASE RunFails
    BY <2>1, <2>5 DEF RunFails
  <2>6. CASE RunSucceeds
    <3>1. CASE \E m \in Measures : Attempt("OK", lab.traces, m)
      BY <1>2, <2>2, <3>1
    <3>2. CASE \E n \in 0 .. lab.traces - 1 : Attempt("OK", n, [perf |-> 0, kops |-> NoValue])
      BY <2>3, <3>2
    <3> QED BY <2>6, <3>1, <3>2 DEF RunSucceeds
  <2> QED BY <2>4, <2>5, <2>6
<1>4. PICK status \in {"OK", "BUILD_FAIL", "RUN_FAIL"}, correct \in Int, m \in [perf : Int, kops : Kops] :
         Attempt(status, correct, m)
  BY <1>3
<1>5. PICK a : a = [status |-> status, correct |-> correct, traces |-> lab.traces,
                    perf |-> m.perf, kops |-> m.kops, tree |-> Worktree]
  OBVIOUS
<1>6. Worktree = TreeOf(clone[Alias]) /\ Worktree \in TreeType
  BY <1>2 DEF Worktree, TreeOf, TreeType, CloneType, Commit
<1>7. a \in AttemptType /\ a.tree = TreeOf(clone[Alias])
  BY <1>2, <1>5, <1>6 DEF AttemptType
<1>8. AttemptStep(a)
  BY <1>1, <1>4, <1>5, <1>7 DEF AttemptStep, Attempt
<1> QED BY <1>8, AttemptStepKeeps

(* The program that ends on an OSError leaves everything as it is.         *)
LEMMA BInvCopyRaises ==
  ASSUME BInv, CopyRaises
  PROVE  BInv'
<1>1. /\ phase = "run" /\ phase' = "crashed"
      /\ args' = args /\ participants' = participants /\ remote' = remote
      /\ clone' = clone /\ k' = k /\ records' = records /\ lab' = lab
      /\ attempts' = attempts /\ results' = results /\ rows' = rows
  BY DEF CopyRaises, Attempting, Running
<1>2. TypesInv'
  BY <1>1 DEF BInv, TypesInv, Phases
<1>3. ParticipantsInv'
  BY <1>1 DEF BInv, ParticipantsInv, Begun
<1>4. RecordsInv'
  BY <1>1 DEF BInv, RecordsInv, Begun
<1>5. AttemptsInv'
  BY <1>1 DEF BInv, AttemptsInv
<1>6. ResultsInv'
  BY <1>1 DEF BInv, ResultsInv, Begun
<1>7. RowsInv'
  <2>1. phase' # "done" /\ rows' = <<>>
    BY <1>1 DEF BInv, RowsInv
  <2> QED BY <2>1, NoRowsYet
<1> QED BY <1>2, <1>3, <1>4, <1>5, <1>6, <1>7 DEF BInv

(* The medians of the successful attempts: of all scores, and of such      *)
(* throughputs as there are.                                               *)
Medians(perf, kops) ==
    /\ perf = MedianOrNone([j \in DOMAIN Successful |-> Successful[j].perf])
    /\ kops = MedianOrNone([j \in DOMAIN Timed |-> Timed[j].kops])

LEMMA MediansTaken ==
  ASSUME Successful \in Seq(AttemptType), Successful # <<>>,
         NEW perf, NEW kops, Medians(perf, kops)
  PROVE  /\ perf \in Int /\ kops \in Kops
         /\ kops # NoValue <=> \E j \in DOMAIN Successful : Successful[j].kops # NoValue
<1>1. PICK s : s = Successful
  OBVIOUS
<1>2. s \in Seq(AttemptType) /\ s # <<>>
  BY <1>1
<1>3. Len(s) \in Nat \ {0} /\ DOMAIN s = 1 .. Len(s) /\ \A j \in 1 .. Len(s) : s[j] \in AttemptType
  BY <1>2, LenProperties, ElementOfSeq, EmptySeq
<1>4. perf \in Int
  <2>1. PICK f : f = [j \in DOMAIN s |-> s[j].perf]
    OBVIOUS
  <2>2. f \in [1 .. Len(s) -> Int]
    BY <1>3, <2>1 DEF AttemptType
  <2>3. Median2(f) \in Int
    BY <1>3, <2>2, MedianType
  <2>4. f # <<>>
    BY <1>3, <2>1, EmptySeq
  <2> QED BY <1>1, <2>1, <2>3, <2>4 DEF MedianOrNone, Medians
<1>5. PICK P : P = {j \in DOMAIN s : s[j].kops # NoValue}
  OBVIOUS
<1>6. PICK t : t = AtPositions(s, P)
  OBVIOUS
<1>7. t = Timed
  BY <1>1, <1>5, <1>6 DEF Timed
<1>8. P \in SUBSET (DOMAIN s)
  BY <1>5
<1>9. /\ Len(t) \in Nat /\ DOMAIN t = 1 .. Len(t)
      /\ \A j \in 1 .. Len(t) : \E i \in P : t[j] = s[i]
      /\ t = <<>> <=> P = {}
  BY <1>2, <1>6, <1>8, Comprehension
<1>10. PICK g : g = [j \in DOMAIN t |-> t[j].kops]
  OBVIOUS
<1>11. kops = MedianOrNone(g)
  BY <1>7, <1>10 DEF Medians
<1>12. CASE P = {}
  <2>1. g = <<>>
    BY <1>9, <1>10, <1>12, EmptySeq
  <2>2. kops = NoValue
    BY <1>11, <2>1 DEF MedianOrNone
  <2>3. ~ \E j \in DOMAIN s : s[j].kops # NoValue
    BY <1>5, <1>12
  <2> QED BY <1>1, <1>4, <2>2, <2>3 DEF Kops
<1>13. CASE P # {}
  <2>1. Len(t) \in Nat \ {0}
    BY <1>9, <1>13, EmptySeq
  <2>2. ASSUME NEW j \in 1 .. Len(t) PROVE t[j].kops \in Nat
    <3>1. PICK i \in P : t[j] = s[i]
      BY <1>9
    <3>2. i \in 1 .. Len(s) /\ s[i].kops # NoValue
      BY <1>3, <1>5
    <3>3. s[i].kops \in Kops
      BY <1>3, <3>2 DEF AttemptType
    <3> QED BY <3>1, <3>2, <3>3 DEF Kops
  <2>3. g \in [1 .. Len(t) -> Nat] /\ g # <<>>
    BY <1>9, <1>10, <2>1, <2>2, EmptySeq
  <2>4. g \in [1 .. Len(t) -> Int] /\ \A j \in 1 .. Len(t) : g[j] \in Nat
    BY <2>3
  <2>5. Median2(g) \in Nat
    BY <2>1, <2>4, MedianType
  <2>6. kops \in Nat
    BY <1>11, <2>3, <2>5 DEF MedianOrNone
  <2>7. kops # NoValue /\ kops \in Kops
    BY <2>6 DEF NoValue, Kops
  <2>8. \E j \in DOMAIN s : s[j].kops # NoValue
    BY <1>5, <1>13
  <2> QED BY <1>1, <1>4, <2>7, <2>8
<1> QED BY <1>12, <1>13

(* result_from_attempts: a result that says OK rests on args.repeat        *)
(* attempts which ended alike.                                             *)
LEMMA BInvFinish ==
  ASSUME BInv, FinishParticipant
  PROVE  BInv'
<1>1. Running /\ phase = "run" /\ k <= Len(participants) /\ lab.begun /\ ~Attempting
  BY DEF FinishParticipant, Running
<1>2. /\ Alias \in Nat /\ SyncRecord.commit \in Commit
  BY <1>1, RecordFound DEF RecordType
<1>3. /\ attempts \in Seq(AttemptType) /\ Len(attempts) \in Nat /\ DOMAIN attempts = 1 .. Len(attempts)
      /\ Len(attempts) <= args.repeat /\ args.repeat \in Nat /\ args.repeat >= 1
  BY <1>1, BenchmarkAssumption, LenProperties
     DEF BInv, TypesInv, AttemptsInv, ParticipantsInv, Begun
<1>4. \A j \in 1 .. Len(attempts) : attempts[j] \in AttemptType
  BY <1>3, ElementOfSeq
<1>5. PICK P : P = {j \in DOMAIN attempts : attempts[j].status = "OK"}
  OBVIOUS
<1>6. /\ Successful \in Seq(AttemptType) /\ DOMAIN Successful = 1 .. Len(Successful)
      /\ Len(Successful) \in Nat
      /\ \A j \in 1 .. Len(Successful) : \E i \in P : Successful[j] = attempts[i]
      /\ Successful = <<>> <=> P = {}
  <2>1. PICK t, s, X : t = Successful /\ s = attempts /\ X = AttemptType
    OBVIOUS
  <2>2. s \in Seq(X) /\ P \in SUBSET (DOMAIN s) /\ t = AtPositions(s, P)
    BY <1>3, <1>5, <2>1 DEF Successful
  <2>3. t \in Seq(X) /\ Len(t) \in Nat /\ DOMAIN t = 1 .. Len(t)
    BY <2>2, Comprehension
  <2>4. \A j \in 1 .. Len(t) : \E i \in P : t[j] = s[i]
    BY <2>2, Comprehension
  <2>5. t = <<>> <=> P = {}
    BY <2>2, Comprehension
  <2> QED BY <2>1, <2>3, <2>4, <2>5
<1>7. \A j \in 1 .. Len(Successful) : Successful[j] \in AttemptType
  BY <1>3, <1>4, <1>5, <1>6
<1>8. CASE Successful = <<>>
  <2>1. 1 \in DOMAIN attempts
    <3>1. Len(attempts) = 0 => \A j \in DOMAIN attempts : attempts[j].status = "OK"
      BY <1>3
    <3>2. Len(attempts) # 0
      BY <1>1, <1>3, <3>1 DEF Attempting
    <3> QED BY <1>3, <3>2
  <2>2. attempts[1].status \in {"BUILD_FAIL", "RUN_FAIL"}
    <3>1. attempts[1].status # "OK"
      BY <1>5, <1>6, <1>8, <2>1
    <3>2. attempts[1].status \in {"OK", "BUILD_FAIL", "RUN_FAIL"}
      BY <1>3, <1>4, <2>1 DEF AttemptType
    <3> QED BY <3>1, <3>2
  <2>3. Verdict = attempts[1].status
    BY <1>8 DEF Verdict
  <2>4. PICK r : r = Result(Verdict, attempts, NoValue, NoValue, NoValue)
    OBVIOUS
  <2>5. NoValue \in Int /\ NoValue \in Kops /\ Verdict \in Statuses /\ Verdict # "OK"
    BY <2>2, <2>3 DEF NoValue, Statuses, Kops
  <2>6. r \in ResultType /\ r.alias = Alias /\ r.status # "OK"
    BY <1>2, <1>3, <2>4, <2>5 DEF Result, ResultType
  <2>7. Finish(r)
    BY <1>8, <2>4 DEF FinishParticipant
  <2>8. FinishStep(r)
    BY <1>1, <2>6, <2>7 DEF FinishStep, Stable
  <2> QED BY <2>8, FinishStepKeeps
<1>9. CASE Successful # <<>>
  <2>1. PICK n : n = Len(Successful)
    OBVIOUS
  <2>2. n \in Nat \ {0} /\ 1 \in 1 .. n
    BY <1>6, <1>9, <2>1, EmptySeq
  <2>3. PICK perf, kops : Medians(perf, kops)
    BY DEF Medians
  <2>4. Successful[1].correct \in Int
    BY <1>6, <1>7, <2>1, <2>2 DEF AttemptType
  <2>5. /\ perf \in Int /\ kops \in Kops
        /\ kops # NoValue <=> \E j \in DOMAIN Successful : Successful[j].kops # NoValue
    BY <1>6, <1>9, <2>3, MediansTaken
  <2>6. \A j \in 1 .. n : Successful[j].correct \in Corrects
    BY <1>6, <2>1 DEF Corrects
  <2>7. IsFiniteSet(Corrects) /\ Cardinality(Corrects) \in Nat \ {0}
    <3>1. PICK f : f = [j \in 1 .. n |-> Successful[j].correct]
      OBVIOUS
    <3>2. Corrects = Range(f) /\ f \in Surjection(1 .. n, Corrects)
      BY <1>6, <2>1, <3>1 DEF Corrects, Surjection, Range
    <3>3. IsFiniteSet(1 .. n)
      BY <2>2, FS_Interval
    <3>4. IsFiniteSet(Corrects)
      BY <3>2, <3>3, FS_Surjection
    <3> QED BY <2>2, <2>6, <3>4, FS_CardinalityType, FS_EmptySet
  <2>8. Verdict \in {"UNSTABLE", "INCORRECT", "OK"}
        /\ (Verdict = "OK" => /\ Successful = attempts /\ Cardinality(Corrects) = 1
                              /\ ~(Successful[1].correct < Expected))
    <3>1. CASE Successful # attempts \/ Cardinality(Corrects) > 1
      <4>1. Verdict = "UNSTABLE"
        BY <1>9, <2>7, <3>1 DEF Verdict
      <4> QED BY <4>1
    <3>2. CASE Successful = attempts /\ Cardinality(Corrects) = 1
      <4>1. Verdict = IF Successful[1].correct < Expected THEN "INCORRECT" ELSE "OK"
        BY <1>9, <3>2 DEF Verdict
      <4> QED BY <3>2, <4>1
    <3>3. Cardinality(Corrects) > 1 \/ Cardinality(Corrects) = 1
      BY <2>7
    <3> QED BY <3>1, <3>2, <3>3
  <2>9. PICK r : r = Result(Verdict, attempts, Successful[1].correct, perf, kops)
    OBVIOUS
  <2>10. r \in ResultType /\ r.alias = Alias
    <3>1. Verdict \in Statuses
      BY <2>8 DEF Statuses
    <3> QED BY <1>2, <1>3, <2>4, <2>5, <2>9, <3>1 DEF Result, ResultType
  <2>11. r.status = Verdict /\ r.attempts = attempts /\ r.correct = Successful[1].correct
    BY <2>9 DEF Result
  <2>12. ASSUME Verdict = "OK"
         PROVE  /\ Len(attempts) = args.repeat /\ Successful[1].correct >= Expected
                /\ \A j \in DOMAIN attempts :
                      attempts[j].status = "OK" /\ attempts[j].correct = Successful[1].correct
    <3>1. /\ Successful = attempts /\ Cardinality(Corrects) = 1
          /\ ~(Successful[1].correct < Expected)
      BY <2>8, <2>12
    <3>2. ASSUME NEW j \in DOMAIN attempts PROVE attempts[j].status = "OK"
      <4>1. j \in 1 .. Len(Successful)
        BY <1>3, <3>1
      <4>2. PICK i \in P : Successful[j] = attempts[i]
        BY <1>6, <4>1
      <4> QED BY <1>5, <3>1, <4>2
    <3>3. Len(attempts) = args.repeat
      BY <1>1, <1>3, <3>2 DEF Attempting
    <3>4. PICK x : Corrects = {x}
      BY <2>7, <3>1, FS_Singleton
    <3>5. \A j \in DOMAIN attempts : attempts[j].correct = Successful[1].correct
      BY <1>3, <2>1, <2>2, <2>6, <3>1, <3>4
    <3>6. Successful[1].correct >= Expected
      BY <2>4, <3>1, BenchmarkAssumption
    <3> QED BY <3>2, <3>3, <3>5, <3>6
  <2>13. Stable(r, args.repeat)
    <3>1. r.kops = kops
      BY <2>9 DEF Result
    <3>2. Verdict = "OK" => ThroughputOfAttempts(r)
      BY <2>5, <2>8, <2>11, <3>1 DEF ThroughputOfAttempts
    <3> QED BY <2>11, <2>12, <3>2 DEF Stable
  <2>14. Finish(r)
    BY <1>9, <2>3, <2>9 DEF FinishParticipant, Medians
  <2>15. FinishStep(r)
    BY <1>1, <2>10, <2>13, <2>14 DEF FinishStep
  <2> QED BY <2>15, FinishStepKeeps
<1> QED BY <1>8, <1>9

-----------------------------------------------------------------------------
(* The ranked of n rows t are the first of them, numbered by their places, *)
(* the better before the worse.                                            *)
RankedFirst(ranked, t, n) ==
    /\ \A i, j \in 1 .. n : i < j /\ j \in ranked => i \in ranked
    /\ \A j \in ranked : Cardinality({i \in ranked : i <= j}) = j
    /\ \A i, j \in 1 .. n : i < j /\ j \in ranked =>
          \/ t[i].score > t[j].score
          \/ t[i].score = t[j].score /\ t[i].kops >= t[j].kops

LEMMA RankedComeFirst ==
  ASSUME NEW n \in Nat, NEW t, \A i \in 1 .. n : Keyed(t[i]),
         \A i, j \in 1 .. n : i < j => ~Before(t[j], t[i]),
         NEW ranked, ranked = {j \in 1 .. n : t[j].status = "OK"}
  PROVE  RankedFirst(ranked, t, n)
<1>1. ASSUME NEW i \in 1 .. n, NEW j \in 1 .. n, i < j, j \in ranked
      PROVE  i \in ranked
  <2>1. t[j].status = "OK" /\ t[i].status \in Statuses
    BY <1>1 DEF Keyed
  <2>2. SUFFICES ASSUME t[i].status # "OK" PROVE FALSE
    OBVIOUS
  <2>3. StatusRank[t[j].status] < StatusRank[t[i].status]
    BY <2>1, <2>2 DEF Statuses, StatusRank
  <2> QED BY <1>1, <2>3 DEF Before
<1>2. ASSUME NEW j \in ranked PROVE Cardinality({i \in ranked : i <= j}) = j
  <2>1. j \in 1 .. n /\ j \in Nat
    OBVIOUS
  <2>2. {i \in ranked : i <= j} = 1 .. j
    <3>1. ASSUME NEW i \in 1 .. j PROVE i \in ranked
      BY <1>1, <2>1
    <3> QED BY <2>1, <3>1
  <2>3. Cardinality(1 .. j) = j
    BY <2>1, FS_Interval
  <2> QED BY <2>2, <2>3
<1>3. ASSUME NEW i \in 1 .. n, NEW j \in 1 .. n, i < j, j \in ranked
      PROVE  \/ t[i].score > t[j].score
             \/ t[i].score = t[j].score /\ t[i].kops >= t[j].kops
  <2>1. t[i].status = "OK" /\ t[j].status = "OK"
    BY <1>1, <1>3
  <2>2. ~Before(t[j], t[i]) /\ Keyed(t[i]) /\ Keyed(t[j])
    BY <1>3
  <2> QED BY <2>1, <2>2 DEF Before, Keyed
<1> QED BY <1>1, <1>2, <1>3 DEF RankedFirst

(* The summary has every result once, ranked as it should be.              *)
LEMMA BInvSummary ==
  ASSUME BInv, WriteSummary
  PROVE  BInv'
<1>1. /\ phase = "run" /\ k > Len(participants) /\ phase' = "done"
      /\ args' = args /\ participants' = participants /\ remote' = remote
      /\ clone' = clone /\ k' = k /\ records' = records /\ lab' = lab
      /\ attempts' = attempts /\ results' = results
  BY DEF WriteSummary
<1>2. PICK n : n = Len(participants)
  OBVIOUS
<1>3. /\ participants \in Seq([alias : Nat, enabled : BOOLEAN])
      /\ \A i, j \in 1 .. n : participants[i].alias = participants[j].alias => i = j
  BY <1>1, <1>2 DEF BInv, ParticipantsInv, Begun
<1>4. n \in Nat /\ DOMAIN participants = 1 .. n
  BY <1>2, <1>3, LenProperties
<1>5. /\ results \in Seq(ResultType) /\ k \in Nat \ {0} /\ Len(results) = k - 1 /\ k - 1 <= n
      /\ \A j \in 1 .. Len(results) :
            results[j].alias = participants[j].alias /\ Stable(results[j], args.repeat)
  BY <1>1, <1>2 DEF BInv, TypesInv, ResultsInv, Begun
<1>6. Len(results) = n /\ DOMAIN results = 1 .. n
  BY <1>1, <1>2, <1>4, <1>5, LenProperties
<1>7. \A i \in 1 .. n : /\ Keyed(results[i])
                        /\ results[i].kops \in Kops
                        /\ results[i].status = "OK" => ThroughputOfAttempts(results[i])
  <2>1. \A i \in 1 .. n : results[i] \in ResultType
    BY <1>5, <1>6, ElementOfSeq
  <2>2. \A r \in ResultType : Keyed(r) /\ r.kops \in Kops
    BY DEF ResultType, Keyed, Kops, NoValue
  <2>3. \A i \in 1 .. n : Stable(results[i], args.repeat)
    BY <1>5, <1>6
  <2> QED BY <2>1, <2>2, <2>3 DEF Stable
<1>8. PICK s, t : s = results /\ t = Sorted(results, Before)
  OBVIOUS
<1>9. PICK L : L = {e \in (1 .. n) \X (1 .. n) : ~Before(s[e[2]], s[e[1]])}
  OBVIOUS
<1>10. Rearranges(Sorted(s, Before), s, n, L)
  <2>1. DOMAIN s = 1 .. n /\ \A i \in 1 .. n : Keyed(s[i])
    BY <1>6, <1>7, <1>8
  <2> QED BY <1>4, <1>9, <2>1, ResultsSorted
<1>11. PICK q : Arranges(q, L, n) /\ t = [i \in 1 .. n |-> s[q[i]]]
  BY <1>8, <1>10 DEF Rearranges
<1>12. /\ q \in [1 .. n -> 1 .. n]
       /\ \A i, j \in 1 .. n : q[i] = q[j] => i = j
       /\ \A x \in 1 .. n : \E i \in 1 .. n : q[i] = x
       /\ \A i, j \in 1 .. n : i < j => <<q[i], q[j]>> \in L
  BY <1>11 DEF Arranges
<1>13. DOMAIN t = 1 .. n /\ \A i \in 1 .. n : t[i] = s[q[i]] /\ q[i] \in 1 .. n
  BY <1>11, <1>12
<1>14. \A i \in 1 .. n : /\ Keyed(t[i])
                         /\ t[i].alias = participants[q[i]].alias
                         /\ t[i].kops \in Kops
                         /\ t[i].status = "OK" => ThroughputOfAttempts(t[i])
  BY <1>5, <1>6, <1>7, <1>8, <1>13
<1>15. ASSUME NEW i \in 1 .. n, NEW j \in 1 .. n, i < j PROVE ~Before(t[j], t[i])
  <2>1. \A x, y \in 1 .. n : <<x, y>> \in L => ~Before(s[y], s[x])
    BY <1>9
  <2>2. ~Before(s[q[j]], s[q[i]])
    BY <1>12, <1>13, <1>15, <2>1
  <2> QED BY <1>13, <2>2
<1>16. PICK ranked : ranked = {j \in 1 .. n : t[j].status = "OK"}
  OBVIOUS
<1>17. /\ \A i, j \in 1 .. n : i < j /\ j \in ranked => i \in ranked
       /\ \A j \in ranked : Cardinality({i \in ranked : i <= j}) = j
       /\ \A i, j \in 1 .. n : i < j /\ j \in ranked =>
             \/ t[i].score > t[j].score
             \/ t[i].score = t[j].score /\ t[i].kops >= t[j].kops
  <2>1. \A i \in 1 .. n : Keyed(t[i])
    BY <1>14
  <2>2. \A i, j \in 1 .. n : i < j => ~Before(t[j], t[i])
    BY <1>15
  <2>3. RankedFirst(ranked, t, n)
    BY <1>4, <1>16, <2>1, <2>2, RankedComeFirst
  <2> QED BY <2>3 DEF RankedFirst
<1>18. rows' = [j \in 1 .. n |->
                  [rank   |-> IF j \in ranked
                                THEN Cardinality({i \in ranked : i <= j}) ELSE 0,
                   result |-> t[j]]]
  BY <1>8, <1>13, <1>16 DEF WriteSummary
<1>19. /\ DOMAIN rows' = 1 .. n /\ Len(rows') = n
       /\ \A j \in 1 .. n : /\ rows'[j].result = t[j]
                            /\ rows'[j].rank = IF t[j].status = "OK" THEN j ELSE 0
  <2>1. DOMAIN rows' = 1 .. n /\ \A j \in 1 .. n :
          rows'[j] = [rank   |-> IF j \in ranked
                                   THEN Cardinality({i \in ranked : i <= j}) ELSE 0,
                      result |-> t[j]]
    BY <1>18
  <2>2. Len(rows') = n
    BY <1>4, <1>18
  <2>3. ASSUME NEW j \in 1 .. n
        PROVE  rows'[j].result = t[j] /\ rows'[j].rank = IF t[j].status = "OK" THEN j ELSE 0
    <3>1. CASE j \in ranked
      <4>1. rows'[j] = [rank |-> j, result |-> t[j]] /\ t[j].status = "OK"
        BY <1>16, <1>17, <2>1, <3>1
      <4> QED BY <4>1
    <3>2. CASE j \notin ranked
      <4>1. rows'[j] = [rank |-> 0, result |-> t[j]] /\ t[j].status # "OK"
        BY <1>16, <2>1, <3>2
      <4> QED BY <4>1
    <3> QED BY <3>1, <3>2
  <2> QED BY <2>1, <2>2, <2>3
<1>20. TypesInv'
  BY <1>1 DEF BInv, TypesInv, Phases
<1>21. ParticipantsInv'
  BY <1>1 DEF BInv, ParticipantsInv, Begun
<1>22. RecordsInv'
  BY <1>1 DEF BInv, RecordsInv, Begun
<1>23. AttemptsInv'
  <2>1. ~lab.begun
    BY <1>1, <1>2, <1>4, <1>5 DEF BInv, AttemptsInv
  <2> QED BY <1>1, <2>1 DEF BInv, AttemptsInv
<1>24. ResultsInv'
  BY <1>1, <1>2, <1>5, <1>6 DEF ResultsInv
<1>25. EveryoneListedOnce'
  <2>1. ASSUME NEW i \in 1 .. n
        PROVE  Cardinality({j \in 1 .. n : rows'[j].result.alias = participants[i].alias}) = 1
    <3>1. PICK x \in 1 .. n : q[x] = i
      BY <1>12
    <3>2. ASSUME NEW j \in 1 .. n
          PROVE  rows'[j].result.alias = participants[i].alias <=> j = x
      <4>1. rows'[j].result.alias = participants[q[j]].alias /\ q[j] \in 1 .. n
        BY <1>13, <1>14, <1>19
      <4>2. participants[q[j]].alias = participants[i].alias <=> q[j] = i
        BY <1>3, <4>1
      <4>3. q[j] = i <=> j = x
        BY <1>12, <3>1
      <4> QED BY <4>1, <4>2, <4>3
    <3>3. {j \in 1 .. n : rows'[j].result.alias = participants[i].alias} = {x}
      BY <3>2
    <3> QED BY <3>3, FS_Singleton
  <2> QED BY <1>1, <1>2, <1>4, <1>19, <2>1 DEF EveryoneListedOnce
<1>26. RanksFollowResults'
  <2>1. \A i \in 1 .. n : i > 0 /\ i \in Nat
    BY <1>4
  <2>2. ASSUME NEW i \in 1 .. n
        PROVE  /\ rows'[i].rank > 0 => rows'[i].rank = i
               /\ (rows'[i].rank > 0) = (t[i].status = "OK")
               /\ rows'[i].rank > 0 <=> i \in ranked
               /\ rows'[i].rank = 0 <=> i \notin ranked
               /\ rows'[i].rank > 0 => ThroughputOfAttempts(t[i])
    <3>1. CASE i \in ranked
      <4>1. t[i].status = "OK" /\ rows'[i].rank = i /\ ThroughputOfAttempts(t[i])
        BY <1>14, <1>16, <1>19, <3>1
      <4> QED BY <2>1, <3>1, <4>1
    <3>2. CASE i \notin ranked
      <4>1. t[i].status # "OK" /\ rows'[i].rank = 0
        BY <1>16, <1>19, <3>2
      <4> QED BY <3>2, <4>1
    <3> QED BY <3>1, <3>2
  <2>3. ASSUME NEW i \in 1 .. n, NEW j \in 1 .. n
        PROVE  /\ rows'[i].rank > 0 /\ rows'[j].rank = 0 => i < j
               /\ i < j /\ rows'[j].rank > 0 => NoWorse(t[i], t[j])
    <3>1. /\ i < j /\ j \in ranked => i \in ranked
          /\ j < i /\ i \in ranked => j \in ranked
          /\ i < j /\ j \in ranked =>
                \/ t[i].score > t[j].score
                \/ t[i].score = t[j].score /\ t[i].kops >= t[j].kops
      BY <1>17
    <3>2. t[i].kops >= t[j].kops /\ t[j].kops # NoValue => t[i].kops # NoValue
      <4>1. PICK a, b : a = t[i].kops /\ b = t[j].kops
        OBVIOUS
      <4>2. a \in Kops /\ b \in Kops
        BY <1>14, <4>1
      <4>3. a >= b /\ b # NoValue => a # NoValue
        BY <4>2 DEF Kops, NoValue
      <4> QED BY <4>1, <4>3
    <3> QED BY <2>1, <2>2, <3>1, <3>2 DEF NoWorse
  <2>4. \A i \in 1 .. n : rows'[i].result = t[i]
    BY <1>19
  <2> QED BY <1>19, <2>2, <2>3, <2>4 DEF RanksFollowResults
<1>27. RowsInv'
  BY <1>1, <1>25, <1>26 DEF RowsInv
<1> QED BY <1>20, <1>21, <1>22, <1>23, <1>24, <1>27 DEF BInv

(* A push changes nobody's clone.                                          *)
LEMMA BInvPush ==
  ASSUME BInv, NEW p \in Aliases, Push(p)
  PROVE  BInv'
<1>1. /\ remote' = [remote EXCEPT ![p] = @ + 1] /\ args' = args
      /\ participants' = participants /\ clone' = clone /\ phase' = phase /\ k' = k
      /\ records' = records /\ lab' = lab /\ attempts' = attempts
      /\ results' = results /\ rows' = rows
  BY DEF Push
<1>2. TypesInv'
  <2>1. remote' \in [Aliases -> Nat]
    BY <1>1 DEF BInv, TypesInv
  <2> QED BY <1>1, <2>1 DEF BInv, TypesInv
<1>3. ParticipantsInv' /\ RecordsInv'
  BY <1>1 DEF BInv, ParticipantsInv, RecordsInv, Begun
<1>4. AttemptsInv' /\ ResultsInv'
  BY <1>1 DEF BInv, AttemptsInv, ResultsInv, Begun
<1>5. RowsInv'

  <2>1. EveryoneListedOnce'
    BY <1>1 DEF BInv, RowsInv, EveryoneListedOnce
  <2>2. RanksFollowResults'
    BY <1>1 DEF BInv, RowsInv, RanksFollowResults
  <2> QED BY <1>1, <2>1, <2>2 DEF BInv, RowsInv
<1> QED BY <1>2, <1>3, <1>4, <1>5 DEF BInv

LEMMA BInvStutter ==
  ASSUME BInv, UNCHANGED vars
  PROVE  BInv'
<1>1. /\ remote' = remote /\ args' = args
      /\ participants' = participants /\ clone' = clone /\ phase' = phase /\ k' = k
      /\ records' = records /\ lab' = lab /\ attempts' = attempts
      /\ results' = results /\ rows' = rows
  BY DEF vars
<1>2. TypesInv' /\ ParticipantsInv' /\ RecordsInv'
  BY <1>1 DEF BInv, TypesInv, ParticipantsInv, RecordsInv, Begun
<1>3. AttemptsInv' /\ ResultsInv'
  BY <1>1 DEF BInv, AttemptsInv, ResultsInv, Begun
<1>4. RowsInv'

  <2>1. EveryoneListedOnce'
    BY <1>1 DEF BInv, RowsInv, EveryoneListedOnce
  <2>2. RanksFollowResults'
    BY <1>1 DEF BInv, RowsInv, RanksFollowResults
  <2> QED BY <1>1, <2>1, <2>2 DEF BInv, RowsInv
<1> QED BY <1>2, <1>3, <1>4 DEF BInv

(* The inductive invariant of a run: who has what, and who it is of.       *)
THEOREM RunInvariance == Spec => []BInv
<1>1. Init => BInv
  BY BInvInit
<1>2. BInv /\ [Next \/ \E p \in Aliases : Push(p)]_vars => BInv'
  <2> SUFFICES ASSUME BInv, [Next \/ \E p \in Aliases : Push(p)]_vars
               PROVE  BInv'
    OBVIOUS
  <2>1. CASE ReadParticipants
    BY <2>1, BInvRead
  <2>2. CASE \/ NotTheClone \/ RefuseDirty \/ FetchFails \/ NoBranch \/ BecameDirty
             \/ PullFails \/ Pulled \/ TakeClone
    BY <2>2, BInvSync
  <2>3. CASE NoCommitToTake
    BY <2>3, BInvNoCommit
  <2>4. CASE BeginRun
    BY <2>4, BInvBegin
  <2>5. CASE NotSynced \/ NoSource \/ HarnessDiff
    BY <2>5, BInvNotMeasured
  <2>6. CASE BeginAttempts
    BY <2>6, BInvBeginAttempts
  <2>7. CASE BuildFails \/ RunFails \/ RunSucceeds
    BY <2>7, BInvAttempt
  <2>8. CASE CopyRaises
    BY <2>8, BInvCopyRaises
  <2>9. CASE FinishParticipant
    BY <2>9, BInvFinish
  <2>10. CASE WriteSummary
    BY <2>10, BInvSummary
  <2>11. CASE \E p \in Aliases : Push(p)
    BY <2>11, BInvPush
  <2>12. CASE UNCHANGED vars
    BY <2>12, BInvStutter
  <2> QED BY <2>1, <2>2, <2>3, <2>4, <2>5, <2>6, <2>7, <2>8, <2>9, <2>10, <2>11, <2>12 DEF Next
<1> QED BY <1>1, <1>2, PTL DEF Spec

(* What is measured is what sync.json reports (sync_repo, build_worktree). *)
THEOREM ReportedIsMeasured == Spec => []ReportIsMeasured
<1>1. BInv => ReportIsMeasured
  <2> SUFFICES ASSUME BInv, NEW j \in DOMAIN attempts
               PROVE  /\ attempts[j].tree.commit = SyncRecord.commit
                      /\ SyncRecord.dirty \in {"unknown", attempts[j].tree.dirty}
    BY DEF ReportIsMeasured
  <2>1. j \in 1 .. Len(attempts) /\ attempts # <<>>
    BY LenProperties, EmptySeq DEF BInv, TypesInv
  <2>2. /\ attempts[j].tree = TreeOf(clone[participants[k].alias])
        /\ phase \in {"run", "crashed"} /\ k <= Len(participants)
        /\ records[k].status = "SYNCED"
    BY <2>1 DEF BInv, AttemptsInv
  <2>3. /\ SyncRecord = records[k] /\ Alias = participants[k].alias
        /\ TellsOf(records[k], participants[k], clone[Alias])
    BY <2>2, RecordFound
  <2> QED BY <2>2, <2>3 DEF TellsOf
<1>2. Spec => []BInv
  BY RunInvariance
<1> QED BY <1>1, <1>2, PTL

(* A ranked row rests on args.repeat attempts that ended alike.            *)
THEOREM RankedAreStable == Spec => []RankedRowsAreStable
<1>1. BInv => RankedRowsAreStable
  <2> SUFFICES ASSUME BInv, NEW r \in {results[j] : j \in DOMAIN results}, r.status = "OK"
               PROVE  /\ Len(r.attempts) = args.repeat
                      /\ \A j \in DOMAIN r.attempts :
                            r.attempts[j].status = "OK" /\ r.attempts[j].correct = r.correct
                      /\ r.correct >= Expected
    BY DEF RankedRowsAreStable
  <2>1. PICK j \in 1 .. Len(results) : r = results[j]
    BY LenProperties DEF BInv, TypesInv
  <2>2. Stable(r, args.repeat)
    BY <2>1 DEF BInv, ResultsInv
  <2> QED BY <2>2 DEF Stable
<1>2. Spec => []BInv
  BY RunInvariance
<1> QED BY <1>1, <1>2, PTL

(* The summary lists every participant exactly once (run_participant).     *)
THEOREM AllAreListed == Spec => []EveryoneListedOnce
<1>1. BInv => EveryoneListedOnce
  BY DEF BInv, RowsInv
<1>2. Spec => []BInv
  BY RunInvariance
<1> QED BY <1>1, <1>2, PTL

(* Its ranks follow the results (sort_results, to_csv_rows).               *)
THEOREM RanksAreRight == Spec => []RanksFollowResults
<1>1. BInv => RanksFollowResults
  BY DEF BInv, RowsInv
<1>2. Spec => []BInv
  BY RunInvariance
<1> QED BY <1>1, <1>2, PTL

=============================================================================
