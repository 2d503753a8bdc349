---------------------------- MODULE Fsecs_proofs ----------------------------
(***************************************************************************)
(* The timing functions, for any halves of a counter, any interrupts, any  *)
(* work and any settings.                                                  *)
(***************************************************************************)
EXTENDS Fsecs, FiniteSetTheorems, SequenceTheorems, TLAPS

(* Quotient and remainder.                                                 *)
LEMMA DivMod ==
    ASSUME NEW a \in Int, NEW b \in Nat \ {0}
    PROVE  /\ a \div b \in Int /\ a % b \in 0 .. b - 1
           /\ a = b * (a \div b) + (a % b)
           /\ a >= 0 => a \div b \in Nat
OBVIOUS

(* They are the only ones.                                                 *)
LEMMA DivModIs ==
    ASSUME NEW a \in Int, NEW b \in Nat \ {0}, NEW q \in Int, NEW r \in 0 .. b - 1,
           a = b * q + r
    PROVE  a \div b = q /\ a % b = r
OBVIOUS

(* What is below a product has a quotient below the other factor.          *)
LEMMA DivBelow ==
    ASSUME NEW a \in Nat, NEW b \in Nat \ {0}, NEW c \in Nat, a < b * c
    PROVE  a \div b \in 0 .. c - 1
OBVIOUS

(* A remainder may be taken before a sum or after it.                      *)
LEMMA ModAdd ==
    ASSUME NEW a \in Int, NEW x \in Int, NEW m \in Nat \ {0}
    PROVE  ((a % m) + x) % m = (a + x) % m
<1>1. PICK q, r : q = a \div m /\ r = a % m
    OBVIOUS
<1>2. q \in Int /\ r \in 0 .. m - 1 /\ a = m * q + r
    BY <1>1, DivMod
<1>3. PICK p, s : p = (r + x) \div m /\ s = (r + x) % m
    OBVIOUS
<1>4. p \in Int /\ s \in 0 .. m - 1 /\ r + x = m * p + s
    BY <1>2, <1>3, DivMod
<1>5. PICK y, k : y = a + x /\ k = q + p
    OBVIOUS
<1>6. y \in Int /\ k \in Int /\ y = m * k + s
    BY <1>2, <1>4, <1>5
<1>7. y % m = s
    BY <1>4, <1>6, DivModIs
<1> QED BY <1>1, <1>3, <1>5, <1>7

(* The remainder of a difference that is at most once around.              *)
LEMMA ModOnce ==
    ASSUME NEW a \in Int, NEW b \in Nat \ {0}, a >= -b, a < b
    PROVE  a % b = IF a >= 0 THEN a ELSE a + b
<1>1. CASE a >= 0
    <2>1. a \in 0 .. b - 1 /\ a = b * 0 + a
        BY <1>1
    <2> QED BY <1>1, <2>1, DivModIs
<1>2. CASE a < 0
    <2>1. PICK r : r = a + b
        OBVIOUS
    <2>2. r \in 0 .. b - 1 /\ a = b * (-1) + r
        BY <1>2, <2>1
    <2> QED BY <1>2, <2>1, <2>2, DivModIs
<1> QED BY <1>1, <1>2

(* Two readings subtracted half by half, the upper half less the borrow.   *)
LEMMA HalvesSubtract ==
    ASSUME NEW H \in Nat \ {0}, NEW nh \in 0 .. H - 1, NEW nl \in 0 .. H - 1,
           NEW ch \in 0 .. H - 1, NEW cl \in 0 .. H - 1,
           NEW lo, lo = (nl - cl) % H,
           NEW hi, hi = (nh - ch - (IF lo > nl THEN 1 ELSE 0)) % H
    PROVE  /\ hi * H + lo \in 0 .. H * H - 1
           /\ \E d \in {0, 1} :
                 hi * H + lo = (nh * H + nl) - (ch * H + cl) + d * (H * H)
<1>1. lo \in 0 .. H - 1 /\ lo = nl - cl + (IF lo > nl THEN H ELSE 0)
    <2>1. PICK x : x = nl - cl
        OBVIOUS
    <2>2. x \in Int /\ x >= -H /\ x < H /\ lo = x % H
        BY <2>1
    <2>3. lo = IF x >= 0 THEN x ELSE x + H
        BY <2>2, ModOnce
    <2> QED BY <2>1, <2>3
<1>2. PICK b \in {0, 1} : b = IF lo > nl THEN 1 ELSE 0
    OBVIOUS
<1>3. lo = nl - cl + b * H
    BY <1>1, <1>2
<1>4. PICK x : x = nh - ch - b
    OBVIOUS
<1>5. x \in Int /\ x >= -H /\ x < H /\ hi = x % H
    BY <1>2, <1>4
<1>6. PICK d \in {0, 1} : hi = x + d * H /\ hi \in 0 .. H - 1
    <2>1. hi = IF x >= 0 THEN x ELSE x + H
        BY <1>5, ModOnce
    <2>2. CASE x >= 0
        BY <1>5, <2>1, <2>2
    <2>3. CASE x < 0
        BY <1>5, <2>1, <2>3
    <2> QED BY <1>5, <2>2, <2>3
<1>7. hi * H + lo \in 0 .. H * H - 1
    <2>1. hi * H <= (H - 1) * H /\ hi * H >= 0
        BY <1>6
    <2> QED BY <1>1, <2>1
<1>8. hi * H + lo = (nh * H + nl) - (ch * H + cl) + d * (H * H)
    BY <1>3, <1>4, <1>6
<1> QED BY <1>7, <1>8

-----------------------------------------------------------------------------
(* The values of the counter.                                              *)
Whole == 0 .. Half * Half - 1

Halves(c) == c.hi \in 0 .. Half - 1 /\ c.lo \in 0 .. Half - 1

(* The constants.                                                          *)
LEMMA ConstantTypes ==
    /\ Half \in Nat \ {0} /\ Slice \in Nat \ {0} /\ Half * Half \in Nat \ {0}
    /\ Costs \subseteq Nat \ {0} /\ Delays \subseteq Nat \ {0} /\ Starts \subseteq Whole
    /\ RECORDTHRESH \in Nat /\ Usec \in Nat \ {0} /\ MAX_ETIME \in Nat \ {0}
    /\ Runs \in Nat /\ Work \subseteq Nat \ {0} /\ Adjust \subseteq Int
    /\ MaxCalls \in Nat
<1>1. Half \in Nat \ {0} /\ Half * Half \in Nat \ {0}
    BY ClockAssumption
<1> QED BY <1>1, ClockAssumption, FcycAssumption, FsecsAssumption DEF Whole

(* A reading of the counter.                                               *)
LEMMA ReadingTypes ==
    ASSUME now \in Whole
    PROVE  /\ Halves(access_counter)
           /\ now = (now \div Half) * Half + (now % Half)
<1>1. now \in Nat /\ now < Half * Half /\ now \in Int
    BY ConstantTypes DEF Whole
<1>2. now \div Half \in 0 .. Half - 1
    BY <1>1, ConstantTypes, DivBelow
<1>3. now % Half \in 0 .. Half - 1 /\ now = Half * (now \div Half) + (now % Half)
    BY <1>1, ConstantTypes, DivMod
<1>4. PICK q, r : q = now \div Half /\ r = now % Half
    OBVIOUS
<1>5. 0 \in 0 .. Half - 1
    BY ConstantTypes
<1>6. access_counter.hi \in {0, q} /\ access_counter.lo = r
    BY <1>4 DEF access_counter
<1>7. Halves(access_counter)
    BY <1>2, <1>3, <1>4, <1>5, <1>6 DEF Halves
<1>8. now = q * Half + r
    BY <1>2, <1>3, <1>4, ConstantTypes
<1> QED BY <1>4, <1>7, <1>8

(* What get_counter makes of it.                                           *)
LEMMA CounterTypes ==
    ASSUME now \in Whole, Halves(cyc)
    PROVE  get_counter \in Whole
<1>1. PICK a : a = access_counter
    OBVIOUS
<1>2. Halves(a)
    BY <1>1, ReadingTypes
<1>3. PICK lo, hi : /\ lo = (a.lo - cyc.lo) % Half
                    /\ hi = (a.hi - cyc.hi - (IF lo > a.lo THEN 1 ELSE 0)) % Half
    OBVIOUS
<1>4. PICK nh \in 0 .. Half - 1, nl \in 0 .. Half - 1,
           ch \in 0 .. Half - 1, cl \in 0 .. Half - 1 :
        nh = a.hi /\ nl = a.lo /\ ch = cyc.hi /\ cl = cyc.lo
    BY <1>2 DEF Halves
<1>5. hi * Half + lo \in Whole
    BY <1>3, <1>4, ConstantTypes, HalvesSubtract DEF Whole
<1> QED BY <1>1, <1>3, <1>5 DEF get_counter, Difference

(* Time that passes, interrupts included.                                  *)
LEMMA PassTypes ==
    ASSUME now \in Whole, phase \in 0 .. Slice - 1, cost \in Costs,
           NEW d \in Nat, NEW t \in Nat, NEW o \in Nat, NEW n \in Nat, Pass(d, t, o, n)
    PROVE  /\ now' \in Whole /\ phase' \in 0 .. Slice - 1
           /\ ticks' \in Nat /\ own' \in Nat /\ inside' \in Nat
           /\ own' = o + d
           /\ now' = (now + ((own' - o) + (inside' - n) * cost)) % (Half * Half)
<1>1. PICK q, x : q = (phase + d) \div Slice /\ x = d + q * cost
    OBVIOUS
<1>2. phase + d \in Nat /\ phase + d \in Int /\ now \in Nat /\ cost \in Nat
    BY ConstantTypes DEF Whole
<1>3. q \in Nat /\ (phase + d) % Slice \in 0 .. Slice - 1
    <2>1. PICK y : y = phase + d
        OBVIOUS
    <2>2. y \in Int /\ y >= 0 /\ q = y \div Slice
        BY <1>1, <1>2, <2>1
    <2> QED BY <2>1, <2>2, ConstantTypes, DivMod
<1>4. /\ now' = (now + d + q * cost) % (Half * Half)
      /\ phase' = (phase + d) % Slice
      /\ ticks' = t + q /\ own' = o + d /\ inside' = n + q
    BY <1>1 DEF Pass
<1>5. now + d + q * cost = now + x /\ x \in Nat /\ now + x \in Int
    BY <1>1, <1>2, <1>3
<1>6. (now + x) % (Half * Half) \in Whole
    BY <1>5, ConstantTypes, DivMod DEF Whole
<1>7. x = (own' - o) + (inside' - n) * cost
    BY <1>1, <1>2, <1>3, <1>4
<1> QED BY <1>3, <1>4, <1>5, <1>6, <1>7

-----------------------------------------------------------------------------
(* A table is sorted.                                                      *)
Ascending(s) == \A j, k \in 1 .. Len(s) : j <= k => s[j] <= s[k]

(* r has the values of s and v; from[j] is the place at which the value at *)
(* j stood, Len(s) + 1 for v.                                              *)
Rearranged(s, v, r, from) ==
    LET places == 1 .. Len(s) + 1 IN
    /\ from \in [places -> places]
    /\ \A j, k \in places : from[j] = from[k] => j = k
    /\ \A k \in places : \E j \in places : from[j] = k
    /\ \A j \in places : r[j] = IF from[j] <= Len(s) THEN s[from[j]] ELSE v

(* The insertion sort.                                                     *)
LEMMA SortedFacts ==
    ASSUME NEW s \in Seq(Int), NEW v \in Int
    PROVE  /\ Sorted(s, v) \in Seq(Int) /\ Len(Sorted(s, v)) = Len(s) + 1
           /\ Ascending(s) =>
                /\ Ascending(Sorted(s, v))
                /\ \E from : Rearranged(s, v, Sorted(s, v), from)
<1>1. PICK n \in Nat : n = Len(s) /\ \A j \in 1 .. n : s[j] \in Int
    BY LenProperties, ElementOfSeq
<1>2. PICK r : r = Sorted(s, v)
    OBVIOUS
<1>3. \A j \in 1 .. n + 1 :
        r[j] = IF j <= n /\ s[j] <= v THEN s[j]
               ELSE IF j > 1 /\ s[j - 1] > v THEN s[j - 1] ELSE v
    BY <1>1, <1>2 DEF Sorted
<1>4. r \in [1 .. n + 1 -> Int]
    <2>1. ASSUME NEW j \in 1 .. n + 1 PROVE r[j] \in Int
        <3>1. j <= n => s[j] \in Int
            BY <1>1
        <3>2. j > 1 => s[j - 1] \in Int
            BY <1>1
        <3> QED BY <1>3, <3>1, <3>2
    <2> QED BY <1>1, <1>2, <2>1 DEF Sorted
<1>5. r \in Seq(Int) /\ Len(r) = n + 1
    BY <1>4, IsASeq, LenProperties
<1>6. ASSUME Ascending(s)
      PROVE  /\ Ascending(r)
             /\ \E from : Rearranged(s, v, r, from)
    <2>1. \A j, k \in 1 .. n : j <= k => s[j] <= s[k]
        BY <1>1, <1>6 DEF Ascending
    <2>2. ASSUME NEW j \in 1 .. n + 1, NEW k \in 1 .. n + 1, j <= k
          PROVE  r[j] <= r[k]
        <3>1. /\ j <= n => s[j] \in Int
              /\ k <= n => s[k] \in Int
              /\ j > 1 => s[j - 1] \in Int
              /\ k > 1 => s[k - 1] \in Int
            BY <1>1
        <3>2. k <= n => j <= n /\ s[j] <= s[k]
            BY <2>1, <2>2
        <3>3. j > 1 => k > 1 /\ s[j - 1] <= s[k - 1]
            BY <2>1, <2>2
        <3>4. j < k => j <= n /\ s[j] <= s[k - 1]
            BY <2>1, <2>2
        <3>5. r[j] = IF j <= n /\ s[j] <= v THEN s[j]
                     ELSE IF j > 1 /\ s[j - 1] > v THEN s[j - 1] ELSE v
            BY <1>3
        <3>6. r[k] = IF k <= n /\ s[k] <= v THEN s[k]
                     ELSE IF k > 1 /\ s[k - 1] > v THEN s[k - 1] ELSE v
            BY <1>3
        <3> QED BY <2>2, <3>1, <3>2, <3>3, <3>4, <3>5, <3>6
    <2>3. Ascending(r)
        BY <1>5, <2>2 DEF Ascending
    <2>4. PICK from : from = [j \in 1 .. n + 1 |->
                                IF j <= n /\ s[j] <= v THEN j
                                ELSE IF j > 1 /\ s[j - 1] > v THEN j - 1 ELSE n + 1]
        OBVIOUS
    <2>5. from \in [1 .. n + 1 -> 1 .. n + 1]
        BY <2>4
    <2>6. \A j \in 1 .. n + 1 :
            from[j] = IF j <= n /\ s[j] <= v THEN j
                      ELSE IF j > 1 /\ s[j - 1] > v THEN j - 1 ELSE n + 1
        BY <2>4
    <2>7. ASSUME NEW j \in 1 .. n + 1, NEW k \in 1 .. n + 1, from[j] = from[k], j < k
          PROVE  FALSE
        <3>1. j <= n /\ k > 1 /\ s[j] \in Int /\ s[k - 1] \in Int /\ s[j] <= s[k - 1]
            BY <1>1, <2>1, <2>7
        <3>2. /\ k <= n => s[k] \in Int /\ s[j] <= s[k]
              /\ j > 1 => s[j - 1] \in Int /\ s[j - 1] <= s[j]
            BY <1>1, <2>1, <2>7
        <3> QED BY <2>6, <2>7, <3>1, <3>2
    <2>8. \A j, k \in 1 .. n + 1 : from[j] = from[k] => j = k
        BY <2>7
    <2>9. ASSUME NEW k \in 1 .. n + 1
          PROVE  \E j \in 1 .. n + 1 : from[j] = k
        <3>1. from \in Injection(1 .. n + 1, 1 .. n + 1)
            BY <2>5, <2>8 DEF Injection, IsInjective
        <3>2. IsFiniteSet(1 .. n + 1)
            BY FS_Interval
        <3>3. from \in Surjection(1 .. n + 1, 1 .. n + 1)
            BY <3>1, <3>2, FS_Injection
        <3> QED BY <3>3 DEF Surjection
    <2>10. ASSUME NEW j \in 1 .. n + 1
           PROVE  r[j] = IF from[j] <= n THEN s[from[j]] ELSE v
        BY <1>3, <2>6
    <2>11. Rearranged(s, v, r, from)
        BY <1>1, <2>5, <2>8, <2>9, <2>10 DEF Rearranged
    <2> QED BY <2>3, <2>11
<1> QED BY <1>1, <1>2, <1>5, <1>6

-----------------------------------------------------------------------------
(* The values of s are samples of t, f[j] the number of that at j.         *)
Samples(s, t, f) ==
    /\ f \in [1 .. Len(s) -> 1 .. Len(t)]
    /\ \A j, k \in 1 .. Len(s) : f[j] = f[k] => j = k
    /\ \A j \in 1 .. Len(s) : s[j] = t[f[j]]

(* Sample n is none of those in the table.                                 *)
LeftOut(s, f, n) == \A j \in 1 .. Len(s) : f[j] # n

(* s is sorted, and has the k best samples of t, or all if they are fewer. *)
Best(s, t, k) ==
    /\ Ascending(s)
    /\ \E f : /\ Samples(s, t, f)
              /\ \A n \in 1 .. Len(t) : LeftOut(s, f, n) => Len(s) = k /\ t[n] >= s[k]

(* u is t and one sample more.                                             *)
OneMore(u, t, v) ==
    /\ u \in Seq(Int) /\ Len(u) = Len(t) + 1
    /\ \A n \in 1 .. Len(t) : u[n] = t[n]
    /\ u[Len(t) + 1] = v

(* r has samples of u and leaves out none that s, with f, does not.        *)
Inserted(r, u, s, t, f) ==
    \E g : /\ Samples(r, u, g)
           /\ \A n \in 1 .. Len(u) : LeftOut(r, g, n) => n <= Len(t) /\ LeftOut(s, f, n)

(* A sample more, and its place in the table.                              *)
LEMMA InsertSample ==
    ASSUME NEW s \in Seq(Int), NEW t \in Seq(Int), NEW v \in Int, NEW f, Samples(s, t, f),
           NEW r \in Seq(Int), Len(r) = Len(s) + 1, NEW from, Rearranged(s, v, r, from),
           NEW u, OneMore(u, t, v)
    PROVE  Inserted(r, u, s, t, f)
<1>1. PICK l \in Nat, m \in Nat : l = Len(s) /\ m = Len(t)
    BY LenProperties
<1>2. Len(u) = m + 1 /\ u[m + 1] = v /\ \A n \in 1 .. m : u[n] = t[n]
    BY <1>1 DEF OneMore
<1>3. /\ from \in [1 .. l + 1 -> 1 .. l + 1]
      /\ \A j, k \in 1 .. l + 1 : from[j] = from[k] => j = k
      /\ \A k \in 1 .. l + 1 : \E j \in 1 .. l + 1 : from[j] = k
      /\ \A j \in 1 .. l + 1 : r[j] = IF from[j] <= l THEN s[from[j]] ELSE v
    BY <1>1 DEF Rearranged
<1>4. /\ f \in [1 .. l -> 1 .. m]
      /\ \A j, k \in 1 .. l : f[j] = f[k] => j = k
      /\ \A j \in 1 .. l : s[j] = t[f[j]]
    BY <1>1 DEF Samples
<1>5. PICK g : g = [j \in 1 .. l + 1 |-> IF from[j] <= l THEN f[from[j]] ELSE m + 1]
    OBVIOUS
<1>6. ASSUME NEW j \in 1 .. l + 1, NEW p, p = from[j]
      PROVE  \/ p \in 1 .. l /\ g[j] = f[p] /\ f[p] \in 1 .. m /\ r[j] = s[p]
             \/ p = l + 1 /\ g[j] = m + 1 /\ r[j] = v
    <2>1. p \in 1 .. l + 1 /\ g[j] = (IF p <= l THEN f[p] ELSE m + 1)
        BY <1>3, <1>5, <1>6
    <2>2. r[j] = IF p <= l THEN s[p] ELSE v
        BY <1>3, <1>6
    <2>3. p \in 1 .. l => f[p] \in 1 .. m
        BY <1>4
    <2> QED BY <2>1, <2>2, <2>3
<1>7. g \in [1 .. l + 1 -> 1 .. m + 1]
    <2>1. ASSUME NEW j \in 1 .. l + 1 PROVE g[j] \in 1 .. m + 1
        <3>1. PICK p : p = from[j]
            OBVIOUS
        <3>2. g[j] \in 1 .. m \/ g[j] = m + 1
            BY <1>6, <3>1
        <3> QED BY <3>2
    <2> QED BY <1>5, <2>1
<1>8. ASSUME NEW j \in 1 .. l + 1, NEW k \in 1 .. l + 1, g[j] = g[k]
      PROVE  j = k
    <2>1. PICK p, q : p = from[j] /\ q = from[k]
        OBVIOUS
    <2>2. \/ p \in 1 .. l /\ g[j] = f[p] /\ f[p] \in 1 .. m
          \/ p = l + 1 /\ g[j] = m + 1
        BY <1>6, <2>1
    <2>3. \/ q \in 1 .. l /\ g[k] = f[q] /\ f[q] \in 1 .. m
          \/ q = l + 1 /\ g[k] = m + 1
        BY <1>6, <2>1
    <2>4. p = q
        BY <1>4, <1>8, <2>2, <2>3
    <2> QED BY <1>3, <2>1, <2>4
<1>9. ASSUME NEW j \in 1 .. l + 1
      PROVE  r[j] = u[g[j]]
    <2>1. PICK p : p = from[j]
        OBVIOUS
    <2>2. CASE p \in 1 .. l /\ g[j] = f[p] /\ f[p] \in 1 .. m /\ r[j] = s[p]
        <3>1. u[f[p]] = t[f[p]] /\ s[p] = t[f[p]]
            BY <1>2, <1>4, <2>2
        <3> QED BY <2>2, <3>1
    <2>3. CASE g[j] = m + 1 /\ r[j] = v
        BY <1>2, <2>3
    <2> QED BY <1>6, <2>1, <2>2, <2>3
<1>10. ASSUME NEW n \in 1 .. m + 1, \A j \in 1 .. l + 1 : g[j] # n
      PROVE  n <= m /\ LeftOut(s, f, n)
    <2>1. PICK j \in 1 .. l + 1 : from[j] = l + 1
        <3>1. l + 1 \in 1 .. l + 1
            OBVIOUS
        <3> QED BY <1>3, <3>1
    <2>2. g[j] = m + 1
        <3>1. PICK p : p = from[j]
            OBVIOUS
        <3>2. p \notin 1 .. l
            BY <2>1, <3>1
        <3> QED BY <1>6, <3>1, <3>2
    <2>3. n <= m
        <3>1. n # m + 1
            BY <1>10, <2>2
        <3> QED BY <3>1
    <2>4. ASSUME NEW k \in 1 .. l PROVE f[k] # n
        <3>1. PICK p \in 1 .. l + 1 : from[p] = k
            BY <1>3
        <3>2. g[p] = f[k]
            <4>1. PICK q : q = from[p]
                OBVIOUS
            <4>2. q # l + 1
                BY <3>1, <4>1
            <4> QED BY <1>6, <3>1, <4>1, <4>2
        <3> QED BY <1>10, <3>2
    <2> QED BY <1>1, <2>3, <2>4 DEF LeftOut
<1>11. Samples(r, u, g)
    BY <1>1, <1>7, <1>8, <1>9, <1>2 DEF Samples
<1>12. \A n \in 1 .. Len(u) : LeftOut(r, g, n) => n <= Len(t) /\ LeftOut(s, f, n)
    BY <1>1, <1>10, <1>2 DEF LeftOut
<1> QED BY <1>11, <1>12 DEF Inserted

(* add_sample keeps the best.                                              *)
LEMMA BestKept ==
    ASSUME NEW k \in Nat \ {0}, set.kbest = k,
           NEW s \in Seq(Int), NEW t \in Seq(Int), Len(s) = Least(Len(t), k), NEW v \in Int,
           NEW r, r = add_sample(s, Len(t), v)
    PROVE  /\ r \in Seq(Int) /\ Len(r) = Least(Len(t) + 1, k)
           /\ Best(s, t, k) => Best(r, Append(t, v), k)
<1>1. PICK m \in Nat : m = Len(t) /\ Len(s) \in Nat /\ Len(s) = (IF m <= k THEN m ELSE k)
    BY LenProperties DEF Least
<1>2. PICK u \in Seq(Int) : /\ u = Append(t, v) /\ Len(u) = m + 1
                            /\ \A n \in 1 .. m : u[n] = t[n]
                            /\ u[m + 1] = v
    <2>1. /\ Append(t, v) \in Seq(Int) /\ Len(Append(t, v)) = Len(t) + 1
          /\ \A n \in 1 .. Len(t) : Append(t, v)[n] = t[n]
          /\ Append(t, v)[Len(t) + 1] = v
        BY AppendProperties
    <2> QED BY <2>1, <1>1
<1>3. \A j \in 1 .. Len(s) : s[j] \in Int
    BY ElementOfSeq
<1>8. OneMore(u, t, v)
    BY <1>1, <1>2 DEF OneMore
<1>4. CASE m < k
    <2>1. r = Sorted(s, v) /\ Len(s) = m
        BY <1>1, <1>4 DEF add_sample
    <2>2. r \in Seq(Int) /\ Len(r) = m + 1
        BY <2>1, SortedFacts
    <2>3. Len(r) = Least(m + 1, k)
        BY <1>1, <1>4, <2>2 DEF Least
    <2>4. ASSUME Best(s, t, k) PROVE Best(r, u, k)
        <3>1. PICK f : /\ Samples(s, t, f)
                       /\ \A n \in 1 .. m : LeftOut(s, f, n) => Len(s) = k
            BY <1>1, <2>4 DEF Best
        <3>2. Ascending(r)
            BY <2>1, <2>4, SortedFacts DEF Best
        <3>3. PICK from : Rearranged(s, v, r, from)
            BY <2>1, <2>4, SortedFacts DEF Best
        <3>4. PICK g : /\ Samples(r, u, g)
                       /\ \A n \in 1 .. m + 1 : LeftOut(r, g, n) => n <= m /\ LeftOut(s, f, n)
            <4>1. Len(r) = Len(s) + 1
                BY <2>1, <2>2
            <4>2. Inserted(r, u, s, t, f)
                BY <1>8, <2>2, <3>1, <3>3, <4>1, InsertSample
            <4> QED BY <1>1, <1>2, <4>2 DEF Inserted
        <3>5. \A n \in 1 .. m + 1 : ~LeftOut(r, g, n)
            BY <1>4, <2>1, <3>1, <3>4
        <3> QED BY <1>2, <3>2, <3>4, <3>5 DEF Best
    <2> QED BY <1>1, <1>2, <2>2, <2>3, <2>4
<1>5. CASE m >= k /\ v < s[k]
    <2>1. PICK c : c = SubSeq(s, 1, k - 1)
        OBVIOUS
    <2>2. r = Sorted(c, v) /\ Len(s) = k
        BY <1>1, <1>5, <2>1 DEF add_sample
    <2>3. c \in Seq(Int) /\ Len(c) = k - 1 /\ \A j \in 1 .. k - 1 : c[j] = s[j]
        <3>1. 1 \in 1 .. Len(s) + 1 /\ k - 1 \in 0 .. Len(s)
            BY <2>2
        <3> QED BY <2>1, <2>2, <3>1, SubSeqProperties
    <2>4. r \in Seq(Int) /\ Len(r) = k
        <3>1. Len(Sorted(c, v)) = k - 1 + 1 /\ Sorted(c, v) \in Seq(Int)
            BY <2>3, SortedFacts
        <3> QED BY <2>2, <3>1
    <2>5. Len(r) = Least(m + 1, k)
        BY <1>1, <1>5, <2>4 DEF Least
    <2>6. ASSUME Best(s, t, k) PROVE Best(r, u, k)
        <3>1. PICK f : /\ Samples(s, t, f)
                       /\ \A n \in 1 .. m : LeftOut(s, f, n) => t[n] >= s[k]
            BY <1>1, <2>6 DEF Best
        <3>2. Ascending(s) /\ Ascending(c)
            BY <2>2, <2>3, <2>6 DEF Best, Ascending
        <3>3. PICK h : h = [j \in 1 .. k - 1 |-> f[j]]
            OBVIOUS
        <3>4. Samples(c, t, h)
            <4>1. /\ f \in [1 .. k -> 1 .. m]
                  /\ \A j, l \in 1 .. k : f[j] = f[l] => j = l
                  /\ \A j \in 1 .. k : s[j] = t[f[j]]
                BY <1>1, <2>2, <3>1 DEF Samples
            <4>2. \A j \in 1 .. k - 1 : j \in 1 .. k /\ h[j] = f[j]
                BY <3>3
            <4>3. h \in [1 .. k - 1 -> 1 .. m]
                BY <3>3, <4>1, <4>2
            <4>4. \A j \in 1 .. k - 1 : c[j] = t[h[j]]
                BY <2>3, <4>1, <4>2
            <4>5. \A j, l \in 1 .. k - 1 : h[j] = h[l] => j = l
                BY <4>1, <4>2
            <4>6. PICK l : l = k - 1
                OBVIOUS
            <4> QED BY <1>1, <2>3, <4>3, <4>4, <4>5, <4>6 DEF Samples
        <3>5. Ascending(r)
            BY <2>2, <2>3, <3>2, SortedFacts
        <3>6. PICK from : Rearranged(c, v, r, from)
            BY <2>2, <2>3, <3>2, SortedFacts
        <3>7. PICK g : /\ Samples(r, u, g)
                       /\ \A n \in 1 .. m + 1 : LeftOut(r, g, n) => n <= m /\ LeftOut(c, h, n)
            <4>1. Len(r) = Len(c) + 1
                BY <2>3, <2>4
            <4>2. Inserted(r, u, c, t, h)
                BY <1>8, <2>3, <2>4, <3>4, <3>6, <4>1, InsertSample
            <4> QED BY <1>1, <1>2, <4>2 DEF Inserted
        <3>8. r[k] \in Int /\ s[k] \in Int /\ r[k] <= s[k]
            <4>1. from[k] \in 1 .. k /\ r[k] = IF from[k] <= k - 1 THEN c[from[k]] ELSE v
                <5>1. Len(c) + 1 = k /\ k \in 1 .. k
                    BY <2>3
                <5> QED BY <2>3, <3>6, <5>1 DEF Rearranged
            <4>2. s[k] \in Int /\ k \in 1 .. k
                BY <1>3, <2>2
            <4>3. \A j \in 1 .. k - 1 : c[j] \in Int /\ c[j] <= s[k]
                BY <1>3, <2>2, <2>3, <3>2 DEF Ascending
            <4> QED BY <1>5, <4>1, <4>2, <4>3
        <3>9. ASSUME NEW n \in 1 .. m + 1, LeftOut(r, g, n)
              PROVE  u[n] >= r[k]
            <4>1. n \in 1 .. m /\ LeftOut(c, h, n) /\ u[n] = t[n] /\ t[n] \in Int
                BY <1>1, <1>2, <3>7, <3>9, ElementOfSeq
            <4>2. CASE f[k] = n
                <5>1. t[n] = s[k]
                    BY <2>2, <3>1, <4>2 DEF Samples
                <5> QED BY <3>8, <4>1, <5>1
            <4>3. CASE f[k] # n
                <5>1. LeftOut(s, f, n)
                    BY <2>2, <2>3, <3>3, <4>1, <4>3 DEF LeftOut
                <5> QED BY <3>1, <3>8, <4>1, <5>1
            <4> QED BY <4>2, <4>3
        <3> QED BY <1>2, <2>4, <3>5, <3>7, <3>9 DEF Best
    <2> QED BY <1>1, <1>2, <2>4, <2>5, <2>6
<1>6. CASE m >= k /\ v >= s[k]
    <2>1. r = s /\ Len(s) = k
        BY <1>1, <1>6 DEF add_sample
    <2>2. Len(r) = Least(m + 1, k)
        BY <1>6, <2>1 DEF Least
    <2>3. ASSUME Best(s, t, k) PROVE Best(r, u, k)
        <3>1. PICK f : /\ Samples(s, t, f)
                       /\ \A n \in 1 .. m : LeftOut(s, f, n) => t[n] >= s[k]
            BY <1>1, <2>3 DEF Best
        <3>2. f \in [1 .. k -> 1 .. m]
            BY <1>1, <2>1, <3>1 DEF Samples
        <3>3. Samples(s, u, f)
            BY <1>1, <1>2, <2>1, <3>1, <3>2 DEF Samples
        <3>4. \A n \in 1 .. m + 1 : LeftOut(s, f, n) => u[n] >= s[k]
            <4>1. ASSUME NEW n \in 1 .. m, LeftOut(s, f, n) PROVE u[n] >= s[k]
                BY <1>2, <3>1, <4>1
            <4>2. u[m + 1] >= s[k]
                BY <1>2, <1>6
            <4> QED BY <4>1, <4>2
        <3> QED BY <1>2, <2>1, <2>3, <3>3, <3>4 DEF Best
    <2> QED BY <1>1, <1>2, <2>1, <2>2, <2>3
<1> QED BY <1>1, <1>3, <1>4, <1>5, <1>6

-----------------------------------------------------------------------------
(* Types: of the clock, of the table of samples and of the timers.  A step *)
(* that shows a sample for Return has one in the table, and there is none  *)
(* while ftimer is timing.                                                 *)
ClockTypes ==
    /\ cpu \in {"i386", "alpha", "sparc"} /\ cost \in Costs
    /\ now \in Whole /\ phase \in 0 .. Slice - 1
    /\ ticks \in Nat /\ own \in Nat /\ inside \in Nat
    /\ cyc_per_tick \in Nat /\ e \in Nat
    /\ Halves(cyc) /\ oldt \in Whole /\ newt \in Whole

TableTypes ==
    /\ set \in Settings /\ cache_buf \in BOOLEAN
    /\ values \in Seq(Int) /\ taken \in Seq(Int) /\ samplecount = Len(taken)
    /\ Len(values) = IF pc = "idle" THEN 0 ELSE Least(samplecount, set.kbest)
    /\ reading.time \in Int
    /\ pc = "return" => samplecount > 0
    /\ pc = "time" => samplecount = 0

TimerTypes ==
    /\ method \in {"FCYC", "ITIMER", "GETTOD"}
    /\ i \in 0 .. Runs /\ calls \in 0 .. MaxCalls
    /\ tod \in Int /\ left \in Int /\ spent \in Int /\ moved \in Int

ITypes == ClockTypes /\ TableTypes /\ TimerTypes

(* The number of samples, and what a table may hold.                       *)
LEMMA SettingTypes ==
    ASSUME set \in Settings
    PROVE  set.kbest \in Nat \ {0} /\ set.maxsamples \in Nat
BY FcycAssumption

(* Time that passes keeps the types.                                       *)
LEMMA PassKeeps ==
    ASSUME ClockTypes, NEW d \in Nat, NEW t \in Nat, NEW o \in Nat, NEW n \in Nat,
           Pass(d, t, o, n),
           cpu' = cpu, cost' = cost, cyc_per_tick' \in Nat, e' \in Nat,
           Halves(cyc'), oldt' \in Whole, newt' \in Whole
    PROVE  ClockTypes'
<1>1. /\ now' \in Whole /\ phase' \in 0 .. Slice - 1
      /\ ticks' \in Nat /\ own' \in Nat /\ inside' \in Nat
    BY PassTypes DEF ClockTypes
<1> QED BY <1>1 DEF ClockTypes, Halves, Whole

(* Nothing of the table, and not the counter of samples.                   *)
LEMMA TableKeeps ==
    ASSUME TableTypes, pc # "idle", pc' \notin {"idle", "return", "time"} \/ pc' = pc,
           UNCHANGED <<set, values, samplecount, reading, taken>>, cache_buf' \in BOOLEAN
    PROVE  TableTypes'
BY DEF TableTypes

(* Calibration.                                                            *)
LEMMA CalibrationTypes ==
    ASSUME ITypes, Calibration, UNCHANGED <<fcycvars, timer>>
    PROVE  ITypes'
<1>1. ClockTypes /\ 0 \in Nat /\ 1 \in Nat /\ 0 \in Whole
    BY ConstantTypes DEF ITypes, Whole
<1>2. Halves(access_counter) /\ get_counter \in Whole
    BY <1>1, ReadingTypes, CounterTypes DEF ClockTypes
<1>3. ClockTypes'
    <2>1. CASE CalTimes
        BY <1>1, <2>1, PassKeeps DEF CalTimes, Idle, ClockTypes, Halves, Whole
    <2>2. CASE CalStart
        BY <1>1, <1>2, <2>2, PassKeeps DEF CalStart, start_counter, Idle, ClockTypes, Whole
    <2>3. CASE CalFirst
        BY <1>1, <1>2, <2>3, PassKeeps DEF CalFirst, Delay, ClockTypes, Halves, Whole
    <2>4. CASE Poll
        <3>1. PICK d \in Delays : Pass(d, ticks, own, inside)
            BY <2>4 DEF Poll
        <3>2. d \in Nat
            BY ConstantTypes
        <3> QED BY <1>1, <1>2, <2>4, <3>1, <3>2, PassKeeps DEF Poll, ClockTypes, Halves, Whole
    <2>5. CASE Event
        <3>1. e' \in Nat
            BY <1>1, <2>5 DEF Event, ClockTypes
        <3>2. PICK cpt : cpt = (newt - oldt) \div ticks
            OBVIOUS
        <3>3. \/ cyc_per_tick' = cyc_per_tick
              \/ ticks > 0 /\ cpt > RECORDTHRESH /\ cyc_per_tick' = cpt
            BY <2>5, <3>2 DEF Event, Cheaper
        <3>4. ticks > 0 => cpt \in Int
            <4>1. PICK y : y = newt - oldt
                OBVIOUS
            <4>2. y \in Int /\ (ticks > 0 => ticks \in Nat \ {0})
                BY <1>1, <4>1, ConstantTypes DEF ClockTypes, Whole
            <4> QED BY <3>2, <4>1, <4>2, DivMod
        <3>5. cyc_per_tick' \in Nat
            BY <1>1, <3>3, <3>4, ConstantTypes DEF ClockTypes
        <3> QED BY <1>1, <2>5, <3>1, <3>5, PassKeeps DEF Event, Delay, ClockTypes, Halves, Whole
    <2>6. CASE CalEnd
        BY <1>1, <2>6 DEF CalEnd, counter, ClockTypes, Halves, Whole
    <2>7. CASE CompTimes
        BY <1>1, <2>7, PassKeeps DEF CompTimes, Idle, ClockTypes, Halves, Whole
    <2> QED BY <2>1, <2>2, <2>3, <2>4, <2>5, <2>6, <2>7 DEF Calibration
<1>4. pc # "idle" /\ pc' \notin {"idle", "return", "time"}
    BY DEF Calibration, CalTimes, CalStart, CalFirst, Poll, Event, CalEnd, CompTimes
<1>5. TableTypes'
    BY <1>4, TableKeeps DEF ITypes, TableTypes, fcycvars
<1>6. TimerTypes'
    BY DEF ITypes, TimerTypes, timer
<1> QED BY <1>3, <1>5, <1>6 DEF ITypes

(* A sample is added.                                                      *)
LEMMA AddSampleTypes ==
    ASSUME ITypes, AddSample
    PROVE  TableTypes'
<1>1. PICK v : v = IF set.compensate THEN Compensated(reading.time) ELSE reading.time
    OBVIOUS
<1>2. v \in Int
    <2>1. ticks \in Nat /\ cyc_per_tick \in Nat /\ reading.time \in Int
        BY DEF ITypes, ClockTypes, TableTypes
    <2> QED BY <1>1, <2>1 DEF Compensated
<1>3. /\ set \in Settings /\ values \in Seq(Int) /\ taken \in Seq(Int)
      /\ samplecount = Len(taken) /\ pc = "got"
      /\ Len(values) = Least(Len(taken), set.kbest)
    BY DEF ITypes, TableTypes, AddSample
<1>4. PICK k \in Nat \ {0} : set.kbest = k
    BY <1>3, SettingTypes
<1>5. /\ values' = add_sample(values, Len(taken), v) /\ taken' = Append(taken, v)
      /\ samplecount' = samplecount + 1 /\ set' = set /\ cache_buf' = cache_buf
      /\ pc' \in {"sample", "return"} /\ reading' = NoReading
    BY <1>1, <1>3 DEF AddSample
<1>6. values' \in Seq(Int) /\ Len(values') = Least(Len(taken) + 1, k)
    BY <1>2, <1>3, <1>4, <1>5, BestKept
<1>7. taken' \in Seq(Int) /\ Len(taken') = Len(taken) + 1 /\ Len(taken) \in Nat
    BY <1>2, <1>3, <1>5, AppendProperties, LenProperties
<1>8. reading'.time \in Int
    BY <1>5 DEF NoReading
<1>9. set' \in Settings /\ cache_buf' \in BOOLEAN
    BY <1>5 DEF ITypes, TableTypes
<1> QED BY <1>3, <1>4, <1>5, <1>6, <1>7, <1>8, <1>9 DEF TableTypes

(* A measurement.                                                          *)
LEMMA SamplingTypesKept ==
    ASSUME ITypes, Sampling, UNCHANGED timer
    PROVE  ITypes'
<1>1. ClockTypes /\ 0 \in Nat /\ 1 \in Nat
    BY DEF ITypes
<1>2. Halves(access_counter) /\ get_counter \in Whole
    BY <1>1, ReadingTypes, CounterTypes DEF ClockTypes
<1>3. ClockTypes'
    <2>1. CASE BeforeRun
        BY <1>1, <2>1, PassKeeps DEF BeforeRun, Idle, ClockTypes, Halves, Whole
    <2>2. CASE Start
        BY <1>1, <1>2, <2>2, PassKeeps DEF Start, start_counter, Idle, ClockTypes, Whole
    <2>3. CASE RunF
        <3>1. PICK w \in Work : Pass(w, ticks, own, inside)
            BY <2>3 DEF RunF
        <3>2. w \in Nat
            BY ConstantTypes
        <3> QED BY <1>1, <2>3, <3>1, <3>2, PassKeeps DEF RunF, ClockTypes, Halves, Whole
    <2>4. CASE GetCounter
        BY <1>1, <2>4, PassKeeps DEF GetCounter, Idle, ClockTypes, Halves, Whole
    <2>5. CASE AddSample
        BY <1>1, <2>5, PassKeeps DEF AddSample, Idle, ClockTypes, Halves, Whole
    <2>6. CASE NoCounter
        BY <1>1, <2>6 DEF NoCounter, clock, counter, ClockTypes, Halves, Whole
    <2> QED BY <2>1, <2>2, <2>3, <2>4, <2>5, <2>6 DEF Sampling
<1>4. TableTypes'
    <2>1. CASE AddSample
        BY <2>1, AddSampleTypes
    <2>2. CASE BeforeRun
        <3>1. pc # "idle" /\ pc' \notin {"idle", "return", "time"} /\ cache_buf' \in BOOLEAN
            BY <2>2 DEF BeforeRun
        <3> QED BY <2>2, <3>1, TableKeeps DEF BeforeRun, ITypes
    <2>3. CASE Start \/ RunF \/ NoCounter
        <3>1. pc # "idle" /\ pc' \notin {"idle", "return", "time"}
            BY <2>3 DEF Start, RunF, NoCounter
        <3> QED BY <2>3, <3>1, TableKeeps DEF Start, RunF, NoCounter, fcycvars, ITypes, TableTypes
    <2>4. CASE GetCounter
        <3>1. reading'.time \in Int
            BY <1>2, <2>4, ConstantTypes DEF GetCounter, Whole
        <3> QED BY <2>4, <3>1 DEF GetCounter, ITypes, TableTypes
    <2> QED BY <2>1, <2>2, <2>3, <2>4 DEF Sampling
<1>5. TimerTypes'
    BY DEF ITypes, TimerTypes, timer
<1> QED BY <1>3, <1>4, <1>5 DEF ITypes

(* The calls of fsecs, ftimer and the end of fcyc.                         *)
LEMMA CallTypes ==
    ASSUME ITypes, Fsecs \/ OneRun \/ SetClock \/ Time \/ Return \/ UNCHANGED vars
    PROVE  ITypes'
<1>1. ClockTypes'
    BY DEF Fsecs, OneRun, SetClock, Time, Return, vars, clock, counter, ITypes, ClockTypes,
           Halves, Whole
<1>2. TableTypes'
    <2>1. CASE Fsecs
        <3>1. values' = <<>> /\ taken' = <<>> /\ samplecount' = 0
            BY <2>1 DEF Fsecs
        <3>2. values' \in Seq(Int) /\ Len(values') = 0 /\ taken' \in Seq(Int) /\ Len(taken') = 0
            BY <3>1, EmptySeq
        <3>3. set' = set /\ reading' = reading /\ cache_buf' = cache_buf /\ pc' \in {"sample", "time"}
            BY <2>1 DEF Fsecs, ITypes, TimerTypes
        <3>4. Least(samplecount', set'.kbest) = 0
            BY <3>1, <3>3, SettingTypes DEF Least, ITypes, TableTypes
        <3> QED BY <3>1, <3>2, <3>3, <3>4 DEF ITypes, TableTypes
    <2>2. CASE OneRun \/ SetClock
        <3>1. pc = "time" /\ pc' \in {"time", "killed"} /\ UNCHANGED fcycvars
            BY <2>2 DEF OneRun, SetClock
        <3> QED BY <3>1, TableKeeps DEF ITypes, TableTypes, fcycvars
    <2>3. CASE Time
        <3>1. samplecount = 0 /\ set.kbest \in Nat
            BY <2>3, SettingTypes DEF Time, ITypes, TableTypes
        <3>2. Least(samplecount, set.kbest) = 0
            BY <3>1 DEF Least
        <3> QED BY <2>3, <3>2 DEF Time, ITypes, TableTypes
    <2>4. CASE Return
        <3>1. values' \in Seq(Int) /\ Len(values') = 0
            BY <2>4, EmptySeq DEF Return
        <3> QED BY <2>4, <3>1 DEF Return, ITypes, TableTypes
    <2>5. CASE UNCHANGED vars
        BY <2>5 DEF vars, fcycvars, ITypes, TableTypes
    <2> QED BY <2>1, <2>2, <2>3, <2>4, <2>5
<1>3. TimerTypes'
    <2>1. CASE Fsecs
        <3>1. calls' \in 0 .. MaxCalls /\ i' = 0 /\ spent' = 0 /\ moved' = 0
            BY <2>1, ConstantTypes DEF Fsecs, ITypes, TimerTypes
        <3>2. left' \in Int /\ method' = method /\ tod' = tod
            BY <2>1, ConstantTypes DEF Fsecs
        <3> QED BY <3>1, <3>2, ConstantTypes DEF ITypes, TimerTypes
    <2>2. CASE OneRun
        <3>1. PICK w \in Work : tod' = tod + w /\ spent' = spent + w /\ left' = left - w
            BY <2>2 DEF OneRun
        <3>2. w \in Int
            BY ConstantTypes
        <3>3. i' \in 0 .. Runs
            BY <2>2, ConstantTypes DEF OneRun, ITypes, TimerTypes
        <3> QED BY <2>2, <3>1, <3>2, <3>3 DEF OneRun, ITypes, TimerTypes
    <2>3. CASE SetClock
        <3>1. PICK a \in Adjust : tod' = tod + a /\ moved' = a
            BY <2>3 DEF SetClock
        <3>2. a \in Int
            BY ConstantTypes
        <3> QED BY <2>3, <3>1, <3>2 DEF SetClock, ITypes, TimerTypes
    <2>4. CASE Time \/ Return \/ UNCHANGED vars
        BY <2>4 DEF Time, Return, vars, timer, ITypes, TimerTypes
    <2> QED BY <2>1, <2>2, <2>3, <2>4
<1> QED BY <1>1, <1>2, <1>3 DEF ITypes

(* The first state.                                                        *)
LEMMA InitTypes == Init => ITypes
<1> SUFFICES ASSUME Init PROVE ITypes
    OBVIOUS
<1>1. now \in Whole /\ 0 \in Whole /\ 0 \in 0 .. Half - 1 /\ 0 \in 0 .. Slice - 1
    BY ConstantTypes DEF Init, ClockInit, Whole
<1>2. ClockTypes
    BY <1>1 DEF Init, ClockInit, ClockTypes, Halves
<1>3. <<>> \in Seq(Int) /\ Len(<<>>) = 0
    BY EmptySeq
<1>4. TableTypes
    <2>1. /\ set \in Settings /\ values = <<>> /\ taken = <<>> /\ samplecount = 0
          /\ pc = "idle" /\ reading = NoReading /\ cache_buf = FALSE
        BY DEF Init, FcycInit
    <2>2. reading.time \in Int
        BY <2>1 DEF NoReading
    <2>3. cache_buf \in BOOLEAN
        BY <2>1
    <2> QED BY <1>3, <2>1, <2>2, <2>3 DEF TableTypes
<1>5. tod \in Int
    <2>1. now % Usec \in Int
        BY <1>1, ConstantTypes, DivMod DEF Whole
    <2> QED BY <2>1, ConstantTypes DEF Init
<1>6. TimerTypes
    BY <1>5, ConstantTypes DEF Init, TimerTypes
<1> QED BY <1>2, <1>4, <1>6 DEF ITypes

(* Every step.                                                             *)
LEMMA NextTypes == ITypes /\ [Next]_vars => ITypes'
<1> SUFFICES ASSUME ITypes, [Next]_vars PROVE ITypes'
    OBVIOUS
<1>1. CASE Calibration /\ UNCHANGED <<fcycvars, timer>>
    BY <1>1, CalibrationTypes
<1>2. CASE Sampling /\ UNCHANGED timer
    BY <1>2, SamplingTypesKept
<1>3. CASE Fsecs \/ OneRun \/ SetClock \/ Time \/ Return \/ Done \/ UNCHANGED vars
    BY <1>3, CallTypes DEF Done
<1> QED BY <1>1, <1>2, <1>3 DEF Next

(* The variables of the timing functions are typed; the table never holds  *)
(* more than kbest samples (clock.c, fcyc.c, ftimer.c, fsecs.c).           *)
THEOREM TypesOK == Spec => []TypeOK
<1>1. ITypes => TypeOK
    <2> SUFFICES ASSUME ITypes PROVE TypeOK
        OBVIOUS
    <2>1. samplecount \in Nat
        BY LenProperties DEF ITypes, TableTypes
    <2>2. ClockTypes /\ TableTypes /\ TimerTypes
        BY DEF ITypes
    <2>3. /\ cpu \in {"i386", "alpha", "sparc"} /\ cost \in Costs
          /\ now \in 0 .. Half * Half - 1 /\ phase \in 0 .. Slice - 1
          /\ {cyc.hi, cyc.lo} \subseteq 0 .. Half - 1
          /\ {oldt, newt} \subseteq 0 .. Half * Half - 1
        BY <2>2 DEF ClockTypes, Whole, Halves
    <2>4. {ticks, own, inside, cyc_per_tick, e, samplecount, i, calls} \subseteq Nat
        BY <2>1, <2>2 DEF ClockTypes, TimerTypes
    <2>5. i <= Runs /\ calls <= MaxCalls
        BY <2>2 DEF TimerTypes
    <2> QED BY <2>2, <2>3, <2>4, <2>5 DEF TableTypes, TimerTypes, TypeOK
<1> QED BY <1>1, InitTypes, NextTypes, PTL DEF Spec

-----------------------------------------------------------------------------
(* The counter.  Since start_counter it has gone on by the cycles of the   *)
(* program and of the interrupts.                                          *)
Elapsed == own + inside * cost

CInv ==
    Started =>
      /\ cpu = "i386" =>
           now = ((cyc.hi * Half + cyc.lo) + Elapsed) % (Half * Half)
      /\ cpu = "alpha" => cyc.hi = 0

(* Time passes after a reading that was kept.                              *)
LEMMA PassCounts ==
    ASSUME ClockTypes, NEW d \in Nat, NEW t \in Nat, Pass(d, t, own, inside), cyc' = cyc,
           cost' = cost, cpu = "i386",
           now = ((cyc.hi * Half + cyc.lo) + Elapsed) % (Half * Half)
    PROVE  now' = ((cyc'.hi * Half + cyc'.lo) + Elapsed') % (Half * Half)
<1>1. PICK m \in Nat \ {0} : m = Half * Half
    BY ConstantTypes
<1>2. /\ own' \in Nat /\ inside' \in Nat
      /\ now' = (now + ((own' - own) + (inside' - inside) * cost)) % m
    BY <1>1, PassTypes DEF ClockTypes
<1>3. PICK a : a = (cyc.hi * Half + cyc.lo) + Elapsed
    OBVIOUS
<1>4. PICK x : x = (own' - own) + (inside' - inside) * cost
    OBVIOUS
<1>5. /\ own \in Nat /\ inside \in Nat /\ cost \in Nat /\ Half \in Nat
      /\ cyc.hi \in Nat /\ cyc.lo \in Nat
    BY ConstantTypes DEF ClockTypes, Halves
<1>6. a \in Int /\ x \in Int
    BY <1>2, <1>3, <1>4, <1>5 DEF Elapsed
<1>7. now = a % m /\ now' = (now + x) % m
    BY <1>1, <1>2, <1>3, <1>4
<1>8. now' = (a + x) % m
    BY <1>6, <1>7, ModAdd
<1>9. PICK ch, cl : ch = cyc.hi * Half /\ cl = cyc.lo
    OBVIOUS
<1>10. a + x = (ch + cl) + (own' + inside' * cost)
    <2>1. ch \in Nat /\ cl \in Nat
        BY <1>5, <1>9
    <2>2. a = (ch + cl) + (own + inside * cost)
        BY <1>3, <1>9 DEF Elapsed
    <2> QED BY <1>2, <1>4, <1>5, <2>1, <2>2
<1> QED BY <1>1, <1>8, <1>9, <1>10 DEF Elapsed

(* It begins with a reading.                                               *)
LEMMA StartCounts ==
    ASSUME ClockTypes, start_counter, UNCHANGED <<cpu, cost>>
    PROVE  CInv'
<1>1. cyc' = access_counter /\ Pass(1, ticks, 0, 0)
    BY DEF start_counter, Idle
<1>2. CASE cpu = "i386"
    <2>1. PICK q, r : q = now \div Half /\ r = now % Half
        OBVIOUS
    <2>2. cyc'.hi = q /\ cyc'.lo = r /\ now = q * Half + r
        BY <1>1, <1>2, <2>1, ReadingTypes DEF access_counter, ClockTypes
    <2>3. /\ own' \in Nat /\ inside' \in Nat
          /\ now' = (now + ((own' - 0) + (inside' - 0) * cost)) % (Half * Half)
        BY <1>1, PassTypes DEF ClockTypes
    <2>4. cost \in Nat
        BY ConstantTypes DEF ClockTypes
    <2>5. (own' - 0) + (inside' - 0) * cost = own' + inside' * cost
        BY <2>3, <2>4
    <2> QED BY <1>2, <2>2, <2>3, <2>5 DEF CInv, Elapsed
<1>3. CASE cpu # "i386"
    <2>1. cpu = "alpha" => cyc'.hi = 0
        BY <1>1 DEF access_counter
    <2> QED BY <1>3, <2>1 DEF CInv
<1> QED BY <1>2, <1>3

(* Every step.                                                             *)
LEMMA CInvNext == ITypes /\ CInv /\ [Next]_vars => CInv'
<1> SUFFICES ASSUME ITypes, CInv, [Next]_vars PROVE CInv'
    OBVIOUS
<1>1. ClockTypes
    BY DEF ITypes
<1>2. CASE CalStart \/ Start
    BY <1>1, <1>2, StartCounts DEF CalStart, Start
<1>3. CASE CalFirst \/ Poll \/ Event \/ RunF
    <2>1. PICK d \in Nat, t \in Nat : Pass(d, t, own, inside)
        <3>1. 1 \in Nat /\ 0 \in Nat /\ ticks \in Nat
            BY <1>1 DEF ClockTypes
        <3>2. CASE CalFirst
            BY <3>1, <3>2 DEF CalFirst, Delay
        <3>3. CASE Poll
            BY <3>1, <3>3, ConstantTypes DEF Poll
        <3>4. CASE Event
            BY <3>1, <3>4 DEF Event, Delay
        <3>5. CASE RunF
            BY <3>1, <3>5, ConstantTypes DEF RunF
        <3> QED BY <1>3, <3>2, <3>3, <3>4, <3>5
    <2>2. Started /\ UNCHANGED <<cpu, cost, cyc>>
        BY <1>3 DEF CalFirst, Poll, Event, RunF, Started
    <2>3. cpu = "i386" =>
            now' = ((cyc'.hi * Half + cyc'.lo) + Elapsed') % (Half * Half)
        BY <1>1, <2>1, <2>2, PassCounts DEF CInv
    <2> QED BY <2>2, <2>3 DEF CInv
<1>4. CASE CalTimes \/ CalEnd \/ CompTimes \/ BeforeRun \/ GetCounter \/ AddSample \/ NoCounter
    <2>1. ~Started'
        BY <1>4 DEF CalTimes, CalEnd, CompTimes, BeforeRun, GetCounter, AddSample, NoCounter, Started
    <2> QED BY <2>1 DEF CInv
<1>5. CASE Fsecs \/ OneRun \/ SetClock \/ Time \/ Return
    <2>1. ~Started'
        BY <1>5 DEF Fsecs, OneRun, SetClock, Time, Return, Started
    <2> QED BY <2>1 DEF CInv
<1>6. CASE UNCHANGED vars
    BY <1>6 DEF vars, clock, counter, CInv, Started, Elapsed
<1> QED BY <1>2, <1>3, <1>4, <1>5, <1>6 DEF Next, Calibration, Sampling, Done

(* get_counter tells the cycles since start_counter, whatever overflows in *)
(* between (clock.c, get_counter).                                         *)
THEOREM CounterIsExact == Spec => []CounterIsElapsed
<1>1. Init => CInv
    BY DEF Init, CInv, Started
<1>2. ITypes /\ CInv => CounterIsElapsed
    <2> SUFFICES ASSUME ITypes, CInv, Started, HasCounter,
                        cpu = "alpha" => now % Half = cyc.lo + own + inside * cost
                 PROVE  get_counter = Elapsed % (Half * Half)
        BY DEF CounterIsElapsed, Elapsed
    <2>1. ClockTypes
        BY DEF ITypes
    <2>2. PICK a : a = access_counter
        OBVIOUS
    <2>3. Halves(a) /\ Halves(cyc)
        BY <2>1, <2>2, ReadingTypes DEF ClockTypes
    <2>4. PICK nh \in 0 .. Half - 1, nl \in 0 .. Half - 1,
               ch \in 0 .. Half - 1, cl \in 0 .. Half - 1 :
            nh = a.hi /\ nl = a.lo /\ ch = cyc.hi /\ cl = cyc.lo
        BY <2>3 DEF Halves
    <2>5. PICK lo, hi : /\ lo = (nl - cl) % Half
                        /\ hi = (nh - ch - (IF lo > nl THEN 1 ELSE 0)) % Half
        OBVIOUS
    <2>6. get_counter = hi * Half + lo
        BY <2>2, <2>4, <2>5 DEF get_counter, Difference
    <2>7. PICK y : y = hi * Half + lo
        OBVIOUS
    <2>8. y \in 0 .. Half * Half - 1 /\ \E d \in {0, 1} :
            y = (nh * Half + nl) - (ch * Half + cl) + d * (Half * Half)
        BY <2>5, <2>7, ConstantTypes, HalvesSubtract
    <2>9. Elapsed \in Nat
        BY <2>1, ConstantTypes DEF ClockTypes, Elapsed
    <2>10. PICK m \in Nat \ {0} : m = Half * Half
        BY ConstantTypes
    <2>11. CASE cpu = "i386"
        <3>1. nh * Half + nl = now
            <4>1. PICK q, r : q = now \div Half /\ r = now % Half
                OBVIOUS
            <4>2. nh = q /\ nl = r
                BY <2>2, <2>4, <2>11, <4>1 DEF access_counter
            <4> QED BY <2>1, <4>1, <4>2, ReadingTypes DEF ClockTypes
        <3>2. PICK c : c = ch * Half + cl
            OBVIOUS
        <3>3. c \in Nat
            BY <3>2, ConstantTypes
        <3>4. now = (c + Elapsed) % m
            BY <2>4, <2>10, <2>11, <3>2 DEF CInv
        <3>5. PICK p \in Int : c + Elapsed = m * p + now
            <4>1. PICK z : z = c + Elapsed
                OBVIOUS
            <4>2. z \in Int
                BY <2>9, <3>3, <4>1
            <4>3. z \div m \in Int /\ z = m * (z \div m) + (z % m)
                BY <4>2, DivMod
            <4> QED BY <3>4, <4>1, <4>3
        <3>6. PICK d \in {0, 1} : y = now - c + d * m
            BY <2>8, <2>10, <3>1, <3>2
        <3>7. now \in Int
            BY <2>1 DEF ClockTypes, Whole
        <3>8. PICK k : k = p - d
            OBVIOUS
        <3>9. k \in Int
            BY <3>8
        <3>10. Elapsed = m * k + y
            <4>1. m * k = m * p - m * d
                BY <3>8
            <4> QED BY <2>9, <3>3, <3>5, <3>6, <3>7, <4>1
        <3>11. Elapsed % m = y
            BY <2>8, <2>9, <2>10, <3>9, <3>10, DivModIs
        <3> QED BY <2>6, <2>7, <2>10, <3>11
    <2>12. CASE cpu = "alpha"
        <3>1. nh = 0 /\ ch = 0 /\ nl = cl + Elapsed
            <4>1. nh = 0 /\ nl = now % Half
                BY <2>2, <2>4, <2>12 DEF access_counter
            <4>2. ch = 0
                BY <2>4, <2>12 DEF CInv
            <4>3. nl = cl + own + inside * cost
                BY <2>4, <2>12, <4>1
            <4> QED BY <2>1, <4>1, <4>2, <4>3, ConstantTypes DEF Elapsed, ClockTypes
        <3>2. Elapsed \in 0 .. Half - 1
            BY <2>9, <3>1, ConstantTypes
        <3>3. lo = Elapsed
            <4>1. nl - cl = Elapsed /\ Elapsed \in Int
                BY <2>9, <3>1
            <4> QED BY <2>5, <3>2, <4>1, ConstantTypes, ModOnce
        <3>4. hi = 0
            <4>1. ~(lo > nl)
                BY <2>9, <3>1, <3>3
            <4>2. nh - ch - 0 = 0
                BY <3>1
            <4>3. hi = 0 % Half
                BY <2>5, <4>1, <4>2
            <4> QED BY <4>3, ConstantTypes, ModOnce
        <3>5. get_counter = Elapsed
            BY <2>6, <2>9, <3>3, <3>4, ConstantTypes
        <3>6. Elapsed \in 0 .. m - 1 /\ Elapsed = m * 0 + Elapsed
            BY <2>9, <2>10, <3>2, ConstantTypes
        <3>7. Elapsed % m = Elapsed
            BY <2>9, <3>6, DivModIs
        <3> QED BY <2>10, <3>5, <3>7
    <2> QED BY <2>11, <2>12 DEF HasCounter
<1> QED BY <1>1, <1>2, CInvNext, InitTypes, NextTypes, PTL DEF Spec

-----------------------------------------------------------------------------
(* The seconds.                                                            *)
Micros(v) == Usec * v.sec + v.usec

(* A time in seconds and microseconds is the time.                         *)
LEMMA ValueIs ==
    ASSUME NEW x \in Int
    PROVE  Value(x).sec \in Int /\ Value(x).usec \in Int /\ Micros(Value(x)) = x
<1>1. PICK q, r : q = x \div Usec /\ r = x % Usec
    OBVIOUS
<1>2. q \in Int /\ r \in Int /\ x = Usec * q + r
    BY <1>1, ConstantTypes, DivMod
<1>3. Value(x).sec = q /\ Value(x).usec = r
    BY <1>1 DEF Value
<1> QED BY <1>2, <1>3 DEF Micros

(* The difference of two, taken apart.                                     *)
LEMMA BetweenIs ==
    ASSUME NEW a, NEW b, a.sec \in Int, a.usec \in Int, b.sec \in Int, b.usec \in Int
    PROVE  Between(a, b) = Micros(b) - Micros(a)
<1>1. PICK as, au, bs, bu : as = a.sec /\ au = a.usec /\ bs = b.sec /\ bu = b.usec
    OBVIOUS
<1>2. as \in Int /\ au \in Int /\ bs \in Int /\ bu \in Int
    BY <1>1
<1>3. Usec * (bs - as) = Usec * bs - Usec * as
    <2>1. PICK n \in Nat : n = Usec
        BY ConstantTypes
    <2>2. ASSUME NEW x \in Int, NEW y \in Int
          PROVE  n * (x - y) = n * x - n * y
        OBVIOUS
    <2> QED BY <1>2, <2>1, <2>2
<1>4. Usec * bs \in Int /\ Usec * as \in Int
    BY <1>2, ConstantTypes
<1> QED BY <1>1, <1>2, <1>3, <1>4 DEF Between, Micros

(* While ftimer times, what has gone by since stv is what the runs took    *)
(* and by how much the clock was set.                                      *)
SInv ==
    /\ pc = "time" =>
         /\ method # "FCYC" /\ stv.sec \in Int /\ stv.usec \in Int
         /\ method = "GETTOD" => Micros(stv) = tod - spent - moved
         /\ method = "ITIMER" =>
              /\ Micros(stv) = Usec * MAX_ETIME
              /\ left = Usec * MAX_ETIME - spent /\ left > 0
    /\ method # "FCYC" => pc \in {"idle", "time", "killed"}
    /\ SecondsAreElapsed

(* A measurement begins.                                                   *)
LEMMA FsecsSeconds ==
    ASSUME ITypes, SInv, Fsecs
    PROVE  SInv'
<1>1. /\ pc = "idle" /\ pc' = (IF method = "FCYC" THEN "sample" ELSE "time")
      /\ left' = Usec * MAX_ETIME /\ spent' = 0 /\ moved' = 0
      /\ stv' = (IF method = "ITIMER" THEN Value(left') ELSE Value(tod))
      /\ method' = method /\ tod' = tod
    BY DEF Fsecs
<1>2. tod \in Int /\ left' \in Int /\ left' > 0
    <2>1. tod \in Int
        BY DEF ITypes, TimerTypes
    <2> QED BY <1>1, <2>1, ConstantTypes
<1>3. /\ stv'.sec \in Int /\ stv'.usec \in Int
      /\ Micros(stv)' = IF method = "ITIMER" THEN left' ELSE tod
    BY <1>1, <1>2, ValueIs DEF Micros
<1>4. SecondsAreElapsed'
    BY <1>1 DEF SecondsAreElapsed
<1>5. left' = Usec * MAX_ETIME - 0 /\ tod' = tod - 0 - 0
    BY <1>1, <1>2
<1> QED BY <1>1, <1>2, <1>3, <1>4, <1>5 DEF SInv, Micros

(* A run, or a clock that is set.                                          *)
LEMMA RunSeconds ==
    ASSUME ITypes, SInv, OneRun \/ SetClock
    PROVE  SInv'
<1>1. /\ pc = "time" /\ pc' \in {"time", "killed"}
      /\ UNCHANGED <<method, stv>>
    BY DEF OneRun, SetClock
<1>2. tod \in Int /\ spent \in Int /\ moved \in Int /\ left \in Int
    BY DEF ITypes, TimerTypes
<1>3. PICK w \in Int : /\ tod' - spent' - moved' = tod - spent - moved
                       /\ left' + spent' = left + spent
                       /\ spent' \in Int /\ left' \in Int /\ moved' \in Int /\ tod' \in Int
    <2>1. CASE OneRun
        <3>1. PICK w \in Work : tod' = tod + w /\ spent' = spent + w /\ left' = left - w
            BY <2>1 DEF OneRun
        <3>2. w \in Int /\ moved' = moved
            BY <2>1, ConstantTypes DEF OneRun
        <3> QED BY <1>2, <3>1, <3>2
    <2>2. CASE SetClock
        <3>1. PICK a \in Adjust : tod' = tod + a /\ moved' = a
            BY <2>2 DEF SetClock
        <3>2. a \in Int /\ moved = 0 /\ spent' = spent /\ left' = left
            BY <2>2, ConstantTypes DEF SetClock
        <3> QED BY <1>2, <3>1, <3>2
    <2> QED BY <2>1, <2>2
<1>4. pc' = "time" /\ method = "ITIMER" => left' > 0
    <2>1. CASE OneRun
        BY <1>3, <2>1 DEF OneRun
    <2>2. CASE SetClock
        BY <1>1, <2>2 DEF SetClock, SInv
    <2> QED BY <2>1, <2>2
<1>5. Micros(stv)' = Micros(stv)
    BY <1>1 DEF Micros
<1>6. Usec * MAX_ETIME \in Int
    BY ConstantTypes
<1>7. SecondsAreElapsed'
    BY <1>1 DEF SecondsAreElapsed
<1>8. method = "ITIMER" => left' = Usec * MAX_ETIME - spent'
    BY <1>1, <1>2, <1>3, <1>6 DEF SInv
<1>9. method = "GETTOD" => Micros(stv)' = tod' - spent' - moved'
    BY <1>1, <1>2, <1>3, <1>5 DEF SInv
<1> QED BY <1>1, <1>4, <1>5, <1>7, <1>8, <1>9 DEF SInv

(* The result.                                                             *)
LEMMA TimeSeconds ==
    ASSUME ITypes, SInv, Time
    PROVE  SInv'
<1>1. /\ pc = "time" /\ pc' = "idle" /\ UNCHANGED timer
      /\ result' = (IF method = "ITIMER" THEN Between(Value(left), stv)
                                         ELSE Between(stv, Value(tod)))
    BY DEF Time
<1>2. /\ tod \in Int /\ spent \in Int /\ moved \in Int /\ left \in Int
      /\ method \in {"ITIMER", "GETTOD"} /\ Usec * MAX_ETIME \in Int
    BY <1>1, ConstantTypes DEF ITypes, TimerTypes, SInv
<1>3. method = "ITIMER" => result' = spent /\ spent < Usec * MAX_ETIME
    <2> SUFFICES ASSUME method = "ITIMER"
                 PROVE  result' = spent /\ spent < Usec * MAX_ETIME
        OBVIOUS
    <2>1. PICK b : b = Value(left)
        OBVIOUS
    <2>2. b.sec \in Int /\ b.usec \in Int /\ Micros(b) = left
        BY <1>2, <2>1, ValueIs
    <2>3. /\ stv.sec \in Int /\ stv.usec \in Int /\ Micros(stv) = Usec * MAX_ETIME
          /\ left = Usec * MAX_ETIME - spent /\ left > 0
        BY <1>1 DEF SInv
    <2>4. Between(b, stv) = Micros(stv) - Micros(b)
        BY <2>2, <2>3, BetweenIs
    <2> QED BY <1>1, <1>2, <2>1, <2>2, <2>3, <2>4
<1>4. method = "GETTOD" => result' = spent + moved
    <2> SUFFICES ASSUME method = "GETTOD"
                 PROVE  result' = spent + moved
        OBVIOUS
    <2>1. PICK b : b = Value(tod)
        OBVIOUS
    <2>2. b.sec \in Int /\ b.usec \in Int /\ Micros(b) = tod
        BY <1>2, <2>1, ValueIs
    <2>3. stv.sec \in Int /\ stv.usec \in Int /\ Micros(stv) = tod - spent - moved
        BY <1>1 DEF SInv
    <2>4. Between(stv, b) = Micros(b) - Micros(stv)
        BY <2>2, <2>3, BetweenIs
    <2> QED BY <1>1, <1>2, <2>1, <2>2, <2>3, <2>4
<1>5. UNCHANGED <<method, spent, moved, calls>>
    BY <1>1 DEF timer
<1>6. SecondsAreElapsed'
    BY <1>2, <1>3, <1>4, <1>5 DEF SecondsAreElapsed
<1> QED BY <1>1, <1>6 DEF SInv, timer

(* Every step.                                                             *)
LEMMA SInvNext == ITypes /\ SInv /\ [Next]_vars => SInv'
<1> SUFFICES ASSUME ITypes, SInv, [Next]_vars PROVE SInv'
    OBVIOUS
<1>1. CASE Fsecs
    BY <1>1, FsecsSeconds
<1>2. CASE OneRun \/ SetClock
    BY <1>2, RunSeconds
<1>3. CASE Time
    BY <1>3, TimeSeconds
<1>4. CASE (Calibration \/ Sampling) /\ UNCHANGED timer
    <2>1. pc \notin {"idle", "time", "killed"} /\ pc' \notin {"idle", "time"}
        BY <1>4 DEF Calibration, CalTimes, CalStart, CalFirst, Poll, Event, CalEnd, CompTimes,
                    Sampling, BeforeRun, Start, RunF, GetCounter, AddSample, NoCounter
    <2>2. method = "FCYC" /\ method' = method
        BY <1>4, <2>1 DEF SInv, timer
    <2> QED BY <2>1, <2>2 DEF SInv, SecondsAreElapsed
<1>5. CASE Return
    <2>1. pc = "return" /\ pc' = "idle" /\ UNCHANGED timer
        BY <1>5 DEF Return
    <2>2. method = "FCYC" /\ method' = method
        BY <2>1 DEF SInv, timer
    <2> QED BY <2>1, <2>2 DEF SInv, SecondsAreElapsed
<1>6. CASE UNCHANGED vars
    BY <1>6 DEF vars, timer, fcycvars, SInv, SecondsAreElapsed, Micros
<1> QED BY <1>1, <1>2, <1>3, <1>4, <1>5, <1>6 DEF Next, Done

(* gettimeofday and the interval timer give exactly the time the runs took *)
(* and by how much the clock was set in between, for any microseconds that *)
(* carry (ftimer.c).                                                       *)
THEOREM SecondsAreExact == Spec => []SecondsAreElapsed
<1>1. Init => SInv
    BY DEF Init, SInv, SecondsAreElapsed
<1>2. SInv => SecondsAreElapsed
    BY DEF SInv
<1> QED BY <1>1, <1>2, SInvNext, InitTypes, NextTypes, PTL DEF Spec
-----------------------------------------------------------------------------
(* The best of the samples.                                                *)
KInv ==
    /\ pc # "idle" => Best(values, taken, set.kbest)
    /\ pc \in {"idle", "return", "time", "killed", "exit"}
         \/ samplecount = 0 \/ samplecount < set.maxsamples
    /\ pc = "return" =>
         /\ ~GoesOn(values, samplecount)
         /\ samplecount <= set.maxsamples \/ samplecount = 1
    /\ ReturnsTheBest

(* Nothing has been measured.                                              *)
LEMMA BestOfNone ==
    ASSUME NEW k
    PROVE  Best(<<>>, <<>>, k)
<1>1. PICK s \in Seq(Int) : s = <<>> /\ Len(s) = 0
    BY EmptySeq
<1>2. Ascending(s) /\ \A f, n : LeftOut(s, f, n)
    BY <1>1 DEF Ascending, LeftOut
<1>3. Samples(s, s, s)
    <2>1. DOMAIN s = 1 .. 0 /\ s = [j \in 1 .. 0 |-> s[j]]
        BY <1>1, LenProperties
    <2>2. s \in [1 .. 0 -> 1 .. 0]
        BY <2>1
    <2> QED BY <1>1, <2>2 DEF Samples
<1> QED BY <1>1, <1>2, <1>3 DEF Best

(* The first of the table is the least of all samples, and when the table  *)
(* has converged all of it lies within epsilon.                            *)
LEMMA BestIsLeast ==
    ASSUME NEW s \in Seq(Int), NEW t \in Seq(Int), NEW k \in Nat \ {0},
           Len(s) = Least(Len(t), k), Len(t) > 0, Best(s, t, k)
    PROVE  /\ s[1] \in Int
           /\ \E j \in DOMAIN t : t[j] = s[1]
           /\ \A j \in DOMAIN t : t[j] >= s[1]
           /\ Len(t) >= k /\ (EpsDen + EpsNum) * s[1] >= EpsDen * s[k] =>
                Cardinality({j \in DOMAIN t : EpsDen * t[j] <= (EpsDen + EpsNum) * s[1]}) >= k
<1>1. PICK l \in Nat, m \in Nat : l = Len(s) /\ m = Len(t) /\ DOMAIN t = 1 .. m
    BY LenProperties
<1>2. l > 0 /\ m > 0 /\ (m >= k => l = k)
    BY <1>1 DEF Least
<1>3. PICK f : /\ f \in [1 .. l -> 1 .. m]
               /\ \A j, n \in 1 .. l : f[j] = f[n] => j = n
               /\ \A j \in 1 .. l : s[j] = t[f[j]]
               /\ \A n \in 1 .. m : LeftOut(s, f, n) => l = k /\ t[n] >= s[k]
    BY <1>1 DEF Best, Samples
<1>4. /\ \A j \in 1 .. l : s[j] \in Int /\ s[1] <= s[j]
      /\ \A j \in 1 .. m : t[j] \in Int
    BY <1>1, <1>2, ElementOfSeq DEF Best, Ascending
<1>5. 1 \in 1 .. l /\ f[1] \in 1 .. m /\ t[f[1]] = s[1]
    BY <1>2, <1>3
<1>6. ASSUME NEW n \in 1 .. m PROVE t[n] >= s[1]
    <2>1. CASE LeftOut(s, f, n)
        <3>1. k \in 1 .. l /\ t[n] >= s[k]
            BY <1>3, <2>1
        <3> QED BY <1>4, <1>5, <3>1
    <2>2. CASE ~LeftOut(s, f, n)
        <3>1. PICK j \in 1 .. l : f[j] = n
            BY <1>1, <2>2 DEF LeftOut
        <3> QED BY <1>3, <1>4, <1>5, <3>1
    <2> QED BY <2>1, <2>2
<1>7. ASSUME m >= k, (EpsDen + EpsNum) * s[1] >= EpsDen * s[k]
      PROVE  Cardinality({j \in 1 .. m : EpsDen * t[j] <= (EpsDen + EpsNum) * s[1]}) >= k
    <2>1. PICK S : S = {j \in 1 .. m : EpsDen * t[j] <= (EpsDen + EpsNum) * s[1]}
        OBVIOUS
    <2>2. IsFiniteSet(S) /\ Cardinality(S) \in Nat
        <3>1. S \in SUBSET (1 .. m)
            BY <2>1
        <3>2. IsFiniteSet(1 .. m)
            BY FS_Interval
        <3> QED BY <3>1, <3>2, FS_Subset, FS_CardinalityType
    <2>3. l = k
        BY <1>2, <1>7
    <2>4. ASSUME NEW j \in 1 .. k PROVE f[j] \in S
        <3>1. s[j] <= s[k] /\ s[j] \in Int /\ s[k] \in Int /\ s[1] \in Int
            BY <1>1, <1>4, <1>5, <2>3 DEF Best, Ascending
        <3>2. EpsDen \in Nat /\ EpsNum \in Nat
            BY FcycAssumption
        <3>3. EpsDen * s[j] <= EpsDen * s[k]
            BY <3>1, <3>2
        <3>4. PICK x : x = (EpsDen + EpsNum) * s[1]
            OBVIOUS
        <3>5. x \in Int
            BY <3>1, <3>2, <3>4
        <3>6. EpsDen * s[j] <= x
            <4>1. PICK a, b : a = EpsDen * s[j] /\ b = EpsDen * s[k]
                OBVIOUS
            <4>2. a \in Int /\ b \in Int
                BY <3>1, <3>2, <4>1
            <4>3. x >= b
                BY <1>7, <3>4, <4>1
            <4> QED BY <3>3, <3>5, <4>1, <4>2, <4>3
        <3>7. f[j] \in 1 .. m /\ t[f[j]] = s[j]
            BY <1>3, <2>3
        <3> QED BY <2>1, <3>4, <3>6, <3>7
    <2>5. f \in Injection(1 .. k, S)
        BY <1>3, <2>3, <2>4 DEF Injection, IsInjective
    <2>6. Cardinality(1 .. k) <= Cardinality(S) /\ Cardinality(1 .. k) = k
        BY <2>2, <2>5, FS_Injection, FS_Interval
    <2> QED BY <2>1, <2>6
<1> QED BY <1>1, <1>4, <1>5, <1>6, <1>7

(* A sample more.                                                          *)
LEMMA AddSampleBest ==
    ASSUME ITypes, KInv, AddSample
    PROVE  KInv'
<1>1. PICK v : v = IF set.compensate THEN Compensated(reading.time) ELSE reading.time
    OBVIOUS
<1>2. v \in Int
    <2>1. ticks \in Nat /\ cyc_per_tick \in Nat /\ reading.time \in Int
        BY DEF ITypes, ClockTypes, TableTypes
    <2> QED BY <1>1, <2>1 DEF Compensated
<1>3. /\ set \in Settings /\ values \in Seq(Int) /\ taken \in Seq(Int)
      /\ samplecount = Len(taken) /\ samplecount \in Nat
      /\ Len(values) = Least(Len(taken), set.kbest) /\ pc = "got"
    BY LenProperties DEF ITypes, TableTypes, AddSample
<1>4. PICK k \in Nat \ {0} : set.kbest = k /\ set.maxsamples \in Nat
    BY <1>3, SettingTypes
<1>5. /\ values' = add_sample(values, Len(taken), v) /\ taken' = Append(taken, v)
      /\ samplecount' = samplecount + 1 /\ set' = set
      /\ pc' = (IF GoesOn(values', samplecount') THEN "sample" ELSE "return")
    BY <1>1, <1>3 DEF AddSample
<1>6. Best(values, taken, k)
    BY <1>3, <1>4 DEF KInv
<1>7. Best(values', taken', k)
    BY <1>2, <1>3, <1>4, <1>5, <1>6, BestKept
<1>8. samplecount = 0 \/ samplecount < set.maxsamples
    BY <1>3 DEF KInv
<1>9. GoesOn(values, samplecount)' = GoesOn(values', samplecount')
    BY <1>5 DEF GoesOn, has_converged
<1>10. CASE GoesOn(values', samplecount')
    <2>1. samplecount' < set'.maxsamples
        BY <1>5, <1>10 DEF GoesOn
    <2> QED BY <1>4, <1>5, <1>7, <1>10, <2>1 DEF KInv, ReturnsTheBest
<1>11. CASE ~GoesOn(values', samplecount')
    <2>1. samplecount' <= set'.maxsamples \/ samplecount' = 1
        BY <1>3, <1>4, <1>5, <1>8
    <2> QED BY <1>4, <1>5, <1>7, <1>9, <1>11, <2>1 DEF KInv, ReturnsTheBest
<1> QED BY <1>10, <1>11

(* fcyc returns.                                                           *)
LEMMA ReturnBest ==
    ASSUME ITypes, KInv, Return
    PROVE  KInv'
<1>1. /\ pc = "return" /\ pc' = "idle" /\ result' = values[1]
      /\ UNCHANGED <<set, taken, samplecount>>
    BY DEF Return
<1>2. /\ values \in Seq(Int) /\ taken \in Seq(Int) /\ samplecount = Len(taken)
      /\ Len(values) = Least(Len(taken), set.kbest) /\ samplecount > 0 /\ set \in Settings
    BY <1>1 DEF ITypes, TableTypes
<1>3. PICK k \in Nat \ {0} : set.kbest = k /\ set.maxsamples \in Nat
    BY <1>2, SettingTypes
<1>4. Best(values, taken, k) /\ ~GoesOn(values, samplecount)
      /\ (samplecount <= set.maxsamples \/ samplecount = 1)
    BY <1>1, <1>3 DEF KInv
<1>5. /\ \E j \in DOMAIN taken : taken[j] = values[1]
      /\ \A j \in DOMAIN taken : taken[j] >= values[1]
      /\ Len(taken) >= k /\ (EpsDen + EpsNum) * values[1] >= EpsDen * values[k] =>
           Cardinality({j \in DOMAIN taken : EpsDen * taken[j] <= (EpsDen + EpsNum) * values[1]})
             >= k
    BY <1>2, <1>3, <1>4, BestIsLeast
<1>6. Len(taken) < set.maxsamples =>
        Len(taken) >= k /\ (EpsDen + EpsNum) * values[1] >= EpsDen * values[k]
    BY <1>2, <1>3, <1>4 DEF GoesOn, has_converged
<1>7. ReturnsTheBest'
    BY <1>1, <1>2, <1>3, <1>4, <1>5, <1>6 DEF ReturnsTheBest
<1> QED BY <1>1, <1>7 DEF KInv

(* Every step.                                                             *)
LEMMA KInvNext == ITypes /\ KInv /\ [Next]_vars => KInv'
<1> SUFFICES ASSUME ITypes, KInv, [Next]_vars PROVE KInv'
    OBVIOUS
<1>1. CASE AddSample
    BY <1>1, AddSampleBest
<1>2. CASE Return
    BY <1>2, ReturnBest
<1>3. CASE Fsecs
    <2>1. values' = <<>> /\ taken' = <<>> /\ samplecount' = 0 /\ pc' \in {"sample", "time"}
        BY <1>3 DEF Fsecs, ITypes, TimerTypes
    <2> QED BY <2>1, BestOfNone DEF KInv, ReturnsTheBest
<1>4. CASE \/ Calibration /\ UNCHANGED fcycvars
           \/ BeforeRun \/ Start \/ RunF \/ GetCounter \/ NoCounter
    <2>1. /\ pc \notin {"idle", "return", "time", "killed", "exit"}
          /\ pc' \notin {"idle", "return", "time"}
        BY <1>4 DEF Calibration, CalTimes, CalStart, CalFirst, Poll, Event, CalEnd, CompTimes,
                    BeforeRun, Start, RunF, GetCounter, NoCounter
    <2>2. UNCHANGED <<set, values, taken, samplecount>>
        BY <1>4 DEF BeforeRun, Start, RunF, GetCounter, NoCounter, fcycvars
    <2> QED BY <2>1, <2>2 DEF KInv, ReturnsTheBest
<1>5. CASE OneRun \/ SetClock
    <2>1. pc = "time" /\ pc' \in {"time", "killed"} /\ UNCHANGED fcycvars
        BY <1>5 DEF OneRun, SetClock
    <2> QED BY <2>1 DEF KInv, ReturnsTheBest, fcycvars
<1>6. CASE Time
    <2>1. pc' = "idle" /\ taken' = taken /\ samplecount = 0
        BY <1>6 DEF Time, ITypes, TableTypes
    <2>2. taken = <<>>
        BY <2>1, EmptySeq DEF ITypes, TableTypes
    <2> QED BY <2>1, <2>2 DEF KInv, ReturnsTheBest
<1>7. CASE UNCHANGED vars
    BY <1>7 DEF vars, fcycvars, KInv, ReturnsTheBest, GoesOn, has_converged
<1> QED BY <1>1, <1>2, <1>3, <1>4, <1>5, <1>6, <1>7 DEF Next, Sampling, Done

(* fcyc returns the least sample, after at most maxsamples of them, and    *)
(* stops before that only with kbest of them within epsilon (fcyc.c).      *)
THEOREM BestIsReturned == Spec => []ReturnsTheBest
<1>1. Init => KInv
    BY DEF Init, FcycInit, KInv, ReturnsTheBest
<1>2. KInv => ReturnsTheBest
    BY DEF KInv
<1> QED BY <1>1, <1>2, KInvNext, InitTypes, NextTypes, PTL DEF Spec

-----------------------------------------------------------------------------
(* Calibration.  In a cycles from phase ph on, n interrupts come, and the  *)
(* phase is q then.                                                        *)
Through(ph, a, n, q) ==
    /\ ph \in 0 .. Slice - 1 /\ q \in 0 .. Slice - 1 /\ a \in Nat /\ n \in Nat
    /\ ph + a = Slice * n + q

(* How many interrupts these can be.                                       *)
LEMMA FewInterrupts ==
    ASSUME NEW ph, NEW a, NEW n, NEW q, Through(ph, a, n, q)
    PROVE  /\ n \in Nat /\ a \in Nat /\ ph \in Nat
           /\ ph + a < Slice => n = 0 /\ q = ph + a
           /\ a <= Slice => n <= 1
           /\ n = 1 => q = ph + a - Slice
           /\ a <= Slice * n + Slice - 1
<1>1. PICK S : S = Slice
    OBVIOUS
<1>2. /\ S \in Nat \ {0} /\ ph \in 0 .. S - 1 /\ q \in 0 .. S - 1 /\ a \in Nat /\ n \in Nat
      /\ ph + a = S * n + q
    BY <1>1, ConstantTypes DEF Through
<1>3. n >= 1 => S * n >= S
    BY <1>2
<1>4. n >= 2 => S * n >= 2 * S
    BY <1>2
<1>5. (n = 1 => S * n = S) /\ (n = 0 => S * n = 0)
    BY <1>2
<1>6. PICK y \in Nat : y = S * n
    BY <1>2
<1> QED BY <1>1, <1>2, <1>3, <1>4, <1>5, <1>6

(* One time after another.                                                 *)
LEMMA ThroughBoth ==
    ASSUME NEW ph, NEW a, NEW n, NEW q, NEW d, NEW m, NEW p,
           Through(ph, a, n, q), Through(q, d, m, p)
    PROVE  Through(ph, a + d, n + m, p)
<1>1. PICK S : S = Slice
    OBVIOUS
<1>2. /\ S \in Nat \ {0} /\ ph \in 0 .. S - 1 /\ q \in 0 .. S - 1 /\ p \in 0 .. S - 1
      /\ a \in Nat /\ n \in Nat /\ d \in Nat /\ m \in Nat
      /\ ph + a = S * n + q /\ q + d = S * m + p
    BY <1>1, ConstantTypes DEF Through
<1>3. S * (n + m) = S * n + S * m
    BY <1>2
<1>4. PICK g \in Nat, h \in Nat : g = S * n /\ h = S * m
    BY <1>2
<1>5. ph + (a + d) = S * (n + m) + p
    BY <1>2, <1>3, <1>4
<1> QED BY <1>1, <1>2, <1>5 DEF Through

(* The interrupts of a time that passes.                                   *)
LEMMA PassSteps ==
    ASSUME ClockTypes, NEW d \in Nat, NEW t \in Nat, NEW o \in Nat, NEW k \in Nat,
           Pass(d, t, o, k)
    PROVE  \E n : /\ Through(phase, d, n, phase')
                  /\ ticks' = t + n /\ own' = o + d /\ inside' = k + n
<1>1. PICK y : y = phase + d
    OBVIOUS
<1>2. y \in Int /\ y >= 0 /\ phase \in 0 .. Slice - 1 /\ Slice \in Nat \ {0}
    BY <1>1, ConstantTypes DEF ClockTypes
<1>3. /\ y \div Slice \in Nat /\ y % Slice \in 0 .. Slice - 1
      /\ y = Slice * (y \div Slice) + (y % Slice)
    BY <1>2, DivMod
<1>4. PICK n : n = y \div Slice
    OBVIOUS
<1>5. phase' = y % Slice /\ ticks' = t + n /\ own' = o + d /\ inside' = k + n
    BY <1>1, <1>4 DEF Pass
<1>6. Through(phase, d, n, phase')
    BY <1>1, <1>2, <1>3, <1>4, <1>5 DEF Through
<1> QED BY <1>5, <1>6

(* One reading after another: the counter has gone on by y, or has gone    *)
(* around as well.                                                         *)
LEMMA ReadAgain ==
    ASSUME NEW M \in Nat \ {0}, NEW b \in Nat, NEW y \in Nat
    PROVE  /\ b % M \in 0 .. M - 1 /\ (b + y) % M \in 0 .. M - 1
           /\ ((b + y) % M) - (b % M) <= y
           /\ (b + y) % M >= (b % M) /\ y < M => ((b + y) % M) - (b % M) = y
<1>1. PICK k, r : k = b \div M /\ r = b % M
    OBVIOUS
<1>2. k \in Nat /\ r \in 0 .. M - 1 /\ b = M * k + r
    <2>1. b \in Int /\ b >= 0
        OBVIOUS
    <2>2. /\ b \div M \in Nat /\ b % M \in 0 .. M - 1
          /\ b = M * (b \div M) + (b % M)
        BY <2>1, DivMod
    <2> QED BY <1>1, <2>2
<1>3. PICK x, l, u : x = b + y /\ l = x \div M /\ u = x % M
    OBVIOUS
<1>4. x \in Int /\ l \in Int /\ u \in 0 .. M - 1 /\ x = M * l + u
    BY <1>3, DivMod
<1>5. PICK w \in Int : w = l - k
    BY <1>2, <1>4
<1>6. y = M * w + (u - r)
    BY <1>2, <1>3, <1>4, <1>5
<1>7. w >= 0
    <2>1. CASE w <= -1
        <3>1. M * w <= -M
            BY <2>1
        <3> QED BY <1>2, <1>4, <1>6, <3>1
    <2> QED BY <2>1
<1>8. M * w >= 0 /\ (w >= 1 => M * w >= M) /\ (w = 0 => M * w = 0) /\ M * w \in Int
    BY <1>7
<1>9. u - r <= y
    BY <1>2, <1>4, <1>6, <1>8
<1>10. u >= r /\ y < M => u - r = y
    BY <1>2, <1>4, <1>6, <1>7, <1>8
<1> QED BY <1>1, <1>2, <1>3, <1>4, <1>9, <1>10

(* It has not gone on by more.                                             *)
LEMMA CounterGoesOn ==
    ASSUME NEW M \in Nat \ {0}, NEW b \in Nat, NEW y \in Nat
    PROVE  /\ b % M \in Int /\ (b + y) % M \in Int
           /\ ((b + y) % M) - (b % M) <= y /\ ((b + y) % M) - (b % M) \in Int
<1>1. PICK u, v : u = (b + y) % M /\ v = b % M
    OBVIOUS
<1>2. u \in 0 .. M - 1 /\ v \in 0 .. M - 1 /\ u - v <= y
    BY <1>1, ReadAgain
<1> QED BY <1>1, <1>2

(* ticks against the n interrupts since oldt was read: one of them may     *)
(* have been seen before, and one from just before oldt may be seen now.   *)
Late(t, n, ph) == t \in {n - 1, n} \/ (t = n + 1 /\ ph <= 1)

(* How far behind oldt the loop can read the counter, a cycles and n       *)
(* interrupts of c cycles after it.                                        *)
Near(x, a, n, c) ==
    /\ x <= THRESHOLD - 1 + Longest + c
    /\ x = a + n * c => a <= THRESHOLD - 1 + Longest

(* What the polling relies on, of one cost.                                *)
LEMMA PollingFacts ==
    ASSUME PollingResolves, NEW c \in Costs
    PROVE  /\ Longest \in Nat \ {0} /\ c \in Nat \ {0}
           /\ THRESHOLD \in Nat /\ RECORDTHRESH \in Nat /\ THRESHOLD > 1
           /\ THRESHOLD + 2 * Longest < Slice
           /\ THRESHOLD + Longest <= RECORDTHRESH + 1
           /\ THRESHOLD + Longest + c <= RECORDTHRESH * ((Half * Half) \div (Slice + c) - 1)
BY ConstantTypes, ClockAssumption DEF PollingResolves

(* After a whole turn of the counter there were many interrupts.           *)
LEMMA TurnTakesLong ==
    ASSUME NEW M \in Nat, NEW S \in Nat \ {0}, NEW c \in Nat, NEW a \in Nat, NEW n \in Nat,
           M <= a + n * c, a <= S * n + S - 1
    PROVE  M \div (S + c) <= n
<1>1. PICK w : w = S + c
    OBVIOUS
<1>2. PICK k : k = M \div w
    OBVIOUS
<1>3. w \in Nat \ {0} /\ M \in Int
    BY <1>1
<1>4. k \in Nat /\ M = w * k + (M % w) /\ M % w >= 0
    BY <1>2, <1>3, DivMod
<1>5. n * w = S * n + n * c
    BY <1>1
<1>6. PICK p \in Nat, r \in Nat : p = S * n /\ r = n * c
    OBVIOUS
<1>7. M < n * w + w
    BY <1>1, <1>3, <1>5, <1>6
<1>8. w * k < w * (n + 1)
    BY <1>3, <1>4, <1>7
<1>9. k < n + 1
    BY <1>3, <1>4, <1>8
<1> QED BY <1>1, <1>2, <1>4, <1>9

(* A ratio is above a bound only if what is divided is.                    *)
LEMMA RatioAbove ==
    ASSUME NEW x \in Nat, NEW t \in Nat \ {0}, NEW R \in Nat, x \div t > R
    PROVE  x > R * t
<1>1. PICK k : k = x \div t
    OBVIOUS
<1>2. k \in Int /\ x = t * k + (x % t) /\ x % t >= 0
    BY <1>1, DivMod
<1>3. t * k >= t * (R + 1)
    BY <1>1, <1>2
<1>4. t * (R + 1) = R * t + t
    OBVIOUS
<1>5. PICK y \in Int, z \in Int, r \in Int : y = t * k /\ z = R * t /\ r = x % t
    BY <1>2
<1> QED BY <1>2, <1>3, <1>4, <1>5

(* What callibrate records: the event is a gap with one interrupt.         *)
LEMMA RecordedRatio ==
    ASSUME PollingResolves, NEW c \in Costs, NEW b \in Nat, NEW a \in Nat, NEW n \in Nat,
           NEW m \in Nat, NEW d \in Nat, d <= Longest, NEW ph, NEW q, NEW p,
           Through(ph, a, n, q), Through(q, d, m, p),
           NEW x, x = ((b + (a + n * c)) % (Half * Half)) - (b % (Half * Half)),
           x >= THRESHOLD, Near(x, a, n, c),
           NEW t \in Nat \ {0}, Late(t, n + m, ph), x \div t > RECORDTHRESH
    PROVE  x \div t \in c .. c + THRESHOLD + 2 * Longest
<1>1. PICK M : M = Half * Half
    OBVIOUS
<1>2. PICK T, L, R, S : T = THRESHOLD /\ L = Longest /\ R = RECORDTHRESH /\ S = Slice
    OBVIOUS
<1>3. /\ M \in Nat \ {0} /\ S \in Nat \ {0} /\ L \in Nat \ {0} /\ c \in Nat \ {0}
      /\ T \in Nat /\ R \in Nat /\ T > 1 /\ T + 2 * L < S /\ T + L <= R + 1
      /\ T + L + c <= R * (M \div (S + c) - 1)
    BY <1>1, <1>2, PollingFacts, ConstantTypes
<1>4. PICK y \in Nat : y = a + n * c
    BY <1>3
<1>5. /\ x \in Nat /\ x <= y /\ (y < M => x = y)
    <2>1. PICK u, v : u = (b + y) % M /\ v = b % M
        OBVIOUS
    <2>2. /\ v \in 0 .. M - 1 /\ u \in 0 .. M - 1 /\ u - v <= y
          /\ u >= v /\ y < M => u - v = y
        BY <1>3, <2>1, ReadAgain
    <2>3. x = u - v
        BY <1>1, <1>4, <2>1
    <2> QED BY <1>2, <1>3, <2>2, <2>3
<1>6. x <= T - 1 + L + c /\ (x = y => a <= T - 1 + L)
    BY <1>2, <1>4 DEF Near
<1>7. a <= S * n + S - 1 /\ ph \in Nat
    BY <1>2, FewInterrupts
<1>8. x > R * t
    BY <1>2, <1>3, <1>5, RatioAbove
<1>9. t \in {n + m - 1, n + m} \/ (t = n + m + 1 /\ ph <= 1)
    BY DEF Late
<1>10. CASE y < M
    <2>1. x = y /\ a <= T - 1 + L
        BY <1>5, <1>6, <1>10
    <2>3. PICK j \in Nat, l \in Nat : j = n + m /\ l = a + d
        OBVIOUS
    <2>2. Through(ph, l, j, p)
        BY <2>3, ThroughBoth
    <2>4. l <= T - 1 + 2 * L /\ l <= S
        BY <1>2, <1>3, <2>1, <2>3
    <2>5. (ph + l < S => j = 0) /\ (l <= S => j <= 1)
        BY <1>2, <2>2, FewInterrupts
    <2>6. n = 0 => x <= R
        BY <1>3, <1>4, <2>1
    <2>7. t = 1
        <3>1. CASE t = n + m + 1 /\ ph <= 1
            BY <1>2, <1>3, <1>7, <2>3, <2>4, <2>5, <3>1
        <3>2. CASE t \in {n + m - 1, n + m}
            BY <2>3, <2>4, <2>5, <3>2
        <3> QED BY <1>9, <3>1, <3>2
    <2>8. x \div t = x /\ R * t = R
        BY <1>3, <1>5, <2>7
    <2>9. n # 0
        BY <1>3, <1>5, <1>8, <2>6, <2>8
    <2>10. n = 1
        BY <2>3, <2>4, <2>5, <2>9
    <2>11. x = a + c
        BY <1>3, <1>4, <2>1, <2>10
    <2> QED BY <1>2, <1>3, <2>1, <2>8, <2>11
<1>11. CASE y >= M
    <2>1. PICK k : k = M \div (S + c)
        OBVIOUS
    <2>2. k <= n /\ k \in Int
        <3>1. PICK w : w = S + c
            OBVIOUS
        <3>2. w \in Nat \ {0} /\ M \in Int
            BY <1>3, <3>1
        <3>3. M \div w \in Int
            BY <3>2, DivMod
        <3>4. M \div (S + c) <= n
            BY <1>3, <1>4, <1>7, <1>11, TurnTakesLong
        <3> QED BY <2>1, <3>1, <3>3, <3>4
    <2>3. t >= n - 1
        BY <1>9
    <2>4. R * (k - 1) <= R * t
        BY <1>3, <2>2, <2>3
    <2>5. x < R * (k - 1)
        BY <1>3, <1>5, <1>6, <2>1, <2>2
    <2>6. PICK g \in Int, h \in Int : g = R * (k - 1) /\ h = R * t
        BY <1>3, <2>2
    <2> QED BY <1>5, <1>8, <2>4, <2>5, <2>6
<1> QED BY <1>3, <1>4, <1>10, <1>11

(* The loop polls: oldt was read when b cycles had passed, in phase ph, a  *)
(* cycles of the program and n interrupts ago.                             *)
PollAt(b, ph, a, n) ==
    /\ b \in Nat /\ a \in Nat /\ n \in Nat
    /\ oldt = b % (Half * Half)
    /\ Elapsed = b + (a + n * cost)
    /\ Through(ph, a, n, phase)
    /\ Late(ticks, n, ph)
    /\ Near((Elapsed % (Half * Half)) - oldt, a, n, cost)

(* It has seen an event: newt was read in phase q, d cycles and m          *)
(* interrupts ago.                                                         *)
EventAt(b, ph, a, n, q, d, m) ==
    /\ b \in Nat /\ a \in Nat /\ n \in Nat /\ d \in Nat /\ m \in Nat
    /\ oldt = b % (Half * Half)
    /\ newt = (b + (a + n * cost)) % (Half * Half)
    /\ Elapsed = b + (a + n * cost) + (d + m * cost)
    /\ Through(ph, a, n, q) /\ Through(q, d, m, phase) /\ d <= Longest
    /\ Late(ticks, n + m, ph)
    /\ newt - oldt >= THRESHOLD
    /\ Near(newt - oldt, a, n, cost)

(* The calibration; before the loop at most one interrupt was charged, and *)
(* it came in the last two cycles.                                         *)
TInv ==
    /\ CalibrationCoversTick
    /\ pc \in {"cal start", "cal first"} =>
         ticks \in {0, 1} /\ (ticks = 1 => phase \in {0, 1} /\ (pc = "cal start" => phase = 0))
    /\ cpu = "i386" /\ pc = "poll" => \E b, ph, a, n : PollAt(b, ph, a, n)
    /\ cpu = "i386" /\ pc = "event" =>
         \E b, ph, a, n, q, d, m : EventAt(b, ph, a, n, q, d, m)

(* Time that passes while something is timed.                              *)
LEMMA PassElapses ==
    ASSUME ClockTypes, NEW d \in Nat, NEW t \in Nat, Pass(d, t, own, inside), cost' = cost
    PROVE  \E n : /\ Through(phase, d, n, phase') /\ ticks' = t + n
                  /\ Elapsed' = Elapsed + (d + n * cost)
<1>1. own \in Nat /\ inside \in Nat /\ cost \in Nat
    BY ConstantTypes DEF ClockTypes
<1>2. PICK n : /\ Through(phase, d, n, phase')
               /\ ticks' = t + n /\ own' = own + d /\ inside' = inside + n
    BY <1>1, PassSteps
<1>6. n \in Nat
    BY <1>2, FewInterrupts
<1>3. (inside + n) * cost = inside * cost + n * cost
    BY <1>1, <1>6
<1>4. PICK g \in Nat, h \in Nat : g = inside * cost /\ h = n * cost
    BY <1>1, <1>6
<1>5. Elapsed' = Elapsed + (d + n * cost)
    BY <1>1, <1>2, <1>3, <1>4 DEF Elapsed
<1> QED BY <1>2, <1>5

(* What the polling relies on, in a state.                                 *)
LEMMA StateFacts ==
    ASSUME PollingResolves, ClockTypes
    PROVE  /\ cost \in Costs /\ cost \in Nat \ {0} /\ Longest \in Nat \ {0}
           /\ THRESHOLD \in Nat /\ THRESHOLD > 1 /\ THRESHOLD + 2 * Longest < Slice
           /\ Slice \in Nat \ {0} /\ phase \in 0 .. Slice - 1 /\ ticks \in Nat
           /\ Elapsed \in Nat /\ Half * Half \in Nat \ {0}
<1>1. cost \in Costs /\ own \in Nat /\ inside \in Nat /\ phase \in 0 .. Slice - 1 /\ ticks \in Nat
    BY DEF ClockTypes
<1>2. own + inside * cost \in Nat
    BY <1>1, ConstantTypes
<1> QED BY <1>1, <1>2, PollingFacts, ConstantTypes DEF Elapsed

(* Before the loop.                                                        *)
LEMMA CalTimesTicks ==
    ASSUME PollingResolves, ClockTypes, ClockTypes', CalTimes \/ CalStart, TInv
    PROVE  ticks' \in {0, 1} /\ (ticks' = 1 => phase' \in {0, 1} /\ (pc' = "cal start" => phase' = 0))
<1>1. /\ Slice \in Nat \ {0} /\ Slice > 2 /\ phase \in 0 .. Slice - 1 /\ ticks \in Nat
      /\ phase' \in 0 .. Slice - 1
    BY StateFacts DEF ClockTypes
<1>2. CASE CalTimes
    <2>1. ClockTypes /\ 0 \in Nat /\ 1 \in Nat /\ Pass(1, 0, 0, 0)
        BY <1>2 DEF CalTimes, Idle
    <2>2. PICK n : Through(phase, 1, n, phase') /\ ticks' = 0 + n
        BY <2>1, PassSteps
    <2>3. n \in Nat /\ n <= 1 /\ (n = 1 => phase' = phase + 1 - Slice)
        BY <1>1, <2>2, FewInterrupts
    <2>4. ticks' = n /\ (n = 1 => phase' = 0)
        BY <1>1, <2>2, <2>3
    <2>5. ticks' \in {0, 1}
        BY <2>3, <2>4
    <2>6. ticks' = 1 => phase' = 0
        BY <2>4
    <2> QED BY <2>5, <2>6
<1>3. CASE CalStart
    <2>1. ClockTypes /\ 0 \in Nat /\ 1 \in Nat /\ ticks \in Nat /\ Pass(1, ticks, 0, 0)
        BY <1>1, <1>3 DEF CalStart, start_counter, Idle
    <2>2. PICK n : Through(phase, 1, n, phase') /\ ticks' = ticks + n
        BY <2>1, PassSteps
    <2>3. pc = "cal start" /\ pc' = "cal first"
        BY <1>3 DEF CalStart
    <2>4. ticks \in {0, 1} /\ (ticks = 1 => phase = 0)
        BY <1>1, <2>3 DEF TInv
    <2>5. /\ n \in Nat /\ n <= 1 /\ (n = 1 => phase' = phase + 1 - Slice)
          /\ phase + 1 < Slice => n = 0 /\ phase' = phase + 1
        BY <1>1, <2>2, FewInterrupts
    <2>6. ticks' \in {0, 1} /\ (ticks' = 1 => phase' \in {0, 1})
        <3>1. CASE ticks = 0
            BY <1>1, <2>2, <2>5, <3>1
        <3>2. CASE ticks = 1
            BY <1>1, <2>2, <2>4, <2>5, <3>2
        <3> QED BY <2>4, <3>1, <3>2
    <2>7. pc' # "cal start"
        BY <2>3
    <2> QED BY <2>6, <2>7
<1> QED BY <1>2, <1>3

(* The first reading.                                                      *)
LEMMA CalFirstPolls ==
    ASSUME PollingResolves, ClockTypes, ClockTypes', CalFirst, TInv,
           get_counter = Elapsed % (Half * Half)
    PROVE  \E b, ph, a, n : PollAt(b, ph, a, n)'
<1>1. PICK M : M = Half * Half
    OBVIOUS
<1>2. PICK E, ph : E = Elapsed /\ ph = phase
    OBVIOUS
<1>3. /\ M \in Nat \ {0} /\ E \in Nat /\ cost \in Nat \ {0} /\ Longest \in Nat \ {0}
      /\ THRESHOLD \in Nat /\ THRESHOLD > 1 /\ Slice > 2 /\ Slice \in Nat
      /\ ph \in 0 .. Slice - 1 /\ phase' \in 0 .. Slice - 1 /\ ticks \in Nat
    BY <1>1, <1>2, StateFacts DEF ClockTypes
<1>4. oldt' = E % M /\ cost' = cost /\ Pass(1, ticks, own, inside) /\ pc = "cal first"
    BY <1>1, <1>2 DEF CalFirst, Delay
<1>5. PICK n : /\ Through(ph, 1, n, phase') /\ ticks' = ticks + n
               /\ Elapsed' = E + (1 + n * cost)
    <2>1. 1 \in Nat /\ ClockTypes
        OBVIOUS
    <2> QED BY <1>2, <1>3, <1>4, <2>1, PassElapses
<1>6. Late(ticks', n, ph)
    <2>3. ticks \in {0, 1} /\ (ticks = 1 => phase \in {0, 1})
        BY <1>4 DEF TInv
    <2>1. ticks \in {0, 1} /\ (ticks = 1 => ph <= 1)
        BY <1>2, <1>3, <2>3
    <2>2. n \in Nat
        BY <1>5, FewInterrupts
    <2> QED BY <1>5, <2>1, <2>2 DEF Late
<1>7. n \in Nat /\ n <= 1
    BY <1>3, <1>5, FewInterrupts
<1>8. PICK y \in Nat : y = 1 + n * cost
    BY <1>3, <1>7
<1>9. y <= 1 + cost
    BY <1>3, <1>7, <1>8
<1>10. PICK x : x = ((E + y) % M) - (E % M)
    OBVIOUS
<1>11. x <= y /\ x \in Int
    BY <1>3, <1>8, <1>10, CounterGoesOn
<1>12. Near(x, 1, n, cost)
    BY <1>3, <1>9, <1>11 DEF Near
<1>13. (Elapsed' % M) - oldt' = x /\ Elapsed' = E + (1 + n * cost) /\ 1 \in Nat
    BY <1>4, <1>5, <1>8, <1>10
<1>14. Near((Elapsed' % M) - oldt', 1, n, cost')
    BY <1>4, <1>12, <1>13
<1>15. PollAt(E, ph, 1, n)'
    BY <1>1, <1>3, <1>4, <1>5, <1>6, <1>7, <1>13, <1>14 DEF PollAt
<1> QED BY <1>15

(* A turn of the loop.                                                     *)
LEMMA PollGoesOn ==
    ASSUME PollingResolves, ClockTypes, ClockTypes', Poll, NEW b, NEW ph, NEW a, NEW n,
           PollAt(b, ph, a, n), get_counter = Elapsed % (Half * Half)
    PROVE  /\ pc' = "poll" => \E k, l : PollAt(b, ph, k, l)'
           /\ pc' = "event" => \E q, d, m : EventAt(b, ph, a, n, q, d, m)'
<1>1. PICK M, E, q, c : M = Half * Half /\ E = Elapsed /\ q = phase /\ c = cost
    OBVIOUS
<1>2. PICK T, L, S : T = THRESHOLD /\ L = Longest /\ S = Slice
    OBVIOUS
<1>3. /\ M \in Nat \ {0} /\ E \in Nat /\ c \in Nat \ {0} /\ L \in Nat \ {0}
      /\ T \in Nat /\ T > 1 /\ T + 2 * L < S /\ S \in Nat \ {0}
      /\ q \in 0 .. S - 1 /\ phase' \in 0 .. S - 1 /\ ticks \in Nat
    BY <1>1, <1>2, StateFacts DEF ClockTypes
<1>4. PICK d \in Delays : Pass(d, ticks, own, inside)
    BY DEF Poll
<1>5. d \in Nat /\ d <= L
    BY <1>2, ConstantTypes DEF PollingResolves
<1>6. /\ newt' = E % M /\ oldt' = oldt /\ cost' = c
      /\ pc' = IF newt' - oldt >= T THEN "event" ELSE "poll"
    BY <1>1, <1>2 DEF Poll
<1>7. PICK m : /\ Through(q, d, m, phase') /\ ticks' = ticks + m
               /\ Elapsed' = E + (d + m * c)
    BY <1>1, <1>3, <1>4, <1>5, <1>6, PassElapses
<1>12. m \in Nat /\ m <= 1
    BY <1>2, <1>3, <1>5, <1>7, FewInterrupts
<1>8. /\ b \in Nat /\ a \in Nat /\ n \in Nat
      /\ oldt = b % M /\ E = b + (a + n * c) /\ Through(ph, a, n, q)
      /\ Late(ticks, n, ph) /\ Near((E % M) - oldt, a, n, c)
    BY <1>1, <1>2 DEF PollAt
<1>9. Late(ticks', n + m, ph)
    BY <1>3, <1>7, <1>8, <1>12 DEF Late
<1>10. ASSUME pc' = "event"
       PROVE  \E k, l, j : EventAt(b, ph, a, n, k, l, j)'
    <2>1. newt' - oldt' >= T /\ newt' = (b + (a + n * c)) % M
        BY <1>6, <1>8, <1>10
    <2>2. Elapsed' = b + (a + n * c) + (d + m * c)
        BY <1>7, <1>8
    <2>3. Near(newt' - oldt', a, n, c)
        BY <1>6, <1>8
    <2>4. EventAt(b, ph, a, n, q, d, m)'
        BY <1>1, <1>2, <1>3, <1>5, <1>6, <1>7, <1>8, <1>9, <1>12, <2>1, <2>2, <2>3 DEF EventAt
    <2> QED BY <2>4
<1>11. ASSUME pc' = "poll"
       PROVE  \E k, l : PollAt(b, ph, k, l)'
    <2>1. PICK x, z : x = (E % M) - oldt /\ z = (Elapsed' % M) - oldt
        OBVIOUS
    <2>2. x < T /\ x \in Int
        BY <1>3, <1>6, <1>8, <1>11, <2>1
    <2>3. PICK y \in Nat, g \in Nat, h \in Nat : y = d + h /\ g = n * c /\ h = m * c
        BY <1>3, <1>5, <1>8, <1>12
    <2>4. z \in Int /\ z - x <= y
        <3>1. PICK u, v : u = E % M /\ v = (E + y) % M
            OBVIOUS
        <3>2. u \in Int /\ v \in Int /\ v - u <= y
            BY <1>3, <2>3, <3>1, CounterGoesOn
        <3>3. x = u - oldt /\ z = v - oldt /\ oldt \in Int
            BY <1>3, <1>7, <1>8, <2>1, <2>3, <3>1, CounterGoesOn
        <3> QED BY <3>2, <3>3, <2>3
    <2>6. h <= c
        BY <1>3, <1>12, <2>3
    <2>7. z <= T - 1 + L + c
        BY <1>3, <1>5, <2>2, <2>3, <2>4, <2>6
    <2>8. PICK k \in Nat, l \in Nat : k = a + d /\ l = n + m
        BY <1>5, <1>8, <1>12
    <2>9. l * c = g + h
        BY <1>3, <1>8, <1>12, <2>3, <2>8
    <2>10. z = k + l * c => k <= T - 1 + L
        BY <1>3, <1>5, <1>8, <2>2, <2>3, <2>4, <2>8, <2>9
    <2>11. Near(z, k, l, c)
        BY <1>2, <2>7, <2>10 DEF Near
    <2>12. Through(ph, k, l, phase')
        BY <1>7, <1>8, <2>8, ThroughBoth
    <2>13. Elapsed' = b + (k + l * c)
        <3>1. E = b + (a + g) /\ Elapsed' = E + (d + h)
            BY <1>7, <1>8, <2>3
        <3> QED BY <1>5, <1>8, <2>3, <2>8, <2>9, <3>1
    <2>14. Late(ticks', l, ph)
        BY <1>9, <2>8
    <2>15. PollAt(b, ph, k, l)'
        BY <1>1, <1>2, <1>3, <1>6, <1>8, <2>1, <2>8, <2>11, <2>12, <2>13, <2>14 DEF PollAt
    <2> QED BY <2>15
<1> QED BY <1>10, <1>11

(* The end of an event.                                                    *)
LEMMA EventEnds ==
    ASSUME PollingResolves, ClockTypes, ClockTypes', Event,
           NEW b, NEW ph, NEW a, NEW n, NEW q, NEW d, NEW m,
           EventAt(b, ph, a, n, q, d, m)
    PROVE  \E o, k, l : PollAt(o, q, k, l)'
<1>1. PICK M, E, r, c : M = Half * Half /\ E = Elapsed /\ r = phase /\ c = cost
    OBVIOUS
<1>2. PICK T, L, S : T = THRESHOLD /\ L = Longest /\ S = Slice
    OBVIOUS
<1>3. /\ M \in Nat \ {0} /\ E \in Nat /\ c \in Nat \ {0} /\ L \in Nat \ {0}
      /\ T \in Nat /\ T > 1 /\ T + 2 * L < S /\ S \in Nat \ {0}
      /\ r \in 0 .. S - 1 /\ phase' \in 0 .. S - 1
    BY <1>1, <1>2, StateFacts DEF ClockTypes
<1>4. Pass(1, 0, own, inside) /\ oldt' = newt /\ cost' = c
    BY <1>1 DEF Event, Delay
<1>5. PICK j : /\ Through(r, 1, j, phase') /\ ticks' = 0 + j
               /\ Elapsed' = E + (1 + j * c)
    <2>1. 0 \in Nat /\ 1 \in Nat /\ ClockTypes
        OBVIOUS
    <2> QED BY <1>1, <1>4, <2>1, PassElapses
<1>19. j \in Nat
    BY <1>5, FewInterrupts
<1>6. /\ b \in Nat /\ a \in Nat /\ n \in Nat /\ d \in Nat /\ m \in Nat
      /\ newt = (b + (a + n * c)) % M
      /\ E = b + (a + n * c) + (d + m * c)
      /\ Through(q, d, m, r) /\ d <= L
    BY <1>1, <1>2 DEF EventAt
<1>7. PICK o \in Nat : o = b + (a + n * c)
    BY <1>3, <1>6
<1>8. PICK k \in Nat, l \in Nat : k = d + 1 /\ l = m + j
    BY <1>6, <1>19
<1>9. Through(q, k, l, phase')
    BY <1>5, <1>6, <1>8, ThroughBoth
<1>10. l <= 1
    BY <1>2, <1>3, <1>6, <1>8, <1>9, FewInterrupts
<1>11. PICK g \in Nat, h \in Nat, y \in Nat : g = m * c /\ h = j * c /\ y = k + l * c
    BY <1>3, <1>6, <1>8, <1>19
<1>12. l * c = g + h /\ l * c <= c
    BY <1>3, <1>6, <1>8, <1>10, <1>11, <1>19
<1>13. Elapsed' = o + y
    BY <1>3, <1>5, <1>6, <1>7, <1>8, <1>11, <1>12, <1>19
<1>14. Late(ticks', l, q)
    BY <1>5, <1>6, <1>8, <1>10, <1>19 DEF Late
<1>15. PICK x : x = ((o + y) % M) - (o % M)
    OBVIOUS
<1>16. x <= y /\ x \in Int
    BY <1>3, <1>7, <1>11, <1>15, CounterGoesOn
<1>17. Near(x, k, l, c)
    BY <1>2, <1>3, <1>6, <1>8, <1>11, <1>12, <1>16 DEF Near
<1>18. PollAt(o, q, k, l)'
    BY <1>1, <1>2, <1>3, <1>4, <1>6, <1>7, <1>8, <1>9, <1>11, <1>13, <1>14, <1>15, <1>17
       DEF PollAt
<1> QED BY <1>18

(* What an event records.                                                  *)
LEMMA EventCovers ==
    ASSUME PollingResolves, ClockTypes, Event, CalibrationCoversTick,
           cpu = "i386" => \E b, ph, a, n, q, d, m : EventAt(b, ph, a, n, q, d, m)
    PROVE  CalibrationCoversTick'
<1>1. PICK x, t : x = newt - oldt /\ t = ticks
    OBVIOUS
<1>2. /\ cpu' = cpu /\ cost' = cost
      /\ \/ cyc_per_tick' = cyc_per_tick
         \/ t > 0 /\ x \div t > RECORDTHRESH /\ cyc_per_tick' = x \div t
    BY <1>1 DEF Event, Cheaper
<1>3. CASE cyc_per_tick' = cyc_per_tick \/ cpu # "i386"
    BY <1>2, <1>3 DEF CalibrationCoversTick
<1>4. CASE cpu = "i386" /\ t > 0 /\ x \div t > RECORDTHRESH /\ cyc_per_tick' = x \div t
    <2>1. PICK b, ph, a, n, q, d, m : EventAt(b, ph, a, n, q, d, m)
        BY <1>4
    <2>2. /\ b \in Nat /\ a \in Nat /\ n \in Nat /\ d \in Nat /\ m \in Nat
          /\ x = ((b + (a + n * cost)) % (Half * Half)) - (b % (Half * Half))
          /\ Through(ph, a, n, q) /\ Through(q, d, m, phase) /\ d <= Longest
          /\ Late(t, n + m, ph) /\ x >= THRESHOLD /\ Near(x, a, n, cost)
        BY <1>1, <2>1 DEF EventAt
    <2>3. t \in Nat \ {0} /\ phase \in 0 .. Slice - 1 /\ cost \in Costs
        BY <1>1, <1>4, StateFacts
    <2>4. x \div t \in cost .. cost + THRESHOLD + 2 * Longest
        BY <1>4, <2>2, <2>3, RecordedRatio
    <2> QED BY <1>2, <1>4, <2>4 DEF CalibrationCoversTick
<1> QED BY <1>2, <1>3, <1>4

(* Every step.                                                             *)
LEMMA TInvNext ==
    ITypes /\ ITypes' /\ CounterIsElapsed /\ PollingResolves /\ TInv /\ [Next]_vars => TInv'
<1> SUFFICES ASSUME ITypes, ITypes', CounterIsElapsed, PollingResolves, TInv, [Next]_vars
             PROVE  TInv'
    OBVIOUS
<1>1. ClockTypes /\ ClockTypes'
    BY DEF ITypes
<1>2. cpu = "i386" /\ pc \in {"cal first", "poll"} => get_counter = Elapsed % (Half * Half)
    BY DEF CounterIsElapsed, Started, HasCounter, Elapsed
<1>3. CASE CalTimes \/ CalStart
    <2>1. ticks' \in {0, 1} /\ (ticks' = 1 => phase' \in {0, 1} /\ (pc' = "cal start" => phase' = 0))
        BY <1>1, <1>3, CalTimesTicks
    <2>2. /\ UNCHANGED <<cpu, cost, cyc_per_tick>>
          /\ pc' \notin {"poll", "event"}
        BY <1>3 DEF CalTimes, CalStart
    <2> QED BY <2>1, <2>2 DEF TInv, CalibrationCoversTick
<1>4. CASE CalFirst
    <2>1. /\ UNCHANGED <<cpu, cost, cyc_per_tick>>
          /\ pc = "cal first" /\ pc' = "poll"
        BY <1>4 DEF CalFirst
    <2>2. cpu = "i386" => \E b, ph, a, n : PollAt(b, ph, a, n)'
        BY <1>1, <1>2, <1>4, <2>1, CalFirstPolls
    <2> QED BY <2>1, <2>2 DEF TInv, CalibrationCoversTick
<1>5. CASE Poll
    <2>1. /\ UNCHANGED <<cpu, cost, cyc_per_tick>>
          /\ pc = "poll" /\ pc' \in {"poll", "event"}
        BY <1>5 DEF Poll
    <2>2. ASSUME cpu = "i386"
          PROVE  /\ pc' = "poll" => \E b, ph, a, n : PollAt(b, ph, a, n)'
                 /\ pc' = "event" => \E b, ph, a, n, q, d, m : EventAt(b, ph, a, n, q, d, m)'
        <3>1. PICK b, ph, a, n : PollAt(b, ph, a, n)
            BY <2>1, <2>2 DEF TInv
        <3>2. /\ pc' = "poll" => \E k, l : PollAt(b, ph, k, l)'
              /\ pc' = "event" => \E q, d, m : EventAt(b, ph, a, n, q, d, m)'
            BY <1>1, <1>2, <1>5, <2>1, <2>2, <3>1, PollGoesOn
        <3> QED BY <3>2
    <2> QED BY <2>1, <2>2 DEF TInv, CalibrationCoversTick
<1>6. CASE Event
    <2>1. cpu' = cpu /\ pc = "event" /\ pc' = "poll"
        BY <1>6 DEF Event
    <2>2. cpu = "i386" => \E b, ph, a, n, q, d, m : EventAt(b, ph, a, n, q, d, m)
        BY <2>1 DEF TInv
    <2>3. cpu = "i386" => \E b, ph, a, n : PollAt(b, ph, a, n)'
        BY <1>1, <1>6, <2>2, EventEnds
    <2>4. CalibrationCoversTick'
        BY <1>1, <1>6, <2>2, EventCovers DEF TInv
    <2> QED BY <2>1, <2>3, <2>4 DEF TInv
<1>7. CASE \/ CalEnd \/ CompTimes \/ BeforeRun \/ Start \/ RunF \/ GetCounter \/ AddSample
           \/ NoCounter \/ Fsecs \/ OneRun \/ SetClock \/ Time \/ Return
    <2>1. /\ UNCHANGED <<cpu, cost, cyc_per_tick>>
          /\ pc' \notin {"cal start", "cal first", "poll", "event"}
        BY <1>7 DEF CalEnd, CompTimes, BeforeRun, Start, RunF, GetCounter, AddSample, NoCounter,
                    Fsecs, OneRun, SetClock, Time, Return, clock
    <2> QED BY <2>1 DEF TInv, CalibrationCoversTick
<1>8. CASE UNCHANGED vars
    <2>1. UNCHANGED <<pc, cpu, cost, cyc_per_tick, ticks, phase, oldt, newt, own, inside>>
        BY <1>8 DEF vars, clock, counter
    <2>2. CalibrationCoversTick'
        BY <2>1 DEF TInv, CalibrationCoversTick
    <2>3. ASSUME cpu = "i386", pc = "poll"
          PROVE  \E b, ph, a, n : PollAt(b, ph, a, n)'
        <3>1. PICK b, ph, a, n : PollAt(b, ph, a, n)
            BY <2>3 DEF TInv
        <3>2. PollAt(b, ph, a, n)'
            BY <2>1, <3>1 DEF PollAt, Elapsed
        <3> QED BY <3>2
    <2>4. ASSUME cpu = "i386", pc = "event"
          PROVE  \E b, ph, a, n, q, d, m : EventAt(b, ph, a, n, q, d, m)'
        <3>1. PICK b, ph, a, n, q, d, m : EventAt(b, ph, a, n, q, d, m)
            BY <2>4 DEF TInv
        <3>2. EventAt(b, ph, a, n, q, d, m)'
            BY <2>1, <3>1 DEF EventAt, Elapsed
        <3> QED BY <3>2
    <2> QED BY <2>1, <2>2, <2>3, <2>4 DEF TInv
<1> QED BY <1>3, <1>4, <1>5, <1>6, <1>7, <1>8 DEF Next, Calibration, Sampling, Done

(* What callibrate records is what an interrupt costs, and at most a gap   *)
(* more, if its polling resolves the interrupts (clock.c, callibrate).     *)
THEOREM TicksAreCovered == ASSUME PollingResolves PROVE Spec => []CalibrationCoversTick
<1>1. Init => TInv
    BY DEF Init, ClockInit, TInv, CalibrationCoversTick
<1>2. TInv => CalibrationCoversTick
    BY DEF TInv
<1>3. ITypes /\ ITypes' /\ CounterIsElapsed /\ TInv /\ [Next]_vars => TInv'
    BY TInvNext
<1> QED BY <1>1, <1>2, <1>3, InitTypes, NextTypes, CounterIsExact, PTL DEF Spec

-----------------------------------------------------------------------------
(* Compensation.  Of the interrupts charged at most one came before the    *)
(* counter was started and at most one after it was read.                  *)
NInv ==
    set.compensate =>
      /\ pc = "start" => ticks \in {0, 1}
      /\ pc \in {"run", "stop"} => ticks - inside \in {0, 1}
      /\ pc = "got" =>
           /\ reading.own \in Nat /\ reading.inside \in Nat
           /\ ticks - reading.inside \in 0 .. 2
           /\ cpu = "i386" =>
                reading.time = (reading.own + reading.inside * cost) % (Half * Half)

(* t interrupts charged at p each, for k that took c cycles each.          *)
LEMMA Charged ==
    ASSUME NEW M \in Nat \ {0}, NEW o \in Nat, NEW k \in Nat, NEW c \in Nat,
           NEW p \in Nat, p >= c, NEW t \in Nat, t - k \in 0 .. 2,
           NEW x, x = (o + k * c) % M
    PROVE  /\ x - t * p <= o
           /\ o + k * c < M => x - t * p >= o - k * (p - c) - 2 * p
<1>1. PICK j \in 0 .. 2, f \in Nat : t = k + j /\ p = c + f
    <2>1. t = k + (t - k) /\ p = c + (p - c) /\ p - c \in Nat
        OBVIOUS
    <2> QED BY <2>1
<1>2. PICK g \in Nat, h \in Nat, y \in Nat : g = k * c /\ h = k * f /\ y = j * p
    BY <1>1
<1>3. t * p = g + h + y
    <2>1. t * p = k * p + j * p /\ k * p = k * c + k * f
        BY <1>1
    <2> QED BY <1>2, <2>1
<1>4. k * (p - c) = h
    BY <1>1, <1>2
<1>5. y <= 2 * p
    BY <1>1, <1>2
<1>6. PICK z \in Nat : z = o + g
    BY <1>2
<1>7. x = z % M /\ z % M \in 0 .. M - 1 /\ z % M <= z
    BY <1>2, <1>6
<1>8. z < M => x = z
    BY <1>6, <1>7
<1>9. x \in Int /\ x <= z
    BY <1>6, <1>7
<1>10. x - t * p <= o
    BY <1>2, <1>3, <1>6, <1>9
<1>11. z < M => x - t * p >= o - h - 2 * p
    BY <1>1, <1>2, <1>3, <1>5, <1>6, <1>8
<1> QED BY <1>2, <1>4, <1>6, <1>10, <1>11

(* In one cycle at most one interrupt comes.                               *)
LEMMA OneCycle ==
    ASSUME ClockTypes, NEW t \in Nat, NEW o \in Nat, NEW k \in Nat, Pass(1, t, o, k)
    PROVE  \E n \in {0, 1} : ticks' = t + n /\ inside' = k + n
<1>1. 1 \in Nat /\ 1 <= Slice /\ Slice \in Nat
    BY ConstantTypes
<1>2. PICK n : Through(phase, 1, n, phase') /\ ticks' = t + n /\ inside' = k + n
    BY <1>1, PassSteps
<1>3. n \in Nat /\ n <= 1
    BY <1>1, <1>2, FewInterrupts
<1>4. n \in {0, 1}
    BY <1>3
<1> QED BY <1>2, <1>4

(* The ticks of a measurement.                                             *)
LEMMA NInvNext ==
    ITypes /\ ITypes' /\ CounterIsElapsed /\ NInv /\ [Next]_vars => NInv'
<1> SUFFICES ASSUME ITypes, ITypes', CounterIsElapsed, NInv, [Next]_vars, set'.compensate
             PROVE  NInv'
    BY DEF NInv
<1>1. ClockTypes /\ ticks \in Nat /\ inside \in Nat /\ own \in Nat /\ 0 \in Nat /\ 1 \in Nat
    BY DEF ITypes, ClockTypes
<1>2. CASE CompTimes
    <2>1. Pass(1, 0, 0, 0) /\ pc' = "start"
        BY <1>2 DEF CompTimes, Idle
    <2>2. PICK n \in {0, 1} : ticks' = 0 + n
        BY <1>1, <2>1, OneCycle
    <2>3. ticks' \in {0, 1}
        BY <2>2
    <2> QED BY <2>1, <2>3 DEF NInv
<1>3. CASE BeforeRun
    <2>1. pc' \notin {"start", "run", "stop", "got"}
        <3>1. set' = set
            BY <1>3 DEF BeforeRun
        <3>2. set.compensate
            BY <3>1
        <3> QED BY <1>3, <3>2 DEF BeforeRun
    <2> QED BY <2>1 DEF NInv
<1>4. CASE Start
    <2>1. Pass(1, ticks, 0, 0) /\ pc = "start" /\ pc' = "run" /\ set' = set
        BY <1>4 DEF Start, start_counter, Idle, fcycvars
    <2>2. PICK n \in {0, 1} : ticks' = ticks + n /\ inside' = 0 + n
        BY <1>1, <2>1, OneCycle
    <2>3. ticks \in {0, 1}
        BY <2>1 DEF NInv
    <2>4. ticks' - inside' = ticks
        BY <1>1, <2>2
    <2> QED BY <2>1, <2>3, <2>4 DEF NInv
<1>5. CASE RunF
    <2>1. PICK w \in Work : Pass(w, ticks, own, inside)
        BY <1>5 DEF RunF
    <2>2. w \in Nat
        BY ConstantTypes
    <2>3. PICK n : Through(phase, w, n, phase') /\ ticks' = ticks + n /\ inside' = inside + n
        BY <1>1, <2>1, <2>2, PassSteps
    <2>4. n \in Nat
        BY <2>3, FewInterrupts
    <2>5. ticks' - inside' = ticks - inside
        BY <1>1, <2>3, <2>4
    <2>6. pc = "run" /\ pc' = "stop" /\ set' = set
        BY <1>5 DEF RunF, fcycvars
    <2>7. ticks - inside \in {0, 1}
        BY <2>6 DEF NInv
    <2> QED BY <2>5, <2>6, <2>7 DEF NInv
<1>6. CASE GetCounter
    <2>1. /\ Pass(1, ticks, 0, 0) /\ pc = "stop" /\ pc' = "got"
          /\ UNCHANGED <<set, cpu, cost>>
          /\ reading' = [time |-> get_counter, own |-> own, inside |-> inside]
        BY <1>6 DEF GetCounter, Idle
    <2>2. PICK n \in {0, 1} : ticks' = ticks + n
        BY <1>1, <2>1, OneCycle
    <2>3. ticks - inside \in {0, 1}
        BY <2>1 DEF NInv
    <2>4. ticks' - inside \in 0 .. 2
        BY <1>1, <2>2, <2>3
    <2>5. cpu = "i386" => get_counter = (own + inside * cost) % (Half * Half)
        BY <2>1 DEF CounterIsElapsed, Started, HasCounter
    <2>6. reading'.own = own /\ reading'.inside = inside /\ reading'.time = get_counter
        BY <2>1
    <2> QED BY <1>1, <2>1, <2>4, <2>5, <2>6 DEF NInv
<1>7. CASE CalTimes \/ CalStart \/ CalFirst \/ Poll \/ Event \/ CalEnd \/ AddSample \/ NoCounter
           \/ Fsecs \/ OneRun \/ SetClock \/ Time \/ Return
    <2>1. pc' \notin {"start", "run", "stop", "got"}
        BY <1>7 DEF CalTimes, CalStart, CalFirst, Poll, Event, CalEnd, AddSample, NoCounter,
                    Fsecs, OneRun, SetClock, Time, Return
    <2> QED BY <2>1 DEF NInv
<1>8. CASE UNCHANGED vars
    <2>1. UNCHANGED <<pc, cpu, cost, ticks, inside, reading, set>>
        BY <1>8 DEF vars, clock, counter, fcycvars
    <2> QED BY <2>1 DEF NInv
<1> QED BY <1>2, <1>3, <1>4, <1>5, <1>6, <1>7, <1>8 DEF Next, Calibration, Sampling, Done

(* A compensated measurement is at most what f used, and below it by no    *)
(* more than the error of cyc_per_tick for each interrupt and two of them  *)
(* (clock.c, start_comp_counter and get_comp_counter).                     *)
THEOREM MeasuresNeverOvercharge == ASSUME PollingResolves PROVE Spec => []NeverOvercharged
<1>1. Init => NInv
    BY DEF Init, NInv
<1>2. ITypes /\ CalibrationCoversTick /\ NInv => NeverOvercharged
    <2> SUFFICES ASSUME ITypes, CalibrationCoversTick, NInv, pc = "got", set.compensate,
                        cpu = "i386", cyc_per_tick # 0
                 PROVE  LET least == reading.own - reading.inside * (cyc_per_tick - cost) IN
                        /\ Compensated(reading.time) <= reading.own
                        /\ reading.own + reading.inside * cost < Half * Half =>
                             Compensated(reading.time) >= least - 2 * cyc_per_tick
        BY DEF NeverOvercharged
    <2>1. PICK o, k, c, p, t, x, M :
             /\ o = reading.own /\ k = reading.inside /\ c = cost /\ p = cyc_per_tick
             /\ t = ticks /\ x = reading.time /\ M = Half * Half
        OBVIOUS
    <2>2. /\ o \in Nat /\ k \in Nat /\ t - k \in 0 .. 2 /\ x = (o + k * c) % M
        BY <2>1 DEF NInv
    <2>3. c \in Nat /\ p \in Nat /\ t \in Nat /\ M \in Nat \ {0}
        BY <2>1, ConstantTypes DEF ITypes, ClockTypes
    <2>4. p >= c
        <3>1. cyc_per_tick \in cost .. cost + THRESHOLD + 2 * Longest
            BY DEF CalibrationCoversTick
        <3> QED BY <2>1, <2>3, <3>1
    <2>5. /\ x - t * p <= o
          /\ o + k * c < M => x - t * p >= o - k * (p - c) - 2 * p
        BY <2>2, <2>3, <2>4, Charged
    <2> QED BY <2>1, <2>5 DEF Compensated
<1>3. ITypes /\ ITypes' /\ CounterIsElapsed /\ NInv /\ [Next]_vars => NInv'
    BY NInvNext
<1> QED BY <1>1, <1>2, <1>3, InitTypes, NextTypes, CounterIsExact, TicksAreCovered, PTL DEF Spec

=============================================================================
