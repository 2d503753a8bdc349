---------------------------- MODULE Main_proofs ----------------------------
(***************************************************************************)
(* Theorems of Main, for every command line, list of default files, set of *)
(* measurements and weight of the index.                                   *)
(***************************************************************************)
EXTENDS Main, WellFoundedInduction, FiniteSetTheorems, SequenceTheorems, TLAPS

-----------------------------------------------------------------------------
(* A non-empty set of naturals has a least element.                        *)
LEMMA LeastOf ==
  ASSUME NEW S \in SUBSET Nat, S # {}
  PROVE  \E x \in S : \A y \in S : x <= y
<1>1. PICK R : R = OpToRel(<, Nat)
  OBVIOUS
<1>2. \A x, y \in Nat : <<y, x>> \in R <=> y < x
  BY <1>1 DEF OpToRel
<1>3. IsWellFoundedOn(R, Nat)
  BY <1>1, NatLessThanWellFounded
<1>4. PICK x \in S : \A y \in S : ~ (<<y, x>> \in R)
  BY <1>3, WFMin
<1>5. S \subseteq Nat
  OBVIOUS
<1>6. \A y \in S : ~(y < x)
  BY <1>2, <1>4, <1>5, Zenon
<1> QED BY <1>5, <1>6

(* A set of naturals with an element and a bound has a greatest element,   *)
(* which is its Max.                                                       *)
LEMMA GreatestOf ==
  ASSUME NEW n \in Nat, NEW P \in SUBSET (1 .. n), P # {}
  PROVE  Max(P) \in P /\ \A y \in P : y <= Max(P)
<1>1. PICK S : S = {n - y : y \in P}
  OBVIOUS
<1>2. S \in SUBSET Nat /\ S # {}
  <2>1. \A y \in P : y \in 1 .. n
    OBVIOUS
  <2>2. \A y \in P : n - y \in Nat
    BY <2>1
  <2> QED BY <1>1, <2>2
<1>3. PICK x \in S : \A y \in S : x <= y
  BY <1>2, LeastOf
<1>4. PICK z \in P : x = n - z
  BY <1>1, <1>3
<1>5. \A y \in P : n - y \in S /\ y \in Nat
  BY <1>1
<1>6. \A y \in P : y <= z
  BY <1>3, <1>4, <1>5
<1>7. \E w \in P : \A y \in P : w >= y
  BY <1>5, <1>6
<1>8. Max(P) \in P /\ \A y \in P : Max(P) >= y
  BY <1>7 DEF Max
<1> QED BY <1>5, <1>8

(* An element that none exceeds is the Max.                                *)
LEMMA MaxIs ==
  ASSUME NEW n \in Nat, NEW P \in SUBSET (1 .. n), NEW x \in P,
         \A y \in P : y <= x
  PROVE  Max(P) = x
<1>1. Max(P) \in P /\ \A y \in P : y <= Max(P)
  BY GreatestOf
<1>2. \A y \in P : y \in Nat
  OBVIOUS
<1>3. PICK z \in P : z = Max(P)
  BY <1>1
<1>4. x <= z /\ z <= x /\ x \in Nat /\ z \in Nat
  BY <1>1, <1>2, <1>3
<1>5. z = x
  BY <1>4
<1> QED BY <1>3, <1>5

-----------------------------------------------------------------------------
(* The first sums of value, up to m of them.                               *)
SumsUpTo(value, m, g) ==
    g = [k \in 0 .. m |-> IF k = 0 THEN 0 ELSE g[k - 1] + value[k]]

(* There are such sums, however many.                                      *)
LEMMA SumsExist ==
  ASSUME NEW value, NEW m \in Nat
  PROVE  \E g : SumsUpTo(value, m, g)
<1>1. PICK C : C = {k \in Nat : ~ \E g : SumsUpTo(value, k, g)}
  OBVIOUS
<1>2. CASE C = {}
  BY <1>1, <1>2
<1>3. CASE C # {}
  <2>1. C \in SUBSET Nat
    BY <1>1
  <2>2. PICK k \in C : \A y \in C : k <= y
    BY <1>3, <2>1, LeastOf
  <2>3. k \in Nat /\ ~ \E g : SumsUpTo(value, k, g)
    BY <1>1, <2>2
  <2>4. CASE k = 0
    <3>1. PICK g : g = [n \in 0 .. 0 |-> 0]
      OBVIOUS
    <3>2. SumsUpTo(value, 0, g)
      BY <3>1 DEF SumsUpTo
    <3> QED BY <2>3, <2>4, <3>2
  <2>5. CASE k # 0
    <3>1. k - 1 \in Nat /\ k - 1 \notin C
      BY <2>2, <2>3, <2>5
    <3>2. PICK g : SumsUpTo(value, k - 1, g)
      BY <1>1, <3>1
    <3>3. PICK f : f = [n \in 0 .. k |-> IF n = 0 THEN 0 ELSE g[n - 1] + value[n]]
      OBVIOUS
    <3>4. \A n \in 0 .. k - 1 : f[n] = g[n]
      BY <2>3, <3>1, <3>2, <3>3 DEF SumsUpTo
    <3>5. \A n \in 0 .. k : n # 0 => f[n - 1] = g[n - 1]
      BY <2>3, <3>4
    <3>6. SumsUpTo(value, k, f)
      BY <3>3, <3>5 DEF SumsUpTo
    <3> QED BY <2>3, <3>6
  <2> QED BY <2>4, <2>5
<1> QED BY <1>2, <1>3

(* The sums of the same values are the same.                               *)
LEMMA SumsAgree ==
  ASSUME NEW value, NEW m \in Nat, NEW k \in Nat, NEW f, NEW g,
         SumsUpTo(value, m, f), SumsUpTo(value, k, g), NEW n \in Nat, n <= m, n <= k
  PROVE  f[n] = g[n]
<1>1. PICK C : C = {i \in Nat : i <= m /\ i <= k /\ f[i] # g[i]}
  OBVIOUS
<1>2. CASE C = {}
  BY <1>1, <1>2
<1>3. CASE C # {}
  <2>1. C \in SUBSET Nat
    BY <1>1
  <2>2. PICK i \in C : \A y \in C : i <= y
    BY <1>3, <2>1, LeastOf
  <2>3. i \in 0 .. m /\ i \in 0 .. k /\ f[i] # g[i]
    BY <1>1, <2>2
  <2>4. i = 0 => f[i] = g[i]
    BY <2>3 DEF SumsUpTo
  <2>5. i # 0 => i - 1 \in Nat /\ i - 1 \notin C /\ i - 1 <= m /\ i - 1 <= k
    BY <2>2, <2>3
  <2>6. i # 0 => f[i - 1] = g[i - 1]
    BY <1>1, <2>5
  <2>7. /\ i # 0 => f[i] = f[i - 1] + value[i]
        /\ i # 0 => g[i] = g[i - 1] + value[i]
    BY <2>3 DEF SumsUpTo
  <2> QED BY <2>3, <2>4, <2>6, <2>7
<1> QED BY <1>2, <1>3

(* Sum adds up: the function its definition asks for exists.               *)
LEMMA SumIs ==
  ASSUME NEW value
  PROVE  /\ Sum(value, 0) = 0
         /\ \A n \in Nat : Sum(value, n + 1) = Sum(value, n) + value[n + 1]
<1> DEFINE W(f) == f = [k \in Nat |-> IF k = 0 THEN 0 ELSE f[k - 1] + value[k]]
<1>1. PICK gs : gs = [m \in Nat |-> CHOOSE g : SumsUpTo(value, m, g)]
  OBVIOUS
<1>2. \A m \in Nat : SumsUpTo(value, m, gs[m])
  BY <1>1, SumsExist
<1>3. PICK f : f = [m \in Nat |-> gs[m][m]]
  OBVIOUS
<1>4. f[0] = 0
  <2>1. SumsUpTo(value, 0, gs[0])
    BY <1>2
  <2> QED BY <2>1, <1>3 DEF SumsUpTo
<1>5. ASSUME NEW n \in Nat, n # 0
      PROVE  f[n] = f[n - 1] + value[n]
  <2>1. PICK m \in Nat : m = n - 1 /\ m <= n /\ m <= m
    BY <1>5
  <2>2. SumsUpTo(value, n, gs[n]) /\ SumsUpTo(value, m, gs[m])
    BY <1>2, <2>1
  <2>3. gs[n][m] = gs[m][m]
    <3>1. PICK a, b : a = gs[n] /\ b = gs[m]
      OBVIOUS
    <3>2. SumsUpTo(value, n, a) /\ SumsUpTo(value, m, b)
      BY <2>2, <3>1
    <3>3. a[m] = b[m]
      BY <2>1, <3>2, SumsAgree
    <3> QED BY <3>1, <3>3
  <2>4. gs[n][n] = gs[n][m] + value[n]
    BY <2>1, <2>2, <1>5 DEF SumsUpTo
  <2> QED BY <1>3, <2>1, <2>3, <2>4
<1>6. W(f)
  BY <1>3, <1>4, <1>5
<1>7. PICK v : v = CHOOSE g : W(g)
  OBVIOUS
<1>8. W(v)
  BY <1>6, <1>7
<1>9. \A n : Sum(value, n) = v[n]
  BY <1>7 DEF Sum
<1>10. v = [k \in Nat |-> IF k = 0 THEN 0 ELSE v[k - 1] + value[k]]
  BY <1>8
<1> HIDE DEF W
<1>11. v[0] = 0
  BY <1>10
<1>12. ASSUME NEW n \in Nat
       PROVE  v[n + 1] = v[n] + value[n + 1]
  <2>1. n + 1 \in Nat /\ n + 1 # 0 /\ (n + 1) - 1 = n
    OBVIOUS
  <2> QED BY <1>10, <2>1
<1> QED BY <1>9, <1>11, <1>12

(* A sum of n integers is an integer, and lies between n times their least *)
(* and n times their greatest value.                                       *)
LEMMA SumBetween ==
  ASSUME NEW n \in Nat, NEW value, \A i \in 1 .. n : value[i] \in Int
  PROVE  /\ Sum(value, n) \in Int
         /\ \A c \in Int : (\A i \in 1 .. n : c <= value[i]) => c * n <= Sum(value, n)
         /\ \A d \in Int : (\A i \in 1 .. n : value[i] <= d) => Sum(value, n) <= d * n
<1> DEFINE P(k) ==
      /\ Sum(value, k) \in Int
      /\ \A c \in Int : (\A i \in 1 .. k : c <= value[i]) => c * k <= Sum(value, k)
      /\ \A d \in Int : (\A i \in 1 .. k : value[i] <= d) => Sum(value, k) <= d * k
<1>1. PICK C : C = {k \in Nat : k <= n /\ ~P(k)}
  OBVIOUS
<1>2. CASE C = {}
  BY <1>1, <1>2
<1>3. CASE C # {}
  <2>1. C \in SUBSET Nat
    BY <1>1
  <2>2. PICK k \in C : \A y \in C : k <= y
    BY <1>3, <2>1, LeastOf
  <2>3. k \in Nat /\ k <= n /\ ~P(k)
    BY <1>1, <2>2
  <2>4. CASE k = 0
    <3>1. Sum(value, 0) = 0
      BY SumIs
    <3>2. P(0)
      BY <3>1
    <3> QED BY <2>3, <2>4, <3>2
  <2>5. CASE k # 0
    <3>1. PICK j \in Nat : k = j + 1 /\ j \notin C /\ j <= n
      <4>1. k - 1 \in Nat /\ k - 1 \notin C /\ k = (k - 1) + 1 /\ k - 1 <= n
        BY <2>2, <2>3, <2>5
      <4> QED BY <4>1
    <3>2. P(j)
      BY <1>1, <3>1
    <3>3. Sum(value, k) = Sum(value, j) + value[k]
      BY <3>1, SumIs
    <3>4. value[k] \in Int /\ k \in 1 .. k /\ 1 .. j \subseteq 1 .. k
      BY <2>3, <2>5, <3>1
    <3>5. Sum(value, k) \in Int
      BY <3>2, <3>3, <3>4
    <3>6. ASSUME NEW c \in Int, \A i \in 1 .. k : c <= value[i]
          PROVE  c * k <= Sum(value, k)
      <4>1. c * j <= Sum(value, j) /\ c <= value[k]
        BY <3>2, <3>4, <3>6
      <4>2. c * k = c * j + c /\ c * j \in Int
        BY <3>1
      <4> QED BY <3>2, <3>3, <3>4, <4>1, <4>2
    <3>7. ASSUME NEW d \in Int, \A i \in 1 .. k : value[i] <= d
          PROVE  Sum(value, k) <= d * k
      <4>1. Sum(value, j) <= d * j /\ value[k] <= d
        BY <3>2, <3>4, <3>7
      <4>2. d * k = d * j + d /\ d * j \in Int
        BY <3>1
      <4> QED BY <3>2, <3>3, <3>4, <4>1, <4>2
    <3> QED BY <2>3, <3>5, <3>6, <3>7
  <2> QED BY <2>4, <2>5
<1> QED BY <1>2, <1>3

-----------------------------------------------------------------------------
(* Where the option stands among the first m of a command line.            *)
PlacesIn(ln, m, letter) == {i \in 1 .. m : ln[i].opt = letter}

(* The files and the directory that the first m options of ln ask for, as  *)
(* FileDecides says it; files is empty for the default.                    *)
Chosen(ln, m, files, dir) ==
    IF PlacesIn(ln, m, "f") # {}
      THEN files = <<ln[Max(PlacesIn(ln, m, "f"))].arg>> /\ dir = "./"
      ELSE /\ files = <<>>
           /\ dir = IF PlacesIn(ln, m, "t") = {} THEN "default"
                                                 ELSE ln[Max(PlacesIn(ln, m, "t"))].arg

(* One more option is a new last place for its letter and none for others. *)
LEMMA OneMorePlace ==
  ASSUME NEW ln, NEW m \in Nat, NEW letter
  PROVE  /\ ln[m + 1].opt # letter => PlacesIn(ln, m + 1, letter) = PlacesIn(ln, m, letter)
         /\ ln[m + 1].opt = letter => /\ PlacesIn(ln, m + 1, letter) # {}
                                      /\ Max(PlacesIn(ln, m + 1, letter)) = m + 1
<1>1. PICK P : P = PlacesIn(ln, m + 1, letter)
  OBVIOUS
<1>2. ln[m + 1].opt # letter => P = PlacesIn(ln, m, letter)
  BY <1>1 DEF PlacesIn
<1>3. ASSUME ln[m + 1].opt = letter
      PROVE  P # {} /\ Max(P) = m + 1
  <2>1. m + 1 \in P /\ m + 1 \in Nat /\ P \in SUBSET (1 .. (m + 1))
    BY <1>1, <1>3 DEF PlacesIn
  <2>2. \A y \in P : y <= m + 1
    BY <2>1
  <2> QED BY <2>1, <2>2, MaxIs
<1> QED BY <1>1, <1>2, <1>3

(* What each option makes of the choice.                                   *)
LEMMA ChosenNext ==
  ASSUME NEW ln, NEW m \in Nat, NEW files, NEW dir, Chosen(ln, m, files, dir)
  PROVE  /\ ln[m + 1].opt = "f" => Chosen(ln, m + 1, <<ln[m + 1].arg>>, "./")
         /\ ln[m + 1].opt = "t" =>
              Chosen(ln, m + 1, files, IF Len(files) = 1 THEN dir ELSE ln[m + 1].arg)
         /\ ln[m + 1].opt \notin {"f", "t"} => Chosen(ln, m + 1, files, dir)
<1>1. PICK F, G, T, U : /\ F = PlacesIn(ln, m, "f") /\ G = PlacesIn(ln, m + 1, "f")
                        /\ T = PlacesIn(ln, m, "t") /\ U = PlacesIn(ln, m + 1, "t")
  OBVIOUS
<1>2. IF F # {} THEN files = <<ln[Max(F)].arg>> /\ dir = "./"
                ELSE files = <<>> /\ dir = IF T = {} THEN "default" ELSE ln[Max(T)].arg
  BY <1>1 DEF Chosen
<1>3. \A fs, d : Chosen(ln, m + 1, fs, d) <=>
         IF G # {} THEN fs = <<ln[Max(G)].arg>> /\ d = "./"
                   ELSE fs = <<>> /\ d = IF U = {} THEN "default" ELSE ln[Max(U)].arg
  BY <1>1 DEF Chosen
<1>4. CASE ln[m + 1].opt = "f"
  <2>1. G # {} /\ Max(G) = m + 1
    BY <1>1, <1>4, OneMorePlace
  <2> QED BY <1>3, <1>4, <2>1
<1>5. CASE ln[m + 1].opt = "t"
  <2>1. G = F /\ U # {} /\ Max(U) = m + 1
    BY <1>1, <1>5, OneMorePlace
  <2>2. CASE F # {}
    <3>1. Len(files) = 1
      BY <1>2, <2>2
    <3> QED BY <1>2, <1>3, <1>5, <2>1, <2>2, <3>1
  <2>3. CASE F = {}
    <3>1. files = <<>> /\ Len(files) # 1
      BY <1>2, <2>3
    <3> QED BY <1>3, <1>5, <2>1, <2>3, <3>1
  <2> QED BY <2>2, <2>3
<1>6. CASE ln[m + 1].opt \notin {"f", "t"}
  <2>1. G = F /\ U = T
    BY <1>1, <1>6, OneMorePlace
  <2> QED BY <1>2, <1>3, <1>6, <2>1
<1> QED BY <1>4, <1>5, <1>6

(* argv is the rest of the command line.                                   *)
Rest(ln, av) ==
    /\ ln \in Seq([opt : STRING, arg : STRING]) /\ av \in Seq([opt : STRING, arg : STRING])
    /\ Len(av) <= Len(ln)
    /\ \A i \in 1 .. Len(av) : av[i] = ln[Len(ln) - Len(av) + i]

(* After one more option it still is.                                      *)
LEMMA RestNext ==
  ASSUME NEW ln, NEW av, Rest(ln, av), av # <<>>
  PROVE  /\ Rest(ln, Tail(av))
         /\ Len(ln) - Len(av) \in Nat
         /\ Head(av) = ln[Len(ln) - Len(av) + 1]
         /\ Len(ln) - Len(Tail(av)) = Len(ln) - Len(av) + 1
<1> USE DEF Rest
<1>1. Len(ln) \in Nat /\ Len(av) \in Nat /\ Len(av) > 0
  OBVIOUS
<1>2. Tail(av) \in Seq([opt : STRING, arg : STRING]) /\ Len(Tail(av)) = Len(av) - 1
  BY <1>1
<1>3. ASSUME NEW i \in 1 .. Len(Tail(av))
      PROVE  Tail(av)[i] = ln[Len(ln) - Len(Tail(av)) + i]
  <2>1. Tail(av)[i] = av[i + 1] /\ i + 1 \in 1 .. Len(av)
    BY <1>1, <1>2
  <2>2. Len(ln) - Len(av) + (i + 1) = Len(ln) - Len(Tail(av)) + i
    BY <1>1, <1>2
  <2> QED BY <2>1, <2>2
<1>4. Head(av) = ln[Len(ln) - Len(av) + 1]
  BY <1>1
<1> QED BY <1>1, <1>2, <1>3, <1>4

-----------------------------------------------------------------------------
(* What the options have chosen so far, and in the end.                    *)
OInv ==
    /\ Rest(line, argv)
    /\ pc = "options" => Chosen(line, Len(line) - Len(argv), tracefiles, tracedir)
    /\ FileDecides

(* Before the first option is read nothing is chosen.                       *)
LEMMA OInvInit == Init => OInv
<1> SUFFICES ASSUME Init PROVE OInv
  OBVIOUS
<1>1. line \in Seq([opt : STRING, arg : STRING]) /\ argv = line
  BY MainAssumption DEF Init
<1>2. Len(line) \in Nat
  BY <1>1
<1>3. Rest(line, argv)
  BY <1>1, <1>2 DEF Rest
<1>4. Chosen(line, 0, <<>>, "default")
  BY DEF Chosen, PlacesIn
<1>5. Chosen(line, Len(line) - Len(argv), tracefiles, tracedir)
  BY <1>1, <1>2, <1>4 DEF Init
<1> QED BY <1>3, <1>5 DEF Init, OInv, FileDecides

(* An option that says nothing of files, one that names a file, and one    *)
(* that names a directory.                                                 *)
LEMMA OptionInv ==
  ASSUME OInv, FileOption \/ DirOption \/ Flag \/ Usage
  PROVE  OInv'
<1>1. /\ pc = "options" /\ argv # <<>> /\ argv' = Tail(argv) /\ line' = line
      /\ Rest(line, argv) /\ Chosen(line, Len(line) - Len(argv), tracefiles, tracedir)
  BY DEF FileOption, DirOption, Flag, Usage, Opt, Next1, OInv
<1>2. PICK m \in Nat : /\ m = Len(line) - Len(argv) /\ Head(argv) = line[m + 1]
                       /\ Rest(line, argv') /\ Len(line) - Len(argv') = m + 1
  BY <1>1, RestNext
<1>3. pc' \in {"options", "exited"}
  BY <1>1 DEF FileOption, DirOption, Flag, Usage, Exit
<1>4. Chosen(line, m, tracefiles, tracedir)
  BY <1>1, <1>2
<1>5. Chosen(line, m + 1, tracefiles', tracedir')
  <2>1. CASE FileOption
    <3>1. line[m + 1].opt = "f" /\ tracefiles' = <<line[m + 1].arg>> /\ tracedir' = "./"
      BY <2>1, <1>2 DEF FileOption, Opt
    <3> QED BY <3>1, <1>4, ChosenNext
  <2>2. CASE DirOption
    <3>1. /\ line[m + 1].opt = "t" /\ tracefiles' = tracefiles
          /\ tracedir' = IF Len(tracefiles) = 1 THEN tracedir ELSE line[m + 1].arg
      BY <2>2, <1>2 DEF DirOption, Opt
    <3> QED BY <3>1, <1>4, ChosenNext
  <2>3. CASE Flag \/ Usage
    <3>1. /\ line[m + 1].opt \notin {"f", "t"} /\ tracefiles' = tracefiles
          /\ tracedir' = tracedir
      BY <2>3, <1>2 DEF Flag, Usage, Opt, options
    <3> QED BY <3>1, <1>4, ChosenNext
  <2> QED BY <2>1, <2>2, <2>3
<1> QED BY <1>1, <1>2, <1>3, <1>5 DEF OInv, FileDecides

(* The command line is read: the choice is what FileDecides says.          *)
LEMMA CheckedInv ==
  ASSUME OInv, Checked
  PROVE  OInv'
<1>1. /\ argv = <<>> /\ argv' = <<>> /\ line' = line /\ tracedir' = tracedir
      /\ tracefiles' = IF tracefiles = <<>> THEN Default ELSE tracefiles
      /\ pc' \in {"libc", "mm", "exited"} /\ Rest(line, argv)
      /\ Chosen(line, Len(line) - Len(argv), tracefiles, tracedir)
  BY DEF Checked, Exit, OInv
<1>2. DOMAIN line = 1 .. Len(line) /\ Len(line) \in Nat /\ Len(argv) = 0
  BY <1>1 DEF Rest
<1>3. \A letter : Places(letter) = PlacesIn(line, Len(line), letter)
  BY <1>2 DEF Places, PlacesIn
<1>4. Chosen(line, Len(line), tracefiles, tracedir)
  BY <1>1, <1>2
<1>5. IF Places("f") # {}
        THEN tracefiles = <<line[Max(Places("f"))].arg>> /\ tracedir = "./"
        ELSE /\ tracefiles = <<>>
             /\ tracedir = IF Places("t") = {} THEN "default"
                                              ELSE line[Max(Places("t"))].arg
  BY <1>3, <1>4 DEF Chosen
<1>6. \A x : <<x>> # <<>>
  OBVIOUS
<1>7. FileDecides'
  BY <1>1, <1>5, <1>6 DEF FileDecides, Places
<1> QED BY <1>1, <1>7 DEF OInv

(* Every step keeps the choice.                                            *)
LEMMA OInvNext == OInv /\ [Next]_vars => OInv'
<1> SUFFICES ASSUME OInv, [Next]_vars PROVE OInv'
  OBVIOUS
<1>1. CASE FileOption \/ DirOption \/ Flag \/ Usage
  BY <1>1, OptionInv
<1>2. CASE Checked
  BY <1>2, CheckedInv
<1>3. CASE \/ LibcTrace \/ LibcTable \/ MmTrace \/ MmTable \/ Index \/ Parse \/ Done
           \/ UNCHANGED vars
  <2>1. UNCHANGED <<argv, line, tracefiles, tracedir>>
    BY <1>3 DEF LibcTrace, LibcTable, MmTrace, MmTable, Index, Parse, Done, vars, options
  <2>2. pc' # "options" \/ pc' = pc
    BY <1>3 DEF LibcTrace, LibcTable, MmTrace, MmTable, Index, Parse, Done, vars, Exit
  <2>3. pc' \in {"libc", "mm"} => pc \in {"libc", "mm"}
    BY <1>3 DEF LibcTrace, LibcTable, MmTrace, MmTable, Index, Parse, Done, vars, Exit
  <2>4. pc' = "options" => pc = "options"
    BY <2>2
  <2> QED BY <2>1, <2>3, <2>4 DEF OInv, FileDecides, Places
<1> QED BY <1>1, <1>2, <1>3 DEF Next

(* What was read of the command line decides the files (mdriver.c, main).  *)
THEOREM OptionsInvariance == Spec => []OInv
BY OInvInit, OInvNext, PTL DEF Spec

(* Wherever -f and -t stand on the command line, the last -f decides, and  *)
(* without one the last -t (mdriver.c, the switch of main).                *)
THEOREM LastFileDecides == Spec => []FileDecides
<1>1. OInv => FileDecides
  BY DEF OInv
<1> QED BY <1>1, OptionsInvariance, PTL

-----------------------------------------------------------------------------
(* A quotient of naturals is at most what the dividend is a multiple of.   *)
LEMMA QuotientBound ==
  ASSUME NEW x \in Nat, NEW y \in Nat, y > 0, NEW f \in Nat, x <= f * y
  PROVE  x \div y \in Nat /\ x \div y <= f
<1>1. PICK q : q = x \div y
  OBVIOUS
<1>2. q \in Int /\ q * y <= x /\ x < q * y + y
  BY <1>1
<1>3. q >= 0
  BY <1>2
<1>4. q > f => q * y >= f * y + y
  <2>1. SUFFICES ASSUME q > f PROVE q * y >= f * y + y
    OBVIOUS
  <2>2. PICK d \in Nat : q = f + 1 + d
    <3>1. q - f - 1 \in Nat /\ q = f + 1 + (q - f - 1)
      BY <2>1, <1>2
    <3> QED BY <3>1
  <2>3. q * y = f * y + y + d * y /\ d * y >= 0 /\ f * y \in Int
    BY <2>2
  <2> QED BY <2>3
<1>5. q <= f
  BY <1>2, <1>4
<1> QED BY <1>1, <1>2, <1>3, <1>5

(* The throughput part of the index is capped, and not below 0 unless the  *)
(* seconds are.                                                            *)
LEMMA ThroughputBounds ==
  ASSUME NEW o \in Nat, o > 0, NEW s \in Int
  PROVE  /\ Throughput(o, s) \in Int /\ Throughput(o, s) <= (100 - Weight) * 100
         /\ s >= 0 => Throughput(o, s) >= 0
<1>1. PICK full : full = (100 - Weight) * 100
  OBVIOUS
<1>2. PICK a : a = AVG_LIBC_THRUPUT
  OBVIOUS
<1>3. full \in Nat /\ a \in Nat /\ a > 0
  BY <1>1, <1>2, MainAssumption
<1>4. Throughput(o, s) =
        CASE s >= 0 /\ o > a * s -> full
          [] s > 0 /\ o <= a * s -> (full * o) \div (s * a)
          [] s < 0 -> -((full * o) \div (-s * a))
  BY <1>1, <1>2 DEF Throughput
<1>5. CASE s >= 0 /\ o > a * s
  <2>1. Throughput(o, s) = full
    BY <1>4, <1>5, <1>3
  <2> QED BY <2>1, <1>1, <1>3
<1>6. CASE s >= 0 /\ ~(o > a * s)
  <2>1. a * s \in Int /\ s * a = a * s /\ full * o \in Int /\ full * o >= 0
    BY <1>3
  <2>2. s # 0
    <3>1. s = 0 => a * s = 0
      BY <1>3
    <3> QED BY <3>1, <1>6
  <2>3. s > 0 /\ o <= a * s
    BY <1>6, <2>1, <2>2
  <2>4. a * s \in Nat /\ a * s > 0
    BY <1>3, <2>1, <2>3
  <2>5. full * o <= full * (a * s)
    <3>1. PICK d \in Nat : a * s = o + d
      <4>1. a * s - o \in Nat /\ a * s = o + (a * s - o)
        BY <2>1, <2>3
      <4> QED BY <4>1
    <3>2. full * (o + d) = full * o + full * d /\ full * d >= 0
      BY <1>3, <3>1
    <3> QED BY <3>1, <3>2, <2>1, <1>3
  <2>6. PICK x, y \in Nat : x = full * o /\ y = a * s /\ y > 0 /\ x <= full * y /\ x \in Nat
    BY <2>1, <2>4, <2>5
  <2>7. x \div y \in Nat /\ x \div y <= full
    BY <2>6, <1>3, QuotientBound
  <2>8. Throughput(o, s) = x \div y
    BY <1>4, <1>6, <2>1, <2>3, <2>6
  <2> QED BY <2>7, <2>8, <1>1, <1>3
<1>7. CASE s < 0
  <2>1. PICK x, y : x = full * o /\ y = -s * a
    OBVIOUS
  <2>2. x \in Nat /\ y \in Nat /\ y > 0
    <3>1. PICK r \in Nat : r = -s /\ r > 0
      BY <1>7
    <3>2. y = r * a
      BY <2>1, <3>1, <1>3
    <3> QED BY <2>1, <3>1, <3>2, <1>3
  <2>3. x <= x * y
    <3>1. PICK d \in Nat : y = 1 + d
      <4>1. y - 1 \in Nat /\ y = 1 + (y - 1)
        BY <2>2
      <4> QED BY <4>1
    <3>2. x * (1 + d) = x + x * d /\ x * d >= 0
      BY <2>2, <3>1
    <3> QED BY <3>1, <3>2, <2>2
  <2>4. x \div y \in Nat
    BY <2>2, <2>3, QuotientBound
  <2>5. Throughput(o, s) = -(x \div y)
    <3>1. ~(s >= 0) /\ ~(s > 0)
      BY <1>7
    <3> QED BY <1>4, <1>7, <2>1, <3>1
  <2> QED BY <2>4, <2>5, <1>1, <1>3, <1>7
<1> QED BY <1>5, <1>6, <1>7

(* A row of a trace of mm.c.                                               *)
Rows == [valid : BOOLEAN, ops : Ops, secs : Int, util : 0 .. 100]

(* What the sums of main can be.                                           *)
LEMMA TotalBounds ==
  ASSUME NEW table \in Seq(Rows), Len(table) > 0
  PROVE  /\ TotalOps(table) \in Nat /\ TotalOps(table) > 0
         /\ TotalSecs(table) \in Int
         /\ TotalUtil(table) \in Nat /\ TotalUtil(table) <= 100 * Len(table)
<1>1. PICK n \in Nat : n = Len(table) /\ n > 0 /\ DOMAIN table = 1 .. n
  OBVIOUS
<1>2. \A i \in 1 .. n : table[i] \in Rows
  BY <1>1
<1>3. PICK o : o = [i \in DOMAIN table |-> table[i].ops]
  OBVIOUS
<1>4. PICK s : s = [i \in DOMAIN table |-> table[i].secs]
  OBVIOUS
<1>5. PICK u : u = [i \in DOMAIN table |-> table[i].util]
  OBVIOUS
<1>6. \A i \in 1 .. n : o[i] \in Int /\ 1 <= o[i]
  <2>1. \A i \in 1 .. n : o[i] \in Ops
    BY <1>1, <1>2, <1>3 DEF Rows
  <2>2. \A x \in Ops : x \in Int /\ 1 <= x
    BY MainAssumption
  <2> QED BY <2>1, <2>2
<1>7. \A i \in 1 .. n : s[i] \in Int
  BY <1>1, <1>2, <1>4 DEF Rows
<1>8. \A i \in 1 .. n : u[i] \in Int /\ 0 <= u[i] /\ u[i] <= 100
  <2>1. \A i \in 1 .. n : u[i] \in 0 .. 100
    BY <1>1, <1>2, <1>5 DEF Rows
  <2>2. \A x \in 0 .. 100 : x \in Int /\ 0 <= x /\ x <= 100
    OBVIOUS
  <2> QED BY <2>1, <2>2
<1>9. Sum(o, n) \in Int /\ 1 * n <= Sum(o, n)
  BY <1>6, SumBetween
<1>10. Sum(s, n) \in Int
  BY <1>7, SumBetween
<1>11. Sum(u, n) \in Int /\ 0 * n <= Sum(u, n) /\ Sum(u, n) <= 100 * n
  BY <1>8, SumBetween
<1>12. TotalOps(table) = Sum(o, n) /\ TotalSecs(table) = Sum(s, n) /\ TotalUtil(table) = Sum(u, n)
  BY <1>1, <1>3, <1>4, <1>5 DEF TotalOps, TotalSecs, TotalUtil
<1> QED BY <1>1, <1>9, <1>10, <1>11, <1>12

(* The two parts of the index.                                             *)
LEMMA IndexParts ==
  ASSUME mm_stats \in Seq(Rows), Len(mm_stats) > 0
  PROVE  /\ p1 \in Nat /\ p1 <= Weight * 100
         /\ p2 \in Int /\ p2 <= (100 - Weight) * 100
         /\ TotalSecs(mm_stats) >= 0 => p2 >= 0
<1>1. PICK n \in Nat : n = Len(mm_stats) /\ n > 0
  OBVIOUS
<1>2. PICK o, s, u : /\ o = TotalOps(mm_stats) /\ s = TotalSecs(mm_stats)
                     /\ u = TotalUtil(mm_stats)
  OBVIOUS
<1>3. o \in Nat /\ o > 0 /\ s \in Int /\ u \in Nat /\ u <= 100 * n
  BY <1>1, <1>2, TotalBounds
<1>4. PICK w \in Nat : w = Weight
  BY MainAssumption
<1>5. w * u \in Nat /\ w * 100 \in Nat /\ w * u <= (w * 100) * n
  <2>1. PICK d \in Nat : 100 * n = u + d
    <3>1. 100 * n - u \in Nat /\ 100 * n = u + (100 * n - u)
      BY <1>3
    <3> QED BY <3>1
  <2>2. w * (u + d) = w * u + w * d /\ w * d >= 0 /\ (w * 100) * n = w * (100 * n)
    BY <2>1, <1>3, <1>4
  <2> QED BY <2>1, <2>2, <1>3, <1>4
<1>6. PICK x, f \in Nat : x = w * u /\ x \in Nat /\ f = w * 100 /\ x <= f * n
  BY <1>5
<1>7. x \div n \in Nat /\ x \div n <= f
  BY <1>1, <1>6, QuotientBound
<1>8. p1 = x \div n
  BY <1>1, <1>2, <1>4, <1>6 DEF p1
<1>9. p2 = Throughput(o, s)
  BY <1>2 DEF p2
<1>10. /\ Throughput(o, s) \in Int /\ Throughput(o, s) <= (100 - Weight) * 100
       /\ s >= 0 => Throughput(o, s) >= 0
  BY <1>3, ThroughputBounds
<1> QED BY <1>2, <1>4, <1>6, <1>7, <1>8, <1>9, <1>10

-----------------------------------------------------------------------------
(* What a table prints before the index: nothing yet, or the last line of  *)
(* that of libc.                                                           *)
Before(b) == b = <<>> \/ (run_libc /\ \E t : b = <<t>> /\ t.kind = "Total")

(* The tables, after that of mm.c.                                         *)
Tabled(o) ==
    \E b : Before(b) /\ o = IF verbose > 0 THEN Append(b, TotalLine(mm_stats)) ELSE b

(* The lines of o after k lines of tables: the index of a run without      *)
(* errors, and what -g adds.                                               *)
PerfLine    == [kind |-> "Perf index", thru |-> p2, index |-> perfindex]
CorrectLine == [kind |-> "correct", number |-> NumCorrect]
PerfidxLine == [kind |-> "perfidx", index |-> IF errors = 0 THEN perfindex ELSE 0]

Reported(o, k, n) ==
    /\ k \in Nat /\ n \in Nat /\ DOMAIN o = 1 .. n
    /\ \A i \in 1 .. k : /\ o[i].kind = "Total"
                         /\ ~run_libc => o[i] = TotalLine(mm_stats)
    /\ errors = 0 /\ autograder => n = k + 3
    /\ errors = 0 /\ ~autograder => n = k + 1
    /\ errors # 0 /\ autograder => n = k + 2
    /\ errors # 0 /\ ~autograder => n = k
    /\ errors = 0 => o[k + 1] = PerfLine
    /\ autograder => o[n - 1] = CorrectLine /\ o[n] = PerfidxLine

(* The parts of a sequence made of three.                                  *)
Joined(r, o, e, f, k, l, m) ==
    /\ DOMAIN r = 1 .. k + l + m
    /\ \A i \in 1 .. k : r[i] = o[i]
    /\ \A i \in 1 .. l : r[k + i] = e[i]
    /\ \A i \in 1 .. m : r[k + l + i] = f[i]

(* What stands where in the three parts of the output, joined.              *)
LEMMA ThreeParts ==
  ASSUME NEW S, NEW o \in Seq(S), NEW e \in Seq(S), NEW f \in Seq(S)
  PROVE  Joined((o \o e) \o f, o, e, f, Len(o), Len(e), Len(f))
<1>1. PICK k \in Nat, l \in Nat, m \in Nat : k = Len(o) /\ l = Len(e) /\ m = Len(f)
  OBVIOUS
<1>2. PICK p : p = o \o e
  OBVIOUS
<1>3. PICK r : r = p \o f
  OBVIOUS
<1>4. /\ p \in Seq(S) /\ Len(p) = k + l
      /\ \A i \in 1 .. k + l : p[i] = IF i <= k THEN o[i] ELSE e[i - k]
  BY <1>1, <1>2, ConcatProperties
<1>5. /\ r \in Seq(S) /\ Len(r) = k + l + m
      /\ \A i \in 1 .. k + l + m : r[i] = IF i <= k + l THEN p[i] ELSE f[i - (k + l)]
  <2>1. Len(p) = k + l /\ Len(f) = m /\ p \in Seq(S)
    BY <1>1, <1>4
  <2>2. /\ r \in Seq(S) /\ Len(r) = Len(p) + Len(f)
        /\ \A i \in 1 .. Len(p) + Len(f) : r[i] = IF i <= Len(p) THEN p[i] ELSE f[i - Len(p)]
    BY <1>3, <2>1, ConcatProperties
  <2>3. /\ r \in Seq(S) /\ Len(r) = (k + l) + m
        /\ \A i \in 1 .. (k + l) + m : r[i] = IF i <= k + l THEN p[i] ELSE f[i - (k + l)]
    BY <2>1, <2>2, Zenon
  <2> QED BY <2>3
<1>6. DOMAIN r = 1 .. k + l + m
  BY <1>5
<1>7. ASSUME NEW i \in 1 .. k
      PROVE  r[i] = o[i]
  <2>1. i \in 1 .. k + l /\ i \in 1 .. k + l + m /\ i <= k /\ i <= k + l
    OBVIOUS
  <2> QED BY <1>4, <1>5, <2>1
<1>8. ASSUME NEW i \in 1 .. l
      PROVE  r[k + i] = e[i]
  <2>1. PICK j : j = k + i
    OBVIOUS
  <2>2. j \in 1 .. k + l /\ j \in 1 .. k + l + m /\ ~(j <= k) /\ j <= k + l /\ j - k = i
    BY <2>1
  <2> QED BY <1>4, <1>5, <2>1, <2>2
<1>9. ASSUME NEW i \in 1 .. m
      PROVE  r[k + l + i] = f[i]
  <2>1. PICK j : j = k + l + i
    OBVIOUS
  <2>2. j \in 1 .. k + l + m /\ ~(j <= k + l) /\ j - (k + l) = i
    BY <2>1
  <2> QED BY <1>5, <2>1, <2>2
<1>10. Joined(r, o, e, f, k, l, m)
  BY <1>6, <1>7, <1>8, <1>9 DEF Joined
<1> QED BY <1>1, <1>2, <1>3, <1>10

(* One line and two lines are sequences.                                   *)
LEMMA Lines ==
  ASSUME NEW x, NEW y
  PROVE  /\ <<>> \in Seq({x}) /\ <<>> \in Seq({x, y}) /\ Len(<<>>) = 0
         /\ <<x>> \in Seq({x}) /\ Len(<<x>>) = 1 /\ <<x>>[1] = x
         /\ <<x, y>> \in Seq({x, y}) /\ Len(<<x, y>>) = 2
         /\ <<x, y>>[1] = x /\ <<x, y>>[2] = y
OBVIOUS

(* The tables are at most two lines, and without -l none but that of mm.c. *)
LEMMA TableLines ==
  ASSUME NEW o, Tabled(o)
  PROVE  \E S : /\ o \in Seq(S)
                /\ \A i \in 1 .. Len(o) : /\ o[i].kind = "Total"
                                          /\ ~run_libc => o[i] = TotalLine(mm_stats)
<1>1. PICK a : a = TotalLine(mm_stats)
  OBVIOUS
<1>2. a.kind = "Total"
  BY <1>1 DEF TotalLine
<1>3. PICK b : Before(b) /\ o = IF verbose > 0 THEN Append(b, a) ELSE b
  BY <1>1 DEF Tabled
<1>4. CASE b = <<>>
  <2>1. o = <<>> \/ o = <<a>>
    BY <1>3, <1>4
  <2>2. o \in Seq({a})
    BY <2>1, Lines, Zenon
  <2>3. \A i \in 1 .. Len(o) : o[i] \in {a}
    BY <2>2
  <2> QED BY <1>1, <1>2, <2>2, <2>3
<1>5. CASE b # <<>>
  <2>1. PICK t : run_libc /\ b = <<t>> /\ t.kind = "Total"
    BY <1>3, <1>5 DEF Before
  <2>2. PICK S : S = {t, a}
    OBVIOUS
  <2>3. b \in Seq(S) /\ Append(b, a) \in Seq(S)
    BY <2>1, <2>2
  <2>4. o \in Seq(S)
    BY <1>3, <2>3
  <2>5. \A i \in 1 .. Len(o) : o[i] \in S
    BY <2>4
  <2>6. \A i \in 1 .. Len(o) : o[i].kind = "Total"
    BY <1>2, <2>1, <2>2, <2>5
  <2> QED BY <2>1, <2>4, <2>6
<1> QED BY <1>4, <1>5

(* Tables, index and figures behind one another are a report.              *)
LEMMA ReportOf ==
  ASSUME NEW r, NEW k \in Nat, NEW l \in Nat, NEW m \in Nat,
         DOMAIN r = 1 .. k + l + m,
         \A i \in 1 .. k : r[i].kind = "Total" /\ (~run_libc => r[i] = TotalLine(mm_stats)),
         errors = 0 => l = 1 /\ r[k + 1] = PerfLine,
         errors # 0 => l = 0,
         autograder => m = 2 /\ r[k + l + 1] = CorrectLine /\ r[k + l + 2] = PerfidxLine,
         ~autograder => m = 0
  PROVE  \E i, n : Reported(r, i, n)
<1>1. PICK n \in Nat : n = k + l + m
  OBVIOUS
<1>2. autograder => r[n - 1] = CorrectLine /\ r[n] = PerfidxLine
  <2>1. SUFFICES ASSUME autograder PROVE r[n - 1] = CorrectLine /\ r[n] = PerfidxLine
    OBVIOUS
  <2>2. n - 1 = k + l + 1 /\ n = k + l + 2
    BY <1>1, <2>1
  <2> QED BY <2>1, <2>2
<1>3. Reported(r, k, n)
  BY <1>1, <1>2 DEF Reported
<1> QED BY <1>3

(* What Index prints behind the tables: the index of a run without errors, *)
(* and with -g the lines that the script reads.                            *)
Ending(e, f) ==
    /\ e = IF errors = 0 THEN <<PerfLine>> ELSE <<>>
    /\ f = IF autograder THEN <<CorrectLine, PerfidxLine>> ELSE <<>>

(* How many lines main adds at the end, and which.                          *)
LEMMA EndingLines ==
  ASSUME NEW e, NEW f, Ending(e, f)
  PROVE  /\ e \in Seq({PerfLine}) /\ f \in Seq({CorrectLine, PerfidxLine})
         /\ errors = 0 => Len(e) = 1 /\ e[1] = PerfLine
         /\ errors # 0 => Len(e) = 0
         /\ autograder => Len(f) = 2 /\ f[1] = CorrectLine /\ f[2] = PerfidxLine
         /\ ~autograder => Len(f) = 0
<1>1. PICK a, c, d : a = PerfLine /\ c = CorrectLine /\ d = PerfidxLine
  OBVIOUS
<1>2. e = IF errors = 0 THEN <<a>> ELSE <<>>
  BY <1>1 DEF Ending
<1>3. f = IF autograder THEN <<c, d>> ELSE <<>>
  BY <1>1 DEF Ending
<1>4. /\ e \in Seq({a})
      /\ errors # 0 => Len(e) = 0
      /\ errors = 0 => Len(e) = 1 /\ e[1] = a
  BY <1>2, Lines, Zenon
<1>5. /\ f \in Seq({c, d})
      /\ ~autograder => Len(f) = 0
      /\ autograder => Len(f) = 2 /\ f[1] = c /\ f[2] = d
  BY <1>3, Lines, Zenon
<1> QED BY <1>1, <1>4, <1>5

(* The table and the lines of the index together are a report.              *)
LEMMA IndexReports ==
  ASSUME NEW o, Tabled(o), NEW e, NEW f, Ending(e, f)
  PROVE  \E k, n : Reported((o \o e) \o f, k, n)
<1>1. PICK T : /\ o \in Seq(T)
               /\ \A i \in 1 .. Len(o) : /\ o[i].kind = "Total"
                                         /\ ~run_libc => o[i] = TotalLine(mm_stats)
  BY TableLines
<1>2. PICK S : S = T \cup {PerfLine, CorrectLine, PerfidxLine}
  OBVIOUS
<1>3. e \in Seq({PerfLine}) /\ f \in Seq({CorrectLine, PerfidxLine})
  BY EndingLines
<1>4. \A A, B : A \subseteq B => Seq(A) \subseteq Seq(B)
  OBVIOUS
<1>5. /\ T \subseteq S /\ {PerfLine} \subseteq S
      /\ {CorrectLine, PerfidxLine} \subseteq S
  BY <1>2
<1>6. o \in Seq(S) /\ e \in Seq(S) /\ f \in Seq(S)
  BY <1>1, <1>3, <1>4, <1>5
<1>7. PICK k \in Nat, l \in Nat, m \in Nat : k = Len(o) /\ l = Len(e) /\ m = Len(f)
  BY <1>6
<1>8. PICK r : r = (o \o e) \o f
  OBVIOUS
<1>9. Joined(r, o, e, f, k, l, m)
  BY <1>6, <1>7, <1>8, ThreeParts
<1>10. /\ errors = 0 => l = 1 /\ e[1] = PerfLine
       /\ errors # 0 => l = 0
       /\ autograder => m = 2 /\ f[1] = CorrectLine /\ f[2] = PerfidxLine
       /\ ~autograder => m = 0
  BY <1>7, EndingLines
<1>11. /\ DOMAIN r = 1 .. k + l + m
       /\ \A i \in 1 .. k : r[i] = o[i]
       /\ \A i \in 1 .. l : r[k + i] = e[i]
       /\ \A i \in 1 .. m : r[k + l + i] = f[i]
  BY <1>9 DEF Joined
<1>12. \A i \in 1 .. k : r[i].kind = "Total" /\ (~run_libc => r[i] = TotalLine(mm_stats))
  BY <1>1, <1>7, <1>11
<1>13. errors = 0 => l = 1 /\ r[k + 1] = PerfLine
  BY <1>10, <1>11
<1>14. autograder => m = 2 /\ r[k + l + 1] = CorrectLine /\ r[k + l + 2] = PerfidxLine
  BY <1>10, <1>11
<1>15. \E i, n : Reported(r, i, n)
  BY <1>10, <1>11, <1>12, <1>13, <1>14, ReportOf
<1> QED BY <1>8, <1>15

-----------------------------------------------------------------------------
(* The line of out that a pattern finds last.                              *)
Matches(kind, i) == out[i].kind = kind /\ Readable(out[i])

(* What LastOf finds is a line that matches, and none after it does.        *)
LEMMA LastIs ==
  ASSUME NEW n \in Nat, DOMAIN out = 1 .. n, NEW kind
  PROVE  /\ \A i \in 1 .. n :
              Matches(kind, i) /\ (\A j \in 1 .. n : Matches(kind, j) => j <= i)
                => LastOf(kind) = <<out[i]>>
         /\ (\A i \in 1 .. n : ~Matches(kind, i)) => LastOf(kind) = <<>>
         /\ LastOf(kind) # <<>> =>
              \E i \in 1 .. n : Matches(kind, i) /\ LastOf(kind) = <<out[i]>>
<1>1. PICK P : P = {i \in DOMAIN out : out[i].kind = kind /\ Readable(out[i])}
  OBVIOUS
<1>2. LastOf(kind) = IF P = {} THEN <<>> ELSE <<out[Max(P)]>>
  BY <1>1 DEF LastOf
<1>3. P \in SUBSET (1 .. n) /\ \A i \in 1 .. n : i \in P <=> Matches(kind, i)
  BY <1>1 DEF Matches
<1>4. ASSUME NEW i \in 1 .. n, Matches(kind, i),
             \A j \in 1 .. n : Matches(kind, j) => j <= i
      PROVE  LastOf(kind) = <<out[i]>>
  <2>1. i \in P /\ \A j \in P : j <= i
    BY <1>3, <1>4
  <2>2. Max(P) = i
    BY <1>3, <2>1, MaxIs
  <2> QED BY <1>2, <2>1, <2>2
<1>5. (\A i \in 1 .. n : ~Matches(kind, i)) => LastOf(kind) = <<>>
  BY <1>2, <1>3
<1>6. ASSUME LastOf(kind) # <<>>
      PROVE  \E i \in 1 .. n : Matches(kind, i) /\ LastOf(kind) = <<out[i]>>
  <2>1. P # {} /\ LastOf(kind) = <<out[Max(P)]>>
    BY <1>2, <1>6
  <2>2. Max(P) \in P
    BY <1>3, <2>1, GreatestOf
  <2> QED BY <1>3, <2>1, <2>2
<1> QED BY <1>4, <1>5, <1>6

(* Which lines of a report can be read.                                    *)
LEMMA ReadableLines ==
  /\ PerfLine.kind = "Perf index" /\ (Readable(PerfLine) <=> p2 >= 0)
  /\ CorrectLine.kind = "correct" /\ Readable(CorrectLine)
  /\ PerfidxLine.kind = "perfidx"
  /\ Readable(PerfidxLine) <=> (IF errors = 0 THEN perfindex ELSE 0) >= 0
  /\ \A l : l.kind = "Total" /\ Readable(l) => l.figures
BY DEF PerfLine, CorrectLine, PerfidxLine, Readable

(* A run without errors: every row counts, in the table as in the index.   *)
LEMMA AllValid ==
  ASSUME mm_stats \in Seq(Rows), \A i \in 1 .. Len(mm_stats) : mm_stats[i].valid
  PROVE  NumCorrect = Len(mm_stats) /\ Printed(mm_stats) = mm_stats
<1>1. PICK n \in Nat : n = Len(mm_stats) /\ DOMAIN mm_stats = 1 .. n
  OBVIOUS
<1>2. {i \in DOMAIN mm_stats : mm_stats[i].valid} = 1 .. n
  BY <1>1
<1>3. Cardinality(1 .. n) = n
  <2>1. PICK one \in Int, m \in Int : one = 1 /\ m = n
    OBVIOUS
  <2>2. Cardinality(one .. m) = IF one > m THEN 0 ELSE m - one + 1
    BY FS_Interval
  <2> QED BY <2>1, <2>2, <1>1
<1>4. NumCorrect = n
  BY <1>2, <1>3 DEF NumCorrect
<1>5. mm_stats = [i \in 1 .. n |-> mm_stats[i]]
  BY <1>1
<1>6. Printed(mm_stats) = [i \in 1 .. n |-> mm_stats[i]]
  BY <1>1 DEF Printed
<1> QED BY <1>1, <1>4, <1>5, <1>6

-----------------------------------------------------------------------------
(* ReaderSeesTheRun of a result r.                                         *)
Seen(r) ==
    /\ r.status = "OK" <=>
         /\ code = 0 /\ autograder /\ Len(mm_stats) > 0
         /\ errors = 0 => perfindex >= 0
    /\ r.status = "OK" =>
         /\ r.correct[1].number = NumCorrect
         /\ r.perfidx[1].index > 0 => NumCorrect = Len(tracefiles)
         /\ ~run_libc /\ r.total # <<>> =>
              /\ NumCorrect = Len(tracefiles)
              /\ Throughput(r.total[1].ops, r.total[1].secs) = r.perfidx[1].index - p1

(* The property, of the record that was made.                               *)
LEMMA SeenIs == ReaderSeesTheRun <=> (pc = "parsed" => Seen(parsed))
BY DEF ReaderSeesTheRun, Seen

(* What Parse makes of the output.                                         *)
PerfidxFound == IF LastOf("perfidx") # <<>> THEN LastOf("perfidx") ELSE LastOf("Perf index")

IsParsed(r) ==
    r = [status |-> IF code = 0 /\ LastOf("correct") # <<>> /\ PerfidxFound # <<>>
                      THEN "OK" ELSE "RUN_FAIL",
         correct |-> LastOf("correct"), perfidx |-> PerfidxFound,
         total |-> LastOf("Total")]

(* What the script reads of a report.                                      *)
LEMMA ReportRead ==
  ASSUME mm_stats \in Seq(Rows), Len(mm_stats) > 0, NEW k, NEW n, Reported(out, k, n)
  PROVE  /\ ~autograder => LastOf("correct") = <<>>
         /\ autograder => LastOf("correct") = <<CorrectLine>>
         /\ autograder /\ (errors = 0 => perfindex >= 0) => PerfidxFound = <<PerfidxLine>>
         /\ errors = 0 /\ ~(perfindex >= 0) => PerfidxFound = <<>>
         /\ ~run_libc /\ LastOf("Total") # <<>> =>
               LastOf("Total") = <<TotalLine(mm_stats)>> /\ TotalLine(mm_stats).figures
<1>1. k \in Nat /\ n \in Nat /\ DOMAIN out = 1 .. n
  BY DEF Reported
<1>2. /\ p1 \in Nat /\ p2 \in Int /\ perfindex \in Int /\ perfindex = p1 + p2
  BY IndexParts DEF perfindex
<1>3. \A i \in 1 .. n : i <= k => out[i].kind = "Total"
  BY <1>1 DEF Reported
<1>4. ASSUME NEW i \in 1 .. n
      PROVE  \/ i <= k
             \/ errors = 0 /\ i = k + 1 /\ out[i] = PerfLine
             \/ autograder /\ i = n - 1 /\ out[i] = CorrectLine
             \/ autograder /\ i = n /\ out[i] = PerfidxLine
  BY <1>1 DEF Reported
<1>5. autograder => n - 1 \in 1 .. n /\ n \in 1 .. n /\ out[n - 1] = CorrectLine
                      /\ out[n] = PerfidxLine
  BY <1>1 DEF Reported
<1>6. /\ PerfLine.kind = "Perf index" /\ (Readable(PerfLine) <=> p2 >= 0)
      /\ CorrectLine.kind = "correct" /\ Readable(CorrectLine)
      /\ PerfidxLine.kind = "perfidx"
      /\ Readable(PerfidxLine) <=> (IF errors = 0 THEN perfindex ELSE 0) >= 0
      /\ \A l : l.kind = "Total" /\ Readable(l) => l.figures
  BY ReadableLines
<1>7. \A i \in 1 .. n : Matches("correct", i) => autograder /\ i = n - 1
  BY <1>3, <1>4, <1>6 DEF Matches
<1>8. \A i \in 1 .. n :
         Matches("perfidx", i) => /\ autograder /\ i = n
                                  /\ errors = 0 => perfindex >= 0
  BY <1>3, <1>4, <1>6 DEF Matches
<1>9. \A i \in 1 .. n : Matches("Perf index", i) => p2 >= 0
  BY <1>3, <1>4, <1>6 DEF Matches
<1>10. \A i \in 1 .. n : Matches("Total", i) => i <= k /\ out[i].figures
  BY <1>3, <1>4, <1>6 DEF Matches
<1>11. ~autograder => LastOf("correct") = <<>>
  BY <1>1, <1>7, LastIs
<1>12. ASSUME autograder PROVE LastOf("correct") = <<CorrectLine>>
  <2>1. PICK i \in 1 .. n : i = n - 1 /\ out[i] = CorrectLine
    BY <1>5, <1>12
  <2>2. Matches("correct", i)
    BY <2>1, <1>6 DEF Matches
  <2>3. \A j \in 1 .. n : Matches("correct", j) => j <= i
    BY <2>1, <1>7
  <2> QED BY <1>1, <2>1, <2>2, <2>3, LastIs
<1>13. ASSUME autograder, errors = 0 => perfindex >= 0
       PROVE  PerfidxFound = <<PerfidxLine>>
  <2>1. PICK i \in 1 .. n : i = n /\ out[i] = PerfidxLine
    BY <1>5, <1>13
  <2>2. Readable(PerfidxLine)
    <3>1. PICK x : x = IF errors = 0 THEN perfindex ELSE 0
      OBVIOUS
    <3>2. x >= 0
      BY <3>1, <1>2, <1>13
    <3> QED BY <3>1, <3>2, ReadableLines
  <2>3. Matches("perfidx", i)
    BY <2>1, <2>2, <1>6 DEF Matches
  <2>4. \A j \in 1 .. n : Matches("perfidx", j) => j <= i
    BY <2>1, <1>8
  <2>5. LastOf("perfidx") = <<PerfidxLine>>
    BY <1>1, <2>1, <2>3, <2>4, LastIs
  <2>6. <<PerfidxLine>> # <<>>
    OBVIOUS
  <2> QED BY <2>5, <2>6 DEF PerfidxFound
<1>14. ASSUME errors = 0, ~(perfindex >= 0)
       PROVE  PerfidxFound = <<>>
  <2>1. ~(p2 >= 0)
    BY <1>2, <1>14
  <2>2. LastOf("perfidx") = <<>>
    <3>1. \A i \in 1 .. n : ~Matches("perfidx", i)
      <4>1. SUFFICES ASSUME NEW i \in 1 .. n, Matches("perfidx", i) PROVE FALSE
        OBVIOUS
      <4>2. errors = 0 => perfindex >= 0
        BY <1>8, <4>1
      <4> QED BY <4>2, <1>14
    <3> QED BY <1>1, <3>1, LastIs
  <2>3. LastOf("Perf index") = <<>>
    BY <1>1, <1>9, <2>1, LastIs
  <2> QED BY <2>2, <2>3 DEF PerfidxFound
<1>15. ASSUME ~run_libc, LastOf("Total") # <<>>
       PROVE  LastOf("Total") = <<TotalLine(mm_stats)>> /\ TotalLine(mm_stats).figures
  <2>1. PICK i \in 1 .. n : Matches("Total", i) /\ LastOf("Total") = <<out[i]>>
    BY <1>1, <1>15, LastIs
  <2>2. i \in 1 .. k /\ out[i].figures
    BY <1>1, <1>10, <2>1
  <2>3. out[i] = TotalLine(mm_stats)
    BY <2>2, <1>15 DEF Reported
  <2> QED BY <2>1, <2>2, <2>3
<1> QED BY <1>11, <1>12, <1>13, <1>14, <1>15

(* What is read of a report is what was measured.                          *)
LEMMA ReportSeen ==
  ASSUME mm_stats \in Seq(Rows), Len(mm_stats) > 0, Len(mm_stats) = Len(tracefiles),
         errors \in Nat,
         errors = 0 => \A i \in 1 .. Len(mm_stats) : mm_stats[i].valid,
         code = 0, NEW k, NEW n, Reported(out, k, n), NEW r, IsParsed(r)
  PROVE  Seen(r)
<1>1. /\ ~autograder => LastOf("correct") = <<>>
      /\ autograder => LastOf("correct") = <<CorrectLine>>
      /\ autograder /\ (errors = 0 => perfindex >= 0) => PerfidxFound = <<PerfidxLine>>
      /\ errors = 0 /\ ~(perfindex >= 0) => PerfidxFound = <<>>
      /\ ~run_libc /\ LastOf("Total") # <<>> =>
            LastOf("Total") = <<TotalLine(mm_stats)>> /\ TotalLine(mm_stats).figures
  BY ReportRead
<1>2. /\ r.status = IF /\ code = 0 /\ LastOf("correct") # <<>>
                       /\ PerfidxFound # <<>>
                      THEN "OK" ELSE "RUN_FAIL"
      /\ r.correct = LastOf("correct") /\ r.perfidx = PerfidxFound
      /\ r.total = LastOf("Total")
  BY DEF IsParsed
<1>3. \A x : <<x>> # <<>> /\ <<x>>[1] = x
  OBVIOUS
<1>4. r.status = "OK" <=> autograder /\ (errors = 0 => perfindex >= 0)
  <2>1. CASE autograder /\ (errors = 0 => perfindex >= 0)
    <3>1. LastOf("correct") # <<>> /\ PerfidxFound # <<>>
      BY <1>1, <1>3, <2>1, Zenon
    <3> QED BY <1>2, <2>1, <3>1
  <2>2. CASE ~autograder
    BY <1>1, <1>2, <2>2
  <2>3. CASE errors = 0 /\ ~(perfindex >= 0)
    BY <1>1, <1>2, <2>3
  <2> QED BY <2>1, <2>2, <2>3
<1>5. ASSUME r.status = "OK"
      PROVE  /\ r.correct[1].number = NumCorrect
             /\ r.perfidx[1].index > 0 => NumCorrect = Len(tracefiles)
             /\ ~run_libc /\ r.total # <<>> =>
                  /\ NumCorrect = Len(tracefiles)
                  /\ Throughput(r.total[1].ops, r.total[1].secs) = r.perfidx[1].index - p1
  <2>1. r.correct = <<CorrectLine>> /\ r.perfidx = <<PerfidxLine>>
    BY <1>1, <1>2, <1>4, <1>5, Zenon
  <2>2. r.correct[1] = CorrectLine /\ r.perfidx[1] = PerfidxLine
    BY <1>3, <2>1, Zenon
  <2>3. /\ r.correct[1].number = NumCorrect
        /\ r.perfidx[1].index = IF errors = 0 THEN perfindex ELSE 0
    BY <2>2 DEF CorrectLine, PerfidxLine
  <2>4. errors = 0 => NumCorrect = Len(tracefiles) /\ Printed(mm_stats) = mm_stats
    BY AllValid
  <2>5. ASSUME r.perfidx[1].index > 0
        PROVE  NumCorrect = Len(tracefiles)
    <3>1. errors = 0
      BY <2>3, <2>5
    <3> QED BY <2>4, <3>1
  <2>6. ASSUME ~run_libc, r.total # <<>>
        PROVE  /\ NumCorrect = Len(tracefiles)
               /\ Throughput(r.total[1].ops, r.total[1].secs) = r.perfidx[1].index - p1
    <3>1. LastOf("Total") # <<>>
      BY <1>2, <2>6
    <3>2. r.total = <<TotalLine(mm_stats)>> /\ TotalLine(mm_stats).figures
      BY <1>1, <1>2, <2>6, <3>1, Zenon
    <3>3. r.total[1] = TotalLine(mm_stats)
      BY <1>3, <3>2, Zenon
    <3>4. errors = 0
      BY <3>2 DEF TotalLine
    <3>5. r.total[1].ops = TotalOps(mm_stats) /\ r.total[1].secs = TotalSecs(mm_stats)
      BY <2>4, <3>3, <3>4 DEF TotalLine
    <3>6. Throughput(r.total[1].ops, r.total[1].secs) = p2
      BY <3>5 DEF p2
    <3>7. p1 \in Nat /\ p2 \in Int
      BY IndexParts
    <3>8. r.perfidx[1].index = p1 + p2
      BY <2>3, <3>4 DEF perfindex
    <3> QED BY <2>4, <3>4, <3>6, <3>7, <3>8
  <2> QED BY <2>3, <2>5, <2>6
<1> QED BY <1>4, <1>5 DEF Seen

(* A run that printed nothing is a failure to the script, and rightly so.  *)
LEMMA NothingSeen ==
  ASSUME NEW r, IsParsed(r), code # 0 \/ (mm_stats = <<>> /\ out = <<>>)
  PROVE  Seen(r)
<1>1. r.status = IF /\ code = 0 /\ LastOf("correct") # <<>>
                    /\ PerfidxFound # <<>>
                   THEN "OK" ELSE "RUN_FAIL"
  BY DEF IsParsed
<1>2. out = <<>> => LastOf("correct") = <<>>
  <2>1. ASSUME out = <<>>
        PROVE  LastOf("correct") = <<>>
    <3>1. DOMAIN out = 1 .. 0
      BY <2>1
    <3> QED BY <3>1, LastIs
  <2> QED BY <2>1
<1>3. r.status # "OK"
  BY <1>1, <1>2
<1>4. mm_stats = <<>> => ~(Len(mm_stats) > 0)
  OBVIOUS
<1> QED BY <1>3, <1>4 DEF Seen

-----------------------------------------------------------------------------
(* What each phase of main leaves behind.                                  *)
SInv ==
    /\ mm_stats \in Seq(Rows) /\ errors \in Nat
    /\ errors = 0 => \A i \in 1 .. Len(mm_stats) : mm_stats[i].valid
    /\ pc = "options" => mm_stats = <<>> /\ out = <<>>
    /\ pc = "libc" => run_libc /\ mm_stats = <<>> /\ out = <<>>
    /\ pc = "mm" => Before(out)
    /\ pc = "index" => /\ Len(mm_stats) = Len(tracefiles) /\ Len(mm_stats) > 0
                       /\ Tabled(out)
    /\ pc = "exited" =>
         \/ code # 0
         \/ mm_stats = <<>> /\ out = <<>>
         \/ /\ code = 0 /\ Len(mm_stats) = Len(tracefiles) /\ Len(mm_stats) > 0
            /\ \E k, n : Reported(out, k, n)
    /\ ReaderSeesTheRun

(* main starts without a row and without a line.                            *)
LEMMA SInvInit == Init => SInv
<1> SUFFICES ASSUME Init PROVE SInv
  OBVIOUS
<1>1. mm_stats = <<>> /\ errors = 0 /\ out = <<>> /\ pc = "options"
  BY DEF Init
<1>2. mm_stats \in Seq(Rows) /\ Len(mm_stats) = 0
  BY <1>1
<1> QED BY <1>1, <1>2 DEF SInv, ReaderSeesTheRun

(* There are files to run from the moment the command line is read.        *)
LEMMA SomeFiles ==
  ASSUME FileDecides, pc \in {"libc", "mm"}
  PROVE  Len(tracefiles) \in Nat /\ Len(tracefiles) > 0
<1>1. tracefiles = Default \/ \E x : tracefiles = <<x>>
  BY DEF FileDecides
<1> QED BY <1>1, MainAssumption

(* Options, the check of the team and the traces of libc.                  *)
LEMMA EarlyStats ==
  ASSUME SInv, FileOption \/ DirOption \/ Flag \/ Usage \/ Checked \/ LibcTrace
  PROVE  SInv'
<1>1. mm_stats' = mm_stats /\ errors' = errors /\ out' = out
  BY DEF FileOption, DirOption, Flag, Usage, Checked, LibcTrace, Next1, stats, options
<1>2. pc \in {"options", "libc"}
  BY DEF FileOption, DirOption, Flag, Usage, Checked, LibcTrace, Opt
<1>3. mm_stats = <<>> /\ out = <<>>
  BY <1>2 DEF SInv
<1>4. pc' \in {"options", "libc", "mm", "exited"}
  BY <1>2 DEF FileOption, DirOption, Flag, Usage, Checked, LibcTrace, Exit
<1>5. pc' = "libc" => run_libc'
  BY <1>2 DEF FileOption, DirOption, Flag, Usage, Checked, LibcTrace, Exit, Opt, SInv, options
<1>6. Before(out)'
  BY <1>1, <1>3 DEF Before
<1> QED BY <1>1, <1>3, <1>4, <1>5, <1>6 DEF SInv, ReaderSeesTheRun

(* The table of libc leaves a line, or none.                               *)
LEMMA LibcTableStats ==
  ASSUME SInv, LibcTable
  PROVE  SInv'
<1>1. /\ pc = "libc" /\ pc' = "mm" /\ mm_stats' = mm_stats /\ errors' = errors
      /\ run_libc' = run_libc /\ run_libc /\ out = <<>>
      /\ out' = IF verbose > 0 THEN Append(out, TotalLine(libc_stats)) ELSE out
  BY DEF LibcTable, SInv, stats, options, printresults
<1>2. PICK t : t = TotalLine(libc_stats)
  OBVIOUS
<1>3. t.kind = "Total"
  BY <1>2 DEF TotalLine
<1>4. out' = <<>> \/ out' = <<t>>
  BY <1>1, <1>2
<1>5. Before(out)'
  BY <1>1, <1>3, <1>4 DEF Before
<1> QED BY <1>1, <1>5 DEF SInv, ReaderSeesTheRun

(* What appending one row to the statistics does.                          *)
LEMMA OneMoreRow ==
  ASSUME NEW s \in Seq(Rows), NEW row \in Rows, NEW t, t = Append(s, row)
  PROVE  /\ t \in Seq(Rows)
         /\ \A i \in 1 .. Len(t) : (i \in 1 .. Len(s) /\ t[i] = s[i]) \/ t[i] = row
<1>1. PICK R : R = Rows
  OBVIOUS
<1>2. s \in Seq(R) /\ row \in R
  BY <1>1
<1>3. t \in Seq(R)
  BY <1>2
<1>4. \A i \in 1 .. Len(t) : (i \in 1 .. Len(s) /\ t[i] = s[i]) \/ t[i] = row
  BY <1>2
<1> QED BY <1>1, <1>3, <1>4

(* One more row; a row that is not valid is an error.                      *)
LEMMA MmTraceStats ==
  ASSUME SInv, MmTrace
  PROVE  SInv'
<1>1. /\ pc = "mm" /\ mm_stats \in Seq(Rows) /\ errors \in Nat /\ Before(out)
      /\ errors = 0 => \A i \in 1 .. Len(mm_stats) : mm_stats[i].valid
      /\ out' = out /\ run_libc' = run_libc
  BY DEF MmTrace, SInv, options
<1>2. Before(out)'
  BY <1>1 DEF Before
<1>3. CASE /\ pc' = pc
           /\ \E o \in Ops, s \in Secs, u \in Utils :
                mm_stats' = Append(mm_stats, Row(TRUE, o, s, u)) /\ errors' = errors
  <2>1. PICK o \in Ops, s \in Secs, u \in Utils :
           mm_stats' = Append(mm_stats, Row(TRUE, o, s, u)) /\ errors' = errors
    BY <1>3
  <2>2. PICK row : row = Row(TRUE, o, s, u)
    OBVIOUS
  <2>3. row \in Rows /\ row.valid
    BY <2>2, MainAssumption DEF Row, Rows
  <2>4. mm_stats' = Append(mm_stats, row) /\ mm_stats \in Seq(Rows)
    BY <1>1, <2>1, <2>2
  <2>5. /\ mm_stats' \in Seq(Rows)
        /\ \A i \in 1 .. Len(mm_stats') :
             (i \in 1 .. Len(mm_stats) /\ mm_stats'[i] = mm_stats[i]) \/ mm_stats'[i] = row
    BY <2>3, <2>4, OneMoreRow
  <2>6. ASSUME errors = 0, NEW i \in 1 .. Len(mm_stats')
        PROVE  mm_stats'[i].valid
    <3>1. mm_stats'[i] = row \/ (i \in 1 .. Len(mm_stats) /\ mm_stats'[i] = mm_stats[i])
      BY <2>5
    <3>2. CASE mm_stats'[i] = row
      BY <3>2, <2>3
    <3>3. CASE i \in 1 .. Len(mm_stats) /\ mm_stats'[i] = mm_stats[i]
      BY <3>3, <1>1, <2>6
    <3> QED BY <3>1, <3>2, <3>3
  <2> QED BY <1>1, <1>2, <1>3, <2>1, <2>5, <2>6 DEF SInv, ReaderSeesTheRun
<1>4. CASE /\ pc' = pc /\ errors' = errors + 1
           /\ \E o \in Ops : mm_stats' = Append(mm_stats, Row(FALSE, o, 0, 0))
  <2>1. PICK o \in Ops : mm_stats' = Append(mm_stats, Row(FALSE, o, 0, 0))
    BY <1>4
  <2>2. PICK row : row = Row(FALSE, o, 0, 0)
    OBVIOUS
  <2>3. row \in Rows
    BY <2>2, MainAssumption DEF Row, Rows
  <2>4. mm_stats' = Append(mm_stats, row) /\ mm_stats \in Seq(Rows)
    BY <1>1, <2>1, <2>2
  <2>5. mm_stats' \in Seq(Rows)
    BY <2>3, <2>4, OneMoreRow
  <2>6. errors' \in Nat /\ errors' # 0
    BY <1>1, <1>4
  <2> QED BY <1>1, <1>2, <1>4, <2>5, <2>6 DEF SInv, ReaderSeesTheRun
<1>5. CASE Exit(1) /\ mm_stats' = mm_stats /\ errors' = errors
  <2>1. pc' = "exited" /\ code' # 0
    BY <1>5 DEF Exit
  <2> QED BY <1>1, <1>5, <2>1 DEF SInv, ReaderSeesTheRun
<1> QED BY <1>3, <1>4, <1>5 DEF MmTrace

(* All rows are there; their table is printed.                             *)
LEMMA MmTableStats ==
  ASSUME SInv, FileDecides, MmTable
  PROVE  SInv'
<1>1. /\ pc = "mm" /\ pc' = "index" /\ mm_stats' = mm_stats /\ errors' = errors
      /\ run_libc' = run_libc /\ verbose' = verbose /\ tracefiles' = tracefiles
      /\ Before(out) /\ Len(mm_stats) = Len(tracefiles)
      /\ out' = IF verbose > 0 THEN Append(out, TotalLine(mm_stats)) ELSE out
  BY DEF MmTable, SInv, stats, options, printresults
<1>2. Len(mm_stats) > 0
  BY <1>1, SomeFiles
<1>3. TotalLine(mm_stats)' = TotalLine(mm_stats)
  BY <1>1 DEF TotalLine
<1>4. Before(out) <=> out = <<>> \/ (run_libc' /\ \E t : out = <<t>> /\ t.kind = "Total")
  BY <1>1 DEF Before
<1>5. Tabled(out)'
  BY <1>1, <1>3, <1>4 DEF Tabled, Before
<1> QED BY <1>1, <1>2, <1>5 DEF SInv, ReaderSeesTheRun

(* Nothing but the output and the state of the process differ.             *)
LEMMA SameFigures ==
  ASSUME UNCHANGED <<mm_stats, errors, autograder, run_libc>>
  PROVE  /\ p1' = p1 /\ p2' = p2 /\ perfindex' = perfindex /\ NumCorrect' = NumCorrect
         /\ TotalLine(mm_stats)' = TotalLine(mm_stats)
         /\ PerfLine' = PerfLine /\ CorrectLine' = CorrectLine /\ PerfidxLine' = PerfidxLine
<1>1. p1' = p1
  BY DEF p1
<1>2. p2' = p2
  BY DEF p2
<1>3. perfindex' = perfindex
  BY <1>1, <1>2 DEF perfindex
<1>4. NumCorrect' = NumCorrect
  BY DEF NumCorrect
<1>5. TotalLine(mm_stats)' = TotalLine(mm_stats)
  BY DEF TotalLine
<1> QED BY <1>1, <1>2, <1>3, <1>4, <1>5 DEF PerfLine, CorrectLine, PerfidxLine

(* The index, and what -g adds.                                            *)
LEMMA IndexStats ==
  ASSUME SInv, Index
  PROVE  SInv'
<1>1. /\ pc = "index" /\ pc' = "exited" /\ code' = 0
      /\ UNCHANGED <<mm_stats, errors, autograder, run_libc, tracefiles>>
      /\ Len(mm_stats) = Len(tracefiles) /\ Len(mm_stats) > 0 /\ Tabled(out)
  BY DEF Index, Exit, SInv, stats, options
<1>2. PICK e, f : Ending(e, f)
  BY DEF Ending
<1>3. out' = (out \o e) \o f
  BY <1>2 DEF Index, Ending, PerfLine, CorrectLine, PerfidxLine
<1>4. PICK k, n : Reported(out', k, n)
  BY <1>1, <1>2, <1>3, IndexReports
<1>5. Reported(out, k, n)'
  BY <1>1, <1>4, SameFigures DEF Reported
<1> QED BY <1>1, <1>5 DEF SInv, ReaderSeesTheRun

(* The script reads the output.                                            *)
LEMMA ParseStats ==
  ASSUME SInv, Parse
  PROVE  SInv'
<1>1. /\ pc = "exited" /\ pc' = "parsed"
      /\ UNCHANGED <<mm_stats, errors, autograder, run_libc, tracefiles, out, code>>
  BY DEF Parse, stats, options
<1>2. IsParsed(parsed')
  BY DEF Parse, IsParsed, PerfidxFound
<1>3. Seen(parsed')
  <2>1. CASE code # 0 \/ (mm_stats = <<>> /\ out = <<>>)
    BY <1>2, <2>1, NothingSeen
  <2>2. CASE /\ code = 0 /\ Len(mm_stats) = Len(tracefiles) /\ Len(mm_stats) > 0
             /\ \E k, n : Reported(out, k, n)
    BY <1>2, <2>2, ReportSeen DEF SInv
  <2> QED BY <1>1, <2>1, <2>2 DEF SInv
<1>4. Seen(parsed)'
  BY <1>1, <1>3, SameFigures DEF Seen
<1>5. ReaderSeesTheRun'
  BY <1>4 DEF ReaderSeesTheRun, Seen
<1> QED BY <1>1, <1>5 DEF SInv

(* Nothing happens any more.                                               *)
LEMMA DoneStats ==
  ASSUME SInv, UNCHANGED vars
  PROVE  SInv'
<1>1. /\ UNCHANGED <<mm_stats, errors, autograder, run_libc, verbose, tracefiles, out, code, pc, parsed>>
  BY DEF vars, stats, options
<1>2. /\ p1' = p1 /\ perfindex' = perfindex /\ NumCorrect' = NumCorrect
      /\ TotalLine(mm_stats)' = TotalLine(mm_stats)
      /\ PerfLine' = PerfLine /\ CorrectLine' = CorrectLine /\ PerfidxLine' = PerfidxLine
  BY <1>1, SameFigures
<1>3. Before(out)' <=> Before(out)
  BY <1>1 DEF Before
<1>4. Tabled(out)' <=> Tabled(out)
  BY <1>1, <1>2 DEF Tabled, Before
<1>5. (\E k, n : Reported(out, k, n))' <=> \E k, n : Reported(out, k, n)
  BY <1>1, <1>2 DEF Reported
<1>6. ReaderSeesTheRun' <=> ReaderSeesTheRun
  BY <1>1, <1>2 DEF ReaderSeesTheRun
<1> QED BY <1>1, <1>3, <1>4, <1>5, <1>6 DEF SInv

(* Every step keeps the books.                                             *)
LEMMA SInvNext == SInv /\ OInv /\ [Next]_vars => SInv'
<1> SUFFICES ASSUME SInv, OInv, [Next]_vars PROVE SInv'
  OBVIOUS
<1>1. CASE FileOption \/ DirOption \/ Flag \/ Usage \/ Checked \/ LibcTrace
  BY <1>1, EarlyStats
<1>2. CASE LibcTable
  BY <1>2, LibcTableStats
<1>3. CASE MmTrace
  BY <1>3, MmTraceStats
<1>4. CASE MmTable
  BY <1>4, MmTableStats DEF OInv
<1>5. CASE Index
  BY <1>5, IndexStats
<1>6. CASE Parse
  BY <1>6, ParseStats
<1>7. CASE Done \/ UNCHANGED vars
  BY <1>7, DoneStats DEF Done
<1> QED BY <1>1, <1>2, <1>3, <1>4, <1>5, <1>6, <1>7 DEF Next

(* In every phase of main the rows, the errors and the printed lines are   *)
(* what the phases before made them (mdriver.c, main).                     *)
THEOREM ReportInvariance == Spec => []SInv
BY SInvInit, SInvNext, OptionsInvariance, PTL DEF Spec

(* The index is at most 100, and not below 0 unless the clock was set back *)
(* (mdriver.c, main).                                                      *)
THEOREM IndexStaysBounded == Spec => []IndexIsBounded
<1>1. SInv => IndexIsBounded
  <2> SUFFICES ASSUME SInv, pc = "index"
               PROVE  /\ perfindex <= 100 * 100
                      /\ TotalSecs(mm_stats) >= 0 => perfindex >= 0
    BY DEF IndexIsBounded
  <2>1. /\ p1 \in Nat /\ p1 <= Weight * 100
        /\ p2 \in Int /\ p2 <= (100 - Weight) * 100
        /\ TotalSecs(mm_stats) >= 0 => p2 >= 0
    BY IndexParts DEF SInv
  <2> QED BY <2>1, MainAssumption DEF perfindex
<1> QED BY <1>1, ReportInvariance, PTL

(* What benchmark_lib.py reads of the output is this run's index, number   *)
(* of correct traces and totals, and it reports a failure exactly of a run *)
(* without them (parse_mdriver_output).                                    *)
THEOREM WhatIsReadWasMeasured == Spec => []ReaderSeesTheRun
<1>1. SInv => ReaderSeesTheRun
  BY DEF SInv
<1> QED BY <1>1, ReportInvariance, PTL

=============================================================================
