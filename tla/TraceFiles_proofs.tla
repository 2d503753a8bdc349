------------------------- MODULE TraceFiles_proofs -------------------------
(***************************************************************************)
(* checktrace.pl, the generators before it and read_trace behind it, for   *)
(* traces of any length over any ids.                                      *)
(***************************************************************************)
EXTENDS TraceFiles, FiniteSetTheorems, SequenceTheorems, TLAPS

Request == [cmd : Commands, id : Nat]

Trace == Seq(Request)

-----------------------------------------------------------------------------
(* What the tally is before line k, said without a tally: id is entered as *)
(* c if the last of its lines that is no r is a c, and an f enters nothing.*)
Entered(s, k, id, c) ==
    /\ c \in {"a", "x"}
    /\ \E i \in 1 .. k - 1 :
         /\ s[i].cmd = c /\ s[i].id = id
         /\ \A j \in i + 1 .. k - 1 : s[j].id = id => s[j].cmd = "r"

Outstanding(s, k, id) == Entered(s, k, id, "a") \/ Entered(s, k, id, "x")

(* Line k passes the checks of the loop, and all lines do.                 *)
LinePasses(s, k) ==
    /\ s[k].cmd = "a" => ~Entered(s, k, s[k].id, "a")
    /\ s[k].cmd \in {"r", "f"} => Outstanding(s, k, s[k].id)

Accepted(s) == \A k \in DOMAIN s : LinePasses(s, k)

AtEndOf(s) == Len(s) + 1

(* Nothing is left to be freed.                                            *)
Settled(s) == \A id \in Nat : ~Outstanding(s, AtEndOf(s), id)

NoOther(s) == \A k \in DOMAIN s : s[k].cmd # "x"

(* H is the tally of s.                                                    *)
TallyOf(H, s) ==
    /\ H = [id \in DOMAIN H |-> H[id]]
    /\ IsFiniteSet(DOMAIN H) /\ DOMAIN H \subseteq Nat
    /\ \A id \in Nat : Outstanding(s, AtEndOf(s), id) => id \in DOMAIN H
    /\ \A id \in DOMAIN H : Entered(s, AtEndOf(s), id, H[id])

Agree(s, t, n) == \A j \in 1 .. n : s[j] = t[j]

(* The tally before a line depends on the lines before it.                 *)
LEMMA EnteredUpTo ==
  ASSUME NEW s, NEW t, NEW k \in Nat, Agree(s, t, k - 1), NEW id, NEW c
  PROVE  Entered(s, k, id, c) <=> Entered(t, k, id, c)
<1>1. \A i \in 1 .. k - 1 : i \in Int /\ (\A j \in i + 1 .. k - 1 : j \in 1 .. k - 1)
  OBVIOUS
<1> QED BY <1>1 DEF Entered, Agree

(* And so does whether the line passes.                                    *)
LEMMA PassesUpTo ==
  ASSUME NEW s, NEW t, NEW k \in Nat \ {0}, Agree(s, t, k)
  PROVE  LinePasses(s, k) <=> LinePasses(t, k)
<1>1. s[k] = t[k] /\ Agree(s, t, k - 1) /\ k \in Nat
  BY DEF Agree
<1>2. \A id, c : Entered(s, k, id, c) <=> Entered(t, k, id, c)
  BY <1>1, EnteredUpTo
<1> QED BY <1>1, <1>2 DEF LinePasses, Outstanding

(* One more line.                                                          *)
LEMMA AppendAgrees ==
  ASSUME NEW s \in Trace, NEW e \in Request
  PROVE  /\ Append(s, e) \in Trace /\ Len(Append(s, e)) = Len(s) + 1
         /\ Agree(s, Append(s, e), Len(s)) /\ Append(s, e)[Len(s) + 1] = e
         /\ Len(s) \in Nat /\ DOMAIN s = 1 .. Len(s)
         /\ DOMAIN Append(s, e) = 1 .. Len(s) + 1
BY AppendProperties, LenProperties DEF Trace, Agree

(* What is entered behind one more line.                                   *)
LEMMA EnteredAppend ==
  ASSUME NEW s \in Trace, NEW e \in Request, NEW id \in Nat, NEW c
  PROVE  Entered(Append(s, e), Len(s) + 2, id, c) <=>
           IF e.id = id /\ e.cmd # "r" THEN c = e.cmd /\ c \in {"a", "x"}
                                      ELSE Entered(s, Len(s) + 1, id, c)
<1>1. PICK t, n : t = Append(s, e) /\ n = Len(s)
  OBVIOUS
<1>2. n \in Nat /\ (\A j \in 1 .. n : t[j] = s[j]) /\ t[n + 1] = e
  BY <1>1, AppendAgrees DEF Agree
<1>3. (n + 2) - 1 = n + 1 /\ (n + 1) - 1 = n
  BY <1>2
<1>4. CASE e.id = id /\ e.cmd # "r"
  <2>1. ASSUME Entered(t, n + 2, id, c) PROVE c = e.cmd /\ c \in {"a", "x"}
    <3>1. c \in {"a", "x"}
      BY <2>1 DEF Entered
    <3>2. PICK i \in 1 .. n + 1 : /\ t[i].cmd = c
                                  /\ \A j \in i + 1 .. n + 1 : t[j].id = id => t[j].cmd = "r"
      BY <2>1, <1>3 DEF Entered
    <3>3. i = n + 1
      <4>1. SUFFICES ASSUME i # n + 1 PROVE FALSE
        OBVIOUS
      <4>2. n + 1 \in i + 1 .. n + 1
        BY <1>2, <4>1
      <4> QED BY <4>2, <3>2, <1>2, <1>4
    <3> QED BY <3>1, <3>2, <3>3, <1>2
  <2>2. ASSUME c = e.cmd, c \in {"a", "x"} PROVE Entered(t, n + 2, id, c)
    <3>1. n + 1 \in 1 .. n + 1 /\ (n + 1) + 1 .. n + 1 = {}
      BY <1>2
    <3> QED BY <3>1, <1>2, <1>3, <1>4, <2>2 DEF Entered
  <2> QED BY <1>1, <1>4, <2>1, <2>2
<1>5. CASE e.id # id \/ e.cmd = "r"
  <2>1. ASSUME Entered(t, n + 2, id, c) PROVE Entered(s, n + 1, id, c)
    <3>1. c \in {"a", "x"}
      BY <2>1 DEF Entered
    <3>2. PICK i \in 1 .. n + 1 : /\ t[i].cmd = c /\ t[i].id = id
                                  /\ \A j \in i + 1 .. n + 1 : t[j].id = id => t[j].cmd = "r"
      BY <2>1, <1>3 DEF Entered
    <3>3. i # n + 1
      BY <1>2, <1>5, <3>1, <3>2
    <3>4. i \in 1 .. n /\ i + 1 .. n \subseteq i + 1 .. n + 1 /\ i + 1 .. n \subseteq 1 .. n
      BY <1>2, <3>3
    <3>5. s[i].cmd = c /\ s[i].id = id /\ \A j \in i + 1 .. n : s[j].id = id => s[j].cmd = "r"
      BY <1>2, <3>2, <3>4
    <3> QED BY <3>1, <3>4, <3>5, <1>3 DEF Entered
  <2>2. ASSUME Entered(s, n + 1, id, c) PROVE Entered(t, n + 2, id, c)
    <3>1. c \in {"a", "x"}
      BY <2>2 DEF Entered
    <3>2. PICK i \in 1 .. n : /\ s[i].cmd = c /\ s[i].id = id
                              /\ \A j \in i + 1 .. n : s[j].id = id => s[j].cmd = "r"
      BY <2>2, <1>3 DEF Entered
    <3>3. i \in 1 .. n + 1 /\ \A j \in i + 1 .. n + 1 : j = n + 1 \/ (j \in i + 1 .. n /\ j \in 1 .. n)
      BY <1>2
    <3>4. t[i].cmd = c /\ t[i].id = id /\ \A j \in i + 1 .. n + 1 : t[j].id = id => t[j].cmd = "r"
      BY <1>2, <1>5, <3>2, <3>3
    <3> QED BY <3>1, <3>3, <3>4, <1>3 DEF Entered
  <2> QED BY <1>1, <1>5, <2>1, <2>2
<1> QED BY <1>4, <1>5

(* An id is entered as one command.                                        *)
LEMMA EnteredOnce ==
  ASSUME NEW s, NEW k \in Nat, NEW id, NEW c, NEW d,
         Entered(s, k, id, c), Entered(s, k, id, d)
  PROVE  c = d
<1>1. c \in {"a", "x"} /\ d \in {"a", "x"}
  BY DEF Entered
<1>2. PICK i \in 1 .. k - 1 : /\ s[i].cmd = c /\ s[i].id = id
                              /\ \A j \in i + 1 .. k - 1 : s[j].id = id => s[j].cmd = "r"
  BY DEF Entered
<1>3. PICK l \in 1 .. k - 1 : /\ s[l].cmd = d /\ s[l].id = id
                              /\ \A j \in l + 1 .. k - 1 : s[j].id = id => s[j].cmd = "r"
  BY DEF Entered
<1>4. i = l \/ l \in i + 1 .. k - 1 \/ i \in l + 1 .. k - 1
  OBVIOUS
<1> QED BY <1>1, <1>2, <1>3, <1>4

(* A trace with one more line is accepted if the trace is and the line     *)
(* passes.                                                                 *)
LEMMA AcceptedAppend ==
  ASSUME NEW s \in Trace, NEW e \in Request
  PROVE  Accepted(Append(s, e)) <=>
           /\ Accepted(s)
           /\ e.cmd = "a" => ~Entered(s, Len(s) + 1, e.id, "a")
           /\ e.cmd \in {"r", "f"} => Outstanding(s, Len(s) + 1, e.id)
<1>1. PICK t, n : t = Append(s, e) /\ n = Len(s)
  OBVIOUS
<1>2. /\ n \in Nat /\ Agree(s, t, n) /\ t[n + 1] = e
      /\ DOMAIN s = 1 .. n /\ DOMAIN t = 1 .. n + 1
  BY <1>1, AppendAgrees
<1>3. \A k \in 1 .. n : LinePasses(s, k) <=> LinePasses(t, k)
  <2>1. TAKE k \in 1 .. n
  <2>2. k \in Nat \ {0} /\ Agree(s, t, k)
    BY <1>2 DEF Agree
  <2> QED BY <2>2, PassesUpTo
<1>4. \A id, c : Entered(s, n + 1, id, c) <=> Entered(t, n + 1, id, c)
  <2>1. n + 1 \in Nat /\ Agree(s, t, (n + 1) - 1)
    BY <1>2
  <2> QED BY <2>1, EnteredUpTo
<1>5. LinePasses(t, n + 1) <=> /\ e.cmd = "a" => ~Entered(s, n + 1, e.id, "a")
                               /\ e.cmd \in {"r", "f"} => Outstanding(s, n + 1, e.id)
  BY <1>2, <1>4 DEF LinePasses, Outstanding
<1>6. \A k \in 1 .. n + 1 : k \in 1 .. n \/ k = n + 1
  BY <1>2
<1>7. \A k \in 1 .. n : k \in 1 .. n + 1
  BY <1>2
<1>8. n + 1 \in 1 .. n + 1
  BY <1>2
<1>9. Accepted(t) <=> Accepted(s) /\ LinePasses(t, n + 1)
  BY <1>2, <1>3, <1>6, <1>7, <1>8 DEF Accepted
<1> QED BY <1>1, <1>5, <1>9

(* The beginning of an accepted trace is accepted.                         *)
LEMMA AcceptedBegin ==
  ASSUME NEW s \in Trace, NEW t \in Trace, Len(s) <= Len(t), Agree(s, t, Len(s)), Accepted(t)
  PROVE  Accepted(s)
<1>1. Len(s) \in Nat /\ DOMAIN s = 1 .. Len(s) /\ Len(t) \in Nat /\ DOMAIN t = 1 .. Len(t)
  BY LenProperties DEF Trace
<1>2. SUFFICES ASSUME NEW k \in 1 .. Len(s) PROVE LinePasses(s, k)
  BY <1>1 DEF Accepted
<1>3. k \in Nat \ {0} /\ Agree(s, t, k) /\ k \in DOMAIN t
  BY <1>1 DEF Agree
<1> QED BY <1>3, PassesUpTo DEF Accepted

(* The legal traces are the accepted ones without a foreign word.          *)
LEMMA LegalIsAccepted ==
  ASSUME NEW s \in Trace
  PROVE  Legal(s) <=> Accepted(s) /\ NoOther(s)
<1>1. Len(s) \in Nat /\ DOMAIN s = 1 .. Len(s) /\ (\A i \in 1 .. Len(s) : s[i] \in Request)
  BY LenProperties, ElementOfSeq DEF Trace
<1>2. ASSUME NEW k \in 1 .. Len(s), NEW id PROVE Allocated(s, k, id) <=> Entered(s, k, id, "a")
  <2>1. \A i \in 1 .. k - 1 : s[i] = [cmd |-> "a", id |-> id] <=> s[i].cmd = "a" /\ s[i].id = id
    BY <1>1 DEF Request
  <2> QED BY <2>1 DEF Allocated, Entered
<1>3. ASSUME NoOther(s), NEW k \in 1 .. Len(s), NEW id PROVE ~Entered(s, k, id, "x")
  <2>1. \A i \in 1 .. k - 1 : i \in 1 .. Len(s)
    BY <1>1
  <2> QED BY <1>1, <1>3, <2>1 DEF Entered, NoOther
<1>4. Legal(s) => NoOther(s)
  BY DEF Legal, NoOther
<1>5. ASSUME NoOther(s), NEW k \in 1 .. Len(s)
      PROVE  Allocated(s, k, s[k].id) = (s[k].cmd # "a") <=> LinePasses(s, k)
  <2>1. s[k].cmd \in {"a", "r", "f"}
    BY <1>1, <1>5 DEF Request, NoOther, Commands
  <2>2. Outstanding(s, k, s[k].id) <=> Allocated(s, k, s[k].id)
    BY <1>2, <1>3, <1>5 DEF Outstanding
  <2>3. Entered(s, k, s[k].id, "a") <=> Allocated(s, k, s[k].id)
    BY <1>2
  <2>4. Allocated(s, k, s[k].id) \in BOOLEAN
    BY DEF Allocated
  <2> QED BY <2>1, <2>2, <2>3, <2>4 DEF LinePasses
<1> QED BY <1>1, <1>4, <1>5 DEF Legal, Accepted, NoOther

-----------------------------------------------------------------------------
(* An empty trace has an empty tally.                                      *)
LEMMA NothingRead ==
  /\ <<>> \in Trace /\ Accepted(<<>>) /\ Settled(<<>>) /\ NoOther(<<>>)
  /\ TallyOf(Empty, <<>>)
<1>1. <<>> \in Trace /\ Len(<<>>) = 0 /\ DOMAIN <<>> = {}
  BY EmptySeq DEF Trace
<1>2. \A id, c : ~Entered(<<>>, 1, id, c)
  BY DEF Entered
<1>3. DOMAIN Empty = {} /\ Empty = [id \in DOMAIN Empty |-> Empty[id]]
  BY DEF Empty
<1> QED BY <1>1, <1>2, <1>3, FS_EmptySet
        DEF Accepted, Settled, NoOther, TallyOf, Outstanding, AtEndOf

(* What an a, or a foreign word, enters.                                   *)
LEMMA TallyEnter ==
  ASSUME NEW s \in Trace, NEW e \in Request, e.cmd \in {"a", "x"}, NEW H, TallyOf(H, s), NEW G,
         G = [i \in DOMAIN H \cup {e.id} |-> IF i = e.id THEN e.cmd ELSE H[i]]
  PROVE  TallyOf(G, Append(s, e))
<1>1. PICK t : t = Append(s, e)
  OBVIOUS
<1>2. AtEndOf(t) = Len(s) + 2 /\ AtEndOf(s) = Len(s) + 1
  BY <1>1, AppendAgrees DEF AtEndOf
<1>3. \A id \in Nat : \A c : Entered(t, AtEndOf(t), id, c) <=>
        IF e.id = id THEN c = e.cmd ELSE Entered(s, AtEndOf(s), id, c)
  <2>1. TAKE id \in Nat
  <2>2. TAKE c
  <2> QED BY <1>1, <1>2, EnteredAppend
<1>4. DOMAIN G = DOMAIN H \cup {e.id} /\ e.id \in Nat
  BY DEF Request
<1>5. G = [i \in DOMAIN G |-> G[i]]
  OBVIOUS
<1>6. IsFiniteSet(DOMAIN G) /\ DOMAIN G \subseteq Nat
  BY <1>4, FS_AddElement DEF TallyOf
<1>7. \A id \in Nat : Outstanding(t, AtEndOf(t), id) => id \in DOMAIN G
  BY <1>3, <1>4 DEF TallyOf, Outstanding
<1>8. \A id \in DOMAIN G : Entered(t, AtEndOf(t), id, G[id])
  <2>1. TAKE id \in DOMAIN G
  <2>2. CASE id = e.id
    BY <2>2, <1>3, <1>4
  <2>3. CASE id # e.id
    <3>1. id \in DOMAIN H /\ G[id] = H[id] /\ id \in Nat
      BY <2>3, <1>4, <1>6
    <3> QED BY <3>1, <2>3, <1>3 DEF TallyOf
  <2> QED BY <2>2, <2>3
<1>9. TallyOf(G, t)
  BY <1>5, <1>6, <1>7, <1>8 DEF TallyOf
<1> QED BY <1>1, <1>9

(* What an f takes off.                                                    *)
LEMMA TallyRemove ==
  ASSUME NEW s \in Trace, NEW e \in Request, e.cmd = "f", NEW H, TallyOf(H, s), NEW G,
         G = [i \in DOMAIN H \ {e.id} |-> H[i]]
  PROVE  TallyOf(G, Append(s, e))
<1>1. PICK t : t = Append(s, e)
  OBVIOUS
<1>2. AtEndOf(t) = Len(s) + 2 /\ AtEndOf(s) = Len(s) + 1
  BY <1>1, AppendAgrees DEF AtEndOf
<1>3. \A id \in Nat : \A c : Entered(t, AtEndOf(t), id, c) <=>
        id # e.id /\ Entered(s, AtEndOf(s), id, c)
  <2>1. TAKE id \in Nat
  <2>2. TAKE c
  <2> QED BY <1>1, <1>2, EnteredAppend
<1>4. DOMAIN G = DOMAIN H \ {e.id}
  OBVIOUS
<1>5. G = [i \in DOMAIN G |-> G[i]]
  OBVIOUS
<1>6. IsFiniteSet(DOMAIN G) /\ DOMAIN G \subseteq Nat
  BY <1>4, FS_RemoveElement DEF TallyOf
<1>7. \A id \in Nat : Outstanding(t, AtEndOf(t), id) => id \in DOMAIN G
  BY <1>3, <1>4 DEF TallyOf, Outstanding
<1>8. \A id \in DOMAIN G : Entered(t, AtEndOf(t), id, G[id])
  BY <1>3, <1>4, <1>6 DEF TallyOf
<1>9. TallyOf(G, t)
  BY <1>5, <1>6, <1>7, <1>8 DEF TallyOf
<1> QED BY <1>1, <1>9

(* An r changes nothing.                                                   *)
LEMMA TallyKeep ==
  ASSUME NEW s \in Trace, NEW e \in Request, e.cmd = "r", NEW H, TallyOf(H, s)
  PROVE  TallyOf(H, Append(s, e))
<1>1. PICK t : t = Append(s, e)
  OBVIOUS
<1>2. AtEndOf(t) = Len(s) + 2 /\ AtEndOf(s) = Len(s) + 1
  BY <1>1, AppendAgrees DEF AtEndOf
<1>3. \A id \in Nat : \A c : Entered(t, AtEndOf(t), id, c) <=> Entered(s, AtEndOf(s), id, c)
  <2>1. TAKE id \in Nat
  <2>2. TAKE c
  <2> QED BY <1>1, <1>2, EnteredAppend
<1>4. TallyOf(H, t)
  BY <1>3 DEF TallyOf, Outstanding
<1> QED BY <1>1, <1>4

(* In the tally means outstanding, under the command it is entered with.   *)
LEMMA TallyReads ==
  ASSUME NEW H, NEW s, Len(s) \in Nat, TallyOf(H, s), NEW id \in Nat
  PROVE  /\ id \in DOMAIN H <=> Outstanding(s, AtEndOf(s), id)
         /\ id \in DOMAIN H => /\ H[id] \in {"a", "x"}
                               /\ H[id] = "a" <=> Entered(s, AtEndOf(s), id, "a")
<1>1. \A c : Entered(s, AtEndOf(s), id, c) => c \in {"a", "x"}
  BY DEF Entered
<1>2. AtEndOf(s) \in Nat
  BY DEF AtEndOf
<1> QED BY <1>1, <1>2, EnteredOnce DEF TallyOf, Outstanding

-----------------------------------------------------------------------------
(* R lists the elements of S, each once.                                   *)
Lists(R, S) ==
    /\ R \in Seq(S)
    /\ \A i, j \in 1 .. Len(R) : R[i] = R[j] => i = j
    /\ \A x \in S : \E i \in 1 .. Len(R) : R[i] = x

(* SetToSeq does, for a finite set.                                        *)
LEMMA SetToSeqLists ==
  ASSUME NEW S, IsFiniteSet(S)
  PROVE  Lists(SetToSeq(S), S)
<1>1. PICK n : n = Cardinality(S)
  OBVIOUS
<1>2. n \in Nat /\ ExistsBijection(1 .. n, S)
  BY <1>1, FS_CardinalityType
<1>3. \E f \in [1 .. n -> S] : IsInjective(f)
  BY <1>2 DEF ExistsBijection, Bijection, Injection, IsInjective
<1>4. PICK R : R = SetToSeq(S)
  OBVIOUS
<1>5. R \in [1 .. n -> S] /\ IsInjective(R)
  BY <1>1, <1>3, <1>4 DEF SetToSeq
<1>6. R \in Seq(S) /\ Len(R) = n
  BY <1>2, <1>5
<1>7. \A i, j \in 1 .. n : R[i] = R[j] => i = j
  BY <1>5 DEF IsInjective
<1>8. R \in Surjection(1 .. n, S)
  <2>1. R \in Injection(1 .. n, S)
    BY <1>5 DEF Injection
  <2>2. Cardinality(1 .. n) = n
    BY <1>2, FS_Interval
  <2> QED BY <1>1, <2>1, <2>2, FS_Injection
<1>9. \A x \in S : \E i \in 1 .. n : R[i] = x
  BY <1>8 DEF Surjection
<1> QED BY <1>4, <1>6, <1>7, <1>9 DEF Lists

Frees(R) == [j \in DOMAIN R |-> FreeOf(R[j])]

(* A list of frees.                                                        *)
LEMMA FreesType ==
  ASSUME NEW R \in Seq(Nat)
  PROVE  /\ Frees(R) \in Trace /\ Len(Frees(R)) = Len(R) /\ Len(R) \in Nat
         /\ \A j \in 1 .. Len(R) : Frees(R)[j] = FreeOf(R[j])
<1>1. Len(R) \in Nat /\ DOMAIN R = 1 .. Len(R) /\ \A j \in 1 .. Len(R) : R[j] \in Nat
  BY LenProperties, ElementOfSeq
<1>2. \A j \in 1 .. Len(R) : FreeOf(R[j]) \in Request
  BY <1>1 DEF FreeOf, Request, Commands
<1> QED BY <1>1, <1>2 DEF Frees, Trace

(* With the outstanding ids freed a trace is accepted and settled.         *)
LEMMA FreesSettle ==
  ASSUME NEW s \in Trace, NEW H, TallyOf(H, s), Accepted(s), NEW R, Lists(R, DOMAIN H), NEW b,
         b = s \o Frees(R)
  PROVE  /\ b \in Trace /\ Accepted(b) /\ Settled(b)
         /\ Len(s) \in Nat /\ Len(R) \in Nat
         /\ Len(b) = Len(s) + Len(R) /\ Agree(s, b, Len(s))
         /\ \A k \in Len(s) + 1 .. Len(b) : b[k].cmd = "f"
<1>1. R \in Seq(Nat)
  BY SeqMonotonic DEF Lists, TallyOf
<1>2. PICK n, m : n = Len(s) /\ m = Len(R)
  OBVIOUS
<1>3. n \in Nat /\ m \in Nat /\ DOMAIN s = 1 .. n /\ (\A j \in 1 .. m : R[j] \in Nat)
  BY <1>1, <1>2, LenProperties, ElementOfSeq DEF Trace
<1>e. PICK F : F = Frees(R)
  OBVIOUS
<1>f. /\ F \in Trace /\ Len(F) = m
      /\ \A j \in 1 .. m : F[j].cmd = "f" /\ F[j].id = R[j]
  <2>1. F \in Trace /\ Len(F) = m /\ \A j \in 1 .. m : F[j] = FreeOf(R[j])
    BY <1>1, <1>2, <1>e, FreesType
  <2> QED BY <2>1 DEF FreeOf
<1>4. b \in Trace /\ Len(b) = n + m /\ DOMAIN b = 1 .. n + m
  <2>1. b \in Trace /\ Len(b) = n + m
    BY <1>2, <1>e, <1>f, ConcatProperties DEF Trace
  <2> QED BY <2>1, LenProperties DEF Trace
<1>5. \A k \in 1 .. n + m : b[k] = IF k <= n THEN s[k] ELSE F[k - n]
  BY <1>2, <1>e, <1>f, ConcatProperties DEF Trace
<1>6. \A k \in 1 .. n : b[k] = s[k]
  BY <1>3, <1>5
<1>7. \A k \in n + 1 .. n + m : k - n \in 1 .. m /\ b[k].cmd = "f" /\ b[k].id = R[k - n]
  <2>1. TAKE k \in n + 1 .. n + m
  <2>2. k - n \in 1 .. m /\ k \in 1 .. n + m /\ ~(k <= n)
    BY <1>3
  <2> QED BY <1>f, <1>5, <2>2
<1>8. ASSUME NEW id, NEW c, NEW k \in n + 1 .. n + m, Entered(s, n + 1, id, c),
             \A j \in n + 1 .. k - 1 : b[j].id # id
      PROVE  Entered(b, k, id, c)
  <2>1. c \in {"a", "x"}
    BY <1>8 DEF Entered
  <2>2. (n + 1) - 1 = n
    BY <1>3
  <2>3. PICK i \in 1 .. n : /\ s[i].cmd = c /\ s[i].id = id
                            /\ \A j \in i + 1 .. n : s[j].id = id => s[j].cmd = "r"
    BY <1>8, <2>2 DEF Entered
  <2>4. i \in 1 .. k - 1
        /\ \A j \in i + 1 .. k - 1 : j \in n + 1 .. k - 1 \/ (j \in i + 1 .. n /\ j \in 1 .. n)
    BY <1>3
  <2>5. b[i] = s[i] /\ \A j \in i + 1 .. k - 1 : b[j].id = id => b[j].cmd = "r"
    BY <1>6, <1>8, <2>3, <2>4
  <2> QED BY <2>1, <2>3, <2>4, <2>5 DEF Entered
<1>9. Accepted(b)
  <2>1. SUFFICES ASSUME NEW k \in 1 .. n + m PROVE LinePasses(b, k)
    BY <1>4 DEF Accepted
  <2>2. CASE k \in 1 .. n
    <3>1. Agree(s, b, k) /\ k \in Nat \ {0}
      BY <1>3, <1>6, <2>2 DEF Agree
    <3> QED BY <1>3, <2>2, <3>1, PassesUpTo DEF Accepted
  <2>3. CASE k \in n + 1 .. n + m
    <3>1. PICK id : id = R[k - n]
      OBVIOUS
    <3>2. id \in Nat /\ id \in DOMAIN H
      BY <1>2, <1>3, <1>7, <2>3, <3>1, ElementOfSeq DEF Lists
    <3>3. \A j \in n + 1 .. k - 1 : j \in n + 1 .. n + m /\ j # k
      BY <1>3, <2>3
    <3>4. \A j \in n + 1 .. k - 1 : b[j].id # id
      <4>1. TAKE j \in n + 1 .. k - 1
      <4>0. j \in n + 1 .. n + m /\ j # k
        BY <3>3
      <4>2. j - n \in 1 .. m /\ k - n \in 1 .. m /\ b[j].id = R[j - n]
        BY <1>7, <2>3, <4>0
      <4>3. j - n # k - n
        BY <1>3, <2>3, <4>0
      <4> QED BY <1>2, <3>1, <4>2, <4>3 DEF Lists
    <3>5. Outstanding(s, n + 1, id)
      BY <1>2, <1>3, <3>2, TallyReads DEF AtEndOf
    <3>6. Outstanding(b, k, id)
      BY <1>8, <2>3, <3>4, <3>5 DEF Outstanding
    <3> QED BY <1>7, <2>3, <3>1, <3>6 DEF LinePasses
  <2> QED BY <1>3, <2>2, <2>3
<1>10. Settled(b)
  <2>1. SUFFICES ASSUME NEW id \in Nat, Outstanding(b, AtEndOf(b), id) PROVE FALSE
    BY DEF Settled
  <2>2. PICK c : Entered(b, AtEndOf(b), id, c)
    BY <2>1 DEF Outstanding
  <2>3. c \in {"a", "x"} /\ AtEndOf(b) - 1 = n + m
    BY <1>3, <1>4, <2>2 DEF Entered, AtEndOf
  <2>4. PICK i \in 1 .. n + m : /\ b[i].cmd = c /\ b[i].id = id
                                /\ \A j \in i + 1 .. n + m : b[j].id = id => b[j].cmd = "r"
    BY <2>2, <2>3 DEF Entered
  <2>5. i \in 1 .. n
    <3>1. i \in 1 .. n \/ i \in n + 1 .. n + m
      BY <1>3
    <3>2. b[i].cmd # "f"
      BY <2>3, <2>4
    <3> QED BY <1>7, <3>1, <3>2
  <2>6. \A j \in i + 1 .. n : j \in i + 1 .. n + m /\ j \in 1 .. n
    BY <1>3, <2>5
  <2>7. Entered(s, n + 1, id, c)
    <3>1. s[i].cmd = c /\ s[i].id = id /\ \A j \in i + 1 .. n : s[j].id = id => s[j].cmd = "r"
      BY <1>6, <2>4, <2>5, <2>6
    <3>2. (n + 1) - 1 = n
      BY <1>3
    <3> QED BY <2>3, <2>5, <3>1, <3>2 DEF Entered
  <2>8. id \in DOMAIN H
    BY <1>2, <2>3, <2>7 DEF TallyOf, Outstanding, AtEndOf
  <2>9. PICK j \in 1 .. m : R[j] = id
    BY <1>2, <2>8 DEF Lists
  <2>10. n + j \in n + 1 .. n + m /\ n + j \in i + 1 .. n + m /\ (n + j) - n = j
    BY <1>3, <2>5
  <2>11. b[n + j].id = id /\ b[n + j].cmd = "f"
    BY <1>7, <2>9, <2>10
  <2> QED BY <2>4, <2>10, <2>11
<1> QED BY <1>2, <1>3, <1>4, <1>6, <1>7, <1>9, <1>10 DEF Agree

-----------------------------------------------------------------------------
(* Each id is allocated at most once, and freed at most once, behind that; *)
(* what is reallocated has been allocated and is freed later, if at all.   *)
OnceEach(s) ==
    /\ s \in Trace /\ NoOther(s)
    /\ \A i, j \in 1 .. Len(s) : s[i] = s[j] /\ s[i].cmd # "r" => i = j
    /\ \A j \in 1 .. Len(s) : s[j].cmd # "a" => \E i \in 1 .. j - 1 : s[i] = Req("a", s[j].id)
    /\ \A i, j \in 1 .. Len(s) : s[i].cmd = "r" /\ s[j] = Req("f", s[i].id) => i < j

(* And freed it is.                                                        *)
AllFreed(s) ==
    \A i \in 1 .. Len(s) : s[i].cmd = "a" => \E j \in 1 .. Len(s) : s[j] = Req("f", s[i].id)

(* A request is its command and its id.                                    *)
LEMMA OnceEachTypes ==
  ASSUME NEW s, OnceEach(s)
  PROVE  /\ Len(s) \in Nat /\ DOMAIN s = 1 .. Len(s)
         /\ \A i \in 1 .. Len(s) : s[i].cmd \in {"a", "r", "f"} /\ s[i].id \in Nat
                                   /\ s[i] = Req(s[i].cmd, s[i].id)
<1>1. Len(s) \in Nat /\ DOMAIN s = 1 .. Len(s) /\ \A i \in 1 .. Len(s) : s[i] \in Request
  BY LenProperties, ElementOfSeq DEF OnceEach, Trace
<1>2. \A e \in Request : e.cmd \in {"a", "r", "f", "x"} /\ e.id \in Nat /\ e = Req(e.cmd, e.id)
  BY DEF Request, Commands, Req
<1> QED BY <1>1, <1>2 DEF OnceEach, NoOther

(* Such a trace is accepted.                                               *)
LEMMA OnceEachAccepted ==
  ASSUME NEW s, OnceEach(s)
  PROVE  Accepted(s)
<1>1. PICK n : n = Len(s)
  OBVIOUS
<1>2. n \in Nat /\ DOMAIN s = 1 .. n
      /\ \A i \in 1 .. n : s[i].cmd \in {"a", "r", "f"} /\ s[i].id \in Nat
                           /\ s[i] = Req(s[i].cmd, s[i].id)
  BY <1>1, OnceEachTypes
<1>3. SUFFICES ASSUME NEW k \in 1 .. n PROVE LinePasses(s, k)
  BY <1>2 DEF Accepted
<1>4. \A i \in 1 .. k - 1 : i \in 1 .. n /\ i # k
  BY <1>2
<1>5. ASSUME s[k].cmd = "a", Entered(s, k, s[k].id, "a") PROVE FALSE
  <2>1. PICK i \in 1 .. k - 1 : s[i].cmd = "a" /\ s[i].id = s[k].id
    BY <1>5 DEF Entered
  <2>2. s[i] = s[k]
    BY <1>2, <1>4, <1>5, <2>1
  <2> QED BY <1>1, <1>4, <1>5, <2>2 DEF OnceEach
<1>6. ASSUME s[k].cmd \in {"r", "f"} PROVE Entered(s, k, s[k].id, "a")
  <2>1. PICK i \in 1 .. k - 1 : s[i] = Req("a", s[k].id)
    BY <1>1, <1>6 DEF OnceEach
  <2>2. s[i].cmd = "a" /\ s[i].id = s[k].id
    BY <2>1 DEF Req
  <2>3. ASSUME NEW j \in i + 1 .. k - 1, s[j].id = s[k].id PROVE s[j].cmd = "r"
    <3>1. j \in 1 .. k - 1 /\ j \in 1 .. n /\ j # i /\ j # k /\ ~(k < j)
      BY <1>2
    <3>2. CASE s[j].cmd = "a"
      <4>1. s[j] = s[i]
        BY <1>2, <2>1, <2>3, <3>1, <3>2
      <4> QED BY <1>1, <1>4, <3>1, <3>2, <4>1 DEF OnceEach
    <3>3. CASE s[j].cmd = "f"
      <4>1. s[j] = Req("f", s[k].id)
        BY <1>2, <2>3, <3>1, <3>3
      <4>2. CASE s[k].cmd = "r"
        BY <1>1, <3>1, <4>1, <4>2 DEF OnceEach
      <4>3. CASE s[k].cmd = "f"
        <5>1. s[k] = s[j]
          BY <1>2, <4>1, <4>3
        <5> QED BY <1>1, <3>1, <3>3, <5>1 DEF OnceEach
      <4> QED BY <1>6, <4>2, <4>3
    <3> QED BY <1>2, <3>1, <3>2, <3>3
  <2> QED BY <2>2, <2>3 DEF Entered
<1> QED BY <1>5, <1>6 DEF LinePasses, Outstanding

(* With all freed nothing is left.                                         *)
LEMMA AllFreedSettled ==
  ASSUME NEW s, OnceEach(s), AllFreed(s)
  PROVE  Settled(s)
<1>1. PICK n : n = Len(s)
  OBVIOUS
<1>2. n \in Nat /\ DOMAIN s = 1 .. n
      /\ \A i \in 1 .. n : s[i].cmd \in {"a", "r", "f"} /\ s[i].id \in Nat
                           /\ s[i] = Req(s[i].cmd, s[i].id)
  BY <1>1, OnceEachTypes
<1>3. SUFFICES ASSUME NEW id, NEW c, Entered(s, AtEndOf(s), id, c) PROVE FALSE
  BY DEF Settled, Outstanding
<1>4. AtEndOf(s) - 1 = n /\ c \in {"a", "x"}
  BY <1>1, <1>2, <1>3 DEF AtEndOf, Entered
<1>5. PICK i \in 1 .. n : /\ s[i].cmd = c /\ s[i].id = id
                          /\ \A j \in i + 1 .. n : s[j].id = id => s[j].cmd = "r"
  BY <1>3, <1>4 DEF Entered
<1>6. s[i].cmd = "a" /\ s[i] = Req("a", id)
  BY <1>2, <1>4, <1>5
<1>7. PICK j \in 1 .. n : s[j] = Req("f", id)
  BY <1>1, <1>5, <1>6 DEF AllFreed
<1>8. s[j].cmd = "f" /\ s[j].id = id
  BY <1>7 DEF Req
<1>9. PICK l \in 1 .. j - 1 : s[l] = Req("a", id)
  BY <1>1, <1>8 DEF OnceEach
<1>10. l = i
  <2>1. l \in 1 .. n /\ s[l] = s[i]
    BY <1>2, <1>6, <1>9
  <2> QED BY <1>1, <1>6, <2>1 DEF OnceEach
<1>11. j \in i + 1 .. n
  BY <1>2, <1>9, <1>10
<1> QED BY <1>5, <1>8, <1>11

(* What a generator is to print for a header that counts blocks and        *)
(* requests.                                                               *)
Generates(s, blocks, n) ==
    /\ OnceEach(s) /\ Len(s) = n
    /\ \A k \in 1 .. Len(s) : s[k].id < blocks
    /\ \E k \in 1 .. Len(s) : s[k].cmd = "a" /\ s[k].id = blocks - 1

(* r is s, t and u one after another.                                      *)
Joined(r, s, t, u) ==
    /\ r \in Trace /\ Len(r) = Len(s) + Len(t) + Len(u)
    /\ \A k \in 1 .. Len(s) : r[k] = s[k]
    /\ \A k \in Len(s) + 1 .. Len(s) + Len(t) : r[k] = t[k - Len(s)]
    /\ \A k \in Len(s) + Len(t) + 1 .. Len(s) + Len(t) + Len(u) :
          r[k] = u[k - (Len(s) + Len(t))]

(* Concatenation does that.                                                *)
LEMMA ThreeParts ==
  ASSUME NEW s \in Trace, NEW t \in Trace, NEW u \in Trace
  PROVE  Joined(s \o t \o u, s, t, u)
<1>0. PICK l, m, n, r : l = Len(s) /\ m = Len(t) /\ n = Len(u) /\ r = s \o t \o u
  OBVIOUS
<1>l. l \in Nat /\ m \in Nat /\ n \in Nat
  BY <1>0, LenProperties DEF Trace
<1>1. PICK v : v = s \o t
  OBVIOUS
<1>2. v \in Trace /\ Len(v) = l + m
      /\ \A k \in 1 .. l + m : v[k] = IF k <= l THEN s[k] ELSE t[k - l]
  BY <1>0, <1>1, ConcatProperties DEF Trace
<1>3. PICK a \in Nat : a = l + m
  BY <1>l
<1>4. r \in Trace /\ Len(r) = a + n
      /\ \A k \in 1 .. a + n : r[k] = IF k <= a THEN v[k] ELSE u[k - a]
  <2>1. r = v \o u /\ Len(v) = a
    BY <1>0, <1>1, <1>2, <1>3
  <2>2. /\ v \o u \in Trace /\ Len(v \o u) = Len(v) + Len(u)
        /\ \A k \in 1 .. Len(v) + Len(u) : (v \o u)[k] = IF k <= Len(v) THEN v[k] ELSE u[k - Len(v)]
    <3>1. v \in Trace
      BY <1>2
    <3> QED BY <3>1, ConcatProperties DEF Trace
  <2> QED BY <1>0, <2>1, <2>2
<1>5. /\ r \in Trace /\ Len(r) = l + m + n
      /\ \A k \in 1 .. l : r[k] = s[k]
      /\ \A k \in l + 1 .. l + m : r[k] = t[k - l]
      /\ \A k \in l + m + 1 .. l + m + n : r[k] = u[k - (l + m)]
  BY <1>l, <1>2, <1>3, <1>4
<1> QED BY <1>0, <1>5 DEF Joined

(* A request, and its parts.                                               *)
LEMMA ReqType ==
  ASSUME NEW c \in Commands, NEW id \in Nat
  PROVE  Req(c, id) \in Request /\ Req(c, id).cmd = c /\ Req(c, id).id = id
BY DEF Req, Request

(* gen_binary.pl.                                                          *)
LEMMA BinaryGenerates ==
  ASSUME NEW n \in Nat \ {0}
  PROVE  Generates(gen_binary(n), 3 * n, 4 * n)
<1>1. PICK s, t, u, r : /\ s = [j \in 1 .. 2 * n |-> Req("a", j - 1)]
                        /\ t = [j \in 1 .. n |-> Req("f", 2 * j - 1)]
                        /\ u = [j \in 1 .. n |-> Req("a", 2 * n + j - 1)]
                        /\ r = gen_binary(n)
  OBVIOUS
<1>2. /\ \A j \in 1 .. 2 * n : Req("a", j - 1) \in Request
      /\ \A j \in 1 .. n : Req("f", 2 * j - 1) \in Request
      /\ \A j \in 1 .. n : Req("a", 2 * n + j - 1) \in Request
  BY ReqType DEF Commands
<1>3. s \in Trace /\ t \in Trace /\ u \in Trace /\ Len(s) = 2 * n /\ Len(t) = n /\ Len(u) = n
  BY <1>1, <1>2 DEF Trace
<1>4. r = s \o t \o u
  BY <1>1 DEF gen_binary
<1>5. /\ r \in Trace /\ Len(r) = 2 * n + n + n
      /\ \A k \in 1 .. 2 * n : r[k] = s[k]
      /\ \A k \in 2 * n + 1 .. 2 * n + n : r[k] = t[k - 2 * n]
      /\ \A k \in 2 * n + n + 1 .. 2 * n + n + n : r[k] = u[k - (2 * n + n)]
  <2>1. Joined(r, s, t, u)
    BY <1>3, <1>4, ThreeParts
  <2> QED BY <2>1, <1>3 DEF Joined
<1>6. /\ \A k \in 1 .. 2 * n : r[k] = Req("a", k - 1)
      /\ \A k \in 2 * n + 1 .. 3 * n : r[k] = Req("f", 2 * (k - 2 * n) - 1)
      /\ \A k \in 3 * n + 1 .. 4 * n : r[k] = Req("a", k - n - 1)
  <2>1. \A k \in 2 * n + 1 .. 3 * n : k - 2 * n \in 1 .. n /\ k \in 2 * n + 1 .. 2 * n + n
    OBVIOUS
  <2>2. \A k \in 3 * n + 1 .. 4 * n : k - (2 * n + n) \in 1 .. n /\ k \in 2 * n + n + 1 .. 2 * n + n + n
                                      /\ 2 * n + (k - (2 * n + n)) - 1 = k - n - 1
    OBVIOUS
  <2> QED BY <1>1, <1>5, <2>1, <2>2
<1>7. DOMAIN r = 1 .. 4 * n /\ Len(r) = 4 * n
  BY <1>5, LenProperties DEF Trace
<1>8. \A k \in 1 .. 4 * n :
         \/ k \in 1 .. 2 * n /\ r[k].cmd = "a" /\ r[k].id = k - 1
         \/ k \in 2 * n + 1 .. 3 * n /\ r[k].cmd = "f" /\ r[k].id = 2 * (k - 2 * n) - 1
         \/ k \in 3 * n + 1 .. 4 * n /\ r[k].cmd = "a" /\ r[k].id = k - n - 1
  <2>1. TAKE k \in 1 .. 4 * n
  <2>2. k \in 1 .. 2 * n \/ k \in 2 * n + 1 .. 3 * n \/ k \in 3 * n + 1 .. 4 * n
    OBVIOUS
  <2>3. CASE k \in 1 .. 2 * n
    <3>1. r[k] = Req("a", k - 1)
      BY <1>6, <2>3
    <3>2. r[k].cmd = "a" /\ r[k].id = k - 1
      BY <3>1 DEF Req
    <3> QED BY <2>3, <3>2
  <2>4. CASE k \in 2 * n + 1 .. 3 * n
    <3>1. r[k] = Req("f", 2 * (k - 2 * n) - 1)
      BY <1>6, <2>4
    <3>2. r[k].cmd = "f" /\ r[k].id = 2 * (k - 2 * n) - 1
      BY <3>1 DEF Req
    <3> QED BY <2>4, <3>2
  <2>5. CASE k \in 3 * n + 1 .. 4 * n
    <3>1. r[k] = Req("a", k - n - 1)
      BY <1>6, <2>5
    <3>2. r[k].cmd = "a" /\ r[k].id = k - n - 1
      BY <3>1 DEF Req
    <3> QED BY <2>5, <3>2
  <2> QED BY <2>2, <2>3, <2>4, <2>5
<1>9. NoOther(r)
  BY <1>7, <1>8 DEF NoOther
<1>10. ASSUME NEW i \in 1 .. 4 * n, NEW j \in 1 .. 4 * n, r[i] = r[j] PROVE i = j
  <2>1. r[i].cmd = r[j].cmd /\ r[i].id = r[j].id
    BY <1>10
  <2> QED BY <1>8, <2>1
<1>11. ASSUME NEW j \in 1 .. 4 * n, r[j].cmd # "a" PROVE \E i \in 1 .. j - 1 : r[i] = Req("a", r[j].id)
  <2>1. j \in 2 * n + 1 .. 3 * n /\ r[j].id = 2 * (j - 2 * n) - 1
    BY <1>8, <1>11
  <2>2. 2 * (j - 2 * n) \in 1 .. 2 * n /\ 2 * (j - 2 * n) \in 1 .. j - 1
    BY <2>1
  <2> QED BY <1>6, <2>1, <2>2
<1>12. \A i \in 1 .. 4 * n : r[i].cmd # "r" /\ r[i].id < 3 * n
  <2>1. TAKE i \in 1 .. 4 * n
  <2> QED BY <1>8
<1>13. r[4 * n].cmd = "a" /\ r[4 * n].id = 3 * n - 1 /\ 4 * n \in 1 .. 4 * n
  <2>1. 4 * n \in 1 .. 4 * n /\ 4 * n \in 3 * n + 1 .. 4 * n /\ (4 * n) - n - 1 = 3 * n - 1
    OBVIOUS
  <2>2. r[4 * n] = Req("a", 3 * n - 1)
    BY <1>6, <2>1
  <2> QED BY <2>1, <2>2 DEF Req
<1> QED BY <1>1, <1>5, <1>7, <1>9, <1>10, <1>11, <1>12, <1>13 DEF Generates, OnceEach

(* gen_coalescing.pl: line 6 * q + l + 1 is the l-th of round q.           *)
LEMMA CoalescingGenerates ==
  ASSUME NEW n \in Nat \ {0}
  PROVE  Generates(gen_coalescing(n), 3 * n, 6 * n) /\ AllFreed(gen_coalescing(n))
<1>1. PICK r : r = gen_coalescing(n)
  OBVIOUS
<1>2. ASSUME NEW k \in 1 .. 6 * n
      PROVE  \E q \in 0 .. n - 1, l \in 0 .. 5 : k = 6 * q + l + 1
                                                 /\ q = (k - 1) \div 6 /\ l = (k - 1) % 6
  <2>1. (k - 1) \div 6 \in 0 .. n - 1 /\ (k - 1) % 6 \in 0 .. 5
        /\ k = 6 * ((k - 1) \div 6) + ((k - 1) % 6) + 1
    OBVIOUS
  <2> QED BY <2>1
<1> DEFINE Line(q, l) == <<Req("a", 3 * q), Req("a", 3 * q + 1), Req("f", 3 * q), Req("f", 3 * q + 1),
                           Req("a", 3 * q + 2), Req("f", 3 * q + 2)>>[l + 1]
<1>3. r = [j \in 1 .. 6 * n |-> Line((j - 1) \div 6, (j - 1) % 6)]
  BY <1>1 DEF gen_coalescing
<1>4. ASSUME NEW q \in 0 .. n - 1
      PROVE  /\ Line(q, 0) = Req("a", 3 * q) /\ Line(q, 1) = Req("a", 3 * q + 1)
             /\ Line(q, 2) = Req("f", 3 * q) /\ Line(q, 3) = Req("f", 3 * q + 1)
             /\ Line(q, 4) = Req("a", 3 * q + 2) /\ Line(q, 5) = Req("f", 3 * q + 2)
  OBVIOUS
<1> HIDE DEF Line
<1>5. ASSUME NEW q \in 0 .. n - 1, NEW l \in 0 .. 5
      PROVE  /\ Line(q, l).cmd = (IF l \in {0, 1, 4} THEN "a" ELSE "f")
             /\ Line(q, l).id = 3 * q + (IF l \in {0, 2} THEN 0 ELSE IF l \in {1, 3} THEN 1 ELSE 2)
             /\ Line(q, l) \in Request
  <2>1. 3 * q \in Nat /\ 3 * q + 1 \in Nat /\ 3 * q + 2 \in Nat
    OBVIOUS
  <2>2. l \in {0, 1, 2, 3, 4, 5}
    OBVIOUS
  <2> QED BY <1>4, <2>1, <2>2 DEF Req, Request, Commands
<1>6. r \in Trace /\ Len(r) = 6 * n /\ DOMAIN r = 1 .. 6 * n
  <2>1. \A k \in 1 .. 6 * n : Line((k - 1) \div 6, (k - 1) % 6) \in Request
    BY <1>2, <1>5
  <2> QED BY <1>3, <2>1 DEF Trace
<1>7. ASSUME NEW k \in 1 .. 6 * n
      PROVE  \E q \in 0 .. n - 1, l \in 0 .. 5 : k = 6 * q + l + 1 /\ r[k] = Line(q, l)
  BY <1>2, <1>3
<1>8. ASSUME NEW q \in 0 .. n - 1, NEW l \in 0 .. 5
      PROVE  6 * q + l + 1 \in 1 .. 6 * n /\ r[6 * q + l + 1] = Line(q, l)
  <2>1. PICK k : k = 6 * q + l + 1
    OBVIOUS
  <2>2. k \in 1 .. 6 * n /\ (k - 1) \div 6 = q /\ (k - 1) % 6 = l
    BY <2>1
  <2> QED BY <1>3, <2>1, <2>2
<1>9. NoOther(r) /\ \A k \in 1 .. 6 * n : r[k].cmd # "r" /\ r[k].id < 3 * n
  <2>1. ASSUME NEW k \in 1 .. 6 * n PROVE r[k].cmd \in {"a", "f"} /\ r[k].id < 3 * n
    <3>1. PICK q \in 0 .. n - 1, l \in 0 .. 5 : r[k] = Line(q, l)
      BY <1>7
    <3> QED BY <1>5, <3>1
  <2> QED BY <1>6, <2>1 DEF NoOther
<1>10. ASSUME NEW i \in 1 .. 6 * n, NEW j \in 1 .. 6 * n, r[i] = r[j] PROVE i = j
  <2>1. PICK q \in 0 .. n - 1, l \in 0 .. 5 : i = 6 * q + l + 1 /\ r[i] = Line(q, l)
    BY <1>7
  <2>2. PICK p \in 0 .. n - 1, m \in 0 .. 5 : j = 6 * p + m + 1 /\ r[j] = Line(p, m)
    BY <1>7
  <2>3. Line(q, l).cmd = Line(p, m).cmd /\ Line(q, l).id = Line(p, m).id
    BY <1>10, <2>1, <2>2
  <2>4. q = p /\ l = m
    BY <1>5, <2>3
  <2> QED BY <2>1, <2>2, <2>4
<1>11. ASSUME NEW j \in 1 .. 6 * n, r[j].cmd # "a" PROVE \E i \in 1 .. j - 1 : r[i] = Req("a", r[j].id)
  <2>1. PICK q \in 0 .. n - 1, l \in 0 .. 5 : j = 6 * q + l + 1 /\ r[j] = Line(q, l)
    BY <1>7
  <2>2. l \in {2, 3, 5}
    BY <1>5, <1>11, <2>1
  <2>3. CASE l = 2
    <3>1. 6 * q + 0 + 1 \in 1 .. j - 1 /\ r[6 * q + 0 + 1] = Line(q, 0) /\ r[j].id = 3 * q
      BY <1>5, <1>8, <2>1, <2>3
    <3> QED BY <1>4, <3>1
  <2>4. CASE l = 3
    <3>1. 6 * q + 1 + 1 \in 1 .. j - 1 /\ r[6 * q + 1 + 1] = Line(q, 1) /\ r[j].id = 3 * q + 1
      BY <1>5, <1>8, <2>1, <2>4
    <3> QED BY <1>4, <3>1
  <2>5. CASE l = 5
    <3>1. 6 * q + 4 + 1 \in 1 .. j - 1 /\ r[6 * q + 4 + 1] = Line(q, 4) /\ r[j].id = 3 * q + 2
      BY <1>5, <1>8, <2>1, <2>5
    <3> QED BY <1>4, <3>1
  <2> QED BY <2>2, <2>3, <2>4, <2>5
<1>12. ASSUME NEW j \in 1 .. 6 * n, r[j].cmd = "a" PROVE \E i \in 1 .. 6 * n : r[i] = Req("f", r[j].id)
  <2>1. PICK q \in 0 .. n - 1, l \in 0 .. 5 : j = 6 * q + l + 1 /\ r[j] = Line(q, l)
    BY <1>7
  <2>2. l \in {0, 1, 4}
    BY <1>5, <1>12, <2>1
  <2>3. CASE l = 0
    <3>1. 6 * q + 2 + 1 \in 1 .. 6 * n /\ r[6 * q + 2 + 1] = Line(q, 2) /\ r[j].id = 3 * q
      BY <1>5, <1>8, <2>1, <2>3
    <3> QED BY <1>4, <3>1
  <2>4. CASE l = 1
    <3>1. 6 * q + 3 + 1 \in 1 .. 6 * n /\ r[6 * q + 3 + 1] = Line(q, 3) /\ r[j].id = 3 * q + 1
      BY <1>5, <1>8, <2>1, <2>4
    <3> QED BY <1>4, <3>1
  <2>5. CASE l = 4
    <3>1. 6 * q + 5 + 1 \in 1 .. 6 * n /\ r[6 * q + 5 + 1] = Line(q, 5) /\ r[j].id = 3 * q + 2
      BY <1>5, <1>8, <2>1, <2>5
    <3> QED BY <1>4, <3>1
  <2> QED BY <2>2, <2>3, <2>4, <2>5
<1>13. \E k \in 1 .. 6 * n : r[k].cmd = "a" /\ r[k].id = 3 * n - 1
  <2>1. PICK q \in 0 .. n - 1 : q = n - 1
    OBVIOUS
  <2>2. 6 * q + 4 + 1 \in 1 .. 6 * n /\ r[6 * q + 4 + 1] = Line(q, 4)
    BY <1>8
  <2>3. Line(q, 4).cmd = "a" /\ Line(q, 4).id = 3 * n - 1
    BY <1>5, <2>1
  <2> QED BY <2>2, <2>3
<1> QED BY <1>1, <1>6, <1>9, <1>10, <1>11, <1>12, <1>13 DEF Generates, OnceEach, AllFreed

(* gen_realloc.pl: line 3 * q + l + 3 is the l-th of round q.              *)
LEMMA ReallocGenerates ==
  ASSUME NEW n \in Nat \ {0}
  PROVE  Generates(gen_realloc(n), n + 1, 3 * n + 1) /\ AllFreed(gen_realloc(n))
<1> DEFINE Line(q, l) == <<Req("r", 0), Req("a", 2 + q), Req("f", (2 + q) - 1)>>[l + 1]
<1>1. PICK s, t, u, r, m : /\ m = 3 * (n - 1)
                           /\ s = <<Req("a", 0), Req("a", 1)>>
                           /\ t = [j \in 1 .. m |-> Line((j - 1) \div 3, (j - 1) % 3)]
                           /\ u = <<Req("f", n), Req("f", 0)>>
                           /\ r = gen_realloc(n)
  OBVIOUS
<1>2. m \in Nat /\ m + 4 = 3 * n + 1
  BY <1>1
<1>3. ASSUME NEW j \in 1 .. m
      PROVE  \E q \in 0 .. n - 2, l \in 0 .. 2 : j = 3 * q + l + 1
                                                 /\ q = (j - 1) \div 3 /\ l = (j - 1) % 3
  <2>1. (j - 1) \div 3 \in 0 .. n - 2 /\ (j - 1) % 3 \in 0 .. 2
        /\ j = 3 * ((j - 1) \div 3) + ((j - 1) % 3) + 1
    BY <1>1
  <2> QED BY <2>1
<1>4. r = s \o t \o u
  BY <1>1 DEF gen_realloc
<1>5. ASSUME NEW q \in 0 .. n - 2
      PROVE  Line(q, 0) = Req("r", 0) /\ Line(q, 1) = Req("a", 2 + q) /\ Line(q, 2) = Req("f", 1 + q)
  OBVIOUS
<1> HIDE DEF Line
<1>6. ASSUME NEW q \in 0 .. n - 2, NEW l \in 0 .. 2 PROVE Line(q, l) \in Request
  <2>1. 2 + q \in Nat /\ 1 + q \in Nat /\ l \in {0, 1, 2} /\ 0 \in Nat
    OBVIOUS
  <2>2. /\ Req("r", 0) \in Request /\ Req("a", 2 + q) \in Request /\ Req("f", 1 + q) \in Request
    BY <2>1, ReqType DEF Commands
  <2> QED BY <1>5, <2>1, <2>2
<1>7. s \in Trace /\ Len(s) = 2 /\ t \in Trace /\ Len(t) = m /\ u \in Trace /\ Len(u) = 2
  <2>1. Req("a", 0) \in Request /\ Req("a", 1) \in Request /\ Req("f", n) \in Request
        /\ Req("f", 0) \in Request
    BY ReqType DEF Commands
  <2>2. \A j \in 1 .. m : Line((j - 1) \div 3, (j - 1) % 3) \in Request
    BY <1>3, <1>6
  <2> QED BY <1>1, <1>2, <2>1, <2>2 DEF Trace
<1>8. Joined(r, s, t, u)
  BY <1>4, <1>7, ThreeParts
<1>9. r \in Trace /\ Len(r) = 3 * n + 1 /\ DOMAIN r = 1 .. 3 * n + 1
  <2>1. r \in Trace /\ Len(r) = 3 * n + 1
    BY <1>2, <1>7, <1>8 DEF Joined
  <2> QED BY <2>1, LenProperties DEF Trace
<1>10. r[1] = Req("a", 0) /\ r[2] = Req("a", 1) /\ r[3 * n] = Req("f", n) /\ r[3 * n + 1] = Req("f", 0)
  <2>1. r[1] = s[1] /\ r[2] = s[2]
    BY <1>7, <1>8 DEF Joined
  <2>2. /\ \A k \in 2 + m + 1 .. 2 + m + 2 : r[k] = u[k - (2 + m)]
    BY <1>7, <1>8 DEF Joined
  <2>3. /\ 3 * n \in 2 + m + 1 .. 2 + m + 2 /\ 3 * n - (2 + m) = 1
        /\ 3 * n + 1 \in 2 + m + 1 .. 2 + m + 2 /\ (3 * n + 1) - (2 + m) = 2
    BY <1>2
  <2>4. r[3 * n] = u[1] /\ r[3 * n + 1] = u[2]
    BY <2>2, <2>3
  <2> QED BY <1>1, <2>1, <2>4
<1>11. ASSUME NEW q \in 0 .. n - 2, NEW l \in 0 .. 2
       PROVE  3 * q + l + 3 \in 3 .. 3 * n - 1 /\ r[3 * q + l + 3] = Line(q, l)
  <2>1. PICK j : j = 3 * q + l + 1
    OBVIOUS
  <2>2. j \in 1 .. m /\ (j - 1) \div 3 = q /\ (j - 1) % 3 = l /\ j + 2 \in 2 + 1 .. 2 + m
        /\ (j + 2) - 2 = j /\ j + 2 = 3 * q + l + 3 /\ 3 * q + l + 3 \in 3 .. 3 * n - 1
    <3>1. j - 1 = 3 * q + l /\ j \in Int
      BY <2>1
    <3>2. (j - 1) \div 3 = q /\ (j - 1) % 3 = l
      BY <3>1
    <3>3. 3 * q + l + 1 \in 1 .. m /\ 3 * q + l + 3 \in 3 .. 3 * n - 1
      BY <1>1
    <3>4. j \in 1 .. m
      BY <2>1, <3>3
    <3>5. j + 2 \in 2 + 1 .. 2 + m /\ (j + 2) - 2 = j /\ j + 2 = 3 * q + l + 3
      BY <1>2, <2>1, <3>4
    <3> QED BY <3>2, <3>3, <3>4, <3>5
  <2>3. \A k \in 2 + 1 .. 2 + m : r[k] = t[k - 2]
    BY <1>7, <1>8 DEF Joined
  <2>4. r[j + 2] = t[j] /\ t[j] = Line(q, l)
    BY <1>1, <2>2, <2>3
  <2> QED BY <2>2, <2>4
<1>12. ASSUME NEW k \in 1 .. 3 * n + 1
       PROVE  k \in {1, 2, 3 * n, 3 * n + 1} \/ \E q \in 0 .. n - 2, l \in 0 .. 2 : k = 3 * q + l + 3
  <2>1. k \in {1, 2, 3 * n, 3 * n + 1} \/ k - 2 \in 1 .. m
    BY <1>2
  <2>2. ASSUME k - 2 \in 1 .. m PROVE \E q \in 0 .. n - 2, l \in 0 .. 2 : k = 3 * q + l + 3
    <3>1. PICK q \in 0 .. n - 2, l \in 0 .. 2 : k - 2 = 3 * q + l + 1
      BY <1>3, <2>2
    <3> QED BY <3>1
  <2> QED BY <2>1, <2>2
<1>13. ASSUME NEW k \in 1 .. 3 * n + 1
       PROVE  \/ k \in {1, 2} /\ r[k].cmd = "a" /\ r[k].id = k - 1
              \/ k = 3 * n /\ r[k].cmd = "f" /\ r[k].id = n
              \/ k = 3 * n + 1 /\ r[k].cmd = "f" /\ r[k].id = 0
              \/ \E q \in 0 .. n - 2 : k = 3 * q + 3 /\ r[k].cmd = "r" /\ r[k].id = 0
              \/ \E q \in 0 .. n - 2 : k = 3 * q + 4 /\ r[k].cmd = "a" /\ r[k].id = q + 2
              \/ \E q \in 0 .. n - 2 : k = 3 * q + 5 /\ r[k].cmd = "f" /\ r[k].id = q + 1
  <2>1. CASE k \in {1, 2, 3 * n, 3 * n + 1}
    BY <1>10, <2>1 DEF Req
  <2>2. CASE \E q \in 0 .. n - 2, l \in 0 .. 2 : k = 3 * q + l + 3
    <3>1. PICK q \in 0 .. n - 2, l \in 0 .. 2 : k = 3 * q + l + 3
      BY <2>2
    <3>2. r[k] = Line(q, l) /\ l \in {0, 1, 2}
      BY <1>11, <3>1
    <3>3. CASE l = 0
      <4>1. r[k] = Req("r", 0) /\ k = 3 * q + 3
        BY <1>5, <3>1, <3>2, <3>3
      <4> QED BY <4>1 DEF Req
    <3>4. CASE l = 1
      <4>1. r[k] = Req("a", 2 + q) /\ k = 3 * q + 4 /\ 2 + q = q + 2
        BY <1>5, <3>1, <3>2, <3>4
      <4> QED BY <4>1 DEF Req
    <3>5. CASE l = 2
      <4>1. r[k] = Req("f", 1 + q) /\ k = 3 * q + 5 /\ 1 + q = q + 1
        BY <1>5, <3>1, <3>2, <3>5
      <4> QED BY <4>1 DEF Req
    <3> QED BY <3>2, <3>3, <3>4, <3>5
  <2> QED BY <1>12, <2>1, <2>2
<1>14. ASSUME NEW id \in 0 .. n
       PROVE  \E i \in 1 .. 3 * n + 1 : r[i] = Req("a", id)
                                        /\ (id \in {0, 1} => i = id + 1) /\ (id >= 2 => i = 3 * id - 2)
  <2>1. CASE id = 0
    BY <1>10, <2>1
  <2>2. CASE id = 1
    BY <1>10, <2>2
  <2>3. CASE id >= 2
    <3>1. PICK q : q = id - 2
      OBVIOUS
    <3>2. q \in 0 .. n - 2 /\ 3 * q + 1 + 3 \in 1 .. 3 * n + 1 /\ 3 * q + 1 + 3 = 3 * id - 2 /\ 2 + q = id
      BY <2>3, <3>1
    <3>3. r[3 * q + 1 + 3] = Line(q, 1)
      BY <1>11, <3>2
    <3>4. Line(q, 1) = Req("a", 2 + q)
      BY <1>5, <3>2
    <3> QED BY <2>3, <3>2, <3>3, <3>4
  <2> QED BY <2>1, <2>2, <2>3
<1>15. ASSUME NEW id \in 0 .. n
       PROVE  \E i \in 1 .. 3 * n + 1 : r[i] = Req("f", id)
  <2>1. CASE id = 0
    BY <1>10, <2>1
  <2>2. CASE id = n
    BY <1>10, <2>2
  <2>3. CASE id # 0 /\ id # n
    <3>1. PICK q : q = id - 1
      OBVIOUS
    <3>2. q \in 0 .. n - 2 /\ 3 * q + 2 + 3 \in 1 .. 3 * n + 1 /\ 1 + q = id
      BY <2>3, <3>1
    <3>3. r[3 * q + 2 + 3] = Line(q, 2)
      BY <1>11, <3>2
    <3>4. Line(q, 2) = Req("f", 1 + q)
      BY <1>5, <3>2
    <3> QED BY <3>2, <3>3, <3>4
  <2> QED BY <2>1, <2>2, <2>3
<1>16. NoOther(r) /\ \A k \in 1 .. 3 * n + 1 : r[k].id \in 0 .. n
  <2>1. ASSUME NEW k \in 1 .. 3 * n + 1 PROVE r[k].cmd # "x" /\ r[k].id \in 0 .. n
    BY <1>13
  <2> QED BY <1>9, <2>1 DEF NoOther
<1>17. ASSUME NEW i \in 1 .. 3 * n + 1, NEW j \in 1 .. 3 * n + 1, r[i] = r[j], r[i].cmd # "r" PROVE i = j
  <2>1. r[i].cmd = r[j].cmd /\ r[i].id = r[j].id
    BY <1>17
  <2>2. CASE r[i].cmd = "a"
    <3>1. \/ i \in {1, 2} /\ r[i].id = i - 1
          \/ \E q \in 0 .. n - 2 : i = 3 * q + 4 /\ r[i].id = q + 2
      BY <1>13, <2>2
    <3>2. \/ j \in {1, 2} /\ r[j].id = j - 1
          \/ \E q \in 0 .. n - 2 : j = 3 * q + 4 /\ r[j].id = q + 2
      BY <1>13, <2>1, <2>2
    <3> QED BY <2>1, <3>1, <3>2
  <2>3. CASE r[i].cmd = "f"
    <3>1. \/ i = 3 * n /\ r[i].id = n
          \/ i = 3 * n + 1 /\ r[i].id = 0
          \/ \E q \in 0 .. n - 2 : i = 3 * q + 5 /\ r[i].id = q + 1
      BY <1>13, <2>3
    <3>2. \/ j = 3 * n /\ r[j].id = n
          \/ j = 3 * n + 1 /\ r[j].id = 0
          \/ \E q \in 0 .. n - 2 : j = 3 * q + 5 /\ r[j].id = q + 1
      BY <1>13, <2>1, <2>3
    <3> QED BY <2>1, <3>1, <3>2
  <2>4. r[i].cmd \in {"a", "f"}
    BY <1>13, <1>17
  <2> QED BY <2>2, <2>3, <2>4
<1>18. ASSUME NEW j \in 1 .. 3 * n + 1, r[j].cmd # "a" PROVE \E i \in 1 .. j - 1 : r[i] = Req("a", r[j].id)
  <2>1. PICK id : id = r[j].id
    OBVIOUS
  <2>2. id \in 0 .. n /\ (id \in {0, 1} => id + 1 < j) /\ (id >= 2 => 3 * id - 2 < j)
    BY <1>13, <1>18, <2>1
  <2>3. PICK i \in 1 .. 3 * n + 1 : r[i] = Req("a", id)
                                    /\ (id \in {0, 1} => i = id + 1) /\ (id >= 2 => i = 3 * id - 2)
    BY <1>14, <2>2
  <2>4. i \in 1 .. j - 1
    BY <2>2, <2>3
  <2> QED BY <2>1, <2>3, <2>4
<1>19. ASSUME NEW i \in 1 .. 3 * n + 1, NEW j \in 1 .. 3 * n + 1, r[i].cmd = "r", r[j] = Req("f", r[i].id)
       PROVE  i < j
  <2>1. r[i].id = 0 /\ i < 3 * n
    BY <1>13, <1>19
  <2>2. r[j] = Req("f", 0)
    BY <1>19, <2>1
  <2>3. 3 * n + 1 \in 1 .. 3 * n + 1 /\ r[3 * n + 1].cmd = "f" /\ r[3 * n + 1] = r[j]
    BY <1>10, <2>2 DEF Req
  <2>4. j = 3 * n + 1
    BY <1>17, <2>3
  <2> QED BY <2>1, <2>4
<1>20. OnceEach(r)
  BY <1>9, <1>16, <1>17, <1>18, <1>19 DEF OnceEach
<1>21. AllFreed(r)
  BY <1>9, <1>15, <1>16 DEF AllFreed
<1>22. /\ \A k \in 1 .. 3 * n + 1 : r[k].id < n + 1
       /\ \E k \in 1 .. 3 * n + 1 : r[k].cmd = "a" /\ r[k].id = (n + 1) - 1
  <2>1. PICK k \in 1 .. 3 * n + 1 : r[k] = Req("a", n)
    BY <1>14
  <2>2. r[k].cmd = "a" /\ r[k].id = n /\ (n + 1) - 1 = n
    BY <2>1 DEF Req
  <2> QED BY <1>16, <2>2
<1> QED BY <1>1, <1>9, <1>20, <1>21, <1>22 DEF Generates

-----------------------------------------------------------------------------
(* An element inserted in a trace.                                         *)
LEMMA Inserting ==
  ASSUME NEW s \in Trace, NEW n \in Nat, Len(s) = n, NEW p \in 1 .. n + 1, NEW e \in Request,
         NEW t, t = InsertAt(s, p, e)
  PROVE  /\ t \in Trace /\ Len(t) = n + 1
         /\ \A k \in 1 .. p - 1 : t[k] = s[k]
         /\ t[p] = e
         /\ \A k \in p + 1 .. n + 1 : t[k] = s[k - 1]
<1>1. PICK u, v, w : u = SubSeq(s, 1, p - 1) /\ v = <<e>> /\ w = SubSeq(s, p, n)
  OBVIOUS
<1>2. \A i \in 1 .. n : s[i] \in Request
  BY ElementOfSeq DEF Trace
<1>3. u \in Trace /\ Len(u) = p - 1 /\ \A k \in 1 .. p - 1 : u[k] = s[k]
  <2>1. /\ 1 \in Int /\ p - 1 \in Int /\ \A i \in 1 .. p - 1 : s[i] \in Request
    BY <1>2
  <2>2. /\ u \in Seq(Request) /\ Len(u) = (IF 1 <= p - 1 THEN (p - 1) - 1 + 1 ELSE 0)
        /\ \A i \in 1 .. (p - 1) - 1 + 1 : u[i] = s[1 + i - 1]
    BY <1>1, <2>1, SubSeqProperties
  <2> QED BY <2>2 DEF Trace
<1>4. w \in Trace /\ Len(w) = (n - p) + 1 /\ \A k \in 1 .. (n - p) + 1 : w[k] = s[p + k - 1]
  <2>1. /\ p \in Int /\ n \in Int /\ \A i \in p .. n : s[i] \in Request
    BY <1>2
  <2>2. /\ w \in Seq(Request) /\ Len(w) = (IF p <= n THEN n - p + 1 ELSE 0)
        /\ \A i \in 1 .. n - p + 1 : w[i] = s[p + i - 1]
    BY <1>1, <2>1, SubSeqProperties
  <2> QED BY <2>2 DEF Trace
<1>5. v \in Trace /\ Len(v) = 1 /\ v[1] = e
  BY <1>1 DEF Trace
<1>6. Joined(t, u, v, w)
  <2>1. t = u \o v \o w
    BY <1>1 DEF InsertAt
  <2> QED BY <1>3, <1>4, <1>5, <2>1, ThreeParts
<1>7. /\ t \in Trace /\ Len(t) = (p - 1) + 1 + ((n - p) + 1)
      /\ \A k \in 1 .. p - 1 : t[k] = u[k]
      /\ \A k \in (p - 1) + 1 .. (p - 1) + 1 : t[k] = v[k - (p - 1)]
      /\ \A k \in (p - 1) + 1 + 1 .. (p - 1) + 1 + ((n - p) + 1) : t[k] = w[k - ((p - 1) + 1)]
  BY <1>3, <1>4, <1>5, <1>6 DEF Joined
<1>8. t[p] = e
  <2>1. p \in (p - 1) + 1 .. (p - 1) + 1 /\ p - (p - 1) = 1
    OBVIOUS
  <2> QED BY <1>5, <1>7, <2>1
<1>9. ASSUME NEW k \in p + 1 .. n + 1 PROVE t[k] = s[k - 1]
  <2>1. /\ k \in (p - 1) + 1 + 1 .. (p - 1) + 1 + ((n - p) + 1)
        /\ k - ((p - 1) + 1) = k - p /\ k - p \in 1 .. (n - p) + 1 /\ p + (k - p) - 1 = k - 1
    OBVIOUS
  <2> QED BY <1>4, <1>7, <2>1
<1> QED BY <1>3, <1>7, <1>8, <1>9

(* What gen_random.pl has when it has inserted m of n frees.               *)
Partly(s, n, m) ==
    /\ OnceEach(s) /\ Len(s) = n + m /\ m <= n
    /\ \A k \in 1 .. Len(s) : s[k].cmd # "r" /\ s[k].id < n /\ (s[k].cmd = "f" => s[k].id < m)
    /\ \A id \in 0 .. n - 1 : \E k \in 1 .. Len(s) : s[k] = Req("a", id)
    /\ \A id \in 0 .. m - 1 : \E k \in 1 .. Len(s) : s[k] = Req("f", id)

(* It begins with the allocations alone.                                   *)
LEMMA PartlyBegins ==
  ASSUME NEW n \in Nat \ {0}
  PROVE  Partly([j \in 1 .. n |-> Req("a", j - 1)], n, 0)
<1>1. PICK s : s = [j \in 1 .. n |-> Req("a", j - 1)]
  OBVIOUS
<1>2. \A j \in 1 .. n : s[j] = Req("a", j - 1) /\ s[j] \in Request /\ s[j].cmd = "a" /\ s[j].id = j - 1
  <2>1. \A j \in 1 .. n : j - 1 \in Nat /\ "a" \in Commands
    BY DEF Commands
  <2> QED BY <1>1, <2>1, ReqType
<1>3. s \in Trace /\ Len(s) = n /\ DOMAIN s = 1 .. n
  BY <1>1, <1>2 DEF Trace
<1>4. OnceEach(s)
  BY <1>2, <1>3 DEF OnceEach, NoOther
<1>5. ASSUME NEW id \in 0 .. n - 1 PROVE \E k \in 1 .. n : s[k] = Req("a", id)
  <2>1. id + 1 \in 1 .. n /\ (id + 1) - 1 = id
    OBVIOUS
  <2> QED BY <1>2, <2>1
<1>6. \A k \in 1 .. n : s[k].cmd # "r" /\ s[k].id < n /\ s[k].cmd # "f"
  BY <1>2
<1>7. Partly(s, n, 0)
  <2>1. n + 0 = n /\ 0 <= n /\ ~(\E id \in 0 .. 0 - 1 : TRUE)
    OBVIOUS
  <2>2. /\ \A k \in 1 .. Len(s) : s[k].cmd # "r" /\ s[k].id < n /\ (s[k].cmd = "f" => s[k].id < 0)
        /\ \A id \in 0 .. n - 1 : \E k \in 1 .. Len(s) : s[k] = Req("a", id)
        /\ \A id \in 0 .. 0 - 1 : \E k \in 1 .. Len(s) : s[k] = Req("f", id)
    BY <1>3, <1>5, <1>6, <2>1
  <2> QED BY <1>3, <1>4, <2>1, <2>2 DEF Partly
<1> QED BY <1>1, <1>7

(* A free inserted behind its allocation.                                  *)
LEMMA PartlyInsert ==
  ASSUME NEW s, NEW n \in Nat, NEW m \in Nat, Partly(s, n, m), m < n,
         NEW p \in 1 .. (n + m) + 1, \E i \in 1 .. p - 1 : s[i] = Req("a", m),
         NEW t, t = InsertAt(s, p, Req("f", m))
  PROVE  Partly(t, n, m + 1)
<1>1. PICK l \in Nat : l = n + m
  OBVIOUS
<1>2. PICK e : e = Req("f", m)
  OBVIOUS
<1>3. e \in Request /\ e.cmd = "f" /\ e.id = m
  BY <1>2, ReqType DEF Commands
<1>4. OnceEach(s) /\ s \in Trace /\ Len(s) = l /\ DOMAIN s = 1 .. l
  BY <1>1, OnceEachTypes DEF Partly, OnceEach
<1>5. /\ t \in Trace /\ Len(t) = l + 1 /\ t[p] = e
      /\ \A k \in 1 .. p - 1 : t[k] = s[k]
      /\ \A k \in p + 1 .. l + 1 : t[k] = s[k - 1]
  <2>1. p \in 1 .. l + 1
    BY <1>1
  <2> QED BY <1>2, <1>3, <1>4, <2>1, Inserting
<1>6. DOMAIN t = 1 .. l + 1
  BY <1>5, LenProperties DEF Trace
<1>7. ASSUME NEW k \in 1 .. l + 1, k # p
      PROVE  \E i \in 1 .. l : t[k] = s[i] /\ i = (IF k < p THEN k ELSE k - 1)
  <2>1. CASE k < p
    <3>1. k \in 1 .. p - 1 /\ k \in 1 .. l
      BY <1>1, <2>1
    <3> QED BY <1>5, <2>1, <3>1
  <2>2. CASE k > p
    <3>1. k \in p + 1 .. l + 1 /\ k - 1 \in 1 .. l /\ ~(k < p)
      BY <1>1, <2>2
    <3> QED BY <1>5, <3>1
  <2> QED BY <1>7, <2>1, <2>2
<1>8. ASSUME NEW i \in 1 .. l
      PROVE  \E k \in 1 .. l + 1 : t[k] = s[i] /\ k = (IF i < p THEN i ELSE i + 1)
  <2>1. CASE i < p
    <3>1. i \in 1 .. p - 1 /\ i \in 1 .. l + 1
      BY <2>1
    <3> QED BY <1>5, <2>1, <3>1
  <2>2. CASE i >= p
    <3>1. i + 1 \in p + 1 .. l + 1 /\ (i + 1) - 1 = i /\ i + 1 \in 1 .. l + 1 /\ ~(i < p)
      BY <2>2
    <3> QED BY <1>5, <3>1
  <2> QED BY <2>1, <2>2
<1>9. p \in 1 .. l + 1
  BY <1>1
<1>10. \A i \in 1 .. l : s[i].cmd \in {"a", "f"} /\ s[i].id < n /\ (s[i].cmd = "f" => s[i].id < m)
                         /\ s[i].id \in Nat
  BY <1>1, <1>4, OnceEachTypes DEF Partly
<1>11. \A k \in 1 .. l + 1 : t[k].cmd \in {"a", "f"} /\ t[k].id < n /\ (t[k].cmd = "f" => t[k].id < m + 1)
  <2>1. TAKE k \in 1 .. l + 1
  <2>2. CASE k = p
    BY <1>3, <1>5, <2>2
  <2>3. CASE k # p
    <3>1. PICK i \in 1 .. l : t[k] = s[i]
      BY <1>7, <2>3
    <3> QED BY <1>10, <3>1
  <2> QED BY <2>2, <2>3
<1>12. ASSUME NEW i \in 1 .. l + 1, NEW j \in 1 .. l + 1, t[i] = t[j] PROVE i = j
  <2>1. ASSUME NEW k \in 1 .. l + 1, k # p PROVE t[k] # e
    <3>1. PICK h \in 1 .. l : t[k] = s[h]
      BY <1>7, <2>1
    <3> QED BY <1>3, <1>10, <3>1
  <2>2. CASE i = p \/ j = p
    BY <1>5, <1>12, <2>1, <2>2
  <2>3. CASE i # p /\ j # p
    <3>1. PICK g \in 1 .. l : t[i] = s[g] /\ g = (IF i < p THEN i ELSE i - 1)
      BY <1>7, <2>3
    <3>2. PICK h \in 1 .. l : t[j] = s[h] /\ h = (IF j < p THEN j ELSE j - 1)
      BY <1>7, <2>3
    <3>3. s[g] = s[h] /\ s[g].cmd # "r"
      BY <1>10, <1>12, <3>1, <3>2
    <3>4. g = h
      BY <1>4, <3>3 DEF OnceEach
    <3> QED BY <2>3, <3>1, <3>2, <3>4
  <2> QED BY <2>2, <2>3
<1>13. ASSUME NEW j \in 1 .. l + 1, t[j].cmd # "a" PROVE \E i \in 1 .. j - 1 : t[i] = Req("a", t[j].id)
  <2>1. CASE j = p
    <3>1. PICK i \in 1 .. p - 1 : s[i] = Req("a", m)
      OBVIOUS
    <3> QED BY <1>3, <1>5, <2>1, <3>1
  <2>2. CASE j # p
    <3>1. PICK h \in 1 .. l : t[j] = s[h] /\ h = (IF j < p THEN j ELSE j - 1)
      BY <1>7, <2>2
    <3>2. PICK g \in 1 .. h - 1 : s[g] = Req("a", s[h].id)
      BY <1>4, <1>13, <3>1 DEF OnceEach
    <3>3. g \in 1 .. l
      OBVIOUS
    <3>4. PICK i \in 1 .. l + 1 : t[i] = s[g] /\ i = (IF g < p THEN g ELSE g + 1)
      BY <1>8, <3>3
    <3>5. i \in 1 .. j - 1
      BY <2>2, <3>1, <3>4
    <3> QED BY <3>1, <3>2, <3>4, <3>5
  <2> QED BY <2>1, <2>2
<1>14. NoOther(t)
  BY <1>6, <1>11 DEF NoOther
<1>15. OnceEach(t)
  <2>1. \A i, j \in 1 .. l + 1 : t[i] = t[j] /\ t[i].cmd # "r" => i = j
    BY <1>12
  <2>2. \A i, j \in 1 .. l + 1 : t[i].cmd = "r" /\ t[j] = Req("f", t[i].id) => i < j
    BY <1>11
  <2>3. \A j \in 1 .. l + 1 : t[j].cmd # "a" => \E i \in 1 .. j - 1 : t[i] = Req("a", t[j].id)
    BY <1>13
  <2> QED BY <1>5, <1>14, <2>1, <2>2, <2>3 DEF OnceEach
<1>16. ASSUME NEW id \in 0 .. n - 1 PROVE \E k \in 1 .. l + 1 : t[k] = Req("a", id)
  <2>1. PICK i \in 1 .. l : s[i] = Req("a", id)
    BY <1>4 DEF Partly
  <2> QED BY <1>8, <2>1
<1>17. ASSUME NEW id \in 0 .. (m + 1) - 1 PROVE \E k \in 1 .. l + 1 : t[k] = Req("f", id)
  <2>1. CASE id = m
    BY <1>2, <1>5, <1>9, <2>1
  <2>2. CASE id # m
    <3>1. id \in 0 .. m - 1
      BY <2>2
    <3>2. PICK i \in 1 .. l : s[i] = Req("f", id)
      BY <1>4, <3>1 DEF Partly
    <3> QED BY <1>8, <3>2
  <2> QED BY <2>1, <2>2
<1>18. Len(t) = n + (m + 1) /\ m + 1 <= n
  BY <1>1, <1>5
<1>19. \A k \in 1 .. l + 1 : t[k].cmd # "r"
  BY <1>11
<1> QED BY <1>5, <1>11, <1>15, <1>16, <1>17, <1>18, <1>19 DEF Partly

(* With all frees inserted.                                                *)
LEMMA PartlyEnds ==
  ASSUME NEW s, NEW n \in Nat \ {0}, Partly(s, n, n)
  PROVE  Generates(s, n, 2 * n) /\ AllFreed(s)
<1>1. OnceEach(s) /\ Len(s) = 2 * n
  BY DEF Partly
<1>2. \E k \in 1 .. Len(s) : s[k].cmd = "a" /\ s[k].id = n - 1
  <2>1. PICK k \in 1 .. Len(s) : s[k] = Req("a", n - 1)
    BY DEF Partly
  <2> QED BY <2>1 DEF Req
<1>3. \A k \in 1 .. Len(s) : s[k].id \in 0 .. n - 1
  <2>1. \A k \in 1 .. Len(s) : s[k].id \in Nat
    BY <1>1, OnceEachTypes
  <2>2. \A k \in 1 .. Len(s) : s[k].id < n
    BY DEF Partly
  <2> QED BY <2>1, <2>2
<1>4. AllFreed(s)
  BY <1>3 DEF Partly, AllFreed
<1> QED BY <1>1, <1>2, <1>4 DEF Generates, Partly

-----------------------------------------------------------------------------
Complaints == Refused \ {"invalid residue"}
Loading    == {"loading", "loaded", "assertion failed", "bogus type"}
Printed    == {"printed"} \cup Loading

TypesInv ==
    /\ input \in Trace /\ lines \in Trace
    /\ num_ops \in Int /\ num_blocks \in Nat /\ inserted \in Nat
    /\ round \in {1, 2}
    /\ status \in Passed \cup Refused \cup {"generating", "reading"} \cup Loading
    /\ op_index \in Nat /\ max_index \in Nat /\ beyond \in BOOLEAN

(* The tally is that of the lines read, which have passed, until it dies.  *)
CheckInv ==
    /\ status \notin Refused => Accepted(lines) /\ TallyOf(HASH, lines)
    /\ status \in Refused => round = 1
    /\ status \in Complaints => ~Accepted(lines)
    /\ status = "invalid residue" => ~NoOther(lines)
    /\ status = "generating" => lines = <<>> /\ HASH = Empty /\ round = 1
    /\ status \in Printed => output = Balanced
    /\ status = "Unbalanced tree" => HASH # Empty

(* The second run reads what the first has printed, which was accepted and *)
(* settled.                                                                *)
RoundInv ==
    round = 2 =>
      /\ status \in {"reading", "printed", "Balanced trace"}
      /\ output \in [num_ops : Int, lines : Trace] /\ output.num_ops = num_ops
      /\ Accepted(output.lines) /\ Settled(output.lines)
      /\ status = "reading" => lines \o input = output.lines
      /\ status # "reading" => lines = output.lines /\ HASH = Empty

FromGenerator(s) == Generates(s, num_blocks, num_ops) /\ (made # "gen_binary" => AllFreed(s))

(* What a script has generated stays that.                                 *)
SourceInv ==
    /\ status = "generating" =>
         /\ made = "gen_random" /\ num_ops = 2 * num_blocks /\ num_blocks > 0
         /\ Partly(input, num_blocks, inserted)
    /\ made # "hand" /\ round = 1 =>
         /\ status = "reading" => FromGenerator(lines \o input)
         /\ status \notin {"generating", "reading"} => FromGenerator(lines) /\ status \notin Refused

(* read_trace has stored what it read, as long as the header let it, and   *)
(* knows the largest id of an a or r.                                      *)
LoadInv ==
    /\ status \notin Loading => ops = <<>> /\ op_index = 0 /\ max_index = 0 /\ beyond = FALSE
    /\ status \in Loading =>
         /\ round = 1
         /\ op_index + Len(input) = Len(output.lines)
         /\ \A j \in 1 .. Len(input) : input[j] = output.lines[op_index + j]
         /\ ops \in Trace /\ Len(ops) <= op_index
         /\ \A j \in 1 .. Len(ops) : ops[j] = output.lines[j]
         /\ ~beyond => Len(ops) = op_index
         /\ beyond => op_index > output.num_ops
         /\ \A j \in 1 .. op_index : output.lines[j].cmd # "f" => output.lines[j].id <= max_index
         /\ max_index = 0 \/ \E j \in 1 .. op_index : /\ output.lines[j].cmd # "f"
                                                      /\ output.lines[j].id = max_index
    /\ status \in {"loaded", "assertion failed"} => input = <<>>
    /\ status = "loaded" <=> status \in {"loaded", "assertion failed"}
                             /\ max_index = num_blocks - 1 /\ output.num_ops = op_index
    /\ status = "bogus type" => ~NoOther(output.lines)

LInv == TypesInv /\ CheckInv /\ RoundInv /\ SourceInv /\ LoadInv

-----------------------------------------------------------------------------
(* What any of the sources makes.                                          *)
LEMMA InputType == \A s \in AnyInput : s \in Trace
<1>1. \A e \in [cmd : Commands, id : Ids] : e \in Request
  BY TraceLinesAssumption DEF Request
<1>2. ASSUME NEW s \in AnyInput PROVE s \in Trace
  <2>1. PICK n \in 0 .. MaxLines : s \in [1 .. n -> [cmd : Commands, id : Ids]]
    BY DEF AnyInput
  <2>2. n \in Nat /\ s \in [1 .. n -> Request]
    BY <1>1, <2>1, TraceLinesAssumption
  <2> QED BY <2>2 DEF Trace
<1> QED BY <1>2

(* The ways to begin.                                                      *)
LEMMA Starts ==
  ASSUME TInit
  PROVE  \/ /\ input \in Trace /\ num_blocks \in Nat /\ num_ops \in Int
            /\ made = "hand" /\ status = "reading"
         \/ /\ made # "hand" /\ status = "reading" /\ FromGenerator(input)
            /\ num_blocks \in Nat /\ num_ops \in Int
         \/ /\ made = "gen_random" /\ status = "generating" /\ Partly(input, num_blocks, 0)
            /\ num_blocks \in Nat \ {0} /\ num_ops = 2 * num_blocks
<1>1. ASSUME NEW n \in NumIters, Made("gen_binary", gen_binary(n), 3 * n, 4 * n)
      PROVE  /\ made # "hand" /\ status = "reading" /\ FromGenerator(input)
             /\ num_blocks \in Nat /\ num_ops \in Int
  <2>1. n \in Nat \ {0}
    BY TraceFilesAssumption
  <2>2. Generates(gen_binary(n), 3 * n, 4 * n) /\ 3 * n \in Nat /\ 4 * n \in Int
    BY <2>1, BinaryGenerates
  <2> QED BY <1>1, <2>2 DEF Made, FromGenerator
<1>2. ASSUME NEW n \in NumIters, Made("gen_coalescing", gen_coalescing(n), 3 * n, 6 * n)
      PROVE  /\ made # "hand" /\ status = "reading" /\ FromGenerator(input)
             /\ num_blocks \in Nat /\ num_ops \in Int
  <2>1. n \in Nat \ {0}
    BY TraceFilesAssumption
  <2>2. Generates(gen_coalescing(n), 3 * n, 6 * n) /\ AllFreed(gen_coalescing(n))
        /\ 3 * n \in Nat /\ 6 * n \in Int
    BY <2>1, CoalescingGenerates
  <2> QED BY <1>2, <2>2 DEF Made, FromGenerator
<1>3. ASSUME NEW n \in NumIters, Made("gen_realloc", gen_realloc(n), n + 1, 3 * n + 1)
      PROVE  /\ made # "hand" /\ status = "reading" /\ FromGenerator(input)
             /\ num_blocks \in Nat /\ num_ops \in Int
  <2>1. n \in Nat \ {0}
    BY TraceFilesAssumption
  <2>2. Generates(gen_realloc(n), n + 1, 3 * n + 1) /\ AllFreed(gen_realloc(n))
        /\ n + 1 \in Nat /\ 3 * n + 1 \in Int
    BY <2>1, ReallocGenerates
  <2> QED BY <1>3, <2>2 DEF Made, FromGenerator
<1>4. ASSUME NEW n \in NumIters, Made("gen_random", [j \in 1 .. n |-> Req("a", j - 1)], n, 2 * n)
      PROVE  /\ made = "gen_random" /\ status = "generating" /\ Partly(input, num_blocks, 0)
             /\ num_blocks \in Nat \ {0} /\ num_ops = 2 * num_blocks
  <2>1. n \in Nat \ {0}
    BY TraceFilesAssumption
  <2>2. Partly([j \in 1 .. n |-> Req("a", j - 1)], n, 0)
    BY <2>1, PartlyBegins
  <2> QED BY <1>4, <2>1, <2>2 DEF Made
<1>5. ASSUME NEW s \in AnyInput, NEW b \in NumBlocks, NEW d \in Off, Made("hand", s, b, Len(s) + d)
      PROVE  /\ input \in Trace /\ num_blocks \in Nat /\ num_ops \in Int
             /\ made = "hand" /\ status = "reading"
  <2>1. s \in Trace /\ b \in Nat /\ d \in Int
    BY InputType, TraceFilesAssumption
  <2>2. Len(s) + d \in Int
    BY <2>1, LenProperties DEF Trace
  <2> QED BY <1>5, <2>1, <2>2 DEF Made
<1> QED BY <1>1, <1>2, <1>3, <1>4, <1>5 DEF TInit

(* Every way to begin establishes the invariant.                           *)
LEMMA LInvInit == TInit => LInv
<1> SUFFICES ASSUME TInit PROVE LInv
  OBVIOUS
<1>1. /\ lines = <<>> /\ HASH = Empty /\ output = Nothing /\ round = 1
      /\ inserted = 0 /\ ops = <<>> /\ op_index = 0 /\ max_index = 0 /\ beyond = FALSE
  BY DEF TInit, Begin
<1>2. input \in Trace /\ num_blocks \in Nat /\ num_ops \in Int /\ status \in {"reading", "generating"}
  <2>1. ASSUME NEW s, NEW b, NEW n, Partly(s, b, n) \/ Generates(s, b, n) PROVE s \in Trace
    BY <2>1 DEF Partly, Generates, OnceEach
  <2> QED BY <2>1, Starts DEF FromGenerator
<1>3. lines \o input = input
  BY <1>1, <1>2, ConcatEmptySeq DEF Trace
<1>4. TypesInv
  BY <1>1, <1>2, NothingRead DEF TypesInv
<1>5. CheckInv
  BY <1>1, <1>2, NothingRead DEF CheckInv, Refused, Complaints, Printed, Loading
<1>6. RoundInv
  <2>1. round # 2
    BY <1>1
  <2> QED BY <2>1 DEF RoundInv
<1>7. SourceInv
  <2>1. CASE made = "hand" /\ status = "reading"
    BY <2>1 DEF SourceInv
  <2>2. CASE made # "hand" /\ status = "reading" /\ FromGenerator(input)
    BY <1>3, <2>2 DEF SourceInv
  <2>3. CASE made = "gen_random" /\ status = "generating" /\ Partly(input, num_blocks, 0)
             /\ num_blocks \in Nat \ {0} /\ num_ops = 2 * num_blocks
    BY <1>1, <2>3 DEF SourceInv
  <2> QED BY <2>1, <2>2, <2>3, Starts
<1>8. LoadInv
  BY <1>1, <1>2 DEF LoadInv, Loading
<1> QED BY <1>4, <1>5, <1>6, <1>7, <1>8 DEF LInv

-----------------------------------------------------------------------------
(* The beginning of a trace.                                               *)
LEMMA BeginOf ==
  ASSUME NEW s \in Trace, NEW t \in Trace
  PROVE  /\ s \o t \in Trace /\ Len(s \o t) = Len(s) + Len(t) /\ Agree(s, s \o t, Len(s))
         /\ Len(s) \in Nat /\ Len(t) \in Nat
         /\ Accepted(s \o t) => Accepted(s)
<1>1. PICK r : r = s \o t
  OBVIOUS
<1>2. Len(s) \in Nat /\ Len(t) \in Nat
  BY LenProperties DEF Trace
<1>3. r \in Trace /\ Len(r) = Len(s) + Len(t)
      /\ \A k \in 1 .. Len(s) + Len(t) : r[k] = IF k <= Len(s) THEN s[k] ELSE t[k - Len(s)]
  BY <1>1, ConcatProperties DEF Trace
<1>4. Len(s) <= Len(r) /\ Agree(s, r, Len(s))
  BY <1>2, <1>3 DEF Agree
<1>5. Accepted(r) => Accepted(s)
  BY <1>3, <1>4, AcceptedBegin
<1> QED BY <1>1, <1>2, <1>3, <1>4, <1>5

(* One line of the input goes to the lines read.                           *)
LEMMA OneLine ==
  ASSUME NEW s \in Trace, NEW t \in Trace, t # <<>>
  PROVE  /\ Head(t) \in Request /\ Tail(t) \in Trace /\ Append(s, Head(t)) \in Trace
         /\ Append(s, Head(t)) \o Tail(t) = s \o t
         /\ Len(Tail(t)) = Len(t) - 1 /\ Len(t) \in Nat \ {0} /\ Head(t) = t[1]
         /\ \A j \in 1 .. Len(Tail(t)) : Tail(t)[j] = t[j + 1]
<1>1. PICK e, u, v : e = Head(t) /\ u = Tail(t) /\ v = Append(s, e)
  OBVIOUS
<1>2. /\ e \in Request /\ u \in Trace /\ Len(u) = Len(t) - 1 /\ \A j \in 1 .. Len(u) : u[j] = t[j + 1]
      /\ Len(t) \in Nat \ {0} /\ e = t[1]
  BY <1>1, HeadTailProperties, EmptySeq DEF Trace
<1>3. /\ v \in Trace /\ Len(v) = Len(s) + 1 /\ Agree(s, v, Len(s)) /\ v[Len(s) + 1] = e
      /\ Len(s) \in Nat
  BY <1>1, <1>2, AppendAgrees
<1>4. /\ v \o u \in Trace /\ Len(v \o u) = Len(v) + Len(u)
      /\ \A k \in 1 .. Len(v) + Len(u) : (v \o u)[k] = IF k <= Len(v) THEN v[k] ELSE u[k - Len(v)]
  BY <1>2, <1>3, ConcatProperties DEF Trace
<1>5. /\ s \o t \in Trace /\ Len(s \o t) = Len(s) + Len(t)
      /\ \A k \in 1 .. Len(s) + Len(t) : (s \o t)[k] = IF k <= Len(s) THEN s[k] ELSE t[k - Len(s)]
  BY ConcatProperties DEF Trace
<1>6. ASSUME NEW k \in 1 .. Len(s) + Len(t) PROVE (v \o u)[k] = (s \o t)[k]
  <2>0. Len(s) \in Nat /\ Len(t) \in Nat
    BY <1>2, <1>3
  <2>1. k \in 1 .. Len(v) + Len(u)
    BY <1>2, <1>3
  <2>2. CASE k <= Len(s)
    <3>1. k <= Len(v) /\ k \in 1 .. Len(s)
      BY <1>3, <2>0, <2>2
    <3>2. (v \o u)[k] = v[k]
      BY <1>4, <2>1, <3>1
    <3>3. (s \o t)[k] = s[k]
      BY <1>5, <2>2
    <3>4. v[k] = s[k]
      BY <1>3, <3>1 DEF Agree
    <3> QED BY <3>2, <3>3, <3>4
  <2>3. CASE k = Len(s) + 1
    <3>1. k <= Len(v) /\ ~(k <= Len(s)) /\ k - Len(s) = 1
      BY <1>3, <2>3
    <3>2. (v \o u)[k] = v[k] /\ (s \o t)[k] = t[k - Len(s)]
      BY <1>4, <1>5, <2>1, <3>1
    <3> QED BY <1>2, <1>3, <2>3, <3>1, <3>2
  <2>4. CASE k > Len(s) + 1
    <3>1. ~(k <= Len(v)) /\ ~(k <= Len(s)) /\ k - Len(v) \in 1 .. Len(u)
          /\ (k - Len(v)) + 1 = k - Len(s)
      BY <1>2, <1>3, <2>4
    <3>2. (v \o u)[k] = u[k - Len(v)] /\ (s \o t)[k] = t[k - Len(s)]
      BY <1>4, <1>5, <2>1, <3>1
    <3>3. u[k - Len(v)] = t[(k - Len(v)) + 1]
      BY <1>2, <3>1
    <3> QED BY <3>1, <3>2, <3>3
  <2>5. k <= Len(s) \/ k = Len(s) + 1 \/ k > Len(s) + 1
    BY <2>0
  <2> QED BY <2>2, <2>3, <2>4, <2>5
<1>7. Len(v \o u) = Len(s \o t)
  BY <1>2, <1>3, <1>4, <1>5
<1>8. v \o u = s \o t
  <2>1. \A k \in 1 .. Len(v \o u) : (v \o u)[k] = (s \o t)[k]
    BY <1>5, <1>6, <1>7
  <2> QED BY <1>4, <1>5, <1>7, <2>1, SeqEqual DEF Trace
<1> QED BY <1>1, <1>2, <1>3, <1>8

(* A line is read: it passes and the tally follows, or it does not.        *)
Outcome ==
    \/ status' = "reading" /\ Accepted(lines') /\ TallyOf(HASH', lines')
    \/ status' \in Complaints /\ ~Accepted(lines')

LineRead ==
    /\ status = "reading" /\ input # <<>>
    /\ input' = Tail(input) /\ lines' = Append(lines, Head(input))
    /\ UNCHANGED <<num_ops, output, round>>

(* Each of the four cases does one of the two.                             *)
LEMMA LineOutcome ==
  ASSUME LInv, Realloc \/ Allocate \/ FreeBlock \/ OtherCommand
  PROVE  LineRead /\ Outcome
<1>1. LineRead
  BY DEF Realloc, Allocate, FreeBlock, OtherCommand, Reading, Read, LineRead
<1> SUFFICES Outcome
  BY <1>1
<1>2. PICK e, n : e = Head(input) /\ n = Len(lines)
  OBVIOUS
<1>3. /\ lines \in Trace /\ e \in Request /\ n \in Nat
      /\ Accepted(lines) /\ TallyOf(HASH, lines) /\ AtEndOf(lines) = n + 1
      /\ lines' = Append(lines, e)
  <2>1. input \in Trace /\ lines \in Trace /\ status = "reading" /\ input # <<>>
    BY <1>1 DEF LInv, TypesInv, LineRead
  <2>2. "reading" \notin Refused
    BY DEF Refused
  <2> QED BY <1>1, <1>2, <2>1, <2>2, OneLine, LenProperties DEF LInv, CheckInv, LineRead, AtEndOf, Trace
<1>4. /\ e.id \in DOMAIN HASH <=> Outstanding(lines, n + 1, e.id)
      /\ e.id \in DOMAIN HASH => /\ HASH[e.id] \in {"a", "x"}
                                 /\ HASH[e.id] = "a" <=> Entered(lines, n + 1, e.id, "a")
  <2>1. e.id \in Nat
    BY <1>3 DEF Request
  <2> QED BY <1>2, <1>3, <2>1, TallyReads
<1>5. Accepted(lines') <=>
        /\ e.cmd = "a" => ~Entered(lines, n + 1, e.id, "a")
        /\ e.cmd \in {"r", "f"} => Outstanding(lines, n + 1, e.id)
  BY <1>2, <1>3, AcceptedAppend
<1>6. CASE Realloc
  <2>1. e.cmd = "r"
    BY <1>2, <1>6 DEF Realloc
  <2>2. CASE e.id \in DOMAIN HASH
    <3>1. HASH' = HASH /\ status' = "reading"
      BY <1>2, <1>6, <2>2 DEF Realloc, Reading, Tallied
    <3> QED BY <1>3, <1>4, <1>5, <2>1, <2>2, <3>1, TallyKeep DEF Outcome
  <2>3. CASE e.id \notin DOMAIN HASH
    <3>1. status' = "realloc without previous alloc"
      BY <1>2, <1>6, <2>3 DEF Realloc, Tallied, Die
    <3> QED BY <1>4, <1>5, <2>1, <2>3, <3>1 DEF Outcome, Complaints, Refused
  <2> QED BY <1>1, <2>2, <2>3
<1>7. CASE Allocate
  <2>1. e.cmd = "a"
    BY <1>2, <1>7 DEF Allocate
  <2>2. CASE e.id \in DOMAIN HASH /\ HASH[e.id] = "a"
    <3>1. status' = "allocate with no intervening free"
      BY <1>2, <1>7, <2>2 DEF Allocate, Tallied, Die
    <3> QED BY <1>4, <1>5, <2>1, <2>2, <3>1 DEF Outcome, Complaints, Refused
  <2>3. CASE ~(e.id \in DOMAIN HASH /\ HASH[e.id] = "a")
    <3>1. HASH' = [i \in DOMAIN HASH \cup {e.id} |-> IF i = e.id THEN "a" ELSE HASH[i]]
          /\ status' = "reading"
      <4>1. ~(e.id \in DOMAIN HASH /\ HASH[e.id] = "f")
            /\ (e.id \notin DOMAIN HASH \/ HASH[e.id] \notin {"a", "f"})
        BY <1>4, <2>3
      <4> QED BY <1>2, <1>7, <2>3, <4>1 DEF Allocate, Tallied, Reading
    <3>2. TallyOf(HASH', lines')
      BY <1>3, <2>1, <3>1, TallyEnter
    <3>3. ~Entered(lines, n + 1, e.id, "a")
      BY <1>4, <2>3 DEF Outstanding
    <3> QED BY <1>5, <2>1, <3>1, <3>2, <3>3 DEF Outcome
  <2> QED BY <1>1, <2>2, <2>3
<1>8. CASE FreeBlock
  <2>1. e.cmd = "f"
    BY <1>2, <1>8 DEF FreeBlock
  <2>2. CASE e.id \in DOMAIN HASH
    <3>1. HASH' = [i \in DOMAIN HASH \ {e.id} |-> HASH[i]] /\ status' = "reading"
      BY <1>2, <1>8, <2>2 DEF FreeBlock, Reading, Tallied
    <3>2. TallyOf(HASH', lines')
      BY <1>3, <2>1, <3>1, TallyRemove
    <3> QED BY <1>4, <1>5, <2>1, <2>2, <3>1, <3>2 DEF Outcome
  <2>3. CASE e.id \notin DOMAIN HASH
    <3>1. status' = "freeing unallocated block"
      BY <1>2, <1>8, <2>3 DEF FreeBlock, Tallied, Die
    <3> QED BY <1>4, <1>5, <2>1, <2>3, <3>1 DEF Outcome, Complaints, Refused
  <2> QED BY <1>1, <2>2, <2>3
<1>9. CASE OtherCommand
  <2>1. e.cmd = "x"
    BY <1>2, <1>9 DEF OtherCommand
  <2>2. HASH' = [i \in DOMAIN HASH \cup {e.id} |-> IF i = e.id THEN "x" ELSE HASH[i]]
        /\ status' = "reading"
    BY <1>2, <1>9 DEF OtherCommand, Reading
  <2>3. TallyOf(HASH', lines')
    BY <1>3, <2>1, <2>2, TallyEnter
  <2> QED BY <1>1, <1>5, <2>1, <2>2, <2>3 DEF Outcome
<1> QED BY <1>6, <1>7, <1>8, <1>9

(* The four cases of the loop.                                             *)
LEMMA LInvLine ==
  ASSUME LInv, Realloc \/ Allocate \/ FreeBlock \/ OtherCommand,
         UNCHANGED <<made, num_blocks, inserted, loading>>
  PROVE  LInv'
<1>1. LineRead /\ Outcome
  BY LineOutcome
<1>2. PICK s : s = lines \o input
  OBVIOUS
<1>3. /\ input \in Trace /\ lines \in Trace /\ input' \in Trace /\ lines' \in Trace
      /\ lines' \o input' = s /\ s \in Trace
  <2>1. input \in Trace /\ lines \in Trace
    BY DEF LInv, TypesInv
  <2> QED BY <1>1, <1>2, <2>1, OneLine, BeginOf DEF LineRead
<1>4. status = "reading" /\ status' \in {"reading"} \cup Complaints
      /\ num_ops' = num_ops /\ output' = output /\ round' = round
      /\ num_blocks' = num_blocks /\ made' = made /\ inserted' = inserted
      /\ ops' = ops /\ op_index' = op_index /\ max_index' = max_index /\ beyond' = beyond
  BY <1>1 DEF LineRead, Outcome, loading
<1>5. Accepted(s) => status' = "reading"
  <2>1. Accepted(s) => Accepted(lines')
    BY <1>3, BeginOf
  <2> QED BY <1>1, <2>1 DEF Outcome
<1>6. "reading" \notin Refused \cup Loading \cup Printed
      /\ \A c \in Complaints : c \in Refused /\ c \notin Loading \cup Printed
                               /\ c \notin {"invalid residue", "generating", "reading",
                                             "Unbalanced tree"}
  BY DEF Refused, Loading, Printed, Complaints
<1>7. round = 2 => status' = "reading" /\ s = output.lines
  BY <1>2, <1>4, <1>5 DEF LInv, RoundInv
<1>8. made # "hand" /\ round = 1 => status' = "reading" /\ FromGenerator(s)
  <2>1. SUFFICES ASSUME made # "hand", round = 1 PROVE status' = "reading" /\ FromGenerator(s)
    OBVIOUS
  <2>2. FromGenerator(s)
    BY <1>2, <1>4, <2>1 DEF LInv, SourceInv
  <2> QED BY <1>5, <2>2, OnceEachAccepted DEF FromGenerator, Generates
<1>9. TypesInv'
  BY <1>3, <1>4 DEF LInv, TypesInv, Complaints
<1>10. CheckInv'
  BY <1>1, <1>4, <1>6, <1>7 DEF LInv, TypesInv, CheckInv, Outcome
<1>11. RoundInv'
  BY <1>3, <1>4, <1>7 DEF LInv, RoundInv
<1>12. SourceInv'
  BY <1>3, <1>4, <1>6, <1>8 DEF LInv, SourceInv, FromGenerator
<1>13. LoadInv'
  <2>1. status' \notin Loading /\ status \notin Loading
        /\ status' \notin {"loaded", "assertion failed", "bogus type"}
    BY <1>4, <1>6 DEF Loading
  <2> QED BY <1>4, <2>1 DEF LInv, LoadInv
<1> QED BY <1>9, <1>10, <1>11, <1>12, <1>13 DEF LInv

-----------------------------------------------------------------------------
(* What is printed after lines.                                            *)
BalancedOf(b) ==
    /\ b \in [num_ops : Int, lines : Trace]
    /\ Accepted(b.lines) /\ Settled(b.lines)
    /\ b.num_ops - Len(b.lines) = num_ops - Len(lines)
    /\ Len(lines) \in Nat /\ Len(b.lines) \in Nat /\ Len(lines) <= Len(b.lines)
    /\ Agree(lines, b.lines, Len(lines))
    /\ \A k \in Len(lines) + 1 .. Len(b.lines) : b.lines[k].cmd = "f"
    /\ Settled(lines) => b.lines = lines /\ b.num_ops = num_ops /\ HASH = Empty

(* And it is: legal, settled and of the right length.                      *)
LEMMA BalancedWorks ==
  ASSUME TypesInv, CheckInv, status \notin Refused
  PROVE  BalancedOf(Balanced)
<1>1. lines \in Trace /\ Accepted(lines) /\ TallyOf(HASH, lines) /\ num_ops \in Int
  BY DEF TypesInv, CheckInv
<1>2. PICK R : R = Residue
  OBVIOUS
<1>3. Lists(R, DOMAIN HASH)
  BY <1>1, <1>2, SetToSeqLists DEF Residue, TallyOf
<1>4. PICK l : l = lines \o Frees(R)
  OBVIOUS
<1>5. /\ l \in Trace /\ Accepted(l) /\ Settled(l)
      /\ Len(lines) \in Nat /\ Len(R) \in Nat
      /\ Len(l) = Len(lines) + Len(R) /\ Agree(lines, l, Len(lines))
      /\ \A k \in Len(lines) + 1 .. Len(l) : l[k].cmd = "f"
  BY <1>1, <1>3, <1>4, FreesSettle
<1>6. Balanced = [num_ops |-> num_ops + Len(R), lines |-> l]
  BY <1>2, <1>4 DEF Balanced, Frees
<1>7. ASSUME Settled(lines) PROVE l = lines /\ Len(R) = 0 /\ HASH = Empty
  <2>1. DOMAIN HASH = {}
    BY <1>1, <1>5, <1>7, TallyReads DEF Settled, TallyOf
  <2>2. HASH = Empty
    BY <1>1, <2>1 DEF TallyOf, Empty
  <2>3. Len(R) = 0
    <3>1. Len(R) # 0 => 1 \in 1 .. Len(R)
      BY <1>5
    <3>2. \A i \in 1 .. Len(R) : R[i] \in DOMAIN HASH
      BY <1>3, ElementOfSeq DEF Lists
    <3> QED BY <2>1, <3>1, <3>2
  <2>4. l = lines
    <3>1. Len(l) = Len(lines) /\ \A k \in 1 .. Len(lines) : lines[k] = l[k]
      BY <1>5, <2>3 DEF Agree
    <3> QED BY <1>1, <1>5, <3>1, SeqEqual DEF Trace
  <2> QED BY <2>2, <2>3, <2>4
<1>8. PICK b : b = Balanced
  OBVIOUS
<1>9. b.num_ops = num_ops + Len(R) /\ b.lines = l /\ b \in [num_ops : Int, lines : Trace]
  BY <1>1, <1>5, <1>6, <1>8
<1>10. BalancedOf(b)
  <2>1. b.num_ops - Len(b.lines) = num_ops - Len(lines) /\ Len(l) \in Nat /\ Len(lines) <= Len(l)
    BY <1>1, <1>5, <1>9
  <2>2. Settled(lines) => b.lines = lines /\ b.num_ops = num_ops /\ HASH = Empty
    BY <1>1, <1>7, <1>9
  <2> QED BY <1>5, <1>9, <2>1, <2>2 DEF BalancedOf
<1> QED BY <1>8, <1>10

(* The end of checktrace.pl: nothing of the reading changes but status.    *)
LEMMA LInvOutput ==
  ASSUME LInv, OutputAll \/ OutputDies \/ Summary,
         UNCHANGED <<made, num_blocks, inserted, loading>>
  PROVE  LInv'
<1>1. /\ status = "reading" /\ input = <<>>
      /\ input' = input /\ num_ops' = num_ops /\ lines' = lines /\ HASH' = HASH /\ round' = round
      /\ num_blocks' = num_blocks /\ made' = made /\ inserted' = inserted
      /\ ops' = ops /\ op_index' = op_index /\ max_index' = max_index /\ beyond' = beyond
  BY DEF OutputAll, OutputDies, Summary, AtEnd, loading
<1>2. "reading" \notin Refused \cup Loading \cup Printed \cup {"generating"}
  BY DEF Refused, Loading, Printed
<1>3. /\ lines \in Trace /\ Accepted(lines) /\ TallyOf(HASH, lines)
      /\ lines \o input = lines /\ Balanced' = Balanced /\ BalancedOf(Balanced)
  <2>1. lines \in Trace /\ Accepted(lines) /\ TallyOf(HASH, lines)
    BY <1>1, <1>2 DEF LInv, TypesInv, CheckInv
  <2>2. lines \o input = lines
    BY <1>1, <2>1, ConcatEmptySeq DEF Trace
  <2>3. BalancedOf(Balanced)
    BY <1>1, <1>2, BalancedWorks DEF LInv
  <2> QED BY <1>1, <2>1, <2>2, <2>3 DEF Balanced, Residue
<1>4. status' \in {"printed", "invalid residue", "Balanced trace", "Unbalanced tree"}
      /\ status' \notin Loading /\ status' \notin {"loaded", "assertion failed", "bogus type"}
  BY DEF OutputAll, OutputDies, Summary, Loading
<1>5. status' = "printed" => output' = Balanced
  BY DEF OutputAll, OutputDies, Summary
<1>6. ASSUME NoOther(lines) PROVE status' # "invalid residue"
  <2>1. ASSUME NEW id \in DOMAIN HASH PROVE HASH[id] = "a"
    <3>1. id \in Nat /\ Entered(lines, AtEndOf(lines), id, HASH[id]) /\ HASH[id] \in {"a", "x"}
      BY <1>3, TallyReads, LenProperties DEF TallyOf, Trace
    <3>2. SUFFICES ASSUME HASH[id] = "x" PROVE FALSE
      BY <3>1
    <3>3. PICK i \in 1 .. AtEndOf(lines) - 1 : lines[i].cmd = "x"
      BY <3>1, <3>2 DEF Entered
    <3>4. i \in DOMAIN lines
      BY <1>3, LenProperties DEF AtEndOf, Trace
    <3> QED BY <1>6, <3>3, <3>4 DEF NoOther
  <2>2. ~OutputDies
    <3>1. Lists(Residue, DOMAIN HASH)
      BY <1>3, SetToSeqLists DEF Residue, TallyOf
    <3>2. \A j \in DOMAIN Residue : Residue[j] \in DOMAIN HASH
      BY <3>1, LenProperties, ElementOfSeq DEF Lists
    <3> QED BY <2>1, <3>2 DEF OutputDies
  <2> QED BY <2>2 DEF OutputAll, Summary
<1>7. round = 2 => /\ status' \in {"printed", "Balanced trace"}
                   /\ output' = output /\ lines = output.lines /\ HASH = Empty
  <2>1. SUFFICES ASSUME round = 2
                 PROVE  /\ status' \in {"printed", "Balanced trace"}
                        /\ output' = output /\ lines = output.lines /\ HASH = Empty
    OBVIOUS
  <2>2. /\ output \in [num_ops : Int, lines : Trace] /\ output.num_ops = num_ops
        /\ lines = output.lines /\ Settled(lines)
    BY <1>1, <1>3, <2>1 DEF LInv, RoundInv
  <2>3. Balanced.lines = lines /\ Balanced.num_ops = num_ops /\ HASH = Empty
        /\ Balanced \in [num_ops : Int, lines : Trace]
    BY <1>3, <2>2 DEF BalancedOf
  <2>4. Balanced = output
    BY <2>2, <2>3
  <2>5. ~OutputDies
    <3>1. DOMAIN HASH = {}
      BY <2>3 DEF Empty
    <3>2. Lists(Residue, {})
      BY <1>3, <3>1, SetToSeqLists DEF Residue, TallyOf
    <3>3. \A j \in DOMAIN Residue : Residue[j] \in {}
      BY <3>2, LenProperties, ElementOfSeq DEF Lists
    <3> QED BY <3>3 DEF OutputDies
  <2>6. CASE OutputAll
    BY <2>2, <2>3, <2>4, <2>6 DEF OutputAll
  <2>7. CASE Summary
    BY <2>2, <2>3, <2>7 DEF Summary
  <2> QED BY <2>5, <2>6, <2>7
<1>8. made # "hand" /\ round = 1 => FromGenerator(lines) /\ status' # "invalid residue"
  <2>1. SUFFICES ASSUME made # "hand", round = 1 PROVE FromGenerator(lines) /\ NoOther(lines)
    BY <1>6
  <2>2. FromGenerator(lines)
    BY <1>1, <1>3, <2>1 DEF LInv, SourceInv
  <2> QED BY <2>2 DEF FromGenerator, Generates, OnceEach
<1>9. \A c \in {"printed", "Balanced trace", "Unbalanced tree"} :
         c \notin Refused /\ c \notin Complaints /\ c \in Passed
  BY DEF Refused, Complaints, Passed
<1>10. "invalid residue" \notin Complaints /\ "invalid residue" \in Refused
  BY DEF Complaints, Refused
<1>11. TypesInv'
  BY <1>1, <1>4, <1>9, <1>10 DEF LInv, TypesInv
<1>12. CheckInv'
  <2>1. status' \in Printed => status' = "printed"
    BY <1>4 DEF Printed
  <2>2. status' = "invalid residue" => round = 1
    BY <1>7 DEF LInv, TypesInv
  <2>3. status' = "Unbalanced tree" => HASH' # Empty
    BY <1>1 DEF OutputAll, OutputDies, Summary
  <2> QED BY <1>1, <1>3, <1>4, <1>5, <1>6, <1>9, <1>10, <2>1, <2>2, <2>3 DEF CheckInv
<1>13. RoundInv'
  BY <1>1, <1>4, <1>7 DEF LInv, RoundInv
<1>14. SourceInv'
  BY <1>1, <1>4, <1>8, <1>9 DEF SourceInv, FromGenerator
<1>15. LoadInv'
  BY <1>1, <1>2, <1>4 DEF LInv, LoadInv
<1> QED BY <1>11, <1>12, <1>13, <1>14, <1>15 DEF LInv

(* The second run begins.                                                  *)
LEMMA LInvRunAgain ==
  ASSUME LInv, RunAgain, UNCHANGED <<made, num_blocks, inserted, loading>>
  PROVE  LInv'
<1>1. /\ status = "printed" /\ round = 1 /\ round' = 2 /\ status' = "reading"
      /\ input' = output.lines /\ num_ops' = output.num_ops
      /\ lines' = <<>> /\ HASH' = Empty /\ output' = output
      /\ num_blocks' = num_blocks /\ made' = made /\ inserted' = inserted
      /\ ops' = ops /\ op_index' = op_index /\ max_index' = max_index /\ beyond' = beyond
  BY DEF RunAgain, loading
<1>2. /\ "printed" \notin Refused \cup Loading /\ "printed" \in Printed
      /\ "reading" \notin Refused \cup Loading \cup Printed \cup Complaints
      /\ "reading" \notin {"loaded", "assertion failed", "bogus type", "invalid residue", "generating"}
  BY DEF Refused, Complaints, Loading, Printed
<1>3. BalancedOf(output)
  BY <1>1, <1>2, BalancedWorks DEF LInv, CheckInv
<1>4. /\ output \in [num_ops : Int, lines : Trace]
      /\ Accepted(output.lines) /\ Settled(output.lines)
  BY <1>3 DEF BalancedOf
<1>5. <<>> \o output.lines = output.lines
  BY <1>4, ConcatEmptySeq DEF Trace
<1>6. TypesInv'
  BY <1>1, <1>4, NothingRead DEF LInv, TypesInv
<1>7. CheckInv'
  BY <1>1, <1>2, NothingRead DEF CheckInv
<1>8. RoundInv'
  BY <1>1, <1>4, <1>5 DEF RoundInv
<1>9. SourceInv'
  BY <1>1, <1>2 DEF SourceInv
<1>10. LoadInv'
  BY <1>1, <1>2 DEF LInv, LoadInv
<1> QED BY <1>6, <1>7, <1>8, <1>9, <1>10 DEF LInv

(* gen_random.pl before checktrace.pl.                                     *)
LEMMA LInvGenerating ==
  ASSUME LInv, InsertFree \/ Generated
  PROVE  LInv'
<1>1. /\ status = "generating" /\ num_blocks' = num_blocks /\ made' = made
      /\ num_ops' = num_ops /\ lines' = lines /\ HASH' = HASH /\ output' = output /\ round' = round
      /\ ops' = ops /\ op_index' = op_index /\ max_index' = max_index /\ beyond' = beyond
  BY DEF InsertFree, Generated, loading
<1>2. /\ "generating" \notin Refused \cup Loading \cup Printed
      /\ "reading" \notin Refused \cup Loading \cup Printed \cup Complaints
      /\ "reading" \notin {"loaded", "assertion failed", "bogus type", "invalid residue", "generating"}
  BY DEF Refused, Complaints, Loading, Printed
<1>3. /\ made = "gen_random" /\ num_ops = 2 * num_blocks /\ num_blocks \in Nat \ {0}
      /\ Partly(input, num_blocks, inserted) /\ inserted \in Nat
      /\ lines = <<>> /\ HASH = Empty /\ round = 1
  BY <1>1 DEF LInv, TypesInv, SourceInv, CheckInv
<1>4. round' # 2
  BY <1>1, <1>3
<1>5. CASE InsertFree
  <2>1. PICK minval : minval = CHOOSE j \in DOMAIN input : input[j] = Req("a", inserted)
    OBVIOUS
  <2>2. /\ inserted < num_blocks /\ inserted' = inserted + 1 /\ status' = status
        /\ \E r \in 0 .. (IF Len(input) - minval = 0 THEN 0 ELSE (Len(input) - minval) - 1) :
             input' = InsertAt(input, minval + 1 + r, Req("f", inserted))
    BY <1>5, <2>1 DEF InsertFree
  <2>3. Len(input) = num_blocks + inserted /\ DOMAIN input = 1 .. Len(input)
    BY <1>3, OnceEachTypes DEF Partly
  <2>4. minval \in 1 .. num_blocks + inserted /\ input[minval] = Req("a", inserted)
    <3>1. inserted \in 0 .. num_blocks - 1
      BY <1>3, <2>2
    <3>2. \E j \in DOMAIN input : input[j] = Req("a", inserted)
      BY <1>3, <2>3, <3>1 DEF Partly
    <3> QED BY <2>1, <2>3, <3>2
  <2>5. PICK r \in 0 .. (IF Len(input) - minval = 0 THEN 0 ELSE (Len(input) - minval) - 1) :
             input' = InsertAt(input, minval + 1 + r, Req("f", inserted))
    BY <2>2
  <2>6. PICK p : p = minval + 1 + r
    OBVIOUS
  <2>7. p \in 1 .. (num_blocks + inserted) + 1 /\ minval \in 1 .. p - 1
    BY <1>3, <2>3, <2>4, <2>5, <2>6
  <2>8. Partly(input', num_blocks, inserted + 1)
    BY <1>3, <2>2, <2>4, <2>5, <2>6, <2>7, PartlyInsert
  <2>9. input' \in Trace /\ inserted + 1 \in Nat
    BY <1>3, <2>8 DEF Partly, OnceEach
  <2>10. TypesInv'
    BY <1>1, <2>2, <2>9 DEF LInv, TypesInv
  <2>11. CheckInv'
    BY <1>1, <1>2, <2>2 DEF LInv, CheckInv
  <2>12. SourceInv'
    BY <1>1, <1>3, <2>2, <2>8 DEF SourceInv
  <2>13. LoadInv'
    BY <1>1, <1>2, <2>2 DEF LInv, LoadInv, Loading
  <2>14. RoundInv'
    BY <1>4 DEF RoundInv
  <2> QED BY <2>10, <2>11, <2>12, <2>13, <2>14 DEF LInv
<1>6. CASE Generated
  <2>1. inserted = num_blocks /\ status' = "reading" /\ input' = input /\ inserted' = inserted
    BY <1>6 DEF Generated
  <2>2. Partly(input, num_blocks, num_blocks) /\ input \in Trace
    BY <1>3, <2>1 DEF Partly, OnceEach
  <2>3. FromGenerator(input)
    BY <1>3, <2>2, PartlyEnds DEF FromGenerator
  <2>4. lines \o input = input
    BY <1>3, <2>2, ConcatEmptySeq DEF Trace
  <2>5. TypesInv'
    BY <1>1, <2>1 DEF LInv, TypesInv
  <2>6. CheckInv'
    BY <1>1, <1>2, <1>3, <2>1, NothingRead DEF CheckInv
  <2>7. SourceInv'
    BY <1>1, <1>2, <2>1, <2>3, <2>4 DEF SourceInv, FromGenerator
  <2>8. LoadInv'
    BY <1>1, <1>2, <2>1 DEF LInv, LoadInv, Loading
  <2>9. RoundInv'
    BY <1>4 DEF RoundInv
  <2> QED BY <2>5, <2>6, <2>7, <2>8, <2>9 DEF LInv
<1> QED BY <1>5, <1>6

-----------------------------------------------------------------------------
(* read_trace leaves alone what checktrace.pl and the generator have made. *)
LEMMA LoadingKeeps ==
  ASSUME LInv, status \in Printed, status' \in Loading, round = 1,
         UNCHANGED <<num_ops, lines, HASH, output, round, made, num_blocks, inserted>>
  PROVE  CheckInv' /\ RoundInv' /\ SourceInv'
<1>1. \A c \in Printed : c \notin Refused \cup {"generating", "reading", "Unbalanced tree"}
  BY DEF Printed, Loading, Refused
<1>2. \A c \in Loading : c \in Printed /\ c \notin Complaints /\ c # "invalid residue"
  BY DEF Printed, Loading, Complaints, Refused
<1>3. num_ops' = num_ops /\ lines' = lines /\ HASH' = HASH /\ output' = output /\ round' = round
      /\ made' = made /\ num_blocks' = num_blocks /\ inserted' = inserted
  OBVIOUS
<1>4. Balanced' = Balanced
  BY <1>3 DEF Balanced, Residue
<1>5. CheckInv'
  BY <1>1, <1>2, <1>3, <1>4 DEF LInv, CheckInv
<1>6. RoundInv'
  <2>1. round' # 2
    BY <1>3
  <2> QED BY <2>1 DEF RoundInv
<1>7. SourceInv'
  BY <1>1, <1>2, <1>3 DEF LInv, SourceInv, FromGenerator
<1> QED BY <1>5, <1>6, <1>7

(* What read_trace reads.                                                  *)
LEMMA OutputOf ==
  ASSUME LInv, status \in Printed
  PROVE  BalancedOf(output)
<1>1. status \notin Refused
  BY DEF Printed, Loading, Refused
<1> QED BY <1>1, BalancedWorks DEF LInv, CheckInv

(* read_trace opens it.                                                    *)
LEMMA LInvOpen ==
  ASSUME LInv, Open
  PROVE  LInv'
<1>1. /\ status = "printed" /\ round = 1 /\ status' = "loading" /\ input' = output.lines
      /\ UNCHANGED <<num_ops, lines, HASH, output, round, made, num_blocks, inserted>>
      /\ ops' = ops /\ op_index' = op_index /\ max_index' = max_index /\ beyond' = beyond
  BY DEF Open, loading
<1>2. status \in Printed /\ status' \in Loading /\ status \notin Loading
      /\ status' \notin {"loaded", "assertion failed", "bogus type"}
  BY <1>1 DEF Printed, Loading
<1>3. CheckInv' /\ RoundInv' /\ SourceInv'
  BY <1>1, <1>2, LoadingKeeps
<1>4. output.lines \in Trace /\ Len(output.lines) \in Nat
  BY <1>2, OutputOf DEF BalancedOf
<1>5. ops = <<>> /\ op_index = 0 /\ max_index = 0 /\ beyond = FALSE
  BY <1>2 DEF LInv, LoadInv
<1>6. <<>> \in Trace /\ Len(<<>>) = 0
  BY NothingRead, EmptySeq
<1>7. TypesInv'
  BY <1>1, <1>2, <1>4, <1>5 DEF LInv, TypesInv
<1>8. LoadInv'
  <2>1. \A j \in 1 .. Len(input') : input'[j] = output'.lines[op_index' + j]
    BY <1>1, <1>4, <1>5
  <2>2. op_index' + Len(input') = Len(output'.lines)
    BY <1>1, <1>4, <1>5
  <2>3. ops' = <<>> /\ op_index' = 0 /\ max_index' = 0 /\ beyond' = FALSE /\ round' = 1
    BY <1>1, <1>5
  <2>4. status' # "loaded" /\ status' # "assertion failed" /\ status' # "bogus type"
    BY <1>2
  <2>5. ops' \in Trace /\ Len(ops') = 0
    BY <1>6, <2>3
  <2>6. \A j \in 1 .. 0 : FALSE
    OBVIOUS
  <2>7. Len(ops') <= op_index' /\ (~beyond' => Len(ops') = op_index')
        /\ 1 .. Len(ops') = 1 .. 0 /\ 1 .. op_index' = 1 .. 0
    BY <2>3, <2>5
  <2> QED BY <1>2, <2>1, <2>2, <2>3, <2>4, <2>5, <2>6, <2>7 DEF LoadInv
<1> QED BY <1>3, <1>7, <1>8 DEF LInv

(* One more line is read.                                                  *)
LEMMA LInvReadLine ==
  ASSUME LInv, ReadLine
  PROVE  LInv'
<1>1. /\ status = "loading" /\ input # <<>> /\ status' = status
      /\ input' = Tail(input) /\ op_index' = op_index + 1
      /\ UNCHANGED <<num_ops, lines, HASH, output, round, made, num_blocks, inserted>>
      /\ output' = output
  BY DEF ReadLine
<1>2. status \in Printed /\ status \in Loading
      /\ status \notin {"loaded", "assertion failed", "bogus type"}
  BY <1>1 DEF Printed, Loading
<1>3. round = 1 /\ op_index \in Nat /\ max_index \in Nat /\ input \in Trace /\ ops \in Trace
      /\ beyond \in BOOLEAN
  BY <1>2 DEF LInv, LoadInv, TypesInv
<1>4. CheckInv' /\ RoundInv' /\ SourceInv'
  BY <1>1, <1>2, <1>3, LoadingKeeps
<1>5. PICK out, n, e : out = output.lines /\ n = op_index + 1 /\ e = Head(input)
  OBVIOUS
<1>6. /\ out \in Trace /\ Len(out) \in Nat /\ output.num_ops \in Int
  BY <1>2, <1>5, OutputOf DEF BalancedOf
<1>7. /\ e \in Request /\ Tail(input) \in Trace /\ e = input[1]
      /\ Len(Tail(input)) = Len(input) - 1 /\ Len(input) \in Nat \ {0}
      /\ \A j \in 1 .. Len(Tail(input)) : Tail(input)[j] = input[j + 1]
  BY <1>1, <1>3, <1>5, OneLine
<1>8. /\ op_index + Len(input) = Len(out)
      /\ \A j \in 1 .. Len(input) : input[j] = out[op_index + j]
      /\ Len(ops) <= op_index
      /\ \A j \in 1 .. Len(ops) : ops[j] = out[j]
      /\ ~beyond => Len(ops) = op_index
      /\ beyond => op_index > output.num_ops
      /\ \A j \in 1 .. op_index : out[j].cmd # "f" => out[j].id <= max_index
      /\ max_index = 0 \/ \E j \in 1 .. op_index : /\ out[j].cmd # "f" /\ out[j].id = max_index
  BY <1>2, <1>5 DEF LInv, LoadInv
<1>9. n \in Nat /\ n \in 1 .. Len(out) /\ out[n] = e /\ e.id \in Nat
  <2>1. n \in Nat /\ n \in 1 .. Len(out) /\ 1 \in 1 .. Len(input)
    BY <1>3, <1>5, <1>6, <1>7, <1>8
  <2>2. out[n] = e
    BY <1>5, <1>7, <1>8, <2>1
  <2> QED BY <1>7, <2>1, <2>2 DEF Request
<1>10. n + Len(input') = Len(out) /\ \A j \in 1 .. Len(input') : input'[j] = out[n + j]
  <2>1. n + Len(input') = Len(out)
    <3>1. PICK l, m : l = Len(input) /\ m = Len(input')
      OBVIOUS
    <3>2. l \in Nat /\ m = l - 1
      BY <1>1, <1>7, <3>1
    <3>3. op_index + l = Len(out) /\ op_index \in Nat
      BY <1>3, <1>8, <3>1
    <3> QED BY <1>5, <1>6, <3>1, <3>2, <3>3
  <2>2. ASSUME NEW j \in 1 .. Len(input') PROVE input'[j] = out[n + j]
    <3>1. j + 1 \in 1 .. Len(input) /\ op_index + (j + 1) = n + j
      BY <1>1, <1>3, <1>5, <1>7
    <3>2. input'[j] = input[j + 1]
      BY <1>1, <1>7
    <3>3. input[j + 1] = out[op_index + (j + 1)]
      BY <1>8, <3>1
    <3> QED BY <3>1, <3>2, <3>3
  <2> QED BY <2>1, <2>2
<1>11. /\ ops' \in Trace /\ Len(ops') <= n /\ beyond' \in BOOLEAN
       /\ \A j \in 1 .. Len(ops') : ops'[j] = out[j]
       /\ ~beyond' => Len(ops') = n
       /\ beyond' => n > output.num_ops
  <2>0. Len(ops) \in Nat
    BY <1>3, LenProperties DEF Trace
  <2>1. CASE op_index < output.num_ops
    <3>1. ops' = Append(ops, e) /\ beyond' = beyond
      BY <1>5, <2>1 DEF ReadLine, Store
    <3>2. ~beyond /\ Len(ops) = op_index
      BY <1>3, <1>6, <1>8, <2>1
    <3>3. /\ Append(ops, e) \in Trace /\ Len(Append(ops, e)) = Len(ops) + 1
          /\ Agree(ops, Append(ops, e), Len(ops)) /\ Append(ops, e)[Len(ops) + 1] = e
      BY <1>3, <1>7, AppendAgrees
    <3>4. ops' \in Trace /\ Len(ops') = n
      BY <1>5, <3>1, <3>2, <3>3
    <3>5. ASSUME NEW j \in 1 .. n PROVE ops'[j] = out[j]
      <4>1. CASE j = n
        BY <1>5, <1>9, <3>1, <3>2, <3>3, <4>1
      <4>2. CASE j # n
        <5>1. j \in 1 .. Len(ops)
          BY <1>3, <1>5, <3>2, <4>2
        <5> QED BY <1>8, <3>1, <3>3, <5>1 DEF Agree
      <4> QED BY <4>1, <4>2
    <3>6. n <= n /\ beyond' = FALSE
      BY <1>3, <1>9, <3>1, <3>2
    <3>7. \A j \in 1 .. Len(ops') : ops'[j] = out[j]
      BY <3>4, <3>5
    <3>8. Len(ops') <= n /\ beyond' \in BOOLEAN
      BY <3>4, <3>6
    <3> QED BY <3>4, <3>6, <3>7, <3>8
  <2>2. CASE ~(op_index < output.num_ops)
    <3>1. ops' = ops /\ beyond' = TRUE
      BY <2>2 DEF ReadLine, Store
    <3>2. n > output.num_ops /\ Len(ops) <= n
      BY <1>3, <1>5, <1>6, <1>8, <2>0, <2>2
    <3> QED BY <1>3, <1>8, <3>1, <3>2
  <2> QED BY <2>1, <2>2
<1>12. /\ max_index' \in Nat /\ max_index <= max_index'
       /\ e.cmd # "f" => e.id <= max_index'
       /\ max_index' = max_index \/ (e.cmd # "f" /\ max_index' = e.id)
  <2>1. max_index' = IF e.cmd # "f" /\ e.id > max_index THEN e.id ELSE max_index
    BY <1>5 DEF ReadLine
  <2>2. CASE e.cmd # "f" /\ e.id > max_index
    BY <1>3, <1>9, <2>1, <2>2
  <2>3. CASE ~(e.cmd # "f" /\ e.id > max_index)
    BY <1>3, <1>9, <2>1, <2>3
  <2> QED BY <2>2, <2>3
<1>13. \A j \in 1 .. n : out[j].cmd # "f" => out[j].id <= max_index'
  <2>1. SUFFICES ASSUME NEW j \in 1 .. n, out[j].cmd # "f" PROVE out[j].id <= max_index'
    OBVIOUS
  <2>2. CASE j = n
    BY <1>9, <1>12, <2>1, <2>2
  <2>3. CASE j # n
    <3>1. j \in 1 .. op_index /\ j \in 1 .. Len(out)
      BY <1>3, <1>5, <1>9, <2>3
    <3>2. out[j].id <= max_index /\ out[j].id \in Nat
      <4>1. out[j] \in Request
        BY <1>6, <3>1, ElementOfSeq DEF Trace
      <4> QED BY <1>8, <2>1, <3>1, <4>1 DEF Request
    <3> QED BY <1>3, <1>12, <3>2
  <2> QED BY <2>2, <2>3
<1>14. max_index' = 0 \/ \E j \in 1 .. n : out[j].cmd # "f" /\ out[j].id = max_index'
  <2>1. CASE max_index' = max_index /\ max_index # 0
    <3>1. PICK j \in 1 .. op_index : out[j].cmd # "f" /\ out[j].id = max_index
      BY <1>8, <2>1
    <3>2. j \in 1 .. n
      BY <1>3, <1>5
    <3> QED BY <2>1, <3>1, <3>2
  <2>2. CASE e.cmd # "f" /\ max_index' = e.id
    <3>1. n \in 1 .. n
      BY <1>9
    <3> QED BY <1>9, <2>2, <3>1
  <2> QED BY <1>12, <2>1, <2>2
<1>15. TypesInv'
  BY <1>1, <1>5, <1>7, <1>9, <1>11, <1>12 DEF LInv, TypesInv
<1>16. op_index' = n /\ output'.lines = out /\ round' = 1
       /\ output'.num_ops = output.num_ops
  BY <1>1, <1>3, <1>5
<1>17. status' \in Loading /\ status' # "loaded" /\ status' # "assertion failed"
       /\ status' # "bogus type"
  BY <1>1, <1>2
<1>18. LoadInv'
  BY <1>10, <1>11, <1>13, <1>14, <1>16, <1>17 DEF LoadInv
<1> QED BY <1>4, <1>15, <1>18 DEF LInv

(* The other two ways to leave the loop.                                   *)
LEMMA LInvLeaves ==
  ASSUME LInv, Bogus \/ LoadEnd
  PROVE  LInv'
<1>1. /\ status = "loading" /\ status' \in {"bogus type", "loaded", "assertion failed"}
      /\ input' = input
      /\ UNCHANGED <<num_ops, lines, HASH, output, round, made, num_blocks, inserted>>
      /\ ops' = ops /\ op_index' = op_index /\ max_index' = max_index /\ beyond' = beyond
  BY DEF Bogus, LoadEnd, loading
<1>2. status \in Printed /\ status \in Loading /\ status' \in Loading
  BY <1>1 DEF Printed, Loading
<1>3. round = 1 /\ input \in Trace
  BY <1>2 DEF LInv, LoadInv, TypesInv
<1>4. CheckInv' /\ RoundInv' /\ SourceInv'
  BY <1>1, <1>2, <1>3, LoadingKeeps
<1>5. TypesInv'
  BY <1>1, <1>2 DEF LInv, TypesInv
<1>6. status' \in {"loaded", "assertion failed"} => input = <<>>
  BY DEF Bogus, LoadEnd
<1>7. status' = "loaded" <=> status' \in {"loaded", "assertion failed"}
                             /\ max_index = num_blocks - 1 /\ output.num_ops = op_index
  <2>1. CASE Bogus
    BY <2>1 DEF Bogus
  <2>2. CASE LoadEnd
    <3>1. CASE max_index = num_blocks - 1 /\ output.num_ops = op_index
      BY <2>2, <3>1 DEF LoadEnd
    <3>2. CASE ~(max_index = num_blocks - 1 /\ output.num_ops = op_index)
      <4>1. status' = "assertion failed"
        BY <2>2, <3>2 DEF LoadEnd
      <4> QED BY <3>2, <4>1
    <3> QED BY <3>1, <3>2
  <2> QED BY <2>1, <2>2
<1>8. status' = "bogus type" => ~NoOther(output.lines)
  <2>1. SUFFICES ASSUME Bogus PROVE ~NoOther(output.lines)
    BY DEF LoadEnd
  <2>2. input # <<>> /\ Head(input).cmd = "x"
    BY <2>1 DEF Bogus
  <2>3. /\ op_index + Len(input) = Len(output.lines)
        /\ \A j \in 1 .. Len(input) : input[j] = output.lines[op_index + j]
        /\ op_index \in Nat
    BY <1>2 DEF LInv, LoadInv, TypesInv
  <2>4. Len(input) \in Nat \ {0} /\ Head(input) = input[1]
    BY <1>3, <2>2, OneLine
  <2>5. op_index + 1 \in 1 .. Len(output.lines) /\ 1 \in 1 .. Len(input)
    BY <2>3, <2>4
  <2>6. output.lines[op_index + 1].cmd = "x"
    BY <2>2, <2>3, <2>4, <2>5
  <2>7. DOMAIN output.lines = 1 .. Len(output.lines)
    BY <1>2, OutputOf, LenProperties DEF BalancedOf, Trace
  <2> QED BY <2>5, <2>6, <2>7 DEF NoOther
<1>9. LoadInv'
  BY <1>1, <1>2, <1>6, <1>7, <1>8 DEF LInv, LoadInv
<1> QED BY <1>4, <1>5, <1>9 DEF LInv

(* No step breaks it.                                                      *)
LEMMA LInvNext == LInv /\ [TNext]_tvars => LInv'
<1> SUFFICES ASSUME LInv, [TNext]_tvars PROVE LInv'
  OBVIOUS
<1>1. CASE Next /\ UNCHANGED <<made, num_blocks, inserted, loading>>
  BY <1>1, LInvLine, LInvOutput, LInvRunAgain DEF Next
<1>2. CASE InsertFree \/ Generated
  BY <1>2, LInvGenerating
<1>3. CASE Open
  BY <1>3, LInvOpen
<1>4. CASE ReadLine
  BY <1>4, LInvReadLine
<1>5. CASE Bogus \/ LoadEnd
  BY <1>5, LInvLeaves
<1>6. CASE UNCHANGED tvars
  <2>1. /\ input' = input /\ num_ops' = num_ops /\ lines' = lines /\ HASH' = HASH
        /\ output' = output /\ round' = round /\ status' = status
        /\ num_blocks' = num_blocks /\ made' = made /\ inserted' = inserted
        /\ ops' = ops /\ op_index' = op_index /\ max_index' = max_index /\ beyond' = beyond
    BY <1>6 DEF tvars, vars, loading
  <2>2. TypesInv' /\ RoundInv'
    BY <2>1 DEF LInv, TypesInv, RoundInv
  <2>3. CheckInv'
    BY <2>1 DEF LInv, CheckInv, Balanced, Residue
  <2>4. SourceInv'
    BY <2>1 DEF LInv, SourceInv, FromGenerator
  <2>5. LoadInv'
    BY <2>1 DEF LInv, LoadInv
  <2> QED BY <2>2, <2>3, <2>4, <2>5 DEF LInv
<1> QED BY <1>1, <1>2, <1>3, <1>4, <1>5, <1>6 DEF TNext

(* What holds on a trace's way in every state: the tally is that of the    *)
(* lines read, the second run reads a settled trace, what a script has     *)
(* generated stays that, and read_trace stores what it reads.              *)
THEOREM TraceInvariance == TSpec => []LInv
<1> QED BY LInvInit, LInvNext, PTL DEF TSpec

-----------------------------------------------------------------------------
(* A trace of a, r and f requests passes the checker if it is legal and is *)
(* refused if it is not: the tally and the order of the checks decide what *)
(* the definition over whole traces says (checktrace.pl, the loop).        *)
THEOREM LegalTracesPass == TSpec => []PrintsTheLegal
<1>1. ASSUME LInv PROVE PrintsTheLegal
  <2>1. SUFFICES ASSUME NoOther(lines)
                 PROVE  /\ status \in Passed => Legal(lines)
                        /\ status \in Refused => ~Legal(lines)
    BY DEF PrintsTheLegal, NoOther
  <2>2. lines \in Trace /\ (Legal(lines) <=> Accepted(lines))
    BY <1>1, <2>1, LegalIsAccepted DEF LInv, TypesInv
  <2>3. ASSUME status \in Passed PROVE Accepted(lines)
    <3>1. status \notin Refused
      BY <2>3 DEF Passed, Refused
    <3> QED BY <1>1, <3>1 DEF LInv, CheckInv
  <2>4. ASSUME status \in Refused PROVE ~Accepted(lines)
    <3>1. status \in Complaints \/ status = "invalid residue"
      BY <2>4 DEF Complaints
    <3> QED BY <1>1, <2>1, <3>1 DEF LInv, CheckInv
  <2> QED BY <2>2, <2>3, <2>4
<1> QED BY <1>1, TraceInvariance, PTL

(* The output of a trace without foreign words has none.                   *)
LEMMA OutputHasNoOther ==
  ASSUME LInv, status \in Printed, NoOther(lines)
  PROVE  NoOther(output.lines)
<1>1. BalancedOf(output) /\ lines \in Trace
  BY OutputOf DEF LInv, TypesInv
<1>2. PICK n, m, b : n = Len(lines) /\ b = output.lines /\ m = Len(b)
  OBVIOUS
<1>3. /\ n \in Nat /\ m \in Nat /\ DOMAIN lines = 1 .. n /\ DOMAIN b = 1 .. m
      /\ \A k \in 1 .. n : b[k] = lines[k]
      /\ \A k \in n + 1 .. m : b[k].cmd = "f"
  BY <1>1, <1>2, LenProperties DEF BalancedOf, Agree, Trace
<1>4. ASSUME NEW k \in 1 .. m PROVE b[k].cmd # "x"
  <2>1. CASE k <= n
    BY <1>3, <2>1 DEF NoOther
  <2>2. CASE ~(k <= n)
    <3>1. k \in n + 1 .. m
      BY <1>3, <2>2
    <3> QED BY <1>3, <3>1
  <2> QED BY <2>1, <2>2
<1> QED BY <1>2, <1>3, <1>4 DEF NoOther

(* What is printed is legal, leaves nothing allocated, begins with the     *)
(* lines read and announces as many requests as it has if they did         *)
(* (checktrace.pl, the output).                                            *)
THEOREM OutputBalances == TSpec => []OutputIsBalanced
<1>1. ASSUME LInv PROVE OutputIsBalanced
  <2>1. SUFFICES ASSUME status = "printed", NoOther(lines)
        PROVE  /\ Legal(output.lines)
               /\ \A l \in {output.lines[j] : j \in DOMAIN output.lines} :
                     ~Allocated(output.lines, Len(output.lines) + 1, l.id)
               /\ IsPrefix(lines, output.lines)
               /\ output.num_ops - Len(output.lines) = num_ops - Len(lines)
    BY DEF OutputIsBalanced, NoOther
  <2>2. status \in Printed
    BY <2>1 DEF Printed
  <2>3. BalancedOf(output) /\ NoOther(output.lines) /\ lines \in Trace
    BY <1>1, <2>1, <2>2, OutputOf, OutputHasNoOther DEF LInv, TypesInv
  <2>4. PICK b, n : b = output.lines /\ n = Len(lines)
    OBVIOUS
  <2>5. /\ b \in Trace /\ Len(b) \in Nat /\ DOMAIN b = 1 .. Len(b) /\ n \in Nat /\ n <= Len(b)
        /\ Accepted(b) /\ Settled(b) /\ Agree(lines, b, n)
    BY <2>3, <2>4, LenProperties DEF BalancedOf, Trace
  <2>6. Legal(b)
    BY <2>3, <2>4, <2>5, LegalIsAccepted
  <2>7. ASSUME NEW j \in DOMAIN b PROVE ~Allocated(b, Len(b) + 1, b[j].id)
    <3>1. b[j] \in Request
      BY <2>5, ElementOfSeq DEF Trace
    <3>2. PICK id \in Nat : id = b[j].id
      BY <3>1 DEF Request
    <3>3. SUFFICES ASSUME Allocated(b, AtEndOf(b), id) PROVE FALSE
      BY <3>2 DEF AtEndOf
    <3>4. PICK i \in 1 .. AtEndOf(b) - 1 :
             /\ b[i] = [cmd |-> "a", id |-> id]
             /\ \A k \in i + 1 .. AtEndOf(b) - 1 : b[k].id = id => b[k].cmd = "r"
      BY <3>3 DEF Allocated
    <3>5. b[i].cmd = "a" /\ b[i].id = id
      BY <3>4
    <3>6. Entered(b, AtEndOf(b), id, "a")
      BY <3>4, <3>5 DEF Entered
    <3> QED BY <2>5, <3>6 DEF Settled, Outstanding
  <2>8. IsPrefix(lines, b)
    <3>1. SubSeq(lines, 1, n) = SubSeq(b, 1, n)
      <4>1. PICK s, t : s = SubSeq(lines, 1, n) /\ t = SubSeq(b, 1, n)
        OBVIOUS
      <4>2. /\ s \in Trace /\ Len(s) = n /\ \A k \in 1 .. n : s[k] = lines[k]
            /\ t \in Trace /\ Len(t) = n /\ \A k \in 1 .. n : t[k] = b[k]
        BY <2>3, <2>4, <2>5, <4>1 DEF Trace
      <4>3. \A k \in 1 .. n : s[k] = t[k]
        BY <2>5, <4>2 DEF Agree
      <4>4. s = t
        BY <4>2, <4>3, SeqEqual DEF Trace
      <4> QED BY <4>1, <4>4
    <3> QED BY <2>4, <2>5, <3>1 DEF IsPrefix
  <2> QED BY <2>3, <2>4, <2>6, <2>7, <2>8 DEF BalancedOf
<1> QED BY <1>1, TraceInvariance, PTL

(* The checker accepts what it has printed and adds nothing to it.         *)
THEOREM OutputIsAFixedPoint == TSpec => []OutputIsFixed
<1>1. ASSUME LInv PROVE OutputIsFixed
  BY <1>1 DEF LInv, RoundInv, OutputIsFixed
<1> QED BY <1>1, TraceInvariance, PTL

-----------------------------------------------------------------------------
(* Behind the last line of a legal trace max_index is its largest id: what *)
(* is freed has been allocated before.                                     *)
LEMMA MaxIndexIsLargest ==
  ASSUME LInv, status \in Loading, input = <<>>, Legal(output.lines)
  PROVE  /\ output.lines \in Trace /\ Len(output.lines) \in Nat
         /\ DOMAIN output.lines = 1 .. Len(output.lines)
         /\ op_index = Len(output.lines)
         /\ \A j \in 1 .. Len(output.lines) :
               output.lines[j].id \in Nat /\ output.lines[j].id <= max_index
<1>1. PICK b, n : b = output.lines /\ n = Len(b)
  OBVIOUS
<1>2. b \in Trace /\ n \in Nat /\ DOMAIN b = 1 .. n /\ \A j \in 1 .. n : b[j] \in Request
  <2>1. status \in Printed
    BY DEF Printed
  <2> QED BY <1>1, <2>1, OutputOf, LenProperties, ElementOfSeq DEF BalancedOf, Trace
<1>3. op_index = n /\ \A j \in 1 .. n : b[j].cmd # "f" => b[j].id <= max_index
  <2>1. op_index + Len(input) = n /\ op_index \in Nat /\ Len(input) = 0
    BY <1>1, EmptySeq DEF LInv, LoadInv, TypesInv
  <2>2. op_index = n
    BY <2>1
  <2> QED BY <1>1, <2>2 DEF LInv, LoadInv
<1>4. ASSUME NEW j \in 1 .. n PROVE b[j].id \in Nat /\ b[j].id <= max_index
  <2>1. b[j].id \in Nat
    BY <1>2 DEF Request
  <2>2. SUFFICES ASSUME b[j].cmd = "f" PROVE b[j].id <= max_index
    BY <1>3, <2>1
  <2>3. Allocated(b, j, b[j].id)
    BY <1>1, <1>2, <2>2 DEF Legal
  <2>4. PICK i \in 1 .. j - 1 : b[i] = [cmd |-> "a", id |-> b[j].id]
    BY <2>3 DEF Allocated
  <2>5. i \in 1 .. n /\ b[i].cmd # "f" /\ b[i].id = b[j].id
    BY <1>2, <2>4
  <2> QED BY <1>3, <2>5
<1> QED BY <1>1, <1>2, <1>3, <1>4

(* A legal trace is read exactly when its header is right; then ops is     *)
(* what was printed, nothing was stored behind its end, and every id is    *)
(* within the arrays, those of the frees too, which are never compared     *)
(* (mdriver.c, read_trace).                                                *)
THEOREM LoadedAsPrinted == TSpec => []ReadsWhatIsPrinted
<1>1. ASSUME LInv PROVE ReadsWhatIsPrinted
  <2>1. PICK b, n, ids : /\ b = output.lines /\ n = Len(b)
                         /\ ids = {output.lines[j].id : j \in DOMAIN output.lines}
    OBVIOUS
  <2>2. SUFFICES ASSUME Legal(b), status \in {"loaded", "assertion failed"}
        PROVE  /\ status = "loaded" => /\ ops = b /\ ~beyond
                                       /\ \A id \in ids : id < num_blocks
               /\ status = "assertion failed" =>
                    \/ output.num_ops # n
                    \/ num_blocks = 0 \/ num_blocks - 1 \notin ids \cup {0}
                    \/ \E id \in ids : id >= num_blocks
    BY <2>1 DEF ReadsWhatIsPrinted
  <2>3. status \in Loading /\ input = <<>>
    BY <1>1, <2>2 DEF Loading, LInv, LoadInv
  <2>4. /\ b \in Trace /\ n \in Nat /\ DOMAIN b = 1 .. n /\ op_index = n
        /\ \A j \in 1 .. n : b[j].id \in Nat /\ b[j].id <= max_index
    BY <1>1, <2>1, <2>2, <2>3, MaxIndexIsLargest
  <2>5. \A id \in ids : id \in Nat /\ id <= max_index
    BY <2>1, <2>4
  <2>6. max_index \in Nat /\ num_blocks \in Nat /\ max_index \in ids \cup {0}
    <3>1. max_index = 0 \/ \E j \in 1 .. n : b[j].id = max_index
      BY <1>1, <2>1, <2>3, <2>4 DEF LInv, LoadInv
    <3>2. max_index \in ids \cup {0}
      BY <2>1, <2>4, <3>1
    <3> QED BY <1>1, <3>2 DEF LInv, TypesInv
  <2>7. CASE status = "loaded"
    <3>1. max_index = num_blocks - 1 /\ output.num_ops = n
      BY <1>1, <2>4, <2>7 DEF LInv, LoadInv
    <3>2. ~beyond
      <4>1. beyond => op_index > output.num_ops
        BY <1>1, <2>3 DEF LInv, LoadInv
      <4> QED BY <2>4, <3>1, <4>1
    <3>3. ops \in Trace /\ Len(ops) = n /\ \A j \in 1 .. n : ops[j] = b[j]
      <4>1. /\ ops \in Trace /\ (~beyond => Len(ops) = op_index)
            /\ \A j \in 1 .. Len(ops) : ops[j] = b[j]
        BY <1>1, <2>1, <2>3 DEF LInv, LoadInv
      <4> QED BY <2>4, <3>2, <4>1
    <3>4. ops = b
      BY <2>1, <2>4, <3>3, SeqEqual DEF Trace
    <3>5. \A id \in ids : id < num_blocks
      BY <2>5, <2>6, <3>1
    <3> QED BY <2>7, <3>2, <3>4, <3>5
  <2>8. CASE status = "assertion failed"
    <3>1. SUFFICES ASSUME output.num_ops = n, num_blocks # 0, num_blocks - 1 \in ids \cup {0},
                          \A id \in ids : ~(id >= num_blocks)
                   PROVE  FALSE
      BY <2>8
    <3>2. max_index # num_blocks - 1
      BY <1>1, <2>4, <2>8, <3>1 DEF LInv, LoadInv
    <3>3. max_index < num_blocks
      BY <2>5, <2>6, <3>1
    <3>4. num_blocks - 1 \in ids
      BY <2>6, <3>1, <3>2, <3>3
    <3> QED BY <2>5, <2>6, <3>2, <3>3, <3>4
  <2> QED BY <2>2, <2>7, <2>8
<1> QED BY <1>1, TraceInvariance, PTL

(* Behind the last line of what a script has generated max_index is that   *)
(* of the header.                                                          *)
LEMMA GeneratedIsLoaded ==
  ASSUME LInv, status \in Loading, FromGenerator(lines)
  PROVE  /\ ~beyond /\ status # "bogus type"
         /\ status # "assertion failed"
<1>1. PICK b, n, m : b = output.lines /\ n = Len(lines) /\ m = Len(b)
  OBVIOUS
<1>2. status \in Printed
  BY DEF Printed
<1>3. /\ OnceEach(lines) /\ n = num_ops
      /\ \A k \in 1 .. n : lines[k].id < num_blocks
      /\ \E k \in 1 .. n : lines[k].cmd = "a" /\ lines[k].id = num_blocks - 1
      /\ lines \in Trace /\ NoOther(lines)
  BY <1>1 DEF FromGenerator, Generates, OnceEach
<1>4. /\ n \in Nat /\ m \in Nat /\ n <= m /\ output.num_ops \in Int
      /\ output.num_ops - m = num_ops - n
      /\ \A k \in 1 .. n : b[k] = lines[k]
      /\ \A k \in n + 1 .. m : b[k].cmd = "f"
  BY <1>1, <1>2, OutputOf DEF BalancedOf, Agree
<1>5. output.num_ops = m
  BY <1>3, <1>4
<1>6. /\ op_index + Len(input) = m /\ op_index \in Nat /\ Len(input) \in Nat
      /\ beyond => op_index > output.num_ops
  <2>1. input \in Trace /\ op_index \in Nat
    BY DEF LInv, TypesInv
  <2>2. Len(input) \in Nat
    BY <2>1, LenProperties DEF Trace
  <2> QED BY <1>1, <2>1, <2>2 DEF LInv, LoadInv
<1>7. ~beyond
  BY <1>4, <1>5, <1>6
<1>8. status # "bogus type"
  BY <1>2, <1>3, OutputHasNoOther DEF LInv, LoadInv
<1>9. status # "assertion failed"
  <2>1. SUFFICES ASSUME status = "assertion failed" PROVE FALSE
    OBVIOUS
  <2>2. input = <<>> /\ (op_index = output.num_ops => max_index # num_blocks - 1)
    BY <2>1 DEF LInv, LoadInv
  <2>3. Len(input) = 0
    BY <2>2, EmptySeq
  <2>4. op_index = m /\ max_index # num_blocks - 1
    BY <1>5, <1>6, <2>2, <2>3
  <2>5. /\ max_index \in Nat /\ num_blocks \in Nat
        /\ \A j \in 1 .. m : b[j].cmd # "f" => b[j].id <= max_index
        /\ max_index = 0 \/ \E j \in 1 .. m : b[j].cmd # "f" /\ b[j].id = max_index
    BY <1>1, <2>4 DEF LInv, TypesInv, LoadInv
  <2>6. PICK k \in 1 .. n : lines[k].cmd = "a" /\ lines[k].id = num_blocks - 1
    BY <1>3
  <2>7. k \in 1 .. m /\ b[k].cmd = "a" /\ b[k].id = num_blocks - 1
    BY <1>4, <2>6
  <2>8. num_blocks - 1 <= max_index
    BY <2>5, <2>7
  <2>9. num_blocks - 1 \in Nat
    <3>1. lines[k] \in Request
      BY <1>1, <1>3, ElementOfSeq DEF Trace
    <3> QED BY <2>6, <3>1 DEF Request
  <2>10. max_index # 0
    BY <2>4, <2>5, <2>8, <2>9
  <2>11. PICK j \in 1 .. m : b[j].cmd # "f" /\ b[j].id = max_index
    BY <2>5, <2>10
  <2>12. j \in 1 .. n
    <3>1. ~(j \in n + 1 .. m)
      BY <1>4, <2>11
    <3> QED BY <1>4, <3>1
  <2>13. max_index < num_blocks
    BY <1>3, <1>4, <2>11, <2>12
  <2> QED BY <2>4, <2>5, <2>8, <2>13
<1> QED BY <1>7, <1>8, <1>9

(* What the scripts generate, for every number of iterations and every     *)
(* order of the insertions of gen_random.pl, passes the checker and is     *)
(* read without a failed assert; what they free themselves leaves nothing  *)
(* to be added (traces/gen_*.pl).                                          *)
THEOREM GeneratorsWork == TSpec => []GeneratedTracesWork
<1>1. ASSUME LInv PROVE GeneratedTracesWork
  <2>1. SUFFICES ASSUME made # "hand"
        PROVE  /\ status \in Passed \cup {"generating", "reading", "loading", "loaded"}
               /\ made \in {"gen_coalescing", "gen_realloc", "gen_random"} =>
                    status # "Unbalanced tree"
               /\ ~beyond
    BY DEF GeneratedTracesWork
  <2>2. CASE status \in {"generating", "reading"}
    <3>1. status \notin Loading
      BY <2>2 DEF Loading
    <3> QED BY <1>1, <2>2, <3>1 DEF LInv, LoadInv
  <2>3. CASE round = 2
    <3>1. status \in {"reading", "printed", "Balanced trace"}
      BY <1>1, <2>3 DEF LInv, RoundInv
    <3>2. status \notin Loading
      BY <3>1 DEF Loading
    <3> QED BY <1>1, <3>1, <3>2 DEF LInv, LoadInv, Passed
  <2>4. CASE round = 1 /\ status \notin {"generating", "reading"}
    <3>1. FromGenerator(lines) /\ status \notin Refused
      BY <1>1, <2>1, <2>4 DEF LInv, SourceInv
    <3>2. status \in Loading => status \in {"loading", "loaded"} /\ ~beyond
      BY <1>1, <3>1, GeneratedIsLoaded DEF Loading
    <3>3. status \notin Loading => status \in Passed /\ ~beyond
      BY <1>1, <2>4, <3>1 DEF LInv, TypesInv, LoadInv
    <3>4. ASSUME made # "gen_binary" PROVE status # "Unbalanced tree"
      <4>1. Settled(lines)
        BY <3>1, <3>4, AllFreedSettled DEF FromGenerator, Generates
      <4>2. HASH = Empty
        BY <1>1, <3>1, <4>1, BalancedWorks DEF LInv, BalancedOf
      <4> QED BY <1>1, <4>2 DEF LInv, CheckInv
    <3> QED BY <3>2, <3>3, <3>4
  <2>5. round \in {1, 2}
    BY <1>1 DEF LInv, TypesInv
  <2> QED BY <2>2, <2>3, <2>4, <2>5
<1> QED BY <1>1, TraceInvariance, PTL

=============================================================================
