--------------------------- MODULE MDriver_proofs ---------------------------
(***************************************************************************)
(* The main loop, for any number of traces, any traces, any arena: a trace *)
(* is counted as valid in mm_stats or as an error, exactly once, on every  *)
(* way through the loop; eval_mm_util and eval_mm_speed get the answers    *)
(* that eval_mm_valid has checked; the utilisation that is reported counts *)
(* the payloads and is below 1; and the blocks stay side by side.          *)
(***************************************************************************)
EXTENDS MDriver, EvalValid_proofs, FiniteSetTheorems, SequenceTheorems

ValidRows == {k \in DOMAIN stats : stats[k].valid}

(* mm_stats has a row for each of n traces; the errors are the rows that   *)
(* are not valid, and open ones that have no row yet.                      *)
Booked(n, open) ==
    /\ \E S : stats \in Seq(S)
    /\ Len(stats) = n
    /\ IsFiniteSet(ValidRows)
    /\ errors = n - NumCorrect + open

Rejected == status \notin {"idle", "running", "valid"}

(* The phases of one turn of the loop, and what is on the books in each.   *)
BInv ==
    /\ tracenum \in 0 .. NumTraces /\ errors \in Nat
    /\ phase = "read" => status = "idle" /\ Booked(tracenum, 0)
    /\ phase = "valid" =>
         /\ tracenum < NumTraces
         /\ \/ status = "running" /\ Booked(tracenum, 0)
            \/ Rejected /\ Booked(tracenum, 1)
    /\ phase \in {"util init", "util"} =>
         status = "valid" /\ tracenum < NumTraces /\ Booked(tracenum, 0)
    /\ phase \in {"speed init", "speed", "free trace"} =>
         /\ status \notin {"idle", "running"} /\ tracenum < NumTraces
         /\ Booked(tracenum + 1, 0)
    /\ phase = "done" =>
         /\ Booked(NumTraces, 0)
         /\ index = IF errors = 0 THEN "index" ELSE "errors"

(* What the counters are.                                                  *)
LEMMA BookTypes ==
    ASSUME BInv
    PROVE  /\ tracenum \in 0 .. NumTraces /\ tracenum \in Nat
           /\ NumTraces \in Nat /\ errors \in Nat
<1>1. tracenum \in 0 .. NumTraces /\ errors \in Nat
    BY DEF BInv
<1>2. NumTraces \in Nat
    BY DriverAssumption
<1> QED BY <1>1, <1>2

-----------------------------------------------------------------------------
(* A row appended to a sequence, over whatever set the rows were.          *)
LEMMA AppendFacts ==
    ASSUME NEW S, NEW s \in Seq(S), NEW r
    PROVE  /\ Append(s, r) \in Seq(S \cup {r})
           /\ Len(Append(s, r)) = Len(s) + 1
           /\ \A k \in 1 .. Len(s) : Append(s, r)[k] = s[k]
           /\ Append(s, r)[Len(s) + 1] = r
<1>1. s \in Seq(S \cup {r})
    <2>1. Len(s) \in Nat /\ s \in [1 .. Len(s) -> S]
        OBVIOUS
    <2>2. s \in [1 .. Len(s) -> S \cup {r}]
        BY <2>1
    <2> QED BY <2>1, <2>2
<1>2. r \in S \cup {r}
    OBVIOUS
<1> QED BY <1>1, <1>2

(* A row more on the books.                                                *)
LEMMA RowBooked ==
    ASSUME NEW n \in Nat, NEW open \in Int, Booked(n, open),
           NEW row, row.valid \in BOOLEAN,
           stats' = Append(stats, row), errors' = errors
    PROVE  \A m, left : m = n + 1 /\ left = (IF row.valid THEN open ELSE open - 1)
             => Booked(m, left)'
<1>1. PICK S : stats \in Seq(S)
    BY DEF Booked
<1>2. /\ stats' \in Seq(S \cup {row})
      /\ Len(stats') = n + 1 /\ stats'[n + 1] = row
      /\ \A k \in 1 .. n : stats'[k] = stats[k]
    BY <1>1, AppendFacts DEF Booked
<1>3. DOMAIN stats = 1 .. n /\ DOMAIN stats' = 1 .. (n + 1)
    BY <1>1, <1>2 DEF Booked
<1>4. ValidRows' = IF row.valid THEN ValidRows \cup {n + 1} ELSE ValidRows
    <2>1. 1 .. (n + 1) = (1 .. n) \cup {n + 1}
        OBVIOUS
    <2>2. n + 1 \notin 1 .. n
        OBVIOUS
    <2>3. \A k : k \in ValidRows' <=> \/ k \in 1 .. n /\ stats[k].valid
                                      \/ k = n + 1 /\ row.valid
        BY <1>2, <1>3, <2>1, <2>2 DEF ValidRows
    <2>4. \A k : k \in ValidRows <=> k \in 1 .. n /\ stats[k].valid
        BY <1>3 DEF ValidRows
    <2>5. CASE row.valid
        BY <2>3, <2>4, <2>5
    <2>6. CASE ~row.valid
        BY <2>3, <2>4, <2>6
    <2> QED BY <2>5, <2>6
<1>5. n + 1 \notin ValidRows
    BY <1>3 DEF ValidRows
<1>6. NumCorrect = Cardinality(ValidRows) /\ NumCorrect' = Cardinality(ValidRows')
    BY DEF NumCorrect, ValidRows
<1>7. IsFiniteSet(ValidRows) /\ Cardinality(ValidRows) \in Nat
    BY FS_CardinalityType DEF Booked
<1>8. /\ IsFiniteSet(ValidRows')
      /\ NumCorrect' = IF row.valid THEN NumCorrect + 1 ELSE NumCorrect
    BY <1>4, <1>5, <1>6, <1>7, FS_AddElement
<1>9. errors' = (n + 1) - NumCorrect' + (IF row.valid THEN open ELSE open - 1)
    BY <1>6, <1>7, <1>8 DEF Booked
<1> QED BY <1>2, <1>8, <1>9 DEF Booked

(* An error more, or none, and the same rows.                              *)
LEMMA ErrorBooked ==
    ASSUME NEW n \in Nat, NEW open \in Int, Booked(n, open), NEW more \in Int,
           stats' = stats, errors' = errors + more
    PROVE  Booked(n, open + more)'
<1>1. ValidRows' = ValidRows /\ NumCorrect' = NumCorrect
    BY DEF ValidRows, NumCorrect
<1>2. NumCorrect \in Nat
    BY FS_CardinalityType DEF Booked, NumCorrect, ValidRows
<1> QED BY <1>1, <1>2 DEF Booked

(* Neither a row nor an error.                                             *)
LEMMA NothingBooked ==
    ASSUME NEW n, NEW open, Booked(n, open), stats' = stats, errors' = errors
    PROVE  Booked(n, open)'
BY DEF Booked, ValidRows, NumCorrect

-----------------------------------------------------------------------------
(* Every action of the driver keeps the books: one lemma for each.         *)
LEMMA ReadTraceBooks == ASSUME BInv, ReadTrace PROVE BInv'
<1>1. /\ phase' = "valid" /\ stats' = stats
      /\ status = "idle" /\ tracenum < NumTraces /\ tracenum' = tracenum
      /\ \/ status' = "running" /\ errors' = errors
         \/ Rejected' /\ errors' = errors + 1
    BY DEF ReadTrace, StartTrace, Reject, Rejected
<1>2. tracenum \in Nat /\ errors \in Nat /\ Booked(tracenum, 0)
    BY DEF BInv, ReadTrace
<1>3. CASE status' = "running" /\ errors' = errors
    <2>1. Booked(tracenum, 0)'
        BY <1>1, <1>2, <1>3, NothingBooked
    <2> QED BY <1>1, <1>2, <1>3, <2>1 DEF BInv
<1>4. CASE Rejected' /\ errors' = errors + 1
    <2>1. Booked(tracenum, 1)'
        BY <1>1, <1>2, <1>4, ErrorBooked
    <2>2. errors' \in Nat
        BY <1>2, <1>4
    <2> QED BY <1>1, <1>2, <1>4, <2>1, <2>2 DEF BInv
<1> QED BY <1>1, <1>3, <1>4

(* A request of eval_mm_valid books at most its own error.                  *)
LEMMA ValidOpBooks == ASSUME BInv, ValidOp PROVE BInv'
<1>1. phase = "valid" /\ phase' = "valid" /\ stats' = stats /\ status = "running"
    BY DEF ValidOp
<1>2. /\ tracenum \in Nat /\ errors \in Nat /\ tracenum < NumTraces
      /\ Booked(tracenum, 0)
    BY <1>1 DEF BInv, Rejected
<1>3. /\ tracenum' = tracenum
      /\ \/ status' = "running" /\ errors' = errors
         \/ Rejected' /\ errors' = errors + 1
    <2>1. Alloc(trace[pc].index, trace[pc].size) =>
            tracenum' = tracenum /\ (\/ status' = "running" /\ errors' = errors
                                     \/ Rejected' /\ errors' = errors + 1)
        BY <1>1 DEF Alloc, Reject, Accept, Rejected
    <2>2. \A junk \in Garbage : Realloc(trace[pc].index, trace[pc].size, junk) =>
            tracenum' = tracenum /\ (\/ status' = "running" /\ errors' = errors
                                     \/ Rejected' /\ errors' = errors + 1)
        BY <1>1 DEF Realloc, Reject, Accept, Rejected
    <2>3. Free(trace[pc].index) =>
            tracenum' = tracenum /\ status' = "running" /\ errors' = errors
        BY <1>1 DEF Free, Accept
    <2> QED BY <2>1, <2>2, <2>3 DEF ValidOp
<1>4. CASE status' = "running" /\ errors' = errors
    <2>1. Booked(tracenum, 0)'
        BY <1>1, <1>2, <1>3, <1>4, NothingBooked
    <2> QED BY <1>1, <1>2, <1>3, <1>4, <2>1 DEF BInv
<1>5. CASE Rejected' /\ errors' = errors + 1
    <2>1. Booked(tracenum, 1)'
        BY <1>1, <1>2, <1>3, <1>5, ErrorBooked
    <2>2. errors' \in Nat
        BY <1>2, <1>5
    <2> QED BY <1>1, <1>2, <1>3, <1>5, <2>1, <2>2 DEF BInv
<1> QED BY <1>3, <1>4, <1>5

(* A trace that passed books its row as valid.                              *)
LEMMA ValidEndBooks == ASSUME BInv, ValidEnd PROVE BInv'
<1>1. /\ phase = "valid" /\ status = "running" /\ status' = "valid"
      /\ phase' = "util init" /\ stats' = stats
      /\ tracenum' = tracenum /\ errors' = errors
    BY DEF ValidEnd, EndTrace
<1>2. Booked(tracenum, 0) /\ tracenum < NumTraces
    BY <1>1 DEF BInv, Rejected
<1>3. Booked(tracenum, 0)'
    BY <1>1, <1>2, NothingBooked
<1> QED BY <1>1, <1>2, <1>3 DEF BInv

(* A trace that failed books its row as not valid, and its error stays.     *)
LEMMA InvalidBooks == ASSUME BInv, Invalid PROVE BInv'
<1> DEFINE row == [valid |-> FALSE, max |-> 0, heapsize |-> 0]
<1>1. /\ phase = "valid" /\ status \notin {"running", "valid"} /\ phase' = "free trace"
      /\ stats' = Append(stats, row)
      /\ status' = status /\ tracenum' = tracenum /\ errors' = errors
    BY DEF Invalid, vars
<1>2. tracenum < NumTraces /\ Rejected /\ Booked(tracenum, 1)
    BY <1>1 DEF BInv
<1>3. Booked(tracenum + 1, 0)'
    <2>1. PICK r : r = row
        OBVIOUS
    <2>2. r.valid = FALSE /\ stats' = Append(stats, r)
        BY <1>1, <2>1
    <2>3. PICK n \in Nat : n = tracenum
        BY BookTypes
    <2>4. Booked(n, 1)
        BY <1>2, <2>3, Zenon
    <2>9. errors' = errors
        BY <1>1
    <2>10. 1 \in Int
        OBVIOUS
    <2>11. r.valid \in BOOLEAN
        BY <2>2, Zenon
    <2>5. \A m, left : m = n + 1 /\ left = (IF r.valid THEN 1 ELSE 1 - 1)
            => Booked(m, left)'
        BY <2>2, <2>4, <2>9, <2>10, <2>11, RowBooked
    <2>6. 0 = (IF r.valid THEN 1 ELSE 1 - 1)
        BY <2>2
    <2>7. PICK m : m = n + 1
        OBVIOUS
    <2>8. Booked(m, 0)'
        BY <2>5, <2>6, <2>7
    <2> QED BY <1>1, <2>3, <2>7, <2>8
<1> QED BY <1>1, <1>2, <1>3 DEF BInv, Rejected

(* The utilisation goes to the row of the trace.                            *)
LEMMA UtilEndBooks == ASSUME BInv, UtilEnd PROVE BInv'
<1> DEFINE row == [valid |-> TRUE, max |-> max_total_size, heapsize |-> mem_heapsize(heap)]
<1>1. /\ phase = "util" /\ phase' = "speed init" /\ stats' = Append(stats, row)
      /\ status' = status /\ tracenum' = tracenum /\ errors' = errors
    BY DEF UtilEnd, vars
<1>2. tracenum < NumTraces /\ status = "valid" /\ Booked(tracenum, 0)
    BY <1>1 DEF BInv
<1>3. Booked(tracenum + 1, 0)'
    <2>1. PICK r : r = row
        OBVIOUS
    <2>2. r.valid = TRUE /\ stats' = Append(stats, r)
        BY <1>1, <2>1
    <2>3. PICK n \in Nat : n = tracenum
        BY BookTypes
    <2>4. Booked(n, 0)
        BY <1>2, <2>3, Zenon
    <2>9. errors' = errors
        BY <1>1
    <2>10. 0 \in Int
        OBVIOUS
    <2>11. r.valid \in BOOLEAN
        BY <2>2, Zenon
    <2>5. \A m, left : m = n + 1 /\ left = (IF r.valid THEN 0 ELSE 0 - 1)
            => Booked(m, left)'
        BY <2>2, <2>4, <2>9, <2>10, <2>11, RowBooked
    <2>6. 0 = (IF r.valid THEN 0 ELSE 0 - 1)
        BY <2>2
    <2>7. PICK m : m = n + 1
        OBVIOUS
    <2>8. Booked(m, 0)'
        BY <2>5, <2>6, <2>7
    <2> QED BY <1>1, <2>3, <2>7, <2>8
<1> QED BY <1>1, <1>2, <1>3 DEF BInv

(* The steps of the two measurements count nothing, and end in app_error   *)
(* or stay on their side of the row.                                       *)
LEMMA MeasureBooks ==
    ASSUME BInv, stats' = stats, status' = status, tracenum' = tracenum, errors' = errors,
           \/ phase \in {"util init", "util"} /\ phase' \in {"util", "exit"}
           \/ phase \in {"speed init", "speed"}
                /\ phase' \in {"speed init", "speed", "free trace", "exit"}
    PROVE  BInv'
<1>1. \A n, open : Booked(n, open) => Booked(n, open)'
    BY DEF Booked, ValidRows, NumCorrect
<1> QED BY <1>1 DEF BInv

(* The next trace starts with the books of the one before.                  *)
LEMMA FreeTraceBooks == ASSUME BInv, FreeTrace PROVE BInv'
<1>1. /\ phase = "free trace" /\ phase' = "read" /\ stats' = stats
      /\ status' = "idle" /\ tracenum' = tracenum + 1 /\ errors' = errors
    BY DEF FreeTrace, NextTrace
<1>2. tracenum < NumTraces /\ Booked(tracenum + 1, 0)
    BY <1>1 DEF BInv
<1>3. Booked(tracenum, 0)'
    <2>1. PICK n : n = tracenum + 1
        OBVIOUS
    <2>2. Booked(n, 0)'
        BY <1>1, <1>2, <2>1, NothingBooked
    <2> QED BY <1>1, <2>1, <2>2
<1>4. tracenum' \in 0 .. NumTraces
    <2>1. tracenum < NumTraces /\ tracenum' = tracenum + 1
        BY <1>1, <1>2
    <2> QED BY <2>1, BookTypes
<1> QED BY <1>1, <1>3, <1>4, BookTypes DEF BInv

(* The report is made from the finished books.                              *)
LEMMA ReportBooks == ASSUME BInv, Report PROVE BInv'
<1>1. /\ phase = "read" /\ tracenum = NumTraces /\ phase' = "done" /\ stats' = stats
      /\ status' = status /\ tracenum' = tracenum /\ errors' = errors
      /\ index' = IF errors = 0 THEN "index" ELSE "errors"
    BY DEF Report, vars
<1>2. Booked(NumTraces, 0)'
    BY <1>1, NothingBooked DEF BInv
<1> QED BY <1>1, <1>2 DEF BInv

-----------------------------------------------------------------------------
(* The first state.                                                        *)
LEMMA BooksInit == MInit => BInv
<1> SUFFICES ASSUME MInit PROVE BInv
    OBVIOUS
<1>1. /\ phase = "read" /\ status = "idle" /\ stats = <<>>
      /\ tracenum = 0 /\ errors = 0
    BY DEF MInit, Init
<1>2. ValidRows = {} /\ NumCorrect = 0
    BY <1>1, FS_EmptySet DEF ValidRows, NumCorrect
<1>3. Booked(0, 0)
    BY <1>1, <1>2, FS_EmptySet DEF Booked
<1> QED BY <1>1, <1>3, DriverAssumption DEF BInv

(* Every action, and the step that changes nothing.                        *)
LEMMA BooksNext == BInv /\ [MNext]_mvars => BInv'
<1> SUFFICES ASSUME BInv, [MNext]_mvars PROVE BInv'
    OBVIOUS
<1>1. CASE ReadTrace
    BY <1>1, ReadTraceBooks
<1>2. CASE ValidOp
    BY <1>2, ValidOpBooks
<1>3. CASE ValidEnd
    BY <1>3, ValidEndBooks
<1>4. CASE Invalid
    BY <1>4, InvalidBooks
<1>5. CASE UtilInit
    BY <1>5, MeasureBooks DEF UtilInit, StartRun
<1>6. CASE UtilOp
    BY <1>6, MeasureBooks DEF UtilOp, Serve
<1>7. CASE UtilEnd
    BY <1>7, UtilEndBooks
<1>8. CASE SpeedInit
    BY <1>8, MeasureBooks DEF SpeedInit, StartRun
<1>9. CASE SpeedOp
    BY <1>9, MeasureBooks DEF SpeedOp, Serve
<1>10. CASE SpeedEnd
    BY <1>10, MeasureBooks DEF SpeedEnd, vars
<1>11. CASE FreeTrace
    BY <1>11, FreeTraceBooks
<1>12. CASE Report
    BY <1>12, ReportBooks
<1>13. CASE Exited \/ UNCHANGED mvars
    BY <1>13 DEF Exited, mvars, main, vars, BInv, Booked, ValidRows, NumCorrect, Rejected
<1> QED BY <1>1, <1>2, <1>3, <1>4, <1>5, <1>6, <1>7, <1>8, <1>9, <1>10,
           <1>11, <1>12, <1>13 DEF MNext

(* At every point of a turn of the loop, mm_stats and the errors account   *)
(* for exactly the traces that have been judged (mdriver.c, main).         *)
THEOREM BooksInvariance == MSpec => []BInv
BY BooksInit, BooksNext, PTL DEF MSpec

(* The index is printed exactly when every trace is valid, and mm_stats    *)
(* has one row for each (mdriver.c, the two loops of main).                *)
THEOREM IndexIsEarned == MSpec => []IndexMeansAllValid
<1>1. BInv => IndexMeansAllValid
    <2> SUFFICES ASSUME BInv, phase = "done" PROVE IndexMeansAllValid
        BY DEF IndexMeansAllValid
    <2>1. /\ Booked(NumTraces, 0)
          /\ index = IF errors = 0 THEN "index" ELSE "errors"
        BY DEF BInv
    <2>2. NumCorrect \in Nat
        BY <2>1, FS_CardinalityType DEF Booked, NumCorrect, ValidRows
    <2>3. NumTraces \in Nat
        BY DriverAssumption
    <2> QED BY <2>1, <2>2, <2>3 DEF Booked, IndexMeansAllValid
<1> QED BY <1>1, BooksInvariance, PTL

-----------------------------------------------------------------------------
(* What was checked is what is measured.  The argument is a simulation:    *)
(* the states of the checked run are put on record, and a run of           *)
(* eval_mm_util or eval_mm_speed that has served k requests has the tags   *)
(* that the checked run had after k requests.                              *)

(* A state of the checked run: the heap and the driver's table.            *)
Snap == [heap |-> heap, blocks |-> blocks, sizes |-> block_sizes, live |-> live]

(* The types, and what IInv says of a state in which a trace is served.    *)
Sound(s) ==
    /\ s.heap \in Heaps /\ s.live \subseteq Ids
    /\ s.blocks \in [Ids -> Int] /\ s.sizes \in [Ids -> Nat]
    /\ s.heap.gaps = {} => Agree(s.heap, s.blocks, s.sizes, s.live)

(* The driver has at most filled a payload of h: k has the tags of h.      *)
After(h, k) ==
    /\ k \in Heaps /\ k.gaps = h.gaps
    /\ h.gaps = {} => SameTags(h, k)

(* The request op takes the checked run from s to t with the answer a.     *)
Served(s, op, t, a) ==
    LET i == op.index IN
    \/ /\ op.type = "a" /\ i \notin s.live
       /\ a = mm_malloc(s.heap, op.size).ret /\ a # NULL
       /\ After(mm_malloc(s.heap, op.size).heap, t.heap)
       /\ t.blocks = [s.blocks EXCEPT ![i] = a] /\ t.live = s.live \cup {i}
    \/ /\ op.type = "r" /\ i \in s.live
       /\ \E junk \in Int :
            /\ a = mm_realloc(s.heap, s.blocks[i], op.size, junk).ret /\ a # NULL
            /\ After(mm_realloc(s.heap, s.blocks[i], op.size, junk).heap, t.heap)
       /\ t.blocks = [s.blocks EXCEPT ![i] = a] /\ t.live = s.live \cup {i}
    \/ /\ op.type = "f" /\ i \in s.live
       /\ a = s.blocks[i]
       /\ t.heap = mm_free(s.heap, a)
       /\ t.blocks = s.blocks /\ t.live = s.live \ {i}

(* A measured run is where the checked run was in s.                       *)
Mirrors(s, h, bl, L) ==
    /\ After(s.heap, h)
    /\ L = s.live /\ bl \in [Ids -> Int]
    /\ \A i \in L : bl[i] = s.blocks[i]

Request == [type : {"a", "r", "f"}, index : Ids, size : Sizes]

(* What op is.                                                             *)
LEMMA RequestFields ==
    ASSUME NEW op \in Request
    PROVE  op.type \in {"a", "r", "f"} /\ op.index \in Ids /\ op.size \in Nat
BY DriverAssumption DEF Request

(* The heap of a sound state without gaps, and its live blocks.            *)
LEMMA SoundHeap ==
    ASSUME NEW s, Sound(s), s.heap.gaps = {}
    PROVE  /\ s.heap \in Heaps /\ Shape(s.heap) /\ CoalescedOK(s.heap)
           /\ \A i \in s.live : i \in Ids /\ AllocBlock(s.heap, s.blocks[i])
BY DEF Sound, Agree

(* A heap like h is typed, and has a gap exactly when h has.               *)
LEMMA AfterAlike ==
    ASSUME NEW h, NEW g, SameTags(h, g)
    PROVE  After(h, g)
BY DEF SameTags, Alike, After

(* Two heaps that have both followed the same request stay alike.          *)
LEMMA AfterBoth ==
    ASSUME NEW h, NEW g, NEW k, After(h, k), After(h, g)
    PROVE  After(k, g)
<1>1. CASE h.gaps = {}
    <2>1. SameTags(h, k) /\ SameTags(h, g)
        BY <1>1 DEF After
    <2>2. SameTags(k, g)
        BY <2>1, SameTagsSym, SameTagsTrans
    <2> QED BY <2>2, AfterAlike
<1>2. CASE h.gaps # {}
    BY <1>2 DEF After
<1> QED BY <1>1, <1>2

(* The answer to mm_malloc in a measured run.                              *)
LEMMA MallocMirrors ==
    ASSUME NEW s, Sound(s), s.heap.gaps = {}, NEW h, After(s.heap, h), NEW size \in Nat,
           NEW k, After(mm_malloc(s.heap, size).heap, k)
    PROVE  /\ mm_malloc(h, size).ret = mm_malloc(s.heap, size).ret
           /\ After(k, mm_malloc(h, size).heap)
<1>1. PICK e : e = s.heap
    OBVIOUS
<1>2. SameTags(e, h) /\ Shape(e) /\ CoalescedOK(e)
    BY <1>1, SoundHeap DEF After
<1>3. /\ mm_malloc(h, size).ret = mm_malloc(e, size).ret
      /\ SameTags(mm_malloc(e, size).heap, mm_malloc(h, size).heap)
    BY <1>2, SameMalloc
<1>4. After(k, mm_malloc(h, size).heap)
    BY <1>1, <1>3, AfterAlike, AfterBoth
<1> QED BY <1>1, <1>3, <1>4

(* The answer to mm_realloc, whatever it copies from behind the payload.   *)
LEMMA ReallocMirrors ==
    ASSUME NEW s, Sound(s), s.heap.gaps = {}, NEW h, After(s.heap, h), NEW size \in Nat,
           NEW i \in s.live, NEW junk \in Int, NEW junk2 \in Int,
           mm_realloc(s.heap, s.blocks[i], size, junk).ret # NULL,
           NEW k, After(mm_realloc(s.heap, s.blocks[i], size, junk).heap, k)
    PROVE  /\ mm_realloc(h, s.blocks[i], size, junk2).ret
                = mm_realloc(s.heap, s.blocks[i], size, junk).ret
           /\ After(k, mm_realloc(h, s.blocks[i], size, junk2).heap)
<1>r. PICK r : r = mm_realloc(s.heap, s.blocks[i], size, junk)
    OBVIOUS
<1>q. PICK q : q = mm_realloc(h, s.blocks[i], size, junk2)
    OBVIOUS
<1>1. PICK e : e = s.heap
    OBVIOUS
<1>2. PICK p : p = s.blocks[i]
    OBVIOUS
<1>3. /\ SameTags(e, h) /\ Shape(e) /\ CoalescedOK(e) /\ AllocBlock(e, p)
      /\ e \in Heaps /\ e.gaps = {}
    BY <1>1, <1>2, SoundHeap DEF After
<1>4. /\ h \in Heaps /\ h.gaps = {} /\ Shape(h) /\ CoalescedOK(h)
      /\ AllocBlock(h, p)
    BY <1>3, SameShape, SameBlocks DEF SameTags, Alike
<1>5. SameAnswer(mm_realloc(e, p, size, junk), mm_realloc(h, p, size, junk2))
    BY <1>3, SameRealloc
<1>6. SameAnswer(r, q)
    BY <1>1, <1>2, <1>5, <1>r, <1>q
<1>7. Moved(h, mm_realloc(h, p, size, junk2), p, size)
    BY <1>4, ReallocWorks
<1>8. Moved(h, q, p, size)
    BY <1>2, <1>7, <1>q
<1>9. q.heap \in Heaps
    BY <1>4, <1>8 DEF Moved
<1>10. After(r.heap, q.heap)
    BY <1>6, <1>9 DEF SameAnswer, After
<1>11. After(r.heap, k)
    BY <1>r
<1>12. After(k, q.heap)
    BY <1>10, <1>11, AfterBoth
<1> QED BY <1>6, <1>12, <1>r, <1>q DEF SameAnswer

(* The heap after mm_free.                                                 *)
LEMMA FreeMirrors ==
    ASSUME NEW s, Sound(s), s.heap.gaps = {}, NEW h, After(s.heap, h),
           NEW i \in s.live
    PROVE  After(mm_free(s.heap, s.blocks[i]), mm_free(h, s.blocks[i]))
<1>1. PICK e : e = s.heap
    OBVIOUS
<1>2. PICK p : p = s.blocks[i]
    OBVIOUS
<1>3. SameTags(e, h) /\ Shape(e) /\ CoalescedOK(e) /\ AllocBlock(e, p)
    BY <1>1, <1>2, SoundHeap DEF After
<1>4. SameTags(mm_free(e, p), mm_free(h, p))
    BY <1>3, SameFree
<1> QED BY <1>1, <1>2, <1>4, AfterAlike

(* A request that the checked run served is served in a measured run, and  *)
(* with the same answer.                                                   *)
LEMMA ServeMirrors ==
    ASSUME NEW s, Sound(s), s.heap.gaps = {}, Mirrors(s, heap, blocks, live),
           NEW op \in Request, NEW t, NEW a, Served(s, op, t, a),
           NEW junk \in Garbage, Serve(op, junk)
    PROVE  /\ phase' = phase /\ pc' = pc + 1 /\ answers' = Append(answers, a)
           /\ Mirrors(t, heap', blocks', live')
<1>1. PICK i, size : i = op.index /\ size = op.size
    OBVIOUS
<1>2. i \in Ids /\ size \in Nat /\ junk \in Int
    BY <1>1, RequestFields, DriverAssumption
<1>3. /\ After(s.heap, heap) /\ live = s.live /\ blocks \in [Ids -> Int]
      /\ \A j \in live : blocks[j] = s.blocks[j]
    BY DEF Mirrors
<1>4. ASSUME NEW m, op.type \in {"a", "r"},
             m = IF op.type = "a" THEN mm_malloc(heap, size)
                                  ELSE mm_realloc(heap, blocks[i], size, junk),
             m.ret = a, a # NULL, a \in Int, After(t.heap, m.heap),
             t.blocks = [s.blocks EXCEPT ![i] = a], t.live = s.live \cup {i}
      PROVE  /\ phase' = phase /\ pc' = pc + 1 /\ answers' = Append(answers, a)
             /\ Mirrors(t, heap', blocks', live')
    <2>1. /\ heap' = m.heap /\ blocks' = [blocks EXCEPT ![i] = a]
          /\ live' = live \cup {i} /\ pc' = pc + 1
          /\ answers' = Append(answers, a) /\ phase' = phase
        BY <1>1, <1>4 DEF Serve
    <2>2. s.blocks \in [Ids -> Int] /\ s.live \subseteq Ids
        BY DEF Sound
    <2>3. blocks' \in [Ids -> Int]
        BY <1>2, <1>3, <1>4, <2>1
    <2>4. \A j \in live' : blocks'[j] = t.blocks[j]
        BY <1>2, <1>3, <1>4, <2>1, <2>2
    <2> QED BY <1>3, <1>4, <2>1, <2>3, <2>4 DEF Mirrors
<1>5. CASE op.type = "a"
    <2>1. /\ a = mm_malloc(s.heap, size).ret /\ a # NULL
          /\ After(mm_malloc(s.heap, size).heap, t.heap)
          /\ t.blocks = [s.blocks EXCEPT ![i] = a] /\ t.live = s.live \cup {i}
        BY <1>1, <1>5 DEF Served
    <2>2. PICK k : k = t.heap
        OBVIOUS
    <2>3. PICK m : m = mm_malloc(heap, size)
        OBVIOUS
    <2>4. m.ret = a /\ After(k, m.heap)
        BY <1>2, <1>3, <2>1, <2>2, <2>3, MallocMirrors
    <2>5. a \in Int
        <3>1. Granted(s.heap, mm_malloc(s.heap, size), size)
            BY <1>2, SoundHeap, MallocWorks
        <3> QED BY <3>1, <2>1 DEF Granted
    <2> QED BY <1>4, <1>5, <2>1, <2>2, <2>3, <2>4, <2>5
<1>6. CASE op.type = "r"
    <2>1. PICK old \in Int :
             /\ a = mm_realloc(s.heap, s.blocks[i], size, old).ret /\ a # NULL
             /\ After(mm_realloc(s.heap, s.blocks[i], size, old).heap, t.heap)
        BY <1>1, <1>6 DEF Served
    <2>2. i \in s.live /\ t.blocks = [s.blocks EXCEPT ![i] = a] /\ t.live = s.live \cup {i}
        BY <1>1, <1>6 DEF Served
    <2>3. PICK k : k = t.heap
        OBVIOUS
    <2>4. PICK r : r = mm_realloc(s.heap, s.blocks[i], size, old)
        OBVIOUS
    <2>5. PICK m : m = mm_realloc(heap, s.blocks[i], size, junk)
        OBVIOUS
    <2>6. r.ret = a /\ r.ret # NULL /\ After(r.heap, k)
        BY <2>1, <2>3, <2>4
    <2>7. m.ret = r.ret /\ After(k, m.heap)
        <3>1. /\ mm_realloc(s.heap, s.blocks[i], size, old).ret # NULL
              /\ After(mm_realloc(s.heap, s.blocks[i], size, old).heap, k)
            BY <2>1, <2>3
        <3>2. /\ mm_realloc(heap, s.blocks[i], size, junk).ret
                   = mm_realloc(s.heap, s.blocks[i], size, old).ret
              /\ After(k, mm_realloc(heap, s.blocks[i], size, junk).heap)
            BY <1>2, <1>3, <2>2, <3>1, ReallocMirrors
        <3> QED BY <3>2, <2>4, <2>5
    <2>8. m = mm_realloc(heap, blocks[i], size, junk)
        BY <1>3, <2>2, <2>5
    <2>9. a \in Int
        <3>1. Moved(s.heap, mm_realloc(s.heap, s.blocks[i], size, old), s.blocks[i], size)
            BY <1>2, <2>2, SoundHeap, ReallocWorks
        <3>2. Moved(s.heap, r, s.blocks[i], size)
            BY <3>1, <2>4
        <3> QED BY <3>2, <2>6 DEF Moved
    <2> QED BY <1>4, <1>6, <2>2, <2>3, <2>6, <2>7, <2>8, <2>9
<1>7. CASE op.type = "f"
    <2>1. /\ i \in s.live /\ a = s.blocks[i] /\ t.heap = mm_free(s.heap, a)
          /\ t.blocks = s.blocks /\ t.live = s.live \ {i}
        BY <1>1, <1>7 DEF Served
    <2>2. /\ heap' = mm_free(heap, blocks[i]) /\ live' = live \ {i}
          /\ pc' = pc + 1 /\ answers' = Append(answers, blocks[i])
          /\ phase' = phase /\ blocks' = blocks
        BY <1>1, <1>7 DEF Serve
    <2>3. blocks[i] = a
        BY <1>3, <2>1
    <2>4. After(t.heap, heap')
        BY <1>3, <2>1, <2>2, <2>3, FreeMirrors
    <2> QED BY <1>3, <2>1, <2>2, <2>3, <2>4 DEF Mirrors
<1> QED BY <1>5, <1>6, <1>7, RequestFields

-----------------------------------------------------------------------------
(* The checked run, after n requests of tr with the answers ans: its       *)
(* states, from what mm_init has left in some arena.                       *)
Record(H, n, tr, ans) ==
    /\ n \in Nat /\ n <= Len(tr) /\ ans \in Seq(Int) /\ Len(ans) = n
    /\ H[1].live = {}
    /\ \E h \in Heaps : /\ h.brk = 0 /\ mm_init(h).ret # NULL
                        /\ H[1].heap = mm_init(h).heap
    /\ \A k \in 1 .. n + 1 : Sound(H[k])
    /\ \A k \in 1 .. n : /\ H[k].heap.gaps = {}
                         /\ Served(H[k], tr[k], H[k + 1], ans[k])

(* The run of eval_mm_valid is on record up to the state it is in.         *)
OnRecord == \E H : Record(H, pc - 1, trace, answers) /\ H[pc] = Snap

(* The measured run is where the checked one was at the same request.      *)
Follows(H) ==
    /\ pc <= Len(trace) + 1 /\ Len(answers) = pc - 1
    /\ \A k \in 1 .. pc - 1 : answers[k] = checked[k]
    /\ Mirrors(H[pc], heap, blocks, live)

(* The inductive invariant of the whole loop.                              *)
RInv ==
    /\ BInv /\ IInv
    /\ trace \in Seq(Request) /\ pc \in Nat \ {0} /\ answers \in Seq(Int)
    /\ phase # "exit"
    /\ phase = "valid" /\ status = "running" => OnRecord
    /\ phase \in {"util init", "util", "speed init", "speed"} =>
         \E H : /\ Record(H, Len(trace), trace, checked)
                /\ Unchecked => Follows(H)

(* The types that RInv adds, and the ones it has from IInv.                *)
LEMMA RInvTypes ==
    ASSUME RInv
    PROVE  /\ IInv /\ TypeOK
           /\ trace \in Seq(Request) /\ Len(trace) \in Nat
           /\ pc \in Nat \ {0} /\ answers \in Seq(Int)
<1>1. /\ IInv /\ trace \in Seq(Request) /\ pc \in Nat \ {0} /\ answers \in Seq(Int)
    BY DEF RInv
<1>2. Len(trace) \in Nat
    BY <1>1, LenProperties
<1>3. TypeOK
    BY <1>1 DEF IInv
<1> QED BY <1>1, <1>2, <1>3

(* A state of the driver whose trace is being served is sound.             *)
LEMMA SnapSound ==
    ASSUME NEW h \in Heaps, NEW bl \in [Ids -> Int], NEW bs \in [Ids -> Nat],
           NEW L \in SUBSET Ids, h.gaps = {} => Agree(h, bl, bs, L)
    PROVE  Sound([heap |-> h, blocks |-> bl, sizes |-> bs, live |-> L])
BY DEF Sound

(* The fill of a payload that mm_malloc or mm_realloc has just answered.   *)
LEMMA AfterFill ==
    ASSUME NEW h \in Heaps, NEW p \in Nat, NEW v \in Int, NEW size \in Nat,
           h.gaps = {} => Shape(h) /\ AllocBlock(h, p) /\ BlockSize(h, p) >= size + 8
    PROVE  After(h, memset(h, p, v, size))
<1>1. PICK k : k = memset(h, p, v, size)
    OBVIOUS
<1>2. Wrote(h, k, p, size)
    BY <1>1, MemsetFields
<1>3. CASE h.gaps = {}
    <2>1. Shape(h) /\ AllocBlock(h, p) /\ BlockSize(h, p) >= size + 8
        BY <1>3
    <2>2. BlockSize(h, p) \in Nat
        BY <2>1, BlockFacts DEF AllocBlock
    <2>3. size + 8 <= BlockSize(h, p)
        BY <2>1, <2>2
    <2>4. SameTags(h, k)
        BY <1>2, <2>1, <2>3, SameWritten
    <2> QED BY <1>1, <2>4, AfterAlike
<1>4. CASE h.gaps # {}
    BY <1>1, <1>2, <1>4 DEF Wrote, After
<1> QED BY <1>3, <1>4

(* A request that eval_mm_valid accepts.                                   *)
LEMMA ValidServed ==
    ASSUME IInv, ValidOp, status' = "running", trace[pc] \in Request
    PROVE  /\ heap.gaps = {}
           /\ Served(Snap, trace[pc], Snap', blocks'[trace[pc].index])
<1>1. PICK op, i, size : op = trace[pc] /\ i = op.index /\ size = op.size
    OBVIOUS
<1>2. i \in Ids /\ size \in Nat /\ i % 256 \in Int
    <2>1. i \in Ids /\ i \in Nat /\ size \in Nat
        BY <1>1, RequestFields, DriverAssumption
    <2> QED BY <2>1
<1>3. TypeOK
    BY DEF IInv
<1>4. Serving
    BY DEF ValidOp, Alloc, Realloc, Free
<1>5. heap \in Heaps /\ heap.gaps = {} /\ Agree(heap, blocks, block_sizes, live)
    BY <1>3, <1>4 DEF IInv, TypeOK, Serving
<1>6. Shape(heap) /\ CoalescedOK(heap) /\ \A j \in live : AllocBlock(heap, blocks[j])
    BY <1>5 DEF Agree
<1>7. PICK s, t : s = Snap /\ t = Snap'
    OBVIOUS
<1>8. /\ s.heap = heap /\ s.blocks = blocks /\ s.live = live
      /\ t.heap = heap' /\ t.blocks = blocks' /\ t.live = live'
    BY <1>7 DEF Snap
<1>9. ASSUME op.type = "a", Alloc(i, size)
      PROVE  Served(s, op, t, blocks'[i])
    <2>1. PICK m : m = mm_malloc(heap, size)
        OBVIOUS
    <2>2. /\ i \notin live /\ m.ret # NULL
          /\ heap' = memset(m.heap, m.ret, i % 256, size)
          /\ blocks' = [blocks EXCEPT ![i] = m.ret]
          /\ live' = live \cup {i}
        BY <1>9, <2>1 DEF Alloc, Reject, Remember
    <2>3. Granted(heap, m, size)
        BY <1>2, <1>5, <1>6, <2>1, MallocWorks
    <2>4. After(m.heap, heap')
        BY <1>2, <2>2, <2>3, AfterFill DEF Granted
    <2>5. blocks'[i] = m.ret
        BY <1>2, <1>3, <2>2 DEF TypeOK
    <2> QED BY <1>1, <1>8, <1>9, <2>1, <2>2, <2>4, <2>5 DEF Served
<1>10. ASSUME op.type = "r", NEW junk \in Garbage, Realloc(i, size, junk)
       PROVE  Served(s, op, t, blocks'[i])
    <2>1. PICK m : m = mm_realloc(heap, blocks[i], size, junk)
        OBVIOUS
    <2>2. /\ i \in live /\ m.ret # NULL
          /\ heap' = memset(m.heap, m.ret, i % 256, size)
          /\ blocks' = [blocks EXCEPT ![i] = m.ret]
          /\ live' = live
        BY <1>10, <2>1 DEF Realloc, Reject, Remember
    <2>3. junk \in Int
        BY DriverAssumption
    <2>4. Moved(heap, m, blocks[i], size)
        BY <1>2, <1>5, <1>6, <2>1, <2>2, <2>3, ReallocWorks
    <2>5. After(m.heap, heap')
        BY <1>2, <2>2, <2>4, AfterFill DEF Moved
    <2>6. blocks'[i] = m.ret
        BY <1>2, <1>3, <2>2 DEF TypeOK
    <2>7. live' = live \cup {i}
        BY <2>2
    <2> QED BY <1>1, <1>8, <1>10, <2>1, <2>2, <2>3, <2>5, <2>6, <2>7 DEF Served
<1>11. ASSUME op.type = "f", Free(i)
       PROVE  Served(s, op, t, blocks'[i])
    BY <1>1, <1>8, <1>11 DEF Free, Served
<1> QED BY <1>1, <1>5, <1>7, <1>9, <1>10, <1>11 DEF ValidOp

-----------------------------------------------------------------------------
(* A served request more on record.                                        *)
LEMMA RecordMore ==
    ASSUME NEW H, NEW n, NEW tr, NEW ans, Record(H, n, tr, ans), n < Len(tr),
           tr \in Seq(Request),
           NEW t, Sound(t), NEW a \in Int, H[n + 1].heap.gaps = {},
           Served(H[n + 1], tr[n + 1], t, a)
    PROVE  \E G : Record(G, n + 1, tr, Append(ans, a)) /\ G[n + 2] = t
<1>1. /\ n \in Nat /\ Len(tr) \in Nat /\ ans \in Seq(Int) /\ Len(ans) = n
      /\ H[1].live = {}
      /\ \A k \in 1 .. n + 1 : Sound(H[k])
      /\ \A k \in 1 .. n : /\ H[k].heap.gaps = {}
                           /\ Served(H[k], tr[k], H[k + 1], ans[k])
    BY DEF Record
<1>2. PICK h0 \in Heaps : /\ h0.brk = 0 /\ mm_init(h0).ret # NULL
                          /\ H[1].heap = mm_init(h0).heap
    BY DEF Record
<1>3. PICK m : m = n + 1
    OBVIOUS
<1>4. PICK G : G = [k \in 1 .. m + 1 |-> IF k = m + 1 THEN t ELSE H[k]]
    OBVIOUS
<1>5. m \in Nat /\ m >= 1 /\ m <= Len(tr)
    BY <1>1, <1>3
<1>6. G[m + 1] = t /\ \A k \in 1 .. m : G[k] = H[k]
    BY <1>4, <1>5
<1>7. PICK an : an = Append(ans, a)
    OBVIOUS
<1>8. /\ an \in Seq(Int) /\ Len(an) = m /\ an[m] = a
      /\ \A k \in 1 .. n : an[k] = ans[k]
    BY <1>1, <1>3, <1>7, AppendProperties
<1>9. G[1] = H[1]
    BY <1>5, <1>6
<1>10. ASSUME NEW k \in 1 .. m + 1 PROVE Sound(G[k])
    <2>1. CASE k = m + 1
        BY <1>6, <2>1
    <2>2. CASE k # m + 1
        <3>1. k \in 1 .. m
            BY <2>2, <1>5
        <3> QED BY <3>1, <1>1, <1>3, <1>6
    <2> QED BY <2>1, <2>2
<1>11. ASSUME NEW k \in 1 .. m
       PROVE  G[k].heap.gaps = {} /\ Served(G[k], tr[k], G[k + 1], an[k])
    <2>1. CASE k = m
        BY <1>3, <1>6, <1>8, <2>1
    <2>2. CASE k # m
        <3>1. k \in 1 .. n /\ k \in 1 .. m /\ k + 1 \in 1 .. m
            BY <2>2, <1>1, <1>3
        <3>2. G[k] = H[k] /\ G[k + 1] = H[k + 1] /\ an[k] = ans[k]
            BY <3>1, <1>6, <1>8
        <3>3. H[k].heap.gaps = {} /\ Served(H[k], tr[k], H[k + 1], ans[k])
            BY <3>1, <1>1
        <3> QED BY <3>2, <3>3, Zenon
    <2> QED BY <2>1, <2>2
<1>12. Record(G, m, tr, an)
    BY <1>1, <1>2, <1>5, <1>8, <1>9, <1>10, <1>11 DEF Record
<1>13. n + 2 = m + 1
    BY <1>1, <1>3
<1> QED BY <1>3, <1>6, <1>7, <1>12, <1>13

(* The arena, the driver's table and the range list are all that IInv      *)
(* looks at while no trace is checked.                                     *)
LEMMA MeasureInv ==
    ASSUME IInv, status # "running",
           UNCHANGED <<ranges, status, tracenum, errors>>,
           heap' \in Heaps, blocks' \in [Ids -> Int],
           block_sizes' \in [Ids -> Nat], live' \subseteq Ids
    PROVE  IInv'
BY DEF IInv, TypeOK, Serving, RangesAreLive, NoBadRange

(* A step of the check is a step of EvalValid.                             *)
LEMMA CheckSteps ==
    ASSUME trace \in Seq(Request), pc \in Nat \ {0},
           ReadTrace \/ ValidOp \/ ValidEnd \/ FreeTrace
    PROVE  Next
<1>1. ASSUME ValidOp PROVE Next
    <2>1. pc \in 1 .. Len(trace)
        BY <1>1 DEF ValidOp
    <2>2. PICK op \in Request : op = trace[pc]
        BY <2>1, ElementOfSeq
    <2>3. op.index \in Ids /\ op.size \in Sizes
        BY DEF Request
    <2> QED BY <1>1, <2>2, <2>3 DEF ValidOp, Next
<1> QED BY <1>1 DEF ReadTrace, ValidEnd, FreeTrace, Next

(* So it keeps what EvalValid keeps.                                       *)
LEMMA CheckInv ==
    ASSUME IInv, trace \in Seq(Request), pc \in Nat \ {0},
           ReadTrace \/ ValidOp \/ ValidEnd \/ FreeTrace
    PROVE  IInv'
BY CheckSteps, NextInv

(* mem_reset_brk leaves the words of the arena and sets the break back.    *)
LEMMA ResetHeap ==
    ASSUME NEW h \in Heaps
    PROVE  mem_reset_brk(h) \in Heaps /\ mem_reset_brk(h).brk = 0
BY MaxHeapAssumption DEF mem_reset_brk, Heaps

(* A trace that begins puts its first state on record.                     *)
LEMMA ReadTraceRecords ==
    ASSUME RInv, BInv', ReadTrace
    PROVE  RInv'
<1>1. IInv /\ trace \in Seq(Request) /\ pc \in Nat \ {0}
    BY DEF RInv
<1>2. IInv'
    BY <1>1, CheckInv
<1>3. /\ phase' = "valid" /\ pc' = 1 /\ answers' = <<>>
      /\ trace' \in Seq(Request) /\ StartTrace
    BY TraceAssumption DEF ReadTrace, Request
<1>4. ASSUME status' = "running" PROVE OnRecord'
    <2>1. PICK h : h = mem_reset_brk(heap)
        OBVIOUS
    <2>2. h \in Heaps /\ h.brk = 0
        BY <1>1, <2>1, ResetHeap DEF IInv, TypeOK
    <2>3. mm_init(h).ret # NULL /\ heap' = mm_init(h).heap /\ live' = {}
        BY <1>3, <1>4, <2>1 DEF StartTrace, Reject
    <2>4. PICK s : s = Snap'
        OBVIOUS
    <2>5. Sound(s)
        BY <1>2, <1>4, <2>4, SnapSound DEF IInv, TypeOK, Serving, Snap
    <2>6. PICK H : H = [k \in {1} |-> s]
        OBVIOUS
    <2>7. H[1] = s /\ s.heap = mm_init(h).heap /\ s.live = {}
        BY <2>3, <2>4, <2>6 DEF Snap
    <2>8. PICK tr : tr = trace'
        OBVIOUS
    <2>9. Len(tr) \in Nat
        BY <1>3, <2>8
    <2>10. Record(H, 0, tr, <<>>)
        <3>1. <<>> \in Seq(Int) /\ Len(<<>>) = 0
            OBVIOUS
        <3>2. \A k \in 1 .. 0 + 1 : k = 1
            OBVIOUS
        <3>3. 1 .. 0 = {} /\ 0 <= Len(tr) /\ 0 \in Nat
            BY <2>9
        <3> QED BY <2>2, <2>3, <2>5, <2>7, <3>1, <3>2, <3>3 DEF Record
    <2>11. Record(H, pc' - 1, trace', answers') /\ H[pc'] = Snap'
        BY <1>3, <2>4, <2>7, <2>8, <2>10
    <2> QED BY <2>11 DEF OnRecord
<1>5. answers' \in Seq(Int) /\ pc' \in Nat \ {0}
    BY <1>3
<1> QED BY <1>2, <1>3, <1>4, <1>5 DEF RInv

(* An accepted request puts the state after it on record.                  *)
LEMMA ValidOpRecords ==
    ASSUME RInv, BInv', ValidOp
    PROVE  RInv'
<1>1. IInv /\ trace \in Seq(Request) /\ pc \in Nat \ {0} /\ answers \in Seq(Int)
    BY DEF RInv
<1>2. IInv'
    BY <1>1, CheckInv
<1>3. /\ phase = "valid" /\ phase' = "valid" /\ status = "running"
      /\ pc <= Len(trace) /\ pc' = pc + 1 /\ trace' = trace
      /\ answers' = Append(answers, blocks'[trace[pc].index])
    BY DEF ValidOp
<1>4. PICK op \in Request : op = trace[pc]
    BY <1>1, <1>3, ElementOfSeq
<1>5. PICK a \in Int : a = blocks'[op.index]
    BY <1>2, RequestFields DEF IInv, TypeOK
<1>6. answers' = Append(answers, a) /\ answers' \in Seq(Int)
    BY <1>1, <1>3, <1>4, <1>5, AppendProperties
<1>7. ASSUME status' = "running" PROVE OnRecord'
    <2>1. heap.gaps = {} /\ Served(Snap, op, Snap', a)
        BY <1>1, <1>4, <1>5, <1>7, ValidServed
    <2>2. PICK H : Record(H, pc - 1, trace, answers) /\ H[pc] = Snap
        BY <1>3 DEF RInv, OnRecord
    <2>3. PICK t : t = Snap'
        OBVIOUS
    <2>4. Sound(t)
        BY <1>2, <1>7, <2>3, SnapSound DEF IInv, TypeOK, Serving, Snap
    <2>5. PICK n \in Nat : n = pc - 1
        BY <1>1
    <2>6. n + 1 = pc /\ n < Len(trace) /\ n + 2 = pc' /\ n + 1 = pc' - 1
        BY <1>1, <1>3, <2>5
    <2>7. H[n + 1] = Snap
        BY <2>2, <2>6
    <2>8. H[n + 1].heap.gaps = {}
        BY <2>1, <2>7 DEF Snap
    <2>9. Served(H[n + 1], trace[n + 1], t, a)
        BY <1>4, <2>1, <2>3, <2>6, <2>7
    <2>10. Record(H, n, trace, answers)
        BY <2>2, <2>5
    <2>11. \E G : Record(G, n + 1, trace, Append(answers, a)) /\ G[n + 2] = t
        BY <1>1, <2>4, <2>6, <2>8, <2>9, <2>10, RecordMore
    <2>12. \E G : Record(G, pc' - 1, trace', answers') /\ G[pc'] = Snap'
        BY <1>3, <1>6, <2>3, <2>6, <2>11
    <2> QED BY <2>12 DEF OnRecord
<1>8. pc' \in Nat \ {0} /\ trace' \in Seq(Request)
    BY <1>1, <1>3
<1> QED BY <1>2, <1>3, <1>6, <1>7, <1>8 DEF RInv

(* The record of a valid trace is the one to follow.                       *)
LEMMA ValidEndRecords ==
    ASSUME RInv, BInv', ValidEnd
    PROVE  RInv'
<1>1. IInv /\ trace \in Seq(Request) /\ pc \in Nat \ {0} /\ answers \in Seq(Int)
    BY DEF RInv
<1>2. IInv'
    BY <1>1, CheckInv
<1>3. /\ phase = "valid" /\ phase' = "util init" /\ status = "running"
      /\ pc > Len(trace) /\ pc' = pc /\ trace' = trace
      /\ answers' = answers /\ checked' = answers
    BY DEF ValidEnd, EndTrace
<1>4. PICK H : Record(H, pc - 1, trace, answers)
    BY <1>3 DEF RInv, OnRecord
<1>5. pc - 1 = Len(trace)
    <2>1. pc - 1 <= Len(trace)
        BY <1>4 DEF Record
    <2>2. PICK n \in Nat : n = Len(trace)
        BY RInvTypes
    <2>3. pc \in Nat /\ pc - 1 <= n /\ pc > n
        BY <1>1, <1>3, <2>1, <2>2
    <2> QED BY <2>2, <2>3
<1>6. Record(H, Len(trace'), trace', checked') /\ ~Unchecked'
    BY <1>3, <1>4, <1>5 DEF Unchecked
<1> QED BY <1>1, <1>2, <1>3, <1>6 DEF RInv

-----------------------------------------------------------------------------
(* The measurements leave trace, record and verdict alone.                 *)
LEMMA MeasureKeeps ==
    ASSUME RInv, BInv', IInv',
           trace' = trace, pc' \in Nat \ {0}, answers' \in Seq(Int), checked' = checked,
           phase' \in {"util init", "util", "speed init", "speed"},
           \E H : /\ Record(H, Len(trace), trace, checked)
                  /\ Unchecked' => Follows(H)'
    PROVE  RInv'
<1>1. trace' \in Seq(Request)
    BY DEF RInv
<1>2. \E H : /\ Record(H, Len(trace'), trace', checked')
             /\ Unchecked' => Follows(H)'
    OBVIOUS
<1> QED BY <1>1, <1>2 DEF RInv

(* A measured run begins: mm_init succeeds again, and leaves the tags it   *)
(* left for the checked run.                                               *)
LEMMA StartRunFollows ==
    ASSUME RInv, BInv', UtilInit \/ SpeedInit
    PROVE  RInv'
<1>1. PICK H : Record(H, Len(trace), trace, checked)
    BY DEF RInv, UtilInit, SpeedInit, StartRun
<1>2. PICK h \in Heaps : h.brk = 0 /\ mm_init(h).ret # NULL /\ H[1].heap = mm_init(h).heap
    BY <1>1 DEF Record
<1>3. PICK g : g = mem_reset_brk(heap)
    OBVIOUS
<1>4. /\ IInv /\ TypeOK
      /\ trace \in Seq(Request) /\ Len(trace) \in Nat
    BY RInvTypes
<1>5. heap \in Heaps
    BY <1>4 DEF TypeOK
<1>6. g \in Heaps /\ g.brk = 0
    BY <1>3, <1>5, ResetHeap
<1>7. /\ mm_init(g).ret = mm_init(h).ret
      /\ SameTags(mm_init(h).heap, mm_init(g).heap)
    BY <1>2, <1>6, SameInit
<1>8. /\ heap' = mm_init(g).heap
      /\ phase \in {"util init", "speed init"} /\ phase' \in {"util", "speed"}
      /\ pc' = 1 /\ answers' = <<>> /\ live' = {}
      /\ UNCHANGED <<ranges, blocks, block_sizes, status, tracenum, errors,
                     trace, checked>>
    BY <1>2, <1>3, <1>7 DEF UtilInit, SpeedInit, StartRun
<1>9. After(H[1].heap, heap')
    BY <1>2, <1>7, <1>8, AfterAlike
<1>10. H[1].live = {} /\ Len(checked) = Len(trace)
    BY <1>1 DEF Record
<1>11. blocks \in [Ids -> Int] /\ block_sizes \in [Ids -> Nat]
    BY <1>4 DEF TypeOK
<1>12. Mirrors(H[1], heap', blocks', live')
    BY <1>8, <1>9, <1>10, <1>11 DEF Mirrors
<1>13. Follows(H)'
    <2>1. pc' <= Len(trace') + 1 /\ Len(answers') = pc' - 1 /\ 1 .. pc' - 1 = {}
        <3>1. Len(answers') = 0
            BY <1>8, EmptySeq
        <3>2. pc' = 1 /\ trace' = trace
            BY <1>8
        <3>3. PICK n \in Nat : n = Len(trace')
            BY <3>2, <1>4
        <3> QED BY <3>1, <3>2, <3>3
    <2>2. Mirrors(H[pc'], heap', blocks', live')
        BY <1>8, <1>12
    <2> QED BY <2>1, <2>2 DEF Follows
<1>14. status # "running"
    BY <1>8 DEF RInv, BInv
<1>15. heap' \in Heaps
    BY <1>9 DEF After
<1>16. IInv'
    BY <1>4, <1>8, <1>11, <1>14, <1>15, MeasureInv
<1>17. answers' \in Seq(Int) /\ pc' \in Nat \ {0}
    <2>1. answers' \in Seq(Int)
        BY <1>8, EmptySeq
    <2>2. pc' = 1
        BY <1>8
    <2> QED BY <2>1, <2>2
<1> QED BY <1>1, <1>8, <1>13, <1>16, <1>17, MeasureKeeps

(* A measured request gets the answer on record.                           *)
LEMMA ServeFollows ==
    ASSUME RInv, BInv', Unchecked, heap.gaps = {}, pc <= Len(trace),
           NEW op, op = trace[pc], NEW junk \in Garbage, Serve(op, junk),
           UNCHANGED <<ranges, status, tracenum, errors, trace, checked>>,
           phase' # "exit" => block_sizes' \in [Ids -> Nat]
    PROVE  RInv'
<1>1. /\ IInv /\ TypeOK /\ pc \in Nat \ {0} /\ answers \in Seq(Int)
      /\ trace \in Seq(Request) /\ Len(trace) \in Nat
    BY RInvTypes
<1>2. PICK H : Record(H, Len(trace), trace, checked) /\ Follows(H)
    BY DEF RInv, Unchecked
<1>3. pc \in 1 .. Len(trace) /\ pc \in 1 .. Len(trace) + 1 /\ pc + 1 \in 1 .. Len(trace) + 1
    BY <1>1
<1>4. PICK s, t, a : s = H[pc] /\ t = H[pc + 1] /\ a = checked[pc]
    OBVIOUS
<1>5. /\ Sound(s) /\ Sound(t) /\ s.heap.gaps = {} /\ Served(s, op, t, a)
      /\ checked \in Seq(Int) /\ Len(checked) = Len(trace)
    BY <1>2, <1>3, <1>4 DEF Record
<1>6. op \in Request
    BY <1>1, <1>3, ElementOfSeq
<1>7. a \in Int
    BY <1>3, <1>4, <1>5, ElementOfSeq
<1>8. Mirrors(s, heap, blocks, live)
    BY <1>2, <1>4 DEF Follows
<1>9. /\ phase' = phase /\ pc' = pc + 1 /\ answers' = Append(answers, a)
      /\ Mirrors(t, heap', blocks', live')
    BY <1>5, <1>6, <1>8, ServeMirrors
<1>10. /\ answers' \in Seq(Int) /\ Len(answers') = Len(answers) + 1
       /\ answers'[Len(answers) + 1] = a
       /\ \A k \in 1 .. Len(answers) : answers'[k] = answers[k]
    BY <1>1, <1>7, <1>9, AppendProperties
<1>11. Len(answers) = pc - 1 /\ \A k \in 1 .. pc - 1 : answers[k] = checked[k]
    BY <1>2 DEF Follows
<1>12. Follows(H)'
    <2>1. Len(answers') = pc' - 1 /\ pc' <= Len(trace') + 1
        BY <1>1, <1>9, <1>10, <1>11
    <2>2. ASSUME NEW k \in 1 .. pc' - 1 PROVE answers'[k] = checked'[k]
        <3>1. CASE k = pc
            BY <3>1, <1>1, <1>4, <1>10, <1>11
        <3>2. CASE k # pc
            <4>1. k \in 1 .. pc - 1
                BY <3>2, <1>1, <1>9
            <4> QED BY <4>1, <1>10, <1>11
        <3> QED BY <3>1, <3>2
    <2>3. Mirrors(H[pc'], heap', blocks', live')
        BY <1>4, <1>9
    <2> QED BY <2>1, <2>2, <2>3 DEF Follows
<1>13. phase \in {"util", "speed"} /\ status # "running"
    BY DEF RInv, BInv, Unchecked
<1>14. heap' \in Heaps /\ blocks' \in [Ids -> Int] /\ live' \subseteq Ids
    BY <1>5, <1>9 DEF Mirrors, After, Sound
<1>15. IInv'
    <2>1. block_sizes' \in [Ids -> Nat]
        BY <1>9, <1>13
    <2> QED BY <2>1, <1>1, <1>13, <1>14, MeasureInv
<1>16. pc' \in Nat \ {0}
    BY <1>1, <1>9
<1> QED BY <1>2, <1>9, <1>10, <1>12, <1>13, <1>15, <1>16, MeasureKeeps

(* eval_mm_util and eval_mm_speed.                                         *)
LEMMA MeasureFollows ==
    ASSUME RInv, BInv', UtilOp \/ SpeedOp
    PROVE  RInv'
<1>1. trace \in Seq(Request) /\ pc \in Nat \ {0} /\ TypeOK
    BY DEF RInv, IInv
<1>2. block_sizes \in [Ids -> Nat]
    BY <1>1 DEF TypeOK
<1>3. CASE UtilOp
    <2>1. /\ Unchecked /\ heap.gaps = {} /\ pc <= Len(trace)
          /\ UNCHANGED <<ranges, status, tracenum, errors, trace, checked>>
        BY <1>3 DEF UtilOp, Unchecked
    <2>2. PICK op : op = trace[pc]
        OBVIOUS
    <2>3. PICK junk \in Garbage : Serve(op, junk)
        BY <1>3, <2>2 DEF UtilOp
    <2>4. op.index \in Ids /\ op.size \in Nat
        <3>1. op \in Request
            BY <1>1, <2>1, <2>2, ElementOfSeq
        <3> QED BY <3>1, RequestFields
    <2>5. phase' # "exit" =>
            block_sizes' = IF op.type = "f" THEN block_sizes
                           ELSE [block_sizes EXCEPT ![op.index] = op.size]
        BY <1>3, <2>2 DEF UtilOp
    <2>6. phase' # "exit" => block_sizes' \in [Ids -> Nat]
        BY <1>2, <2>4, <2>5
    <2> QED BY <2>1, <2>2, <2>3, <2>6, ServeFollows
<1>4. CASE SpeedOp
    <2>1. /\ Unchecked /\ heap.gaps = {} /\ pc <= Len(trace)
          /\ UNCHANGED <<ranges, status, tracenum, errors, trace, checked>>
          /\ block_sizes' = block_sizes
        BY <1>4 DEF SpeedOp, Unchecked
    <2>2. PICK op : op = trace[pc]
        OBVIOUS
    <2>3. PICK junk \in Garbage : Serve(op, junk)
        BY <1>4, <2>2 DEF SpeedOp
    <2> QED BY <1>2, <2>1, <2>2, <2>3, ServeFollows
<1> QED BY <1>3, <1>4

(* The end of a measured run, and the run that comes after it, if any.     *)
LEMMA RunEndKeeps ==
    ASSUME RInv, BInv', UtilEnd \/ SpeedEnd
    PROVE  RInv'
<1>1. /\ phase \in {"util", "speed"} /\ phase' \in {"speed init", "free trace"}
      /\ UNCHANGED <<vars, trace, pc, answers, checked>>
    BY DEF UtilEnd, SpeedEnd
<1>2. IInv'
    BY <1>1 DEF RInv, IInv, TypeOK, Serving, RangesAreLive, NoBadRange, vars
<1>3. PICK H : Record(H, Len(trace), trace, checked)
    BY <1>1 DEF RInv
<1>4. ~Unchecked'
    BY <1>1 DEF Unchecked
<1>5. trace' \in Seq(Request) /\ pc' \in Nat \ {0} /\ answers' \in Seq(Int)
    BY <1>1 DEF RInv
<1> QED BY <1>1, <1>2, <1>3, <1>4, <1>5 DEF RInv

(* The steps of main between the evaluations.                              *)
LEMMA LoopKeeps ==
    ASSUME RInv, BInv', Invalid \/ FreeTrace \/ Report
    PROVE  RInv'
<1>1. /\ IInv /\ trace \in Seq(Request) /\ pc \in Nat \ {0} /\ answers \in Seq(Int)
    BY DEF RInv
<1>2. /\ phase' \in {"free trace", "read", "done"}
      /\ pc' = pc /\ answers' = answers /\ trace' \in {trace, <<>>}
    BY DEF Invalid, FreeTrace, Report
<1>4. trace' \in Seq(Request)
    BY <1>1, <1>2, EmptySeq
<1>3. IInv'
    <2>1. CASE FreeTrace
        BY <1>1, <2>1, CheckInv
    <2>2. CASE Invalid \/ Report
        BY <1>1, <2>2 DEF Invalid, Report, vars, IInv, TypeOK, Serving, RangesAreLive,
                          NoBadRange
    <2> QED BY <2>1, <2>2
<1> QED BY <1>1, <1>2, <1>3, <1>4 DEF RInv

(* A step that changes nothing.                                            *)
LEMMA StutterKeeps ==
    ASSUME RInv, BInv', UNCHANGED mvars
    PROVE  RInv'
<1>1. UNCHANGED <<vars, main>>
    BY DEF mvars
<1>2. IInv' /\ (OnRecord => OnRecord') /\ Snap' = Snap
    BY <1>1 DEF RInv, IInv, TypeOK, Serving, RangesAreLive, NoBadRange, vars, main,
               OnRecord, Snap
<1>3. \A H : Follows(H) => Follows(H)'
    BY <1>1 DEF Follows, vars, main
<1> QED BY <1>1, <1>2, <1>3 DEF RInv, Unchecked, vars, main

(* The first state.                                                        *)
LEMMA InitRecords == MInit => IInv /\ (BInv => RInv)
<1> SUFFICES ASSUME MInit PROVE IInv /\ (BInv => RInv)
    OBVIOUS
<1>1. IInv
    BY InitInv DEF MInit
<1>2. trace \in Seq(Request) /\ pc \in Nat \ {0} /\ answers \in Seq(Int) /\ phase = "read"
    BY DEF MInit
<1> QED BY <1>1, <1>2 DEF RInv

(* The checked run is on record, and every measured run follows it         *)
(* (mdriver.c, main and the three evaluations).                            *)
THEOREM EveryRunIsFollowed == MSpec => []RInv
<1>1. MInit => BInv
    BY BooksInit
<1>2. MInit => RInv
    BY <1>1, InitRecords
<1>3. RInv /\ [MNext]_mvars => RInv'
    <2> SUFFICES ASSUME RInv, [MNext]_mvars PROVE RInv'
        OBVIOUS
    <2>1. BInv'
        BY BooksNext DEF RInv
    <2>2. CASE ReadTrace
        BY <2>1, <2>2, ReadTraceRecords
    <2>3. CASE ValidOp
        BY <2>1, <2>3, ValidOpRecords
    <2>4. CASE ValidEnd
        BY <2>1, <2>4, ValidEndRecords
    <2>5. CASE UtilInit \/ SpeedInit
        BY <2>1, <2>5, StartRunFollows
    <2>6. CASE UtilOp \/ SpeedOp
        BY <2>1, <2>6, MeasureFollows
    <2>7. CASE UtilEnd \/ SpeedEnd
        BY <2>1, <2>7, RunEndKeeps
    <2>8. CASE Invalid \/ FreeTrace \/ Report
        BY <2>1, <2>8, LoopKeeps
    <2>9. CASE Exited \/ UNCHANGED mvars
        BY <2>1, <2>9, StutterKeeps DEF Exited
    <2> QED BY <2>2, <2>3, <2>4, <2>5, <2>6, <2>7, <2>8, <2>9 DEF MNext
<1> QED BY <1>2, <1>3, PTL DEF MSpec

(* Every request of a measured run gets the pointer it got when it was     *)
(* checked (mdriver.c, eval_mm_util and eval_mm_speed).                    *)
THEOREM MeasuredAsChecked == MSpec => []SameAnswers
<1>1. RInv => SameAnswers
    <2> SUFFICES ASSUME RInv, Unchecked
                 PROVE  answers = SubSeq(checked, 1, Len(answers))
        BY DEF SameAnswers
    <2>1. PICK H : Record(H, Len(trace), trace, checked) /\ Follows(H)
        BY DEF RInv, Unchecked
    <2>2. /\ answers \in Seq(Int) /\ pc \in Nat \ {0} /\ trace \in Seq(Request)
          /\ Len(trace) \in Nat
        BY RInvTypes
    <2>3. checked \in Seq(Int) /\ Len(checked) = Len(trace)
        BY <2>1 DEF Record
    <2>4. /\ pc <= Len(trace) + 1 /\ Len(answers) = pc - 1
          /\ \A k \in 1 .. pc - 1 : answers[k] = checked[k]
        BY <2>1 DEF Follows
    <2>5. PICK n \in Nat : n = Len(answers)
        BY <2>2
    <2>6. n <= Len(checked) /\ \A k \in 1 .. n : checked[k] = answers[k]
        BY <2>2, <2>3, <2>4, <2>5
    <2>7. \A k \in 1 .. n : checked[k] \in Int
        BY <2>3, <2>6, ElementOfSeq
    <2>8. PICK q : q = SubSeq(checked, 1, n)
        OBVIOUS
    <2>9. /\ q \in Seq(Int)
          /\ Len(q) = IF 1 <= n THEN n - 1 + 1 ELSE 0
          /\ \A k \in 1 .. n - 1 + 1 : q[k] = checked[1 + k - 1]
        BY <2>7, <2>8, SubSeqProperties
    <2>10. Len(q) = n
        BY <2>5, <2>9
    <2>11. \A k \in 1 .. n : q[k] = checked[k]
        <3> SUFFICES ASSUME NEW k \in 1 .. n PROVE q[k] = checked[k]
            OBVIOUS
        <3>1. k \in 1 .. n - 1 + 1 /\ 1 + k - 1 = k
            OBVIOUS
        <3> QED BY <3>1, <2>9
    <2>12. answers = q
        BY <2>2, <2>5, <2>6, <2>9, <2>10, <2>11, SeqEqual
    <2> QED BY <2>5, <2>8, <2>12
<1> QED BY <1>1, EveryRunIsFollowed, PTL

(* No measurement of a trace found valid ends in app_error (mdriver.c).    *)
THEOREM MeasurementsNeverAbort == MSpec => []NoAppError
<1>1. RInv => NoAppError
    BY DEF RInv, NoAppError
<1> QED BY <1>1, EveryRunIsFollowed, PTL

(* The heap of a measured run, while it has no gap, is one that the checked *)
(* run has had, but for what the payloads hold.                            *)
LEMMA MeasuredHeap ==
    ASSUME RInv, Unchecked, heap.gaps = {}
    PROVE  /\ heap \in Heaps /\ Shape(heap) /\ CoalescedOK(heap)
           /\ \A i \in live : AllocBlock(heap, blocks[i])
<1>1. PICK H : Record(H, Len(trace), trace, checked) /\ Follows(H)
    BY DEF RInv, Unchecked
<1>2. pc \in 1 .. Len(trace) + 1
    <2>1. pc \in Nat \ {0} /\ Len(trace) \in Nat
        BY RInvTypes
    <2> QED BY <1>1, <2>1 DEF Follows
<1>3. PICK s : s = H[pc]
    OBVIOUS
<1>4. Sound(s) /\ Mirrors(s, heap, blocks, live)
    BY <1>1, <1>2, <1>3 DEF Record, Follows
<1>5. s.heap.gaps = {}
    BY <1>4 DEF Mirrors, After
<1>6. PICK g : g = s.heap
    OBVIOUS
<1>7. /\ SameTags(g, heap) /\ Shape(g) /\ CoalescedOK(g)
      /\ \A i \in s.live : AllocBlock(g, s.blocks[i])
    BY <1>4, <1>5, <1>6, SoundHeap DEF Mirrors, After
<1>8. heap \in Heaps /\ Shape(heap) /\ CoalescedOK(heap)
    BY <1>4, <1>7, SameShape DEF Mirrors, After
<1>9. ASSUME NEW i \in live PROVE AllocBlock(heap, blocks[i])
    <2>1. blocks[i] = s.blocks[i] /\ AllocBlock(g, s.blocks[i])
        BY <1>4, <1>7 DEF Mirrors
    <2>2. PICK p : p = blocks[i]
        OBVIOUS
    <2> QED BY <1>7, <2>1, <2>2, SameBlocks
<1> QED BY <1>8, <1>9

(* The heap is well formed in all three evaluations, each of which starts  *)
(* on the words that the one before has left in the arena (mm.c).          *)
THEOREM EveryRunHasAHeap == MSpec => []HeapOKInEveryRun
<1>1. RInv => HeapOKInEveryRun
    <2> SUFFICES ASSUME RInv, heap.gaps = {}, Serving \/ Unchecked
                 PROVE  WellFormed(heap)
        BY DEF HeapOKInEveryRun
    <2>1. CASE Serving
        BY <2>1, IInvImplies DEF RInv, HeapOK
    <2>2. CASE Unchecked
        BY <2>2, MeasuredHeap DEF WellFormed, Shape
    <2> QED BY <2>1, <2>2
<1> QED BY <1>1, EveryRunIsFollowed, PTL

-----------------------------------------------------------------------------
(* The utilisation.  The payloads of the live ids lie apart between the    *)
(* prologue and the break, so that their bytes, and with them 8 bytes of   *)
(* tags for each, can be counted: that is what total_size does.            *)

(* The bytes from bl[i], bs[i] and k more of them, for each id of L.       *)
Bytes(bl, bs, L, k) == UNION {bl[i] .. bl[i] + bs[i] + k - 1 : i \in L}

(* size bytes at p and the tags of their block miss those of id j.         *)
Misses(p, size, bl, bs, j) ==
    p + size + 8 <= bl[j] \/ bl[j] + bs[j] + 8 <= p

(* The bytes of one id make a finite set.                                  *)
LEMMA OneCount ==
    ASSUME NEW p \in Int, NEW size \in Nat, NEW k \in {0, 8}
    PROVE  /\ IsFiniteSet(p .. p + size + k - 1)
           /\ Cardinality(p .. p + size + k - 1) = size + k
<1>1. p + size + k - 1 \in Int
    OBVIOUS
<1>2. /\ IsFiniteSet(p .. p + size + k - 1)
      /\ Cardinality(p .. p + size + k - 1)
           = IF p > p + size + k - 1 THEN 0 ELSE (p + size + k - 1) - p + 1
    BY <1>1, FS_Interval
<1> QED BY <1>2

(* Bytes that miss a set add to its number.                                *)
LEMMA CountMore ==
    ASSUME NEW S, IsFiniteSet(S), NEW p \in Int, NEW size \in Nat, NEW k \in {0, 8},
           \A x \in S : x \notin p .. p + size + k - 1
    PROVE  /\ IsFiniteSet(S \cup (p .. p + size + k - 1))
           /\ Cardinality(S \cup (p .. p + size + k - 1)) = Cardinality(S) + size + k
<1>1. PICK T : T = p .. p + size + k - 1
    OBVIOUS
<1>2. IsFiniteSet(T) /\ Cardinality(T) = size + k
    BY <1>1, OneCount
<1>3. S \cap T = {}
    BY <1>1
<1>4. /\ IsFiniteSet(S \cup T)
      /\ Cardinality(S \cup T) = Cardinality(S) + Cardinality(T) - Cardinality(S \cap T)
    BY <1>2, FS_Union
<1>5. Cardinality(S) \in Nat /\ Cardinality(S \cap T) = 0
    BY <1>3, FS_CardinalityType, FS_EmptySet
<1> QED BY <1>1, <1>2, <1>4, <1>5

(* The bytes of L are those of one id and those of the others.             *)
LEMMA BytesSplit ==
    ASSUME NEW bl, NEW bs, NEW L, NEW i \in L, NEW k
    PROVE  Bytes(bl, bs, L, k)
             = Bytes(bl, bs, L \ {i}, k) \cup (bl[i] .. bl[i] + bs[i] + k - 1)
BY DEF Bytes

(* Bytes behind and before a payload.                                      *)
LEMMA BytesMiss ==
    ASSUME NEW bl \in [Ids -> Int], NEW bs \in [Ids -> Nat], NEW L \in SUBSET Ids,
           NEW k \in {0, 8}, NEW p \in Int, NEW size \in Nat,
           \A j \in L : Misses(p, size, bl, bs, j)
    PROVE  \A x \in Bytes(bl, bs, L, k) : x \notin p .. p + size + k - 1
<1> SUFFICES ASSUME NEW j \in L, NEW x \in bl[j] .. bl[j] + bs[j] + k - 1
             PROVE  x \notin p .. p + size + k - 1
    BY DEF Bytes
<1>1. PICK b, s : b = bl[j] /\ s = bs[j]
    OBVIOUS
<1>2. b \in Int /\ s \in Nat /\ (p + size + 8 <= b \/ b + s + 8 <= p)
    BY <1>1 DEF Misses
<1>3. x \in b .. b + s + k - 1
    BY <1>1
<1> QED BY <1>2, <1>3

-----------------------------------------------------------------------------
(* total is the number of bytes of the payloads, and with 8 more for each  *)
(* the number of bytes they need in blocks.                                *)
Counted(bl, bs, L, total) ==
    /\ IsFiniteSet(L) /\ total \in Int
    /\ \A k \in {0, 8} : IsFiniteSet(Bytes(bl, bs, L, k))
    /\ Cardinality(Bytes(bl, bs, L, 0)) = total
    /\ Cardinality(Bytes(bl, bs, L, 8)) = total + 8 * Cardinality(L)

(* No payload, no byte.                                                    *)
LEMMA CountedEmpty ==
    ASSUME NEW bl, NEW bs
    PROVE  Counted(bl, bs, {}, 0)
<1>1. \A k : Bytes(bl, bs, {}, k) = {}
    BY DEF Bytes
<1> QED BY <1>1, FS_EmptySet DEF Counted

(* A payload less.                                                         *)
LEMMA CountedLess ==
    ASSUME NEW bl \in [Ids -> Int], NEW bs \in [Ids -> Nat], NEW L \in SUBSET Ids,
           NEW total, Counted(bl, bs, L, total), NEW i \in L,
           \A j \in L \ {i} : Misses(bl[i], bs[i], bl, bs, j)
    PROVE  Counted(bl, bs, L \ {i}, total - bs[i])
<1>1. PICK p, size : p = bl[i] /\ size = bs[i]
    OBVIOUS
<1>2. p \in Int /\ size \in Nat
    BY <1>1
<1>3. ASSUME NEW k \in {0, 8}
      PROVE  /\ IsFiniteSet(Bytes(bl, bs, L \ {i}, k))
             /\ Cardinality(Bytes(bl, bs, L \ {i}, k)) \in Nat
             /\ Cardinality(Bytes(bl, bs, L, k))
                  = Cardinality(Bytes(bl, bs, L \ {i}, k)) + size + k
    <2>1. PICK S, T : S = Bytes(bl, bs, L \ {i}, k) /\ T = Bytes(bl, bs, L, k)
        OBVIOUS
    <2>2. T = S \cup (p .. p + size + k - 1)
        <3>1. Bytes(bl, bs, L, k)
                = Bytes(bl, bs, L \ {i}, k) \cup (bl[i] .. bl[i] + bs[i] + k - 1)
            BY DEF Bytes
        <3> QED BY <3>1, <1>1, <2>1
    <2>3. IsFiniteSet(T)
        BY <2>1 DEF Counted
    <2>4. IsFiniteSet(S)
        BY <2>2, <2>3, FS_Subset
    <2>5. \A x \in S : x \notin p .. p + size + k - 1
        <3>1. L \ {i} \in SUBSET Ids
            OBVIOUS
        <3>2. \A j \in L \ {i} : Misses(p, size, bl, bs, j)
            BY <1>1
        <3> QED BY <1>2, <2>1, <3>1, <3>2, BytesMiss
    <2>6. Cardinality(T) = Cardinality(S) + size + k
        BY <1>2, <2>2, <2>4, <2>5, CountMore
    <2> QED BY <2>1, <2>4, <2>6, FS_CardinalityType
<1>4. IsFiniteSet(L \ {i}) /\ Cardinality(L \ {i}) = Cardinality(L) - 1
    BY FS_RemoveElement DEF Counted
<1>5. Cardinality(L) \in Nat
    BY FS_CardinalityType DEF Counted
<1>6. /\ IsFiniteSet(Bytes(bl, bs, L \ {i}, 0)) /\ IsFiniteSet(Bytes(bl, bs, L \ {i}, 8))
      /\ Cardinality(Bytes(bl, bs, L \ {i}, 0)) = total - size
      /\ Cardinality(Bytes(bl, bs, L \ {i}, 8)) = total + 8 * Cardinality(L) - size - 8
    BY <1>2, <1>3, <1>5 DEF Counted
<1>7. total - size \in Int
    BY <1>2 DEF Counted
<1> QED BY <1>1, <1>2, <1>4, <1>5, <1>6, <1>7 DEF Counted

(* A payload more, in a place of its own.                                  *)
LEMMA CountedMore ==
    ASSUME NEW bl \in [Ids -> Int], NEW bs \in [Ids -> Nat], NEW L \in SUBSET Ids,
           NEW total, Counted(bl, bs, L, total), NEW i, i \notin L,
           NEW p \in Int, NEW size \in Nat,
           \A j \in L : Misses(p, size, bl, bs, j),
           NEW bl2, NEW bs2, Stored(bl, bs, L, bl2, bs2, L \cup {i}, i, p, size)
    PROVE  Counted(bl2, bs2, L \cup {i}, total + size)
<1>1. ASSUME NEW k \in {0, 8}
      PROVE  /\ IsFiniteSet(Bytes(bl2, bs2, L \cup {i}, k))
             /\ Cardinality(Bytes(bl, bs, L, k)) \in Nat
             /\ Cardinality(Bytes(bl2, bs2, L \cup {i}, k))
                  = Cardinality(Bytes(bl, bs, L, k)) + size + k
    <2>1. PICK S, T : S = Bytes(bl, bs, L, k) /\ T = Bytes(bl2, bs2, L \cup {i}, k)
        OBVIOUS
    <2>2. T = S \cup (p .. p + size + k - 1)
        <3>1. PICK M : M = L \cup {i}
            OBVIOUS
        <3>5. i \in M /\ M \ {i} = L
            BY <3>1
        <3>6. Bytes(bl2, bs2, M, k)
                = Bytes(bl2, bs2, M \ {i}, k) \cup (bl2[i] .. bl2[i] + bs2[i] + k - 1)
            BY <3>5, BytesSplit
        <3>2. T = Bytes(bl2, bs2, L, k) \cup (bl2[i] .. bl2[i] + bs2[i] + k - 1)
            BY <2>1, <3>1, <3>5, <3>6
        <3>3. bl2[i] = p /\ bs2[i] = size /\ \A j \in L : bl2[j] = bl[j] /\ bs2[j] = bs[j]
            BY DEF Stored
        <3>4. Bytes(bl2, bs2, L, k) = S
            BY <2>1, <3>3 DEF Bytes
        <3> QED BY <3>2, <3>3, <3>4
    <2>3. IsFiniteSet(S)
        BY <2>1 DEF Counted
    <2>4. \A x \in S : x \notin p .. p + size + k - 1
        BY <2>1, BytesMiss
    <2>5. IsFiniteSet(T) /\ Cardinality(T) = Cardinality(S) + size + k
        <3>1. /\ IsFiniteSet(S \cup (p .. p + size + k - 1))
              /\ Cardinality(S \cup (p .. p + size + k - 1)) = Cardinality(S) + size + k
            BY <2>3, <2>4, CountMore
        <3> QED BY <2>2, <3>1
    <2> QED BY <2>1, <2>3, <2>5, FS_CardinalityType
<1>2. IsFiniteSet(L \cup {i}) /\ Cardinality(L \cup {i}) = Cardinality(L) + 1
    BY FS_AddElement DEF Counted
<1>3. Cardinality(L) \in Nat
    BY FS_CardinalityType DEF Counted
<1>4. /\ IsFiniteSet(Bytes(bl2, bs2, L \cup {i}, 0))
      /\ IsFiniteSet(Bytes(bl2, bs2, L \cup {i}, 8))
      /\ Cardinality(Bytes(bl2, bs2, L \cup {i}, 0)) = total + size
      /\ Cardinality(Bytes(bl2, bs2, L \cup {i}, 8)) = total + 8 * Cardinality(L) + size + 8
    BY <1>1, <1>3 DEF Counted
<1>5. total + size \in Int
    BY DEF Counted
<1> QED BY <1>2, <1>3, <1>4, <1>5 DEF Counted

(* The payloads with their tags lie between the prologue and the break.    *)
Inside(bl, bs, L, brk) ==
    \A i \in L : 16 <= bl[i] /\ bl[i] + bs[i] + 8 <= brk

(* So they are fewer than the bytes of the heap.                           *)
LEMMA CountedFits ==
    ASSUME NEW bl \in [Ids -> Int], NEW bs \in [Ids -> Nat], NEW L \in SUBSET Ids,
           NEW total, Counted(bl, bs, L, total),
           NEW brk \in Nat, brk >= 16, Inside(bl, bs, L, brk)
    PROVE  /\ Cardinality(L) \in Nat /\ total \in Nat
           /\ total + 8 * Cardinality(L) < brk
<1>1. PICK S : S = Bytes(bl, bs, L, 8)
    OBVIOUS
<1>2. S \subseteq 16 .. brk - 1
    <2> SUFFICES ASSUME NEW j \in L, NEW x \in bl[j] .. bl[j] + bs[j] + 8 - 1
                 PROVE  x \in 16 .. brk - 1
        BY <1>1 DEF Bytes
    <2>1. PICK b, s : b = bl[j] /\ s = bs[j]
        OBVIOUS
    <2>2. b \in Int /\ s \in Nat /\ 16 <= b /\ b + s + 8 <= brk
        BY <2>1 DEF Inside
    <2>3. x \in b .. b + s + 8 - 1
        BY <2>1
    <2> QED BY <2>2, <2>3
<1>3. PICK T : T = 16 .. brk - 1
    OBVIOUS
<1>4. IsFiniteSet(T) /\ Cardinality(T) = brk - 16
    BY <1>3, FS_Interval
<1>5. Cardinality(S) <= Cardinality(T)
    BY <1>2, <1>3, <1>4, FS_Subset
<1>6. Cardinality(S) = total + 8 * Cardinality(L)
    BY <1>1 DEF Counted
<1>7. Cardinality(L) \in Nat /\ Cardinality(Bytes(bl, bs, L, 0)) \in Nat /\ total \in Int
    BY FS_CardinalityType DEF Counted
<1>8. total \in Nat
    BY <1>7 DEF Counted
<1> QED BY <1>4, <1>5, <1>6, <1>7, <1>8

-----------------------------------------------------------------------------
(* The payloads of the live ids lie apart.                                 *)
LEMMA PayloadsMiss ==
    ASSUME NEW h \in Heaps, NEW bl \in [Ids -> Int], NEW bs \in [Ids -> Nat],
           NEW L \in SUBSET Ids, Agree(h, bl, bs, L), NEW i \in L
    PROVE  \A j \in L \ {i} : Misses(bl[i], bs[i], bl, bs, j)
<1> SUFFICES ASSUME NEW j \in L \ {i} PROVE Misses(bl[i], bs[i], bl, bs, j)
    OBVIOUS
<1>1. PICK p, q : p = bl[i] /\ q = bl[j]
    OBVIOUS
<1>2. PICK m, n : m = bs[i] /\ n = bs[j]
    OBVIOUS
<1>3. Shape(h) /\ p \in h.blks /\ q \in h.blks /\ p # q
    BY <1>1 DEF Agree, AllocBlock
<1>4. m + 8 <= BlockSize(h, p) /\ n + 8 <= BlockSize(h, q)
    BY <1>1, <1>2 DEF Agree
<1>5. /\ p \in Nat /\ q \in Nat /\ m \in Nat /\ n \in Nat
      /\ BlockSize(h, p) \in Nat /\ BlockSize(h, q) \in Nat
    BY <1>2, <1>3, BlockFacts
<1>6. p < q => p + BlockSize(h, p) <= q
    BY <1>3, OrderFacts
<1>7. q < p => q + BlockSize(h, q) <= p
    BY <1>3, OrderFacts
<1>8. p + m + 8 <= q \/ q + n + 8 <= p
    BY <1>3, <1>4, <1>5, <1>6, <1>7
<1> QED BY <1>1, <1>2, <1>8 DEF Misses

(* k is h with the block p for i: its payload misses the others, and if    *)
(* place has left no gap the driver's table can agree with k.              *)
Gains(h, k, bl, bs, L, i, p, size) ==
    /\ k \in Heaps /\ p \in Nat /\ 16 <= p /\ p + size + 8 <= k.brk /\ k.brk >= h.brk
    /\ \A j \in L : Misses(p, size, bl, bs, j)
    /\ k.gaps = {} => NewBlock(h, k, bl, bs, L, i, p, size)

(* A block of h that ends before p or begins behind it.                    *)
LEMMA BlockMisses ==
    ASSUME NEW h \in Heaps, NEW bl \in [Ids -> Int], NEW bs \in [Ids -> Nat],
           NEW L \in SUBSET Ids, Agree(h, bl, bs, L),
           NEW p \in Nat, NEW size \in Nat,
           \A b : AllocBlock(h, b) => b + BlockSize(h, b) <= p \/ p + size + 8 <= b
    PROVE  \A j \in L : Misses(p, size, bl, bs, j)
<1> SUFFICES ASSUME NEW j \in L PROVE Misses(p, size, bl, bs, j)
    OBVIOUS
<1>1. PICK q, n : q = bl[j] /\ n = bs[j]
    OBVIOUS
<1>2. Shape(h) /\ AllocBlock(h, q) /\ n + 8 <= BlockSize(h, q)
    BY <1>1 DEF Agree
<1>3. q \in Nat /\ n \in Nat /\ BlockSize(h, q) \in Nat
    BY <1>1, <1>2, BlockFacts DEF AllocBlock
<1>4. q + BlockSize(h, q) <= p \/ p + size + 8 <= q
    BY <1>2
<1>5. p + size + 8 <= q \/ q + n + 8 <= p
    BY <1>2, <1>3, <1>4
<1> QED BY <1>1, <1>5 DEF Misses

(* What a mm_malloc that answers a block gains.                            *)
LEMMA MallocGains ==
    ASSUME NEW h \in Heaps, h.gaps = {},
           NEW bl \in [Ids -> Int], NEW bs \in [Ids -> Nat], NEW L \in SUBSET Ids,
           Agree(h, bl, bs, L),
           NEW i \in Ids, i \notin L, NEW size \in Nat,
           NEW m, m = mm_malloc(h, size), m.ret # NULL
    PROVE  Gains(h, m.heap, bl, bs, L, i, m.ret, size)
<1>1. Shape(h) /\ CoalescedOK(h)
    BY DEF Agree
<1>2. Granted(h, m, size)
    BY <1>1, MallocWorks
<1>3. PICK k, p : k = m.heap /\ p = m.ret
    OBVIOUS
<1>4. /\ k \in Heaps /\ p \in Nat /\ p >= 16 /\ k.brk >= h.brk /\ p + size + 8 <= k.brk
      /\ \A b : AllocBlock(h, b) =>
           /\ b # p /\ Kept(h, k, b)
           /\ b + BlockSize(h, b) <= p \/ p + size + 8 <= b
      /\ k.gaps = {} =>
          /\ Shape(k) /\ CoalescedOK(k)
          /\ AllocBlock(k, p) /\ BlockSize(k, p) >= size + 8
          /\ \A b : b # p => (AllocBlock(k, b) <=> AllocBlock(h, b))
    BY <1>2, <1>3 DEF Granted
<1>5. \A j \in L : Misses(p, size, bl, bs, j)
    BY <1>4, BlockMisses
<1>6. ASSUME k.gaps = {}
      PROVE  NewBlock(h, k, bl, bs, L, i, p, size)
    <2>1. /\ Shape(k) /\ CoalescedOK(k)
          /\ AllocBlock(k, p) /\ BlockSize(k, p) >= size + 8
          /\ \A b : b # p => (AllocBlock(k, b) <=> AllocBlock(h, b))
        BY <1>4, <1>6
    <2>2. BlockSize(k, p) \in Nat
        BY <2>1, <1>4, BlockFacts DEF AllocBlock
    <2>3. size + 8 <= BlockSize(k, p)
        BY <2>1, <2>2
    <2>4. \A j \in L \ {i} : AllocBlock(h, bl[j]) /\ bs[j] + 8 <= BlockSize(h, bl[j])
        BY DEF Agree
    <2>5. \A j \in L \ {i} : bl[j] # p /\ Kept(h, k, bl[j])
        BY <2>4, <1>4
    <2>6. \A b : AllocBlock(k, b) <=> b = p \/ \E j \in L \ {i} : bl[j] = b
        BY <2>1 DEF Agree
    <2>7. \A j, l \in L : bl[j] = bl[l] => j = l
        BY DEF Agree
    <2> QED BY <2>1, <2>3, <2>4, <2>5, <2>6, <2>7 DEF NewBlock
<1>7. Gains(h, k, bl, bs, L, i, p, size)
    BY <1>4, <1>5, <1>6 DEF Gains
<1> QED BY <1>3, <1>7

(* What a mm_realloc that answers a block gains.                           *)
LEMMA ReallocGains ==
    ASSUME NEW h \in Heaps, h.gaps = {},
           NEW bl \in [Ids -> Int], NEW bs \in [Ids -> Nat], NEW L \in SUBSET Ids,
           Agree(h, bl, bs, L),
           NEW i \in L, NEW size \in Nat, NEW junk \in Int,
           NEW m, m = mm_realloc(h, bl[i], size, junk), m.ret # NULL
    PROVE  Gains(h, m.heap, bl, bs, L, i, m.ret, size)
<1>1. Shape(h) /\ CoalescedOK(h) /\ AllocBlock(h, bl[i])
    BY DEF Agree
<1>2. Moved(h, m, bl[i], size)
    BY <1>1, ReallocWorks
<1>3. PICK k, p : k = m.heap /\ p = m.ret
    OBVIOUS
<1>4. /\ k \in Heaps /\ p \in Nat /\ p >= 16 /\ k.brk >= h.brk /\ p + size + 8 <= k.brk
      /\ \A b : AllocBlock(h, b) =>
           /\ b # p
           /\ b + BlockSize(h, b) <= p \/ p + size + 8 <= b
      /\ k.gaps = {} =>
          /\ Shape(k) /\ CoalescedOK(k)
          /\ BlockSize(k, p) >= size + 8
          /\ \A b : AllocBlock(k, b) <=> b = p \/ (AllocBlock(h, b) /\ b # bl[i])
          /\ \A b : AllocBlock(h, b) /\ b # bl[i] => Kept(h, k, b)
    BY <1>2, <1>3 DEF Moved
<1>5. \A j \in L : Misses(p, size, bl, bs, j)
    BY <1>4, BlockMisses
<1>6. ASSUME k.gaps = {}
      PROVE  NewBlock(h, k, bl, bs, L, i, p, size)
    <2>1. /\ Shape(k) /\ CoalescedOK(k)
          /\ BlockSize(k, p) >= size + 8
          /\ \A b : AllocBlock(k, b) <=> b = p \/ (AllocBlock(h, b) /\ b # bl[i])
          /\ \A b : AllocBlock(h, b) /\ b # bl[i] => Kept(h, k, b)
        BY <1>4, <1>6
    <2>2. BlockSize(k, p) \in Nat
        BY <2>1, <1>4, BlockFacts DEF AllocBlock
    <2>3. size + 8 <= BlockSize(k, p)
        BY <2>1, <2>2
    <2>4. \A j \in L \ {i} : /\ AllocBlock(h, bl[j]) /\ bl[j] # bl[i]
                             /\ bs[j] + 8 <= BlockSize(h, bl[j])
        BY DEF Agree
    <2>5. \A j \in L \ {i} : bl[j] # p /\ Kept(h, k, bl[j])
        BY <2>1, <2>4, <1>4
    <2>6. \A b : (AllocBlock(h, b) /\ b # bl[i]) <=> (\E j \in L \ {i} : bl[j] = b)
        BY DEF Agree
    <2>7. \A b : AllocBlock(k, b) <=> b = p \/ \E j \in L \ {i} : bl[j] = b
        BY <2>1, <2>6
    <2>8. \A j, l \in L : bl[j] = bl[l] => j = l
        BY DEF Agree
    <2> QED BY <2>1, <2>3, <2>4, <2>5, <2>7, <2>8 DEF NewBlock
<1>7. Gains(h, k, bl, bs, L, i, p, size)
    BY <1>4, <1>5, <1>6 DEF Gains
<1> QED BY <1>3, <1>7

-----------------------------------------------------------------------------
(* A table of the driver is typed.                                         *)
TableTyped(bl, bs, L) ==
    bl \in [Ids -> Int] /\ bs \in [Ids -> Nat] /\ L \in SUBSET Ids

(* What eval_mm_util relies on: heap and table agree as long as there is   *)
(* no gap; the payloads lie in the heap; total_size counts them, and       *)
(* neither it nor its high water mark has reached the size of the heap.    *)
UtilSound(h, bl, bs, L, total, top) ==
    /\ h.brk \in Nat /\ h.brk >= 16
    /\ h.gaps = {} => Agree(h, bl, bs, L)
    /\ Inside(bl, bs, L, h.brk)
    /\ Counted(bl, bs, L, total)
    /\ top \in Nat /\ total <= top /\ top < h.brk

(* A block gained and stored: total is what the other payloads sum to.     *)
LEMMA UtilGains ==
    ASSUME NEW h \in Heaps, NEW k \in Heaps, NEW bl, NEW bs, NEW L, TableTyped(bl, bs, L),
           NEW i \in Ids, NEW bl2, NEW bs2, TableTyped(bl2, bs2, L \cup {i}),
           NEW p, NEW size \in Nat,
           Gains(h, k, bl, bs, L, i, p, size),
           Stored(bl, bs, L, bl2, bs2, L \cup {i}, i, p, size),
           Inside(bl, bs, L, h.brk), h.brk \in Nat, h.brk >= 16,
           NEW rest, Counted(bl, bs, L \ {i}, rest),
           NEW top \in Nat, top < h.brk
    PROVE  UtilSound(k, bl2, bs2, L \cup {i}, rest + size, MaxOf(rest + size, top))
<1>1. PICK M, N : M = L \cup {i} /\ N = L \ {i}
    OBVIOUS
<1>2. /\ bl \in [Ids -> Int] /\ bs \in [Ids -> Nat] /\ M \in SUBSET Ids /\ N \in SUBSET Ids
      /\ bl2 \in [Ids -> Int] /\ bs2 \in [Ids -> Nat] /\ i \notin N /\ N \cup {i} = M
    BY <1>1 DEF TableTyped
<1>3. /\ p \in Nat /\ 16 <= p /\ p + size + 8 <= k.brk /\ k.brk >= h.brk
      /\ \A j \in L : Misses(p, size, bl, bs, j)
      /\ k.gaps = {} => NewBlock(h, k, bl, bs, L, i, p, size)
    BY DEF Gains
<1>4. k.brk \in Nat
    BY MaxHeapAssumption DEF Heaps
<1>5. Stored(bl, bs, N, bl2, bs2, M, i, p, size)
    BY <1>1 DEF Stored
<1>6. \A j \in N : Misses(p, size, bl, bs, j)
    BY <1>1, <1>3
<1>7. Counted(bl2, bs2, N \cup {i}, rest + size)
    <2>1. p \in Int /\ Counted(bl, bs, N, rest)
        BY <1>1, <1>3
    <2>2. Stored(bl, bs, N, bl2, bs2, N \cup {i}, i, p, size)
        BY <1>2, <1>5
    <2> QED BY <2>1, <2>2, <1>2, <1>6, CountedMore
<1>8. k.gaps = {} => Agree(k, bl2, bs2, M)
    BY <1>1, <1>3, AgreeAfterGrant
<1>9. Inside(bl2, bs2, M, k.brk)
    <2> SUFFICES ASSUME NEW j \in M PROVE 16 <= bl2[j] /\ bl2[j] + bs2[j] + 8 <= k.brk
        BY DEF Inside
    <2>1. CASE j = i
        BY <2>1, <1>3, <1>5 DEF Stored
    <2>2. CASE j # i
        <3>1. j \in L /\ bl2[j] = bl[j] /\ bs2[j] = bs[j]
            BY <2>2, <1>1, <1>5 DEF Stored
        <3>2. PICK b, s : b = bl[j] /\ s = bs[j]
            OBVIOUS
        <3>3. b \in Int /\ s \in Nat /\ 16 <= b /\ b + s + 8 <= h.brk
            BY <3>1, <3>2, <1>2 DEF Inside, TableTyped
        <3>4. 16 <= b /\ b + s + 8 <= k.brk
            BY <3>3, <1>3, <1>4
        <3> QED BY <3>1, <3>2, <3>4
    <2> QED BY <2>1, <2>2
<1>10. PICK total : total = rest + size
    OBVIOUS
<1>11. Counted(bl2, bs2, M, total)
    BY <1>2, <1>7, <1>10
<1>12. k.brk >= 16
    BY <1>3, <1>4
<1>13. total \in Nat /\ total < k.brk
    <2>1. PICK c : c = Cardinality(M)
        OBVIOUS
    <2>2. c \in Nat /\ total \in Nat /\ total + 8 * c < k.brk
        BY <2>1, <1>2, <1>4, <1>9, <1>11, <1>12, CountedFits
    <2> QED BY <2>2, <1>4
<1>14. /\ MaxOf(total, top) \in Nat /\ total <= MaxOf(total, top) /\ MaxOf(total, top) < k.brk
    BY <1>3, <1>4, <1>13 DEF MaxOf
<1> QED BY <1>1, <1>4, <1>8, <1>9, <1>10, <1>11, <1>12, <1>14 DEF UtilSound

(* Each row of mm_stats of a valid trace reports a utilisation below 1.    *)
RowsFit == \A k \in DOMAIN stats : stats[k].valid => stats[k].max < stats[k].heapsize

UInv ==
    /\ phase = "util" =>
         UtilSound(heap, blocks, block_sizes, live, total_size, max_total_size)
    /\ RowsFit

(* The request that a measurement serves next is legal: it allocates an id *)
(* that is not live, or takes a block of one that is.                      *)
LEMMA MeasuredIsLegal ==
    ASSUME RInv, Unchecked, heap.gaps = {}, pc <= Len(trace)
    PROVE  /\ trace[pc] \in Request
           /\ trace[pc].type = "a" => trace[pc].index \notin live
           /\ trace[pc].type \in {"r", "f"} => trace[pc].index \in live
<1>1. PICK H : Record(H, Len(trace), trace, checked) /\ Follows(H)
    BY DEF RInv, Unchecked
<1>2. pc \in 1 .. Len(trace)
    BY RInvTypes
<1>3. trace[pc] \in Request
    BY <1>2, RInvTypes, ElementOfSeq
<1>4. Served(H[pc], trace[pc], H[pc + 1], checked[pc]) /\ H[pc].live = live
    BY <1>1, <1>2 DEF Record, Follows, Mirrors
<1> QED BY <1>3, <1>4 DEF Served

(* eval_mm_util begins with an empty heap.                                 *)
LEMMA UtilInitSound ==
    ASSUME RInv, RInv', UInv, UtilInit
    PROVE  UInv'
<1>1. PICK g : g = mem_reset_brk(heap)
    OBVIOUS
<1>2. PICK m : m = mm_init(g)
    OBVIOUS
<1>3. /\ heap' = m.heap /\ m.ret # NULL /\ live' = {} /\ stats' = stats
      /\ total_size' = 0 /\ max_total_size' = 0
    BY <1>1, <1>2 DEF UtilInit, StartRun, RInv
<1>4. g \in Heaps /\ g.brk = 0
    BY <1>1, RInvTypes, ResetHeap DEF TypeOK
<1>5. /\ heap' \in Heaps /\ Shape(heap') /\ CoalescedOK(heap') /\ heap'.brk > 16
      /\ \A b : ~AllocBlock(heap', b)
    BY <1>2, <1>3, <1>4, InitWorks
<1>6. Agree(heap', blocks', block_sizes', {})
    BY <1>5 DEF Agree
<1>7. heap'.brk \in Nat
    BY <1>5, MaxHeapAssumption DEF Heaps
<1>8. Inside(blocks', block_sizes', {}, heap'.brk)
    BY DEF Inside
<1>9. Counted(blocks', block_sizes', {}, 0)
    BY CountedEmpty
<1>10. UtilSound(heap', blocks', block_sizes', {}, 0, 0)
    BY <1>5, <1>6, <1>7, <1>8, <1>9 DEF UtilSound
<1> QED BY <1>3, <1>10 DEF UInv, RowsFit

(* A request under eval_mm_util.                                           *)
LEMMA UtilOpSound ==
    ASSUME RInv, RInv', UInv, UtilOp
    PROVE  UInv'
<1>1. PICK op, i, size : op = trace[pc] /\ i = op.index /\ size = op.size
    OBVIOUS
<1>2. /\ phase = "util" /\ heap.gaps = {} /\ pc <= Len(trace) /\ phase' # "exit"
      /\ stats' = stats
    BY DEF UtilOp, RInv
<1>3. /\ op \in Request /\ i \in Ids /\ size \in Nat
      /\ op.type = "a" => i \notin live
      /\ op.type \in {"r", "f"} => i \in live
    BY <1>1, <1>2, MeasuredIsLegal, RequestFields DEF Unchecked
<1>4. PICK junk \in Garbage : Serve(op, junk)
    BY <1>1 DEF UtilOp
<1>5. junk \in Int
    BY DriverAssumption
<1>6. /\ heap \in Heaps /\ heap' \in Heaps
      /\ blocks \in [Ids -> Int] /\ block_sizes \in [Ids -> Nat] /\ live \in SUBSET Ids
      /\ blocks' \in [Ids -> Int] /\ block_sizes' \in [Ids -> Nat] /\ live' \in SUBSET Ids
    BY RInvTypes DEF TypeOK, RInv, IInv
<1>7. /\ heap.brk \in Nat /\ heap.brk >= 16
      /\ Agree(heap, blocks, block_sizes, live)
      /\ Inside(blocks, block_sizes, live, heap.brk)
      /\ Counted(blocks, block_sizes, live, total_size)
      /\ max_total_size \in Nat /\ total_size <= max_total_size /\ max_total_size < heap.brk
    BY <1>2 DEF UInv, UtilSound
<1>8. /\ block_sizes' = IF op.type = "f" THEN block_sizes
                        ELSE [block_sizes EXCEPT ![i] = size]
      /\ total_size' = TotalAfter(op)
      /\ max_total_size' = IF op.type = "f" THEN max_total_size
                           ELSE MaxOf(TotalAfter(op), max_total_size)
    BY <1>1, <1>2 DEF UtilOp
<1>9. ASSUME op.type \in {"a", "r"}, NEW m, m.ret # NULL, m.heap = heap',
             blocks' = [blocks EXCEPT ![i] = m.ret], live' = live \cup {i},
             Gains(heap, m.heap, blocks, block_sizes, live, i, m.ret, size),
             NEW rest, Counted(blocks, block_sizes, live \ {i}, rest),
             TotalAfter(op) = rest + size
      PROVE  UInv'
    <2>1. PICK p : p = m.ret
        OBVIOUS
    <2>2. Gains(heap, heap', blocks, block_sizes, live, i, p, size)
        BY <1>9, <2>1
    <2>3. p \in Nat
        BY <2>2 DEF Gains
    <2>4. block_sizes' = [block_sizes EXCEPT ![i] = size]
        BY <1>8, <1>9
    <2>5. Stored(blocks, block_sizes, live, blocks', block_sizes', live', i, p, size)
        BY <1>3, <1>6, <1>9, <2>1, <2>4 DEF Stored
    <2>6. TableTyped(blocks, block_sizes, live) /\ TableTyped(blocks', block_sizes', live')
        BY <1>6 DEF TableTyped
    <2>7. /\ total_size' = rest + size
          /\ max_total_size' = MaxOf(rest + size, max_total_size)
        BY <1>8, <1>9
    <2>8. UtilSound(heap', blocks', block_sizes', live \cup {i}, rest + size,
                    MaxOf(rest + size, max_total_size))
        <3>1. PICK top : top = max_total_size
            OBVIOUS
        <3>2. top \in Nat /\ top < heap.brk
            BY <3>1, <1>7
        <3>3. PICK bl2, bs2, M : bl2 = blocks' /\ bs2 = block_sizes' /\ M = live'
            OBVIOUS
        <3>4. PICK k : k = heap'
            OBVIOUS
        <3>5. UtilSound(k, bl2, bs2, live \cup {i}, rest + size, MaxOf(rest + size, top))
            BY <1>3, <1>6, <1>7, <1>9, <2>2, <2>3, <2>5, <2>6, <3>2, <3>3, <3>4, UtilGains
        <3> QED BY <3>1, <3>3, <3>4, <3>5
    <2> QED BY <1>2, <1>9, <2>7, <2>8 DEF UInv, RowsFit
<1>10. CASE op.type = "a"
    <2>1. PICK m : m = mm_malloc(heap, size)
        OBVIOUS
    <2>2. /\ m.ret # NULL /\ heap' = m.heap /\ blocks' = [blocks EXCEPT ![i] = m.ret]
          /\ live' = live \cup {i}
        BY <1>1, <1>2, <1>4, <1>10, <2>1 DEF Serve
    <2>3. Gains(heap, m.heap, blocks, block_sizes, live, i, m.ret, size)
        BY <1>2, <1>3, <1>6, <1>7, <1>10, <2>1, <2>2, MallocGains
    <2>4. live \ {i} = live
        BY <1>3, <1>10
    <2>5. TotalAfter(op) = total_size + size
        BY <1>1, <1>10 DEF TotalAfter
    <2> QED BY <1>7, <1>9, <1>10, <2>2, <2>3, <2>4, <2>5
<1>11. ASSUME op.type \in {"r", "f"}
       PROVE  Counted(blocks, block_sizes, live \ {i}, total_size - block_sizes[i])
    <2>1. i \in live
        BY <1>3, <1>11
    <2>2. \A j \in live \ {i} : Misses(blocks[i], block_sizes[i], blocks, block_sizes, j)
        BY <1>6, <1>7, <2>1, PayloadsMiss
    <2> QED BY <1>6, <1>7, <2>1, <2>2, CountedLess
<1>12. CASE op.type = "r"
    <2>1. PICK m : m = mm_realloc(heap, blocks[i], size, junk)
        OBVIOUS
    <2>2. /\ m.ret # NULL /\ heap' = m.heap /\ blocks' = [blocks EXCEPT ![i] = m.ret]
          /\ live' = live \cup {i}
        BY <1>1, <1>2, <1>4, <1>12, <2>1 DEF Serve
    <2>3. Gains(heap, m.heap, blocks, block_sizes, live, i, m.ret, size)
        BY <1>2, <1>3, <1>5, <1>6, <1>7, <1>12, <2>1, <2>2, ReallocGains
    <2>4. TotalAfter(op) = (total_size - block_sizes[i]) + size
        <3>1. TotalAfter(op) = total_size + (size - block_sizes[i])
            BY <1>1, <1>12 DEF TotalAfter
        <3>2. total_size \in Int /\ block_sizes[i] \in Nat
            BY <1>3, <1>6, <1>7 DEF Counted
        <3> QED BY <1>3, <3>1, <3>2
    <2> QED BY <1>9, <1>11, <1>12, <2>2, <2>3, <2>4
<1>13. CASE op.type = "f"
    <2>1. /\ heap' = mm_free(heap, blocks[i]) /\ blocks' = blocks /\ live' = live \ {i}
          /\ block_sizes' = block_sizes /\ max_total_size' = max_total_size
        BY <1>1, <1>4, <1>8, <1>13 DEF Serve
    <2>2. total_size' = total_size - block_sizes[i]
        BY <1>1, <1>8, <1>13 DEF TotalAfter
    <2>3. PICK L, g : L = live' /\ g = heap'
        OBVIOUS
    <2>4. PICK total, s : total = total_size' /\ s = block_sizes[i]
        OBVIOUS
    <2>5. i \in live
        BY <1>3, <1>13
    <2>6. g.brk = heap.brk /\ Agree(g, blocks, block_sizes, L)
        BY <1>6, <1>7, <2>1, <2>3, <2>5, FreeStep
    <2>7. Inside(blocks, block_sizes, L, g.brk)
        BY <1>7, <2>1, <2>3, <2>6 DEF Inside
    <2>8. Counted(blocks, block_sizes, L, total)
        BY <1>11, <1>13, <2>1, <2>2, <2>3, <2>4
    <2>9. total <= max_total_size
        <3>1. total \in Int /\ total_size \in Int /\ s \in Nat /\ total = total_size - s
            BY <1>3, <1>6, <1>7, <2>2, <2>4, <2>8 DEF Counted
        <3> QED BY <3>1, <1>7
    <2>10. UtilSound(g, blocks, block_sizes, L, total, max_total_size)
        BY <1>7, <2>6, <2>7, <2>8, <2>9 DEF UtilSound
    <2> QED BY <1>2, <2>1, <2>3, <2>4, <2>10 DEF UInv, RowsFit
<1> QED BY <1>3, <1>10, <1>12, <1>13, RequestFields

(* A row more that fits.                                                   *)
LEMMA RowAdded ==
    ASSUME RowsFit, NEW n, NEW open, Booked(n, open), NEW row,
           row.valid => row.max < row.heapsize,
           stats' = Append(stats, row)
    PROVE  RowsFit'
<1>1. PICK S : stats \in Seq(S)
    BY DEF Booked
<1>2. /\ stats' \in Seq(S \cup {row}) /\ Len(stats') = Len(stats) + 1
      /\ \A k \in 1 .. Len(stats) : stats'[k] = stats[k]
      /\ stats'[Len(stats) + 1] = row
    BY <1>1, AppendFacts
<1>3. Len(stats) \in Nat /\ DOMAIN stats = 1 .. Len(stats)
    BY <1>1, LenProperties
<1>4. DOMAIN stats' = 1 .. Len(stats) + 1
    BY <1>2, LenProperties
<1> SUFFICES ASSUME NEW k \in DOMAIN stats', stats'[k].valid
             PROVE  stats'[k].max < stats'[k].heapsize
    BY DEF RowsFit
<1>5. CASE k = Len(stats) + 1
    BY <1>2, <1>5
<1>6. CASE k # Len(stats) + 1
    <2>1. k \in DOMAIN stats
        BY <1>3, <1>4, <1>6
    <2>2. stats'[k] = stats[k]
        BY <1>2, <1>3, <2>1
    <2> QED BY <2>1, <2>2 DEF RowsFit
<1> QED BY <1>5, <1>6

(* The row that eval_mm_util writes fits, and so does that of an invalid   *)
(* trace, which claims nothing.                                            *)
LEMMA RowsStayFit ==
    ASSUME RInv, UInv, UtilEnd \/ Invalid
    PROVE  UInv'
<1>1. CASE UtilEnd
    <2>1. PICK row : row = [valid |-> TRUE, max |-> max_total_size,
                            heapsize |-> mem_heapsize(heap)]
        OBVIOUS
    <2>2. stats' = Append(stats, row) /\ phase = "util" /\ phase' = "speed init"
        BY <1>1, <2>1 DEF UtilEnd
    <2>3. max_total_size < heap.brk
        BY <2>2 DEF UInv, UtilSound
    <2>4. row.max < row.heapsize
        BY <2>1, <2>3 DEF mem_heapsize
    <2>5. Booked(tracenum, 0)
        BY <2>2 DEF RInv, BInv
    <2>6. RowsFit'
        BY <2>2, <2>4, <2>5, RowAdded DEF UInv
    <2> QED BY <2>2, <2>6 DEF UInv
<1>2. CASE Invalid
    <2>1. PICK row : row = [valid |-> FALSE, max |-> 0, heapsize |-> 0]
        OBVIOUS
    <2>2. /\ stats' = Append(stats, row) /\ phase = "valid" /\ phase' = "free trace"
          /\ status \notin {"running", "valid"}
        BY <1>2, <2>1 DEF Invalid
    <2>3. ~row.valid
        BY <2>1
    <2>4. Booked(tracenum, 1)
        BY <2>2 DEF RInv, BInv
    <2>5. RowsFit'
        BY <2>2, <2>3, <2>4, RowAdded DEF UInv
    <2> QED BY <2>2, <2>5 DEF UInv
<1> QED BY <1>1, <1>2

(* No other step writes mm_stats or leads to eval_mm_util.                 *)
LEMMA OthersStayFit ==
    ASSUME RInv, RInv', UInv,
           \/ ReadTrace \/ ValidOp \/ ValidEnd \/ SpeedInit \/ SpeedOp \/ SpeedEnd
           \/ FreeTrace \/ Report \/ Exited \/ UNCHANGED mvars
    PROVE  UInv'
<1>1. stats' = stats
    BY DEF ReadTrace, ValidOp, ValidEnd, SpeedInit, StartRun, SpeedOp, SpeedEnd,
           FreeTrace, Report, Exited, mvars, main
<1>2. CASE ReadTrace \/ ValidOp \/ ValidEnd \/ SpeedInit \/ SpeedEnd \/ FreeTrace \/ Report
    <2>1. phase' # "util"
        BY <1>2 DEF ReadTrace, ValidOp, ValidEnd, SpeedInit, StartRun, SpeedEnd,
                    FreeTrace, Report
    <2> QED BY <1>1, <2>1 DEF UInv, RowsFit
<1>3. CASE SpeedOp
    <2>1. phase' # "util"
        BY <1>3 DEF SpeedOp, Serve
    <2> QED BY <1>1, <2>1 DEF UInv, RowsFit
<1>4. CASE Exited \/ UNCHANGED mvars
    BY <1>4 DEF Exited, mvars, main, vars, UInv, UtilSound, RowsFit
<1> QED BY <1>2, <1>3, <1>4

(* total_size is the number of bytes in the live payloads at every request *)
(* of eval_mm_util, and the utilisation it reports is below 1 (mdriver.c). *)
THEOREM UtilisationIsBelowOne == MSpec => []UtilBelowOne
<1>1. MInit => UInv
    <2> SUFFICES ASSUME MInit PROVE UInv
        OBVIOUS
    <2>1. stats = <<>> /\ phase = "read"
        BY DEF MInit
    <2>2. DOMAIN stats = {}
        BY <2>1
    <2> QED BY <2>1, <2>2 DEF UInv, RowsFit
<1>2. RInv /\ RInv' /\ UInv /\ [MNext]_mvars => UInv'
    <2> SUFFICES ASSUME RInv, RInv', UInv, [MNext]_mvars PROVE UInv'
        OBVIOUS
    <2>1. CASE UtilInit
        BY <2>1, UtilInitSound
    <2>2. CASE UtilOp
        BY <2>2, UtilOpSound
    <2>3. CASE UtilEnd \/ Invalid
        BY <2>3, RowsStayFit
    <2>4. CASE \/ ReadTrace \/ ValidOp \/ ValidEnd \/ SpeedInit \/ SpeedOp \/ SpeedEnd
               \/ FreeTrace \/ Report \/ Exited \/ UNCHANGED mvars
        BY <2>4, OthersStayFit
    <2> QED BY <2>1, <2>2, <2>3, <2>4 DEF MNext
<1>3. RInv /\ UInv => UtilBelowOne
    <2> SUFFICES ASSUME RInv, UInv, phase = "util"
                 PROVE  /\ total_size = Cardinality(PayloadBytes(live))
                        /\ total_size + DSIZE * Cardinality(live) < mem_heapsize(heap)
                        /\ total_size <= max_total_size
                        /\ max_total_size < mem_heapsize(heap)
        BY DEF UtilBelowOne, UInv, RowsFit
    <2>1. UtilSound(heap, blocks, block_sizes, live, total_size, max_total_size)
        BY DEF UInv
    <2>2. /\ blocks \in [Ids -> Int] /\ block_sizes \in [Ids -> Nat] /\ live \in SUBSET Ids
        BY RInvTypes DEF TypeOK
    <2>3. total_size + 8 * Cardinality(live) < heap.brk
        BY <2>1, <2>2, CountedFits DEF UtilSound
    <2>4. PayloadBytes(live) = Bytes(blocks, block_sizes, live, 0)
        <3>1. \A i \in live : blocks[i] + block_sizes[i] + 0 - 1 = blocks[i] + block_sizes[i] - 1
            BY <2>2
        <3> QED BY <3>1 DEF PayloadBytes, Bytes
    <2>5. total_size = Cardinality(PayloadBytes(live))
        BY <2>1, <2>4 DEF UtilSound, Counted
    <2> QED BY <2>1, <2>3, <2>5 DEF UtilSound, mem_heapsize, DSIZE
<1> QED BY <1>1, <1>2, <1>3, EveryRunIsFollowed, PTL DEF MSpec

-----------------------------------------------------------------------------
(* No run of the program leaves a gap when every block size is a multiple  *)
(* of 16: the grid of module EvalValid_proofs, in the measurements too.    *)
MGInv == heap.gaps = {} /\ (Serving \/ Unchecked => OnGrid(heap))

(* The check stays on the grid.                                            *)
LEMMA CheckGrid ==
    ASSUME RInv, RInv', MGInv, Rounded, ReadTrace \/ ValidOp \/ ValidEnd \/ FreeTrace
    PROVE  MGInv'
<1>1. IInv /\ GInv
    BY RInvTypes DEF MGInv, GInv
<1>2. Next
    BY RInvTypes, CheckSteps
<1>3. GInv'
    BY <1>1, <1>2, GInvNext
<1>4. ~Unchecked'
    BY DEF ReadTrace, ValidOp, ValidEnd, FreeTrace, Unchecked
<1> QED BY <1>3, <1>4 DEF GInv, MGInv

(* A measured run begins on it.                                            *)
LEMMA StartRunGrid ==
    ASSUME RInv, RInv', MGInv, Rounded, UtilInit \/ SpeedInit
    PROVE  MGInv'
<1>1. PICK g : g = mem_reset_brk(heap)
    OBVIOUS
<1>2. heap \in Heaps /\ heap.gaps = {}
    BY RInvTypes DEF TypeOK, MGInv
<1>3. g \in Heaps /\ g.brk = 0 /\ g.gaps = {}
    BY <1>1, <1>2, ResetHeap DEF mem_reset_brk
<1>4. heap' = mm_init(g).heap /\ (phase' = "exit" \/ mm_init(g).ret # NULL)
    BY <1>1 DEF UtilInit, SpeedInit, StartRun
<1>5. mm_init(g).ret # NULL
    BY <1>4 DEF RInv
<1>6. mm_init(g).heap.gaps = {} /\ OnGrid(mm_init(g).heap)
    BY <1>3, <1>5, InitOnGrid, InitNoGap DEF Rounded
<1> QED BY <1>4, <1>6 DEF MGInv

(* And so does each of its requests.                                       *)
LEMMA ServeGrid ==
    ASSUME RInv, MGInv, Rounded, Unchecked, pc <= Len(trace),
           NEW op, op = trace[pc], NEW junk \in Garbage, Serve(op, junk)
    PROVE  MGInv'
<1>1. heap.gaps = {} /\ OnGrid(heap)
    BY DEF MGInv
<1>2. /\ heap \in Heaps /\ Shape(heap) /\ CoalescedOK(heap)
      /\ \A i \in live : AllocBlock(heap, blocks[i])
    BY <1>1, MeasuredHeap
<1>3. op \in Request /\ (op.type \in {"r", "f"} => op.index \in live)
    BY <1>1, MeasuredIsLegal
<1>4. /\ op.type \in {"a", "r", "f"} /\ op.size \in Nat
      /\ AdjustedSize(op.size) % 16 = 0 /\ CHUNKSIZE % 16 = 0
    <2>1. op.size \in Sizes
        BY <1>3 DEF Request
    <2> QED BY <1>3, <2>1, RequestFields DEF Rounded
<1>5. CASE op.type = "a"
    <2>1. PICK size : size = op.size
        OBVIOUS
    <2>2. mm_malloc(heap, size).heap.gaps = {} /\ OnGrid(mm_malloc(heap, size).heap)
        BY <1>1, <1>2, <1>4, <2>1, MallocOnGrid
    <2>3. heap' = mm_malloc(heap, size).heap
        BY <1>5, <2>1 DEF Serve
    <2> QED BY <2>2, <2>3 DEF MGInv
<1>6. CASE op.type = "r"
    <2>1. PICK size, p : size = op.size /\ p = blocks[op.index]
        OBVIOUS
    <2>2. AllocBlock(heap, p) /\ junk \in Int
        BY <1>2, <1>3, <1>6, <2>1, DriverAssumption
    <2>3. /\ mm_realloc(heap, p, size, junk).heap.gaps = {}
          /\ OnGrid(mm_realloc(heap, p, size, junk).heap)
        BY <1>1, <1>2, <1>4, <2>1, <2>2, ReallocOnGrid
    <2>4. heap' = mm_realloc(heap, p, size, junk).heap
        BY <1>6, <2>1 DEF Serve
    <2> QED BY <2>3, <2>4 DEF MGInv
<1>7. CASE op.type = "f"
    <2>1. PICK p : p = blocks[op.index]
        OBVIOUS
    <2>2. AllocBlock(heap, p)
        BY <1>2, <1>3, <1>7, <2>1
    <2>3. OnGrid(mm_free(heap, p)) /\ mm_free(heap, p).gaps = {}
        BY <1>1, <1>2, <2>2, FreeOnGrid, FreeWorks DEF Freed
    <2>4. heap' = mm_free(heap, p)
        BY <1>7, <2>1 DEF Serve
    <2> QED BY <2>3, <2>4 DEF MGInv
<1> QED BY <1>4, <1>5, <1>6, <1>7

(* No other step touches the heap or begins a run.                         *)
LEMMA OthersGrid ==
    ASSUME MGInv, UtilEnd \/ SpeedEnd \/ Invalid \/ Report \/ Exited \/ UNCHANGED mvars
    PROVE  MGInv'
<1>1. heap' = heap /\ (Serving' => Serving) /\ (Unchecked' => Unchecked)
    BY DEF UtilEnd, SpeedEnd, Invalid, Report, Exited, mvars, main, vars, Serving, Unchecked
<1> QED BY <1>1 DEF MGInv

(* With a chunk and adjusted sizes that are multiples of 16 place leaves   *)
(* no gap in any of the three evaluations, for any traces (mm.c, place).   *)
THEOREM NoRunLeavesAGap == ASSUME Rounded PROVE MSpec => []NoGaps
<1>1. MInit => MGInv
    BY DEF MInit, Init, MGInv, Serving, Unchecked
<1>2. RInv /\ RInv' /\ MGInv /\ [MNext]_mvars => MGInv'
    <2> SUFFICES ASSUME RInv, RInv', MGInv, [MNext]_mvars PROVE MGInv'
        OBVIOUS
    <2>1. CASE ReadTrace \/ ValidOp \/ ValidEnd \/ FreeTrace
        BY <2>1, CheckGrid
    <2>2. CASE UtilInit \/ SpeedInit
        BY <2>2, StartRunGrid
    <2>3. CASE UtilOp \/ SpeedOp
        <3>1. PICK junk \in Garbage : Serve(trace[pc], junk)
            BY <2>3 DEF UtilOp, SpeedOp
        <3>2. Unchecked /\ pc <= Len(trace)
            BY <2>3 DEF UtilOp, SpeedOp, Unchecked
        <3> QED BY <3>1, <3>2, ServeGrid
    <2>4. CASE UtilEnd \/ SpeedEnd \/ Invalid \/ Report \/ Exited \/ UNCHANGED mvars
        BY <2>4, OthersGrid
    <2> QED BY <2>1, <2>2, <2>3, <2>4 DEF MNext
<1>3. MGInv => NoGaps
    BY DEF MGInv, NoGaps
<1> QED BY <1>1, <1>2, <1>3, EveryRunIsFollowed, PTL DEF MSpec

=============================================================================
