----------------------------- MODULE TraceFiles -----------------------------
(***************************************************************************)
(* The way of a trace: it is written by one of the gen_ scripts, or by     *)
(* anybody, balanced by checktrace.pl (module CheckTrace) and read by      *)
(* read_trace of mdriver.c, which sizes its arrays by the header.          *)
(***************************************************************************)
EXTENDS CheckTrace

CONSTANTS NumIters,   \* num_iters, and num_blocks of gen_random.pl
          NumBlocks,  \* second lines of a header
          Off         \* by how much the third line may be off

ASSUME TraceFilesAssumption ==
    NumIters \subseteq Nat \ {0} /\ NumBlocks \subseteq Nat /\ Off \subseteq Int

VARIABLES made,        \* by whom
          num_blocks,  \* the second line of the header
          inserted,    \* free requests gen_random.pl has inserted
          ops,         \* trace->ops, as far as it was written
          op_index, max_index,
          beyond       \* something was written behind the end of ops

loading == <<ops, op_index, max_index, beyond>>
tvars   == <<vars, made, num_blocks, inserted, loading>>

-----------------------------------------------------------------------------
Req(cmd, id) == [cmd |-> cmd, id |-> id]

(* gen_binary.pl and gen_binary2.pl, which differ in their sizes.          *)
gen_binary(n) ==
    [j \in 1 .. 2 * n |-> Req("a", j - 1)] \o [j \in 1 .. n |-> Req("f", 2 * j - 1)]
      \o [j \in 1 .. n |-> Req("a", 2 * n + j - 1)]

gen_coalescing(n) ==
    [j \in 1 .. 6 * n |->
       LET b == 3 * ((j - 1) \div 6) IN
       <<Req("a", b), Req("a", b + 1), Req("f", b), Req("f", b + 1),
         Req("a", b + 2), Req("f", b + 2)>>[((j - 1) % 6) + 1]]

(* Mutant of gen_realloc: the block just allocated is freed.               *)
gen_reallocLast(n) ==
    <<Req("a", 0), Req("a", 1)>>
      \o [j \in 1 .. 3 * (n - 1) |->
            LET blk == 2 + ((j - 1) \div 3) IN
            <<Req("r", 0), Req("a", blk), Req("f", blk)>>[((j - 1) % 3) + 1]]
      \o <<Req("f", n), Req("f", 0)>>

(* gen_realloc.pl and gen_realloc2.pl.                                     *)
gen_realloc(n) ==
    <<Req("a", 0), Req("a", 1)>>
      \o [j \in 1 .. 3 * (n - 1) |->
            LET blk == 2 + ((j - 1) \div 3) IN
            <<Req("r", 0), Req("a", blk), Req("f", blk - 1)>>[((j - 1) % 3) + 1]]
      \o <<Req("f", n), Req("f", 0)>>

Made(by, s, blocks, n) ==
    /\ made = by /\ input = s /\ num_blocks = blocks /\ num_ops = n
    /\ status = IF by = "gen_random" THEN "generating" ELSE "reading"

TInit ==
    /\ Begin
    /\ \/ \E n \in NumIters :
            \/ Made("gen_binary", gen_binary(n), 3 * n, 4 * n)
            \/ Made("gen_coalescing", gen_coalescing(n), 3 * n, 6 * n)
            \/ Made("gen_realloc", gen_realloc(n), n + 1, 3 * n + 1)
            \/ Made("gen_random", [j \in 1 .. n |-> Req("a", j - 1)], n, 2 * n)
       \/ \E s \in AnyInput, b \in NumBlocks, d \in Off : Made("hand", s, b, Len(s) + d)
    /\ inserted = 0 /\ ops = <<>> /\ op_index = 0 /\ max_index = 0 /\ beyond = FALSE

(* The f of the next block goes somewhere behind its a; rand 0 is rand 1.  *)
InsertFree ==
    LET minval == CHOOSE j \in DOMAIN input : input[j] = Req("a", inserted)
        room   == Len(input) - minval
    IN  /\ status = "generating" /\ inserted < num_blocks
        /\ \E r \in 0 .. (IF room = 0 THEN 0 ELSE room - 1) :
             input' = InsertAt(input, minval + 1 + r, Req("f", inserted))
        /\ inserted' = inserted + 1
        /\ UNCHANGED <<num_ops, lines, HASH, output, round, status, made, num_blocks, loading>>

Generated ==
    /\ status = "generating" /\ inserted = num_blocks
    /\ status' = "reading"
    /\ UNCHANGED <<input, num_ops, lines, HASH, output, round, made, num_blocks,
                   inserted, loading>>

-----------------------------------------------------------------------------
(* read_trace opens what checktrace.pl printed.                            *)
Open ==
    /\ status = "printed" /\ round = 1
    /\ status' = "loading" /\ input' = output.lines
    /\ UNCHANGED <<num_ops, lines, HASH, output, round, made, num_blocks, inserted, loading>>

Store(op) ==
    IF op_index < output.num_ops THEN ops' = Append(ops, op) /\ UNCHANGED beyond
                                 ELSE beyond' = TRUE /\ UNCHANGED ops

(* Mutant of ReadLine: the id of an f counts, that of an r does not.       *)
ReadLineFrees ==
    /\ status = "loading" /\ input # <<>> /\ Head(input).cmd # "x"
    /\ Store(Head(input))
    /\ max_index' = IF Head(input).cmd = "r" /\ Head(input).id > max_index
                      THEN Head(input).id ELSE max_index
    /\ op_index' = op_index + 1
    /\ input' = Tail(input)
    /\ UNCHANGED <<num_ops, lines, HASH, output, round, status, made, num_blocks, inserted>>

(* The id of an f does not count for max_index.                            *)
ReadLine ==
    /\ status = "loading" /\ input # <<>> /\ Head(input).cmd # "x"
    /\ Store(Head(input))
    /\ max_index' = IF Head(input).cmd # "f" /\ Head(input).id > max_index
                      THEN Head(input).id ELSE max_index
    /\ op_index' = op_index + 1
    /\ input' = Tail(input)
    /\ UNCHANGED <<num_ops, lines, HASH, output, round, status, made, num_blocks, inserted>>

Bogus ==
    /\ status = "loading" /\ input # <<>> /\ Head(input).cmd = "x"
    /\ status' = "bogus type"
    /\ UNCHANGED <<input, num_ops, lines, HASH, output, round, made, num_blocks,
                   inserted, loading>>

(* The two asserts.                                                        *)
LoadEnd ==
    /\ status = "loading" /\ input = <<>>
    /\ status' = IF max_index = num_blocks - 1 /\ output.num_ops = op_index
                   THEN "loaded" ELSE "assertion failed"
    /\ UNCHANGED <<input, num_ops, lines, HASH, output, round, made, num_blocks,
                   inserted, loading>>

TNext ==
    \/ Next /\ UNCHANGED <<made, num_blocks, inserted, loading>>
    \/ InsertFree \/ Generated
    \/ Open \/ ReadLine \/ Bogus \/ LoadEnd

TSpec == TInit /\ [][TNext]_tvars

-----------------------------------------------------------------------------
(* What the scripts generate passes the checker and is read without a      *)
(* failed assert; what they free themselves leaves nothing to be added     *)
(* (traces/gen_*.pl, with their headers).                                  *)
GeneratedTracesWork ==
    made # "hand" =>
      /\ status \in Passed \cup {"generating", "reading", "loading", "loaded"}
      /\ made \in {"gen_coalescing", "gen_realloc", "gen_random"} => status # "Unbalanced tree"
      /\ ~beyond

(* A legal trace is read exactly when its header is right.  Then the       *)
(* requests read are those printed, none was stored behind the end of ops, *)
(* and the ids of all of them, the f included, which nobody has looked at, *)
(* are within the arrays of num_ids entries (mdriver.c, read_trace).       *)
ReadsWhatIsPrinted ==
    LET ids == {output.lines[j].id : j \in DOMAIN output.lines} IN
    Legal(output.lines) =>
      /\ status = "loaded" =>
           /\ ops = output.lines /\ ~beyond
           /\ \A id \in ids : id < num_blocks
      /\ status = "assertion failed" =>
           \/ output.num_ops # Len(output.lines)
           \/ num_blocks = 0 \/ num_blocks - 1 \notin ids \cup {0}
           \/ \E id \in ids : id >= num_blocks

=============================================================================
