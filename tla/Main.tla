-------------------------------- MODULE Main --------------------------------
(***************************************************************************)
(* main of mdriver.c around the evaluations of module MDriver: the command *)
(* line, the team check, the optional run of libc, the tables, the index,  *)
(* and how benchmark_lib.py reads what was printed.                        *)
(*                                                                         *)
(* An evaluation is its outcome: a row of the statistics, or the end of    *)
(* the process.  util is in percent, an index in hundredths of a point; a  *)
(* line of the output is a record with the fields that are read.           *)
(***************************************************************************)
EXTENDS Integers, Sequences, FiniteSets, FiniteSetsExt

CONSTANTS CommandLines,  \* sequences of [opt, arg]
          Default,       \* default_tracefiles, with TRACEDIR in "default"
          Utils, Ops, Secs,  \* what a valid trace may measure
          Weight,        \* UTIL_WEIGHT, in percent
          AVG_LIBC_THRUPUT,
          Glued          \* ops/secs too long for the last column of Total

ASSUME MainAssumption ==
    /\ CommandLines \subseteq Seq([opt : STRING, arg : STRING])
    /\ Default \in Seq(STRING) /\ Len(Default) > 0
    /\ Utils \subseteq 0 .. 100 /\ Ops \subseteq Nat \ {0} /\ Secs \subseteq Int
    /\ Weight \in 0 .. 100 /\ AVG_LIBC_THRUPUT \in Nat \ {0} /\ Glued \in Nat

VARIABLES argv,        \* options not read yet
          line,        \* the whole command line (history)
          pc,
          tracefiles, tracedir, team_check, run_libc, autograder, verbose,
          libc_stats, mm_stats, errors,
          out,         \* lines printed
          code,        \* exit status
          parsed       \* parse_mdriver_output

options == <<tracefiles, tracedir, team_check, run_libc, autograder, verbose>>
stats   == <<libc_stats, mm_stats, errors>>
vars    == <<argv, line, pc, options, stats, out, code, parsed>>

NULL == "none"

Init ==
    /\ argv \in CommandLines /\ line = argv /\ pc = "options"
    /\ tracefiles = <<>> /\ tracedir = "default"
    /\ team_check = TRUE /\ run_libc = FALSE /\ autograder = FALSE /\ verbose = 0
    /\ libc_stats = <<>> /\ mm_stats = <<>> /\ errors = 0
    /\ out = <<>> /\ code = NULL /\ parsed = NULL

-----------------------------------------------------------------------------
Exit(status) == pc' = "exited" /\ code' = status

Opt(letters) == pc = "options" /\ argv # <<>> /\ Head(argv).opt \in letters

Next1 == argv' = Tail(argv) /\ UNCHANGED <<line, stats, out, parsed>>

(* -f: the file, in the current directory.                                 *)
FileOption ==
    /\ Opt({"f"}) /\ Next1
    /\ tracefiles' = <<Head(argv).arg>> /\ tracedir' = "./"
    /\ UNCHANGED <<pc, code, team_check, run_libc, autograder, verbose>>

(* Mutant of DirOption: it counts after -f too.                            *)
DirOptionAlways ==
    /\ Opt({"t"}) /\ Next1
    /\ tracedir' = Head(argv).arg
    /\ UNCHANGED <<pc, code, tracefiles, team_check, run_libc, autograder, verbose>>

(* -t, which does not count once -f was seen.                              *)
DirOption ==
    /\ Opt({"t"}) /\ Next1
    /\ tracedir' = IF Len(tracefiles) = 1 THEN tracedir ELSE Head(argv).arg
    /\ UNCHANGED <<pc, code, tracefiles, team_check, run_libc, autograder, verbose>>

Flag ==
    /\ Opt({"g", "a", "l", "v", "V"}) /\ Next1
    /\ LET o == Head(argv).opt IN
         /\ autograder' = (autograder \/ o = "g")
         /\ team_check' = (team_check /\ o # "a")
         /\ run_libc'   = (run_libc \/ o = "l")
         /\ verbose'    = CASE o = "v" -> 1 [] o = "V" -> 2 [] o \notin {"v", "V"} -> verbose
    /\ UNCHANGED <<pc, code, tracefiles, tracedir>>

Usage ==
    /\ Opt({"h", "?"}) /\ Next1
    /\ Exit(IF Head(argv).opt = "h" THEN 0 ELSE 1)
    /\ UNCHANGED options

(* The team is complete, or not; then the files of the evaluation.         *)
Checked ==
    /\ pc = "options" /\ argv = <<>>
    /\ tracefiles' = IF tracefiles = <<>> THEN Default ELSE tracefiles
    /\ \/ pc' = (IF run_libc THEN "libc" ELSE "mm") /\ UNCHANGED code
       \/ team_check /\ Exit(1)
    /\ UNCHANGED <<argv, line, tracedir, team_check, run_libc, autograder, verbose,
                   stats, out, parsed>>

-----------------------------------------------------------------------------
Row(valid, ops, secs, util) == [valid |-> valid, ops |-> ops, secs |-> secs, util |-> util]

(* Any NULL of libc ends the process, as a file does that cannot be read.  *)
LibcTrace ==
    /\ pc = "libc" /\ Len(libc_stats) < Len(tracefiles)
    /\ \/ /\ \E ops \in Ops, secs \in Secs :
               libc_stats' = Append(libc_stats, Row(TRUE, ops, secs, 0))
          /\ UNCHANGED <<pc, code>>
       \/ Exit(1) /\ UNCHANGED libc_stats
    /\ UNCHANGED <<argv, line, options, mm_stats, errors, out, parsed>>

(* Mutant of MmTrace: a rejected trace does not count as an error.         *)
MmTraceUncounted ==
    /\ pc = "mm" /\ Len(mm_stats) < Len(tracefiles)
    /\ \E ops \in Ops, secs \in Secs, util \in Utils, valid \in BOOLEAN :
         mm_stats' = Append(mm_stats, IF valid THEN Row(TRUE, ops, secs, util)
                                               ELSE Row(FALSE, ops, 0, 0))
    /\ UNCHANGED <<pc, code, errors, argv, line, options, libc_stats, out, parsed>>

(* eval_mm_valid rejects a trace once (module MDriver); a package that     *)
(* answers differently the second time ends the process.                   *)
MmTrace ==
    /\ pc = "mm" /\ Len(mm_stats) < Len(tracefiles)
    /\ \E ops \in Ops :
         \/ /\ \E secs \in Secs, util \in Utils :
                 mm_stats' = Append(mm_stats, Row(TRUE, ops, secs, util))
            /\ UNCHANGED <<pc, code, errors>>
         \/ /\ mm_stats' = Append(mm_stats, Row(FALSE, ops, 0, 0))
            /\ errors' = errors + 1
            /\ UNCHANGED <<pc, code>>
         \/ Exit(1) /\ UNCHANGED <<mm_stats, errors>>
    /\ UNCHANGED <<argv, line, options, libc_stats, out, parsed>>

-----------------------------------------------------------------------------
(* value[1] + ... + value[n], added up as the loops do.                     *)
Sum(value, n) ==
    LET upTo[k \in Nat] == IF k = 0 THEN 0 ELSE upTo[k - 1] + value[k]
    IN  upTo[n]

(* The sums of main, over all rows.                                        *)
TotalOps(table)  == Sum([i \in DOMAIN table |-> table[i].ops], Len(table))
TotalSecs(table) == Sum([i \in DOMAIN table |-> table[i].secs], Len(table))
TotalUtil(table) == Sum([i \in DOMAIN table |-> table[i].util], Len(table))

(* Those of printresults: what is in a row that is not valid does not      *)
(* count.                                                                  *)
Printed(table) ==
    [i \in DOMAIN table |-> IF table[i].valid THEN table[i] ELSE Row(FALSE, 0, 0, 0)]

(* The last line of printresults: figures of the valid rows, or dashes.    *)
TotalLine(table) ==
    IF errors > 0
      THEN [kind |-> "Total", figures |-> FALSE]
      ELSE [kind |-> "Total", figures |-> TRUE,
            util |-> TotalUtil(Printed(table)) \div Len(table),
            ops  |-> TotalOps(Printed(table)), secs |-> TotalSecs(Printed(table))]

printresults(table) ==
    out' = IF verbose > 0 THEN Append(out, TotalLine(table)) ELSE out

LibcTable ==
    /\ pc = "libc" /\ Len(libc_stats) = Len(tracefiles)
    /\ printresults(libc_stats)
    /\ pc' = "mm"
    /\ UNCHANGED <<argv, line, options, stats, code, parsed>>

MmTable ==
    /\ pc = "mm" /\ Len(mm_stats) = Len(tracefiles)
    /\ printresults(mm_stats)
    /\ pc' = "index"
    /\ UNCHANGED <<argv, line, options, stats, code, parsed>>

(* Mutant of Throughput: it is not capped.                                 *)
ThroughputUncapped(ops, secs) ==
    CASE secs > 0 -> ((100 - Weight) * 100 * ops) \div (secs * AVG_LIBC_THRUPUT)
      [] secs = 0 -> (100 - Weight) * 100
      [] secs < 0 -> -(((100 - Weight) * 100 * ops) \div (-secs * AVG_LIBC_THRUPUT))

(* Anything by no seconds is above every cap, by negative ones below 0.    *)
Throughput(ops, secs) ==
    LET full == (100 - Weight) * 100 IN
    CASE secs >= 0 /\ ops > AVG_LIBC_THRUPUT * secs -> full
      [] secs > 0 /\ ops <= AVG_LIBC_THRUPUT * secs ->
           (full * ops) \div (secs * AVG_LIBC_THRUPUT)
      [] secs < 0 -> -((full * ops) \div (-secs * AVG_LIBC_THRUPUT))

p1 == (Weight * TotalUtil(mm_stats)) \div Len(mm_stats)
p2 == Throughput(TotalOps(mm_stats), TotalSecs(mm_stats))

perfindex == p1 + p2

NumCorrect == Cardinality({i \in DOMAIN mm_stats : mm_stats[i].valid})

(* What -g adds, and what is printed without it.                           *)
Index ==
    /\ pc = "index" /\ Exit(0)
    /\ LET index == IF errors = 0 THEN perfindex ELSE 0 IN
       out' = out
         \o (IF errors = 0 THEN <<[kind |-> "Perf index", thru |-> p2, index |-> index]>>
                          ELSE <<>>)
         \o (IF autograder THEN <<[kind |-> "correct", number |-> NumCorrect],
                                  [kind |-> "perfidx", index |-> index]>> ELSE <<>>)
    /\ UNCHANGED <<argv, line, options, stats, parsed>>

-----------------------------------------------------------------------------
(* What the patterns match: no sign, no "inf", and columns that are apart. *)
Readable(l) ==
    CASE l.kind = "Perf index" -> l.thru >= 0
      [] l.kind = "perfidx"    -> l.index >= 0
      [] l.kind = "correct"    -> TRUE
      [] l.kind = "Total"      -> l.figures /\ l.secs > 0 /\ l.ops < Glued * l.secs

(* The last line that matches: a sequence of one line, or of none.         *)
LastOf(kind) ==
    LET matches == {i \in DOMAIN out : out[i].kind = kind /\ Readable(out[i])} IN
    IF matches = {} THEN <<>> ELSE <<out[Max(matches)]>>

(* parse_mdriver_output, and what run_single_attempt makes of it.          *)
Parse ==
    /\ pc = "exited"
    /\ LET perfidx == IF LastOf("perfidx") # <<>> THEN LastOf("perfidx")
                                                  ELSE LastOf("Perf index")
           ok == code = 0 /\ LastOf("correct") # <<>> /\ perfidx # <<>>
       IN  parsed' = [status |-> IF ok THEN "OK" ELSE "RUN_FAIL",
                      correct |-> LastOf("correct"), perfidx |-> perfidx,
                      total |-> LastOf("Total")]
    /\ pc' = "parsed"
    /\ UNCHANGED <<argv, line, options, stats, out, code>>

Done == pc = "parsed" /\ UNCHANGED vars

Next ==
    \/ FileOption \/ DirOption \/ Flag \/ Usage \/ Checked
    \/ LibcTrace \/ LibcTable \/ MmTrace \/ MmTable \/ Index
    \/ Parse \/ Done

Spec == Init /\ [][Next]_vars

-----------------------------------------------------------------------------
Places(letter) == {i \in DOMAIN line : line[i].opt = letter}

(* Wherever -f and -t stand on the command line, -f decides: its last file,*)
(* in the current directory; without it the last -t has the traces         *)
(* (mdriver.c, the switch of main).                                        *)
FileDecides ==
    pc \in {"libc", "mm"} =>
      IF Places("f") # {}
        THEN tracefiles = <<line[Max(Places("f"))].arg>> /\ tracedir = "./"
        ELSE /\ tracefiles = Default
             /\ tracedir = IF Places("t") = {} THEN "default"
                                              ELSE line[Max(Places("t"))].arg

(* The index is at most 100, however fast the package or coarse the clock, *)
(* and below 0 only when the clock was set back (mdriver.c, main).         *)
IndexIsBounded ==
    pc = "index" /\ errors = 0 =>
      /\ perfindex <= 100 * 100
      /\ TotalSecs(mm_stats) >= 0 => perfindex >= 0

(* What the benchmark reads is what was measured: it fails only when       *)
(* mdriver did not report, or reported an index below 0; the number of     *)
(* correct traces is that of mm.c, an index above 0 means that all are, and*)
(* the totals, read from a -v run without -l, are those of the index       *)
(* (benchmark_lib.py, parse_mdriver_output).                               *)
ReaderSeesTheRun ==
    pc = "parsed" =>
      /\ parsed.status = "OK" <=>
           /\ code = 0 /\ autograder /\ Len(mm_stats) > 0
           /\ errors = 0 => perfindex >= 0
      /\ parsed.status = "OK" =>
           /\ parsed.correct[1].number = NumCorrect
           /\ parsed.perfidx[1].index > 0 => NumCorrect = Len(tracefiles)
           /\ ~run_libc /\ parsed.total # <<>> =>
                /\ NumCorrect = Len(tracefiles)
                /\ Throughput(parsed.total[1].ops, parsed.total[1].secs)
                     = parsed.perfidx[1].index - p1

=============================================================================
