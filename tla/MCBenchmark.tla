---------------------------- MODULE MCBenchmark ----------------------------
(***************************************************************************)
(* Benchmark for TLC: two participants whose order in the file is not that *)
(* of their aliases, the command lines that differ in what they let        *)
(* through, and clones in every condition sync_repo tells apart.           *)
(***************************************************************************)
EXTENDS Benchmark

Row(a, e) == [alias |-> a, enabled |-> e]

FileSet == {<<Row(2, TRUE), Row(1, TRUE)>>, <<Row(1, FALSE), Row(2, TRUE)>>,
            <<Row(1, TRUE), Row(1, TRUE)>>, <<Row(1, FALSE)>>}

Default == [mode |-> "repo", repeat |-> 2, skip_sync |-> FALSE, allow_dirty |-> FALSE,
            fail_on_diff |-> FALSE, build_timeout |-> TRUE, run_timeout |-> TRUE]

ArgRecords == {Default,
               [Default EXCEPT !.mode = "strict", !.allow_dirty = TRUE, !.repeat = 1],
               [Default EXCEPT !.skip_sync = TRUE, !.repeat = 1],
               [Default EXCEPT !.fail_on_diff = TRUE, !.run_timeout = FALSE, !.repeat = 1],
               [Default EXCEPT !.repeat = 0]}

Clean == [kind |-> "git", origin |-> TRUE, dirty |-> FALSE, ahead |-> FALSE,
          head |-> 1, branch |-> "current"]

CloneSet == {[Clean EXCEPT !.kind = "none"], [Clean EXCEPT !.kind = "other"],
             [Clean EXCEPT !.origin = FALSE], [Clean EXCEPT !.dirty = TRUE],
             [Clean EXCEPT !.branch = "other", !.ahead = TRUE],
             [Clean EXCEPT !.branch = "absent"], [Clean EXCEPT !.head = 0], Clean}

MeasureSet == {[perf |-> 40, kops |-> 1], [perf |-> 40, kops |-> NoValue]}

=============================================================================
