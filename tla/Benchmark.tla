----------------------------- MODULE Benchmark -----------------------------
(***************************************************************************)
(* One run of scripts/run_benchmarks.py: the participants are read, their  *)
(* clones synchronised (or, with --skip-sync, taken as they are), each is  *)
(* copied, built and measured --repeat times, and the rows are ranked.     *)
(* git, make, mdriver and the remotes are the environment: what they       *)
(* answer is chosen.  One action is one participant's synchronisation, one *)
(* attempt, or the step between them.                                      *)
(***************************************************************************)
EXTENDS Integers, Sequences, FiniteSets, Functions

CONSTANTS Files,       \* what participants.csv may hold: sequences of rows
          ArgSets,     \* the command lines
          Clones,      \* what repos/<alias> may be when the run starts
          DirtyNamed,  \* aliases whose path or URL contains "dirty"
          Expected,    \* expected_traces, from the reference config.h
          Harnesses,   \* numbers of traces of the participants' own mdriver
          Measures,    \* perfidx and throughput, if any, of a measurement
                       \* without errors
          MaxCommit    \* bound on the commits of a remote

(* What the sort keys have for a missing score or throughput.              *)
NoValue == -2

Aliases == UNION {{f[k].alias : k \in DOMAIN f} : f \in Files}

ASSUME BenchmarkAssumption ==
    /\ Expected \in Nat \ {0} /\ MaxCommit \in Nat
    /\ Harnesses \subseteq Nat /\ Aliases \subseteq Nat
    /\ Measures \subseteq [perf : Nat, kops : Nat \cup {NoValue}]
    /\ Files \subseteq Seq([alias : Nat, enabled : BOOLEAN])
    /\ \A a \in ArgSets : a.repeat \in Nat
    /\ Clones \subseteq [kind : {"none", "other", "git"}, origin : BOOLEAN, dirty : BOOLEAN,
                         ahead : BOOLEAN, head : 0 .. 1,
                         branch : {"current", "other", "absent"}]

VARIABLES args, participants,
          remote,    \* the last commit of each participant's branch at origin
          clone,     \* repos/<alias>
          phase,     \* "read", "sync", "run", "done", "failed" or "crashed"
          k,         \* the participant whose turn it is
          records,   \* sync_records
          lab,       \* what the current participant's lab directory is like
          attempts,  \* of the current participant
          results,
          rows       \* the rows of summary.csv

vars == <<args, participants, remote, clone, phase, k, records, lab,
          attempts, results, rows>>

NoLab == [begun |-> FALSE]
NoCommit == <<0, FALSE>>

Init ==
    /\ args \in ArgSets
    /\ participants \in Files
    /\ remote = [p \in Aliases |-> 1]
    /\ clone \in [Aliases -> Clones]
    /\ phase = "read" /\ k = 1
    /\ records = <<>> /\ attempts = <<>> /\ results = <<>> /\ rows = <<>>
    /\ lab = NoLab

Alias == participants[k].alias

-----------------------------------------------------------------------------
(* [x for x in s if ...]: what s has at the positions P, in their order.   *)
AtPositions(s, P) ==
    LET n == Cardinality(P)
        q == CHOOSE pos \in [1 .. n -> P] : \A i, j \in 1 .. n : i < j => pos[i] < pos[j]
    IN  [i \in 1 .. n |-> s[q[i]]]

(* The checks of main and read_participants before anything is touched.    *)
Enabled(file) == AtPositions(file, {i \in DOMAIN file : file[i].enabled})

(* Mutant of Usable: aliases may repeat.                                   *)
UsableAnyAlias(file) == Enabled(file) # <<>>

Usable(file) ==
    /\ Enabled(file) # <<>>
    /\ \A i, j \in DOMAIN Enabled(file) :
          Enabled(file)[i].alias = Enabled(file)[j].alias => i = j

ReadParticipants ==
    /\ phase = "read"
    /\ IF args.repeat >= 1 /\ Usable(participants)
         THEN phase' = "sync" /\ participants' = Enabled(participants)
         ELSE phase' = "failed" /\ UNCHANGED participants
    /\ UNCHANGED <<args, remote, clone, k, records, lab, attempts, results, rows>>

-----------------------------------------------------------------------------
(* sync_participants gives each participant a record, whether sync_repo    *)
(* returns or raises.                                                      *)
Record(r) ==
    /\ records' = Append(records, r)
    /\ k' = k + 1
    /\ UNCHANGED <<args, participants, remote, phase, lab, attempts, results, rows>>

(* The status of a failure is read off its message: does it contain the    *)
(* word?  Some messages name the clone's path or URL.                      *)
Failed(about, named) ==
    Record([alias  |-> Alias,
            status |-> IF about = "dirty" \/ (named /\ Alias \in DirtyNamed)
                         THEN "DIRTY_REPO" ELSE "SYNC_FAIL",
            commit |-> NoCommit, dirty |-> "unknown"])

Synced(c, dirty) ==
    Record([alias |-> Alias, status |-> "SYNCED",
            commit |-> <<c.head, c.ahead>>, dirty |-> dirty])

Syncing == phase = "sync" /\ k <= Len(participants) /\ ~args.skip_sync

(* There is something that is no clone of the participant's repository.    *)
NotTheClone ==
    /\ Syncing
    /\ \/ clone[Alias].kind = "other"
       \/ clone[Alias].kind = "git" /\ ~clone[Alias].origin
    /\ Failed("other", TRUE)
    /\ UNCHANGED clone

TooDirty(dirty) == dirty /\ ~args.allow_dirty

RefuseDirty ==
    /\ Syncing
    /\ clone[Alias].kind = "git" /\ clone[Alias].origin
    /\ TooDirty(clone[Alias].dirty)
    /\ Failed("dirty", TRUE)
    /\ UNCHANGED clone

Reachable ==
    \/ clone[Alias].kind = "none"
    \/ clone[Alias].kind = "git" /\ clone[Alias].origin /\ ~TooDirty(clone[Alias].dirty)

(* What git clone makes of nothing; git fetch leaves the branch alone.     *)
Fetched ==
    IF clone[Alias].kind = "none"
      THEN [kind |-> "git", origin |-> TRUE, dirty |-> FALSE, ahead |-> FALSE,
            head |-> remote[Alias], branch |-> "other"]
      ELSE clone[Alias]

Becomes(c) == clone' = [clone EXCEPT ![Alias] = c]

(* git clone or git fetch fails; a clone whose fetch failed stays.         *)
FetchFails ==
    /\ Syncing /\ Reachable
    /\ \/ Failed("other", clone[Alias].kind = "none") /\ UNCHANGED clone
       \/ /\ clone[Alias].kind = "none"
          /\ Failed("other", FALSE)
          /\ Becomes(Fetched)

(* ensure_branch fails: there is no such branch, or no commit at all.      *)
NoBranch ==
    /\ Syncing /\ Reachable
    /\ clone[Alias].kind = "none" \/ Fetched.branch = "absent" \/ Fetched.head = 0
    /\ Failed("other", FALSE)
    /\ Becomes(Fetched)

HasBranch == Syncing /\ Reachable /\ Fetched.branch # "absent" /\ Fetched.head # 0

(* What ensure_branch may leave.  A checkout can make the tree dirty by    *)
(* itself (a submodule, a line ending filter).                             *)
OnBranch ==
    {[Fetched EXCEPT !.branch = "current", !.dirty = @ \/ left] :
        left \in {FALSE, Fetched.branch = "other"}}

BecameDirty ==
    /\ HasBranch
    /\ \E c \in OnBranch : TooDirty(c.dirty) /\ Becomes(c)
    /\ Failed("dirty", TRUE)

(* git pull --ff-only fails: the network, local changes in the way, or a   *)
(* branch that has diverged.                                               *)
PullFails ==
    /\ HasBranch
    /\ \E c \in OnBranch : ~TooDirty(c.dirty) /\ Becomes(c)
    /\ Failed("other", FALSE)

Diverged(c) == c.ahead /\ c.head < remote[Alias]

(* What git pull --ff-only may make of c.                                  *)
Pull(c) ==
    {[c EXCEPT !.head = remote[Alias], !.dirty = @ \/ left] :
        left \in {FALSE, c.head < remote[Alias]}}

(* Mutant of Pulled: the report on the clone is made before the pull.      *)
PulledReportsFirst ==
    /\ HasBranch
    /\ \E c \in OnBranch : \E new \in Pull(c) :
         /\ ~TooDirty(c.dirty) /\ ~Diverged(c)
         /\ Becomes(new)
         /\ Synced(c, IF c.dirty THEN "yes" ELSE "no")

Pulled ==
    /\ HasBranch
    /\ \E c \in OnBranch : \E new \in Pull(c) :
         /\ ~TooDirty(c.dirty) /\ ~Diverged(c)
         /\ Becomes(new)
         /\ Synced(new, IF new.dirty THEN "yes" ELSE "no")

(* --skip-sync: the clone is taken as it is.  git failing here (a clone    *)
(* without a commit) ends the program.                                     *)
TakingClone == phase = "sync" /\ k <= Len(participants) /\ args.skip_sync

TakeClone ==
    /\ TakingClone
    /\ \/ clone[Alias].kind # "git" /\ Failed("other", FALSE)
       \/ clone[Alias].kind = "git" /\ clone[Alias].head # 0
            /\ Synced(clone[Alias], "unknown")
    /\ UNCHANGED clone

NoCommitToTake ==
    /\ TakingClone
    /\ clone[Alias].kind = "git" /\ clone[Alias].head = 0
    /\ phase' = "failed"
    /\ UNCHANGED <<args, participants, remote, clone, k, records, lab, attempts, results, rows>>

-----------------------------------------------------------------------------
(* The run directory, and the loop over the participants.                  *)
BeginRun ==
    /\ phase = "sync" /\ k > Len(participants)
    /\ phase' = "run" /\ k' = 1
    /\ UNCHANGED <<args, participants, remote, clone, records, lab, attempts, results, rows>>

Running == phase = "run" /\ k <= Len(participants)

(* sync_by_alias: the last record with the alias.                          *)
SyncRecord ==
    records[CHOOSE j \in DOMAIN records :
              /\ records[j].alias = Alias
              /\ \A i \in DOMAIN records : records[i].alias = Alias => i <= j]

Result(status, tried, correct, score, kops) ==
    [alias |-> Alias, status |-> status, commit |-> SyncRecord.commit,
     attempts |-> tried, correct |-> correct, score |-> score, kops |-> kops]

Finish(result) ==
    /\ results' = Append(results, result)
    /\ k' = k + 1
    /\ attempts' = <<>> /\ lab' = NoLab
    /\ UNCHANGED <<args, participants, remote, clone, phase, records, rows>>

NotMeasured(status) == Finish(Result(status, <<>>, NoValue, NoValue, NoValue))

NotSynced ==
    /\ Running /\ ~lab.begun
    /\ SyncRecord.status # "SYNCED"
    /\ NotMeasured(SyncRecord.status)

Ready == Running /\ ~lab.begun /\ SyncRecord.status = "SYNCED"

(* There is no mm.c at mm_path.                                            *)
NoSource == Ready /\ NotMeasured("PARTICIPANT_ERROR")

(* The harness differs from the reference one, and that is not allowed.    *)
HarnessDiff == Ready /\ args.fail_on_diff /\ NotMeasured("HARNESS_DIFF")

(* The lab: the number of traces its driver runs (the reference harness    *)
(* in strict mode, and whenever it does not differ), and its trouble: a    *)
(* tree that cannot be copied, a make or an mdriver that never ends.       *)
BeginAttempts ==
    /\ Ready
    /\ \E n \in Harnesses, trouble \in {"none", "copy", "make", "mdriver"} :
         /\ (args.mode = "strict" \/ args.fail_on_diff) => n = Expected
         /\ lab' = [begun |-> TRUE, traces |-> n, trouble |-> trouble]
    /\ UNCHANGED <<args, participants, remote, clone, phase, k, records,
                   attempts, results, rows>>

Attempting ==
    /\ Running /\ lab.begun
    /\ Len(attempts) < args.repeat
    /\ \A j \in DOMAIN attempts : attempts[j].status = "OK"

(* The copy that is built and run: of the clone as it is by now.           *)
Worktree == [commit |-> <<clone[Alias].head, clone[Alias].ahead>>,
             dirty  |-> IF clone[Alias].dirty THEN "yes" ELSE "no"]

Attempt(status, correct, m) ==
    /\ attempts' = Append(attempts, [status |-> status, correct |-> correct,
                                     traces |-> lab.traces, perf |-> m.perf, kops |-> m.kops,
                                     tree |-> Worktree])
    /\ UNCHANGED <<args, participants, remote, clone, phase, k, records, lab,
                   results, rows>>

NoMeasure == [perf |-> NoValue, kops |-> NoValue]

(* make fails, or is stopped by its timeout; without one it goes on.       *)
BuildFails ==
    /\ Attempting
    /\ lab.trouble = "none" \/ (lab.trouble = "make" /\ args.build_timeout)
    /\ Attempt("BUILD_FAIL", NoValue, NoMeasure)

(* Mutant of RunFails: the timeout of mdriver is not passed on.            *)
RunFailsNoTimeout ==
    /\ Attempting
    /\ lab.trouble = "none"
    /\ Attempt("RUN_FAIL", NoValue, NoMeasure)

RunFails ==
    /\ Attempting
    /\ lab.trouble = "none" \/ (lab.trouble = "mdriver" /\ args.run_timeout)
    /\ Attempt("RUN_FAIL", NoValue, NoMeasure)

(* mdriver ends and its output has both figures.  Its perfidx is 0 unless  *)
(* every trace is valid (module MDriver), and Total is dashes then.  Other *)
(* totals can be unreadable too, or of no seconds (module Main).           *)
RunSucceeds ==
    /\ Attempting
    /\ lab.trouble = "none"
    /\ \/ \E m \in Measures : Attempt("OK", lab.traces, m)
       \/ \E n \in 0 .. lab.traces - 1 : Attempt("OK", n, [perf |-> 0, kops |-> NoValue])

(* The copying raises an OSError, which main does not catch.               *)
CopyRaises ==
    /\ Attempting /\ lab.trouble = "copy"
    /\ phase' = "crashed"
    /\ UNCHANGED <<args, participants, remote, clone, k, records, lab,
                   attempts, results, rows>>

-----------------------------------------------------------------------------
(* result_from_attempts                                                    *)
Successful == AtPositions(attempts, {j \in DOMAIN attempts : attempts[j].status = "OK"})

Corrects == {Successful[j].correct : j \in DOMAIN Successful}

(* Mutant of Verdict: an attempt that failed after others succeeded does   *)
(* not count.                                                              *)
VerdictOfSuccessful ==
    CASE Successful = <<>> -> attempts[1].status
      [] Successful # <<>> /\ Cardinality(Corrects) > 1 -> "UNSTABLE"
      [] Successful # <<>> /\ Cardinality(Corrects) = 1 ->
           IF Successful[1].correct < Expected THEN "INCORRECT" ELSE "OK"

Verdict ==
    CASE Successful = <<>> -> attempts[1].status
      [] Successful # <<>> /\ (Successful # attempts \/ Cardinality(Corrects) > 1) -> "UNSTABLE"
      [] Successful # <<>> /\ Successful = attempts /\ Cardinality(Corrects) = 1 ->
           IF Successful[1].correct < Expected THEN "INCORRECT" ELSE "OK"

(* sorted(s), by keys of which x \prec y says that x comes first.          *)
Sorted(s, _ \prec _) ==
    LET D == DOMAIN s
        p == CHOOSE perm \in Bijection(D, D) :
               \A i, j \in D : i < j => ~(s[perm[j]] \prec s[perm[i]])
    IN  [i \in D |-> s[p[i]]]

(* Twice the median of a sequence of integers.                             *)
Median2(s) ==
    LET sorted == Sorted(s, <)
        n == Len(s)
    IN  sorted[(n + 1) \div 2] + sorted[n \div 2 + 1]

MedianOrNone(s) == IF s = <<>> THEN NoValue ELSE Median2(s)

(* The successful attempts with a throughput.                              *)
Timed == AtPositions(Successful, {j \in DOMAIN Successful : Successful[j].kops # NoValue})

FinishParticipant ==
    /\ Running /\ lab.begun /\ ~Attempting
    /\ IF Successful = <<>>
         THEN Finish(Result(Verdict, attempts, NoValue, NoValue, NoValue))
         ELSE Finish(Result(Verdict, attempts, Successful[1].correct,
                       MedianOrNone([j \in DOMAIN Successful |-> Successful[j].perf]),
                       MedianOrNone([j \in DOMAIN Timed |-> Timed[j].kops])))

-----------------------------------------------------------------------------
(* sort_results and to_csv_rows                                            *)
StatusRank == [OK |-> 0, INCORRECT |-> 1, UNSTABLE |-> 2, HARNESS_DIFF |-> 3,
               BUILD_FAIL |-> 4, RUN_FAIL |-> 5, PARTICIPANT_ERROR |-> 6,
               DIRTY_REPO |-> 7, SYNC_FAIL |-> 8]

(* Mutant of Before: the key of a missing throughput is -1, not 1.         *)
BeforeMissingIsOne(x, y) ==
    LET kops(z) == IF z.kops = NoValue THEN -NoValue ELSE z.kops IN
    \/ StatusRank[x.status] < StatusRank[y.status]
    \/ /\ x.status = y.status
       /\ \/ x.score > y.score
          \/ x.score = y.score /\ kops(x) > kops(y)
          \/ x.score = y.score /\ kops(x) = kops(y) /\ x.alias < y.alias

Before(x, y) ==
    \/ StatusRank[x.status] < StatusRank[y.status]
    \/ /\ x.status = y.status
       /\ \/ x.score > y.score
          \/ x.score = y.score /\ x.kops > y.kops
          \/ x.score = y.score /\ x.kops = y.kops /\ x.alias < y.alias

WriteSummary ==
    /\ phase = "run" /\ k > Len(participants)
    /\ LET sorted == Sorted(results, Before)
           ranked == {j \in DOMAIN sorted : sorted[j].status = "OK"}
       IN  rows' = [j \in DOMAIN sorted |->
                      [rank   |-> IF j \in ranked
                                    THEN Cardinality({i \in ranked : i <= j}) ELSE 0,
                       result |-> sorted[j]]]
    /\ phase' = "done"
    /\ UNCHANGED <<args, participants, remote, clone, k, records, lab,
                   attempts, results>>

Next ==
    \/ ReadParticipants
    \/ NotTheClone \/ RefuseDirty \/ FetchFails \/ NoBranch \/ BecameDirty
    \/ PullFails \/ Pulled
    \/ TakeClone \/ NoCommitToTake
    \/ BeginRun
    \/ NotSynced \/ NoSource \/ HarnessDiff \/ BeginAttempts
    \/ BuildFails \/ RunFails \/ RunSucceeds \/ CopyRaises
    \/ FinishParticipant
    \/ WriteSummary

(* Meanwhile somebody pushes to a participant's branch.                    *)
Push(p) ==
    /\ phase \in {"sync", "run"} /\ remote[p] < MaxCommit
    /\ remote' = [remote EXCEPT ![p] = @ + 1]
    /\ UNCHANGED <<args, participants, clone, phase, k, records, lab, attempts, results, rows>>

(* The process goes on as long as it can; a command that hangs without a   *)
(* timeout holds it, git is assumed to end.                                *)
Spec ==
    /\ Init
    /\ [][Next \/ \E p \in Aliases : Push(p)]_vars
    /\ WF_vars(Next)

-----------------------------------------------------------------------------
Over == phase \in {"done", "failed", "crashed"}

(* A run that reaches its summary lists every participant exactly once,    *)
(* whatever became of it (run_benchmarks.py, main and run_participant).    *)
EveryoneListedOnce ==
    phase = "done" =>
      /\ Len(rows) = Len(participants)
      /\ \A i \in DOMAIN participants :
            Cardinality({j \in DOMAIN rows :
                           rows[j].result.alias = participants[i].alias}) = 1

(* Every attempt is made on what sync.json reports: the commit, and a tree *)
(* as clean or dirty as it says, although others push meanwhile            *)
(* (benchmark_lib.py, sync_repo; run_benchmarks.py, build_worktree).       *)
ReportIsMeasured ==
    \A j \in DOMAIN attempts :
      /\ attempts[j].tree.commit = SyncRecord.commit
      /\ SyncRecord.dirty \in {"unknown", attempts[j].tree.dirty}

(* A ranked row rests on args.repeat attempts, all of which ran to the end *)
(* with one and the same number of correct traces, not fewer than the      *)
(* reference has (benchmark_lib.py, result_from_attempts).                 *)
RankedRowsAreStable ==
    \A r \in {results[j] : j \in DOMAIN results} :
      r.status = "OK" =>
        /\ Len(r.attempts) = args.repeat
        /\ \A j \in DOMAIN r.attempts :
              r.attempts[j].status = "OK" /\ r.attempts[j].correct = r.correct
        /\ r.correct >= Expected

(* x did at least as well as y; any throughput is better than none.        *)
NoWorse(x, y) ==
    \/ x.score > y.score
    \/ /\ x.score = y.score
       /\ y.kops # NoValue => x.kops # NoValue /\ x.kops >= y.kops

(* r has a throughput if any of its attempts has one.                      *)
ThroughputOfAttempts(r) ==
    r.kops # NoValue <=> \E a \in DOMAIN r.attempts : r.attempts[a].kops # NoValue

(* The ranks number the first rows from 1 on, what is not ranked comes     *)
(* after, and no row ranks above one that did better, those without a      *)
(* readable Total last among equal scores.  A ranked row lacks a           *)
(* throughput only if all of its attempts do (benchmark_lib.py,            *)
(* sort_results, to_csv_rows and result_from_attempts).                    *)
RanksFollowResults ==
    \A i, j \in DOMAIN rows :
      /\ rows[i].rank > 0 => rows[i].rank = i
      /\ (rows[i].rank > 0) = (rows[i].result.status = "OK")
      /\ rows[i].rank > 0 /\ rows[j].rank = 0 => i < j
      /\ rows[i].rank > 0 => ThroughputOfAttempts(rows[i].result)
      /\ i < j /\ rows[j].rank > 0 => NoWorse(rows[i].result, rows[j].result)

(* With both timeouts a run ends, whatever the participants' code does     *)
(* (benchmark_lib.py, run_command).                                        *)
TimeoutsEndTheRun ==
    args.build_timeout /\ args.run_timeout ~> Over

(* "OK: ... correct == total number of traces" (README.md:126), the total  *)
(* being that of the reference or that of the driver that ran.             *)
OKMeansAllCorrect ==
    \A r \in {results[j] : j \in DOMAIN results} :
      r.status = "OK" =>
        \A j \in DOMAIN r.attempts : r.correct \in {Expected, r.attempts[j].traces}

=============================================================================
