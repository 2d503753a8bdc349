----------------------------- MODULE CheckTrace -----------------------------
(***************************************************************************)
(* traces/checktrace.pl: a trace is read a line at a time into lines, with *)
(* HASH keeping the ids still to be freed; at the end a balanced version   *)
(* is printed, or with -s only whether it is balanced.  The checker is then*)
(* run on what it printed.                                                 *)
(*                                                                         *)
(* A request is [cmd, id]: sizes and blank lines are never looked at.      *)
(* "x" stands for any other word in the place of a command.                *)
(***************************************************************************)
EXTENDS Integers, Sequences, SequencesExt

CONSTANTS Ids,       \* the ids in the trace
          MaxLines   \* bound on the lines of the input

ASSUME TraceLinesAssumption == Ids \subseteq Nat /\ MaxLines \in Nat

Commands == {"a", "r", "f", "x"}

VARIABLES input,    \* the lines that are still to be read
          num_ops,  \* the third line of the header
          lines,    \* the requests read
          HASH,     \* id |-> command, for the ids in the tally
          output,   \* the requests printed, with their number in the header
          round,    \* 1, or 2 when it reads its own output
          status    \* "reading", "printed" or the complaint it died with

vars == <<input, num_ops, lines, HASH, output, round, status>>

Empty == [i \in {} |-> "a"]
Nothing == [num_ops |-> 0, lines |-> <<>>]

AnyInput == UNION {[1 .. n -> [cmd : Commands, id : Ids]] : n \in 0 .. MaxLines}

Begin ==
    /\ lines = <<>> /\ HASH = Empty
    /\ output = Nothing
    /\ round = 1

Init == input \in AnyInput /\ num_ops = Len(input) /\ Begin /\ status = "reading"

-----------------------------------------------------------------------------
Tallied(id) == id \in DOMAIN HASH

Reading == status = "reading" /\ input # <<>>

(* The line goes into lines before it is looked at.                        *)
Read ==
    /\ input' = Tail(input)
    /\ lines' = Append(lines, Head(input))
    /\ UNCHANGED <<num_ops, output, round>>

Die(complaint) == status' = complaint /\ UNCHANGED HASH

(* Mutant of Realloc: it is entered, as the comment on HASH has it.        *)
ReallocEntered ==
    /\ Reading /\ Head(input).cmd = "r"
    /\ Read
    /\ IF Tallied(Head(input).id)
         THEN HASH' = [HASH EXCEPT ![Head(input).id] = "r"] /\ UNCHANGED status
         ELSE Die("realloc without previous alloc")

Realloc ==
    /\ Reading /\ Head(input).cmd = "r"
    /\ Read
    /\ IF Tallied(Head(input).id)
         THEN UNCHANGED <<HASH, status>>
         ELSE Die("realloc without previous alloc")

(* The third check cannot apply: an f is never entered.                    *)
Allocate ==
    LET id == Head(input).id IN
    /\ Reading /\ Head(input).cmd = "a"
    /\ Read
    /\ CASE Tallied(id) /\ HASH[id] = "a" -> Die("allocate with no intervening free")
         [] Tallied(id) /\ HASH[id] = "f" -> Die("reused ID")
         [] ~Tallied(id) \/ HASH[id] \notin {"a", "f"} ->
              /\ HASH' = [i \in DOMAIN HASH \cup {id} |->
                             IF i = id THEN "a" ELSE HASH[i]]
              /\ UNCHANGED status

(* Mutant of FreeBlock: the id is not taken off the tally.                 *)
FreeBlockKeeps ==
    /\ Reading /\ Head(input).cmd = "f"
    /\ Read
    /\ IF Tallied(Head(input).id)
         THEN UNCHANGED <<HASH, status>>
         ELSE Die("freeing unallocated block")

(* The check after exists($HASH{$id}) never applies: ! binds tighter than  *)
(* eq, so it asks whether "" or 1 is "f".                                  *)
FreeBlock ==
    /\ Reading /\ Head(input).cmd = "f"
    /\ Read
    /\ IF Tallied(Head(input).id)
         THEN /\ HASH' = [i \in DOMAIN HASH \ {Head(input).id} |-> HASH[i]]
              /\ UNCHANGED status
         ELSE Die("freeing unallocated block")

(* Any other word is entered like an a, over what was there.               *)
OtherCommand ==
    LET id == Head(input).id IN
    /\ Reading /\ Head(input).cmd = "x"
    /\ Read
    /\ HASH' = [i \in DOMAIN HASH \cup {id} |-> IF i = id THEN "x" ELSE HASH[i]]
    /\ UNCHANGED status

-----------------------------------------------------------------------------
(* sort keys %HASH: each once, in some fixed order.                        *)
Residue == SetToSeq(DOMAIN HASH)

FreeOf(id) == [cmd |-> "f", id |-> id]

(* Mutant of Balanced: the new count is that of the frees alone.           *)
BalancedCountsFrees ==
    [num_ops |-> Len(Residue),
     lines   |-> lines \o [j \in DOMAIN Residue |-> FreeOf(Residue[j])]]

Balanced ==
    [num_ops |-> num_ops + Len(Residue),
     lines   |-> lines \o [j \in DOMAIN Residue |-> FreeOf(Residue[j])]]

AtEnd == status = "reading" /\ input = <<>>

OutputAll ==
    /\ AtEnd
    /\ \A id \in DOMAIN HASH : HASH[id] \in {"a", "r"}
    /\ output' = Balanced
    /\ status' = "printed"
    /\ UNCHANGED <<input, num_ops, lines, HASH, round>>

(* A residue that is neither a nor r: the header, the requests and some of *)
(* the frees have been printed by then.                                    *)
OutputDies ==
    /\ AtEnd
    /\ LET bad == {j \in DOMAIN Residue : HASH[Residue[j]] \notin {"a", "r"}} IN
         /\ bad # {}
         /\ output' = [Balanced EXCEPT !.lines =
                          SubSeq(@, 1, Len(lines) + Min(bad) - 1)]
    /\ status' = "invalid residue"
    /\ UNCHANGED <<input, num_ops, lines, HASH, round>>

(* -s                                                                      *)
Summary ==
    /\ AtEnd
    /\ status' = IF HASH = Empty THEN "Balanced trace" ELSE "Unbalanced tree"
    /\ UNCHANGED <<input, num_ops, lines, HASH, output, round>>

(* The output is the input of another run.                                 *)
RunAgain ==
    /\ status = "printed" /\ round = 1
    /\ round' = 2
    /\ input' = output.lines /\ num_ops' = output.num_ops
    /\ lines' = <<>> /\ HASH' = Empty
    /\ status' = "reading"
    /\ UNCHANGED output

Next ==
    \/ Realloc \/ Allocate \/ FreeBlock \/ OtherCommand
    \/ OutputAll \/ OutputDies \/ Summary
    \/ RunAgain

Spec == Init /\ [][Next]_vars

-----------------------------------------------------------------------------
(* What a trace may contain, said without a tally: before line k, id is    *)
(* allocated if its last a or f is an a.                                   *)
Allocated(s, k, id) ==
    \E i \in 1 .. k - 1 :
      /\ s[i] = [cmd |-> "a", id |-> id]
      /\ \A j \in i + 1 .. k - 1 : s[j].id = id => s[j].cmd = "r"

Legal(s) ==
    \A k \in DOMAIN s :
      /\ s[k].cmd # "x"
      /\ Allocated(s, k, s[k].id) = (s[k].cmd # "a")

Passed == {"printed", "Balanced trace", "Unbalanced tree"}
Refused == {"realloc without previous alloc", "allocate with no intervening free",
            "reused ID", "freeing unallocated block", "invalid residue"}

(* A trace of a, r and f requests passes if it is legal and is refused if  *)
(* it is not (checktrace.pl, the checks of the loop).                      *)
PrintsTheLegal ==
    (\A k \in DOMAIN lines : lines[k].cmd # "x") =>
      /\ status \in Passed => Legal(lines)
      /\ status \in Refused => ~Legal(lines)

(* What is printed is a legal trace that leaves nothing allocated, begins  *)
(* with the input, and announces as many requests as it has, if the input  *)
(* did (checktrace.pl, the output).                                        *)
OutputIsBalanced ==
    status = "printed" /\ (\A k \in DOMAIN lines : lines[k].cmd # "x") =>
      /\ Legal(output.lines)
      /\ \A l \in {output.lines[j] : j \in DOMAIN output.lines} :
            ~Allocated(output.lines, Len(output.lines) + 1, l.id)
      /\ IsPrefix(lines, output.lines)
      /\ output.num_ops - Len(output.lines) = num_ops - Len(lines)

(* The checker accepts its own output and has nothing to add to it.        *)
OutputIsFixed ==
    round = 2 =>
      /\ status \in {"reading", "printed", "Balanced trace"}
      /\ status = "printed" => output.lines = lines /\ HASH = Empty

(* "an integer that uniquely identifies an allocate or reallocate request" *)
(* (traces/README:46), and the complaint about a reused id: no trace is    *)
(* printed in which an id is allocated twice.                              *)
NoIdReused ==
    status = "printed" /\ (\A k \in DOMAIN lines : lines[k].cmd # "x") =>
      \A i, j \in DOMAIN lines :
         lines[i].cmd = "a" /\ lines[j] = lines[i] => i = j

=============================================================================
