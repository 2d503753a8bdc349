------------------------------- MODULE MCMain -------------------------------
(***************************************************************************)
(* Main for TLC: every command line of up to MaxOptions options, and the   *)
(* one of run_benchmarks.py.                                               *)
(***************************************************************************)
EXTENDS Main

CONSTANT MaxOptions

Flags == {[opt |-> o, arg |-> ""] : o \in {"g", "a", "l", "v", "V", "h", "?"}}
Named == {[opt |-> "f", arg |-> n] : n \in {"x", "y"}}
           \cup {[opt |-> "t", arg |-> n] : n \in {"d", "e"}}

Lines == UNION {[1 .. n -> Flags \cup Named] : n \in 0 .. MaxOptions}

TwoFiles == <<"1", "2">>
SomeSecs == {-1, 0, 2}

=============================================================================
