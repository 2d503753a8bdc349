------------------------------ MODULE MCFsecs ------------------------------
(***************************************************************************)
(* Fsecs for TLC: fcyc as init_fsecs sets it up and as it is without that, *)
(* with a table of two values.                                             *)
(***************************************************************************)
EXTENDS Fsecs

FcycSettings ==
    {[kbest |-> 2, maxsamples |-> 3, compensate |-> TRUE, clear_cache |-> TRUE],
     [kbest |-> 2, maxsamples |-> 4, compensate |-> FALSE, clear_cache |-> FALSE]}

Adjustments == {-15, 4}

ASSUME PollingResolves /\ CalibrationFits

=============================================================================
