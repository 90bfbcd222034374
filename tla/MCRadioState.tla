------------------------------ MODULE MCRadioState ------------------------------
(* RadioState for TLC. *)
EXTENDS RadioState
ASSUME MCSmall == MaxWrites <= 3 /\ MaxKnobs <= 2
================================================================================
