-------------------------------- MODULE Nothing --------------------------------
(* What stands for an absent value in the modules that share it. *)
CONSTANT None
================================================================================
