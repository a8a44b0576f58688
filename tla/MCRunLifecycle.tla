--------------------------- MODULE MCRunLifecycle ---------------------------
(* Instances of RunLifecycle: the runs of one task. *)
EXTENDS RunLifecycle

CONSTANTS t1

TheTask == [r \in Runs |-> t1]
=============================================================================
