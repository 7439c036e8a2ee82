---------------------------- MODULE MCJobLifecycle ----------------------------
(* Model values for checking JobLifecycle on small instances.               *)
EXTENDS JobLifecycle

CONSTANTS j1, boot, minute

OneJob == {j1}
OneSweep == {minute}
TwoSweeps == {boot, minute}
=============================================================================
