------------------------------ MODULE MCRegistry ------------------------------
(* Instances of Registry for TLC.                                          *)
EXTENDS Registry

CONSTANT sweep

OneSweep == {sweep}
=============================================================================
