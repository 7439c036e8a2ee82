-------------------------- MODULE MCDoclingService --------------------------
(* Instances of DoclingService for TLC.                                    *)
EXTENDS DoclingService

CONSTANTS w1, s1, s2, im1

OneWhole == {w1}
TwoSlices == {s1, s2}
OneImage == {im1}
=============================================================================
