----------------------------- MODULE MCErasure -----------------------------
(* Instances of Erasure for TLC.                                          *)
EXTENDS Erasure

CONSTANTS e1, other, r1, doc, neighbour

TwoNames == {doc, neighbour}
WithOther == {e1, other}
FileOf == [p \in WithOther |-> IF p = other THEN neighbour ELSE doc]
=============================================================================
