------------------------------ MODULE MCLoader ------------------------------
(* Two buildings, each with a file of its own.                              *)
EXTENDS Loader

CONSTANTS b1, b2, f1, f2

OwnFiles == [b \in {b1, b2} |-> IF b = b1 THEN f1 ELSE f2]
=============================================================================
