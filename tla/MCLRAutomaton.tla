------------------------------ MODULE MCLRAutomaton ------------------------------
(* The whole generated tables against the whole grammar.                        *)
EXTENDS LRAutomaton

\* More than the links of the longest chain of first symbols, from QueryUnit to var
MCRounds == 10
================================================================================
