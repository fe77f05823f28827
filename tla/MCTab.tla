-------------------------------- MODULE MCTab --------------------------------
(* A small instance of Tab for TLC.                                        *)
EXTENDS Tab, TLC

Symmetric == Permutations(Users) \cup Permutations(Families)
=============================================================================
