----------------------------- MODULE MCSessions -----------------------------
(* Small instances of Sessions for TLC.                                    *)
EXTENDS Sessions, TLC

Symmetric == Permutations(Users) \cup Permutations(Families) \cup
             Permutations(Reqs)
=============================================================================
