------------------------------ MODULE MC_Sessions ------------------------------
(* Instances of Sessions for TLC.                                          *)
EXTENDS Sessions

\* Hosts, tokens, identifiers and visits are interchangeable.
Symmetry ==
    Permutations(Users) \cup Permutations(Tokens) \cup Permutations(Rooms) \cup Permutations(Visits)
===============================================================================
