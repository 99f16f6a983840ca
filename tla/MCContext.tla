------------------------------ MODULE MCContext ------------------------------
(* Instances of Context for TLC. *)
EXTENDS Context, TLC

Symmetry == Permutations(Sessions) \cup Permutations(Peers) \cup
            Permutations(Params) \cup Permutations(Nodes)
=============================================================================
