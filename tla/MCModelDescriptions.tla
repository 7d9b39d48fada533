------------------------ MODULE MCModelDescriptions ------------------------
(* Instances of ModelDescriptions for TLC. *)
EXTENDS ModelDescriptions, TLC

Symmetry == Permutations(Clients) \cup Permutations(Changers)
=============================================================================
