--------------------------- MODULE MCSchemaChanges ---------------------------
(* An instance of SchemaChanges for TLC. *)
EXTENDS SchemaChanges, TLC

Symmetry == Permutations(Processes) \cup Permutations(Changes) \cup Permutations(Columns)
=============================================================================
