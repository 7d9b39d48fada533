------------------------ MODULE MCConnectionRegistry ------------------------
(* Small instances of ConnectionRegistry for TLC.                          *)
EXTENDS ConnectionRegistry, TLC

\* Calls and params are interchangeable.
Symmetry == Permutations(Calls) \cup Permutations(Params)

\* What the properties that do not look at the history depend on.
WithoutHistory == <<registered, pending, engine, tunnel, params, kind, pc, victim, resume,
                    waitsOn, result, blacklisted>>
=============================================================================
