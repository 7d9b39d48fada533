------------------------- MODULE MCRelationOverrides -------------------------
(* An instance of RelationOverrides for TLC. *)
EXTENDS RelationOverrides, TLC

CONSTANTS m1, m2

Item1(names) == [model |-> m1, names |-> names]
Item2(names) == [model |-> m2, names |-> names]

\* No model, one model (also with an override given twice, or named twice itself),
\* and two models in both orders; overrides are added, renamed by position, and removed.
SmallBodies == {<<>>, <<Item1(<<1, 2>>)>>, <<Item1(<<2, 2>>)>>,
                <<Item1(<<>>), Item2(<<1>>)>>,
                <<Item2(<<1, 2>>), Item1(<<2>>)>>, <<Item2(<<>>)>>,
                <<Item1(<<1>>), Item1(<<1, 2>>)>>}

\* Nothing reads the flag of a row, nor the data of a save that is over, or past its use.
Unflagged(store) == [id \in DOMAIN store |-> <<store[id].model, store[id].name>>]
Live(s) ==
    CASE pc[s] \in {"done", "failed"} -> <<>>
      [] pc[s] = "idle" -> <<alone[s]>>
      [] pc[s] = "reload" -> <<draft[s]>>
      [] pc[s] \in {"query", "commit"} -> <<draft[s], body[s], at[s], alone[s]>>
      [] OTHER -> <<draft[s], body[s], at[s], alone[s], found[s]>>
LiveState ==
    <<Unflagged(rows), Unflagged(work), writer, pc, [s \in Saves |-> Live(s)], schema, untold>>

\* Saves are interchangeable.
Symmetry == Permutations(Saves)
=============================================================================
