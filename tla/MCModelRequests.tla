--------------------------- MODULE MCModelRequests ---------------------------
(* An instance of ModelRequests for TLC. *)
EXTENDS ModelRequests

By(by, desc) == [by |-> by, desc |-> desc]
NoFilter == [lookup |-> "", exclude |-> FALSE, v |-> 0]
NotOne == [lookup |-> "exact", exclude |-> TRUE, v |-> 1]

MCTables == {<<1, 2, 3>>, <<3, 1, 2>>, <<1, 1, 2>>, <<1, Null, Absent>>}
MCWalks == {[filter |-> NoFilter, order |-> <<By("cell", FALSE)>>, size |-> 1],
            [filter |-> NoFilter, order |-> <<>>, size |-> 2],
            [filter |-> NotOne, order |-> <<By("cell", TRUE)>>, size |-> 1]}
MCReorders == {[from |-> f, to |-> t, item |-> i, forward |-> b, places |-> p] :
                 f \in {2, 3}, t \in {2, 3}, i \in {1, 3}, b \in BOOLEAN, p \in {TRUE}}
              \cup {[from |-> 1, to |-> 2, item |-> 3, forward |-> FALSE, places |-> TRUE],
                    [from |-> 2, to |-> 3, item |-> 1, forward |-> TRUE, places |-> FALSE]}
MCBulks == {<<>>, <<[id |-> 3, v |-> 1], [id |-> Absent, v |-> 2]>>}
=============================================================================
