------------------------ MODULE MCMultipleTestsRunner ------------------------
(* Instances of MultipleTestsRunner for TLC. *)
EXTENDS MultipleTestsRunner

\* Two pages in the first group, one in the second.
MCPages == [i \in Groups |-> IF i = 1 THEN 2 ELSE 1]

\* The kinds of test system of the groups.
AllSync == {}
FirstAsync == {1}
=============================================================================
