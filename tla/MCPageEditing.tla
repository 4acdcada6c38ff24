---------------------------- MODULE MCPageEditing ----------------------------
(* Instances of PageEditing for TLC.  The editors are interchangeable. *)
EXTENDS PageEditing, TLC

EditorSymmetry == Permutations(Editors)
=============================================================================
