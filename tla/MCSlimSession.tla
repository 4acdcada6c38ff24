---------------------------- MODULE MCSlimSession ----------------------------
(* Instances of SlimSession for TLC: a test page and a suite tear down page,  *)
(* or two test pages and a suite tear down page; the last table of each test  *)
(* page is its tear down.                                                     *)
EXTENDS SlimSession

LastTables == {<<p, K>> : p \in 1..(N - 1)}
LastPage == {N}
=============================================================================
