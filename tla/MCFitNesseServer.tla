-------------------------- MODULE MCFitNesseServer --------------------------
(* Instances of FitNesseServer for TLC. *)
EXTENDS FitNesseServer
=============================================================================
