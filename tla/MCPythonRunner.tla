---------------------------- MODULE MCPythonRunner ----------------------------
(* Instances of PythonRunner for TLC: one read of stdout. *)
EXTENDS PythonRunner

MCOutput == <<1, 0>>
=============================================================================
