----------------------------- MODULE MCTestRun -----------------------------
(* Instances of TestRun for TLC: a class with one test function and one    *)
(* trigger of two generated cases.                                         *)
EXTENDS TestRun

MCTests == << [generate |-> FALSE, names |-> <<"test1">>],
              [generate |-> TRUE, names |-> <<"gen1", "gen2">>] >>

=============================================================================
