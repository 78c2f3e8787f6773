------------------------- MODULE MCHalDriverManager -------------------------
(* An instance of HalDriverManager for TLC: a HAL with one nested          *)
(* interface.                                                              *)
EXTENDS HalDriverManager

SomeArgs == {[type |-> "interface", id |-> -1], [type |-> "fmq", id |-> NoValue],
             [type |-> "memory", id |-> 0], [type |-> "handle", id |-> -1]}
=============================================================================
