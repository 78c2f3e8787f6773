-------------------------- MODULE MCTargetCallback --------------------------
(* Instances of TargetCallback for TLC. *)
EXTENDS TargetCallback

CONSTANTS t1, t2, n1, n2, d1, d2

(* One waiter per name, one WaitForCallbackAny thread. *)
SoleWaitNames == (t1 :> {n1}) @@ (t2 :> {})
SoleAnyLists == (t1 :> {}) @@ (t2 :> {<<>>, <<n2, n1>>})
=============================================================================
