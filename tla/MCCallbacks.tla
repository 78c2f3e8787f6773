----------------------------- MODULE MCCallbacks -----------------------------
(* Callbacks for TLC: two callback objects without a common function name. *)
EXTENDS Callbacks

F(n, f) == [name |-> n, func |-> f]
TwoObjects == {"o1", "o2"}
OtherNames == [o \in {"o1", "o2"} |->
                 IF o = "o1" THEN <<F("sendEvent", "f"), F("sendData", "g")>>
                 ELSE <<F("ack", "g"), F("notify", "h")>>]
=============================================================================
