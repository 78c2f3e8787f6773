--------------------------- MODULE MCDriverLaunch ---------------------------
(* Instances of DriverLaunch for TLC. *)
EXTENDS DriverLaunch

ThreeSessions == {"s1", "s2", "s3"}
TwoHal == {"s1", "s2"}
Shared == [s \in Sessions |-> IF s = "s3" THEN "b" ELSE "a"]
=============================================================================
