----------------------------- MODULE MCResources -----------------------------
(* The models of the resources of a session side by side: the ids and the  *)
(* locks, the free use of queue mirrors, and the tests.  The first state   *)
(* chooses the one that a behaviour is about.                              *)
EXTENDS ResourceManager, FmqUse, ResourceTests

VARIABLE part

OnlyIn(p) ==
  /\ part = p /\ UNCHANGED part
  /\ p # "manager" => UNCHANGED managerVars
  /\ p # "queues" => UNCHANGED fmqVars
  /\ p # "tests" => UNCHANGED testVars

ResourcesInit == part \in {"manager", "queues", "tests"} /\ ManagerInit /\ FmqInit /\ TestsInit

ResourcesNext ==
  \/ OnlyIn("manager") /\ ManagerNext
  \/ OnlyIn("queues") /\ FmqNext
  \/ OnlyIn("tests") /\ TestsNext

ResourcesSpec == ResourcesInit /\ [][ResourcesNext]_<<part, managerVars, fmqVars, testVars>>
=============================================================================
