------------------------- MODULE MCScenarioContext -------------------------
(* Small instance of ScenarioContext: two users, two databases, rows that  *)
(* are empty or not, two types of error.                                   *)
EXTENDS ScenarioContext, TLC

(* Clients are interchangeable: nothing orders or names them.              *)
ClientSymmetry == Permutations(Clients)
=============================================================================
