----------------------------- MODULE PrivateGraph -----------------------------
(***************************************************************************)
(* What the Given steps promise a scenario of one worker: a graph of its   *)
(* own.  After a clearing step it starts out empty, only the scenario      *)
(* writes to it, and a query returns all of it.  A scenario may end at any *)
(* point, and one on "any graph" is promised nothing, nor one whose graph  *)
(* others reach.                                                           *)
(***************************************************************************)

CONSTANTS
  Rows           (* What the worker's scenarios may write.                  *)

VARIABLES
  stage,         (* Where the worker is.                                    *)
  graph,         (* The graph of its scenario, {} if nothing is promised.   *)
  answer         (* What the last query of the scenario returned, if any.   *)

vars == <<stage, graph, answer>>

Init == stage = "between" /\ graph = {} /\ answer = {}

Start ==
  /\ stage = "between"
  /\ stage' \in {"clearing", "any"}
  /\ UNCHANGED <<graph, answer>>

Clear ==
  /\ stage = "clearing"
  /\ stage' = "known"
  /\ graph' = {}
  /\ UNCHANGED answer

Write ==
  /\ stage = "known"
  /\ \E r \in Rows : graph' = graph \union {r}
  /\ answer' = {}
  /\ UNCHANGED stage

Read ==
  /\ stage = "known"
  /\ answer' = {graph}
  /\ UNCHANGED <<stage, graph>>

(* Another worker changes the graph, or the scenario turns to another one. *)
Lose ==
  /\ stage \in {"clearing", "known"}
  /\ stage' = "any"
  /\ graph' = {} /\ answer' = {}

End ==
  /\ stage # "between"
  /\ stage' = "between"
  /\ graph' = {} /\ answer' = {}

Next == Start \/ Clear \/ Write \/ Read \/ Lose \/ End

Spec == Init /\ [][Next]_vars
=============================================================================
