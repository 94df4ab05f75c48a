------------------------------ MODULE TaskBatch ------------------------------
(***************************************************************************)
(* What a call of gdm_tck.concurrent promises to the test that makes it.   *)
(* Tasks are issued and complete in any order; the call ends once, when no *)
(* task is pending, and if it returns, its counts are those of the tasks.  *)
(***************************************************************************)
EXTENDS Integers, FiniteSets

CONSTANT Tasks    (* A finite set. *)

VARIABLES outcome, ended, succeeded, failed
vars == <<outcome, ended, succeeded, failed>>

WithOutcome(o) == {t \in Tasks : outcome[t] = o}
NonePending == WithOutcome("pending") = {}

Init ==
  /\ outcome = [t \in Tasks |-> "none"]
  /\ ended = "no"
  /\ succeeded = 0
  /\ failed = 0

Issue(t) ==
  /\ ended = "no"
  /\ outcome[t] = "none"
  /\ outcome' = [outcome EXCEPT ![t] = "pending"]
  /\ UNCHANGED <<ended, succeeded, failed>>

Complete(t) ==
  /\ ended = "no"
  /\ outcome[t] = "pending"
  /\ \E o \in {"ok", "error"} : outcome' = [outcome EXCEPT ![t] = o]
  /\ UNCHANGED <<ended, succeeded, failed>>

Report ==
  /\ ended = "no"
  /\ NonePending
  /\ ended' = "returned"
  /\ succeeded' = Cardinality(WithOutcome("ok"))
  /\ failed' = Cardinality(WithOutcome("error"))
  /\ UNCHANGED outcome

(* The test was interrupted while the call was under way.                  *)
Raise ==
  /\ ended = "no"
  /\ NonePending
  /\ ended' = "raised"
  /\ UNCHANGED <<outcome, succeeded, failed>>

Next == (\E t \in Tasks : Issue(t) \/ Complete(t)) \/ Report \/ Raise

SafeSpec == Init /\ [][Next]_vars

Fairness ==
  /\ \A t \in Tasks : WF_vars(Complete(t))
  /\ WF_vars(Report \/ Raise)

Spec == SafeSpec /\ Fairness
=============================================================================
