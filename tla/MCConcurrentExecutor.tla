------------------------ MODULE MCConcurrentExecutor ------------------------
(* Instances of ConcurrentExecutor: more tasks than threads, so that tasks  *)
(* queue and complete out of order.                                         *)
EXTENDS ConcurrentExecutor
=============================================================================
