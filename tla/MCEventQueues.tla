--------------------------- MODULE MCEventQueues ---------------------------
(* Model checking EventQueues: two queues, two threads that pop either, two  *)
(* changes of the state.                                                    *)
EXTENDS EventQueues
=============================================================================
