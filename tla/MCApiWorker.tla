---------------------------- MODULE MCApiWorker ----------------------------
(* Model checking ApiWorker: two listeners, two sessions.                    *)
EXTENDS ApiWorker
=============================================================================
