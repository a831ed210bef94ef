--------------------------- MODULE MCOpenSession ---------------------------
(* Model checking OpenSession. *)
EXTENDS OpenSession
=============================================================================
