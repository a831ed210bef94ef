------------------------- MODULE MCShmBsonProvider -------------------------
(* Model checking ShmBsonProvider: the io thread and one user thread race for*)
(* three rewrites of the document, of which the second is malformed.        *)
EXTENDS ShmBsonProvider
=============================================================================
