-------------------------- MODULE MCCommandChannel --------------------------
(* Model checking CommandChannel: two threads, three commands between them, *)
(* one superfluous response.                                                *)
EXTENDS CommandChannel
=============================================================================
