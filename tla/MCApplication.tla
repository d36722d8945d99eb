--------------------------- MODULE MCApplication ---------------------------
(***************************************************************************)
(* One process too few, and the fewest there must be; with both arguments, *)
(* with one and with none.                                                 *)
(***************************************************************************)
EXTENDS Application
=============================================================================
