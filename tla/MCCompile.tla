----------------------------- MODULE MCCompile -----------------------------
(* One review, with every interleaving of the worker and two requests on it. *)
EXTENDS Compile
=============================================================================
