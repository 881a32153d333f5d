----------------------------- MODULE MCComments -----------------------------
(* One page and one agent. *)
EXTENDS Comments
=============================================================================
