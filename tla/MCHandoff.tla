----------------------------- MODULE MCHandoff -----------------------------
(* One review, two named sessions and anonymous pings, a TTL of two ticks: *)
(* long enough for a lease to be renewed, to lapse, and to be taken over.  *)
EXTENDS Handoff
=============================================================================
