---------------------------- MODULE MCRevisions ----------------------------
(* An agent and a reviewer, two drafts between them, two failures.         *)
EXTENDS Revisions

(* What a request that has ended leaves in put and held is never read.     *)
Live == <<disk, lock, pc, base, waiting, ghosts,
          [w \in Writers |-> IF pc[w] = "idle" THEN <<>> ELSE put[w]],
          [w \in Writers |-> IF pc[w] \in {"copy", "copying", "label", "revision"}
                             THEN held[w] ELSE <<>>]>>
=============================================================================
