------------------------------ MODULE MCViewer ------------------------------
(***************************************************************************)
(* One page and one agent, two drafts.                                     *)
(***************************************************************************)
EXTENDS Viewer

(* Two states are one when they differ only in what no guard, no fairness  *)
(* condition and no property of this run reads any more: what ended        *)
(* requests and closed editors leave, the history rounds, and everything   *)
(* once the review is deleted, of which no property here speaks.           *)
LiveView ==
  IF deleted THEN <<>> ELSE
  <<meta, source, lock, pc, waiting, texts,
    shown, lastSrc, chains, gesture, editing, notice, ack, lost, crossed,
    [w \in Writers |-> IF pc[w] \in {"idle", "bump", "attribute"} THEN <<>> ELSE
                       <<put[w].text, pc[w] = "sent" /\ put[w].guarded>>],
    [p \in Pages |-> IF editing[p] \/ pc[p] = "sent" THEN base[p].rev ELSE <<>>],
    [w \in Writers |-> IF pc[w] \in {"copy", "copying", "label", "revision"}
                       THEN held[w] ELSE <<>>]>>
=============================================================================
