------------------------------ MODULE Document ------------------------------
(***************************************************************************)
(* What the source of a review promises its writers, with no files, no     *)
(* lock, no revision numbers and no crashes.  There is one document and an *)
(* append-only history.  A write in flight takes effect at one instant or  *)
(* not at all; the draft it replaces is the last one of the history by     *)
(* then; and a write with a precondition replaces only the draft its       *)
(* writer has read.  Nothing is promised once the review has been deleted: *)
(* what comes after finds whatever the deletion left.                      *)
(***************************************************************************)
EXTENDS Naturals

CONSTANTS Writers,
          Drafts,
          Nothing   \* there is no draft

VARIABLES doc,      \* the draft that is the document
          rounds,   \* the history: drafts with their places, [n, text]
          seen,     \* the draft each writer read last
          pending,  \* each writer's write in flight, if any: [text, guarded]
          deleted   \* whether the review has been deleted

vars == <<doc, rounds, seen, pending, deleted>>

Init ==
  /\ doc \in Drafts /\ rounds = {} /\ deleted = FALSE
  /\ seen = [w \in Writers |-> Nothing] /\ pending = [w \in Writers |-> {}]

Read(w) ==
  /\ seen' = [seen EXCEPT ![w] = doc]
  /\ UNCHANGED <<doc, rounds, pending, deleted>>

Submit(w) ==
  /\ pending[w] = {}
  /\ \E d \in Drafts, guarded \in BOOLEAN :
       pending' = [pending EXCEPT ![w] = {[text |-> d, guarded |-> guarded]}]
  /\ UNCHANGED <<doc, rounds, seen, deleted>>

(* The draft becomes the last one of the history. *)
Archive ==
  /\ doc # Nothing
  /\ \E c \in rounds' : /\ c.text = doc /\ \A d \in rounds : d.n < c.n
                        /\ rounds' = rounds \cup {c}
  /\ UNCHANGED <<doc, seen, pending, deleted>>

Archived == \E c \in rounds : c.text = doc /\ \A d \in rounds : d.n <= c.n

Write(w) ==
  /\ \E p \in pending[w] : /\ p.guarded => seen[w] = doc
                          /\ doc' = p.text
  /\ doc # Nothing => Archived
  /\ pending' = [pending EXCEPT ![w] = {}]
  /\ UNCHANGED <<rounds, seen, deleted>>

(* Writes that are refused, or that fail before they take effect. *)
Abandon ==
  /\ \E failed \in SUBSET Writers :
       pending' = [w \in Writers |-> IF w \in failed THEN {} ELSE pending[w]]
  /\ UNCHANGED <<doc, rounds, seen, deleted>>

(* The deletion, and everything after it. *)
Forgotten == deleted'

Next == \/ \E w \in Writers : Read(w) \/ Submit(w) \/ Write(w)
        \/ Archive \/ Abandon \/ Forgotten

Spec == Init /\ [][Next]_vars
=============================================================================
