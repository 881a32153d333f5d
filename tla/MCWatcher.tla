----------------------------- MODULE MCWatcher -----------------------------
(***************************************************************************)
(* One watcher, one session it did not launch, and three reviews: two      *)
(* children at once, a third review that has to wait, and a second Send    *)
(* that replaces a child.                                                  *)
(***************************************************************************)
EXTENDS Watcher, TLC

ReviewSymmetry == Permutations(Reviews)

(* What the next steps and the invariants read of a state: a time is kept  *)
(* while something still compares it (a flip the cursor has not passed, a  *)
(* lease that is not stale, a launch in the window), the place in handle() *)
(* while run() is there, and the sessions' own grants not at all.          *)
View ==
  <<clock, stamp = clock, cursor = clock, turn, [r \in NewRows |-> turnUpdated[r]],
    [r \in Reviews |-> [agent[r] EXCEPT !.at = IF Stale(r) THEN 0 ELSE @]],
    [k \in DOMAIN children |-> [children[k] EXCEPT !.at = IF k \in Recent THEN @ ELSE 0]],
    pc, queue, pending, inflight, sweep, edges,
    {l \in {loop} : pc # "poll"},
    {r \in {at} : pc \in {"check", "claim", "spawn", "recheck"}},
    {s \in {signal} : s.stage # "none"}>>
=============================================================================
