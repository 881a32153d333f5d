------------------------------- MODULE Viewer -------------------------------
(***************************************************************************)
(* The review page, beside the PUTs of Revisions: load(), the poll of      *)
(* /status every 2 s, and the editor.  setInterval does not wait for an    *)
(* async callback, so several chains of requests of one page run at once,  *)
(* each at its own await.  The page's saves are the PUTs of its reviewer.  *)
(***************************************************************************)
EXTENDS Revisions, FiniteSets

CONSTANTS MaxChains, \* bound: chains of requests of one page at a time
          MaxLost    \* bound: fetches of all pages that fail or answer with an error

ASSUME ViewerAssumption == MaxChains \in Nat /\ MaxLost \in Nat

Pages == Reviewers

VARIABLES
  shown,   \* the text rendered in #article: NoText is no draft, but the body of
           \* an error's answer, or nothing
  lastSrc,
  chains,  \* chains[p]: the async functions of p that are waiting
  gesture, \* a comment is being made: addbtn, #pop, confirming or pendingPost
  editing, \* EDITON; EDITREV is the revision in base
  notice,  \* the revision #editnotice names, -1 while it is hidden
  ack,     \* EDITACK, -1 for null
  lost,    \* fetches that have failed
  crossed  \* the text on the page was fetched before a new stamp was set, and
           \* its own stamp after

pagevars == <<shown, lastSrc, chains, gesture, editing, notice, ack, lost, crossed>>
vvars == <<rvars, pagevars>>

(* A poll that has its answer (su, rev), or a load: before GET /source,    *)
(* before GET /status, or with both answers.                               *)
Chain == [stage : {"polled", "text", "stamp", "paint"}, su : Nat, rev : Nat \cup {-1},
          text : Texts \cup {NoText}, crossed : BOOLEAN]

Load == [stage |-> "text", su |-> 0, rev |-> -1, text |-> NoText, crossed |-> FALSE]

ViewerTypeOK ==
  /\ shown \in [Pages -> Texts \cup {NoText}]
  /\ lastSrc \in [Pages -> Nat]
  /\ chains \in [Pages -> SUBSET Chain]
  /\ gesture \in [Pages -> BOOLEAN] /\ editing \in [Pages -> BOOLEAN]
  /\ notice \in [Pages -> Nat \cup {-1}] /\ ack \in [Pages -> Nat \cup {-1}]
  /\ lost \in Nat /\ crossed \in [Pages -> BOOLEAN]

(* init() has loaded the page and started the poll. *)
ViewerInit ==
  /\ RevisionsInit
  /\ shown = [p \in Pages |-> source] /\ lastSrc = [p \in Pages |-> meta.su]
  /\ chains = [p \in Pages |-> {}]
  /\ editing = [p \in Pages |-> FALSE] /\ crossed = editing /\ gesture = editing
  /\ notice = [p \in Pages |-> -1] /\ ack = notice
  /\ lost = 0

----------------------------------------------------------------------------
Becomes(p, c, new) == chains' = [chains EXCEPT ![p] = (@ \ {c}) \cup new]

(* A tick, but for one in the middle of a comment: /status answers.  It    *)
(* takes no lock.                                                          *)
Poll(p) ==
  /\ ~gesture[p]
  /\ Cardinality(chains[p]) < MaxChains
  /\ chains' = [chains EXCEPT ![p] = @ \cup
       {[Load EXCEPT !.stage = "polled", !.su = meta.su,
                     !.rev = IF meta.there THEN meta.rev ELSE -1]}]
  /\ UNCHANGED <<rvars, shown, lastSrc, gesture, editing, notice, ack, lost, crossed>>

(* Revision 0 taken for none. *)
ShouldWarnFalsy(p, rev) == rev # -1 /\ base[p].rev # 0 /\ rev # base[p].rev /\ rev # ack[p]

ShouldWarn(p, rev) == rev # -1 /\ rev # base[p].rev /\ rev # ack[p]

(* The stamp is recorded before the load, as it is for comments. *)
DecideStampFirst(p, c) ==
  /\ c \in chains[p] /\ c.stage = "polled"
  /\ IF editing[p]
     THEN /\ notice' = [notice EXCEPT ![p] = IF ShouldWarn(p, c.rev) THEN c.rev ELSE @]
          /\ Becomes(p, c, {}) /\ UNCHANGED lastSrc
     ELSE /\ Becomes(p, c, IF c.su \notin {0, lastSrc[p]} THEN {Load} ELSE {})
          /\ lastSrc' = [lastSrc EXCEPT ![p] = IF c.su = 0 THEN @ ELSE c.su]
          /\ UNCHANGED notice
  /\ UNCHANGED <<rvars, shown, gesture, editing, ack, lost, crossed>>

(* A page that has a stamp takes no other. *)
DecideOnce(p, c) ==
  /\ c \in chains[p] /\ c.stage = "polled"
  /\ IF editing[p]
     THEN /\ notice' = [notice EXCEPT ![p] = IF ShouldWarn(p, c.rev) THEN c.rev ELSE @]
          /\ Becomes(p, c, {})
     ELSE /\ Becomes(p, c, IF lastSrc[p] = 0 THEN {Load} ELSE {})
          /\ UNCHANGED notice
  /\ UNCHANGED <<rvars, shown, lastSrc, gesture, editing, ack, lost, crossed>>

(* ... and the page decides: over an open editor it only warns, otherwise  *)
(* another stamp than the last starts a load.                              *)
Decide(p, c) ==
  /\ c \in chains[p] /\ c.stage = "polled"
  /\ IF editing[p]
     THEN /\ notice' = [notice EXCEPT ![p] = IF ShouldWarn(p, c.rev) THEN c.rev ELSE @]
          /\ Becomes(p, c, {})
     ELSE /\ Becomes(p, c, IF c.su \notin {0, lastSrc[p]} THEN {Load} ELSE {})
          /\ UNCHANGED notice
  /\ UNCHANGED <<rvars, shown, lastSrc, gesture, editing, ack, lost, crossed>>

(* load(): GET /source, under the lock... *)
LoadText(p, c) ==
  /\ c \in chains[p] /\ c.stage = "text" /\ lock = Nobody
  /\ Becomes(p, c, {[c EXCEPT !.stage = "stamp", !.text = source]})
  /\ UNCHANGED <<rvars, shown, lastSrc, gesture, editing, notice, ack, lost, crossed>>

(* ... then GET /status... *)
LoadStamp(p, c) ==
  /\ c \in chains[p] /\ c.stage = "stamp"
  /\ Becomes(p, c, {[c EXCEPT !.stage = "paint", !.su = meta.su]})
  /\ UNCHANGED <<rvars, shown, lastSrc, gesture, editing, notice, ack, lost, crossed>>

(* ... and the stamp and the text are taken over, in whatever order the    *)
(* chains of the page get there.                                           *)
Paint(p, c) ==
  /\ c \in chains[p] /\ c.stage = "paint"
  /\ shown' = [shown EXCEPT ![p] = c.text] /\ crossed' = [crossed EXCEPT ![p] = c.crossed]
  /\ lastSrc' = [lastSrc EXCEPT ![p] = c.su]
  /\ Becomes(p, c, {})
  /\ UNCHANGED <<rvars, gesture, editing, notice, ack, lost>>

(* A fetch of a load fails or answers with an error: without its stamp the *)
(* load goes on with none.  A rejected fetch of the text ends it, but the  *)
(* body of an error's answer is taken for the text.                        *)
Lose(p, c) ==
  /\ c \in chains[p] /\ lost < MaxLost
  /\ lost' = lost + 1
  /\ \/ c.stage = "text" /\ Becomes(p, c, {})
     \/ c.stage = "text" /\ Becomes(p, c, {[c EXCEPT !.stage = "stamp", !.text = NoText]})
     \/ c.stage = "stamp" /\ Becomes(p, c, {[c EXCEPT !.stage = "paint"]})
  /\ UNCHANGED <<rvars, shown, lastSrc, gesture, editing, notice, ack, crossed>>

(* A text is marked, a popup or a delete-confirm opened, a post is under   *)
(* way or failed; or none of these any more.                               *)
Gesture(p) ==
  /\ gesture' = [gesture EXCEPT ![p] = ~@]
  /\ UNCHANGED <<rvars, shown, lastSrc, chains, editing, notice, ack, lost, crossed>>

(* openEditor, and "Reload latest" of the notice. *)
OpenEditor(p) ==
  /\ ~editing[p] \/ notice[p] # -1
  /\ Open(p)
  /\ editing' = [editing EXCEPT ![p] = TRUE]
  /\ notice' = [notice EXCEPT ![p] = -1] /\ ack' = [ack EXCEPT ![p] = -1]
  /\ UNCHANGED <<shown, lastSrc, chains, gesture, lost, crossed>>

KeepEditing(p) ==
  /\ editing[p] /\ notice[p] # -1
  /\ ack' = [ack EXCEPT ![p] = notice[p]] /\ notice' = [notice EXCEPT ![p] = -1]
  /\ UNCHANGED <<rvars, shown, lastSrc, chains, gesture, editing, lost, crossed>>

CloseEditor(p) == /\ editing' = [editing EXCEPT ![p] = FALSE]
                  /\ notice' = [notice EXCEPT ![p] = -1] /\ ack' = [ack EXCEPT ![p] = -1]

Cancel(p) == /\ editing[p] /\ CloseEditor(p)
             /\ UNCHANGED <<rvars, shown, lastSrc, chains, gesture, lost, crossed>>

Save(p) == editing[p] /\ Send(p) /\ UNCHANGED pagevars

(* The PUT's 200 closes the editor and loads; its 409 shows the notice. *)
Saved(p) == /\ Attribute(p) /\ CloseEditor(p)
            /\ chains' = [chains EXCEPT ![p] = @ \cup {Load}]
            /\ UNCHANGED <<shown, lastSrc, gesture, lost, crossed>>

NotSaved(p) == /\ Refuse(p)
               /\ notice' = [notice EXCEPT ![p] = meta.rev]
               /\ UNCHANGED <<shown, lastSrc, chains, gesture, editing, ack, lost, crossed>>

(* The new stamp falls between the two fetches of the loads under way. *)
BumpSeen(w) ==
  /\ Bump(w)
  /\ chains' = [p \in Pages |-> {IF c.stage = "stamp" THEN [c EXCEPT !.crossed = TRUE] ELSE c :
                                 c \in chains[p]}]
  /\ UNCHANGED <<shown, lastSrc, gesture, editing, notice, ack, lost, crossed>>

(* Agents write without a revision here: to the page a write that carries  *)
(* one is the same when it is accepted, and nothing when it is refused.    *)
AgentDone(a) == a \in Agents /\ Attribute(a) /\ UNCHANGED pagevars

ServerStep == \/ \E w \in Writers : PutStep(w)
              \/ \E a \in Agents : Send(a)
              \/ Elsewhere

PageStep(p) ==
  \/ Poll(p) \/ Gesture(p) \/ OpenEditor(p) \/ KeepEditing(p) \/ Cancel(p)
  \/ Save(p) \/ Saved(p) \/ NotSaved(p)
  \/ \E c \in chains[p] :
       Decide(p, c) \/ LoadText(p, c) \/ LoadStamp(p, c) \/ Paint(p, c) \/ Lose(p, c)

ViewerNext ==
  \/ ServerStep /\ UNCHANGED pagevars
  \/ \E w \in Writers : BumpSeen(w) \/ AgentDone(w)
  \/ \E p \in Pages : PageStep(p)

ViewerSafety == ViewerInit /\ [][ViewerNext]_vvars

(* The interval keeps firing, every await of a page ends, and a PUT that   *)
(* has the lock goes on.                                                   *)
ViewerFairness ==
  /\ \A p \in Pages : /\ WF_vvars(Poll(p))
                      /\ WF_vvars(\E c \in chains[p] : Decide(p, c))
                      /\ WF_vvars(\E c \in chains[p] : LoadText(p, c))
                      /\ WF_vvars(\E c \in chains[p] : LoadStamp(p, c))
                      /\ WF_vvars(\E c \in chains[p] : Paint(p, c))
  /\ WF_vvars(\E w \in Writers : lock = w /\ (\/ BumpSeen(w) \/ AgentDone(w)
                                              \/ w \in Pages /\ Saved(w)
                                              \/ PutStep(w) /\ UNCHANGED pagevars))

ViewerSpec == ViewerSafety /\ ViewerFairness
----------------------------------------------------------------------------
Settled(p) == chains[p] = {} /\ lock = Nobody /\ ~deleted

(* A page with nothing under way, whose last stamp is the document's, shows *)
(* the document: no later poll would reload it.                            *)
PageIsCurrent ==
  \A p \in Pages : Settled(p) /\ lastSrc[p] = meta.su => shown[p] = source

(* The document, or the body of an error's answer. *)
Shows(text) == text = source \/ (lost > 0 /\ text = NoText)

(* ... but for a PUT between the two fetches of a load, or one cut short,  *)
(* and for the body of an error's answer, which is painted under the stamp *)
(* of the document: neither overlapping loads, nor lost fetches, nor the   *)
(* editor make a page keep an older text.                                  *)
CurrentUnlessCrossed ==
  failures = 0 => \A p \in Pages : ~crossed[p] /\ Settled(p) /\ lastSrc[p] = meta.su
                                     => Shows(shown[p])

(* A page whose editor stays closed, and on which no comment stays in the  *)
(* making, takes up every new stamp in the end.  (After a DELETE the page  *)
(* has no review: one that a waiting PUT brings back has no owner.)        *)
StampsReachPage ==
  \A p \in Pages :
    <>[](~editing[p] /\ ~gesture[p] /\ ~deleted) => []<>(lastSrc[p] = meta.su)

(* Whoever edits an old revision is told, unless they have said that they  *)
(* know of the current one, or leave a comment in the making beside the    *)
(* editor, which holds off the ticks.                                      *)
EditorIsWarned ==
  \A p \in Pages :
    <>[]~gesture[p] =>
      (editing[p] /\ ~deleted /\ base[p].rev # meta.rev /\ ack[p] # meta.rev
         ~> ~editing[p] \/ notice[p] # -1 \/ base[p].rev = meta.rev \/ deleted)
=============================================================================
