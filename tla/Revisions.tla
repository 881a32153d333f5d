----------------------------- MODULE Revisions -----------------------------
(***************************************************************************)
(* PUT /source and the history rounds of one review, at the granularity of *)
(* its disk writes: ReviewService.put_source and snapshot_round.  The      *)
(* store lock keeps other handlers out of the whole sequence, but a write  *)
(* may fail and the process may die between any two steps, and what is on  *)
(* disk then is what the next call finds.  meta.json, source.md and        *)
(* round.json are replaced at once (write_text renames a temporary file);  *)
(* a round's copy of source.md is written in place.  Every handler checks  *)
(* that the review exists before it waits for the lock, and none looks     *)
(* again once it has it.  The review was created before the first state,   *)
(* with text 0 and revision 0.                                             *)
(***************************************************************************)
EXTENDS Integers

CONSTANTS Agents,      \* clients whose writes are the agent's (bearer or wrapper)
          Reviewers,   \* clients whose writes are the reviewer's (viewer)
          Nobody,      \* the lock is free
          NoText,      \* source.md is not there
          Torn,        \* what is in a copy that was not finished
          MaxTexts,    \* bound: drafts submitted
          MaxFailures, \* bound: crashes and failed writes
          MaxTouches   \* bound: writes of other meta.json fields

Writers == Agents \cup Reviewers

ASSUME RevisionsAssumption ==
  /\ Agents \cap Reviewers = {}
  /\ Nobody \notin Writers
  /\ NoText \notin Nat /\ Torn \notin Nat /\ Torn # NoText
  /\ MaxTexts \in Nat /\ MaxFailures \in Nat /\ MaxTouches \in Nat

VARIABLES
  dir,      \* the directory of the review is there
  meta,     \* meta.json: there, revision, source_updated(_by) and, as one
            \* counter, every field other handlers write (turn, comments...)
  source,   \* source.md
  copies,   \* history/round-n/source.md
  labels,   \* history/round-n/round.json
  lock,     \* holder of the store lock
  pc,       \* where each client's PUT is
  base,     \* what each client's last GET /source returned: body and ETag
  waiting,  \* requests of other handlers that have passed their checks
  put,      \* the body of each client's PUT and whether it carries a revision
  held,     \* the meta.json that snapshot_round has read
  texts,    \* texts submitted so far: each PUT submits a text of its own
  written,  \* texts that have been in source.md
  author,   \* the plane each submitted text came from
  failures, \* crashes and failures so far
  touches,  \* acknowledged writes of the other meta fields
  deleted   \* whether the review has been deleted

disk == <<dir, meta, source, copies, labels>>
ghosts == <<texts, written, author, failures, touches, deleted>>
rvars == <<disk, lock, pc, base, waiting, put, held, ghosts>>

Texts == 0..MaxTexts
Plane(w) == IF w \in Reviewers THEN "reviewer" ELSE "agent"
Planes == {"agent", "reviewer"}
Meta == [there : BOOLEAN, rev : Nat, su : Nat, by : Planes, other : Nat]
NoMeta == [there |-> FALSE, rev |-> 0, su |-> 0, by |-> "agent", other |-> 0]
Steps == {"copy", "copying", "label", "revision", "overwrite", "bump", "attribute"}
Handlers == {"meta",   \* comments, handoff...: a read-modify-write of meta.json
             "asset",  \* POST /assets: writes below a directory it makes
             "delete"}

RevisionsTypeOK ==
  /\ dir \in BOOLEAN /\ meta \in Meta
  /\ source \in Texts \cup {NoText}
  /\ copies \subseteq [n : Nat, text : Texts \cup {Torn}]
  /\ labels \subseteq [n : Nat, by : Planes]
  /\ lock \in Writers \cup {Nobody}
  /\ pc \in [Writers -> {"idle", "sent"} \cup Steps]
  /\ base \in [Writers -> [text : Texts \cup {NoText}, rev : Nat \cup {-1}]]
  /\ put \in [Writers -> [text : Texts, guarded : BOOLEAN]]
  /\ held \in [Writers -> Meta] /\ waiting \subseteq Handlers
  /\ texts \in Texts /\ written \subseteq Texts
  /\ author \in [Texts -> Planes]
  /\ failures \in Nat /\ touches \in Nat /\ deleted \in BOOLEAN

RevisionsInit ==
  /\ meta = [there |-> TRUE, rev |-> 0, su |-> 1, by |-> "agent", other |-> 0]
  /\ dir = TRUE /\ source = 0 /\ copies = {} /\ labels = {}
  /\ lock = Nobody /\ waiting = {}
  /\ pc = [w \in Writers |-> "idle"]
  /\ base = [w \in Writers |-> [text |-> NoText, rev |-> -1]]
  /\ put = [w \in Writers |-> [text |-> 0, guarded |-> FALSE]]
  /\ held = [w \in Writers |-> NoMeta]
  /\ texts = 0 /\ written = {0} /\ author = [t \in Texts |-> "agent"]
  /\ failures = 0 /\ touches = 0 /\ deleted = FALSE

----------------------------------------------------------------------------
Goto(w, step) == pc' = [pc EXCEPT ![w] = step]

(* GET /source reads the body and its token without the lock. *)
OpenUnlocked(w) ==
  /\ pc[w] = "idle" /\ meta.there
  /\ base' = [base EXCEPT ![w] = [text |-> source, rev |-> meta.rev]]
  /\ UNCHANGED <<disk, lock, pc, waiting, put, held, ghosts>>

(* GET /source: the body and its revision, read together under the lock.   *)
(* (A GET that waited through a DELETE reads no text and revision 0, which *)
(* nothing below speaks of.)                                               *)
Open(w) ==
  /\ pc[w] = "idle" /\ lock = Nobody /\ meta.there
  /\ base' = [base EXCEPT ![w] = [text |-> source, rev |-> meta.rev]]
  /\ UNCHANGED <<disk, lock, pc, waiting, put, held, ghosts>>

(* A PUT that does not look whether the review exists. *)
SendUnchecked(w) ==
  /\ pc[w] = "idle" /\ texts < MaxTexts
  /\ \E guarded \in BOOLEAN :
       /\ guarded => base[w].rev >= 0
       /\ w \in Reviewers => guarded
       /\ put' = [put EXCEPT ![w] = [text |-> texts + 1, guarded |-> guarded]]
  /\ texts' = texts + 1
  /\ author' = [author EXCEPT ![texts + 1] = Plane(w)]
  /\ Goto(w, "sent")
  /\ UNCHANGED <<disk, lock, base, waiting, held, written, failures, touches, deleted>>

(* A PUT passes the gates that run before the lock: custody, CSRF, body.   *)
(* The viewer always sends the revision it read; an agent need not.        *)
Send(w) ==
  /\ pc[w] = "idle" /\ meta.there /\ texts < MaxTexts
  /\ \E guarded \in BOOLEAN :
       /\ guarded => base[w].rev >= 0
       /\ w \in Reviewers => guarded
       /\ put' = [put EXCEPT ![w] = [text |-> texts + 1, guarded |-> guarded]]
  /\ texts' = texts + 1
  /\ author' = [author EXCEPT ![texts + 1] = Plane(w)]
  /\ Goto(w, "sent")
  /\ UNCHANGED <<disk, lock, base, waiting, held, written, failures, touches, deleted>>

(* The precondition is dropped. *)
NeverStale(w) == FALSE

Stale(w) == put[w].guarded /\ base[w].rev # meta.rev

(* 409: the write changed nothing at all. *)
Refuse(w) == /\ pc[w] = "sent" /\ lock = Nobody /\ Stale(w)
             /\ Goto(w, "idle")
             /\ UNCHANGED <<disk, lock, base, waiting, put, held, ghosts>>

(* The lock is taken, the precondition holds, snapshot_round reads meta. *)
Begin(w) == /\ pc[w] = "sent" /\ lock = Nobody /\ ~Stale(w)
            /\ lock' = w
            /\ held' = [held EXCEPT ![w] = meta]
            /\ Goto(w, "copy")
            /\ UNCHANGED <<disk, base, waiting, put, ghosts>>

Recopy(n, text) == {c \in copies : c.n # n} \cup {[n |-> n, text |-> text]}

(* makedirs history/round-n; if source.md is there its copy is opened, and *)
(* what a copy of an earlier attempt held is gone.                         *)
OpenCopy(w) ==
  /\ pc[w] = "copy"
  /\ dir' = TRUE
  /\ IF source = NoText
     THEN Goto(w, "label") /\ UNCHANGED copies
     ELSE Goto(w, "copying") /\ copies' = Recopy(held[w].rev, Torn)
  /\ UNCHANGED <<meta, source, labels, lock, base, waiting, put, held, ghosts>>

(* The draft is overwritten before its round is archived. *)
CopyAfterOverwrite(w) ==
  /\ pc[w] = "copying" /\ source # NoText
  /\ copies' = Recopy(held[w].rev, put[w].text)
  /\ Goto(w, "label")
  /\ UNCHANGED <<dir, meta, source, labels, lock, base, waiting, put, held, ghosts>>

(* A round whose round.json is not written. *)
CopyUnlabelled(w) ==
  /\ pc[w] = "copying" /\ source # NoText
  /\ copies' = Recopy(held[w].rev, source)
  /\ Goto(w, "revision")
  /\ UNCHANGED <<dir, meta, source, labels, lock, base, waiting, put, held, ghosts>>

(* The copy is complete. *)
FillCopy(w) ==
  /\ pc[w] = "copying" /\ source # NoText
  /\ copies' = Recopy(held[w].rev, source)
  /\ Goto(w, "label")
  /\ UNCHANGED <<dir, meta, source, labels, lock, base, waiting, put, held, ghosts>>

(* The attribution of the incoming draft instead of the outgoing one. *)
LabelIncoming(w) ==
  LET n == held[w].rev IN
  /\ pc[w] = "label"
  /\ labels' = {l \in labels : l.n # n} \cup {[n |-> n, by |-> Plane(w)]}
  /\ Goto(w, "revision")
  /\ UNCHANGED <<dir, meta, source, copies, lock, base, waiting, put, held, ghosts>>

(* round.json: the index and the outgoing draft's attribution. *)
Label(w) ==
  LET n == held[w].rev IN
  /\ pc[w] = "label"
  /\ labels' = {l \in labels : l.n # n} \cup {[n |-> n, by |-> held[w].by]}
  /\ Goto(w, "revision")
  /\ UNCHANGED <<dir, meta, source, copies, lock, base, waiting, put, held, ghosts>>

(* meta.json is the copy read at the start, with the next revision. *)
WriteRevision(w) ==
  /\ pc[w] = "revision"
  /\ meta' = [held[w] EXCEPT !.rev = @ + 1, !.there = TRUE]
  /\ Goto(w, "overwrite")
  /\ UNCHANGED <<dir, source, copies, labels, lock, base, waiting, put, held, ghosts>>

Overwrite(w) ==
  /\ pc[w] = "overwrite"
  /\ source' = put[w].text
  /\ written' = written \cup {put[w].text}
  /\ Goto(w, "bump")
  /\ UNCHANGED <<dir, meta, copies, labels, lock, base, waiting, put, held, texts,
                 author, failures, touches, deleted>>

(* bump(rid, "source_updated"): each stamp is newer than the last. *)
Bump(w) == /\ pc[w] = "bump"
           /\ meta' = [meta EXCEPT !.su = @ + 1]
           /\ Goto(w, "attribute")
           /\ UNCHANGED <<dir, source, copies, labels, lock, base, waiting, put, held, ghosts>>

(* Set or delete source_updated_by, release the lock, answer 200. *)
Attribute(w) == /\ pc[w] = "attribute"
                /\ meta' = [meta EXCEPT !.by = Plane(w)]
                /\ lock' = Nobody
                /\ Goto(w, "idle")
                /\ UNCHANGED <<dir, source, copies, labels, base, waiting, put, held, ghosts>>

(* A write of the holder fails: the exception releases the lock. *)
Fail(w) == /\ pc[w] \in Steps /\ failures < MaxFailures
           /\ failures' = failures + 1
           /\ lock' = Nobody
           /\ Goto(w, "idle")
           /\ UNCHANGED <<disk, base, waiting, put, held, texts, written, author, touches,
                          deleted>>

(* The process dies and restarts: every request in flight is gone. *)
Crash == /\ failures < MaxFailures
         /\ failures' = failures + 1
         /\ lock' = Nobody
         /\ pc' = [w \in Writers |-> "idle"] /\ waiting' = {}
         /\ UNCHANGED <<disk, base, put, held, texts, written, author, touches, deleted>>

(* A request of another handler finds the review and goes to the lock. *)
Arrive(k) ==
  /\ k \in Handlers \ waiting /\ meta.there
  /\ k # "delete" => touches < MaxTouches
  /\ waiting' = waiting \cup {k}
  /\ UNCHANGED <<disk, lock, pc, base, put, held, ghosts>>

(* Another handler's read-modify-write of meta.json, which takes a file    *)
(* that is not there for an empty one; without the directory it fails.     *)
TouchUnlocked ==
  /\ "meta" \in waiting
  /\ waiting' = waiting \ {"meta"}
  /\ IF dir THEN /\ meta' = [meta EXCEPT !.there = TRUE, !.other = @ + 1]
                 /\ touches' = touches + 1
            ELSE UNCHANGED <<meta, touches>>
  /\ UNCHANGED <<dir, source, copies, labels, lock, pc, base, put, held, texts,
                 written, author, failures, deleted>>

Touch == lock = Nobody /\ TouchUnlocked

(* POST /assets makes assets/, and with it the directory. *)
Attach ==
  /\ "asset" \in waiting /\ lock = Nobody
  /\ waiting' = waiting \ {"asset"}
  /\ dir' = TRUE
  /\ UNCHANGED <<meta, source, copies, labels, lock, pc, base, put, held, ghosts>>

(* rmtree(ignore_errors=True) removes the directory and everything in it,  *)
(* or leaves the directory with whatever it could not remove.              *)
Delete ==
  /\ "delete" \in waiting /\ lock = Nobody
  /\ waiting' = waiting \ {"delete"}
  /\ \/ /\ dir' = FALSE /\ meta' = NoMeta /\ source' = NoText
        /\ copies' = {} /\ labels' = {}
        /\ UNCHANGED failures
     \/ /\ dir /\ failures < MaxFailures /\ failures' = failures + 1
        /\ meta' \in {meta, NoMeta} /\ source' \in {source, NoText}
        /\ copies' \in SUBSET copies /\ labels' \in SUBSET labels
        /\ UNCHANGED dir
  /\ written' = {} /\ deleted' = TRUE
  /\ UNCHANGED <<lock, pc, base, put, held, texts, author, touches>>

(* What a PUT does to the files while it has the lock, up to its stamp. *)
PutStep(w) == \/ Begin(w) \/ OpenCopy(w) \/ FillCopy(w) \/ Label(w)
              \/ WriteRevision(w) \/ Overwrite(w) \/ Fail(w)

Elsewhere == Crash \/ (\E k \in Handlers : Arrive(k)) \/ Touch \/ Attach \/ Delete

RevisionsNext ==
  \/ \E w \in Writers :
       Open(w) \/ Send(w) \/ Refuse(w) \/ PutStep(w) \/ Bump(w) \/ Attribute(w)
  \/ Elsewhere

RevisionsSpec == RevisionsInit /\ [][RevisionsNext]_rvars
----------------------------------------------------------------------------
(* No draft is lost: every text that has ever been the document (and was   *)
(* not deleted since) is still the document or in a history round,         *)
(* wherever a PUT was cut short.                                           *)
NoDraftLost == written \subseteq {source} \cup {c.text : c \in copies}

(* A revision token names one text: whoever read the document with the     *)
(* current revision read the current text.                                 *)
TokenNamesText ==
  \A w \in Writers : lock = Nobody /\ ~deleted /\ base[w].rev = meta.rev
                       => base[w].text = source

(* A write that carries a revision never replaces a text its author has    *)
(* not read.                                                               *)
GuardedWriteSawText ==
  \A w \in Writers : pc[w] = "overwrite" /\ put[w].guarded /\ ~deleted
                       => base[w].text = source

(* History has no holes: every round below the current revision has its    *)
(* whole text and its round.json, so GET /history/n finds it.              *)
RoundsComplete ==
  ~deleted => \A n \in 0 .. meta.rev - 1 :
                /\ \E c \in copies : c.n = n /\ c.text # Torn
                /\ \E l \in labels : l.n = n

(* "by" names the author of the draft the round archives. *)
RoundsTrueAuthor ==
  \A c \in copies, l \in labels :
    c.n = l.n /\ c.n < meta.rev => l.by = author[c.text]

(* ... as long as no PUT was cut short. *)
RoundsTrueAuthorUndisturbed == failures = 0 /\ ~deleted => RoundsTrueAuthor

(* The read-modify-writes of meta.json never undo each other: every field  *)
(* another handler was told it had written is still there.                 *)
MetaFieldsKept == ~deleted => meta.other = touches

(* A deleted review stays deleted: there is no meta.json... *)
DeletedStaysDeleted == deleted => ~meta.there

(* ... once no PUT waits that the lock will let through (one that passed   *)
(* the checks before the DELETE, and carries no revision or that of a new  *)
(* review), and no request that would write meta.json finds a directory or *)
(* a request before it that makes one.                                     *)
Gone == /\ ~meta.there
        /\ \A w \in Writers : pc[w] = "idle" \/ (pc[w] = "sent" /\ Stale(w))
        /\ "meta" \in waiting => ~dir /\ "asset" \notin waiting
DeletedForGood == [][Gone => Gone']_rvars

(* The five writes of a PUT, its failures and its crashes implement the    *)
(* document: a draft is in the history with the revision that moves past   *)
(* its round, and a PUT takes effect with its overwrite.                   *)
InFlight(w) == pc[w] \in {"sent", "copy", "copying", "label", "revision", "overwrite"}
History == {c \in copies : c.n < meta.rev}
Seen == [w \in Writers |-> base[w].text]
Pending == [w \in Writers |-> IF InFlight(w) THEN {put[w]} ELSE {}]
Promise == INSTANCE Document WITH
  Drafts <- Texts, Nothing <- NoText, doc <- source, rounds <- History, seen <- Seen,
  pending <- Pending
ImplementsDocument == Promise!Spec
=============================================================================
