---------------------------- MODULE ViewerProofs ----------------------------
(***************************************************************************)
(* Of the server (Revisions), for any number of writers, drafts and        *)
(* failures: no draft that was once the document is lost, a revision token *)
(* names one text, a guarded write replaces only the text its author read, *)
(* history has no holes, no read-modify-write of meta.json undoes another, *)
(* and all of it implements the abstract Document.  Of the pages (Viewer), *)
(* for any number of them and of overlapping loads: a page step is a step  *)
(* of Revisions or none, and a page shows the text its stamp is of, unless *)
(* a PUT fell between the two fetches of its load.                         *)
(***************************************************************************)
EXTENDS Viewer, TLAPS

Before == {"copy", "copying", "label", "revision"}     \* meta.json is as it was read
After == {"overwrite", "bump", "attribute"} \* the revision has moved on

LEMMA RevisionsSteps ==
  ASSUME [RevisionsNext]_rvars
  PROVE  \/ \E w \in Writers :
              \/ Open(w) \/ Send(w) \/ Refuse(w) \/ Begin(w) \/ OpenCopy(w) \/ FillCopy(w)
              \/ Label(w) \/ WriteRevision(w) \/ Overwrite(w) \/ Bump(w) \/ Attribute(w)
              \/ Fail(w)
         \/ Crash \/ Touch \/ Attach \/ Delete \/ (\E k \in Handlers : Arrive(k))
         \/ UNCHANGED rvars
BY DEF RevisionsNext, PutStep, Elsewhere

LEMMA TouchType ==
  ASSUME meta \in Meta, touches \in Nat, TouchUnlocked
  PROVE  meta' \in Meta /\ touches' \in Nat
<1>1. CASE dir
  <2>1. meta' = [meta EXCEPT !.there = TRUE, !.other = @ + 1] /\ touches' = touches + 1
    BY <1>1 DEF TouchUnlocked
  <2>2. meta' = [there |-> TRUE, rev |-> meta.rev, su |-> meta.su, by |-> meta.by,
                 other |-> meta.other + 1]
    BY <2>1 DEF Meta
  <2>3. meta.rev \in Nat /\ meta.su \in Nat /\ meta.by \in Planes /\ meta.other + 1 \in Nat
    BY DEF Meta
  <2>4. meta' \in Meta
    BY <2>2, <2>3 DEF Meta
  <2> QED BY <2>1, <2>4
<1>2. CASE ~dir
  BY <1>2 DEF TouchUnlocked
<1> QED BY <1>1, <1>2

LEMMA DeleteType ==
  ASSUME RevisionsTypeOK, Delete
  PROVE  /\ meta' \in Meta /\ source' \in Texts \cup {NoText} /\ dir' \in BOOLEAN
         /\ copies' \subseteq copies /\ labels' \subseteq labels
         /\ waiting' \subseteq waiting /\ failures' \in Nat
<1>1. NoMeta \in Meta
  BY DEF Meta, NoMeta, Planes
<1>2. meta' \in Meta /\ source' \in Texts \cup {NoText} /\ dir' \in BOOLEAN
  BY <1>1 DEF Delete, RevisionsTypeOK
<1>3. copies' \subseteq copies /\ labels' \subseteq labels /\ waiting' \subseteq waiting
  BY DEF Delete
<1>4. failures' \in Nat
  BY DEF Delete, RevisionsTypeOK
<1> QED BY <1>2, <1>3, <1>4

LEMMA RevisionsTypeStep ==
  ASSUME RevisionsTypeOK, [RevisionsNext]_rvars
  PROVE  RevisionsTypeOK'
<1> USE RevisionsAssumption DEF RevisionsTypeOK, Steps, Goto, disk, ghosts
<1>1. ASSUME NEW w \in Writers, Open(w) PROVE RevisionsTypeOK'
  BY <1>1 DEF Open, Meta
<1>2. ASSUME NEW w \in Writers, Send(w) PROVE RevisionsTypeOK'
  <2>1. texts + 1 \in Texts
    BY <1>2 DEF Send, Texts
  <2>2. Plane(w) \in Planes
    BY DEF Plane, Planes
  <2>3. PICK g \in BOOLEAN : put' = [put EXCEPT ![w] = [text |-> texts + 1, guarded |-> g]]
    BY <1>2 DEF Send
  <2>4. put' \in [Writers -> [text : Texts, guarded : BOOLEAN]]
    BY <2>1, <2>3
  <2>5. author' \in [Texts -> Planes]
    BY <1>2, <2>2 DEF Send
  <2> QED BY <1>2, <2>1, <2>4, <2>5 DEF Send
<1>3. ASSUME NEW w \in Writers, Refuse(w) PROVE RevisionsTypeOK'
  BY <1>3 DEF Refuse
<1>4. ASSUME NEW w \in Writers, Begin(w) PROVE RevisionsTypeOK'
  BY <1>4 DEF Begin
<1>5. ASSUME NEW w \in Writers, OpenCopy(w) \/ FillCopy(w) PROVE RevisionsTypeOK'
  <2>1. held[w].rev \in Nat
    BY DEF Meta
  <2>2. copies' \subseteq [n : Nat, text : Texts \cup {Torn}]
    BY <1>5, <2>1 DEF OpenCopy, FillCopy, Recopy
  <2> QED BY <1>5, <2>2 DEF OpenCopy, FillCopy
<1>6. ASSUME NEW w \in Writers, Label(w) PROVE RevisionsTypeOK'
  <2>1. held[w].rev \in Nat /\ held[w].by \in Planes
    BY DEF Meta
  <2>2. labels' \subseteq [n : Nat, by : Planes]
    BY <1>6, <2>1 DEF Label
  <2> QED BY <1>6, <2>2 DEF Label
<1>7. ASSUME NEW w \in Writers, WriteRevision(w) PROVE RevisionsTypeOK'
  <2>1. held[w] \in Meta
    OBVIOUS
  <2>2. meta' = [held[w] EXCEPT !.rev = @ + 1, !.there = TRUE]
    BY <1>7 DEF WriteRevision
  <2>3. meta' = [there |-> TRUE, rev |-> held[w].rev + 1, su |-> held[w].su,
                by |-> held[w].by, other |-> held[w].other]
    BY <2>1, <2>2 DEF Meta
  <2>4. meta' \in Meta
    BY <2>1, <2>3 DEF Meta
  <2> QED BY <1>7, <2>4 DEF WriteRevision
<1>8. ASSUME NEW w \in Writers, Overwrite(w) PROVE RevisionsTypeOK'
  BY <1>8 DEF Overwrite
<1>9. ASSUME NEW w \in Writers, Bump(w) PROVE RevisionsTypeOK'
  <2>1. meta' \in Meta
    BY <1>9 DEF Bump, Meta
  <2> QED BY <1>9, <2>1 DEF Bump
<1>10. ASSUME NEW w \in Writers, Attribute(w) PROVE RevisionsTypeOK'
  <2>1. meta' \in Meta
    BY <1>10 DEF Attribute, Meta, Plane, Planes
  <2> QED BY <1>10, <2>1 DEF Attribute
<1>11. ASSUME NEW w \in Writers, Fail(w) PROVE RevisionsTypeOK'
  BY <1>11 DEF Fail
<1>12. CASE Crash
  BY <1>12 DEF Crash
<1>13. CASE Touch
  BY <1>13, TouchType DEF Touch, TouchUnlocked
<1>14. CASE Delete
  BY <1>14, DeleteType DEF Delete
<1>15. CASE Attach \/ \E k \in Handlers : Arrive(k)
  BY <1>15 DEF Attach, Arrive
<1>16. CASE UNCHANGED rvars
  BY <1>16 DEF rvars
<1> QED BY <1>1, <1>2, <1>3, <1>4, <1>5, <1>6, <1>7, <1>8, <1>9, <1>10, <1>11,
           <1>12, <1>13, <1>14, <1>15, <1>16, RevisionsSteps

LEMMA RevisionsTypeInit == RevisionsInit => RevisionsTypeOK
<1> SUFFICES ASSUME RevisionsInit PROVE RevisionsTypeOK
  OBVIOUS
<1>1. meta \in Meta /\ NoMeta \in Meta
  BY DEF RevisionsInit, Meta, NoMeta, Planes
<1>2. 0 \in Texts
  BY RevisionsAssumption DEF Texts
<1> QED BY <1>1, <1>2 DEF RevisionsInit, RevisionsTypeOK, Planes

(* The files of a review and the requests on it keep their types. *)
THEOREM RevisionsTypeCorrect == RevisionsSpec => []RevisionsTypeOK
BY RevisionsTypeInit, RevisionsTypeStep, PTL DEF RevisionsSpec

----------------------------------------------------------------------------
(* The store lock: its holder, and only its holder, is inside a PUT, and   *)
(* until the new revision is written meta.json is what the PUT has read.   *)
LockHeld == \A w \in Writers : pc[w] \in Steps <=> lock = w
MetaUnmoved == \A w \in Writers : pc[w] \in Before => held[w] = meta
LockInv == RevisionsTypeOK /\ LockHeld /\ MetaUnmoved

LEMMA LockStep ==
  ASSUME LockInv, [RevisionsNext]_rvars
  PROVE  LockInv'
<1>0. RevisionsTypeOK'
  BY RevisionsTypeStep DEF LockInv
<1> SUFFICES LockHeld' /\ MetaUnmoved'
  BY <1>0 DEF LockInv
<1> USE RevisionsAssumption
    DEF LockInv, RevisionsTypeOK, LockHeld, MetaUnmoved, Steps, Before, Goto, disk, ghosts
<1>1. ASSUME NEW w \in Writers, Open(w) PROVE LockHeld' /\ MetaUnmoved'
  BY <1>1 DEF Open
<1>2. ASSUME NEW w \in Writers, Send(w) PROVE LockHeld' /\ MetaUnmoved'
  BY <1>2 DEF Send
<1>3. ASSUME NEW w \in Writers, Refuse(w) PROVE LockHeld' /\ MetaUnmoved'
  BY <1>3 DEF Refuse
<1>4. ASSUME NEW w \in Writers, Begin(w) PROVE LockHeld' /\ MetaUnmoved'
  BY <1>4 DEF Begin
<1>5. ASSUME NEW w \in Writers, OpenCopy(w) \/ FillCopy(w) PROVE LockHeld' /\ MetaUnmoved'
  BY <1>5 DEF OpenCopy, FillCopy
<1>6. ASSUME NEW w \in Writers, Label(w) PROVE LockHeld' /\ MetaUnmoved'
  BY <1>6 DEF Label
<1>7. ASSUME NEW w \in Writers, WriteRevision(w) PROVE LockHeld' /\ MetaUnmoved'
  BY <1>7 DEF WriteRevision
<1>8. ASSUME NEW w \in Writers, Overwrite(w) PROVE LockHeld' /\ MetaUnmoved'
  BY <1>8 DEF Overwrite
<1>9. ASSUME NEW w \in Writers, Bump(w) PROVE LockHeld' /\ MetaUnmoved'
  BY <1>9 DEF Bump
<1>10. ASSUME NEW w \in Writers, Attribute(w) PROVE LockHeld' /\ MetaUnmoved'
  BY <1>10 DEF Attribute
<1>11. ASSUME NEW w \in Writers, Fail(w) PROVE LockHeld' /\ MetaUnmoved'
  BY <1>11 DEF Fail
<1>12. CASE Crash
  BY <1>12 DEF Crash
<1>13. CASE Touch
  BY <1>13 DEF Touch, TouchUnlocked
<1>14. CASE Delete
  BY <1>14 DEF Delete
<1>15. CASE Attach \/ \E k \in Handlers : Arrive(k)
  BY <1>15 DEF Attach, Arrive
<1>16. CASE UNCHANGED rvars
  BY <1>16 DEF rvars
<1> QED BY <1>1, <1>2, <1>3, <1>4, <1>5, <1>6, <1>7, <1>8, <1>9, <1>10, <1>11,
           <1>12, <1>13, <1>14, <1>15, <1>16, RevisionsSteps

LEMMA LockInit == RevisionsInit => LockInv
BY RevisionsTypeInit, RevisionsAssumption
   DEF RevisionsInit, LockInv, LockHeld, MetaUnmoved, Steps, Before

----------------------------------------------------------------------------
(* The round that is being archived: from the end of the copy until the    *)
(* text is overwritten, the outgoing text, and no other, is in it.  A copy *)
(* that is torn is of a round the revision has not moved past.             *)
DraftCopied ==
  \A w \in Writers :
    source # NoText =>
      /\ pc[w] \in {"label", "revision"} =>
           /\ [n |-> meta.rev, text |-> source] \in copies
           /\ \A c \in copies : c.n = meta.rev => c.text = source
      /\ pc[w] = "overwrite" => [n |-> meta.rev - 1, text |-> source] \in copies

DraftsKept == written \subseteq {source} \cup {c.text : c \in History}

ArchiveInv == LockInv /\ DraftCopied /\ DraftsKept

(* A step that leaves the files and the archiving of a round alone. *)
LEMMA ArchiveQuiet ==
  ASSUME ArchiveInv, LockInv', UNCHANGED <<copies, source, written>>,
         meta'.rev = meta.rev,
         \A w \in Writers :
           /\ pc'[w] \in {"label", "revision"} => pc[w] \in {"label", "revision"}
           /\ pc'[w] = "overwrite" => pc[w] = "overwrite"
  PROVE  ArchiveInv'
<1>1. History' = History
  BY DEF History
<1> QED BY <1>1 DEF ArchiveInv, DraftCopied, DraftsKept

(* What happens to a round that the revision has not moved past leaves     *)
(* those behind it alone.                                                  *)
LEMMA RecopyKeepsHistory ==
  ASSUME NEW w \in Writers, NEW text, held[w] = meta, meta.rev \in Nat,
         copies' = Recopy(held[w].rev, text), meta' = meta
  PROVE  History' = History
<1>1. copies' = {c \in copies : c.n # meta.rev} \cup {[n |-> meta.rev, text |-> text]}
  BY DEF Recopy
<1> QED BY <1>1 DEF History

LEMMA ArchiveStep ==
  ASSUME ArchiveInv, [RevisionsNext]_rvars
  PROVE  ArchiveInv'
<1>0. LockInv'
  BY LockStep DEF ArchiveInv
<1> USE <1>0, RevisionsAssumption DEF ArchiveInv, LockInv, RevisionsTypeOK, Goto, disk, ghosts
<1>1. ASSUME NEW w \in Writers, Open(w) PROVE ArchiveInv'
  BY <1>1, ArchiveQuiet DEF Open
<1>2. ASSUME NEW w \in Writers, Send(w) PROVE ArchiveInv'
  BY <1>2, ArchiveQuiet DEF Send
<1>3. ASSUME NEW w \in Writers, Refuse(w) PROVE ArchiveInv'
  BY <1>3, ArchiveQuiet DEF Refuse
<1>4. ASSUME NEW w \in Writers, Begin(w) PROVE ArchiveInv'
  BY <1>4, ArchiveQuiet DEF Begin
<1>5. ASSUME NEW w \in Writers, OpenCopy(w) PROVE ArchiveInv'
  <2>1. \A v \in Writers \ {w} : pc[v] \notin Steps
    BY <1>5 DEF OpenCopy, LockHeld, Steps
  <2>2. /\ UNCHANGED <<meta, source, written>>
        /\ \A v \in Writers \ {w} : pc'[v] = pc[v]
    BY <1>5 DEF OpenCopy
  <2>3. CASE source = NoText
    <3>1. copies' = copies
      BY <1>5, <2>3 DEF OpenCopy
    <3>2. History' = History
      BY <2>2, <3>1 DEF History
    <3> QED BY <2>2, <2>3, <3>2 DEF DraftCopied, DraftsKept
  <2>4. CASE source # NoText
    <3>1. copies' = Recopy(held[w].rev, Torn) /\ pc'[w] = "copying"
      BY <1>5, <2>4 DEF OpenCopy
    <3>2. held[w] = meta /\ meta.rev \in Nat
      BY <1>5 DEF OpenCopy, MetaUnmoved, Before, Meta
    <3>3. History' = History
      BY <2>2, <3>1, <3>2, RecopyKeepsHistory
    <3>4. DraftCopied'
      BY <2>1, <2>2, <3>1 DEF DraftCopied, Steps
    <3> QED BY <2>2, <3>3, <3>4 DEF DraftsKept
  <2> QED BY <2>3, <2>4
<1>6. ASSUME NEW w \in Writers, FillCopy(w) PROVE ArchiveInv'
  <2>1. \A v \in Writers \ {w} : pc[v] \notin Steps
    BY <1>6 DEF FillCopy, LockHeld, Steps
  <2>2. /\ UNCHANGED <<meta, source, written>> /\ pc'[w] = "label"
        /\ \A v \in Writers \ {w} : pc'[v] = pc[v]
        /\ copies' = Recopy(held[w].rev, source)
    BY <1>6 DEF FillCopy
  <2>0. held[w] = meta /\ meta.rev \in Nat
    BY <1>6 DEF FillCopy, MetaUnmoved, Before, Meta
  <2>3. History' = History
    BY <2>0, <2>2, RecopyKeepsHistory
  <2>4. copies' = {c \in copies : c.n # meta.rev} \cup {[n |-> meta.rev, text |-> source]}
    BY <2>0, <2>2 DEF Recopy
  <2>5. DraftCopied'
    BY <2>1, <2>2, <2>4 DEF DraftCopied, Steps
  <2> QED BY <2>2, <2>3, <2>5 DEF DraftsKept
<1>7. ASSUME NEW w \in Writers, Label(w) PROVE ArchiveInv'
  BY <1>7, ArchiveQuiet DEF Label
<1>8. ASSUME NEW w \in Writers, WriteRevision(w) PROVE ArchiveInv'
  <2>1. held[w] = meta /\ \A v \in Writers \ {w} : pc[v] \notin Steps
    BY <1>8 DEF WriteRevision, MetaUnmoved, LockHeld, Steps, Before
  <2>2. meta.rev \in Nat /\ meta'.rev = meta.rev + 1
    BY <1>8, <2>1 DEF WriteRevision, Meta
  <2>3. /\ UNCHANGED <<copies, source, written>>
        /\ pc'[w] = "overwrite" /\ \A v \in Writers \ {w} : pc'[v] = pc[v]
    BY <1>8 DEF WriteRevision
  <2>4. History \subseteq History'
    BY <2>2, <2>3 DEF History
  <2>5. DraftsKept'
    BY <2>3, <2>4 DEF DraftsKept
  <2>6. source # NoText => [n |-> meta'.rev - 1, text |-> source] \in copies
    BY <1>8, <2>2 DEF DraftCopied, WriteRevision
  <2>7. DraftCopied'
    BY <2>1, <2>3, <2>6 DEF DraftCopied, Steps
  <2> QED BY <2>5, <2>7
<1>9. ASSUME NEW w \in Writers, Overwrite(w) PROVE ArchiveInv'
  <2>1. \A v \in Writers \ {w} : pc[v] \notin Steps
    BY <1>9 DEF Overwrite, LockHeld, Steps
  <2>2. /\ UNCHANGED <<meta, copies>> /\ source' = put[w].text
        /\ written' = written \cup {put[w].text}
        /\ pc'[w] = "bump" /\ \A v \in Writers \ {w} : pc'[v] = pc[v]
    BY <1>9 DEF Overwrite
  <2>3. source # NoText => source \in {c.text : c \in History}
    <3> DEFINE d == [n |-> meta.rev - 1, text |-> source]
    <3>1. SUFFICES ASSUME source # NoText PROVE d \in History /\ d.text = source
      OBVIOUS
    <3>2. d \in copies /\ meta.rev - 1 < meta.rev
      BY <1>9, <3>1 DEF DraftCopied, Overwrite, Meta
    <3> QED BY <3>2 DEF History
  <2>4. NoText \notin written
    <3>1. Texts \subseteq Nat
      BY DEF Texts
    <3> QED BY <3>1
  <2>5. History' = History
    BY <2>2 DEF History
  <2>6. DraftsKept'
    BY <2>2, <2>3, <2>4, <2>5 DEF DraftsKept
  <2>7. DraftCopied'
    BY <2>1, <2>2 DEF DraftCopied, Steps
  <2> QED BY <2>6, <2>7
<1>10. ASSUME NEW w \in Writers, Bump(w) \/ Attribute(w) \/ Fail(w) PROVE ArchiveInv'
  BY <1>10, ArchiveQuiet DEF Bump, Attribute, Fail, Meta
<1>11. CASE Crash
  BY <1>11, ArchiveQuiet DEF Crash
<1>12. CASE Touch
  BY <1>12, ArchiveQuiet DEF Touch, TouchUnlocked, Meta
<1>13. CASE Delete
  <2>1. \A w \in Writers : pc[w] \notin Steps
    BY <1>13 DEF Delete, LockHeld
  <2>2. written' = {} /\ pc' = pc
    BY <1>13 DEF Delete
  <2> QED BY <2>1, <2>2 DEF DraftCopied, DraftsKept, Steps
<1>14. CASE Attach \/ \E k \in Handlers : Arrive(k)
  BY <1>14, ArchiveQuiet DEF Attach, Arrive
<1>15. CASE UNCHANGED rvars
  BY <1>15, ArchiveQuiet DEF rvars
<1> QED BY <1>1, <1>2, <1>3, <1>4, <1>5, <1>6, <1>7, <1>8, <1>9, <1>10, <1>11,
           <1>12, <1>13, <1>14, <1>15, RevisionsSteps

LEMMA ArchiveInit == RevisionsInit => ArchiveInv
BY LockInit DEF ArchiveInv, RevisionsInit, DraftCopied, DraftsKept

(* No failure, crash or interleaving of PUTs loses a draft that was once   *)
(* the document: it is in source.md or in a history round.                 *)
THEOREM DraftsSurvive == RevisionsSpec => []NoDraftLost
<1>1. ArchiveInv => NoDraftLost
  BY DEF ArchiveInv, DraftsKept, NoDraftLost, History
<1> QED BY <1>1, ArchiveInit, ArchiveStep, PTL DEF RevisionsSpec

----------------------------------------------------------------------------
(* Tokens: nobody has read a revision that is not there yet, who has read  *)
(* the current one has read the current text, and once a PUT has moved the *)
(* revision on nobody has read it before the new text is in place.         *)
TokensTrue ==
  \A w \in Writers : /\ base[w].rev <= meta.rev
                     /\ base[w].rev = meta.rev => base[w].text = source

TokensBehind ==
  \A v \in Writers : pc[v] \in After => \A w \in Writers : base[w].rev < meta.rev

GuardHolds ==
  \A w \in Writers :
    put[w].guarded =>
      /\ pc[w] \in Before => base[w].rev = meta.rev
      /\ pc[w] = "overwrite" => base[w].text = source

Tokens == ~deleted => TokensTrue /\ TokensBehind /\ GuardHolds

TokenInv == LockInv /\ Tokens

LEMMA TokensQuiet ==
  ASSUME Tokens, UNCHANGED <<source, base, put, deleted>>, meta'.rev = meta.rev,
         \A w \in Writers : pc'[w] \in Steps => pc'[w] = pc[w]
  PROVE  Tokens'
BY DEF Tokens, TokensTrue, TokensBehind, GuardHolds, Before, After, Steps

LEMMA TokensStep ==
  ASSUME TokenInv, [RevisionsNext]_rvars
  PROVE  Tokens'
<1> USE RevisionsAssumption DEF TokenInv, LockInv, RevisionsTypeOK, Goto, disk, ghosts
<1>1. ASSUME NEW w \in Writers, Open(w) PROVE Tokens'
  <2>1. \A v \in Writers : pc[v] \notin Steps
    BY <1>1 DEF Open, LockHeld
  <2>2. /\ base'[w].text = source /\ base'[w].rev = meta.rev
        /\ \A v \in Writers \ {w} : base'[v] = base[v]
        /\ UNCHANGED <<meta, source, put, pc, deleted>>
    BY <1>1 DEF Open
  <2>3. meta.rev <= meta.rev
    BY DEF Meta
  <2> QED BY <2>1, <2>2, <2>3
      DEF Tokens, TokensTrue, TokensBehind, GuardHolds, Before, After, Steps
<1>2. ASSUME NEW w \in Writers, Send(w) PROVE Tokens'
  <2>1. /\ UNCHANGED <<meta, source, base, deleted>>
        /\ pc'[w] = "sent"
        /\ \A v \in Writers \ {w} : pc'[v] = pc[v] /\ put'[v] = put[v]
    BY <1>2 DEF Send
  <2> QED BY <2>1 DEF Tokens, TokensTrue, TokensBehind, GuardHolds, Before, After
<1>3. ASSUME NEW w \in Writers, Refuse(w) PROVE Tokens'
  BY <1>3, TokensQuiet DEF Refuse, Steps
<1>4. ASSUME NEW w \in Writers, Begin(w) PROVE Tokens'
  BY <1>4 DEF Begin, Stale, Tokens, TokensTrue, TokensBehind, GuardHolds, Before, After
<1>5. ASSUME NEW w \in Writers, OpenCopy(w) \/ FillCopy(w) PROVE Tokens'
  BY <1>5 DEF OpenCopy, FillCopy, Tokens, TokensTrue, TokensBehind, GuardHolds, Before, After
<1>6. ASSUME NEW w \in Writers, Label(w) PROVE Tokens'
  BY <1>6 DEF Label, Tokens, TokensTrue, TokensBehind, GuardHolds, Before, After
<1>7. ASSUME NEW w \in Writers, WriteRevision(w) PROVE Tokens'
  <2>1. held[w] = meta /\ \A v \in Writers \ {w} : pc[v] \notin Steps
    BY <1>7 DEF WriteRevision, MetaUnmoved, LockHeld, Steps, Before
  <2>2. meta.rev \in Nat /\ meta'.rev = meta.rev + 1
    BY <1>7, <2>1 DEF WriteRevision, Meta
  <2>3. /\ UNCHANGED <<source, base, put, deleted>>
        /\ pc[w] = "revision" /\ pc'[w] = "overwrite"
        /\ \A v \in Writers \ {w} : pc'[v] = pc[v]
    BY <1>7 DEF WriteRevision
  <2> SUFFICES ASSUME ~deleted
               PROVE  TokensTrue' /\ TokensBehind' /\ GuardHolds'
    BY <2>3 DEF Tokens
  <2>4. \A v \in Writers : base[v].rev < meta'.rev
    <3>1. \A v \in Writers : base[v].rev \in Int /\ base[v].rev <= meta.rev
      BY DEF Tokens, TokensTrue
    <3> QED BY <2>2, <3>1
  <2>5. TokensTrue' /\ TokensBehind'
    <3>1. \A v \in Writers : base[v].rev <= meta'.rev /\ base[v].rev # meta'.rev
      BY <2>2, <2>4
    <3> QED BY <2>3, <2>4, <3>1 DEF TokensTrue, TokensBehind
  <2>6. put[w].guarded => base[w].text = source
    BY <2>3 DEF Tokens, TokensTrue, GuardHolds, Before
  <2>7. GuardHolds'
    BY <2>1, <2>3, <2>6 DEF GuardHolds, Before, Steps
  <2> QED BY <2>5, <2>7
<1>8. ASSUME NEW w \in Writers, Overwrite(w) PROVE Tokens'
  <2>1. \A v \in Writers \ {w} : pc[v] \notin Steps
    BY <1>8 DEF Overwrite, LockHeld, Steps
  <2>2. /\ UNCHANGED <<meta, base, put, deleted>>
        /\ pc[w] = "overwrite" /\ pc'[w] = "bump"
        /\ \A v \in Writers \ {w} : pc'[v] = pc[v]
    BY <1>8 DEF Overwrite
  <2> SUFFICES ASSUME ~deleted
               PROVE  TokensTrue' /\ TokensBehind' /\ GuardHolds'
    BY <2>2 DEF Tokens
  <2>3. \A v \in Writers : base[v].rev < meta.rev
    BY <2>2 DEF Tokens, TokensBehind, After
  <2>4. \A v \in Writers : base[v].rev <= meta.rev /\ base[v].rev # meta.rev
    BY <2>3 DEF Meta
  <2> QED BY <2>1, <2>2, <2>3, <2>4 DEF TokensTrue, TokensBehind, GuardHolds, Before, Steps
<1>9. ASSUME NEW w \in Writers, Bump(w) PROVE Tokens'
  <2>1. meta'.rev = meta.rev
    BY <1>9 DEF Bump, Meta
  <2> QED BY <1>9, <2>1 DEF Bump, Tokens, TokensTrue, TokensBehind, GuardHolds, Before, After
<1>10. ASSUME NEW w \in Writers, Attribute(w) PROVE Tokens'
  BY <1>10, TokensQuiet DEF Attribute, Steps, Meta
<1>11. ASSUME NEW w \in Writers, Fail(w) PROVE Tokens'
  BY <1>11, TokensQuiet DEF Fail, Steps
<1>12. CASE Crash
  BY <1>12, TokensQuiet DEF Crash, Steps
<1>13. CASE Touch
  BY <1>13, TokensQuiet DEF Touch, TouchUnlocked, Meta
<1>14. CASE Delete
  BY <1>14 DEF Delete, Tokens
<1>15. CASE Attach \/ \E k \in Handlers : Arrive(k)
  BY <1>15, TokensQuiet DEF Attach, Arrive
<1>16. CASE UNCHANGED rvars
  BY <1>16, TokensQuiet DEF rvars
<1> QED BY <1>1, <1>2, <1>3, <1>4, <1>5, <1>6, <1>7, <1>8, <1>9, <1>10, <1>11,
           <1>12, <1>13, <1>14, <1>15, <1>16, RevisionsSteps

THEOREM TokenInvariant == RevisionsSpec => []TokenInv
<1>1. RevisionsInit => TokenInv
  <2> SUFFICES ASSUME RevisionsInit PROVE Tokens
    BY LockInit DEF TokenInv
  <2>1. \A w \in Writers : base[w].rev = -1 /\ ~put[w].guarded /\ pc[w] = "idle"
    BY DEF RevisionsInit
  <2>2. meta.rev = 0
    BY DEF RevisionsInit
  <2> QED BY <2>1, <2>2 DEF Tokens, TokensTrue, TokensBehind, GuardHolds, After
<1>2. TokenInv /\ [RevisionsNext]_rvars => TokenInv'
  BY TokensStep, LockStep DEF TokenInv
<1> QED BY <1>1, <1>2, PTL DEF RevisionsSpec

(* GET /source hands out a token with its own text and never with another. *)
THEOREM TokensNameTheirText == RevisionsSpec => []TokenNamesText
<1>1. TokenInv => TokenNamesText
  BY DEF TokenInv, Tokens, TokensTrue, TokenNamesText
<1> QED BY <1>1, TokenInvariant, PTL

(* The compare-and-overwrite is atomic: a PUT that carries a revision only *)
(* ever replaces the text its author has read, wherever others were cut    *)
(* short.                                                                  *)
THEOREM GuardedWritesReplaceWhatWasRead == RevisionsSpec => []GuardedWriteSawText
<1>1. TokenInv => GuardedWriteSawText
  BY DEF TokenInv, Tokens, GuardHolds, GuardedWriteSawText
<1> QED BY <1>1, TokenInvariant, PTL

----------------------------------------------------------------------------
(* History: a round is whole before the revision moves past it.            *)
Copied(n) == \E c \in copies : c.n = n /\ c.text # Torn
Labelled(n) == \E l \in labels : l.n = n

RoundsWhole ==
  ~deleted =>
    /\ source # NoText
    /\ \A n \in 0 .. meta.rev - 1 : Copied(n) /\ Labelled(n)
    /\ \A w \in Writers : /\ pc[w] \in {"label", "revision"} => Copied(meta.rev)
                          /\ pc[w] = "revision" => Labelled(meta.rev)

HistoryInv == LockInv /\ RoundsWhole

LEMMA RoundsQuiet ==
  ASSUME RoundsWhole, UNCHANGED <<source, copies, labels, deleted>>, meta'.rev = meta.rev,
         \A w \in Writers : pc'[w] \in {"label", "revision"} => pc'[w] = pc[w]
  PROVE  RoundsWhole'
BY DEF RoundsWhole, Copied, Labelled

LEMMA RoundsStep ==
  ASSUME HistoryInv, [RevisionsNext]_rvars
  PROVE  RoundsWhole'
<1> USE RevisionsAssumption DEF HistoryInv, LockInv, RevisionsTypeOK, Goto, disk, ghosts
<1>1. ASSUME NEW w \in Writers, Open(w) PROVE RoundsWhole'
  BY <1>1, RoundsQuiet DEF Open
<1>2. ASSUME NEW w \in Writers, Send(w) PROVE RoundsWhole'
  BY <1>2, RoundsQuiet DEF Send
<1>3. ASSUME NEW w \in Writers, Refuse(w) PROVE RoundsWhole'
  BY <1>3, RoundsQuiet DEF Refuse
<1>4. ASSUME NEW w \in Writers, Begin(w) PROVE RoundsWhole'
  BY <1>4, RoundsQuiet DEF Begin
<1>5. ASSUME NEW w \in Writers, OpenCopy(w) \/ FillCopy(w) PROVE RoundsWhole'
  <2>1. held[w] = meta /\ \A v \in Writers \ {w} : pc[v] \notin Steps
    BY <1>5 DEF OpenCopy, FillCopy, MetaUnmoved, LockHeld, Steps, Before
  <2>2. /\ UNCHANGED <<meta, source, labels, deleted>>
        /\ \A v \in Writers \ {w} : pc'[v] = pc[v]
    BY <1>5 DEF OpenCopy, FillCopy
  <2> SUFFICES ASSUME ~deleted, source # NoText
               PROVE  /\ \A n \in 0 .. meta.rev - 1 : Copied(n)'
                      /\ pc'[w] # "copying" => pc'[w] = "label" /\ Copied(meta.rev)'
    BY <2>1, <2>2 DEF RoundsWhole, Labelled, Steps
  <2>3. \/ pc'[w] = "copying" /\ copies' = Recopy(meta.rev, Torn)
        \/ pc'[w] = "label" /\ copies' = Recopy(meta.rev, source)
    BY <1>5, <2>1 DEF OpenCopy, FillCopy
  <2>4. pc'[w] # "copying" => pc'[w] = "label" /\ \E c \in copies' : c.n = meta.rev /\ c.text # Torn
    <3>1. [n |-> meta.rev, text |-> source] \in Recopy(meta.rev, source)
      BY DEF Recopy
    <3>2. source \in Nat
      BY DEF Texts
    <3> QED BY <2>3, <3>1, <3>2
  <2>5. ASSUME NEW c \in copies, c.n # meta.rev PROVE c \in copies'
    BY <2>3, <2>5 DEF Recopy
  <2>6. \A n \in 0 .. meta.rev - 1 :
          \E c \in copies : c.n = n /\ c.text # Torn /\ n # meta.rev
    BY DEF RoundsWhole, Copied, Meta
  <2> QED BY <2>2, <2>4, <2>5, <2>6 DEF Copied
<1>6. ASSUME NEW w \in Writers, Label(w) PROVE RoundsWhole'
  <2>1. held[w] = meta /\ \A v \in Writers \ {w} : pc[v] \notin Steps
    BY <1>6 DEF Label, MetaUnmoved, LockHeld, Steps, Before
  <2>2. /\ UNCHANGED <<meta, source, copies, deleted>>
        /\ pc[w] = "label" /\ pc'[w] = "revision"
        /\ \A v \in Writers \ {w} : pc'[v] = pc[v]
    BY <1>6 DEF Label
  <2>3. labels' = {l \in labels : l.n # meta.rev} \cup {[n |-> meta.rev, by |-> meta.by]}
    BY <1>6, <2>1 DEF Label
  <2> SUFFICES ASSUME ~deleted
               PROVE  /\ \A n \in 0 .. meta.rev - 1 : Labelled(n)'
                      /\ Labelled(meta.rev)'
    BY <2>1, <2>2 DEF RoundsWhole, Copied, Steps
  <2>4. \E l \in labels' : l.n = meta.rev
    <3>1. [n |-> meta.rev, by |-> meta.by] \in labels'
      BY <2>3
    <3>2. [n |-> meta.rev, by |-> meta.by].n = meta.rev
      OBVIOUS
    <3> QED BY <3>1, <3>2
  <2>5. ASSUME NEW l \in labels, l.n # meta.rev PROVE l \in labels'
    BY <2>3, <2>5
  <2>6. \A n \in 0 .. meta.rev - 1 : \E l \in labels : l.n = n /\ n # meta.rev
    BY DEF RoundsWhole, Labelled, Meta
  <2> QED BY <2>2, <2>4, <2>5, <2>6 DEF Labelled
<1>7. ASSUME NEW w \in Writers, WriteRevision(w) PROVE RoundsWhole'
  <2>1. held[w] = meta /\ \A v \in Writers \ {w} : pc[v] \notin Steps
    BY <1>7 DEF WriteRevision, MetaUnmoved, LockHeld, Steps, Before
  <2>2. meta.rev \in Nat /\ meta'.rev = meta.rev + 1
    BY <1>7, <2>1 DEF WriteRevision, Meta
  <2>3. /\ UNCHANGED <<source, copies, labels, deleted>>
        /\ pc[w] = "revision" /\ pc'[w] = "overwrite"
        /\ \A v \in Writers \ {w} : pc'[v] = pc[v]
    BY <1>7 DEF WriteRevision
  <2>4. \A n : (Copied(n)' <=> Copied(n)) /\ (Labelled(n)' <=> Labelled(n))
    BY <2>3 DEF Copied, Labelled
  <2>5. ASSUME NEW n \in 0 .. meta'.rev - 1
        PROVE  n \in 0 .. meta.rev - 1 \/ n = meta.rev
    <3> DEFINE k == meta.rev
    <3>1. k \in Nat /\ n \in 0 .. (k + 1) - 1
      BY <2>2
    <3> HIDE DEF k
    <3>2. n \in 0 .. k - 1 \/ n = k
      BY <3>1
    <3> QED BY <3>2 DEF k
  <2> QED BY <2>1, <2>3, <2>4, <2>5 DEF RoundsWhole, Steps
<1>8. ASSUME NEW w \in Writers, Overwrite(w) PROVE RoundsWhole'
  <2>1. put[w].text # NoText
    <3>1. put[w].text \in Nat
      BY DEF Texts
    <3> QED BY <3>1
  <2> QED BY <1>8, <2>1 DEF Overwrite, RoundsWhole, Copied, Labelled
<1>9. ASSUME NEW w \in Writers, Bump(w) PROVE RoundsWhole'
  BY <1>9, RoundsQuiet DEF Bump, Meta
<1>10. ASSUME NEW w \in Writers, Attribute(w) PROVE RoundsWhole'
  BY <1>10, RoundsQuiet DEF Attribute, Meta
<1>11. ASSUME NEW w \in Writers, Fail(w) PROVE RoundsWhole'
  BY <1>11, RoundsQuiet DEF Fail
<1>12. CASE Crash
  BY <1>12, RoundsQuiet DEF Crash
<1>13. CASE Touch
  BY <1>13, RoundsQuiet DEF Touch, TouchUnlocked, Meta
<1>14. CASE Delete
  BY <1>14 DEF Delete, RoundsWhole
<1>15. CASE Attach \/ \E k \in Handlers : Arrive(k)
  BY <1>15, RoundsQuiet DEF Attach, Arrive
<1>16. CASE UNCHANGED rvars
  BY <1>16, RoundsQuiet DEF rvars
<1> QED BY <1>1, <1>2, <1>3, <1>4, <1>5, <1>6, <1>7, <1>8, <1>9, <1>10, <1>11,
           <1>12, <1>13, <1>14, <1>15, <1>16, RevisionsSteps

LEMMA HistoryInvariant == RevisionsSpec => []HistoryInv
<1>1. RevisionsInit => HistoryInv
  BY LockInit, RevisionsAssumption DEF RevisionsInit, HistoryInv, RoundsWhole
<1>2. HistoryInv /\ [RevisionsNext]_rvars => HistoryInv'
  BY RoundsStep, LockStep DEF HistoryInv
<1> QED BY <1>1, <1>2, PTL DEF RevisionsSpec

(* Every round below the revision has its whole text and its round.json: a *)
(* PUT that is cut short, in the middle of the copy included, leaves a     *)
(* round that is not yet in history, not a hole.                           *)
THEOREM HistoryHasNoHoles == RevisionsSpec => []RoundsComplete
<1>1. HistoryInv => RoundsComplete
  BY DEF HistoryInv, RoundsWhole, RoundsComplete, Copied, Labelled
<1> QED BY <1>1, HistoryInvariant, PTL

----------------------------------------------------------------------------
LEMMA MetaFieldsStep ==
  ASSUME LockInv, MetaFieldsKept, [RevisionsNext]_rvars
  PROVE  MetaFieldsKept'
<1> USE DEF LockInv, RevisionsTypeOK, MetaFieldsKept, disk, ghosts
<1>1. ASSUME NEW w \in Writers,
             \/ Open(w) \/ Send(w) \/ Refuse(w) \/ Begin(w) \/ OpenCopy(w) \/ FillCopy(w)
             \/ Label(w) \/ Overwrite(w) \/ Fail(w)
      PROVE  MetaFieldsKept'
  BY <1>1 DEF Open, Send, Refuse, Begin, OpenCopy, FillCopy, Label, Overwrite, Fail
<1>2. ASSUME NEW w \in Writers, WriteRevision(w) PROVE MetaFieldsKept'
  <2>1. held[w] = meta
    BY <1>2 DEF WriteRevision, MetaUnmoved, Before
  <2> QED BY <1>2, <2>1 DEF WriteRevision, Meta
<1>3. ASSUME NEW w \in Writers, Bump(w) \/ Attribute(w) PROVE MetaFieldsKept'
  BY <1>3 DEF Bump, Attribute, Meta
<1>4. CASE Crash
  BY <1>4 DEF Crash
<1>5. CASE Touch
  BY <1>5 DEF Touch, TouchUnlocked, Meta
<1>6. CASE Delete
  BY <1>6 DEF Delete
<1>7. CASE Attach \/ \E k \in Handlers : Arrive(k)
  BY <1>7 DEF Attach, Arrive
<1>8. CASE UNCHANGED rvars
  BY <1>8 DEF rvars
<1> QED BY <1>1, <1>2, <1>3, <1>4, <1>5, <1>6, <1>7, <1>8, RevisionsSteps

(* No other handler's write of meta.json is undone by a PUT, whose copy of *)
(* it is two files old when it writes it back.                             *)
THEOREM MetaWritesSurvive == RevisionsSpec => []MetaFieldsKept
<1>1. RevisionsInit => LockInv /\ MetaFieldsKept
  BY LockInit DEF RevisionsInit, MetaFieldsKept
<1>2. LockInv /\ MetaFieldsKept /\ [RevisionsNext]_rvars => (LockInv /\ MetaFieldsKept)'
  BY LockStep, MetaFieldsStep
<1> QED BY <1>1, <1>2, PTL DEF RevisionsSpec

----------------------------------------------------------------------------
(* Attribution: while no PUT has been cut short, meta.json names the author*)
(* of source.md except between the overwrite and the end of a PUT, whose   *)
(* round is closed by then.                                                *)
DraftsKnown ==
  /\ source \in 0 .. texts
  /\ \A c \in History : c.text \in 0 .. texts
  /\ \A w \in Writers :
       pc[w] # "idle" => put[w].text \in 0 .. texts /\ author[put[w].text] = Plane(w)

SourceAuthor ==
  /\ \A w \in Writers : pc[w] \in {"bump", "attribute"} => author[source] = Plane(w)
  /\ (\A w \in Writers : pc[w] \notin {"bump", "attribute"}) => meta.by = author[source]

LabelsBehind ==
  /\ \A l \in labels : l.n <= meta.rev /\ (l.n = meta.rev => l.by = meta.by)
  /\ \A w \in Writers : pc[w] \in After => \A l \in labels : l.n < meta.rev

Authors == failures = 0 /\ ~deleted =>
             DraftsKnown /\ SourceAuthor /\ LabelsBehind /\ RoundsTrueAuthor

AuthorInv == ArchiveInv /\ Authors

LEMMA AuthorsQuiet ==
  ASSUME Authors, UNCHANGED <<source, History, labels, texts, author, put, deleted, failures>>,
         meta'.rev = meta.rev, meta'.by = meta.by,
         \A w \in Writers : \/ pc'[w] = pc[w]
                            \/ pc[w] = "sent" /\ pc'[w] \in {"idle", "copy"}
                            \/ pc[w] \in Before /\ pc'[w] \in Before
  PROVE  Authors'
<1>1. RoundsTrueAuthor => RoundsTrueAuthor'
  BY DEF RoundsTrueAuthor, History
<1>2. \A w \in Writers : /\ pc'[w] \in After <=> pc[w] \in After
                         /\ pc'[w] # "idle" => pc[w] # "idle"
                         /\ pc'[w] \in {"bump", "attribute"} <=> pc[w] \in {"bump", "attribute"}
  BY DEF Before, After
<1> QED BY <1>1, <1>2 DEF Authors, DraftsKnown, SourceAuthor, LabelsBehind

LEMMA Neighbours ==
  ASSUME NEW m \in Nat, NEW n \in Nat
  PROVE  (m < n + 1 => m < n \/ m = n) /\ (m <= n => m < n \/ m = n)
OBVIOUS

LEMMA AuthorsStep ==
  ASSUME AuthorInv, [RevisionsNext]_rvars
  PROVE  Authors'
<1> USE RevisionsAssumption
    DEF AuthorInv, ArchiveInv, LockInv, RevisionsTypeOK, Goto, disk, ghosts
<1>1. ASSUME NEW w \in Writers, Open(w) PROVE Authors'
  BY <1>1, AuthorsQuiet DEF Open, History
<1>2. ASSUME NEW w \in Writers, Send(w) PROVE Authors'
  <2>1. /\ UNCHANGED <<meta, source, copies, labels, failures, deleted>>
        /\ pc'[w] = "sent" /\ put'[w].text = texts + 1
        /\ \A v \in Writers \ {w} : pc'[v] = pc[v] /\ put'[v] = put[v]
        /\ pc[w] = "idle"
    BY <1>2 DEF Send
  <2>2. texts' = texts + 1 /\ texts \in Nat /\ texts + 1 \in Texts
    BY <1>2 DEF Send, Texts
  <2>3. author' = [author EXCEPT ![texts + 1] = Plane(w)]
    BY <1>2 DEF Send
  <2>4. author'[texts + 1] = Plane(w) /\ \A t \in 0 .. texts : author'[t] = author[t]
    <3>1. \A t \in 0 .. texts : t \in Texts /\ t # texts + 1
      BY <2>2 DEF Texts
    <3> QED BY <2>2, <2>3, <3>1
  <2>5. 0 .. texts \subseteq 0 .. texts + 1 /\ texts + 1 \in 0 .. texts + 1
    BY <2>2
  <2> SUFFICES ASSUME failures = 0, ~deleted
               PROVE  DraftsKnown' /\ SourceAuthor' /\ LabelsBehind' /\ RoundsTrueAuthor'
    BY <2>1 DEF Authors
  <2>0. History' = History
    BY <2>1 DEF History
  <2>6. DraftsKnown'
    BY <2>0, <2>1, <2>2, <2>4, <2>5 DEF Authors, DraftsKnown
  <2>7. SourceAuthor' /\ LabelsBehind'
    BY <2>1, <2>4 DEF Authors, DraftsKnown, SourceAuthor, LabelsBehind, After
  <2>8. RoundsTrueAuthor'
    BY <2>1, <2>4 DEF Authors, DraftsKnown, RoundsTrueAuthor, History
  <2> QED BY <2>6, <2>7, <2>8
<1>3. ASSUME NEW w \in Writers, Refuse(w) PROVE Authors'
  BY <1>3, AuthorsQuiet DEF Refuse, History
<1>4. ASSUME NEW w \in Writers, Begin(w) PROVE Authors'
  BY <1>4, AuthorsQuiet DEF Begin, History
<1>5. ASSUME NEW w \in Writers, OpenCopy(w) \/ FillCopy(w) PROVE Authors'
  <2>1. /\ UNCHANGED <<meta, source, labels, put, texts, author, failures, deleted>>
        /\ pc[w] \in Before /\ pc'[w] \in Before
        /\ \A v \in Writers \ {w} : pc'[v] = pc[v]
    BY <1>5 DEF OpenCopy, FillCopy, Before
  <2>2. \/ copies' = copies
        \/ \E text \in {Torn, source} : copies' = Recopy(held[w].rev, text)
    BY <1>5 DEF OpenCopy, FillCopy
  <2>3. held[w] = meta /\ meta.rev \in Nat
    BY <2>1 DEF MetaUnmoved, Meta
  <2>4. CASE copies' = copies
    <3>1. History' = History
      BY <2>1, <2>4 DEF History
    <3> QED BY <2>1, <3>1, AuthorsQuiet
  <2>5. CASE \E text \in {Torn, source} : copies' = Recopy(held[w].rev, text)
    <3>1. History' = History
      BY <2>1, <2>3, <2>5, RecopyKeepsHistory
    <3> QED BY <2>1, <3>1, AuthorsQuiet
  <2> QED BY <2>2, <2>4, <2>5
<1>6. ASSUME NEW w \in Writers, Label(w) PROVE Authors'
  <2>1. held[w] = meta /\ \A v \in Writers \ {w} : pc[v] \notin Steps
    BY <1>6 DEF Label, MetaUnmoved, LockHeld, Steps, Before
  <2>2. /\ UNCHANGED <<meta, source, copies, put, texts, author, failures, deleted>>
        /\ pc[w] = "label" /\ pc'[w] = "revision"
        /\ \A v \in Writers \ {w} : pc'[v] = pc[v]
    BY <1>6 DEF Label
  <2> SUFFICES ASSUME failures = 0, ~deleted
               PROVE  DraftsKnown' /\ SourceAuthor' /\ LabelsBehind' /\ RoundsTrueAuthor'
    BY <2>2 DEF Authors
  <2>3. ASSUME NEW l \in labels'
        PROVE  l \in labels \/ (l.n = meta.rev /\ l.by = meta.by)
    BY <1>6, <2>1 DEF Label
  <2>4. DraftsKnown' /\ SourceAuthor'
    BY <2>2 DEF Authors, DraftsKnown, SourceAuthor, History
  <2>5. LabelsBehind'
    <3>1. \A v \in Writers : pc'[v] \notin After
      BY <2>1, <2>2 DEF After, Steps
    <3> QED BY <2>2, <2>3, <3>1 DEF Authors, LabelsBehind, Meta
  <2>6. RoundsTrueAuthor'
    <3> SUFFICES ASSUME NEW c \in copies', NEW l \in labels', c.n = l.n, c.n < meta.rev
                 PROVE  l.by = author[c.text]
      BY <2>2 DEF RoundsTrueAuthor
    <3>1. c.n # meta.rev
      BY DEF Meta
    <3> QED BY <2>2, <2>3, <3>1 DEF Authors, RoundsTrueAuthor
  <2> QED BY <2>4, <2>5, <2>6
<1>7. ASSUME NEW w \in Writers, WriteRevision(w) PROVE Authors'
  <2>1. held[w] = meta /\ \A v \in Writers \ {w} : pc[v] \notin Steps
    BY <1>7 DEF WriteRevision, MetaUnmoved, LockHeld, Steps, Before
  <2>2. meta.rev \in Nat /\ meta'.rev = meta.rev + 1 /\ meta'.by = meta.by
    BY <1>7, <2>1 DEF WriteRevision, Meta
  <2>3. /\ UNCHANGED <<source, copies, labels, put, texts, author, failures, deleted>>
        /\ pc[w] = "revision" /\ pc'[w] = "overwrite"
        /\ \A v \in Writers \ {w} : pc'[v] = pc[v]
    BY <1>7 DEF WriteRevision
  <2> SUFFICES ASSUME failures = 0, ~deleted
               PROVE  DraftsKnown' /\ SourceAuthor' /\ LabelsBehind' /\ RoundsTrueAuthor'
    BY <2>3 DEF Authors
  <2>0. source # NoText
    <3>1. source \in 0 .. texts /\ texts \in Nat
      BY DEF Authors, DraftsKnown, Texts
    <3> QED BY <3>1
  <2>4. DraftsKnown' /\ SourceAuthor'
    <3>1. \A c \in History' : c \in History \/ c.text = source
      <4>1. ASSUME NEW c \in copies PROVE c.n \in Nat
        OBVIOUS
      <4>2. ASSUME NEW c \in copies, c.n < meta'.rev PROVE c.n < meta.rev \/ c.n = meta.rev
        <5>1. c.n \in Nat
          BY <4>1
        <5>2. c.n < meta.rev + 1
          BY <2>2, <4>2
        <5> QED BY <2>2, <5>1, <5>2, Neighbours
      <4>3. \A c \in copies : c.n = meta.rev => c.text = source
        BY <2>0, <2>3 DEF DraftCopied
      <4> QED BY <2>3, <4>2, <4>3 DEF History
    <3> QED BY <2>2, <2>3, <3>1 DEF Authors, DraftsKnown, SourceAuthor
  <2>5. \A l \in labels : l.n < meta'.rev /\ l.n <= meta'.rev /\ l.n # meta'.rev
    BY <2>2 DEF Authors, LabelsBehind
  <2>6. LabelsBehind'
    BY <2>3, <2>5 DEF LabelsBehind
  <2>7. meta.by = author[source]
    BY <2>1, <2>3 DEF Authors, SourceAuthor, Steps
  <2>8. ASSUME NEW c \in copies, NEW l \in labels, c.n = l.n
        PROVE  l.by = author[c.text]
    <3>1. c.n \in Nat /\ l.n <= meta.rev
      BY DEF Authors, LabelsBehind
    <3>2. CASE c.n = meta.rev
      <4>1. c.text = source
        BY <2>0, <2>3, <3>2 DEF DraftCopied
      <4> QED BY <2>7, <2>8, <3>2, <4>1 DEF Authors, LabelsBehind
    <3>3. CASE c.n < meta.rev
      BY <2>8, <3>3 DEF Authors, RoundsTrueAuthor
    <3>4. c.n < meta.rev \/ c.n = meta.rev
      BY <2>2, <2>8, <3>1, Neighbours
    <3> QED BY <3>2, <3>3, <3>4
  <2>9. RoundsTrueAuthor'
    BY <2>3, <2>8 DEF RoundsTrueAuthor
  <2> QED BY <2>4, <2>6, <2>9
<1>8. ASSUME NEW w \in Writers, Overwrite(w) PROVE Authors'
  <2>1. \A v \in Writers \ {w} : pc[v] \notin Steps
    BY <1>8 DEF Overwrite, LockHeld, Steps
  <2>2. /\ UNCHANGED <<meta, copies, labels, put, texts, author, failures, deleted>>
        /\ source' = put[w].text
        /\ pc[w] = "overwrite" /\ pc'[w] = "bump"
        /\ \A v \in Writers \ {w} : pc'[v] = pc[v]
    BY <1>8 DEF Overwrite
  <2> SUFFICES ASSUME failures = 0, ~deleted
               PROVE  DraftsKnown' /\ SourceAuthor' /\ LabelsBehind' /\ RoundsTrueAuthor'
    BY <2>2 DEF Authors
  <2>3. DraftsKnown'
    BY <2>2 DEF Authors, DraftsKnown, History
  <2>4. SourceAuthor'
    BY <2>1, <2>2 DEF Authors, DraftsKnown, SourceAuthor, Steps
  <2>5. LabelsBehind' /\ RoundsTrueAuthor'
    BY <2>2 DEF Authors, LabelsBehind, RoundsTrueAuthor, After
  <2> QED BY <2>3, <2>4, <2>5
<1>9. ASSUME NEW w \in Writers, Bump(w) PROVE Authors'
  <2>1. meta'.rev = meta.rev /\ meta'.by = meta.by
    BY <1>9 DEF Bump, Meta
  <2> QED BY <1>9, <2>1 DEF Bump, Authors, DraftsKnown, SourceAuthor, LabelsBehind,
                            RoundsTrueAuthor, After, History
<1>10. ASSUME NEW w \in Writers, Attribute(w) PROVE Authors'
  <2>1. \A v \in Writers \ {w} : pc[v] \notin Steps
    BY <1>10 DEF Attribute, LockHeld, Steps
  <2>2. /\ UNCHANGED <<source, copies, labels, put, texts, author, failures, deleted>>
        /\ meta'.rev = meta.rev /\ meta'.by = Plane(w)
        /\ pc[w] = "attribute" /\ pc'[w] = "idle"
        /\ \A v \in Writers \ {w} : pc'[v] = pc[v]
    BY <1>10 DEF Attribute, Meta
  <2> SUFFICES ASSUME failures = 0, ~deleted
               PROVE  DraftsKnown' /\ SourceAuthor' /\ LabelsBehind' /\ RoundsTrueAuthor'
    BY <2>2 DEF Authors
  <2>3. DraftsKnown' /\ SourceAuthor' /\ RoundsTrueAuthor'
    BY <2>1, <2>2 DEF Authors, DraftsKnown, SourceAuthor, RoundsTrueAuthor, Steps, History
  <2>4. \A l \in labels : l.n <= meta.rev /\ l.n # meta.rev
    BY <2>2 DEF Authors, LabelsBehind, After, Meta
  <2>5. LabelsBehind'
    BY <2>1, <2>2, <2>4 DEF LabelsBehind, After, Steps
  <2> QED BY <2>3, <2>5
<1>11. ASSUME NEW w \in Writers, Fail(w) PROVE Authors'
  BY <1>11 DEF Fail, Authors
<1>12. CASE Crash
  BY <1>12 DEF Crash, Authors
<1>13. CASE Touch
  BY <1>13, AuthorsQuiet DEF Touch, TouchUnlocked, Meta, History
<1>14. CASE Delete
  BY <1>14 DEF Delete, Authors
<1>15. CASE Attach \/ \E k \in Handlers : Arrive(k)
  BY <1>15, AuthorsQuiet DEF Attach, Arrive, History
<1>16. CASE UNCHANGED rvars
  BY <1>16, AuthorsQuiet DEF rvars, History
<1> QED BY <1>1, <1>2, <1>3, <1>4, <1>5, <1>6, <1>7, <1>8, <1>9, <1>10, <1>11,
           <1>12, <1>13, <1>14, <1>15, <1>16, RevisionsSteps

(* As long as no PUT was cut short, round.json names the author of the     *)
(* draft beside it: attribution never slips by one round.                  *)
THEOREM RoundsNameTheirAuthor == RevisionsSpec => []RoundsTrueAuthorUndisturbed
<1>1. RevisionsInit => AuthorInv
  <2> SUFFICES ASSUME RevisionsInit PROVE Authors
    BY ArchiveInit DEF AuthorInv
  <2> QED BY RevisionsAssumption DEF RevisionsInit, Authors, DraftsKnown, SourceAuthor,
             LabelsBehind, RoundsTrueAuthor, After, Texts, History
<1>2. AuthorInv /\ [RevisionsNext]_rvars => AuthorInv'
  BY AuthorsStep, ArchiveStep DEF AuthorInv
<1>3. AuthorInv => RoundsTrueAuthorUndisturbed
  BY DEF AuthorInv, Authors, RoundsTrueAuthorUndisturbed
<1> QED BY <1>1, <1>2, <1>3, PTL DEF RevisionsSpec

----------------------------------------------------------------------------
(* The document: each step of a PUT is one of the abstract document, or    *)
(* none.                                                                   *)
DocumentInv == ArchiveInv /\ TokenInv /\ RoundsWhole

(* Steps that leave the document alone and put no write on its way.        *)
LEMMA Stutters ==
  ASSUME UNCHANGED <<source, History, base, put, deleted>>,
         \A w \in Writers : InFlight(w)' <=> InFlight(w)
  PROVE  UNCHANGED Promise!vars
<1>1. Pending' = Pending
  BY DEF Pending
<1> QED BY <1>1 DEF Promise!vars, Seen

LEMMA Abandons ==
  ASSUME UNCHANGED <<source, History, base, put, deleted>>,
         \A w \in Writers : InFlight(w)' => InFlight(w)
  PROVE  Promise!Next
<1> DEFINE failed == {w \in Writers : InFlight(w) /\ ~InFlight(w)'}
<1>1. Pending' = [w \in Writers |-> IF w \in failed THEN {} ELSE Pending[w]]
  BY DEF Pending
<1>2. failed \in SUBSET Writers
  OBVIOUS
<1> HIDE DEF failed
<1>3. Promise!Abandon
  BY <1>1, <1>2 DEF Promise!Abandon, Seen
<1> QED BY <1>3 DEF Promise!Next

(* The round enters the history with the revision that moves past it.      *)
LEMMA WriteRevisionRefines ==
  ASSUME DocumentInv, NEW w \in Writers, WriteRevision(w), ~deleted
  PROVE  Promise!Next
<1> DEFINE n == meta.rev
           draft == [n |-> meta.rev, text |-> source]
<1>1. held[w] = meta /\ n \in Nat /\ pc[w] = "revision" /\ source # NoText
  BY DEF DocumentInv, ArchiveInv, LockInv, MetaUnmoved, Before, RevisionsTypeOK, Meta,
         WriteRevision, RoundsWhole
<1>2. UNCHANGED <<source, base, put, deleted, copies>> /\ meta'.rev = n + 1
  BY <1>1 DEF WriteRevision, ghosts, DocumentInv, ArchiveInv, LockInv, RevisionsTypeOK, Meta
<1>3. Pending' = Pending /\ Seen' = Seen
  <2>1. \A v \in Writers : InFlight(v)' <=> InFlight(v)
    BY <1>1 DEF WriteRevision, Goto, InFlight, DocumentInv, ArchiveInv, LockInv, RevisionsTypeOK
  <2> QED BY <1>2, <2>1 DEF Pending, Seen
<1>4. /\ draft \in copies
      /\ \A c \in copies : c \in [n : Nat, text : Texts \cup {Torn}] /\ (c.n = n => c = draft)
  BY <1>1 DEF DocumentInv, ArchiveInv, LockInv, RevisionsTypeOK, DraftCopied
<1>5. History' = History \cup {draft}
  <2>1. History' = {c \in copies : c.n < n + 1}
    BY <1>2 DEF History
  <2>2. \A c \in copies : c.n < n + 1 <=> c.n < n \/ c.n = n
    BY <1>1, <1>4
  <2> QED BY <1>4, <2>1, <2>2 DEF History
<1>6. \A d \in History : d.n < draft.n
  BY DEF History
<1>7. Promise!Archive
  BY <1>1, <1>2, <1>3, <1>5, <1>6 DEF Promise!Archive
<1> QED BY <1>7 DEF Promise!Next

LEMMA OverwriteRefines ==
  ASSUME DocumentInv, NEW w \in Writers, Overwrite(w), ~deleted
  PROVE  Promise!Next
<1>1. /\ pc[w] = "overwrite" /\ source' = put[w].text
      /\ UNCHANGED <<meta, copies, base, put, deleted>> /\ pc' = [pc EXCEPT ![w] = "bump"]
  BY DEF Overwrite, Goto
<1>2. pc \in [Writers -> {"idle", "sent"} \cup Steps] /\ meta.rev \in Nat
  BY DEF DocumentInv, ArchiveInv, LockInv, RevisionsTypeOK, Meta
<1>3. Pending[w] = {put[w]}
  BY <1>1 DEF Pending, InFlight
<1>4. Pending' = [Pending EXCEPT ![w] = {}] /\ History' = History
  BY <1>1, <1>2 DEF Pending, InFlight, History
<1>5. Promise!Archived
  <2> DEFINE c == [n |-> meta.rev - 1, text |-> source]
  <2>1. c \in copies
    BY <1>1 DEF DocumentInv, ArchiveInv, DraftCopied, RoundsWhole
  <2>2. \A d \in History : d.n \in Nat /\ d.n < meta.rev
    BY DEF History, DocumentInv, ArchiveInv, LockInv, RevisionsTypeOK
  <2>3. c \in History /\ \A d \in History : d.n <= c.n
    BY <1>2, <2>1, <2>2 DEF History
  <2> QED BY <2>3 DEF Promise!Archived
<1>6. put[w].guarded => base[w].text = source
  BY <1>1 DEF DocumentInv, TokenInv, Tokens, GuardHolds
<1>7. Promise!Write(w)
  BY <1>1, <1>3, <1>4, <1>5, <1>6 DEF Promise!Write, Seen
<1> QED BY <1>7 DEF Promise!Next

LEMMA DocumentStep ==
  ASSUME DocumentInv, [RevisionsNext]_rvars
  PROVE  Promise!Next \/ UNCHANGED Promise!vars
<1>0. /\ base \in [Writers -> [text : Texts \cup {NoText}, rev : Nat \cup {-1}]]
      /\ pc \in [Writers -> {"idle", "sent"} \cup Steps]
      /\ put \in [Writers -> [text : Texts, guarded : BOOLEAN]]
      /\ texts \in Texts /\ meta \in Meta
  BY DEF DocumentInv, ArchiveInv, LockInv, RevisionsTypeOK
<1> USE <1>0 DEF Goto, disk, ghosts
<1> SUFFICES ASSUME ~deleted'
             PROVE  Promise!Next \/ UNCHANGED Promise!vars
  BY DEF Promise!Next, Promise!Forgotten
<1>1. ASSUME NEW w \in Writers, Open(w) PROVE Promise!Next
  <2>1. Seen' = [Seen EXCEPT ![w] = source]
    BY <1>1 DEF Open, Seen
  <2>2. Pending' = Pending /\ History' = History
    BY <1>1 DEF Open, Pending, InFlight, History
  <2>3. Promise!Read(w)
    BY <1>1, <2>1, <2>2 DEF Open, Promise!Read
  <2> QED BY <2>3 DEF Promise!Next
<1>2. ASSUME NEW w \in Writers, Send(w) PROVE Promise!Next
  <2>1. PICK guarded \in BOOLEAN :
          put' = [put EXCEPT ![w] = [text |-> texts + 1, guarded |-> guarded]]
    BY <1>2 DEF Send
  <2>2. texts + 1 \in Texts /\ pc[w] = "idle" /\ pc' = [pc EXCEPT ![w] = "sent"]
    BY <1>2, RevisionsAssumption DEF Send, Texts
  <2>3. Pending[w] = {}
    BY <2>2 DEF Pending, InFlight
  <2>4. Pending' = [Pending EXCEPT ![w] = {[text |-> texts + 1, guarded |-> guarded]}]
    BY <2>1, <2>2 DEF Pending, InFlight
  <2>5. Promise!Submit(w)
    BY <1>2, <2>2, <2>3, <2>4 DEF Send, Seen, Promise!Submit, History
  <2> QED BY <2>5 DEF Promise!Next
<1>3. ASSUME NEW w \in Writers, Refuse(w) \/ Fail(w) PROVE Promise!Next
  BY <1>3, Abandons DEF Refuse, Fail, InFlight, History
<1>4. ASSUME NEW w \in Writers, Begin(w) \/ Label(w) \/ Bump(w) \/ Attribute(w)
      PROVE UNCHANGED Promise!vars
  BY <1>4, Stutters DEF Begin, Label, Bump, Attribute, InFlight, History, Meta
<1>5. ASSUME NEW w \in Writers, OpenCopy(w) \/ FillCopy(w) PROVE UNCHANGED Promise!vars
  <2>1. /\ UNCHANGED <<meta, source, base, put, deleted>> /\ pc[w] \in Before
        /\ \A v \in Writers : InFlight(v)' <=> InFlight(v)
    BY <1>5 DEF OpenCopy, FillCopy, Before, InFlight
  <2>2. \/ copies' = copies
        \/ \E text \in {Torn, source} : copies' = Recopy(held[w].rev, text)
    BY <1>5 DEF OpenCopy, FillCopy
  <2>3. held[w] = meta /\ meta.rev \in Nat
    BY <2>1 DEF MetaUnmoved, Meta, DocumentInv, ArchiveInv, LockInv
  <2>4. CASE copies' = copies
    BY <2>1, <2>4, Stutters DEF History
  <2>5. CASE \E text \in {Torn, source} : copies' = Recopy(held[w].rev, text)
    <3>1. History' = History
      BY <2>1, <2>3, <2>5, RecopyKeepsHistory
    <3> QED BY <2>1, <3>1, Stutters
  <2> QED BY <2>2, <2>4, <2>5
<1>6. ASSUME NEW w \in Writers, WriteRevision(w) \/ Overwrite(w) PROVE Promise!Next
  <2>1. ~deleted
    BY <1>6 DEF WriteRevision, Overwrite
  <2> QED BY <1>6, <2>1, WriteRevisionRefines, OverwriteRefines
<1>7. CASE Crash
  BY <1>7, Abandons DEF Crash, InFlight, History
<1>8. CASE Touch
  BY <1>8, Stutters DEF Touch, TouchUnlocked, InFlight, History, Meta
<1>9. CASE Attach \/ \E k \in Handlers : Arrive(k)
  BY <1>9, Stutters DEF Attach, Arrive, InFlight, History
<1>10. CASE Delete
  BY <1>10 DEF Delete
<1>11. CASE UNCHANGED rvars
  BY <1>11, Stutters DEF rvars, InFlight, History
<1> QED BY <1>1, <1>2, <1>3, <1>4, <1>5, <1>6, <1>7, <1>8, <1>9, <1>10, <1>11,
           RevisionsSteps

(* put_source, with its five writes and its copy in place, its failures    *)
(* and its crashes, implements the document until the review is deleted: a *)
(* PUT takes effect at one instant or not at all, what it replaces is by   *)
(* then the last round of an append-only history, and a PUT with a         *)
(* revision replaces only what its author read.                            *)
THEOREM RevisionsImplementDocument == RevisionsSpec => ImplementsDocument
<1>1. RevisionsInit => Promise!Init
  <2> SUFFICES ASSUME RevisionsInit PROVE Promise!Init
    OBVIOUS
  <2>1. 0 \in Texts
    BY RevisionsAssumption DEF Texts
  <2>2. Seen = [w \in Writers |-> NoText] /\ Pending = [w \in Writers |-> {}]
    BY DEF RevisionsInit, Seen, Pending, InFlight
  <2>3. History = {}
    BY DEF RevisionsInit, History
  <2> QED BY <2>1, <2>2, <2>3 DEF RevisionsInit, Promise!Init
<1>2. DocumentInv /\ [RevisionsNext]_rvars => [Promise!Next]_(Promise!vars)
  BY DocumentStep
<1>3. RevisionsSpec => []ArchiveInv
  BY ArchiveInit, ArchiveStep, PTL DEF RevisionsSpec
<1>4. RevisionsSpec => []DocumentInv
  BY <1>3, TokenInvariant, HistoryInvariant, PTL DEF DocumentInv, HistoryInv
<1> QED BY <1>1, <1>2, <1>4, PTL DEF RevisionsSpec, ImplementsDocument, Promise!Spec

(* meta.json is there while its revision has moved on and the PUT goes on, *)
(* and when it is not there it reads as revision 0.                        *)
Absent == /\ \A w \in Writers : pc[w] \in After => meta.there
          /\ ~meta.there => meta = NoMeta

LEMMA AbsentStep ==
  ASSUME LockInv, Absent, [RevisionsNext]_rvars
  PROVE  Absent'
<1> USE RevisionsAssumption DEF LockInv, RevisionsTypeOK, Absent, Goto, disk, ghosts, After
<1>1. ASSUME NEW w \in Writers,
             \/ Open(w) \/ Send(w) \/ Refuse(w) \/ Begin(w) \/ OpenCopy(w) \/ FillCopy(w)
             \/ Label(w) \/ Overwrite(w) \/ Fail(w)
      PROVE  Absent'
  BY <1>1 DEF Open, Send, Refuse, Begin, OpenCopy, FillCopy, Label, Overwrite, Fail
<1>2. ASSUME NEW w \in Writers, WriteRevision(w) PROVE Absent'
  BY <1>2 DEF WriteRevision, Meta
<1>3. ASSUME NEW w \in Writers, Bump(w) \/ Attribute(w) PROVE Absent'
  <2>1. meta.there
    BY <1>3 DEF Bump, Attribute
  <2>2. meta'.there
    BY <1>3, <2>1 DEF Bump, Attribute, Meta
  <2> QED BY <2>2
<1>4. CASE Crash
  BY <1>4 DEF Crash
<1>5. CASE Touch
  BY <1>5 DEF Touch, TouchUnlocked, Meta
<1>6. CASE Delete
  <2>1. \A w \in Writers : pc'[w] \notin After
    BY <1>6 DEF Delete, LockHeld, Steps
  <2> QED BY <1>6, <2>1 DEF Delete
<1>7. CASE Attach \/ \E k \in Handlers : Arrive(k)
  BY <1>7 DEF Attach, Arrive
<1>8. CASE UNCHANGED rvars
  BY <1>8 DEF rvars
<1> QED BY <1>1, <1>2, <1>3, <1>4, <1>5, <1>6, <1>7, <1>8, RevisionsSteps

(* A deleted review stays deleted, for any writers, crashes and failures,  *)
(* once nothing waits for the lock that passed its checks before the       *)
(* DELETE and can still write: no PUT that the revision of a new review    *)
(* does not refuse, and no write of meta.json with a directory to write in *)
(* or a request before it that makes one.                                  *)
THEOREM DeletedStaysGoneForGood == RevisionsSpec => DeletedForGood
<1>1. ASSUME RevisionsTypeOK, Absent, Gone, [RevisionsNext]_rvars PROVE Gone'
  <2> USE <1>1 DEF Gone, Goto, disk, ghosts, RevisionsTypeOK
  <2>1. ASSUME NEW w \in Writers, Open(w) \/ Send(w) \/ Begin(w) PROVE FALSE
    BY <2>1 DEF Open, Send, Begin
  <2>2. ASSUME NEW w \in Writers,
               \/ OpenCopy(w) \/ FillCopy(w) \/ Label(w) \/ WriteRevision(w) \/ Overwrite(w)
               \/ Bump(w) \/ Attribute(w) \/ Fail(w)
        PROVE  FALSE
    BY <2>2 DEF OpenCopy, FillCopy, Label, WriteRevision, Overwrite, Bump, Attribute, Fail, Steps
  <2>3. ASSUME NEW w \in Writers, Refuse(w) PROVE Gone'
    BY <2>3 DEF Refuse, Stale
  <2>4. CASE Crash
    BY <2>4 DEF Crash, Stale
  <2>5. CASE Touch
    BY <2>5 DEF Touch, TouchUnlocked, Stale
  <2>6. CASE Delete
    <3>1. meta' = meta /\ (dir' => dir)
      BY <2>6 DEF Delete, Absent
    <3> QED BY <2>6, <3>1 DEF Delete, Stale
  <2>7. CASE Attach \/ \E k \in Handlers : Arrive(k)
    BY <2>7 DEF Attach, Arrive, Stale
  <2>8. CASE UNCHANGED rvars
    BY <2>8 DEF rvars, Stale
  <2> QED BY <2>1, <2>2, <2>3, <2>4, <2>5, <2>6, <2>7, <2>8, RevisionsSteps
<1>2. LockInv /\ Absent /\ [RevisionsNext]_rvars => [Gone => Gone']_rvars
  BY <1>1 DEF LockInv
<1>3. RevisionsInit => LockInv /\ Absent
  BY LockInit DEF RevisionsInit, Absent, After
<1>4. LockInv /\ Absent /\ [RevisionsNext]_rvars => (LockInv /\ Absent)'
  BY LockStep, AbsentStep
<1> QED BY <1>2, <1>3, <1>4, PTL DEF RevisionsSpec, DeletedForGood

-----------------------------------------------------------------------------
(* The pages. *)

(* The one place that lists what a step of the pages and the server is.    *)
LEMMA ViewerSteps ==
  ASSUME [ViewerNext]_vvars
  PROVE  \/ \E w \in Writers : PutStep(w) /\ UNCHANGED pagevars
         \/ \E a \in Agents : Send(a) /\ UNCHANGED pagevars
         \/ Elsewhere /\ UNCHANGED pagevars
         \/ \E w \in Writers : BumpSeen(w) \/ AgentDone(w)
         \/ \E p \in Pages :
              \/ Poll(p) \/ Gesture(p) \/ OpenEditor(p) \/ KeepEditing(p) \/ Cancel(p)
              \/ Save(p) \/ Saved(p) \/ NotSaved(p)
              \/ \E c \in chains[p] :
                   Decide(p, c) \/ LoadText(p, c) \/ LoadStamp(p, c) \/ Paint(p, c) \/ Lose(p, c)
         \/ UNCHANGED vvars
BY DEF ViewerNext, ServerStep, PageStep

LEMMA StepImplements ==
  ASSUME [ViewerNext]_vvars
  PROVE  [RevisionsNext]_rvars
<1>1. Agents \subseteq Writers /\ Pages \subseteq Writers
  BY DEF Writers, Pages
<1>2. ASSUME NEW w \in Writers, PutStep(w) PROVE RevisionsNext
  BY <1>2 DEF RevisionsNext
<1>3. ASSUME NEW w \in Writers, Send(w) PROVE RevisionsNext
  BY <1>3 DEF RevisionsNext
<1>4. ASSUME NEW w \in Writers, BumpSeen(w) \/ AgentDone(w) PROVE RevisionsNext
  BY <1>4 DEF RevisionsNext, BumpSeen, AgentDone
<1>5. ASSUME NEW p \in Pages, OpenEditor(p) \/ Save(p) \/ Saved(p) \/ NotSaved(p)
      PROVE RevisionsNext
  BY <1>1, <1>5 DEF RevisionsNext, OpenEditor, Save, Saved, NotSaved
<1>6. ASSUME NEW p \in Pages, Poll(p) \/ Gesture(p) \/ KeepEditing(p) \/ Cancel(p)
      PROVE UNCHANGED rvars
  BY <1>6 DEF Poll, Gesture, KeepEditing, Cancel
<1>7. ASSUME NEW p \in Pages, NEW c \in chains[p],
             Decide(p, c) \/ LoadText(p, c) \/ LoadStamp(p, c) \/ Paint(p, c) \/ Lose(p, c)
      PROVE UNCHANGED rvars
  BY <1>7 DEF Decide, LoadText, LoadStamp, Paint, Lose
<1>8. ASSUME Elsewhere PROVE RevisionsNext
  BY <1>8 DEF RevisionsNext
<1>9. ASSUME UNCHANGED vvars PROVE UNCHANGED rvars
  BY <1>9 DEF vvars
<1> QED BY <1>1, <1>2, <1>3, <1>4, <1>5, <1>6, <1>7, <1>8, <1>9, ViewerSteps

(* The pages are clients of the server of Revisions: whatever they do is a *)
(* behaviour of it, so that its theorems hold beside them.                 *)
THEOREM ViewerImplementsRevisions == ViewerSafety => RevisionsSpec
<1>1. ViewerInit => RevisionsInit
  BY DEF ViewerInit
<1> QED BY <1>1, StepImplements, PTL DEF ViewerSafety, RevisionsSpec

----------------------------------------------------------------------------
LEMMA BecomesEffect ==
  ASSUME ViewerTypeOK, NEW p \in Pages, NEW c, NEW new \in SUBSET Chain, Becomes(p, c, new)
  PROVE  /\ chains' \in [Pages -> SUBSET Chain]
         /\ \A q \in Pages : chains'[q] \subseteq chains[q] \cup new
BY DEF ViewerTypeOK, Becomes

LEMMA LoadType == Load \in Chain
BY DEF Load, Chain

LEMMA ChainUpdates ==
  ASSUME NEW c \in Chain, NEW text \in Texts \cup {NoText}, NEW su \in Nat
  PROVE  /\ [c EXCEPT !.crossed = TRUE] \in Chain
         /\ [c EXCEPT !.stage = "stamp", !.text = text] \in Chain
         /\ [c EXCEPT !.stage = "paint", !.su = su] \in Chain
         /\ [c EXCEPT !.stage = "paint"] \in Chain
BY DEF Chain

LEMMA ViewerTypeStep ==
  ASSUME RevisionsTypeOK, ViewerTypeOK, [ViewerNext]_vvars
  PROVE  ViewerTypeOK'
<1> USE DEF ViewerTypeOK
<1>0. \A p \in Pages : chains[p] \subseteq Chain
  OBVIOUS
<1>1. meta.su \in Nat /\ meta.rev \in Nat /\ source \in Texts \cup {NoText}
  BY DEF RevisionsTypeOK, Meta
<1>2. ASSUME UNCHANGED pagevars PROVE ViewerTypeOK'
  BY <1>2 DEF pagevars
<1>3. ASSUME NEW w \in Writers, BumpSeen(w) PROVE ViewerTypeOK'
  <2>1. ASSUME NEW p \in Pages, NEW c \in chains[p] PROVE [c EXCEPT !.crossed = TRUE] \in Chain
    BY <1>0, <1>1, ChainUpdates, Zenon
  <2>2. \A p \in Pages : {IF c.stage = "stamp" THEN [c EXCEPT !.crossed = TRUE] ELSE c :
                           c \in chains[p]} \in SUBSET Chain
    BY <2>1
  <2>3. chains' \in [Pages -> SUBSET Chain]
    BY <1>3, <2>2, Zenon DEF BumpSeen
  <2> QED BY <1>3, <2>3 DEF BumpSeen
<1>4. ASSUME NEW w \in Writers, AgentDone(w) PROVE ViewerTypeOK'
  BY <1>2, <1>4 DEF AgentDone
<1>5. ASSUME NEW p \in Pages, Poll(p) PROVE ViewerTypeOK'
  <2>1. [Load EXCEPT !.stage = "polled", !.su = meta.su,
                     !.rev = IF meta.there THEN meta.rev ELSE -1] \in Chain
    BY <1>1 DEF Load, Chain
  <2> QED BY <1>5, <2>1 DEF Poll
<1>6. ASSUME NEW p \in Pages, OpenEditor(p) \/ Gesture(p) PROVE ViewerTypeOK'
  BY <1>6 DEF OpenEditor, Gesture
<1>7. ASSUME NEW p \in Pages, KeepEditing(p) PROVE ViewerTypeOK'
  BY <1>7 DEF KeepEditing
<1>8. ASSUME NEW p \in Pages, Cancel(p) PROVE ViewerTypeOK'
  BY <1>8 DEF Cancel, CloseEditor
<1>9. ASSUME NEW p \in Pages, Save(p) PROVE ViewerTypeOK'
  BY <1>2, <1>9 DEF Save
<1>10. ASSUME NEW p \in Pages, Saved(p) PROVE ViewerTypeOK'
  BY <1>10, LoadType DEF Saved, CloseEditor
<1>11. ASSUME NEW p \in Pages, NotSaved(p) PROVE ViewerTypeOK'
  BY <1>1, <1>11 DEF NotSaved
<1>12. ASSUME NEW p \in Pages, NEW c \in chains[p], Decide(p, c) PROVE ViewerTypeOK'
  <2>1. c \in Chain
    OBVIOUS
  <2>2. PICK new \in {{}, {Load}} : Becomes(p, c, new)
    BY <1>12 DEF Decide
  <2>3. chains' \in [Pages -> SUBSET Chain]
    BY <2>2, LoadType, BecomesEffect
  <2>4. notice' \in [Pages -> Nat \cup {-1}]
    BY <1>12, <2>1 DEF Decide, Chain
  <2> QED BY <1>12, <2>3, <2>4 DEF Decide
<1>13. ASSUME NEW p \in Pages, NEW c \in chains[p], LoadText(p, c) PROVE ViewerTypeOK'
  <2>1. [c EXCEPT !.stage = "stamp", !.text = source] \in Chain
    BY <1>0, <1>1, ChainUpdates, Zenon
  <2>2. PICK d \in Chain : Becomes(p, c, {d})
    BY <1>13, <2>1, Zenon DEF LoadText
  <2>3. chains' \in [Pages -> SUBSET Chain]
    BY <2>2, BecomesEffect
  <2> QED BY <1>13, <2>3 DEF LoadText
<1>14. ASSUME NEW p \in Pages, NEW c \in chains[p], LoadStamp(p, c) PROVE ViewerTypeOK'
  <2>1. [c EXCEPT !.stage = "paint", !.su = meta.su] \in Chain
    BY <1>0, <1>1, ChainUpdates, Zenon
  <2>2. PICK d \in Chain : Becomes(p, c, {d})
    BY <1>14, <2>1, Zenon DEF LoadStamp
  <2>3. chains' \in [Pages -> SUBSET Chain]
    BY <2>2, BecomesEffect
  <2> QED BY <1>14, <2>3 DEF LoadStamp
<1>15. ASSUME NEW p \in Pages, NEW c \in chains[p], Paint(p, c) PROVE ViewerTypeOK'
  <2>1. c.text \in Texts \cup {NoText} /\ c.su \in Nat /\ c.crossed \in BOOLEAN
    BY DEF Chain
  <2>2. chains' \in [Pages -> SUBSET Chain]
    BY <1>15, BecomesEffect DEF Paint
  <2> QED BY <1>15, <2>1, <2>2 DEF Paint
<1>16. ASSUME NEW p \in Pages, NEW c \in chains[p], Lose(p, c) PROVE ViewerTypeOK'
  <2>1. /\ [c EXCEPT !.stage = "paint"] \in Chain
        /\ [c EXCEPT !.stage = "stamp", !.text = NoText] \in Chain
    <3>1. NoText \in Texts \cup {NoText}
      OBVIOUS
    <3> QED BY <1>0, <3>1, ChainUpdates, Zenon
  <2>2. PICK new \in {{}, {[c EXCEPT !.stage = "paint"]},
                      {[c EXCEPT !.stage = "stamp", !.text = NoText]}} : Becomes(p, c, new)
    BY <1>16 DEF Lose
  <2>3. chains' \in [Pages -> SUBSET Chain]
    BY <2>1, <2>2, BecomesEffect
  <2> QED BY <1>16, <2>3 DEF Lose
<1>17. ASSUME UNCHANGED vvars PROVE ViewerTypeOK'
  BY <1>2, <1>17 DEF vvars
<1> QED BY <1>2, <1>3, <1>4, <1>5, <1>6, <1>7, <1>8, <1>9, <1>10, <1>11, <1>12, <1>13,
           <1>14, <1>15, <1>16, <1>17, ViewerSteps

LEMMA ViewerTypeInit == ViewerInit => ViewerTypeOK
<1> SUFFICES ASSUME ViewerInit PROVE ViewerTypeOK
  OBVIOUS
<1>1. RevisionsTypeOK
  BY RevisionsTypeInit DEF ViewerInit
<1>2. meta.su \in Nat /\ source \in Texts \cup {NoText}
  BY <1>1 DEF RevisionsTypeOK, Meta
<1> QED BY <1>2 DEF ViewerInit, ViewerTypeOK

(* What a page keeps, and the requests it has under way, keep their types. *)
THEOREM ViewerTypeCorrect == ViewerSafety => []ViewerTypeOK
<1>1. ViewerInit => RevisionsTypeOK /\ ViewerTypeOK
  BY ViewerTypeInit, RevisionsTypeInit DEF ViewerInit
<1>2. RevisionsTypeOK /\ ViewerTypeOK /\ [ViewerNext]_vvars => (RevisionsTypeOK /\ ViewerTypeOK)'
  BY ViewerTypeStep, RevisionsTypeStep, StepImplements
<1> QED BY <1>1, <1>2, PTL DEF ViewerSafety

----------------------------------------------------------------------------
(* The stamp in meta.json is of the text in source.md. *)
Stamped == \A w \in Writers : pc[w] # "bump"

StampsBehind == /\ meta.su >= 1
                /\ \A p \in Pages : lastSrc[p] <= meta.su
                /\ \A p \in Pages : \A c \in chains[p] : c.su <= meta.su

PageTrue(p) == ~crossed[p] /\ lastSrc[p] = meta.su => Shows(shown[p])

(* What a load has fetched is the document, if its stamp is the last. *)
LoadTrue(c) ==
  ~c.crossed /\ (c.stage = "stamp" \/ (c.stage = "paint" /\ c.su = meta.su)) => Shows(c.text)

PagesTrue ==
  StampsBehind /\ (Stamped => \A p \in Pages : PageTrue(p) /\ \A c \in chains[p] : LoadTrue(c))

Undisturbed == failures = 0 /\ ~deleted

PageInv == LockInv /\ ViewerTypeOK /\ (Undisturbed => PagesTrue)

(* A step of the server that is not a stamp: the stamp is where it was,    *)
(* and if it is of the text after the step, it was before.                 *)
StampKept == meta'.su = meta.su /\ (Stamped' => Stamped /\ source' = source)

LEMMA Disturbances ==
  ASSUME RevisionsTypeOK, [RevisionsNext]_rvars, Undisturbed'
  PROVE  Undisturbed /\ ~Crash /\ ~Delete /\ \A w \in Writers : ~Fail(w)
<1> USE DEF Undisturbed, RevisionsTypeOK, ghosts
<1>1. \A w \in Writers : ~Fail(w)
  BY DEF Fail
<1>2. ~Crash /\ ~Delete
  BY DEF Crash, Delete
<1>3. ASSUME NEW w \in Writers, WriteRevision(w) PROVE UNCHANGED <<failures, deleted>>
  BY <1>3, Zenon DEF WriteRevision
<1>4. Undisturbed
  BY <1>1, <1>2, <1>3, RevisionsSteps
     DEF Open, Send, Refuse, Begin, OpenCopy, FillCopy, Label, Overwrite, Bump,
         Attribute, Touch, TouchUnlocked, Attach, Arrive, rvars
<1> QED BY <1>1, <1>2, <1>4

LEMMA ServerKeepsStamp ==
  ASSUME LockInv, Undisturbed',
         \/ \E w \in Writers : Open(w) \/ Send(w) \/ Refuse(w) \/ PutStep(w) \/ Attribute(w)
         \/ Elsewhere \/ UNCHANGED rvars
  PROVE  StampKept
<1>0. RevisionsTypeOK /\ [RevisionsNext]_rvars
  BY DEF LockInv, RevisionsNext
<1> USE DEF LockInv, RevisionsTypeOK, Stamped, StampKept, Goto, disk, ghosts
<1>1. ASSUME NEW w \in Writers, Open(w) PROVE StampKept
  BY <1>1 DEF Open
<1>2. ASSUME NEW w \in Writers, Send(w) PROVE StampKept
  BY <1>2 DEF Send
<1>3. ASSUME NEW w \in Writers, Refuse(w) PROVE StampKept
  BY <1>3 DEF Refuse
<1>4. ASSUME NEW w \in Writers, Begin(w) PROVE StampKept
  BY <1>4 DEF Begin
<1>5. ASSUME NEW w \in Writers, OpenCopy(w) \/ FillCopy(w) PROVE StampKept
  BY <1>5 DEF OpenCopy, FillCopy
<1>6. ASSUME NEW w \in Writers, Label(w) PROVE StampKept
  BY <1>6 DEF Label
<1>7. ASSUME NEW w \in Writers, WriteRevision(w) PROVE StampKept
  <2>1. held[w] = meta
    BY <1>7 DEF WriteRevision, MetaUnmoved, Before
  <2>2. meta'.su = meta.su
    BY <1>7, <2>1 DEF WriteRevision, Meta
  <2> QED BY <1>7, <2>2 DEF WriteRevision
<1>8. ASSUME NEW w \in Writers, Overwrite(w) PROVE StampKept
  BY <1>8 DEF Overwrite
<1>9. ASSUME NEW w \in Writers, Attribute(w) PROVE StampKept
  <2>1. meta'.su = meta.su
    BY <1>9 DEF Attribute, Meta
  <2> QED BY <1>9, <2>1 DEF Attribute
<1>10. CASE Touch
  <2>1. meta'.su = meta.su
    BY <1>10 DEF Touch, TouchUnlocked, Meta
  <2> QED BY <1>10, <2>1 DEF Touch, TouchUnlocked
<1>11. CASE Attach \/ \E k \in Handlers : Arrive(k)
  BY <1>11 DEF Attach, Arrive
<1>12. CASE UNCHANGED rvars
  BY <1>12 DEF rvars
<1> QED BY <1>0, <1>1, <1>2, <1>3, <1>4, <1>5, <1>6, <1>7, <1>8, <1>9, <1>10, <1>11, <1>12,
           Disturbances DEF PutStep, Elsewhere

(* A step that keeps the stamp, paints nothing, and only adds requests     *)
(* that are true.                                                          *)
LEMMA PagesQuiet ==
  ASSUME PagesTrue, StampKept, lost > 0 => lost' > 0, UNCHANGED <<shown, lastSrc, crossed>>,
         \A p \in Pages : \A c \in chains'[p] :
           c \in chains[p] \/ (c.su <= meta.su /\ (Stamped => LoadTrue(c)))
  PROVE  PagesTrue'
<1>1. StampsBehind'
  BY DEF PagesTrue, StampsBehind, StampKept
<1>2. ASSUME Stamped', NEW p \in Pages PROVE PageTrue(p)'
  BY <1>2 DEF PagesTrue, PageTrue, StampKept, Shows
<1>3. ASSUME Stamped', NEW p \in Pages, NEW c \in chains'[p] PROVE LoadTrue(c)'
  <2>1. LoadTrue(c)
    BY <1>3 DEF PagesTrue, StampKept
  <2> QED BY <1>3, <2>1 DEF LoadTrue, StampKept, Shows
<1> QED BY <1>1, <1>2, <1>3 DEF PagesTrue

LEMMA LossesCount ==
  ASSUME ViewerTypeOK, [ViewerNext]_vvars
  PROVE  lost > 0 => lost' > 0
<1>1. lost \in Nat
  BY DEF ViewerTypeOK
<1>2. ASSUME UNCHANGED pagevars \/ UNCHANGED vvars PROVE UNCHANGED lost
  BY <1>2 DEF pagevars, vvars
<1>3. ASSUME NEW w \in Writers, BumpSeen(w) \/ AgentDone(w) PROVE UNCHANGED lost
  BY <1>2, <1>3 DEF BumpSeen, AgentDone
<1>4. ASSUME NEW p \in Pages,
             \/ Poll(p) \/ Gesture(p) \/ OpenEditor(p) \/ KeepEditing(p) \/ Cancel(p)
             \/ Save(p) \/ Saved(p) \/ NotSaved(p)
      PROVE  UNCHANGED lost
  BY <1>2, <1>4 DEF Poll, Gesture, OpenEditor, KeepEditing, Cancel, Save, Saved, NotSaved
<1>5. ASSUME NEW p \in Pages, NEW c \in chains[p],
             Decide(p, c) \/ LoadText(p, c) \/ LoadStamp(p, c) \/ Paint(p, c)
      PROVE  UNCHANGED lost
  BY <1>5 DEF Decide, LoadText, LoadStamp, Paint
<1>6. ASSUME NEW p \in Pages, NEW c \in chains[p], Lose(p, c) PROVE lost' = lost + 1
  BY <1>6 DEF Lose
<1> QED BY <1>1, <1>2, <1>3, <1>4, <1>5, <1>6, ViewerSteps

LEMMA PagesStep ==
  ASSUME LockInv, ViewerTypeOK, PagesTrue, [ViewerNext]_vvars, Undisturbed'
  PROVE  PagesTrue'
<1>0. /\ Agents \subseteq Writers /\ Pages \subseteq Writers
      /\ \A p \in Pages : chains[p] \subseteq Chain
      /\ meta.su \in Nat
  BY DEF Writers, Pages, ViewerTypeOK, LockInv, RevisionsTypeOK, Meta
<1>1. StampsBehind
  BY DEF PagesTrue
<1>l. lost > 0 => lost' > 0
  BY LossesCount
<1>2. ASSUME UNCHANGED pagevars, StampKept PROVE PagesTrue'
  <2>1. \A p \in Pages : \A c \in chains'[p] : c \in chains[p]
    BY <1>2 DEF pagevars
  <2> QED BY <1>2, <1>l, <2>1, PagesQuiet DEF pagevars
<1>3. ASSUME UNCHANGED rvars PROVE StampKept
  BY <1>3, ServerKeepsStamp
<1>4. Load.su <= meta.su /\ LoadTrue(Load)
  BY <1>0 DEF Load, LoadTrue
<1>5. ASSUME NEW w \in Writers, PutStep(w), UNCHANGED pagevars PROVE PagesTrue'
  BY <1>2, <1>5, ServerKeepsStamp
<1>6. ASSUME NEW a \in Agents, Send(a), UNCHANGED pagevars PROVE PagesTrue'
  BY <1>0, <1>2, <1>6, ServerKeepsStamp
<1>7. ASSUME Elsewhere, UNCHANGED pagevars PROVE PagesTrue'
  BY <1>2, <1>7, ServerKeepsStamp
<1>8. ASSUME NEW w \in Writers, BumpSeen(w) PROVE PagesTrue'
  <2>1. meta'.su = meta.su + 1
    BY <1>8 DEF BumpSeen, Bump, LockInv, RevisionsTypeOK, Meta
  <2>2. UNCHANGED <<shown, lastSrc, crossed>>
    BY <1>8 DEF BumpSeen
  <2>3. ASSUME NEW p \in Pages, NEW d \in chains'[p]
        PROVE d.su <= meta.su /\ (d.stage = "stamp" => d.crossed)
    <3>1. chains'[p] = {IF c.stage = "stamp" THEN [c EXCEPT !.crossed = TRUE] ELSE c :
                        c \in chains[p]}
      BY <1>8 DEF BumpSeen
    <3>2. PICK c \in chains[p] : d = IF c.stage = "stamp" THEN [c EXCEPT !.crossed = TRUE] ELSE c
      BY <2>3, <3>1
    <3>3. c \in Chain /\ c.su <= meta.su
      BY <1>0, <1>1 DEF StampsBehind
    <3> QED BY <3>2, <3>3 DEF Chain
  <2>4. \A p \in Pages : lastSrc[p] <= meta.su /\ lastSrc[p] \in Nat
    BY <1>1 DEF StampsBehind, ViewerTypeOK
  <2>5. \A p \in Pages : \A d \in chains'[p] : d.su \in Int
    <3>1. \A p \in Pages : \A d \in chains'[p] : d \in Chain
      BY <1>8, ViewerTypeStep DEF LockInv, ViewerTypeOK
    <3> QED BY <3>1 DEF Chain
  <2>6. StampsBehind'
    BY <1>0, <1>1, <2>1, <2>2, <2>3, <2>4, <2>5 DEF StampsBehind
  <2>7. ASSUME NEW p \in Pages PROVE PageTrue(p)'
    BY <1>0, <2>1, <2>2, <2>4 DEF PageTrue
  <2>8. ASSUME NEW p \in Pages, NEW d \in chains'[p] PROVE LoadTrue(d)'
    BY <1>0, <2>1, <2>3, <2>5 DEF LoadTrue
  <2> QED BY <2>6, <2>7, <2>8 DEF PagesTrue
<1>9. ASSUME NEW w \in Writers, AgentDone(w) PROVE PagesTrue'
  BY <1>2, <1>9, ServerKeepsStamp DEF AgentDone
<1>10. ASSUME NEW p \in Pages, Poll(p) PROVE PagesTrue'
  <2> DEFINE tick == [Load EXCEPT !.stage = "polled", !.su = meta.su,
                                  !.rev = IF meta.there THEN meta.rev ELSE -1]
  <2>1. StampKept
    BY <1>3, <1>10 DEF Poll
  <2>2. tick.su <= meta.su /\ LoadTrue(tick)
    BY <1>0 DEF Load, LoadTrue
  <2>3. \A q \in Pages : \A e \in chains'[q] : e \in chains[q] \/ e = tick
    BY <1>10 DEF Poll, ViewerTypeOK
  <2>4. UNCHANGED <<shown, lastSrc, crossed>>
    BY <1>10 DEF Poll
  <2> HIDE DEF tick
  <2> QED BY <2>1, <2>2, <2>3, <2>4, PagesQuiet, <1>l
<1>11. ASSUME NEW p \in Pages,
              \/ Gesture(p) \/ OpenEditor(p) \/ KeepEditing(p) \/ Cancel(p)
              \/ Save(p) \/ NotSaved(p)
       PROVE PagesTrue'
  <2>1. StampKept
    BY <1>0, <1>3, <1>11, ServerKeepsStamp DEF Gesture, OpenEditor, KeepEditing, Cancel, Save, NotSaved
  <2>2. UNCHANGED <<shown, lastSrc, crossed, chains>>
    BY <1>11 DEF Gesture, OpenEditor, KeepEditing, Cancel, Save, NotSaved, pagevars
  <2>3. \A q \in Pages : \A c \in chains'[q] : c \in chains[q]
    BY <2>2
  <2> QED BY <2>1, <2>2, <2>3, PagesQuiet, <1>l
<1>12. ASSUME NEW p \in Pages, Saved(p) PROVE PagesTrue'
  <2>1. StampKept
    BY <1>0, <1>12, ServerKeepsStamp DEF Saved
  <2>2. \A q \in Pages : \A e \in chains'[q] : e \in chains[q] \/ e = Load
    BY <1>12 DEF Saved, ViewerTypeOK
  <2>3. UNCHANGED <<shown, lastSrc, crossed>>
    BY <1>12 DEF Saved
  <2> QED BY <1>4, <2>1, <2>2, <2>3, PagesQuiet, <1>l
<1>13. ASSUME NEW p \in Pages, NEW c \in chains[p], Decide(p, c) PROVE PagesTrue'
  <2>1. StampKept
    BY <1>3, <1>13 DEF Decide
  <2>2. PICK new \in {{}, {Load}} : Becomes(p, c, new)
    BY <1>13 DEF Decide
  <2>3. \A q \in Pages : \A e \in chains'[q] : e \in chains[q] \/ e = Load
    BY <2>2 DEF Becomes, ViewerTypeOK
  <2>4. UNCHANGED <<shown, lastSrc, crossed>>
    BY <1>13 DEF Decide
  <2> QED BY <1>4, <2>1, <2>3, <2>4, PagesQuiet, <1>l
<1>14. ASSUME NEW p \in Pages, NEW c \in chains[p], LoadText(p, c) PROVE PagesTrue'
  <2> DEFINE d == [c EXCEPT !.stage = "stamp", !.text = source]
  <2>1. c \in Chain /\ c.su <= meta.su
    BY <1>0, <1>1 DEF StampsBehind
  <2>2. d.su <= meta.su /\ LoadTrue(d)
    BY <2>1 DEF LoadTrue, Chain, Shows
  <2>3. \A q \in Pages : \A e \in chains'[q] : e \in chains[q] \/ e = d
    BY <1>14 DEF LoadText, Becomes, ViewerTypeOK
  <2>4. UNCHANGED <<rvars, shown, lastSrc, crossed>>
    BY <1>14 DEF LoadText
  <2> HIDE DEF d
  <2> QED BY <1>3, <2>2, <2>3, <2>4, PagesQuiet, <1>l
<1>15. ASSUME NEW p \in Pages, NEW c \in chains[p], LoadStamp(p, c) PROVE PagesTrue'
  <2> DEFINE d == [c EXCEPT !.stage = "paint", !.su = meta.su]
  <2>1. c \in Chain /\ c.stage = "stamp" /\ (Stamped => LoadTrue(c))
    BY <1>0, <1>15 DEF PagesTrue, LoadStamp
  <2>2. d.su <= meta.su /\ (Stamped => LoadTrue(d))
    BY <1>0, <2>1 DEF LoadTrue, Chain
  <2>3. \A q \in Pages : \A e \in chains'[q] : e \in chains[q] \/ e = d
    BY <1>15 DEF LoadStamp, Becomes, ViewerTypeOK
  <2>4. UNCHANGED <<rvars, shown, lastSrc, crossed>>
    BY <1>15 DEF LoadStamp
  <2> HIDE DEF d
  <2> QED BY <1>3, <2>2, <2>3, <2>4, PagesQuiet, <1>l
<1>16. ASSUME NEW p \in Pages, NEW c \in chains[p], Lose(p, c) PROVE PagesTrue'
  <2> DEFINE d == [c EXCEPT !.stage = "paint"]
  <2> DEFINE e == [c EXCEPT !.stage = "stamp", !.text = NoText]
  <2>1. UNCHANGED <<rvars, shown, lastSrc, crossed>> /\ lost' = lost + 1 /\ lost \in Nat
    BY <1>16 DEF Lose, ViewerTypeOK
  <2>2. /\ StampKept
        /\ c \in Chain /\ c.su <= meta.su /\ (Stamped => LoadTrue(c))
    BY <1>0, <1>1, <1>3, <2>1 DEF PagesTrue, StampsBehind
  <2>3. \/ \A q \in Pages : \A f \in chains'[q] : f \in chains[q]
        \/ c.stage = "text" /\ \A q \in Pages : \A f \in chains'[q] : f \in chains[q] \/ f = e
        \/ c.stage = "stamp" /\ \A q \in Pages : \A f \in chains'[q] : f \in chains[q] \/ f = d
    <3> USE DEF Becomes, ViewerTypeOK
    <3>1. CASE Becomes(p, c, {})
      BY <3>1
    <3>2. CASE c.stage = "text" /\ Becomes(p, c, {e})
      BY <3>2
    <3>3. CASE c.stage = "stamp" /\ Becomes(p, c, {d})
      BY <3>3
    <3> QED BY <1>16, <3>1, <3>2, <3>3 DEF Lose
  <2>4. c.stage = "stamp" => d.su <= meta.su /\ (Stamped => LoadTrue(d))
    BY <2>2 DEF LoadTrue, Chain
  <2>5. e.su <= meta.su /\ LoadTrue(e)'
    BY <2>1, <2>2 DEF LoadTrue, Chain, Shows
  <2>6. StampsBehind'
    <3> HIDE DEF d, e
    <3> QED BY <1>1, <2>1, <2>2, <2>3, <2>4, <2>5 DEF StampsBehind, StampKept
  <2>7. ASSUME Stamped', NEW q \in Pages PROVE PageTrue(q)'
    BY <1>l, <2>1, <2>2, <2>7 DEF PagesTrue, PageTrue, StampKept, Shows
  <2>8. ASSUME Stamped', NEW q \in Pages, NEW f \in chains'[q] PROVE LoadTrue(f)'
    <3>1. f = e \/ LoadTrue(f)
      <4> HIDE DEF d, e
      <4> QED BY <2>2, <2>3, <2>4, <2>8 DEF PagesTrue, StampKept
    <3>2. CASE f = e
      BY <2>5, <3>2
    <3>3. CASE LoadTrue(f)
      BY <1>l, <2>1, <2>2, <2>8, <3>3 DEF LoadTrue, StampKept, Shows
    <3> QED BY <3>1, <3>2, <3>3
  <2> QED BY <2>6, <2>7, <2>8 DEF PagesTrue
<1>17. ASSUME NEW p \in Pages, NEW c \in chains[p], Paint(p, c) PROVE PagesTrue'
  <2>1. StampKept
    BY <1>3, <1>17 DEF Paint
  <2>2. c.su <= meta.su /\ (Stamped => LoadTrue(c))
    BY <1>1 DEF PagesTrue, StampsBehind
  <2>3. /\ \A q \in Pages : chains'[q] \subseteq chains[q]
        /\ shown'[p] = c.text /\ crossed'[p] = c.crossed /\ lastSrc'[p] = c.su
        /\ \A q \in Pages \ {p} : /\ shown'[q] = shown[q] /\ crossed'[q] = crossed[q]
                                 /\ lastSrc'[q] = lastSrc[q]
    BY <1>17 DEF Paint, Becomes, ViewerTypeOK
  <2>4. StampsBehind'
    BY <1>1, <2>1, <2>2, <2>3 DEF StampsBehind, StampKept
  <2>5. ASSUME Stamped', NEW q \in Pages PROVE PageTrue(q)'
    <3>1. Stamped /\ source' = source /\ meta'.su = meta.su
      BY <2>1, <2>5 DEF StampKept
    <3>2. CASE q = p
      BY <1>17, <1>l, <2>2, <2>3, <3>1, <3>2 DEF PageTrue, LoadTrue, Paint, Shows
    <3>3. CASE q # p
      BY <1>l, <2>3, <3>1, <3>3 DEF PageTrue, PagesTrue, Shows
    <3> QED BY <3>2, <3>3
  <2>6. ASSUME Stamped', NEW q \in Pages, NEW d \in chains'[q] PROVE LoadTrue(d)'
    <3>1. Stamped /\ source' = source /\ meta'.su = meta.su
      BY <2>1, <2>6 DEF StampKept
    <3>2. LoadTrue(d)
      BY <2>3, <2>6, <3>1 DEF PagesTrue
    <3> QED BY <1>l, <3>1, <3>2 DEF LoadTrue, Shows
  <2> QED BY <2>4, <2>5, <2>6 DEF PagesTrue
<1>18. ASSUME UNCHANGED vvars PROVE PagesTrue'
  BY <1>2, <1>3, <1>18 DEF vvars
<1> QED BY <1>5, <1>6, <1>7, <1>8, <1>9, <1>10, <1>11, <1>12, <1>13, <1>14, <1>15, <1>16,
           <1>17, <1>18, ViewerSteps

LEMMA PageInvInit == ViewerInit => PageInv
<1> SUFFICES ASSUME ViewerInit PROVE PageInv
  OBVIOUS
<1>1. LockInv /\ ViewerTypeOK
  BY LockInit, ViewerTypeInit DEF ViewerInit
<1>2. PagesTrue
  BY DEF ViewerInit, RevisionsInit, PagesTrue, StampsBehind, PageTrue, LoadTrue, Shows
<1> QED BY <1>1, <1>2 DEF PageInv

LEMMA PageInvStep ==
  ASSUME PageInv, [ViewerNext]_vvars
  PROVE  PageInv'
<1>1. LockInv' /\ ViewerTypeOK'
  BY LockStep, ViewerTypeStep, StepImplements DEF PageInv, LockInv
<1>2. ASSUME Undisturbed' PROVE PagesTrue'
  <2>1. Undisturbed
    BY <1>2, Disturbances, StepImplements DEF PageInv, LockInv
  <2> QED BY <1>2, <2>1, PagesStep DEF PageInv
<1> QED BY <1>1, <1>2 DEF PageInv

(* Overlapping ticks and loads, failed fetches and the editor never leave  *)
(* an old text under the document's stamp, where no later poll reloads it: *)
(* only a PUT between the two fetches of load(), or one cut short, does.   *)
(* (Once a fetch has failed it may be no text at all: load() paints the    *)
(* body of an error as it paints the document.)                            *)
THEOREM PageShowsItsStamp == ViewerSafety => []CurrentUnlessCrossed
<1>1. PageInv => CurrentUnlessCrossed
  <2> SUFFICES ASSUME PageInv, failures = 0, NEW p \in Pages,
                      ~crossed[p], Settled(p), lastSrc[p] = meta.su
               PROVE  Shows(shown[p])
    BY DEF CurrentUnlessCrossed
  <2>1. Undisturbed /\ lock = Nobody
    BY DEF Settled, Undisturbed
  <2>2. Stamped
    BY <2>1, RevisionsAssumption DEF PageInv, LockInv, LockHeld, Stamped, Steps
  <2> QED BY <2>1, <2>2 DEF PageInv, PagesTrue, PageTrue
<1> QED BY <1>1, PageInvInit, PageInvStep, PTL DEF ViewerSafety
=============================================================================
