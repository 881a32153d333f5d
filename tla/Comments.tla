------------------------------ MODULE Comments ------------------------------
(***************************************************************************)
(* The comment threads of one review: the handlers that write comments.json *)
(* and then stamp meta.json under store.lock, agents that call them, and    *)
(* review pages, which fetch the list and the stamps without the lock, show *)
(* a comment before the server has it, and poll.                            *)
(*                                                                          *)
(* A page starts a new async chain at every tick and every click and waits  *)
(* for none, so several are under way, each at its own await.  What a list  *)
(* answers is the number of the write it follows in log.                    *)
(***************************************************************************)
EXTENDS Integers, Sequences, FiniteSets

CONSTANTS
    Page, Agent, Draft,  \* a draft is the text of one comment of one page
    None,
    MaxWrites, MaxPuts,  \* bounds: writes of comments.json, PUTs of the source
    MaxChains,           \* bound: chains of a page at a time
    MaxFaults            \* bound: requests or answers lost, and stamps not written

ASSUME CommentsAssumption ==
    /\ {MaxWrites, MaxPuts, MaxChains, MaxFaults} \subseteq Nat
    /\ None \notin Draft \cup Agent \cup (Page \X Nat) /\ Agent \cap (Page \X Nat) = {}

VARIABLES
    log,      \* what comments.json has held, its present contents last
    cu, su,   \* meta.json's comments_updated and source_updated
    busy,     \* who is between its write and its stamp, holding store.lock
    stamped,  \* the write that the last stamp announced
    threads,  \* the write whose list the page shows
    lastCmt, lastSrc,
    pending,  \* pendingPost
    retry,    \* the card on the page offers retry and discard
    chains,   \* the page's async functions at their awaits
    draft,    \* history: what became of a text the reviewer submitted
    mixed,    \* history: the drafts submitted while another was under way, and those
    doubt,    \* history: the page lost, or overtook, or read too early a list
    faults

server == <<log, cu, su, busy, stamped>>
shown == <<threads, lastCmt, lastSrc, doubt>>
card == <<pending, retry, draft, mixed>>
vars == <<log, cu, su, busy, stamped, threads, lastCmt, lastSrc, doubt,
          pending, retry, draft, mixed, chains, faults>>

Stamp == Nat
Slot == 1..MaxChains
Comment == [id : Nat, draft : Draft \cup {None}, status : {"open", "resolved", "reopened"},
            engaged : BOOLEAN]  \* engaged: an agent has written in the thread
Op == {"create", "reply", "resolve", "reopen", "delete"}
ASSUME OpAssumption == None \notin Op
Code == {0, 200, 404, 409}  \* 0: a network error, or a 5xx

(* Where an async function waits: for /status in a tick, for the list, for *)
(* the texts and stamps of load(), or for the answer to a request; "held"  *)
(* is a request that has written.                                          *)
Chain == [at : {"idle", "polled", "list", "listed", "load", "paint", "sent", "held", "answer"},
          op : Op \cup {None}, arg : Draft \cup Nat \cup {None}, code : Code,
          load : BOOLEAN, list : Nat, cu : Stamp, su : Stamp, crossed : BOOLEAN]
Idle == [at |-> "idle", op |-> None, arg |-> None, code |-> 0,
         load |-> FALSE, list |-> 0, cu |-> 0, su |-> 0, crossed |-> FALSE]
List(load) == [Idle EXCEPT !.at = "list", !.load = load]
NoPost == [draft |-> None, failed |-> FALSE]

CommentsTypeOK ==
    /\ log \in Seq(SUBSET Comment) /\ stamped \in DOMAIN log
    /\ cu \in Stamp /\ su \in Stamp
    /\ busy \in {None} \cup Agent \cup (Page \X Slot)
    /\ threads \in [Page -> DOMAIN log]
    /\ lastCmt \in [Page -> Stamp] /\ lastSrc \in [Page -> Stamp] /\ doubt \in [Page -> BOOLEAN]
    /\ pending \in [Page -> [draft : Draft \cup {None}, failed : BOOLEAN]]
    /\ retry \in [Page -> BOOLEAN]
    /\ chains \in [Page -> [Slot -> Chain]]
    /\ draft \in [Draft -> {"unwritten", "submitted", "discarded"}] /\ mixed \subseteq Draft

\* boot() has shown the list and loaded the text.
Init ==
    /\ log = <<{}>> /\ cu = 0 /\ su = 1 /\ busy = None /\ stamped = 1
    /\ threads = [p \in Page |-> 1] /\ lastCmt = [p \in Page |-> 0]
    /\ lastSrc = [p \in Page |-> 1] /\ doubt = [p \in Page |-> FALSE]
    /\ pending = [p \in Page |-> NoPost] /\ retry = doubt
    /\ chains = [p \in Page |-> [i \in Slot |-> Idle]]
    /\ draft = [d \in Draft |-> "unwritten"] /\ mixed = {}
    /\ faults = 0

-----------------------------------------------------------------------------
(* The server. *)

File == log[Len(log)]
Has(f, id) == \E c \in f : c.id = id

\* apply_transition and delete: a code other than 200 writes nothing.
Verdict(f, op, id) ==
    IF op = "create" THEN 200
    ELSE IF ~Has(f, id) THEN 404
    ELSE LET status == (CHOOSE c \in f : c.id = id).status
         IN  IF \/ op = "resolve" /\ status = "resolved"
                \/ op = "reopen" /\ status # "resolved" THEN 409 ELSE 200

StatusAfter(op, status) ==
    CASE op = "resolve" -> "resolved" [] op = "reopen" -> "reopened" [] OTHER -> status

\* The number of the write makes the id; an agent may say something in a resolve.
Changed(f, op, arg, byAgent, says) ==
    IF op = "create"
    THEN f \cup {[id |-> Len(log), draft |-> arg, status |-> "open", engaged |-> byAgent]}
    ELSE LET c == CHOOSE x \in f : x.id = arg
             engaged == c.engaged \/ (byAgent /\ says)
         IN  (f \ {c}) \cup IF op = "delete" THEN {}
                            ELSE {[c EXCEPT !.status = StatusAfter(op, c.status), !.engaged = engaged]}

\* The bound on pages is on what they ask for: what was asked is served.
Room == Len(log) + Cardinality({pi \in Page \X Slot : chains[pi[1]][pi[2]].at = "sent"}) <= MaxWrites

\* The write of comments.json, under the lock...
Write(who, op, arg, byAgent, says) ==
    /\ busy = None
    /\ Verdict(File, op, arg) = 200
    /\ log' = Append(log, Changed(File, op, arg, byAgent, says))
    /\ busy' = who
    /\ UNCHANGED <<cu, su, stamped>>

\* ... then the stamp in meta.json...
Bump ==
    /\ cu' = cu + 1 /\ stamped' = Len(log) /\ busy' = None
    /\ UNCHANGED <<log, su, faults>>

\* ... unless writing it raises: the handler dies and lets go of the lock.
NoBump ==
    /\ faults < MaxFaults /\ faults' = faults + 1 /\ busy' = None
    /\ UNCHANGED <<log, cu, su, stamped>>

AgentWrite(a) ==
    /\ Len(log) <= MaxWrites
    /\ \/ Write(a, "create", None, TRUE, TRUE)
       \/ \E c \in File : \/ Write(a, "reply", c.id, TRUE, TRUE)
                          \/ \E says \in BOOLEAN : Write(a, "resolve", c.id, TRUE, says)
                          \/ \E op \in {"reopen", "delete"} : Write(a, op, c.id, FALSE, FALSE)
    /\ UNCHANGED <<shown, card, chains, faults>>

AgentStamp(a) == busy = a /\ (Bump \/ NoBump) /\ UNCHANGED <<shown, card, chains>>

\* A PUT of the source, as a page can tell it: the stamp.
Put ==
    /\ busy = None /\ su <= MaxPuts /\ su' = su + 1
    /\ UNCHANGED <<log, cu, busy, stamped, shown, card, chains, faults>>

-----------------------------------------------------------------------------
(* The requests of a page, at the server. *)

Becomes(p, i, chain) == chains' = [chains EXCEPT ![p][i] = chain]
Answer(p, i, code) == chains' = [chains EXCEPT ![p][i].at = "answer", ![p][i].code = code]

Take(p, i) ==
    LET c == chains[p][i] IN
    /\ c.at = "sent"
    /\ Write(<<p, i>>, c.op, c.arg, FALSE, FALSE)
    /\ Becomes(p, i, [c EXCEPT !.at = "held"])
    /\ UNCHANGED <<shown, card, faults>>

Refuse(p, i) ==
    LET c == chains[p][i] IN
    /\ c.at = "sent" /\ busy = None /\ Verdict(File, c.op, c.arg) # 200
    /\ Answer(p, i, Verdict(File, c.op, c.arg))
    /\ UNCHANGED <<server, shown, card, faults>>

Stamped(p, i) ==
    /\ busy = <<p, i>>
    /\ Bump /\ Answer(p, i, 200)
    /\ UNCHANGED <<shown, card>>

Unstamped(p, i) ==
    /\ busy = <<p, i>>
    /\ NoBump /\ Answer(p, i, 0)
    /\ UNCHANGED <<shown, card>>

\* The list comes from the browser's cache.
ListedCached(p, i) ==
    /\ chains[p][i].at = "list"
    /\ Becomes(p, i, [chains[p][i] EXCEPT !.at = "listed", !.list = threads[p],
                                         !.cu = IF chains[p][i].load THEN cu ELSE 0])
    /\ UNCHANGED <<server, shown, card, faults>>

\* GET /comments takes no lock.
Listed(p, i) ==
    /\ chains[p][i].at = "list"
    /\ Becomes(p, i, [chains[p][i] EXCEPT !.at = "listed", !.list = Len(log),
                                         !.cu = IF chains[p][i].load THEN cu ELSE 0])
    /\ UNCHANGED <<server, shown, card, faults>>

-----------------------------------------------------------------------------
(* The page: what it sends. *)

Starts(p, chain) ==
    \E i \in Slot : /\ chains[p][i] = Idle
                    /\ \A j \in 1..(i - 1) : chains[p][j] # Idle
                    /\ Becomes(p, i, chain)
Request(op, arg) == [Idle EXCEPT !.at = "sent", !.op = op, !.arg = arg]
\* renderAll: the card offers retry when the post it shows has failed.
RenderAll(p, post) == retry' = [retry EXCEPT ![p] = post.failed]

InFlight(p, d) == \E i \in Slot : chains[p][i].op = "create" /\ chains[p][i].arg = d

\* A second comment takes the one card there is, whatever it shows.
Submit(p, d) ==
    LET post == [draft |-> d, failed |-> FALSE]
        others == {e \in Draft : e = pending[p].draft \/ InFlight(p, e)}
    IN  /\ Room
        /\ draft[d] = "unwritten" /\ draft' = [draft EXCEPT ![d] = "submitted"]
        /\ pending' = [pending EXCEPT ![p] = post] /\ RenderAll(p, post)
        /\ Starts(p, Request("create", d))
        /\ mixed' = IF others = {} THEN mixed ELSE mixed \cup others \cup {d}
        /\ UNCHANGED <<server, shown, faults>>

\* The card is not painted again: retry can be clicked once more meanwhile.
Retry(p) ==
    /\ Room /\ retry[p] /\ pending[p].draft # None
    /\ pending' = [pending EXCEPT ![p].failed = FALSE]
    /\ Starts(p, Request("create", pending[p].draft))
    /\ UNCHANGED <<server, shown, retry, draft, mixed, faults>>

Discard(p) ==
    /\ retry[p] /\ pending[p].draft # None
    /\ draft' = [draft EXCEPT ![pending[p].draft] = "discarded"]
    /\ pending' = [pending EXCEPT ![p] = NoPost] /\ RenderAll(p, NoPost)
    /\ UNCHANGED <<server, shown, chains, mixed, faults>>

\* The buttons of the cards the page shows.
Click(p) ==
    /\ Room
    /\ \E c \in log[threads[p]] :
         \/ c.status # "resolved" /\ \E op \in {"reply", "resolve"} : Starts(p, Request(op, c.id))
         \/ c.status # "resolved" /\ ~c.engaged /\ Starts(p, Request("delete", c.id))
         \/ c.status = "resolved" /\ Starts(p, Request("reopen", c.id))
    /\ UNCHANGED <<server, shown, card, faults>>

-----------------------------------------------------------------------------
(* The page: what it does with the answers. *)

\* A 2xx leaves the card as it is.
AfterPostStays(post, code) == IF code = 200 THEN post ELSE [post EXCEPT !.failed = TRUE]
\* A failed post is dropped, as the composer that had its text is closed.
AfterPostForgets(post, code) == NoPost

\* What is left of the card; a failure that finds none throws.
AfterPost(post, code) ==
    IF code = 200 \/ post = NoPost THEN NoPost ELSE [post EXCEPT !.failed = TRUE]

\* submitPendingPost goes on.
Posted(p, i) ==
    LET c == chains[p][i]
        post == AfterPost(pending[p], c.code)
    IN  /\ c.at = "answer" /\ c.op = "create"
        /\ pending' = [pending EXCEPT ![p] = post]
        /\ Becomes(p, i, IF c.code = 200 THEN List(FALSE) ELSE Idle)
        /\ IF c.code = 200 \/ post = NoPost THEN UNCHANGED retry ELSE RenderAll(p, post)
        /\ UNCHANGED <<server, shown, draft, mixed, faults>>

\* A comment that is already reopened, or gone, is what was asked for.
Acted(p, i) ==
    LET c == chains[p][i]
        done == <<c.op, c.code>> \in {<<"reopen", 409>>, <<"delete", 404>>} \/ c.code = 200
    IN  /\ c.at = "answer" /\ c.op # "create"
        /\ Becomes(p, i, IF done THEN List(FALSE) ELSE Idle)
        /\ UNCHANGED <<server, shown, card, faults>>

\* fetchComments ends; load() goes on where it was called from.
Apply(p, i) ==
    LET c == chains[p][i] IN
    /\ c.at = "listed"
    /\ threads' = [threads EXCEPT ![p] = c.list]
    /\ doubt' = [doubt EXCEPT ![p] = c.list < threads[p] \/ (@ /\ c.list # Len(log))]
    /\ IF c.load THEN Becomes(p, i, [Idle EXCEPT !.at = "load", !.cu = c.cu]) /\ UNCHANGED retry
                 ELSE Becomes(p, i, Idle) /\ RenderAll(p, pending[p])
    /\ UNCHANGED <<server, lastCmt, lastSrc, pending, draft, mixed, faults>>

LoadStamps(p, i) ==
    LET c == chains[p][i] IN
    /\ c.at = "load"
    /\ Becomes(p, i, [c EXCEPT !.at = "paint", !.cu = cu, !.su = su, !.crossed = c.cu # cu])
    /\ UNCHANGED <<server, shown, card, faults>>

Paint(p, i) ==
    LET c == chains[p][i] IN
    /\ c.at = "paint"
    /\ lastCmt' = [lastCmt EXCEPT ![p] = c.cu] /\ lastSrc' = [lastSrc EXCEPT ![p] = c.su]
    /\ doubt' = [doubt EXCEPT ![p] = @ \/ c.crossed]
    /\ Becomes(p, i, Idle) /\ RenderAll(p, pending[p])
    /\ UNCHANGED <<server, threads, pending, draft, mixed, faults>>

-----------------------------------------------------------------------------
(* The page: the tick. *)

\* A post under way, or failed and not yet dealt with, holds the ticks off.
Poll(p) ==
    /\ pending[p] = NoPost
    /\ Starts(p, [Idle EXCEPT !.at = "polled", !.cu = cu, !.su = su])
    /\ UNCHANGED <<server, shown, card, faults>>

Decide(p, i) ==
    LET c == chains[p][i] IN
    /\ c.at = "polled"
    /\ \/ /\ c.su \notin {0, lastSrc[p]}
          /\ Becomes(p, i, List(TRUE)) /\ UNCHANGED lastCmt
       \/ /\ c.su \in {0, lastSrc[p]} /\ c.cu \notin {0, lastCmt[p]}
          /\ lastCmt' = [lastCmt EXCEPT ![p] = c.cu] /\ Becomes(p, i, List(FALSE))
       \/ /\ c.su \in {0, lastSrc[p]} /\ c.cu \in {0, lastCmt[p]}
          /\ Becomes(p, i, Idle) /\ UNCHANGED lastCmt
    /\ UNCHANGED <<server, threads, lastSrc, doubt, card, faults>>

(* A request or an answer is lost.  A lost list is swallowed; of load(), a *)
(* lost text ends it and a lost stamp counts as none.                      *)
Lose(p, i) ==
    LET c == chains[p][i] IN
    /\ faults < MaxFaults /\ faults' = faults + 1
    /\ \/ /\ c.at = "sent" \/ (c.at = "answer" /\ c.code # 0)
          /\ Answer(p, i, 0) /\ UNCHANGED <<doubt, retry>>
       \/ /\ c.at \in {"list", "listed"} /\ doubt' = [doubt EXCEPT ![p] = TRUE]
          /\ IF c.load THEN Becomes(p, i, [Idle EXCEPT !.at = "load"]) /\ UNCHANGED retry
                       ELSE Becomes(p, i, Idle) /\ RenderAll(p, pending[p])
       \/ /\ c.at = "load" /\ UNCHANGED <<doubt, retry>>
          /\ \/ Becomes(p, i, Idle)
             \/ Becomes(p, i, [c EXCEPT !.at = "paint", !.cu = 0, !.su = 0])
    /\ UNCHANGED <<server, threads, lastCmt, lastSrc, pending, draft, mixed>>

ServerStep(p, i) ==
    \/ Take(p, i) \/ Refuse(p, i) \/ Stamped(p, i) \/ Unstamped(p, i) \/ Listed(p, i)
PageStep(p, i) ==
    \/ Posted(p, i) \/ Acted(p, i) \/ Apply(p, i) \/ LoadStamps(p, i) \/ Paint(p, i)
    \/ Decide(p, i)

Next ==
    \/ \E a \in Agent : AgentWrite(a) \/ AgentStamp(a)
    \/ Put
    \/ \E p \in Page :
         \/ Retry(p) \/ Discard(p) \/ Click(p) \/ Poll(p)
         \/ \E d \in Draft : Submit(p, d)
         \/ \E i \in Slot : ServerStep(p, i) \/ PageStep(p, i) \/ Lose(p, i)

Spec == Init /\ [][Next]_vars

(* The interval keeps firing (strongly: MaxChains, which the page has not, *)
(* may hold it off for a moment again and again), a request that arrived   *)
(* is served, and every await ends.  Nobody has to write, click, retry or  *)
(* discard.                                                                *)
FairSpec ==
    /\ Spec
    /\ \A a \in Agent : WF_vars(AgentStamp(a))
    /\ \A p \in Page : /\ SF_vars(Poll(p))
                        /\ \A i \in Slot : WF_vars(ServerStep(p, i)) /\ WF_vars(PageStep(p, i))

-----------------------------------------------------------------------------
AtRest(p) == \A i \in Slot : chains[p][i] = Idle

(* A page with nothing under way, whose stamp is the review's, shows every *)
(* write that stamp announced: no later tick would fetch the list again    *)
(* (viewer.html, poll and fetchComments).  Excused is a page in doubt: one *)
(* of its lists was lost or overtaken by an older one, or a stamp was set  *)
(* between the list and the stamps of a load.                              *)
ThreadsCurrent ==
    \A p \in Page : AtRest(p) /\ lastCmt[p] = cu /\ ~doubt[p] => threads[p] >= stamped

(* A page on which no failed card stays for ever takes up every stamp of   *)
(* the comments in the end.                                                *)
ThreadsReachPage ==
    \A p \in Page : <>[]~pending[p].failed => []<>(lastCmt[p] = cu)

Filed(d) == \E k \in DOMAIN log : \E c \in log[k] : c.draft = d
Kept(d) == draft[d] = "submitted" => \/ Filed(d)
                                     \/ \E p \in Page : pending[p].draft = d \/ InFlight(p, d)

(* A comment that was submitted is on file, on its way or on the card that *)
(* offers to retry it (viewer.html, submitPendingPost: "your text is       *)
(* kept").                                                                 *)
TextKept == \A d \in Draft : Kept(d)

(* The same of a comment that no other one of its page was submitted       *)
(* beside: lost answers, retries, double clicks and failed stamps do not   *)
(* lose it.                                                                *)
TextKeptAlone == \A d \in Draft \ mixed : Kept(d)
=============================================================================
