# mdreview: a verification project

mdreview is a small service in which a person and coding agents review a document
together. The person writes comments in a browser, sends the document to "the agent
side", an agent session claims it, revises the text, and hands it back. The state is
a directory per review: `meta.json`, `source.md`, `comments.json`, `history/round-n/`.
The server is one multi-threaded Python process whose handlers serialise on one
condition variable, and around it run clients with state of their own: the browser
viewer, agents, and a watcher process that launches agents.

The modules here are TLA+ models of that code, checked with TLC on small instances,
and theorems about them checked with TLAPS for every value of the constants.
`PROJECT.json` maps each definition to its lines of source, lists the hazards of the
code, the runs, and the theorems.

## Inventory

Paths are relative to `src/src/mdreview/` unless they start with `src/`.

| Component | State it keeps | Operations | Hard behaviours | What makes it correct |
|---|---|---|---|---|
| Store (`store.py`) | the one `threading.Condition`; files | atomic whole-file write, reads with defaults | everything below serialises on it; a sequence of writes is not atomic, nor is the copy of a round | no JSON file and no document is ever torn |
| Turn baton and lease (`handoff.py`) | `turn`, `turn_updated`, `agent_status` of a review | reclaim, hand-back, flip, lease | sessions racing, stale leases, late heartbeats | one live lease per review; a live lease is renewable; no leftover status |
| Long-poll (`server.py` `_wait`) | the parked threads; the client's `since` cursor | scan, park, wake, reply | lost wake-up, missed edge, duplicate edge, lost reply | no Send missed, none twice, every request ends |
| Source and history (`reviews.py`) | `source.md`, `revision`, `source_updated(_by)`, `history/` | GET/PUT source, DELETE, history | five writes per PUT, each of which may fail, one of them in place; stale editors; existence checked before the lock; DELETE in between | no draft lost, tokens name their text, history without holes, true attribution |
| Comments (`comments.py`, and the pages' half in `viewer.html`) | `comments.json`, `comments_updated`; a page's list, stamps, one card for a post that is under way | create, reply, resolve, reopen, delete; retry, discard, tick, load | write and stamp are two writes; lists without the lock; overlapping chains; lost answers and retries | every stamp reaches the page, no list is left stale, no text of the reviewer is lost |
| Assets (`assets.py`) | `assets/` | attach, find | race with DELETE | whole files |
| Access and custody (`access.py`, `hosted/custody.py`, `hosted/shares.py`, `hosted/sharing.py`) | owner, shares, public flag | grant, revoke, authorise | decision before the lock, used inside it | a revoked right is not exercised for long; no dangling grants |
| Accounts (`users.py`, `hosted/identity.py`, `hosted/adminroutes.py`) | user records, token hashes | ensure, ban, promote, mint, revoke | two admins at once, account linking | an admin always remains; a banned user is out |
| Sign-in and sessions (`hosted/sessions.py`, `hosted/identity_store.py`, `hosted/authroutes.py`, `hosted/magiclink.py`) | nonces, session rows, send log; a page's cookie and CSRF token | request link, redeem, re-issue, end one, end the others, sign out | link used twice, re-issue racing an ending or another re-issue, lost cookie, expiry edge | a link signs in once; an ended sign-in stays out; a re-issue neither doubles a device nor signs anybody out |
| Reconciliation tool (`reconcile.py`) | owner field, quarantine | confirm, quarantine | a second process, its own lock | does not undo the server's writes |
| Watcher (`src/src/watcher/`) | cursor, pending set, in-flight children, launch times | poll, claim, spawn, reap, signal a crash | deferred reviews, caps, network errors, crashed children | caps hold, one child per flip, none forgotten |
| LaTeX compile (`src/src/latex_review/`) | queue and three sets in memory, `status.json`, `paper.pdf` | enqueue, compile, self-heal, recompile, serve the PDF | compile outside the lock, coalescing, writes that raise, restart | the last text is compiled, the pdf is labelled truly |
| Viewer (`src/web/app/viewer.html`) | `lastSrc`, `lastCmt`, editor buffer, `EDITREV` | load, poll, edit, save | text and stamps fetched apart, overlapping ticks, error answers, 409 | the reader sees the current text; no edit is overwritten silently |
| Line diff (`src/web/app/static/linediff.js`) | rows, segments and fold cursors of a drawn diff | diff, number, group, render, unfold | windows and short gaps at the ends of the text | a shortest diff, true line numbers, no change in a fold |
| Browser check scripts (`src/scripts/*.mjs`) | the script's place, its failures, held requests, the page, the server's state | open, click, hold, release, refuse, expect, log in | requests the page sends by itself; a dead or wedged Chrome; rate limits between runs | no check fails on a correct server; exit code 0 means passed; every run ends |
| MCP wrapper and self-update (`src/src/mcp/`) | none; installed files | tool to HTTP; update | crash in the middle of an update | a runnable installation |
| Deployment (`src/infra/deploy/auto-update.sh`) | deployed revision | pull, recreate, gate, roll back | crash between recreate and gate | an ungated version does not stay |

Interactions: handlers share files and the lock; the watcher and agents are HTTP
clients of the baton and the long-poll; the viewer polls `/status` and fetches texts and comments
without the lock; the compile worker reads and writes a review's files without the lock; the hosted modules
decorate the core (custody in front of every handler, the LaTeX decorator around
create and PUT); the check scripts drive a page over the DevTools socket and the server over HTTP.

## Modules

| Module | Models |
|---|---|
| `Baton` | what the baton promises: Send, Recall, Return, Sign, Lapse, without clock or JSON |
| `Document` | what the source of a review promises its writers: reads, writes that take effect at once or not at all, an append-only history; no files, lock, revisions or crashes |
| `Handoff` | `HandoffService.apply`: a body, the pinned dispatch, the lease decision table |
| `LongPoll` (extends `Handoff`) | `_wait`, `notify_all`, and a client with a cursor |
| `Revisions` | `put_source` and `snapshot_round`, one action per disk write, with GET, DELETE, failures and crashes |
| `Watcher` (extends `Handoff`) | the watcher's loop, its children, caps, pending set and crash signal |
| `Viewer` (extends `Revisions`) | a page: the ticks of the poll, `load()` fetch by fetch, the editor and its notice |
| `Comments` | comment threads: the server's write and stamp, agents, and pages with one card for a post |
| `Sessions` | one account's session rows, the sliding re-issue, the single-use link, two parts of a page and a second browser |
| `Compile` | the compile worker beside PUT, DELETE, recompile, poll and PDF requests |
| `LineDiff` | `linediff.js`: table, walk, numbers, hunks, folds |
| `Checks` | nine check scripts as tables of steps, the page they drive, the server, Chrome's failures |
| `HandoffProofs` (of `LongPoll` too), `ViewerProofs` (of `Revisions` too), `WatcherProofs`, `CommentsProofs`, `SessionsProofs`, `CompileProofs`, `LineDiffProofs`, `ChecksProofs` | the theorems and their proofs |
| `MC...` (one per run's module) | the instances TLC runs |

`Handoff` is the base of `LongPoll` and `Watcher`, and implements `Baton`; `Revisions` implements `Document`; `Viewer` composes pages with the server of `Revisions`.
The other five stand by themselves: they share no state with these but a stamp or a number, which they carry in their own terms.

**Handoff.** `turn`, `turnUpdated` and `agent` are the fields of `meta.json`; a call is one
step because the handler reads, decides and writes under the lock. `Bodies` are all
combinations of the keys the dispatch looks at, the ambiguous ones included; `IsReclaim`,
`IsHandBack`, `IsFlip`, `IsLease` are the guards of the four arms in their order. A body
that fits none (400) and a refused lease (409) leave the state alone and are the absence
of a step. `grants` is not in the code: it is what the sessions know, the time of the last
200 each got for its ping in the current tenure, and it is what makes "a session that
believes it holds the lease" a statement about states. A reclaim leaves it alone, as the
code leaves `agent_status` alone and tells no session.

**LongPoll.** A waiter is idle, parked on the condition, or awake (contending for the
lock). `Scan` is one pass of the loop under the lock: reply, or time out, or park, and parking
releases the lock in the same step, which is what `Condition.wait` does. `HandoffCall` is the
whole handler: apply, then `notify_all`. A reply moves the client's cursor as the watcher
does. `Abort` is a connection lost, including one lost after the server replied from the
client's point of view (the cursor stays); `Restart` is a new client process.
The turn filter is `agent`, the one the watcher uses.

**Revisions.** One review, from just after its creation. A PUT passes its gates (`Send`),
takes the lock and compares (`Begin`, or `Refuse` with 409), then does its writes one by one:
the round's copy, `round.json`, `meta.json` with the next revision, `source.md`, the
`source_updated` stamp, the attribution. `Fail` is an exception in any write (it releases the
lock and the request dies); `Crash` is the process. `meta.json`, `round.json` and `source.md` are written to a
temporary file that is renamed, so that they change at once. The copy is not: `shutil.copy` empties the target and then
fills it, so it is two steps (`OpenCopy`, `FillCopy`), between which the round is `Torn`, also when an earlier PUT that was cut short had
finished that very copy.
No handler looks again, once it has the lock, whether the review exists: `Arrive` is the check of every other handler, and then, in
any order and whatever was deleted since, come `Touch` (all handlers that read, change and rewrite `meta.json`; without the directory they
fail), `Attach` (an asset, which makes the directory) and `Delete`, which may leave some of the files behind, as `rmtree` ignores its errors. Texts are
numbered in order of submission; comments, feedback and the assets themselves are not there, and neither is a GET that waited through a DELETE (it reads no text and revision 0).
`Promise` maps this state to `Document`: the copies of the rounds below the revision are the history, a write is pending from `Send` until its overwrite, and a GET is what its writer has seen.

**Watcher.** One process, whose owner name is `OWNER`; every other owner is a session it does not
control (another watcher, an earlier run of this one, an agent somebody attached). `pc` is the place in `run`:
the poll, the loop over the rows of a reply, the drain of the pending set, and `handle` step by step: capacity,
claim, spawn. Wherever the code calls `_at_capacity` or `_reap`, `sweep` holds the children still
to be looked at, and the decision waits for the sweep to end; a crashed child starts the signal, whose
read and POST are two steps. `children` is the list of everything launched: the two timestamp queues of the code are
read off it. A claim is refused by every status but 200, be it the server's 409 or the 5xx of one that failed before or after the claim took effect (`ClaimRefused`). A transport error in a claim or in the signal's POST, or a command that cannot be launched,
ends the process (`Die`), as no handler catches it.

**Viewer.** The pages are the reviewers of `Revisions`, and their saves are its PUTs; `boot()` has loaded the page.
`chains[p]` is the set of async functions of a page that wait for an answer. A tick is `Poll` (the server
answers `/status`) and `Decide` (the page gets the answer); a load is `LoadText`, `LoadStamp`, `Paint`, one step per
fetch, and between any two steps other chains of the page, its editor and the server move. `Gesture` begins or ends what makes a tick return before it asks:
the add button, a popup, a delete that waits for its confirmation, a post under way or failed. `Lose` is a fetch of a load that goes wrong: when the fetch of the text is
rejected the load ends, but when it is answered with an error the body of that answer is painted as the text (`NoText`), since nothing looks at `r.ok`;
without its stamps the load goes on with stamp 0. `BumpSeen` is the server's stamp, with a history variable: `crossed` marks
the loads whose two fetches the stamp falls between. Left out are two delays, that of the editor's own GET (its answer arrives at once) and that of the answer to a save. Agents write
without a revision here: to a page, a guarded write is the same when it is accepted and nothing when it is refused.

**Comments.** `log` is the sequence of what `comments.json` has held; a list that a page fetches is a position in it, so that
*older* and *newer* mean something. `busy` is the handler between its write of `comments.json` and its stamp in `meta.json`, with the lock.
Each page has `MaxChains` slots for its async functions: a tick (`polled`), a list (`list` requested, `listed` arrived),
`load()` (`load` before, `paint` after its stamps), a write (`sent`, `held` when it has written, `answer`). The card is `pending`; `retry`
says that the buttons *painted* offer a retry, which may be out of date. `Lose` loses a request, an answer, a list, a text or a stamp; `NoBump` is a
stamp whose write raises. A thread is its status and whether an agent has written in it, which is all the buttons depend on.
Left out: names, redaction, anchors and the projection as notes; refusals of access (to the page the same as a lost request);
gestures of the composer and an open editor, which hold ticks off as the card does; the undo toast; the gaps of `boot()`, whose end is `Init`; the twin code of
`latex-viewer.html`.

**Sessions.** Each store call of `authroutes.py` is a transaction, so a re-issue is `Verify`, `Reissue`, `Supersede` and the answer `DeliverRead`, with
everything else in between, and so is an ending: `Admit` verifies the session, and `RevokeOne`, `RevokeOthers` or `Logout` revokes in a second transaction, whatever came between. A row descends from a sign-in (`root`); the cookie of a browser, the view and CSRF token of each part of its page are the
client's side, with the one retry of `session.js` and the sign-outs of `account.js`. `Lose` and a restart are the faults. The variables from `ended` on are history.
Left out: who gets a link and how often (rate limits), `session_touch`, `prune`, the audit, blocks, the profile's name.

**Compile.** Every request begins by finding the review there (`Start`). A PUT then waits for the lock, with DELETEs and other PUTs in between, and holds it
from the bump to the end of its enqueue; a DELETE needs it for one step. Requests that poll, recompile or fetch the PDF, and the worker, take no lock, and each read or write of a file is a step.
A text is the number of its PUT, a PDF the text it was made of. Any write may fail. One that fails to make the directory is given up silently (`GiveUp`), any other raises (`Raise`):
in `enqueue` that leaves the review in the set and out of the queue, in a job it makes a failed attempt, and in the record of that attempt it ends the worker thread (`"unwind"`, `"dead"`). A PUT may fail before its bump (`Refuse`), before its
text, and after it before its enqueue (`WriteText`). An asset that was posted counts as a PUT that is refused and may have made the directory. Where a DELETE leaves files
behind is not repeated here (`Revisions` has it), and a review that comes back has no kind any more: nothing compiles it.
Four history variables are the exceptions the properties name: `early` marks a revision the worker read
between a PUT's bump and its text, `caught` a DELETE under the hands of the worker or of a request that had found the review there, `lost` what a restart or a failed
write took from a review (a job, the enqueue of its PUT, or the record of an attempt) until its next job, `gone` the deleted ones.
Tectonic, its jail, downloads and log text are outcomes.

**LineDiff.** One state is a pair of texts; `renderInto` draws their diff, `Click` reveals lines of a fold at its cursor. The table (`Lcs`) and the walk (`Walk`)
are recursive functions on places of the two texts, and so are the segments of the first so many rows (`Segments`), one run of rows (`RunStart`) each time round. The tags `"eq"`, `"del"` and `"add"` are the
code's `' '`, `'-'` and `'+'`. `ShortestDiff` compares the rows with a definition of longest common subsequence that shares nothing with the table.

**Checks.** A script is a sequence of steps (`Program`), and `Turn` is what makes a step take place: it waits for the page unless the machine is slow (`Early`).
The page is what it showed at its last answer, with one outstanding request, which the script may hold, release or refuse. A compile that is awaited ends, or is given up after three minutes (`CompiledGivesUp`, a fault). `Ending` says per script what becomes of a throw, a
dead Chrome and the overall timer. The nine scripts are loading-states, account-page, account-name, resolve-undo, history-compare, mint-spinner,
resolve-viewonly, addressed and cdp-shot. Layout, colour, wording and motion checks are left out, and so are the scripts that only sample rendered
style (admin reskin, theme, palette, reading font, LaTeX canvas, resolve and three-way, share visibility). The dashboard's pair of requests is one.

## Runs

| Run | Question | Result |
|---|---|---|
| `handoff` | one review, two named sessions and unsigned pings, TTL 2, clock to 7 | leases exclusive and renewable, no leftover status, implements `Baton` |
| `longpoll` | two reviews, one session, one client, clock to 4 | no lost wake-up, no flip missed or repeated, every request ends |
| `revisions` | one agent, one reviewer, 2 drafts, 2 failures, 1 write of another handler, assets, DELETE | implements `Document`; drafts, tokens, rounds, labels and fields as stated below; a DELETE is final once nothing that would undo it waits |
| `watcher` | three armed reviews, one watcher, one other session, two slots, two launches and one per review in a window of 1, three children, clock to 6 | no relaunch by itself; tracked children, launches and children not replaced within the caps; signals only for last children |
| `viewer` | one page, one agent, 2 drafts, 2 chains at a time, 1 fetch that fails or answers with an error, gestures, DELETE | no old text under the document's stamp but after a PUT between the fetches of a load; once gestures end, every stamp reaches the page and stale editors are warned |
| `sessions` | two parts of a page, a page of a second browser, 4 session ids, lifetime 2, re-issue at 1, clock 2, 4 requests, 1 fault | links sign in once, ended sign-ins stay out, re-issues neither double a device nor sign anybody out, CSRF tokens fit |
| `compile` | one review, two threads for any request, 1 PUT that is accepted, 1 restart, 1 failed write | queued once, no update lost, PDF labels true, a waiting job brings no deleted review back, every revision attempted |
| `compile_restart` | the same without failed writes | **violated**: a job lost to a restart is never enqueued again by a poll |
| `linediff` | all pairs of texts of up to 5 lines over 2 lines, context 1, gaps of 2, one line per click | diffs are shortest and numbered truly, no fold ever hides a change |
| `checks` | each of nine scripts, 2 faults | no false alarm without a fault; exit code 0 means passed, or a Chrome that died under a script of `main().catch`; every run ends |
| `comments` | one page with 2 chains, one agent, 1 draft, 2 writes (an agent may make a third), 1 PUT, 1 fault | at rest the threads are those of the stamp, every stamp is taken up, a comment submitted alone is kept |
| `comments_draft` | the same with 2 drafts and without a PUT | **violated**: a second comment takes the card of the first, whose text is lost when it fails |

Why the bounds are enough to be interesting. In `handoff` a TTL of 2 and 7 ticks let a lease
be granted, renewed, lapse, be taken over and lapse again, with Sends and reclaims in between.
In `longpoll` two reviews make a reply carry one row while the other flips later, and 4 ticks
allow four writes. In `watcher` three reviews compete for two slots, so that one is deferred and drained, a review sent again has its running child replaced, each
review can be refused by its own cap, and launches leave the window; the other session makes claims fail. Every flip and claim takes a tick of its own: six are the fewest for three launches.
TLC compares the states of this run by `View` and up to the reviews' names (`MCWatcher`): `View` drops times that nothing compares any more, the place in `handle` outside of it, and the ghost `grants`, none of which a step or a property of the run reads. In `revisions` two drafts fill two rounds, one of each plane, so that a swapped label shows; two failures let a second PUT meet, and fail in turn over, what the first one left (a torn
round over a whole one), or cut a DELETE short after a PUT; a write of another handler, an asset and a DELETE may each wait while the others run.
TLC compares its states by `Live` (`MCRevisions`), which drops `put` and `held` of requests that have ended: no step reads them again. In `viewer` two chains are enough for
two loads to overtake each other, two drafts for a load to be overtaken by a second PUT, and the page may reopen its editor any number of times;
failed writes are left to `revisions` there (`MaxFailures = 0`), as `CurrentUnlessCrossed` excludes them. `LiveView` (`MCViewer`) drops in the same way what no guard, fairness condition or property of the run reads any more, and everything after a DELETE, of which these properties do not speak (a review that a waiting PUT brings back has no owner, and answers the page no more).
In `sessions` four ids are the fewest for two re-issues that overlap and a sign-in beside them; with a lifetime of 2 and a re-issue at 1 a session is
re-issued, expires and is ended within the clock; three clients give a page that another part of it, and another browser, work against; four requests are
a read, a re-issue, an ending and one more. In `compile` a PUT falls before, into and after the compile of creation or of a recompile, another one waits and is refused, or a DELETE, a poll, a recompile or a fetch of the PDF goes on meanwhile; the failed write or the restart falls
anywhere; reviews do not interact but through the queue's order (the proofs have any number of all of these).
In `linediff` five lines hold two changes with a foldable gap between them and folds at both ends; two lines make repeated lines, where greedy matching goes wrong.
In `checks` two faults are a failed answer and a Chrome that dies or wedges over it; the scripts have no other parameter.
In `comments` two chains are a tick or load and a post, click or second load overtaking it; one draft is posted, lost on the way there or back, retried, clicked twice and discarded (two contend for
the card in `comments_draft`); the agent's third write makes a request of the page out of date; a fault falls anywhere (request, answer, list, text, stamp). The theorems below
have none of these bounds except those in the guards of `Tick`, `Send`, `Fail`, `Crash`, `Arrive`, `Snapshot`, `Fault`, `Restart`, `Poll` and `Lose`, whose values are arbitrary naturals there.

### Fairness

`LongPollFairness` is weak fairness of `Scan` and `Expire` for each waiter: a thread that contends for the
lock gets it (every section that holds the lock is finite), and `Condition.wait(remaining)`
returns at the deadline. Nothing else is fair there: nobody has to send, to claim or to hand back.

`ViewerFairness` is weak fairness of `Poll` (`setInterval` keeps firing for an open page), of each
await of a page (a fetch answers or fails; a failed one is not retried, but there are ticks), and of the writes of the PUT that holds the lock.
Nobody has to write, to open or close an editor, or to save, and nobody has to end a gesture: `Poll` is not enabled during one, and that gestures end is the
premise of `StampsReachPage` and `EditorIsWarned`. A failed card that is left standing holds off both.

`Compile`'s `FairSpec` is weak fairness of the worker thread (until it is dead) and of each request once it is begun, and strong fairness, per review, of the poll that begins one: an open page asks every 2 s and the server
starts a thread for every request, so that only the model's number of threads may hold it off for a moment.
Nobody has to PUT, recompile or delete.

`Checks`' `FairSpec` is weak fairness of the script, of the page, and of a compile the script waits for. A fault is never due.

`Comments`' `FairSpec` is weak fairness, per slot, of the server's and the page's steps and of the agents' stamps, and strong fairness of `Poll`: the interval fires whatever else is under way, but in the
model `MaxChains` may hold it off for a moment again and again. `Poll` is not enabled while a card is there: that a reader deals with a failed card is not assumed but is the
premise of `ThreadsReachPage`.

The other runs have no fairness.

### Assumptions

- `time.time()` never gives two handoff writes the same instant and does not step back
  (`ReadsClock`). The long-poll's "no flip is missed" depends on it; the code does too.
- `Condition` works as documented, with spurious wake-ups.
- A store transaction of the identity store (SQLite, or its in-memory twin) is atomic.
- A rename is atomic and what was renamed survives a crash of the process.

## What is proved

Every theorem is proved from the named assumptions of its module: the marker values differ from the names, the bounds are naturals, and the sets
of reviews, sessions, waiters, writers and threads are arbitrary. Beyond that, `RidAssumption` makes the reviews of `Compile` finitely many (the queue's length is bounded by them), `JtiAssumption` and
`JarAssumption` say that session ids are positive and no two browsers start with one cookie, `TimeAssumption` that a session is re-issued before it expires,
`OpAssumption` that the marker is not the name of a request, `ClientsAssumption` that the requests of `Sessions` are finitely many (its property counts them), and `ScriptAssumption` that the scripts are among the nine.
`LineDiff` assumes of its options only that they are naturals and that a click reveals something. The type invariants are theorems, and no run repeats them.

- **Leases.** `LeaseExclusive` is not inductive: it speaks of grants, while the decision
  is taken on `agent_status`. The invariant `LeaseInv` connects them: a grant that is not the lease on
  disk has lapsed (`GrantsCurrent`). A granted claim then finds every other grant lapsed, either because the
  lease on disk belongs to nobody else, or because it is stale. From it follow
  `LeaseIsExclusive`, `HolderRenews` and, with one lemma per arm, `HandoffImplementsBaton`.
- **Long-poll.** `PollInv` adds that no stamp is newer than the last write, that no cursor is past
  the last write unless its client started there, and that deliveries never exceed
  flips; a new flip's stamp is then beyond every cursor that matters. `NobodySleepsThroughFlip`
  needs no strengthening but the types. `LongPollImplementsHandoff`: every step of a waiter or a client is a handoff call or leaves the handoff alone,
  so that the baton is kept and the leases are exclusive beside any number of waiters.
- **Revisions.** `LockInv` says that the lock's holder, and nobody else, is inside a PUT, and that
  `meta.json` is what it read until it writes the new revision. `ArchiveInv` follows the
  outgoing text through the PUT (the round being written holds the current text, and holds it
  before the overwrite). `TokenInv` says nobody has read a revision that is being
  created. `RoundsWhole` and `Authors` do the same for completeness and labels. Failures and crashes are
  steps like any other in all of these proofs, except that `Authors` is claimed only before the first one,
  as a PUT cut short after the overwrite leaves the old author beside the new text.
  `RevisionsImplementDocument` puts these together: a round belongs to the history once the revision is past it, so `WriteRevision` is the abstract archiving (its round is above all others and whole by then), copies that are torn or about to be written again are above the history, `Overwrite` is the abstract write
  (its predecessor is archived by `ArchiveInv`; if it is guarded, its author has read it by `TokenInv`), a refusal, failure or crash abandons writes that are on their way, and everything else of a PUT is invisible. So a reader of `Document` need
  not know of the five writes. `GuardedWritesReplaceWhatWasRead` states the precondition by itself. `DeletedStaysGoneForGood`: a deleted review has three ways back, a PUT that waits and that the lock would let through,
  a write of `meta.json` that waits and finds the directory, or an asset that waits beside it and makes one; once none of them is there, none comes, as every request begins by finding the review.

- **Viewer.** `ViewerImplementsRevisions` says that whatever pages do is a behaviour of `Revisions`, so the theorems above hold beside them.
  `CurrentUnlessCrossed` speaks of pages with nothing under way; `PageInv` extends it to every moment: no stamp that a page or a request holds is newer than the
  document's, and what a load has fetched is the document if its stamp is the last and no PUT crossed it. In the middle of a PUT the
  text is ahead of its stamp (`Stamped` is false), and the stamp, when it comes, is newer than all the pages hold. A load whose text was an error's body is the one exception, and it is named by what it shows, not by the load: `Shows`
  admits that body, and no older text.

- **Watcher.** `SpendInv` counts, per review: children launched, plus one if it is pending, plus one for a row of the last reply not yet taken, plus one while it is in `handle`, never
  exceed the edges delivered; `EdgesSpentOnce` is the case where nothing is under way. `CapsInv` keeps, between the capacity check and the spawn, the room that was found: sweeps in between only make more.
  `LatestInv` relates the handles to the children: what is tracked for a review is its last child, a live last child is tracked (`TracksLatest`), what a sweep has yet to look at is tracked, and while `handle` claims and spawns there is neither a sweep nor a signal.
  From it `SignalFollowsLastChild`, and, as the last children that live map one to one to what is tracked, `LastChildrenWithinCap`.
  `WatcherImplementsHandoff`: the claims, the hand-backs for crashed children and what the launched agents do are handoff calls by sessions like any other; given the types, every step of the watcher is one of `HandoffSpec`,
  which the theorems about leases, statuses and the baton then cover too.
- **Comments.** `Base` adds to the types what a chain carries (what it posts is a draft, what it has listed is in the log) and that the holder of the lock is a request that has written. Every step moves at most one chain,
  in one of seven ways (`Succ`) or by recording a list or a stamp (`Records`). `ThreadsCurrent` speaks of pages at rest; `ThreadsInv` extends it to every chain: a page that recorded the review's stamp shows what it
  announced, or is in doubt, or has a list on its way that will (`Reading`), and a load whose stamps did not move has listed it (`Fits`). `TextKeptAlone` rests on `KeptInv`: as long as the draft on the card is not
  mixed with another, every post under way on its page is of it (`Own`), so no success of another post can clear it, and a success is answered only to a post that is filed (`Answers`).
- **Sessions.** `SessionsInv` says who descends from whom: every row's root was made, and a re-issue under way holds a session of the sign-in it will mint for. An ending then either finds
  that re-issue (and marks the sign-in `crossed`) or meets none, from which `EndedSessionsStayOut`. `LinkSignsInOnceCorrect` and `CsrfTokensFit` have invariants of their own
  (`LinkInv`: once the link has signed somebody in, its nonce is in the table; `CsrfInv`: a page that shows itself signed in has the token of its
  browser's cookie, and what it asks carries that cookie, or another part of the browser got one since).
  `OneDevicePerSignIn` counts; its invariant `OneKept` does not: of the live sessions of a sign-in, one at most is not the cookie of a re-issue between its mint and its revoke. A mint makes the session it verified
  the superseded one and the new one the one that is kept; the count follows, as those cookies are no more than the requests that carry them. `RefreshSignsNobodyOut` needs to know where a cookie may be
  (`CookieInv`: one browser and that browser's requests; one on its way in an answer is nowhere else), so that the revoke of a re-issue hits no cookie but the one its own answer replaces, and that a session on its way is
  revoked only if its sign-in was ended (`FreshLives`).
- **Compile.** `Base` is the types (`Types`: with them what a request is at each place, `Fits`, and that a PUT beyond its wait has the lock) and `Queue`: entries are distinct and in the set; a
  request between the set and the queue has its review in the set, is alone and is not in the queue; what runs is not in the set; what is in the set and not `lost` is in the queue or on its way. `QueuedOnceCorrect` is read off it.
  Every request step moves one thread (`Moves`, `Follows`).
  `Current` follows the text of a review that lives and has lost nothing (`Living`): it is the revision's, and the review is queued, or the job under way is `Due` to end at it (it has yet to read it, or its `redo` is set), or the review is at rest and settled.
  `Names` follows a label: texts, PDFs and labels only grow, so what is read first bounds what is read after; it needs nothing but the types, so that it holds whatever was lost. `Deleted` follows the jobs that a DELETE finds in the queue.
- **LineDiff.** Table, walk and segments are recursive functions, and TLAPS has neither a usable theorem that such a function exists nor an induction rule (the library's take an operator). Both are proved here for
  sets whose elements have a rank, from the well-foundedness of the naturals: `RecursiveFunction` (the step is given as a function of functions, so that no operator is needed) and `RankInduction` (over a set instead of a predicate).
  With them the equations hold (`LcsIs`, `WalkIs`) and the induction goes backwards over the places: from each place on, the walk tells what is left of both texts and has as many equal rows as the table says
  (`Walked`), and no common subsequence of what is left is longer (`LcsBounds`: two subsequences that match either start with the same line, which both lose, or one of them misses its side's first line). Neither refers to the
  order in which the walk breaks a tie: `DiffCorrect` would hold of the other order too. `FoldsCorrect` follows from what each run adds to the segments before it (`AddRunSegments`): they cover the rows so far, alternate, hide no kept
  row, and end visible if the last row is kept; `FoldInv` carries this and the cursors through the clicks.
- **Checks.** `ZeroMeansPassedCorrect` goes through the ways a run ends: the last step ends it with 0 only if no check has failed; a throw, an abort, a missing page, the overall timer and a failed check end it with something else in
  every script; and a Chrome that dies under an awaited answer ends it with 0 exactly in the scripts of `main().catch`, which do not wait for the promise that is left. So the theorem does not say that 0 means passed: it says what else it may mean.
  `ChecksTypeCorrect` rests on one lemma per table (`TablesWellFormed`): every step of every script asks for a key of the page or of the server, or names a kind of request, so that what the page and
  the server keep stays a number per key whatever is answered, refused or lost.

Only model-checked: `NoFalseAlarm` of `Checks`. It speaks of the runs without a fault of nine given tables, from a dozen initial states; those runs are the same whatever `MaxFaults` is, fewer scripts have fewer of them, and TLC
explores them all, so that here the run says all that a theorem would. And
all liveness (`EveryWaitEnds`, `StampsReachPage`, `EditorIsWarned`, `EveryRevisionAttempted`, `EveryRunEnds`, `ThreadsReachPage`), which is out of the prover's reach.

## Findings

Two runs end in a counterexample, against what the repository says of the program:

1. `compile_restart`: the queue is in memory and the status on disk. After a restart with a job queued or running, the status says so for ever: the self-heal takes it for work in progress, although
   `src/docs/process/epics/latex-paper-review-plan.md:110` lists "a pending job lost to a container recreate" among what it covers.
2. `comments_draft`: a page has one card for a comment on its way. A second one submitted meanwhile takes it; if the first then fails, its text is nowhere, while `src/web/app/viewer.html:772`
   promises "Not posted — your text is kept."

Properties that are stated in the modules, that the code breaks, and that no run checks, each beside the weaker one that holds:

- `Revisions.RoundsTrueAuthor`: `put_source` writes the text before its attribution, so a PUT cut short in between leaves the
  new draft with the old author, and the next `round.json` repeats it. `RoundsTrueAuthorUndisturbed` holds.
- `Revisions.DeletedStaysDeleted`: access and existence are checked before the lock. A PUT that waits for the lock
  while a DELETE runs recreates the directory, with a `meta.json` that has no owner: the
  reviews list shows a review that nobody owns. An asset that waits makes the directory too, and a comment or handoff that waits behind it then writes that `meta.json`. `DeletedForGood` holds: once none of these waits, the review stays away.
- `Watcher.CeilingsHold`: the child of a review that is sent again while it still runs is replaced in `_inflight`; it
  counts no more, so that more children live than the operator's cap. `TrackedWithinCaps` holds, and `LatestWithinCap`: being replaced is the only way out of the count.
- `Watcher.SignalSparesOthers`: the signal for a crashed child does not look at the owner: it hands back the turn of the session
  that has taken the review over since. `SignalSparesNewChild` holds: it is never about a child that the watcher itself has replaced.
- `Viewer.PageIsCurrent`: `load()` reads the text and then the stamps, and takes the later stamp for the earlier text: after a PUT in between the
  page shows the old text, and no tick reloads it before the next PUT. An error's answer to the fetch of the text does the same: `viewer.html:691` does not look at `r.ok`, and the body (a 5xx, a 401) is
  painted as the document under the document's stamp. `CurrentUnlessCrossed` holds: nothing else does.
- `Sessions.NoPhantomDevice`: two re-issues that overlap leave two rows for one sign-in; ending the one that is listed for this device leaves the other. `OneDevicePerSignIn` holds.

Met while modelling, below the level of a property:

- `session.js` retries once with the cookie it has; if the answer that carried the re-issued cookie was lost, that cookie is the superseded one and the page shows the sign-in, though nothing but an answer was lost (`session.js:8-12`).
- The account menu leaves for `/` whatever the logout answered: a logout refused for an outdated CSRF token leaves the user signed in (`account.js:238-243`).
- `snapshot_round` bumps the revision before `source.md` is written, and the compile worker reads without the lock: it may label an old text with the new revision until the recompile the same PUT enqueues (`early`).
- `_write_status` makes the directory it writes into, and so recreates that of a review deleted under the hands of the worker or of a request that had found it there (`caught`); a comment's write makes none, and answers 500. A LaTeX review that a waiting PUT brings back has lost its kind and is never compiled.
- `enqueue` adds the review to its set before it writes the status; when that write raises, the review is in the set and not in the queue, and every later enqueue returns at once: it is not compiled again before a restart (`compiler.py:81-83`, `Abandoned`).
- The worker records an exception of a job as a failed compile; when that record raises too, the exception leaves `_worker` and the thread ends, with nobody to start another: no review is compiled before a restart (`compiler.py:95-97`, `worker.at = "dead"`).
- A PUT that fails after its bump (`reviews.py:206-217`) never reaches its enqueue. The next poll's self-heal enqueues the review, unless its status is queued or running; until then the last attempt is at the revision before.
- A copy of a round that is cut short leaves a torn `source.md` in `history/`, over a whole one if the round had been copied by an earlier PUT that failed later. The draft is still the document then, and the next PUT copies it again; but if the earlier PUT had also written `round.json`, `GET /history/n` answers with the torn text until then.
- A failed comment card or an open popup beside the editor holds off the tick before it looks at the editor: the notice of a newer revision does not come until the save is refused (`viewer.html:1144`, `1154`).
- Comments: a stamp set between the list and the stamps of a `load()` is recorded as seen; a list that is lost after `lastCmt` was recorded is swallowed; the retry card is not painted again when it is clicked, so a double click posts
  twice, as a lost answer and a retry do; a failed card holds off the live reload until it is dealt with; an undo may reopen what somebody else has resolved since; a page with an old list may delete a comment an agent has replied to.
- Check scripts whose end is `main().catch` exit with 0 when Chrome dies under an awaited answer, though they say "exit 0 = pass" (`resolve-viewonly-check.mjs:8`, `history-compare-check.mjs:27`); those without an overall timer
  hang on a wedged Chrome; ends without a target leave Chrome and its profile behind. The account page's "zero OTHER sessions" asks with a cookie that has just been ended, so it cannot fail. A second run within 15 minutes meets the link limit and aborts.
- `watcher/loop.py`: a transport error in a claim ends `run()` after the cursor has moved past the rows of that reply, so those rows come again only with a new flip.

The watcher is shelved at this commit (`src/docs/operations/watcher.md`), its code is kept and tested.

## Plan

Modelled so far, in the order of the first plan: baton, long-poll, revisions, watcher, viewer, comments, compile, sessions; and, as the code has them, the line diff and the check scripts. What is left, in this order:

1. `Custody`: owners, shares, super-read, decisions taken before the lock, the reconciliation process as a second writer of `meta.json`.
2. `Accounts`: activation, bans, two administrators, token revocation; issuing and rate limits of links beside `Sessions`.
3. `Update`: the deployment script (a run killed before its gate leaves a rollback point that never passed one) and the wrapper's self-update.

Theorems worth proving then: of `Custody`, that no request by somebody without access changes a review, and that every write of the owner field survives the other writer unless their read-modify-writes overlap; of `Accounts`, that an administrator
remains; of `Update`, that the rollback point is an image that passed its gate.

## Not modelled

Rendering and page layout, the other web pages (forms over the HTTP API, no state that outlives a page), the MCP wrapper
(a translation of calls without state), assets (one file per call; that a post makes the directory is `Attach`), templates and MIME types (pure data), tests and deployment
configuration; and, until the plan gets there, custody, accounts, the reconciliation tool and the two updaters. What each module leaves out of the code it models is said with it above.
