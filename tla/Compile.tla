------------------------------- MODULE Compile -------------------------------
(***************************************************************************)
(* The compile worker of src/latex_review: one thread drains a queue of    *)
(* review ids and turns each review's source into a PDF beside it, while   *)
(* request threads put new sources, poll, recompile, fetch the PDF and     *)
(* delete the review.                                                      *)
(*                                                                         *)
(* PUT and DELETE find the review there and then wait for store.lock,      *)
(* which they hold to their last step; the worker and the GETs take no     *)
(* lock at all, so every file they read or write is a step of its own.     *)
(* Any write may fail.  The queue and the three coalescing sets live in    *)
(* memory: a restart forgets them and keeps the files.                     *)
(*                                                                         *)
(* A text is the number of the PUT that wrote it; a PDF is the text it was *)
(* made from.  Wherever no PUT is under way, revision n has text n.        *)
(***************************************************************************)
EXTENDS Integers, Sequences, FiniteSets

CONSTANTS
    Rid, Thread, None,
    MaxPuts, MaxRestarts,  \* bounds: PUTs of one review, restarts of the server
    MaxFaults              \* bound: writes that fail

ASSUME BoundsAssumption == MaxPuts \in Nat /\ MaxRestarts \in Nat /\ MaxFaults \in Nat
ASSUME RidAssumption == IsFiniteSet(Rid)
ASSUME NoneAssumption == None \notin Rid /\ None \notin Thread /\ None \notin Nat

VARIABLES
    rev,      \* meta.json's revision
    text,     \* source.md
    pdf,      \* paper.pdf, or None
    status,   \* status.json, or None
    dir,      \* the review's directory exists
    gone,     \* the review was deleted
    q, queued, running, redo,
    worker,   \* where the compile thread is, and what it has read
    thread,   \* the request each server thread handles
    lock,     \* the holder of store.lock
    restarts, faults,
    early,    \* history: the reviews whose revision the worker read without its text
    caught,   \* history: the reviews deleted under the hands of the worker or a request
    lost      \* history: the reviews a restart or a failed write cost a job, the enqueue
              \* of a PUT, or the record of an attempt, and not taken up since

disk == <<rev, text, pdf, status, dir, gone>>
memory == <<q, queued, running, redo>>
history == <<early, caught, lost>>
vars == <<rev, text, pdf, status, dir, gone, q, queued, running, redo, worker, thread,
          lock, restarts, faults, early, caught, lost>>

Revision == 0..MaxPuts
State == {"queued", "running", "ok", "failed"}
Status == [state : State, revision : Revision, pdfRevision : Revision \cup {None}]
ASSUME StatusAssumption == None \notin Status
Idle == [op |-> "none", rid |-> None, at |-> "done", label |-> None, bytes |-> None]
Free == [at |-> "idle", rev |-> 0, text |-> None, ok |-> FALSE]

Ops == {"put", "get", "recompile"}

(* The files, the queue, the sets, the worker and the requests hold what    *)
(* the code can put there.                                                 *)
CompileTypeOK ==
    /\ rev \in [Rid -> Revision]
    /\ text \in [Rid -> Revision]
    /\ pdf \in [Rid -> Revision \cup {None}]
    /\ status \in [Rid -> Status \cup {None}]
    /\ dir \in [Rid -> BOOLEAN]
    /\ gone \subseteq Rid
    /\ q \in Seq(Rid) /\ queued \subseteq Rid /\ redo \subseteq Rid
    /\ running \in Rid \cup {None}
    /\ worker \in [at : {"idle", "begin", "mark", "prepare", "build", "replace", "record",
                         "error", "finish", "unwind", "dead"},
                   rev : Revision, text : Revision \cup {None}, ok : BOOLEAN]
    /\ thread \in [Thread -> [op : Ops \cup {"none"},
                              rid : Rid \cup {None},
                              at : {"done", "wait", "write", "enqueue", "status", "queue",
                                    "look", "compare", "label", "bytes", "reply"},
                              label : Revision \cup {None},
                              bytes : Revision \cup {None}]]
    /\ lock \in Thread \cup {None}
    /\ restarts \in 0..MaxRestarts /\ faults \in 0..MaxFaults
    /\ early \subseteq Rid /\ caught \subseteq Rid /\ lost \subseteq Rid

\* create() has written revision 0 and enqueued it; or the review was made with
\* the feature off, and nothing of it is compiled.
Init ==
    /\ rev = [r \in Rid |-> 0] /\ text = rev
    /\ pdf = [r \in Rid |-> None]
    /\ queued \in SUBSET Rid
    /\ q \in [1..Cardinality(queued) -> queued] /\ \A r \in queued : \E i \in DOMAIN q : q[i] = r
    /\ status = [r \in Rid |-> IF r \in queued
                               THEN [state |-> "queued", revision |-> 0, pdfRevision |-> None]
                               ELSE None]
    /\ dir = [r \in Rid |-> TRUE] /\ gone = {}
    /\ running = None /\ redo = {} /\ worker = Free
    /\ thread = [t \in Thread |-> Idle]
    /\ lock = None /\ restarts = 0 /\ faults = 0
    /\ early = {} /\ caught = {} /\ lost = {}

-----------------------------------------------------------------------------
(* status.json.  A write keeps the pdfRevision on record unless it brings  *)
(* one, and makes the directories it needs.  When they cannot be made it   *)
(* is given up without a word; when the file cannot be written it raises.  *)

RecordedPdf(r) == IF status[r] = None THEN None ELSE status[r].pdfRevision
WriteStatus(r, s, n, p) ==
    /\ status' = [status EXCEPT ![r] = [state |-> s, revision |-> n, pdfRevision |-> p]]
    /\ dir' = [dir EXCEPT ![r] = TRUE]
    /\ UNCHANGED faults
KeepStatus(r, s, n) == WriteStatus(r, s, n, RecordedPdf(r))

Fault == faults < MaxFaults /\ faults' = faults + 1
GiveUp == Fault /\ UNCHANGED <<status, dir>>
Raise(r) ==
    /\ Fault
    /\ dir' \in {dir, [dir EXCEPT ![r] = TRUE]}
    /\ UNCHANGED status

-----------------------------------------------------------------------------
(* enqueue(), which PUT, the recompile and the self-heal end with.         *)

Ends(t) == thread' = [thread EXCEPT ![t] = Idle]
Done(t) == thread' = [thread EXCEPT ![t] = IF thread[t].op = "get"
                                           THEN [thread[t] EXCEPT !.at = "label", !.label = None]
                                           ELSE Idle]
Goto(t, at) == thread' = [thread EXCEPT ![t].at = at]
Release(t) == lock' = IF lock = t THEN None ELSE lock

EnqueueTestTwice(t) ==
    LET r == thread[t].rid
    IN  /\ thread[t].at = "enqueue"
        /\ \/ r = running /\ redo' = redo \cup {r} /\ Done(t) /\ Release(t) /\ UNCHANGED queued
           \/ /\ r # running
              /\ queued' = queued \cup {r}
              /\ Goto(t, "status") /\ UNCHANGED <<redo, lock>>
        /\ UNCHANGED <<disk, q, running, worker, restarts, faults, history>>
EnqueueTestWithoutRedo(t) ==
    LET r == thread[t].rid
    IN  /\ thread[t].at = "enqueue"
        /\ \/ /\ r = running \/ r \in queued
              /\ Done(t) /\ Release(t) /\ UNCHANGED <<queued, redo>>
           \/ /\ r # running /\ r \notin queued
              /\ queued' = queued \cup {r}
              /\ Goto(t, "status") /\ UNCHANGED <<redo, lock>>
        /\ UNCHANGED <<disk, q, running, worker, restarts, faults, history>>
EnqueueTest(t) ==
    LET r == thread[t].rid
    IN  /\ thread[t].at = "enqueue"
        /\ \/ /\ r = running
              /\ redo' = redo \cup {r}
              /\ Done(t) /\ Release(t) /\ UNCHANGED queued
           \/ /\ r # running /\ r \in queued
              /\ Done(t) /\ Release(t) /\ UNCHANGED <<queued, redo>>
           \/ /\ r # running /\ r \notin queued
              /\ queued' = queued \cup {r}
              /\ Goto(t, "status") /\ UNCHANGED <<redo, lock>>
        /\ UNCHANGED <<disk, q, running, worker, restarts, faults, history>>

\* When the status cannot be written, r is in the set and nothing puts it in the queue.
EnqueueStatus(t) ==
    LET r == thread[t].rid
    IN  /\ thread[t].at = "status"
        /\ \/ /\ KeepStatus(r, "queued", rev[r]) \/ GiveUp
              /\ Goto(t, "queue") /\ UNCHANGED <<lock, lost>>
           \/ Raise(r) /\ lost' = lost \cup {r} /\ Ends(t) /\ Release(t)
        /\ UNCHANGED <<rev, text, pdf, gone, memory, worker, restarts, early, caught>>

EnqueuePut(t) ==
    /\ thread[t].at = "queue"
    /\ q' = Append(q, thread[t].rid)
    /\ Done(t) /\ Release(t)
    /\ UNCHANGED <<disk, queued, running, redo, worker, restarts, faults, history>>

-----------------------------------------------------------------------------
(* The requests.  Every one begins by finding the review there, before it  *)
(* waits for the lock, and none looks again when it has it.  (A review     *)
(* that comes back after its deletion has lost its kind, so that every     *)
(* later request of this module is refused or compiles nothing.)           *)

Start(t, r) ==
    /\ thread[t] = Idle /\ r \notin gone
    /\ \E op \in Ops :
         thread' = [thread EXCEPT ![t] =
                      [Idle EXCEPT !.op = op, !.rid = r,
                                   !.at = CASE op = "get" -> "look"
                                            [] op = "recompile" -> "enqueue"
                                            [] OTHER -> "wait"]]
    /\ UNCHANGED <<disk, memory, worker, lock, restarts, faults, history>>

\* PUT: snapshot_round() bumps the revision...
Snapshot(t) ==
    LET r == thread[t].rid
    IN  /\ thread[t].at = "wait" /\ thread[t].op = "put" /\ lock = None
        /\ rev[r] < MaxPuts
        /\ lock' = t
        /\ rev' = [rev EXCEPT ![r] = @ + 1] /\ dir' = [dir EXCEPT ![r] = TRUE]
        /\ Goto(t, "write")
        /\ UNCHANGED <<text, pdf, status, gone, memory, worker, restarts, faults, history>>

\* ... unless the revision it carries is stale, or snapshot_round() fails before that.
\* (POST /assets, too, waits and then makes the directory: here it is such a PUT.)
Refuse(t) ==
    /\ thread[t].at = "wait" /\ thread[t].op = "put" /\ lock = None
    /\ dir' \in {dir, [dir EXCEPT ![thread[t].rid] = TRUE]}
    /\ Ends(t)
    /\ UNCHANGED <<rev, text, pdf, status, gone, memory, worker, lock, restarts, faults,
                   history>>

\* Only then put_source() writes the text; the review is compiled if it was one of LaTeX
\* when the lock was taken.
WriteText(t) ==
    LET r == thread[t].rid
        new == [text EXCEPT ![r] = rev[r]]
    IN  /\ thread[t].at = "write"
        /\ \/ /\ text' = new
              /\ IF r \in gone THEN Ends(t) /\ Release(t) ELSE Goto(t, "enqueue") /\ UNCHANGED lock
              /\ UNCHANGED <<faults, lost>>
           \/ /\ Fault /\ lost' = lost \cup {r}
              /\ text' \in {text, new}
              /\ Ends(t) /\ Release(t)
        /\ UNCHANGED <<rev, pdf, status, dir, gone, memory, worker, restarts, early, caught>>

\* The worker, or a request, has found r there and may still write.
InHand(r) ==
    \/ running = r /\ worker.at \in {"mark", "prepare", "build", "replace", "record", "error"}
    \/ \E t \in Thread : thread[t].rid = r

\* A DELETE has the lock for one step, and its wait for it concerns nobody.
Delete(t, r) ==
    /\ thread[t] = Idle /\ lock = None /\ r \notin gone
    /\ dir' = [dir EXCEPT ![r] = FALSE]
    /\ rev' = [rev EXCEPT ![r] = 0] /\ text' = [text EXCEPT ![r] = 0]
    /\ pdf' = [pdf EXCEPT ![r] = None] /\ status' = [status EXCEPT ![r] = None]
    /\ gone' = gone \cup {r}
    /\ caught' = IF InHand(r) THEN caught \cup {r} ELSE caught
    /\ UNCHANGED <<memory, worker, thread, lock, restarts, faults, early, lost>>

\* _self_heal() reads the status, then the revision.
HealLook(t) ==
    LET s == status[thread[t].rid]
    IN  /\ thread[t].at = "look"
        /\ IF s = None THEN Goto(t, "enqueue")
           ELSE IF s.state \in {"ok", "failed"}
                THEN thread' = [thread EXCEPT ![t].at = "compare", ![t].label = s.revision]
                ELSE Done(t)
        /\ UNCHANGED <<disk, memory, worker, lock, restarts, faults, history>>
HealCompare(t) ==
    /\ thread[t].at = "compare"
    /\ LET next == [thread[t] EXCEPT !.label = None, !.at = "enqueue"]
       IN  IF thread[t].label < rev[thread[t].rid]
           THEN thread' = [thread EXCEPT ![t] = next]
           ELSE Done(t)
    /\ UNCHANGED <<disk, memory, worker, lock, restarts, faults, history>>

\* GET compile serves the status, and is over; _serve_pdf() reads the label from
\* the status, and then the bytes.
ServeLabel(t) ==
    /\ thread[t].at = "label"
    /\ \/ Ends(t)
       \/ /\ pdf[thread[t].rid] # None
          /\ thread' = [thread EXCEPT ![t].at = "bytes",
                                        ![t].label = RecordedPdf(thread[t].rid)]
    /\ UNCHANGED <<disk, memory, worker, lock, restarts, faults, history>>
ServeBytes(t) ==
    /\ thread[t].at = "bytes"
    /\ thread' = [thread EXCEPT ![t].bytes = pdf[thread[t].rid], ![t].at = "reply"]
    /\ UNCHANGED <<disk, memory, worker, lock, restarts, faults, history>>
Reply(t) ==
    /\ thread[t].at = "reply"
    /\ Ends(t)
    /\ UNCHANGED <<disk, memory, worker, lock, restarts, faults, history>>

-----------------------------------------------------------------------------
(* The worker.  An exception of a job is recorded as a failed compile; one  *)
(* of that record ends the thread, once finally has run.                   *)

Step(at) == worker' = [worker EXCEPT !.at = at]
Leave == worker' = [Free EXCEPT !.at = "finish"]
Throw == worker' = [Free EXCEPT !.at = "error"]

Take ==
    /\ worker.at = "idle" /\ q # <<>>
    /\ q' = Tail(q) /\ running' = Head(q)
    /\ queued' = queued \ {Head(q)} /\ redo' = redo \ {Head(q)}
    /\ lost' = lost \ {Head(q)}
    /\ Step("begin")
    /\ UNCHANGED <<disk, thread, lock, restarts, faults, early, caught>>

WorkerBeginAnyway ==
    /\ worker.at = "begin"
    /\ worker' = [worker EXCEPT !.at = "mark", !.rev = rev[running]]
    /\ early' = IF text[running] # rev[running] THEN early \cup {running} ELSE early
    /\ UNCHANGED <<disk, memory, thread, lock, restarts, faults, caught, lost>>
WorkerBegin ==
    /\ worker.at = "begin"
    /\ IF ~dir[running] THEN Leave /\ UNCHANGED early
       ELSE /\ worker' = [worker EXCEPT !.at = "mark", !.rev = rev[running]]
            /\ early' = IF text[running] # rev[running] THEN early \cup {running} ELSE early
    /\ UNCHANGED <<disk, memory, thread, lock, restarts, faults, caught, lost>>

WorkerMark ==
    /\ worker.at = "mark"
    /\ \/ (KeepStatus(running, "running", worker.rev) \/ GiveUp) /\ Step("prepare")
       \/ Raise(running) /\ Throw
    /\ UNCHANGED <<rev, text, pdf, gone, memory, thread, lock, restarts, history>>

\* Copying the inputs may raise: a template that cannot be downloaded.
WorkerPrepare ==
    /\ worker.at = "prepare"
    /\ \/ worker' = [worker EXCEPT !.at = "build", !.text = text[running]]
       \/ Throw
    /\ UNCHANGED <<disk, memory, thread, lock, restarts, faults, history>>

\* Tectonic ends, is stopped after 60 s, or cannot be started; a review deleted
\* meanwhile is skipped.
WorkerBuild ==
    /\ worker.at = "build"
    /\ \/ ~dir[running] /\ Leave
       \/ /\ dir[running]
          /\ \/ worker' = [worker EXCEPT !.at = "replace", !.ok = TRUE]
             \/ worker' = [worker EXCEPT !.at = "record", !.text = None]
       \/ Throw
    /\ UNCHANGED <<disk, memory, thread, lock, restarts, faults, history>>

WorkerReplace ==
    /\ worker.at = "replace"
    /\ \/ /\ pdf' = [pdf EXCEPT ![running] = worker.text]
          /\ dir' = [dir EXCEPT ![running] = TRUE]
          /\ worker' = [worker EXCEPT !.at = "record", !.text = None]
          /\ UNCHANGED <<status, faults>>
       \/ Raise(running) /\ Throw /\ UNCHANGED pdf
    /\ UNCHANGED <<rev, text, gone, memory, thread, lock, restarts, history>>

WorkerRecordNamesAttempt ==
    /\ worker.at = "record"
    /\ WriteStatus(running, IF worker.ok THEN "ok" ELSE "failed", worker.rev, worker.rev)
    /\ Leave
    /\ UNCHANGED <<rev, text, pdf, gone, memory, thread, lock, restarts, history>>
WorkerRecord ==
    /\ worker.at = "record"
    /\ \/ /\ IF worker.ok THEN WriteStatus(running, "ok", worker.rev, worker.rev)
                           ELSE KeepStatus(running, "failed", worker.rev)
          /\ Leave /\ UNCHANGED lost
       \/ GiveUp /\ lost' = lost \cup {running} /\ Leave
       \/ Raise(running) /\ Throw /\ UNCHANGED lost
    /\ UNCHANGED <<rev, text, pdf, gone, memory, thread, lock, restarts, early, caught>>

\* The exception is swallowed.
WorkerErrorSilent ==
    /\ worker.at = "error" /\ Leave
    /\ UNCHANGED <<disk, memory, thread, lock, restarts, faults, history>>
WorkerError ==
    /\ worker.at = "error"
    /\ \/ KeepStatus(running, "failed", rev[running]) /\ Leave /\ UNCHANGED lost
       \/ GiveUp /\ lost' = lost \cup {running} /\ Leave
       \/ Raise(running) /\ lost' = lost \cup {running} /\ worker' = [Free EXCEPT !.at = "unwind"]
    /\ UNCHANGED <<rev, text, pdf, gone, memory, thread, lock, restarts, early, caught>>

WorkerFinish ==
    /\ worker.at \in {"finish", "unwind"}
    /\ running' = None
    /\ worker' = IF worker.at = "finish" THEN Free ELSE [Free EXCEPT !.at = "dead"]
    /\ IF running \in redo
       THEN /\ redo' = redo \ {running} /\ queued' = queued \cup {running}
            /\ q' = Append(q, running)
       ELSE UNCHANGED <<redo, queued, q>>
    /\ UNCHANGED <<disk, thread, lock, restarts, faults, history>>

-----------------------------------------------------------------------------
\* The server restarts: threads, queue and sets are gone, the files stay.
Restart ==
    /\ restarts < MaxRestarts /\ restarts' = restarts + 1
    /\ q' = <<>> /\ queued' = {} /\ redo' = {} /\ running' = None
    /\ worker' = Free /\ thread' = [t \in Thread |-> Idle] /\ lock' = None
    /\ lost' = lost \cup {r \in Rid : \/ r \in queued \/ r = running
                                     \/ \E t \in Thread : /\ thread[t].rid = r
                                                         /\ thread[t].op = "put"
                                                         /\ thread[t].at # "wait"}
    /\ UNCHANGED <<disk, faults, early, caught>>

Request(t) ==
    \/ EnqueueTest(t) \/ EnqueueStatus(t) \/ EnqueuePut(t)
    \/ Snapshot(t) \/ Refuse(t) \/ WriteText(t)
    \/ HealLook(t) \/ HealCompare(t) \/ ServeLabel(t) \/ ServeBytes(t) \/ Reply(t)

Worker ==
    \/ Take \/ WorkerBegin \/ WorkerMark \/ WorkerPrepare \/ WorkerBuild
    \/ WorkerReplace \/ WorkerRecord \/ WorkerError \/ WorkerFinish

Next ==
    \/ Worker \/ Restart
    \/ \E t \in Thread : Request(t) \/ \E r \in Rid : Start(t, r) \/ Delete(t, r)

Spec == Init /\ [][Next]_vars

\* Threads of the server run on, and a page that is open polls every 2 s.  The server
\* starts a thread for every request: a poll is served however many requests come, so
\* that it is not kept out for ever by a model that has only so many of them.
StartGet(t, r) == Start(t, r) /\ thread'[t].op = "get"
FairSpec ==
    /\ Spec /\ WF_vars(Worker)
    /\ \A t \in Thread : WF_vars(Request(t))
    /\ \A r \in Rid : SF_vars(\E t \in Thread : StartGet(t, r))

-----------------------------------------------------------------------------
(* A review waits in the queue at most once, whoever enqueues it and        *)
(* however their steps interleave, and what the set says is queued is in    *)
(* the queue or on its way there -- but for a job that was lost between     *)
(* the two.                                                                *)
Jobs == {q[i] : i \in DOMAIN q}
Entering(t) == thread[t].at \in {"status", "queue"}
QueuedOnce ==
    /\ \A i, j \in DOMAIN q : q[i] = q[j] => i = j
    /\ \A t, u \in Thread : Entering(t) /\ Entering(u) /\ thread[t].rid = thread[u].rid => t = u
    /\ \A t \in Thread : Entering(t) => thread[t].rid \in queued \ Jobs
    /\ Jobs \subseteq queued
    /\ queued \ lost \subseteq Jobs \cup {thread[t].rid : t \in {u \in Thread : Entering(u)}}

(* X-PDF-Revision never names a revision newer than the PDF it comes with, *)
(* on disk or in an answer, unless the worker read a revision whose text   *)
(* was not there yet: a PUT was between its bump and its text, or failed   *)
(* there.                                                                  *)
NamesItsPdf ==
    \A r \in Rid \ (early \cup gone) :
        /\ RecordedPdf(r) # None => pdf[r] # None /\ pdf[r] >= RecordedPdf(r)
        /\ \A t \in Thread :
              thread[t].rid = r /\ thread[t].at = "reply" /\ thread[t].label # None
                => thread[t].bytes # None /\ thread[t].bytes >= thread[t].label

(* No update is lost: whenever nothing is queued or being compiled, the    *)
(* last attempt was at the current text, and a PDF it made is of that text *)
(* and named so -- but for a review whose job, enqueue or record was lost  *)
(* to a restart or a failed write, until its next job is taken up.         *)
AtRest(r) ==
    /\ r \notin queued /\ running # r
    /\ \A t \in Thread : thread[t].rid # r
CurrentAtRest ==
    \A r \in Rid \ (gone \cup lost) :
        AtRest(r) /\ status[r] # None =>
            /\ status[r].revision = rev[r]
            /\ status[r].state \in {"ok", "failed"}
            /\ status[r].state = "ok" => pdf[r] = text[r] /\ status[r].pdfRevision = rev[r]

(* A deleted review stays deleted, unless the worker or a request had it   *)
(* in hand when it was deleted: a job that waited in the queue is dropped. *)
DeletedStaysGone == \A r \in gone : dir[r] => r \in caught

(* Every revision is attempted in the end: again and again the last        *)
(* attempt is at the current revision, unless the review is deleted, the   *)
(* worker thread has ended, or a lost job left the review in the set or    *)
(* its status queued or running, which the self-heal takes for work that   *)
(* is going on.                                                            *)
Attempted(r) ==
    /\ status[r] # None
    /\ status[r].state \in {"ok", "failed"} /\ status[r].revision = rev[r]
Abandoned(r) ==
    /\ r \in lost
    /\ r \in queued \/ (status[r] # None /\ status[r].state \in {"queued", "running"})
EveryRevisionAttempted ==
    \A r \in Rid : []<>(Attempted(r) \/ r \in gone \/ worker.at = "dead" \/ Abandoned(r))

(* "a pending job lost to a container recreate" is one of the states the   *)
(* self-heal covers (latex-paper-review-plan.md:110): a restart costs no   *)
(* review its compile.                                                     *)
LostJobsHeal == \A r \in Rid : []<>(Attempted(r) \/ r \in gone)
=============================================================================
