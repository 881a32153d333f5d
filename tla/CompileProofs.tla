---------------------------- MODULE CompileProofs ----------------------------
(***************************************************************************)
(* For any set of reviews, any number of threads, PUTs, restarts and failed *)
(* writes: the files and the queue are type-correct and a review waits at  *)
(* most once, no update is lost when the worker comes to rest, a PDF is    *)
(* never labelled newer than it is, and a job that waits cannot bring back *)
(* a review.                                                               *)
(***************************************************************************)
EXTENDS Compile, FiniteSetTheorems, TLAPS

Stage == {"idle", "begin", "mark", "prepare", "build", "replace", "record", "error", "finish",
          "unwind", "dead"}
Job == [at : Stage, rev : Revision, text : Revision \cup {None}, ok : BOOLEAN]
Place == {"done", "wait", "write", "enqueue", "status", "queue", "look", "compare", "label",
          "bytes", "reply"}
Call == [op : Ops \cup {"none"}, rid : Rid \cup {None}, at : Place,
         label : Revision \cup {None}, bytes : Revision \cup {None}]

\* What a request is, at the place it has come to.
Fits(h) ==
    /\ h.at = "done" => h = Idle
    /\ h.at # "done" => h.rid \in Rid /\ h.op \in Ops
    /\ h.at \in {"wait", "write"} => h.op = "put"
    /\ h.at \in {"look", "compare", "label", "bytes", "reply"} => h.op = "get"
    /\ h.at = "compare" => h.label \in Revision

Files ==
    /\ rev \in [Rid -> Revision]
    /\ text \in [Rid -> Revision]
    /\ pdf \in [Rid -> Revision \cup {None}]
    /\ status \in [Rid -> Status \cup {None}]
    /\ dir \in [Rid -> BOOLEAN]
    /\ gone \subseteq Rid
Memory ==
    /\ q \in Seq(Rid) /\ queued \subseteq Rid /\ redo \subseteq Rid
    /\ running \in Rid \cup {None}
Working ==
    /\ worker \in Job
    /\ worker.at \in {"idle", "dead"} <=> running = None
    /\ worker.at \in {"build", "replace"} => worker.text \in Revision
    /\ worker.at \notin {"replace", "record"} => ~worker.ok
Requests ==
    /\ thread \in [Thread -> Call]
    /\ \A t \in Thread : Fits(thread[t])
\* A PUT runs with the lock held, once it has it.
Locking ==
    /\ lock \in Thread \cup {None}
    /\ \A t \in Thread : thread[t].op = "put" /\ thread[t].at # "wait" => lock = t
Rest ==
    /\ restarts \in 0..MaxRestarts /\ faults \in 0..MaxFaults
    /\ early \subseteq Rid /\ caught \subseteq Rid /\ lost \subseteq Rid

Types == Files /\ Memory /\ Working /\ Requests /\ Locking /\ Rest

----------------------------------------------------------------------------
(* Records of the requests, the worker and the statuses, as the steps make *)
(* them.                                                                   *)

LEMMA IdleCall == Idle \in Call /\ Fits(Idle)
BY NoneAssumption DEF Idle, Call, Fits, Place, Ops

LEMMA MovedCall ==
  ASSUME NEW h \in Call, NEW at \in Place
  PROVE  /\ [h EXCEPT !.at = at] \in Call
         /\ [h EXCEPT !.at = at].at = at
         /\ [h EXCEPT !.at = at].op = h.op
         /\ [h EXCEPT !.at = at].rid = h.rid
         /\ [h EXCEPT !.at = at].label = h.label
         /\ [h EXCEPT !.at = at].bytes = h.bytes
BY DEF Call

LEMMA StatusRecord ==
  ASSUME NEW s \in State, NEW n \in Revision, NEW p \in Revision \cup {None}
  PROVE  [state |-> s, revision |-> n, pdfRevision |-> p] \in Status
BY DEF Status

LEMMA RecordedIsRevision ==
  ASSUME Files, NEW r \in Rid PROVE RecordedPdf(r) \in Revision \cup {None}
BY DEF Files, RecordedPdf, Status

----------------------------------------------------------------------------
(* A step of a request moves that request only; a PUT takes the lock when   *)
(* it begins to write, and gives it back when it is over.                  *)

Follows(a, b) ==
    \/ a = "enqueue" /\ b \in {"status", "label", "done"}
    \/ a = "status" /\ b \in {"queue", "done"}
    \/ a = "queue" /\ b \in {"label", "done"}
    \/ a = "wait" /\ b \in {"write", "done"}
    \/ a = "write" /\ b \in {"enqueue", "done"}
    \/ a = "look" /\ b \in {"enqueue", "compare", "label"}
    \/ a = "compare" /\ b \in {"enqueue", "label"}
    \/ a = "label" /\ b \in {"bytes", "done"}
    \/ a = "bytes" /\ b = "reply"
    \/ a = "reply" /\ b = "done"
Moves(t) ==
    \E h \in Call :
        /\ Fits(h)
        /\ thread' = [thread EXCEPT ![t] = h]
        /\ Follows(thread[t].at, h.at)
        /\ h = Idle \/ (h.rid = thread[t].rid /\ h.op = thread[t].op)
        /\ h.op = "put" => lock' = t
        /\ \/ lock' = lock
           \/ lock \in {t, None} /\ lock' \in {t, None}

LEMMA GotoMoves ==
  ASSUME Requests, NEW t \in Thread, NEW at \in Place, Goto(t, at),
         at \in {"write", "enqueue", "status", "queue"}, Follows(thread[t].at, at),
         at = "write" => thread[t].op = "put",
         thread[t].op = "put" => lock' = t,
         lock' = lock \/ (lock = None /\ lock' = t)
  PROVE  Moves(t)
<1> DEFINE h == [thread[t] EXCEPT !.at = at]
<1>1. thread[t] \in Call /\ Fits(thread[t])
  BY DEF Requests
<1>2. h \in Call /\ h.at = at /\ h.op = thread[t].op /\ h.rid = thread[t].rid
  BY <1>1, MovedCall
<1>3. thread' = [thread EXCEPT ![t] = h]
  BY DEF Goto
<1> HIDE DEF h
<1>4. Fits(h)
  BY <1>1, <1>2 DEF Fits, Follows
<1> QED BY <1>2, <1>3, <1>4 DEF Moves

LEMMA EndsMoves ==
  ASSUME Requests, NEW t \in Thread, Ends(t), lock' = lock \/ Release(t),
         Follows(thread[t].at, "done")
  PROVE  Moves(t)
<1>1. Idle \in Call /\ Fits(Idle) /\ Idle.at = "done" /\ Idle.op # "put"
  BY IdleCall DEF Idle
<1> QED BY <1>1 DEF Ends, Release, Moves

LEMMA DoneMoves ==
  ASSUME Requests, NEW t \in Thread, Done(t), lock' = lock \/ Release(t),
         thread[t].at \in {"enqueue", "queue", "look", "compare"}
  PROVE  Moves(t)
<1>1. thread[t] \in Call /\ Fits(thread[t])
  BY DEF Requests
<1>2. CASE thread[t].op = "get"
  <2> DEFINE h == [thread[t] EXCEPT !.at = "label", !.label = None]
  <2>1. h \in Call /\ h.at = "label" /\ h.op = "get" /\ h.rid = thread[t].rid
    BY <1>1, <1>2 DEF Call, Place
  <2>2. thread' = [thread EXCEPT ![t] = h]
    BY <1>2 DEF Done
  <2> HIDE DEF h
  <2>3. Fits(h) /\ Follows(thread[t].at, h.at)
    BY <1>1, <2>1 DEF Fits, Follows, Ops
  <2> QED BY <1>2, <2>1, <2>2, <2>3 DEF Moves, Release
<1>3. CASE thread[t].op # "get"
  <2>1. Ends(t) /\ Follows(thread[t].at, "done")
    BY <1>1, <1>3 DEF Done, Ends, Fits, Follows
  <2> QED BY <2>1, EndsMoves
<1> QED BY <1>2, <1>3

LEMMA RequestMoves ==
  ASSUME Files, Requests, Locking, NEW t \in Thread, Request(t)
  PROVE  Moves(t)
<1>1. thread[t] \in Call /\ Fits(thread[t])
  BY DEF Requests
<1>2. CASE EnqueueTest(t)
  <2>1. thread[t].at = "enqueue" /\ (thread[t].op = "put" => lock = t)
    BY <1>2 DEF EnqueueTest, Locking
  <2>2. CASE Done(t) /\ Release(t)
    BY <2>1, <2>2, DoneMoves
  <2>3. CASE Goto(t, "status") /\ lock' = lock
    BY <2>1, <2>3, GotoMoves DEF Follows, Place
  <2> QED BY <1>2, <2>2, <2>3 DEF EnqueueTest
<1>3. CASE EnqueueStatus(t)
  <2>1. thread[t].at = "status" /\ (thread[t].op = "put" => lock = t)
    BY <1>3 DEF EnqueueStatus, Locking
  <2>2. CASE Goto(t, "queue") /\ lock' = lock
    BY <2>1, <2>2, GotoMoves DEF Follows, Place
  <2>3. CASE Ends(t) /\ Release(t)
    BY <2>1, <2>3, EndsMoves DEF Follows
  <2> QED BY <1>3, <2>2, <2>3 DEF EnqueueStatus
<1>4. CASE EnqueuePut(t)
  BY <1>4, DoneMoves DEF EnqueuePut
<1>5. CASE Snapshot(t)
  BY <1>5, GotoMoves DEF Snapshot, Follows, Place
<1>6. CASE Refuse(t)
  BY <1>6, EndsMoves DEF Refuse, Follows
<1>12. CASE WriteText(t)
  <2>1. thread[t].at = "write" /\ thread[t].op = "put" /\ lock = t
    BY <1>1, <1>12 DEF WriteText, Fits, Locking
  <2>2. CASE Goto(t, "enqueue") /\ lock' = lock
    BY <2>1, <2>2, GotoMoves DEF Follows, Place
  <2>3. CASE Ends(t) /\ Release(t)
    BY <2>1, <2>3, EndsMoves DEF Follows
  <2> QED BY <1>12, <2>2, <2>3 DEF WriteText
<1>7. CASE HealLook(t)
  <2>1. thread[t].at = "look" /\ lock' = lock /\ thread[t].op = "get" /\ thread[t].rid \in Rid
    BY <1>1, <1>7 DEF HealLook, Fits
  <2>2. CASE Goto(t, "enqueue")
    BY <2>1, <2>2, GotoMoves DEF Follows, Place
  <2>3. CASE Done(t)
    BY <2>1, <2>3, DoneMoves
  <2>4. CASE /\ status[thread[t].rid] # None
             /\ thread' = [thread EXCEPT ![t].at = "compare",
                                          ![t].label = status[thread[t].rid].revision]
    <3> DEFINE n == status[thread[t].rid].revision
               h == [thread[t] EXCEPT !.at = "compare", !.label = n]
    <3>1. n \in Revision
      BY <2>1, <2>4 DEF Files, Status
    <3> HIDE DEF n
    <3>2. /\ h \in Call /\ h.at = "compare" /\ h.label = n
          /\ h.op = thread[t].op /\ h.rid = thread[t].rid
      BY <1>1, <3>1 DEF Call, Place
    <3>3. thread' = [thread EXCEPT ![t] = h]
      BY <2>4 DEF n
    <3> HIDE DEF h
    <3>4. Fits(h)
      BY <2>1, <3>1, <3>2 DEF Fits, Ops
    <3> QED BY <2>1, <3>2, <3>3, <3>4 DEF Moves, Follows
  <2> QED BY <1>7, <2>2, <2>3, <2>4 DEF HealLook
<1>8. CASE HealCompare(t)
  <2>1. thread[t].at = "compare" /\ lock' = lock /\ thread[t].op = "get" /\ thread[t].rid \in Rid
    BY <1>1, <1>8 DEF HealCompare, Fits
  <2>2. CASE Done(t)
    BY <2>1, <2>2, DoneMoves
  <2>3. CASE thread' = [thread EXCEPT ![t] = [thread[t] EXCEPT !.label = None, !.at = "enqueue"]]
    <3> DEFINE h == [thread[t] EXCEPT !.label = None, !.at = "enqueue"]
    <3>1. h \in Call /\ h.at = "enqueue" /\ h.op = thread[t].op /\ h.rid = thread[t].rid
      BY <1>1 DEF Call, Place
    <3> HIDE DEF h
    <3>2. Fits(h)
      BY <2>1, <3>1 DEF Fits, Ops
    <3>3. thread' = [thread EXCEPT ![t] = h]
      BY <2>3 DEF h
    <3> QED BY <2>1, <3>1, <3>2, <3>3 DEF Moves, Follows
  <2> QED BY <1>8, <2>2, <2>3 DEF HealCompare
<1>9. CASE ServeLabel(t)
  <2>1. thread[t].at = "label" /\ lock' = lock /\ thread[t].op = "get" /\ thread[t].rid \in Rid
    BY <1>1, <1>9 DEF ServeLabel, Fits
  <2>2. CASE Ends(t)
    BY <2>1, <2>2, EndsMoves DEF Follows
  <2>3. CASE thread' = [thread EXCEPT ![t].at = "bytes", ![t].label = RecordedPdf(thread[t].rid)]
    <3> DEFINE n == RecordedPdf(thread[t].rid)
               h == [thread[t] EXCEPT !.at = "bytes", !.label = n]
    <3>1. n \in Revision \cup {None}
      BY <2>1, RecordedIsRevision
    <3> HIDE DEF n
    <3>2. h \in Call /\ h.at = "bytes" /\ h.op = thread[t].op /\ h.rid = thread[t].rid
      BY <1>1, <3>1 DEF Call, Place
    <3>3. thread' = [thread EXCEPT ![t] = h]
      BY <2>3 DEF n
    <3> HIDE DEF h
    <3>4. Fits(h)
      BY <2>1, <3>2 DEF Fits, Ops
    <3> QED BY <2>1, <3>2, <3>3, <3>4 DEF Moves, Follows
  <2> QED BY <1>9, <2>2, <2>3 DEF ServeLabel
<1>10. CASE ServeBytes(t)
  <2>1. thread[t].at = "bytes" /\ lock' = lock /\ thread[t].op = "get" /\ thread[t].rid \in Rid
    BY <1>1, <1>10 DEF ServeBytes, Fits
  <2> DEFINE n == pdf[thread[t].rid]
             h == [thread[t] EXCEPT !.bytes = n, !.at = "reply"]
  <2>2. n \in Revision \cup {None}
    BY <2>1 DEF Files
  <2>3. h \in Call /\ h.at = "reply" /\ h.op = thread[t].op /\ h.rid = thread[t].rid
    BY <1>1, <2>2 DEF Call, Place
  <2>4. thread' = [thread EXCEPT ![t] = h]
    BY <1>10 DEF ServeBytes
  <2> HIDE DEF h
  <2>5. Fits(h)
    BY <2>1, <2>3 DEF Fits, Ops
  <2> QED BY <2>1, <2>3, <2>4, <2>5 DEF Moves, Follows
<1>11. CASE Reply(t)
  BY <1>11, EndsMoves DEF Reply, Follows
<1> QED BY <1>2, <1>3, <1>4, <1>5, <1>6, <1>7, <1>8, <1>9, <1>10, <1>11, <1>12
       DEF Request

(* A request begins with a review that is there.                           *)
LEMMA StartMoves ==
  ASSUME NEW t \in Thread, NEW r \in Rid, Start(t, r)
  PROVE  /\ thread[t] = Idle /\ r \notin gone
         /\ UNCHANGED <<disk, memory, worker, lock, restarts, faults, history>>
         /\ \E h \in Call : /\ Fits(h) /\ h.rid = r
                            /\ h.at \in {"wait", "look", "enqueue"}
                            /\ h.op = "put" => h.at = "wait"
                            /\ thread' = [thread EXCEPT ![t] = h]
<1>1. PICK op \in Ops : thread' = [thread EXCEPT ![t] =
                          [Idle EXCEPT !.op = op, !.rid = r,
                                       !.at = CASE op = "get" -> "look"
                                                [] op = "recompile" -> "enqueue"
                                                [] OTHER -> "wait"]]
  BY DEF Start
<1> DEFINE at == CASE op = "get" -> "look" [] op = "recompile" -> "enqueue" [] OTHER -> "wait"
           h == [Idle EXCEPT !.op = op, !.rid = r, !.at = at]
<1>2. /\ at \in Place /\ at \in {"wait", "look", "enqueue"}
      /\ op = "put" <=> at = "wait"
      /\ op = "get" <=> at = "look"
  BY DEF Ops, Place
<1>3. thread' = [thread EXCEPT ![t] = h]
  BY <1>1
<1> HIDE DEF at
<1>4. h \in Call /\ h.op = op /\ h.rid = r /\ h.at = at
  BY <1>2 DEF Idle, Call
<1> HIDE DEF h
<1>5. Fits(h)
  BY <1>2, <1>4 DEF Fits
<1> QED BY <1>2, <1>3, <1>4, <1>5 DEF Start

LEMMA StatusWritten ==
  ASSUME Files, NEW r \in Rid, NEW s \in State, NEW n \in Revision,
         NEW p \in Revision \cup {None}, WriteStatus(r, s, n, p)
  PROVE  status' \in [Rid -> Status \cup {None}] /\ dir' \in [Rid -> BOOLEAN]
<1> DEFINE x == [state |-> s, revision |-> n, pdfRevision |-> p]
<1>1. x \in Status
  BY StatusRecord
<1>2. status' = [status EXCEPT ![r] = x] /\ dir' = [dir EXCEPT ![r] = TRUE]
  BY DEF WriteStatus
<1> HIDE DEF x
<1> QED BY <1>1, <1>2 DEF Files

LEMMA StatusKept ==
  ASSUME Files, NEW r \in Rid, NEW s \in State, NEW n \in Revision, KeepStatus(r, s, n)
  PROVE  status' \in [Rid -> Status \cup {None}] /\ dir' \in [Rid -> BOOLEAN]
BY RecordedIsRevision, StatusWritten DEF KeepStatus

LEMMA StatusFailed ==
  ASSUME Files, NEW r \in Rid, GiveUp \/ Raise(r)
  PROVE  status' \in [Rid -> Status \cup {None}] /\ dir' \in [Rid -> BOOLEAN]
BY DEF GiveUp, Raise, Files

LEMMA FilesStep ==
  ASSUME Types, [Next]_vars PROVE Files'
<1> USE DEF Types
<1>1. \A t \in Thread : thread[t].at # "done" => thread[t].rid \in Rid
  BY DEF Requests, Fits
<1>2. worker.at \notin {"idle", "dead"} => running \in Rid
  BY DEF Working, Memory
<1>3. worker.rev \in Revision
  BY DEF Working, Job
<1>4. ASSUME NEW t \in Thread, Request(t) PROVE Files'
  <2>1. CASE EnqueueStatus(t)
    <3>1. /\ thread[t].rid \in Rid
          /\ UNCHANGED <<rev, text, pdf, gone>>
          /\ \/ KeepStatus(thread[t].rid, "queued", rev[thread[t].rid])
             \/ GiveUp \/ Raise(thread[t].rid)
      BY <1>1, <2>1 DEF EnqueueStatus
    <3>2. rev[thread[t].rid] \in Revision /\ "queued" \in State
      BY <3>1 DEF Files, State
    <3>3. status' \in [Rid -> Status \cup {None}] /\ dir' \in [Rid -> BOOLEAN]
      BY <3>1, <3>2, StatusKept, StatusFailed
    <3> QED BY <3>1, <3>3 DEF Files
  <2>2. CASE Snapshot(t)
    <3>1. thread[t].rid \in Rid /\ rev[thread[t].rid] + 1 \in Revision
      BY <1>1, <2>2, BoundsAssumption DEF Snapshot, Files, Revision
    <3>2. rev' \in [Rid -> Revision] /\ dir' \in [Rid -> BOOLEAN]
      BY <2>2, <3>1 DEF Snapshot, Files
    <3> QED BY <2>2, <3>2 DEF Snapshot, Files
  <2>3. CASE Refuse(t)
    BY <1>1, <2>3 DEF Refuse, Files
  <2>4. CASE WriteText(t)
    BY <1>1, <2>4 DEF WriteText, Files
  <2>5. CASE \/ EnqueueTest(t) \/ EnqueuePut(t) \/ HealLook(t) \/ HealCompare(t)
             \/ ServeLabel(t) \/ ServeBytes(t) \/ Reply(t)
    BY <2>5 DEF EnqueueTest, EnqueuePut, HealLook, HealCompare, ServeLabel, ServeBytes, Reply,
                disk, Files
  <2> QED BY <1>4, <2>1, <2>2, <2>3, <2>4, <2>5 DEF Request
<1>5. CASE Worker
  <2>1. CASE WorkerMark
    <3>1. running \in Rid /\ "running" \in State
      BY <1>2, <2>1 DEF WorkerMark, State
    <3> QED BY <1>3, <2>1, <3>1, StatusKept, StatusFailed DEF WorkerMark, Files
  <2>2. CASE WorkerError
    <3>1. running \in Rid /\ rev[running] \in Revision /\ "failed" \in State
      BY <1>2, <2>2 DEF WorkerError, State, Files
    <3> QED BY <2>2, <3>1, StatusKept, StatusFailed DEF WorkerError, Files
  <2>3. CASE WorkerRecord
    <3>1. running \in Rid /\ {"ok", "failed"} \subseteq State
      BY <1>2, <2>3 DEF WorkerRecord, State
    <3>2. status' \in [Rid -> Status \cup {None}] /\ dir' \in [Rid -> BOOLEAN]
      BY <1>3, <2>3, <3>1, StatusKept, StatusWritten, StatusFailed DEF WorkerRecord
    <3> QED BY <2>3, <3>2 DEF WorkerRecord, Files
  <2>4. CASE WorkerReplace
    BY <1>2, <2>4, StatusFailed DEF WorkerReplace, Files, Working
  <2>5. CASE Take \/ WorkerBegin \/ WorkerPrepare \/ WorkerBuild \/ WorkerFinish
    BY <2>5 DEF Take, WorkerBegin, WorkerPrepare, WorkerBuild, WorkerFinish, disk, Files
  <2> QED BY <1>5, <2>1, <2>2, <2>3, <2>4, <2>5 DEF Worker
<1>6. ASSUME NEW t \in Thread, NEW r \in Rid, Start(t, r) PROVE Files'
  BY <1>6, StartMoves DEF disk, Files
<1>7. ASSUME NEW t \in Thread, NEW r \in Rid, Delete(t, r) PROVE Files'
  BY <1>7, BoundsAssumption DEF Delete, Files, Revision
<1>8. CASE Restart \/ UNCHANGED vars
  BY <1>8 DEF Restart, vars, disk, Files
<1> QED BY <1>4, <1>5, <1>6, <1>7, <1>8 DEF Next

\* No step of the worker moves a request or the lock.
LEMMA WorkerAlone ==
  ASSUME Worker PROVE UNCHANGED <<thread, lock, restarts>>
BY DEF Worker, Take, WorkerBegin, WorkerMark, WorkerPrepare, WorkerBuild, WorkerReplace,
       WorkerRecord, WorkerError, WorkerFinish

\* No request moves the worker, nor what it has taken up.
LEMMA RequestAlone ==
  ASSUME NEW t \in Thread, Request(t)
  PROVE  UNCHANGED <<running, worker, gone, restarts, early, caught>>
BY DEF Request, EnqueueTest, EnqueueStatus, EnqueuePut, Snapshot, Refuse, WriteText, HealLook,
       HealCompare, ServeLabel, ServeBytes, Reply, disk, memory, history

LEMMA RequestsStep ==
  ASSUME Types, [Next]_vars PROVE Requests' /\ Locking'
<1> USE DEF Types
<1>1. ASSUME NEW t \in Thread, Request(t) PROVE Requests' /\ Locking'
  <2>1. PICK h \in Call :
          /\ Fits(h)
          /\ thread' = [thread EXCEPT ![t] = h]
          /\ h.op = "put" => lock' = t
          /\ lock' = lock \/ (lock \in {t, None} /\ lock' \in {t, None})
    BY <1>1, RequestMoves DEF Moves
  <2>2. \A u \in Thread : thread'[u] = IF u = t THEN h ELSE thread[u]
    BY <2>1 DEF Requests
  <2>3. Requests'
    BY <2>1 DEF Requests
  <2>4. Locking'
    BY <2>1, <2>2, NoneAssumption DEF Locking
  <2> QED BY <2>3, <2>4
<1>2. ASSUME NEW t \in Thread, NEW r \in Rid, Start(t, r) PROVE Requests' /\ Locking'
  <2>1. PICK h \in Call : /\ Fits(h) /\ thread' = [thread EXCEPT ![t] = h]
                          /\ h.op = "put" => h.at = "wait"
    BY <1>2, StartMoves
  <2> QED BY <1>2, <2>1, StartMoves DEF Requests, Locking
<1>3. CASE Worker
  BY <1>3, WorkerAlone DEF Requests, Locking
<1>4. CASE Restart
  BY <1>4, IdleCall DEF Restart, Requests, Locking, Idle
<1>5. CASE UNCHANGED vars \/ \E t \in Thread, r \in Rid : Delete(t, r)
  BY <1>5 DEF vars, Delete, Requests, Locking
<1> QED BY <1>1, <1>2, <1>3, <1>4, <1>5 DEF Next

LEMMA WorkerMoved ==
  ASSUME NEW w \in Job, NEW at \in Stage
  PROVE  /\ [w EXCEPT !.at = at] \in Job /\ [w EXCEPT !.at = at].at = at
         /\ [w EXCEPT !.at = at].rev = w.rev /\ [w EXCEPT !.at = at].text = w.text
         /\ [w EXCEPT !.at = at].ok = w.ok
BY DEF Job

LEMMA WorkerFreed ==
  /\ Free \in Job /\ Free.at = "idle" /\ ~Free.ok
  /\ \A at \in Stage : /\ [Free EXCEPT !.at = at] \in Job
                       /\ [Free EXCEPT !.at = at].at = at
                       /\ ~[Free EXCEPT !.at = at].ok
<1>1. 0 \in Revision /\ None \in Revision \cup {None}
  BY BoundsAssumption DEF Revision
<1>2. Free \in Job /\ Free.at = "idle" /\ ~Free.ok
  BY <1>1 DEF Free, Job, Stage
<1>3. ASSUME NEW at \in Stage
      PROVE  /\ [Free EXCEPT !.at = at] \in Job
             /\ [Free EXCEPT !.at = at].at = at
             /\ ~[Free EXCEPT !.at = at].ok
  <2>1. /\ [Free EXCEPT !.at = at] \in Job
        /\ [Free EXCEPT !.at = at].at = at
        /\ [Free EXCEPT !.at = at].ok = Free.ok
    BY <1>2, WorkerMoved
  <2> QED BY <1>2, <2>1, Zenon
<1> QED BY <1>2, <1>3

LEMMA WorkerLeaves ==
  /\ Leave => worker' \in Job /\ worker'.at = "finish" /\ ~worker'.ok
  /\ Throw => worker' \in Job /\ worker'.at = "error" /\ ~worker'.ok
BY WorkerFreed DEF Leave, Throw, Stage

LEMMA WorkingStep ==
  ASSUME Types, [Next]_vars PROVE Working'
<1> USE DEF Types
<1>1. /\ worker \in Job
      /\ worker.at \notin {"idle", "dead"} => running \in Rid
      /\ worker.at \notin {"replace", "record"} => ~worker.ok
  BY DEF Working, Memory
<1>2. ASSUME running' = running, running \in Rid, Leave \/ Throw PROVE Working'
  BY <1>2, WorkerLeaves, NoneAssumption DEF Working
<1>3. CASE Take
  <2>1. worker' = [worker EXCEPT !.at = "begin"] /\ running' = Head(q) /\ Head(q) \in Rid
        /\ worker.at = "idle"
    BY <1>3 DEF Take, Step, Memory
  <2>2. worker' \in Job /\ worker'.at = "begin" /\ ~worker'.ok
    BY <1>1, <2>1, WorkerMoved DEF Stage
  <2> QED BY <2>1, <2>2, NoneAssumption DEF Working
<1>4. CASE WorkerBegin
  <2>1. running' = running /\ running \in Rid /\ ~worker.ok
    BY <1>1, <1>4 DEF WorkerBegin, memory
  <2>2. CASE worker' = [worker EXCEPT !.at = "mark", !.rev = rev[running]]
    <3>1. rev[running] \in Revision
      BY <2>1 DEF Files
    <3>2. worker' \in Job /\ worker'.at = "mark" /\ ~worker'.ok
      BY <1>1, <2>1, <2>2, <3>1 DEF Job, Stage
    <3> QED BY <2>1, <3>2, NoneAssumption DEF Working
  <2> QED BY <1>2, <1>4, <2>1, <2>2 DEF WorkerBegin
<1>5. CASE WorkerMark
  <2>1. running' = running /\ running \in Rid /\ ~worker.ok
    BY <1>1, <1>5 DEF WorkerMark, memory
  <2>2. CASE Step("prepare")
    <3>1. worker' \in Job /\ worker'.at = "prepare" /\ ~worker'.ok
      BY <1>1, <2>1, <2>2, WorkerMoved DEF Step, Stage
    <3> QED BY <2>1, <3>1, NoneAssumption DEF Working
  <2> QED BY <1>2, <1>5, <2>1, <2>2 DEF WorkerMark
<1>6. CASE WorkerPrepare
  <2>1. running' = running /\ running \in Rid /\ text[running] \in Revision /\ ~worker.ok
    BY <1>1, <1>6 DEF WorkerPrepare, memory, Files
  <2>2. CASE worker' = [worker EXCEPT !.at = "build", !.text = text[running]]
    <3>1. worker' \in Job /\ worker'.at = "build" /\ worker'.text = text[running] /\ ~worker'.ok
      BY <1>1, <2>1, <2>2 DEF Job, Stage
    <3> QED BY <2>1, <3>1, NoneAssumption DEF Working
  <2> QED BY <1>2, <1>6, <2>1, <2>2 DEF WorkerPrepare
<1>7. CASE WorkerBuild
  <2>1. running' = running /\ running \in Rid /\ worker.text \in Revision /\ ~worker.ok
    BY <1>1, <1>7 DEF WorkerBuild, memory, Working
  <2>2. CASE worker' = [worker EXCEPT !.at = "replace", !.ok = TRUE]
    <3>1. worker' \in Job /\ worker'.at = "replace" /\ worker'.text = worker.text
      BY <1>1, <2>2 DEF Job, Stage
    <3> QED BY <2>1, <3>1, NoneAssumption DEF Working
  <2>3. CASE worker' = [worker EXCEPT !.at = "record", !.text = None]
    <3>1. worker' \in Job /\ worker'.at = "record"
      BY <1>1, <2>3 DEF Job, Stage
    <3> QED BY <2>1, <3>1, NoneAssumption DEF Working
  <2> QED BY <1>2, <1>7, <2>1, <2>2, <2>3 DEF WorkerBuild
<1>8. CASE WorkerReplace
  <2>1. running' = running /\ running \in Rid
    BY <1>1, <1>8 DEF WorkerReplace, memory
  <2>2. CASE worker' = [worker EXCEPT !.at = "record", !.text = None]
    <3>1. worker' \in Job /\ worker'.at = "record"
      BY <1>1, <2>2 DEF Job, Stage
    <3> QED BY <2>1, <3>1, NoneAssumption DEF Working
  <2> QED BY <1>2, <1>8, <2>1, <2>2 DEF WorkerReplace
<1>9. CASE WorkerRecord \/ WorkerError
  <2>1. running' = running /\ running \in Rid
    BY <1>1, <1>9 DEF WorkerRecord, WorkerError, memory
  <2>2. CASE worker' = [Free EXCEPT !.at = "unwind"]
    BY <2>1, <2>2, WorkerFreed, NoneAssumption DEF Working, Stage
  <2> QED BY <1>2, <1>9, <2>1, <2>2 DEF WorkerRecord, WorkerError
<1>10. CASE WorkerFinish \/ Restart
  <2>1. worker' \in {Free, [Free EXCEPT !.at = "dead"]} /\ running' = None
    BY <1>10 DEF WorkerFinish, Restart
  <2> QED BY <2>1, WorkerFreed DEF Working, Stage
<1>11. ASSUME NEW t \in Thread, Request(t) \/ \E r \in Rid : Start(t, r) \/ Delete(t, r)
       PROVE  Working'
  <2>1. UNCHANGED <<worker, running>>
    BY <1>11, StartMoves, RequestAlone DEF Delete, memory
  <2> QED BY <2>1 DEF Working
<1>12. CASE UNCHANGED vars
  BY <1>12 DEF vars, Working
<1> QED BY <1>3, <1>4, <1>5, <1>6, <1>7, <1>8, <1>9, <1>10, <1>11, <1>12 DEF Next, Worker

LEMMA MemoryStep ==
  ASSUME Types, [Next]_vars PROVE Memory'
<1> USE DEF Types
<1>1. \A t \in Thread : thread[t].at # "done" => thread[t].rid \in Rid
  BY DEF Requests, Fits
<1>2. ASSUME NEW t \in Thread, Request(t) PROVE Memory'
  <2>1. CASE EnqueueTest(t)
    BY <1>1, <2>1 DEF EnqueueTest, Memory
  <2>2. CASE EnqueuePut(t)
    <3>1. thread[t].rid \in Rid /\ q' = Append(q, thread[t].rid)
          /\ UNCHANGED <<queued, running, redo>>
      BY <1>1, <2>2 DEF EnqueuePut
    <3> QED BY <3>1 DEF Memory
  <2>3. CASE \/ EnqueueStatus(t) \/ Snapshot(t) \/ Refuse(t) \/ WriteText(t) \/ HealLook(t)
             \/ HealCompare(t) \/ ServeLabel(t) \/ ServeBytes(t) \/ Reply(t)
    BY <2>3 DEF EnqueueStatus, Snapshot, Refuse, WriteText, HealLook, HealCompare, ServeLabel,
                ServeBytes, Reply, memory, Memory
  <2> QED BY <1>2, <2>1, <2>2, <2>3 DEF Request
<1>3. ASSUME NEW t \in Thread, NEW r \in Rid, Start(t, r) \/ Delete(t, r) PROVE Memory'
  BY <1>3, StartMoves DEF Delete, memory, Memory
<1>4. CASE Take
  <2>1. Head(q) \in Rid /\ Tail(q) \in Seq(Rid)
    BY <1>4 DEF Take, Memory
  <2> QED BY <1>4, <2>1 DEF Take, Memory
<1>5. CASE WorkerFinish
  <2>1. running \in Rid
    BY <1>5, NoneAssumption DEF WorkerFinish, Working, Memory
  <2> QED BY <1>5, <2>1 DEF WorkerFinish, Memory
<1>6. CASE \/ WorkerBegin \/ WorkerMark \/ WorkerPrepare \/ WorkerBuild \/ WorkerReplace
           \/ WorkerRecord \/ WorkerError \/ UNCHANGED vars
  BY <1>6 DEF WorkerBegin, WorkerMark, WorkerPrepare, WorkerBuild, WorkerReplace, WorkerRecord,
              WorkerError, vars, memory, Memory
<1>7. CASE Restart
  BY <1>7 DEF Restart, Memory
<1> QED BY <1>2, <1>3, <1>4, <1>5, <1>6, <1>7 DEF Next, Worker

LEMMA FaultCounts ==
  ASSUME Rest, Fault PROVE faults' \in 0..MaxFaults
BY BoundsAssumption DEF Fault, Rest

LEMMA RestStep ==
  ASSUME Types, [Next]_vars PROVE Rest'
<1> USE DEF Types
<1>1. \A t \in Thread : thread[t].at # "done" => thread[t].rid \in Rid
  BY DEF Requests, Fits
<1>2. worker.at \notin {"idle", "dead"} => running \in Rid
  BY DEF Working, Memory
<1>3. ASSUME NEW t \in Thread, Request(t) PROVE Rest'
  <2>1. faults' = faults \/ Fault
    BY <1>3 DEF Request, EnqueueTest, EnqueueStatus, EnqueuePut, Snapshot, Refuse, WriteText,
                HealLook, HealCompare, ServeLabel, ServeBytes, Reply, KeepStatus, WriteStatus,
                GiveUp, Raise
  <2>2. lost' = lost \/ (lost' = lost \cup {thread[t].rid} /\ thread[t].at # "done")
    BY <1>3 DEF Request, EnqueueTest, EnqueueStatus, EnqueuePut, Snapshot, Refuse, WriteText,
                HealLook, HealCompare, ServeLabel, ServeBytes, Reply, history
  <2> QED BY <1>1, <1>3, <2>1, <2>2, FaultCounts, RequestAlone DEF Rest
<1>4. ASSUME NEW t \in Thread, NEW r \in Rid, Start(t, r) \/ Delete(t, r) PROVE Rest'
  BY <1>4, StartMoves DEF Delete, history, Rest
<1>5. CASE Worker
  <2>1. faults' = faults \/ Fault
    BY <1>5 DEF Worker, Take, WorkerBegin, WorkerMark, WorkerPrepare, WorkerBuild, WorkerReplace,
                WorkerRecord, WorkerError, WorkerFinish, KeepStatus, WriteStatus, GiveUp, Raise
  <2>2. /\ caught' = caught
        /\ lost' \subseteq lost \/ (lost' = lost \cup {running} /\ running \in Rid)
        /\ early' = early \/ (early' = early \cup {running} /\ running \in Rid)
    BY <1>2, <1>5 DEF Worker, Take, WorkerBegin, WorkerMark, WorkerPrepare, WorkerBuild,
                WorkerReplace, WorkerRecord, WorkerError, WorkerFinish, history
  <2> QED BY <1>5, <2>1, <2>2, FaultCounts, WorkerAlone DEF Rest
<1>6. CASE Restart
  <2>1. lost' \subseteq Rid
    BY <1>6 DEF Restart, Rest
  <2>2. restarts' \in 0..MaxRestarts
    BY <1>6, BoundsAssumption DEF Restart, Rest
  <2> QED BY <1>6, <2>1, <2>2 DEF Restart, Rest
<1>7. CASE UNCHANGED vars
  BY <1>7 DEF vars, Rest
<1> QED BY <1>3, <1>4, <1>5, <1>6, <1>7 DEF Next

LEMMA TypesStep ==
  ASSUME Types, [Next]_vars PROVE Types'
BY FilesStep, RequestsStep, WorkingStep, MemoryStep, RestStep DEF Types

----------------------------------------------------------------------------
(* The queue: what waits is queued, once, and so is what is about to wait;  *)
(* what is queued waits or is about to, but for what was lost.             *)

InQueue(r) == \E i \in DOMAIN q : q[i] = r
Queue ==
    /\ \A i, j \in DOMAIN q : q[i] = q[j] => i = j
    /\ \A i \in DOMAIN q : q[i] \in queued
    /\ \A t \in Thread : Entering(t) => thread[t].rid \in queued /\ ~InQueue(thread[t].rid)
    /\ \A t, u \in Thread : Entering(t) /\ Entering(u) /\ thread[t].rid = thread[u].rid => t = u
    /\ \A r \in queued \ lost : InQueue(r) \/ \E t \in Thread : Entering(t) /\ thread[t].rid = r
    /\ running \notin queued

LEMMA AppendOne ==
  ASSUME NEW s \in Seq(Rid), NEW r \in Rid
  PROVE  /\ DOMAIN s = 1..Len(s) /\ Len(s) \in Nat
         /\ DOMAIN Append(s, r) = 1..(Len(s) + 1)
         /\ \A i \in DOMAIN s : Append(s, r)[i] = s[i]
         /\ Append(s, r)[Len(s) + 1] = r
OBVIOUS

LEMMA TailOne ==
  ASSUME NEW s \in Seq(Rid), s # <<>>
  PROVE  /\ DOMAIN s = 1..Len(s) /\ Len(s) \in Nat /\ Len(s) >= 1
         /\ Head(s) = s[1]
         /\ DOMAIN Tail(s) = 1..(Len(s) - 1)
         /\ \A i \in DOMAIN Tail(s) : Tail(s)[i] = s[i + 1]
OBVIOUS

LEMMA QueueAppend ==
  ASSUME Types, Queue, NEW r \in Rid, q' = Append(q, r), r \notin {q[i] : i \in DOMAIN q}
  PROVE  /\ \A i, j \in DOMAIN q' : q'[i] = q'[j] => i = j
         /\ \A x : InQueue(x)' <=> InQueue(x) \/ x = r
<1>1. /\ DOMAIN q = 1..Len(q) /\ Len(q) \in Nat
      /\ DOMAIN q' = 1..(Len(q) + 1)
      /\ \A i \in DOMAIN q : q'[i] = q[i]
      /\ q'[Len(q) + 1] = r
  BY AppendOne DEF Types, Memory
<1>2. \A i \in DOMAIN q' : i \in DOMAIN q \/ i = Len(q) + 1
  BY <1>1
<1>3. \A i, j \in DOMAIN q' : q'[i] = q'[j] => i = j
  BY <1>1, <1>2 DEF Queue
<1>4. DOMAIN q \subseteq DOMAIN q' /\ Len(q) + 1 \in DOMAIN q'
  BY <1>1
<1> QED BY <1>1, <1>2, <1>3, <1>4 DEF InQueue

\* A request that is not at enqueue() does not disturb the queue.
LEMMA QueueOthers ==
  ASSUME Types, Queue, NEW t \in Thread, UNCHANGED memory, NEW h \in Call,
         thread' = [thread EXCEPT ![t] = h], lost \subseteq lost',
         h.at \in {"status", "queue"} => Entering(t) /\ h.rid = thread[t].rid,
         Entering(t) => h.at \in {"status", "queue"} \/ thread[t].rid \in lost'
  PROVE  Queue'
<1>1. /\ UNCHANGED <<q, queued, running>>
      /\ \A u \in Thread : thread'[u] = IF u = t THEN h ELSE thread[u]
  BY DEF memory, Types, Requests
<1>2. \A u \in Thread : /\ Entering(u)' => Entering(u) /\ thread'[u].rid = thread[u].rid
                        /\ Entering(u) => Entering(u)' \/ thread[u].rid \in lost'
  BY <1>1 DEF Entering
<1>3. \A r : InQueue(r)' <=> InQueue(r)
  BY <1>1 DEF InQueue
<1>4. \A r \in queued \ lost' : InQueue(r) \/ \E u \in Thread : Entering(u)' /\ thread'[u].rid = r
  BY <1>2 DEF Queue
<1> QED BY <1>1, <1>2, <1>3, <1>4 DEF Queue

LEMMA QueueStep ==
  ASSUME Types, Queue, [Next]_vars PROVE Queue'
<1>1. \A t \in Thread : thread[t] \in Call /\ Fits(thread[t])
  BY DEF Types, Requests
<1>2. ASSUME NEW t \in Thread, Request(t) PROVE Queue'
  <2> DEFINE r == thread[t].rid
  <2>1. PICK h \in Call : /\ Fits(h) /\ thread' = [thread EXCEPT ![t] = h]
                          /\ Follows(thread[t].at, h.at)
                          /\ h = Idle \/ (h.rid = thread[t].rid /\ h.op = thread[t].op)
    BY <1>2, RequestMoves DEF Moves, Types
  <2>2. \A u \in Thread : thread'[u] = IF u = t THEN h ELSE thread[u]
    BY <2>1 DEF Types, Requests
  <2>3. h.at # "done" => h.rid = r /\ r \in Rid
    BY <1>1, <2>1 DEF Idle, Fits, Follows
  <2>4. CASE EnqueueTest(t)
    <3>1. thread[t].at = "enqueue" /\ UNCHANGED <<q, running, lost>>
      BY <2>4 DEF EnqueueTest, history
    <3>2. \A x : InQueue(x)' <=> InQueue(x)
      BY <3>1 DEF InQueue
    <3>3. CASE queued' = queued /\ h.at # "status"
      <4>1. \A u \in Thread : /\ Entering(u)' <=> Entering(u)
                              /\ Entering(u) => thread'[u].rid = thread[u].rid
        BY <2>1, <2>2, <3>1, <3>3 DEF Entering, Follows
      <4> QED BY <3>1, <3>2, <3>3, <4>1 DEF Queue
    <3>4. CASE h.at = "status" /\ running # r /\ r \notin queued /\ queued' = queued \cup {r}
      <4>1. /\ \A u \in Thread : /\ Entering(u)' <=> Entering(u) \/ u = t
                                 /\ u # t => thread'[u].rid = thread[u].rid
            /\ thread'[t].rid = r
        BY <2>2, <2>3, <3>4 DEF Entering
      <4>2. ~InQueue(r) /\ \A u \in Thread : Entering(u) => thread[u].rid # r
        BY <3>4 DEF Queue, InQueue
      <4>3. ~Entering(t)
        BY <3>1 DEF Entering
      <4> QED BY <3>1, <3>2, <3>4, <4>1, <4>2, <4>3 DEF Queue
    <3>5. /\ Done(t) => h.at # "status"
          /\ Goto(t, "status") => h.at = "status"
      <4>1. ASSUME Goto(t, "status") PROVE h.at = "status"
        BY <1>1, <2>2, <4>1 DEF Goto, Types, Requests, Call
      <4>2. ASSUME Done(t) PROVE h.at # "status"
        <5> DEFINE g == [thread[t] EXCEPT !.at = "label", !.label = None]
        <5>1. thread' = [thread EXCEPT ![t] = IF thread[t].op = "get" THEN g ELSE Idle]
          BY <4>2 DEF Done
        <5>2. g.at = "label"
          BY <1>1 DEF Call
        <5> HIDE DEF g
        <5> QED BY <2>2, <5>1, <5>2 DEF Types, Requests, Idle
      <4> QED BY <4>1, <4>2
    <3> QED BY <2>4, <3>3, <3>4, <3>5 DEF EnqueueTest
  <2>5. CASE EnqueueStatus(t)
    <3>1. thread[t].at = "status" /\ UNCHANGED memory /\ lost \subseteq lost'
      BY <2>5 DEF EnqueueStatus
    <3>2. CASE Goto(t, "queue")
      <4>1. h.at = "queue"
        BY <1>1, <2>2, <3>2 DEF Goto, Types, Requests, Call
      <4> QED BY <2>1, <2>3, <3>1, <4>1, QueueOthers DEF Entering
    <3>3. CASE Ends(t) /\ lost' = lost \cup {r}
      <4>1. h.at = "done"
        BY <2>2, <3>3 DEF Ends, Types, Requests, Idle
      <4> QED BY <2>1, <3>1, <3>3, <4>1, QueueOthers
    <3> QED BY <2>5, <3>2, <3>3 DEF EnqueueStatus
  <2>6. CASE EnqueuePut(t)
    <3>1. thread[t].at = "queue" /\ q' = Append(q, r) /\ UNCHANGED <<queued, running, lost>>
      BY <2>6 DEF EnqueuePut, history
    <3>2. r \in Rid /\ r \in queued /\ ~InQueue(r) /\ Entering(t)
      BY <1>1, <3>1 DEF Queue, Entering, Fits
    <3>3. /\ \A i, j \in DOMAIN q' : q'[i] = q'[j] => i = j
          /\ \A x : InQueue(x)' <=> InQueue(x) \/ x = r
      BY <3>1, <3>2, QueueAppend DEF InQueue
    <3>4. \A u \in Thread : /\ Entering(u)' <=> Entering(u) /\ u # t
                            /\ u # t => thread'[u] = thread[u]
      BY <2>1, <2>2, <3>1 DEF Entering, Follows
    <3>5. \A u \in Thread : Entering(u) /\ u # t => thread[u].rid # r
      BY <3>2 DEF Queue
    <3>6. \A i \in DOMAIN q' : q'[i] \in queued'
      <4>1. \A x : InQueue(x) => x \in queued
        BY DEF Queue, InQueue
      <4> QED BY <3>1, <3>2, <3>3, <4>1 DEF InQueue
    <3> QED BY <3>1, <3>2, <3>3, <3>4, <3>5, <3>6 DEF Queue
  <2>7. CASE \/ Snapshot(t) \/ Refuse(t) \/ WriteText(t) \/ HealLook(t) \/ HealCompare(t)
             \/ ServeLabel(t) \/ ServeBytes(t) \/ Reply(t)
    <3>1. /\ UNCHANGED memory /\ thread[t].at \notin {"enqueue", "status", "queue"}
          /\ lost \subseteq lost'
      BY <2>7 DEF Snapshot, Refuse, WriteText, HealLook, HealCompare, ServeLabel, ServeBytes, Reply,
                  history
    <3> QED BY <2>1, <3>1, QueueOthers DEF Entering, Follows
  <2> QED BY <1>2, <2>4, <2>5, <2>6, <2>7 DEF Request
<1>3. ASSUME NEW t \in Thread, NEW r \in Rid, Start(t, r) PROVE Queue'
  <2>1. PICK h \in Call : /\ h.at \in {"wait", "look", "enqueue"}
                          /\ thread' = [thread EXCEPT ![t] = h]
    BY <1>3, StartMoves
  <2>2. thread[t].at = "done" /\ UNCHANGED <<memory, lost>>
    BY <1>3, StartMoves DEF Idle, history
  <2> QED BY <2>1, <2>2, QueueOthers DEF Entering
<1>4. CASE Take
  <2>1. /\ q # <<>> /\ q' = Tail(q) /\ running' = Head(q) /\ queued' = queued \ {Head(q)}
        /\ thread' = thread /\ lost' = lost \ {Head(q)}
    BY <1>4 DEF Take
  <2>2. /\ DOMAIN q = 1..Len(q) /\ Len(q) \in Nat /\ Len(q) >= 1 /\ Head(q) = q[1]
        /\ DOMAIN q' = 1..(Len(q) - 1) /\ \A i \in DOMAIN q' : q'[i] = q[i + 1]
    BY <2>1, TailOne DEF Types, Memory
  <2>3. 1 \in DOMAIN q /\ \A i \in DOMAIN q' : i + 1 \in DOMAIN q /\ i + 1 # 1
    BY <2>2
  <2>4. \A i \in DOMAIN q : i # 1 => i - 1 \in DOMAIN q' /\ q'[i - 1] = q[i]
    BY <2>2
  <2>5. \A i, j \in DOMAIN q' : q'[i] = q'[j] => i = j
    <3> SUFFICES ASSUME NEW i \in DOMAIN q', NEW j \in DOMAIN q', q'[i] = q'[j] PROVE i = j
      OBVIOUS
    <3>1. i + 1 = j + 1
      BY <2>2, <2>3 DEF Queue
    <3> QED BY <2>2, <3>1
  <2>6. \A x : InQueue(x)' <=> InQueue(x) /\ x # Head(q)
    <3>1. ASSUME NEW i \in DOMAIN q' PROVE InQueue(q'[i]) /\ q'[i] # Head(q)
      BY <2>2, <2>3 DEF Queue, InQueue
    <3>2. ASSUME NEW i \in DOMAIN q, q[i] # Head(q) PROVE \E j \in DOMAIN q' : q'[j] = q[i]
      BY <2>2, <2>4, <3>2
    <3> QED BY <3>1, <3>2 DEF InQueue
  <2>7. \A x : InQueue(x) => x \in queued
    BY DEF Queue, InQueue
  <2>8. \A i \in DOMAIN q' : q'[i] \in queued'
    BY <2>1, <2>6, <2>7 DEF InQueue
  <2>9. \A t \in Thread : /\ Entering(t)' <=> Entering(t)
                          /\ Entering(t) => thread[t].rid # Head(q)
    BY <2>1, <2>2, <2>3 DEF Entering, Queue, InQueue
  <2> QED BY <2>1, <2>5, <2>6, <2>8, <2>9 DEF Queue
<1>5. CASE WorkerFinish
  <2>1. /\ running' = None /\ UNCHANGED <<thread, lost>>
        /\ running \in Rid /\ running \notin queued
    BY <1>5, NoneAssumption DEF WorkerFinish, Types, Working, Memory, Queue, history
  <2>2. \A t \in Thread : Entering(t)' <=> Entering(t)
    BY <2>1 DEF Entering
  <2>3. None \notin queued
    BY NoneAssumption DEF Types, Memory
  <2>4. CASE UNCHANGED <<q, queued>>
    <3>1. \A x : InQueue(x)' <=> InQueue(x)
      BY <2>4 DEF InQueue
    <3> QED BY <2>1, <2>2, <2>3, <2>4, <3>1 DEF Queue
  <2>5. CASE q' = Append(q, running) /\ queued' = queued \cup {running}
    <3>1. ~InQueue(running) /\ \A x : InQueue(x) => x \in queued
      BY <2>1 DEF Queue, InQueue
    <3>2. /\ \A i, j \in DOMAIN q' : q'[i] = q'[j] => i = j
          /\ \A x : InQueue(x)' <=> InQueue(x) \/ x = running
      BY <2>1, <2>5, <3>1, QueueAppend DEF InQueue
    <3>3. \A i \in DOMAIN q' : q'[i] \in queued'
      BY <2>5, <3>1, <3>2 DEF InQueue
    <3>4. \A t \in Thread : Entering(t) => thread[t].rid # running
      BY <2>1 DEF Queue
    <3>5. running' \notin queued'
      BY <2>1, <2>3, <2>5, NoneAssumption
    <3> QED BY <2>1, <2>2, <2>5, <3>2, <3>3, <3>4, <3>5 DEF Queue
  <2> QED BY <1>5, <2>4, <2>5 DEF WorkerFinish
<1>6. CASE \/ WorkerBegin \/ WorkerMark \/ WorkerPrepare \/ WorkerBuild \/ WorkerReplace
           \/ WorkerRecord \/ WorkerError \/ UNCHANGED vars \/ \E t \in Thread, r \in Rid : Delete(t, r)
  <2>1. UNCHANGED <<q, queued, running, thread>> /\ lost \subseteq lost'
    BY <1>6 DEF WorkerBegin, WorkerMark, WorkerPrepare, WorkerBuild, WorkerReplace, WorkerRecord,
                WorkerError, Delete, vars, memory, history
  <2> QED BY <2>1 DEF Queue, InQueue, Entering
<1>7. CASE Restart
  <2>1. q' = <<>> /\ queued' = {} /\ running' = None /\ \A t \in Thread : thread'[t].at = "done"
    BY <1>7 DEF Restart, Idle
  <2>2. DOMAIN q' = {}
    BY <2>1
  <2> QED BY <2>1, <2>2 DEF Queue, Entering, InQueue
<1> QED BY <1>2, <1>3, <1>4, <1>5, <1>6, <1>7 DEF Next, Worker

LEMMA TypesInit == Init => Types
<1> SUFFICES ASSUME Init PROVE Types
  OBVIOUS
<1>1. 0 \in Revision /\ 0 \in 0..MaxRestarts /\ 0 \in 0..MaxFaults
  BY BoundsAssumption DEF Revision
<1>2. Files
  <2> DEFINE x == [state |-> "queued", revision |-> 0, pdfRevision |-> None]
  <2>1. x \in Status
    BY <1>1 DEF Status, State
  <2>2. status = [r \in Rid |-> IF r \in queued THEN x ELSE None]
    BY DEF Init
  <2> HIDE DEF x
  <2>3. status \in [Rid -> Status \cup {None}]
    BY <2>1, <2>2
  <2> QED BY <1>1, <2>3 DEF Init, Files
<1>3. Memory
  <2>1. queued \subseteq Rid /\ Cardinality(queued) \in Nat
    BY RidAssumption, FS_Subset, FS_CardinalityType DEF Init
  <2>2. q \in Seq(Rid)
    BY <2>1 DEF Init
  <2> QED BY <2>1, <2>2 DEF Init, Memory
<1>4. Working
  BY WorkerFreed DEF Init, Working
<1>5. Requests /\ Locking
  BY IdleCall DEF Init, Requests, Locking, Idle
<1>6. Rest
  BY <1>1 DEF Init, Rest
<1> QED BY <1>2, <1>3, <1>4, <1>5, <1>6 DEF Types

LEMMA QueueInit == Init => Queue
<1> SUFFICES ASSUME Init PROVE Queue
  OBVIOUS
<1> DEFINE n == Cardinality(queued)
<1>1. queued \subseteq Rid /\ n \in Nat
  BY RidAssumption, FS_Subset, FS_CardinalityType DEF Init
<1>2. q \in [1..n -> queued] /\ \A r \in queued : \E i \in DOMAIN q : q[i] = r
  BY DEF Init
<1>3. q \in Surjection(1..n, queued)
  BY <1>2 DEF Surjection
<1>4. IsFiniteSet(1..n) /\ Cardinality(1..n) = n
  <2> HIDE DEF n
  <2>1. 1 \in Int /\ n \in Int /\ (IF 1 > n THEN 0 ELSE n - 1 + 1) = n
    BY <1>1
  <2> QED BY <1>1, <2>1, FS_Interval
<1>5. q \in Injection(1..n, queued)
  BY <1>3, <1>4, FS_Surjection
<1>6. DOMAIN q = 1..n /\ \A i, j \in DOMAIN q : q[i] = q[j] => i = j
  BY <1>2, <1>5 DEF Injection, IsInjective
<1>7. running \notin queued
  BY <1>1, NoneAssumption DEF Init
<1>8. \A t \in Thread : ~Entering(t)
  BY DEF Init, Entering, Idle
<1> QED BY <1>2, <1>6, <1>7, <1>8 DEF Queue, InQueue

Base == Types /\ Queue

LEMMA BaseAlways == Spec => []Base
<1>1. Init => Base
  BY TypesInit, QueueInit DEF Base
<1>2. Base /\ [Next]_vars => Base'
  BY TypesStep, QueueStep DEF Base
<1> QED BY <1>1, <1>2, PTL DEF Spec

(* What the files, the queue, the worker and the requests hold is           *)
(* well-typed.                                                             *)
THEOREM CompileTypeCorrect == Spec => []CompileTypeOK
<1>1. Base => CompileTypeOK
  BY DEF Base, Types, Files, Memory, Working, Requests, Locking, Rest, CompileTypeOK, Job, Stage,
         Call, Place
<1> QED BY <1>1, BaseAlways, PTL

(* A review waits for the worker at most once, whoever enqueues it, whatever *)
(* write of it fails and whenever it is taken up; and what the set holds     *)
(* back from the queue is in it or on its way, or was lost on that way.      *)
THEOREM QueuedOnceCorrect == Spec => []QueuedOnce
<1>1. Base => QueuedOnce
  <2> SUFFICES ASSUME Base PROVE QueuedOnce
    OBVIOUS
  <2>1. \A x : x \in Jobs <=> InQueue(x)
    BY DEF Jobs, InQueue
  <2>2. \A x : InQueue(x) => x \in queued
    BY DEF Base, Queue, InQueue
  <2> QED BY <2>1, <2>2 DEF Base, Queue, QueuedOnce
<1> QED BY <1>1, BaseAlways, PTL

----------------------------------------------------------------------------
(* A deleted review that nobody had in hand: its directory stays away, no   *)
(* request is on it, and the worker has nothing left to write for it.       *)

Deleted ==
    \A r \in gone \ caught :
        /\ ~dir[r]
        /\ \A t \in Thread : thread[t].rid # r
        /\ running = r => worker.at \in {"begin", "finish", "unwind"}

LEMMA DeletedStep ==
  ASSUME Base, Deleted, [Next]_vars PROVE Deleted'
<1> USE DEF Base, Types
<1>1. \A t \in Thread : thread[t] \in Call /\ Fits(thread[t])
  BY DEF Requests
<1>2. ASSUME NEW t \in Thread, Request(t) PROVE Deleted'
  <2> DEFINE r == thread[t].rid
  <2>1. PICK h \in Call : /\ thread' = [thread EXCEPT ![t] = h]
                          /\ h = Idle \/ h.rid = r
    BY <1>2, RequestMoves DEF Moves
  <2>2. \A u \in Thread : thread'[u].rid = thread[u].rid \/ thread'[u].rid = None
    BY <2>1 DEF Idle, Requests
  <2>3. \A x \in gone : x # None /\ x \in Rid
    BY NoneAssumption DEF Files
  <2>4. UNCHANGED <<running, worker, gone, caught>>
    BY <1>2, RequestAlone
  <2>5. \A x \in Rid : x # r => dir'[x] = dir[x]
    BY <1>2 DEF Request, EnqueueTest, EnqueueStatus, EnqueuePut, Snapshot, Refuse, WriteText,
                HealLook, HealCompare, ServeLabel, ServeBytes, Reply, KeepStatus, WriteStatus,
                GiveUp, Raise, disk, Files
  <2>6. r \notin gone \ caught
    BY DEF Deleted
  <2> QED BY <2>2, <2>3, <2>4, <2>5, <2>6 DEF Deleted
<1>3. ASSUME NEW t \in Thread, NEW r \in Rid, Start(t, r) PROVE Deleted'
  <2>1. PICK h \in Call : h.rid = r /\ thread' = [thread EXCEPT ![t] = h]
    BY <1>3, StartMoves
  <2>2. r \notin gone /\ UNCHANGED <<dir, gone, caught, running, worker>>
    BY <1>3, StartMoves DEF disk, memory, history
  <2> QED BY <2>1, <2>2 DEF Deleted, Requests
<1>4. ASSUME NEW t \in Thread, NEW r \in Rid, Delete(t, r) PROVE Deleted'
  <2>1. /\ dir' = [dir EXCEPT ![r] = FALSE] /\ gone' = gone \cup {r}
        /\ caught' = IF InHand(r) THEN caught \cup {r} ELSE caught
        /\ UNCHANGED <<thread, running, worker>>
    BY <1>4 DEF Delete, memory
  <2>2. ~InHand(r) => /\ \A u \in Thread : thread[u].rid # r
                      /\ running = r => worker.at \in {"begin", "finish", "unwind"}
    BY NoneAssumption DEF InHand, Working, Job, Stage
  <2>3. r \in gone' \ caught' => ~InHand(r)
    BY <2>1
  <2> QED BY <2>1, <2>2, <2>3 DEF Deleted, Files
<1>5. CASE Take
  BY <1>5 DEF Take, Step, Deleted, disk, Working, Job
<1>6. CASE WorkerBegin \/ WorkerBuild
  <2>1. UNCHANGED <<dir, gone, caught, thread, running>> /\ running \in Rid
        /\ worker.at \in {"begin", "build"}
    BY <1>6 DEF WorkerBegin, WorkerBuild, disk, memory, history, Working, Memory
  <2>2. running \in gone \ caught => worker'.at = "finish"
    BY <1>6, <2>1, WorkerLeaves DEF WorkerBegin, WorkerBuild, Deleted
  <2> QED BY <2>1, <2>2 DEF Deleted
<1>7. CASE WorkerMark \/ WorkerPrepare \/ WorkerReplace \/ WorkerRecord \/ WorkerError
  <2>1. /\ worker.at \in {"mark", "prepare", "replace", "record", "error"} /\ running \in Rid
        /\ UNCHANGED <<gone, caught, thread, running>>
    BY <1>7 DEF WorkerMark, WorkerPrepare, WorkerReplace, WorkerRecord, WorkerError, disk, memory,
                history, Working, Memory
  <2>2. running \notin gone \ caught
    BY <2>1 DEF Deleted
  <2>3. \A x \in Rid : x # running => dir'[x] = dir[x]
    BY <1>7, <2>1 DEF WorkerMark, WorkerPrepare, WorkerReplace, WorkerRecord, WorkerError, disk,
                KeepStatus, WriteStatus, GiveUp, Raise, Files
  <2> QED BY <2>1, <2>2, <2>3 DEF Deleted, Files
<1>8. CASE WorkerFinish
  BY <1>8, NoneAssumption DEF WorkerFinish, disk, history, Deleted, Files
<1>9. CASE Restart
  BY <1>9, NoneAssumption DEF Restart, Idle, disk, Deleted, Files
<1>10. CASE UNCHANGED vars
  BY <1>10 DEF vars, Deleted
<1> QED BY <1>2, <1>3, <1>4, <1>5, <1>6, <1>7, <1>8, <1>9, <1>10 DEF Next, Worker

(* A review deleted while its job waited, with neither the worker nor a     *)
(* request on it, never gets its directory back.                           *)
THEOREM DeletedStaysGoneCorrect == Spec => []DeletedStaysGone
<1>1. Init => Deleted
  BY DEF Init, Deleted
<1>2. Base /\ Deleted /\ [Next]_vars => Deleted'
  BY DeletedStep
<1>3. Deleted => DeletedStaysGone
  BY DEF Deleted, DeletedStaysGone
<1> QED BY <1>1, <1>2, <1>3, BaseAlways, PTL DEF Spec

----------------------------------------------------------------------------
(* Where no PUT is between its first step and enqueue(), a review is queued, *)
(* or the job under way ends at the current text, or it is at rest with it.  *)

Living == Rid \ (gone \cup lost)
Putting(r) ==
    \E t \in Thread : /\ thread[t].rid = r /\ thread[t].op = "put"
                      /\ thread[t].at \in {"write", "enqueue"}
Settled(r) ==
    /\ status[r] # None
    /\ status[r].revision = rev[r]
    /\ status[r].state \in {"ok", "failed"}
    /\ status[r].state = "ok" => pdf[r] = text[r] /\ status[r].pdfRevision = rev[r]
Due(r) ==
    \/ r \in redo
    \/ worker.at \in {"begin", "error"}
    \/ worker.at \in {"mark", "prepare"} /\ worker.rev = rev[r]
    \/ worker.at \in {"build", "replace"} /\ worker.rev = rev[r] /\ worker.text = text[r]
    \/ worker.at = "record" /\ worker.rev = rev[r] /\ (worker.ok => pdf[r] = text[r])
    \/ worker.at = "finish" /\ Settled(r)
Resting(r) == status[r] = None \/ Settled(r)
Fresh(r) ==
    \/ Putting(r) \/ r \in queued
    \/ running = r /\ Due(r)
    \/ running # r /\ Resting(r)
Current ==
    /\ \A r \in Rid \ gone : dir[r]
    /\ \A r \in Living : Fresh(r)

\* A step that leaves the files of r, the PUTs on it and the worker alone.
LEMMA StaysFresh ==
  ASSUME NEW r \in Rid, Fresh(r), queued \subseteq queued', redo \subseteq redo',
         UNCHANGED <<running, worker>>,
         rev'[r] = rev[r], text'[r] = text[r], pdf'[r] = pdf[r], status'[r] = status[r],
         Putting(r) => Putting(r)'
  PROVE  Fresh(r)'
BY DEF Fresh, Due, Resting, Settled

\* No step of a request or of the worker takes a directory away.
LEMMA DirStays ==
  ASSUME Files, Worker \/ \E t \in Thread : Request(t)
  PROVE  \A x \in Rid : dir[x] => dir'[x]
<1>1. ASSUME NEW t \in Thread, Request(t) PROVE \A x \in Rid : dir[x] => dir'[x]
  BY <1>1 DEF Request, EnqueueTest, EnqueueStatus, EnqueuePut, Snapshot, Refuse, WriteText,
              HealLook, HealCompare, ServeLabel, ServeBytes, Reply, KeepStatus, WriteStatus,
              GiveUp, Raise, disk, Files
<1>2. CASE Worker
  BY <1>2 DEF Worker, Take, WorkerBegin, WorkerMark, WorkerPrepare, WorkerBuild, WorkerReplace,
              WorkerRecord, WorkerError, WorkerFinish, KeepStatus, WriteStatus, GiveUp, Raise, disk,
              Files
<1> QED BY <1>1, <1>2

LEMMA RequestCurrent ==
  ASSUME Base, Current, NEW t \in Thread, Request(t) PROVE Current'
<1> USE DEF Base, Types
<1>1. thread[t] \in Call /\ Fits(thread[t])
  BY DEF Requests
<1>2. PICK r \in Rid : r = thread[t].rid
  BY <1>1, RequestMoves DEF Moves, Follows, Fits
<1>3. PICK h \in Call : /\ thread' = [thread EXCEPT ![t] = h]
                        /\ Follows(thread[t].at, h.at)
                        /\ h = Idle \/ (h.rid = r /\ h.op = thread[t].op)
  BY <1>2, RequestMoves DEF Moves
<1>4. \A u \in Thread : thread'[u] = IF u = t THEN h ELSE thread[u]
  BY <1>3 DEF Requests
<1>5. /\ UNCHANGED <<running, worker, gone>>
      /\ queued \subseteq queued' /\ redo \subseteq redo' /\ lost \subseteq lost'
  <2>1. queued \subseteq queued' /\ redo \subseteq redo' /\ lost \subseteq lost'
    BY DEF Request, EnqueueTest, EnqueueStatus, EnqueuePut, Snapshot, Refuse, WriteText, HealLook,
           HealCompare, ServeLabel, ServeBytes, Reply, memory, history
  <2> QED BY <2>1, RequestAlone
<1>6. \A x \in Rid : x # r =>
        rev'[x] = rev[x] /\ text'[x] = text[x] /\ pdf'[x] = pdf[x] /\ status'[x] = status[x]
  BY <1>2 DEF Request, EnqueueTest, EnqueueStatus, EnqueuePut, Snapshot, Refuse, WriteText,
              HealLook, HealCompare, ServeLabel, ServeBytes, Reply, KeepStatus, WriteStatus,
              GiveUp, Raise, disk, Files
<1>7. \A x \in Rid : x # r => (Putting(x) => Putting(x)')
  BY <1>2, <1>4 DEF Putting
<1>8. \A x \in Living' : x # r => Fresh(x)'
  BY <1>5, <1>6, <1>7, StaysFresh DEF Current, Living
<1>9. \A x \in Rid \ gone' : dir'[x]
  BY <1>5, DirStays DEF Current
<1>10. r \in Living' => Fresh(r)'
  <2> SUFFICES ASSUME r \in Living' PROVE Fresh(r)'
    OBVIOUS
  <2>0. Fresh(r)
    BY <1>5 DEF Current, Living
  <2>1. CASE EnqueueTest(t)
    <3>1. \/ r = running /\ running' = running /\ r \in redo'
          \/ r \in queued'
      BY <1>2, <1>5, <2>1 DEF EnqueueTest
    <3> QED BY <3>1 DEF Fresh, Due
  <2>2. CASE EnqueueStatus(t)
    <3>1. thread[t].at = "status" /\ queued' = queued
      BY <2>2 DEF EnqueueStatus, memory
    <3>2. r \in queued
      BY <1>2, <3>1 DEF Queue, Entering
    <3> QED BY <3>1, <3>2 DEF Fresh
  <2>3. CASE Snapshot(t)
    <3>1. thread[t].at = "wait" /\ thread[t].op = "put" /\ Goto(t, "write")
      BY <2>3 DEF Snapshot
    <3>2. h.at = "write"
      BY <1>1, <1>4, <3>1 DEF Goto, Requests, Call
    <3>3. h.rid = r /\ h.op = "put"
      BY <1>3, <3>1, <3>2 DEF Idle
    <3>4. Putting(r)'
      BY <1>4, <3>2, <3>3 DEF Putting
    <3> QED BY <3>4 DEF Fresh
  <2>4. CASE WriteText(t)
    <3>1. thread[t].at = "write" /\ thread[t].op = "put" /\ r \notin gone /\ r \notin lost'
      BY <1>1, <1>5, <2>4 DEF WriteText, Fits, Living
    <3>2. Goto(t, "enqueue")
      BY <1>2, <2>4, <3>1 DEF WriteText
    <3>3. h.at = "enqueue"
      BY <1>1, <1>4, <3>2 DEF Goto, Requests, Call
    <3>4. h.rid = r /\ h.op = "put"
      BY <1>3, <3>1, <3>3 DEF Idle
    <3>5. Putting(r)'
      BY <1>4, <3>3, <3>4 DEF Putting
    <3> QED BY <3>5 DEF Fresh
  <2>5. CASE \/ EnqueuePut(t) \/ Refuse(t) \/ HealLook(t) \/ HealCompare(t)
             \/ ServeLabel(t) \/ ServeBytes(t) \/ Reply(t)
    <3>1. UNCHANGED <<rev, text, pdf, status>> /\ thread[t].at \notin {"write", "enqueue"}
      BY <2>5 DEF EnqueuePut, Refuse, HealLook, HealCompare, ServeLabel, ServeBytes, Reply, disk
    <3>2. Putting(r) => Putting(r)'
      BY <1>4, <3>1 DEF Putting
    <3> QED BY <1>5, <2>0, <3>1, <3>2, StaysFresh
  <2> QED BY <2>1, <2>2, <2>3, <2>4, <2>5 DEF Request
<1> QED BY <1>8, <1>9, <1>10 DEF Current, Living

LEMMA StatusOf ==
  ASSUME Files, NEW r \in Rid, NEW s \in State, NEW n \in Revision, NEW p \in Revision \cup {None},
         WriteStatus(r, s, n, p)
  PROVE  /\ status'[r] # None
         /\ status'[r].state = s /\ status'[r].revision = n /\ status'[r].pdfRevision = p
<1> DEFINE x == [state |-> s, revision |-> n, pdfRevision |-> p]
<1>1. x \in Status /\ x.state = s /\ x.revision = n /\ x.pdfRevision = p
  BY StatusRecord
<1>2. status' = [status EXCEPT ![r] = x]
  BY DEF WriteStatus
<1> HIDE DEF x
<1> QED BY <1>1, <1>2, StatusAssumption DEF Files

\* The job that is under way stays on its way to the current text.
LEMMA JobCurrent ==
  ASSUME Types, NEW x \in Rid, x = running, dir[x], Due(x), x \notin redo, x \notin lost',
         WorkerBegin \/ WorkerMark \/ WorkerPrepare \/ WorkerBuild \/ WorkerReplace
           \/ WorkerRecord \/ WorkerError
  PROVE  Due(x)'
<1> USE DEF Types
<1>1. worker \in Job /\ rev'[x] = rev[x] /\ text'[x] = text[x] /\ rev[x] \in Revision
  BY DEF WorkerBegin, WorkerMark, WorkerPrepare, WorkerBuild, WorkerReplace, WorkerRecord,
         WorkerError, disk, Working, Files
<1>2. CASE Throw
  BY <1>2, WorkerLeaves DEF Due
<1>3. CASE WorkerBegin
  <2>1. worker' = [worker EXCEPT !.at = "mark", !.rev = rev[x]]
    BY <1>3 DEF WorkerBegin
  <2>2. worker'.at = "mark" /\ worker'.rev = rev[x]
    BY <1>1, <2>1 DEF Job
  <2> QED BY <1>1, <2>2 DEF Due
<1>4. CASE WorkerMark /\ Step("prepare")
  <2>1. worker.at = "mark" /\ worker'.at = "prepare" /\ worker'.rev = worker.rev
    BY <1>1, <1>4 DEF WorkerMark, Step, Job
  <2> QED BY <1>1, <2>1 DEF Due
<1>5. CASE WorkerPrepare /\ worker' = [worker EXCEPT !.at = "build", !.text = text[running]]
  <2>1. /\ worker.at = "prepare" /\ worker'.at = "build" /\ worker'.rev = worker.rev
        /\ worker'.text = text[x]
    BY <1>1, <1>5 DEF WorkerPrepare, Job
  <2> QED BY <1>1, <2>1 DEF Due
<1>6. CASE WorkerBuild /\ ~Throw
  <2>1. /\ worker.at = "build" /\ ~worker.ok
        /\ \/ worker' = [worker EXCEPT !.at = "replace", !.ok = TRUE]
           \/ worker' = [worker EXCEPT !.at = "record", !.text = None]
    BY <1>6 DEF WorkerBuild, Working
  <2>2. worker'.rev = worker.rev
    BY <1>1, <2>1 DEF Job
  <2>3. CASE worker' = [worker EXCEPT !.at = "replace", !.ok = TRUE]
    <3>1. worker'.at = "replace" /\ worker'.text = worker.text
      BY <1>1, <2>3 DEF Job
    <3> QED BY <1>1, <2>1, <2>2, <3>1 DEF Due
  <2>4. CASE worker' = [worker EXCEPT !.at = "record", !.text = None]
    <3>1. worker'.at = "record" /\ worker'.ok = worker.ok
      BY <1>1, <2>4 DEF Job
    <3> QED BY <1>1, <2>1, <2>2, <3>1 DEF Due
  <2> QED BY <2>1, <2>3, <2>4
<1>7. CASE WorkerReplace /\ ~Throw
  <2>1. /\ worker.at = "replace" /\ worker' = [worker EXCEPT !.at = "record", !.text = None]
        /\ pdf'[x] = worker.text
    BY <1>7 DEF WorkerReplace, Files
  <2>2. worker'.at = "record" /\ worker'.rev = worker.rev
    BY <1>1, <2>1 DEF Job
  <2> QED BY <1>1, <2>1, <2>2 DEF Due
<1>8. CASE WorkerRecord /\ ~Throw
  <2>1. worker.at = "record" /\ worker'.at = "finish" /\ pdf' = pdf
        /\ worker.rev = rev[x] /\ (worker.ok => pdf[x] = text[x])
    BY <1>8, WorkerLeaves DEF WorkerRecord, Due
  <2>2. IF worker.ok THEN WriteStatus(x, "ok", worker.rev, worker.rev)
                     ELSE KeepStatus(x, "failed", worker.rev)
    BY <1>8 DEF WorkerRecord
  <2>3. Settled(x)'
    <3>1. {"ok", "failed"} \subseteq State /\ RecordedPdf(x) \in Revision \cup {None}
      BY RecordedIsRevision DEF State
    <3>2. CASE worker.ok
      BY <1>1, <2>1, <2>2, <3>1, <3>2, StatusOf DEF Settled
    <3>3. CASE ~worker.ok
      BY <1>1, <2>1, <2>2, <3>1, <3>3, StatusOf DEF Settled, KeepStatus
    <3> QED BY <3>2, <3>3
  <2> QED BY <2>1, <2>3 DEF Due
<1>9. CASE WorkerError
  <2>1. worker'.at = "finish" /\ KeepStatus(x, "failed", rev[x])
    BY <1>9, WorkerLeaves DEF WorkerError
  <2>2. Settled(x)'
    <3>1. {"ok", "failed"} \subseteq State /\ RecordedPdf(x) \in Revision \cup {None}
      BY RecordedIsRevision DEF State
    <3> QED BY <1>1, <2>1, <3>1, StatusOf DEF Settled, KeepStatus
  <2> QED BY <2>1, <2>2 DEF Due
<1> QED BY <1>2, <1>3, <1>4, <1>5, <1>6, <1>7, <1>8, <1>9 DEF WorkerMark, WorkerPrepare

LEMMA WorkerCurrent ==
  ASSUME Base, Current, Worker PROVE Current'
<1> USE DEF Base, Types
<1>1. /\ thread' = thread /\ UNCHANGED <<rev, text, gone>>
      /\ worker.at \notin {"idle", "dead"} => running \in Rid
  BY DEF Worker, Take, WorkerBegin, WorkerMark, WorkerPrepare, WorkerBuild, WorkerReplace,
         WorkerRecord, WorkerError, WorkerFinish, disk, Working, Memory
<1>2. \A x \in Rid : Putting(x)' <=> Putting(x)
  BY <1>1 DEF Putting
<1>3. \A x \in Rid \ gone' : dir'[x]
  BY <1>1, DirStays DEF Current
<1> SUFFICES ASSUME NEW x \in Living', ~Putting(x) PROVE Fresh(x)'
  BY <1>2, <1>3 DEF Current, Living, Fresh
<1>4. /\ x \in Rid /\ x # None /\ x \notin gone /\ x \notin lost' /\ dir[x]
      /\ rev'[x] = rev[x] /\ text'[x] = text[x]
  BY <1>1, NoneAssumption DEF Current, Living
<1>5. CASE Take
  <2>1. /\ running = None /\ running' = Head(q) /\ worker'.at = "begin"
        /\ queued' = queued \ {Head(q)} /\ pdf' = pdf /\ status' = status
        /\ lost' = lost \ {Head(q)}
    BY <1>5, WorkerMoved DEF Take, Working, Step, disk, Job, Stage
  <2>2. CASE x = Head(q)
    BY <2>1, <2>2 DEF Fresh, Due
  <2>3. CASE x # Head(q)
    <3>1. Fresh(x)
      BY <1>4, <2>1, <2>3 DEF Current, Living
    <3> QED BY <1>4, <2>1, <2>3, <3>1 DEF Fresh, Resting, Settled
  <2> QED BY <2>2, <2>3
<1>6. CASE ~Take
  <2>1. lost \subseteq lost'
    BY <1>6 DEF Worker, WorkerBegin, WorkerMark, WorkerPrepare, WorkerBuild, WorkerReplace,
                WorkerRecord, WorkerError, WorkerFinish, history
  <2>2. Fresh(x)
    BY <1>4, <2>1 DEF Current, Living
  <2>3. CASE WorkerFinish
    <3>1. /\ running' = None /\ pdf' = pdf /\ status' = status
          /\ worker.at \in {"finish", "unwind"} /\ queued \subseteq queued'
          /\ running \in redo => running \in queued'
      BY <2>3 DEF WorkerFinish, disk
    <3> QED BY <1>4, <2>2, <3>1 DEF Fresh, Due, Resting, Settled
  <2>4. CASE \/ WorkerBegin \/ WorkerMark \/ WorkerPrepare \/ WorkerBuild \/ WorkerReplace
             \/ WorkerRecord \/ WorkerError
    <3>1. UNCHANGED <<running, queued, redo>> /\ running \in Rid
      BY <1>1, <2>4 DEF WorkerBegin, WorkerMark, WorkerPrepare, WorkerBuild, WorkerReplace,
                  WorkerRecord, WorkerError, memory
    <3>2. CASE x # running
      <4>1. pdf'[x] = pdf[x] /\ status'[x] = status[x]
        BY <1>4, <2>4, <3>1, <3>2
           DEF WorkerBegin, WorkerMark, WorkerPrepare, WorkerBuild, WorkerReplace, WorkerRecord,
               WorkerError, disk, KeepStatus, WriteStatus, GiveUp, Raise, Files
      <4> QED BY <1>4, <2>2, <3>1, <3>2, <4>1 DEF Fresh, Resting, Settled
    <3>3. CASE x = running /\ x \in redo
      BY <1>4, <3>1, <3>3 DEF Fresh, Due
    <3>4. CASE x = running /\ x \notin redo
      <4>1. Due(x)
        BY <2>2, <3>4 DEF Fresh, Queue
      <4>2. Due(x)'
        BY <1>4, <2>4, <3>4, <4>1, JobCurrent
      <4> QED BY <3>1, <3>4, <4>2 DEF Fresh
    <3> QED BY <3>2, <3>3, <3>4
  <2> QED BY <1>6, <2>3, <2>4 DEF Worker
<1> QED BY <1>5, <1>6

LEMMA CurrentStep ==
  ASSUME Base, Current, [Next]_vars PROVE Current'
<1> USE DEF Base, Types
<1>1. ASSUME NEW t \in Thread, NEW r \in Rid, Start(t, r) PROVE Current'
  <2>1. PICK h \in Call : thread' = [thread EXCEPT ![t] = h]
    BY <1>1, StartMoves
  <2>2. thread[t].at = "done" /\ UNCHANGED <<disk, memory, worker, history>>
    BY <1>1, StartMoves DEF Idle
  <2>3. \A x \in Rid : Putting(x) => Putting(x)'
    BY <2>1, <2>2 DEF Putting, Requests
  <2>4. \A x \in Living : Fresh(x)'
    BY <2>2, <2>3, StaysFresh DEF disk, memory, Current, Living
  <2> QED BY <2>2, <2>4 DEF disk, history, Current, Living
<1>2. ASSUME NEW t \in Thread, NEW r \in Rid, Delete(t, r) PROVE Current'
  <2>1. gone' = gone \cup {r} /\ UNCHANGED <<memory, worker, thread, lost>>
    BY <1>2 DEF Delete
  <2>2. \A x \in Rid : x # r =>
          /\ rev'[x] = rev[x] /\ text'[x] = text[x] /\ pdf'[x] = pdf[x]
          /\ status'[x] = status[x] /\ dir'[x] = dir[x]
    BY <1>2 DEF Delete, Files
  <2>3. \A x \in Rid : Putting(x) => Putting(x)'
    BY <2>1 DEF Putting
  <2>4. \A x \in Living : x # r => Fresh(x)'
    BY <2>1, <2>2, <2>3, StaysFresh DEF memory, Current, Living
  <2> QED BY <2>1, <2>2, <2>4 DEF Current, Living
<1>3. CASE Restart
  <2>1. \A t \in Thread : Fits(thread[t])
    BY DEF Requests
  <2>2. /\ UNCHANGED disk /\ running' = None /\ lost \subseteq lost'
        /\ \A r \in Living' :
             /\ r \in Living /\ r \notin queued /\ r # running
             /\ \A t \in Thread : thread[t].op = "put" /\ thread[t].at # "wait" => thread[t].rid # r
    BY <1>3 DEF Restart, Living, disk
  <2>3. \A r \in Living' : ~Putting(r) /\ running' # r
    BY <2>2, NoneAssumption DEF Putting, Living
  <2>4. \A r \in Living' : Fresh(r)'
    BY <2>2, <2>3 DEF Current, Fresh, disk, Resting, Settled
  <2> QED BY <2>2, <2>4 DEF Current, disk
<1>4. CASE UNCHANGED vars
  BY <1>4 DEF vars, Current, Living, Fresh, Putting, Due, Resting, Settled
<1> QED BY <1>1, <1>2, <1>3, <1>4, RequestCurrent, WorkerCurrent DEF Next

LEMMA CurrentInit == Init => Current
<1> SUFFICES ASSUME Init PROVE Current
  OBVIOUS
<1>1. \A r \in Rid : running # r
  BY NoneAssumption DEF Init
<1>2. \A r \in Rid : text[r] = rev[r] /\ dir[r] /\ (r \in queued \/ status[r] = None)
  BY DEF Init
<1> QED BY <1>1, <1>2 DEF Current, Living, Fresh, Resting

(* No update is lost: at rest, the last attempt was at the current text,    *)
(* and a PDF it made is of that text and named so, whatever PUTs,           *)
(* recompiles and polls came while the worker was busy, and whatever write  *)
(* failed on the way -- until the next job of a review that lost one to a   *)
(* restart or a failed write.                                              *)
THEOREM CurrentAtRestCorrect == Spec => []CurrentAtRest
<1>1. Base /\ Current /\ [Next]_vars => Current'
  BY CurrentStep
<1>2. Current => CurrentAtRest
  BY DEF Current, Living, Fresh, Putting, CurrentAtRest, AtRest, Resting, Settled
<1> QED BY <1>1, <1>2, CurrentInit, BaseAlways, PTL DEF Spec

----------------------------------------------------------------------------
(* The labels: texts, PDFs and what names them only grow, and the label     *)
(* follows the PDF, on disk, in the worker and in an answer.               *)

Dated == Rid \ (early \cup gone)
Labelled(h, n) ==   \* h names at most what it read, or can still read: n
    /\ h.at = "bytes" /\ h.label # None => n # None /\ n >= h.label
    /\ h.at = "reply" /\ h.label # None => h.bytes # None /\ h.bytes >= h.label
Filed(r) ==
    /\ text[r] <= rev[r]
    /\ pdf[r] # None => pdf[r] <= text[r]
    /\ RecordedPdf(r) # None => pdf[r] # None /\ pdf[r] >= RecordedPdf(r)
Built(r) ==
    /\ worker.at \in {"mark", "prepare"} => worker.rev <= text[r]
    /\ worker.at \in {"build", "replace"} =>
          /\ worker.rev <= worker.text /\ worker.text <= text[r]
          /\ pdf[r] # None => pdf[r] <= worker.text
    /\ worker.at = "record" /\ worker.ok => pdf[r] # None /\ worker.rev <= pdf[r]
Answered(r) == \A t \in Thread : thread[t].rid = r => Labelled(thread[t], pdf[r])
Named(r) == Filed(r) /\ (running = r => Built(r)) /\ Answered(r)
Names == \A r \in Dated : Named(r)

LEMMA RevisionNumbers == \A n \in Revision : n \in Int /\ n # None
BY BoundsAssumption, NoneAssumption DEF Revision

\* A step that leaves what names and dates r alone.
LEMMA StaysNamed ==
  ASSUME NEW r \in Rid, Named(r), running' = running, worker' = worker,
         rev'[r] = rev[r], text'[r] = text[r], pdf'[r] = pdf[r],
         RecordedPdf(r)' = RecordedPdf(r), Answered(r)'
  PROVE  Named(r)'
BY DEF Named, Filed, Built

LEMMA RecordKept ==
  ASSUME Files, NEW r \in Rid, NEW s \in State, NEW n \in Revision, KeepStatus(r, s, n)
  PROVE  RecordedPdf(r)' = RecordedPdf(r)
BY RecordedIsRevision, StatusOf DEF KeepStatus, RecordedPdf

LEMMA RequestNames ==
  ASSUME Base, Names, NEW t \in Thread, Request(t) PROVE Names'
<1> USE DEF Base, Types
<1>1. thread[t] \in Call /\ Fits(thread[t])
  BY DEF Requests
<1>2. PICK r \in Rid : r = thread[t].rid
  BY <1>1, RequestMoves DEF Moves, Follows, Fits
<1>3. PICK h \in Call : /\ thread' = [thread EXCEPT ![t] = h]
                        /\ Follows(thread[t].at, h.at)
                        /\ h = Idle \/ (h.rid = r /\ h.op = thread[t].op)
  BY <1>2, RequestMoves DEF Moves
<1>4. \A u \in Thread : thread'[u] = IF u = t THEN h ELSE thread[u]
  BY <1>3 DEF Requests
<1>5. UNCHANGED <<running, worker, gone, early>>
  BY RequestAlone
<1>6. \A x \in Rid : x # r =>
        rev'[x] = rev[x] /\ text'[x] = text[x] /\ pdf'[x] = pdf[x] /\ status'[x] = status[x]
  BY <1>2 DEF Request, EnqueueTest, EnqueueStatus, EnqueuePut, Snapshot, Refuse, WriteText,
              HealLook, HealCompare, ServeLabel, ServeBytes, Reply, KeepStatus, WriteStatus,
              GiveUp, Raise, disk, Files
<1>7. \A x \in Rid : x # r => RecordedPdf(x)' = RecordedPdf(x)
  BY <1>6 DEF RecordedPdf
<1>8. \A x \in Rid : x # r /\ Named(x) => Answered(x)'
  BY <1>3, <1>4, <1>6, NoneAssumption DEF Named, Answered, Labelled, Idle
<1>9. \A x \in Dated' : x # r => Named(x)'
  BY <1>5, <1>6, <1>7, <1>8, StaysNamed DEF Names, Dated
<1> SUFFICES ASSUME r \in Dated' PROVE Named(r)'
  BY <1>9 DEF Names, Dated
<1>10. Named(r)
  BY <1>5 DEF Names, Dated
<1>11. /\ rev[r] \in Revision /\ text[r] \in Revision
       /\ pdf[r] \in Revision \cup {None} /\ RecordedPdf(r) \in Revision \cup {None}
  BY RecordedIsRevision DEF Files
<1>12. CASE thread[t].at \notin {"label", "bytes"}
  <2>1. h.at \notin {"bytes", "reply"}
    BY <1>3, <1>12 DEF Follows
  <2>2. pdf'[r] = pdf[r] => Answered(r)'
    BY <1>4, <1>10, <2>1 DEF Named, Answered, Labelled
  <2>3. CASE EnqueueStatus(t)
    <3>1. /\ UNCHANGED <<rev, text, pdf>>
          /\ KeepStatus(r, "queued", rev[r]) \/ status' = status
      BY <1>2, <2>3 DEF EnqueueStatus, GiveUp, Raise
    <3>2. RecordedPdf(r)' = RecordedPdf(r)
      <4>1. "queued" \in State
        BY DEF State
      <4>2. CASE KeepStatus(r, "queued", rev[r])
        BY <1>11, <4>1, <4>2, RecordKept
      <4>3. CASE status' = status
        BY <4>3 DEF RecordedPdf
      <4> QED BY <3>1, <4>2, <4>3
    <3> QED BY <1>5, <1>10, <2>2, <3>1, <3>2, StaysNamed
  <2>4. CASE Snapshot(t)
    <3>1. UNCHANGED <<text, pdf, status>> /\ rev'[r] = rev[r] + 1
      BY <1>2, <2>4 DEF Snapshot, Files
    <3>2. text'[r] <= rev'[r]
      BY <1>10, <1>11, <3>1, RevisionNumbers DEF Named, Filed
    <3> QED BY <1>5, <1>10, <2>2, <3>1, <3>2 DEF Named, Filed, Built, RecordedPdf
  <2>5. CASE WriteText(t)
    <3>1. /\ UNCHANGED <<rev, pdf, status>> /\ text[r] <= rev[r]
          /\ text'[r] = rev[r] \/ text'[r] = text[r]
      BY <1>2, <1>10, <2>5 DEF WriteText, Files, Named, Filed
    <3>2. \A n \in Revision : n <= text[r] => n <= text'[r]
      BY <1>11, <3>1, RevisionNumbers
    <3>3. Filed(r)'
      BY <1>10, <1>11, <3>1, <3>2, RevisionNumbers DEF Named, Filed, RecordedPdf
    <3>4. running = r => Built(r)'
      BY <1>5, <1>10, <3>1, <3>2 DEF Named, Built, Working, Job
    <3> QED BY <1>5, <2>2, <3>1, <3>3, <3>4 DEF Named
  <2>6. CASE \/ EnqueueTest(t) \/ EnqueuePut(t) \/ Refuse(t) \/ HealLook(t) \/ HealCompare(t)
             \/ Reply(t)
    <3>1. UNCHANGED <<rev, text, pdf, status>>
      BY <2>6 DEF EnqueueTest, EnqueuePut, Refuse, HealLook, HealCompare, Reply, disk
    <3> QED BY <1>5, <1>10, <2>2, <3>1, StaysNamed DEF RecordedPdf
  <2> QED BY <1>12, <2>3, <2>4, <2>5, <2>6 DEF Request, ServeLabel, ServeBytes
<1>13. CASE ServeLabel(t) \/ ServeBytes(t)
  <2>1. UNCHANGED <<rev, text, pdf, status>>
    BY <1>13 DEF ServeLabel, ServeBytes, disk
  <2>2. Labelled(h, pdf[r])
    <3>1. Labelled(thread[t], pdf[r])
      BY <1>2, <1>10 DEF Named, Answered
    <3>2. CASE ServeLabel(t)
      <4>1. h = Idle \/ (h.at = "bytes" /\ h.label = RecordedPdf(r))
        BY <1>1, <1>2, <1>4, <3>2 DEF ServeLabel, Ends, Requests, Call
      <4> QED BY <1>10, <4>1 DEF Named, Filed, Labelled, Idle
    <3>3. CASE ServeBytes(t)
      <4>1. thread[t].at = "bytes" /\ h.at = "reply" /\ h.label = thread[t].label
            /\ h.bytes = pdf[r]
        BY <1>1, <1>2, <1>4, <3>3 DEF ServeBytes, Requests, Call
      <4> QED BY <3>1, <4>1 DEF Labelled
    <3> QED BY <1>13, <3>2, <3>3
  <2>3. Answered(r)'
    BY <1>4, <1>10, <2>1, <2>2 DEF Named, Answered
  <2> QED BY <1>5, <1>10, <2>1, <2>3, StaysNamed DEF RecordedPdf
<1> QED BY <1>12, <1>13
        DEF Request, EnqueueTest, EnqueueStatus, EnqueuePut, Snapshot, Refuse, WriteText, HealLook,
            HealCompare, Reply

\* A step of the job that is under way.
LEMMA JobNames ==
  ASSUME Base, NEW x \in Rid, Named(x), x = running, x \in Dated',
         WorkerBegin \/ WorkerMark \/ WorkerPrepare \/ WorkerBuild \/ WorkerReplace
           \/ WorkerRecord \/ WorkerError
  PROVE  Named(x)'
<1> USE DEF Base, Types
<1>1. /\ UNCHANGED <<thread, rev, text, running>> /\ Built(x)
  BY DEF WorkerBegin, WorkerMark, WorkerPrepare, WorkerBuild, WorkerReplace, WorkerRecord,
         WorkerError, disk, memory, Named
<1>2. /\ rev[x] \in Revision /\ text[x] \in Revision
      /\ pdf[x] \in Revision \cup {None} /\ RecordedPdf(x) \in Revision \cup {None}
      /\ worker \in Job /\ worker.rev \in Revision
  BY RecordedIsRevision DEF Files, Working, Job
<1>3. pdf'[x] = pdf[x] => Answered(x)'
  BY <1>1 DEF Named, Answered
<1>4. ASSUME pdf'[x] = pdf[x], RecordedPdf(x)' = RecordedPdf(x), Built(x)' PROVE Named(x)'
  BY <1>1, <1>3, <1>4 DEF Named, Filed
<1>5. status' = status => RecordedPdf(x)' = RecordedPdf(x)
  BY DEF RecordedPdf
<1>6. {"running", "ok", "failed"} \subseteq State
  BY DEF State
<1>7. CASE pdf' = pdf /\ status' = status /\ worker'.at \in {"finish", "error", "unwind"}
  <2>1. Built(x)'
    BY <1>7 DEF Built
  <2> QED BY <1>4, <1>5, <1>7, <2>1
<1>8. CASE WorkerBegin /\ ~Leave
  <2>1. /\ worker' = [worker EXCEPT !.at = "mark", !.rev = rev[x]] /\ UNCHANGED <<pdf, status>>
        /\ early' = IF text[x] # rev[x] THEN early \cup {x} ELSE early
    BY <1>8 DEF WorkerBegin, disk
  <2>2. text[x] = rev[x]
    BY <2>1 DEF Dated
  <2>3. worker'.at = "mark" /\ worker'.rev <= text'[x]
    BY <1>1, <1>2, <2>1, <2>2, RevisionNumbers DEF Job
  <2>4. Built(x)'
    BY <2>3 DEF Built
  <2> QED BY <1>4, <1>5, <2>1, <2>4
<1>9. CASE WorkerMark /\ Step("prepare")
  <2>1. pdf' = pdf /\ worker.at = "mark" /\ worker'.at = "prepare" /\ worker'.rev = worker.rev
    BY <1>2, <1>9 DEF WorkerMark, Step, Job
  <2>2. RecordedPdf(x)' = RecordedPdf(x)
    <3>1. KeepStatus(x, "running", worker.rev) \/ status' = status
      BY <1>9 DEF WorkerMark, GiveUp, Raise
    <3> QED BY <1>2, <1>5, <1>6, <3>1, RecordKept
  <2>3. Built(x)'
    BY <1>1, <2>1 DEF Built
  <2> QED BY <1>4, <2>1, <2>2, <2>3
<1>10. CASE WorkerPrepare /\ worker' = [worker EXCEPT !.at = "build", !.text = text[running]]
  <2>1. /\ UNCHANGED <<pdf, status>> /\ worker.at = "prepare" /\ worker'.at = "build"
        /\ worker'.rev = worker.rev /\ worker'.text = text[x]
    BY <1>2, <1>10 DEF WorkerPrepare, Job, disk
  <2>2. worker.rev <= text[x] /\ (pdf[x] # None => pdf[x] <= text[x]) /\ text[x] <= text[x]
    BY <1>1, <1>2, <2>1, RevisionNumbers DEF Named, Filed, Built
  <2>3. Built(x)'
    BY <1>1, <2>1, <2>2 DEF Built
  <2> QED BY <1>4, <1>5, <2>1, <2>3
<1>11. CASE WorkerBuild /\ worker' = [worker EXCEPT !.at = "replace", !.ok = TRUE]
  <2>1. /\ UNCHANGED <<pdf, status>> /\ worker.at = "build" /\ worker'.at = "replace"
        /\ worker'.rev = worker.rev /\ worker'.text = worker.text
    BY <1>2, <1>11 DEF WorkerBuild, Job, disk
  <2>2. Built(x)'
    BY <1>1, <2>1 DEF Built
  <2> QED BY <1>4, <1>5, <2>1, <2>2
<1>12. CASE WorkerBuild /\ worker' = [worker EXCEPT !.at = "record", !.text = None]
  <2>1. UNCHANGED <<pdf, status>> /\ worker.at = "build" /\ ~worker.ok
    BY <1>12 DEF WorkerBuild, disk, Working
  <2>2. worker'.at = "record" /\ worker'.ok = worker.ok
    BY <1>2, <1>12 DEF Job
  <2>3. Built(x)'
    BY <2>1, <2>2 DEF Built
  <2> QED BY <1>4, <1>5, <2>1, <2>3
<1>13. CASE WorkerReplace /\ ~Throw
  <2>1. /\ worker.at = "replace" /\ worker' = [worker EXCEPT !.at = "record", !.text = None]
        /\ status' = status /\ pdf'[x] = worker.text /\ worker.text \in Revision
    BY <1>13 DEF WorkerReplace, Files, Working
  <2>2. worker'.at = "record" /\ worker'.rev = worker.rev
    BY <1>2, <2>1 DEF Job
  <2>3. /\ worker.rev <= worker.text /\ worker.text <= text[x]
        /\ pdf[x] # None => pdf[x] <= worker.text
    BY <1>1, <2>1 DEF Built
  <2>4. Filed(x)'
    BY <1>1, <1>2, <1>5, <2>1, <2>3, RevisionNumbers DEF Named, Filed
  <2>5. Built(x)'
    BY <2>1, <2>2, <2>3, RevisionNumbers DEF Built
  <2>6. Answered(x)'
    <3> SUFFICES ASSUME NEW t \in Thread, thread[t].rid = x PROVE Labelled(thread[t], pdf'[x])
      BY <1>1 DEF Answered
    <3>1. Labelled(thread[t], pdf[x]) /\ thread[t] \in Call
      BY DEF Named, Answered, Requests
    <3> QED BY <1>2, <2>1, <2>3, <3>1, RevisionNumbers DEF Labelled, Call
  <2> QED BY <2>4, <2>5, <2>6 DEF Named
<1>14. CASE WorkerRecord /\ ~(status' = status)
  <2>1. pdf' = pdf /\ worker.at = "record" /\ worker'.at = "finish"
    BY <1>14, WorkerLeaves DEF WorkerRecord, GiveUp, Raise
  <2>2. IF worker.ok THEN WriteStatus(x, "ok", worker.rev, worker.rev)
                     ELSE KeepStatus(x, "failed", worker.rev)
    BY <1>14 DEF WorkerRecord, GiveUp, Raise
  <2>3. \/ RecordedPdf(x)' = RecordedPdf(x)
        \/ worker.ok /\ RecordedPdf(x)' = worker.rev
    <3>1. CASE worker.ok
      BY <1>2, <1>6, <2>2, <3>1, StatusOf DEF RecordedPdf
    <3>2. CASE ~worker.ok
      BY <1>2, <1>6, <2>2, <3>2, RecordKept
    <3> QED BY <3>1, <3>2
  <2>4. worker.ok => pdf[x] # None /\ worker.rev <= pdf[x]
    BY <1>1, <2>1 DEF Built
  <2>5. Filed(x)'
    BY <1>1, <1>2, <2>1, <2>3, <2>4, RevisionNumbers DEF Named, Filed
  <2>6. Built(x)'
    BY <2>1 DEF Built
  <2> QED BY <1>3, <2>1, <2>5, <2>6 DEF Named
<1>15. CASE WorkerError /\ ~(status' = status)
  <2>1. pdf' = pdf /\ worker'.at = "finish" /\ KeepStatus(x, "failed", rev[x])
    BY <1>15, WorkerLeaves DEF WorkerError, GiveUp, Raise
  <2>2. RecordedPdf(x)' = RecordedPdf(x)
    BY <1>2, <1>6, <2>1, RecordKept
  <2>3. Built(x)'
    BY <2>1 DEF Built
  <2> QED BY <1>4, <2>1, <2>2, <2>3
<1> QED
  <2>1. Leave \/ Throw => worker'.at \in {"finish", "error"}
    BY WorkerLeaves
  <2>2. CASE WorkerBegin
    <3>1. CASE Leave
      BY <1>7, <2>1, <2>2, <3>1 DEF WorkerBegin, disk
    <3> QED BY <1>8, <2>2, <3>1
  <2>3. CASE WorkerMark
    BY <1>7, <1>9, <2>1, <2>3 DEF WorkerMark, Raise
  <2>4. CASE WorkerPrepare
    BY <1>7, <1>10, <2>1, <2>4 DEF WorkerPrepare, disk
  <2>5. CASE WorkerBuild
    BY <1>7, <1>11, <1>12, <2>1, <2>5 DEF WorkerBuild, disk
  <2>6. CASE WorkerReplace
    <3>1. CASE Throw
      <4>1. worker'.at = "error"
        BY <3>1, WorkerLeaves
      <4>2. [worker EXCEPT !.at = "record", !.text = None].at # "error"
        BY <1>2 DEF Job
      <4>3. pdf' = pdf /\ status' = status
        BY <2>6, <4>1, <4>2 DEF WorkerReplace, Raise
      <4> QED BY <1>7, <4>1, <4>3
    <3> QED BY <1>13, <2>6, <3>1
  <2>7. CASE WorkerRecord
    <3>1. pdf' = pdf /\ worker'.at \in {"finish", "error"}
      BY <2>1, <2>7 DEF WorkerRecord
    <3> QED BY <1>7, <1>14, <2>7, <3>1
  <2>8. CASE WorkerError
    <3>1. [Free EXCEPT !.at = "unwind"].at = "unwind"
      BY WorkerFreed DEF Stage
    <3>2. pdf' = pdf /\ worker'.at \in {"finish", "error", "unwind"}
      BY <2>1, <2>8, <3>1 DEF WorkerError
    <3> QED BY <1>7, <1>15, <2>8, <3>2
  <2> QED BY <2>2, <2>3, <2>4, <2>5, <2>6, <2>7, <2>8

LEMMA WorkerNames ==
  ASSUME Base, Names, Worker PROVE Names'
<1> USE DEF Base, Types
<1>1. /\ UNCHANGED <<thread, rev, text, gone>> /\ early \subseteq early'
      /\ worker.at \notin {"idle", "dead"} => running \in Rid
  BY DEF Worker, Take, WorkerBegin, WorkerMark, WorkerPrepare, WorkerBuild, WorkerReplace,
         WorkerRecord, WorkerError, WorkerFinish, disk, history, Working, Memory
<1> SUFFICES ASSUME NEW x \in Rid, x \in Dated' PROVE Named(x)'
  BY DEF Names, Dated
<1>2. Named(x) /\ x # None
  BY <1>1, NoneAssumption DEF Names, Dated
<1>3. pdf'[x] = pdf[x] => Answered(x)'
  BY <1>1, <1>2 DEF Named, Answered
<1>4. CASE Take \/ WorkerFinish
  <2>1. UNCHANGED <<pdf, status>>
    BY <1>4 DEF Take, WorkerFinish, disk
  <2>2. running' = x => worker'.at = "begin"
    BY <1>2, <1>4 DEF Take, Step, WorkerFinish, Working, Job
  <2> QED BY <1>1, <1>2, <1>3, <2>1, <2>2 DEF Named, Filed, Built, RecordedPdf
<1>5. CASE /\ x # running
           /\ \/ WorkerBegin \/ WorkerMark \/ WorkerPrepare \/ WorkerBuild \/ WorkerReplace
              \/ WorkerRecord \/ WorkerError
  <2>1. running' = running /\ running \in Rid
    BY <1>1, <1>5 DEF WorkerBegin, WorkerMark, WorkerPrepare, WorkerBuild, WorkerReplace,
                      WorkerRecord, WorkerError, memory
  <2>2. pdf'[x] = pdf[x] /\ status'[x] = status[x]
    BY <1>5, <2>1
       DEF WorkerBegin, WorkerMark, WorkerPrepare, WorkerBuild, WorkerReplace, WorkerRecord,
           WorkerError, disk, KeepStatus, WriteStatus, GiveUp, Raise, Files
  <2> QED BY <1>1, <1>2, <1>3, <1>5, <2>1, <2>2 DEF Named, Filed, RecordedPdf
<1> QED BY <1>2, <1>4, <1>5, JobNames DEF Worker

LEMMA NamesStep ==
  ASSUME Base, Names, [Next]_vars PROVE Names'
<1> USE DEF Base, Types
<1>1. ASSUME NEW t \in Thread, NEW r \in Rid, Start(t, r) PROVE Names'
  <2>1. PICK h \in Call : /\ h.at \in {"wait", "look", "enqueue"}
                          /\ thread' = [thread EXCEPT ![t] = h]
    BY <1>1, StartMoves
  <2>2. UNCHANGED <<rev, text, pdf, status, gone, early, running, worker>>
    BY <1>1, StartMoves DEF disk, memory, history
  <2>3. \A x \in Rid : Named(x) => Answered(x)'
    BY <2>1, <2>2 DEF Named, Answered, Labelled, Requests
  <2> QED BY <2>2, <2>3, StaysNamed DEF Names, Dated, RecordedPdf
<1>2. ASSUME NEW t \in Thread, NEW r \in Rid, Delete(t, r) PROVE Names'
  <2>1. gone' = gone \cup {r} /\ UNCHANGED <<running, worker, thread, early>>
    BY <1>2 DEF Delete, memory
  <2>2. \A x \in Rid : x # r =>
          rev'[x] = rev[x] /\ text'[x] = text[x] /\ pdf'[x] = pdf[x] /\ status'[x] = status[x]
    BY <1>2 DEF Delete, Files
  <2>3. \A x \in Rid : x # r /\ Named(x) => Answered(x)'
    BY <2>1, <2>2 DEF Named, Answered
  <2> QED BY <2>1, <2>2, <2>3, StaysNamed DEF Names, Dated, RecordedPdf
<1>3. CASE Restart
  <2>1. /\ UNCHANGED <<rev, text, pdf, status, gone, early>>
        /\ running' = None /\ \A t \in Thread : thread'[t] = Idle
    BY <1>3 DEF Restart, disk
  <2>2. \A x \in Dated' : Named(x) /\ x # None
    BY <2>1, NoneAssumption DEF Names, Dated
  <2> QED BY <2>1, <2>2 DEF Names, Named, Filed, RecordedPdf, Answered, Labelled, Idle
<1>4. CASE UNCHANGED vars
  BY <1>4 DEF vars, Names, Dated, Named, Filed, Built, RecordedPdf, Answered
<1> QED BY <1>1, <1>2, <1>3, <1>4, RequestNames, WorkerNames DEF Next

LEMMA NamesInit == Init => Names
<1> SUFFICES ASSUME Init, NEW r \in Rid PROVE Named(r)
  BY DEF Names, Dated
<1>1. pdf[r] = None /\ RecordedPdf(r) = None /\ text[r] <= rev[r]
  BY StatusRecord DEF Init, RecordedPdf
<1>2. running # r /\ \A t \in Thread : thread[t] = Idle
  BY NoneAssumption DEF Init
<1> QED BY <1>1, <1>2 DEF Named, Filed, Answered, Labelled, Idle

(* X-PDF-Revision never names a revision newer than the PDF it comes with,  *)
(* though label and bytes are read apart, the worker writes them apart, and *)
(* either write may fail; only a revision read before its text escapes.     *)
THEOREM NamesItsPdfCorrect == Spec => []NamesItsPdf
<1>1. Base /\ Names /\ [Next]_vars => Names'
  BY NamesStep
<1>2. Names => NamesItsPdf
  BY DEF Names, Dated, Named, Filed, Answered, Labelled, NamesItsPdf
<1> QED BY <1>1, <1>2, NamesInit, BaseAlways, PTL DEF Spec
=============================================================================
