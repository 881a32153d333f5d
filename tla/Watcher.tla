------------------------------ MODULE Watcher ------------------------------
(***************************************************************************)
(* The watcher: a single-threaded process that polls for Sends, claims the *)
(* lease of each review a reply carries, and launches an agent on it,      *)
(* within caps on live children, launches per window, and launches per     *)
(* review.  Reviews met at capacity are kept in a pending set and retried. *)
(* Its steps interleave with the reviewer, with the children it launched   *)
(* and with other sessions (other watchers and earlier runs included); an  *)
(* uncaught network error ends it.                                         *)
(***************************************************************************)
EXTENDS Handoff, Sequences, FiniteSets

CONSTANTS OWNER,          \* the owner the watcher and its children sign with
          Armed,          \* the operator's allowlist
          MaxConcurrent, MaxLaunches, MaxAttempts,
          Window,         \* LAUNCH_WINDOW_S and ATTEMPT_WINDOW_S
          MaxChildren     \* bound: children launched

ASSUME WatcherAssumption ==
  /\ OWNER \in Owners /\ Armed \subseteq Reviews
  /\ {MaxConcurrent, MaxLaunches, MaxAttempts, Window, MaxChildren} \subseteq Nat

VARIABLES
  pc,       \* where run() is: "poll", the "rows" loop, the "drain" loop, or in
            \* handle() on a review of one of them
  loop,     \* which of the two loops handle() returns to
  queue,    \* the reviews that loop has not yet taken
  at,       \* the review handle() is at
  cursor,
  pending,
  inflight, \* _inflight: the child tracked for each review, 0 when none
  sweep,    \* the children _reap has not yet looked at
  signal,   \* _signal_crash in progress: [rev, stage]
  children, \* every child launched, oldest first: the timestamps of
            \* _launch_times and _review_attempts are in it
  edges     \* edges[r]: how many replies carried r

loopvars == <<loop, queue, at>>
tvars == <<hvars, pc, loopvars, cursor, pending, inflight, sweep, signal, children, edges>>

WatcherTypeOK ==
  /\ pc \in {"off", "poll", "rows", "drain", "check", "claim", "spawn", "recheck", "dead"}
  /\ loop \in {"rows", "drain"}
  /\ {queue, pending, sweep} \subseteq SUBSET Reviews
  /\ at \in Reviews
  /\ cursor \in Nat
  /\ inflight \in [Reviews -> 0 .. Len(children)]
  /\ signal \in [rev : Reviews, stage : {"none", "read", "post"}]
  /\ children \in Seq([rev : Reviews, at : Nat, status : {"live", "ok", "crashed"}])
  /\ edges \in [Reviews -> Nat]

WatcherInit ==
  /\ HandoffInit
  /\ pc = "off" /\ loop = "rows" /\ cursor = 0
  /\ queue = {} /\ pending = {} /\ sweep = {} /\ children = <<>>
  /\ at \in Reviews /\ signal = [rev |-> at, stage |-> "none"]
  /\ inflight = [r \in Reviews |-> 0] /\ edges = inflight

----------------------------------------------------------------------------
Tracked == {r \in Reviews : inflight[r] # 0}
Recent == {k \in DOMAIN children : children[k].at >= clock - Window}
RecentOn(r) == {k \in Recent : children[k].rev = r}

AtCapacity == Cardinality(Tracked) >= MaxConcurrent \/ Cardinality(Recent) >= MaxLaunches

PerReviewCapped(r) == Cardinality(RecentOn(r)) >= MaxAttempts

(* Wherever capacity is asked for, _reap first looks at every child that   *)
(* is tracked there and then.                                              *)
Goto(step) ==
  /\ pc' = step
  /\ sweep' = IF step \in {"check", "recheck"} \/ (step = "drain" /\ queue' # {})
              THEN {r \in Reviews : inflight'[r] # 0} ELSE {}

Ready(step) == pc = step /\ sweep = {} /\ signal.stage = "none"

(* run() starts, with its cursor at now or (backlog) at 0. *)
Start == /\ pc = "off"
         /\ cursor' \in {0, clock}
         /\ UNCHANGED <<hvars, loopvars, pending, inflight, signal, children, edges>>
         /\ Goto("poll")

NewRows == {r \in Reviews : turn[r] = "agent" /\ turnUpdated[r] > cursor}

(* /wait answers with rows: the cursor moves past all of them. *)
Poll ==
  /\ Ready("poll") /\ NewRows # {}
  /\ cursor' \in {turnUpdated[r] : r \in NewRows} /\ \A r \in NewRows : turnUpdated[r] <= cursor'
  /\ queue' = NewRows /\ loop' = "rows"
  /\ edges' = [r \in Reviews |-> IF r \in NewRows THEN edges[r] + 1 ELSE edges[r]]
  /\ UNCHANGED <<hvars, at, pending, inflight, signal, children>>
  /\ Goto("rows")

BeginDrain == /\ loop' = "drain" /\ queue' = pending
              /\ UNCHANGED <<hvars, at, cursor, pending, inflight, signal, children, edges>>

(* A timeout: children are reaped, then _drain_pending starts over a copy  *)
(* of the pending set...                                                   *)
Timeout == Ready("poll") /\ NewRows = {} /\ BeginDrain /\ pc' = "drain" /\ sweep' = Tracked

(* ... as it does after a network error of the poll and the last row. *)
StartDrain == /\ Ready("poll") \/ (Ready("rows") /\ queue = {})
              /\ BeginDrain
              /\ Goto("drain")

(* The two terminal gates skip a row; the others go to handle(). *)
SkipRow(r) ==
  /\ Ready("rows") /\ r \in queue /\ (r \notin Armed \/ PerReviewCapped(r))
  /\ queue' = queue \ {r}
  /\ UNCHANGED <<hvars, loop, at, cursor, pending, inflight, signal, children, edges>>
  /\ Goto("rows")

Handle(r) == /\ queue' = queue \ {r} /\ at' = r
             /\ UNCHANGED <<hvars, loop, cursor, pending, inflight, signal, children, edges>>
             /\ Goto("check")

TakeRow(r) == Ready("rows") /\ r \in queue \cap Armed /\ ~PerReviewCapped(r) /\ Handle(r)

(* A pending review goes to handle(), unless capacity ends the loop. *)
TakePending(r) == Ready("drain") /\ r \in queue /\ ~AtCapacity /\ Handle(r)

EndDrain ==
  /\ Ready("drain") /\ (queue = {} \/ AtCapacity)
  /\ queue' = {}
  /\ UNCHANGED <<hvars, loop, at, cursor, pending, inflight, signal, children, edges>>
  /\ Goto("poll")

(* handle() did not spawn: a row is looked at once more, a pending review  *)
(* stays pending.                                                          *)
HandleFalse == Goto(IF loop = "rows" THEN "recheck" ELSE "drain")

(* handle() claims without asking for capacity. *)
CheckNothing ==
  /\ Ready("check")
  /\ UNCHANGED <<hvars, loopvars, cursor, pending, inflight, signal, children, edges>>
  /\ Goto("claim")

Check ==
  /\ Ready("check")
  /\ UNCHANGED <<hvars, loopvars, cursor, pending, inflight, signal, children, edges>>
  /\ IF AtCapacity THEN HandleFalse ELSE Goto("claim")

Recheck ==
  /\ Ready("recheck")
  /\ pending' = IF AtCapacity THEN pending \cup {at} ELSE pending
  /\ UNCHANGED <<hvars, loopvars, cursor, inflight, signal, children, edges>>
  /\ Goto("rows")

Body(to, by, state, owner) == [to |-> to, by |-> by, state |-> state, owner |-> owner]

Claiming == Apply(at, Body("-", "-", "working", OWNER))

(* The claim is granted: 200. *)
Claim ==
  /\ pc = "claim" /\ Len(children) < MaxChildren
  /\ Claiming
  /\ UNCHANGED <<loopvars, cursor, pending, inflight, signal, children, edges>>
  /\ Goto("spawn")

(* Any other status is a refusal to it: a 409, or a 5xx of a server or a   *)
(* proxy that failed before or after the claim.                            *)
ClaimRefused ==
  /\ pc = "claim"
  /\ Claiming \/ UNCHANGED hvars
  /\ UNCHANGED <<loopvars, cursor, pending, inflight, signal, children, edges>>
  /\ HandleFalse

Launch == children' = Append(children, [rev |-> at, at |-> clock, status |-> "live"])
Track == inflight' = [inflight EXCEPT ![at] = Len(children) + 1]
Discard == pending' = IF loop = "drain" THEN pending \ {at} ELSE pending

(* A pending review that is spawned stays pending. *)
SpawnKeepsPending ==
  /\ pc = "spawn" /\ Launch /\ Track
  /\ UNCHANGED <<hvars, loopvars, cursor, pending, signal, edges>>
  /\ Goto(loop)

(* A handle that is tracked for the review stays. *)
SpawnKeepsHandle ==
  /\ pc = "spawn" /\ Launch /\ (IF inflight[at] = 0 THEN Track ELSE UNCHANGED inflight) /\ Discard
  /\ UNCHANGED <<hvars, loopvars, cursor, signal, edges>>
  /\ Goto(loop)

(* Popen with the watcher's own lease: the handle replaces any other one   *)
(* that is tracked for the review.                                         *)
Spawn ==
  /\ pc = "spawn" /\ Launch /\ Track /\ Discard
  /\ UNCHANGED <<hvars, loopvars, cursor, signal, edges>>
  /\ Goto(loop)

(* _reap looks at one child: a finished one is dropped, a crashed one      *)
(* signalled.                                                              *)
Reap(r) ==
  LET status == children[inflight[r]].status IN
  /\ r \in sweep /\ signal.stage = "none"
  /\ sweep' = sweep \ {r}
  /\ inflight' = IF status = "live" THEN inflight ELSE [inflight EXCEPT ![r] = 0]
  /\ signal' = IF status = "crashed" THEN [rev |-> r, stage |-> "read"] ELSE signal
  /\ UNCHANGED <<hvars, pc, loopvars, cursor, pending, children, edges>>

(* The status is read: a failed read or a turn that is back ends the       *)
(* signal...                                                               *)
SignalRead ==
  /\ signal.stage = "read"
  /\ \E stage \in {"none", "post"} :
       /\ stage = "post" => turn[signal.rev] = "agent" /\ agent[signal.rev].state # "done"
       /\ signal' = [signal EXCEPT !.stage = stage]
  /\ UNCHANGED <<hvars, pc, loopvars, cursor, pending, inflight, sweep, children, edges>>

(* ... and a hand-back follows by a later, separate call. *)
SignalPost ==
  /\ signal.stage = "post"
  /\ Apply(signal.rev, Body("reviewer", "-", "blocked", OWNER))
  /\ signal' = [signal EXCEPT !.stage = "none"]
  /\ UNCHANGED <<pc, loopvars, cursor, pending, inflight, sweep, children, edges>>

(* Nothing catches a transport error of a claim or of the signal's POST,   *)
(* or a command that cannot be launched.                                   *)
Die == /\ pc \in {"claim", "spawn"} \/ signal.stage = "post"
       /\ signal' = [signal EXCEPT !.stage = "none"]
       /\ UNCHANGED <<hvars, loopvars, cursor, pending, inflight, children, edges>>
       /\ Goto("dead")

WatcherStep ==
  \/ Start \/ Poll \/ Timeout \/ StartDrain \/ EndDrain \/ Check \/ Recheck
  \/ Claim \/ ClaimRefused \/ Spawn \/ SignalRead \/ SignalPost \/ Die
  \/ \E r \in Reviews : SkipRow(r) \/ TakeRow(r) \/ TakePending(r) \/ Reap(r)
----------------------------------------------------------------------------
(* The children, sessions nobody here launched, and the reviewer. *)
Live == {k \in DOMAIN children : children[k].status = "live"}

AgentCall(r, o) ==
  \E state \in {"working", "done", "blocked"} :
    Apply(r, Body(IF state = "working" THEN "-" ELSE "reviewer", "-", state, o))

ReviewerCall(r) ==
  \/ turn[r] = "reviewer" /\ Apply(r, Body("agent", "-", "-", Absent))
  \/ turn[r] = "agent" /\ Apply(r, Body("reviewer", "reviewer", "-", Absent))

ChildExit(k) == \E status \in {"ok", "crashed"} :
                  children' = [children EXCEPT ![k].status = status]

Environment ==
  /\ \/ /\ \/ Tick
           \/ \E k \in Live : AgentCall(children[k].rev, OWNER)
           \/ \E r \in Reviews : ReviewerCall(r) \/ \E o \in Owners \ {OWNER} : AgentCall(r, o)
        /\ UNCHANGED children
     \/ (\E k \in Live : ChildExit(k)) /\ UNCHANGED hvars
  /\ UNCHANGED <<pc, loopvars, cursor, pending, inflight, sweep, signal, edges>>

WatcherNext == WatcherStep \/ Environment

WatcherSpec == WatcherInit /\ [][WatcherNext]_tvars
----------------------------------------------------------------------------
(* The watcher never relaunches by itself: each Send that a reply carried  *)
(* is spent on one child at most, now or through the pending set, however  *)
(* children crash and rows and pending reviews overlap.                    *)
EdgesSpentOnce ==
  \A r \in Reviews :
    LET launched == Cardinality({k \in DOMAIN children : children[k].rev = r}) IN
    pc = "poll" => launched + Cardinality(pending \cap {r}) <= edges[r]

(* The children the watcher tracks and its launches in the window stay     *)
(* within the two global caps, whatever is reaped while it decides.        *)
TrackedWithinCaps ==
  Cardinality(Tracked) <= MaxConcurrent /\ Cardinality(Recent) <= MaxLaunches

Latest(k) == \A j \in DOMAIN children : children[j].rev = children[k].rev => j <= k

(* A live child escapes the concurrency cap only by being replaced: the    *)
(* live children that are the last ones of their reviews stay within it,   *)
(* whatever is reaped, crashes or is sent again in between.                *)
LatestWithinCap == Cardinality({k \in Live : Latest(k)}) <= MaxConcurrent

(* A crash is signalled for the last child of its review: the hand-back    *)
(* never takes the turn from a child the watcher has launched there since. *)
SignalSparesNewChild ==
  signal.stage # "none" =>
    \E k \in DOMAIN children :
      children[k].rev = signal.rev /\ Latest(k) /\ children[k].status = "crashed"

(* The ceilings of the operator's page: no more live children than the     *)
(* concurrency cap, no more launches on a review than its own cap.         *)
CeilingsHold ==
  /\ Cardinality(Live) <= MaxConcurrent
  /\ \A r \in Reviews : Cardinality(RecentOn(r)) <= MaxAttempts

(* A hand-back on behalf of a crashed child is about that child's own      *)
(* tenure: nobody else is working on the review under a live lease.        *)
SignalSparesOthers ==
  \A o \in Owners \ {OWNER} : signal.stage = "post" => ~Fresh(signal.rev, o)
=============================================================================
