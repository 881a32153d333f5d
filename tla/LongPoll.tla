------------------------------ MODULE LongPoll -----------------------------
(***************************************************************************)
(* GET /api/reviews/wait over the handoff state machine: a waiter scans    *)
(* the reviews under the store lock, parks on the store's condition when   *)
(* no row is newer than its cursor, is woken by notify_all at the end of   *)
(* every successful handoff call (or by its timeout, or for nothing), and  *)
(* scans again.  A client keeps a cursor and moves it to the newest        *)
(* turn_updated of each reply, as the watcher does.                        *)
(***************************************************************************)
EXTENDS Handoff

CONSTANT Waiters   \* clients polling with ?turn=agent

VARIABLES
  phase,     \* where the waiter's request is: "idle", "parked" or "awake"
  expired,   \* whether the deadline of its request has passed
  since,    \* the client's ?since=
  seed,      \* the cursor the client started from
  flips,     \* flips[r]: how many times r went from reviewer to agent
  delivered  \* delivered[w][r]: flips[r] when r was last in a reply to w

wvars == <<phase, expired, since, seed, delivered>>
lvars == <<hvars, wvars, flips>>

LongPollTypeOK ==
  /\ phase \in [Waiters -> {"idle", "parked", "awake"}]
  /\ expired \in [Waiters -> BOOLEAN]
  /\ since \in [Waiters -> Nat] /\ seed \in [Waiters -> Nat]
  /\ flips \in [Reviews -> Nat]
  /\ delivered \in [Waiters -> [Reviews -> Nat]]

LongPollInit ==
  /\ HandoffInit
  /\ phase = [w \in Waiters |-> "idle"]
  /\ expired = [w \in Waiters |-> FALSE]
  /\ since = [w \in Waiters |-> 0] /\ seed = since
  /\ flips = [r \in Reviews |-> 0]
  /\ delivered = [w \in Waiters |-> [r \in Reviews |-> 0]]

----------------------------------------------------------------------------
Rows(w) == {r \in Reviews : turn[r] = "agent" /\ turnUpdated[r] > since[w]}

(* max([cursor] + [r.turn_updated for r in rows]) *)
IsNewest(t, R, floor) ==
  /\ t >= floor
  /\ \A r \in R : t >= turnUpdated[r]

(* The client moves its cursor to the time of the reply instead. *)
ReplyNow(w, R) ==
  /\ since' = [since EXCEPT ![w] = clock]
  /\ delivered' = [delivered EXCEPT ![w] =
                     [r \in Reviews |-> IF r \in R THEN flips[r] ELSE @[r]]]
  /\ phase' = [phase EXCEPT ![w] = "idle"]

(* 200 with the rows: each carries its turn_updated, and the client moves  *)
(* its cursor to the newest of them.                                       *)
Reply(w, R) ==
  /\ \E t \in {since[w]} \cup {turnUpdated[r] : r \in R} :
       IsNewest(t, R, since[w]) /\ since' = [since EXCEPT ![w] = t]
  /\ delivered' = [delivered EXCEPT ![w] =
                     [r \in Reviews |-> IF r \in R THEN flips[r] ELSE @[r]]]
  /\ phase' = [phase EXCEPT ![w] = "idle"]

Park(w) == /\ phase' = [phase EXCEPT ![w] = "parked"]
           /\ UNCHANGED <<since, delivered>>

TimeoutReply(w) == /\ phase' = [phase EXCEPT ![w] = "idle"]
                   /\ UNCHANGED <<since, delivered>>

(* A waiter that checks its deadline only after parking once more. *)
ScanForgettingDeadline(w) ==
  /\ phase[w] = "awake"
  /\ IF Rows(w) # {} THEN Reply(w, Rows(w)) ELSE Park(w)
  /\ UNCHANGED <<hvars, flips, expired, seed>>

(* One pass of the loop, under the lock from the scan to the reply, or to  *)
(* the wait that releases it.                                              *)
Scan(w) ==
  /\ phase[w] = "awake"
  /\ IF Rows(w) # {} THEN Reply(w, Rows(w))
     ELSE IF expired[w] THEN TimeoutReply(w) ELSE Park(w)
  /\ UNCHANGED <<hvars, flips, expired, seed>>

(* A request arrives with the client's cursor and contends for the lock. *)
Enter(w) == /\ phase[w] = "idle"
            /\ phase' = [phase EXCEPT ![w] = "awake"]
            /\ expired' = [expired EXCEPT ![w] = FALSE]
            /\ UNCHANGED <<hvars, flips, since, seed, delivered>>

(* The deadline passes; Condition.wait(remaining) returns if it was parked. *)
Expire(w) == /\ phase[w] # "idle" /\ ~expired[w]
             /\ expired' = [expired EXCEPT ![w] = TRUE]
             /\ phase' = [phase EXCEPT ![w] = "awake"]
             /\ UNCHANGED <<hvars, flips, since, seed, delivered>>

(* A waiter may wake for nothing. *)
SpuriousWake(w) == /\ phase[w] = "parked"
                   /\ phase' = [phase EXCEPT ![w] = "awake"]
                   /\ UNCHANGED <<hvars, flips, expired, since, seed, delivered>>

(* The connection or the server is lost: the client keeps its cursor. *)
Abort(w) == /\ phase[w] # "idle"
            /\ phase' = [phase EXCEPT ![w] = "idle"]
            /\ UNCHANGED <<hvars, flips, expired, since, seed, delivered>>

(* The client process starts over, from now or (backlog) from 0. *)
Restart(w) == /\ \E s \in {0, clock} :
                   /\ since' = [since EXCEPT ![w] = s]
                   /\ seed' = [seed EXCEPT ![w] = s]
              /\ delivered' = [delivered EXCEPT ![w] = [r \in Reviews |-> 0]]
              /\ phase' = [phase EXCEPT ![w] = "idle"]
              /\ UNCHANGED <<hvars, flips, expired>>

NotifyNobody == UNCHANGED phase

(* Wakes every parked waiter, inside the lock section of the write. *)
NotifyAll == phase' = [w \in Waiters |-> IF phase[w] = "parked" THEN "awake" ELSE phase[w]]

HandoffCall(r, b) ==
  /\ Apply(r, b)
  /\ NotifyAll
  /\ flips' = [flips EXCEPT ![r] =
                 IF turn[r] = "reviewer" /\ turn'[r] = "agent" THEN @ + 1 ELSE @]
  /\ UNCHANGED <<expired, since, seed, delivered>>

TimePasses == Tick /\ UNCHANGED <<wvars, flips>>

LongPollNext ==
  \/ TimePasses
  \/ \E r \in Reviews, b \in Bodies : HandoffCall(r, b)
  \/ \E w \in Waiters : \/ Enter(w) \/ Scan(w) \/ Expire(w) \/ SpuriousWake(w)
                        \/ Abort(w) \/ Restart(w)

(* A thread that contends for the lock gets it, and a deadline passes. *)
LongPollFairness == \A w \in Waiters : WF_lvars(Scan(w)) /\ WF_lvars(Expire(w))

LongPollSpec == LongPollInit /\ [][LongPollNext]_lvars /\ LongPollFairness

----------------------------------------------------------------------------
(* No lost wake-up: nobody sleeps on the condition while a row it asked    *)
(* for is there.                                                           *)
NoSleepThroughFlip == \A w \in Waiters : phase[w] = "parked" => Rows(w) = {}

(* No flip is passed over: once a client's cursor has reached the stamp of *)
(* a review that the agent still has, that very flip was in one of its     *)
(* replies, or the client started after it.                                *)
NoFlipMissed ==
  \A w \in Waiters, r \in Reviews :
    turn[r] = "agent" /\ turnUpdated[r] <= since[w] =>
      delivered[w][r] = flips[r] \/ turnUpdated[r] <= seed[w]

(* The poll is edge-triggered: a scan never returns a flip it returned     *)
(* before, however often the working agent renews its lease, so the client *)
(* does not spin on a review that is being worked on.                      *)
RowsAreNews ==
  \A w \in Waiters : \A r \in Rows(w) : delivered[w][r] < flips[r]

(* Every request is answered. *)
EveryWaitEnds == \A w \in Waiters : phase[w] # "idle" ~> phase[w] = "idle"
=============================================================================
