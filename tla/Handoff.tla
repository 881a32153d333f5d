------------------------------ MODULE Handoff ------------------------------
(***************************************************************************)
(* The turn baton and the agent lease: HandoffService.apply.  A body of    *)
(* POST /handoff is read, decided and written under the one store lock, so *)
(* a call is one step.  Its form selects the arm in a pinned order:        *)
(* reclaim, hand-back, flip, lease; anything else is a 400 and changes     *)
(* nothing, as does a refused lease (409).                                 *)
(***************************************************************************)
EXTENDS Integers

CONSTANTS Reviews,   \* the reviews of the instance
          Owners,    \* names a session signs its lease with
          NoOwner,   \* the empty name, "" or no agent_status at all
          Absent,    \* a body without the key
          TTL,       \* LEASE_TTL_S, in ticks of the model's clock
          MaxClock   \* bound: the model's clock stops here

ASSUME HandoffAssumption ==
  /\ NoOwner \notin Owners
  /\ Absent \notin Owners \cup {NoOwner}
  /\ TTL \in Nat
  /\ MaxClock \in Nat

VARIABLES
  clock,       \* time.time()
  stamp,       \* the time the last handoff write read
  turn,        \* meta.turn, "reviewer" when the key is absent
  turnUpdated, \* meta.turn_updated, 0 when absent
  agent,       \* meta.agent_status; None is state "none" with no owner
  grants       \* grants[r][o]: when session o last got a 200 for its lease in
               \* this tenure, 0 when it has none.  What the sessions know.

hvars == <<clock, stamp, turn, turnUpdated, agent, grants>>

Bodies == [to : {"reviewer", "agent", "-"}, by : {"reviewer", "-"},
           state : {"working", "done", "blocked", "-"},
           owner : Owners \cup {NoOwner, Absent}]

AgentStatus == [state : {"none", "working", "done", "blocked"},
                owner : Owners \cup {NoOwner}, at : Nat]

NoAgent == [state |-> "none", owner |-> NoOwner, at |-> 0]

HandoffTypeOK ==
  /\ clock \in Nat /\ stamp \in Nat
  /\ turn \in [Reviews -> {"reviewer", "agent"}]
  /\ turnUpdated \in [Reviews -> Nat]
  /\ agent \in [Reviews -> AgentStatus]
  /\ grants \in [Reviews -> [Owners -> Nat]]

HandoffInit ==
  /\ clock = 1 /\ stamp = 0
  /\ turn = [r \in Reviews |-> "reviewer"]
  /\ turnUpdated = [r \in Reviews |-> 0]
  /\ agent = [r \in Reviews |-> NoAgent]
  /\ grants = [r \in Reviews |-> [o \in Owners |-> 0]]

----------------------------------------------------------------------------
(* The dispatch, in the order of the code. *)
IsReclaim(b)  == b.to = "reviewer" /\ b.by = "reviewer"
IsHandBack(b) == ~IsReclaim(b) /\ b.to = "reviewer" /\ b.state \in {"done", "blocked"}
IsFlip(b)     == b.to = "agent"
IsLease(b)    == b.state = "working" /\ ~IsReclaim(b) /\ ~IsHandBack(b) /\ ~IsFlip(b)

(* now = time.time(): calls are serialised by the lock and no two of them  *)
(* read the same instant.                                                  *)
ReadsClock == clock > stamp /\ stamp' = clock /\ UNCHANGED clock

(* Every lease of the review is over: the sessions start again from none.  *)
EndTenure(r) == grants' = [grants EXCEPT ![r] = [o \in Owners |-> 0]]

Reclaim(r) ==
  /\ turn' = [turn EXCEPT ![r] = "reviewer"]
  /\ turnUpdated' = [turnUpdated EXCEPT ![r] = clock]
  /\ UNCHANGED <<agent, grants>>

HandBack(r, b) ==
  /\ turn' = [turn EXCEPT ![r] = "reviewer"]
  /\ agent' = [agent EXCEPT ![r] =
       [state |-> b.state, at |-> clock,
        owner |-> IF b.owner = Absent THEN agent[r].owner ELSE b.owner]]
  /\ turnUpdated' = [turnUpdated EXCEPT ![r] = clock]
  /\ EndTenure(r)

(* Sending again leaves the previous round's agent_status in place. *)
FlipKeepsStatus(r) ==
  /\ turn' = [turn EXCEPT ![r] = "agent"]
  /\ turnUpdated' = [turnUpdated EXCEPT ![r] = clock]
  /\ EndTenure(r)
  /\ UNCHANGED agent

(* Only an actual reviewer-to-agent flip changes anything. *)
Flip(r) ==
  IF turn[r] = "agent" THEN UNCHANGED <<turn, turnUpdated, agent, grants>>
  ELSE /\ turn' = [turn EXCEPT ![r] = "agent"]
       /\ agent' = [agent EXCEPT ![r] = NoAgent]
       /\ turnUpdated' = [turnUpdated EXCEPT ![r] = clock]
       /\ EndTenure(r)

Signature(b) == IF b.owner = Absent THEN NoOwner ELSE b.owner

Stale(r) == clock - agent[r].at > TTL

(* A stale lease is taken over whoever has the turn. *)
GrantsIgnoringTurn(r, o) == agent[r].owner \in {NoOwner, o} \/ Stale(r)

(* Anybody's unsigned ping is a renewal. *)
GrantsUnsigned(r, o) == \/ o = NoOwner \/ agent[r].owner \in {NoOwner, o}
                        \/ Stale(r) /\ turn[r] = "agent"

(* A lease is stale already in its last tick. *)
GrantsAtTTL(r, o) == \/ agent[r].owner \in {NoOwner, o}
                     \/ clock - agent[r].at >= TTL /\ turn[r] = "agent"

Grants(r, o) == \/ agent[r].owner \in {NoOwner, o}
                \/ Stale(r) /\ turn[r] = "agent"

(* A ping that also stamps turn_updated. *)
LeaseStampsTurn(r, b) ==
  LET o == Signature(b) IN
  /\ Grants(r, o)
  /\ agent' = [agent EXCEPT ![r] = [state |-> "working", owner |-> o, at |-> clock]]
  /\ grants' = [grants EXCEPT ![r] = [p \in Owners |-> IF p = o THEN clock ELSE @[p]]]
  /\ turnUpdated' = [turnUpdated EXCEPT ![r] = clock]
  /\ UNCHANGED turn

Lease(r, b) ==
  LET o == Signature(b) IN
  /\ Grants(r, o)
  /\ agent' = [agent EXCEPT ![r] = [state |-> "working", owner |-> o, at |-> clock]]
  /\ grants' = [grants EXCEPT ![r] = [p \in Owners |-> IF p = o THEN clock ELSE @[p]]]
  /\ UNCHANGED <<turn, turnUpdated>>

Apply(r, b) ==
  /\ ReadsClock
  /\ \/ IsReclaim(b)  /\ Reclaim(r)
     \/ IsHandBack(b) /\ HandBack(r, b)
     \/ IsFlip(b)     /\ Flip(r)
     \/ IsLease(b)    /\ Lease(r, b)

Tick == /\ clock < MaxClock
        /\ clock' = clock + 1
        /\ UNCHANGED <<stamp, turn, turnUpdated, agent, grants>>

HandoffNext == Tick \/ \E r \in Reviews, b \in Bodies : Apply(r, b)

HandoffSpec == HandoffInit /\ [][HandoffNext]_hvars

----------------------------------------------------------------------------
Fresh(r, o) == grants[r][o] > 0 /\ clock - grants[r][o] <= TTL

(* No two sessions may both believe they hold a live lease of the same     *)
(* tenure: a session that got its 200 and keeps within the TTL is never    *)
(* preempted by another session's claim, takeover or anonymous ping.       *)
LeaseExclusive ==
  \A r \in Reviews, o, p \in Owners : Fresh(r, o) /\ Fresh(r, p) => o = p

(* While the agent side has the turn, agent_status is never a leftover     *)
(* "done" or "blocked" of an earlier round: a watcher and the viewer read  *)
(* "turn is agent" as "parked or being worked on".                         *)
NoLeftoverStatus ==
  \A r \in Reviews : turn[r] = "agent" => agent[r].state \in {"none", "working"}

(* A session that holds a fresh grant can renew it: its own ping is not    *)
(* refused before its lease lapses, whatever other sessions and the        *)
(* reviewer do short of ending the tenure.                                 *)
FreshHolderRenews ==
  \A r \in Reviews, o \in Owners : Fresh(r, o) => Grants(r, o)

LiveSessions == [r \in Reviews |-> {o \in Owners : Fresh(r, o)}]

(* The handoff state machine implements the clockless baton. *)
Abstract == INSTANCE Baton WITH baton <- turn,
                                last <- [r \in Reviews |-> agent[r].owner],
                                live <- LiveSessions
ImplementsBaton == Abstract!Spec
=============================================================================
