--------------------------- MODULE HandoffProofs ---------------------------
(***************************************************************************)
(* For every set of reviews and sessions and every TTL: the handoff state  *)
(* machine is type-correct, a live lease is never preempted, its holder    *)
(* can always renew it, no stale status is shown while the agent side has  *)
(* the turn, and the machine implements the abstract baton.  With the long *)
(* poll on top of it, and any number of waiters: nobody sleeps through a   *)
(* flip it asked for, no flip is passed over by a cursor, and no flip is   *)
(* returned twice to one client; and the long poll implements the handoff. *)
(***************************************************************************)
EXTENDS LongPoll, TLAPS

USE DEF AgentStatus, NoAgent

(* The four arms, from the guard and effects they share. *)
LEMMA ApplyArms ==
  ASSUME NEW r \in Reviews, NEW b \in Bodies, Apply(r, b)
  PROVE  /\ ReadsClock
         /\ \/ Reclaim(r)
            \/ HandBack(r, b) /\ b.state \in {"done", "blocked"}
            \/ Flip(r)
            \/ Lease(r, b)
  BY DEF Apply, IsHandBack

(* Whoever signs a body signs as a session or as nobody. *)
LEMMA SignatureType ==
  ASSUME NEW b \in Bodies
  PROVE  Signature(b) \in Owners \cup {NoOwner}
  BY HandoffAssumption DEF Bodies, Signature

----------------------------------------------------------------------------
(* Every write of meta.json keeps its fields in their types. *)
LEMMA HandoffTypeStep ==
  ASSUME HandoffTypeOK, [HandoffNext]_hvars
  PROVE  HandoffTypeOK'
<1> USE HandoffAssumption DEF HandoffTypeOK
<1>1. CASE Tick
  BY <1>1 DEF Tick
<1>2. ASSUME NEW r \in Reviews, NEW b \in Bodies, Apply(r, b)
      PROVE  HandoffTypeOK'
  <2>1. clock' \in Nat /\ stamp' \in Nat /\ clock' = clock
    BY <1>2, ApplyArms DEF ReadsClock
  <2>2. CASE Reclaim(r)
    BY <2>1, <2>2 DEF Reclaim
  <2>3. CASE HandBack(r, b) /\ b.state \in {"done", "blocked"}
    <3>1. b.owner \in Owners \cup {NoOwner, Absent}
      BY DEF Bodies
    <3>2. (IF b.owner = Absent THEN agent[r].owner ELSE b.owner) \in Owners \cup {NoOwner}
      BY <3>1
    <3> QED BY <2>1, <2>3, <3>2 DEF HandBack, EndTenure
  <2>4. CASE Flip(r)
    <3>1. NoAgent \in AgentStatus
      OBVIOUS
    <3> HIDE DEF AgentStatus, NoAgent
    <3>2. CASE turn[r] = "agent"
      BY <2>1, <2>4, <3>2 DEF Flip
    <3>3. CASE turn[r] # "agent"
      <4>1. /\ agent' = [agent EXCEPT ![r] = NoAgent]
            /\ grants' = [grants EXCEPT ![r] = [o \in Owners |-> 0]]
            /\ turn' = [turn EXCEPT ![r] = "agent"]
            /\ turnUpdated' = [turnUpdated EXCEPT ![r] = clock]
        BY <2>4, <3>3 DEF Flip, EndTenure
      <4>2. agent' \in [Reviews -> AgentStatus]
        BY <3>1, <4>1
      <4>3. grants' \in [Reviews -> [Owners -> Nat]]
        BY <4>1
      <4> QED BY <2>1, <4>1, <4>2, <4>3
    <3> QED BY <3>2, <3>3
  <2>5. CASE Lease(r, b)
    BY <2>1, <2>5, SignatureType DEF Lease
  <2> QED BY <1>2, <2>2, <2>3, <2>4, <2>5, ApplyArms
<1>3. CASE UNCHANGED hvars
  BY <1>3 DEF hvars
<1> QED BY <1>1, <1>2, <1>3 DEF HandoffNext

(* The type invariant of the turn and lease fields of meta.json. *)
THEOREM HandoffTypeCorrect == HandoffSpec => []HandoffTypeOK
<1>1. HandoffInit => HandoffTypeOK
  BY DEF HandoffInit, HandoffTypeOK
<1> QED BY <1>1, HandoffTypeStep, PTL DEF HandoffSpec

----------------------------------------------------------------------------
(* What a session knows agrees with the file: a grant that is not the      *)
(* lease on disk has lapsed.                                               *)
GrantsCurrent ==
  \A r \in Reviews, o \in Owners :
    grants[r][o] > 0 => \/ agent[r].owner = o /\ agent[r].at = grants[r][o]
                        \/ clock - grants[r][o] > TTL

LeaseInv == HandoffTypeOK /\ GrantsCurrent

LEMMA GrantsCurrentInit == HandoffInit => GrantsCurrent
BY DEF HandoffInit, GrantsCurrent

(* A granted claim finds every other session's grant lapsed. *)
LEMMA GrantMeansLapsed ==
  ASSUME LeaseInv, NEW r \in Reviews, NEW o \in Owners \cup {NoOwner}, Grants(r, o),
         NEW p \in Owners, p # o, grants[r][p] > 0
  PROVE  clock - grants[r][p] > TTL
<1>1. CASE agent[r].owner \in {NoOwner, o}
  BY <1>1, HandoffAssumption DEF LeaseInv, GrantsCurrent
<1>2. CASE Stale(r)
  BY <1>2 DEF LeaseInv, GrantsCurrent, Stale
<1> QED BY <1>1, <1>2 DEF Grants

LEMMA GrantsCurrentStep ==
  ASSUME LeaseInv, [HandoffNext]_hvars
  PROVE  GrantsCurrent'
<1> USE HandoffAssumption DEF LeaseInv, HandoffTypeOK
<1>1. CASE Tick
  <2> SUFFICES ASSUME NEW r \in Reviews, NEW o \in Owners, grants[r][o] > 0
               PROVE  \/ agent[r].owner = o /\ agent[r].at = grants[r][o]
                      \/ clock + 1 - grants[r][o] > TTL
    BY <1>1 DEF Tick, GrantsCurrent
  <2>1. grants[r][o] \in Nat
    OBVIOUS
  <2> QED BY <2>1 DEF GrantsCurrent
<1>2. ASSUME NEW r \in Reviews, NEW b \in Bodies, Apply(r, b)
      PROVE  GrantsCurrent'
  <2>1. clock' = clock
    BY <1>2, ApplyArms DEF ReadsClock
  <2>2. CASE Reclaim(r)
    BY <2>1, <2>2 DEF Reclaim, GrantsCurrent
  <2>3. CASE HandBack(r, b)
    <3>1. \A q \in Reviews, o \in Owners :
            grants'[q][o] > 0 => q # r /\ grants'[q] = grants[q] /\ agent'[q] = agent[q]
      BY <2>3 DEF HandBack, EndTenure
    <3> QED BY <2>1, <3>1 DEF GrantsCurrent
  <2>4. CASE Flip(r)
    <3>1. CASE turn[r] = "agent"
      BY <2>1, <2>4, <3>1 DEF Flip, GrantsCurrent
    <3>2. CASE turn[r] # "agent"
      <4>1. \A q \in Reviews, o \in Owners :
              grants'[q][o] > 0 => q # r /\ grants'[q] = grants[q] /\ agent'[q] = agent[q]
        BY <2>4, <3>2 DEF Flip, EndTenure
      <4> QED BY <2>1, <4>1 DEF GrantsCurrent
    <3> QED BY <3>1, <3>2
  <2>5. CASE Lease(r, b)
    <3> DEFINE s == Signature(b)
    <3>1. s \in Owners \cup {NoOwner} /\ Grants(r, s)
      BY <2>5, SignatureType DEF Lease
    <3>2. agent' = [agent EXCEPT ![r] = [state |-> "working", owner |-> s, at |-> clock]]
      BY <2>5 DEF Lease
    <3>3. grants' = [grants EXCEPT ![r] = [p \in Owners |-> IF p = s THEN clock ELSE @[p]]]
      BY <2>5 DEF Lease
    <3> HIDE DEF s
    <3> SUFFICES ASSUME NEW q \in Reviews, NEW o \in Owners, grants'[q][o] > 0
                 PROVE  \/ agent'[q].owner = o /\ agent'[q].at = grants'[q][o]
                        \/ clock - grants'[q][o] > TTL
      BY <2>1 DEF GrantsCurrent
    <3>4. CASE q # r
      <4>1. grants'[q] = grants[q] /\ agent'[q] = agent[q]
        BY <3>2, <3>3, <3>4
      <4> QED BY <4>1 DEF GrantsCurrent
    <3>5. CASE q = r /\ o = s
      BY <3>2, <3>3, <3>5
    <3>6. CASE q = r /\ o # s
      <4>1. grants'[q][o] = grants[r][o]
        BY <3>3, <3>6
      <4>2. clock - grants[r][o] > TTL
        BY <3>1, <3>6, <4>1, GrantMeansLapsed
      <4> QED BY <4>1, <4>2
    <3> QED BY <3>4, <3>5, <3>6
  <2> QED BY <1>2, <2>2, <2>3, <2>4, <2>5, ApplyArms
<1>3. CASE UNCHANGED hvars
  BY <1>3 DEF hvars, GrantsCurrent
<1> QED BY <1>1, <1>2, <1>3 DEF HandoffNext

(* The inductive invariant behind the lease properties. *)
THEOREM LeaseInvariant == HandoffSpec => []LeaseInv
<1>1. HandoffInit => LeaseInv
  BY GrantsCurrentInit DEF HandoffInit, HandoffTypeOK, LeaseInv
<1>2. LeaseInv /\ [HandoffNext]_hvars => LeaseInv'
  BY HandoffTypeStep, GrantsCurrentStep DEF LeaseInv
<1> QED BY <1>1, <1>2, PTL DEF HandoffSpec

(* A fresh grant is the lease on disk. *)
LEMMA FreshIsOwner ==
  ASSUME LeaseInv, NEW r \in Reviews, NEW o \in Owners, Fresh(r, o)
  PROVE  agent[r].owner = o
<1>1. grants[r][o] \in Nat /\ clock \in Nat
  BY DEF LeaseInv, HandoffTypeOK
<1> QED BY <1>1, HandoffAssumption DEF LeaseInv, GrantsCurrent, Fresh

(* Single flight: no two sessions hold a live lease on one review, however *)
(* claims, pings, takeovers, hand-backs and reclaims interleave.           *)
THEOREM LeaseIsExclusive == HandoffSpec => []LeaseExclusive
<1>1. LeaseInv => LeaseExclusive
  BY FreshIsOwner DEF LeaseExclusive
<1> QED BY <1>1, LeaseInvariant, PTL

(* The heartbeat of a session whose lease is live is never answered 409.   *)
THEOREM HolderRenews == HandoffSpec => []FreshHolderRenews
<1>1. LeaseInv => FreshHolderRenews
  BY FreshIsOwner DEF FreshHolderRenews, Grants
<1> QED BY <1>1, LeaseInvariant, PTL

----------------------------------------------------------------------------
LEMMA NoLeftoverStep ==
  ASSUME HandoffTypeOK, NoLeftoverStatus, [HandoffNext]_hvars
  PROVE  NoLeftoverStatus'
<1> USE DEF HandoffTypeOK, NoLeftoverStatus
<1>1. CASE Tick
  BY <1>1 DEF Tick
<1>2. ASSUME NEW r \in Reviews, NEW b \in Bodies, Apply(r, b)
      PROVE  NoLeftoverStatus'
  <2>1. CASE Reclaim(r)
    BY <2>1 DEF Reclaim
  <2>2. CASE HandBack(r, b)
    BY <2>2 DEF HandBack
  <2>3. CASE Flip(r)
    BY <2>3 DEF Flip
  <2>4. CASE Lease(r, b)
    BY <2>4 DEF Lease
  <2> QED BY <1>2, <2>1, <2>2, <2>3, <2>4, ApplyArms
<1>3. CASE UNCHANGED hvars
  BY <1>3 DEF hvars
<1> QED BY <1>1, <1>2, <1>3 DEF HandoffNext

(* While the agent side has the turn, agent_status is never the "done" or  *)
(* "blocked" of an earlier round.                                          *)
THEOREM StatusIsCurrent == HandoffSpec => []NoLeftoverStatus
<1>1. HandoffInit => HandoffTypeOK /\ NoLeftoverStatus
  BY DEF HandoffInit, HandoffTypeOK, NoLeftoverStatus
<1>2. HandoffTypeOK /\ NoLeftoverStatus /\ [HandoffNext]_hvars
        => (HandoffTypeOK /\ NoLeftoverStatus)'
  BY HandoffTypeStep, NoLeftoverStep
<1> QED BY <1>1, <1>2, PTL DEF HandoffSpec

----------------------------------------------------------------------------
(* The refinement: each arm of the dispatch is one action of the baton.    *)
(* A call that leaves the grants of the other reviews alone leaves the     *)
(* sessions live on them.                                                  *)
LEMMA OtherReviewsLive ==
  ASSUME NEW r \in Reviews, clock' = clock, HandoffTypeOK,
         NEW S, NEW G, grants' = [grants EXCEPT ![r] = G],
         {o \in Owners : G[o] > 0 /\ clock - G[o] <= TTL} = S
  PROVE  LiveSessions' = [LiveSessions EXCEPT ![r] = S]
BY DEF LiveSessions, Fresh, HandoffTypeOK

LEMMA TenureEnds ==
  ASSUME NEW r \in Reviews, clock' = clock, HandoffTypeOK, EndTenure(r)
  PROVE  LiveSessions' = [LiveSessions EXCEPT ![r] = {}]
<1> DEFINE G == [o \in Owners |-> 0]
<1>1. {o \in Owners : G[o] > 0 /\ clock - G[o] <= TTL} = {}
  OBVIOUS
<1>2. grants' = [grants EXCEPT ![r] = G]
  BY DEF EndTenure
<1> HIDE DEF G
<1> QED BY <1>1, <1>2, OtherReviewsLive

(* The abstract step a handoff call takes. *)
LEMMA ApplyRefines ==
  ASSUME LeaseInv, NEW r \in Reviews, NEW b \in Bodies, Apply(r, b)
  PROVE  Abstract!Next \/ UNCHANGED Abstract!vars
<1> USE HandoffAssumption
<1> DEFINE lastSigned == [q \in Reviews |-> agent[q].owner]
<1>1. /\ clock' = clock /\ clock \in Nat /\ clock > 0 /\ HandoffTypeOK
  BY ApplyArms DEF ReadsClock, LeaseInv, HandoffTypeOK
<1>2. CASE Reclaim(r)
  <2>1. lastSigned' = lastSigned /\ LiveSessions' = LiveSessions
    BY <1>1, <1>2 DEF Reclaim, LiveSessions, Fresh
  <2>2. turn' = [turn EXCEPT ![r] = "reviewer"]
    BY <1>2 DEF Reclaim
  <2>3. Abstract!Recall(r)
    BY <2>1, <2>2 DEF Abstract!Recall
  <2> QED BY <2>3 DEF Abstract!Next
<1>3. CASE HandBack(r, b)
  <2> DEFINE s == IF b.owner = Absent THEN agent[r].owner ELSE b.owner
  <2>1. s \in Owners \cup {NoOwner}
    BY <1>1 DEF Bodies, HandoffTypeOK
  <2>2. lastSigned' = [lastSigned EXCEPT ![r] = s]
    BY <1>1, <1>3 DEF HandBack, HandoffTypeOK
  <2>3. LiveSessions' = [LiveSessions EXCEPT ![r] = {}]
    BY <1>1, <1>3, TenureEnds DEF HandBack
  <2>4. turn' = [turn EXCEPT ![r] = "reviewer"]
    BY <1>3 DEF HandBack
  <2>5. Abstract!Return(r)
    BY <2>1, <2>2, <2>3, <2>4 DEF Abstract!Return
  <2> QED BY <2>5 DEF Abstract!Next
<1>4. CASE Flip(r) /\ turn[r] = "agent"
  BY <1>1, <1>4 DEF Flip, Abstract!vars, LiveSessions, Fresh
<1>5. CASE Flip(r) /\ turn[r] # "agent"
  <2>1. lastSigned' = [lastSigned EXCEPT ![r] = NoOwner]
    <3>1. agent' = [agent EXCEPT ![r] = NoAgent] /\ NoAgent.owner = NoOwner
      BY <1>5 DEF Flip
    <3> HIDE DEF NoAgent
    <3> QED BY <1>1, <3>1 DEF HandoffTypeOK
  <2>2. LiveSessions' = [LiveSessions EXCEPT ![r] = {}]
    BY <1>1, <1>5, TenureEnds DEF Flip
  <2>3. turn[r] = "reviewer" /\ turn' = [turn EXCEPT ![r] = "agent"]
    BY <1>1, <1>5 DEF Flip, HandoffTypeOK
  <2>4. Abstract!Send(r)
    BY <2>1, <2>2, <2>3 DEF Abstract!Send
  <2> QED BY <2>4 DEF Abstract!Next
<1>6. CASE Lease(r, b)
  <2> DEFINE s == Signature(b)
             G == [p \in Owners |-> IF p = s THEN clock ELSE grants[r][p]]
  <2>1. s \in Owners \cup {NoOwner} /\ Grants(r, s)
    BY <1>6, SignatureType DEF Lease
  <2>2. lastSigned' = [lastSigned EXCEPT ![r] = s]
    <3>1. agent' = [agent EXCEPT ![r] = [state |-> "working", owner |-> s, at |-> clock]]
      BY <1>6 DEF Lease
    <3> HIDE DEF s
    <3> QED BY <1>1, <3>1 DEF HandoffTypeOK
  <2>3. grants' = [grants EXCEPT ![r] = G] /\ turn' = turn
    BY <1>6 DEF Lease
  <2> HIDE DEF s
  <2>4. \A p \in Owners : p # s => ~Fresh(r, p)
    <3> SUFFICES ASSUME NEW p \in Owners, p # s, grants[r][p] > 0
                 PROVE  ~(clock - grants[r][p] <= TTL)
      BY DEF Fresh
    <3>1. clock - grants[r][p] > TTL
      BY <2>1, GrantMeansLapsed
    <3>2. grants[r][p] \in Nat
      BY <1>1 DEF HandoffTypeOK
    <3> QED BY <1>1, <3>1, <3>2
  <2>5. {o \in Owners : G[o] > 0 /\ clock - G[o] <= TTL} = {s} \cap Owners
    <3>1. ASSUME NEW o \in Owners
          PROVE  G[o] > 0 /\ clock - G[o] <= TTL <=> o = s
      <4> DEFINE g == grants[r][o]
      <4>1. G[o] = IF o = s THEN clock ELSE g
        OBVIOUS
      <4>2. o # s => ~(g > 0 /\ clock - g <= TTL)
        BY <2>4 DEF Fresh
      <4> HIDE DEF g, G
      <4>3. clock - clock <= TTL
        BY <1>1
      <4> QED BY <1>1, <4>1, <4>2, <4>3
    <3> HIDE DEF G
    <3> QED BY <3>1
  <2>6. LiveSessions' = [LiveSessions EXCEPT ![r] = {s} \cap Owners]
    <3> HIDE DEF G
    <3> QED BY <1>1, <2>3, <2>5, OtherReviewsLive
  <2>7. LiveSessions[r] \subseteq {s}
    BY <2>4 DEF LiveSessions
  <2>8. turn[r] = "agent" \/ lastSigned[r] \in {NoOwner, s}
    BY <2>1 DEF Grants
  <2>9. Abstract!Sign(r, s)
    BY <2>2, <2>3, <2>6, <2>7, <2>8 DEF Abstract!Sign
  <2> QED BY <2>1, <2>9 DEF Abstract!Next
<1> QED BY <1>2, <1>3, <1>4, <1>5, <1>6, ApplyArms

(* Time only ends leases. *)
LEMMA TickRefines ==
  ASSUME LeaseInv, Tick
  PROVE  Abstract!Lapse
<1>1. LiveSessions' \in [Reviews -> SUBSET Owners]
  BY DEF LiveSessions
<1>2. ASSUME NEW r \in Reviews
      PROVE  LiveSessions'[r] \subseteq LiveSessions[r]
  <2> SUFFICES ASSUME NEW o \in Owners, Fresh(r, o)'
               PROVE  Fresh(r, o)
    BY DEF LiveSessions
  <2>1. clock \in Nat /\ clock' = clock + 1 /\ grants' = grants /\ grants[r][o] \in Nat
    BY DEF Tick, LeaseInv, HandoffTypeOK
  <2> QED BY <2>1, HandoffAssumption DEF Fresh
<1>3. UNCHANGED <<turn, [r \in Reviews |-> agent[r].owner]>>
  BY DEF Tick
<1> QED BY <1>1, <1>2, <1>3 DEF Abstract!Lapse

(* The handoff state machine implements the abstract baton: the JSON, the  *)
(* dispatch order and the TTL arithmetic keep the baton's promises.        *)
THEOREM HandoffImplementsBaton == HandoffSpec => ImplementsBaton
<1>1. HandoffInit => Abstract!Init
  BY DEF HandoffInit, Abstract!Init, LiveSessions, Fresh
<1>2. LeaseInv /\ [HandoffNext]_hvars => [Abstract!Next]_(Abstract!vars)
  <2> SUFFICES ASSUME LeaseInv, [HandoffNext]_hvars
               PROVE  [Abstract!Next]_(Abstract!vars)
    OBVIOUS
  <2>1. CASE Tick
    BY <2>1, TickRefines DEF Abstract!Next
  <2>2. ASSUME NEW r \in Reviews, NEW b \in Bodies, Apply(r, b)
        PROVE  [Abstract!Next]_(Abstract!vars)
    BY <2>2, ApplyRefines
  <2>3. CASE UNCHANGED hvars
    BY <2>3 DEF hvars, Abstract!vars, LiveSessions, Fresh
  <2> QED BY <2>1, <2>2, <2>3 DEF HandoffNext
<1> QED BY <1>1, <1>2, LeaseInvariant, PTL DEF HandoffSpec, ImplementsBaton, Abstract!Spec

----------------------------------------------------------------------------
(* The long poll.                                                          *)

(* What a step may change. *)
LEMMA LongPollSteps ==
  ASSUME [LongPollNext]_lvars
  PROVE  \/ TimePasses
         \/ \E r \in Reviews, b \in Bodies : HandoffCall(r, b)
         \/ \E w \in Waiters : Scan(w)
         \/ \E w \in Waiters : Restart(w)
         \/ \E w \in Waiters : Enter(w) \/ Expire(w) \/ SpuriousWake(w) \/ Abort(w)
         \/ UNCHANGED lvars
BY DEF LongPollNext

LEMMA HandoffUnderneath ==
  ASSUME [LongPollNext]_lvars
  PROVE  [HandoffNext]_hvars
BY LongPollSteps DEF TimePasses, HandoffCall, Scan, Restart, Enter, Expire, SpuriousWake,
     Abort, lvars, HandoffNext

(* A handoff call, as far as the poll can see: either it is no flip and    *)
(* nothing that is with the agent side changes, or it is the flip of r.    *)
LEMMA HandoffCallSeen ==
  ASSUME HandoffTypeOK, NEW r \in Reviews, NEW b \in Bodies, Apply(r, b)
  PROVE  /\ clock > stamp /\ stamp' = clock /\ clock' = clock
         /\ \A q \in Reviews \ {r} : turn'[q] = turn[q] /\ turnUpdated'[q] = turnUpdated[q]
         /\ \/ turn[r] = "reviewer" /\ turn'[r] = "agent" /\ turnUpdated'[r] = clock
            \/ turn'[r] = turn[r] /\ turnUpdated'[r] = turnUpdated[r]
            \/ turn'[r] = "reviewer" /\ turnUpdated'[r] = clock
<1> USE DEF HandoffTypeOK
<1>1. CASE Reclaim(r)
  BY <1>1, ApplyArms DEF Reclaim, ReadsClock
<1>2. CASE HandBack(r, b)
  BY <1>2, ApplyArms DEF HandBack, ReadsClock
<1>3. CASE Flip(r)
  BY <1>3, ApplyArms DEF Flip, ReadsClock
<1>4. CASE Lease(r, b)
  BY <1>4, ApplyArms DEF Lease, ReadsClock
<1> QED BY <1>1, <1>2, <1>3, <1>4, ApplyArms

----------------------------------------------------------------------------
PollTypeOK == HandoffTypeOK /\ LongPollTypeOK

LEMMA ReplyType ==
  ASSUME PollTypeOK, NEW w \in Waiters, Reply(w, Rows(w))
  PROVE  /\ since' \in [Waiters -> Nat]
         /\ delivered' \in [Waiters -> [Reviews -> Nat]]
         /\ phase' \in [Waiters -> {"idle", "parked", "awake"}]
<1> USE DEF PollTypeOK, HandoffTypeOK, LongPollTypeOK
<1>1. PICK t \in {since[w]} \cup {turnUpdated[r] : r \in Rows(w)} :
        since' = [since EXCEPT ![w] = t]
  BY DEF Reply
<1>2. t \in Nat
  BY <1>1 DEF Rows
<1> QED BY <1>1, <1>2 DEF Reply

LEMMA PollTypeStep ==
  ASSUME PollTypeOK, [LongPollNext]_lvars
  PROVE  PollTypeOK'
<1> USE DEF PollTypeOK, LongPollTypeOK
<1>0. HandoffTypeOK'
  BY HandoffUnderneath, HandoffTypeStep
<1>1. CASE TimePasses
  BY <1>0, <1>1 DEF TimePasses, wvars
<1>2. ASSUME NEW r \in Reviews, NEW b \in Bodies, HandoffCall(r, b)
      PROVE  PollTypeOK'
  BY <1>0, <1>2 DEF HandoffCall, NotifyAll
<1>3. ASSUME NEW w \in Waiters, Scan(w)
      PROVE  PollTypeOK'
  <2>1. CASE Reply(w, Rows(w))
    BY <1>0, <1>3, <2>1, ReplyType DEF Scan
  <2>2. CASE Park(w) \/ TimeoutReply(w)
    BY <1>0, <1>3, <2>2 DEF Scan, Park, TimeoutReply
  <2> QED BY <1>3, <2>1, <2>2 DEF Scan
<1>4. ASSUME NEW w \in Waiters, Restart(w)
      PROVE  PollTypeOK'
  BY <1>0, <1>4 DEF Restart, HandoffTypeOK
<1>5. ASSUME NEW w \in Waiters, Enter(w) \/ Expire(w) \/ SpuriousWake(w) \/ Abort(w)
      PROVE  PollTypeOK'
  BY <1>0, <1>5 DEF Enter, Expire, SpuriousWake, Abort
<1>6. CASE UNCHANGED lvars
  BY <1>0, <1>6 DEF lvars, wvars
<1> QED BY <1>1, <1>2, <1>3, <1>4, <1>5, <1>6, LongPollSteps

LEMMA PollTypeInit == LongPollInit => PollTypeOK
<1>1. LongPollInit => HandoffTypeOK
  BY DEF LongPollInit, HandoffInit, HandoffTypeOK, NoAgent, AgentStatus
<1>2. LongPollInit => LongPollTypeOK
  BY DEF LongPollInit, LongPollTypeOK
<1> QED BY <1>1, <1>2 DEF PollTypeOK

(* Requests, cursors and replies keep their types. *)
THEOREM LongPollTypeCorrect == LongPollSpec => []LongPollTypeOK
<1>1. LongPollSpec => []PollTypeOK
  BY PollTypeInit, PollTypeStep, PTL DEF LongPollSpec
<1>2. PollTypeOK => LongPollTypeOK
  BY DEF PollTypeOK
<1> QED BY <1>1, <1>2, PTL

----------------------------------------------------------------------------
LEMMA NoSleepStep ==
  ASSUME PollTypeOK, NoSleepThroughFlip, [LongPollNext]_lvars
  PROVE  NoSleepThroughFlip'
<1> USE DEF PollTypeOK, LongPollTypeOK, NoSleepThroughFlip
<1>1. CASE TimePasses
  BY <1>1 DEF TimePasses, wvars, Tick, Rows
<1>2. ASSUME NEW r \in Reviews, NEW b \in Bodies, HandoffCall(r, b)
      PROVE  NoSleepThroughFlip'
  BY <1>2 DEF HandoffCall, NotifyAll
<1>3. ASSUME NEW w \in Waiters, Scan(w)
      PROVE  NoSleepThroughFlip'
  <2>1. UNCHANGED <<turn, turnUpdated>>
    BY <1>3 DEF Scan, hvars
  <2>2. \A v \in Waiters \ {w} : phase'[v] = phase[v] /\ since'[v] = since[v]
    BY <1>3 DEF Scan, Reply, Park, TimeoutReply
  <2>3. phase'[w] = "parked" => since' = since /\ Rows(w) = {}
    BY <1>3 DEF Scan, Reply, Park, TimeoutReply
  <2> QED BY <2>1, <2>2, <2>3 DEF Rows
<1>4. ASSUME NEW w \in Waiters, Restart(w)
      PROVE  NoSleepThroughFlip'
  BY <1>4 DEF Restart, hvars, Rows
<1>5. ASSUME NEW w \in Waiters, Enter(w) \/ Expire(w) \/ SpuriousWake(w) \/ Abort(w)
      PROVE  NoSleepThroughFlip'
  BY <1>5 DEF Enter, Expire, SpuriousWake, Abort, hvars, Rows
<1>6. CASE UNCHANGED lvars
  BY <1>6 DEF lvars, hvars, wvars, Rows
<1> QED BY <1>1, <1>2, <1>3, <1>4, <1>5, <1>6, LongPollSteps

(* No lost wake-up: a waiter is parked only while no row is newer than its *)
(* cursor, because the write and the notify are under one lock.            *)
THEOREM NobodySleepsThroughFlip == LongPollSpec => []NoSleepThroughFlip
<1>1. LongPollInit => NoSleepThroughFlip
  BY DEF LongPollInit, NoSleepThroughFlip
<1>2. PollTypeOK /\ NoSleepThroughFlip /\ [LongPollNext]_lvars
        => (PollTypeOK /\ NoSleepThroughFlip)'
  BY PollTypeStep, NoSleepStep
<1> QED BY <1>1, <1>2, PollTypeInit, PTL DEF LongPollSpec

----------------------------------------------------------------------------
(* Stamps never run ahead of the last write, nor a cursor ahead of it      *)
(* unless the client started there; a review with the agent was flipped.   *)
StampsBounded ==
  /\ stamp <= clock
  /\ \A r \in Reviews : turnUpdated[r] <= stamp
  /\ \A w \in Waiters : since[w] <= stamp \/ since[w] <= seed[w]

FlipsCounted ==
  /\ \A r \in Reviews : turn[r] = "agent" => flips[r] > 0
  /\ \A w \in Waiters, r \in Reviews : delivered[w][r] <= flips[r]

PollInv == /\ PollTypeOK /\ StampsBounded /\ FlipsCounted
           /\ NoFlipMissed /\ RowsAreNews

(* A reply is past every row it carries and no further than one of them.   *)
LEMMA ReplyCursor ==
  ASSUME PollTypeOK, NEW w \in Waiters, Reply(w, Rows(w))
  PROVE  /\ \A v \in Waiters \ {w} : since'[v] = since[v] /\ delivered'[v] = delivered[v]
         /\ since'[w] >= since[w]
         /\ \A r \in Rows(w) : since'[w] >= turnUpdated[r]
         /\ since'[w] = since[w] \/ \E r \in Reviews : since'[w] = turnUpdated[r]
         /\ \A r \in Reviews : delivered'[w][r] = IF r \in Rows(w) THEN flips[r]
                                                  ELSE delivered[w][r]
<1> USE DEF PollTypeOK, LongPollTypeOK
<1>1. PICK t \in {since[w]} \cup {turnUpdated[r] : r \in Rows(w)} :
        IsNewest(t, Rows(w), since[w]) /\ since' = [since EXCEPT ![w] = t]
  BY DEF Reply
<1>2. since'[w] = t /\ \A v \in Waiters \ {w} : since'[v] = since[v]
  BY <1>1
<1>3. delivered' = [delivered EXCEPT ![w] =
                      [r \in Reviews |-> IF r \in Rows(w) THEN flips[r] ELSE @[r]]]
  BY DEF Reply
<1>4. Rows(w) \subseteq Reviews
  BY DEF Rows
<1>5. t = since[w] \/ \E r \in Reviews : t = turnUpdated[r]
  BY <1>1, <1>4
<1> QED BY <1>1, <1>2, <1>3, <1>5 DEF IsNewest

LEMMA PollInvInit == LongPollInit => PollInv
<1> SUFFICES ASSUME LongPollInit PROVE PollInv
  OBVIOUS
<1>1. PollTypeOK
  BY PollTypeInit
<1>2. /\ \A r \in Reviews : turn[r] = "reviewer" /\ turnUpdated[r] = 0 /\ flips[r] = 0
      /\ \A w \in Waiters : since[w] = 0 /\ \A r \in Reviews : delivered[w][r] = 0
      /\ stamp = 0 /\ clock = 1
  BY DEF LongPollInit, HandoffInit
<1> QED BY <1>1, <1>2 DEF PollInv, StampsBounded, FlipsCounted, NoFlipMissed, RowsAreNews, Rows

LEMMA PollInvCall ==
  ASSUME PollInv, NEW r \in Reviews, NEW b \in Bodies, HandoffCall(r, b)
  PROVE  StampsBounded' /\ FlipsCounted' /\ NoFlipMissed' /\ RowsAreNews'
<1> USE DEF PollInv, PollTypeOK, LongPollTypeOK, HandoffTypeOK
<1>1. /\ clock > stamp /\ stamp' = clock /\ clock' = clock
      /\ \A q \in Reviews \ {r} : turn'[q] = turn[q] /\ turnUpdated'[q] = turnUpdated[q]
      /\ \/ turn[r] = "reviewer" /\ turn'[r] = "agent" /\ turnUpdated'[r] = clock
         \/ turn'[r] = turn[r] /\ turnUpdated'[r] = turnUpdated[r]
         \/ turn'[r] = "reviewer" /\ turnUpdated'[r] = clock
  BY HandoffCallSeen DEF HandoffCall
<1>2. UNCHANGED <<since, seed, delivered>>
  BY DEF HandoffCall
<1>3. /\ \A q \in Reviews \ {r} : flips'[q] = flips[q]
      /\ turn[r] = "reviewer" /\ turn'[r] = "agent" => flips'[r] = flips[r] + 1
      /\ ~(turn[r] = "reviewer" /\ turn'[r] = "agent") => flips'[r] = flips[r]
  BY DEF HandoffCall
<1>4. StampsBounded'
  <2>1. \A q \in Reviews : turnUpdated'[q] <= clock
    BY <1>1 DEF StampsBounded
  <2>2. \A w \in Waiters : since[w] <= clock \/ since[w] <= seed[w]
    BY <1>1 DEF StampsBounded
  <2> QED BY <1>1, <1>2, <2>1, <2>2 DEF StampsBounded
<1>5. FlipsCounted'
  <2>1. ASSUME NEW q \in Reviews PROVE turn'[q] = "agent" => flips'[q] > 0
    BY <1>1, <1>3 DEF FlipsCounted
  <2>2. ASSUME NEW q \in Reviews PROVE flips'[q] >= flips[q] /\ flips'[q] \in Int
    BY <1>3
  <2>3. ASSUME NEW w \in Waiters, NEW q \in Reviews PROVE delivered[w][q] <= flips'[q]
    <3>1. delivered[w][q] <= flips[q] /\ delivered[w][q] \in Nat /\ flips[q] \in Nat
      BY DEF FlipsCounted
    <3> QED BY <2>2, <3>1
  <2> QED BY <1>2, <2>1, <2>3 DEF FlipsCounted
<1>6. NoFlipMissed'
  <2> SUFFICES ASSUME NEW w \in Waiters, NEW q \in Reviews,
                      turn'[q] = "agent", turnUpdated'[q] <= since[w]
               PROVE  delivered[w][q] = flips'[q] \/ turnUpdated'[q] <= seed[w]
    BY <1>2 DEF NoFlipMissed
  <2>1. CASE turn[q] = "agent"
    BY <1>1, <1>3, <2>1 DEF NoFlipMissed
  <2>2. CASE turn[q] # "agent"
    <3>1. turnUpdated'[q] = clock
      BY <1>1, <2>2
    <3>2. since[w] \in Nat /\ seed[w] \in Nat
      OBVIOUS
    <3>3. since[w] <= stamp \/ since[w] <= seed[w]
      BY DEF StampsBounded
    <3> QED BY <1>1, <3>1, <3>2, <3>3
  <2> QED BY <2>1, <2>2
<1>7. RowsAreNews'
  <2> SUFFICES ASSUME NEW w \in Waiters, NEW q \in Reviews,
                      turn'[q] = "agent", turnUpdated'[q] > since[w]
               PROVE  delivered[w][q] < flips'[q]
    BY <1>2 DEF RowsAreNews, Rows
  <2>1. CASE turn[q] = "agent"
    BY <1>1, <1>3, <2>1 DEF RowsAreNews, Rows
  <2>2. CASE turn[q] # "agent"
    BY <1>1, <1>3, <2>2 DEF FlipsCounted
  <2> QED BY <2>1, <2>2
<1> QED BY <1>4, <1>5, <1>6, <1>7

LEMMA PollInvReply ==
  ASSUME PollInv, NEW w \in Waiters, Scan(w), Reply(w, Rows(w))
  PROVE  StampsBounded' /\ FlipsCounted' /\ NoFlipMissed' /\ RowsAreNews'
<1> USE DEF PollInv, PollTypeOK, LongPollTypeOK, HandoffTypeOK
<1>1. UNCHANGED <<clock, stamp, turn, turnUpdated, flips, seed>>
  BY DEF Scan, hvars
<1>2. since' \in [Waiters -> Nat] /\ delivered' \in [Waiters -> [Reviews -> Nat]]
  BY ReplyType
<1>3. /\ \A v \in Waiters \ {w} : since'[v] = since[v] /\ delivered'[v] = delivered[v]
      /\ since'[w] >= since[w]
      /\ \A r \in Rows(w) : since'[w] >= turnUpdated[r]
      /\ since'[w] = since[w] \/ \E r \in Reviews : since'[w] = turnUpdated[r]
      /\ \A r \in Reviews : delivered'[w][r] = IF r \in Rows(w) THEN flips[r]
                                               ELSE delivered[w][r]
  BY ReplyCursor
<1>4. StampsBounded'
  BY <1>1, <1>2, <1>3 DEF StampsBounded
<1>5. FlipsCounted'
  <2>1. ASSUME NEW v \in Waiters, NEW r \in Reviews PROVE delivered'[v][r] <= flips[r]
    <3>1. delivered'[v][r] = flips[r] \/ delivered'[v][r] = delivered[v][r]
      BY <1>3
    <3> QED BY <3>1 DEF FlipsCounted
  <2> QED BY <1>1, <2>1 DEF FlipsCounted
<1>6. NoFlipMissed'
  <2> SUFFICES ASSUME NEW v \in Waiters, NEW r \in Reviews,
                      turn[r] = "agent", turnUpdated[r] <= since'[v]
               PROVE  delivered'[v][r] = flips[r] \/ turnUpdated[r] <= seed[v]
    BY <1>1 DEF NoFlipMissed
  <2>1. CASE v = w /\ r \in Rows(w)
    BY <1>3, <2>1
  <2>2. CASE v = w /\ r \notin Rows(w)
    BY <1>3, <2>2 DEF Rows, NoFlipMissed
  <2>3. CASE v # w
    BY <1>3, <2>3 DEF NoFlipMissed
  <2> QED BY <2>1, <2>2, <2>3
<1>7. RowsAreNews'
  <2> SUFFICES ASSUME NEW v \in Waiters, NEW r \in Reviews,
                      turn[r] = "agent", turnUpdated[r] > since'[v]
               PROVE  delivered'[v][r] < flips[r]
    BY <1>1 DEF RowsAreNews, Rows
  <2>1. r \in Rows(v) /\ ~(v = w /\ r \in Rows(w))
    BY <1>2, <1>3 DEF Rows
  <2> QED BY <1>3, <2>1 DEF RowsAreNews
<1> QED BY <1>4, <1>5, <1>6, <1>7

LEMMA PollInvRestart ==
  ASSUME PollInv, NEW w \in Waiters, Restart(w)
  PROVE  StampsBounded' /\ FlipsCounted' /\ NoFlipMissed' /\ RowsAreNews'
<1> USE DEF PollInv, PollTypeOK, LongPollTypeOK, HandoffTypeOK
<1>1. UNCHANGED <<clock, stamp, turn, turnUpdated, flips>>
  BY DEF Restart, hvars
<1>2. /\ since'[w] = seed'[w] /\ since'[w] \in Nat
      /\ \A r \in Reviews : delivered'[w][r] = 0
      /\ \A v \in Waiters \ {w} : /\ since'[v] = since[v] /\ seed'[v] = seed[v]
                                  /\ delivered'[v] = delivered[v]
  BY DEF Restart
<1>3. StampsBounded'
  <2>1. ASSUME NEW v \in Waiters PROVE since'[v] <= stamp \/ since'[v] <= seed'[v]
    BY <1>2 DEF StampsBounded
  <2> QED BY <1>1, <2>1 DEF StampsBounded
<1>4. FlipsCounted'
  <2>1. ASSUME NEW v \in Waiters, NEW r \in Reviews PROVE delivered'[v][r] <= flips[r]
    BY <1>2 DEF FlipsCounted
  <2> QED BY <1>1, <2>1 DEF FlipsCounted
<1>5. NoFlipMissed'
  <2>1. ASSUME NEW v \in Waiters, NEW r \in Reviews, turn[r] = "agent",
               turnUpdated[r] <= since'[v]
        PROVE  delivered'[v][r] = flips[r] \/ turnUpdated[r] <= seed'[v]
    BY <1>2, <2>1 DEF NoFlipMissed
  <2> QED BY <1>1, <2>1 DEF NoFlipMissed
<1>6. RowsAreNews'
  <2>1. ASSUME NEW v \in Waiters, NEW r \in Reviews, turn[r] = "agent",
               turnUpdated[r] > since'[v]
        PROVE  delivered'[v][r] < flips[r]
    <3>1. CASE v = w
      BY <1>2, <2>1, <3>1 DEF FlipsCounted
    <3>2. CASE v # w
      BY <1>2, <2>1, <3>2 DEF RowsAreNews, Rows
    <3> QED BY <3>1, <3>2
  <2> QED BY <1>1, <2>1 DEF RowsAreNews, Rows
<1> QED BY <1>3, <1>4, <1>5, <1>6

LEMMA PollInvStep ==
  ASSUME PollInv, [LongPollNext]_lvars
  PROVE  PollInv'
<1>0. PollTypeOK'
  BY PollTypeStep DEF PollInv
<1>1. SUFFICES StampsBounded' /\ FlipsCounted' /\ NoFlipMissed' /\ RowsAreNews'
  BY <1>0 DEF PollInv
<1>2. ASSUME UNCHANGED <<stamp, turn, turnUpdated, since, seed, flips, delivered>>,
             clock' >= clock, clock' \in Nat
      PROVE  StampsBounded' /\ FlipsCounted' /\ NoFlipMissed' /\ RowsAreNews'
  <2>1. stamp <= clock'
    BY <1>2 DEF PollInv, StampsBounded, PollTypeOK, HandoffTypeOK
  <2> QED BY <1>2, <2>1 DEF PollInv, StampsBounded, FlipsCounted, NoFlipMissed, RowsAreNews, Rows
<1>3. clock \in Nat
  BY DEF PollInv, PollTypeOK, HandoffTypeOK
<1>4. CASE TimePasses
  BY <1>2, <1>3, <1>4 DEF TimePasses, Tick, wvars
<1>5. ASSUME NEW r \in Reviews, NEW b \in Bodies, HandoffCall(r, b)
      PROVE  StampsBounded' /\ FlipsCounted' /\ NoFlipMissed' /\ RowsAreNews'
  BY <1>5, PollInvCall
<1>6. ASSUME NEW w \in Waiters, Scan(w)
      PROVE  StampsBounded' /\ FlipsCounted' /\ NoFlipMissed' /\ RowsAreNews'
  <2>1. CASE Reply(w, Rows(w))
    BY <1>6, <2>1, PollInvReply
  <2>2. CASE Park(w) \/ TimeoutReply(w)
    BY <1>2, <1>3, <1>6, <2>2 DEF Scan, Park, TimeoutReply, hvars
  <2> QED BY <1>6, <2>1, <2>2 DEF Scan
<1>7. ASSUME NEW w \in Waiters, Restart(w)
      PROVE  StampsBounded' /\ FlipsCounted' /\ NoFlipMissed' /\ RowsAreNews'
  BY <1>7, PollInvRestart
<1>8. ASSUME NEW w \in Waiters, Enter(w) \/ Expire(w) \/ SpuriousWake(w) \/ Abort(w)
      PROVE  StampsBounded' /\ FlipsCounted' /\ NoFlipMissed' /\ RowsAreNews'
  BY <1>2, <1>3, <1>8 DEF Enter, Expire, SpuriousWake, Abort, hvars
<1>9. CASE UNCHANGED lvars
  BY <1>2, <1>3, <1>9 DEF lvars, hvars, wvars
<1> QED BY <1>4, <1>5, <1>6, <1>7, <1>8, <1>9, LongPollSteps

THEOREM PollInvariant == LongPollSpec => []PollInv
BY PollInvInit, PollInvStep, PTL DEF LongPollSpec

(* A cursor passes a flip only after a reply carried it: with handoff      *)
(* writes strictly ordered by their stamps, no Send is ever missed.        *)
THEOREM CursorMissesNoFlip == LongPollSpec => []NoFlipMissed
<1>1. PollInv => NoFlipMissed
  BY DEF PollInv
<1> QED BY <1>1, PollInvariant, PTL

(* The poll never returns a flip it already returned: a working agent's    *)
(* pings do not make the watcher spin.                                     *)
THEOREM PollIsEdgeTriggered == LongPollSpec => []RowsAreNews
<1>1. PollInv => RowsAreNews
  BY DEF PollInv
<1> QED BY <1>1, PollInvariant, PTL

(* Waiters and clients never touch the handoff's state: every behaviour of *)
(* the long poll is one of the handoff, so that the baton is kept and the  *)
(* leases are exclusive beside it, and every holder can renew.             *)
THEOREM LongPollImplementsHandoff ==
  LongPollSpec => HandoffSpec /\ ImplementsBaton /\ [](LeaseExclusive /\ FreshHolderRenews)
<1>1. LongPollInit => HandoffInit
  BY DEF LongPollInit
<1>2. [LongPollNext]_lvars => [HandoffNext]_hvars
  BY HandoffUnderneath
<1>3. LongPollSpec => HandoffSpec
  BY <1>1, <1>2, PTL DEF LongPollSpec, HandoffSpec
<1> QED BY <1>3, HandoffImplementsBaton, LeaseIsExclusive, HolderRenews, PTL
=============================================================================
