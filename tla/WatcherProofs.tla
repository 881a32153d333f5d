--------------------------- MODULE WatcherProofs ---------------------------
(***************************************************************************)
(* For any set of reviews, sessions and caps: what the watcher keeps is    *)
(* type-correct, no Send is spent on more than one child, what it tracks   *)
(* and launches stays within its two global caps, and what it tracks and   *)
(* signals are the last children of their reviews.  And it, with the       *)
(* agents it launches, implements the handoff.                             *)
(***************************************************************************)
EXTENDS Watcher, HandoffProofs, FiniteSetTheorems

ChildRecord == [rev : Reviews, at : Nat, status : {"live", "ok", "crashed"}]
Handling == {"check", "claim", "spawn", "recheck"}

LEMMA ExitedRecord ==
  ASSUME NEW c \in ChildRecord, NEW s \in {"ok", "crashed"}
  PROVE  [c EXCEPT !.status = s] \in ChildRecord
BY DEF ChildRecord

LEMMA SameLength ==
  ASSUME NEW S, NEW s \in Seq(S), NEW k \in DOMAIN s, NEW e \in S
  PROVE  [s EXCEPT ![k] = e] \in Seq(S) /\ Len([s EXCEPT ![k] = e]) = Len(s)
OBVIOUS

(* Every step is a step of the handoff calls, or leaves them alone. *)
LEMMA WatcherHandoffStep ==
  ASSUME [WatcherNext]_tvars, at \in Reviews, signal.rev \in Reviews,
         \A k \in DOMAIN children : children[k].rev \in Reviews
  PROVE  [HandoffNext]_hvars
<1>1. /\ Body("-", "-", "working", OWNER) \in Bodies
      /\ Body("reviewer", "-", "blocked", OWNER) \in Bodies
  BY WatcherAssumption DEF Body, Bodies
<1>2. ASSUME NEW r \in Reviews, NEW o \in Owners, AgentCall(r, o) PROVE HandoffNext
  <2>1. PICK s \in {"working", "done", "blocked"} :
          Apply(r, Body(IF s = "working" THEN "-" ELSE "reviewer", "-", s, o))
    BY <1>2 DEF AgentCall
  <2>2. Body(IF s = "working" THEN "-" ELSE "reviewer", "-", s, o) \in Bodies
    BY DEF Body, Bodies
  <2> QED BY <2>1, <2>2 DEF HandoffNext
<1>3. ASSUME NEW r \in Reviews, ReviewerCall(r) PROVE HandoffNext
  <2>1. Body("agent", "-", "-", Absent) \in Bodies /\ Body("reviewer", "reviewer", "-", Absent) \in Bodies
    BY DEF Body, Bodies
  <2> QED BY <1>3, <2>1 DEF ReviewerCall, HandoffNext
<1>4. CASE WatcherStep
  <2>1. CASE Claim \/ ClaimRefused
    <3>1. Claiming => HandoffNext
      BY <1>1 DEF Claiming, HandoffNext
    <3> QED BY <2>1, <3>1 DEF Claim, ClaimRefused
  <2>2. CASE SignalPost
    BY <1>1, <2>2 DEF SignalPost, HandoffNext
  <2>3. CASE \/ Start \/ Poll \/ Timeout \/ StartDrain \/ EndDrain \/ Check \/ Recheck
             \/ Spawn \/ SignalRead \/ Die
    BY <2>3 DEF Start, Poll, Timeout, StartDrain, BeginDrain, EndDrain, Check, Recheck,
                Spawn, SignalRead, Die
  <2>4. ASSUME NEW r \in Reviews, SkipRow(r) \/ TakeRow(r) \/ TakePending(r) \/ Reap(r)
        PROVE  UNCHANGED hvars
    BY <2>4 DEF SkipRow, TakeRow, TakePending, Handle, Reap
  <2> QED BY <1>4, <2>1, <2>2, <2>3, <2>4 DEF WatcherStep
<1>5. CASE Environment
  <2>1. \A k \in Live : children[k].rev \in Reviews
    BY DEF Live
  <2>2. OWNER \in Owners
    BY WatcherAssumption
  <2> QED BY <1>2, <1>3, <1>5, <2>1, <2>2 DEF Environment, HandoffNext
<1> QED BY <1>4, <1>5 DEF WatcherNext, tvars

----------------------------------------------------------------------------
(* Moving run() on keeps the place and the sweep in their types. *)
LEMMA GotoType ==
  ASSUME NEW step \in {"off", "poll", "rows", "drain", "check", "claim", "spawn", "recheck", "dead"},
         Goto(step)
  PROVE  /\ pc' \in {"off", "poll", "rows", "drain", "check", "claim", "spawn", "recheck", "dead"}
         /\ sweep' \in SUBSET Reviews
BY DEF Goto

LEMMA WatcherTypeStep ==
  ASSUME HandoffTypeOK, WatcherTypeOK, [WatcherNext]_tvars
  PROVE  WatcherTypeOK'
<1> USE DEF WatcherTypeOK, loopvars
<1>1. CASE Start
  BY <1>1, GotoType DEF Start, HandoffTypeOK
<1>2. CASE Poll
  <2>1. cursor' \in Nat /\ queue' \subseteq Reviews
    BY <1>2 DEF Poll, NewRows, HandoffTypeOK
  <2>2. edges' \in [Reviews -> Nat]
    BY <1>2 DEF Poll
  <2> QED BY <1>2, <2>1, <2>2, GotoType DEF Poll
<1>3. CASE Timeout \/ StartDrain
  BY <1>3, GotoType DEF Timeout, StartDrain, BeginDrain, Tracked
<1>4. CASE EndDrain \/ Check \/ Recheck \/ ClaimRefused
  BY <1>4, GotoType DEF EndDrain, Check, Recheck, ClaimRefused, HandleFalse
<1>5. CASE Claim
  BY <1>5, GotoType DEF Claim
<1>6. CASE Spawn
  <2>1. /\ [rev |-> at, at |-> clock, status |-> "live"] \in ChildRecord
        /\ children' = Append(children, [rev |-> at, at |-> clock, status |-> "live"])
        /\ inflight' = [inflight EXCEPT ![at] = Len(children) + 1]
    BY <1>6 DEF Spawn, Launch, Track, HandoffTypeOK, ChildRecord
  <2>2. children' \in Seq(ChildRecord) /\ Len(children') = Len(children) + 1
        /\ Len(children) \in Nat
    BY <2>1 DEF ChildRecord
  <2>3. inflight' \in [Reviews -> 0 .. Len(children')]
    BY <2>1, <2>2
  <2>4. pending' \subseteq Reviews
    BY <1>6 DEF Spawn, Discard
  <2> QED BY <1>6, <2>2, <2>3, <2>4, GotoType DEF Spawn, ChildRecord
<1>7. CASE SignalRead \/ SignalPost
  BY <1>7 DEF SignalRead, SignalPost
<1>8. CASE Die
  BY <1>8, GotoType DEF Die
<1>9. ASSUME NEW r \in Reviews, SkipRow(r) \/ TakeRow(r) \/ TakePending(r)
      PROVE  WatcherTypeOK'
  BY <1>9, GotoType DEF SkipRow, TakeRow, TakePending, Handle
<1>10. ASSUME NEW r \in Reviews, Reap(r)
       PROVE  WatcherTypeOK'
  <2>1. inflight' \in [Reviews -> 0 .. Len(children)]
    <3>1. inflight' = inflight \/ inflight' = [inflight EXCEPT ![r] = 0]
      BY <1>10 DEF Reap
    <3>2. inflight \in [Reviews -> 0 .. Len(children)] /\ 0 \in 0 .. Len(children)
      BY DEF ChildRecord
    <3> QED BY <3>1, <3>2
  <2>2. signal' \in [rev : Reviews, stage : {"none", "read", "post"}]
    BY <1>10 DEF Reap
  <2> QED BY <1>10, <2>1, <2>2 DEF Reap
<1>11. CASE Environment
  <2>1. children' \in Seq(ChildRecord) /\ Len(children') = Len(children)
    <3>1. CASE UNCHANGED children
      BY <3>1 DEF ChildRecord
    <3>2. ASSUME NEW k \in Live, ChildExit(k)
          PROVE  children' \in Seq(ChildRecord) /\ Len(children') = Len(children)
      <4>1. PICK s \in {"ok", "crashed"} : children' = [children EXCEPT ![k].status = s]
        BY <3>2 DEF ChildExit
      <4>2. children \in Seq(ChildRecord) /\ k \in DOMAIN children
        BY DEF Live, ChildRecord
      <4> DEFINE gone == [children[k] EXCEPT !.status = s]
      <4>3. gone \in ChildRecord
        <5>1. children[k] \in ChildRecord
          BY <4>2
        <5> QED BY <5>1, ExitedRecord
      <4>4. children' = [children EXCEPT ![k] = gone]
        BY <4>1
      <4> HIDE DEF gone
      <4> QED BY <4>2, <4>3, <4>4, SameLength
    <3> QED BY <1>11, <3>1, <3>2 DEF Environment
  <2> QED BY <1>11, <2>1 DEF Environment, ChildRecord
<1>12. CASE UNCHANGED tvars
  BY <1>12 DEF tvars
<1> QED BY <1>1, <1>2, <1>3, <1>4, <1>5, <1>6, <1>7, <1>8, <1>9, <1>10, <1>11, <1>12
        DEF WatcherNext, WatcherStep

WatcherTypes == HandoffTypeOK /\ WatcherTypeOK

LEMMA WatcherUnderneath ==
  ASSUME WatcherTypes, [WatcherNext]_tvars PROVE [HandoffNext]_hvars
<1>1. /\ at \in Reviews /\ signal.rev \in Reviews
      /\ \A k \in DOMAIN children : children[k].rev \in Reviews
  <2>1. children \in Seq(ChildRecord)
    BY DEF WatcherTypes, WatcherTypeOK, ChildRecord
  <2>2. \A k \in DOMAIN children : children[k] \in ChildRecord
    BY <2>1
  <2> QED BY <2>2 DEF WatcherTypes, WatcherTypeOK, ChildRecord
<1> QED BY <1>1, WatcherHandoffStep

LEMMA WatcherTypesStep ==
  ASSUME WatcherTypes, [WatcherNext]_tvars PROVE WatcherTypes'
<1>1. [HandoffNext]_hvars
  BY WatcherUnderneath
<1>2. HandoffTypeOK'
  BY <1>1, HandoffTypeStep DEF WatcherTypes
<1>3. WatcherTypeOK'
  BY WatcherTypeStep DEF WatcherTypes
<1> QED BY <1>2, <1>3 DEF WatcherTypes

LEMMA WatcherTypesInit == ASSUME WatcherInit PROVE WatcherTypes
<1>1. HandoffTypeOK
  BY DEF WatcherInit, HandoffInit, HandoffTypeOK, AgentStatus, NoAgent
<1>2. WatcherTypeOK
  <2>1. children = <<>> /\ <<>> \in Seq(ChildRecord) /\ Len(<<>>) = 0
    BY DEF WatcherInit
  <2> QED BY <2>1 DEF WatcherInit, WatcherTypeOK, ChildRecord
<1> QED BY <1>1, <1>2 DEF WatcherTypes

(* The cursor, the sets, the tracked children and the signal of loop.py    *)
(* hold what the code can put there.                                       *)
THEOREM WatcherTypeCorrect == WatcherSpec => []WatcherTypeOK
<1>1. WatcherTypes => WatcherTypeOK
  BY DEF WatcherTypes
<1> QED BY <1>1, WatcherTypesInit, WatcherTypesStep, PTL DEF WatcherSpec

----------------------------------------------------------------------------
(* The children a Launch and an exit leave. *)
Launched(r) == {k \in DOMAIN children : children[k].rev = r}

LEMMA ChildrenType ==
  ASSUME WatcherTypeOK
  PROVE  /\ children \in Seq(ChildRecord) /\ Len(children) \in Nat
         /\ DOMAIN children = 1 .. Len(children)
         /\ \A k \in DOMAIN children : children[k] \in ChildRecord
<1>1. children \in Seq(ChildRecord)
  BY DEF WatcherTypeOK, ChildRecord
<1> QED BY <1>1

(* The children launched are finitely many, and so are those of one review. *)
LEMMA LaunchedFinite ==
  ASSUME WatcherTypeOK, NEW r
  PROVE  IsFiniteSet(DOMAIN children) /\ IsFiniteSet(Launched(r)) /\ Cardinality(Launched(r)) \in Nat
<1>1. IsFiniteSet(DOMAIN children)
  BY ChildrenType, FS_Interval
<1>2. Launched(r) \in SUBSET DOMAIN children
  BY DEF Launched
<1> QED BY <1>1, <1>2, FS_Subset, FS_CardinalityType

LEMMA LaunchCounts ==
  ASSUME WatcherTypeOK, HandoffTypeOK, Launch, NEW r
  PROVE  Cardinality(Launched(r))' = IF r = at THEN Cardinality(Launched(r)) + 1
                                             ELSE Cardinality(Launched(r))
<1> DEFINE n == Len(children) + 1
<1>1. /\ DOMAIN children' = DOMAIN children \cup {n} /\ n \notin DOMAIN children
      /\ children'[n].rev = at
      /\ \A k \in DOMAIN children : children'[k] = children[k]
  <2>1. /\ children' = Append(children, [rev |-> at, at |-> clock, status |-> "live"])
        /\ children \in Seq(ChildRecord) /\ Len(children) \in Nat
    BY ChildrenType DEF Launch
  <2>2. [rev |-> at, at |-> clock, status |-> "live"] \in ChildRecord
    BY DEF ChildRecord, WatcherTypeOK, HandoffTypeOK
  <2> QED BY <2>1, <2>2
<1>2. Launched(r)' = IF r = at THEN Launched(r) \cup {n} ELSE Launched(r)
  BY <1>1 DEF Launched
<1>3. n \notin Launched(r)
  BY <1>1 DEF Launched
<1> HIDE DEF n
<1> QED BY <1>2, <1>3, LaunchedFinite, FS_AddElement

LEMMA ExitCounts ==
  ASSUME WatcherTypeOK, NEW k \in Live, ChildExit(k)
  PROVE  /\ \A r : Launched(r)' = Launched(r)
         /\ Recent' = {j \in DOMAIN children : children[j].at >= clock' - Window}
<1>1. PICK s \in {"ok", "crashed"} : children' = [children EXCEPT ![k].status = s]
  BY DEF ChildExit
<1>2. DOMAIN children' = DOMAIN children
  BY <1>1
<1>3. \A j \in DOMAIN children : children'[j].rev = children[j].rev /\ children'[j].at = children[j].at
  <2>1. \A j \in DOMAIN children : children[j] \in ChildRecord
    BY ChildrenType
  <2>2. [children[k] EXCEPT !.status = s].rev = children[k].rev
        /\ [children[k] EXCEPT !.status = s].at = children[k].at
    BY <2>1 DEF Live, ChildRecord
  <2> QED BY <1>1, <2>2
<1>4. \A r : Launched(r)' = Launched(r)
  BY <1>2, <1>3 DEF Launched
<1> QED BY <1>2, <1>3, <1>4 DEF Recent

----------------------------------------------------------------------------
(* What each Send has become: a child, an entry of the pending set, a row  *)
(* of the reply not yet looked at, or the row handle() is at.  A drain     *)
(* works on a copy of the pending set, so that it owes nothing of its own. *)
Owed(r) ==
  Cardinality(Launched(r)) + (IF r \in pending THEN 1 ELSE 0)
  + (IF loop = "rows" /\ r \in queue THEN 1 ELSE 0)
  + (IF loop = "rows" /\ pc \in Handling /\ at = r THEN 1 ELSE 0)

PlaceInv ==
  /\ pc \in {"rows", "recheck"} => loop = "rows"
  /\ pc = "drain" => loop = "drain"
  /\ pc \in {"off", "poll"} => queue = {}
  /\ loop = "drain" => /\ queue \subseteq pending
                       /\ pc \in {"check", "claim", "spawn"} => at \in pending /\ at \notin queue

SpendInv == PlaceInv /\ \A r \in Reviews : Owed(r) <= edges[r]

(* Steps that launch nothing and answer no poll. *)
LEMMA SpendKept ==
  ASSUME WatcherTypes, SpendInv, UNCHANGED <<children, edges>>, NEW r \in Reviews,
         (IF r \in pending' THEN 1 ELSE 0)
         + (IF loop' = "rows" /\ r \in queue' THEN 1 ELSE 0)
         + (IF loop' = "rows" /\ pc' \in Handling /\ at' = r THEN 1 ELSE 0)
         <= (IF r \in pending THEN 1 ELSE 0)
            + (IF loop = "rows" /\ r \in queue THEN 1 ELSE 0)
            + (IF loop = "rows" /\ pc \in Handling /\ at = r THEN 1 ELSE 0)
  PROVE  Owed(r)' <= edges'[r]
<1>1. Launched(r)' = Launched(r) /\ edges'[r] = edges[r]
  BY DEF Launched
<1>2. Cardinality(Launched(r)) \in Nat /\ edges[r] \in Nat
  BY LaunchedFinite DEF WatcherTypes, WatcherTypeOK
<1>3. Owed(r) <= edges[r]
  BY DEF SpendInv
<1> DEFINE c == Cardinality(Launched(r))
<1>4. c' = c
  BY <1>1
<1> HIDE DEF c
<1> QED BY <1>1, <1>2, <1>3, <1>4 DEF Owed, c

LEMMA SpendStep ==
  ASSUME WatcherTypes, SpendInv, [WatcherNext]_tvars PROVE SpendInv'
<1> USE DEF SpendInv, loopvars
<1>1. CASE Start
  <2>1. PlaceInv'
    BY <1>1 DEF Start, Goto, PlaceInv
  <2> QED BY <1>1, <2>1, SpendKept DEF Start, Goto, Handling
<1>2. CASE Poll
  <2>1. PlaceInv'
    BY <1>2 DEF Poll, Ready, Goto, PlaceInv
  <2>2. ASSUME NEW r \in Reviews PROVE Owed(r)' <= edges'[r]
    <3> DEFINE c == Cardinality(Launched(r))
    <3>1. c' = c /\ c \in Nat /\ edges[r] \in Nat
      BY <1>2, LaunchedFinite DEF Poll, Launched, WatcherTypes, WatcherTypeOK
    <3>2. edges'[r] = IF r \in NewRows THEN edges[r] + 1 ELSE edges[r]
      BY <1>2 DEF Poll
    <3>3. queue = {} /\ pc = "poll" /\ queue' = NewRows /\ pending' = pending /\ pc' = "rows"
      BY <1>2 DEF Poll, Ready, Goto, PlaceInv
    <3>4. Owed(r) = c + (IF r \in pending THEN 1 ELSE 0)
      BY <3>1, <3>3 DEF Owed, Handling
    <3>5. Owed(r)' = c' + (IF r \in pending THEN 1 ELSE 0) + (IF r \in NewRows THEN 1 ELSE 0)
      BY <1>2, <3>1, <3>3 DEF Owed, Handling, Poll
    <3>6. Owed(r) <= edges[r]
      OBVIOUS
    <3> HIDE DEF c
    <3> QED BY <3>1, <3>2, <3>4, <3>5, <3>6
  <2> QED BY <2>1, <2>2
<1>3. CASE Timeout \/ StartDrain
  <2>1. PlaceInv'
    BY <1>3 DEF Timeout, StartDrain, BeginDrain, Ready, Goto, PlaceInv
  <2>2. UNCHANGED <<children, edges, pending>> /\ loop' = "drain"
    BY <1>3 DEF Timeout, StartDrain, BeginDrain
  <2> QED BY <2>1, <2>2, SpendKept
<1>4. CASE EndDrain
  <2>1. PlaceInv'
    BY <1>4 DEF EndDrain, Ready, Goto, PlaceInv
  <2> QED BY <1>4, <2>1, SpendKept DEF EndDrain, Ready, Goto, Handling
<1>5. CASE Check \/ ClaimRefused
  <2>1. PlaceInv'
    BY <1>5 DEF Check, ClaimRefused, HandleFalse, Ready, Goto, PlaceInv, WatcherTypes, WatcherTypeOK
  <2> QED BY <1>5, <2>1, SpendKept
          DEF Check, ClaimRefused, HandleFalse, Ready, Goto, Handling
<1>6. CASE Recheck
  <2>1. PlaceInv'
    BY <1>6 DEF Recheck, Ready, Goto, PlaceInv
  <2> QED BY <1>6, <2>1, SpendKept DEF Recheck, Ready, Goto, Handling, PlaceInv
<1>7. CASE Claim
  <2>1. PlaceInv'
    BY <1>7 DEF Claim, Goto, PlaceInv
  <2> QED BY <1>7, <2>1, SpendKept DEF Claim, Goto, Handling
<1>8. CASE Spawn
  <2>1. PlaceInv'
    BY <1>8 DEF Spawn, Goto, Discard, PlaceInv, WatcherTypes, WatcherTypeOK
  <2>2. ASSUME NEW r \in Reviews PROVE Owed(r)' <= edges'[r]
    <3> DEFINE c == Cardinality(Launched(r))
    <3>1. c \in Nat /\ edges[r] \in Nat
      BY LaunchedFinite DEF WatcherTypes, WatcherTypeOK
    <3>2. c' = IF r = at THEN c + 1 ELSE c
      BY <1>8, LaunchCounts DEF Spawn, WatcherTypes
    <3>3. /\ pc = "spawn" /\ pc' = loop /\ UNCHANGED <<loopvars, edges>>
          /\ pending' = IF loop = "drain" THEN pending \ {at} ELSE pending
          /\ loop \in {"rows", "drain"}
          /\ loop = "drain" => at \in pending
      BY <1>8 DEF Spawn, Discard, Goto, PlaceInv, WatcherTypes, WatcherTypeOK
    <3>4. Owed(r) <= edges[r]
      OBVIOUS
    <3> HIDE DEF c
    <3>5. Owed(r) = c + (IF r \in pending THEN 1 ELSE 0)
                    + (IF loop = "rows" /\ r \in queue THEN 1 ELSE 0)
                    + (IF loop = "rows" /\ at = r THEN 1 ELSE 0)
      BY <3>3 DEF Owed, Handling, c
    <3>6. Owed(r)' = c' + (IF r \in pending' THEN 1 ELSE 0)
                     + (IF loop = "rows" /\ r \in queue THEN 1 ELSE 0)
      BY <3>1, <3>2, <3>3 DEF Owed, Handling, c
    <3> QED BY <3>1, <3>2, <3>3, <3>4, <3>5, <3>6
  <2> QED BY <2>1, <2>2
<1>9. CASE SignalRead \/ SignalPost
  <2>1. UNCHANGED <<pc, loopvars, pending, children, edges>>
    BY <1>9 DEF SignalRead, SignalPost
  <2> QED BY <2>1, SpendKept DEF PlaceInv
<1>10. CASE Die
  <2>1. UNCHANGED <<loopvars, pending, children, edges>> /\ pc' = "dead"
    BY <1>10 DEF Die, Goto
  <2>2. PlaceInv'
    BY <2>1 DEF PlaceInv
  <2> QED BY <2>1, <2>2, SpendKept DEF Handling
<1>11. ASSUME NEW r \in Reviews, SkipRow(r) PROVE SpendInv'
  <2>1. PlaceInv'
    BY <1>11 DEF SkipRow, Ready, Goto, PlaceInv
  <2> QED BY <1>11, <2>1, SpendKept DEF SkipRow, Ready, Goto, Handling
<1>12. ASSUME NEW r \in Reviews, TakeRow(r) \/ TakePending(r) PROVE SpendInv'
  <2>1. PlaceInv'
    BY <1>12 DEF TakeRow, TakePending, Handle, Ready, Goto, PlaceInv
  <2> QED BY <1>12, <2>1, SpendKept
          DEF TakeRow, TakePending, Handle, Ready, Goto, Handling, PlaceInv
<1>13. ASSUME NEW r \in Reviews, Reap(r) PROVE SpendInv'
  <2>1. UNCHANGED <<pc, loopvars, pending, children, edges>>
    BY <1>13 DEF Reap
  <2> QED BY <2>1, SpendKept DEF PlaceInv
<1>14. CASE Environment
  <2>1. UNCHANGED <<pc, loopvars, pending, edges>>
    BY <1>14 DEF Environment
  <2>2. \A r \in Reviews : Launched(r)' = Launched(r)
    BY <1>14, ExitCounts DEF Environment, Launched, WatcherTypes
  <2>3. \A r \in Reviews : Owed(r)' = Owed(r)
    BY <2>1, <2>2 DEF Owed
  <2> QED BY <2>1, <2>3 DEF PlaceInv
<1>15. CASE UNCHANGED tvars
  <2>1. UNCHANGED <<pc, loopvars, pending, children, edges>>
    BY <1>15 DEF tvars
  <2> QED BY <2>1, SpendKept DEF PlaceInv
<1> QED BY <1>1, <1>2, <1>3, <1>4, <1>5, <1>6, <1>7, <1>8, <1>9, <1>10, <1>11, <1>12,
           <1>13, <1>14, <1>15 DEF WatcherNext, WatcherStep

(* The watcher never relaunches by itself (loop.py): each Send that a      *)
(* reply carried is spent on one child at most, for any number of reviews, *)
(* caps, crashed children and deferred rows.                               *)
THEOREM WatcherSpendsEdgesOnce == WatcherSpec => []EdgesSpentOnce
<1>1. WatcherInit => SpendInv
  <2>1. ASSUME WatcherInit, NEW r \in Reviews PROVE Owed(r) <= edges[r]
    <3>1. Launched(r) = {}
      BY <2>1 DEF WatcherInit, Launched
    <3> QED BY <2>1, <3>1, FS_EmptySet DEF WatcherInit, Owed, Handling
  <2> QED BY <2>1 DEF WatcherInit, SpendInv, PlaceInv
<1>2. WatcherTypes /\ SpendInv => EdgesSpentOnce
  <2> SUFFICES ASSUME WatcherTypes, SpendInv, NEW r \in Reviews, pc = "poll"
               PROVE  Cardinality(Launched(r)) + Cardinality(pending \cap {r}) <= edges[r]
    BY DEF EdgesSpentOnce, Launched
  <2>1. Cardinality(Launched(r)) \in Nat /\ edges[r] \in Nat
    BY LaunchedFinite DEF WatcherTypes, WatcherTypeOK
  <2>2. Cardinality(pending \cap {r}) = IF r \in pending THEN 1 ELSE 0
    <3>1. CASE r \in pending
      <4>1. pending \cap {r} = {r}
        BY <3>1
      <4> QED BY <3>1, <4>1, FS_Singleton
    <3>2. CASE r \notin pending
      <4>1. pending \cap {r} = {}
        BY <3>2
      <4> QED BY <3>2, <4>1, FS_EmptySet
    <3> QED BY <3>1, <3>2
  <2>3. Owed(r) = Cardinality(Launched(r)) + (IF r \in pending THEN 1 ELSE 0)
    BY <2>1 DEF Owed, SpendInv, PlaceInv, Handling
  <2> QED BY <2>1, <2>2, <2>3 DEF SpendInv
<1> QED BY <1>1, <1>2, WatcherTypesInit, WatcherTypesStep, SpendStep, PTL DEF WatcherSpec

----------------------------------------------------------------------------
(* While handle() claims and spawns, nothing else is tracked or launched:  *)
(* the room that was there at its capacity check is still there.           *)
Room == Cardinality(Tracked) < MaxConcurrent /\ Cardinality(Recent) < MaxLaunches
CapsInv ==
  /\ IsFiniteSet(Tracked)
  /\ TrackedWithinCaps
  /\ pc \in {"claim", "spawn"} => Room

LEMMA RecentFinite ==
  ASSUME WatcherTypeOK PROVE IsFiniteSet(Recent)
<1>1. IsFiniteSet(DOMAIN children)
  BY LaunchedFinite
<1>2. Recent \in SUBSET DOMAIN children
  BY DEF Recent
<1> QED BY <1>1, <1>2, FS_Subset

(* Nothing is added to what is tracked, or to what is in the window. *)
LEMMA CapsKept ==
  ASSUME WatcherTypeOK, CapsInv, Tracked' \subseteq Tracked, Recent' \subseteq Recent
  PROVE  /\ IsFiniteSet(Tracked)' /\ TrackedWithinCaps' /\ (Room => Room')
<1> DEFINE t == Tracked
           n == Recent
<1>1. IsFiniteSet(t) /\ IsFiniteSet(n) /\ t' \in SUBSET t /\ n' \in SUBSET n
  BY RecentFinite DEF CapsInv
<1>2. Cardinality(t) <= MaxConcurrent /\ Cardinality(n) <= MaxLaunches
  BY DEF CapsInv, TrackedWithinCaps
<1> HIDE DEF t, n
<1>3. /\ IsFiniteSet(t') /\ Cardinality(t') <= Cardinality(t)
      /\ Cardinality(t) \in Nat /\ Cardinality(t') \in Nat
  BY <1>1, FS_Subset, FS_CardinalityType
<1>4. /\ IsFiniteSet(n') /\ Cardinality(n') <= Cardinality(n)
      /\ Cardinality(n) \in Nat /\ Cardinality(n') \in Nat
  BY <1>1, FS_Subset, FS_CardinalityType
<1> QED BY <1>2, <1>3, <1>4, WatcherAssumption DEF TrackedWithinCaps, Room, t, n

(* The window slides with the clock and loses launches, never gains one. *)
LEMMA WindowSlides ==
  ASSUME WatcherTypes, [HandoffNext]_hvars,
         Recent' = {j \in DOMAIN children : children[j].at >= clock' - Window}
  PROVE  Recent' \subseteq Recent
<1>1. clock \in Nat /\ clock' \in Nat /\ clock <= clock'
  BY DEF HandoffNext, hvars, Tick, Apply, ReadsClock, WatcherTypes, HandoffTypeOK
<1>2. \A j \in DOMAIN children : children[j].at \in Nat
  BY ChildrenType DEF WatcherTypes, ChildRecord
<1>3. Window \in Nat
  BY WatcherAssumption
<1> QED BY <1>1, <1>2, <1>3 DEF Recent

LEMMA CapsStep ==
  ASSUME WatcherTypes, CapsInv, [WatcherNext]_tvars PROVE CapsInv'
<1> USE DEF WatcherTypes
<1>0. [HandoffNext]_hvars
  <2>1. \A k \in DOMAIN children : children[k].rev \in Reviews
    BY ChildrenType DEF ChildRecord
  <2>2. at \in Reviews /\ signal.rev \in Reviews
    BY DEF WatcherTypeOK
  <2> QED BY <2>1, <2>2, WatcherHandoffStep
<1>1. ASSUME UNCHANGED children, inflight' = inflight, pc' \notin {"claim", "spawn"} \/ Room
      PROVE  CapsInv'
  <2>1. Recent' \subseteq Recent
    BY <1>0, <1>1, WindowSlides DEF Recent
  <2>2. Tracked' \subseteq Tracked
    BY <1>1 DEF Tracked
  <2> QED BY <1>1, <2>1, <2>2, CapsKept DEF CapsInv
<1>2. CASE \/ Start \/ Poll \/ Timeout \/ StartDrain \/ EndDrain \/ Recheck
           \/ ClaimRefused \/ Die
  <2>1. UNCHANGED children /\ inflight' = inflight
    BY <1>2 DEF Start, Poll, Timeout, StartDrain, BeginDrain, EndDrain, Recheck, ClaimRefused, Die
  <2>2. pc' \notin {"claim", "spawn"}
    BY <1>2 DEF Start, Poll, Timeout, StartDrain, EndDrain, Recheck, ClaimRefused, HandleFalse,
                Die, Goto
  <2> QED BY <1>1, <2>1, <2>2
<1>3. CASE Check
  <2>1. UNCHANGED children /\ inflight' = inflight
    BY <1>3 DEF Check
  <2>2. CASE AtCapacity
    BY <1>1, <1>3, <2>1, <2>2 DEF Check, HandleFalse, Goto
  <2>3. CASE ~AtCapacity
    <3>1. Cardinality(Tracked) \in Nat /\ Cardinality(Recent) \in Nat
      BY RecentFinite, FS_CardinalityType DEF CapsInv
    <3>2. Room
      BY <2>3, <3>1, WatcherAssumption DEF AtCapacity, Room
    <3> QED BY <1>1, <2>1, <3>2
  <2> QED BY <2>2, <2>3
<1>4. CASE Claim
  <2>1. UNCHANGED children /\ inflight' = inflight /\ Room
    BY <1>4 DEF Claim, CapsInv
  <2> QED BY <1>1, <2>1
<1>5. CASE Spawn
  <2> DEFINE n == Len(children) + 1
             t == Tracked
             w == Recent
  <2>1. /\ DOMAIN children' = DOMAIN children \cup {n} /\ n \notin DOMAIN children
        /\ \A k \in DOMAIN children : children'[k] = children[k]
    <3>1. /\ children' = Append(children, [rev |-> at, at |-> clock, status |-> "live"])
          /\ children \in Seq(ChildRecord) /\ Len(children) \in Nat
      BY <1>5, ChildrenType DEF Spawn, Launch
    <3> QED BY <3>1
  <2>2. w' \subseteq w \cup {n}
    <3>1. clock' = clock
      BY <1>5 DEF Spawn, hvars
    <3> QED BY <2>1, <3>1 DEF Recent
  <2>3. t' \subseteq t \cup {at}
    BY <1>5 DEF Spawn, Track, Tracked, WatcherTypeOK
  <2>4. /\ IsFiniteSet(t) /\ IsFiniteSet(w)
        /\ Cardinality(t) < MaxConcurrent /\ Cardinality(w) < MaxLaunches
    BY <1>5, RecentFinite DEF CapsInv, Spawn, Room
  <2> HIDE DEF n, t, w
  <2>5. /\ IsFiniteSet(t \cup {at}) /\ IsFiniteSet(w \cup {n})
        /\ Cardinality(t \cup {at}) <= MaxConcurrent /\ Cardinality(w \cup {n}) <= MaxLaunches
    <3>1. Cardinality(t) \in Nat /\ Cardinality(w) \in Nat
      BY <2>4, FS_CardinalityType
    <3>2. MaxConcurrent \in Nat /\ MaxLaunches \in Nat
      BY WatcherAssumption
    <3>3. IsFiniteSet(t \cup {at}) /\ Cardinality(t \cup {at}) \in {Cardinality(t), Cardinality(t) + 1}
      BY <2>4, FS_AddElement
    <3>4. IsFiniteSet(w \cup {n}) /\ Cardinality(w \cup {n}) \in {Cardinality(w), Cardinality(w) + 1}
      BY <2>4, FS_AddElement
    <3> QED BY <2>4, <3>1, <3>2, <3>3, <3>4
  <2>6. IsFiniteSet(t') /\ Cardinality(t') <= Cardinality(t \cup {at}) /\ Cardinality(t') \in Nat
    BY <2>3, <2>5, FS_Subset, FS_CardinalityType
  <2>7. IsFiniteSet(w') /\ Cardinality(w') <= Cardinality(w \cup {n}) /\ Cardinality(w') \in Nat
    BY <2>2, <2>5, FS_Subset, FS_CardinalityType
  <2>8. Cardinality(t \cup {at}) \in Nat /\ Cardinality(w \cup {n}) \in Nat
    BY <2>5, FS_CardinalityType
  <2>9. Cardinality(t') <= MaxConcurrent /\ Cardinality(w') <= MaxLaunches
    BY <2>5, <2>6, <2>7, <2>8, WatcherAssumption
  <2>10. pc' \notin {"claim", "spawn"}
    BY <1>5 DEF Spawn, Goto, WatcherTypeOK
  <2> QED BY <2>6, <2>9, <2>10 DEF CapsInv, TrackedWithinCaps, t, w
<1>6. CASE SignalRead \/ SignalPost
  <2>1. UNCHANGED children /\ inflight' = inflight /\ pc' = pc
    BY <1>6 DEF SignalRead, SignalPost
  <2> QED BY <1>1, <2>1 DEF CapsInv
<1>7. ASSUME NEW r \in Reviews, SkipRow(r) \/ TakeRow(r) \/ TakePending(r) PROVE CapsInv'
  <2>1. UNCHANGED children /\ inflight' = inflight /\ pc' \notin {"claim", "spawn"}
    BY <1>7 DEF SkipRow, TakeRow, TakePending, Handle, Goto
  <2> QED BY <1>1, <2>1
<1>8. ASSUME NEW r \in Reviews, Reap(r) PROVE CapsInv'
  <2>1. Tracked' \subseteq Tracked /\ pc' = pc
    BY <1>8 DEF Reap, Tracked, WatcherTypeOK
  <2>2. Recent' \subseteq Recent
    BY <1>8 DEF Reap, Recent, hvars
  <2> QED BY <2>1, <2>2, CapsKept DEF CapsInv
<1>9. CASE Environment
  <2>1. inflight' = inflight /\ pc' = pc
    BY <1>9 DEF Environment
  <2>2. Recent' \subseteq Recent
    <3>1. CASE UNCHANGED children
      BY <1>0, <3>1, WindowSlides DEF Recent
    <3>2. CASE \E k \in Live : ChildExit(k)
      BY <1>0, <3>2, WindowSlides, ExitCounts
    <3> QED BY <1>9, <3>1, <3>2 DEF Environment
  <2>3. Tracked' \subseteq Tracked
    BY <2>1 DEF Tracked
  <2> QED BY <2>1, <2>2, <2>3, CapsKept DEF CapsInv
<1>10. CASE UNCHANGED tvars
  <2>1. UNCHANGED children /\ inflight' = inflight /\ pc' = pc
    BY <1>10 DEF tvars
  <2> QED BY <1>1, <2>1 DEF CapsInv
<1> QED BY <1>2, <1>3, <1>4, <1>5, <1>6, <1>7, <1>8, <1>9, <1>10 DEF WatcherNext, WatcherStep

LEMMA CapsInit == ASSUME WatcherInit PROVE CapsInv
<1>1. Tracked = {} /\ Recent = {} /\ pc = "off"
  BY DEF WatcherInit, Tracked, Recent
<1> QED BY <1>1, FS_EmptySet, WatcherAssumption DEF CapsInv, TrackedWithinCaps

(* Tracked children and launches in the window stay within the two global  *)
(* caps (loop.py _at_capacity), for any caps, window and set of reviews.   *)
THEOREM WatcherStaysWithinCaps == WatcherSpec => []TrackedWithinCaps
<1>1. CapsInv => TrackedWithinCaps
  BY DEF CapsInv
<1> QED BY <1>1, CapsInit, WatcherTypesInit, WatcherTypesStep, CapsStep, PTL DEF WatcherSpec

----------------------------------------------------------------------------
(* The handle tracked for a review is that of its last child, until a reap *)
(* finds it finished: a live child that is the last one of its review is   *)
(* tracked.  A child is launched only with no sweep and no signal under    *)
(* way, so that neither is ever about a child that has been replaced.      *)
TracksLatest ==
  /\ \A k \in Live : Latest(k) => inflight[children[k].rev] = k
  /\ \A r \in Tracked : children[inflight[r]].rev = r /\ Latest(inflight[r])

LatestInv ==
  /\ TracksLatest
  /\ sweep \subseteq Tracked
  /\ pc \in {"claim", "spawn"} => sweep = {} /\ signal.stage = "none"
  /\ SignalSparesNewChild

LEMMA LaunchAppends ==
  ASSUME WatcherTypes, Launch
  PROVE  LET n == Len(children) + 1 IN
         /\ DOMAIN children' = DOMAIN children \cup {n} /\ n \notin DOMAIN children
         /\ \A k \in DOMAIN children : k \in Nat /\ k < n /\ children'[k] = children[k]
         /\ n \in Nat /\ children'[n] = [rev |-> at, at |-> clock, status |-> "live"]
<1>1. /\ children' = Append(children, [rev |-> at, at |-> clock, status |-> "live"])
      /\ children \in Seq(ChildRecord) /\ Len(children) \in Nat
  BY ChildrenType DEF Launch, WatcherTypes
<1>2. [rev |-> at, at |-> clock, status |-> "live"] \in ChildRecord
  BY DEF ChildRecord, WatcherTypes, WatcherTypeOK, HandoffTypeOK
<1> QED BY <1>1, <1>2

LEMMA ExitRevises ==
  ASSUME WatcherTypes, NEW k \in Live, ChildExit(k)
  PROVE  /\ DOMAIN children' = DOMAIN children
         /\ \A j \in DOMAIN children : children'[j].rev = children[j].rev
         /\ \A j \in DOMAIN children \ {k} : children'[j] = children[j]
         /\ children'[k].status # "live"
<1>1. PICK s \in {"ok", "crashed"} : children' = [children EXCEPT ![k].status = s]
  BY DEF ChildExit
<1>2. k \in DOMAIN children /\ children[k] \in ChildRecord
  BY ChildrenType DEF Live, WatcherTypes
<1>3. [children[k] EXCEPT !.status = s].rev = children[k].rev
      /\ [children[k] EXCEPT !.status = s].status = s
  BY <1>2 DEF ChildRecord
<1> QED BY <1>1, <1>2, <1>3

(* Steps that launch no child, see none exit and drop no handle. *)
LEMMA LatestKept ==
  ASSUME LatestInv, UNCHANGED <<children, inflight>>, sweep' \subseteq Tracked',
         pc' \in {"claim", "spawn"} => sweep' = {} /\ signal'.stage = "none",
         signal'.stage # "none" => signal.stage # "none" /\ signal'.rev = signal.rev
  PROVE  LatestInv'
<1>1. Live' = Live /\ Tracked' = Tracked /\ \A k : Latest(k)' = Latest(k)
  BY DEF Live, Tracked, Latest
<1>2. TracksLatest'
  BY <1>1 DEF LatestInv, TracksLatest
<1>3. SignalSparesNewChild'
  BY <1>1 DEF LatestInv, SignalSparesNewChild
<1> QED BY <1>2, <1>3 DEF LatestInv

LEMMA GotoSweeps ==
  ASSUME NEW step, Goto(step)
  PROVE  pc' = step /\ sweep' \subseteq Tracked' /\ (step \in {"claim", "spawn", "dead"} => sweep' = {})
BY DEF Goto, Tracked

LEMMA SpawnTracksLatest ==
  ASSUME WatcherTypes, TracksLatest, Launch, Track PROVE TracksLatest'
<1>0. PICK n \in Nat : n = Len(children) + 1
  BY ChildrenType DEF WatcherTypes
<1>1. /\ DOMAIN children' = DOMAIN children \cup {n} /\ n \notin DOMAIN children
      /\ \A k \in DOMAIN children : k \in Nat /\ k < n /\ children'[k] = children[k]
      /\ children'[n].rev = at
  BY <1>0, LaunchAppends
<1>2. inflight' = [inflight EXCEPT ![at] = n] /\ inflight \in [Reviews -> 0 .. Len(children)]
  BY <1>0 DEF Track, WatcherTypes, WatcherTypeOK
<1>3. \A k \in DOMAIN children : children[k].rev \in Reviews
  BY ChildrenType DEF WatcherTypes, ChildRecord
<1>4. at \in Reviews /\ DOMAIN children = 1 .. Len(children) /\ Len(children) \in Nat
  BY ChildrenType DEF WatcherTypes, WatcherTypeOK
<1>5. Latest(n)'
  BY <1>1 DEF Latest
<1>6. ASSUME NEW k \in DOMAIN children, children[k].rev # at PROVE Latest(k)' <=> Latest(k)
  BY <1>1, <1>6 DEF Latest
<1>7. ASSUME NEW k \in DOMAIN children, children[k].rev = at PROVE ~Latest(k)'
  BY <1>1, <1>7 DEF Latest
<1>8. ASSUME NEW k \in Live', Latest(k)' PROVE inflight'[children'[k].rev] = k
  <2>1. CASE k = n
    BY <1>1, <1>2, <1>4, <2>1
  <2>2. CASE k # n
    <3>1. k \in DOMAIN children /\ k \in Live /\ children'[k] = children[k]
      BY <1>1, <1>8, <2>2 DEF Live
    <3>2. children[k].rev # at /\ Latest(k)
      BY <1>6, <1>7, <1>8, <3>1
    <3> QED BY <1>2, <1>3, <3>1, <3>2 DEF TracksLatest
  <2> QED BY <2>1, <2>2
<1>9. ASSUME NEW r \in Tracked', NEW k, k = inflight'[r] PROVE children'[k].rev = r /\ Latest(k)'
  <2>1. CASE r = at
    BY <1>1, <1>2, <1>4, <1>5, <1>9, <2>1
  <2>2. CASE r # at
    <3>1. r \in Tracked /\ inflight'[r] = inflight[r]
      BY <1>2, <1>9, <2>2 DEF Tracked
    <3>2. inflight[r] \in DOMAIN children /\ children[inflight[r]].rev = r /\ Latest(inflight[r])
      BY <1>2, <1>4, <3>1 DEF Tracked, TracksLatest
    <3> QED BY <1>1, <1>6, <1>9, <2>2, <3>1, <3>2
  <2> QED BY <2>1, <2>2
<1> QED BY <1>8, <1>9 DEF TracksLatest

LEMMA ReapKeepsLatest ==
  ASSUME WatcherTypes, LatestInv, NEW r \in Reviews, Reap(r) PROVE LatestInv'
<1>1. r \in Tracked /\ r \in sweep
  BY DEF Reap, LatestInv
<1>2. children[inflight[r]].rev = r /\ Latest(inflight[r]) /\ inflight[r] \in DOMAIN children
  <2>1. children[inflight[r]].rev = r /\ Latest(inflight[r])
    BY <1>1 DEF LatestInv, TracksLatest
  <2>2. inflight[r] # 0 /\ inflight[r] \in 0 .. Len(children)
    BY <1>1 DEF Tracked, WatcherTypes, WatcherTypeOK
  <2> QED BY <2>1, <2>2, ChildrenType
<1>3. /\ UNCHANGED <<children, pc>> /\ sweep' = sweep \ {r}
      /\ inflight' = IF children[inflight[r]].status = "live"
                     THEN inflight ELSE [inflight EXCEPT ![r] = 0]
      /\ signal.stage = "none"
      /\ signal' = IF children[inflight[r]].status = "crashed"
                   THEN [rev |-> r, stage |-> "read"] ELSE signal
  BY DEF Reap
<1>4. Live' = Live /\ \A k : Latest(k)' = Latest(k)
  BY <1>3 DEF Live, Latest
<1>5. ASSUME NEW k \in Live, Latest(k) PROVE inflight'[children[k].rev] = k
  <2>1. inflight[children[k].rev] = k /\ k \in DOMAIN children /\ children[k].status = "live"
    BY <1>5 DEF LatestInv, TracksLatest, Live
  <2>2. inflight \in [Reviews -> 0 .. Len(children)]
    BY DEF WatcherTypes, WatcherTypeOK
  <2> QED BY <1>3, <2>1, <2>2
<1>6. \A q \in Reviews : inflight'[q] # 0 => inflight'[q] = inflight[q] /\ q \in Tracked
  BY <1>3 DEF Tracked, WatcherTypes, WatcherTypeOK
<1>7. TracksLatest'
  BY <1>3, <1>4, <1>5, <1>6 DEF LatestInv, TracksLatest, Tracked
<1>8. sweep' \subseteq Tracked'
  BY <1>3 DEF LatestInv, Tracked, WatcherTypes, WatcherTypeOK
<1>9. pc' \notin {"claim", "spawn"}
  BY <1>1, <1>3 DEF LatestInv
<1>10. SignalSparesNewChild'
  BY <1>2, <1>3, <1>4 DEF SignalSparesNewChild
<1> QED BY <1>7, <1>8, <1>9, <1>10 DEF LatestInv

LEMMA ExitKeepsLatest ==
  ASSUME WatcherTypes, LatestInv, NEW x \in Live, ChildExit(x),
         UNCHANGED <<pc, inflight, sweep, signal>>
  PROVE  LatestInv'
<1>1. /\ DOMAIN children' = DOMAIN children
      /\ \A j \in DOMAIN children : children'[j].rev = children[j].rev
      /\ \A j \in DOMAIN children \ {x} : children'[j] = children[j]
      /\ children'[x].status # "live"
  BY ExitRevises
<1>2. Live' \subseteq Live /\ \A k \in DOMAIN children : Latest(k)' = Latest(k)
  BY <1>1 DEF Live, Latest
<1>3. Tracked' = Tracked /\ \A r \in Tracked : inflight[r] \in DOMAIN children
  BY ChildrenType DEF Tracked, WatcherTypes, WatcherTypeOK
<1>4. TracksLatest'
  BY <1>1, <1>2, <1>3 DEF LatestInv, TracksLatest, Live
<1>5. SignalSparesNewChild'
  BY <1>1, <1>2 DEF LatestInv, SignalSparesNewChild, Live
<1> QED BY <1>3, <1>4, <1>5 DEF LatestInv

LEMMA LatestStep ==
  ASSUME WatcherTypes, LatestInv, [WatcherNext]_tvars PROVE LatestInv'
<1>1. CASE Start \/ Poll \/ StartDrain \/ EndDrain \/ Recheck \/ Check \/ Die
  <2>1. UNCHANGED <<children, inflight>>
    BY <1>1 DEF Start, Poll, StartDrain, BeginDrain, EndDrain, Recheck, Check, Die
  <2>2. PICK step : Goto(step) /\ (step # "claim" => step \notin {"claim", "spawn"})
    BY <1>1 DEF Start, Poll, StartDrain, EndDrain, Recheck, Check, HandleFalse, Die
  <2>3. signal'.stage # "none" => signal' = signal
    BY <1>1 DEF Start, Poll, StartDrain, BeginDrain, EndDrain, Recheck, Check, Die,
                WatcherTypes, WatcherTypeOK
  <2>4. pc' = "claim" => signal'.stage = "none"
    BY <1>1 DEF Start, Poll, StartDrain, EndDrain, Recheck, Check, Die, HandleFalse, Goto, Ready
  <2> QED BY <2>1, <2>2, <2>3, <2>4, GotoSweeps, LatestKept
<1>2. CASE Timeout
  <2>1. UNCHANGED <<children, inflight, signal>> /\ sweep' = Tracked /\ pc' = "drain"
    BY <1>2 DEF Timeout, BeginDrain
  <2> QED BY <2>1, LatestKept DEF Tracked
<1>3. CASE Claim
  <2>1. UNCHANGED <<children, inflight, signal>> /\ Goto("spawn") /\ signal.stage = "none"
    BY <1>3 DEF Claim, LatestInv
  <2> QED BY <2>1, GotoSweeps, LatestKept
<1>4. CASE ClaimRefused
  <2>1. UNCHANGED <<children, inflight, signal>> /\ (Goto("recheck") \/ Goto("drain"))
    BY <1>4 DEF ClaimRefused, HandleFalse
  <2> QED BY <2>1, GotoSweeps, LatestKept
<1>5. CASE Spawn
  <2>1. TracksLatest'
    BY <1>5, SpawnTracksLatest DEF LatestInv, Spawn
  <2>2. Goto(loop) /\ loop \in {"rows", "drain"} /\ signal' = signal /\ signal.stage = "none"
    BY <1>5 DEF Spawn, LatestInv, WatcherTypes, WatcherTypeOK
  <2>3. pc' = loop /\ sweep' \subseteq Tracked'
    BY <2>2, GotoSweeps
  <2> QED BY <2>1, <2>2, <2>3 DEF LatestInv, SignalSparesNewChild
<1>6. CASE SignalRead \/ SignalPost
  <2>1. UNCHANGED <<children, inflight, sweep, pc>> /\ signal.stage # "none"
    BY <1>6 DEF SignalRead, SignalPost
  <2>2. signal'.rev = signal.rev
    BY <1>6 DEF SignalRead, SignalPost, WatcherTypes, WatcherTypeOK
  <2>3. pc' \notin {"claim", "spawn"} /\ sweep' \subseteq Tracked'
    BY <2>1 DEF LatestInv, Tracked
  <2> QED BY <2>1, <2>2, <2>3, LatestKept
<1>7. ASSUME NEW r \in Reviews, SkipRow(r) \/ TakeRow(r) \/ TakePending(r) PROVE LatestInv'
  <2>1. UNCHANGED <<children, inflight, signal>> /\ (Goto("rows") \/ Goto("check"))
    BY <1>7 DEF SkipRow, TakeRow, TakePending, Handle
  <2> QED BY <2>1, GotoSweeps, LatestKept
<1>8. ASSUME NEW r \in Reviews, Reap(r) PROVE LatestInv'
  BY <1>8, ReapKeepsLatest
<1>9. CASE Environment
  <2>1. UNCHANGED <<pc, inflight, sweep, signal>>
    BY <1>9 DEF Environment
  <2>2. CASE UNCHANGED children
    <3>1. Tracked' = Tracked
      BY <2>1 DEF Tracked
    <3> QED BY <2>1, <2>2, <3>1, LatestKept DEF LatestInv
  <2>3. CASE \E k \in Live : ChildExit(k)
    BY <2>1, <2>3, ExitKeepsLatest
  <2> QED BY <1>9, <2>2, <2>3 DEF Environment
<1>10. CASE UNCHANGED tvars
  <2>1. UNCHANGED <<children, inflight, signal, pc, sweep>> /\ Tracked' = Tracked
    BY <1>10 DEF tvars, Tracked
  <2> QED BY <2>1, LatestKept DEF LatestInv
<1> QED BY <1>1, <1>2, <1>3, <1>4, <1>5, <1>6, <1>7, <1>8, <1>9, <1>10 DEF WatcherNext, WatcherStep

LEMMA LatestInit == ASSUME WatcherInit PROVE LatestInv
<1>1. Live = {} /\ Tracked = {}
  BY DEF WatcherInit, Live, Tracked
<1> QED BY <1>1 DEF WatcherInit, LatestInv, TracksLatest, SignalSparesNewChild

(* A crash is signalled for the last child of its review (loop.py _reap,   *)
(* spawn.py _signal_crash): whatever is sent, claimed and reaped, the      *)
(* hand-back never is about a child that the watcher has replaced.         *)
THEOREM SignalFollowsLastChild == WatcherSpec => []SignalSparesNewChild
<1>1. LatestInv => SignalSparesNewChild
  BY DEF LatestInv
<1> QED BY <1>1, WatcherTypesInit, WatcherTypesStep, LatestInit, LatestStep, PTL DEF WatcherSpec

(* The live children that have not been replaced stay within the           *)
(* concurrency cap (loop.py _at_capacity), for any cap, any number of      *)
(* reviews and any number of children: each is the one handle tracked for  *)
(* its review, and the tracked handles are within the cap.                 *)
THEOREM LastChildrenWithinCap == WatcherSpec => []LatestWithinCap
<1>1. ASSUME WatcherTypes, LatestInv, CapsInv PROVE LatestWithinCap
  <2> DEFINE S == {k \in Live : Latest(k)}
             f == [k \in S |-> children[k].rev]
  <2>1. \A k \in S : /\ k \in DOMAIN children /\ children[k].rev \in Reviews
                     /\ inflight[children[k].rev] = k
    BY <1>1, ChildrenType DEF LatestInv, TracksLatest, Live, WatcherTypes, ChildRecord
  <2>2. \A k \in S : children[k].rev \in Tracked
    BY <1>1, <2>1, ChildrenType DEF Tracked, WatcherTypes
  <2>3. f \in Injection(S, Tracked)
    BY <2>1, <2>2 DEF Injection, IsInjective
  <2>4. IsFiniteSet(Tracked) /\ Cardinality(Tracked) <= MaxConcurrent
    BY <1>1 DEF CapsInv, TrackedWithinCaps
  <2> HIDE DEF S, f
  <2>5. IsFiniteSet(S) /\ Cardinality(S) <= Cardinality(Tracked)
    BY <2>3, <2>4, FS_Injection
  <2>6. Cardinality(S) \in Nat /\ Cardinality(Tracked) \in Nat /\ MaxConcurrent \in Nat
    BY <2>4, <2>5, FS_CardinalityType, WatcherAssumption
  <2> QED BY <2>4, <2>5, <2>6 DEF LatestWithinCap, S
<1> QED BY <1>1, WatcherTypesInit, WatcherTypesStep, LatestInit, LatestStep, CapsInit, CapsStep, PTL
        DEF WatcherSpec
----------------------------------------------------------------------------
(* The watcher, the children it launches and the hand-backs it signs for   *)
(* the crashed ones act on a review only by calls of the handoff (loop.py, *)
(* spawn.py): whatever they do, the baton is kept, no two sessions hold a  *)
(* live lease of one tenure, a holder can renew, and no status is stale.   *)
THEOREM WatcherImplementsHandoff ==
  WatcherSpec => /\ HandoffSpec /\ ImplementsBaton
                 /\ [](LeaseExclusive /\ FreshHolderRenews /\ NoLeftoverStatus)
<1>1. WatcherInit => HandoffInit
  BY DEF WatcherInit
<1>2. WatcherTypes /\ [WatcherNext]_tvars => [HandoffNext]_hvars
  BY WatcherUnderneath
<1>3. WatcherSpec => HandoffSpec
  BY <1>1, <1>2, WatcherTypesInit, WatcherTypesStep, PTL DEF WatcherSpec, HandoffSpec
<1> QED BY <1>3, HandoffImplementsBaton, LeaseIsExclusive, HolderRenews, StatusIsCurrent, PTL
=============================================================================
