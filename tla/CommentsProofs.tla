--------------------------- MODULE CommentsProofs ---------------------------
(***************************************************************************)
(* For any number of pages, agents, drafts, chains and faults: a page with *)
(* nothing under way shows the threads its stamp announced, unless it is   *)
(* known to be in doubt; and a comment that was submitted alone is on file *)
(* or on its card.                                                         *)
(***************************************************************************)
EXTENDS Comments, TLAPS

\* What the types do not say of a chain: what it asks for, what it has listed.
Proper(c) ==
    /\ c.op = "create" => c.arg \in Draft
    /\ c.at = "sent" => c.op # None
    /\ c.at = "listed" => c.list \in DOMAIN log
\* The handler that holds the lock is of a request that has written.
Holder == \A p \in Page, i \in Slot : busy = <<p, i>> => chains[p][i].at = "held"
Base == CommentsTypeOK /\ Holder /\ \A p \in Page, i \in Slot : Proper(chains[p][i])

-----------------------------------------------------------------------------
(* One chain of one page moves. *)

LEMMA Becoming ==
    ASSUME chains \in [Page -> [Slot -> Chain]],
           NEW p \in Page, NEW i \in Slot, NEW x \in Chain, Becomes(p, i, x)
    PROVE  /\ chains' \in [Page -> [Slot -> Chain]]
           /\ chains'[p][i] = x
           /\ \A q \in Page, j \in Slot : q # p \/ j # i => chains'[q][j] = chains[q][j]
BY DEF Becomes

LEMMA Answering ==
    ASSUME chains \in [Page -> [Slot -> Chain]],
           NEW p \in Page, NEW i \in Slot, NEW code \in Code, Answer(p, i, code)
    PROVE  /\ [chains[p][i] EXCEPT !.at = "answer", !.code = code] \in Chain
           /\ Becomes(p, i, [chains[p][i] EXCEPT !.at = "answer", !.code = code])
<1>1. [chains[p][i] EXCEPT !.at = "answer", !.code = code] \in Chain
  <2>1. chains[p][i] \in Chain
    OBVIOUS
  <2> QED BY <2>1 DEF Chain
<1>2. Becomes(p, i, [chains[p][i] EXCEPT !.at = "answer", !.code = code])
  BY DEF Answer, Becomes
<1> QED BY <1>1, <1>2

LEMMA IdleType == Idle \in Chain /\ \A load \in BOOLEAN : List(load) \in Chain
<1>1. Idle \in Chain
  BY DEF Idle, Chain, Stamp, Code
<1>2. ASSUME NEW load \in BOOLEAN PROVE List(load) \in Chain
  BY <1>1 DEF Chain, List
<1> QED BY <1>1, <1>2

LEMMA IdleParts ==
    /\ Idle.at = "idle" /\ Idle.op = None /\ Idle.cu = 0
    /\ \A load \in BOOLEAN : /\ List(load).at = "list" /\ List(load).op = None
                            /\ List(load).cu = 0 /\ List(load).load = load
<1>1. Idle.at = "idle" /\ Idle.op = None /\ Idle.cu = 0
  BY DEF Idle
<1>2. ASSUME NEW load \in BOOLEAN
      PROVE  /\ List(load).at = "list" /\ List(load).op = None
             /\ List(load).cu = 0 /\ List(load).load = load
  BY DEF Idle, List
<1> QED BY <1>1, <1>2

LEMMA RequestType ==
    ASSUME NEW op \in Op, NEW arg \in Draft \cup Nat
    PROVE  Request(op, arg) \in Chain
BY IdleType DEF Request, Idle, Chain

LEMMA Starting ==
    ASSUME chains \in [Page -> [Slot -> Chain]],
           NEW p \in Page, NEW x \in Chain, Starts(p, x)
    PROVE  \E i \in Slot : chains[p][i] = Idle /\ Becomes(p, i, x)
BY DEF Starts

-----------------------------------------------------------------------------
(* The file. *)

LEMMA FileType ==
    ASSUME CommentsTypeOK PROVE File \in SUBSET Comment /\ Len(log) \in DOMAIN log
<1>1. Len(log) \in DOMAIN log
  BY DEF CommentsTypeOK
<1> QED BY <1>1 DEF CommentsTypeOK, File

LEMMA ChangedType ==
    ASSUME CommentsTypeOK, NEW op \in Op, NEW arg \in Draft \cup Nat \cup {None},
           op = "create" => arg \in Draft \cup {None},
           NEW byAgent \in BOOLEAN, NEW says \in BOOLEAN, Verdict(File, op, arg) = 200
    PROVE  Changed(File, op, arg, byAgent, says) \in SUBSET Comment
<1>1. CASE op = "create"
  <2>1. [id |-> Len(log), draft |-> arg, status |-> "open", engaged |-> byAgent] \in Comment
    BY <1>1, FileType DEF Comment, CommentsTypeOK
  <2> QED BY <1>1, <2>1, FileType DEF Changed
<1>2. CASE op # "create"
  <2> DEFINE c == CHOOSE x \in File : x.id = arg
  <2>1. Has(File, arg)
    BY <1>2 DEF Verdict
  <2>2. c \in File /\ c \in Comment
    BY <2>1, FileType DEF Has
  <2> HIDE DEF c
  <2>3. StatusAfter(op, c.status) \in {"open", "resolved", "reopened"}
    BY <2>2 DEF StatusAfter, Comment
  <2>4. [c EXCEPT !.status = StatusAfter(op, c.status),
                  !.engaged = c.engaged \/ (byAgent /\ says)] \in Comment
    BY <2>2, <2>3 DEF Comment
  <2>5. Changed(File, op, arg, byAgent, says) =
          (File \ {c}) \cup IF op = "delete" THEN {}
             ELSE {[c EXCEPT !.status = StatusAfter(op, c.status),
                             !.engaged = c.engaged \/ (byAgent /\ says)]}
    BY <1>2 DEF Changed, c
  <2> QED BY <2>4, <2>5, FileType
<1> QED BY <1>1, <1>2

\* The log grows by one and keeps what it has.
LEMMA Written ==
    ASSUME CommentsTypeOK, NEW who, NEW op \in Op, NEW arg \in Draft \cup Nat \cup {None},
           op = "create" => arg \in Draft \cup {None},
           NEW byAgent \in BOOLEAN, NEW says \in BOOLEAN, Write(who, op, arg, byAgent, says)
    PROVE  /\ log' \in Seq(SUBSET Comment) /\ Len(log') = Len(log) + 1
           /\ DOMAIN log \subseteq DOMAIN log' /\ \A k \in DOMAIN log : log'[k] = log[k]
           /\ log'[Len(log')] = Changed(File, op, arg, byAgent, says)
           /\ busy' = who /\ UNCHANGED <<cu, su, stamped>>
<1>1. Changed(File, op, arg, byAgent, says) \in SUBSET Comment
  BY ChangedType DEF Write
<1>2. log \in Seq(SUBSET Comment)
  BY DEF CommentsTypeOK
<1> QED BY <1>1, <1>2 DEF Write

-----------------------------------------------------------------------------
(* What a step can do to the server: the log grows, and the stamp announces *)
(* all of it when it moves.                                                *)
Grows ==
    /\ log' \in Seq(SUBSET Comment)
    /\ DOMAIN log \subseteq DOMAIN log' /\ \A k \in DOMAIN log : log'[k] = log[k]
Marks ==
    \/ UNCHANGED <<cu, stamped>>
    \/ cu' = cu + 1 /\ stamped' = Len(log) /\ UNCHANGED log
ServerMoves ==
    /\ Grows /\ Marks
    /\ su' \in Stamp /\ busy' \in {None} \cup Agent \cup (Page \X Slot)

LEMMA ServerStays == ASSUME CommentsTypeOK, UNCHANGED server PROVE ServerMoves
BY DEF CommentsTypeOK, server, ServerMoves, Grows, Marks

LEMMA WriteMoves ==
    ASSUME CommentsTypeOK, NEW who \in Agent \cup (Page \X Slot), NEW op \in Op,
           NEW arg \in Draft \cup Nat \cup {None}, op = "create" => arg \in Draft \cup {None},
           NEW byAgent \in BOOLEAN, NEW says \in BOOLEAN, Write(who, op, arg, byAgent, says)
    PROVE  ServerMoves
<1>1. Grows /\ Marks /\ busy' = who /\ su' = su
  BY Written DEF Grows, Marks
<1> QED BY <1>1 DEF CommentsTypeOK, ServerMoves

LEMMA BumpMoves == ASSUME CommentsTypeOK, Bump \/ NoBump PROVE ServerMoves
BY DEF CommentsTypeOK, Bump, NoBump, ServerMoves, Grows, Marks, Stamp

LEMMA ServerEffect == ASSUME Base, [Next]_vars PROVE ServerMoves
<1>1. CASE UNCHANGED vars
  BY <1>1, ServerStays DEF Base, vars, server
<1>2. ASSUME NEW a \in Agent, AgentWrite(a) PROVE ServerMoves
  <2> USE DEF Base, Op
  <2>1. CASE Write(a, "create", None, TRUE, TRUE)
    BY <2>1, WriteMoves
  <2>2. ASSUME NEW c \in File, NEW says \in BOOLEAN,
               \/ Write(a, "reply", c.id, TRUE, TRUE)
               \/ Write(a, "resolve", c.id, TRUE, says)
               \/ \E op \in {"reopen", "delete"} : Write(a, op, c.id, FALSE, FALSE)
        PROVE ServerMoves
    <3>1. c.id \in Nat
      BY FileType DEF Comment
    <3> QED BY <2>2, <3>1, WriteMoves
  <2> QED BY <1>2, <2>1, <2>2 DEF AgentWrite
<1>3. ASSUME NEW a \in Agent, AgentStamp(a) PROVE ServerMoves
  BY <1>3, BumpMoves DEF AgentStamp, Base
<1>4. CASE Put
  BY <1>4 DEF Put, Base, CommentsTypeOK, ServerMoves, Grows, Marks, Stamp
<1>5. ASSUME NEW p \in Page, Retry(p) \/ Discard(p) \/ Click(p) \/ Poll(p) PROVE ServerMoves
  BY <1>5, ServerStays DEF Base, Retry, Discard, Click, Poll
<1>6. ASSUME NEW p \in Page, NEW d \in Draft, Submit(p, d) PROVE ServerMoves
  BY <1>6, ServerStays DEF Base, Submit
<1>7. ASSUME NEW p \in Page, NEW i \in Slot, ServerStep(p, i) PROVE ServerMoves
  <2>1. CASE Take(p, i)
    <3>1. chains[p][i] \in Chain /\ Proper(chains[p][i])
      BY DEF Base, CommentsTypeOK
    <3>2. chains[p][i].op \in Op /\ chains[p][i].arg \in Draft \cup Nat \cup {None}
      BY <2>1, <3>1 DEF Take, Chain, Proper
    <3> QED BY <2>1, <3>1, <3>2, WriteMoves DEF Take, Base, Proper
  <2>2. CASE Refuse(p, i) \/ Listed(p, i)
    BY <2>2, ServerStays DEF Base, Refuse, Listed
  <2>3. CASE Stamped(p, i) \/ Unstamped(p, i)
    BY <2>3, BumpMoves DEF Base, Stamped, Unstamped
  <2> QED BY <1>7, <2>1, <2>2, <2>3 DEF ServerStep
<1>8. ASSUME NEW p \in Page, NEW i \in Slot, PageStep(p, i) \/ Lose(p, i) PROVE ServerMoves
  BY <1>8, ServerStays DEF Base, PageStep, Posted, Acted, Apply, LoadStamps, Paint, Decide, Lose
<1> QED BY <1>1, <1>2, <1>3, <1>4, <1>5, <1>6, <1>7, <1>8 DEF Next

LEMMA FiledStays ==
    ASSUME Grows, NEW d, Filed(d) PROVE Filed(d)'
BY DEF Grows, Filed

-----------------------------------------------------------------------------
(* What a step can do to the chains.  Those that read or record the list    *)
(* are left as they are; of the others this is all.                         *)
Ends(p, i, x) ==
    \/ chains[p][i].at \notin {"list", "listed", "held"} /\ x = Idle
    \/ chains[p][i].at = "answer" /\ x = List(FALSE)
Polls(p, i, x) ==
    chains[p][i] = Idle /\ x = [Idle EXCEPT !.at = "polled", !.cu = cu, !.su = su]
Asks(p, i, x) ==
    /\ chains[p][i] = Idle
    /\ \E op \in Op, arg \in Draft \cup Nat :
         /\ x = Request(op, arg)
         /\ op = "create" => arg \in Draft /\ arg = pending'[p].draft
FiledNext(d) == \E k \in DOMAIN log' : \E c \in log'[k] : c.draft = d
Holds(p, i, x) ==
    LET c == chains[p][i] IN
    c.at = "sent" /\ x = [c EXCEPT !.at = "held"] /\ (c.op = "create" => FiledNext(c.arg))
Returns(p, i, x) ==
    LET c == chains[p][i] IN
    /\ c.at \in {"sent", "held", "answer"} /\ (c.at = "held" => busy' = None)
    /\ \E code \in Code : /\ x = [c EXCEPT !.at = "answer", !.code = code]
                          /\ code = 200 => c.at = "held"
Lists(p, i, x) ==
    LET c == chains[p][i] IN
    /\ c.at = "list" /\ UNCHANGED <<log, cu, stamped>>
    /\ x = [c EXCEPT !.at = "listed", !.list = Len(log), !.cu = IF c.load THEN cu ELSE 0]
Loads(p, i, x) ==
    LET c == chains[p][i] IN
    /\ c.at = "load" /\ UNCHANGED <<cu, stamped>>
    /\ \/ x = [c EXCEPT !.at = "paint", !.cu = cu, !.su = su, !.crossed = c.cu # cu]
       \/ x = [c EXCEPT !.at = "paint", !.cu = 0, !.su = 0]
Succ(p, i, x) ==
    Ends(p, i, x) \/ Polls(p, i, x) \/ Asks(p, i, x) \/ Holds(p, i, x) \/ Returns(p, i, x)
      \/ Lists(p, i, x) \/ Loads(p, i, x)

\* The parts of a chain its step sets, and those it keeps.
LEMMA SuccParts ==
    ASSUME NEW p \in Page, NEW i \in Slot, NEW x, chains[p][i] \in Chain
    PROVE  /\ Ends(p, i, x) => x.cu = 0 /\ x.op = None /\ x.at \in {"idle", "list"}
           /\ Polls(p, i, x) => x.cu = cu /\ x.op = None /\ x.at = "polled"
           /\ Asks(p, i, x) => /\ x.cu = 0 /\ x.at = "sent" /\ x.op # None
                               /\ x.op = "create" => x.arg \in Draft /\ x.arg = pending'[p].draft
           /\ Holds(p, i, x) => /\ x.cu = chains[p][i].cu /\ x.at = "held"
                                /\ x.op = chains[p][i].op /\ x.arg = chains[p][i].arg
           /\ Returns(p, i, x) => /\ x.cu = chains[p][i].cu /\ x.at = "answer"
                                  /\ x.op = chains[p][i].op /\ x.arg = chains[p][i].arg
                                  /\ x.code = 200 => chains[p][i].at = "held"
           /\ Lists(p, i, x) => /\ x.cu = (IF chains[p][i].load THEN cu ELSE 0)
                                /\ x.at = "listed" /\ x.list = Len(log)
                                /\ x.load = chains[p][i].load
                                /\ x.op = chains[p][i].op /\ x.arg = chains[p][i].arg
           /\ Loads(p, i, x) => /\ \/ x.cu = 0
                                   \/ x.cu = cu /\ (~x.crossed => chains[p][i].cu = cu)
                                /\ x.at = "paint"
                                /\ x.op = chains[p][i].op /\ x.arg = chains[p][i].arg
<1> DEFINE c == chains[p][i]
<1>1. Ends(p, i, x) => x.cu = 0 /\ x.op = None /\ x.at \in {"idle", "list"}
  BY IdleParts DEF Ends
<1>2. Polls(p, i, x) => x.cu = cu /\ x.op = None /\ x.at = "polled"
  BY DEF Polls, Idle
<1>3. ASSUME Asks(p, i, x)
      PROVE  /\ x.cu = 0 /\ x.at = "sent" /\ x.op # None
             /\ x.op = "create" => x.arg \in Draft /\ x.arg = pending'[p].draft
  <2> PICK op \in Op, arg \in Draft \cup Nat :
           /\ x = Request(op, arg)
           /\ op = "create" => arg \in Draft /\ arg = pending'[p].draft
    BY <1>3 DEF Asks
  <2>1. x.cu = 0 /\ x.at = "sent" /\ x.op = op /\ x.arg = arg
    BY DEF Request, Idle
  <2> QED BY <2>1, OpAssumption
<1>4. Holds(p, i, x) => x.cu = c.cu /\ x.at = "held" /\ x.op = c.op /\ x.arg = c.arg
  BY DEF Holds, Chain
<1>5. Returns(p, i, x) => /\ x.cu = c.cu /\ x.at = "answer" /\ x.op = c.op /\ x.arg = c.arg
                          /\ x.code = 200 => c.at = "held"
  BY DEF Returns, Chain
<1>6. Lists(p, i, x) => /\ x.cu = (IF c.load THEN cu ELSE 0) /\ x.at = "listed"
                        /\ x.list = Len(log) /\ x.load = c.load /\ x.op = c.op /\ x.arg = c.arg
  BY DEF Lists, Chain
<1>7. Loads(p, i, x) => /\ x.cu = 0 \/ (x.cu = cu /\ (~x.crossed => c.cu = cu))
                        /\ x.at = "paint" /\ x.op = c.op /\ x.arg = c.arg
  BY DEF Loads, Chain
<1> QED BY <1>1, <1>2, <1>3, <1>4, <1>5, <1>6, <1>7

LoseList(p, i) == Lose(p, i) /\ chains[p][i].at \in {"list", "listed"}
Records(p, i) == Apply(p, i) \/ LoseList(p, i) \/ Paint(p, i) \/ Decide(p, i)
Moves(p, i) == UNCHANGED shown /\ \E x \in Chain : Becomes(p, i, x) /\ Succ(p, i, x)

LEMMA Answered ==
    ASSUME Base, NEW p \in Page, NEW i \in Slot, NEW code \in Code, Answer(p, i, code),
           chains[p][i].at \in {"sent", "held", "answer"}, code = 200 => chains[p][i].at = "held",
           chains[p][i].at = "held" => busy' = None, UNCHANGED shown
    PROVE  Moves(p, i)
<1> DEFINE x == [chains[p][i] EXCEPT !.at = "answer", !.code = code]
<1>1. x \in Chain /\ Becomes(p, i, x)
  BY Answering DEF Base, CommentsTypeOK
<1>2. Returns(p, i, x)
  BY DEF Returns
<1> QED BY <1>1, <1>2 DEF Moves, Succ

LEMMA Started ==
    ASSUME Base, NEW p \in Page, NEW x \in Chain, Starts(p, x), UNCHANGED shown,
           \A i \in Slot : chains[p][i] = Idle => Succ(p, i, x)
    PROVE  \E i \in Slot : Moves(p, i)
BY Starting DEF Base, CommentsTypeOK, Moves

LEMMA Requested ==
    ASSUME Base, NEW p \in Page, NEW op \in Op, NEW arg \in Draft \cup Nat,
           op = "create" => arg \in Draft /\ arg = pending'[p].draft,
           Starts(p, Request(op, arg)), UNCHANGED shown
    PROVE  \E i \in Slot : Moves(p, i)
<1>1. Request(op, arg) \in Chain
  BY RequestType
<1>2. ASSUME NEW i \in Slot, chains[p][i] = Idle PROVE Succ(p, i, Request(op, arg))
  <2>1. Asks(p, i, Request(op, arg))
    BY <1>2 DEF Asks
  <2> QED BY <2>1 DEF Succ
<1> QED BY <1>1, <1>2, Started

LEMMA TakeMoves ==
    ASSUME Base, NEW p \in Page, NEW i \in Slot, Take(p, i) PROVE Moves(p, i)
<1> DEFINE c == chains[p][i]
           x == [c EXCEPT !.at = "held"]
<1>1. c \in Chain /\ Proper(c)
  BY DEF Base, CommentsTypeOK
<1>2. c.at = "sent" /\ Write(<<p, i>>, c.op, c.arg, FALSE, FALSE)
  BY DEF Take
<1>3. c.op \in Op /\ c.arg \in Draft \cup Nat \cup {None}
  BY <1>1, <1>2 DEF Chain, Proper
<1>4. x \in Chain /\ x.op = c.op /\ x.arg = c.arg
  BY <1>1 DEF Chain
<1>5. ASSUME c.op = "create" PROVE FiledNext(c.arg)
  <2>1. /\ Len(log') = Len(log) + 1 /\ log' \in Seq(SUBSET Comment)
        /\ log'[Len(log')] = Changed(File, c.op, c.arg, FALSE, FALSE)
    BY <1>1, <1>2, <1>3, Written DEF Base, Proper
  <2>2. Len(log') \in DOMAIN log'
    BY <2>1, FileType DEF Base, CommentsTypeOK
  <2> DEFINE f == [id |-> Len(log), draft |-> c.arg, status |-> "open", engaged |-> FALSE]
  <2>3. f \in log'[Len(log')] /\ f.draft = c.arg
    BY <1>5, <2>1 DEF Changed
  <2> QED BY <2>2, <2>3 DEF FiledNext
<1>6. Becomes(p, i, x)
  BY DEF Take
<1>7. UNCHANGED shown
  BY DEF Take
<1>8. Holds(p, i, x)
  BY <1>2, <1>5 DEF Holds
<1> QED BY <1>4, <1>6, <1>7, <1>8 DEF Moves, Succ

LEMMA ListedMoves ==
    ASSUME Base, NEW p \in Page, NEW i \in Slot, Listed(p, i) PROVE Moves(p, i)
<1> DEFINE c == chains[p][i]
           x == [c EXCEPT !.at = "listed", !.list = Len(log), !.cu = IF c.load THEN cu ELSE 0]
<1>1. c \in Chain /\ cu \in Stamp /\ Len(log) \in Nat
  BY DEF Base, CommentsTypeOK
<1>2. x \in Chain
  BY <1>1 DEF Chain, Stamp
<1>3. Becomes(p, i, x) /\ c.at = "list" /\ UNCHANGED <<shown, log, cu, stamped>>
  BY DEF Listed, server
<1> QED BY <1>2, <1>3 DEF Moves, Succ, Lists

LEMMA LoadMoves ==
    ASSUME Base, NEW p \in Page, NEW i \in Slot,
           LoadStamps(p, i) \/ (Lose(p, i) /\ chains[p][i].at = "load")
    PROVE  Moves(p, i)
<1> DEFINE c == chains[p][i]
           x == [c EXCEPT !.at = "paint", !.cu = cu, !.su = su, !.crossed = c.cu # cu]
           y == [c EXCEPT !.at = "paint", !.cu = 0, !.su = 0]
<1>1. c \in Chain /\ cu \in Stamp /\ su \in Stamp
  BY DEF Base, CommentsTypeOK
<1>2. x \in Chain /\ Idle \in Chain
  <2> DEFINE crossed == c.cu # cu
  <2>1. crossed \in BOOLEAN
    OBVIOUS
  <2> HIDE DEF crossed
  <2>2. [c EXCEPT !.at = "paint", !.cu = cu, !.su = su, !.crossed = crossed] \in Chain
    BY <1>1, <2>1 DEF Chain, Stamp
  <2> QED BY <2>2, IdleType DEF crossed
<1>5. y \in Chain
  BY <1>1 DEF Chain, Stamp
<1>3. UNCHANGED <<shown, cu, stamped>> /\ c.at = "load"
  BY DEF LoadStamps, Lose, server, shown
<1>4. Becomes(p, i, x) \/ Becomes(p, i, y) \/ Becomes(p, i, Idle)
  BY <1>3 DEF LoadStamps, Lose
<1>6. Succ(p, i, x) /\ Succ(p, i, y) /\ Succ(p, i, Idle)
  BY <1>3 DEF Succ, Ends, Loads
<1> QED BY <1>2, <1>3, <1>4, <1>5, <1>6 DEF Moves

LEMMA StepShape ==
    ASSUME Base, [Next]_vars
    PROVE  \/ UNCHANGED <<chains, shown>>
           \/ \E p \in Page, i \in Slot : Moves(p, i) \/ Records(p, i)
<1> USE DEF Base, CommentsTypeOK
<1>1. CASE UNCHANGED vars
  BY <1>1 DEF vars, shown
<1>2. ASSUME NEW a \in Agent, AgentWrite(a) \/ AgentStamp(a) PROVE UNCHANGED <<chains, shown>>
  BY <1>2 DEF AgentWrite, AgentStamp
<1>3. CASE Put
  BY <1>3 DEF Put
<1>4. ASSUME NEW p \in Page, Retry(p) PROVE \E i \in Slot : Moves(p, i)
  <2>1. pending[p].draft \in Draft /\ pending'[p].draft = pending[p].draft
    BY <1>4 DEF Retry
  <2> QED BY <1>4, <2>1, Requested DEF Retry, Op
<1>5. ASSUME NEW p \in Page, Discard(p) PROVE UNCHANGED <<chains, shown>>
  BY <1>5 DEF Discard
<1>6. ASSUME NEW p \in Page, Click(p) PROVE \E i \in Slot : Moves(p, i)
  <2>1. ASSUME NEW c \in log[threads[p]], NEW op \in {"reply", "resolve", "delete", "reopen"},
               Starts(p, Request(op, c.id))
        PROVE \E i \in Slot : Moves(p, i)
    <3>1. c \in Comment
      OBVIOUS
    <3>2. c.id \in Draft \cup Nat /\ op \in Op /\ op # "create"
      BY <3>1 DEF Comment, Op
    <3> QED BY <1>6, <2>1, <3>2, Requested DEF Click
  <2> QED BY <1>6, <2>1 DEF Click
<1>7. ASSUME NEW p \in Page, Poll(p) PROVE \E i \in Slot : Moves(p, i)
  <2> DEFINE x == [Idle EXCEPT !.at = "polled", !.cu = cu, !.su = su]
  <2>1. x \in Chain
    BY IdleType DEF Chain, Idle
  <2>2. \A i \in Slot : chains[p][i] = Idle => Succ(p, i, x)
    BY DEF Succ, Polls
  <2> QED BY <1>7, <2>1, <2>2, Started DEF Poll
<1>8. ASSUME NEW p \in Page, NEW d \in Draft, Submit(p, d) PROVE \E i \in Slot : Moves(p, i)
  <2>1. pending'[p].draft = d
    BY <1>8 DEF Submit
  <2> QED BY <1>8, <2>1, Requested DEF Submit, Op
<1>9. ASSUME NEW p \in Page, NEW i \in Slot, ServerStep(p, i) PROVE Moves(p, i)
  <2>1. CASE Refuse(p, i)
    <3>1. Verdict(File, chains[p][i].op, chains[p][i].arg) \in Code
      BY DEF Verdict, Code
    <3> QED BY <2>1, <3>1, Answered DEF Refuse
  <2>2. CASE Stamped(p, i) \/ Unstamped(p, i)
    <3>1. chains[p][i].at = "held" /\ busy' = None
      BY <2>2 DEF Stamped, Unstamped, Bump, NoBump, Holder
    <3> QED BY <2>2, <3>1, Answered DEF Stamped, Unstamped, Code
  <2> QED BY <1>9, <2>1, <2>2, TakeMoves, ListedMoves DEF ServerStep
<1>10. ASSUME NEW p \in Page, NEW i \in Slot, PageStep(p, i) PROVE Moves(p, i) \/ Records(p, i)
  <2>1. CASE Posted(p, i) \/ Acted(p, i)
    <3>1. chains[p][i].at = "answer" /\ UNCHANGED shown
      BY <2>1 DEF Posted, Acted
    <3>2. Becomes(p, i, Idle) \/ Becomes(p, i, List(FALSE))
      BY <2>1 DEF Posted, Acted
    <3> QED BY <3>1, <3>2, IdleType DEF Moves, Succ, Ends
  <2> QED BY <1>10, <2>1, LoadMoves DEF PageStep, Records
<1>11. ASSUME NEW p \in Page, NEW i \in Slot, Lose(p, i) PROVE Moves(p, i) \/ Records(p, i)
  <2>1. CASE chains[p][i].at \in {"sent", "answer"}
    BY <1>11, <2>1, Answered DEF Lose, Code, shown
  <2> QED BY <1>11, <2>1, LoadMoves DEF Lose, LoseList, Records
<1> QED BY <1>1, <1>2, <1>3, <1>4, <1>5, <1>6, <1>7, <1>8, <1>9, <1>10, <1>11 DEF Next

-----------------------------------------------------------------------------
(* Types. *)

LEMMA SuccProper ==
    ASSUME Base, NEW p \in Page, NEW i \in Slot, NEW x \in Chain, Succ(p, i, x), Grows
    PROVE  Proper(x)'
<1> DEFINE c == chains[p][i]
<1>1. c \in Chain /\ Proper(c) /\ cu \in Stamp /\ su \in Stamp
  BY DEF Base, CommentsTypeOK
<1>2. Len(log) \in DOMAIN log
  BY FileType DEF Base
<1>3. CASE Lists(p, i, x)
  <2>1. x.at = "listed" /\ x.list = Len(log) /\ x.op = c.op /\ x.arg = c.arg
    BY <1>1, <1>3, SuccParts
  <2>2. log' = log /\ c.at = "list"
    BY <1>3 DEF Lists
  <2> QED BY <1>1, <1>2, <2>1, <2>2 DEF Proper
<1>4. CASE Ends(p, i, x) \/ Polls(p, i, x) \/ Asks(p, i, x)
  <2>1. x.op = "create" => x.arg \in Draft
    BY <1>1, <1>4, OpAssumption, SuccParts DEF Op
  <2>2. x.at # "listed" /\ (x.at = "sent" => x.op # None)
    BY <1>1, <1>4, SuccParts
  <2> QED BY <2>1, <2>2 DEF Proper
<1>5. CASE Holds(p, i, x) \/ Returns(p, i, x) \/ Loads(p, i, x)
  <2>1. x.op = c.op /\ x.arg = c.arg /\ x.at \in {"held", "answer", "paint"}
    BY <1>1, <1>5, SuccParts
  <2> QED BY <1>1, <2>1 DEF Proper
<1> QED BY <1>3, <1>4, <1>5 DEF Succ

LEMMA RecordsEffect ==
    ASSUME Base, NEW p \in Page, NEW i \in Slot, Records(p, i)
    PROVE  /\ UNCHANGED server
           /\ threads' \in [Page -> DOMAIN log] /\ doubt' \in [Page -> BOOLEAN]
           /\ lastCmt' \in [Page -> Stamp] /\ lastSrc' \in [Page -> Stamp]
           /\ chains[p][i].at # "held"
           /\ \E x \in Chain : Becomes(p, i, x) /\ x.op = None /\ x.at \notin {"sent", "listed"}
<1> DEFINE c == chains[p][i]
           y == [Idle EXCEPT !.at = "load", !.cu = c.cu]
           z == [Idle EXCEPT !.at = "load"]
<1> USE DEF Base, CommentsTypeOK
<1>1. c \in Chain /\ Proper(c)
  OBVIOUS
<1>2. /\ Idle \in Chain /\ List(TRUE) \in Chain /\ List(FALSE) \in Chain
      /\ y \in Chain /\ z \in Chain
  <2>1. c.cu \in Stamp /\ Idle \in Chain
    BY <1>1, IdleType DEF Chain
  <2>2. y \in Chain
    BY <2>1 DEF Chain
  <2>3. z \in Chain
    BY <2>1 DEF Chain
  <2> QED BY <2>1, <2>2, <2>3, IdleType
<1>3. \A x \in {Idle, List(TRUE), List(FALSE), y, z} : x.op = None /\ x.at \notin {"sent", "listed"}
  <2>1. y.op = None /\ y.at = "load" /\ z.op = None /\ z.at = "load"
    BY DEF Idle
  <2> QED BY <2>1, IdleParts
<1>4. \E x \in {Idle, List(TRUE), List(FALSE), y, z} : Becomes(p, i, x)
  BY DEF Records, Apply, LoseList, Lose, Paint, Decide
<1>5. c.cu \in Stamp /\ c.su \in Stamp /\ (c.at = "listed" => c.list \in DOMAIN log)
  BY <1>1 DEF Chain, Proper
<1>6. CASE Apply(p, i)
  BY <1>2, <1>3, <1>4, <1>5, <1>6 DEF Apply
<1>7. CASE LoseList(p, i)
  BY <1>2, <1>3, <1>4, <1>7 DEF LoseList, Lose
<1>8. CASE Paint(p, i)
  BY <1>2, <1>3, <1>4, <1>5, <1>8 DEF Paint
<1>9. CASE Decide(p, i)
  BY <1>2, <1>3, <1>4, <1>5, <1>9 DEF Decide
<1> QED BY <1>6, <1>7, <1>8, <1>9 DEF Records

CardType ==
    /\ pending \in [Page -> [draft : Draft \cup {None}, failed : BOOLEAN]]
    /\ retry \in [Page -> BOOLEAN]
    /\ draft \in [Draft -> {"unwritten", "submitted", "discarded"}] /\ mixed \subseteq Draft

\* Four steps touch the card, or what is known of the drafts.
LEMMA CardSteps ==
    ASSUME [Next]_vars
    PROVE  \/ \E p \in Page : Retry(p) \/ Discard(p) \/ (\E d \in Draft : Submit(p, d))
                              \/ \E i \in Slot : Posted(p, i)
           \/ /\ UNCHANGED <<pending, draft, mixed>>
              /\ UNCHANGED retry \/ \E p \in Page : RenderAll(p, pending[p])
<1>1. CASE UNCHANGED vars
  BY <1>1 DEF vars
<1>2. ASSUME NEW a \in Agent, AgentWrite(a) \/ AgentStamp(a) PROVE UNCHANGED card
  BY <1>2 DEF AgentWrite, AgentStamp
<1>3. CASE Put
  BY <1>3 DEF Put, card
<1>4. ASSUME NEW p \in Page, Click(p) \/ Poll(p) PROVE UNCHANGED card
  BY <1>4 DEF Click, Poll
<1>5. ASSUME NEW p \in Page, NEW i \in Slot, ServerStep(p, i) PROVE UNCHANGED card
  BY <1>5 DEF ServerStep, Take, Refuse, Stamped, Unstamped, Listed
<1>6. ASSUME NEW p \in Page, NEW i \in Slot, Acted(p, i) \/ LoadStamps(p, i) \/ Decide(p, i)
      PROVE UNCHANGED card
  BY <1>6 DEF Acted, LoadStamps, Decide
<1>7. ASSUME NEW p \in Page, NEW i \in Slot, Apply(p, i) \/ Paint(p, i) \/ Lose(p, i)
      PROVE /\ UNCHANGED <<pending, draft, mixed>>
            /\ UNCHANGED retry \/ RenderAll(p, pending[p])
  BY <1>7 DEF Apply, Paint, Lose
<1> QED BY <1>1, <1>2, <1>3, <1>4, <1>5, <1>6, <1>7 DEF Next, PageStep, card

LEMMA CardTypeStep ==
    ASSUME Base, [Next]_vars PROVE CardType'
<1>0. CardType
  BY DEF Base, CommentsTypeOK, CardType
<1>1. ASSUME NEW p \in Page, NEW post \in [draft : Draft \cup {None}, failed : BOOLEAN],
             pending' = [pending EXCEPT ![p] = post], UNCHANGED retry \/ RenderAll(p, post)
      PROVE pending' \in [Page -> [draft : Draft \cup {None}, failed : BOOLEAN]]
            /\ retry' \in [Page -> BOOLEAN]
  BY <1>0, <1>1 DEF CardType, RenderAll
<1>2. NoPost \in [draft : Draft \cup {None}, failed : BOOLEAN]
  BY DEF NoPost
<1>3. ASSUME NEW p \in Page, Retry(p) PROVE CardType'
  <2> DEFINE post == [pending[p] EXCEPT !.failed = FALSE]
  <2>1. post \in [draft : Draft \cup {None}, failed : BOOLEAN]
    BY <1>0 DEF CardType
  <2>2. pending' = [pending EXCEPT ![p] = post] /\ UNCHANGED <<retry, draft, mixed>>
    BY <1>3 DEF Retry
  <2> QED BY <1>0, <1>1, <2>1, <2>2 DEF CardType
<1>4. ASSUME NEW p \in Page, Discard(p) PROVE CardType'
  BY <1>0, <1>1, <1>2, <1>4 DEF Discard, CardType
<1>5. ASSUME NEW p \in Page, NEW d \in Draft, Submit(p, d) PROVE CardType'
  <2> DEFINE post == [draft |-> d, failed |-> FALSE]
  <2>1. pending' = [pending EXCEPT ![p] = post] /\ RenderAll(p, post) /\ mixed' \subseteq Draft
        /\ draft' = [draft EXCEPT ![d] = "submitted"]
    BY <1>0, <1>5 DEF Submit, CardType
  <2> QED BY <1>0, <1>1, <2>1 DEF CardType
<1>6. ASSUME NEW p \in Page, NEW i \in Slot, Posted(p, i) PROVE CardType'
  <2> DEFINE post == AfterPost(pending[p], chains[p][i].code)
  <2>1. post \in [draft : Draft \cup {None}, failed : BOOLEAN]
    <3>1. pending[p] \in [draft : Draft \cup {None}, failed : BOOLEAN]
      BY <1>0 DEF CardType
    <3>2. [pending[p] EXCEPT !.failed = TRUE] \in [draft : Draft \cup {None}, failed : BOOLEAN]
      BY <3>1
    <3> QED BY <1>2, <3>1, <3>2 DEF AfterPost
  <2>2. /\ pending' = [pending EXCEPT ![p] = post] /\ UNCHANGED <<draft, mixed>>
        /\ UNCHANGED retry \/ RenderAll(p, post)
    BY <1>6 DEF Posted
  <2> QED BY <1>0, <1>1, <2>1, <2>2 DEF CardType
<1>7. ASSUME NEW p \in Page, UNCHANGED <<pending, draft, mixed>>, RenderAll(p, pending[p])
      PROVE CardType'
  BY <1>0, <1>7 DEF CardType, RenderAll
<1> QED BY <1>0, <1>3, <1>4, <1>5, <1>6, <1>7, CardSteps DEF CardType

LEMMA BaseInit == Init => Base
<1> SUFFICES ASSUME Init PROVE Base
  OBVIOUS
<1>1. Idle \in Chain /\ Idle.op = None /\ Idle.at = "idle"
  BY IdleType DEF Idle
<1>2. log \in Seq(SUBSET Comment) /\ 1 \in DOMAIN log
  BY DEF Init
<1>3. chains \in [Page -> [Slot -> Chain]] /\ \A p \in Page, i \in Slot : chains[p][i] = Idle
  BY <1>1 DEF Init
<1>4. Proper(Idle)
  BY <1>1, OpAssumption DEF Proper, Op
<1>5. Holder
  BY CommentsAssumption DEF Init, Holder, Slot
<1>6. CommentsTypeOK
  <2>1. /\ stamped \in DOMAIN log /\ cu \in Stamp /\ su \in Stamp
        /\ busy \in {None} \cup Agent \cup (Page \X Slot)
    BY <1>2 DEF Init, Stamp
  <2>2. /\ threads \in [Page -> DOMAIN log] /\ lastCmt \in [Page -> Stamp]
        /\ lastSrc \in [Page -> Stamp] /\ doubt \in [Page -> BOOLEAN]
    BY <1>2 DEF Init, Stamp
  <2>3. /\ pending \in [Page -> [draft : Draft \cup {None}, failed : BOOLEAN]]
        /\ retry \in [Page -> BOOLEAN]
        /\ draft \in [Draft -> {"unwritten", "submitted", "discarded"}] /\ mixed \subseteq Draft
    BY DEF Init, NoPost
  <2> QED BY <1>2, <1>3, <2>1, <2>2, <2>3 DEF CommentsTypeOK
<1> QED BY <1>3, <1>4, <1>5, <1>6 DEF Base

\* Only a request that writes takes the lock for itself.
LEMMA BusySteps ==
    ASSUME [Next]_vars
    PROVE  \/ busy' \in {busy, None} \cup Agent
           \/ \E p \in Page, i \in Slot : Take(p, i)
<1>1. CASE UNCHANGED vars
  BY <1>1 DEF vars
<1>2. ASSUME NEW a \in Agent, AgentWrite(a) \/ AgentStamp(a) PROVE busy' \in {None} \cup Agent
  BY <1>2 DEF AgentWrite, AgentStamp, Write, Bump, NoBump
<1>3. CASE Put
  BY <1>3 DEF Put
<1>4. ASSUME NEW p \in Page, Retry(p) \/ Discard(p) \/ Click(p) \/ Poll(p) PROVE busy' = busy
  BY <1>4 DEF Retry, Discard, Click, Poll, server
<1>5. ASSUME NEW p \in Page, NEW d \in Draft, Submit(p, d) PROVE busy' = busy
  BY <1>5 DEF Submit, server
<1>6. ASSUME NEW p \in Page, NEW i \in Slot, ServerStep(p, i)
      PROVE Take(p, i) \/ busy' \in {busy, None}
  BY <1>6 DEF ServerStep, Refuse, Stamped, Unstamped, Listed, Bump, NoBump, server
<1>7. ASSUME NEW p \in Page, NEW i \in Slot, PageStep(p, i) \/ Lose(p, i) PROVE busy' = busy
  BY <1>7 DEF PageStep, Posted, Acted, Apply, LoadStamps, Paint, Decide, Lose, server
<1> QED BY <1>1, <1>2, <1>3, <1>4, <1>5, <1>6, <1>7 DEF Next

LEMMA HolderStep == ASSUME Base, [Next]_vars PROVE Holder'
<1> SUFFICES ASSUME NEW q \in Page, NEW j \in Slot, busy' = <<q, j>>
             PROVE  chains'[q][j].at = "held"
  BY DEF Holder
<1>1. busy' # None /\ busy' \notin Agent
  BY CommentsAssumption DEF Slot
<1>2. chains \in [Page -> [Slot -> Chain]]
  BY DEF Base, CommentsTypeOK
<1>3. ASSUME NEW p \in Page, NEW i \in Slot, Take(p, i) PROVE chains'[q][j].at = "held"
  <2>1. p = q /\ i = j
    BY <1>3 DEF Take, Write
  <2>2. chains[q][j] \in Chain /\ [chains[q][j] EXCEPT !.at = "held"] \in Chain
    <3>1. chains[q][j] \in Chain
      BY <1>2
    <3> QED BY <3>1 DEF Chain
  <2>3. chains'[q][j] = [chains[q][j] EXCEPT !.at = "held"]
    BY <1>2, <1>3, <2>1 DEF Take, Becomes
  <2> QED BY <2>2, <2>3 DEF Chain
<1>4. CASE busy' = busy
  <2>1. chains[q][j].at = "held"
    BY <1>4 DEF Base, Holder
  <2>2. ASSUME NEW p \in Page, NEW i \in Slot, NEW x \in Chain, Becomes(p, i, x),
               p # q \/ i # j
        PROVE  chains'[q][j].at = "held"
    BY <1>2, <2>1, <2>2, Becoming
  <2>3. ASSUME NEW x, Succ(q, j, x) PROVE FALSE
    BY <1>1, <2>1, <2>3, IdleParts DEF Succ, Ends, Polls, Asks, Holds, Returns, Lists, Loads
  <2>4. ASSUME NEW p \in Page, NEW i \in Slot, Moves(p, i) PROVE chains'[q][j].at = "held"
    BY <2>2, <2>3, <2>4 DEF Moves
  <2>5. ASSUME NEW p \in Page, NEW i \in Slot, Records(p, i) PROVE chains'[q][j].at = "held"
    BY <2>1, <2>2, <2>5, RecordsEffect
  <2> QED BY <2>1, <2>4, <2>5, StepShape
<1> QED BY <1>1, <1>3, <1>4, BusySteps

LEMMA BaseStep == ASSUME Base, [Next]_vars PROVE Base'
<1> USE DEF Base, CommentsTypeOK
<1>1. ServerMoves
  BY ServerEffect
<1>2. /\ log' \in Seq(SUBSET Comment) /\ DOMAIN log \subseteq DOMAIN log'
      /\ cu' \in Stamp /\ su' \in Stamp /\ busy' \in {None} \cup Agent \cup (Page \X Slot)
  BY <1>1 DEF ServerMoves, Grows, Marks, Stamp
<1>3. stamped' \in DOMAIN log'
  BY <1>1, <1>2, FileType DEF ServerMoves, Marks
<1>4. ASSUME NEW p \in Page, NEW i \in Slot, NEW x \in Chain, Becomes(p, i, x), Proper(x)'
      PROVE /\ chains' \in [Page -> [Slot -> Chain]]
            /\ \A q \in Page, j \in Slot : Proper(chains[q][j])'
  <2>1. /\ chains' \in [Page -> [Slot -> Chain]] /\ chains'[p][i] = x
        /\ \A q \in Page, j \in Slot : q # p \/ j # i => chains'[q][j] = chains[q][j]
    BY <1>4, Becoming
  <2>2. ASSUME NEW q \in Page, NEW j \in Slot PROVE Proper(chains[q][j])'
    <3>1. CASE q = p /\ j = i
      BY <1>4, <2>1, <3>1 DEF Proper
    <3>2. CASE q # p \/ j # i
      BY <1>1, <2>1, <3>2 DEF Proper, ServerMoves, Grows
    <3> QED BY <3>1, <3>2
  <2> QED BY <2>1, <2>2
<1>5. /\ chains' \in [Page -> [Slot -> Chain]]
      /\ \A q \in Page, j \in Slot : Proper(chains[q][j])'
  <2>1. CASE UNCHANGED <<chains, shown>>
    BY <1>1, <2>1 DEF Proper, ServerMoves, Grows
  <2>2. ASSUME NEW p \in Page, NEW i \in Slot, Moves(p, i)
        PROVE \E x \in Chain : Becomes(p, i, x) /\ Proper(x)'
    BY <1>1, <2>2, SuccProper DEF Moves, ServerMoves
  <2>3. ASSUME NEW p \in Page, NEW i \in Slot, Records(p, i)
        PROVE \E x \in Chain : Becomes(p, i, x) /\ Proper(x)'
    BY <2>3, OpAssumption, RecordsEffect DEF Proper, Op
  <2> QED BY <1>4, <2>1, <2>2, <2>3, StepShape
<1>6. /\ threads' \in [Page -> DOMAIN log'] /\ doubt' \in [Page -> BOOLEAN]
      /\ lastCmt' \in [Page -> Stamp] /\ lastSrc' \in [Page -> Stamp]
  <2>1. CASE UNCHANGED shown
    BY <1>2, <2>1 DEF shown
  <2>2. ASSUME NEW p \in Page, NEW i \in Slot, Records(p, i)
        PROVE /\ threads' \in [Page -> DOMAIN log'] /\ doubt' \in [Page -> BOOLEAN]
              /\ lastCmt' \in [Page -> Stamp] /\ lastSrc' \in [Page -> Stamp]
    BY <1>2, <2>2, RecordsEffect
  <2> QED BY <2>1, <2>2, StepShape DEF Moves
<1> QED BY <1>2, <1>3, <1>5, <1>6, CardTypeStep, HolderStep DEF CardType

(* The lists and stamps of pages and agents keep their types: what a page  *)
(* shows is a state comments.json was in. *)
THEOREM CommentsTypeCorrect == Spec => []CommentsTypeOK
<1>1. Base => CommentsTypeOK
  BY DEF Base
<1> QED BY <1>1, BaseInit, BaseStep, PTL DEF Spec

-----------------------------------------------------------------------------
(* What a page shows.  A page has seen the last stamp's write, or is in     *)
(* doubt; a load whose stamps are still the review's has it too; and a page *)
(* that recorded the stamp is about to show the list it announced.         *)
Seen(p) == doubt[p] \/ threads[p] >= stamped
Reading(c) == c.at = "list" \/ (c.at = "listed" /\ c.list >= stamped)
Fits(p, c) ==
    /\ c.cu <= cu
    /\ c.at = "listed" /\ c.load /\ c.cu = cu => c.list >= stamped
    /\ c.at = "load" /\ c.cu = cu => Seen(p)
    /\ c.at = "paint" /\ c.cu = cu /\ ~c.crossed => Seen(p)
PageFits(p) ==
    /\ \A i \in Slot : Fits(p, chains[p][i])
    /\ lastCmt[p] <= cu
    /\ lastCmt[p] = cu => Seen(p) \/ \E i \in Slot : Reading(chains[p][i])
ThreadsInv == Base /\ (cu = 0 => stamped = 1) /\ \A p \in Page : PageFits(p)

LEMMA Numbers ==
    ASSUME Base, NEW p \in Page, NEW i \in Slot
    PROVE  /\ chains[p][i] \in Chain /\ chains[p][i].cu \in Nat /\ chains[p][i].list \in Nat
           /\ cu \in Nat /\ su \in Nat /\ lastCmt[p] \in Nat
           /\ Len(log) \in Nat /\ stamped \in 1..Len(log) /\ threads[p] \in 1..Len(log)
<1>1. chains[p][i] \in Chain
  BY DEF Base, CommentsTypeOK
<1>2. chains[p][i].cu \in Nat /\ chains[p][i].list \in Nat
  BY <1>1 DEF Chain, Stamp
<1>3. cu \in Nat /\ su \in Nat /\ lastCmt[p] \in Nat
  BY DEF Base, CommentsTypeOK, Stamp
<1>4. log \in Seq(SUBSET Comment) /\ stamped \in DOMAIN log /\ threads[p] \in DOMAIN log
  BY DEF Base, CommentsTypeOK
<1> QED BY <1>1, <1>2, <1>3, <1>4

\* Where the stamp does not move, what was seen stays so, and so on.
LEMMA FitsStays ==
    ASSUME Base, Base', Marks, NEW p \in Page, NEW c \in Chain,
           Seen(p) => Seen(p)' \/ ~UNCHANGED stamped, Fits(p, c)
    PROVE  Fits(p, c)'
<1>1. cu \in Nat /\ cu' \in Nat /\ c.cu \in Nat
  BY DEF Base, CommentsTypeOK, Stamp, Chain
<1>2. CASE UNCHANGED <<cu, stamped>>
  BY <1>2 DEF Fits
<1>3. CASE cu' = cu + 1
  BY <1>1, <1>3 DEF Fits
<1> QED BY <1>2, <1>3 DEF Marks

LEMMA SuccFits ==
    ASSUME ThreadsInv, Base', Marks, NEW p \in Page, NEW i \in Slot, NEW x \in Chain,
           Succ(p, i, x), UNCHANGED shown
    PROVE  Fits(p, x)' /\ (UNCHANGED <<cu, stamped>> /\ Reading(chains[p][i]) => Reading(x)')
<1> DEFINE c == chains[p][i]
<1>1. /\ c \in Chain /\ Fits(p, c) /\ cu \in Nat /\ cu' \in Nat /\ c.cu \in Nat /\ su \in Stamp
      /\ stamped \in Nat /\ Len(log) \in Nat /\ Len(log) >= stamped
  <2>1. Fits(p, c) /\ cu' \in Nat
    BY DEF ThreadsInv, PageFits, Base, CommentsTypeOK, Stamp
  <2> QED BY <2>1, Numbers DEF ThreadsInv, Stamp
<1>2. UNCHANGED <<cu, stamped>> => (Seen(p)' <=> Seen(p))
  BY DEF Seen, shown
<1>3. cu = 0 => Seen(p)
  BY Numbers DEF ThreadsInv, Seen
<1>4. Succ(p, i, x) /\ cu \in Stamp /\ cu <= cu'
  BY <1>1 DEF Stamp, Marks
<1>5. CASE Ends(p, i, x)
  <2>1. x.cu = 0 /\ x.at \in {"idle", "list"} /\ c.at # "list" /\ c.at # "listed"
    BY <1>1, <1>4, <1>5, SuccParts DEF Ends
  <2> QED BY <1>1, <2>1 DEF Fits, Reading
<1>6. CASE Asks(p, i, x)
  <2>1. x.cu = 0 /\ x.at = "sent" /\ c.at = "idle"
    BY <1>1, <1>4, <1>6, SuccParts, IdleParts DEF Asks
  <2> QED BY <1>1, <2>1 DEF Fits, Reading
<1>7. CASE Polls(p, i, x)
  <2>1. x.cu = cu /\ x.at = "polled" /\ c.at = "idle"
    BY <1>1, <1>4, <1>7, SuccParts, IdleParts DEF Polls
  <2> QED BY <1>1, <1>4, <2>1 DEF Fits, Reading
<1>8. CASE Holds(p, i, x) \/ Returns(p, i, x)
  <2>1. x.cu = c.cu /\ x.at \in {"held", "answer"}
    BY <1>1, <1>8, SuccParts
  <2>2. c.at \in {"sent", "held", "answer"}
    BY <1>8 DEF Holds, Returns
  <2> QED BY <1>1, <1>4, <2>1, <2>2 DEF Fits, Reading
<1>9. CASE Lists(p, i, x)
  <2>1. /\ x.at = "listed" /\ x.list = Len(log) /\ x.load = c.load
        /\ x.cu = (IF c.load THEN cu ELSE 0)
    BY <1>1, <1>9, SuccParts
  <2>2. cu' = cu /\ stamped' = stamped
    BY <1>9 DEF Lists
  <2> QED BY <1>1, <2>1, <2>2 DEF Fits, Reading
<1>10. CASE Loads(p, i, x)
  <2>1. x.at = "paint" /\ (x.cu = 0 \/ (x.cu = cu /\ (~x.crossed => c.cu = cu)))
    BY <1>1, <1>10, SuccParts
  <2>2. /\ x.at = "paint"
        /\ x.cu = 0 \/ (x.cu = cu /\ (~x.crossed => c.cu = cu))
        /\ c.at = "load" /\ cu' = cu /\ stamped' = stamped
    BY <1>10, <2>1 DEF Loads
  <2>3. x.cu = cu /\ ~x.crossed => Seen(p)
    BY <1>1, <1>3, <2>2 DEF Fits
  <2>4. x.cu = cu' /\ ~x.crossed => Seen(p)'
    BY <1>2, <2>2, <2>3
  <2>5. x.cu <= cu' /\ ~Reading(c)
    BY <1>1, <2>2 DEF Reading
  <2>6. Fits(p, x)'
    BY <2>2, <2>4, <2>5 DEF Fits
  <2> QED BY <2>5, <2>6
<1> QED BY <1>4, <1>5, <1>6, <1>7, <1>8, <1>9, <1>10 DEF Succ

\* A chain x of page p takes the place of one: what is left to show.
LEMMA PagesFit ==
    ASSUME ThreadsInv, Base', Marks, NEW p \in Page, NEW i \in Slot, NEW x \in Chain,
           Becomes(p, i, x), Fits(p, x)',
           \A q \in Page : Seen(q) => Seen(q)' \/ ~UNCHANGED stamped,
           \A q \in Page : q # p => lastCmt'[q] = lastCmt[q],
           lastCmt'[p] <= cu',
           lastCmt'[p] = cu' => \/ Seen(p)' \/ Reading(x)'
                                \/ \E j \in Slot : j # i /\ Reading(chains[p][j])
                                                   /\ UNCHANGED <<cu, stamped>>
    PROVE  \A q \in Page : PageFits(q)'
<1>1. /\ chains' \in [Page -> [Slot -> Chain]] /\ chains'[p][i] = x
      /\ \A q \in Page, j \in Slot : q # p \/ j # i => chains'[q][j] = chains[q][j]
  BY Becoming DEF ThreadsInv, Base, CommentsTypeOK
<1>2. ASSUME NEW q \in Page, NEW j \in Slot PROVE Fits(q, chains[q][j])'
  <2>1. CASE q = p /\ j = i
    BY <1>1, <2>1 DEF Fits, Seen
  <2>2. CASE q # p \/ j # i
    <3>1. chains[q][j] \in Chain /\ Fits(q, chains[q][j])
      BY DEF ThreadsInv, Base, CommentsTypeOK, PageFits
    <3> DEFINE c == chains[q][j]
    <3>2. ASSUME NEW d \in Chain, Fits(q, d) PROVE Fits(q, d)'
      BY <3>2, FitsStays DEF ThreadsInv
    <3> QED BY <1>1, <2>2, <3>1, <3>2 DEF Fits
  <2> QED BY <2>1, <2>2
<1>3. ASSUME NEW q \in Page, q # p
      PROVE  /\ lastCmt'[q] <= cu'
             /\ lastCmt'[q] = cu' => Seen(q)' \/ \E j \in Slot : Reading(chains[q][j])'
  <2>1. lastCmt'[q] = lastCmt[q] /\ lastCmt[q] <= cu /\ lastCmt[q] \in Nat /\ cu \in Nat
    BY <1>3 DEF ThreadsInv, PageFits, Base, CommentsTypeOK, Stamp
  <2>2. CASE UNCHANGED <<cu, stamped>>
    <3>1. \A j \in Slot : Reading(chains[q][j]) => Reading(chains[q][j])'
      BY <1>1, <1>3, <2>2 DEF Reading
    <3> QED BY <2>1, <2>2, <3>1 DEF ThreadsInv, PageFits
  <2>3. CASE cu' = cu + 1
    BY <2>1, <2>3
  <2> QED BY <2>2, <2>3 DEF Marks
<1>4. lastCmt'[p] = cu' => Seen(p)' \/ \E j \in Slot : Reading(chains[p][j])'
  <2>1. Reading(x)' => Reading(chains[p][i])'
    BY <1>1 DEF Reading
  <2>2. \A j \in Slot : j # i /\ Reading(chains[p][j]) /\ UNCHANGED <<cu, stamped>>
                          => Reading(chains[p][j])'
    BY <1>1 DEF Reading
  <2> QED BY <2>1, <2>2
<1> QED BY <1>2, <1>3, <1>4 DEF PageFits

LEMMA StillFits ==
    ASSUME ThreadsInv, Base', Marks, UNCHANGED <<chains, shown>>
    PROVE  \A q \in Page : PageFits(q)'
<1> SUFFICES ASSUME NEW q \in Page PROVE PageFits(q)'
  OBVIOUS
<1>1. UNCHANGED stamped => (Seen(q) => Seen(q)')
  BY DEF Seen, shown
<1>2. ASSUME NEW j \in Slot PROVE Fits(q, chains[q][j])'
  <2>1. chains[q][j] \in Chain /\ Fits(q, chains[q][j]) /\ chains'[q][j] = chains[q][j]
    BY DEF ThreadsInv, Base, CommentsTypeOK, PageFits
  <2>2. ASSUME NEW d \in Chain, Fits(q, d) PROVE Fits(q, d)'
    BY <1>1, <2>2, FitsStays DEF ThreadsInv
  <2> QED BY <2>1, <2>2 DEF Fits
<1>3. lastCmt'[q] = lastCmt[q] /\ lastCmt[q] <= cu /\ lastCmt[q] \in Nat /\ cu \in Nat
  BY DEF ThreadsInv, PageFits, Base, CommentsTypeOK, Stamp, shown
<1>4. CASE UNCHANGED <<cu, stamped>>
  <2>1. \A j \in Slot : Reading(chains[q][j]) => Reading(chains[q][j])'
    BY <1>4 DEF Reading
  <2> QED BY <1>1, <1>2, <1>3, <1>4, <2>1 DEF ThreadsInv, PageFits
<1>5. CASE cu' = cu + 1
  BY <1>2, <1>3, <1>5 DEF PageFits
<1> QED BY <1>4, <1>5 DEF Marks

LEMMA MovesFit ==
    ASSUME ThreadsInv, Base', Marks, NEW p \in Page, NEW i \in Slot, Moves(p, i)
    PROVE  \A q \in Page : PageFits(q)'
<1> PICK x \in Chain : Becomes(p, i, x) /\ Succ(p, i, x)
  BY DEF Moves
<1>1. /\ Fits(p, x)' /\ (UNCHANGED <<cu, stamped>> /\ Reading(chains[p][i]) => Reading(x)')
  BY SuccFits DEF Moves
<1>2. \A q \in Page : /\ lastCmt'[q] = lastCmt[q]
                      /\ Seen(q) => Seen(q)' \/ ~UNCHANGED stamped
  BY DEF Moves, shown, Seen
<1>3. PageFits(p) /\ lastCmt[p] \in Nat /\ cu \in Nat
  BY DEF ThreadsInv, Base, CommentsTypeOK, Stamp
<1>4. lastCmt'[p] <= cu'
  BY <1>2, <1>3 DEF PageFits, Marks
<1>5. lastCmt'[p] = cu' => \/ Seen(p)' \/ Reading(x)'
                           \/ \E j \in Slot : j # i /\ Reading(chains[p][j])
                                              /\ UNCHANGED <<cu, stamped>>
  <2>1. SUFFICES ASSUME lastCmt'[p] = cu'
                 PROVE  \/ Seen(p)' \/ Reading(x)'
                        \/ \E j \in Slot : j # i /\ Reading(chains[p][j])
                                           /\ UNCHANGED <<cu, stamped>>
    OBVIOUS
  <2>2. UNCHANGED <<cu, stamped>> /\ lastCmt[p] = cu
    BY <1>2, <1>3, <2>1 DEF PageFits, Marks
  <2> QED BY <1>1, <1>2, <1>3, <2>2 DEF PageFits
<1> QED BY <1>1, <1>2, <1>4, <1>5, PagesFit

LEMMA RecordsFit ==
    ASSUME ThreadsInv, Base', NEW p \in Page, NEW i \in Slot, Records(p, i)
    PROVE  \A q \in Page : PageFits(q)'
<1> DEFINE c == chains[p][i]
           y == [Idle EXCEPT !.at = "load", !.cu = c.cu]
           z == [Idle EXCEPT !.at = "load"]
<1>1. /\ Base /\ c \in Chain /\ Fits(p, c) /\ PageFits(p)
      /\ cu \in Nat /\ c.cu \in Nat /\ stamped \in Nat /\ c.list \in Nat /\ lastCmt[p] \in Nat
  BY Numbers DEF ThreadsInv, PageFits
<1>2. UNCHANGED <<log, cu, stamped>> /\ Marks
  BY <1>1, RecordsEffect DEF server, Marks
<1>3. /\ threads \in [Page -> DOMAIN log] /\ doubt \in [Page -> BOOLEAN]
      /\ lastCmt \in [Page -> Stamp] /\ threads[p] \in Nat /\ Len(log) >= stamped
  <2>1. /\ threads \in [Page -> DOMAIN log] /\ doubt \in [Page -> BOOLEAN]
        /\ lastCmt \in [Page -> Stamp]
    BY <1>1 DEF Base, CommentsTypeOK
  <2> QED BY <1>1, <2>1, Numbers
<1>4. Idle \in Chain /\ List(TRUE) \in Chain /\ List(FALSE) \in Chain /\ y \in Chain /\ z \in Chain
  <2>1. c.cu \in Stamp /\ Idle \in Chain
    BY <1>1, IdleType DEF Stamp
  <2>2. y \in Chain
    BY <2>1 DEF Chain
  <2>3. z \in Chain
    BY <2>1 DEF Chain
  <2> QED BY <2>1, <2>2, <2>3, IdleType
<1>5. Fits(p, Idle)' /\ Fits(p, List(TRUE))' /\ Fits(p, List(FALSE))'
  BY <1>1, <1>2 DEF Idle, List, Fits
<1>6. lastCmt[p] = cu => \/ Seen(p) \/ Reading(c)
                         \/ \E j \in Slot : j # i /\ Reading(chains[p][j])
  BY <1>1 DEF PageFits
<1>7. CASE Apply(p, i)
  <2>1. /\ c.at = "listed" /\ threads' = [threads EXCEPT ![p] = c.list]
        /\ doubt' = [doubt EXCEPT ![p] = c.list < threads[p] \/ (@ /\ c.list # Len(log))]
        /\ UNCHANGED lastCmt
    BY <1>7 DEF Apply
  <2>2. \A q \in Page : q # p => (Seen(q) => Seen(q)')
    BY <1>2, <1>3, <2>1 DEF Seen
  <2>3. /\ threads'[p] = c.list
        /\ doubt'[p] <=> c.list < threads[p] \/ (doubt[p] /\ c.list # Len(log))
    BY <1>3, <2>1
  <2>4. Seen(p) => Seen(p)'
    BY <1>1, <1>2, <1>3, <2>3 DEF Seen
  <2>5. c.list >= stamped => Seen(p)'
    BY <1>1, <1>2, <2>3 DEF Seen
  <2>6. ASSUME NEW x \in Chain, x = y, c.load PROVE Fits(p, x)'
    <3>1. x.cu = c.cu /\ x.at = "load"
      BY <2>6 DEF Idle
    <3> QED BY <1>1, <1>2, <2>1, <2>5, <2>6, <3>1 DEF Fits
  <2>7. Reading(c) => Seen(p)'
    BY <2>1, <2>5 DEF Reading
  <2>8. lastCmt'[p] <= cu' /\ (lastCmt'[p] = cu' => \/ Seen(p)'
                         \/ \E j \in Slot : j # i /\ Reading(chains[p][j]))
    BY <1>1, <1>2, <1>6, <2>1, <2>4, <2>7 DEF PageFits
  <2>9. CASE Becomes(p, i, Idle)
    BY <1>2, <1>4, <1>5, <2>1, <2>2, <2>4, <2>8, <2>9, PagesFit
  <2>10. CASE c.load /\ Becomes(p, i, y)
    <3> PICK x \in Chain : x = y /\ Becomes(p, i, x)
      BY <1>4, <2>10
    <3>1. Fits(p, x)'
      BY <2>6, <2>10
    <3> QED BY <1>2, <2>1, <2>2, <2>4, <2>8, <3>1, PagesFit
  <2> QED BY <1>7, <2>9, <2>10 DEF Apply
<1>8. CASE LoseList(p, i)
  <2>1. doubt' = [doubt EXCEPT ![p] = TRUE] /\ UNCHANGED <<threads, lastCmt>>
        /\ (Becomes(p, i, Idle) \/ Becomes(p, i, z))
    BY <1>8 DEF LoseList, Lose
  <2>2. \A q \in Page : Seen(q) => Seen(q)'
    BY <1>2, <1>3, <2>1 DEF Seen
  <2>3. Seen(p)'
    BY <1>3, <2>1 DEF Seen
  <2>4. Fits(p, z)'
    <3>1. z.cu = 0 /\ z.at = "load"
      BY DEF Idle
    <3> QED BY <1>1, <1>2, <2>3, <3>1 DEF Fits
  <2>5. lastCmt'[p] <= cu'
    BY <1>1, <1>2, <2>1 DEF PageFits
  <2> QED BY <1>2, <1>4, <1>5, <2>1, <2>2, <2>3, <2>4, <2>5, PagesFit
<1>9. CASE Paint(p, i)
  <2>1. /\ c.at = "paint" /\ lastCmt' = [lastCmt EXCEPT ![p] = c.cu] /\ UNCHANGED threads
        /\ doubt' = [doubt EXCEPT ![p] = @ \/ c.crossed] /\ Becomes(p, i, Idle)
    BY <1>9 DEF Paint
  <2>2. \A q \in Page : Seen(q) => Seen(q)'
    BY <1>2, <1>3, <2>1 DEF Seen
  <2>3. c.crossed => Seen(p)'
    BY <1>3, <2>1 DEF Seen
  <2>4. lastCmt'[p] = c.cu /\ \A q \in Page : q # p => lastCmt'[q] = lastCmt[q]
    BY <1>3, <2>1
  <2>5. lastCmt'[p] <= cu' /\ (lastCmt'[p] = cu' => Seen(p)')
    BY <1>1, <1>2, <2>1, <2>2, <2>3, <2>4 DEF Fits
  <2> QED BY <1>2, <1>4, <1>5, <2>1, <2>2, <2>4, <2>5, PagesFit
<1>10. CASE Decide(p, i)
  <2>1. c.at = "polled" /\ UNCHANGED <<threads, doubt>>
    BY <1>10 DEF Decide
  <2>2. \A q \in Page : Seen(q) => Seen(q)'
    BY <1>2, <2>1 DEF Seen
  <2>3. ~Reading(c)
    BY <2>1 DEF Reading
  <2>4. CASE UNCHANGED lastCmt /\ (Becomes(p, i, Idle) \/ Becomes(p, i, List(TRUE)))
    <3>1. lastCmt'[p] <= cu' /\ (lastCmt'[p] = cu' => \/ Seen(p)'
                         \/ \E j \in Slot : j # i /\ Reading(chains[p][j]))
      BY <1>1, <1>2, <1>6, <2>2, <2>3, <2>4 DEF PageFits
    <3> QED BY <1>2, <1>4, <1>5, <2>2, <2>4, <3>1, PagesFit
  <2>5. CASE lastCmt' = [lastCmt EXCEPT ![p] = c.cu] /\ Becomes(p, i, List(FALSE))
    <3>1. Reading(List(FALSE))'
      BY DEF Reading, List, Idle
    <3>2. lastCmt'[p] <= cu' /\ \A q \in Page : q # p => lastCmt'[q] = lastCmt[q]
      BY <1>1, <1>2, <1>3, <2>5 DEF Fits
    <3> QED BY <1>2, <1>4, <1>5, <2>2, <2>5, <3>1, <3>2, PagesFit
  <2> QED BY <1>10, <2>4, <2>5 DEF Decide
<1> QED BY <1>7, <1>8, <1>9, <1>10 DEF Records

LEMMA ThreadsStep == ASSUME ThreadsInv, [Next]_vars PROVE ThreadsInv'
<1>1. Base' /\ Marks
  BY BaseStep, ServerEffect DEF ThreadsInv, ServerMoves
<1>2. \A q \in Page : PageFits(q)'
  BY <1>1, StepShape, StillFits, MovesFit, RecordsFit DEF ThreadsInv
<1>3. cu' = 0 => stamped' = 1
  BY <1>1 DEF ThreadsInv, Marks, Base, CommentsTypeOK, Stamp
<1> QED BY <1>1, <1>2, <1>3 DEF ThreadsInv

(* A page at rest with the review's stamp shows every write that stamp     *)
(* announced, for any number of pages, chains and faults, unless it is in  *)
(* doubt (viewer.html, poll, load and fetchComments).                      *)
THEOREM ThreadsAreCurrent == Spec => []ThreadsCurrent
<1>1. Init => ThreadsInv
  <2> SUFFICES ASSUME Init PROVE ThreadsInv
    OBVIOUS
  <2>1. Base
    BY BaseInit
  <2>2. ASSUME NEW p \in Page PROVE PageFits(p)
    <3>1. Seen(p) /\ lastCmt[p] = 0 /\ cu = 0
      BY DEF Init, Seen
    <3>2. \A i \in Slot : chains[p][i] = Idle
      BY DEF Init
    <3>3. Fits(p, Idle)
      BY <3>1 DEF Fits, Idle
    <3> QED BY <3>1, <3>2, <3>3 DEF PageFits
  <2> QED BY <2>1, <2>2 DEF Init, ThreadsInv
<1>2. ThreadsInv => ThreadsCurrent
  <2> SUFFICES ASSUME ThreadsInv, NEW p \in Page, AtRest(p), lastCmt[p] = cu, ~doubt[p]
               PROVE threads[p] >= stamped
    BY DEF ThreadsCurrent
  <2>1. \A i \in Slot : ~Reading(chains[p][i])
    BY DEF AtRest, Reading, Idle
  <2> QED BY <2>1 DEF ThreadsInv, PageFits, Seen
<1> QED BY <1>1, <1>2, ThreadsStep, PTL DEF Spec

-----------------------------------------------------------------------------
(* What becomes of a comment.  One that was submitted alone is filed, or    *)
(* its card is there, and then every post of its page is of it.            *)
Answers(c) ==
    c.op = "create" /\ (c.at = "held" \/ (c.at = "answer" /\ c.code = 200)) => Filed(c.arg)
Own(p) ==
    pending[p].draft \in Draft \ mixed =>
        \A i \in Slot : chains[p][i].op = "create" => chains[p][i].arg = pending[p].draft
Saved(d) ==
    draft[d] = "submitted" => Filed(d) \/ \E p \in Page : pending[p].draft = d
KeptInv ==
    /\ Base
    /\ \A p \in Page : Own(p) /\ \A i \in Slot : Answers(chains[p][i])
    /\ \A d \in Draft \ mixed : Saved(d)

\* A post under way was under way before, or is what the card now shows; and an
\* answer of success is to a post that is filed.
LEMMA SuccPosts ==
    ASSUME Base, Grows, NEW p \in Page, NEW i \in Slot, NEW x \in Chain,
           Succ(p, i, x), x.op = "create"
    PROVE  /\ \/ chains[p][i].op = "create" /\ x.arg = chains[p][i].arg
              \/ x.arg = pending'[p].draft
           /\ Answers(chains[p][i]) => Answers(x)'
<1> DEFINE c == chains[p][i]
<1>1. c \in Chain /\ Succ(p, i, x) /\ cu \in Stamp /\ su \in Stamp
  BY DEF Base, CommentsTypeOK
<1>2. \A d : FiledNext(d) => Filed(d)'
  BY DEF FiledNext, Filed
<1>3. \A d : Filed(d) => Filed(d)'
  <2> SUFFICES ASSUME NEW d, Filed(d) PROVE Filed(d)'
    OBVIOUS
  <2> QED BY FiledStays
<1>4. CASE Asks(p, i, x)
  <2>1. x.arg = pending'[p].draft /\ x.at = "sent"
    BY <1>1, <1>4, SuccParts
  <2> QED BY <2>1 DEF Answers
<1>5. CASE Holds(p, i, x)
  <2>1. x.op = c.op /\ x.arg = c.arg /\ (c.op = "create" => FiledNext(c.arg))
    BY <1>1, <1>5, SuccParts DEF Holds
  <2>2. Filed(x.arg)'
    BY <1>2, <2>1
  <2> QED BY <2>1, <2>2 DEF Answers
<1>6. CASE Returns(p, i, x)
  <2>1. x.op = c.op /\ x.arg = c.arg /\ x.at = "answer" /\ (x.code = 200 => c.at = "held")
    BY <1>1, <1>6, SuccParts
  <2>2. Answers(c) /\ x.code = 200 => Filed(x.arg)
    BY <2>1 DEF Answers
  <2>3. Answers(c) /\ x.code = 200 => Filed(x.arg)'
    BY <1>3, <2>2
  <2> QED BY <2>1, <2>3 DEF Answers
<1>7. CASE Lists(p, i, x) \/ Loads(p, i, x)
  <2>1. x.op = c.op /\ x.arg = c.arg /\ x.at \in {"listed", "paint"}
    BY <1>1, <1>7, SuccParts
  <2> QED BY <2>1 DEF Answers
<1>8. ~Ends(p, i, x) /\ ~Polls(p, i, x)
  BY <1>1, OpAssumption, SuccParts DEF Op
<1> QED BY <1>1, <1>4, <1>5, <1>6, <1>7, <1>8 DEF Succ

LEMMA Posts ==
    ASSUME KeptInv, [Next]_vars, NEW q \in Page, NEW j \in Slot, chains'[q][j].op = "create"
    PROVE  /\ \/ chains[q][j].op = "create" /\ chains'[q][j].arg = chains[q][j].arg
              \/ chains'[q][j].arg = pending'[q].draft
           /\ Answers(chains[q][j])'
<1>1. Base /\ Grows /\ Answers(chains[q][j])
  BY ServerEffect DEF KeptInv, ServerMoves
<1>2. CASE chains'[q][j] = chains[q][j]
  <2>1. Filed(chains[q][j].arg) => Filed(chains[q][j].arg)'
    <3>1. ASSUME NEW d, Filed(d) PROVE Filed(d)'
      BY <1>1, <3>1, FiledStays
    <3> QED BY <1>2, <3>1 DEF Filed
  <2> QED BY <1>1, <1>2, <2>1 DEF Answers
<1>3. ASSUME NEW p \in Page, NEW i \in Slot, NEW x \in Chain, Becomes(p, i, x),
             chains'[q][j] # chains[q][j]
      PROVE  p = q /\ i = j /\ chains'[q][j] = x
  BY <1>1, <1>3, Becoming DEF Base, CommentsTypeOK
<1>4. ASSUME NEW p \in Page, NEW i \in Slot, Moves(p, i), chains'[q][j] # chains[q][j]
      PROVE  /\ \/ chains[q][j].op = "create" /\ chains'[q][j].arg = chains[q][j].arg
                \/ chains'[q][j].arg = pending'[q].draft
             /\ Answers(chains[q][j])'
  <2> PICK x \in Chain : Becomes(p, i, x) /\ Succ(p, i, x)
    BY <1>4 DEF Moves
  <2>1. p = q /\ i = j /\ chains'[q][j] = x
    BY <1>3, <1>4
  <2>2. /\ \/ chains[q][j].op = "create" /\ x.arg = chains[q][j].arg
           \/ x.arg = pending'[q].draft
        /\ Answers(x)'
    BY <1>1, <2>1, SuccPosts
  <2> QED BY <2>1, <2>2 DEF Answers
<1>5. ASSUME NEW p \in Page, NEW i \in Slot, Records(p, i), chains'[q][j] # chains[q][j]
      PROVE  FALSE
  <2>1. PICK x \in Chain : Becomes(p, i, x) /\ x.op = None
    BY <1>1, <1>5, RecordsEffect
  <2>2. chains'[q][j] = x
    BY <1>3, <1>5, <2>1
  <2> QED BY <2>1, <2>2, OpAssumption DEF Op
<1> QED BY <1>1, <1>2, <1>4, <1>5, StepShape

LEMMA OwnStep ==
    ASSUME KeptInv, [Next]_vars, NEW q \in Page PROVE Own(q)'
<1> SUFFICES ASSUME pending'[q].draft \in Draft \ mixed', NEW j \in Slot,
                    chains'[q][j].op = "create", chains[q][j].op = "create",
                    chains'[q][j].arg = chains[q][j].arg
             PROVE  chains[q][j].arg = pending'[q].draft
  BY Posts DEF Own
<1>1. Base /\ Own(q) /\ CardType /\ chains[q][j].arg \in Draft
  BY DEF KeptInv, Base, CommentsTypeOK, CardType, Proper
<1>2. CASE pending'[q].draft = pending[q].draft /\ mixed \subseteq mixed'
  BY <1>1, <1>2 DEF Own
<1>3. ASSUME NEW p \in Page, Retry(p)
      PROVE pending'[q].draft = pending[q].draft /\ mixed' = mixed
  BY <1>1, <1>3 DEF Retry, CardType
<1>4. ASSUME NEW p \in Page, Discard(p)
      PROVE pending'[q].draft = pending[q].draft /\ mixed' = mixed
  BY <1>1, <1>4, CommentsAssumption DEF Discard, CardType, NoPost
<1>5. ASSUME NEW p \in Page, NEW i \in Slot, Posted(p, i)
      PROVE pending'[q].draft = pending[q].draft /\ mixed' = mixed
  <2>1. pending' = [pending EXCEPT ![p] = AfterPost(pending[p], chains[p][i].code)]
        /\ UNCHANGED mixed
    BY <1>5 DEF Posted
  <2>2. AfterPost(pending[p], chains[p][i].code).draft \in {None, pending[p].draft}
    BY <1>1 DEF AfterPost, NoPost, CardType
  <2> QED BY <1>1, <2>1, <2>2, CommentsAssumption DEF CardType
<1>6. ASSUME NEW p \in Page, NEW d \in Draft, Submit(p, d)
      PROVE pending'[q].draft = pending[q].draft /\ mixed \subseteq mixed'
  <2>1. CASE p = q
    <3> DEFINE others == {e \in Draft : e = pending[p].draft \/ InFlight(p, e)}
    <3>1. InFlight(p, chains[q][j].arg)
      BY <2>1 DEF InFlight
    <3>2. others # {}
      BY <1>1, <3>1
    <3>3. mixed' = mixed \cup others \cup {d} /\ pending'[q].draft = d
      BY <1>1, <1>6, <2>1, <3>2 DEF Submit, CardType
    <3> QED BY <3>3
  <2>2. CASE p # q
    BY <1>1, <1>6, <2>2 DEF Submit, CardType
  <2> QED BY <2>1, <2>2
<1> QED BY <1>1, <1>2, <1>3, <1>4, <1>5, <1>6, CardSteps

LEMMA SavedStep ==
    ASSUME KeptInv, [Next]_vars, NEW d \in Draft \ mixed' PROVE Saved(d)'
<1>1. Base /\ CardType /\ Grows
  BY ServerEffect DEF KeptInv, Base, CommentsTypeOK, CardType, ServerMoves
<1>2. Filed(d) => Filed(d)'
  BY <1>1, FiledStays
<1>3. mixed \subseteq mixed'
  BY CardSteps DEF Retry, Discard, Submit, Posted
<1>4. Saved(d)
  BY <1>3 DEF KeptInv
<1> SUFFICES ASSUME draft'[d] = "submitted", ~Filed(d)'
             PROVE  \E q \in Page : pending'[q].draft = d
  BY DEF Saved
<1>5. CASE UNCHANGED <<pending, draft>>
  BY <1>2, <1>4, <1>5 DEF Saved
<1>6. ASSUME NEW p \in Page, Retry(p) PROVE \E q \in Page : pending'[q].draft = d
  <2>1. draft' = draft /\ \A q \in Page : pending'[q].draft = pending[q].draft
    BY <1>1, <1>6 DEF Retry, CardType
  <2> QED BY <1>2, <1>4, <2>1 DEF Saved
<1>7. ASSUME NEW p \in Page, Discard(p) PROVE \E q \in Page : pending'[q].draft = d
  <2>1. d # pending[p].draft /\ draft[d] = "submitted"
    BY <1>1, <1>7 DEF Discard, CardType
  <2>2. \A q \in Page : q # p => pending'[q] = pending[q]
    BY <1>1, <1>7 DEF Discard, CardType
  <2> QED BY <1>2, <1>4, <2>1, <2>2 DEF Saved
<1>8. ASSUME NEW p \in Page, NEW e \in Draft, Submit(p, e)
      PROVE \E q \in Page : pending'[q].draft = d
  <2>1. pending'[p].draft = e /\ \A q \in Page : q # p => pending'[q] = pending[q]
    BY <1>1, <1>8 DEF Submit, CardType
  <2>2. CASE d # e
    <3>1. draft[d] = "submitted"
      BY <1>1, <1>8, <2>2 DEF Submit, CardType
    <3>2. d # pending[p].draft
      BY <1>1, <1>8 DEF Submit
    <3> QED BY <1>2, <1>4, <2>1, <3>1, <3>2 DEF Saved
  <2> QED BY <2>1, <2>2
<1>9. ASSUME NEW p \in Page, NEW i \in Slot, Posted(p, i)
      PROVE \E q \in Page : pending'[q].draft = d
  <2> DEFINE c == chains[p][i]
  <2>1. /\ pending' = [pending EXCEPT ![p] = AfterPost(pending[p], c.code)]
        /\ draft' = draft /\ mixed' = mixed /\ c.at = "answer" /\ c.op = "create"
    BY <1>9 DEF Posted
  <2>2. PICK q \in Page : pending[q].draft = d
    BY <1>2, <1>4, <2>1 DEF Saved
  <2>3. CASE q # p
    BY <1>1, <2>1, <2>2, <2>3 DEF CardType
  <2>4. CASE q = p
    <3>1. c.arg = d /\ (c.code = 200 => Filed(c.arg))
      BY <2>1, <2>2, <2>4 DEF KeptInv, Own, Answers
    <3>2. c.code # 200
      BY <1>2, <3>1
    <3>3. pending[p] # NoPost
      BY <2>2, <2>4, CommentsAssumption DEF NoPost
    <3>4. AfterPost(pending[p], c.code).draft = d
      BY <1>1, <2>2, <2>4, <3>2, <3>3 DEF AfterPost, CardType
    <3> QED BY <1>1, <2>1, <3>4 DEF CardType
  <2> QED BY <2>3, <2>4
<1> QED BY <1>5, <1>6, <1>7, <1>8, <1>9, CardSteps

(* A comment that no other one of its page was submitted beside is filed,  *)
(* or on the card that offers to retry it, until it is discarded: for any  *)
(* number of lost answers, retries, double clicks and failed stamps        *)
(* (viewer.html, submitPendingPost).                                       *)
THEOREM TextStaysKept == Spec => []TextKeptAlone
<1>1. Init => KeptInv
  <2> SUFFICES ASSUME Init PROVE KeptInv
    OBVIOUS
  <2>1. \A p \in Page, i \in Slot : chains[p][i] = Idle
    BY DEF Init
  <2>2. Idle.op # "create"
    BY IdleParts, OpAssumption DEF Op
  <2> QED BY <2>1, <2>2, BaseInit DEF Init, KeptInv, Own, Answers, Saved
<1>2. KeptInv /\ [Next]_vars => KeptInv'
  <2> SUFFICES ASSUME KeptInv, [Next]_vars PROVE KeptInv'
    OBVIOUS
  <2>1. Base'
    BY BaseStep DEF KeptInv
  <2>2. ASSUME NEW q \in Page, NEW j \in Slot PROVE Answers(chains[q][j])'
    BY Posts DEF Answers
  <2> QED BY <2>1, <2>2, OwnStep, SavedStep DEF KeptInv
<1>3. KeptInv => TextKeptAlone
  BY DEF KeptInv, Saved, TextKeptAlone, Kept
<1> QED BY <1>1, <1>2, <1>3, PTL DEF Spec
=============================================================================
