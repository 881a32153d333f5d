---------------------------- MODULE ChecksProofs ----------------------------
(***************************************************************************)
(* For any number of faults, and whatever the server, the page and Chrome  *)
(* do: a check script that ends with exit code 0 ran to its end and no     *)
(* check of it failed, or its Chrome died under a script whose main()      *)
(* leaves an awaited answer to an event loop that runs dry.  And its state *)
(* is well-typed, as every step of the nine tables asks for something that *)
(* is there.                                                               *)
(***************************************************************************)
EXTENDS Checks, TLAPS

(* No script ends with 0 on an error, without a page, or by its timer. *)
LEMMA EndingType ==
    ASSUME NEW s \in Script
    PROVE  /\ Ending[s].thrown \in {1, 2} /\ Ending[s].noTarget \in {1, 2}
           /\ Ending[s].abort = 1
           /\ Ending[s].drained \in {0, 1, 13} /\ Ending[s].timer \in {0, 1, 2}
<1>1. s \in DOMAIN Program
  BY ScriptAssumption DEF Scripts
<1>2. s \in {"loading", "account", "name", "undo", "history", "mint", "viewonly", "addressed", "shot"}
  BY <1>1 DEF Program
<1>3. CASE s \in {"loading", "undo", "history", "mint", "viewonly"}
  <2>1. Ending[s] = MainCatch(0) \/ Ending[s] = MainCatch(2)
    BY <1>3 DEF Ending
  <2> QED BY <2>1 DEF MainCatch
<1>4. CASE s \in {"account", "name"}
  <2>1. Ending[s] = TopLevel
    BY <1>4 DEF Ending
  <2> QED BY <2>1 DEF TopLevel
<1>5. CASE s = "addressed"
  <2>1. Ending[s] = [TopLevel EXCEPT !.timer = 0, !.reaps = {"thrown", "abort"}]
    BY <1>5 DEF Ending
  <2> QED BY <2>1 DEF TopLevel
<1>6. CASE s = "shot"
  <2>1. Ending[s] = [TopLevel EXCEPT !.timer = 1, !.drained = 1, !.noTarget = 1]
    BY <1>6 DEF Ending
  <2> QED BY <2>1 DEF TopLevel
<1> QED BY <1>2, <1>3, <1>4, <1>5, <1>6

(* A script that has ended does nothing more, and one that runs ends in    *)
(* one of six ways.                                                        *)
LEMMA Ends ==
    ASSUME [Next]_vars
    PROVE  \/ UNCHANGED vars
           \/ code = Running /\ UNCHANGED <<code, script>>
           \/ code = Running /\ \E how : Exit(how, Ending[script].thrown)
           \/ code = Running /\ \E how : Exit(how, Ending[script].noTarget)
           \/ code = Running /\ \E how : Exit(how, Ending[script].abort)
           \/ Finish \/ Drained \/ TimerFires
<1>1. CASE NoTarget
  BY <1>1 DEF NoTarget, At
<1>2. CASE ClickThrows \/ LetThrows \/ ButtonMissing \/ LoginRefused \/ FetchFails
  BY <1>2 DEF ClickThrows, LetThrows, ButtonMissing, LoginRefused, FetchFails, Throw, Turn, At
<1>3. CASE DoMust
  BY <1>3 DEF DoMust, Looks, Turn, At, Advance
<1>4. CASE DoConnect \/ DoOpen \/ DoCookie \/ DoClick \/ DoUi \/ DoSee
  BY <1>4 DEF DoConnect, DoOpen, DoCookie, DoClick, DoUi, DoSee, Looks, Turn, At, Advance
<1>5. CASE DoPost \/ DoApi \/ DoCompiled \/ CompiledGivesUp \/ DoLogin \/ DoArm
  BY <1>5 DEF DoPost, DoApi, DoCompiled, CompiledGivesUp, DoLogin, DoArm, Turn, At, Advance
<1>6. CASE DoHeld \/ HeldGivesUp \/ DoLet \/ DoAgain \/ DoDiscard
  BY <1>6 DEF DoHeld, HeldGivesUp, DoLet, DoAgain, DoDiscard, Turn, At, Advance
<1>7. CASE PageStep \/ CompileEnds
  BY <1>7 DEF PageStep, Pause, Answer, PageRetries, PagePolls, CompileEnds, Alive
<1>8. ASSUME NEW how, ChromeFails(how) PROVE code = Running /\ UNCHANGED <<code, script>>
  BY <1>8 DEF ChromeFails, Alive
<1> QED BY <1>1, <1>2, <1>3, <1>4, <1>5, <1>6, <1>7, <1>8 DEF Next, ScriptStep, Fault

-----------------------------------------------------------------------------
(* The tables are well formed: each step asks for something that is there, *)
(* on the page, at the server or among the requests.                       *)

WellFormed ==
    [op : {"connect", "open", "held", "let", "again", "discard"}, how : {"-", "go", "fail"},
     key : {"-"}, val : Int]
    \cup [op : {"cookie", "api", "compiled"}, how : {"-"}, key : ServerKey, val : Int]
    \cup [op : {"click", "post", "login"}, how : {"none", "add", "set", "flip"},
          key : ServerKey, val : Int]
    \cup [op : {"ui"}, how : {"-"}, key : Key, val : Int]
    \cup [op : {"see", "ready", "must"}, how : {"-"}, key : Key \cup {"busy", "refused"}, val : Int]
    \cup [op : {"arm"}, how : {"-"}, key : {"load", "act", "poll", "nothing"}, val : Int]

LEMMA StepsWellFormed ==
    /\ {Connect, Open, Disarm, Held, Take, Release, ReleaseOne, Refuse, Again, Discard}
          \subseteq WellFormed
    /\ \A v \in Int : Cookie(v) \in WellFormed /\ Stub(v) \in WellFormed /\ Compiled(v) \in WellFormed
    /\ \A h \in {"none", "add", "set", "flip"}, k \in ServerKey, v \in Int :
          Click(h, k, v) \in WellFormed /\ Post(h, k, v) \in WellFormed
    /\ \A k \in ServerKey, v \in Int : Api(k, v) \in WellFormed /\ Login(k) \in WellFormed
    /\ \A k \in Key, v \in Int : Ui(k, v) \in WellFormed
    /\ \A k \in Key \cup {"busy", "refused"}, v \in Int :
          See(k, v) \in WellFormed /\ Ready(k, v) \in WellFormed /\ Must(k, v) \in WellFormed
    /\ \A k \in {"load", "act", "poll"} : Arm(k) \in WellFormed
<1> USE DEF Step, WellFormed
<1>1. {Connect, Open, Disarm, Held, Take, Release, ReleaseOne, Refuse, Again, Discard} \subseteq WellFormed
  BY DEF Connect, Open, Disarm, Held, Take, Release, ReleaseOne, Refuse, Again, Discard
<1>2. \A v \in Int : Cookie(v) \in WellFormed /\ Stub(v) \in WellFormed /\ Compiled(v) \in WellFormed
  BY DEF Cookie, Stub, Compiled, ServerKey
<1>3. \A h \in {"none", "add", "set", "flip"}, k \in ServerKey, v \in Int :
        Click(h, k, v) \in WellFormed /\ Post(h, k, v) \in WellFormed
  BY DEF Click, Post
<1>4. \A k \in ServerKey, v \in Int : Api(k, v) \in WellFormed /\ Login(k) \in WellFormed
  BY DEF Api, Login
<1>5. \A k \in Key, v \in Int : Ui(k, v) \in WellFormed
  BY DEF Ui
<1>6. \A k \in Key \cup {"busy", "refused"}, v \in Int :
        See(k, v) \in WellFormed /\ Ready(k, v) \in WellFormed /\ Must(k, v) \in WellFormed
  BY DEF See, Ready, Must
<1>7. \A k \in {"load", "act", "poll"} : Arm(k) \in WellFormed
  BY DEF Arm
<1> QED BY <1>1, <1>2, <1>3, <1>4, <1>5, <1>6, <1>7

LEMMA LoadingTable == Program.loading \in Seq(WellFormed)
<1>1. <<Connect>> \in Seq(WellFormed)
  BY StepsWellFormed DEF ServerKey, LocalKey, Key
<1>2. LoadingEmpty \in Seq(WellFormed)
  BY StepsWellFormed DEF LoadingEmpty, ServerKey, LocalKey, Key
<1>3. LoadingSkeleton \in Seq(WellFormed)
  BY StepsWellFormed DEF LoadingSkeleton, ServerKey, LocalKey, Key
<1>4. LoadingUnreachable \in Seq(WellFormed)
  BY StepsWellFormed DEF LoadingUnreachable, ServerKey, LocalKey, Key
<1>5. LoadingNoResults \in Seq(WellFormed)
  BY StepsWellFormed DEF LoadingNoResults, ServerKey, LocalKey, Key
<1>6. LoadingPosting \in Seq(WellFormed)
  BY StepsWellFormed DEF LoadingPosting, ServerKey, LocalKey, Key
<1>7. LoadingDiscard \in Seq(WellFormed)
  BY StepsWellFormed DEF LoadingDiscard, ServerKey, LocalKey, Key
<1>8. LoadingLatexPosting \in Seq(WellFormed)
  BY StepsWellFormed DEF LoadingLatexPosting, ServerKey, LocalKey, Key
<1>9. LoadingCompiling \in Seq(WellFormed)
  BY StepsWellFormed DEF LoadingCompiling, ServerKey, LocalKey, Key
<1>10. LoadingCompileFailed \in Seq(WellFormed)
  BY StepsWellFormed DEF LoadingCompileFailed, ServerKey, LocalKey, Key
<1> QED BY <1>1, <1>2, <1>3, <1>4, <1>5, <1>6, <1>7, <1>8, <1>9, <1>10 DEF Program

LEMMA AccountTable == Program.account \in Seq(WellFormed)
<1>1. AccountLogins \in Seq(WellFormed)
  BY StepsWellFormed DEF AccountLogins, ServerKey, LocalKey, Key
<1>2. AccountFourStates \in Seq(WellFormed)
  BY StepsWellFormed DEF AccountFourStates, ServerKey, LocalKey, Key
<1>3. AccountTrigger \in Seq(WellFormed)
  BY StepsWellFormed DEF AccountTrigger, ServerKey, LocalKey, Key
<1>4. AccountFivePages \in Seq(WellFormed)
  BY StepsWellFormed DEF AccountFivePages, ServerKey, LocalKey, Key
<1>5. AccountSections \in Seq(WellFormed)
  BY StepsWellFormed DEF AccountSections, ServerKey, LocalKey, Key
<1>6. AccountMint \in Seq(WellFormed)
  BY StepsWellFormed DEF AccountMint, ServerKey, LocalKey, Key
<1>7. AccountRefusals \in Seq(WellFormed)
  BY StepsWellFormed DEF AccountRefusals, ServerKey, LocalKey, Key
<1>8. AccountDevices \in Seq(WellFormed)
  BY StepsWellFormed DEF AccountDevices, ServerKey, LocalKey, Key
<1>9. AccountAdvanced \in Seq(WellFormed)
  BY StepsWellFormed DEF AccountAdvanced, ServerKey, LocalKey, Key
<1>10. AccountMobile \in Seq(WellFormed)
  BY StepsWellFormed DEF AccountMobile, ServerKey, LocalKey, Key
<1>11. AccountDanger \in Seq(WellFormed)
  BY StepsWellFormed DEF AccountDanger, ServerKey, LocalKey, Key
<1> QED BY <1>1, <1>2, <1>3, <1>4, <1>5, <1>6, <1>7, <1>8, <1>9, <1>10, <1>11 DEF Program

LEMMA NameTable == Program.name \in Seq(WellFormed)
<1>1. NameRow \in Seq(WellFormed)
  BY StepsWellFormed DEF NameRow, ServerKey, LocalKey, Key
<1>2. NameLimit \in Seq(WellFormed)
  BY StepsWellFormed DEF NameLimit, ServerKey, LocalKey, Key
<1>3. NameMarkup \in Seq(WellFormed)
  BY StepsWellFormed DEF NameMarkup, ServerKey, LocalKey, Key
<1>4. NameRetroactive \in Seq(WellFormed)
  BY StepsWellFormed DEF NameRetroactive, ServerKey, LocalKey, Key
<1>5. NameUniversal \in Seq(WellFormed)
  BY StepsWellFormed DEF NameUniversal, ServerKey, LocalKey, Key
<1>6. NameMarkupLabel \in Seq(WellFormed)
  BY StepsWellFormed DEF NameMarkupLabel, ServerKey, LocalKey, Key
<1> QED BY <1>1, <1>2, <1>3, <1>4, <1>5, <1>6 DEF Program

LEMMA UndoTable == Program.undo \in Seq(WellFormed)
<1>1. UndoClick \in Seq(WellFormed)
  BY StepsWellFormed DEF UndoClick, ServerKey, LocalKey, Key
<1>2. UndoWindow \in Seq(WellFormed)
  BY StepsWellFormed DEF UndoWindow, ServerKey, LocalKey, Key
<1>3. UndoReload \in Seq(WellFormed)
  BY StepsWellFormed DEF UndoReload, ServerKey, LocalKey, Key
<1>4. UndoRace \in Seq(WellFormed)
  BY StepsWellFormed DEF UndoRace, ServerKey, LocalKey, Key
<1> QED BY <1>1, <1>2, <1>3, <1>4 DEF Program

LEMMA HistoryTable == Program.history \in Seq(WellFormed)
<1>1. HistoryCompare \in Seq(WellFormed)
  BY StepsWellFormed DEF HistoryCompare, ServerKey, LocalKey, Key
<1>2. HistorySwitch \in Seq(WellFormed)
  BY StepsWellFormed DEF HistorySwitch, ServerKey, LocalKey, Key
<1> QED BY <1>1, <1>2 DEF Program

LEMMA MintTable == Program.mint \in Seq(WellFormed)
<1>1. MintSetup \in Seq(WellFormed)
  BY StepsWellFormed DEF MintSetup, ServerKey, LocalKey, Key
<1>2. MintHeld \in Seq(WellFormed)
  BY StepsWellFormed DEF MintHeld, ServerKey, LocalKey, Key
<1>3. MintRefused \in Seq(WellFormed)
  BY StepsWellFormed DEF MintRefused, ServerKey, LocalKey, Key
<1> QED BY <1>1, <1>2, <1>3 DEF Program

LEMMA ViewonlyTable == Program.viewonly \in Seq(WellFormed)
<1>1. ViewOnly \in Seq(WellFormed)
  BY StepsWellFormed DEF ViewOnly, ServerKey, LocalKey, Key
<1> QED BY <1>1 DEF Program

LEMMA AddressedTable == Program.addressed \in Seq(WellFormed)
<1>1. Addressed \in Seq(WellFormed)
  BY StepsWellFormed DEF Addressed, ServerKey, LocalKey, Key
<1> QED BY <1>1 DEF Program

LEMMA ShotTable == Program.shot \in Seq(WellFormed)
<1>1. Shot \in Seq(WellFormed)
  BY StepsWellFormed DEF Shot, ServerKey, LocalKey, Key
<1> QED BY <1>1 DEF Program

LEMMA TablesWellFormed ==
    ASSUME NEW s \in Script
    PROVE  Program[s] \in Seq(WellFormed)
<1>1. s \in {"loading", "account", "name", "undo", "history", "mint", "viewonly", "addressed", "shot"}
  BY ScriptAssumption DEF Scripts, Program
<1> QED BY <1>1, LoadingTable, AccountTable, NameTable, UndoTable, HistoryTable, MintTable,
           ViewonlyTable, AddressedTable, ShotTable

-----------------------------------------------------------------------------
(* Every step keeps the types. *)

LEMMA NowIs ==
    ASSUME ChecksTypeOK, NEW op, At(op)
    PROVE  /\ pc + 1 \in 1..(Steps + 1) /\ Now \in WellFormed /\ Now.val \in Int
           /\ op \in {"cookie", "api", "compiled", "click", "post", "login"} => Now.key \in ServerKey
           /\ op \in {"click", "post", "login"} => Now.how \in {"none", "add", "set", "flip"}
           /\ op = "ui" => Now.key \in Key
           /\ op = "arm" => Now.key \in {"load", "act", "poll", "nothing"}
<1>1. Program[script] \in Seq(WellFormed)
  BY TablesWellFormed DEF ChecksTypeOK
<1>2. pc \in 1..Steps /\ Steps \in Nat /\ Now.op = op
  BY <1>1 DEF ChecksTypeOK, At, Steps
<1>3. Now \in WellFormed
  BY <1>1, <1>2 DEF Now, Steps
<1>4. pc + 1 \in 1..(Steps + 1)
  BY <1>2
<1> QED BY <1>2, <1>3, <1>4 DEF WellFormed

(* A step of the script goes on to the next one, unless it ends the run.   *)
ScriptTypes ==
    /\ script \in Script /\ pc \in 1..(Steps + 1) /\ code \in {Running, 0, 1, 2, 13}
    /\ chrome \in {"up", "wedged", "dead", "reaped"}
Counts == failed \in BOOLEAN /\ faults \in 0..MaxFaults
BrowserTypes ==
    /\ page \in [Key -> Int] /\ req \in Request
    /\ queue \in Seq({"live", "stale"}) /\ hand \in {"none", "live", "stale"}
ServerTypes == world \in [ServerKey -> Int] /\ filter \subseteq {"load", "act", "poll"}

LEMMA TypeParts ==
    ASSUME ScriptTypes', Counts', BrowserTypes', ServerTypes' PROVE ChecksTypeOK'
BY DEF ChecksTypeOK, ScriptTypes, Counts, BrowserTypes, ServerTypes, Steps

LEMMA AdvanceTypes ==
    ASSUME ChecksTypeOK, NEW op, At(op), Advance PROVE ScriptTypes'
<1>1. pc + 1 \in 1..(Steps + 1)
  BY NowIs
<1> QED BY <1>1 DEF Advance, ScriptTypes, ChecksTypeOK, Steps

LEMMA ExitTypes ==
    ASSUME ChecksTypeOK, NEW how, NEW status \in {0, 1, 2, 13}, Exit(how, status)
    PROVE  ScriptTypes' /\ BrowserTypes' /\ ServerTypes'
BY DEF Exit, ChecksTypeOK, ScriptTypes, BrowserTypes, ServerTypes, Steps, browser

LEMMA TurnCounts ==
    ASSUME ChecksTypeOK, NEW op, Turn(op), failed' \in BOOLEAN PROVE At(op) /\ Counts'
BY ScriptAssumption DEF ChecksTypeOK, Turn, OnTime, Early, Counts

LEMMA FaultCounts ==
    ASSUME ChecksTypeOK, faults < MaxFaults, faults' = faults + 1 PROVE faults' \in 0..MaxFaults
BY ScriptAssumption DEF ChecksTypeOK

LEMMA EffectType ==
    ASSUME world \in [ServerKey -> Int], NEW how, NEW k \in ServerKey, NEW v \in Int
    PROVE  Effect(how, k, v) \in [ServerKey -> Int]
<1>1. CASE how = "add"
  BY <1>1 DEF Effect
<1>2. CASE how = "set"
  BY <1>2 DEF Effect
<1>3. CASE how = "flip" /\ world[k] = v
  BY <1>3 DEF Effect
<1>4. CASE how \notin {"add", "set"} /\ ~(how = "flip" /\ world[k] = v)
  BY <1>4 DEF Effect
<1> QED BY <1>1, <1>2, <1>3, <1>4

LEMMA Keys == ServerKey \subseteq Key /\ {"fresh", "undo", "flash"} \subseteq Key
              /\ {"who", "compile", "stub", "comments", "shared", "devices"} \subseteq ServerKey
BY DEF Key, ServerKey, LocalKey

LEMMA RendersType ==
    ASSUME page \in [Key -> Int], req \in Request, NEW w \in [ServerKey -> Int]
    PROVE  Renders(w) \in [Key -> Int]
<1>1. req.key \in ServerKey /\ w[req.key] \in Int /\ req.key \in Key
  BY Keys DEF Request
<1>2. \A b \in BOOLEAN : Flag(b) \in Int
  BY DEF Flag
<1>3. \A f \in [Key -> Int], k \in Key, n \in Int : [f EXCEPT ![k] = n] \in [Key -> Int]
  OBVIOUS
<1>4. page["fresh"] \in Int /\ page["undo"] \in Int /\ page["flash"] \in Int
  BY Keys
<1> DEFINE fresh == IF req.key = "tokens" /\ w # world /\ req.val = 1 THEN 1 ELSE page["fresh"]
           undo == IF req.how = "flip" THEN Flag(w # world /\ req.val = 1) ELSE page["undo"]
           flash == IF req.how = "flip" THEN Flag(w = world) ELSE page["flash"]
           p1 == [page EXCEPT ![req.key] = w[req.key]]
           p2 == [p1 EXCEPT !["fresh"] = fresh]
           p3 == [p2 EXCEPT !["undo"] = undo]
           p4 == [p3 EXCEPT !["flash"] = flash]
<1>5. fresh \in Int /\ undo \in Int /\ flash \in Int
  <2>2. Flag(w # world /\ req.val = 1) \in Int /\ Flag(w = world) \in Int
    BY DEF Flag
  <2>3. fresh \in Int
    BY <1>4
  <2>4. undo \in Int
    BY <1>4, <2>2
  <2>5. flash \in Int
    BY <1>4, <2>2
  <2> QED BY <2>3, <2>4, <2>5
<1>6. Renders(w) = p4
  BY Zenon DEF Renders
<1> HIDE DEF fresh, undo, flash
<1>7. p1 \in [Key -> Int]
  BY <1>1, <1>3
<1> HIDE DEF p1
<1>8. p2 \in [Key -> Int]
  BY <1>3, <1>5, <1>7, Keys
<1> HIDE DEF p2
<1>9. p3 \in [Key -> Int]
  BY <1>3, <1>5, <1>8, Keys
<1> HIDE DEF p3
<1>10. p4 \in [Key -> Int]
  BY <1>3, <1>5, <1>9, Keys
<1> QED BY <1>6, <1>10

LEMMA AnswerTypes ==
    ASSUME ChecksTypeOK, AnswerLoad \/ AnswerPoll \/ AnswerAct
    PROVE  world' \in [ServerKey -> Int] /\ page' \in [Key -> Int]
<1> USE DEF ChecksTypeOK
<1>1. CASE AnswerLoad
  <2>1. \A k \in Key : k \in LocalKey \/ k \in ServerKey
    BY DEF Key
  <2>2. \A k \in Key : (IF k \in LocalKey THEN page[k] ELSE Answered(k)) \in Int
    BY <2>1 DEF Answered
  <2> QED BY <1>1, <2>2 DEF AnswerLoad
<1>2. CASE AnswerPoll
  BY <1>2, Keys DEF AnswerPoll
<1>3. CASE AnswerAct
  <2>1. Effect(req.how, req.key, req.val) \in [ServerKey -> Int]
    BY EffectType DEF Request
  <2> QED BY <1>3, <2>1, RendersType DEF AnswerAct
<1> QED BY <1>1, <1>2, <1>3

LEMMA Requests ==
    /\ Quiet \in Request /\ Sent("load", "none", "who", 0) \in Request
    /\ Sent("poll", "none", "compile", 0) \in Request
    /\ \A h \in {"none", "add", "set", "flip"}, k \in ServerKey, v \in Int :
          Sent("act", h, k, v) \in Request
BY Keys DEF Quiet, Sent, Request

(* The steps that change only the page, or what the script holds of it.    *)
LEMMA PageTypes ==
    ASSUME ChecksTypeOK, PageStep PROVE ChecksTypeOK'
<1> USE DEF ChecksTypeOK, Steps
<1>1. CASE Pause
  <2>1. req' \in Request
    BY <1>1 DEF Pause, Request
  <2>2. queue' \in Seq({"live", "stale"})
    BY <1>1 DEF Pause
  <2> QED BY <1>1, <2>1, <2>2 DEF Pause
<1>2. CASE Answer
  <2>1. world' \in [ServerKey -> Int] /\ page' \in [Key -> Int] /\ req' \in Request
    BY <1>2, AnswerTypes, Requests DEF Answer
  <2> QED BY <1>2, <2>1 DEF Answer
<1>3. CASE PageRetries
  BY <1>3 DEF PageRetries, Request
<1>4. CASE PagePolls
  BY <1>4, Requests DEF PagePolls
<1> QED BY <1>1, <1>2, <1>3, <1>4 DEF PageStep

LEMMA ThrowTypes ==
    ASSUME ChecksTypeOK, Throw, faults' \in 0..MaxFaults PROVE ChecksTypeOK'
<1>1. Ending[script].thrown \in {1, 2}
  BY EndingType DEF ChecksTypeOK
<1>2. Counts'
  BY DEF Throw, Counts, ChecksTypeOK
<1>3. ScriptTypes' /\ BrowserTypes' /\ ServerTypes'
  BY <1>1, ExitTypes DEF Throw
<1> QED BY <1>2, <1>3, TypeParts

(* The steps of a script that drives the browser. *)
LEMMA DriveTypes ==
    ASSUME ChecksTypeOK,
           DoOpen \/ DoClick \/ DoUi \/ DoArm \/ DoHeld \/ DoLet \/ DoAgain \/ DoDiscard \/ HeldGivesUp
    PROVE  ChecksTypeOK'
<1> USE DEF BrowserTypes, ServerTypes
<1>0. /\ failed \in BOOLEAN /\ faults \in 0..MaxFaults
      /\ page \in [Key -> Int] /\ req \in Request
      /\ queue \in Seq({"live", "stale"}) /\ hand \in {"none", "live", "stale"}
      /\ world \in [ServerKey -> Int] /\ filter \subseteq {"load", "act", "poll"}
  BY DEF ChecksTypeOK
<1>1. CASE DoOpen
  <2>1. ScriptTypes' /\ Counts'
    BY <1>0, <1>1, AdvanceTypes, TurnCounts DEF DoOpen
  <2>2. page' \in [Key -> Int]
    BY <1>1 DEF DoOpen, Blank
  <2>3. queue' \in Seq({"live", "stale"})
    BY <1>0, <1>1 DEF DoOpen
  <2>4. BrowserTypes' /\ ServerTypes'
    BY <1>0, <1>1, <2>2, <2>3, Requests DEF DoOpen
  <2> QED BY <2>1, <2>4, TypeParts
<1>2. CASE DoClick
  <2>1. ScriptTypes' /\ Counts' /\ At("click")
    BY <1>0, <1>2, AdvanceTypes, TurnCounts DEF DoClick
  <2>2. req' \in Request
    BY <1>2, <2>1, NowIs, Requests DEF DoClick
  <2>3. BrowserTypes' /\ ServerTypes'
    BY <1>0, <1>2, <2>2 DEF DoClick
  <2> QED BY <2>1, <2>3, TypeParts
<1>3. CASE DoUi
  <2>1. ScriptTypes' /\ Counts' /\ At("ui")
    BY <1>0, <1>3, AdvanceTypes, TurnCounts DEF DoUi
  <2>2. Now.key \in Key /\ Now.val \in Int
    BY <2>1, NowIs
  <2>3. page' \in [Key -> Int]
    BY <1>0, <1>3, <2>2 DEF DoUi
  <2>4. BrowserTypes' /\ ServerTypes'
    BY <1>0, <1>3, <2>3 DEF DoUi
  <2> QED BY <2>1, <2>4, TypeParts
<1>4. CASE DoArm
  <2>1. ScriptTypes' /\ Counts' /\ At("arm")
    BY <1>0, <1>4, AdvanceTypes, TurnCounts DEF DoArm
  <2>2. Now.key \in {"load", "act", "poll", "nothing"}
    BY <2>1, NowIs
  <2>3. filter' \subseteq {"load", "act", "poll"} /\ queue' \in Seq({"live", "stale"})
    BY <1>4, <2>2 DEF DoArm
  <2>4. BrowserTypes' /\ ServerTypes'
    BY <1>0, <1>4, <2>3 DEF DoArm
  <2> QED BY <2>1, <2>4, TypeParts
<1>5. CASE DoHeld
  <2>1. ScriptTypes' /\ Counts'
    BY <1>0, <1>5, AdvanceTypes DEF DoHeld, Counts
  <2>2. hand' \in {"live", "stale"} /\ queue' \in Seq({"live", "stale"})
    BY <1>0, <1>5 DEF DoHeld
  <2>3. BrowserTypes' /\ ServerTypes'
    BY <1>0, <1>5, <2>2 DEF DoHeld
  <2> QED BY <2>1, <2>3, TypeParts
<1>6. CASE DoLet
  <2>1. ScriptTypes' /\ Counts'
    BY <1>0, <1>6, AdvanceTypes, TurnCounts DEF DoLet
  <2>2. req' \in Request
    BY <1>0, <1>6 DEF DoLet, Request
  <2>3. BrowserTypes' /\ ServerTypes'
    BY <1>0, <1>6, <2>2 DEF DoLet
  <2> QED BY <2>1, <2>3, TypeParts
<1>7. CASE DoAgain
  <2>1. ScriptTypes' /\ Counts'
    BY <1>0, <1>7, AdvanceTypes, TurnCounts DEF DoAgain
  <2>2. req' \in Request
    BY <1>0, <1>7 DEF DoAgain, Request
  <2>3. BrowserTypes' /\ ServerTypes'
    BY <1>0, <1>7, <2>2 DEF DoAgain
  <2> QED BY <2>1, <2>3, TypeParts
<1>8. CASE DoDiscard
  <2>1. ScriptTypes' /\ Counts'
    BY <1>0, <1>8, AdvanceTypes, TurnCounts DEF DoDiscard
  <2>2. BrowserTypes' /\ ServerTypes'
    BY <1>0, <1>8, Requests DEF DoDiscard
  <2> QED BY <2>1, <2>2, TypeParts
<1>9. CASE HeldGivesUp
  <2>1. ScriptTypes'
    BY <1>9, AdvanceTypes DEF HeldGivesUp
  <2>2. Counts'
    BY <1>0, <1>9, FaultCounts DEF HeldGivesUp, Count, Counts
  <2>3. BrowserTypes' /\ ServerTypes'
    BY <1>0, <1>9 DEF HeldGivesUp
  <2> QED BY <2>1, <2>2, <2>3, TypeParts
<1> QED BY <1>1, <1>2, <1>3, <1>4, <1>5, <1>6, <1>7, <1>8, <1>9

(* The steps of a script that looks at the page, or calls the server.      *)
LEMMA LookTypes ==
    ASSUME ChecksTypeOK,
           \/ DoConnect \/ DoCookie \/ DoSee \/ DoMust \/ DoPost \/ DoApi \/ DoCompiled
           \/ CompiledGivesUp \/ DoLogin
    PROVE  ChecksTypeOK'
<1>0. failed \in BOOLEAN /\ BrowserTypes /\ ServerTypes /\ world \in [ServerKey -> Int]
  BY DEF ChecksTypeOK, BrowserTypes, ServerTypes
<1>a. ASSUME UNCHANGED browser PROVE BrowserTypes'
  BY <1>0, <1>a DEF BrowserTypes, browser
<1>b. ASSUME UNCHANGED filter, world' \in [ServerKey -> Int] PROVE ServerTypes'
  BY <1>0, <1>b DEF ServerTypes
<1>c. ASSUME NEW passed, Count(passed) PROVE failed' \in BOOLEAN
  BY <1>c DEF Count
<1>1. CASE DoConnect
  BY <1>0, <1>1, <1>a, <1>b, AdvanceTypes, TurnCounts, TypeParts DEF DoConnect
<1>2. CASE DoCookie
  <2>1. ScriptTypes' /\ Counts' /\ At("cookie")
    BY <1>0, <1>2, AdvanceTypes, TurnCounts DEF DoCookie
  <2>2. world' \in [ServerKey -> Int]
    BY <1>0, <1>2, <2>1, NowIs DEF DoCookie
  <2> QED BY <1>2, <1>a, <1>b, <2>1, <2>2, TypeParts DEF DoCookie
<1>3. CASE DoSee
  <2>1. failed' \in BOOLEAN
    BY <1>3, <1>c DEF DoSee, Looks
  <2> QED BY <1>0, <1>3, <1>a, <1>b, <2>1, AdvanceTypes, TurnCounts, TypeParts DEF DoSee, Looks
<1>4. CASE DoMust
  <2>1. failed' \in BOOLEAN
    BY <1>4, <1>c DEF DoMust, Looks
  <2>2. Counts' /\ At("must")
    BY <1>4, <2>1, TurnCounts DEF DoMust, Looks
  <2>3. Ending[script].abort \in {1}
    BY EndingType DEF ChecksTypeOK
  <2>4. CASE Shown(Now.key) = Now.val
    BY <1>0, <1>4, <1>a, <1>b, <2>2, <2>4, AdvanceTypes, TypeParts DEF DoMust
  <2>5. CASE Shown(Now.key) # Now.val
    <3>1. Exit("abort", Ending[script].abort)
      BY <1>4, <2>5 DEF DoMust
    <3> QED BY <2>2, <2>3, <3>1, ExitTypes, TypeParts
  <2> QED BY <2>4, <2>5
<1>5. CASE DoPost
  <2>1. ScriptTypes' /\ Counts' /\ At("post")
    BY <1>0, <1>5, AdvanceTypes, TurnCounts DEF DoPost
  <2>2. world' \in [ServerKey -> Int]
    BY <1>0, <1>5, <2>1, NowIs, EffectType DEF DoPost
  <2> QED BY <1>5, <1>a, <1>b, <2>1, <2>2, TypeParts DEF DoPost
<1>6. CASE DoApi
  <2>1. failed' \in BOOLEAN
    BY <1>6, <1>c DEF DoApi
  <2> QED BY <1>0, <1>6, <1>a, <1>b, <2>1, AdvanceTypes, TurnCounts, TypeParts DEF DoApi
<1>7. CASE DoCompiled
  <2>1. failed' \in BOOLEAN
    BY <1>7, <1>c DEF DoCompiled
  <2> QED BY <1>0, <1>7, <1>a, <1>b, <2>1, AdvanceTypes, TurnCounts, TypeParts DEF DoCompiled
<1>9. CASE CompiledGivesUp
  <2>1. failed' \in BOOLEAN
    BY <1>9, <1>c DEF CompiledGivesUp
  <2>2. Counts'
    BY <1>0, <1>9, <2>1, FaultCounts DEF CompiledGivesUp, Counts
  <2> QED BY <1>0, <1>9, <1>a, <1>b, <2>2, AdvanceTypes, TypeParts DEF CompiledGivesUp
<1>8. CASE DoLogin
  <2>1. ScriptTypes' /\ Counts' /\ At("login")
    BY <1>0, <1>8, AdvanceTypes, TurnCounts DEF DoLogin
  <2>2. Now.key \in ServerKey /\ Flag(Now.key = "sends") \in Int
    BY <2>1, NowIs DEF Flag
  <2>3. \A f \in [ServerKey -> Int], k \in ServerKey, n \in Int :
          [f EXCEPT ![k] = n] \in [ServerKey -> Int]
    OBVIOUS
  <2>4. world[Now.key] + 1 \in Int /\ world["devices"] + Flag(Now.key = "sends") \in Int
    BY <1>0, <2>2, Keys
  <2>5. world' \in [ServerKey -> Int]
    <3> DEFINE w1 == [world EXCEPT ![Now.key] = world[Now.key] + 1]
    <3>1. w1 \in [ServerKey -> Int]
      BY <1>0, <2>2, <2>3, <2>4
    <3>2. world' = [w1 EXCEPT !["devices"] = world["devices"] + Flag(Now.key = "sends")]
      BY <1>8, Zenon DEF DoLogin
    <3> HIDE DEF w1
    <3> QED BY <2>3, <2>4, <3>1, <3>2, Keys
  <2> QED BY <1>8, <1>a, <1>b, <2>1, <2>5, TypeParts DEF DoLogin
<1> QED BY <1>1, <1>2, <1>3, <1>4, <1>5, <1>6, <1>7, <1>8, <1>9

(* The ends of a run. *)
LEMMA EndTypes ==
    ASSUME ChecksTypeOK,
           \/ NoTarget \/ ClickThrows \/ LoginRefused \/ LetThrows \/ ButtonMissing \/ Finish
           \/ Drained \/ TimerFires \/ FetchFails
    PROVE  ChecksTypeOK'
<1>0. failed \in BOOLEAN /\ faults \in 0..MaxFaults /\ script \in Script
  BY DEF ChecksTypeOK
<1>1. CASE NoTarget
  <2>1. Counts'
    BY <1>0, <1>1, FaultCounts DEF NoTarget, Counts
  <2>2. Exit("noTarget", Ending[script].noTarget) /\ Ending[script].noTarget \in {1, 2}
    BY <1>0, <1>1, EndingType DEF NoTarget
  <2> QED BY <2>1, <2>2, ExitTypes, TypeParts
<1>2. CASE ClickThrows \/ LoginRefused \/ LetThrows \/ ButtonMissing
  <2>1. Throw /\ failed' \in BOOLEAN /\ \E op : Turn(op)
    BY <1>0, <1>2 DEF ClickThrows, LoginRefused, LetThrows, ButtonMissing, Throw
  <2>2. faults' \in 0..MaxFaults
    BY <2>1, TurnCounts DEF Counts
  <2> QED BY <2>1, <2>2, ThrowTypes
<1>3. CASE FetchFails
  BY <1>3, FaultCounts, ThrowTypes DEF FetchFails
<1>4. CASE Finish
  <2>1. Exit("end", Flag(failed)) /\ Counts' /\ Flag(failed) \in {0, 1}
    BY <1>0, <1>4 DEF Finish, Counts, Flag
  <2> QED BY <2>1, ExitTypes, TypeParts
<1>5. CASE Drained
  <2>1. Exit("drained", Ending[script].drained) /\ Counts'
    BY <1>0, <1>5 DEF Drained, Counts
  <2>2. Ending[script].drained \in {0, 1, 13}
    BY <1>0, EndingType
  <2> QED BY <2>1, <2>2, ExitTypes, TypeParts
<1>6. CASE TimerFires
  <2>1. Exit("end", Ending[script].timer) /\ Counts'
    BY <1>0, <1>6 DEF TimerFires, Counts
  <2>2. Ending[script].timer \in {0, 1, 2}
    BY <1>0, EndingType
  <2> QED BY <2>1, <2>2, ExitTypes, TypeParts
<1> QED BY <1>1, <1>2, <1>3, <1>4, <1>5, <1>6

LEMMA TypesInit == Init => ChecksTypeOK
<1> SUFFICES ASSUME Init PROVE ChecksTypeOK
  OBVIOUS
<1>1. script \in Script /\ failed = FALSE /\ faults \in 0..MaxFaults
  BY ScriptAssumption, SMT DEF Init
<1>2. pc \in 1..(Steps + 1)
  <2>1. Program[script] \in Seq(WellFormed)
    BY <1>1, TablesWellFormed
  <2> QED BY <2>1 DEF Init, Steps
<1>3. world \in [ServerKey -> Int]
  <2>1. \A k \in DOMAIN Fixture(script) : Fixture(script)[k] \in Int
    BY DEF Fixture
  <2>2. PICK used \in {0, MagicLinks} :
          world = [k \in ServerKey |-> IF k = "sends" THEN used
                                       ELSE IF k \in DOMAIN Fixture(script) THEN Fixture(script)[k]
                                       ELSE 0]
    BY DEF Init
  <2> QED BY <2>1, <2>2 DEF MagicLinks
<1>4. page \in [Key -> Int] /\ req \in Request /\ queue \in Seq({"live", "stale"})
  BY Requests DEF Init, Blank
<1> QED BY <1>1, <1>2, <1>3, <1>4 DEF Init, ChecksTypeOK

LEMMA TypesStep ==
    ASSUME ChecksTypeOK, [Next]_vars PROVE ChecksTypeOK'
<1>1. CASE CompileEnds
  <2>1. faults' \in 0..MaxFaults
    BY <1>1, FaultCounts DEF CompileEnds, ChecksTypeOK
  <2>2. world' \in [ServerKey -> Int]
    <3>1. \A f \in [ServerKey -> Int], n \in Int :
            [f EXCEPT !["compile"] = n] \in [ServerKey -> Int]
      OBVIOUS
    <3>2. PICK n \in {2, 3} : world' = [world EXCEPT !["compile"] = n]
      BY <1>1 DEF CompileEnds
    <3> QED BY <3>1, <3>2 DEF ChecksTypeOK
  <2>3. ScriptTypes' /\ Counts' /\ BrowserTypes'
    BY <1>1, <2>1 DEF CompileEnds, ChecksTypeOK, browser, Steps, ScriptTypes, Counts, BrowserTypes
  <2>4. ServerTypes'
    BY <1>1, <2>2 DEF CompileEnds, ChecksTypeOK, ServerTypes
  <2> QED BY <2>3, <2>4, TypeParts
<1>2. ASSUME NEW how \in {"dead", "wedged"}, ChromeFails(how) PROVE ChecksTypeOK'
  <2>1. faults' \in 0..MaxFaults
    BY <1>2, FaultCounts DEF ChromeFails
  <2> QED BY <1>2, <2>1 DEF ChromeFails, ChecksTypeOK, browser, Steps
<1>3. CASE UNCHANGED vars
  BY <1>3 DEF vars, ChecksTypeOK, Steps
<1> QED BY <1>1, <1>2, <1>3, PageTypes, DriveTypes, LookTypes, EndTypes
     DEF Next, ScriptStep, Fault

(* Whatever the scripts, the page and the machine's faults do: a script is *)
(* at a step of its table or past the last, what it asks for is a key of   *)
(* the page or of the server, its exit code is one of four, and there are  *)
(* no more faults than the bound says.                                     *)
THEOREM ChecksTypeCorrect == Spec => []ChecksTypeOK
<1> QED BY TypesInit, TypesStep, PTL DEF Spec

(* Exit code 0 of a browser check (the scripts' "exit 0 = pass") says that *)
(* every step ran and every check passed, or that Chrome died while a      *)
(* script of main().catch awaited an answer of it: nothing else that goes   *)
(* wrong ends with 0, and no check that failed does at the last step.       *)
THEOREM ZeroMeansPassedCorrect == Spec => []ZeroMeansPassed
<1> DEFINE Inv == ChecksTypeOK /\ ZeroMeansPassed
<1>1. Init => Inv
  BY TypesInit DEF Init, ZeroMeansPassed, Running
<1>2. Inv /\ [Next]_vars => Inv'
  <2> SUFFICES ASSUME Inv, [Next]_vars PROVE ZeroMeansPassed'
    BY TypesStep
  <2>0. script \in Script /\ pc \in Nat /\ Steps \in Nat
    BY TablesWellFormed DEF ChecksTypeOK, Steps
  <2>1. CASE UNCHANGED vars
    BY <2>1 DEF vars, ZeroMeansPassed, Steps, NeedsChrome, Now
  <2>2. CASE code = Running /\ UNCHANGED <<code, script>>
    BY <2>2 DEF ZeroMeansPassed, Running
  <2>3. ASSUME NEW how, NEW status \in {1, 2}, Exit(how, status) PROVE ZeroMeansPassed'
    BY <2>3 DEF Exit, ZeroMeansPassed
  <2>4. CASE Finish
    <3>1. pc > Steps /\ failed' = failed /\ pc' = pc /\ script' = script /\ code' = Flag(failed)
      BY <2>4 DEF Finish, Exit
    <3>2. (pc > Steps)' /\ (code' = 0 => ~failed')
      BY <3>1 DEF Flag, Steps
    <3> QED BY <3>2 DEF ZeroMeansPassed
  <2>5. CASE Drained
    <3>1. /\ ~(pc > Steps) /\ NeedsChrome /\ pc' = pc /\ script' = script
          /\ chrome' = "dead" /\ code' = Ending[script].drained
      BY <2>0, <2>5 DEF Drained, Stuck, Exit
    <3>2. ~(pc > Steps)' /\ NeedsChrome'
      BY <3>1 DEF NeedsChrome, Now, Steps
    <3> QED BY <3>1, <3>2 DEF ZeroMeansPassed
  <2>6. CASE TimerFires
    <3>1. code' = Ending[script].timer /\ Ending[script].timer # 0
      BY <2>6 DEF TimerFires, Exit
    <3> QED BY <3>1 DEF ZeroMeansPassed
  <2> QED BY <2>0, <2>1, <2>2, <2>3, <2>4, <2>5, <2>6, Ends, EndingType
<1>3. Inv => ZeroMeansPassed
  OBVIOUS
<1> QED BY <1>1, <1>2, <1>3, PTL DEF Spec
=============================================================================
