-------------------------------- MODULE Checks --------------------------------
(***************************************************************************)
(* The browser checks of scripts/: a Node process that starts a headless   *)
(* Chrome, drives one page of it over the DevTools socket against a        *)
(* running server, counts the checks that fail, and ends with an exit      *)
(* code.  Program below has one table of steps per script.                 *)
(*                                                                         *)
(* A check compares what the page shows with a number the script expects.  *)
(* The page shows what the server had when it last answered a request of   *)
(* the page, so an expectation can be wrong in three ways the model tells  *)
(* apart: the server is in another state than the script believes, the     *)
(* page has not asked again, or its request is still held by the script.   *)
(*                                                                         *)
(* Layout, wording, colour and motion checks are left out, and so is time: *)
(* a wait gives up when nothing more can arrive, or, as a fault, early.    *)
(***************************************************************************)
EXTENDS Integers, Sequences

CONSTANTS
    Script,     \* the scripts that may run, a subset of Scripts
    MaxFaults   \* bound: faults of the machine in one run

VARIABLES
    script, pc,  \* the script, and its next step
    code,        \* the exit code, or Running
    failed,      \* a check has failed
    chrome,      \* "up", "wedged", "dead" (on its own) or "reaped" (by the script)
    world,       \* what the server has, and the browser's cookie
    page,        \* what the page shows
    req,         \* the page's outstanding request
    filter,      \* the kinds of request the script holds
    queue,       \* the held requests: of this page ("live") or of one since left
    hand,        \* the held requests the script has taken from the queue
    faults

browser == <<page, req, queue, hand>>
vars == <<script, pc, code, failed, chrome, world, page, req, filter, queue, hand, faults>>

Running == -1
ServerKey == {"reviews", "comments", "comments2", "name", "name2", "tokens", "devices", "sends",
              "sends2", "shared", "rounds", "viewonly", "compile", "c1", "c2", "c3", "c4", "c5",
              "who", "stub"}
LocalKey == {"menu", "section", "query", "fresh", "forged", "flash", "undo", "mode", "dark", "sure"}
Key == ServerKey \cup LocalKey
Blank == -1

MagicLinks == 3   \* max_per_address: the links one address gets in a window

-----------------------------------------------------------------------------
(* The steps of a script. *)

Step(op, how, key, val) == [op |-> op, how |-> how, key |-> key, val |-> val]

Connect == Step("connect", "-", "-", 0)              \* find the page target, open the socket
Open == Step("open", "-", "-", 0)                    \* Page.navigate
Cookie(user) == Step("cookie", "-", "who", user)     \* swap the browser's session cookie
Stub(answer) == Step("cookie", "-", "stub", answer)  \* script that answers /auth/session, 0: removed
Click(how, k, v) == Step("click", how, k, v)         \* a click that sends a request
Ui(k, v) == Step("ui", "-", k, v)                    \* a click the page handles alone
See(k, v) == Step("see", "-", k, v)                  \* check what the page shows
Ready(k, v) == Step("ready", "-", k, v)              \* poll the page until it shows it, check
Must(k, v) == Step("must", "-", k, v)                \* the same, and abort the run without it
Post(how, k, v) == Step("post", how, k, v)           \* the script's own request
Api(k, v) == Step("api", "-", k, v)                  \* check the server's answer to the script
Compiled(v) == Step("compiled", "-", "compile", v)   \* poll until the compile ends, check
Login(k) == Step("login", "add", k, 1)               \* a link, its token from the log, a session
Arm(kind) == Step("arm", "-", kind, 0)               \* hold requests of this kind
Disarm == Step("arm", "-", "nothing", 0)
Held == Step("held", "-", "-", 1)                    \* wait for a held request, check
Take == Step("held", "-", "-", 0)                    \* wait for a held request
Release == Step("let", "go", "-", 0)                 \* continue what was taken
ReleaseOne == Step("let", "go", "-", 1)              \* the same, throwing if nothing was
Refuse == Step("let", "fail", "-", 0)                \* fail what was taken
Again == Step("again", "-", "-", 0)                  \* click the page's own retry
Discard == Step("discard", "-", "-", 0)

(* The scripts, phase by phase. *)

LoadingEmpty == <<
    Open, Ready("reviews", 0), Post("add", "reviews", 1)>>
LoadingSkeleton == <<
    Arm("load"), Open, Held, See("busy", 1), Release, Ready("busy", 0), Disarm>>
LoadingUnreachable == <<
    Arm("load"), Open, Held, Refuse, See("refused", 1), Held, Release, Ready("refused", 0),
    Arm("load"), Open, Take, Refuse, Again, Held, Release, Disarm>>
LoadingNoResults == <<
    Post("add", "reviews", 1), Open, Ready("reviews", 2),
    Ui("query", 1), See("query", 1), Ui("query", 0), See("reviews", 2)>>
LoadingPosting == <<
    Open, Ready("comments", 0),
    Arm("act"), Click("add", "comments", 1), Held, See("busy", 1), Release, Disarm,
    Ready("comments", 1),
    Arm("act"), Click("add", "comments", 1), Take, Refuse, Disarm, See("refused", 1),
    Again, Ready("comments", 2), Api("comments", 2)>>
LoadingDiscard == <<
    Arm("act"), Click("add", "comments", 1), Take, Refuse, Disarm, Discard, See("refused", 0),
    Arm("act"), Click("add", "comments", 1), Take, See("busy", 1), Release, Disarm>>
\* A new review: its comments start at none.
LoadingLatexPosting == <<
    Post("set", "comments", 0), Disarm, Open, Ready("comments", 0),
    Arm("act"), Click("add", "comments", 1), Held, See("busy", 1), Refuse, Disarm,
    See("refused", 1), Again, Ready("comments", 1)>>
LoadingCompiling == <<
    Post("set", "compile", 1), Arm("poll"), Open, Ready("compile", 1), Held, See("compile", 1),
    Release, Disarm>>
\* compile: 1 a good source is compiling, 2 it compiled, 4 a broken one is, 3 it failed.
LoadingCompileFailed == <<
    Post("set", "compile", 1), Compiled(2), Post("set", "compile", 4), Compiled(3),
    Open, Ready("compile", 3), Ui("menu", 1), See("menu", 1)>>

AccountLogins == <<
    Connect, Login("sends"), Login("sends"), Cookie(1), Open, Must("who", 1)>>
AccountFourStates == <<
    Stub(1), Open, See("who", 0), Stub(2), Open, See("who", 0), Stub(3), Open, See("who", 0),
    Stub(0), Open, Ready("who", 1)>>
AccountTrigger == <<
    See("who", 1), Ui("menu", 1), See("menu", 1), Ui("menu", 0), See("menu", 0)>>
AccountFivePages == <<
    Post("add", "reviews", 1), Post("add", "reviews", 1), Open, Ready("who", 1),
    Open, Ready("who", 1), Open, Ready("who", 1), Open, Ready("who", 1), Open, Ready("who", 1)>>
AccountSections == <<
    Ui("section", 2), See("section", 2), Ui("section", 1), Ui("section", 3), See("section", 3),
    Ui("section", 1), See("who", 1)>>
AccountMint == <<
    Ui("section", 2), Click("add", "tokens", 1), Ready("fresh", 1), Api("who", 1),
    Ui("fresh", 0), See("fresh", 0), Open, Ready("who", 1), Ui("section", 2), See("fresh", 0),
    Click("add", "tokens", 1), Ready("fresh", 1), Ui("fresh", 0), See("tokens", 2)>>
\* The two calls refused with a forged token, then one with the session's own.
AccountRefusalsStayForged == <<
    Ui("forged", 1), Click("add", "tokens", 1), See("fresh", 0), See("tokens", 2), Ui("forged", 0),
    Ui("forged", 1), Click("add", "tokens", -1), See("tokens", 2),
    Click("add", "tokens", -1), Ready("tokens", 1)>>
AccountRefusals == <<
    Ui("forged", 1), Click("add", "tokens", 1), See("fresh", 0), See("tokens", 2), Ui("forged", 0),
    Ui("forged", 1), Click("add", "tokens", -1), See("tokens", 2), Ui("forged", 0),
    Click("add", "tokens", -1), Ready("tokens", 1)>>
AccountDevices == <<
    See("devices", 2), Click("add", "devices", -1), Ready("devices", 1), Api("who", 1)>>
AccountAdvanced == <<
    Ui("section", 3), Ui("dark", 1), See("dark", 1), Ui("dark", 0), See("shared", 0),
    Ui("section", 4), See("section", 4)>>
AccountMobile == <<
    Open, Ready("who", 1), Ui("section", 2), Click("add", "tokens", 1), Ready("fresh", 1)>>
AccountDanger == <<
    Login("sends"), Cookie(1), Open, Ready("who", 1), Ui("section", 2),
    Click("add", "tokens", 1), Ready("fresh", 1), Ui("fresh", 0),
    Ui("sure", 1), See("busy", 0), See("sure", 1), Click("set", "tokens", 0), Ready("tokens", 0),
    Ui("sure", 1), See("busy", 0), Click("set", "devices", 0), Ready("busy", 0),
    Api("devices", 0)>>

\* Names: 0 none, 1 Ada, 2 to 4 the three payloads of markup, 5 Grace.
NameRow == <<
    Connect, Login("sends"), Login("sends2"), Cookie(1), Open, Must("who", 1), See("name", 0),
    Click("set", "name", 1), Ready("busy", 0), See("name", 1), Api("name", 1),
    Open, Ready("who", 1), See("name", 1), Ui("menu", 1), See("name", 1), Ui("menu", 0)>>
\* A name of 61 characters is refused.
NameLimit == <<
    Click("none", "name", 0), Ready("busy", 0), Api("name", 1),
    Click("set", "name", 0), Ready("busy", 0), See("name", 0)>>
NameMarkup == <<
    Click("set", "name", 2), Ready("busy", 0), See("name", 2),
    Click("set", "name", 3), Ready("busy", 0), See("name", 3),
    Click("set", "name", 4), Ready("busy", 0), See("name", 4), Open, Ready("who", 1), See("name", 4),
    Click("set", "name", 3), Ready("busy", 0), Ui("menu", 1), See("name", 3), Ui("menu", 0),
    Click("set", "name", 0), Ready("busy", 0), Api("name", 0)>>
NameRetroactive == <<
    Post("add", "reviews", 1), Open, Ready("who", 1), Click("add", "comments", 1),
    Post("add", "reviews", 1), Cookie(1), Open, Ready("comments", 1), See("name", 0),
    Cookie(2), Open, See("comments", 0), Cookie(1), Post("set", "name", 5),
    Cookie(1), Open, Ready("comments", 1), See("name", 5),
    Click("add", "comments", 1), Cookie(1), Open, Ready("comments", 2), See("name", 5)>>
NameUniversal == <<
    Cookie(1), Post("set", "shared", 1), Cookie(2), Open, Ready("comments", 2), See("name", 5)>>
NameMarkupLabel == <<
    Cookie(1), Post("set", "name", 3), Cookie(1), Open, Ready("comments", 2), See("name", 3),
    Cookie(2), Open, Ready("comments", 2), See("name", 3),
    Cookie(2), Open, Click("add", "comments2", 1), Cookie(2), Open, Ready("comments2", 1),
    See("name2", 0)>>

\* A comment: 1 open, 2 resolved, 3 reopened, and 4 if it were reopened twice.
UndoClick == <<
    Connect, Post("add", "c1", 1), Post("add", "c2", 1), Post("add", "c3", 1),
    Post("add", "c4", 1), Post("add", "c5", 1), Open, Must("c1", 1),
    Click("flip", "c1", 1), See("undo", 1), Click("flip", "c1", 2), Api("c1", 3), See("c1", 3)>>
UndoWindow == <<
    Click("flip", "c2", 1), Ready("undo", 1), Ui("undo", 0), See("undo", 0), Api("c2", 2),
    Click("flip", "c3", 1), See("undo", 1), Click("flip", "c3", 2), Api("c3", 3)>>
UndoReload == <<
    Click("flip", "c4", 1), Open, Ready("busy", 0), See("c4", 2), Api("c4", 2)>>
UndoRace == <<
    Click("flip", "c5", 1), Post("flip", "c5", 2), Click("flip", "c5", 2), See("flash", 1),
    Api("c5", 3)>>

HistoryCompare == <<
    Connect, Post("add", "rounds", 1), Post("add", "rounds", 1), Api("rounds", 2),
    Open, Must("busy", 0), Click("none", "rounds", 0), Ready("rounds", 2), See("mode", 0),
    Ui("mode", 1), See("mode", 1)>>
HistorySwitch == <<
    Ui("query", 1), See("rounds", 2), Ui("mode", 0), See("mode", 0), Ui("mode", 1),
    Open, Ready("busy", 0), See("mode", 0), Ui("mode", 1), See("mode", 1)>>

MintSetup == <<
    Login("sends"), Connect, Cookie(1), Open, Must("who", 1), Ui("section", 2)>>
MintHeld == <<
    Arm("act"), Click("add", "tokens", 1), Held, See("busy", 1), ReleaseOne, Ready("fresh", 1)>>
MintRefused == <<
    Ui("fresh", 0), Ui("forged", 1), Disarm, Click("add", "tokens", 1), See("busy", 0),
    See("fresh", 0), Ui("forged", 0)>>

ViewOnly == <<Connect, Open, Must("comments", 1), Ready("viewonly", 1), See("viewonly", 1)>>
Addressed == <<
    Connect, Open, Must("busy", 0), See("c1", 1), See("c2", 1), See("c3", 2), Ui("menu", 1),
    See("c4", 3)>>
\* cdp-shot takes its steps from the command line; these are one of each kind it has.
Shot == <<Connect, Cookie(1), Open, Must("busy", 0), Click("add", "comments", 1), Must("comments", 1)>>

Program == [
    loading |-> <<Connect>> \o LoadingEmpty \o LoadingSkeleton \o LoadingUnreachable
                \o LoadingNoResults \o LoadingPosting \o LoadingDiscard \o LoadingLatexPosting
                \o LoadingCompiling \o LoadingCompileFailed,
    account |-> AccountLogins \o AccountFourStates \o AccountTrigger \o AccountFivePages
                \o AccountSections \o AccountMint \o AccountRefusals \o AccountDevices
                \o AccountAdvanced \o AccountMobile \o AccountDanger,
    name |-> NameRow \o NameLimit \o NameMarkup \o NameRetroactive \o NameUniversal
             \o NameMarkupLabel,
    undo |-> UndoClick \o UndoWindow \o UndoReload \o UndoRace,
    history |-> HistoryCompare \o HistorySwitch,
    mint |-> MintSetup \o MintHeld \o MintRefused,
    viewonly |-> ViewOnly,
    addressed |-> Addressed,
    shot |-> Shot]
Scripts == DOMAIN Program

ASSUME ScriptAssumption == Script \subseteq Scripts /\ MaxFaults \in Nat

-----------------------------------------------------------------------------
(* How each script ends: the code of its overall timer (0: it has none),   *)
(* the code Node gives an event loop that drains while the script waits,   *)
(* the codes of an error, of a Chrome that offers no page and of a page    *)
(* that never loads, and which of those three ends reap Chrome.            *)

MainCatchSkips(timer) == [timer |-> timer, drained |-> 0, thrown |-> 2, noTarget |-> 2,
                          abort |-> 0, reaps |-> {"thrown", "abort"}]
MainCatch(timer) == [timer |-> timer, drained |-> 0, thrown |-> 2, noTarget |-> 2, abort |-> 1,
                     reaps |-> {"thrown", "abort"}]
TopLevel == [timer |-> 2, drained |-> 13, thrown |-> 1, noTarget |-> 2, abort |-> 1,
             reaps |-> {"thrown", "noTarget", "abort"}]
Ending == [
    loading |-> MainCatch(2), mint |-> MainCatch(2),
    undo |-> MainCatch(0), history |-> MainCatch(0), viewonly |-> MainCatch(0),
    account |-> TopLevel, name |-> TopLevel,
    addressed |-> [TopLevel EXCEPT !.timer = 0, !.reaps = {"thrown", "abort"}],
    shot |-> [TopLevel EXCEPT !.timer = 1, !.drained = 1, !.noTarget = 1]]

Exit(how, status) ==
    /\ code' = status
    /\ chrome' = IF chrome # "dead" /\ how \in Ending[script].reaps \cup {"end"}
                 THEN "reaped" ELSE chrome
    /\ UNCHANGED <<script, pc, world, filter, browser>>

-----------------------------------------------------------------------------
(* The page, and what it shows. *)

Quiet == [state |-> "none", kind |-> "load", key |-> "who", how |-> "none", val |-> 0]
Sent(kind, how, k, v) == [state |-> "sent", kind |-> kind, key |-> k, how |-> how, val |-> v]
Outstanding == req.state \in {"sent", "going", "paused"} /\ req.kind # "poll"
Compiling == page["compile"] \in {1, 4}

Flag(b) == IF b THEN 1 ELSE 0
Shown(k) == IF k = "busy" THEN Flag(Outstanding)
            ELSE IF k = "refused" THEN Flag(req.state = "refused")
            ELSE page[k]

\* A reader who is neither the owner nor invited is answered 404.
Hidden(k) == k = "comments" /\ world["who"] = 2 /\ world["shared"] = 0
Answered(k) == IF (k = "who" /\ world["stub"] # 0) \/ Hidden(k) THEN 0 ELSE world[k]

\* What a request does to the server; a comment already resolved or reopened answers 409.
Effect(how, k, v) ==
    CASE how = "add" -> [world EXCEPT ![k] = @ + v]
      [] how = "set" -> [world EXCEPT ![k] = v]
      [] how = "flip" /\ world[k] = v -> [world EXCEPT ![k] = v + 1]
      [] OTHER -> world

\* An answered act: the page shows the new value, and the token, undo or notice that comes with it.
Renders(w) == [page EXCEPT
    ![req.key] = w[req.key],
    !["fresh"] = IF req.key = "tokens" /\ w # world /\ req.val = 1 THEN 1 ELSE @,
    !["undo"] = IF req.how = "flip" THEN Flag(w # world /\ req.val = 1) ELSE @,
    !["flash"] = IF req.how = "flip" THEN Flag(w = world) ELSE @]

AnswerLoad ==
    /\ req.kind = "load"
    /\ page' = [k \in Key |-> IF k \in LocalKey THEN page[k] ELSE Answered(k)]
    /\ UNCHANGED world
AnswerPoll ==
    /\ req.kind = "poll"
    /\ page' = [page EXCEPT !["compile"] = world["compile"]]
    /\ UNCHANGED world
\* With a forged CSRF token the server refuses the act, and the page shows what it showed.
AnswerAct ==
    /\ req.kind = "act"
    /\ IF page["forged"] = 1
       THEN UNCHANGED <<world, page>>
       ELSE /\ world' = Effect(req.how, req.key, req.val)
            /\ page' = Renders(Effect(req.how, req.key, req.val))

Alive == code = Running /\ chrome = "up"

(* Fetch.requestPaused: the request matches the filter of the moment. *)
Pause ==
    /\ Alive /\ req.state = "sent" /\ req.kind \in filter
    /\ req' = [req EXCEPT !.state = "paused"]
    /\ queue' = Append(queue, "live")
    /\ UNCHANGED <<script, pc, code, failed, chrome, world, page, filter, hand, faults>>

Answer ==
    /\ Alive
    /\ req.state = "going" \/ (req.state = "sent" /\ req.kind \notin filter)
    /\ AnswerLoad \/ AnswerPoll \/ AnswerAct
    /\ req' = Quiet
    /\ UNCHANGED <<script, pc, code, failed, chrome, filter, queue, hand, faults>>

-----------------------------------------------------------------------------
(* The script. *)

Steps == Len(Program[script])
Now == Program[script][pc]
At(op) == code = Running /\ pc <= Steps /\ Now.op = op
NeedsChrome == Now.op \notin {"post", "api", "compiled", "login", "arm", "held"}

\* The page has no request that anything will still answer.
Settled == chrome # "up" \/ ~Outstanding \/ req.state = "paused"
\* The script's sleeps and polls outlast the page, or a fault cuts them short.
OnTime == Settled /\ UNCHANGED faults
Early == ~Settled /\ faults < MaxFaults /\ faults' = faults + 1
Turn(op) == At(op) /\ (NeedsChrome => chrome = "up") /\ (OnTime \/ Early)

Advance == pc' = pc + 1 /\ UNCHANGED <<script, code, chrome>>
Count(passed) == failed' = (failed \/ ~passed)
Throw == Exit("thrown", Ending[script].thrown) /\ UNCHANGED failed

DoConnect == Turn("connect") /\ Advance /\ UNCHANGED <<failed, world, filter, browser>>
\* No page target: Chrome is dead, or never offers one.
NoTarget ==
    /\ At("connect") /\ chrome # "wedged"
    /\ IF chrome = "dead" THEN UNCHANGED faults ELSE faults < MaxFaults /\ faults' = faults + 1
    /\ Exit("noTarget", Ending[script].noTarget) /\ UNCHANGED failed

\* Navigating drops the page, its request, and the use of what the script holds of it.
DoOpen ==
    /\ Turn("open") /\ Advance
    /\ page' = [k \in Key |-> IF k \in LocalKey THEN 0 ELSE Blank]
    /\ req' = Sent("load", "none", "who", 0)
    /\ queue' = [i \in DOMAIN queue |-> "stale"]
    /\ hand' = IF hand = "none" THEN hand ELSE "stale"
    /\ UNCHANGED <<failed, world, filter>>

DoCookie ==
    /\ Turn("cookie") /\ Advance
    /\ world' = [world EXCEPT ![Now.key] = Now.val]
    /\ UNCHANGED <<failed, filter, browser>>

\* The undo button exists while the toast offers it.
CanClick == Now.how = "flip" /\ Now.val = 2 => page["undo"] = 1
DoClick ==
    /\ Turn("click") /\ CanClick /\ Advance
    /\ req' = Sent("act", Now.how, Now.key, Now.val)
    /\ UNCHANGED <<failed, world, page, filter, queue, hand>>
ClickThrows == Turn("click") /\ ~CanClick /\ Throw

DoUi ==
    /\ Turn("ui") /\ Advance
    /\ page' = [page EXCEPT ![Now.key] = Now.val]
    /\ UNCHANGED <<failed, world, req, filter, queue, hand>>

Looks(op) == Turn(op) /\ Count(Shown(Now.key) = Now.val)
DoSee == (Looks("see") \/ Looks("ready")) /\ Advance /\ UNCHANGED <<world, filter, browser>>
DoMust ==
    /\ Looks("must")
    /\ IF Shown(Now.key) = Now.val
       THEN Advance /\ UNCHANGED <<world, filter, browser>>
       ELSE Exit("abort", Ending[script].abort)

DoPost ==
    /\ Turn("post") /\ Advance
    /\ world' = Effect(Now.how, Now.key, Now.val)
    /\ UNCHANGED <<failed, filter, browser>>
DoApi ==
    /\ Turn("api") /\ Advance /\ Count(world[Now.key] = Now.val)
    /\ UNCHANGED <<world, filter, browser>>
DoCompiled ==
    /\ Turn("compiled") /\ world["compile"] \in {2, 3} /\ Advance
    /\ Count(world["compile"] = Now.val)
    /\ UNCHANGED <<world, filter, browser>>
\* Not in three minutes: 'timeout' is what the script then compares.
CompiledGivesUp ==
    /\ At("compiled") /\ world["compile"] \notin {2, 3} /\ Advance
    /\ faults < MaxFaults /\ faults' = faults + 1
    /\ Count(FALSE)
    /\ UNCHANGED <<world, filter, browser>>
\* The server does not answer the script's own request.
FetchFails ==
    /\ At("post") \/ At("api") \/ At("login")
    /\ faults < MaxFaults /\ faults' = faults + 1
    /\ Throw

\* The newest token of the log signs in; past the limit no mail is sent, and it is a used one.
DoLogin ==
    /\ Turn("login") /\ world[Now.key] < MagicLinks /\ Advance
    /\ world' = [world EXCEPT ![Now.key] = @ + 1, !["devices"] = @ + Flag(Now.key = "sends")]
    /\ UNCHANGED <<failed, filter, browser>>

\* armHold, disarmHold: what the queue still held stays paused.
DoArm ==
    /\ Turn("arm") /\ Advance
    /\ filter' = {Now.key} \ {"nothing"}
    /\ queue' = <<>>
    /\ UNCHANGED <<failed, world, page, req, hand>>

\* waitHeld: the oldest held request.
DoHeld ==
    /\ At("held") /\ queue # <<>> /\ Advance
    /\ hand' = Head(queue) /\ queue' = Tail(queue)
    /\ UNCHANGED <<failed, world, page, req, filter, faults>>
WillAsk == req.state = "sent" \/ (req.state = "refused" /\ req.kind = "load")
           \/ (req.state = "none" /\ Compiling)
HeldWaitsOn ==
    /\ At("held") /\ queue # <<>> /\ Advance
    /\ hand' = Head(queue) /\ queue' = Tail(queue)
    /\ UNCHANGED <<failed, world, page, req, filter, faults>>
HeldGivesUp ==
    /\ At("held") /\ queue = <<>> /\ Advance
    /\ IF chrome # "up" \/ ~WillAsk THEN UNCHANGED faults
       ELSE faults < MaxFaults /\ faults' = faults + 1
    /\ hand' = "none"
    /\ Count(Now.val = 0)
    /\ UNCHANGED <<world, page, req, filter, queue>>

\* continueRequest or failRequest, for what was taken; for a page since left it does nothing.
DoLet ==
    /\ Turn("let") /\ (Now.val = 1 => hand # "none") /\ Advance
    /\ hand' = "none"
    /\ req' = IF hand # "live" THEN req
              ELSE [req EXCEPT !.state = IF Now.how = "go" THEN "going" ELSE "refused"]
    /\ UNCHANGED <<failed, world, page, filter, queue>>
LetThrows == Turn("let") /\ Now.val = 1 /\ hand = "none" /\ Throw

Retried == req.state = "refused"
DoAgain ==
    /\ Turn("again") /\ Retried /\ Advance
    /\ req' = [req EXCEPT !.state = "sent"]
    /\ UNCHANGED <<failed, world, page, filter, queue, hand>>
DoDiscard ==
    /\ Turn("discard") /\ Retried /\ Advance
    /\ req' = Quiet
    /\ UNCHANGED <<failed, world, page, filter, queue, hand>>
\* The retry or discard button is not there.
ButtonMissing == (Turn("again") \/ Turn("discard")) /\ ~Retried /\ Throw

Finish ==
    /\ code = Running /\ pc > Steps
    /\ Exit("end", Flag(failed))
    /\ UNCHANGED <<failed, faults>>
LoginRefused == Turn("login") /\ world[Now.key] >= MagicLinks /\ Throw

-----------------------------------------------------------------------------
(* What happens by itself. *)

\* The dashboard's countdown: with the list refused, it asks again after 8 seconds.
PageRetries ==
    /\ Alive /\ At("held") /\ req.state = "refused" /\ req.kind = "load"
    /\ req' = [req EXCEPT !.state = "sent"]
    /\ UNCHANGED <<script, pc, code, failed, chrome, world, page, filter, queue, hand, faults>>

\* The paper viewer asks every two seconds while it shows a compile.
PagePolls ==
    /\ Alive /\ req.state = "none" /\ Compiling
    /\ req' = Sent("poll", "none", "compile", 0)
    /\ UNCHANGED <<script, pc, code, failed, chrome, world, page, filter, queue, hand, faults>>

\* A compile ends: the script waits for it or holds the poll that would show it, or it is a fault.
CompileEnds ==
    /\ code = Running /\ world["compile"] \in {1, 4}
    /\ world' = [world EXCEPT !["compile"] = IF @ = 1 THEN 2 ELSE 3]
    /\ IF At("compiled") \/ (req.kind = "poll" /\ req.state = "paused")
       THEN UNCHANGED faults ELSE faults < MaxFaults /\ faults' = faults + 1
    /\ UNCHANGED <<script, pc, code, failed, chrome, filter, browser>>

ChromeFails(how) ==
    /\ Alive /\ faults < MaxFaults
    /\ chrome' = how /\ faults' = faults + 1
    /\ UNCHANGED <<script, pc, code, failed, world, filter, browser>>

Stuck == code = Running /\ pc <= Steps /\ NeedsChrome
\* Chrome is gone, its socket closed, and an answer that never comes is awaited: Node runs dry.
Drained ==
    /\ Stuck /\ chrome = "dead" /\ Now.op # "connect"
    /\ Exit("drained", Ending[script].drained) /\ UNCHANGED <<failed, faults>>
\* The overall timer.
TimerFires ==
    /\ Stuck /\ chrome = "wedged" /\ Ending[script].timer # 0
    /\ Exit("end", Ending[script].timer) /\ UNCHANGED <<failed, faults>>

-----------------------------------------------------------------------------
(* A fresh server, but for the fixtures two of the scripts are given, and  *)
(* but for the links an earlier run of a script that logs in may have used.*)
Fixture(s) ==
    CASE s = "viewonly" -> [k \in {"comments", "viewonly"} |-> 1]
      [] s = "addressed" -> [c1 |-> 1, c2 |-> 1, c3 |-> 2, c4 |-> 3]
      [] OTHER -> [k \in {} |-> 0]
LogsIn(s) == \E i \in DOMAIN Program[s] : Program[s][i].op = "login"

Init ==
    /\ script \in Script
    /\ pc = 1 /\ code = Running /\ failed = FALSE /\ chrome = "up"
    /\ \E used \in IF LogsIn(script) THEN {0, MagicLinks} ELSE {0} :
          world = [k \in ServerKey |-> IF k = "sends" THEN used
                                       ELSE IF k \in DOMAIN Fixture(script) THEN Fixture(script)[k]
                                       ELSE 0]
    /\ page = [k \in Key |-> IF k \in LocalKey THEN 0 ELSE Blank]
    /\ req = Quiet /\ filter = {} /\ queue = <<>> /\ hand = "none"
    /\ faults = 0

ScriptStep ==
    \/ DoConnect \/ NoTarget \/ DoOpen \/ DoCookie \/ DoClick \/ ClickThrows \/ DoUi
    \/ DoSee \/ DoMust \/ DoPost \/ DoApi \/ DoCompiled \/ CompiledGivesUp \/ DoLogin
    \/ LoginRefused \/ DoArm \/ DoHeld \/ HeldGivesUp \/ DoLet \/ LetThrows \/ DoAgain \/ DoDiscard
    \/ ButtonMissing \/ Finish \/ Drained \/ TimerFires
PageStep == Pause \/ Answer \/ PageRetries \/ PagePolls
Fault == FetchFails \/ \E how \in {"dead", "wedged"} : ChromeFails(how)

Next == ScriptStep \/ PageStep \/ CompileEnds \/ Fault
Spec == Init /\ [][Next]_vars
\* Node and Chrome go on as long as they can; a compile the script waits for ends.
FairSpec == Spec /\ WF_vars(ScriptStep) /\ WF_vars(PageStep) /\ WF_vars(CompileEnds)

-----------------------------------------------------------------------------
(* Numbers are not bounded: a script may add to a count as often as it asks.*)
Request == [state : {"none", "sent", "going", "paused", "refused"}, kind : {"load", "act", "poll"},
            key : ServerKey, how : {"none", "add", "set", "flip"}, val : Int]
ChecksTypeOK ==
    /\ script \in Script /\ pc \in 1..(Steps + 1) /\ code \in {Running, 0, 1, 2, 13}
    /\ failed \in BOOLEAN /\ chrome \in {"up", "wedged", "dead", "reaped"}
    /\ world \in [ServerKey -> Int] /\ page \in [Key -> Int] /\ req \in Request
    /\ filter \subseteq {"load", "act", "poll"}
    /\ queue \in Seq({"live", "stale"}) /\ hand \in {"none", "live", "stale"}
    /\ faults \in 0..MaxFaults

(* Against a fresh server and without a fault of the machine, no check of   *)
(* any script fails: what each expects is what the page then shows.         *)
NoFalseAlarm == failed => faults > 0

(* Exit code 0 says that every step ran and every check passed.  One thing  *)
(* else ends with it, whatever failed before: Chrome dies while a script of *)
(* main().catch awaits an answer of it (no exception, missing page, abort,  *)
(* timer or last step after a failed check does).                          *)
ZeroMeansPassed ==
    code = 0 => IF pc > Steps THEN ~failed
                ELSE Ending[script].drained = 0 /\ chrome = "dead" /\ NeedsChrome

(* Every run ends, even when Chrome stops answering; except for a script    *)
(* without an overall timer, which then waits for ever.                     *)
EveryRunEnds == <>(code # Running \/ (chrome = "wedged" /\ Ending[script].timer = 0))

=============================================================================
