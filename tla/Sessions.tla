------------------------------ MODULE Sessions ------------------------------
(***************************************************************************)
(* One account's browser sessions: the rows of the identity store, the     *)
(* handlers of hosted/authroutes.py that read and write them, the sliding  *)
(* re-issue of the cookie, the single-use sign-in link of                  *)
(* hosted/magiclink.py, and the page code that asks "who am I" with one    *)
(* retry (static/session.js) and signs out (static/account.js).            *)
(*                                                                         *)
(* Each handler runs on a thread of its own, and each store call is a      *)
(* transaction of its own: verify, mint and revoke are three steps, and    *)
(* the answer reaches the browser in a fourth.  A page asks twice: its     *)
(* boot code and the account menu are two Clients of one Browser.          *)
(*                                                                         *)
(* The variables from ended on are history: no action reads them.          *)
(***************************************************************************)
EXTENDS Integers, FiniteSets

CONSTANTS
    Browser, Client,   \* a client is one asking part of a page
    BrowserOf,         \* the browser a client runs in
    Menu,              \* the clients that are an account menu; the others are page code
    Jti,               \* session ids, handed out in increasing order
    InitJar,           \* the cookies the browsers start with
    None,
    Ttl, RefreshAfter, \* a session's lifetime, and the age it is re-issued at
    LinkExp,           \* when the sign-in link expires
    MaxNow, MaxFaults, \* bounds: the clock, lost answers and restarts,
    MaxSent            \* and the requests the pages make of themselves

ASSUME ClientsAssumption ==
    BrowserOf \in [Client -> Browser] /\ Menu \subseteq Client /\ IsFiniteSet(Client)
ASSUME JtiAssumption == Jti \subseteq Nat \ {0} /\ None \notin Jti
ASSUME JarAssumption ==
    /\ InitJar \in [Browser -> Jti \cup {None}]
    /\ \A a, b \in Browser : InitJar[a] = InitJar[b] => a = b \/ InitJar[a] = None
ASSUME TimeAssumption ==
    /\ {Ttl, RefreshAfter, LinkExp, MaxNow, MaxFaults, MaxSent} \subseteq Nat
    /\ RefreshAfter < Ttl

VARIABLES
    now,
    row,     \* the sessions table: "absent", "live" or "revoked"
    iat,     \* when a session was minted
    root,    \* history: the sign-in a session descends from
    jar,     \* the cookie a browser holds
    call,    \* the request of each client, and how far its handler is
    view,    \* what the client shows
    csrf,    \* the session whose CSRF token the client holds
    nonces,  \* the link's nonce is in the table
    faults, sent,
    ended,     \* the sign-ins whose session somebody ended
    crossed,   \* those ended while another session of theirs lived or was being minted
    doubled,   \* the sign-ins two re-issues overlapped on, or one was cut short
    lost,      \* the sessions whose replacement never reached the browser
    signIns,   \* how often the link signed in
    straddled, \* a redemption checked before the link expired, and consumed after it
    outdated   \* the clients whose browser got a cookie from another client since they asked

data == <<now, row, iat, root, nonces, faults>>
pages == <<jar, call, view, csrf, sent>>
history == <<ended, crossed, doubled, lost, signIns, straddled, outdated>>
vars == <<now, row, iat, root, jar, call, view, csrf, nonces, faults, sent,
          ended, crossed, doubled, lost, signIns, straddled, outdated>>

Cookie == Jti \cup {None}
Idle == [kind |-> "none", phase |-> "answer", cookie |-> None, try |-> 0,
         target |-> None, fresh |-> None, status |-> "none"]
Kind == {"none", "read", "redeem", "end", "others", "logout"}
Phase == {"verify", "mint", "supersede", "consume", "revoke", "answer", "retry"}
Status == {"none", "in", "anonymous", "ok", "refused"}
View == {"blank", "in", "signin", "unreachable"}
Call == [kind : Kind, phase : Phase, cookie : Cookie, try : 0..2,
         target : Cookie, fresh : Cookie, status : Status]

(* Every variable holds what the code can store in it; in particular no row *)
(* is minted in the future. *)
SessionsTypeOK ==
    /\ now \in 0..MaxNow
    /\ row \in [Jti -> {"absent", "live", "revoked"}]
    /\ iat \in [Jti -> 0..MaxNow]
    /\ root \in [Jti -> Jti]
    /\ jar \in [Browser -> Cookie]
    /\ call \in [Client -> Call]
    /\ view \in [Client -> View]
    /\ csrf \in [Client -> Cookie]
    /\ nonces \in BOOLEAN
    /\ faults \in 0..MaxFaults /\ sent \in 0..MaxSent
    /\ ended \subseteq Jti /\ crossed \subseteq Jti /\ doubled \subseteq Jti
    /\ lost \subseteq Jti
    /\ signIns \in Nat
    /\ straddled \in BOOLEAN
    /\ outdated \subseteq Client

-----------------------------------------------------------------------------
(* The store, and the test every request starts with. *)

Made(j) == row[j] # "absent"

SessionLiveByTime(c) == c \in Jti /\ Made(c) /\ now < iat[c] + Ttl
\* verify() and session_live(): the row is there, not revoked, not expired.
SessionLive(c) == c \in Jti /\ row[c] = "live" /\ now < iat[c] + Ttl
ShouldRefresh(c) == now - iat[c] >= RefreshAfter

LiveRows == {j \in Jti : SessionLive(j)}
NextJti(j) == ~Made(j) /\ \A k \in Jti : k < j => Made(k)

\* mint(): a new row, which descends from the sign-in r.
Mint(j, r) ==
    /\ NextJti(j)
    /\ row' = [row EXCEPT ![j] = "live"]
    /\ iat' = [iat EXCEPT ![j] = now]
    /\ root' = [root EXCEPT ![j] = r]

\* A re-issue of a session of the sign-in r that has verified and not yet minted.
Minting(r) == \E c \in Client :
                 call[c].kind = "read" /\ call[c].phase = "mint" /\ root[call[c].cookie] = r

\* Somebody ends the sessions of S: the rows go, and the history notes which
\* sign-ins ended, and which kept a session, or a re-issue on its way to one.
End(S) ==
    LET hit  == {root[j] : j \in S \cap {k \in Jti : row[k] = "live"}}
        left == {root[j] : j \in {k \in Jti \ S : row[k] = "live"}}
    IN  /\ row' = [j \in Jti |-> IF j \in S /\ Made(j) THEN "revoked" ELSE row[j]]
        /\ ended' = ended \cup hit
        /\ crossed' = crossed \cup {r \in hit : r \in left \/ Minting(r)}

-----------------------------------------------------------------------------
Init ==
    /\ now = 0
    /\ jar = InitJar
    /\ row = [j \in Jti |-> IF j \in {InitJar[b] : b \in Browser} THEN "live" ELSE "absent"]
    /\ iat = [j \in Jti |-> 0]
    /\ root = [j \in Jti |-> j]
    /\ call = [c \in Client |-> Idle]
    /\ view = [c \in Client |-> "blank"]
    /\ csrf = [c \in Client |-> None]
    /\ nonces = FALSE
    /\ faults = 0 /\ sent = 0
    /\ ended = {} /\ crossed = {} /\ doubled = {} /\ lost = {} /\ outdated = {}
    /\ signIns = 0 /\ straddled = FALSE

Tick == now < MaxNow /\ now' = now + 1
        /\ UNCHANGED <<row, iat, root, nonces, faults, pages, history>>

\* The request client c sends now carries the cookie of the moment.
Send(c, kind, try, target) ==
    call' = [call EXCEPT ![c] = [Idle EXCEPT !.kind = kind, !.phase = "verify",
                                   !.cookie = jar[BrowserOf[c]], !.try = try,
                                   !.target = target]]
Answer(c, status, fresh) ==
    call' = [call EXCEPT ![c].phase = "answer", ![c].status = status, ![c].fresh = fresh]
\* A page sends a request of its own accord.
Ask(c, kind, target) ==
    /\ call[c] = Idle
    /\ sent < MaxSent /\ sent' = sent + 1
    /\ Send(c, kind, 1, target)
IsAt(c, kind, phase) == call[c].kind = kind /\ call[c].phase = phase

-----------------------------------------------------------------------------
(* GET /auth/session, which slides the session's lifetime. *)

Load(c) ==
    /\ Ask(c, "read", None)
    /\ view' = [view EXCEPT ![c] = "blank"]
    /\ outdated' = outdated \ {c}
    /\ UNCHANGED <<data, jar, csrf, ended, crossed, doubled, lost, signIns, straddled>>

Verify(c) ==
    /\ IsAt(c, "read", "verify")
    /\ LET k == call[c].cookie
       IN  \/ ~SessionLive(k) /\ Answer(c, "anonymous", None)
           \/ SessionLive(k) /\ ~ShouldRefresh(k) /\ Answer(c, "in", None)
           \/ /\ SessionLive(k) /\ ShouldRefresh(k)
              /\ call' = [call EXCEPT ![c].phase = "mint"]
    /\ UNCHANGED <<data, jar, view, csrf, history, sent>>

\* Another re-issue of the same session is between its verify and its revoke, or done.
Overlaps(c) ==
    \/ row[call[c].cookie] = "revoked"
    \/ \E d \in Client \ {c} : IsAt(d, "read", "supersede") /\ call[d].cookie = call[c].cookie

Reissue(c) ==
    /\ IsAt(c, "read", "mint")
    /\ LET k == call[c].cookie
       IN  /\ \E j \in Jti :
                /\ Mint(j, root[k])
                /\ call' = [call EXCEPT ![c].phase = "supersede", ![c].fresh = j]
           /\ doubled' = IF Overlaps(c) THEN doubled \cup {root[k]} ELSE doubled
    /\ UNCHANGED <<now, nonces, faults, jar, view, csrf, ended, crossed, lost,
                   signIns, straddled, outdated, sent>>

SupersedeKeepsRow(c) ==
    /\ IsAt(c, "read", "supersede")
    /\ Answer(c, "in", call[c].fresh)
    /\ UNCHANGED <<data, jar, view, csrf, history, sent>>
SupersedeWithoutCookie(c) ==
    /\ IsAt(c, "read", "supersede")
    /\ row' = [row EXCEPT ![call[c].cookie] = "revoked"]
    /\ Answer(c, "in", None)
    /\ UNCHANGED <<now, iat, root, nonces, faults, jar, view, csrf, history, sent>>
\* The superseded row is revoked, and the answer brings the new cookie.
Supersede(c) ==
    /\ IsAt(c, "read", "supersede")
    /\ row' = [row EXCEPT ![call[c].cookie] = "revoked"]
    /\ Answer(c, "in", call[c].fresh)
    /\ UNCHANGED <<now, iat, root, nonces, faults, jar, view, csrf, history, sent>>

\* A cookie reaches the browser: its other clients asked before it.
TakeCookie(c, k) ==
    /\ jar' = [jar EXCEPT ![BrowserOf[c]] = k]
    /\ outdated' = (outdated \ {c}) \cup
                   {d \in Client \ {c} : BrowserOf[d] = BrowserOf[c]}

CsrfOfCookie(a) == a.cookie
\* The CSRF token of an answer: the fresh session's, if it brings one.
CsrfOf(a) == IF a.fresh # None THEN a.fresh ELSE a.cookie

DeliverRead(c) ==
    /\ IsAt(c, "read", "answer")
    /\ LET a == call[c]
       IN  /\ IF a.fresh = None THEN UNCHANGED <<jar, outdated>> ELSE TakeCookie(c, a.fresh)
           /\ view' = [view EXCEPT ![c] = IF a.status = "in" THEN "in" ELSE "signin"]
           /\ csrf' = [csrf EXCEPT ![c] = IF a.status = "in" THEN CsrfOf(a) ELSE None]
    /\ call' = [call EXCEPT ![c] = Idle]
    /\ UNCHANGED <<data, ended, crossed, doubled, lost, signIns, straddled, sent>>

-----------------------------------------------------------------------------
(* POST /auth/redeem: check the link, consume its nonce, mint a session.   *)

Redeem(c) ==
    /\ c \notin Menu
    /\ Ask(c, "redeem", None)
    /\ view' = [view EXCEPT ![c] = "blank"]
    /\ UNCHANGED <<data, jar, csrf, history>>

CheckLink(c) ==
    /\ IsAt(c, "redeem", "verify")
    /\ IF now < LinkExp THEN call' = [call EXCEPT ![c].phase = "consume"]
                        ELSE Answer(c, "refused", None)
    /\ UNCHANGED <<data, jar, view, csrf, history, sent>>

ClaimedToExpiry == nonces /\ ~(LinkExp <= now)
\* consume_nonce(): prune what has expired, then claim.
Claimed == nonces /\ ~(LinkExp < now)
ConsumeNonce(c) ==
    /\ IsAt(c, "redeem", "consume")
    /\ nonces' = TRUE
    /\ IF Claimed THEN Answer(c, "refused", None) /\ UNCHANGED <<signIns, straddled>>
       ELSE /\ call' = [call EXCEPT ![c].phase = "mint"]
            /\ signIns' = signIns + 1
            /\ straddled' = (straddled \/ LinkExp < now)
    /\ UNCHANGED <<now, row, iat, root, faults, jar, view, csrf, ended, crossed,
                   doubled, lost, outdated, sent>>

MintLogin(c) ==
    /\ IsAt(c, "redeem", "mint")
    /\ \E j \in Jti : Mint(j, j) /\ Answer(c, "ok", j)
    /\ UNCHANGED <<now, nonces, faults, jar, view, csrf, history, sent>>

DeliverRedeem(c) ==
    /\ IsAt(c, "redeem", "answer")
    /\ IF call[c].fresh = None THEN UNCHANGED <<jar, outdated>>
                               ELSE TakeCookie(c, call[c].fresh)
    /\ call' = [call EXCEPT ![c] = Idle]
    /\ UNCHANGED <<data, view, csrf, ended, crossed, doubled, lost, signIns, straddled, sent>>

-----------------------------------------------------------------------------
(* The device list, ending a session, signing out here and everywhere.     *)

Click(c, kind, target) ==
    /\ view[c] = "in"
    /\ Ask(c, kind, target)
    /\ UNCHANGED <<data, jar, view, csrf, history>>

\* The list the page shows may be old: any session made since may be on it.
EndOne(c) == c \notin Menu /\ \E t \in Jti : Made(t) /\ Click(c, "end", t)
SignOut(c) == c \in Menu /\ Click(c, "logout", None)
SignOutEverywhere(c) == c \notin Menu /\ Click(c, "others", None)

\* The session and the CSRF token a write needs.
Fits(c) == SessionLive(call[c].cookie) /\ csrf[c] = call[c].cookie

Refuse(c) ==
    /\ call[c].phase = "verify"
    /\ \/ call[c].kind \in {"end", "others"} /\ ~Fits(c)
       \/ call[c].kind = "logout" /\ SessionLive(call[c].cookie) /\ ~Fits(c)
    /\ Answer(c, "refused", None)
    /\ UNCHANGED <<data, jar, view, csrf, history, sent>>

\* A write that may go ahead has yet to reach the rows; a sign-out without a
\* session has none to end.
Admit(c) ==
    /\ call[c].kind \in {"end", "others", "logout"} /\ call[c].phase = "verify"
    /\ \/ Fits(c) /\ call' = [call EXCEPT ![c].phase = "revoke"]
       \/ /\ call[c].kind = "logout" /\ ~SessionLive(call[c].cookie)
          /\ Answer(c, "ok", None)
    /\ UNCHANGED <<data, jar, view, csrf, history, sent>>

Revoke(c, kind, S) ==
    /\ IsAt(c, kind, "revoke")
    /\ End(S)
    /\ Answer(c, "ok", None)
    /\ UNCHANGED <<now, iat, root, nonces, faults, jar, view, csrf, doubled, lost,
                   signIns, straddled, outdated, sent>>

RevokeOne(c) == Revoke(c, "end", {call[c].target})
RevokeOthers(c) == Revoke(c, "others", {j \in Jti : row[j] = "live"} \ {call[c].cookie})
Logout(c) == Revoke(c, "logout", {call[c].cookie})

\* endSession() repaints or leaves the page; signOutEverywhere() goes on to the
\* logout; the menu's sign-out leaves the page whatever the answer was.
DeliverWrite(c) ==
    LET a == call[c]
        b == BrowserOf[c]
        leaves == \/ a.kind = "logout"
                  \/ a.kind = "end" /\ a.status = "ok" /\ a.target = csrf[c]
    IN  /\ a.phase = "answer" /\ a.kind \in {"end", "others", "logout"}
        /\ IF a.kind = "others" /\ a.status = "ok"
           THEN Send(c, "logout", 1, None)
           ELSE call' = [call EXCEPT ![c] = Idle]
        /\ IF a.kind = "logout" /\ a.status = "ok" THEN TakeCookie(c, None)
                                                   ELSE UNCHANGED <<jar, outdated>>
        /\ view' = IF leaves THEN [view EXCEPT ![c] = "blank"] ELSE view
        /\ UNCHANGED <<data, csrf, ended, crossed, doubled, lost, signIns, straddled, sent>>

-----------------------------------------------------------------------------
(* Faults: an answer that never arrives, and a server restarted.           *)

\* read() asks once more; the second failure is "unreachable".  A failed
\* sign-out leaves the page too.
AfterFailure(c) ==
    IF call[c].kind = "read" /\ call[c].try = 1
    THEN [Idle EXCEPT !.kind = "read", !.phase = "retry", !.try = 1]
    ELSE Idle
ViewAfterFailure(c) ==
    IF call[c].kind = "read" /\ call[c].try = 2 THEN "unreachable"
    ELSE IF call[c].kind = "logout" THEN "blank" ELSE view[c]

Pending == {c \in Client : call[c] # Idle /\ call[c].phase # "retry"}

Fail(S) ==
    /\ faults < MaxFaults /\ faults' = faults + 1
    /\ call' = [c \in Client |-> IF c \in S THEN AfterFailure(c) ELSE call[c]]
    /\ view' = [c \in Client |-> IF c \in S THEN ViewAfterFailure(c) ELSE view[c]]
    /\ lost' = lost \cup {call[c].cookie : c \in {d \in S : IsAt(d, "read", "answer")
                                                           /\ call[d].fresh # None}}
    /\ doubled' = doubled \cup {root[call[c].cookie] : c \in {d \in S : IsAt(d, "read", "supersede")}}
    /\ UNCHANGED <<now, row, iat, root, nonces, jar, csrf, ended, crossed, signIns,
                   straddled, outdated, sent>>

LoseAnswer(c) == call[c] # Idle /\ call[c].phase = "answer" /\ Fail({c})
Restart == Pending # {} /\ Fail(Pending)

Retry(c) ==
    /\ IsAt(c, "read", "retry")
    /\ Send(c, "read", 2, None)
    /\ outdated' = outdated \ {c}
    /\ UNCHANGED <<data, jar, view, csrf, ended, crossed, doubled, lost, signIns,
                   straddled, sent>>

-----------------------------------------------------------------------------
Next ==
    \/ Tick
    \/ Restart
    \/ \E c \in Client :
         \/ Load(c) \/ Verify(c) \/ Reissue(c) \/ Supersede(c) \/ DeliverRead(c)
         \/ Redeem(c) \/ CheckLink(c) \/ ConsumeNonce(c) \/ MintLogin(c) \/ DeliverRedeem(c)
         \/ EndOne(c) \/ SignOut(c) \/ SignOutEverywhere(c)
         \/ Refuse(c) \/ Admit(c) \/ RevokeOne(c) \/ RevokeOthers(c) \/ Logout(c) \/ DeliverWrite(c)
         \/ LoseAnswer(c) \/ Retry(c)

Spec == Init /\ [][Next]_vars

-----------------------------------------------------------------------------
(* The link of a sign-in mail signs in once.  The expiry test and the      *)
(* claim of the nonce read two clocks: a redemption checked before the     *)
(* link expired may claim it after the prune has forgotten the first.      *)
LinkSignsInOnce == signIns > 1 => straddled

(* A sign-in that was ended has no session left, and gets none back,       *)
(* unless another session of it lived, or was being minted, when it ended. *)
EndedStaysOut ==
    \A j \in Jti : root[j] \in ended \ crossed => row[j] # "live"

(* A sign-in is one device: it has one live session, but for the moment    *)
(* between a re-issue's mint and its revoke, unless two re-issues of one   *)
(* session overlapped or one was cut short by a restart.                   *)
OneDevicePerSignIn ==
    \A r \in Jti \ doubled :
        Cardinality({j \in Jti : row[j] = "live" /\ root[j] = r})
          <= 1 + Cardinality({c \in Client : IsAt(c, "read", "supersede")
                                              /\ root[call[c].cookie] = r})

(* The re-issue signs nobody out: the cookie a browser holds is revoked    *)
(* only if somebody ended it, if the answer that replaces it is on its     *)
(* way, or if that answer was lost.                                        *)
RefreshSignsNobodyOut ==
    \A b \in Browser :
        LET k == jar[b]
        IN  k \in Jti /\ row[k] = "revoked"
              => \/ root[k] \in ended
                 \/ k \in lost
                 \/ \E c \in Client : /\ BrowserOf[c] = b /\ IsAt(c, "read", "answer")
                                      /\ call[c].cookie = k /\ call[c].fresh # None

(* The CSRF token a page holds is the one of the cookie its next write     *)
(* carries, unless another part of the same browser got a cookie since the *)
(* page asked.                                                             *)
CsrfFits ==
    \A c \in Client : view[c] = "in" /\ call[c] = Idle
        => csrf[c] = jar[BrowserOf[c]] \/ c \in outdated

(* "A sliding re-issue must not double the device count"                   *)
(* (authroutes.py:197): no sign-in has two live sessions at rest.          *)
NoPhantomDevice ==
    (\A c \in Client : call[c] = Idle /\ faults = 0) =>
        \A i, j \in LiveRows : root[i] = root[j] => i = j
=============================================================================
