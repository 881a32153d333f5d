--------------------------- MODULE SessionsProofs ---------------------------
(***************************************************************************)
(* For any number of browsers, pages, sessions and requests, any lifetime  *)
(* and refresh age: the rows and the requests are type-correct, and a      *)
(* sign-in somebody ended has no session left and gets none back, unless   *)
(* another session of it lived, or was being minted, when it ended.  A     *)
(* link signs in once, a page's CSRF token fits its cookie, a sign-in is   *)
(* one device, and the sliding re-issue signs nobody out.                  *)
(***************************************************************************)
EXTENDS Sessions, FiniteSetTheorems, TLAPS

(* A session descends from a sign-in that has a row, and only a sign-in    *)
(* that has one is ended. *)
RootsMade ==
    /\ \A j \in Jti : Made(j) => Made(root[j])
    /\ \A r \in ended : Made(r)

(* A re-issue under way has a session it verified; while it has still to   *)
(* mint, that session's sign-in is not ended, or is known to be crossed;   *)
(* once it has minted, it has the new session too.                         *)
Reissuing(c) ==
    /\ call[c].kind = "read" /\ call[c].phase \in {"mint", "supersede"}
         => call[c].cookie \in Jti /\ Made(call[c].cookie)
    /\ call[c].kind = "read" /\ call[c].phase = "mint" /\ root[call[c].cookie] \in ended
         => root[call[c].cookie] \in crossed
    /\ call[c].kind = "read" /\ call[c].phase = "supersede" => call[c].fresh \in Jti
    /\ call[c].kind = "read" /\ call[c].phase = "answer" /\ call[c].fresh # None
         => call[c].cookie \in Jti

SessionsInv ==
    /\ SessionsTypeOK
    /\ RootsMade
    /\ \A c \in Client : Reissuing(c)
    /\ EndedStaysOut

-----------------------------------------------------------------------------
(* What the helpers of the handlers leave of the requests. *)

LEMMA IdleType == Idle \in Call
BY DEF Idle, Call, Kind, Phase, Cookie, Status

LEMMA AnswerEffect ==
    ASSUME SessionsTypeOK, NEW c \in Client, NEW s \in Status, NEW f \in Cookie,
           Answer(c, s, f)
    PROVE  /\ call' \in [Client -> Call]
           /\ call'[c].phase = "answer" /\ call'[c].kind = call[c].kind
           /\ call'[c].cookie = call[c].cookie /\ call'[c].fresh = f
           /\ \A d \in Client : d # c => call'[d] = call[d]
<1> DEFINE old == call[c]
           new == [old EXCEPT !.phase = "answer", !.status = s, !.fresh = f]
<1>1. call \in [Client -> Call] /\ old \in Call
  BY DEF SessionsTypeOK
<1>2. "answer" \in Phase
  BY DEF Phase
<1>3. /\ new \in Call /\ new.phase = "answer" /\ new.kind = old.kind
      /\ new.cookie = old.cookie /\ new.fresh = f
  BY <1>1, <1>2 DEF Call
<1>4. call' = [call EXCEPT ![c] = new]
  BY DEF Answer
<1> HIDE DEF new
<1> QED BY <1>1, <1>3, <1>4

LEMMA SendEffect ==
    ASSUME SessionsTypeOK, NEW c \in Client, NEW k \in Kind, NEW t \in 0..2, NEW g \in Cookie,
           Send(c, k, t, g)
    PROVE  /\ call' \in [Client -> Call]
           /\ call'[c].phase = "verify" /\ call'[c].kind = k
           /\ call'[c].cookie = jar[BrowserOf[c]] /\ call'[c].fresh = None
           /\ \A d \in Client : d # c => call'[d] = call[d]
<1>1. jar[BrowserOf[c]] \in Cookie
  BY ClientsAssumption DEF SessionsTypeOK
<1>2. [Idle EXCEPT !.kind = k, !.phase = "verify", !.cookie = jar[BrowserOf[c]],
                   !.try = t, !.target = g] \in Call
  BY <1>1 DEF Idle, Call, Phase, Cookie, Status
<1>3. LET call1 == [Idle EXCEPT !.kind = k, !.phase = "verify", !.cookie = jar[BrowserOf[c]],
                               !.try = t, !.target = g]
      IN  /\ call1.phase = "verify" /\ call1.kind = k
          /\ call1.cookie = jar[BrowserOf[c]] /\ call1.fresh = None
  BY DEF Idle
<1> QED BY <1>2, <1>3 DEF SessionsTypeOK, Send

LEMMA IdleEffect ==
    ASSUME SessionsTypeOK, NEW c \in Client, call' = [call EXCEPT ![c] = Idle]
    PROVE  /\ call' \in [Client -> Call]
           /\ call'[c] = Idle /\ Idle.kind = "none"
           /\ \A d \in Client : d # c => call'[d] = call[d]
BY IdleType DEF SessionsTypeOK, Idle

LEMMA PhaseEffect ==
    ASSUME SessionsTypeOK, NEW c \in Client, NEW p \in Phase,
           call' = [call EXCEPT ![c].phase = p]
    PROVE  /\ call' \in [Client -> Call]
           /\ call'[c].phase = p /\ call'[c].kind = call[c].kind
           /\ call'[c].cookie = call[c].cookie /\ call'[c].fresh = call[c].fresh
           /\ \A d \in Client : d # c => call'[d] = call[d]
BY DEF SessionsTypeOK, Call

LEMMA CookieEffect ==
    ASSUME SessionsTypeOK, NEW c \in Client, NEW k \in Cookie, TakeCookie(c, k)
    PROVE  jar' \in [Browser -> Cookie] /\ outdated' \subseteq Client
BY DEF SessionsTypeOK, TakeCookie

(* A handler step is a step of one request.                                *)
LEMMA OneClient ==
    ASSUME SessionsTypeOK, NEW c \in Client,
           \/ Load(c) \/ Verify(c) \/ Redeem(c) \/ CheckLink(c) \/ ConsumeNonce(c)
           \/ EndOne(c) \/ SignOut(c) \/ SignOutEverywhere(c) \/ Refuse(c) \/ Admit(c) \/ Retry(c)
           \/ DeliverRead(c) \/ DeliverRedeem(c) \/ DeliverWrite(c)
           \/ Supersede(c) \/ RevokeOne(c) \/ RevokeOthers(c) \/ Logout(c)
    PROVE  \A d \in Client : d # c => call'[d] = call[d]
<1>1. ASSUME NEW a, call' = [call EXCEPT ![c] = a] PROVE \A d \in Client : d # c => call'[d] = call[d]
  BY <1>1 DEF SessionsTypeOK
<1>2. ASSUME NEW k, NEW t, NEW g, Send(c, k, t, g) PROVE \A d \in Client : d # c => call'[d] = call[d]
  BY <1>2 DEF SessionsTypeOK, Send
<1>3. ASSUME NEW s, NEW f, Answer(c, s, f) PROVE \A d \in Client : d # c => call'[d] = call[d]
  BY <1>3 DEF SessionsTypeOK, Answer
<1>4. ASSUME NEW p, call' = [call EXCEPT ![c].phase = p]
      PROVE \A d \in Client : d # c => call'[d] = call[d]
  BY <1>4 DEF SessionsTypeOK
<1>5. CASE Load(c) \/ Redeem(c) \/ EndOne(c) \/ SignOut(c) \/ SignOutEverywhere(c) \/ Retry(c)
  BY <1>2, <1>5 DEF Load, Redeem, EndOne, SignOut, SignOutEverywhere, Click, Ask, Retry
<1>6. CASE DeliverRead(c) \/ DeliverRedeem(c) \/ DeliverWrite(c)
  BY <1>1, <1>2, <1>6 DEF DeliverRead, DeliverRedeem, DeliverWrite
<1>7. CASE Verify(c) \/ CheckLink(c) \/ ConsumeNonce(c) \/ Refuse(c) \/ Admit(c)
  BY <1>3, <1>4, <1>7 DEF Verify, CheckLink, ConsumeNonce, Refuse, Admit
<1>8. CASE Supersede(c) \/ RevokeOne(c) \/ RevokeOthers(c) \/ Logout(c)
  BY <1>3, <1>8 DEF Supersede, RevokeOne, RevokeOthers, Logout, Revoke
<1> QED BY <1>5, <1>6, <1>7, <1>8

LEMMA MintEffect ==
    ASSUME SessionsTypeOK, NEW j \in Jti, NEW r \in Jti, Mint(j, r)
    PROVE  /\ row' \in [Jti -> {"absent", "live", "revoked"}]
           /\ iat' \in [Jti -> 0..MaxNow]
           /\ root' \in [Jti -> Jti]
           /\ ~Made(j) /\ row'[j] = "live" /\ root'[j] = r
           /\ \A i \in Jti : i # j => row'[i] = row[i] /\ root'[i] = root[i]
BY DEF SessionsTypeOK, Mint, NextJti

LEMMA EndEffect ==
    ASSUME SessionsInv, NEW S, End(S)
    PROVE  /\ row' \in [Jti -> {"absent", "live", "revoked"}]
           /\ ended' \subseteq Jti /\ crossed' \subseteq Jti
           /\ \A j \in Jti : Made(j) <=> Made(j)'
           /\ \A r \in ended' : Made(r)
           /\ ended \subseteq ended' /\ crossed \subseteq crossed'
           /\ \A r \in ended' \ ended : Minting(r) => r \in crossed'
           /\ \A j \in Jti : root[j] \in ended' \ crossed' => row'[j] # "live"
<1> DEFINE hit  == {root[j] : j \in S \cap {k \in Jti : row[k] = "live"}}
           left == {root[j] : j \in {k \in Jti \ S : row[k] = "live"}}
<1>1. /\ row' = [j \in Jti |-> IF j \in S /\ Made(j) THEN "revoked" ELSE row[j]]
      /\ ended' = ended \cup hit
      /\ crossed' = crossed \cup {r \in hit : r \in left \/ Minting(r)}
  BY DEF End
<1>2. row' \in [Jti -> {"absent", "live", "revoked"}]
  BY <1>1 DEF SessionsInv, SessionsTypeOK
<1>3. \A j \in Jti : Made(j) <=> Made(j)'
  BY <1>1 DEF Made
<1>4. \A r \in hit : r \in Jti /\ Made(r)
  <2> TAKE r \in hit
  <2>1. PICK j \in Jti : row[j] = "live" /\ r = root[j]
    OBVIOUS
  <2> QED BY <2>1 DEF SessionsInv, SessionsTypeOK, RootsMade, Made
<1>5. \A j \in Jti : root[j] \in ended' \ crossed' => row'[j] # "live"
  <2> SUFFICES ASSUME NEW j \in Jti, root[j] \in ended', root[j] \notin crossed'
               PROVE  row'[j] # "live"
    OBVIOUS
  <2>1. CASE root[j] \in ended
    <3>1. row[j] # "live"
      BY <1>1, <2>1 DEF SessionsInv, EndedStaysOut
    <3> QED BY <1>1, <3>1
  <2>2. CASE root[j] \in hit
    <3>1. root[j] \notin left
      BY <1>1, <2>2
    <3>2. j \in S \/ row[j] # "live"
      BY <3>1
    <3> QED BY <1>1, <3>2 DEF Made
  <2> QED BY <1>1, <2>1, <2>2
<1> HIDE DEF hit, left
<1> QED BY <1>1, <1>2, <1>3, <1>4, <1>5 DEF SessionsInv, SessionsTypeOK, RootsMade


-----------------------------------------------------------------------------
(* Type correctness, action by action. *)

LEMMA TypeQuiet ==
    ASSUME SessionsInv, NEW c \in Client,
           \/ Load(c) \/ Verify(c) \/ Redeem(c) \/ CheckLink(c) \/ ConsumeNonce(c)
           \/ EndOne(c) \/ SignOut(c) \/ SignOutEverywhere(c) \/ Refuse(c) \/ Admit(c) \/ Retry(c)
    PROVE  SessionsTypeOK'
<1> USE DEF data, pages, history
<1>0. /\ {"read", "redeem", "end", "others", "logout"} \subseteq Kind
      /\ {"mint", "answer"} \subseteq Phase /\ {"anonymous", "in", "refused"} \subseteq Status
      /\ None \in Cookie /\ Jti \subseteq Cookie
      /\ SessionsTypeOK /\ 1 \in 0..2 /\ 2 \in 0..2
  BY DEF Kind, Phase, Status, Cookie, SessionsInv
<1>1. ASSUME NEW k \in Kind, NEW g \in Cookie, Ask(c, k, g)
      PROVE  call' \in [Client -> Call] /\ sent' \in 0..MaxSent
  <2>1. call' \in [Client -> Call]
    BY <1>0, <1>1, SendEffect DEF Ask
  <2>2. sent' \in 0..MaxSent
    BY <1>0, <1>1, TimeAssumption DEF Ask, SessionsTypeOK
  <2> QED BY <2>1, <2>2
<1>2. CASE Load(c)
  BY <1>0, <1>1, <1>2 DEF Load, SessionsTypeOK, View
<1>3. CASE Verify(c)
  <2>1. call' \in [Client -> Call]
    BY <1>0, <1>3, AnswerEffect, PhaseEffect DEF Verify
  <2> QED BY <1>0, <1>3, <2>1 DEF Verify, SessionsTypeOK
<1>4. CASE Redeem(c)
  BY <1>0, <1>1, <1>4 DEF Redeem, SessionsTypeOK, View
<1>5. CASE CheckLink(c)
  <2>1. call' \in [Client -> Call]
    BY <1>0, <1>5, AnswerEffect, PhaseEffect DEF CheckLink, Phase
  <2> QED BY <1>0, <1>5, <2>1 DEF CheckLink, SessionsTypeOK
<1>6. CASE ConsumeNonce(c)
  <2>1. call' \in [Client -> Call]
    BY <1>0, <1>6, AnswerEffect, PhaseEffect DEF ConsumeNonce
  <2>2. straddled' \in BOOLEAN
    <3>1. straddled \in BOOLEAN
      BY <1>0 DEF SessionsTypeOK
    <3>2. straddled' = straddled \/ straddled' = (straddled \/ LinkExp < now)
      BY <1>6 DEF ConsumeNonce
    <3> QED BY <3>1, <3>2, Zenon
  <2>3. signIns' \in Nat
    BY <1>0, <1>6 DEF ConsumeNonce, SessionsTypeOK
  <2> QED BY <1>0, <1>6, <2>1, <2>2, <2>3 DEF ConsumeNonce, SessionsTypeOK
<1>7. CASE EndOne(c) \/ SignOut(c) \/ SignOutEverywhere(c)
  BY <1>0, <1>1, <1>7 DEF EndOne, SignOut, SignOutEverywhere, Click, SessionsTypeOK
<1>8. CASE Refuse(c) \/ Admit(c)
  <2>1. call' \in [Client -> Call]
    <3>1. CASE Refuse(c)
      BY <1>0, <3>1, AnswerEffect DEF Refuse
    <3>2. CASE Admit(c)
      <4>1. "revoke" \in Phase /\ "ok" \in Status
        BY DEF Phase, Status
      <4> QED BY <1>0, <3>2, <4>1, AnswerEffect, PhaseEffect DEF Admit
    <3> QED BY <1>8, <3>1, <3>2
  <2> QED BY <1>0, <1>8, <2>1 DEF Refuse, Admit, SessionsTypeOK
<1>9. CASE Retry(c)
  <2>1. call' \in [Client -> Call]
    BY <1>0, <1>9, SendEffect DEF Retry
  <2> QED BY <1>0, <1>9, <2>1 DEF Retry, SessionsTypeOK
<1> QED BY <1>2, <1>3, <1>4, <1>5, <1>6, <1>7, <1>8, <1>9

LEMMA TypeDeliver ==
    ASSUME SessionsInv, NEW c \in Client, DeliverRead(c) \/ DeliverRedeem(c) \/ DeliverWrite(c)
    PROVE  SessionsTypeOK'
<1> USE DEF data, pages, history
<1>0. /\ SessionsTypeOK /\ "logout" \in Kind /\ 1 \in 0..2 /\ None \in Cookie
      /\ call[c].fresh \in Cookie /\ call[c].cookie \in Cookie
  BY DEF Kind, Cookie, SessionsInv, SessionsTypeOK, Call
<1>1. CASE DeliverRead(c)
  <2>1. jar' \in [Browser -> Cookie] /\ outdated' \subseteq Client
    BY <1>0, <1>1, CookieEffect DEF DeliverRead, SessionsTypeOK
  <2>2. call' \in [Client -> Call]
    BY <1>0, <1>1, IdleEffect DEF DeliverRead
  <2>3. view' \in [Client -> View] /\ csrf' \in [Client -> Cookie]
    BY <1>0, <1>1 DEF DeliverRead, SessionsTypeOK, View, CsrfOf
  <2> QED BY <1>0, <1>1, <2>1, <2>2, <2>3 DEF DeliverRead, SessionsTypeOK
<1>2. CASE DeliverRedeem(c)
  <2>1. jar' \in [Browser -> Cookie] /\ outdated' \subseteq Client
    BY <1>0, <1>2, CookieEffect DEF DeliverRedeem, SessionsTypeOK
  <2>2. call' \in [Client -> Call]
    BY <1>0, <1>2, IdleEffect DEF DeliverRedeem
  <2> QED BY <1>0, <1>2, <2>1, <2>2 DEF DeliverRedeem, SessionsTypeOK
<1>3. CASE DeliverWrite(c)
  <2>1. jar' \in [Browser -> Cookie] /\ outdated' \subseteq Client
    BY <1>0, <1>3, CookieEffect DEF DeliverWrite, SessionsTypeOK
  <2>2. call' \in [Client -> Call]
    BY <1>0, <1>3, IdleEffect, SendEffect DEF DeliverWrite
  <2>3. view' \in [Client -> View]
    BY <1>0, <1>3 DEF DeliverWrite, SessionsTypeOK, View
  <2> QED BY <1>0, <1>3, <2>1, <2>2, <2>3 DEF DeliverWrite, SessionsTypeOK
<1> QED BY <1>1, <1>2, <1>3

LEMMA TypeRows ==
    ASSUME SessionsInv, NEW c \in Client,
           \/ Reissue(c) \/ MintLogin(c) \/ Supersede(c)
           \/ RevokeOne(c) \/ RevokeOthers(c) \/ Logout(c)
    PROVE  SessionsTypeOK'
<1> USE DEF data, pages, history
<1>0. /\ SessionsTypeOK /\ {"in", "ok"} \subseteq Status /\ None \in Cookie /\ Jti \subseteq Cookie
      /\ call[c] \in Call /\ call[c].fresh \in Cookie
  BY DEF Status, Cookie, SessionsInv, SessionsTypeOK, Call
<1>1. CASE Reissue(c)
  <2> DEFINE k == call[c].cookie
  <2>1. k \in Jti /\ root[k] \in Jti
    <3>1. Reissuing(c) /\ IsAt(c, "read", "mint")
      BY <1>1 DEF Reissue, SessionsInv
    <3> QED BY <1>0, <3>1 DEF Reissuing, IsAt, SessionsTypeOK
  <2>2. PICK j \in Jti : Mint(j, root[k])
           /\ call' = [call EXCEPT ![c].phase = "supersede", ![c].fresh = j]
    BY <1>1 DEF Reissue
  <2>3. call' \in [Client -> Call]
    BY <1>0, <2>2 DEF SessionsTypeOK, Call, Phase, Cookie
  <2>4. /\ row' \in [Jti -> {"absent", "live", "revoked"}]
        /\ iat' \in [Jti -> 0..MaxNow]
        /\ root' \in [Jti -> Jti]
    BY <1>0, <2>1, <2>2, MintEffect
  <2>5. doubled' \subseteq Jti
    <3>1. doubled' = doubled \/ doubled' = doubled \cup {root[k]}
      BY <1>1 DEF Reissue
    <3> QED BY <1>0, <2>1, <3>1 DEF SessionsTypeOK
  <2>6. UNCHANGED <<now, nonces, faults, jar, view, csrf, ended, crossed, lost, signIns,
                    straddled, outdated, sent>>
    BY <1>1 DEF Reissue
  <2> QED BY <1>0, <2>3, <2>4, <2>5, <2>6 DEF SessionsTypeOK
<1>2. CASE MintLogin(c)
  <2>1. PICK j \in Jti : Mint(j, j) /\ Answer(c, "ok", j)
    BY <1>2 DEF MintLogin
  <2>2. call' \in [Client -> Call]
    BY <1>0, <2>1, AnswerEffect
  <2>3. /\ row' \in [Jti -> {"absent", "live", "revoked"}]
        /\ iat' \in [Jti -> 0..MaxNow]
        /\ root' \in [Jti -> Jti]
    BY <1>0, <2>1, MintEffect
  <2> QED BY <1>0, <1>2, <2>2, <2>3 DEF MintLogin, SessionsTypeOK
<1>3. CASE Supersede(c)
  <2>1. call' \in [Client -> Call]
    BY <1>0, <1>3, AnswerEffect DEF Supersede
  <2>2. row' \in [Jti -> {"absent", "live", "revoked"}]
    BY <1>0, <1>3 DEF Supersede, SessionsTypeOK
  <2> QED BY <1>0, <1>3, <2>1, <2>2 DEF Supersede, SessionsTypeOK
<1>4. CASE RevokeOne(c) \/ RevokeOthers(c) \/ Logout(c)
  <2>1. call' \in [Client -> Call]
    BY <1>0, <1>4, AnswerEffect DEF RevokeOne, RevokeOthers, Logout, Revoke
  <2>2. /\ row' \in [Jti -> {"absent", "live", "revoked"}]
        /\ ended' \subseteq Jti /\ crossed' \subseteq Jti
    <3>1. PICK S : End(S)
      BY <1>4 DEF RevokeOne, RevokeOthers, Logout, Revoke
    <3> QED BY <3>1, EndEffect
  <2> QED BY <1>0, <1>4, <2>1, <2>2 DEF RevokeOne, RevokeOthers, Logout, Revoke, SessionsTypeOK
<1> QED BY <1>1, <1>2, <1>3, <1>4

LEMMA TypeFault ==
    ASSUME SessionsInv, NEW S \in SUBSET Client, Fail(S)
    PROVE  SessionsTypeOK'
<1>0. SessionsTypeOK /\ {"read", "none"} \subseteq Kind
  BY DEF Kind, SessionsInv
<1>1. \A c \in Client : AfterFailure(c) \in Call
  <2> DEFINE again == [Idle EXCEPT !.kind = "read", !.phase = "retry", !.try = 1]
  <2>1. again \in Call
    <3>1. "read" \in Kind /\ "retry" \in Phase /\ 1 \in 0..2
      BY DEF Kind, Phase
    <3> QED BY <3>1, IdleType DEF Call
  <2>2. \A c \in Client : AfterFailure(c) = again \/ AfterFailure(c) = Idle
    BY DEF AfterFailure
  <2> HIDE DEF again
  <2> QED BY <2>1, <2>2, IdleType
<1>2. call' \in [Client -> Call]
  BY <1>0, <1>1 DEF Fail, SessionsTypeOK
<1>3. \A c \in Client : ViewAfterFailure(c) \in View
  BY <1>0 DEF ViewAfterFailure, View, SessionsTypeOK
<1>4. view' \in [Client -> View]
  BY <1>0, <1>3 DEF Fail, SessionsTypeOK
<1>5. lost' \subseteq Jti
  <2>1. \A c \in Client : IsAt(c, "read", "answer") /\ call[c].fresh # None => call[c].cookie \in Jti
    BY DEF SessionsInv, Reissuing, IsAt
  <2> QED BY <1>0, <2>1 DEF Fail, SessionsTypeOK
<1>6. doubled' \subseteq Jti
  <2>1. \A c \in Client : IsAt(c, "read", "supersede") => root[call[c].cookie] \in Jti
    BY DEF SessionsInv, Reissuing, IsAt, SessionsTypeOK
  <2> QED BY <1>0, <2>1 DEF Fail, SessionsTypeOK
<1>7. faults' \in 0..MaxFaults
  BY <1>0, TimeAssumption DEF Fail, SessionsTypeOK
<1> QED BY <1>0, <1>2, <1>4, <1>5, <1>6, <1>7 DEF Fail, SessionsTypeOK

-----------------------------------------------------------------------------
(* The re-issues under way.                                                *)

LEMMA ReissuingKept ==
    ASSUME SessionsInv, NEW d \in Client, call'[d] = call[d],
           \A i \in Jti : Made(i) => Made(i)' /\ root'[i] = root[i],
           crossed \subseteq crossed',
           \A r \in ended' : r \in ended \/ (Minting(r) => r \in crossed')
    PROVE  Reissuing(d)'
<1>0. Reissuing(d)
  BY DEF SessionsInv
<1>1. ASSUME call[d].kind = "read", call[d].phase = "mint", root'[call[d].cookie] \in ended'
      PROVE  root'[call[d].cookie] \in crossed'
  <2>1. call[d].cookie \in Jti /\ root'[call[d].cookie] = root[call[d].cookie]
    BY <1>0, <1>1 DEF Reissuing
  <2>2. Minting(root[call[d].cookie])
    BY <1>1 DEF Minting
  <2> QED BY <1>0, <1>1, <2>1, <2>2 DEF Reissuing
<1> QED BY <1>0, <1>1 DEF Reissuing

LEMMA NotReissuing ==
    ASSUME NEW d \in Client,
           \/ call'[d].kind # "read"
           \/ call'[d].phase \notin {"mint", "supersede", "answer"}
           \/ call'[d].phase = "answer" /\ call'[d].fresh = None
    PROVE  Reissuing(d)'
BY DEF Reissuing

(* A step that writes no row and ends nothing. *)
LEMMA RowsQuiet ==
    ASSUME SessionsInv, UNCHANGED <<row, root, ended, crossed>>
    PROVE  /\ RootsMade' /\ EndedStaysOut'
           /\ \A d \in Client : call'[d] = call[d] => Reissuing(d)'
<1>1. RootsMade' /\ EndedStaysOut'
  BY DEF SessionsInv, RootsMade, EndedStaysOut, Made
<1>2. \A i \in Jti : Made(i) => Made(i)' /\ root'[i] = root[i]
  BY DEF Made
<1> QED BY <1>1, <1>2, ReissuingKept

LEMMA QuietStep ==
    ASSUME SessionsInv, NEW c \in Client,
           \/ Load(c) \/ Verify(c) \/ Redeem(c) \/ CheckLink(c) \/ ConsumeNonce(c)
           \/ EndOne(c) \/ SignOut(c) \/ SignOutEverywhere(c) \/ Refuse(c) \/ Admit(c) \/ Retry(c)
           \/ DeliverRead(c) \/ DeliverRedeem(c) \/ DeliverWrite(c)
    PROVE  RootsMade' /\ EndedStaysOut' /\ \A d \in Client : Reissuing(d)'
<1>0. /\ {"read", "redeem", "end", "others", "logout"} \subseteq Kind
      /\ {"mint", "answer", "consume"} \subseteq Phase
      /\ {"anonymous", "in", "refused"} \subseteq Status
      /\ None \in Cookie /\ Jti \subseteq Cookie
      /\ SessionsTypeOK /\ 1 \in 0..2 /\ 2 \in 0..2
  BY DEF Kind, Phase, Status, Cookie, SessionsInv
<1>1. UNCHANGED <<row, root, ended, crossed>>
  BY DEF data, pages, history, Load, Verify, Redeem, CheckLink, ConsumeNonce, EndOne, SignOut,
         SignOutEverywhere, Click, Refuse, Admit, Retry, DeliverRead, DeliverRedeem, DeliverWrite
<1>2. ASSUME NEW k \in Kind, NEW g \in Cookie, Ask(c, k, g)
      PROVE  call'[c].phase = "verify" /\ \A d \in Client : d # c => call'[d] = call[d]
  BY <1>0, <1>2, SendEffect DEF Ask
<1>3. /\ \A d \in Client : d # c => call'[d] = call[d]
      /\ Reissuing(c)'
  <2>1. CASE Load(c) \/ Redeem(c) \/ EndOne(c) \/ SignOut(c) \/ SignOutEverywhere(c)
    <3>1. PICK k \in Kind, g \in Cookie : Ask(c, k, g)
      BY <1>0, <2>1 DEF Load, Redeem, EndOne, SignOut, SignOutEverywhere, Click
    <3> QED BY <1>2, <3>1, NotReissuing
  <2>2. CASE Verify(c)
    <3>0. call[c].kind = "read"
      BY <2>2 DEF Verify, IsAt
    <3>1. CASE Answer(c, "anonymous", None) \/ Answer(c, "in", None)
      <4>1. /\ \A d \in Client : d # c => call'[d] = call[d]
            /\ call'[c].phase = "answer" /\ call'[c].fresh = None
        BY <1>0, <3>1, AnswerEffect
      <4> QED BY <4>1, NotReissuing
    <3>2. CASE SessionLive(call[c].cookie) /\ call' = [call EXCEPT ![c].phase = "mint"]
      <4>1. /\ \A d \in Client : d # c => call'[d] = call[d]
            /\ call'[c].phase = "mint" /\ call'[c].cookie = call[c].cookie
        BY <1>0, <3>2, PhaseEffect
      <4>2. call[c].cookie \in Jti /\ row[call[c].cookie] = "live"
        BY <3>2 DEF SessionLive
      <4>3. root[call[c].cookie] \in ended => root[call[c].cookie] \in crossed
        BY <4>2 DEF SessionsInv, EndedStaysOut
      <4> QED BY <1>1, <4>1, <4>2, <4>3 DEF Reissuing, Made
    <3> QED BY <2>2, <3>1, <3>2 DEF Verify
  <2>3. CASE CheckLink(c) \/ ConsumeNonce(c)
    <3>0. call[c].kind = "redeem"
      BY <2>3 DEF CheckLink, ConsumeNonce, IsAt
    <3>1. /\ \A d \in Client : d # c => call'[d] = call[d]
          /\ call'[c].kind = call[c].kind
      BY <1>0, <2>3, AnswerEffect, PhaseEffect DEF CheckLink, ConsumeNonce
    <3> QED BY <3>0, <3>1, NotReissuing
  <2>4. CASE Refuse(c)
    <3>1. /\ \A d \in Client : d # c => call'[d] = call[d]
          /\ call'[c].phase = "answer" /\ call'[c].fresh = None
      BY <1>0, <2>4, AnswerEffect DEF Refuse
    <3> QED BY <3>1, NotReissuing
  <2>7. CASE Admit(c)
    <3>0. call[c].kind # "read"
      BY <2>7 DEF Admit
    <3>1. /\ \A d \in Client : d # c => call'[d] = call[d]
          /\ call'[c].kind = call[c].kind
      <4>1. "revoke" \in Phase /\ "ok" \in Status
        BY DEF Phase, Status
      <4> QED BY <1>0, <2>7, <4>1, AnswerEffect, PhaseEffect DEF Admit
    <3> QED BY <3>0, <3>1, NotReissuing
  <2>5. CASE Retry(c)
    <3>1. /\ \A d \in Client : d # c => call'[d] = call[d]
          /\ call'[c].phase = "verify"
      BY <1>0, <2>5, SendEffect DEF Retry
    <3> QED BY <3>1, NotReissuing
  <2>6. CASE DeliverRead(c) \/ DeliverRedeem(c) \/ DeliverWrite(c)
    <3>1. call' = [call EXCEPT ![c] = Idle] \/ Send(c, "logout", 1, None)
      BY <2>6 DEF DeliverRead, DeliverRedeem, DeliverWrite
    <3>2. CASE call' = [call EXCEPT ![c] = Idle]
      <4>1. /\ \A d \in Client : d # c => call'[d] = call[d]
            /\ call'[c].kind = "none"
        BY <1>0, <3>2, IdleEffect
      <4> QED BY <4>1, NotReissuing
    <3>3. CASE Send(c, "logout", 1, None)
      <4>1. /\ \A d \in Client : d # c => call'[d] = call[d]
            /\ call'[c].phase = "verify"
        BY <1>0, <3>3, SendEffect
      <4> QED BY <4>1, NotReissuing
    <3> QED BY <3>1, <3>2, <3>3
  <2> QED BY <2>1, <2>2, <2>3, <2>4, <2>5, <2>6, <2>7
<1> QED BY <1>1, <1>3, RowsQuiet

LEMMA FaultStep ==
    ASSUME SessionsInv, NEW S \in SUBSET Client, Fail(S)
    PROVE  RootsMade' /\ EndedStaysOut' /\ \A d \in Client : Reissuing(d)'
<1>1. UNCHANGED <<row, root, ended, crossed>>
  BY DEF Fail
<1>2. ASSUME NEW d \in Client PROVE Reissuing(d)'
  <2>1. call'[d] = call[d] \/ call'[d] = AfterFailure(d)
    BY DEF Fail
  <2>2. CASE call'[d] = AfterFailure(d)
    <3>1. AfterFailure(d).phase = "retry" \/ AfterFailure(d).kind = "none"
      BY DEF AfterFailure, Idle
    <3> QED BY <2>2, <3>1, NotReissuing
  <2> QED BY <1>1, <2>1, <2>2, RowsQuiet
<1> QED BY <1>1, <1>2, RowsQuiet

-----------------------------------------------------------------------------
(* The steps that write rows. *)

(* A new row descends from itself, or from a sign-in that has a row and is *)
(* not ended unless it is crossed.                                         *)
LEMMA MintStep ==
    ASSUME SessionsInv, NEW j \in Jti, NEW r \in Jti, Mint(j, r),
           r = j \/ Made(r), r \in ended => r \in crossed, UNCHANGED <<ended, crossed>>
    PROVE  /\ RootsMade' /\ EndedStaysOut'
           /\ \A d \in Client : call'[d] = call[d] => Reissuing(d)'
<1>1. /\ ~Made(j) /\ row'[j] = "live" /\ root'[j] = r
      /\ \A i \in Jti : i # j => row'[i] = row[i] /\ root'[i] = root[i]
  BY MintEffect DEF SessionsInv
<1>2. \A i \in Jti : Made(i) => Made(i)' /\ root'[i] = root[i]
  BY <1>1 DEF Made
<1>3. \A i \in Jti : root[i] \in Jti
  BY DEF SessionsInv, SessionsTypeOK
<1>4. RootsMade'
  <2>1. \A i \in Jti : Made(i)' => i = j \/ Made(i)
    BY <1>1 DEF Made
  <2>2. \A i \in Jti : Made(i)' /\ i # j => row'[root[i]] # "absent"
    BY <1>2, <1>3, <2>1 DEF SessionsInv, RootsMade, Made
  <2>3. row'[j] # "absent" /\ row'[r] # "absent"
    BY <1>1, <1>2 DEF Made
  <2>4. \A i \in Jti : Made(i)' => row'[root'[i]] # "absent"
    BY <1>1, <2>2, <2>3
  <2>5. \A i \in ended : row'[i] # "absent"
    BY <1>2 DEF SessionsInv, SessionsTypeOK, RootsMade, Made
  <2> QED BY <2>4, <2>5 DEF RootsMade, Made
<1>5. EndedStaysOut'
  BY <1>1 DEF SessionsInv, EndedStaysOut
<1> QED BY <1>2, <1>4, <1>5, ReissuingKept

LEMMA RowsStep ==
    ASSUME SessionsInv, NEW c \in Client,
           \/ Reissue(c) \/ MintLogin(c) \/ Supersede(c)
           \/ RevokeOne(c) \/ RevokeOthers(c) \/ Logout(c)
    PROVE  RootsMade' /\ EndedStaysOut' /\ \A d \in Client : Reissuing(d)'
<1>0. /\ SessionsTypeOK /\ {"in", "ok"} \subseteq Status /\ None \in Cookie /\ Jti \subseteq Cookie
      /\ call[c] \in Call /\ call[c].fresh \in Cookie /\ Reissuing(c)
  BY DEF Status, Cookie, SessionsInv, SessionsTypeOK, Call
<1>1. CASE Reissue(c)
  <2> DEFINE k == call[c].cookie
  <2>1. k \in Jti /\ root[k] \in Jti /\ Made(k) /\ Made(root[k])
        /\ (root[k] \in ended => root[k] \in crossed)
    <3>1. IsAt(c, "read", "mint")
      BY <1>1 DEF Reissue
    <3> QED BY <1>0, <3>1 DEF IsAt, SessionsInv, Reissuing, SessionsTypeOK, RootsMade
  <2>2. PICK j \in Jti : Mint(j, root[k])
           /\ call' = [call EXCEPT ![c].phase = "supersede", ![c].fresh = j]
    BY <1>1 DEF Reissue
  <2>3. /\ call'[c].phase = "supersede" /\ call'[c].cookie = k /\ call'[c].fresh \in Jti
        /\ \A d \in Client : d # c => call'[d] = call[d]
    BY <1>0, <2>2 DEF SessionsTypeOK, Call
  <2>4. UNCHANGED <<ended, crossed>>
    BY <1>1 DEF Reissue
  <2>5. /\ RootsMade' /\ EndedStaysOut'
        /\ \A d \in Client : call'[d] = call[d] => Reissuing(d)'
    BY <2>1, <2>2, <2>4, MintStep
  <2>6. row'[k] # "absent"
    BY <1>0, <2>1, <2>2, MintEffect DEF Made
  <2>7. Reissuing(c)'
    BY <2>1, <2>3, <2>6 DEF Reissuing, Made
  <2> QED BY <2>3, <2>5, <2>7
<1>2. CASE MintLogin(c)
  <2>1. PICK j \in Jti : Mint(j, j) /\ Answer(c, "ok", j)
    BY <1>2 DEF MintLogin
  <2>2. UNCHANGED <<ended, crossed>>
    BY <1>2 DEF MintLogin, history
  <2>3. j \notin ended
    BY <1>0, <2>1, MintEffect DEF SessionsInv, RootsMade
  <2>4. /\ RootsMade' /\ EndedStaysOut'
        /\ \A d \in Client : call'[d] = call[d] => Reissuing(d)'
    BY <2>1, <2>2, <2>3, MintStep
  <2>5. call[c].kind = "redeem"
    BY <1>2 DEF MintLogin, IsAt
  <2>6. /\ \A d \in Client : d # c => call'[d] = call[d]
        /\ call'[c].kind = call[c].kind
    BY <1>0, <2>1, AnswerEffect
  <2> QED BY <2>4, <2>5, <2>6, NotReissuing
<1>3. CASE Supersede(c)
  <2> DEFINE k == call[c].cookie
  <2>1. k \in Jti /\ Made(k)
    BY <1>0, <1>3 DEF Supersede, IsAt, Reissuing
  <2>2. row' = [row EXCEPT ![k] = "revoked"] /\ UNCHANGED <<root, ended, crossed>>
    BY <1>3 DEF Supersede, history
  <2>3. /\ \A i \in Jti : Made(i)' <=> Made(i)
        /\ \A i \in Jti : row'[i] = "live" => row[i] = "live"
    BY <1>0, <2>1, <2>2 DEF Made, SessionsTypeOK
  <2>4. RootsMade' /\ EndedStaysOut'
    BY <1>0, <2>2, <2>3 DEF SessionsInv, SessionsTypeOK, RootsMade, EndedStaysOut, Made
  <2>5. /\ call'[c].cookie = k /\ call'[c].phase = "answer"
        /\ \A d \in Client : d # c => call'[d] = call[d]
    BY <1>0, <1>3, AnswerEffect DEF Supersede
  <2>6. Reissuing(c)'
    BY <2>1, <2>5 DEF Reissuing
  <2>7. \A d \in Client : call'[d] = call[d] => Reissuing(d)'
    BY <2>2, <2>3, ReissuingKept
  <2> QED BY <2>4, <2>5, <2>6, <2>7
<1>4. CASE RevokeOne(c) \/ RevokeOthers(c) \/ Logout(c)
  <2>1. PICK S : End(S)
    BY <1>4 DEF RevokeOne, RevokeOthers, Logout, Revoke
  <2>2. UNCHANGED root
    BY <1>4 DEF RevokeOne, RevokeOthers, Logout, Revoke
  <2>3. /\ \A j \in Jti : Made(j) <=> Made(j)'
        /\ \A r \in ended' : Made(r)
        /\ ended' \subseteq Jti /\ crossed \subseteq crossed'
        /\ \A r \in ended' \ ended : Minting(r) => r \in crossed'
        /\ \A j \in Jti : root[j] \in ended' \ crossed' => row'[j] # "live"
    BY <2>1, EndEffect
  <2>4. RootsMade' /\ EndedStaysOut'
    BY <1>0, <2>2, <2>3 DEF SessionsInv, SessionsTypeOK, RootsMade, EndedStaysOut, Made
  <2>5. /\ call'[c].phase = "answer" /\ call'[c].fresh = None
        /\ \A d \in Client : d # c => call'[d] = call[d]
    BY <1>0, <1>4, AnswerEffect DEF RevokeOne, RevokeOthers, Logout, Revoke
  <2>6. \A d \in Client : call'[d] = call[d] => Reissuing(d)'
    BY <2>2, <2>3, ReissuingKept
  <2> QED BY <2>4, <2>5, <2>6, NotReissuing
<1> QED BY <1>1, <1>2, <1>3, <1>4

-----------------------------------------------------------------------------
LEMMA SessionsInitInv ==
    ASSUME Init PROVE SessionsInv
<1>1. SessionsTypeOK
  <2>1. call \in [Client -> Call]
    BY IdleType DEF Init
  <2>2. MaxNow \in Nat /\ MaxFaults \in Nat /\ MaxSent \in Nat
    BY TimeAssumption
  <2>3. jar \in [Browser -> Cookie]
    BY JarAssumption DEF Init, Cookie
  <2>4. /\ row \in [Jti -> {"absent", "live", "revoked"}] /\ root \in [Jti -> Jti]
        /\ iat \in [Jti -> 0..MaxNow]
    BY <2>2 DEF Init
  <2>5. view \in [Client -> View] /\ csrf \in [Client -> Cookie]
    BY DEF Init, View, Cookie
  <2>6. nonces \in BOOLEAN /\ straddled \in BOOLEAN
    BY Zenon DEF Init
  <2>7. now \in 0..MaxNow /\ faults \in 0..MaxFaults /\ sent \in 0..MaxSent /\ signIns \in Nat
    BY <2>2 DEF Init
  <2>8. /\ ended \subseteq Jti /\ crossed \subseteq Jti /\ doubled \subseteq Jti
        /\ lost \subseteq Jti /\ outdated \subseteq Client
    BY DEF Init
  <2> QED BY <2>1, <2>3, <2>4, <2>5, <2>6, <2>7, <2>8 DEF SessionsTypeOK
<1>2. RootsMade /\ EndedStaysOut
  BY DEF Init, RootsMade, EndedStaysOut, Made
<1>3. \A c \in Client : Reissuing(c)
  BY DEF Init, Reissuing, Idle
<1> QED BY <1>1, <1>2, <1>3 DEF SessionsInv

LEMMA SessionsNextInv ==
    ASSUME SessionsInv, [Next]_vars PROVE SessionsInv'
<1>1. CASE Tick
  <2>1. SessionsTypeOK'
    BY <1>1, TimeAssumption DEF Tick, SessionsInv, SessionsTypeOK, pages, history
  <2>2. UNCHANGED <<row, root, ended, crossed, call>>
    BY <1>1 DEF Tick, pages, history
  <2> QED BY <2>1, <2>2, RowsQuiet DEF SessionsInv
<1>2. CASE Restart
  <2>1. Pending \in SUBSET Client
    BY DEF Pending
  <2> QED BY <1>2, <2>1, TypeFault, FaultStep DEF Restart, SessionsInv
<1>3. ASSUME NEW c \in Client,
             \/ Load(c) \/ Verify(c) \/ Redeem(c) \/ CheckLink(c) \/ ConsumeNonce(c)
             \/ EndOne(c) \/ SignOut(c) \/ SignOutEverywhere(c) \/ Refuse(c) \/ Admit(c) \/ Retry(c)
      PROVE  SessionsInv'
  BY <1>3, TypeQuiet, QuietStep DEF SessionsInv
<1>4. ASSUME NEW c \in Client, DeliverRead(c) \/ DeliverRedeem(c) \/ DeliverWrite(c)
      PROVE  SessionsInv'
  BY <1>4, TypeDeliver, QuietStep DEF SessionsInv
<1>5. ASSUME NEW c \in Client,
             \/ Reissue(c) \/ MintLogin(c) \/ Supersede(c)
             \/ RevokeOne(c) \/ RevokeOthers(c) \/ Logout(c)
      PROVE  SessionsInv'
  BY <1>5, TypeRows, RowsStep DEF SessionsInv
<1>6. ASSUME NEW c \in Client, LoseAnswer(c)
      PROVE  SessionsInv'
  <2>1. {c} \in SUBSET Client
    OBVIOUS
  <2> QED BY <1>6, <2>1, TypeFault, FaultStep DEF LoseAnswer, SessionsInv
<1>7. CASE UNCHANGED vars
  <2>1. SessionsTypeOK'
    BY <1>7 DEF vars, SessionsInv, SessionsTypeOK
  <2>2. UNCHANGED <<row, root, ended, crossed, call>>
    BY <1>7 DEF vars
  <2> QED BY <2>1, <2>2, RowsQuiet DEF SessionsInv
<1> QED BY <1>1, <1>2, <1>3, <1>4, <1>5, <1>6, <1>7 DEF Next

(* The rows, the cookies and the requests of the handlers hold what the    *)
(* code can store in them, whatever interleaves with whatever.             *)
THEOREM SessionsTypeCorrect == Spec => []SessionsTypeOK
<1>1. SessionsInv => SessionsTypeOK
  BY DEF SessionsInv
<1> QED BY <1>1, SessionsInitInv, SessionsNextInv, PTL DEF Spec

(* Ending a session, the other sessions or one's own (authroutes.py) is    *)
(* final: the sign-in gets no live row back from a re-issue, a redemption, *)
(* a retry or a restart, unless another session of it lived, or was being  *)
(* minted, at that moment.                                                 *)
THEOREM EndedSessionsStayOut == Spec => []EndedStaysOut
<1>1. SessionsInv => EndedStaysOut
  BY DEF SessionsInv
<1> QED BY <1>1, SessionsInitInv, SessionsNextInv, PTL DEF Spec

-----------------------------------------------------------------------------
(* The nonce, once claimed, stays in the table. *)
LinkInv == (signIns > 0 => nonces) /\ LinkSignsInOnce

LEMMA LinkStep ==
    ASSUME SessionsTypeOK, LinkInv, [Next]_vars PROVE LinkInv'
<1>1. (\E c \in Client : ConsumeNonce(c)) \/ UNCHANGED <<signIns, nonces, straddled>>
  <2>1. CASE Tick \/ Restart \/ UNCHANGED vars
    BY <2>1 DEF vars, history, Tick, Restart, Fail
  <2>2. ASSUME NEW c \in Client,
               \/ Load(c) \/ Verify(c) \/ Reissue(c) \/ Supersede(c) \/ DeliverRead(c)
               \/ Redeem(c) \/ CheckLink(c) \/ MintLogin(c) \/ DeliverRedeem(c)
        PROVE  UNCHANGED <<signIns, nonces, straddled>>
    BY <2>2 DEF data, history, Load, Verify, Reissue, Supersede, DeliverRead, Redeem,
                CheckLink, MintLogin, DeliverRedeem
  <2>3. ASSUME NEW c \in Client,
               \/ EndOne(c) \/ SignOut(c) \/ SignOutEverywhere(c) \/ Refuse(c) \/ Admit(c)
               \/ RevokeOne(c) \/ RevokeOthers(c) \/ Logout(c) \/ DeliverWrite(c)
               \/ LoseAnswer(c) \/ Retry(c)
        PROVE  UNCHANGED <<signIns, nonces, straddled>>
    BY <2>3 DEF data, history, EndOne, SignOut, SignOutEverywhere, Click, Refuse, Admit, RevokeOne,
                RevokeOthers, Logout, Revoke, DeliverWrite, LoseAnswer, Fail, Retry
  <2> QED BY <2>1, <2>2, <2>3 DEF Next
<1>2. CASE UNCHANGED <<signIns, nonces, straddled>>
  BY <1>2 DEF LinkInv, LinkSignsInOnce
<1>3. ASSUME NEW c \in Client, ConsumeNonce(c) PROVE LinkInv'
  <2>1. CASE Claimed
    BY <1>3, <2>1 DEF ConsumeNonce, LinkInv, LinkSignsInOnce
  <2>2. CASE ~Claimed
    <3>1. signIns' = signIns + 1 /\ nonces' /\ straddled' = (straddled \/ LinkExp < now)
      BY <1>3, <2>2 DEF ConsumeNonce
    <3>2. signIns' > 1 => signIns > 0
      BY <3>1 DEF SessionsTypeOK
    <3>3. signIns > 0 => LinkExp < now
      BY <2>2 DEF Claimed, LinkInv
    <3> QED BY <3>1, <3>2, <3>3 DEF LinkInv, LinkSignsInOnce
  <2> QED BY <2>1, <2>2
<1> QED BY <1>1, <1>2, <1>3

(* The link of a mail signs in once: only a redemption that is checked     *)
(* before the link expires and claims it after the prune forgot the first  *)
(* one signs in again (magiclink.py, identity_store.py).                   *)
THEOREM LinkSignsInOnceCorrect == Spec => []LinkSignsInOnce
<1>1. Init => LinkInv
  BY DEF Init, LinkInv, LinkSignsInOnce
<1>2. LinkInv => LinkSignsInOnce
  BY DEF LinkInv
<1> QED BY <1>1, <1>2, SessionsTypeCorrect, LinkStep, PTL DEF Spec

-----------------------------------------------------------------------------
(* A page that shows itself signed in has the token of its browser's       *)
(* cookie, and a request that asks carries that cookie, unless another     *)
(* part of the browser got one since; a page that asks or redeems shows    *)
(* nobody.                                                                 *)
TokenFits(d) ==
    /\ view[d] = "in" => csrf[d] = jar[BrowserOf[d]] \/ d \in outdated
    /\ call[d].kind = "read" /\ call[d].phase # "retry"
         => call[d].cookie = jar[BrowserOf[d]] \/ d \in outdated
    /\ call[d].kind \in {"read", "redeem"} => view[d] # "in"

CsrfInv == SessionsTypeOK /\ \A d \in Client : TokenFits(d)

LEMMA Bystander ==
    ASSUME NEW d \in Client, TokenFits(d),
           call'[d] = call[d], view'[d] = view[d], csrf'[d] = csrf[d],
           \/ jar'[BrowserOf[d]] = jar[BrowserOf[d]] /\ (d \in outdated => d \in outdated')
           \/ d \in outdated'
    PROVE  TokenFits(d)'
BY DEF TokenFits

LEMMA CookieReaches ==
    ASSUME SessionsTypeOK, NEW c \in Client, NEW k, TakeCookie(c, k)
    PROVE  /\ jar'[BrowserOf[c]] = k
           /\ \A d \in Client : d # c =>
                \/ jar'[BrowserOf[d]] = jar[BrowserOf[d]] /\ (d \in outdated => d \in outdated')
                \/ d \in outdated'
BY ClientsAssumption DEF SessionsTypeOK, TakeCookie

(* A step that leaves cookies and tokens alone changes one client's request *)
(* to one that asks nothing, or to one that still asks with its cookie.     *)
LEMMA SameCookies ==
    ASSUME CsrfInv, NEW c \in Client, UNCHANGED <<jar, csrf, outdated>>,
           \A d \in Client : d # c => call'[d] = call[d] /\ view'[d] = view[d],
           view'[c] = view[c] \/ view'[c] # "in",
           \/ call'[c].kind = call[c].kind /\ call'[c].cookie = call[c].cookie
              /\ (call[c].phase # "retry" \/ call'[c].phase = "retry")
           \/ call'[c].kind \notin {"read", "redeem"}
           \/ call'[c].kind = "redeem" /\ view'[c] # "in"
    PROVE  \A d \in Client : TokenFits(d)'
<1>1. \A d \in Client : TokenFits(d)
  BY DEF CsrfInv
<1>2. ASSUME NEW d \in Client, d # c PROVE TokenFits(d)'
  BY <1>1, <1>2, Bystander
<1>3. TokenFits(c)'
  BY <1>1 DEF TokenFits
<1> QED BY <1>2, <1>3

LEMMA AskFits ==
    ASSUME CsrfInv, NEW c \in Client, Load(c) \/ Retry(c)
    PROVE  \A d \in Client : TokenFits(d)'
<1>0. /\ {"read"} \subseteq Kind /\ None \in Cookie /\ 1 \in 0..2 /\ 2 \in 0..2
      /\ SessionsTypeOK /\ \A d \in Client : TokenFits(d)
  BY DEF Kind, Cookie, CsrfInv
<1>1. /\ call'[c].cookie = jar[BrowserOf[c]] /\ call'[c].kind = "read"
      /\ \A d \in Client : d # c => call'[d] = call[d]
  BY <1>0, SendEffect DEF Load, Ask, Retry
<1>2. UNCHANGED <<jar, csrf>> /\ outdated' = outdated \ {c}
  BY DEF Load, Retry
<1>3. view'[c] # "in" /\ \A d \in Client : d # c => view'[d] = view[d]
  BY <1>0 DEF Load, Retry, IsAt, TokenFits, SessionsTypeOK
<1>4. ASSUME NEW d \in Client, d # c PROVE TokenFits(d)'
  BY <1>0, <1>1, <1>2, <1>3, <1>4, Bystander
<1>5. TokenFits(c)'
  BY <1>1, <1>2, <1>3 DEF TokenFits
<1> QED BY <1>4, <1>5

LEMMA WorkFits ==
    ASSUME CsrfInv, NEW c \in Client,
           \/ Verify(c) \/ Reissue(c) \/ Supersede(c) \/ CheckLink(c) \/ ConsumeNonce(c) \/ MintLogin(c)
           \/ Refuse(c) \/ Admit(c) \/ RevokeOne(c) \/ RevokeOthers(c) \/ Logout(c)
    PROVE  \A d \in Client : TokenFits(d)'
<1>0. /\ {"mint", "consume", "supersede"} \subseteq Phase
      /\ {"anonymous", "in", "ok", "refused"} \subseteq Status
      /\ None \in Cookie /\ Jti \subseteq Cookie /\ SessionsTypeOK
      /\ call[c] \in Call /\ call[c].fresh \in Cookie
  BY DEF Phase, Status, Cookie, CsrfInv, SessionsTypeOK, Call
<1>1. UNCHANGED <<jar, csrf, outdated, view>>
  BY DEF Verify, Reissue, Supersede, CheckLink, ConsumeNonce, MintLogin, Refuse, Admit, RevokeOne,
         RevokeOthers, Logout, Revoke, history
<1>2. call[c].phase # "retry"
  BY DEF Verify, Reissue, Supersede, CheckLink, ConsumeNonce, MintLogin, Refuse, Admit, RevokeOne,
         RevokeOthers, Logout, Revoke, IsAt
<1>3. /\ call'[c].kind = call[c].kind /\ call'[c].cookie = call[c].cookie
      /\ \A d \in Client : d # c => call'[d] = call[d]
  <2>1. CASE Reissue(c)
    <3>1. PICK j \in Jti : call' = [call EXCEPT ![c].phase = "supersede", ![c].fresh = j]
      BY <2>1 DEF Reissue
    <3>2. call' = [call EXCEPT ![c] = [call[c] EXCEPT !.phase = "supersede", !.fresh = j]]
      BY <3>1
    <3>3. call \in [Client -> Call]
      BY <1>0 DEF SessionsTypeOK
    <3>4. LET new == [call[c] EXCEPT !.phase = "supersede", !.fresh = j]
          IN  new.kind = call[c].kind /\ new.cookie = call[c].cookie
      BY <1>0 DEF Call
    <3> QED BY <3>2, <3>3, <3>4
  <2>2. CASE MintLogin(c)
    BY <1>0, <2>2, AnswerEffect DEF MintLogin
  <2>3. CASE Verify(c) \/ CheckLink(c) \/ ConsumeNonce(c)
    BY <1>0, <2>3, AnswerEffect, PhaseEffect DEF Verify, CheckLink, ConsumeNonce
  <2>4. CASE Supersede(c) \/ Refuse(c) \/ RevokeOne(c) \/ RevokeOthers(c) \/ Logout(c)
    BY <1>0, <2>4, AnswerEffect DEF Supersede, Refuse, RevokeOne, RevokeOthers, Logout, Revoke
  <2>5. CASE Admit(c)
    <3>1. "revoke" \in Phase
      BY DEF Phase
    <3> QED BY <1>0, <2>5, <3>1, AnswerEffect, PhaseEffect DEF Admit
  <2> QED BY <2>1, <2>2, <2>3, <2>4, <2>5
<1> QED BY <1>1, <1>2, <1>3, SameCookies

LEMMA ClickFits ==
    ASSUME CsrfInv, NEW c \in Client, Redeem(c) \/ EndOne(c) \/ SignOut(c) \/ SignOutEverywhere(c)
    PROVE  \A d \in Client : TokenFits(d)'
<1>0. /\ {"redeem", "end", "others", "logout"} \subseteq Kind /\ 1 \in 0..2
      /\ None \in Cookie /\ Jti \subseteq Cookie /\ SessionsTypeOK
  BY DEF Kind, Cookie, CsrfInv
<1>1. PICK k \in {"redeem", "end", "others", "logout"}, g \in Cookie :
         Ask(c, k, g) /\ (k = "redeem" => Redeem(c))
  BY <1>0 DEF Redeem, EndOne, SignOut, SignOutEverywhere, Click
<1>2. call'[c].kind = k /\ \A d \in Client : d # c => call'[d] = call[d]
  BY <1>0, <1>1, SendEffect DEF Ask
<1>3. /\ UNCHANGED <<jar, csrf, outdated>>
      /\ view'[c] = view[c] \/ view'[c] # "in"
      /\ k = "redeem" => view'[c] # "in"
      /\ \A d \in Client : d # c => view'[d] = view[d]
  BY <1>0, <1>1 DEF Redeem, EndOne, SignOut, SignOutEverywhere, Click, history, SessionsTypeOK
<1> QED BY <1>2, <1>3, SameCookies

LEMMA DeliverFits ==
    ASSUME CsrfInv, NEW c \in Client, DeliverRead(c) \/ DeliverRedeem(c) \/ DeliverWrite(c)
    PROVE  \A d \in Client : TokenFits(d)'
<1>0. /\ "logout" \in Kind /\ None \in Cookie /\ 1 \in 0..2
      /\ SessionsTypeOK /\ \A d \in Client : TokenFits(d)
  BY DEF Kind, Cookie, CsrfInv
<1>1. /\ call'[c].kind \notin {"read", "redeem"}
      /\ \A d \in Client : d # c => call'[d] = call[d]
  <2>1. call' = [call EXCEPT ![c] = Idle] \/ Send(c, "logout", 1, None)
    BY DEF DeliverRead, DeliverRedeem, DeliverWrite
  <2> QED BY <1>0, <2>1, SendEffect, IdleEffect
<1>2. \A d \in Client : d # c => view'[d] = view[d] /\ csrf'[d] = csrf[d]
  BY <1>0 DEF DeliverRead, DeliverRedeem, DeliverWrite, SessionsTypeOK
<1>3. UNCHANGED <<jar, outdated>> \/ \E k : TakeCookie(c, k)
  BY DEF DeliverRead, DeliverRedeem, DeliverWrite
<1>4. ASSUME NEW d \in Client, d # c PROVE TokenFits(d)'
  BY <1>0, <1>1, <1>2, <1>3, <1>4, Bystander, CookieReaches
<1>5. view'[c] = "in" => csrf'[c] = jar'[BrowserOf[c]] \/ c \in outdated'
  <2>1. CASE DeliverRead(c)
    <3>0. csrf'[c] = CsrfOf(call[c]) \/ view'[c] # "in"
      BY <1>0, <2>1 DEF DeliverRead, SessionsTypeOK
    <3>1. CASE call[c].fresh = None
      <4>1. UNCHANGED <<jar, outdated>>
        BY <2>1, <3>1 DEF DeliverRead
      <4>2. call[c].cookie = jar[BrowserOf[c]] \/ c \in outdated
        BY <1>0, <2>1 DEF DeliverRead, IsAt, TokenFits
      <4> QED BY <3>0, <3>1, <4>1, <4>2 DEF CsrfOf
    <3>2. CASE call[c].fresh # None
      <4>1. jar'[BrowserOf[c]] = call[c].fresh
        BY <1>0, <2>1, <3>2, CookieReaches DEF DeliverRead
      <4> QED BY <3>0, <3>2, <4>1 DEF CsrfOf
    <3> QED BY <3>1, <3>2
  <2>2. CASE DeliverRedeem(c)
    BY <1>0, <2>2 DEF DeliverRedeem, IsAt, TokenFits
  <2>3. CASE DeliverWrite(c)
    <3>1. CASE call[c].kind = "logout"
      BY <1>0, <2>3, <3>1 DEF DeliverWrite, SessionsTypeOK
    <3>2. CASE call[c].kind # "logout"
      <4>1. UNCHANGED <<jar, outdated, csrf>>
        BY <2>3, <3>2 DEF DeliverWrite
      <4>2. view'[c] = "in" => view[c] = "in"
        BY <1>0, <2>3 DEF DeliverWrite, SessionsTypeOK
      <4> QED BY <1>0, <4>1, <4>2 DEF TokenFits
    <3> QED BY <3>1, <3>2
  <2> QED BY <2>1, <2>2, <2>3
<1>6. TokenFits(c)'
  BY <1>1, <1>5 DEF TokenFits
<1> QED BY <1>4, <1>6

LEMMA FaultFits ==
    ASSUME CsrfInv, NEW S \in SUBSET Client, Fail(S)
    PROVE  \A d \in Client : TokenFits(d)'
<1>1. UNCHANGED <<jar, csrf, outdated>>
  BY DEF Fail
<1>2. ASSUME NEW d \in Client PROVE TokenFits(d)'
  <2>0. TokenFits(d)
    BY DEF CsrfInv
  <2>1. CASE d \notin S
    <3>1. call'[d] = call[d] /\ view'[d] = view[d]
      BY <2>1 DEF Fail
    <3> QED BY <1>1, <2>0, <3>1, Bystander
  <2>2. CASE d \in S
    <3>1. call'[d] = AfterFailure(d) /\ view'[d] = ViewAfterFailure(d)
      BY <2>2 DEF Fail
    <3>2. /\ AfterFailure(d).kind = "read" => AfterFailure(d).phase = "retry" /\ call[d].kind = "read"
          /\ AfterFailure(d).kind # "redeem"
      BY DEF AfterFailure, Idle
    <3>3. ViewAfterFailure(d) = view[d] \/ ViewAfterFailure(d) # "in"
      BY DEF ViewAfterFailure
    <3> QED BY <1>1, <2>0, <3>1, <3>2, <3>3 DEF TokenFits
  <2> QED BY <2>1, <2>2
<1> QED BY <1>2

LEMMA CsrfStep ==
    ASSUME CsrfInv, [Next]_vars PROVE \A d \in Client : TokenFits(d)'
<1>0. \A d \in Client : TokenFits(d)
  BY DEF CsrfInv
<1>1. CASE Tick \/ UNCHANGED vars
  <2>1. UNCHANGED <<jar, csrf, outdated, call, view>>
    BY <1>1 DEF Tick, pages, history, vars
  <2> QED BY <1>0, <2>1, Bystander
<1>2. CASE Restart
  BY <1>2, FaultFits DEF Restart, Pending
<1>3. ASSUME NEW c \in Client, LoseAnswer(c) PROVE \A d \in Client : TokenFits(d)'
  <2>1. {c} \in SUBSET Client
    OBVIOUS
  <2> QED BY <1>3, <2>1, FaultFits DEF LoseAnswer
<1> QED BY <1>1, <1>2, <1>3, AskFits, WorkFits, ClickFits, DeliverFits DEF Next

(* The token a page sends with its next write is the one of the cookie the *)
(* browser sends with it, however answers, retries, re-issues and sign-outs*)
(* of its parts interleave, unless another part got a cookie since the     *)
(* page asked (session.js, account.js).                                    *)
THEOREM CsrfTokensFit == Spec => []CsrfFits
<1>1. Init => CsrfInv
  <2>1. ASSUME Init PROVE \A d \in Client : TokenFits(d)
    BY <2>1 DEF Init, TokenFits, Idle
  <2> QED BY <2>1, SessionsInitInv DEF CsrfInv, SessionsInv
<1>2. CsrfInv => CsrfFits
  BY DEF CsrfInv, TokenFits, CsrfFits
<1>3. CsrfInv /\ [Next]_vars /\ SessionsTypeOK' => CsrfInv'
  BY CsrfStep DEF CsrfInv
<1> QED BY <1>1, <1>2, <1>3, SessionsTypeCorrect, PTL DEF Spec

-----------------------------------------------------------------------------
(* Of the live sessions of a sign-in, one at most is not the cookie of a   *)
(* re-issue between its mint and its revoke.                               *)
Superseded(i) == \E c \in Client : IsAt(c, "read", "supersede") /\ call[c].cookie = i
Kept(i) == row[i] = "live" /\ root[i] \notin doubled /\ ~Superseded(i)
OneKept == \A i, j \in Jti : Kept(i) /\ Kept(j) /\ root[i] = root[j] => i = j

(* A step that mints nothing, and takes no re-issue past its revoke        *)
(* without revoking or noting it.                                          *)
LEMMA KeptStays ==
    ASSUME OneKept, UNCHANGED root, doubled \subseteq doubled',
           \A i \in Jti : row'[i] = "live" => row[i] = "live",
           \A d \in Client :
              IsAt(d, "read", "supersede") =>
                 \/ call'[d] = call[d]
                 \/ row'[call[d].cookie] # "live"
                 \/ root[call[d].cookie] \in doubled'
    PROVE  OneKept'
<1>1. ASSUME NEW i \in Jti, Kept(i)' PROVE Kept(i)
  <2>1. ASSUME NEW d \in Client, IsAt(d, "read", "supersede"), call[d].cookie = i PROVE FALSE
    <3>1. call'[d] = call[d]
      BY <1>1, <2>1 DEF Kept
    <3>2. Superseded(i)'
      BY <2>1, <3>1 DEF Superseded, IsAt
    <3> QED BY <1>1, <3>2 DEF Kept
  <2> QED BY <1>1, <2>1 DEF Kept, Superseded
<1> QED BY <1>1 DEF OneKept

(* A sign-in starts with one session.                                      *)
LEMMA KeptLogin ==
    ASSUME SessionsInv, OneKept, NEW c \in Client, MintLogin(c)
    PROVE  OneKept'
<1>0. SessionsTypeOK /\ "ok" \in Status /\ Jti \subseteq Cookie
  BY DEF SessionsInv, Status, Cookie
<1>1. PICK j \in Jti : Mint(j, j) /\ Answer(c, "ok", j)
  BY DEF MintLogin
<1>2. /\ ~Made(j) /\ row'[j] = "live" /\ root'[j] = j
      /\ \A i \in Jti : i # j => row'[i] = row[i] /\ root'[i] = root[i]
  BY <1>0, <1>1, MintEffect
<1>3. /\ call'[c].kind = call[c].kind /\ call[c].kind = "redeem"
      /\ \A d \in Client : d # c => call'[d] = call[d]
  BY <1>0, <1>1, AnswerEffect DEF MintLogin, IsAt
<1>4. UNCHANGED doubled
  BY DEF MintLogin, history
<1>5. \A i \in Jti : Superseded(i)' <=> Superseded(i)
  BY <1>3 DEF Superseded, IsAt
<1>6. \A i \in Jti : i # j /\ Kept(i)' => Kept(i)
  BY <1>2, <1>4, <1>5 DEF Kept
<1>7. \A i \in Jti : i # j /\ Kept(i)' => root'[i] # root'[j]
  BY <1>2 DEF Kept, SessionsInv, RootsMade, Made
<1> QED BY <1>2, <1>6, <1>7 DEF OneKept

(* A re-issue makes the session it verified the superseded one, and the    *)
(* new one the session that is kept.                                       *)
LEMMA KeptReissue ==
    ASSUME SessionsInv, OneKept, NEW c \in Client, Reissue(c)
    PROVE  OneKept'
<1>a. PICK k \in Jti : k = call[c].cookie /\ Made(k)
  BY DEF SessionsInv, Reissue, IsAt, Reissuing
<1>0. SessionsTypeOK /\ root[k] \in Jti
  BY DEF SessionsInv, SessionsTypeOK
<1>1. PICK j \in Jti : Mint(j, root[k])
         /\ call' = [call EXCEPT ![c].phase = "supersede", ![c].fresh = j]
  BY <1>a DEF Reissue
<1>2. /\ ~Made(j) /\ row'[j] = "live" /\ root'[j] = root[k]
      /\ \A i \in Jti : i # j => row'[i] = row[i] /\ root'[i] = root[i]
  BY <1>0, <1>1, MintEffect
<1>3. /\ call'[c].phase = "supersede" /\ call'[c].kind = "read" /\ call'[c].cookie = k
      /\ \A d \in Client : d # c => call'[d] = call[d]
  <2>1. call[c].kind = "read"
    BY DEF Reissue, IsAt
  <2> QED BY <1>a, <1>0, <1>1, <2>1 DEF SessionsTypeOK, Call
<1>4. Superseded(k)' /\ \A i \in Jti : Superseded(i) => Superseded(i)'
  <2>1. call[c].phase = "mint"
    BY DEF Reissue, IsAt
  <2> QED BY <1>3, <2>1 DEF Superseded, IsAt
<1>5. doubled' = IF Overlaps(c) THEN doubled \cup {root[k]} ELSE doubled
  BY <1>a DEF Reissue
<1>6. \A i \in Jti : i # j /\ Kept(i)' => Kept(i) /\ i # k
  BY <1>2, <1>4, <1>5 DEF Kept
<1>7. ASSUME NEW i \in Jti, i # j, Kept(i)', root'[i] = root'[j] PROVE FALSE
  <2>1. Kept(i) /\ i # k /\ root[i] = root[k]
    BY <1>2, <1>6, <1>7
  <2>2. ~Overlaps(c)
    BY <1>2, <1>5, <1>7 DEF Kept
  <2>3. row[k] = "live"
    BY <1>a, <1>0, <2>2 DEF Overlaps, Made, SessionsTypeOK
  <2>4. ~Superseded(k)
    BY <1>a, <2>2 DEF Overlaps, Superseded, Reissue, IsAt
  <2>5. Kept(k)
    BY <2>1, <2>3, <2>4 DEF Kept
  <2> QED BY <1>0, <2>1, <2>5 DEF OneKept
<1> QED BY <1>2, <1>6, <1>7 DEF OneKept

LEMMA KeptQuiet ==
    ASSUME SessionsInv, OneKept, NEW c \in Client,
           \/ Load(c) \/ Verify(c) \/ Redeem(c) \/ CheckLink(c) \/ ConsumeNonce(c)
           \/ EndOne(c) \/ SignOut(c) \/ SignOutEverywhere(c) \/ Refuse(c) \/ Admit(c) \/ Retry(c)
           \/ DeliverRead(c) \/ DeliverRedeem(c) \/ DeliverWrite(c)
    PROVE  OneKept'
<1>1. UNCHANGED <<row, root, doubled>>
  BY DEF data, pages, history, Load, Verify, Redeem, CheckLink, ConsumeNonce, EndOne, SignOut,
         SignOutEverywhere, Click, Refuse, Admit, Retry, DeliverRead, DeliverRedeem, DeliverWrite
<1>2. ~IsAt(c, "read", "supersede")
  BY DEF Idle, IsAt, Ask, Load, Verify, Redeem, CheckLink, ConsumeNonce, EndOne, SignOut,
         SignOutEverywhere, Click, Refuse, Admit, Retry, DeliverRead, DeliverRedeem, DeliverWrite
<1>3. \A d \in Client : d # c => call'[d] = call[d]
  BY OneClient DEF SessionsInv
<1> QED BY <1>1, <1>2, <1>3, KeptStays

LEMMA KeptRows ==
    ASSUME SessionsInv, OneKept, NEW c \in Client,
           Supersede(c) \/ RevokeOne(c) \/ RevokeOthers(c) \/ Logout(c)
    PROVE  OneKept'
<1>0. SessionsTypeOK
  BY DEF SessionsInv
<1>1. UNCHANGED <<root, doubled>>
  BY DEF Supersede, RevokeOne, RevokeOthers, Logout, Revoke, history
<1>2. \A d \in Client : d # c => call'[d] = call[d]
  BY <1>0, OneClient
<1>3. CASE Supersede(c)
  <2>1. call[c].cookie \in Jti /\ row' = [row EXCEPT ![call[c].cookie] = "revoked"]
    BY <1>3 DEF Supersede, IsAt, SessionsInv, Reissuing
  <2>2. \A i \in Jti : row'[i] = "live" => row[i] = "live"
    BY <1>0, <2>1 DEF SessionsTypeOK
  <2>3. row'[call[c].cookie] # "live"
    BY <1>0, <2>1 DEF SessionsTypeOK
  <2> QED BY <1>1, <1>2, <2>2, <2>3, KeptStays
<1>4. CASE RevokeOne(c) \/ RevokeOthers(c) \/ Logout(c)
  <2>1. PICK S : End(S)
    BY <1>4 DEF RevokeOne, RevokeOthers, Logout, Revoke
  <2>2. \A i \in Jti : row'[i] = "live" => row[i] = "live"
    BY <2>1 DEF End
  <2>3. ~IsAt(c, "read", "supersede")
    BY <1>4 DEF RevokeOne, RevokeOthers, Logout, Revoke, IsAt
  <2> QED BY <1>1, <1>2, <2>2, <2>3, KeptStays
<1> QED BY <1>3, <1>4

LEMMA KeptFault ==
    ASSUME SessionsInv, OneKept, NEW S \in SUBSET Client, Fail(S)
    PROVE  OneKept'
<1>1. /\ UNCHANGED <<row, root>>
      /\ doubled' = doubled \cup {root[call[c].cookie] : c \in {d \in S : IsAt(d, "read", "supersede")}}
      /\ \A d \in Client \ S : call'[d] = call[d]
  BY DEF Fail
<1>2. \A d \in S : IsAt(d, "read", "supersede") => root[call[d].cookie] \in doubled'
  BY <1>1
<1> QED BY <1>1, <1>2, KeptStays

LEMMA KeptStep ==
    ASSUME SessionsInv, OneKept, [Next]_vars PROVE OneKept'
<1>1. CASE Tick \/ UNCHANGED vars
  <2>1. UNCHANGED <<row, root, doubled, call>>
    BY <1>1 DEF Tick, pages, history, vars
  <2> QED BY <2>1, KeptStays
<1>2. CASE Restart
  BY <1>2, KeptFault DEF Restart, Pending
<1>3. ASSUME NEW c \in Client, LoseAnswer(c) PROVE OneKept'
  <2>1. {c} \in SUBSET Client
    OBVIOUS
  <2> QED BY <1>3, <2>1, KeptFault DEF LoseAnswer
<1> QED BY <1>1, <1>2, <1>3, KeptQuiet, KeptRows, KeptLogin, KeptReissue DEF Next

(* The cookies of finitely many requests are no more than the requests.    *)
LEMMA CookiesOfRequests ==
    ASSUME NEW S, IsFiniteSet(S), NEW f, NEW T, \A t \in T : \E s \in S : f[s] = t
    PROVE  IsFiniteSet(T) /\ Cardinality(T) \in Nat /\ Cardinality(S) \in Nat
           /\ Cardinality(T) <= Cardinality(S)
<1> DEFINE pick == [t \in T |-> CHOOSE s \in S : f[s] = t]
<1>1. \A t \in T : pick[t] \in S /\ f[pick[t]] = t
  OBVIOUS
<1>2. pick \in [T -> S]
  BY <1>1
<1>3. \A t, u \in T : pick[t] = pick[u] => t = u
  BY <1>1
<1>4. pick \in Injection(T, S)
  BY <1>2, <1>3 DEF Injection, IsInjective
<1> HIDE DEF pick
<1> QED BY <1>4, FS_Injection, FS_CardinalityType

(* A sign-in is one device: the sliding re-issue gives it a second live    *)
(* session only between a mint and the revoke of the same request,         *)
(* whatever requests, restarts and lost answers come between, unless two   *)
(* re-issues of one session overlapped or one was cut short                *)
(* (AuthModule._session).                                                  *)
THEOREM OneDeviceCorrect == Spec => []OneDevicePerSignIn
<1>1. Init => OneKept
  BY DEF Init, OneKept, Kept
<1>2. SessionsInv /\ OneKept => OneDevicePerSignIn
  <2> SUFFICES ASSUME OneKept, NEW r \in Jti, r \notin doubled
               PROVE  Cardinality({j \in Jti : row[j] = "live" /\ root[j] = r})
                        <= 1 + Cardinality({c \in Client : IsAt(c, "read", "supersede")
                                                            /\ root[call[c].cookie] = r})
    BY DEF OneDevicePerSignIn
  <2> DEFINE L == {j \in Jti : row[j] = "live" /\ root[j] = r}
             U == {c \in Client : IsAt(c, "read", "supersede") /\ root[call[c].cookie] = r}
             O == {j \in L : Superseded(j)}
             f == [c \in U |-> call[c].cookie]
  <2>1. IsFiniteSet(U)
    BY ClientsAssumption, FS_Subset
  <2>2. \A t \in O : \E s \in U : f[s] = t
    BY DEF Superseded
  <2>3. /\ IsFiniteSet(O) /\ Cardinality(O) \in Nat /\ Cardinality(U) \in Nat
        /\ Cardinality(O) <= Cardinality(U)
    <3> HIDE DEF f, U, O
    <3> QED BY <2>1, <2>2, CookiesOfRequests
  <2>4. ASSUME L = O PROVE Cardinality(L) <= 1 + Cardinality(U)
    <3>1. Cardinality(L) = Cardinality(O)
      BY <2>4
    <3> HIDE DEF L, U, O
    <3> QED BY <2>3, <3>1
  <2>5. ASSUME L # O PROVE Cardinality(L) <= 1 + Cardinality(U)
    <3>1. PICK i \in L : ~Superseded(i)
      BY <2>5
    <3>2. L = O \cup {i}
      BY <3>1 DEF OneKept, Kept
    <3> HIDE DEF L, U, O
    <3>3. Cardinality(L) = IF i \in O THEN Cardinality(O) ELSE Cardinality(O) + 1
      BY <2>3, <3>2, FS_AddElement
    <3> QED BY <2>3, <3>3
  <2> QED BY <2>4, <2>5
<1>3. Spec => []SessionsInv
  BY SessionsInitInv, SessionsNextInv, PTL DEF Spec
<1> QED BY <1>1, <1>2, <1>3, KeptStep, PTL DEF Spec

-----------------------------------------------------------------------------
(* Every cookie, in a browser, with a request or on its way in an answer,  *)
(* has a row; a browser's cookie is in no other browser and with no        *)
(* other browser's requests; and one on its way is nowhere else yet.       *)
CookiesMade ==
    /\ \A b \in Browser : jar[b] # None => Made(jar[b])
    /\ \A c \in Client : /\ call[c].cookie # None => Made(call[c].cookie)
                         /\ call[c].fresh # None => Made(call[c].fresh)
OwnCookies ==
    /\ \A a, b \in Browser : jar[a] # None /\ jar[a] = jar[b] => a = b
    /\ \A c \in Client, b \in Browser : jar[b] # None /\ call[c].cookie = jar[b] => BrowserOf[c] = b
Unseen(c) ==
    call[c].fresh # None =>
       /\ \A b \in Browser : jar[b] # call[c].fresh
       /\ \A d \in Client : /\ call[d].cookie # call[c].fresh
                            /\ d # c => call[d].fresh # call[c].fresh
CookieInv == CookiesMade /\ OwnCookies /\ \A c \in Client : Unseen(c)

(* A session on its way to its browser is revoked only if it was ended.    *)
FreshLives ==
    \A c \in Client : call[c].fresh # None /\ row[call[c].fresh] = "revoked"
                        => root[call[c].fresh] \in ended
\* The answer that replaces the cookie of the request is on its way.
Replacing(c) == IsAt(c, "read", "answer") /\ call[c].fresh # None

RefreshInv == CookieInv /\ FreshLives /\ RefreshSignsNobodyOut

(* A step in which requests are sent with the cookie of the moment, keep   *)
(* theirs, or end.                                                         *)
LEMMA CookiesStay ==
    ASSUME SessionsTypeOK, CookieInv, UNCHANGED jar,
           \A i \in Jti : Made(i) => Made(i)',
           \A d \in Client : /\ call'[d].cookie \in {call[d].cookie, None, jar[BrowserOf[d]]}
                             /\ call'[d].fresh \in {call[d].fresh, None}
    PROVE  CookieInv'
<1>1. /\ \A b \in Browser : jar[b] \in Jti \cup {None}
      /\ \A d \in Client : /\ call[d].cookie \in Jti \cup {None} /\ call[d].fresh \in Jti \cup {None}
                           /\ BrowserOf[d] \in Browser
  BY ClientsAssumption DEF SessionsTypeOK, Cookie, Call
<1>2. CookiesMade'
  <2>1. \A i \in Jti \cup {None} : i # None /\ Made(i) => row'[i] # "absent"
    BY DEF Made
  <2> QED BY <1>1, <2>1 DEF CookieInv, CookiesMade, Made
<1>3. OwnCookies'
  BY <1>1 DEF CookieInv, OwnCookies
<1>4. ASSUME NEW d \in Client, call'[d].fresh # None PROVE Unseen(d)'
  <2>1. call'[d].fresh = call[d].fresh /\ Unseen(d)
    BY <1>4 DEF CookieInv
  <2> QED BY <1>1, <1>4, <2>1 DEF Unseen
<1> QED BY <1>2, <1>3, <1>4 DEF CookieInv, Unseen

(* A session is minted for one request.                                    *)
LEMMA CookieMinted ==
    ASSUME SessionsTypeOK, CookieInv, UNCHANGED jar, NEW c \in Client, NEW j \in Jti,
           ~Made(j), Made(j)', \A i \in Jti : Made(i) => Made(i)',
           call'[c].cookie = call[c].cookie, call'[c].fresh = j,
           \A d \in Client : d # c => call'[d] = call[d]
    PROVE  CookieInv'
<1>1. /\ \A b \in Browser : jar[b] \in Jti \cup {None}
      /\ \A d \in Client : call[d].cookie \in Jti \cup {None} /\ call[d].fresh \in Jti \cup {None}
      /\ \A d \in Client : call'[d].cookie = call[d].cookie
  BY DEF SessionsTypeOK, Cookie, Call
<1>2. CookiesMade'
  <2>1. \A i \in Jti \cup {None} : i # None /\ Made(i) => row'[i] # "absent"
    BY DEF Made
  <2> QED BY <1>1, <2>1 DEF CookieInv, CookiesMade, Made
<1>3. OwnCookies'
  BY <1>1 DEF CookieInv, OwnCookies
<1>4. /\ \A b \in Browser : jar[b] # j
      /\ \A d \in Client : call[d].cookie # j /\ call[d].fresh # j
  BY JtiAssumption DEF CookieInv, CookiesMade
<1>5. Unseen(c)'
  BY <1>1, <1>4 DEF Unseen
<1>6. ASSUME NEW d \in Client, d # c PROVE Unseen(d)'
  BY <1>1, <1>4, <1>6 DEF CookieInv, Unseen
<1> QED BY <1>2, <1>3, <1>5, <1>6 DEF CookieInv

(* A browser takes the cookie of an answer, or drops its own.              *)
LEMMA CookieTaken ==
    ASSUME SessionsTypeOK, CookieInv, NEW c \in Client, NEW k \in {call[c].fresh, None},
           TakeCookie(c, k), UNCHANGED row, call'[c] = Idle,
           \A d \in Client : d # c => call'[d] = call[d]
    PROVE  CookieInv'
<1>1. /\ jar' = [jar EXCEPT ![BrowserOf[c]] = k] /\ jar \in [Browser -> Cookie]
      /\ Idle.cookie = None /\ Idle.fresh = None
  BY DEF TakeCookie, SessionsTypeOK, Idle
<1>2. \A b \in Browser : jar'[b] = IF b = BrowserOf[c] THEN k ELSE jar[b]
  BY <1>1
<1>3. \A d \in Client : BrowserOf[d] \in Browser
  BY ClientsAssumption
<1>4. CookiesMade'
  BY <1>1, <1>2 DEF CookieInv, CookiesMade, Made
<1>5. k # None => /\ \A b \in Browser : jar[b] # k
                  /\ \A d \in Client : call[d].cookie # k /\ (d # c => call[d].fresh # k)
  BY DEF CookieInv, Unseen
<1>6. OwnCookies'
  BY <1>1, <1>2, <1>3, <1>5 DEF CookieInv, OwnCookies
<1>7. ASSUME NEW d \in Client PROVE Unseen(d)'
  <2>1. CASE d = c
    BY <1>1, <2>1 DEF Unseen
  <2>2. CASE d # c
    BY <1>1, <1>2, <1>5, <2>2 DEF CookieInv, Unseen
  <2> QED BY <2>1, <2>2
<1> QED BY <1>4, <1>6, <1>7 DEF CookieInv

(* Rows are revoked as their sign-in is ended or as the answer that        *)
(* replaces them is on its way; browsers keep their cookie, drop it, or    *)
(* take one that was on its way; and an answer on its way to replace a     *)
(* cookie stays on it, is lost, or arrives.                                *)
LEMMA RefreshKept ==
    ASSUME SessionsTypeOK, RefreshInv, CookieInv', ended \subseteq ended', lost \subseteq lost',
           \A i \in Jti : row'[i] = "revoked" =>
              /\ root'[i] = root[i]
              /\ \/ row[i] = "revoked" \/ root[i] \in ended'
                 \/ \E d \in Client : call'[d].cookie = i /\ Replacing(d)',
           \A b \in Browser : \/ jar'[b] = jar[b] \/ jar'[b] = None
                              \/ \E d \in Client : jar'[b] = call[d].fresh,
           \A d \in Client : \/ call'[d] = call[d]
                             \/ Replacing(d) => \/ call[d].cookie \in lost'
                                                \/ jar'[BrowserOf[d]] # call[d].cookie,
           \A d \in Client : \/ call'[d].fresh \in {call[d].fresh, None}
                             \/ row'[call'[d].fresh] = "live"
    PROVE  RefreshInv'
<1>1. /\ \A b \in Browser : jar[b] \in Jti \cup {None}
      /\ \A d \in Client : call[d].fresh \in Jti \cup {None}
  BY DEF SessionsTypeOK, Cookie, Call
<1>2. ASSUME NEW d \in Client, call'[d].fresh # None, row'[call'[d].fresh] = "revoked"
      PROVE  root'[call'[d].fresh] \in ended'
  <2>1. call'[d].fresh = call[d].fresh /\ call[d].fresh \in Jti
    BY <1>1, <1>2
  <2>2. \A e \in Client : call'[e].cookie # call'[d].fresh
    BY <1>2 DEF CookieInv, Unseen
  <2> QED BY <1>2, <2>1, <2>2 DEF RefreshInv, FreshLives
<1>3. ASSUME NEW b \in Browser, NEW k \in Jti, jar'[b] = k, row'[k] = "revoked",
             root'[k] \notin ended', k \notin lost'
      PROVE  \E c \in Client : /\ BrowserOf[c] = b /\ IsAt(c, "read", "answer")'
                               /\ call'[c].cookie = k /\ call'[c].fresh # None
  <2>0. k # None
    BY JtiAssumption
  <2>1. CASE \E d \in Client : call'[d].cookie = k /\ Replacing(d)'
    BY <1>3, <2>0, <2>1 DEF CookieInv, OwnCookies, Replacing
  <2>2. CASE row[k] = "revoked" /\ jar[b] = k
    <3>1. PICK d \in Client : /\ BrowserOf[d] = b /\ IsAt(d, "read", "answer")
                              /\ call[d].cookie = k /\ call[d].fresh # None
      BY <1>3, <2>2 DEF RefreshInv, RefreshSignsNobodyOut
    <3>2. call'[d] = call[d]
      BY <1>3, <3>1 DEF Replacing
    <3> QED BY <3>1, <3>2 DEF IsAt
  <2>3. CASE row[k] = "revoked" /\ \E d \in Client : k = call[d].fresh
    BY <1>3, <2>0, <2>3 DEF RefreshInv, FreshLives
  <2> QED BY <1>3, <2>0, <2>1, <2>2, <2>3
<1> QED BY <1>2, <1>3 DEF RefreshInv, FreshLives, RefreshSignsNobodyOut

LEMMA RefreshAsk ==
    ASSUME SessionsInv, RefreshInv, NEW c \in Client,
           Load(c) \/ Redeem(c) \/ EndOne(c) \/ SignOut(c) \/ SignOutEverywhere(c) \/ Retry(c)
    PROVE  RefreshInv'
<1>0. /\ Kind = {"none", "read", "redeem", "end", "others", "logout"}
      /\ None \in Cookie /\ Jti \subseteq Cookie /\ SessionsTypeOK /\ 1 \in 0..2 /\ 2 \in 0..2
  BY DEF Kind, Cookie, SessionsInv
<1>1. UNCHANGED <<jar, row, root, ended, lost>>
  BY DEF data, history, Load, Redeem, EndOne, SignOut, SignOutEverywhere, Click, Retry
<1>2. \E k \in Kind, t \in 0..2, g \in Cookie : Send(c, k, t, g)
  BY <1>0 DEF Load, Redeem, EndOne, SignOut, SignOutEverywhere, Click, Ask, Retry
<1>3. /\ call'[c].cookie = jar[BrowserOf[c]] /\ call'[c].fresh = None
      /\ \A d \in Client : d # c => call'[d] = call[d]
  BY <1>0, <1>2, SendEffect
<1>4. ~Replacing(c)
  BY DEF Load, Redeem, EndOne, SignOut, SignOutEverywhere, Click, Ask, Retry, Replacing, IsAt, Idle
<1>5. CookieInv'
  BY <1>0, <1>1, <1>3, CookiesStay DEF RefreshInv, Made
<1> QED BY <1>0, <1>1, <1>3, <1>4, <1>5, RefreshKept

LEMMA RefreshWork ==
    ASSUME SessionsInv, RefreshInv, NEW c \in Client,
           \/ Verify(c) \/ CheckLink(c) \/ ConsumeNonce(c) \/ Refuse(c) \/ Admit(c)
           \/ RevokeOne(c) \/ RevokeOthers(c) \/ Logout(c)
    PROVE  RefreshInv'
<1>0. /\ {"mint", "consume"} \subseteq Phase /\ {"anonymous", "in", "ok", "refused"} \subseteq Status
      /\ None \in Cookie /\ SessionsTypeOK
  BY DEF Phase, Status, Cookie, SessionsInv
<1>1. UNCHANGED <<jar, root, lost>>
  BY DEF data, history, Verify, CheckLink, ConsumeNonce, Refuse, Admit, RevokeOne,
         RevokeOthers, Logout, Revoke
<1>2. /\ call'[c].cookie = call[c].cookie /\ call'[c].fresh \in {call[c].fresh, None}
      /\ \A d \in Client : d # c => call'[d] = call[d]
  <2>1. CASE Verify(c) \/ CheckLink(c) \/ ConsumeNonce(c)
    BY <1>0, <2>1, AnswerEffect, PhaseEffect DEF Verify, CheckLink, ConsumeNonce
  <2>2. CASE Refuse(c) \/ RevokeOne(c) \/ RevokeOthers(c) \/ Logout(c)
    BY <1>0, <2>2, AnswerEffect DEF Refuse, RevokeOne, RevokeOthers, Logout, Revoke
  <2>3. CASE Admit(c)
    <3>1. "revoke" \in Phase
      BY DEF Phase
    <3> QED BY <1>0, <2>3, <3>1, AnswerEffect, PhaseEffect DEF Admit
  <2> QED BY <2>1, <2>2, <2>3
<1>3. ~Replacing(c)
  BY DEF Verify, CheckLink, ConsumeNonce, Refuse, Admit, RevokeOne, RevokeOthers, Logout,
         Revoke, Replacing, IsAt
<1>4. /\ ended \subseteq ended'
      /\ \A i \in Jti : (Made(i) => Made(i)')
                        /\ (row'[i] = "revoked" => row[i] = "revoked" \/ root[i] \in ended')
  <2>1. CASE UNCHANGED <<row, ended>>
    BY <2>1 DEF Made
  <2>2. ASSUME NEW S, End(S)
        PROVE  \A i \in Jti : row'[i] = "revoked" => row[i] = "revoked" \/ root[i] \in ended'
    BY <1>0, <2>2 DEF End, Made, SessionsTypeOK
  <2>3. UNCHANGED <<row, ended>> \/ \E S : End(S)
    BY DEF data, history, Verify, CheckLink, ConsumeNonce, Refuse, Admit, RevokeOne,
           RevokeOthers, Logout, Revoke
  <2> QED BY <2>1, <2>2, <2>3, EndEffect
<1>5. CookieInv'
  BY <1>0, <1>1, <1>2, <1>4, CookiesStay DEF RefreshInv
<1> QED BY <1>0, <1>1, <1>2, <1>3, <1>4, <1>5, RefreshKept

LEMMA RefreshMint ==
    ASSUME SessionsInv, RefreshInv, NEW c \in Client, Reissue(c) \/ MintLogin(c)
    PROVE  RefreshInv'
<1>0. SessionsTypeOK /\ "ok" \in Status /\ Jti \subseteq Cookie /\ \A i \in Jti : root[i] \in Jti
  BY DEF SessionsInv, Status, Cookie, SessionsTypeOK
<1>1. UNCHANGED <<jar, ended, lost>>
  BY DEF Reissue, MintLogin, history
<1>2. ~Replacing(c)
  BY DEF Reissue, MintLogin, Replacing, IsAt
<1>3. PICK j \in Jti, r \in Jti :
         /\ Mint(j, r) /\ call'[c].cookie = call[c].cookie /\ call'[c].fresh = j
         /\ \A d \in Client : d # c => call'[d] = call[d]
  <2>1. CASE Reissue(c)
    <3>1. root[call[c].cookie] \in Jti
      BY <1>0, <2>1 DEF Reissue, IsAt, SessionsInv, Reissuing
    <3>2. PICK j \in Jti : /\ Mint(j, root[call[c].cookie])
                           /\ call' = [call EXCEPT ![c].phase = "supersede", ![c].fresh = j]
      BY <2>1 DEF Reissue
    <3>3. /\ call'[c].cookie = call[c].cookie /\ call'[c].fresh = j
          /\ \A d \in Client : d # c => call'[d] = call[d]
      BY <1>0, <3>2 DEF SessionsTypeOK, Call
    <3> QED BY <3>1, <3>2, <3>3
  <2>2. CASE MintLogin(c)
    <3>1. PICK j \in Jti : Mint(j, j) /\ Answer(c, "ok", j)
      BY <2>2 DEF MintLogin
    <3> QED BY <1>0, <3>1, AnswerEffect
  <2> QED BY <2>1, <2>2
<1>4. /\ ~Made(j) /\ row'[j] = "live"
      /\ \A i \in Jti : i # j => row'[i] = row[i] /\ root'[i] = root[i]
  BY <1>0, <1>3, MintEffect
<1>5. Made(j)' /\ \A i \in Jti : Made(i) => Made(i)'
  BY <1>4 DEF Made
<1>6. CookieInv'
  BY <1>0, <1>1, <1>3, <1>4, <1>5, CookieMinted DEF RefreshInv
<1> QED BY <1>0, <1>1, <1>2, <1>3, <1>4, <1>6, RefreshKept

(* A re-issue revokes the cookie of its own request only, and its answer   *)
(* brings the new one.                                                     *)
LEMMA RefreshSupersede ==
    ASSUME SessionsInv, RefreshInv, NEW c \in Client, Supersede(c)
    PROVE  RefreshInv'
<1>0. /\ SessionsTypeOK /\ "in" \in Status /\ call[c].fresh \in Cookie
      /\ call[c].cookie \in Jti /\ Made(call[c].cookie) /\ call[c].kind = "read"
  BY DEF SessionsInv, Status, SessionsTypeOK, Call, Supersede, IsAt, Reissuing
<1>1. /\ UNCHANGED <<jar, root, ended, lost>>
      /\ row' = [row EXCEPT ![call[c].cookie] = "revoked"]
  BY DEF Supersede, history
<1>2. /\ call'[c].cookie = call[c].cookie /\ call'[c].fresh = call[c].fresh
      /\ call'[c].phase = "answer" /\ call'[c].kind = "read"
      /\ \A d \in Client : d # c => call'[d] = call[d]
  BY <1>0, AnswerEffect DEF Supersede
<1>3. ~Replacing(c) /\ Replacing(c)'
  <2>1. call[c].fresh # None /\ call[c].phase = "supersede"
    BY JtiAssumption DEF Supersede, IsAt, SessionsInv, Reissuing
  <2> QED BY <1>2, <2>1 DEF Replacing, IsAt
<1>4. \A i \in Jti : /\ Made(i) => Made(i)'
                     /\ row'[i] = "revoked" => row[i] = "revoked" \/ i = call'[c].cookie
  BY <1>0, <1>1, <1>2 DEF Made, SessionsTypeOK
<1>5. CookieInv'
  BY <1>0, <1>1, <1>2, <1>4, CookiesStay DEF RefreshInv
<1> QED BY <1>0, <1>1, <1>2, <1>3, <1>4, <1>5, RefreshKept

LEMMA RefreshDeliver ==
    ASSUME SessionsInv, RefreshInv, NEW c \in Client,
           DeliverRead(c) \/ DeliverRedeem(c) \/ DeliverWrite(c)
    PROVE  RefreshInv'
<1>0. /\ SessionsTypeOK /\ {"logout"} \subseteq Kind /\ 1 \in 0..2 /\ None \in Cookie
      /\ jar \in [Browser -> Cookie] /\ BrowserOf[c] \in Browser
  BY ClientsAssumption DEF SessionsInv, SessionsTypeOK, Kind, Cookie
<1>1. UNCHANGED <<row, root, ended, lost>>
  BY DEF data, DeliverRead, DeliverRedeem, DeliverWrite
<1>2. \A i \in Jti : Made(i) => Made(i)'
  BY <1>1 DEF Made
<1>3. CASE UNCHANGED jar /\ ~Replacing(c)
  <2>1. call' = [call EXCEPT ![c] = Idle] \/ Send(c, "logout", 1, None)
    BY DEF DeliverRead, DeliverRedeem, DeliverWrite
  <2>2. /\ call'[c].cookie \in {None, jar[BrowserOf[c]]} /\ call'[c].fresh = None
        /\ \A d \in Client : d # c => call'[d] = call[d]
    BY <1>0, <2>1, SendEffect, IdleEffect DEF Idle
  <2>3. CookieInv'
    BY <1>0, <1>2, <1>3, <2>2, CookiesStay DEF RefreshInv
  <2> QED BY <1>0, <1>1, <1>3, <2>2, <2>3, RefreshKept
<1>4. CASE call' = [call EXCEPT ![c] = Idle] /\ \E k \in {call[c].fresh, None} : TakeCookie(c, k)
                                               /\ (Replacing(c) => k = call[c].fresh)
  <2>1. PICK k \in {call[c].fresh, None} : TakeCookie(c, k) /\ (Replacing(c) => k = call[c].fresh)
    BY <1>4
  <2>2. /\ call'[c] = Idle /\ Idle.fresh = None
        /\ \A d \in Client : d # c => call'[d] = call[d]
    BY <1>0, <1>4, IdleEffect DEF Idle
  <2>3. CookieInv'
    BY <1>0, <1>1, <2>1, <2>2, CookieTaken DEF RefreshInv
  <2>4. \A b \in Browser : jar'[b] = IF b = BrowserOf[c] THEN k ELSE jar[b]
    BY <1>0, <2>1 DEF TakeCookie
  <2>5. Replacing(c) => jar'[BrowserOf[c]] # call[c].cookie
    BY <1>0, <2>1, <2>4 DEF Replacing, RefreshInv, CookieInv, Unseen
  <2> QED BY <1>0, <1>1, <2>1, <2>2, <2>3, <2>4, <2>5, RefreshKept
<1>5. CASE DeliverRead(c)
  <2>1. CASE call[c].fresh = None
    BY <1>3, <1>5, <2>1 DEF DeliverRead, Replacing
  <2>2. CASE call[c].fresh # None
    BY <1>4, <1>5, <2>2 DEF DeliverRead
  <2> QED BY <2>1, <2>2
<1>6. CASE DeliverRedeem(c) \/ DeliverWrite(c)
  <2>1. ~Replacing(c)
    BY <1>6 DEF DeliverRedeem, DeliverWrite, Replacing, IsAt
  <2>2. UNCHANGED jar \/ /\ call' = [call EXCEPT ![c] = Idle]
                         /\ \E k \in {call[c].fresh, None} : TakeCookie(c, k)
    BY <1>6 DEF DeliverRedeem, DeliverWrite
  <2> QED BY <1>3, <1>4, <2>1, <2>2
<1> QED BY <1>5, <1>6

LEMMA RefreshFault ==
    ASSUME SessionsInv, RefreshInv, NEW S \in SUBSET Client, Fail(S)
    PROVE  RefreshInv'
<1>0. SessionsTypeOK
  BY DEF SessionsInv
<1>1. /\ UNCHANGED <<jar, row, root, ended>> /\ lost \subseteq lost'
      /\ \A d \in S : Replacing(d) => call[d].cookie \in lost'
      /\ \A d \in Client : IF d \in S THEN call'[d] = AfterFailure(d) ELSE call'[d] = call[d]
  BY DEF Fail, Replacing
<1>2. \A d \in Client : AfterFailure(d).cookie = None /\ AfterFailure(d).fresh = None
  BY DEF AfterFailure, Idle
<1>3. CookieInv'
  BY <1>0, <1>1, <1>2, CookiesStay DEF RefreshInv, Made
<1> QED BY <1>0, <1>1, <1>2, <1>3, RefreshKept

LEMMA RefreshStep ==
    ASSUME SessionsInv, RefreshInv, [Next]_vars PROVE RefreshInv'
<1>0. SessionsTypeOK
  BY DEF SessionsInv
<1>1. CASE Tick \/ UNCHANGED vars
  <2>1. UNCHANGED <<jar, call, row, root, ended, lost>>
    BY <1>1 DEF Tick, pages, history, vars
  <2>2. CookieInv'
    BY <1>0, <2>1, CookiesStay DEF RefreshInv, Made
  <2> QED BY <1>0, <2>1, <2>2, RefreshKept
<1>2. CASE Restart
  BY <1>2, RefreshFault DEF Restart, Pending
<1>3. ASSUME NEW c \in Client, LoseAnswer(c) PROVE RefreshInv'
  <2>1. {c} \in SUBSET Client
    OBVIOUS
  <2> QED BY <1>3, <2>1, RefreshFault DEF LoseAnswer
<1> QED BY <1>1, <1>2, <1>3, RefreshAsk, RefreshWork, RefreshMint, RefreshSupersede,
           RefreshDeliver DEF Next

(* Sliding a session's lifetime signs nobody out (the re-issue of          *)
(* AuthModule._session): a browser is left with a revoked cookie only      *)
(* if the session was ended, or if the answer that brings the new cookie   *)
(* is on its way or was lost.                                              *)
THEOREM RefreshKeepsSignedIn == Spec => []RefreshSignsNobodyOut
<1>1. Init => RefreshInv
  <2> SUFFICES ASSUME Init PROVE RefreshInv
    OBVIOUS
  <2>1. /\ jar = InitJar /\ \A c \in Client : call[c] = Idle
        /\ Idle.cookie = None /\ Idle.fresh = None
        /\ \A i \in Jti : row[i] # "revoked"
    BY DEF Init, Idle
  <2>2. \A b \in Browser : jar[b] # None => Made(jar[b])
    <3>1. \A b \in Browser : InitJar[b] # None => InitJar[b] \in Jti
      BY JarAssumption
    <3> QED BY <3>1 DEF Init, Made
  <2>3. \A a, b \in Browser : jar[a] # None /\ jar[a] = jar[b] => a = b
    BY <2>1, JarAssumption
  <2> QED BY <2>1, <2>2, <2>3 DEF RefreshInv, CookieInv, CookiesMade, OwnCookies, Unseen,
             FreshLives, RefreshSignsNobodyOut
<1>2. RefreshInv => RefreshSignsNobodyOut
  BY DEF RefreshInv
<1>3. Spec => []SessionsInv
  BY SessionsInitInv, SessionsNextInv, PTL DEF Spec
<1> QED BY <1>1, <1>2, <1>3, RefreshStep, PTL DEF Spec
=============================================================================
