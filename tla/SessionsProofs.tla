--------------------------- MODULE SessionsProofs ---------------------------
(* Proofs about Sessions, for any accounts, tokens, keys and requests and  *)
(* any lifetime.                                                           *)
EXTENDS Sessions, TLAPS

(* A new session is a valid token of age 0.                                *)
LEMMA NewIsValid ==
  ASSUME NEW u \in Users
  PROVE  NewSession(u) \in Tokens /\ Valid(NewSession(u)) /\ NewSession(u).user = u /\ NewSession(u).age = 0
BY SessionsAssumption DEF NewSession, Tokens, Ages, Valid

(* A token grows a tick older until it expires.                            *)
LEMMA OlderToken ==
  ASSUME NEW t \in Tokens
  PROVE  /\ Older(t) \in Tokens /\ Older(t).user = t.user
         /\ Valid(Older(t)) => Valid(t) /\ Older(t).age = t.age + 1
<1>1. CASE Valid(t)
  <2>1. Older(t) = [t EXCEPT !.age = @ + 1]
    BY <1>1 DEF Older
  <2>2. t.age \in Nat /\ t.age < Life /\ t.user \in Users
    BY <1>1, SessionsAssumption DEF Valid, Tokens, Ages
  <2>3. t.age + 1 \in Ages
    BY <2>2, SessionsAssumption DEF Ages
  <2> QED BY <1>1, <2>1, <2>2, <2>3 DEF Tokens
<1>2. CASE ~Valid(t)
  BY <1>2 DEF Older
<1> QED BY <1>1, <1>2

LEMMA OlderOther ==
  ASSUME NEW t, t \notin Tokens
  PROVE  Older(t) = t
BY DEF Older

(* Every token is of no API token's kind, and has an age.                  *)
LEMMA Apart ==
  /\ None \notin Tokens /\ \A t \in Tokens : t \notin ApiTokens /\ t.user \in Users /\ t.age \in Nat
BY SessionsAssumption DEF Tokens, Ages

-----------------------------------------------------------------------------
(* What no step but Tick undoes for the requests it does not touch.        *)
Grows ==
  /\ ended \subseteq ended'
  /\ \A k \in ApiTokens : apiRows[k] # None =>
       apiRows'[k] # None /\ (apiRows[k].state = "deleted" => apiRows'[k].state = "deleted")
  /\ \A u \in Users : left[u] <= left'[u]

LEMMA LifeIsInt == Life \in Nat /\ Life > 0
BY SessionsAssumption

(* What is left of a sign-in is a number, and so is the age of a session.  *)
LEMMA Numbers ==
  ASSUME TypeOK, NEW t \in Tokens
  PROVE  t.user \in Users /\ t.age \in Nat /\ left[t.user] \in Nat
<1>1. t.user \in Users /\ t.age \in Nat
  BY Apart
<1>2. left[t.user] \in Ages
  BY <1>1 DEF TypeOK
<1> QED BY <1>1, <1>2, LifeIsInt DEF Ages

LEMMA LeftStays ==
  ASSUME TypeOK, left' = left
  PROVE  \A u \in Users : left[u] <= left'[u]
BY LifeIsInt DEF TypeOK, Ages

LEMMA LeftRenewed ==
  ASSUME TypeOK, NEW u \in Users, left' = [left EXCEPT ![u] = Life]
  PROVE  left'[u] = Life /\ \A v \in Users : left[v] <= left'[v]
BY LifeIsInt DEF TypeOK, Ages

LEMMA BackedStays ==
  ASSUME TypeOK, TypeOK', Grows, NEW t, Backed(t)
  PROVE  Backed(t)'
<1> SUFFICES ASSUME t \in Tokens, Valid(t) PROVE t.age + left'[t.user] >= Life
  BY DEF Backed, Valid
<1>1. t.age + left[t.user] >= Life
  BY DEF Backed
<1>2. t.user \in Users /\ t.age \in Nat /\ left[t.user] \in Nat
  BY Numbers
<1>3. left'[t.user] \in Nat
  BY <1>2, LifeIsInt DEF TypeOK, Ages
<1>4. left[t.user] <= left'[t.user]
  BY <1>2 DEF Grows
<1> QED BY <1>1, <1>2, <1>3, <1>4, LifeIsInt

LEMMA CallStays ==
  ASSUME TypeOK, TypeOK', Grows, NEW c \in Calls \cup {None}, CallOK(c)
  PROVE  CallOK(c)'
<1>1. KnownCaller(c)'
  BY DEF CallOK, KnownCaller, Grows
<1>2. StaysBarred(c)'
  <2> SUFFICES ASSUME c # None, c.barred
               PROVE  /\ c.step \in {"sent", "validated", "accepted", "bridge"}
                      /\ c.cred \in ApiTokens => c.step = "sent" /\ apiRows'[c.cred].state = "deleted"
                      /\ c.cred \in Tokens /\ Valid(c.cred) =>
                           c.step # "bridge" /\ c.cred \in ended' /\ (c.step = "accepted" => c.doubt)
    BY DEF StaysBarred, Valid
  <2>1. /\ c.step \in {"sent", "validated", "accepted", "bridge"}
        /\ c.cred \in ApiTokens => c.step = "sent" /\ apiRows[c.cred].state = "deleted"
        /\ c.cred \in Tokens /\ Valid(c.cred) =>
             c.step # "bridge" /\ c.cred \in ended /\ (c.step = "accepted" => c.doubt)
    BY DEF CallOK, StaysBarred
  <2>2. c.cred \in ApiTokens => apiRows[c.cred] # None
    BY DEF CallOK, KnownCaller
  <2> QED BY <2>1, <2>2 DEF Grows
<1>3. CallBacked(c)'
  <2> SUFFICES ASSUME c # None PROVE Backed(c.cred)'
    BY DEF CallBacked
  <2>1. Backed(c.cred)
    BY DEF CallOK, CallBacked
  <2> QED BY <2>1, BackedStays
<1> QED BY <1>1, <1>2, <1>3 DEF CallOK

(* What is said of a call holds of the request that becomes it.            *)
LEMMA Becomes ==
  ASSUME NEW q \in Requests, NEW c, req'[q] = c, CallOK(c)'
  PROVE  CallOK(req[q])'
<1>1. KnownCaller(req[q])'
  BY DEF CallOK, KnownCaller
<1>2. StaysBarred(req[q])'
  BY DEF CallOK, StaysBarred
<1>3. CallBacked(req[q])'
  BY DEF CallOK, CallBacked, Backed
<1> QED BY <1>1, <1>2, <1>3 DEF CallOK

(* A request is changed to one that is fine, the others stay.              *)
LEMMA OneCall ==
  ASSUME IInv, TypeOK', Grows, NEW r \in Requests, NEW c, CallOK(c)',
         req' = [req EXCEPT ![r] = c]
  PROVE  \A q \in Requests : CallOK(req[q])'
<1> SUFFICES ASSUME NEW q \in Requests PROVE CallOK(req[q])'
  OBVIOUS
<1>1. req \in [Requests -> Calls \cup {None}]
  BY DEF IInv, TypeOK
<1>2. CASE q = r
  <2>1. req'[q] = c
    BY <1>1, <1>2
  <2> QED BY <2>1, Becomes
<1>3. CASE q # r
  <2>1. req'[q] = req[q] /\ req[q] \in Calls \cup {None}
    BY <1>1, <1>3
  <2>2. PICK d \in Calls \cup {None} : d = req[q]
    BY <2>1
  <2>3. CallOK(d)
    BY <2>2 DEF IInv
  <2>4. CallOK(d)'
    BY <2>3, CallStays DEF IInv
  <2> QED BY <2>1, <2>2, <2>4, Becomes
<1> QED BY <1>2, <1>3

(* No request is changed.                                                  *)
LEMMA NoCall ==
  ASSUME IInv, TypeOK', Grows, req' = req
  PROVE  \A q \in Requests : CallOK(req[q])'
<1> SUFFICES ASSUME NEW q \in Requests PROVE CallOK(req[q])'
  OBVIOUS
<1>1. PICK d \in Calls \cup {None} : d = req[q]
  BY DEF IInv, TypeOK
<1>2. CallOK(d)
  BY <1>1 DEF IInv
<1>3. CallOK(d)'
  BY <1>2, CallStays DEF IInv
<1> QED BY <1>1, <1>3, Becomes

LEMMA NoneIsFine == CallOK(None)'
BY DEF CallOK, KnownCaller, StaysBarred, CallBacked

-----------------------------------------------------------------------------
(* Types.                                                                  *)
LEMMA CallTypes ==
  ASSUME TypeOK, NEW r \in Requests, req[r] # None
  PROVE  /\ req[r] \in Calls /\ req[r].cred \in Tokens \cup ApiTokens
         /\ req[r] = [step |-> req[r].step, cred |-> req[r].cred,
                      barred |-> req[r].barred, doubt |-> req[r].doubt]
<1>1. req[r] \in Calls
  BY DEF TypeOK
<1> QED BY <1>1 DEF Calls

LEMMA SendTypes ==
  ASSUME TypeOK, NEW r \in Requests, NEW c \in Calls \cup {None}
  PROVE  [req EXCEPT ![r] = c] \in [Requests -> Calls \cup {None}]
BY DEF TypeOK

LEMMA CallIsTyped ==
  ASSUME NEW step \in {"sent", "validated", "accepted", "logout", "bridge", "trading"},
         NEW cred \in Tokens \cup ApiTokens
  PROVE  Call(step, cred) \in Calls
BY DEF Call, Calls

(* Whoever is behind a request that passed is a user.                      *)
LEMMA UserIsTyped ==
  ASSUME IInv, NEW r \in Requests, req[r] # None
  PROVE  UserOf(req[r].cred) \in Users
<1>1. req[r].cred \in Tokens \cup ApiTokens
  BY CallTypes DEF IInv
<1>2. CASE req[r].cred \in ApiTokens
  <2>1. apiRows[req[r].cred] # None
    BY <1>2 DEF IInv, CallOK, KnownCaller
  <2>2. apiRows[req[r].cred] \in ApiRows
    BY <1>2, <2>1 DEF IInv, TypeOK
  <2> QED BY <1>2, <2>2 DEF UserOf, ApiRows
<1>3. CASE req[r].cred \notin ApiTokens
  BY <1>1, <1>3, Apart DEF UserOf
<1> QED BY <1>2, <1>3

LEMMA PresentableTypes == TypeOK => Presentable \subseteq Tokens
BY DEF TypeOK, Presentable

LEMMA LoginTypes ==
  ASSUME TypeOK,
         StartLogin \/ CookiesExpire
           \/ (\E r \in Requests : (\E u \in Users : Callback(r, u)) \/ Bridge(r) \/ Logout(r))
  PROVE  TypeOK'
<1>1. CASE StartLogin
  BY <1>1 DEF StartLogin, TypeOK, identityVars
<1>2. CASE CookiesExpire
  <2>1. cookie' \in Tokens \cup {None}
    BY <1>2 DEF CookiesExpire, TypeOK
  <2> QED BY <1>2, <2>1 DEF CookiesExpire, TypeOK, identityVars
<1>3. ASSUME NEW r \in Requests, NEW u \in Users, Callback(r, u) PROVE TypeOK'
  <2>1. NewSession(u) \in Tokens
    BY NewIsValid
  <2>2. cookie' \in Tokens \cup {None}
    BY <1>3, <2>1 DEF Callback, TypeOK
  <2>3. req' \in [Requests -> Calls \cup {None}]
    BY <1>3, <2>1, CallIsTyped, SendTypes DEF Callback, Send, TypeOK
  <2>4. left' \in [Users -> Ages]
    BY <1>3, LifeIsInt DEF Callback, TypeOK, Ages
  <2>5. users' \subseteq Users /\ login' \in BOOLEAN /\ wants' \in BOOLEAN
    BY <1>3 DEF Callback, UpsertUser, TypeOK
  <2> QED BY <1>3, <2>2, <2>3, <2>4, <2>5 DEF Callback, TypeOK, identityVars
<1>4. ASSUME NEW r \in Requests, Bridge(r) PROVE TypeOK'
  <2>1. ASSUME NEW t \in Presentable,
               Send(r, [Call("bridge", t) EXCEPT !.barred = (left[t.user] = 0)])
        PROVE  req' \in [Requests -> Calls \cup {None}]
    <3>1. t \in Tokens
      BY PresentableTypes
    <3>2. [Call("bridge", t) EXCEPT !.barred = (left[t.user] = 0)] \in Calls
      BY <3>1 DEF Call, Calls
    <3> QED BY <2>1, <3>2, SendTypes DEF Send
  <2>2. req' \in [Requests -> Calls \cup {None}]
    BY <1>4, <2>1 DEF Bridge, TypeOK
  <2> QED BY <1>4, <2>2 DEF Bridge, TypeOK, identityVars
<1>5. ASSUME NEW r \in Requests, Logout(r) PROVE TypeOK'
  <2>1. req' \in [Requests -> Calls \cup {None}]
    BY <1>5, PresentableTypes, CallIsTyped, SendTypes DEF Logout, Send
  <2> QED BY <1>5, <2>1 DEF Logout, TypeOK, identityVars
<1> QED BY <1>1, <1>2, <1>3, <1>4, <1>5

LEMMA HandlerTypes ==
  ASSUME IInv, NEW r \in Requests,
         Trade(r) \/ Mint(r) \/ Revoke(r) \/ Request(r) \/ Validate(r) \/ Lookup(r) \/ Handle(r)
  PROVE  TypeOK'
<1> USE DEF IInv
<1>0. None \in Calls \cup {None}
  OBVIOUS
<1>1. CASE Trade(r)
  <2>1. req[r] \in Calls
    BY <1>1, CallTypes DEF Trade, At
  <2>2. [req[r] EXCEPT !.step = "trading"] \in Calls
    BY <2>1 DEF Calls
  <2>3. \/ req' = [req EXCEPT ![r] = [req[r] EXCEPT !.step = "trading"]]
        \/ req' = [req EXCEPT ![r] = None]
    BY <1>1, <2>1 DEF Trade, Return, TypeOK
  <2>4. req' \in [Requests -> Calls \cup {None}]
    BY <1>0, <2>2, <2>3, SendTypes
  <2> QED BY <1>1, <2>4 DEF Trade, TypeOK, identityVars
<1>2. CASE Mint(r)
  <2>1. req[r] # None /\ req[r].cred \in Tokens
    BY <1>2, CallTypes DEF Mint, At, CallOK, KnownCaller
  <2>2. req[r].cred.user \in Users /\ NewSession(req[r].cred.user) \in Tokens
    BY <2>1, Apart, NewIsValid
  <2>3. abroad' \subseteq Tokens
    BY <1>2, <2>2 DEF Mint, TypeOK
  <2>4. left' \in [Users -> Ages]
    BY <1>2, <2>2, LifeIsInt DEF Mint, TypeOK, Ages
  <2>5. req' \in [Requests -> Calls \cup {None}]
    BY <1>0, <1>2, SendTypes DEF Mint, Return
  <2> QED BY <1>2, <2>3, <2>4, <2>5 DEF Mint, TypeOK, identityVars
<1>3. CASE Revoke(r)
  <2>1. req[r] # None /\ req[r].cred \in Tokens
    BY <1>3, CallTypes DEF Revoke, At, CallOK, KnownCaller
  <2>2. cookie' \in Tokens \cup {None} /\ revoked' \subseteq Tokens /\ ended' \subseteq Tokens
    BY <1>3, <2>1 DEF Revoke, RevokeSession, TypeOK
  <2>3. req' \in [Requests -> Calls \cup {None}]
    BY <1>0, <1>3, SendTypes DEF Revoke, Return
  <2> QED BY <1>3, <2>2, <2>3 DEF Revoke, TypeOK, identityVars
<1>4. CASE Request(r)
  <2>1. PICK cred \in Credentials :
             Send(r, [Call("sent", cred) EXCEPT !.barred = Withdrawn(cred)])
    BY <1>4 DEF Request
  <2>2. cred \in Tokens \cup ApiTokens
    BY PresentableTypes DEF Credentials
  <2>3. Withdrawn(cred) \in BOOLEAN
    <3>1. CASE cred \in ApiTokens
      BY <3>1 DEF Withdrawn
    <3>2. CASE cred \notin ApiTokens
      BY <3>2 DEF Withdrawn
    <3> QED BY <3>1, <3>2
  <2>4. [Call("sent", cred) EXCEPT !.barred = Withdrawn(cred)] \in Calls
    BY <2>2, <2>3 DEF Call, Calls
  <2>5. req' \in [Requests -> Calls \cup {None}]
    BY <2>1, <2>4, SendTypes DEF Send
  <2> QED BY <1>4, <2>5 DEF Request, TypeOK, identityVars
<1>5. CASE Validate(r)
  <2>1. req[r] \in Calls
    BY <1>5, CallTypes DEF Validate, At
  <2>2. [req[r] EXCEPT !.step = "accepted"] \in Calls /\ [req[r] EXCEPT !.step = "validated"] \in Calls
    BY <2>1 DEF Calls
  <2>3. req' \in [Requests -> Calls \cup {None}]
    BY <1>0, <1>5, <2>2, SendTypes DEF Validate, Return
  <2> QED BY <1>5, <2>3 DEF Validate, TypeOK, identityVars
<1>6. CASE Lookup(r)
  <2>1. req[r] \in Calls
    BY <1>6, CallTypes DEF Lookup, At
  <2>2. /\ [req[r] EXCEPT !.step = "accepted"] \in Calls
        /\ [req[r] EXCEPT !.step = "accepted", !.doubt = TRUE] \in Calls
    BY <2>1 DEF Calls
  <2>3. \/ req' = [req EXCEPT ![r] = None]
        \/ req' = [req EXCEPT ![r] = [req[r] EXCEPT !.step = "accepted"]]
        \/ req' = [req EXCEPT ![r] = [req[r] EXCEPT !.step = "accepted", !.doubt = TRUE]]
    BY <1>6, <2>1 DEF Lookup, Return, TypeOK
  <2>4. req' \in [Requests -> Calls \cup {None}]
    BY <1>0, <2>2, <2>3, SendTypes
  <2> QED BY <1>6, <2>4 DEF Lookup, TypeOK, identityVars
<1>7. CASE Handle(r)
  <2>1. UserOf(req[r].cred) \in Users
    BY <1>7, UserIsTyped DEF Handle, At
  <2>2. apiRows' \in [ApiTokens -> ApiRows \cup {None}] /\ proof' \in SigningKeys \cup {None}
    <3>1. ASSUME NEW k \in ApiTokens, CreateToken(r, k) PROVE <2>2!1 /\ proof' = proof
      BY <2>1, <3>1 DEF CreateToken, ApiRows, TypeOK
    <3>2. ASSUME NEW k \in ApiTokens, DeleteToken(r, k) PROVE <2>2!1 /\ proof' = proof
      <4>1. apiRows[k] \in ApiRows
        BY <3>2 DEF DeleteToken, TypeOK
      <4>2. [apiRows[k] EXCEPT !.state = "deleted"] \in ApiRows
        BY <4>1 DEF ApiRows
      <4> QED BY <3>2, <4>2 DEF DeleteToken, TypeOK
    <3>3. ASSUME GetToken(r) PROVE <2>2
      BY <3>3 DEF GetToken, TypeOK
    <3> QED BY <1>7, <3>1, <3>2, <3>3 DEF Handle, TypeOK
  <2>3. req' \in [Requests -> Calls \cup {None}]
    BY <1>0, <1>7, SendTypes DEF Handle, Return
  <2> QED BY <1>7, <2>2, <2>3 DEF Handle, TypeOK
<1> QED BY <1>1, <1>2, <1>3, <1>4, <1>5, <1>6, <1>7

LEMMA TickTypes ==
  ASSUME TypeOK, Tick
  PROVE  TypeOK'
<1>1. \A t \in Tokens \cup {None} : Older(t) \in Tokens \cup {None}
  BY OlderToken, OlderOther, Apart
<1>2. cookie' \in Tokens \cup {None} /\ abroad' \subseteq Tokens
  BY <1>1, OlderToken DEF Tick, TypeOK
<1>3. req' \in [Requests -> Calls \cup {None}]
  <2> SUFFICES ASSUME NEW r \in Requests, req[r] # None
               PROVE  [req[r] EXCEPT !.cred = Older(@)] \in Calls
    BY DEF Tick
  <2>1. req[r] \in Calls /\ req[r].cred \in Tokens \cup ApiTokens
    BY CallTypes
  <2>2. Older(req[r].cred) \in Tokens \cup ApiTokens
    BY <2>1, OlderToken, OlderOther, Apart
  <2> QED BY <2>1, <2>2 DEF Calls
<1>4. revoked' \subseteq Tokens /\ ended' \subseteq Tokens
  BY OlderToken DEF Tick, TypeOK
<1>5. left' \in [Users -> Ages]
  BY LifeIsInt DEF Tick, TypeOK, Ages
<1> QED BY <1>2, <1>3, <1>4, <1>5 DEF Tick, TypeOK, identityVars

LEMMA OtherTypes ==
  ASSUME TypeOK,
         \/ SetSession \/ Clean \/ (\E k \in ApiTokens : ApiTokenExpires(k))
         \/ (\E k \in SigningKeys \cup {None} : Deploy(k)) \/ Refresh \/ AgentStart \/ ProofExpires
         \/ UNCHANGED vars
  PROVE  TypeOK'
<1>1. CASE Clean
  BY <1>1 DEF Clean, TypeOK, identityVars
<1>2. ASSUME NEW k \in ApiTokens, ApiTokenExpires(k) PROVE TypeOK'
  <2>1. apiRows[k] \in ApiRows
    BY <1>2 DEF ApiTokenExpires, IsLive, TypeOK
  <2>2. [apiRows[k] EXCEPT !.state = "expired"] \in ApiRows
    BY <2>1 DEF ApiRows
  <2>3. apiRows' \in [ApiTokens -> ApiRows \cup {None}]
    BY <1>2, <2>2 DEF ApiTokenExpires, TypeOK
  <2> QED BY <1>2, <2>3 DEF ApiTokenExpires, TypeOK, identityVars
<1>3. ASSUME NEW k \in SigningKeys \cup {None}, Deploy(k) PROVE TypeOK'
  BY <1>3 DEF Deploy, TypeOK, sessionVars
<1>4. CASE Refresh
  BY <1>4 DEF Refresh, Published, TypeOK, sessionVars
<1>5. CASE AgentStart
  BY <1>5 DEF AgentStart, Published, TypeOK, sessionVars
<1>6. CASE ProofExpires
  BY <1>6 DEF ProofExpires, TypeOK, sessionVars
<1>7. CASE UNCHANGED vars
  BY <1>7 DEF vars, sessionVars, identityVars, TypeOK
<1>8. CASE SetSession
  <2>1. abroad' \subseteq Tokens
    BY <1>8, PresentableTypes DEF SetSession, TypeOK
  <2> QED BY <1>8, <2>1 DEF SetSession, TypeOK, identityVars
<1> QED BY <1>1, <1>2, <1>3, <1>4, <1>5, <1>6, <1>7, <1>8

LEMMA TypeStep ==
  ASSUME IInv, [Next]_vars
  PROVE  TypeOK'
BY LoginTypes, HandlerTypes, TickTypes, OtherTypes DEF Next, SessionStep, IInv

-----------------------------------------------------------------------------
(* Steps that leave the table of revoked sessions, or the cookies, alone.  *)
LEMMA TableStays ==
  ASSUME IInv, revoked' = revoked, ended' = ended
  PROVE  RevocationsStand'
BY DEF IInv, RevocationsStand, Valid

LEMMA SessionsStay ==
  ASSUME IInv, TypeOK', Grows, Presentable' \subseteq Presentable
  PROVE  SessionsBacked'
<1> SUFFICES ASSUME NEW t \in Presentable' PROVE Backed(t)'
  BY DEF SessionsBacked
<1>1. Backed(t)
  BY DEF IInv, SessionsBacked
<1> QED BY <1>1, BackedStays DEF IInv

(* A session that is handed out is backed.                                 *)
LEMMA SessionsGrow ==
  ASSUME IInv, TypeOK', Grows, NEW n, Backed(n)', Presentable' \subseteq Presentable \cup {n}
  PROVE  SessionsBacked'
<1> SUFFICES ASSUME NEW t \in Presentable' PROVE Backed(t)'
  BY DEF SessionsBacked
<1>1. CASE t \in Presentable
  <2>1. Backed(t)
    BY <1>1 DEF IInv, SessionsBacked
  <2> QED BY <2>1, BackedStays DEF IInv
<1>2. CASE t = n
  BY <1>2 DEF Backed
<1> QED BY <1>1, <1>2

(* The steps that send nothing and answer nothing.                         *)
LEMMA QuietStep ==
  ASSUME IInv, TypeOK',
         \/ StartLogin \/ CookiesExpire \/ Clean \/ (\E k \in ApiTokens : ApiTokenExpires(k))
         \/ (\E k \in SigningKeys \cup {None} : Deploy(k)) \/ Refresh \/ AgentStart \/ ProofExpires
         \/ UNCHANGED vars
  PROVE  IInv'
<1>1. req' = req /\ ended' = ended /\ left' = left
  BY DEF StartLogin, CookiesExpire, Clean, ApiTokenExpires, Deploy, Refresh, AgentStart, ProofExpires,
         vars, sessionVars
<1>2. Presentable' \subseteq Presentable
  <2>1. abroad' = abroad /\ cookie' \in {cookie, None}
    BY DEF StartLogin, CookiesExpire, Clean, ApiTokenExpires, Deploy, Refresh, AgentStart, ProofExpires,
           vars, sessionVars
  <2> QED BY <2>1 DEF Presentable
<1>3. \A k \in ApiTokens : apiRows[k] # None =>
        apiRows'[k] # None /\ (apiRows[k].state = "deleted" => apiRows'[k].state = "deleted")
  <2>1. ASSUME NEW k \in ApiTokens, ApiTokenExpires(k) PROVE <1>3
    <3>1. apiRows[k] \in ApiRows /\ apiRows[k].state = "live"
      BY <2>1 DEF ApiTokenExpires, IsLive, IInv, TypeOK
    <3>2. [apiRows[k] EXCEPT !.state = "expired"] # None
      BY <3>1, SessionsAssumption DEF ApiRows
    <3>3. apiRows' = [apiRows EXCEPT ![k] = [apiRows[k] EXCEPT !.state = "expired"]]
      BY <2>1 DEF ApiTokenExpires, IInv, TypeOK
    <3> QED BY <3>1, <3>2, <3>3 DEF IInv, TypeOK
  <2>2. CASE \A k \in ApiTokens : ~ApiTokenExpires(k)
    <3>1. apiRows' = apiRows
      BY <2>2 DEF StartLogin, CookiesExpire, Clean, Deploy, Refresh, AgentStart, ProofExpires,
                  vars, sessionVars
    <3> QED BY <3>1
  <2> QED BY <2>1, <2>2
<1>4. Grows
  BY <1>1, <1>3, LeftStays DEF Grows, IInv
<1>5. RevocationsStand'
  <2>1. CASE Clean
    BY <1>1, <2>1 DEF Clean, IInv, RevocationsStand, Valid
  <2>2. CASE ~Clean
    <3>1. revoked' = revoked
      BY <2>2 DEF StartLogin, CookiesExpire, ApiTokenExpires, Deploy, Refresh, AgentStart, ProofExpires,
                  vars, sessionVars
    <3> QED BY <1>1, <3>1, TableStays
  <2> QED BY <2>1, <2>2
<1> QED BY <1>1, <1>2, <1>4, <1>5, NoCall, SessionsStay DEF IInv

(* Steps that change neither the tables nor what is left of any sign-in.   *)
LEMMA NothingWithdrawn ==
  ASSUME IInv, ended' = ended, apiRows' = apiRows, left' = left
  PROVE  Grows
BY LeftStays DEF Grows, IInv

(* A session made when its user has a whole life left is backed.           *)
LEMMA NewIsBacked ==
  ASSUME NEW u \in Users, left'[u] = Life
  PROVE  Backed(NewSession(u))'
<1>1. NewSession(u).user = u /\ NewSession(u).age = 0
  BY NewIsValid
<1> QED BY <1>1, LifeIsInt DEF Backed

LEMMA CallbackStep ==
  ASSUME IInv, TypeOK', NEW r \in Requests, NEW u \in Users, Callback(r, u)
  PROVE  IInv'
<1>1. revoked' = revoked /\ ended' = ended /\ apiRows' = apiRows /\ abroad' = abroad
  BY DEF Callback
<1>2. RevocationsStand'
  BY <1>1, TableStays
<1>3. CASE UNCHANGED <<users, cookie, wants, req, left>>
  <2>1. Presentable' = Presentable
    BY <1>1, <1>3 DEF Presentable
  <2> QED BY <1>1, <1>2, <1>3, <2>1, NothingWithdrawn, NoCall, SessionsStay DEF IInv
<1>4. CASE /\ cookie' = NewSession(u)
           /\ left' = [left EXCEPT ![u] = Life]
           /\ IF wants THEN Send(r, Call("bridge", NewSession(u))) ELSE UNCHANGED req
  <2>1. Grows /\ left'[u] = Life
    BY <1>1, <1>4, LeftRenewed DEF Grows, IInv
  <2>2. PICK t \in Tokens : t = NewSession(u)
    BY NewIsValid
  <2>3. Backed(t)'
    BY <2>1, <2>2, NewIsBacked DEF Backed
  <2>4. \A q \in Requests : CallOK(req[q])'
    <3>1. CASE wants
      <4>1. PICK c : c = Call("bridge", t)
        OBVIOUS
      <4>2. req' = [req EXCEPT ![r] = c]
        BY <1>4, <2>2, <3>1, <4>1 DEF Send
      <4>3. CallOK(c)'
        BY <2>3, <4>1, Apart DEF CallOK, KnownCaller, StaysBarred, CallBacked, Call, Backed
      <4> QED BY <2>1, <4>2, <4>3, OneCall
    <3>2. CASE ~wants
      BY <1>4, <2>1, <3>2, NoCall
    <3> QED BY <3>1, <3>2
  <2>5. Presentable' \subseteq Presentable \cup {t}
    BY <1>1, <1>4, <2>2 DEF Presentable
  <2>6. SessionsBacked'
    BY <2>1, <2>3, <2>5, SessionsGrow
  <2> QED BY <1>2, <2>4, <2>6 DEF IInv
<1> QED BY <1>3, <1>4 DEF Callback

(* A session goes into a request; a trade is barred when nothing is left   *)
(* of its user's sign-in, and then the session has run out.                *)
LEMMA SendStep ==
  ASSUME IInv, TypeOK', NEW r \in Requests, Bridge(r) \/ Logout(r)
  PROVE  IInv'
<1>1. revoked' = revoked /\ ended' = ended /\ apiRows' = apiRows /\ left' = left
      /\ abroad' = abroad /\ cookie' = cookie
  BY DEF Bridge, Logout
<1>2. RevocationsStand' /\ Grows
  BY <1>1, TableStays, NothingWithdrawn
<1>3. SessionsBacked'
  BY <1>1, <1>2, SessionsStay DEF Presentable
<1>4. \A q \in Requests : CallOK(req[q])'
  <2>1. CASE UNCHANGED req
    BY <1>2, <2>1, NoCall
  <2>2. ASSUME NEW t \in Presentable, req' = [req EXCEPT ![r] = Call("logout", t)]
        PROVE  <1>4
    <3>1. t \in Tokens /\ Backed(t)
      BY PresentableTypes DEF IInv, SessionsBacked
    <3>2. Backed(t)'
      BY <1>2, <3>1, BackedStays DEF IInv
    <3>3. PICK c : c = Call("logout", t)
      OBVIOUS
    <3>4. CallOK(c)'
      BY <3>1, <3>2, <3>3, Apart DEF CallOK, KnownCaller, StaysBarred, CallBacked, Call, Backed
    <3> QED BY <1>2, <2>2, <3>3, <3>4, OneCall
  <2>3. ASSUME NEW t \in Presentable,
               req' = [req EXCEPT ![r] = [Call("bridge", t) EXCEPT !.barred = (left[t.user] = 0)]]
        PROVE  <1>4
    <3>1. t \in Tokens /\ Backed(t)
      BY PresentableTypes DEF IInv, SessionsBacked
    <3>2. Backed(t)'
      BY <1>2, <3>1, BackedStays DEF IInv
    <3>3. left[t.user] = 0 => ~Valid(t)
      BY <3>1, Numbers, LifeIsInt DEF Backed, Valid, IInv
    <3>4. PICK c : c = [Call("bridge", t) EXCEPT !.barred = (left[t.user] = 0)]
      OBVIOUS
    <3>5. c.step = "bridge" /\ c.cred = t /\ (c.barred <=> left[t.user] = 0)
      BY <3>4 DEF Call
    <3>6. StaysBarred(c)'
      BY <3>1, <3>3, <3>5, Apart DEF StaysBarred, Valid
    <3>7. KnownCaller(c)' /\ CallBacked(c)'
      BY <3>1, <3>2, <3>5, Apart DEF KnownCaller, CallBacked, Backed
    <3>8. CallOK(c)'
      BY <3>6, <3>7 DEF CallOK
    <3> QED BY <1>2, <2>3, <3>4, <3>8, OneCall
  <2> QED BY <2>1, <2>2, <2>3 DEF Bridge, Logout, Send
<1> QED BY <1>2, <1>3, <1>4 DEF IInv

(* A trade that gets past the check is of a session that is valid, and so  *)
(* it is not barred.                                                       *)
LEMMA TradeStep ==
  ASSUME IInv, TypeOK', NEW r \in Requests, Trade(r)
  PROVE  IInv'
<1>1. revoked' = revoked /\ ended' = ended /\ apiRows' = apiRows /\ left' = left
      /\ abroad' = abroad /\ cookie' = cookie
  BY DEF Trade
<1>2. RevocationsStand' /\ Grows
  BY <1>1, TableStays, NothingWithdrawn
<1>3. SessionsBacked'
  BY <1>1, <1>2, SessionsStay DEF Presentable
<1>4. PICK c \in Calls : c = req[r] /\ c.step = "bridge" /\ c # None
  BY CallTypes DEF Trade, At, IInv
<1>5. CallOK(c)
  BY <1>4 DEF IInv
<1>6. c.cred \in Tokens
  BY <1>4, <1>5 DEF CallOK, KnownCaller, Calls
<1>7. CASE req' = [req EXCEPT ![r] = None]
  BY <1>2, <1>3, <1>7, NoneIsFine, OneCall DEF IInv
<1>8. CASE Valid(c.cred) /\ req' = [req EXCEPT ![r] = [c EXCEPT !.step = "trading"]]
  <2>1. PICK d : d = [c EXCEPT !.step = "trading"]
    OBVIOUS
  <2>2. d.step = "trading" /\ d.cred = c.cred /\ d.barred = c.barred
    BY <2>1 DEF Calls
  <2>3. ~c.barred
    BY <1>4, <1>5, <1>6, <1>8 DEF CallOK, StaysBarred
  <2>4. Backed(c.cred)'
    BY <1>2, <1>4, <1>5, BackedStays DEF CallOK, CallBacked, IInv
  <2>5. CallOK(d)'
    BY <1>6, <2>2, <2>3, <2>4, Apart DEF CallOK, KnownCaller, StaysBarred, CallBacked, Backed
  <2> QED BY <1>2, <1>3, <1>8, <2>1, <2>5, OneCall DEF IInv
<1> QED BY <1>4, <1>7, <1>8 DEF Trade, Return, IInv, TypeOK

(* The bridge: the new session has a life that its user has, too.          *)
LEMMA MintStep ==
  ASSUME IInv, TypeOK', NEW r \in Requests, Mint(r)
  PROVE  IInv'
<1>1. revoked' = revoked /\ ended' = ended /\ apiRows' = apiRows /\ cookie' = cookie
      /\ req' = [req EXCEPT ![r] = None]
  BY DEF Mint, Return
<1>2. RevocationsStand'
  BY <1>1, TableStays
<1>3. CASE UNCHANGED <<abroad, left>>
  <2>1. Presentable' = Presentable
    BY <1>1, <1>3 DEF Presentable
  <2> QED BY <1>1, <1>2, <1>3, <2>1, NothingWithdrawn, NoneIsFine, OneCall, SessionsStay DEF IInv
<1>4. PICK u : u = req[r].cred.user
  OBVIOUS
<1>5. CASE /\ abroad' = abroad \cup {NewSession(u)}
           /\ left' = IF req[r].barred THEN left ELSE [left EXCEPT ![u] = Life]
  <2>1. u \in Users /\ ~req[r].barred
    <3>1. req[r] # None /\ req[r].step = "trading" /\ CallOK(req[r])
      BY DEF Mint, At, IInv
    <3>2. req[r].cred \in Tokens
      BY <3>1, CallTypes DEF IInv, CallOK, KnownCaller
    <3> QED BY <1>4, <3>1, <3>2, Apart DEF CallOK, StaysBarred
  <2>2. Grows /\ left'[u] = Life
    BY <1>1, <1>5, <2>1, LeftRenewed DEF Grows, IInv
  <2>3. PICK t : t = NewSession(u)
    OBVIOUS
  <2>4. Backed(t)'
    BY <2>1, <2>2, <2>3, NewIsBacked DEF Backed
  <2>5. Presentable' \subseteq Presentable \cup {t}
    BY <1>1, <1>5, <2>3 DEF Presentable
  <2> QED BY <1>1, <1>2, <2>2, <2>4, <2>5, SessionsGrow, NoneIsFine, OneCall DEF IInv
<1> QED BY <1>3, <1>4, <1>5 DEF Mint

(* The cookie of a custom domain holds a session that was presented.       *)
LEMMA SetStep ==
  ASSUME IInv, TypeOK', SetSession
  PROVE  IInv'
<1>1. revoked' = revoked /\ ended' = ended /\ apiRows' = apiRows /\ left' = left
      /\ cookie' = cookie /\ req' = req
  BY DEF SetSession
<1>2. Presentable' \subseteq Presentable
  BY <1>1 DEF SetSession, Presentable
<1> QED BY <1>1, <1>2, TableStays, NothingWithdrawn, NoCall, SessionsStay DEF IInv

LEMMA RevokeStep ==
  ASSUME IInv, TypeOK', NEW r \in Requests, Revoke(r)
  PROVE  IInv'
<1>1. apiRows' = apiRows /\ left' = left /\ abroad' = abroad /\ req' = [req EXCEPT ![r] = None]
  BY DEF Revoke, Return
<1>2. ended \subseteq ended' /\ RevocationsStand'
  <2>1. CASE UNCHANGED <<revoked, ended>>
    BY <2>1, TableStays
  <2>2. CASE RevokeSession(req[r].cred)
    BY <2>2 DEF RevokeSession, RevocationsStand, IInv, Valid
  <2> QED BY <2>1, <2>2 DEF Revoke
<1>3. Grows
  BY <1>1, <1>2, LeftStays DEF Grows, IInv
<1>4. Presentable' \subseteq Presentable
  BY <1>1 DEF Revoke, Presentable
<1> QED BY <1>1, <1>2, <1>3, <1>4, NoneIsFine, OneCall, SessionsStay DEF IInv

LEMMA RequestStep ==
  ASSUME IInv, TypeOK', NEW r \in Requests, Request(r)
  PROVE  IInv'
<1>1. revoked' = revoked /\ ended' = ended /\ apiRows' = apiRows /\ left' = left
      /\ Presentable' = Presentable
  BY DEF Request, Presentable
<1>2. RevocationsStand' /\ Grows
  BY <1>1, TableStays, NothingWithdrawn
<1>3. PICK cred \in Credentials :
           req' = [req EXCEPT ![r] = [Call("sent", cred) EXCEPT !.barred = Withdrawn(cred)]]
  BY DEF Request, Send
<1>4. PICK c : c = [Call("sent", cred) EXCEPT !.barred = Withdrawn(cred)]
  OBVIOUS
<1>5. /\ c.step = "sent" /\ c.cred = cred /\ c.barred = Withdrawn(cred)
  BY <1>4 DEF Call
<1>6. CASE cred \in ApiTokens
  <2>1. cred \notin Tokens
    BY <1>6, SessionsAssumption
  <2>2. apiRows[cred] # None
    BY <1>6, <2>1, PresentableTypes DEF Credentials, IInv
  <2>3. KnownCaller(c)'
    BY <1>1, <1>5, <2>2 DEF KnownCaller
  <2>4. c.barred => apiRows'[cred].state = "deleted"
    BY <1>1, <1>5, <1>6 DEF Withdrawn
  <2>5. StaysBarred(c)'
    BY <1>5, <2>1, <2>4 DEF StaysBarred
  <2>6. CallBacked(c)'
    BY <1>5, <2>1 DEF CallBacked, Backed
  <2> QED BY <1>1, <1>2, <1>3, <1>4, <2>3, <2>5, <2>6, OneCall, SessionsStay DEF CallOK, IInv
<1>7. CASE cred \notin ApiTokens
  <2>1. cred \in Presentable
    BY <1>7 DEF Credentials
  <2>2. cred \in Tokens
    BY <2>1, PresentableTypes DEF IInv
  <2>3. Backed(cred)'
    BY <1>2, <2>1, BackedStays DEF IInv, SessionsBacked
  <2>4. KnownCaller(c)'
    BY <1>5, <1>7 DEF KnownCaller
  <2>5. c.barred => cred \in ended'
    BY <1>1, <1>5, <1>7 DEF Withdrawn
  <2>6. StaysBarred(c)'
    BY <1>5, <1>7, <2>5 DEF StaysBarred
  <2>7. CallBacked(c)'
    BY <1>5, <2>3 DEF CallBacked, Backed
  <2> QED BY <1>1, <1>2, <1>3, <1>4, <2>4, <2>6, <2>7, OneCall, SessionsStay DEF CallOK, IInv
<1> QED BY <1>6, <1>7

(* RequireAuth, after which a barred request is refused, in doubt or late. *)
LEMMA AuthStep ==
  ASSUME IInv, TypeOK', NEW r \in Requests, Validate(r) \/ Lookup(r)
  PROVE  IInv'
<1>1. revoked' = revoked /\ ended' = ended /\ apiRows' = apiRows /\ left' = left
      /\ Presentable' = Presentable
  BY DEF Validate, Lookup, Presentable
<1>2. RevocationsStand' /\ Grows
  BY <1>1, TableStays, NothingWithdrawn
<1>3. SessionsBacked'
  BY <1>1, <1>2, SessionsStay
<1>4. PICK c : c = req[r]
  OBVIOUS
<1>5. c # None /\ c \in Calls /\ c.cred \in Tokens \cup ApiTokens /\ c.step \in {"sent", "validated"}
  BY <1>4, CallTypes DEF Validate, Lookup, At, IInv
<1>6. CallOK(c)
  BY <1>4 DEF IInv
<1>7. PICK d : req' = [req EXCEPT ![r] = d] /\
               \/ d = None
               \/ /\ d = [c EXCEPT !.step = "accepted"]
                  /\ c.cred \in ApiTokens /\ IsLive(c.cred)
               \/ /\ d = [c EXCEPT !.step = "validated"]
                  /\ c.cred \in Tokens /\ c.step = "sent"
               \/ /\ d = [c EXCEPT !.step = "accepted"]
                  /\ c.cred \in Tokens /\ ~IsSessionRevoked(c.cred)
               \/ /\ d = [c EXCEPT !.step = "accepted", !.doubt = TRUE]
                  /\ c.cred \in Tokens
  <2>1. CASE Validate(r)
    BY <1>4, <1>5, <2>1 DEF Validate, At, Return
  <2>2. CASE Lookup(r)
    <3>1. c.cred \in Tokens
      BY <1>4, <1>5, <1>6, <2>2 DEF Lookup, At, CallOK, KnownCaller
    <3>2. req[r] \in Calls /\ req \in [Requests -> Calls \cup {None}]
      BY <1>4, <1>5 DEF IInv, TypeOK
    <3>3. \/ req' = [req EXCEPT ![r] = None]
          \/ req' = [req EXCEPT ![r] = [c EXCEPT !.step = "accepted"]] /\ ~IsSessionRevoked(c.cred)
          \/ req' = [req EXCEPT ![r] = [c EXCEPT !.step = "accepted", !.doubt = TRUE]]
      BY <1>4, <2>2, <3>2 DEF Lookup, Return
    <3> QED BY <3>1, <3>3
  <2> QED BY <2>1, <2>2
<1>8. CallOK(d)'
  <2>1. CASE d = None
    BY <2>1, NoneIsFine DEF CallOK, KnownCaller, StaysBarred, CallBacked
  <2>2. ASSUME d # None
        PROVE  /\ d.cred = c.cred /\ d.barred = c.barred /\ d.step \in {"accepted", "validated"}
               /\ d.doubt = c.doubt \/ d.doubt = TRUE
    BY <1>5, <1>7, <2>2 DEF Calls
  <2>3. CASE d # None
    <3>1. KnownCaller(d)'
      <4>1. c.cred \in ApiTokens => d.step = "accepted" /\ apiRows[c.cred] # None
        BY <1>5, <1>6, <1>7, <2>3, Apart DEF CallOK, KnownCaller, Calls
      <4> QED BY <1>1, <2>2, <2>3, <4>1 DEF KnownCaller
    <3>2. CallBacked(d)'
      <4>1. Backed(c.cred)'
        BY <1>2, <1>5, <1>6, BackedStays DEF CallOK, CallBacked, IInv
      <4> QED BY <2>2, <4>1 DEF CallBacked, Backed
    <3>3. StaysBarred(d)'
      <4> SUFFICES ASSUME d.barred
                   PROVE  /\ d.step \in {"sent", "validated", "accepted", "bridge"}
                          /\ d.cred \in ApiTokens => d.step = "sent" /\ apiRows'[d.cred].state = "deleted"
                          /\ d.cred \in Tokens /\ Valid(d.cred) =>
                               d.step # "bridge" /\ d.cred \in ended' /\ (d.step = "accepted" => d.doubt)
        BY DEF StaysBarred, Valid
      <4>1. c.barred
        BY <2>2, <2>3
      <4>2. c.cred \notin ApiTokens
        <5> SUFFICES ASSUME c.cred \in ApiTokens PROVE FALSE
          OBVIOUS
        <5>1. IsLive(c.cred)
          BY <1>7, <2>3, Apart
        <5>2. apiRows[c.cred].state = "deleted"
          BY <1>5, <1>6, <4>1 DEF CallOK, StaysBarred
        <5> QED BY <5>1, <5>2 DEF IsLive
      <4>3. Valid(c.cred) => c.cred \in ended /\ c.cred \in revoked
        BY <1>5, <1>6, <4>1, <4>2 DEF CallOK, StaysBarred, IInv, RevocationsStand
      <4>4. Valid(c.cred) /\ d.step = "accepted" => d.doubt
        <5> SUFFICES ASSUME Valid(c.cred), d.step = "accepted" PROVE d.doubt
          OBVIOUS
        <5>1. IsSessionRevoked(c.cred)
          BY <4>3 DEF IsSessionRevoked
        <5>2. d.doubt = TRUE
          BY <1>5, <1>7, <2>3, <4>2, <5>1 DEF Calls
        <5> QED BY <5>2
      <4> QED BY <1>1, <2>2, <2>3, <4>2, <4>3, <4>4
    <3> QED BY <3>1, <3>2, <3>3 DEF CallOK
  <2> QED BY <2>1, <2>3
<1> QED BY <1>2, <1>3, <1>7, <1>8, OneCall DEF IInv

LEMMA HandleStep ==
  ASSUME IInv, TypeOK', NEW r \in Requests, Handle(r)
  PROVE  IInv'
<1>1. revoked' = revoked /\ ended' = ended /\ left' = left
      /\ Presentable' = Presentable
      /\ req' = [req EXCEPT ![r] = None]
  BY DEF Handle, Return, Presentable
<1>2. \A k \in ApiTokens : apiRows[k] # None =>
        apiRows'[k] # None /\ (apiRows[k].state = "deleted" => apiRows'[k].state = "deleted")
  <2>1. apiRows \in [ApiTokens -> ApiRows \cup {None}] /\ None \notin ApiRows
    BY SessionsAssumption DEF IInv, TypeOK
  <2>2. ASSUME NEW k \in ApiTokens, CreateToken(r, k) PROVE <1>2
    BY <2>1, <2>2 DEF CreateToken
  <2>3. ASSUME NEW k \in ApiTokens, DeleteToken(r, k) PROVE <1>2
    <3>1. apiRows[k] \in ApiRows
      BY <2>1, <2>3 DEF DeleteToken
    <3>2. [apiRows[k] EXCEPT !.state = "deleted"] # None
      BY <2>1, <3>1 DEF ApiRows
    <3>3. [apiRows[k] EXCEPT !.state = "deleted"].state = "deleted"
      BY <3>1 DEF ApiRows
    <3>4. apiRows' = [apiRows EXCEPT ![k] = [apiRows[k] EXCEPT !.state = "deleted"]]
      BY <2>1, <2>3 DEF DeleteToken
    <3> QED BY <2>1, <3>2, <3>3, <3>4
  <2>4. CASE apiRows' = apiRows
    BY <2>4
  <2> QED BY <2>2, <2>3, <2>4 DEF Handle, GetToken
<1>3. Grows
  BY <1>1, <1>2, LeftStays DEF Grows, IInv
<1> QED BY <1>1, <1>3, NoneIsFine, TableStays, OneCall, SessionsStay DEF IInv

(* Time: a token's age grows by what is taken from what is left.           *)
LEMMA BackedAges ==
  ASSUME TypeOK, Tick, NEW t, Backed(t)
  PROVE  Backed(Older(t))'
<1>1. CASE t \in Tokens
  <2> SUFFICES ASSUME Valid(Older(t)) PROVE Older(t).age + left'[Older(t).user] >= Life
    BY DEF Backed, Valid
  <2>1. Valid(t) /\ Older(t).age = t.age + 1 /\ Older(t).user = t.user
    BY <1>1, OlderToken
  <2>2. t.age + left[t.user] >= Life
    BY <1>1, <2>1 DEF Backed
  <2>3. t.user \in Users /\ t.age \in Nat /\ left[t.user] \in Nat
    BY <1>1, Numbers
  <2>4. left'[t.user] = IF left[t.user] > 0 THEN left[t.user] - 1 ELSE 0
    BY <2>3 DEF Tick
  <2>5. t.age < Life
    BY <2>1 DEF Valid
  <2> QED BY <2>1, <2>2, <2>3, <2>4, <2>5, LifeIsInt
<1>2. CASE t \notin Tokens
  BY <1>2, OlderOther DEF Backed
<1> QED BY <1>1, <1>2

LEMMA CallAges ==
  ASSUME TypeOK, Tick, NEW c \in Calls, CallOK(c)
  PROVE  CallOK([c EXCEPT !.cred = Older(@)])'
<1>1. PICK d : d = [c EXCEPT !.cred = Older(@)]
  OBVIOUS
<1>2. d.step = c.step /\ d.barred = c.barred /\ d.doubt = c.doubt /\ d.cred = Older(c.cred)
  BY <1>1 DEF Calls
<1>3. c # None /\ c.cred \in Tokens \cup ApiTokens
  BY SessionsAssumption DEF Calls
<1>4. /\ c.cred \in Tokens => d.cred \in Tokens /\ d.cred \notin ApiTokens
      /\ c.cred \in ApiTokens => d.cred = c.cred /\ d.cred \notin Tokens
  BY <1>2, OlderToken, OlderOther, Apart
<1>5. apiRows' = apiRows
  BY DEF Tick
<1>6. KnownCaller(d)'
  BY <1>2, <1>3, <1>4, <1>5 DEF CallOK, KnownCaller
<1>7. CallBacked(d)'
  <2>1. Backed(c.cred)
    BY <1>3 DEF CallOK, CallBacked
  <2>2. Backed(Older(c.cred))'
    BY <2>1, BackedAges
  <2> QED BY <1>2, <2>2 DEF CallBacked, Backed
<1>8. StaysBarred(d)'
  <2> SUFFICES ASSUME d.barred
               PROVE  /\ d.step \in {"sent", "validated", "accepted", "bridge"}
                      /\ d.cred \in ApiTokens => d.step = "sent" /\ apiRows'[d.cred].state = "deleted"
                      /\ d.cred \in Tokens /\ Valid(d.cred) =>
                           d.step # "bridge" /\ d.cred \in ended' /\ (d.step = "accepted" => d.doubt)
    BY DEF StaysBarred, Valid
  <2>1. /\ c.step \in {"sent", "validated", "accepted", "bridge"}
        /\ c.cred \in ApiTokens => c.step = "sent" /\ apiRows[c.cred].state = "deleted"
        /\ c.cred \in Tokens /\ Valid(c.cred) =>
             c.step # "bridge" /\ c.cred \in ended /\ (c.step = "accepted" => c.doubt)
    BY <1>2, <1>3 DEF CallOK, StaysBarred
  <2>2. ASSUME d.cred \in Tokens, Valid(d.cred)
        PROVE  d.step # "bridge" /\ d.cred \in ended' /\ (d.step = "accepted" => d.doubt)
    <3>1. c.cred \in Tokens /\ Valid(c.cred)
      BY <1>2, <1>3, <1>4, <2>2, OlderToken
    <3>2. c.step # "bridge" /\ c.cred \in ended /\ (c.step = "accepted" => c.doubt)
      BY <2>1, <3>1
    <3>3. Older(c.cred) \in ended'
      BY <1>2, <2>2, <3>2 DEF Tick
    <3> QED BY <1>2, <3>2, <3>3
  <2>3. d.cred \in ApiTokens => d.step = "sent" /\ apiRows'[d.cred].state = "deleted"
    BY <1>2, <1>3, <1>4, <1>5, <2>1
  <2> QED BY <1>2, <2>1, <2>2, <2>3
<1>9. CallOK(d)'
  BY <1>6, <1>7, <1>8 DEF CallOK
<1> QED BY <1>1, <1>9 DEF CallOK, KnownCaller, StaysBarred, CallBacked, Backed

LEMMA TickStep ==
  ASSUME IInv, TypeOK', Tick
  PROVE  IInv'
<1>1. RevocationsStand'
  BY DEF Tick, IInv, RevocationsStand, Valid
<1>2. SessionsBacked'
  <2> SUFFICES ASSUME NEW t \in Presentable' PROVE Backed(t)'
    BY DEF SessionsBacked
  <2>1. PICK o \in Presentable \cup {None} : t = Older(o)
    BY DEF Tick, Presentable
  <2>2. Backed(o)
    BY Apart DEF IInv, SessionsBacked, Backed
  <2>3. Backed(Older(o))'
    BY <2>2, BackedAges DEF IInv
  <2> QED BY <2>1, <2>3 DEF Backed
<1>3. ASSUME NEW q \in Requests PROVE CallOK(req[q])'
  <2>1. CASE req[q] = None
    <3>1. req'[q] = None
      BY <2>1 DEF Tick
    <3> QED BY <3>1, NoneIsFine DEF CallOK, KnownCaller, StaysBarred, CallBacked
  <2>2. CASE req[q] # None
    <3>1. PICK c \in Calls : c = req[q]
      BY <2>2, CallTypes DEF IInv
    <3>2. CallOK(c)
      BY <3>1 DEF IInv
    <3>3. PICK d : d = [c EXCEPT !.cred = Older(@)]
      OBVIOUS
    <3>4. req'[q] = d
      BY <2>2, <3>1, <3>3 DEF Tick
    <3>5. CallOK([c EXCEPT !.cred = Older(@)])'
      BY <3>2, CallAges DEF IInv
    <3>6. CallOK(d)'
      BY <3>3, <3>5 DEF CallOK, KnownCaller, StaysBarred, CallBacked, Backed
    <3> QED BY <3>4, <3>6, Becomes
  <2> QED BY <2>1, <2>2
<1> QED BY <1>1, <1>2, <1>3 DEF IInv

-----------------------------------------------------------------------------
LEMMA InitIInv == SessionsInit => IInv
<1> SUFFICES ASSUME SessionsInit PROVE IInv
  OBVIOUS
<1>1. TypeOK
  <2>1. left \in [Users -> Ages]
    BY LifeIsInt DEF SessionsInit, Ages
  <2>2. trusted \in SigningKeys \cup {None} /\ serverKey \in SigningKeys \cup {None}
    BY DEF SessionsInit
  <2> QED BY <2>1, <2>2 DEF SessionsInit, TypeOK
<1>2. RevocationsStand
  BY DEF SessionsInit, RevocationsStand
<1>3. SessionsBacked
  BY DEF SessionsInit, SessionsBacked, Presentable
<1>4. \A r \in Requests : CallOK(req[r])
  BY DEF SessionsInit, CallOK, KnownCaller, StaysBarred, CallBacked
<1> QED BY <1>1, <1>2, <1>3, <1>4 DEF IInv

LEMMA NextIInv == IInv /\ [Next]_vars => IInv'
<1> SUFFICES ASSUME IInv, [Next]_vars PROVE IInv'
  OBVIOUS
<1>1. TypeOK'
  BY TypeStep
<1> QED BY <1>1, QuietStep, CallbackStep, SendStep, TradeStep, MintStep, SetStep, RevokeStep,
           RequestStep, AuthStep, HandleStep, TickStep DEF Next, SessionStep

(* The inductive invariant holds in every behaviour.                       *)
THEOREM Invariance == Spec => []IInv
BY InitIInv, NextIInv, PTL DEF Spec

(* The type invariant of sessions, API tokens and identity tokens.         *)
THEOREM TypeCorrect == Spec => []TypeOK
<1>1. IInv => TypeOK
  BY DEF IInv
<1> QED BY <1>1, Invariance, PTL

(* No request sent with a credential that had been revoked or deleted gets *)
(* past RequireAuth, unless the query failed or the session has expired.   *)
THEOREM RevokedStaysOut == Spec => []RevokedNeverPasses
<1>1. IInv => RevokedNeverPasses
  <2> SUFFICES ASSUME IInv, NEW r \in Requests, At(r, "accepted"), req[r].barred, ~req[r].doubt
               PROVE  req[r].cred \in Tokens /\ ~Valid(req[r].cred)
    BY DEF RevokedNeverPasses
  <2>1. req[r] # None /\ req[r].step = "accepted"
    BY DEF At
  <2>2. req[r].cred \in Tokens \cup ApiTokens
    BY <2>1, CallTypes DEF IInv
  <2>3. StaysBarred(req[r])
    BY DEF IInv, CallOK
  <2> QED BY <2>1, <2>2, <2>3 DEF StaysBarred
<1> QED BY <1>1, Invariance, PTL

(* The bridge puts no end to a sign-in: it trades whatever valid session   *)
(* is presented, again and again.  But once no session of a user, wherever *)
(* it is kept, and no trade under way is valid any more, no chain of       *)
(* trades, cookies and codes makes RequireAuth accept one of that user     *)
(* before the next sign-in.                                                *)
THEOREM LapsedNeedSignIn == Spec => []LapsedStayOut
<1>1. IInv => LapsedStayOut
  <2> SUFFICES ASSUME IInv, NEW r \in Requests, At(r, "accepted"),
                      req[r].cred \in Tokens, Valid(req[r].cred)
               PROVE  left[req[r].cred.user] > 0
    BY DEF LapsedStayOut
  <2>1. req[r].cred.age + left[req[r].cred.user] >= Life
    BY DEF At, IInv, CallOK, CallBacked, Backed
  <2>2. req[r].cred.age \in Nat /\ req[r].cred.age < Life /\ left[req[r].cred.user] \in Nat
    BY Numbers DEF Valid, IInv
  <2> QED BY <2>1, <2>2, LifeIsInt
<1> QED BY <1>1, Invariance, PTL
=============================================================================
