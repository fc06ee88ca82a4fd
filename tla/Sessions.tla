------------------------------ MODULE Sessions ------------------------------
(***************************************************************************)
(* Who the API server takes a caller for: sessions in cookies on its own   *)
(* host and on a custom domain, API tokens, the list of revoked sessions   *)
(* (api/internal/auth/token.go, middleware/auth.go, storage/postgres.go,   *)
(* the routes of api/cmd/server/main.go), and the identity tokens that     *)
(* carry a user's e-mail to agents (auth/identity.go, handlers/identity.go,*)
(* agent/internal/identity/verifier.go).                                   *)
(*                                                                         *)
(* One browser and one agent; but the tokens the bridge puts into redirect *)
(* URLs may be kept, and presented anywhere, by whoever has seen them.  A  *)
(* session token is its user and its age: it has no identifier, so that    *)
(* two that one user gets in one second are the same token.  Ages count in *)
(* Tick's; a token of age Life has expired.                                *)
(***************************************************************************)
EXTENDS Integers, FiniteSets

CONSTANTS
  Users,       \* Google accounts
  Names,
  NameOf,      \* the username derived from an account's e-mail
  ApiTokens,
  Requests,    \* goroutines that serve the browser or an API token's holder
  SigningKeys, \* Ed25519 keys the server may be configured with
  Life,        \* how old a session token gets
  None

Ages   == 0..Life
Tokens == [user : Users, age : Ages]
ApiRows == [user : Users, state : {"live", "expired", "deleted"}]

(* A request at a step, with its credential.  History: when it was sent,   *)
(* the credential had been withdrawn or, in a trade, nothing was left of   *)
(* its user's sign-in (barred); the revocation list did not answer (doubt).*)
Calls  == [step : {"sent", "validated", "accepted", "logout", "bridge", "trading"},
           cred : Tokens \cup ApiTokens, barred : BOOLEAN, doubt : BOOLEAN]

ASSUME SessionsAssumption ==
  /\ Life \in Nat \ {0}
  /\ NameOf \in [Users -> Names]
  /\ ApiTokens \cap Tokens = {}
  /\ None \notin Tokens /\ None \notin ApiRows /\ None \notin Calls /\ None \notin SigningKeys

VARIABLES
  users,     \* the table users
  apiRows,   \* the table tokens; None before the token is created
  revoked,   \* the table revoked_sessions
  cookie,    \* the browser's yb_session on the server's own host
  abroad,    \* the sessions of custom domains: in redirect URLs and cookies
  login,     \* its cookie oauth_state
  wants,     \* its cookie auth_bridge_return
  req,       \* the requests in flight
  ended,     \* history: sessions whose revocation the table has taken
  left,      \* history: how long what a user's last sign-in has led to is valid,
             \*   by way of trades that were asked for while it was
  serverKey, \* the key the server signs identity tokens with
  proof,     \* the key of the identity token the browser holds
  trusted    \* the agent's copy of the server's public key

sessionVars  == <<users, apiRows, revoked, cookie, abroad, login, wants, req, ended, left>>
identityVars == <<serverKey, proof, trusted>>
vars == <<sessionVars, identityVars>>

Valid(t) == t.age < Life

(* CreateSessionToken.                                                     *)
NewSession(u) == [user |-> u, age |-> 0]

Older(t) == IF t \in Tokens /\ Valid(t) THEN [t EXCEPT !.age = @ + 1] ELSE t

IsLive(k) == apiRows[k] # None /\ apiRows[k].state = "live"

(* Mutant: the user of a session is not put into the request's context.    *)
UserOfToken(cred) == IF cred \in ApiTokens THEN apiRows[cred].user ELSE None

(* GetUserID, once RequireAuth has passed.                                 *)
UserOf(cred) == IF cred \in ApiTokens THEN apiRows[cred].user ELSE cred.user

SessionsInit ==
  /\ users = {}
  /\ apiRows = [k \in ApiTokens |-> None]
  /\ revoked = {} /\ ended = {}
  /\ cookie = None /\ abroad = {}
  /\ login = FALSE /\ wants = FALSE
  /\ req = [r \in Requests |-> None]
  /\ left = [u \in Users |-> 0]
  /\ serverKey \in SigningKeys \cup {None}
  /\ proof = None
  /\ trusted \in {serverKey, None}

(* A credential that has been revoked or deleted for good.                 *)
Withdrawn(cred) ==
  IF cred \in ApiTokens THEN apiRows[cred].state = "deleted" ELSE cred \in ended

Call(step, cred) == [step |-> step, cred |-> cred, barred |-> FALSE, doubt |-> FALSE]

Send(r, call) == req[r] = None /\ req' = [req EXCEPT ![r] = call]
At(r, step)   == req[r] # None /\ req[r].step = step
Return(r)     == req' = [req EXCEPT ![r] = None]

-----------------------------------------------------------------------------
(* Signing in and out.                                                     *)

(* /auth/google                                                            *)
StartLogin ==
  /\ login' = TRUE
  /\ UNCHANGED <<users, apiRows, revoked, cookie, abroad, wants, req, ended, left, identityVars>>

(* UpsertUser conflicts on google_id only, and usernames are unique.       *)
UpsertUser(u) ==
  /\ \A v \in users \ {u} : NameOf[v] # NameOf[u]
  /\ users' = users \cup {u}

(* /auth/google/callback.  Google's refusal, a state that does not match   *)
(* or a failed statement end it; a login whose browser still has the       *)
(* bridge's cookie goes on to the bridge.                                  *)
Callback(r, u) ==
  /\ login /\ req[r] = None
  /\ \/ /\ UpsertUser(u)
        /\ login' = FALSE /\ wants' = FALSE
        /\ cookie' = NewSession(u)
        /\ left' = [left EXCEPT ![u] = Life]
        /\ IF wants THEN Send(r, Call("bridge", NewSession(u))) ELSE UNCHANGED req
     \/ login' \in BOOLEAN /\ UNCHANGED <<users, cookie, wants, req, left>>
  /\ UNCHANGED <<apiRows, revoked, abroad, ended, identityVars>>

(* The sessions that can be presented, to any route: the browser's, and    *)
(* those that the bridge and /auth/session have handed out, which whoever  *)
(* has seen them may keep.                                                 *)
Presentable == abroad \cup ({cookie} \ {None})

(* /auth/bridge: a caller without a cookie is sent to a login that comes   *)
(* back here; with one, whatever session it holds is to be traded.         *)
Bridge(r) ==
  /\ \/ /\ cookie = None
        /\ login' = TRUE /\ wants' = TRUE /\ UNCHANGED req
     \/ /\ \E t \in Presentable :
             Send(r, [Call("bridge", t) EXCEPT !.barred = (left[t.user] = 0)])
        /\ UNCHANGED <<login, wants>>
  /\ UNCHANGED <<users, apiRows, revoked, cookie, abroad, ended, left, identityVars>>

(* Mutant: the token's claims are read, and its expiry is not looked at.   *)
TradeUnchecked(r) ==
  /\ At(r, "bridge")
  /\ req' = [req EXCEPT ![r].step = "trading"]
  /\ UNCHANGED <<users, apiRows, revoked, cookie, abroad, login, wants, ended, left, identityVars>>

(* The token is validated; whether it was revoked is not asked.            *)
Trade(r) ==
  /\ At(r, "bridge")
  /\ \/ Valid(req[r].cred) /\ req' = [req EXCEPT ![r].step = "trading"]
     \/ ~Valid(req[r].cred) /\ Return(r)
  /\ UNCHANGED <<users, apiRows, revoked, cookie, abroad, login, wants, ended, left, identityVars>>

(* The custom domain has been looked up, which takes its time, and may be  *)
(* refused.  Then a new session of the same user is made and put into the  *)
(* URL that the caller is sent to.                                         *)
Mint(r) ==
  /\ At(r, "trading") /\ Return(r)
  /\ LET u == req[r].cred.user IN
     \/ /\ abroad' = abroad \cup {NewSession(u)}
        /\ left' = IF req[r].barred THEN left ELSE [left EXCEPT ![u] = Life]
     \/ UNCHANGED <<abroad, left>>
  /\ UNCHANGED <<users, apiRows, revoked, cookie, login, wants, ended, identityVars>>

(* /auth/session on a custom domain: the code is the session itself, any   *)
(* valid one will do, as often as it is presented, and becomes the cookie. *)
SetSession ==
  /\ \E t \in Presentable : Valid(t) /\ abroad' = abroad \cup {t}
  /\ UNCHANGED <<users, apiRows, revoked, cookie, login, wants, req, ended, left, identityVars>>

(* /api/logout                                                             *)
Logout(r) ==
  /\ \E t \in Presentable : Send(r, Call("logout", t))
  /\ UNCHANGED <<users, apiRows, revoked, cookie, abroad, login, wants, ended, left, identityVars>>

(* A session that is still valid is entered in revoked_sessions.           *)
RevokeSession(t) ==
  /\ Valid(t)
  /\ revoked' = revoked \cup {t} /\ ended' = ended \cup {t}

(* The insert may fail, which is not reported.  The answer clears the      *)
(* cookie, whatever it holds by now, if the browser is who asked.          *)
Revoke(r) ==
  /\ At(r, "logout") /\ Return(r)
  /\ RevokeSession(req[r].cred) \/ UNCHANGED <<revoked, ended>>
  /\ cookie' \in {cookie, None}
  /\ UNCHANGED <<users, apiRows, abroad, login, wants, left, identityVars>>

-----------------------------------------------------------------------------
(* A request to the API, and RequireAuth in front of it.                   *)

(* The cookie comes first, the Authorization header is for those without.  *)
Credentials == Presentable \cup {k \in ApiTokens : apiRows[k] # None}

Request(r) ==
  /\ \E cred \in Credentials :
       Send(r, [Call("sent", cred) EXCEPT !.barred = Withdrawn(cred)])
  /\ UNCHANGED <<users, apiRows, revoked, cookie, abroad, login, wants, ended, left, identityVars>>

(* GetTokenByHash, or ValidateSessionToken.                                *)
Validate(r) ==
  /\ At(r, "sent")
  /\ LET cred == req[r].cred IN
     \/ cred \in ApiTokens /\ IsLive(cred) /\ req' = [req EXCEPT ![r].step = "accepted"]
     \/ cred \in Tokens /\ Valid(cred) /\ req' = [req EXCEPT ![r].step = "validated"]
     \/ (cred \in Tokens => ~Valid(cred)) /\ Return(r)
  /\ UNCHANGED <<users, apiRows, revoked, cookie, abroad, login, wants, ended, left, identityVars>>

(* Whether a token's hash is in the table with time left.                  *)
IsSessionRevoked(t) == t \in revoked /\ Valid(t)

(* A query that fails revokes nobody.                                      *)
Lookup(r) ==
  /\ At(r, "validated")
  /\ \/ IsSessionRevoked(req[r].cred) /\ Return(r)
     \/ ~IsSessionRevoked(req[r].cred) /\ req' = [req EXCEPT ![r].step = "accepted"]
     \/ req' = [req EXCEPT ![r].step = "accepted", ![r].doubt = TRUE]
  /\ UNCHANGED <<users, apiRows, revoked, cookie, abroad, login, wants, ended, left, identityVars>>

(* Handlers behind it.  A caller may create and delete its user's tokens,  *)
(* by a session or by another token.                                       *)
CreateToken(r, k) ==
  /\ apiRows[k] = None
  /\ apiRows' = [apiRows EXCEPT ![k] = [user |-> UserOf(req[r].cred), state |-> "live"]]
  /\ UNCHANGED proof

DeleteToken(r, k) ==
  /\ apiRows[k] # None /\ apiRows[k].user = UserOf(req[r].cred)
  /\ apiRows' = [apiRows EXCEPT ![k].state = "deleted"]
  /\ UNCHANGED proof

(* GetToken: an identity token of the caller.                              *)
GetToken(r) ==
  /\ serverKey # None /\ UserOf(req[r].cred) \in users
  /\ proof' = serverKey
  /\ UNCHANGED apiRows

(* One of them, or one that only reads, or fails.                          *)
Handle(r) ==
  /\ At(r, "accepted") /\ Return(r)
  /\ \/ \E k \in ApiTokens : CreateToken(r, k) \/ DeleteToken(r, k)
     \/ GetToken(r)
     \/ UNCHANGED <<apiRows, proof>>
  /\ UNCHANGED <<users, revoked, cookie, abroad, login, wants, ended, left, serverKey, trusted>>

-----------------------------------------------------------------------------
(* Time.                                                                   *)
Tick ==
  /\ cookie' = Older(cookie)
  /\ abroad' = {t \in {Older(u) : u \in abroad} : Valid(t)}
  /\ req' = [r \in Requests |->
               IF req[r] = None THEN None ELSE [req[r] EXCEPT !.cred = Older(@)]]
  /\ revoked' = {Older(t) : t \in revoked}
  /\ ended'   = {t \in {Older(u) : u \in ended} : Valid(t)}
  /\ left' = [u \in Users |-> IF left[u] > 0 THEN left[u] - 1 ELSE 0]
  /\ UNCHANGED <<users, apiRows, login, wants, identityVars>>

(* Mutant: the comparison is the wrong way round.                          *)
CleanUnexpired ==
  /\ revoked' = {t \in revoked : ~Valid(t)}
  /\ UNCHANGED <<users, apiRows, cookie, abroad, login, wants, req, ended, left, identityVars>>

(* CleanExpiredRevocations                                                 *)
Clean ==
  /\ revoked' = {t \in revoked : Valid(t)}
  /\ UNCHANGED <<users, apiRows, cookie, abroad, login, wants, req, ended, left, identityVars>>

(* The two cookies of a login live five minutes, a session's seven days.   *)
CookiesExpire ==
  /\ \/ login /\ login' = FALSE /\ UNCHANGED <<wants, cookie>>
     \/ wants /\ wants' = FALSE /\ UNCHANGED <<login, cookie>>
     \/ cookie # None /\ ~Valid(cookie) /\ cookie' = None /\ UNCHANGED <<login, wants>>
  /\ UNCHANGED <<users, apiRows, revoked, abroad, req, ended, left, identityVars>>

ApiTokenExpires(k) ==
  /\ IsLive(k)
  /\ apiRows' = [apiRows EXCEPT ![k].state = "expired"]
  /\ UNCHANGED <<users, revoked, cookie, abroad, login, wants, req, ended, left, identityVars>>

SessionStep ==
  \/ StartLogin
  \/ \E r \in Requests : \/ \E u \in Users : Callback(r, u)
                         \/ Bridge(r) \/ Trade(r) \/ Mint(r)
                         \/ Logout(r) \/ Revoke(r)
                         \/ Request(r) \/ Validate(r) \/ Lookup(r) \/ Handle(r)
  \/ SetSession
  \/ Tick \/ Clean \/ CookiesExpire
  \/ \E k \in ApiTokens : ApiTokenExpires(k)

-----------------------------------------------------------------------------
(* Identity tokens.                                                        *)

(* The server is started with another signing key, or without one.         *)
Deploy(k) ==
  /\ serverKey' = k
  /\ UNCHANGED <<sessionVars, proof, trusted>>

(* JWKS: the key in use, if there is one.                                  *)
Published == {serverKey} \ {None}

(* Mutant: a key that has been loaded is kept.                             *)
RefreshOnce ==
  /\ trusted = None /\ \E k \in Published : trusted' = k
  /\ UNCHANGED <<sessionVars, serverKey, proof>>

(* refreshLoop, every day, once NewVerifier has had a key; a fetch that    *)
(* fails leaves it as it is.                                               *)
Refresh ==
  /\ trusted # None /\ \E k \in Published : trusted' = k
  /\ UNCHANGED <<sessionVars, serverKey, proof>>

(* NewVerifier at the agent's start: no second attempt when it fails.      *)
AgentStart ==
  /\ trusted' \in Published \cup {None}
  /\ UNCHANGED <<sessionVars, serverKey, proof>>

(* Identity tokens live five minutes.                                      *)
ProofExpires ==
  /\ proof # None /\ proof' = None
  /\ UNCHANGED <<sessionVars, serverKey, trusted>>

Next ==
  \/ SessionStep
  \/ \E k \in SigningKeys \cup {None} : Deploy(k)
  \/ Refresh
  \/ AgentStart
  \/ ProofExpires

Fairness == WF_vars(Refresh) /\ WF_vars(ProofExpires)

Spec == SessionsInit /\ [][Next]_vars /\ Fairness

-----------------------------------------------------------------------------
(* Types.                                                                  *)
TypeOK ==
  /\ users \subseteq Users
  /\ apiRows \in [ApiTokens -> ApiRows \cup {None}]
  /\ revoked \subseteq Tokens /\ ended \subseteq Tokens
  /\ cookie \in Tokens \cup {None} /\ abroad \subseteq Tokens
  /\ login \in BOOLEAN /\ wants \in BOOLEAN
  /\ req \in [Requests -> Calls \cup {None}]
  /\ left \in [Users -> Ages]
  /\ serverKey \in SigningKeys \cup {None}
  /\ proof \in SigningKeys \cup {None}
  /\ trusted \in SigningKeys \cup {None}

(* A request sent with a session that had been logged out, or with an API  *)
(* token that had been deleted, does not pass RequireAuth, while time goes *)
(* on and the expired revocations are cleaned away: unless the query       *)
(* failed, or the session ran out between the two checks.                  *)
RevokedNeverPasses ==
  \A r \in Requests : At(r, "accepted") /\ req[r].barred /\ ~req[r].doubt =>
    req[r].cred \in Tokens /\ ~Valid(req[r].cred)

(* The bridge trades any valid session, one it made included, for a new    *)
(* one with a full life, without end; but never back from the expired: a   *)
(* user of whose sign-in nothing valid is left, in any cookie or URL or in *)
(* a trade under way, is not taken for that user again without another.    *)
LapsedStayOut ==
  \A r \in Requests : At(r, "accepted") /\ req[r].cred \in Tokens /\ Valid(req[r].cred) =>
    left[req[r].cred.user] > 0

(* Once the server keeps its key, the agent comes to accept every identity *)
(* token the server gives out, unless it had no key when it started.       *)
TokensAcceptedAgain ==
  \A k \in SigningKeys :
    <>[](serverKey = k /\ trusted # None) => <>[](proof \in {trusted, None})
-----------------------------------------------------------------------------
(* The inductive invariant behind the last two safety properties: what has *)
(* been revoked stays in the table while it is valid, a withdrawn          *)
(* credential gets past a check only as they say, and no session outlives  *)
(* what is left of the sign-in it goes back to.                            *)
RevocationsStand == ended \subseteq revoked /\ \A t \in ended : Valid(t)

KnownCaller(c) ==
  c # None /\ c.cred \in ApiTokens => c.step \in {"sent", "accepted"} /\ apiRows[c.cred] # None

StaysBarred(c) ==
  c # None /\ c.barred =>
    /\ c.step \in {"sent", "validated", "accepted", "bridge"}
    /\ c.cred \in ApiTokens => c.step = "sent" /\ apiRows[c.cred].state = "deleted"
    /\ c.cred \in Tokens /\ Valid(c.cred) =>
         c.step # "bridge" /\ c.cred \in ended /\ (c.step = "accepted" => c.doubt)

Backed(t) == t \in Tokens /\ Valid(t) => t.age + left[t.user] >= Life

SessionsBacked == \A t \in Presentable : Backed(t)

CallBacked(c) == c # None => Backed(c.cred)

CallOK(c) == KnownCaller(c) /\ StaysBarred(c) /\ CallBacked(c)

IInv ==
  /\ TypeOK /\ RevocationsStand /\ SessionsBacked
  /\ \A r \in Requests : CallOK(req[r])
=============================================================================
