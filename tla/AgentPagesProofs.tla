-------------------------- MODULE AgentPagesProofs --------------------------
(***************************************************************************)
(* Proofs about AgentPages for any requests, keys, e-mails, codes, edits   *)
(* and asks, checked by TLAPS: what is served was rightfully served.       *)
(***************************************************************************)
EXTENDS AgentPages, TLAPS

USE PagesAssumption

LEMMA NoMetaType == NoMeta \in Metas /\ NoMeta.public = FALSE /\ NoMeta.emails = {} /\ NoMeta.code = None
BY DEF NoMeta, Metas

(* The part of the type invariant that is about requests.                  *)
RequestTypes ==
  /\ pc    \in [Requests -> Stages]
  /\ ask   \in [Requests -> AskRecords \cup {None}]
  /\ email \in [Requests -> Emails \cup {None}]
  /\ meta  \in [Requests -> Metas]
  /\ back  \in [Requests -> {"access", "serve"}]
  /\ out   \in [Requests -> Answers]
  /\ \A r \in Requests : pc[r] \notin {"idle", "done"} => ask[r] # None

LEMMA TypesOfRequests == TypeOK => RequestTypes
BY DEF TypeOK, RequestTypes

LEMMA GotoType ==
  ASSUME RequestTypes, NEW r \in Requests, pc[r] \notin {"idle", "done"}, NEW step \in Stages,
         NEW e \in Emails \cup {None}, NEW m \in Metas, Goto(r, step, e, m)
  PROVE  RequestTypes'
BY DEF RequestTypes, Goto

LEMMA CallType ==
  ASSUME RequestTypes, NEW r \in Requests, pc[r] \notin {"idle", "done"},
         NEW step \in {"access", "serve"}, NEW e \in Emails \cup {None},
         CallReadMeta(r, step, e)
  PROVE  RequestTypes'
BY NoMetaType DEF RequestTypes, CallReadMeta, Stages

LEMMA AnswerType ==
  ASSUME RequestTypes, NEW r \in Requests, NEW answer \in Answers, Answer(r, answer)
  PROVE  RequestTypes'
BY NoMetaType DEF RequestTypes, Answer, Stages

LEMMA ReturnType ==
  ASSUME RequestTypes, NEW r \in Requests, pc[r] \notin {"idle", "done"},
         NEW m \in Metas, ReturnMeta(r, m)
  PROVE  RequestTypes'
<1>1. email[r] \in Emails \cup {None} /\ "access" \in Stages /\ "served" \in Answers
  BY DEF RequestTypes, Stages, Answers
<1>2. QED BY <1>1, GotoType, AnswerType DEF ReturnMeta

LEMMA WatchType ==
  ASSUME Watch
  PROVE  /\ entitled' \in [Requests -> BOOLEAN]
         /\ \A r \in Requests :
              entitled'[r] <=> Running(r)' /\ (entitled[r] \/ HasRight(r)')
BY DEF Watch

(* The metadata that readPageMeta may go on with.                          *)
LEMMA ReadTypes ==
  ASSUME TypeOK, NEW m \in {NoMeta} \cup ({page} \ {None, Broken})
  PROVE  /\ m \in Metas
         /\ \A c \in Codes : /\ [m EXCEPT !.code = c] \in Metas
                             /\ [m EXCEPT !.code = c].code = c
                             /\ [m EXCEPT !.code = c].emails = m.emails
<1>1. m \in Metas
  BY NoMetaType DEF TypeOK
<1>2. QED BY <1>1 DEF Metas

LEMMA AskFields ==
  ASSUME RequestTypes, NEW r \in Requests, ask[r] # None
  PROVE  /\ ask[r] \in AskRecords
         /\ ask[r].token \in Emails \cup {None}
         /\ ask[r].keyId \in Keys \cup {None}
         /\ ask[r].code \in Codes \cup {None}
         /\ ask[r].path \in Paths /\ ask[r].sender \in Keys
BY DEF RequestTypes, AskRecords

LEMMA StepRequestTypes ==
  ASSUME TypeOK, NEW r \in Requests, RequestStep(r)
  PROVE  RequestTypes'
<1> USE TypesOfRequests
<1>a. /\ "access" \in Stages /\ "files" \in Stages /\ "list" \in Stages /\ "storage" \in Stages
      /\ "statement" \in Stages /\ "truncate" \in Stages /\ "write" \in Stages
      /\ "refused" \in Answers /\ "ok" \in Answers /\ "paired" \in Answers /\ "served" \in Answers
  BY DEF Stages, Answers
<1>b. email[r] \in Emails \cup {None} /\ meta[r] \in Metas
  BY DEF RequestTypes
<1> USE NoMetaType
<1>1. ASSUME NEW a \in Asks[r], Receive(r, a) PROVE RequestTypes'
  <2>1. a \in AskRecords /\ a # None
    OBVIOUS
  <2>2. QED BY <1>1, <2>1 DEF Receive, RequestTypes, Stages
<1>2. ASSUME HandleRequest(r) PROVE RequestTypes'
  <2>1. pc[r] = "received" /\ ask[r] # None
    BY <1>2 DEF HandleRequest, RequestTypes
  <2>2. ASSUME NEW e \in ProvenEmails(ask[r]), Route(r, ask[r].path, e) PROVE RequestTypes'
    <3>1. e \in Emails \cup {None}
      BY <2>1, AskFields DEF ProvenEmails
    <3>2. QED BY <1>a, <2>1, <2>2, <3>1, GotoType, CallType, AnswerType DEF Route
  <2>3. CASE Answer(r, "refused")
    BY <1>a, <2>3, AnswerType
  <2>4. QED BY <1>2, <2>2, <2>3 DEF HandleRequest
<1>3. ASSUME ReadMeta(r) PROVE RequestTypes'
  <2>1. pc[r] = "meta"
    BY <1>3 DEF ReadMeta
  <2>2. PICK m \in {NoMeta} \cup ({page} \ {None, Broken}) :
          \/ ReturnMeta(r, m)
          \/ \E c \in Codes : Goto(r, "truncate", email[r], [m EXCEPT !.code = c])
    BY <1>3 DEF ReadMeta
  <2>3. QED BY <1>a, <1>b, <2>1, <2>2, ReadTypes, ReturnType, GotoType
<1>4. ASSUME Truncate(r) PROVE RequestTypes'
  BY <1>4, <1>a, <1>b, ReturnType, GotoType DEF Truncate
<1>5. ASSUME WriteMeta(r) PROVE RequestTypes'
  BY <1>5, <1>a, <1>b, ReturnType DEF WriteMeta
<1>6. ASSUME Access(r) PROVE RequestTypes'
  BY <1>6, <1>a, AnswerType, GotoType DEF Access
<1>7. ASSUME BuildBundle(r) PROVE RequestTypes'
  BY <1>7, <1>a, AnswerType, CallType DEF BuildBundle
<1>8. ASSUME List(r) PROVE RequestTypes'
  BY <1>8, <1>a, AnswerType, CallType DEF List
<1>9. ASSUME RequirePairedUser(r) PROVE RequestTypes'
  BY <1>9, <1>a, AnswerType, GotoType DEF RequirePairedUser
<1>10. ASSUME Storage(r) PROVE RequestTypes'
  BY <1>10, <1>a, AnswerType DEF Storage
<1>11. ASSUME Respond(r) PROVE RequestTypes'
  BY <1>11 DEF Respond, RequestTypes, Stages, Answers
<1>12. QED
  BY <1>1, <1>2, <1>3, <1>4, <1>5, <1>6, <1>7, <1>8, <1>9, <1>10, <1>11 DEF RequestStep

LEMMA StepType ==
  ASSUME TypeOK, [PageNext]_vars
  PROVE  TypeOK'
<1> USE DEF TypeOK
<1> DEFINE Shared == /\ keys \subseteq Keys /\ page \in Metas \cup {None, Broken}
                     /\ entry \in Keys \cup {None} /\ word \in Metas \cup {None}
<1>1. ASSUME Shared', RequestTypes', Watch PROVE TypeOK'
  BY <1>1, WatchType DEF RequestTypes, Running
<1>2. ASSUME NEW r \in Requests, RequestStep(r) PROVE Shared' /\ RequestTypes'
  <2>1. RequestTypes'
    BY <1>2, StepRequestTypes
  <2>2. meta[r] \in Metas /\ (pc[r] = "statement" => ask[r].keyId \in Keys \cup {None})
    BY AskFields, TypesOfRequests
  <2>3. Shared'
    BY <1>2, <2>2 DEF RequestStep, Receive, HandleRequest, ReadMeta, Truncate, WriteMeta,
       Access, BuildBundle, List, RequirePairedUser, Storage, StorageGet, StorageSet,
       StorageDelete, StorageList, Respond
  <2>4. QED BY <2>1, <2>3
<1>3. ASSUME Surroundings PROVE Shared' /\ RequestTypes'
  <2>1. ASSUME NEW m \in Edits \cup {None}, Edit(m) PROVE Shared' /\ RequestTypes'
    BY <2>1 DEF Edit, RequestTypes, requestVars
  <2>2. ASSUME NEW k \in Pairable, Pair(k) \/ Revoke(k) PROVE Shared' /\ RequestTypes'
    BY <2>2 DEF Pair, Revoke, RequestTypes, requestVars
  <2>3. ASSUME Restart PROVE Shared' /\ RequestTypes'
    BY <2>3, NoMetaType DEF Restart, RequestTypes, Stages, Answers
  <2>4. QED BY <1>3, <2>1, <2>2, <2>3 DEF Surroundings
<1>4. CASE UNCHANGED vars
  BY <1>4 DEF vars, requestVars
<1>5. QED BY <1>1, <1>2, <1>3, <1>4 DEF PageNext

-----------------------------------------------------------------------------
(* What the inductive invariant says of one request.                       *)
Held(r) ==
  Noted(r) /\ AnsweredLast(r) /\ Decrypted(r) /\ AsksForPage(r) /\ ReadWithRight(r) /\ PassedWithRight(r)

(* A request that does not move keeps it, whatever happens around it.      *)
LEMMA Unmoved ==
  ASSUME Watch, NEW r \in Requests, Held(r),
         pc'[r] = pc[r], ask'[r] = ask[r], email'[r] = email[r], meta'[r] = meta[r],
         back'[r] = back[r], out'[r] = out[r]
  PROVE  Held(r)'
<1>1. Running(r) => (entitled[r] => entitled'[r]) /\ (HasRight(r)' => entitled'[r])
  BY WatchType DEF Running
<1>2. Noted(r)'
  BY <1>1 DEF Noted, Running
<1>3. AnsweredLast(r)' /\ Decrypted(r)' /\ AsksForPage(r)'
  BY DEF Held, AnsweredLast, Decrypted, AsksForPage, BeforeAccess
<1>4. ReadWithRight(r)'
  BY <1>1 DEF Held, ReadWithRight, BeforeAccess, GetGrants, IsShared, EmailAllowed, Running
<1>5. PassedWithRight(r)'
  BY <1>1 DEF Held, AnsweredLast, PassedWithRight, PastCheck, Running
<1>6. QED BY <1>2, <1>3, <1>4, <1>5 DEF Held

(* In a step of one request the others do not move.                        *)
LEMMA OthersStay ==
  ASSUME TypeOK, NEW r \in Requests, RequestStep(r), NEW q \in Requests, q # r
  PROVE  /\ pc'[q] = pc[q] /\ ask'[q] = ask[q] /\ email'[q] = email[q]
         /\ meta'[q] = meta[q] /\ back'[q] = back[q] /\ out'[q] = out[q]
<1> DEFINE Still == /\ pc'[q] = pc[q] /\ ask'[q] = ask[q] /\ email'[q] = email[q]
                    /\ meta'[q] = meta[q] /\ back'[q] = back[q] /\ out'[q] = out[q]
<1>1. \A step, e, m : Goto(r, step, e, m) => Still
  BY DEF TypeOK, Goto
<1>2. \A step, e : CallReadMeta(r, step, e) => Still
  BY DEF TypeOK, CallReadMeta
<1>3. \A answer : Answer(r, answer) => Still
  BY DEF TypeOK, Answer
<1>4. \A m : ReturnMeta(r, m) => Still
  BY <1>1, <1>3 DEF ReturnMeta
<1>5. \A path, e : Route(r, path, e) => Still
  BY <1>1, <1>2, <1>3 DEF Route
<1>6. ASSUME NEW a \in Asks[r], Receive(r, a) PROVE Still
  BY <1>6 DEF Receive, TypeOK
<1>7. CASE Respond(r)
  BY <1>7 DEF Respond, TypeOK
<1>8. CASE HandleRequest(r)
  BY <1>8, <1>3, <1>5 DEF HandleRequest
<1>9. CASE ReadMeta(r) \/ Truncate(r) \/ WriteMeta(r)
  BY <1>9, <1>1, <1>4 DEF ReadMeta, Truncate, WriteMeta
<1>10. CASE Access(r) \/ BuildBundle(r) \/ List(r) \/ RequirePairedUser(r) \/ Storage(r)
  BY <1>10, <1>1, <1>2, <1>3 DEF Access, BuildBundle, List, RequirePairedUser, Storage
<1>11. QED BY <1>6, <1>7, <1>8, <1>9, <1>10 DEF RequestStep

(* How a request that moves gets it back, according to where it goes.      *)
LEMMA Moved ==
  ASSUME TypeOK, Watch, NEW r \in Requests, pc'[r] # "idle"
  PROVE  /\ Noted(r)' /\ (entitled[r] => entitled'[r]) /\ (HasRight(r)' => entitled'[r])
BY WatchType DEF Noted, Running

(* A paired request that decrypted has a right.                            *)
LEMMA PairedHasRight ==
  ASSUME TypeOK, NEW r \in Requests, Held(r), IsPaired(r),
         pc[r] \in {"access", "list", "storage"}
  PROVE  entitled[r]
<1>1. ask[r] # None
  BY DEF TypeOK
<1>2. HasRight(r)
  BY <1>1 DEF HasRight, IsPaired, IsX25519KeyAuthorized, Held, Decrypted
<1>3. QED BY <1>2 DEF Held, Noted, Running

(* Who is granted a page that says what page.json says has a right to it.  *)
LEMMA GrantedHasRight ==
  ASSUME TypeOK, NEW r \in Requests, Held(r), BeforeAccess(r), page \in Metas,
         GetGrants(page, email[r], ask[r].code), ~NeedsCode(page)
  PROVE  entitled[r]
<1>1. ask[r] # None /\ pc[r] # "idle"
  BY DEF TypeOK, BeforeAccess
<1>2. ask[r].path = "page" /\ email[r] \in {ask[r].token, None}
  BY DEF Held, AsksForPage
<1>3. Invited(ask[r], page) \/ page.public
  BY <1>2 DEF GetGrants, IsShared, EmailAllowed, NeedsCode, Invited
<1>4. HasRight(r)
  BY <1>1, <1>2, <1>3 DEF HasRight
<1>5. QED BY <1>1, <1>4 DEF Held, Noted, Running

LEMMA NoGrantWithoutMeta ==
  ASSUME NEW e, NEW code PROVE ~GetGrants(NoMeta, e, code)
BY NoMetaType DEF GetGrants, IsShared

(* Five ways to go on: back to waiting, past the check, with the answer,   *)
(* to the first readPageMeta, and on from it.                              *)
LEMMA PassOn ==
  ASSUME TypeOK, Watch, NEW r \in Requests, Held(r), entitled[r],
         pc[r] \notin {"idle", "received", "done"}, NEW e, NEW m,
         \/ Goto(r, "files", e, m) \/ Goto(r, "statement", e, m)
         \/ CallReadMeta(r, "serve", e)
         \/ \E step \in {"truncate", "write"} : Goto(r, step, e, m) /\ back[r] = "serve"
         \/ Answer(r, "served")
  PROVE  Held(r)'
<1>1. pc'[r] # "idle" /\ (ask'[r] = ask[r] \/ pc'[r] = "done")
  BY DEF TypeOK, Goto, CallReadMeta, Answer
<1>2. entitled'[r] /\ Noted(r)'
  BY <1>1, Moved
<1>3. /\ pc'[r] # "done" => out'[r] = out[r]
      /\ pc'[r] \in {"files", "statement", "done"} \/ back'[r] = "serve"
      /\ pc'[r] # "access"
  BY DEF TypeOK, Goto, CallReadMeta, Answer
<1>4. AnsweredLast(r)' /\ Decrypted(r)'
  BY <1>1, <1>3 DEF Held, AnsweredLast, Decrypted
<1>5. ~BeforeAccess(r)'
  BY <1>3 DEF BeforeAccess
<1>6. QED BY <1>2, <1>4, <1>5 DEF Held, AsksForPage, ReadWithRight, PassedWithRight

LEMMA Refuse ==
  ASSUME TypeOK, Watch, NEW r \in Requests, NEW answer \in Answers \ {"served"}, Answer(r, answer)
  PROVE  Held(r)'
<1>1. pc'[r] = "done" /\ out'[r] = answer
  BY DEF TypeOK, Answer
<1>2. Noted(r)'
  BY <1>1, Moved
<1>3. QED
  BY <1>1, <1>2 DEF Held, AnsweredLast, Decrypted, AsksForPage, ReadWithRight,
     PassedWithRight, BeforeAccess, PastCheck

(* To the checks of List and of the storage, and to Get.                   *)
LEMMA ToCheck ==
  ASSUME TypeOK, Watch, NEW r \in Requests, Held(r), pc[r] = "received",
         ask[r].keyId # None => ask[r].sender = ask[r].keyId,
         NEW e \in {ask[r].token, None},
         \/ Goto(r, "list", None, NoMeta) \/ Goto(r, "storage", None, NoMeta)
         \/ ask[r].path = "page" /\ CallReadMeta(r, "access", e)
  PROVE  Held(r)'
<1>1. /\ pc'[r] \in {"list", "storage", "meta"} /\ ask'[r] = ask[r] /\ out'[r] = out[r]
      /\ meta'[r] = NoMeta
      /\ pc'[r] = "meta" => back'[r] = "access" /\ ask[r].path = "page" /\ email'[r] = e
  BY DEF TypeOK, Goto, CallReadMeta
<1>2. Noted(r)'
  BY <1>1, Moved
<1>3. AnsweredLast(r)' /\ Decrypted(r)' /\ AsksForPage(r)' /\ PassedWithRight(r)'
  BY <1>1 DEF Held, AnsweredLast, Decrypted, AsksForPage, PassedWithRight, BeforeAccess, PastCheck
<1>4. ReadWithRight(r)'
  BY <1>1, NoGrantWithoutMeta DEF ReadWithRight
<1>5. QED BY <1>2, <1>3, <1>4 DEF Held

LEMMA ReadOn ==
  ASSUME TypeOK, Watch, NEW r \in Requests, Held(r), BeforeAccess(r), NEW m \in Metas,
         NEW step \in {"truncate", "write", "access"}, Goto(r, step, email[r], m),
         back[r] = "access" \/ step = "access",
         GetGrants(m, email[r], ask[r].code) => entitled[r]
  PROVE  Held(r)'
<1>1. /\ pc'[r] = step /\ ask'[r] = ask[r] /\ out'[r] = out[r] /\ email'[r] = email[r]
      /\ meta'[r] = m /\ back'[r] = back[r]
  BY DEF TypeOK, Goto
<1>2. Noted(r)' /\ (entitled[r] => entitled'[r])
  BY <1>1, Moved
<1>3. AnsweredLast(r)' /\ Decrypted(r)' /\ AsksForPage(r)'
  BY <1>1 DEF Held, AnsweredLast, Decrypted, AsksForPage, BeforeAccess
<1>4. ReadWithRight(r)'
  BY <1>1, <1>2 DEF ReadWithRight, GetGrants, IsShared, EmailAllowed
<1>5. PassedWithRight(r)'
  BY <1>1, <1>2 DEF Held, AnsweredLast, BeforeAccess, PassedWithRight, PastCheck
<1>6. QED BY <1>2, <1>3, <1>4, <1>5 DEF Held

(* readPageMeta goes on to write a code, or returns.                       *)
LEMMA MetaOn ==
  ASSUME TypeOK, Watch, NEW r \in Requests, Held(r), NEW m \in Metas,
         pc[r] \in {"meta", "truncate", "write"},
         back[r] = "access" /\ GetGrants(m, email[r], ask[r].code) => entitled[r],
         \/ ReturnMeta(r, m)
         \/ \E step \in {"truncate", "write"} : Goto(r, step, email[r], m)
  PROVE  Held(r)'
<1>1. CASE back[r] = "access"
  <2>1. BeforeAccess(r)
    BY <1>1 DEF BeforeAccess
  <2>2. PICK step \in {"truncate", "write", "access"} : Goto(r, step, email[r], m)
    BY <1>1 DEF ReturnMeta
  <2>3. QED BY <1>1, <2>1, <2>2, ReadOn
<1>2. CASE back[r] = "serve"
  <2>1. entitled[r]
    BY <1>2 DEF Held, PassedWithRight, PastCheck
  <2>2. \/ Answer(r, "served")
        \/ \E step \in {"truncate", "write"} : Goto(r, step, email[r], m) /\ back[r] = "serve"
    BY <1>2 DEF ReturnMeta
  <2>3. QED BY <2>1, <2>2, PassOn
<1>3. QED BY <1>1, <1>2 DEF TypeOK

LEMMA StepHeld ==
  ASSUME TypeOK, Watch, NEW r \in Requests, Held(r), RequestStep(r)
  PROVE  Held(r)'
<1>a. {"refused", "ok", "paired"} \subseteq Answers \ {"served"}
  BY DEF Answers
<1>1. ASSUME NEW a \in Asks[r], Receive(r, a) PROVE Held(r)'
  <2>1. pc'[r] = "received" /\ out'[r] = out[r] /\ pc[r] = "idle"
    BY <1>1 DEF Receive, TypeOK
  <2>2. Noted(r)'
    BY <2>1, Moved
  <2>3. QED BY <2>1, <2>2 DEF Held, AnsweredLast, Decrypted, AsksForPage, ReadWithRight,
               PassedWithRight, BeforeAccess, PastCheck
<1>2. ASSUME HandleRequest(r) PROVE Held(r)'
  <2>1. pc[r] = "received" /\ ask[r] # None
    BY <1>2 DEF HandleRequest, TypeOK
  <2>2. CASE Answer(r, "refused")
    BY <1>a, <2>2, Refuse
  <2>3. ASSUME NEW k \in UserCiphers(ask[r]), k = ask[r].sender,
               NEW e \in ProvenEmails(ask[r]), Route(r, ask[r].path, e)
        PROVE  Held(r)'
    <3>1. ask[r].keyId # None => ask[r].sender = ask[r].keyId
      BY <2>3 DEF UserCiphers
    <3>2. \/ \E answer \in {"refused", "ok", "paired"} : Answer(r, answer)
          \/ Goto(r, "list", None, NoMeta) \/ Goto(r, "storage", None, NoMeta)
          \/ ask[r].path = "page" /\ CallReadMeta(r, "access", e)
      BY <2>3 DEF Route
    <3>3. QED BY <1>a, <2>1, <3>1, <3>2, Refuse, ToCheck DEF ProvenEmails
  <2>4. QED BY <1>2, <2>2, <2>3 DEF HandleRequest
<1>3. ASSUME ReadMeta(r) PROVE Held(r)'
  <2>1. pc[r] = "meta"
    BY <1>3 DEF ReadMeta
  <2>2. PICK m \in {NoMeta} \cup ({page} \ {None, Broken}) :
          \/ ~NeedsCode(m) /\ ReturnMeta(r, m)
          \/ /\ NeedsCode(m)
             /\ \E c \in Codes : FreshCode(c) /\ Goto(r, "truncate", email[r], [m EXCEPT !.code = c])
    BY <1>3 DEF ReadMeta
  <2>3. CASE ~NeedsCode(m) /\ ReturnMeta(r, m)
    <3>1. back[r] = "access" /\ GetGrants(m, email[r], ask[r].code) => entitled[r]
      BY <2>1, <2>3, NoGrantWithoutMeta, GrantedHasRight DEF TypeOK, BeforeAccess
    <3>2. m \in Metas
      BY ReadTypes
    <3>3. QED BY <2>1, <2>3, <3>1, <3>2, MetaOn
  <2>4. ASSUME NEW c \in Codes, NeedsCode(m), FreshCode(c),
               Goto(r, "truncate", email[r], [m EXCEPT !.code = c])
        PROVE  Held(r)'
    <3> DEFINE n == [m EXCEPT !.code = c]
    <3>1. n \in Metas /\ n.code = c /\ n.emails = m.emails
      BY ReadTypes
    <3> HIDE DEF n
    <3>2. ask[r].code # c /\ c # None /\ m.emails # {}
      BY <2>1, <2>4 DEF FreshCode, TypeOK, NeedsCode
    <3>3. ~GetGrants(n, email[r], ask[r].code)
      BY <3>1, <3>2 DEF GetGrants, IsShared
    <3>4. Goto(r, "truncate", email[r], n)
      BY <2>4 DEF n
    <3>5. QED BY <2>1, <3>1, <3>3, <3>4, MetaOn
  <2>5. QED BY <2>2, <2>3, <2>4
<1>4. ASSUME Truncate(r) \/ WriteMeta(r) PROVE Held(r)'
  <2>1. pc[r] \in {"truncate", "write"} /\ meta[r] \in Metas
    BY <1>4 DEF Truncate, WriteMeta, TypeOK
  <2>2. back[r] = "access" /\ GetGrants(meta[r], email[r], ask[r].code) => entitled[r]
    BY <2>1 DEF Held, ReadWithRight, BeforeAccess
  <2>3. ReturnMeta(r, meta[r]) \/ \E step \in {"truncate", "write"} : Goto(r, step, email[r], meta[r])
    BY <1>4 DEF Truncate, WriteMeta
  <2>4. QED BY <2>1, <2>2, <2>3, MetaOn
<1>5. ASSUME Access(r) PROVE Held(r)'
  <2>1. CASE IsPaired(r) \/ GetGrants(meta[r], email[r], ask[r].code)
    <3>1. pc[r] = "access" /\ Goto(r, "files", None, NoMeta)
      BY <1>5, <2>1 DEF Access
    <3>2. entitled[r]
      BY <2>1, <3>1, PairedHasRight DEF Held, ReadWithRight, BeforeAccess
    <3>3. QED BY <3>1, <3>2, PassOn
  <2>2. CASE ~(IsPaired(r) \/ GetGrants(meta[r], email[r], ask[r].code))
    BY <1>5, <1>a, <2>2, Refuse DEF Access
  <2>3. QED BY <2>1, <2>2
<1>6. ASSUME BuildBundle(r) PROVE Held(r)'
  <2>1. pc[r] = "files" /\ entitled[r]
    BY <1>6 DEF BuildBundle, Held, PassedWithRight, PastCheck
  <2>2. QED BY <1>6, <1>a, <2>1, Refuse, PassOn DEF BuildBundle
<1>7. ASSUME List(r) \/ RequirePairedUser(r) PROVE Held(r)'
  <2>1. pc[r] \in {"list", "storage"} /\ (IsPaired(r) => entitled[r])
    BY <1>7, PairedHasRight DEF List, RequirePairedUser
  <2>2. QED BY <1>7, <1>a, <2>1, Refuse, PassOn DEF List, RequirePairedUser
<1>8. ASSUME Storage(r) PROVE Held(r)'
  <2>1. pc[r] = "statement" /\ entitled[r]
    BY <1>8 DEF Storage, Held, PassedWithRight, PastCheck
  <2>2. QED BY <1>8, <1>a, <2>1, Refuse, PassOn DEF Storage
<1>9. ASSUME Respond(r) PROVE Held(r)'
  <2>1. pc'[r] = "idle" /\ out'[r] = "none"
    BY <1>9 DEF Respond, TypeOK
  <2>2. QED BY <2>1 DEF Held, Noted, Running, AnsweredLast, Decrypted, AsksForPage,
               ReadWithRight, PassedWithRight, BeforeAccess, PastCheck
<1>10. QED
  BY <1>1, <1>2, <1>3, <1>4, <1>5, <1>6, <1>7, <1>8, <1>9 DEF RequestStep

LEMMA InvIsHeld == IInv <=> TypeOK /\ \A r \in Requests : Held(r)
BY DEF IInv, Held

LEMMA InitIInv == PageInit => IInv
<1> SUFFICES ASSUME PageInit PROVE IInv
  OBVIOUS
<1>1. TypeOK
  BY NoMetaType DEF PageInit, TypeOK, Stages, Answers, Running
<1>2. ASSUME NEW r \in Requests PROVE Held(r)
  BY DEF PageInit, Held, Noted, Running, AnsweredLast, Decrypted, AsksForPage,
     ReadWithRight, PassedWithRight, BeforeAccess, PastCheck
<1>3. QED BY <1>1, <1>2, InvIsHeld

LEMMA StepIInv == IInv /\ [PageNext]_vars => IInv'
<1> SUFFICES ASSUME IInv, [PageNext]_vars PROVE IInv'
  OBVIOUS
<1>1. TypeOK /\ \A r \in Requests : Held(r)
  BY InvIsHeld
<1>2. TypeOK'
  BY <1>1, StepType
<1>3. ASSUME NEW r \in Requests, RequestStep(r), Watch, NEW q \in Requests PROVE Held(q)'
  <2>1. CASE q = r
    BY <1>1, <1>3, <2>1, StepHeld
  <2>2. CASE q # r
    BY <1>1, <1>3, <2>2, OthersStay, Unmoved
  <2>3. QED BY <2>1, <2>2
<1>4. ASSUME Surroundings, Watch, NEW q \in Requests PROVE Held(q)'
  <2>1. CASE Restart
    <3>1. pc'[q] = "idle" /\ out'[q] = "none"
      BY <2>1 DEF Restart
    <3>2. QED BY <3>1 DEF Held, Noted, Running, AnsweredLast, Decrypted, AsksForPage,
                 ReadWithRight, PassedWithRight, BeforeAccess, PastCheck
  <2>2. CASE UNCHANGED requestVars
    BY <1>1, <1>4, <2>2, Unmoved DEF requestVars
  <2>3. QED BY <1>4, <2>1, <2>2 DEF Surroundings, Edit, Pair, Revoke
<1>5. CASE UNCHANGED vars
  BY <1>5, <1>2 DEF vars, requestVars, IInv, TypeOK, Noted, Running, HasRight, AnsweredLast,
     Decrypted, AsksForPage, ReadWithRight, PassedWithRight, BeforeAccess, PastCheck,
     GetGrants, IsShared, EmailAllowed
<1>6. CASE PageNext
  BY <1>2, <1>3, <1>4, <1>6, InvIsHeld DEF PageNext, Held, IInv
<1>7. QED BY <1>5, <1>6

(* Every reachable state satisfies the inductive invariant.                *)
THEOREM Invariance == PageSpec => []IInv
BY InitIInv, StepIInv, PTL DEF PageSpec

(* TypeOK, for every value of the constants.                               *)
THEOREM TypeCorrect == PageSpec => []TypeOK
<1>1. IInv => TypeOK
  BY DEF IInv
<1>2. QED BY <1>1, Invariance, PTL

(* ServedWhenEntitled, for every value of the constants: whatever the      *)
(* owner, the pairings and other requests do between the reads of a        *)
(* request, it is served only what it had a right to while it ran.         *)
THEOREM OnlyEntitledServed == PageSpec => []ServedWhenEntitled
<1>1. IInv => ServedWhenEntitled
  BY DEF IInv, PassedWithRight, ServedWhenEntitled
<1>2. QED BY <1>1, Invariance, PTL

-----------------------------------------------------------------------------
(* The owner's edit.  What a request is about to write back agrees with    *)
(* it, if nothing was being written back when it was made.                 *)
Agrees(m) ==
  /\ m.public = word.public /\ m.emails = word.emails
  /\ word.code # None => m.code = word.code

PageAgrees == word # None /\ page \in Metas => Agrees(page)

WriteBacksAgree == \A r \in Requests : word # None /\ WritingBack(r) => Agrees(meta[r])

(* How a request comes to write back: from readPageMeta with what it read, *)
(* or it already did.                                                      *)
LEMMA WritesWhatItRead ==
  ASSUME TypeOK, NEW r \in Requests, RequestStep(r), WritingBack(r)'
  PROVE  \/ WritingBack(r) /\ meta'[r] = meta[r]
         \/ /\ page \in Metas /\ NeedsCode(page)
            /\ \E c \in Codes : meta'[r] = [page EXCEPT !.code = c]
<1> USE DEF WritingBack
<1>a. \A step, e, m : Goto(r, step, e, m) => pc'[r] = step /\ meta'[r] = m
  BY DEF Goto, TypeOK
<1>b. \A step, e : ~CallReadMeta(r, step, e)
  BY DEF CallReadMeta, TypeOK
<1>c. \A answer : ~Answer(r, answer)
  BY DEF Answer, TypeOK
<1>d. \A m : ~ReturnMeta(r, m)
  BY <1>a, <1>c DEF ReturnMeta
<1>1. CASE ReadMeta(r)
  <2>1. PICK m \in {NoMeta} \cup ({page} \ {None, Broken}) :
          NeedsCode(m) /\ \E c \in Codes : Goto(r, "truncate", email[r], [m EXCEPT !.code = c])
    BY <1>1, <1>d DEF ReadMeta
  <2>2. m = page /\ page \in Metas
    BY <2>1, NoMetaType DEF NeedsCode, TypeOK
  <2>3. QED BY <2>1, <2>2, <1>a
<1>2. CASE Truncate(r) \/ WriteMeta(r)
  <2>1. pc[r] \in {"truncate", "write"}
    BY <1>2 DEF Truncate, WriteMeta
  <2>2. Goto(r, "write", email[r], meta[r])
    BY <1>2, <1>d DEF Truncate, WriteMeta
  <2>3. QED BY <2>1, <2>2, <1>a
<1>3. ASSUME NEW a \in Asks[r], Receive(r, a) PROVE FALSE
  BY <1>3 DEF Receive, TypeOK
<1>4. CASE HandleRequest(r)
  <2>1. \A path, e : ~Route(r, path, e)
    BY <1>a, <1>b, <1>c DEF Route
  <2>2. QED BY <1>4, <2>1, <1>c DEF HandleRequest
<1>5. CASE Access(r) \/ BuildBundle(r) \/ List(r)
  BY <1>5, <1>a, <1>b, <1>c DEF Access, BuildBundle, List
<1>6. CASE RequirePairedUser(r) \/ Storage(r)
  BY <1>6, <1>a, <1>c DEF RequirePairedUser, Storage
<1>7. CASE Respond(r)
  BY <1>7 DEF Respond, TypeOK
<1>8. QED BY <1>1, <1>2, <1>3, <1>4, <1>5, <1>6, <1>7 DEF RequestStep

(* What a request's step leaves in page.json.                              *)
LEMMA PageAfterStep ==
  ASSUME NEW r \in Requests, RequestStep(r)
  PROVE  /\ word' = word
         /\ page' \in {page, Broken} \/ (pc[r] = "write" /\ page' = meta[r])
<1>1. CASE Truncate(r) \/ WriteMeta(r)
  BY <1>1 DEF Truncate, WriteMeta
<1>2. CASE ~(Truncate(r) \/ WriteMeta(r))
  BY <1>2 DEF RequestStep, Receive, HandleRequest, ReadMeta, Access, BuildBundle, List,
     RequirePairedUser, Storage, Respond
<1>3. QED BY <1>1, <1>2

LEMMA StepPageAgrees ==
  ASSUME TypeOK, PageAgrees, WriteBacksAgree, [PageNext]_vars
  PROVE  PageAgrees'
<1> USE DEF PageAgrees, Agrees
<1>1. ASSUME NEW r \in Requests, RequestStep(r) PROVE PageAgrees'
  <2>1. CASE page' \in {page, Broken}
    BY <1>1, <2>1, PageAfterStep
  <2>2. CASE pc[r] = "write" /\ page' = meta[r]
    BY <1>1, <2>2, PageAfterStep DEF WriteBacksAgree, WritingBack
  <2>3. QED BY <1>1, <2>1, <2>2, PageAfterStep
<1>2. ASSUME NEW m \in Edits \cup {None}, Edit(m) PROVE PageAgrees'
  BY <1>2 DEF Edit
<1>3. CASE UNCHANGED <<page, word>>
  BY <1>3
<1>4. QED BY <1>1, <1>2, <1>3 DEF PageNext, Surroundings, Pair, Revoke, Restart, vars

LEMMA StepWriteBacksAgree ==
  ASSUME TypeOK, PageAgrees, WriteBacksAgree, [PageNext]_vars
  PROVE  WriteBacksAgree'
<1>1. ASSUME NEW r \in Requests, RequestStep(r) PROVE WriteBacksAgree'
  <2>1. SUFFICES ASSUME NEW q \in Requests, word # None, WritingBack(q)'
                 PROVE  Agrees(meta[q])'
    BY <1>1, PageAfterStep DEF WriteBacksAgree
  <2>2. word' = word
    BY <1>1, PageAfterStep
  <2>3. CASE q # r
    <3>1. WritingBack(q) /\ meta'[q] = meta[q]
      BY <1>1, <2>1, <2>3, OthersStay DEF WritingBack
    <3>2. QED BY <2>1, <2>2, <3>1 DEF WriteBacksAgree, Agrees
  <2>4. CASE q = r
    <3>1. CASE WritingBack(r) /\ meta'[r] = meta[r]
      BY <2>1, <2>2, <2>4, <3>1 DEF WriteBacksAgree, Agrees
    <3>2. ASSUME page \in Metas, NeedsCode(page),
                 NEW c \in Codes, meta'[r] = [page EXCEPT !.code = c]
          PROVE  Agrees(meta[r])'
      <4>1. meta'[r].public = page.public /\ meta'[r].emails = page.emails
        BY <3>2 DEF Metas
      <4>2. word.code = None
        BY <2>1, <3>2 DEF PageAgrees, Agrees, NeedsCode
      <4>3. QED BY <2>1, <2>2, <3>2, <4>1, <4>2 DEF PageAgrees, Agrees
    <3>3. QED BY <1>1, <2>1, <2>4, <3>1, <3>2, WritesWhatItRead
  <2>5. QED BY <2>3, <2>4
<1>2. ASSUME NEW m \in Edits \cup {None}, Edit(m) PROVE WriteBacksAgree'
  BY <1>2 DEF Edit, WriteBacksAgree, WritingBack, requestVars
<1>3. CASE Restart
  BY <1>3 DEF Restart, WriteBacksAgree, WritingBack
<1>4. CASE UNCHANGED <<requestVars, word>>
  BY <1>4 DEF requestVars, WriteBacksAgree, WritingBack, Agrees
<1>5. QED BY <1>1, <1>2, <1>3, <1>4 DEF PageNext, Surroundings, Pair, Revoke, vars

(* OwnersWordLasts, for every value of the constants: however many         *)
(* requests make up codes at once, fail half way or are cut off by a       *)
(* restart, what the owner wrote into page.json is not undone by a request *)
(* that read it before or after.                                           *)
THEOREM TheOwnersWordLasts == PageSpec => []OwnersWordLasts
<1> DEFINE Agreed == IInv /\ PageAgrees /\ WriteBacksAgree
<1>1. PageInit => Agreed
  BY InitIInv DEF PageInit, PageAgrees, WriteBacksAgree, WritingBack, Agrees
<1>2. Agreed /\ [PageNext]_vars => Agreed'
  BY StepIInv, StepPageAgrees, StepWriteBacksAgree DEF IInv
<1>3. Agreed => OwnersWordLasts
  BY DEF PageAgrees, Agrees, OwnersWordLasts
<1>4. QED BY <1>1, <1>2, <1>3, PTL DEF PageSpec
=============================================================================
