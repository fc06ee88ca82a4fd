----------------------------- MODULE AgentPages -----------------------------
(***************************************************************************)
(* A relay request inside the agent, from the router that decrypts it      *)
(* (agent/internal/relay/router.go) to the page, list, storage and probe   *)
(* handlers (agent/internal/handlers/pages.go, page_storage.go,            *)
(* agent/cmd/server/main.go), and what they read while the owner edits     *)
(* page.json, browsers are paired and revoked, and the agent restarts: the *)
(* authorised keys, page.json (which readPageMeta also writes) and the     *)
(* storage table.                                                          *)
(*                                                                         *)
(* One page and one storage entry.  The map of authorised keys is taken    *)
(* to equal its table: AuthorizedKeys says when it does not.  Whether the  *)
(* agent's copy of the server's key accepts an identity token is open:     *)
(* Sessions says when it does.                                             *)
(***************************************************************************)
EXTENDS FiniteSets

CONSTANTS
  Requests,  \* goroutines that handle relay requests
  Keys,      \* X25519 keys of browsers
  Emails,
  Codes,     \* access codes
  Edits,     \* what the owner writes into page.json
  Pairable,  \* the keys that are ever paired
  Asks,      \* what each of the requests may be
  None,      \* nothing of the kind
  Broken     \* a page.json that is not JSON: empty, half written, mixed up

Metas  == [public : BOOLEAN, emails : SUBSET Emails, code : Codes \cup {None}]

StoragePaths == {"get", "set", "delete", "list"}
Paths == {"page", "pages", "auth-check", "health", "elsewhere"} \cup StoragePaths

(* keyId is the key a request names, sender the one it was encrypted with. *)
AskRecords == [path : Paths, encrypted : BOOLEAN, sender : Keys, keyId : Keys \cup {None},
               token : Emails \cup {None}, code : Codes \cup {None}]

ASSUME PagesAssumption ==
  /\ Asks \in [Requests -> SUBSET AskRecords]
  /\ Edits \subseteq Metas /\ Pairable \subseteq Keys
  /\ None \notin Keys /\ None \notin Emails /\ None \notin Codes
  /\ None \notin Metas /\ None \notin AskRecords
  /\ Broken \notin Metas /\ Broken # None

VARIABLES
  keys,      \* DB.authKeys
  page,      \* page.json: its contents, Broken, or None
  entry,     \* the storage entry: the key of the browser that wrote it
  pc, ask,   \* where a request is, and what it asks
  email,     \* the e-mail its identity token proved
  meta,      \* what its last readPageMeta returned
  back,      \* where that returns to
  out,       \* its answer
  entitled,  \* history: it had a right to what it asks, at some instant since
  word       \* history: the owner's last edit, unless a write-back was under way

requestVars == <<pc, ask, email, meta, back, out>>
vars == <<keys, page, entry, requestVars, entitled, word>>

NoMeta == [public |-> FALSE, emails |-> {}, code |-> None]

Running(r) == pc[r] # "idle"

PageInit ==
  /\ keys \in SUBSET Pairable
  /\ page \in Edits \cup {None}
  /\ entry = None
  /\ pc    = [r \in Requests |-> "idle"]
  /\ ask   = [r \in Requests |-> None]
  /\ email = [r \in Requests |-> None]
  /\ meta  = [r \in Requests |-> NoMeta]
  /\ back  = [r \in Requests |-> "access"]
  /\ out   = [r \in Requests |-> "none"]
  /\ entitled = [r \in Requests |-> FALSE]
  /\ word = page

(* A request goes on to a step with what it proved and read, or readPageMeta *)
(* is called, to return to the step given; or it is answered.              *)
Goto(r, step, e, m) ==
  /\ pc'    = [pc EXCEPT ![r] = step]
  /\ email' = [email EXCEPT ![r] = e]
  /\ meta'  = [meta EXCEPT ![r] = m]
  /\ UNCHANGED <<ask, back, out>>

CallReadMeta(r, step, e) ==
  /\ pc'    = [pc EXCEPT ![r] = "meta"]
  /\ back'  = [back EXCEPT ![r] = step]
  /\ email' = [email EXCEPT ![r] = e]
  /\ meta'  = [meta EXCEPT ![r] = NoMeta]
  /\ UNCHANGED <<ask, out>>

(* Mutant: the handler goes on after it has written its answer.            *)
AnswerGoesOn(r, answer) ==
  /\ out'   = [out EXCEPT ![r] = answer]
  /\ ask'   = [ask EXCEPT ![r] = None]
  /\ UNCHANGED <<pc, email, meta, back>>

(* The answer is written and the handler returns.                          *)
Answer(r, answer) ==
  /\ pc'    = [pc EXCEPT ![r] = "done"]
  /\ out'   = [out EXCEPT ![r] = answer]
  /\ ask'   = [ask EXCEPT ![r] = None]
  /\ email' = [email EXCEPT ![r] = None]
  /\ meta'  = [meta EXCEPT ![r] = NoMeta]
  /\ back'  = [back EXCEPT ![r] = "access"]

(* readPageMeta returns: to Get, or to buildBundle or List, which answer.  *)
ReturnMeta(r, m) ==
  IF back[r] = "access" THEN Goto(r, "access", email[r], m) ELSE Answer(r, "served")

IsX25519KeyAuthorized(k) == k \in keys

(* isPairedUser and requirePairedUser.                                     *)
IsPaired(r) == ask[r].keyId # None /\ IsX25519KeyAuthorized(ask[r].keyId)

EmailAllowed(m, e) == e \in m.emails

-----------------------------------------------------------------------------
(* The router.                                                             *)

(* getUserCipher: the key named, authorised or not; without one, the first *)
(* of the authorised keys, in no order the code asks for.                  *)
UserCiphers(a) == IF a.keyId # None THEN {a.keyId} ELSE keys

(* The e-mail of an identity token that Verify accepts.  An expired token, *)
(* or one of another issuer, is no token.                                  *)
ProvenEmails(a) == {a.token, None}

Receive(r, a) ==
  /\ pc[r] = "idle"
  /\ pc'  = [pc EXCEPT ![r] = "received"]
  /\ ask' = [ask EXCEPT ![r] = a]
  /\ UNCHANGED <<email, meta, back, out>>
  /\ UNCHANGED <<keys, page, entry, word>>

IsRelayPathAllowed(path) == path # "elsewhere"

(* handleCleartextRequest and the mux.  The probe answers "paired" and the *)
(* health check "ok" to whatever has been decrypted.                       *)
Route(r, path, e) ==
  \/ ~IsRelayPathAllowed(path) /\ Answer(r, "refused")
  \/ path = "auth-check" /\ Answer(r, "paired")
  \/ path = "health" /\ Answer(r, "ok")
  \/ path = "page" /\ CallReadMeta(r, "access", e)
  \/ path = "pages" /\ Goto(r, "list", None, NoMeta)
  \/ path \in StoragePaths /\ Goto(r, "storage", None, NoMeta)

(* HandleRequest refuses what is not encrypted, what it has no cipher for  *)
(* and what does not decrypt; otherwise it proves the e-mail.  A token     *)
(* that fails is none.                                                     *)
HandleRequest(r) ==
  /\ pc[r] = "received"
  /\ LET a == ask[r] IN
     \/ /\ a.encrypted /\ \E k \in UserCiphers(a) : k = a.sender
        /\ \E e \in ProvenEmails(a) : Route(r, a.path, e)
     \/ /\ ~a.encrypted \/ UserCiphers(a) = {} \/ \E k \in UserCiphers(a) : k # a.sender
        /\ Answer(r, "refused")
  /\ UNCHANGED <<keys, page, entry, word>>

(* The encrypted response is sent.                                         *)
Respond(r) ==
  /\ pc[r] = "done"
  /\ pc'  = [pc EXCEPT ![r] = "idle"]
  /\ out' = [out EXCEPT ![r] = "none"]
  /\ UNCHANGED <<ask, email, meta, back>>
  /\ UNCHANGED <<keys, page, entry, word>>

-----------------------------------------------------------------------------
(* Pages.                                                                  *)

(* generateAccessCode: nobody has the code yet.                            *)
FreshCode(c) ==
  \A r \in Requests : meta[r].code # c /\ (ask[r] # None => ask[r].code # c)

(* Mutant: every read of a shared page makes a new code.                   *)
NeedsCodeAlways(m) == m.emails # {}

(* A code is due when e-mails are allowed and there is none.               *)
NeedsCode(m) == m.emails # {} /\ m.code = None

(* readPageMeta.  A missing, unreadable or broken file has no metadata.    *)
ReadMeta(r) ==
  /\ pc[r] = "meta"
  /\ \E m \in {NoMeta} \cup ({page} \ {None, Broken}) :
       \/ ~NeedsCode(m) /\ ReturnMeta(r, m)
       \/ /\ NeedsCode(m)
          /\ \E c \in Codes :
               FreshCode(c) /\ Goto(r, "truncate", email[r], [m EXCEPT !.code = c])
  /\ UNCHANGED <<keys, page, entry, word>>

(* os.WriteFile empties the file, or fails to open it: then the code is    *)
(* this request's alone, and is not announced.                             *)
Truncate(r) ==
  /\ pc[r] = "truncate"
  /\ \/ page' = Broken /\ Goto(r, "write", email[r], meta[r])
     \/ UNCHANGED page /\ ReturnMeta(r, meta[r])
  /\ UNCHANGED <<keys, entry, word>>

(* Then it writes what was read, and the code.  What others have written   *)
(* since is overwritten, or stays behind it if it was longer; the write    *)
(* may also fail half way.                                                 *)
WriteMeta(r) ==
  /\ pc[r] = "write"
  /\ page' \in {meta[r], Broken}
  /\ ReturnMeta(r, meta[r])
  /\ UNCHANGED <<keys, entry, word>>

IsShared(m) == m.emails # {} /\ m.code # None

(* Mutant: a code is compared only if one has been sent.                   *)
CodeOptional(m, e, code) ==
  IF IsShared(m) THEN e # None /\ EmailAllowed(m, e) /\ (code # None => code = m.code)
                 ELSE m.public

(* The second and the third tier of Get.                                   *)
GetGrants(m, e, code) ==
  IF IsShared(m) THEN e # None /\ EmailAllowed(m, e) /\ code # None /\ code = m.code
                 ELSE m.public

(* Get: a paired browser, or whom the metadata grants the page.            *)
Access(r) ==
  /\ pc[r] = "access"
  /\ IF IsPaired(r) \/ GetGrants(meta[r], email[r], ask[r].code)
       THEN Goto(r, "files", None, NoMeta)
       ELSE Answer(r, "refused")
  /\ UNCHANGED <<keys, page, entry, word>>

(* servePage and buildBundle: the files, if the directory and its          *)
(* index.html are there, and then page.json once more.                     *)
BuildBundle(r) ==
  /\ pc[r] = "files"
  /\ CallReadMeta(r, "serve", None) \/ Answer(r, "refused")
  /\ UNCHANGED <<keys, page, entry, word>>

(* List: an empty list, or the metadata of the page.                       *)
List(r) ==
  /\ pc[r] = "list"
  /\ (IsPaired(r) /\ CallReadMeta(r, "serve", None)) \/ Answer(r, "refused")
  /\ UNCHANGED <<keys, page, entry, word>>

-----------------------------------------------------------------------------
(* Page storage.  Each handler checks, and then makes one statement.       *)
RequirePairedUser(r) ==
  /\ pc[r] = "storage"
  /\ IF IsPaired(r) THEN Goto(r, "statement", None, NoMeta) ELSE Answer(r, "refused")
  /\ UNCHANGED <<keys, page, entry, word>>

StorageGet(r) ==
  /\ ask[r].path = "get" /\ entry # None
  /\ UNCHANGED entry

StorageSet(r) ==
  /\ ask[r].path = "set"
  /\ entry' = ask[r].keyId

StorageDelete(r) ==
  /\ ask[r].path = "delete"
  /\ entry' = None

StorageList(r) ==
  /\ ask[r].path = "list"
  /\ UNCHANGED entry

(* A body that does not parse, a key that is not there and a statement     *)
(* that fails are refused.                                                 *)
Storage(r) ==
  /\ pc[r] = "statement"
  /\ \/ (StorageGet(r) \/ StorageSet(r) \/ StorageDelete(r) \/ StorageList(r)) /\ Answer(r, "served")
     \/ Answer(r, "refused") /\ UNCHANGED entry
  /\ UNCHANGED <<keys, page, word>>

-----------------------------------------------------------------------------
(* What goes on meanwhile.                                                 *)

WritingBack(r) == pc[r] \in {"truncate", "write"}

(* The owner replaces page.json, or deletes it.                            *)
Edit(m) ==
  /\ page' = m
  /\ word' = IF \E r \in Requests : WritingBack(r) THEN None ELSE m
  /\ UNCHANGED <<keys, entry, requestVars>>

Pair(k) ==
  /\ keys' = keys \cup {k}
  /\ UNCHANGED <<page, entry, requestVars, word>>

Revoke(k) ==
  /\ keys' = keys \ {k}
  /\ UNCHANGED <<page, entry, requestVars, word>>

(* The agent's process ends and starts again.  A page.json that was being  *)
(* written stays as it is.                                                 *)
Restart ==
  /\ pc'    = [r \in Requests |-> "idle"]
  /\ ask'   = [r \in Requests |-> None]
  /\ email' = [r \in Requests |-> None]
  /\ meta'  = [r \in Requests |-> NoMeta]
  /\ back'  = [r \in Requests |-> "access"]
  /\ out'   = [r \in Requests |-> "none"]
  /\ UNCHANGED <<keys, page, entry, word>>

(* The right to what a request asks, as things are now: a paired browser   *)
(* has it to everything; to a page, who is invited and has the code, and   *)
(* anyone if it is public.  A page that is public and shared is refused to *)
(* who is not invited, and served to all by the repository's description   *)
(* of the tiers; both are within the right.                                *)
Invited(a, m) ==
  /\ a.token # None /\ a.code # None
  /\ a.token \in m.emails /\ m.code = a.code

HasRight(r) ==
  /\ ask[r] # None
  /\ \/ ask[r].sender = ask[r].keyId /\ ask[r].keyId \in keys
     \/ /\ ask[r].path = "page"
        /\ \E m \in {page} \ {None, Broken} :
             Invited(ask[r], m) \/ m.public

Watch ==
  entitled' = [r \in Requests |->
                 Running(r)' /\ (entitled[r] \/ HasRight(r)')]

RequestStep(r) ==
  \/ \E a \in Asks[r] : Receive(r, a)
  \/ HandleRequest(r)
  \/ ReadMeta(r)
  \/ Truncate(r)
  \/ WriteMeta(r)
  \/ Access(r)
  \/ BuildBundle(r)
  \/ List(r)
  \/ RequirePairedUser(r)
  \/ Storage(r)
  \/ Respond(r)

Surroundings ==
  \/ \E m \in Edits \cup {None} : Edit(m)
  \/ \E k \in Pairable : Pair(k) \/ Revoke(k)
  \/ Restart

PageNext == ((\E r \in Requests : RequestStep(r)) \/ Surroundings) /\ Watch

PageSpec == PageInit /\ [][PageNext]_vars

-----------------------------------------------------------------------------
(* Types.                                                                  *)
Stages == {"idle", "received", "meta", "truncate", "write", "access", "files",
           "list", "storage", "statement", "done"}
Answers == {"none", "refused", "ok", "paired", "served"}

TypeOK ==
  /\ keys \subseteq Keys
  /\ page \in Metas \cup {None, Broken}
  /\ entry \in Keys \cup {None}
  /\ pc    \in [Requests -> Stages]
  /\ ask   \in [Requests -> AskRecords \cup {None}]
  /\ email \in [Requests -> Emails \cup {None}]
  /\ meta  \in [Requests -> Metas]
  /\ back  \in [Requests -> {"access", "serve"}]
  /\ out   \in [Requests -> Answers]
  /\ entitled \in [Requests -> BOOLEAN]
  /\ word \in Metas \cup {None}
  /\ \A r \in Requests : pc[r] \notin {"idle", "done"} => ask[r] # None

(* A page, a list or the storage is served only to a request that had a    *)
(* right to it at some instant while it ran, though the keys, page.json    *)
(* and its code change between the reads: readPageMeta in Get, the check   *)
(* of the key, the files, readPageMeta in buildBundle.  What two reads saw *)
(* at two instants does not add up to a right; one that is withdrawn after *)
(* the check still counts.  Public pages are open to all, shared or not.   *)
ServedWhenEntitled == \A r \in Requests : out[r] = "served" => entitled[r]

(* The owner's edit lasts: unless a request was writing page.json back     *)
(* when it was made, requests change nothing in it but the code it lacks.  *)
OwnersWordLasts ==
  word # None /\ page \in Metas =>
    /\ page.public = word.public /\ page.emails = word.emails
    /\ word.code # None => page.code = word.code

-----------------------------------------------------------------------------
(* The inductive invariant behind ServedWhenEntitled: a right is noted at  *)
(* once, what was read before Access grants only what a right was noted    *)
(* for, and past the check there was one.                                  *)
BeforeAccess(r) ==
  pc[r] = "access" \/ (pc[r] \in {"meta", "truncate", "write"} /\ back[r] = "access")

PastCheck(r) ==
  pc[r] \in {"files", "statement"} \/ (pc[r] \in {"meta", "truncate", "write"} /\ back[r] = "serve")

Noted(r) == Running(r) /\ HasRight(r) => entitled[r]

Decrypted(r) ==
  pc[r] \notin {"idle", "received", "done"} /\ ask[r].keyId # None => ask[r].sender = ask[r].keyId

AsksForPage(r) ==
  BeforeAccess(r) => ask[r].path = "page" /\ email[r] \in {ask[r].token, None}

ReadWithRight(r) ==
  BeforeAccess(r) /\ GetGrants(meta[r], email[r], ask[r].code) => entitled[r]

PassedWithRight(r) == PastCheck(r) \/ out[r] = "served" => entitled[r]

AnsweredLast(r) == out[r] # "none" => pc[r] = "done"

IInv ==
  TypeOK /\ \A r \in Requests :
    Noted(r) /\ AnsweredLast(r) /\ Decrypted(r) /\ AsksForPage(r) /\ ReadWithRight(r) /\ PassedWithRight(r)
=============================================================================
