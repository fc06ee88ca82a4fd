---------------------------- MODULE CustomDomains ----------------------------
(***************************************************************************)
(* Custom domains (api/internal/handlers/custom_domains.go,                *)
(* cloudflare/custom_hostnames.go, storage/postgres.go): rows of the table *)
(* custom_domains on one side, hostnames registered with Cloudflare on the *)
(* other, and handlers that change one and then the other, several at a    *)
(* time.  A handler's first query and the request itself are one step:     *)
(* nothing has happened before it.  The server runs with Cloudflare        *)
(* configured, as in production.                                           *)
(***************************************************************************)
EXTENDS FiniteSets, Naturals

CONSTANTS
  Users,
  Domains,
  Ids,        \* ids of rows, each with its verification token
  Hostnames,  \* Cloudflare's ids of custom hostnames
  Calls,      \* goroutines in Create, Verify or Delete
  MaxDomains, \* 95: how many rows there may be
  None

Rows == [user : Users, domain : Domains, verified : BOOLEAN,
         cf : Hostnames \cup {None}, slug : BOOLEAN]

Creating  == [step : {"count", "insert"}, user : Users, domain : Domains]
Verifying == [step : {"dns", "register", "update"}, id : Ids, domain : Domains,
              cf : Hostnames \cup {None}]
Deleting  == [step : {"unregister", "delete"}, id : Ids, domain : Domains,
              cf : Hostnames \cup {None}]

ASSUME DomainsAssumption ==
  /\ MaxDomains \in Nat \ {0}
  /\ None \notin Rows /\ None \notin Creating \cup Verifying \cup Deleting
  /\ None \notin Hostnames /\ None \notin Domains

VARIABLES
  rows,      \* the table custom_domains
  txt,       \* whether a row's token is in the domain's TXT record: "never", "up", "down"
  hosts,     \* Cloudflare: the domain registered under each id
  call,      \* the calls in flight
  unlisted,  \* history: users whose domains were listed beside another Create, or not at all
  uncounted, \* history: the rows were counted beside another Create, or not at all
  disturbed  \* history: domains with a failure between the stores, or calls that overlapped

limitVars == <<unlisted, uncounted>>
vars == <<rows, txt, hosts, call, limitVars, disturbed>>

DomainsInit ==
  /\ rows  = [i \in Ids |-> None]
  /\ txt   = [i \in Ids |-> "never"]
  /\ hosts = [h \in Hostnames |-> None]
  /\ call  = [c \in Calls |-> None]
  /\ unlisted = {} /\ uncounted = FALSE
  /\ disturbed = {}

Taken       == {i \in Ids : rows[i] # None}
RowsOf(u)   == {i \in Taken : rows[i].user = u}
RowsFor(d)  == {i \in Taken : rows[i].domain = d}

(* The row a host is served from.                                          *)
GetCustomDomainByHost(d) == {i \in RowsFor(d) : rows[i].verified}

InFlight(c) == call[c] # None
At(c, step) == InFlight(c) /\ call[c].step = step
Inserting   == {c \in Calls : At(c, "count") \/ At(c, "insert")}
BusyWith(d) == {c \in Calls \ Inserting : InFlight(c) /\ call[c].domain = d}

(* No row, call or record knows the id.                                    *)
FreshId(i)       == rows[i] = None /\ \A c \in Calls \ Inserting : InFlight(c) => call[c].id # i
FreshHostname(h) ==
  /\ hosts[h] = None
  /\ \A i \in Taken : rows[i].cf # h
  /\ \A c \in Calls \ Inserting : InFlight(c) => call[c].cf # h

Begin(c, record)   == ~InFlight(c) /\ call' = [call EXCEPT ![c] = record]
Proceed(c, record) == call' = [call EXCEPT ![c] = record]
Return(c)          == call' = [call EXCEPT ![c] = None]
Disturb(d)         == disturbed' = disturbed \cup {d}

-----------------------------------------------------------------------------
(* Create.  The limits are looked at in two queries, an error of which is  *)
(* no objection, and the insert is a third.                                *)

(* Mutant: only the verified domains of an account count.                  *)
ListCustomDomainsVerified(u) == {i \in RowsOf(u) : rows[i].verified}

ListCustomDomains(u) == RowsOf(u)

CreateBegins(c, u, d) ==
  /\ Begin(c, [step |-> "count", user |-> u, domain |-> d])
  /\ \/ /\ ListCustomDomains(u) = {}
        /\ unlisted' = IF \E b \in Inserting : call[b].user = u THEN unlisted \cup {u} ELSE unlisted
     \/ unlisted' = unlisted \cup {u}
  /\ uncounted' = (uncounted \/ Inserting # {})
  /\ UNCHANGED <<rows, txt, hosts, disturbed>>

(* SELECT COUNT( * ); what the request says is validated after it.         *)
Count(c) ==
  /\ At(c, "count")
  /\ \/ /\ Cardinality(Taken) < MaxDomains
        /\ Proceed(c, [call[c] EXCEPT !.step = "insert"]) /\ UNCHANGED uncounted
     \/ Proceed(c, [call[c] EXCEPT !.step = "insert"]) /\ uncounted' = TRUE
     \/ Return(c) /\ UNCHANGED uncounted
  /\ UNCHANGED <<rows, txt, hosts, unlisted, disturbed>>

(* CreateCustomDomain: a domain is one row's, verified or not.             *)
CreateCustomDomain(u, d) ==
  /\ RowsFor(d) = {}
  /\ \E i \in Ids :
       /\ FreshId(i)
       /\ rows' = [rows EXCEPT ![i] = [user |-> u, domain |-> d, verified |-> FALSE,
                                       cf |-> None, slug |-> FALSE]]
       /\ txt' = [txt EXCEPT ![i] = "never"]

Create(c) ==
  /\ At(c, "insert") /\ Return(c)
  /\ CreateCustomDomain(call[c].user, call[c].domain) \/ UNCHANGED <<rows, txt>>
  /\ UNCHANGED <<hosts, limitVars, disturbed>>

-----------------------------------------------------------------------------
(* Verify: the row, the TXT and CNAME records, Cloudflare, the row again.  *)
Overlap(d) == IF BusyWith(d) = {} THEN UNCHANGED disturbed ELSE Disturb(d)

VerifyBegins(c, i) ==
  /\ i \in Taken /\ ~rows[i].verified
  /\ Begin(c, [step |-> "dns", id |-> i, domain |-> rows[i].domain, cf |-> None])
  /\ Overlap(rows[i].domain)
  /\ UNCHANGED <<rows, txt, hosts, limitVars>>

(* Mutant: a record that does not match is reported, and that is all.      *)
LookupLenient(c) ==
  /\ At(c, "dns")
  /\ Proceed(c, [call[c] EXCEPT !.step = "register"]) \/ Return(c)
  /\ UNCHANGED <<rows, txt, hosts, limitVars, disturbed>>

(* The token must be there; a CNAME that leads elsewhere is refused.       *)
Lookup(c) ==
  /\ At(c, "dns")
  /\ \/ txt[call[c].id] = "up" /\ Proceed(c, [call[c] EXCEPT !.step = "register"])
     \/ Return(c)
  /\ UNCHANGED <<rows, txt, hosts, limitVars, disturbed>>

(* CreateCustomHostname: Cloudflare has each hostname once.  A call that   *)
(* fails has registered it all the same, or has not.                       *)
Register(c) ==
  /\ At(c, "register")
  /\ \/ /\ \A h \in Hostnames : hosts[h] # call[c].domain
        /\ \E h \in Hostnames :
             /\ FreshHostname(h)
             /\ hosts' = [hosts EXCEPT ![h] = call[c].domain]
             /\ \/ Proceed(c, [call[c] EXCEPT !.step = "update", !.cf = h]) /\ UNCHANGED disturbed
                \/ Return(c) /\ Disturb(call[c].domain)
     \/ Return(c) /\ UNCHANGED <<hosts, disturbed>>
  /\ UNCHANGED <<rows, txt, limitVars>>

(* Mutant: the hostname's id is not stored.                                *)
VerifyCustomDomainOnly(i, h) ==
  rows' = [rows EXCEPT ![i] = IF @ = None THEN None ELSE [@ EXCEPT !.verified = TRUE]]

(* VerifyCustomDomain: an UPDATE, of no row when it is gone.               *)
VerifyCustomDomain(i, h) ==
  rows' = [rows EXCEPT ![i] = IF @ = None THEN None ELSE [@ EXCEPT !.verified = TRUE, !.cf = h]]

Verify(c) ==
  /\ At(c, "update") /\ Return(c)
  /\ \/ VerifyCustomDomain(call[c].id, call[c].cf) /\ UNCHANGED disturbed
     \/ UNCHANGED rows /\ Disturb(call[c].domain)
  /\ UNCHANGED <<txt, hosts, limitVars>>

-----------------------------------------------------------------------------
(* Delete: the row, Cloudflare when the row has an id, the row again.      *)

(* Mutant: only the row is deleted.                                        *)
DeleteBeginsAtRow(c, i) ==
  /\ i \in Taken
  /\ Begin(c, [step |-> "delete", id |-> i, domain |-> rows[i].domain, cf |-> rows[i].cf])
  /\ Overlap(rows[i].domain)
  /\ UNCHANGED <<rows, txt, hosts, limitVars>>

(* Its first half.                                                         *)
DeleteBegins(c, i) ==
  /\ i \in Taken
  /\ Begin(c, [step |-> IF rows[i].cf = None THEN "delete" ELSE "unregister",
               id |-> i, domain |-> rows[i].domain, cf |-> rows[i].cf])
  /\ Overlap(rows[i].domain)
  /\ UNCHANGED <<rows, txt, hosts, limitVars>>

(* DeleteCustomHostname; a failure is logged.                              *)
Unregister(c) ==
  /\ At(c, "unregister") /\ Proceed(c, [call[c] EXCEPT !.step = "delete"])
  /\ \/ hosts' = [hosts EXCEPT ![call[c].cf] = None] /\ UNCHANGED disturbed
     \/ UNCHANGED hosts /\ Disturb(call[c].domain)
  /\ UNCHANGED <<rows, txt, limitVars>>

DeleteCustomDomain(i) ==
  /\ rows' = [rows EXCEPT ![i] = None]
  /\ txt'  = [txt EXCEPT ![i] = "never"]

Delete(c) ==
  /\ At(c, "delete") /\ Return(c)
  /\ \/ DeleteCustomDomain(call[c].id) /\ UNCHANGED disturbed
     \/ UNCHANGED <<rows, txt>> /\ Disturb(call[c].domain)
  /\ UNCHANGED <<hosts, limitVars>>

-----------------------------------------------------------------------------
(* Update: the page at the domain's root.                                  *)
Update(i, slug) ==
  /\ i \in Taken
  /\ rows' = [rows EXCEPT ![i].slug = slug]
  /\ UNCHANGED <<txt, hosts, call, limitVars, disturbed>>

(* Whoever holds the domain publishes a token there, or takes it down.     *)
Publish(i) ==
  /\ i \in Taken
  /\ txt' = [txt EXCEPT ![i] = IF @ = "up" THEN "down" ELSE "up"]
  /\ UNCHANGED <<rows, hosts, call, limitVars, disturbed>>

(* The server dies in the middle of its calls.                             *)
Crash ==
  /\ \E c \in Calls : InFlight(c)
  /\ call' = [c \in Calls |-> None]
  /\ disturbed' = disturbed \cup {d \in Domains : \E c \in BusyWith(d) : call[c].step \in {"update", "delete"}}
  /\ UNCHANGED <<rows, txt, hosts, limitVars>>

(* Nothing is left of what went wrong with a domain.                       *)
Settle(d) ==
  /\ d \in disturbed /\ BusyWith(d) = {} /\ RowsFor(d) = {} /\ \A h \in Hostnames : hosts[h] # d
  /\ disturbed' = disturbed \ {d}
  /\ UNCHANGED <<rows, txt, hosts, call, limitVars>>

SettleLimits ==
  /\ Inserting = {} /\ Taken = {}
  /\ unlisted' = {} /\ uncounted' = FALSE
  /\ UNCHANGED <<rows, txt, hosts, call, disturbed>>

DomainsNext ==
  \/ \E c \in Calls : \/ \E u \in Users, d \in Domains : CreateBegins(c, u, d)
                      \/ \E i \in Ids : VerifyBegins(c, i) \/ DeleteBegins(c, i)
                      \/ Count(c) \/ Create(c)
                      \/ Lookup(c) \/ Register(c) \/ Verify(c)
                      \/ Unregister(c) \/ Delete(c)
  \/ \E i \in Ids : Publish(i) \/ \E slug \in BOOLEAN : Update(i, slug)
  \/ Crash
  \/ (\E d \in Domains : Settle(d)) \/ SettleLimits

DomainsSpec == DomainsInit /\ [][DomainsNext]_vars

-----------------------------------------------------------------------------
(* Types; and a row is verified when it has a hostname's id.               *)
TypeOK ==
  /\ rows  \in [Ids -> Rows \cup {None}]
  /\ txt   \in [Ids -> {"never", "up", "down"}]
  /\ hosts \in [Hostnames -> Domains \cup {None}]
  /\ call  \in [Calls -> Creating \cup Verifying \cup Deleting \cup {None}]
  /\ unlisted \subseteq Users /\ uncounted \in BOOLEAN
  /\ disturbed \subseteq Domains
  /\ \A i \in Taken : rows[i].verified <=> rows[i].cf # None

(* One domain for an account, and MaxDomains in all: each unless Creates   *)
(* ran side by side, or the query that looks at this limit failed.         *)
LimitsHold ==
  /\ ~uncounted => Cardinality(Taken) <= MaxDomains
  /\ \A u \in Users \ unlisted : Cardinality(RowsOf(u)) <= 1

(* A domain is served for a user only if that user's own token has stood   *)
(* in its TXT record, whoever registered or held it before.                *)
ServedIsProven == \A d \in Domains : \A i \in GetCustomDomainByHost(d) : txt[i] # "never"

(* The table and Cloudflare agree about a domain, once nothing runs: those *)
(* that are verified, and no others, have their hostname.  Not so where a  *)
(* call failed between the two stores, or two calls overlapped.            *)
StoresAgree ==
  \A d \in Domains \ disturbed : BusyWith(d) = {} =>
    \A h \in Hostnames :
      hosts[h] = d <=> \E i \in GetCustomDomainByHost(d) : rows[i].cf = h
=============================================================================
