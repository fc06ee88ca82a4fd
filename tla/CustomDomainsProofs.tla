------------------------ MODULE CustomDomainsProofs ------------------------
(***************************************************************************)
(* Proofs about CustomDomains for any users, domains, rows, hostnames and  *)
(* calls and any limit, checked by TLAPS: the type invariant, the limits,  *)
(* the proof of ownership, and the agreement of the two stores.            *)
(***************************************************************************)
EXTENDS CustomDomains, FiniteSetTheorems, TLAPS

USE DomainsAssumption

(* A call that has a row in hand: Verify or Delete.                        *)
WorkSteps == {"dns", "register", "update", "unregister", "delete"}
Works(c)  == InFlight(c) /\ call[c].step \in WorkSteps

LEMMA CreatingFields ==
  ASSUME TypeOK, NEW c \in Calls, At(c, "count") \/ At(c, "insert")
  PROVE  /\ call[c] \in Creating /\ call[c].user \in Users /\ call[c].domain \in Domains
         /\ [call[c] EXCEPT !.step = "insert"] \in Creating
         /\ [call[c] EXCEPT !.step = "insert"].step = "insert"
         /\ [call[c] EXCEPT !.step = "insert"].user = call[c].user
<1>1. call[c] \in Creating
  BY DEF TypeOK, At, InFlight, Creating, Verifying, Deleting
<1>2. QED BY <1>1 DEF Creating

LEMMA VerifyingFields ==
  ASSUME TypeOK, NEW c \in Calls, At(c, "dns") \/ At(c, "register") \/ At(c, "update")
  PROVE  /\ call[c] \in Verifying /\ call[c].id \in Ids /\ call[c].domain \in Domains
         /\ call[c].cf \in Hostnames \cup {None}
<1>1. call[c] \in Verifying
  BY DEF TypeOK, At, InFlight, Creating, Verifying, Deleting
<1>2. QED BY <1>1 DEF Verifying

(* What Lookup and Register make of their call.                            *)
LEMMA VerifyingGoesOn ==
  ASSUME NEW r \in Verifying, NEW h \in Hostnames
  PROVE  /\ [r EXCEPT !.step = "register"] \in Verifying
         /\ [r EXCEPT !.step = "register"].step = "register"
         /\ [r EXCEPT !.step = "register"].id = r.id
         /\ [r EXCEPT !.step = "register"].domain = r.domain
         /\ [r EXCEPT !.step = "register"].cf = r.cf
         /\ [r EXCEPT !.step = "update", !.cf = h] \in Verifying
         /\ [r EXCEPT !.step = "update", !.cf = h].step = "update"
         /\ [r EXCEPT !.step = "update", !.cf = h].id = r.id
         /\ [r EXCEPT !.step = "update", !.cf = h].domain = r.domain
         /\ [r EXCEPT !.step = "update", !.cf = h].cf = h
BY DEF Verifying

LEMMA DeletingFields ==
  ASSUME TypeOK, NEW c \in Calls, At(c, "unregister") \/ At(c, "delete")
  PROVE  /\ call[c] \in Deleting /\ call[c].id \in Ids /\ call[c].domain \in Domains
         /\ call[c].cf \in Hostnames \cup {None}
         /\ [call[c] EXCEPT !.step = "delete"] \in Deleting
         /\ [call[c] EXCEPT !.step = "delete"].step = "delete"
         /\ [call[c] EXCEPT !.step = "delete"].id = call[c].id
         /\ [call[c] EXCEPT !.step = "delete"].domain = call[c].domain
         /\ [call[c] EXCEPT !.step = "delete"].cf = call[c].cf
<1>1. call[c] \in Deleting
  BY DEF TypeOK, At, InFlight, Creating, Verifying, Deleting
<1>2. QED BY <1>1 DEF Deleting

LEMMA WorksFields ==
  ASSUME TypeOK, NEW c \in Calls, Works(c)
  PROVE  /\ call[c].id \in Ids /\ call[c].domain \in Domains
         /\ call[c].cf \in Hostnames \cup {None}
         /\ call[c].step \in WorkSteps
BY VerifyingFields, DeletingFields DEF Works, WorkSteps, At

(* The calls that Inserting leaves are those that work on a row.           *)
LEMMA WorksOrInserts ==
  ASSUME TypeOK
  PROVE  /\ \A c \in Calls : c \notin Inserting /\ InFlight(c) <=> Works(c)
         /\ \A d : BusyWith(d) = {c \in Calls : Works(c) /\ call[c].domain = d}
<1>1. \A c \in Calls : c \notin Inserting /\ InFlight(c) <=> Works(c)
  <2>1. SUFFICES ASSUME NEW c \in Calls, InFlight(c)
                 PROVE  call[c].step \in {"count", "insert"} <=> call[c].step \notin WorkSteps
    BY DEF Inserting, At, Works
  <2>2. call[c] \in Creating \/ call[c] \in Verifying \/ call[c] \in Deleting
    BY <2>1 DEF TypeOK, InFlight
  <2>3. QED BY <2>2 DEF Creating, Verifying, Deleting, WorkSteps
<1>2. QED BY <1>1 DEF BusyWith

-----------------------------------------------------------------------------
(* Types.                                                                  *)
LEMMA NoneIsNoRecord == None \notin Rows /\ None \notin Creating \cup Verifying \cup Deleting
                        /\ None \notin Hostnames /\ None \notin Domains
BY DEF DomainsAssumption

LEMMA InitType == DomainsInit => TypeOK
BY DEF DomainsInit, TypeOK, Taken

(* The row that CreateCustomDomain inserts, and what VerifyCustomDomain    *)
(* makes of one.                                                           *)
NewRow(u, d) == [user |-> u, domain |-> d, verified |-> FALSE, cf |-> None, slug |-> FALSE]

VerifiedRow(r, h) == [r EXCEPT !.verified = TRUE, !.cf = h]

LEMMA NewRowType ==
  ASSUME NEW u \in Users, NEW d \in Domains
  PROVE  /\ NewRow(u, d) \in Rows
         /\ NewRow(u, d).user = u /\ NewRow(u, d).domain = d
         /\ NewRow(u, d).verified = FALSE /\ NewRow(u, d).cf = None
BY DEF Rows, NewRow

LEMMA VerifiedRowType ==
  ASSUME NEW r \in Rows, NEW h \in Hostnames
  PROVE  /\ VerifiedRow(r, h) \in Rows
         /\ VerifiedRow(r, h).user = r.user /\ VerifiedRow(r, h).domain = r.domain
         /\ VerifiedRow(r, h).verified = TRUE /\ VerifiedRow(r, h).cf = h
BY DEF Rows, VerifiedRow

LEMMA SlugRowType ==
  ASSUME NEW r \in Rows, NEW slug \in BOOLEAN
  PROVE  /\ [r EXCEPT !.slug = slug] \in Rows
         /\ [r EXCEPT !.slug = slug].user = r.user
         /\ [r EXCEPT !.slug = slug].domain = r.domain
         /\ [r EXCEPT !.slug = slug].verified = r.verified
         /\ [r EXCEPT !.slug = slug].cf = r.cf
BY DEF Rows

LEMMA RowFields ==
  ASSUME TypeOK, NEW i \in Taken
  PROVE  /\ i \in Ids /\ rows[i] \in Rows
         /\ rows[i].user \in Users /\ rows[i].domain \in Domains
         /\ rows[i].verified \in BOOLEAN /\ rows[i].cf \in Hostnames \cup {None}
<1>1. i \in Ids /\ rows[i] \in Rows
  BY DEF TypeOK, Taken
<1>2. QED BY <1>1 DEF Rows

-----------------------------------------------------------------------------
(* What the steps do to the rows: an insert, the update of Verify, the     *)
(* delete of Delete, another page.                                         *)
Inserts(c, i) ==
  /\ At(c, "insert") /\ FreshId(i) /\ RowsFor(call[c].domain) = {}
  /\ rows' = [rows EXCEPT ![i] = NewRow(call[c].user, call[c].domain)]
  /\ txt' = [txt EXCEPT ![i] = "never"]
  /\ call' = [call EXCEPT ![c] = None]
  /\ UNCHANGED <<hosts, limitVars, disturbed>>

Stores(c) ==
  /\ At(c, "update") /\ rows[call[c].id] # None
  /\ rows' = [rows EXCEPT ![call[c].id] = VerifiedRow(rows[call[c].id], call[c].cf)]
  /\ call' = [call EXCEPT ![c] = None]
  /\ UNCHANGED <<txt, hosts, limitVars, disturbed>>

Removes(c) ==
  /\ At(c, "delete")
  /\ rows' = [rows EXCEPT ![call[c].id] = None]
  /\ txt' = [txt EXCEPT ![call[c].id] = "never"]
  /\ call' = [call EXCEPT ![c] = None]
  /\ UNCHANGED <<hosts, limitVars, disturbed>>

LEMMA CreateRows ==
  ASSUME TypeOK, NEW c \in Calls, Create(c)
  PROVE  \/ UNCHANGED <<rows, txt, hosts, limitVars, disturbed>> /\ call' = [call EXCEPT ![c] = None]
         \/ \E i \in Ids : Inserts(c, i)
BY DEF Create, Return, CreateCustomDomain, Inserts, NewRow

LEMMA VerifyRows ==
  ASSUME TypeOK, NEW c \in Calls, Verify(c)
  PROVE  \/ UNCHANGED <<rows, txt, hosts, limitVars>> /\ call' = [call EXCEPT ![c] = None]
            /\ \/ disturbed' = disturbed \cup {call[c].domain}
               \/ UNCHANGED disturbed /\ rows[call[c].id] = None
         \/ Stores(c)
<1>1. CASE UNCHANGED rows /\ Disturb(call[c].domain)
  BY <1>1 DEF Verify, Return, Disturb
<1>2. CASE VerifyCustomDomain(call[c].id, call[c].cf) /\ UNCHANGED disturbed
  <2>1. call[c].id \in Ids /\ rows \in [Ids -> Rows \cup {None}]
    BY VerifyingFields DEF Verify, TypeOK
  <2>2. rows' = [rows EXCEPT ![call[c].id] =
                   IF rows[call[c].id] = None THEN None
                   ELSE VerifiedRow(rows[call[c].id], call[c].cf)]
    BY <1>2, <2>1 DEF VerifyCustomDomain, VerifiedRow
  <2>3. CASE rows[call[c].id] = None
    <3>1. rows' = rows
      BY <2>1, <2>2, <2>3
    <3>2. QED BY <1>2, <2>3, <3>1 DEF Verify, Return
  <2>4. CASE rows[call[c].id] # None
    BY <1>2, <2>2, <2>4 DEF Verify, Return, Stores
  <2>5. QED BY <2>3, <2>4
<1>3. QED BY <1>1, <1>2 DEF Verify

LEMMA DeleteRows ==
  ASSUME TypeOK, NEW c \in Calls, Delete(c)
  PROVE  \/ UNCHANGED <<rows, txt, hosts, limitVars>> /\ call' = [call EXCEPT ![c] = None]
            /\ disturbed' = disturbed \cup {call[c].domain}
         \/ Removes(c)
BY DEF Delete, Return, DeleteCustomDomain, Removes, Disturb

(* Who is to store the id of a hostname, or to delete one, knows it.       *)
HostnameKnown ==
  \A c \in Calls : At(c, "update") \/ At(c, "unregister") => call[c].cf \in Hostnames

LEMMA CallType ==
  ASSUME TypeOK, NEW c \in Calls,
         NEW r \in Creating \cup Verifying \cup Deleting \cup {None},
         call' = [call EXCEPT ![c] = r]
  PROVE  call' \in [Calls -> Creating \cup Verifying \cup Deleting \cup {None}]
BY DEF TypeOK

(* The records that begin a call.                                          *)
LEMMA BeginTypes ==
  ASSUME TypeOK
  PROVE  /\ \A u \in Users, d \in Domains :
              [step |-> "count", user |-> u, domain |-> d] \in Creating
         /\ \A i \in Taken :
              [step |-> "dns", id |-> i, domain |-> rows[i].domain, cf |-> None] \in Verifying
         /\ \A i \in Taken : \A step \in {"unregister", "delete"} :
              [step |-> step, id |-> i, domain |-> rows[i].domain, cf |-> rows[i].cf] \in Deleting
<1>1. \A i \in Taken : /\ i \in Ids /\ rows[i].domain \in Domains
                       /\ rows[i].cf \in Hostnames \cup {None}
  BY RowFields
<1>2. QED BY <1>1 DEF Creating, Verifying, Deleting

LEMMA VerifiedHaveHostname ==
  ASSUME TypeOK, NEW i \in Taken
  PROVE  rows[i].verified <=> rows[i].cf # None
BY DEF TypeOK

LEMMA StepType ==
  ASSUME TypeOK, HostnameKnown, [DomainsNext]_vars
  PROVE  TypeOK'
<1> DEFINE CallTyped == call' \in [Calls -> Creating \cup Verifying \cup Deleting \cup {None}]
           RowsTyped == /\ rows' \in [Ids -> Rows \cup {None}]
                        /\ txt' \in [Ids -> {"never", "up", "down"}]
                        /\ \A i \in Taken' : rows'[i].verified <=> rows'[i].cf # None
           Kept == UNCHANGED <<hosts, limitVars, disturbed>>
<1>a. UNCHANGED <<rows, txt>> => RowsTyped
  BY DEF TypeOK, Taken
<1>b. RowsTyped /\ CallTyped /\ Kept => TypeOK'
  BY DEF TypeOK, limitVars
<1>1. ASSUME NEW c \in Calls, NEW u \in Users, NEW d \in Domains, CreateBegins(c, u, d) PROVE TypeOK'
  <2>1. CallTyped
    BY <1>1, CallType, BeginTypes DEF CreateBegins, Begin
  <2>2. QED BY <1>1, <1>a, <2>1 DEF CreateBegins, TypeOK
<1>2. ASSUME NEW c \in Calls, Count(c) PROVE TypeOK'
  <2>1. CallTyped
    BY <1>2, CallType, CreatingFields DEF Count, Proceed, Return
  <2>2. QED BY <1>2, <1>a, <2>1 DEF Count, TypeOK
<1>3. ASSUME NEW c \in Calls, Create(c) PROVE TypeOK'
  <2>1. CallTyped
    BY <1>3, CallType DEF Create, Return
  <2>2. ASSUME NEW i \in Ids, Inserts(c, i) PROVE TypeOK'
    <3>1. call[c].user \in Users /\ call[c].domain \in Domains
      BY <2>2, CreatingFields DEF Inserts
    <3> DEFINE r == NewRow(call[c].user, call[c].domain)
    <3>2. r \in Rows /\ r.verified = FALSE /\ r.cf = None
      BY <3>1, NewRowType
    <3> HIDE DEF r
    <3>3. rows' = [rows EXCEPT ![i] = r] /\ txt' = [txt EXCEPT ![i] = "never"]
      BY <2>2 DEF Inserts, r
    <3>4. RowsTyped
      BY <3>2, <3>3 DEF TypeOK, Taken
    <3>5. QED BY <1>b, <2>1, <2>2, <3>4 DEF Inserts
  <2>3. QED BY <1>3, <1>a, <1>b, <2>1, <2>2, CreateRows
<1>4. ASSUME NEW c \in Calls, NEW i \in Ids, VerifyBegins(c, i) PROVE TypeOK'
  <2>1. CallTyped
    BY <1>4, CallType, BeginTypes DEF VerifyBegins, Begin
  <2>2. disturbed' \subseteq Domains
    BY <1>4, RowFields DEF VerifyBegins, Overlap, Disturb, TypeOK
  <2>3. QED BY <1>4, <1>a, <2>1, <2>2 DEF VerifyBegins, TypeOK, limitVars
<1>5. ASSUME NEW c \in Calls, NEW i \in Ids, DeleteBegins(c, i) PROVE TypeOK'
  <2>1. CallTyped
    <3>1. PICK step \in {"unregister", "delete"} :
            Begin(c, [step |-> step, id |-> i, domain |-> rows[i].domain, cf |-> rows[i].cf])
      BY <1>5 DEF DeleteBegins
    <3>2. i \in Taken
      BY <1>5 DEF DeleteBegins
    <3>3. QED BY <3>1, <3>2, CallType, BeginTypes DEF Begin
  <2>2. disturbed' \subseteq Domains
    BY <1>5, RowFields DEF DeleteBegins, Overlap, Disturb, TypeOK
  <2>3. QED BY <1>5, <1>a, <2>1, <2>2 DEF DeleteBegins, TypeOK, limitVars
<1>6. ASSUME NEW c \in Calls, Lookup(c) PROVE TypeOK'
  <2>1. call[c] \in Verifying
    BY <1>6, VerifyingFields DEF Lookup
  <2>2. [call[c] EXCEPT !.step = "register"] \in Verifying
    BY <2>1 DEF Verifying
  <2>3. CallTyped
    BY <1>6, <2>2, CallType DEF Lookup, Proceed, Return
  <2>4. QED BY <1>6, <1>a, <1>b, <2>3 DEF Lookup
<1>7. ASSUME NEW c \in Calls, Register(c) PROVE TypeOK'
  <2>1. call[c] \in Verifying /\ call[c].domain \in Domains
    BY <1>7, VerifyingFields DEF Register
  <2>2. CallTyped
    <3>1. \A h \in Hostnames : [call[c] EXCEPT !.step = "update", !.cf = h] \in Verifying
      BY <2>1, VerifyingGoesOn
    <3>2. QED BY <1>7, <3>1, CallType DEF Register, Proceed, Return
  <2>3. hosts' \in [Hostnames -> Domains \cup {None}] /\ disturbed' \subseteq Domains
    BY <1>7, <2>1 DEF Register, Disturb, TypeOK
  <2>4. QED BY <1>7, <1>a, <2>2, <2>3 DEF Register, TypeOK, limitVars
<1>8. ASSUME NEW c \in Calls, Verify(c) PROVE TypeOK'
  <2>1. CallTyped
    BY <1>8, CallType DEF Verify, Return
  <2>2. disturbed' \subseteq Domains
    BY <1>8, VerifyingFields DEF Verify, Disturb, TypeOK
  <2>3. RowsTyped
    <3>1. CASE Stores(c)
      <4>1. call[c].id \in Taken /\ call[c].cf \in Hostnames
        BY <3>1, VerifyingFields DEF Stores, Taken, HostnameKnown
      <4>2. rows[call[c].id] \in Rows
        BY <4>1, RowFields
      <4> DEFINE r == VerifiedRow(rows[call[c].id], call[c].cf)
      <4>3. r \in Rows /\ r.verified = TRUE /\ r.cf # None
        BY <4>1, <4>2, VerifiedRowType, NoneIsNoRecord
      <4>4. rows' = [rows EXCEPT ![call[c].id] = r] /\ txt' = txt
        BY <3>1 DEF Stores
      <4> HIDE DEF r
      <4>5. QED BY <4>1, <4>3, <4>4 DEF TypeOK, Taken
    <3>2. CASE UNCHANGED <<rows, txt>>
      BY <3>2, <1>a
    <3>3. QED BY <1>8, <3>1, <3>2, VerifyRows
  <2>4. QED BY <1>8, <2>1, <2>2, <2>3 DEF Verify, TypeOK, limitVars
<1>9. ASSUME NEW c \in Calls, Unregister(c) PROVE TypeOK'
  <2>1. CallTyped
    BY <1>9, CallType, DeletingFields DEF Unregister, Proceed
  <2>2. hosts' \in [Hostnames -> Domains \cup {None}] /\ disturbed' \subseteq Domains
    BY <1>9, DeletingFields DEF Unregister, Disturb, TypeOK
  <2>3. QED BY <1>9, <1>a, <2>1, <2>2 DEF Unregister, TypeOK, limitVars
<1>10. ASSUME NEW c \in Calls, Delete(c) PROVE TypeOK'
  <2>1. CallTyped
    BY <1>10, CallType DEF Delete, Return
  <2>2. disturbed' \subseteq Domains
    <3>1. call[c].domain \in Domains
      BY <1>10, DeletingFields DEF Delete
    <3>2. QED BY <1>10, <3>1 DEF Delete, Disturb, TypeOK
  <2>3. RowsTyped
    BY <1>10, <1>a DEF Delete, DeleteCustomDomain, TypeOK, Taken
  <2>4. QED BY <1>10, <2>1, <2>2, <2>3 DEF Delete, TypeOK, limitVars
<1>11. ASSUME NEW i \in Ids, NEW slug \in BOOLEAN, Update(i, slug) PROVE TypeOK'
  <2>1. i \in Taken /\ rows[i] \in Rows
    BY <1>11, RowFields DEF Update
  <2> DEFINE r == [rows[i] EXCEPT !.slug = slug]
  <2>2. r \in Rows /\ r.verified = rows[i].verified /\ r.cf = rows[i].cf
    BY <2>1, SlugRowType
  <2>3. rows' = [rows EXCEPT ![i] = r] /\ txt' = txt /\ call' = call /\ Kept
    BY <1>11 DEF Update, TypeOK
  <2> HIDE DEF r
  <2>4. RowsTyped
    BY <2>1, <2>2, <2>3 DEF TypeOK, Taken
  <2>5. QED BY <1>b, <2>3, <2>4 DEF TypeOK
<1>12. ASSUME NEW i \in Ids, Publish(i) PROVE TypeOK'
  BY <1>12 DEF Publish, TypeOK, Taken, limitVars
<1>13. CASE Crash
  <2>1. CallTyped /\ UNCHANGED <<rows, txt, hosts, limitVars>> /\ disturbed' \subseteq Domains
    BY <1>13 DEF Crash, TypeOK
  <2>2. QED BY <1>a, <2>1 DEF TypeOK, limitVars
<1>14. ASSUME NEW d \in Domains, Settle(d) PROVE TypeOK'
  BY <1>14, <1>a DEF Settle, TypeOK, limitVars
<1>15. CASE SettleLimits
  BY <1>15, <1>a DEF SettleLimits, TypeOK
<1>16. CASE UNCHANGED vars
  BY <1>16, <1>a DEF vars, TypeOK, limitVars
<1>17. QED
  BY <1>1, <1>2, <1>3, <1>4, <1>5, <1>6, <1>7, <1>8, <1>9, <1>10, <1>11, <1>12, <1>13,
     <1>14, <1>15, <1>16 DEF DomainsNext

-----------------------------------------------------------------------------
(* What a step does to the rows, whichever step it is: a row keeps its     *)
(* user and its domain, and only an insert brings a row.                   *)
SameOwner(i) == rows'[i].user = rows[i].user /\ rows'[i].domain = rows[i].domain

LEMMA InsertedRow ==
  ASSUME TypeOK, NEW c \in Calls, NEW i \in Ids, Inserts(c, i)
  PROVE  /\ i \notin Taken /\ Taken' = Taken \cup {i}
         /\ \A j \in Taken : rows'[j] = rows[j]
         /\ rows'[i] # None
         /\ rows'[i].user = call[c].user /\ rows'[i].domain = call[c].domain
         /\ rows'[i].verified = FALSE /\ rows'[i].cf = None
<1> DEFINE u == call[c].user
           d == call[c].domain
           r == NewRow(u, d)
<1>1. u \in Users /\ d \in Domains
  BY CreatingFields DEF Inserts
<1>2. rows' = [rows EXCEPT ![i] = r] /\ rows[i] = None
  BY DEF Inserts, FreshId
<1> HIDE DEF u, d
<1>3. r # None /\ r.user = u /\ r.domain = d /\ r.verified = FALSE /\ r.cf = None
  BY <1>1, NewRowType, NoneIsNoRecord
<1> HIDE DEF r
<1>4. rows'[i] = r /\ \A j \in Ids \ {i} : rows'[j] = rows[j]
  BY <1>2 DEF TypeOK
<1>5. i \notin Taken /\ Taken' = Taken \cup {i} /\ \A j \in Taken : rows'[j] = rows[j]
  BY <1>2, <1>3, <1>4 DEF Taken
<1>6. QED BY <1>3, <1>4, <1>5 DEF u, d

LEMMA RowsKept ==
  ASSUME TypeOK, HostnameKnown, [DomainsNext]_vars
  PROVE  /\ \A i \in Taken \cap Taken' : SameOwner(i)
         /\ \/ Taken' \subseteq Taken
            \/ \E c \in Calls, i \in Ids : Inserts(c, i) /\ i \notin Taken /\ Taken' = Taken \cup {i}
<1> DEFINE Goal == /\ \A i \in Taken \cap Taken' : SameOwner(i)
                   /\ \/ Taken' \subseteq Taken
                      \/ \E c \in Calls, i \in Ids :
                            Inserts(c, i) /\ i \notin Taken /\ Taken' = Taken \cup {i}
<1>a. UNCHANGED rows => Goal
  BY DEF Taken, SameOwner
<1>1. ASSUME NEW c \in Calls, NEW i \in Ids, Inserts(c, i) PROVE Goal
  BY <1>1, InsertedRow DEF SameOwner
<1>2. ASSUME NEW c \in Calls, Stores(c) PROVE Goal
  <2>1. call[c].id \in Taken /\ call[c].cf \in Hostnames
    BY <1>2, VerifyingFields DEF Stores, Taken, HostnameKnown
  <2>2. rows[call[c].id] \in Rows
    BY <2>1, RowFields
  <2> DEFINE r == VerifiedRow(rows[call[c].id], call[c].cf)
  <2>3. r.user = rows[call[c].id].user /\ r.domain = rows[call[c].id].domain
    BY <2>1, <2>2, VerifiedRowType
  <2>4. rows' = [rows EXCEPT ![call[c].id] = r]
    BY <1>2 DEF Stores
  <2> HIDE DEF r
  <2>5. QED BY <2>1, <2>3, <2>4 DEF Taken, TypeOK, SameOwner
<1>3. ASSUME NEW c \in Calls, Removes(c) PROVE Goal
  BY <1>3 DEF Removes, Taken, TypeOK, SameOwner
<1>4. ASSUME NEW i \in Ids, NEW slug \in BOOLEAN, Update(i, slug) PROVE Goal
  <2>1. i \in Taken /\ rows[i] \in Rows
    BY <1>4, RowFields DEF Update
  <2> DEFINE r == [rows[i] EXCEPT !.slug = slug]
  <2>2. r.user = rows[i].user /\ r.domain = rows[i].domain
    BY <2>1, SlugRowType
  <2>3. rows' = [rows EXCEPT ![i] = r]
    BY <1>4 DEF Update, TypeOK
  <2> HIDE DEF r
  <2>4. QED BY <2>1, <2>2, <2>3 DEF Taken, TypeOK, SameOwner
<1>5. ASSUME NEW c \in Calls, Create(c) \/ Verify(c) \/ Delete(c) PROVE Goal
  BY <1>a, <1>1, <1>2, <1>3, <1>5, CreateRows, VerifyRows, DeleteRows
<1> HIDE DEF Goal
<1>6. ASSUME NEW c \in Calls, Count(c) \/ Lookup(c) \/ Register(c) \/ Unregister(c) PROVE Goal
  BY <1>a, <1>6 DEF Count, Lookup, Register, Unregister
<1>7. ASSUME NEW c \in Calls, NEW u \in Users, NEW d \in Domains, CreateBegins(c, u, d) PROVE Goal
  BY <1>a, <1>7 DEF CreateBegins
<1>8. ASSUME NEW c \in Calls, NEW i \in Ids, VerifyBegins(c, i) \/ DeleteBegins(c, i) PROVE Goal
  BY <1>a, <1>8 DEF VerifyBegins, DeleteBegins
<1>9. ASSUME NEW i \in Ids, Publish(i) PROVE Goal
  BY <1>a, <1>9 DEF Publish
<1>10. CASE Crash \/ SettleLimits \/ \E d \in Domains : Settle(d)
  BY <1>a, <1>10 DEF Crash, SettleLimits, Settle, Goal
<1>11. CASE UNCHANGED vars
  BY <1>a, <1>11 DEF vars, Goal
<1>12. Goal
  BY <1>4, <1>5, <1>6, <1>7, <1>8, <1>9, <1>10, <1>11 DEF DomainsNext, Goal
<1>13. QED BY <1>12 DEF Goal

(* And to the calls: how a call that works on a row came to where it is.   *)
BeginsAt(c) ==
  /\ ~InFlight(c) /\ UNCHANGED <<rows, txt, hosts, limitVars>>
  /\ call'[c].id \in Taken /\ call'[c].domain = rows[call'[c].id].domain
  /\ \/ /\ call'[c].step = "dns" /\ call'[c].cf = None
        /\ ~rows[call'[c].id].verified
     \/ /\ call'[c].cf = rows[call'[c].id].cf
        /\ call'[c].step = IF call'[c].cf = None THEN "delete" ELSE "unregister"

LooksUp(c) ==
  /\ At(c, "dns") /\ txt[call[c].id] = "up" /\ call'[c].step = "register"
  /\ call'[c].cf = call[c].cf
  /\ UNCHANGED <<rows, txt, hosts, limitVars, disturbed>>

Registers(c, h) ==
  /\ At(c, "register") /\ FreshHostname(h) /\ \A g \in Hostnames : hosts[g] # call[c].domain
  /\ hosts' = [hosts EXCEPT ![h] = call[c].domain]
  /\ call'[c].step = "update" /\ call'[c].cf = h
  /\ UNCHANGED <<rows, txt, limitVars, disturbed>>

Unregisters(c) ==
  /\ At(c, "unregister") /\ call'[c].step = "delete" /\ call'[c].cf = call[c].cf
  /\ \/ hosts' = [hosts EXCEPT ![call[c].cf] = None] /\ UNCHANGED disturbed
     \/ UNCHANGED hosts /\ disturbed' = disturbed \cup {call[c].domain}
  /\ UNCHANGED <<rows, txt, limitVars>>

GoesOn(c) ==
  /\ call'[c].id = call[c].id /\ call'[c].domain = call[c].domain
  /\ LooksUp(c) \/ (\E h \in Hostnames : Registers(c, h)) \/ Unregisters(c)

LEMMA LookupCalls ==
  ASSUME TypeOK, NEW c \in Calls, Lookup(c), Works(c)'
  PROVE  GoesOn(c)
<1>1. call' # [call EXCEPT ![c] = None]
  BY DEF Works, InFlight, TypeOK
<1>2. txt[call[c].id] = "up" /\ call' = [call EXCEPT ![c] = [call[c] EXCEPT !.step = "register"]]
  BY <1>1 DEF Lookup, Return, Proceed
<1>3. /\ call[c] \in Verifying
      /\ call'[c] = [call[c] EXCEPT !.step = "register"]
  BY <1>2, VerifyingFields DEF Lookup, TypeOK
<1>4. /\ call'[c].step = "register" /\ call'[c].id = call[c].id
      /\ call'[c].domain = call[c].domain /\ call'[c].cf = call[c].cf
  BY <1>3 DEF Verifying
<1>5. QED BY <1>2, <1>4 DEF Lookup, GoesOn, LooksUp, limitVars

LEMMA RegisterCalls ==
  ASSUME TypeOK, NEW c \in Calls, Register(c), Works(c)'
  PROVE  GoesOn(c)
<1>1. call' # [call EXCEPT ![c] = None]
  BY DEF Works, InFlight, TypeOK
<1>2. PICK h \in Hostnames :
        /\ FreshHostname(h) /\ \A g \in Hostnames : hosts[g] # call[c].domain
        /\ hosts' = [hosts EXCEPT ![h] = call[c].domain]
        /\ call' = [call EXCEPT ![c] = [call[c] EXCEPT !.step = "update", !.cf = h]]
        /\ UNCHANGED disturbed
  BY <1>1 DEF Register, Return, Proceed
<1>3. call[c] \in Verifying /\ call'[c] = [call[c] EXCEPT !.step = "update", !.cf = h]
  BY <1>2, VerifyingFields DEF Register, TypeOK
<1>4. /\ call'[c].step = "update" /\ call'[c].id = call[c].id
      /\ call'[c].domain = call[c].domain /\ call'[c].cf = h
  BY <1>3 DEF Verifying
<1>5. QED BY <1>2, <1>4 DEF Register, GoesOn, Registers, limitVars

LEMMA UnregisterCalls ==
  ASSUME TypeOK, NEW c \in Calls, Unregister(c)
  PROVE  GoesOn(c)
<1>1. call[c] \in Deleting /\ call'[c] = [call[c] EXCEPT !.step = "delete"]
  BY DeletingFields DEF Unregister, Proceed, TypeOK
<1>2. /\ call'[c].step = "delete" /\ call'[c].id = call[c].id
      /\ call'[c].domain = call[c].domain /\ call'[c].cf = call[c].cf
  BY <1>1 DEF Deleting
<1>3. QED BY <1>2 DEF Unregister, GoesOn, Unregisters, Disturb, limitVars

LEMMA BeginCalls ==
  ASSUME TypeOK, NEW c \in Calls, NEW i \in Ids, VerifyBegins(c, i) \/ DeleteBegins(c, i)
  PROVE  BeginsAt(c) /\ \A b \in Calls \ {c} : call'[b] = call[b]
<1>1. CASE VerifyBegins(c, i)
  <2>1. call'[c] = [step |-> "dns", id |-> i, domain |-> rows[i].domain, cf |-> None]
    BY <1>1 DEF VerifyBegins, Begin, TypeOK
  <2>2. QED BY <1>1, <2>1 DEF VerifyBegins, Begin, BeginsAt, TypeOK, limitVars
<1>2. CASE DeleteBegins(c, i)
  <2>1. call'[c] = [step |-> IF rows[i].cf = None THEN "delete" ELSE "unregister",
                    id |-> i, domain |-> rows[i].domain, cf |-> rows[i].cf]
    BY <1>2 DEF DeleteBegins, Begin, TypeOK
  <2>2. QED BY <1>2, <2>1 DEF DeleteBegins, Begin, BeginsAt, TypeOK, limitVars
<1>3. QED BY <1>1, <1>2

(* The count and the insert are no work on a row.                          *)
LEMMA InsertingDoesNotWork ==
  ASSUME TypeOK, NEW c \in Calls
  PROVE  /\ \A u \in Users, d \in Domains : CreateBegins(c, u, d) => ~Works(c)'
         /\ Count(c) => ~Works(c)'
         /\ Create(c) \/ Verify(c) \/ Delete(c) => ~Works(c)'
<1>1. ASSUME NEW u \in Users, NEW d \in Domains, CreateBegins(c, u, d) PROVE ~Works(c)'
  BY <1>1 DEF CreateBegins, Begin, Works, WorkSteps, TypeOK
<1>2. ASSUME Count(c) PROVE ~Works(c)'
  <2>1. call'[c] = None \/ call'[c] = [call[c] EXCEPT !.step = "insert"]
    BY <1>2 DEF Count, Proceed, Return, TypeOK
  <2>2. QED BY <1>2, <2>1, CreatingFields DEF Count, Works, WorkSteps, InFlight
<1>3. ASSUME Create(c) \/ Verify(c) \/ Delete(c) PROVE ~Works(c)'
  BY <1>3 DEF Create, Verify, Delete, Return, Works, InFlight, TypeOK
<1>4. QED BY <1>1, <1>2, <1>3

LEMMA CallsKept ==
  ASSUME TypeOK, [DomainsNext]_vars, NEW b \in Calls, Works(b)'
  PROVE  \/ Works(b) /\ call'[b] = call[b]
         \/ BeginsAt(b)
         \/ GoesOn(b)
<1>a. call'[b] = call[b] => Works(b) /\ call'[b] = call[b]
  BY DEF Works, InFlight
<1>1. ASSUME NEW c \in Calls, NEW u \in Users, NEW d \in Domains, CreateBegins(c, u, d)
      PROVE  call'[b] = call[b]
  BY <1>1, InsertingDoesNotWork DEF CreateBegins, Begin, TypeOK
<1>2. ASSUME NEW c \in Calls, Count(c) PROVE call'[b] = call[b]
  BY <1>2, InsertingDoesNotWork DEF Count, Proceed, Return, TypeOK
<1>3. ASSUME NEW c \in Calls, Create(c) \/ Verify(c) \/ Delete(c) PROVE call'[b] = call[b]
  BY <1>3, InsertingDoesNotWork DEF Create, Verify, Delete, Return, TypeOK
<1>4. ASSUME NEW c \in Calls, NEW i \in Ids, VerifyBegins(c, i) \/ DeleteBegins(c, i)
      PROVE  call'[b] = call[b] \/ BeginsAt(b)
  BY <1>4, BeginCalls
<1>5. ASSUME NEW c \in Calls, Lookup(c) \/ Register(c) \/ Unregister(c)
      PROVE  call'[b] = call[b] \/ GoesOn(b)
  <2>1. CASE b = c
    BY <1>5, <2>1, LookupCalls, RegisterCalls, UnregisterCalls
  <2>2. CASE b # c
    BY <1>5, <2>2 DEF Lookup, Register, Unregister, Proceed, Return, TypeOK
  <2>3. QED BY <2>1, <2>2
<1>6. ASSUME NEW i \in Ids, Publish(i) \/ \E slug \in BOOLEAN : Update(i, slug)
      PROVE  call'[b] = call[b]
  BY <1>6 DEF Publish, Update
<1>7. ASSUME Crash PROVE FALSE
  BY <1>7 DEF Crash, Works, InFlight
<1>8. ASSUME SettleLimits \/ (\E d \in Domains : Settle(d)) \/ UNCHANGED vars PROVE call'[b] = call[b]
  BY <1>8 DEF SettleLimits, Settle, vars
<1>9. QED
  BY <1>a, <1>1, <1>2, <1>3, <1>4, <1>5, <1>6, <1>7, <1>8 DEF DomainsNext

-----------------------------------------------------------------------------
(* A domain is one row's.                                                  *)
UniqueDomains == \A i, j \in Taken : rows[i].domain = rows[j].domain => i = j

LEMMA StepUnique ==
  ASSUME TypeOK, HostnameKnown, UniqueDomains, [DomainsNext]_vars
  PROVE  UniqueDomains'
<1>1. CASE Taken' \subseteq Taken
  BY <1>1, RowsKept DEF UniqueDomains, SameOwner
<1>2. ASSUME NEW c \in Calls, NEW i \in Ids, Inserts(c, i), i \notin Taken, Taken' = Taken \cup {i}
      PROVE  UniqueDomains'
  <2>1. rows'[i].domain = call[c].domain
    BY <1>2, InsertedRow
  <2>2. \A j \in Taken : rows[j].domain # call[c].domain
    BY <1>2 DEF Inserts, RowsFor
  <2>3. \A j \in Taken : rows'[j].domain = rows[j].domain
    BY <1>2, RowsKept DEF SameOwner
  <2>4. QED BY <1>2, <2>1, <2>2, <2>3 DEF UniqueDomains
<1>3. QED BY <1>1, <1>2, RowsKept

(* The row a call has in hand is its domain's, while it is there.          *)
CallsOwnDomain ==
  \A c \in Calls :
    Works(c) /\ call[c].id \in Taken => rows[call[c].id].domain = call[c].domain

LEMMA StepCallsOwnDomain ==
  ASSUME TypeOK, HostnameKnown, CallsOwnDomain, [DomainsNext]_vars
  PROVE  CallsOwnDomain'
<1>1. SUFFICES ASSUME NEW c \in Calls, Works(c)', call'[c].id \in Taken'
               PROVE  rows'[call'[c].id].domain = call'[c].domain
  BY DEF CallsOwnDomain
<1>2. CASE BeginsAt(c)
  BY <1>2 DEF BeginsAt
<1>3. ASSUME Works(c), call'[c].id = call[c].id, call'[c].domain = call[c].domain
      PROVE  rows'[call'[c].id].domain = call'[c].domain
  <2>1. call[c].id \in Taken
    <3>1. ASSUME NEW b \in Calls, NEW i \in Ids, Inserts(b, i) PROVE call[c].id # i
      BY <1>3, <3>1, WorksOrInserts DEF Inserts, FreshId
    <3>2. QED BY <1>1, <1>3, <3>1, RowsKept
  <2>2. rows[call[c].id].domain = call[c].domain
    BY <1>3, <2>1 DEF CallsOwnDomain
  <2>3. QED BY <1>1, <1>3, <2>1, <2>2, RowsKept DEF SameOwner
<1>4. CASE GoesOn(c)
  <2>1. Works(c)
    BY <1>4 DEF GoesOn, LooksUp, Registers, Unregisters, At, Works, WorkSteps
  <2>2. QED BY <1>3, <1>4, <2>1 DEF GoesOn
<1>5. QED BY <1>1, <1>2, <1>3, <1>4, CallsKept

LEMMA StepHostnameKnown ==
  ASSUME TypeOK, HostnameKnown, [DomainsNext]_vars
  PROVE  HostnameKnown'
<1>1. SUFFICES ASSUME NEW c \in Calls, At(c, "update")' \/ At(c, "unregister")'
               PROVE  call'[c].cf \in Hostnames
  BY DEF HostnameKnown
<1>2. Works(c)'
  BY <1>1 DEF At, Works, WorkSteps
<1>3. CASE call'[c] = call[c]
  BY <1>1, <1>3 DEF HostnameKnown, At, InFlight
<1>4. CASE BeginsAt(c)
  BY <1>1, <1>4, RowFields DEF BeginsAt, At
<1>5. CASE GoesOn(c)
  BY <1>1, <1>5 DEF GoesOn, LooksUp, Registers, Unregisters, At
<1>6. QED BY <1>2, <1>3, <1>4, <1>5, CallsKept

(* Past the lookup the token of the row in hand has stood in its record,   *)
(* and so has that of a verified row.                                      *)
Proven(i) == i \in Taken => txt[i] # "never"

TokensSeen ==
  /\ \A c \in Calls : At(c, "register") \/ At(c, "update") => Proven(call[c].id)
  /\ \A i \in Taken : rows[i].verified => Proven(i)

(* No token that has been seen is forgotten while its row is there.        *)
LEMMA TokensStay ==
  ASSUME TypeOK, HostnameKnown, [DomainsNext]_vars, NEW i \in Taken, Proven(i)
  PROVE  Proven(i)'
<1>1. CASE UNCHANGED txt
  BY <1>1 DEF Proven
<1>2. ASSUME NEW c \in Calls, Create(c) PROVE Proven(i)'
  <2>1. ASSUME NEW j \in Ids, Inserts(c, j) PROVE Proven(i)'
    BY <2>1 DEF Inserts, FreshId, Taken, TypeOK, Proven
  <2>2. QED BY <1>1, <1>2, <2>1, CreateRows
<1>3. ASSUME NEW c \in Calls, Delete(c) PROVE Proven(i)'
  <2>1. CASE Removes(c)
    BY <2>1 DEF Removes, Proven, Taken, TypeOK
  <2>2. QED BY <1>1, <1>3, <2>1, DeleteRows
<1>4. ASSUME NEW j \in Ids, Publish(j) PROVE Proven(i)'
  BY <1>4 DEF Publish, Proven, TypeOK
<1>5. UNCHANGED txt \/ (\E c \in Calls : Create(c) \/ Delete(c)) \/ \E j \in Ids : Publish(j)
  BY DEF DomainsNext, CreateBegins, Count, VerifyBegins, DeleteBegins, Lookup, Register,
     Verify, Unregister, Update, Crash, Settle, SettleLimits, vars
<1>6. QED BY <1>1, <1>2, <1>3, <1>4, <1>5

(* A row that is verified was, or has just been stored by Verify.          *)
LEMMA VerifiedRows ==
  ASSUME TypeOK, HostnameKnown, [DomainsNext]_vars, NEW i \in Taken', rows'[i].verified
  PROVE  i \in Taken /\ (rows[i].verified \/ \E c \in Calls : Stores(c) /\ call[c].id = i)
<1> DEFINE Goal == i \in Taken /\ (rows[i].verified \/ \E c \in Calls : Stores(c) /\ call[c].id = i)
<1>1. CASE UNCHANGED rows
  BY <1>1 DEF Taken
<1>2. ASSUME NEW c \in Calls, NEW j \in Ids, Inserts(c, j) PROVE Goal
  BY <1>2, InsertedRow DEF Taken
<1>3. ASSUME NEW c \in Calls, Stores(c) PROVE Goal
  BY <1>3 DEF Stores, Taken, TypeOK
<1>4. ASSUME NEW c \in Calls, Removes(c) PROVE Goal
  BY <1>4 DEF Removes, Taken, TypeOK
<1>5. ASSUME NEW j \in Ids, NEW slug \in BOOLEAN, Update(j, slug) PROVE Goal
  <2>1. j \in Taken /\ rows[j] \in Rows
    BY <1>5, RowFields DEF Update
  <2> DEFINE r == [rows[j] EXCEPT !.slug = slug]
  <2>2. r.verified = rows[j].verified
    BY <2>1, SlugRowType
  <2>3. rows' = [rows EXCEPT ![j] = r]
    BY <1>5 DEF Update, TypeOK
  <2> HIDE DEF r
  <2>4. QED BY <2>1, <2>2, <2>3 DEF Taken, TypeOK
<1>6. \/ UNCHANGED rows \/ (\E c \in Calls : Create(c) \/ Verify(c) \/ Delete(c))
      \/ \E j \in Ids : \E slug \in BOOLEAN : Update(j, slug)
  BY DEF DomainsNext, CreateBegins, Count, VerifyBegins, DeleteBegins, Lookup, Register,
     Unregister, Publish, Crash, Settle, SettleLimits, vars
<1>7. QED BY <1>1, <1>2, <1>3, <1>4, <1>5, <1>6, CreateRows, VerifyRows, DeleteRows

LEMMA StepTokensSeen ==
  ASSUME TypeOK, HostnameKnown, TokensSeen, [DomainsNext]_vars
  PROVE  TokensSeen'
<1>1. ASSUME NEW i \in Ids, Proven(i), \A b \in Calls : ~Inserts(b, i) PROVE Proven(i)'
  <2>1. CASE i \in Taken
    BY <1>1, <2>1, TokensStay
  <2>2. CASE i \notin Taken
    BY <1>1, <2>2, RowsKept DEF Proven
  <2>3. QED BY <2>1, <2>2
<1>2. ASSUME NEW c \in Calls, At(c, "register")' \/ At(c, "update")' PROVE Proven(call[c].id)'
  <2>1. Works(c)'
    BY <1>2 DEF At, Works, WorkSteps
  <2>2. CASE BeginsAt(c)
    BY <1>2, <2>2 DEF BeginsAt, At
  <2>3. ASSUME Works(c), call'[c].id = call[c].id, Proven(call[c].id) PROVE Proven(call[c].id)'
    <3>1. call[c].id \in Ids
      BY <2>3, WorksFields
    <3>2. \A b \in Calls : ~Inserts(b, call[c].id)
      BY <2>3, WorksOrInserts DEF Inserts, FreshId
    <3>3. QED BY <1>1, <2>3, <3>1, <3>2
  <2>4. CASE Works(c) /\ call'[c] = call[c]
    BY <1>2, <2>3, <2>4 DEF TokensSeen, At, InFlight
  <2>5. CASE GoesOn(c)
    <3>1. LooksUp(c) \/ \E h \in Hostnames : Registers(c, h)
      BY <1>2, <2>5 DEF GoesOn, Unregisters, At
    <3>2. Proven(call[c].id)
      BY <3>1 DEF LooksUp, Registers, TokensSeen, Proven
    <3>3. Works(c) /\ call'[c].id = call[c].id
      BY <2>5, <3>1 DEF GoesOn, LooksUp, Registers, At, Works, WorkSteps
    <3>4. QED BY <2>3, <3>2, <3>3
  <2>6. QED BY <2>1, <2>2, <2>4, <2>5, CallsKept
<1>3. ASSUME NEW i \in Taken', rows'[i].verified PROVE Proven(i)'
  <2>1. i \in Taken /\ (rows[i].verified \/ \E c \in Calls : Stores(c) /\ call[c].id = i)
    BY <1>3, VerifiedRows
  <2>2. Proven(i)
    BY <2>1 DEF TokensSeen, Stores
  <2>3. QED BY <2>1, <2>2, TokensStay
<1>4. QED BY <1>2, <1>3 DEF TokensSeen

-----------------------------------------------------------------------------
(* A hostname whose id a row or a call knows is its domain's, or gone.     *)
HostnamesOwned ==
  /\ \A i \in Taken : rows[i].cf # None => hosts[rows[i].cf] \in {rows[i].domain, None}
  /\ \A c \in Calls :
       Works(c) /\ call[c].cf # None => hosts[call[c].cf] \in {call[c].domain, None}

(* What a step does to a hostname.                                         *)
LEMMA HostsKept ==
  ASSUME TypeOK, HostnameKnown, [DomainsNext]_vars, NEW h \in Hostnames
  PROVE  hosts'[h] \in {hosts[h], None} \/ (FreshHostname(h) /\ \E c \in Calls : Register(c))
<1>1. ASSUME NEW c \in Calls, Register(c)
      PROVE  hosts'[h] = hosts[h] \/ FreshHostname(h)
  BY <1>1 DEF Register, TypeOK
<1>2. ASSUME NEW c \in Calls, Unregister(c) PROVE hosts'[h] \in {hosts[h], None}
  BY <1>2 DEF Unregister, TypeOK
<1>3. UNCHANGED hosts \/ \E c \in Calls : Register(c) \/ Unregister(c)
  BY DEF DomainsNext, CreateBegins, Count, Create, VerifyBegins, DeleteBegins, Lookup,
     Verify, Delete, Update, Publish, Crash, Settle, SettleLimits, vars
<1>4. QED BY <1>1, <1>2, <1>3

(* The row that Verify stores in and the one that Update changes.          *)
LEMMA StoredRow ==
  ASSUME TypeOK, HostnameKnown, NEW c \in Calls, Stores(c)
  PROVE  /\ call[c].id \in Taken /\ Taken' = Taken /\ call[c].cf \in Hostnames
         /\ \A j \in Taken \ {call[c].id} : rows'[j] = rows[j]
         /\ rows'[call[c].id].user = rows[call[c].id].user
         /\ rows'[call[c].id].domain = rows[call[c].id].domain
         /\ rows'[call[c].id].verified = TRUE /\ rows'[call[c].id].cf = call[c].cf
<1> DEFINE i == call[c].id
           h == call[c].cf
           r == VerifiedRow(rows[i], h)
<1>1. i \in Taken /\ h \in Hostnames
  BY VerifyingFields DEF Stores, Taken, HostnameKnown
<1>2. rows' = [rows EXCEPT ![i] = r] /\ rows[i] \in Rows
  BY <1>1, RowFields DEF Stores
<1> HIDE DEF i, h
<1>3. /\ r # None /\ r.user = rows[i].user /\ r.domain = rows[i].domain
      /\ r.verified = TRUE /\ r.cf = h
  BY <1>1, <1>2, VerifiedRowType, NoneIsNoRecord
<1> HIDE DEF r
<1>4. rows'[i] = r /\ Taken' = Taken /\ \A j \in Taken \ {i} : rows'[j] = rows[j]
  BY <1>1, <1>2, <1>3 DEF TypeOK, Taken
<1>5. QED BY <1>1, <1>3, <1>4 DEF i, h

LEMMA UpdatedRow ==
  ASSUME TypeOK, NEW i \in Ids, NEW slug \in BOOLEAN, Update(i, slug)
  PROVE  /\ Taken' = Taken
         /\ \A j \in Taken : /\ rows'[j].user = rows[j].user /\ rows'[j].domain = rows[j].domain
                             /\ rows'[j].verified = rows[j].verified /\ rows'[j].cf = rows[j].cf
<1>1. i \in Taken /\ rows[i] \in Rows
  BY RowFields DEF Update
<1> DEFINE r == [rows[i] EXCEPT !.slug = slug]
<1>2. /\ r # None /\ r.user = rows[i].user /\ r.domain = rows[i].domain
      /\ r.verified = rows[i].verified /\ r.cf = rows[i].cf
  BY <1>1, SlugRowType, NoneIsNoRecord
<1>3. rows' = [rows EXCEPT ![i] = r]
  BY DEF Update, TypeOK
<1> HIDE DEF r
<1>4. QED BY <1>1, <1>2, <1>3 DEF Taken, TypeOK

(* Which steps change rows at all.                                         *)
LEMMA RowSteps ==
  ASSUME TypeOK, [DomainsNext]_vars
  PROVE  \/ UNCHANGED rows
         \/ \E c \in Calls : Stores(c) \/ Removes(c) \/ \E i \in Ids : Inserts(c, i)
         \/ \E i \in Ids, slug \in BOOLEAN : Update(i, slug)
<1>1. \/ UNCHANGED rows \/ (\E c \in Calls : Create(c) \/ Verify(c) \/ Delete(c))
      \/ \E j \in Ids, slug \in BOOLEAN : Update(j, slug)
  BY DEF DomainsNext, CreateBegins, Count, VerifyBegins, DeleteBegins, Lookup, Register,
     Unregister, Publish, Crash, Settle, SettleLimits, vars
<1>2. QED BY <1>1, CreateRows, VerifyRows, DeleteRows

LEMMA RowHostnames ==
  ASSUME TypeOK, HostnameKnown, [DomainsNext]_vars, NEW i \in Taken', rows'[i].cf # None
  PROVE  /\ i \in Taken
         /\ \/ rows'[i].cf = rows[i].cf
            \/ \E c \in Calls : Stores(c) /\ call[c].id = i /\ rows'[i].cf = call[c].cf
<1>1. CASE UNCHANGED rows
  BY <1>1 DEF Taken
<1>2. CASE \E c \in Calls, j \in Ids : Inserts(c, j)
  BY <1>2, InsertedRow
<1>3. CASE \E c \in Calls : Stores(c)
  BY <1>3, StoredRow
<1>4. CASE \E c \in Calls : Removes(c)
  BY <1>4 DEF Removes, Taken, TypeOK
<1>5. CASE \E j \in Ids, slug \in BOOLEAN : Update(j, slug)
  BY <1>5, UpdatedRow
<1>6. QED BY <1>1, <1>2, <1>3, <1>4, <1>5, RowSteps

LEMMA StepHostnamesOwned ==
  ASSUME TypeOK, HostnameKnown, CallsOwnDomain, HostnamesOwned, [DomainsNext]_vars
  PROVE  HostnamesOwned'
<1>1. ASSUME NEW i \in Taken', rows'[i].cf # None
      PROVE  hosts'[rows'[i].cf] \in {rows'[i].domain, None}
  <2>1. i \in Taken /\ rows'[i].domain = rows[i].domain
    BY <1>1, RowHostnames, RowsKept DEF SameOwner
  <2>2. CASE rows'[i].cf = rows[i].cf
    <3>1. rows[i].cf \in Hostnames /\ hosts[rows[i].cf] \in {rows[i].domain, None}
      BY <1>1, <2>1, <2>2, RowFields DEF HostnamesOwned
    <3>2. ~FreshHostname(rows[i].cf)
      BY <2>1 DEF FreshHostname
    <3>3. QED BY <2>1, <2>2, <3>1, <3>2, HostsKept
  <2>3. ASSUME NEW c \in Calls, Stores(c), call[c].id = i, rows'[i].cf = call[c].cf
        PROVE  hosts'[rows'[i].cf] \in {rows'[i].domain, None}
    <3>1. Works(c) /\ hosts' = hosts
      BY <2>3 DEF Stores, Works, WorkSteps, At
    <3>2. hosts[call[c].cf] \in {call[c].domain, None}
      BY <1>1, <2>3, <3>1 DEF HostnamesOwned
    <3>3. call[c].domain = rows[i].domain
      BY <2>1, <2>3, <3>1 DEF CallsOwnDomain
    <3>4. QED BY <2>1, <2>3, <3>1, <3>2, <3>3
  <2>4. QED BY <1>1, <2>2, <2>3, RowHostnames
<1>2. ASSUME NEW c \in Calls, Works(c)', call'[c].cf # None
      PROVE  hosts'[call'[c].cf] \in {call'[c].domain, None}
  <2>1. CASE Works(c) /\ call'[c] = call[c]
    <3>1. call[c].cf \in Hostnames /\ hosts[call[c].cf] \in {call[c].domain, None}
      BY <1>2, <2>1, WorksFields DEF HostnamesOwned
    <3>2. ~FreshHostname(call[c].cf)
      BY <2>1, WorksOrInserts DEF FreshHostname
    <3>3. QED BY <2>1, <3>1, <3>2, HostsKept
  <2>2. CASE BeginsAt(c)
    BY <1>2, <2>2 DEF BeginsAt, HostnamesOwned
  <2>3. CASE GoesOn(c)
    <3>1. CASE LooksUp(c)
      BY <1>2, <2>3, <3>1 DEF GoesOn, LooksUp, HostnamesOwned, At, Works, WorkSteps
    <3>2. ASSUME NEW h \in Hostnames, Registers(c, h)
          PROVE  hosts'[call'[c].cf] \in {call'[c].domain, None}
      BY <2>3, <3>2 DEF GoesOn, Registers, TypeOK
    <3>3. CASE Unregisters(c)
      <4>1. Works(c) /\ call'[c].cf = call[c].cf /\ call'[c].domain = call[c].domain
        BY <2>3, <3>3 DEF GoesOn, Unregisters, At, Works, WorkSteps
      <4>2. call[c].cf \in Hostnames /\ hosts[call[c].cf] \in {call[c].domain, None}
        BY <1>2, <4>1, WorksFields DEF HostnamesOwned
      <4>3. hosts'[call[c].cf] \in {hosts[call[c].cf], None}
        BY <3>3, <4>2 DEF Unregisters, TypeOK
      <4>4. QED BY <4>1, <4>2, <4>3
    <3>4. QED BY <2>3, <3>1, <3>2, <3>3 DEF GoesOn
  <2>4. QED BY <1>2, <2>1, <2>2, <2>3, CallsKept
<1>3. QED BY <1>1, <1>2 DEF HostnamesOwned

-----------------------------------------------------------------------------
(* The limits.  While the rows are counted by one Create at a time, what   *)
(* it counted still holds when it inserts; and so for each user's list.    *)
CountHolds ==
  /\ IsFiniteSet(Taken)
  /\ ~uncounted =>
       /\ \A b, c \in Inserting : b = c
       /\ Cardinality(Taken) <= MaxDomains
       /\ \A c \in Calls : At(c, "insert") => Cardinality(Taken) < MaxDomains

OneRowEach(u) ==
  /\ \A b, c \in Inserting : call[b].user = u /\ call[c].user = u => b = c
  /\ \A b \in Inserting : call[b].user = u => RowsOf(u) = {}
  /\ \A i, j \in RowsOf(u) : i = j

ListHolds == \A u \in Users \ unlisted : OneRowEach(u)

(* Which calls are in Create after a step.                                 *)
LEMMA InsertingKept ==
  ASSUME TypeOK, [DomainsNext]_vars, NEW b \in Calls, At(b, "count")' \/ At(b, "insert")'
  PROVE  \/ call'[b] = call[b]
         \/ \E u \in Users, d \in Domains : CreateBegins(b, u, d) /\ ~InFlight(b) /\ call'[b].user = u
                                           /\ call'[b].step = "count"
         \/ Count(b) /\ At(b, "count") /\ call'[b].user = call[b].user
<1>1. ASSUME NEW c \in Calls, NEW u \in Users, NEW d \in Domains, CreateBegins(c, u, d)
      PROVE  \/ call'[b] = call[b]
             \/ CreateBegins(b, u, d) /\ ~InFlight(b) /\ call'[b].user = u /\ call'[b].step = "count"
  BY <1>1 DEF CreateBegins, Begin, TypeOK
<1>2. ASSUME NEW c \in Calls, Count(c)
      PROVE  call'[b] = call[b] \/ (Count(b) /\ At(b, "count") /\ call'[b].user = call[b].user)
  <2>1. \/ call' = [call EXCEPT ![c] = None]
        \/ call' = [call EXCEPT ![c] = [call[c] EXCEPT !.step = "insert"]]
    BY <1>2 DEF Count, Proceed, Return
  <2>2. CASE b # c
    BY <2>1, <2>2 DEF TypeOK
  <2>3. CASE b = c
    <3>1. call'[b] = [call[b] EXCEPT !.step = "insert"]
      BY <2>1, <2>3 DEF TypeOK, At, InFlight
    <3>2. At(b, "count")
      BY <1>2, <2>3 DEF Count
    <3>3. call'[b].user = call[b].user
      BY <3>1, <3>2, CreatingFields
    <3>4. QED BY <1>2, <2>3, <3>2, <3>3
  <2>4. QED BY <2>2, <2>3
<1>3. ASSUME NEW c \in Calls, Create(c) \/ Verify(c) \/ Delete(c) PROVE call'[b] = call[b]
  BY <1>3 DEF Create, Verify, Delete, Return, TypeOK, At, InFlight
<1>4. ASSUME NEW c \in Calls, NEW i \in Ids, VerifyBegins(c, i) \/ DeleteBegins(c, i)
      PROVE  call'[b] = call[b]
  <2>1. BeginsAt(c) /\ (b # c => call'[b] = call[b])
    BY <1>4, BeginCalls
  <2>2. b # c
    BY <2>1 DEF BeginsAt, At
  <2>3. QED BY <2>1, <2>2
<1>5. ASSUME NEW c \in Calls, Lookup(c) \/ Register(c) \/ Unregister(c)
      PROVE  call'[b] = call[b]
  <2>1. CASE b # c
    BY <1>5, <2>1 DEF Lookup, Register, Unregister, Proceed, Return, TypeOK
  <2>2. CASE b = c
    <3>1. call'[b] = None \/ call'[b].step \in {"register", "update", "delete"}
      <4>1. CASE Lookup(c)
        <5>1. call[c] \in Verifying
          BY <4>1, VerifyingFields DEF Lookup
        <5>2. [call[c] EXCEPT !.step = "register"].step = "register"
          BY <5>1 DEF Verifying
        <5>3. \/ call' = [call EXCEPT ![c] = None]
              \/ call' = [call EXCEPT ![c] = [call[c] EXCEPT !.step = "register"]]
          BY <4>1 DEF Lookup, Proceed, Return
        <5>4. call'[c] = None \/ call'[c] = [call[c] EXCEPT !.step = "register"]
          BY <5>3 DEF TypeOK
        <5>5. QED BY <2>2, <5>2, <5>4
      <4>2. CASE Register(c)
        <5>1. call[c] \in Verifying
          BY <4>2, VerifyingFields DEF Register
        <5>2. \A h \in Hostnames : [call[c] EXCEPT !.step = "update", !.cf = h].step = "update"
          BY <5>1 DEF Verifying
        <5>3. \/ call' = [call EXCEPT ![c] = None]
              \/ \E h \in Hostnames :
                   call' = [call EXCEPT ![c] = [call[c] EXCEPT !.step = "update", !.cf = h]]
          BY <4>2 DEF Register, Proceed, Return
        <5>4. \/ call'[c] = None
              \/ \E h \in Hostnames : call'[c] = [call[c] EXCEPT !.step = "update", !.cf = h]
          BY <5>3 DEF TypeOK
        <5>5. QED BY <2>2, <5>2, <5>4
      <4>3. CASE Unregister(c)
        BY <4>3, <2>2, DeletingFields DEF Unregister, Proceed, TypeOK
      <4>4. QED BY <1>5, <4>1, <4>2, <4>3
    <3>2. QED BY <2>2, <3>1 DEF At, InFlight
  <2>3. QED BY <2>1, <2>2
<1>6. ASSUME NEW i \in Ids, Publish(i) \/ \E slug \in BOOLEAN : Update(i, slug)
      PROVE  call'[b] = call[b]
  BY <1>6 DEF Publish, Update
<1>7. ASSUME Crash PROVE FALSE
  BY <1>7 DEF Crash, At, InFlight
<1>8. ASSUME SettleLimits \/ (\E d \in Domains : Settle(d)) \/ UNCHANGED vars PROVE call'[b] = call[b]
  BY <1>8 DEF SettleLimits, Settle, vars
<1>9. QED
  BY <1>1, <1>2, <1>3, <1>4, <1>5, <1>6, <1>7, <1>8 DEF DomainsNext

(* When the histories of the limits may be forgotten, or stay clear.       *)
LEMMA LimitsKept ==
  ASSUME [DomainsNext]_vars
  PROVE  SettleLimits \/ (unlisted \subseteq unlisted' /\ (uncounted => uncounted'))
<1>1. CASE SettleLimits
  BY <1>1
<1>2. CASE ~SettleLimits
  BY <1>2 DEF DomainsNext, CreateBegins, Count, Create, VerifyBegins, DeleteBegins, Lookup,
     Register, Verify, Unregister, Delete, Update, Publish, Crash, Settle, vars, limitVars
<1>3. QED BY <1>1, <1>2

(* A Create that has just begun is the only one there, or remembered.      *)
LEMMA InsertingBefore ==
  ASSUME TypeOK, [DomainsNext]_vars, NEW b \in Inserting'
  PROVE  /\ b \in Calls
         /\ \/ b \in Inserting /\ call'[b].user = call[b].user
            \/ \E u \in Users, d \in Domains :
                 CreateBegins(b, u, d) /\ ~InFlight(b) /\ call'[b].user = u /\ call'[b].step = "count"
<1>1. b \in Calls /\ (At(b, "count")' \/ At(b, "insert")')
  BY DEF Inserting
<1>2. CASE call'[b] = call[b]
  BY <1>1, <1>2 DEF Inserting, At, InFlight
<1>3. CASE Count(b) /\ At(b, "count") /\ call'[b].user = call[b].user
  BY <1>1, <1>3 DEF Inserting
<1>4. QED BY <1>1, <1>2, <1>3, InsertingKept

LEMMA BeginsAlone ==
  ASSUME TypeOK, NEW b \in Calls, NEW u \in Users, NEW d \in Domains, CreateBegins(b, u, d),
         NEW c \in Calls, ~InFlight(c), c \in Inserting'
  PROVE  c = b
BY DEF CreateBegins, Begin, Inserting, At, InFlight, TypeOK

(* An insert ends its own call and begins no other.                        *)
LEMMA InsertsEnds ==
  ASSUME TypeOK, [DomainsNext]_vars, NEW c \in Calls, NEW i \in Ids, Inserts(c, i),
         NEW b \in Inserting'
  PROVE  b \in Inserting \ {c} /\ call'[b] = call[b]
<1>1. b \in Calls /\ InFlight(b)'
  BY DEF Inserting, At
<1>2. b # c
  BY <1>1 DEF Inserts, InFlight, TypeOK
<1>3. call'[b] = call[b]
  BY <1>1, <1>2 DEF Inserts, TypeOK
<1>4. QED BY <1>1, <1>2, <1>3 DEF Inserting, At, InFlight

LEMMA StepCountHolds ==
  ASSUME TypeOK, HostnameKnown, CountHolds, [DomainsNext]_vars
  PROVE  CountHolds'
<1>1. CASE Taken' \subseteq Taken
  <2>1. /\ IsFiniteSet(Taken') /\ Cardinality(Taken') <= Cardinality(Taken)
        /\ Cardinality(Taken) \in Nat /\ Cardinality(Taken') \in Nat
    BY <1>1, FS_Subset, FS_CardinalityType DEF CountHolds
  <2>2. SUFFICES ASSUME ~uncounted'
                 PROVE  /\ \A b, c \in Inserting' : b = c
                        /\ Cardinality(Taken') <= MaxDomains
                        /\ \A c \in Calls : At(c, "insert")' => Cardinality(Taken') < MaxDomains
    BY <2>1 DEF CountHolds
  <2>3. CASE SettleLimits
    <3>1. Taken' = {} /\ Inserting' = {}
      BY <2>3 DEF SettleLimits, Taken, Inserting, At, InFlight
    <3>2. Cardinality(Taken') = 0 /\ 0 < MaxDomains /\ MaxDomains \in Nat
      BY <3>1, FS_EmptySet DEF DomainsAssumption
    <3>3. \A c \in Calls : ~At(c, "insert")'
      BY <3>1 DEF Inserting
    <3>4. QED BY <3>1, <3>2, <3>3
  <2>4. CASE ~SettleLimits
    <3>1. /\ ~uncounted /\ \A b, c \in Inserting : b = c
          /\ Cardinality(Taken) <= MaxDomains
          /\ \A c \in Calls : At(c, "insert") => Cardinality(Taken) < MaxDomains
      BY <2>2, <2>4, LimitsKept DEF CountHolds
    <3>2. ASSUME NEW b \in Inserting', NEW c \in Inserting', b \notin Inserting PROVE b = c
      <4>1. PICK u \in Users, d \in Domains : CreateBegins(b, u, d)
        BY <3>2, InsertingBefore
      <4>2. Inserting = {}
        BY <2>2, <4>1 DEF CreateBegins
      <4>3. c \in Calls /\ b \in Calls /\ ~InFlight(c)
        BY <4>2, InsertingBefore
      <4>4. QED BY <4>1, <4>3, BeginsAlone
    <3>3. \A b, c \in Inserting' : b = c
      BY <3>1, <3>2
    <3>4. ASSUME NEW c \in Calls, At(c, "insert")' PROVE Cardinality(Taken) < MaxDomains
      <4>1. CASE call'[c] = call[c]
        BY <3>1, <3>4, <4>1 DEF At, InFlight
      <4>2. CASE Count(c) /\ At(c, "count")
        <5>1. call' # [call EXCEPT ![c] = None]
          BY <3>4 DEF At, InFlight, TypeOK
        <5>2. QED BY <2>2, <4>2, <5>1 DEF Count, Return
      <4>3. QED BY <3>4, <4>1, <4>2, InsertingKept DEF At
    <3>5. Cardinality(Taken') <= MaxDomains
      BY <2>1, <3>1 DEF DomainsAssumption
    <3>6. \A c \in Calls : At(c, "insert")' => Cardinality(Taken') < MaxDomains
      BY <2>1, <3>4 DEF DomainsAssumption
    <3>7. QED BY <3>3, <3>5, <3>6
  <2>5. QED BY <2>3, <2>4
<1>2. ASSUME NEW c \in Calls, NEW i \in Ids, Inserts(c, i), i \notin Taken, Taken' = Taken \cup {i}
      PROVE  CountHolds'
  <2>1. /\ IsFiniteSet(Taken') /\ Cardinality(Taken') = Cardinality(Taken) + 1
        /\ Cardinality(Taken) \in Nat
    BY <1>2, FS_AddElement, FS_CardinalityType DEF CountHolds
  <2>2. SUFFICES ASSUME ~uncounted'
                 PROVE  /\ \A a, b \in Inserting' : a = b
                        /\ Cardinality(Taken') <= MaxDomains
                        /\ \A b \in Calls : At(b, "insert")' => Cardinality(Taken') < MaxDomains
    BY <2>1 DEF CountHolds
  <2>3. ~uncounted /\ At(c, "insert") /\ c \in Inserting
    BY <1>2, <2>2 DEF Inserts, limitVars, Inserting
  <2>4. Cardinality(Taken) < MaxDomains /\ \A b \in Inserting : b = c
    BY <2>3 DEF CountHolds
  <2>5. Inserting' = {}
    BY <1>2, <2>4, InsertsEnds
  <2>6. Cardinality(Taken') <= MaxDomains
    BY <2>1, <2>4 DEF DomainsAssumption
  <2>7. QED BY <2>5, <2>6 DEF Inserting
<1>3. QED BY <1>1, <1>2, RowsKept

LEMMA StepListHolds ==
  ASSUME TypeOK, HostnameKnown, ListHolds, [DomainsNext]_vars
  PROVE  ListHolds'
<1>1. SUFFICES ASSUME NEW u \in Users, u \notin unlisted' PROVE OneRowEach(u)'
  BY DEF ListHolds
<1>2. CASE SettleLimits
  BY <1>2 DEF SettleLimits, OneRowEach, RowsOf, Taken, Inserting, At, InFlight
<1>3. CASE ~SettleLimits
  <2>1. OneRowEach(u)
    BY <1>1, <1>3, LimitsKept DEF ListHolds
  <2>2. CASE Taken' \subseteq Taken
    <3>1. RowsOf(u)' \subseteq RowsOf(u)
      BY <2>2, RowsKept DEF RowsOf, SameOwner
    <3>2. ASSUME NEW b \in Inserting', call'[b].user = u, b \notin Inserting
          PROVE  RowsOf(u) = {} /\ \A c \in Inserting' : call'[c].user = u => c = b
      <4>1. PICK d \in Domains : CreateBegins(b, u, d)
        BY <3>2, InsertingBefore
      <4>2. RowsOf(u) = {} /\ \A c \in Inserting : call[c].user # u
        BY <1>1, <4>1 DEF CreateBegins, ListCustomDomains
      <4>3. ASSUME NEW c \in Inserting', call'[c].user = u PROVE c = b
        <5>1. c \in Calls /\ b \in Calls /\ ~InFlight(c)
          BY <4>2, <4>3, InsertingBefore
        <5>2. QED BY <4>1, <5>1, BeginsAlone
      <4>4. QED BY <4>2, <4>3
    <3>3. ASSUME NEW b \in Inserting', call'[b].user = u
          PROVE  RowsOf(u) = {} /\ \A c \in Inserting' : call'[c].user = u => c = b
      <4>1. CASE b \notin Inserting
        BY <3>2, <3>3, <4>1
      <4>2. CASE b \in Inserting
        <5>1. call[b].user = u
          BY <3>3, <4>2, InsertingBefore DEF Inserting, At
        <5>2. RowsOf(u) = {}
          BY <2>1, <4>2, <5>1 DEF OneRowEach
        <5>3. ASSUME NEW c \in Inserting', call'[c].user = u PROVE c = b
          <6>1. CASE c \notin Inserting
            BY <3>2, <3>3, <5>3, <6>1
          <6>2. CASE c \in Inserting
            <7>1. call[c].user = u
              BY <5>3, <6>2, InsertingBefore DEF Inserting, At
            <7>2. QED BY <2>1, <4>2, <5>1, <6>2, <7>1 DEF OneRowEach
          <6>3. QED BY <6>1, <6>2
        <5>4. QED BY <5>2, <5>3
      <4>3. QED BY <4>1, <4>2
    <3>4. \A i, j \in RowsOf(u)' : i = j
      BY <2>1, <3>1 DEF OneRowEach
    <3>5. QED BY <3>1, <3>3, <3>4 DEF OneRowEach
  <2>3. ASSUME NEW c \in Calls, NEW i \in Ids, Inserts(c, i)
        PROVE  OneRowEach(u)'
    <3>1. c \in Inserting
      BY <2>3 DEF Inserts, Inserting
    <3>2. /\ Taken' = Taken \cup {i} /\ rows'[i].user = call[c].user
          /\ \A j \in Taken : rows'[j] = rows[j]
      BY <2>3, InsertedRow
    <3>3. \A b \in Inserting' : b \in Inserting \ {c} /\ call'[b] = call[b]
      BY <2>3, InsertsEnds
    <3>4. CASE call[c].user = u
      <4>1. RowsOf(u) = {} /\ \A b \in Inserting : call[b].user = u => b = c
        BY <2>1, <3>1, <3>4 DEF OneRowEach
      <4>2. RowsOf(u)' \subseteq {i}
        BY <3>2, <4>1 DEF RowsOf
      <4>3. \A b \in Inserting' : call'[b].user # u
        BY <3>3, <4>1
      <4>4. QED BY <4>2, <4>3 DEF OneRowEach
    <3>5. CASE call[c].user # u
      <4>1. RowsOf(u)' = RowsOf(u)
        BY <3>2, <3>5 DEF RowsOf
      <4>2. QED BY <2>1, <3>3, <4>1 DEF OneRowEach
    <3>6. QED BY <3>4, <3>5
  <2>4. QED BY <2>2, <2>3, RowsKept
<1>4. QED BY <1>2, <1>3

-----------------------------------------------------------------------------
(* The two stores.  What the one call that is busy with a domain may rely  *)
(* on, step by step, and what holds of a domain that nothing is to be done *)
(* about: GetCustomDomainByHost and Cloudflare agree.                      *)
Agree(d) ==
  \A h \in Hostnames :
    hosts[h] = d <=> \E i \in GetCustomDomainByHost(d) : rows[i].cf = h

InHand(c) ==
  LET r == rows[call[c].id] IN
  /\ call[c].id \in Taken
  /\ call[c].step \in {"dns", "register", "update"} => ~r.verified
  /\ call[c].step = "unregister" => r.verified /\ r.cf = call[c].cf
  /\ call[c].step = "update" => \A h \in Hostnames : hosts[h] = call[c].domain <=> h = call[c].cf
  /\ call[c].step = "delete" => \A h \in Hostnames : hosts[h] # call[c].domain

Tidy(d) ==
  /\ \A b, c \in BusyWith(d) : b = c
  /\ \A c \in BusyWith(d) : InHand(c)
  /\ (\A c \in BusyWith(d) : call[c].step \in {"dns", "register", "unregister"}) => Agree(d)

TidyStores == \A d \in Domains \ disturbed : Tidy(d)

(* The calls that are busy with a domain after a step.                     *)
LEMMA BusyAfter ==
  ASSUME TypeOK', NEW d
  PROVE  BusyWith(d)' = {c \in Calls : Works(c)' /\ call'[c].domain = d}
<1>1. \A c \in Calls : (c \notin Inserting /\ InFlight(c))' <=> Works(c)'
  <2>1. SUFFICES ASSUME NEW c \in Calls, InFlight(c)'
                 PROVE  call'[c].step \in {"count", "insert"} <=> call'[c].step \notin WorkSteps
    BY DEF Inserting, At, Works
  <2>2. call'[c] \in Creating \/ call'[c] \in Verifying \/ call'[c] \in Deleting
    BY <2>1 DEF TypeOK, InFlight
  <2>3. QED BY <2>2 DEF Creating, Verifying, Deleting, WorkSteps
<1>2. QED BY <1>1 DEF BusyWith

(* What a step may leave alone of a domain: its row, its hostname, its     *)
(* calls.                                                                  *)
SameRows(d) ==
  /\ RowsFor(d)' = RowsFor(d)
  /\ \A i \in RowsFor(d) : rows'[i].verified = rows[i].verified /\ rows'[i].cf = rows[i].cf

SameHosts(d) == \A h \in Hostnames : hosts'[h] = d <=> hosts[h] = d

SameCalls(d) ==
  BusyWith(d)' = BusyWith(d) /\ \A c \in BusyWith(d) : call'[c] = call[c]

LEMMA AgreeKept ==
  ASSUME NEW d, Agree(d), SameRows(d), SameHosts(d)
  PROVE  Agree(d)'
<1>1. /\ GetCustomDomainByHost(d)' = GetCustomDomainByHost(d)
      /\ \A i \in GetCustomDomainByHost(d) : rows'[i].cf = rows[i].cf
  BY DEF SameRows, GetCustomDomainByHost
<1>2. QED BY <1>1 DEF Agree, SameHosts

(* The row of a call that is busy with a domain.                           *)
LEMMA BusyRow ==
  ASSUME TypeOK, CallsOwnDomain, NEW d \in Domains, NEW c \in BusyWith(d), InHand(c)
  PROVE  c \in Calls /\ Works(c) /\ call[c].domain = d /\ call[c].id \in RowsFor(d)
<1>1. c \in Calls /\ Works(c) /\ call[c].domain = d
  BY WorksOrInserts
<1>2. QED BY <1>1 DEF InHand, CallsOwnDomain, RowsFor

LEMMA TidyKept ==
  ASSUME TypeOK, CallsOwnDomain, NEW d \in Domains, Tidy(d),
         SameRows(d), SameHosts(d), SameCalls(d)
  PROVE  Tidy(d)'
<1>1. \A b, c \in BusyWith(d)' : b = c
  BY DEF Tidy, SameCalls
<1>2. ASSUME NEW c \in BusyWith(d) PROVE InHand(c)'
  <2>1. InHand(c) /\ call'[c] = call[c]
    BY DEF Tidy, SameCalls
  <2>2. call[c].id \in RowsFor(d) /\ call[c].domain = d
    BY <2>1, BusyRow
  <2>3. /\ call[c].id \in Taken'
        /\ rows'[call[c].id].verified = rows[call[c].id].verified
        /\ rows'[call[c].id].cf = rows[call[c].id].cf
    BY <2>2 DEF SameRows, RowsFor
  <2>4. QED BY <2>1, <2>2, <2>3 DEF InHand, SameHosts
<1>3. ASSUME \A c \in BusyWith(d)' : call'[c].step \in {"dns", "register", "unregister"}
      PROVE  Agree(d)'
  <2>1. Agree(d)
    BY <1>3 DEF Tidy, SameCalls
  <2>2. QED BY <2>1, AgreeKept
<1>4. \A c \in BusyWith(d)' : InHand(c)'
  BY <1>2 DEF SameCalls
<1>5. QED BY <1>1, <1>3, <1>4 DEF Tidy

(* A step of a call that is not busy with the domain, before or after.     *)
LEMMA CallsElsewhere ==
  ASSUME TypeOK, TypeOK', NEW c \in Calls, \A b \in Calls \ {c} : call'[b] = call[b],
         NEW d, ~(Works(c) /\ call[c].domain = d), ~(Works(c)' /\ call'[c].domain = d)
  PROVE  SameCalls(d)
<1>1. /\ BusyWith(d) = {b \in Calls : Works(b) /\ call[b].domain = d}
      /\ BusyWith(d)' = {b \in Calls : Works(b)' /\ call'[b].domain = d}
  BY WorksOrInserts, BusyAfter
<1>2. \A b \in Calls \ {c} : Works(b)' <=> Works(b)
  BY DEF Works, InFlight
<1>3. QED BY <1>1, <1>2 DEF SameCalls

(* A call that is busy with a tidy domain is the only one, and has its row *)
(* in hand, the only one of the domain.                                    *)
LEMMA BusyAlone ==
  ASSUME TypeOK, CallsOwnDomain, UniqueDomains, NEW c \in Calls, Works(c), Tidy(call[c].domain)
  PROVE  /\ BusyWith(call[c].domain) = {c} /\ InHand(c)
         /\ call[c].id \in Ids /\ call[c].domain \in Domains
         /\ RowsFor(call[c].domain) = {call[c].id}
<1>1. c \in BusyWith(call[c].domain) /\ call[c].id \in Ids /\ call[c].domain \in Domains
  BY WorksOrInserts, WorksFields
<1>2. BusyWith(call[c].domain) = {c} /\ InHand(c)
  BY <1>1 DEF Tidy
<1>3. call[c].id \in RowsFor(call[c].domain)
  BY <1>1, <1>2, BusyRow
<1>4. RowsFor(call[c].domain) = {call[c].id}
  BY <1>3 DEF UniqueDomains, RowsFor
<1>5. QED BY <1>1, <1>2, <1>4

(* The steps of a call that has a row in hand.                             *)
WorkStep(c) == Lookup(c) \/ Register(c) \/ Verify(c) \/ Unregister(c) \/ Delete(c)

(* Each of them moves its own call alone, which keeps its domain.          *)
LEMMA WorkStepCalls ==
  ASSUME TypeOK, NEW c \in Calls, WorkStep(c)
  PROVE  /\ Works(c) /\ call[c].domain \in Domains /\ call[c].id \in Ids
         /\ \A b \in Calls \ {c} : call'[b] = call[b]
         /\ call'[c] = None \/ (Works(c)' /\ call'[c].domain = call[c].domain)
<1>1. Works(c)
  BY DEF WorkStep, Lookup, Register, Verify, Unregister, Delete, At, Works, WorkSteps
<1>2. \A b \in Calls \ {c} : call'[b] = call[b]
  BY DEF WorkStep, Lookup, Register, Verify, Unregister, Delete, Proceed, Return, TypeOK
<1>3. call'[c] = None \/ Works(c)'
  <2>1. ASSUME NEW r \in Verifying
        PROVE  /\ [r EXCEPT !.step = "register"].step = "register"
               /\ \A h \in Hostnames : [r EXCEPT !.step = "update", !.cf = h].step = "update"
    BY DEF Verifying
  <2>2. CASE Lookup(c)
    <3>1. \/ call' = [call EXCEPT ![c] = None]
          \/ call' = [call EXCEPT ![c] = [call[c] EXCEPT !.step = "register"]]
      BY <2>2 DEF Lookup, Proceed, Return
    <3>2. call'[c] = None \/ call'[c] = [call[c] EXCEPT !.step = "register"]
      BY <3>1 DEF TypeOK
    <3>3. call[c] \in Verifying
      BY <2>2, VerifyingFields DEF Lookup
    <3>4. call'[c] = None \/ call'[c].step = "register"
      BY <2>1, <3>2, <3>3
    <3>5. QED BY <3>4 DEF Works, WorkSteps, InFlight
  <2>3. CASE Register(c)
    <3>1. \/ call' = [call EXCEPT ![c] = None]
          \/ \E h \in Hostnames :
               call' = [call EXCEPT ![c] = [call[c] EXCEPT !.step = "update", !.cf = h]]
      BY <2>3 DEF Register, Proceed, Return
    <3>2. \/ call'[c] = None
          \/ \E h \in Hostnames : call'[c] = [call[c] EXCEPT !.step = "update", !.cf = h]
      BY <3>1 DEF TypeOK
    <3>3. call[c] \in Verifying
      BY <2>3, VerifyingFields DEF Register
    <3>4. \A h \in Hostnames : [call[c] EXCEPT !.step = "update", !.cf = h].step = "update"
      BY <2>1, <3>3
    <3>5. call'[c] = None \/ call'[c].step = "update"
      BY <3>2, <3>4
    <3>6. QED BY <3>5 DEF Works, WorkSteps, InFlight
  <2>4. CASE Unregister(c)
    <3>1. call'[c] = [call[c] EXCEPT !.step = "delete"]
      BY <2>4 DEF Unregister, Proceed, TypeOK
    <3>2. call'[c] \in Deleting /\ call'[c].step = "delete"
      BY <2>4, <3>1, DeletingFields DEF Unregister
    <3>3. QED BY <3>2, NoneIsNoRecord DEF Works, WorkSteps, InFlight
  <2>5. CASE Verify(c) \/ Delete(c)
    BY <2>5 DEF Verify, Delete, Return, TypeOK
  <2>6. QED BY <2>2, <2>3, <2>4, <2>5 DEF WorkStep
<1>4. Works(c)' => call'[c].domain = call[c].domain
  <2>1. ASSUME Lookup(c) \/ Register(c) \/ Unregister(c), Works(c)'
        PROVE  call'[c].domain = call[c].domain
    BY <2>1, LookupCalls, RegisterCalls, UnregisterCalls DEF GoesOn
  <2>2. ASSUME Verify(c) \/ Delete(c) PROVE call'[c] = None
    BY <2>2 DEF Verify, Delete, Return, TypeOK
  <2>3. QED BY <2>1, <2>2 DEF WorkStep, Works, InFlight
<1>5. QED BY <1>1, <1>2, <1>3, <1>4, WorksFields

(* A call that works for another domain leaves this one's row and hostname *)
(* alone: what it has in hand and what it knows is its own domain's.       *)
LEMMA WorkElsewhere ==
  ASSUME TypeOK, TypeOK', HostnameKnown, CallsOwnDomain, HostnamesOwned,
         NEW c \in Calls, WorkStep(c), NEW d \in Domains, call[c].domain # d, Tidy(d)
  PROVE  Tidy(d)'
<1>1. SameCalls(d)
  BY WorkStepCalls, CallsElsewhere DEF Works, InFlight
<1>2. SameHosts(d)
  <2>1. CASE Register(c)
    BY <2>1 DEF Register, FreshHostname, SameHosts, TypeOK, DomainsAssumption
  <2>2. CASE Unregister(c)
    <3>1. call[c].cf \in Hostnames /\ Works(c)
      BY <2>2 DEF HostnameKnown, Unregister, At, Works, WorkSteps
    <3>2. hosts[call[c].cf] # d
      BY <3>1, NoneIsNoRecord DEF HostnamesOwned
    <3>3. hosts' = hosts \/ hosts' = [hosts EXCEPT ![call[c].cf] = None]
      BY <2>2 DEF Unregister
    <3>4. QED BY <3>1, <3>2, <3>3, NoneIsNoRecord DEF SameHosts, TypeOK
  <2>3. QED BY <2>1, <2>2 DEF WorkStep, Lookup, Verify, Delete, SameHosts
<1>3. SameRows(d)
  <2>1. Works(c)
    BY WorkStepCalls
  <2>2. CASE UNCHANGED rows
    BY <2>2 DEF SameRows, RowsFor, Taken
  <2>3. CASE Stores(c)
    <3>1. /\ call[c].id \in Taken /\ Taken' = Taken
          /\ \A j \in Taken \ {call[c].id} : rows'[j] = rows[j]
          /\ rows'[call[c].id].domain = rows[call[c].id].domain
      BY <2>3, StoredRow
    <3>2. rows[call[c].id].domain # d
      BY <2>1, <3>1 DEF CallsOwnDomain
    <3>3. QED BY <3>1, <3>2 DEF SameRows, RowsFor
  <2>4. CASE Removes(c)
    <3>1. call[c].id \notin RowsFor(d)
      BY <2>1 DEF CallsOwnDomain, RowsFor
    <3>2. \A j \in Ids \ {call[c].id} : rows'[j] = rows[j]
      BY <2>4 DEF Removes, TypeOK
    <3>3. call[c].id \notin Taken'
      BY <2>4 DEF Removes, Taken, TypeOK
    <3>4. QED BY <3>1, <3>2, <3>3 DEF SameRows, RowsFor, Taken
  <2>5. QED
    BY <2>2, <2>3, <2>4, VerifyRows, DeleteRows DEF WorkStep, Lookup, Register, Unregister
<1>4. QED BY <1>1, <1>2, <1>3, TidyKept

(* When one call at most is busy with a domain, it may be tidy in one of   *)
(* two ways.                                                               *)
LEMMA OneTidy ==
  ASSUME NEW d, NEW c, BusyWith(d)' \subseteq {c},
         \/ BusyWith(d)' = {} /\ Agree(d)'
         \/ /\ BusyWith(d)' = {c} /\ InHand(c)'
            /\ call'[c].step \in {"dns", "register", "unregister"} => Agree(d)'
  PROVE  Tidy(d)'
<1>1. CASE BusyWith(d)' = {}
  BY <1>1 DEF Tidy
<1>2. CASE BusyWith(d)' = {c}
  BY <1>2 DEF Tidy
<1>3. QED BY <1>1, <1>2

LEMMA OneBusy ==
  ASSUME TypeOK, TypeOK', NEW c \in Calls, \A b \in Calls \ {c} : call'[b] = call[b],
         NEW d, BusyWith(d) \subseteq {c}
  PROVE  /\ BusyWith(d)' \subseteq {c}
         /\ call'[c] = None => BusyWith(d)' = {}
         /\ Works(c)' /\ call'[c].domain = d => BusyWith(d)' = {c}
<1>1. /\ BusyWith(d) = {b \in Calls : Works(b) /\ call[b].domain = d}
      /\ BusyWith(d)' = {b \in Calls : Works(b)' /\ call'[b].domain = d}
  BY WorksOrInserts, BusyAfter
<1>2. \A b \in Calls \ {c} : Works(b)' <=> Works(b)
  BY DEF Works, InFlight
<1>3. call'[c] = None => ~Works(c)'
  BY DEF Works, InFlight
<1>4. QED BY <1>1, <1>2, <1>3

(* The stores are as they were.                                            *)
LEMMA AgreeStays ==
  ASSUME NEW d, Agree(d), UNCHANGED <<rows, hosts>>
  PROVE  Agree(d)'
BY DEF Agree, GetCustomDomainByHost, RowsFor, Taken

(* Verify and Delete begin: with a domain nobody is busy with, or it is    *)
(* disturbed.                                                              *)
LEMMA BeginsTidy ==
  ASSUME TypeOK, TypeOK', UniqueDomains, NEW c \in Calls, NEW i \in Ids,
         VerifyBegins(c, i) \/ DeleteBegins(c, i),
         NEW d \in Domains \ disturbed', Tidy(d)
  PROVE  Tidy(d)'
<1>1. /\ BeginsAt(c) /\ \A b \in Calls \ {c} : call'[b] = call[b]
      /\ i \in Taken /\ UNCHANGED <<rows, hosts>> /\ Overlap(rows[i].domain)
      /\ ~InFlight(c)
  BY BeginCalls DEF VerifyBegins, DeleteBegins, Begin
<1>2. call'[c].id = i /\ call'[c].domain = rows[i].domain
  BY DEF VerifyBegins, DeleteBegins, Begin, TypeOK
<1>3. CASE rows[i].domain # d
  <2>1. SameCalls(d)
    BY <1>1, <1>2, <1>3, CallsElsewhere DEF Works
  <2>2. BusyWith(d)' = BusyWith(d) /\ \A b \in BusyWith(d) : call'[b] = call[b]
    BY <2>1 DEF SameCalls
  <2>3. \A b \in BusyWith(d) : InHand(b)'
    BY <1>1, <2>2 DEF Tidy, InHand, Taken
  <2>4. QED BY <1>1, <2>2, <2>3, AgreeStays DEF Tidy
<1>4. CASE rows[i].domain = d
  <2>1. BusyWith(d) = {}
    BY <1>1, <1>4 DEF Overlap, Disturb
  <2>2. Agree(d) /\ Agree(d)'
    BY <1>1, <2>1, AgreeStays DEF Tidy
  <2>3. BusyWith(d)' = {c}
    <3>1. InFlight(c)'
      <4>1. PICK r \in Verifying \cup Deleting : call' = [call EXCEPT ![c] = r]
        <5>1. CASE VerifyBegins(c, i)
          BY <1>1, <5>1, BeginTypes DEF VerifyBegins, Begin
        <5>2. CASE DeleteBegins(c, i)
          <6>1. PICK step \in {"unregister", "delete"} :
                  Begin(c, [step |-> step, id |-> i, domain |-> rows[i].domain, cf |-> rows[i].cf])
            BY <5>2 DEF DeleteBegins
          <6>2. QED BY <1>1, <6>1, BeginTypes DEF Begin
        <5>3. QED BY <5>1, <5>2
      <4>2. QED BY <4>1, NoneIsNoRecord DEF InFlight, TypeOK
    <3>2. Works(c)'
      BY <1>1, <3>1 DEF BeginsAt, Works, WorkSteps
    <3>3. QED BY <1>1, <1>2, <1>4, <2>1, <3>2, OneBusy
  <2>4. InHand(c)'
    <3>1. i \in Taken' /\ rows'[i] = rows[i] /\ hosts' = hosts
      BY <1>1 DEF Taken
    <3>2. CASE call'[c].step = "dns"
      <4>1. ~rows[i].verified
        BY <1>1, <1>2, <3>2, VerifiedHaveHostname DEF BeginsAt
      <4>2. QED BY <1>2, <3>1, <3>2, <4>1 DEF InHand
    <3>3. CASE /\ call'[c].cf = rows[i].cf
               /\ call'[c].step = IF call'[c].cf = None THEN "delete" ELSE "unregister"
      <4>1. call'[c].cf # None => rows[i].verified
        BY <1>1, <3>3, VerifiedHaveHostname
      <4>2. ASSUME call'[c].cf = None PROVE \A h \in Hostnames : hosts[h] # d
        <5>1. ~rows[i].verified
          BY <1>1, <3>3, <4>2, VerifiedHaveHostname
        <5>2. GetCustomDomainByHost(d) = {}
          BY <1>1, <1>4, <5>1 DEF GetCustomDomainByHost, RowsFor, UniqueDomains
        <5>3. QED BY <2>2, <5>2 DEF Agree
      <4>3. QED BY <1>2, <1>4, <3>1, <3>3, <4>1, <4>2 DEF InHand
    <3>4. QED BY <1>1, <1>2, <3>2, <3>3 DEF BeginsAt
  <2>5. QED BY <2>2, <2>3, <2>4, OneTidy
<1>5. QED BY <1>3, <1>4

(* The steps of the one call that is busy with a domain.                   *)
LEMMA WorkTidy ==
  ASSUME TypeOK, TypeOK', HostnameKnown, CallsOwnDomain, UniqueDomains,
         NEW c \in Calls, WorkStep(c), NEW d \in Domains \ disturbed', call[c].domain = d, Tidy(d)
  PROVE  Tidy(d)'
<1> DEFINE i == call[c].id
<1>1. Works(c) /\ \A b \in Calls \ {c} : call'[b] = call[b]
  BY WorkStepCalls
<1>2. BusyWith(d) = {c} /\ InHand(c) /\ i \in Ids /\ RowsFor(d) = {i} /\ i \in Taken
  BY <1>1, BusyAlone DEF InHand
<1>3. BusyWith(d)' \subseteq {c} /\ BusyWith(d)' = IF call'[c] = None THEN {} ELSE {c}
  BY <1>1, <1>2, OneBusy, WorkStepCalls
<1>4. call[c].step \in {"dns", "register", "unregister"} => Agree(d)
  BY <1>2 DEF Tidy
<1>5. CASE Lookup(c)
  <2>1. /\ UNCHANGED <<rows, hosts>> /\ Agree(d)
        /\ call' = [call EXCEPT ![c] = None] \/ call' = [call EXCEPT ![c] = [call[c] EXCEPT !.step = "register"]]
    BY <1>4, <1>5 DEF Lookup, At, Return, Proceed
  <2>2. CASE call' = [call EXCEPT ![c] = None]
    BY <1>3, <2>1, <2>2, AgreeStays, OneTidy DEF TypeOK
  <2>3. CASE call' = [call EXCEPT ![c] = [call[c] EXCEPT !.step = "register"]]
    <3>1. call'[c] = [call[c] EXCEPT !.step = "register"] /\ call[c] \in Verifying /\ At(c, "dns")
      BY <1>5, <2>3, VerifyingFields DEF TypeOK, Lookup
    <3>2. call'[c].step = "register" /\ call'[c].id = i /\ call'[c] # None
      <4>1. call'[c] \in Verifying /\ call'[c].step = "register" /\ call'[c].id = i
        BY <3>1 DEF Verifying
      <4>2. QED BY <4>1, NoneIsNoRecord
    <3>3. ~rows[i].verified
      BY <1>2, <3>1 DEF InHand, At
    <3>4. InHand(c)'
      BY <1>2, <2>1, <3>2, <3>3 DEF InHand, Taken
    <3>5. QED BY <1>3, <2>1, <3>2, <3>4, AgreeStays, OneTidy
  <2>4. QED BY <2>1, <2>2, <2>3
<1>6. CASE Register(c)
  <2>1. Agree(d) /\ At(c, "register") /\ UNCHANGED rows
    BY <1>4, <1>6 DEF Register, At
  <2>2. CASE Return(c) /\ UNCHANGED hosts
    <3>1. call'[c] = None
      BY <2>2 DEF Return, TypeOK
    <3>2. QED BY <1>3, <2>1, <2>2, <3>1, AgreeStays, OneTidy
  <2>3. ASSUME NEW h \in Hostnames, \A g \in Hostnames : hosts[g] # d,
               hosts' = [hosts EXCEPT ![h] = d],
               call' = [call EXCEPT ![c] = [call[c] EXCEPT !.step = "update", !.cf = h]]
        PROVE  Tidy(d)'
    <3>1. call'[c] = [call[c] EXCEPT !.step = "update", !.cf = h] /\ call[c] \in Verifying
      BY <2>1, <2>3, VerifyingFields DEF TypeOK
    <3>2. /\ call'[c].step = "update" /\ call'[c].id = i /\ call'[c].cf = h
          /\ call'[c].domain = d /\ call'[c] # None
      <4>1. /\ call'[c] \in Verifying /\ call'[c].step = "update" /\ call'[c].id = i
            /\ call'[c].cf = h /\ call'[c].domain = d
        BY <3>1 DEF Verifying
      <4>2. QED BY <4>1, NoneIsNoRecord
    <3>3. ~rows[i].verified
      BY <1>2, <2>1 DEF InHand, At
    <3>4. \A g \in Hostnames : hosts'[g] = d <=> g = h
      BY <2>3 DEF TypeOK
    <3>5. InHand(c)'
      BY <1>2, <2>1, <3>2, <3>3, <3>4 DEF InHand, Taken
    <3>6. QED BY <1>3, <3>2, <3>5, OneTidy
  <2>4. \/ Return(c) /\ UNCHANGED hosts
        \/ \E h \in Hostnames :
             /\ \A g \in Hostnames : hosts[g] # d
             /\ hosts' = [hosts EXCEPT ![h] = d]
             /\ call' = [call EXCEPT ![c] = [call[c] EXCEPT !.step = "update", !.cf = h]]
    BY <1>6 DEF Register, Proceed, Disturb
  <2>5. QED BY <2>2, <2>3, <2>4
<1>7. CASE Verify(c)
  <2>1. Stores(c)
    BY <1>2, <1>7, VerifyRows DEF Taken
  <2>2. /\ Taken' = Taken /\ \A j \in Taken \ {i} : rows'[j] = rows[j]
        /\ rows'[i].domain = rows[i].domain /\ rows'[i].verified = TRUE
        /\ rows'[i].cf = call[c].cf
    BY <2>1, StoredRow
  <2>3. GetCustomDomainByHost(d)' = {i}
    BY <1>2, <2>2 DEF GetCustomDomainByHost, RowsFor
  <2>4. \A h \in Hostnames : hosts'[h] = d <=> h = call[c].cf
    BY <1>2, <2>1 DEF Stores, At, InHand
  <2>5. Agree(d)'
    BY <2>2, <2>3, <2>4 DEF Agree
  <2>6. call'[c] = None
    BY <2>1 DEF Stores, TypeOK
  <2>7. QED BY <1>3, <2>5, <2>6, OneTidy
<1>8. CASE Unregister(c)
  <2>1. /\ hosts' = [hosts EXCEPT ![call[c].cf] = None] /\ UNCHANGED rows
        /\ At(c, "unregister") /\ call[c].cf \in Hostnames
    BY <1>8 DEF Unregister, Disturb, HostnameKnown
  <2>2. /\ call'[c].step = "delete" /\ call'[c].id = i /\ call'[c].domain = d
        /\ call'[c] # None
    <3>1. call'[c] = [call[c] EXCEPT !.step = "delete"]
      BY <1>8 DEF Unregister, Proceed, TypeOK
    <3>2. QED BY <2>1, <3>1, DeletingFields, NoneIsNoRecord
  <2>3. Agree(d) /\ rows[i].cf = call[c].cf
    BY <1>2, <1>4, <2>1 DEF InHand, At
  <2>4. \A h \in Hostnames \ {call[c].cf} : hosts[h] # d
    BY <1>2, <2>3 DEF Agree, GetCustomDomainByHost
  <2>5. \A h \in Hostnames : hosts'[h] # d
    BY <2>1, <2>4, NoneIsNoRecord DEF TypeOK
  <2>6. InHand(c)'
    BY <1>2, <2>1, <2>2, <2>5 DEF InHand, Taken
  <2>7. QED BY <1>3, <2>2, <2>6, OneTidy
<1>9. CASE Delete(c)
  <2>1. Removes(c)
    BY <1>9, DeleteRows
  <2>2. rows'[i] = None /\ \A j \in Ids \ {i} : rows'[j] = rows[j]
    BY <1>2, <2>1 DEF Removes, TypeOK
  <2>3. RowsFor(d)' = {}
    BY <1>2, <2>2 DEF RowsFor, Taken
  <2>4. \A h \in Hostnames : hosts'[h] # d
    BY <1>2, <2>1 DEF Removes, At, InHand
  <2>5. Agree(d)'
    BY <2>3, <2>4 DEF Agree, GetCustomDomainByHost
  <2>6. call'[c] = None
    BY <2>1 DEF Removes, TypeOK
  <2>7. QED BY <1>3, <2>5, <2>6, OneTidy
<1>10. QED BY <1>5, <1>6, <1>7, <1>8, <1>9 DEF WorkStep

(* CreateCustomDomain: where a call is busy there is a row, and no insert. *)
LEMMA InsertsTidy ==
  ASSUME TypeOK, TypeOK', CallsOwnDomain, NEW c \in Calls, NEW i \in Ids, Inserts(c, i),
         NEW d \in Domains, Tidy(d)
  PROVE  Tidy(d)'
<1>1. /\ i \notin Taken /\ Taken' = Taken \cup {i} /\ \A j \in Taken : rows'[j] = rows[j]
      /\ rows'[i].domain = call[c].domain /\ rows'[i].verified = FALSE
  BY InsertedRow
<1>2. /\ hosts' = hosts /\ call'[c] = None /\ \A b \in Calls \ {c} : call'[b] = call[b]
      /\ c \in Inserting
  BY DEF Inserts, TypeOK, Inserting
<1>3. SameCalls(d) /\ SameHosts(d)
  BY <1>2, WorksOrInserts, CallsElsewhere DEF SameHosts, Works, InFlight
<1>4. CASE call[c].domain # d
  <2>1. SameRows(d)
    BY <1>1, <1>4 DEF SameRows, RowsFor
  <2>2. QED BY <1>3, <2>1, TidyKept
<1>5. CASE call[c].domain = d
  <2>1. RowsFor(d) = {}
    BY <1>5 DEF Inserts
  <2>2. BusyWith(d) = {}
    BY <2>1, BusyRow DEF Tidy
  <2>3. \A h \in Hostnames : hosts[h] # d
    BY <2>1, <2>2 DEF Tidy, Agree, GetCustomDomainByHost
  <2>4. GetCustomDomainByHost(d)' = {}
    BY <1>1, <2>1 DEF GetCustomDomainByHost, RowsFor
  <2>5. Agree(d)' /\ BusyWith(d)' = {}
    BY <1>2, <1>3, <2>2, <2>3, <2>4 DEF Agree, SameCalls
  <2>6. QED BY <2>5 DEF Tidy
<1>6. QED BY <1>4, <1>5

(* The steps that concern neither the stores nor a call with a row.        *)
LEMMA IdleTidy ==
  ASSUME TypeOK, CallsOwnDomain, NEW d \in Domains, Tidy(d),
         UNCHANGED <<rows, hosts>>, SameCalls(d)
  PROVE  Tidy(d)'
<1>1. SameRows(d) /\ SameHosts(d)
  BY DEF SameRows, SameHosts, RowsFor, Taken
<1>2. QED BY <1>1, TidyKept

LEMMA StepTidyStores ==
  ASSUME TypeOK, TypeOK', HostnameKnown, UniqueDomains, CallsOwnDomain, HostnamesOwned,
         TidyStores, [DomainsNext]_vars
  PROVE  TidyStores'
<1>1. SUFFICES ASSUME NEW d \in Domains \ disturbed' PROVE Tidy(d)'
  BY DEF TidyStores
<1>a. UNCHANGED call => SameCalls(d)
  BY DEF SameCalls, BusyWith, Inserting, At, InFlight
<1>b. d \notin disturbed => Tidy(d)
  BY DEF TidyStores
<1>2. ASSUME NEW c \in Calls, (\E u \in Users, e \in Domains : CreateBegins(c, u, e)) \/ Count(c)
      PROVE  Tidy(d)'
  <2>1. /\ ~Works(c)' /\ UNCHANGED <<rows, hosts, disturbed>>
        /\ \A b \in Calls \ {c} : call'[b] = call[b]
    BY <1>2, InsertingDoesNotWork DEF CreateBegins, Begin, Count, Proceed, Return, TypeOK
  <2>2. ~Works(c)
    BY <1>2 DEF CreateBegins, Begin, Count, At, Works, WorkSteps
  <2>3. QED BY <1>b, <2>1, <2>2, CallsElsewhere, IdleTidy
<1>3. ASSUME NEW c \in Calls, Create(c) PROVE Tidy(d)'
  <2>1. CASE UNCHANGED <<rows, hosts, disturbed>> /\ call' = [call EXCEPT ![c] = None]
    <3>1. ~Works(c) /\ ~Works(c)' /\ \A b \in Calls \ {c} : call'[b] = call[b]
      BY <1>3, <2>1, InsertingDoesNotWork DEF Create, At, Works, WorkSteps, TypeOK
    <3>2. QED BY <1>b, <2>1, <3>1, CallsElsewhere, IdleTidy
  <2>2. ASSUME NEW i \in Ids, Inserts(c, i) PROVE Tidy(d)'
    <3>1. d \notin disturbed
      BY <2>2 DEF Inserts
    <3>2. QED BY <1>b, <2>2, <3>1, InsertsTidy
  <2>3. QED BY <1>3, <2>1, <2>2, CreateRows
<1>4. ASSUME NEW c \in Calls, NEW i \in Ids, VerifyBegins(c, i) \/ DeleteBegins(c, i) PROVE Tidy(d)'
  <2>1. d \notin disturbed
    BY <1>4 DEF VerifyBegins, DeleteBegins, Overlap, Disturb
  <2>2. QED BY <1>b, <1>4, <2>1, BeginsTidy
<1>5. ASSUME NEW c \in Calls, WorkStep(c) PROVE Tidy(d)'
  <2>1. d \notin disturbed
    BY <1>5 DEF WorkStep, Lookup, Register, Verify, Unregister, Delete, Disturb
  <2>2. CASE call[c].domain # d
    BY <1>b, <1>5, <2>1, <2>2, WorkElsewhere
  <2>3. CASE call[c].domain = d
    BY <1>b, <1>5, <2>1, <2>3, WorkTidy
  <2>4. QED BY <2>2, <2>3
<1>6. ASSUME NEW i \in Ids, Publish(i) PROVE Tidy(d)'
  BY <1>a, <1>b, <1>6, IdleTidy DEF Publish
<1>7. ASSUME NEW i \in Ids, NEW slug \in BOOLEAN, Update(i, slug) PROVE Tidy(d)'
  <2>1. SameRows(d)
    BY <1>7, UpdatedRow DEF SameRows, RowsFor
  <2>2. UNCHANGED <<hosts, call, disturbed>>
    BY <1>7 DEF Update
  <2>3. QED BY <1>a, <1>b, <2>1, <2>2, TidyKept DEF SameHosts
<1>8. CASE Crash
  <2>1. /\ UNCHANGED <<rows, hosts>> /\ d \notin disturbed
        /\ \A c \in BusyWith(d) : call[c].step \notin {"update", "delete"}
    BY <1>8 DEF Crash
  <2>2. \A c \in BusyWith(d) : call[c].step \in WorkSteps
    BY WorksOrInserts DEF Works
  <2>3. Agree(d)
    BY <1>b, <2>1, <2>2 DEF Tidy, WorkSteps
  <2>4. BusyWith(d)' = {}
    BY <1>8 DEF Crash, BusyWith, InFlight
  <2>5. QED BY <2>1, <2>3, <2>4, AgreeStays DEF Tidy
<1>9. ASSUME NEW e \in Domains, Settle(e) PROVE Tidy(d)'
  <2>1. CASE e = d
    <3>1. /\ BusyWith(d)' = {} /\ RowsFor(d)' = {} /\ \A h \in Hostnames : hosts'[h] # d
      BY <1>9, <2>1 DEF Settle, BusyWith, Inserting, At, InFlight, RowsFor, Taken
    <3>2. QED BY <3>1 DEF Tidy, Agree, GetCustomDomainByHost
  <2>2. CASE e # d
    BY <1>a, <1>b, <1>9, <2>2, IdleTidy DEF Settle
  <2>3. QED BY <2>1, <2>2
<1>10. CASE SettleLimits \/ UNCHANGED vars
  BY <1>a, <1>b, <1>10, IdleTidy DEF SettleLimits, vars
<1>11. QED
  BY <1>2, <1>3, <1>4, <1>5, <1>6, <1>7, <1>8, <1>9, <1>10 DEF DomainsNext, WorkStep

-----------------------------------------------------------------------------
(* The invariant, and what follows from it.                                *)
IInv ==
  /\ TypeOK /\ HostnameKnown /\ UniqueDomains /\ CallsOwnDomain
  /\ HostnamesOwned /\ TokensSeen /\ CountHolds /\ ListHolds /\ TidyStores

LEMMA InitIInv == DomainsInit => IInv
<1>1. SUFFICES ASSUME DomainsInit PROVE IInv
  OBVIOUS
<1>2. /\ TypeOK /\ Taken = {} /\ \A c \in Calls : ~InFlight(c)
      /\ \A h \in Hostnames : hosts[h] = None
  BY <1>1, InitType DEF DomainsInit, Taken, InFlight
<1>3. /\ HostnameKnown /\ UniqueDomains /\ CallsOwnDomain /\ HostnamesOwned /\ TokensSeen
      /\ Inserting = {} /\ \A d : BusyWith(d) = {}
  BY <1>2 DEF HostnameKnown, UniqueDomains, CallsOwnDomain, HostnamesOwned, TokensSeen,
     Works, At, Inserting, BusyWith
<1>4. CountHolds
  <2>1. IsFiniteSet(Taken) /\ Cardinality(Taken) = 0
    BY <1>2, FS_EmptySet
  <2>2. QED BY <1>2, <1>3, <2>1 DEF CountHolds, DomainsAssumption, At
<1>5. ListHolds /\ TidyStores
  BY <1>2, <1>3, NoneIsNoRecord DEF ListHolds, OneRowEach, RowsOf, TidyStores, Tidy, Agree,
     GetCustomDomainByHost, RowsFor
<1>6. QED BY <1>2, <1>3, <1>4, <1>5 DEF IInv

LEMMA StepIInv == IInv /\ [DomainsNext]_vars => IInv'
BY StepType, StepHostnameKnown, StepUnique, StepCallsOwnDomain, StepHostnamesOwned,
   StepTokensSeen, StepCountHolds, StepListHolds, StepTidyStores DEF IInv

(* The inductive invariant of api/internal/handlers/custom_domains.go:     *)
(* whatever the calls, their failures and crashes, a call works on its own *)
(* domain's row, and an id of Cloudflare's leads to its own domain.        *)
THEOREM Invariance == DomainsSpec => []IInv
<1>1. QED BY InitIInv, StepIInv, PTL DEF DomainsSpec

(* The types of custom_domains' rows and calls; and a row is verified when *)
(* it has the id of a hostname.                                            *)
THEOREM TypeCorrect == DomainsSpec => []TypeOK
<1>1. IInv => TypeOK
  BY DEF IInv
<1>2. QED BY <1>1, Invariance, PTL

(* Create's limits, one domain for an account and MaxDomains in all, hold  *)
(* unless two Creates ran side by side or a query of Create's failed.      *)
THEOREM TheLimitsHold == DomainsSpec => []LimitsHold
<1>1. ASSUME IInv PROVE LimitsHold
  <2>1. ~uncounted => Cardinality(Taken) <= MaxDomains
    BY <1>1 DEF IInv, CountHolds
  <2>2. ASSUME NEW u \in Users \ unlisted PROVE Cardinality(RowsOf(u)) <= 1
    <3>1. \A i, j \in RowsOf(u) : i = j
      BY <1>1 DEF IInv, ListHolds, OneRowEach
    <3>2. RowsOf(u) = {} \/ \E i : RowsOf(u) = {i}
      BY <3>1
    <3>3. QED BY <3>2, FS_EmptySet, FS_Singleton
  <2>3. QED BY <2>1, <2>2 DEF LimitsHold
<1>2. QED BY <1>1, Invariance, PTL

(* The host lookup finds a row only for a user whose own token has stood   *)
(* in the domain's TXT record: Verify looks it up before it stores.        *)
THEOREM WhatIsServedIsProven == DomainsSpec => []ServedIsProven
<1>1. IInv => ServedIsProven
  BY DEF IInv, TokensSeen, Proven, ServedIsProven, GetCustomDomainByHost, RowsFor
<1>2. QED BY <1>1, Invariance, PTL

(* The table and Cloudflare agree about a domain that no call is busy with *)
(* unless a call failed between the two or two calls overlapped.           *)
THEOREM TheStoresAgree == DomainsSpec => []StoresAgree
<1>1. IInv => StoresAgree
  BY DEF IInv, TidyStores, Tidy, Agree, StoresAgree
<1>2. QED BY <1>1, Invariance, PTL
=============================================================================
