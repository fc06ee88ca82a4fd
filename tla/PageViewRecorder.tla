-------------------------- MODULE PageViewRecorder --------------------------
(***************************************************************************)
(* Page views of the API server and its shutdown: the public page endpoint *)
(* records a view into a buffered channel that a pool of workers writes to *)
(* the database (api/internal/analytics/recorder.go); a signal shuts the   *)
(* HTTP server down and drains the channel (api/cmd/server/main.go).       *)
(* Nothing depends on the order of the views, so the channel is a set.     *)
(***************************************************************************)
EXTENDS Naturals, FiniteSets

CONSTANTS
  Views,    \* requests of public pages, each with one view
  Workers,  \* 4: the goroutines of Recorder.worker
  Cap,      \* 256: capacity of the channel
  None,     \* the worker waits for a view
  Ended     \* the worker has returned

ASSUME RecorderAssumption ==
  /\ Cap \in Nat
  /\ Workers # {}
  /\ None \notin Views /\ Ended \notin Views /\ None # Ended

VARIABLES
  request,   \* where the HTTP handler of a view is
  channel,   \* the views in Recorder.ch
  open,      \* is Recorder.ch open
  work,      \* the view a worker is inserting
  server,    \* how far the shutdown goroutine is
  exited,    \* main has returned, and the process with it
  accepted,  \* history: views that got into the channel
  attempted  \* history: views whose insert was tried (a failure is logged)

vars == <<request, channel, open, work, server, exited, accepted, attempted>>

Init ==
  /\ request = [v \in Views |-> "none"]
  /\ channel = {} /\ open = TRUE
  /\ work = [w \in Workers |-> None]
  /\ server = "serving" /\ exited = FALSE
  /\ accepted = {} /\ attempted = {}

-----------------------------------------------------------------------------
(* The HTTP handlers.                                                      *)

Arrive(v) ==
  /\ ~exited /\ server = "serving"
  /\ request[v] = "none"
  /\ request' = [request EXCEPT ![v] = "active"]
  /\ UNCHANGED <<channel, open, work, server, exited, accepted, attempted>>

(* Answered 404: the page has no view.                                     *)
NotFound(v) ==
  /\ ~exited /\ request[v] = "active"
  /\ request' = [request EXCEPT ![v] = "over"]
  /\ UNCHANGED <<channel, open, work, server, exited, accepted, attempted>>

(* Mutant: the channel has no bound.                                       *)
RecordUnbounded(v) ==
  /\ ~exited /\ request[v] = "active"
  /\ request' = [request EXCEPT ![v] = "over"]
  /\ IF open
       THEN channel' = channel \cup {v} /\ accepted' = accepted \cup {v}
       ELSE UNCHANGED <<channel, accepted>>
  /\ UNCHANGED <<open, work, server, exited, attempted>>

(* Record after the answer was written.  A full channel drops the view; on *)
(* a closed one the send panics, which the Recoverer catches.              *)
Record(v) ==
  /\ ~exited /\ request[v] = "active"
  /\ request' = [request EXCEPT ![v] = "over"]
  /\ IF open /\ Cardinality(channel) < Cap
       THEN channel' = channel \cup {v} /\ accepted' = accepted \cup {v}
       ELSE UNCHANGED <<channel, accepted>>
  /\ UNCHANGED <<open, work, server, exited, attempted>>

-----------------------------------------------------------------------------
(* The workers.                                                            *)

Take(w) ==
  /\ ~exited /\ work[w] = None
  /\ \E v \in channel :
       /\ work' = [work EXCEPT ![w] = v]
       /\ channel' = channel \ {v}
  /\ UNCHANGED <<request, open, server, exited, accepted, attempted>>

(* InsertPageView succeeds, fails or takes 5s; the worker goes on.         *)
Insert(w) ==
  /\ ~exited /\ work[w] \in Views
  /\ attempted' = attempted \cup {work[w]}
  /\ work' = [work EXCEPT ![w] = None]
  /\ UNCHANGED <<request, channel, open, server, exited, accepted>>

(* Mutant: a worker ends when the channel is closed, not when it is empty. *)
EndEarly(w) ==
  /\ ~exited /\ work[w] = None
  /\ ~open
  /\ work' = [work EXCEPT ![w] = Ended]
  /\ UNCHANGED <<request, channel, open, server, exited, accepted, attempted>>

(* range ends on a channel that is closed and empty.                       *)
End(w) ==
  /\ ~exited /\ work[w] = None
  /\ ~open /\ channel = {}
  /\ work' = [work EXCEPT ![w] = Ended]
  /\ UNCHANGED <<request, channel, open, server, exited, accepted, attempted>>

-----------------------------------------------------------------------------
(* The shutdown goroutine and main.                                        *)

(* SIGINT or SIGTERM: srv.Shutdown closes the listeners and waits for the  *)
(* active handlers, 10s at most.                                           *)
Signal ==
  /\ ~exited /\ server = "serving"
  /\ server' = "closing"
  /\ UNCHANGED <<request, channel, open, work, exited, accepted, attempted>>

(* Shutdown returned, and Recorder.Shutdown closes the channel.  Handlers  *)
(* that outlast the 10s are still active.                                  *)
CloseChannel ==
  /\ ~exited /\ server = "closing"
  /\ server' = "draining"
  /\ open' = FALSE
  /\ UNCHANGED <<request, channel, work, exited, accepted, attempted>>

(* Mutant: nobody waits for the workers.                                   *)
DrainedAtOnce ==
  /\ ~exited /\ server = "draining"
  /\ server' = "drained"
  /\ UNCHANGED <<request, channel, open, work, exited, accepted, attempted>>

(* wg.Wait returns.                                                        *)
Drained ==
  /\ ~exited /\ server = "draining"
  /\ \A w \in Workers : work[w] = Ended
  /\ server' = "drained"
  /\ UNCHANGED <<request, channel, open, work, exited, accepted, attempted>>

(* ListenAndServe returns as soon as srv.Shutdown is called; main does not *)
(* wait for the goroutine that called it.                                  *)
MainReturns ==
  /\ ~exited /\ server # "serving"
  /\ exited' = TRUE
  /\ UNCHANGED <<request, channel, open, work, server, accepted, attempted>>

Exited == exited /\ UNCHANGED vars

Next ==
  \/ \E v \in Views : Arrive(v) \/ NotFound(v) \/ Record(v)
  \/ \E w \in Workers : Take(w) \/ Insert(w) \/ End(w)
  \/ Signal \/ CloseChannel \/ Drained
  \/ MainReturns \/ Exited

Spec == Init /\ [][Next]_vars

(* The workers run, and the shutdown goroutine goes on once it started.    *)
Fairness ==
  /\ \A w \in Workers : WF_vars(Take(w)) /\ WF_vars(Insert(w)) /\ WF_vars(End(w))
  /\ WF_vars(CloseChannel) /\ WF_vars(Drained)

FairSpec == Spec /\ Fairness

-----------------------------------------------------------------------------
TypeOK ==
  /\ request \in [Views -> {"none", "active", "over"}]
  /\ channel \subseteq Views /\ Cardinality(channel) <= Cap
  /\ open \in BOOLEAN
  /\ work \in [Workers -> Views \cup {None, Ended}]
  /\ server \in {"serving", "closing", "draining", "drained"}
  /\ exited \in BOOLEAN
  /\ accepted \subseteq Views /\ attempted \subseteq accepted

(* "Shutdown closes the channel and waits for workers to drain": when it   *)
(* returns, no view that was accepted is in the channel or with a worker,  *)
(* whatever was recorded, failed or panicked while it waited.              *)
ShutdownDrains == server = "drained" => accepted \subseteq attempted

(* While the process lives no view is forgotten: not when inserts fail,    *)
(* not when the channel was full, not across the close.                    *)
EveryViewIsAttempted ==
  \A v \in Views : v \in accepted ~> v \in attempted \/ exited
=============================================================================
