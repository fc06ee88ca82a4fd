----------------------- MODULE PageViewRecorderProofs -----------------------
(***************************************************************************)
(* Proofs about PageViewRecorder for any number of requests and workers    *)
(* and any capacity, checked by TLAPS.                                     *)
(***************************************************************************)
EXTENDS PageViewRecorder, FiniteSetTheorems, TLAPS

USE RecorderAssumption

(* An accepted view is in the channel, with a worker, or attempted, and a  *)
(* worker ends only when the channel is closed and empty.                  *)
Held(v) == v \in channel \/ \E w \in Workers : work[w] = v

DrainInv ==
  /\ work \in [Workers -> Views \cup {None, Ended}]
  /\ channel \subseteq Views /\ accepted \subseteq Views
  /\ \A v \in accepted \ attempted : Held(v)
  /\ \A w \in Workers : work[w] = Ended => ~open /\ channel = {}
  /\ server \in {"draining", "drained"} => ~open
  /\ server = "drained" => accepted \subseteq attempted

LEMMA InitDrainInv == Init => DrainInv
BY DEF Init, DrainInv, Held

LEMMA RequestDrainInv ==
  ASSUME DrainInv, NEW v \in Views, Arrive(v) \/ NotFound(v) \/ Record(v)
  PROVE  DrainInv'
<1>1. CASE Arrive(v) \/ NotFound(v)
  BY <1>1 DEF DrainInv, Held, Arrive, NotFound
<1>2. CASE Record(v)
  <2>1. \/ UNCHANGED <<channel, accepted>>
        \/ open /\ channel' = channel \cup {v} /\ accepted' = accepted \cup {v}
    BY <1>2 DEF Record
  <2>2. UNCHANGED <<open, work, server, attempted>>
    BY <1>2 DEF Record
  <2>3. QED BY <2>1, <2>2 DEF DrainInv, Held
<1>3. QED BY <1>1, <1>2

LEMMA WorkerDrainInv ==
  ASSUME DrainInv, NEW w \in Workers, Take(w) \/ Insert(w) \/ End(w)
  PROVE  DrainInv'
<1> USE DEF DrainInv
<1>1. CASE Take(w)
  <2>1. PICK v \in channel : /\ work' = [work EXCEPT ![w] = v]
                            /\ channel' = channel \ {v}
    BY <1>1 DEF Take
  <2>2. work[w] = None /\ UNCHANGED <<open, server, accepted, attempted>>
    BY <1>1 DEF Take
  <2>3. \A u \in accepted \ attempted : Held(u)'
    <3>1. TAKE u \in accepted \ attempted
    <3>2. CASE u = v
      BY <2>1, <3>2 DEF Held
    <3>3. CASE u # v
      <4>1. CASE u \in channel
        BY <2>1, <3>3, <4>1 DEF Held
      <4>2. CASE u \notin channel
        <5>1. PICK x \in Workers : work[x] = u
          BY <4>2 DEF Held
        <5>2. x # w
          BY <2>2, <5>1
        <5>3. QED BY <2>1, <5>1, <5>2 DEF Held
      <4>3. QED BY <4>1, <4>2
    <3>4. QED BY <3>2, <3>3
  <2>4. QED BY <2>1, <2>2, <2>3
<1>2. CASE Insert(w)
  <2>1. /\ work[w] \in Views
        /\ attempted' = attempted \cup {work[w]}
        /\ work' = [work EXCEPT ![w] = None]
        /\ UNCHANGED <<channel, open, server, accepted>>
    BY <1>2 DEF Insert
  <2>2. \A u \in accepted' \ attempted' : Held(u)'
    BY <2>1 DEF Held
  <2>3. QED BY <2>1, <2>2
<1>3. CASE End(w)
  <2>1. /\ work[w] = None /\ ~open /\ channel = {}
        /\ work' = [work EXCEPT ![w] = Ended]
        /\ UNCHANGED <<channel, open, server, accepted, attempted>>
    BY <1>3 DEF End
  <2>2. \A u \in accepted' \ attempted' : Held(u)'
    BY <2>1 DEF Held
  <2>3. QED BY <2>1, <2>2
<1>4. QED BY <1>1, <1>2, <1>3

LEMMA ShutdownDrainInv ==
  ASSUME DrainInv, Signal \/ CloseChannel \/ Drained \/ MainReturns \/ UNCHANGED vars
  PROVE  DrainInv'
<1> USE DEF DrainInv, Held
<1>1. CASE Drained
  <2>1. channel = {} /\ \A w \in Workers : work[w] = Ended
    BY <1>1 DEF Drained
  <2>2. accepted \subseteq attempted
    BY <2>1
  <2>3. QED BY <1>1, <2>2 DEF Drained
<1>2. CASE Signal \/ CloseChannel
  BY <1>2 DEF Signal, CloseChannel
<1>3. CASE MainReturns \/ UNCHANGED vars
  BY <1>3 DEF MainReturns, vars
<1>4. QED BY <1>1, <1>2, <1>3

(* When Recorder.Shutdown returns, every view that was accepted has been   *)
(* tried, for any load, any number of workers and any failing inserts.     *)
THEOREM DrainIsComplete == Spec => []ShutdownDrains
<1>1. DrainInv /\ [Next]_vars => DrainInv'
  BY RequestDrainInv, WorkerDrainInv, ShutdownDrainInv DEF Next, Exited
<1>2. DrainInv => ShutdownDrains
  BY DEF DrainInv, ShutdownDrains
<1>3. QED
  BY <1>1, <1>2, InitDrainInv, PTL DEF Spec

-----------------------------------------------------------------------------
(* The type invariant, with what it takes to count the channel and to know *)
(* whose views the workers insert: only what was accepted travels on.      *)
TypeInv ==
  /\ TypeOK
  /\ IsFiniteSet(channel) /\ channel \subseteq accepted
  /\ \A w \in Workers : work[w] \in Views => work[w] \in accepted

LEMMA InitTypeInv == Init => TypeInv
<1> SUFFICES ASSUME Init PROVE TypeInv
  OBVIOUS
<1>1. IsFiniteSet(channel) /\ Cardinality(channel) <= Cap
  BY FS_EmptySet DEF Init, RecorderAssumption
<1>2. \A w \in Workers : work[w] \in Views => work[w] \in accepted
  BY DEF Init, RecorderAssumption
<1>3. QED BY <1>1, <1>2 DEF Init, TypeInv, TypeOK

LEMMA RequestTypeInv ==
  ASSUME TypeInv, NEW v \in Views, Arrive(v) \/ NotFound(v) \/ Record(v)
  PROVE  TypeInv'
<1>1. CASE Arrive(v) \/ NotFound(v)
  BY <1>1 DEF TypeInv, TypeOK, Arrive, NotFound
<1>2. CASE Record(v)
  <2>1. CASE open /\ Cardinality(channel) < Cap
    <3>1. channel' = channel \cup {v} /\ accepted' = accepted \cup {v}
      BY <1>2, <2>1 DEF Record
    <3>2. IsFiniteSet(channel)
      BY DEF TypeInv
    <3>3. Cardinality(channel) \in Nat
      BY <3>2, FS_CardinalityType
    <3>4. /\ IsFiniteSet(channel \cup {v})
          /\ \/ Cardinality(channel \cup {v}) = Cardinality(channel)
             \/ Cardinality(channel \cup {v}) = Cardinality(channel) + 1
      BY <3>2, FS_AddElement
    <3>5. Cardinality(channel') <= Cap
      BY <2>1, <3>1, <3>3, <3>4 DEF RecorderAssumption
    <3>6. QED BY <1>2, <3>1, <3>4, <3>5 DEF TypeInv, TypeOK, Record
  <2>2. CASE ~(open /\ Cardinality(channel) < Cap)
    BY <1>2, <2>2 DEF TypeInv, TypeOK, Record
  <2>3. QED BY <2>1, <2>2
<1>3. QED BY <1>1, <1>2

LEMMA WorkerTypeInv ==
  ASSUME TypeInv, NEW w \in Workers, Take(w) \/ Insert(w) \/ End(w)
  PROVE  TypeInv'
<1>1. CASE Take(w)
  <2>1. PICK v \in channel : /\ work' = [work EXCEPT ![w] = v]
                            /\ channel' = channel \ {v}
    BY <1>1 DEF Take
  <2>2. IsFiniteSet(channel) /\ Cardinality(channel) <= Cap
    BY DEF TypeInv, TypeOK
  <2>3. Cardinality(channel) \in Nat
    BY <2>2, FS_CardinalityType
  <2>4. IsFiniteSet(channel \ {v}) /\ Cardinality(channel \ {v}) = Cardinality(channel) - 1
    BY <2>2, FS_RemoveElement
  <2>5. Cardinality(channel') <= Cap
    BY <2>1, <2>2, <2>3, <2>4 DEF RecorderAssumption
  <2>6. \A u \in Workers : work'[u] \in Views => work'[u] \in accepted
    BY <2>1 DEF TypeInv, TypeOK
  <2>7. work' \in [Workers -> Views \cup {None, Ended}]
    BY <2>1 DEF TypeInv, TypeOK
  <2>8. QED BY <1>1, <2>1, <2>4, <2>5, <2>6, <2>7 DEF TypeInv, TypeOK, Take
<1>2. CASE Insert(w)
  BY <1>2 DEF TypeInv, TypeOK, Insert, RecorderAssumption
<1>3. CASE End(w)
  BY <1>3 DEF TypeInv, TypeOK, End, RecorderAssumption
<1>4. QED BY <1>1, <1>2, <1>3

LEMMA ShutdownTypeInv ==
  ASSUME TypeInv, Signal \/ CloseChannel \/ Drained \/ MainReturns \/ UNCHANGED vars
  PROVE  TypeInv'
<1> USE DEF TypeInv, TypeOK
<1>1. CASE Signal
  BY <1>1 DEF Signal
<1>2. CASE CloseChannel
  BY <1>2 DEF CloseChannel
<1>3. CASE Drained
  BY <1>3 DEF Drained
<1>4. CASE MainReturns
  BY <1>4 DEF MainReturns
<1>5. CASE UNCHANGED vars
  BY <1>5 DEF vars
<1>6. QED BY <1>1, <1>2, <1>3, <1>4, <1>5

(* The channel never holds more than its capacity, and no view is written  *)
(* that was not accepted, for any capacity and any load.                   *)
THEOREM TypeCorrect == Spec => []TypeOK
<1>1. TypeInv /\ [Next]_vars => TypeInv'
  BY RequestTypeInv, WorkerTypeInv, ShutdownTypeInv DEF Next, Exited
<1>2. TypeInv => TypeOK
  BY DEF TypeInv
<1>3. QED
  BY <1>1, <1>2, InitTypeInv, PTL DEF Spec
=============================================================================
