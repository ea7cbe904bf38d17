------------------------------- MODULE WebProofs -------------------------------
(***************************************************************************)
(* Proofs about the two concurrent parts of the web server: the            *)
(* single-flight coordinator (Compilation.tla), for any callers, keys and  *)
(* limit of flights, and the live feed (LiveFeed.tla), for any clients,    *)
(* files and limits of the queues, of the clock and of the registry.       *)
(*                                                                         *)
(* The coordinator.  Forks fail, waiters detach, and a shutdown comes at   *)
(* any moment and may itself be interrupted.  The inductive invariant says *)
(* who a registered flight is (Registered), what a caller and its flight   *)
(* have at each stage (CallerOK, FlightOK), that only a shutdown cancels   *)
(* (CancelOK), and which flights the shutdown has still to wait for        *)
(* (DrainOK).  The limit is a bound on the registered flights; each        *)
(* producer alive is one of them.                                          *)
(*                                                                         *)
(* The feed.  Outsiders change the repository without the lock and hints   *)
(* come at any moment.  The inductive invariant says that the envelopes    *)
(* told add up to those published (EventsInv), what the owner of the lock  *)
(* has read and that the last stamp is no newer (LockOK), whose the        *)
(* subscribers are (SessionOK), and what a scan that no hint has           *)
(* superseded was started with (ScanOK).                                   *)
(***************************************************************************)
EXTENDS Compilation, LiveFeed, FiniteSetTheorems, TLAPS

(***************************************************************************)
(* The coordinator.                                                        *)
(***************************************************************************)
\* The types, without the limit.
Typed ==
  /\ stopped \in BOOLEAN
  /\ flights \in [Key -> Caller \cup {None}]
  /\ result \in [Caller -> Ended \cup {"empty"}]
  /\ worker \in [Caller -> {"empty", "thread", "failed"}]
  /\ producer \in [Caller -> {"none", "runs", "ended", "gone"}]
  /\ produced \in [Caller -> Ended \cup {"empty"}]
  /\ doomed \subseteq Caller
  /\ pc \in [Caller -> {"idle", "fork", "record", "wait", "done"}]
  /\ key \in [Caller -> Key \cup {None}]
  /\ joined \in [Caller -> Caller \cup {None}]
  /\ answer \in [Caller -> Ended \cup {"none", "stopping", "full", "detached"}]
  /\ stopper \in {"idle", "collect", "cancel", "done", "abandoned"}
  /\ draining \subseteq Caller

\* No more flights are registered than the limit allows.
Limited == IsFiniteSet(Flying) /\ Cardinality(Flying) <= MaximumFlights

\* What a caller has at its stage; whoever is elected has a fresh flight.
CallerOK(c) ==
  /\ pc[c] = "idle" => /\ producer[c] = "none" /\ key[c] = None
                       /\ worker[c] = "empty" /\ result[c] = "empty"
  /\ pc[c] \in {"fork", "record", "wait"} => key[c] \in Key /\ joined[c] \in Caller
  /\ pc[c] = "fork" => /\ producer[c] = "none" /\ worker[c] = "empty" /\ result[c] = "empty"
                       /\ flights[key[c]] = c
  /\ pc[c] = "record" => producer[c] # "none"

\* A producer at work has not published and is the registered flight of its key.
FlightOK(f) ==
  /\ Alive(f) => key[f] \in Key /\ flights[key[f]] = f /\ result[f] = "empty"
  /\ worker[f] = "failed" => producer[f] = "none"
  /\ producer[f] = "ended" => produced[f] # "empty"

\* A registered flight is of its key, and its producer is at work or about to start.
Registered ==
  \A k \in Key : flights[k] # None =>
    key[flights[k]] = k /\ (pc[flights[k]] = "fork" \/ Alive(flights[k]))

\* A cancellation has the shutdown behind it.
CancelOK ==
  /\ stopped <=> stopper # "idle"
  /\ doomed # {} => stopped
  /\ \A c \in Caller : "cancelled" \in {produced[c], result[c], answer[c]} => stopped

\* What the shutdown has still to wait for.
DrainOK ==
  /\ stopper = "collect" => \A f \in Caller : (Alive(f) \/ pc[f] = "fork") => f \in draining
  /\ stopper \in {"cancel", "done"} =>
       \A f \in Caller : pc[f] # "fork" /\ (Alive(f) => f \in draining)
  /\ stopper = "done" => draining = {}

Flights == Registered /\ \A c \in Caller : CallerOK(c) /\ FlightOK(c)
IInv == Typed /\ Limited /\ Flights /\ CancelOK /\ DrainOK

\* A step of a caller, of its producer, or of the shutdown.
StepOf(c) ==
  \/ /\ c \in Caller
     /\ \/ Ask(c) \/ CallerStep(c) \/ Detach(c) \/ ProducerStep(c)
        \/ CancelWorker(c) \/ AwaitWorker(c)
  \/ Stop \/ CollectWorkers \/ StopEnds \/ StopInterrupted

\* Every step keeps the types.
LEMMA TypedStep ==
  ASSUME CompilationConstants, Typed, Flights, NEW c, StepOf(c)
  PROVE  Typed'
<1> USE DEF Typed, Answer, flightVars, callerVars, stopVars, At, Goto
<1>1. CASE c \in Caller /\ Ask(c)
  BY <1>1 DEF Ask, Elect
<1>2. CASE c \in Caller /\ Fork(c)
  BY <1>2 DEF Fork
<1>3. CASE c \in Caller /\ Record(c)
  BY <1>3 DEF Record
<1>4. CASE c \in Caller /\ ForkFails(c)
  BY <1>4 DEF ForkFails, Ended
<1>5. CASE c \in Caller /\ ReadResult(c)
  BY <1>5 DEF ReadResult, Flights, CallerOK, Ended
<1>6. CASE c \in Caller /\ Detach(c)
  BY <1>6 DEF Detach
<1>7. CASE c \in Caller /\ Produce(c)
  BY <1>7 DEF Produce, Ended
<1>8. CASE c \in Caller /\ Publish(c)
  BY <1>8 DEF Publish
<1>9. CASE Stop
  BY <1>9 DEF Stop, Flying
<1>10. CASE CollectWorkers
  BY <1>10 DEF CollectWorkers
<1>11. CASE StopEnds
  BY <1>11 DEF StopEnds
<1>12. CASE StopInterrupted
  BY <1>12 DEF StopInterrupted
<1>13. CASE c \in Caller /\ CancelWorker(c)
  BY <1>13 DEF CancelWorker
<1>14. CASE c \in Caller /\ AwaitWorker(c)
  BY <1>14 DEF AwaitWorker
<1> QED
  BY <1>1, <1>2, <1>3, <1>4, <1>5, <1>6, <1>7, <1>8,
     <1>9, <1>10, <1>11, <1>12, <1>13, <1>14 DEF StepOf, CallerStep, ProducerStep

\* What a caller has stays right, whoever moves.
LEMMA CallerStays ==
  ASSUME CompilationConstants, Typed, Flights, NEW c, StepOf(c)
  PROVE  \A d \in Caller : CallerOK(d)'
<1> SUFFICES ASSUME NEW d \in Caller PROVE CallerOK(d)'
  OBVIOUS
<1> USE DEF Typed, Flights, CallerOK, FlightOK, Alive, Registered, Answer, CompilationConstants,
   flightVars, callerVars, stopVars, At, Goto
<1>1. CASE c \in Caller /\ Ask(c)
  <2>1. PICK k \in Key : pc[c] = "idle" /\ key' = [key EXCEPT ![c] = k] /\ Elect(c, k)
    BY <1>1 DEF Ask
  <2>2. UNCHANGED <<producer, worker, result>>
    BY <1>1 DEF Ask
  <2>3. CASE UNCHANGED <<flights, joined>> /\ pc' = [pc EXCEPT ![c] = "done"]
    BY <2>1, <2>2, <2>3
  <2>4. CASE flights[k] # None /\ joined' = [joined EXCEPT ![c] = flights[k]] /\ pc' = [pc EXCEPT ![c] = "wait"]
             /\ UNCHANGED flights
    BY <2>1, <2>2, <2>4
  <2>5. CASE flights[k] = None /\ flights' = [flights EXCEPT ![k] = c] /\ joined' = [joined EXCEPT ![c] = c]
             /\ pc' = [pc EXCEPT ![c] = "fork"]
    <3>1. CASE d = c
      BY <2>1, <2>2, <2>5, <3>1
    <3>2. CASE d # c
      <4>1. UNCHANGED <<pc[d], key[d], joined[d]>>
        BY <2>1, <2>5, <3>2
      <4>2. pc[d] = "fork" => flights'[key[d]] = flights[key[d]]
        BY <2>5
      <4> QED
        BY <4>1, <4>2, <2>2
    <3> QED
      BY <3>1, <3>2
  <2> QED
    BY <2>1, <2>3, <2>4, <2>5 DEF Elect
<1>2. CASE c \in Caller /\ Fork(c)
  BY <1>2 DEF Fork
<1>3. CASE c \in Caller /\ Record(c)
  BY <1>3 DEF Record
<1>4. CASE c \in Caller /\ ForkFails(c)
  BY <1>4 DEF ForkFails
<1>5. CASE c \in Caller /\ ReadResult(c)
  BY <1>5 DEF ReadResult
<1>6. CASE c \in Caller /\ Detach(c)
  BY <1>6 DEF Detach
<1>7. CASE c \in Caller /\ Produce(c)
  BY <1>7 DEF Produce
<1>8. CASE c \in Caller /\ Publish(c)
  BY <1>8 DEF Publish
<1>9. CASE Stop
  BY <1>9 DEF Stop
<1>10. CASE CollectWorkers
  BY <1>10 DEF CollectWorkers
<1>11. CASE StopEnds
  BY <1>11 DEF StopEnds
<1>12. CASE StopInterrupted
  BY <1>12 DEF StopInterrupted
<1>13. CASE c \in Caller /\ CancelWorker(c)
  BY <1>13 DEF CancelWorker
<1>14. CASE c \in Caller /\ AwaitWorker(c)
  BY <1>14 DEF AwaitWorker
<1> QED
  BY <1>1, <1>2, <1>3, <1>4, <1>5, <1>6, <1>7, <1>8,
     <1>9, <1>10, <1>11, <1>12, <1>13, <1>14 DEF StepOf, CallerStep, ProducerStep

\* So does what its flight has.
LEMMA FlightStays ==
  ASSUME CompilationConstants, Typed, Flights, NEW c, StepOf(c)
  PROVE  \A f \in Caller : FlightOK(f)'
<1> SUFFICES ASSUME NEW f \in Caller PROVE FlightOK(f)'
  OBVIOUS
<1> USE DEF Typed, Flights, CallerOK, FlightOK, Alive, Registered, Answer, CompilationConstants,
   flightVars, callerVars, stopVars, At, Goto
<1>1. CASE c \in Caller /\ Ask(c)
  BY <1>1 DEF Ask, Elect
<1>2. CASE c \in Caller /\ Fork(c)
  BY <1>2 DEF Fork
<1>3. CASE c \in Caller /\ Record(c)
  BY <1>3 DEF Record
<1>4. CASE c \in Caller /\ ForkFails(c)
  BY <1>4 DEF ForkFails
<1>5. CASE c \in Caller /\ ReadResult(c)
  BY <1>5 DEF ReadResult
<1>6. CASE c \in Caller /\ Detach(c)
  BY <1>6 DEF Detach
<1>7. CASE c \in Caller /\ Produce(c)
  BY <1>7 DEF Produce
<1>8. CASE c \in Caller /\ Publish(c)
  BY <1>8 DEF Publish
<1>9. CASE Stop
  BY <1>9 DEF Stop
<1>10. CASE CollectWorkers
  BY <1>10 DEF CollectWorkers
<1>11. CASE StopEnds
  BY <1>11 DEF StopEnds
<1>12. CASE StopInterrupted
  BY <1>12 DEF StopInterrupted
<1>13. CASE c \in Caller /\ CancelWorker(c)
  BY <1>13 DEF CancelWorker
<1>14. CASE c \in Caller /\ AwaitWorker(c)
  BY <1>14 DEF AwaitWorker
<1> QED
  BY <1>1, <1>2, <1>3, <1>4, <1>5, <1>6, <1>7, <1>8,
     <1>9, <1>10, <1>11, <1>12, <1>13, <1>14 DEF StepOf, CallerStep, ProducerStep

\* The register names flights of its keys that have not ended.
LEMMA RegisteredStays ==
  ASSUME CompilationConstants, Typed, Flights, NEW c, StepOf(c)
  PROVE  Registered'
<1> SUFFICES ASSUME NEW k \in Key, flights'[k] # None
             PROVE  key'[flights'[k]] = k /\ (pc[flights[k]] = "fork" \/ Alive(flights[k]))'
  BY DEF Registered
<1> USE DEF Typed, Flights, CallerOK, FlightOK, Alive, Registered, Answer, CompilationConstants,
   flightVars, callerVars, stopVars, At, Goto
<1>1. CASE c \in Caller /\ Ask(c)
  BY <1>1 DEF Ask, Elect
<1>2. CASE c \in Caller /\ Fork(c)
  BY <1>2 DEF Fork
<1>3. CASE c \in Caller /\ Record(c)
  BY <1>3 DEF Record
<1>4. CASE c \in Caller /\ ForkFails(c)
  BY <1>4 DEF ForkFails
<1>5. CASE c \in Caller /\ ReadResult(c)
  BY <1>5 DEF ReadResult
<1>6. CASE c \in Caller /\ Detach(c)
  BY <1>6 DEF Detach
<1>7. CASE c \in Caller /\ Produce(c)
  BY <1>7 DEF Produce
<1>8. CASE c \in Caller /\ Publish(c)
  BY <1>8 DEF Publish
<1>9. CASE Stop
  BY <1>9 DEF Stop
<1>10. CASE CollectWorkers
  BY <1>10 DEF CollectWorkers
<1>11. CASE StopEnds
  BY <1>11 DEF StopEnds
<1>12. CASE StopInterrupted
  BY <1>12 DEF StopInterrupted
<1>13. CASE c \in Caller /\ CancelWorker(c)
  BY <1>13 DEF CancelWorker
<1>14. CASE c \in Caller /\ AwaitWorker(c)
  BY <1>14 DEF AwaitWorker
<1> QED
  BY <1>1, <1>2, <1>3, <1>4, <1>5, <1>6, <1>7, <1>8,
     <1>9, <1>10, <1>11, <1>12, <1>13, <1>14 DEF StepOf, CallerStep, ProducerStep

\* Only the shutdown sends a cancellation, and it travels through the result.
LEMMA CancelStays ==
  ASSUME CompilationConstants, Typed, Flights, CancelOK, NEW c, StepOf(c)
  PROVE  CancelOK'
<1> USE DEF Typed, CancelOK, Answer, flightVars, callerVars, stopVars, At, Goto
<1>1. CASE c \in Caller /\ Ask(c)
  BY <1>1 DEF Ask, Elect
<1>2. CASE c \in Caller /\ Fork(c)
  BY <1>2 DEF Fork
<1>3. CASE c \in Caller /\ Record(c)
  BY <1>3 DEF Record
<1>4. CASE c \in Caller /\ ForkFails(c)
  BY <1>4 DEF ForkFails
<1>5. CASE c \in Caller /\ ReadResult(c)
  BY <1>5 DEF ReadResult, Flights, CallerOK
<1>6. CASE c \in Caller /\ Detach(c)
  BY <1>6 DEF Detach
<1>7. CASE c \in Caller /\ Produce(c)
  BY <1>7 DEF Produce
<1>8. CASE c \in Caller /\ Publish(c)
  BY <1>8 DEF Publish
<1>9. CASE Stop
  BY <1>9 DEF Stop
<1>10. CASE CollectWorkers
  BY <1>10 DEF CollectWorkers
<1>11. CASE StopEnds
  BY <1>11 DEF StopEnds
<1>12. CASE StopInterrupted
  BY <1>12 DEF StopInterrupted
<1>13. CASE c \in Caller /\ CancelWorker(c)
  BY <1>13 DEF CancelWorker
<1>14. CASE c \in Caller /\ AwaitWorker(c)
  BY <1>14 DEF AwaitWorker
<1> QED
  BY <1>1, <1>2, <1>3, <1>4, <1>5, <1>6, <1>7, <1>8,
     <1>9, <1>10, <1>11, <1>12, <1>13, <1>14 DEF StepOf, CallerStep, ProducerStep

\* The shutdown has every flight that was elected before it, and no other starts.
LEMMA DrainStays ==
  ASSUME CompilationConstants, Typed, Flights, CancelOK, DrainOK, NEW c, StepOf(c)
  PROVE  DrainOK'
<1> USE DEF Typed, Flights, CallerOK, FlightOK, Alive, CancelOK, DrainOK, Answer, flightVars,
   callerVars, stopVars, At, Goto
<1>1. CASE c \in Caller /\ Ask(c)
  BY <1>1 DEF Ask, Elect
<1>2. CASE c \in Caller /\ Fork(c)
  BY <1>2 DEF Fork
<1>3. CASE c \in Caller /\ Record(c)
  BY <1>3 DEF Record
<1>4. CASE c \in Caller /\ ForkFails(c)
  BY <1>4 DEF ForkFails
<1>5. CASE c \in Caller /\ ReadResult(c)
  BY <1>5 DEF ReadResult
<1>6. CASE c \in Caller /\ Detach(c)
  BY <1>6 DEF Detach
<1>7. CASE c \in Caller /\ Produce(c)
  BY <1>7 DEF Produce
<1>8. CASE c \in Caller /\ Publish(c)
  BY <1>8 DEF Publish
<1>9. CASE Stop
  BY <1>9 DEF Stop, Flying, CompilationConstants
<1>10. CASE CollectWorkers
  BY <1>10 DEF CollectWorkers
<1>11. CASE StopEnds
  BY <1>11 DEF StopEnds
<1>12. CASE StopInterrupted
  BY <1>12 DEF StopInterrupted
<1>13. CASE c \in Caller /\ CancelWorker(c)
  BY <1>13 DEF CancelWorker
<1>14. CASE c \in Caller /\ AwaitWorker(c)
  BY <1>14 DEF AwaitWorker
<1> QED
  BY <1>1, <1>2, <1>3, <1>4, <1>5, <1>6, <1>7, <1>8,
     <1>9, <1>10, <1>11, <1>12, <1>13, <1>14 DEF StepOf, CallerStep, ProducerStep

\* An election registers one flight more, only below the limit; nothing else does.
LEMMA LimitStays ==
  ASSUME CompilationConstants, Typed, Limited, NEW c, StepOf(c)
  PROVE  Limited'
<1>1. CASE Flying' \subseteq Flying
  <2>1. IsFiniteSet(Flying') /\ Cardinality(Flying') <= Cardinality(Flying)
    BY <1>1, FS_Subset DEF Limited
  <2>2. Cardinality(Flying) \in Nat /\ Cardinality(Flying') \in Nat
    BY <2>1, FS_CardinalityType DEF Limited
  <2> QED
    BY <2>1, <2>2 DEF Limited, CompilationConstants
<1>2. ASSUME NEW k \in Key, ~Full, flights' = [flights EXCEPT ![k] = c]
      PROVE  Limited'
  <2>1. Flying' \subseteq Flying \cup {k}
    BY <1>2 DEF Typed, Flying
  <2>2. /\ IsFiniteSet(Flying \cup {k})
        /\ Cardinality(Flying \cup {k}) = IF k \in Flying THEN Cardinality(Flying) ELSE Cardinality(Flying) + 1
    BY FS_AddElement DEF Limited
  <2>3. IsFiniteSet(Flying') /\ Cardinality(Flying') <= Cardinality(Flying \cup {k})
    BY <2>1, <2>2, FS_Subset
  <2>4. Cardinality(Flying) \in Nat /\ Cardinality(Flying') \in Nat
    BY <2>3, FS_CardinalityType DEF Limited
  <2> QED
    BY <1>2, <2>2, <2>3, <2>4 DEF Limited, Full, CompilationConstants
<1>3. \/ flights' = flights
      \/ \E k \in Key \cup {None} : flights' = [flights EXCEPT ![k] = None]
      \/ \E k \in Key : flights' = [flights EXCEPT ![k] = c] /\ ~Full
  BY DEF Typed, StepOf, CallerStep, ProducerStep, Ask, Elect, Fork, Record, ForkFails,
     ReadResult,
         Detach, Produce, Publish, Stop, CollectWorkers, StopEnds, StopInterrupted,
         CancelWorker,
         AwaitWorker
<1>4. ASSUME flights' = flights \/ \E k \in Key \cup {None} : flights' = [flights EXCEPT ![k] = None]
      PROVE  Flying' \subseteq Flying
  BY <1>4 DEF Typed, Flying
<1> QED
  BY <1>1, <1>2, <1>3, <1>4

\* At the start nobody has asked.
LEMMA InvInit ==
  ASSUME CompilationConstants, Init
  PROVE  IInv
<1>1. Typed /\ CancelOK /\ DrainOK
  BY DEF Init, Typed, Ended, CancelOK, DrainOK
<1>2. Flights
  BY DEF CompilationConstants, Init, Flights, Registered, CallerOK, FlightOK, Alive
<1>3. Limited
  <2>1. Flying = {}
    BY DEF Init, Flying
  <2> QED
    BY <2>1, FS_EmptySet DEF Limited, CompilationConstants
<1> QED
  BY <1>1, <1>2, <1>3 DEF IInv

\* Every step of a caller, a producer or the shutdown keeps the invariant.
LEMMA InvNext ==
  ASSUME CompilationConstants, IInv, [Next]_vars
  PROVE  IInv'
<1>1. CASE UNCHANGED vars
  <2>1. Typed' /\ CancelOK' /\ DrainOK'
    BY <1>1 DEF IInv, Typed, CancelOK, DrainOK, Alive, vars, flightVars, callerVars, stopVars
  <2>2. Flights'
    BY <1>1 DEF IInv, Flights, Registered, CallerOK, FlightOK, Alive, vars, flightVars,
       callerVars
  <2>3. Limited'
    BY <1>1 DEF IInv, Limited, Flying, vars
  <2> QED
    BY <2>1, <2>2, <2>3 DEF IInv
<1>2. ASSUME NEW c, StepOf(c) PROVE IInv'
  BY <1>2, TypedStep, CallerStays, FlightStays, RegisteredStays, CancelStays, DrainStays,
     LimitStays
     DEF IInv, Flights
<1>3. Next => \E c : StepOf(c)
  BY DEF Next, StopperStep, StepOf
<1> QED
  BY <1>1, <1>2, <1>3

\* The invariant holds in every reachable state, whatever the constants.
THEOREM Invariance ==
  ASSUME CompilationConstants
  PROVE  Spec => []IInv
<1>1. Init => IInv
  BY InvInit
<1>2. IInv /\ [Next]_vars => IInv'
  BY InvNext
<1> QED
  BY <1>1, <1>2, PTL DEF Spec

\* The producers alive are registered flights of different keys.
LEMMA ProducersLimited ==
  ASSUME CompilationConstants, IInv
  PROVE  Cardinality({f \in Caller : Alive(f)}) <= MaximumFlights
<1> DEFINE Lively == {f \in Caller : Alive(f)}
           Held == [f \in Lively |-> key[f]]
<1>1. \A f \in Lively : key[f] \in Flying /\ flights[key[f]] = f
  BY DEF IInv, Flights, FlightOK, Flying, CompilationConstants
<1>2. Held \in [Lively -> Flying] /\ IsInjective(Held)
  BY <1>1 DEF IsInjective
<1>3. Held \in Injection(Lively, Flying)
  BY <1>2 DEF Injection
<1>4. IsFiniteSet(Flying) /\ Cardinality(Flying) <= MaximumFlights
  BY DEF IInv, Limited
<1>5. Cardinality(Lively) <= Cardinality(Flying) /\ IsFiniteSet(Lively)
  BY <1>3, <1>4, FS_Injection
<1>6. Cardinality(Lively) \in Nat /\ Cardinality(Flying) \in Nat
  BY <1>4, <1>5, FS_CardinalityType
<1>7. Cardinality(Lively) <= MaximumFlights
  <2> HIDE DEF Lively
  <2> QED
    BY <1>4, <1>5, <1>6 DEF CompilationConstants
<1> QED
  BY <1>7

\* Single flight: no key has two producers at work, a joined flight is one of the
\* caller's key that has not ended, and no more producers run than the limit allows.
THEOREM OneFlight ==
  ASSUME CompilationConstants
  PROVE  Spec => []SingleFlight
<1>1. IInv => SingleFlight
  <2> SUFFICES ASSUME IInv PROVE SingleFlight
    OBVIOUS
  <2>1. \A f \in Caller : Alive(f) => flights[key[f]] = f
    BY DEF IInv, Flights, FlightOK
  <2>2. \A k \in Flying : key[flights[k]] = k /\ result[flights[k]] = "empty"
    BY DEF IInv, Typed, Flights, Registered, FlightOK, CallerOK, Flying
  <2>3. TypeOK
    BY DEF IInv, Typed, Limited, TypeOK
  <2> QED
    BY <2>1, <2>2, <2>3, ProducersLimited DEF SingleFlight
<1> QED
  BY <1>1, Invariance, PTL

\* Nobody is told of a cancellation before the server stops, and when the shutdown
\* is over no producer is left and none will start.
THEOREM ShutdownDrains ==
  ASSUME CompilationConstants
  PROVE  Spec => []StopDrains
<1>1. IInv => StopDrains
  BY DEF IInv, Typed, CancelOK, DrainOK, StopDrains, At
<1> QED
  BY <1>1, Invariance, PTL

(***************************************************************************)
(* The event coordinator of the feed.                                      *)
(***************************************************************************)
\* What is told of the envelopes adds up; the slots taken are finitely many.
Counted ==
  /\ published <= generation
  /\ subscribers # {} => published < generation
  /\ IsFiniteSet(subscribers)

\* One transaction of the event coordinator, or none.
EventStep ==
  \/ UNCHANGED eventVars \/ SeeTerminal \/ Allocate \/ PublishInvalidation
  \/ \E c \in Client :
       \/ c \notin subscribers /\ Register(c)
       \/ c \in subscribers /\ ReadEvent(c)
       \/ Unregister(c)

EventsInv == EventsTypeOK /\ NoSilentGap /\ Counted

\* Appending an envelope that is newer than all others keeps a queue in order.
LEMMA AppendNewer ==
  ASSUME NEW M \in Nat, NEW g \in Nat, g < M, NEW q \in Seq(1..M),
         \A i, j \in DOMAIN q : (i < j => q[i] < q[j]) /\ q[i] <= g
  PROVE  /\ Append(q, g + 1) \in Seq(1..M) /\ Len(Append(q, g + 1)) = Len(q) + 1
         /\ \A i, j \in DOMAIN Append(q, g + 1) :
              /\ i < j => Append(q, g + 1)[i] < Append(q, g + 1)[j]
              /\ Append(q, g + 1)[i] <= g + 1
<1> DEFINE r == Append(q, g + 1)
<1>1. r \in Seq(1..M) /\ Len(r) = Len(q) + 1
  OBVIOUS
<1>2. \A i \in 1..Len(q) : r[i] = q[i]
  OBVIOUS
<1>3. r[Len(q) + 1] = g + 1
  OBVIOUS
<1>4. DOMAIN q = 1..Len(q) /\ DOMAIN r = 1..Len(q) + 1 /\ Len(q) \in Nat
  BY <1>1
<1>5. \A i \in 1..Len(q) : q[i] \in Nat
  BY <1>4
<1> HIDE DEF r
<1>6. ASSUME NEW i \in DOMAIN r, NEW j \in DOMAIN r
      PROVE  (i < j => r[i] < r[j]) /\ r[i] <= g + 1
  <2>1. i \in 1..Len(q) \/ i = Len(q) + 1
    BY <1>4
  <2>2. j \in 1..Len(q) \/ j = Len(q) + 1
    BY <1>4
  <2> QED
    BY <2>1, <2>2, <1>2, <1>3, <1>4, <1>5
<1> QED
  BY <1>1, <1>6 DEF r

\* What is left of a queue whose head was read is in order, too.
LEMMA TailInOrder ==
  ASSUME NEW M \in Nat, NEW g \in Nat, NEW q \in Seq(1..M), q # <<>>,
         \A i, j \in DOMAIN q : (i < j => q[i] < q[j]) /\ q[i] <= g
  PROVE  /\ Tail(q) \in Seq(1..M) /\ Len(Tail(q)) = Len(q) - 1 /\ Len(q) >= 1
         /\ \A i, j \in DOMAIN Tail(q) :
              (i < j => Tail(q)[i] < Tail(q)[j]) /\ Tail(q)[i] <= g
<1> DEFINE r == Tail(q)
<1>1. Len(q) \in Nat /\ Len(q) >= 1
  OBVIOUS
<1>2. r \in Seq(1..M) /\ Len(r) = Len(q) - 1
  BY <1>1
<1>3. \A i \in 1..Len(q) - 1 : r[i] = q[i + 1]
  BY <1>1
<1>4. DOMAIN q = 1..Len(q) /\ DOMAIN r = 1..Len(q) - 1
  BY <1>1, <1>2
<1> HIDE DEF r
<1>5. ASSUME NEW i \in DOMAIN r, NEW j \in DOMAIN r
      PROVE  (i < j => r[i] < r[j]) /\ r[i] <= g
  <2>1. i + 1 \in DOMAIN q /\ j + 1 \in DOMAIN q
    BY <1>1, <1>4
  <2>2. i \in Nat /\ j \in Nat /\ (i < j => i + 1 < j + 1)
    BY <1>1, <1>4
  <2>3. r[i] = q[i + 1] /\ r[j] = q[j + 1]
    BY <1>3, <1>4
  <2> QED
    BY <2>1, <2>2, <2>3
<1> QED
  BY <1>1, <1>2, <1>5 DEF r

\* A transaction keeps the types of the coordinator; what was published is counted.
LEMMA EventsKept ==
  ASSUME EventsConstants, EventsInv, EventStep
  PROVE  EventsInv'
<1> USE DEF EventsConstants, EventsInv, EventsTypeOK, NoSilentGap, Counted, Exhausted
<1>1. CASE UNCHANGED eventVars
  BY <1>1 DEF eventVars
<1>2. CASE SeeTerminal
  BY <1>2 DEF SeeTerminal
<1>3. CASE Allocate
  BY <1>3 DEF Allocate
<1>4. CASE PublishInvalidation
  <2>1. generation < MaxGeneration /\ generation \in Nat /\ MaxGeneration \in Nat
    BY <1>4 DEF PublishInvalidation
  <2>2. /\ generation' = generation + 1 /\ published' = published + 1
        /\ UNCHANGED <<terminal, subscribers, told>>
    BY <1>4 DEF PublishInvalidation
  <2>3. ASSUME NEW c \in Client
        PROVE  /\ queue'[c] \in Seq(1..MaxGeneration) /\ Len(queue'[c]) <= QueueLimit
               /\ \A i, j \in DOMAIN queue'[c] :
                    (i < j => queue'[c][i] < queue'[c][j]) /\ queue'[c][i] <= generation'
               /\ overflow'[c] \in BOOLEAN
               /\ (c \in subscribers /\ ~overflow'[c]) =>
                     ~overflow[c] /\ Len(queue'[c]) = Len(queue[c]) + 1
    <3> DEFINE q == queue[c]
    <3>1. /\ q \in Seq(1..MaxGeneration) /\ Len(q) <= QueueLimit /\ Len(q) \in Nat
          /\ \A i, j \in DOMAIN q : (i < j => q[i] < q[j]) /\ q[i] <= generation
          /\ \A i \in DOMAIN q : q[i] \in Nat
      OBVIOUS
    <3>2. /\ queue'[c] = IF c \in subscribers /\ ~overflow[c] /\ Len(q) < QueueLimit
                           THEN Append(q, generation + 1) ELSE q
          /\ overflow'[c] <=> (overflow[c] \/ (c \in subscribers /\ Len(q) = QueueLimit))
          /\ overflow'[c] \in BOOLEAN
      BY <1>4 DEF PublishInvalidation, Enqueue
    <3> HIDE DEF q
    <3>3. /\ Append(q, generation + 1) \in Seq(1..MaxGeneration)
          /\ Len(Append(q, generation + 1)) = Len(q) + 1
          /\ \A i, j \in DOMAIN Append(q, generation + 1) :
               /\ i < j => Append(q, generation + 1)[i] < Append(q, generation + 1)[j]
               /\ Append(q, generation + 1)[i] <= generation + 1
      BY <2>1, <3>1, AppendNewer
    <3>4. CASE c \in subscribers /\ ~overflow[c] /\ Len(q) < QueueLimit
      <4>1. queue'[c] = Append(q, generation + 1) /\ ~overflow'[c]
        BY <3>1, <3>2, <3>4
      <4>2. queue'[c] \in Seq(1..MaxGeneration) /\ Len(queue'[c]) = Len(q) + 1
        BY <3>3, <4>1
      <4>3. Len(queue'[c]) <= QueueLimit
        BY <3>1, <3>4, <4>2
      <4>4. \A i, j \in DOMAIN queue'[c] :
              (i < j => queue'[c][i] < queue'[c][j]) /\ queue'[c][i] <= generation'
        BY <2>2, <3>3, <4>1
      <4> QED
        BY <3>2, <3>4, <4>2, <4>3, <4>4 DEF q
    <3>5. CASE ~(c \in subscribers /\ ~overflow[c] /\ Len(q) < QueueLimit)
      <4>1. queue'[c] = q
        BY <3>2, <3>5
      <4>2. c \in subscribers => overflow'[c]
        BY <3>1, <3>2, <3>5
      <4> QED
        BY <2>1, <2>2, <3>1, <3>2, <4>1, <4>2 DEF q
    <3> QED
      BY <3>4, <3>5
  <2>4. queue' \in [Client -> Seq(1..MaxGeneration)] /\ overflow' \in [Client -> BOOLEAN]
    <3>1. /\ queue' = [c \in Client |-> queue'[c]]
          /\ overflow' = [c \in Client |-> overflow'[c]]
      BY <1>4 DEF PublishInvalidation, Enqueue
    <3> QED
      BY <2>3, <3>1
  <2>5. NoSilentGap'
    BY <2>2, <2>3
  <2> QED
    BY <2>1, <2>2, <2>3, <2>4, <2>5
<1>5. CASE \E c \in Client : c \notin subscribers /\ Register(c)
  <2> PICK c \in Client : c \notin subscribers /\ Register(c)
    BY <1>5
  <2>1. generation < MaxGeneration /\ generation \in Nat /\ MaxGeneration \in Nat
    BY DEF Register
  <2>2. /\ IsFiniteSet(subscribers')
        /\ Cardinality(subscribers') = Cardinality(subscribers) + 1
        /\ Cardinality(subscribers) \in Nat
    BY FS_AddElement, FS_CardinalityType DEF Register
  <2>3. Cardinality(subscribers) < SubscriberLimit
    BY <2>2 DEF Register, AtLimit
  <2>4. <<generation + 1>> \in Seq(1..MaxGeneration) /\ Len(<<generation + 1>>) = 1
    BY <2>1
  <2>5. queue' \in [Client -> Seq(1..MaxGeneration)]
    BY <2>4 DEF Register
  <2>6. ASSUME NEW d \in Client
        PROVE  /\ Len(queue'[d]) <= QueueLimit
               /\ \A i, j \in DOMAIN queue'[d] :
                    (i < j => queue'[d][i] < queue'[d][j]) /\ queue'[d][i] <= generation'
               /\ (d \in subscribers' /\ ~overflow'[d]) =>
                     told'[d] + Len(queue'[d]) = published' + 1
    <3>1. CASE d = c
      <4>1. queue'[d] = <<generation + 1>> /\ generation' = generation + 1
        BY <3>1 DEF Register
      <4>2. \A i \in DOMAIN queue'[d] : i = 1 /\ queue'[d][i] = generation + 1
        BY <4>1
      <4> QED
        BY <2>1, <2>4, <3>1, <4>1, <4>2 DEF Register
    <3>2. CASE d # c
      <4>1. /\ queue'[d] = queue[d] /\ generation' = generation + 1
            /\ told'[d] = told[d] /\ overflow'[d] = overflow[d]
            /\ published' = published /\ (d \in subscribers' <=> d \in subscribers)
        BY <3>2 DEF Register
      <4>2. \A i \in DOMAIN queue[d] : queue[d][i] \in Nat
        OBVIOUS
      <4> QED
        BY <2>1, <4>1, <4>2
    <3> QED
      BY <3>1, <3>2
  <2>7. /\ generation' \in 0..MaxGeneration /\ terminal' \in BOOLEAN
        /\ subscribers' \subseteq Client /\ Cardinality(subscribers') <= SubscriberLimit
        /\ overflow' \in [Client -> BOOLEAN] /\ published' \in 0..MaxGeneration
        /\ told' \in [Client -> 0..MaxGeneration]
    BY <2>1, <2>2, <2>3 DEF Register
  <2>8. Counted'
    BY <2>1, <2>2 DEF Register
  <2>9. EventsTypeOK'
    BY <2>5, <2>6, <2>7
  <2>10. NoSilentGap'
    BY <2>6, <2>7
  <2> QED
    BY <2>8, <2>9, <2>10
<1>6. CASE \E c \in Client : c \in subscribers /\ ReadEvent(c)
  <2> PICK c \in Client : c \in subscribers /\ ReadEvent(c)
    BY <1>6
  <2>1. /\ generation \in Nat /\ ~overflow[c] /\ queue[c] # <<>>
        /\ queue' = [queue EXCEPT ![c] = Tail(queue[c])]
        /\ told' = [told EXCEPT ![c] = told[c] + 1]
        /\ UNCHANGED <<generation, terminal, subscribers, overflow, published>>
    BY DEF ReadEvent
  <2>2. /\ Tail(queue[c]) \in Seq(1..MaxGeneration)
        /\ Len(Tail(queue[c])) = Len(queue[c]) - 1 /\ Len(queue[c]) >= 1
        /\ \A i, j \in DOMAIN Tail(queue[c]) :
             /\ i < j => Tail(queue[c])[i] < Tail(queue[c])[j]
             /\ Tail(queue[c])[i] <= generation
    BY <2>1, TailInOrder
  <2>3. Len(queue[c]) \in Nat /\ told[c] + Len(queue[c]) = published + 1
    BY <2>1
  <2>4. told[c] + 1 \in 0..MaxGeneration
    BY <2>2, <2>3
  <2>5. queue' \in [Client -> Seq(1..MaxGeneration)] /\ told' \in [Client -> 0..MaxGeneration]
    BY <2>1, <2>2, <2>4
  <2>6. ASSUME NEW d \in Client
        PROVE  /\ Len(queue'[d]) <= QueueLimit
               /\ \A i, j \in DOMAIN queue'[d] :
                    (i < j => queue'[d][i] < queue'[d][j]) /\ queue'[d][i] <= generation
               /\ (d \in subscribers /\ ~overflow[d]) =>
                     told'[d] + Len(queue'[d]) = published + 1
    <3>1. CASE d = c
      <4>1. queue'[d] = Tail(queue[c]) /\ told'[d] = told[c] + 1 /\ told[c] \in Nat
        BY <2>1, <3>1
      <4>2. Len(queue[c]) <= QueueLimit
        OBVIOUS
      <4> QED
        BY <2>2, <2>3, <4>1, <4>2
    <3>2. CASE d # c
      BY <2>1, <3>2
    <3> QED
      BY <3>1, <3>2
  <2> QED
    BY <2>1, <2>5, <2>6
<1>7. CASE \E c \in Client : Unregister(c)
  <2> PICK c \in Client : Unregister(c)
    BY <1>7
  <2>1. /\ IsFiniteSet(subscribers')
        /\ Cardinality(subscribers') <= Cardinality(subscribers)
        /\ Cardinality(subscribers') \in Nat /\ Cardinality(subscribers) \in Nat
    BY FS_RemoveElement, FS_Subset, FS_CardinalityType DEF Unregister
  <2>2. queue' \in [Client -> Seq(1..MaxGeneration)]
    BY DEF Unregister
  <2>3. ASSUME NEW d \in Client
        PROVE  /\ Len(queue'[d]) <= QueueLimit
               /\ \A i, j \in DOMAIN queue'[d] :
                    (i < j => queue'[d][i] < queue'[d][j]) /\ queue'[d][i] <= generation'
               /\ (d \in subscribers' /\ ~overflow'[d]) =>
                     told'[d] + Len(queue'[d]) = published' + 1
    <3>1. CASE d = c
      <4>1. queue'[d] = <<>> /\ Len(<<>>) = 0 /\ DOMAIN (<<>>) = {} /\ d \notin subscribers'
        BY <3>1 DEF Unregister
      <4> QED
        BY <4>1
    <3>2. CASE d # c
      BY <3>2 DEF Unregister
    <3> QED
      BY <3>1, <3>2
  <2>4. /\ UNCHANGED <<generation, terminal, published>>
        /\ overflow' \in [Client -> BOOLEAN] /\ told' \in [Client -> 0..MaxGeneration]
        /\ subscribers' \subseteq subscribers
    BY DEF Unregister
  <2> QED
    BY <2>1, <2>2, <2>3, <2>4
<1> QED
  BY <1>1, <1>2, <1>3, <1>4, <1>5, <1>6, <1>7 DEF EventStep

(***************************************************************************)
(* The repository, the watcher and the sessions.                           *)
(***************************************************************************)
\* The lock has an owner who has read HEAD, and the last stamp is no newer than that.
LockOK ==
  /\ stamped <= version
  /\ \A o \in Owner : seen[o] # Nowhere <=> lock = o
  /\ \A o \in Owner : lock = o => stamped <= seen[o] /\ seen[o] <= version
  /\ watcher = "publish" => lock = "watcher"
  /\ \A c \in Client : session[c] \in {"register", "confirm"} => lock = c

\* The subscribers are those of the sessions that are served or to be confirmed, or
\* were cancelled in their report.
SessionOK ==
  /\ \A c \in Client : c \in subscribers <=> session[c] \in {"confirm", "live", "lost"}
  /\ \A c \in Client : session[c] \notin {"off", "live", "leaving"} => attempts[c] >= 1

\* A scan of the present epoch was started with the present interests.
ScanOK ==
  watcher \in {"head", "log", "compare", "lock", "publish"} =>
    /\ observed.epoch <= epoch
    /\ observed.epoch = epoch => observed.files = Union

\* The types of each part of the state; active is bounded and so finite.
HeadTyped ==
  /\ version \in 0..MaxVersion /\ stamped \in 0..MaxVersion
  /\ lock \in Owner \cup {Nobody} /\ seen \in [Owner -> 0..Nowhere]
RegistryTyped ==
  /\ epoch \in 0..MaxEpoch
  /\ active \subseteq Client /\ Cardinality(active) <= ActiveLimit /\ IsFiniteSet(active)
  /\ interest \in [Client -> SUBSET File] /\ Cardinality(Union) <= LeaseLimit
WatcherTyped == watcher \in WatcherStage /\ previous \in Snapshot /\ observed \in Snapshot
SessionTyped ==
  /\ session \in [Client -> SessionStage] /\ sample \in [Client -> Snapshot]
  /\ before \in [Client -> 0..MaxGeneration] /\ attempts \in [Client -> 0..2]
  /\ dirty \in [Client -> BOOLEAN] /\ known \in [Client -> 0..Nowhere]

FeedInv ==
  /\ EventsInv /\ HeadTyped /\ RegistryTyped /\ WatcherTyped /\ SessionTyped
  /\ LockOK /\ SessionOK /\ ScanOK

\* A step of the repository, of the watcher, or of a session.
FeedStepOf(c) ==
  \/ ExternalChange \/ MutationSwaps \/ MutationPublishes \/ OtherRequest \/ Hint
  \/ StartScan \/ ScanHead \/ ScanLog \/ ScanFails \/ TakeLock
  \/ Unchanged \/ Changed \/ Superseded \/ PublishObserved \/ PublicationExhausted
  \/ /\ c \in Client
     /\ \/ Connect(c) \/ StartSample(c) \/ SampleHead(c) \/ SampleRest(c) \/ SampleTimesOut(c)
        \/ TakeSampleLock(c) \/ RegisterSubscriber(c) \/ Ready(c) \/ Discard(c) \/ Retry(c)
        \/ Deliver(c) \/ FetchReads(c) \/ FetchAnswers(c)
        \/ ReplaceFiles(c) \/ EndSession(c) \/ ReleaseFiles(c)
        \/ Cancel(c) \/ CancelReport(c)

\* Every step is at most one transaction of the coordinator.
LEMMA FeedStepIsEventStep ==
  ASSUME FeedConstants, FeedInv, NEW c, FeedStepOf(c)
  PROVE  EventStep
<1>1. CASE ExternalChange
  BY <1>1 DEF ExternalChange, EventStep
<1>2. CASE MutationSwaps
  BY <1>2 DEF MutationSwaps, EventStep
<1>3. CASE MutationPublishes
  BY <1>3 DEF MutationPublishes, EventStep
<1>4. CASE OtherRequest
  BY <1>4 DEF OtherRequest, EventStep
<1>5. CASE StartScan
  BY <1>5 DEF StartScan, EventStep
<1>6. CASE ScanHead
  BY <1>6 DEF ScanHead, EventStep
<1>7. CASE ScanLog
  BY <1>7 DEF ScanLog, EventStep
<1>8. CASE ScanFails
  BY <1>8 DEF ScanFails, EventStep
<1>9. CASE TakeLock
  BY <1>9 DEF TakeLock, EventStep
<1>10. CASE Unchanged
  BY <1>10 DEF Unchanged, EventStep
<1>11. CASE Changed
  BY <1>11 DEF Changed, EventStep
<1>12. CASE Superseded
  BY <1>12 DEF Superseded, EventStep
<1>13. CASE PublishObserved
  BY <1>13 DEF PublishObserved, EventStep
<1>14. CASE PublicationExhausted
  BY <1>14 DEF PublicationExhausted, EventStep
<1>15. CASE Hint
  BY <1>15 DEF Hint, EventStep
<1>16. CASE c \in Client /\ Connect(c)
  BY <1>16 DEF Connect, EventStep
<1>17. CASE c \in Client /\ StartSample(c)
  BY <1>17 DEF StartSample, EventStep
<1>18. CASE c \in Client /\ SampleHead(c)
  BY <1>18 DEF SampleHead, EventStep
<1>19. CASE c \in Client /\ SampleRest(c)
  BY <1>19 DEF SampleRest, EventStep
<1>20. CASE c \in Client /\ RegisterSubscriber(c)
  BY <1>20 DEF RegisterSubscriber, EventStep, FeedInv, SessionOK, AtStage
<1>21. CASE c \in Client /\ Ready(c)
  BY <1>21 DEF Ready, EventStep
<1>22. CASE c \in Client /\ Retry(c)
  BY <1>22 DEF Retry, EventStep
<1>23. CASE c \in Client /\ Deliver(c)
  BY <1>23 DEF Deliver, EventStep, FeedInv, SessionOK, AtStage
<1>24. CASE c \in Client /\ FetchAnswers(c)
  BY <1>24 DEF FetchAnswers, EventStep
<1>25. CASE c \in Client /\ SampleTimesOut(c)
  BY <1>25 DEF SampleTimesOut, EventStep
<1>26. CASE c \in Client /\ TakeSampleLock(c)
  BY <1>26 DEF TakeSampleLock, EventStep
<1>27. CASE c \in Client /\ Discard(c)
  BY <1>27 DEF Discard, EventStep
<1>28. CASE c \in Client /\ FetchReads(c)
  BY <1>28 DEF FetchReads, EventStep
<1>29. CASE c \in Client /\ ReplaceFiles(c)
  BY <1>29 DEF ReplaceFiles, EventStep
<1>30. CASE c \in Client /\ EndSession(c)
  BY <1>30 DEF EndSession, EventStep
<1>31. CASE c \in Client /\ ReleaseFiles(c)
  BY <1>31 DEF ReleaseFiles, EventStep
<1>32. CASE c \in Client /\ Cancel(c)
  BY <1>32 DEF Cancel, EventStep
<1>33. CASE c \in Client /\ CancelReport(c)
  BY <1>33 DEF CancelReport, EventStep
<1> QED
  BY <1>1, <1>2, <1>3, <1>4, <1>5, <1>6, <1>7, <1>8, <1>9, <1>10, <1>11, <1>12, <1>13,
     <1>14, <1>15, <1>16, <1>17, <1>18, <1>19, <1>20, <1>21, <1>22, <1>23, <1>24, <1>25,
     <1>26, <1>27, <1>28, <1>29, <1>30, <1>31, <1>32, <1>33
     DEF FeedStepOf

\* Every step keeps the types of the repository and of its lock.
LEMMA HeadTypedStep ==
  ASSUME FeedConstants, FeedInv, NEW c, FeedStepOf(c)
  PROVE  HeadTyped'
<1> USE DEF FeedInv, HeadTyped, LockOK, FeedConstants, EventsConstants, Owner, Nowhere,
       headVars, Take, Give, Stamp, Allocate, SeeTerminal, PublishInvalidation
<1>1. CASE ExternalChange
  BY <1>1 DEF ExternalChange
<1>2. CASE MutationSwaps
  BY <1>2 DEF MutationSwaps
<1>3. CASE MutationPublishes
  BY <1>3 DEF MutationPublishes
<1>4. CASE OtherRequest
  BY <1>4 DEF OtherRequest
<1>5. CASE StartScan
  BY <1>5 DEF StartScan
<1>6. CASE ScanHead
  BY <1>6 DEF ScanHead
<1>7. CASE ScanLog
  BY <1>7 DEF ScanLog
<1>8. CASE ScanFails
  BY <1>8 DEF ScanFails
<1>9. CASE TakeLock
  BY <1>9 DEF TakeLock
<1>10. CASE Unchanged
  BY <1>10 DEF Unchanged
<1>11. CASE Changed
  BY <1>11 DEF Changed
<1>12. CASE Superseded
  BY <1>12 DEF Superseded
<1>13. CASE PublishObserved
  BY <1>13 DEF PublishObserved
<1>14. CASE PublicationExhausted
  BY <1>14 DEF PublicationExhausted
<1>15. CASE Hint
  BY <1>15 DEF Hint
<1>16. CASE c \in Client /\ Connect(c)
  BY <1>16 DEF Connect
<1>17. CASE c \in Client /\ StartSample(c)
  BY <1>17 DEF StartSample
<1>18. CASE c \in Client /\ SampleHead(c)
  BY <1>18 DEF SampleHead
<1>19. CASE c \in Client /\ SampleRest(c)
  BY <1>19 DEF SampleRest
<1>20. CASE c \in Client /\ RegisterSubscriber(c)
  BY <1>20 DEF RegisterSubscriber, Register, Unregister, AtStage
<1>21. CASE c \in Client /\ Ready(c)
  BY <1>21 DEF Ready, Register, Unregister, AtStage
<1>22. CASE c \in Client /\ Retry(c)
  BY <1>22 DEF Retry
<1>23. CASE c \in Client /\ Deliver(c)
  BY <1>23 DEF Deliver, Register, Unregister, AtStage
<1>24. CASE c \in Client /\ FetchAnswers(c)
  BY <1>24 DEF FetchAnswers, Register, Unregister, AtStage
<1>25. CASE c \in Client /\ SampleTimesOut(c)
  BY <1>25 DEF SampleTimesOut
<1>26. CASE c \in Client /\ TakeSampleLock(c)
  BY <1>26 DEF TakeSampleLock, Register, Unregister, AtStage
<1>27. CASE c \in Client /\ Discard(c)
  BY <1>27 DEF Discard, Register, Unregister, AtStage
<1>28. CASE c \in Client /\ FetchReads(c)
  BY <1>28 DEF FetchReads, Register, Unregister, AtStage
<1>29. CASE c \in Client /\ ReplaceFiles(c)
  BY <1>29 DEF ReplaceFiles
<1>30. CASE c \in Client /\ EndSession(c)
  BY <1>30 DEF EndSession, Register, Unregister, AtStage
<1>31. CASE c \in Client /\ ReleaseFiles(c)
  BY <1>31 DEF ReleaseFiles
<1>32. CASE c \in Client /\ Cancel(c)
  BY <1>32 DEF Cancel, Unregister
<1>33. CASE c \in Client /\ CancelReport(c)
  BY <1>33 DEF CancelReport
<1> QED
  BY <1>1, <1>2, <1>3, <1>4, <1>5, <1>6, <1>7, <1>8, <1>9, <1>10, <1>11, <1>12, <1>13,
     <1>14, <1>15, <1>16, <1>17, <1>18, <1>19, <1>20, <1>21, <1>22, <1>23, <1>24, <1>25,
     <1>26, <1>27, <1>28, <1>29, <1>30, <1>31, <1>32, <1>33
     DEF FeedStepOf

\* Snapshots stay snapshots, whatever facts are put into them.
LEMMA Snapshots ==
  ASSUME FeedConstants, HeadTyped, RegistryTyped
  PROVE  /\ Fresh \in Snapshot /\ Blank \in Snapshot
         /\ \A s \in Snapshot :
              /\ Failed(s) \in Snapshot
              /\ [s EXCEPT !.head = HeadOf(version)] \in Snapshot
              /\ [s EXCEPT !.log = LogOf(version)] \in Snapshot
              /\ [s EXCEPT !.epoch = 0] \in Snapshot
         /\ \A s \in Snapshot :
              /\ Failed(s).epoch = s.epoch /\ Failed(s).files = s.files
              /\ [s EXCEPT !.head = HeadOf(version)].epoch = s.epoch
              /\ [s EXCEPT !.head = HeadOf(version)].files = s.files
              /\ [s EXCEPT !.log = LogOf(version)].epoch = s.epoch
              /\ [s EXCEPT !.log = LogOf(version)].files = s.files
         /\ Fresh.epoch = epoch /\ Fresh.files = Union
<1> USE DEF FeedConstants, HeadTyped, RegistryTyped, Snapshot, Nowhere
<1>1. HeadOf(version) \in {0, 1} /\ LogOf(version) \in 0..Nowhere /\ Nowhere \in 0..Nowhere
  BY DEF HeadOf, LogOf
<1>2. Union \in SUBSET File
  BY DEF Union
<1>3. Fresh \in Snapshot
  BY <1>1, <1>2 DEF Fresh
<1>4. Blank \in Snapshot
  BY <1>1 DEF Blank
<1>5. \A s \in Snapshot : Failed(s) \in Snapshot
  BY <1>1 DEF Failed
<1>6. \A s \in Snapshot : [s EXCEPT !.head = HeadOf(version)] \in Snapshot
  BY <1>1
<1>7. \A s \in Snapshot : [s EXCEPT !.log = LogOf(version)] \in Snapshot
  BY <1>1
<1>8. \A s \in Snapshot :
       /\ Failed(s).epoch = s.epoch /\ Failed(s).files = s.files
       /\ [s EXCEPT !.head = HeadOf(version)].epoch = s.epoch
       /\ [s EXCEPT !.head = HeadOf(version)].files = s.files
       /\ [s EXCEPT !.log = LogOf(version)].epoch = s.epoch
       /\ [s EXCEPT !.log = LogOf(version)].files = s.files
  BY DEF Failed
<1>9. Fresh.epoch = epoch /\ Fresh.files = Union
  BY DEF Fresh
<1>10. \A s \in Snapshot : [s EXCEPT !.epoch = 0] \in Snapshot
  OBVIOUS
<1> QED
  BY <1>3, <1>4, <1>5, <1>6, <1>7, <1>8, <1>9, <1>10

\* Every step keeps the types of the watcher.
LEMMA WatcherTypedStep ==
  ASSUME FeedConstants, FeedInv, NEW c, FeedStepOf(c)
  PROVE  WatcherTyped'
<1> USE DEF FeedInv, WatcherTyped, WatcherStage, watcherVars
<1>0. /\ Fresh \in Snapshot /\ Blank \in Snapshot
      /\ \A s \in Snapshot :
           /\ Failed(s) \in Snapshot
           /\ [s EXCEPT !.head = HeadOf(version)] \in Snapshot
           /\ [s EXCEPT !.log = LogOf(version)] \in Snapshot
           /\ [s EXCEPT !.epoch = 0] \in Snapshot
  BY Snapshots DEF FeedInv
<1>1. CASE ExternalChange
  BY <1>1 DEF ExternalChange
<1>2. CASE MutationSwaps
  BY <1>2 DEF MutationSwaps
<1>3. CASE MutationPublishes
  BY <1>3 DEF MutationPublishes
<1>4. CASE OtherRequest
  BY <1>4 DEF OtherRequest
<1>5. CASE StartScan
  BY <1>5, <1>0 DEF StartScan
<1>6. CASE ScanHead
  BY <1>6, <1>0 DEF ScanHead
<1>7. CASE ScanLog
  BY <1>7, <1>0 DEF ScanLog
<1>8. CASE ScanFails
  BY <1>8, <1>0 DEF ScanFails
<1>9. CASE TakeLock
  BY <1>9, <1>0 DEF TakeLock
<1>10. CASE Unchanged
  BY <1>10, <1>0 DEF Unchanged, Remember
<1>11. CASE Changed
  BY <1>11, <1>0 DEF Changed
<1>12. CASE Superseded
  BY <1>12, <1>0 DEF Superseded
<1>13. CASE PublishObserved
  BY <1>13, <1>0 DEF PublishObserved, Remember
<1>14. CASE PublicationExhausted
  BY <1>14, <1>0 DEF PublicationExhausted
<1>15. CASE Hint
  BY <1>15 DEF Hint
<1>16. CASE c \in Client /\ Connect(c)
  BY <1>16 DEF Connect
<1>17. CASE c \in Client /\ StartSample(c)
  BY <1>17 DEF StartSample
<1>18. CASE c \in Client /\ SampleHead(c)
  BY <1>18 DEF SampleHead
<1>19. CASE c \in Client /\ SampleRest(c)
  BY <1>19 DEF SampleRest
<1>20. CASE c \in Client /\ RegisterSubscriber(c)
  BY <1>20 DEF RegisterSubscriber
<1>21. CASE c \in Client /\ Ready(c)
  BY <1>21 DEF Ready
<1>22. CASE c \in Client /\ Retry(c)
  BY <1>22 DEF Retry
<1>23. CASE c \in Client /\ Deliver(c)
  BY <1>23 DEF Deliver
<1>24. CASE c \in Client /\ FetchAnswers(c)
  BY <1>24 DEF FetchAnswers
<1>25. CASE c \in Client /\ SampleTimesOut(c)
  BY <1>25 DEF SampleTimesOut
<1>26. CASE c \in Client /\ TakeSampleLock(c)
  BY <1>26 DEF TakeSampleLock
<1>27. CASE c \in Client /\ Discard(c)
  BY <1>27 DEF Discard
<1>28. CASE c \in Client /\ FetchReads(c)
  BY <1>28 DEF FetchReads
<1>29. CASE c \in Client /\ ReplaceFiles(c)
  BY <1>29 DEF ReplaceFiles
<1>30. CASE c \in Client /\ EndSession(c)
  BY <1>30 DEF EndSession
<1>31. CASE c \in Client /\ ReleaseFiles(c)
  BY <1>31 DEF ReleaseFiles
<1>32. CASE c \in Client /\ Cancel(c)
  BY <1>32 DEF Cancel
<1>33. CASE c \in Client /\ CancelReport(c)
  BY <1>33 DEF CancelReport
<1> QED
  BY <1>1, <1>2, <1>3, <1>4, <1>5, <1>6, <1>7, <1>8, <1>9, <1>10, <1>11, <1>12, <1>13,
     <1>14, <1>15, <1>16, <1>17, <1>18, <1>19, <1>20, <1>21, <1>22, <1>23, <1>24, <1>25,
     <1>26, <1>27, <1>28, <1>29, <1>30, <1>31, <1>32, <1>33
     DEF FeedStepOf

\* Every step keeps the types of the sessions.
LEMMA SessionTypedStep ==
  ASSUME FeedConstants, FeedInv, NEW c, FeedStepOf(c)
  PROVE  SessionTyped'
<1> USE DEF FeedInv, SessionTyped, SessionStage, sessionVars, Enter, AtStage
<1>0. /\ Fresh \in Snapshot /\ Blank \in Snapshot
      /\ \A s \in Snapshot :
           /\ Failed(s) \in Snapshot
           /\ [s EXCEPT !.head = HeadOf(version)] \in Snapshot
           /\ [s EXCEPT !.log = LogOf(version)] \in Snapshot
  BY Snapshots DEF FeedInv
<1>1. CASE ExternalChange
  BY <1>1 DEF ExternalChange
<1>2. CASE MutationSwaps
  BY <1>2 DEF MutationSwaps
<1>3. CASE MutationPublishes
  BY <1>3 DEF MutationPublishes
<1>4. CASE OtherRequest
  BY <1>4 DEF OtherRequest
<1>5. CASE StartScan
  BY <1>5 DEF StartScan
<1>6. CASE ScanHead
  BY <1>6 DEF ScanHead
<1>7. CASE ScanLog
  BY <1>7 DEF ScanLog
<1>8. CASE ScanFails
  BY <1>8 DEF ScanFails
<1>9. CASE TakeLock
  BY <1>9 DEF TakeLock
<1>10. CASE Unchanged
  BY <1>10 DEF Unchanged
<1>11. CASE Changed
  BY <1>11 DEF Changed
<1>12. CASE Superseded
  BY <1>12 DEF Superseded
<1>13. CASE PublishObserved
  BY <1>13 DEF PublishObserved
<1>14. CASE PublicationExhausted
  BY <1>14 DEF PublicationExhausted
<1>15. CASE Hint
  BY <1>15 DEF Hint
<1>16. CASE c \in Client /\ Connect(c)
  BY <1>16, <1>0 DEF Connect
<1>17. CASE c \in Client /\ StartSample(c)
  <2>1. generation \in 0..MaxGeneration
    BY DEF EventsInv, EventsTypeOK
  <2>2. CASE ~Exhausted
    BY <1>17, <1>0, <2>1, <2>2 DEF StartSample
  <2>3. CASE Exhausted
    BY <1>17, <2>3 DEF StartSample
  <2> QED
    BY <2>2, <2>3
<1>18. CASE c \in Client /\ SampleHead(c)
  BY <1>18, <1>0 DEF SampleHead
<1>19. CASE c \in Client /\ SampleRest(c)
  <2>1. \E s \in Snapshot : sample' = [sample EXCEPT ![c] = s]
    <3>1. CASE UNCHANGED sample
      <4>1. sample' = [sample EXCEPT ![c] = sample[c]] /\ sample[c] \in Snapshot
        BY <1>19, <3>1
      <4> QED
        BY <4>1
    <3>2. CASE sample' = [sample EXCEPT ![c] = Failed(@)]
      <4>1. sample' = [sample EXCEPT ![c] = Failed(sample[c])]
        BY <3>2
      <4> QED
        BY <1>0, <4>1, <1>19
    <3> QED
      BY <1>19, <3>1, <3>2 DEF SampleRest
  <2>2. session' = [session EXCEPT ![c] = "lock"] /\ UNCHANGED <<before, attempts, dirty, known>>
    BY <1>19 DEF SampleRest
  <2> QED
    BY <1>19, <2>1, <2>2
<1>20. CASE c \in Client /\ RegisterSubscriber(c)
  BY <1>20, <1>0 DEF RegisterSubscriber
<1>21. CASE c \in Client /\ Ready(c)
  <2>1. /\ session' = [session EXCEPT ![c] = "live"] /\ UNCHANGED <<dirty, known>>
        /\ attempts' = [attempts EXCEPT ![c] = 0]
        /\ sample' = [sample EXCEPT ![c] = Blank] /\ before' = [before EXCEPT ![c] = 0]
        /\ 0 \in 0..MaxGeneration
    BY <1>21 DEF Ready, FeedConstants, EventsConstants
  <2> QED
    BY <1>21, <1>0, <2>1
<1>22. CASE c \in Client /\ Retry(c)
  <2>1. /\ attempts' = [attempts EXCEPT ![c] = attempts[c] - 1]
        /\ sample' = [sample EXCEPT ![c] = Blank] /\ before' = [before EXCEPT ![c] = 0]
        /\ \/ session' = [session EXCEPT ![c] = "start"]
           \/ session' = [session EXCEPT ![c] = "leaving"]
        /\ UNCHANGED <<dirty, known>> /\ 0 \in 0..MaxGeneration
    BY <1>22 DEF Retry, FeedConstants, EventsConstants
  <2>2. attempts[c] - 1 \in 0..2
    BY <1>22 DEF Retry, SessionOK
  <2> QED
    BY <1>22, <1>0, <2>1, <2>2
<1>23. CASE c \in Client /\ Deliver(c)
  BY <1>23, <1>0 DEF Deliver
<1>24. CASE c \in Client /\ FetchAnswers(c)
  <2>1. \A o \in Client : seen[o] \in 0..Nowhere
    BY DEF HeadTyped, Owner
  <2> QED
    BY <1>24, <2>1 DEF FetchAnswers
<1>25. CASE c \in Client /\ SampleTimesOut(c)
  BY <1>25, <1>0 DEF SampleTimesOut
<1>26. CASE c \in Client /\ TakeSampleLock(c)
  BY <1>26, <1>0 DEF TakeSampleLock
<1>27. CASE c \in Client /\ Discard(c)
  BY <1>27, <1>0 DEF Discard
<1>28. CASE c \in Client /\ FetchReads(c)
  BY <1>28, <1>0 DEF FetchReads
<1>29. CASE c \in Client /\ ReplaceFiles(c)
  BY <1>29, <1>0 DEF ReplaceFiles
<1>30. CASE c \in Client /\ EndSession(c)
  <2>1. Nowhere \in 0..Nowhere
    BY DEF Nowhere, FeedConstants
  <2> QED
    BY <1>30, <2>1 DEF EndSession
<1>31. CASE c \in Client /\ ReleaseFiles(c)
  BY <1>31 DEF ReleaseFiles
<1>32. CASE c \in Client /\ Cancel(c)
  <2>1. /\ session' = [session EXCEPT ![c] = "leaving"] /\ UNCHANGED <<dirty, known>>
        /\ attempts' = [attempts EXCEPT ![c] = 0]
        /\ sample' = [sample EXCEPT ![c] = Blank] /\ before' = [before EXCEPT ![c] = 0]
        /\ 0 \in 0..MaxGeneration
    BY <1>32 DEF Cancel, FeedConstants, EventsConstants
  <2> QED
    BY <1>32, <1>0, <2>1
<1>33. CASE c \in Client /\ CancelReport(c)
  <2>1. /\ session' = [session EXCEPT ![c] = "lost"] /\ UNCHANGED <<attempts, dirty, known>>
        /\ sample' = [sample EXCEPT ![c] = Blank] /\ before' = [before EXCEPT ![c] = 0]
        /\ 0 \in 0..MaxGeneration
    BY <1>33 DEF CancelReport, FeedConstants, EventsConstants
  <2> QED
    BY <1>33, <1>0, <2>1
<1> QED
  BY <1>1, <1>2, <1>3, <1>4, <1>5, <1>6, <1>7, <1>8, <1>9, <1>10, <1>11, <1>12, <1>13,
     <1>14, <1>15, <1>16, <1>17, <1>18, <1>19, <1>20, <1>21, <1>22, <1>23, <1>24, <1>25,
     <1>26, <1>27, <1>28, <1>29, <1>30, <1>31, <1>32, <1>33
     DEF FeedStepOf

\* The interests there are form a finite set, of no more members than it has.
LEMMA InterestsFinite ==
  ASSUME FeedConstants, NEW f \in [Client -> SUBSET File], NEW g \in [Client -> SUBSET File],
         \A d \in Client : g[d] \subseteq f[d],
         Cardinality(UNION {f[d] : d \in Client}) <= LeaseLimit
  PROVE  Cardinality(UNION {g[d] : d \in Client}) <= LeaseLimit
<1>1. UNION {f[d] : d \in Client} \subseteq File
  OBVIOUS
<1>2. UNION {g[d] : d \in Client} \subseteq UNION {f[d] : d \in Client}
  OBVIOUS
<1>3. IsFiniteSet(UNION {f[d] : d \in Client})
  BY <1>1, FS_Subset DEF FeedConstants
<1>4. /\ Cardinality(UNION {g[d] : d \in Client}) <= Cardinality(UNION {f[d] : d \in Client})
      /\ Cardinality(UNION {g[d] : d \in Client}) \in Nat
      /\ Cardinality(UNION {f[d] : d \in Client}) \in Nat
  BY <1>2, <1>3, FS_Subset, FS_CardinalityType
<1> QED
  BY <1>4 DEF FeedConstants

\* Every step keeps the types of the registry of active files.
LEMMA RegistryTypedStep ==
  ASSUME FeedConstants, FeedInv, NEW c, FeedStepOf(c)
  PROVE  RegistryTyped'
<1> USE DEF FeedInv, RegistryTyped, registryVars, Union
<1>1. CASE ExternalChange
  BY <1>1 DEF ExternalChange
<1>2. CASE MutationSwaps
  BY <1>2 DEF MutationSwaps
<1>3. CASE MutationPublishes
  BY <1>3 DEF MutationPublishes
<1>4. CASE OtherRequest
  BY <1>4 DEF OtherRequest
<1>5. CASE StartScan
  BY <1>5 DEF StartScan
<1>6. CASE ScanHead
  BY <1>6 DEF ScanHead
<1>7. CASE ScanLog
  BY <1>7 DEF ScanLog
<1>8. CASE ScanFails
  BY <1>8 DEF ScanFails
<1>9. CASE TakeLock
  BY <1>9 DEF TakeLock
<1>10. CASE Unchanged
  BY <1>10 DEF Unchanged
<1>11. CASE Changed
  BY <1>11 DEF Changed
<1>12. CASE Superseded
  BY <1>12 DEF Superseded
<1>13. CASE PublishObserved
  BY <1>13 DEF PublishObserved
<1>14. CASE PublicationExhausted
  BY <1>14 DEF PublicationExhausted
<1>15. CASE Hint
  BY <1>15 DEF Hint, FeedConstants
<1>16. CASE c \in Client /\ Connect(c)
  <2>1. /\ active' = active \cup {c} /\ UNCHANGED <<epoch, interest>>
        /\ Cardinality(active) < ActiveLimit
    BY <1>16 DEF Connect
  <2>2. /\ IsFiniteSet(active') /\ Cardinality(active') <= Cardinality(active) + 1
        /\ Cardinality(active') \in Nat /\ Cardinality(active) \in Nat
    <3>1. /\ IsFiniteSet(active \cup {c})
          /\ Cardinality(active \cup {c}) =
               IF c \in active THEN Cardinality(active) ELSE Cardinality(active) + 1
      BY FS_AddElement
    <3>2. Cardinality(active) \in Nat
      BY FS_CardinalityType
    <3> QED
      BY <2>1, <3>1, <3>2
  <2>3. Cardinality(active') <= ActiveLimit
    BY <2>1, <2>2 DEF FeedConstants
  <2> QED
    BY <1>16, <2>1, <2>2, <2>3
<1>17. CASE c \in Client /\ StartSample(c)
  BY <1>17 DEF StartSample
<1>18. CASE c \in Client /\ SampleHead(c)
  BY <1>18 DEF SampleHead
<1>19. CASE c \in Client /\ SampleRest(c)
  BY <1>19 DEF SampleRest
<1>20. CASE c \in Client /\ RegisterSubscriber(c)
  BY <1>20 DEF RegisterSubscriber
<1>21. CASE c \in Client /\ Ready(c)
  BY <1>21 DEF Ready
<1>22. CASE c \in Client /\ Retry(c)
  BY <1>22 DEF Retry
<1>23. CASE c \in Client /\ Deliver(c)
  BY <1>23 DEF Deliver
<1>24. CASE c \in Client /\ FetchAnswers(c)
  BY <1>24 DEF FetchAnswers
<1>25. CASE c \in Client /\ SampleTimesOut(c)
  BY <1>25 DEF SampleTimesOut
<1>26. CASE c \in Client /\ TakeSampleLock(c)
  BY <1>26 DEF TakeSampleLock
<1>27. CASE c \in Client /\ Discard(c)
  BY <1>27 DEF Discard
<1>28. CASE c \in Client /\ FetchReads(c)
  BY <1>28 DEF FetchReads
<1>29. CASE c \in Client /\ ReplaceFiles(c)
  <2> PICK files \in SUBSET File :
         /\ interest' = [interest EXCEPT ![c] = files]
         /\ Cardinality(UNION {interest'[d] : d \in Client}) <= LeaseLimit
         /\ epoch' = IF UNION {interest'[d] : d \in Client} = Union THEN epoch ELSE epoch + 1
    BY <1>29 DEF ReplaceFiles
  <2>1. epoch' <= MaxEpoch /\ active' = active
    BY <1>29 DEF ReplaceFiles
  <2>2. epoch' \in Nat
    OBVIOUS
  <2> QED
    BY <1>29, <2>1, <2>2 DEF FeedConstants
<1>30. CASE c \in Client /\ EndSession(c)
  BY <1>30 DEF EndSession
<1>31. CASE c \in Client /\ ReleaseFiles(c)
  <2>1. /\ active' = active \ {c} /\ interest' = [interest EXCEPT ![c] = {}]
        /\ epoch' \in {epoch, epoch + 1} /\ epoch' <= MaxEpoch
    BY <1>31 DEF ReleaseFiles
  <2>2. /\ IsFiniteSet(active') /\ Cardinality(active') <= Cardinality(active)
        /\ Cardinality(active') \in Nat /\ Cardinality(active) \in Nat
    BY <2>1, FS_RemoveElement, FS_Subset, FS_CardinalityType
  <2>3. interest' \in [Client -> SUBSET File] /\ \A d \in Client : interest'[d] \subseteq interest[d]
    BY <2>1
  <2>4. Cardinality(UNION {interest'[d] : d \in Client}) <= LeaseLimit
    BY <2>3, InterestsFinite
  <2>5. epoch' \in 0..MaxEpoch
    BY <2>1 DEF FeedConstants
  <2> QED
    BY <1>31, <2>1, <2>2, <2>3, <2>4, <2>5 DEF FeedConstants
<1>32. CASE c \in Client /\ Cancel(c)
  BY <1>32 DEF Cancel
<1>33. CASE c \in Client /\ CancelReport(c)
  <2>1. active' = active \ {c} /\ UNCHANGED <<epoch, interest>>
    BY <1>33 DEF CancelReport
  <2>2. /\ IsFiniteSet(active') /\ Cardinality(active') <= Cardinality(active)
        /\ Cardinality(active') \in Nat /\ Cardinality(active) \in Nat
    BY <2>1, FS_RemoveElement, FS_Subset, FS_CardinalityType
  <2> QED
    BY <2>1, <2>2 DEF FeedConstants
<1> QED
  BY <1>1, <1>2, <1>3, <1>4, <1>5, <1>6, <1>7, <1>8, <1>9, <1>10, <1>11, <1>12, <1>13,
     <1>14, <1>15, <1>16, <1>17, <1>18, <1>19, <1>20, <1>21, <1>22, <1>23, <1>24, <1>25,
     <1>26, <1>27, <1>28, <1>29, <1>30, <1>31, <1>32, <1>33
     DEF FeedStepOf

\* Every step keeps what the owner of the lock knows.
LEMMA LockOKStep ==
  ASSUME FeedConstants, FeedInv, NEW c, FeedStepOf(c)
  PROVE  LockOK'
<1> USE DEF FeedInv, HeadTyped, LockOK, FeedConstants, Owner, Nowhere, headVars, Take, Give,
       Stamp, SessionTyped, SessionStage, AtStage, Enter
<1>1. CASE ExternalChange
  BY <1>1 DEF ExternalChange, sessionVars, watcherVars
<1>2. CASE MutationSwaps
  BY <1>2 DEF MutationSwaps, sessionVars, watcherVars
<1>3. CASE MutationPublishes
  BY <1>3 DEF MutationPublishes, sessionVars, watcherVars
<1>4. CASE OtherRequest
  BY <1>4 DEF OtherRequest, sessionVars, watcherVars
<1>5. CASE StartScan
  BY <1>5 DEF StartScan, sessionVars, watcherVars
<1>6. CASE ScanHead
  BY <1>6 DEF ScanHead, sessionVars, watcherVars
<1>7. CASE ScanLog
  BY <1>7 DEF ScanLog, sessionVars, watcherVars
<1>8. CASE ScanFails
  BY <1>8 DEF ScanFails, sessionVars, watcherVars
<1>9. CASE TakeLock
  BY <1>9 DEF TakeLock, sessionVars, watcherVars
<1>10. CASE Unchanged
  BY <1>10 DEF Unchanged, sessionVars, watcherVars
<1>11. CASE Changed
  BY <1>11 DEF Changed, sessionVars, watcherVars
<1>12. CASE Superseded
  BY <1>12 DEF Superseded, sessionVars, watcherVars
<1>13. CASE PublishObserved
  BY <1>13 DEF PublishObserved, sessionVars, watcherVars
<1>14. CASE PublicationExhausted
  BY <1>14 DEF PublicationExhausted, sessionVars, watcherVars
<1>15. CASE Hint
  BY <1>15 DEF Hint, sessionVars, watcherVars
<1>16. CASE c \in Client /\ Connect(c)
  BY <1>16 DEF Connect, watcherVars
<1>17. CASE c \in Client /\ StartSample(c)
  BY <1>17 DEF StartSample, watcherVars
<1>18. CASE c \in Client /\ SampleHead(c)
  BY <1>18 DEF SampleHead, watcherVars
<1>19. CASE c \in Client /\ SampleRest(c)
  BY <1>19 DEF SampleRest, watcherVars
<1>20. CASE c \in Client /\ RegisterSubscriber(c)
  BY <1>20 DEF RegisterSubscriber, watcherVars
<1>21. CASE c \in Client /\ Ready(c)
  BY <1>21 DEF Ready, watcherVars
<1>22. CASE c \in Client /\ Retry(c)
  BY <1>22 DEF Retry, watcherVars
<1>23. CASE c \in Client /\ Deliver(c)
  BY <1>23 DEF Deliver, watcherVars
<1>24. CASE c \in Client /\ FetchAnswers(c)
  BY <1>24 DEF FetchAnswers, watcherVars
<1>25. CASE c \in Client /\ SampleTimesOut(c)
  BY <1>25 DEF SampleTimesOut, watcherVars
<1>26. CASE c \in Client /\ TakeSampleLock(c)
  BY <1>26 DEF TakeSampleLock, watcherVars
<1>27. CASE c \in Client /\ Discard(c)
  BY <1>27 DEF Discard, watcherVars
<1>28. CASE c \in Client /\ FetchReads(c)
  BY <1>28 DEF FetchReads, watcherVars
<1>29. CASE c \in Client /\ ReplaceFiles(c)
  BY <1>29 DEF ReplaceFiles, watcherVars, sessionVars
<1>30. CASE c \in Client /\ EndSession(c)
  BY <1>30 DEF EndSession, watcherVars
<1>31. CASE c \in Client /\ ReleaseFiles(c)
  BY <1>31 DEF ReleaseFiles, watcherVars
<1>32. CASE c \in Client /\ Cancel(c)
  BY <1>32 DEF Cancel, watcherVars
<1>33. CASE c \in Client /\ CancelReport(c)
  BY <1>33 DEF CancelReport, watcherVars
<1> QED
  BY <1>1, <1>2, <1>3, <1>4, <1>5, <1>6, <1>7, <1>8, <1>9, <1>10, <1>11, <1>12, <1>13,
     <1>14, <1>15, <1>16, <1>17, <1>18, <1>19, <1>20, <1>21, <1>22, <1>23, <1>24, <1>25,
     <1>26, <1>27, <1>28, <1>29, <1>30, <1>31, <1>32, <1>33
     DEF FeedStepOf

\* Every step keeps subscribers and sessions together.
LEMMA SessionOKStep ==
  ASSUME FeedConstants, FeedInv, NEW c, FeedStepOf(c)
  PROVE  SessionOK'
<1> USE DEF FeedInv, SessionOK, SessionTyped, SessionStage, AtStage, Enter
<1>1. CASE ExternalChange
  BY <1>1 DEF ExternalChange, sessionVars, eventVars, SeeTerminal, Allocate, PublishInvalidation
<1>2. CASE MutationSwaps
  BY <1>2 DEF MutationSwaps, sessionVars, eventVars, SeeTerminal, Allocate, PublishInvalidation
<1>3. CASE MutationPublishes
  BY <1>3 DEF MutationPublishes, sessionVars, eventVars, SeeTerminal, Allocate,
     PublishInvalidation
<1>4. CASE OtherRequest
  BY <1>4 DEF OtherRequest, sessionVars, eventVars, SeeTerminal, Allocate, PublishInvalidation
<1>5. CASE StartScan
  BY <1>5 DEF StartScan, sessionVars, eventVars, SeeTerminal, Allocate, PublishInvalidation
<1>6. CASE ScanHead
  BY <1>6 DEF ScanHead, sessionVars, eventVars, SeeTerminal, Allocate, PublishInvalidation
<1>7. CASE ScanLog
  BY <1>7 DEF ScanLog, sessionVars, eventVars, SeeTerminal, Allocate, PublishInvalidation
<1>8. CASE ScanFails
  BY <1>8 DEF ScanFails, sessionVars, eventVars, SeeTerminal, Allocate, PublishInvalidation
<1>9. CASE TakeLock
  BY <1>9 DEF TakeLock, sessionVars, eventVars, SeeTerminal, Allocate, PublishInvalidation
<1>10. CASE Unchanged
  BY <1>10 DEF Unchanged, sessionVars, eventVars, SeeTerminal, Allocate, PublishInvalidation
<1>11. CASE Changed
  BY <1>11 DEF Changed, sessionVars, eventVars, SeeTerminal, Allocate, PublishInvalidation
<1>12. CASE Superseded
  BY <1>12 DEF Superseded, sessionVars, eventVars, SeeTerminal, Allocate, PublishInvalidation
<1>13. CASE PublishObserved
  BY <1>13 DEF PublishObserved, sessionVars, eventVars, SeeTerminal, Allocate,
     PublishInvalidation
<1>14. CASE PublicationExhausted
  BY <1>14 DEF PublicationExhausted, sessionVars, eventVars, SeeTerminal, Allocate,
     PublishInvalidation
<1>15. CASE Hint
  BY <1>15 DEF Hint, sessionVars, eventVars, SeeTerminal, Allocate, PublishInvalidation
<1>16. CASE c \in Client /\ Connect(c)
  BY <1>16 DEF Connect, eventVars, SeeTerminal, Allocate, Register, Unregister, ReadEvent,
     sessionVars
<1>17. CASE c \in Client /\ StartSample(c)
  BY <1>17 DEF StartSample, eventVars, SeeTerminal, Allocate, Register, Unregister, ReadEvent,
     sessionVars
<1>18. CASE c \in Client /\ SampleHead(c)
  BY <1>18 DEF SampleHead, eventVars, SeeTerminal, Allocate, Register, Unregister, ReadEvent,
     sessionVars
<1>19. CASE c \in Client /\ SampleRest(c)
  BY <1>19 DEF SampleRest, eventVars, SeeTerminal, Allocate, Register, Unregister, ReadEvent,
     sessionVars
<1>20. CASE c \in Client /\ RegisterSubscriber(c)
  BY <1>20 DEF RegisterSubscriber, eventVars, SeeTerminal, Allocate, Register, Unregister,
     ReadEvent, sessionVars
<1>21. CASE c \in Client /\ Ready(c)
  BY <1>21 DEF Ready, eventVars, SeeTerminal, Allocate, Register, Unregister, ReadEvent,
     sessionVars
<1>22. CASE c \in Client /\ Retry(c)
  BY <1>22 DEF Retry, eventVars, SeeTerminal, Allocate, Register, Unregister, ReadEvent,
     sessionVars
<1>23. CASE c \in Client /\ Deliver(c)
  BY <1>23 DEF Deliver, eventVars, SeeTerminal, Allocate, Register, Unregister, ReadEvent,
     sessionVars
<1>24. CASE c \in Client /\ FetchAnswers(c)
  BY <1>24 DEF FetchAnswers, eventVars, SeeTerminal, Allocate, Register, Unregister,
     ReadEvent, sessionVars
<1>25. CASE c \in Client /\ SampleTimesOut(c)
  BY <1>25 DEF SampleTimesOut, eventVars, SeeTerminal, Allocate, Register, Unregister,
     ReadEvent, sessionVars
<1>26. CASE c \in Client /\ TakeSampleLock(c)
  BY <1>26 DEF TakeSampleLock, eventVars, SeeTerminal, Allocate, Register, Unregister,
     ReadEvent, sessionVars
<1>27. CASE c \in Client /\ Discard(c)
  BY <1>27 DEF Discard, eventVars, SeeTerminal, Allocate, Register, Unregister, ReadEvent,
     sessionVars
<1>28. CASE c \in Client /\ FetchReads(c)
  BY <1>28 DEF FetchReads, eventVars, SeeTerminal, Allocate, Register, Unregister, ReadEvent,
     sessionVars
<1>29. CASE c \in Client /\ ReplaceFiles(c)
  BY <1>29 DEF ReplaceFiles, eventVars, SeeTerminal, Allocate, Register, Unregister,
     ReadEvent, sessionVars
<1>30. CASE c \in Client /\ EndSession(c)
  BY <1>30 DEF EndSession, eventVars, SeeTerminal, Allocate, Register, Unregister, ReadEvent,
     sessionVars
<1>31. CASE c \in Client /\ ReleaseFiles(c)
  BY <1>31 DEF ReleaseFiles, eventVars, SeeTerminal, Allocate, Register, Unregister,
     ReadEvent, sessionVars
<1>32. CASE c \in Client /\ Cancel(c)
  BY <1>32 DEF Cancel, eventVars, Unregister
<1>33. CASE c \in Client /\ CancelReport(c)
  BY <1>33 DEF CancelReport, eventVars
<1> QED
  BY <1>1, <1>2, <1>3, <1>4, <1>5, <1>6, <1>7, <1>8, <1>9, <1>10, <1>11, <1>12, <1>13,
     <1>14, <1>15, <1>16, <1>17, <1>18, <1>19, <1>20, <1>21, <1>22, <1>23, <1>24, <1>25,
     <1>26, <1>27, <1>28, <1>29, <1>30, <1>31, <1>32, <1>33
     DEF FeedStepOf

\* Every step keeps what a scan of the present epoch was started with.
LEMMA ScanOKStep ==
  ASSUME FeedConstants, FeedInv, NEW c, FeedStepOf(c)
  PROVE  ScanOK'
<1> USE DEF FeedInv, ScanOK, RegistryTyped, WatcherTyped, registryVars, watcherVars
<1>0. /\ \A s \in Snapshot :
           /\ Failed(s).epoch = s.epoch /\ Failed(s).files = s.files
           /\ [s EXCEPT !.head = HeadOf(version)].epoch = s.epoch
           /\ [s EXCEPT !.head = HeadOf(version)].files = s.files
           /\ [s EXCEPT !.log = LogOf(version)].epoch = s.epoch
           /\ [s EXCEPT !.log = LogOf(version)].files = s.files
      /\ Fresh.epoch = epoch /\ Fresh.files = UNION {interest[d] : d \in Client}
  BY Snapshots DEF FeedInv, Union
<1>1. CASE ExternalChange
  BY <1>1 DEF ExternalChange, Union
<1>2. CASE MutationSwaps
  BY <1>2 DEF MutationSwaps, Union
<1>3. CASE MutationPublishes
  BY <1>3 DEF MutationPublishes, Union
<1>4. CASE OtherRequest
  BY <1>4 DEF OtherRequest, Union
<1>5. CASE StartScan
  BY <1>5, <1>0 DEF StartScan, Union
<1>6. CASE ScanHead
  BY <1>6, <1>0 DEF ScanHead, Union
<1>7. CASE ScanLog
  BY <1>7, <1>0 DEF ScanLog, Union
<1>8. CASE ScanFails
  BY <1>8, <1>0 DEF ScanFails, Union
<1>9. CASE TakeLock
  BY <1>9, <1>0 DEF TakeLock, Union
<1>10. CASE Unchanged
  BY <1>10, <1>0 DEF Unchanged, Union
<1>11. CASE Changed
  BY <1>11, <1>0 DEF Changed, Union
<1>12. CASE Superseded
  BY <1>12, <1>0 DEF Superseded, Union
<1>13. CASE PublishObserved
  BY <1>13, <1>0 DEF PublishObserved, Union
<1>14. CASE PublicationExhausted
  BY <1>14, <1>0 DEF PublicationExhausted, Union
<1>15. CASE Hint
  <2>1. observed.epoch \in Nat /\ epoch \in Nat
    BY DEF Snapshot
  <2> QED
    BY <1>15, <2>1 DEF Hint, Union
<1>16. CASE c \in Client /\ Connect(c)
  BY <1>16 DEF Connect, Union
<1>17. CASE c \in Client /\ StartSample(c)
  BY <1>17 DEF StartSample, Union
<1>18. CASE c \in Client /\ SampleHead(c)
  BY <1>18 DEF SampleHead, Union
<1>19. CASE c \in Client /\ SampleRest(c)
  BY <1>19 DEF SampleRest, Union
<1>20. CASE c \in Client /\ RegisterSubscriber(c)
  BY <1>20 DEF RegisterSubscriber, Union
<1>21. CASE c \in Client /\ Ready(c)
  BY <1>21 DEF Ready, Union
<1>22. CASE c \in Client /\ Retry(c)
  BY <1>22 DEF Retry, Union
<1>23. CASE c \in Client /\ Deliver(c)
  BY <1>23 DEF Deliver, Union
<1>24. CASE c \in Client /\ FetchAnswers(c)
  BY <1>24 DEF FetchAnswers, Union
<1>25. CASE c \in Client /\ SampleTimesOut(c)
  BY <1>25 DEF SampleTimesOut, Union
<1>26. CASE c \in Client /\ TakeSampleLock(c)
  BY <1>26 DEF TakeSampleLock, Union
<1>27. CASE c \in Client /\ Discard(c)
  BY <1>27 DEF Discard, Union
<1>28. CASE c \in Client /\ FetchReads(c)
  BY <1>28 DEF FetchReads, Union
<1>29. CASE c \in Client /\ ReplaceFiles(c)
  <2>1. observed.epoch \in Nat /\ epoch \in Nat
    BY DEF Snapshot
  <2>2. UNION {interest'[d] : d \in Client} = Union'
    BY DEF Union
  <2>3. epoch' = IF Union' = Union THEN epoch ELSE epoch + 1
    BY <1>29, <2>2 DEF ReplaceFiles
  <2>4. UNCHANGED <<watcher, observed>>
    BY <1>29 DEF ReplaceFiles
  <2> QED
    BY <2>1, <2>3, <2>4
<1>30. CASE c \in Client /\ EndSession(c)
  BY <1>30 DEF EndSession, Union
<1>31. CASE c \in Client /\ ReleaseFiles(c)
  <2>1. observed.epoch \in Nat /\ epoch \in Nat
    BY DEF Snapshot
  <2>2. UNION {interest'[d] : d \in Client} = Union'
    BY DEF Union
  <2>3. epoch' = IF Union' = Union THEN epoch ELSE epoch + 1
    BY <1>31, <2>2 DEF ReleaseFiles
  <2>4. UNCHANGED <<watcher, observed>>
    BY <1>31 DEF ReleaseFiles
  <2> QED
    BY <2>1, <2>3, <2>4
<1>32. CASE c \in Client /\ Cancel(c)
  BY <1>32 DEF Cancel, Union
<1>33. CASE c \in Client /\ CancelReport(c)
  BY <1>33 DEF CancelReport, Union
<1> QED
  BY <1>1, <1>2, <1>3, <1>4, <1>5, <1>6, <1>7, <1>8, <1>9, <1>10, <1>11, <1>12, <1>13,
     <1>14, <1>15, <1>16, <1>17, <1>18, <1>19, <1>20, <1>21, <1>22, <1>23, <1>24, <1>25,
     <1>26, <1>27, <1>28, <1>29, <1>30, <1>31, <1>32, <1>33
     DEF FeedStepOf

\* A step stamps a greater generation on no older state, and the clock stops.
LEMMA StampsStep ==
  ASSUME FeedConstants, FeedInv, NEW c, FeedStepOf(c)
  PROVE  StampsOrderly
<1> USE DEF FeedInv, LockOK, HeadTyped, EventsInv, EventsTypeOK, StampsOrderly, eventVars,
       headVars, Exhausted, SeeTerminal, Allocate, PublishInvalidation, Take, Give, Stamp,
       FeedConstants, Owner, Nowhere, AtStage
<1>1. CASE ExternalChange
  BY <1>1 DEF ExternalChange
<1>2. CASE MutationSwaps
  BY <1>2 DEF MutationSwaps
<1>3. CASE MutationPublishes
  BY <1>3 DEF MutationPublishes
<1>4. CASE OtherRequest
  BY <1>4 DEF OtherRequest
<1>5. CASE StartScan
  BY <1>5 DEF StartScan
<1>6. CASE ScanHead
  BY <1>6 DEF ScanHead
<1>7. CASE ScanLog
  BY <1>7 DEF ScanLog
<1>8. CASE ScanFails
  BY <1>8 DEF ScanFails
<1>9. CASE TakeLock
  BY <1>9 DEF TakeLock
<1>10. CASE Unchanged
  BY <1>10 DEF Unchanged
<1>11. CASE Changed
  BY <1>11 DEF Changed
<1>12. CASE Superseded
  BY <1>12 DEF Superseded
<1>13. CASE PublishObserved
  BY <1>13 DEF PublishObserved
<1>14. CASE PublicationExhausted
  BY <1>14 DEF PublicationExhausted
<1>15. CASE Hint
  BY <1>15 DEF Hint
<1>16. CASE c \in Client /\ Connect(c)
  BY <1>16 DEF Connect, Register, Unregister, ReadEvent
<1>17. CASE c \in Client /\ StartSample(c)
  BY <1>17 DEF StartSample, Register, Unregister, ReadEvent
<1>18. CASE c \in Client /\ SampleHead(c)
  BY <1>18 DEF SampleHead, Register, Unregister, ReadEvent
<1>19. CASE c \in Client /\ SampleRest(c)
  BY <1>19 DEF SampleRest, Register, Unregister, ReadEvent
<1>20. CASE c \in Client /\ RegisterSubscriber(c)
  BY <1>20 DEF RegisterSubscriber, Register, Unregister, ReadEvent
<1>21. CASE c \in Client /\ Ready(c)
  BY <1>21 DEF Ready, Register, Unregister, ReadEvent
<1>22. CASE c \in Client /\ Retry(c)
  BY <1>22 DEF Retry, Register, Unregister, ReadEvent
<1>23. CASE c \in Client /\ Deliver(c)
  BY <1>23 DEF Deliver, Register, Unregister, ReadEvent
<1>24. CASE c \in Client /\ FetchAnswers(c)
  BY <1>24 DEF FetchAnswers, Register, Unregister, ReadEvent
<1>25. CASE c \in Client /\ SampleTimesOut(c)
  BY <1>25 DEF SampleTimesOut, Register, Unregister, ReadEvent
<1>26. CASE c \in Client /\ TakeSampleLock(c)
  BY <1>26 DEF TakeSampleLock, Register, Unregister, ReadEvent
<1>27. CASE c \in Client /\ Discard(c)
  BY <1>27 DEF Discard, Register, Unregister, ReadEvent
<1>28. CASE c \in Client /\ FetchReads(c)
  BY <1>28 DEF FetchReads, Register, Unregister, ReadEvent
<1>29. CASE c \in Client /\ ReplaceFiles(c)
  BY <1>29 DEF ReplaceFiles, Register, Unregister, ReadEvent
<1>30. CASE c \in Client /\ EndSession(c)
  BY <1>30 DEF EndSession, Register, Unregister, ReadEvent
<1>31. CASE c \in Client /\ ReleaseFiles(c)
  BY <1>31 DEF ReleaseFiles, Register, Unregister, ReadEvent
<1>32. CASE c \in Client /\ Cancel(c)
  BY <1>32 DEF Cancel, Unregister
<1>33. CASE c \in Client /\ CancelReport(c)
  BY <1>33 DEF CancelReport
<1> QED
  BY <1>1, <1>2, <1>3, <1>4, <1>5, <1>6, <1>7, <1>8, <1>9, <1>10, <1>11, <1>12, <1>13,
     <1>14, <1>15, <1>16, <1>17, <1>18, <1>19, <1>20, <1>21, <1>22, <1>23, <1>24, <1>25,
     <1>26, <1>27, <1>28, <1>29, <1>30, <1>31, <1>32, <1>33
     DEF FeedStepOf

\* A step that publishes a scan publishes one of the present interests.
LEMMA PublicationStep ==
  ASSUME FeedConstants, FeedInv, NEW c, FeedStepOf(c)
  PROVE  PublishesCurrent
<1> USE DEF PublishesCurrent, eventVars, SeeTerminal, Allocate
<1>1. CASE ExternalChange
  BY <1>1 DEF ExternalChange, watcherVars
<1>2. CASE MutationSwaps
  BY <1>2 DEF MutationSwaps, watcherVars
<1>3. CASE MutationPublishes
  BY <1>3 DEF MutationPublishes, watcherVars
<1>4. CASE OtherRequest
  BY <1>4 DEF OtherRequest, watcherVars
<1>5. CASE StartScan
  BY <1>5 DEF StartScan, watcherVars
<1>6. CASE ScanHead
  BY <1>6 DEF ScanHead, watcherVars
<1>7. CASE ScanLog
  BY <1>7 DEF ScanLog, watcherVars
<1>8. CASE ScanFails
  BY <1>8 DEF ScanFails, watcherVars
<1>9. CASE TakeLock
  BY <1>9 DEF TakeLock, watcherVars
<1>10. CASE Unchanged
  BY <1>10 DEF Unchanged, watcherVars
<1>11. CASE Changed
  BY <1>11 DEF Changed, watcherVars
<1>12. CASE Superseded
  BY <1>12 DEF Superseded, watcherVars
<1>13. CASE PublishObserved
  BY <1>13 DEF PublishObserved, Remember, FeedInv, ScanOK, Admissible, WatcherTyped,
     Snapshot
<1>14. CASE PublicationExhausted
  BY <1>14 DEF PublicationExhausted, watcherVars
<1>15. CASE Hint
  BY <1>15 DEF Hint, watcherVars
<1>16. CASE c \in Client /\ Connect(c)
  BY <1>16 DEF Connect, Register, Unregister, ReadEvent, watcherVars
<1>17. CASE c \in Client /\ StartSample(c)
  BY <1>17 DEF StartSample, Register, Unregister, ReadEvent, watcherVars
<1>18. CASE c \in Client /\ SampleHead(c)
  BY <1>18 DEF SampleHead, Register, Unregister, ReadEvent, watcherVars
<1>19. CASE c \in Client /\ SampleRest(c)
  BY <1>19 DEF SampleRest, Register, Unregister, ReadEvent, watcherVars
<1>20. CASE c \in Client /\ RegisterSubscriber(c)
  BY <1>20 DEF RegisterSubscriber, Register, Unregister, ReadEvent, watcherVars
<1>21. CASE c \in Client /\ Ready(c)
  BY <1>21 DEF Ready, Register, Unregister, ReadEvent, watcherVars
<1>22. CASE c \in Client /\ Retry(c)
  BY <1>22 DEF Retry, Register, Unregister, ReadEvent, watcherVars
<1>23. CASE c \in Client /\ Deliver(c)
  BY <1>23 DEF Deliver, Register, Unregister, ReadEvent, watcherVars
<1>24. CASE c \in Client /\ FetchAnswers(c)
  BY <1>24 DEF FetchAnswers, Register, Unregister, ReadEvent, watcherVars
<1>25. CASE c \in Client /\ SampleTimesOut(c)
  BY <1>25 DEF SampleTimesOut, Register, Unregister, ReadEvent, watcherVars
<1>26. CASE c \in Client /\ TakeSampleLock(c)
  BY <1>26 DEF TakeSampleLock, Register, Unregister, ReadEvent, watcherVars
<1>27. CASE c \in Client /\ Discard(c)
  BY <1>27 DEF Discard, Register, Unregister, ReadEvent, watcherVars
<1>28. CASE c \in Client /\ FetchReads(c)
  BY <1>28 DEF FetchReads, Register, Unregister, ReadEvent, watcherVars
<1>29. CASE c \in Client /\ ReplaceFiles(c)
  BY <1>29 DEF ReplaceFiles, Register, Unregister, ReadEvent, watcherVars
<1>30. CASE c \in Client /\ EndSession(c)
  BY <1>30 DEF EndSession, Register, Unregister, ReadEvent, watcherVars
<1>31. CASE c \in Client /\ ReleaseFiles(c)
  BY <1>31 DEF ReleaseFiles, Register, Unregister, ReadEvent, watcherVars
<1>32. CASE c \in Client /\ Cancel(c)
  BY <1>32 DEF Cancel, Unregister, watcherVars
<1>33. CASE c \in Client /\ CancelReport(c)
  BY <1>33 DEF CancelReport, watcherVars
<1> QED
  BY <1>1, <1>2, <1>3, <1>4, <1>5, <1>6, <1>7, <1>8, <1>9, <1>10, <1>11, <1>12, <1>13,
     <1>14, <1>15, <1>16, <1>17, <1>18, <1>19, <1>20, <1>21, <1>22, <1>23, <1>24, <1>25,
     <1>26, <1>27, <1>28, <1>29, <1>30, <1>31, <1>32, <1>33
     DEF FeedStepOf

\* Every step of the feed is one of those.
LEMMA FeedSteps ==
  ASSUME FeedNext
  PROVE  \E c : FeedStepOf(c)
<1> USE DEF FeedStepOf
<1>1. CASE Hint
  BY <1>1
<1>2. CASE \/ ExternalChange \/ MutationSwaps \/ MutationPublishes \/ OtherRequest
           \/ ScanStep \/ ScanFails \/ TakeLock \/ WatcherStep
  BY <1>2 DEF ScanStep, WatcherStep
<1>3. CASE \E c \in Client :
             \/ Connect(c) \/ SubscribeStep(c) \/ SampleTimesOut(c) \/ TakeSampleLock(c)
             \/ Discard(c) \/ FetchReads(c) \/ ReplaceFiles(c) \/ EndSession(c) \/ ReleaseFiles(c)
             \/ Cancel(c) \/ CancelReport(c)
  BY <1>3 DEF SubscribeStep
<1> QED
  BY <1>1, <1>2, <1>3 DEF FeedNext, Undisturbed

\* The invariant holds at the start, with the watcher at any stage between two scans.
LEMMA FeedStarts ==
  ASSUME FeedConstants, FeedInit
  PROVE  FeedInv
<1> USE DEF FeedInit, Unconnected, FeedConstants, EventsConstants
<1>1. EventsInv
  <2>1. /\ IsFiniteSet({}) /\ Cardinality({}) = 0
    BY FS_EmptySet
  <2>2. queue = [c \in Client |-> <<>>] /\ queue \in [Client -> Seq(1..MaxGeneration)]
    BY DEF EventsInit
  <2>3. \A c \in Client : Len(queue[c]) = 0 /\ DOMAIN queue[c] = {}
    BY <2>2
  <2>4. EventsTypeOK
    <3>1. /\ MaxGeneration \in Nat /\ SubscriberLimit \in Nat /\ QueueLimit \in Nat
          /\ subscribers = {}
      BY DEF EventsInit
    <3>2. generation \in 0..MaxGeneration /\ published \in 0..MaxGeneration
      BY <3>1 DEF EventsInit
    <3>3. told \in [Client -> 0..MaxGeneration]
      BY <3>1 DEF EventsInit
    <3>4. terminal \in BOOLEAN /\ overflow \in [Client -> BOOLEAN]
      BY DEF EventsInit
    <3>5. subscribers \subseteq Client /\ Cardinality(subscribers) <= SubscriberLimit
      BY <2>1, <3>1
    <3>6. \A c \in Client : Len(queue[c]) <= QueueLimit
      BY <2>3, <3>1
    <3>7. \A c \in Client : \A i, j \in DOMAIN queue[c] :
             (i < j => queue[c][i] < queue[c][j]) /\ queue[c][i] <= generation
      BY <2>3
    <3> QED
      BY <2>2, <3>2, <3>3, <3>4, <3>5, <3>6, <3>7 DEF EventsTypeOK
  <2> QED
    BY <2>1, <2>4 DEF EventsInv, EventsInit, NoSilentGap, Counted
<1>2. HeadTyped
  BY DEF HeadTyped, Nowhere
<1>3. RegistryTyped
  <2>1. UNION {interest[d] : d \in Client} = {}
    OBVIOUS
  <2> QED
    BY <2>1, FS_EmptySet DEF RegistryTyped, Union
<1>4. Blank \in Snapshot
  BY <1>2, <1>3, Snapshots
<1>5. WatcherTyped
  <2>1. HeadOf(0) \in {0, 1, Nowhere} /\ LogOf(0) \in 0..Nowhere
    BY DEF HeadOf, LogOf, Nowhere
  <2>2. previous = [Blank EXCEPT !.head = HeadOf(0), !.log = LogOf(0)]
    OBVIOUS
  <2>3. previous \in Snapshot
    BY <1>4, <2>1, <2>2 DEF Snapshot
  <2> QED
    BY <1>4, <2>3 DEF WatcherTyped, WatcherStage
<1>6. SessionTyped
  BY <1>4 DEF SessionTyped, SessionStage, Nowhere
<1>7. LockOK /\ SessionOK /\ ScanOK
  BY DEF LockOK, SessionOK, ScanOK, EventsInit, Owner, Nowhere
<1> QED
  BY <1>1, <1>2, <1>3, <1>5, <1>6, <1>7 DEF FeedInv

\* Every step keeps the invariant.
LEMMA FeedSteady ==
  ASSUME FeedConstants, FeedInv, [FeedNext]_feedVars
  PROVE  FeedInv'
<1>1. CASE FeedNext
  <2> PICK c : FeedStepOf(c)
    BY <1>1, FeedSteps
  <2>1. EventsInv'
    BY FeedStepIsEventStep, EventsKept DEF FeedInv, FeedConstants
  <2> QED
    BY <2>1, HeadTypedStep, RegistryTypedStep, WatcherTypedStep, SessionTypedStep, LockOKStep,
       SessionOKStep, ScanOKStep DEF FeedInv
<1>2. CASE UNCHANGED feedVars
  <2>1. EventStep
    BY <1>2 DEF EventStep, feedVars
  <2>2. EventsInv'
    BY <2>1, EventsKept DEF FeedInv, FeedConstants
  <2>3. UNCHANGED <<eventVars, headVars, registryVars, watcherVars, sessionVars>>
    BY <1>2 DEF feedVars
  <2>4. HeadTyped' /\ RegistryTyped' /\ WatcherTyped' /\ SessionTyped'
    BY <2>3 DEF FeedInv, HeadTyped, RegistryTyped, WatcherTyped, SessionTyped, headVars,
       registryVars, watcherVars, sessionVars, Union
  <2>5. LockOK' /\ SessionOK' /\ ScanOK'
    BY <2>3 DEF FeedInv, LockOK, SessionOK, ScanOK, eventVars, headVars,
       registryVars, watcherVars, sessionVars, Union
  <2> QED
    BY <2>2, <2>4, <2>5 DEF FeedInv
<1> QED
  BY <1>1, <1>2

\* The inductive invariant of the feed.
THEOREM FeedInvariant ==
  ASSUME FeedConstants
  PROVE  FeedSpec => []FeedInv
<1>1. FeedInit => FeedInv
  BY FeedStarts
<1>2. FeedInv /\ [FeedNext]_feedVars => FeedInv'
  BY FeedSteady
<1> QED
  BY <1>1, <1>2, PTL DEF FeedSpec

\* Every envelope reaches a subscriber or it is told that it missed one, and every slot
\* is of a session that is served or about to be: the lists of Web/Events.hs.
THEOREM SubscribersServed ==
  ASSUME FeedConstants
  PROVE  FeedSpec => []SubscribersAreServed
<1>1. FeedInv => SubscribersAreServed
  BY DEF FeedInv, EventsInv, HeadTyped, RegistryTyped, WatcherTyped, SessionTyped, SessionOK,
     SubscribersAreServed, FeedTypeOK, NoOrphanSubscriber
<1> QED
  BY <1>1, FeedInvariant, PTL

\* A greater generation is never stamped on an older state of the repository.
THEOREM StampsAreInOrder ==
  ASSUME FeedConstants
  PROVE  FeedSpec => StampsInOrder
<1>1. FeedInv /\ FeedNext => StampsOrderly
  BY FeedSteps, StampsStep
<1>2. FeedInv /\ [FeedNext]_feedVars => [StampsOrderly]_feedVars
  BY <1>1
<1> QED
  BY <1>2, FeedInvariant, PTL DEF FeedSpec, StampsInOrder

\* The watcher publishes only what was scanned for the interests there are.
THEOREM PublicationIsCurrent ==
  ASSUME FeedConstants
  PROVE  FeedSpec => PublishesCurrentInterests
<1>1. FeedInv /\ FeedNext => PublishesCurrent
  BY FeedSteps, PublicationStep
<1>2. FeedInv /\ [FeedNext]_feedVars => [PublishesCurrent]_feedVars
  BY <1>1
<1> QED
  BY <1>2, FeedInvariant, PTL DEF FeedSpec, PublishesCurrentInterests
=============================================================================
