----------------------------- MODULE Compilation -----------------------------
(***************************************************************************)
(* The single-flight coordinator of exact compilations                     *)
(* (src/src/Adrai/Service/Compilation.hs).  Callers join the flight of     *)
(* their key or are elected to start its producer thread; shutdown stops   *)
(* new elections, then cancels and joins the producers.  One atomically    *)
(* block is one action.  A flight is named by the caller elected for it.   *)
(***************************************************************************)
EXTENDS Naturals, FiniteSets

CONSTANTS
  Caller,          \* the threads that ask, each of them once
  Key,             \* repository binding and exact commit
  None,            \* neither a caller nor a key
  MaximumFlights   \* maximumFlights

\* What the constants have to be.
CompilationConstants ==
  None \notin Caller \cup Key /\ MaximumFlights \in Nat \ {0}

VARIABLES
  stopped,   \* coordinatorStopped
  flights,   \* coordinatorFlights: the flight of each key, or None
  result,    \* per flight, flightResult; "empty" until it is put
  worker,    \* per flight, flightWorker: "empty", "thread" or "failed"
  producer,  \* per flight, its thread: "none", "runs", "ended" or "gone"
  produced,  \* per flight, what the producer's try has caught
  doomed,    \* the flights whose thread has been sent a cancellation
  pc,        \* per caller
  key,       \* per caller, what it asks for
  joined,    \* per caller, the flight it waits for
  answer,    \* per caller, what it was told
  stopper,   \* the stage of stopCompilationCoordinator
  draining   \* the flights it has yet to wait for

flightVars == <<result, worker, producer, produced, doomed>>
callerVars == <<pc, key, joined, answer>>
stopVars == <<stopper, draining>>
vars == <<stopped, flights, flightVars, callerVars, stopVars>>

Ended == {"artifact", "error", "cancelled"}
Alive(f) == producer[f] \in {"runs", "ended"}
Flying == {k \in Key : flights[k] # None}

TypeOK ==
  /\ stopped \in BOOLEAN
  /\ flights \in [Key -> Caller \cup {None}]
  /\ result \in [Caller -> Ended \cup {"empty"}]
  /\ worker \in [Caller -> {"empty", "thread", "failed"}]
  /\ producer \in [Caller -> {"none", "runs", "ended", "gone"}]
  /\ produced \in [Caller -> Ended \cup {"empty"}]
  /\ doomed \subseteq Caller
  /\ pc \in [Caller -> {"idle", "fork", "record", "wait", "done"}]
  /\ key \in [Caller -> Key \cup {None}]
  /\ joined \in [Caller -> Caller \cup {None}]
  /\ answer \in [Caller -> Ended \cup {"none", "stopping", "full", "detached"}]
  /\ stopper \in {"idle", "collect", "cancel", "done", "abandoned"}
  /\ draining \subseteq Caller
  /\ Cardinality(Flying) <= MaximumFlights

Init ==
  /\ stopped = FALSE
  /\ flights = [k \in Key |-> None]
  /\ result = [f \in Caller |-> "empty"] /\ worker = [f \in Caller |-> "empty"]
  /\ producer = [f \in Caller |-> "none"] /\ produced = [f \in Caller |-> "empty"]
  /\ doomed = {}
  /\ pc = [c \in Caller |-> "idle"] /\ key = [c \in Caller |-> None]
  /\ joined = [c \in Caller |-> None] /\ answer = [c \in Caller |-> "none"]
  /\ stopper = "idle" /\ draining = {}

At(c, stage) == pc[c] = stage
Goto(c, stage) == pc' = [pc EXCEPT ![c] = stage]
Answer(c, told) == answer' = [answer EXCEPT ![c] = told] /\ Goto(c, "done")

(***************************************************************************)
(* acquireExactCompilationObserved                                         *)
(***************************************************************************)
Full == Cardinality(Flying) >= MaximumFlights

\* Mutant: a flight is started whether or not one exists.
ElectAlways(c, k) ==
  /\ ~stopped /\ ~Full
  /\ flights' = [flights EXCEPT ![k] = c]
  /\ joined' = [joined EXCEPT ![c] = c] /\ Goto(c, "fork")
  /\ UNCHANGED answer

\* The election, one transaction.
Elect(c, k) ==
  \/ /\ stopped
     /\ Answer(c, "stopping") /\ UNCHANGED <<flights, joined>>
  \/ /\ ~stopped /\ flights[k] # None
     /\ joined' = [joined EXCEPT ![c] = flights[k]] /\ Goto(c, "wait")
     /\ UNCHANGED <<flights, answer>>
  \/ /\ ~stopped /\ flights[k] = None /\ Full
     /\ Answer(c, "full") /\ UNCHANGED <<flights, joined>>
  \/ /\ ~stopped /\ flights[k] = None /\ ~Full
     /\ flights' = [flights EXCEPT ![k] = c]
     /\ joined' = [joined EXCEPT ![c] = c] /\ Goto(c, "fork")
     /\ UNCHANGED answer

Ask(c) ==
  /\ At(c, "idle")
  /\ \E k \in Key : key' = [key EXCEPT ![c] = k] /\ Elect(c, k)
  /\ UNCHANGED <<stopped, flightVars, stopVars>>

\* asyncWithUnmask, with asynchronous exceptions masked.
Fork(c) ==
  /\ At(c, "fork")
  /\ producer' = [producer EXCEPT ![c] = "runs"]
  /\ Goto(c, "record")
  /\ UNCHANGED <<stopped, flights, result, worker, produced, doomed, key, joined, answer,
                 stopVars>>

Record(c) ==
  /\ At(c, "record")
  /\ worker' = [worker EXCEPT ![c] = "thread"]
  /\ Goto(c, "wait")
  /\ UNCHANGED <<stopped, flights, result, producer, produced, doomed, key, joined,
                 answer, stopVars>>

\* Mutant: no result for the callers that have joined.
ForkFailsSilently(c) ==
  /\ At(c, "fork")
  /\ worker' = [worker EXCEPT ![c] = "failed"]
  /\ flights' = [flights EXCEPT ![key[c]] = None]
  /\ Goto(c, "wait")
  /\ UNCHANGED <<stopped, result, producer, produced, doomed, key, joined, answer, stopVars>>

\* Mutant: the worker is not recorded.
ForkFailsUnrecorded(c) ==
  /\ At(c, "fork")
  /\ result' = [result EXCEPT ![c] = "error"]
  /\ flights' = [flights EXCEPT ![key[c]] = None]
  /\ Goto(c, "wait")
  /\ UNCHANGED <<stopped, worker, producer, produced, doomed, key, joined, answer, stopVars>>

\* No thread: worker, result and removal are one transaction.
ForkFails(c) ==
  /\ At(c, "fork")
  /\ worker' = [worker EXCEPT ![c] = "failed"]
  /\ result' = [result EXCEPT ![c] = "error"]
  /\ flights' = [flights EXCEPT ![key[c]] = None]
  /\ Goto(c, "wait")
  /\ UNCHANGED <<stopped, producer, produced, doomed, key, joined, answer, stopVars>>

ReadResult(c) ==
  /\ At(c, "wait") /\ result[joined[c]] # "empty"
  /\ Answer(c, result[joined[c]])
  /\ UNCHANGED <<stopped, flights, flightVars, key, joined, stopVars>>

\* Mutant: the flight is cancelled with its waiter.
DetachWithFlight(c) ==
  /\ At(c, "wait")
  /\ doomed' = doomed \cup {joined[c]}
  /\ Answer(c, "detached")
  /\ UNCHANGED <<stopped, flights, result, worker, producer, produced, key, joined, stopVars>>

\* "A cancelled waiter detaches without affecting the owned producer."
Detach(c) ==
  /\ At(c, "wait")
  /\ Answer(c, "detached")
  /\ UNCHANGED <<stopped, flights, flightVars, key, joined, stopVars>>

(***************************************************************************)
(* runProducer                                                             *)
(***************************************************************************)
Produce(f) ==
  /\ producer[f] = "runs"
  /\ producer' = [producer EXCEPT ![f] = "ended"]
  /\ \E caught \in {"artifact", "error"} \cup (IF f \in doomed THEN {"cancelled"} ELSE {}) :
       produced' = [produced EXCEPT ![f] = caught]
  /\ UNCHANGED <<stopped, flights, result, worker, doomed, callerVars, stopVars>>

\* Mutant: the result is put, and the flight stays registered.
PublishOnly(f) ==
  /\ producer[f] = "ended"
  /\ producer' = [producer EXCEPT ![f] = "gone"]
  /\ result' = [result EXCEPT ![f] = produced[f]]
  /\ UNCHANGED <<stopped, flights, worker, produced, doomed, callerVars, stopVars>>

\* Result and removal are one transaction.
Publish(f) ==
  /\ producer[f] = "ended"
  /\ producer' = [producer EXCEPT ![f] = "gone"]
  /\ result' = [result EXCEPT ![f] = produced[f]]
  /\ flights' = [flights EXCEPT ![key[f]] = None]
  /\ UNCHANGED <<stopped, worker, produced, doomed, callerVars, stopVars>>

(***************************************************************************)
(* stopCompilationCoordinator                                              *)
(***************************************************************************)
Stop ==
  /\ stopper = "idle" /\ stopper' = "collect"
  /\ stopped' = TRUE
  /\ draining' = {flights[k] : k \in Flying}
  /\ UNCHANGED <<flights, flightVars, callerVars>>

\* Mutant: a flight whose worker is not recorded yet is left alone.
CollectThoseKnown ==
  /\ stopper = "collect" /\ stopper' = "cancel"
  /\ draining' = {f \in draining : worker[f] = "thread"}
  /\ UNCHANGED <<stopped, flights, flightVars, callerVars>>

\* Reading every worker waits for the callers that are still forking.
CollectWorkers ==
  /\ stopper = "collect"
  /\ \A f \in draining : worker[f] # "empty"
  /\ stopper' = "cancel"
  /\ draining' = {f \in draining : worker[f] = "thread"}
  /\ UNCHANGED <<stopped, flights, flightVars, callerVars>>

\* cancel sends the exception and waits for the thread; the threads go in the
\* order of their keys, here any order.
CancelWorker(f) ==
  /\ stopper = "cancel" /\ f \in draining
  /\ draining \cap doomed = {}
  /\ doomed' = doomed \cup {f}
  /\ UNCHANGED <<stopped, flights, result, worker, producer, produced, callerVars, stopVars>>

AwaitWorker(f) ==
  /\ stopper = "cancel" /\ f \in draining \cap doomed
  /\ producer[f] = "gone"
  /\ draining' = draining \ {f}
  /\ UNCHANGED <<stopped, flights, flightVars, callerVars, stopper>>

StopEnds ==
  /\ stopper = "cancel" /\ draining = {}
  /\ stopper' = "done"
  /\ UNCHANGED <<stopped, flights, flightVars, callerVars, draining>>

\* A second exception interrupts one of its waits.
StopInterrupted ==
  /\ stopper \in {"collect", "cancel"} /\ stopper' = "abandoned"
  /\ UNCHANGED <<stopped, flights, flightVars, callerVars, draining>>

CallerStep(c) == Fork(c) \/ Record(c) \/ ForkFails(c) \/ ReadResult(c)
ProducerStep(f) == Produce(f) \/ Publish(f)
StopperStep == CollectWorkers \/ StopEnds \/ (\E f \in Caller : CancelWorker(f) \/ AwaitWorker(f))

Next ==
  \/ \E c \in Caller : Ask(c) \/ CallerStep(c) \/ Detach(c) \/ ProducerStep(c)
  \/ Stop \/ StopperStep \/ StopInterrupted

Spec == Init /\ [][Next]_vars

(***************************************************************************)
(* Properties                                                              *)
(***************************************************************************)
\* Single flight: one key never has two producers at work, a producer that has
\* not published is the registered flight of its key, and there are never more
\* of them than the limit.  A registered flight is one of its key that has not
\* ended: what a caller that joins gets was produced for it, after it asked.  And
\* all variables keep their types, no more flights being registered than the limit.
SingleFlight ==
  /\ TypeOK
  /\ \A f \in Caller : Alive(f) => flights[key[f]] = f
  /\ \A k \in Flying : key[flights[k]] = k /\ result[flights[k]] = "empty"
  /\ Cardinality({f \in Caller : Alive(f)}) <= MaximumFlights

\* Nobody but the shutdown cancels a producer, so a waiter is told of a
\* cancellation only when the server stops; and when the shutdown is over no
\* producer is left and none will start, although callers were between their
\* election and the fork when it began.
StopDrains ==
  /\ (\E c \in Caller : answer[c] = "cancelled") => stopped
  /\ stopper = "done" => \A f \in Caller : ~Alive(f) /\ ~At(f, "fork")

\* Nobody waits for what will not come: as long as a caller has no answer or the
\* shutdown is not over, some caller, producer or the shutdown itself can take a
\* step, also after a failed fork and when the shutdown meets an election.  (No
\* step can be taken twice, so scheduled threads all end.)
NobodyIsStuck ==
  \/ /\ \A c \in Caller : pc[c] \in {"idle", "done"}
     /\ stopper \notin {"collect", "cancel"}
  \/ ENABLED (StopperStep \/ \E c \in Caller : CallerStep(c) \/ ProducerStep(c))
=============================================================================
