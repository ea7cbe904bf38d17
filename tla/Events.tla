-------------------------------- MODULE Events --------------------------------
(***************************************************************************)
(* The event coordinator of src/src/Adrai/Web/Events.hs: one process-wide  *)
(* generation, which is used up at maxBound, and a bounded queue for each  *)
(* subscriber.  Every operator is one transaction of the source; the       *)
(* modules that own the threads make actions of them.  An envelope is      *)
(* represented by its generation.                                          *)
(***************************************************************************)
EXTENDS Naturals, Sequences, FiniteSets

CONSTANTS
  Client,            \* the socket sessions; each has one subscriber at most
  MaxGeneration,     \* maxBound of the generation, 2^64 - 1 in the code
  QueueLimit,        \* the capacity of a subscriber's queue, 64 in the code
  SubscriberLimit    \* how many subscribers there may be, 16 in the code

\* What the constants have to be.
EventsConstants ==
  {MaxGeneration, QueueLimit, SubscriberLimit} \subseteq Nat \ {0}

VARIABLES
  generation,   \* the last generation handed out
  terminal,     \* has the clock been seen at its end?
  subscribers,  \* the registered clients
  queue,        \* per client, the envelopes not yet read
  overflow,     \* per client, has an envelope found the queue full?
  published,    \* history: how many envelopes went to all subscribers
  told          \* history: per client, how many of those it need not be told or has read

eventVars == <<generation, terminal, subscribers, queue, overflow, published, told>>

\* Queues hold generations that were handed out, in their order.
EventsTypeOK ==
  /\ generation \in 0..MaxGeneration
  /\ terminal \in BOOLEAN
  /\ subscribers \subseteq Client /\ Cardinality(subscribers) <= SubscriberLimit
  /\ queue \in [Client -> Seq(1..MaxGeneration)]
  /\ \A c \in Client : Len(queue[c]) <= QueueLimit
  /\ \A c \in Client : \A i, j \in DOMAIN queue[c] :
       /\ i < j => queue[c][i] < queue[c][j]
       /\ queue[c][i] <= generation
  /\ overflow \in [Client -> BOOLEAN]
  /\ published \in 0..MaxGeneration
  /\ told \in [Client -> 0..MaxGeneration]

EventsInit ==
  /\ generation = 0 /\ terminal = FALSE
  /\ subscribers = {} /\ queue = [c \in Client |-> <<>>]
  /\ overflow = [c \in Client |-> FALSE]
  /\ published = 0 /\ told = [c \in Client |-> 0]

Exhausted == terminal \/ generation = MaxGeneration

\* isGenerationExhausted, and the first lines of every other operation.
SeeTerminal ==
  /\ terminal' = (terminal \/ Exhausted)
  /\ UNCHANGED <<generation, subscribers, queue, overflow, published, told>>

\* Mutant: the clock wraps.
AllocateWrapping ==
  /\ generation' = (generation + 1) % (MaxGeneration + 1)
  /\ UNCHANGED <<terminal, subscribers, queue, overflow, published, told>>

\* nextEventGeneration
Allocate ==
  /\ ~Exhausted
  /\ generation' = generation + 1
  /\ UNCHANGED <<terminal, subscribers, queue, overflow, published, told>>

\* Mutant: what does not fit is dropped.
DropWhenFull(envelope) ==
  /\ queue' = [c \in Client |->
       IF c \in subscribers /\ Len(queue[c]) < QueueLimit
         THEN Append(queue[c], envelope) ELSE queue[c]]
  /\ UNCHANGED overflow

\* Mutant: the capacity is not looked at.
EnqueueAnyway(envelope) ==
  /\ queue' = [c \in Client |->
       IF c \in subscribers THEN Append(queue[c], envelope) ELSE queue[c]]
  /\ UNCHANGED overflow

\* enqueue for every subscriber: a full queue loses the envelope and is closed.
Enqueue(envelope) ==
  /\ queue' = [c \in Client |->
       IF c \in subscribers /\ ~overflow[c] /\ Len(queue[c]) < QueueLimit
         THEN Append(queue[c], envelope) ELSE queue[c]]
  /\ overflow' = [c \in Client |->
       overflow[c] \/ (c \in subscribers /\ Len(queue[c]) = QueueLimit)]

\* Mutant: the generation of the envelope is not taken.
PublishUncounted ==
  /\ ~Exhausted
  /\ Enqueue(generation + 1)
  /\ published' = published + 1
  /\ UNCHANGED <<generation, terminal, subscribers, told>>

\* publishInvalidation, and publishInvalidationWhen if it is admissible
PublishInvalidation ==
  /\ ~Exhausted
  /\ Enqueue(generation + 1)
  /\ generation' = generation + 1 /\ published' = published + 1
  /\ UNCHANGED <<terminal, subscribers, told>>

AtLimit == Cardinality(subscribers) >= SubscriberLimit

\* registerSubscriberWithInitial: the queue starts with the full resync.
Register(c) ==
  /\ ~Exhausted /\ ~AtLimit
  /\ subscribers' = subscribers \cup {c}
  /\ generation' = generation + 1
  /\ queue' = [queue EXCEPT ![c] = <<generation + 1>>]
  /\ overflow' = [overflow EXCEPT ![c] = FALSE]
  /\ told' = [told EXCEPT ![c] = published]
  /\ UNCHANGED <<terminal, published>>

\* readSubscriberEvent, when it has an envelope
ReadEvent(c) ==
  /\ ~terminal /\ ~overflow[c] /\ queue[c] # <<>>
  /\ queue' = [queue EXCEPT ![c] = Tail(@)]
  /\ told' = [told EXCEPT ![c] = @ + 1]
  /\ UNCHANGED <<generation, terminal, subscribers, overflow, published>>

\* unregisterSubscriber
Unregister(c) ==
  /\ subscribers' = subscribers \ {c}
  /\ queue' = [queue EXCEPT ![c] = <<>>]
  /\ overflow' = [overflow EXCEPT ![c] = FALSE]
  /\ told' = [told EXCEPT ![c] = 0]
  /\ UNCHANGED <<generation, terminal, published>>

\* A subscriber that is still served misses nothing that was published since
\* its resync: a queue that was full once is never served again.
NoSilentGap ==
  \A c \in subscribers : ~overflow[c] => told[c] + Len(queue[c]) = published + 1
=============================================================================
