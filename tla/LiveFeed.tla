------------------------------- MODULE LiveFeed -------------------------------
(***************************************************************************)
(* How a browser learns that the repository has changed: the repository    *)
(* and its Git lock, the watcher of src/src/Adrai/Web/Watch.hs with its    *)
(* registry of active files, the subscriptions, publications and           *)
(* observations of Web/Application.hs, and the sessions of Web/Socket.hs.  *)
(*                                                                         *)
(* A version counts the changes of HEAD.  HEAD names one of two commits,   *)
(* which may return; the reflogs, which a scan reads after HEAD, tell      *)
(* every change apart.  Outsiders change the repository without the lock.  *)
(***************************************************************************)
EXTENDS Events

CONSTANTS
  File,         \* the worktree files a session may be interested in
  Nobody,       \* no owner of the lock
  ActiveLimit,  \* how many sessions may hold interests, 16 in the code
  LeaseLimit,   \* how many files they may be interested in, 256 in the code
  MaxVersion,   \* bounds the changes of the repository
  MaxEpoch      \* bounds the hints and the changes of interest

Owner == Client \cup {"watcher", "mutation"}

\* What the constants have to be.
FeedConstants ==
  /\ EventsConstants /\ IsFiniteSet(File)
  /\ {MaxVersion, MaxEpoch, LeaseLimit, ActiveLimit} \subseteq Nat
  /\ {"watcher", "mutation"} \cap Client = {} /\ Nobody \notin Owner

VARIABLES
  version,    \* the changes of HEAD so far
  lock,       \* the owner of the Git lock, or Nobody
  seen,       \* per owner, the version of HEAD it has read under the lock
  epoch,      \* the epoch of the active-file registry
  active,     \* the sessions it has registered
  interest,   \* per session, the files it is interested in
  watcher,    \* the stage of verificationLoop
  previous,   \* the last snapshot that was published
  observed,   \* the snapshot of this round
  session,    \* per client, its stage
  sample,     \* per client, the snapshot its subscription is based on
  before,     \* per client, the generation when that snapshot was started
  attempts,   \* per client, the attempts it has left
  dirty,      \* per client, an event asks it to fetch
  known,      \* per client, the version it shows
  stamped     \* history: the version that the last generation was stamped on

headVars == <<version, lock, seen, stamped>>
registryVars == <<epoch, active, interest>>
watcherVars == <<watcher, previous, observed>>
sessionVars == <<session, sample, before, attempts, dirty, known>>
feedVars == <<eventVars, headVars, registryVars, watcherVars, sessionVars>>

HeadOf(v) == v % 2
LogOf(v) == v
Nowhere == MaxVersion + 1      \* no version; a fact that is not read
Union == UNION {interest[c] : c \in Client}

\* The epoch and the interests a snapshot was started with, and its facts.
Snapshot == [epoch : 0..MaxEpoch, files : SUBSET File, failed : BOOLEAN,
             head : {0, 1, Nowhere}, log : 0..Nowhere]
Fresh == [epoch |-> epoch, files |-> Union, failed |-> FALSE,
          head |-> Nowhere, log |-> Nowhere]
Blank == [epoch |-> 0, files |-> {}, failed |-> FALSE, head |-> Nowhere, log |-> Nowhere]
Failed(s) == [s EXCEPT !.failed = TRUE, !.head = Nowhere, !.log = Nowhere]

\* RepositorySnapshots are equal whatever their epochs, and two failures may be: they are
\* when their texts are.
Same(s, t) ==
  \/ s.failed /\ t.failed
  \/ ~s.failed /\ ~t.failed /\ <<s.head, s.log, s.files>> = <<t.head, t.log, t.files>>

WatcherStage == {"sleep", "head", "log", "compare", "lock", "publish", "stopped"}
SessionStage == {"off", "start", "head", "log", "lock", "register", "confirm",
                 "retry", "live", "leaving", "lost"}

FeedTypeOK ==
  /\ EventsTypeOK
  /\ version \in 0..MaxVersion
  /\ lock \in Owner \cup {Nobody}
  /\ seen \in [Owner -> 0..Nowhere]
  /\ epoch \in 0..MaxEpoch
  /\ active \subseteq Client /\ Cardinality(active) <= ActiveLimit
  /\ interest \in [Client -> SUBSET File] /\ Cardinality(Union) <= LeaseLimit
  /\ watcher \in WatcherStage /\ previous \in Snapshot /\ observed \in Snapshot
  /\ session \in [Client -> SessionStage] /\ sample \in [Client -> Snapshot]
  /\ before \in [Client -> 0..MaxGeneration] /\ attempts \in [Client -> 0..2]
  /\ dirty \in [Client -> BOOLEAN] /\ known \in [Client -> 0..Nowhere]
  /\ stamped \in 0..MaxVersion

\* Nobody is connected, and the watcher is at some stage.
Unconnected(stage) ==
  /\ EventsInit
  /\ version = 0 /\ lock = Nobody /\ seen = [o \in Owner |-> Nowhere]
  /\ stamped = 0
  /\ epoch = 0 /\ active = {} /\ interest = [c \in Client |-> {}]
  /\ watcher = stage /\ observed = Blank
  /\ previous = [Blank EXCEPT !.head = HeadOf(0), !.log = LogOf(0)]
  /\ session = [c \in Client |-> "off"] /\ sample = [c \in Client |-> Blank]
  /\ before = [c \in Client |-> 0] /\ attempts = [c \in Client |-> 0]
  /\ dirty = [c \in Client |-> FALSE] /\ known = [c \in Client |-> Nowhere]

FeedInit == Unconnected("sleep")

\* Mutant: the lock excludes nobody.
TakeAnyway(who, v) ==
  /\ lock' = who
  /\ seen' = [seen EXCEPT ![who] = v]

\* withGitLock; v is what the protected action finds at HEAD first.
Take(who, v) ==
  /\ lock = Nobody /\ lock' = who
  /\ seen' = [seen EXCEPT ![who] = v]

Give(who) == lock' = Nobody /\ seen' = [seen EXCEPT ![who] = Nowhere]

\* What the owner has read is stamped with the generation it takes.
Stamp(who) == stamped' = seen[who]

(***************************************************************************)
(* The repository and the requests.                                        *)
(***************************************************************************)
\* git, run by somebody else.
ExternalChange ==
  /\ version < MaxVersion /\ version' = version + 1
  /\ UNCHANGED <<eventVars, lock, seen, stamped, registryVars, watcherVars, sessionVars>>

\* signalHint: a file system notification, of a change that matters or not.
Hint ==
  /\ epoch < MaxEpoch /\ epoch' = epoch + 1
  /\ UNCHANGED <<eventVars, headVars, active, interest, watcherVars, sessionVars>>

\* A mutation moves the branch under the lock.
MutationSwaps ==
  /\ version < MaxVersion /\ version' = version + 1
  /\ Take("mutation", version + 1)
  /\ UNCHANGED <<eventVars, stamped, registryVars, watcherVars, sessionVars>>

\* "A successful mutation publishes its commit generation after the ref CAS and
\* before releasing that lock"; when the clock is exhausted it only warns.
MutationPublishes ==
  /\ seen["mutation"] # Nowhere
  /\ \/ PublishInvalidation /\ Stamp("mutation")
     \/ Exhausted /\ SeeTerminal /\ UNCHANGED stamped
  /\ Give("mutation")
  /\ UNCHANGED <<version, registryVars, watcherVars, sessionVars>>

\* A request that observes nothing takes a generation, without the lock.
OtherRequest ==
  /\ \/ Allocate
     \/ Exhausted /\ ~terminal /\ SeeTerminal
  /\ UNCHANGED <<version, lock, seen, stamped, registryVars, watcherVars, sessionVars>>

(***************************************************************************)
(* The watcher: verificationLoop and publishWatcherEvent.                  *)
(***************************************************************************)
\* The last snapshot is for the next comparison, which does not look at its epoch.
Remember == previous' = [observed EXCEPT !.epoch = 0]

\* Every 250 ms.  The epoch and the interests are read in one transaction.
StartScan ==
  /\ watcher = "sleep" /\ watcher' = "head" /\ observed' = Fresh
  /\ UNCHANGED <<eventVars, headVars, registryVars, previous, sessionVars>>

ScanHead ==
  /\ watcher = "head" /\ watcher' = "log"
  /\ observed' = [observed EXCEPT !.head = HeadOf(version)]
  /\ UNCHANGED <<eventVars, headVars, registryVars, previous, sessionVars>>

ScanLog ==
  /\ watcher = "log" /\ watcher' = "compare"
  /\ observed' = [observed EXCEPT !.log = LogOf(version)]
  /\ UNCHANGED <<eventVars, headVars, registryVars, previous, sessionVars>>

ScanFails ==
  /\ watcher \in {"head", "log"} /\ watcher' = "compare"
  /\ observed' = Failed(observed)
  /\ UNCHANGED <<eventVars, headVars, registryVars, previous, sessionVars>>

Unchanged ==
  /\ watcher = "compare" /\ Same(observed, previous)
  /\ watcher' = "sleep" /\ Remember /\ observed' = Blank
  /\ UNCHANGED <<eventVars, headVars, registryVars, sessionVars>>

\* A failure may be another one than the last.  throwIfTerminal comes before the lock; GenerationExhausted ends the loop.
Changed ==
  /\ watcher = "compare" /\ (observed.failed \/ ~Same(observed, previous))
  /\ \/ ~Exhausted /\ watcher' = "lock" /\ UNCHANGED eventVars
     \/ Exhausted /\ watcher' = "stopped" /\ SeeTerminal
  /\ UNCHANGED <<headVars, registryVars, previous, observed, sessionVars>>

TakeLock ==
  /\ watcher = "lock" /\ watcher' = "publish"
  /\ Take("watcher", version)
  /\ UNCHANGED <<eventVars, version, stamped, registryVars, previous, observed, sessionVars>>

\* Mutant: the epoch of the scan is not looked at.
AdmissibleHead == observed.failed \/ HeadOf(seen["watcher"]) = observed.head

\* HEAD is still what the scan found, and no hint or interest came after it.
Admissible ==
  /\ observed.failed \/ HeadOf(seen["watcher"]) = observed.head
  /\ observed.epoch = epoch

PublishObserved ==
  /\ watcher = "publish" /\ Admissible
  /\ PublishInvalidation
  /\ IF observed.failed THEN UNCHANGED stamped ELSE Stamp("watcher")
  /\ watcher' = "sleep" /\ Remember /\ observed' = Blank
  /\ Give("watcher")
  /\ UNCHANGED <<version, registryVars, sessionVars>>

\* Mutant: what could not be published counts as published.
SupersededForGood ==
  /\ \/ watcher = "publish" /\ ~Admissible /\ Give("watcher")
     \/ watcher = "lock" /\ lock # Nobody /\ UNCHANGED <<lock, seen>>
  /\ watcher' = "sleep" /\ Remember /\ observed' = Blank
  /\ UNCHANGED <<eventVars, version, stamped, registryVars, sessionVars>>

\* Superseded, or a busy lock: the next round compares with the old snapshot.
Superseded ==
  /\ \/ watcher = "publish" /\ ~Admissible /\ Give("watcher")
     \/ watcher = "lock" /\ lock # Nobody /\ UNCHANGED <<lock, seen>>
  /\ watcher' = "sleep" /\ observed' = Blank
  /\ UNCHANGED <<eventVars, version, stamped, registryVars, previous, sessionVars>>

PublicationExhausted ==
  /\ watcher = "publish" /\ Exhausted
  /\ SeeTerminal /\ watcher' = "stopped" /\ Give("watcher")
  /\ UNCHANGED <<version, stamped, registryVars, previous, observed, sessionVars>>

(***************************************************************************)
(* A session: authenticated in Web/Socket.hs, subscribeApplicationEvents.  *)
(***************************************************************************)
AtStage(c, stage) == session[c] = stage
Enter(c, stage) == session' = [session EXCEPT ![c] = stage]

\* registerActiveClient; above the limit the socket is closed.
Connect(c) ==
  /\ AtStage(c, "off") /\ Cardinality(active) < ActiveLimit
  /\ active' = active \cup {c}
  /\ Enter(c, "start") /\ attempts' = [attempts EXCEPT ![c] = 2]
  /\ UNCHANGED <<eventVars, headVars, epoch, interest, watcherVars, sample, before, dirty, known>>

StartSample(c) ==
  /\ AtStage(c, "start")
  /\ \/ ~Exhausted /\ Enter(c, "head") /\ sample' = [sample EXCEPT ![c] = Fresh]
        /\ before' = [before EXCEPT ![c] = generation] /\ UNCHANGED eventVars
     \/ Exhausted /\ SeeTerminal /\ Enter(c, "leaving") /\ UNCHANGED <<sample, before>>
  /\ UNCHANGED <<headVars, registryVars, watcherVars, attempts, dirty, known>>

SampleHead(c) ==
  /\ AtStage(c, "head") /\ Enter(c, "log")
  /\ sample' = [sample EXCEPT ![c].head = HeadOf(version)]
  /\ UNCHANGED <<eventVars, headVars, registryVars, watcherVars, before, attempts, dirty, known>>

\* The facts are complete, of which only HEAD is looked at again, or an explicit failure.
SampleRest(c) ==
  /\ AtStage(c, "log") /\ Enter(c, "lock")
  /\ \/ UNCHANGED sample
     \/ sample' = [sample EXCEPT ![c] = Failed(@)]
  /\ UNCHANGED <<eventVars, headVars, registryVars, watcherVars, before, attempts, dirty, known>>

\* Two seconds have passed, or the lock is busy.
SampleTimesOut(c) ==
  /\ session[c] \in {"head", "log"} \/ (AtStage(c, "lock") /\ lock # Nobody)
  /\ Enter(c, "retry")
  /\ UNCHANGED <<eventVars, headVars, registryVars, watcherVars, sample, before, attempts,
                 dirty, known>>

EpochMatches(c) == sample[c].epoch = epoch
Coherent(c) == generation = before[c] /\ EpochMatches(c)

\* Under the lock: the clock has not moved, the epoch and HEAD are the sample's.
\* A clock at its end is rejected before those are looked at.
TakeSampleLock(c) ==
  /\ AtStage(c, "lock") /\ Take(c, version)
  /\ Enter(c, IF \/ generation = MaxGeneration
                 \/ Coherent(c) /\ (sample[c].failed \/ sample[c].head = HeadOf(version))
                THEN "register" ELSE "retry")
  /\ UNCHANGED <<eventVars, version, stamped, registryVars, watcherVars, sample, before,
                 attempts, dirty, known>>

RegisterSubscriber(c) ==
  /\ AtStage(c, "register")
  /\ \/ /\ Register(c) /\ Enter(c, "confirm")
        /\ IF sample[c].failed THEN UNCHANGED stamped ELSE Stamp(c)
        /\ UNCHANGED <<lock, seen>>
     \/ Exhausted /\ SeeTerminal /\ Give(c) /\ Enter(c, "leaving") /\ UNCHANGED stamped
     \/ ~Exhausted /\ AtLimit /\ Give(c) /\ Enter(c, "leaving")
        /\ UNCHANGED <<eventVars, stamped>>
  /\ UNCHANGED <<version, registryVars, watcherVars, sample, before, attempts, dirty, known>>

Confirmed(c) == generation = before[c] + 1 /\ EpochMatches(c)

Ready(c) ==
  /\ AtStage(c, "confirm") /\ Confirmed(c)
  /\ Enter(c, "live") /\ Give(c)
  /\ sample' = [sample EXCEPT ![c] = Blank] /\ before' = [before EXCEPT ![c] = 0]
  /\ attempts' = [attempts EXCEPT ![c] = 0]
  /\ UNCHANGED <<eventVars, version, stamped, registryVars, watcherVars, dirty, known>>

\* Mutant: the registration is kept.
DiscardNothing(c) ==
  /\ AtStage(c, "confirm")
  /\ Enter(c, "retry") /\ Give(c)
  /\ UNCHANGED <<eventVars, version, stamped, registryVars, watcherVars, sample, before,
                 attempts, dirty, known>>

\* The clock or the epoch moved meanwhile, or the release of the lock raises.
Discard(c) ==
  /\ AtStage(c, "confirm")
  /\ Unregister(c) /\ Enter(c, "retry") /\ Give(c)
  /\ UNCHANGED <<version, stamped, registryVars, watcherVars, sample, before, attempts,
                 dirty, known>>

Retry(c) ==
  /\ AtStage(c, "retry")
  /\ IF lock = c THEN Give(c) ELSE UNCHANGED <<lock, seen>>
  /\ attempts' = [attempts EXCEPT ![c] = @ - 1]
  /\ sample' = [sample EXCEPT ![c] = Blank] /\ before' = [before EXCEPT ![c] = 0]
  /\ \/ attempts[c] > 1 /\ Enter(c, "start") /\ UNCHANGED eventVars
     \/ attempts[c] = 1 /\ Enter(c, "leaving") /\ SeeTerminal
  /\ UNCHANGED <<version, stamped, registryVars, watcherVars, dirty, known>>

\* The server cancels the session where its subscription waits: for a child of its
\* scan, or for the Git lock or its end.
Cancel(c) ==
  /\ session[c] \in {"head", "log", "lock", "register", "confirm"}
  /\ IF c \in subscribers THEN Unregister(c) ELSE UNCHANGED eventVars
  /\ IF lock = c THEN Give(c) ELSE UNCHANGED <<lock, seen>>
  /\ sample' = [sample EXCEPT ![c] = Blank] /\ before' = [before EXCEPT ![c] = 0]
  /\ attempts' = [attempts EXCEPT ![c] = 0] /\ Enter(c, "leaving")
  /\ UNCHANGED <<version, stamped, registryVars, watcherVars, dirty, known>>

\* It cancels it in the report of a second attempt: the lock is given back, nobody
\* owns the subscriber yet, and nobody will.  The slot is never used again.
CancelReport(c) ==
  /\ AtStage(c, "confirm") /\ Confirmed(c) /\ attempts[c] = 1
  /\ Give(c) /\ Enter(c, "lost") /\ active' = active \ {c}
  /\ sample' = [sample EXCEPT ![c] = Blank] /\ before' = [before EXCEPT ![c] = 0]
  /\ UNCHANGED <<eventVars, version, stamped, epoch, interest, watcherVars, attempts, dirty,
                 known>>

\* senderLoop: the browser is asked to fetch.
Deliver(c) ==
  /\ AtStage(c, "live") /\ ReadEvent(c)
  /\ dirty' = [dirty EXCEPT ![c] = TRUE]
  /\ UNCHANGED <<headVars, registryVars, watcherVars, session, sample, before, attempts, known>>

\* The browser fetches: captureRevision reads HEAD under the lock ...
FetchReads(c) ==
  /\ AtStage(c, "live") /\ dirty[c] /\ Take(c, version)
  /\ dirty' = [dirty EXCEPT ![c] = FALSE]
  /\ UNCHANGED <<eventVars, version, stamped, registryVars, watcherVars, session, sample,
                 before, attempts, known>>

\* ... and takes the generation of the answer before it gives the lock back.
FetchAnswers(c) ==
  /\ AtStage(c, "live") /\ seen[c] # Nowhere
  /\ \/ Allocate /\ Stamp(c) /\ known' = [known EXCEPT ![c] = seen[c]]
     \/ Exhausted /\ SeeTerminal /\ UNCHANGED <<stamped, known>>
  /\ Give(c)
  /\ UNCHANGED <<version, registryVars, watcherVars, session, sample, before, attempts, dirty>>

\* replaceActiveFiles: the epoch moves when the union does.
ReplaceFiles(c) ==
  /\ AtStage(c, "live")
  /\ \E files \in SUBSET File :
       /\ interest' = [interest EXCEPT ![c] = files]
       /\ Cardinality(UNION {interest'[d] : d \in Client}) <= LeaseLimit
       /\ epoch' = IF UNION {interest'[d] : d \in Client} = Union THEN epoch ELSE epoch + 1
  /\ epoch' <= MaxEpoch
  /\ UNCHANGED <<eventVars, headVars, active, watcherVars, sessionVars>>

\* The sender sees the overflow or the end of the clock; or the peer leaves.
MustClose(c) == AtStage(c, "live") /\ (terminal \/ overflow[c])

\* Mutant: the queue is emptied before the socket is closed.
EndDrainedSession(c) ==
  /\ AtStage(c, "live") /\ seen[c] = Nowhere /\ queue[c] = <<>>
  /\ Unregister(c) /\ Enter(c, "leaving")
  /\ dirty' = [dirty EXCEPT ![c] = FALSE] /\ known' = [known EXCEPT ![c] = Nowhere]
  /\ UNCHANGED <<headVars, registryVars, watcherVars, sample, before, attempts>>

\* The session's brackets give back the subscriber ...
EndSession(c) ==
  /\ AtStage(c, "live") /\ seen[c] = Nowhere
  /\ Unregister(c) /\ Enter(c, "leaving")
  /\ dirty' = [dirty EXCEPT ![c] = FALSE] /\ known' = [known EXCEPT ![c] = Nowhere]
  /\ UNCHANGED <<headVars, registryVars, watcherVars, sample, before, attempts>>

\* ... and then the interests.
ReleaseFiles(c) ==
  /\ AtStage(c, "leaving")
  /\ active' = active \ {c} /\ interest' = [interest EXCEPT ![c] = {}]
  /\ epoch' = IF UNION {interest'[d] : d \in Client} = Union THEN epoch ELSE epoch + 1
  /\ epoch' <= MaxEpoch
  /\ Enter(c, "off") /\ attempts' = [attempts EXCEPT ![c] = 0]
  /\ UNCHANGED <<eventVars, headVars, watcherVars, sample, before, dirty, known>>

ScanStep == StartScan \/ ScanHead \/ ScanLog
WatcherStep == Unchanged \/ Changed \/ Superseded \/ PublishObserved \/ PublicationExhausted
SubscribeStep(c) ==
  \/ StartSample(c) \/ SampleHead(c) \/ SampleRest(c) \/ RegisterSubscriber(c)
  \/ Ready(c) \/ Retry(c) \/ Deliver(c) \/ FetchAnswers(c)
  \/ (MustClose(c) /\ EndSession(c))

\* Every step but a hint, which supersedes the scan and the sample in flight.
Undisturbed ==
  \/ ExternalChange \/ MutationSwaps \/ MutationPublishes \/ OtherRequest
  \/ ScanStep \/ ScanFails \/ TakeLock \/ WatcherStep
  \/ \E c \in Client :
       \/ Connect(c) \/ SubscribeStep(c) \/ SampleTimesOut(c) \/ TakeSampleLock(c)
       \/ Discard(c) \/ FetchReads(c) \/ ReplaceFiles(c) \/ EndSession(c) \/ ReleaseFiles(c)
       \/ Cancel(c) \/ CancelReport(c)

FeedNext == Undisturbed \/ Hint

FeedSpec == FeedInit /\ [][FeedNext]_feedVars

\* Threads run; a waiter gets the lock, which admits callers in their order; and
\* not every scan fails.  Hints that never end keep everything from being published,
\* so this is of a repository whose hints have ended.
FeedFairness ==
  /\ WF_feedVars(MutationPublishes) /\ WF_feedVars(WatcherStep)
  /\ SF_feedVars(StartScan) /\ SF_feedVars(ScanHead)
  /\ SF_feedVars(ScanLog) /\ SF_feedVars(TakeLock)
  /\ \A c \in Client : WF_feedVars(SubscribeStep(c)) /\ SF_feedVars(FetchReads(c))
FeedFairSpec == FeedInit /\ [][Undisturbed]_feedVars /\ FeedFairness

(***************************************************************************)
(* Properties                                                              *)
(***************************************************************************)
\* "The HTTP observer, mutation publisher, watcher, and initial WebSocket resync
\* share one process generation order": a greater generation never stamped an
\* older state of the repository, even though outsiders change it at any time;
\* and the order ends with the clock, which stands still once its end was seen.
StampsOrderly ==
  /\ stamped' >= stamped /\ generation' >= generation
  /\ terminal => terminal' /\ generation' = generation /\ subscribers' \subseteq subscribers
StampsInOrder == [][StampsOrderly]_feedVars

\* A registered subscriber belongs to a session that serves it or is about to
\* confirm it: no failed or cancelled subscription keeps one of the few slots,
\* but one whose second attempt succeeded and was cancelled while it was reported.
NoOrphanSubscriber ==
  \A c \in Client : c \in subscribers => session[c] \in {"confirm", "live", "lost"}

\* Every envelope reaches a subscriber or it is told that it missed one, and nobody
\* holds a slot but a session that serves it or is about to, or was cancelled in its
\* report.
SubscribersAreServed == FeedTypeOK /\ NoSilentGap /\ NoOrphanSubscriber

\* The watcher publishes only what was scanned for the interests there are now.
PublishesCurrent ==
  (previous' # previous /\ published' # published) => previous'.files = Union
PublishesCurrentInterests == [][PublishesCurrent]_feedVars

\* "Periodic verification converges": a browser that shows an older version is
\* told and fetches, unless its session ends or the clock does; and a session
\* that has to be closed is, whatever its queue holds.
Converges ==
  \A c \in Client :
    /\ (AtStage(c, "live") /\ known[c] # version)
         ~> (~AtStage(c, "live") \/ known[c] = version \/ terminal)
    /\ MustClose(c) ~> ~AtStage(c, "live")
=============================================================================
